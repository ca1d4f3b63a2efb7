--------------------------- MODULE LeaderElection ---------------------------
(***************************************************************************)
(* concurrency/threads/leaderElection.c: a master thread sends heartbeats  *)
(* and followers promote themselves when there is none.  Every step of a   *)
(* thread is one critical section of lock, and the sleep before it.  Time  *)
(* is in seconds; a thread may be late, but takes its next step no more    *)
(* than MaxIdle seconds after the last one.                                *)
(***************************************************************************)
EXTENDS Integers

CONSTANTS NumThreads,   \* NUM_THREADS
          Interval,     \* HEARTBEAT_INTERVAL
          Timeout,      \* HEARTBEAT_TIMEOUT
          Beats,        \* the heartbeats of one master
          MaxIdle       \* bound on how late a thread is

VARIABLES master_id, master_alive,
          age,    \* time(NULL) - last_heartbeat_time, up to Timeout + 1
          pc,     \* what the thread runs: its loop or its end
          beats,  \* heartbeats the thread has sent as master
          idle    \* seconds since the thread's last step

shared == <<master_id, master_alive, age>>
vars == <<shared, pc, beats, idle>>

Nodes == 0 .. NumThreads - 1

\* main: thread 0 is the first master, the others are followers.
Init == /\ master_id = 0 /\ master_alive = TRUE /\ age = 0
        /\ pc = [t \in Nodes |-> IF t = 0 THEN "master" ELSE "new"]
        /\ beats = [t \in Nodes |-> 0]
        /\ idle = [t \in Nodes |-> 0]

Step(t, at) == /\ pc[t] = at
               /\ idle' = [idle EXCEPT ![t] = 0]

Heartbeat(t) ==
    /\ Step(t, "master") /\ beats[t] < Beats /\ idle[t] >= Interval
    /\ age' = 0
    /\ beats' = [beats EXCEPT ![t] = @ + 1]
    /\ UNCHANGED <<master_id, master_alive, pc>>

\* The master stops, whether or not it is still the one that is recorded.
Stop(t) ==
    /\ Step(t, "master") /\ beats[t] = Beats
    /\ master_alive' = FALSE
    /\ pc' = [pc EXCEPT ![t] = "done"]
    /\ UNCHANGED <<master_id, age, beats>>

master_thread(t) == Heartbeat(t) \/ Stop(t)

\* Mutant: a heartbeat that is just in time is too late.
NoMaster_Early == ~master_alive \/ age >= Timeout

\* What the follower finds once it has looked at the clock.
NoMaster == ~master_alive \/ age > Timeout

Promote(t) ==
    /\ master_id' = t /\ master_alive' = TRUE /\ age' = 0
    /\ pc' = [pc EXCEPT ![t] = "master"]

\* A follower's first look comes at once, the others after a second's sleep.
follower_thread(t) ==
    /\ Step(t, "new") \/ (Step(t, "waiting") /\ idle[t] >= 1)
    /\ IF NoMaster THEN Promote(t)
       ELSE /\ pc' = [pc EXCEPT ![t] = "waiting"]
            /\ UNCHANGED shared
    /\ UNCHANGED beats

Tick ==
    /\ \A t \in Nodes : pc[t] # "done" => idle[t] < MaxIdle
    /\ \E t \in Nodes : pc[t] # "done"
    /\ idle' = [t \in Nodes |-> IF pc[t] = "done" THEN 0 ELSE idle[t] + 1]
    /\ age' = IF age > Timeout THEN age ELSE age + 1
    /\ UNCHANGED <<master_id, master_alive, pc, beats>>

\* main joins every thread and returns.
Terminated == (\A t \in Nodes : pc[t] = "done") /\ UNCHANGED vars

Next == \/ \E t \in Nodes : master_thread(t) \/ follower_thread(t)
        \/ Tick \/ Terminated

Spec == Init /\ [][Next]_vars

FairSpec == /\ Spec /\ WF_vars(Tick)
            /\ \A t \in Nodes : WF_vars(master_thread(t)) /\ WF_vars(follower_thread(t))
-----------------------------------------------------------------------------
TypeOK == /\ master_id \in Nodes /\ master_alive \in BOOLEAN
          /\ age \in 0 .. Timeout + 1
          /\ pc \in [Nodes -> {"master", "new", "waiting", "done"}]
          /\ beats \in [Nodes -> 0 .. Beats]
          /\ idle \in [Nodes -> 0 .. MaxIdle]

Leads(t) == pc[t] = "master"

\* While no thread is later than the timeout allows, no two threads are master
\* at once: followers never promote themselves over a master that is running.
OneMaster == \A t, u \in Nodes : Leads(t) /\ Leads(u) => t = u

\* The shared record tells the truth in every state: a thread is running as
\* master exactly when it is recorded and marked alive.
MasterIsRecorded == \A t \in Nodes : Leads(t) <=> (master_alive /\ master_id = t)

\* Both: while no thread is later than the timeout there is one master at a time,
\* the one the shared record names.
OneRecordedMaster == OneMaster /\ MasterIsRecorded

\* However late the threads are, each is master for a while and returns, so
\* the joins of main end.
AllFinish == <>[](\A t \in Nodes : pc[t] = "done")

\* "If there is no master, elect a new one": a follower promotes itself only if
\* the recorded master has stopped or has been silent for longer than the timeout.
ElectsOnlyIfNoMaster ==
    [][\A t \in Nodes : ~Leads(t) /\ Leads(t)' => ~Leads(master_id) \/ age > Timeout]_vars
-----------------------------------------------------------------------------
(***************************************************************************)
(* For any number of threads, as long as the bound on how late a thread is *)
(* does not exceed the timeout.  The record alone is not inductive: that   *)
(* followers find no silent master follows from the age of the last        *)
(* heartbeat, which is never more than what the master has been idle.      *)
(***************************************************************************)
Timely ==
    /\ NumThreads \in Nat \ {0} /\ Interval \in Nat /\ Timeout \in Nat
    /\ Beats \in Nat /\ MaxIdle \in Nat /\ MaxIdle <= Timeout

\* A recorded master was idle for no less than the age of its heartbeat.
HeartbeatIsFresh == master_alive => age <= idle[master_id]

ElectionInv == TypeOK /\ MasterIsRecorded /\ HeartbeatIsFresh
=============================================================================

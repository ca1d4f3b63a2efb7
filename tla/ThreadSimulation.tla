-------------------------- MODULE ThreadSimulation --------------------------
(***************************************************************************)
(* concurrency/threads/multiThreadingSingleCPU.c: threads work on their    *)
(* caches, flush them, yield and wait on one condition variable that the   *)
(* scheduler and every yielding thread signal.  main stops them all.       *)
(* What the lines hold, and the iteration counts, are left out.            *)
(***************************************************************************)
EXTENDS Integers, FiniteSets, CondVar

CONSTANTS N,          \* NUM_THREADS
          Lines,      \* NUM_CACHE_LINES of them
          Accesses    \* how many accesses a thread makes before it yields

Threads == 0 .. N - 1
Scheduler == N
Main == N + 1

VARIABLES state,        \* CacheLineState of the lines of each thread's cache
          left,         \* accesses left in a thread's for loop
          is_running, simulation_running, current_thread

vars == <<pc, state, left, is_running, simulation_running, current_thread>>

Init == /\ pc = [p \in 0 .. N + 1 |-> IF p = Main THEN "sleep" ELSE "loop"]
        /\ state = [t \in Threads |-> [l \in Lines |-> "INVALID"]]
        /\ left = [t \in Threads |-> 0]
        /\ is_running = [t \in Threads |-> FALSE]
        /\ simulation_running = TRUE
        /\ current_thread = 0

\* while (simulation_running), in a thread and in the scheduler.
loop(p, body) ==
    /\ pc[p] = "loop"
    /\ Goto(p, IF simulation_running THEN body ELSE "done")
    /\ UNCHANGED <<state, is_running, simulation_running, current_thread>>

cache_read(s) == IF s = "INVALID" THEN "SHARED" ELSE s
cache_write(s) == "MODIFIED"

work(t) ==
    /\ pc[t] = "work"
    /\ \/ /\ left[t] > 0
          /\ \E l \in Lines : \E s \in {cache_read(state[t][l]), cache_write(state[t][l])} :
                state' = [state EXCEPT ![t][l] = s]
          /\ left' = [left EXCEPT ![t] = @ - 1]
          /\ UNCHANGED pc
       \/ /\ left[t] = 0
          /\ Goto(t, "yield")
          /\ UNCHANGED <<state, left>>
    /\ UNCHANGED <<is_running, simulation_running, current_thread>>

flush_cache(cache) == [l \in Lines |-> IF cache[l] = "MODIFIED" THEN "INVALID" ELSE cache[l]]

\* The context switch: everything up to the signal is under scheduler_mutex.
yield(t) ==
    /\ pc[t] = "yield"
    /\ state' = [state EXCEPT ![t] = flush_cache(@)]
    /\ is_running' = [is_running EXCEPT ![t] = FALSE]
    /\ Signal(t, "woken", "wait", "woken")
    /\ UNCHANGED <<left, simulation_running, current_thread>>

\* The waiting loop, under scheduler_mutex again.
check(t) ==
    /\ pc[t] = "woken"
    /\ Goto(t, IF ~is_running[t] /\ simulation_running THEN "wait" ELSE "loop")
    /\ UNCHANGED <<state, left, is_running, simulation_running, current_thread>>

wakes_up(t) ==
    /\ Spurious(t, "wait", "woken")
    /\ UNCHANGED <<state, left, is_running, simulation_running, current_thread>>

thread_function(t) ==
    \/ loop(t, "work") /\ left' = [left EXCEPT ![t] = Accesses]
    \/ work(t) \/ yield(t) \/ check(t)

scheduler_activate ==
    /\ pc[Scheduler] = "activate"
    /\ is_running' = [is_running EXCEPT ![current_thread] = TRUE]
    /\ Signal(Scheduler, "loop", "wait", "woken")
    /\ current_thread' = (current_thread + 1) % N
    /\ UNCHANGED <<state, left, simulation_running>>

scheduler == \/ loop(Scheduler, "activate") /\ UNCHANGED left
             \/ scheduler_activate

\* Mutant: the flag is cleared after the broadcast.
stop_Late ==
    /\ \/ /\ pc[Main] = "sleep" /\ Broadcast(Main, "broadcast", "wait", "woken")
          /\ UNCHANGED simulation_running
       \/ pc[Main] = "broadcast" /\ simulation_running' = FALSE /\ Goto(Main, "join")
    /\ UNCHANGED <<state, left, is_running, current_thread>>

\* main clears the flag without the mutex, and broadcasts with it.
stop ==
    /\ \/ pc[Main] = "sleep" /\ simulation_running' = FALSE /\ Goto(Main, "broadcast")
       \/ /\ pc[Main] = "broadcast" /\ Broadcast(Main, "join", "wait", "woken")
          /\ UNCHANGED simulation_running
    /\ UNCHANGED <<state, left, is_running, current_thread>>

join == /\ pc[Main] = "join" /\ \A p \in Threads \cup {Scheduler} : pc[p] = "done"
        /\ Goto(Main, "done")
        /\ UNCHANGED <<state, left, is_running, simulation_running, current_thread>>

Done == pc[Main] = "done" /\ UNCHANGED vars

Next == \/ \E t \in Threads : thread_function(t) \/ wakes_up(t)
        \/ scheduler \/ stop \/ join \/ Done

\* Every thread of the program is scheduled; a wait ends by itself only by chance.
Spec == /\ Init /\ [][Next]_vars
        /\ \A t \in Threads : WF_vars(thread_function(t))
        /\ WF_vars(scheduler) /\ WF_vars(stop) /\ WF_vars(join)
-----------------------------------------------------------------------------
\* Types, and the process counter stays within the program.
TypeOK ==
    /\ \A t \in Threads : pc[t] \in {"loop", "work", "yield", "woken", "wait", "done"}
    /\ pc[Scheduler] \in {"loop", "activate", "done"}
    /\ pc[Main] \in {"sleep", "broadcast", "join", "done"}
    /\ state \in [Threads -> [Lines -> {"MODIFIED", "SHARED", "INVALID"}]]
    /\ left \in [Threads -> 0 .. Accesses] /\ current_thread \in Threads
    /\ is_running \in [Threads -> BOOLEAN] /\ simulation_running \in BOOLEAN

\* A thread that has yielded holds no modified line until it works again, whatever
\* signals and activations reach it.
FlushedWhileWaiting ==
    \A t \in Threads : pc[t] \in {"woken", "wait", "loop", "done"} =>
        \A l \in Lines : state[t][l] # "MODIFIED"

\* main comes to its end: clearing the flag outside the mutex leaves no thread
\* asleep, since the broadcast is inside.
Terminates == <>[](pc[Main] = "done")
=============================================================================

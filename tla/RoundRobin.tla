----------------------------- MODULE RoundRobin -----------------------------
(***************************************************************************)
(* os/process/scheduler/round_robin.c: passes over an array of processes,  *)
(* each of which gets at most a quantum per pass.  One action per turn of  *)
(* the inner loop, one for the end of a pass.                              *)
(***************************************************************************)
EXTENDS Integers, FiniteSetsExt

CONSTANTS N,          \* the number of processes
          Quantum,    \* TIME_QUANTUM
          Arrivals, Bursts,   \* the times callers choose from
          Set,        \* whether callers set remaining_time to the burst time
          MaxTime     \* bound on current_time

VARIABLES arrival_time, burst_time, remaining_time, completion_time,   \* of each process
          current_time, completed, i, any_executed

given == <<arrival_time, burst_time>>
vars == <<given, remaining_time, completion_time, current_time, completed, i, any_executed>>

Procs == 1 .. N

\* The rows of main give 0 for the fourth field, remaining_time.
Init == /\ arrival_time \in [Procs -> Arrivals]
        /\ burst_time \in [Procs -> Bursts]
        /\ remaining_time = [p \in Procs |-> IF Set THEN burst_time[p] ELSE 0]
        /\ completion_time = [p \in Procs |-> 0]
        /\ current_time = 0 /\ completed = 0 /\ i = 1 /\ any_executed = FALSE

Ready(p) == remaining_time[p] > 0 /\ arrival_time[p] <= current_time

\* Mutant: the process keeps the processor until it is finished.
ExecutionTime_All(p) == remaining_time[p]

ExecutionTime(p) == IF remaining_time[p] > Quantum THEN Quantum ELSE remaining_time[p]

Execute(p) ==
    LET t == ExecutionTime(p)
    IN /\ remaining_time' = [remaining_time EXCEPT ![p] = @ - t]
       /\ current_time' = current_time + t
       /\ any_executed' = TRUE
       /\ IF remaining_time'[p] = 0
          THEN /\ completed' = completed + 1
               /\ completion_time' = [completion_time EXCEPT ![p] = current_time']
          ELSE UNCHANGED <<completed, completion_time>>

Turn == /\ completed < N \/ i > 1
        /\ i <= N /\ i' = i + 1
        /\ IF Ready(i) THEN Execute(i)
           ELSE UNCHANGED <<remaining_time, completion_time, current_time, completed, any_executed>>
        /\ UNCHANGED given

EndOfPass ==
    /\ i = N + 1 /\ i' = 1
    /\ current_time' = IF any_executed \/ current_time = MaxTime THEN current_time ELSE current_time + 1
    /\ any_executed' = FALSE
    /\ UNCHANGED <<given, remaining_time, completion_time, completed>>

round_robin_schedule == Turn \/ EndOfPass

Done == completed = N /\ i = 1

Next == round_robin_schedule \/ (Done /\ UNCHANGED vars)

Spec == Init /\ [][Next]_vars /\ WF_vars(round_robin_schedule)
-----------------------------------------------------------------------------
turnaround_time(p) == completion_time[p] - arrival_time[p]
waiting_time(p) == turnaround_time(p) - burst_time[p]

TypeOK == /\ remaining_time \in [Procs -> 0 .. Max(Bursts)]
          /\ current_time \in 0 .. MaxTime /\ i \in 1 .. N + 1 /\ any_executed \in BOOLEAN
          /\ completed = Cardinality({p \in Procs : remaining_time[p] = 0})

\* However the others arrive, a process waits for at most one quantum of each
\* other per quantum of its own and one more, for the pass it arrived in.
BoundedWaiting ==
    \A p \in Procs : completion_time[p] > 0 =>
        LET passes == (burst_time[p] + Quantum - 1) \div Quantum + 1
        IN /\ waiting_time(p) >= 0
           /\ waiting_time(p) <=
                MapThenSumSet(LAMBDA q : Min({burst_time[q], passes * Quantum}), Procs \ {p})

\* The processor idles only when no process has arrived that is not finished.
IdlesOnlyIfNothingReady ==
    [][(current_time' > current_time /\ remaining_time' = remaining_time) =>
          \A p \in Procs : ~Ready(p)]_vars

\* "Continue until all processes are completed": the loop ends.
AllComplete == <>[](completed = N)
=============================================================================

-------------------------------- MODULE Cfs --------------------------------
(***************************************************************************)
(* os/process/scheduler/completely_fair_scheduler.c: in every time unit    *)
(* the first process of the least virtual runtime runs.                    *)
(***************************************************************************)
EXTENDS Integers, FiniteSetsExt

CONSTANTS N,             \* the number of processes
          NiceValues,    \* the nice values they may have
          SimulationTime

VARIABLES nice_value, vruntime, time,
          units          \* time units each process has run

vars == <<nice_value, vruntime, time, units>>

Procs == 1 .. N
MAX_NICE == 19

calculate_weight(nice) == (MAX_NICE - nice + 1) * 100

\* What one time unit costs the process; the division is that of integers.
Cost(p) == (1 * 1024) \div calculate_weight(nice_value[p])

Init == /\ nice_value \in [Procs -> NiceValues]
        /\ vruntime = [p \in Procs |-> 0] /\ units = [p \in Procs |-> 0] /\ time = 0

update_vruntime(p) == vruntime' = [vruntime EXCEPT ![p] = @ + Cost(p)]

find_min_vruntime_process == Min({p \in Procs : \A q \in Procs : vruntime[p] <= vruntime[q]})

simulate_cfs ==
    /\ time < SimulationTime /\ time' = time + 1
    /\ update_vruntime(find_min_vruntime_process)
    /\ units' = [units EXCEPT ![find_min_vruntime_process] = @ + 1]
    /\ UNCHANGED nice_value

Next == simulate_cfs \/ (time = SimulationTime /\ UNCHANGED vars)
Spec == Init /\ [][Next]_vars
-----------------------------------------------------------------------------
\* Every time unit runs one process, and a process pays for each unit it ran.
UnitsAccounted == /\ \A p \in Procs : vruntime[p] = units[p] * Cost(p)
                  /\ MapThenSumSet(LAMBDA p : units[p], Procs) = time

\* For processes whose weight is below 1024, virtual runtimes stay together: no
\* process is ahead of another by more than the one unit it ran last.
StayTogether == \A p, q \in Procs : vruntime[p] <= vruntime[q] + Cost(p)

\* "High priority", "Low priority": at the end of the simulation a process with a
\* lower nice value has run at least as long as one with a higher one.
LowerNiceRunsMore ==
    time = SimulationTime =>
        \A p, q \in Procs : nice_value[p] < nice_value[q] => units[p] >= units[q] - 1
=============================================================================

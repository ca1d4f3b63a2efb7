---------------------------- MODULE PriorityAging ----------------------------
(***************************************************************************)
(* os/process/scheduler/priority_scheduling.c: the process of the highest  *)
(* priority runs for a time unit; all processes age, and are boosted at    *)
(* the threshold.  One action per turn of the scheduler's loop.            *)
(***************************************************************************)
EXTENDS Integers, FiniteSets, FiniteSetsExt

CONSTANTS N,            \* the number of processes
          Threshold,    \* the age of a boost
          Priorities, Bursts   \* what callers choose from

VARIABLES priority, age, remaining_time, completed,
          given,     \* the priorities callers gave
          ran        \* the process of the last time unit, 0 if none

vars == <<priority, age, remaining_time, completed, given, ran>>

Procs == 1 .. N

Init == /\ given \in [Procs -> Priorities] /\ priority = given
        /\ age \in [Procs -> 0 .. Threshold - 1]
        /\ remaining_time \in [Procs -> Bursts]
        /\ completed = 0 /\ ran = 0

Waiting == {p \in Procs : remaining_time[p] > 0}
Boosted == {p \in Waiting : age[p] + 1 >= Threshold}

\* Mutant: the process that runs does not age.
age_processes_NotRunning ==
    /\ priority' = [p \in Procs |-> IF p \in Boosted \ {ran} THEN priority[p] + 1 ELSE priority[p]]
    /\ age' = [p \in Procs |-> IF p \notin Waiting \ {ran} THEN age[p]
                               ELSE IF p \in Boosted THEN 0 ELSE age[p] + 1]

\* Every process that is not finished ages, the one that runs as well.
age_processes ==
    /\ priority' = [p \in Procs |-> IF p \in Boosted THEN priority[p] + 1 ELSE priority[p]]
    /\ age' = [p \in Procs |-> IF p \notin Waiting THEN age[p]
                               ELSE IF p \in Boosted THEN 0 ELSE age[p] + 1]

\* The first of the waiting processes of the highest priority.
get_highest_priority_process(prio) ==
    Min({p \in Waiting : \A q \in Waiting : prio[q] <= prio[p]})

Done == completed >= N

priority_schedule_with_aging ==
    /\ ~Done
    /\ age_processes
    /\ ran' = get_highest_priority_process(priority')
    /\ remaining_time' = [remaining_time EXCEPT ![ran'] = @ - 1]
    /\ completed' = IF remaining_time'[ran'] = 0 THEN completed + 1 ELSE completed
    /\ UNCHANGED given

Next == priority_schedule_with_aging \/ (Done /\ UNCHANGED vars)
Spec == Init /\ [][Next]_vars /\ WF_vars(priority_schedule_with_aging)
-----------------------------------------------------------------------------
TypeOK == /\ age \in [Procs -> 0 .. Threshold - 1]
          /\ remaining_time \in [Procs -> 0 .. Max(Bursts)]
          /\ \A p \in Procs : priority[p] >= given[p]

\* The count of completed processes, which ends the loop, is exact, so the branch
\* for "no process" is never taken.
CountIsExact == completed = N - Cardinality(Waiting)

\* Aging changes the order by one step at most: a process never runs while one
\* waits whose given priority is higher by more than one, however long that takes.
OrderIsKept ==
    [][ran' # 0 => \A q \in Waiting : given[q] <= given[ran'] + 1]_vars

\* All processes complete.
AllComplete == <>[](completed = N)
=============================================================================

-------------------------------- MODULE Fcfs --------------------------------
(***************************************************************************)
(* os/process/scheduler/firt_come_first_serve.c: processes run to their    *)
(* end in array order.  One action per turn of the loop.                   *)
(***************************************************************************)
EXTENDS Integers, FiniteSetsExt

CONSTANTS N, Arrivals, Bursts   \* the number of processes, and their times

VARIABLES arrival_time, burst_time,
          completion_time, turnaround_time, waiting_time,   \* of each process
          current_time, i

vars == <<arrival_time, burst_time, completion_time, turnaround_time, waiting_time, current_time, i>>

Procs == 1 .. N

Init == /\ arrival_time \in [Procs -> Arrivals] /\ burst_time \in [Procs -> Bursts]
        /\ completion_time = [p \in Procs |-> 0] /\ turnaround_time = [p \in Procs |-> 0]
        /\ waiting_time = [p \in Procs |-> 0]
        /\ current_time = 0 /\ i = 1

StartTime == IF current_time < arrival_time[i] THEN arrival_time[i] ELSE current_time

fcfs_schedule ==
    /\ i <= N /\ i' = i + 1
    /\ completion_time' = [completion_time EXCEPT ![i] = StartTime + burst_time[i]]
    /\ turnaround_time' = [turnaround_time EXCEPT ![i] = completion_time'[i] - arrival_time[i]]
    /\ waiting_time' = [waiting_time EXCEPT ![i] = turnaround_time'[i] - burst_time[i]]
    /\ current_time' = completion_time'[i]
    /\ UNCHANGED <<arrival_time, burst_time>>

Next == fcfs_schedule \/ (i > N /\ UNCHANGED vars)
Spec == Init /\ [][Next]_vars
-----------------------------------------------------------------------------
\* Waiting times, which the code computes by two subtractions, are never
\* negative and are the time between the arrival and the start.
WaitingTimes == /\ \A p \in 1 .. i - 1 : waiting_time[p] = completion_time[p] - burst_time[p] - arrival_time[p]
                /\ waiting_time \in [Procs -> Nat]

Work(j, k) == MapThenSumSet(LAMBDA p : burst_time[p], j .. k)

\* The completion time is that of the longest busy period: the latest of what
\* every earlier arrival, followed by all the work queued since, allows.
BusyPeriods ==
    \A k \in 1 .. i - 1 : completion_time[k] = Max({arrival_time[j] + Work(j, k) : j \in 1 .. k})
=============================================================================

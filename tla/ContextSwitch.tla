--------------------------- MODULE ContextSwitch ---------------------------
(***************************************************************************)
(* concurrency/threads/contextSwitch/contextSwitchHandler.c: timer         *)
(* interrupts that count down the time slice of the current process and    *)
(* switch to the next one that is ready.  Register contents and memory     *)
(* contexts are left out; the clock advances by one per interrupt, and a   *)
(* switch takes a time from SwitchTimes.                                   *)
(***************************************************************************)
EXTENDS Integers, FiniteSetsExt

CONSTANTS Cycles,       \* the interrupts main simulates
          SwitchTimes   \* how long a switch may take

VARIABLES state, time_slice, total_time, last_ran, switches,   \* of each process
          current,                                   \* current_process
          current_index,                             \* of the scheduler
          context_switches, avg_time, max_time,      \* global_stats
          now

sched == <<state, time_slice, total_time, last_ran, switches>>
stats == <<context_switches, avg_time, max_time>>
vars == <<sched, current, current_index, stats, now>>

\* main: Init, Web_Server, Database and Backup.
NumProcesses == 4
Procs == 0 .. NumProcesses - 1
priority == [p \in Procs |-> CASE p = 0 -> 2 [] p = 1 -> 1 [] p = 2 -> 0 [] p = 3 -> 3]

calculate_time_slice(p) == 5 - (priority[p] % 5)

initialize_process ==
    /\ state = [p \in Procs |-> "RUNNING"]
    /\ time_slice = [p \in Procs |-> calculate_time_slice(p)]
    /\ total_time = [p \in Procs |-> 0] /\ last_ran = [p \in Procs |-> 0]
    /\ switches = [p \in Procs |-> [voluntary |-> 0, involuntary |-> 0]]

Init == /\ initialize_process
        /\ current = 0 /\ current_index = 0
        /\ context_switches = 0 /\ avg_time = 0 /\ max_time = 0 /\ now = 0

\* The first process behind current_index that is ready; the scan ends at
\* current_index itself.
scheduler_select_next ==
    LET nth(k) == (current_index + k) % NumProcesses
        ready == {k \in 1 .. NumProcesses : state[nth(k)] = "RUNNING"}
    IN IF ready = {} THEN current_index ELSE nth(Min(ready))

\* Mutant: last_ran of the process that goes on is not set.
update_process_accounting_NoStart(prev, next, slices) ==
    /\ total_time' = [total_time EXCEPT ![prev] = @ + now' - last_ran[prev]]
    /\ time_slice' = [slices EXCEPT ![next] = calculate_time_slice(next)]
    /\ switches' = [switches EXCEPT ![prev].voluntary = @ + 1]
    /\ UNCHANGED last_ran

update_process_accounting(prev, next, slices) ==
    /\ total_time' = [total_time EXCEPT ![prev] = @ + now' - last_ran[prev]]
    /\ last_ran' = [last_ran EXCEPT ![next] = now']
    /\ time_slice' = [slices EXCEPT ![next] = calculate_time_slice(next)]
    /\ switches' = IF state'[prev] = "INTERRUPTIBLE"
                   THEN [switches EXCEPT ![prev].voluntary = @ + 1]
                   ELSE [switches EXCEPT ![prev].involuntary = @ + 1]

update_perf_stats(t) ==
    /\ context_switches' = context_switches + 1
    /\ avg_time' = (avg_time * context_switches + t) \div context_switches'
    /\ max_time' = IF t > max_time THEN t ELSE max_time

context_switch(prev, next, slices) ==
    /\ state' = [state EXCEPT ![prev] = "INTERRUPTIBLE", ![next] = "RUNNING"]
    /\ update_process_accounting(prev, next, slices)
    /\ current' = next
    /\ \E t \in SwitchTimes : update_perf_stats(t)

\* The slice is over, or rand() asks for a switch.
timer_interrupt_handler ==
    /\ now < Cycles /\ now' = now + 1
    /\ \E rand \in 0 .. 2 :
         LET slices == [time_slice EXCEPT ![current] = @ - 1]
             next == scheduler_select_next
         IN IF slices[current] = 0 \/ rand = 0
            THEN /\ current_index' = next
                 /\ IF next # current THEN context_switch(current, next, slices)
                    ELSE /\ time_slice' = [slices EXCEPT ![current] = calculate_time_slice(current)]
                         /\ UNCHANGED <<state, total_time, last_ran, switches, current, stats>>
            ELSE /\ time_slice' = slices
                 /\ UNCHANGED <<state, total_time, last_ran, switches, current, current_index, stats>>

Next == timer_interrupt_handler \/ (now = Cycles /\ UNCHANGED vars)

Spec == Init /\ [][Next]_vars
-----------------------------------------------------------------------------
\* Types; a slice is "between 1-5 ticks" whenever its process may run, so that
\* the test for zero never misses.
TypeOK == /\ state \in [Procs -> {"RUNNING", "INTERRUPTIBLE"}]
          /\ \A p \in Procs : time_slice[p] \in 0 .. 5 /\ (state[p] = "RUNNING" => time_slice[p] > 0)
          /\ current \in Procs /\ current_index \in Procs /\ now \in 0 .. Cycles

\* The scheduler's own index follows the process that runs, which is ready.
IndexFollowsCurrent == current_index = current /\ state[current] = "RUNNING"

\* All time up to the last switch is charged to some process, none twice.
TimeIsCharged ==
    MapThenSumSet(LAMBDA p : total_time[p], Procs) = last_ran[current]

\* The statistics agree: every switch is counted once with the process it left,
\* and the mean never exceeds the maximum.
StatsAgree ==
    /\ context_switches = MapThenSumSet(LAMBDA p : switches[p].voluntary + switches[p].involuntary, Procs)
    /\ avg_time <= max_time

\* However the random switches fall, every process has run once the slices of
\* all but the last one can have passed.
EveryoneRuns ==
    now >= MapThenSumSet(calculate_time_slice, Procs \ {NumProcesses - 1}) =>
        \A p \in Procs : p = current \/ total_time[p] > 0
=============================================================================

-------------------------- MODULE PreemptiveTimer ---------------------------
(***************************************************************************)
(* os/process/scheduler/preemptive_scheduler.c: main starts a timer whose  *)
(* signal handler charges the task one quantum at a time and frees it when *)
(* nothing is left, and polls until the task is gone.                      *)
(***************************************************************************)
EXTENDS Integers

CONSTANTS SIGVTALRM,    \* the number of the signal, which is what setitimer is given
          Quantum,      \* QUANTUM_MS
          Execution     \* the execution time of the task

VARIABLES timer,          \* external: the kernel's timer runs
          current_task,   \* its remaining_time, which is positive, or NULL
          pc              \* of main

vars == <<timer, current_task, pc>>

NULL == -1

Init == timer = FALSE /\ current_task = NULL /\ pc = "setup"

\* setitimer knows the timers 0, 1 and 2 (real, virtual and profiling time) and
\* refuses any other number.
setitimer(which) == timer' = (timer \/ which \in {0, 1, 2})

\* The result of setitimer is not looked at.
setup_timer ==
    /\ pc = "setup" /\ pc' = "create"
    /\ setitimer(SIGVTALRM)
    /\ UNCHANGED current_task

create_task ==
    /\ pc = "create" /\ pc' = "loop"
    /\ current_task' = Execution
    /\ UNCHANGED timer

\* The timer expires, again and again, and the handler runs.
timer_handler ==
    /\ timer /\ current_task # NULL
    /\ current_task' = IF current_task - Quantum <= 0 THEN NULL ELSE current_task - Quantum
    /\ UNCHANGED <<timer, pc>>

\* main sleeps and looks again until there is no task; is_running stays 1.
poll ==
    /\ pc = "loop"
    /\ pc' = IF current_task = NULL THEN "terminated" ELSE "loop"
    /\ UNCHANGED <<timer, current_task>>

Next == setup_timer \/ create_task \/ timer_handler \/ poll

Spec == Init /\ [][Next]_vars /\ WF_vars(Next) /\ WF_vars(timer_handler)
-----------------------------------------------------------------------------
\* The timer that setup_timer is to start ends the task, and with it the loop of
\* main.
Terminates == <>(pc = "terminated")
=============================================================================

---------------------------- MODULE CpuAffinity ----------------------------
(***************************************************************************)
(* concurrency/threads/multiThreadingInMultiCPU.c: one pthread per CPU     *)
(* takes up simulated threads, works, and lets them go.  Both parts of a   *)
(* round are under scheduler_mutex and are one action each; the lock of a  *)
(* CPU is only ever taken inside.                                          *)
(***************************************************************************)
EXTENDS Integers, FiniteSetsExt

CONSTANTS NumCpus, NumThreads,   \* NUM_CPUS, NUM_THREADS
          MaxLoad,               \* MAX_LOAD
          Priorities,            \* rand() % 10
          MaxRounds              \* bound on the rounds of a CPU

Cpus == 0 .. NumCpus - 1
Threads == 0 .. NumThreads - 1

VARIABLES last_cpu, priority, is_running,   \* Thread
          current_load,                     \* of each CPU
          running, pc, rounds

vars == <<last_cpu, priority, is_running, current_load, running, pc, rounds>>

init_system ==
    /\ last_cpu \in [Threads -> Cpus] /\ priority \in [Threads -> Priorities]
    /\ is_running = [t \in Threads |-> FALSE]
    /\ current_load = [c \in Cpus |-> 0]
    /\ running = TRUE
    /\ pc = [c \in Cpus |-> "loop"] /\ rounds = [c \in Cpus |-> 0]

\* The CPU the thread was on, or the first of those with the least load.
select_cpu(t, load) ==
    IF load[last_cpu[t]] < MaxLoad THEN last_cpu[t]
    ELSE CHOOSE c \in Cpus : \A d \in Cpus : load[c] < load[d] \/ (load[c] = load[d] /\ c <= d)

\* The loop over the threads: c's load grows as it takes them up.
take_up(c) ==
    LET scan[t \in 0 .. NumThreads, load \in Nat, taken \in SUBSET Threads] ==
          IF t = NumThreads THEN [load |-> load, taken |-> taken]
          ELSE IF ~is_running[t] /\ select_cpu(t, [current_load EXCEPT ![c] = load]) = c
          THEN scan[t + 1, load + priority[t], taken \cup {t}]
          ELSE scan[t + 1, load, taken]
    IN scan[0, current_load[c], {}]

loop(c) ==
    /\ pc[c] = "loop"
    /\ \/ running /\ rounds[c] < MaxRounds /\ pc' = [pc EXCEPT ![c] = "schedule"]
       \/ ~running /\ pc' = [pc EXCEPT ![c] = "done"]
    /\ UNCHANGED <<last_cpu, priority, is_running, current_load, running, rounds>>

schedule(c) ==
    /\ pc[c] = "schedule"
    /\ LET s == take_up(c)
       IN /\ current_load' = [current_load EXCEPT ![c] = s.load]
          /\ is_running' = [t \in Threads |-> is_running[t] \/ t \in s.taken]
          /\ last_cpu' = [t \in Threads |-> IF t \in s.taken THEN c ELSE last_cpu[t]]
    /\ pc' = [pc EXCEPT ![c] = "work"] /\ rounds' = [rounds EXCEPT ![c] = @ + 1]
    /\ UNCHANGED <<priority, running>>

let_go(c) == {t \in Threads : is_running[t] /\ last_cpu[t] = c}

finish(c) ==
    /\ pc[c] = "work"
    /\ current_load' = [current_load EXCEPT ![c] = IF @ > 0 THEN @ - 1 ELSE 0]
    /\ is_running' = [t \in Threads |-> is_running[t] /\ t \notin let_go(c)]
    /\ pc' = [pc EXCEPT ![c] = "loop"]
    /\ UNCHANGED <<last_cpu, priority, running, rounds>>

cpu_thread(c) == loop(c) \/ schedule(c) \/ finish(c)

\* main, after its sleep, and then the joins.
main == running /\ running' = FALSE
        /\ UNCHANGED <<last_cpu, priority, is_running, current_load, pc, rounds>>

Joined == (\A c \in Cpus : pc[c] = "done") /\ UNCHANGED vars

Next == (\E c \in Cpus : cpu_thread(c)) \/ main \/ Joined

Spec == init_system /\ [][Next]_vars
-----------------------------------------------------------------------------
\* A thread runs only on a CPU that is at work: no two CPUs run it, and none is
\* left running when its CPU has ended its round, or has ended.
RunsOnWorkingCpu == \A t \in Threads : is_running[t] => pc[last_cpu[t]] = "work"

\* The load of a CPU is never less than the work it does.
LoadCoversRunning ==
    \A c \in Cpus : current_load[c] >= 
        MapThenSumSet(LAMBDA t : priority[t], {t \in Threads : is_running[t] /\ last_cpu[t] = c})

\* "Check affinity first": a thread changes its CPU only when the old one is full,
\* and then to one of those with the least load, also if several threads are
\* taken up in the same round.
MovesOnlyWhenFull ==
    [][\A t \in Threads : last_cpu'[t] # last_cpu[t] =>
          /\ ~is_running[t] /\ current_load[last_cpu[t]] >= MaxLoad
          /\ \A d \in Cpus : current_load[last_cpu'[t]] <= current_load[d]]_vars
=============================================================================

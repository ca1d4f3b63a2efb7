------------------------ MODULE PriorityInheritance ------------------------
(***************************************************************************)
(* concurrency/synchronization/priority_inheritance.c: a mutex that        *)
(* notes the priority of its owner and the highest priority that waits.    *)
(* The notes are read and written outside the mutex too, one access at a   *)
(* time.                                                                   *)
(***************************************************************************)
EXTENDS Integers, FiniteSets

CONSTANTS Tasks, Prio     \* the tasks, and the priority of each

None == 0

VARIABLES lock,     \* the task that holds the pthread mutex
          owner_priority, highest_waiter_priority,
          pc

notes == <<owner_priority, highest_waiter_priority>>
vars == <<lock, notes, pc>>

rt_mutex_init == /\ lock = None
                 /\ owner_priority = 0 /\ highest_waiter_priority = 0
                 /\ pc = [t \in Tasks |-> "start"]

Goto(t, l) == pc' = [pc EXCEPT ![t] = l]

\* The test before the mutex: two reads, and a write if both say so.
read_owner(t) ==
    /\ pc[t] = "start"
    /\ Goto(t, IF owner_priority # 0 THEN "compare" ELSE "lock")
    /\ UNCHANGED <<lock, notes>>

compare(t) ==
    /\ pc[t] = "compare"
    /\ Goto(t, IF Prio[t] > highest_waiter_priority THEN "boost" ELSE "lock")
    /\ UNCHANGED <<lock, notes>>

boost(t) ==
    /\ pc[t] = "boost"
    /\ highest_waiter_priority' = Prio[t]
    /\ Goto(t, "lock")
    /\ UNCHANGED <<lock, owner_priority>>

\* pthread_mutex_lock.
acquire(t) ==
    /\ pc[t] = "lock" /\ lock = None
    /\ lock' = t /\ Goto(t, "note")
    /\ UNCHANGED notes

\* The two assignments after it.
note(t) ==
    /\ \/ /\ pc[t] = "note" /\ owner_priority' = Prio[t]
          /\ Goto(t, "reset") /\ UNCHANGED highest_waiter_priority
       \/ /\ pc[t] = "reset" /\ highest_waiter_priority' = 0
          /\ Goto(t, "work") /\ UNCHANGED owner_priority
    /\ UNCHANGED lock

rt_mutex_lock(t) == read_owner(t) \/ compare(t) \/ boost(t) \/ acquire(t) \/ note(t)

\* Mutant: the mutex is released first.
rt_mutex_unlock_Late(t) ==
    /\ \/ pc[t] = "work" /\ lock' = None /\ Goto(t, "unlock") /\ UNCHANGED owner_priority
       \/ pc[t] = "unlock" /\ owner_priority' = 0 /\ Goto(t, "done") /\ UNCHANGED lock
    /\ UNCHANGED highest_waiter_priority

rt_mutex_unlock(t) ==
    /\ \/ pc[t] = "work" /\ owner_priority' = 0 /\ Goto(t, "unlock") /\ UNCHANGED lock
       \/ pc[t] = "unlock" /\ lock' = None /\ Goto(t, "done") /\ UNCHANGED owner_priority
    /\ UNCHANGED highest_waiter_priority

task_function(t) == rt_mutex_lock(t) \/ rt_mutex_unlock(t)

Init == rt_mutex_init
Done == (\A t \in Tasks : pc[t] = "done") /\ UNCHANGED vars
Next == (\E t \in Tasks : task_function(t)) \/ Done
\* The kernel goes on with every task that can run; each takes the mutex once.
Spec == Init /\ [][Next]_vars /\ \A t \in Tasks : WF_vars(task_function(t))
-----------------------------------------------------------------------------
\* The noted owner is the task that works with the mutex; without one there is no
\* noted owner unless a task has just got the mutex.
OwnerIsNoted ==
    /\ \A t \in Tasks : pc[t] \in {"reset", "work"} => owner_priority = Prio[t]
    /\ lock = None => owner_priority = 0

\* A noted waiter exists: it has not got past its reset.  (It need not be the
\* highest: two tasks may compare with the same old value.)
WaiterIsReal ==
    highest_waiter_priority # 0 =>
        \E t \in Tasks : Prio[t] = highest_waiter_priority /\ pc[t] \in {"lock", "note", "reset"}

\* Every task gets the mutex and ends.
AllDone == <>[](\A t \in Tasks : pc[t] = "done")
-----------------------------------------------------------------------------
Labels == {"start", "compare", "boost", "lock", "note", "reset", "work", "unlock", "done"}

\* What makes the notes inductive: who holds the mutex is where only its holder can be,
\* and the owner's note is cleared before the mutex is.
NotesInv ==
    /\ pc \in [Tasks -> Labels]
    /\ \A t \in Tasks : lock = t <=> pc[t] \in {"note", "reset", "work", "unlock"}
    /\ \A t \in Tasks : pc[t] = "unlock" => owner_priority = 0
    /\ OwnerIsNoted
    /\ WaiterIsReal
=============================================================================

----------------------------- MODULE FutexMutex -----------------------------
(***************************************************************************)
(* concurrency/synchronization/preemmtibleCriticalSections.c: a mutex on a *)
(* futex word, and threads that enter a preemptible critical section       *)
(* several times.  Every access to lock, owner and shared_counter, and     *)
(* every futex call, is a step of its own.                                 *)
(***************************************************************************)
EXTENDS Integers, FiniteSetsExt

CONSTANTS Threads,
          Iterations,  \* of the loop of thread_func
          NoOwner      \* the owner -1

ASSUME IterationsAssumption == Iterations \in Nat
ASSUME OwnerAssumption == NoOwner \notin Threads

VARIABLES lock, owner, shared_counter,
          pc, iter,
          loaded       \* the register of each thread's shared_counter++

vars == <<lock, owner, shared_counter, pc, iter, loaded>>

Init == /\ lock = 0 /\ owner = NoOwner
        /\ shared_counter = 0
        /\ pc = [t \in Threads |-> "loop"]
        /\ iter = [t \in Threads |-> 0]
        /\ loaded = [t \in Threads |-> 0]

At(t, l) == pc[t] = l
Goto(t, l) == pc' = [pc EXCEPT ![t] = l]
Asleep == {t \in Threads : At(t, "asleep")}
-----------------------------------------------------------------------------
\* FUTEX_WAIT sleeps only if the word still holds the expected value; the
\* kernel tests and queues in one step.
FUTEX_WAIT(t, val) ==
    \/ lock = val /\ Goto(t, "asleep")
    \/ lock # val /\ Goto(t, "try")

FUTEX_WAKE(t, then) ==
    \/ Asleep = {} /\ Goto(t, then)
    \/ \E u \in Asleep : pc' = [pc EXCEPT ![t] = then, ![u] = "try"]

\* A signal may end FUTEX_WAIT early; rt_mutex_lock tries again.
Interrupted(t) ==
    /\ At(t, "asleep") /\ Goto(t, "try")
    /\ UNCHANGED <<lock, owner, shared_counter, iter, loaded>>

\* Mutant: the thread goes to sleep whatever the word holds by then.
rt_mutex_lock_SleepAnyway(t) ==
    /\ \/ At(t, "try") /\ lock = 0 /\ lock' = 1 /\ Goto(t, "own") /\ UNCHANGED owner
       \/ At(t, "try") /\ lock # 0 /\ Goto(t, "wait") /\ UNCHANGED <<lock, owner>>
       \/ At(t, "own") /\ owner' = t /\ Goto(t, "load") /\ UNCHANGED lock
       \/ At(t, "wait") /\ Goto(t, "asleep") /\ UNCHANGED <<lock, owner>>
    /\ UNCHANGED <<shared_counter, iter, loaded>>

rt_mutex_lock(t) ==
    /\ \/ At(t, "try") /\ lock = 0 /\ lock' = 1 /\ Goto(t, "own") /\ UNCHANGED owner
       \/ At(t, "try") /\ lock # 0 /\ Goto(t, "wait") /\ UNCHANGED <<lock, owner>>
       \/ At(t, "own") /\ owner' = t /\ Goto(t, "load") /\ UNCHANGED lock
       \/ At(t, "wait") /\ FUTEX_WAIT(t, 1) /\ UNCHANGED <<lock, owner>>
    /\ UNCHANGED <<shared_counter, iter, loaded>>

\* Mutant: nobody is woken.
rt_mutex_unlock_NoWake(t) ==
    /\ \/ At(t, "unlock") /\ owner' = NoOwner /\ Goto(t, "release") /\ UNCHANGED lock
       \/ At(t, "release") /\ lock' = 0 /\ Goto(t, "loop") /\ UNCHANGED owner
    /\ UNCHANGED <<shared_counter, iter, loaded>>

rt_mutex_unlock(t) ==
    /\ \/ At(t, "unlock") /\ owner' = NoOwner /\ Goto(t, "release") /\ UNCHANGED lock
       \/ At(t, "release") /\ lock' = 0 /\ Goto(t, "wake") /\ UNCHANGED owner
       \/ At(t, "wake") /\ FUTEX_WAKE(t, "loop") /\ UNCHANGED <<lock, owner>>
    /\ UNCHANGED <<shared_counter, iter, loaded>>

\* shared_counter++, then the work and the preemption point before unlock.
Body(t) ==
    /\ \/ /\ At(t, "load")
          /\ loaded' = [loaded EXCEPT ![t] = shared_counter]
          /\ Goto(t, "store") /\ UNCHANGED shared_counter
       \/ /\ At(t, "store")
          /\ shared_counter' = loaded[t] + 1
          /\ Goto(t, "unlock") /\ UNCHANGED loaded
    /\ UNCHANGED <<lock, owner, iter>>

critical_section(t) == rt_mutex_lock(t) \/ Body(t) \/ rt_mutex_unlock(t)

thread_func(t) ==
    /\ At(t, "loop")
    /\ \/ /\ iter[t] < Iterations
          /\ iter' = [iter EXCEPT ![t] = @ + 1]
          /\ Goto(t, "try")
       \/ /\ iter[t] = Iterations
          /\ Goto(t, "done")
          /\ UNCHANGED iter
    /\ UNCHANGED <<lock, owner, shared_counter, loaded>>

Step(t) == thread_func(t) \/ critical_section(t)

Next == \E t \in Threads : Step(t) \/ Interrupted(t)

Spec == Init /\ [][Next]_vars

FairSpec == Spec /\ \A t \in Threads : WF_vars(Step(t))
-----------------------------------------------------------------------------
TypeOK == /\ lock \in 0 .. 1
          /\ owner \in Threads \cup {NoOwner}
          /\ shared_counter \in Nat
          /\ pc \in [Threads -> {"loop", "try", "wait", "asleep", "own", "load",
                                 "store", "unlock", "release", "wake", "done"}]
          /\ iter \in [Threads -> 0 .. Iterations]
          /\ loaded \in [Threads -> Nat]

\* Between its successful compare-and-swap and its store of 0.
Holds(t) == pc[t] \in {"own", "load", "store", "unlock", "release"}

\* At most one thread is between the compare-and-swap of rt_mutex_lock and
\* the release in rt_mutex_unlock, and the futex word says whether one is.
MutualExclusion ==
    /\ \A t, u \in Threads : Holds(t) /\ Holds(u) => t = u
    /\ lock = 1 <=> \E t \in Threads : Holds(t)

\* owner names the thread in the critical section and nobody once the word is
\* free, although owner and lock are written in separate steps.
OwnerIsHolder ==
    /\ \A t \in Threads : pc[t] \in {"load", "store", "unlock"} => owner = t
    /\ lock = 0 => owner = NoOwner

\* The owner is cleared before the word is.
OwnerCleared == \A t \in Threads : At(t, "release") => owner = NoOwner

\* Whenever a thread sleeps in FUTEX_WAIT, another one holds the lock, is
\* about to wake it, or is on its way to the lock and will.
SleeperHasWaker ==
    Asleep # {} => lock = 1 \/ \E t \in Threads : pc[t] \in {"try", "wait", "wake"}

\* All of these together: what rt_mutex_lock and rt_mutex_unlock keep up, step by
\* step, whatever the interleaving.
IndInv == TypeOK /\ MutualExclusion /\ OwnerIsHolder /\ OwnerCleared /\ SleeperHasWaker

\* Every thread gets through its loop.
AllFinish == \A t \in Threads : <>[]At(t, "done")
=============================================================================

------------------------------ MODULE CondVar ------------------------------
(***************************************************************************)
(* The pthread condition variables of the locks in concurrency/threads, as *)
(* those programs use them.  Every critical section under the lock's mutex *)
(* is one action.  A thread in pthread_cond_wait is at a waiting label;    *)
(* once woken, and until it has the mutex again, at a woken label.         *)
(***************************************************************************)
VARIABLE pc   \* where each thread is

At(l) == {t \in DOMAIN pc : pc[t] = l}

Goto(t, l) == pc' = [pc EXCEPT ![t] = l]

\* t signals the threads waiting at l (one of them wakes up, if there is one)
\* and goes on to dest; t broadcasts (they all do) and goes on to dest.
Signal(t, dest, l, woken) ==
    \/ At(l) = {} /\ Goto(t, dest)
    \/ \E u \in At(l) : pc' = [pc EXCEPT ![t] = dest, ![u] = woken]

Broadcast(t, dest, l, woken) ==
    pc' = [u \in DOMAIN pc |-> IF u = t THEN dest
                               ELSE IF pc[u] = l THEN woken ELSE pc[u]]

\* pthread_cond_wait may also return without a signal.
Spurious(t, l, woken) == pc[t] = l /\ Goto(t, woken)
=============================================================================

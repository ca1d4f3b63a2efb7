-------------------------- MODULE AggressiveRwLock --------------------------
(***************************************************************************)
(* concurrency/threads/aggressiveWriter.c: a readers-writer lock in which  *)
(* readers give way to the flag writer_waiting, set when a writer has to   *)
(* wait and cleared by the next writer that gets the lock.                 *)
(***************************************************************************)
EXTENDS Integers, FiniteSets, CondVar

CONSTANTS Readers, Writers

Users == Readers \cup Writers

VARIABLES active_readers, waiting_readers, active_writers, waiting_writers,
          writer_waiting

readers == <<active_readers, waiting_readers>>
writers == <<active_writers, waiting_writers>>
vars == <<readers, writers, writer_waiting, pc>>

Init == /\ active_readers = 0 /\ waiting_readers = 0
        /\ active_writers = 0 /\ waiting_writers = 0
        /\ writer_waiting = FALSE
        /\ pc = [t \in Users |-> "out"]

\* 1 if t has just returned from pthread_cond_wait.
Returned(t, woken) == IF pc[t] = woken THEN 1 ELSE 0

SpuriousWakeup(t) == /\ Spurious(t, "rwait", "rwoken") \/ Spurious(t, "wwait", "wwoken")
                     /\ UNCHANGED <<readers, writers, writer_waiting>>
-----------------------------------------------------------------------------
read_lock(r) ==
    /\ pc[r] \in {"out", "rwoken"}
    /\ \/ /\ active_writers > 0 \/ writer_waiting
          /\ waiting_readers' = waiting_readers - Returned(r, "rwoken") + 1
          /\ Goto(r, "rwait")
          /\ UNCHANGED active_readers
       \/ /\ ~(active_writers > 0 \/ writer_waiting)
          /\ waiting_readers' = waiting_readers - Returned(r, "rwoken")
          /\ active_readers' = active_readers + 1
          /\ Goto(r, "reading")
    /\ UNCHANGED <<writers, writer_waiting>>

read_unlock(r) ==
    /\ pc[r] = "reading"
    /\ active_readers' = active_readers - 1
    /\ IF active_readers = 1 /\ waiting_writers > 0
       THEN writer_waiting' = TRUE /\ Signal(r, "out", "wwait", "wwoken")
       ELSE Goto(r, "out") /\ UNCHANGED writer_waiting
    /\ UNCHANGED <<waiting_readers, writers>>

\* waiting_writers is raised on entry and lowered on success, so a writer
\* that goes back to sleep stays counted once.
write_lock(w) ==
    /\ pc[w] \in {"out", "wwoken"}
    /\ \/ /\ active_readers > 0 \/ active_writers > 0
          /\ waiting_writers' = waiting_writers + 1 - Returned(w, "wwoken")
          /\ writer_waiting' = TRUE
          /\ Goto(w, "wwait")
          /\ UNCHANGED active_writers
       \/ /\ ~(active_readers > 0 \/ active_writers > 0)
          /\ waiting_writers' = waiting_writers - Returned(w, "wwoken")
          /\ active_writers' = active_writers + 1
          /\ writer_waiting' = FALSE
          /\ Goto(w, "writing")
    /\ UNCHANGED readers

write_unlock(w) ==
    /\ pc[w] = "writing"
    /\ active_writers' = active_writers - 1
    /\ \/ waiting_writers > 0 /\ Signal(w, "out", "wwait", "wwoken")
       \/ waiting_writers = 0 /\ Broadcast(w, "out", "rwait", "rwoken")
    /\ UNCHANGED <<readers, waiting_writers, writer_waiting>>

reader(r) == read_lock(r) \/ read_unlock(r)
writer(w) == write_lock(w) \/ write_unlock(w)

Next == \/ \E r \in Readers : reader(r)
        \/ \E w \in Writers : writer(w)
        \/ \E t \in Users : SpuriousWakeup(t)

Spec == Init /\ [][Next]_vars

FairSpec == /\ Spec
            /\ \A r \in Readers : WF_vars(reader(r))
            /\ \A w \in Writers : WF_vars(writer(w))
-----------------------------------------------------------------------------
RWaiting == At("rwait") \cup At("rwoken")
WWaiting == At("wwait") \cup At("wwoken")
Labels == {"out", "rwait", "rwoken", "reading", "wwait", "wwoken", "writing"}

\* The counters are the populations they count.
TypeOK ==
    /\ pc \in [Users -> Labels]
    /\ active_readers = Cardinality(At("reading"))
    /\ active_writers = Cardinality(At("writing"))
    /\ waiting_readers = Cardinality(RWaiting)
    /\ waiting_writers = Cardinality(WWaiting)
    /\ writer_waiting \in BOOLEAN

\* The lock implements RwLock: readers together or one writer alone.
Lock == INSTANCE RwLock WITH Threads <- Users, reading <- At("reading"), writing <- At("writing")
ImplementsRwLock == Lock!Spec

\* The flag that turns readers away is up only while a writer waits that will
\* take it down.
FlagHasWriter == writer_waiting => WWaiting # {}

\* A reader asleep has a writer before it that will wake it; a writer asleep
\* has a thread inside, or a woken writer, that will.
SleeperHasWaker ==
    /\ At("rwait") # {} => At("wwait") \cup At("wwoken") \cup At("writing") # {}
    /\ At("wwait") # {} => At("reading") \cup At("writing") \cup At("wwoken") # {}

\* However many readers come, a waiting writer leads to a write.
WriterGetsIn == At("wwait") # {} ~> At("writing") # {}
-----------------------------------------------------------------------------
\* At most one writer is inside.
WriterAlone == \A t, u \in At("writing") : t = u

\* What every step of the lock keeps.
LockInv == TypeOK /\ WriterAlone /\ FlagHasWriter /\ SleeperHasWaker

\* A step of the lock keeps the counters right and every sleeper's waker, and is a
\* step of RwLock or leaves the threads inside alone.
Kept == LockInv' /\ [Lock!Next]_<<At("reading"), At("writing")>>
=============================================================================

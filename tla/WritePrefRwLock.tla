-------------------------- MODULE WritePrefRwLock --------------------------
(***************************************************************************)
(* concurrency/threads/writeStarvation.c: a readers-writer lock with       *)
(* writer preference, from one mutex and two condition variables, and the  *)
(* readers and writers that use it for ever.                               *)
(*                                                                         *)
(* A thread in pthread_cond_wait is at "rwait" or "wwait"; once woken, and *)
(* until it has the mutex again, at "rwoken" or "wwoken" and still counted *)
(* as waiting.                                                             *)
(***************************************************************************)
EXTENDS Integers, FiniteSets, CondVar

CONSTANTS Readers, Writers

Users == Readers \cup Writers

VARIABLES active_readers, waiting_readers, active_writers, waiting_writers

counts == <<active_readers, waiting_readers, active_writers, waiting_writers>>
vars == <<counts, pc>>

Init == /\ active_readers = 0 /\ waiting_readers = 0
        /\ active_writers = 0 /\ waiting_writers = 0
        /\ pc = [t \in Users |-> "out"]

\* 1 if t has just returned from pthread_cond_wait.
Returned(t, woken) == IF pc[t] = woken THEN 1 ELSE 0

SpuriousWakeup(t) == /\ Spurious(t, "rwait", "rwoken") \/ Spurious(t, "wwait", "wwoken")
                     /\ UNCHANGED counts
-----------------------------------------------------------------------------
read_lock(r) ==
    /\ pc[r] \in {"out", "rwoken"}
    /\ \/ /\ active_writers > 0 \/ waiting_writers > 0
          /\ waiting_readers' = waiting_readers - Returned(r, "rwoken") + 1
          /\ Goto(r, "rwait")
          /\ UNCHANGED active_readers
       \/ /\ ~(active_writers > 0 \/ waiting_writers > 0)
          /\ waiting_readers' = waiting_readers - Returned(r, "rwoken")
          /\ active_readers' = active_readers + 1
          /\ Goto(r, "reading")
    /\ UNCHANGED <<active_writers, waiting_writers>>

\* Mutant: the last reader signals nobody.
read_unlock_NoSignal(r) ==
    /\ pc[r] = "reading"
    /\ active_readers' = active_readers - 1
    /\ Goto(r, "out")
    /\ UNCHANGED <<waiting_readers, active_writers, waiting_writers>>

read_unlock(r) ==
    /\ pc[r] = "reading"
    /\ active_readers' = active_readers - 1
    /\ IF active_readers = 1 /\ waiting_writers > 0
       THEN Signal(r, "out", "wwait", "wwoken")
       ELSE Goto(r, "out")
    /\ UNCHANGED <<waiting_readers, active_writers, waiting_writers>>

write_lock(w) ==
    /\ pc[w] \in {"out", "wwoken"}
    /\ \/ /\ active_readers > 0 \/ active_writers > 0
          /\ waiting_writers' = waiting_writers - Returned(w, "wwoken") + 1
          /\ Goto(w, "wwait")
          /\ UNCHANGED active_writers
       \/ /\ ~(active_readers > 0 \/ active_writers > 0)
          /\ waiting_writers' = waiting_writers - Returned(w, "wwoken")
          /\ active_writers' = active_writers + 1
          /\ Goto(w, "writing")
    /\ UNCHANGED <<active_readers, waiting_readers>>

\* Mutant: the readers are woken one at a time.
write_unlock_SignalReader(w) ==
    /\ pc[w] = "writing"
    /\ active_writers' = active_writers - 1
    /\ \/ waiting_writers > 0 /\ Signal(w, "out", "wwait", "wwoken")
       \/ waiting_writers = 0 /\ Signal(w, "out", "rwait", "rwoken")
    /\ UNCHANGED <<active_readers, waiting_readers, waiting_writers>>

write_unlock(w) ==
    /\ pc[w] = "writing"
    /\ active_writers' = active_writers - 1
    /\ \/ waiting_writers > 0 /\ Signal(w, "out", "wwait", "wwoken")
       \/ /\ waiting_writers = 0 /\ waiting_readers > 0
          /\ Broadcast(w, "out", "rwait", "rwoken")
       \/ waiting_writers = 0 /\ waiting_readers = 0 /\ Goto(w, "out")
    /\ UNCHANGED <<active_readers, waiting_readers, waiting_writers>>

reader(r) == read_lock(r) \/ read_unlock(r)
writer(w) == write_lock(w) \/ write_unlock(w)

Next == \/ \E r \in Readers : reader(r)
        \/ \E w \in Writers : writer(w)
        \/ \E t \in Users : SpuriousWakeup(t)

Spec == Init /\ [][Next]_vars

FairSpec == /\ Spec
            /\ \A r \in Readers : WF_vars(reader(r))
            /\ \A w \in Writers : WF_vars(writer(w))
-----------------------------------------------------------------------------
RWaiting == At("rwait") \cup At("rwoken")
WWaiting == At("wwait") \cup At("wwoken")
Labels == {"out", "rwait", "rwoken", "reading", "wwait", "wwoken", "writing"}

\* The counters are the populations they count: TypeOK of this lock.
TypeOK ==
    /\ pc \in [Users -> Labels]
    /\ active_readers = Cardinality(At("reading"))
    /\ active_writers = Cardinality(At("writing"))
    /\ waiting_readers = Cardinality(RWaiting)
    /\ waiting_writers = Cardinality(WWaiting)

\* The lock implements RwLock: readers together or one writer alone.
Lock == INSTANCE RwLock WITH Threads <- Users, reading <- At("reading"), writing <- At("writing")
ImplementsRwLock == Lock!Spec

\* Writer preference: while a writer waits, no reader gets the lock.
NoReaderOvertakes == [][waiting_writers > 0 => At("reading")' \subseteq At("reading")]_vars

\* A reader asleep has a writer before it that will wake it; a writer asleep
\* has a thread inside, or a woken writer, that will.
SleeperHasWaker ==
    /\ At("rwait") # {} => At("wwait") \cup At("wwoken") \cup At("writing") # {}
    /\ At("wwait") # {} => At("reading") \cup At("writing") \cup At("wwoken") # {}

\* When writers wait, one of them gets to write.
WriterGetsIn == At("wwait") # {} ~> At("writing") # {}
-----------------------------------------------------------------------------
(***************************************************************************)
(* For any finite sets of readers and writers.  The counters are what      *)
(* everything rests on: a test of a counter is one of a population, so a   *)
(* step can be followed in the sets of threads at each place.              *)
(***************************************************************************)
WriterAlone == \A t, u \in At("writing") : t = u

LockInv == TypeOK /\ WriterAlone /\ SleeperHasWaker

\* A step of the lock keeps the counters right and every sleeper's waker, and is a
\* step of RwLock or leaves the threads inside alone.
Kept == LockInv' /\ [Lock!Next]_<<At("reading"), At("writing")>>
=============================================================================

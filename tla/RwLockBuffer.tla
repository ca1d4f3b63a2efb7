---------------------------- MODULE RwLockBuffer ----------------------------
(***************************************************************************)
(* concurrency/threads/rwlock-buffer/rwlock_buffer.c: readers and writers  *)
(* share one int behind a readers-writer lock built from two mutexes, and  *)
(* pass values through a bounded buffer with two condition variables.      *)
(* SIGINT may clear running at any time.                                   *)
(*                                                                         *)
(* pc[t] is where thread t is between two critical sections.  bb->mutex    *)
(* is held inside one action only: pthread_cond_wait gives it up.          *)
(***************************************************************************)
EXTENDS Integers, Sequences, FiniteSets, FiniteSetTheorems, TLAPS

CONSTANTS Readers, Writers,  \* the threads main starts
          Size,              \* BUFFER_SIZE
          Iterations,        \* NUM_ITERATIONS
          Values,            \* rand() % 100
          None               \* an unlocked mutex, an unwritten slot

Users == Readers \cup Writers

VARIABLES running,
          counter_lock, write_lock, read_count,  \* rwlock_t
          shared_data,
          buffer, count, in, out,                \* bounded_buffer_t
          pc, iter,
          new_value,                             \* each writer's local
          finished                               \* main joined every thread

rwlock == <<counter_lock, write_lock, read_count>>
bb == <<buffer, count, in, out>>
vars == <<running, rwlock, shared_data, bb, pc, iter, new_value, finished>>

Init == /\ running = TRUE
        /\ counter_lock = None /\ write_lock = None /\ read_count = 0
        /\ shared_data = None
        /\ buffer = [i \in 0 .. Size - 1 |-> None]
        /\ count = 0 /\ in = 0 /\ out = 0
        /\ pc = [t \in Users |-> "loop"]
        /\ iter = [t \in Users |-> 0]
        /\ new_value = [w \in Writers |-> None]
        /\ finished = FALSE

At(t, l) == pc[t] = l
Goto(t, l) == pc' = [pc EXCEPT ![t] = l]
-----------------------------------------------------------------------------
handle_signal ==
    /\ running' = FALSE
    /\ UNCHANGED <<rwlock, shared_data, bb, pc, iter, new_value, finished>>

\* The head of the for loop of reader_thread and writer_thread.
ForLoop(t, body) ==
    /\ At(t, "loop")
    /\ \/ /\ iter[t] < Iterations /\ running
          /\ iter' = [iter EXCEPT ![t] = @ + 1]
          /\ Goto(t, body)
       \/ /\ ~(iter[t] < Iterations /\ running)
          /\ Goto(t, "done")
          /\ UNCHANGED iter
    /\ UNCHANGED <<running, rwlock, shared_data, bb, new_value, finished>>

\* Mutant: the counter is published before the first reader has write_lock.
rwlock_read_lock_NoFirst(r) ==
    /\ At(r, "rlock") /\ counter_lock = None
    /\ read_count' = read_count + 1
    /\ Goto(r, "reading")
    /\ UNCHANGED <<counter_lock, write_lock, running, shared_data, bb, iter, new_value, finished>>

\* The first reader keeps counter_lock while it waits for write_lock.
rwlock_read_lock(r) ==
    /\ \/ /\ At(r, "rlock") /\ counter_lock = None
          /\ read_count' = read_count + 1
          /\ \/ /\ read_count = 0
                /\ counter_lock' = r
                /\ Goto(r, "first")
             \/ /\ read_count # 0
                /\ Goto(r, "reading")
                /\ UNCHANGED counter_lock
          /\ UNCHANGED write_lock
       \/ /\ At(r, "first") /\ write_lock = None
          /\ write_lock' = r
          /\ counter_lock' = None
          /\ Goto(r, "reading")
          /\ UNCHANGED read_count
    /\ UNCHANGED <<running, shared_data, bb, iter, new_value, finished>>

\* The last reader unlocks write_lock, whichever reader locked it.
rwlock_read_unlock(r) ==
    /\ At(r, "reading") /\ counter_lock = None
    /\ read_count' = read_count - 1
    /\ write_lock' = IF read_count = 1 THEN None ELSE write_lock
    /\ Goto(r, "consume")
    /\ UNCHANGED <<counter_lock, running, shared_data, bb, iter, new_value, finished>>

rwlock_write_lock(w) ==
    /\ At(w, "wlock") /\ write_lock = None
    /\ write_lock' = w
    /\ Goto(w, "writing")
    /\ \E v \in Values : new_value' = [new_value EXCEPT ![w] = v]
    /\ UNCHANGED <<running, counter_lock, read_count, shared_data, bb, iter, finished>>

rwlock_write_unlock(w) ==
    /\ At(w, "writing")
    /\ shared_data' = new_value[w]
    /\ write_lock' = None
    /\ Goto(w, "produce")
    /\ UNCHANGED <<running, counter_lock, read_count, bb, iter, new_value, finished>>
-----------------------------------------------------------------------------
Waiting(q) == {t \in Users : At(t, q)}

\* pthread_cond_signal by thread t, which goes on to its loop: one waiter of
\* queue q, if there is one, tries again at l.
SignalAndLoop(t, q, l) ==
    \/ /\ Waiting(q) = {}
       /\ Goto(t, "loop")
    \/ \E u \in Waiting(q) : pc' = [pc EXCEPT ![t] = "loop", ![u] = l]

\* Mutant: a producer signals only when the buffer was empty.
bb_produce_SignalFirst(w) ==
    /\ At(w, "produce")
    /\ \/ count = Size /\ running /\ Goto(w, "waitFull") /\ UNCHANGED bb
       \/ ~running /\ Goto(w, "loop") /\ UNCHANGED bb
       \/ /\ count < Size /\ running
          /\ buffer' = [buffer EXCEPT ![in] = new_value[w]]
          /\ in' = (in + 1) % Size
          /\ count' = count + 1
          /\ IF count = 0 THEN SignalAndLoop(w, "waitEmpty", "consume") ELSE Goto(w, "loop")
          /\ UNCHANGED out
    /\ UNCHANGED <<running, rwlock, shared_data, iter, new_value, finished>>

\* Mutant: off by one in the test for a full buffer.
bb_produce_Overwrite(w) ==
    /\ At(w, "produce") /\ running /\ count <= Size
    /\ buffer' = [buffer EXCEPT ![in] = new_value[w]]
    /\ in' = (in + 1) % Size
    /\ count' = count + 1
    /\ SignalAndLoop(w, "waitEmpty", "consume")
    /\ UNCHANGED <<out, running, rwlock, shared_data, iter, new_value, finished>>

bb_produce(w) ==
    /\ At(w, "produce")
    /\ \/ count = Size /\ running /\ Goto(w, "waitFull") /\ UNCHANGED bb
       \/ ~running /\ Goto(w, "loop") /\ UNCHANGED bb
       \/ /\ count < Size /\ running
          /\ buffer' = [buffer EXCEPT ![in] = new_value[w]]
          /\ in' = (in + 1) % Size
          /\ count' = count + 1
          /\ SignalAndLoop(w, "waitEmpty", "consume")
          /\ UNCHANGED out
    /\ UNCHANGED <<running, rwlock, shared_data, iter, new_value, finished>>

bb_consume(r) ==
    /\ At(r, "consume")
    /\ \/ count = 0 /\ running /\ Goto(r, "waitEmpty") /\ UNCHANGED bb
       \/ ~running /\ Goto(r, "loop") /\ UNCHANGED bb
       \/ /\ count > 0 /\ running
          /\ out' = (out + 1) % Size
          /\ count' = count - 1
          /\ SignalAndLoop(r, "waitFull", "produce")
          /\ UNCHANGED <<buffer, in>>
    /\ UNCHANGED <<running, rwlock, shared_data, iter, new_value, finished>>

\* pthread_cond_wait may return without a signal; the while loops allow for it.
SpuriousWakeup(t) ==
    /\ \/ At(t, "waitEmpty") /\ Goto(t, "consume")
       \/ At(t, "waitFull") /\ Goto(t, "produce")
    /\ UNCHANGED <<running, rwlock, shared_data, bb, iter, new_value, finished>>

reader_thread(r) == \/ ForLoop(r, "rlock")
                    \/ rwlock_read_lock(r) \/ rwlock_read_unlock(r)
                    \/ bb_consume(r)

writer_thread(w) == \/ ForLoop(w, "wlock")
                    \/ rwlock_write_lock(w) \/ rwlock_write_unlock(w)
                    \/ bb_produce(w)

\* main joins all threads, destroys the locks and the buffer and returns.
main ==
    /\ \A t \in Users : At(t, "done")
    /\ ~finished /\ finished' = TRUE
    /\ UNCHANGED <<running, rwlock, shared_data, bb, pc, iter, new_value>>

Next == \/ \E r \in Readers : reader_thread(r)
        \/ \E w \in Writers : writer_thread(w)
        \/ \E t \in Users : SpuriousWakeup(t)
        \/ handle_signal
        \/ main

Spec == Init /\ [][Next]_vars

\* The kernel keeps running every thread that can run.
Fairness == /\ \A r \in Readers : WF_vars(reader_thread(r))
            /\ \A w \in Writers : WF_vars(writer_thread(w))
            /\ WF_vars(main)

FairSpec == Spec /\ Fairness
-----------------------------------------------------------------------------
\* Types.
RwTypes ==
    /\ counter_lock \in Readers \cup {None}
    /\ write_lock \in Users \cup {None}
    /\ read_count \in Nat
    /\ shared_data \in Values \cup {None}
RingTypes ==
    /\ buffer \in [0 .. Size - 1 -> Values \cup {None}]
    /\ count \in 0 .. Size /\ in \in 0 .. Size - 1 /\ out \in 0 .. Size - 1
ThreadTypes ==
    /\ pc \in [Users -> {"loop", "rlock", "first", "reading", "consume", "waitEmpty",
                         "wlock", "writing", "produce", "waitFull", "done"}]
    /\ iter \in [Users -> 0 .. Iterations]
    /\ new_value \in [Writers -> Values \cup {None}]
TypeOK == /\ running \in BOOLEAN /\ finished \in BOOLEAN
          /\ RwTypes /\ RingTypes /\ ThreadTypes

\* A writer between rwlock_write_lock and rwlock_write_unlock is alone: no
\* other writer is, and no reader is between its lock and its unlock.
WriterIsAlone ==
    \A w \in Writers : At(w, "writing") =>
        \A t \in Users \ {w} : ~At(t, "writing") /\ ~At(t, "reading")

\* read_count is the number of readers inside or at the door, and write_lock
\* is held for the readers exactly while one of them is inside.
Inside == {r \in Readers : At(r, "first") \/ At(r, "reading")}
ReadersCounted == /\ read_count = Cardinality(Inside)
                  /\ (write_lock \in Readers) <=> \E r \in Readers : At(r, "reading")

\* The elements between out and in, oldest first.
Contents == [i \in 1 .. count |-> buffer[(out + i - 1) % Size]]

\* Whatever the threads do, the buffer only gains the item a producer was
\* given at the end or loses its oldest item: none is lost, doubled or
\* overwritten.
BufferIsFifo ==
    [][\/ Contents' = Contents
       \/ count > 0 /\ Contents' = Tail(Contents)
       \/ \E w \in Writers : At(w, "produce") /\ Contents' = Append(Contents, new_value[w])]_vars

\* While the program runs, a consumer sleeps with items in the buffer only if
\* as many others are awake to take them, and the same for producers and free
\* slots: the one signal per item is enough.
NoLostWakeup ==
    running =>
      /\ Waiting("waitEmpty") # {} => count <= Cardinality(Waiting("consume"))
      /\ Waiting("waitFull") # {} => Size - count <= Cardinality(Waiting("produce"))

\* Writers get through all their iterations when the readers take enough items.
WritersFinish == \A w \in Writers : <>[](At(w, "done") \/ ~running)

\* "Signal handler for clean shutdown": once SIGINT has cleared running, all
\* threads leave and main returns.
CleanShutdown == ~running ~> finished
-----------------------------------------------------------------------------
\* What the proofs ask of the constants: finitely many threads, each a reader
\* or a writer, and a buffer with a slot.
BufferConstants ==
    /\ IsFiniteSet(Readers) /\ IsFiniteSet(Writers)
    /\ Readers \cap Writers = {} /\ None \notin Users
    /\ Size \in Nat \ {0} /\ Iterations \in Nat

\* A thread is only where its own function takes it.
Roles ==
    /\ \A r \in Readers : pc[r] \in {"loop", "rlock", "first", "reading", "consume", "waitEmpty", "done"}
    /\ \A w \in Writers : pc[w] \in {"loop", "wlock", "writing", "produce", "waitFull", "done"}

\* Who holds the two mutexes.  A reader at the door has counter_lock, so that
\* no other reader is inside.
Holders ==
    /\ \A r \in Readers : counter_lock = r <=> At(r, "first")
    /\ \A w \in Writers : write_lock = w <=> At(w, "writing")
    /\ \A r, s \in Readers : At(r, "first") => ~At(s, "reading")

\* What the two mutexes of rwlock_t keep up.
RwInv == TypeOK /\ Roles /\ Holders /\ ReadersCounted

\* main starts with free mutexes and an empty buffer.
LEMMA RwStart == BufferConstants /\ Init => RwInv
<1> SUFFICES ASSUME BufferConstants, Init PROVE RwInv
  OBVIOUS
<1> USE DEF BufferConstants, Init
<1>1. RwTypes /\ ThreadTypes
  BY DEF RwTypes, ThreadTypes
<1>2. RingTypes
  BY DEF RingTypes
<1>3. Roles /\ Holders
  BY DEF Users, Roles, Holders, At
<1>4. Inside = {}
  BY DEF Inside, At, Users
<1>5. ReadersCounted
  BY <1>4, FS_EmptySet DEF ReadersCounted, Inside, At, Users
<1> QED
  BY <1>1, <1>2, <1>3, <1>5 DEF RwInv, TypeOK

\* There are finitely many readers inside.
LEMMA InsideFinite ==
  ASSUME BufferConstants
  PROVE  IsFiniteSet(Inside) /\ Cardinality(Inside) \in Nat
  BY FS_Subset, FS_CardinalityType DEF BufferConstants, Inside

\* Every step keeps the types: read_count is not lowered below zero, and count, in
\* and out stay in the ring.
LEMMA TypeStep == BufferConstants /\ RwInv /\ [Next]_vars => TypeOK'
<1> SUFFICES ASSUME BufferConstants, RwInv, [Next]_vars PROVE TypeOK'
  OBVIOUS
<1> USE DEF BufferConstants, RwInv, rwlock, bb, At, Goto
<1>1. ASSUME NEW t \in Users, NEW l \in {"rlock", "wlock"}, ForLoop(t, l) PROVE TypeOK'
  <2>1. ThreadTypes'
    BY <1>1 DEF ForLoop, TypeOK, ThreadTypes
  <2> QED
    BY <1>1, <2>1 DEF ForLoop, TypeOK, RwTypes, RingTypes
<1>2. ASSUME NEW r \in Readers, rwlock_read_lock(r) PROVE TypeOK'
  <2>1. ThreadTypes' /\ RwTypes'
    BY <1>2 DEF rwlock_read_lock, TypeOK, ThreadTypes, RwTypes, Users
  <2> QED
    BY <1>2, <2>1 DEF rwlock_read_lock, TypeOK, RingTypes
<1>3. ASSUME NEW r \in Readers, rwlock_read_unlock(r) PROVE TypeOK'
  <2>1. Inside # {}
    BY <1>3 DEF rwlock_read_unlock, Inside
  <2>2. read_count > 0
    BY <2>1, InsideFinite, FS_EmptySet DEF ReadersCounted
  <2>3. ThreadTypes' /\ RwTypes'
    BY <1>3, <2>2 DEF rwlock_read_unlock, TypeOK, ThreadTypes, RwTypes, Users
  <2> QED
    BY <1>3, <2>3 DEF rwlock_read_unlock, TypeOK, RingTypes
<1>4. ASSUME NEW w \in Writers, rwlock_write_lock(w) PROVE TypeOK'
  <2>1. ThreadTypes' /\ RwTypes'
    BY <1>4 DEF rwlock_write_lock, TypeOK, ThreadTypes, RwTypes, Users
  <2> QED
    BY <1>4, <2>1 DEF rwlock_write_lock, TypeOK, RingTypes
<1>5. ASSUME NEW w \in Writers, rwlock_write_unlock(w) PROVE TypeOK'
  <2>1. ThreadTypes' /\ RwTypes'
    BY <1>5 DEF rwlock_write_unlock, TypeOK, ThreadTypes, RwTypes, Users
  <2> QED
    BY <1>5, <2>1 DEF rwlock_write_unlock, TypeOK, RingTypes
<1>6. ASSUME NEW w \in Writers, bb_produce(w) PROVE TypeOK'
  <2>1. ThreadTypes'
    BY <1>6 DEF bb_produce, SignalAndLoop, Waiting, TypeOK, ThreadTypes, Users
  <2>2. RingTypes'
    BY <1>6 DEF bb_produce, TypeOK, ThreadTypes, RingTypes
  <2> QED
    BY <1>6, <2>1, <2>2 DEF bb_produce, TypeOK, RwTypes
<1>7. ASSUME NEW r \in Readers, bb_consume(r) PROVE TypeOK'
  <2>1. ThreadTypes'
    BY <1>7 DEF bb_consume, SignalAndLoop, Waiting, TypeOK, ThreadTypes, Users
  <2>2. RingTypes'
    BY <1>7 DEF bb_consume, TypeOK, RingTypes
  <2> QED
    BY <1>7, <2>1, <2>2 DEF bb_consume, TypeOK, RwTypes
<1>8. ASSUME NEW t \in Users, SpuriousWakeup(t) PROVE TypeOK'
  <2>1. ThreadTypes'
    BY <1>8 DEF SpuriousWakeup, TypeOK, ThreadTypes
  <2> QED
    BY <1>8, <2>1 DEF SpuriousWakeup, TypeOK, RwTypes, RingTypes
<1>9. CASE handle_signal \/ main \/ UNCHANGED vars
  BY <1>9 DEF handle_signal, main, vars, TypeOK, RwTypes, RingTypes, ThreadTypes
<1> QED
  BY <1>1, <1>2, <1>3, <1>4, <1>5, <1>6, <1>7, <1>8, <1>9
     DEF Next, reader_thread, writer_thread, Users

\* A step that moves threads only between places outside the readers-writer
\* lock disturbs neither its mutexes nor its counter.
LEMMA OutsideStep ==
  ASSUME RwInv, Roles', UNCHANGED rwlock,
         \A t \in Users : \/ pc'[t] = pc[t]
                          \/ /\ pc[t] \notin {"first", "reading", "writing"}
                             /\ pc'[t] \notin {"first", "reading", "writing"}
  PROVE  Roles' /\ Holders' /\ ReadersCounted'
<1>1. Inside' = Inside /\ (\E r \in Readers : At(r, "reading"))' = (\E r \in Readers : At(r, "reading"))
  BY DEF Inside, At, Users
<1>2. Holders'
  BY DEF RwInv, Holders, At, Users, rwlock
<1> QED
  BY <1>1, <1>2 DEF RwInv, ReadersCounted, rwlock

\* Every step of the readers-writer lock keeps read_count and the holders of the two
\* mutexes right.
LEMMA LocksStep == BufferConstants /\ RwInv /\ [Next]_vars => Roles' /\ Holders' /\ ReadersCounted'
<1> SUFFICES ASSUME BufferConstants, RwInv, [Next]_vars PROVE Roles' /\ Holders' /\ ReadersCounted'
  OBVIOUS
<1> DEFINE Kept == Roles' /\ Holders' /\ ReadersCounted'
<1>0. /\ pc \in [Users -> {"loop", "rlock", "first", "reading", "consume", "waitEmpty",
                           "wlock", "writing", "produce", "waitFull", "done"}]
      /\ Readers \subseteq Users /\ Writers \subseteq Users /\ None \notin Users
      /\ Readers \cap Writers = {}
  BY DEF RwInv, TypeOK, ThreadTypes, Users, BufferConstants
<1>1. ASSUME NEW t \in Users,
             \/ t \in Readers /\ ForLoop(t, "rlock")
             \/ t \in Writers /\ ForLoop(t, "wlock")
      PROVE  Kept
  <2>1. Roles'
    BY <1>0, <1>1 DEF ForLoop, RwInv, Roles, At, Goto
  <2> QED
    BY <1>0, <1>1, <2>1, OutsideStep DEF ForLoop, At, Goto
<1>2. ASSUME NEW r \in Readers, rwlock_read_lock(r) PROVE Kept
  <2>1. CASE At(r, "rlock") /\ read_count = 0
    <3>1. Inside = {}
      BY <2>1, InsideFinite, FS_EmptySet DEF RwInv, ReadersCounted
    <3>2. pc' = [pc EXCEPT ![r] = "first"] /\ counter_lock' = r /\ counter_lock = None
          /\ read_count' = 1 /\ write_lock' = write_lock
      BY <1>2, <2>1 DEF rwlock_read_lock, At, Goto
    <3>3. Inside' = {r}
      BY <1>0, <3>1, <3>2 DEF Inside, At
    <3>4. Roles' /\ Holders'
      BY <1>0, <2>1, <3>1, <3>2 DEF RwInv, Roles, Holders, Inside, At
    <3>5. \A s \in Readers : pc[s] # "reading" /\ pc'[s] # "reading"
      BY <1>0, <3>1, <3>2 DEF Inside, At
    <3>6. ReadersCounted'
      BY <3>2, <3>3, <3>5, FS_Singleton DEF RwInv, ReadersCounted, At
    <3> QED
      BY <3>4, <3>6
  <2>2. CASE At(r, "rlock") /\ read_count # 0
    <3>1. pc' = [pc EXCEPT ![r] = "reading"] /\ counter_lock' = None /\ counter_lock = None
          /\ read_count' = read_count + 1 /\ write_lock' = write_lock
      BY <1>2, <2>2 DEF rwlock_read_lock, At, Goto
    <3>2. Inside # {}
      BY <2>2, FS_EmptySet DEF RwInv, ReadersCounted
    <3>3. \A s \in Readers : ~At(s, "first")
      BY <1>0, <3>1 DEF RwInv, Holders
    <3>4. \E s \in Readers : At(s, "reading")
      BY <3>2, <3>3 DEF Inside
    <3>5. Inside' = Inside \cup {r} /\ r \notin Inside
      BY <1>0, <2>2, <3>1 DEF Inside, At
    <3>6. Roles' /\ Holders'
      BY <1>0, <2>2, <3>1, <3>3 DEF RwInv, Roles, Holders, At
    <3>7. pc'[r] = "reading" /\ write_lock' \in Readers
      BY <1>0, <3>1, <3>4 DEF RwInv, ReadersCounted
    <3>8. read_count' = Cardinality(Inside')
      BY <3>1, <3>5, InsideFinite, FS_AddElement DEF RwInv, ReadersCounted
    <3> QED
      BY <3>6, <3>7, <3>8 DEF ReadersCounted, At
  <2>3. CASE At(r, "first")
    <3>1. pc' = [pc EXCEPT ![r] = "reading"] /\ counter_lock' = None /\ counter_lock = r
          /\ read_count' = read_count /\ write_lock' = r /\ write_lock = None
      BY <1>2, <2>3 DEF rwlock_read_lock, At, Goto, RwInv, Holders
    <3>2. Inside' = Inside
      BY <1>0, <2>3, <3>1 DEF Inside, At
    <3>3. Roles' /\ Holders'
      BY <1>0, <2>3, <3>1 DEF RwInv, Roles, Holders, At
    <3>4. pc'[r] = "reading"
      BY <1>0, <3>1
    <3> QED
      BY <3>1, <3>2, <3>3, <3>4 DEF RwInv, ReadersCounted, At
  <2> QED
    BY <1>2, <2>1, <2>2, <2>3 DEF rwlock_read_lock
<1>3. ASSUME NEW r \in Readers, rwlock_read_unlock(r) PROVE Kept
  <2>1. pc' = [pc EXCEPT ![r] = "consume"] /\ pc[r] = "reading"
        /\ counter_lock' = None /\ counter_lock = None /\ read_count' = read_count - 1
        /\ write_lock' = IF read_count = 1 THEN None ELSE write_lock
    BY <1>3 DEF rwlock_read_unlock, At, Goto
  <2>2. r \in Inside /\ Inside' = Inside \ {r} /\ write_lock \in Readers
    BY <1>0, <2>1 DEF Inside, At, RwInv, ReadersCounted
  <2>3. read_count' = Cardinality(Inside')
    BY <2>1, <2>2, InsideFinite, FS_RemoveElement DEF RwInv, ReadersCounted
  <2>4. \A s \in Readers : ~At(s, "first")
    BY <1>0, <2>1 DEF RwInv, Holders
  <2>5. Roles' /\ Holders'
    BY <1>0, <2>1, <2>2, <2>4 DEF RwInv, Roles, Holders, At
  <2>6. IsFiniteSet(Inside')
    BY <2>2, InsideFinite, FS_RemoveElement
  <2>7. (write_lock' \in Readers) <=> \E s \in Readers : pc'[s] = "reading"
    <3>1. CASE read_count = 1
      <4>1. Inside' = {}
        BY <2>1, <2>3, <2>6, <3>1, FS_EmptySet
      <4> QED
        BY <1>0, <2>1, <3>1, <4>1 DEF Inside, At
    <3>2. CASE read_count # 1
      <4>1. Inside' # {}
        <5>1. Cardinality(Inside') # 0
          BY <2>1, <2>3, <3>2 DEF RwInv, TypeOK, RwTypes
        <5> QED
          BY <5>1, FS_EmptySet
      <4>2. PICK s \in Readers : s # r /\ s \in Inside
        BY <2>2, <4>1 DEF Inside
      <4>3. pc'[s] = "reading"
        BY <1>0, <2>1, <2>4, <4>2 DEF Inside, At
      <4> QED
        BY <2>1, <2>2, <3>2, <4>3
    <3> QED
      BY <3>1, <3>2
  <2> QED
    BY <2>3, <2>5, <2>7 DEF ReadersCounted, At
<1>4. ASSUME NEW w \in Writers, rwlock_write_lock(w) PROVE Kept
  <2>1. pc' = [pc EXCEPT ![w] = "writing"] /\ write_lock = None /\ write_lock' = w
        /\ UNCHANGED <<counter_lock, read_count>>
    BY <1>4 DEF rwlock_write_lock, At, Goto
  <2>2. Inside' = Inside /\ \A r \in Readers : pc'[r] = pc[r]
    BY <1>0, <2>1 DEF Inside, At
  <2>3. Roles' /\ Holders'
    BY <1>0, <2>1, <2>2 DEF RwInv, Roles, Holders, At
  <2> QED
    BY <1>0, <2>1, <2>2, <2>3 DEF RwInv, ReadersCounted, At
<1>5. ASSUME NEW w \in Writers, rwlock_write_unlock(w) PROVE Kept
  <2>1. pc' = [pc EXCEPT ![w] = "produce"] /\ write_lock = w /\ write_lock' = None
        /\ UNCHANGED <<counter_lock, read_count>>
    BY <1>5 DEF rwlock_write_unlock, At, Goto, RwInv, Holders
  <2>2. Inside' = Inside /\ \A r \in Readers : pc'[r] = pc[r]
    BY <1>0, <2>1 DEF Inside, At
  <2>3. Roles' /\ Holders'
    BY <1>0, <2>1, <2>2 DEF RwInv, Roles, Holders, At
  <2> QED
    BY <1>0, <2>1, <2>2, <2>3 DEF RwInv, ReadersCounted, At
<1>6. ASSUME NEW w \in Writers, bb_produce(w) PROVE Kept
  <2>1. /\ \A t \in Users : \/ pc'[t] = pc[t]
                            \/ /\ pc[t] \notin {"first", "reading", "writing"}
                               /\ pc'[t] \notin {"first", "reading", "writing"}
        /\ Roles' /\ UNCHANGED rwlock
    BY <1>0, <1>6 DEF bb_produce, SignalAndLoop, Waiting, At, Goto, RwInv, Roles
  <2> QED
    BY <2>1, OutsideStep
<1>7. ASSUME NEW r \in Readers, bb_consume(r) PROVE Kept
  <2>1. /\ \A t \in Users : \/ pc'[t] = pc[t]
                            \/ /\ pc[t] \notin {"first", "reading", "writing"}
                               /\ pc'[t] \notin {"first", "reading", "writing"}
        /\ Roles' /\ UNCHANGED rwlock
    BY <1>0, <1>7 DEF bb_consume, SignalAndLoop, Waiting, At, Goto, RwInv, Roles
  <2> QED
    BY <2>1, OutsideStep
<1>8. ASSUME NEW t \in Users, SpuriousWakeup(t) PROVE Kept
  <2>1. /\ \A u \in Users : \/ pc'[u] = pc[u]
                            \/ /\ pc[u] \notin {"first", "reading", "writing"}
                               /\ pc'[u] \notin {"first", "reading", "writing"}
        /\ Roles' /\ UNCHANGED rwlock
    BY <1>0, <1>8 DEF SpuriousWakeup, At, Goto, RwInv, Roles
  <2> QED
    BY <2>1, OutsideStep
<1>9. CASE handle_signal \/ main \/ UNCHANGED vars
  <2>1. UNCHANGED <<pc, rwlock>>
    BY <1>9 DEF handle_signal, main, vars
  <2> QED
    BY <2>1, OutsideStep DEF RwInv, Roles
<1> QED
  BY <1>0, <1>1, <1>2, <1>3, <1>4, <1>5, <1>6, <1>7, <1>8, <1>9
     DEF Next, reader_thread, writer_thread
-----------------------------------------------------------------------------
\* Finitely many threads sleep, now and after the step.
LEMMA WaitingFinite ==
  ASSUME BufferConstants, NEW q
  PROVE  /\ IsFiniteSet(Waiting(q)) /\ Cardinality(Waiting(q)) \in Nat
         /\ IsFiniteSet(Waiting(q)') /\ Cardinality(Waiting(q)') \in Nat
<1>1. IsFiniteSet(Users)
  BY FS_Union DEF BufferConstants, Users
<1>2. Waiting(q) \subseteq Users /\ Waiting(q)' \subseteq Users
  BY DEF Waiting
<1> QED
  BY <1>1, <1>2, FS_Subset, FS_CardinalityType

\* A step that puts nobody to sleep, takes nobody who is awake from the buffer
\* and leaves the buffer alone.
LEMMA AwakeStep ==
  ASSUME BufferConstants, RwInv, NoLostWakeup, count' = count, running' => running,
         Waiting("waitEmpty")' \subseteq Waiting("waitEmpty"),
         Waiting("waitFull")' \subseteq Waiting("waitFull"),
         Waiting("consume") \subseteq Waiting("consume")',
         Waiting("produce") \subseteq Waiting("produce")'
  PROVE  NoLostWakeup'
<1>1. /\ Cardinality(Waiting("consume")) <= Cardinality(Waiting("consume")')
      /\ Cardinality(Waiting("produce")) <= Cardinality(Waiting("produce")')
  BY WaitingFinite, FS_Subset
<1>2. /\ Cardinality(Waiting("consume")) \in Nat /\ Cardinality(Waiting("consume")') \in Nat
      /\ Cardinality(Waiting("produce")) \in Nat /\ Cardinality(Waiting("produce")') \in Nat
      /\ count \in Nat /\ Size \in Nat
  BY WaitingFinite DEF RwInv, TypeOK, RingTypes, BufferConstants
<1>3. ASSUME running', Waiting("waitEmpty")' # {}
      PROVE  count' <= Cardinality(Waiting("consume")')
  BY <1>1, <1>2, <1>3 DEF NoLostWakeup
<1>4. ASSUME running', Waiting("waitFull")' # {}
      PROVE  Size - count' <= Cardinality(Waiting("produce")')
  BY <1>1, <1>2, <1>4 DEF NoLostWakeup
<1> QED
  BY <1>3, <1>4 DEF NoLostWakeup

\* bb_produce: the item it puts has a consumer that is awake, unless none sleeps.
LEMMA ProduceWakes ==
  ASSUME BufferConstants, RwInv, NoLostWakeup, NEW w \in Writers, bb_produce(w)
  PROVE  NoLostWakeup'
<1> DEFINE C == Waiting("consume") P == Waiting("produce")
           E == Waiting("waitEmpty") F == Waiting("waitFull")
<1>0. /\ w \in Users /\ pc[w] = "produce" /\ running' = running
      /\ count \in Nat /\ Size \in Nat /\ count <= Size
      /\ \A t \in Users : t \in DOMAIN pc
      /\ pc = [t \in Users |-> pc[t]]
  BY DEF Users, bb_produce, At, RwInv, TypeOK, RingTypes, ThreadTypes, BufferConstants
<1>1. CASE count = Size /\ running /\ Goto(w, "waitFull") /\ UNCHANGED bb
  <2>1. E' = E /\ C' = C
    BY <1>0, <1>1 DEF Waiting, At, Goto
  <2>2. count' = count /\ Size - count' = 0
    BY <1>0, <1>1 DEF bb
  <2>3. Cardinality(P') \in Nat
    BY WaitingFinite
  <2> QED
    BY <1>0, <2>1, <2>2, <2>3 DEF NoLostWakeup
<1>2. CASE ~running
  BY <1>0, <1>2 DEF NoLostWakeup
<1>3. CASE running /\ count' = count + 1 /\ SignalAndLoop(w, "waitEmpty", "consume")
  <2>1. P' = P \ {w} /\ w \in P /\ F' = F
    BY <1>0, <1>3 DEF SignalAndLoop, Waiting, At, Goto
  <2>2. Cardinality(P') = Cardinality(P) - 1 /\ Cardinality(P) \in Nat
    BY <2>1, WaitingFinite, FS_RemoveElement
  <2>3. F' # {} => Size - count' <= Cardinality(P')
    BY <1>0, <1>3, <2>1, <2>2 DEF NoLostWakeup
  <2>4. CASE E = {}
    <3>1. E' = {}
      BY <1>0, <1>3, <2>4 DEF SignalAndLoop, Waiting, At, Goto
    <3> QED
      BY <2>3, <3>1 DEF NoLostWakeup
  <2>5. CASE E # {}
    <3>1. PICK u \in E : pc' = [pc EXCEPT ![w] = "loop", ![u] = "consume"]
      BY <1>3, <2>5 DEF SignalAndLoop
    <3>2. C' = C \cup {u} /\ u \notin C
      BY <1>0, <3>1 DEF Waiting, At
    <3>3. Cardinality(C') = Cardinality(C) + 1 /\ Cardinality(C) \in Nat
      BY <3>2, WaitingFinite, FS_AddElement
    <3>4. count <= Cardinality(C)
      BY <1>3, <2>5 DEF NoLostWakeup
    <3>5. count' <= Cardinality(C')
      BY <1>0, <1>3, <3>3, <3>4
    <3> QED
      BY <2>3, <3>5 DEF NoLostWakeup
  <2> QED
    BY <2>4, <2>5
<1> QED
  BY <1>1, <1>2, <1>3 DEF bb_produce

\* bb_consume: the slot it frees has a producer that is awake, unless none sleeps.
LEMMA ConsumeWakes ==
  ASSUME BufferConstants, RwInv, NoLostWakeup, NEW r \in Readers, bb_consume(r)
  PROVE  NoLostWakeup'
<1> DEFINE C == Waiting("consume") P == Waiting("produce")
           E == Waiting("waitEmpty") F == Waiting("waitFull")
<1>0. /\ r \in Users /\ pc[r] = "consume" /\ running' = running
      /\ count \in Nat /\ Size \in Nat /\ count <= Size
      /\ pc = [t \in Users |-> pc[t]]
  BY DEF Users, bb_consume, At, RwInv, TypeOK, RingTypes, ThreadTypes, BufferConstants
<1>1. CASE count = 0 /\ running /\ Goto(r, "waitEmpty") /\ UNCHANGED bb
  <2>1. F' = F /\ P' = P
    BY <1>0, <1>1 DEF Waiting, At, Goto
  <2>2. count' = count /\ count' = 0
    BY <1>0, <1>1 DEF bb
  <2>3. Cardinality(C') \in Nat
    BY WaitingFinite
  <2> QED
    BY <1>0, <2>1, <2>2, <2>3 DEF NoLostWakeup
<1>2. CASE ~running
  BY <1>0, <1>2 DEF NoLostWakeup
<1>3. CASE running /\ count > 0 /\ count' = count - 1 /\ SignalAndLoop(r, "waitFull", "produce")
  <2>1. C' = C \ {r} /\ r \in C /\ E' = E
    BY <1>0, <1>3 DEF SignalAndLoop, Waiting, At, Goto
  <2>2. Cardinality(C') = Cardinality(C) - 1 /\ Cardinality(C) \in Nat
    BY <2>1, WaitingFinite, FS_RemoveElement
  <2>3. E' # {} => count' <= Cardinality(C')
    BY <1>0, <1>3, <2>1, <2>2 DEF NoLostWakeup
  <2>4. CASE F = {}
    <3>1. F' = {}
      BY <1>0, <1>3, <2>4 DEF SignalAndLoop, Waiting, At, Goto
    <3> QED
      BY <2>3, <3>1 DEF NoLostWakeup
  <2>5. CASE F # {}
    <3>1. PICK u \in F : pc' = [pc EXCEPT ![r] = "loop", ![u] = "produce"]
      BY <1>3, <2>5 DEF SignalAndLoop
    <3>2. P' = P \cup {u} /\ u \notin P
      BY <1>0, <3>1 DEF Waiting, At
    <3>3. Cardinality(P') = Cardinality(P) + 1 /\ Cardinality(P) \in Nat
      BY <3>2, WaitingFinite, FS_AddElement
    <3>4. Size - count <= Cardinality(P)
      BY <1>3, <2>5 DEF NoLostWakeup
    <3>5. Size - count' <= Cardinality(P')
      BY <1>0, <1>3, <3>3, <3>4
    <3> QED
      BY <2>3, <3>5 DEF NoLostWakeup
  <2> QED
    BY <2>4, <2>5
<1> QED
  BY <1>1, <1>2, <1>3 DEF bb_consume

\* No step of rwlock_buffer.c loses a wakeup.
LEMMA WakeupStep == BufferConstants /\ RwInv /\ NoLostWakeup /\ [Next]_vars => NoLostWakeup'
<1> SUFFICES ASSUME BufferConstants, RwInv, NoLostWakeup, [Next]_vars PROVE NoLostWakeup'
  OBVIOUS
<1>0. pc = [t \in Users |-> pc[t]] /\ Readers \subseteq Users /\ Writers \subseteq Users
  BY DEF RwInv, TypeOK, ThreadTypes, Users
<1> USE DEF Waiting, At, Goto, bb
<1>1. ASSUME NEW t \in Users, NEW l \in {"rlock", "wlock"}, ForLoop(t, l) PROVE NoLostWakeup'
  BY <1>0, <1>1, AwakeStep DEF ForLoop
<1>2. ASSUME NEW r \in Readers, rwlock_read_lock(r) PROVE NoLostWakeup'
  BY <1>0, <1>2, AwakeStep DEF rwlock_read_lock
<1>3. ASSUME NEW r \in Readers, rwlock_read_unlock(r) PROVE NoLostWakeup'
  BY <1>0, <1>3, AwakeStep DEF rwlock_read_unlock
<1>4. ASSUME NEW w \in Writers, rwlock_write_lock(w) PROVE NoLostWakeup'
  BY <1>0, <1>4, AwakeStep DEF rwlock_write_lock
<1>5. ASSUME NEW w \in Writers, rwlock_write_unlock(w) PROVE NoLostWakeup'
  BY <1>0, <1>5, AwakeStep DEF rwlock_write_unlock
<1>6. ASSUME NEW t \in Users, SpuriousWakeup(t) PROVE NoLostWakeup'
  BY <1>0, <1>6, AwakeStep DEF SpuriousWakeup
<1>7. CASE handle_signal \/ main \/ UNCHANGED vars
  BY <1>7, AwakeStep DEF handle_signal, main, vars
<1> QED
  BY <1>0, <1>1, <1>2, <1>3, <1>4, <1>5, <1>6, <1>7, ProduceWakes, ConsumeWakes
     DEF Next, reader_thread, writer_thread
-----------------------------------------------------------------------------
\* in is count slots after out.
Ring == in = IF out + count < Size THEN out + count ELSE out + count - Size

\* A cursor that has passed the end of the ring once at most.
LEMMA Around ==
  ASSUME BufferConstants, NEW s \in 0 .. 2 * Size - 1
  PROVE  s % Size = IF s < Size THEN s ELSE s - Size
<1> USE DEF BufferConstants
<1>1. CASE s < Size
  BY <1>1
<1>2. CASE s >= Size
  <2>1. s - Size \in 0 .. Size - 1 /\ s = Size + (s - Size)
    BY <1>2
  <2>2. s % Size = s - Size
    BY <2>1
  <2> QED
    BY <1>2, <2>2
<1> QED
  BY <1>1, <1>2

\* bb_produce leaves the buffer alone or puts its item behind the others.
LEMMA ProduceAppends ==
  ASSUME BufferConstants, RwInv, Ring, NEW w \in Writers, bb_produce(w)
  PROVE  Ring' /\ (Contents' = Contents \/ Contents' = Append(Contents, new_value[w]))
<1>0. /\ Size \in Nat /\ Size > 0 /\ count \in 0 .. Size
      /\ in \in 0 .. Size - 1 /\ out \in 0 .. Size - 1
      /\ buffer = [i \in 0 .. Size - 1 |-> buffer[i]]
  BY DEF BufferConstants, RwInv, TypeOK, RingTypes
<1>1. CASE UNCHANGED bb
  BY <1>1 DEF bb, Ring, Contents
<1>2. CASE /\ count < Size /\ buffer' = [buffer EXCEPT ![in] = new_value[w]]
           /\ in' = (in + 1) % Size /\ count' = count + 1 /\ UNCHANGED out
  <2>1. in' = IF in + 1 < Size THEN in + 1 ELSE in + 1 - Size
    <3>1. in + 1 \in 0 .. 2 * Size - 1
      BY <1>0
    <3> QED
      BY <1>0, <1>2, <3>1, Around
  <2>2. count' = count + 1 /\ out' = out /\ count < Size
    BY <1>2
  <2>3. Ring'
    BY <1>0, <1>2, <2>1, <2>2 DEF Ring
  <2>4. ASSUME NEW i \in 1 .. count + 1
        PROVE  buffer'[(out + i - 1) % Size]
                 = IF i = count + 1 THEN new_value[w] ELSE buffer[(out + i - 1) % Size]
    <3>1. PICK k : k = (out + i - 1) % Size
      OBVIOUS
    <3>2. out + i - 1 \in 0 .. 2 * Size - 1
      BY <1>0
    <3>3. k = IF out + i - 1 < Size THEN out + i - 1 ELSE out + i - 1 - Size
      BY <1>0, <3>1, <3>2, Around
    <3>4. k \in 0 .. Size - 1 /\ (k = in <=> i = count + 1)
      BY <1>0, <2>2, <3>3 DEF Ring
    <3> QED
      BY <1>0, <1>2, <3>1, <3>4
  <2>5. Contents' = [i \in 1 .. count + 1 |-> buffer'[(out + i - 1) % Size]]
    BY <1>2 DEF Contents
  <2>6. Append(Contents, new_value[w])
          = [i \in 1 .. count + 1 |-> IF i = count + 1 THEN new_value[w] ELSE Contents[i]]
    BY <1>0 DEF Contents
  <2>7. ASSUME NEW i \in 1 .. count + 1
        PROVE  buffer'[(out + i - 1) % Size] = IF i = count + 1 THEN new_value[w] ELSE Contents[i]
    <3>1. CASE i = count + 1
      BY <2>4, <3>1
    <3>2. CASE i # count + 1
      <4>1. i \in 1 .. count
        BY <1>0, <3>2
      <4> QED
        BY <2>4, <3>2, <4>1 DEF Contents
    <3> QED
      BY <3>1, <3>2
  <2> QED
    BY <2>3, <2>5, <2>6, <2>7
<1> QED
  BY <1>1, <1>2 DEF bb_produce

\* bb_consume leaves the buffer alone or takes its oldest item.
LEMMA ConsumeTakesOldest ==
  ASSUME BufferConstants, RwInv, Ring, NEW r \in Readers, bb_consume(r)
  PROVE  Ring' /\ (Contents' = Contents \/ (count > 0 /\ Contents' = Tail(Contents)))
<1>0. /\ Size \in Nat /\ Size > 0 /\ count \in 0 .. Size
      /\ in \in 0 .. Size - 1 /\ out \in 0 .. Size - 1
  BY DEF BufferConstants, RwInv, TypeOK, RingTypes
<1>1. CASE UNCHANGED bb
  BY <1>1 DEF bb, Ring, Contents
<1>2. CASE /\ count > 0 /\ out' = (out + 1) % Size /\ count' = count - 1
           /\ UNCHANGED <<buffer, in>>
  <2>1. PICK o \in 0 .. Size - 1 : /\ o = out'
                                   /\ o = IF out + 1 < Size THEN out + 1 ELSE out + 1 - Size
    <3>1. out + 1 \in 0 .. 2 * Size - 1
      BY <1>0
    <3>2. (out + 1) % Size = IF out + 1 < Size THEN out + 1 ELSE out + 1 - Size
      BY <1>0, <3>1, Around
    <3>3. (out + 1) % Size \in 0 .. Size - 1
      BY <1>0
    <3> QED
      BY <1>2, <3>2, <3>3
  <2>2. in = IF o + (count - 1) < Size THEN o + (count - 1) ELSE o + (count - 1) - Size
    BY <1>0, <1>2, <2>1 DEF Ring
  <2>3. Ring'
    BY <1>2, <2>1, <2>2 DEF Ring
  <2>4. ASSUME NEW i \in 1 .. count - 1
        PROVE  (o + i - 1) % Size = (out + (i + 1) - 1) % Size
    <3>1. o + i - 1 \in 0 .. 2 * Size - 1 /\ out + (i + 1) - 1 \in 0 .. 2 * Size - 1
      BY <1>0, <2>1
    <3>2. (o + i - 1) % Size = IF o + i - 1 < Size THEN o + i - 1 ELSE o + i - 1 - Size
      BY <1>0, <2>1, <3>1, Around
    <3>3. (out + (i + 1) - 1) % Size = IF out + (i + 1) - 1 < Size THEN out + (i + 1) - 1
                                       ELSE out + (i + 1) - 1 - Size
      BY <1>0, <2>1, <3>1, Around
    <3>4. (IF o + i - 1 < Size THEN o + i - 1 ELSE o + i - 1 - Size)
            = IF out + (i + 1) - 1 < Size THEN out + (i + 1) - 1 ELSE out + (i + 1) - 1 - Size
      BY <1>0, <2>1
    <3> QED
      BY <3>2, <3>3, <3>4
  <2>5. Contents' = [i \in 1 .. count - 1 |-> buffer[(o + i - 1) % Size]]
    BY <1>2, <2>1 DEF Contents
  <2>6. ASSUME NEW i \in 1 .. count - 1
        PROVE  Contents'[i] = Contents[i + 1]
    <3>1. i + 1 \in 1 .. count
      BY <1>0
    <3> QED
      BY <2>4, <2>5, <3>1 DEF Contents
  <2>7. Contents \in Seq(Values \cup {None}) /\ Len(Contents) = count
    <3>1. \A i \in 1 .. count : (out + i - 1) % Size \in 0 .. Size - 1
      BY <1>0
    <3>2. Contents \in [1 .. count -> Values \cup {None}]
      BY <3>1 DEF Contents, RwInv, TypeOK, RingTypes
    <3>3. count \in Nat
      BY <1>0
    <3> QED
      BY <3>2, <3>3
  <2>8. Contents' = [i \in 1 .. count - 1 |-> Contents'[i]]
    BY <2>5
  <2>9. Contents' = Tail(Contents)
    BY <1>0, <2>2, <2>6, <2>7, <2>8
  <2> QED
    BY <1>2, <2>3, <2>9
<1> QED
  BY <1>1, <1>2 DEF bb_consume

\* What one step does to the contents of the buffer.
FifoStep ==
    \/ Contents' = Contents
    \/ count > 0 /\ Contents' = Tail(Contents)
    \/ \E w \in Writers : At(w, "produce") /\ Contents' = Append(Contents, new_value[w])

\* No other step touches the buffer.
LEMMA RingStep == BufferConstants /\ RwInv /\ Ring /\ [Next]_vars => Ring' /\ FifoStep
<1> SUFFICES ASSUME BufferConstants, RwInv, Ring, [Next]_vars PROVE Ring' /\ FifoStep
  OBVIOUS
<1>1. CASE UNCHANGED bb
  BY <1>1 DEF bb, Ring, Contents, FifoStep
<1>2. ASSUME NEW w \in Writers, bb_produce(w) PROVE Ring' /\ FifoStep
  BY <1>2, ProduceAppends DEF FifoStep, bb_produce
<1>3. ASSUME NEW r \in Readers, bb_consume(r) PROVE Ring' /\ FifoStep
  BY <1>3, ConsumeTakesOldest DEF FifoStep
<1> QED
  BY <1>1, <1>2, <1>3
     DEF Next, reader_thread, writer_thread, ForLoop, rwlock_read_lock, rwlock_read_unlock,
         rwlock_write_lock, rwlock_write_unlock, SpuriousWakeup, handle_signal, main, vars
-----------------------------------------------------------------------------
\* All together.
BufferInv == RwInv /\ NoLostWakeup /\ Ring

\* It holds when main starts the threads.
LEMMA BufferStart == BufferConstants /\ Init => BufferInv
<1> SUFFICES ASSUME BufferConstants, Init PROVE BufferInv
  OBVIOUS
<1>1. Waiting("waitEmpty") = {} /\ Waiting("waitFull") = {}
  BY DEF Init, Waiting, At
<1>2. NoLostWakeup
  BY <1>1 DEF NoLostWakeup
<1>3. Ring
  BY Around DEF Ring, Init, BufferConstants
<1> QED
  BY <1>2, <1>3, RwStart DEF BufferInv

\* Every step of rwlock_buffer.c keeps it.
LEMMA BufferStep == BufferConstants /\ BufferInv /\ [Next]_vars => BufferInv' /\ FifoStep
  BY TypeStep, LocksStep, WakeupStep, RingStep DEF BufferInv, RwInv

\* What it gives: a writer has write_lock and the readers inside have it for
\* themselves, so that they exclude each other.
LEMMA BufferSafe ==
  BufferConstants /\ BufferInv => TypeOK /\ WriterIsAlone /\ ReadersCounted /\ NoLostWakeup
<1> SUFFICES ASSUME BufferConstants, BufferInv PROVE WriterIsAlone
  BY DEF BufferInv, RwInv
<1> SUFFICES ASSUME NEW w \in Writers, At(w, "writing"), NEW t \in Users \ {w}
             PROVE  ~At(t, "writing") /\ ~At(t, "reading")
  BY DEF WriterIsAlone
<1>1. write_lock = w /\ w \notin Readers
  BY DEF BufferInv, RwInv, Holders, BufferConstants
<1>2. ~At(t, "writing")
  BY <1>1 DEF BufferInv, RwInv, Holders, Roles, Users, At
<1>3. ~At(t, "reading")
  BY <1>1 DEF BufferInv, RwInv, ReadersCounted, Roles, Users, At
<1> QED
  BY <1>2, <1>3

\* However many readers and writers rwlock_buffer.c has, however large its buffer is
\* and however often they loop: a writer of shared_data is alone, reader_count is
\* right, the buffer is first-in first-out and no wakeup is lost while it runs.
THEOREM BufferIsRight ==
  ASSUME BufferConstants
  PROVE  Spec => [](TypeOK /\ WriterIsAlone /\ ReadersCounted /\ NoLostWakeup) /\ BufferIsFifo
<1>1. Init => BufferInv
  BY BufferStart
<1>2. BufferInv /\ [Next]_vars => BufferInv' /\ FifoStep
  BY BufferStep
<1>3. BufferInv => TypeOK /\ WriterIsAlone /\ ReadersCounted /\ NoLostWakeup
  BY BufferSafe
<1>4. BufferInv /\ [Next]_vars => [FifoStep]_vars
  BY <1>2
<1> QED
  BY <1>1, <1>2, <1>3, <1>4, PTL DEF Spec, BufferIsFifo, FifoStep
=============================================================================

------------------------------ MODULE MCSystem ------------------------------
(***************************************************************************)
(* The circular queue, the programs that talk to devices, clients,         *)
(* children, files and other processes, and the binary search: the         *)
(* io_uring server, the write buffer, the UART driver, the select server,  *)
(* the shell and the two processes with named semaphores; the memory       *)
(* schedulers of concurrency/scheduling and the processor schedulers of    *)
(* os/process/scheduler, and the simulations of threads on one and on      *)
(* several processors.  Seven of them have a section: constants, state,    *)
(* module, and what is proved about them for all values of the constants.  *)
(* The multi-level queue and the named semaphores have theirs in their own *)
(* modules.  The suite at the end runs one program at a time.              *)
(***************************************************************************)
EXTENDS CircularQueue, FiniteSets, TLAPS

VARIABLE program   \* the program that runs

\* What the sections use of numbers and finite sets.  SetFactsHold, behind the last of
\* them, proves it from the library, whose theorems would slow down every proof here.
Smallest == \A S \in SUBSET Nat : S # {} => \E s \in S : \A r \in S : s <= r
Singletons == Cardinality({}) = 0 /\ \A x : Cardinality({x}) = 1
Intervals ==
    \A a, b \in Int : IsFiniteSet(a .. b) /\ Cardinality(a .. b) = IF a > b THEN 0 ELSE b - a + 1
Counts == \A S : IsFiniteSet(S) => Cardinality(S) \in Nat
PigeonHole ==
    \A S, T : IsFiniteSet(S) /\ IsFiniteSet(T) /\ Cardinality(T) < Cardinality(S) =>
        \A f \in [S -> T] : \E x, y \in S : x # y /\ f[x] = f[y]
SetFacts == Smallest /\ Singletons /\ Intervals /\ Counts /\ PigeonHole
-----------------------------------------------------------------------------
(***************************************************************************)
(* For queues of every capacity and callers that never resize to exactly   *)
(* the number of entries, the ring stays consistent and implements the     *)
(* bounded FIFO.  The inductive invariant is IndInv; the argument is one   *)
(* step per call about what it does to FromHead, the elements in ring      *)
(* order.                                                                  *)
(***************************************************************************)
\* The ring: what waits is what the bounded FIFO holds, and each call does to both the same.
LEMMA QueueInductive ==
    ASSUME ExactResize = FALSE
    PROVE  /\ Init => IndInv /\ Fifo!Init
           /\ IndInv /\ [Next]_vars => IndInv' /\ [Fifo!Next]_(Fifo!vars)
  \* Arithmetic of a cursor that walks a ring of n slots: inside the first lap.
  <1>ModSmall. ASSUME NEW n \in Nat, n > 0, NEW a \in 0 .. n - 1
                  PROVE  a % n = a
    BY <1>ModSmall, SMT

  \* The first slot of a ring.
  <1>ModZero. ASSUME NEW n \in Nat, n > 0 PROVE 0 % n = 0
    BY <1>ModZero, SMT

  \* Arithmetic of a cursor that has passed the end of the ring once.
  <1>ModWrap. ASSUME NEW n \in Nat, n > 0, NEW a \in n .. 2 * n - 1
                 PROVE  a % n = a - n
    BY <1>ModWrap, SMT

  \* The i-th element from head sits in a slot of the array.
  <1>SlotInArray.
    ASSUME TypeOK, initialized, NEW i \in 1 .. size
    PROVE  /\ (head + i - 1) % size \in 0 .. size - 1
           /\ (head + i - 1) % size = IF head + i - 1 < size THEN head + i - 1
                                      ELSE head + i - 1 - size
    <2> USE <1>SlotInArray
    <2>1. size \in Nat /\ size > 0 /\ head \in 0 .. size - 1
      BY DEF TypeOK, Sizes
    <2>2. CASE head + i - 1 < size
      <3>1. head + i - 1 \in 0 .. size - 1
        BY <2>1, <2>2
      <3> QED BY <2>1, <2>2, <3>1, <1>ModSmall
    <2>3. CASE head + i - 1 >= size
      <3>1. head + i - 1 \in size .. 2 * size - 1
        BY <2>1, <2>3
      <3> QED BY <2>1, <2>3, <3>1, <1>ModWrap
    <2> QED BY <2>1, <2>2, <2>3

  \* What lies between head and tail is a sequence of the stored elements.
  <1>FromHeadType.
    ASSUME IndInv
    PROVE  /\ FromHead \in Seq(Values)
           /\ Len(FromHead) = num_entries
           /\ DOMAIN FromHead = 1 .. num_entries
    <2> USE <1>FromHeadType
    <2>1. num_entries \in Nat
      BY DEF IndInv, TypeOK, Sizes
    <2>2. FromHead \in [1 .. num_entries -> Values]
      BY DEF IndInv, NoJunkInside, FromHead
    <2> QED BY <2>1, <2>2 DEF FromHead

  \* One step of a cursor round the ring.
  <1>NextSlot.
    ASSUME TypeOK, initialized, NEW a \in 0 .. size - 1
    PROVE  (a + 1) % size = IF a + 1 < size THEN a + 1 ELSE 0
    <2> USE <1>NextSlot
    <2>1. size \in Nat /\ size > 0
      BY DEF TypeOK, Sizes
    <2>2. CASE a + 1 < size
      BY <2>1, <2>2, <1>ModSmall
    <2>3. CASE a + 1 = size
      <3>1. a + 1 \in size .. 2 * size - 1
        BY <2>1, <2>3
      <3> QED BY <2>1, <2>3, <3>1, <1>ModWrap
    <2> QED BY <2>1, <2>2, <2>3

  \* Where the tail is: num_entries slots after head.
  <1>TailSlot.
    ASSUME TypeOK, RingConsistent, initialized
    PROVE  tail = IF head + num_entries < size THEN head + num_entries
                  ELSE head + num_entries - size
    <2> USE <1>TailSlot
    <2>1. size \in Nat /\ size > 0 /\ head \in 0 .. size - 1 /\ num_entries \in 0 .. size
      BY DEF TypeOK, Sizes
    <2>2. tail = (head + num_entries) % size
      BY DEF RingConsistent
    <2>3. CASE head + num_entries < size
      BY <2>1, <2>2, <2>3, <1>ModSmall
    <2>4. CASE head + num_entries >= size
      BY <2>1, <2>2, <2>4, <1>ModWrap
    <2> QED BY <2>1, <2>3, <2>4

  \* A successful enqueue appends: the slot it writes is none of the elements'.
  <1>EnqueueAppends.
    ASSUME IndInv, NEW v \in Values,
           initialized, ~queue_full,
           values' = [values EXCEPT ![tail] = v],
           tail' = (tail + 1) % size,
           num_entries' = num_entries + 1,
           UNCHANGED <<head, size, initialized>>
    PROVE  IndInv' /\ FromHead' = Append(FromHead, v)
    <2> USE <1>EnqueueAppends
    <2> USE DEF IndInv
    <2>1. /\ size \in Nat /\ size > 0 /\ head \in 0 .. size - 1 /\ tail \in 0 .. size - 1
          /\ num_entries \in 0 .. size - 1
          /\ values \in [0 .. size - 1 -> Values \cup {Junk}]
      BY DEF TypeOK, Sizes, queue_full
    <2>2. tail = IF head + num_entries < size THEN head + num_entries
                 ELSE head + num_entries - size
      BY <1>TailSlot
    <2>3. tail' = IF tail + 1 < size THEN tail + 1 ELSE 0
      BY <2>1, <1>NextSlot
    <2>4. TypeOK'
      BY <2>1, <2>3 DEF TypeOK, Sizes
    <2>5. RingConsistent'
      <3>1. CASE head + num_entries + 1 < size
        BY <2>1, <2>2, <2>3, <3>1, <1>ModSmall DEF RingConsistent
      <3>2. CASE head + num_entries + 1 >= size
        <4>1. head + num_entries + 1 \in size .. 2 * size - 1
          BY <2>1, <3>2
        <4>2. (head + num_entries + 1) % size = head + num_entries + 1 - size
          BY <2>1, <4>1, <1>ModWrap
        <4> QED BY <2>1, <2>2, <2>3, <3>2, <4>2 DEF RingConsistent
      <3> QED BY <2>1, <3>1, <3>2
    <2>6. ASSUME NEW i \in 1 .. num_entries + 1
          PROVE  FromHead'[i] = IF i = num_entries + 1 THEN v ELSE FromHead[i]
      <3>1. (head + i - 1) % size = IF head + i - 1 < size THEN head + i - 1
                                    ELSE head + i - 1 - size
        BY <2>1, <1>SlotInArray
      <3>2. FromHead'[i] = values'[(head + i - 1) % size]
        BY <2>1 DEF FromHead
      <3>3. CASE i = num_entries + 1
        <4>1. (head + i - 1) % size = tail
          BY <2>1, <2>2, <3>1, <3>3
        <4> QED BY <2>1, <3>2, <3>3, <4>1
      <3>4. CASE i # num_entries + 1
        <4>1. (head + i - 1) % size # tail /\ (head + i - 1) % size \in 0 .. size - 1
          BY <2>1, <2>2, <3>1, <3>4
        <4>2. FromHead[i] = values[(head + i - 1) % size]
          BY <2>1, <3>4 DEF FromHead
        <4> QED BY <2>1, <3>2, <3>4, <4>1, <4>2
      <3> QED BY <3>3, <3>4
    <2>7. FromHead' = Append(FromHead, v)
      <3>1. FromHead' = [i \in 1 .. num_entries + 1 |-> FromHead'[i]]
        BY DEF FromHead
      <3>2. /\ FromHead \in Seq(Values) /\ Len(FromHead) = num_entries
        BY <1>FromHeadType
      <3> QED BY <2>1, <2>6, <3>1, <3>2
    <2>8. NoJunkInside'
      BY <2>1, <2>6 DEF NoJunkInside
    <2> QED BY <2>4, <2>5, <2>7, <2>8

  \* A successful dequeue returns the oldest element and drops exactly it.
  <1>DequeueTakesFirst.
    ASSUME IndInv, initialized, ~queue_empty,
           head' = (head + 1) % size,
           num_entries' = num_entries - 1,
           UNCHANGED <<values, tail, size, initialized>>
    PROVE  IndInv' /\ FromHead' = Tail(FromHead)
    <2> USE <1>DequeueTakesFirst
    <2> USE DEF IndInv
    <2>1. /\ size \in Nat /\ size > 0 /\ head \in 0 .. size - 1 /\ tail \in 0 .. size - 1
          /\ num_entries \in 1 .. size
          /\ values \in [0 .. size - 1 -> Values \cup {Junk}]
      BY DEF TypeOK, Sizes, queue_empty
    <2>2. head' = IF head + 1 < size THEN head + 1 ELSE 0
      BY <2>1, <1>NextSlot
    <2>3. TypeOK'
      BY <2>1, <2>2 DEF TypeOK, Sizes
    <2>4. tail = IF head + num_entries < size THEN head + num_entries
                 ELSE head + num_entries - size
      BY <1>TailSlot
    <2>5. RingConsistent'
      <3>1. CASE head' + num_entries - 1 < size
        <4>1. (head' + (num_entries - 1)) % size = head' + num_entries - 1
          BY <2>1, <2>2, <3>1, <1>ModSmall
        <4> QED BY <2>1, <2>2, <2>4, <3>1, <4>1 DEF RingConsistent
      <3>2. CASE head' + num_entries - 1 >= size
        <4>1. head' + (num_entries - 1) \in size .. 2 * size - 1
          BY <2>1, <2>2, <3>2
        <4>2. (head' + (num_entries - 1)) % size = head' + num_entries - 1 - size
          BY <2>1, <4>1, <1>ModWrap
        <4> QED BY <2>1, <2>2, <2>4, <3>2, <4>2 DEF RingConsistent
      <3> QED BY <2>1, <2>2, <3>1, <3>2
    <2>6. ASSUME NEW i \in 1 .. num_entries - 1
          PROVE  FromHead'[i] = FromHead[i + 1]
      <3>1. (head' + i - 1) % size = IF head' + i - 1 < size THEN head' + i - 1
                                     ELSE head' + i - 1 - size
        <4>1. CASE head' + i - 1 < size
          BY <2>1, <2>2, <4>1, <1>ModSmall
        <4>2. CASE head' + i - 1 >= size
          <5>1. head' + i - 1 \in size .. 2 * size - 1
            BY <2>1, <2>2, <4>2
          <5> QED BY <2>1, <2>2, <4>2, <5>1, <1>ModWrap
        <4> QED BY <2>1, <2>2, <4>1, <4>2
      <3>2. i + 1 \in 1 .. size
        BY <2>1
      <3>3. (head + (i + 1) - 1) % size = IF head + (i + 1) - 1 < size THEN head + (i + 1) - 1
                                          ELSE head + (i + 1) - 1 - size
        BY <3>2, <1>SlotInArray
      <3>4. (head' + i - 1) % size = (head + (i + 1) - 1) % size
        BY <2>1, <2>2, <3>1, <3>3
      <3>5. FromHead'[i] = values[(head' + i - 1) % size]
        BY <2>1 DEF FromHead
      <3>6. FromHead[i + 1] = values[(head + (i + 1) - 1) % size]
        BY <2>1 DEF FromHead
      <3> QED BY <3>4, <3>5, <3>6
    <2>7. FromHead' = Tail(FromHead)
      <3>1. FromHead' = [i \in 1 .. num_entries - 1 |-> FromHead'[i]]
        BY DEF FromHead
      <3>2. /\ FromHead \in Seq(Values) /\ Len(FromHead) = num_entries
        BY <1>FromHeadType
      <3> QED BY <2>1, <2>6, <3>1, <3>2
    <2>8. NoJunkInside'
      BY <2>1, <2>6 DEF NoJunkInside
    <2> QED BY <2>3, <2>5, <2>7, <2>8

  \* A successful resize to another size than num_entries keeps the elements.
  <1>ResizeKeeps.
    ASSUME IndInv, NEW n \in Sizes,
           initialized, n > 0, n >= num_entries, n # num_entries,
           values' = [i \in 0 .. n - 1 |->
                        IF i < num_entries THEN FromHead[i + 1] ELSE Junk],
           size' = n, head' = 0, tail' = num_entries,
           UNCHANGED <<num_entries, initialized>>
    PROVE  IndInv' /\ FromHead' = FromHead
    <2> USE <1>ResizeKeeps
    <2> USE DEF IndInv
    <2>1. n \in Nat /\ num_entries \in 0 .. n - 1
      BY DEF TypeOK, Sizes
    <2>2. \A i \in 1 .. num_entries : FromHead[i] \in Values
      BY DEF NoJunkInside
    <2>3. values' \in [0 .. n - 1 -> Values \cup {Junk}]
      BY <2>1, <2>2
    <2>4. TypeOK'
      BY <2>1, <2>3 DEF TypeOK
    <2>5. RingConsistent'
      BY <2>1, <1>ModSmall DEF RingConsistent
    <2>6. ASSUME NEW i \in 1 .. num_entries
          PROVE  FromHead'[i] = FromHead[i]
      <3>1. (head' + i - 1) % size' = i - 1
        BY <2>1, <1>ModSmall
      <3>2. FromHead'[i] = values'[(head' + i - 1) % size']
        BY <2>1 DEF FromHead
      <3> QED BY <2>1, <3>1, <3>2
    <2>7. FromHead' = FromHead
      BY <2>6 DEF FromHead
    <2>8. NoJunkInside'
      BY <2>2, <2>6 DEF NoJunkInside
    <2> QED BY <2>4, <2>5, <2>7, <2>8

  \* Fresh memory has the type of the array.
  <1>MallocType.
    ASSUME NEW n \in Nat PROVE malloc(n) \in [0 .. n - 1 -> Values \cup {Junk}]
    BY <1>MallocType DEF malloc

  \* The queue before queue_init and after queue_destroy is well typed.
  <1>NoQueueType.
    ASSUME values = malloc(0), size = 0, head = 0, tail = 0, num_entries = 0,
           initialized = FALSE
    PROVE  TypeOK
    <2> USE <1>NoQueueType
    <2>1. values \in [0 .. size - 1 -> Values \cup {Junk}]
      BY <1>MallocType
    <2>2. 0 \in Sizes /\ 0 \in 0 .. 0 /\ ~(0 > 0)
      BY SizeAssumption DEF Sizes
    <2> QED BY Zenon, <2>1, <2>2 DEF TypeOK

  \* init, destroy and clear leave a consistent queue with no element.
  <1>EmptiedIsConsistent.
    ASSUME TypeOK', head' = 0, tail' = 0, num_entries' = 0
    PROVE  IndInv' /\ FromHead' = <<>>
    <2> USE <1>EmptiedIsConsistent
    <2>1. RingConsistent'
      <3> SUFFICES ASSUME initialized' PROVE 0 % size' = 0
        BY DEF RingConsistent
      <3>1. size' \in Nat /\ size' > 0
        BY DEF TypeOK, Sizes
      <3> QED BY Zenon, <3>1, <1>ModZero
    <2>2. FromHead' = <<>>
      BY DEF FromHead
    <2>3. NoJunkInside'
      BY DEF NoJunkInside
    <2> QED BY <2>1, <2>2, <2>3 DEF IndInv

  \* What dequeue and peek return is the first element.
  <1>FrontIsHead.
    ASSUME IndInv, initialized, ~queue_empty
    PROVE  values[head] = Head(FromHead)
    <2> USE <1>FrontIsHead
    <2>1. /\ size \in Nat /\ size > 0 /\ head \in 0 .. size - 1
          /\ num_entries \in 1 .. size
      BY DEF IndInv, TypeOK, Sizes, queue_empty
    <2>2. (head + 1 - 1) % size = head
      BY <2>1, <1>ModSmall
    <2>3. FromHead[1] = values[head]
      BY <2>1, <2>2 DEF FromHead
    <2> QED BY <2>1, <2>3, <1>FromHeadType

  \* A call that leaves the queue alone keeps the invariant and the elements.
  <1>SameQueue.
    ASSUME IndInv, UNCHANGED queue
    PROVE  IndInv' /\ FromHead' = FromHead
    BY <1>SameQueue DEF IndInv, TypeOK, RingConsistent, NoJunkInside, FromHead, queue

  \* A caller that does not resize to exactly num_entries.
  <1>StepImplements.
    ASSUME IndInv, [Next]_vars
    PROVE  IndInv' /\ [Fifo!Next]_(Fifo!vars)
    <2> USE <1>StepImplements
    <2> USE DEF Fifo!Outcome, Fifo!Same, Return
    <2>0. /\ FromHead \in Seq(Values) /\ Len(FromHead) = num_entries
          /\ size \in Nat /\ num_entries \in 0 .. size /\ (initialized <=> size > 0)
          /\ initialized \in BOOLEAN
      BY <1>FromHeadType DEF IndInv, TypeOK, Sizes
    <2>1. ASSUME \/ Fail("INVALID") \/ Fail("MEMORY")
                 \/ initialized /\ queue_full /\ Fail("FULL")
                 \/ (~initialized \/ queue_empty) /\ Fail("EMPTY")
          PROVE  IndInv' /\ Fifo!Next
      <3>1. IndInv' /\ FromHead' = FromHead
        BY <2>1, <1>SameQueue DEF Fail
      <3>2. Fifo!Refuse
        BY <2>0, <2>1, <3>1 DEF Fail, Fifo!Refuse, queue, queue_full, queue_empty
      <3> QED BY <3>1, <3>2 DEF Fifo!Next
    <2>2. CASE queue_destroy
      <3>1. CASE ~Fail("INVALID")
        <4>1. TypeOK'
          <5>1. values' \in [0 .. size' - 1 -> Values \cup {Junk}]
            BY <2>2, <3>1, <1>MallocType DEF queue_destroy
          <5>2. 0 \in Sizes /\ 0 \in 0 .. 0 /\ ~(0 > 0)
            BY SizeAssumption DEF Sizes
          <5> QED BY Zenon, <2>2, <3>1, <5>1, <5>2 DEF queue_destroy, TypeOK
        <4>2. IndInv' /\ FromHead' = <<>>
          BY <2>2, <3>1, <4>1, <1>EmptiedIsConsistent DEF queue_destroy
        <4>3. Fifo!Close
          BY <2>2, <3>1, <4>2 DEF queue_destroy, Fifo!Close
        <4> QED BY <4>2, <4>3 DEF Fifo!Next
      <3> QED BY <2>1, <2>2, <3>1 DEF queue_destroy
    <2>3. CASE queue_dequeue
      <3>1. CASE initialized /\ ~queue_empty
        <4>1. IndInv' /\ FromHead' = Tail(FromHead)
          BY Zenon, <2>3, <3>1, <1>DequeueTakesFirst DEF queue_dequeue
        <4>2. values[head] = Head(FromHead)
          BY <2>3, <3>1, <1>FrontIsHead DEF queue_dequeue
        <4>3. Len(FromHead) > 0
          BY <2>0, <3>1 DEF queue_empty
        <4>4. Fifo!Take
          BY Zenon, <2>3, <3>1, <4>1, <4>2, <4>3 DEF queue_dequeue, Fifo!Take
        <4> QED BY <4>1, <4>4 DEF Fifo!Next
      <3> QED BY <2>1, <2>3, <3>1 DEF queue_dequeue
    <2>4. CASE queue_peek
      <3>1. CASE initialized /\ ~queue_empty
        <4>1. IndInv' /\ FromHead' = FromHead
          BY <2>4, <3>1, <1>SameQueue DEF queue_peek
        <4>2. values[head] = Head(FromHead)
          BY <2>4, <3>1, <1>FrontIsHead DEF queue_peek
        <4>3. Len(FromHead) > 0
          BY <2>0, <3>1 DEF queue_empty
        <4>4. Fifo!Look
          BY Zenon, <2>4, <3>1, <4>1, <4>2, <4>3 DEF queue_peek, queue, Fifo!Look
        <4> QED BY <4>1, <4>4 DEF Fifo!Next
      <3> QED BY <2>1, <2>4, <3>1 DEF queue_peek
    <2>5. CASE queue_clear
      <3>1. CASE ~Fail("INVALID")
        <4>1. TypeOK'
          BY <2>5, <3>1 DEF queue_clear, IndInv, TypeOK, Sizes
        <4>2. IndInv' /\ FromHead' = <<>>
          BY <2>5, <3>1, <4>1, <1>EmptiedIsConsistent DEF queue_clear
        <4>3. Fifo!Empty
          BY <2>5, <3>1, <4>2 DEF queue_clear, Fifo!Empty
        <4> QED BY <4>2, <4>3 DEF Fifo!Next
      <3> QED BY <2>1, <2>5, <3>1 DEF queue_clear
    <2>6. CASE queue_print
      <3>1. CASE ~Fail("INVALID")
        <4>1. IndInv' /\ FromHead' = FromHead
          BY <2>6, <3>1, <1>SameQueue DEF queue_print
        <4>2. Fifo!Look
          BY <2>6, <3>1, <4>1 DEF queue_print, queue, Fifo!Look
        <4> QED BY <4>1, <4>2 DEF Fifo!Next
      <3> QED BY <2>1, <2>6, <3>1 DEF queue_print
    <2>7. ASSUME NEW v \in Values, queue_enqueue(v)
          PROVE  IndInv' /\ Fifo!Next
      <3>1. CASE initialized /\ ~queue_full
        <4>1. IndInv' /\ FromHead' = Append(FromHead, v)
          BY Zenon, <2>7, <3>1, <1>EnqueueAppends DEF queue_enqueue
        <4>2. Len(FromHead) < size
          BY <2>0, <3>1 DEF queue_full
        <4>3. Fifo!Put(v)
          BY Zenon, <2>7, <3>1, <4>1, <4>2 DEF queue_enqueue, Fifo!Put
        <4> QED BY <4>1, <4>3 DEF Fifo!Next
      <3> QED BY <2>1, <2>7, <3>1 DEF queue_enqueue
    <2>8. ASSUME NEW n \in Sizes, queue_init(n)
          PROVE  IndInv' /\ Fifo!Next
      <3>1. CASE ~Fail("INVALID") /\ ~Fail("MEMORY")
        <4>1. TypeOK'
          <5>1. values' \in [0 .. size' - 1 -> Values \cup {Junk}]
            BY <2>8, <3>1, <1>MallocType DEF queue_init, Sizes
          <5> QED BY SMTT(30), <2>8, <3>1, <5>1 DEF queue_init, TypeOK, Sizes
        <4>2. IndInv' /\ FromHead' = <<>>
          BY <2>8, <3>1, <4>1, <1>EmptiedIsConsistent DEF queue_init
        <4>3. Fifo!Create(n)
          BY <2>8, <3>1, <4>2 DEF queue_init, Fifo!Create
        <4> QED BY <4>2, <4>3 DEF Fifo!Next
      <3> QED BY <2>1, <2>8, <3>1 DEF queue_init
    <2>9. ASSUME NEW n \in Sizes, n # num_entries, queue_resize(n)
          PROVE  IndInv' /\ Fifo!Next
      <3>1. CASE ~Fail("INVALID") /\ ~Fail("MEMORY")
        <4>1. IndInv' /\ FromHead' = FromHead
          BY <2>9, <3>1, <1>ResizeKeeps DEF queue_resize
        <4>2. Fifo!Resize(n)
          BY <2>0, <2>9, <3>1, <4>1 DEF queue_resize, Fifo!Resize
        <4> QED BY <4>1, <4>2 DEF Fifo!Next
      <3> QED BY <2>1, <2>9, <3>1 DEF queue_resize
    <2>10. CASE UNCHANGED vars
      <3>1. IndInv' /\ FromHead' = FromHead
        BY <2>10, <1>SameQueue DEF vars, queue
      <3> QED BY <2>10, <3>1 DEF vars, Fifo!vars
    <2> QED BY <2>2, <2>3, <2>4, <2>5, <2>6, <2>7, <2>8, <2>9, <2>10 DEF Next

  \* The queue before queue_init is consistent, and is the FIFO not yet created.
  <1>InitImplements.
    ASSUME Init PROVE IndInv /\ Fifo!Init
    <2> USE <1>InitImplements
    <2>1. TypeOK
      BY Zenon, <1>NoQueueType DEF Init
    <2>2. RingConsistent
      BY DEF Init, RingConsistent
    <2>3. FromHead = <<>>
      BY DEF Init, FromHead
    <2>4. NoJunkInside
      BY DEF Init, NoJunkInside
    <2> QED BY <2>1, <2>2, <2>3, <2>4 DEF Init, IndInv, Fifo!Init

  <1> QED BY Zenon, <1>InitImplements, <1>StepImplements

\* For every capacity: the cursors stay in the array
\* (TypeOK), no enqueue overwrites a waiting element (RingConsistent) and no
\* dequeue reads unwritten memory (NoJunkInside), when queue_resize is not
\* called with exactly num_entries.
THEOREM QueueConsistent ==
    ASSUME ExactResize = FALSE
    PROVE  Spec => [](TypeOK /\ RingConsistent /\ NoJunkInside)
  <1>1. Init => IndInv
    BY Zenon, QueueInductive
  <1>2. IndInv /\ [Next]_vars => IndInv'
    BY Zenon, QueueInductive
  <1> QED BY <1>1, <1>2, PTL DEF Spec, IndInv

\* Under the same condition on queue_resize, queue_* of every capacity
\* implement the bounded FIFO of BoundedFifo.
THEOREM QueueImplementsFifo ==
    ASSUME ExactResize = FALSE PROVE Spec => ImplementsFifo
  <1>1. Init => Fifo!Init
    BY Zenon, QueueInductive
  <1>2. IndInv /\ [Next]_vars => [Fifo!Next]_(Fifo!vars)
    BY Zenon, QueueInductive
  <1> QED BY <1>1, <1>2, QueueConsistent, PTL DEF Spec, IndInv, ImplementsFifo, Fifo!Spec
-----------------------------------------------------------------------------
(***************************************************************************)
(* zero_copy_server.c, for any number of connections, queue and            *)
(* descriptors.                                                            *)
(***************************************************************************)
CONSTANTS MaxConnections, QueueDepth, Fds
VARIABLES conn_table, sq, inflight, cq, zc_phase, open, gone

ZC == INSTANCE ZeroCopyServer WITH phase <- zc_phase

ASSUME ServerAssumption == ZC!ServerConstants

ServerFacts == ZC!ServerConstants /\ SetFacts

\* The server: with every request in one place, each step leaves what is due under way.
LEMMA ServerInductive ==
    ASSUME ServerFacts
    PROVE  /\ ZC!Init => ZC!ServerInv
           /\ ZC!ServerInv /\ [ZC!Next]_(ZC!vars) => ZC!ServerInv'
           /\ ZC!ServerInv => /\ ZC!TypeOK /\ ZC!OneAccept /\ ZC!OneReadPerConnection
                              /\ ZC!NoDescriptorLeak /\ ZC!NeverFull
  \* Requests are counted as sets are here.
  <1>ServerSizes.
    \A S : (ZC!IsFiniteSet(S) <=> IsFiniteSet(S)) /\ ZC!Cardinality(S) = Cardinality(S)
    BY DEF ZC!IsFiniteSet, IsFiniteSet, ZC!Cardinality, Cardinality

  \* An accept is no read, and reads of different connections differ.
  <1>RequestKinds.
           /\ ZC!Accept \in ZC!io_data /\ ZC!Accept.event = "accept" /\ ZC!Accept.conn = -1
           /\ \A s, f : ZC!Read(s, f) # ZC!Accept /\ ZC!Read(s, f).conn = s /\ ZC!Read(s, f).fd = f
                        /\ ZC!Read(s, f).event = "read"
           /\ \A s \in ZC!Slots, f \in Fds : ZC!Read(s, f) \in ZC!io_data
           /\ \A r \in ZC!io_data : \/ r = ZC!Accept
                                    \/ /\ r.event = "read" /\ r.conn \in ZC!Slots /\ r.fd \in Fds
                                       /\ r = ZC!Read(r.conn, r.fd) /\ r # ZC!Accept
    <2>1. ZC!Accept \in ZC!io_data /\ ZC!Accept.event = "accept" /\ ZC!Accept.conn = -1
      BY DEF ZC!Accept, ZC!io_data
    <2>2. \A s, f : /\ ZC!Read(s, f) # ZC!Accept /\ ZC!Read(s, f).conn = s /\ ZC!Read(s, f).fd = f
                    /\ ZC!Read(s, f).event = "read"
      BY <2>1 DEF ZC!Accept, ZC!Read
    <2>3. \A s \in ZC!Slots, f \in Fds : ZC!Read(s, f) \in ZC!io_data
      BY DEF ZC!io_data
    <2>4. ASSUME NEW r \in ZC!io_data, r # ZC!Accept
          PROVE  /\ r.event = "read" /\ r.conn \in ZC!Slots /\ r.fd \in Fds /\ r = ZC!Read(r.conn, r.fd)
      <3>1. PICK s \in ZC!Slots, f \in Fds : r = ZC!Read(s, f)
        BY <2>4 DEF ZC!io_data
      <3> QED BY <2>2, <3>1
    <2> QED BY <2>1, <2>2, <2>3, <2>4

  \* What is where in two sequences put together.
  <1>Concatenates.
    ASSUME NEW S, NEW q \in Seq(S), NEW r \in Seq(S)
    PROVE  /\ q \o r \in Seq(S) /\ Len(q \o r) = Len(q) + Len(r) /\ Len(q) \in Nat /\ Len(r) \in Nat
           /\ DOMAIN q = 1 .. Len(q) /\ DOMAIN r = 1 .. Len(r) /\ DOMAIN (q \o r) = 1 .. Len(q) + Len(r)
           /\ \A k \in 1 .. Len(q) + Len(r) : (q \o r)[k] = IF k <= Len(q) THEN q[k] ELSE r[k - Len(q)]
    BY <1>Concatenates

  \* What is where when one is taken out of the middle.
  <1>ClosesUp.
    ASSUME NEW S, NEW q \in Seq(S), NEW i \in DOMAIN q
    PROVE  \A r : r = SubSeq(q, 1, i - 1) \o SubSeq(q, i + 1, Len(q)) =>
                    /\ r \in Seq(S) /\ Len(r) = Len(q) - 1
                    /\ \A k \in 1 .. Len(q) - 1 : r[k] = IF k < i THEN q[k] ELSE q[k + 1]
    <2> USE <1>ClosesUp
    <2> DEFINE r == SubSeq(q, 1, i - 1) \o SubSeq(q, i + 1, Len(q))
    <2>1. /\ Len(q) \in Nat /\ DOMAIN q = 1 .. Len(q) /\ i \in 1 .. Len(q) /\ q[i] \in S
          /\ SubSeq(q, 1, i - 1) \in Seq(S) /\ Len(SubSeq(q, 1, i - 1)) = i - 1
          /\ SubSeq(q, i + 1, Len(q)) \in Seq(S) /\ Len(SubSeq(q, i + 1, Len(q))) = Len(q) - i
          /\ \A k \in 1 .. i - 1 : SubSeq(q, 1, i - 1)[k] = q[k]
          /\ \A k \in 1 .. Len(q) - i : SubSeq(q, i + 1, Len(q))[k] = q[k + i]
      OBVIOUS
    <2>2. /\ r \in Seq(S) /\ Len(r) = Len(q) - 1
          /\ \A k \in 1 .. Len(q) - 1 : r[k] = IF k < i THEN q[k] ELSE q[k + 1]
      <3>1. PICK a \in Seq(S), b \in Seq(S) :
                   a = SubSeq(q, 1, i - 1) /\ b = SubSeq(q, i + 1, Len(q))
        BY Zenon, <2>1
      <3>2. /\ Len(a) = i - 1 /\ Len(b) = Len(q) - i /\ r = a \o b
            /\ \A k \in 1 .. i - 1 : a[k] = q[k]
            /\ \A k \in 1 .. Len(q) - i : b[k] = q[k + i]
        BY Zenon, <2>1, <3>1
      <3> HIDE DEF r
      <3>3. /\ r \in Seq(S) /\ Len(r) = Len(a) + Len(b) /\ DOMAIN r = 1 .. Len(a) + Len(b)
            /\ \A k \in 1 .. Len(a) + Len(b) : r[k] = IF k <= Len(a) THEN a[k] ELSE b[k - Len(a)]
        <4>1. /\ a \o b \in Seq(S) /\ Len(a \o b) = Len(a) + Len(b) /\ DOMAIN (a \o b) = 1 .. Len(a) + Len(b)
              /\ \A k \in 1 .. Len(a) + Len(b) : (a \o b)[k] = IF k <= Len(a) THEN a[k] ELSE b[k - Len(a)]
          BY <1>Concatenates
        <4> QED BY <3>2, <4>1, Zenon
      <3>4. Len(a) + Len(b) = Len(q) - 1
        BY <2>1, <3>2
      <3>5. ASSUME NEW k \in 1 .. Len(q) - 1
            PROVE  r[k] = IF k < i THEN q[k] ELSE q[k + 1]
        <4>1. CASE k < i
          <5>1. k \in 1 .. i - 1 /\ k <= Len(a)
            BY <2>1, <3>2, <4>1
          <5> QED BY <3>2, <3>3, <3>4, <4>1, <5>1
        <4>2. CASE ~(k < i)
          <5>1. PICK n \in Nat, m \in Nat : n = Len(q) /\ i \in 1 .. n /\ k \in 1 .. n - 1 /\ Len(a) = m /\ m = i - 1
            <6>1. Len(q) \in Nat /\ i \in 1 .. Len(q) /\ Len(a) = i - 1
              BY <2>1, <3>2, Zenon
            <6>2. i - 1 \in Nat
              BY <6>1
            <6> QED BY <6>1, <6>2, Zenon
          <5>2. k - m \in 1 .. n - i /\ ~(k <= m) /\ k - m + i = k + 1
            BY <4>2, <5>1
          <5>3. b[k - m] = q[k - m + i]
            BY Zenon, <3>2, <5>1, <5>2
          <5> QED BY Zenon, <3>3, <3>4, <4>2, <5>1, <5>2, <5>3
        <4> QED BY <4>1, <4>2
      <3> QED BY Zenon, <3>3, <3>4, <3>5
    <2> HIDE DEF r
    <2>3. r = SubSeq(q, 1, i - 1) \o SubSeq(q, i + 1, Len(q))
      BY DEF r
    <2> QED BY Zenon, <2>2, <2>3

  \* Taking one out of the middle.
  <1>RequestRemoved.
    ASSUME NEW S, NEW q \in Seq(S), NEW i \in DOMAIN q, NEW r \in Seq(S), Len(r) = Len(q) - 1,
           \A k \in 1 .. Len(q) - 1 : r[k] = IF k < i THEN q[k] ELSE q[k + 1]
    PROVE  /\ ZC!Requests(q) = ZC!Requests(r) \cup {q[i]} /\ q[i] \in S
           /\ ZC!Once(q) => ZC!Once(r) /\ q[i] \notin ZC!Requests(r)
    <2> USE <1>RequestRemoved
    <2>1. /\ Len(q) \in Nat /\ DOMAIN q = 1 .. Len(q) /\ i \in 1 .. Len(q) /\ q[i] \in S
      OBVIOUS
    <2>2. /\ DOMAIN r = 1 .. Len(q) - 1
          /\ \A k \in 1 .. Len(q) - 1 : r[k] = IF k < i THEN q[k] ELSE q[k + 1]
      OBVIOUS
    <2>3. ZC!Requests(r) \cup {q[i]} \subseteq ZC!Requests(q)
      <3>1. ASSUME NEW k \in 1 .. Len(q) - 1 PROVE r[k] \in ZC!Requests(q)
        <4>1. k \in DOMAIN q /\ k + 1 \in DOMAIN q
          BY <2>1
        <4> QED BY <2>2, <4>1 DEF ZC!Requests
      <3> QED BY Zenon, <2>1, <2>2, <3>1 DEF ZC!Requests
    <2>4. ASSUME NEW k \in 1 .. Len(q) PROVE q[k] \in ZC!Requests(r) \cup {q[i]}
      <3>1. CASE k = i
        BY <3>1
      <3>2. CASE k < i
        <4>1. k \in 1 .. Len(q) - 1 /\ r[k] = q[k]
          BY <2>1, <2>2, <3>2
        <4> QED BY <2>2, <4>1 DEF ZC!Requests
      <3>3. CASE k > i
        <4>1. k - 1 \in 1 .. Len(q) - 1 /\ r[k - 1] = q[k]
          BY <2>1, <2>2, <3>3
        <4> QED BY <2>2, <4>1 DEF ZC!Requests
      <3> QED BY <2>1, <3>1, <3>2, <3>3
    <2>5. ZC!Requests(q) = ZC!Requests(r) \cup {q[i]}
      BY Zenon, <2>1, <2>3, <2>4 DEF ZC!Requests
    <2>6. ASSUME ZC!Once(q) PROVE ZC!Once(r) /\ q[i] \notin ZC!Requests(r)
      <3> DEFINE at(k) == IF k < i THEN k ELSE k + 1
      <3>1. \A k \in 1 .. Len(q) - 1 : at(k) \in DOMAIN q /\ at(k) # i /\ r[k] = q[at(k)]
        BY <2>1, <2>2
      <3>2. \A j, k \in 1 .. Len(q) - 1 : at(j) = at(k) => j = k
        BY <2>1
      <3> HIDE DEF at
      <3>3. ZC!Once(r)
        BY SMTT(30), <2>2, <2>6, <3>1, <3>2 DEF ZC!Once
      <3>4. \A k \in 1 .. Len(q) - 1 : r[k] # q[i]
        BY <2>6, <3>1 DEF ZC!Once
      <3> QED BY <2>2, <3>3, <3>4 DEF ZC!Requests
    <2> QED BY <2>1, <2>2, <2>5, <2>6

  \* Putting one queue behind another.
  <1>RequestsJoin.
    ASSUME NEW S, NEW q \in Seq(S), NEW r \in Seq(S)
    PROVE  /\ q \o r \in Seq(S) /\ Len(q \o r) = Len(q) + Len(r) /\ ZC!Requests(q \o r) = ZC!Requests(q) \cup ZC!Requests(r)
           /\ ZC!Once(q) /\ ZC!Once(r) /\ ZC!Requests(q) \cap ZC!Requests(r) = {} => ZC!Once(q \o r)
    <2> USE <1>RequestsJoin
    <2>1. /\ q \o r \in Seq(S) /\ Len(q \o r) = Len(q) + Len(r) /\ Len(q) \in Nat /\ Len(r) \in Nat
          /\ DOMAIN q = 1 .. Len(q) /\ DOMAIN r = 1 .. Len(r) /\ DOMAIN (q \o r) = 1 .. Len(q) + Len(r)
          /\ \A k \in 1 .. Len(q) + Len(r) : (q \o r)[k] = IF k <= Len(q) THEN q[k] ELSE r[k - Len(q)]
      BY <1>Concatenates
    <2>2. ZC!Requests(q \o r) \subseteq ZC!Requests(q) \cup ZC!Requests(r)
      BY <2>1 DEF ZC!Requests
    <2>3. ZC!Requests(q) \subseteq ZC!Requests(q \o r)
      BY <2>1 DEF ZC!Requests
    <2>4. ASSUME NEW k \in 1 .. Len(r) PROVE r[k] \in ZC!Requests(q \o r)
      <3>1. k + Len(q) \in 1 .. Len(q) + Len(r) /\ (q \o r)[k + Len(q)] = r[k]
        BY <2>1
      <3> QED BY Zenon, <2>1, <3>1 DEF ZC!Requests
    <2>5. ASSUME ZC!Once(q), ZC!Once(r), ZC!Requests(q) \cap ZC!Requests(r) = {} PROVE ZC!Once(q \o r)
      <3> SUFFICES ASSUME NEW j \in 1 .. Len(q) + Len(r), NEW k \in 1 .. Len(q) + Len(r),
                          (q \o r)[j] = (q \o r)[k], j <= k
                   PROVE  j = k
        BY <2>1 DEF ZC!Once
      <3>1. CASE k <= Len(q)
        BY <2>1, <2>5, <3>1 DEF ZC!Once
      <3>2. CASE j > Len(q)
        <4>1. j - Len(q) \in DOMAIN r /\ k - Len(q) \in DOMAIN r /\ r[j - Len(q)] = r[k - Len(q)]
          BY <2>1, <3>2
        <4>2. j - Len(q) = k - Len(q)
          BY Zenon, <2>5, <4>1 DEF ZC!Once
        <4> QED BY <2>1, <4>2
      <3>3. CASE j <= Len(q) /\ k > Len(q)
        <4>1. j \in DOMAIN q /\ k - Len(q) \in DOMAIN r /\ q[j] = r[k - Len(q)]
          BY <2>1, <3>3
        <4> QED BY Zenon, <2>5, <4>1 DEF ZC!Requests
      <3> QED BY <2>1, <3>1, <3>2, <3>3
    <2> QED BY Zenon, <2>1, <2>2, <2>3, <2>4, <2>5 DEF ZC!Requests

  \* The requests that are due are no more than the slots and one: a queue that holds
  \* some of them, each once, is no longer.
  <1>RequestsFit.
    ASSUME NEW table, NEW q \in Seq(ZC!io_data), ZC!Once(q), ZC!Requests(q) \subseteq ZC!Due(table)
    PROVE  Len(q) <= MaxConnections + 1
    <2> USE <1>RequestsFit
    <2> DEFINE f == [k \in 1 .. Len(q) |-> q[k].conn]
    <2>1. Len(q) \in Nat /\ DOMAIN q = 1 .. Len(q)
      OBVIOUS
    <2>2. ASSUME NEW k \in 1 .. Len(q)
          PROVE  /\ q[k].conn \in -1 .. MaxConnections - 1
                 /\ q[k] = IF q[k].conn = -1 THEN ZC!Accept ELSE ZC!Read(q[k].conn, table[q[k].conn].fd)
      <3>1. q[k] \in ZC!Due(table)
        BY <2>1 DEF ZC!Requests
      <3>2. CASE q[k] = ZC!Accept
        BY <3>2, <1>RequestKinds DEF ServerFacts, ZC!ServerConstants
      <3>3. CASE q[k] # ZC!Accept
        <4>1. PICK s \in ZC!Slots : q[k] = ZC!Read(s, table[s].fd)
          BY <3>1, <3>3 DEF ZC!Due
        <4>2. q[k].conn = s
          BY <4>1, <1>RequestKinds
        <4> QED BY <4>1, <4>2 DEF ZC!Slots, ServerFacts, ZC!ServerConstants
      <3> QED BY <3>2, <3>3
    <2>3. f \in [1 .. Len(q) -> -1 .. MaxConnections - 1]
      BY <2>2
    <2>4. \A j, k \in 1 .. Len(q) : f[j] = f[k] => j = k
      BY <2>1, <2>2 DEF ZC!Once
    <2> HIDE DEF f
    <2>5. PICK a \in Int, b \in Int, c \in Int : a = 1 /\ b = -1 /\ c = MaxConnections - 1
      BY DEF ServerFacts, ZC!ServerConstants
    <2>6. /\ ZC!IsFiniteSet(a .. Len(q)) /\ ZC!Cardinality(a .. Len(q)) = IF a > Len(q) THEN 0 ELSE Len(q) - a + 1
          /\ ZC!IsFiniteSet(b .. c) /\ ZC!Cardinality(b .. c) = IF b > c THEN 0 ELSE c - b + 1
      <3>1. Len(q) \in Int
        BY <2>1
      <3> QED BY Zenon, <2>5, <3>1, <1>ServerSizes DEF ServerFacts, SetFacts, Intervals
    <2>7. f \in [a .. Len(q) -> b .. c] /\ \A j, k \in a .. Len(q) : f[j] = f[k] => j = k
      BY <2>3, <2>4, <2>5, Zenon
    <2>8. ~(ZC!Cardinality(b .. c) < ZC!Cardinality(a .. Len(q)))
      <3>1. PICK S, T : S = a .. Len(q) /\ T = b .. c
        OBVIOUS
      <3>2. IsFiniteSet(S) /\ IsFiniteSet(T) /\ f \in [S -> T]
        BY Zenon, <2>6, <2>7, <3>1, <1>ServerSizes
      <3>3. ASSUME Cardinality(T) < Cardinality(S) PROVE FALSE
        <4>1. \E x, y \in S : x # y /\ f[x] = f[y]
          BY Zenon, <3>2, <3>3 DEF ServerFacts, SetFacts, PigeonHole
        <4> QED BY Zenon, <2>7, <3>1, <4>1
      <3> QED BY Zenon, <3>1, <3>3, <1>ServerSizes
    <2> QED BY <2>1, <2>5, <2>6, <2>8 DEF ServerFacts, ZC!ServerConstants

  \* Short queues.
  <1>ShortQueues.
    ASSUME NEW S, NEW x \in S, NEW y \in S
    PROVE  /\ <<>> \in Seq(S) /\ ZC!Requests(<<>>) = {} /\ ZC!Once(<<>>)
           /\ <<x>> \in Seq(S) /\ ZC!Requests(<<x>>) = {x} /\ ZC!Once(<<x>>)
           /\ <<x, y>> \in Seq(S) /\ ZC!Requests(<<x, y>>) = {x, y} /\ (x # y => ZC!Once(<<x, y>>))
    BY <1>ShortQueues DEF ZC!Requests, ZC!Once

  \* What the kernel's completion of a request does to the queues.
  <1>Completes.
    ASSUME ZC!Types, NEW i \in DOMAIN inflight, NEW res \in Fds \cup {-1, 0, 1}, ZC!Complete(i, res)
    PROVE  /\ inflight' \in Seq(ZC!io_data) /\ cq' \in Seq(ZC!Completions) /\ inflight[i] \in ZC!io_data
           /\ ZC!Requests(inflight) = ZC!Requests(inflight)' \cup {inflight[i]}
           /\ ZC!Once(inflight) => ZC!Once(inflight)' /\ inflight[i] \notin ZC!Requests(inflight)'
           /\ ZC!Requests(ZC!Completed)' = ZC!Requests(ZC!Completed) \cup {inflight[i]}
           /\ ZC!Once(ZC!Completed) /\ inflight[i] \notin ZC!Requests(ZC!Completed) => ZC!Once(ZC!Completed)'
           /\ DOMAIN cq = 1 .. Len(cq) /\ DOMAIN cq' = 1 .. Len(cq) + 1 /\ Len(cq) \in Nat
           /\ \A k \in 1 .. Len(cq) : cq'[k] = cq[k]
           /\ cq'[Len(cq) + 1] = [data |-> inflight[i], res |-> res]
    <2> USE <1>Completes
    <2>1. /\ inflight \in Seq(ZC!io_data) /\ inflight' = SubSeq(inflight, 1, i - 1) \o SubSeq(inflight, i + 1, Len(inflight))
          /\ cq \in Seq(ZC!Completions) /\ cq' = Append(cq, [data |-> inflight[i], res |-> res])
      BY DEF ZC!Types, ZC!Complete
    <2>2. /\ inflight' \in Seq(ZC!io_data) /\ inflight[i] \in ZC!io_data
          /\ ZC!Requests(inflight) = ZC!Requests(inflight)' \cup {inflight[i]}
          /\ ZC!Once(inflight) => ZC!Once(inflight)' /\ inflight[i] \notin ZC!Requests(inflight)'
      <3>1. PICK r : r = inflight'
        OBVIOUS
      <3>2. r = SubSeq(inflight, 1, i - 1) \o SubSeq(inflight, i + 1, Len(inflight))
        BY Zenon, <2>1, <3>1
      <3>3. /\ r \in Seq(ZC!io_data) /\ Len(r) = Len(inflight) - 1
            /\ \A k \in 1 .. Len(inflight) - 1 : r[k] = IF k < i THEN inflight[k] ELSE inflight[k + 1]
        <4>1. inflight \in Seq(ZC!io_data)
          BY Zenon, <2>1
        <4>2. \A s : s = SubSeq(inflight, 1, i - 1) \o SubSeq(inflight, i + 1, Len(inflight)) =>
                      /\ s \in Seq(ZC!io_data) /\ Len(s) = Len(inflight) - 1
                      /\ \A k \in 1 .. Len(inflight) - 1 : s[k] = IF k < i THEN inflight[k] ELSE inflight[k + 1]
          BY Zenon, <4>1, <1>ClosesUp
        <4> QED BY Zenon, <3>2, <4>2
      <3>4. /\ ZC!Requests(inflight) = ZC!Requests(r) \cup {inflight[i]} /\ inflight[i] \in ZC!io_data
            /\ ZC!Once(inflight) => ZC!Once(r) /\ inflight[i] \notin ZC!Requests(r)
        BY Zenon, <2>1, <3>3, <1>RequestRemoved
      <3> QED BY <3>1, <3>3, <3>4
    <2>3. [data |-> inflight[i], res |-> res] \in ZC!Completions
      BY <2>2 DEF ZC!Completions
    <2>4. /\ cq' \in Seq(ZC!Completions) /\ DOMAIN cq = 1 .. Len(cq) /\ Len(cq) \in Nat
          /\ DOMAIN cq' = 1 .. Len(cq) + 1 /\ \A k \in 1 .. Len(cq) : cq'[k] = cq[k]
          /\ cq'[Len(cq) + 1] = [data |-> inflight[i], res |-> res]
      BY <2>1, <2>3
    <2>5. DOMAIN ZC!Completed = 1 .. Len(cq) /\ \A k \in 1 .. Len(cq) : ZC!Completed[k] = cq[k].data
      BY <2>4 DEF ZC!Completed
    <2>6. /\ DOMAIN ZC!Completed' = 1 .. Len(cq) + 1
          /\ \A k \in 1 .. Len(cq) : ZC!Completed'[k] = ZC!Completed[k]
          /\ ZC!Completed'[Len(cq) + 1] = inflight[i]
      BY <2>4, <2>5 DEF ZC!Completed
    <2>7. ZC!Requests(ZC!Completed)' = ZC!Requests(ZC!Completed) \cup {inflight[i]}
      BY <2>4, <2>5, <2>6 DEF ZC!Requests
    <2>8. ZC!Once(ZC!Completed) /\ inflight[i] \notin ZC!Requests(ZC!Completed) => ZC!Once(ZC!Completed)'
      BY <2>4, <2>5, <2>6 DEF ZC!Requests, ZC!Once
    <2> QED BY <2>2, <2>4, <2>7, <2>8

  \* What it does to them that the server takes up a completion.
  <1>CompletionTaken.
    ASSUME ZC!Types, cq # <<>>, cq' = Tail(cq)
    PROVE  /\ cq' \in Seq(ZC!Completions) /\ Head(cq) \in ZC!Completions /\ Head(cq) = cq[1]
           /\ ZC!Requests(ZC!Completed) = ZC!Requests(ZC!Completed)' \cup {Head(cq).data}
           /\ ZC!Once(ZC!Completed) => ZC!Once(ZC!Completed)' /\ Head(cq).data \notin ZC!Requests(ZC!Completed)'
           /\ Len(cq) \in Nat \ {0} /\ DOMAIN cq = 1 .. Len(cq) /\ DOMAIN cq' = 1 .. Len(cq) - 1
           /\ \A k \in 1 .. Len(cq) - 1 : cq'[k] = cq[k + 1]
    <2> USE <1>CompletionTaken
    <2>1. /\ cq' \in Seq(ZC!Completions) /\ Head(cq) = cq[1] /\ Len(cq) \in Nat \ {0} /\ cq[1] \in ZC!Completions
          /\ DOMAIN cq = 1 .. Len(cq) /\ DOMAIN cq' = 1 .. Len(cq) - 1
          /\ \A k \in 1 .. Len(cq) - 1 : cq'[k] = cq[k + 1]
      BY DEF ZC!Types
    <2>2. /\ DOMAIN ZC!Completed = 1 .. Len(cq) /\ \A k \in 1 .. Len(cq) : ZC!Completed[k] = cq[k].data
          /\ DOMAIN ZC!Completed' = 1 .. Len(cq) - 1 /\ \A k \in 1 .. Len(cq) - 1 : ZC!Completed'[k] = cq[k + 1].data
      BY <2>1 DEF ZC!Completed
    <2>3. ZC!Requests(ZC!Completed)' \cup {Head(cq).data} \subseteq ZC!Requests(ZC!Completed)
      <3>1. \A k \in 1 .. Len(cq) - 1 : k + 1 \in 1 .. Len(cq) /\ ZC!Completed'[k] = ZC!Completed[k + 1]
        BY <2>1, <2>2
      <3>2. 1 \in 1 .. Len(cq) /\ Head(cq).data = ZC!Completed[1]
        BY <2>1, <2>2
      <3> QED BY SMTT(30), <2>2, <3>1, <3>2 DEF ZC!Requests
    <2>4. ASSUME NEW k \in 1 .. Len(cq) PROVE ZC!Completed[k] \in ZC!Requests(ZC!Completed)' \cup {Head(cq).data}
      <3>1. CASE k = 1
        BY <2>1, <2>2, <3>1
      <3>2. CASE k # 1
        <4>1. k - 1 \in 1 .. Len(cq) - 1 /\ ZC!Completed'[k - 1] = ZC!Completed[k]
          BY <2>1, <2>2, <3>2
        <4> QED BY <2>2, <4>1 DEF ZC!Requests
      <3> QED BY <3>1, <3>2
    <2>5. ZC!Requests(ZC!Completed) = ZC!Requests(ZC!Completed)' \cup {Head(cq).data}
      BY Zenon, <2>2, <2>3, <2>4 DEF ZC!Requests
    <2>6. ASSUME ZC!Once(ZC!Completed) PROVE ZC!Once(ZC!Completed)' /\ Head(cq).data \notin ZC!Requests(ZC!Completed)'
      <3>1. \A k \in 1 .. Len(cq) - 1 : k + 1 \in 1 .. Len(cq) /\ ZC!Completed'[k] = ZC!Completed[k + 1]
        BY <2>1, <2>2
      <3>2. \A j, k \in 1 .. Len(cq) - 1 : (j + 1 = k + 1 => j = k) /\ k + 1 # 1
        BY <2>1
      <3>3. \A j, k \in 1 .. Len(cq) : ZC!Completed[j] = ZC!Completed[k] => j = k
        BY <2>2, <2>6 DEF ZC!Once
      <3>4. \A j, k \in 1 .. Len(cq) - 1 : ZC!Completed'[j] = ZC!Completed'[k] => j = k
        BY <3>1, <3>2, <3>3
      <3>5. 1 \in 1 .. Len(cq) /\ Head(cq).data = ZC!Completed[1]
        BY <2>1, <2>2
      <3>6. \A k \in 1 .. Len(cq) - 1 : ZC!Completed'[k] # Head(cq).data
        BY <3>1, <3>2, <3>3, <3>5
      <3> QED BY Zenon, <2>2, <3>4, <3>6 DEF ZC!Once, ZC!Requests
    <2> QED BY <2>1, <2>5, <2>6

  \* A handler takes up a completion and queues what follows from it: when the requests
  \* it queues are those that are due now and were not before, each request is in one
  \* place again, and all that are due are there.
  <1>RequestsQueued.
    ASSUME ZC!Types, ZC!OnePlace, ZC!AllDue, ZC!NeverFull, cq # <<>>, cq' = Tail(cq),
           inflight' = inflight, NEW reqs \in Seq(ZC!io_data), ZC!Once(reqs), ZC!Queue(reqs),
           ZC!Requests(reqs) \cap (ZC!Due(conn_table) \ {Head(cq).data}) = {},
           (ZC!Due(conn_table) \ {Head(cq).data}) \cup ZC!Requests(reqs) = ZC!Due(conn_table')
    PROVE  /\ sq' \in Seq(ZC!io_data) /\ cq' \in Seq(ZC!Completions) /\ inflight' \in Seq(ZC!io_data)
           /\ zc_phase' \in {"loop", "full"} /\ (ZC!Running' => ZC!OnePlace' /\ ZC!AllDue') /\ ZC!NeverFull'
    <2> USE <1>RequestsQueued
    <2> DEFINE c == Head(cq).data
               Q == ZC!Requests(sq)
               I == ZC!Requests(inflight)
               C == ZC!Requests(ZC!Completed)'
               R == ZC!Requests(reqs)
    <2>1. /\ cq' \in Seq(ZC!Completions) /\ ZC!Requests(ZC!Completed) = C \cup {c} /\ ZC!Once(ZC!Completed)' /\ c \notin C
          /\ sq \in Seq(ZC!io_data) /\ inflight \in Seq(ZC!io_data)
      BY <1>CompletionTaken DEF ZC!Types, ZC!OnePlace
    <2>2. /\ Q \cap I = {} /\ Q \cap C = {} /\ I \cap C = {} /\ c \notin Q /\ c \notin I /\ c \notin C
          /\ Q \cup I \cup C = ZC!Due(conn_table) \ {c}
      BY <2>1 DEF ZC!OnePlace, ZC!AllDue
    <2>3. /\ R \cap Q = {} /\ R \cap I = {} /\ R \cap C = {} /\ Q \cup R \cup I \cup C = ZC!Due(conn_table')
      BY <2>2
    <2>4. /\ sq \o reqs \in Seq(ZC!io_data) /\ Len(sq \o reqs) = Len(sq) + Len(reqs)
          /\ ZC!Requests(sq \o reqs) = Q \cup R /\ ZC!Once(sq \o reqs)
      BY <2>1, <2>3, <1>RequestsJoin DEF ZC!OnePlace
    <2>5. Len(sq) + Len(reqs) <= MaxConnections + 1
      <3>1. ZC!Requests(sq \o reqs) \subseteq ZC!Due(conn_table')
        BY <2>3, <2>4
      <3> QED BY Zenon, <2>4, <3>1, <1>RequestsFit
    <2>6. CASE Len(sq) + Len(reqs) > QueueDepth
      <3>1. sq' = sq /\ zc_phase' = "full"
        BY <2>6 DEF ZC!Queue
      <3>2. ~(QueueDepth > MaxConnections)
        BY <2>1, <2>5, <2>6 DEF ServerFacts, ZC!ServerConstants
      <3> QED BY <2>1, <3>1, <3>2 DEF ZC!Running, ZC!NeverFull
    <2>7. CASE ~(Len(sq) + Len(reqs) > QueueDepth)
      <3>1. sq' = sq \o reqs /\ zc_phase' = "loop"
        BY <2>7 DEF ZC!Queue
      <3>2. ZC!OnePlace'
        <4>1. ZC!Once(sq)' /\ ZC!Requests(sq)' = Q \cup R /\ ZC!Once(inflight)' /\ ZC!Requests(inflight)' = I
          BY <2>4, <3>1 DEF ZC!OnePlace
        <4> QED BY <2>1, <2>2, <2>3, <4>1 DEF ZC!OnePlace
      <3>3. ZC!AllDue'
        <4>1. ZC!Requests(sq)' = Q \cup R /\ ZC!Requests(inflight)' = I
          BY <2>4, <3>1
        <4> QED BY <2>3, <4>1 DEF ZC!AllDue
      <3> QED BY <2>1, <2>4, <3>1, <3>2, <3>3 DEF ZC!NeverFull
    <2> QED BY <2>6, <2>7

  \* The smallest element of a set is in it.
  <1>LowestIsIn.
    ASSUME NEW S, S \subseteq Nat, S # {}
    PROVE  ZC!Lowest(S) \in S
    <2> USE <1>LowestIsIn
    <2>1. \E s \in S : \A r \in S : s <= r
      BY Zenon DEF ServerFacts, SetFacts, Smallest
    <2> QED BY Zenon, <2>1 DEF ZC!Lowest

  \* A read that is due is that of its connection.
  <1>DueReads.
    ASSUME ZC!Types, NEW r \in ZC!Due(conn_table), r # ZC!Accept
    PROVE  r.conn \in ZC!InUse /\ r = ZC!Read(r.conn, conn_table[r.conn].fd)
    <2> USE <1>DueReads
    <2>1. PICK s \in ZC!InUse : r = ZC!Read(s, conn_table[s].fd)
      BY DEF ZC!Due, ZC!InUse
    <2> QED BY <2>1, <1>RequestKinds

  \* Before the loop the accept is queued and no connection is there.
  <1>ServerStart. ZC!Init => ZC!ServerInv
    <2> SUFFICES ASSUME ZC!Init PROVE ZC!ServerInv
      OBVIOUS
    <2>1. /\ sq = <<ZC!Accept>> /\ inflight = <<>> /\ cq = <<>> /\ open = {} /\ gone = {} /\ zc_phase = "loop"
          /\ conn_table = [s \in ZC!Slots |-> [fd |-> 0, in_use |-> FALSE, buf |-> FALSE]]
      BY DEF ZC!Init, ZC!init_conn_table
    <2>2. ZC!InUse = {} /\ ZC!Due(conn_table) = {ZC!Accept}
      BY <2>1 DEF ZC!InUse, ZC!Due
    <2>3. /\ sq \in Seq(ZC!io_data) /\ ZC!Requests(sq) = {ZC!Accept} /\ ZC!Once(sq)
          /\ inflight \in Seq(ZC!io_data) /\ ZC!Requests(inflight) = {} /\ ZC!Once(inflight)
      BY Zenon, <2>1, <1>RequestKinds, <1>ShortQueues
    <2>4. DOMAIN cq = {} /\ ZC!Requests(ZC!Completed) = {} /\ ZC!Once(ZC!Completed) /\ cq \in Seq(ZC!Completions)
      BY <2>1 DEF ZC!Completed, ZC!Requests, ZC!Once
    <2>5. ZC!Types
      BY <2>1, <2>3, <2>4 DEF ZC!Types, ZC!conn_info
    <2> QED BY Zenon, <2>1, <2>2, <2>3, <2>4, <2>5 DEF ZC!ServerInv, ZC!OnePlace, ZC!AllDue,
               ZC!Owned, ZC!NeverFull

  \* The kernel completes a request: it moves on, and an accept brings a descriptor that
  \* nobody has.
  <1>KernelKeeps.
    ASSUME ZC!ServerInv, NEW i \in DOMAIN inflight, ZC!KernelAccept(i) \/ ZC!KernelRead(i)
    PROVE  ZC!ServerInv'
    <2> USE <1>KernelKeeps
    <2> DEFINE q == inflight[i]
    <2>1. ZC!Types /\ ZC!NeverFull /\ (ZC!Running => ZC!OnePlace /\ ZC!AllDue /\ ZC!Owned)
      BY DEF ZC!ServerInv
    <2>2. conn_table' = conn_table /\ sq' = sq /\ zc_phase' = zc_phase /\ gone' = gone
      BY DEF ZC!KernelAccept, ZC!KernelRead
    <2>3. PICK res \in Fds \cup {-1, 0, 1} :
            /\ ZC!Complete(i, res)
            /\ \/ res = -1 /\ open' = open
               \/ q # ZC!Accept /\ open' = open
               \/ q = ZC!Accept /\ res \in Fds \ open /\ open' = open \cup {res}
      <3>1. q \in ZC!io_data
        BY <2>1 DEF ZC!Types
      <3>2. CASE ZC!KernelAccept(i)
        <4>1. q = ZC!Accept
          BY <3>1, <3>2, <1>RequestKinds DEF ZC!KernelAccept
        <4>2. CASE ZC!Complete(i, -1) /\ open' = open
          BY <4>2
        <4>3. CASE ~(ZC!Complete(i, -1) /\ open' = open)
          <5>1. /\ Fds \ open # {} /\ ZC!Complete(i, ZC!Lowest(Fds \ open))
                /\ open' = open \cup {ZC!Lowest(Fds \ open)}
            BY <3>2, <4>3 DEF ZC!KernelAccept
          <5>2. ZC!Lowest(Fds \ open) \in Fds \ open
            BY Zenon, <5>1, <1>LowestIsIn DEF ServerFacts, ZC!ServerConstants
          <5> QED BY <4>1, <5>1, <5>2
        <4> QED BY <4>2, <4>3
      <3>3. CASE ZC!KernelRead(i)
        <4>1. q # ZC!Accept
          BY <3>1, <3>3, <1>RequestKinds DEF ZC!KernelRead
        <4>2. open' = open /\ \E res \in {-1, 0, 1} : ZC!Complete(i, res)
          BY Zenon, <3>3 DEF ZC!KernelRead
        <4> QED BY <4>1, <4>2
      <3> QED BY <3>2, <3>3
    <2>4. /\ inflight' \in Seq(ZC!io_data) /\ cq' \in Seq(ZC!Completions) /\ q \in ZC!io_data
          /\ ZC!Requests(inflight) = ZC!Requests(inflight)' \cup {q}
          /\ ZC!Once(inflight) => ZC!Once(inflight)' /\ q \notin ZC!Requests(inflight)'
          /\ ZC!Requests(ZC!Completed)' = ZC!Requests(ZC!Completed) \cup {q}
          /\ ZC!Once(ZC!Completed) /\ q \notin ZC!Requests(ZC!Completed) => ZC!Once(ZC!Completed)'
          /\ DOMAIN cq = 1 .. Len(cq) /\ DOMAIN cq' = 1 .. Len(cq) + 1 /\ Len(cq) \in Nat
          /\ \A k \in 1 .. Len(cq) : cq'[k] = cq[k]
          /\ cq'[Len(cq) + 1] = [data |-> q, res |-> res]
      BY Zenon, <2>1, <2>3, <1>Completes
    <2> HIDE DEF q
    <2>5. ZC!Types'
      BY Zenon, <2>1, <2>2, <2>3, <2>4 DEF ZC!Types
    <2>6. ASSUME ZC!Running' PROVE ZC!OnePlace' /\ ZC!AllDue' /\ ZC!Owned'
      <3>1. ZC!OnePlace /\ ZC!AllDue /\ ZC!Owned /\ ZC!InUse' = ZC!InUse
        BY Zenon, <2>1, <2>2, <2>6 DEF ZC!Running, ZC!InUse
      <3>2. ZC!OnePlace'
        <4>1. q \notin ZC!Requests(ZC!Completed) /\ q \notin ZC!Requests(sq)
          BY Zenon, <2>4, <3>1 DEF ZC!OnePlace
        <4> QED BY Zenon, <2>2, <2>4, <3>1, <4>1 DEF ZC!OnePlace
      <3>3. ZC!AllDue'
        BY <2>2, <2>4, <3>1 DEF ZC!AllDue
      <3>4. open \subseteq open'
        BY Zenon, <2>3
      <3>5. /\ \A s \in ZC!InUse' : conn_table'[s].buf /\ conn_table'[s].fd \in open'
            /\ \A s, t \in ZC!InUse' : conn_table'[s].fd = conn_table'[t].fd => s = t
        BY <2>2, <3>1, <3>4 DEF ZC!Owned
      <3>6. ASSUME NEW k \in DOMAIN cq', cq'[k].data = ZC!Accept
            PROVE  \/ cq'[k].res = -1
                   \/ cq'[k].res \in open' /\ \A s \in ZC!InUse' : conn_table'[s].fd # cq'[k].res
        <4>1. CASE k \in 1 .. Len(cq)
          BY SMTT(30), <2>2, <2>4, <3>1, <3>4, <3>6, <4>1 DEF ZC!Owned
        <4>2. CASE k = Len(cq) + 1
          <5>1. cq'[k].res = res /\ q = ZC!Accept
            BY <2>4, <3>6, <4>2
          <5> QED BY <2>2, <2>3, <3>1, <5>1 DEF ZC!Owned
        <4> QED BY <2>4, <4>1, <4>2
      <3>7. ASSUME NEW fd \in open'
            PROVE  \/ \E s \in ZC!InUse' : conn_table'[s].fd = fd
                   \/ \E k \in DOMAIN cq' : cq'[k].data = ZC!Accept /\ cq'[k].res = fd
        <4>1. CASE fd \in open
          <5>1. CASE \E s \in ZC!InUse : conn_table[s].fd = fd
            BY <2>2, <3>1, <5>1
          <5>2. CASE \E k \in DOMAIN cq : cq[k].data = ZC!Accept /\ cq[k].res = fd
            <6>1. PICK k \in 1 .. Len(cq) : cq[k].data = ZC!Accept /\ cq[k].res = fd
              BY Zenon, <2>4, <5>2
            <6>2. k \in DOMAIN cq' /\ cq'[k] = cq[k]
              BY <2>4, <6>1
            <6> QED BY <6>1, <6>2
          <5> QED BY <3>1, <4>1, <5>1, <5>2 DEF ZC!Owned
        <4>2. CASE fd \notin open
          <5>1. q = ZC!Accept /\ fd = res
            BY <2>3, <4>2
          <5>2. Len(cq) + 1 \in DOMAIN cq' /\ cq'[Len(cq) + 1].data = q /\ cq'[Len(cq) + 1].res = res
            BY <2>4
          <5> QED BY <5>1, <5>2
        <4> QED BY <4>1, <4>2
      <3> QED BY <3>2, <3>3, <3>5, <3>6, <3>7 DEF ZC!Owned
    <2> QED BY <2>1, <2>2, <2>5, <2>6 DEF ZC!ServerInv, ZC!NeverFull

  \* The descriptors and what completed accepts bring, when the queue of completions has
  \* lost its first.
  <1>OwnedAfter.
    ASSUME ZC!Types, ZC!OnePlace, cq # <<>>, cq' = Tail(cq),
           \A s \in ZC!InUse' : conn_table'[s].buf /\ conn_table'[s].fd \in open',
           \A s, t \in ZC!InUse' : conn_table'[s].fd = conn_table'[t].fd => s = t,
           Head(cq).data = ZC!Accept \/
             /\ \A k \in DOMAIN cq : cq[k].data = ZC!Accept =>
                  cq[k].res = -1 \/ (cq[k].res \in open' /\ \A s \in ZC!InUse' : conn_table'[s].fd # cq[k].res)
             /\ \A fd \in open' : (\E s \in ZC!InUse' : conn_table'[s].fd = fd)
                  \/ \E k \in DOMAIN cq : cq[k].data = ZC!Accept /\ cq[k].res = fd,
           Head(cq).data = ZC!Accept => \A fd \in open' : \E s \in ZC!InUse' : conn_table'[s].fd = fd
    PROVE  ZC!Owned'
    <2> USE <1>OwnedAfter
    <2>1. /\ Len(cq) \in Nat \ {0} /\ DOMAIN cq = 1 .. Len(cq) /\ DOMAIN cq' = 1 .. Len(cq) - 1
          /\ \A k \in 1 .. Len(cq) - 1 : cq'[k] = cq[k + 1] /\ k + 1 \in 1 .. Len(cq)
          /\ Head(cq) = cq[1]
      BY <1>CompletionTaken
    <2>2. CASE Head(cq).data = ZC!Accept
      <3>1. ASSUME NEW k \in DOMAIN cq' PROVE cq'[k].data # ZC!Accept
        <4>1. /\ DOMAIN ZC!Completed = DOMAIN cq /\ ZC!Completed[1] = ZC!Accept /\ ZC!Completed[k + 1] = cq'[k].data
              /\ 1 \in DOMAIN cq /\ k + 1 \in DOMAIN cq /\ k + 1 # 1
          BY <2>1, <2>2 DEF ZC!Completed
        <4> QED BY <4>1 DEF ZC!OnePlace, ZC!Once
      <3> QED BY Zenon, <2>2, <3>1 DEF ZC!Owned
    <2>3. CASE Head(cq).data # ZC!Accept
      <3>1. \A k \in DOMAIN cq' : k + 1 \in DOMAIN cq /\ cq'[k] = cq[k + 1]
        BY <2>1
      <3>2. ASSUME NEW fd \in open', NEW k \in DOMAIN cq, cq[k].data = ZC!Accept, cq[k].res = fd
            PROVE  \E j \in DOMAIN cq' : cq'[j].data = ZC!Accept /\ cq'[j].res = fd
        <4>1. k # 1
          BY <2>1, <2>3, <3>2
        <4>2. k - 1 \in DOMAIN cq' /\ cq'[k - 1] = cq[k]
          BY <2>1, <4>1
        <4> QED BY <3>2, <4>2
      <3>3. \A k \in DOMAIN cq' : cq'[k].data = ZC!Accept =>
              cq'[k].res = -1 \/ (cq'[k].res \in open' /\ \A s \in ZC!InUse' : conn_table'[s].fd # cq'[k].res)
        BY <2>3, <3>1
      <3>4. \A fd \in open' : (\E s \in ZC!InUse' : conn_table'[s].fd = fd)
              \/ \E j \in DOMAIN cq' : cq'[j].data = ZC!Accept /\ cq'[j].res = fd
        BY <2>3, <3>2
      <3> QED BY <3>3, <3>4 DEF ZC!Owned
    <2> QED BY <2>2, <2>3

  \* An accept is complete: its descriptor gets a slot and a read, or is closed, and
  \* another accept is queued.
  <1>HandleAcceptKeeps.
    ASSUME ZC!ServerInv, ZC!Running, cq # <<>>, cq' = Tail(cq), inflight' = inflight,
           Head(cq).data = ZC!Accept, ZC!handle_accept(Head(cq).res)
    PROVE  ZC!ServerInv'
    <2> USE <1>HandleAcceptKeeps
    <2> DEFINE res == Head(cq).res
    <2>1. ZC!Types /\ ZC!NeverFull /\ ZC!OnePlace /\ ZC!AllDue /\ ZC!Owned
      BY DEF ZC!ServerInv
    <2>2. /\ Head(cq) \in ZC!Completions /\ Head(cq) = cq[1] /\ 1 \in DOMAIN cq
          /\ res = -1 \/ (res \in open /\ \A s \in ZC!InUse : conn_table[s].fd # res)
          /\ res \in Fds \cup {-1, 0, 1} /\ open \subseteq Fds /\ Fds \subseteq Nat \ {0}
      BY <2>1, <1>CompletionTaken DEF ZC!Owned, ZC!Types, ZC!Completions, ServerFacts,
         ZC!ServerConstants
    <2>3. \A k \in DOMAIN cq : cq[k].data = ZC!Accept => k = 1
      <3>1. DOMAIN ZC!Completed = DOMAIN cq /\ \A k \in DOMAIN cq : ZC!Completed[k] = cq[k].data
        BY DEF ZC!Completed
      <3> QED BY <2>1, <2>2, <3>1 DEF ZC!OnePlace, ZC!Once
    <2>4. \A fd \in open : fd = res \/ \E s \in ZC!InUse : conn_table[s].fd = fd
      BY <2>1, <2>2, <2>3 DEF ZC!Owned
    <2>5. ZC!Due(conn_table) \ {ZC!Accept} = {ZC!Read(s, conn_table[s].fd) : s \in ZC!InUse}
      BY <1>RequestKinds DEF ZC!Due, ZC!InUse
    <2> HIDE DEF res
    <2>6. CASE res < 0 \/ ZC!FreeSlots = {}
      <3>1. ZC!Queue(<<ZC!Accept>>) /\ conn_table' = conn_table
        BY <2>6 DEF ZC!handle_accept, res
      <3>2. \/ res = -1 /\ open' = open /\ gone' = gone
            \/ res \in open /\ open' = open \ {res} /\ gone' = gone \ {res}
        <4>1. CASE res < 0
          <5>1. open' = open /\ gone' = gone
            BY <4>1 DEF ZC!handle_accept, res
          <5>2. \A n \in Nat : ~(n < 0)
            OBVIOUS
          <5>3. res = -1
            BY Zenon, <2>2, <4>1, <5>2
          <5> QED BY <5>1, <5>3
        <4>2. CASE ~(res < 0) /\ ZC!FreeSlots = {}
          <5>1. ZC!close(res)
            BY <4>2 DEF ZC!handle_accept, res
          <5>2. res \in open
            BY <2>2, <4>2
          <5> QED BY <5>1, <5>2 DEF ZC!close
        <4> QED BY <2>6, <4>1, <4>2
      <3>3. <<ZC!Accept>> \in Seq(ZC!io_data) /\ ZC!Requests(<<ZC!Accept>>) = {ZC!Accept} /\ ZC!Once(<<ZC!Accept>>)
        <4>1. ZC!Accept \in ZC!io_data
          BY <1>RequestKinds
        <4> QED BY Zenon, <4>1, <1>ShortQueues
      <3>4. /\ ZC!Requests(<<ZC!Accept>>) \cap (ZC!Due(conn_table) \ {Head(cq).data}) = {}
            /\ (ZC!Due(conn_table) \ {Head(cq).data}) \cup ZC!Requests(<<ZC!Accept>>) = ZC!Due(conn_table')
        BY <3>1, <3>3 DEF ZC!Due
      <3>5. /\ sq' \in Seq(ZC!io_data) /\ cq' \in Seq(ZC!Completions) /\ inflight' \in Seq(ZC!io_data)
            /\ zc_phase' \in {"loop", "full"} /\ (ZC!Running' => ZC!OnePlace' /\ ZC!AllDue') /\ ZC!NeverFull'
        BY Zenon, <2>1, <3>1, <3>3, <3>4, <1>RequestsQueued
      <3>6. ZC!Types'
        BY <2>1, <3>1, <3>2, <3>5 DEF ZC!Types
      <3>7. ZC!InUse' = ZC!InUse
        BY <3>1 DEF ZC!InUse
      <3>8. /\ \A s \in ZC!InUse' : conn_table'[s].buf /\ conn_table'[s].fd \in open'
            /\ \A s, t \in ZC!InUse' : conn_table'[s].fd = conn_table'[t].fd => s = t
            /\ \A fd \in open' : \E s \in ZC!InUse' : conn_table'[s].fd = fd
        <4>1. \A s \in ZC!InUse : conn_table[s].fd \in open /\ conn_table[s].fd # res
          BY <2>1, <2>2 DEF ZC!Owned, ServerFacts, ZC!ServerConstants
        <4>2. \A s \in ZC!InUse : conn_table[s].fd \in open'
          BY <3>2, <4>1
        <4>3. \A fd \in open' : fd \in open /\ fd # res
          BY <2>2, <3>2
        <4> QED BY <2>1, <2>4, <3>1, <3>7, <4>2, <4>3 DEF ZC!Owned
      <3>9. ZC!Owned'
        BY SMTT(30), <2>1, <3>8, <1>OwnedAfter
      <3> QED BY <3>5, <3>6, <3>9 DEF ZC!ServerInv
    <2>7. CASE ~(res < 0 \/ ZC!FreeSlots = {})
      <3> DEFINE n == ZC!Lowest(ZC!FreeSlots)
      <3>1. n \in ZC!Slots /\ n \notin ZC!InUse
        <4>1. ZC!FreeSlots \subseteq Nat
          BY DEF ZC!FreeSlots, ZC!Slots, ServerFacts, ZC!ServerConstants
        <4>2. n \in ZC!FreeSlots
          BY Zenon, <2>7, <4>1, <1>LowestIsIn
        <4> QED BY <4>2 DEF ZC!FreeSlots, ZC!InUse
      <3>2. /\ conn_table' = [conn_table EXCEPT ![n] = [fd |-> res, in_use |-> TRUE, buf |-> TRUE]]
            /\ ZC!Queue(<<ZC!Read(n, res), ZC!Accept>>) /\ open' = open /\ gone' = gone
        BY <2>7 DEF ZC!handle_accept, res
      <3> HIDE DEF n
      <3>3. res \in open /\ res \in Fds /\ \A s \in ZC!InUse : conn_table[s].fd # res
        BY <2>2, <2>7
      <3>4. /\ conn_table' \in [ZC!Slots -> ZC!conn_info] /\ ZC!InUse' = ZC!InUse \cup {n}
            /\ conn_table'[n].fd = res /\ conn_table'[n].buf
            /\ \A s \in ZC!InUse : conn_table'[s] = conn_table[s]
        BY Zenon, <2>1, <3>1, <3>2, <3>3 DEF ZC!Types, ZC!InUse, ZC!conn_info
      <3>5. ZC!Read(n, res) \in ZC!io_data /\ ZC!Read(n, res) # ZC!Accept
        BY <3>1, <3>3, <1>RequestKinds
      <3>6. /\ <<ZC!Read(n, res), ZC!Accept>> \in Seq(ZC!io_data) /\ ZC!Once(<<ZC!Read(n, res), ZC!Accept>>)
            /\ ZC!Requests(<<ZC!Read(n, res), ZC!Accept>>) = {ZC!Read(n, res), ZC!Accept}
        <4>1. ZC!Accept \in ZC!io_data
          BY <1>RequestKinds
        <4> QED BY Zenon, <3>5, <4>1, <1>ShortQueues
      <3>7. ZC!Read(n, res) \notin ZC!Due(conn_table)
        BY <2>1, <3>1, <3>5, <1>DueReads, <1>RequestKinds
      <3>8. ZC!Due(conn_table') = (ZC!Due(conn_table) \ {ZC!Accept}) \cup {ZC!Read(n, res), ZC!Accept}
        <4>1. ZC!Due(conn_table)' = {ZC!Accept} \cup {ZC!Read(s, conn_table'[s].fd) : s \in ZC!InUse'}
          BY DEF ZC!Due, ZC!InUse
        <4>2. {ZC!Read(s, conn_table'[s].fd) : s \in ZC!InUse'} =
                {ZC!Read(s, conn_table[s].fd) : s \in ZC!InUse} \cup {ZC!Read(n, res)}
          BY <3>4
        <4> QED BY Zenon, <2>5, <4>1, <4>2
      <3>9. /\ sq' \in Seq(ZC!io_data) /\ cq' \in Seq(ZC!Completions) /\ inflight' \in Seq(ZC!io_data)
            /\ zc_phase' \in {"loop", "full"} /\ (ZC!Running' => ZC!OnePlace' /\ ZC!AllDue') /\ ZC!NeverFull'
        BY Zenon, <2>1, <3>2, <3>6, <3>7, <3>8, <1>RequestsQueued
      <3>10. ZC!Types'
        BY Zenon, <2>1, <3>2, <3>4, <3>9 DEF ZC!Types
      <3>11. /\ \A s \in ZC!InUse' : conn_table'[s].buf /\ conn_table'[s].fd \in open'
             /\ \A s, t \in ZC!InUse' : conn_table'[s].fd = conn_table'[t].fd => s = t
             /\ \A fd \in open' : \E s \in ZC!InUse' : conn_table'[s].fd = fd
        BY <2>1, <2>4, <3>2, <3>3, <3>4 DEF ZC!Owned
      <3>12. ZC!Owned'
        BY <2>1, <3>11, <1>OwnedAfter
      <3> QED BY <3>9, <3>10, <3>12 DEF ZC!ServerInv
    <2> QED BY <2>6, <2>7

  \* A read is complete: the next one is queued, or the slot and the descriptor are given up.
  <1>HandleReadKeeps.
    ASSUME ZC!ServerInv, ZC!Running, cq # <<>>, cq' = Tail(cq), inflight' = inflight,
           Head(cq).data # ZC!Accept, ZC!handle_read(Head(cq).data, Head(cq).res)
    PROVE  ZC!ServerInv'
    <2> USE <1>HandleReadKeeps
    <2> DEFINE d == Head(cq).data
               c == d.conn
    <2>1. ZC!Types /\ ZC!NeverFull /\ ZC!OnePlace /\ ZC!AllDue /\ ZC!Owned
      BY DEF ZC!ServerInv
    <2>2. d \in ZC!Due(conn_table) /\ Head(cq) \in ZC!Completions
      BY Zenon, <2>1, <1>CompletionTaken DEF ZC!AllDue
    <2>3. c \in ZC!InUse /\ d = ZC!Read(c, conn_table[c].fd) /\ c \in ZC!Slots
      BY <2>1, <2>2, <1>DueReads DEF ZC!InUse
    <2> HIDE DEF c
    <2>4. CASE ~(Head(cq).res <= 0)
      <3>1. ZC!Queue(<<d>>) /\ conn_table' = conn_table /\ open' = open /\ gone' = gone
        BY <2>3, <2>4 DEF ZC!handle_read, c
      <3>2. <<d>> \in Seq(ZC!io_data) /\ ZC!Requests(<<d>>) = {d} /\ ZC!Once(<<d>>)
        BY Zenon, <2>2, <1>ShortQueues DEF ZC!Completions
      <3>3. /\ sq' \in Seq(ZC!io_data) /\ cq' \in Seq(ZC!Completions) /\ inflight' \in Seq(ZC!io_data)
            /\ zc_phase' \in {"loop", "full"} /\ (ZC!Running' => ZC!OnePlace' /\ ZC!AllDue') /\ ZC!NeverFull'
        <4>1. /\ ZC!Requests(<<d>>) \cap (ZC!Due(conn_table) \ {d}) = {}
              /\ (ZC!Due(conn_table) \ {d}) \cup ZC!Requests(<<d>>) = ZC!Due(conn_table')
          BY <2>2, <3>1, <3>2
        <4> QED BY Zenon, <2>1, <3>1, <3>2, <4>1, <1>RequestsQueued
      <3>4. ZC!Types'
        BY <2>1, <3>1, <3>3 DEF ZC!Types
      <3>5. ZC!InUse' = ZC!InUse
        BY Zenon, <3>1 DEF ZC!InUse
      <3>6. ZC!Owned'
        <4>1. /\ \A s \in ZC!InUse' : conn_table'[s].buf /\ conn_table'[s].fd \in open'
              /\ \A s, t \in ZC!InUse' : conn_table'[s].fd = conn_table'[t].fd => s = t
          BY <2>1, <3>1, <3>5 DEF ZC!Owned
        <4>2. \A k \in DOMAIN cq : cq[k].data = ZC!Accept =>
                cq[k].res = -1 \/ (cq[k].res \in open' /\ \A s \in ZC!InUse' : conn_table'[s].fd # cq[k].res)
          BY Zenon, <2>1, <3>1, <3>5 DEF ZC!Owned
        <4>3. \A fd \in open' : (\E s \in ZC!InUse' : conn_table'[s].fd = fd)
                \/ \E k \in DOMAIN cq : cq[k].data = ZC!Accept /\ cq[k].res = fd
          BY Zenon, <2>1, <3>1, <3>5 DEF ZC!Owned
        <4> QED BY Zenon, <2>1, <4>1, <4>2, <4>3, <1>OwnedAfter
      <3> QED BY Zenon, <3>3, <3>4, <3>6 DEF ZC!ServerInv
    <2>5. CASE Head(cq).res <= 0
      <3> DEFINE f == conn_table[c].fd
      <3>1. /\ ZC!Queue(<<>>) /\ open' = open \ {f} /\ gone' = gone \ {f}
            /\ conn_table' = [conn_table EXCEPT ![c] = [fd |-> -1, in_use |-> FALSE, buf |-> FALSE]]
        BY <2>5 DEF ZC!handle_read, ZC!cleanup_conn, ZC!close, c
      <3>2. /\ conn_table' \in [ZC!Slots -> ZC!conn_info] /\ ZC!InUse' = ZC!InUse \ {c}
            /\ \A s \in ZC!InUse : s # c => conn_table'[s] = conn_table[s]
        BY <2>1, <2>3, <3>1 DEF ZC!Types, ZC!InUse, ZC!conn_info
      <3>3. <<>> \in Seq(ZC!io_data) /\ ZC!Requests(<<>>) = {} /\ ZC!Once(<<>>)
        BY Zenon, <1>RequestKinds, <1>ShortQueues
      <3>4. ZC!Due(conn_table') = ZC!Due(conn_table) \ {d}
        <4>1. ZC!Due(conn_table)' = {ZC!Accept} \cup {ZC!Read(s, conn_table'[s].fd) : s \in ZC!InUse'}
          BY Zenon DEF ZC!Due, ZC!InUse
        <4>2. {ZC!Read(s, conn_table'[s].fd) : s \in ZC!InUse'} = {ZC!Read(s, conn_table[s].fd) : s \in ZC!InUse} \ {d}
          <5>1. \A s \in ZC!InUse : s # c => ZC!Read(s, conn_table[s].fd) # d
            BY <2>3, <1>RequestKinds
          <5> QED BY <2>3, <3>2, <5>1
        <4>3. ZC!Due(conn_table) = {ZC!Accept} \cup {ZC!Read(s, conn_table[s].fd) : s \in ZC!InUse}
          BY DEF ZC!Due, ZC!InUse
        <4> QED BY Zenon, <4>1, <4>2, <4>3
      <3>5. /\ sq' \in Seq(ZC!io_data) /\ cq' \in Seq(ZC!Completions) /\ inflight' \in Seq(ZC!io_data)
            /\ zc_phase' \in {"loop", "full"} /\ (ZC!Running' => ZC!OnePlace' /\ ZC!AllDue') /\ ZC!NeverFull'
        <4>1. /\ ZC!Requests(<<>>) \cap (ZC!Due(conn_table) \ {d}) = {}
              /\ (ZC!Due(conn_table) \ {d}) \cup ZC!Requests(<<>>) = ZC!Due(conn_table')
          BY <3>3, <3>4
        <4> QED BY Zenon, <2>1, <3>1, <3>3, <4>1, <1>RequestsQueued
      <3>6. ZC!Types'
        BY Zenon, <2>1, <3>1, <3>2, <3>5 DEF ZC!Types
      <3>7. \A s \in ZC!InUse' : s \in ZC!InUse /\ s # c /\ conn_table'[s] = conn_table[s] /\ conn_table[s].fd # f
        BY Zenon, <2>1, <2>3, <3>2 DEF ZC!Owned
      <3>8. /\ \A s \in ZC!InUse' : conn_table'[s].buf /\ conn_table'[s].fd \in open'
            /\ \A s, t \in ZC!InUse' : conn_table'[s].fd = conn_table'[t].fd => s = t
        BY <2>1, <3>1, <3>7 DEF ZC!Owned
      <3>9. \A k \in DOMAIN cq : cq[k].data = ZC!Accept =>
              cq[k].res = -1 \/ (cq[k].res \in open' /\ \A s \in ZC!InUse' : conn_table'[s].fd # cq[k].res)
        <4> SUFFICES ASSUME NEW k \in DOMAIN cq, cq[k].data = ZC!Accept, cq[k].res # -1
                     PROVE  cq[k].res \in open' /\ \A s \in ZC!InUse' : conn_table'[s].fd # cq[k].res
          OBVIOUS
        <4>1. cq[k].res \in open /\ \A s \in ZC!InUse : conn_table[s].fd # cq[k].res
          BY Zenon, <2>1 DEF ZC!Owned
        <4> QED BY <2>3, <3>1, <3>7, <4>1
      <3>10. \A fd \in open' : (\E s \in ZC!InUse' : conn_table'[s].fd = fd)
               \/ \E k \in DOMAIN cq : cq[k].data = ZC!Accept /\ cq[k].res = fd
        BY SMTT(30), <2>1, <3>1, <3>2 DEF ZC!Owned
      <3>11. ZC!Owned'
        BY <2>1, <3>8, <3>9, <3>10, <1>OwnedAfter
      <3> QED BY <3>5, <3>6, <3>11 DEF ZC!ServerInv
    <2> QED BY <2>4, <2>5

  \* All completions are handled and the requests submitted.
  <1>SubmitKeeps.
    ASSUME ZC!ServerInv, ZC!Submit
    PROVE  ZC!ServerInv'
    <2> USE <1>SubmitKeeps
    <2>1. ZC!Types /\ ZC!OnePlace /\ ZC!AllDue /\ ZC!Owned
      BY DEF ZC!ServerInv, ZC!Submit, ZC!Running
    <2>2. /\ cq' = cq /\ sq' = <<>> /\ inflight' = inflight \o sq /\ zc_phase' = "wait"
          /\ conn_table' = conn_table /\ open' = open /\ gone' = gone
      BY DEF ZC!Submit
    <2>3. sq \in Seq(ZC!io_data) /\ inflight \in Seq(ZC!io_data)
      BY <2>1 DEF ZC!Types
    <2>4. /\ inflight' \in Seq(ZC!io_data) /\ ZC!Requests(inflight)' = ZC!Requests(inflight) \cup ZC!Requests(sq)
          /\ ZC!Once(inflight)'
      BY <2>1, <2>2, <2>3, <1>RequestsJoin DEF ZC!OnePlace
    <2>5. sq' \in Seq(ZC!io_data) /\ ZC!Requests(sq)' = {} /\ ZC!Once(sq)'
      BY Zenon, <2>2, <1>RequestKinds, <1>ShortQueues
    <2>6. ZC!Completed' = ZC!Completed /\ ZC!InUse' = ZC!InUse
      BY <2>2 DEF ZC!Completed, ZC!InUse
    <2>7. ZC!Types' /\ ZC!NeverFull'
      BY <2>1, <2>2, <2>4, <2>5 DEF ZC!Types, ZC!NeverFull
    <2>8. ZC!OnePlace'
      BY <2>1, <2>4, <2>5, <2>6 DEF ZC!OnePlace
    <2>9. ZC!AllDue'
      BY Zenon, <2>1, <2>2, <2>4, <2>5, <2>6 DEF ZC!AllDue
    <2>10. ZC!Owned'
      BY <2>1, <2>2, <2>6 DEF ZC!Owned
    <2> QED BY <2>7, <2>8, <2>9, <2>10 DEF ZC!ServerInv

  \* Every step keeps the invariant.
  <1>ServerNext. ZC!ServerInv /\ [ZC!Next]_(ZC!vars) => ZC!ServerInv'
    <2> SUFFICES ASSUME ZC!ServerInv, [ZC!Next]_(ZC!vars)
                 PROVE  ZC!ServerInv'
      OBVIOUS
    <2>1. CASE ZC!handle_completion
      <3>1. ZC!Running /\ cq # <<>> /\ cq' = Tail(cq) /\ inflight' = inflight
        BY <2>1 DEF ZC!handle_completion, ZC!Running
      <3>2. Head(cq) \in ZC!Completions
        BY <3>1, <1>CompletionTaken DEF ZC!ServerInv
      <3>3. Head(cq).data.event = "accept" <=> Head(cq).data = ZC!Accept
        BY <3>2, <1>RequestKinds DEF ZC!Completions
      <3>4. CASE Head(cq).data = ZC!Accept
        <4>1. ZC!handle_accept(Head(cq).res)
          BY <2>1, <3>3, <3>4 DEF ZC!handle_completion
        <4> QED BY <3>1, <3>4, <4>1, <1>HandleAcceptKeeps
      <3>5. CASE Head(cq).data # ZC!Accept
        <4>1. ZC!handle_read(Head(cq).data, Head(cq).res)
          BY <2>1, <3>3, <3>5 DEF ZC!handle_completion
        <4> QED BY <3>1, <3>5, <4>1, <1>HandleReadKeeps
      <3> QED BY <3>4, <3>5
    <2>2. CASE ZC!Submit
      BY <2>2, <1>SubmitKeeps
    <2>3. CASE ZC!fatal_error
      BY <2>3 DEF ZC!fatal_error, ZC!ServerInv, ZC!Types, ZC!NeverFull, ZC!Running
    <2>4. CASE ZC!Kernel
      BY <2>4, <1>KernelKeeps DEF ZC!Kernel
    <2>5. ASSUME conn_table' = conn_table, sq' = sq, inflight' = inflight, cq' = cq, zc_phase' = zc_phase,
                 open' = open, gone' \subseteq open
          PROVE  ZC!ServerInv'
      <3>1. ZC!Completed' = ZC!Completed /\ ZC!InUse' = ZC!InUse
        BY <2>5 DEF ZC!Completed, ZC!InUse
      <3>2. ZC!Types' /\ ZC!NeverFull' /\ ZC!Running' = ZC!Running
        BY <2>5 DEF ZC!ServerInv, ZC!Types, ZC!NeverFull, ZC!Running
      <3>3. ZC!OnePlace => ZC!OnePlace'
        BY <2>5, <3>1 DEF ZC!OnePlace
      <3>4. ZC!AllDue => ZC!AllDue'
        BY Zenon, <2>5, <3>1 DEF ZC!AllDue
      <3>5. ZC!Owned => ZC!Owned'
        BY <2>5, <3>1 DEF ZC!Owned
      <3> QED BY <3>2, <3>3, <3>4, <3>5 DEF ZC!ServerInv
    <2>6. CASE \E fd \in Fds : ZC!ClientCloses(fd)
      BY <2>5, <2>6 DEF ZC!ClientCloses, ZC!ServerInv, ZC!Types
    <2>7. CASE UNCHANGED ZC!vars
      BY <2>5, <2>7 DEF ZC!vars, ZC!ServerInv, ZC!Types
    <2> QED BY <2>1, <2>2, <2>3, <2>4, <2>6, <2>7 DEF ZC!Next, ZC!Server

  \* With each request in one place, the counts are what they should be.
  <1>ServerGives.
    ASSUME ZC!ServerInv
    PROVE  ZC!TypeOK /\ ZC!OneAccept /\ ZC!OneReadPerConnection /\ ZC!NoDescriptorLeak /\ ZC!NeverFull
    <2> USE <1>ServerGives
    <2> DEFINE o == ZC!Outstanding
    <2>1. ZC!Types /\ ZC!NeverFull /\ (ZC!Running => ZC!OnePlace /\ ZC!AllDue /\ ZC!Owned)
      BY DEF ZC!ServerInv
    <2>2. /\ sq \in Seq(ZC!io_data) /\ inflight \in Seq(ZC!io_data) /\ ZC!Completed \in Seq(ZC!io_data)
          /\ DOMAIN ZC!Completed = DOMAIN cq
      <3>1. cq \in Seq(ZC!Completions) /\ \A k \in DOMAIN cq : cq[k] \in ZC!Completions
        BY <2>1 DEF ZC!Types
      <3>2. \A k \in DOMAIN cq : cq[k].data \in ZC!io_data
        BY <3>1 DEF ZC!Completions
      <3> QED BY <2>1, <3>1, <3>2 DEF ZC!Types, ZC!Completed
    <2>3. sq \o inflight \in Seq(ZC!io_data) /\ ZC!Requests(sq \o inflight) = ZC!Requests(sq) \cup ZC!Requests(inflight)
      BY <2>2, <1>RequestsJoin
    <2>4. /\ o \in Seq(ZC!io_data) /\ ZC!Requests(o) = ZC!Requests(sq) \cup ZC!Requests(inflight) \cup ZC!Requests(ZC!Completed)
          /\ DOMAIN o = 1 .. Len(o)
      <3>1. PICK q \in Seq(ZC!io_data) : q = sq \o inflight
        BY Zenon, <2>3
      <3>2. q \o ZC!Completed \in Seq(ZC!io_data) /\ ZC!Requests(q \o ZC!Completed) = ZC!Requests(q) \cup ZC!Requests(ZC!Completed)
        BY <2>2, <1>RequestsJoin
      <3>3. o = q \o ZC!Completed
        BY <3>1 DEF ZC!Outstanding
      <3> HIDE DEF o
      <3> QED BY <2>3, <3>1, <3>2, <3>3
    <2>5. ZC!TypeOK
      <3>1. \A k \in DOMAIN o : o[k] \in ZC!io_data
        BY <2>4
      <3> QED BY <2>1, <3>1 DEF ZC!TypeOK, ZC!Types
    <2>6. ASSUME ZC!Running
          PROVE  ZC!Once(o) /\ ZC!Requests(o) = ZC!Due(conn_table)
      <3>1. ZC!Once(sq \o inflight)
        BY <2>1, <2>2, <2>6, <1>RequestsJoin DEF ZC!OnePlace
      <3>2. ZC!Requests(sq \o inflight) \cap ZC!Requests(ZC!Completed) = {}
        BY <2>1, <2>3, <2>6 DEF ZC!OnePlace
      <3>3. ZC!Once(o)
        BY Zenon, <2>1, <2>2, <2>3, <2>6, <3>1, <3>2, <1>RequestsJoin DEF ZC!OnePlace,
           ZC!Outstanding
      <3> QED BY Zenon, <2>1, <2>4, <2>6, <3>3 DEF ZC!AllDue
    <2> HIDE DEF o
    <2>7. ASSUME ZC!Running, NEW r \in ZC!Due(conn_table)
          PROVE  \E k \in DOMAIN o : o[k] = r /\ \A j \in DOMAIN o : o[j] = r => j = k
      <3>1. PICK k \in DOMAIN o : o[k] = r
        BY <2>6, <2>7 DEF ZC!Requests
      <3> QED BY <2>6, <2>7, <3>1 DEF ZC!Once
    <2>8. ASSUME ZC!Running, NEW k \in DOMAIN o
          PROVE  o[k] \in ZC!Due(conn_table)
      BY <2>6, <2>8 DEF ZC!Requests
    <2>9. ZC!OneAccept
      <3> SUFFICES ASSUME ZC!Running PROVE ZC!Cardinality({k \in DOMAIN o : o[k].event = "accept"}) = 1
        BY DEF ZC!OneAccept, ZC!Count, o
      <3>1. PICK k \in DOMAIN o : o[k] = ZC!Accept /\ \A j \in DOMAIN o : o[j] = ZC!Accept => j = k
        BY <2>7 DEF ZC!Due
      <3>2. \A j \in DOMAIN o : o[j].event = "accept" => o[j] = ZC!Accept
        BY <2>4, <1>RequestKinds
      <3>3. {j \in DOMAIN o : o[j].event = "accept"} = {k}
        BY Zenon, <3>1, <3>2, <1>RequestKinds
      <3> QED BY Zenon, <3>3, <1>ServerSizes DEF ServerFacts, SetFacts, Singletons
    <2>10. ZC!OneReadPerConnection
      <3> SUFFICES ASSUME ZC!Running, NEW s \in ZC!Slots
                   PROVE  /\ ZC!Cardinality({k \in DOMAIN o : o[k].conn = s}) = IF conn_table[s].in_use THEN 1 ELSE 0
                          /\ conn_table[s].in_use =>
                               /\ conn_table[s].buf
                               /\ ZC!Cardinality({k \in DOMAIN o : o[k] = ZC!Read(s, conn_table[s].fd)}) = 1
        BY DEF ZC!OneReadPerConnection, ZC!Count, o
      <3>1. s # -1
        BY DEF ZC!Slots, ServerFacts, ZC!ServerConstants
      <3>2. ASSUME NEW k \in DOMAIN o, o[k].conn = s
            PROVE  s \in ZC!InUse /\ o[k] = ZC!Read(s, conn_table[s].fd)
        <4>1. o[k] \in ZC!Due(conn_table) /\ o[k] # ZC!Accept
          BY SMTT(30), <2>8, <3>1, <3>2, <1>RequestKinds
        <4> QED BY <2>1, <3>2, <4>1, <1>DueReads
      <3>3. CASE s \in ZC!InUse
        <4> DEFINE r == ZC!Read(s, conn_table[s].fd)
        <4>1. PICK k \in DOMAIN o : o[k] = r /\ \A j \in DOMAIN o : o[j] = r => j = k
          BY <2>7, <3>3 DEF ZC!Due, ZC!InUse
        <4>2. {j \in DOMAIN o : o[j] = r} = {k} /\ {j \in DOMAIN o : o[j].conn = s} = {k}
          BY <3>2, <4>1, <1>RequestKinds
        <4>3. conn_table[s].in_use /\ conn_table[s].buf
          BY <2>1, <3>3 DEF ZC!Owned, ZC!InUse
        <4> QED BY Zenon, <4>2, <4>3, <1>ServerSizes DEF ServerFacts, SetFacts, Singletons
      <3>4. CASE s \notin ZC!InUse
        <4>1. {j \in DOMAIN o : o[j].conn = s} = {}
          BY <3>2, <3>4
        <4>2. ~conn_table[s].in_use
          BY <3>4 DEF ZC!InUse
        <4> QED BY Zenon, <4>1, <4>2, <1>ServerSizes DEF ServerFacts, SetFacts, Singletons
      <3> QED BY <3>3, <3>4
    <2>11. ZC!NoDescriptorLeak
      <3> SUFFICES ASSUME ZC!Running, NEW fd \in open
                   PROVE  ZC!Cardinality({s \in ZC!Slots : conn_table[s].in_use /\ conn_table[s].fd = fd})
                            + ZC!Cardinality({k \in DOMAIN cq : cq[k].data = ZC!Accept /\ cq[k].res = fd}) = 1
        BY DEF ZC!NoDescriptorLeak
      <3> DEFINE A == {s \in ZC!Slots : conn_table[s].in_use /\ conn_table[s].fd = fd}
                 B == {k \in DOMAIN cq : cq[k].data = ZC!Accept /\ cq[k].res = fd}
      <3>1. A = {s \in ZC!InUse : conn_table[s].fd = fd}
        BY DEF ZC!InUse
      <3>2. \A j, k \in B : j = k
        <4>1. ZC!Once(ZC!Completed) /\ \A k \in B : k \in DOMAIN ZC!Completed /\ ZC!Completed[k] = ZC!Accept
          BY <2>1, <2>2 DEF ZC!OnePlace, ZC!Completed
        <4> QED BY <4>1 DEF ZC!Once
      <3>3. \A s, t \in A : s = t
        BY <2>1, <3>1 DEF ZC!Owned
      <3>4. fd # -1
        BY <2>1 DEF ZC!Types, ServerFacts, ZC!ServerConstants
      <3>5. \A k \in B : A = {}
        BY <2>1, <3>1, <3>4 DEF ZC!Owned
      <3>6. A # {} \/ B # {}
        BY Zenon, <2>1, <3>1 DEF ZC!Owned
      <3> HIDE DEF A, B
      <3>7. CASE A = {}
        <4>1. PICK k \in B : B = {k}
          BY <3>2, <3>6, <3>7
        <4>2. ZC!Cardinality(A) = 0 /\ ZC!Cardinality(B) = 1
          BY Zenon, <3>7, <4>1, <1>ServerSizes DEF ServerFacts, SetFacts, Singletons
        <4> QED BY <4>2 DEF A, B
      <3>8. CASE A # {}
        <4>1. PICK s \in A : A = {s}
          BY <3>3, <3>8
        <4>2. B = {}
          BY <3>5, <3>8
        <4>3. ZC!Cardinality(A) = 1 /\ ZC!Cardinality(B) = 0
          BY Zenon, <4>1, <4>2, <1>ServerSizes DEF ServerFacts, SetFacts, Singletons
        <4> QED BY <4>3 DEF A, B
      <3> QED BY <3>7, <3>8
    <2> QED BY <2>1, <2>5, <2>9, <2>10, <2>11

  <1> QED BY Zenon, <1>ServerStart, <1>ServerNext, <1>ServerGives
-----------------------------------------------------------------------------
(***************************************************************************)
(* customBuffer.c, for any size of the buffer and any messages.            *)
(***************************************************************************)
CONSTANTS WriteSize, Lengths, MaxWritten
VARIABLES wb_pending, wb_file, wb_data, wb_pc, wb_passed, wb_accepted, wb_lost

WB == INSTANCE WriteBuffer WITH
        Size <- WriteSize, MaxBytes <- MaxWritten, pending <- wb_pending,
        file <- wb_file, data <- wb_data, pc <- wb_pc, passed <- wb_passed,
        accepted <- wb_accepted, lost <- wb_lost

ASSUME BufferAssumption == WB!BufferConstants

\* The write buffer: file and buffer are what was accepted, but for the losses.
LEMMA BufferInductive ==
    ASSUME WB!BufferConstants
    PROVE  /\ WB!Init => WB!BufferInv
           /\ WB!BufferInv /\ [WB!Next]_(WB!vars) => WB!BufferInv'
  \* Two sequences joined.
  <1>Joins.
    ASSUME NEW S, NEW a \in Seq(S), NEW b \in Seq(S)
    PROVE  a \o b \in Seq(S) /\ Len(a \o b) = Len(a) + Len(b)
    BY <1>Joins

  \* Three of them, in either order.
  <1>JoinsAgain.
    ASSUME NEW S, NEW a \in Seq(S), NEW b \in Seq(S), NEW c \in Seq(S)
    PROVE  (a \o b) \o c = a \o (b \o c)
    BY <1>JoinsAgain

  \* What is in two sequences, and when they make an increasing one.
  <1>Concats.
    ASSUME NEW s \in Seq(Nat), NEW t \in Seq(Nat)
    PROVE  /\ WB!Elements(s \o t) = WB!Elements(s) \cup WB!Elements(t)
           /\ WB!Increasing(s) /\ WB!Increasing(t)
                /\ (\A a \in 1 .. Len(s), b \in 1 .. Len(t) : s[a] < t[b]) => WB!Increasing(s \o t)
    <2> USE <1>Concats
    <2> DEFINE u == s \o t
    <2>1. u \in Seq(Nat) /\ Len(u) = Len(s) + Len(t)
      OBVIOUS
    <2>2. \A a \in 1 .. Len(s) : u[a] = s[a]
      OBVIOUS
    <2>3. \A a \in 1 .. Len(t) : u[Len(s) + a] = t[a]
      OBVIOUS
    <2>4. \A a \in 1 .. Len(u) : a \in 1 .. Len(s) \/ (a - Len(s) \in 1 .. Len(t) /\ a = Len(s) + (a - Len(s)))
      BY <2>1
    <2> HIDE DEF u
    <2>5. WB!Elements(u) \subseteq WB!Elements(s) \cup WB!Elements(t)
      <3> SUFFICES ASSUME NEW a \in 1 .. Len(u)
                   PROVE  u[a] \in WB!Elements(s) \cup WB!Elements(t)
        BY Zenon DEF WB!Elements
      <3>1. CASE a \in 1 .. Len(s)
        BY <2>2, <3>1 DEF WB!Elements
      <3>2. CASE a - Len(s) \in 1 .. Len(t) /\ a = Len(s) + (a - Len(s))
        <4>1. u[a] = t[a - Len(s)]
          BY <2>3, <3>2
        <4> QED BY <3>2, <4>1 DEF WB!Elements
      <3> QED BY <2>4, <3>1, <3>2
    <2>6. WB!Elements(s) \cup WB!Elements(t) \subseteq WB!Elements(u)
      <3>1. ASSUME NEW a \in 1 .. Len(s)
            PROVE  s[a] \in WB!Elements(u)
        BY <2>1, <2>2 DEF WB!Elements
      <3>2. ASSUME NEW a \in 1 .. Len(t)
            PROVE  t[a] \in WB!Elements(u)
        <4>1. Len(s) + a \in 1 .. Len(u)
          BY <2>1
        <4> QED BY Zenon, <2>3, <4>1 DEF WB!Elements
      <3> QED BY Zenon, <3>1, <3>2 DEF WB!Elements
    <2>7. ASSUME WB!Increasing(s), WB!Increasing(t), \A a \in 1 .. Len(s), b \in 1 .. Len(t) : s[a] < t[b]
          PROVE  WB!Increasing(u)
      <3> SUFFICES ASSUME NEW a \in 1 .. Len(u), NEW b \in 1 .. Len(u), a < b
                   PROVE  u[a] < u[b]
        BY DEF WB!Increasing
      <3>1. CASE b \in 1 .. Len(s)
        <4>1. a \in 1 .. Len(s)
          BY <3>1
        <4> QED BY <2>2, <2>7, <3>1, <4>1 DEF WB!Increasing
      <3>2. CASE a \in 1 .. Len(s) /\ b - Len(s) \in 1 .. Len(t) /\ b = Len(s) + (b - Len(s))
        <4>1. u[b] = t[b - Len(s)] /\ u[a] = s[a]
          BY Zenon, <2>2, <2>3, <3>2
        <4> QED BY <2>7, <3>2, <4>1
      <3>3. CASE /\ a - Len(s) \in 1 .. Len(t) /\ a = Len(s) + (a - Len(s))
                 /\ b - Len(s) \in 1 .. Len(t) /\ b = Len(s) + (b - Len(s))
        <4>1. u[b] = t[b - Len(s)] /\ u[a] = t[a - Len(s)]
          BY SMTT(30), <2>3, <3>3
        <4>2. a - Len(s) < b - Len(s)
          BY <3>3
        <4> QED BY Zenon, <2>7, <3>3, <4>1, <4>2 DEF WB!Increasing
      <3> QED BY <2>4, <3>1, <3>2, <3>3
    <2> QED BY <2>5, <2>6, <2>7 DEF u

  \* A write takes the first bytes and loses the others, and loses none only if it
  \* takes them all.
  <1>WrittenKeeps.
    ASSUME NEW buf \in Seq(Nat), NEW all \in Seq(Nat), NEW k \in 0 .. Len(buf), WB!Written(buf, k),
           wb_file \in Seq(Nat), wb_lost = {} => wb_file \o buf = all,
           WB!Increasing(wb_file \o buf), WB!Elements(wb_file \o buf) = WB!Elements(all) \ wb_lost
    PROVE  /\ wb_file' \in Seq(Nat) /\ wb_pending' = <<>>
           /\ wb_lost' = {} => wb_file' \o wb_pending' = all
           /\ WB!Increasing(wb_file' \o wb_pending') /\ WB!Elements(wb_file' \o wb_pending') = WB!Elements(all) \ wb_lost'
           /\ wb_lost' \subseteq wb_lost \cup WB!Elements(all)
    <2> USE <1>WrittenKeeps
    <2> DEFINE s == wb_file \o buf
               m == Len(wb_file) + k
    <2>1. /\ wb_file' \in Seq(Nat) /\ wb_pending' = <<>> /\ Len(wb_file') = m
          /\ s \in Seq(Nat) /\ Len(s) = Len(wb_file) + Len(buf) /\ m \in 0 .. Len(s)
      BY DEF WB!Written
    <2>2. wb_file' \o wb_pending' = wb_file'
      BY <2>1
    <2>3. \A a \in 1 .. m : wb_file'[a] = s[a]
      BY DEF WB!Written
    <2>4. {buf[i] : i \in k + 1 .. Len(buf)} = {s[i] : i \in m + 1 .. Len(s)}
      <3>1. ASSUME NEW i \in k + 1 .. Len(buf)
            PROVE  Len(wb_file) + i \in m + 1 .. Len(s) /\ s[Len(wb_file) + i] = buf[i]
        BY <2>1
      <3>2. ASSUME NEW i \in m + 1 .. Len(s)
            PROVE  i - Len(wb_file) \in k + 1 .. Len(buf) /\ s[i] = buf[i - Len(wb_file)]
        BY <2>1
      <3> HIDE DEF s, m
      <3>3. ASSUME NEW i \in k + 1 .. Len(buf)
            PROVE  buf[i] \in {s[j] : j \in m + 1 .. Len(s)}
        BY Zenon, <3>1
      <3>4. ASSUME NEW i \in m + 1 .. Len(s)
            PROVE  s[i] \in {buf[j] : j \in k + 1 .. Len(buf)}
        BY Zenon, <3>2
      <3> QED BY <3>3, <3>4, Zenon
    <2> HIDE DEF s, m
    <2>5. wb_lost' = wb_lost \cup {s[i] : i \in m + 1 .. Len(s)}
      BY Zenon, <2>4 DEF WB!Written
    <2>6. WB!Increasing(s) /\ WB!Elements(s) = WB!Elements(all) \ wb_lost
      BY DEF s
    <2>7. WB!Increasing(wb_file')
      BY <2>1, <2>3, <2>6 DEF WB!Increasing
    <2>8. WB!Elements(wb_file') = WB!Elements(all) \ wb_lost'
      <3>1. WB!Elements(wb_file') = {s[a] : a \in 1 .. m}
        BY Zenon, <2>1, <2>3 DEF WB!Elements
      <3>2. ASSUME NEW a \in 1 .. m, NEW i \in m + 1 .. Len(s)
            PROVE  s[a] # s[i]
        <4>1. s[a] < s[i] /\ s[a] \in Nat
          BY SMTT(30), <2>1, <2>6 DEF WB!Increasing
        <4> QED BY <4>1
      <3>3. WB!Elements(s) = {s[a] : a \in 1 .. m} \cup {s[i] : i \in m + 1 .. Len(s)}
        <4>1. \A a : a \in 1 .. Len(s) <=> (a \in 1 .. m \/ a \in m + 1 .. Len(s))
          BY <2>1
        <4> QED BY Zenon, <4>1 DEF WB!Elements
      <3>4. {s[a] : a \in 1 .. m} = WB!Elements(s) \ {s[i] : i \in m + 1 .. Len(s)}
        BY <3>2, <3>3, Zenon
      <3> QED BY Zenon, <2>5, <2>6, <3>1, <3>4
    <2>9. wb_lost' \subseteq wb_lost \cup WB!Elements(all)
      <3>1. \A i \in m + 1 .. Len(s) : s[i] \in WB!Elements(s)
        BY <2>1 DEF WB!Elements
      <3> QED BY <2>5, <2>6, <3>1
    <2>10. ASSUME wb_lost' = {}
           PROVE  wb_file' = all
      <3>1. wb_lost = {} /\ k = Len(buf)
        <4>1. wb_lost = {} /\ {buf[i] : i \in k + 1 .. Len(buf)} = {}
          BY Zenon, <2>10 DEF WB!Written
        <4>2. \A i \in k + 1 .. Len(buf) : FALSE
          BY <4>1, Zenon
        <4>3. k < Len(buf) => k + 1 \in k + 1 .. Len(buf)
          OBVIOUS
        <4> QED BY <4>1, <4>2, <4>3
      <3>2. SubSeq(buf, 1, k) = buf
        BY <3>1
      <3> QED BY Zenon, <3>1, <3>2 DEF WB!Written
    <2> QED BY <2>1, <2>2, <2>7, <2>8, <2>9, <2>10

  <1>BufferInit. WB!Init => WB!BufferInv
    <2> SUFFICES ASSUME WB!Init
                 PROVE  WB!BufferInv
      OBVIOUS
    <2>1. WB!TypeOK /\ WB!InOrder
      BY DEF WB!BufferConstants, WB!Init, WB!TypeOK, WB!InOrder
    <2>2. wb_file \o wb_pending = <<>> /\ wb_accepted = <<>> /\ wb_lost = {}
      BY DEF WB!Init
    <2>3. WB!OnlyShortWritesLose
      BY <2>2 DEF WB!OnlyShortWritesLose, WB!Increasing, WB!Elements
    <2>4. WB!RestIsNew
      BY DEF WB!Init, WB!RestIsNew, WB!Seen
    <2> QED BY <2>1, <2>3, <2>4 DEF WB!BufferInv

  \* One turn of the loop of write_to_buffer.
  <1>WriteCopyKeeps.
    ASSUME WB!BufferInv, WB!copy
    PROVE  WB!BufferInv'
    <2> USE <1>WriteCopyKeeps
    <2> DEFINE n == WB!Smaller(Len(wb_data), WriteSize - Len(wb_pending))
               part == SubSeq(wb_data, 1, n)
               buf == wb_pending \o part
               all == wb_accepted \o part
    <2>1. /\ wb_pending \in Seq(Nat) /\ wb_file \in Seq(Nat) /\ wb_data \in Seq(Nat)
          /\ wb_accepted \in Seq(Nat) /\ wb_passed \in Nat /\ Len(wb_pending) <= WriteSize
      BY DEF WB!BufferInv, WB!TypeOK
    <2>2. /\ (wb_lost = {} => wb_file \o wb_pending = wb_accepted) /\ WB!Increasing(wb_accepted)
          /\ WB!Increasing(wb_file \o wb_pending) /\ WB!Elements(wb_file \o wb_pending) = WB!Elements(wb_accepted) \ wb_lost
      BY DEF WB!BufferInv, WB!InOrder, WB!OnlyShortWritesLose
    <2>3. /\ WB!Seen \in Nat /\ WB!Seen = wb_passed - Len(wb_data) /\ wb_lost \subseteq 0 .. WB!Seen
          /\ \A a \in 1 .. Len(wb_data) : wb_data[a] = WB!Seen + a
          /\ \A a \in 1 .. Len(wb_accepted) : wb_accepted[a] <= WB!Seen
      BY DEF WB!BufferInv, WB!RestIsNew, WB!Seen
    <2>4. n \in 0 .. Len(wb_data) /\ Len(wb_pending) + n <= WriteSize
      BY <2>1 DEF WB!Smaller, WB!BufferConstants
    <2> HIDE DEF n, WB!Seen
    <2>5. /\ part \in Seq(Nat) /\ Len(part) = n
          /\ \A a \in 1 .. n : part[a] = WB!Seen + a
      <3>1. part \in Seq(Nat) /\ Len(part) = n /\ \A a \in 1 .. n : part[a] = wb_data[a]
        BY <2>1, <2>4
      <3> QED BY <2>1, <2>4, <2>3, <3>1
    <2>6. LET rest == SubSeq(wb_data, n + 1, Len(wb_data))
          IN /\ rest \in Seq(Nat) /\ Len(rest) = Len(wb_data) - n
             /\ \A a \in 1 .. Len(rest) : rest[a] = WB!Seen + n + a
      <3> DEFINE rest == SubSeq(wb_data, n + 1, Len(wb_data))
      <3>1. rest \in Seq(Nat) /\ Len(rest) = Len(wb_data) - n
        BY <2>1, <2>4
      <3>2. \A a \in 1 .. Len(wb_data) - n : rest[a] = wb_data[n + a]
        BY <2>1, <2>4
      <3> HIDE DEF rest
      <3>3. \A a \in 1 .. Len(wb_data) - n : n + a \in 1 .. Len(wb_data) /\ WB!Seen + (n + a) = WB!Seen + n + a
        BY <2>1, <2>4, <2>3
      <3>4. \A a \in 1 .. Len(rest) : rest[a] = WB!Seen + n + a
        BY Zenon, <2>3, <3>1, <3>2, <3>3
      <3> QED BY <3>1, <3>4 DEF rest
    <2> HIDE DEF part
    <2>7. buf \in Seq(Nat) /\ Len(buf) <= WriteSize
      BY <2>1, <2>4, <2>5, <1>Joins DEF WB!BufferConstants
    <2>8. wb_file \o buf = (wb_file \o wb_pending) \o part
      <3>1. wb_file \in Seq(Nat) /\ wb_pending \in Seq(Nat) /\ part \in Seq(Nat)
        BY <2>1, <2>5
      <3>2. (wb_file \o wb_pending) \o part = wb_file \o (wb_pending \o part)
        BY SMTT(30), <3>1, <1>JoinsAgain
      <3> QED BY <3>2
    <2>9. wb_lost = {} => wb_file \o buf = all
      BY <2>2, <2>8, Zenon
    <2>10. /\ all \in Seq(Nat) /\ WB!Increasing(all)
          /\ \A a \in 1 .. Len(all) : all[a] <= WB!Seen + n
      <3>1. WB!Increasing(part)
        BY <2>4, <2>5, <2>3 DEF WB!Increasing
      <3>2. \A a \in 1 .. Len(wb_accepted) : wb_accepted[a] \in Nat
        BY <2>1
      <3>3. \A a \in 1 .. Len(wb_accepted), b \in 1 .. Len(part) : wb_accepted[a] < part[b]
        BY <2>4, <2>5, <2>3, <3>2
      <3>4. all \in Seq(Nat) /\ Len(all) = Len(wb_accepted) + n
        <4>1. wb_accepted \in Seq(Nat) /\ part \in Seq(Nat) /\ Len(part) = n
          BY <2>1, <2>5
        <4> QED BY Zenon, <4>1, <1>Joins
      <3>5. WB!Increasing(all)
        BY Zenon, <2>1, <2>2, <2>5, <3>1, <3>3, <1>Concats
      <3>6. ASSUME NEW a \in 1 .. Len(all)
            PROVE  all[a] <= WB!Seen + n
        <4>1. a \in 1 .. Len(wb_accepted) \/ a - Len(wb_accepted) \in 1 .. n
          BY <2>1, <2>4, <3>4
        <4>2. CASE a \in 1 .. Len(wb_accepted)
          <5>1. all[a] = wb_accepted[a]
            BY <2>1, <2>5, <4>2
          <5> QED BY <2>4, <2>3, <3>2, <4>2, <5>1
        <4>3. CASE a - Len(wb_accepted) \in 1 .. n
          <5>1. all[a] = part[a - Len(wb_accepted)]
            BY <2>1, <2>5, <3>4, <4>3
          <5> QED BY <2>4, <2>5, <2>3, <4>3, <5>1
        <4> QED BY <4>1, <4>2, <4>3
      <3> QED BY <3>4, <3>5, <3>6
    <2>11. \A x \in WB!Elements(part) : x \notin 0 .. WB!Seen
      BY <2>4, <2>5, <2>3 DEF WB!Elements
    <2>12. \A x \in WB!Elements(wb_accepted) : x \in 0 .. WB!Seen
      BY <2>1, <2>3 DEF WB!Elements
    <2>13. WB!Increasing(wb_file \o buf) /\ WB!Elements(wb_file \o buf) = WB!Elements(all) \ wb_lost
      <3> DEFINE old == wb_file \o wb_pending
      <3>1. old \in Seq(Nat)
        BY <2>1
      <3> HIDE DEF old
      <3>2. WB!Elements(old) = WB!Elements(wb_accepted) \ wb_lost /\ WB!Increasing(old)
        BY <2>2 DEF old
      <3>3. ASSUME NEW a \in 1 .. Len(old), NEW b \in 1 .. Len(part)
            PROVE  old[a] < part[b]
        <4>1. old[a] \in WB!Elements(old)
          BY DEF WB!Elements
        <4>2. old[a] \in 0 .. WB!Seen
          BY <2>12, <3>2, <4>1
        <4> QED BY <2>4, <2>5, <2>3, <4>2
      <3>4. WB!Increasing(part)
        BY <2>4, <2>5, <2>3 DEF WB!Increasing
      <3>5. WB!Increasing(old \o part) /\ WB!Elements(old \o part) = WB!Elements(old) \cup WB!Elements(part)
        BY Zenon, <2>5, <3>1, <3>2, <3>3, <3>4, <1>Concats
      <3>6. WB!Elements(all) = WB!Elements(wb_accepted) \cup WB!Elements(part)
        BY <2>1, <2>5, <1>Concats
      <3>7. WB!Elements(old) \cup WB!Elements(part) = WB!Elements(all) \ wb_lost
        BY Zenon, <2>3, <2>11, <3>2, <3>6
      <3> QED BY <2>8, <3>5, <3>7 DEF old
    <2>14. wb_accepted' = all /\ UNCHANGED wb_passed
      BY DEF WB!copy, n, part
    <2> HIDE DEF buf, all
    <2>15. 0 .. WB!Seen \subseteq 0 .. WB!Seen + n /\ WB!Elements(all) \subseteq 0 .. WB!Seen + n
      <3>1. \A a \in 1 .. Len(all) : all[a] \in Nat
        BY <2>10
      <3>2. 0 .. WB!Seen \subseteq 0 .. WB!Seen + n
        BY <2>4, <2>3
      <3>3. \A a \in 1 .. Len(all) : all[a] \in 0 .. WB!Seen + n
        BY <2>4, <2>10, <2>3, <3>1
      <3> QED BY <3>2, <3>3 DEF WB!Elements
    <2>16. ASSUME wb_data' = SubSeq(wb_data, n + 1, Len(wb_data)), wb_lost' \subseteq 0 .. WB!Seen + n
           PROVE  WB!RestIsNew'
      <3>1. WB!Seen' = WB!Seen + n
        <4>1. Len(wb_data') = Len(wb_data) - n /\ wb_passed' = wb_passed
          BY <2>6, <2>14, <2>16
        <4>2. WB!Seen' = wb_passed' - Len(wb_data')
          BY DEF WB!Seen
        <4> QED BY <2>1, <2>4, <2>3, <4>1, <4>2
      <3>2. \A a \in 1 .. Len(wb_data') : wb_data'[a] = WB!Seen' + a
        BY <2>6, <2>16, <3>1
      <3>3. WB!Seen' \in Nat
        BY <2>4, <2>3, <3>1
      <3> QED BY Zenon, <2>10, <2>14, <2>16, <3>1, <3>2, <3>3 DEF WB!RestIsNew
    <2>17. CASE /\ wb_pending' = buf /\ wb_data' = SubSeq(wb_data, n + 1, Len(wb_data))
                /\ UNCHANGED <<wb_file, wb_pc, wb_lost>>
      <3>1. WB!TypeOK'
        BY <2>1, <2>6, <2>7, <2>10, <2>14, <2>17 DEF WB!BufferInv, WB!TypeOK
      <3>2. wb_lost' \subseteq 0 .. WB!Seen + n
        BY <2>3, <2>15, <2>17
      <3>3. WB!RestIsNew'
        BY <2>16, <2>17, <3>2
      <3> QED BY <2>9, <2>10, <2>13, <2>14, <2>17, <3>1, <3>3 DEF WB!BufferInv, WB!InOrder,
                 WB!OnlyShortWritesLose
    <2>18. CASE /\ \E k \in 0 .. Len(buf) : WB!Written(buf, k)
                /\ wb_data' = SubSeq(wb_data, n + 1, Len(wb_data)) /\ UNCHANGED wb_pc
      <3>1. /\ wb_file' \in Seq(Nat) /\ wb_pending' = <<>>
            /\ wb_lost' = {} => wb_file' \o wb_pending' = all
            /\ WB!Increasing(wb_file' \o wb_pending') /\ WB!Elements(wb_file' \o wb_pending') = WB!Elements(all) \ wb_lost'
            /\ wb_lost' \subseteq wb_lost \cup WB!Elements(all)
        BY Zenon, <2>1, <2>7, <2>9, <2>10, <2>13, <2>18, <1>WrittenKeeps
      <3>2. WB!TypeOK'
        BY <2>1, <2>6, <2>10, <2>14, <2>18, <3>1 DEF WB!BufferInv, WB!TypeOK, WB!BufferConstants
      <3>3. wb_lost' \subseteq 0 .. WB!Seen + n
        BY Zenon, <2>3, <2>15, <3>1
      <3>4. WB!RestIsNew'
        BY <2>16, <2>18, <3>3
      <3> QED BY <2>10, <2>14, <3>1, <3>2, <3>4 DEF WB!BufferInv, WB!InOrder, WB!OnlyShortWritesLose
    <2>19. CASE WB!flush_fails(buf) /\ wb_data' = <<>> /\ wb_pc' = "idle"
      <3>1. wb_pending' = buf /\ UNCHANGED <<wb_file, wb_lost>>
        BY <2>19 DEF WB!flush_fails
      <3>2. WB!TypeOK'
        BY <2>1, <2>7, <2>10, <2>14, <2>19, <3>1 DEF WB!TypeOK
      <3>3. WB!Seen' = WB!Seen + Len(wb_data) /\ Len(wb_data) \in Nat /\ n <= Len(wb_data) /\ Len(wb_data') = 0
        BY <2>1, <2>4, <2>3, <2>14, <2>19 DEF WB!Seen
      <3>4. 0 .. WB!Seen \subseteq 0 .. WB!Seen'
        BY <2>3, <3>3
      <3>5. \A a \in 1 .. Len(all) : all[a] <= WB!Seen'
        <4>1. \A a \in 1 .. Len(all) : all[a] \in Nat
          BY <2>10
        <4> QED BY <2>4, <2>10, <2>3, <3>3, <4>1
      <3>6. WB!RestIsNew'
        BY <2>3, <2>14, <3>1, <3>3, <3>4, <3>5 DEF WB!RestIsNew
      <3> QED BY <2>9, <2>10, <2>13, <2>14, <3>1, <3>2, <3>6 DEF WB!BufferInv, WB!InOrder,
                 WB!OnlyShortWritesLose
    <2> QED BY Zenon, <2>17, <2>18, <2>19 DEF WB!copy, n, part, buf

  <1>BufferNext. WB!BufferInv /\ [WB!Next]_(WB!vars) => WB!BufferInv'
    <2> SUFFICES ASSUME WB!BufferInv, [WB!Next]_(WB!vars)
                 PROVE  WB!BufferInv'
      OBVIOUS
    <2>0. /\ wb_pending \in Seq(Nat) /\ wb_accepted \in Seq(Nat) /\ wb_file \in Seq(Nat) /\ wb_passed \in Nat
          /\ wb_data \in Seq(Nat) /\ WB!Seen \in Nat /\ WB!Seen = wb_passed - Len(wb_data)
          /\ wb_lost \subseteq 0 .. WB!Seen /\ \A a \in 1 .. Len(wb_accepted) : wb_accepted[a] <= WB!Seen
      BY DEF WB!BufferInv, WB!TypeOK, WB!RestIsNew, WB!Seen
    <2>1. CASE UNCHANGED WB!vars \/ WB!return \/ WB!destroy_buffer
      <3>1. UNCHANGED <<wb_pending, wb_file, wb_data, wb_passed, wb_accepted, wb_lost>> /\ wb_pc' \in {"idle", "write", "closed"}
        BY <2>1 DEF WB!vars, WB!return, WB!destroy_buffer, WB!BufferInv, WB!TypeOK
      <3> QED BY <3>1 DEF WB!BufferInv, WB!TypeOK, WB!InOrder, WB!OnlyShortWritesLose,
                 WB!RestIsNew, WB!Seen
    <2>2. ASSUME NEW n \in Lengths, WB!call(n)
          PROVE  WB!BufferInv'
      <3>1. n \in Nat /\ wb_data' = [i \in 1 .. n |-> wb_passed + i] /\ wb_passed' = wb_passed + n
        BY <2>2 DEF WB!BufferConstants, WB!call, WB!Numbers
      <3>2. /\ wb_data' \in Seq(Nat) /\ Len(wb_data') = n /\ \A a \in 1 .. n : wb_data'[a] = wb_passed + a
        BY <2>0, <3>1
      <3>3. WB!Seen' = wb_passed /\ WB!Seen <= wb_passed
        BY <2>0, <3>1, <3>2 DEF WB!Seen
      <3>4. WB!RestIsNew'
        <4>1. 0 .. WB!Seen \subseteq 0 .. wb_passed
          BY <2>0, <3>3
        <4>2. \A a \in 1 .. Len(wb_accepted) : wb_accepted[a] <= wb_passed
          <5>1. \A a \in 1 .. Len(wb_accepted) : wb_accepted[a] \in Nat
            BY <2>0
          <5> QED BY <2>0, <3>3, <5>1
        <4>3. UNCHANGED <<wb_accepted, wb_lost>>
          BY <2>2 DEF WB!call
        <4> QED BY <2>0, <3>2, <3>3, <4>1, <4>2, <4>3 DEF WB!RestIsNew
      <3>5. WB!TypeOK'
        BY <2>2, <3>1, <3>2 DEF WB!call, WB!BufferInv, WB!TypeOK
      <3> QED BY <2>2, <3>4, <3>5 DEF WB!call, WB!BufferInv, WB!InOrder, WB!OnlyShortWritesLose
    <2>3. CASE WB!copy
      BY <2>3, <1>WriteCopyKeeps
    <2>4. CASE WB!flush_buffer
      <3>1. /\ wb_file' \in Seq(Nat) /\ wb_pending' = <<>>
            /\ wb_lost' = {} => wb_file' \o wb_pending' = wb_accepted
            /\ WB!Increasing(wb_file' \o wb_pending') /\ WB!Elements(wb_file' \o wb_pending') = WB!Elements(wb_accepted) \ wb_lost'
            /\ wb_lost' \subseteq wb_lost \cup WB!Elements(wb_accepted)
        BY Zenon, <2>0, <2>4, <1>WrittenKeeps DEF WB!flush_buffer, WB!BufferInv, WB!InOrder,
           WB!OnlyShortWritesLose
      <3>2. UNCHANGED <<wb_data, wb_pc, wb_passed, wb_accepted>> /\ WB!Seen' = WB!Seen
        BY <2>4 DEF WB!flush_buffer, WB!Seen
      <3>3. wb_lost' \subseteq 0 .. WB!Seen
        <4>1. WB!Elements(wb_accepted) \subseteq 0 .. WB!Seen
          BY <2>0 DEF WB!Elements
        <4> QED BY <2>0, <3>1, <4>1
      <3>4. WB!RestIsNew'
        BY <3>2, <3>3 DEF WB!BufferInv, WB!RestIsNew
      <3> QED BY <3>1, <3>2, <3>4 DEF WB!BufferInv, WB!TypeOK, WB!InOrder, WB!OnlyShortWritesLose,
                 WB!BufferConstants
    <2> QED BY <2>1, <2>2, <2>3, <2>4 DEF WB!Next

  <1> QED BY Zenon, <1>BufferInit, <1>BufferNext

\* customBuffer.c, for every size of the buffer and all messages: the accepted bytes
\* are in the file or in the buffer, in order and once each, but for those that a short
\* write left behind, whatever flushes fail; without short writes none is missing.
THEOREM BufferKeepsOrder ==
    ASSUME WB!BufferConstants
    PROVE  WB!Spec => [](WB!TypeOK /\ WB!InOrder /\ WB!OnlyShortWritesLose)
  <1>1. WB!BufferInv => WB!TypeOK /\ WB!InOrder /\ WB!OnlyShortWritesLose
    BY DEF WB!BufferInv
  <1>2. (WB!Init => WB!BufferInv) /\ (WB!BufferInv /\ [WB!Next]_(WB!vars) => WB!BufferInv')
    BY Zenon, BufferInductive
  <1> QED BY <1>1, <1>2, PTL DEF WB!Spec
-----------------------------------------------------------------------------
(***************************************************************************)
(* uart.c, for any ring of at least three slots and any timeout.           *)
(***************************************************************************)
CONSTANTS RxSize, Bytes, TimeoutMs, MsPerSecond, MaxReceived
VARIABLES ua_data, ua_write_ptr, ua_read_ptr, ua_alarm, ua_timeout_ms, ua_pc,
          ua_byte, ua_accepted, ua_delivered, ua_overflow

UA == INSTANCE Uart WITH
        BufferSize <- RxSize, MaxBytes <- MaxReceived, data <- ua_data,
        write_ptr <- ua_write_ptr, read_ptr <- ua_read_ptr, alarm <- ua_alarm,
        timeout_ms <- ua_timeout_ms, pc <- ua_pc, byte <- ua_byte,
        accepted <- ua_accepted, delivered <- ua_delivered, overflow <- ua_overflow

ASSUME UartAssumption == UA!UartConstants

\* The driver: what was accepted is what was delivered and then the ring.
LEMMA UartInductive ==
    ASSUME UA!UartConstants
    PROVE  /\ UA!Init => UA!UartInv
           /\ UA!UartInv /\ [UA!Next]_(UA!vars) => UA!UartInv'
  \* Arithmetic of a cursor on a ring of n slots: before, in and after the first lap.
  <1>RxLaps.
    ASSUME NEW n \in Nat, n > 0
    PROVE  /\ \A a \in -n .. -1 : a % n = a + n
           /\ \A a \in 0 .. n - 1 : a % n = a
           /\ \A a \in n .. 2 * n - 1 : a % n = a - n
    BY <1>RxLaps, SMT

  \* The number of bytes that wait, and where each of them is.
  <1>RxRing.
    ASSUME UA!TypeOK
    PROVE  /\ UA!Size \in 0 .. RxSize - 1
           /\ UA!Size = IF ua_write_ptr >= ua_read_ptr THEN ua_write_ptr - ua_read_ptr
                     ELSE ua_write_ptr - ua_read_ptr + RxSize
           /\ UA!Contents \in Seq(Bytes \cup {UA!NoByte}) /\ Len(UA!Contents) = UA!Size
           /\ \A k \in 1 .. UA!Size :
                UA!Contents[k] = ua_data[IF ua_read_ptr + k - 1 < RxSize THEN ua_read_ptr + k - 1
                                   ELSE ua_read_ptr + k - 1 - RxSize]
    <2> USE <1>RxRing
    <2>1. /\ RxSize \in Nat /\ RxSize > 0 /\ ua_write_ptr \in 0 .. RxSize - 1
          /\ ua_read_ptr \in 0 .. RxSize - 1
          /\ ua_data \in [0 .. RxSize - 1 -> Bytes \cup {UA!NoByte}]
      BY DEF UA!UartConstants, UA!TypeOK, UA!Slots
    <2>2. UA!Size = IF ua_write_ptr >= ua_read_ptr THEN ua_write_ptr - ua_read_ptr
                 ELSE ua_write_ptr - ua_read_ptr + RxSize
      <3>1. ua_write_ptr - ua_read_ptr \in 0 .. RxSize - 1 \/ ua_write_ptr - ua_read_ptr \in -RxSize .. -1
        BY <2>1
      <3> QED BY <2>1, <3>1, <1>RxLaps DEF UA!Size
    <2>3. UA!Size \in 0 .. RxSize - 1
      BY <2>1, <2>2
    <2>4. ASSUME NEW k \in 1 .. UA!Size
          PROVE  /\ (ua_read_ptr + k - 1) % RxSize =
                       IF ua_read_ptr + k - 1 < RxSize THEN ua_read_ptr + k - 1
                       ELSE ua_read_ptr + k - 1 - RxSize
                 /\ (ua_read_ptr + k - 1) % RxSize \in 0 .. RxSize - 1
      <3>1. ua_read_ptr + k - 1 \in 0 .. RxSize - 1 \/ ua_read_ptr + k - 1 \in RxSize .. 2 * RxSize - 1
        BY <2>1, <2>3
      <3> QED BY <2>1, <2>3, <3>1, <1>RxLaps
    <2> HIDE DEF UA!Size
    <2>5. \A k \in 1 .. UA!Size : UA!Contents[k] = ua_data[(ua_read_ptr + k - 1) % RxSize]
      BY DEF UA!Contents
    <2>6. UA!Contents \in [1 .. UA!Size -> Bytes \cup {UA!NoByte}]
      BY <2>1, <2>4 DEF UA!Contents
    <2>7. UA!Contents \in Seq(Bytes \cup {UA!NoByte}) /\ Len(UA!Contents) = UA!Size
      BY <2>3, <2>6
    <2> QED BY <2>2, <2>3, <2>4, <2>5, <2>7

  \* A byte that the handler stores is put behind those that wait.
  <1>RxStores.
    ASSUME UA!TypeOK, NEW b \in Bytes, UA!Size < RxSize - 1, UA!ring_buffer_write(b),
           UNCHANGED ua_read_ptr
    PROVE  /\ ua_data' \in [UA!Slots -> Bytes \cup {UA!NoByte}] /\ ua_write_ptr' \in UA!Slots
           /\ ua_overflow' = ua_overflow /\ ua_accepted' = Append(ua_accepted, b)
           /\ UA!Size' = UA!Size + 1 /\ UA!Contents' = Append(UA!Contents, b)
           /\ UA!Size > 0 => ua_data'[ua_read_ptr] = ua_data[ua_read_ptr]
    <2> USE <1>RxStores
    <2>1. /\ RxSize \in Nat /\ RxSize > 0 /\ ua_write_ptr \in 0 .. RxSize - 1
          /\ ua_read_ptr \in 0 .. RxSize - 1
          /\ ua_data \in [0 .. RxSize - 1 -> Bytes \cup {UA!NoByte}]
      BY DEF UA!UartConstants, UA!TypeOK, UA!Slots
    <2> DEFINE n == RxSize
    <2>2. (ua_write_ptr + 1) % n = IF ua_write_ptr + 1 < n THEN ua_write_ptr + 1 ELSE 0
      <3>1. ua_write_ptr + 1 \in 0 .. n - 1 \/ ua_write_ptr + 1 \in n .. 2 * n - 1
        BY <2>1
      <3> QED BY <2>1, <3>1, <1>RxLaps
    <2>3. /\ UA!Size \in 0 .. n - 1
          /\ UA!Size = IF ua_write_ptr >= ua_read_ptr THEN ua_write_ptr - ua_read_ptr ELSE ua_write_ptr - ua_read_ptr + n
      BY <1>RxRing
    <2>4. (ua_write_ptr + 1) % n # ua_read_ptr
      BY <2>1, <2>2, <2>3
    <2>5. /\ ua_data' = [ua_data EXCEPT ![ua_write_ptr] = b] /\ ua_write_ptr' = (ua_write_ptr + 1) % n
          /\ ua_accepted' = Append(ua_accepted, b) /\ UNCHANGED ua_overflow
      BY <2>4 DEF UA!ring_buffer_write
    <2>6. ua_data' \in [UA!Slots -> Bytes \cup {UA!NoByte}] /\ ua_write_ptr' \in UA!Slots
      BY <2>1, <2>2, <2>5 DEF UA!Slots
    <2>7. UA!Size' = UA!Size + 1
      <3>1. ua_write_ptr' - ua_read_ptr \in 0 .. n - 1 \/ ua_write_ptr' - ua_read_ptr \in -n .. -1
        BY <2>1, <2>2, <2>5
      <3>2. UA!Size' = IF ua_write_ptr' >= ua_read_ptr THEN ua_write_ptr' - ua_read_ptr ELSE ua_write_ptr' - ua_read_ptr + n
        BY SMTT(30), <2>1, <2>2, <2>5, <3>1, <1>RxLaps DEF UA!Size
      <3> QED BY <2>1, <2>2, <2>3, <2>5, <3>2
    <2>8. ASSUME NEW k \in 1 .. UA!Size + 1
          PROVE  UA!Contents'[k] = IF k = UA!Size + 1 THEN b ELSE UA!Contents[k]
      <3> DEFINE at == IF ua_read_ptr + k - 1 < n THEN ua_read_ptr + k - 1 ELSE ua_read_ptr + k - 1 - n
      <3>1. ua_read_ptr + k - 1 \in 0 .. n - 1 \/ ua_read_ptr + k - 1 \in n .. 2 * n - 1
        BY <2>1, <2>3
      <3>2. (ua_read_ptr + k - 1) % n = at /\ at \in 0 .. n - 1
        BY <2>1, <3>1, <1>RxLaps
      <3>3. UA!Contents'[k] = ua_data'[at]
        BY <2>7, <3>2 DEF UA!Contents
      <3>4. at = ua_write_ptr <=> k = UA!Size + 1
        BY <2>1, <2>3
      <3>5. k # UA!Size + 1 => UA!Contents[k] = ua_data[at]
        BY <2>3, <1>RxRing
      <3> HIDE DEF at
      <3> QED BY Zenon, <2>1, <2>5, <3>2, <3>3, <3>4, <3>5
    <2>9. UA!Contents' = Append(UA!Contents, b)
      <3>1. UA!Contents \in Seq(Bytes \cup {UA!NoByte}) /\ Len(UA!Contents) = UA!Size
        BY <1>RxRing
      <3>2. UA!Contents' = [k \in 1 .. UA!Size + 1 |-> UA!Contents'[k]]
        BY <2>7 DEF UA!Contents
      <3> HIDE DEF UA!Size, UA!Contents
      <3> QED BY <2>3, <2>8, <3>1, <3>2
    <2>10. UA!Size > 0 => ua_data'[ua_read_ptr] = ua_data[ua_read_ptr]
      BY <2>1, <2>3, <2>5
    <2> QED BY <2>5, <2>6, <2>7, <2>9, <2>10

  \* The reader takes the first of the bytes that wait.
  <1>RxTakes.
    ASSUME UA!TypeOK, UA!Size >= 1, ua_read_ptr' = (ua_read_ptr + 1) % RxSize,
           UNCHANGED <<ua_data, ua_write_ptr>>
    PROVE  /\ ua_read_ptr' \in UA!Slots
           /\ UA!Size' = UA!Size - 1 /\ UA!Contents' = Tail(UA!Contents) /\ Head(UA!Contents) = ua_data[ua_read_ptr]
    <2> USE <1>RxTakes
    <2>1. /\ RxSize \in Nat /\ RxSize > 0 /\ ua_write_ptr \in 0 .. RxSize - 1
          /\ ua_read_ptr \in 0 .. RxSize - 1
      BY DEF UA!UartConstants, UA!TypeOK, UA!Slots
    <2> DEFINE n == RxSize
    <2>2. ua_read_ptr' = IF ua_read_ptr + 1 < n THEN ua_read_ptr + 1 ELSE 0
      <3>1. ua_read_ptr + 1 \in 0 .. n - 1 \/ ua_read_ptr + 1 \in n .. 2 * n - 1
        BY <2>1
      <3> QED BY <2>1, <3>1, <1>RxLaps
    <2>3. /\ UA!Size \in 0 .. n - 1
          /\ UA!Size = IF ua_write_ptr >= ua_read_ptr THEN ua_write_ptr - ua_read_ptr ELSE ua_write_ptr - ua_read_ptr + n
      BY <1>RxRing
    <2>4. UA!Size' = UA!Size - 1
      <3>1. ua_write_ptr - ua_read_ptr' \in 0 .. n - 1 \/ ua_write_ptr - ua_read_ptr' \in -n .. -1
        BY <2>1, <2>2
      <3>2. UA!Size' = IF ua_write_ptr >= ua_read_ptr' THEN ua_write_ptr - ua_read_ptr' ELSE ua_write_ptr - ua_read_ptr' + n
        BY <2>1, <2>2, <3>1, <1>RxLaps DEF UA!Size
      <3> QED BY <2>1, <2>2, <2>3, <3>2
    <2>5. ASSUME NEW k \in 1 .. UA!Size - 1
          PROVE  UA!Contents'[k] = UA!Contents[k + 1]
      <3> DEFINE at == IF ua_read_ptr + k < n THEN ua_read_ptr + k ELSE ua_read_ptr + k - n
      <3>1. ua_read_ptr' + k - 1 \in 0 .. n - 1 \/ ua_read_ptr' + k - 1 \in n .. 2 * n - 1
        BY <2>1, <2>2, <2>3
      <3>2. (ua_read_ptr' + k - 1) % n = at
        BY <2>1, <2>2, <2>3, <3>1, <1>RxLaps
      <3>3. UA!Contents'[k] = ua_data[at]
        BY <2>4, <3>2 DEF UA!Contents
      <3>4. k + 1 \in 1 .. UA!Size /\ ua_read_ptr + (k + 1) - 1 = ua_read_ptr + k
        BY <2>1, <2>3
      <3>5. UA!Contents[k + 1] = ua_data[IF ua_read_ptr + (k + 1) - 1 < n THEN ua_read_ptr + (k + 1) - 1
                                   ELSE ua_read_ptr + (k + 1) - 1 - n]
        BY <3>4, <1>RxRing
      <3> QED BY <3>3, <3>4, <3>5
    <2>6. UA!Contents \in Seq(Bytes \cup {UA!NoByte}) /\ Len(UA!Contents) = UA!Size
      BY <1>RxRing
    <2>7. UA!Contents' = Tail(UA!Contents)
      <3>1. UA!Contents' = [k \in 1 .. UA!Size - 1 |-> UA!Contents'[k]]
        BY <2>4 DEF UA!Contents
      <3> HIDE DEF UA!Size, UA!Contents
      <3> QED BY <2>3, <2>5, <2>6, <3>1
    <2>8. Head(UA!Contents) = ua_data[ua_read_ptr]
      <3>1. 1 \in 1 .. UA!Size /\ ua_read_ptr + 1 - 1 = ua_read_ptr /\ ua_read_ptr < n
        BY <2>1, <2>3
      <3>2. UA!Contents[1] = ua_data[ua_read_ptr]
        BY <3>1, <1>RxRing
      <3> QED BY <2>6, <3>2
    <2> QED BY <2>1, <2>2, <2>4, <2>7, <2>8 DEF UA!Slots

  \* Bytes that pass from the end of one sequence to the next, and a byte put at the end.
  <1>RxShifts.
    ASSUME NEW S, NEW d \in Seq(S), NEW c \in Seq(S), NEW b \in S
    PROVE  /\ d \o Append(c, b) = Append(d \o c, b)
           /\ c # <<>> => Append(d, Head(c)) \o Tail(c) = d \o c
    <2> USE <1>RxShifts
    <2>1. d \o Append(c, b) = Append(d \o c, b)
      OBVIOUS
    <2>2. c # <<>> => Append(d, Head(c)) \o Tail(c) = d \o c
      OBVIOUS
    <2> QED BY Zenon, <2>1, <2>2

  <1>UartInit. UA!Init => UA!UartInv
    <2> SUFFICES ASSUME UA!Init
                 PROVE  UA!UartInv
      OBVIOUS
    <2>1. UA!TypeOK
      <3>1. ua_data \in [UA!Slots -> Bytes \cup {UA!NoByte}] /\ ua_byte \in Bytes \cup {UA!NoByte}
        BY DEF UA!Init
      <3>2. 0 \in UA!Slots /\ 0 \in 0 .. TimeoutMs
        BY DEF UA!UartConstants, UA!Slots
      <3> QED BY <3>1, <3>2 DEF UA!Init, UA!TypeOK
    <2>2. UA!Size = 0
      BY <2>1, <1>RxRing DEF UA!Init
    <2>3. UA!Contents = <<>>
      BY <2>1, <2>2, <1>RxRing
    <2>4. UA!NothingLost /\ UA!NoOverflow
      BY <2>3 DEF UA!Init, UA!NothingLost, UA!NoOverflow
    <2>5. UA!Waiting /\ UA!Loaded
      BY <2>2 DEF UA!Init, UA!Waiting, UA!Loaded
    <2> QED BY <2>1, <2>4, <2>5 DEF UA!Init, UA!UartInv

  \* The handler, wherever it interrupts the reader.
  <1>HandlerKeeps.
    ASSUME UA!UartInv, UA!uart_isr
    PROVE  UA!UartInv'
    <2> USE <1>HandlerKeeps
    <2>1. ua_alarm /\ ua_alarm' = FALSE /\ UNCHANGED <<ua_read_ptr, ua_timeout_ms, ua_pc, ua_byte, ua_delivered>>
      BY DEF UA!uart_isr
    <2>2. CASE UNCHANGED <<ua_data, ua_write_ptr, ua_accepted, ua_overflow>>
      <3>1. UA!Size' = UA!Size /\ UA!Contents' = UA!Contents /\ UA!Size \in 0 .. RxSize - 1
        BY <2>1, <2>2, <1>RxRing DEF UA!Size, UA!Contents, UA!UartInv
      <3>2. UA!TypeOK'
        BY Zenon, <2>1, <2>2 DEF UA!UartInv, UA!TypeOK
      <3>3. UA!Waiting'
        BY <2>1, <3>1 DEF UA!UartInv, UA!Waiting, UA!Coming, UA!UartConstants
      <3> QED BY Zenon, <2>1, <2>2, <3>1, <3>2, <3>3 DEF UA!UartInv, UA!NothingLost,
                 UA!NoOverflow, UA!Loaded
    <2>3. ASSUME NEW b \in Bytes, UA!ring_buffer_write(b)
          PROVE  UA!UartInv'
      <3>1. UA!Size \in 0 .. RxSize - 1 /\ UA!Size + 1 <= 2 /\ RxSize \in Nat /\ RxSize >= 3
        BY <2>1, <1>RxRing DEF UA!UartInv, UA!TypeOK, UA!Waiting, UA!Coming, UA!UartConstants
      <3>2. /\ ua_data' \in [UA!Slots -> Bytes \cup {UA!NoByte}] /\ ua_write_ptr' \in UA!Slots
            /\ ua_overflow' = ua_overflow /\ ua_accepted' = Append(ua_accepted, b)
            /\ UA!Size' = UA!Size + 1 /\ UA!Contents' = Append(UA!Contents, b)
            /\ UA!Size > 0 => ua_data'[ua_read_ptr] = ua_data[ua_read_ptr]
        BY <2>1, <2>3, <3>1, <1>RxStores DEF UA!UartInv
      <3>3. UA!TypeOK'
        BY Zenon, <2>1, <3>2 DEF UA!UartInv, UA!TypeOK
      <3>4. UA!Contents \in Seq(Bytes \cup {UA!NoByte})
        BY <1>RxRing DEF UA!UartInv
      <3>5. UA!NothingLost' /\ ua_accepted' \in Seq(Bytes \cup {UA!NoByte})
        BY SMTT(30), <2>1, <3>2, <3>4, <1>RxShifts DEF UA!UartInv, UA!NothingLost
      <3>6. UA!Waiting'
        BY <2>1, <3>1, <3>2 DEF UA!UartInv, UA!Waiting, UA!Coming, UA!UartConstants
      <3>7. UA!Loaded'
        BY <2>1, <3>1, <3>2 DEF UA!UartInv, UA!Waiting, UA!Loaded
      <3> QED BY Zenon, <2>1, <3>2, <3>3, <3>5, <3>6, <3>7 DEF UA!UartInv, UA!NoOverflow
    <2> QED BY <2>2, <2>3 DEF UA!uart_isr

  \* The reader's steps other than the one that takes a byte.
  <1>ReaderKeeps.
    ASSUME UA!UartInv,
           UA!uart_init \/ UA!Call \/ UA!While \/ UA!Check \/ UA!Load \/ UA!Return \/ UNCHANGED UA!vars
    PROVE  UA!UartInv'
    <2> USE <1>ReaderKeeps
    <2>1. UNCHANGED <<UA!ring, ua_accepted, ua_delivered, ua_overflow>>
      BY Zenon DEF UA!uart_init, UA!Call, UA!While, UA!Check, UA!Load, UA!Return, UA!vars
    <2>2. UA!Size' = UA!Size /\ UA!Contents' = UA!Contents /\ UA!Size \in 0 .. RxSize - 1
      BY <2>1, <1>RxRing DEF UA!Size, UA!Contents, UA!UartInv, UA!ring
    <2>3. /\ RxSize \in Nat /\ TimeoutMs \in Nat /\ MsPerSecond \in Nat \ {0}
          /\ ua_timeout_ms \in 0 .. TimeoutMs
      BY DEF UA!UartConstants, UA!UartInv, UA!TypeOK
    <2>4. UA!TypeOK'
      <3>1. ua_data[ua_read_ptr] \in Bytes \cup {UA!NoByte}
        BY Zenon DEF UA!UartInv, UA!TypeOK
      <3>2. ua_timeout_ms' \in 0 .. TimeoutMs
        BY <2>3 DEF UA!uart_init, UA!Call, UA!While, UA!Check, UA!Load, UA!Return, UA!vars
      <3>3. ua_alarm' \in BOOLEAN
        <4>1. UA!Call => ua_alarm' \in BOOLEAN
          <5>1. (TimeoutMs \div MsPerSecond > 0) \in BOOLEAN
            BY SMTT(30)
          <5> QED BY <5>1, Zenon DEF UA!Call
        <4> QED BY Zenon, <4>1 DEF UA!uart_init, UA!While, UA!Check, UA!Load, UA!Return, UA!vars,
                   UA!UartInv, UA!TypeOK
      <3>4. ua_pc' \in {"init", "exit", "main", "while", "check", "load", "advance", "return"}
        BY Zenon DEF UA!uart_init, UA!Call, UA!While, UA!Check, UA!Load, UA!Return, UA!vars,
           UA!UartInv, UA!TypeOK
      <3>5. ua_byte' \in Bytes \cup {UA!NoByte}
        BY SMTT(30), <3>1 DEF UA!uart_init, UA!Call, UA!While, UA!Check, UA!Load, UA!Return,
           UA!vars, UA!UartInv, UA!TypeOK
      <3> QED BY <2>1, <3>2, <3>3, <3>4, <3>5 DEF UA!UartInv, UA!TypeOK, UA!ring
    <2>5. UA!Waiting'
      <3> USE <2>2, <2>3 DEF UA!UartInv, UA!Waiting, UA!Coming
      <3>1. CASE UA!uart_init
        BY Zenon, <3>1 DEF UA!uart_init
      <3>2. CASE UA!Call
        <4>1. ua_alarm' => TimeoutMs > 0
          <5>1. TimeoutMs \div MsPerSecond > 0 => TimeoutMs > 0
            <6>1. TimeoutMs = 0 => TimeoutMs \div MsPerSecond = 0
              BY SMTT(30)
            <6> QED BY <6>1
          <5> QED BY <3>2, <5>1, Zenon DEF UA!Call
        <4> QED BY <3>2, <4>1 DEF UA!Call
      <3>3. CASE UA!While
        BY SMTT(30), <3>3 DEF UA!While
      <3>4. CASE UA!Check
        <4>1. ua_read_ptr = ua_write_ptr <=> UA!Size = 0
          <5>1. ua_read_ptr \in Int /\ ua_write_ptr \in Int /\ ua_read_ptr < RxSize
            BY DEF UA!TypeOK, UA!Slots
          <5> QED BY <5>1, <1>RxRing DEF UA!TypeOK, UA!Slots
        <4> QED BY SMTT(30), <3>4, <4>1 DEF UA!Check, UA!ring
      <3>5. CASE UA!Load
        BY Zenon, <3>5 DEF UA!Load
      <3>6. CASE UA!Return
        BY SMTT(30), <3>6 DEF UA!Return
      <3>7. CASE UNCHANGED UA!vars
        BY Zenon, <3>7 DEF UA!vars
      <3> QED BY Zenon, <3>1, <3>2, <3>3, <3>4, <3>5, <3>6, <3>7
    <2>6. UA!Loaded'
      BY <2>1 DEF UA!uart_init, UA!Call, UA!While, UA!Check, UA!Load, UA!Return, UA!vars,
         UA!UartInv, UA!Loaded, UA!ring
    <2> QED BY Zenon, <2>1, <2>2, <2>4, <2>5, <2>6 DEF UA!UartInv, UA!NothingLost, UA!NoOverflow

  <1>UartNext. UA!UartInv /\ [UA!Next]_(UA!vars) => UA!UartInv'
    <2> SUFFICES ASSUME UA!UartInv, [UA!Next]_(UA!vars)
                 PROVE  UA!UartInv'
      OBVIOUS
    <2>1. CASE UA!Advance
      <3>1. /\ UA!Size >= 1 /\ UA!Size \in Nat /\ ua_byte = ua_data[ua_read_ptr]
            /\ UA!Contents \in Seq(Bytes \cup {UA!NoByte}) /\ Len(UA!Contents) = UA!Size
        BY <2>1, <1>RxRing DEF UA!Advance, UA!UartInv, UA!Waiting, UA!Loaded
      <3>2. /\ ua_read_ptr' \in UA!Slots /\ UA!Size' = UA!Size - 1
            /\ UA!Contents' = Tail(UA!Contents) /\ Head(UA!Contents) = ua_data[ua_read_ptr]
        BY Zenon, <2>1, <3>1, <1>RxTakes DEF UA!Advance, UA!UartInv
      <3>3. UA!TypeOK'
        BY <2>1, <3>2 DEF UA!Advance, UA!UartInv, UA!TypeOK
      <3>4. UA!NothingLost'
        <4>1. UA!Contents # <<>>
          BY <3>1
        <4> QED BY <2>1, <3>1, <3>2, <4>1, <1>RxShifts DEF UA!Advance, UA!UartInv, UA!NothingLost
      <3>5. ua_delivered' \in Seq(Bytes \cup {UA!NoByte}) /\ ua_accepted' \in Seq(Bytes \cup {UA!NoByte})
        BY SMTT(30), <2>1 DEF UA!Advance, UA!UartInv, UA!TypeOK
      <3>6. UA!Waiting'
        BY <2>1, <3>1, <3>2 DEF UA!Advance, UA!UartInv, UA!Waiting, UA!Coming
      <3> QED BY Zenon, <2>1, <3>3, <3>4, <3>5, <3>6 DEF UA!Advance, UA!UartInv, UA!NoOverflow,
                 UA!Loaded
    <2> QED BY <2>1, <1>HandlerKeeps, <1>ReaderKeeps DEF UA!Next, UA!Reader

  <1> QED BY Zenon, <1>UartInit, <1>UartNext

\* uart.c, for every ring of three slots or more, every timeout and every moment at
\* which the handler interrupts the reader: the reader gets the bytes that the handler
\* stored, in order and once each, and no byte is dropped.
THEOREM UartIsRight ==
    ASSUME UA!UartConstants
    PROVE  UA!Init /\ [][UA!Next]_(UA!vars) => [](UA!TypeOK /\ UA!NothingLost /\ UA!NoOverflow)
  <1>1. UA!UartInv => UA!TypeOK /\ UA!NothingLost /\ UA!NoOverflow
    BY DEF UA!UartInv
  <1>2. (UA!Init => UA!UartInv) /\ (UA!UartInv /\ [UA!Next]_(UA!vars) => UA!UartInv')
    BY Zenon, UartInductive
  <1> QED BY <1>1, <1>2, PTL
-----------------------------------------------------------------------------
(***************************************************************************)
(* serverSide.c and clientSide.c, for any finite set of clients and number *)
(* of slots.                                                               *)
(***************************************************************************)
CONSTANTS Clients, MaxClients, Messages, MaxTyped
VARIABLES ss_client_socket, ss_readfds, ss_pc, ss_i, ss_fd, ss_backlog, ss_up,
          ss_down, ss_at, ss_message, ss_lines

SS == INSTANCE SelectServer WITH
        MaxLines <- MaxTyped, client_socket <- ss_client_socket,
        readfds <- ss_readfds, pc <- ss_pc, i <- ss_i, fd <- ss_fd,
        backlog <- ss_backlog, up <- ss_up, down <- ss_down, at <- ss_at,
        message <- ss_message, lines <- ss_lines

ASSUME SelectAssumption == SS!SelectConstants

\* The select server: slots hold the sockets of their clients, and what is on its way
\* is what the client sent.
LEMMA SelectInductive ==
    ASSUME SetFacts, SS!SelectConstants
    PROVE  /\ SS!Init => SS!SelectInv
           /\ SS!SelectInv /\ [SS!Next]_(SS!vars) => SS!SelectInv'
  <1>SelectStart. SS!Init => SS!SelectInv
    <2> SUFFICES ASSUME SS!Init
                 PROVE  SS!SelectInv
      OBVIOUS
    <2>1. SS!Types
      BY SMTT(30) DEF SS!SelectConstants, SS!Init, SS!Types, SS!Lines
    <2> QED BY <2>1 DEF SS!Init, SS!SelectInv, SS!OwnSocket, SS!SentOnce, SS!SlotsAreLive,
               SS!EchoesOwn

  \* Waiting for a descriptor that is ready.
  <1>SelectKeeps.
    ASSUME SS!SelectInv, SS!select \/ UNCHANGED SS!vars
    PROVE  SS!SelectInv'
    <2> USE <1>SelectKeeps
    <2>1. UNCHANGED <<ss_client_socket, ss_i, ss_fd, ss_backlog, ss_up, ss_down, ss_at, ss_message, ss_lines>>
      BY Zenon DEF SS!select, SS!vars, SS!server
    <2>2. ss_readfds' \subseteq Nat \ {0} /\ ss_pc' \in {"select", "accept", "serve"} /\ (ss_pc' = "serve" => ss_i \in SS!Slots)
      <3>1. CASE SS!select
        <4>1. \A s \in SS!Slots : ss_client_socket[s] > 0 => ss_client_socket[s] \in Nat \ {0}
          BY DEF SS!SelectInv, SS!Types
        <4>2. SS!Master \in Nat \ {0}
          BY SMTT(30) DEF SS!Master
        <4>3. ss_readfds' \subseteq {SS!Master} \cup {ss_client_socket[s] : s \in {s \in SS!Slots : ss_client_socket[s] > 0}}
          BY Zenon, <3>1 DEF SS!select
        <4>4. ss_pc' \in {"select", "accept", "serve"} /\ (ss_pc' = "serve" => ss_i \in SS!Slots)
          BY Zenon, <3>1 DEF SS!select
        <4>5. ss_readfds' \subseteq Nat \ {0}
          BY Zenon, <4>1, <4>2, <4>3
        <4> QED BY Zenon, <4>4, <4>5
      <3>2. CASE UNCHANGED SS!vars
        BY Zenon, <3>2 DEF SS!vars, SS!server, SS!SelectInv, SS!Types
      <3> QED BY SMTT(30), <3>1, <3>2
    <2>3. SS!Types'
      BY <2>1, <2>2 DEF SS!SelectInv, SS!Types
    <2>4. SS!OwnSocket' /\ SS!SlotsAreLive'
      BY Zenon, <2>1 DEF SS!SelectInv, SS!OwnSocket, SS!SlotsAreLive
    <2>5. SS!SentOnce' /\ SS!EchoesOwn'
      BY Zenon, <2>1 DEF SS!SelectInv, SS!SentOnce, SS!EchoesOwn
    <2> QED BY Zenon, <2>3, <2>4, <2>5 DEF SS!SelectInv

  \* A new client gets a socket of its own, in a slot of its own if there is one.
  <1>AcceptKeeps.
    ASSUME SS!SelectInv, SS!Allocates, SS!accept
    PROVE  SS!SelectInv'
    <2> USE <1>AcceptKeeps
    <2>1. /\ UNCHANGED <<ss_readfds, ss_up, ss_down, ss_at, ss_message, ss_lines>> /\ ss_pc' = "serve" /\ ss_i' = 0
          /\ 0 \in SS!Slots /\ 0 \in 0 .. MaxClients
      BY SMTT(30) DEF SS!accept, SS!SelectConstants, SS!Slots
    <2>2. CASE SS!Master \notin ss_readfds
      <3>1. UNCHANGED <<ss_fd, ss_backlog, ss_client_socket>>
        BY Zenon, <2>2 DEF SS!accept
      <3> QED BY SMTT(30), <2>1, <3>1 DEF SS!SelectInv, SS!Types, SS!OwnSocket, SS!SentOnce,
                 SS!SlotsAreLive, SS!EchoesOwn
    <2>3. CASE SS!Master \in ss_readfds
      <3> DEFINE n == SS!Lowest({m \in SS!Sockets : \A c \in Clients : ss_fd[c] # m})
      <3>1. n \in SS!Sockets /\ \A c \in Clients : ss_fd[c] # n
        BY Zenon DEF SS!Allocates
      <3>2. /\ \E c \in ss_backlog : ss_fd' = [ss_fd EXCEPT ![c] = n] /\ ss_backlog' = ss_backlog \ {c}
            /\ ss_client_socket' = SS!Store(n)
        BY Zenon, <2>3 DEF SS!accept, SS!Sockets
      <3> HIDE DEF n
      <3>3. n \in Nat \ {0}
        BY <3>1 DEF SS!Sockets
      <3>4. PICK c \in ss_backlog : ss_fd' = [ss_fd EXCEPT ![c] = n] /\ ss_backlog' = ss_backlog \ {c}
        BY Zenon, <3>2
      <3>5. /\ c \in Clients /\ ss_fd[c] = 0 /\ ss_fd'[c] = n
            /\ \A d \in Clients : d # c => ss_fd'[d] = ss_fd[d]
        BY Zenon, <3>4 DEF SS!SelectInv, SS!Types, SS!OwnSocket
      <3>6. \A s \in SS!Slots : ss_client_socket[s] \in Nat /\ ss_client_socket[s] # n
        BY <3>1, <3>3 DEF SS!SelectInv, SS!Types, SS!SlotsAreLive
      <3>7. \/ ss_client_socket' = ss_client_socket
            \/ \E t \in SS!Slots : ss_client_socket' = [ss_client_socket EXCEPT ![t] = n] /\ ss_client_socket[t] = 0
        <4> DEFINE free == {s \in SS!Slots : ss_client_socket[s] = 0}
        <4>1. CASE free = {}
          BY <3>2, <4>1 DEF SS!Store
        <4>2. CASE free # {}
          <5>1. SS!Lowest(free) \in free
            BY Zenon, <4>2 DEF SS!Allocates
          <5>2. ss_client_socket' = [ss_client_socket EXCEPT ![SS!Lowest(free)] = n]
            BY Zenon, <3>2, <4>2 DEF SS!Store
          <5> QED BY Zenon, <5>1, <5>2
        <4> QED BY <4>1, <4>2
      <3>8. ss_client_socket' \in [SS!Slots -> Nat]
        BY Zenon, <3>3, <3>7 DEF SS!SelectInv, SS!Types
      <3>9. ss_fd' \in [Clients -> {0} \cup SS!Sockets] /\ ss_backlog' \subseteq Clients
        BY Zenon, <3>1, <3>4 DEF SS!SelectInv, SS!Types
      <3>10. SS!Types'
        BY Zenon, <2>1, <3>8, <3>9 DEF SS!SelectInv, SS!Types
      <3>11. SS!OwnSocket'
        <4>1. \A d \in Clients : d \in ss_backlog' => d \in ss_backlog /\ d # c
          BY Zenon, <3>4
        <4>2. ss_at[c] # "start"
          BY Zenon, <3>4, <3>5 DEF SS!SelectInv, SS!OwnSocket
        <4>3. ASSUME NEW d \in Clients, NEW e \in Clients, ss_fd'[d] # 0, ss_fd'[d] = ss_fd'[e]
              PROVE  d = e
          BY Zenon, <3>1, <3>5, <4>3 DEF SS!SelectInv, SS!OwnSocket
        <4>4. ASSUME NEW d \in Clients, d \in ss_backlog' \/ ss_at'[d] = "start"
              PROVE  ss_fd'[d] = 0 /\ (ss_at'[d] = "start" => d \notin ss_backlog')
          BY Zenon, <2>1, <3>5, <4>1, <4>2, <4>4 DEF SS!SelectInv, SS!OwnSocket
        <4> QED BY <4>3, <4>4 DEF SS!OwnSocket
      <3>12. SS!SlotsAreLive'
        <4>1. ASSUME NEW s \in SS!Slots, ss_client_socket'[s] # 0
              PROVE  \E d \in Clients : ss_fd'[d] = ss_client_socket'[s]
          <5>1. CASE ss_client_socket'[s] = n
            BY Zenon, <3>5, <5>1
          <5>2. CASE ss_client_socket'[s] # n
            <6>1. ss_client_socket'[s] = ss_client_socket[s]
              BY Zenon, <3>7, <5>2 DEF SS!SelectInv, SS!Types
            <6>2. PICK d \in Clients : ss_fd[d] = ss_client_socket[s]
              BY Zenon, <4>1, <6>1 DEF SS!SelectInv, SS!SlotsAreLive
            <6>3. d # c
              BY Zenon, <3>5, <4>1, <6>1, <6>2
            <6> QED BY Zenon, <3>5, <6>1, <6>2, <6>3
          <5> QED BY Zenon, <5>1, <5>2
        <4>2. ASSUME NEW s \in SS!Slots, NEW u \in SS!Slots, s # u, ss_client_socket'[s] # 0
              PROVE  ss_client_socket'[s] # ss_client_socket'[u]
          <5>1. CASE ss_client_socket' = ss_client_socket
            BY Zenon, <4>2, <5>1 DEF SS!SelectInv, SS!SlotsAreLive
          <5>2. ASSUME NEW r \in SS!Slots, ss_client_socket' = [ss_client_socket EXCEPT ![r] = n]
                PROVE  ss_client_socket'[s] # ss_client_socket'[u]
            <6>1. \A x \in SS!Slots : ss_client_socket'[x] = IF x = r THEN n ELSE ss_client_socket[x]
              BY <5>2 DEF SS!SelectInv, SS!Types
            <6> QED BY Zenon, <3>6, <4>2, <6>1 DEF SS!SelectInv, SS!SlotsAreLive
          <5> QED BY <3>7, <5>1, <5>2
        <4> QED BY Zenon, <4>1, <4>2 DEF SS!SlotsAreLive
      <3> QED BY Zenon, <2>1, <3>10, <3>11, <3>12 DEF SS!SelectInv, SS!SentOnce, SS!EchoesOwn
    <2> QED BY Zenon, <2>2, <2>3

  \* A slot is served: its client is answered, or cleaned up.
  <1>ServeKeeps.
    ASSUME SS!SelectInv, SS!serve
    PROVE  SS!SelectInv'
    <2> USE <1>ServeKeeps
    <2>1. /\ ss_pc = "serve" /\ ss_i \in SS!Slots /\ MaxClients \in Nat /\ ss_i' = ss_i + 1
          /\ ss_pc' = (IF ss_i' = MaxClients THEN "select" ELSE "serve")
          /\ UNCHANGED <<ss_readfds, ss_backlog, ss_at, ss_message, ss_lines>>
      BY DEF SS!serve, SS!SelectInv, SS!Types, SS!SelectConstants
    <2>2. /\ ss_i' \in 0 .. MaxClients /\ ss_pc' \in {"select", "accept", "serve"}
          /\ (ss_pc' = "serve" => ss_i' \in SS!Slots)
      BY SMTT(30), <2>1 DEF SS!Slots
    <2>3. CASE ss_client_socket[ss_i] \notin ss_readfds
      <3>1. UNCHANGED <<ss_up, ss_down, ss_fd, ss_client_socket>>
        BY Zenon, <2>3 DEF SS!serve
      <3>2. SS!Types'
        BY <2>1, <2>2, <3>1 DEF SS!SelectInv, SS!Types
      <3> QED BY Zenon, <2>1, <3>1, <3>2 DEF SS!SelectInv, SS!OwnSocket, SS!SentOnce,
                 SS!SlotsAreLive, SS!EchoesOwn
    <2>4. CASE ss_client_socket[ss_i] \in ss_readfds
      <3> DEFINE sd == ss_client_socket[ss_i]
                 c == SS!Of(sd)
      <3>1. sd # 0 /\ c \in Clients /\ ss_fd[c] = sd
        <4>1. sd # 0
          BY <2>4 DEF SS!SelectInv, SS!Types
        <4>2. \E d \in Clients : ss_fd[d] = sd
          BY Zenon, <2>1, <4>1 DEF SS!SelectInv, SS!SlotsAreLive
        <4> QED BY <4>1, <4>2 DEF SS!Of
      <3>2. /\ ss_up' = [ss_up EXCEPT ![c] = SS!None]
            /\ \/ /\ ss_up[c] = SS!Eof /\ ss_fd' = [ss_fd EXCEPT ![c] = 0]
                  /\ ss_client_socket' = [ss_client_socket EXCEPT ![ss_i] = 0] /\ UNCHANGED ss_down
               \/ /\ ss_up[c] # SS!Eof /\ ss_down' = [ss_down EXCEPT ![c] = ss_up[c]]
                  /\ UNCHANGED <<ss_fd, ss_client_socket>>
        BY Zenon, <2>4 DEF SS!serve, SS!Echo, SS!Clear
      <3> HIDE DEF c
      <3>3. ss_up[c] \in SS!Lines /\ SS!None \in SS!Lines /\ 0 \in Nat
        BY <3>1 DEF SS!SelectInv, SS!Types, SS!Lines
      <3>4. ss_up' \in [Clients -> SS!Lines] /\ ss_down' \in [Clients -> SS!Lines]
        BY Zenon, <3>2, <3>3 DEF SS!SelectInv, SS!Types
      <3>5. ss_client_socket' \in [SS!Slots -> Nat] /\ ss_fd' \in [Clients -> {0} \cup SS!Sockets]
        BY SMTT(30), <3>2 DEF SS!SelectInv, SS!Types
      <3>6. SS!Types'
        BY Zenon, <2>1, <2>2, <3>4, <3>5 DEF SS!SelectInv, SS!Types
      <3>7. /\ ss_up'[c] = SS!None /\ \A d \in Clients : d # c => ss_up'[d] = ss_up[d] /\ ss_down'[d] = ss_down[d]
            /\ ss_up[c] # SS!Eof => ss_down'[c] = ss_up[c]
            /\ ss_up[c] = SS!Eof => ss_down'[c] = ss_down[c]
        BY Zenon, <3>1, <3>2 DEF SS!SelectInv, SS!Types
      <3>8. SS!SentOnce'
        BY Zenon, <2>1, <3>7 DEF SS!SelectInv, SS!SentOnce
      <3>9. SS!EchoesOwn'
        <4> SUFFICES ASSUME NEW d \in Clients, ss_down'[d] # SS!None
                     PROVE  ss_at[d] = "read" /\ ss_down'[d] = ss_message[d]
          BY Zenon, <2>1 DEF SS!EchoesOwn
        <4>1. CASE ss_down'[d] = ss_down[d]
          BY Zenon, <4>1 DEF SS!SelectInv, SS!EchoesOwn
        <4>2. CASE ss_down'[d] # ss_down[d]
          <5>1. d = c /\ ss_up[c] # SS!Eof /\ ss_down'[c] = ss_up[c]
            BY Zenon, <3>7, <4>2
          <5> QED BY Zenon, <3>1, <5>1 DEF SS!SelectInv, SS!SentOnce
        <4> QED BY Zenon, <4>1, <4>2
      <3>10. \A d \in Clients : ss_fd'[d] = ss_fd[d] \/ (d = c /\ ss_fd'[d] = 0)
        BY Zenon, <3>2 DEF SS!SelectInv, SS!Types
      <3>11. SS!OwnSocket'
        BY Zenon, <2>1, <3>10 DEF SS!SelectInv, SS!OwnSocket
      <3>12. SS!SlotsAreLive'
        <4>1. CASE UNCHANGED <<ss_fd, ss_client_socket>>
          BY <4>1 DEF SS!SelectInv, SS!SlotsAreLive
        <4>2. CASE ss_client_socket' = [ss_client_socket EXCEPT ![ss_i] = 0]
          <5>1. \A s \in SS!Slots : ss_client_socket'[s] = IF s = ss_i THEN 0 ELSE ss_client_socket[s]
            BY Zenon, <4>2 DEF SS!SelectInv, SS!Types
          <5>2. ASSUME NEW s \in SS!Slots, ss_client_socket'[s] # 0
                PROVE  \E d \in Clients : ss_fd'[d] = ss_client_socket'[s]
            <6>1. s # ss_i /\ ss_client_socket[s] # 0 /\ ss_client_socket'[s] = ss_client_socket[s]
              BY Zenon, <5>1, <5>2
            <6>2. PICK d \in Clients : ss_fd[d] = ss_client_socket[s]
              BY Zenon, <6>1 DEF SS!SelectInv, SS!SlotsAreLive
            <6>3. ss_client_socket[s] # sd
              BY SMTT(30), <2>1, <6>1 DEF SS!SelectInv, SS!SlotsAreLive
            <6> QED BY Zenon, <3>1, <3>10, <6>1, <6>2, <6>3
          <5>3. ASSUME NEW s \in SS!Slots, NEW u \in SS!Slots, s # u, ss_client_socket'[s] # 0
                PROVE  ss_client_socket'[s] # ss_client_socket'[u]
            BY Zenon, <5>1, <5>3 DEF SS!SelectInv, SS!SlotsAreLive
          <5> QED BY Zenon, <5>2, <5>3 DEF SS!SlotsAreLive
        <4> QED BY Zenon, <3>2, <4>1, <4>2
      <3> QED BY Zenon, <3>6, <3>8, <3>9, <3>11, <3>12 DEF SS!SelectInv
    <2> QED BY Zenon, <2>3, <2>4

  \* A client connects, its user types a line or closes it, or it reads its answer.
  <1>ClientKeeps.
    ASSUME SS!SelectInv, NEW c \in Clients, SS!Client(c)
    PROVE  SS!SelectInv'
    <2> USE <1>ClientKeeps
    <2>1. UNCHANGED <<SS!server, ss_fd>>
      BY DEF SS!Client, SS!connect, SS!type_line, SS!read_reply
    <2>2. SS!SlotsAreLive'
      BY <2>1 DEF SS!SelectInv, SS!SlotsAreLive, SS!server
    <2>3. SS!None \in SS!Lines /\ SS!Eof \in SS!Lines /\ Messages \subseteq SS!Lines /\ SS!None # SS!Eof
      BY DEF SS!Lines, SS!None, SS!Eof
    <2>4. CASE SS!connect(c)
      <3>1. /\ ss_at' = [ss_at EXCEPT ![c] = "prompt"] /\ ss_backlog' = ss_backlog \cup {c} /\ ss_at[c] = "start"
            /\ UNCHANGED <<ss_up, ss_down, ss_message, ss_lines>>
        BY Zenon, <2>4 DEF SS!connect
      <3>2. SS!Types'
        BY Zenon, <2>1, <3>1 DEF SS!SelectInv, SS!Types, SS!server
      <3>3. ss_at'[c] = "prompt" /\ \A d \in Clients : d # c => ss_at'[d] = ss_at[d]
        BY Zenon, <3>1 DEF SS!SelectInv, SS!Types
      <3>4. SS!OwnSocket'
        BY SMTT(30), <2>1, <3>1, <3>3 DEF SS!SelectInv, SS!OwnSocket
      <3>5. SS!SentOnce' /\ SS!EchoesOwn'
        BY Zenon, <3>1, <3>3 DEF SS!SelectInv, SS!SentOnce, SS!EchoesOwn, SS!None, SS!Eof
      <3> QED BY Zenon, <2>2, <3>2, <3>4, <3>5 DEF SS!SelectInv
    <2>5. CASE SS!type_line(c)
      <3>1. /\ ss_at[c] = "prompt" /\ UNCHANGED <<ss_backlog, ss_down>>
            /\ \/ /\ ss_at' = [ss_at EXCEPT ![c] = "closed"] /\ ss_up' = [ss_up EXCEPT ![c] = SS!Eof]
                  /\ UNCHANGED ss_message
               \/ \E m \in Messages \cup {SS!None} :
                     /\ ss_at' = [ss_at EXCEPT ![c] = "read"] /\ ss_message' = [ss_message EXCEPT ![c] = m]
                     /\ ss_up' = [ss_up EXCEPT ![c] = m]
        BY Zenon, <2>5 DEF SS!type_line
      <3>2. SS!Types'
        BY SMTT(30), <2>1, <2>3, <3>1 DEF SS!SelectInv, SS!Types, SS!server
      <3>3. \A d \in Clients : d # c => ss_at'[d] = ss_at[d] /\ ss_up'[d] = ss_up[d] /\ ss_message'[d] = ss_message[d]
        BY Zenon, <3>1 DEF SS!SelectInv, SS!Types
      <3>4. ss_down[c] = SS!None
        BY Zenon, <3>1 DEF SS!SelectInv, SS!EchoesOwn
      <3>5. /\ ss_at'[c] \in {"closed", "read"}
            /\ ss_up'[c] # SS!None => IF ss_up'[c] = SS!Eof THEN ss_at'[c] = "closed" ELSE ss_at'[c] = "read" /\ ss_up'[c] = ss_message'[c]
        BY Zenon, <2>3, <3>1 DEF SS!SelectInv, SS!Types, SS!SelectConstants
      <3>6. SS!OwnSocket'
        BY Zenon, <2>1, <3>1, <3>3, <3>5 DEF SS!SelectInv, SS!OwnSocket
      <3>7. SS!SentOnce'
        BY Zenon, <3>1, <3>3, <3>4, <3>5 DEF SS!SelectInv, SS!SentOnce, SS!None, SS!Eof
      <3>8. SS!EchoesOwn'
        BY Zenon, <3>1, <3>3, <3>4 DEF SS!SelectInv, SS!EchoesOwn
      <3> QED BY <2>2, <3>2, <3>6, <3>7, <3>8 DEF SS!SelectInv
    <2>6. CASE SS!read_reply(c)
      <3>1. /\ ss_at[c] = "read" /\ ss_down[c] # SS!None /\ ss_at' = [ss_at EXCEPT ![c] = "prompt"]
            /\ ss_down' = [ss_down EXCEPT ![c] = SS!None] /\ UNCHANGED <<ss_backlog, ss_up, ss_message, ss_lines>>
        BY Zenon, <2>6 DEF SS!read_reply
      <3>2. SS!Types'
        BY Zenon, <2>1, <2>3, <3>1 DEF SS!SelectInv, SS!Types, SS!server
      <3>3. /\ ss_at'[c] = "prompt" /\ ss_down'[c] = SS!None
            /\ \A d \in Clients : d # c => ss_at'[d] = ss_at[d] /\ ss_down'[d] = ss_down[d]
        BY SMTT(30), <3>1 DEF SS!SelectInv, SS!Types
      <3>4. ss_up[c] = SS!None
        BY Zenon, <3>1 DEF SS!SelectInv, SS!SentOnce
      <3>5. SS!OwnSocket'
        BY Zenon, <2>1, <3>1, <3>3 DEF SS!SelectInv, SS!OwnSocket
      <3>6. SS!SentOnce' /\ SS!EchoesOwn'
        BY <3>1, <3>3, <3>4 DEF SS!SelectInv, SS!SentOnce, SS!EchoesOwn, SS!None, SS!Eof
      <3> QED BY <2>2, <3>2, <3>5, <3>6 DEF SS!SelectInv
    <2> QED BY Zenon, <2>4, <2>5, <2>6 DEF SS!Client

  \* Every step keeps the invariant, if accept finds a descriptor.
  <1>SelectStep. SS!SelectInv /\ SS!Allocates /\ [SS!Next]_(SS!vars) => SS!SelectInv'
    BY Zenon, <1>SelectKeeps, <1>AcceptKeeps, <1>ServeKeeps, <1>ClientKeeps DEF SS!Next, SS!Server

  \* Clients are counted as sets are here.
  <1>SelectSizes.
    \A S : (SS!IsFiniteSet(S) <=> IsFiniteSet(S)) /\ SS!Cardinality(S) = Cardinality(S)
    BY DEF SS!IsFiniteSet, IsFiniteSet, SS!Cardinality, Cardinality

  \* The smallest element of a set is in it.
  <1>MinIsIn.
    ASSUME NEW S, S \subseteq Nat, S # {}
    PROVE  SS!Lowest(S) \in S
    <2> USE <1>MinIsIn
    <2>1. \E n \in S : \A m \in S : n <= m
      BY Zenon DEF SetFacts, Smallest
    <2> QED BY Zenon, <2>1 DEF SS!Lowest

  \* accept finds a descriptor that is not in use, as there is one more than clients,
  \* and the search for a free slot finds one if there is one.
  <1>SocketIsFree.
    ASSUME SS!Types
    PROVE  SS!Allocates
    <2> USE <1>SocketIsFree
    <2> DEFINE S == {m \in SS!Sockets : \A c \in Clients : ss_fd[c] # m}
    <2>1. SS!Cardinality(Clients) \in Nat
      BY SMTT(30), <1>SelectSizes DEF SetFacts, Counts, SS!SelectConstants
    <2>2. SS!IsFiniteSet(SS!Sockets) /\ SS!Cardinality(SS!Sockets) = SS!Cardinality(Clients) + 1
      <3> DEFINE N == SS!Cardinality(Clients)
      <3>1. N \in Nat
        BY <2>1
      <3> HIDE DEF N
      <3>2. PICK a, b \in Int : a = 4 /\ b = 4 + N
        BY <3>1
      <3>3. SS!IsFiniteSet(a .. b) /\ SS!Cardinality(a .. b) = IF a > b THEN 0 ELSE b - a + 1
        BY <1>SelectSizes, Zenon DEF SetFacts, Intervals
      <3>4. SS!Sockets = a .. b
        BY <3>2 DEF SS!Sockets, N
      <3>5. (IF a > b THEN 0 ELSE b - a + 1) = N + 1
        BY SMTT(30), <3>1, <3>2
      <3> QED BY SMTT(30), <3>3, <3>4, <3>5 DEF N
    <2>3. S # {}
      <3> SUFFICES ASSUME S = {}
                   PROVE  FALSE
        OBVIOUS
      <3> DEFINE g == [m \in SS!Sockets |-> CHOOSE c \in Clients : ss_fd[c] = m]
      <3>1. \A m \in SS!Sockets : \E c \in Clients : ss_fd[c] = m
        OBVIOUS
      <3>2. \A m \in SS!Sockets : g[m] \in Clients /\ ss_fd[g[m]] = m
        BY <3>1
      <3>3. g \in [SS!Sockets -> Clients]
        BY Zenon, <3>2
      <3> HIDE DEF g
      <3>4. SS!Cardinality(Clients) < SS!Cardinality(SS!Sockets)
        BY SMTT(30), <2>1, <2>2
      <3>5. \E x, y \in SS!Sockets : x # y /\ g[x] = g[y]
        BY SMTT(30), <2>2, <3>3, <3>4, <1>SelectSizes DEF SetFacts, PigeonHole, SS!SelectConstants
      <3> QED BY SMTT(30), <3>2, <3>5
    <2>4. S \subseteq Nat
      BY <2>1 DEF SS!Sockets
    <2>5. SS!Lowest(S) \in S
      BY SMTT(30), <2>3, <2>4, <1>MinIsIn
    <2>6. {s \in SS!Slots : ss_client_socket[s] = 0} \subseteq Nat
      BY DEF SS!Slots, SS!SelectConstants
    <2> QED BY Zenon, <2>5, <2>6, <1>MinIsIn DEF SS!Allocates

  \* And so every step keeps the invariant.
  <1>SelectNext. SS!SelectInv /\ [SS!Next]_(SS!vars) => SS!SelectInv'
    BY Zenon, <1>SocketIsFree, <1>SelectStep DEF SS!SelectInv

  <1> QED BY Zenon, <1>SelectStart, <1>SelectNext
-----------------------------------------------------------------------------
(***************************************************************************)
(* sh.c, for any number of commands, pipe capacity and amounts of data.    *)
(***************************************************************************)
CONSTANTS MaxCommands, Reads, Writes, PipeCapacity, MaxShellLines
VARIABLES sh_phase, sh_lines, sh_num_commands, sh_i, sh_status, sh_want_in,
          sh_want_out, sh_ends, sh_pipe

SH == INSTANCE Shell WITH
        MaxLines <- MaxShellLines, phase <- sh_phase, lines <- sh_lines,
        num_commands <- sh_num_commands, i <- sh_i, status <- sh_status,
        want_in <- sh_want_in, want_out <- sh_want_out, ends <- sh_ends,
        pipe <- sh_pipe

ASSUME ShellAssumption == SH!ShellConstants

LEMMA ShellStart == SH!ShellConstants /\ SH!Init => SH!ShellInv
  <1> SUFFICES ASSUME SH!ShellConstants, SH!Init
               PROVE  SH!ShellInv
    BY Zenon
  <1>1. SH!TypeOK
    BY SMTT(30) DEF SH!ShellConstants, SH!Init, SH!TypeOK
  <1> QED BY <1>1 DEF SH!ShellConstants, SH!Init, SH!ShellInv, SH!OnlyWriter, SH!PromptIsClean,
             SH!ShellEnds

\* The fork of command i.
LEMMA SpawnKeeps ==
    ASSUME SH!ShellConstants, SH!ShellInv, SH!Spawn
    PROVE  SH!ShellInv'
  <1>1. /\ MaxCommands \in Nat /\ sh_num_commands \in 0 .. MaxCommands /\ sh_i \in 1 .. MaxCommands + 1
        /\ sh_i <= sh_num_commands /\ sh_phase = "spawn" /\ DOMAIN sh_ends = 0 .. MaxCommands
        /\ sh_ends[0] \subseteq {SH!ReadEnd(sh_i - 1)}
    BY Zenon DEF SH!ShellConstants, SH!ShellInv, SH!TypeOK, SH!Spawn, SH!ShellEnds
  <1>2. sh_i \in 1 .. MaxCommands /\ 0 \in 0 .. MaxCommands /\ sh_i # 0
    BY <1>1
  <1>3. PICK r \in Reads, w \in Writes : sh_want_in' = [sh_want_in EXCEPT ![sh_i] = r] /\ sh_want_out' = [sh_want_out EXCEPT ![sh_i] = w]
    BY Zenon DEF SH!Spawn, SH!execute_command
  <1> DEFINE mine == (sh_ends[0] \cup SH!NewEnds) \ SH!Closed
             its == sh_ends[0] \cup SH!NewEnds
  <1>4. sh_ends' = [sh_ends EXCEPT ![0] = mine, ![sh_i] = its]
    BY Zenon DEF SH!Spawn, SH!execute_command
  <1>5. mine \subseteq (IF sh_i < sh_num_commands THEN {SH!ReadEnd(sh_i)} ELSE {})
    BY Zenon, <1>1 DEF SH!NewEnds, SH!Closed, SH!ReadEnd, SH!WriteEnd
  <1>6. \A k \in SH!Pipes : SH!WriteEnd(k) \in its => k = sh_i
    BY Zenon, <1>1 DEF SH!NewEnds, SH!ReadEnd, SH!WriteEnd
  <1>7. its \subseteq {SH!ReadEnd(k) : k \in SH!Pipes} \cup {SH!WriteEnd(k) : k \in SH!Pipes}
    <2>1. sh_i < sh_num_commands => sh_i \in SH!Pipes
      BY SMTT(30), <1>1 DEF SH!Pipes
    <2>2. sh_ends[0] \subseteq {SH!ReadEnd(k) : k \in SH!Pipes} \cup {SH!WriteEnd(k) : k \in SH!Pipes}
      BY <1>2 DEF SH!ShellInv, SH!TypeOK
    <2>3. SH!NewEnds \subseteq {SH!ReadEnd(k) : k \in SH!Pipes} \cup {SH!WriteEnd(k) : k \in SH!Pipes}
      BY SMTT(30), <2>1 DEF SH!NewEnds
    <2> QED BY Zenon, <2>2, <2>3
  <1>8. mine \subseteq its
    BY Zenon
  <1> HIDE DEF mine, its
  <1>9. /\ DOMAIN sh_ends' = 0 .. MaxCommands /\ sh_ends'[0] = mine /\ sh_ends'[sh_i] = its
        /\ \A p \in 0 .. MaxCommands : p # 0 /\ p # sh_i => sh_ends'[p] = sh_ends[p]
    BY SMTT(30), <1>1, <1>2, <1>4
  <1>10. UNCHANGED <<sh_phase, sh_lines, sh_num_commands, sh_pipe>> /\ sh_i' = sh_i + 1
         /\ sh_status' = [sh_status EXCEPT ![sh_i] = "running"]
    BY SMTT(30) DEF SH!Spawn, SH!execute_command
  <1>11. SH!TypeOK'
    <2>1. ASSUME NEW p \in 0 .. MaxCommands
          PROVE  sh_ends'[p] \subseteq {SH!ReadEnd(k) : k \in SH!Pipes} \cup {SH!WriteEnd(k) : k \in SH!Pipes}
      BY Zenon, <1>7, <1>8, <1>9 DEF SH!ShellInv, SH!TypeOK
    <2>2. sh_status' \in [SH!Children -> {"none", "running", "exited"}]
      BY Zenon, <1>10 DEF SH!ShellInv, SH!TypeOK
    <2>3. sh_i' \in 1 .. MaxCommands + 1
      <3>1. sh_i' = sh_i + 1 /\ MaxCommands \in Nat
        BY Zenon, <1>1, <1>10
      <3> QED BY ONLY SMTT(30), <1>2, <3>1
    <2> QED BY Zenon, <1>10, <2>1, <2>2, <2>3 DEF SH!ShellInv, SH!TypeOK, SH!ReadEnd, SH!WriteEnd
  <1>12. SH!OnlyWriter'
    <2> SUFFICES ASSUME NEW k \in SH!Pipes, NEW p \in 0 .. MaxCommands, SH!WriteEnd(k) \in sh_ends'[p]
                 PROVE  p = k
      BY Zenon DEF SH!OnlyWriter, SH!WriteEnd
    <2>1. p # 0
      BY <1>5, <1>9 DEF SH!ReadEnd, SH!WriteEnd
    <2> QED BY Zenon, <1>6, <1>9, <2>1 DEF SH!ShellInv, SH!OnlyWriter
  <1>13. SH!ShellEnds'
    <2>1. sh_i' \in Int /\ sh_i' - 1 = sh_i /\ (sh_i < sh_num_commands <=> sh_i' <= sh_num_commands')
      BY <1>1, <1>10
    <2> QED BY Zenon, <1>1, <1>5, <1>9, <1>10, <2>1 DEF SH!ShellEnds, SH!ReadEnd
  <1>14. sh_want_in' \in [SH!Children -> Nat] /\ sh_want_out' \in [SH!Children -> Nat]
    BY Zenon, <1>3 DEF SH!ShellInv, SH!ShellConstants
  <1> QED BY Zenon, <1>1, <1>9, <1>10, <1>11, <1>12, <1>13, <1>14 DEF SH!ShellInv, SH!PromptIsClean

\* The other steps of the shell.
LEMMA ShellKeeps ==
    ASSUME SH!ShellConstants, SH!ShellInv, SH!ReadLine \/ SH!Fail \/ SH!AllSpawned \/ SH!WaitAll \/ UNCHANGED SH!vars
    PROVE  SH!ShellInv'
  <1> USE DEF SH!ShellInv, SH!children
  <1>1. CASE SH!ReadLine
    <2>1. SH!TypeOK'
      <3>1. sh_lines' \in 0 .. MaxShellLines /\ sh_num_commands' \in 0 .. MaxCommands
        BY SMTT(30), <1>1 DEF SH!ShellConstants, SH!ReadLine, SH!TypeOK
      <3>2. sh_i' \in 1 .. MaxCommands + 1 /\ sh_phase' \in {"prompt", "spawn", "wait", "done"}
        BY SMTT(30), <1>1 DEF SH!ShellConstants, SH!ReadLine, SH!TypeOK
      <3>3. sh_pipe' \in [SH!Pipes -> 0 .. PipeCapacity]
        BY SMTT(30), <1>1 DEF SH!ShellConstants, SH!ReadLine, SH!TypeOK
      <3>4. UNCHANGED <<sh_ends, sh_status>>
        BY Zenon, <1>1 DEF SH!ReadLine
      <3> QED BY Zenon, <3>1, <3>2, <3>3, <3>4 DEF SH!TypeOK, SH!ReadEnd, SH!WriteEnd
    <2>2. sh_ends[0] = {} /\ UNCHANGED <<sh_ends, sh_want_in, sh_want_out, sh_status>> /\ sh_phase' # "prompt"
      BY Zenon, <1>1 DEF SH!ReadLine, SH!PromptIsClean
    <2> QED BY Zenon, <2>1, <2>2 DEF SH!OnlyWriter, SH!PromptIsClean, SH!ShellEnds
  <1>2. CASE SH!Fail
    <2>1. /\ sh_ends' = [sh_ends EXCEPT ![0] = {}] /\ UNCHANGED <<sh_lines, sh_num_commands, sh_i, SH!children, sh_pipe>>
          /\ sh_phase' = "done" /\ 0 \in 0 .. MaxCommands
      BY <1>2 DEF SH!Fail, SH!ShellConstants
    <2>2. sh_ends'[0] = {} /\ \A p \in 0 .. MaxCommands : sh_ends'[p] \subseteq sh_ends[p]
      BY Zenon, <2>1
    <2>3. SH!TypeOK'
      BY Zenon, <2>1, <2>2 DEF SH!TypeOK
    <2>4. SH!OnlyWriter'
      BY Zenon, <2>2 DEF SH!OnlyWriter, SH!WriteEnd
    <2> QED BY Zenon, <2>1, <2>2, <2>3, <2>4 DEF SH!PromptIsClean, SH!ShellEnds
  <1>3. CASE SH!AllSpawned
    <2>1. UNCHANGED <<sh_lines, sh_num_commands, sh_i, SH!children, sh_ends, sh_pipe>> /\ sh_phase' = "wait" /\ sh_phase = "spawn" /\ sh_i > sh_num_commands
      BY Zenon, <1>3 DEF SH!AllSpawned
    <2>2. ~(sh_i <= sh_num_commands)
      BY SMTT(30), <2>1 DEF SH!TypeOK, SH!ShellConstants
    <2>3. sh_ends[0] = {}
      BY SMTT(30), <2>2 DEF SH!ShellEnds
    <2> QED BY Zenon, <2>1, <2>3 DEF SH!TypeOK, SH!OnlyWriter, SH!PromptIsClean, SH!ShellEnds
  <1>4. CASE SH!WaitAll
    <2>1. /\ UNCHANGED <<sh_lines, sh_num_commands, sh_i, sh_want_in, sh_want_out, sh_ends, sh_pipe>> /\ sh_phase' = "prompt"
          /\ sh_status' = [c \in SH!Children |-> "none"] /\ sh_phase = "wait"
      BY Zenon, <1>4 DEF SH!WaitAll
    <2>2. sh_ends[0] = {}
      BY Zenon, <2>1 DEF SH!ShellEnds
    <2> QED BY Zenon, <2>1, <2>2 DEF SH!TypeOK, SH!OnlyWriter, SH!PromptIsClean, SH!ShellEnds
  <1>5. CASE UNCHANGED SH!vars
    BY Zenon, <1>5 DEF SH!vars, SH!TypeOK, SH!OnlyWriter, SH!PromptIsClean, SH!ShellEnds
  <1> QED BY Zenon, <1>1, <1>2, <1>3, <1>4, <1>5

\* A child reads, writes or ends.
LEMMA ChildKeeps ==
    ASSUME SH!ShellConstants, SH!ShellInv, NEW c \in SH!Children, SH!ChildStep(c)
    PROVE  SH!ShellInv'
  <1> USE DEF SH!ShellInv
  <1>1. /\ sh_want_in \in [SH!Children -> Nat] /\ sh_want_out \in [SH!Children -> Nat] /\ PipeCapacity \in Nat
        /\ sh_pipe \in [SH!Pipes -> 0 .. PipeCapacity]
    BY Zenon DEF SH!TypeOK, SH!ShellConstants
  <1>2. CASE SH!ReadInput(c)
    <2>1. UNCHANGED <<sh_phase, sh_lines, sh_num_commands, sh_i, sh_status, sh_want_out, sh_ends>>
      BY Zenon, <1>2 DEF SH!ReadInput
    <2>2. sh_want_in' \in [SH!Children -> Nat]
      BY SMTT(30), <1>1, <1>2 DEF SH!ReadInput
    <2>3. sh_pipe' \in [SH!Pipes -> 0 .. PipeCapacity]
      <3>1. \A k \in SH!Pipes : sh_pipe[k] \in 0 .. PipeCapacity
        BY <1>1
      <3>2. CASE UNCHANGED sh_pipe
        BY <1>1, <3>2
      <3>3. CASE sh_pipe' = [sh_pipe EXCEPT ![c - 1] = @ - 1] /\ sh_pipe[c - 1] > 0
        <4>1. c - 1 \in SH!Pipes => sh_pipe[c - 1] - 1 \in 0 .. PipeCapacity
          BY SMTT(30), <1>1, <3>1, <3>3
        <4> QED BY Zenon, <1>1, <3>3, <4>1
      <3> QED BY <1>2, <3>2, <3>3 DEF SH!ReadInput
    <2> QED BY Zenon, <2>1, <2>2, <2>3 DEF SH!TypeOK, SH!OnlyWriter, SH!PromptIsClean, SH!ShellEnds
  <1>3. CASE SH!WriteOutput(c)
    <2>1. UNCHANGED <<sh_phase, sh_lines, sh_num_commands, sh_i, sh_status, sh_want_in, sh_ends>>
      BY Zenon, <1>3 DEF SH!WriteOutput
    <2>2. sh_want_out' \in [SH!Children -> Nat]
      BY <1>1, <1>3 DEF SH!WriteOutput
    <2>3. sh_pipe' \in [SH!Pipes -> 0 .. PipeCapacity]
      <3>1. \A k \in SH!Pipes : sh_pipe[k] \in 0 .. PipeCapacity
        BY <1>1
      <3>2. CASE c = sh_num_commands
        BY <1>1, <1>3, <3>2 DEF SH!WriteOutput
      <3>3. CASE c # sh_num_commands
        <4>1. sh_pipe' = [sh_pipe EXCEPT ![c] = @ + 1] /\ sh_pipe[c] < PipeCapacity
          BY Zenon, <1>3, <3>3 DEF SH!WriteOutput
        <4>2. c \in SH!Pipes => sh_pipe[c] + 1 \in 0 .. PipeCapacity
          BY SMTT(30), <1>1, <3>1, <4>1
        <4> QED BY Zenon, <1>1, <4>1, <4>2
      <3> QED BY Zenon, <3>2, <3>3
    <2> QED BY Zenon, <2>1, <2>2, <2>3 DEF SH!TypeOK, SH!OnlyWriter, SH!PromptIsClean, SH!ShellEnds
  <1>4. CASE SH!End(c)
    <2>1. /\ UNCHANGED <<sh_phase, sh_lines, sh_num_commands, sh_i, sh_want_in, sh_want_out, sh_pipe>>
          /\ sh_status' = [sh_status EXCEPT ![c] = "exited"] /\ sh_ends' = [sh_ends EXCEPT ![c] = {}]
          /\ sh_status[c] = "running" /\ c \in 0 .. MaxCommands
      BY <1>4 DEF SH!End, SH!Children
    <2>2. DOMAIN sh_ends' = 0 .. MaxCommands /\ \A p \in 0 .. MaxCommands : sh_ends'[p] \subseteq sh_ends[p]
      BY Zenon, <2>1
    <2>3. SH!TypeOK'
      BY Zenon, <2>1, <2>2 DEF SH!TypeOK
    <2>4. SH!OnlyWriter'
      BY Zenon, <2>2 DEF SH!OnlyWriter, SH!WriteEnd
    <2>5. SH!ShellEnds'
      <3>1. 0 \in 0 .. MaxCommands
        BY DEF SH!ShellConstants
      <3> QED BY Zenon, <2>1, <2>2, <3>1 DEF SH!ShellEnds, SH!ReadEnd
    <2>6. SH!PromptIsClean'
      BY <2>1 DEF SH!PromptIsClean
    <2> QED BY Zenon, <2>1, <2>2, <2>3, <2>4, <2>5, <2>6
  <1> QED BY SMTT(30), <1>2, <1>3, <1>4 DEF SH!ChildStep

LEMMA ShellNext == SH!ShellConstants /\ SH!ShellInv /\ [SH!Next]_(SH!vars) => SH!ShellInv'
  BY SpawnKeeps, ShellKeeps, ChildKeeps DEF SH!Next, SH!ShellStep

\* sh.c, for lines of any number of commands and pipes of any capacity: the write end
\* of a pipe is held by its command only, and the shell comes back to its prompt with
\* nothing open and no child running.
THEOREM ShellIsRight ==
    ASSUME SH!ShellConstants
    PROVE  SH!Init /\ [][SH!Next]_(SH!vars) => [](SH!TypeOK /\ SH!OnlyWriter /\ SH!PromptIsClean)
  <1>1. SH!ShellInv => SH!TypeOK /\ SH!OnlyWriter /\ SH!PromptIsClean
    BY DEF SH!ShellInv
  <1> QED BY ShellStart, ShellNext, <1>1, PTL
-----------------------------------------------------------------------------
(***************************************************************************)
(* binary_search.c and binary_search.asm, for any array and width of int.  *)
(***************************************************************************)
CONSTANTS Keys, MaxArray, IntMax
VARIABLES se_code, se_arr, se_size, se_target, se_left, se_right, se_pc, se_result,
          se_scale

SE == INSTANCE BinarySearch WITH
        Values <- Keys, MaxSize <- MaxArray, code <- se_code, arr <- se_arr,
        size <- se_size, target <- se_target, left <- se_left, right <- se_right,
        pc <- se_pc, result <- se_result, scale <- se_scale

ASSUME SearchAssumption == SE!SearchConstants

\* The middle of two bounds is between them, and no further from one of them
\* than half of their distance.
LEMMA Middle ==
    ASSUME NEW l \in Nat, NEW r \in Nat, l <= r
    PROVE  LET m == (l + r) \div 2
           IN m \in Nat /\ l <= m /\ m <= r /\ 2 * (r - m) <= r - l + 1 /\ 2 * (m - l) <= r - l
  OBVIOUS

\* A part of at most half the length, times twice the count, stays in the size.
LEMMA HalfTimesDouble ==
    ASSUME NEW n \in Int, NEW h \in Int, NEW k \in Nat, NEW z \in Nat,
           2 * h <= n, n * k <= z
    PROVE  h * (2 * k) <= z
  <1>1. h * (2 * k) = (2 * h) * k
    OBVIOUS
  <1>2. (2 * h) * k <= n * k
    OBVIOUS
  <1> QED BY <1>1, <1>2

LEMMA SearchInit == SE!SearchConstants /\ SE!Init => SE!SearchInv
  <1> SUFFICES ASSUME SE!SearchConstants, SE!Init
               PROVE  SE!SearchInv
    BY Zenon
  <1>1. se_size \in Nat /\ se_size <= IntMax /\ se_target \in Int /\ se_arr \in [0 .. se_size - 1 -> Keys]
    BY DEF SE!SearchConstants, SE!Init
  <1>2. SE!Bounds
    <2>1. se_arr \in [0 .. se_size - 1 -> Int]
      BY Zenon, <1>1 DEF SE!SearchConstants
    <2> QED BY <1>1, <2>1 DEF SE!Init, SE!Bounds
  <1>3. SE!Halves
    BY <1>1 DEF SE!Init, SE!Halves
  <1> QED BY <1>1, <1>2, <1>3 DEF SE!Init, SE!SearchInv, SE!Bracketed, SE!Finds,
             SE!OverflowOnlyIfLarge

LEMMA SearchNext == SE!SearchConstants /\ SE!SearchInv /\ [SE!Next]_(SE!vars) => SE!SearchInv'
  <1> SUFFICES ASSUME SE!SearchConstants, SE!SearchInv, [SE!Next]_(SE!vars)
               PROVE  SE!SearchInv'
    BY Zenon
  <1>1. CASE UNCHANGED SE!vars
    BY Zenon, <1>1 DEF SE!vars, SE!SearchInv, SE!Bounds, SE!Bracketed, SE!Finds,
       SE!OverflowOnlyIfLarge, SE!Halves, SE!Sorted
  <1>2. CASE SE!not_found
    BY <1>2 DEF SE!not_found, SE!args, SE!SearchInv, SE!Bounds, SE!Bracketed, SE!Finds,
       SE!OverflowOnlyIfLarge,
                SE!Halves, SE!Sorted
  <1>3. CASE SE!overflow
    <2>1. SE!OverflowOnlyIfLarge'
      <3>1. se_left + se_right <= 2 * (se_size - 1)
        BY <1>3 DEF SE!overflow, SE!SearchInv, SE!Bounds
      <3>2. se_left + se_right \in Int /\ 2 * (se_size - 1) \in Int /\ se_size' = se_size /\ se_code' = "c"
        BY <1>3 DEF SE!overflow, SE!args, SE!SearchInv, SE!Bounds
      <3> QED BY <1>3, <3>1, <3>2 DEF SE!overflow, SE!OverflowOnlyIfLarge, SE!SearchConstants
    <2> QED BY Zenon, <1>3, <2>1 DEF SE!overflow, SE!args, SE!SearchInv, SE!Bounds, SE!Bracketed,
               SE!Finds, SE!Halves, SE!Sorted
  <1>4. CASE SE!probe
    <2> DEFINE mid == (se_left + se_right) \div 2
    <2>1. /\ se_pc = "loop" /\ se_left \in Nat /\ se_right \in Nat /\ se_left <= se_right
          /\ se_size \in Nat /\ se_scale \in Nat \ {0} /\ se_target \in Int
          /\ se_arr \in [0 .. se_size - 1 -> Int] /\ se_right <= se_size - 1 /\ UNCHANGED SE!args
      BY <1>4 DEF SE!probe, SE!SearchInv, SE!Bounds
    <2>2. /\ mid \in Nat /\ se_left <= mid /\ mid <= se_right /\ se_arr[mid] \in Int
          /\ 2 * (se_right - mid) <= se_right - se_left + 1 /\ 2 * (mid - se_left) <= se_right - se_left + 1
      BY <2>1, Middle
    <2> HIDE DEF mid
    <2>3. \A i \in 0 .. se_size - 1 : se_arr[i] = se_target => se_left <= i /\ i <= se_right
      BY Zenon, <2>1 DEF SE!SearchInv, SE!Bracketed
    <2>4. (se_right - se_left + 1) * se_scale <= se_size
      BY Zenon, <2>1 DEF SE!SearchInv, SE!Halves
    <2>5. CASE se_arr[mid] = se_target /\ se_pc' = "done" /\ se_result' = mid /\ UNCHANGED <<se_left, se_right, se_scale>>
      BY <2>1, <2>2, <2>5 DEF SE!args, SE!SearchInv, SE!Bounds, SE!Bracketed, SE!Finds,
         SE!OverflowOnlyIfLarge,
                              SE!Halves, SE!Sorted
    <2>6. CASE se_arr[mid] < se_target /\ se_left' = mid + 1 /\ se_scale' = 2 * se_scale /\ UNCHANGED <<se_right, se_pc, se_result>>
      <3>1. \A i \in 0 .. se_size - 1 : se_arr[i] = se_target => mid + 1 <= i /\ i <= se_right
        BY SMTT(30), <2>1, <2>2, <2>3, <2>6 DEF SE!SearchInv, SE!Bounds, SE!Sorted
      <3>2. (se_right' - se_left' + 1) * se_scale' <= se_size'
        <4>1. se_right' - se_left' + 1 = se_right - mid
          BY SMTT(30), <2>1, <2>2, <2>6
        <4> QED BY SMTT(30), <2>1, <2>2, <2>4, <2>6, <4>1, HalfTimesDouble DEF SE!args
      <3>3. SE!Bounds'
        BY <2>1, <2>2, <2>6 DEF SE!SearchInv, SE!Bounds, SE!args, SE!Sorted
      <3> QED BY Zenon, <2>1, <2>6, <3>1, <3>2, <3>3 DEF SE!args, SE!SearchInv, SE!Bracketed,
                 SE!Finds,
                                                 SE!OverflowOnlyIfLarge, SE!Halves
    <2>7. CASE se_arr[mid] > se_target /\ se_right' = mid - 1 /\ se_scale' = 2 * se_scale /\ UNCHANGED <<se_left, se_pc, se_result>>
      <3>1. \A i \in 0 .. se_size - 1 : se_arr[i] = se_target => se_left <= i /\ i <= mid - 1
        BY SMTT(30), <2>1, <2>2, <2>3, <2>7 DEF SE!SearchInv, SE!Bounds, SE!Sorted
      <3>2. (se_right' - se_left' + 1) * se_scale' <= se_size'
        <4>1. se_right' - se_left' + 1 = mid - se_left
          BY <2>1, <2>2, <2>7
        <4> QED BY SMTT(30), <2>1, <2>2, <2>4, <2>7, <4>1, HalfTimesDouble DEF SE!args
      <3>3. SE!Bounds'
        BY <2>1, <2>2, <2>7 DEF SE!SearchInv, SE!Bounds, SE!args, SE!Sorted
      <3> QED BY Zenon, <2>1, <2>7, <3>1, <3>2, <3>3 DEF SE!args, SE!SearchInv, SE!Bracketed,
                 SE!Finds,
                                                 SE!OverflowOnlyIfLarge, SE!Halves
    <2> QED BY Zenon, <1>4, <2>5, <2>6, <2>7 DEF SE!probe, mid
  <1> QED BY Zenon, <1>1, <1>2, <1>3, <1>4 DEF SE!Next

\* binary_search_c and binary_search_asm, for every sorted array and every width
\* of an int: the answer is right, each turn halves what is left, and only the C
\* code can overflow, on arrays of more than half of the ints.
THEOREM SearchIsRight ==
    ASSUME SE!SearchConstants
    PROVE  SE!Spec => [](SE!Finds /\ SE!OverflowOnlyIfLarge /\ SE!Halves)
  <1>1. SE!SearchInv => SE!Finds /\ SE!OverflowOnlyIfLarge /\ SE!Halves
    BY Zenon DEF SE!SearchInv
  <1> QED BY SearchInit, SearchNext, <1>1, PTL DEF SE!Spec
-----------------------------------------------------------------------------
(***************************************************************************)
(* multi_level_queuing.c, and producer.c and consumer.c, for any sizes:    *)
(* proved in Mlfq and in NamedSemaphores.                                  *)
(***************************************************************************)
CONSTANTS ProcessCount, QueueLevels, BurstTimes   \* of multi_level_queuing.c
CONSTANTS HandOvers, MaxStarts, MaxCrashes   \* of producer.c and consumer.c
VARIABLES queues, mq_burst_time, mq_remaining_time, queue_level, quantum_used
VARIABLES names, value, handle, ns_pc, ns_i, got, starts, crashes, again

MQ == INSTANCE Mlfq WITH
        N <- ProcessCount, MaxQueues <- QueueLevels, Bursts <- BurstTimes,
        burst_time <- mq_burst_time, remaining_time <- mq_remaining_time
NS == INSTANCE NamedSemaphores WITH
        Messages <- HandOvers, pc <- ns_pc, i <- ns_i

ASSUME SemaphoreAssumption == NS!SemaphoreConstants
ASSUME MlfqAssumption == MQ!MlfqConstants

\* What the sections use of numbers and finite sets holds: Mlfq has the library's
\* theorems.
LEMMA SetFactsHold == SetFacts
  <1>1. \A S : (MQ!IsFiniteSet(S) <=> IsFiniteSet(S)) /\ MQ!Cardinality(S) = Cardinality(S)
    BY DEF MQ!IsFiniteSet, IsFiniteSet, MQ!Cardinality, Cardinality
  <1>2. Singletons
    BY Zenon, <1>1, MQ!FS_EmptySet, MQ!FS_Singleton DEF Singletons
  <1>3. Intervals
    BY Zenon, <1>1, MQ!FS_Interval DEF Intervals
  <1>4. Counts
    BY Zenon, <1>1, MQ!FS_CardinalityType DEF Counts
  <1>5. PigeonHole
    BY Zenon, <1>1, MQ!FS_PigeonHole DEF PigeonHole
  <1>6. Smallest
    BY Zenon, MQ!SmallestExists DEF Smallest
  <1> QED BY Zenon, <1>2, <1>3, <1>4, <1>5, <1>6 DEF SetFacts

\* For every number of connections, descriptors and entries of the queue: while the
\* server runs there is one accept and one read of each connection, none of a free
\* slot, no descriptor is lost, and a queue larger than the table is never full.
THEOREM ServerIsRight ==
    ASSUME ZC!ServerConstants
    PROVE  ZC!Spec => [](ZC!TypeOK /\ ZC!OneAccept /\ ZC!OneReadPerConnection /\ ZC!NoDescriptorLeak /\ ZC!NeverFull)
  <1>1. ZC!Init => ZC!ServerInv
    BY Zenon, SetFactsHold, ServerInductive DEF ServerFacts
  <1>2. ZC!ServerInv /\ [ZC!Next]_(ZC!vars) => ZC!ServerInv'
    BY Zenon, SetFactsHold, ServerInductive DEF ServerFacts
  <1>3. ZC!ServerInv => ZC!TypeOK /\ ZC!OneAccept /\ ZC!OneReadPerConnection /\ ZC!NoDescriptorLeak /\ ZC!NeverFull
    BY Zenon, SetFactsHold, ServerInductive DEF ServerFacts
  <1> QED BY <1>1, <1>2, <1>3, PTL DEF ZC!Spec

\* serverSide.c and clientSide.c, for any number of clients and of slots: a slot holds
\* the socket of a connected client that is in no other slot, and what comes back to a
\* client is what it sent.
THEOREM SelectIsRight ==
    ASSUME SS!SelectConstants
    PROVE  SS!Init /\ [][SS!Next]_(SS!vars) => [](SS!SlotsAreLive /\ SS!EchoesOwn)
  <1>1. SS!SelectInv => SS!SlotsAreLive /\ SS!EchoesOwn
    BY Zenon DEF SS!SelectInv
  <1>2. (SS!Init => SS!SelectInv) /\ (SS!SelectInv /\ [SS!Next]_(SS!vars) => SS!SelectInv')
    BY Zenon, SetFactsHold, SelectInductive
  <1> QED BY <1>1, <1>2, PTL

-----------------------------------------------------------------------------
(***************************************************************************)
(* What is proved of the programs, together.                               *)
(***************************************************************************)
SEvars == <<se_code, se_arr, se_size, se_target, se_left, se_right, se_pc,
          se_result, se_scale>>
SSvars == <<ss_client_socket, ss_readfds, ss_pc, ss_i, ss_fd, ss_backlog, ss_up,
          ss_down, ss_at, ss_message, ss_lines>>
ZCvars == <<conn_table, sq, inflight, cq, zc_phase, open, gone>>
UAvars == <<ua_data, ua_write_ptr, ua_read_ptr, ua_alarm, ua_timeout_ms, ua_pc,
          ua_byte, ua_accepted, ua_delivered, ua_overflow>>
SHvars == <<sh_phase, sh_lines, sh_num_commands, sh_i, sh_status, sh_want_in,
          sh_want_out, sh_ends, sh_pipe>>
WBvars == <<wb_pending, wb_file, wb_data, wb_pc, wb_passed, wb_accepted, wb_lost>>

MQvars == <<queues, mq_burst_time, mq_remaining_time, queue_level, quantum_used>>
NSvars == <<names, value, handle, ns_pc, ns_i, got, starts, crashes, again>>

\* multi_level_queuing.c: a process is in the one queue of its level, and the level
\* is what its time has earned; no later process gets ahead, in the last queue too.
LevelIsEarned ==
    program = "mlfq" =>
        /\ MQ!TypeOK /\ MQ!InOneQueue /\ MQ!LevelIsEarned
        /\ MQ!NoOvertaking /\ MQ!LastQueueInOrder

\* binary_search.c and binary_search.asm: the answer is right, every turn halves what
\* is left, and only the C code overflows, on arrays of more than half of the ints.
Finds == program = "binary_search" => SE!Finds /\ SE!OverflowOnlyIfLarge /\ SE!Halves

\* serverSide.c: slots hold live sockets, and clients get their own lines back.
EchoesOwn == program = "select_server" => SS!SlotsAreLive /\ SS!EchoesOwn

\* zero_copy_server.c: one accept and one read per connection are outstanding, so
\* the submission queue does not fill and no descriptor leaks.
OneRequestEach ==
    program = "zero_copy" =>
        /\ ZC!TypeOK /\ ZC!OneAccept /\ ZC!OneReadPerConnection
        /\ ZC!NoDescriptorLeak /\ ZC!NeverFull

\* uart.c: no byte is lost between handler and reader, and none is dropped while
\* the calls keep up.
NothingLost == program = "uart" => UA!TypeOK /\ UA!NothingLost /\ UA!NoOverflow

\* sh.c: a pipe has one writer, and nothing is left open or running at the prompt.
PromptIsClean == program = "shell" => SH!TypeOK /\ SH!OnlyWriter /\ SH!PromptIsClean

\* customBuffer.c: the bytes that were accepted are in the file or in the buffer, in
\* order and once each, but for those that a short write left behind.
OnlyShortWritesLose ==
    program = "write_buffer" => WB!TypeOK /\ WB!InOrder /\ WB!OnlyShortWritesLose

\* producer.c and consumer.c: never both at the memory, whatever crashes and
\* restarts; without crashes the messages arrive in order and nothing is left.
Exclusive ==
    program = "named_semaphores" => NS!TypeOK /\ NS!Exclusive /\ NS!InOrder /\ NS!NothingLeft

ProvedInit == /\ SE!Init /\ SS!Init /\ UA!Init /\ SH!Init /\ WB!Init /\ ZC!Init
              /\ MQ!Init /\ NS!Init
ProvedNext == /\ [SE!Next]_(SE!vars) /\ [SS!Next]_(SS!vars) /\ [UA!Next]_(UA!vars)
              /\ [SH!Next]_(SH!vars) /\ [WB!Next]_(WB!vars) /\ [ZC!Next]_(ZC!vars)
              /\ [MQ!Next]_(MQ!vars) /\ [NS!Next]_(NS!vars)
ProvedInv == /\ SE!SearchInv /\ SS!SelectInv /\ UA!UartInv /\ SH!ShellInv
             /\ WB!BufferInv /\ ZC!ServerInv /\ MQ!MlfqInv
             /\ NS!ExclusionInv /\ NS!OrderInv
ProvedRight == /\ Finds /\ EchoesOwn /\ NothingLost /\ PromptIsClean
               /\ OnlyShortWritesLose /\ OneRequestEach /\ LevelIsEarned /\ Exclusive

\* The programs start with their inductive invariants, which steps of each keep.
LEMMA ProvedInductive ==
    (ProvedInit => ProvedInv) /\ (ProvedInv /\ ProvedNext => ProvedInv')
  <1>1. SE!Init /\ SS!Init /\ UA!Init => SE!SearchInv /\ SS!SelectInv /\ UA!UartInv
    BY Zenon, SetFactsHold, SearchAssumption, SelectAssumption, UartAssumption, SearchInit,
       SelectInductive, UartInductive
  <1>2. SH!Init /\ WB!Init /\ ZC!Init => SH!ShellInv /\ WB!BufferInv /\ ZC!ServerInv
    BY Zenon, SetFactsHold, ShellAssumption, BufferAssumption, ServerAssumption, ShellStart,
       BufferInductive, ServerInductive DEF ServerFacts
  <1>3. MQ!Init /\ NS!Init => MQ!MlfqInv /\ NS!ExclusionInv /\ NS!OrderInv
    BY Zenon, MlfqAssumption, SemaphoreAssumption, MQ!MlfqStart, NS!ExclusionStart, NS!OrderStart
  <1>4. SE!SearchInv /\ SS!SelectInv /\ UA!UartInv /\ ProvedNext =>
            SE!SearchInv' /\ SS!SelectInv' /\ UA!UartInv'
    BY Zenon, SetFactsHold, SearchAssumption, SelectAssumption, UartAssumption, SearchNext,
       SelectInductive, UartInductive DEF ProvedNext
  <1>5. SH!ShellInv /\ WB!BufferInv /\ ZC!ServerInv /\ ProvedNext =>
            SH!ShellInv' /\ WB!BufferInv' /\ ZC!ServerInv'
    BY Zenon, SetFactsHold, ShellAssumption, BufferAssumption, ServerAssumption, ShellNext,
       BufferInductive, ServerInductive DEF ServerFacts, ProvedNext
  <1>6. MQ!MlfqInv /\ NS!ExclusionInv /\ NS!OrderInv /\ ProvedNext =>
            MQ!MlfqInv' /\ NS!ExclusionInv' /\ NS!OrderInv'
    BY Zenon, MlfqAssumption, SemaphoreAssumption, MQ!MlfqNext, NS!ExclusionStep, NS!OrderStep
       DEF ProvedNext
  <1> QED BY Zenon, <1>1, <1>2, <1>3, <1>4, <1>5, <1>6 DEF ProvedInit, ProvedInv

\* The inductive invariants give what the programs promise.
LEMMA ProvedGives == ProvedInv => ProvedRight
  <1>1. SE!SearchInv /\ SS!SelectInv => Finds /\ EchoesOwn
    BY Zenon DEF SE!SearchInv, SS!SelectInv, Finds, EchoesOwn
  <1>2. UA!UartInv /\ SH!ShellInv /\ WB!BufferInv =>
            NothingLost /\ PromptIsClean /\ OnlyShortWritesLose
    BY Zenon DEF UA!UartInv, SH!ShellInv, WB!BufferInv, NothingLost, PromptIsClean,
       OnlyShortWritesLose
  <1>3. ZC!ServerInv => OneRequestEach
    BY Zenon, SetFactsHold, ServerAssumption, ServerInductive DEF ServerFacts, OneRequestEach
  <1>4. MQ!MlfqInv /\ NS!ExclusionInv /\ NS!OrderInv => LevelIsEarned /\ Exclusive
    BY Zenon, MlfqAssumption, SemaphoreAssumption, MQ!MlfqGives, NS!ExclusionGives, NS!OrderGives
       DEF LevelIsEarned, Exclusive
  <1> QED BY Zenon, <1>1, <1>2, <1>3, <1>4 DEF ProvedInv, ProvedRight

\* The variables of a program are those of its module.
LEMMA ProvedVars ==
    /\ UNCHANGED SEvars => UNCHANGED SE!vars
    /\ UNCHANGED SSvars => UNCHANGED SS!vars
    /\ UNCHANGED UAvars => UNCHANGED UA!vars
    /\ UNCHANGED SHvars => UNCHANGED SH!vars
    /\ UNCHANGED WBvars => UNCHANGED WB!vars
    /\ UNCHANGED ZCvars => UNCHANGED ZC!vars
    /\ UNCHANGED MQvars => UNCHANGED MQ!vars
    /\ UNCHANGED NSvars => UNCHANGED NS!vars
BY Zenon DEF SEvars, SE!vars, SSvars, SS!vars, SS!server, UAvars, UA!vars, UA!ring, SHvars,
   SH!vars,
       WBvars, WB!vars, ZCvars, ZC!vars, MQvars, MQ!vars, NSvars, NS!vars, NS!objects
-----------------------------------------------------------------------------
(***************************************************************************)
(* The other programs, each with the sizes that TLC checks it on.          *)
(***************************************************************************)
VARIABLES cmd_queue, is_open, open_row, cm_given, cm_served, cm_pc
VARIABLES ad_requestQueue, threads, ad_cycle, ad_i, ad_scheduled
VARIABLES bs_requestQueue, batch, is_marked, bankRanking, bs_i, bs_pc, bs_made,
          bs_clock, processed
VARIABLES hitQueue, missQueue, fr_made, fr_scheduled, exited
VARIABLES rw_queue, current_mode, count, rw_tlb, buffer, rw_made, rw_cycle,
          rw_accepted, rw_served
VARIABLES rr_arrival_time, rr_burst_time, rr_remaining_time, rr_completion_time,
          rr_current_time, rr_completed, rr_i, any_executed
VARIABLES pa_priority, age, pa_remaining_time, pa_completed, given, ran
VARIABLES fc_arrival_time, fc_burst_time, fc_completion_time, turnaround_time,
          waiting_time, fc_current_time, fc_i
VARIABLES nice_value, vruntime, time, units
VARIABLES cs_state, time_slice, total_time, last_ran, switches, current,
          current_index, context_switches, avg_time, max_time, now
VARIABLES ts_pc, ts_state, left, ts_is_running, simulation_running, current_thread
VARIABLES last_cpu, ca_priority, ca_is_running, current_load, running, ca_pc, rounds

CM == INSTANCE CommandScheduling WITH
        Capacity <- 6, NoItem <- [type |-> "NONE"], Banks <- {0, 1}, Rows <- {1000},
        MaxCommands <- 3, given <- cm_given, served <- cm_served, pc <- cm_pc
CN == INSTANCE CommandScheduling WITH
        Capacity <- 4, NoItem <- [type |-> "NONE"], Banks <- {0, 1},
        Rows <- {1000, 2000}, MaxCommands <- 2, given <- cm_given, served <- cm_served,
        pc <- cm_pc
AD == INSTANCE AdaptiveScheduling WITH
        Capacity <- 3, NoItem <- [thread_id |-> -1], Threads <- {0, 1},
        Steps <- {1, 10}, Interval <- 2, Threshold <- 200, MaxCycles <- 4,
        requestQueue <- ad_requestQueue, cycle <- ad_cycle, i <- ad_i,
        scheduled <- ad_scheduled
BS == INSTANCE BatchScheduling WITH
        Capacity <- 3, NoItem <- [num |-> 0], Banks <- 3, BatchSize <- 2,
        MaxRequests <- 4, MaxTime <- 2, requestQueue <- bs_requestQueue, i <- bs_i,
        pc <- bs_pc, made <- bs_made, clock <- bs_clock
FR == INSTANCE FrFcfs WITH
        Capacity <- 3, NoItem <- 0, Items <- 1 .. 4, MaxRequests <- 5, Hit <- {1, 2},
        made <- fr_made, scheduled <- fr_scheduled
RW == INSTANCE ReadWriteGrouping WITH
        QueueSize <- 3, TlbSize <- 2, Addresses <- {0, 1, 2, 3, 5},
        Priorities <- {0, 2}, AddressBits <- 3, Requests <- 4, MaxCycles <- 9, tlb <- rw_tlb,
        queue <- rw_queue, made <- rw_made, cycle <- rw_cycle, accepted <- rw_accepted,
        served <- rw_served
RR == INSTANCE RoundRobin WITH
        N <- 3, Quantum <- 2, Arrivals <- {0, 1, 6}, Bursts <- {1, 3, 5}, Set <- TRUE,
        MaxTime <- 30, arrival_time <- rr_arrival_time, burst_time <- rr_burst_time,
        remaining_time <- rr_remaining_time, completion_time <- rr_completion_time,
        current_time <- rr_current_time, completed <- rr_completed, i <- rr_i
PA == INSTANCE PriorityAging WITH
        N <- 3, Threshold <- 3, Priorities <- {0, 1, 3}, Bursts <- {1, 6},
        priority <- pa_priority, remaining_time <- pa_remaining_time,
        completed <- pa_completed
FC == INSTANCE Fcfs WITH
        N <- 3, Arrivals <- {0, 2, 3, 7}, Bursts <- {0, 1, 4},
        arrival_time <- fc_arrival_time, burst_time <- fc_burst_time,
        completion_time <- fc_completion_time, current_time <- fc_current_time,
        i <- fc_i
CF == INSTANCE Cfs WITH
        N <- 3, NiceValues <- {10, 11, 12, 14, 17, 18, 19}, SimulationTime <- 30
CS == INSTANCE ContextSwitch WITH
        Cycles <- 13, SwitchTimes <- {0, 3, 8}, state <- cs_state
TS == INSTANCE ThreadSimulation WITH
        N <- 3, Lines <- {1}, Accesses <- 1, pc <- ts_pc, state <- ts_state,
        is_running <- ts_is_running
CA == INSTANCE CpuAffinity WITH
        NumCpus <- 2, NumThreads <- 3, MaxLoad <- 3, Priorities <- {1, 2},
        MaxRounds <- 3, priority <- ca_priority, is_running <- ca_is_running,
        pc <- ca_pc

CMvars == <<cmd_queue, is_open, open_row, cm_given, cm_served, cm_pc>>
ADvars == <<ad_requestQueue, threads, ad_cycle, ad_i, ad_scheduled>>
BSvars == <<bs_requestQueue, batch, is_marked, bankRanking, bs_i, bs_pc, bs_made,
          bs_clock, processed>>
FRvars == <<hitQueue, missQueue, fr_made, fr_scheduled, exited>>
RWvars == <<rw_queue, current_mode, count, rw_tlb, buffer, rw_made, rw_cycle,
          rw_accepted, rw_served>>
RRvars == <<rr_arrival_time, rr_burst_time, rr_remaining_time, rr_completion_time,
          rr_current_time, rr_completed, rr_i, any_executed>>
PAvars == <<pa_priority, age, pa_remaining_time, pa_completed, given, ran>>
FCvars == <<fc_arrival_time, fc_burst_time, fc_completion_time, turnaround_time,
          waiting_time, fc_current_time, fc_i>>
CFvars == <<nice_value, vruntime, time, units>>
CSvars == <<cs_state, time_slice, total_time, last_ran, switches, current,
          current_index, context_switches, avg_time, max_time, now>>
TSvars == <<ts_pc, ts_state, left, ts_is_running, simulation_running, current_thread>>
CAvars == <<last_cpu, ca_priority, ca_is_running, current_load, running, ca_pc, rounds>>
SchedulingVars == <<CMvars, ADvars, BSvars, FRvars, RWvars, RRvars, MQvars, PAvars,
                     FCvars, CFvars, CSvars, TSvars, CAvars, SEvars>>
IoVars == <<vars, SSvars, ZCvars, UAvars, SHvars, NSvars, WBvars>>

\* The programs are independent: a behaviour is one of one program, and the
\* others stay in an initial state.
SuiteInit ==
    /\ program \in {"command_scheduling", "command_rows", "adaptive", "batch",
                    "fr_fcfs", "read_write_grouping", "round_robin", "mlfq",
                    "priority_aging", "fcfs", "cfs", "context_switch", "single_cpu",
                    "multi_cpu", "binary_search", "circular_queue", "select_server",
                    "zero_copy", "uart", "shell", "named_semaphores",
                    "write_buffer"}
    /\ IF program = "command_rows" THEN CN!Init ELSE CM!Init
    /\ AD!Init
    /\ BS!Init
    /\ FR!Init
    /\ RW!Init
    /\ \/ program = "round_robin"
       \/ /\ program # "round_robin" /\ rr_arrival_time = <<0, 0, 0>>
          /\ rr_burst_time = <<1, 1, 1>>
    /\ RR!Init
    /\ \/ program = "mlfq"
       \/ /\ program # "mlfq"
          /\ mq_burst_time = [p \in MQ!Procs |-> CHOOSE b \in BurstTimes : TRUE]
    /\ MQ!Init
    /\ \/ program = "priority_aging"
       \/ /\ program # "priority_aging" /\ given = <<0, 0, 0>> /\ age = <<0, 0, 0>>
          /\ pa_remaining_time = <<1, 1, 1>>
    /\ PA!Init
    /\ \/ program = "fcfs"
       \/ /\ program # "fcfs" /\ fc_arrival_time = <<0, 0, 0>>
          /\ fc_burst_time = <<0, 0, 0>>
    /\ FC!Init
    /\ \/ program = "cfs"
       \/ program # "cfs" /\ nice_value = <<10, 10, 10>>
    /\ CF!Init
    /\ CS!Init
    /\ TS!Init
    /\ \/ program = "multi_cpu"
       \/ /\ program # "multi_cpu" /\ last_cpu = [t \in 0 .. 2 |-> 0]
          /\ ca_priority = [t \in 0 .. 2 |-> 1]
    /\ CA!init_system
    /\ \/ program = "binary_search"
       \/ program # "binary_search" /\ se_code = "c" /\ se_size = 0 /\ se_target = 0
    /\ SE!Init
    /\ Init
    /\ SS!Init
    /\ ZC!Init
    /\ UA!Init
    /\ SH!Init
    /\ NS!Init
    /\ WB!Init

SchedulingNext ==
    \/ /\ program = "command_scheduling" /\ CM!Next
       /\ UNCHANGED <<ADvars, BSvars, FRvars, RWvars, RRvars, MQvars, PAvars,
                      FCvars, CFvars, CSvars, TSvars, CAvars, SEvars>>
    \/ /\ program = "command_rows" /\ CN!Next
       /\ UNCHANGED <<ADvars, BSvars, FRvars, RWvars, RRvars, MQvars, PAvars,
                      FCvars, CFvars, CSvars, TSvars, CAvars, SEvars>>
    \/ /\ program = "adaptive" /\ AD!Next
       /\ UNCHANGED <<CMvars, BSvars, FRvars, RWvars, RRvars, MQvars, PAvars,
                      FCvars, CFvars, CSvars, TSvars, CAvars, SEvars>>
    \/ /\ program = "batch" /\ BS!Next
       /\ UNCHANGED <<CMvars, ADvars, FRvars, RWvars, RRvars, MQvars, PAvars,
                      FCvars, CFvars, CSvars, TSvars, CAvars, SEvars>>
    \/ /\ program = "fr_fcfs" /\ FR!Next
       /\ UNCHANGED <<CMvars, ADvars, BSvars, RWvars, RRvars, MQvars, PAvars,
                      FCvars, CFvars, CSvars, TSvars, CAvars, SEvars>>
    \/ /\ program = "read_write_grouping" /\ RW!Next
       /\ UNCHANGED <<CMvars, ADvars, BSvars, FRvars, RRvars, MQvars, PAvars,
                      FCvars, CFvars, CSvars, TSvars, CAvars, SEvars>>
    \/ /\ program = "round_robin" /\ RR!Next
       /\ UNCHANGED <<CMvars, ADvars, BSvars, FRvars, RWvars, MQvars, PAvars,
                      FCvars, CFvars, CSvars, TSvars, CAvars, SEvars>>
    \/ /\ program = "mlfq" /\ MQ!Next
       /\ UNCHANGED <<CMvars, ADvars, BSvars, FRvars, RWvars, RRvars, PAvars,
                      FCvars, CFvars, CSvars, TSvars, CAvars, SEvars>>
    \/ /\ program = "priority_aging" /\ PA!Next
       /\ UNCHANGED <<CMvars, ADvars, BSvars, FRvars, RWvars, RRvars, MQvars,
                      FCvars, CFvars, CSvars, TSvars, CAvars, SEvars>>
    \/ /\ program = "fcfs" /\ FC!Next
       /\ UNCHANGED <<CMvars, ADvars, BSvars, FRvars, RWvars, RRvars, MQvars,
                      PAvars, CFvars, CSvars, TSvars, CAvars, SEvars>>
    \/ /\ program = "cfs" /\ CF!Next
       /\ UNCHANGED <<CMvars, ADvars, BSvars, FRvars, RWvars, RRvars, MQvars,
                      PAvars, FCvars, CSvars, TSvars, CAvars, SEvars>>
    \/ /\ program = "context_switch" /\ CS!Next
       /\ UNCHANGED <<CMvars, ADvars, BSvars, FRvars, RWvars, RRvars, MQvars,
                      PAvars, FCvars, CFvars, TSvars, CAvars, SEvars>>
    \/ /\ program = "single_cpu" /\ TS!Next
       /\ UNCHANGED <<CMvars, ADvars, BSvars, FRvars, RWvars, RRvars, MQvars,
                      PAvars, FCvars, CFvars, CSvars, CAvars, SEvars>>
    \/ /\ program = "multi_cpu" /\ CA!Next
       /\ UNCHANGED <<CMvars, ADvars, BSvars, FRvars, RWvars, RRvars, MQvars,
                      PAvars, FCvars, CFvars, CSvars, TSvars, SEvars>>
    \/ /\ program = "binary_search" /\ SE!Next
       /\ UNCHANGED <<CMvars, ADvars, BSvars, FRvars, RWvars, RRvars, MQvars,
                      PAvars, FCvars, CFvars, CSvars, TSvars, CAvars>>

IoNext ==
    \/ /\ program = "circular_queue" /\ Next
       /\ UNCHANGED <<SSvars, ZCvars, UAvars, SHvars, NSvars, WBvars>>
    \/ /\ program = "select_server" /\ SS!Next
       /\ UNCHANGED <<vars, ZCvars, UAvars, SHvars, NSvars, WBvars>>
    \/ /\ program = "zero_copy" /\ ZC!Next
       /\ UNCHANGED <<vars, SSvars, UAvars, SHvars, NSvars, WBvars>>
    \/ /\ program = "uart" /\ UA!Next
       /\ UNCHANGED <<vars, SSvars, ZCvars, SHvars, NSvars, WBvars>>
    \/ /\ program = "shell" /\ SH!Next
       /\ UNCHANGED <<vars, SSvars, ZCvars, UAvars, NSvars, WBvars>>
    \/ /\ program = "named_semaphores" /\ NS!Next
       /\ UNCHANGED <<vars, SSvars, ZCvars, UAvars, SHvars, WBvars>>
    \/ /\ program = "write_buffer" /\ WB!Next
       /\ UNCHANGED <<vars, SSvars, ZCvars, UAvars, SHvars, NSvars>>

SuiteNext ==
    /\ UNCHANGED program
    /\ \/ SchedulingNext /\ UNCHANGED IoVars
       \/ IoNext /\ UNCHANGED SchedulingVars

suite_vars == <<program, SchedulingVars, IoVars>>

SuiteSpec == SuiteInit /\ [][SuiteNext]_suite_vars

\* The loop of a scheduler or of a search goes on as long as it can; every thread of
\* the single-processor simulation is scheduled.  Servers, the driver, the shell, its
\* children, the semaphores' processes and a call of the write buffer go on when they
\* can.  A client that was answered reads the answer, and the kernel completes the
\* read of a connection whose client has closed.
SuiteFairSpec ==
    /\ SuiteSpec
    /\ WF_CMvars(program = "command_scheduling" /\ CM!schedule_commands)
    /\ WF_BSvars(program = "batch" /\ (BS!form_batch \/ BS!scheduleRequest \/ BS!make_request))
    /\ WF_FRvars(program = "fr_fcfs" /\ FR!Serve)
    /\ WF_RRvars(program = "round_robin" /\ RR!round_robin_schedule)
    /\ WF_MQvars(program = "mlfq" /\ MQ!execute_time_slice)
    /\ WF_PAvars(program = "priority_aging" /\ PA!priority_schedule_with_aging)
    /\ \A t \in 0 .. 2 : WF_TSvars(program = "single_cpu" /\ TS!thread_function(t))
    /\ WF_TSvars(program = "single_cpu" /\ TS!scheduler)
    /\ WF_TSvars(program = "single_cpu" /\ TS!stop)
    /\ WF_TSvars(program = "single_cpu" /\ TS!join)
    /\ WF_SEvars(program = "binary_search" /\ SE!Next)
    /\ WF_SSvars(program = "select_server" /\ SS!Server)
    /\ \A c \in Clients : WF_SSvars(program = "select_server" /\ SS!read_reply(c))
    /\ WF_ZCvars(program = "zero_copy" /\ ZC!Server)
    /\ \A f \in Fds : WF_ZCvars(program = "zero_copy" /\ ZC!ReadOfClosed(f))
    /\ WF_UAvars(program = "uart" /\ UA!Reader)
    /\ WF_SHvars(program = "shell" /\ SH!ShellStep)
    /\ \A c \in 1 .. MaxCommands : WF_SHvars(program = "shell" /\ SH!ChildStep(c))
    /\ \A p \in {"producer", "consumer"} : WF_NSvars(program = "named_semaphores" /\ NS!Run(p))
    /\ WF_WBvars(program = "write_buffer" /\ (WB!copy \/ WB!return))
-----------------------------------------------------------------------------
\* Program p is the one that runs, in a form that TLC checks all promises of a
\* suite with at once: program never changes.
Runs(p) == []<>(program = p)

\* commandScheduling.c: no command is lost while the queue has room, although a
\* miss puts two commands where one was taken.
NoneLost == program = "command_scheduling" => CM!QueueOK /\ CM!NoneLost

\* AdaptiveThread-AwareScheduling.c: the oldest request of the best thread is taken,
\* from wherever in the ring it is; commandScheduling.c: a command that was scheduled
\* finds the row it needs open.
TakesOldestOfBest == AD!TakesOldestOfBest /\ CN!RowKept

\* Requests are served in the order of the policy: by rank and row inside a batch
\* (Parallelism-AwareBatchScheduling.c), accepted hits in order and then accepted
\* misses in order (FirstReady-FirstComeFirstServe.c), in order of arrival for each
\* thread (AdaptiveThread-AwareScheduling.c) and in each queue (readWriteGrouping.c,
\* whose reads are all served in time, and whose TLB holds what a translation gives).
ServedByPolicy ==
    /\ program = "batch" => BS!QueueOK /\ BS!RankedByCount /\ BS!OrderInBatch
    /\ program = "fr_fcfs" => FR!TypeOK /\ FR!HitsThenMisses
    /\ program = "adaptive" => AD!QueueOK /\ AD!ThreadFifo
    /\ program = "read_write_grouping" =>
         /\ RW!TypeOK /\ RW!FirstInFirstOut /\ RW!AgeIsSum
         /\ RW!ReadsAreServed /\ RW!TlbIsRight

\* Every request that commandScheduling.c, Parallelism-AwareBatchScheduling.c and
\* FirstReady-FirstComeFirstServe.c accept is served.
RequestsServed ==
    /\ Runs("command_scheduling") => CM!AllServed
    /\ Runs("batch") => BS!AllProcessed
    /\ Runs("fr_fcfs") => FR!AllServed

\* round_robin.c and completely_fair_scheduler.c (for weights below 1024): no
\* process falls behind; the first bounds waiting by the others' quanta, the second
\* keeps virtual runtimes together and runs lower nice values more.  In
\* contextSwitchHandler.c every process gets to run.
FairShare ==
    /\ program = "round_robin" => RR!TypeOK /\ RR!BoundedWaiting
    /\ program = "cfs" => CF!StayTogether /\ CF!LowerNiceRunsMore
    /\ program = "context_switch" => CS!EveryoneRuns

\* priority_scheduling.c: aging changes the given order by one step at most;
\* round_robin.c: time passes idle only when no process is ready;
\* multiThreadingInMultiCPU.c: a thread moves only from a CPU that is full.
OrderIsKept == PA!OrderIsKept /\ RR!IdlesOnlyIfNothingReady /\ CA!MovesOnlyWhenFull

\* What the schedulers record is what happened: the waiting times of
\* firt_come_first_serve.c are those of its busy periods, contextSwitchHandler.c charges
\* every tick once and its statistics agree, completely_fair_scheduler.c pays for
\* every unit, priority_scheduling.c counts completions, the load of
\* multiThreadingInMultiCPU.c covers the threads that run, which are on CPUs at work,
\* and no line of a waiting thread of multiThreadingSingleCPU.c is marked modified.
AccountsAreRight ==
    /\ program = "fcfs" => FC!WaitingTimes /\ FC!BusyPeriods
    /\ program = "context_switch" =>
         CS!TypeOK /\ CS!IndexFollowsCurrent /\ CS!TimeIsCharged /\ CS!StatsAgree
    /\ program = "cfs" => CF!UnitsAccounted
    /\ program = "priority_aging" => PA!TypeOK /\ PA!CountIsExact
    /\ program = "multi_cpu" => CA!LoadCoversRunning /\ CA!RunsOnWorkingCpu
    /\ program = "single_cpu" => TS!TypeOK /\ TS!FlushedWhileWaiting

\* The loops of round_robin.c, multi_level_queuing.c and priority_scheduling.c end
\* with all processes complete, main of multiThreadingSingleCPU.c joins all threads,
\* and a binary search ends.
LoopsEnd ==
    /\ Runs("round_robin") => RR!AllComplete
    /\ Runs("mlfq") => MQ!AllComplete
    /\ Runs("priority_aging") => PA!AllComplete
    /\ Runs("single_cpu") => TS!Terminates
    /\ Runs("binary_search") => SE!Ends

\* Whoever waits is served: clients of serverSide.c are answered and cleaned up,
\* closed connections of zero_copy_server.c are released, a call of uart.c returns,
\* the wait of sh.c for its children ends when output is short, producer.c hands
\* over to consumer.c, and a call of customBuffer.c returns.
WaitsEnd ==
    /\ Runs("select_server") => SS!Answered /\ SS!CleanedUp
    /\ Runs("zero_copy") => ZC!ClosedIsReleased
    /\ Runs("uart") => UA!CallReturns
    /\ Runs("shell") => SH!WaitEnds
    /\ Runs("named_semaphores") => NS!HandOver
    /\ Runs("write_buffer") => WB!CallReturns
-----------------------------------------------------------------------------
(***************************************************************************)
(* The properties, for all values of the constants.                        *)
(***************************************************************************)
\* A step of the suite is a step of a scheduler or of the search, or one of the
\* programs that do input and output, or none.
LEMMA SuiteStep ==
    ASSUME [SuiteNext]_suite_vars
    PROVE  \/ SchedulingNext /\ UNCHANGED IoVars
           \/ IoNext /\ UNCHANGED SchedulingVars
           \/ UNCHANGED SchedulingVars /\ UNCHANGED IoVars
BY Zenon DEF SuiteNext, suite_vars

\* So it is a step of the program that runs, and leaves the others alone.
LEMMA SuiteFrame ==
    ASSUME [SuiteNext]_suite_vars
    PROVE  ProvedNext
  <1>1. [SE!Next]_(SE!vars) /\ [MQ!Next]_(MQ!vars)
    BY Zenon, SuiteStep, ProvedVars DEF SchedulingNext, SchedulingVars
  <1>2. CASE UNCHANGED IoVars
    BY Zenon, ProvedVars, <1>1, <1>2 DEF IoVars, ProvedNext
  <1>3. CASE IoNext
    BY Zenon, ProvedVars, <1>1, <1>3 DEF IoNext, ProvedNext
  <1> QED BY Zenon, <1>2, <1>3, SuiteStep

\* Every state of the suite satisfies what is proved of its programs.
LEMMA SuiteInvariant == SuiteSpec => []ProvedRight
  <1>1. SuiteInit => ProvedInv
    BY Zenon, ProvedInductive DEF SuiteInit, ProvedInit
  <1>2. ProvedInv /\ [SuiteNext]_suite_vars => ProvedInv'
    BY Zenon, ProvedInductive, SuiteFrame
  <1> QED BY <1>1, <1>2, ProvedGives, PTL DEF SuiteSpec

\* binary_search.c and binary_search.asm find what is there, for every sorted array.
THEOREM SuiteFinds == SuiteSpec => []Finds
BY SuiteInvariant, PTL DEF ProvedRight

\* serverSide.c echoes to each client its own lines, for any number of them and of
\* slots.
THEOREM SuiteEchoes == SuiteSpec => []EchoesOwn
BY SuiteInvariant, PTL DEF ProvedRight

\* uart.c loses no byte and drops none, whatever the size of the ring and the timeout.
THEOREM SuiteBytes == SuiteSpec => []NothingLost
BY SuiteInvariant, PTL DEF ProvedRight

\* sh.c leaves nothing open or running at the prompt, whatever its commands do.
THEOREM SuitePrompt == SuiteSpec => []PromptIsClean
BY SuiteInvariant, PTL DEF ProvedRight

\* customBuffer.c keeps the order of what it accepts and loses only what short writes
\* leave behind, for every size of the buffer and sequence of messages.
THEOREM SuiteWrites == SuiteSpec => []OnlyShortWritesLose
BY SuiteInvariant, PTL DEF ProvedRight

\* producer.c and consumer.c are never both at the memory, whatever crashes and
\* restarts, and undisturbed they hand over every message in order and leave nothing
\* behind, however many messages, starts and crashes there are.
THEOREM SuiteExclusive == SuiteSpec => []Exclusive
BY SuiteInvariant, PTL DEF ProvedRight

\* zero_copy_server.c has one accept and one read of each connection under way, loses
\* no descriptor and does not overfill its queue, for any number of connections.
THEOREM SuiteRequests == SuiteSpec => []OneRequestEach
BY SuiteInvariant, PTL DEF ProvedRight

\* multi_level_queuing.c has each process in the one queue of the level that its time
\* has earned, and none overtakes, for any number of processes, levels and burst times.
THEOREM SuiteLevels == SuiteSpec => []LevelIsEarned
BY SuiteInvariant, PTL DEF ProvedRight
=============================================================================

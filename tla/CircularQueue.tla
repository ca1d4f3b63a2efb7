--------------------------- MODULE CircularQueue ---------------------------
(***************************************************************************)
(* The ring-buffer queue of utils/circularQueue.c: one action per exported *)
(* function.  The caller is any sequence of calls that creates the queue   *)
(* before it creates it again, as the test suite does.                     *)
(***************************************************************************)
EXTENDS Integers, Sequences

CONSTANTS Values,      \* the ints a caller stores
          Junk,        \* what malloc'ed memory holds before it is written
          MaxSize,     \* bound on the capacities callers ask for
          ExactResize  \* may a caller shrink the queue to exactly its entries?

ASSUME ValuesAssumption == Junk \notin Values
ASSUME SizeAssumption == MaxSize \in Nat \ {0} /\ ExactResize \in BOOLEAN

VARIABLES values, head, tail, num_entries, size, initialized,
          ret          \* [code, val]: what the last call returned or printed

vars == <<values, head, tail, num_entries, size, initialized, ret>>

Sizes == 0 .. MaxSize

malloc(n) == [i \in 0 .. n - 1 |-> Junk]

Return(c, v) == ret' = [code |-> c, val |-> v]

queue == <<values, head, tail, num_entries, size, initialized>>

Fail(c) == Return(c, <<>>) /\ UNCHANGED queue

Init == /\ values = malloc(0)
        /\ head = 0 /\ tail = 0 /\ num_entries = 0 /\ size = 0
        /\ initialized = FALSE
        /\ ret = [code |-> "SUCCESS", val |-> <<>>]
-----------------------------------------------------------------------------
queue_empty == num_entries = 0

queue_full == num_entries = size

queue_init(n) ==
    /\ ~initialized
    /\ \/ n <= 0 /\ Fail("INVALID")
       \/ n > 0 /\ Fail("MEMORY")
       \/ /\ n > 0
          /\ values' = malloc(n)
          /\ size' = n
          /\ head' = 0 /\ tail' = 0 /\ num_entries' = 0
          /\ initialized' = TRUE
          /\ Return("SUCCESS", <<>>)

queue_destroy ==
    \/ ~initialized /\ Fail("INVALID")
    \/ /\ initialized
       /\ values' = malloc(0)
       /\ size' = 0 /\ head' = 0 /\ tail' = 0 /\ num_entries' = 0
       /\ initialized' = FALSE
       /\ Return("SUCCESS", <<>>)

\* A store outside 0 .. size - 1 lands past the array and leaves it alone.
queue_enqueue(v) ==
    \/ ~initialized /\ Fail("INVALID")
    \/ initialized /\ queue_full /\ Fail("FULL")
    \/ /\ initialized /\ ~queue_full
       /\ values' = [values EXCEPT ![tail] = v]
       /\ tail' = (tail + 1) % size
       /\ num_entries' = num_entries + 1
       /\ Return("SUCCESS", <<>>)
       /\ UNCHANGED <<head, size, initialized>>

queue_dequeue ==
    \/ ~initialized /\ Fail("INVALID")
    \/ initialized /\ queue_empty /\ Fail("EMPTY")
    \/ /\ initialized /\ ~queue_empty
       /\ Return("SUCCESS", <<values[head]>>)
       /\ head' = (head + 1) % size
       /\ num_entries' = num_entries - 1
       /\ UNCHANGED <<values, tail, size, initialized>>

\* peek answers QUEUE_EMPTY, which is no element, when there is none.
queue_peek ==
    \/ (~initialized \/ queue_empty) /\ Fail("EMPTY")
    \/ /\ initialized /\ ~queue_empty
       /\ Return("SUCCESS", <<values[head]>>)
       /\ UNCHANGED queue

queue_clear ==
    \/ ~initialized /\ Fail("INVALID")
    \/ /\ initialized
       /\ head' = 0 /\ tail' = 0 /\ num_entries' = 0
       /\ Return("SUCCESS", <<>>)
       /\ UNCHANGED <<values, size, initialized>>

\* The slots from head on, num_entries of them, in ring order.
FromHead == [i \in 1 .. num_entries |-> values[(head + i - 1) % size]]

\* Mutant: the slots are copied from index 0, not from head.
queue_resize_NoRotate(n) ==
    /\ initialized /\ n > 0 /\ n >= num_entries
    /\ values' = [i \in 0 .. n - 1 |-> IF i < num_entries THEN values[i] ELSE Junk]
    /\ size' = n
    /\ head' = 0
    /\ tail' = num_entries
    /\ Return("SUCCESS", <<>>)
    /\ UNCHANGED <<num_entries, initialized>>

\* Dequeues everything into the new array; tail is the number copied.
queue_resize(n) ==
    \/ (~initialized \/ n <= 0 \/ n < num_entries) /\ Fail("INVALID")
    \/ initialized /\ n > 0 /\ n >= num_entries /\ Fail("MEMORY")
    \/ /\ initialized /\ n > 0 /\ n >= num_entries
       /\ values' = [i \in 0 .. n - 1 |->
                       IF i < num_entries THEN FromHead[i + 1] ELSE Junk]
       /\ size' = n
       /\ head' = 0
       /\ tail' = num_entries
       /\ Return("SUCCESS", <<>>)
       /\ UNCHANGED <<num_entries, initialized>>

queue_print ==
    \/ ~initialized /\ Fail("INVALID")
    \/ initialized /\ Return("SUCCESS", FromHead) /\ UNCHANGED queue
-----------------------------------------------------------------------------
Next == \/ queue_destroy \/ queue_dequeue \/ queue_peek
        \/ queue_clear \/ queue_print
        \/ \E v \in Values : queue_enqueue(v)
        \/ \E n \in Sizes : \/ queue_init(n)
                            \/ (ExactResize \/ n # num_entries) /\ queue_resize(n)

Spec == Init /\ [][Next]_vars
-----------------------------------------------------------------------------
\* Types, and both cursors inside the array of a live queue.
TypeOK ==
    /\ initialized \in BOOLEAN
    /\ size \in Sizes
    /\ initialized <=> size > 0
    /\ values \in [0 .. size - 1 -> Values \cup {Junk}]
    /\ num_entries \in 0 .. size
    /\ IF initialized THEN head \in 0 .. size - 1 /\ tail \in 0 .. size - 1
                      ELSE head = 0 /\ tail = 0

\* tail is where head arrives after num_entries steps round the ring, so an
\* enqueue never overwrites an element that has not been dequeued.
RingConsistent == initialized => tail = (head + num_entries) % size

\* Every element between head and tail was stored by an enqueue: dequeue,
\* peek and print never read memory malloc left unwritten.
NoJunkInside == \A i \in 1 .. num_entries : FromHead[i] \in Values

IndInv == TypeOK /\ RingConsistent /\ NoJunkInside

\* The queue implements the bounded FIFO: same elements, same order, refused
\* only when full, empty, invalid or out of memory; resize keeps the elements.
Fifo == INSTANCE BoundedFifo
          WITH live <- initialized, capacity <- size, contents <- FromHead

ImplementsFifo == Fifo!Spec

\* "Index of the next free position" (the comment on tail): a queue that is
\* not full can store at values[tail].
TailIsFreePosition == initialized /\ ~queue_full => tail \in 0 .. size - 1
=============================================================================

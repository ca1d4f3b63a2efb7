----------------------------- MODULE RingQueue -----------------------------
(***************************************************************************)
(* The queue that the programs in concurrency/scheduling share: an array   *)
(* used as a ring, with front, rear and size, where rear is the slot of    *)
(* the newest item and is -1 before there is one.                          *)
(***************************************************************************)
EXTENDS Integers, Sequences

CONSTANTS Capacity,   \* MAX_QUEUE_SIZE, QUEUE_SIZE
          NoItem      \* what is in a slot that was never written

Slots == 0 .. Capacity - 1

initQueue == [items |-> [s \in Slots |-> NoItem], front |-> 0, rear |-> -1, size |-> 0]

isQueueEmpty(q) == q.size = 0
isQueueFull(q) == q.size = Capacity

\* A full queue drops the item.
enqueue(q, x) ==
    LET rear == (q.rear + 1) % Capacity
    IN IF isQueueFull(q) THEN q
       ELSE [q EXCEPT !.items[rear] = x, !.rear = rear, !.size = @ + 1]

\* The callers have made sure that the queue is not empty.
front(q) == q.items[q.front]
dequeue(q) == [q EXCEPT !.front = (@ + 1) % Capacity, !.size = @ - 1]

\* The queue from its oldest item to its newest.
Contents(q) == [k \in 1 .. q.size |-> q.items[(q.front + k - 1) % Capacity]]

\* The newest item is where size says: what the three fields have to agree on.
RingOK(q) ==
    /\ DOMAIN q.items = Slots /\ q.front \in Slots /\ q.size \in 0 .. Capacity
    /\ q.rear \in {-1} \cup Slots
    /\ q.rear = -1 => q.front = 0 /\ q.size = 0
    /\ q.rear >= 0 => (q.rear + 1) % Capacity = (q.front + q.size) % Capacity
    /\ \A k \in 1 .. q.size : Contents(q)[k] # NoItem
=============================================================================

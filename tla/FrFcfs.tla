------------------------------- MODULE FrFcfs -------------------------------
(***************************************************************************)
(* accessPatterns/FirstReady-FirstComeFirstServe.c: requests that hit the  *)
(* open row wait in one queue and the others in a second one; the first is *)
(* served before the second.  main fills the queues, then drains them.     *)
(***************************************************************************)
EXTENDS RingQueue, FiniteSets

CONSTANTS MaxRequests,   \* the 10 requests main makes
          Items,         \* the requests
          Hit            \* those of Items with is_row_buffer_hit

VARIABLES hitQueue, missQueue,
          made,          \* the requests made, in order
          scheduled,     \* the requests served, in order
          exited         \* exit(1): a request was asked for and none was there

vars == <<hitQueue, missQueue, made, scheduled, exited>>

Init == /\ hitQueue = initQueue /\ missQueue = initQueue
        /\ made = <<>> /\ scheduled = <<>> /\ exited = FALSE

\* One turn of the first loop of main.
Request(x) ==
    /\ Len(made) < MaxRequests
    /\ made' = Append(made, x)
    /\ hitQueue' = IF x \in Hit THEN enqueue(hitQueue, x) ELSE hitQueue
    /\ missQueue' = IF x \in Hit THEN missQueue ELSE enqueue(missQueue, x)
    /\ UNCHANGED <<scheduled, exited>>

frFcfsSchedule ==
    IF ~isQueueEmpty(hitQueue)
    THEN /\ scheduled' = Append(scheduled, front(hitQueue))
         /\ hitQueue' = dequeue(hitQueue) /\ UNCHANGED <<missQueue, exited>>
    ELSE IF ~isQueueEmpty(missQueue)
    THEN /\ scheduled' = Append(scheduled, front(missQueue))
         /\ missQueue' = dequeue(missQueue) /\ UNCHANGED <<hitQueue, exited>>
    ELSE exited' = TRUE /\ UNCHANGED <<hitQueue, missQueue, scheduled>>

\* One turn of the second loop of main.
Serve ==
    /\ Len(made) = MaxRequests /\ ~exited
    /\ ~isQueueEmpty(hitQueue) \/ ~isQueueEmpty(missQueue)
    /\ frFcfsSchedule
    /\ UNCHANGED made

Next == (\E x \in Items : Request(x)) \/ Serve

Spec == Init /\ [][Next]_vars /\ WF_vars(Serve)
-----------------------------------------------------------------------------
\* Types, with both rings consistent.
TypeOK ==
    /\ RingOK(hitQueue) /\ RingOK(missQueue)
    /\ \A k \in DOMAIN made : made[k] \in Items
    /\ \A k \in DOMAIN scheduled : scheduled[k] \in Items
    /\ exited \in BOOLEAN

\* The requests of made that the queues took: each queue drops what comes
\* when it is full.
IsHit(x) == x \in Hit
IsMiss(x) == x \notin Hit
Taken(P(_)) ==
    LET all == SelectSeq(made, P) IN SubSeq(all, 1, IF Len(all) < Capacity THEN Len(all) ELSE Capacity)

\* What has been served and what waits is, at any time in the second loop,
\* all accepted hits in order and then all accepted misses in order.
HitsThenMisses ==
    Len(made) = MaxRequests /\ ~exited =>
        scheduled \o Contents(hitQueue) \o Contents(missQueue) = Taken(IsHit) \o Taken(IsMiss)

\* Once all requests are made they are all served, and exit(1) is not reached.
AllServed ==
    []<>(Len(made) = MaxRequests =>
            isQueueEmpty(hitQueue) /\ isQueueEmpty(missQueue) /\ ~exited)
=============================================================================

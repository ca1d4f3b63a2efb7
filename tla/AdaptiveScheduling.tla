------------------------- MODULE AdaptiveScheduling -------------------------
(***************************************************************************)
(* concurrency/scheduling/AdaptiveThread-AwareScheduling.c: in every cycle *)
(* the threads may request memory, and the oldest request of a thread of   *)
(* the highest priority is taken out of the middle of the ring.            *)
(***************************************************************************)
EXTENDS RingQueue

CONSTANTS Threads,      \* 0 .. MAX_THREADS - 1
          Steps,        \* how many instructions a thread may run in a cycle
          Interval,     \* ADAPTATION_INTERVAL
          Threshold,    \* MEMORY_INTENSIVE_THRESHOLD, per 1000 instructions
          MaxCycles

\* A request carries its number instead of an address and a timestamp.
Requests == [thread_id : Threads, num : 1 .. MaxCycles]

VARIABLES requestQueue,
          threads,      \* ThreadInfo of every thread
          cycle, i,     \* main's loop counters
          scheduled     \* the requests processed so far

vars == <<requestQueue, threads, cycle, i, scheduled>>

Init == /\ requestQueue = initQueue
        /\ threads = [t \in Threads |-> [memory_requests |-> 0, instructions |-> 0,
                                         is_memory_intensive |-> FALSE, priority |-> 1]]
        /\ cycle = 0 /\ i = 0 /\ scheduled = <<>>

\* One turn of the inner loop: thread i runs, and may request memory.
run_thread ==
    /\ cycle < MaxCycles /\ i \in Threads
    /\ \E n \in Steps, asks \in BOOLEAN :
          LET r == [thread_id |-> i, num |-> threads[i].memory_requests + 1]
          IN /\ threads' = [threads EXCEPT ![i].instructions = @ + n,
                                           ![i].memory_requests = IF asks THEN @ + 1 ELSE @]
             /\ requestQueue' = IF asks THEN enqueue(requestQueue, r) ELSE requestQueue
    /\ i' = i + 1
    /\ UNCHANGED <<cycle, scheduled>>

classifyThreads(ts) ==
    [t \in Threads |->
       LET intensive == ts[t].memory_requests * 1000 > Threshold * ts[t].instructions
       IN [ts[t] EXCEPT !.is_memory_intensive = intensive,
                        !.priority = IF intensive THEN 2 ELSE 1]]

adaptSchedulingPolicy(ts) ==
    [t \in Threads |-> IF ts[t].is_memory_intensive THEN [ts[t] EXCEPT !.priority = @ + 1]
                       ELSE ts[t]]

Slot(q, k) == (q.front + k) % Capacity

\* Mutant: the last of the best is taken.
Select_Last(q, ts) ==
    LET pri(k) == ts[q.items[Slot(q, k)].thread_id].priority
        best[k \in 0 .. q.size] ==
          IF k = 0 THEN [high |-> 0, index |-> -1]
          ELSE IF pri(k - 1) >= best[k - 1].high THEN [high |-> pri(k - 1), index |-> Slot(q, k - 1)]
          ELSE best[k - 1]
    IN best[q.size].index

\* The scan from front to rear.
Select(q, ts) ==
    LET pri(k) == ts[q.items[Slot(q, k)].thread_id].priority
        best[k \in 0 .. q.size] ==
          IF k = 0 THEN [high |-> 0, index |-> -1]
          ELSE IF pri(k - 1) > best[k - 1].high THEN [high |-> pri(k - 1), index |-> Slot(q, k - 1)]
          ELSE best[k - 1]
    IN best[q.size].index

\* Everything from index to rear moves one slot down.
TakeOut(q, index) ==
    LET shifts == (q.rear - index + Capacity) % Capacity
        moved == {(index + k) % Capacity : k \in 0 .. shifts - 1}
    IN [q EXCEPT !.items = [s \in Slots |-> IF s \in moved THEN q.items[(s + 1) % Capacity] ELSE @[s]],
                 !.rear = (@ - 1 + Capacity) % Capacity, !.size = @ - 1]

\* The request that is processed, and the queue without it.
scheduleRequest(q, ts) ==
    LET index == Select(q, ts)
    IN IF index = -1 THEN [request |-> front(q), queue |-> dequeue(q)]
       ELSE [request |-> q.items[index], queue |-> TakeOut(q, index)]

\* The rest of a cycle, after all threads have run.
end_cycle ==
    /\ cycle < MaxCycles /\ i \notin Threads
    /\ threads' = IF cycle % Interval = 0 THEN adaptSchedulingPolicy(classifyThreads(threads))
                  ELSE threads
    /\ IF isQueueEmpty(requestQueue) THEN UNCHANGED <<requestQueue, scheduled>>
       ELSE LET s == scheduleRequest(requestQueue, threads')
            IN requestQueue' = s.queue /\ scheduled' = Append(scheduled, s.request)
    /\ cycle' = cycle + 1 /\ i' = 0

Next == run_thread \/ end_cycle \/ (cycle = MaxCycles /\ UNCHANGED vars)
Spec == Init /\ [][Next]_vars
-----------------------------------------------------------------------------
\* The ring stays consistent though requests leave it from the middle.
QueueOK == RingOK(requestQueue)

\* What is processed is the oldest request of the highest priority, and the others
\* keep their order.  (front never moves in this program: no thread has priority 0,
\* so scheduleRequest never gets to its call of dequeue.)
TakesOldestOfBest ==
    [][Len(scheduled') > Len(scheduled) =>
         LET c == Contents(requestQueue)
             pri(k) == threads'[c[k].thread_id].priority
             k == CHOOSE k \in DOMAIN c : /\ \A j \in DOMAIN c : pri(j) <= pri(k)
                                          /\ \A j \in 1 .. k - 1 : pri(j) < pri(k)
         IN /\ scheduled'[Len(scheduled')] = c[k]
            /\ Contents(requestQueue') = SubSeq(c, 1, k - 1) \o SubSeq(c, k + 1, Len(c))]_vars

\* Whatever priorities do, the requests of one thread are processed in the order
\* they were made, and none is processed or queued twice.
ThreadFifo ==
    LET all == scheduled \o Contents(requestQueue)
    IN \A j, k \in DOMAIN all :
          j < k /\ all[j].thread_id = all[k].thread_id => all[j].num < all[k].num
=============================================================================

-------------------------- MODULE BatchScheduling --------------------------
(***************************************************************************)
(* concurrency/scheduling/Parallelism-AwareBatchScheduling.c: requests are *)
(* taken from the ring in batches; within a batch the bank with the most   *)
(* requests goes first, and in a bank the row-buffer hits.                 *)
(***************************************************************************)
EXTENDS RingQueue, FiniteSets, Functions

CONSTANTS Banks,         \* MAX_BANKS
          BatchSize,     \* MAX_BATCH_SIZE
          MaxRequests,   \* how many requests main makes
          MaxTime        \* bound on the clock

\* A request carries its number instead of an address.
Requests == [num : 1 .. MaxRequests, timestamp : 1 .. MaxTime,
             bank : 0 .. Banks - 1, is_row_buffer_hit : BOOLEAN]

VARIABLES requestQueue, batch, is_marked, bankRanking, i, pc,
          made,        \* how many requests were made
          clock,       \* what time(NULL) returned last
          processed    \* the requests that scheduleRequest returned

vars == <<requestQueue, batch, is_marked, bankRanking, i, pc, made, clock, processed>>

Init == /\ requestQueue = initQueue /\ batch = <<>> /\ is_marked = <<>> /\ bankRanking = <<>>
        /\ made = 0 /\ clock = 1 /\ processed = <<>> /\ i = 0 /\ pc = "make"

\* The first loop of main: the clock may tick between two requests.
make_request ==
    /\ pc = "make"
    /\ IF made = MaxRequests THEN pc' = "batch" /\ UNCHANGED <<requestQueue, made, clock>>
       ELSE /\ \E r \in Requests :
                  /\ r.num = made + 1 /\ r.timestamp \in clock .. clock + 1
                  /\ requestQueue' = enqueue(requestQueue, r)
                  /\ clock' = r.timestamp
            /\ made' = made + 1 /\ UNCHANGED pc
    /\ UNCHANGED <<batch, is_marked, bankRanking, i, processed>>

\* The batch loop: n calls of dequeue.
formBatch(q) ==
    LET n == IF q.size < BatchSize THEN q.size ELSE BatchSize
    IN [queue |-> [q EXCEPT !.front = (@ + n) % Capacity, !.size = @ - n],
        batch |-> SubSeq(Contents(q), 1, n)]

bankCount(b, bank) == Cardinality({k \in DOMAIN b : b[k].bank = bank})

\* One comparison of the bubble sort, of the j-th bank and the next.
Swap(b, r, j) == IF bankCount(b, r[j]) < bankCount(b, r[j + 1])
                 THEN [r EXCEPT ![j] = r[j + 1], ![j + 1] = r[j]] ELSE r

\* The bubble sort of the bank numbers: pass n compares the pairs 1 .. Banks - n.
rankBanks(b) ==
    LET sort[r \in [1 .. Banks -> 0 .. Banks - 1], n \in 1 .. Banks, j \in 1 .. Banks] ==
          IF n = Banks THEN r
          ELSE IF j > Banks - n THEN sort[r, n + 1, 1]
          ELSE sort[Swap(b, r, j), n, j + 1]
    IN sort[[k \in 1 .. Banks |-> k - 1], 1, 1]

form_batch ==
    /\ pc = "batch" /\ ~isQueueEmpty(requestQueue)
    /\ LET f == formBatch(requestQueue)
       IN /\ requestQueue' = f.queue /\ batch' = f.batch
          /\ is_marked' = [k \in DOMAIN f.batch |-> TRUE]
          /\ bankRanking' = rankBanks(f.batch)
    /\ pc' = "schedule" /\ i' = 0
    /\ UNCHANGED <<made, clock, processed>>

\* The first of the oldest requests of a set of places in the batch.
Oldest(ks) == CHOOSE k \in ks : \A j \in ks \ {k} :
                 batch[k].timestamp < batch[j].timestamp
                 \/ (batch[k].timestamp = batch[j].timestamp /\ k < j)

\* Mutant: hits are not preferred.
Choice_NoHit(ks) == Oldest(ks)

Choice(ks) == LET hits == {k \in ks : batch[k].is_row_buffer_hit}
              IN IF hits # {} THEN Oldest(hits) ELSE Oldest(ks)

Unmark(k) == [is_marked EXCEPT ![k] = FALSE]

\* One turn of main's inner loop, which runs batchSize times.
scheduleRequest ==
    LET marked(bank) == {k \in DOMAIN batch : batch[k].bank = bank /\ is_marked[k]}
        ranks == {r \in 1 .. Banks : marked(bankRanking[r]) # {}}
        first == CHOOSE r \in ranks : \A s \in ranks : r <= s
        k == Choice(marked(bankRanking[first]))
    IN /\ pc = "schedule"
       /\ IF ranks = {} THEN pc' = "exit(1)" /\ UNCHANGED <<is_marked, processed, i>>
          ELSE /\ is_marked' = Unmark(k)
               /\ processed' = Append(processed, batch[k])
               /\ i' = i + 1
               /\ pc' = IF i' < Len(batch) THEN "schedule" ELSE "batch"
       /\ UNCHANGED <<requestQueue, batch, bankRanking, made, clock>>

Done == pc = "batch" /\ isQueueEmpty(requestQueue)

Next == make_request \/ form_batch \/ scheduleRequest \/ (Done /\ UNCHANGED vars)
Spec == Init /\ [][Next]_vars /\ WF_vars(form_batch \/ scheduleRequest \/ make_request)
-----------------------------------------------------------------------------
\* The ring stays consistent, and the batch array is not overrun.
QueueOK == RingOK(requestQueue) /\ Len(batch) <= BatchSize

\* The bubble sort ranks the banks by their number of requests in the batch, and
\* banks with equally many in the order of their numbers.
RankedByCount ==
    pc = "schedule" =>
        /\ Range(bankRanking) = 0 .. Banks - 1
        /\ \A j, k \in 1 .. Banks : j < k =>
              LET x == bankRanking[j]
                  y == bankRanking[k]
              IN \/ bankCount(batch, x) > bankCount(batch, y)
                 \/ bankCount(batch, x) = bankCount(batch, y) /\ x < y

\* Of one batch: a bank is finished before the next is begun, its hits go first,
\* and among those the oldest.
OrderInBatch ==
    LET since == SubSeq(processed, Len(processed) - i + 1, Len(processed))
        rank(r) == CHOOSE k \in 1 .. Banks : bankRanking[k] = r.bank
    IN \A j, k \in DOMAIN since : j < k =>
          /\ rank(since[j]) <= rank(since[k])
          /\ rank(since[j]) = rank(since[k]) =>
                /\ since[k].is_row_buffer_hit => since[j].is_row_buffer_hit
                /\ since[j].is_row_buffer_hit = since[k].is_row_buffer_hit =>
                      since[j].num < since[k].num

\* main ends, and then every request that found room was processed exactly once.
AllProcessed ==
    <>[](/\ Done
         /\ {processed[k].num : k \in DOMAIN processed} = 1 .. Len(processed)
         /\ Len(processed) = IF made < Capacity THEN made ELSE Capacity)
=============================================================================

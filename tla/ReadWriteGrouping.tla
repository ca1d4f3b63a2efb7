------------------------- MODULE ReadWriteGrouping -------------------------
(***************************************************************************)
(* accessPatterns/readWriteGrouping.c: a memory controller with a queue of *)
(* reads and a queue of writes, served in groups of one kind, and a direct *)
(* mapped TLB.  main queues its requests and then runs the controller for  *)
(* a fixed number of cycles.  The bank timers only delay a transfer and    *)
(* are left out; so is the spin lock, which one thread never waits for.    *)
(***************************************************************************)
EXTENDS Integers, Sequences, Functions

CONSTANTS QueueSize,    \* MAX_QUEUE_SIZE
          TlbSize,      \* TLB_SIZE
          Addresses,    \* the addresses rand() yields; odd ones are reads
          Priorities,
          AddressBits,  \* the width of Addresses, 64 in the code
          Requests,     \* the 100 requests of main
          MaxCycles     \* the 1000000 cycles of process_memory_requests

VARIABLES queue,         \* read_queue and write_queue
          current_mode, count,   \* read_count and write_count
          tlb, buffer,   \* the physical addresses of data_buffer written to
          made, cycle,   \* how far the two loops are
          accepted, served   \* by kind: what was queued and what was served

vars == <<queue, current_mode, count, tlb, buffer, made, cycle, accepted, served>>

Kinds == {"read", "write"}
Other(k) == IF k = "read" THEN "write" ELSE "read"
Slots == 0 .. QueueSize - 1
MemoryRequest == [address : Addresses, priority : Priorities]
NoRequest == [address |-> 0, priority |-> 0]   \* a slot before its first use

init_queue == [requests |-> [s \in Slots |-> NoRequest],
               head |-> 0, tail |-> 0, size |-> 0, total_age |-> 0]

\* A full queue drops the request.
enqueue(q, r) ==
    IF q.size = QueueSize THEN q
    ELSE [q EXCEPT !.requests[q.tail] = r, !.tail = (@ + 1) % QueueSize,
                   !.size = @ + 1, !.total_age = @ + r.priority]

\* For a queue that is not empty.
dequeue(q) ==
    [req |-> q.requests[q.head],
     q |-> [q EXCEPT !.head = (@ + 1) % QueueSize, !.size = @ - 1,
                     !.total_age = @ - q.requests[q.head].priority]]

Bit(n, b) == (n \div 2 ^ b) % 2

\* logical_addr ^ (logical_addr >> 12), with a shift that fits Addresses.
Physical(a) ==
    CHOOSE p \in 0 .. 2 ^ AddressBits - 1 :
        \A b \in 0 .. AddressBits - 1 : Bit(p, b) = (Bit(a, b) + Bit(a, b + 1)) % 2

init_memory_controller ==
    /\ queue = [k \in Kinds |-> init_queue]
    /\ current_mode = "read" /\ count = [k \in Kinds |-> 0]
    /\ tlb = [i \in 0 .. TlbSize - 1 |-> [logical |-> 0, physical |-> 0]]
    /\ buffer = {}

Init == /\ init_memory_controller
        /\ made = 0 /\ cycle = 0
        /\ accepted = [k \in Kinds |-> <<>>] /\ served = [k \in Kinds |-> <<>>]

\* The TLB after the lookup.
translate_address(a) ==
    IF tlb[a % TlbSize].logical = a THEN tlb
    ELSE [tlb EXCEPT ![a % TlbSize] = [logical |-> a, physical |-> Physical(a)]]

\* An odd address is read, an even one written.
handle_data_transfer(req) ==
    /\ tlb' = translate_address(req.address)
    /\ buffer' = IF req.address % 2 = 1 THEN buffer
                 ELSE buffer \cup {tlb'[req.address % TlbSize].physical}

\* One request of main's loop.
Fill(r) ==
    LET k == IF r.address % 2 = 1 THEN "read" ELSE "write"
    IN /\ made < Requests
       /\ made' = made + 1
       /\ queue' = [queue EXCEPT ![k] = enqueue(@, r)]
       /\ accepted' = IF queue[k].size = QueueSize THEN accepted
                      ELSE [accepted EXCEPT ![k] = Append(@, r)]
       /\ UNCHANGED <<current_mode, count, tlb, buffer, cycle, served>>

\* A cycle in READ_MODE or WRITE_MODE.
ServeMode ==
    LET k == current_mode
        d == dequeue(queue[k])
        waiting == queue[Other(k)].size > 0
    IN /\ k \in Kinds
       /\ IF queue[k].size = 0
          THEN /\ current_mode' = IF waiting THEN "transition" ELSE k
               /\ UNCHANGED <<queue, count, tlb, buffer, served>>
          ELSE /\ queue' = [queue EXCEPT ![k] = d.q]
               /\ handle_data_transfer(d.req)
               /\ count' = [count EXCEPT ![k] = @ + 1]
               /\ current_mode' = IF count'[k] >= QueueSize \div 2 /\ waiting
                                  THEN "transition" ELSE k
               /\ served' = [served EXCEPT ![k] = Append(@, d.req)]

\* A cycle in MODE_TRANSITION.  The next mode is chosen by comparing the mode,
\* which is MODE_TRANSITION now, with READ_MODE.
Transition ==
    /\ current_mode = "transition"
    /\ current_mode' = IF current_mode = "read" THEN "write" ELSE "read"
    /\ count' = [k \in Kinds |-> 0]
    /\ UNCHANGED <<queue, tlb, buffer, served>>

process_memory_requests ==
    /\ made = Requests /\ cycle < MaxCycles
    /\ cycle' = cycle + 1
    /\ ServeMode \/ Transition
    /\ UNCHANGED <<made, accepted>>

Next == (\E r \in MemoryRequest : Fill(r)) \/ process_memory_requests

Spec == Init /\ [][Next]_vars
-----------------------------------------------------------------------------
Contents(q) == [i \in 1 .. q.size |-> q.requests[(q.head + i - 1) % QueueSize]]

\* Types.
TypeOK ==
    /\ \A k \in Kinds : /\ queue[k].requests \in [Slots -> MemoryRequest \cup {NoRequest}]
                        /\ queue[k].head \in Slots /\ queue[k].tail \in Slots
                        /\ queue[k].size \in 0 .. QueueSize
    /\ current_mode \in Kinds \cup {"transition"}
    /\ count \in [Kinds -> 0 .. Requests]
    /\ made \in 0 .. Requests /\ cycle \in 0 .. MaxCycles

\* total_age, kept by adding and subtracting priorities, is the sum of the
\* priorities of the requests that wait: a refused request adds nothing.
AgeIsSum ==
    \A k \in Kinds : queue[k].total_age =
        FoldFunction(LAMBDA r, sum : sum + r.priority, 0, Contents(queue[k]))

\* Each queue gives out its requests in the order enqueue took them, none
\* lost or repeated across the wrap of head and tail.
FirstInFirstOut == \A k \in Kinds : served[k] \o Contents(queue[k]) = accepted[k]

\* A TLB hit returns what the translation would compute, also for the zeroed
\* entries, which look like a translation of address 0.
TlbIsRight == \A i \in DOMAIN tlb : tlb[i].physical = Physical(tlb[i].logical)

\* With the cycles main allows, every read is served, whatever the mode
\* switches that waiting writes cause in between.
ReadsAreServed == cycle = MaxCycles => queue["read"].size = 0

=============================================================================

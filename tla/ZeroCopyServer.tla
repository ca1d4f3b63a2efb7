--------------------------- MODULE ZeroCopyServer ---------------------------
(***************************************************************************)
(* unix/zero_copy_server: an echo server on io_uring.  Its one thread      *)
(* submits the requests it has queued, waits for a completion and handles  *)
(* all there are; each handler queues the request that follows.  A request *)
(* is queued (sq), then with the kernel (inflight), then complete (cq).    *)
(***************************************************************************)
EXTENDS Integers, Sequences, FiniteSets

CONSTANTS MaxConnections,  \* MAX_CONNECTIONS
          QueueDepth,      \* QUEUE_DEPTH
          Fds              \* the descriptors accept may return

VARIABLES conn_table, sq, inflight, cq,
          phase,     \* "wait" in io_uring_submit_and_wait, "loop" over completions,
                     \* "full" exited for want of an sqe, "failed" exited otherwise
          open,      \* the client descriptors the process has open
          gone       \* those of them whose client has closed

vars == <<conn_table, sq, inflight, cq, phase, open, gone>>

Slots == 0 .. MaxConnections - 1
conn_info == [fd : Fds \cup {0, -1}, in_use : BOOLEAN, buf : BOOLEAN]
Accept == [event |-> "accept", fd |-> -1, conn |-> -1]
Read(s, fd) == [event |-> "read", fd |-> fd, conn |-> s]
io_data == {Accept} \cup {Read(s, fd) : s \in Slots, fd \in Fds}

\* The lowest descriptor that is free, and the first free slot.
Lowest(S) == CHOOSE n \in S : \A m \in S : n <= m

\* calloc: the descriptor of a slot never used is 0.
init_conn_table == [s \in Slots |-> [fd |-> 0, in_use |-> FALSE, buf |-> FALSE]]

\* main, up to its loop.
Init == /\ conn_table = init_conn_table
        /\ sq = <<Accept>> /\ inflight = <<>> /\ cq = <<>>
        /\ phase = "loop" /\ open = {} /\ gone = {}
-----------------------------------------------------------------------------
(* The kernel and the clients.                                             *)

\* The completion of inflight[i] with result res.
Complete(i, res) ==
    /\ cq' = Append(cq, [data |-> inflight[i], res |-> res])
    /\ inflight' = SubSeq(inflight, 1, i - 1) \o SubSeq(inflight, i + 1, Len(inflight))

\* A client connects and gets the lowest free descriptor, or accept fails.
KernelAccept(i) ==
    /\ inflight[i].event = "accept"
    /\ \/ /\ Fds \ open # {}
          /\ LET fd == Lowest(Fds \ open) IN Complete(i, fd) /\ open' = open \cup {fd}
       \/ Complete(i, -1) /\ UNCHANGED open
    /\ UNCHANGED <<conn_table, sq, phase, gone>>

\* Some bytes, the end of the stream, or an error.
KernelRead(i) ==
    /\ inflight[i].event = "read"
    /\ Complete(i, IF inflight[i].fd \in gone THEN 0 ELSE 1) \/ Complete(i, -1)
    /\ UNCHANGED <<conn_table, sq, phase, open, gone>>

ClientCloses(fd) ==
    /\ fd \in open \ gone
    /\ gone' = gone \cup {fd}
    /\ UNCHANGED <<conn_table, sq, inflight, cq, phase, open>>
-----------------------------------------------------------------------------
(* The server.                                                             *)

\* The requests of the handler are put in the submission queue; when it has
\* no room the server exits.
Queue(reqs) ==
    IF Len(sq) + Len(reqs) > QueueDepth
    THEN sq' = sq /\ phase' = "full"
    ELSE sq' = sq \o reqs /\ phase' = "loop"

close(fd) == open' = open \ {fd} /\ gone' = gone \ {fd}

FreeSlots == {s \in Slots : ~conn_table[s].in_use}

\* The first free slot is taken and its first read queued; add_read_request
\* maps the buffer.  The next accept is queued in any case.
handle_accept(res) ==
    IF res < 0 THEN Queue(<<Accept>>) /\ UNCHANGED <<conn_table, open, gone>>
    ELSE IF FreeSlots = {} THEN Queue(<<Accept>>) /\ close(res) /\ UNCHANGED conn_table
    ELSE LET s == Lowest(FreeSlots)
         IN /\ conn_table' = [conn_table EXCEPT ![s] = [fd |-> res, in_use |-> TRUE, buf |-> TRUE]]
            /\ Queue(<<Read(s, res), Accept>>)
            /\ UNCHANGED <<open, gone>>

cleanup_conn(s) ==
    /\ conn_table' = [conn_table EXCEPT ![s] = [fd |-> -1, in_use |-> FALSE, buf |-> FALSE]]
    /\ close(conn_table[s].fd)

\* Mutant: a failed read is tried again after the slot has been given up.
handle_read_Retry(data, res) ==
    IF res <= 0 THEN cleanup_conn(data.conn) /\ Queue(<<data>>)
    ELSE Queue(<<Read(data.conn, conn_table[data.conn].fd)>>) /\ UNCHANGED <<conn_table, open, gone>>

\* The bytes are written back, and the next read goes to the same buffer.
handle_read(data, res) ==
    IF res <= 0 THEN cleanup_conn(data.conn) /\ Queue(<<>>)
    ELSE Queue(<<Read(data.conn, conn_table[data.conn].fd)>>) /\ UNCHANGED <<conn_table, open, gone>>

handle_completion ==
    /\ phase \in {"wait", "loop"} /\ cq # <<>>
    /\ LET c == Head(cq)
       IN IF c.data.event = "accept" THEN handle_accept(c.res) ELSE handle_read(c.data, c.res)
    /\ cq' = Tail(cq)
    /\ UNCHANGED inflight

\* All completions are handled: io_uring_submit_and_wait.
Submit ==
    /\ phase = "loop" /\ cq = <<>>
    /\ inflight' = inflight \o sq /\ sq' = <<>>
    /\ phase' = "wait"
    /\ UNCHANGED <<conn_table, cq, open, gone>>

\* A malloc, an mmap or the submission fails, and the process exits.
fatal_error ==
    /\ phase \in {"wait", "loop"}
    /\ phase' = "failed"
    /\ UNCHANGED <<conn_table, sq, inflight, cq, open, gone>>

Server == handle_completion \/ Submit
Kernel == \E i \in DOMAIN inflight : KernelAccept(i) \/ KernelRead(i)

Next == Server \/ fatal_error \/ Kernel \/ \E fd \in Fds : ClientCloses(fd)

\* The kernel completes the read of a descriptor whose client has closed.
ReadOfClosed(fd) ==
    \E i \in DOMAIN inflight : inflight[i].fd = fd /\ fd \in gone /\ KernelRead(i)

\* The server runs whenever it can, and such a read is completed.
Fairness == WF_vars(Server) /\ \A fd \in Fds : WF_vars(ReadOfClosed(fd))

Spec == Init /\ [][Next]_vars /\ Fairness
-----------------------------------------------------------------------------
Running == phase \in {"wait", "loop"}

\* Every request between its queueing and its completion's handling.
Completed == [k \in DOMAIN cq |-> cq[k].data]
Outstanding == sq \o inflight \o Completed

Count(P(_)) == Cardinality({k \in DOMAIN Outstanding : P(Outstanding[k])})

\* Types.
TypeOK ==
    /\ conn_table \in [Slots -> conn_info]
    /\ \A k \in DOMAIN Outstanding : Outstanding[k] \in io_data
    /\ phase \in {"wait", "loop", "full", "failed"}
    /\ open \subseteq Fds /\ gone \subseteq open

\* While the server runs there is exactly one accept outstanding, so a client
\* is always able to connect and no two accepts compete.
OneAccept == Running => Count(LAMBDA r : r.event = "accept") = 1

\* Every connection in use has exactly one read outstanding, of its own
\* descriptor and with its buffer mapped, and a free slot has none: a slot is
\* never given to a new client while a read for the old one is under way.
OneReadPerConnection ==
    Running => \A s \in Slots :
        LET c == conn_table[s]
        IN /\ Count(LAMBDA r : r.conn = s) = IF c.in_use THEN 1 ELSE 0
           /\ c.in_use => c.buf /\ Count(LAMBDA r : r = Read(s, c.fd)) = 1

\* An open descriptor belongs to exactly one connection, or to an accept that
\* is complete and not handled: none is leaked, none is used by two slots.
NoDescriptorLeak ==
    Running => \A fd \in open :
        Cardinality({s \in Slots : conn_table[s].in_use /\ conn_table[s].fd = fd})
          + Cardinality({k \in DOMAIN cq : cq[k].data = Accept /\ cq[k].res = fd}) = 1

\* With a submission queue of one entry per slot and one for the accept, no
\* burst of completions fills it and ends the server.
NeverFull == QueueDepth > MaxConnections => phase # "full"

\* A connection whose client has closed is cleaned up.
ClosedIsReleased == \A fd \in Fds : []<>(fd \notin gone \/ ~Running)
-----------------------------------------------------------------------------
(***************************************************************************)
(* The server for every number of connections and size of the queue.       *)
(***************************************************************************)

\* What is known of the constants; descriptor 0 is the standard input.
ServerConstants == MaxConnections \in Nat /\ QueueDepth \in Nat /\ Fds \subseteq Nat \ {0}

Requests(queue) == {queue[k] : k \in DOMAIN queue}

Once(s) == \A j, k \in DOMAIN s : s[j] = s[k] => j = k

\* The requests a server with this table has to have made.
Due(table) == {Accept} \cup {Read(s, table[s].fd) : s \in {s \in Slots : table[s].in_use}}

InUse == {s \in Slots : conn_table[s].in_use}

Completions == [data : io_data, res : Fds \cup {-1, 0, 1}]

Types ==
    /\ conn_table \in [Slots -> conn_info]
    /\ sq \in Seq(io_data) /\ inflight \in Seq(io_data) /\ cq \in Seq(Completions)
    /\ phase \in {"wait", "loop", "full", "failed"}
    /\ open \subseteq Fds /\ gone \subseteq open

\* Each request is in one place.
OnePlace ==
    /\ Once(sq) /\ Once(inflight) /\ Once(Completed)
    /\ Requests(sq) \cap Requests(inflight) = {} /\ Requests(sq) \cap Requests(Completed) = {}
    /\ Requests(inflight) \cap Requests(Completed) = {}

AllDue == Requests(sq) \cup Requests(inflight) \cup Requests(Completed) = Due(conn_table)

\* Descriptors: those of slots, and the one that a completed accept brings.
Owned ==
    /\ \A s \in InUse : conn_table[s].buf /\ conn_table[s].fd \in open
    /\ \A s, t \in InUse : conn_table[s].fd = conn_table[t].fd => s = t
    /\ \A k \in DOMAIN cq : cq[k].data = Accept =>
         \/ cq[k].res = -1
         \/ cq[k].res \in open /\ \A s \in InUse : conn_table[s].fd # cq[k].res
    /\ \A fd \in open : \/ \E s \in InUse : conn_table[s].fd = fd
                        \/ \E k \in DOMAIN cq : cq[k].data = Accept /\ cq[k].res = fd

ServerInv == Types /\ (Running => OnePlace /\ AllDue /\ Owned) /\ NeverFull
=============================================================================

------------------------------ MODULE AsidMmu -------------------------------
(***************************************************************************)
(* memory/virtual_mem/pageFlush.c: a TLB whose entries carry the address   *)
(* space id (ASID) of a process, page tables filled on demand, and frames  *)
(* with pin counts.  init_system leaves the processes to its caller: here  *)
(* they start without ASID and with empty page tables.  translate_address  *)
(* takes the page table of processes[asid], the ASID serving as an index.  *)
(***************************************************************************)
EXTENDS Integers

CONSTANTS TlbSize,     \* TLB_SIZE
          NumFrames,   \* memory_size / PAGE_SIZE
          Vpns,        \* the virtual pages that are used
          MaxAsid,     \* the largest value of an asid_t
          MaxPins      \* bound: pins a frame collects

VARIABLES pin_count,      \* of each frame
          page_table,     \* of each process: the frame of a page, or -1
          asid,           \* of each process; 0 when it has none yet
          tlb, current_asid, next_asid,
          released        \* history: frames whose pin_count went back to 0

vars == <<pin_count, page_table, asid, tlb, current_asid, next_asid, released>>
frames == <<pin_count, released>>

Slots == 0 .. TlbSize - 1
Frames == 0 .. NumFrames - 1
Asids == 0 .. MaxAsid
Processes == 0 .. MaxAsid   \* MAX_PROCESSES = 256 = 2^8

Init == /\ pin_count = [f \in Frames |-> 0] /\ released = {}
        /\ page_table = [p \in Processes |-> [v \in Vpns |-> -1]]
        /\ asid = [p \in Processes |-> 0]
        /\ tlb = [i \in Slots |-> [vpn |-> 0, pfn |-> 0, asid |-> 0, valid |-> FALSE]]
        /\ current_asid = 0 /\ next_asid = 1

pin_page(f) ==
    /\ pin_count[f] < MaxPins
    /\ pin_count' = [pin_count EXCEPT ![f] = @ + 1]
    /\ UNCHANGED <<page_table, asid, tlb, current_asid, next_asid, released>>

\* An unpinned page is left as it is.
unpin_page(f) ==
    /\ pin_count[f] > 0
    /\ pin_count' = [pin_count EXCEPT ![f] = @ - 1]
    /\ released' = IF pin_count[f] = 1 THEN released \cup {f} ELSE released
    /\ UNCHANGED <<page_table, asid, tlb, current_asid, next_asid>>

\* Entry e is for page v of address space a, valid or not.
Tagged(e, v, a) == e.vpn = v /\ e.asid = a
Hits(e, v, a) == e.valid /\ Tagged(e, v, a)

\* The TLB after flush_tlb_entry(v, a): the first entry with that tag is made
\* invalid, even if it already was.
Flushed(v, a) ==
    [i \in Slots |->
        IF Tagged(tlb[i], v, a) /\ \A j \in Slots : j < i => ~ Tagged(tlb[j], v, a)
        THEN [tlb[i] EXCEPT !.valid = FALSE] ELSE tlb[i]]

flush_tlb_entry(v, a) ==
    /\ tlb' = Flushed(v, a)
    /\ UNCHANGED <<frames, page_table, asid, current_asid, next_asid>>

Emptied == [i \in Slots |-> [tlb[i] EXCEPT !.valid = FALSE]]

flush_tlb ==
    /\ tlb' = Emptied
    /\ UNCHANGED <<frames, page_table, asid, current_asid, next_asid>>

\* Mutant: the last free entry is taken.
Filled_Last(v, a, f) ==
    [i \in Slots |->
        IF ~ tlb[i].valid /\ \A j \in Slots : j > i => tlb[j].valid
        THEN [vpn |-> v, pfn |-> f, asid |-> a, valid |-> TRUE] ELSE tlb[i]]

\* The TLB after a miss: the first entry that is not valid is taken, if any.
Filled(v, a, f) ==
    [i \in Slots |->
        IF ~ tlb[i].valid /\ \A j \in Slots : j < i => tlb[j].valid
        THEN [vpn |-> v, pfn |-> f, asid |-> a, valid |-> TRUE] ELSE tlb[i]]

\* allocate_page gives f: the first frame that nobody pins.
allocate_page(f) ==
    /\ pin_count[f] = 0 /\ \A g \in Frames : g < f => pin_count[g] # 0
    /\ pin_count' = [pin_count EXCEPT ![f] = 1]

Misses(v, a) == \A i \in Slots : ~ Hits(tlb[i], v, a)

\* translate_address on a miss, for a page that is present and for one that is
\* not; a hit, and a page for which there is no frame, change nothing.
translate_present(v) ==
    /\ current_asid # 0 /\ Misses(v, current_asid)
    /\ page_table[current_asid][v] # -1
    /\ tlb' = Filled(v, current_asid, page_table[current_asid][v])
    /\ UNCHANGED <<frames, page_table, asid, current_asid, next_asid>>

translate_absent(v) ==
    /\ current_asid # 0 /\ Misses(v, current_asid)
    /\ page_table[current_asid][v] = -1
    /\ \E f \in Frames :
        /\ allocate_page(f)
        /\ page_table' = [page_table EXCEPT ![current_asid][v] = f]
        /\ tlb' = Filled(v, current_asid, f)
    /\ UNCHANGED <<released, asid, current_asid, next_asid>>

\* ++ on an asid_t, which is unsigned.
Incremented(a) == IF a = MaxAsid THEN 0 ELSE a + 1

\* The first switch to a process gives it the next ASID; when the counter
\* overflows the TLB is flushed and the ASIDs start again from 1.
switch_process(p) ==
    /\ IF asid[p] # 0 THEN UNCHANGED <<asid, next_asid, tlb>>
       ELSE /\ asid' = [asid EXCEPT ![p] = next_asid]
            /\ IF Incremented(next_asid) = 0
               THEN tlb' = Emptied /\ next_asid' = 1
               ELSE next_asid' = Incremented(next_asid) /\ UNCHANGED tlb
    /\ current_asid' = asid'[p]
    /\ UNCHANGED <<frames, page_table>>

Next == \/ \E f \in Frames : pin_page(f) \/ unpin_page(f)
        \/ \E v \in Vpns, a \in Asids : flush_tlb_entry(v, a)
        \/ flush_tlb
        \/ \E v \in Vpns : translate_present(v) \/ translate_absent(v)
        \/ \E p \in Processes : switch_process(p)

Spec == Init /\ [][Next]_vars
-----------------------------------------------------------------------------
Entries == [vpn : Vpns \cup {0}, pfn : Nat, asid : Asids, valid : BOOLEAN]

TypeOK ==
    /\ pin_count \in [Frames -> Nat] /\ released \subseteq Frames
    /\ page_table \in [Processes -> [Vpns -> Frames \cup {-1}]]
    /\ asid \in [Processes -> Asids]
    /\ tlb \in [Slots -> Entries]
    /\ current_asid \in Asids /\ next_asid \in 1 .. MaxAsid

\* A flush of one entry leaves no valid entry for the page, although
\* flush_tlb_entry stops at the first entry with the tag and does not look
\* whether that one is valid.
FlushReaches ==
    \A v \in Vpns, a \in Asids, i \in Slots : ~ Hits(Flushed(v, a)[i], v, a)

\* What the TLB says is what the page table says, across flushes, switches and
\* the overflow of the ASIDs.
TlbAgrees ==
    \A i \in Slots : tlb[i].valid =>
        /\ tlb[i].vpn \in Vpns
        /\ page_table[tlb[i].asid][tlb[i].vpn] = tlb[i].pfn

\* allocate_page gives a frame to a second page only if unpin_page brought its
\* count back to 0.
FramesExclusive ==
    \A p, q \in Processes : \A v, w \in Vpns :
        /\ <<p, v>> # <<q, w>>
        /\ page_table[p][v] # -1 /\ page_table[p][v] = page_table[q][w]
        => page_table[p][v] \in released

\* Two processes get the same ASID, and with it one page table, only once every
\* ASID has been given away.
SharedOnlyWhenTaken ==
    \A p, q \in Processes :
        p # q /\ asid[p] = asid[q] /\ asid[p] # 0
        => \A a \in 1 .. MaxAsid : \E r \in Processes : asid[r] = a
-----------------------------------------------------------------------------
\* A valid entry is the first with its tag: the entries before it belong to
\* other pages, whether they are valid or not.
FirstOfTag ==
    \A i, j \in Slots : tlb[j].valid /\ i < j => ~ Tagged(tlb[i], tlb[j].vpn, tlb[j].asid)

\* The frame of a page is pinned until unpin_page gives it up.
MappedIsPinned ==
    \A p \in Processes, v \in Vpns :
        page_table[p][v] # -1 /\ page_table[p][v] \notin released
        => pin_count[page_table[p][v]] > 0

\* Either all ASIDs are given away, or those below next_asid are, each once.
AsidsInOrder ==
    \/ \A a \in 1 .. MaxAsid : \E r \in Processes : asid[r] = a
    \/ /\ \A p \in Processes : asid[p] < next_asid
       /\ \A a \in 1 .. next_asid - 1 : \E r \in Processes : asid[r] = a
       /\ \A p, q \in Processes : p # q /\ asid[p] = asid[q] => asid[p] = 0

MmuInv == /\ TypeOK /\ FirstOfTag /\ TlbAgrees /\ MappedIsPinned
          /\ FramesExclusive /\ AsidsInOrder

ConstantsOK == TlbSize \in Nat /\ NumFrames \in Nat /\ MaxAsid \in Nat \ {0}
=============================================================================

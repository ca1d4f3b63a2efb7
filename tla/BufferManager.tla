--------------------------- MODULE BufferManager ---------------------------
(***************************************************************************)
(* os/filesystem/CustomBufferManagementSystem.c: a pool of page frames     *)
(* with a free list, a clock for eviction and an open-addressing page      *)
(* table.  A caller fetches, unpins, dirties and flushes pages in any      *)
(* order.                                                                  *)
(***************************************************************************)
EXTENDS Integers, Sequences, FiniteSetsExt

CONSTANTS PoolSize,   \* BUFFER_POOL_SIZE
          TableSize,  \* PAGE_TABLE_SIZE
          Pages,      \* the page ids callers use
          MaxPins     \* bound on pin_count

VARIABLES page_id, is_dirty, pin_count, reference_bits,  \* of each frame
          page_table, free_list, clock_hand,
          written,    \* the pages the last call wrote to disk
          spinning    \* fetch_page is in find_victim_page and never returns

frames == <<page_id, is_dirty, pin_count, reference_bits>>
vars == <<frames, page_table, free_list, clock_hand, written, spinning>>

Frames == 0 .. PoolSize - 1
None == -1

\* Every frame is pushed on the free list, so the last one is on top.
init_buffer_pool ==
    /\ page_id = [f \in Frames |-> None]
    /\ is_dirty = [f \in Frames |-> FALSE]
    /\ pin_count = [f \in Frames |-> 0]
    /\ reference_bits = [f \in Frames |-> FALSE]
    /\ free_list = [i \in 1 .. PoolSize |-> PoolSize - i]
    /\ page_table = [h \in 0 .. TableSize - 1 |-> [page_id |-> None, frame_id |-> None]]
    /\ clock_hand = 0
    /\ written = {} /\ spinning = FALSE

hash_function(p) == p % TableSize

\* The slot where a search for p that stops at any page id of stop ends.
Probe(table, p, stop) ==
    LET slot(i) == (hash_function(p) + i) % TableSize
        stops == {i \in 0 .. TableSize - 1 : table[slot(i)].page_id \in stop}
    IN slot(Min(stops))

\* The frame of page p, or None: a search ends at the first empty slot.
lookup_page(p) ==
    LET h == Probe(page_table, p, {p, None})
    IN page_table[h].frame_id

insert_into_page_table(table, p, f) ==
    [table EXCEPT ![Probe(table, p, {None})] = [page_id |-> p, frame_id |-> f]]

\* Mutant: the entry of an evicted page stays.
remove_from_page_table_Keep(table, p) == table

\* The slot is emptied; entries that were displaced past it are not moved.
remove_from_page_table(table, p) ==
    [table EXCEPT ![Probe(table, p, {p})] = [page_id |-> None, frame_id |-> None]]

\* One turn of the clock's loop from state s.
Turn(s) ==
    LET next == (s.hand + 1) % PoolSize
    IN IF pin_count[s.hand] > 0 THEN [s EXCEPT !.hand = next]
       ELSE IF s.ref[s.hand] THEN [s EXCEPT !.hand = next, !.ref[s.hand] = FALSE]
       ELSE [s EXCEPT !.hand = next, !.victim = s.hand]

\* Two laps: the first may do nothing but clear reference bits.  The loop in
\* the code has no end; it goes on for ever when two laps find no victim.
find_victim_page ==
    LET sweep[n \in 0 .. 2 * PoolSize] ==
          IF n = 0 THEN [hand |-> clock_hand, ref |-> reference_bits, victim |-> None]
          ELSE IF sweep[n - 1].victim # None THEN sweep[n - 1] ELSE Turn(sweep[n - 1])
    IN sweep[2 * PoolSize]
-----------------------------------------------------------------------------
\* read_page_from_disk and the bookkeeping of the page that was loaded.
Load(p, f, table, ref) ==
    /\ page_id' = [page_id EXCEPT ![f] = p]
    /\ is_dirty' = [is_dirty EXCEPT ![f] = FALSE]
    /\ pin_count' = [pin_count EXCEPT ![f] = 1]
    /\ reference_bits' = [ref EXCEPT ![f] = TRUE]
    /\ page_table' = insert_into_page_table(table, p, f)

Hit(p) ==
    LET f == lookup_page(p)
    IN /\ f # None /\ pin_count[f] < MaxPins
       /\ pin_count' = [pin_count EXCEPT ![f] = @ + 1]
       /\ reference_bits' = [reference_bits EXCEPT ![f] = TRUE]
       /\ written' = {}
       /\ UNCHANGED <<page_id, is_dirty, page_table, free_list, clock_hand, spinning>>

UseFreeFrame(p) ==
    /\ lookup_page(p) = None /\ free_list # <<>>
    /\ free_list' = Tail(free_list)
    /\ Load(p, Head(free_list), page_table, reference_bits)
    /\ written' = {}
    /\ UNCHANGED <<clock_hand, spinning>>

\* Mutant: the victim is not written back.
Evict_NoWrite(p) ==
    /\ lookup_page(p) = None /\ free_list = <<>>
    /\ LET v == find_victim_page
       IN /\ v.victim # None
          /\ Load(p, v.victim, remove_from_page_table(page_table, page_id[v.victim]), v.ref)
          /\ clock_hand' = v.hand
          /\ written' = {}
          /\ UNCHANGED spinning
    /\ UNCHANGED free_list

Evict(p) ==
    /\ lookup_page(p) = None /\ free_list = <<>>
    /\ LET v == find_victim_page
       IN \/ /\ v.victim # None
             /\ Load(p, v.victim, remove_from_page_table(page_table, page_id[v.victim]), v.ref)
             /\ clock_hand' = v.hand
             /\ written' = IF is_dirty[v.victim] THEN {page_id[v.victim]} ELSE {}
             /\ UNCHANGED spinning
          \/ /\ v.victim = None
             /\ spinning' = TRUE /\ written' = {}
             /\ UNCHANGED <<frames, page_table, clock_hand>>
    /\ UNCHANGED free_list

fetch_page(p) == Hit(p) \/ UseFreeFrame(p) \/ Evict(p)

unpin_page(p) ==
    LET f == lookup_page(p)
    IN /\ IF f # None /\ pin_count[f] > 0
          THEN pin_count' = [pin_count EXCEPT ![f] = @ - 1]
          ELSE UNCHANGED pin_count
       /\ written' = {}
       /\ UNCHANGED <<page_id, is_dirty, reference_bits, page_table, free_list, clock_hand, spinning>>

mark_page_dirty(p) ==
    LET f == lookup_page(p)
    IN /\ is_dirty' = IF f # None THEN [is_dirty EXCEPT ![f] = TRUE] ELSE is_dirty
       /\ written' = {}
       /\ UNCHANGED <<page_id, pin_count, reference_bits, page_table, free_list, clock_hand, spinning>>

flush_dirty_pages ==
    /\ written' = {page_id[f] : f \in {g \in Frames : is_dirty[g]}}
    /\ is_dirty' = [f \in Frames |-> FALSE]
    /\ UNCHANGED <<page_id, pin_count, reference_bits, page_table, free_list, clock_hand, spinning>>

Init == init_buffer_pool

Next == /\ ~spinning
        /\ \/ \E p \in Pages : fetch_page(p) \/ unpin_page(p) \/ mark_page_dirty(p)
           \/ flush_dirty_pages

Spec == Init /\ [][Next]_vars
-----------------------------------------------------------------------------
\* Types, and the free list holds exactly the frames without a page.
TypeOK ==
    /\ page_id \in [Frames -> Pages \cup {None}]
    /\ is_dirty \in [Frames -> BOOLEAN] /\ reference_bits \in [Frames -> BOOLEAN]
    /\ pin_count \in [Frames -> 0 .. MaxPins]
    /\ page_table \in [0 .. TableSize - 1 ->
                         [page_id : Pages \cup {None}, frame_id : Frames \cup {None}]]
    /\ clock_hand \in Frames /\ spinning \in BOOLEAN /\ written \subseteq Pages
    /\ {free_list[i] : i \in DOMAIN free_list} = {f \in Frames : page_id[f] = None}

\* The page table and the frames agree: a lookup finds a page exactly in the
\* one frame that holds it.  (Page ids below TableSize do not collide.)
TableMatchesFrames == \A p \in Pages, f \in Frames : lookup_page(p) = f <=> page_id[f] = p

\* A pinned frame keeps its page, whoever fetches what.
PinnedStays == [][\A f \in Frames : pin_count[f] > 0 => page_id'[f] = page_id[f]]_vars

\* A dirty page stays dirty in its frame until it has been written.
DirtyIsWritten ==
    [][\A f \in Frames : is_dirty[f] =>
          (page_id'[f] = page_id[f] /\ is_dirty'[f]) \/ page_id[f] \in written']_vars

\* The endless loop of find_victim_page ends unless every frame is pinned.
SpinsOnlyIfAllPinned == spinning => \A f \in Frames : pin_count[f] > 0

\* "Page not found": lookup_page returns -1 only for a page in no frame.
NotFoundIsAbsent == \A p \in Pages : lookup_page(p) = None => \A f \in Frames : page_id[f] # p

PoolConstants == /\ PoolSize \in Nat \ {0} /\ TableSize \in Nat \ {0} /\ MaxPins \in Nat \ {0}
                 /\ Pages \subseteq 0 .. TableSize - 1

\* The states of the clock's loop.
Sweeps == [hand : Frames, ref : [Frames -> BOOLEAN], victim : Frames \cup {None}]

FrameTypes ==
    /\ page_id \in [Frames -> Pages \cup {None}]
    /\ is_dirty \in [Frames -> BOOLEAN] /\ reference_bits \in [Frames -> BOOLEAN]
    /\ pin_count \in [Frames -> 0 .. MaxPins]
    /\ clock_hand \in Frames /\ spinning \in BOOLEAN /\ written \subseteq Pages

Slots == 0 .. TableSize - 1
Vacant == [page_id |-> None, frame_id |-> None]
Entry(p, f) == [page_id |-> p, frame_id |-> f]
Entries == [page_id : Pages \cup {None}, frame_id : Frames \cup {None}]

\* Every page is at the slot it hashes to, with the frame that holds it.
TableIsRight(table, ids) ==
    /\ table \in [Slots -> Entries]
    /\ \A h \in Slots : \/ table[h] = Vacant
                        \/ \E f \in Frames : table[h] = Entry(h, f) /\ ids[f] = h
    /\ \A f \in Frames : ids[f] # None => table[ids[f]] = Entry(ids[f], f)

\* The free list has the frames without a page, once each; they are unpinned and
\* clean.
FreeListIsRight ==
    /\ free_list \in Seq(Frames)
    /\ \A i, j \in 1 .. Len(free_list) : free_list[i] = free_list[j] => i = j
    /\ \A f \in Frames : page_id[f] = None <=> \E i \in 1 .. Len(free_list) : free_list[i] = f
    /\ \A f \in Frames : page_id[f] = None => pin_count[f] = 0 /\ ~ is_dirty[f]

PoolInv == /\ FrameTypes /\ TableIsRight(page_table, page_id) /\ FreeListIsRight
           /\ SpinsOnlyIfAllPinned

\* What a step may not do to a frame that is pinned or dirty.
StepKeeps ==
    /\ \A f \in Frames : pin_count[f] > 0 => page_id'[f] = page_id[f]
    /\ \A f \in Frames : is_dirty[f] =>
          (page_id'[f] = page_id[f] /\ is_dirty'[f]) \/ page_id[f] \in written'
=============================================================================

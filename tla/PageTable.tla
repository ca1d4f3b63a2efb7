----------------------------- MODULE PageTable -----------------------------
(***************************************************************************)
(* memory/virtual_mem/pageTable.c: demand paging with a page table and a   *)
(* first-in first-out TLB.  A frame counts as free while its first byte is *)
(* 0.  A page is modelled by its bytes at Offsets; nothing is ever written *)
(* to the disk, so every page of it is zero.                               *)
(***************************************************************************)
EXTENDS Integers, Sequences, FiniteSetsExt, TLAPS

CONSTANTS Pages, Frames,   \* page numbers, and the frames 0 .. n
          Offsets,         \* 0 is the first byte of a page
          TlbSize,         \* TLB_SIZE
          Values,          \* the bytes that are written, other than 0
          AsMain           \* TRUE: accesses as main makes them: a page is written
                           \* at offset 0 before anything else is done with it

VARIABLES page_table,   \* the frame of each page, or -1 while it is not present
          dirty,        \* the dirty pages
          tlb,          \* sequence of [page_number, frame_number], oldest first
          physical_memory,
          last,         \* the byte last written to every place, 0 at first
          result        \* what the last read returned, and what it should have

vars == <<page_table, dirty, tlb, physical_memory, last, result>>

Nothing == <<>>

init_memory ==
    /\ page_table = [p \in Pages |-> -1] /\ dirty = {} /\ tlb = <<>>
    /\ physical_memory = [f \in Frames |-> [o \in Offsets |-> 0]]
    /\ last = [p \in Pages |-> [o \in Offsets |-> 0]]
    /\ result = Nothing

InTlb(p) == {k \in DOMAIN tlb : tlb[k].page_number = p}

update_tlb(p, f) == LET e == [page_number |-> p, frame_number |-> f]
                    IN IF Len(tlb) < TlbSize THEN Append(tlb, e) ELSE Append(Tail(tlb), e)

\* Mutant: frame 0 whatever is in it.
FreeFrame_Zero == 0

\* The first frame that looks free; frame 0 if none does.
FreeFrame == LET free == {f \in Frames : physical_memory[f][0] = 0}
             IN IF free = {} THEN 0 ELSE Min(free)

\* The frame a page is in after translate_address, and what that changes.
Translate(p) ==
    IF InTlb(p) # {}
    THEN [frame |-> tlb[Min(InTlb(p))].frame_number, tlb |-> tlb,
          table |-> page_table, memory |-> physical_memory]
    ELSE IF page_table[p] # -1
    THEN [frame |-> page_table[p], tlb |-> update_tlb(p, page_table[p]),
          table |-> page_table, memory |-> physical_memory]
    ELSE [frame |-> FreeFrame, tlb |-> update_tlb(p, FreeFrame),
          table |-> [page_table EXCEPT ![p] = FreeFrame],
          memory |-> [physical_memory EXCEPT ![FreeFrame] = [o \in Offsets |-> 0]]]

write_memory(p, o, v) ==
    LET t == Translate(p)
    IN /\ tlb' = t.tlb /\ page_table' = t.table
       /\ physical_memory' = [t.memory EXCEPT ![t.frame][o] = v]
       /\ dirty' = dirty \cup {p}
       /\ last' = [last EXCEPT ![p][o] = v]
       /\ result' = Nothing

read_memory(p, o) ==
    LET t == Translate(p)
    IN /\ tlb' = t.tlb /\ page_table' = t.table /\ physical_memory' = t.memory
       /\ result' = [got |-> t.memory[t.frame][o], expected |-> last[p][o]]
       /\ UNCHANGED <<dirty, last>>

Init == init_memory

Next == \E p \in Pages, o \in Offsets :
          /\ AsMain /\ p \notin dirty => o = 0
          /\ \/ \E v \in Values : write_memory(p, o, v)
             \/ (AsMain => p \in dirty) /\ read_memory(p, o)

Spec == Init /\ [][Next]_vars
-----------------------------------------------------------------------------
\* The TLB holds a page at most once, and the frame the page table says, through
\* all replacements.
TlbAgrees ==
    /\ Len(tlb) <= TlbSize
    /\ \A k \in DOMAIN tlb : /\ page_table[tlb[k].page_number] = tlb[k].frame_number
                             /\ InTlb(tlb[k].page_number) = {k}

\* Used as main uses it, and with a frame for every page, memory works: a read
\* returns what was last written there.
ReadsLastWritten == result # Nothing => result.got = result.expected

PagingSizes == /\ Frames \subseteq Nat /\ 0 \in Frames /\ TlbSize \in Nat \ {0}
               /\ 0 \in Offsets /\ AsMain \in BOOLEAN

\* What a search for the first index relies on: a set of numbers that is not empty
\* has a smallest one.
WellOrdered == \A S \in SUBSET Nat : S # {} => \E s \in S : \A r \in S : s <= r
PagingConstants == PagingSizes /\ WellOrdered

\* A frame for every page: the other pages cannot take them all.  No page is
\* marked free by what is written to it.
EnoughFrames == /\ AsMain /\ 0 \notin Values
                /\ \A p \in Pages : \A taken \in [Pages \ {p} -> Frames] :
                      \E f \in Frames : \A q \in Pages \ {p} : taken[q] # f

TlbEntry == [page_number : Pages, frame_number : Frames]

\* A TLB whose entries are what a page table says, each page once.
TlbIsRight(entries, table) ==
    /\ entries \in Seq(TlbEntry)
    /\ Len(entries) <= TlbSize
    /\ \A k \in 1 .. Len(entries) :
         /\ table[entries[k].page_number] = entries[k].frame_number
         /\ \A j \in 1 .. Len(entries) : entries[j].page_number = entries[k].page_number => j = k

TlbInv == TlbIsRight(tlb, page_table) /\ page_table \in [Pages -> Frames \cup {-1}]

\* The pages in memory are the ones that were written.  Each has a frame of its
\* own with its contents, which do not look free; all other frames are zero.
MemoryInv ==
    /\ dirty = {p \in Pages : page_table[p] # -1}
    /\ physical_memory \in [Frames -> [Offsets -> Values \cup {0}]]
    /\ last \in [Pages -> [Offsets -> Values \cup {0}]]
    /\ \A p \in Pages : page_table[p] # -1 =>
         /\ physical_memory[page_table[p]] = last[p]
         /\ last[p][0] # 0
         /\ \A q \in Pages : page_table[q] = page_table[p] => q = p
    /\ \A p \in Pages : page_table[p] = -1 => last[p] = [o \in Offsets |-> 0]
    /\ \A f \in Frames : physical_memory[f][0] # 0 => \E p \in Pages : page_table[p] = f

ResultInv == result = Nothing \/ \E v : result = [got |-> v, expected |-> v]

\* The smallest of some numbers is one of them.
LEMMA MinIsOne ==
    ASSUME PagingConstants, NEW S, S \subseteq Nat, S # {}
    PROVE  Min(S) \in S
  <1>1. \E s \in S : \A r \in S : s <= r
    BY DEF PagingConstants, WellOrdered
  <1> QED BY <1>1 DEF Min

\* The first frame that looks free looks free, if any does.
LEMMA FreeFrameIsFrame ==
    ASSUME PagingConstants
    PROVE  /\ FreeFrame \in Frames
           /\ (\E f \in Frames : physical_memory[f][0] = 0) => physical_memory[FreeFrame][0] = 0
  <1> DEFINE free == {f \in Frames : physical_memory[f][0] = 0}
  <1>1. CASE free = {}
    BY <1>1 DEF FreeFrame, PagingConstants, PagingSizes
  <1>2. CASE free # {}
    <2>1. free \subseteq Nat
      BY DEF PagingConstants, PagingSizes
    <2>2. Min(free) \in free
      BY <1>2, <2>1, MinIsOne
    <2> QED BY <1>2, <2>2 DEF FreeFrame
  <1> QED BY <1>1, <1>2

\* A TLB that takes in a page it does not hold, with its frame, stays right: it
\* drops its oldest entry if it is full.
LEMMA UpdateIsRight ==
    ASSUME PagingConstants, TlbIsRight(tlb, page_table), NEW p \in Pages, NEW f \in Frames, NEW table,
           InTlb(p) = {}, table[p] = f, \A q \in Pages : q # p => table[q] = page_table[q]
    PROVE  TlbIsRight(update_tlb(p, f), table)
  <1> DEFINE e == [page_number |-> p, frame_number |-> f]
             new == update_tlb(p, f)
  <1>1. tlb \in Seq(TlbEntry) /\ Len(tlb) <= TlbSize /\ e \in TlbEntry
    BY DEF TlbIsRight, TlbEntry
  <1>2. \A k \in 1 .. Len(tlb) : tlb[k].page_number \in Pages /\ tlb[k].page_number # p
    <2>1. \A k \in 1 .. Len(tlb) : tlb[k] \in TlbEntry
      BY <1>1
    <2>2. DOMAIN tlb = 1 .. Len(tlb)
      BY <1>1
    <2> QED BY <2>1, <2>2 DEF InTlb, TlbEntry
  <1>3. PICK d \in {0, 1} :
          /\ new \in Seq(TlbEntry) /\ Len(new) = Len(tlb) + 1 - d /\ Len(new) <= TlbSize
          /\ \A k \in 1 .. Len(new) : new[k] = IF k = Len(new) THEN e ELSE tlb[k + d]
    <2>1. CASE Len(tlb) < TlbSize
      <3>1. new = Append(tlb, e)
        BY <2>1 DEF update_tlb
      <3>2. /\ new \in Seq(TlbEntry) /\ Len(new) = Len(tlb) + 1 - 0 /\ Len(new) <= TlbSize
            /\ \A k \in 1 .. Len(new) : new[k] = IF k = Len(new) THEN e ELSE tlb[k + 0]
        BY <1>1, <2>1, <3>1 DEF PagingConstants, PagingSizes
      <3> QED BY <3>2
    <2>2. CASE ~ (Len(tlb) < TlbSize)
      <3>1. new = Append(Tail(tlb), e) /\ Len(tlb) = TlbSize
        BY <1>1, <2>2 DEF update_tlb, PagingConstants, PagingSizes
      <3>2. tlb # <<>> /\ Len(tlb) >= 1
        BY <1>1, <3>1 DEF PagingConstants, PagingSizes
      <3>3. /\ Tail(tlb) \in Seq(TlbEntry) /\ Len(Tail(tlb)) = Len(tlb) - 1
            /\ \A k \in 1 .. Len(tlb) - 1 : Tail(tlb)[k] = tlb[k + 1]
        BY <1>1, <3>2
      <3>4. /\ new \in Seq(TlbEntry) /\ Len(new) = Len(tlb) + 1 - 1 /\ Len(new) <= TlbSize
            /\ \A k \in 1 .. Len(new) : new[k] = IF k = Len(new) THEN e ELSE tlb[k + 1]
        BY <1>1, <3>1, <3>2, <3>3
      <3> QED BY <3>4
    <2> QED BY <2>1, <2>2
  <1> HIDE DEF new
  <1>4. ASSUME NEW k \in 1 .. Len(new)
        PROVE  /\ table[new[k].page_number] = new[k].frame_number
               /\ \A j \in 1 .. Len(new) : new[j].page_number = new[k].page_number => j = k
    <2>1. CASE k = Len(new)
      <3>1. new[k] = e /\ \A j \in 1 .. Len(new) : j # k => new[j].page_number # p
        <4>1. ASSUME NEW j \in 1 .. Len(new), j # k
              PROVE  new[j] = tlb[j + d] /\ j + d \in 1 .. Len(tlb)
          BY <1>1, <1>3, <2>1, <4>1
        <4> QED BY <1>2, <1>3, <2>1, <4>1
      <3> QED BY <3>1
    <2>2. CASE k # Len(new)
      <3>1. k + d \in 1 .. Len(tlb) /\ new[k] = tlb[k + d]
        BY <1>1, <1>3, <2>2
      <3>2. new[k].page_number # p /\ new[k].page_number \in Pages
        BY <1>2, <3>1
      <3>3. table[new[k].page_number] = new[k].frame_number
        BY <3>1, <3>2 DEF TlbIsRight
      <3>4. ASSUME NEW j \in 1 .. Len(new), new[j].page_number = new[k].page_number
            PROVE  j = k
        <4>1. j # Len(new)
          BY <1>3, <3>2, <3>4
        <4>2. j + d \in 1 .. Len(tlb) /\ new[j] = tlb[j + d]
          BY <1>1, <1>3, <4>1
        <4>3. j + d = k + d
          BY <3>1, <3>4, <4>2 DEF TlbIsRight
        <4> QED BY <1>3, <4>3
      <3> QED BY <3>3, <3>4
    <2> QED BY <2>1, <2>2
  <1> QED BY <1>3, <1>4 DEF TlbIsRight, new

\* What translate_address does to a page that is in memory, and to one that is not.
LEMMA Translation ==
    ASSUME PagingConstants, TlbInv, NEW p \in Pages
    PROVE  LET t == Translate(p)
           IN /\ t.frame \in Frames /\ t.table[p] = t.frame /\ TlbIsRight(t.tlb, t.table)
              /\ t.table \in [Pages -> Frames \cup {-1}]
              /\ IF page_table[p] # -1 THEN t.table = page_table /\ t.memory = physical_memory
                 ELSE /\ t.frame = FreeFrame
                      /\ t.table = [page_table EXCEPT ![p] = FreeFrame]
                      /\ t.memory = [physical_memory EXCEPT ![FreeFrame] = [o \in Offsets |-> 0]]
  <1> DEFINE t == Translate(p)
  <1>1. page_table \in [Pages -> Frames \cup {-1}] /\ TlbIsRight(tlb, page_table)
    BY DEF TlbInv
  <1>2. CASE InTlb(p) # {}
    <2>1. InTlb(p) \subseteq Nat
      BY <1>1 DEF InTlb, TlbIsRight
    <2>2. PICK k : k = Min(InTlb(p)) /\ k \in InTlb(p)
      BY <1>2, <2>1, MinIsOne
    <2>3. k \in 1 .. Len(tlb) /\ tlb[k].page_number = p
      BY <1>1, <2>2 DEF InTlb, TlbIsRight
    <2>4. tlb[k].frame_number = page_table[p] /\ tlb[k].frame_number \in Frames
      <3>1. tlb[k] \in TlbEntry
        BY <1>1, <2>3 DEF TlbIsRight
      <3> QED BY <1>1, <2>3, <3>1 DEF TlbIsRight, TlbEntry
    <2>5. t = [frame |-> tlb[k].frame_number, tlb |-> tlb, table |-> page_table, memory |-> physical_memory]
      BY <1>2, <2>2 DEF Translate
    <2>6. page_table[p] # -1
      BY <2>4 DEF PagingConstants, PagingSizes
    <2> QED BY <1>1, <2>4, <2>5, <2>6
  <1>3. CASE InTlb(p) = {} /\ page_table[p] # -1
    <2>1. t = [frame |-> page_table[p], tlb |-> update_tlb(p, page_table[p]),
               table |-> page_table, memory |-> physical_memory]
      BY <1>3 DEF Translate
    <2>2. page_table[p] \in Frames
      BY <1>1, <1>3
    <2>3. TlbIsRight(update_tlb(p, page_table[p]), page_table)
      BY <1>1, <1>3, <2>2, UpdateIsRight
    <2> QED BY <1>1, <1>3, <2>1, <2>2, <2>3
  <1>4. CASE InTlb(p) = {} /\ page_table[p] = -1
    <2> DEFINE table == [page_table EXCEPT ![p] = FreeFrame]
    <2>1. t = [frame |-> FreeFrame, tlb |-> update_tlb(p, FreeFrame), table |-> table,
               memory |-> [physical_memory EXCEPT ![FreeFrame] = [o \in Offsets |-> 0]]]
      BY <1>4 DEF Translate
    <2>2. FreeFrame \in Frames
      BY FreeFrameIsFrame
    <2>3. /\ table \in [Pages -> Frames \cup {-1}] /\ table[p] = FreeFrame
          /\ \A q \in Pages : q # p => table[q] = page_table[q]
      BY <1>1, <2>2
    <2> HIDE DEF table
    <2>4. TlbIsRight(update_tlb(p, FreeFrame), table)
      BY <1>1, <1>4, <2>2, <2>3, UpdateIsRight
    <2> QED BY <1>4, <2>1, <2>2, <2>3, <2>4 DEF table
  <1> QED BY <1>2, <1>3, <1>4

\* The TLB agrees with the page table after every step.
LEMMA TlbStart == PagingConstants /\ Init => TlbInv
  BY DEF PagingConstants, PagingSizes, Init, init_memory, TlbInv, TlbIsRight

LEMMA TlbStep == PagingConstants /\ TlbInv /\ [Next]_vars => TlbInv'
  <1> SUFFICES ASSUME PagingConstants, TlbInv, [Next]_vars
               PROVE  TlbInv'
    OBVIOUS
  <1>1. CASE UNCHANGED vars
    BY <1>1 DEF vars, TlbInv, TlbIsRight
  <1>2. ASSUME NEW p \in Pages, tlb' = Translate(p).tlb, page_table' = Translate(p).table
        PROVE  TlbInv'
    BY <1>2, Translation DEF TlbInv
  <1> QED BY <1>1, <1>2 DEF Next, write_memory, read_memory

LEMMA TlbGives == PagingConstants /\ TlbInv => TlbAgrees
  <1> SUFFICES ASSUME PagingConstants, TlbInv
               PROVE  TlbAgrees
    OBVIOUS
  <1>1. DOMAIN tlb = 1 .. Len(tlb)
    BY DEF TlbInv, TlbIsRight
  <1> QED BY <1>1 DEF TlbInv, TlbIsRight, TlbAgrees, InTlb

\* While a page is absent a frame looks free, since all others are in use by other
\* pages, and the one that is chosen is nobody's.
LEMMA SomeFrameIsFree ==
    ASSUME PagingConstants, EnoughFrames, TlbInv, MemoryInv, NEW p \in Pages, page_table[p] = -1
    PROVE  FreeFrame \in Frames /\ \A q \in Pages : page_table[q] # FreeFrame
  <1>1. \E f \in Frames : physical_memory[f][0] = 0
    <2> SUFFICES ASSUME \A f \in Frames : physical_memory[f][0] # 0
                 PROVE  FALSE
      OBVIOUS
    <2> DEFINE g == [q \in Pages \ {p} |-> IF page_table[q] = -1 THEN 0 ELSE page_table[q]]
    <2>1. g \in [Pages \ {p} -> Frames]
      BY DEF TlbInv, PagingConstants, PagingSizes
    <2>2. \A f \in Frames : \E q \in Pages \ {p} : g[q] = f
      <3> SUFFICES ASSUME NEW f \in Frames
                   PROVE  \E q \in Pages \ {p} : g[q] = f
        OBVIOUS
      <3>1. PICK q \in Pages : page_table[q] = f
        BY DEF MemoryInv
      <3>2. f # -1
        BY DEF PagingConstants, PagingSizes
      <3> QED BY <3>1, <3>2
    <2> QED BY <2>1, <2>2 DEF EnoughFrames
  <1>2. FreeFrame \in Frames /\ physical_memory[FreeFrame][0] = 0
    BY <1>1, FreeFrameIsFrame
  <1>3. FreeFrame # -1
    BY <1>2 DEF PagingConstants, PagingSizes
  <1> QED BY <1>2, <1>3 DEF MemoryInv

\* Nothing is in memory at first, and all of it is zero.
LEMMA MemoryStart == PagingConstants /\ EnoughFrames /\ Init => MemoryInv /\ ResultInv
  BY DEF PagingConstants, PagingSizes, Init, init_memory, MemoryInv, ResultInv

\* A read is of a page that was written, and so is in its frame.
LEMMA ReadKeeps ==
    ASSUME PagingConstants, EnoughFrames, TlbInv, MemoryInv, NEW p \in Pages, NEW o \in Offsets,
           p \in dirty, read_memory(p, o)
    PROVE  MemoryInv' /\ ResultInv'
  <1> DEFINE t == Translate(p)
  <1>1. page_table[p] # -1
    BY DEF MemoryInv
  <1>2. t.frame = page_table[p] /\ t.table = page_table /\ t.memory = physical_memory
    BY <1>1, Translation
  <1>3. UNCHANGED <<page_table, physical_memory, dirty, last>>
    BY <1>2 DEF read_memory
  <1>4. result' = [got |-> last[p][o], expected |-> last[p][o]]
    BY <1>1, <1>2 DEF read_memory, MemoryInv
  <1> QED BY <1>3, <1>4 DEF MemoryInv, ResultInv

\* A write goes to the frame of its page; the first one to a page is at offset 0
\* and makes its frame look taken.
LEMMA WriteKeeps ==
    ASSUME PagingConstants, EnoughFrames, TlbInv, MemoryInv, NEW p \in Pages, NEW o \in Offsets,
           NEW v \in Values, p \notin dirty => o = 0, write_memory(p, o, v)
    PROVE  MemoryInv' /\ ResultInv'
  <1> DEFINE f == Translate(p).frame
             m == Translate(p).memory
             T == Translate(p).table
  <1>1. /\ f \in Frames /\ T[p] = f /\ T \in [Pages -> Frames \cup {-1}]
        /\ m \in [Frames -> [Offsets -> Values \cup {0}]]
        /\ \A q \in Pages : q # p => T[q] = page_table[q]
    <2>1. CASE page_table[p] # -1
      BY <2>1, Translation DEF MemoryInv, TlbInv
    <2>2. CASE page_table[p] = -1
      <3>1. /\ f \in Frames /\ m = [physical_memory EXCEPT ![f] = [i \in Offsets |-> 0]]
            /\ T = [page_table EXCEPT ![p] = f] /\ T[p] = f /\ T \in [Pages -> Frames \cup {-1}]
        BY <2>2, Translation
      <3> HIDE DEF f, m, T
      <3>2. [i \in Offsets |-> 0] \in [Offsets -> Values \cup {0}]
        OBVIOUS
      <3> QED BY <3>1, <3>2 DEF MemoryInv, TlbInv
    <2> QED BY <2>1, <2>2
  <1>2. /\ \A q \in Pages : q # p => T[q] # f
        /\ \A q \in Pages : T[q] # -1 => m[T[q]] = last[q]
        /\ \A g \in Frames : m[g][0] # 0 => \E q \in Pages : T[q] = g
        /\ f # -1
    <2>1. CASE page_table[p] # -1
      <3>1. f = page_table[p] /\ m = physical_memory /\ T = page_table
        BY <2>1, Translation
      <3> HIDE DEF f, m, T
      <3> QED BY <1>1, <2>1, <3>1 DEF MemoryInv
    <2>2. CASE page_table[p] = -1
      <3>1. /\ f = FreeFrame /\ m = [physical_memory EXCEPT ![FreeFrame] = [i \in Offsets |-> 0]]
            /\ T = [page_table EXCEPT ![p] = FreeFrame]
        BY <2>2, Translation
      <3>2. \A q \in Pages : page_table[q] # f
        BY <2>2, <3>1, SomeFrameIsFree
      <3>3. m[f] = [i \in Offsets |-> 0] /\ \A g \in Frames : g # f => m[g] = physical_memory[g]
        BY <1>1, <3>1 DEF MemoryInv
      <3>4. last[p] = [i \in Offsets |-> 0]
        BY <2>2 DEF MemoryInv
      <3> HIDE DEF f, m, T
      <3>5. \A q \in Pages : T[q] # -1 => m[T[q]] = last[q]
        BY <1>1, <3>2, <3>3, <3>4 DEF MemoryInv
      <3>6. \A g \in Frames : m[g][0] # 0 => \E q \in Pages : T[q] = g
        BY <1>1, <2>2, <3>2, <3>3 DEF MemoryInv, PagingConstants, PagingSizes
      <3> QED BY <1>1, <3>2, <3>5, <3>6 DEF PagingConstants, PagingSizes
    <2> QED BY <2>1, <2>2
  <1>3. /\ page_table' = T /\ physical_memory' = [m EXCEPT ![f][o] = v]
        /\ last' = [last EXCEPT ![p][o] = v] /\ dirty' = dirty \cup {p} /\ result' = Nothing
    BY DEF write_memory
  <1> HIDE DEF f, m, T
  <1>4. v # 0 /\ last \in [Pages -> [Offsets -> Values \cup {0}]] /\ 0 \in Offsets
    BY DEF EnoughFrames, MemoryInv, PagingConstants, PagingSizes
  <1>5. /\ physical_memory' \in [Frames -> [Offsets -> Values \cup {0}]]
        /\ last' \in [Pages -> [Offsets -> Values \cup {0}]]
    BY <1>1, <1>3, <1>4
  <1>6. /\ physical_memory'[f] = [m[f] EXCEPT ![o] = v]
        /\ \A g \in Frames : g # f => physical_memory'[g] = m[g]
        /\ last'[p] = [last[p] EXCEPT ![o] = v]
        /\ \A q \in Pages : q # p => last'[q] = last[q]
    BY <1>1, <1>3, <1>4
  <1>7. dirty' = {q \in Pages : page_table'[q] # -1}
    BY <1>1, <1>2, <1>3 DEF MemoryInv
  <1>8. last'[p][0] # 0 /\ physical_memory'[f] = last'[p]
    <2>1. m[f] = last[p]
      BY <1>1, <1>2
    <2>2. page_table[p] = -1 => o = 0
      BY DEF MemoryInv
    <2>3. page_table[p] # -1 => last[p][0] # 0
      BY DEF MemoryInv
    <2> QED BY <1>4, <1>6, <2>1, <2>2, <2>3
  <1>9. ASSUME NEW q \in Pages, page_table'[q] # -1
        PROVE  /\ physical_memory'[page_table'[q]] = last'[q]
               /\ last'[q][0] # 0
               /\ \A r \in Pages : page_table'[r] = page_table'[q] => r = q
    <2>1. CASE q = p
      BY <1>1, <1>2, <1>3, <1>8, <2>1
    <2>2. CASE q # p
      <3>1. T[q] = page_table[q] /\ T[q] # f /\ T[q] # -1 /\ T[q] \in Frames
        BY <1>1, <1>2, <1>3, <1>9, <2>2
      <3>2. physical_memory'[page_table'[q]] = last'[q]
        BY <1>2, <1>3, <1>6, <2>2, <3>1
      <3>3. last'[q][0] # 0
        BY <1>6, <2>2, <3>1 DEF MemoryInv
      <3>4. \A r \in Pages : page_table'[r] = page_table'[q] => r = q
        BY <1>1, <1>3, <3>1 DEF MemoryInv
      <3> QED BY <3>2, <3>3, <3>4
    <2> QED BY <2>1, <2>2
  <1>10. \A q \in Pages : page_table'[q] = -1 => last'[q] = [i \in Offsets |-> 0]
    <2> SUFFICES ASSUME NEW q \in Pages, page_table'[q] = -1
                 PROVE  last'[q] = [i \in Offsets |-> 0]
      OBVIOUS
    <2>1. q # p
      BY <1>1, <1>2, <1>3
    <2> QED BY <1>1, <1>3, <1>6, <2>1 DEF MemoryInv
  <1>11. \A g \in Frames : physical_memory'[g][0] # 0 => \E q \in Pages : page_table'[q] = g
    BY <1>1, <1>2, <1>3, <1>6
  <1> QED BY <1>3, <1>5, <1>7, <1>9, <1>10, <1>11 DEF MemoryInv, ResultInv

\* Every access as main makes it.
LEMMA MemoryStep ==
    PagingConstants /\ EnoughFrames /\ TlbInv /\ MemoryInv /\ ResultInv /\ [Next]_vars
    => MemoryInv' /\ ResultInv'
  <1> SUFFICES ASSUME PagingConstants, EnoughFrames, TlbInv, MemoryInv, ResultInv, [Next]_vars
               PROVE  MemoryInv' /\ ResultInv'
    OBVIOUS
  <1>1. CASE UNCHANGED vars
    BY <1>1 DEF vars, MemoryInv, ResultInv
  <1>2. CASE Next
    <2>1. PICK p \in Pages, o \in Offsets :
             /\ AsMain /\ p \notin dirty => o = 0
             /\ \/ \E v \in Values : write_memory(p, o, v)
                \/ (AsMain => p \in dirty) /\ read_memory(p, o)
      BY <1>2 DEF Next
    <2> QED BY <2>1, ReadKeeps, WriteKeeps DEF EnoughFrames
  <1> QED BY <1>1, <1>2

LEMMA MemoryGives == ResultInv => ReadsLastWritten
  BY DEF ResultInv, ReadsLastWritten
=============================================================================

----------------------------- MODULE MCMachine ------------------------------
(***************************************************************************)
(* Memories and what computes on them: caches, page tables and processors, *)
(* the memory-mapped database, the buffer pools of os/filesystem and the   *)
(* allocator.  Each program has a section: its constants, its state, its   *)
(* module and what is proved about it for all values of the constants.     *)
(* The suite at the end runs one program at a time; TLC checks it on a few *)
(* lines, pages, frames, blocks and instructions.                          *)
(***************************************************************************)
EXTENDS Integers, Sequences, WellFoundedInduction, TLAPS

VARIABLE program   \* the program that runs
-----------------------------------------------------------------------------
(***************************************************************************)
(* Numbers.  What holds of a counter after any number of turns is proved   *)
(* from the smallest number of turns after which it would not.             *)
(***************************************************************************)

\* A set of natural numbers that is not empty has a smallest one.
LEMMA SmallestExists ==
    ASSUME NEW S, S \subseteq Nat, S # {}
    PROVE  \E s \in S : \A r \in S : s <= r
<1> DEFINE R == OpToRel(<, Nat)
<1>1. \A x, y \in Nat : y < x => <<y, x>> \in R
    BY DEF OpToRel
<1>2. PICK s \in S : \A r \in S : ~ (<<r, s>> \in R)
  <2> HIDE DEF R
  <2>1. IsWellFoundedOn(R, Nat)
    BY Zenon, NatLessThanWellFounded DEF R
  <2> QED
    BY Zenon, <2>1, WFMin
<1> HIDE DEF R
<1>3. \A r \in S : ~ (r < s)
    BY Zenon, <1>1, <1>2
<1> QED
    BY <1>3

\* A set that has 0, and with a number the next, has all numbers up to N.
LEMMA UpTo ==
    ASSUME NEW N \in Nat, NEW S, 0 \in S, \A n \in 0 .. N - 1 : n \in S => n + 1 \in S
    PROVE  \A n \in 0 .. N : n \in S
  <1> DEFINE B == {n \in 0 .. N : n \notin S}
  <1> SUFFICES ASSUME B # {}
               PROVE  FALSE
    OBVIOUS
  <1>1. PICK b \in B : \A c \in B : b <= c
    <2>1. B \subseteq Nat
      OBVIOUS
    <2> HIDE DEF B
    <2> QED BY Zenon, <2>1, SmallestExists
  <1>2. b # 0 /\ b - 1 \in 0 .. N - 1 /\ b - 1 \notin B
    BY <1>1
  <1>3. b - 1 \in S
    BY <1>2
  <1>4. b - 1 + 1 \in S
    BY <1>2, <1>3
  <1> QED BY <1>1, <1>4

\* A step function can be iterated from any start.
LEMMA Iterates ==
    ASSUME NEW T, NEW a \in T, NEW N \in Nat, NEW step \in [1 .. N -> [T -> T]]
    PROVE  \E f \in [0 .. N -> T] : f[0] = a /\ \A n \in 1 .. N : f[n] = step[n][f[n - 1]]
  <1> DEFINE Up(f, m) == f[0] = a /\ \A n \in 1 .. m : f[n] = step[n][f[n - 1]]
             S == {m \in 0 .. N : \E f \in [0 .. m -> T] : Up(f, m)}
  <1>1. 0 \in S
    <2>1. [n \in 0 .. 0 |-> a] \in [0 .. 0 -> T] /\ Up([n \in 0 .. 0 |-> a], 0)
      OBVIOUS
    <2>2. 0 \in 0 .. N
      OBVIOUS
    <2> HIDE DEF Up
    <2> QED BY <2>1, <2>2
  <1>2. ASSUME NEW m \in 0 .. N - 1, m \in S
        PROVE  m + 1 \in S
    <2>1. PICK f \in [0 .. m -> T] : Up(f, m)
      BY <1>2
    <2> DEFINE g == [n \in 0 .. m + 1 |-> IF n = m + 1 THEN step[m + 1][f[m]] ELSE f[n]]
    <2>2. f[m] \in T /\ m + 1 \in 1 .. N
      OBVIOUS
    <2>3. g \in [0 .. m + 1 -> T]
      BY <2>2
    <2>4. Up(g, m + 1)
      <3>1. g[0] = a /\ g[m + 1] = step[m + 1][f[m]] /\ \A n \in 0 .. m : g[n] = f[n]
        BY <2>1
      <3> HIDE DEF g
      <3>2. ASSUME NEW n \in 1 .. m + 1
            PROVE  g[n] = step[n][g[n - 1]]
        <4>1. CASE n = m + 1
          BY <3>1, <4>1
        <4>2. CASE n \in 1 .. m
          <5>1. n - 1 \in 0 .. m /\ n \in 0 .. m
            BY <4>2
          <5> QED BY <2>1, <3>1, <4>2, <5>1
        <4> QED BY <4>1, <4>2
      <3> QED BY <3>1, <3>2
    <2>5. m + 1 \in 0 .. N
      OBVIOUS
    <2> HIDE DEF Up, g
    <2> QED BY <2>3, <2>4, <2>5
  <1> HIDE DEF S
  <1>3. \A n \in 0 .. N : n \in S
    BY Zenon, <1>1, <1>2, UpTo
  <1>4. N \in S
    BY <1>3
  <1> QED BY <1>4 DEF S

\* A counter that wraps, moved by one, and by a whole lap.
LEMMA Wraps ==
    ASSUME NEW x \in Nat, NEW P \in Nat \ {0}
    PROVE  ((x % P) + 1) % P = (x + 1) % P /\ (x + P) % P = x % P
  <1>1. PICK q \in Nat, r \in 0 .. P - 1 : x = P * q + r /\ x % P = r
    <2>1. x \div P \in Nat /\ x % P \in 0 .. P - 1 /\ x = P * (x \div P) + (x % P)
      OBVIOUS
    <2> QED BY Zenon, <2>1
  <1>2. \A b, k \in Nat, i \in 0 .. P - 1 : b = P * k + i => b % P = i
    OBVIOUS
  <1>3. x + P = P * (q + 1) + r /\ x + P \in Nat /\ q + 1 \in Nat
    BY <1>1
  <1>4. (x + P) % P = r
    BY ONLY Zenon, <1>2, <1>3, r \in 0 .. P - 1
  <1>5. CASE r + 1 < P
    <2>1. x + 1 = P * q + (r + 1) /\ r + 1 \in 0 .. P - 1 /\ x + 1 \in Nat
      BY <1>1, <1>5
    <2>2. (x + 1) % P = r + 1
      BY ONLY Zenon, <1>2, <2>1, q \in Nat
    <2>3. (r + 1) % P = r + 1
      BY <1>5
    <2> QED BY <1>1, <1>4, <2>2, <2>3
  <1>6. CASE r + 1 = P
    <2>1. x + 1 = P * (q + 1) + 0 /\ x + 1 \in Nat /\ q + 1 \in Nat /\ 0 \in 0 .. P - 1
      BY <1>1, <1>6
    <2>2. (x + 1) % P = 0
      BY ONLY Zenon, <1>2, <2>1
    <2>3. (r + 1) % P = 0
      BY <1>6
    <2> QED BY <1>1, <1>4, <2>2, <2>3
  <1> QED BY <1>5, <1>6

\* So the choice of a smallest one is one.
LEMMA ChosenIsSmallest ==
    ASSUME NEW S, S \subseteq Nat, S # {}
    PROVE  (CHOOSE s \in S : \A r \in S : s <= r) \in S
  <1>1. \E s \in S : \A r \in S : s <= r
    BY Zenon, SmallestExists
  <1> QED BY Zenon, <1>1

\* A number is given by its quotient and its remainder.
LEMMA Division ==
    ASSUME NEW b \in Nat, NEW s \in Nat \ {0}
    PROVE  /\ b \div s \in Nat /\ b % s \in 0 .. s - 1
           /\ \A c \in Nat : b \div s = c \div s /\ b % s = c % s => b = c
  OBVIOUS
-----------------------------------------------------------------------------
(***************************************************************************)
(* pageFlush.c, for any size of the TLB and of the memory, any pages and   *)
(* any number of ASIDs.                                                    *)
(***************************************************************************)
CONSTANTS MmuEntries, MmuFrames, MmuPages, MaxAsid, MmuPins
VARIABLES mm_pin_count, mm_page_table, mm_asid, mm_tlb, mm_current_asid, mm_next_asid,
          mm_released

MM == INSTANCE AsidMmu WITH
        TlbSize <- MmuEntries, NumFrames <- MmuFrames, Vpns <- MmuPages,
        MaxPins <- MmuPins, pin_count <- mm_pin_count, page_table <- mm_page_table,
        asid <- mm_asid, tlb <- mm_tlb, current_asid <- mm_current_asid,
        next_asid <- mm_next_asid, released <- mm_released

ASSUME MmuAssumption == MM!ConstantsOK

\* The MMU: a valid entry is the first of its tag, and says what the page table says.
LEMMA MmuInductive ==
    ASSUME MM!ConstantsOK
    PROVE  /\ MM!Init => MM!MmuInv
           /\ MM!MmuInv /\ [MM!Next]_(MM!vars) => MM!MmuInv'
           /\ MM!MmuInv => /\ MM!TypeOK /\ MM!FlushReaches /\ MM!TlbAgrees
                         /\ MM!FramesExclusive /\ MM!SharedOnlyWhenTaken
  \* Initially no entry is valid, no page is mapped and no ASID is given away.
  <1>MmuInit. MM!Init => MM!MmuInv
    BY DEF MM!ConstantsOK, MM!Init, MM!MmuInv, MM!TypeOK, MM!FirstOfTag, MM!TlbAgrees,
       MM!MappedIsPinned,
           MM!FramesExclusive, MM!AsidsInOrder, MM!Entries, MM!Slots, MM!Frames, MM!Asids, MM!Processes

  \* Filling an entry after a miss keeps the first entry of every tag first: the
  \* entries before the new one are valid and missed.
  <1>FillKeeps.
    ASSUME MM!MmuInv, NEW v \in MmuPages, NEW f \in MM!Frames,
           mm_current_asid # 0, MM!Misses(v, mm_current_asid), mm_tlb' = MM!Filled(v, mm_current_asid, f),
           mm_page_table'[mm_current_asid][v] = f, mm_page_table' \in [MM!Processes -> [MmuPages -> MM!Frames \cup {-1}]],
           \A p \in MM!Processes, w \in MmuPages :
              mm_page_table[p][w] # -1 => mm_page_table'[p][w] = mm_page_table[p][w]
    PROVE  mm_tlb' \in [MM!Slots -> MM!Entries] /\ MM!FirstOfTag' /\ MM!TlbAgrees'
    <2> USE <1>FillKeeps
    <2> DEFINE new == [vpn |-> v, pfn |-> f, asid |-> mm_current_asid, valid |-> TRUE]
    <2>1. /\ mm_tlb \in [MM!Slots -> MM!Entries] /\ mm_current_asid \in MM!Asids
          /\ mm_page_table \in [MM!Processes -> [MmuPages -> MM!Frames \cup {-1}]]
      BY DEF MM!MmuInv, MM!TypeOK
    <2>2. new \in MM!Entries
      BY <2>1 DEF MM!Entries, MM!ConstantsOK, MM!Frames
    <2>3. \A i \in MM!Slots : mm_tlb'[i] = mm_tlb[i] \/ mm_tlb'[i] = new
      BY DEF MM!Filled
    <2>4. mm_tlb' \in [MM!Slots -> MM!Entries]
      BY <2>1, <2>2 DEF MM!Filled
    <2>5. MM!FirstOfTag'
      BY DEF MM!MmuInv, MM!FirstOfTag, MM!Misses, MM!Hits, MM!Tagged, MM!Filled, MM!Slots,
         MM!ConstantsOK
    <2>6. ASSUME NEW i \in MM!Slots, mm_tlb'[i].valid
          PROVE  mm_tlb'[i].vpn \in MmuPages /\ mm_page_table'[mm_tlb'[i].asid][mm_tlb'[i].vpn] = mm_tlb'[i].pfn
      <3>1. CASE mm_tlb'[i] = new
        BY <3>1
      <3>2. CASE mm_tlb'[i] = mm_tlb[i]
        <4>1. /\ mm_tlb[i].vpn \in MmuPages /\ mm_tlb[i].asid \in MM!Asids /\ mm_tlb[i].pfn \in Nat
              /\ mm_page_table[mm_tlb[i].asid][mm_tlb[i].vpn] = mm_tlb[i].pfn
          BY <2>1, <2>6, <3>2 DEF MM!MmuInv, MM!TlbAgrees, MM!Entries
        <4> QED BY <4>1, <3>2 DEF MM!Asids, MM!Processes
      <3> QED BY <2>3, <3>1, <3>2
    <2> QED BY <2>4, <2>5, <2>6 DEF MM!TlbAgrees

  \* Making entries invalid, one or all, keeps what holds of the valid ones.
  <1>InvalidateKeeps.
    ASSUME MM!MmuInv, UNCHANGED mm_page_table, NEW v, NEW a,
           mm_tlb' = MM!Flushed(v, a) \/ mm_tlb' = MM!Emptied
    PROVE  mm_tlb' \in [MM!Slots -> MM!Entries] /\ MM!FirstOfTag' /\ MM!TlbAgrees'
    <2> USE <1>InvalidateKeeps
    <2>1. mm_tlb \in [MM!Slots -> MM!Entries]
      BY DEF MM!MmuInv, MM!TypeOK
    <2>2. ASSUME NEW i \in MM!Slots
          PROVE  /\ [mm_tlb[i] EXCEPT !.valid = FALSE] \in MM!Entries
                 /\ mm_tlb'[i] = mm_tlb[i] \/ mm_tlb'[i] = [mm_tlb[i] EXCEPT !.valid = FALSE]
      BY Zenon, <2>1 DEF MM!Flushed, MM!Emptied, MM!Entries
    <2>3. mm_tlb' \in [MM!Slots -> MM!Entries]
      BY <2>1, <2>2 DEF MM!Flushed, MM!Emptied
    <2>4. \A i \in MM!Slots : /\ mm_tlb'[i].vpn = mm_tlb[i].vpn /\ mm_tlb'[i].pfn = mm_tlb[i].pfn
                              /\ mm_tlb'[i].asid = mm_tlb[i].asid
                              /\ mm_tlb'[i].valid => mm_tlb[i].valid
      BY Zenon, <2>1, <2>2 DEF MM!Entries
    <2>5. MM!FirstOfTag' /\ MM!TlbAgrees'
      BY <2>4 DEF MM!MmuInv, MM!FirstOfTag, MM!TlbAgrees, MM!Tagged
    <2> QED BY <2>3, <2>5

  \* allocate_page takes a frame that nobody pins, and an unpinned frame that is
  \* mapped was released.
  <1>AllocateKeeps.
    ASSUME MM!MmuInv, NEW v \in MmuPages, NEW f \in MM!Frames, mm_current_asid # 0,
           MM!allocate_page(f), UNCHANGED mm_released,
           mm_page_table' = [mm_page_table EXCEPT ![mm_current_asid][v] = f]
    PROVE  /\ mm_pin_count' \in [MM!Frames -> Nat]
           /\ mm_page_table' \in [MM!Processes -> [MmuPages -> MM!Frames \cup {-1}]]
           /\ MM!MappedIsPinned' /\ MM!FramesExclusive'
    <2> USE <1>AllocateKeeps
    <2> USE DEF MM!ConstantsOK
    <2>1. /\ mm_pin_count \in [MM!Frames -> Nat] /\ mm_current_asid \in MM!Processes
          /\ mm_page_table \in [MM!Processes -> [MmuPages -> MM!Frames \cup {-1}]]
      BY Zenon DEF MM!MmuInv, MM!TypeOK, MM!Asids, MM!Processes
    <2>2. mm_pin_count' \in [MM!Frames -> Nat]
      BY <2>1 DEF MM!allocate_page
    <2>3. mm_page_table' \in [MM!Processes -> [MmuPages -> MM!Frames \cup {-1}]]
      BY <2>1
    <2>4. \A p \in MM!Processes, w \in MmuPages :
              mm_page_table'[p][w] = IF p = mm_current_asid /\ w = v THEN f ELSE mm_page_table[p][w]
      BY <2>1
    <2>5. \A p \in MM!Processes, w \in MmuPages : mm_page_table[p][w] = f => f \in mm_released
      BY <2>1 DEF MM!MmuInv, MM!MappedIsPinned, MM!allocate_page, MM!Frames
    <2>6. MM!MappedIsPinned'
      BY <2>1, <2>4 DEF MM!MmuInv, MM!MappedIsPinned, MM!allocate_page, MM!Frames
    <2>7. MM!FramesExclusive'
      BY <2>1, <2>4, <2>5 DEF MM!MmuInv, MM!FramesExclusive, MM!Frames
    <2> QED BY <2>2, <2>3, <2>6, <2>7

  \* A process that has no ASID gets the next one; the one that uses up the last
  \* ASID leaves none that is not given away.
  <1>AsidsKeep.
    ASSUME MM!MmuInv, NEW p \in MM!Processes, MM!switch_process(p)
    PROVE  /\ mm_asid' \in [MM!Processes -> MM!Asids] /\ mm_next_asid' \in 1 .. MaxAsid
           /\ mm_current_asid' \in MM!Asids /\ MM!AsidsInOrder'
    <2> USE <1>AsidsKeep
    <2>1. mm_asid \in [MM!Processes -> MM!Asids] /\ mm_next_asid \in 1 .. MaxAsid
      BY DEF MM!MmuInv, MM!TypeOK
    <2>2. CASE mm_asid[p] # 0
      <3>1. UNCHANGED <<mm_asid, mm_next_asid>> /\ mm_current_asid' = mm_asid[p]
        BY <2>2 DEF MM!switch_process
      <3>2. MM!AsidsInOrder'
        BY <3>1 DEF MM!MmuInv, MM!AsidsInOrder
      <3> QED BY <2>1, <3>1, <3>2
    <2>3. CASE mm_asid[p] = 0
      <3>1. mm_asid' = [mm_asid EXCEPT ![p] = mm_next_asid] /\ mm_current_asid' = mm_asid'[p]
        BY <2>3 DEF MM!switch_process
      <3>2. \/ mm_next_asid = MaxAsid /\ mm_next_asid' = 1
            \/ mm_next_asid < MaxAsid /\ mm_next_asid' = mm_next_asid + 1
        BY <2>1, <2>3 DEF MM!ConstantsOK, MM!switch_process, MM!Incremented
      <3>3. /\ mm_asid' \in [MM!Processes -> MM!Asids] /\ mm_next_asid' \in 1 .. MaxAsid
            /\ mm_current_asid' \in MM!Asids
        BY <2>1, <3>1, <3>2 DEF MM!ConstantsOK, MM!Asids
      <3>4. \A q \in MM!Processes : mm_asid'[q] = IF q = p THEN mm_next_asid ELSE mm_asid[q]
        BY <2>1, <3>1
      <3>5. CASE \A a \in 1 .. MaxAsid : \E r \in MM!Processes : mm_asid[r] = a
        <4>1. \A a \in 1 .. MaxAsid : \E r \in MM!Processes : mm_asid'[r] = a
          BY <2>1, <2>3, <3>4, <3>5
        <4> QED BY Zenon, <3>3, <4>1 DEF MM!AsidsInOrder
      <3>6. CASE /\ \A q \in MM!Processes : mm_asid[q] < mm_next_asid
                 /\ \A a \in 1 .. mm_next_asid - 1 : \E r \in MM!Processes : mm_asid[r] = a
                 /\ \A q, r \in MM!Processes : q # r /\ mm_asid[q] = mm_asid[r] => mm_asid[q] = 0
        <4>1. \A a \in 1 .. mm_next_asid : \E r \in MM!Processes : mm_asid'[r] = a
          <5> SUFFICES ASSUME NEW a \in 1 .. mm_next_asid
                       PROVE  \E r \in MM!Processes : mm_asid'[r] = a
            OBVIOUS
          <5>1. CASE a = mm_next_asid
            BY <3>4, <5>1
          <5>2. CASE a # mm_next_asid
            <6>1. PICK r \in MM!Processes : mm_asid[r] = a
              BY <2>1, <3>6, <5>2
            <6> QED BY <2>1, <2>3, <3>4, <6>1
          <5> QED BY <5>1, <5>2
        <4>2. CASE mm_next_asid = MaxAsid
          BY Zenon, <3>3, <4>1, <4>2 DEF MM!AsidsInOrder
        <4>3. CASE mm_next_asid < MaxAsid /\ mm_next_asid' = mm_next_asid + 1
          <5>1. \A q \in MM!Processes : mm_asid'[q] < mm_next_asid'
            BY <2>1, <3>4, <3>6, <4>3 DEF MM!Asids
          <5>2. \A q, r \in MM!Processes : q # r /\ mm_asid'[q] = mm_asid'[r] => mm_asid'[q] = 0
            BY <2>1, <3>4, <3>6, <4>3 DEF MM!Asids
          <5>3. mm_next_asid' - 1 = mm_next_asid
            BY <2>1, <4>3
          <5> QED BY Zenon, <3>3, <4>1, <5>1, <5>2, <5>3 DEF MM!AsidsInOrder
        <4> QED BY <3>2, <4>2, <4>3
      <3> QED BY <3>5, <3>6 DEF MM!MmuInv, MM!AsidsInOrder
    <2> QED BY <2>2, <2>3

  <1>MmuNext. MM!MmuInv /\ [MM!Next]_(MM!vars) => MM!MmuInv'
    <2> SUFFICES ASSUME MM!MmuInv, [MM!Next]_(MM!vars)
                 PROVE  MM!MmuInv'
      OBVIOUS
    <2> USE DEF MM!MmuInv
    <2>1. CASE UNCHANGED MM!vars
      BY <2>1 DEF MM!vars, MM!TypeOK, MM!FirstOfTag, MM!TlbAgrees, MM!MappedIsPinned,
         MM!FramesExclusive,
                  MM!AsidsInOrder, MM!Tagged
    <2>2. ASSUME NEW f \in MM!Frames, MM!pin_page(f)
          PROVE  MM!MmuInv'
      <3>1. mm_pin_count' \in [MM!Frames -> Nat] /\ MM!MappedIsPinned'
        BY <2>2 DEF MM!pin_page, MM!TypeOK, MM!MappedIsPinned, MM!ConstantsOK, MM!Frames
      <3> QED BY <2>2, <3>1 DEF MM!pin_page, MM!TypeOK, MM!FirstOfTag, MM!TlbAgrees,
                 MM!FramesExclusive,
                                MM!AsidsInOrder, MM!Tagged
    <2>3. ASSUME NEW f \in MM!Frames, MM!unpin_page(f)
          PROVE  MM!MmuInv'
      <3>1. mm_pin_count' \in [MM!Frames -> Nat] /\ mm_released' \subseteq MM!Frames /\ mm_released \subseteq mm_released'
        BY <2>3 DEF MM!unpin_page, MM!TypeOK
      <3>2. MM!MappedIsPinned'
        BY <2>3 DEF MM!unpin_page, MM!TypeOK, MM!MappedIsPinned, MM!ConstantsOK, MM!Frames
      <3> QED BY <2>3, <3>1, <3>2 DEF MM!unpin_page, MM!TypeOK, MM!FirstOfTag, MM!TlbAgrees,
                                      MM!FramesExclusive, MM!AsidsInOrder, MM!Tagged
    <2>4. CASE MM!flush_tlb \/ \E v \in MmuPages, a \in MM!Asids : MM!flush_tlb_entry(v, a)
      <3>1. mm_tlb' \in [MM!Slots -> MM!Entries] /\ MM!FirstOfTag' /\ MM!TlbAgrees'
        BY <2>4, <1>InvalidateKeeps DEF MM!flush_tlb_entry, MM!flush_tlb
      <3> QED BY <2>4, <3>1 DEF MM!flush_tlb_entry, MM!flush_tlb, MM!frames, MM!TypeOK,
                 MM!MappedIsPinned,
                                MM!FramesExclusive, MM!AsidsInOrder
    <2>5. ASSUME NEW v \in MmuPages, MM!translate_present(v)
          PROVE  MM!MmuInv'
      <3>1. mm_page_table[mm_current_asid][v] \in MM!Frames
        BY <2>5 DEF MM!translate_present, MM!TypeOK, MM!Asids, MM!Processes
      <3>2. mm_tlb' \in [MM!Slots -> MM!Entries] /\ MM!FirstOfTag' /\ MM!TlbAgrees'
        BY <2>5, <3>1, <1>FillKeeps DEF MM!translate_present, MM!TypeOK
      <3> QED BY <2>5, <3>2 DEF MM!translate_present, MM!frames, MM!TypeOK, MM!MappedIsPinned,
                                MM!FramesExclusive, MM!AsidsInOrder
    <2>6. ASSUME NEW v \in MmuPages, MM!translate_absent(v)
          PROVE  MM!MmuInv'
      <3>1. PICK f \in MM!Frames : /\ MM!allocate_page(f)
                                   /\ mm_page_table' = [mm_page_table EXCEPT ![mm_current_asid][v] = f]
                                   /\ mm_tlb' = MM!Filled(v, mm_current_asid, f)
        BY Zenon, <2>6 DEF MM!translate_absent
      <3>2. /\ mm_pin_count' \in [MM!Frames -> Nat] /\ MM!MappedIsPinned' /\ MM!FramesExclusive'
            /\ mm_page_table' \in [MM!Processes -> [MmuPages -> MM!Frames \cup {-1}]]
        BY Zenon, <2>6, <3>1, <1>AllocateKeeps DEF MM!translate_absent
      <3>3. /\ mm_page_table'[mm_current_asid][v] = f
            /\ \A p \in MM!Processes, w \in MmuPages :
                  mm_page_table[p][w] # -1 => mm_page_table'[p][w] = mm_page_table[p][w]
        BY <2>6, <3>1 DEF MM!translate_absent, MM!TypeOK, MM!Asids, MM!Processes
      <3>4. mm_tlb' \in [MM!Slots -> MM!Entries] /\ MM!FirstOfTag' /\ MM!TlbAgrees'
        BY <2>6, <3>1, <3>2, <3>3, <1>FillKeeps DEF MM!translate_absent
      <3> QED BY <2>6, <3>2, <3>4 DEF MM!translate_absent, MM!TypeOK, MM!AsidsInOrder
    <2>7. ASSUME NEW p \in MM!Processes, MM!switch_process(p)
          PROVE  MM!MmuInv'
      <3>1. /\ mm_asid' \in [MM!Processes -> MM!Asids] /\ mm_next_asid' \in 1 .. MaxAsid
            /\ mm_current_asid' \in MM!Asids /\ MM!AsidsInOrder'
        BY <2>7, <1>AsidsKeep
      <3>2. UNCHANGED <<MM!frames, mm_page_table>> /\ (UNCHANGED mm_tlb \/ mm_tlb' = MM!Emptied)
        BY <2>7 DEF MM!switch_process
      <3>3. mm_tlb' \in [MM!Slots -> MM!Entries] /\ MM!FirstOfTag' /\ MM!TlbAgrees'
        BY Zenon, <3>2, <1>InvalidateKeeps DEF MM!TypeOK, MM!FirstOfTag, MM!TlbAgrees, MM!Tagged
      <3> QED BY <3>1, <3>2, <3>3 DEF MM!frames, MM!TypeOK, MM!MappedIsPinned, MM!FramesExclusive
    <2> QED BY <2>1, <2>2, <2>3, <2>4, <2>5, <2>6, <2>7 DEF MM!Next

  \* A flush reaches the entry since it looks at the first of a tag, and ASIDs are
  \* given away in order.
  <1>MmuGives.
    ASSUME MM!MmuInv
    PROVE  MM!TypeOK /\ MM!FlushReaches /\ MM!TlbAgrees /\ MM!FramesExclusive /\ MM!SharedOnlyWhenTaken
    <2> USE <1>MmuGives
    <2>1. MM!FlushReaches
      <3> SUFFICES ASSUME NEW v \in MmuPages, NEW a \in MM!Asids, NEW i \in MM!Slots,
                          MM!Hits(MM!Flushed(v, a)[i], v, a)
                   PROVE  FALSE
        BY DEF MM!FlushReaches
      <3>1. mm_tlb \in [MM!Slots -> MM!Entries] /\ MM!FirstOfTag
        BY DEF MM!MmuInv, MM!TypeOK
      <3>2. MM!Flushed(v, a)[i] = mm_tlb[i] \/ MM!Flushed(v, a)[i] = [mm_tlb[i] EXCEPT !.valid = FALSE]
        BY DEF MM!Flushed
      <3>3. MM!Hits(mm_tlb[i], v, a) /\ MM!Flushed(v, a)[i] = mm_tlb[i]
        BY <3>1, <3>2 DEF MM!Hits, MM!Tagged, MM!Entries
      <3>4. \A j \in MM!Slots : j < i => ~ MM!Tagged(mm_tlb[j], v, a)
        BY <3>1, <3>3 DEF MM!FirstOfTag, MM!Hits, MM!Tagged
      <3>5. MM!Flushed(v, a)[i] = [mm_tlb[i] EXCEPT !.valid = FALSE]
        BY <3>3, <3>4 DEF MM!Flushed, MM!Hits
      <3> QED BY <3>1, <3>3, <3>5 DEF MM!Hits, MM!Entries
    <2>2. MM!SharedOnlyWhenTaken
      BY DEF MM!MmuInv, MM!AsidsInOrder, MM!SharedOnlyWhenTaken
    <2> QED BY <2>1, <2>2 DEF MM!MmuInv

  <1> QED BY Zenon, <1>MmuInit, <1>MmuNext, <1>MmuGives

\* pageFlush.c, for every size of the TLB and of the memory and every number of
\* ASIDs: a flush of an entry reaches it, the TLB agrees with the page tables,
\* frames are shared only after a release, and ASIDs only when all are taken.
THEOREM MmuTranslatesRight ==
    ASSUME MM!ConstantsOK
    PROVE  MM!Spec => [](/\ MM!FlushReaches /\ MM!TlbAgrees
                         /\ MM!FramesExclusive /\ MM!SharedOnlyWhenTaken)
  <1>1. (MM!Init => MM!MmuInv) /\ (MM!MmuInv /\ [MM!Next]_(MM!vars) => MM!MmuInv')
    BY Zenon, MmuInductive
  <1>2. MM!MmuInv => /\ MM!FlushReaches /\ MM!TlbAgrees
                     /\ MM!FramesExclusive /\ MM!SharedOnlyWhenTaken
    BY Zenon, MmuInductive
  <1> QED BY <1>1, <1>2, PTL DEF MM!Spec
-----------------------------------------------------------------------------
(***************************************************************************)
(* CustomBufferManagementSystem.c, for any size of the pool and of the     *)
(* page table, while pages are numbered below the size of the table.       *)
(***************************************************************************)

CONSTANTS PoolSize, TableSize, BmPages, MaxPins
VARIABLES bm_page_id, bm_is_dirty, bm_pin_count, bm_reference_bits, bm_page_table,
          bm_free_list, bm_clock_hand, bm_written, bm_spinning

BM == INSTANCE BufferManager WITH
        Pages <- BmPages, page_id <- bm_page_id, is_dirty <- bm_is_dirty,
        pin_count <- bm_pin_count, reference_bits <- bm_reference_bits,
        page_table <- bm_page_table, free_list <- bm_free_list,
        clock_hand <- bm_clock_hand, written <- bm_written, spinning <- bm_spinning

ASSUME PoolAssumption == BM!PoolConstants

\* The buffer manager: the table, the free list and the frames agree at every step.
LEMMA PoolInductive ==
    ASSUME BM!PoolConstants
    PROVE  /\ BM!Init => BM!PoolInv
           /\ BM!PoolInv /\ [BM!Next]_(BM!vars) => BM!PoolInv' /\ [BM!StepKeeps]_(BM!vars)
           /\ BM!PoolInv => BM!TypeOK /\ BM!TableMatchesFrames /\ BM!SpinsOnlyIfAllPinned
  \* One turn of the clock keeps the state one of the loop's.
  <1>TurnIsSweep.
    ASSUME NEW s \in BM!Sweeps
    PROVE  BM!Turn(s) \in BM!Sweeps
    <2> USE <1>TurnIsSweep
    <2>1. (s.hand + 1) % PoolSize \in BM!Frames
      BY DEF BM!PoolConstants, BM!Sweeps, BM!Frames
    <2> QED BY Zenon, <2>1 DEF BM!Sweeps, BM!Turn

  \* The states find_victim_page goes through, and that it ends in the last.
  <1>SweepRuns.
    ASSUME bm_clock_hand \in BM!Frames, bm_reference_bits \in [BM!Frames -> BOOLEAN]
    PROVE  \E sweep \in [0 .. 2 * PoolSize -> BM!Sweeps] :
             /\ sweep[0] = [hand |-> bm_clock_hand, ref |-> bm_reference_bits, victim |-> BM!None]
             /\ \A n \in 1 .. 2 * PoolSize :
                   sweep[n] = IF sweep[n - 1].victim # BM!None THEN sweep[n - 1] ELSE BM!Turn(sweep[n - 1])
             /\ BM!find_victim_page = sweep[2 * PoolSize]
    <2> USE <1>SweepRuns
    <2> DEFINE a == [hand |-> bm_clock_hand, ref |-> bm_reference_bits, victim |-> BM!None]
               N == 2 * PoolSize
               go(s) == IF s.victim # BM!None THEN s ELSE BM!Turn(s)
               step == [n \in 1 .. N |-> [s \in BM!Sweeps |-> go(s)]]
               Is(f) == f = [n \in 0 .. N |-> IF n = 0 THEN a ELSE go(f[n - 1])]
    <2>1. a \in BM!Sweeps /\ N \in Nat
      BY DEF BM!PoolConstants, BM!Sweeps
    <2>2. step \in [1 .. N -> [BM!Sweeps -> BM!Sweeps]]
      BY <1>TurnIsSweep
    <2> HIDE DEF a, N
    <2>3. PICK f \in [0 .. N -> BM!Sweeps] : f[0] = a /\ \A n \in 1 .. N : f[n] = step[n][f[n - 1]]
      <3> HIDE DEF step
      <3> QED BY SMTT(30), <2>1, <2>2, Iterates
    <2>4. \A n \in 1 .. N : f[n] = go(f[n - 1])
      <3> SUFFICES ASSUME NEW n \in 1 .. N
                   PROVE  f[n] = go(f[n - 1])
        OBVIOUS
      <3>1. f[n - 1] \in BM!Sweeps
        BY <2>1
      <3> QED BY Zenon, <2>3, <3>1
    <2> HIDE DEF step
    <2>5. Is(f)
      <3> HIDE DEF go
      <3>1. \A n \in 0 .. N : f[n] = IF n = 0 THEN a ELSE go(f[n - 1])
        BY <2>1, <2>3, <2>4
      <3> QED BY <3>1
    <2> DEFINE sweep == CHOOSE g : Is(g)
    <2>6. Is(sweep)
      BY Zenon, <2>5
    <2>7. BM!find_victim_page = sweep[N]
      BY DEF BM!find_victim_page, a, N
    <2> HIDE DEF sweep
    <2>8. sweep[0] = a /\ \A n \in 1 .. N : sweep[n] = go(sweep[n - 1])
      BY <2>1, <2>6
    <2>9. sweep = f
      <3> HIDE DEF go
      <3> DEFINE S == {n \in 0 .. N : sweep[n] = f[n]}
      <3>1. 0 \in S
        BY <2>1, <2>3, <2>8
      <3>2. ASSUME NEW n \in 0 .. N - 1, n \in S
            PROVE  n + 1 \in S
        <4>1. n + 1 \in 1 .. N /\ n + 1 - 1 = n
          BY <2>1
        <4> QED BY <2>4, <2>8, <3>2, <4>1
      <3> HIDE DEF S
      <3>3. \A n \in 0 .. N : n \in S
        BY <2>1, <3>1, <3>2, UpTo
      <3>4. \A n \in 0 .. N : sweep[n] = f[n]
        BY <3>3 DEF S
      <3>5. sweep = [n \in 0 .. N |-> IF n = 0 THEN a ELSE go(sweep[n - 1])]
        BY Zenon, <2>6
      <3> QED BY <3>4, <3>5
    <2> QED BY Zenon, <2>3, <2>7, <2>8, <2>9 DEF a, N

  \* find_victim_page takes an unpinned frame, if there is one: the first lap clears
  \* its reference bit at the latest, the second finds it.
  <1>VictimIsRight.
    ASSUME bm_clock_hand \in BM!Frames, bm_reference_bits \in [BM!Frames -> BOOLEAN],
           bm_pin_count \in [BM!Frames -> 0 .. MaxPins]
    PROVE  /\ BM!find_victim_page \in BM!Sweeps
           /\ BM!find_victim_page.victim # BM!None => bm_pin_count[BM!find_victim_page.victim] = 0
           /\ BM!find_victim_page.victim = BM!None => \A f \in BM!Frames : bm_pin_count[f] > 0
    <2> USE <1>VictimIsRight
    <2> DEFINE N == 2 * PoolSize
    <2>1. PICK sweep \in [0 .. N -> BM!Sweeps] :
               /\ sweep[0] = [hand |-> bm_clock_hand, ref |-> bm_reference_bits, victim |-> BM!None]
               /\ \A n \in 1 .. N :
                     sweep[n] = IF sweep[n - 1].victim # BM!None THEN sweep[n - 1] ELSE BM!Turn(sweep[n - 1])
               /\ BM!find_victim_page = sweep[N]
      BY <1>SweepRuns
    <2>2. N \in Nat /\ PoolSize \in Nat \ {0} /\ bm_clock_hand \in Nat /\ bm_clock_hand < PoolSize
      BY DEF BM!PoolConstants, BM!Frames
    <2>3. sweep[N] \in BM!Sweeps
      BY <2>2
    <2>4. \A n \in 0 .. N - 1 : /\ n + 1 \in 1 .. N /\ n \in 0 .. N /\ sweep[n] \in BM!Sweeps /\ sweep[n + 1] \in BM!Sweeps
                               /\ sweep[n + 1] = IF sweep[n].victim # BM!None THEN sweep[n] ELSE BM!Turn(sweep[n])
      <3> SUFFICES ASSUME NEW n \in 0 .. N - 1
                   PROVE  /\ n + 1 \in 1 .. N /\ n \in 0 .. N /\ sweep[n] \in BM!Sweeps /\ sweep[n + 1] \in BM!Sweeps
                          /\ sweep[n + 1] = IF sweep[n].victim # BM!None THEN sweep[n] ELSE BM!Turn(sweep[n])
        OBVIOUS
      <3>1. n + 1 \in 1 .. N /\ n \in 0 .. N /\ n + 1 \in 0 .. N /\ n + 1 - 1 = n
        BY <2>2
      <3> QED BY <2>1, <3>1
    <2> HIDE DEF N
    <2>5. ASSUME NEW s \in BM!Sweeps, s.victim = BM!None
          PROVE  LET t == BM!Turn(s)
                 IN /\ t.hand = (s.hand + 1) % PoolSize
                    /\ \A f \in BM!Frames : ~ s.ref[f] => ~ t.ref[f]
                    /\ t.victim # BM!None => bm_pin_count[t.victim] = 0
                    /\ t.victim = BM!None => bm_pin_count[s.hand] > 0 \/ (s.ref[s.hand] /\ ~ t.ref[s.hand])
      <3>1. /\ s.hand \in BM!Frames /\ s.ref \in [BM!Frames -> BOOLEAN] /\ bm_pin_count[s.hand] \in Nat
            /\ s.hand # BM!None
        BY <2>2 DEF BM!Sweeps, BM!Frames, BM!None
      <3>2. CASE bm_pin_count[s.hand] > 0
        BY <2>5, <3>1, <3>2 DEF BM!Turn, BM!Sweeps
      <3>3. CASE ~ (bm_pin_count[s.hand] > 0) /\ s.ref[s.hand]
        BY <2>5, <3>1, <3>3 DEF BM!Turn, BM!Sweeps
      <3>4. CASE ~ (bm_pin_count[s.hand] > 0) /\ ~ s.ref[s.hand]
        BY <2>5, <3>1, <3>4 DEF BM!Turn, BM!Sweeps
      <3> QED BY <3>2, <3>3, <3>4
    <2>6. sweep[N].victim # BM!None => bm_pin_count[sweep[N].victim] = 0
      <3> DEFINE S == {n \in 0 .. N : sweep[n].victim # BM!None => bm_pin_count[sweep[n].victim] = 0}
      <3>1. 0 \in S
        BY <2>1, <2>2
      <3>2. ASSUME NEW n \in 0 .. N - 1, n \in S
            PROVE  n + 1 \in S
        <4>1. sweep[n + 1].victim # BM!None => bm_pin_count[sweep[n + 1].victim] = 0
          BY <2>4, <2>5, <3>2
        <4> QED BY <2>2, <4>1
      <3> HIDE DEF S
      <3>3. \A n \in 0 .. N : n \in S
        BY Zenon, <2>2, <3>1, <3>2, UpTo
      <3>4. N \in S
        BY <2>2, <3>3
      <3> QED BY <3>4 DEF S
    <2>7. ASSUME sweep[N].victim = BM!None
          PROVE  /\ \A n \in 0 .. N : sweep[n].victim = BM!None /\ sweep[n].hand = (bm_clock_hand + n) % PoolSize
                 /\ \A n, m \in 0 .. N : m <= n => \A f \in BM!Frames : ~ sweep[m].ref[f] => ~ sweep[n].ref[f]
      <3> DEFINE P(n) == \A m \in 0 .. n :
                           /\ sweep[m].victim = BM!None /\ sweep[m].hand = (bm_clock_hand + m) % PoolSize
                           /\ \A f \in BM!Frames : ~ sweep[m].ref[f] => ~ sweep[n].ref[f]
                 S == {n \in 0 .. N : sweep[n].victim = BM!None => P(n)}
      <3>1. 0 \in S
        <4>1. bm_clock_hand % PoolSize = bm_clock_hand /\ bm_clock_hand + 0 = bm_clock_hand
          BY <2>2
        <4>2. 0 \in 0 .. N /\ 0 .. 0 = {0}
          BY <2>2
        <4> QED BY <2>1, <4>1, <4>2
      <3>2. ASSUME NEW n \in 0 .. N - 1, n \in S
            PROVE  n + 1 \in S
        <4> SUFFICES ASSUME sweep[n + 1].victim = BM!None
                     PROVE  P(n + 1)
          BY <2>2
        <4>1. sweep[n].victim = BM!None /\ sweep[n + 1] = BM!Turn(sweep[n]) /\ sweep[n] \in BM!Sweeps
          BY <2>4
        <4>2. P(n)
          BY <3>2, <4>1
        <4>3. /\ sweep[n + 1].hand = (sweep[n].hand + 1) % PoolSize
              /\ \A f \in BM!Frames : ~ sweep[n].ref[f] => ~ sweep[n + 1].ref[f]
          BY <2>5, <4>1
        <4>4. sweep[n].hand = (bm_clock_hand + n) % PoolSize
          BY <4>2
        <4>5. sweep[n + 1].hand = (bm_clock_hand + (n + 1)) % PoolSize
          <5>1. bm_clock_hand + n \in Nat /\ bm_clock_hand + n + 1 = bm_clock_hand + (n + 1)
            BY <2>2
          <5>2. (((bm_clock_hand + n) % PoolSize) + 1) % PoolSize = (bm_clock_hand + n + 1) % PoolSize
            BY Zenon, <2>2, <5>1, Wraps
          <5> QED BY <4>3, <4>4, <5>1, <5>2
        <4>6. \A m \in 0 .. n + 1 : m \in 0 .. n \/ m = n + 1
          OBVIOUS
        <4> QED BY <4>2, <4>3, <4>5, <4>6
      <3> HIDE DEF S
      <3>3. \A n \in 0 .. N : n \in S
        BY <2>2, <3>1, <3>2, UpTo
      <3>4. N \in S /\ N \in 0 .. N
        BY <2>2, <3>3
      <3>5. P(N)
        BY <2>7, <3>4 DEF S
      <3>6. \A n \in 0 .. N : sweep[n].victim = BM!None
        BY <3>5
      <3>7. \A n \in 0 .. N : P(n)
        BY <3>3, <3>6 DEF S
      <3>8. ASSUME NEW n \in 0 .. N, NEW m \in 0 .. N, m <= n
            PROVE  \A f \in BM!Frames : ~ sweep[m].ref[f] => ~ sweep[n].ref[f]
        <4>1. m \in 0 .. n
          BY <3>8
        <4> QED BY <3>7, <4>1
      <3> QED BY <3>5, <3>8
    <2>8. ASSUME sweep[N].victim = BM!None, NEW f \in BM!Frames, ~ (bm_pin_count[f] > 0)
          PROVE  FALSE
      <3>1. PICK i \in 0 .. PoolSize - 1 : (bm_clock_hand + i) % PoolSize = f
        <4>1. f \in Nat /\ f < PoolSize
          BY <2>2 DEF BM!Frames
        <4>2. CASE f >= bm_clock_hand
          <5>1. f - bm_clock_hand \in 0 .. PoolSize - 1 /\ bm_clock_hand + (f - bm_clock_hand) = f /\ f % PoolSize = f
            BY <2>2, <4>1, <4>2
          <5> QED BY <5>1
        <4>3. CASE f < bm_clock_hand
          <5>1. /\ f + PoolSize - bm_clock_hand \in 0 .. PoolSize - 1
                /\ bm_clock_hand + (f + PoolSize - bm_clock_hand) = f + PoolSize /\ f % PoolSize = f
            BY <2>2, <4>1, <4>3
          <5>2. (f + PoolSize) % PoolSize = f
            BY Zenon, <2>2, <4>1, <5>1, Wraps
          <5> QED BY <5>1, <5>2
        <4> QED BY <2>2, <4>1, <4>2, <4>3
      <3>2. i \in 0 .. N - 1 /\ i + PoolSize \in 0 .. N - 1 /\ i + 1 \in 0 .. N /\ i + PoolSize + 1 \in 0 .. N
            /\ i + 1 <= i + PoolSize
        BY <2>2 DEF N
      <3>3. sweep[i].hand = f /\ sweep[i + PoolSize].hand = f
        <4>1. bm_clock_hand + (i + PoolSize) = (bm_clock_hand + i) + PoolSize /\ bm_clock_hand + i \in Nat
          BY <2>2
        <4>2. (bm_clock_hand + (i + PoolSize)) % PoolSize = f
          BY Zenon, <2>2, <3>1, <4>1, Wraps
        <4>3. i \in 0 .. N /\ i + PoolSize \in 0 .. N
          BY <2>2, <3>2
        <4> QED BY <2>7, <2>8, <3>1, <4>2, <4>3
      <3>4. \A n \in {i, i + PoolSize} : /\ sweep[n] \in BM!Sweeps /\ sweep[n].victim = BM!None
                                        /\ sweep[n + 1] = BM!Turn(sweep[n]) /\ sweep[n + 1].victim = BM!None
        BY <2>4, <2>7, <2>8, <3>2
      <3>5. ~ sweep[i + 1].ref[f]
        BY <2>5, <2>8, <3>3, <3>4
      <3>6. sweep[i + PoolSize].ref[f]
        BY <2>5, <2>8, <3>3, <3>4
      <3>7. i + PoolSize \in 0 .. N
        BY <2>2, <3>2
      <3> QED BY <2>7, <2>8, <3>2, <3>5, <3>6, <3>7
    <2> QED BY <2>1, <2>3, <2>6, <2>8

  <1>EntryFields.
    /\ BM!Vacant.page_id = BM!None /\ BM!Vacant.frame_id = BM!None /\ BM!Vacant \in BM!Entries
    /\ \A p, f : BM!Entry(p, f).page_id = p /\ BM!Entry(p, f).frame_id = f
    /\ \A p \in BmPages, f \in BM!Frames : BM!Entry(p, f) \in BM!Entries
    BY DEF BM!Vacant, BM!Entry, BM!Entries

  \* With page ids below TableSize, a search that stops at what is in the page's
  \* own slot stops there.
  <1>ProbeIsHome.
    ASSUME NEW table, NEW p \in BmPages, NEW stop, table[p].page_id \in stop
    PROVE  BM!Probe(table, p, stop) = p
    <2> USE <1>ProbeIsHome
    <2> DEFINE slot(i) == (BM!hash_function(p) + i) % TableSize
               stops == {i \in 0 .. TableSize - 1 : table[slot(i)].page_id \in stop}
    <2>1. p \in Nat /\ p < TableSize /\ TableSize \in Nat \ {0}
      BY DEF BM!PoolConstants
    <2>2. slot(0) = p
      <3>1. BM!hash_function(p) = p
        BY <2>1 DEF BM!hash_function
      <3>2. p + 0 = p /\ p % TableSize = p
        BY <2>1
      <3> QED BY <3>1, <3>2
    <2>3. 0 \in stops /\ \A i \in stops : 0 <= i /\ i \in Nat
      BY <2>1, <2>2
    <2> HIDE DEF stops
    <2>4. BM!Min(stops) = 0
      <3>1. BM!Min(stops) \in stops /\ \A i \in stops : BM!Min(stops) <= i
        BY <2>3 DEF BM!Min
      <3> QED BY <2>3, <3>1
    <2> QED BY Zenon, <2>2, <2>4 DEF BM!Probe, stops

  \* So a lookup gives what is in the page's own slot.
  <1>LookupIsHome.
    ASSUME BM!PoolInv, NEW p \in BmPages
    PROVE  /\ BM!lookup_page(p) = bm_page_table[p].frame_id
           /\ \/ bm_page_table[p] = BM!Vacant /\ BM!lookup_page(p) = BM!None
              \/ \E f \in BM!Frames : bm_page_table[p] = BM!Entry(p, f) /\ bm_page_id[f] = p /\ BM!lookup_page(p) = f
    <2> USE <1>LookupIsHome
    <2>1. p \in BM!Slots
      BY DEF BM!PoolConstants, BM!Slots
    <2>2. bm_page_table[p].page_id \in {p, BM!None}
      BY <2>1 DEF BM!PoolInv, BM!TableIsRight, BM!Vacant, BM!Entry
    <2>3. BM!lookup_page(p) = bm_page_table[p].frame_id
      BY <2>2, <1>ProbeIsHome DEF BM!lookup_page
    <2> QED BY <2>1, <2>3 DEF BM!PoolInv, BM!TableIsRight, BM!Vacant, BM!Entry

  \* The properties that the invariant gives.
  <1>PoolGives. BM!PoolInv => BM!TypeOK /\ BM!TableMatchesFrames /\ BM!SpinsOnlyIfAllPinned
    <2> SUFFICES ASSUME BM!PoolInv
                 PROVE  BM!TypeOK /\ BM!TableMatchesFrames /\ BM!SpinsOnlyIfAllPinned
      OBVIOUS
    <2>1. BM!FrameTypes /\ BM!SpinsOnlyIfAllPinned
      BY DEF BM!PoolInv
    <2>2. bm_page_table \in [0 .. TableSize - 1 -> [page_id : BmPages \cup {BM!None}, frame_id : BM!Frames \cup {BM!None}]]
      BY DEF BM!PoolInv, BM!TableIsRight, BM!Slots, BM!Entries
    <2>3. {bm_free_list[i] : i \in DOMAIN bm_free_list} = {f \in BM!Frames : bm_page_id[f] = BM!None}
      <3>1. DOMAIN bm_free_list = 1 .. Len(bm_free_list) /\ \A i \in 1 .. Len(bm_free_list) : bm_free_list[i] \in BM!Frames
        BY DEF BM!PoolInv, BM!FreeListIsRight
      <3> QED BY <3>1 DEF BM!PoolInv, BM!FreeListIsRight
    <2>4. BM!TableMatchesFrames
      <3> SUFFICES ASSUME NEW p \in BmPages, NEW f \in BM!Frames
                   PROVE  BM!lookup_page(p) = f <=> bm_page_id[f] = p
        BY DEF BM!TableMatchesFrames
      <3>1. f # BM!None /\ p # BM!None
        BY DEF BM!Frames, BM!None, BM!PoolConstants
      <3>2. BM!lookup_page(p) = f => bm_page_id[f] = p
        BY <3>1, <1>LookupIsHome
      <3>3. bm_page_id[f] = p => BM!lookup_page(p) = f
        BY <3>1, <1>LookupIsHome, <1>EntryFields DEF BM!PoolInv, BM!TableIsRight
      <3> QED BY <3>2, <3>3
    <2> QED BY <2>1, <2>2, <2>3, <2>4 DEF BM!TypeOK, BM!FrameTypes

  \* The pool starts with all frames on the free list.
  <1>PoolStart. BM!Init => BM!PoolInv
    <2> SUFFICES ASSUME BM!Init
                 PROVE  BM!PoolInv
      OBVIOUS
    <2> USE DEF BM!Init, BM!init_buffer_pool
    <2>1. BM!FrameTypes /\ BM!SpinsOnlyIfAllPinned
      <3>1. bm_clock_hand \in BM!Frames /\ 0 \in 0 .. MaxPins
        BY DEF BM!PoolConstants, BM!Frames
      <3>2. bm_is_dirty \in [BM!Frames -> BOOLEAN] /\ bm_reference_bits \in [BM!Frames -> BOOLEAN]
        OBVIOUS
      <3>3. bm_page_id \in [BM!Frames -> BmPages \cup {BM!None}] /\ bm_pin_count \in [BM!Frames -> 0 .. MaxPins]
        BY <3>1
      <3>4. bm_spinning \in BOOLEAN /\ bm_written \subseteq BmPages /\ BM!SpinsOnlyIfAllPinned
        BY Zenon DEF BM!SpinsOnlyIfAllPinned
      <3> QED BY <3>1, <3>2, <3>3, <3>4 DEF BM!FrameTypes
    <2>2. BM!TableIsRight(bm_page_table, bm_page_id)
      BY <1>EntryFields DEF BM!TableIsRight, BM!Slots, BM!Vacant
    <2>3. BM!FreeListIsRight
      <3>1. \A i \in 1 .. PoolSize : PoolSize - i \in BM!Frames
        BY DEF BM!PoolConstants, BM!Frames
      <3>2. bm_free_list \in Seq(BM!Frames) /\ Len(bm_free_list) = PoolSize
        BY <3>1 DEF BM!PoolConstants
      <3>3. \A f \in BM!Frames : PoolSize - f \in 1 .. PoolSize /\ PoolSize - (PoolSize - f) = f
        BY DEF BM!PoolConstants, BM!Frames
      <3>4. \A f \in BM!Frames : \E i \in 1 .. Len(bm_free_list) : bm_free_list[i] = f
        BY Zenon, <3>2, <3>3
      <3> QED BY <3>2, <3>4 DEF BM!FreeListIsRight, BM!PoolConstants
    <2> QED BY <2>1, <2>2, <2>3 DEF BM!PoolInv

  \* The table after the page of frame f made way for page p.
  <1>ReplaceKeeps.
    ASSUME NEW ids \in [BM!Frames -> BmPages \cup {BM!None}], NEW table, BM!TableIsRight(table, ids),
           NEW p \in BmPages, NEW f \in BM!Frames, table[p] = BM!Vacant
    PROVE  LET out == IF ids[f] = BM!None THEN table ELSE BM!remove_from_page_table(table, ids[f])
           IN BM!TableIsRight(BM!insert_into_page_table(out, p, f), [ids EXCEPT ![f] = p])
    <2> USE <1>ReplaceKeeps
    <2> DEFINE q == ids[f]
               out == IF q = BM!None THEN table ELSE [table EXCEPT ![q] = BM!Vacant]
               new == [out EXCEPT ![p] = BM!Entry(p, f)]
               now == [ids EXCEPT ![f] = p]
    <2>1. /\ table \in [BM!Slots -> BM!Entries] /\ p \in BM!Slots /\ p # BM!None
          /\ q # BM!None => q \in BM!Slots /\ q \in BmPages /\ q # p /\ table[q] = BM!Entry(q, f)
      <3>1. \A r \in BmPages : r \in BM!Slots /\ r # BM!None
        BY DEF BM!Slots, BM!PoolConstants, BM!None
      <3> QED BY <3>1, <1>EntryFields DEF BM!TableIsRight
    <2>2. q # BM!None => BM!remove_from_page_table(table, q) = [table EXCEPT ![q] = BM!Vacant]
      <3> SUFFICES ASSUME q # BM!None
                   PROVE  BM!remove_from_page_table(table, q) = [table EXCEPT ![q] = BM!Vacant]
        OBVIOUS
      <3>1. table[q].page_id \in {q}
        BY <2>1, <1>EntryFields
      <3>2. BM!Probe(table, q, {q}) = q
        BY <2>1, <3>1, <1>ProbeIsHome
      <3> QED BY Zenon, <3>2 DEF BM!remove_from_page_table, BM!Vacant
    <2>3. out \in [BM!Slots -> BM!Entries] /\ \A h \in BM!Slots : out[h] = IF h = q THEN BM!Vacant ELSE table[h]
      BY <2>1, <1>EntryFields DEF BM!Slots, BM!None
    <2>4. out[p] = BM!Vacant
      BY <2>1, <2>3
    <2> HIDE DEF out, q
    <2>5. BM!insert_into_page_table(out, p, f) = new
      <3>1. out[p].page_id \in {BM!None}
        BY <2>4, <1>EntryFields
      <3>2. BM!Probe(out, p, {BM!None}) = p
        BY <3>1, <1>ProbeIsHome
      <3> QED BY Zenon, <3>2 DEF BM!insert_into_page_table, BM!Entry
    <2>6. \A h \in BM!Slots : new[h] = IF h = p THEN BM!Entry(p, f) ELSE IF h = q THEN BM!Vacant ELSE table[h]
      BY <2>1, <2>3
    <2>7. \A g \in BM!Frames : now[g] = IF g = f THEN p ELSE ids[g]
      OBVIOUS
    <2>8. new \in [BM!Slots -> BM!Entries]
      BY Zenon, <2>3, <1>EntryFields
    <2> HIDE DEF new, now
    <2>9. ASSUME NEW h \in BM!Slots
          PROVE  \/ new[h] = BM!Vacant
                 \/ \E g \in BM!Frames : new[h] = BM!Entry(h, g) /\ now[g] = h
      <3>1. CASE h = p
        BY <2>6, <2>7, <3>1
      <3>2. CASE h = q /\ h # p
        BY <2>6, <3>2
      <3>3. CASE h # q /\ h # p
        BY <2>6, <2>7, <3>3 DEF BM!TableIsRight, q
      <3> QED BY <3>1, <3>2, <3>3
    <2>10. ASSUME NEW g \in BM!Frames, now[g] # BM!None
           PROVE  new[now[g]] = BM!Entry(now[g], g)
      <3>1. CASE g = f
        BY <2>1, <2>6, <2>7, <3>1
      <3>2. CASE g # f
        <4>1. now[g] = ids[g] /\ ids[g] \in BM!Slots /\ table[ids[g]] = BM!Entry(ids[g], g)
          BY Zenon, <2>7, <2>10, <3>2 DEF BM!TableIsRight, BM!PoolConstants, BM!Slots
        <4>2. ids[g] # p
          BY <2>1, <4>1, <1>EntryFields
        <4>3. ids[g] # q
          BY <2>1, <2>7, <2>10, <3>2, <4>1, <1>EntryFields
        <4> QED BY <2>6, <4>1, <4>2, <4>3
      <3> QED BY <3>1, <3>2
    <2>11. BM!TableIsRight(new, now)
      BY <2>8, <2>9, <2>10 DEF BM!TableIsRight
    <2>12. out = IF ids[f] = BM!None THEN table ELSE BM!remove_from_page_table(table, ids[f])
      BY <2>2 DEF out, q
    <2> QED BY <2>5, <2>11, <2>12 DEF now

  \* What every step keeps.
  <1>FetchHitKeeps.
    ASSUME BM!PoolInv, ~ bm_spinning, NEW p \in BmPages, BM!Hit(p)
    PROVE  BM!PoolInv' /\ UNCHANGED <<bm_page_id, bm_is_dirty>>
    <2> USE <1>FetchHitKeeps
    <2> DEFINE f == BM!lookup_page(p)
    <2>1. f \in BM!Frames /\ bm_page_id[f] = p /\ bm_pin_count[f] < MaxPins
      BY <1>LookupIsHome DEF BM!Hit
    <2>2. /\ bm_pin_count' = [bm_pin_count EXCEPT ![f] = @ + 1]
          /\ bm_reference_bits' = [bm_reference_bits EXCEPT ![f] = TRUE] /\ bm_written' = {}
          /\ UNCHANGED <<bm_page_id, bm_is_dirty, bm_page_table, bm_free_list, bm_clock_hand, bm_spinning>>
      BY DEF BM!Hit
    <2> HIDE DEF f
    <2>3. BM!FrameTypes
      BY DEF BM!PoolInv
    <2>4. bm_pin_count' \in [BM!Frames -> 0 .. MaxPins]
      BY <2>1, <2>2, <2>3 DEF BM!FrameTypes, BM!PoolConstants
    <2>5. bm_reference_bits' \in [BM!Frames -> BOOLEAN]
      BY <2>1, <2>2, <2>3 DEF BM!FrameTypes
    <2>6. BM!FrameTypes'
      BY <2>2, <2>3, <2>4, <2>5 DEF BM!FrameTypes
    <2>7. p # BM!None
      BY DEF BM!PoolConstants, BM!None
    <2>8. BM!FreeListIsRight'
      BY Zenon, <2>1, <2>2, <2>3, <2>7 DEF BM!PoolInv, BM!FreeListIsRight, BM!FrameTypes
    <2> QED BY <2>2, <2>6, <2>8 DEF BM!PoolInv, BM!SpinsOnlyIfAllPinned

  \* The bookkeeping of a page that is loaded into an unpinned frame.
  <1>LoadKeeps.
    ASSUME BM!PoolInv, ~ bm_spinning, NEW p \in BmPages, NEW f \in BM!Frames, BM!lookup_page(p) = BM!None,
           NEW ref \in [BM!Frames -> BOOLEAN], bm_clock_hand' \in BM!Frames, UNCHANGED bm_spinning,
           bm_pin_count[f] = 0, bm_is_dirty[f] => bm_page_id[f] \in bm_written', bm_written' \subseteq BmPages,
           LET out == IF bm_page_id[f] = BM!None THEN bm_page_table
                      ELSE BM!remove_from_page_table(bm_page_table, bm_page_id[f])
           IN BM!Load(p, f, out, ref),
           \/ bm_free_list # <<>> /\ f = Head(bm_free_list) /\ bm_free_list' = Tail(bm_free_list)
           \/ bm_free_list = <<>> /\ UNCHANGED bm_free_list
    PROVE  /\ BM!PoolInv'
           /\ \A g \in BM!Frames : bm_pin_count[g] > 0 => bm_page_id'[g] = bm_page_id[g]
           /\ \A g \in BM!Frames : bm_is_dirty[g] =>
                 (bm_page_id'[g] = bm_page_id[g] /\ bm_is_dirty'[g]) \/ bm_page_id[g] \in bm_written'
    <2> USE <1>LoadKeeps
    <2>1. BM!FrameTypes /\ BM!FreeListIsRight /\ BM!TableIsRight(bm_page_table, bm_page_id)
      BY DEF BM!PoolInv
    <2>2. bm_page_table[p] = BM!Vacant
      BY <1>LookupIsHome DEF BM!Frames, BM!None, BM!PoolConstants
    <2>3. /\ bm_page_id' = [bm_page_id EXCEPT ![f] = p] /\ bm_is_dirty' = [bm_is_dirty EXCEPT ![f] = FALSE]
          /\ bm_pin_count' = [bm_pin_count EXCEPT ![f] = 1] /\ bm_reference_bits' = [ref EXCEPT ![f] = TRUE]
      BY DEF BM!Load
    <2>4. BM!TableIsRight(bm_page_table', bm_page_id')
      <3> DEFINE out == IF bm_page_id[f] = BM!None THEN bm_page_table
                        ELSE BM!remove_from_page_table(bm_page_table, bm_page_id[f])
      <3>1. bm_page_table' = BM!insert_into_page_table(out, p, f)
        BY DEF BM!Load
      <3>2. bm_page_id \in [BM!Frames -> BmPages \cup {BM!None}]
        BY <2>1 DEF BM!FrameTypes
      <3>3. BM!TableIsRight(BM!insert_into_page_table(out, p, f), [bm_page_id EXCEPT ![f] = p])
        BY Zenon, <2>1, <2>2, <3>2, <1>ReplaceKeeps
      <3> QED BY <2>3, <3>1, <3>3
    <2>5. bm_pin_count' \in [BM!Frames -> 0 .. MaxPins] /\ bm_page_id' \in [BM!Frames -> BmPages \cup {BM!None}]
      BY <2>1, <2>3 DEF BM!FrameTypes, BM!PoolConstants
    <2>6. bm_is_dirty' \in [BM!Frames -> BOOLEAN] /\ bm_reference_bits' \in [BM!Frames -> BOOLEAN]
      BY <2>1, <2>3 DEF BM!FrameTypes
    <2>7. BM!FrameTypes'
      BY <2>1, <2>5, <2>6 DEF BM!FrameTypes
    <2>8. /\ bm_page_id'[f] = p
          /\ \A g \in BM!Frames : g # f => bm_page_id'[g] = bm_page_id[g]
          /\ \A g \in BM!Frames : g # f => bm_is_dirty'[g] = bm_is_dirty[g] /\ bm_pin_count'[g] = bm_pin_count[g]
      BY Zenon, <2>1, <2>3 DEF BM!FrameTypes
    <2>9. p # BM!None
      BY DEF BM!PoolConstants, BM!None
    <2>10. BM!FreeListIsRight'
      <3>1. CASE bm_free_list = <<>> /\ UNCHANGED bm_free_list
        <4>1. \A g \in BM!Frames : bm_page_id[g] # BM!None
          BY <2>1, <3>1 DEF BM!FreeListIsRight
        <4> QED BY <2>1, <2>8, <2>9, <3>1, <4>1 DEF BM!FreeListIsRight
      <3>2. CASE bm_free_list # <<>> /\ f = Head(bm_free_list) /\ bm_free_list' = Tail(bm_free_list)
        <4>1. PICK n \in Nat : n = Len(bm_free_list) /\ n >= 1
          BY <2>1, <3>2 DEF BM!FreeListIsRight
        <4>2. /\ bm_free_list' \in Seq(BM!Frames) /\ Len(bm_free_list') = n - 1
              /\ \A i \in 1 .. n - 1 : bm_free_list'[i] = bm_free_list[i + 1]
              /\ bm_free_list[1] = f
          BY <2>1, <3>2, <4>1 DEF BM!FreeListIsRight
        <4>3. \A i, j \in 1 .. n : bm_free_list[i] = bm_free_list[j] => i = j
          BY <2>1, <4>1 DEF BM!FreeListIsRight
        <4>4. \A i, j \in 1 .. n - 1 : bm_free_list'[i] = bm_free_list'[j] => i = j
          <5> SUFFICES ASSUME NEW i \in 1 .. n - 1, NEW j \in 1 .. n - 1, bm_free_list'[i] = bm_free_list'[j]
                       PROVE  i = j
            OBVIOUS
          <5>1. i + 1 \in 1 .. n /\ j + 1 \in 1 .. n
            BY <4>1
          <5>2. i + 1 = j + 1
            BY <4>2, <4>3, <5>1
          <5> QED BY <5>2
        <4>5. ASSUME NEW g \in BM!Frames
              PROVE  bm_page_id'[g] = BM!None <=> \E i \in 1 .. n - 1 : bm_free_list'[i] = g
          <5>1. bm_page_id[g] = BM!None <=> \E i \in 1 .. n : bm_free_list[i] = g
            BY <2>1, <4>1 DEF BM!FreeListIsRight
          <5>2. CASE g = f
            <6>1. \A i \in 1 .. n - 1 : bm_free_list[i + 1] # f
              <7> SUFFICES ASSUME NEW i \in 1 .. n - 1, bm_free_list[i + 1] = f
                           PROVE  FALSE
                OBVIOUS
              <7>1. i + 1 \in 1 .. n /\ 1 \in 1 .. n
                BY <4>1
              <7>2. i + 1 = 1
                BY <4>2, <4>3, <7>1
              <7> QED BY <7>2
            <6> QED BY Zenon, <2>8, <2>9, <4>2, <5>2, <6>1
          <5>3. CASE g # f
            <6>1. (\E i \in 1 .. n : bm_free_list[i] = g) <=> \E i \in 1 .. n - 1 : bm_free_list[i + 1] = g
              <7>1. ASSUME NEW i \in 1 .. n, bm_free_list[i] = g
                    PROVE  \E j \in 1 .. n - 1 : bm_free_list[j + 1] = g
                <8>1. i # 1
                  BY Zenon, <4>2, <5>3, <7>1
                <8>2. i - 1 \in 1 .. n - 1 /\ i - 1 + 1 = i
                  BY <4>1, <8>1
                <8> QED BY Zenon, <7>1, <8>2
              <7>2. ASSUME NEW i \in 1 .. n - 1, bm_free_list[i + 1] = g
                    PROVE  \E j \in 1 .. n : bm_free_list[j] = g
                <8>1. i + 1 \in 1 .. n
                  BY <4>1
                <8> QED BY <7>2, <8>1
              <7> QED BY Zenon, <7>1, <7>2
            <6>2. (\E i \in 1 .. n - 1 : bm_free_list'[i] = g) <=> \E i \in 1 .. n - 1 : bm_free_list[i + 1] = g
              BY Zenon, <4>2
            <6>3. bm_page_id'[g] = bm_page_id[g]
              BY Zenon, <2>8, <5>3
            <6> QED BY <5>1, <6>1, <6>2, <6>3
          <5> QED BY Zenon, <5>2, <5>3
        <4>6. \A g \in BM!Frames : bm_page_id'[g] = BM!None => bm_pin_count'[g] = 0 /\ ~ bm_is_dirty'[g]
          BY Zenon, <2>1, <2>8, <2>9 DEF BM!FreeListIsRight
        <4> QED BY Zenon, <4>2, <4>4, <4>5, <4>6 DEF BM!FreeListIsRight
      <3> QED BY Zenon, <3>1, <3>2
    <2>11. BM!PoolInv'
      BY Zenon, <2>4, <2>7, <2>10 DEF BM!PoolInv, BM!SpinsOnlyIfAllPinned
    <2>12. \A g \in BM!Frames : bm_pin_count[g] > 0 => bm_page_id'[g] = bm_page_id[g]
      BY <2>8
    <2>13. ASSUME NEW g \in BM!Frames, bm_is_dirty[g]
           PROVE  (bm_page_id'[g] = bm_page_id[g] /\ bm_is_dirty'[g]) \/ bm_page_id[g] \in bm_written'
      BY <2>8, <2>13
    <2> QED BY Zenon, <2>11, <2>12, <2>13

  \* Every call keeps the invariant, the pages that are pinned and the dirty ones.
  <1>PoolStep. BM!PoolInv /\ [BM!Next]_(BM!vars) => BM!PoolInv' /\ [BM!StepKeeps]_(BM!vars)
    <2> SUFFICES ASSUME BM!PoolInv, [BM!Next]_(BM!vars)
                 PROVE  BM!PoolInv' /\ [BM!StepKeeps]_(BM!vars)
      BY Zenon
    <2>1. CASE UNCHANGED BM!vars
      BY <2>1 DEF BM!vars, BM!frames, BM!PoolInv, BM!FrameTypes, BM!FreeListIsRight,
         BM!TableIsRight, BM!SpinsOnlyIfAllPinned
    <2>2. BM!FrameTypes /\ \A f \in BM!Frames : f # BM!None
      BY DEF BM!PoolInv, BM!Frames, BM!None
    <2>3. ASSUME NEW p \in BmPages, BM!Hit(p), ~ bm_spinning
          PROVE  BM!PoolInv' /\ BM!StepKeeps
      <3>1. BM!PoolInv' /\ UNCHANGED <<bm_page_id, bm_is_dirty>>
        BY Zenon, <2>3, <1>FetchHitKeeps
      <3> QED BY <3>1 DEF BM!StepKeeps
    <2>4. ASSUME NEW p \in BmPages, BM!UseFreeFrame(p), ~ bm_spinning
          PROVE  BM!PoolInv' /\ BM!StepKeeps
      <3>1. /\ BM!lookup_page(p) = BM!None /\ bm_free_list # <<>> /\ bm_free_list' = Tail(bm_free_list) /\ bm_written' = {}
            /\ BM!Load(p, Head(bm_free_list), bm_page_table, bm_reference_bits) /\ UNCHANGED <<bm_clock_hand, bm_spinning>>
        BY Zenon, <2>4 DEF BM!UseFreeFrame
      <3>2. PICK f \in BM!Frames : f = Head(bm_free_list) /\ bm_page_id[f] = BM!None
        BY <3>1 DEF BM!PoolInv, BM!FreeListIsRight
      <3>3. bm_pin_count[f] = 0 /\ ~ bm_is_dirty[f]
        BY <3>2 DEF BM!PoolInv, BM!FreeListIsRight
      <3> QED BY <2>2, <2>4, <3>1, <3>2, <3>3, <1>LoadKeeps DEF BM!StepKeeps, BM!FrameTypes
    <2>5. ASSUME NEW p \in BmPages, BM!Evict(p), ~ bm_spinning
          PROVE  BM!PoolInv' /\ BM!StepKeeps
      <3> DEFINE v == BM!find_victim_page
      <3>1. /\ v \in BM!Sweeps /\ (v.victim # BM!None => bm_pin_count[v.victim] = 0)
            /\ (v.victim = BM!None => \A f \in BM!Frames : bm_pin_count[f] > 0)
        BY Zenon, <2>2, <1>VictimIsRight DEF BM!FrameTypes
      <3>2. BM!lookup_page(p) = BM!None /\ bm_free_list = <<>> /\ UNCHANGED bm_free_list
        BY Zenon, <2>5 DEF BM!Evict
      <3>3. CASE v.victim = BM!None
        <4>1. bm_spinning' = TRUE /\ bm_written' = {} /\ UNCHANGED <<BM!frames, bm_page_table, bm_clock_hand, bm_free_list>>
          BY Zenon, <2>5, <3>2, <3>3 DEF BM!Evict
        <4>2. BM!FrameTypes' /\ BM!TableIsRight(bm_page_table', bm_page_id') /\ BM!FreeListIsRight'
          BY Zenon, <4>1 DEF BM!PoolInv, BM!FrameTypes, BM!FreeListIsRight, BM!frames
        <4>3. BM!SpinsOnlyIfAllPinned'
          BY Zenon, <3>1, <3>3, <4>1 DEF BM!SpinsOnlyIfAllPinned, BM!frames
        <4> QED BY Zenon, <4>1, <4>2, <4>3 DEF BM!PoolInv, BM!StepKeeps, BM!frames
      <3>4. CASE v.victim # BM!None
        <4> DEFINE f == v.victim
        <4>1. /\ BM!Load(p, f, BM!remove_from_page_table(bm_page_table, bm_page_id[f]), v.ref) /\ bm_clock_hand' = v.hand
              /\ bm_written' = (IF bm_is_dirty[f] THEN {bm_page_id[f]} ELSE {}) /\ UNCHANGED bm_spinning
          BY <2>5, <3>4 DEF BM!Evict
        <4>2. f \in BM!Frames /\ v.hand \in BM!Frames /\ v.ref \in [BM!Frames -> BOOLEAN] /\ bm_pin_count[f] = 0
          BY Zenon, <3>1, <3>4 DEF BM!Sweeps
        <4> HIDE DEF v
        <4>3. bm_page_id[f] # BM!None /\ bm_page_id[f] \in BmPages
          BY <2>2, <3>2, <4>2 DEF BM!PoolInv, BM!FreeListIsRight, BM!FrameTypes
        <4>4. PICK g \in BM!Frames, ref \in [BM!Frames -> BOOLEAN] : g = v.victim /\ ref = v.ref
          BY Zenon, <4>2
        <4>5. /\ BM!Load(p, g, BM!remove_from_page_table(bm_page_table, bm_page_id[g]), ref)
              /\ bm_written' \subseteq BmPages /\ (bm_is_dirty[g] => bm_page_id[g] \in bm_written') /\ bm_clock_hand' \in BM!Frames
          BY Zenon, <4>1, <4>2, <4>3, <4>4
        <4> QED BY Zenon, <2>5, <3>2, <4>1, <4>2, <4>3, <4>4, <4>5, <1>LoadKeeps DEF BM!StepKeeps
      <3> QED BY <3>3, <3>4
    <2>6. ASSUME NEW p \in BmPages, BM!unpin_page(p), ~ bm_spinning
          PROVE  BM!PoolInv' /\ BM!StepKeeps
      <3>1. UNCHANGED <<bm_page_id, bm_is_dirty, bm_reference_bits, bm_page_table, bm_free_list, bm_clock_hand, bm_spinning>> /\ bm_written' = {}
        BY <2>6 DEF BM!unpin_page
      <3>2. /\ bm_pin_count' \in [BM!Frames -> 0 .. MaxPins]
            /\ \A f \in BM!Frames : bm_pin_count[f] = 0 => bm_pin_count'[f] = 0
        <4>1. \/ UNCHANGED bm_pin_count
              \/ BM!lookup_page(p) # BM!None /\ bm_pin_count[BM!lookup_page(p)] > 0
                 /\ bm_pin_count' = [bm_pin_count EXCEPT ![BM!lookup_page(p)] = @ - 1]
          BY <2>6 DEF BM!unpin_page
        <4>2. BM!lookup_page(p) \in BM!Frames \cup {BM!None}
          BY <1>LookupIsHome
        <4> QED BY <2>2, <4>1, <4>2 DEF BM!FrameTypes, BM!PoolConstants
      <3>3. BM!FrameTypes'
        BY Zenon, <2>2, <3>1, <3>2 DEF BM!FrameTypes
      <3>4. BM!FreeListIsRight' /\ BM!TableIsRight(bm_page_table', bm_page_id')
        BY Zenon, <3>1, <3>2 DEF BM!PoolInv, BM!FreeListIsRight
      <3> QED BY <2>6, <3>1, <3>3, <3>4 DEF BM!PoolInv, BM!SpinsOnlyIfAllPinned, BM!StepKeeps
    <2>7. ASSUME NEW p \in BmPages, BM!mark_page_dirty(p), ~ bm_spinning
          PROVE  BM!PoolInv' /\ BM!StepKeeps
      <3>1. UNCHANGED <<bm_page_id, bm_pin_count, bm_reference_bits, bm_page_table, bm_free_list, bm_clock_hand, bm_spinning>> /\ bm_written' = {}
        BY <2>7 DEF BM!mark_page_dirty
      <3>2. /\ bm_is_dirty' \in [BM!Frames -> BOOLEAN]
            /\ \A f \in BM!Frames : /\ bm_is_dirty[f] => bm_is_dirty'[f]
                                    /\ bm_page_id[f] = BM!None => ~ bm_is_dirty'[f]
        <4>1. \A f \in BM!Frames : bm_page_id[f] = BM!None => ~ bm_is_dirty[f]
          BY DEF BM!PoolInv, BM!FreeListIsRight
        <4>2. p # BM!None
          BY DEF BM!PoolConstants, BM!None
        <4>3. CASE BM!lookup_page(p) = BM!None
          BY <2>2, <2>7, <4>1, <4>3 DEF BM!mark_page_dirty, BM!FrameTypes
        <4>4. CASE BM!lookup_page(p) # BM!None
          <5>1. PICK f \in BM!Frames : f = BM!lookup_page(p) /\ bm_page_id[f] = p
            BY <4>4, <1>LookupIsHome
          <5>2. bm_is_dirty' = [bm_is_dirty EXCEPT ![f] = TRUE]
            BY <2>7, <4>4, <5>1 DEF BM!mark_page_dirty
          <5> QED BY <2>2, <4>1, <4>2, <5>1, <5>2 DEF BM!FrameTypes
        <4> QED BY <4>3, <4>4
      <3>3. BM!FrameTypes'
        BY Zenon, <2>2, <3>1, <3>2 DEF BM!FrameTypes
      <3>4. BM!FreeListIsRight' /\ BM!TableIsRight(bm_page_table', bm_page_id')
        BY Zenon, <3>1, <3>2 DEF BM!PoolInv, BM!FreeListIsRight
      <3> QED BY <2>7, <3>1, <3>2, <3>3, <3>4 DEF BM!PoolInv, BM!SpinsOnlyIfAllPinned, BM!StepKeeps
    <2>8. ASSUME BM!flush_dirty_pages, ~ bm_spinning
          PROVE  BM!PoolInv' /\ BM!StepKeeps
      <3>1. /\ UNCHANGED <<bm_page_id, bm_pin_count, bm_reference_bits, bm_page_table, bm_free_list, bm_clock_hand, bm_spinning>>
            /\ bm_written' = {bm_page_id[f] : f \in {g \in BM!Frames : bm_is_dirty[g]}} /\ bm_is_dirty' = [f \in BM!Frames |-> FALSE]
        BY Zenon, <2>8 DEF BM!flush_dirty_pages
      <3>2. \A f \in BM!Frames : bm_is_dirty[f] => bm_page_id[f] \in BmPages
        BY <2>2 DEF BM!PoolInv, BM!FreeListIsRight, BM!FrameTypes
      <3>3. bm_written' \subseteq BmPages /\ \A f \in BM!Frames : bm_is_dirty[f] => bm_page_id[f] \in bm_written'
        BY <3>1, <3>2
      <3>4. bm_is_dirty' \in [BM!Frames -> BOOLEAN] /\ \A f \in BM!Frames : ~ bm_is_dirty'[f]
        BY <3>1
      <3>5. BM!FrameTypes'
        BY Zenon, <2>2, <3>1, <3>3, <3>4 DEF BM!FrameTypes
      <3>6. BM!FreeListIsRight' /\ BM!TableIsRight(bm_page_table', bm_page_id')
        BY <3>1, <3>4 DEF BM!PoolInv, BM!FreeListIsRight
      <3> QED BY Zenon, <2>8, <3>1, <3>3, <3>5, <3>6 DEF BM!PoolInv, BM!SpinsOnlyIfAllPinned,
                 BM!StepKeeps
    <2> QED BY <2>1, <2>3, <2>4, <2>5, <2>6, <2>7, <2>8 DEF BM!Next, BM!fetch_page

  <1> QED BY Zenon, <1>PoolStart, <1>PoolStep, <1>PoolGives
-----------------------------------------------------------------------------
(***************************************************************************)
(* mem_alloc.c, for any size of the pool, of a header and of a request.    *)
(***************************************************************************)

CONSTANTS HeapSize, Header, MinAlloc, Requests
VARIABLES ma_heap, ma_live

MA == INSTANCE MemAlloc WITH MemorySize <- HeapSize, heap <- ma_heap, live <- ma_live

ASSUME AllocAssumption == MA!AllocConstants

\* The allocator: its blocks tile the pool, no two free ones touch, and held blocks stay.
LEMMA AllocInductive ==
    ASSUME MA!AllocConstants
    PROVE  /\ MA!Init => MA!AllocInv
           /\ MA!AllocInv /\ [MA!Next]_(MA!vars) => MA!AllocInv' /\ MA!HeldStep
           /\ MA!AllocInv => MA!TypeOK /\ MA!Tiling /\ MA!Coalesced /\ MA!HeldIsReserved
  \* Rounding up gives at least what was asked for.
  <1>RoundUpIsMore.
    ASSUME NEW n \in Nat
    PROVE  MA!RoundUp(n) \in Nat /\ MA!RoundUp(n) >= n
    <2> USE <1>RoundUpIsMore
    <2> DEFINE x == n + MinAlloc - 1
               q == x \div MinAlloc
    <2>1. x \in Nat /\ MinAlloc \in Nat /\ MinAlloc > 0
      BY DEF MA!AllocConstants
    <2>2. q \in Nat /\ x = MinAlloc * q + (x % MinAlloc) /\ x % MinAlloc \in 0 .. MinAlloc - 1
      <3> HIDE DEF x
      <3> QED BY <2>1
    <2>3. MinAlloc * q \in Nat /\ MinAlloc * q >= n
      <3>1. MinAlloc * q \in Nat
        BY <2>1, <2>2
      <3> HIDE DEF q
      <3> QED BY <2>1, <2>2, <3>1
    <2>4. MA!RoundUp(n) = MinAlloc * q
      <3>1. MA!RoundUp(n) = q * MinAlloc
        BY Zenon DEF MA!RoundUp
      <3> HIDE DEF q
      <3> QED BY <2>1, <2>2, <3>1
    <2> QED BY <2>3, <2>4

  \* A block that swallows the next one leaves the pool tiled.
  <1>Absorb.
    ASSUME NEW h, MA!WellTiled(h), NEW a \in DOMAIN h, NEW c \in DOMAIN h, h[a].next = c,
           NEW g, g = MA!Joined(h, a, c)
    PROVE  /\ MA!WellTiled(g) /\ c = MA!End(h, a) /\ c # a
           /\ DOMAIN g = DOMAIN h \ {c} /\ \A x \in DOMAIN g : x # a => g[x] = h[x]
           /\ g[a].is_free /\ g[a].next = h[c].next
    <2> USE <1>Absorb
    <2>1. a \in Nat /\ c \in Nat /\ h[a] \in MA!Block /\ h[c] \in MA!Block
      BY DEF MA!WellTiled, MA!Blocks
    <2>2. h[a].size \in Nat /\ h[c].size \in Nat /\ h[c].next \in Nat \cup {MA!NULL} /\ Header \in Nat \ {0} /\ HeapSize \in Nat
      BY Zenon, <2>1 DEF MA!Block, MA!AllocConstants
    <2>3. c = MA!End(h, a)
      BY <2>1 DEF MA!WellTiled, MA!Linked, MA!NULL
    <2>4. c # a /\ c > a
      BY <2>1, <2>2, <2>3 DEF MA!End
    <2>5. /\ DOMAIN g = DOMAIN h \ {c} /\ \A x \in DOMAIN g : x # a => g[x] = h[x]
          /\ g[a] = [size |-> h[a].size + Header + h[c].size, is_free |-> TRUE, next |-> h[c].next]
      BY Zenon, <2>4 DEF MA!Joined, MA!Without
    <2>6. a \in DOMAIN g /\ c # a /\ c > a
      BY Zenon, <2>4, <2>5
    <2>7. g[a].is_free /\ g[a].size = h[a].size + Header + h[c].size /\ g[a].next = h[c].next /\ g[a] \in MA!Block
      <3>1. h[a].size + Header + h[c].size \in Nat
        BY <2>2
      <3>2. g[a].is_free /\ g[a].size = h[a].size + Header + h[c].size /\ g[a].next = h[c].next
        BY <2>5
      <3>3. g[a] \in MA!Block
        BY <2>2, <2>5, <3>1 DEF MA!Block
      <3> QED BY Zenon, <3>2, <3>3
    <2>8. MA!End(g, a) = MA!End(h, c) /\ \A x \in DOMAIN g : x # a => MA!End(g, x) = MA!End(h, x)
      <3>1. c = a + Header + h[a].size
        BY Zenon, <2>3 DEF MA!End
      <3>2. a + Header + g[a].size = c + Header + h[c].size
        BY <2>1, <2>2, <2>7, <3>1
      <3> QED BY <2>5, <3>2 DEF MA!End
    <2>9. MA!Blocks(g)
      <3>1. 0 \in DOMAIN h /\ DOMAIN h \subseteq Nat /\ \A x \in DOMAIN h : h[x] \in MA!Block /\ MA!End(h, x) <= HeapSize
        BY Zenon DEF MA!WellTiled, MA!Blocks
      <3>2. 0 \in DOMAIN g /\ DOMAIN g \subseteq Nat
        BY <2>1, <2>6, <2>5, <3>1
      <3>3. ASSUME NEW x \in DOMAIN g
            PROVE  g[x] \in MA!Block /\ MA!End(g, x) <= HeapSize
        <4>1. CASE x = a
          BY Zenon, <2>7, <2>8, <3>1, <4>1
        <4>2. CASE x # a
          BY Zenon, <2>8, <2>5, <3>1, <4>2
        <4> QED BY Zenon, <4>1, <4>2
      <3> QED BY Zenon, <3>2, <3>3 DEF MA!Blocks
    <2>10. \A x \in DOMAIN h : x \in Nat /\ MA!End(h, x) \in Nat /\ x < MA!End(h, x)
      BY <2>2 DEF MA!WellTiled, MA!Blocks, MA!Block, MA!End
    <2>11. MA!Apart(g)
      <3> SUFFICES ASSUME NEW x \in DOMAIN g, NEW y \in DOMAIN g, x < y
                   PROVE  MA!End(g, x) <= y
        BY Zenon DEF MA!Apart
      <3>1. CASE x = a
        BY <2>3, <2>8, <2>10, <2>5, <3>1 DEF MA!WellTiled, MA!Apart
      <3>2. CASE x # a
        BY Zenon, <2>8, <2>5, <3>2 DEF MA!WellTiled, MA!Apart
      <3> QED BY Zenon, <3>1, <3>2
    <2>12. MA!Linked(g)
      <3> SUFFICES ASSUME NEW x \in DOMAIN g
                   PROVE  IF MA!End(g, x) = HeapSize THEN g[x].next = MA!NULL
                          ELSE g[x].next = MA!End(g, x) /\ g[x].next \in DOMAIN g
        BY Zenon DEF MA!Linked
      <3>1. CASE x = a
        <4>1. MA!End(h, c) # c
          BY <2>10
        <4> QED BY Zenon, <2>7, <2>8, <2>5, <3>1, <4>1 DEF MA!WellTiled, MA!Linked
      <3>2. CASE x # a
        <4>1. MA!End(h, x) # c
          <5>1. CASE x < a
            BY <2>6, <2>10, <2>5, <5>1 DEF MA!WellTiled, MA!Apart
          <5>2. CASE a < x
            BY <2>3, <2>10, <2>5, <5>2 DEF MA!WellTiled, MA!Apart
          <5> QED BY SMTT(30), <2>10, <2>5, <3>2, <5>1, <5>2
        <4> QED BY Zenon, <2>8, <2>5, <3>2, <4>1 DEF MA!WellTiled, MA!Linked
      <3> QED BY Zenon, <3>1, <3>2
    <2> QED BY Zenon, <2>3, <2>6, <2>7, <2>9, <2>11, <2>12, <2>5 DEF MA!WellTiled

  \* The empty pool.
  <1>AllocStart. MA!Init => MA!AllocInv
    <2> SUFFICES ASSUME MA!Init
                 PROVE  MA!AllocInv
      OBVIOUS
    <2>1. DOMAIN ma_heap = {0} /\ DOMAIN ma_live = {}
      BY DEF MA!Init, MA!init_memory
    <2>2. ma_heap[0] = [size |-> HeapSize - Header, is_free |-> TRUE, next |-> MA!NULL]
      BY DEF MA!Init, MA!init_memory
    <2>3. ma_heap[0] \in MA!Block /\ MA!End(ma_heap, 0) = HeapSize /\ ma_heap[0].next = MA!NULL
      BY <2>2 DEF MA!Block, MA!End, MA!AllocConstants
    <2>4. MA!WellTiled(ma_heap)
      BY <2>1, <2>3 DEF MA!WellTiled, MA!Blocks, MA!Apart, MA!Linked, MA!AllocConstants
    <2>5. MA!Coalesced /\ MA!HeldIsReserved
      BY <2>1, <2>2, <2>3 DEF MA!Coalesced, MA!HeldIsReserved
    <2>6. ma_live \in [DOMAIN ma_live -> Requests]
      BY <2>1 DEF MA!Init
    <2> QED BY <2>4, <2>5, <2>6 DEF MA!AllocInv

  \* The block that is chosen is free and large enough.
  <1>ChosenFits.
    ASSUME MA!AllocInv, NEW n \in Nat, NEW s \in MA!Strategies, NEW a \in MA!Chosen(n, s)
    PROVE  a \in DOMAIN ma_heap /\ ma_heap[a].is_free /\ ma_heap[a].size >= n
    <2> USE <1>ChosenFits
    <2>1. MA!Fitting(n) \subseteq Nat
      BY DEF MA!Fitting, MA!AllocInv, MA!WellTiled, MA!Blocks
    <2>2. PICK best \in SUBSET MA!Fitting(n) : best # {} /\ a = MA!Min(best)
      BY DEF MA!Chosen, MA!Strategies
    <2>3. a \in best
      BY <2>1, <2>2, ChosenIsSmallest DEF MA!Min
    <2> QED BY <2>2, <2>3 DEF MA!Fitting

  \* A block that is not split is taken whole.
  <1>TakeKeeps.
    ASSUME MA!AllocInv, NEW n \in Requests, NEW a \in DOMAIN ma_heap,
           ma_heap[a].is_free, ma_heap[a].size >= n,
           ma_heap' = [ma_heap EXCEPT ![a].is_free = FALSE], ma_live' = MA!With(ma_live, a, n)
    PROVE  MA!AllocInv' /\ \A b \in DOMAIN ma_live : b \in DOMAIN ma_live' /\ ma_heap'[b].size = ma_heap[b].size
    <2> USE <1>TakeKeeps
    <2>1. DOMAIN ma_heap' = DOMAIN ma_heap /\ \A b \in DOMAIN ma_heap : b # a => ma_heap'[b] = ma_heap[b]
      OBVIOUS
    <2>2. ma_heap[a] \in MA!Block /\ ma_heap'[a] = [ma_heap[a] EXCEPT !.is_free = FALSE]
      BY DEF MA!AllocInv, MA!WellTiled, MA!Blocks
    <2>3. ma_heap'[a] \in MA!Block /\ ~ ma_heap'[a].is_free /\ ma_heap'[a].size = ma_heap[a].size /\ ma_heap'[a].next = ma_heap[a].next
      BY Zenon, <2>2 DEF MA!Block
    <2>4. \A b \in DOMAIN ma_heap : MA!End(ma_heap', b) = MA!End(ma_heap, b) /\ ma_heap'[b].next = ma_heap[b].next /\ ma_heap'[b].size = ma_heap[b].size
      BY <2>1, <2>3 DEF MA!End
    <2>5. MA!WellTiled(ma_heap')
      <3>1. MA!Blocks(ma_heap')
        BY Zenon, <2>1, <2>3, <2>4 DEF MA!AllocInv, MA!WellTiled, MA!Blocks
      <3>2. MA!Apart(ma_heap')
        BY Zenon, <2>1, <2>4 DEF MA!AllocInv, MA!WellTiled, MA!Apart
      <3>3. MA!Linked(ma_heap')
        <4> SUFFICES ASSUME NEW x \in DOMAIN ma_heap'
                     PROVE  IF MA!End(ma_heap', x) = HeapSize THEN ma_heap'[x].next = MA!NULL
                            ELSE ma_heap'[x].next = MA!End(ma_heap', x) /\ ma_heap'[x].next \in DOMAIN ma_heap'
          BY Zenon DEF MA!Linked
        <4> QED BY Zenon, <2>1, <2>4 DEF MA!AllocInv, MA!WellTiled, MA!Linked
      <3> QED BY <3>1, <3>2, <3>3 DEF MA!WellTiled
    <2>6. DOMAIN ma_live' = DOMAIN ma_live \cup {a} /\ ma_live'[a] = n /\ \A b \in DOMAIN ma_live : b # a => ma_live'[b] = ma_live[b]
      BY DEF MA!With
    <2>7. MA!Coalesced'
      BY <2>1, <2>3, <2>4 DEF MA!AllocInv, MA!Coalesced
    <2>8. MA!HeldIsReserved'
      BY <2>1, <2>3, <2>4, <2>6 DEF MA!AllocInv, MA!HeldIsReserved
    <2>9. ma_live' \in [DOMAIN ma_live' -> Requests]
      BY <2>6 DEF MA!With, MA!AllocInv
    <2> QED BY Zenon, <2>4, <2>5, <2>6, <2>7, <2>8, <2>9 DEF MA!AllocInv, MA!HeldIsReserved

  \* A block that is split gives its head to the caller and stays free in its tail.
  <1>SplitKeeps.
    ASSUME MA!AllocInv, NEW n \in Requests, NEW k \in Nat, k >= n, NEW a \in DOMAIN ma_heap,
           ma_heap[a].is_free, ma_heap[a].size > k + Header + MinAlloc,
           ma_heap' = MA!split_block(a, k), ma_live' = MA!With(ma_live, a, n)
    PROVE  MA!AllocInv' /\ \A b \in DOMAIN ma_live : b \in DOMAIN ma_live' /\ ma_heap'[b].size = ma_heap[b].size
    <2> USE <1>SplitKeeps
    <2> DEFINE new == a + Header + k
               head == [size |-> k, is_free |-> FALSE, next |-> new]
               tail == [size |-> ma_heap[a].size - k - Header, is_free |-> TRUE, next |-> ma_heap[a].next]
    <2>1. /\ a \in Nat /\ ma_heap[a] \in MA!Block /\ MA!End(ma_heap, a) <= HeapSize
          /\ Header \in Nat \ {0} /\ MinAlloc \in Nat \ {0} /\ HeapSize \in Nat /\ n \in Nat
      BY Zenon DEF MA!AllocInv, MA!WellTiled, MA!Blocks, MA!AllocConstants
    <2>2. ma_heap[a].size \in Nat /\ ma_heap[a].next \in Nat \cup {MA!NULL} /\ MA!End(ma_heap, a) = a + Header + ma_heap[a].size
      BY Zenon, <2>1 DEF MA!Block, MA!End
    <2>3. new \in Nat /\ a < new /\ new < MA!End(ma_heap, a)
      BY <2>1, <2>2
    <2>4. new \notin DOMAIN ma_heap
      BY <2>1, <2>2, <2>3 DEF MA!AllocInv, MA!WellTiled, MA!Apart
    <2>5. ma_heap' = MA!With([ma_heap EXCEPT ![a] = head], new, tail)
      BY Zenon DEF MA!split_block
    <2>6. head \in MA!Block /\ head.size = k /\ ~ head.is_free /\ head.next = new
      BY Zenon, <2>3 DEF MA!Block
    <2>7. tail \in MA!Block /\ tail.size = ma_heap[a].size - k - Header /\ tail.is_free /\ tail.next = ma_heap[a].next
      BY <2>1, <2>2 DEF MA!Block
    <2> HIDE DEF head, tail
    <2>8. /\ DOMAIN ma_heap' = DOMAIN ma_heap \cup {new} /\ ma_heap'[a] = head /\ ma_heap'[new] = tail
          /\ \A b \in DOMAIN ma_heap : b # a => ma_heap'[b] = ma_heap[b]
      <3> HIDE DEF new
      <3> QED BY Zenon, <2>3, <2>4, <2>5 DEF MA!With
    <2>9. /\ MA!End(ma_heap', a) = new /\ MA!End(ma_heap', new) = MA!End(ma_heap, a)
          /\ \A b \in DOMAIN ma_heap : b # a => MA!End(ma_heap', b) = MA!End(ma_heap, b)
      <3>1. new + Header + tail.size = a + Header + ma_heap[a].size
        BY <2>1, <2>2, <2>7
      <3>2. a + Header + head.size = new
        BY Zenon, <2>6
      <3> HIDE DEF new
      <3> QED BY Zenon, <2>2, <2>8, <3>1, <3>2 DEF MA!End
    <2> HIDE DEF new
    <2>10. MA!Blocks(ma_heap')
      <3>1. \A b \in DOMAIN ma_heap' : b = a \/ b = new \/ (b \in DOMAIN ma_heap /\ b # a)
        BY Zenon, <2>8
      <3> QED BY <2>1, <2>2, <2>3, <2>6, <2>7, <2>8, <2>9, <3>1 DEF MA!AllocInv, MA!WellTiled,
                 MA!Blocks
    <2>11. \A b \in DOMAIN ma_heap : b \in Nat /\ MA!End(ma_heap, b) \in Nat /\ b < MA!End(ma_heap, b)
      BY <2>1 DEF MA!AllocInv, MA!WellTiled, MA!Blocks, MA!Block, MA!End
    <2>12. MA!Apart(ma_heap')
      <3> SUFFICES ASSUME NEW x \in DOMAIN ma_heap', NEW y \in DOMAIN ma_heap', x < y
                   PROVE  MA!End(ma_heap', x) <= y
        BY DEF MA!Apart
      <3>1. CASE x = new
        <4>1. y \in DOMAIN ma_heap /\ a < y
          BY <2>3, <2>8, <2>11, <3>1
        <4> QED BY Zenon, <2>9, <3>1, <4>1 DEF MA!AllocInv, MA!WellTiled, MA!Apart
      <3>2. CASE y = new /\ x # a
        <4>1. x \in DOMAIN ma_heap /\ x < a
          <5>1. x \in DOMAIN ma_heap
            BY <2>3, <2>8, <3>2
          <5>2. a < x => MA!End(ma_heap, a) <= x
            BY Zenon, <5>1 DEF MA!AllocInv, MA!WellTiled, MA!Apart
          <5> QED BY <2>1, <2>3, <2>11, <3>2, <5>1, <5>2
        <4> QED BY <2>3, <2>9, <2>11, <3>2, <4>1 DEF MA!AllocInv, MA!WellTiled, MA!Apart
      <3>3. CASE y = new /\ x = a
        BY <2>3, <2>9, <3>3
      <3>4. CASE y # new /\ x = a
        <4>1. y \in DOMAIN ma_heap /\ MA!End(ma_heap, a) <= y
          BY Zenon, <2>8, <3>4 DEF MA!AllocInv, MA!WellTiled, MA!Apart
        <4> QED BY <2>1, <2>3, <2>9, <2>11, <3>4, <4>1
      <3>5. CASE y # new /\ x # a /\ x # new
        BY Zenon, <2>8, <2>9, <3>5 DEF MA!AllocInv, MA!WellTiled, MA!Apart
      <3> QED BY Zenon, <3>1, <3>2, <3>3, <3>4, <3>5
    <2>13. MA!Linked(ma_heap')
      <3> SUFFICES ASSUME NEW x \in DOMAIN ma_heap'
                   PROVE  IF MA!End(ma_heap', x) = HeapSize THEN ma_heap'[x].next = MA!NULL
                          ELSE ma_heap'[x].next = MA!End(ma_heap', x) /\ ma_heap'[x].next \in DOMAIN ma_heap'
        BY Zenon DEF MA!Linked
      <3>1. CASE x = a
        BY <2>1, <2>2, <2>3, <2>6, <2>8, <2>9, <3>1
      <3>2. CASE x = new
        BY Zenon, <2>7, <2>8, <2>9, <3>2 DEF MA!AllocInv, MA!WellTiled, MA!Linked
      <3>3. CASE x # a /\ x # new
        BY Zenon, <2>8, <2>9, <3>3 DEF MA!AllocInv, MA!WellTiled, MA!Linked
      <3> QED BY Zenon, <3>1, <3>2, <3>3
    <2>14. DOMAIN ma_live' = DOMAIN ma_live \cup {a} /\ ma_live'[a] = n /\ \A b \in DOMAIN ma_live : b # a => ma_live'[b] = ma_live[b]
      BY DEF MA!With
    <2>15. a \notin DOMAIN ma_live /\ new \notin DOMAIN ma_live /\ DOMAIN ma_live \subseteq DOMAIN ma_heap
      BY Zenon, <2>4 DEF MA!AllocInv, MA!HeldIsReserved
    <2>16. MA!Coalesced'
      <3> SUFFICES ASSUME NEW x \in DOMAIN ma_heap', ma_heap'[x].is_free, ma_heap'[x].next # MA!NULL
                   PROVE  ~ ma_heap'[ma_heap'[x].next].is_free
        BY Zenon DEF MA!Coalesced
      <3>2. ASSUME NEW z \in DOMAIN ma_heap, ma_heap[z].is_free, ma_heap[z].next # MA!NULL
            PROVE  ma_heap[z].next \in DOMAIN ma_heap /\ ma_heap[z].next # a /\ ~ ma_heap[ma_heap[z].next].is_free
        BY Zenon, <3>2 DEF MA!AllocInv, MA!Coalesced, MA!WellTiled, MA!Linked
      <3>3. CASE x = new
        BY Zenon, <2>7, <2>8, <3>2, <3>3
      <3>4. CASE x # new
        BY <2>6, <2>8, <3>2, <3>4
      <3> QED BY Zenon, <3>3, <3>4
    <2>17. MA!HeldIsReserved'
      BY <2>1, <2>6, <2>7, <2>8, <2>14, <2>15 DEF MA!AllocInv, MA!HeldIsReserved
    <2>18. ma_live' \in [DOMAIN ma_live' -> Requests]
      BY Zenon, <2>14 DEF MA!With, MA!AllocInv
    <2> QED BY <2>8, <2>10, <2>12, <2>13, <2>14, <2>15, <2>16, <2>17, <2>18 DEF MA!AllocInv,
               MA!WellTiled

  \* allocate_memory gives the caller a block of its own and moves no other.
  <1>AllocateKeeps.
    ASSUME MA!AllocInv, NEW n \in Requests, NEW s \in MA!Strategies, MA!allocate_memory(n, s)
    PROVE  MA!AllocInv' /\ \A b \in DOMAIN ma_live : b \in DOMAIN ma_live' /\ ma_heap'[b].size = ma_heap[b].size
    <2> USE <1>AllocateKeeps
    <2>1. CASE UNCHANGED MA!vars
      BY Zenon, <2>1 DEF MA!vars, MA!AllocInv, MA!Coalesced, MA!HeldIsReserved
    <2>2. ASSUME NEW a \in MA!Chosen(MA!RoundUp(n), s),
                 ma_heap' = MA!split_block(a, MA!RoundUp(n)), ma_live' = MA!With(ma_live, a, n)
          PROVE  MA!AllocInv' /\ \A b \in DOMAIN ma_live : b \in DOMAIN ma_live' /\ ma_heap'[b].size = ma_heap[b].size
      <3>1. n \in Nat /\ MA!RoundUp(n) \in Nat /\ MA!RoundUp(n) >= n
        BY Zenon, <1>RoundUpIsMore DEF MA!AllocConstants
      <3>2. a \in DOMAIN ma_heap /\ ma_heap[a].is_free /\ ma_heap[a].size >= MA!RoundUp(n)
        BY <3>1, <1>ChosenFits
      <3>3. ma_heap[a].size \in Nat
        BY Zenon, <3>2 DEF MA!AllocInv, MA!WellTiled, MA!Blocks, MA!Block
      <3>4. CASE ma_heap[a].size > MA!RoundUp(n) + Header + MinAlloc
        BY <2>2, <3>1, <3>2, <3>4, <1>SplitKeeps
      <3>5. CASE ~ (ma_heap[a].size > MA!RoundUp(n) + Header + MinAlloc)
        <4>1. ma_heap' = [ma_heap EXCEPT ![a].is_free = FALSE]
          BY Zenon, <2>2, <3>5 DEF MA!split_block
        <4>2. ma_heap[a].size >= n
          BY <3>1, <3>2, <3>3
        <4> QED BY Zenon, <2>2, <3>2, <4>1, <4>2, <1>TakeKeeps
      <3> QED BY <3>4, <3>5
    <2> QED BY Zenon, <2>1, <2>2 DEF MA!allocate_memory

  \* A free block is merged with a free one behind it.
  <1>MergeNextKeeps.
    ASSUME MA!AllocInv, NEW a \in DOMAIN ma_heap, ~ ma_heap[a].is_free, NEW h, h = MA!MergeNext(ma_heap, a)
    PROVE  MA!Freed(h, a)
    <2> USE <1>MergeNextKeeps
    <2>1. \A x \in DOMAIN ma_heap : ma_heap[x] \in MA!Block /\ (ma_heap[x].next # MA!NULL => ma_heap[x].next \in DOMAIN ma_heap)
      BY DEF MA!AllocInv, MA!WellTiled, MA!Blocks, MA!Linked
    <2>2. \A x \in DOMAIN ma_heap : ma_heap[x].is_free /\ ma_heap[x].next # MA!NULL => ~ ma_heap[ma_heap[x].next].is_free
      BY DEF MA!AllocInv, MA!Coalesced
    <2>3. MA!WellTiled(ma_heap)
      BY Zenon DEF MA!AllocInv
    <2>4. CASE ma_heap[a].next # MA!NULL /\ ma_heap[ma_heap[a].next].is_free
      <3>1. PICK c \in DOMAIN ma_heap : c = ma_heap[a].next
        BY <2>1, <2>4
      <3>2. h = MA!Joined(ma_heap, a, c)
        BY Zenon, <2>4, <3>1 DEF MA!MergeNext
      <3>3. /\ MA!WellTiled(h) /\ c # a
            /\ DOMAIN h = DOMAIN ma_heap \ {c} /\ \A x \in DOMAIN h : x # a => h[x] = ma_heap[x]
            /\ h[a].is_free /\ h[a].next = ma_heap[c].next
        BY <2>3, <3>1, <3>2, <1>Absorb
      <3>4. \A x \in DOMAIN ma_heap : x # a => ma_heap[x].next # c \/ ~ ma_heap[x].is_free
        BY Zenon, <2>2, <2>4, <3>1
      <3>5. \A x \in DOMAIN h : h[x].is_free /\ h[x].next # MA!NULL /\ h[x].next # a => ~ h[h[x].next].is_free
        <4> SUFFICES ASSUME NEW x \in DOMAIN h, h[x].is_free, h[x].next # MA!NULL, h[x].next # a
                     PROVE  ~ h[h[x].next].is_free
          BY Zenon
        <4>1. CASE x = a
          BY Zenon, <2>1, <2>2, <2>4, <3>1, <3>3, <4>1
        <4>2. CASE x # a
          BY SMTT(30), <2>1, <2>2, <3>3, <3>4, <4>2
        <4> QED BY Zenon, <4>1, <4>2
      <3>6. {x \in DOMAIN h : ~ h[x].is_free} = {x \in DOMAIN ma_heap : ~ ma_heap[x].is_free} \ {a}
        BY <2>4, <3>1, <3>3
      <3> QED BY Zenon, <3>3, <3>5, <3>6 DEF MA!Freed
    <2>5. CASE ~ (ma_heap[a].next # MA!NULL /\ ma_heap[ma_heap[a].next].is_free)
      <3>1. h = [ma_heap EXCEPT ![a].is_free = TRUE]
        BY <2>5 DEF MA!MergeNext
      <3>2. /\ DOMAIN h = DOMAIN ma_heap /\ h[a] = [ma_heap[a] EXCEPT !.is_free = TRUE]
            /\ \A x \in DOMAIN h : x # a => h[x] = ma_heap[x]
        BY <3>1
      <3>3. h[a] \in MA!Block /\ h[a].is_free /\ h[a].size = ma_heap[a].size /\ h[a].next = ma_heap[a].next
        BY Zenon, <2>1, <3>2 DEF MA!Block
      <3>4. \A x \in DOMAIN h : MA!End(h, x) = MA!End(ma_heap, x) /\ h[x].next = ma_heap[x].next /\ h[x] \in MA!Block
        BY Zenon, <2>1, <3>2, <3>3 DEF MA!End
      <3>5. MA!WellTiled(h)
        <4>1. MA!Blocks(h)
          BY <3>2, <3>4 DEF MA!AllocInv, MA!WellTiled, MA!Blocks
        <4>2. MA!Apart(h)
          BY <3>2, <3>4 DEF MA!AllocInv, MA!WellTiled, MA!Apart
        <4>3. MA!Linked(h)
          BY <3>2, <3>4 DEF MA!AllocInv, MA!WellTiled, MA!Linked
        <4> QED BY <4>1, <4>2, <4>3 DEF MA!WellTiled
      <3>6. \A x \in DOMAIN h : h[x].is_free /\ h[x].next # MA!NULL /\ h[x].next # a => ~ h[h[x].next].is_free
        <4> SUFFICES ASSUME NEW x \in DOMAIN h, h[x].is_free, h[x].next # MA!NULL, h[x].next # a
                     PROVE  ~ h[h[x].next].is_free
          OBVIOUS
        <4>1. h[x].next = ma_heap[x].next /\ ma_heap[x].next \in DOMAIN ma_heap /\ h[h[x].next] = ma_heap[ma_heap[x].next]
          BY <2>1, <3>2, <3>4
        <4> QED BY Zenon, <2>2, <2>5, <3>2, <4>1
      <3>7. {x \in DOMAIN h : ~ h[x].is_free} = {x \in DOMAIN ma_heap : ~ ma_heap[x].is_free} \ {a}
        BY Zenon, <3>2, <3>3
      <3> QED BY <3>2, <3>3, <3>5, <3>6, <3>7 DEF MA!Freed
    <2> QED BY Zenon, <2>4, <2>5

  \* And with a free one before it.
  <1>MergePrevKeeps.
    ASSUME MA!AllocInv, NEW a, NEW h, MA!Freed(h, a), NEW g, g = MA!MergePrev(h, a)
    PROVE  /\ MA!WellTiled(g)
           /\ \A x \in DOMAIN g : g[x].is_free /\ g[x].next # MA!NULL => ~ g[g[x].next].is_free
           /\ {x \in DOMAIN g : ~ g[x].is_free} = {x \in DOMAIN ma_heap : ~ ma_heap[x].is_free} \ {a}
           /\ \A x \in DOMAIN g : ~ g[x].is_free => g[x].size = ma_heap[x].size
    <2> USE <1>MergePrevKeeps
    <2> DEFINE before == {p \in DOMAIN h : h[p].next = a /\ h[p].is_free}
    <2>1. CASE before = {}
      <3>1. g = h
        BY Zenon, <2>1 DEF MA!MergePrev
      <3> QED BY Zenon, <2>1, <3>1 DEF MA!Freed
    <2>2. CASE before # {}
      <3>1. PICK p \in DOMAIN h : h[p].next = a /\ h[p].is_free /\ p = CHOOSE q \in before : TRUE
        BY <2>2
      <3>2. g = MA!Joined(h, p, a)
        BY Zenon, <2>2, <3>1 DEF MA!MergePrev
      <3>3. MA!WellTiled(h) /\ a \in DOMAIN h /\ h[a].is_free
        BY Zenon DEF MA!Freed
      <3>4. /\ MA!WellTiled(g) /\ a = MA!End(h, p) /\ a # p
            /\ DOMAIN g = DOMAIN h \ {a} /\ \A x \in DOMAIN g : x # p => g[x] = h[x]
            /\ g[p].is_free /\ g[p].next = h[a].next
        <4>1. h[p].next = a
          BY <3>1
        <4> HIDE DEF before
        <4> QED BY ONLY <3>2, <3>3, <4>1, <1>Absorb, MA!AllocConstants, p \in DOMAIN h
      <3> HIDE DEF before
      <3>5. \A x \in DOMAIN h : x # p => h[x].next # a
        <4> SUFFICES ASSUME NEW x \in DOMAIN h, x # p, h[x].next = a
                     PROVE  FALSE
          BY Zenon
        <4>1. \A y \in DOMAIN h : y \in Nat /\ MA!End(h, y) \in Nat /\ y < MA!End(h, y)
          BY DEF MA!Freed, MA!WellTiled, MA!Blocks, MA!Block, MA!End, MA!AllocConstants
        <4>2. MA!End(h, x) = a
          <5>1. a # MA!NULL
            BY SMTT(30), <3>3 DEF MA!Freed, MA!WellTiled, MA!Blocks, MA!NULL
          <5> QED BY Zenon, <5>1 DEF MA!Freed, MA!WellTiled, MA!Linked
        <4>3. CASE x < p
          BY SMTT(30), <3>4, <4>1, <4>2, <4>3 DEF MA!Freed, MA!WellTiled, MA!Apart
        <4>4. CASE p < x
          BY <3>4, <4>1, <4>2, <4>4 DEF MA!Freed, MA!WellTiled, MA!Apart
        <4> QED BY <4>1, <4>3, <4>4
      <3>6. \A x \in DOMAIN h : h[x].is_free /\ h[x].next # MA!NULL /\ h[x].next # a =>
                 h[x].next \in DOMAIN h /\ h[x].next # p /\ ~ h[h[x].next].is_free
        BY Zenon, <3>1 DEF MA!Freed, MA!WellTiled, MA!Linked
      <3>7. h[a].next # a
        BY Zenon, <3>3, <3>4, <3>5
      <3>8. ASSUME NEW x \in DOMAIN g, g[x].is_free, g[x].next # MA!NULL
             PROVE  ~ g[g[x].next].is_free
        <4>1. CASE x = p
          BY <3>3, <3>4, <3>6, <3>7, <3>8, <4>1
        <4>2. CASE x # p
          BY Zenon, <3>4, <3>5, <3>6, <3>8, <4>2
        <4> QED BY Zenon, <4>1, <4>2
      <3>9. {x \in DOMAIN g : ~ g[x].is_free} = {x \in DOMAIN ma_heap : ~ ma_heap[x].is_free} \ {a}
        <4>1. {x \in DOMAIN g : ~ g[x].is_free} = {x \in DOMAIN h : ~ h[x].is_free}
          BY Zenon, <3>1, <3>3, <3>4
        <4> QED BY <4>1 DEF MA!Freed
      <3>10. \A x \in DOMAIN g : ~ g[x].is_free => g[x].size = ma_heap[x].size
        BY Zenon, <3>4 DEF MA!Freed
      <3> QED BY Zenon, <3>4, <3>8, <3>9, <3>10
    <2> QED BY Zenon, <2>1, <2>2

  \* Every call keeps the pool tiled and every held block where it is.
  <1>AllocStep.
    MA!AllocInv /\ [MA!Next]_(MA!vars) => MA!AllocInv' /\ MA!HeldStep
    <2> SUFFICES ASSUME MA!AllocInv, [MA!Next]_(MA!vars)
                 PROVE  MA!AllocInv' /\ \A a \in DOMAIN ma_live \cap DOMAIN ma_live' : ma_heap'[a].size = ma_heap[a].size
      BY Zenon DEF MA!HeldStep
    <2>1. CASE UNCHANGED MA!vars
      BY <2>1 DEF MA!vars, MA!AllocInv, MA!Coalesced, MA!HeldIsReserved
    <2>2. ASSUME NEW n \in Requests, NEW s \in MA!Strategies, MA!allocate_memory(n, s)
          PROVE  MA!AllocInv' /\ \A a \in DOMAIN ma_live \cap DOMAIN ma_live' : ma_heap'[a].size = ma_heap[a].size
      BY Zenon, <2>2, <1>AllocateKeeps
    <2>3. ASSUME NEW a \in DOMAIN ma_live, MA!free_memory(a)
          PROVE  MA!AllocInv' /\ \A b \in DOMAIN ma_live \cap DOMAIN ma_live' : ma_heap'[b].size = ma_heap[b].size
      <3>1. a \in DOMAIN ma_heap /\ ~ ma_heap[a].is_free
        BY DEF MA!AllocInv, MA!HeldIsReserved
      <3>2. MA!Freed(MA!MergeNext(ma_heap, a), a)
        BY Zenon, <3>1, <1>MergeNextKeeps
      <3>3. /\ MA!WellTiled(ma_heap')
            /\ \A x \in DOMAIN ma_heap' : ma_heap'[x].is_free /\ ma_heap'[x].next # MA!NULL => ~ ma_heap'[ma_heap'[x].next].is_free
            /\ {x \in DOMAIN ma_heap' : ~ ma_heap'[x].is_free} = {x \in DOMAIN ma_heap : ~ ma_heap[x].is_free} \ {a}
            /\ \A x \in DOMAIN ma_heap' : ~ ma_heap'[x].is_free => ma_heap'[x].size = ma_heap[x].size
        <4>1. ma_heap' = MA!MergePrev(MA!MergeNext(ma_heap, a), a)
          BY <2>3 DEF MA!free_memory
        <4> QED BY <3>2, <4>1, <1>MergePrevKeeps
      <3>4. DOMAIN ma_live' = DOMAIN ma_live \ {a} /\ \A x \in DOMAIN ma_live' : ma_live'[x] = ma_live[x]
        BY <2>3 DEF MA!free_memory, MA!Without
      <3>5. ma_live' \in [DOMAIN ma_live' -> Requests]
        BY Zenon, <2>3, <3>4 DEF MA!free_memory, MA!Without, MA!AllocInv
      <3>6. MA!HeldIsReserved'
        BY Zenon, <3>3, <3>4 DEF MA!AllocInv, MA!HeldIsReserved
      <3>7. MA!Coalesced'
        BY <3>3 DEF MA!Coalesced
      <3> QED BY <3>3, <3>5, <3>6, <3>7 DEF MA!AllocInv, MA!HeldIsReserved
    <2> QED BY Zenon, <2>1, <2>2, <2>3 DEF MA!Next

  \* The properties that the invariant gives.
  <1>AllocGives. MA!AllocInv => MA!TypeOK /\ MA!Tiling /\ MA!Coalesced /\ MA!HeldIsReserved
    <2> SUFFICES ASSUME MA!AllocInv
                 PROVE  MA!TypeOK /\ MA!Tiling
      BY Zenon DEF MA!AllocInv
    <2>1. ASSUME NEW a \in DOMAIN ma_heap
          PROVE  /\ a \in 0 .. HeapSize - 1
                 /\ ma_heap[a] \in [size : 0 .. HeapSize, is_free : BOOLEAN, next : DOMAIN ma_heap \cup {MA!NULL}]
                 /\ ma_heap[a].next = (IF a + Header + ma_heap[a].size = HeapSize THEN MA!NULL ELSE a + Header + ma_heap[a].size)
      <3>1. a \in Nat /\ ma_heap[a] \in MA!Block /\ MA!End(ma_heap, a) <= HeapSize /\ Header \in Nat \ {0} /\ HeapSize \in Nat
        BY Zenon DEF MA!AllocInv, MA!WellTiled, MA!Blocks, MA!AllocConstants
      <3>2. ma_heap[a].size \in Nat
        BY Zenon, <3>1 DEF MA!Block
      <3>3. a \in 0 .. HeapSize - 1 /\ ma_heap[a].size \in 0 .. HeapSize
        BY <3>1, <3>2 DEF MA!End
      <3>4. ma_heap[a].next \in DOMAIN ma_heap \cup {MA!NULL}
        BY DEF MA!AllocInv, MA!WellTiled, MA!Linked
      <3>5. ma_heap[a] \in [size : 0 .. HeapSize, is_free : BOOLEAN, next : DOMAIN ma_heap \cup {MA!NULL}]
        BY Zenon, <3>1, <3>3, <3>4 DEF MA!Block
      <3> QED BY Zenon, <3>3, <3>5 DEF MA!AllocInv, MA!WellTiled, MA!Linked, MA!End
    <2>2. MA!TypeOK
      BY <2>1 DEF MA!TypeOK, MA!AllocInv
    <2>3. MA!Tiling
      BY <2>1 DEF MA!Tiling, MA!AllocInv, MA!WellTiled, MA!Blocks
    <2> QED BY <2>2, <2>3

  <1> QED BY Zenon, <1>AllocStart, <1>AllocStep, <1>AllocGives
-----------------------------------------------------------------------------
(***************************************************************************)
(* cpu.c, for any registers, width of them and programs.                   *)
(***************************************************************************)

CONSTANTS WordBits, Registers, ProgramSize, Programs, InitRegs, MaxCycles
VARIABLES pp_programCounter, pp_registers, pp_memory, pp_pipeline, pp_start, pp_cycle

PP == INSTANCE Pipeline WITH
        W <- WordBits, Size <- ProgramSize,
        programCounter <- pp_programCounter, registers <- pp_registers,
        memory <- pp_memory, pipeline <- pp_pipeline, start <- pp_start, cycle <- pp_cycle

ASSUME PipelineAssumption == PP!PipelineConstants

\* The pipeline: what its stages hold is what the program without a pipeline computes.
LEMMA PipelineInductive ==
    ASSUME PP!PipelineConstants
    PROVE  /\ PP!Init => PP!PipelineInv
           /\ PP!PipelineInv /\ [PP!Next]_(PP!vars) => PP!PipelineInv'
  \* A sum is a word.
  <1>AddIsWord.
    ASSUME NEW a \in PP!Word, NEW b \in PP!Word
    PROVE  PP!Add(a, b) \in PP!Word
    <2> USE <1>AddIsWord
    <2> DEFINE m == 2 ^ WordBits
    <2>1. m \in Nat \ {0} /\ a \in Nat /\ b \in Nat
      BY DEF PP!PipelineConstants, PP!Word
    <2>2. (a + b) % m \in 0 .. m - 1
      <3> HIDE DEF m
      <3> QED BY <2>1
    <2> QED BY <2>2 DEF PP!Add, PP!Word

  \* An instruction leaves words in the registers.
  <1>EffectIsRegisters.
    ASSUME NEW i \in PP!Instructions, NEW regs \in [Registers -> PP!Word]
    PROVE  PP!Effect(i, regs) \in [Registers -> PP!Word]
    <2> USE <1>EffectIsRegisters
    <2>1. i.rd \in Registers /\ i.rs \in Registers /\ i.rt \in Registers
      BY DEF PP!Instructions
    <2>2. PP!Add(regs[i.rs], regs[i.rt]) \in PP!Word
      BY Zenon, <2>1, <1>AddIsWord
    <2> QED BY Zenon, <2>1, <2>2 DEF PP!Effect

  \* Running a program instruction by instruction.
  <1>AfterIs.
    ASSUME NEW m \in [0 .. ProgramSize - 1 -> PP!Instructions], NEW a \in PP!RegisterFile
    PROVE  /\ PP!After(m, a, 0) = a
           /\ \A n \in 1 .. ProgramSize : PP!After(m, a, n) = PP!Effect(m[n - 1], PP!After(m, a, n - 1))
           /\ \A n \in 0 .. ProgramSize : PP!After(m, a, n) \in PP!RegisterFile
    <2> USE <1>AfterIs
    <2> DEFINE step == [n \in 1 .. ProgramSize |-> [r \in PP!RegisterFile |-> PP!Effect(m[n - 1], r)]]
               Is(f) == f = [n \in 0 .. ProgramSize |-> IF n = 0 THEN a ELSE PP!Effect(m[n - 1], f[n - 1])]
    <2>1. a \in PP!RegisterFile /\ ProgramSize \in Nat
      BY DEF PP!PipelineConstants
    <2>2. step \in [1 .. ProgramSize -> [PP!RegisterFile -> PP!RegisterFile]]
      <3>1. ASSUME NEW n \in 1 .. ProgramSize, NEW r \in PP!RegisterFile
            PROVE  PP!Effect(m[n - 1], r) \in PP!RegisterFile
        <4>1. n - 1 \in 0 .. ProgramSize - 1
          BY <2>1
        <4>2. m[n - 1] \in PP!Instructions
          BY <4>1
        <4> QED BY <4>2, <1>EffectIsRegisters DEF PP!RegisterFile
      <3> QED BY <3>1
    <2>3. PICK f \in [0 .. ProgramSize -> PP!RegisterFile] : f[0] = a /\ \A n \in 1 .. ProgramSize : f[n] = step[n][f[n - 1]]
      <3> DEFINE N == ProgramSize
      <3>1. N \in Nat /\ step \in [1 .. N -> [PP!RegisterFile -> PP!RegisterFile]]
        BY Zenon, <2>1, <2>2
      <3> HIDE DEF step, N
      <3>2. \E f \in [0 .. N -> PP!RegisterFile] : f[0] = a /\ \A n \in 1 .. N : f[n] = step[n][f[n - 1]]
        BY SMTT(30), <2>1, <3>1, Iterates
      <3> QED BY Zenon, <3>2 DEF N
    <2>4. \A n \in 1 .. ProgramSize : f[n] = PP!Effect(m[n - 1], f[n - 1])
      <3> SUFFICES ASSUME NEW n \in 1 .. ProgramSize
                   PROVE  f[n] = PP!Effect(m[n - 1], f[n - 1])
        OBVIOUS
      <3>1. f[n - 1] \in PP!RegisterFile
        BY <2>1
      <3> QED BY Zenon, <2>3, <3>1
    <2> HIDE DEF step
    <2>5. Is(f)
      <3>1. \A n \in 0 .. ProgramSize : f[n] = IF n = 0 THEN a ELSE PP!Effect(m[n - 1], f[n - 1])
        BY <2>1, <2>3, <2>4
      <3> QED BY Zenon, <3>1
    <2> DEFINE run == CHOOSE g : Is(g)
    <2>6. Is(run)
      BY Zenon, <2>5
    <2>7. \A n : PP!After(m, a, n) = run[n]
      BY DEF PP!After
    <2> HIDE DEF run
    <2>8. run[0] = a /\ \A n \in 1 .. ProgramSize : run[n] = PP!Effect(m[n - 1], run[n - 1])
      BY <2>1, <2>6
    <2>9. \A n \in 0 .. ProgramSize : run[n] = f[n]
      <3> DEFINE S == {n \in 0 .. ProgramSize : run[n] = f[n]}
      <3>1. 0 \in S
        BY <2>1, <2>3, <2>8
      <3>2. ASSUME NEW n \in 0 .. ProgramSize - 1, n \in S
            PROVE  n + 1 \in S
        <4>1. n + 1 \in 1 .. ProgramSize /\ n + 1 - 1 = n
          BY <2>1
        <4> QED BY <2>4, <2>8, <3>2, <4>1
      <3> HIDE DEF S
      <3>3. \A n \in 0 .. ProgramSize : n \in S
        BY Zenon, <2>1, <3>1, <3>2, UpTo
      <3> QED BY Zenon, <3>3 DEF S
    <2> QED BY Zenon, <2>3, <2>7, <2>8, <2>9

  \* An instruction whose operands the two before it leave alone reads the same
  \* with or without them.
  <1>Distance.
    ASSUME PP!PipelineInv, PP!HazardFree, NEW j \in 0 .. ProgramSize - 1,
           NEW r \in {pp_memory[j].rs, pp_memory[j].rt}
    PROVE  PP!Sequential(j)[r] = PP!Sequential(IF j < 2 THEN 0 ELSE j - 2)[r]
    <2> USE <1>Distance
    <2>1. /\ \A n \in 1 .. ProgramSize : PP!Sequential(n) = PP!Effect(pp_memory[n - 1], PP!Sequential(n - 1))
          /\ \A n \in 0 .. ProgramSize : PP!Sequential(n) \in [Registers -> PP!Word]
      BY Zenon, <1>AfterIs DEF PP!Sequential, PP!PipelineInv, PP!RegisterFile
    <2>2. \A n \in 0 .. ProgramSize - 1 : pp_memory[n] \in PP!Instructions
      BY DEF PP!PipelineInv
    <2>3. r \in Registers
      BY <2>2 DEF PP!Instructions
    <2>4. ASSUME NEW k \in {j - 1, j - 2}, k \in 0 .. ProgramSize - 1
          PROVE  PP!Sequential(k + 1)[r] = PP!Sequential(k)[r]
      <3>1. ProgramSize \in Nat /\ k + 1 \in 1 .. ProgramSize /\ k + 1 - 1 = k /\ k \in 0 .. ProgramSize
        BY <2>4 DEF PP!PipelineConstants
      <3>2. PP!Sequential(k + 1) = PP!Effect(pp_memory[k], PP!Sequential(k)) /\ PP!Sequential(k) \in [Registers -> PP!Word]
        BY <2>1, <3>1
      <3>3. pp_memory[k].opcode = "ADD" => pp_memory[k].rd # r
        BY Zenon, <2>4 DEF PP!HazardFree
      <3> HIDE DEF PP!Sequential
      <3> QED BY Zenon, <2>3, <3>2, <3>3 DEF PP!Effect
    <2>5. CASE j = 0
      BY <2>5
    <2>6. CASE j = 1
      <3>1. 0 \in {j - 1, j - 2} /\ 0 \in 0 .. ProgramSize - 1 /\ 0 + 1 = j
        BY <2>6 DEF PP!PipelineConstants
      <3>2. PP!Sequential(0 + 1)[r] = PP!Sequential(0)[r]
        BY Zenon, <2>4, <3>1
      <3> QED BY <2>6, <3>1, <3>2
    <2>7. CASE j >= 2
      <3>1. j - 1 \in 0 .. ProgramSize - 1 /\ j - 2 \in 0 .. ProgramSize - 1 /\ j - 1 + 1 = j /\ j - 2 + 1 = j - 1 /\ ~ (j < 2)
        BY <2>7 DEF PP!PipelineConstants
      <3>2. PP!Sequential(j - 1 + 1)[r] = PP!Sequential(j - 1)[r] /\ PP!Sequential(j - 2 + 1)[r] = PP!Sequential(j - 2)[r]
        BY Zenon, <2>4, <3>1
      <3> QED BY Zenon, <3>1, <3>2
    <2> QED BY <2>5, <2>6, <2>7 DEF PP!PipelineConstants

  \* The empty pipeline.
  <1>PipelineStart. PP!Init => PP!PipelineInv
    <2> SUFFICES ASSUME PP!Init
                 PROVE  PP!PipelineInv
      OBVIOUS
    <2>1. /\ pp_memory \in [0 .. ProgramSize - 1 -> PP!Instructions] /\ pp_registers \in [Registers -> PP!Word] /\ pp_start = pp_registers
          /\ pp_cycle = 0 /\ pp_programCounter = 0
      BY DEF PP!Init, PP!initCPU, PP!PipelineConstants
    <2>2. \A s \in 0 .. 4 : pp_pipeline[s] = [inst |-> PP!ZeroInst, result |-> 0, valid |-> FALSE]
      BY DEF PP!Init, PP!initCPU
    <2>3. [inst |-> PP!ZeroInst, result |-> 0, valid |-> FALSE] \in [inst : PP!Instructions, result : PP!Word, valid : BOOLEAN]
      <3>1. PP!ZeroInst \in PP!Instructions
        BY DEF PP!ZeroInst, PP!Instructions, PP!PipelineConstants
      <3>2. 0 \in PP!Word
        BY DEF PP!Word, PP!PipelineConstants
      <3> QED BY Zenon, <3>1, <3>2
    <2>4. PP!TypeOK
      BY <2>1, <2>3 DEF PP!TypeOK, PP!Init, PP!initCPU, PP!PipelineConstants
    <2>5. PP!StagesHold
      BY <2>1, <2>2 DEF PP!StagesHold, PP!At
    <2>6. PP!ResultsHold
      BY <2>1 DEF PP!ResultsHold, PP!At
    <2>7. PP!IsSequential
      <3>1. PP!Sequential(0) = pp_start
        BY Zenon, <2>1, <1>AfterIs DEF PP!Sequential, PP!RegisterFile
      <3> QED BY <2>1, <3>1 DEF PP!IsSequential
    <2> QED BY <2>1, <2>4, <2>5, <2>6, <2>7 DEF PP!PipelineInv, PP!PipelineConstants

  \* One cycle: the instruction in the last stage is the next one of the program,
  \* and the one that is executed finds its operands written.
  <1>PipelineCycleKeeps. ASSUME PP!PipelineInv, PP!pipelineCycle PROVE PP!PipelineInv'
    <2> USE <1>PipelineCycleKeeps
    <2> DEFINE Stage == [inst : PP!Instructions, result : PP!Word, valid : BOOLEAN]
    <2>1. /\ pp_memory' = pp_memory /\ pp_start' = pp_start /\ pp_cycle' = pp_cycle + 1 /\ pp_registers' = PP!writebackStage
          /\ pp_programCounter' = IF pp_programCounter < ProgramSize THEN pp_programCounter + 1 ELSE pp_programCounter
          /\ pp_cycle \in Nat /\ ProgramSize \in Nat /\ pp_programCounter = (IF pp_cycle < ProgramSize THEN pp_cycle ELSE ProgramSize)
          /\ pp_memory \in [0 .. ProgramSize - 1 -> PP!Instructions] /\ pp_start \in [Registers -> PP!Word]
      BY DEF PP!pipelineCycle, PP!PipelineInv, PP!PipelineConstants
    <2>2. /\ pp_registers \in [Registers -> PP!Word] /\ \A s \in 0 .. 4 : pp_pipeline[s] \in Stage
      BY Zenon DEF PP!PipelineInv, PP!TypeOK
    <2>3. \A s \in 0 .. 4 : /\ pp_pipeline[s].inst \in PP!Instructions /\ pp_pipeline[s].result \in PP!Word
                            /\ pp_pipeline[s].valid \in BOOLEAN /\ pp_pipeline[s].inst.rd \in Registers
                            /\ pp_pipeline[s].inst.rs \in Registers /\ pp_pipeline[s].inst.rt \in Registers
      BY Zenon, <2>2 DEF PP!Instructions
    <2>4. /\ pp_pipeline' = [s \in 0 .. 4 |-> IF s = 0 THEN PP!fetchStage(pp_pipeline[0])
                                           ELSE IF s = 2 THEN PP!executeStage(pp_pipeline[1], pp_registers')
                                           ELSE pp_pipeline[s - 1]]
      BY DEF PP!pipelineCycle
    <2>5. /\ pp_pipeline'[0] = PP!fetchStage(pp_pipeline[0]) /\ pp_pipeline'[2] = PP!executeStage(pp_pipeline[1], pp_registers')
          /\ pp_pipeline'[1] = pp_pipeline[0] /\ pp_pipeline'[3] = pp_pipeline[2] /\ pp_pipeline'[4] = pp_pipeline[3]
      BY <2>4
    <2>6. pp_registers' \in [Registers -> PP!Word]
      BY <2>1, <2>2, <2>3 DEF PP!writebackStage
    <2>7. /\ PP!fetchStage(pp_pipeline[0]) \in Stage
          /\ pp_programCounter < ProgramSize => /\ PP!fetchStage(pp_pipeline[0]).valid
                                                /\ PP!fetchStage(pp_pipeline[0]).inst = pp_memory[pp_programCounter]
      <3>1. pp_programCounter < ProgramSize => pp_programCounter \in 0 .. ProgramSize - 1 /\ pp_memory[pp_programCounter] \in PP!Instructions
        BY <2>1
      <3>2. CASE pp_programCounter < ProgramSize
        <4>1. PICK i \in PP!Instructions, f \in Stage : i = pp_memory[pp_programCounter] /\ f = pp_pipeline[0]
          BY <2>2, <3>1, <3>2
        <4>2. PP!fetchStage(pp_pipeline[0]) = [f EXCEPT !.inst = i, !.valid = TRUE]
          BY <3>2, <4>1 DEF PP!fetchStage
        <4>3. [f EXCEPT !.inst = i, !.valid = TRUE] \in Stage
          BY Zenon
        <4>4. [f EXCEPT !.inst = i, !.valid = TRUE].valid /\ [f EXCEPT !.inst = i, !.valid = TRUE].inst = i
          OBVIOUS
        <4> QED BY Zenon, <4>1, <4>2, <4>3, <4>4
      <3>3. CASE ~ (pp_programCounter < ProgramSize)
        BY <2>2, <3>3 DEF PP!fetchStage
      <3> QED BY Zenon, <3>2, <3>3
    <2>8. /\ PP!executeStage(pp_pipeline[1], pp_registers') \in Stage
          /\ PP!executeStage(pp_pipeline[1], pp_registers').inst = pp_pipeline[1].inst
          /\ PP!executeStage(pp_pipeline[1], pp_registers').valid = pp_pipeline[1].valid
          /\ pp_pipeline[1].valid /\ pp_pipeline[1].inst.opcode = "ADD" =>
                PP!executeStage(pp_pipeline[1], pp_registers').result =
                    PP!Add(pp_registers'[pp_pipeline[1].inst.rs], pp_registers'[pp_pipeline[1].inst.rt])
      <3>1. PP!Add(pp_registers'[pp_pipeline[1].inst.rs], pp_registers'[pp_pipeline[1].inst.rt]) \in PP!Word
        BY <2>3, <2>6, <1>AddIsWord
      <3>2. 0 \in PP!Word
        BY DEF PP!Word, PP!PipelineConstants
      <3> QED BY <2>2, <3>1, <3>2 DEF PP!executeStage
    <2>9. PP!TypeOK'
      <3>1. \A s \in 0 .. 4 : pp_pipeline'[s] \in Stage
        BY SMTT(30), <2>2, <2>5, <2>7, <2>8
      <3>2. pp_pipeline' \in [0 .. 4 -> Stage]
        BY <2>4, <3>1
      <3>3. pp_programCounter' \in 0 .. ProgramSize
        BY <2>1
      <3> QED BY Zenon, <2>6, <3>2, <3>3 DEF PP!TypeOK
    <2>10. \A s \in 0 .. 3 : PP!At(s + 1)' = PP!At(s)
      BY SMTT(30), <2>1 DEF PP!At
    <2>11. PP!StagesHold'
      <3> SUFFICES ASSUME NEW s \in 0 .. 4
                   PROVE  /\ PP!At(s)' < 0 => ~ pp_pipeline'[s].valid
                          /\ PP!At(s)' \in 0 .. ProgramSize - 1 => pp_pipeline'[s].valid /\ pp_pipeline'[s].inst = pp_memory[PP!At(s)']
        BY Zenon, <2>1 DEF PP!StagesHold
      <3>1. CASE s = 0
        <4>1. PP!At(s)' = pp_cycle
          BY <2>1, <3>1 DEF PP!At
        <4> QED BY <2>1, <2>5, <2>7, <3>1, <4>1
      <3>2. CASE s \in 1 .. 4
        <4>1. PICK r \in 0 .. 3 : s = r + 1
          BY <3>2
        <4>2. PP!At(s)' = PP!At(r)
          BY Zenon, <2>10, <4>1
        <4>3. pp_pipeline'[s].valid = pp_pipeline[r].valid /\ pp_pipeline'[s].inst = pp_pipeline[r].inst
          BY <2>5, <2>8, <4>1
        <4> QED BY <4>2, <4>3 DEF PP!PipelineInv, PP!StagesHold
      <3> QED BY <3>1, <3>2
    <2>12. \A n : PP!Sequential(n)' = PP!Sequential(n)
      BY Zenon, <2>1 DEF PP!Sequential
    <2>13. PP!HazardFree' <=> PP!HazardFree
      BY Zenon, <2>1 DEF PP!HazardFree
    <2>14. PP!IsSequential'
      <3> SUFFICES ASSUME PP!HazardFree, pp_cycle + 1 - 5 <= ProgramSize
                   PROVE  pp_registers' = PP!Sequential(IF pp_cycle + 1 < 5 THEN 0 ELSE pp_cycle + 1 - 5)
        BY <2>1, <2>12, <2>13 DEF PP!IsSequential
      <3>1. pp_registers = PP!Sequential(IF pp_cycle < 5 THEN 0 ELSE pp_cycle - 5)
        BY <2>1 DEF PP!PipelineInv, PP!IsSequential
      <3>2. CASE pp_cycle < 5
        <4>1. ~ pp_pipeline[4].valid
          BY <2>1, <3>2 DEF PP!PipelineInv, PP!StagesHold, PP!At
        <4>2. (IF pp_cycle + 1 < 5 THEN 0 ELSE pp_cycle + 1 - 5) = 0
          BY <2>1, <3>2
        <4> QED BY Zenon, <2>1, <3>1, <3>2, <4>1, <4>2 DEF PP!writebackStage
      <3>3. CASE pp_cycle >= 5
        <4> DEFINE j == pp_cycle - 5
        <4>1. PP!At(4) = j /\ j \in 0 .. ProgramSize - 1 /\ j + 1 \in 1 .. ProgramSize /\ j + 1 - 1 = j /\ pp_cycle + 1 - 5 = j + 1
              /\ ~ (pp_cycle < 5) /\ ~ (pp_cycle + 1 < 5)
          BY <2>1, <3>3 DEF PP!At
        <4>2. pp_registers = PP!Sequential(j)
          BY Zenon, <3>1, <4>1
        <4> HIDE DEF j
        <4>3. PP!Sequential(j + 1) = PP!Effect(pp_memory[j], PP!Sequential(j))
          <5>1. \A n \in 1 .. ProgramSize : PP!Sequential(n) = PP!Effect(pp_memory[n - 1], PP!Sequential(n - 1))
            BY Zenon, <2>1, <1>AfterIs DEF PP!Sequential, PP!RegisterFile
          <5> QED BY <4>1, <5>1
        <4>4. pp_pipeline[4].valid /\ pp_pipeline[4].inst = pp_memory[j]
          BY <4>1 DEF PP!PipelineInv, PP!StagesHold
        <4>5. pp_memory[j].opcode = "ADD" => pp_pipeline[4].result = PP!Add(PP!Sequential(j)[pp_memory[j].rs], PP!Sequential(j)[pp_memory[j].rt])
          BY <4>1 DEF PP!PipelineInv, PP!ResultsHold
        <4>6. pp_registers' = PP!Effect(pp_memory[j], PP!Sequential(j))
          <5> HIDE DEF PP!Sequential
          <5> QED BY Zenon, <2>1, <4>2, <4>4, <4>5 DEF PP!writebackStage, PP!Effect
        <4> QED BY Zenon, <4>1, <4>3, <4>6
      <3> QED BY <2>1, <3>2, <3>3
    <2>15. PP!ResultsHold'
      <3> SUFFICES ASSUME PP!HazardFree, NEW s \in 2 .. 4, PP!At(s)' \in 0 .. ProgramSize - 1, pp_memory[PP!At(s)'].opcode = "ADD"
                   PROVE  pp_pipeline'[s].result = PP!Add(PP!Sequential(PP!At(s)')[pp_memory[PP!At(s)'].rs], PP!Sequential(PP!At(s)')[pp_memory[PP!At(s)'].rt])
        BY Zenon, <2>1, <2>12, <2>13 DEF PP!ResultsHold
      <3>1. CASE s = 2
        <4> DEFINE j == PP!At(1)
        <4>1. PP!At(s)' = j /\ j \in 0 .. ProgramSize - 1 /\ pp_cycle - 2 = j
          BY <2>1, <2>10, <3>1 DEF PP!At
        <4>2. pp_pipeline[1].valid /\ pp_pipeline[1].inst = pp_memory[j]
          BY <4>1 DEF PP!PipelineInv, PP!StagesHold
        <4>3. pp_registers' = PP!Sequential(IF j < 2 THEN 0 ELSE j - 2)
          <5>1. pp_cycle + 1 - 5 <= ProgramSize /\ (IF pp_cycle + 1 < 5 THEN 0 ELSE pp_cycle + 1 - 5) = (IF j < 2 THEN 0 ELSE j - 2)
            BY <2>1, <4>1
          <5>2. pp_registers' = PP!Sequential(IF pp_cycle + 1 < 5 THEN 0 ELSE pp_cycle + 1 - 5)
            BY <2>1, <2>12, <2>13, <2>14, <5>1 DEF PP!IsSequential
          <5> QED BY Zenon, <5>1, <5>2
        <4> HIDE DEF j
        <4>4. \A r \in {pp_memory[j].rs, pp_memory[j].rt} : PP!Sequential(j)[r] = pp_registers'[r]
          BY Zenon, <4>1, <4>3, <1>Distance
        <4> QED BY Zenon, <2>5, <2>8, <3>1, <4>1, <4>2, <4>4
      <3>2. CASE s \in 3 .. 4
        <4>1. PICK r \in 2 .. 3 : s = r + 1
          BY SMTT(30), <3>2
        <4>2. PP!At(s)' = PP!At(r) /\ pp_pipeline'[s] = pp_pipeline[r]
          BY <2>5, <2>10, <4>1
        <4> QED BY <4>2 DEF PP!PipelineInv, PP!ResultsHold
      <3> QED BY <3>1, <3>2
    <2>16. pp_programCounter' = (IF pp_cycle' < ProgramSize THEN pp_cycle' ELSE ProgramSize)
      BY <2>1
    <2> QED BY <2>1, <2>9, <2>11, <2>14, <2>15, <2>16 DEF PP!PipelineInv

  \* Every step keeps the invariant.
  <1>PipelineStep. PP!PipelineInv /\ [PP!Next]_(PP!vars) => PP!PipelineInv'
    <2> SUFFICES ASSUME PP!PipelineInv, [PP!Next]_(PP!vars)
                 PROVE  PP!PipelineInv'
      OBVIOUS
    <2>1. CASE PP!Next
      BY Zenon, <2>1, <1>PipelineCycleKeeps DEF PP!Next
    <2>2. CASE UNCHANGED PP!vars
      <3>1. /\ pp_programCounter' = pp_programCounter /\ pp_registers' = pp_registers
            /\ pp_memory' = pp_memory /\ pp_pipeline' = pp_pipeline
            /\ pp_start' = pp_start /\ pp_cycle' = pp_cycle
        BY Zenon, <2>2 DEF PP!vars
      <3>2. /\ PP!HazardFree' = PP!HazardFree /\ \A s : PP!At(s)' = PP!At(s)
            /\ \A n : PP!Sequential(n)' = PP!Sequential(n)
        BY Zenon, <3>1 DEF PP!HazardFree, PP!At, PP!Sequential, PP!After, PP!Effect, PP!Add
      <3>3. PP!TypeOK' /\ PP!StagesHold'
        BY Zenon, <3>1, <3>2 DEF PP!PipelineInv, PP!TypeOK, PP!StagesHold
      <3>4. PP!ResultsHold' /\ PP!IsSequential'
        BY Zenon, <3>1, <3>2 DEF PP!PipelineInv, PP!ResultsHold, PP!IsSequential, PP!Add
      <3> QED BY Zenon, <3>1, <3>3, <3>4 DEF PP!PipelineInv
    <2> QED BY <2>1, <2>2

  <1> QED BY Zenon, <1>PipelineStart, <1>PipelineStep
-----------------------------------------------------------------------------
(***************************************************************************)
(* processor_sim.c, for any widths and instructions.                       *)
(***************************************************************************)

CONSTANTS RegBits, ImmBits, RegCount, Encodings, R1, R2
VARIABLES ps_registers, ps_flags, ps_pc, ps_last

PS == INSTANCE ProcessorSim WITH
        W <- WordBits, Instructions <- Encodings, registers <- ps_registers,
        flags <- ps_flags, pc <- ps_pc, last <- ps_last

ASSUME ProcessorAssumption == PS!ProcessorConstants

\* Every operation has words for results.
LEMMA ResultIsWord ==
    ASSUME PS!ProcessorConstants, NEW a \in PS!Word, NEW b \in PS!Word, NEW op,
           NEW r \in PS!perform_alu_operation(a, b, op)
    PROVE  r \in PS!Word
  <1> DEFINE M == 2 ^ WordBits
             k == b % WordBits
             P == 2 ^ k
  <1>1. M \in Nat \ {0} /\ PS!Word = 0 .. M - 1
    BY DEF PS!ProcessorConstants, PS!Word
  <1>2. P \in Nat \ {0}
    <2>1. b \in Nat /\ WordBits \in Nat \ {0}
      BY <1>1 DEF PS!ProcessorConstants
    <2>2. k \in 0 .. WordBits - 1
      BY <2>1
    <2>3. k \in 0 .. WordBits + ImmBits + 3 * RegBits
      <3> HIDE DEF k
      <3> QED BY <2>2 DEF PS!ProcessorConstants
    <2> HIDE DEF k
    <2> QED BY Zenon, <2>3 DEF PS!ProcessorConstants
  <1>3. \A x \in Int : x % M \in PS!Word
    <2> HIDE DEF M
    <2> QED BY <1>1
  <1>4. a * P \in Int /\ a \div P \in PS!Word
    <2> HIDE DEF M, P
    <2>1. a \in Nat /\ a <= M - 1
      BY <1>1
    <2>2. a \div P \in Nat /\ a = P * (a \div P) + (a % P) /\ a % P \in Nat
      BY <1>2, <2>1
    <2>3. PICK q \in Nat, t \in Nat : q = a \div P /\ a = P * q + t
      BY <2>2
    <2>4. q <= P * q
      BY <1>2
    <2>5. P * q \in Nat
      BY <1>2
    <2>6. q <= a
      BY <2>1, <2>3, <2>4, <2>5
    <2> QED BY <1>1, <1>2, <2>1, <2>3, <2>6
  <1>5. 0 \in PS!Word
    BY <1>1
  <1>6. /\ PS!perform_alu_operation(a, b, 0) = {(a + b) % M}
        /\ PS!perform_alu_operation(a, b, 1) = {(a - b) % M}
        /\ PS!perform_alu_operation(a, b, 5) \subseteq {(a * P) % M, 0}
        /\ PS!perform_alu_operation(a, b, 6) \subseteq {a \div P, 0}
    BY DEF PS!perform_alu_operation
  <1>7. op \notin {0, 1, 5, 6} => r \in PS!Word
    <2>1. CASE op \in {2, 3, 4}
      BY <2>1 DEF PS!perform_alu_operation
    <2>2. CASE op \notin {0, 1, 2, 3, 4, 5, 6}
      BY <1>5, <2>2 DEF PS!perform_alu_operation
    <2> QED BY <2>1, <2>2
  <1> HIDE DEF M, P
  <1>8. a + b \in Int /\ a - b \in Int
    BY <1>1
  <1> QED BY Zenon, <1>3, <1>4, <1>5, <1>6, <1>7, <1>8

\* The fields of an instruction name registers, and the immediate value is a word.
LEMMA FieldsAreRegisters ==
    ASSUME PS!ProcessorConstants, NEW e \in Encodings, NEW i, i = PS!decode_instruction(e)
    PROVE  i.rd \in PS!Regs /\ i.rs1 \in PS!Regs /\ i.rs2 \in PS!Regs /\ i.immediate \in PS!Word
  <1>1. e \in Nat /\ RegBits \in Nat /\ ImmBits \in Nat /\ WordBits \in Nat
    BY DEF PS!ProcessorConstants
  <1>2. /\ ImmBits + 2 * RegBits \in 0 .. WordBits + ImmBits + 3 * RegBits
        /\ ImmBits + RegBits \in 0 .. WordBits + ImmBits + 3 * RegBits
        /\ ImmBits \in 0 .. WordBits + ImmBits + 3 * RegBits /\ RegBits \in 0 .. WordBits + ImmBits + 3 * RegBits
        /\ WordBits \in 0 .. WordBits + ImmBits + 3 * RegBits
    BY <1>1
  <1>3. PICK a, b, c, R, M :
          /\ a = 2 ^ (ImmBits + 2 * RegBits) /\ b = 2 ^ (ImmBits + RegBits) /\ c = 2 ^ ImmBits
          /\ R = 2 ^ RegBits /\ M = 2 ^ WordBits
          /\ a \in Nat \ {0} /\ b \in Nat \ {0} /\ c \in Nat \ {0} /\ R \in Nat \ {0} /\ M \in Nat \ {0} /\ c <= M
    BY Zenon, <1>2 DEF PS!ProcessorConstants
  <1>4. /\ i.rd = (e \div a) % R /\ i.rs1 = (e \div b) % R /\ i.rs2 = (e \div c) % R /\ i.immediate = e % c
        /\ PS!Regs = 0 .. R - 1 /\ PS!Word = 0 .. M - 1
    BY <1>3 DEF PS!decode_instruction, PS!Regs, PS!Word
  <1>5. \A x \in Nat, m \in Nat \ {0} : x \div m \in Nat /\ x % m \in 0 .. m - 1
    OBVIOUS
  <1>6. i.rd \in PS!Regs
    BY <1>1, <1>3, <1>4, <1>5
  <1>7. i.rs1 \in PS!Regs
    BY <1>1, <1>3, <1>4, <1>5
  <1>8. i.rs2 \in PS!Regs
    BY <1>1, <1>3, <1>4, <1>5
  <1>9. e % c \in 0 .. c - 1
    BY Zenon, <1>1, <1>3, <1>5
  <1> QED BY SMTT(30), <1>3, <1>4, <1>6, <1>7, <1>8, <1>9

\* A sum of two words wraps exactly if it comes out below one of them.
LEMMA SumWraps ==
    ASSUME NEW M \in Nat \ {0}, NEW a \in 0 .. M - 1, NEW b \in 0 .. M - 1
    PROVE  ((a + b) % M < a) <=> (a + b >= M)
  <1>1. CASE a + b < M
    <2>1. (a + b) % M = a + b
      BY <1>1
    <2> QED BY <1>1, <2>1
  <1>2. CASE a + b >= M
    <2>1. (a + b) % M = a + b - M
      <3>1. \A x, k \in Nat, i \in 0 .. M - 1 : x = M * k + i => x % M = i
        OBVIOUS
      <3>2. a + b = M * 1 + (a + b - M) /\ a + b - M \in 0 .. M - 1 /\ a + b \in Nat
        BY <1>2
      <3> QED BY <3>1, <3>2
    <2> QED BY <1>2, <2>1
  <1> QED BY <1>1, <1>2

\* The registers of main.
LEMMA ProcessorStart == PS!ProcessorConstants /\ PS!Init => PS!ProcessorInv
  <1> SUFFICES ASSUME PS!ProcessorConstants, PS!Init
               PROVE  PS!ProcessorInv
    OBVIOUS
  <1>1. 0 \in PS!Word
    BY DEF PS!Word, PS!ProcessorConstants
  <1>2. ps_registers \in [PS!Regs -> PS!Word]
    BY <1>1 DEF PS!Init, PS!initialize_processor, PS!ProcessorConstants
  <1>3. ps_flags \in PS!Flags
    BY Zenon DEF PS!Init, PS!initialize_processor, PS!Flags
  <1>4. PS!CarryIsRight
    BY DEF PS!CarryIsRight, PS!Init, PS!initialize_processor
  <1>5. ps_pc \in PS!Word
    BY <1>1 DEF PS!Init, PS!initialize_processor
  <1> QED BY <1>2, <1>3, <1>4, <1>5 DEF PS!ProcessorInv, PS!TypeOK

\* An instruction.
LEMMA ProcessorStep == PS!ProcessorConstants /\ PS!ProcessorInv /\ [PS!Next]_(PS!vars) => PS!ProcessorInv'
  <1> SUFFICES ASSUME PS!ProcessorConstants, PS!ProcessorInv, [PS!Next]_(PS!vars)
               PROVE  PS!ProcessorInv'
    OBVIOUS
  <1>1. CASE UNCHANGED PS!vars
    BY <1>1 DEF PS!vars, PS!ProcessorInv, PS!TypeOK, PS!CarryIsRight
  <1>2. ASSUME NEW e \in Encodings, PS!Step(e)
        PROVE  PS!ProcessorInv'
    <2> DEFINE i == PS!decode_instruction(e)
    <2>1. i.rd \in PS!Regs /\ i.rs1 \in PS!Regs /\ i.rs2 \in PS!Regs /\ i.immediate \in PS!Word
      BY FieldsAreRegisters
    <2> HIDE DEF i
    <2> DEFINE a == ps_registers[i.rs1]
               b == IF i.rs2 < RegCount THEN ps_registers[i.rs2] ELSE i.immediate
               op == i.alu_op
    <2>2. a \in PS!Word /\ b \in PS!Word
      BY SMTT(30), <2>1 DEF PS!ProcessorInv, PS!TypeOK
    <2>3. PICK r \in PS!perform_alu_operation(a, b, op) :
             /\ ps_registers' = [ps_registers EXCEPT ![i.rd] = r]
             /\ ps_flags' = [ps_flags EXCEPT !.carry = PS!Carry(a, b, op, r), !.zero = r = 0, !.negative = r >= 2 ^ (WordBits - 1)]
      BY Zenon, <1>2 DEF PS!Step, PS!execute_alu_operation, i
    <2>4. ps_last' = [op |-> op, a |-> a, b |-> b, rd |-> i.rd] /\ ps_pc' = (ps_pc + 4) % 2 ^ WordBits
      BY <1>2 DEF PS!Step, PS!execute_alu_operation, i
    <2> HIDE DEF a, b, op
    <2>5. r \in PS!Word
      BY <2>2, ResultIsWord
    <2>6. ps_registers' \in [PS!Regs -> PS!Word]
      BY Zenon, <2>1, <2>3, <2>5 DEF PS!ProcessorInv, PS!TypeOK
    <2> DEFINE M == 2 ^ WordBits
    <2>7. M \in Nat \ {0} /\ PS!Word = 0 .. M - 1
      BY DEF PS!ProcessorConstants, PS!Word
    <2>8. ps_pc' \in PS!Word
      <3>1. ps_pc \in Nat /\ ps_pc' = (ps_pc + 4) % M
        BY <2>4, <2>7 DEF PS!ProcessorInv, PS!TypeOK
      <3> HIDE DEF M
      <3> QED BY <2>7, <3>1
    <2>9. r \in Int /\ a \in Int /\ b \in Int
      <3> HIDE DEF M
      <3> QED BY <2>2, <2>5, <2>7
    <2>10. ps_flags' \in PS!Flags /\ ps_flags'.carry = PS!Carry(a, b, op, r)
      <3>1. PS!Carry(a, b, op, r) \in BOOLEAN
        <4>1. ps_flags.carry \in BOOLEAN
          BY DEF PS!ProcessorInv, PS!Flags
        <4>2. (r < a) \in BOOLEAN /\ (a < b) \in BOOLEAN
          OBVIOUS
        <4> QED BY <4>1, <4>2, Zenon DEF PS!Carry
      <3>2. (r = 0) \in BOOLEAN /\ (r >= 2 ^ (WordBits - 1)) \in BOOLEAN
        OBVIOUS
      <3>3. PICK c \in BOOLEAN, z \in BOOLEAN, n \in BOOLEAN :
               /\ c = PS!Carry(a, b, op, r) /\ z = (r = 0) /\ n = (r >= 2 ^ (WordBits - 1))
        BY Zenon, <3>1, <3>2
      <3>4. ps_flags' = [ps_flags EXCEPT !.carry = c, !.zero = z, !.negative = n]
        BY Zenon, <2>3, <3>3
      <3> QED BY Zenon, <3>3, <3>4 DEF PS!ProcessorInv, PS!Flags
    <2>11. PS!CarryIsRight'
      <3>1. ps_last'.op = op /\ ps_last'.a = a /\ ps_last'.b = b
        BY <2>4
      <3>2. ASSUME op = 0
            PROVE  ps_flags'.carry <=> a + b >= 2 ^ WordBits
        <4>1. r = (a + b) % M
          BY <2>3, <3>2 DEF PS!perform_alu_operation
        <4>2. ps_flags'.carry = (r < a)
          BY Zenon, <2>10, <3>2 DEF PS!Carry
        <4>3. ((a + b) % M < a) <=> (a + b >= M)
          <5> HIDE DEF M
          <5> QED BY <2>2, <2>7, SumWraps
        <4> QED BY Zenon, <4>1, <4>2, <4>3
      <3>3. ASSUME op = 1
            PROVE  ps_flags'.carry <=> a - b < 0
        <4>1. ps_flags'.carry = (a < b)
          BY <2>10, <3>3 DEF PS!Carry
        <4>2. (a < b) <=> (a - b < 0)
          BY <2>9
        <4> QED BY Zenon, <4>1, <4>2
      <3> QED BY Zenon, <3>1, <3>2, <3>3 DEF PS!CarryIsRight
    <2> QED BY Zenon, <2>6, <2>8, <2>10, <2>11 DEF PS!ProcessorInv, PS!TypeOK
  <1> QED BY <1>1, <1>2 DEF PS!Next
-----------------------------------------------------------------------------
(***************************************************************************)
(* Two-Level-Cache-System.c, for any sizes of the two caches and a block.  *)
(***************************************************************************)

CONSTANTS L1Size, L2Size, BlockSize, MemorySize, MaxAccesses, Addresses
VARIABLES tl_l1_cache, tl_l2_cache, tl_l1_hits, tl_l1_misses, tl_l2_hits, tl_l2_misses, tl_last

TL == INSTANCE TwoLevelCache WITH
        l1_cache <- tl_l1_cache, l2_cache <- tl_l2_cache, l1_hits <- tl_l1_hits,
        l1_misses <- tl_l1_misses, l2_hits <- tl_l2_hits, l2_misses <- tl_l2_misses,
        last <- tl_last

ASSUME CacheAssumption == TL!CacheConstants

\* A hit returns the block of the address.
LEMMA HitIsRight ==
    ASSUME NEW cache, NEW size \in Nat \ {0}, TL!LinesAreRight(cache, size), TL!CacheConstants,
           NEW a \in Addresses, TL!check_cache(cache, size, a)
    PROVE  TL!Data(cache, size, a) = TL!Block(a)
  <1>1. TL!Block(a) \in Nat
    BY Zenon, Division DEF TL!CacheConstants, TL!Block
  <1>2. TL!Block(a) % size \in 0 .. size - 1
    BY Zenon, <1>1, Division
  <1> QED BY Zenon, <1>1, <1>2 DEF TL!LinesAreRight, TL!check_cache, TL!Data, TL!calculate_tag,
             TL!calculate_index

\* A line that is filled with the block of an address is right, and is hit by
\* the next access to that address.
LEMMA FillIsRight ==
    ASSUME NEW cache, NEW size \in Nat \ {0}, TL!LinesAreRight(cache, size), TL!CacheConstants,
           NEW a \in Addresses
    PROVE  LET new == TL!update_cache(cache, size, a, TL!Block(a))
           IN TL!LinesAreRight(new, size) /\ TL!check_cache(new, size, a)
  <1> DEFINE b == TL!Block(a)
             k == b % size
             t == b \div size
             new == [cache EXCEPT ![k] = [tag |-> t, data |-> b, valid |-> TRUE]]
  <1>1. b \in Nat
    BY Zenon, Division DEF TL!CacheConstants, TL!Block
  <1>2. /\ k \in 0 .. size - 1 /\ t \in Nat
        /\ \A c \in Nat : t = c \div size /\ k = c % size => b = c
    BY Zenon, <1>1, Division
  <1> HIDE DEF b, k, t
  <1>3. /\ new \in [0 .. size - 1 -> TL!Line] /\ new[k].valid /\ new[k].tag = t /\ new[k].data = b
        /\ \A i \in 0 .. size - 1 :
              new[i] = IF i = k THEN [tag |-> t, data |-> b, valid |-> TRUE] ELSE cache[i]
    BY Zenon, <1>1, <1>2 DEF TL!LinesAreRight, TL!Line
  <1>4. new = TL!update_cache(cache, size, a, TL!Block(a))
    BY Zenon DEF TL!update_cache, TL!calculate_tag, TL!calculate_index, b, k, t
  <1> HIDE DEF new
  <1>5. ASSUME NEW i \in 0 .. size - 1, NEW c \in Nat,
               new[i].valid, new[i].tag = c \div size, i = c % size
        PROVE  new[i].data = c
    <2>1. CASE i = k
      <3>1. b = c
        BY Zenon, <1>2, <1>3, <1>5, <2>1
      <3>2. new[i].data = b
        BY Zenon, <1>3, <2>1
      <3> QED BY Zenon, <3>1, <3>2
    <2>2. CASE i # k
      BY Zenon, <1>3, <1>5, <2>2 DEF TL!LinesAreRight
    <2> QED BY Zenon, <2>1, <2>2
  <1>6. TL!check_cache(new, size, a)
    BY Zenon, <1>3 DEF TL!check_cache, TL!calculate_tag, TL!calculate_index, b, k, t
  <1> QED BY <1>3, <1>4, <1>5, <1>6 DEF TL!LinesAreRight

\* Initially no line is valid and nothing was accessed.
LEMMA CacheStart == TL!CacheConstants /\ TL!Init => TL!CacheInv
  BY DEF TL!CacheConstants, TL!Init, TL!CacheInv, TL!LinesAreRight, TL!LastIsRight, TL!Line,
     TL!Invalid

\* An access served by either cache or by the memory keeps both caches right.
LEMMA CacheStep == TL!CacheConstants /\ TL!CacheInv /\ [TL!Next]_(TL!vars) => TL!CacheInv'
  <1> SUFFICES ASSUME TL!CacheConstants, TL!CacheInv, [TL!Next]_(TL!vars)
               PROVE  TL!CacheInv'
    OBVIOUS
  <1>1. CASE UNCHANGED TL!vars
    BY <1>1 DEF TL!vars, TL!CacheInv, TL!LinesAreRight, TL!LastIsRight, TL!check_cache
  <1>2. ASSUME NEW a \in Addresses, TL!memory_access(a)
        PROVE  TL!CacheInv'
    <2>1. /\ TL!LinesAreRight(tl_l1_cache, L1Size) /\ TL!LinesAreRight(tl_l2_cache, L2Size)
          /\ L1Size \in Nat \ {0} /\ L2Size \in Nat \ {0}
      BY Zenon DEF TL!CacheInv, TL!CacheConstants
    <2>2. CASE TL!L1Hit(a)
      BY Zenon, <2>1, <2>2, HitIsRight DEF TL!L1Hit, TL!CacheInv, TL!LastIsRight
    <2>3. CASE TL!L2Hit(a)
      <3>1. tl_l1_cache' = TL!update_cache(tl_l1_cache, L1Size, a, TL!Block(a)) /\ UNCHANGED tl_l2_cache
        BY Zenon, <2>1, <2>3, HitIsRight DEF TL!L2Hit, TL!FillL1
      <3>2. tl_last' = [address |-> a, data |-> TL!Block(a)]
        BY Zenon, <2>1, <2>3, HitIsRight DEF TL!L2Hit
      <3>3. TL!LinesAreRight(tl_l1_cache', L1Size) /\ TL!check_cache(tl_l1_cache', L1Size, a)
        BY Zenon, <2>1, <3>1, FillIsRight
      <3> QED BY Zenon, <2>1, <3>1, <3>2, <3>3 DEF TL!CacheInv, TL!LastIsRight
    <2>4. CASE TL!MemoryAccess(a) /\ UNCHANGED <<tl_l1_cache, tl_l2_cache, tl_last>>
      BY Zenon, <2>4 DEF TL!CacheInv, TL!LastIsRight
    <2>5. CASE TL!MemoryAccess(a) /\ ~ UNCHANGED <<tl_l1_cache, tl_l2_cache, tl_last>>
      <3>1. /\ tl_l1_cache' = TL!update_cache(tl_l1_cache, L1Size, a, TL!Block(a))
            /\ tl_l2_cache' = TL!update_cache(tl_l2_cache, L2Size, a, TL!Block(a))
            /\ tl_last' = [address |-> a, data |-> TL!Block(a)]
        BY Zenon, <2>5 DEF TL!MemoryAccess, TL!FillL1
      <3>2. /\ TL!LinesAreRight(tl_l1_cache', L1Size) /\ TL!check_cache(tl_l1_cache', L1Size, a)
            /\ TL!LinesAreRight(tl_l2_cache', L2Size)
        BY Zenon, <2>1, <3>1, FillIsRight
      <3> QED BY Zenon, <3>1, <3>2 DEF TL!CacheInv, TL!LastIsRight
    <2> QED BY Zenon, <1>2, <2>2, <2>3, <2>4, <2>5 DEF TL!memory_access
  <1> QED BY Zenon, <1>1, <1>2 DEF TL!Next

\* What the invariant says of the last access.
LEMMA CacheGives == TL!CacheConstants /\ TL!CacheInv => TL!GetsItsBlock /\ TL!LastIsInL1
  <1>1. CASE tl_last = [address |-> -1]
    <2>1. tl_last.address = -1
      BY Zenon, <1>1
    <2> QED BY Zenon, <2>1 DEF TL!GetsItsBlock, TL!LastIsInL1
  <1>2. ASSUME NEW a, tl_last = [address |-> a, data |-> TL!Block(a)], TL!check_cache(tl_l1_cache, L1Size, a)
        PROVE  TL!GetsItsBlock /\ TL!LastIsInL1
    <2>1. tl_last.address = a /\ tl_last.data = TL!Block(a)
      BY Zenon, <1>2
    <2> QED BY Zenon, <1>2, <2>1 DEF TL!GetsItsBlock, TL!LastIsInL1
  <1> QED BY Zenon, <1>1, <1>2 DEF TL!CacheInv, TL!LastIsRight
-----------------------------------------------------------------------------
(***************************************************************************)
(* databaseOperationWithMMAP.c: what a kill of the process cannot do to    *)
(* the mapped table, for every table size and every sequence of inserts.   *)
(***************************************************************************)

CONSTANTS MaxRecords, Ids, Inserts, Sought
VARIABLES md_sized, md_record_count, md_id, md_name, md_pc, md_k, md_found

MD == INSTANCE MmapDatabase WITH
        sized <- md_sized, record_count <- md_record_count, id <- md_id, name <- md_name,
        pc <- md_pc, k <- md_k, found <- md_found

ASSUME RecordsAssumption == /\ MaxRecords \in Nat \ {0} /\ Ids \subseteq Nat \ {0}
                            /\ Inserts \in Seq(Ids) /\ Sought \in Nat

\* The record an insert stores has one of the ids.
LEMMA InsertsAreIds == \A n \in 1 .. Len(Inserts) : Inserts[n] \in Ids
BY RecordsAssumption

\* The state of a new file satisfies the inductive invariant.
LEMMA RecordsStart == MD!Init => MD!IInv
BY RecordsAssumption DEF MD!Init, MD!IInv, MD!TypeOK, MD!CountedIsComplete, MD!InsertUnderWay,
   MD!Slots

\* The search leaves in found an index of the table or -1.
LEMMA FindIsIndex == MD!IInv /\ MD!find_record => md_found' \in {-1} \cup MD!Slots
<1>1. SUFFICES ASSUME MD!IInv, MD!find_record, MD!Matches # {}
               PROVE  md_found' \in MD!Slots
    BY Zenon DEF MD!find_record
<1>2. MD!Matches \subseteq MD!Slots
    BY RecordsAssumption, <1>1 DEF MD!IInv, MD!TypeOK, MD!Matches, MD!Slots
<1>3. md_found' = CHOOSE s \in MD!Matches : \A r \in MD!Matches : s <= r
    BY <1>1 DEF MD!find_record
<1>4. \E s \in MD!Matches : \A r \in MD!Matches : s <= r
  <2>1. MD!Matches \subseteq Nat
    BY SMTT(30), RecordsAssumption, <1>2 DEF MD!Slots
  <2> QED
    BY <1>1, <2>1, SmallestExists, Zenon
<1> QED
    BY Zenon, <1>2, <1>3, <1>4

\* Every step of the program, and its being killed, keeps the invariant.
LEMMA RecordsStep == MD!IInv /\ [MD!Next]_(MD!vars) => MD!IInv'
<1> SUFFICES ASSUME MD!IInv, [MD!Next]_(MD!vars)
             PROVE  MD!IInv'
    BY Zenon
<1> USE RecordsAssumption DEF MD!IInv, MD!TypeOK, MD!CountedIsComplete, MD!InsertUnderWay, MD!Slots
<1>1. CASE MD!map_file
  <2>1. md_sized' \in BOOLEAN
    BY <1>1, Zenon DEF MD!map_file
  <2>2. Len(Inserts) \in Nat
    OBVIOUS
  <2>3. UNCHANGED <<md_record_count, md_id, md_name, md_found>> /\ md_pc' \in {"off", "insert"} /\ md_k' \in {md_k, 1}
    BY Zenon, <1>1 DEF MD!map_file, MD!db
  <2> QED
    BY <2>1, <2>2, <2>3
<1>2. CASE MD!insert_check
    BY SMTT(30), <1>2 DEF MD!insert_check, MD!db
<1>3. CASE MD!insert_id
    BY SMTT(30), <1>3, InsertsAreIds DEF MD!insert_id
<1>4. CASE MD!insert_name
    BY SMTT(30), <1>4, InsertsAreIds DEF MD!insert_name
<1>5. CASE MD!insert_count
    BY SMTT(30), <1>5, InsertsAreIds DEF MD!insert_count
<1>6. CASE MD!find_record
    BY Zenon, <1>6, FindIsIndex DEF MD!find_record, MD!db
<1>7. CASE MD!Stop
    BY Zenon, <1>7 DEF MD!Stop, MD!db
<1>8. CASE UNCHANGED MD!vars
    BY SMTT(30), <1>8 DEF MD!vars
<1> QED
    BY Zenon, <1>1, <1>2, <1>3, <1>4, <1>5, <1>6, <1>7, <1>8 DEF MD!Next, MD!Insert

\* No step of insert_record, nor a later run, changes a record that counts.
LEMMA RecordsKept == MD!IInv /\ [MD!Next]_(MD!vars) => [MD!CountedStep]_(MD!vars)
<1> SUFFICES ASSUME MD!IInv, MD!Next
             PROVE  MD!CountedStep
    BY Zenon
<1> USE DEF MD!IInv, MD!TypeOK, MD!CountedStep
<1>1. CASE MD!insert_id
    BY <1>1 DEF MD!insert_id, MD!Slots
<1>2. CASE MD!insert_name
    BY <1>2 DEF MD!insert_name, MD!Slots
<1>3. CASE MD!insert_count
    BY <1>3 DEF MD!insert_count
<1>4. CASE UNCHANGED MD!db
    BY <1>4 DEF MD!db
<1> QED
    BY Zenon, <1>1, <1>2, <1>3, <1>4 DEF MD!Next, MD!Insert, MD!map_file, MD!insert_check,
       MD!find_record, MD!Stop, MD!db
-----------------------------------------------------------------------------
(***************************************************************************)
(* memoryController.c, for any number of sets, ways and lines.             *)
(***************************************************************************)

CONSTANTS NumSets, Ways, MemoryLines, LineData, MaxUses
VARIABLES mc_main_memory, mc_cache, mc_replacement_policy, mc_clock, mc_outside

MC == INSTANCE MemoryController WITH
        Data <- LineData, MaxTime <- MaxUses,
        main_memory <- mc_main_memory, cache <- mc_cache, clock <- mc_clock,
        replacement_policy <- mc_replacement_policy, outside <- mc_outside

ASSUME ControllerAssumption == MC!ControllerConstants

\* The first way of a set of ways is one of them.
LEMMA WayOfMin ==
    ASSUME MC!ControllerConstants, NEW S, S \subseteq MC!Way, S # {}
    PROVE  MC!Min(S) \in S
  <1>1. S \subseteq Nat
    BY SMTT(30) DEF MC!ControllerConstants, MC!Way
  <1> QED BY Zenon, <1>1, ChosenIsSmallest DEF MC!Min

\* The cache starts empty.
LEMMA ControllerStart == MC!ControllerConstants /\ MC!Init => MC!ControllerInv
  BY DEF MC!ControllerConstants, MC!Init, MC!MemoryController_new, MC!ControllerInv, MC!TypeOK,
     MC!OneCopy, MC!Lines, MC!Sets,
         MC!Way, MC!CacheLine, MC!NULL

\* The victim is a way of the set.
LEMMA VictimIsWay ==
    ASSUME MC!ControllerConstants, MC!ControllerInv, NEW s \in MC!Sets
    PROVE  MC!Victims(s) \subseteq MC!Way
  <1> DEFINE used == {mc_cache[s][w].last_used : w \in MC!Way}
             oldest == {w \in MC!Way : \A v \in MC!Way : mc_cache[s][w].last_used <= mc_cache[s][v].last_used}
  <1>1. \A w \in MC!Way : mc_cache[s][w].last_used \in Nat
    BY DEF MC!ControllerInv, MC!TypeOK, MC!CacheLine, MC!NULL, MC!ControllerConstants
  <1>2. 0 \in MC!Way
    BY DEF MC!Way, MC!ControllerConstants
  <1>3. used \subseteq Nat /\ used # {}
    BY Zenon, <1>1, <1>2
  <1>4. PICK u \in used : \A t \in used : u <= t
    BY Zenon, <1>3, SmallestExists
  <1>5. oldest # {} /\ oldest \subseteq MC!Way
    BY SMTT(30), <1>4
  <1>6. MC!Min(oldest) \in MC!Way
    BY Zenon, <1>5, WayOfMin
  <1> QED BY Zenon, <1>6 DEF MC!Victims

\* The set of a line is one of the cache's.
LEMMA SetOfLine == MC!ControllerConstants => \A a \in MC!Lines : MC!SetOf(a) \in MC!Sets
  BY DEF MC!ControllerConstants, MC!Lines, MC!Sets, MC!SetOf

\* A hit changes one line in place and keeps its tag.
LEMMA LineHitKeeps ==
    ASSUME MC!ControllerConstants, MC!ControllerInv, NEW a \in MC!Lines, NEW mode, NEW d \in LineData,
           mc_clock \in 0 .. MaxUses, MC!Hit(a, mode, d)
    PROVE  mc_cache' \in [MC!Sets -> [MC!Way -> MC!CacheLine \cup {MC!NULL}]] /\ MC!OneCopy'
  <1> DEFINE s == MC!SetOf(a)
             w == MC!Min(MC!Hits(a))
  <1>1. s \in MC!Sets
    BY Zenon, SetOfLine
  <1>2. w \in MC!Way /\ mc_cache[s][w].tag = a
    BY Zenon, WayOfMin DEF MC!Hit, MC!Hits
  <1> HIDE DEF s, w
  <1>3. mc_cache[s][w] \in MC!CacheLine
    BY <1>1, <1>2 DEF MC!ControllerInv, MC!TypeOK, MC!NULL, MC!Lines
  <1>4. PICK new \in MC!CacheLine : new.tag = a /\ mc_cache' = [mc_cache EXCEPT ![s][w] = new]
    <2> DEFINE new == IF mode = "Read" THEN [mc_cache[s][w] EXCEPT !.last_used = mc_clock]
                      ELSE [mc_cache[s][w] EXCEPT !.last_used = mc_clock, !.data = d, !.dirty = TRUE]
    <2>1. new \in MC!CacheLine /\ new.tag = a
      BY Zenon, <1>2, <1>3 DEF MC!CacheLine
    <2>2. mc_cache' = [mc_cache EXCEPT ![s][w] = new]
      BY Zenon, <1>1, <1>2 DEF MC!ControllerInv, MC!TypeOK, MC!Hit, s, w
    <2> QED BY Zenon, <2>1, <2>2
  <1>5. new # MC!NULL /\ MC!SetOf(new.tag) = s
    BY <1>4 DEF MC!NULL, MC!Lines, s
  <1>6. \A t \in MC!Sets, v \in MC!Way : mc_cache'[t][v] = IF t = s /\ v = w THEN new ELSE mc_cache[t][v]
    BY Zenon, <1>1, <1>2, <1>4 DEF MC!ControllerInv, MC!TypeOK
  <1>7. mc_cache' \in [MC!Sets -> [MC!Way -> MC!CacheLine \cup {MC!NULL}]]
    BY Zenon, <1>1, <1>2, <1>4 DEF MC!ControllerInv, MC!TypeOK
  <1>8. mc_cache[s][w] # MC!NULL
    BY SMTT(30), <1>2 DEF MC!NULL, MC!Lines
  <1>9. MC!OneCopy'
    BY SMTT(30), <1>1, <1>2, <1>4, <1>5, <1>6, <1>8 DEF MC!ControllerInv, MC!OneCopy
  <1> QED BY Zenon, <1>7, <1>9

\* A miss puts into one way of the set a line that no way of it has.
LEMMA LineMissKeeps ==
    ASSUME MC!ControllerConstants, MC!ControllerInv, NEW a \in MC!Lines, NEW mode, NEW d \in LineData,
           MC!Miss(a, mode, d)
    PROVE  /\ mc_cache' \in [MC!Sets -> [MC!Way -> MC!CacheLine \cup {MC!NULL}]] /\ MC!OneCopy'
           /\ mc_main_memory' \in [MC!Lines -> LineData]
  <1> DEFINE s == MC!SetOf(a)
  <1>1. s \in MC!Sets
    BY Zenon, SetOfLine
  <1>2. PICK w \in IF MC!Empty(s) # {} THEN {MC!Min(MC!Empty(s))} ELSE MC!Victims(s), new \in MC!CacheLine :
           /\ new.tag = a /\ mc_cache' = [mc_cache EXCEPT ![s][w] = new]
           /\ IF mc_cache[s][w] = MC!NULL THEN UNCHANGED <<mc_main_memory, mc_outside>>
              ELSE MC!Evict(mc_cache[s][w], s)
    <2>1. PICK w \in IF MC!Empty(s) # {} THEN {MC!Min(MC!Empty(s))} ELSE MC!Victims(s),
               dirty \in BOOLEAN, last_used \in {0, MaxUses} :
             /\ mc_cache' = [mc_cache EXCEPT ![s][w] =
                  [tag |-> a, data |-> IF mode = "Read" THEN mc_main_memory[a] ELSE d,
                   dirty |-> dirty, last_used |-> last_used]]
             /\ IF mc_cache[s][w] = MC!NULL THEN UNCHANGED <<mc_main_memory, mc_outside>>
                ELSE MC!Evict(mc_cache[s][w], s)
      BY Zenon DEF MC!Miss
    <2>2. [tag |-> a, data |-> IF mode = "Read" THEN mc_main_memory[a] ELSE d,
           dirty |-> dirty, last_used |-> last_used] \in MC!CacheLine
      BY DEF MC!CacheLine, MC!ControllerInv, MC!TypeOK, MC!ControllerConstants
    <2> QED BY Zenon, <2>1, <2>2
  <1>3. w \in MC!Way
    <2>1. MC!Empty(s) \subseteq MC!Way
      BY Zenon DEF MC!Empty
    <2> QED BY Zenon, <1>1, <1>2, <2>1, WayOfMin, VictimIsWay
  <1>4. \A v \in MC!Way : mc_cache[s][v].tag # a
    BY Zenon DEF MC!Miss, MC!Hits
  <1>5. new # MC!NULL /\ MC!SetOf(new.tag) = s
    BY SMTT(30), <1>2 DEF MC!NULL, MC!Lines
  <1> HIDE DEF s
  <1>6. \A t \in MC!Sets, v \in MC!Way : mc_cache'[t][v] = IF t = s /\ v = w THEN new ELSE mc_cache[t][v]
    BY Zenon, <1>1, <1>2, <1>3 DEF MC!ControllerInv, MC!TypeOK
  <1>7. mc_cache' \in [MC!Sets -> [MC!Way -> MC!CacheLine \cup {MC!NULL}]]
    BY Zenon, <1>1, <1>2, <1>3 DEF MC!ControllerInv, MC!TypeOK
  <1>8. MC!OneCopy'
    BY SMTT(30), <1>1, <1>2, <1>3, <1>4, <1>5, <1>6 DEF MC!ControllerInv, MC!OneCopy
  <1>9. mc_main_memory' \in [MC!Lines -> LineData]
    <2>1. mc_main_memory \in [MC!Lines -> LineData] /\ mc_cache[s][w] \in MC!CacheLine \cup {MC!NULL}
      BY Zenon, <1>1, <1>3 DEF MC!ControllerInv, MC!TypeOK
    <2>2. mc_cache[s][w] # MC!NULL => mc_cache[s][w].data \in LineData
      BY Zenon, <2>1 DEF MC!CacheLine
    <2> QED BY Zenon, <1>2, <2>1, <2>2 DEF MC!Evict
  <1> QED BY Zenon, <1>7, <1>8, <1>9

\* Every access and every change of the policy keeps one copy of a line.
LEMMA ControllerStep == MC!ControllerConstants /\ MC!ControllerInv /\ [MC!Next]_(MC!vars) => MC!ControllerInv'
  <1> SUFFICES ASSUME MC!ControllerConstants, MC!ControllerInv, [MC!Next]_(MC!vars)
               PROVE  MC!ControllerInv'
    OBVIOUS
  <1>1. CASE UNCHANGED MC!vars
    BY Zenon, <1>1 DEF MC!vars, MC!ControllerInv, MC!TypeOK, MC!OneCopy
  <1>2. ASSUME NEW policy \in {"LRU", "Random"}, MC!MemoryController_setReplacementPolicy(policy)
        PROVE  MC!ControllerInv'
    BY Zenon, <1>2 DEF MC!MemoryController_setReplacementPolicy, MC!ControllerInv, MC!TypeOK,
       MC!OneCopy
  <1>3. ASSUME NEW a \in MC!Lines, NEW mode \in {"Read", "Write"}, NEW d \in LineData,
               MC!MemoryController_access(a, mode, d)
        PROVE  MC!ControllerInv'
    <2>1. mc_clock \in 0 .. MaxUses /\ mc_clock' \in 0 .. MaxUses
      BY <1>3 DEF MC!MemoryController_access, MC!ControllerInv, MC!TypeOK, MC!ControllerConstants
    <2>2. mc_replacement_policy' \in {"LRU", "Random"}
      BY Zenon, <1>3 DEF MC!MemoryController_access, MC!ControllerInv, MC!TypeOK
    <2>3. CASE MC!Hit(a, mode, d)
      BY Zenon, <2>1, <2>2, <2>3, LineHitKeeps DEF MC!Hit, MC!ControllerInv, MC!TypeOK
    <2>4. CASE MC!Miss(a, mode, d)
      BY Zenon, <2>1, <2>2, <2>4, LineMissKeeps DEF MC!ControllerInv, MC!TypeOK
    <2> QED BY Zenon, <1>3, <2>3, <2>4 DEF MC!MemoryController_access
  <1> QED BY Zenon, <1>1, <1>2, <1>3 DEF MC!Next
-----------------------------------------------------------------------------
(***************************************************************************)
(* pageTable.c as main uses it and as any caller may, and whyNotUseOS.c    *)
(* with one page held at a time and with several: each has two instances,  *)
(* whose lemmas are in the modules themselves.                             *)
(***************************************************************************)
CONSTANTS VirtualPages, PhysicalFrames, FewFrames, Offsets, TlbSize, Values, FewValues
VARIABLES pt_page_table, pt_dirty, pt_tlb, pt_physical_memory, pt_last, pt_result

PT == INSTANCE PageTable WITH
        Pages <- VirtualPages, Frames <- PhysicalFrames, AsMain <- TRUE,
        page_table <- pt_page_table, dirty <- pt_dirty, tlb <- pt_tlb,
        physical_memory <- pt_physical_memory, last <- pt_last, result <- pt_result
PU == INSTANCE PageTable WITH
        Pages <- VirtualPages, Frames <- FewFrames, Values <- FewValues, AsMain <- FALSE,
        page_table <- pt_page_table, dirty <- pt_dirty, tlb <- pt_tlb,
        physical_memory <- pt_physical_memory, last <- pt_last, result <- pt_result

ASSUME PagingAssumption ==
    PT!PagingSizes /\ PT!EnoughFrames /\ PU!PagingSizes

CONSTANTS LruSize, LruPages, LruFile, LruVersions, LruTime,
          PinSize, PinPages, PinFile, PinHeld, PinTime
VARIABLES lp_page_id, lp_data, lp_dirty, lp_pin_count, lp_last_access, lp_disk,
          lp_size, lp_held, lp_latest, lp_now, lp_open
VARIABLES lq_page_id, lq_data, lq_dirty, lq_pin_count, lq_last_access, lq_disk,
          lq_size, lq_held, lq_latest, lq_now, lq_open

LP == INSTANCE LruBufferPool WITH
        PoolSize <- LruSize, Pages <- LruPages, FileSize <- LruFile, MaxHeld <- 1,
        MaxVersion <- LruVersions, MaxTime <- LruTime, page_id <- lp_page_id,
        data <- lp_data, dirty <- lp_dirty, pin_count <- lp_pin_count,
        last_access <- lp_last_access, disk <- lp_disk, size <- lp_size,
        held <- lp_held, latest <- lp_latest, now <- lp_now, open <- lp_open
LQ == INSTANCE LruBufferPool WITH
        PoolSize <- PinSize, Pages <- PinPages, FileSize <- PinFile, MaxHeld <- PinHeld,
        MaxVersion <- 0, MaxTime <- PinTime, page_id <- lq_page_id, data <- lq_data,
        dirty <- lq_dirty, pin_count <- lq_pin_count, last_access <- lq_last_access,
        disk <- lq_disk, size <- lq_size, held <- lq_held, latest <- lq_latest,
        now <- lq_now, open <- lq_open

ASSUME LruAssumption == LP!LruSizes /\ LP!OneAtATime /\ LQ!LruSizes
-----------------------------------------------------------------------------
(***************************************************************************)
(* The suite.                                                              *)
(***************************************************************************)

\* The pipeline's programs of four instructions: additions on two registers, and
\* an instruction that is none.
OtherInst == [opcode |-> "other", rd |-> 0, rs |-> 0, rt |-> 0]
PipelinePrograms ==
    [0 .. 3 -> [opcode : {"ADD"}, rd : {0, 1}, rs : {0, 1}, rt : {0, 1}] \cup {OtherInst}]
PipelineStarts == {[r \in {0, 1} |-> r + 1]}

\* The processor's instructions: every operation on the registers 0 .. 2, with
\* results in 1 and 2.
SmallInstructions ==
    {((op * 4 + rd) * 4 + rs1) * 8 + rs2 * 2 :
        op \in 0 .. 7, rd \in 1 .. 2, rs1 \in 0 .. 2, rs2 \in 1 .. 2}

\* The three records of main.
MCInserts == <<1, 2, 3>>

TLvars == <<tl_l1_cache, tl_l2_cache, tl_l1_hits, tl_l1_misses, tl_l2_hits,
            tl_l2_misses, tl_last>>
MCvars == <<mc_main_memory, mc_cache, mc_replacement_policy, mc_clock, mc_outside>>
PPvars == <<pp_programCounter, pp_registers, pp_memory, pp_pipeline, pp_start, pp_cycle>>
PSvars == <<ps_registers, ps_flags, ps_pc, ps_last>>
PTvars == <<pt_page_table, pt_dirty, pt_tlb, pt_physical_memory, pt_last, pt_result>>
MMvars == <<mm_pin_count, mm_page_table, mm_asid, mm_tlb, mm_current_asid, mm_next_asid,
            mm_released>>
MDvars == <<md_sized, md_record_count, md_id, md_name, md_pc, md_k, md_found>>
BMvars == <<bm_page_id, bm_is_dirty, bm_pin_count, bm_reference_bits, bm_page_table,
            bm_free_list, bm_clock_hand, bm_written, bm_spinning>>
LPvars == <<lp_page_id, lp_data, lp_dirty, lp_pin_count, lp_last_access, lp_disk,
            lp_size, lp_held, lp_latest, lp_now, lp_open>>
LQvars == <<lq_page_id, lq_data, lq_dirty, lq_pin_count, lq_last_access, lq_disk,
            lq_size, lq_held, lq_latest, lq_now, lq_open>>
MAvars == <<ma_heap, ma_live>>

HardwareVars == <<TLvars, MCvars, PPvars, PSvars, PTvars, MMvars>>
StorageVars == <<MDvars, BMvars, LPvars, LQvars, MAvars>>

\* The programs are independent: a behaviour is one of one program, and the
\* others stay in an initial state.
SuiteInit ==
    /\ program \in {"two_level_cache", "memory_controller", "pipeline",
                    "processor_sim", "page_table", "page_table_any", "asid_mmu",
                    "mmap", "buffer_manager", "lru_pool",
                    "lru_pins", "mem_alloc"}
    /\ TL!Init
    /\ MC!Init
    /\ \/ program = "pipeline"
       \/ program # "pipeline" /\ pp_memory = [addr \in 0 .. ProgramSize - 1 |-> OtherInst]
    /\ PP!Init
    /\ PS!Init
    /\ IF program = "page_table_any" THEN PU!Init ELSE PT!Init
    /\ MM!Init
    /\ MD!Init
    /\ BM!Init
    /\ LP!Init
    /\ LQ!Init
    /\ MA!Init

HardwareNext ==
    \/ /\ program = "two_level_cache" /\ TL!Next
       /\ UNCHANGED <<MCvars, PPvars, PSvars, PTvars, MMvars>>
    \/ /\ program = "memory_controller" /\ MC!Next
       /\ UNCHANGED <<TLvars, PPvars, PSvars, PTvars, MMvars>>
    \/ /\ program = "pipeline" /\ PP!Next
       /\ UNCHANGED <<TLvars, MCvars, PSvars, PTvars, MMvars>>
    \/ /\ program = "processor_sim" /\ PS!Next
       /\ UNCHANGED <<TLvars, MCvars, PPvars, PTvars, MMvars>>
    \/ /\ program = "page_table" /\ PT!Next
       /\ UNCHANGED <<TLvars, MCvars, PPvars, PSvars, MMvars>>
    \/ /\ program = "page_table_any" /\ PU!Next
       /\ UNCHANGED <<TLvars, MCvars, PPvars, PSvars, MMvars>>
    \/ /\ program = "asid_mmu" /\ MM!Next
       /\ UNCHANGED <<TLvars, MCvars, PPvars, PSvars, PTvars>>

StorageNext ==
    \/ /\ program = "mmap" /\ MD!Next
       /\ UNCHANGED <<BMvars, LPvars, LQvars, MAvars>>
    \/ /\ program = "buffer_manager" /\ BM!Next
       /\ UNCHANGED <<MDvars, LPvars, LQvars, MAvars>>
    \/ /\ program = "lru_pool" /\ LP!Next
       /\ UNCHANGED <<MDvars, BMvars, LQvars, MAvars>>
    \/ /\ program = "lru_pins" /\ LQ!Next
       /\ UNCHANGED <<MDvars, BMvars, LPvars, MAvars>>
    \/ /\ program = "mem_alloc" /\ MA!Next
       /\ UNCHANGED <<MDvars, BMvars, LPvars, LQvars>>

SuiteNext ==
    /\ UNCHANGED program
    /\ \/ HardwareNext /\ UNCHANGED StorageVars
       \/ StorageNext /\ UNCHANGED HardwareVars

suite_vars == <<program, HardwareVars, StorageVars>>

SuiteSpec == SuiteInit /\ [][SuiteNext]_suite_vars
-----------------------------------------------------------------------------
\* Copies agree with what they are copies of: Two-Level-Cache-System.c gives every
\* access the block of its address and keeps it in L1, memoryController.c has one copy
\* of a line at most, and the TLB of pageTable.c holds what a translation gives.
CachesAgree ==
    /\ program = "two_level_cache" => TL!GetsItsBlock /\ TL!LastIsInL1
    /\ program = "memory_controller" => MC!TypeOK /\ MC!OneCopy
    /\ program = "page_table" => PT!TlbAgrees
    /\ program = "page_table_any" => PU!TlbAgrees

\* pageFlush.c: a flush of one TLB entry leaves no valid one behind, the TLB agrees
\* with the page tables, a frame has two pages only after it was unpinned, and two
\* processes share an ASID only when all ASIDs are given away.
FlushReaches ==
    program = "asid_mmu" =>
        /\ MM!TypeOK /\ MM!FlushReaches /\ MM!TlbAgrees
        /\ MM!FramesExclusive /\ MM!SharedOnlyWhenTaken

\* cpu.c: the pipeline computes what programs without close dependencies say;
\* processor_sim.c: the carry flag is that of full precision.
ExecutesRight ==
    /\ program = "pipeline" => PP!TypeOK /\ PP!IsSequential
    /\ program = "processor_sim" => PS!TypeOK /\ PS!CarryIsRight

\* pageTable.c, used as main uses it: a read returns what was written last.
ReadsLastWritten == program = "page_table" => PT!ReadsLastWritten

\* databaseOperationWithMMAP.c: wherever the process is killed, the records below
\* record_count are whole, with the id and the name of one insert.
CountedIsComplete == MD!TypeOK /\ MD!CountedIsComplete

\* databaseOperationWithMMAP.c: a record that counts is never changed, nor uncounted.
CountedStays == MD!CountedStays

\* CustomBufferManagementSystem.c: the page table finds each page in the one frame
\* that holds it, and fetch_page spins only when all frames are pinned.
TableMatchesFrames ==
    program = "buffer_manager" =>
        BM!TypeOK /\ BM!TableMatchesFrames /\ BM!SpinsOnlyIfAllPinned

\* CustomBufferManagementSystem.c: a dirty page is written before it is dropped.
DirtyIsWritten == BM!DirtyIsWritten

\* In both pools a pinned frame keeps its page (in whyNotUseOS.c all but frame 0,
\* on which find_lru_page falls back), and in mem_alloc.c a block that is held stays
\* where it is.
HeldStay == BM!PinnedStays /\ LQ!PinnedStays /\ MA!HeldStays

\* whyNotUseOS.c, while callers hold one page at a time: no update is lost, clean
\* frames match the file, and no page is in two frames.
NoLostUpdate ==
    /\ program = "lru_pool" => LP!TypeOK /\ LP!NoLostUpdate /\ LP!CleanMatchesFile
    /\ program = "lru_pins" => LQ!OneFramePerPage

\* mem_alloc.c: blocks tile the pool, free neighbours are merged, and what callers
\* hold is reserved for them.
BlocksTile ==
    program = "mem_alloc" =>
        MA!TypeOK /\ MA!Tiling /\ MA!Coalesced /\ MA!HeldIsReserved
-----------------------------------------------------------------------------
(***************************************************************************)
(* The properties, for all values of the constants.                        *)
(***************************************************************************)

\* A step of the suite is a step of the hardware or of the storage, or none.
LEMMA SuiteStep ==
    ASSUME [SuiteNext]_suite_vars
    PROVE  /\ program' = program
           /\ \/ HardwareNext /\ UNCHANGED StorageVars
              \/ StorageNext /\ UNCHANGED HardwareVars
              \/ UNCHANGED HardwareVars /\ UNCHANGED StorageVars
BY Zenon DEF SuiteNext, suite_vars

\* So it is a step of each cache, each processor and pageFlush.c, or leaves it alone.
LEMMA HardwareFrame ==
    ASSUME [SuiteNext]_suite_vars
    PROVE  /\ [TL!Next]_(TL!vars) /\ [MC!Next]_(MC!vars) /\ [PP!Next]_(PP!vars)
           /\ [PS!Next]_(PS!vars) /\ [MM!Next]_(MM!vars)
BY Zenon, SuiteStep DEF HardwareNext, HardwareVars, TLvars, TL!vars, MCvars, MC!vars, PPvars,
   PP!vars,
                 PSvars, PS!vars, MMvars, MM!vars

\* The same for the two ways to use the page table.
LEMMA PagingFrame ==
    ASSUME [SuiteNext]_suite_vars
    PROVE  /\ program = "page_table" => [PT!Next]_(PT!vars)
           /\ program = "page_table_any" => [PU!Next]_(PU!vars)
BY Zenon, SuiteStep DEF HardwareNext, HardwareVars, PTvars, PT!vars, PU!vars

\* The same for the database, the allocator and the buffer pools.
LEMMA StorageFrame ==
    ASSUME [SuiteNext]_suite_vars
    PROVE  /\ [MD!Next]_(MD!vars) /\ [MA!Next]_(MA!vars)
           /\ [BM!Next]_(BM!vars) /\ [LP!Next]_(LP!vars) /\ [LQ!Next]_(LQ!vars)
BY Zenon, SuiteStep DEF StorageNext, StorageVars, MDvars, MD!vars, MAvars, MA!vars,
                 BMvars, BM!vars, BM!frames, LPvars, LP!vars, LP!frames, LP!file,
                 LQvars, LQ!vars, LQ!frames, LQ!file

\* A search for a first index finds one.
LEMMA FirstExists == PT!PagingConstants /\ PU!PagingConstants /\ LP!LruConstants /\ LQ!LruConstants
BY Zenon, PagingAssumption, LruAssumption, SmallestExists
DEF PT!PagingConstants, PU!PagingConstants, LP!LruConstants, LQ!LruConstants,
    PT!WellOrdered, PU!WellOrdered, LP!WellOrdered, LQ!WellOrdered

\* The inductive invariants of the programs on the hardware, together.
HardwareInv ==
    /\ TL!CacheInv /\ MC!ControllerInv /\ PP!PipelineInv /\ PS!ProcessorInv /\ MM!MmuInv
    /\ program = "page_table" => PT!TlbInv /\ PT!MemoryInv /\ PT!ResultInv
    /\ program = "page_table_any" => PU!TlbInv

\* The inductive invariants of the database, the allocator and the buffer pools.
StorageInv == /\ MD!IInv /\ MA!AllocInv /\ BM!PoolInv
              /\ LP!PinsInv /\ LP!UpdateInv /\ LQ!PinsInv

\* Every state of the suite satisfies the invariants of all its programs.
LEMMA SuiteInvariant == SuiteSpec => [](HardwareInv /\ StorageInv)
  <1>1. SuiteInit => HardwareInv
    BY Zenon, CacheAssumption, ControllerAssumption, PipelineAssumption, ProcessorAssumption,
       PagingAssumption, MmuAssumption, FirstExists, CacheStart, ControllerStart, PipelineInductive,
       ProcessorStart, PT!TlbStart, PT!MemoryStart, PU!TlbStart, MmuInductive
    DEF SuiteInit, HardwareInv
  <1>2. SuiteInit => StorageInv
    BY Zenon, RecordsStart, AllocAssumption, AllocInductive, PoolAssumption, PoolInductive,
       LruAssumption,
       FirstExists, LP!PinsStart, LP!UpdateStart, LQ!PinsStart DEF SuiteInit, StorageInv
  <1>3. HardwareInv /\ [SuiteNext]_suite_vars => HardwareInv'
    BY Zenon, CacheAssumption, ControllerAssumption, PipelineAssumption, ProcessorAssumption,
       PagingAssumption, MmuAssumption, FirstExists, SuiteStep, HardwareFrame, PagingFrame,
       CacheStep, ControllerStep, PipelineInductive, ProcessorStep, PT!TlbStep, PT!MemoryStep,
       PU!TlbStep, MmuInductive DEF HardwareInv
  <1>4. StorageInv /\ [SuiteNext]_suite_vars => StorageInv'
    BY Zenon, AllocAssumption, PoolAssumption, LruAssumption, FirstExists, StorageFrame,
       RecordsStep,
       AllocInductive, PoolInductive, LP!PinsStep, LP!UpdateStep, LQ!PinsStep DEF StorageInv
  <1> QED BY <1>1, <1>2, <1>3, <1>4, PTL DEF SuiteSpec

\* Copies agree with what they are copies of, for every size of the caches and of
\* the TLB: Two-Level-Cache-System.c, memoryController.c and pageTable.c.
THEOREM SuiteCaches == SuiteSpec => []CachesAgree
  <1>1. HardwareInv => CachesAgree
    BY Zenon, CacheAssumption, FirstExists, CacheGives, PT!TlbGives, PU!TlbGives
    DEF HardwareInv, CachesAgree, MC!ControllerInv
  <1> QED BY <1>1, SuiteInvariant, PTL

\* A flush of pageFlush.c reaches every entry, for every number of TLB entries,
\* frames, pages and ASIDs.
THEOREM SuiteFlushes == SuiteSpec => []FlushReaches
  <1>1. HardwareInv => FlushReaches
    BY Zenon, MmuAssumption, MmuInductive DEF HardwareInv, FlushReaches
  <1> QED BY <1>1, SuiteInvariant, PTL

\* The pipeline of cpu.c computes what its program says, for every program without
\* close dependencies, and the carry of processor_sim.c is that of full precision.
THEOREM SuiteExecutes == SuiteSpec => []ExecutesRight
  <1>1. HardwareInv => ExecutesRight
    BY Zenon DEF HardwareInv, ExecutesRight, PP!PipelineInv, PS!ProcessorInv
  <1> QED BY <1>1, SuiteInvariant, PTL

\* A read through the page table of pageTable.c returns what was written last, when
\* there is a frame for every page.
THEOREM SuiteReads == SuiteSpec => []ReadsLastWritten
  <1>1. HardwareInv => ReadsLastWritten
    BY Zenon, PT!MemoryGives DEF HardwareInv, ReadsLastWritten
  <1> QED BY <1>1, SuiteInvariant, PTL

\* Wherever the process is killed, the records below record_count are whole, for
\* every table size and every sequence of inserts.
THEOREM CrashConsistent == SuiteSpec => []CountedIsComplete
  <1>1. StorageInv => CountedIsComplete
    BY Zenon DEF StorageInv, CountedIsComplete, MD!IInv
  <1> QED BY <1>1, SuiteInvariant, PTL

\* A record that counts is neither changed nor uncounted by any later step.
THEOREM RecordsStay == SuiteSpec => CountedStays
  <1>1. StorageInv /\ [SuiteNext]_suite_vars => [MD!CountedStep]_(MD!vars)
    BY Zenon, StorageFrame, RecordsStep, RecordsKept DEF StorageInv
  <1> QED BY <1>1, SuiteInvariant, PTL DEF SuiteSpec, CountedStays, MD!CountedStays

\* The page table of CustomBufferManagementSystem.c finds each page in the one frame
\* that has it, for every pool and table, and a fetch spins only on pinned frames.
THEOREM SuiteTable == SuiteSpec => []TableMatchesFrames
  <1>1. StorageInv => TableMatchesFrames
    BY Zenon, PoolAssumption, PoolInductive DEF StorageInv, TableMatchesFrames
  <1> QED BY <1>1, SuiteInvariant, PTL

\* CustomBufferManagementSystem.c writes a dirty page before it drops it.
THEOREM SuiteDirty == SuiteSpec => DirtyIsWritten
  <1> DEFINE DirtyStep == \A f \in BM!Frames : bm_is_dirty[f] =>
                 (bm_page_id'[f] = bm_page_id[f] /\ bm_is_dirty'[f]) \/ bm_page_id[f] \in bm_written'
  <1>1. StorageInv /\ [SuiteNext]_suite_vars => [DirtyStep]_(BM!vars)
    BY Zenon, PoolAssumption, StorageFrame, PoolInductive DEF StorageInv, BM!StepKeeps
  <1> QED BY <1>1, SuiteInvariant, PTL DEF SuiteSpec, DirtyIsWritten, BM!DirtyIsWritten

\* A pinned frame keeps its page in both pools (in whyNotUseOS.c all but frame 0),
\* and a block of mem_alloc.c that is held keeps its place and size.
THEOREM SuiteHeld == SuiteSpec => HeldStay
  <1> DEFINE PinnedStep == \A f \in BM!Frames : bm_pin_count[f] > 0 => bm_page_id'[f] = bm_page_id[f]
  <1>1. StorageInv /\ [SuiteNext]_suite_vars =>
          [PinnedStep]_(BM!vars) /\ [LQ!PinnedStep]_(LQ!vars) /\ [MA!HeldStep]_(MA!vars)
    BY Zenon, PoolAssumption, FirstExists, AllocAssumption, StorageFrame, PoolInductive,
       LQ!PinsStep, AllocInductive
    DEF StorageInv, BM!StepKeeps
  <1> QED BY <1>1, SuiteInvariant, PTL
          DEF SuiteSpec, HeldStay, BM!PinnedStays, LQ!PinnedStays, MA!HeldStays

\* whyNotUseOS.c loses no update while callers hold one page at a time, and has a
\* page in one frame at most whatever they hold.
THEOREM SuiteUpdates == SuiteSpec => []NoLostUpdate
  <1>1. StorageInv => NoLostUpdate
    BY Zenon, LruAssumption, FirstExists, LP!UpdateGives DEF StorageInv, NoLostUpdate, LQ!PinsInv
  <1> QED BY <1>1, SuiteInvariant, PTL

\* The blocks of mem_alloc.c tile the pool, no two neighbours are free, and what
\* callers hold is theirs, for every pool, header and request.
THEOREM SuiteBlocks == SuiteSpec => []BlocksTile
  <1>1. StorageInv => BlocksTile
    BY Zenon, AllocAssumption, AllocInductive DEF StorageInv, BlocksTile
  <1> QED BY <1>1, SuiteInvariant, PTL
=============================================================================

--------------------------- MODULE LruBufferPool ---------------------------
(***************************************************************************)
(* os/filesystem/whyNotUseOS.c: a buffer pool over a file, with pin counts *)
(* and eviction of the least recently used frame.  Callers get pages,      *)
(* update and mark them, flush and release them.  A content is the page it *)
(* was written for and a version of it.                                    *)
(***************************************************************************)
EXTENDS Integers, FiniteSetsExt, TLAPS

CONSTANTS PoolSize,   \* BUFFER_POOL_SIZE
          Pages,      \* the page ids callers use
          FileSize,   \* the pages the file has when it is opened
          MaxHeld,    \* how many pages callers hold at a time
          MaxVersion, \* bound on the updates of a page
          MaxTime     \* bound on the clock

VARIABLES page_id, data, dirty, pin_count, last_access,   \* of each frame
          disk, size,   \* the file: its pages and how many it has
          held,         \* what callers hold: <<frame, page, number>>
          latest,       \* the last content callers gave each page
          now, open

frames == <<page_id, data, dirty, pin_count, last_access>>
file == <<disk, size>>
vars == <<frames, file, held, latest, now, open>>

Frames == 0 .. PoolSize - 1
None == -1
Junk == [page |-> None, version |-> 0]     \* what malloc returns
First(p) == [page |-> p, version |-> 0]

create_buffer_pool ==
    /\ page_id = [f \in Frames |-> None] /\ data = [f \in Frames |-> Junk]
    /\ dirty = [f \in Frames |-> FALSE] /\ pin_count = [f \in Frames |-> 0]
    /\ last_access = [f \in Frames |-> 0] /\ open = TRUE

Init == /\ create_buffer_pool
        /\ disk = [p \in Pages |-> First(p)] /\ size = FileSize
        /\ held = {} /\ latest = [p \in Pages |-> First(p)] /\ now = 1

\* Mutant: pin counts are not looked at.
find_lru_page_AnyPin ==
    LET older == {f \in Frames : last_access[f] < last_access[0]}
        oldest == {f \in older : \A g \in older : last_access[f] <= last_access[g]}
    IN IF older = {} THEN 0 ELSE Min(oldest)

\* The first of the unpinned frames that are older than all others, where
\* frame 0 is a candidate even if it is pinned.
find_lru_page ==
    LET older == {f \in Frames \ {0} : pin_count[f] = 0 /\ last_access[f] < last_access[0]}
        oldest == {f \in older : \A g \in older : last_access[f] <= last_access[g]}
    IN IF older = {} THEN 0 ELSE Min(oldest)

\* The file after the frames of F are written to it.
WriteBack(F) ==
    LET at(p) == {f \in F : page_id[f] = p}
    IN /\ disk' = [p \in Pages |-> IF at(p) = {} THEN disk[p] ELSE data[Max(at(p))]]
       /\ size' = Max({size} \cup {page_id[f] + 1 : f \in F})

FreeHandles == 1 .. MaxHeld \ {h[3] : h \in held}
NewHandle == Min(FreeHandles)

Found(p) == {f \in Frames : page_id[f] = p}

Hit(p) ==
    LET f == Min(Found(p))
    IN /\ Found(p) # {}
       /\ pin_count' = [pin_count EXCEPT ![f] = @ + 1]
       /\ last_access' = [last_access EXCEPT ![f] = now]
       /\ held' = held \cup {<<f, p, NewHandle>>}
       /\ UNCHANGED <<page_id, data, dirty, file>>

\* Mutant: a dirty victim is not written.
Fault_NoWrite(p) ==
    LET f == find_lru_page
    IN /\ Found(p) = {}
       /\ data' = IF p < size THEN [data EXCEPT ![f] = disk[p]] ELSE data
       /\ page_id' = [page_id EXCEPT ![f] = p]
       /\ dirty' = [dirty EXCEPT ![f] = FALSE]
       /\ pin_count' = [pin_count EXCEPT ![f] = 1]
       /\ last_access' = [last_access EXCEPT ![f] = now]
       /\ held' = held \cup {<<f, p, NewHandle>>}
       /\ UNCHANGED file

\* A read past the end of the file returns nothing and leaves the frame's data.
Fault(p) ==
    LET f == find_lru_page
    IN /\ Found(p) = {}
       /\ WriteBack({g \in {f} : dirty[g]})
       /\ data' = IF p < size' THEN [data EXCEPT ![f] = disk'[p]] ELSE data
       /\ page_id' = [page_id EXCEPT ![f] = p]
       /\ dirty' = [dirty EXCEPT ![f] = FALSE]
       /\ pin_count' = [pin_count EXCEPT ![f] = 1]
       /\ last_access' = [last_access EXCEPT ![f] = now]
       /\ held' = held \cup {<<f, p, NewHandle>>}

get_page(p) == /\ FreeHandles # {}
               /\ Hit(p) \/ Fault(p)
               /\ UNCHANGED <<latest, now, open>>

release_page(h) ==
    /\ pin_count' = [pin_count EXCEPT ![h[1]] = @ - 1]
    /\ held' = held \ {h}
    /\ UNCHANGED <<page_id, data, dirty, last_access, file, latest, now, open>>

\* A caller writes into the frame it holds and calls mark_dirty.
mark_dirty(h) ==
    LET new == [page |-> h[2], version |-> latest[h[2]].version + 1]
    IN /\ new.version <= MaxVersion
       /\ data' = [data EXCEPT ![h[1]] = new]
       /\ dirty' = [dirty EXCEPT ![h[1]] = TRUE]
       /\ latest' = [latest EXCEPT ![h[2]] = new]
       /\ UNCHANGED <<page_id, pin_count, last_access, file, held, now, open>>

flush_page(f) == /\ WriteBack({g \in {f} : dirty[g]})
                 /\ dirty' = [dirty EXCEPT ![f] = FALSE]
                 /\ UNCHANGED <<page_id, data, pin_count, last_access, held, latest, now, open>>

destroy_buffer_pool ==
    /\ WriteBack({f \in Frames : dirty[f]})
    /\ dirty' = [f \in Frames |-> FALSE] /\ open' = FALSE
    /\ UNCHANGED <<page_id, data, pin_count, last_access, held, latest, now>>

\* Seconds pass between calls, or do not.
Tick == now < MaxTime /\ now' = now + 1 /\ UNCHANGED <<frames, file, held, latest, open>>

Next == /\ open
        /\ \/ \E p \in Pages : get_page(p)
           \/ \E h \in held : release_page(h) \/ mark_dirty(h) \/ flush_page(h[1])
           \/ destroy_buffer_pool \/ Tick

Spec == Init /\ [][Next]_vars
-----------------------------------------------------------------------------
TypeOK ==
    /\ page_id \in [Frames -> Pages \cup {None}]
    /\ \A f \in Frames : data[f] = Junk \/ data[f] \in [page : Pages, version : 0 .. MaxVersion]
    /\ dirty \in [Frames -> BOOLEAN] /\ last_access \in [Frames -> 0 .. MaxTime]
    /\ \A f \in Frames : pin_count[f] \in -MaxHeld .. MaxHeld
    /\ held \subseteq Frames \X Pages \X (1 .. MaxHeld) /\ open \in BOOLEAN

\* A page is in one frame at most: a fault never loads what a frame holds.
OneFramePerPage ==
    \A f, g \in Frames : page_id[f] = page_id[g] /\ page_id[f] # None => f = g

\* A frame that callers have pinned keeps its page, unless it is frame 0, which
\* find_lru_page falls back on.
PinnedStep == \A f \in Frames \ {0} : pin_count[f] > 0 => page_id'[f] = page_id[f]
PinnedStays == [][PinnedStep]_vars

\* While callers hold one page at a time and the file has all pages, no update
\* is lost: a page's last content is in its frame, or in the file if it has none.
NoLostUpdate ==
    \A p \in Pages : latest[p] = IF Found(p) # {} THEN data[Min(Found(p))] ELSE disk[p]

\* Frames that are not dirty agree with the file, so they can be dropped, and
\* once the pool is destroyed the file has all updates.
CleanMatchesFile ==
    /\ \A f \in Frames : page_id[f] # None /\ ~dirty[f] => data[f] = disk[page_id[f]]
    /\ ~open => \A p \in Pages : disk[p] = latest[p]

LruSizes == PoolSize \in Nat \ {0} /\ Pages \subseteq Nat

\* What a search for the first index relies on: a set of numbers that is not empty
\* has a smallest one.
WellOrdered == \A S \in SUBSET Nat : S # {} => \E s \in S : \A r \in S : s <= r
LruConstants == LruSizes /\ WellOrdered

\* What holds however many pages callers hold.
HeldAreFrames == \A h \in held : h[1] \in Frames

PinsInv == /\ page_id \in [Frames -> Pages \cup {None}] /\ pin_count \in [Frames -> Int]
           /\ last_access \in [Frames -> Nat] /\ now \in Nat
           /\ HeldAreFrames /\ OneFramePerPage

\* Callers hold one page at a time, and the file has all pages they use.
OneAtATime == /\ MaxHeld = 1 /\ MaxVersion \in Nat /\ MaxTime \in Nat \ {0}
              /\ FileSize \in Nat /\ Pages \subseteq 0 .. FileSize - 1

Contents == [page : Pages, version : 0 .. MaxVersion]

UpdateTypes ==
    /\ data \in [Frames -> Contents \cup {Junk}] /\ dirty \in [Frames -> BOOLEAN]
    /\ last_access \in [Frames -> 0 .. MaxTime] /\ now \in 0 .. MaxTime
    /\ disk \in [Pages -> Contents] /\ latest \in [Pages -> Contents]
    /\ open \in BOOLEAN /\ (open => size \in Nat /\ FileSize <= size)

\* One frame is pinned, once, while a page is held: the frame that has it.
HoldsOne ==
    \/ held = {} /\ \A f \in Frames : pin_count[f] = 0
    \/ \E f \in Frames, p \in Pages :
          /\ held = {<<f, p, 1>>} /\ page_id[f] = p /\ pin_count[f] = 1
          /\ \A g \in Frames : g # f => pin_count[g] = 0

\* A frame with a page has its last content, which is in the file too if the
\* frame is clean or the page has no frame.
ContentIsRight ==
    /\ \A f \in Frames : page_id[f] # None =>
          /\ data[f] = latest[page_id[f]]
          /\ ~ dirty[f] => disk[page_id[f]] = latest[page_id[f]]
    /\ \A f \in Frames : page_id[f] = None => ~ dirty[f]
    /\ \A p \in Pages : (\A f \in Frames : page_id[f] # p) => disk[p] = latest[p]
    /\ ~ open => \A p \in Pages : disk[p] = latest[p]

UpdateInv == UpdateTypes /\ HoldsOne /\ ContentIsRight

\* The smallest of some numbers is one of them.
LEMMA MinIsOne ==
    ASSUME LruConstants, NEW S, S \subseteq Nat, S # {}
    PROVE  Min(S) \in S
  <1>1. \E s \in S : \A r \in S : s <= r
    BY DEF LruConstants, WellOrdered
  <1> QED BY <1>1 DEF Min

\* The victim is a frame, and unless it is frame 0 nobody has pinned it.
LEMMA LruIsFrame ==
    ASSUME LruConstants, PinsInv
    PROVE  /\ find_lru_page \in Frames
           /\ find_lru_page # 0 => pin_count[find_lru_page] = 0
  <1> DEFINE older == {f \in Frames \ {0} : pin_count[f] = 0 /\ last_access[f] < last_access[0]}
             oldest == {f \in older : \A g \in older : last_access[f] <= last_access[g]}
             times == {last_access[f] : f \in older}
  <1>1. 0 \in Frames /\ Frames \subseteq Nat
    BY DEF LruConstants, LruSizes, Frames
  <1>2. CASE older = {}
    BY <1>1, <1>2 DEF find_lru_page
  <1>3. CASE older # {}
    <2>1. times \subseteq Nat /\ times # {}
      BY <1>3 DEF PinsInv
    <2>2. PICK t \in times : \A u \in times : t <= u
      BY <2>1 DEF LruConstants, WellOrdered
    <2>3. oldest # {} /\ oldest \subseteq older /\ oldest \subseteq Nat
      <3>1. PICK f \in older : last_access[f] = t
        OBVIOUS
      <3>2. f \in oldest
        BY <2>2, <3>1
      <3> QED BY <1>1, <3>2
    <2>4. Min(oldest) \in oldest
      BY <2>3, MinIsOne
    <2>5. find_lru_page = Min(oldest)
      BY <1>3 DEF find_lru_page
    <2> QED BY <2>3, <2>4, <2>5
  <1> QED BY <1>2, <1>3

\* The pool starts without pages.
LEMMA PinsStart == LruConstants /\ Init => PinsInv
  BY DEF LruConstants, LruSizes, Init, create_buffer_pool, PinsInv, HeldAreFrames,
     OneFramePerPage, Frames, None

\* A page is loaded into one frame, and only when no frame has it.
LEMMA PinsStep == LruConstants /\ PinsInv /\ [Next]_vars => PinsInv' /\ [PinnedStep]_vars
  <1> SUFFICES ASSUME LruConstants, PinsInv, [Next]_vars
               PROVE  PinsInv' /\ [PinnedStep]_vars
    OBVIOUS
  <1>1. CASE UNCHANGED vars
    BY <1>1 DEF vars, frames, PinsInv, HeldAreFrames, OneFramePerPage
  <1>2. ASSUME NEW p \in Pages, Hit(p), UNCHANGED now
        PROVE  PinsInv' /\ PinnedStep
    <2> DEFINE f == Min(Found(p))
    <2>1. f \in Frames
      <3>1. Found(p) \subseteq Nat /\ Found(p) # {} /\ Found(p) \subseteq Frames
        BY <1>2 DEF Found, Hit, Frames, LruConstants, LruSizes
      <3> QED BY <3>1, MinIsOne
    <2>2. /\ pin_count' = [pin_count EXCEPT ![f] = @ + 1] /\ last_access' = [last_access EXCEPT ![f] = now]
          /\ held' = held \cup {<<f, p, NewHandle>>} /\ UNCHANGED page_id
      BY <1>2 DEF Hit
    <2> HIDE DEF f
    <2>3. HeldAreFrames'
      BY <2>1, <2>2 DEF PinsInv, HeldAreFrames
    <2> QED BY <1>2, <2>1, <2>2, <2>3 DEF PinsInv, OneFramePerPage, PinnedStep
  <1>3. ASSUME NEW p \in Pages, Fault(p), UNCHANGED now
        PROVE  PinsInv' /\ PinnedStep
    <2> DEFINE f == find_lru_page
    <2>1. f \in Frames /\ (f # 0 => pin_count[f] = 0)
      BY LruIsFrame
    <2>2. /\ page_id' = [page_id EXCEPT ![f] = p]
          /\ pin_count' = [pin_count EXCEPT ![f] = 1] /\ last_access' = [last_access EXCEPT ![f] = now]
          /\ held' = held \cup {<<f, p, NewHandle>>}
      BY <1>3 DEF Fault
    <2>3. \A g \in Frames : page_id[g] # p
      BY <1>3 DEF Fault, Found
    <2> HIDE DEF f
    <2>4. HeldAreFrames'
      BY <2>1, <2>2 DEF PinsInv, HeldAreFrames
    <2>5. OneFramePerPage'
      BY <2>1, <2>2, <2>3 DEF PinsInv, OneFramePerPage
    <2>6. PinnedStep
      BY <2>1, <2>2 DEF PinsInv, PinnedStep
    <2> QED BY <1>3, <2>1, <2>2, <2>4, <2>5, <2>6 DEF PinsInv
  <1>4. ASSUME NEW h \in held, release_page(h)
        PROVE  PinsInv' /\ PinnedStep
    <2>1. PICK f \in Frames : f = h[1]
      BY DEF PinsInv, HeldAreFrames
    <2>2. pin_count' = [pin_count EXCEPT ![f] = @ - 1]
      BY <1>4, <2>1 DEF release_page
    <2>3. HeldAreFrames' /\ UNCHANGED <<page_id, last_access, now>>
      BY <1>4 DEF release_page, PinsInv, HeldAreFrames
    <2> QED BY <2>1, <2>2, <2>3 DEF PinsInv, OneFramePerPage, PinnedStep
  <1>5. ASSUME UNCHANGED <<page_id, pin_count, last_access, held>>, now' \in Nat
        PROVE  PinsInv' /\ PinnedStep
    BY <1>5 DEF PinsInv, OneFramePerPage, PinnedStep, HeldAreFrames
  <1>6. Tick => now' \in Nat /\ UNCHANGED <<page_id, pin_count, last_access, held>>
    BY DEF Tick, frames, PinsInv
  <1>7. now \in Nat
    BY DEF PinsInv
  <1> QED BY <1>1, <1>2, <1>3, <1>4, <1>5, <1>6, <1>7
      DEF Next, get_page, mark_dirty, flush_page, destroy_buffer_pool

LEMMA UpdateStart == LruConstants /\ OneAtATime /\ Init => UpdateInv
  <1> SUFFICES ASSUME LruConstants, OneAtATime, Init
               PROVE  UpdateInv
    OBVIOUS
  <1> USE DEF Init, create_buffer_pool
  <1>1. \A p \in Pages : First(p) \in Contents
    BY DEF First, Contents, OneAtATime
  <1>2. UpdateTypes
    <2>1. dirty \in [Frames -> BOOLEAN] /\ open \in BOOLEAN
      OBVIOUS
    <2> QED BY <1>1, <2>1 DEF UpdateTypes, OneAtATime
  <1> QED BY <1>2 DEF UpdateInv, HoldsOne, ContentIsRight

\* The largest of one or two numbers.
LEMMA LargestOfTwo ==
    ASSUME NEW a \in Int, NEW T, T = {} \/ \E b \in Int : T = {b}
    PROVE  Max({a} \cup T) \in {a} \cup T /\ Max({a} \cup T) >= a
  <1>1. \E x \in {a} \cup T : \A y \in {a} \cup T : x >= y
    <2>1. CASE T = {}
      BY <2>1
    <2>2. ASSUME NEW b \in Int, T = {b}
          PROVE  \E x \in {a} \cup T : \A y \in {a} \cup T : x >= y
      <3>1. CASE a >= b
        BY <2>2, <3>1
      <3>2. CASE b >= a
        BY <2>2, <3>2
      <3> QED BY <3>1, <3>2
    <2> QED BY <2>1, <2>2
  <1> QED BY <1>1 DEF Max

\* Writing back dirty frames gives the file the last content of their pages and
\* leaves the other pages alone.
LEMMA WriteBackIsRight ==
    ASSUME LruConstants, PinsInv, UpdateInv, NEW F, F \subseteq Frames, \A f \in F : dirty[f],
           WriteBack(F)
    PROVE  /\ disk' \in [Pages -> Contents]
           /\ \A f \in F : page_id[f] \in Pages /\ disk'[page_id[f]] = latest[page_id[f]]
           /\ \A p \in Pages : (\A f \in F : page_id[f] # p) => disk'[p] = disk[p]
  <1> DEFINE at(p) == {f \in F : page_id[f] = p}
  <1>1. disk' = [p \in Pages |-> IF at(p) = {} THEN disk[p] ELSE data[Max(at(p))]]
    BY DEF WriteBack
  <1>2. \A p \in Pages : p # None
    BY DEF LruConstants, LruSizes, None
  <1>3. \A f \in F : page_id[f] \in Pages /\ page_id[f] # None
    BY <1>2 DEF PinsInv, UpdateInv, ContentIsRight
  <1>4. ASSUME NEW f \in F
        PROVE  disk'[page_id[f]] = latest[page_id[f]]
    <2> DEFINE p == page_id[f]
    <2>1. at(p) = {f}
      BY <1>3 DEF PinsInv, OneFramePerPage
    <2>2. f \in Nat
      BY DEF Frames, LruConstants, LruSizes
    <2>3. Max({f}) = f
      BY <2>2 DEF Max
    <2>4. p \in Pages
      BY <1>3
    <2> HIDE DEF at
    <2>5. disk'[p] = data[f]
      BY <1>1, <2>1, <2>3, <2>4
    <2> QED BY <1>3, <2>5 DEF UpdateInv, ContentIsRight
  <1>5. \A p \in Pages : (\A f \in F : page_id[f] # p) => at(p) = {}
    OBVIOUS
  <1>6. \A p \in Pages : at(p) = {} => disk'[p] = disk[p]
    BY <1>1
  <1>7. ASSUME NEW p \in Pages
        PROVE  disk'[p] \in Contents
    <2>1. CASE at(p) = {}
      <3> HIDE DEF at
      <3> QED BY <1>6, <2>1 DEF UpdateInv, UpdateTypes
    <2>2. CASE \E f \in F : page_id[f] = p
      BY <1>4, <2>2 DEF UpdateInv, UpdateTypes
    <2> QED BY <2>1, <2>2
  <1>8. disk' \in [Pages -> Contents]
    <2>1. disk' = [p \in Pages |-> disk'[p]]
      <3> HIDE DEF at
      <3> QED BY <1>1
    <2> QED BY <1>7, <2>1
  <1> QED BY <1>3, <1>4, <1>5, <1>6, <1>8

\* Writing back one frame does not shrink the file.
LEMMA FileKeepsSize ==
    ASSUME PinsInv, UpdateInv, LruConstants, OneAtATime, open, NEW f \in Frames,
           WriteBack({g \in {f} : dirty[g]})
    PROVE  size' \in Nat /\ FileSize <= size'
  <1> DEFINE F == {g \in {f} : dirty[g]}
             T == {page_id[g] + 1 : g \in F}
  <1>1. size \in Nat /\ FileSize <= size /\ FileSize \in Nat
    BY DEF UpdateInv, UpdateTypes, OneAtATime
  <1>2. T = {} \/ T = {page_id[f] + 1}
    OBVIOUS
  <1>3. page_id[f] + 1 \in Int /\ page_id[f] + 1 >= 0
    <2>1. page_id[f] \in Nat \/ page_id[f] = -1
      BY DEF PinsInv, LruConstants, LruSizes, None
    <2> QED BY <2>1
  <1>4. size' = Max({size} \cup T)
    BY DEF WriteBack
  <1> HIDE DEF T
  <1>5. size' \in {size} \cup T /\ size' >= size
    BY <1>1, <1>2, <1>3, <1>4, LargestOfTwo
  <1>6. size' \in Int
    BY <1>1, <1>2, <1>3, <1>5
  <1> QED BY <1>1, <1>5, <1>6

\* A page is got while nothing is held, and the one that is got is held.
LEMMA GetsOne ==
    ASSUME OneAtATime, PinsInv, UpdateInv, FreeHandles # {}
    PROVE  held = {} /\ (\A f \in Frames : pin_count[f] = 0) /\ NewHandle = 1
  <1>1. held = {} /\ \A f \in Frames : pin_count[f] = 0
    <2>1. ASSUME NEW f \in Frames, NEW p \in Pages, held = {<<f, p, 1>>}
          PROVE  FALSE
      BY <2>1 DEF OneAtATime, FreeHandles
    <2> QED BY <2>1 DEF UpdateInv, HoldsOne
  <1>2. FreeHandles = {1}
    BY <1>1 DEF OneAtATime, FreeHandles
  <1>3. Min({1}) = 1
    BY DEF Min
  <1> QED BY <1>1, <1>2, <1>3 DEF NewHandle

\* A hit changes no content.
LEMMA HitKeeps ==
    ASSUME LruConstants, OneAtATime, PinsInv, UpdateInv, NEW p \in Pages,
           FreeHandles # {}, Hit(p), UNCHANGED <<latest, now, open>>
    PROVE  UpdateInv'
  <1>1. held = {} /\ (\A f \in Frames : pin_count[f] = 0) /\ NewHandle = 1
    BY GetsOne
  <1>2. PICK f \in Frames : f = Min(Found(p)) /\ page_id[f] = p
    <2>1. Found(p) \subseteq Nat /\ Found(p) # {} /\ Found(p) \subseteq Frames
      BY DEF Found, Hit, Frames, LruConstants, LruSizes
    <2>2. Min(Found(p)) \in Found(p)
      BY <2>1, MinIsOne
    <2> QED BY <2>1, <2>2 DEF Found
  <1>3. /\ pin_count' = [pin_count EXCEPT ![f] = @ + 1] /\ last_access' = [last_access EXCEPT ![f] = now]
        /\ held' = {<<f, p, 1>>} /\ UNCHANGED <<page_id, data, dirty, disk, size>>
    BY <1>1, <1>2 DEF Hit, file
  <1>4. last_access' \in [Frames -> 0 .. MaxTime]
    BY <1>3 DEF UpdateInv, UpdateTypes
  <1>5. UpdateTypes'
    BY <1>3, <1>4 DEF UpdateInv, UpdateTypes
  <1>6. pin_count'[f] = 1 /\ \A g \in Frames : g # f => pin_count'[g] = 0
    BY <1>1, <1>3 DEF PinsInv
  <1>7. HoldsOne'
    BY <1>2, <1>3, <1>6 DEF HoldsOne
  <1>8. ContentIsRight'
    BY <1>3 DEF UpdateInv, ContentIsRight
  <1> QED BY <1>5, <1>7, <1>8 DEF UpdateInv

\* A fault writes the victim back if it must, and loads the page from the file,
\* which has its last content since no frame has the page.
LEMMA FaultKeeps ==
    ASSUME LruConstants, OneAtATime, PinsInv, UpdateInv, NEW p \in Pages, open,
           FreeHandles # {}, Fault(p), UNCHANGED <<latest, now, open>>
    PROVE  UpdateInv'
  <1>1. held = {} /\ (\A f \in Frames : pin_count[f] = 0) /\ NewHandle = 1
    BY GetsOne
  <1>2. PICK f \in Frames : f = find_lru_page
    BY LruIsFrame
  <1> DEFINE F == {g \in {f} : dirty[g]}
  <1>3. WriteBack(F)
    BY <1>2 DEF Fault
  <1>4. size' \in Nat /\ FileSize <= size'
    BY <1>3, FileKeepsSize
  <1>5. p < size'
    BY <1>4 DEF OneAtATime
  <1>6. /\ data' = [data EXCEPT ![f] = disk'[p]] /\ page_id' = [page_id EXCEPT ![f] = p]
        /\ dirty' = [dirty EXCEPT ![f] = FALSE] /\ pin_count' = [pin_count EXCEPT ![f] = 1]
        /\ last_access' = [last_access EXCEPT ![f] = now] /\ held' = {<<f, p, 1>>}
    BY <1>1, <1>2, <1>5 DEF Fault
  <1>7. /\ disk' \in [Pages -> Contents]
        /\ dirty[f] => page_id[f] \in Pages /\ disk'[page_id[f]] = latest[page_id[f]]
        /\ \A q \in Pages : ~ dirty[f] \/ page_id[f] # q => disk'[q] = disk[q]
    <2>1. F \subseteq Frames /\ \A g \in F : dirty[g]
      OBVIOUS
    <2>2. /\ disk' \in [Pages -> Contents]
          /\ \A g \in F : page_id[g] \in Pages /\ disk'[page_id[g]] = latest[page_id[g]]
          /\ \A q \in Pages : (\A g \in F : page_id[g] # q) => disk'[q] = disk[q]
      <3> HIDE DEF F
      <3> QED BY <1>3, <2>1, WriteBackIsRight
    <2> QED BY <2>2
  <1>8. \A g \in Frames : page_id[g] # p
    BY DEF Fault, Found
  <1>9. disk'[p] = latest[p] /\ disk'[p] \in Contents
    BY <1>7, <1>8 DEF UpdateInv, ContentIsRight
  <1>10. data' \in [Frames -> Contents \cup {Junk}] /\ last_access' \in [Frames -> 0 .. MaxTime]
    BY <1>6, <1>9 DEF UpdateInv, UpdateTypes
  <1>11. dirty' \in [Frames -> BOOLEAN]
    BY <1>6 DEF UpdateInv, UpdateTypes
  <1>12. UpdateTypes'
    BY <1>4, <1>7, <1>10, <1>11 DEF UpdateInv, UpdateTypes
  <1>13. HoldsOne'
    BY <1>1, <1>6 DEF PinsInv, HoldsOne
  <1>14. /\ page_id'[f] = p /\ data'[f] = latest[p] /\ ~ dirty'[f]
         /\ \A g \in Frames : g # f => /\ page_id'[g] = page_id[g] /\ data'[g] = data[g]
                                      /\ (dirty'[g] <=> dirty[g])
    BY <1>6, <1>9 DEF PinsInv, UpdateInv, UpdateTypes
  <1>15. \A q \in Pages : q # None
    BY DEF LruConstants, LruSizes, None
  <1>16. ASSUME NEW g \in Frames, page_id'[g] # None
         PROVE  /\ data'[g] = latest[page_id'[g]]
                /\ ~ dirty'[g] => disk'[page_id'[g]] = latest[page_id'[g]]
    <2>1. CASE g = f
      BY <1>9, <1>14, <2>1
    <2>2. CASE g # f
      <3>1. page_id'[g] = page_id[g] /\ page_id[g] \in Pages /\ page_id[g] # page_id[f]
        BY <1>14, <1>16, <2>2 DEF PinsInv, OneFramePerPage
      <3>2. disk'[page_id[g]] = disk[page_id[g]]
        BY <1>7, <3>1
      <3> QED BY <1>14, <1>16, <2>2, <3>1, <3>2 DEF UpdateInv, ContentIsRight
    <2> QED BY <2>1, <2>2
  <1>17. \A g \in Frames : page_id'[g] = None => ~ dirty'[g]
    BY <1>14, <1>15 DEF UpdateInv, ContentIsRight
  <1>18. ASSUME NEW q \in Pages, \A g \in Frames : page_id'[g] # q
         PROVE  disk'[q] = latest[q]
    <2>1. CASE page_id[f] = q
      <3>1. CASE dirty[f]
        BY <1>7, <2>1, <3>1
      <3>2. CASE ~ dirty[f]
        BY <1>7, <1>15, <2>1, <3>2 DEF UpdateInv, ContentIsRight
      <3> QED BY <3>1, <3>2
    <2>2. CASE page_id[f] # q
      <3>1. \A g \in Frames : page_id[g] # q
        BY <1>14, <1>18, <2>2
      <3> QED BY <1>7, <2>2, <3>1 DEF UpdateInv, ContentIsRight
    <2> QED BY <2>1, <2>2
  <1>19. ContentIsRight'
    BY <1>16, <1>17, <1>18 DEF ContentIsRight
  <1> QED BY <1>12, <1>13, <1>19 DEF UpdateInv

\* An update goes to the frame of the page that is held, and makes it dirty.
LEMMA MarkKeeps ==
    ASSUME LruConstants, OneAtATime, PinsInv, UpdateInv, open, NEW h \in held, mark_dirty(h)
    PROVE  UpdateInv'
  <1>1. PICK f \in Frames, p \in Pages : h = <<f, p, 1>> /\ page_id[f] = p
    BY DEF UpdateInv, HoldsOne
  <1> DEFINE new == [page |-> p, version |-> latest[p].version + 1]
  <1>2. /\ new.version <= MaxVersion /\ data' = [data EXCEPT ![f] = new]
        /\ dirty' = [dirty EXCEPT ![f] = TRUE] /\ latest' = [latest EXCEPT ![p] = new]
        /\ UNCHANGED <<page_id, pin_count, last_access, disk, size, held, now, open>>
    BY <1>1 DEF mark_dirty, file
  <1>3. new \in Contents
    <2>1. latest[p] \in Contents
      BY DEF UpdateInv, UpdateTypes
    <2>2. latest[p].version \in 0 .. MaxVersion
      BY <2>1 DEF Contents
    <2> QED BY <1>2, <2>2 DEF Contents, OneAtATime
  <1> HIDE DEF new
  <1>4. dirty' \in [Frames -> BOOLEAN]
    BY <1>2 DEF UpdateInv, UpdateTypes
  <1>5. data' \in [Frames -> Contents \cup {Junk}] /\ latest' \in [Pages -> Contents]
    BY <1>2, <1>3 DEF UpdateInv, UpdateTypes
  <1>6. UpdateTypes'
    BY <1>2, <1>4, <1>5 DEF UpdateInv, UpdateTypes
  <1>7. /\ data'[f] = new /\ dirty'[f] /\ latest'[p] = new
        /\ \A g \in Frames : g # f => data'[g] = data[g] /\ (dirty'[g] <=> dirty[g])
        /\ \A q \in Pages : q # p => latest'[q] = latest[q]
    BY <1>2 DEF UpdateInv, UpdateTypes
  <1>8. \A g \in Frames : g # f /\ page_id[g] # None => page_id[g] # p /\ page_id[g] \in Pages
    BY <1>1 DEF PinsInv, OneFramePerPage
  <1>9. p # None
    BY DEF LruConstants, LruSizes, None
  <1>10. ContentIsRight'
    BY <1>1, <1>2, <1>7, <1>8, <1>9 DEF UpdateInv, ContentIsRight
  <1>11. HoldsOne'
    BY <1>2 DEF UpdateInv, HoldsOne
  <1> QED BY <1>6, <1>10, <1>11 DEF UpdateInv

\* A flush of the frame that is held brings the file up to date with it.
LEMMA FlushKeeps ==
    ASSUME LruConstants, OneAtATime, PinsInv, UpdateInv, open, NEW f \in Frames, flush_page(f)
    PROVE  UpdateInv'
  <1> DEFINE F == {g \in {f} : dirty[g]}
  <1>1. /\ WriteBack(F) /\ dirty' = [dirty EXCEPT ![f] = FALSE]
        /\ UNCHANGED <<page_id, data, pin_count, last_access, held, latest, now, open>>
    BY DEF flush_page
  <1>2. size' \in Nat /\ FileSize <= size'
    BY <1>1, FileKeepsSize
  <1>3. /\ disk' \in [Pages -> Contents]
        /\ dirty[f] => page_id[f] \in Pages /\ disk'[page_id[f]] = latest[page_id[f]]
        /\ \A q \in Pages : ~ dirty[f] \/ page_id[f] # q => disk'[q] = disk[q]
    <2>1. F \subseteq Frames /\ \A g \in F : dirty[g]
      OBVIOUS
    <2>2. /\ disk' \in [Pages -> Contents]
          /\ \A g \in F : page_id[g] \in Pages /\ disk'[page_id[g]] = latest[page_id[g]]
          /\ \A q \in Pages : (\A g \in F : page_id[g] # q) => disk'[q] = disk[q]
      <3> HIDE DEF F
      <3> QED BY <1>1, <2>1, WriteBackIsRight
    <2> QED BY <2>2
  <1>4. dirty' \in [Frames -> BOOLEAN] /\ ~ dirty'[f] /\ \A g \in Frames : g # f => (dirty'[g] <=> dirty[g])
    BY <1>1 DEF UpdateInv, UpdateTypes
  <1>5. UpdateTypes'
    BY <1>1, <1>2, <1>3, <1>4 DEF UpdateInv, UpdateTypes
  <1>6. HoldsOne'
    BY <1>1 DEF UpdateInv, HoldsOne
  <1>7. \A q \in Pages : disk'[q] = disk[q] \/ disk'[q] = latest[q]
    BY <1>3
  <1>8. page_id[f] # None => disk'[page_id[f]] = latest[page_id[f]]
    BY <1>3 DEF PinsInv, UpdateInv, ContentIsRight
  <1>9. ContentIsRight'
    BY <1>1, <1>4, <1>7, <1>8 DEF PinsInv, UpdateInv, ContentIsRight
  <1> QED BY <1>5, <1>6, <1>9 DEF UpdateInv

\* destroy_buffer_pool brings the whole file up to date.
LEMMA DestroyKeeps ==
    ASSUME LruConstants, OneAtATime, PinsInv, UpdateInv, open, destroy_buffer_pool
    PROVE  UpdateInv'
  <1> DEFINE F == {f \in Frames : dirty[f]}
  <1>1. /\ WriteBack(F) /\ dirty' = [f \in Frames |-> FALSE] /\ open' = FALSE
        /\ UNCHANGED <<page_id, data, pin_count, last_access, held, latest, now>>
    BY DEF destroy_buffer_pool
  <1>2. /\ disk' \in [Pages -> Contents]
        /\ \A f \in Frames : dirty[f] => disk'[page_id[f]] = latest[page_id[f]]
        /\ \A q \in Pages : (\A f \in Frames : dirty[f] => page_id[f] # q) => disk'[q] = disk[q]
    <2>1. F \subseteq Frames /\ \A g \in F : dirty[g]
      OBVIOUS
    <2>2. /\ disk' \in [Pages -> Contents]
          /\ \A g \in F : page_id[g] \in Pages /\ disk'[page_id[g]] = latest[page_id[g]]
          /\ \A q \in Pages : (\A g \in F : page_id[g] # q) => disk'[q] = disk[q]
      <3> HIDE DEF F
      <3> QED BY <1>1, <2>1, WriteBackIsRight
    <2> QED BY <2>2
  <1>3. ASSUME NEW q \in Pages
        PROVE  disk'[q] = latest[q]
    <2>1. CASE \E f \in Frames : dirty[f] /\ page_id[f] = q
      BY <1>2, <2>1
    <2>2. CASE \A f \in Frames : dirty[f] => page_id[f] # q
      <3>1. disk'[q] = disk[q]
        BY <1>2, <2>2
      <3>2. q # None
        BY DEF LruConstants, LruSizes, None
      <3> QED BY <2>2, <3>1, <3>2 DEF UpdateInv, ContentIsRight
    <2> QED BY <2>1, <2>2
  <1>4. dirty' \in [Frames -> BOOLEAN] /\ \A f \in Frames : ~ dirty'[f]
    BY <1>1
  <1>5. UpdateTypes'
    BY <1>1, <1>2, <1>4 DEF UpdateInv, UpdateTypes
  <1>6. HoldsOne'
    BY <1>1 DEF UpdateInv, HoldsOne
  <1>7. ContentIsRight'
    BY <1>1, <1>3, <1>4 DEF PinsInv, UpdateInv, ContentIsRight
  <1> QED BY <1>5, <1>6, <1>7 DEF UpdateInv

\* Every call keeps every update, while callers hold one page at a time.
LEMMA UpdateStep ==
    LruConstants /\ OneAtATime /\ PinsInv /\ UpdateInv /\ [Next]_vars => UpdateInv'
  <1> SUFFICES ASSUME LruConstants, OneAtATime, PinsInv, UpdateInv, [Next]_vars
               PROVE  UpdateInv'
    OBVIOUS
  <1>1. CASE UNCHANGED vars
    BY <1>1 DEF vars, frames, file, UpdateInv, UpdateTypes, HoldsOne, ContentIsRight
  <1>2. ASSUME NEW p \in Pages, get_page(p), open
        PROVE  UpdateInv'
    BY <1>2, HitKeeps, FaultKeeps DEF get_page
  <1>3. ASSUME NEW h \in held, release_page(h), open
        PROVE  UpdateInv'
    <2>1. PICK f \in Frames, p \in Pages :
              /\ held = {<<f, p, 1>>} /\ page_id[f] = p /\ pin_count[f] = 1
              /\ \A g \in Frames : g # f => pin_count[g] = 0
      BY DEF UpdateInv, HoldsOne
    <2>2. /\ pin_count' = [pin_count EXCEPT ![f] = @ - 1] /\ held' = {}
          /\ UNCHANGED <<page_id, data, dirty, last_access, disk, size, latest, now, open>>
      <3>1. h = <<f, p, 1>>
        BY <2>1
      <3>2. h[1] = f /\ held \ {h} = {}
        BY <2>1, <3>1
      <3> QED BY <1>3, <3>2 DEF release_page, file
    <2>3. \A g \in Frames : pin_count'[g] = 0
      BY <2>1, <2>2 DEF PinsInv
    <2> QED BY <2>2, <2>3 DEF UpdateInv, UpdateTypes, HoldsOne, ContentIsRight
  <1>4. ASSUME NEW h \in held, mark_dirty(h), open
        PROVE  UpdateInv'
    BY <1>4, MarkKeeps
  <1>5. ASSUME NEW h \in held, flush_page(h[1]), open
        PROVE  UpdateInv'
    <2>1. PICK f \in Frames : f = h[1]
      BY DEF PinsInv, HeldAreFrames
    <2> QED BY <1>5, <2>1, FlushKeeps
  <1>6. CASE destroy_buffer_pool /\ open
    BY <1>6, DestroyKeeps
  <1>7. CASE Tick /\ open
    <2>1. /\ now' \in 0 .. MaxTime
          /\ UNCHANGED <<page_id, data, dirty, pin_count, last_access, disk, size, held, latest, open>>
      BY <1>7 DEF Tick, frames, file, UpdateInv, UpdateTypes, OneAtATime
    <2> QED BY <2>1 DEF UpdateInv, UpdateTypes, HoldsOne, ContentIsRight
  <1> QED BY <1>1, <1>2, <1>3, <1>4, <1>5, <1>6, <1>7 DEF Next

\* The properties that the invariants give.
LEMMA UpdateGives ==
    LruConstants /\ OneAtATime /\ PinsInv /\ UpdateInv => TypeOK /\ NoLostUpdate /\ CleanMatchesFile
  <1> SUFFICES ASSUME LruConstants, OneAtATime, PinsInv, UpdateInv
               PROVE  TypeOK /\ NoLostUpdate /\ CleanMatchesFile
    OBVIOUS
  <1>1. \A p \in Pages : p # None
    BY DEF LruConstants, LruSizes, None
  <1>2. \A f \in Frames : pin_count[f] \in -MaxHeld .. MaxHeld
    BY DEF UpdateInv, HoldsOne, OneAtATime
  <1>3. held \subseteq Frames \X Pages \X (1 .. MaxHeld)
    BY DEF UpdateInv, HoldsOne, OneAtATime
  <1>4. \A f \in Frames : data[f] = Junk \/ data[f] \in [page : Pages, version : 0 .. MaxVersion]
    BY DEF UpdateInv, UpdateTypes, Contents
  <1>5. TypeOK
    BY <1>2, <1>3, <1>4 DEF TypeOK, PinsInv, UpdateInv, UpdateTypes
  <1>6. NoLostUpdate
    <2> SUFFICES ASSUME NEW p \in Pages
                 PROVE  latest[p] = IF Found(p) # {} THEN data[Min(Found(p))] ELSE disk[p]
      BY DEF NoLostUpdate
    <2>1. CASE Found(p) = {}
      BY <2>1 DEF UpdateInv, ContentIsRight, Found
    <2>2. CASE Found(p) # {}
      <3>1. Found(p) \subseteq Nat /\ Found(p) \subseteq Frames
        BY DEF Found, Frames, LruConstants, LruSizes
      <3>2. Min(Found(p)) \in Found(p)
        BY <2>2, <3>1, MinIsOne
      <3> QED BY <1>1, <2>2, <3>2 DEF UpdateInv, ContentIsRight, Found
    <2> QED BY <2>1, <2>2
  <1>7. CleanMatchesFile
    BY DEF CleanMatchesFile, UpdateInv, ContentIsRight
  <1> QED BY <1>5, <1>6, <1>7
=============================================================================

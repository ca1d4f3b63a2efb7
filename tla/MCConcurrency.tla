--------------------------- MODULE MCConcurrency ----------------------------
(***************************************************************************)
(* The mutexes and readers-writer locks of concurrency/synchronization and *)
(* concurrency/threads, the leader election and the smart pointers.  Each  *)
(* program has a section: its constants, its state, its module and what is *)
(* proved about it for all values of the constants.  The suite at the end  *)
(* runs one program at a time; TLC checks it on small sets of threads.     *)
(***************************************************************************)
EXTENDS FutexMutex, FiniteSetTheorems, TLAPS

VARIABLE program   \* the program that runs
-----------------------------------------------------------------------------
(***************************************************************************)
(* For any set of threads and any number of iterations, the futex mutex of *)
(* preemmtibleCriticalSections.c excludes, keeps its owner field right and *)
(* leaves no sleeper without a waker.  IndInv of FutexMutex is inductive;  *)
(* its extra part OwnerCleared says what owner is between the two stores   *)
(* of rt_mutex_unlock.                                                     *)
(***************************************************************************)

\* The state main sets up satisfies the invariant.
LEMMA InitInv == Init => IndInv
  BY IterationsAssumption
  DEF Init, IndInv, TypeOK, MutualExclusion, OwnerIsHolder, OwnerCleared,
      SleeperHasWaker, Holds, Asleep, At

\* FUTEX_WAKE moves at most one sleeper, and moves it to "try".
LEMMA WakeMoves ==
    ASSUME TypeOK, NEW t \in Threads, NEW l \in {"loop"}, FUTEX_WAKE(t, l), At(t, "wake")
    PROVE  /\ pc' \in [Threads -> {"loop", "try", "wait", "asleep", "own", "load",
                                   "store", "unlock", "release", "wake", "done"}]
           /\ pc'[t] = l
           /\ \A u \in Threads \ {t} :
                pc'[u] = pc[u] \/ (pc[u] = "asleep" /\ pc'[u] = "try")
           /\ Asleep # {} => \E u \in Threads : pc'[u] = "try"
  BY DEF FUTEX_WAKE, TypeOK, Goto, Asleep, At

\* Every step of the lock keeps the invariant.
LEMMA LockInv ==
    ASSUME IndInv, NEW t \in Threads, rt_mutex_lock(t)
    PROVE  IndInv'
  <1> USE DEF IndInv, At, Goto, Asleep, Holds
  <1>1. TypeOK'
    BY DEF rt_mutex_lock, FUTEX_WAIT, TypeOK
  <1>2. MutualExclusion'
    BY DEF rt_mutex_lock, FUTEX_WAIT, TypeOK, MutualExclusion
  <1>3. OwnerIsHolder'
    BY DEF rt_mutex_lock, FUTEX_WAIT, TypeOK, MutualExclusion, OwnerIsHolder
  <1>4. OwnerCleared'
    BY DEF rt_mutex_lock, FUTEX_WAIT, TypeOK, MutualExclusion, OwnerCleared
  <1>5. SleeperHasWaker'
    BY DEF rt_mutex_lock, FUTEX_WAIT, TypeOK, MutualExclusion, SleeperHasWaker
  <1> QED BY <1>1, <1>2, <1>3, <1>4, <1>5

\* Every step of the unlock keeps the invariant.
LEMMA UnlockInv ==
    ASSUME IndInv, NEW t \in Threads, rt_mutex_unlock(t)
    PROVE  IndInv'
  <1> USE DEF IndInv
  <1>1. CASE At(t, "wake")
    <2>1. FUTEX_WAKE(t, "loop") /\ UNCHANGED <<lock, owner, shared_counter, iter, loaded>>
      BY <1>1 DEF rt_mutex_unlock, At
    <2>2. /\ pc' \in [Threads -> {"loop", "try", "wait", "asleep", "own", "load",
                                  "store", "unlock", "release", "wake", "done"}]
          /\ pc'[t] = "loop"
          /\ \A u \in Threads \ {t} :
               pc'[u] = pc[u] \/ (pc[u] = "asleep" /\ pc'[u] = "try")
          /\ Asleep # {} => \E u \in Threads : pc'[u] = "try"
      BY <1>1, <2>1, WakeMoves
    <2>3. TypeOK'
      BY <2>1, <2>2 DEF TypeOK
    <2>4. MutualExclusion'
      BY <1>1, <2>1, <2>2 DEF MutualExclusion, Holds, At
    <2>5. OwnerIsHolder' /\ OwnerCleared'
      BY <1>1, <2>1, <2>2 DEF OwnerIsHolder, OwnerCleared, At
    <2>6. SleeperHasWaker'
      BY <1>1, <2>1, <2>2 DEF SleeperHasWaker, Asleep, At
    <2> QED BY <2>3, <2>4, <2>5, <2>6
  <1>2. CASE ~At(t, "wake")
    <2> USE DEF At, Goto, Asleep, Holds
    <2>1. TypeOK'
      BY <1>2 DEF rt_mutex_unlock, TypeOK
    <2>2. MutualExclusion'
      BY <1>2 DEF rt_mutex_unlock, TypeOK, MutualExclusion
    <2>3. OwnerIsHolder'
      BY <1>2, OwnerAssumption DEF rt_mutex_unlock, TypeOK, MutualExclusion, OwnerIsHolder,
         OwnerCleared
    <2>4. OwnerCleared'
      BY <1>2 DEF rt_mutex_unlock, TypeOK, MutualExclusion, OwnerCleared
    <2>5. SleeperHasWaker'
      BY <1>2 DEF rt_mutex_unlock, TypeOK, SleeperHasWaker
    <2> QED BY <2>1, <2>2, <2>3, <2>4, <2>5
  <1> QED BY <1>1, <1>2

\* The steps outside the lock keep the invariant.
LEMMA OtherInv ==
    ASSUME IndInv, NEW t \in Threads, Body(t) \/ thread_func(t) \/ Interrupted(t)
    PROVE  IndInv'
  <1> USE DEF IndInv, At, Goto, Asleep, Holds
  <1>1. TypeOK'
    BY IterationsAssumption DEF Body, thread_func, Interrupted, TypeOK
  <1>2. MutualExclusion'
    BY DEF Body, thread_func, Interrupted, TypeOK, MutualExclusion
  <1>3. OwnerIsHolder'
    BY DEF Body, thread_func, Interrupted, TypeOK, OwnerIsHolder
  <1>4. OwnerCleared'
    BY DEF Body, thread_func, Interrupted, TypeOK, OwnerCleared
  <1>5. SleeperHasWaker'
    BY DEF Body, thread_func, Interrupted, TypeOK, SleeperHasWaker
  <1> QED BY <1>1, <1>2, <1>3, <1>4, <1>5

\* However many threads run preemmtibleCriticalSections.c, and however often, the
\* mutex excludes, its owner field is right and no sleeper is left without a waker.
THEOREM FutexInvariant == Spec => []IndInv
  <1>1. IndInv /\ [Next]_vars => IndInv'
    <2> SUFFICES ASSUME IndInv, [Next]_vars PROVE IndInv'
      OBVIOUS
    <2>1. CASE Next
      BY <2>1, LockInv, UnlockInv, OtherInv DEF Next, Step, critical_section
    <2>2. CASE UNCHANGED vars
      BY <2>2 DEF vars, IndInv, TypeOK, MutualExclusion, OwnerIsHolder, OwnerCleared,
                  SleeperHasWaker, Holds, Asleep, At
    <2> QED BY <2>1, <2>2
  <1> QED BY InitInv, <1>1, PTL DEF Spec

\* However many threads compete, at most one is between the compare-and-swap
\* of rt_mutex_lock and the release of rt_mutex_unlock.
THEOREM FutexExcludes == Spec => []MutualExclusion
  BY FutexInvariant, PTL DEF IndInv

\* The owner field names the thread in the critical section, and nobody once
\* the futex word is free.
THEOREM FutexOwner == Spec => []OwnerIsHolder
  BY FutexInvariant, PTL DEF IndInv

\* No wakeup is lost: a sleeper in FUTEX_WAIT always has a thread that holds
\* the lock, is about to wake it, or is on its way to the lock.
THEOREM FutexNoLostWakeup == Spec => []SleeperHasWaker
  BY FutexInvariant, PTL DEF IndInv
-----------------------------------------------------------------------------
(***************************************************************************)
(* smartPointer.c, for any number of threads and references.               *)
(***************************************************************************)
CONSTANTS RefThreads, Main, MaxRefs   \* of the shared_ptr: threads, creator, bound

VARIABLES blocks, ref_count, mutex, refs, sp_pc, for

SP == INSTANCE SharedPtr WITH Threads <- RefThreads, None <- 0, pc <- sp_pc

\* The creator is one of the threads, and 0 is none.
ASSUME RefsAssumption == Main \in RefThreads /\ 0 \notin RefThreads /\ MaxRefs \in Nat \ {0}

\* The sets that SharedPtr counts are counted as here.
LEMMA SPSizes == \A S : /\ SP!IsFiniteSet(S) <=> IsFiniteSet(S)
                        /\ SP!Cardinality(S) = Cardinality(S)
  BY DEF SP!IsFiniteSet, IsFiniteSet, SP!Cardinality, Cardinality

\* What it means to hold the k-th reference.
LEMMA InHeld ==
  ASSUME SP!Types, NEW t \in RefThreads, NEW k
  PROVE  <<t, k>> \in SP!Held <=> k \in 1 .. refs[t]
  BY DEF SP!Held

\* A count of 0 means that nobody holds a reference, a count of 1 that one
\* thread holds one.
LEMMA CountSays ==
  ASSUME SP!Types, SP!Counted
  PROVE  /\ ref_count = 0 <=> \A t \in RefThreads : refs[t] = 0
         /\ \A t \in RefThreads : ref_count = 1 /\ refs[t] > 0 =>
              refs[t] = 1 /\ \A u \in RefThreads : u # t => refs[u] = 0
<1>1. ref_count = 0 <=> SP!Held = {}
  BY FS_EmptySet, SPSizes DEF SP!Counted
<1>2. ASSUME SP!Held = {}, NEW t \in RefThreads PROVE refs[t] = 0
  <2>1. <<t, 1>> \notin SP!Held
    BY <1>2
  <2> QED
    BY <2>1, InHeld DEF SP!Types
<1>3. ASSUME \A t \in RefThreads : refs[t] = 0 PROVE SP!Held = {}
  BY <1>3 DEF SP!Held
<1>4. ASSUME NEW t \in RefThreads, ref_count = 1, refs[t] > 0,
             NEW u \in RefThreads, NEW k \in 1 .. refs[u]
      PROVE  u = t /\ k = 1
  <2>1. PICK h : SP!Held = {h}
    BY Zenon, <1>4, FS_Singleton, SPSizes DEF SP!Counted
  <2>2. <<t, 1>> \in SP!Held /\ <<u, k>> \in SP!Held
    BY <1>4, InHeld DEF SP!Types
  <2> QED
    BY <2>1, <2>2
<1>5. ASSUME NEW t \in RefThreads, ref_count = 1, refs[t] > 0
      PROVE  refs[t] = 1 /\ \A u \in RefThreads : u # t => refs[u] = 0
  <2>1. refs[t] = 1
    BY <1>4, <1>5 DEF SP!Types
  <2>2. ASSUME NEW u \in RefThreads, u # t PROVE refs[u] = 0
    BY <1>4, <1>5, <2>2 DEF SP!Types
  <2> QED
    BY <2>1, <2>2
<1> QED
  BY <1>1, <1>2, <1>3, <1>5

\* No thread holds more references than there are.
LEMMA SomeOfAll ==
  ASSUME SP!Types, SP!Counted, NEW t \in RefThreads
  PROVE  refs[t] <= ref_count
<1> DEFINE n == refs[t]
           S == {<<t, k>> : k \in 1 .. n}
           f == [k \in 1 .. n |-> <<t, k>>]
<1>1. n \in Nat
  BY DEF SP!Types
<1>2. S \subseteq SP!Held
  BY InHeld
<1>3. f \in Bijection(1 .. n, S)
  <2>1. \A i, j \in 1 .. n : f[i] = f[j] => i = j
    OBVIOUS
  <2>2. f \in [1 .. n -> S] /\ \A s \in S : \E k \in 1 .. n : f[k] = s
    OBVIOUS
  <2> QED
    BY <2>1, <2>2 DEF Bijection, Injection, Surjection, IsInjective
<1>4. IsFiniteSet(1 .. n) /\ Cardinality(1 .. n) = n
  BY <1>1, FS_Interval
<1>5. IsFiniteSet(S) /\ Cardinality(S) = n
  <2> HIDE DEF S, f
  <2> QED
    BY <1>3, <1>4, FS_Bijection DEF ExistsBijection
<1>6. Cardinality(S) <= Cardinality(SP!Held)
  BY <1>2, FS_Subset, SPSizes DEF SP!Counted
<1> QED
  BY <1>5, <1>6, SPSizes DEF SP!Counted

\* One reference more for one thread is one more in all.
LEMMA OneMore ==
  ASSUME SP!Types, SP!Counted, NEW u \in RefThreads,
         refs' = [refs EXCEPT ![u] = @ + 1], ref_count' = ref_count + 1
  PROVE  SP!Counted'
<1>1. SP!Held' = SP!Held \cup {<<u, refs[u] + 1>>}
  BY DEF SP!Types, SP!Held
<1>2. <<u, refs[u] + 1>> \notin SP!Held
  BY InHeld DEF SP!Types
<1> QED
  BY Zenon, <1>1, <1>2, FS_AddElement, SPSizes DEF SP!Counted

\* One reference less for one thread is one less in all.
LEMMA OneLess ==
  ASSUME SP!Types, SP!Counted, NEW u \in RefThreads, refs[u] > 0,
         refs' = [refs EXCEPT ![u] = @ - 1], ref_count' = ref_count - 1
  PROVE  SP!Counted'
<1>1. SP!Held' = SP!Held \ {<<u, refs[u]>>}
  BY DEF SP!Types, SP!Held
<1>2. <<u, refs[u]>> \in SP!Held
  BY InHeld DEF SP!Types
<1> QED
  BY <1>1, <1>2, FS_RemoveElement, SPSizes DEF SP!Counted

\* Before create_shared nothing is allocated.
LEMMA RefsStart == SP!Init => SP!RefsInv
<1> SUFFICES ASSUME SP!Init PROVE SP!RefsInv
  OBVIOUS
<1> USE RefsAssumption DEF SP!Init
<1>1. SP!Types
  BY DEF SP!Types
<1>2. SP!Held = {}
  BY DEF SP!Held
<1>3. SP!Counted
  BY <1>2, FS_EmptySet, SPSizes DEF SP!Counted
<1>4. SP!Phases
  BY DEF SP!Phases, SP!Deleting
<1> QED
  BY <1>1, <1>3, <1>4 DEF SP!RefsInv

\* How far create_shared has got is told by the number of blocks.
LEMMA BlockCounts ==
  /\ Cardinality({}) = 0 /\ Cardinality({"ptr"}) = 1
  /\ Cardinality({"ptr", "data"}) = 2 /\ Cardinality(SP!AllBlocks) = 3
<1>1. IsFiniteSet({}) /\ Cardinality({}) = 0
  BY FS_EmptySet
<1>2. IsFiniteSet({"ptr"}) /\ Cardinality({"ptr"}) = 1
  BY FS_Singleton
<1>3. {"ptr", "data"} = {"ptr"} \cup {"data"} /\ SP!AllBlocks = {"ptr", "data"} \cup {"count"}
  BY DEF SP!AllBlocks
<1>4. IsFiniteSet({"ptr", "data"}) /\ Cardinality({"ptr", "data"}) = 2
  BY <1>2, <1>3, FS_AddElement
<1>5. Cardinality(SP!AllBlocks) = 3
  BY <1>3, <1>4, FS_AddElement
<1> QED
  BY <1>1, <1>2, <1>4, <1>5

\* create_shared allocates in order, and frees what it got when a later step fails.
LEMMA CreateKeeps == SP!RefsInv /\ SP!create_shared => SP!RefsInv'
<1> SUFFICES ASSUME SP!RefsInv, SP!create_shared PROVE SP!RefsInv'
  OBVIOUS
<1> USE RefsAssumption
<1> DEFINE n == Cardinality(blocks) + 1
<1>1. /\ sp_pc[Main] = "malloc" /\ ref_count = 0
      /\ \A u \in RefThreads : u # Main => sp_pc[u] = "idle"
      /\ \A t \in RefThreads : refs[t] = 0
  BY CountSays DEF SP!create_shared, SP!RefsInv, SP!Phases
<1>2. \/ n = 1 /\ blocks = {}
      \/ n = 2 /\ blocks = {"ptr"}
      \/ n = 3 /\ blocks = {"ptr", "data"}
      \/ n = 4 /\ blocks = SP!AllBlocks
  BY <1>1, BlockCounts DEF SP!RefsInv, SP!Phases
<1>3. CASE /\ n <= 3 /\ blocks' = blocks \cup {<<"ptr", "data", "count">>[n]}
           /\ UNCHANGED <<ref_count, refs, sp_pc, mutex, for>>
  <2>1. blocks' \in {{"ptr"}, {"ptr", "data"}, SP!AllBlocks}
    BY <1>2, <1>3 DEF SP!AllBlocks
  <2>2. SP!Types'
    BY <1>3, <2>1 DEF SP!RefsInv, SP!Types, SP!AllBlocks
  <2>3. SP!Counted'
    BY <1>3 DEF SP!RefsInv, SP!Counted, SP!Held
  <2>4. SP!Phases'
    BY <1>1, <1>3, <2>1 DEF SP!RefsInv, SP!Types, SP!Phases, SP!Deleting
  <2> QED
    BY <2>2, <2>3, <2>4 DEF SP!RefsInv
<1>4. CASE /\ n = 4 /\ ref_count' = 1 /\ refs' = [refs EXCEPT ![Main] = 1]
           /\ SP!Goto(Main, "idle") /\ UNCHANGED <<blocks, mutex, for>>
  <2>1. SP!Types'
    BY <1>4 DEF SP!RefsInv, SP!Types, SP!Goto
  <2>2. refs[Main] + 1 = 1 /\ ref_count' = ref_count + 1
    BY <1>1, <1>4
  <2>3. refs' = [refs EXCEPT ![Main] = @ + 1]
    BY Zenon, <1>4, <2>2
  <2>4. SP!Counted'
    BY Zenon, <2>2, <2>3, OneMore DEF SP!RefsInv
  <2>5. SP!Phases'
    BY <1>1, <1>2, <1>4 DEF SP!RefsInv, SP!Types, SP!Phases, SP!Deleting, SP!Goto
  <2> QED
    BY <2>1, <2>4, <2>5 DEF SP!RefsInv
<1>5. CASE /\ blocks' = blocks \ SP!Undone(n)
           /\ SP!Goto(Main, "idle") /\ UNCHANGED <<ref_count, refs, mutex, for>>
  <2>1. blocks' = {}
    BY <1>2, <1>5 DEF SP!Undone, SP!AllBlocks
  <2>2. SP!Types'
    BY Zenon, <1>5, <2>1 DEF SP!RefsInv, SP!Types, SP!Goto
  <2>3. SP!Counted'
    BY <1>5 DEF SP!RefsInv, SP!Counted, SP!Held
  <2>4. \A t \in RefThreads : sp_pc'[t] = "idle"
    BY <1>1, <1>5 DEF SP!RefsInv, SP!Types, SP!Goto
  <2>5. SP!Phases'
    <3>1. UNCHANGED <<ref_count, refs, mutex>>
      BY <1>5
    <3> QED
      BY <1>1, <2>1, <2>4, <3>1 DEF SP!RefsInv, SP!Types, SP!Phases, SP!Deleting
  <2> QED
    BY <2>2, <2>3, <2>5 DEF SP!RefsInv
<1> QED
  BY <1>3, <1>4, <1>5, SPSizes DEF SP!create_shared

\* Every step of shared_ptr_inc_ref and shared_ptr_dec_ref, of whatever threads, keeps
\* the count and the blocks together.
LEMMA RefsStep == SP!RefsInv /\ [SP!Next]_(SP!vars) => SP!RefsInv'
<1> SUFFICES ASSUME SP!RefsInv, [SP!Next]_(SP!vars) PROVE SP!RefsInv'
  OBVIOUS
<1> USE RefsAssumption
<1>1. ASSUME NEW t \in RefThreads, SP!Begin(t) PROVE SP!RefsInv'
  <2>1. ref_count > 0
    BY <1>1, CountSays DEF SP!Begin, SP!RefsInv, SP!Types
  <2>2. SP!Types'
    BY <1>1 DEF SP!Begin, SP!RefsInv, SP!Types, SP!Goto
  <2>3. SP!Counted'
    BY <1>1 DEF SP!Begin, SP!RefsInv, SP!Counted, SP!Held
  <2>4. SP!Phases'
    BY <1>1, <2>1 DEF SP!Begin, SP!RefsInv, SP!Types, SP!Phases, SP!Deleting, SP!Goto
  <2> QED
    BY <2>2, <2>3, <2>4 DEF SP!RefsInv
<1>2. ASSUME NEW t \in RefThreads, SP!Lock(t) PROVE SP!RefsInv'
  <2>1. SP!Types'
    BY <1>2 DEF SP!Lock, SP!RefsInv, SP!Types, SP!Goto
  <2>2. SP!Counted'
    BY <1>2 DEF SP!Lock, SP!RefsInv, SP!Counted, SP!Held
  <2>3. SP!Phases'
    BY <1>2 DEF SP!Lock, SP!RefsInv, SP!Types, SP!Phases, SP!Deleting, SP!Goto
  <2> QED
    BY <2>1, <2>2, <2>3 DEF SP!RefsInv
<1>3. ASSUME NEW t \in RefThreads, SP!shared_ptr_inc_ref(t) PROVE SP!RefsInv'
  <2>1. ref_count > 0
    BY <1>3, CountSays DEF SP!shared_ptr_inc_ref, SP!RefsInv, SP!Types, SP!Phases
  <2>2. SP!Types'
    BY <1>3 DEF SP!shared_ptr_inc_ref, SP!RefsInv, SP!Types, SP!Goto
  <2>3. SP!Counted'
    <3>1. CASE ref_count < MaxRefs
      BY <1>3, <3>1, OneMore DEF SP!shared_ptr_inc_ref, SP!RefsInv, SP!Types
    <3>2. CASE ~(ref_count < MaxRefs)
      BY <1>3, <3>2 DEF SP!shared_ptr_inc_ref, SP!RefsInv, SP!Counted, SP!Held
    <3> QED
      BY <3>1, <3>2
  <2>4. SP!Phases'
    BY <1>3, <2>1 DEF SP!shared_ptr_inc_ref, SP!RefsInv, SP!Types, SP!Phases, SP!Deleting, SP!Goto
  <2> QED
    BY <2>2, <2>3, <2>4 DEF SP!RefsInv
<1>4. ASSUME NEW t \in RefThreads, SP!shared_ptr_dec_ref(t) PROVE SP!RefsInv'
  <2>1. refs[t] > 0 /\ ref_count > 0 /\ mutex = t
    BY <1>4, CountSays DEF SP!shared_ptr_dec_ref, SP!RefsInv, SP!Types, SP!Phases
  <2>2. SP!Types'
    BY <1>4, <2>1 DEF SP!shared_ptr_dec_ref, SP!RefsInv, SP!Types, SP!Goto
  <2>3. SP!Counted'
    BY Zenon, <1>4, <2>1, OneLess DEF SP!shared_ptr_dec_ref, SP!RefsInv
  <2>4. CASE ref_count = 1
    <3>1. \A u \in RefThreads : u # t => refs[u] = 0
      BY <2>1, <2>4, CountSays DEF SP!RefsInv
    <3>2. \A u \in RefThreads : u # t => sp_pc[u] = "idle"
      BY <2>1, <2>4, <3>1 DEF SP!RefsInv, SP!Types, SP!Phases, SP!Deleting
    <3>3. SP!Phases'
      BY <1>4, <2>1, <2>4, <3>1, <3>2
         DEF SP!shared_ptr_dec_ref, SP!RefsInv, SP!Types, SP!Phases, SP!Deleting, SP!Goto
    <3> QED
      BY <2>2, <2>3, <3>3 DEF SP!RefsInv
  <2>5. CASE ref_count # 1
    <3>1. SP!Phases'
      BY <1>4, <2>1, <2>5 DEF SP!shared_ptr_dec_ref, SP!RefsInv, SP!Types, SP!Phases, SP!Deleting,
         SP!Goto
    <3> QED
      BY <2>2, <2>3, <3>1 DEF SP!RefsInv
  <2> QED
    BY <2>4, <2>5
<1>5. ASSUME NEW t \in RefThreads, SP!Unlock(t) PROVE SP!RefsInv'
  <2>1. SP!Types'
    BY <1>5 DEF SP!Unlock, SP!RefsInv, SP!Types, SP!Goto
  <2>2. SP!Counted'
    BY <1>5 DEF SP!Unlock, SP!RefsInv, SP!Counted, SP!Held
  <2>3. SP!Phases'
    BY <1>5 DEF SP!Unlock, SP!RefsInv, SP!Types, SP!Phases, SP!Deleting, SP!Goto
  <2> QED
    BY <2>1, <2>2, <2>3 DEF SP!RefsInv
<1>6. ASSUME NEW t \in RefThreads, SP!Delete(t) PROVE SP!RefsInv'
  <2>1. SP!Types'
    BY Zenon, <1>6 DEF SP!Delete, SP!Free, SP!RefsInv, SP!Types, SP!Goto
  <2>2. SP!Counted'
    BY <1>6 DEF SP!Delete, SP!Free, SP!RefsInv, SP!Counted, SP!Held
  <2>3. SP!Phases'
    BY <1>6 DEF SP!Delete, SP!Free, SP!RefsInv, SP!Types, SP!Phases, SP!Deleting, SP!Goto,
       SP!AllBlocks
  <2> QED
    BY <2>1, <2>2, <2>3 DEF SP!RefsInv
<1>7. CASE UNCHANGED SP!vars
  <2>1. SP!Types' /\ SP!Phases'
    BY <1>7 DEF SP!vars, SP!RefsInv, SP!Types, SP!Phases, SP!Deleting
  <2>2. SP!Counted'
    BY <1>7 DEF SP!vars, SP!RefsInv, SP!Counted, SP!Held
  <2> QED
    BY <2>1, <2>2 DEF SP!RefsInv
<1> QED
  BY CreateKeeps, <1>1, <1>2, <1>3, <1>4, <1>5, <1>6, <1>7 DEF SP!Next

\* What the invariant gives: nothing is touched after it was freed, one thread deletes,
\* and nothing is left when all references are gone.
LEMMA RefsSafe == SP!RefsInv => SP!TypeOK /\ SP!NoUseAfterFree /\ SP!OneDeleter /\ SP!NoLeak
<1> SUFFICES ASSUME SP!RefsInv PROVE SP!TypeOK /\ SP!NoUseAfterFree /\ SP!OneDeleter /\ SP!NoLeak
  OBVIOUS
<1>1. \A t \in RefThreads : refs[t] > 0 => ref_count > 0
  BY CountSays DEF SP!RefsInv, SP!Types
<1>2. SP!NoUseAfterFree
  BY <1>1 DEF SP!NoUseAfterFree, SP!Touches, SP!RefsInv, SP!Types, SP!Phases, SP!AllBlocks
<1>3. SP!OneDeleter
  <2> DEFINE D == {t \in RefThreads : sp_pc[t] \in {"unlock_delete", "delete", "free_count", "free_ptr"}}
  <2>1. CASE D = {}
    BY <2>1, FS_EmptySet, SPSizes DEF SP!OneDeleter
  <2>2. CASE D # {}
    <3>1. PICK t \in D : TRUE
      BY <2>2
    <3>2. D = {t}
      BY <3>1 DEF SP!RefsInv, SP!Phases, SP!Deleting
    <3>3. SP!Cardinality(D) = 1
      BY Zenon, <3>2, FS_Singleton, SPSizes
    <3>4. \A n : n = 1 => n <= 1
      OBVIOUS
    <3> QED
      BY Zenon, <3>3, <3>4 DEF SP!OneDeleter
  <2> QED
    BY <2>1, <2>2
<1>4. SP!NoLeak
  BY CountSays DEF SP!NoLeak, SP!RefsInv, SP!Phases
<1>5. SP!TypeOK
  BY SomeOfAll DEF SP!RefsInv, SP!TypeOK
<1> QED
  BY <1>2, <1>3, <1>4, <1>5
-----------------------------------------------------------------------------
(***************************************************************************)
(* uniquePointer.c, for any number of threads and blocks.                  *)
(***************************************************************************)
CONSTANTS PtrThreads, Blocks, First, NULL   \* of the unique_ptr

VARIABLES ptr, is_owned, uq_pc, got, fresh, live

UQ == INSTANCE UniquePtr WITH Threads <- PtrThreads, pc <- uq_pc

\* NULL is no block, and the shared unique_ptr is no thread.
ASSUME PtrAssumption == First \in Blocks /\ NULL \notin Blocks /\ "shared" \notin PtrThreads

\* unique_ptr_create: the shared pointer owns the block of main.
LEMMA PtrStart == UQ!Init => UQ!PtrInv
<1> SUFFICES ASSUME UQ!Init PROVE UQ!PtrInv
  OBVIOUS
<1> USE PtrAssumption DEF UQ!Init
<1>1. UQ!TypeOK
  BY DEF UQ!TypeOK
<1>2. \A b \in Blocks : UQ!Owners(b) = IF b = First THEN {"shared"} ELSE {}
  BY DEF UQ!Owners
<1>3. UQ!Settled
  BY <1>2 DEF UQ!Settled
<1>4. UQ!Handover
  BY DEF UQ!Handover, UQ!Winner
<1> QED
  BY <1>1, <1>3, <1>4 DEF UQ!PtrInv

\* A step after which the blocks in lost have no owner any more, gained has the
\* owner o alone, and the others have the owners they had.
LEMMA Resettled ==
  ASSUME UQ!TypeOK, UQ!Settled,
         \A b \in Blocks : \/ UQ!Owners(b)' = UQ!Owners(b) /\ live'[b] = live[b]
                           \/ UQ!Owners(b)' = {} /\ live'[b] = 0
                           \/ live'[b] = 1 /\ \E o : UQ!Owners(b)' = {o}
  PROVE  UQ!Settled'
  BY DEF UQ!TypeOK, UQ!Settled

\* An owner of a block is its only one, and the block is allocated.
LEMMA SoleOwner ==
  ASSUME UQ!Settled, NEW b \in Blocks, NEW o \in UQ!Owners(b)
  PROVE  UQ!Owners(b) = {o} /\ live[b] = 1
  BY DEF UQ!Settled

\* Every step of unique_ptr_destroy, release, move and reset keeps one owner for each
\* block.
LEMMA PtrStep == UQ!PtrInv /\ [UQ!Next]_(UQ!vars) => UQ!PtrInv'
<1> SUFFICES ASSUME UQ!PtrInv, [UQ!Next]_(UQ!vars) PROVE UQ!PtrInv'
  OBVIOUS
<1> USE PtrAssumption DEF UQ!Goto, UQ!Winner
<1>1. ASSUME NEW t \in PtrThreads, UQ!unique_ptr_destroy(t) PROVE UQ!PtrInv'
  <2>1. CASE uq_pc[t] = "idle"
    <3> USE <1>1, <2>1 DEF UQ!unique_ptr_destroy, UQ!TakeOwnership
    <3>1. UQ!TypeOK'
      BY Zenon DEF UQ!PtrInv, UQ!TypeOK
    <3>2. ASSUME NEW b \in Blocks
          PROVE  \/ UQ!Owners(b)' = UQ!Owners(b) /\ live'[b] = live[b]
                 \/ live'[b] = 1 /\ \E o : UQ!Owners(b)' = {o}
      <4>1. CASE is_owned /\ ptr = b
        <5>1. "shared" \in UQ!Owners(b)
          BY <4>1 DEF UQ!Owners
        <5>2. live[b] = 1 /\ UQ!Owners(b) = {"shared"}
          BY <5>1 DEF UQ!PtrInv, UQ!Settled
        <5>3. UQ!Owners(b)' = {t}
          BY <4>1, <5>2 DEF UQ!PtrInv, UQ!TypeOK, UQ!Owners, UQ!Handover
        <5> QED
          BY <5>2, <5>3
      <4>2. CASE ~(is_owned /\ ptr = b)
        BY <4>2 DEF UQ!PtrInv, UQ!TypeOK, UQ!Owners
      <4> QED
        BY <4>1, <4>2
    <3>3. UQ!Handover'
      BY DEF UQ!PtrInv, UQ!TypeOK, UQ!Handover
    <3> QED
      BY Zenon, <3>1, <3>2, <3>3, Resettled DEF UQ!PtrInv
  <2>2. CASE uq_pc[t] = "delete"
    <3> USE <1>1, <2>2 DEF UQ!unique_ptr_destroy, UQ!deleter
    <3>1. UQ!Owners(ptr) = {t} /\ ptr \in Blocks /\ live[ptr] = 1
      <4>1. ptr \in Blocks
        BY DEF UQ!PtrInv, UQ!Handover
      <4>2. t \in UQ!Owners(ptr)
        BY DEF UQ!Owners
      <4> QED
        BY <4>1, <4>2, SoleOwner DEF UQ!PtrInv
    <3>2. UQ!TypeOK'
      BY <3>1 DEF UQ!PtrInv, UQ!TypeOK
    <3>3. ASSUME NEW b \in Blocks
          PROVE  \/ UQ!Owners(b)' = UQ!Owners(b) /\ live'[b] = live[b]
                 \/ UQ!Owners(b)' = {} /\ live'[b] = 0
      <4>1. CASE ptr = b
        <5>1. UQ!Owners(b)' = UQ!Owners(b) \ {t}
          BY <3>1, <4>1 DEF UQ!PtrInv, UQ!TypeOK, UQ!Owners
        <5> QED
          BY <3>1, <4>1, <5>1 DEF UQ!PtrInv, UQ!TypeOK
      <4>2. CASE ptr # b
        BY <3>1, <4>2 DEF UQ!PtrInv, UQ!TypeOK, UQ!Owners, UQ!Handover
      <4> QED
        BY <4>1, <4>2
    <3>4. UQ!Handover'
      BY <3>1 DEF UQ!PtrInv, UQ!TypeOK, UQ!Handover
    <3> QED
      BY Zenon, <3>2, <3>3, <3>4, Resettled DEF UQ!PtrInv
  <2>3. CASE uq_pc[t] = "null"
    <3> USE <1>1, <2>3 DEF UQ!unique_ptr_destroy
    <3>1. UQ!TypeOK'
      BY DEF UQ!PtrInv, UQ!TypeOK
    <3>2. \A b \in Blocks : UQ!Owners(b)' = UQ!Owners(b) /\ live'[b] = live[b]
      BY DEF UQ!PtrInv, UQ!TypeOK, UQ!Owners, UQ!Handover
    <3>3. UQ!Handover'
      BY DEF UQ!PtrInv, UQ!TypeOK, UQ!Handover
    <3> QED
      BY Zenon, <3>1, <3>2, <3>3, Resettled DEF UQ!PtrInv
  <2> QED
    BY <1>1, <2>1, <2>2, <2>3 DEF UQ!unique_ptr_destroy
<1>2. ASSUME NEW t \in PtrThreads, UQ!CopyPtr(t) PROVE UQ!PtrInv'
  <2> USE <1>2 DEF UQ!CopyPtr
  <2>1. UQ!TypeOK'
    BY DEF UQ!PtrInv, UQ!TypeOK
  <2>2. \A b \in Blocks : UQ!Owners(b)' = UQ!Owners(b) /\ live'[b] = live[b]
    BY DEF UQ!PtrInv, UQ!TypeOK, UQ!Owners
  <2>3. UQ!Handover'
    BY DEF UQ!PtrInv, UQ!TypeOK, UQ!Handover
  <2> QED
    BY <2>1, <2>2, <2>3, Resettled DEF UQ!PtrInv
<1>3. ASSUME NEW t \in PtrThreads, UQ!Exchange(t) PROVE UQ!PtrInv'
  <2> USE <1>3 DEF UQ!Exchange, UQ!TakeOwnership
  <2>1. UQ!TypeOK'
    BY Zenon DEF UQ!PtrInv, UQ!TypeOK
  <2>2. ASSUME NEW b \in Blocks
        PROVE  \/ UQ!Owners(b)' = UQ!Owners(b) /\ live'[b] = live[b]
               \/ live'[b] = 1 /\ \E o : UQ!Owners(b)' = {o}
    <3>1. CASE is_owned /\ ptr = b
      <4>1. "shared" \in UQ!Owners(b)
        BY <3>1 DEF UQ!Owners
      <4>2. live[b] = 1 /\ UQ!Owners(b) = {"shared"}
        BY <4>1 DEF UQ!PtrInv, UQ!Settled
      <4>3. UQ!Owners(b)' = {t}
        BY <3>1, <4>2 DEF UQ!PtrInv, UQ!TypeOK, UQ!Owners, UQ!Handover
      <4> QED
        BY <4>2, <4>3
    <3>2. CASE ~(is_owned /\ ptr = b)
      BY <3>2 DEF UQ!PtrInv, UQ!TypeOK, UQ!Owners, UQ!Handover
    <3> QED
      BY Zenon, <3>1, <3>2
  <2>3. UQ!Handover'
    BY DEF UQ!PtrInv, UQ!TypeOK, UQ!Handover
  <2> QED
    BY Zenon, <2>1, <2>2, <2>3, Resettled DEF UQ!PtrInv
<1>4. ASSUME NEW t \in PtrThreads, UQ!Clear(t) PROVE UQ!PtrInv'
  <2> USE <1>4 DEF UQ!Clear
  <2>1. UQ!TypeOK'
    BY DEF UQ!PtrInv, UQ!TypeOK
  <2>2. \A b \in Blocks : UQ!Owners(b)' = UQ!Owners(b) /\ live'[b] = live[b]
    BY DEF UQ!PtrInv, UQ!TypeOK, UQ!Owners, UQ!Handover
  <2>3. UQ!Handover'
    BY Zenon DEF UQ!PtrInv, UQ!TypeOK, UQ!Handover
  <2> QED
    BY <2>1, <2>2, <2>3, Resettled DEF UQ!PtrInv
<1>5. ASSUME NEW t \in PtrThreads, UQ!Drop(t) PROVE UQ!PtrInv'
  <2> USE <1>5 DEF UQ!Drop
  <2>1. UQ!TypeOK'
    BY DEF UQ!PtrInv, UQ!TypeOK
  <2>2. \A b \in Blocks : UQ!Owners(b)' = UQ!Owners(b) /\ live'[b] = live[b]
    BY DEF UQ!PtrInv, UQ!TypeOK, UQ!Owners
  <2>3. UQ!Handover'
    BY DEF UQ!PtrInv, UQ!TypeOK, UQ!Handover
  <2> QED
    BY <2>1, <2>2, <2>3, Resettled DEF UQ!PtrInv
<1>6. ASSUME NEW t \in PtrThreads, UQ!Dispose(t) PROVE UQ!PtrInv'
  <2> USE <1>6 DEF UQ!Dispose, UQ!deleter
  <2>1. got[t] \in Blocks /\ UQ!Owners(got[t]) = {t} /\ live[got[t]] = 1
    <3>1. got[t] \in Blocks
      BY DEF UQ!PtrInv, UQ!TypeOK
    <3>2. t \in UQ!Owners(got[t])
      BY DEF UQ!Owners
    <3> QED
      BY <3>1, <3>2, SoleOwner DEF UQ!PtrInv
  <2>2. UQ!TypeOK'
    BY <2>1 DEF UQ!PtrInv, UQ!TypeOK
  <2>3. ASSUME NEW b \in Blocks
        PROVE  \/ UQ!Owners(b)' = UQ!Owners(b) /\ live'[b] = live[b]
               \/ UQ!Owners(b)' = {} /\ live'[b] = 0
    <3>1. CASE got[t] = b
      <4>1. UQ!Owners(b)' = UQ!Owners(b) \ {t}
        BY <2>1, <3>1 DEF UQ!PtrInv, UQ!TypeOK, UQ!Owners
      <4> QED
        BY <2>1, <3>1, <4>1 DEF UQ!PtrInv, UQ!TypeOK
    <3>2. CASE got[t] # b
      BY <3>2 DEF UQ!PtrInv, UQ!TypeOK, UQ!Owners
    <3> QED
      BY <3>1, <3>2
  <2>4. UQ!Handover'
    BY <2>1 DEF UQ!PtrInv, UQ!TypeOK, UQ!Handover
  <2> QED
    BY <2>2, <2>3, <2>4, Resettled DEF UQ!PtrInv
<1>7. ASSUME NEW t \in PtrThreads, NEW p \in Blocks, UQ!unique_ptr_reset(t, p) PROVE UQ!PtrInv'
  <2> USE <1>7 DEF UQ!unique_ptr_reset
  <2>1. live[p] = 0 /\ UQ!Owners(p) = {}
    BY DEF UQ!PtrInv, UQ!TypeOK, UQ!Settled, UQ!Handover
  <2>2. CASE is_owned
    <3>1. ptr \in Blocks /\ UQ!Owners(ptr) = {"shared"} /\ live[ptr] = 1
      <4>1. ptr \in Blocks
        BY <2>2 DEF UQ!PtrInv, UQ!Handover
      <4>2. "shared" \in UQ!Owners(ptr)
        BY <2>2 DEF UQ!Owners
      <4> QED
        BY <4>1, <4>2, SoleOwner DEF UQ!PtrInv
    <3>2. UQ!TypeOK'
      BY <2>1, <2>2, <3>1 DEF UQ!PtrInv, UQ!TypeOK
    <3>3. ASSUME NEW b \in Blocks
          PROVE  \/ UQ!Owners(b)' = UQ!Owners(b) /\ live'[b] = live[b]
                 \/ UQ!Owners(b)' = {} /\ live'[b] = 0
                 \/ live'[b] = 1 /\ \E o : UQ!Owners(b)' = {o}
      <4>1. CASE b = p
        <5>1. UQ!Owners(b)' = {"shared"}
          BY <2>1, <2>2, <3>1, <4>1 DEF UQ!PtrInv, UQ!TypeOK, UQ!Owners
        <5>2. live'[b] = 1
          BY <2>1, <2>2, <3>1, <4>1 DEF UQ!PtrInv, UQ!TypeOK
        <5> QED
          BY Zenon, <5>1, <5>2
      <4>2. CASE b = ptr
        <5>1. UQ!Owners(b)' = UQ!Owners(b) \ {"shared"}
          BY <2>1, <2>2, <3>1, <4>2 DEF UQ!PtrInv, UQ!TypeOK, UQ!Owners
        <5> QED
          BY <2>1, <2>2, <3>1, <4>2, <5>1 DEF UQ!PtrInv, UQ!TypeOK
      <4>3. CASE b # p /\ b # ptr
        BY Zenon, <2>2, <4>3 DEF UQ!PtrInv, UQ!TypeOK, UQ!Owners
      <4> QED
        BY Zenon, <4>1, <4>2, <4>3
    <3>4. UQ!Handover'
      BY <2>1, <2>2, <3>1 DEF UQ!PtrInv, UQ!TypeOK, UQ!Handover
    <3> QED
      BY Zenon, <3>2, <3>3, <3>4, Resettled DEF UQ!PtrInv
  <2>3. CASE ~is_owned
    <3>1. UQ!TypeOK'
      BY <2>3 DEF UQ!PtrInv, UQ!TypeOK
    <3>2. ASSUME NEW b \in Blocks
          PROVE  \/ UQ!Owners(b)' = UQ!Owners(b) /\ live'[b] = live[b]
                 \/ live'[b] = 1 /\ \E o : UQ!Owners(b)' = {o}
      <4>1. CASE b = p
        <5>1. UQ!Owners(b)' = UQ!Owners(b) \cup {t}
          BY <2>3, <4>1 DEF UQ!PtrInv, UQ!TypeOK, UQ!Owners
        <5>2. UQ!Owners(b)' = {t}
          BY <2>1, <4>1, <5>1
        <5>3. live'[b] = 1
          BY Zenon, <2>3, <4>1 DEF UQ!PtrInv, UQ!TypeOK
        <5> QED
          BY <5>2, <5>3
      <4>2. CASE b # p
        BY <2>3, <4>2 DEF UQ!PtrInv, UQ!TypeOK, UQ!Owners
      <4> QED
        BY Zenon, <4>1, <4>2
    <3>3. UQ!Handover'
      BY <2>1, <2>3 DEF UQ!PtrInv, UQ!TypeOK, UQ!Handover
    <3> QED
      BY Zenon, <3>1, <3>2, <3>3, Resettled DEF UQ!PtrInv
  <2> QED
    BY <2>2, <2>3 DEF UQ!PtrInv, UQ!TypeOK
<1>8. CASE UNCHANGED UQ!vars
  <2> USE <1>8 DEF UQ!vars
  <2>1. UQ!TypeOK' /\ UQ!Handover'
    BY DEF UQ!PtrInv, UQ!TypeOK, UQ!Handover
  <2>2. \A b \in Blocks : UQ!Owners(b)' = UQ!Owners(b) /\ live'[b] = live[b]
    BY DEF UQ!Owners
  <2> QED
    BY Zenon, <2>1, <2>2, Resettled DEF UQ!PtrInv
<1> QED
  BY Zenon, <1>1, <1>2, <1>3, <1>4, <1>5, <1>6, <1>7, <1>8 DEF UQ!Next, UQ!unique_ptr_release_or_move

\* Owners are counted as sets are here.
LEMMA UQSizes == \A S : UQ!Cardinality(S) = Cardinality(S)
  BY DEF UQ!Cardinality, Cardinality

\* What the invariant gives, in numbers of owners.
LEMMA PtrOwner == UQ!PtrInv => UQ!TypeOK /\ UQ!OneOwner
<1> SUFFICES ASSUME UQ!PtrInv, NEW b \in Blocks PROVE Cardinality(UQ!Owners(b)) = live[b]
  BY UQSizes DEF UQ!PtrInv, UQ!OneOwner
<1>1. CASE live[b] = 1
  <2>1. PICK o : o \in UQ!Owners(b)
    BY <1>1 DEF UQ!PtrInv, UQ!Settled
  <2>2. UQ!Owners(b) = {o}
    BY <2>1 DEF UQ!PtrInv, UQ!Settled
  <2> QED
    BY Zenon, <1>1, <2>2, FS_Singleton
<1>2. CASE live[b] = 0
  <2>1. UQ!Owners(b) = {}
    BY <1>2 DEF UQ!PtrInv, UQ!Settled
  <2> QED
    BY <1>2, <2>1, FS_EmptySet
<1> QED
  BY <1>1, <1>2 DEF UQ!PtrInv, UQ!TypeOK
-----------------------------------------------------------------------------
(***************************************************************************)
(* priority_inheritance.c, for any set of tasks and any priorities.        *)
(***************************************************************************)
CONSTANTS Tasks, Prio   \* the tasks, and the priority of each

VARIABLES pi_lock, owner_priority, highest_waiter_priority, pi_pc

PI == INSTANCE PriorityInheritance WITH lock <- pi_lock, pc <- pi_pc

\* TLC's priorities.
SmallPrio == [t \in Tasks |-> t]

\* 0 stands for a mutex that nobody holds.
ASSUME TasksAssumption == PI!None \notin Tasks

\* rt_mutex_init: no owner, no waiter.
LEMMA NotesStart == PI!Init => PI!NotesInv
  BY TasksAssumption DEF PI!Init, PI!rt_mutex_init, PI!NotesInv, PI!Labels, PI!OwnerIsNoted,
     PI!WaiterIsReal

\* Every access of rt_mutex_lock and rt_mutex_unlock, in or outside the mutex, keeps
\* the notes true.
LEMMA NotesStep == PI!NotesInv /\ [PI!Next]_(PI!vars) => PI!NotesInv'
<1> SUFFICES ASSUME PI!NotesInv, [PI!Next]_(PI!vars) PROVE PI!NotesInv'
  OBVIOUS
<1> USE TasksAssumption DEF PI!NotesInv, PI!Labels, PI!OwnerIsNoted, PI!WaiterIsReal, PI!Goto, PI!notes, PI!None
<1>1. CASE \E t \in Tasks : PI!rt_mutex_lock(t)
  <2>1. PICK t \in Tasks : PI!rt_mutex_lock(t)
    BY <1>1
  <2>2. CASE PI!read_owner(t)
    BY <2>2 DEF PI!read_owner
  <2>3. CASE PI!compare(t)
    BY <2>3 DEF PI!compare
  <2>4. CASE PI!boost(t)
    BY <2>4 DEF PI!boost
  <2>5. CASE PI!acquire(t)
    BY <2>5 DEF PI!acquire
  <2>6. CASE PI!note(t)
    BY <2>6 DEF PI!note
  <2> QED
    BY <2>1, <2>2, <2>3, <2>4, <2>5, <2>6 DEF PI!rt_mutex_lock
<1>2. CASE \E t \in Tasks : PI!rt_mutex_unlock(t)
  BY <1>2 DEF PI!rt_mutex_unlock
<1>3. CASE UNCHANGED PI!vars
  BY <1>3 DEF PI!vars
<1> QED
  BY <1>1, <1>2, <1>3 DEF PI!Next, PI!task_function, PI!Done
-----------------------------------------------------------------------------
(***************************************************************************)
(* leaderElection.c, for any number of threads, as long as the bound on    *)
(* how late a thread is does not exceed the timeout.                       *)
(***************************************************************************)
CONSTANTS NumThreads, Interval, Timeout, Beats, MaxIdle, \* of the timely threads
          LateThreads, LateIdle          \* how many, and how late, in late_threads

VARIABLES master_id, master_alive, age, le_pc, beats, idle

LE == INSTANCE LeaderElection WITH pc <- le_pc
LF == INSTANCE LeaderElection WITH
        NumThreads <- LateThreads, MaxIdle <- LateIdle, pc <- le_pc

\* No thread of leader_election is later than the timeout allows.
ASSUME TimelyAssumption == LE!Timely

\* main starts thread 0 as the recorded master.
LEMMA ElectionInit == ASSUME LE!Timely, LE!Init PROVE LE!ElectionInv
  BY DEF LE!Timely, LE!Init, LE!ElectionInv, LE!TypeOK, LE!MasterIsRecorded, LE!HeartbeatIsFresh,
     LE!Nodes, LE!Leads

\* Every critical section of leaderElection.c, and the time between them, keeps
\* the record true.
LEMMA ElectionNext == ASSUME LE!Timely, LE!ElectionInv, [LE!Next]_(LE!vars) PROVE LE!ElectionInv'
<1> USE DEF LE!ElectionInv, LE!MasterIsRecorded, LE!HeartbeatIsFresh, LE!Leads
<1>1. CASE UNCHANGED LE!vars
  BY Zenon, <1>1 DEF LE!vars, LE!shared, LE!TypeOK
<1>2. CASE LE!Tick
  <2>1. LE!TypeOK'
    BY <1>2 DEF LE!Timely, LE!Tick, LE!TypeOK
  <2>2. LE!MasterIsRecorded'
    BY Zenon, <1>2 DEF LE!Tick
  <2>3. ASSUME master_alive' PROVE age' <= idle'[master_id']
    <3>1. master_id \in LE!Nodes /\ master_alive /\ le_pc[master_id] # "done"
      BY Zenon, <1>2, <2>3 DEF LE!Tick, LE!TypeOK
    <3>2. age' <= age + 1 /\ idle'[master_id'] = idle[master_id] + 1
      BY <1>2, <3>1 DEF LE!Timely, LE!Tick, LE!TypeOK
    <3> QED
      BY <1>2, <3>1, <3>2 DEF LE!Timely, LE!Tick, LE!TypeOK
  <2> QED
    BY Zenon, <2>1, <2>2, <2>3
<1>3. ASSUME NEW t \in LE!Nodes, LE!Heartbeat(t) PROVE LE!ElectionInv'
  BY <1>3 DEF LE!Timely, LE!Heartbeat, LE!Step, LE!TypeOK
<1>4. ASSUME NEW t \in LE!Nodes, LE!Stop(t) PROVE LE!ElectionInv'
  <2>1. LE!TypeOK'
    <3>1. master_alive' \in BOOLEAN
      BY <1>4, Zenon DEF LE!Stop
    <3> QED
      BY <1>4, <3>1 DEF LE!Timely, LE!Stop, LE!Step, LE!TypeOK
  <2>2. ~master_alive'
    BY <1>4, Zenon DEF LE!Stop
  <2>3. le_pc[t] = "master" /\ le_pc' = [le_pc EXCEPT ![t] = "done"]
    BY <1>4 DEF LE!Stop, LE!Step
  <2>4. \A u \in LE!Nodes : le_pc'[u] # "master"
    BY Zenon, <2>3 DEF LE!TypeOK
  <2> QED
    BY Zenon, <2>1, <2>2, <2>4
<1>5. ASSUME NEW t \in LE!Nodes, LE!follower_thread(t) PROVE LE!ElectionInv'
  <2>1. le_pc[t] # "master" /\ idle' = [idle EXCEPT ![t] = 0] /\ beats' = beats
    BY Zenon, <1>5 DEF LE!follower_thread, LE!Step
  <2>2. CASE LE!NoMaster
    <3>1. ~master_alive
      BY <2>2 DEF LE!NoMaster, LE!Timely, LE!TypeOK
    <3>2. LE!Promote(t)
      BY Zenon, <1>5, <2>2 DEF LE!follower_thread
    <3> QED
      BY <2>1, <3>1, <3>2 DEF LE!Promote, LE!Timely, LE!TypeOK
  <2>3. CASE ~LE!NoMaster
    <3>1. le_pc' = [le_pc EXCEPT ![t] = "waiting"] /\ UNCHANGED LE!shared
      BY Zenon, <1>5, <2>3 DEF LE!follower_thread
    <3> QED
      BY <2>1, <3>1 DEF LE!shared, LE!Timely, LE!TypeOK
  <2> QED
    BY <2>2, <2>3
<1>6. CASE LE!Terminated
  BY <1>6 DEF LE!Terminated, LE!vars, LE!shared, LE!TypeOK
<1> QED
  BY Zenon, <1>1, <1>2, <1>3, <1>4, <1>5, <1>6 DEF LE!Next, LE!master_thread

\* With threads that are never later than the timeout, however many there are, no
\* two run as master and the shared record names the one that does.
THEOREM ElectionIsRight == ASSUME LE!Timely PROVE LE!Spec => []LE!OneRecordedMaster
<1>1. LE!ElectionInv => LE!OneRecordedMaster
  BY DEF LE!ElectionInv, LE!OneRecordedMaster, LE!OneMaster, LE!MasterIsRecorded, LE!Leads
<1> QED
  BY ElectionInit, ElectionNext, <1>1, PTL DEF LE!Spec
-----------------------------------------------------------------------------
(***************************************************************************)
(* upgradeableReadLocks.c, for any finite set of threads.                  *)
(***************************************************************************)
CONSTANT UpThreads

VARIABLES up_pc, readers, writers, upgraders, is_writing

UP == INSTANCE UpgradeableRwLock WITH Threads <- UpThreads, pc <- up_pc

ASSUME UpAssumption == IsFiniteSet(UpThreads)

\* Threads are counted as sets are here.
LEMMA UPSizes == \A S : UP!Cardinality(S) = Cardinality(S)
  BY DEF UP!Cardinality, Cardinality

\* The counters of upgradeableReadLocks.c are zero when nobody is there, and a reader
\* that counts one reader is that one.
LEMMA UpPlaces ==
  ASSUME UP!UpInv
  PROVE  /\ IsFiniteSet(UP!Inside) /\ readers \in Nat /\ (readers = 0 <=> UP!Inside = {})
         /\ IsFiniteSet(UP!Upgrading) /\ upgraders \in Nat /\ (upgraders = 0 <=> UP!Upgrading = {})
         /\ \A t \in UP!Inside : readers <= 1 => readers = 1 /\ UP!Inside = {t}
<1>1. UP!Inside \subseteq UpThreads /\ UP!Upgrading \subseteq UpThreads
  BY DEF UP!UpInv, UP!TypeOK, UP!At, UP!Inside, UP!Upgrading
<1>2. IsFiniteSet(UP!Inside) /\ IsFiniteSet(UP!Upgrading)
  BY Zenon, <1>1, UpAssumption, FS_Subset
<1>3. /\ readers \in Nat /\ (readers = 0 <=> UP!Inside = {})
      /\ upgraders \in Nat /\ (upgraders = 0 <=> UP!Upgrading = {})
  BY Zenon, <1>2, FS_CardinalityType, FS_EmptySet, UPSizes DEF UP!UpInv, UP!TypeOK
<1>4. ASSUME NEW t \in UP!Inside, readers <= 1 PROVE readers = 1 /\ UP!Inside = {t}
  <2>1. readers = 1
    BY <1>3, <1>4
  <2>2. \E x : UP!Inside = {x}
    BY Zenon, <1>2, <2>1, FS_Singleton, UPSizes DEF UP!UpInv, UP!TypeOK
  <2> QED
    BY Zenon, <1>4, <2>1, <2>2
<1> QED
  BY Zenon, <1>2, <1>3, <1>4

\* The lock starts with nobody inside.
LEMMA UpStart == UP!Init => UP!UpInv
<1> SUFFICES ASSUME UP!Init PROVE UP!UpInv
  OBVIOUS
<1>1. /\ up_pc \in [UpThreads -> UP!Labels]
      /\ UP!At("writing") = {} /\ UP!At("rwait") = {} /\ UP!Inside = {} /\ UP!Upgrading = {}
  BY DEF UP!Init, UP!At, UP!Labels, UP!Inside, UP!Upgrading
<1> QED
  BY Zenon, <1>1, FS_EmptySet, UPSizes DEF UP!Init, UP!UpInv, UP!TypeOK, UP!WriterAlone, UP!ReaderHasWaker

\* read_lock lets a reader in only while nobody writes.
LEMMA UpReadLock == ASSUME UP!UpInv, NEW t \in UpThreads, UP!read_lock(t) PROVE UP!UpKept
<1> USE DEF UP!UpInv, UP!TypeOK
<1>1. CASE is_writing
  <2>1. UP!Goto(t, "rwait") /\ UNCHANGED <<readers, writers, upgraders, is_writing>>
    BY <1>1 DEF UP!read_lock
  <2>2. /\ up_pc' \in [UpThreads -> UP!Labels] /\ UP!At("writing")' = UP!At("writing")
        /\ UP!Inside' = UP!Inside /\ UP!Upgrading' = UP!Upgrading
    BY <2>1 DEF UP!read_lock, UP!Goto, UP!At, UP!Labels, UP!Inside, UP!Upgrading
  <2> QED
    BY Zenon, <1>1, <2>1, <2>2 DEF UP!UpKept, UP!WriterAlone, UP!ReaderHasWaker
<1>2. CASE ~is_writing
  <2>1. /\ UP!Goto(t, "reading") /\ readers' = readers + 1
        /\ UNCHANGED <<writers, upgraders, is_writing>>
    BY <1>2 DEF UP!read_lock
  <2>2. /\ up_pc' \in [UpThreads -> UP!Labels] /\ UP!At("writing")' = UP!At("writing")
        /\ UP!Inside' = UP!Inside \cup {t} /\ t \notin UP!Inside /\ UP!Upgrading' = UP!Upgrading
        /\ UP!At("rwait")' = UP!At("rwait")
    BY <2>1 DEF UP!read_lock, UP!Goto, UP!At, UP!Labels, UP!Inside, UP!Upgrading
  <2>3. readers' = Cardinality(UP!Inside')
    BY Zenon, <2>1, <2>2, UpPlaces, FS_AddElement, UPSizes
  <2>4. UP!Lock!Next
    BY Zenon, <1>2, <2>2 DEF UP!Lock!Next, UP!Lock!AcquireRead
  <2> QED
    BY Zenon, <1>2, <2>1, <2>2, <2>3, <2>4, UPSizes DEF UP!UpKept, UP!WriterAlone, UP!ReaderHasWaker
<1> QED
  BY <1>1, <1>2

\* read_unlock: a reader leaves, and there is nobody in writers to be woken.
LEMMA UpReadUnlock == ASSUME UP!UpInv, NEW t \in UpThreads, UP!read_unlock(t) PROVE UP!UpKept
<1> USE DEF UP!UpInv, UP!TypeOK
<1>1. /\ up_pc[t] = "reading" /\ UP!Goto(t, "out") /\ readers' = readers - 1
      /\ UNCHANGED <<writers, upgraders, is_writing>>
  BY DEF UP!read_unlock
<1>2. /\ up_pc' \in [UpThreads -> UP!Labels] /\ UP!At("writing")' = UP!At("writing")
      /\ UP!Inside' = UP!Inside \ {t} /\ t \in UP!Inside /\ UP!Upgrading' = UP!Upgrading
      /\ UP!At("rwait")' = UP!At("rwait")
  BY Zenon, <1>1 DEF UP!Goto, UP!At, UP!Labels, UP!Inside, UP!Upgrading
<1>3. readers' = Cardinality(UP!Inside')
  BY Zenon, <1>1, <1>2, UpPlaces, FS_RemoveElement, UPSizes
<1>4. UP!Lock!Next
  BY <1>2 DEF UP!Lock!Next, UP!Lock!ReleaseRead
<1> QED
  BY <1>1, <1>2, <1>3, <1>4, UPSizes DEF UP!UpKept, UP!WriterAlone, UP!ReaderHasWaker

\* upgrade: with other readers inside the thread waits and goes on counting as a
\* reader; as the last one it becomes the writer.
LEMMA UpUpgrade == ASSUME UP!UpInv, NEW t \in UpThreads, UP!upgrade(t) PROVE UP!UpKept
<1> USE DEF UP!UpInv, UP!TypeOK
<1>1. /\ up_pc[t] \in {"reading", "uwoken"} /\ t \in UP!Inside /\ writers' = 0
      /\ t \in UP!Upgrading <=> up_pc[t] = "uwoken"
  BY DEF UP!upgrade, UP!Inside, UP!Upgrading, UP!At
<1>2. UP!At("writing") = {} /\ ~is_writing
  BY Zenon, <1>1 DEF UP!WriterAlone
<1>3. CASE readers > 1
  <2>1. /\ UP!Goto(t, "uwait") /\ UNCHANGED <<readers, is_writing>>
        /\ upgraders' = IF up_pc[t] = "reading" THEN upgraders + 1 ELSE upgraders
    BY <1>3, UpPlaces DEF UP!upgrade
  <2>2. /\ up_pc' \in [UpThreads -> UP!Labels] /\ UP!At("writing")' = UP!At("writing")
        /\ UP!Inside' = UP!Inside /\ UP!Upgrading' = UP!Upgrading \cup {t}
        /\ UP!At("rwait")' = UP!At("rwait")
    BY <1>1, <2>1 DEF UP!Goto, UP!At, UP!Labels, UP!Inside, UP!Upgrading
  <2>3. upgraders' = Cardinality(UP!Upgrading')
    <3>1. CASE up_pc[t] = "reading"
      BY Zenon, <1>1, <2>1, <2>2, <3>1, UpPlaces, FS_AddElement, UPSizes
    <3>2. CASE up_pc[t] = "uwoken"
      <4>1. UP!Upgrading' = UP!Upgrading
        BY <1>1, <2>2, <3>2
      <4> QED
        BY <2>1, <3>2, <4>1, UPSizes
    <3> QED
      BY Zenon, <1>1, <3>1, <3>2
  <2> QED
    BY SMTT(30), <1>1, <1>2, <2>1, <2>2, <2>3, UPSizes DEF UP!UpKept, UP!WriterAlone, UP!ReaderHasWaker
<1>4. CASE ~(readers > 1)
  <2>1. readers = 1 /\ UP!Inside = {t}
    BY <1>1, <1>4, UpPlaces
  <2>2. /\ UP!Goto(t, "writing") /\ readers' = readers - 1 /\ is_writing' = TRUE
        /\ upgraders' = (IF up_pc[t] = "reading" THEN upgraders + 1 ELSE upgraders) - 1
    BY <1>2, <1>4 DEF UP!upgrade
  <2>3. /\ up_pc' \in [UpThreads -> UP!Labels] /\ UP!At("writing")' = {t}
        /\ UP!Inside' = UP!Inside \ {t} /\ UP!Upgrading' = UP!Upgrading \ {t}
    BY <1>1, <1>2, <2>2 DEF UP!Goto, UP!At, UP!Labels, UP!Inside, UP!Upgrading
  <2>4. UP!Inside' = {} /\ UP!Upgrading' = {}
    BY Zenon, <2>1, <2>3 DEF UP!Inside
  <2>5. readers' = Cardinality(UP!Inside')
    BY SMTT(30), <2>1, <2>2, <2>4, FS_EmptySet
  <2>6. upgraders' = Cardinality(UP!Upgrading')
    <3>1. CASE up_pc[t] = "reading"
      <4>1. UP!Upgrading = {}
        BY <1>1, <2>1, <3>1 DEF UP!Inside
      <4>2. upgraders' = 0
        BY <2>2, <3>1, <4>1, UpPlaces
      <4> QED
        BY Zenon, <2>4, <4>2, FS_EmptySet
    <3>2. CASE up_pc[t] = "uwoken"
      <4>1. UP!Upgrading = {t}
        BY Zenon, <1>1, <2>1, <3>2 DEF UP!Inside
      <4>2. upgraders = 1
        BY Zenon, <4>1, FS_Singleton, UPSizes
      <4> QED
        BY <2>2, <2>4, <3>2, <4>2, FS_EmptySet
    <3> QED
      BY <1>1, <3>1, <3>2
  <2>7. UP!Lock!Next
    BY <1>2, <2>1, <2>3, <2>4 DEF UP!Lock!Next, UP!Lock!AcquireWrite
  <2> QED
    BY Zenon, <1>1, <2>2, <2>3, <2>4, <2>5, <2>6, <2>7, UPSizes DEF UP!UpKept, UP!WriterAlone,
       UP!ReaderHasWaker
<1> QED
  BY <1>3, <1>4

\* write_unlock: nobody is upgrading while a thread writes, so it is the readers that
\* are woken, and all of them.
LEMMA UpWriteUnlock == ASSUME UP!UpInv, NEW t \in UpThreads, UP!write_unlock(t) PROVE UP!UpKept
<1> USE DEF UP!UpInv, UP!TypeOK
<1>1. t \in UP!At("writing") /\ up_pc[t] = "writing"
  BY DEF UP!write_unlock, UP!At
<1>2. UP!At("writing") = {t} /\ UP!Inside = {} /\ UP!Upgrading = {}
  BY <1>1 DEF UP!WriterAlone, UP!Inside
<1>3. /\ UP!Broadcast(t, "out", "rwait", "out") /\ is_writing' = FALSE
      /\ UNCHANGED <<readers, writers, upgraders>>
  BY <1>2, UpPlaces DEF UP!write_unlock
<1>4. /\ up_pc' \in [UpThreads -> UP!Labels] /\ UP!At("writing")' = UP!At("writing") \ {t}
      /\ UP!Inside' = UP!Inside /\ UP!Upgrading' = UP!Upgrading /\ UP!At("rwait")' = {}
  BY Zenon, <1>1, <1>3 DEF UP!Broadcast, UP!At, UP!Labels, UP!Inside, UP!Upgrading
<1>5. UP!Lock!Next
  BY Zenon, <1>2, <1>4 DEF UP!Lock!Next, UP!Lock!ReleaseWrite
<1> QED
  BY Zenon, <1>2, <1>3, <1>4, <1>5 DEF UP!UpKept, UP!WriterAlone, UP!ReaderHasWaker

\* A return of pthread_cond_wait without a signal moves nobody in or out.
LEMMA UpWaking == ASSUME UP!UpInv, NEW t \in UpThreads, UP!SpuriousWakeup(t) PROVE UP!UpKept
<1>1. /\ up_pc' \in [UpThreads -> UP!Labels] /\ UP!At("writing")' = UP!At("writing")
      /\ UP!Inside' = UP!Inside /\ UP!Upgrading' = UP!Upgrading /\ UP!At("rwait")' \subseteq UP!At("rwait")
      /\ UNCHANGED <<readers, writers, upgraders, is_writing>>
  BY DEF UP!UpInv, UP!TypeOK, UP!SpuriousWakeup, UP!Spurious, UP!Goto, UP!At, UP!Labels,
     UP!Inside, UP!Upgrading
<1> QED
  BY Zenon, <1>1 DEF UP!UpKept, UP!UpInv, UP!TypeOK, UP!WriterAlone, UP!ReaderHasWaker

\* All of thread_func together.
LEMMA UpNext == ASSUME UP!UpInv, [UP!Next]_(UP!vars) PROVE UP!UpKept
<1>1. CASE UNCHANGED UP!vars
  BY Zenon, <1>1 DEF UP!vars, UP!UpKept, UP!UpInv, UP!TypeOK, UP!WriterAlone, UP!ReaderHasWaker, UP!At,
     UP!Inside, UP!Upgrading
<1>2. CASE UP!Next
  BY Zenon, <1>2, UpReadLock, UpReadUnlock, UpUpgrade, UpWriteUnlock, UpWaking DEF UP!Next, UP!thread_func
<1> QED
  BY Zenon, <1>1, <1>2

\* However many threads read and upgrade, upgradeableReadLocks.c is a readers-writer
\* lock, its counters are right and a reader asleep has a writer that will wake it.
THEOREM UpgradeableIsRight ==
    UP!Spec => UP!ImplementsRwLock /\ [](UP!TypeOK /\ UP!ReaderHasWaker)
<1>1. UP!Init => UP!Lock!Init
  BY DEF UP!Init, UP!Lock!Init, UP!At, UP!Inside, UP!Upgrading
<1>2. UP!Spec => []UP!UpInv
  BY UpStart, UpNext, PTL DEF UP!Spec, UP!UpKept
<1>3. UP!Spec => UP!ImplementsRwLock
  BY <1>1, <1>2, UpNext, PTL DEF UP!Spec, UP!UpKept, UP!ImplementsRwLock, UP!Lock!Spec,
                                 UP!Lock!vars
<1>4. UP!UpInv => UP!TypeOK /\ UP!ReaderHasWaker
  BY DEF UP!UpInv
<1> QED
  BY <1>2, <1>3, <1>4, PTL
-----------------------------------------------------------------------------
(***************************************************************************)
(* aggressiveWriter.c, for any finite sets of readers and writers.         *)
(***************************************************************************)
CONSTANTS LockReaders, LockWriters

VARIABLES ag_pc, ag_active_readers, ag_waiting_readers, ag_active_writers,
          ag_waiting_writers, ag_writer_waiting

AG == INSTANCE AggressiveRwLock WITH
        Readers <- LockReaders, Writers <- LockWriters, pc <- ag_pc,
        active_readers <- ag_active_readers, waiting_readers <- ag_waiting_readers,
        active_writers <- ag_active_writers, waiting_writers <- ag_waiting_writers,
        writer_waiting <- ag_writer_waiting

\* Threads are counted as sets are here.
LEMMA AgSizes ==
    \A S : (AG!IsFiniteSet(S) <=> IsFiniteSet(S)) /\ AG!Cardinality(S) = Cardinality(S)
  BY Zenon DEF AG!IsFiniteSet, IsFiniteSet, AG!Cardinality, Cardinality

\* How the size of a set follows a thread that comes or goes.
LEMMA AgCounting ==
  ASSUME NEW S, AG!IsFiniteSet(S), NEW t
  PROVE  /\ t \in S => AG!Cardinality(S \ {t}) = AG!Cardinality(S) - 1
         /\ t \notin S => AG!Cardinality(S \cup {t}) = AG!Cardinality(S) + 1
  BY Zenon, FS_CardinalityType, FS_AddElement, FS_RemoveElement, AgSizes

\* The places are finite sets, and a counter is zero when nobody is there.
LEMMA AgPlaces ==
  ASSUME AG!IsFiniteSet(AG!Users), AG!TypeOK
  PROVE  /\ AG!IsFiniteSet(AG!At("reading")) /\ AG!IsFiniteSet(AG!At("writing"))
         /\ AG!IsFiniteSet(AG!RWaiting) /\ AG!IsFiniteSet(AG!WWaiting)
         /\ ag_active_readers \in Nat /\ (ag_active_readers = 0 <=> AG!At("reading") = {})
         /\ ag_active_writers \in Nat /\ (ag_active_writers = 0 <=> AG!At("writing") = {})
         /\ ag_waiting_readers \in Nat /\ (ag_waiting_readers = 0 <=> AG!RWaiting = {})
         /\ ag_waiting_writers \in Nat /\ (ag_waiting_writers = 0 <=> AG!WWaiting = {})
<1>1. /\ AG!At("reading") \subseteq AG!Users /\ AG!At("writing") \subseteq AG!Users
      /\ AG!RWaiting \subseteq AG!Users /\ AG!WWaiting \subseteq AG!Users
  BY Zenon DEF AG!At, AG!RWaiting, AG!WWaiting, AG!TypeOK
<1>2. /\ AG!IsFiniteSet(AG!At("reading")) /\ AG!IsFiniteSet(AG!At("writing"))
      /\ AG!IsFiniteSet(AG!RWaiting) /\ AG!IsFiniteSet(AG!WWaiting)
  BY Zenon, <1>1, FS_Subset, AgSizes
<1> QED
  BY Zenon, <1>2, FS_CardinalityType, FS_EmptySet, AgSizes DEF AG!TypeOK

\* pthread_cond_signal by a thread that leaves the lock: it is outside, who waits
\* still waits, and one sleeping writer is woken, if there is one.
LEMMA AgSignals ==
  ASSUME ag_pc \in [AG!Users -> AG!Labels], NEW t \in AG!Users, ag_pc[t] \in {"reading", "writing"},
         AG!Signal(t, "out", "wwait", "wwoken")
  PROVE  /\ ag_pc' \in [AG!Users -> AG!Labels]
         /\ AG!At("reading")' = AG!At("reading") \ {t} /\ AG!At("writing")' = AG!At("writing") \ {t}
         /\ AG!RWaiting' = AG!RWaiting /\ AG!WWaiting' = AG!WWaiting /\ AG!At("rwait")' = AG!At("rwait")
         /\ AG!At("wwait")' = {} \/ AG!At("wwoken")' # {}
<1>1. CASE AG!At("wwait") = {} /\ AG!Goto(t, "out")
  BY Zenon, <1>1 DEF AG!Goto, AG!At, AG!Labels, AG!RWaiting, AG!WWaiting
<1>2. ASSUME NEW u \in AG!At("wwait"), ag_pc' = [ag_pc EXCEPT ![t] = "out", ![u] = "wwoken"]
      PROVE  /\ ag_pc' \in [AG!Users -> AG!Labels]
             /\ AG!At("reading")' = AG!At("reading") \ {t} /\ AG!At("writing")' = AG!At("writing") \ {t}
             /\ AG!RWaiting' = AG!RWaiting /\ AG!WWaiting' = AG!WWaiting /\ AG!At("rwait")' = AG!At("rwait")
             /\ u \in AG!At("wwoken")'
  BY Zenon, <1>2 DEF AG!At, AG!Labels, AG!RWaiting, AG!WWaiting
<1> QED
  BY Zenon, <1>1, <1>2 DEF AG!Signal

\* pthread_cond_broadcast to the readers: all of them wake, no writer does.
LEMMA AgBroadcasts ==
  ASSUME ag_pc \in [AG!Users -> AG!Labels], NEW t \in AG!Users, ag_pc[t] \in {"reading", "writing"},
         AG!Broadcast(t, "out", "rwait", "rwoken")
  PROVE  /\ ag_pc' \in [AG!Users -> AG!Labels]
         /\ AG!At("reading")' = AG!At("reading") \ {t} /\ AG!At("writing")' = AG!At("writing") \ {t}
         /\ AG!RWaiting' = AG!RWaiting /\ AG!WWaiting' = AG!WWaiting
         /\ AG!At("rwait")' = {} /\ AG!At("wwait")' = AG!At("wwait")
  BY Zenon DEF AG!Broadcast, AG!At, AG!Labels, AG!RWaiting, AG!WWaiting

\* The start: all counters are zero and all places empty.
LEMMA AgStart == ASSUME AG!IsFiniteSet(AG!Users), AG!Init PROVE AG!LockInv
<1>1. /\ ag_pc \in [AG!Users -> AG!Labels]
      /\ AG!At("reading") = {} /\ AG!At("writing") = {} /\ AG!At("rwait") = {} /\ AG!At("wwait") = {}
      /\ AG!RWaiting = {} /\ AG!WWaiting = {}
  BY DEF AG!Init, AG!At, AG!Labels, AG!RWaiting, AG!WWaiting
<1> QED
  BY Zenon, <1>1, FS_EmptySet, AgSizes DEF AG!Init, AG!LockInv, AG!TypeOK, AG!WriterAlone,
     AG!FlagHasWriter, AG!SleeperHasWaker, AG!Labels

\* read_lock: a reader is turned away by a writer inside or by the flag, and either
\* has a writer that will wake it.
LEMMA AgReadLock ==
  ASSUME AG!IsFiniteSet(AG!Users), AG!LockInv, NEW r \in AG!Users, AG!read_lock(r)
  PROVE  AG!Kept
<1> USE DEF AG!LockInv, AG!TypeOK
<1>1. CASE ag_active_writers > 0 \/ ag_writer_waiting
  <2>1. AG!Goto(r, "rwait") /\ UNCHANGED <<ag_active_readers, AG!writers, ag_writer_waiting>>
    BY Zenon, <1>1 DEF AG!read_lock
  <2>2. /\ ag_pc' \in [AG!Users -> AG!Labels]
        /\ AG!At("reading")' = AG!At("reading") /\ AG!At("writing")' = AG!At("writing")
        /\ AG!WWaiting' = AG!WWaiting /\ AG!At("wwait")' = AG!At("wwait") /\ AG!At("wwoken")' = AG!At("wwoken")
        /\ AG!RWaiting' = AG!RWaiting \cup {r}
        /\ r \in AG!RWaiting <=> ag_pc[r] = "rwoken"
    BY Zenon, <2>1 DEF AG!read_lock, AG!Goto, AG!At, AG!Labels, AG!RWaiting, AG!WWaiting
  <2>3. ag_waiting_readers' = AG!Cardinality(AG!RWaiting')
    <3>1. CASE ag_pc[r] = "rwoken"
      <4>1. AG!RWaiting' = AG!RWaiting
        BY Zenon, <2>2, <3>1
      <4> QED
        BY SMTT(30), <1>1, <3>1, <4>1, AgPlaces DEF AG!read_lock, AG!Returned
    <3>2. CASE ag_pc[r] # "rwoken"
      BY SMTT(30), <1>1, <2>2, <3>2, AgPlaces, AgCounting DEF AG!read_lock, AG!Returned
    <3> QED
      BY Zenon, <3>1, <3>2
  <2>4. AG!At("writing") # {} \/ AG!WWaiting # {}
    BY SMTT(30), <1>1, AgPlaces DEF AG!FlagHasWriter
  <2>5. AG!SleeperHasWaker'
    BY Zenon, <2>2, <2>4 DEF AG!SleeperHasWaker, AG!WWaiting
  <2> QED
    BY <2>1, <2>2, <2>3, <2>5 DEF AG!Kept, AG!WriterAlone, AG!FlagHasWriter, AG!readers, AG!writers
<1>2. CASE ~(ag_active_writers > 0 \/ ag_writer_waiting)
  <2>1. /\ AG!Goto(r, "reading") /\ UNCHANGED <<AG!writers, ag_writer_waiting>>
        /\ ag_active_readers' = ag_active_readers + 1
        /\ ag_waiting_readers' = ag_waiting_readers - AG!Returned(r, "rwoken")
    BY Zenon, <1>2 DEF AG!read_lock
  <2>2. /\ ag_pc' \in [AG!Users -> AG!Labels] /\ r \notin AG!At("reading")
        /\ AG!At("reading")' = AG!At("reading") \cup {r} /\ AG!At("writing")' = AG!At("writing")
        /\ AG!WWaiting' = AG!WWaiting /\ AG!At("wwait")' = AG!At("wwait")
        /\ AG!At("rwait")' = AG!At("rwait") \ {r}
        /\ AG!RWaiting' = AG!RWaiting \ {r}
        /\ r \in AG!RWaiting <=> ag_pc[r] = "rwoken"
    BY Zenon, <2>1 DEF AG!read_lock, AG!Goto, AG!At, AG!Labels, AG!RWaiting, AG!WWaiting
  <2>3. AG!At("writing") = {}
    BY SMTT(30), <1>2, AgPlaces
  <2>4. ag_active_readers' = AG!Cardinality(AG!At("reading")')
    BY SMTT(30), <2>1, <2>2, AgPlaces, AgCounting
  <2>5. ag_waiting_readers' = AG!Cardinality(AG!RWaiting')
    <3>1. CASE ag_pc[r] = "rwoken"
      BY Zenon, <2>1, <2>2, <3>1, AgPlaces, AgCounting DEF AG!Returned
    <3>2. CASE ag_pc[r] # "rwoken"
      <4>1. AG!RWaiting' = AG!RWaiting
        BY Zenon, <2>2, <3>2
      <4> QED
        BY SMTT(30), <2>1, <3>2, <4>1, AgPlaces DEF AG!Returned
    <3> QED
      BY <3>1, <3>2
  <2>6. AG!SleeperHasWaker'
    BY Zenon, <2>2, <2>3 DEF AG!SleeperHasWaker, AG!WWaiting
  <2>7. AG!Lock!Next
    BY Zenon, <2>2, <2>3 DEF AG!Lock!Next, AG!Lock!AcquireRead
  <2> QED
    BY Zenon, <2>1, <2>2, <2>4, <2>5, <2>6, <2>7 DEF AG!Kept, AG!WriterAlone, AG!FlagHasWriter,
       AG!readers, AG!writers
<1> QED
  BY <1>1, <1>2

\* write_lock: a writer waits for whoever is inside and raises the flag, or goes in
\* alone and lowers it.
LEMMA AgWriteLock ==
  ASSUME AG!IsFiniteSet(AG!Users), AG!LockInv, NEW w \in AG!Users, AG!write_lock(w)
  PROVE  AG!Kept
<1> USE DEF AG!LockInv, AG!TypeOK
<1>1. CASE ag_active_readers > 0 \/ ag_active_writers > 0
  <2>1. /\ AG!Goto(w, "wwait") /\ ag_writer_waiting' = TRUE
        /\ UNCHANGED <<ag_active_readers, ag_active_writers, ag_waiting_readers>>
    BY Zenon, <1>1 DEF AG!write_lock, AG!readers
  <2>2. /\ ag_pc' \in [AG!Users -> AG!Labels]
        /\ AG!At("reading")' = AG!At("reading") /\ AG!At("writing")' = AG!At("writing")
        /\ AG!RWaiting' = AG!RWaiting /\ AG!At("rwait")' = AG!At("rwait")
        /\ AG!WWaiting' = AG!WWaiting \cup {w} /\ w \in AG!At("wwait")'
        /\ w \in AG!WWaiting <=> ag_pc[w] = "wwoken"
    BY Zenon, <2>1 DEF AG!write_lock, AG!Goto, AG!At, AG!Labels, AG!RWaiting, AG!WWaiting
  <2>3. ag_waiting_writers' = AG!Cardinality(AG!WWaiting')
    <3>1. CASE ag_pc[w] = "wwoken"
      <4>1. AG!WWaiting' = AG!WWaiting
        BY Zenon, <2>2, <3>1
      <4> QED
        BY SMTT(30), <1>1, <3>1, <4>1, AgPlaces DEF AG!write_lock, AG!Returned
    <3>2. CASE ag_pc[w] # "wwoken"
      <4>1. AG!Cardinality(AG!WWaiting') = AG!Cardinality(AG!WWaiting) + 1
        BY Zenon, <2>2, <3>2, AgPlaces, AgCounting
      <4> QED
        BY SMTT(30), <1>1, <3>2, <4>1, AgPlaces DEF AG!write_lock, AG!Returned
    <3> QED
      BY Zenon, <3>1, <3>2
  <2>4. AG!At("reading") # {} \/ AG!At("writing") # {}
    BY SMTT(30), <1>1, AgPlaces
  <2>5. AG!SleeperHasWaker'
    BY Zenon, <2>2, <2>4 DEF AG!SleeperHasWaker
  <2> QED
    BY Zenon, <2>1, <2>2, <2>3, <2>5 DEF AG!Kept, AG!WriterAlone, AG!FlagHasWriter, AG!readers, AG!writers
<1>2. CASE ~(ag_active_readers > 0 \/ ag_active_writers > 0)
  <2>1. /\ AG!Goto(w, "writing") /\ UNCHANGED <<ag_active_readers, ag_waiting_readers>>
        /\ ag_active_writers' = ag_active_writers + 1 /\ ag_writer_waiting' = FALSE
        /\ ag_waiting_writers' = ag_waiting_writers - AG!Returned(w, "wwoken")
    BY <1>2 DEF AG!write_lock, AG!readers
  <2>2. AG!At("reading") = {} /\ AG!At("writing") = {}
    BY <1>2, AgPlaces
  <2>3. /\ ag_pc' \in [AG!Users -> AG!Labels]
        /\ AG!At("reading")' = AG!At("reading") /\ AG!At("writing")' = AG!At("writing") \cup {w}
        /\ AG!RWaiting' = AG!RWaiting
        /\ AG!WWaiting' = AG!WWaiting \ {w}
        /\ w \in AG!WWaiting <=> ag_pc[w] = "wwoken"
    BY Zenon, <2>1, <2>2 DEF AG!write_lock, AG!Goto, AG!At, AG!Labels, AG!RWaiting, AG!WWaiting
  <2>4. ag_active_writers' = AG!Cardinality(AG!At("writing")')
    BY Zenon, <2>1, <2>2, <2>3, AgPlaces, AgCounting
  <2>5. ag_waiting_writers' = AG!Cardinality(AG!WWaiting')
    <3>1. CASE ag_pc[w] = "wwoken"
      BY SMTT(30), <2>1, <2>3, <3>1, AgPlaces, AgCounting DEF AG!Returned
    <3>2. CASE ag_pc[w] # "wwoken"
      <4>1. AG!WWaiting' = AG!WWaiting
        BY Zenon, <2>3, <3>2
      <4> QED
        BY SMTT(30), <2>1, <3>2, <4>1, AgPlaces DEF AG!Returned
    <3> QED
      BY SMTT(30), <3>1, <3>2
  <2>6. AG!SleeperHasWaker'
    BY Zenon, <2>3 DEF AG!SleeperHasWaker
  <2>7. AG!Lock!Next
    BY Zenon, <2>2, <2>3 DEF AG!Lock!Next, AG!Lock!AcquireWrite
  <2> QED
    BY Zenon, <2>1, <2>2, <2>3, <2>4, <2>5, <2>6, <2>7 DEF AG!Kept, AG!WriterAlone, AG!FlagHasWriter,
       AG!readers, AG!writers
<1> QED
  BY Zenon, <1>1, <1>2

\* read_unlock: the last reader wakes a writer, and raises the flag for it.
LEMMA AgReadUnlock ==
  ASSUME AG!IsFiniteSet(AG!Users), AG!LockInv, NEW r \in AG!Users, AG!read_unlock(r)
  PROVE  AG!Kept
<1> USE DEF AG!LockInv, AG!TypeOK
<1>1. /\ ag_pc[r] = "reading" /\ ag_active_readers' = ag_active_readers - 1
      /\ UNCHANGED <<ag_waiting_readers, ag_active_writers, ag_waiting_writers>>
      /\ r \in AG!At("reading") /\ r \notin AG!At("writing")
      /\ ag_writer_waiting' = (ag_writer_waiting \/ (ag_active_readers = 1 /\ ag_waiting_writers > 0))
  BY Zenon DEF AG!read_unlock, AG!writers, AG!At
<1>2. /\ ag_pc' \in [AG!Users -> AG!Labels]
      /\ AG!At("reading")' = AG!At("reading") \ {r} /\ AG!At("writing")' = AG!At("writing") \ {r}
      /\ AG!RWaiting' = AG!RWaiting /\ AG!WWaiting' = AG!WWaiting /\ AG!At("rwait")' = AG!At("rwait")
      /\ AG!At("wwait")' = {} \/ AG!At("wwoken")' # {} \/ AG!At("reading")' # {}
  <2>1. CASE ag_active_readers = 1 /\ ag_waiting_writers > 0
    BY SMTT(30), <1>1, <2>1, AgSignals DEF AG!read_unlock
  <2>2. CASE ~(ag_active_readers = 1 /\ ag_waiting_writers > 0)
    <3>1. /\ ag_pc' \in [AG!Users -> AG!Labels]
          /\ AG!At("reading")' = AG!At("reading") \ {r} /\ AG!At("writing")' = AG!At("writing") \ {r}
          /\ AG!RWaiting' = AG!RWaiting /\ AG!WWaiting' = AG!WWaiting /\ AG!At("rwait")' = AG!At("rwait")
          /\ AG!At("wwait")' \subseteq AG!WWaiting
      BY Zenon, <1>1, <2>2 DEF AG!read_unlock, AG!Goto, AG!At, AG!Labels, AG!RWaiting, AG!WWaiting
    <3>2. CASE ag_waiting_writers = 0
      BY Zenon, <3>1, <3>2, AgPlaces
    <3>3. CASE ag_active_readers # 1
      <4>1. AG!Cardinality(AG!At("reading") \ {r}) # 0
        BY SMTT(30), <1>1, <3>3, AgPlaces, AgCounting
      <4> QED
        BY Zenon, <3>1, <4>1, FS_EmptySet, AgSizes
    <3> QED
      BY SMTT(30), <2>2, <3>2, <3>3, AgPlaces
  <2> QED
    BY SMTT(30), <2>1, <2>2
<1>3. AG!At("writing")' = AG!At("writing")
  BY Zenon, <1>1, <1>2
<1>4. ag_active_readers' = AG!Cardinality(AG!At("reading")')
  BY SMTT(30), <1>1, <1>2, AgPlaces, AgCounting
<1>5. AG!SleeperHasWaker'
  BY <1>2, <1>3 DEF AG!SleeperHasWaker, AG!WWaiting
<1>6. AG!Lock!Next
  BY Zenon, <1>1, <1>2, <1>3 DEF AG!Lock!Next, AG!Lock!ReleaseRead
<1>7. AG!FlagHasWriter' /\ ag_writer_waiting' \in BOOLEAN
  BY SMTT(30), <1>1, <1>2, AgPlaces DEF AG!FlagHasWriter
<1> QED
  BY Zenon, <1>1, <1>2, <1>3, <1>4, <1>5, <1>6, <1>7 DEF AG!Kept, AG!WriterAlone, AG!FlagHasWriter,
     AG!readers, AG!writers

\* write_unlock: a waiting writer is woken, without one all readers are.
LEMMA AgWriteUnlock ==
  ASSUME AG!IsFiniteSet(AG!Users), AG!LockInv, NEW w \in AG!Users, AG!write_unlock(w)
  PROVE  AG!Kept
<1> USE DEF AG!LockInv, AG!TypeOK
<1>1. /\ ag_pc[w] = "writing" /\ ag_active_writers' = ag_active_writers - 1
      /\ UNCHANGED <<ag_active_readers, ag_waiting_readers, ag_waiting_writers, ag_writer_waiting>>
      /\ w \in AG!At("writing") /\ w \notin AG!At("reading")
  BY Zenon DEF AG!write_unlock, AG!readers, AG!At
<1>2. /\ ag_pc' \in [AG!Users -> AG!Labels]
      /\ AG!At("reading")' = AG!At("reading") \ {w} /\ AG!At("writing")' = AG!At("writing") \ {w}
      /\ AG!RWaiting' = AG!RWaiting /\ AG!WWaiting' = AG!WWaiting
      /\ AG!At("rwait")' = {} \/ AG!WWaiting' # {}
      /\ AG!At("wwait")' = {} \/ AG!At("wwoken")' # {}
  <2>1. CASE ag_waiting_writers > 0 /\ AG!Signal(w, "out", "wwait", "wwoken")
    <3>1. AG!WWaiting # {}
      BY SMTT(30), <2>1, AgPlaces
    <3> QED
      BY Zenon, <1>1, <2>1, <3>1, AgSignals
  <2>2. CASE ag_waiting_writers = 0 /\ AG!Broadcast(w, "out", "rwait", "rwoken")
    <3>1. AG!At("wwait") = {}
      BY Zenon, <2>2, AgPlaces DEF AG!WWaiting
    <3> QED
      BY Zenon, <1>1, <2>2, <3>1, AgBroadcasts
  <2> QED
    BY Zenon, <2>1, <2>2 DEF AG!write_unlock
<1>3. AG!At("reading")' = AG!At("reading") /\ AG!At("writing") = {w} /\ AG!At("writing")' = {}
  BY Zenon, <1>1, <1>2 DEF AG!WriterAlone
<1>4. ag_active_writers' = AG!Cardinality(AG!At("writing")')
  BY SMTT(30), <1>1, <1>2, AgPlaces, AgCounting
<1>5. AG!SleeperHasWaker'
  BY <1>2 DEF AG!SleeperHasWaker, AG!WWaiting
<1>6. AG!Lock!Next
  BY Zenon, <1>3 DEF AG!Lock!Next, AG!Lock!ReleaseWrite
<1> QED
  BY Zenon, <1>1, <1>2, <1>3, <1>4, <1>5, <1>6 DEF AG!Kept, AG!WriterAlone, AG!FlagHasWriter, AG!readers,
     AG!writers

\* A return of pthread_cond_wait without a signal changes no population that is
\* counted.
LEMMA AgWaking ==
  ASSUME AG!IsFiniteSet(AG!Users), AG!LockInv, NEW t \in AG!Users, AG!SpuriousWakeup(t)
  PROVE  AG!Kept
<1>1. /\ ag_pc' \in [AG!Users -> AG!Labels] /\ UNCHANGED <<AG!readers, AG!writers, ag_writer_waiting>>
      /\ AG!At("reading")' = AG!At("reading") /\ AG!At("writing")' = AG!At("writing")
      /\ AG!RWaiting' = AG!RWaiting /\ AG!WWaiting' = AG!WWaiting
      /\ AG!At("rwait")' \subseteq AG!At("rwait") /\ AG!At("wwait")' \subseteq AG!At("wwait")
      /\ AG!At("wwoken") \subseteq AG!At("wwoken")'
  BY Zenon DEF AG!LockInv, AG!TypeOK, AG!SpuriousWakeup, AG!Spurious, AG!Goto, AG!At, AG!Labels,
     AG!RWaiting, AG!WWaiting
<1>2. AG!SleeperHasWaker'
  BY Zenon, <1>1 DEF AG!LockInv, AG!SleeperHasWaker, AG!WWaiting
<1> QED
  BY Zenon, <1>1, <1>2 DEF AG!Kept, AG!LockInv, AG!TypeOK, AG!WriterAlone, AG!FlagHasWriter, AG!readers,
     AG!writers

\* Every step of aggressiveWriter.c.
LEMMA AgNext == ASSUME AG!IsFiniteSet(AG!Users), AG!LockInv, [AG!Next]_(AG!vars) PROVE AG!Kept
<1>1. CASE UNCHANGED AG!vars
  BY Zenon, <1>1 DEF AG!vars, AG!readers, AG!writers, AG!Kept, AG!LockInv, AG!TypeOK, AG!WriterAlone,
     AG!FlagHasWriter,
              AG!SleeperHasWaker, AG!At, AG!RWaiting, AG!WWaiting
<1>2. CASE AG!Next
  BY Zenon, <1>2, AgReadLock, AgReadUnlock, AgWriteLock, AgWriteUnlock, AgWaking DEF AG!Next, AG!reader,
     AG!writer, AG!Users
<1> QED
  BY Zenon, <1>1, <1>2

\* However many readers and writers use the lock of aggressiveWriter.c, it is a
\* readers-writer lock, its counters are right, a raised writer_waiting has a writer
\* that will lower it, and no thread sleeps without one that will wake it.
THEOREM AggressiveIsRight ==
  ASSUME AG!IsFiniteSet(AG!Users)
  PROVE  AG!Spec => AG!ImplementsRwLock /\ [](AG!TypeOK /\ AG!FlagHasWriter /\ AG!SleeperHasWaker)
<1>1. AG!Init => AG!Lock!Init
  BY DEF AG!Init, AG!Lock!Init, AG!At
<1>2. AG!Spec => []AG!LockInv
  BY AgStart, AgNext, PTL DEF AG!Spec, AG!Kept
<1>3. AG!Spec => AG!ImplementsRwLock
  BY <1>1, <1>2, AgNext, PTL DEF AG!Spec, AG!Kept, AG!ImplementsRwLock, AG!Lock!Spec, AG!Lock!vars
<1>4. AG!LockInv => AG!TypeOK /\ AG!FlagHasWriter /\ AG!SleeperHasWaker
  BY Zenon DEF AG!LockInv
<1> QED
  BY <1>2, <1>3, <1>4, PTL
-----------------------------------------------------------------------------
(***************************************************************************)
(* writeStarvation.c, for the same readers and writers.                    *)
(***************************************************************************)
VARIABLES wp_pc, wp_active_readers, wp_waiting_readers, wp_active_writers,
          wp_waiting_writers

WP == INSTANCE WritePrefRwLock WITH
        Readers <- LockReaders, Writers <- LockWriters, pc <- wp_pc,
        active_readers <- wp_active_readers, waiting_readers <- wp_waiting_readers,
        active_writers <- wp_active_writers, waiting_writers <- wp_waiting_writers

\* These threads too.
LEMMA WpSizes ==
    \A S : (WP!IsFiniteSet(S) <=> IsFiniteSet(S)) /\ WP!Cardinality(S) = Cardinality(S)
  BY DEF WP!IsFiniteSet, IsFiniteSet, WP!Cardinality, Cardinality

\* How the size of a set follows a thread that comes or goes.
LEMMA WpCounting ==
  ASSUME NEW S, WP!IsFiniteSet(S), NEW t
  PROVE  /\ t \in S => WP!Cardinality(S \ {t}) = WP!Cardinality(S) - 1
         /\ t \notin S => WP!Cardinality(S \cup {t}) = WP!Cardinality(S) + 1
  BY SMTT(30), FS_CardinalityType, FS_AddElement, FS_RemoveElement, WpSizes

\* The places are finite sets, and a counter is zero when nobody is there.
LEMMA WpPlaces ==
  ASSUME WP!IsFiniteSet(WP!Users), WP!TypeOK
  PROVE  /\ WP!IsFiniteSet(WP!At("reading")) /\ WP!IsFiniteSet(WP!At("writing"))
         /\ WP!IsFiniteSet(WP!RWaiting) /\ WP!IsFiniteSet(WP!WWaiting)
         /\ wp_active_readers \in Nat /\ (wp_active_readers = 0 <=> WP!At("reading") = {})
         /\ wp_active_writers \in Nat /\ (wp_active_writers = 0 <=> WP!At("writing") = {})
         /\ wp_waiting_readers \in Nat /\ (wp_waiting_readers = 0 <=> WP!RWaiting = {})
         /\ wp_waiting_writers \in Nat /\ (wp_waiting_writers = 0 <=> WP!WWaiting = {})
<1>1. /\ WP!At("reading") \subseteq WP!Users /\ WP!At("writing") \subseteq WP!Users
      /\ WP!RWaiting \subseteq WP!Users /\ WP!WWaiting \subseteq WP!Users
  BY Zenon DEF WP!At, WP!RWaiting, WP!WWaiting, WP!TypeOK
<1>2. /\ WP!IsFiniteSet(WP!At("reading")) /\ WP!IsFiniteSet(WP!At("writing"))
      /\ WP!IsFiniteSet(WP!RWaiting) /\ WP!IsFiniteSet(WP!WWaiting)
  BY SMTT(30), <1>1, FS_Subset, WpSizes
<1> QED
  BY Zenon, <1>2, FS_CardinalityType, FS_EmptySet, WpSizes DEF WP!TypeOK

\* pthread_cond_signal and pthread_cond_broadcast by a thread that leaves the lock:
\* it is outside, who waits still waits, and of the sleepers one, or all, are woken.
LEMMA WpSignals ==
  ASSUME wp_pc \in [WP!Users -> WP!Labels], NEW t \in WP!Users, wp_pc[t] \in {"reading", "writing"},
         WP!Signal(t, "out", "wwait", "wwoken")
  PROVE  /\ wp_pc' \in [WP!Users -> WP!Labels]
         /\ WP!At("reading")' = WP!At("reading") \ {t} /\ WP!At("writing")' = WP!At("writing") \ {t}
         /\ WP!RWaiting' = WP!RWaiting /\ WP!WWaiting' = WP!WWaiting /\ WP!At("rwait")' = WP!At("rwait")
         /\ WP!At("wwait")' = {} \/ WP!At("wwoken")' # {}
<1>1. CASE WP!At("wwait") = {} /\ WP!Goto(t, "out")
  BY <1>1 DEF WP!Goto, WP!At, WP!Labels, WP!RWaiting, WP!WWaiting
<1>2. ASSUME NEW u \in WP!At("wwait"), wp_pc' = [wp_pc EXCEPT ![t] = "out", ![u] = "wwoken"]
      PROVE  /\ wp_pc' \in [WP!Users -> WP!Labels]
             /\ WP!At("reading")' = WP!At("reading") \ {t} /\ WP!At("writing")' = WP!At("writing") \ {t}
             /\ WP!RWaiting' = WP!RWaiting /\ WP!WWaiting' = WP!WWaiting /\ WP!At("rwait")' = WP!At("rwait")
             /\ u \in WP!At("wwoken")'
  BY <1>2 DEF WP!At, WP!Labels, WP!RWaiting, WP!WWaiting
<1> QED
  BY SMTT(30), <1>1, <1>2 DEF WP!Signal

LEMMA WpBroadcasts ==
  ASSUME wp_pc \in [WP!Users -> WP!Labels], NEW t \in WP!Users, wp_pc[t] \in {"reading", "writing"},
         WP!Broadcast(t, "out", "rwait", "rwoken")
  PROVE  /\ wp_pc' \in [WP!Users -> WP!Labels]
         /\ WP!At("reading")' = WP!At("reading") \ {t} /\ WP!At("writing")' = WP!At("writing") \ {t}
         /\ WP!RWaiting' = WP!RWaiting /\ WP!WWaiting' = WP!WWaiting
         /\ WP!At("rwait")' = {} /\ WP!At("wwait")' = WP!At("wwait")
  BY DEF WP!Broadcast, WP!At, WP!Labels, WP!RWaiting, WP!WWaiting

\* The start: all counters are zero and all places empty.
LEMMA WpStart == ASSUME WP!IsFiniteSet(WP!Users), WP!Init PROVE WP!LockInv
<1>1. /\ wp_pc \in [WP!Users -> WP!Labels]
      /\ WP!At("reading") = {} /\ WP!At("writing") = {} /\ WP!At("rwait") = {} /\ WP!At("wwait") = {}
      /\ WP!RWaiting = {} /\ WP!WWaiting = {}
  BY Zenon DEF WP!Init, WP!At, WP!Labels, WP!RWaiting, WP!WWaiting
<1> QED
  BY Zenon, <1>1, FS_EmptySet, WpSizes DEF WP!Init, WP!LockInv, WP!TypeOK, WP!WriterAlone,
     WP!SleeperHasWaker, WP!Labels, WP!RWaiting, WP!WWaiting

LEMMA WpReadLock ==
  ASSUME WP!IsFiniteSet(WP!Users), WP!LockInv, NEW r \in WP!Users, WP!read_lock(r)
  PROVE  WP!Kept
<1> USE DEF WP!LockInv, WP!TypeOK
<1>1. CASE wp_active_writers > 0 \/ wp_waiting_writers > 0
  <2>1. WP!Goto(r, "rwait") /\ UNCHANGED <<wp_active_readers, wp_active_writers, wp_waiting_writers>>
    BY Zenon, <1>1 DEF WP!read_lock
  <2>2. /\ wp_pc' \in [WP!Users -> WP!Labels]
        /\ WP!At("reading")' = WP!At("reading") /\ WP!At("writing")' = WP!At("writing")
        /\ WP!WWaiting' = WP!WWaiting /\ WP!At("wwait")' = WP!At("wwait") /\ WP!At("wwoken")' = WP!At("wwoken")
        /\ WP!RWaiting' = WP!RWaiting \cup {r}
        /\ r \in WP!RWaiting <=> wp_pc[r] = "rwoken"
    BY Zenon, <2>1 DEF WP!read_lock, WP!Goto, WP!At, WP!Labels, WP!RWaiting, WP!WWaiting
  <2>3. wp_waiting_readers' = WP!Cardinality(WP!RWaiting')
    <3>1. CASE wp_pc[r] = "rwoken"
      <4>1. WP!RWaiting' = WP!RWaiting
        BY Zenon, <2>2, <3>1
      <4> QED
        BY SMTT(30), <1>1, <3>1, <4>1, WpPlaces DEF WP!read_lock, WP!Returned
    <3>2. CASE wp_pc[r] # "rwoken"
      BY SMTT(30), <1>1, <2>2, <3>2, WpPlaces, WpCounting DEF WP!read_lock, WP!Returned
    <3> QED
      BY Zenon, <3>1, <3>2
  <2>4. WP!At("writing") # {} \/ WP!WWaiting # {}
    BY SMTT(30), <1>1, WpPlaces
  <2>5. WP!SleeperHasWaker'
    BY Zenon, <2>2, <2>4 DEF WP!SleeperHasWaker, WP!WWaiting
  <2> QED
    BY Zenon, <2>1, <2>2, <2>3, <2>5 DEF WP!Kept, WP!WriterAlone
<1>2. CASE ~(wp_active_writers > 0 \/ wp_waiting_writers > 0)
  <2>1. /\ WP!Goto(r, "reading") /\ UNCHANGED <<wp_active_writers, wp_waiting_writers>>
        /\ wp_active_readers' = wp_active_readers + 1
        /\ wp_waiting_readers' = wp_waiting_readers - WP!Returned(r, "rwoken")
    BY Zenon, <1>2 DEF WP!read_lock
  <2>2. /\ wp_pc' \in [WP!Users -> WP!Labels] /\ r \notin WP!At("reading")
        /\ WP!At("reading")' = WP!At("reading") \cup {r} /\ WP!At("writing")' = WP!At("writing")
        /\ WP!WWaiting' = WP!WWaiting /\ WP!At("wwait")' = WP!At("wwait")
        /\ WP!At("rwait")' = WP!At("rwait") \ {r}
        /\ WP!RWaiting' = WP!RWaiting \ {r}
        /\ r \in WP!RWaiting <=> wp_pc[r] = "rwoken"
    BY Zenon, <2>1 DEF WP!read_lock, WP!Goto, WP!At, WP!Labels, WP!RWaiting, WP!WWaiting
  <2>3. WP!At("writing") = {} /\ WP!WWaiting = {}
    BY SMTT(30), <1>2, WpPlaces
  <2>4. wp_active_readers' = WP!Cardinality(WP!At("reading")')
    BY SMTT(30), <2>1, <2>2, WpPlaces, WpCounting
  <2>5. wp_waiting_readers' = WP!Cardinality(WP!RWaiting')
    <3>1. CASE wp_pc[r] = "rwoken"
      BY Zenon, <2>1, <2>2, <3>1, WpPlaces, WpCounting DEF WP!Returned
    <3>2. CASE wp_pc[r] # "rwoken"
      <4>1. WP!RWaiting' = WP!RWaiting
        BY Zenon, <2>2, <3>2
      <4> QED
        BY SMTT(30), <2>1, <3>2, <4>1, WpPlaces DEF WP!Returned
    <3> QED
      BY <3>1, <3>2
  <2>6. WP!SleeperHasWaker'
    BY Zenon, <2>2, <2>3 DEF WP!SleeperHasWaker, WP!WWaiting
  <2>7. WP!Lock!Next
    BY Zenon, <2>2, <2>3 DEF WP!Lock!Next, WP!Lock!AcquireRead
  <2> QED
    BY Zenon, <2>1, <2>2, <2>4, <2>5, <2>6, <2>7 DEF WP!Kept, WP!WriterAlone
<1> QED
  BY Zenon, <1>1, <1>2

LEMMA WpWriteLock ==
  ASSUME WP!IsFiniteSet(WP!Users), WP!LockInv, NEW w \in WP!Users, WP!write_lock(w)
  PROVE  WP!Kept
<1> USE DEF WP!LockInv, WP!TypeOK
<1>1. CASE wp_active_readers > 0 \/ wp_active_writers > 0
  <2>1. WP!Goto(w, "wwait") /\ UNCHANGED <<wp_active_readers, wp_active_writers, wp_waiting_readers>>
    BY Zenon, <1>1 DEF WP!write_lock
  <2>2. /\ wp_pc' \in [WP!Users -> WP!Labels]
        /\ WP!At("reading")' = WP!At("reading") /\ WP!At("writing")' = WP!At("writing")
        /\ WP!RWaiting' = WP!RWaiting /\ WP!At("rwait")' = WP!At("rwait")
        /\ WP!WWaiting' = WP!WWaiting \cup {w} /\ w \in WP!At("wwait")'
        /\ w \in WP!WWaiting <=> wp_pc[w] = "wwoken"
    BY Zenon, <2>1 DEF WP!write_lock, WP!Goto, WP!At, WP!Labels, WP!RWaiting, WP!WWaiting
  <2>3. wp_waiting_writers' = WP!Cardinality(WP!WWaiting')
    <3>1. CASE wp_pc[w] = "wwoken"
      <4>1. WP!WWaiting' = WP!WWaiting
        BY Zenon, <2>2, <3>1
      <4> QED
        BY SMTT(30), <1>1, <3>1, <4>1, WpPlaces DEF WP!write_lock, WP!Returned
    <3>2. CASE wp_pc[w] # "wwoken"
      <4>1. WP!Cardinality(WP!WWaiting') = WP!Cardinality(WP!WWaiting) + 1
        BY Zenon, <2>2, <3>2, WpPlaces, WpCounting
      <4> QED
        BY SMTT(30), <1>1, <3>2, <4>1, WpPlaces DEF WP!write_lock, WP!Returned
    <3> QED
      BY Zenon, <3>1, <3>2
  <2>4. WP!At("reading") # {} \/ WP!At("writing") # {}
    BY SMTT(30), <1>1, WpPlaces
  <2>5. WP!SleeperHasWaker'
    BY Zenon, <2>2, <2>4 DEF WP!SleeperHasWaker
  <2> QED
    BY Zenon, <2>1, <2>2, <2>3, <2>5 DEF WP!Kept, WP!WriterAlone
<1>2. CASE ~(wp_active_readers > 0 \/ wp_active_writers > 0)
  <2>1. /\ WP!Goto(w, "writing") /\ UNCHANGED <<wp_active_readers, wp_waiting_readers>>
        /\ wp_active_writers' = wp_active_writers + 1
        /\ wp_waiting_writers' = wp_waiting_writers - WP!Returned(w, "wwoken")
    BY Zenon, <1>2 DEF WP!write_lock
  <2>2. WP!At("reading") = {} /\ WP!At("writing") = {}
    BY SMTT(30), <1>2, WpPlaces
  <2>3. /\ wp_pc' \in [WP!Users -> WP!Labels]
        /\ WP!At("reading")' = WP!At("reading") /\ WP!At("writing")' = WP!At("writing") \cup {w}
        /\ WP!RWaiting' = WP!RWaiting
        /\ WP!WWaiting' = WP!WWaiting \ {w}
        /\ w \in WP!WWaiting <=> wp_pc[w] = "wwoken"
    BY Zenon, <2>1, <2>2 DEF WP!write_lock, WP!Goto, WP!At, WP!Labels, WP!RWaiting, WP!WWaiting
  <2>4. wp_active_writers' = WP!Cardinality(WP!At("writing")')
    BY Zenon, <2>1, <2>2, <2>3, WpPlaces, WpCounting
  <2>5. wp_waiting_writers' = WP!Cardinality(WP!WWaiting')
    <3>1. CASE wp_pc[w] = "wwoken"
      BY SMTT(30), <2>1, <2>3, <3>1, WpPlaces, WpCounting DEF WP!Returned
    <3>2. CASE wp_pc[w] # "wwoken"
      <4>1. WP!WWaiting' = WP!WWaiting
        BY Zenon, <2>3, <3>2
      <4> QED
        BY SMTT(30), <2>1, <3>2, <4>1, WpPlaces DEF WP!Returned
    <3> QED
      BY SMTT(30), <3>1, <3>2
  <2>6. WP!SleeperHasWaker'
    BY Zenon, <2>3 DEF WP!SleeperHasWaker
  <2>7. WP!Lock!Next
    BY Zenon, <2>2, <2>3 DEF WP!Lock!Next, WP!Lock!AcquireWrite
  <2> QED
    BY Zenon, <2>1, <2>2, <2>3, <2>4, <2>5, <2>6, <2>7 DEF WP!Kept, WP!WriterAlone
<1> QED
  BY Zenon, <1>1, <1>2

LEMMA WpReadUnlock ==
  ASSUME WP!IsFiniteSet(WP!Users), WP!LockInv, NEW r \in WP!Users, WP!read_unlock(r)
  PROVE  WP!Kept
<1> USE DEF WP!LockInv, WP!TypeOK
<1>1. /\ wp_pc[r] = "reading" /\ wp_active_readers' = wp_active_readers - 1
      /\ UNCHANGED <<wp_waiting_readers, wp_active_writers, wp_waiting_writers>>
      /\ r \in WP!At("reading") /\ r \notin WP!At("writing")
  BY Zenon DEF WP!read_unlock, WP!At
<1>2. /\ wp_pc' \in [WP!Users -> WP!Labels]
      /\ WP!At("reading")' = WP!At("reading") \ {r} /\ WP!At("writing")' = WP!At("writing") \ {r}
      /\ WP!RWaiting' = WP!RWaiting /\ WP!WWaiting' = WP!WWaiting /\ WP!At("rwait")' = WP!At("rwait")
      /\ WP!At("wwait")' = {} \/ WP!At("wwoken")' # {} \/ WP!At("reading")' # {}
  <2>1. CASE wp_active_readers = 1 /\ wp_waiting_writers > 0
    BY Zenon, <1>1, <2>1, WpSignals DEF WP!read_unlock
  <2>2. CASE ~(wp_active_readers = 1 /\ wp_waiting_writers > 0)
    <3>1. /\ wp_pc' \in [WP!Users -> WP!Labels]
          /\ WP!At("reading")' = WP!At("reading") \ {r} /\ WP!At("writing")' = WP!At("writing") \ {r}
          /\ WP!RWaiting' = WP!RWaiting /\ WP!WWaiting' = WP!WWaiting /\ WP!At("rwait")' = WP!At("rwait")
          /\ WP!At("wwait")' \subseteq WP!WWaiting
      BY Zenon, <1>1, <2>2 DEF WP!read_unlock, WP!Goto, WP!At, WP!Labels, WP!RWaiting, WP!WWaiting
    <3>2. CASE wp_waiting_writers = 0
      BY Zenon, <3>1, <3>2, WpPlaces
    <3>3. CASE wp_active_readers # 1
      <4>1. WP!Cardinality(WP!At("reading") \ {r}) # 0
        BY SMTT(30), <1>1, <3>3, WpPlaces, WpCounting
      <4> QED
        BY Zenon, <3>1, <4>1, FS_EmptySet, WpSizes
    <3> QED
      BY SMTT(30), <2>2, <3>2, <3>3, WpPlaces
  <2> QED
    BY Zenon, <2>1, <2>2
<1>3. WP!At("writing")' = WP!At("writing")
  BY Zenon, <1>1, <1>2
<1>4. wp_active_readers' = WP!Cardinality(WP!At("reading")')
  BY Zenon, <1>1, <1>2, WpPlaces, WpCounting
<1>5. WP!SleeperHasWaker'
  BY Zenon, <1>2, <1>3 DEF WP!SleeperHasWaker, WP!WWaiting
<1>6. WP!Lock!Next
  BY Zenon, <1>1, <1>2, <1>3 DEF WP!Lock!Next, WP!Lock!ReleaseRead
<1> QED
  BY Zenon, <1>1, <1>2, <1>3, <1>4, <1>5, <1>6 DEF WP!Kept, WP!WriterAlone

LEMMA WpWriteUnlock ==
  ASSUME WP!IsFiniteSet(WP!Users), WP!LockInv, NEW w \in WP!Users, WP!write_unlock(w)
  PROVE  WP!Kept
<1> USE DEF WP!LockInv, WP!TypeOK
<1>1. /\ wp_pc[w] = "writing" /\ wp_active_writers' = wp_active_writers - 1
      /\ UNCHANGED <<wp_active_readers, wp_waiting_readers, wp_waiting_writers>>
      /\ w \in WP!At("writing") /\ w \notin WP!At("reading")
  BY Zenon DEF WP!write_unlock, WP!At
<1>2. /\ wp_pc' \in [WP!Users -> WP!Labels]
      /\ WP!At("reading")' = WP!At("reading") \ {w} /\ WP!At("writing")' = WP!At("writing") \ {w}
      /\ WP!RWaiting' = WP!RWaiting /\ WP!WWaiting' = WP!WWaiting
      /\ WP!At("rwait")' = {} \/ WP!WWaiting' # {}
      /\ WP!At("wwait")' = {} \/ WP!At("wwoken")' # {}
  <2>1. CASE wp_waiting_writers > 0 /\ WP!Signal(w, "out", "wwait", "wwoken")
    <3>1. WP!WWaiting # {}
      BY SMTT(30), <2>1, WpPlaces
    <3> QED
      BY Zenon, <1>1, <2>1, <3>1, WpSignals
  <2>2. CASE wp_waiting_writers = 0 /\ WP!Broadcast(w, "out", "rwait", "rwoken")
    <3>1. WP!At("wwait") = {}
      BY Zenon, <2>2, WpPlaces DEF WP!WWaiting
    <3> QED
      BY Zenon, <1>1, <2>2, <3>1, WpBroadcasts
  <2>3. CASE wp_waiting_writers = 0 /\ wp_waiting_readers = 0 /\ WP!Goto(w, "out")
    <3>1. WP!RWaiting = {} /\ WP!WWaiting = {}
      BY Zenon, <2>3, WpPlaces
    <3>2. /\ wp_pc' \in [WP!Users -> WP!Labels]
          /\ WP!At("reading")' = WP!At("reading") \ {w} /\ WP!At("writing")' = WP!At("writing") \ {w}
          /\ WP!RWaiting' = WP!RWaiting /\ WP!WWaiting' = WP!WWaiting
          /\ WP!At("rwait")' \subseteq WP!RWaiting /\ WP!At("wwait")' \subseteq WP!WWaiting
      BY Zenon, <1>1, <2>3 DEF WP!Goto, WP!At, WP!Labels, WP!RWaiting, WP!WWaiting
    <3> QED
      BY Zenon, <3>1, <3>2
  <2> QED
    BY Zenon, <2>1, <2>2, <2>3 DEF WP!write_unlock
<1>3. WP!At("reading")' = WP!At("reading") /\ WP!At("writing") = {w} /\ WP!At("writing")' = {}
  BY Zenon, <1>1, <1>2 DEF WP!WriterAlone
<1>4. wp_active_writers' = WP!Cardinality(WP!At("writing")')
  BY SMTT(30), <1>1, <1>2, WpPlaces, WpCounting
<1>5. WP!SleeperHasWaker'
  BY Zenon, <1>2 DEF WP!SleeperHasWaker, WP!WWaiting
<1>6. WP!Lock!Next
  BY Zenon, <1>3 DEF WP!Lock!Next, WP!Lock!ReleaseWrite
<1> QED
  BY Zenon, <1>1, <1>2, <1>3, <1>4, <1>5, <1>6 DEF WP!Kept, WP!WriterAlone

\* A return of pthread_cond_wait without a signal changes no population that is
\* counted.
LEMMA WpWaking ==
  ASSUME WP!IsFiniteSet(WP!Users), WP!LockInv, NEW t \in WP!Users, WP!SpuriousWakeup(t)
  PROVE  WP!Kept
<1>1. /\ wp_pc' \in [WP!Users -> WP!Labels] /\ UNCHANGED WP!counts
      /\ WP!At("reading")' = WP!At("reading") /\ WP!At("writing")' = WP!At("writing")
      /\ WP!RWaiting' = WP!RWaiting /\ WP!WWaiting' = WP!WWaiting
      /\ WP!At("rwait")' \subseteq WP!At("rwait") /\ WP!At("wwait")' \subseteq WP!At("wwait")
      /\ WP!At("wwoken") \subseteq WP!At("wwoken")'
  BY Zenon DEF WP!LockInv, WP!TypeOK, WP!SpuriousWakeup, WP!Spurious, WP!Goto, WP!At, WP!Labels,
     WP!RWaiting, WP!WWaiting
<1>2. WP!SleeperHasWaker'
  BY Zenon, <1>1 DEF WP!LockInv, WP!SleeperHasWaker, WP!WWaiting
<1> QED
  BY Zenon, <1>1, <1>2 DEF WP!Kept, WP!LockInv, WP!TypeOK, WP!WriterAlone, WP!counts

LEMMA WpNext == ASSUME WP!IsFiniteSet(WP!Users), WP!LockInv, [WP!Next]_(WP!vars) PROVE WP!Kept
<1>1. CASE UNCHANGED WP!vars
  BY Zenon, <1>1 DEF WP!vars, WP!counts, WP!Kept, WP!LockInv, WP!TypeOK, WP!WriterAlone,
     WP!SleeperHasWaker, WP!At, WP!RWaiting, WP!WWaiting
<1>2. CASE WP!Next
  BY SMTT(30), <1>2, WpReadLock, WpReadUnlock, WpWriteLock, WpWriteUnlock, WpWaking DEF WP!Next, WP!reader,
     WP!writer, WP!Users
<1> QED
  BY <1>1, <1>2

\* However many readers and writers use the lock of writeStarvation.c, it is a
\* readers-writer lock, no reader gets past a waiting writer, and no thread sleeps
\* without one that will wake it.
THEOREM WritePrefIsRight ==
  ASSUME WP!IsFiniteSet(WP!Users)
  PROVE  WP!Spec => WP!ImplementsRwLock /\ WP!NoReaderOvertakes /\ []WP!SleeperHasWaker
<1>1. WP!Init => WP!Lock!Init
  BY Zenon DEF WP!Init, WP!Lock!Init, WP!At
<1>2. WP!LockInv /\ [WP!Next]_(WP!vars) => [wp_waiting_writers > 0 => WP!At("reading")' \subseteq WP!At("reading")]_(WP!vars)
  <2> SUFFICES ASSUME WP!LockInv, WP!Next, wp_waiting_writers > 0
               PROVE  WP!At("reading")' \subseteq WP!At("reading")
    BY Zenon
  <2> USE DEF WP!LockInv, WP!TypeOK
  <2>1. ASSUME NEW r \in WP!Users, WP!read_lock(r) PROVE WP!At("reading")' \subseteq WP!At("reading")
    BY Zenon, <2>1 DEF WP!read_lock, WP!Goto, WP!At
  <2>2. ASSUME NEW w \in WP!Users, WP!write_lock(w) PROVE WP!At("reading")' \subseteq WP!At("reading")
    BY Zenon, <2>2 DEF WP!write_lock, WP!Goto, WP!At
  <2>3. ASSUME NEW r \in WP!Users, WP!read_unlock(r) PROVE WP!At("reading")' \subseteq WP!At("reading")
    BY Zenon, <2>3, WpSignals DEF WP!read_unlock, WP!Goto, WP!At
  <2>4. ASSUME NEW w \in WP!Users, WP!write_unlock(w) PROVE WP!At("reading")' \subseteq WP!At("reading")
    BY SMTT(30), <2>4, WpSignals DEF WP!write_unlock
  <2>5. ASSUME NEW t \in WP!Users, WP!SpuriousWakeup(t) PROVE WP!At("reading")' \subseteq WP!At("reading")
    BY Zenon, <2>5 DEF WP!SpuriousWakeup, WP!Spurious, WP!Goto, WP!At
  <2> QED
    BY Zenon, <2>1, <2>2, <2>3, <2>4, <2>5 DEF WP!Next, WP!reader, WP!writer, WP!Users
<1>3. WP!Spec => []WP!LockInv
  BY WpStart, WpNext, PTL DEF WP!Spec, WP!Kept
<1>4. WP!Spec => WP!ImplementsRwLock
  BY <1>1, <1>3, WpNext, PTL DEF WP!Spec, WP!Kept, WP!ImplementsRwLock, WP!Lock!Spec, WP!Lock!vars
<1>5. WP!Spec => WP!NoReaderOvertakes
  BY <1>2, <1>3, PTL DEF WP!Spec, WP!NoReaderOvertakes
<1>6. WP!LockInv => WP!SleeperHasWaker
  BY Zenon DEF WP!LockInv
<1> QED
  BY <1>3, <1>4, <1>5, <1>6, PTL

ASSUME UsersAssumption == IsFiniteSet(LockReaders) /\ IsFiniteSet(LockWriters)
-----------------------------------------------------------------------------
(***************************************************************************)
(* rwlock_buffer.c, for any finite sets of readers and writers, any size   *)
(* of the buffer and any number of iterations; rw_buffer_order has values  *)
(* that differ.                                                            *)
(***************************************************************************)
CONSTANTS BufReaders, BufWriters, BufSize, BufIterations, BufValues,
          OrderReaders, OrderValues

VARIABLES running, counter_lock, write_lock, read_count, shared_data, buffer, count,
          in, out, rb_pc, rb_iter, new_value, finished

RB == INSTANCE RwLockBuffer WITH
        Readers <- BufReaders, Writers <- BufWriters, Size <- BufSize,
        Iterations <- BufIterations, Values <- BufValues, None <- 0,
        pc <- rb_pc, iter <- rb_iter
RC == INSTANCE RwLockBuffer WITH
        Readers <- OrderReaders, Writers <- BufWriters, Size <- BufSize,
        Iterations <- BufIterations, Values <- OrderValues, None <- 0,
        pc <- rb_pc, iter <- rb_iter

ASSUME BufferAssumption == RB!BufferConstants /\ RC!BufferConstants
-----------------------------------------------------------------------------
WPvars == <<wp_pc, wp_active_readers, wp_waiting_readers, wp_active_writers,
          wp_waiting_writers>>
AGvars == <<ag_pc, ag_active_readers, ag_waiting_readers, ag_active_writers,
          ag_waiting_writers, ag_writer_waiting>>
UPvars == <<up_pc, readers, writers, upgraders, is_writing>>
PIvars == <<pi_lock, owner_priority, highest_waiter_priority, pi_pc>>
RBvars == <<running, counter_lock, write_lock, read_count, shared_data, buffer, count,
          in, out, rb_pc, rb_iter, new_value, finished>>
LEvars == <<master_id, master_alive, age, le_pc, beats, idle>>
SPvars == <<blocks, ref_count, mutex, refs, sp_pc, for>>
UQvars == <<ptr, is_owned, uq_pc, got, fresh, live>>

\* The programs are independent: a behaviour is one of one program, and the
\* others stay in an initial state.
SuiteInit ==
    /\ program \in {"futex", "writeStarvation", "aggressiveWriter",
                    "upgradeableReadLocks", "priority_inheritance", "rw_buffer",
                    "rw_buffer_order", "leader_election", "late_threads",
                    "shared_ptr", "unique_ptr"}
    /\ Init
    /\ WP!Init
    /\ AG!Init
    /\ UP!Init
    /\ PI!Init
    /\ IF program = "rw_buffer_order" THEN RC!Init ELSE RB!Init
    /\ IF program = "late_threads" THEN LF!Init ELSE LE!Init
    /\ SP!Init
    /\ UQ!Init

SuiteNext ==
    /\ UNCHANGED program
    /\ \/ /\ program = "futex" /\ Next
          /\ UNCHANGED <<WPvars, AGvars, UPvars, PIvars, RBvars, LEvars, SPvars,
                       UQvars>>
       \/ /\ program = "writeStarvation" /\ WP!Next
          /\ UNCHANGED <<vars, AGvars, UPvars, PIvars, RBvars, LEvars, SPvars, UQvars>>
       \/ /\ program = "aggressiveWriter" /\ AG!Next
          /\ UNCHANGED <<vars, WPvars, UPvars, PIvars, RBvars, LEvars, SPvars, UQvars>>
       \/ /\ program = "upgradeableReadLocks" /\ UP!Next
          /\ UNCHANGED <<vars, WPvars, AGvars, PIvars, RBvars, LEvars, SPvars, UQvars>>
       \/ /\ program = "priority_inheritance" /\ PI!Next
          /\ UNCHANGED <<vars, WPvars, AGvars, UPvars, RBvars, LEvars, SPvars, UQvars>>
       \/ /\ program = "rw_buffer" /\ RB!Next
          /\ UNCHANGED <<vars, WPvars, AGvars, UPvars, PIvars, LEvars, SPvars, UQvars>>
       \/ /\ program = "rw_buffer_order" /\ RC!Next
          /\ UNCHANGED <<vars, WPvars, AGvars, UPvars, PIvars, LEvars, SPvars, UQvars>>
       \/ /\ program = "leader_election" /\ LE!Next
          /\ UNCHANGED <<vars, WPvars, AGvars, UPvars, PIvars, RBvars, SPvars, UQvars>>
       \/ /\ program = "late_threads" /\ LF!Next
          /\ UNCHANGED <<vars, WPvars, AGvars, UPvars, PIvars, RBvars, SPvars, UQvars>>
       \/ /\ program = "shared_ptr" /\ SP!Next
          /\ UNCHANGED <<vars, WPvars, AGvars, UPvars, PIvars, RBvars, LEvars, UQvars>>
       \/ /\ program = "unique_ptr" /\ UQ!Next
          /\ UNCHANGED <<vars, WPvars, AGvars, UPvars, PIvars, RBvars, LEvars, SPvars>>

suite_vars == <<program, vars, WPvars, AGvars, UPvars, PIvars, RBvars, LEvars, SPvars,
                  UQvars>>

SuiteSpec == SuiteInit /\ [][SuiteNext]_suite_vars

\* A thread that can go on does.
SuiteFairSpec ==
    /\ SuiteSpec
    /\ \A t \in Threads : WF_vars(program = "futex" /\ Step(t))
    /\ \A t \in LockReaders : /\ WF_WPvars(program = "writeStarvation" /\ WP!reader(t))
                              /\ WF_AGvars(program = "aggressiveWriter" /\ AG!reader(t))
    /\ \A t \in LockWriters : /\ WF_WPvars(program = "writeStarvation" /\ WP!writer(t))
                              /\ WF_AGvars(program = "aggressiveWriter" /\ AG!writer(t))
    /\ \A t \in Tasks : WF_PIvars(program = "priority_inheritance" /\ PI!task_function(t))
    /\ \A t \in BufReaders : WF_RBvars(program = "rw_buffer" /\ RB!reader_thread(t))
    /\ \A t \in BufWriters : WF_RBvars(program = "rw_buffer" /\ RB!writer_thread(t))
    /\ WF_RBvars(program = "rw_buffer" /\ RB!main)
    /\ WF_LEvars(program = "late_threads" /\ LF!Tick)
    /\ \A t \in LF!Nodes : WF_LEvars(program = "late_threads" /\ LF!master_thread(t))
    /\ \A t \in LF!Nodes : WF_LEvars(program = "late_threads" /\ LF!follower_thread(t))
-----------------------------------------------------------------------------
\* Program p is the one that runs, in a form that TLC checks all promises of a
\* suite with at once: program never changes.
Runs(p) == []<>(program = p)

\* writeStarvation.c, aggressiveWriter.c and upgradeableReadLocks.c are
\* readers-writer locks: readers together or one writer alone, through upgrades too.
LocksImplementRwLock ==
    WP!ImplementsRwLock /\ AG!ImplementsRwLock /\ UP!ImplementsRwLock

\* The same locks: the counters are the populations they count, and whoever
\* sleeps on a condition variable (of upgradeableReadLocks.c: as a reader) has a
\* thread that will wake it.  A raised writer_waiting of aggressiveWriter.c has a
\* writer that will lower it.
LockSleepersHaveWakers ==
    /\ WP!TypeOK /\ WP!SleeperHasWaker
    /\ AG!TypeOK /\ AG!SleeperHasWaker /\ AG!FlagHasWriter
    /\ UP!TypeOK /\ UP!ReaderHasWaker

\* writeStarvation.c and aggressiveWriter.c: when writers wait, one of them gets
\* to write, however many readers come; in the first no reader overtakes a writer
\* that waits.
WritersGetIn == WP!NoReaderOvertakes /\ WP!WriterGetsIn /\ AG!WriterGetsIn

\* priority_inheritance.c: the notes beside the mutex name its owner and a
\* task that really waits.
NotesAreTrue == PI!OwnerIsNoted /\ PI!WaiterIsReal

\* rwlock_buffer.c: a writer of the shared data is alone, and reader_count is the
\* number of readers, through every hand-over between the two mutexes.
WriterIsAlone ==
    IF program = "rw_buffer_order"
    THEN RC!TypeOK /\ RC!WriterIsAlone /\ RC!ReadersCounted
    ELSE RB!TypeOK /\ RB!WriterIsAlone /\ RB!ReadersCounted

\* rwlock_buffer.c: nobody sleeps on not_full or not_empty with room or an item
\* there and no signal under way.
NoLostWakeup == IF program = "rw_buffer_order" THEN RC!NoLostWakeup ELSE RB!NoLostWakeup

\* rwlock_buffer.c: the bounded buffer is first-in first-out.
BufferIsFifo == RC!BufferIsFifo

\* leaderElection.c: while no thread is later than the timeout there is one master
\* at a time, and it is the one that master_id names.
OneRecordedMaster ==
    program = "leader_election" => LE!TypeOK /\ LE!OneRecordedMaster

\* smartPointer.c: the block is freed once, by the last reference, not before
\* and not never.  uniquePointer.c: every block has one owner until it is freed.
FreedOnceInTime ==
    /\ SP!TypeOK /\ SP!NoUseAfterFree /\ SP!OneDeleter /\ SP!NoLeak
    /\ UQ!TypeOK /\ UQ!OneOwner

\* The threads of preemmtibleCriticalSections.c, the tasks of
\* priority_inheritance.c, the writers of rwlock_buffer.c and, however late they
\* are, the threads of leaderElection.c get through.
ThreadsFinish ==
    /\ Runs("futex") => AllFinish
    /\ Runs("priority_inheritance") => PI!AllDone
    /\ Runs("rw_buffer") => RB!WritersFinish
    /\ Runs("late_threads") => LF!AllFinish
-----------------------------------------------------------------------------
(***************************************************************************)
(* The suite's promises, for all values of the constants.                  *)
(***************************************************************************)

\* The other programs stand still: every step of the suite is a step of the program
\* that runs and a stutter of the others.
LEMMA Frames ==
  ASSUME [SuiteNext]_suite_vars
  PROVE  /\ program' = program
         /\ [Next]_vars
         /\ [WP!Next]_(WP!vars) /\ [AG!Next]_(AG!vars) /\ [UP!Next]_(UP!vars)
         /\ [PI!Next]_(PI!vars) /\ [SP!Next]_(SP!vars) /\ [UQ!Next]_(UQ!vars)
         /\ program = "rw_buffer_order" => [RC!Next]_(RC!vars)
         /\ program # "rw_buffer_order" => [RB!Next]_(RB!vars)
         /\ program = "leader_election" => [LE!Next]_(LE!vars)
<1>1. /\ UNCHANGED WPvars => UNCHANGED WP!vars
      /\ UNCHANGED AGvars => UNCHANGED AG!vars
      /\ UNCHANGED UPvars => UNCHANGED UP!vars
      /\ UNCHANGED PIvars => UNCHANGED PI!vars
  BY Zenon DEF WPvars, WP!vars, WP!counts, AGvars, AG!vars, AG!readers, AG!writers,
         UPvars, UP!vars, PIvars, PI!vars, PI!notes
<1>2. /\ UNCHANGED RBvars => UNCHANGED RB!vars /\ UNCHANGED RC!vars
      /\ UNCHANGED LEvars => UNCHANGED LE!vars
      /\ UNCHANGED SPvars => UNCHANGED SP!vars
      /\ UNCHANGED UQvars => UNCHANGED UQ!vars
  BY Zenon DEF RBvars, RB!vars, RB!rwlock, RB!bb, RC!vars, RC!rwlock, RC!bb,
         LEvars, LE!vars, LE!shared, SPvars, SP!vars, UQvars, UQ!vars
<1>3. CASE UNCHANGED suite_vars
  BY Zenon, <1>1, <1>2, <1>3 DEF suite_vars
<1>4. CASE SuiteNext
  BY Zenon, <1>1, <1>2, <1>4 DEF SuiteNext
<1> QED
  BY Zenon, <1>3, <1>4

\* The locks have finitely many users.
LEMMA FiniteUsers == WP!IsFiniteSet(WP!Users) /\ AG!IsFiniteSet(AG!Users)
<1>1. IsFiniteSet(LockReaders \cup LockWriters)
  BY Zenon, UsersAssumption, FS_Union
<1> QED
  BY Zenon, <1>1 DEF WP!IsFiniteSet, AG!IsFiniteSet, IsFiniteSet, WP!Users, AG!Users

\* However many threads use them, writeStarvation.c, aggressiveWriter.c and
\* upgradeableReadLocks.c are readers-writer locks.
THEOREM SuiteLocks == SuiteSpec => LocksImplementRwLock
<1>1. SuiteSpec => WP!Spec /\ AG!Spec /\ UP!Spec
  BY Frames, PTL DEF SuiteSpec, SuiteInit, WP!Spec, AG!Spec, UP!Spec
<1>2. WP!Spec => WP!ImplementsRwLock
  BY Zenon, FiniteUsers, WritePrefIsRight
<1>3. AG!Spec => AG!ImplementsRwLock
  BY Zenon, FiniteUsers, AggressiveIsRight
<1>4. UP!Spec => UP!ImplementsRwLock
  BY Zenon, UpgradeableIsRight
<1> QED
  BY SMTT(30), <1>1, <1>2, <1>3, <1>4 DEF LocksImplementRwLock

\* Whoever sleeps on a condition variable of the three locks has a thread that will
\* wake it, and their counters are right.
THEOREM SuiteSleepers == SuiteSpec => []LockSleepersHaveWakers
<1> DEFINE I == WP!LockInv /\ AG!LockInv /\ UP!UpInv
<1>1. SuiteInit => I
  BY Zenon, FiniteUsers, WpStart, AgStart, UpStart DEF SuiteInit
<1>2. I /\ [SuiteNext]_suite_vars => I'
  <2> SUFFICES ASSUME I, [SuiteNext]_suite_vars PROVE I'
    BY Zenon
  <2>1. WP!Kept /\ AG!Kept /\ UP!UpKept
    BY Zenon, Frames, FiniteUsers, WpNext, AgNext, UpNext
  <2> QED
    BY Zenon, <2>1 DEF WP!Kept, AG!Kept, UP!UpKept
<1>3. I => LockSleepersHaveWakers
  BY Zenon DEF LockSleepersHaveWakers, WP!LockInv, AG!LockInv, UP!UpInv
<1> QED
  BY <1>1, <1>2, <1>3, PTL DEF SuiteSpec

\* The notes of priority_inheritance.c name the owner and a task that waits, for any
\* tasks and priorities.
THEOREM SuiteNotes == SuiteSpec => []NotesAreTrue
<1>1. SuiteInit => PI!NotesInv
  BY Zenon, NotesStart DEF SuiteInit
<1>2. PI!NotesInv /\ [SuiteNext]_suite_vars => PI!NotesInv'
  BY Zenon, Frames, NotesStep
<1>3. PI!NotesInv => NotesAreTrue
  BY Zenon DEF PI!NotesInv, NotesAreTrue
<1> QED
  BY <1>1, <1>2, <1>3, PTL DEF SuiteSpec

\* In leaderElection.c with threads that are never later than the timeout, however
\* many there are, no two run as master and the shared record names the one that does.
THEOREM SuiteMaster == SuiteSpec => []OneRecordedMaster
<1> DEFINE I == program = "leader_election" => LE!ElectionInv
<1>1. SuiteInit => I
  BY Zenon, TimelyAssumption, ElectionInit DEF SuiteInit
<1>2. I /\ [SuiteNext]_suite_vars => I'
  BY Zenon, Frames, TimelyAssumption, ElectionNext
<1>3. I => OneRecordedMaster
  BY Zenon DEF LE!ElectionInv, LE!OneRecordedMaster, LE!OneMaster, LE!MasterIsRecorded, LE!Leads,
         OneRecordedMaster
<1> QED
  BY <1>1, <1>2, <1>3, PTL DEF SuiteSpec

\* However many threads share the pointers of smartPointer.c and uniquePointer.c,
\* what they point to is freed once, by its last owner.
THEOREM SuiteFrees == SuiteSpec => []FreedOnceInTime
<1> DEFINE I == SP!RefsInv /\ UQ!PtrInv
<1>1. SuiteInit => I
  BY Zenon, RefsStart, PtrStart DEF SuiteInit
<1>2. I /\ [SuiteNext]_suite_vars => I'
  BY Zenon, Frames, RefsStep, PtrStep
<1>3. I => FreedOnceInTime
  BY Zenon, RefsSafe, PtrOwner DEF FreedOnceInTime
<1> QED
  BY <1>1, <1>2, <1>3, PTL DEF SuiteSpec

\* The buffer's program in its two sizes.
BothBuffers == IF program = "rw_buffer_order" THEN RC!BufferInv ELSE RB!BufferInv

\* main of rwlock_buffer.c sets up the locks and the empty buffer.
LEMMA BothStart == SuiteInit => BothBuffers
  BY Zenon, BufferAssumption, RB!BufferStart, RC!BufferStart DEF SuiteInit, BothBuffers

\* Every step of rwlock_buffer.c keeps its invariant, and is one of a first-in
\* first-out buffer.
LEMMA BothStep ==
  ASSUME BothBuffers, [SuiteNext]_suite_vars
  PROVE  BothBuffers' /\ RC!FifoStep
<1>1. CASE program = "rw_buffer_order"
  BY Zenon, <1>1, Frames, BufferAssumption, RC!BufferStep DEF BothBuffers
<1>2. CASE program # "rw_buffer_order"
  <2>1. RB!BufferInv' /\ RB!FifoStep
    BY Zenon, <1>2, Frames, BufferAssumption, RB!BufferStep DEF BothBuffers
  <2>2. RC!FifoStep
    BY Zenon, <2>1 DEF RB!FifoStep, RC!FifoStep, RB!Contents, RC!Contents, RB!At, RC!At
  <2> QED
    BY Zenon, <1>2, <2>1, <2>2, Frames DEF BothBuffers
<1> QED
  BY Zenon, <1>1, <1>2

\* Whatever the number of threads and the size of the buffer, a writer of
\* rwlock_buffer.c is alone and its readers are counted.
THEOREM SuiteWriters == SuiteSpec => []WriterIsAlone
<1>1. BothBuffers => WriterIsAlone
  BY Zenon, BufferAssumption, RB!BufferSafe, RC!BufferSafe DEF BothBuffers, WriterIsAlone
<1> QED
  BY BothStart, BothStep, <1>1, PTL DEF SuiteSpec

\* Nor does any of them sleep through the item or the slot it waits for.
THEOREM SuiteWakeups == SuiteSpec => []NoLostWakeup
<1>1. BothBuffers => NoLostWakeup
  BY Zenon, BufferAssumption, RB!BufferSafe, RC!BufferSafe DEF BothBuffers, NoLostWakeup
<1> QED
  BY BothStart, BothStep, <1>1, PTL DEF SuiteSpec

\* The items leave the buffer of rwlock_buffer.c in the order they came.
THEOREM SuiteFifo == SuiteSpec => BufferIsFifo
<1>1. BothBuffers /\ [SuiteNext]_suite_vars => [RC!FifoStep]_(RC!vars)
  BY Zenon, BothStep
<1> QED
  BY BothStart, BothStep, <1>1, PTL DEF SuiteSpec, BufferIsFifo, RC!BufferIsFifo, RC!FifoStep
=============================================================================

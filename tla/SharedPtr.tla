----------------------------- MODULE SharedPtr -----------------------------
(***************************************************************************)
(* memory/allocation/smartPointer.c: a reference counted pointer made of   *)
(* three heap blocks (the handle, the data and the count) and a mutex.     *)
(* Threads that hold a reference may copy it for another thread and drop   *)
(* it, at any time; the one that drops the last reference frees the rest.  *)
(***************************************************************************)
EXTENDS Integers, Sequences, FiniteSets

CONSTANTS Threads, None,   \* None: nobody holds the mutex
          Main, MaxRefs    \* the creator, and a bound on the count

VARIABLES blocks,      \* the blocks that are allocated
          ref_count, mutex,
          refs,        \* the references each thread holds
          pc, for      \* where a thread is, and for whom it copies

vars == <<blocks, ref_count, mutex, refs, pc, for>>

Init == /\ blocks = {} /\ ref_count = 0 /\ mutex = None
        /\ refs = [t \in Threads |-> 0]
        /\ pc = [t \in Threads |-> IF t = Main THEN "malloc" ELSE "idle"]
        /\ for = [t \in Threads |-> t]

Goto(t, label) == pc' = [pc EXCEPT ![t] = label]

\* What is freed when step n of create_shared fails.
Undone(n) == CASE n = 1 -> {}
               [] n = 2 -> {"ptr"}
               [] n = 3 -> {"data", "ptr"}
               [] n = 4 -> {"count", "data", "ptr"}

\* Three blocks, then the mutex; a step that fails frees what came before it
\* and main gets NULL.  Nothing else runs before main has the pointer.
create_shared ==
    LET n == Cardinality(blocks) + 1
    IN /\ pc[Main] = "malloc"
       /\ \/ /\ n <= 3 /\ blocks' = blocks \cup {<<"ptr", "data", "count">>[n]}
             /\ UNCHANGED <<ref_count, refs, pc>>
          \/ /\ n = 4 /\ ref_count' = 1 /\ refs' = [refs EXCEPT ![Main] = 1]
             /\ Goto(Main, "idle") /\ UNCHANGED blocks
          \/ /\ blocks' = blocks \ Undone(n)
             /\ Goto(Main, "idle") /\ UNCHANGED <<ref_count, refs>>
       /\ UNCHANGED <<mutex, for>>

\* A thread with a reference begins to copy it for u, or to drop it.
Begin(t) ==
    /\ pc[t] = "idle" /\ refs[t] > 0
    /\ \/ \E u \in Threads : for' = [for EXCEPT ![t] = u] /\ Goto(t, "inc")
       \/ Goto(t, "dec") /\ UNCHANGED for
    /\ UNCHANGED <<blocks, ref_count, mutex, refs>>

Lock(t) ==
    /\ pc[t] \in {"inc", "dec"} /\ mutex = None
    /\ mutex' = t
    /\ Goto(t, IF pc[t] = "inc" THEN "add" ELSE "sub")
    /\ UNCHANGED <<blocks, ref_count, refs, for>>

\* atomic_fetch_add under the lock; then the copy is u's.
shared_ptr_inc_ref(t) ==
    /\ pc[t] = "add"
    /\ IF ref_count < MaxRefs
       THEN ref_count' = ref_count + 1 /\ refs' = [refs EXCEPT ![for[t]] = @ + 1]
       ELSE UNCHANGED <<ref_count, refs>>   \* the bound
    /\ Goto(t, "unlock")
    /\ UNCHANGED <<blocks, mutex, for>>

\* Mutant: the last but one reference frees the blocks.
shared_ptr_dec_ref_Early(t) ==
    /\ pc[t] = "sub"
    /\ ref_count' = ref_count - 1 /\ refs' = [refs EXCEPT ![t] = @ - 1]
    /\ Goto(t, IF ref_count <= 2 THEN "unlock_delete" ELSE "unlock")
    /\ UNCHANGED <<blocks, mutex, for>>

\* atomic_fetch_sub under the lock: its old value says who frees.
shared_ptr_dec_ref(t) ==
    /\ pc[t] = "sub"
    /\ ref_count' = ref_count - 1 /\ refs' = [refs EXCEPT ![t] = @ - 1]
    /\ Goto(t, IF ref_count = 1 THEN "unlock_delete" ELSE "unlock")
    /\ UNCHANGED <<blocks, mutex, for>>

Unlock(t) ==
    /\ pc[t] \in {"unlock", "unlock_delete"}
    /\ mutex' = None
    /\ Goto(t, IF pc[t] = "unlock" THEN "idle" ELSE "delete")
    /\ UNCHANGED <<blocks, ref_count, refs, for>>

\* After the last reference: the deleter, the count, the mutex and the handle.
Free(t, at, block, next) ==
    /\ pc[t] = at
    /\ blocks' = blocks \ {block}
    /\ Goto(t, next)
    /\ UNCHANGED <<ref_count, mutex, refs, for>>

Delete(t) == \/ Free(t, "delete", "data", "free_count")
             \/ Free(t, "free_count", "count", "free_ptr")
             \/ Free(t, "free_ptr", "ptr", "idle")

Next == \/ create_shared
        \/ \E t \in Threads : \/ Begin(t) \/ Lock(t) \/ shared_ptr_inc_ref(t)
                              \/ shared_ptr_dec_ref(t) \/ Unlock(t) \/ Delete(t)

Spec == Init /\ [][Next]_vars
-----------------------------------------------------------------------------
\* Types; a thread's references are some of those that are counted.
Types ==
    /\ blocks \subseteq {"ptr", "data", "count"}
    /\ ref_count \in 0 .. MaxRefs /\ mutex \in Threads \cup {None}
    /\ refs \in [Threads -> Nat] /\ for \in [Threads -> Threads]
    /\ pc \in [Threads -> {"malloc", "idle", "inc", "dec", "add", "sub", "unlock",
                           "unlock_delete", "delete", "free_count", "free_ptr"}]

TypeOK == Types /\ \A t \in Threads : refs[t] <= ref_count

\* The blocks the next step of a thread at this place reads, writes or frees.
Touches(label) ==
    CASE label \in {"inc", "dec", "unlock", "unlock_delete", "free_ptr"} -> {"ptr"}
      [] label \in {"add", "sub", "free_count"} -> {"ptr", "count"}
      [] label = "delete" -> {"ptr", "data"}
      [] OTHER -> {}

\* No thread touches a freed block: not a caller of inc_ref or dec_ref that
\* waits for the mutex, not one that is about to unlock it, and not the one
\* that frees; and a thread with a reference can always read the data.
NoUseAfterFree ==
    \A t \in Threads : /\ Touches(pc[t]) \subseteq blocks
                       /\ refs[t] > 0 => "data" \in blocks

\* One thread at most frees the blocks, whatever drops race for being last.
OneDeleter ==
    Cardinality({t \in Threads : pc[t] \in {"unlock_delete", "delete", "free_count", "free_ptr"}}) <= 1

\* Once no reference is left and all calls have returned nothing is allocated;
\* the same after a creation that failed half way.
NoLeak ==
    (\A t \in Threads : pc[t] = "idle" /\ refs[t] = 0) => blocks = {}
-----------------------------------------------------------------------------
AllBlocks == {"ptr", "data", "count"}

\* The references, each with its holder.
Held == UNION {{t} \X (1 .. refs[t]) : t \in Threads}

\* The count of smartPointer.c is the number of references that are held.
Counted == IsFiniteSet(Held) /\ ref_count = Cardinality(Held)

Deleting(t) == pc[t] \in {"unlock_delete", "delete", "free_count", "free_ptr"}

\* The mutex is held where only its holder is; creation and deletion run alone; who
\* is in inc_ref or dec_ref has a reference; and the blocks are there as long as the
\* count says so, and then until their own free.
Phases ==
    /\ \A t \in Threads : mutex = t <=> pc[t] \in {"add", "sub", "unlock", "unlock_delete"}
    /\ \A t \in Threads : pc[t] = "malloc" =>
           /\ t = Main /\ ref_count = 0 /\ \A u \in Threads : u # t => pc[u] = "idle"
           /\ blocks \in {{}, {"ptr"}, {"ptr", "data"}, AllBlocks}
    /\ \A t \in Threads : Deleting(t) =>
           ref_count = 0 /\ \A u \in Threads : u # t => pc[u] = "idle"
    /\ \A t \in Threads : pc[t] \in {"inc", "add", "dec", "sub"} => refs[t] > 0
    /\ \A t \in Threads : pc[t] = "unlock" => ref_count > 0
    /\ ref_count > 0 => blocks = AllBlocks
    /\ \A t \in Threads : /\ pc[t] \in {"unlock_delete", "delete"} => blocks = AllBlocks
                          /\ pc[t] = "free_count" => blocks = {"ptr", "count"}
                          /\ pc[t] = "free_ptr" => blocks = {"ptr"}
    /\ ref_count = 0 /\ (\A t \in Threads : pc[t] = "idle") => blocks = {}

RefsInv == Types /\ Counted /\ Phases
=============================================================================

----------------------------- MODULE UniquePtr -----------------------------
(***************************************************************************)
(* memory/allocation/uniquePointer.c: a pointer with one owner.  Threads   *)
(* race to destroy, release or move out of one shared unique_ptr, where    *)
(* is_owned is exchanged atomically and ptr is a plain field; what they    *)
(* get out of it they dispose of on their own.  unique_ptr_reset reads     *)
(* is_owned and exchanges ptr in two steps that do not belong together, so *)
(* its caller is taken to have the pointer for itself.                     *)
(***************************************************************************)
EXTENDS Integers, FiniteSets

CONSTANTS Threads, Blocks, First, NULL   \* First: the block of main

VARIABLES ptr, is_owned,   \* of the shared unique_ptr
          pc, got,         \* of each thread: tmp or new_up.ptr
          fresh,           \* the blocks never allocated so far
          live             \* of each block: how often allocated, less how often freed

vars == <<ptr, is_owned, pc, got, fresh, live>>

\* unique_ptr_create around main's block.
Init == /\ ptr = First /\ is_owned = TRUE
        /\ pc = [t \in Threads |-> "idle"] /\ got = [t \in Threads |-> NULL]
        /\ fresh = Blocks \ {First} /\ live = [b \in Blocks |-> IF b = First THEN 1 ELSE 0]

Goto(t, label) == pc' = [pc EXCEPT ![t] = label]

deleter(b) == live' = [live EXCEPT ![b] = @ - 1]

\* atomic_exchange(&up->is_owned, false): one thread gets TRUE.
TakeOwnership(t, won, lost) ==
    /\ Goto(t, IF is_owned THEN won ELSE lost)
    /\ is_owned' = FALSE

unique_ptr_destroy(t) ==
    \/ /\ pc[t] = "idle" /\ got[t] = NULL
       /\ TakeOwnership(t, "delete", "idle")
       /\ UNCHANGED <<ptr, got, fresh, live>>
    \/ /\ pc[t] = "delete"
       /\ IF ptr # NULL THEN deleter(ptr) /\ Goto(t, "null") ELSE UNCHANGED live /\ Goto(t, "idle")
       /\ UNCHANGED <<ptr, is_owned, got, fresh>>
    \/ /\ pc[t] = "null"
       /\ ptr' = NULL
       /\ Goto(t, "idle")
       /\ UNCHANGED <<is_owned, got, fresh, live>>

\* release and move first copy ptr.
CopyPtr(t) ==
    /\ pc[t] = "idle" /\ got[t] = NULL
    /\ got' = [got EXCEPT ![t] = ptr]
    /\ Goto(t, "exchange")
    /\ UNCHANGED <<ptr, is_owned, fresh, live>>

Exchange(t) ==
    /\ pc[t] = "exchange"
    /\ TakeOwnership(t, "clear", "drop")
    /\ UNCHANGED <<ptr, got, fresh, live>>

\* The winner empties the shared unique_ptr.
Clear(t) ==
    /\ pc[t] = "clear"
    /\ ptr' = NULL
    /\ Goto(t, "idle")
    /\ UNCHANGED <<is_owned, got, fresh, live>>

\* The loser forgets what it copied.
Drop(t) ==
    /\ pc[t] = "drop"
    /\ got' = [got EXCEPT ![t] = NULL]
    /\ Goto(t, "idle")
    /\ UNCHANGED <<ptr, is_owned, fresh, live>>

\* move also copies is_owned, which is true if the exchange then wins.
unique_ptr_release_or_move(t) == CopyPtr(t) \/ Exchange(t) \/ Clear(t) \/ Drop(t)

\* A thread frees what it released, or destroys what it moved to.
Dispose(t) ==
    /\ pc[t] = "idle" /\ got[t] # NULL
    /\ deleter(got[t])
    /\ got' = [got EXCEPT ![t] = NULL]
    /\ UNCHANGED <<ptr, is_owned, pc, fresh>>

\* With a new block p: it replaces the old one, which is deleted, unless the
\* pointer does not own; then p stays with the caller.
unique_ptr_reset(t, p) ==
    /\ \A u \in Threads : pc[u] = "idle"
    /\ got[t] = NULL /\ p \in fresh /\ fresh' = fresh \ {p}
    /\ IF is_owned
       THEN ptr' = p /\ live' = [live EXCEPT ![p] = 1, ![ptr] = @ - 1] /\ UNCHANGED got
       ELSE got' = [got EXCEPT ![t] = p] /\ live' = [live EXCEPT ![p] = 1] /\ UNCHANGED ptr
    /\ UNCHANGED <<is_owned, pc>>

Next == \E t \in Threads : \/ unique_ptr_destroy(t) \/ unique_ptr_release_or_move(t)
                           \/ Dispose(t) \/ \E p \in Blocks : unique_ptr_reset(t, p)

Spec == Init /\ [][Next]_vars
-----------------------------------------------------------------------------
\* Types; a block is never freed twice.
TypeOK ==
    /\ ptr \in Blocks \cup {NULL} /\ is_owned \in BOOLEAN
    /\ pc \in [Threads -> {"idle", "delete", "null", "exchange", "clear", "drop"}]
    /\ got \in [Threads -> Blocks \cup {NULL}]
    /\ live \in [Blocks -> 0 .. 1] /\ fresh \subseteq Blocks

\* Who will free block b: the shared unique_ptr, a thread in the middle of
\* destroying it, or a thread that won it.
Owners(b) ==
    (IF is_owned /\ ptr = b THEN {"shared"} ELSE {})
      \cup {t \in Threads : pc[t] = "delete" /\ ptr = b}
      \cup {t \in Threads : pc[t] \in {"idle", "clear"} /\ got[t] = b}

\* Every allocated block has exactly one owner and a freed one has none,
\* however destroy, release and move race: the block neither leaks nor is it
\* freed by two of them.
OneOwner == \A b \in Blocks : Cardinality(Owners(b)) = live[b]
-----------------------------------------------------------------------------
\* The thread that won the exchange of is_owned, until it is done.
Winner(t) == pc[t] \in {"delete", "null", "clear"}

\* An allocated block has an owner and one only, a freed one has none.
Settled ==
    \A b \in Blocks : /\ live[b] = 1 <=> Owners(b) # {}
                      /\ \A o1, o2 \in Owners(b) : o1 = o2

\* While the ownership is handed over: is_owned rules out a winner, there is one
\* winner at most, and who copied ptr before an exchange it may still win copied
\* what is there.
Handover ==
    /\ \A b \in fresh : live[b] = 0
    /\ is_owned => ptr \in Blocks /\ \A t \in Threads : ~Winner(t)
    /\ \A t, u \in Threads : Winner(t) /\ Winner(u) => t = u
    /\ \A t \in Threads : pc[t] = "delete" => ptr \in Blocks
    /\ \A t \in Threads : pc[t] = "exchange" /\ is_owned => got[t] = ptr
    /\ \A t \in Threads : pc[t] \in {"delete", "null"} => got[t] = NULL

PtrInv == TypeOK /\ Settled /\ Handover
=============================================================================

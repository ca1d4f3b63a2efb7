------------------------------ MODULE MemAlloc ------------------------------
(***************************************************************************)
(* memory/memory_management/mem_alloc.c: an allocator over one static pool *)
(* with a list of blocks in address order, splitting, coalescing on free,  *)
(* and three placement strategies.  Sizes are bytes; heap maps the address *)
(* of each header on the list to its fields.                               *)
(***************************************************************************)
EXTENDS Integers, FiniteSetsExt

CONSTANTS MemorySize,   \* MEMORY_SIZE
          Header,       \* sizeof(Block)
          MinAlloc,     \* MIN_ALLOCATION
          Requests      \* the sizes callers ask for

VARIABLES heap,   \* address of a block on the list |-> [size, is_free, next]
          live    \* address of a block the caller holds |-> size asked for

vars == <<heap, live>>

NULL == -1
Strategies == {"FIRST_FIT", "BEST_FIT", "WORST_FIT"}

init_memory ==
    heap = [a \in {0} |-> [size |-> MemorySize - Header, is_free |-> TRUE, next |-> NULL]]

Init == init_memory /\ live = [a \in {} |-> 0]

Without(f, S) == [a \in DOMAIN f \ S |-> f[a]]
With(f, a, v) == [b \in DOMAIN f \cup {a} |-> IF b = a THEN v ELSE f[b]]

RoundUp(n) == ((n + MinAlloc - 1) \div MinAlloc) * MinAlloc
-----------------------------------------------------------------------------
Fitting(n) == {a \in DOMAIN heap : heap[a].is_free /\ heap[a].size >= n}

\* The list is walked in address order and ties keep the first block found.
\* Worst fit looks for more than max_size = 0, so it never takes an empty block.
Chosen(n, strategy) ==
    LET best == CASE strategy = "FIRST_FIT" -> Fitting(n)
                  [] strategy = "BEST_FIT" ->
                       {a \in Fitting(n) : \A b \in Fitting(n) : heap[a].size <= heap[b].size}
                  [] strategy = "WORST_FIT" ->
                       {a \in Fitting(n) : /\ heap[a].size > 0
                                           /\ \A b \in Fitting(n) : heap[a].size >= heap[b].size}
    IN IF best = {} THEN {} ELSE {Min(best)}

\* Mutant: the remainder is put right behind the data, without its header.
split_block_NoHeader(a, n) ==
    LET b == heap[a]
        new == a + Header + n
    IN IF b.size > n + Header + MinAlloc
       THEN With([heap EXCEPT ![a] = [size |-> n, is_free |-> FALSE, next |-> new]],
                 new, [size |-> b.size - n, is_free |-> TRUE, next |-> b.next])
       ELSE [heap EXCEPT ![a].is_free = FALSE]

split_block(a, n) ==
    LET b == heap[a]
        new == a + Header + n
    IN IF b.size > n + Header + MinAlloc
       THEN With([heap EXCEPT ![a] = [size |-> n, is_free |-> FALSE, next |-> new]],
                 new, [size |-> b.size - n - Header, is_free |-> TRUE, next |-> b.next])
       ELSE [heap EXCEPT ![a].is_free = FALSE]

allocate_memory(n, strategy) ==
    \/ \E a \in Chosen(RoundUp(n), strategy) :
          /\ heap' = split_block(a, RoundUp(n))
          /\ live' = With(live, a, n)
    \/ Chosen(RoundUp(n), strategy) = {} /\ UNCHANGED vars
-----------------------------------------------------------------------------
\* A free block with the block behind it as one.
Joined(h, a, c) == Without([h EXCEPT ![a] = [size |-> h[a].size + Header + h[c].size,
                                             is_free |-> TRUE, next |-> h[c].next]], {c})

\* The block is marked free and swallows the block after it if that is free.
MergeNext(h, a) ==
    IF h[a].next # NULL /\ h[h[a].next].is_free THEN Joined(h, a, h[a].next)
    ELSE [h EXCEPT ![a].is_free = TRUE]

\* The block before it, if that is free, swallows the result.
MergePrev(h, a) ==
    LET before == {p \in DOMAIN h : h[p].next = a /\ h[p].is_free}
    IN IF before = {} THEN h ELSE Joined(h, CHOOSE p \in before : TRUE, a)

\* A caller frees what it holds, once.
free_memory(a) ==
    /\ heap' = MergePrev(MergeNext(heap, a), a)
    /\ live' = Without(live, {a})

Next == \/ \E n \in Requests, s \in Strategies : allocate_memory(n, s)
        \/ \E a \in DOMAIN live : free_memory(a)

Spec == Init /\ [][Next]_vars
-----------------------------------------------------------------------------
TypeOK == /\ DOMAIN heap \subseteq 0 .. MemorySize - 1
          /\ \A a \in DOMAIN heap :
               heap[a] \in [size : 0 .. MemorySize, is_free : BOOLEAN,
                            next : DOMAIN heap \cup {NULL}]
          /\ live \in [DOMAIN live -> Requests]

\* The blocks tile the pool: each starts where the one before it ends and the
\* last one ends with the pool, so no byte is lost and no two blocks overlap.
Tiling ==
    /\ 0 \in DOMAIN heap
    /\ \A a \in DOMAIN heap :
         LET end == a + Header + heap[a].size
         IN heap[a].next = (IF end = MemorySize THEN NULL ELSE end)

\* Free space is never split over two neighbours after a free.
Coalesced ==
    \A a \in DOMAIN heap :
        heap[a].is_free /\ heap[a].next # NULL => ~heap[heap[a].next].is_free

\* Exactly the blocks callers hold are in use, and each has the room that was
\* asked for: a free or a later allocation never takes it away.
HeldIsReserved ==
    /\ DOMAIN live = {a \in DOMAIN heap : ~heap[a].is_free}
    /\ \A a \in DOMAIN live : heap[a].size >= live[a]

\* Only the block an allocation chose or a free returned changes for callers:
\* a block they hold keeps its place and its size.
HeldStep == \A a \in DOMAIN live \cap DOMAIN live' : heap'[a].size = heap[a].size
HeldStays == [][HeldStep]_vars
-----------------------------------------------------------------------------
\* The inductive invariant.  What a free gives back is right because no two
\* blocks have a byte in common, so that one block at most ends at another.

AllocConstants == /\ MemorySize \in Nat /\ Header \in Nat \ {0} /\ MinAlloc \in Nat \ {0}
                  /\ Header <= MemorySize /\ Requests \subseteq Nat

End(h, a) == a + Header + h[a].size
Block == [size : Nat, is_free : BOOLEAN, next : Nat \cup {NULL}]

Blocks(h) == /\ 0 \in DOMAIN h /\ DOMAIN h \subseteq Nat
             /\ \A a \in DOMAIN h : h[a] \in Block /\ End(h, a) <= MemorySize
Apart(h) == \A a, b \in DOMAIN h : a < b => End(h, a) <= b
Linked(h) == \A a \in DOMAIN h :
                IF End(h, a) = MemorySize THEN h[a].next = NULL
                ELSE h[a].next = End(h, a) /\ h[a].next \in DOMAIN h

WellTiled(h) == Blocks(h) /\ Apart(h) /\ Linked(h)

AllocInv == /\ WellTiled(heap) /\ Coalesced /\ HeldIsReserved
            /\ live \in [DOMAIN live -> Requests]

\* What a heap has once block a of it is free: only a free block before a may
\* still have a free one behind it.
Freed(h, a) == /\ WellTiled(h) /\ a \in DOMAIN h /\ h[a].is_free
               /\ \A x \in DOMAIN h : h[x].is_free /\ h[x].next # NULL /\ h[x].next # a => ~ h[h[x].next].is_free
               /\ {x \in DOMAIN h : ~ h[x].is_free} = {x \in DOMAIN heap : ~ heap[x].is_free} \ {a}
               /\ \A x \in DOMAIN h : ~ h[x].is_free => h[x].size = heap[x].size
=============================================================================

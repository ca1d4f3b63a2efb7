-------------------------- MODULE MemoryController --------------------------
(***************************************************************************)
(* accessPatterns/memoryController.c: main memory behind a set associative *)
(* write-back cache with LRU or random replacement.  Addresses are those   *)
(* of whole cache lines.  malloc leaves dirty and last_used of a new line  *)
(* unset, so each is any value until the code assigns it.                  *)
(***************************************************************************)
EXTENDS Integers, FiniteSetsExt

CONSTANTS NumSets,     \* NUM_CACHE_LINES
          Ways,        \* MAX_CACHE_SETS
          MemoryLines, \* MEMORY_SIZE / CACHE_LINE_SIZE
          Data,
          MaxTime      \* bound on clock()

VARIABLES main_memory, cache, replacement_policy,
          clock,
          outside    \* main_memory was written past its end

vars == <<main_memory, cache, replacement_policy, clock, outside>>

Lines == 0 .. MemoryLines - 1
Sets == 0 .. NumSets - 1
Way == 0 .. Ways - 1
CacheLine == [tag : Lines, data : Data, dirty : BOOLEAN, last_used : 0 .. MaxTime]
NULL == [tag |-> -1, data |-> 0, dirty |-> FALSE, last_used |-> 0]

MemoryController_new ==
    /\ main_memory = [a \in Lines |-> 0]
    /\ cache = [s \in Sets |-> [w \in Way |-> NULL]]
    /\ replacement_policy = "LRU" /\ clock = 0 /\ outside = FALSE

SetOf(a) == a % NumSets

\* Mutant: the loop over the ways stops one short.
Hits_Short(a) == {w \in 0 .. Ways - 2 : cache[SetOf(a)][w].tag = a}

Hits(a) == {w \in Way : cache[SetOf(a)][w].tag = a}
Empty(s) == {w \in Way : cache[s][w] = NULL}

\* The first way with the smallest last_used, or any.
Victims(s) ==
    IF replacement_policy = "Random" THEN Way
    ELSE LET oldest == {w \in Way : \A v \in Way : cache[s][w].last_used <= cache[s][v].last_used}
         IN {Min(oldest)}

Hit(a, mode, d) ==
    /\ Hits(a) # {}
    /\ cache' = [cache EXCEPT ![SetOf(a)][Min(Hits(a))] =
                   IF mode = "Read" THEN [@ EXCEPT !.last_used = clock]
                   ELSE [@ EXCEPT !.last_used = clock, !.data = d, !.dirty = TRUE]]
    /\ UNCHANGED <<main_memory, outside>>

\* The line number the code computes; tag is already address / CACHE_LINE_SIZE.
WriteBackTo(line, s) == line.tag * NumSets + s

\* The victim's dirty line goes to main memory, or past its end.
Evict(line, s) ==
    LET to == WriteBackTo(line, s)
    IN /\ main_memory' = IF line.dirty /\ to \in Lines THEN [main_memory EXCEPT ![to] = line.data]
                         ELSE main_memory
       /\ outside' = (line.dirty /\ to \notin Lines)

\* The new line is filled from memory before the victim is written back.
Miss(a, mode, d) ==
    LET s == SetOf(a)
    IN /\ Hits(a) = {}
       /\ \E w \in IF Empty(s) # {} THEN {Min(Empty(s))} ELSE Victims(s),
            dirty \in IF mode = "Read" THEN BOOLEAN ELSE {TRUE},
            last_used \in {0, MaxTime} :
             /\ cache' = [cache EXCEPT ![s][w] =
                  [tag |-> a, data |-> IF mode = "Read" THEN main_memory[a] ELSE d,
                   dirty |-> dirty, last_used |-> last_used]]
             /\ IF cache[s][w] = NULL THEN UNCHANGED <<main_memory, outside>>
                ELSE Evict(cache[s][w], s)

MemoryController_access(a, mode, d) ==
    /\ clock < MaxTime /\ clock' \in {clock, clock + 1}
    /\ Hit(a, mode, d) \/ Miss(a, mode, d)
    /\ UNCHANGED replacement_policy

MemoryController_setReplacementPolicy(policy) ==
    /\ replacement_policy' = policy
    /\ UNCHANGED <<main_memory, cache, clock, outside>>

Init == MemoryController_new

\* A write past the end of the heap block is where the program's behaviour
\* stops being defined.
Next == /\ ~outside
        /\ \/ \E a \in Lines, mode \in {"Read", "Write"}, d \in Data : MemoryController_access(a, mode, d)
           \/ \E policy \in {"LRU", "Random"} : MemoryController_setReplacementPolicy(policy)

Spec == Init /\ [][Next]_vars
-----------------------------------------------------------------------------
\* Types.
TypeOK ==
    /\ main_memory \in [Lines -> Data]
    /\ cache \in [Sets -> [Way -> CacheLine \cup {NULL}]]
    /\ replacement_policy \in {"LRU", "Random"} /\ clock \in 0 .. MaxTime

\* A line is in one way of the cache at most, and in the set where a lookup
\* looks for it, so two copies never disagree.
OneCopy ==
    /\ \A s \in Sets, w \in Way : cache[s][w] # NULL => SetOf(cache[s][w].tag) = s
    /\ \A s \in Sets : \A w, v \in Way :
          cache[s][w] # NULL /\ cache[s][w].tag = cache[s][v].tag => w = v

ControllerConstants == /\ NumSets \in Nat \ {0} /\ Ways \in Nat \ {0} /\ MemoryLines \in Nat
                       /\ 0 \in Data /\ MaxTime \in Nat

ControllerInv == TypeOK /\ OneCopy
=============================================================================

--------------------------- MODULE TwoLevelCache ---------------------------
(***************************************************************************)
(* memory/cache/Two-Level-Cache-System.c: two direct-mapped caches before  *)
(* a memory that is only read.  The data of a block is modelled by the     *)
(* number of the block it was copied from.                                 *)
(***************************************************************************)
EXTENDS Integers

CONSTANTS L1Size, L2Size,   \* L1_CACHE_SIZE, L2_CACHE_SIZE
          BlockSize, MemorySize,
          Addresses,        \* the addresses that are accessed
          MaxAccesses

VARIABLES l1_cache, l2_cache, l1_hits, l1_misses, l2_hits, l2_misses,
          last    \* the last access: its address, the data it got and from where

vars == <<l1_cache, l2_cache, l1_hits, l1_misses, l2_hits, l2_misses, last>>

Invalid == [tag |-> 0, data |-> 0, valid |-> FALSE]

Init == /\ l1_cache = [k \in 0 .. L1Size - 1 |-> Invalid]
        /\ l2_cache = [k \in 0 .. L2Size - 1 |-> Invalid]
        /\ l1_hits = 0 /\ l1_misses = 0 /\ l2_hits = 0 /\ l2_misses = 0
        /\ last = [address |-> -1]

Block(address) == address \div BlockSize

calculate_tag(address, size) == Block(address) \div size
calculate_index(address, size) == Block(address) % size

check_cache(cache, size, address) ==
    LET line == cache[calculate_index(address, size)]
    IN line.valid /\ line.tag = calculate_tag(address, size)

Data(cache, size, address) == cache[calculate_index(address, size)].data

update_cache(cache, size, address, data) ==
    [cache EXCEPT ![calculate_index(address, size)] =
       [tag |-> calculate_tag(address, size), data |-> data, valid |-> TRUE]]

FillL1(address, data) == l1_cache' = update_cache(l1_cache, L1Size, address, data)

L1Hit(address) ==
    /\ check_cache(l1_cache, L1Size, address)
    /\ l1_hits' = l1_hits + 1
    /\ last' = [address |-> address, data |-> Data(l1_cache, L1Size, address)]
    /\ UNCHANGED <<l1_cache, l2_cache, l1_misses, l2_hits, l2_misses>>

L2Hit(address) ==
    /\ ~check_cache(l1_cache, L1Size, address) /\ check_cache(l2_cache, L2Size, address)
    /\ l2_hits' = l2_hits + 1
    /\ LET data == Data(l2_cache, L2Size, address)
       IN FillL1(address, data) /\ last' = [address |-> address, data |-> data]
    /\ UNCHANGED <<l2_cache, l1_hits, l1_misses, l2_misses>>

\* The bounds are checked after the miss is counted.
MemoryAccess(address) ==
    /\ ~check_cache(l1_cache, L1Size, address) /\ ~check_cache(l2_cache, L2Size, address)
    /\ l2_misses' = l2_misses + 1
    /\ \/ /\ Block(address) * BlockSize + BlockSize <= MemorySize
          /\ l2_cache' = update_cache(l2_cache, L2Size, address, Block(address))
          /\ FillL1(address, Block(address))
          /\ last' = [address |-> address, data |-> Block(address)]
       \/ /\ Block(address) * BlockSize + BlockSize > MemorySize
          /\ UNCHANGED <<l1_cache, l2_cache, last>>
    /\ UNCHANGED <<l1_hits, l1_misses, l2_hits>>

memory_access(address) == L1Hit(address) \/ L2Hit(address) \/ MemoryAccess(address)

Next == /\ l1_hits + l2_hits + l2_misses < MaxAccesses
        /\ \E address \in Addresses : memory_access(address)

Spec == Init /\ [][Next]_vars
-----------------------------------------------------------------------------
\* Every access, from wherever it was served, got the block of its address.
GetsItsBlock == last.address # -1 => last.data = Block(last.address)

\* The block that was accessed last is in L1: the next access to it hits.
LastIsInL1 == last.address # -1 => check_cache(l1_cache, L1Size, last.address)

CacheConstants == /\ L1Size \in Nat \ {0} /\ L2Size \in Nat \ {0}
                  /\ BlockSize \in Nat \ {0} /\ Addresses \subseteq Nat

Line == [tag : Nat, data : Nat, valid : BOOLEAN]

\* A valid line holds the data of the one block whose tag and place it has.
LinesAreRight(cache, size) ==
    /\ cache \in [0 .. size - 1 -> Line]
    /\ \A k \in 0 .. size - 1, b \in Nat :
          cache[k].valid /\ cache[k].tag = b \div size /\ k = b % size => cache[k].data = b

\* The last access got its block and left it in L1.
LastIsRight ==
    \/ last = [address |-> -1]
    \/ \E address \in Addresses :
          /\ last = [address |-> address, data |-> Block(address)]
          /\ check_cache(l1_cache, L1Size, address)

CacheInv == /\ LinesAreRight(l1_cache, L1Size) /\ LinesAreRight(l2_cache, L2Size)
            /\ LastIsRight
=============================================================================

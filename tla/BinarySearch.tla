---------------------------- MODULE BinarySearch ----------------------------
(***************************************************************************)
(* performance/binary-search: the search of a sorted array, in C           *)
(* (binary_search_c) and in assembly (binary_search_asm).  Both add left   *)
(* and right before they halve the sum.  The C code adds ints, so a sum    *)
(* above IntMax is undefined; the assembly shifts the 32-bit sum as an     *)
(* unsigned number, for which the sum of two ints is never too large.      *)
(***************************************************************************)
EXTENDS Integers

CONSTANTS Values,    \* of the elements and of target
          MaxSize,   \* bound: the largest array
          IntMax     \* the largest int

VARIABLES code,                        \* the implementation that is called
          arr, size, target,           \* its arguments
          left, right, pc, result,
          scale                        \* history: 2 to the power of the turns of the loop

vars == <<code, arr, size, target, left, right, pc, result, scale>>
args == <<code, arr, size, target>>

Sorted(a, n) == \A i, j \in 0 .. n - 1 : i <= j => a[i] <= a[j]

\* A call with a sorted array (generate_test_data fills it in order).
Init == /\ code \in {"c", "asm"}
        /\ size \in {n \in 0 .. MaxSize : n <= IntMax}
        /\ arr \in [0 .. size - 1 -> Values] /\ Sorted(arr, size)
        /\ target \in Values
        /\ left = 0 /\ right = size - 1
        /\ pc = "loop" /\ result = 0 /\ scale = 1

not_found ==
    /\ pc = "loop" /\ left > right
    /\ pc' = "done" /\ result' = -1
    /\ UNCHANGED <<args, left, right, scale>>

\* left + right is too large for an int: what C computes from it is undefined.
overflow ==
    /\ pc = "loop" /\ left <= right /\ code = "c" /\ left + right > IntMax
    /\ pc' = "undefined"
    /\ UNCHANGED <<args, left, right, result, scale>>

\* Mutant: the right end is put on mid itself.
probe_Mid ==
    /\ pc = "loop" /\ left <= right /\ (code = "c" => left + right <= IntMax)
    /\ LET mid == (left + right) \div 2
       IN \/ /\ arr[mid] = target
             /\ pc' = "done" /\ result' = mid /\ UNCHANGED <<left, right, scale>>
          \/ /\ arr[mid] < target
             /\ left' = mid + 1 /\ scale' = 2 * scale /\ UNCHANGED <<right, pc, result>>
          \/ /\ arr[mid] > target
             /\ right' = mid /\ scale' = 2 * scale /\ UNCHANGED <<left, pc, result>>
    /\ UNCHANGED args

\* One turn of the loop.  In the assembly one of the two conditional moves
\* takes effect.
probe ==
    /\ pc = "loop" /\ left <= right /\ (code = "c" => left + right <= IntMax)
    /\ LET mid == (left + right) \div 2
       IN \/ /\ arr[mid] = target
             /\ pc' = "done" /\ result' = mid /\ UNCHANGED <<left, right, scale>>
          \/ /\ arr[mid] < target
             /\ left' = mid + 1 /\ scale' = 2 * scale /\ UNCHANGED <<right, pc, result>>
          \/ /\ arr[mid] > target
             /\ right' = mid - 1 /\ scale' = 2 * scale /\ UNCHANGED <<left, pc, result>>
    /\ UNCHANGED args

Next == not_found \/ overflow \/ probe

Spec == Init /\ [][Next]_vars
-----------------------------------------------------------------------------
\* The search returns a place where target is, and -1 only if it is nowhere.
Finds ==
    pc = "done" =>
        \/ result \in 0 .. size - 1 /\ arr[result] = target
        \/ result = -1 /\ \A i \in 0 .. size - 1 : arr[i] # target

\* Only the C code meets an overflow, and only for arrays of more than half as
\* many elements as there are ints from 0 on.
OverflowOnlyIfLarge == pc = "undefined" => code = "c" /\ 2 * (size - 1) > IntMax

\* Every turn of the loop halves the part of the array that is left, so a search
\* takes at most one turn for every halving of the size.
Halves == pc = "loop" => (right - left + 1) * scale <= size

\* The search ends.
Ends == <>[](pc # "loop")
-----------------------------------------------------------------------------
\* The types, and where the part that is left can be: left is at most one past
\* right.
Bounds ==
    /\ code \in {"c", "asm"} /\ size \in Nat /\ size <= IntMax
    /\ arr \in [0 .. size - 1 -> Int] /\ Sorted(arr, size) /\ target \in Int
    /\ left \in 0 .. size /\ right \in -1 .. size - 1 /\ left <= right + 1
    /\ pc \in {"loop", "done", "undefined"} /\ scale \in Nat \ {0}

\* While the search goes on, target is between left and right or nowhere.
Bracketed ==
    pc = "loop" => \A i \in 0 .. size - 1 : arr[i] = target => left <= i /\ i <= right

SearchInv == Bounds /\ Bracketed /\ Finds /\ OverflowOnlyIfLarge /\ Halves

SearchConstants == Values \subseteq Int /\ IntMax \in Nat /\ MaxSize \in Nat
=============================================================================

---------------------------- MODULE BoundedFifo ----------------------------
(***************************************************************************)
(* What a bounded first-in first-out queue promises its callers: contents  *)
(* is the sequence of elements not yet taken, and every call reports its   *)
(* outcome in ret.  utils/circularQueue.c (module CircularQueue) is shown  *)
(* to implement this specification.                                        *)
(***************************************************************************)
EXTENDS Integers, Sequences

CONSTANTS Values,   \* the elements callers may put
          Sizes     \* the capacities callers may ask for

VARIABLES live,      \* the queue exists
          capacity,
          contents,
          ret        \* [code, val]: outcome of the last call

vars == <<live, capacity, contents, ret>>

Outcome(c, v) == ret' = [code |-> c, val |-> v]

Same == UNCHANGED <<live, capacity, contents>>

Init == /\ live = FALSE
        /\ capacity = 0
        /\ contents = <<>>
        /\ ret = [code |-> "SUCCESS", val |-> <<>>]

\* A call may be refused, but only for a reason the caller can check.
Refuse == /\ Same
          /\ \/ Outcome("INVALID", <<>>)
             \/ Outcome("MEMORY", <<>>)
             \/ live /\ Len(contents) = capacity /\ Outcome("FULL", <<>>)
             \/ Len(contents) = 0 /\ Outcome("EMPTY", <<>>)

Create(c) == /\ ~live /\ c > 0
             /\ live' = TRUE /\ capacity' = c /\ contents' = <<>>
             /\ Outcome("SUCCESS", <<>>)

Put(v) == /\ live /\ Len(contents) < capacity
          /\ contents' = Append(contents, v)
          /\ Outcome("SUCCESS", <<>>)
          /\ UNCHANGED <<live, capacity>>

Take == /\ live /\ Len(contents) > 0
        /\ contents' = Tail(contents)
        /\ Outcome("SUCCESS", <<Head(contents)>>)
        /\ UNCHANGED <<live, capacity>>

\* Looking at the queue shows the front element or all of them, in order.
Look == /\ Same
        /\ \/ live /\ Len(contents) > 0 /\ Outcome("SUCCESS", <<Head(contents)>>)
           \/ live /\ Outcome("SUCCESS", contents)

Empty == /\ live
         /\ contents' = <<>>
         /\ Outcome("SUCCESS", <<>>)
         /\ UNCHANGED <<live, capacity>>

\* A change of capacity keeps every element and their order.
Resize(c) == /\ live /\ c > 0 /\ c >= Len(contents)
             /\ capacity' = c
             /\ Outcome("SUCCESS", <<>>)
             /\ UNCHANGED <<live, contents>>

Close == /\ live
         /\ live' = FALSE /\ capacity' = 0 /\ contents' = <<>>
         /\ Outcome("SUCCESS", <<>>)

Next == \/ Refuse \/ Take \/ Look \/ Empty \/ Close
        \/ \E c \in Sizes : Create(c) \/ Resize(c)
        \/ \E v \in Values : Put(v)

Spec == Init /\ [][Next]_vars
=============================================================================

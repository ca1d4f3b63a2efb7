---------------------------- MODULE WriteBuffer -----------------------------
(***************************************************************************)
(* os/filesystem/customBuffer.c: a buffer in front of write(2).  A call    *)
(* copies its bytes into the buffer and flushes it whenever it is full.    *)
(* write may fail, and may take fewer bytes than it was given; the code    *)
(* looks for failure only.  Bytes are numbered in the order in which the   *)
(* callers pass them.                                                      *)
(***************************************************************************)
EXTENDS Integers, Sequences

CONSTANTS Size,       \* BUFFER_SIZE
          Lengths,    \* of the messages
          MaxBytes    \* bound: the bytes that are passed

VARIABLES pending,    \* buffer[0 .. position - 1]
          file,       \* external: what has been written
          data,       \* the rest of the message; its length is len
          pc,         \* "idle", "write", or "closed" after destroy_buffer
          passed, accepted, lost   \* history: bytes passed, copied to the buffer,
                                   \* and thrown away after a short write

vars == <<pending, file, data, pc, passed, accepted, lost>>

Smaller(a, b) == IF a < b THEN a ELSE b
Numbers(from, n) == [i \in 1 .. n |-> from + i]

\* create_buffer; if it fails nothing else happens.
Init == /\ pending = <<>> /\ file = <<>> /\ data = <<>> /\ pc = "idle"
        /\ passed = 0 /\ accepted = <<>> /\ lost = {}

\* write(fd, buf): it takes the first k bytes, and flush_buffer then sets
\* position to 0.
Written(buf, k) ==
    /\ file' = file \o SubSeq(buf, 1, k)
    /\ lost' = lost \cup {buf[i] : i \in k + 1 .. Len(buf)}
    /\ pending' = <<>>

\* Mutant: position goes back to 0 even if write fails.
flush_fails_Reset(buf) == pending' = <<>> /\ UNCHANGED <<file, lost>>

\* write returns -1: the buffer keeps its bytes.
flush_fails(buf) == pending' = buf /\ UNCHANGED <<file, lost>>

\* write_to_buffer is called with the next n bytes.
call(n) ==
    /\ pc = "idle" /\ passed + n <= MaxBytes
    /\ data' = Numbers(passed, n) /\ passed' = passed + n /\ pc' = "write"
    /\ UNCHANGED <<pending, file, accepted, lost>>

\* One turn of its loop.  A failed flush ends the call with -1, and the rest of
\* the message is not taken.
copy ==
    /\ pc = "write" /\ data # <<>>
    /\ LET n == Smaller(Len(data), Size - Len(pending))
           buf == pending \o SubSeq(data, 1, n)
       IN /\ accepted' = accepted \o SubSeq(data, 1, n)
          /\ \/ /\ Len(buf) # Size
                /\ pending' = buf /\ data' = SubSeq(data, n + 1, Len(data))
                /\ UNCHANGED <<file, pc, lost>>
             \/ /\ Len(buf) = Size
                /\ \E k \in 0 .. Len(buf) : Written(buf, k)
                /\ data' = SubSeq(data, n + 1, Len(data)) /\ UNCHANGED pc
             \/ /\ Len(buf) = Size
                /\ flush_fails(buf)
                /\ data' = <<>> /\ pc' = "idle"
    /\ UNCHANGED passed

return ==
    /\ pc = "write" /\ data = <<>> /\ pc' = "idle"
    /\ UNCHANGED <<pending, file, data, passed, accepted, lost>>

\* flush_buffer, called from outside; with nothing pending, or when write fails,
\* all stays as it is.
flush_buffer ==
    /\ pc = "idle" /\ pending # <<>>
    /\ \E k \in 0 .. Len(pending) : Written(pending, k)
    /\ UNCHANGED <<data, pc, passed, accepted>>

\* destroy_buffer does not flush: what is pending is gone with the buffer.
destroy_buffer ==
    /\ pc = "idle" /\ pc' = "closed"
    /\ UNCHANGED <<pending, file, data, passed, accepted, lost>>

Next == (\E n \in Lengths : call(n)) \/ copy \/ return \/ flush_buffer \/ destroy_buffer

Spec == Init /\ [][Next]_vars
-----------------------------------------------------------------------------
TypeOK ==
    /\ pending \in Seq(Nat) /\ Len(pending) <= Size /\ file \in Seq(Nat)
    /\ data \in Seq(Nat) /\ pc \in {"idle", "write", "closed"} /\ passed \in Nat
    /\ accepted \in Seq(Nat)

Increasing(s) == \A a, b \in 1 .. Len(s) : a < b => s[a] < s[b]
Elements(s) == {s[a] : a \in 1 .. Len(s)}

\* The bytes that were copied to the buffer are in the file or pending, in their
\* order and once each, but for those that a short write left behind: a failed
\* flush loses and repeats nothing, however often it fails.
OnlyShortWritesLose ==
    /\ Increasing(accepted) /\ Increasing(file \o pending)
    /\ Elements(file \o pending) = Elements(accepted) \ lost

\* If write is never short, file and buffer together are what was accepted.
InOrder == lost = {} => file \o pending = accepted

\* A call on a buffer that is still full after a failed flush has no room to copy
\* to, yet it returns.
CallReturns == []<>(pc # "write")
-----------------------------------------------------------------------------
BufferConstants == Size \in Nat \ {0} /\ Lengths \subseteq Nat

\* The rest of the message is the last of the bytes that were passed; what was
\* accepted or lost came before it.
Seen == passed - Len(data)
RestIsNew == /\ Seen \in Nat /\ \A a \in 1 .. Len(data) : data[a] = Seen + a
             /\ \A a \in 1 .. Len(accepted) : accepted[a] <= Seen
             /\ lost \subseteq 0 .. Seen

BufferInv == TypeOK /\ InOrder /\ OnlyShortWritesLose /\ RestIsNew
=============================================================================

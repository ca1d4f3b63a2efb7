-------------------------------- MODULE Mlfq --------------------------------
(***************************************************************************)
(* os/process/scheduler/multi_level_queuing.c: a multi-level feedback      *)
(* queue.  Every time slice goes to the head of the first queue that is    *)
(* not empty.                                                              *)
(***************************************************************************)
EXTENDS Integers, Sequences, FiniteSets, FiniteSetTheorems, WellFoundedInduction, TLAPS

CONSTANTS N,          \* the number of processes main adds
          MaxQueues,  \* MAX_QUEUES
          Bursts      \* the burst times they may have

VARIABLES queues,                                     \* of process ids, by level
          burst_time, remaining_time, queue_level, quantum_used   \* of each process

vars == <<queues, burst_time, remaining_time, queue_level, quantum_used>>

Procs == 1 .. N
Levels == 0 .. MaxQueues - 1

quantum(level) == 2 ^ level

\* init_mlfq, then add_process for every process.
init_mlfq == queues = [l \in Levels |-> IF l = 0 THEN [k \in Procs |-> k] ELSE <<>>]

add_process == /\ burst_time \in [Procs -> Bursts]
               /\ remaining_time = burst_time
               /\ queue_level = [p \in Procs |-> 0] /\ quantum_used = [p \in Procs |-> 0]

Init == init_mlfq /\ add_process

Busy == {l \in Levels : queues[l] # <<>>}

\* Mutant: quantum_used goes along to the next queue.
Demote_NoReset(p, l) ==
    /\ queue_level' = [queue_level EXCEPT ![p] = @ + 1]
    /\ quantum_used' = [quantum_used EXCEPT ![p] = @ + 1]
    /\ queues' = [queues EXCEPT ![l] = Tail(@), ![l + 1] = Append(@, p)]

Demote(p, l) ==
    /\ queue_level' = [queue_level EXCEPT ![p] = @ + 1]
    /\ quantum_used' = [quantum_used EXCEPT ![p] = 0]
    /\ queues' = [queues EXCEPT ![l] = Tail(@), ![l + 1] = Append(@, p)]

\* It is finished and taken out of its queue.
Finish(p, l) ==
    /\ quantum_used' = [quantum_used EXCEPT ![p] = @ + 1]
    /\ queues' = [queues EXCEPT ![l] = Tail(@)]
    /\ UNCHANGED queue_level

Keep(p) == /\ quantum_used' = [quantum_used EXCEPT ![p] = @ + 1]
           /\ UNCHANGED <<queues, queue_level>>

Expired(p, l) == quantum_used[p] + 1 >= quantum(l) /\ l < MaxQueues - 1

FirstBusy == CHOOSE l \in Busy : \A m \in Busy : l <= m

\* At the lowest level a process keeps the processor: it stays at the head.
execute_time_slice ==
    /\ Busy # {}
    /\ LET l == FirstBusy
           p == Head(queues[l])
           left == remaining_time[p] - 1
       IN /\ remaining_time' = [remaining_time EXCEPT ![p] = left]
          /\ \/ left = 0 /\ Finish(p, l)
             \/ left # 0 /\ Expired(p, l) /\ Demote(p, l)
             \/ left # 0 /\ ~Expired(p, l) /\ Keep(p)
    /\ UNCHANGED burst_time

\* run_mlfq goes on while a queue is not empty.
run_mlfq == execute_time_slice \/ (Busy = {} /\ UNCHANGED vars)

Next == run_mlfq
Spec == Init /\ [][Next]_vars /\ WF_vars(execute_time_slice)
-----------------------------------------------------------------------------
TypeOK == /\ queues \in [Levels -> Seq(Procs)]
          /\ \A p \in Procs : remaining_time[p] \in 0 .. burst_time[p]
          /\ queue_level \in [Procs -> Levels]
          /\ \A p \in Procs : quantum_used[p] \in 0 .. burst_time[p]

\* A process that is not finished is in one queue, that of its level, once; a
\* finished one, which has been freed, is in none.
InOneQueue ==
    \A p \in Procs, l \in Levels :
        Cardinality({k \in DOMAIN queues[l] : queues[l][k] = p}) =
            IF remaining_time[p] > 0 /\ l = queue_level[p] THEN 1 ELSE 0

\* The level is exactly what the time used so far earns: the quanta of the
\* levels above add up to 2^level - 1, and the rest is in quantum_used.
LevelIsEarned ==
    \A p \in Procs :
        burst_time[p] - remaining_time[p] = quantum(queue_level[p]) - 1 + quantum_used[p]

\* While a process waits, none that was added after it has been served through
\* more levels: time is given out level by level, in the order of arrival.
NoOvertaking ==
    \A p, q \in Procs : p < q /\ remaining_time[p] > 0 /\ remaining_time[q] > 0
                            => queue_level[q] <= queue_level[p]

\* In the last queue one process runs to its end before another starts.
LastQueueInOrder ==
    \A p, q \in Procs : p # q /\ queue_level[p] = MaxQueues - 1 /\ queue_level[q] = MaxQueues - 1
                            /\ remaining_time[p] > 0 /\ remaining_time[q] > 0
                            => quantum_used[p] = 0 \/ quantum_used[q] = 0

\* run_mlfq ends, with every process completed.
AllComplete == <>[](\A p \in Procs : remaining_time[p] = 0)
-----------------------------------------------------------------------------
(***************************************************************************)
(* The queues for every number of processes and of levels.                 *)
(***************************************************************************)

\* What is known of the constants, and the powers of two.
MlfqConstants ==
    /\ N \in Nat /\ MaxQueues \in Nat \ {0} /\ Bursts \subseteq Nat \ {0}
    /\ quantum(0) = 1
    /\ \A l \in Levels : quantum(l) \in Nat \ {0} /\ quantum(l + 1) = 2 * quantum(l)

Waits(p) == remaining_time[p] > 0

Types ==
    /\ queues \in [Levels -> Seq(Procs)]
    /\ burst_time \in [Procs -> Bursts] /\ remaining_time \in [Procs -> Nat]
    /\ queue_level \in [Procs -> Levels] /\ quantum_used \in [Procs -> Nat]

\* In a queue are those that wait at its level, in the order of their numbers.
Sorted ==
    \A l \in Levels : \A k \in DOMAIN queues[l] :
        /\ Waits(queues[l][k]) /\ queue_level[queues[l][k]] = l
        /\ \A j \in DOMAIN queues[l] : j < k => queues[l][j] < queues[l][k]

Present == \A p \in Procs : Waits(p) => \E k \in DOMAIN queues[queue_level[p]] : queues[queue_level[p]][k] = p

\* A process has used less than a quantum of its level, and none before it is the first.
Partial ==
    \A p \in Procs : Waits(p) =>
        /\ queue_level[p] < MaxQueues - 1 => quantum_used[p] < quantum(queue_level[p])
        /\ quantum_used[p] > 0 => queues[queue_level[p]][1] = p

MlfqInv == Types /\ Sorted /\ Present /\ Partial /\ LevelIsEarned /\ NoOvertaking

\* A set of natural numbers that is not empty has a smallest one.
LEMMA SmallestExists ==
    ASSUME NEW S, S \subseteq Nat, S # {}
    PROVE  \E s \in S : \A r \in S : s <= r
<1> DEFINE R == OpToRel(<, Nat)
<1>1. \A x, y \in Nat : y < x => <<y, x>> \in R
    BY DEF OpToRel
<1>2. PICK s \in S : \A r \in S : ~ (<<r, s>> \in R)
  <2>1. IsWellFoundedOn(R, Nat)
    BY Zenon, NatLessThanWellFounded DEF R
  <2> HIDE DEF R
  <2> QED BY Zenon, <2>1, WFMin
<1> HIDE DEF R
<1>3. \A r \in S : s <= r
  <2>1. ASSUME NEW r \in S PROVE ~(r < s)
    BY Zenon, <1>1, <1>2
  <2> QED BY <2>1
<1> QED BY <1>3

\* A queue without its first process.
LEMMA Dequeues ==
    ASSUME NEW S, NEW q \in Seq(S), q # <<>>
    PROVE  /\ Tail(q) \in Seq(S) /\ Len(q) \in Nat \ {0} /\ DOMAIN q = 1 .. Len(q) /\ Head(q) = q[1]
           /\ DOMAIN Tail(q) = 1 .. Len(q) - 1 /\ \A k \in 1 .. Len(q) - 1 : Tail(q)[k] = q[k + 1]
  OBVIOUS

\* A queue with another process at the end.
LEMMA Enqueues ==
    ASSUME NEW S, NEW q \in Seq(S), NEW x \in S
    PROVE  /\ Append(q, x) \in Seq(S) /\ Len(q) \in Nat /\ DOMAIN q = 1 .. Len(q)
           /\ DOMAIN Append(q, x) = 1 .. Len(q) + 1 /\ Append(q, x)[Len(q) + 1] = x
           /\ \A k \in 1 .. Len(q) : Append(q, x)[k] = q[k]
  OBVIOUS

\* At the start all are in the first queue, in order.
LEMMA MlfqStart == MlfqConstants /\ Init => MlfqInv
  <1> SUFFICES ASSUME MlfqConstants, Init PROVE MlfqInv
    OBVIOUS
  <1>1. 0 \in Levels /\ N \in Nat
    BY DEF Levels, MlfqConstants
  <1>2. /\ burst_time \in [Procs -> Bursts] /\ remaining_time = burst_time
        /\ queue_level = [p \in Procs |-> 0] /\ quantum_used = [p \in Procs |-> 0]
    BY DEF Init, add_process
  <1>3. \A p \in Procs : remaining_time[p] \in Nat \ {0}
    BY <1>2 DEF MlfqConstants
  <1>4. /\ [k \in Procs |-> k] \in Seq(Procs) /\ DOMAIN [k \in Procs |-> k] = Procs
    BY <1>1 DEF Procs
  <1>5. /\ queues \in [Levels -> Seq(Procs)] /\ queues[0] = [k \in Procs |-> k]
        /\ \A l \in Levels : l # 0 => queues[l] = <<>>
    BY <1>1, <1>4 DEF Init, init_mlfq
  <1>6. Types
    BY <1>1, <1>2, <1>3, <1>5 DEF Types, MlfqConstants
  <1>7. Sorted
    <2> SUFFICES ASSUME NEW l \in Levels, NEW k \in DOMAIN queues[l]
                 PROVE  /\ Waits(queues[l][k]) /\ queue_level[queues[l][k]] = l
                        /\ \A j \in DOMAIN queues[l] : j < k => queues[l][j] < queues[l][k]
      BY DEF Sorted
    <2>1. l = 0
      BY <1>5
    <2>2. k \in Procs /\ queues[l][k] = k /\ \A j \in DOMAIN queues[l] : queues[l][j] = j
      BY <1>5, <2>1
    <2> QED BY <1>2, <1>3, <2>1, <2>2 DEF Waits
  <1>8. Present
    BY <1>2, <1>5 DEF Present
  <1>9. Partial /\ NoOvertaking
    BY <1>1, <1>2 DEF Partial, NoOvertaking, MlfqConstants
  <1>10. LevelIsEarned
    BY <1>1, <1>2, <1>3 DEF LevelIsEarned, MlfqConstants
  <1> QED BY <1>6, <1>7, <1>8, <1>9, <1>10 DEF MlfqInv

\* The head p of queue l runs for one time unit.
Slice(p, l) ==
    /\ queues[l] # <<>> /\ p = queues[l][1] /\ Waits(p) /\ queue_level[p] = l
    /\ remaining_time' = [remaining_time EXCEPT ![p] = remaining_time[p] - 1]
    /\ burst_time' = burst_time

\* In a time slice the head of a queue runs, and is finished, demoted or kept.
LEMMA SliceIs ==
    ASSUME MlfqConstants, MlfqInv, execute_time_slice
    PROVE  \E l \in Levels, p \in Procs :
             /\ Slice(p, l)
             /\ \/ remaining_time[p] - 1 = 0 /\ Finish(p, l)
                \/ remaining_time[p] - 1 # 0 /\ Expired(p, l) /\ Demote(p, l)
                \/ remaining_time[p] - 1 # 0 /\ ~Expired(p, l) /\ Keep(p)
  <1> DEFINE l == FirstBusy
             p == Head(queues[l])
  <1>1. Busy # {} /\ Busy \subseteq Nat
    BY DEF execute_time_slice, Busy, Levels, MlfqConstants
  <1>2. \E n \in Busy : \A m \in Busy : n <= m
    BY Zenon, <1>1, SmallestExists
  <1>3. l \in Busy
    BY Zenon, <1>2 DEF FirstBusy
  <1> HIDE DEF l
  <1>4. l \in Levels /\ queues[l] # <<>> /\ queues[l] \in Seq(Procs)
    BY <1>3 DEF Busy, MlfqInv, Types
  <1>5. p = queues[l][1] /\ p \in Procs /\ 1 \in DOMAIN queues[l]
    BY <1>4, Dequeues
  <1>6. Waits(p) /\ queue_level[p] = l
    BY <1>4, <1>5 DEF MlfqInv, Sorted
  <1> HIDE DEF p
  <1>7. /\ remaining_time' = [remaining_time EXCEPT ![p] = remaining_time[p] - 1]
        /\ burst_time' = burst_time
        /\ \/ remaining_time[p] - 1 = 0 /\ Finish(p, l)
           \/ remaining_time[p] - 1 # 0 /\ Expired(p, l) /\ Demote(p, l)
           \/ remaining_time[p] - 1 # 0 /\ ~Expired(p, l) /\ Keep(p)
    BY DEF execute_time_slice, p, l
  <1>8. Slice(p, l)
    BY <1>4, <1>5, <1>6, <1>7 DEF Slice
  <1> QED BY Zenon, <1>4, <1>5, <1>7, <1>8

\* Natural numbers are integers.
LEMMA NatInt == \A n \in Nat : n \in Int
  OBVIOUS

\* Times and quanta are numbers.
LEMMA Amounts ==
    ASSUME MlfqConstants, Types
    PROVE  /\ \A p \in Procs : /\ burst_time[p] \in Nat /\ remaining_time[p] \in Nat
                               /\ quantum_used[p] \in Nat /\ queue_level[p] \in Levels
           /\ \A l \in Levels : quantum(l) \in Nat /\ quantum(l) >= 1 /\ l \in Nat
           /\ MaxQueues \in Nat /\ Procs \subseteq Nat
  <1>1. Bursts \subseteq Nat /\ MaxQueues \in Nat /\ Procs \subseteq Nat /\ Levels \subseteq Nat
    BY DEF MlfqConstants, Procs, Levels
  <1>2. \A l \in Levels : quantum(l) \in Nat \ {0}
    BY Zenon DEF MlfqConstants
  <1>3. \A n \in Nat \ {0} : n \in Nat /\ n >= 1
    OBVIOUS
  <1>4. \A l \in Levels : quantum(l) \in Nat /\ quantum(l) >= 1 /\ l \in Nat
    BY Zenon, <1>1, <1>2, <1>3
  <1> QED BY <1>1, <1>4 DEF Types

\* The first of a queue is before all others in it, and in no other place.
LEMMA FirstIsLeast ==
    ASSUME MlfqConstants, MlfqInv, NEW l \in Levels, queues[l] # <<>>, NEW p \in Procs, p = queues[l][1]
    PROVE  /\ \A k \in DOMAIN queues[l] : k # 1 => p < queues[l][k]
           /\ \A r \in Procs : Waits(r) /\ queue_level[r] = l => p <= r
           /\ \A m \in Levels : \A k \in DOMAIN queues[m] : queues[m][k] = p => m = l /\ k = 1
  <1>1. queues[l] \in Seq(Procs) /\ Procs \subseteq Int
    BY DEF MlfqInv, Types, Procs
  <1>2. DOMAIN queues[l] = 1 .. Len(queues[l]) /\ Len(queues[l]) \in Nat /\ 1 \in DOMAIN queues[l]
    BY <1>1, Dequeues
  <1>3. \A k \in DOMAIN queues[l] : k # 1 => p < queues[l][k]
    BY <1>2 DEF MlfqInv, Sorted
  <1>4. \A k \in DOMAIN queues[l] : queues[l][k] \in Procs
    BY <1>1
  <1>5. ASSUME NEW r \in Procs, Waits(r), queue_level[r] = l
        PROVE  p <= r
    <2>1. PICK k \in DOMAIN queues[l] : queues[l][k] = r
      BY <1>5 DEF MlfqInv, Present
    <2> QED BY <1>1, <1>3, <2>1
  <1>6. ASSUME NEW m \in Levels, NEW k \in DOMAIN queues[m], queues[m][k] = p
        PROVE  m = l /\ k = 1
    <2>1. m = l
      BY <1>2, <1>6 DEF MlfqInv, Sorted
    <2> QED BY <1>1, <1>3, <1>6, <2>1
  <1> QED BY <1>3, <1>5, <1>6

\* What the slice charges to the process that runs.
LEMMA Charges ==
    ASSUME MlfqConstants, MlfqInv, NEW l \in Levels, NEW p \in Procs, Slice(p, l)
    PROVE  /\ remaining_time' \in [Procs -> Nat] /\ remaining_time'[p] = remaining_time[p] - 1
           /\ \A r \in Procs : r # p => remaining_time'[r] = remaining_time[r]
           /\ \A r \in Procs : Waits(r)' <=> remaining_time'[r] > 0
           /\ Types /\ Sorted /\ Present /\ Partial /\ LevelIsEarned /\ NoOvertaking
           /\ burst_time' = burst_time /\ p = queues[l][1] /\ queue_level[p] = l /\ Waits(p)
           /\ queues[l] # <<>> /\ queues[l] \in Seq(Procs)
           /\ burst_time[p] - (remaining_time[p] - 1) = quantum(l) - 1 + (quantum_used[p] + 1)
           /\ quantum_used[p] \in Nat
  <1>1. Types /\ Sorted /\ Present /\ Partial /\ LevelIsEarned /\ NoOvertaking
    BY DEF MlfqInv
  <1>2. /\ remaining_time \in [Procs -> Nat] /\ remaining_time[p] > 0 /\ queue_level[p] = l
        /\ queues[l] # <<>> /\ queues[l] \in Seq(Procs) /\ p = queues[l][1] /\ burst_time' = burst_time
        /\ remaining_time' = [remaining_time EXCEPT ![p] = remaining_time[p] - 1]
    BY <1>1 DEF Slice, Types, Waits
  <1>3. /\ remaining_time' \in [Procs -> Nat] /\ remaining_time'[p] = remaining_time[p] - 1
        /\ \A r \in Procs : r # p => remaining_time'[r] = remaining_time[r]
    BY <1>2
  <1>4. PICK b \in Int, x \in Int, u \in Nat, g \in Int :
               b = burst_time[p] /\ x = remaining_time[p] /\ u = quantum_used[p] /\ g = quantum(l)
    BY Zenon, <1>1, Amounts, NatInt
  <1>5. b - x = g - 1 + u
    BY Zenon, <1>1, <1>2, <1>4 DEF LevelIsEarned
  <1>6. b - (x - 1) = g - 1 + (u + 1)
    BY <1>5
  <1>7. burst_time[p] - (remaining_time[p] - 1) = quantum(l) - 1 + (quantum_used[p] + 1)
    BY Zenon, <1>4, <1>6
  <1> QED BY <1>1, <1>2, <1>3, <1>4, <1>7 DEF Waits

\* The process that runs is finished and leaves its queue.
LEMMA FinishKeeps ==
    ASSUME MlfqConstants, MlfqInv, NEW l \in Levels, NEW p \in Procs, Slice(p, l),
           remaining_time[p] - 1 = 0, Finish(p, l)
    PROVE  MlfqInv'
  <1>1. Types /\ Sorted /\ Present /\ Partial /\ LevelIsEarned /\ NoOvertaking
    BY DEF MlfqInv
  <1>2. /\ burst_time' = burst_time /\ queue_level' = queue_level /\ p = queues[l][1]
        /\ queue_level[p] = l /\ queues[l] # <<>> /\ queues[l] \in Seq(Procs)
    BY Charges DEF Finish
  <1>3. /\ Tail(queues[l]) \in Seq(Procs) /\ Len(queues[l]) \in Nat \ {0}
        /\ DOMAIN queues[l] = 1 .. Len(queues[l]) /\ DOMAIN Tail(queues[l]) = 1 .. Len(queues[l]) - 1
        /\ \A k \in 1 .. Len(queues[l]) - 1 : Tail(queues[l])[k] = queues[l][k + 1]
    BY <1>2, Dequeues
  <1>4. /\ queues' \in [Levels -> Seq(Procs)] /\ queues'[l] = Tail(queues[l])
        /\ \A m \in Levels : m # l => queues'[m] = queues[m]
    BY <1>1, <1>3 DEF Types, Finish
  <1>5. /\ remaining_time' \in [Procs -> Nat] /\ remaining_time'[p] = 0
        /\ \A r \in Procs : r # p => remaining_time'[r] = remaining_time[r]
        /\ \A r \in Procs : Waits(r)' <=> remaining_time'[r] > 0
    BY Charges
  <1>6. /\ quantum_used' \in [Procs -> Nat] /\ quantum_used'[p] = quantum_used[p] + 1
        /\ \A r \in Procs : r # p => quantum_used'[r] = quantum_used[r]
    BY <1>1 DEF Types, Finish
  <1>7. Types'
    BY <1>1, <1>2, <1>4, <1>5, <1>6 DEF Types
  <1>8. \A r \in Procs : remaining_time'[r] > 0 <=> r # p /\ Waits(r)
    BY <1>5 DEF Waits
  <1>9. /\ \A k \in DOMAIN queues'[l] : k + 1 \in DOMAIN queues[l] /\ queues'[l][k] = queues[l][k + 1]
        /\ \A j, k \in DOMAIN queues'[l] : j < k => j + 1 < k + 1
        /\ \A k \in DOMAIN queues'[l] : k + 1 # 1
    BY <1>3, <1>4
  <1>10. \A m \in Levels : \A k \in DOMAIN queues'[m] : queues'[m][k] \in Procs
    BY <1>4
  <1>11. Sorted'
    <2> SUFFICES ASSUME NEW m \in Levels, NEW k \in DOMAIN queues'[m]
                 PROVE  /\ remaining_time'[queues'[m][k]] > 0 /\ queue_level'[queues'[m][k]] = m
                        /\ \A j \in DOMAIN queues'[m] : j < k => queues'[m][j] < queues'[m][k]
      BY DEF Sorted, Waits
    <2>1. CASE m = l
      <3>1. k + 1 \in DOMAIN queues[l] /\ k + 1 # 1
        BY <1>9, <2>1
      <3>2. queues[l][k + 1] # p
        BY <1>2, <3>1, FirstIsLeast
      <3>3. /\ Waits(queues[l][k + 1]) /\ queue_level[queues[l][k + 1]] = l
            /\ \A j \in DOMAIN queues'[l] : j < k => queues[l][j + 1] < queues[l][k + 1]
        BY <1>1, <1>9, <2>1 DEF Sorted
      <3> QED BY <1>2, <1>8, <1>9, <1>10, <2>1, <3>2, <3>3
    <2>2. CASE m # l
      <3>1. queues[m][k] # p
        BY <1>2, <1>4, <2>2, FirstIsLeast
      <3> QED BY <1>1, <1>2, <1>4, <1>8, <1>10, <2>2, <3>1 DEF Sorted
    <2> QED BY <2>1, <2>2
  <1>12. \A k \in DOMAIN queues[l] : k # 1 => k - 1 \in DOMAIN queues'[l] /\ queues'[l][k - 1] = queues[l][k]
    BY <1>3, <1>4
  <1>13. Present'
    <2> SUFFICES ASSUME NEW r \in Procs, remaining_time'[r] > 0
                 PROVE  \E k \in DOMAIN queues'[queue_level[r]] : queues'[queue_level[r]][k] = r
      BY <1>2 DEF Present, Waits
    <2>1. r # p /\ queue_level[r] \in Levels
      BY <1>1, <1>8 DEF Types
    <2>2. PICK k \in DOMAIN queues[queue_level[r]] : queues[queue_level[r]][k] = r
      BY <1>1, <1>8 DEF Present
    <2>3. CASE queue_level[r] = l
      <3>1. k # 1
        BY <1>2, <2>1, <2>2, <2>3
      <3> QED BY <1>12, <2>2, <2>3, <3>1
    <2>4. CASE queue_level[r] # l
      BY <1>4, <2>1, <2>2, <2>4
    <2> QED BY <2>3, <2>4
  <1>14. Partial'
    <2> SUFFICES ASSUME NEW r \in Procs, remaining_time'[r] > 0
                 PROVE  /\ queue_level[r] < MaxQueues - 1 => quantum_used'[r] < quantum(queue_level[r])
                        /\ quantum_used'[r] > 0 => queues'[queue_level[r]][1] = r
      BY <1>2 DEF Partial, Waits
    <2>1. r # p /\ Waits(r) /\ quantum_used'[r] = quantum_used[r] /\ queue_level[r] \in Levels
      BY <1>1, <1>6, <1>8 DEF Types
    <2>2. quantum_used[r] > 0 => queue_level[r] # l
      BY <1>1, <1>2, <2>1 DEF Partial
    <2> QED BY <1>1, <1>4, <2>1, <2>2 DEF Partial
  <1>15. LevelIsEarned'
    <2>1. burst_time[p] - remaining_time'[p] = quantum(l) - 1 + quantum_used'[p]
      <3>1. burst_time[p] - (remaining_time[p] - 1) = quantum(l) - 1 + (quantum_used[p] + 1)
        BY Charges
      <3>2. remaining_time'[p] = remaining_time[p] - 1
        BY Charges
      <3> QED BY Zenon, <1>6, <3>1, <3>2
    <2>2. \A r \in Procs : r # p => burst_time[r] - remaining_time'[r] = quantum(queue_level[r]) - 1 + quantum_used'[r]
      BY Zenon, <1>1, <1>5, <1>6 DEF LevelIsEarned
    <2> QED BY Zenon, <1>2, <2>1, <2>2 DEF LevelIsEarned
  <1>16. NoOvertaking'
    BY <1>1, <1>2, <1>8 DEF NoOvertaking, Waits
  <1> QED BY <1>7, <1>11, <1>13, <1>14, <1>15, <1>16 DEF MlfqInv

\* The process that runs goes on.
LEMMA KeptKeeps ==
    ASSUME MlfqConstants, MlfqInv, NEW l \in Levels, NEW p \in Procs, Slice(p, l),
           remaining_time[p] - 1 # 0, ~Expired(p, l), Keep(p)
    PROVE  MlfqInv'
  <1>1. Types /\ Sorted /\ Present /\ Partial /\ LevelIsEarned /\ NoOvertaking
    BY DEF MlfqInv
  <1>2. /\ burst_time' = burst_time /\ queue_level' = queue_level /\ queues' = queues
        /\ p = queues[l][1] /\ queue_level[p] = l /\ Waits(p)
    BY Charges DEF Keep
  <1>3. /\ remaining_time' \in [Procs -> Nat] /\ remaining_time'[p] = remaining_time[p] - 1
        /\ \A r \in Procs : r # p => remaining_time'[r] = remaining_time[r]
        /\ \A r \in Procs : Waits(r)' <=> remaining_time'[r] > 0
    BY Charges
  <1>4. /\ quantum_used' \in [Procs -> Nat] /\ quantum_used'[p] = quantum_used[p] + 1
        /\ \A r \in Procs : r # p => quantum_used'[r] = quantum_used[r]
    BY <1>1 DEF Types, Keep
  <1>5. \A r \in Procs : remaining_time'[r] > 0 <=> Waits(r)
    <2>1. remaining_time[p] \in Nat
      BY <1>1 DEF Types
    <2>2. remaining_time'[p] > 0 /\ remaining_time[p] > 0
      BY <1>2, <1>3, <2>1 DEF Waits
    <2> QED BY <1>3, <2>2 DEF Waits
  <1>6. Types'
    BY <1>1, <1>2, <1>3, <1>4 DEF Types
  <1>7. \A m \in Levels : \A k \in DOMAIN queues[m] : queues[m][k] \in Procs
    BY <1>1 DEF Types
  <1>8. Sorted'
    BY <1>1, <1>2, <1>5, <1>7 DEF Sorted, Waits
  <1>9. Present'
    BY <1>1, <1>2, <1>5 DEF Present, Waits
  <1>10. Partial'
    <2>1. quantum_used[p] \in Nat /\ quantum(l) \in Nat /\ l \in Nat /\ MaxQueues \in Nat
      BY Zenon, <1>1, Amounts
    <2>2. l < MaxQueues - 1 => quantum_used'[p] < quantum(l)
      BY <1>4, <2>1 DEF Expired
    <2> QED BY <1>1, <1>2, <1>4, <1>5, <2>2 DEF Partial, Waits
  <1>11. LevelIsEarned'
    <2>1. burst_time[p] - remaining_time'[p] = quantum(l) - 1 + quantum_used'[p]
      <3>1. burst_time[p] - (remaining_time[p] - 1) = quantum(l) - 1 + (quantum_used[p] + 1)
        BY Charges
      <3>2. remaining_time'[p] = remaining_time[p] - 1
        BY Charges
      <3> QED BY Zenon, <1>4, <3>1, <3>2
    <2>2. \A r \in Procs : r # p => burst_time[r] - remaining_time'[r] = quantum(queue_level[r]) - 1 + quantum_used'[r]
      BY Zenon, <1>1, <1>3, <1>4 DEF LevelIsEarned
    <2> QED BY Zenon, <1>2, <2>1, <2>2 DEF LevelIsEarned
  <1>12. NoOvertaking'
    BY <1>1, <1>2, <1>5 DEF NoOvertaking, Waits
  <1> QED BY <1>6, <1>8, <1>9, <1>10, <1>11, <1>12 DEF MlfqInv

\* The process that runs has used up its quantum: it goes to the end of the next
\* queue, behind the processes with smaller numbers that are already there.
LEMMA DemoteKeeps ==
    ASSUME MlfqConstants, MlfqInv, NEW l \in Levels, NEW p \in Procs, Slice(p, l),
           remaining_time[p] - 1 # 0, Expired(p, l), Demote(p, l)
    PROVE  MlfqInv'
  <1>1. Types /\ Sorted /\ Present /\ Partial /\ LevelIsEarned /\ NoOvertaking
    BY DEF MlfqInv
  <1>2. /\ burst_time' = burst_time /\ p = queues[l][1] /\ Waits(p)
        /\ queue_level[p] = l /\ queues[l] # <<>> /\ queues[l] \in Seq(Procs)
    BY Charges
  <1>3. l \in Nat /\ l < MaxQueues - 1 /\ MaxQueues \in Nat /\ l + 1 \in Levels /\ l + 1 # l
    BY DEF Expired, Levels, MlfqConstants
  <1>4. queues[l + 1] \in Seq(Procs)
    BY <1>1, <1>3 DEF Types
  <1>5. /\ Tail(queues[l]) \in Seq(Procs) /\ Len(queues[l]) \in Nat \ {0}
        /\ DOMAIN queues[l] = 1 .. Len(queues[l]) /\ DOMAIN Tail(queues[l]) = 1 .. Len(queues[l]) - 1
        /\ \A k \in 1 .. Len(queues[l]) - 1 : Tail(queues[l])[k] = queues[l][k + 1]
    BY <1>2, Dequeues
  <1>6. PICK q \in Seq(Procs) : q = queues[l + 1]
    BY <1>4
  <1>7. /\ Append(q, p) \in Seq(Procs) /\ Len(q) \in Nat /\ DOMAIN q = 1 .. Len(q)
        /\ DOMAIN Append(q, p) = 1 .. Len(q) + 1 /\ Append(q, p)[Len(q) + 1] = p
        /\ \A k \in 1 .. Len(q) : Append(q, p)[k] = q[k]
    BY Enqueues
  <1>8. /\ queues' \in [Levels -> Seq(Procs)] /\ queues'[l] = Tail(queues[l])
        /\ queues'[l + 1] = Append(q, p)
        /\ \A m \in Levels : m # l /\ m # l + 1 => queues'[m] = queues[m]
    <2>1. /\ queues \in [Levels -> Seq(Procs)]
          /\ queues' = [queues EXCEPT ![l] = Tail(queues[l]), ![l + 1] = Append(q, p)]
      BY <1>1, <1>3, <1>6 DEF Types, Demote
    <2> QED BY <1>3, <1>5, <1>7, <2>1
  <1>9. /\ remaining_time' \in [Procs -> Nat] /\ remaining_time'[p] = remaining_time[p] - 1
        /\ \A r \in Procs : r # p => remaining_time'[r] = remaining_time[r]
        /\ \A r \in Procs : Waits(r)' <=> remaining_time'[r] > 0
    BY Charges
  <1>10. /\ quantum_used' \in [Procs -> Nat] /\ quantum_used'[p] = 0
         /\ \A r \in Procs : r # p => quantum_used'[r] = quantum_used[r]
    BY <1>1 DEF Types, Demote
  <1>11. /\ queue_level' \in [Procs -> Levels] /\ queue_level'[p] = l + 1
         /\ \A r \in Procs : r # p => queue_level'[r] = queue_level[r]
    BY <1>1, <1>2, <1>3 DEF Types, Demote
  <1>12. \A r \in Procs : remaining_time'[r] > 0 <=> Waits(r)
    <2>1. remaining_time[p] \in Nat
      BY <1>1 DEF Types
    <2>2. remaining_time'[p] > 0 /\ remaining_time[p] > 0
      BY <1>2, <1>9, <2>1 DEF Waits
    <2> QED BY <1>9, <2>2 DEF Waits
  <1>13. Types'
    BY <1>1, <1>2, <1>8, <1>9, <1>10, <1>11 DEF Types
  <1>14. Procs \subseteq Nat /\ Levels \subseteq Nat
    BY DEF Procs, Levels, MlfqConstants
  <1>15. \A r \in Procs : r < p /\ Waits(r) => l + 1 <= queue_level[r]
    <2> SUFFICES ASSUME NEW r \in Procs, r < p, Waits(r)
                 PROVE  l + 1 <= queue_level[r]
      OBVIOUS
    <2>1. l <= queue_level[r]
      BY <1>1, <1>2 DEF NoOvertaking, Waits
    <2>2. queue_level[r] = l => p <= r
      BY <1>2, FirstIsLeast
    <2>3. queue_level[r] \in Nat /\ p \in Nat /\ r \in Nat
      BY Zenon, <1>1, <1>14, Amounts
    <2> QED BY <1>3, <2>1, <2>2, <2>3
  <1>16. \A r \in Procs : p < r /\ Waits(r) => queue_level[r] <= l
    BY <1>1, <1>2 DEF NoOvertaking, Waits
  <1>17. NoOvertaking'
    <2> SUFFICES ASSUME NEW r \in Procs, NEW s \in Procs, r < s, Waits(r), Waits(s)
                 PROVE  queue_level'[s] <= queue_level'[r]
      BY <1>12 DEF NoOvertaking
    <2>1. queue_level[r] \in Levels /\ queue_level[s] \in Levels
      BY <1>1 DEF Types
    <2>2. CASE r = p
      <3>1. queue_level[s] <= l /\ queue_level'[s] = queue_level[s] /\ queue_level[s] \in Nat
        <4>1. p < s /\ s # p
          BY <1>14, <2>2
        <4> QED BY Zenon, <1>1, <1>11, <1>16, <2>2, <4>1, Amounts
      <3> QED BY <1>3, <1>11, <2>2, <3>1
    <2>3. CASE s = p
      BY <1>3, <1>11, <1>14, <1>15, <2>1, <2>3
    <2>4. CASE r # p /\ s # p
      BY <1>1, <1>11, <2>4 DEF NoOvertaking, Waits
    <2> QED BY <2>2, <2>3, <2>4
  <1>18. \A k \in DOMAIN q : /\ q[k] \in Procs /\ Waits(q[k]) /\ queue_level[q[k]] = l + 1 /\ q[k] < p
    <2> SUFFICES ASSUME NEW k \in DOMAIN q
                 PROVE  q[k] \in Procs /\ Waits(q[k]) /\ queue_level[q[k]] = l + 1 /\ q[k] < p
      OBVIOUS
    <2>1. q[k] \in Procs /\ Waits(q[k]) /\ queue_level[q[k]] = l + 1
      BY <1>1, <1>3, <1>6 DEF Sorted
    <2>2. p < q[k] => l + 1 <= l
      BY Zenon, <1>16, <2>1
    <2>3. q[k] # p /\ q[k] \in Nat /\ p \in Nat
      BY Zenon, <1>2, <1>3, <1>14, <2>1
    <2> QED BY <1>3, <2>1, <2>2, <2>3
  <1>19. \A k \in DOMAIN queues'[l] : k + 1 \in DOMAIN queues[l] /\ queues'[l][k] = queues[l][k + 1] /\ k + 1 # 1
    BY <1>5, <1>8
  <1>20. \A m \in Levels : \A k \in DOMAIN queues'[m] : queues'[m][k] \in Procs
    BY <1>8
  <1>21. Sorted'
    <2> SUFFICES ASSUME NEW m \in Levels, NEW k \in DOMAIN queues'[m]
                 PROVE  /\ Waits(queues'[m][k]) /\ queue_level'[queues'[m][k]] = m
                        /\ \A j \in DOMAIN queues'[m] : j < k => queues'[m][j] < queues'[m][k]
      BY <1>9, <1>12, <1>20 DEF Sorted
    <2>1. CASE m = l
      <3>1. k + 1 \in DOMAIN queues[l] /\ k + 1 # 1
        BY <1>19, <2>1
      <3>2. queues[l][k + 1] # p
        BY <1>2, <3>1, FirstIsLeast
      <3>3. \A j \in DOMAIN queues'[l] : j < k => j + 1 \in DOMAIN queues[l] /\ j + 1 < k + 1
        BY <1>5, <1>8, <2>1
      <3>4. /\ Waits(queues[l][k + 1]) /\ queue_level[queues[l][k + 1]] = l
            /\ \A j \in DOMAIN queues'[l] : j < k => queues[l][j + 1] < queues[l][k + 1]
        BY <1>1, <3>1, <3>3 DEF Sorted
      <3> QED BY <1>11, <1>19, <1>20, <2>1, <3>2, <3>4
    <2>2. CASE m = l + 1
      <3>1. DOMAIN queues'[m] = 1 .. Len(q) + 1 /\ queues'[m] = Append(q, p)
        BY <1>7, <1>8, <2>2
      <3>2. CASE k = Len(q) + 1
        <4>1. queues'[m][k] = p
          BY <1>7, <3>1, <3>2
        <4>2. \A j \in DOMAIN queues'[m] : j < k => j \in DOMAIN q /\ queues'[m][j] = q[j]
          BY <1>7, <3>1, <3>2
        <4> QED BY <1>2, <1>11, <1>18, <2>2, <4>1, <4>2
      <3>3. CASE k # Len(q) + 1
        <4>1. k \in DOMAIN q /\ queues'[m][k] = q[k]
          BY <1>7, <3>1, <3>3
        <4>2. \A j \in DOMAIN queues'[m] : j < k => j \in DOMAIN q /\ queues'[m][j] = q[j]
          BY <1>7, <3>1, <3>3
        <4>3. \A j \in DOMAIN q : j < k => q[j] < q[k]
          BY <1>1, <1>3, <1>6, <4>1 DEF Sorted
        <4>4. queue_level'[q[k]] = l + 1
          BY <1>11, <1>18, <4>1
        <4> QED BY <1>18, <2>2, <4>1, <4>2, <4>3, <4>4
      <3> QED BY <3>2, <3>3
    <2>3. CASE m # l /\ m # l + 1
      <3>1. queues'[m] = queues[m]
        BY <1>8, <2>3
      <3>2. queues[m][k] # p
        BY <1>2, <2>3, <3>1, FirstIsLeast
      <3> QED BY <1>1, <1>11, <1>20, <3>1, <3>2 DEF Sorted
    <2> QED BY <2>1, <2>2, <2>3
  <1>22. \A k \in DOMAIN queues[l] : k # 1 => k - 1 \in DOMAIN queues'[l] /\ queues'[l][k - 1] = queues[l][k]
    BY <1>5, <1>8
  <1>23. \A k \in DOMAIN q : k \in DOMAIN queues'[l + 1] /\ queues'[l + 1][k] = q[k]
    BY <1>7, <1>8
  <1>24. Present'
    <2> SUFFICES ASSUME NEW r \in Procs, Waits(r)
                 PROVE  \E k \in DOMAIN queues'[queue_level'[r]] : queues'[queue_level'[r]][k] = r
      BY <1>12 DEF Present, Waits
    <2>1. CASE r = p
      <3>1. Len(q) + 1 \in DOMAIN queues'[l + 1] /\ queues'[l + 1][Len(q) + 1] = p
        BY <1>7, <1>8
      <3> QED BY <1>11, <2>1, <3>1
    <2>2. CASE r # p
      <3>1. queue_level[r] \in Levels /\ queue_level'[r] = queue_level[r]
        BY <1>1, <1>11, <2>2 DEF Types
      <3>2. PICK k \in DOMAIN queues[queue_level[r]] : queues[queue_level[r]][k] = r
        BY <1>1 DEF Present
      <3>3. CASE queue_level[r] = l
        <4>1. k # 1
          BY <1>2, <2>2, <3>2, <3>3
        <4> QED BY <1>22, <3>1, <3>2, <3>3, <4>1
      <3>4. CASE queue_level[r] = l + 1
        BY <1>6, <1>23, <3>1, <3>2, <3>4
      <3>5. CASE queue_level[r] # l /\ queue_level[r] # l + 1
        BY <1>8, <3>1, <3>2, <3>5
      <3> QED BY <3>3, <3>4, <3>5
    <2> QED BY <2>1, <2>2
  <1>25. \A m \in Levels : quantum(m) \in Nat /\ quantum(m) >= 1
    BY Zenon, <1>1, Amounts
  <1>26. Partial'
    <2> SUFFICES ASSUME NEW r \in Procs, Waits(r)
                 PROVE  /\ queue_level'[r] < MaxQueues - 1 => quantum_used'[r] < quantum(queue_level'[r])
                        /\ quantum_used'[r] > 0 => queues'[queue_level'[r]][1] = r
      BY <1>12 DEF Partial, Waits
    <2>1. CASE r = p
      <3>1. 0 < quantum(l + 1)
        BY <1>3, <1>25
      <3> QED BY <1>10, <1>11, <2>1, <3>1
    <2>2. CASE r # p
      <3>1. /\ queue_level[r] \in Levels /\ queue_level'[r] = queue_level[r]
            /\ quantum_used'[r] = quantum_used[r]
        BY <1>1, <1>10, <1>11, <2>2 DEF Types
      <3>2. quantum_used[r] > 0 => queue_level[r] # l /\ queues[queue_level[r]][1] = r
        BY <1>1, <1>2, <2>2 DEF Partial
      <3>3. queue_level[r] = l + 1 /\ quantum_used[r] > 0 => queues'[l + 1][1] = r
        <4> SUFFICES ASSUME queue_level[r] = l + 1, quantum_used[r] > 0 PROVE queues'[l + 1][1] = r
          OBVIOUS
        <4>1. q[1] = r
          BY <1>6, <3>2
        <4>2. PICK k \in DOMAIN q : q[k] = r
          BY <1>1, <1>6 DEF Present
        <4>3. 1 \in DOMAIN q
          BY <1>7, <4>2
        <4> QED BY <1>23, <4>1, <4>3
      <3>4. quantum_used[r] > 0 => queues'[queue_level[r]][1] = r
        BY <1>8, <3>1, <3>2, <3>3
      <3> QED BY <1>1, <3>1, <3>4 DEF Partial
    <2> QED BY <2>1, <2>2
  <1>27. LevelIsEarned'
    <2>1. burst_time[p] - remaining_time'[p] = quantum(l + 1) - 1 + quantum_used'[p]
      <3>1. PICK a \in Int, u \in Nat, g \in Nat, h \in Nat :
                   /\ a = burst_time[p] - remaining_time'[p] /\ u = quantum_used[p]
                   /\ g = quantum(l) /\ h = quantum(l + 1)
        <4>1. burst_time[p] - remaining_time'[p] \in Int
          <5>1. burst_time[p] \in Nat /\ remaining_time'[p] \in Nat
            BY Zenon, <1>1, <1>9, Amounts
          <5> QED BY <5>1
        <4> QED BY Zenon, <1>1, <1>3, <1>25, <4>1, Amounts
      <3>2. a = g - 1 + (u + 1)
        <4>1. burst_time[p] - (remaining_time[p] - 1) = quantum(l) - 1 + (quantum_used[p] + 1)
          BY Charges
        <4> QED BY Zenon, <1>9, <3>1, <4>1
      <3>3. u < g /\ u + 1 >= g
        BY Zenon, <1>1, <1>2, <1>3, <3>1 DEF Partial, Expired
      <3>4. h = 2 * g
        BY Zenon, <3>1 DEF MlfqConstants
      <3>5. a = h - 1 + 0
        BY <3>2, <3>3, <3>4
      <3> QED BY Zenon, <1>10, <3>1, <3>5
    <2>2. \A r \in Procs : r # p => burst_time[r] - remaining_time'[r] = quantum(queue_level'[r]) - 1 + quantum_used'[r]
      BY Zenon, <1>1, <1>9, <1>10, <1>11 DEF LevelIsEarned
    <2> QED BY Zenon, <1>2, <1>11, <2>1, <2>2 DEF LevelIsEarned
  <1> QED BY <1>13, <1>17, <1>21, <1>24, <1>26, <1>27 DEF MlfqInv

\* Every step keeps the invariant.
LEMMA MlfqNext == MlfqConstants /\ MlfqInv /\ [Next]_vars => MlfqInv'
  <1> SUFFICES ASSUME MlfqConstants, MlfqInv, [Next]_vars PROVE MlfqInv'
    OBVIOUS
  <1>1. CASE execute_time_slice
    <2>1. PICK l \in Levels, p \in Procs :
             /\ Slice(p, l)
             /\ \/ remaining_time[p] - 1 = 0 /\ Finish(p, l)
                \/ remaining_time[p] - 1 # 0 /\ Expired(p, l) /\ Demote(p, l)
                \/ remaining_time[p] - 1 # 0 /\ ~Expired(p, l) /\ Keep(p)
      BY <1>1, SliceIs
    <2> QED BY Zenon, <2>1, FinishKeeps, DemoteKeeps, KeptKeeps
  <1>2. CASE UNCHANGED vars
    <2>1. queues' = queues /\ burst_time' = burst_time /\ remaining_time' = remaining_time
          /\ queue_level' = queue_level /\ quantum_used' = quantum_used
      BY <1>2 DEF vars
    <2> QED BY <2>1 DEF MlfqInv, Types, Sorted, Present, Partial, LevelIsEarned, NoOvertaking, Waits
  <1> QED BY <1>1, <1>2 DEF Next, run_mlfq

\* What the invariant says of the queues.
LEMMA MlfqGives ==
    ASSUME MlfqConstants, MlfqInv
    PROVE  TypeOK /\ InOneQueue /\ LevelIsEarned /\ NoOvertaking /\ LastQueueInOrder
  <1>1. Types /\ Sorted /\ Present /\ Partial /\ LevelIsEarned /\ NoOvertaking
    BY DEF MlfqInv
  <1>2. TypeOK
    <2> SUFFICES ASSUME NEW p \in Procs
                 PROVE  remaining_time[p] \in 0 .. burst_time[p] /\ quantum_used[p] \in 0 .. burst_time[p]
      BY <1>1 DEF TypeOK, Types
    <2>1. PICK b \in Nat, x \in Nat, u \in Nat, g \in Nat :
               b = burst_time[p] /\ x = remaining_time[p] /\ u = quantum_used[p] /\ g = quantum(queue_level[p])
      BY Zenon, <1>1, Amounts
    <2>2. b - x = g - 1 + u
      BY Zenon, <1>1, <2>1 DEF LevelIsEarned
    <2>3. g >= 1
      BY Zenon, <1>1, <2>1, Amounts
    <2>4. x \in 0 .. b /\ u \in 0 .. b
      BY <2>2, <2>3
    <2> QED BY Zenon, <2>1, <2>4
  <1>3. InOneQueue
    <2> SUFFICES ASSUME NEW p \in Procs, NEW l \in Levels
                 PROVE  Cardinality({k \in DOMAIN queues[l] : queues[l][k] = p}) =
                            IF remaining_time[p] > 0 /\ l = queue_level[p] THEN 1 ELSE 0
      BY DEF InOneQueue
    <2> DEFINE P == {k \in DOMAIN queues[l] : queues[l][k] = p}
    <2>1. CASE remaining_time[p] > 0 /\ l = queue_level[p]
      <3>1. PICK k \in DOMAIN queues[l] : queues[l][k] = p
        BY <1>1, <2>1 DEF Present, Waits
      <3>2. \A j \in DOMAIN queues[l] : j \in Nat
        BY <1>1 DEF Types
      <3>3. \A j \in DOMAIN queues[l] : queues[l][j] = p => j = k
        BY <1>1, <3>1, <3>2 DEF Sorted, Procs
      <3>4. P = {k}
        BY <3>1, <3>3
      <3> QED BY <2>1, <3>4, FS_Singleton
    <2>2. CASE ~(remaining_time[p] > 0 /\ l = queue_level[p])
      <3>1. P = {}
        BY <1>1, <2>2 DEF Sorted, Waits
      <3> QED BY <2>2, <3>1, FS_EmptySet
    <2> QED BY <2>1, <2>2
  <1>4. LastQueueInOrder
    <2> SUFFICES ASSUME NEW p \in Procs, NEW q \in Procs, p # q, queue_level[p] = queue_level[q],
                        Waits(p), Waits(q)
                 PROVE  quantum_used[p] = 0 \/ quantum_used[q] = 0
      BY DEF LastQueueInOrder, Waits
    <2>1. quantum_used[p] \in Nat /\ quantum_used[q] \in Nat
      BY <1>1 DEF Types
    <2> QED BY <1>1, <2>1 DEF Partial
  <1> QED BY <1>1, <1>2, <1>3, <1>4

\* A process waits in one queue, that of its level, at the level its time has earned;
\* none that came later is served through more levels, and the last queue is served in order.
THEOREM MlfqIsRight ==
    MlfqConstants /\ Spec => [](TypeOK /\ InOneQueue /\ LevelIsEarned /\ NoOvertaking /\ LastQueueInOrder)
  <1> SUFFICES ASSUME MlfqConstants
               PROVE  Spec => [](TypeOK /\ InOneQueue /\ LevelIsEarned /\ NoOvertaking /\ LastQueueInOrder)
    OBVIOUS
  <1> QED BY MlfqStart, MlfqNext, MlfqGives, PTL DEF Spec
=============================================================================

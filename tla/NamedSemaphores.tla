-------------------------- MODULE NamedSemaphores --------------------------
(***************************************************************************)
(* concurrency/threads/semaphores: a producer and a consumer process that  *)
(* hand messages over in shared memory, one at a time, with two named      *)
(* semaphores.  A name leads to an object; an object outlives its name     *)
(* and the processes that crash.                                           *)
(***************************************************************************)
EXTENDS Integers, Sequences, TLAPS

CONSTANTS Messages,    \* the loop count of both processes
          MaxStarts,   \* bound on how often each process is started
          MaxCrashes   \* bound on how often one is killed

VARIABLES names,   \* the object a name leads to, None if there is none
          value,   \* of each object: a count, or the message in the memory
          handle,  \* the objects a process has opened
          pc, i,   \* of each process
          got,     \* what this run of the consumer has consumed
          starts, crashes,
          again    \* a process that was done has been started again

objects == <<names, value>>
vars == <<objects, handle, pc, i, got, starts, crashes, again>>

Names == {"shm", "prod", "cons"}   \* SHM_NAME, SEM_PRODUCER_NAME, SEM_CONSUMER_NAME
Procs == {"producer", "consumer"}
None == 0
Empty == -1

Init == /\ names = [n \in Names |-> None] /\ value = <<>>
        /\ handle = [p \in Procs |-> [n \in Names |-> None]]
        /\ pc = [p \in Procs |-> "exited"] /\ i = [p \in Procs |-> 0]
        /\ got = <<>> /\ starts = [p \in Procs |-> 0] /\ crashes = 0 /\ again = FALSE

Goto(p, from, to) == pc[p] = from /\ pc' = [pc EXCEPT ![p] = to]

Start(p) == /\ starts[p] < MaxStarts /\ pc[p] \in {"exited", "done"}
            /\ pc' = [pc EXCEPT ![p] = "open_shm"]
            /\ again' = (again \/ pc[p] = "done")
            /\ starts' = [starts EXCEPT ![p] = @ + 1]
            /\ handle' = [handle EXCEPT ![p] = [n \in Names |-> None]]
            /\ i' = [i EXCEPT ![p] = 0]
            /\ got' = IF p = "consumer" THEN <<>> ELSE got
            /\ UNCHANGED <<objects, crashes>>

\* An open with O_CREAT: the initial value counts only if the name is new.
Create(p, n, init) ==
    LET new == names[n] = None
        obj == IF new THEN Len(value) + 1 ELSE names[n]
    IN /\ names' = [names EXCEPT ![n] = obj]
       /\ value' = IF new THEN Append(value, init) ELSE value
       /\ handle' = [handle EXCEPT ![p][n] = obj]
       /\ UNCHANGED <<i, got, starts, crashes, again>>

open_shm(p) == Goto(p, "open_shm", "open_prod") /\ Create(p, "shm", Empty)

\* The consumer creates the semaphores: nothing to consume, room to produce.
CreateSems ==
    \/ Goto("consumer", "open_prod", "open_cons") /\ Create("consumer", "prod", 0)
    \/ Goto("consumer", "open_cons", "wait") /\ Create("consumer", "cons", 1)

\* The producer only opens them.  If one is missing it exits, after both opens.
OpenSems ==
    /\ \/ Goto("producer", "open_prod", "open_cons")
          /\ handle' = [handle EXCEPT !["producer"]["prod"] = names["prod"]]
       \/ Goto("producer", "open_cons", IF handle["producer"]["prod"] # None /\ names["cons"] # None
                                        THEN "wait" ELSE "exited")
          /\ handle' = [handle EXCEPT !["producer"]["cons"] = names["cons"]]
    /\ UNCHANGED <<objects, i, got, starts, crashes, again>>
-----------------------------------------------------------------------------
Theirs(p) == IF p = "producer" THEN "cons" ELSE "prod"   \* the semaphore p waits for
Mine(p) == IF p = "producer" THEN "prod" ELSE "cons"     \* the one it posts

\* Mutant: the wait is a sem_trywait whose result is ignored.
sem_wait_Try(p) ==
    LET s == handle[p][Theirs(p)]
    IN /\ Goto(p, "wait", "work")
       /\ value' = IF value[s] > 0 THEN [value EXCEPT ![s] = @ - 1] ELSE value
       /\ UNCHANGED <<names, handle, i, got, starts, crashes, again>>

sem_wait(p) ==
    LET s == handle[p][Theirs(p)]
    IN /\ Goto(p, "wait", "work") /\ value[s] > 0
       /\ value' = [value EXCEPT ![s] = @ - 1]
       /\ UNCHANGED <<names, handle, i, got, starts, crashes, again>>

\* The producer writes message i; the consumer prints the message, and clears it.
Work(p) ==
    LET m == handle[p]["shm"]
    IN /\ Goto(p, "work", IF p = "producer" THEN "post" ELSE "clear")
       /\ IF p = "producer"
          THEN value' = [value EXCEPT ![m] = i[p]] /\ UNCHANGED got
          ELSE got' = Append(got, value[m]) /\ UNCHANGED value
       /\ UNCHANGED <<names, handle, i, starts, crashes, again>>

Clear == /\ Goto("consumer", "clear", "post")
         /\ value' = [value EXCEPT ![handle["consumer"]["shm"]] = Empty]
         /\ UNCHANGED <<names, handle, i, got, starts, crashes, again>>

sem_post(p) ==
    /\ Goto(p, "post", IF i[p] + 1 < Messages THEN "wait" ELSE "close")
    /\ value' = [value EXCEPT ![handle[p][Mine(p)]] = @ + 1]
    /\ i' = [i EXCEPT ![p] = @ + 1]
    /\ UNCHANGED <<names, handle, got, starts, crashes, again>>

\* The producer closes; the consumer also unlinks the three names, in order.
CloseUp(p) ==
    /\ IF p = "producer"
       THEN Goto(p, "close", "done") /\ UNCHANGED names
       ELSE \/ Goto(p, "close", "unlink_cons") /\ names' = [names EXCEPT !["prod"] = None]
            \/ Goto(p, "unlink_cons", "unlink_shm") /\ names' = [names EXCEPT !["cons"] = None]
            \/ Goto(p, "unlink_shm", "done") /\ names' = [names EXCEPT !["shm"] = None]
    /\ UNCHANGED <<value, handle, i, got, starts, crashes, again>>

\* A process is killed: its semaphores keep their values, its names stay.
Crash(p) == /\ crashes < MaxCrashes /\ pc[p] \notin {"exited", "done"}
            /\ pc' = [pc EXCEPT ![p] = "exited"]
            /\ crashes' = crashes + 1
            /\ UNCHANGED <<objects, handle, i, got, starts, again>>

Run(p) == open_shm(p) \/ sem_wait(p) \/ Work(p) \/ sem_post(p) \/ CloseUp(p)
          \/ (p = "consumer" /\ (CreateSems \/ Clear)) \/ (p = "producer" /\ OpenSems)

Next == \E p \in Procs : Start(p) \/ Run(p) \/ Crash(p)

Spec == Init /\ [][Next]_vars

\* A process that can go on does.
FairSpec == Spec /\ \A p \in Procs : WF_vars(Run(p))
-----------------------------------------------------------------------------
TypeOK ==
    /\ names \in [Names -> 0 .. Len(value)]
    /\ \A o \in DOMAIN value : value[o] \in Empty .. Messages
    /\ handle \in [Procs -> [Names -> 0 .. Len(value)]]
    /\ i \in [Procs -> 0 .. Messages]
    /\ \A p \in Procs : pc[p] = "wait" => \A n \in Names : handle[p][n] # None

\* Whatever crashes and restarts came before, producer and consumer are never at
\* the same memory at the same time.
Exclusive == ~(/\ pc["producer"] = "work" /\ pc["consumer"] \in {"work", "clear"}
               /\ handle["producer"]["shm"] = handle["consumer"]["shm"])

Undisturbed == crashes = 0 /\ ~again

\* Without crashes and second runs, the consumer gets message 0, 1, 2... each once, in order.
InOrder == Undisturbed => \A k \in DOMAIN got : got[k] = k - 1

\* Without crashes and second runs, once the producer has found the semaphores both processes end.
HandOver ==
    []<>(Undisturbed /\ pc["producer"] \in {"wait", "work", "post", "close", "done"} =>
            \A p \in Procs : pc[p] = "done")

\* When both are done nothing is left behind: no name, and one token of each
\* semaphore where it started, in the hands of nobody.
NothingLeft == Undisturbed /\ (\A p \in Procs : pc[p] = "done") =>
    /\ \A n \in Names : names[n] = None
    /\ value[handle["consumer"]["prod"]] = 0 /\ value[handle["consumer"]["cons"]] = 1
-----------------------------------------------------------------------------
SemaphoreConstants == Messages \in Nat /\ Messages >= 2

\* The value of a semaphore that may not be there.
Tokens(o) == IF o = None THEN 0 ELSE value[o]

Holds(p) == pc[p] \in {"work", "clear", "post"}
Active(p) == pc[p] = "wait" \/ Holds(p)

Steps == {"exited", "open_shm", "open_prod", "open_cons", "wait", "work", "clear", "post",
          "close", "unlink_cons", "unlink_shm", "done"}
Ready(p) ==
    /\ Active(p) => (\A n \in Names : handle[p][n] # None) /\ i[p] < Messages
    /\ pc[p] \in {"open_shm", "open_prod", "open_cons"} => i[p] = 0
    /\ pc[p] \in {"open_prod", "open_cons"} => handle[p]["shm"] # None
Types ==
    /\ value \in Seq(Empty .. Messages)
    /\ names \in [Names -> 0 .. Len(value)]
    /\ handle \in [Procs -> [Names -> 0 .. Len(value)]]
    /\ i \in [Procs -> 0 .. Messages]
    /\ pc \in [Procs -> Steps] /\ pc["producer"] \notin {"clear", "unlink_cons", "unlink_shm"}
    /\ \A p \in Procs : Ready(p)

\* An object is memory, or the one or the other semaphore.
Uses(n) == {names[n]} \cup {handle[p][n] : p \in Procs}
Kinds == \A m, n \in Names : m # n => Uses(m) \cap Uses(n) \subseteq {None}

\* A count is never negative.
Counts == \A n \in {"prod", "cons"} :
    Tokens(names[n]) >= 0 /\ \A p \in Procs : Tokens(handle[p][n]) >= 0

\* The semaphores that the consumer has open are those that the names lead to.
ConsumerOwns ==
    LET at == pc["consumer"]
    IN /\ at \in {"open_cons", "close"} \/ Active("consumer") =>
            names["prod"] # None /\ handle["consumer"]["prod"] = names["prod"]
       /\ at \in {"close", "unlink_cons"} \/ Active("consumer") =>
            names["cons"] # None /\ handle["consumer"]["cons"] = names["cons"]
       /\ at \in {"unlink_cons", "unlink_shm"} => names["prod"] = None
       /\ at = "unlink_shm" => names["cons"] = None

\* A producer whose names have been taken over since it opened them: nobody else has
\* been there to post the new semaphore.
LeftBehind ==
    /\ pc["producer"] = "open_cons" \/ Active("producer")
    /\ handle["producer"]["prod"] # names["prod"]
NothingPosted == LeftBehind => Tokens(names["prod"]) = 0 /\ ~Holds("consumer")

\* The two semaphores of a producer that is not left behind belong together.
Paired ==
    Active("producer") /\ ~LeftBehind => handle["producer"]["cons"] = names["cons"]

ProducerHolds == Holds("producer") /\ handle["producer"]["cons"] = names["cons"]

\* The semaphores that the names lead to and the processes that passed them have one
\* token between them.
OneToken ==
    Tokens(names["prod"]) + Tokens(names["cons"]) + (IF Holds("consumer") THEN 1 ELSE 0)
        + (IF ProducerHolds THEN 1 ELSE 0) <= 1
NoRoomNoToken == names["cons"] = None => Tokens(names["prod"]) = 0

\* The producer that is left behind finds two tokens at most.
OldTokens ==
    /\ pc["producer"] = "open_cons" => Tokens(handle["producer"]["prod"]) <= 1
    /\ Active("producer") =>
         Tokens(handle["producer"]["prod"]) + Tokens(handle["producer"]["cons"])
            + (IF Holds("producer") THEN 1 ELSE 0) <= 2

ExclusionInv == /\ Types /\ Kinds /\ Counts /\ ConsumerOwns /\ NothingPosted /\ Paired
                /\ OneToken /\ NoRoomNoToken /\ OldTokens

\* A process that has passed its opens.
Ran(p) == Active(p) \/ pc[p] \in {"close", "unlink_cons", "unlink_shm", "done"}

\* The one run of the consumer: the names before and after it, and what it opened.
OneRun ==
    /\ pc["consumer"] \in {"exited", "open_shm", "open_prod"} => names["prod"] = None
    /\ ~Ran("consumer") => names["cons"] = None /\ i["consumer"] = 0 /\ got = <<>>
    /\ Ran("consumer") => \A n \in Names : handle["consumer"][n] # None
    /\ pc["consumer"] \notin {"exited", "open_shm", "done"} =>
         names["shm"] # None /\ handle["consumer"]["shm"] = names["shm"]
    /\ pc["consumer"] = "done" => /\ \A n \in Names : names[n] = None
                                  /\ pc["producer"] \in {"close", "done"}

\* The producer finds what the consumer has opened, or exits and is started again.
SameObjects ==
    /\ pc["producer"] \notin {"exited", "open_shm"} /\ pc["consumer"] # "done" =>
         handle["producer"]["shm"] = names["shm"]
    /\ pc["producer"] = "open_cons" /\ handle["producer"]["prod"] # None =>
         /\ handle["producer"]["prod"] = handle["consumer"]["prod"]
         /\ pc["consumer"] = "open_cons" \/ Ran("consumer")
    /\ Ran("producer") => /\ Ran("consumer")
                          /\ \A n \in Names : handle["producer"][n] = handle["consumer"][n]
    /\ ~Ran("producer") => i["producer"] = 0

\* Who has the token, and so whose turn it is; the memory has message i of the
\* consumer from when it is written to when it is cleared.
Prod == Tokens(handle["consumer"]["prod"])
Cons == Tokens(handle["consumer"]["cons"])
InTurn ==
    Ran("consumer") =>
        /\ Prod + Cons + (IF Holds("consumer") THEN 1 ELSE 0)
             + (IF Holds("producer") THEN 1 ELSE 0) = 1
        /\ Cons = 1 \/ Holds("producer") => i["producer"] = i["consumer"]
        /\ Prod = 1 \/ Holds("consumer") => i["producer"] = i["consumer"] + 1
        /\ Prod = 1 \/ pc["consumer"] = "work" \/ pc["producer"] = "post" =>
             Tokens(handle["consumer"]["shm"]) = i["consumer"]

\* How far they are.
Progress ==
    /\ got \in Seq(Int)
    /\ Len(got) = IF pc["consumer"] \in {"clear", "post"} THEN i["consumer"] + 1 ELSE i["consumer"]
    /\ \A k \in 1 .. Len(got) : got[k] = k - 1
    /\ \A p \in Procs : Ran(p) /\ ~Active(p) => i[p] = Messages

Orderly == OneRun /\ SameObjects /\ InTurn /\ Progress
OrderInv == crashes \in Nat /\ (Undisturbed => Orderly)
-----------------------------------------------------------------------------
\* What the names say of two processes and three objects.
LEMMA Ends ==
    /\ \A p \in Procs : p = "producer" \/ p = "consumer"
    /\ "producer" \in Procs /\ "consumer" \in Procs /\ "producer" # "consumer"
    /\ "shm" \in Names /\ "prod" \in Names /\ "cons" \in Names
    /\ \A n \in Names : n = "shm" \/ n = "prod" \/ n = "cons"
  BY DEF Procs, Names

\* Before the programs start there is no object and nobody runs: the invariant holds.
LEMMA ExclusionStart == SemaphoreConstants /\ Init => ExclusionInv
  <1> SUFFICES ASSUME SemaphoreConstants, Init
               PROVE  ExclusionInv
    OBVIOUS
  <1>1. Types
    <2>1. value = <<>> /\ value \in Seq(Empty .. Messages) /\ Len(value) = 0
      BY DEF Init
    <2>2. \A p \in Procs : pc[p] = "exited" /\ i[p] = 0
      BY DEF Init
    <2>3. names \in [Names -> 0 .. Len(value)] /\ handle \in [Procs -> [Names -> 0 .. Len(value)]]
          /\ i \in [Procs -> 0 .. Messages]
      BY <2>1 DEF Init, None, SemaphoreConstants
    <2>4. pc \in [Procs -> Steps] /\ pc["producer"] = "exited"
      BY Ends DEF Init, Steps
    <2> QED BY <2>1, <2>2, <2>3, <2>4, Ends DEF Types, Ready, Active, Holds
  <1>2. Kinds
    BY DEF Init, Kinds, Uses
  <1>3. \A p \in Procs : ~Active(p) /\ ~Holds(p) /\ pc[p] = "exited"
    BY DEF Init, Active, Holds
  <1>4. \A n \in Names : Tokens(names[n]) = 0 /\ \A p \in Procs : Tokens(handle[p][n]) = 0
    BY DEF Init, Tokens
  <1>5. Counts
    BY <1>4, Ends DEF Counts
  <1> QED BY <1>1, <1>2, <1>3, <1>4, <1>5, Ends
          DEF ExclusionInv, ConsumerOwns, NothingPosted, LeftBehind, Paired, OneToken, ProducerHolds,
              NoRoomNoToken, OldTokens

\* A step that takes over objects of their own kind, or a new one, keeps the kinds.
LEMMA KindsKept ==
    ASSUME Kinds, NEW k \in Names, NEW fresh, \A n \in Names : fresh \notin Uses(n),
           \A n \in Names : Uses(n)' \subseteq Uses(n) \cup {None} \cup {o \in {fresh} : n = k}
    PROVE  Kinds'
  BY DEF Kinds, None

\* Values are numbers.
LEMMA TokenType ==
    ASSUME SemaphoreConstants, Types
    PROVE  /\ \A o \in 0 .. Len(value) : Tokens(o) \in Int
           /\ \A n \in Names : /\ names[n] \in 0 .. Len(value) /\ Tokens(names[n]) \in Int
                               /\ \A p \in Procs : /\ handle[p][n] \in 0 .. Len(value)
                                                   /\ Tokens(handle[p][n]) \in Int
  <1>1. \A o \in 0 .. Len(value) : Tokens(o) \in Int
    BY DEF Types, Tokens, None, Empty, SemaphoreConstants
  <1> QED BY <1>1 DEF Types

\* A step of the other process.
Same(q) ==
    /\ pc'[q] = pc[q] /\ i'[q] = i[q] /\ \A n \in Names : handle'[q][n] = handle[q][n]
    /\ Active(q)' = Active(q) /\ Holds(q)' = Holds(q)

\* The process that does not step stays ready.
LEMMA ReadyKept ==
    ASSUME NEW p \in Procs, Ready(p)', \A q \in Procs : q # p => Same(q), \A q \in Procs : Ready(q)
    PROVE  \A q \in Procs : Ready(q)'
  <1> SUFFICES ASSUME NEW q \in Procs, q # p
               PROVE  Ready(q)'
    OBVIOUS
  <1>1. Same(q) /\ Ready(q)
    OBVIOUS
  <1> QED BY <1>1, Ends DEF Same, Ready

\* A start or a crash: the process has nothing.
LEMMA StopKeeps ==
    ASSUME SemaphoreConstants, ExclusionInv, NEW p \in Procs, Start(p) \/ Crash(p)
    PROVE  ExclusionInv'
  <1>1. PICK s \in {"exited", "open_shm"} :
        /\ names' = names /\ value' = value /\ pc' = [pc EXCEPT ![p] = s]
        /\ \/ handle' = handle /\ i' = i /\ s = "exited"
           \/ /\ handle' = [handle EXCEPT ![p] = [n \in Names |-> None]]
              /\ i' = [i EXCEPT ![p] = 0]
    BY DEF Start, Crash, objects
  <1>2. Types
    BY DEF ExclusionInv
  <1>3. /\ pc'[p] = s /\ ~Active(p)' /\ ~Holds(p)'
        /\ \A q \in Procs : q # p => Same(q)
        /\ \A n \in Names : handle'[p][n] \in {None, handle[p][n]}
        /\ \A o : Tokens(o)' = Tokens(o)
    BY <1>1, <1>2 DEF Types, Active, Holds, Tokens, Same
  <1>4. Types'
    <2>1. pc' \in [Procs -> Steps] /\ pc'["producer"] \notin {"clear", "unlink_cons", "unlink_shm"}
      BY <1>1, <1>2, <1>3, Ends DEF Types, Steps
    <2>2. handle' \in [Procs -> [Names -> 0 .. Len(value')]] /\ i' \in [Procs -> 0 .. Messages]
      <3>1. [n \in Names |-> None] \in [Names -> 0 .. Len(value)] /\ 0 \in 0 .. Messages
        BY <1>2 DEF Types, None, SemaphoreConstants
      <3>2. handle' \in [Procs -> [Names -> 0 .. Len(value')]]
        BY Zenon, <1>1, <1>2, <3>1 DEF Types
      <3> QED BY Zenon, <1>1, <1>2, <3>1, <3>2 DEF Types
    <2>3. Ready(p)'
      BY <1>1, <1>2, <1>3 DEF Types, Ready
    <2> QED BY Zenon, <1>1, <1>2, <1>3, <2>1, <2>2, <2>3, ReadyKept DEF Types
  <1>5. Kinds'
    <2>1. PICK fresh : \A n \in Names : fresh \notin Uses(n)
      <3>1. \A n \in Names : Len(value) + 1 \notin Uses(n)
        BY <1>2 DEF Types, Uses
      <3> QED BY Zenon, <3>1
    <2>2. \A n \in Names : Uses(n)' \subseteq Uses(n) \cup {None}
      BY <1>1, <1>3 DEF Uses, Same
    <2> QED BY <2>1, <2>2, Ends, KindsKept DEF ExclusionInv
  <1>6. Counts'
    BY <1>1, <1>3, Ends DEF Same, ExclusionInv, Counts, Tokens, None
  <1>7. ConsumerOwns'
    BY <1>1, <1>3, Ends DEF Same, ExclusionInv, ConsumerOwns
  <1>8. NothingPosted'
    BY <1>1, <1>3, Ends DEF Same, ExclusionInv, NothingPosted, LeftBehind
  <1>9. Paired'
    BY <1>1, <1>3, Ends DEF Same, ExclusionInv, Paired, LeftBehind
  <1>10. OneToken'
    <2>1. (Holds("consumer")' => Holds("consumer")) /\ (ProducerHolds' => ProducerHolds)
      BY <1>1, <1>3, Ends DEF Same, ProducerHolds
    <2> QED BY <1>1, <1>2, <1>3, <2>1, Ends, TokenType DEF ExclusionInv, OneToken
  <1>11. NoRoomNoToken' /\ OldTokens'
    BY <1>1, <1>3, Ends DEF Same, ExclusionInv, NoRoomNoToken, OldTokens
  <1> QED BY <1>4, <1>5, <1>6, <1>7, <1>8, <1>9, <1>10, <1>11 DEF ExclusionInv

\* What an open with O_CREAT does: the name leads to an object, which is new or was its own.
Opened(p, k, init) ==
    /\ value' \in Seq(Empty .. Messages) /\ Len(value') >= Len(value)
    /\ names' \in [Names -> 0 .. Len(value')]
    /\ handle' \in [Procs -> [Names -> 0 .. Len(value')]]
    /\ names'[k] # None /\ handle'[p][k] = names'[k] /\ i' = i
    /\ \A n \in Names : n # k => names'[n] = names[n]
    /\ \A q \in Procs, n \in Names : q # p \/ n # k => handle'[q][n] = handle[q][n]
    /\ names[k] # None => names'[k] = names[k]
    /\ names[k] = None => names'[k] = Len(value) + 1 /\ Tokens(names[k])' = init
    /\ \A o \in 0 .. Len(value) : Tokens(o)' = Tokens(o)

\* That is what it does.
LEMMA CreateEffect ==
    ASSUME SemaphoreConstants, Types, NEW p \in Procs, NEW k \in Names,
           NEW init \in Empty .. Messages, Create(p, k, init)
    PROVE  Opened(p, k, init)
  <1> DEFINE obj == IF names[k] = None THEN Len(value) + 1 ELSE names[k]
  <1>1. /\ names' = [names EXCEPT ![k] = obj] /\ handle' = [handle EXCEPT ![p][k] = obj] /\ i' = i
        /\ value' = IF names[k] = None THEN Append(value, init) ELSE value
    BY DEF Create
  <1>2. /\ value' \in Seq(Empty .. Messages) /\ Len(value') >= Len(value) /\ Len(value) \in Nat
        /\ obj \in 1 .. Len(value')
        /\ \A o \in 1 .. Len(value) : value'[o] = value[o]
        /\ names[k] = None => obj = Len(value) + 1 /\ value'[obj] = init
    <2>1. value \in Seq(Empty .. Messages) /\ names[k] \in 0 .. Len(value)
      BY DEF Types
    <2>2. CASE names[k] = None
      BY <1>1, <2>1, <2>2
    <2>3. CASE names[k] # None
      BY <1>1, <2>1, <2>3 DEF None
    <2> QED BY <2>2, <2>3
  <1> HIDE DEF obj
  <1>3. names' \in [Names -> 0 .. Len(value')]
    BY <1>1, <1>2 DEF Types
  <1>4. handle' \in [Procs -> [Names -> 0 .. Len(value')]]
    BY <1>1, <1>2 DEF Types
  <1>5. names'[k] = obj /\ handle'[p][k] = obj
    BY <1>1 DEF Types
  <1>6. /\ \A n \in Names : n # k => names'[n] = names[n]
        /\ \A q \in Procs, n \in Names : q # p \/ n # k => handle'[q][n] = handle[q][n]
    BY <1>1 DEF Types
  <1>7. names[k] # None => obj = names[k]
    BY DEF obj
  <1>8. names[k] = None => Tokens(names[k])' = init
    BY <1>2, <1>5 DEF Tokens, None
  <1>9. \A o \in 0 .. Len(value) : Tokens(o)' = Tokens(o)
    BY <1>2 DEF Tokens, None
  <1> QED BY <1>1, <1>2, <1>3, <1>4, <1>5, <1>6, <1>7, <1>8, <1>9 DEF None, Opened

\* It keeps the kinds.
LEMMA CreateKinds ==
    ASSUME SemaphoreConstants, Types, Kinds, NEW p \in Procs, NEW k \in Names,
           NEW init \in Empty .. Messages, Create(p, k, init)
    PROVE  Kinds'
  <1>0. Opened(p, k, init)
    BY CreateEffect
  <1>1. PICK fresh : fresh = Len(value) + 1
    OBVIOUS
  <1>2. \A n \in Names : fresh \notin Uses(n)
    BY <1>1 DEF Types, Uses
  <1>3. names'[k] \in {fresh} \cup Uses(k) /\ handle'[p][k] \in {fresh} \cup Uses(k)
    BY <1>1, <1>0 DEF Opened, Uses
  <1>4. \A n \in Names : Uses(n)' \subseteq Uses(n) \cup {None} \cup {o \in {fresh} : n = k}
    <2> SUFFICES ASSUME NEW n \in Names, NEW o \in Uses(n)'
                 PROVE  o \in Uses(n) \/ (o = fresh /\ n = k)
      OBVIOUS
    <2>1. o = names'[n] \/ \E q \in Procs : o = handle'[q][n]
      BY DEF Uses
    <2>2. o = names'[n] => o \in Uses(n) \/ (o = fresh /\ n = k)
      BY <1>3, <1>0 DEF Opened, Uses
    <2>3. ASSUME NEW q \in Procs, o = handle'[q][n]
          PROVE  o \in Uses(n) \/ (o = fresh /\ n = k)
      <3>1. CASE q = p /\ n = k
        BY <1>3, <2>3, <3>1
      <3>2. CASE q # p \/ n # k
        <4>1. o = handle[q][n]
          BY <2>3, <3>2, <1>0 DEF Opened
        <4> QED BY <4>1 DEF Uses
      <3> QED BY <3>1, <3>2
    <2> QED BY <2>1, <2>2, <2>3
  <1> QED BY <1>2, <1>4, KindsKept

\* Opening the memory.
LEMMA ShmKeeps ==
    ASSUME SemaphoreConstants, ExclusionInv, NEW p \in Procs, open_shm(p)
    PROVE  ExclusionInv'
  <1>1. pc[p] = "open_shm" /\ pc' = [pc EXCEPT ![p] = "open_prod"] /\ Create(p, "shm", Empty)
    BY DEF open_shm, Goto
  <1>2. Types /\ Kinds /\ Empty \in Empty .. Messages
    BY DEF ExclusionInv, SemaphoreConstants, Empty
  <1>3. /\ pc'[p] = "open_prod" /\ ~Active(p)' /\ ~Holds(p)' /\ ~Active(p) /\ ~Holds(p)
        /\ \A q \in Procs : q # p => /\ pc'[q] = pc[q] /\ Active(q)' = Active(q) /\ Holds(q)' = Holds(q)
    BY <1>1, <1>2 DEF Types, Active, Holds
  <1>4. /\ value' \in Seq(Empty .. Messages) /\ Len(value') >= Len(value)
        /\ names' \in [Names -> 0 .. Len(value')] /\ i' = i
        /\ handle' \in [Procs -> [Names -> 0 .. Len(value')]]
        /\ handle'[p]["shm"] # None
        /\ \A n \in {"prod", "cons"} :
             /\ names'[n] = names[n] /\ Tokens(names[n])' = Tokens(names[n])
             /\ \A q \in Procs : handle'[q][n] = handle[q][n] /\ Tokens(handle[q][n])' = Tokens(handle[q][n])
        /\ \A q \in Procs : q # p => handle'[q]["shm"] = handle[q]["shm"]
    <2>1. Opened(p, "shm", Empty)
      BY <1>1, <1>2, Ends, CreateEffect
    <2>2. \A n \in {"prod", "cons"} :
             /\ names'[n] = names[n]
             /\ \A q \in Procs : handle'[q][n] = handle[q][n]
      BY SMTT(30), <2>1, Ends DEF Opened
    <2> QED BY Zenon, <1>2, <2>1, <2>2, Ends, TokenType DEF Opened
  <1>5. Types'
    <2>1. pc' \in [Procs -> Steps] /\ pc'["producer"] \notin {"clear", "unlink_cons", "unlink_shm"}
      BY <1>1, <1>2, <1>3, Ends DEF Types, Steps
    <2>2. Ready(p)'
      BY <1>2, <1>3, <1>4, <1>1 DEF Types, Ready
    <2>3. \A q \in Procs : q # p => Same(q)
      BY Zenon, <1>3, <1>4, Ends DEF Same
    <2> QED BY Zenon, <1>2, <1>4, <2>1, <2>2, <2>3, ReadyKept DEF Types
  <1>6. Kinds'
    BY <1>1, <1>2, Ends, CreateKinds
  <1>7. Counts'
    BY <1>4, Ends DEF ExclusionInv, Counts
  <1>8. ConsumerOwns'
    BY <1>1, <1>3, <1>4, Ends DEF ExclusionInv, ConsumerOwns
  <1>9. NothingPosted'
    BY Zenon, <1>1, <1>3, <1>4, Ends DEF ExclusionInv, NothingPosted, LeftBehind
  <1>10. Paired'
    BY Zenon, <1>1, <1>3, <1>4, Ends DEF ExclusionInv, Paired, LeftBehind
  <1>11. OneToken'
    <2>1. (Holds("consumer")' => Holds("consumer")) /\ (ProducerHolds' => ProducerHolds)
      BY Zenon, <1>1, <1>3, <1>4, Ends DEF ProducerHolds
    <2>2. Tokens(names["prod"])' = Tokens(names["prod"]) /\ Tokens(names["cons"])' = Tokens(names["cons"])
      BY <1>4
    <2> QED BY SMTT(30), <1>2, <2>1, <2>2, Ends, TokenType DEF ExclusionInv, OneToken
  <1>12. NoRoomNoToken' /\ OldTokens'
    BY <1>1, <1>3, <1>4, Ends DEF ExclusionInv, NoRoomNoToken, OldTokens
  <1> QED BY <1>5, <1>6, <1>7, <1>8, <1>9, <1>10, <1>11, <1>12 DEF ExclusionInv

\* The consumer makes the first semaphore, or finds it.
LEMMA ProdKeeps ==
    ASSUME SemaphoreConstants, ExclusionInv,
           Goto("consumer", "open_prod", "open_cons"), Create("consumer", "prod", 0)
    PROVE  ExclusionInv'
  <1>1. pc["consumer"] = "open_prod" /\ pc' = [pc EXCEPT !["consumer"] = "open_cons"]
    BY DEF Goto
  <1>2. Types /\ Kinds /\ 0 \in Empty .. Messages
    BY DEF ExclusionInv, SemaphoreConstants, Empty
  <1>3. /\ pc'["consumer"] = "open_cons" /\ ~Active("consumer")' /\ ~Holds("consumer")'
        /\ pc'["producer"] = pc["producer"] /\ Active("producer")' = Active("producer")
        /\ Holds("producer")' = Holds("producer") /\ ~Holds("consumer")
    BY <1>1, <1>2, Ends DEF Types, Active, Holds
  <1>4. Opened("consumer", "prod", 0)
    BY <1>2, Ends, CreateEffect
  <1>5. /\ names'["cons"] = names["cons"] /\ names'["prod"] # None
        /\ handle'["producer"]["prod"] = handle["producer"]["prod"]
        /\ handle'["producer"]["cons"] = handle["producer"]["cons"]
        /\ handle'["producer"]["shm"] = handle["producer"]["shm"]
        /\ handle'["consumer"]["shm"] = handle["consumer"]["shm"]
        /\ handle'["consumer"]["cons"] = handle["consumer"]["cons"]
        /\ handle'["consumer"]["prod"] = names'["prod"]
    BY <1>4, Ends DEF Opened
  <1>6. /\ Tokens(names["cons"])' = Tokens(names["cons"])
        /\ Tokens(handle["producer"]["prod"])' = Tokens(handle["producer"]["prod"])
        /\ Tokens(handle["producer"]["cons"])' = Tokens(handle["producer"]["cons"])
        /\ Tokens(handle["consumer"]["cons"])' = Tokens(handle["consumer"]["cons"])
        /\ Tokens(handle["consumer"]["prod"])' = Tokens(names["prod"])'
    BY Zenon, <1>2, <1>4, <1>5, Ends, TokenType DEF Opened
  <1>7. \/ names'["prod"] = names["prod"] /\ Tokens(names["prod"])' = Tokens(names["prod"])
        \/ /\ names'["prod"] # handle["producer"]["prod"] /\ Tokens(names["prod"])' = 0
           /\ Tokens(names["prod"]) = 0
    BY <1>2, <1>4, Ends, TokenType DEF Opened, Tokens
  <1>8. Types'
    <2>1. pc' \in [Procs -> Steps] /\ pc'["producer"] \notin {"clear", "unlink_cons", "unlink_shm"}
      BY <1>1, <1>2, <1>3, Ends DEF Types, Steps
    <2>2. Ready("consumer")' /\ i' = i
      BY <1>1, <1>2, <1>3, <1>4, <1>5, Ends DEF Types, Ready, Opened
    <2>3. Same("producer")
      BY <1>3, <1>5, <2>2, Ends DEF Same
    <2>4. \A q \in Procs : Ready(q)'
      BY Zenon, <1>2, <2>2, <2>3, Ends, ReadyKept DEF Types
    <2> QED BY <1>2, <1>4, <2>1, <2>4 DEF Types, Opened
  <1>9. Kinds'
    BY <1>2, Ends, CreateKinds
  <1>10. Counts'
    BY <1>6, <1>7, Ends DEF ExclusionInv, Counts
  <1>11. ConsumerOwns'
    BY <1>1, <1>3, <1>5, Ends DEF ExclusionInv, ConsumerOwns
  <1>12. NothingPosted'
    BY <1>3, <1>5, <1>7, Ends DEF ExclusionInv, NothingPosted, LeftBehind
  <1>13. Paired'
    BY <1>3, <1>5, <1>7, Ends DEF ExclusionInv, Paired, LeftBehind
  <1>14. OneToken'
    <2>1. ProducerHolds' = ProducerHolds
      BY <1>3, <1>5 DEF ProducerHolds
    <2> QED BY <1>2, <1>3, <1>6, <1>7, <2>1, Ends, TokenType DEF ExclusionInv, OneToken
  <1>15. NoRoomNoToken' /\ OldTokens'
    BY <1>3, <1>5, <1>6, <1>7, Ends DEF ExclusionInv, NoRoomNoToken, OldTokens
  <1> QED BY <1>8, <1>9, <1>10, <1>11, <1>12, <1>13, <1>14, <1>15 DEF ExclusionInv

\* The consumer makes the second semaphore, or finds it, and is ready.
LEMMA ConsKeeps ==
    ASSUME SemaphoreConstants, ExclusionInv,
           Goto("consumer", "open_cons", "wait"), Create("consumer", "cons", 1)
    PROVE  ExclusionInv'
  <1>1. pc["consumer"] = "open_cons" /\ pc' = [pc EXCEPT !["consumer"] = "wait"]
    BY DEF Goto
  <1>2. Types /\ Kinds /\ 1 \in Empty .. Messages
    BY DEF ExclusionInv, SemaphoreConstants, Empty
  <1>3. /\ pc'["consumer"] = "wait" /\ Active("consumer")' /\ ~Holds("consumer")'
        /\ pc'["producer"] = pc["producer"] /\ Active("producer")' = Active("producer")
        /\ Holds("producer")' = Holds("producer") /\ ~Holds("consumer")
    BY <1>1, <1>2, Ends DEF Types, Active, Holds
  <1>4. Opened("consumer", "cons", 1)
    BY <1>2, Ends, CreateEffect
  <1>5. /\ names'["prod"] = names["prod"] /\ names'["cons"] # None
        /\ handle'["producer"]["prod"] = handle["producer"]["prod"]
        /\ handle'["producer"]["cons"] = handle["producer"]["cons"]
        /\ handle'["producer"]["shm"] = handle["producer"]["shm"]
        /\ handle'["consumer"]["shm"] = handle["consumer"]["shm"]
        /\ handle'["consumer"]["prod"] = handle["consumer"]["prod"]
        /\ handle'["consumer"]["cons"] = names'["cons"]
    BY <1>4, Ends DEF Opened
  <1>6. /\ Tokens(names["prod"])' = Tokens(names["prod"])
        /\ Tokens(handle["producer"]["prod"])' = Tokens(handle["producer"]["prod"])
        /\ Tokens(handle["producer"]["cons"])' = Tokens(handle["producer"]["cons"])
        /\ Tokens(handle["consumer"]["prod"])' = Tokens(handle["consumer"]["prod"])
        /\ Tokens(handle["consumer"]["cons"])' = Tokens(names["cons"])'
    BY Zenon, <1>2, <1>4, <1>5, Ends, TokenType DEF Opened
  <1>7. \/ names'["cons"] = names["cons"] /\ Tokens(names["cons"])' = Tokens(names["cons"])
        \/ /\ names'["cons"] # handle["producer"]["cons"] /\ Tokens(names["cons"])' = 1
           /\ names["cons"] = None
    BY SMTT(30), <1>2, <1>4, Ends, TokenType DEF Opened
  <1>8. Types'
    <2>1. pc' \in [Procs -> Steps] /\ pc'["producer"] \notin {"clear", "unlink_cons", "unlink_shm"}
      BY <1>1, <1>2, <1>3, Ends DEF Types, Steps
    <2>2. i' = i /\ i["consumer"] = 0 /\ handle["consumer"]["shm"] # None
      BY <1>1, <1>2, <1>4, Ends DEF Types, Ready, Opened
    <2>3. names["prod"] # None /\ handle["consumer"]["prod"] = names["prod"]
      BY <1>1 DEF ExclusionInv, ConsumerOwns
    <2>4. Ready("consumer")'
      BY <1>3, <1>5, <2>2, <2>3, Ends DEF Ready, SemaphoreConstants
    <2>5. Same("producer")
      BY <1>3, <1>5, <2>2, Ends DEF Same
    <2>6. \A q \in Procs : Ready(q)'
      BY Zenon, <1>2, <2>4, <2>5, Ends, ReadyKept DEF Types
    <2> QED BY <1>2, <1>4, <2>1, <2>6 DEF Types, Opened
  <1>9. Kinds'
    BY <1>2, Ends, CreateKinds
  <1>10. Counts'
    BY <1>6, <1>7, Ends DEF ExclusionInv, Counts
  <1>11. ConsumerOwns'
    BY <1>1, <1>3, <1>5, Ends DEF ExclusionInv, ConsumerOwns
  <1>12. NothingPosted'
    BY <1>3, <1>5, <1>6, Ends DEF ExclusionInv, NothingPosted, LeftBehind
  <1>13. Paired'
    BY <1>2, <1>3, <1>5, <1>7, Ends DEF ExclusionInv, Paired, LeftBehind, Types, Ready
  <1>14. OneToken'
    <2>1. CASE names'["cons"] = names["cons"] /\ Tokens(names["cons"])' = Tokens(names["cons"])
      <3>1. ProducerHolds' = ProducerHolds
        BY <1>3, <1>5, <2>1 DEF ProducerHolds
      <3> QED BY <1>2, <1>3, <1>6, <2>1, <3>1, Ends, TokenType DEF ExclusionInv, OneToken
    <2>2. CASE /\ names'["cons"] # handle["producer"]["cons"] /\ Tokens(names["cons"])' = 1
               /\ names["cons"] = None
      <3>1. ~ProducerHolds' /\ Tokens(names["prod"])' = 0
        BY <1>5, <1>6, <2>2 DEF ProducerHolds, ExclusionInv, NoRoomNoToken
      <3> QED BY <1>3, <2>2, <3>1 DEF OneToken
    <2> QED BY <1>7, <2>1, <2>2
  <1>15. NoRoomNoToken' /\ OldTokens'
    BY <1>3, <1>5, <1>6, Ends DEF ExclusionInv, NoRoomNoToken, OldTokens
  <1> QED BY <1>8, <1>9, <1>10, <1>11, <1>12, <1>13, <1>14, <1>15 DEF ExclusionInv

\* The producer looks the two semaphores up, the one and then the other.
LEMMA OpenKeeps ==
    ASSUME SemaphoreConstants, ExclusionInv, OpenSems
    PROVE  ExclusionInv'
  <1>1. PICK k \in {"prod", "cons"} :
        /\ names' = names /\ value' = value /\ i' = i
        /\ handle' = [handle EXCEPT !["producer"][k] = names[k]]
        /\ \/ /\ k = "prod" /\ pc["producer"] = "open_prod" /\ pc' = [pc EXCEPT !["producer"] = "open_cons"]
           \/ /\ k = "cons" /\ pc["producer"] = "open_cons"
              /\ \/ pc' = [pc EXCEPT !["producer"] = "exited"]
                 \/ /\ pc' = [pc EXCEPT !["producer"] = "wait"]
                    /\ handle["producer"]["prod"] # None /\ names["cons"] # None
    BY DEF OpenSems, Goto, objects
  <1>2. Types /\ Kinds /\ k \in Names
    BY Ends DEF ExclusionInv
  <1>3. /\ \A o : Tokens(o)' = Tokens(o)
        /\ \A q \in Procs, n \in Names : q # "producer" \/ n # k => handle'[q][n] = handle[q][n]
        /\ handle'["producer"][k] = names[k]
        /\ ~Holds("producer")' /\ ~Holds("producer") /\ ~Active("producer")
        /\ Same("consumer")
    BY <1>1, <1>2, Ends DEF Types, Tokens, Holds, Active, Same
  <1>4. /\ pc'["producer"] \in {"open_cons", "exited", "wait"}
        /\ pc'["producer"] = "open_cons" => k = "prod"
        /\ Active("producer")' => /\ pc["producer"] = "open_cons" /\ k = "cons"
                                  /\ handle["producer"]["prod"] # None /\ names["cons"] # None
    BY <1>1, <1>2, Ends DEF Types, Holds, Active
  <1>5. Types'
    <2>1. pc' \in [Procs -> Steps] /\ pc'["producer"] \notin {"clear", "unlink_cons", "unlink_shm"}
      BY Zenon, <1>1, <1>2, <1>4, Ends DEF Types, Steps
    <2>2. handle' \in [Procs -> [Names -> 0 .. Len(value')]]
      BY <1>1, <1>2, Ends DEF Types
    <2>3. i["producer"] = 0 /\ handle["producer"]["shm"] # None
      BY <1>1, <1>2, Ends DEF Types, Ready
    <2>4. handle'["producer"]["shm"] = handle["producer"]["shm"]
      BY <1>3, Ends
    <2>5. Active("producer")' => \A n \in Names : handle'["producer"][n] # None
      BY <1>3, <1>4, <2>3, <2>4, Ends
    <2>6. Ready("producer")'
      BY <1>1, <1>4, <2>3, <2>4, <2>5 DEF Ready, SemaphoreConstants
    <2>7. \A q \in Procs : Ready(q)'
      BY Zenon, <1>2, <1>3, <2>6, Ends, ReadyKept DEF Types
    <2> QED BY <1>1, <1>2, <2>1, <2>2, <2>7 DEF Types
  <1>6. Kinds'
    <2>1. PICK fresh : \A n \in Names : fresh \notin Uses(n)
      <3>1. \A n \in Names : Len(value) + 1 \notin Uses(n)
        BY <1>2 DEF Types, Uses
      <3> QED BY <3>1
    <2>2. \A n \in Names : Uses(n)' \subseteq Uses(n) \cup {None}
      BY <1>1, <1>3 DEF Uses
    <2> QED BY <1>2, <2>1, <2>2, Ends, KindsKept
  <1>7. Counts'
    BY <1>1, <1>3, Ends DEF ExclusionInv, Counts, Same
  <1>8. ConsumerOwns'
    BY <1>1, <1>3, Ends DEF ExclusionInv, ConsumerOwns, Same
  <1>9. NothingPosted'
    BY <1>1, <1>3, <1>4, Ends DEF ExclusionInv, NothingPosted, LeftBehind, Same
  <1>10. Paired'
    BY <1>1, <1>3, <1>4, Ends DEF Paired
  <1>11. OneToken'
    <2>1. (Holds("consumer")' => Holds("consumer")) /\ (ProducerHolds' => ProducerHolds)
      BY <1>3 DEF ProducerHolds, Same
    <2>2. Tokens(names["prod"])' = Tokens(names["prod"]) /\ Tokens(names["cons"])' = Tokens(names["cons"])
      BY <1>1, <1>3
    <2> QED BY SMTT(30), <1>2, <2>1, <2>2, Ends, TokenType DEF ExclusionInv, OneToken
  <1>12. OldTokens'
    <2>1. /\ Tokens(names["prod"]) \in Int /\ Tokens(names["cons"]) \in Int
          /\ Tokens(names["prod"]) >= 0 /\ Tokens(names["cons"]) >= 0
          /\ Tokens(names["prod"]) <= 1 /\ Tokens(names["cons"]) <= 1
          /\ Tokens(handle["producer"]["prod"]) \in Int
      BY <1>2, Ends, TokenType DEF ExclusionInv, Counts, OneToken
    <2>2. pc'["producer"] = "open_cons" => Tokens(handle["producer"]["prod"])' <= 1
      BY <1>1, <1>3, <1>4, <2>1
    <2>3. ASSUME Active("producer")'
          PROVE  Tokens(handle["producer"]["prod"])' + Tokens(handle["producer"]["cons"])' <= 2
      <3>1. /\ handle'["producer"]["prod"] = handle["producer"]["prod"]
            /\ handle'["producer"]["cons"] = names["cons"] /\ Tokens(handle["producer"]["prod"]) <= 1
        BY <1>3, <1>4, <2>3, Ends DEF ExclusionInv, OldTokens
      <3> QED BY <1>3, <2>1, <3>1
    <2>4. Tokens(handle["producer"]["prod"])' \in Int /\ Tokens(handle["producer"]["cons"])' \in Int
      BY SMTT(30), <1>1, <1>2, <1>3, <2>1, Ends, TokenType
    <2> QED BY <1>3, <2>2, <2>3, <2>4 DEF OldTokens
  <1>13. NoRoomNoToken'
    BY <1>1, <1>3, Ends DEF ExclusionInv, NoRoomNoToken
  <1> QED BY <1>5, <1>6, <1>7, <1>8, <1>9, <1>10, <1>11, <1>12, <1>13 DEF ExclusionInv

\* What a store into an object does.
LEMMA Stored ==
    ASSUME SemaphoreConstants, Types, NEW s \in 0 .. Len(value), s # None,
           NEW v \in Empty .. Messages, value' = [value EXCEPT ![s] = v]
    PROVE  /\ value' \in Seq(Empty .. Messages) /\ Len(value') = Len(value)
           /\ Tokens(s)' = v
           /\ \A o \in 0 .. Len(value) : o # s => Tokens(o)' = Tokens(o)
  <1>1. value \in Seq(Empty .. Messages) /\ s \in 1 .. Len(value)
    BY DEF Types, None
  <1>2. value' \in Seq(Empty .. Messages) /\ Len(value') = Len(value)
    BY <1>1
  <1>3. value'[s] = v /\ \A o \in 1 .. Len(value) : o # s => value'[o] = value[o]
    BY <1>1
  <1>4. \A o \in 0 .. Len(value) : o # s => Tokens(o)' = Tokens(o)
    BY <1>3 DEF Tokens, None
  <1> QED BY <1>2, <1>3, <1>4 DEF Tokens

\* A step that opens and unlinks nothing keeps the types and kinds, if it leaves its process ready.
LEMMA SameTypes ==
    ASSUME SemaphoreConstants, Types, Kinds, NEW p \in Procs, NEW s \in Steps,
           value' \in Seq(Empty .. Messages) /\ Len(value') = Len(value),
           names' = names, handle' = handle, i' \in [Procs -> 0 .. Messages],
           \A q \in Procs : q # p => i'[q] = i[q],
           pc' = [pc EXCEPT ![p] = s], p = "producer" => s \notin {"clear", "unlink_cons", "unlink_shm"},
           Ready(p)'
    PROVE  Types' /\ Kinds' /\ \A q \in Procs : q # p => Same(q)
  <1>1. pc' \in [Procs -> Steps] /\ pc'["producer"] \notin {"clear", "unlink_cons", "unlink_shm"}
    BY SMTT(30), Ends DEF Types
  <1>2. \A q \in Procs : q # p => Same(q)
    BY DEF Same, Types, Active, Holds
  <1>3. \A q \in Procs : Ready(q)'
    BY Zenon, <1>2, ReadyKept DEF Types
  <1>4. Kinds'
    <2>1. \A n \in Names : Uses(n)' = Uses(n)
      BY DEF Uses
    <2> QED BY <2>1 DEF Kinds
  <1> QED BY <1>1, <1>2, <1>3, <1>4 DEF Types

\* Different kinds are different objects.
LEMMA KindsDiffer ==
    ASSUME Kinds, NEW m \in Names, NEW n \in Names, m # n
    PROVE  /\ names[m] # None => names[m] # names[n] /\ \A q \in Procs : names[m] # handle[q][n]
           /\ \A p \in Procs : handle[p][m] # None =>
                handle[p][m] # names[n] /\ \A q \in Procs : handle[p][m] # handle[q][n]
  <1>1. Uses(m) \cap Uses(n) \subseteq {None}
    BY DEF Kinds
  <1>2. /\ names[m] \in Uses(m) /\ names[n] \in Uses(n)
        /\ \A p \in Procs : handle[p][m] \in Uses(m) /\ handle[p][n] \in Uses(n)
    BY DEF Uses
  <1> QED BY <1>1, <1>2

\* The work on the memory leaves the semaphores alone.
LEMMA WorkKeeps ==
    ASSUME SemaphoreConstants, ExclusionInv, NEW p \in Procs, Work(p) \/ (p = "consumer" /\ Clear)
    PROVE  ExclusionInv'
  <1>1. PICK s \in {"clear", "post"} :
        /\ names' = names /\ handle' = handle /\ i' = i
        /\ pc[p] \in {"work", "clear"} /\ pc' = [pc EXCEPT ![p] = s] /\ (p = "producer" => s = "post")
        /\ value' = value \/ \E v \in {Empty, i[p]} : value' = [value EXCEPT ![handle[p]["shm"]] = v]
    BY DEF Work, Clear, Goto
  <1>2. /\ Types /\ Kinds /\ Active(p) /\ Holds(p) /\ s \in Steps /\ Ready(p)
        /\ pc'[p] = s /\ Active(p)' /\ Holds(p)'
    BY <1>1 DEF ExclusionInv, Active, Holds, Steps, Types
  <1>3. Ready(p)'
    BY <1>1, <1>2 DEF Ready
  <1>4. /\ handle[p]["shm"] # None /\ handle[p]["shm"] \in 0 .. Len(value)
        /\ \A v \in {Empty, i[p]} : v \in Empty .. Messages
    BY <1>2, Ends DEF Types, Ready, SemaphoreConstants, Empty
  <1>5. /\ value' \in Seq(Empty .. Messages) /\ Len(value') = Len(value)
        /\ \A o \in 0 .. Len(value) : o # handle[p]["shm"] => Tokens(o)' = Tokens(o)
    <2>1. CASE value' = value
      BY <1>2, <2>1 DEF Types, Tokens
    <2>2. CASE \E v \in {Empty, i[p]} : value' = [value EXCEPT ![handle[p]["shm"]] = v]
      BY Zenon, <1>2, <1>4, <2>2, Stored
    <2> QED BY <1>1, <2>1, <2>2
  <1>6. Types' /\ Kinds' /\ \A q \in Procs : q # p => Same(q)
    BY Zenon, <1>1, <1>2, <1>3, <1>5, SameTypes DEF Types
  <1>7. \A n \in {"prod", "cons"} : /\ Tokens(names[n])' = Tokens(names[n])
                                    /\ \A q \in Procs : Tokens(handle[q][n])' = Tokens(handle[q][n])
    <2>1. \A n \in {"prod", "cons"} : /\ names[n] # handle[p]["shm"]
                                      /\ \A q \in Procs : handle[q][n] # handle[p]["shm"]
      BY <1>2, <1>4, Ends, KindsDiffer
    <2> QED BY Zenon, <1>1, <1>2, <1>5, <2>1, Ends, TokenType
  <1>8. \A q \in Procs : /\ Active(q)' = Active(q) /\ Holds(q)' = Holds(q)
                         /\ pc'[q] = pc[q] \/ (Active(q) /\ pc'[q] \in {"clear", "post"} /\ pc[q] \in {"work", "clear"})
    BY <1>1, <1>2, <1>6 DEF Same, Active, Holds
  <1>9. Counts'
    BY <1>1, <1>7, Ends DEF ExclusionInv, Counts
  <1>10. ConsumerOwns'
    BY <1>1, <1>8, Ends DEF ExclusionInv, ConsumerOwns
  <1>11. NothingPosted' /\ Paired'
    BY <1>1, <1>7, <1>8, Ends DEF ExclusionInv, NothingPosted, Paired, LeftBehind
  <1>12. OneToken'
    <2>1. Holds("consumer")' = Holds("consumer") /\ ProducerHolds' = ProducerHolds
      BY <1>1, <1>8, Ends DEF ProducerHolds
    <2>2. Tokens(names["prod"])' = Tokens(names["prod"]) /\ Tokens(names["cons"])' = Tokens(names["cons"])
      BY <1>7
    <2> QED BY <2>1, <2>2 DEF ExclusionInv, OneToken
  <1>13. NoRoomNoToken' /\ OldTokens'
    BY <1>1, <1>7, <1>8, Ends DEF ExclusionInv, NoRoomNoToken, OldTokens
  <1> QED BY <1>6, <1>9, <1>10, <1>11, <1>12, <1>13 DEF ExclusionInv

\* Passing a semaphore takes its token.
LEMMA WaitKeeps ==
    ASSUME SemaphoreConstants, ExclusionInv, NEW p \in Procs, sem_wait(p)
    PROVE  ExclusionInv'
  <1>0. PICK s : s = handle[p][Theirs(p)]
    OBVIOUS
  <1>1. /\ pc[p] = "wait" /\ pc' = [pc EXCEPT ![p] = "work"] /\ value[s] > 0
        /\ value' = [value EXCEPT ![s] = value[s] - 1]
        /\ names' = names /\ handle' = handle /\ i' = i
    BY <1>0 DEF sem_wait, Goto
  <1>2. /\ Types /\ Kinds /\ Ready(p) /\ pc'[p] = "work" /\ "work" \in Steps
        /\ Active(p) /\ ~Holds(p) /\ Active(p)' /\ Holds(p)'
    BY <1>1 DEF ExclusionInv, Types, Active, Holds, Steps
  <1>3. Theirs(p) \in Names /\ s # None /\ s \in 0 .. Len(value) /\ Tokens(s) = value[s] /\ Tokens(s) \in Int
    <2>1. Theirs(p) \in Names
      BY Ends DEF Theirs
    <2>2. s # None
      BY <1>0, <1>2, <2>1 DEF Ready
    <2> QED BY <1>0, <1>2, <2>1, <2>2, TokenType DEF Tokens
  <1>4. value[s] - 1 \in Empty .. Messages
    <2>1. s \in 1 .. Len(value) /\ value \in Seq(Empty .. Messages)
      BY <1>2, <1>3 DEF None, Types
    <2>2. value[s] \in Empty .. Messages
      BY <2>1 DEF Empty, SemaphoreConstants
    <2> QED BY <1>1, <2>2 DEF Empty, SemaphoreConstants
  <1>5. /\ value' \in Seq(Empty .. Messages) /\ Len(value') = Len(value)
        /\ Tokens(s)' = Tokens(s) - 1 /\ Tokens(s) > 0
        /\ \A o \in 0 .. Len(value) : o # s => Tokens(o)' = Tokens(o)
    BY Zenon, <1>1, <1>2, <1>3, <1>4, Stored
  <1>6. Types' /\ Kinds' /\ \A q \in Procs : q # p => Same(q)
    <2>1. Ready(p)'
      BY <1>1, <1>2 DEF Ready
    <2> QED BY Zenon, <1>1, <1>2, <1>5, <2>1, SameTypes DEF Types
  <1>7. \A o \in 0 .. Len(value) : Tokens(o) >= 0 => Tokens(o)' >= 0 /\ Tokens(o)' <= Tokens(o)
    BY <1>2, <1>3, <1>5, TokenType
  <1>8. Counts'
    BY Zenon, <1>1, <1>2, <1>7, Ends, TokenType DEF ExclusionInv, Counts
  <1>9. ConsumerOwns'
    BY <1>1, <1>2, <1>6, Ends DEF ExclusionInv, ConsumerOwns, Same
  <1>10. LeftBehind' = LeftBehind /\ (Active("producer")' = Active("producer"))
    BY <1>1, <1>2, <1>6, Ends DEF LeftBehind, Same, Active, Holds
  <1>11. Paired'
    BY <1>1, <1>10 DEF ExclusionInv, Paired
  <1>12. CASE p = "producer"
    <2>1. s = handle["producer"]["cons"] /\ Same("consumer")
      BY <1>6, <1>12, <1>0, Ends DEF Theirs
    <2>2. /\ Tokens(names["prod"])' = Tokens(names["prod"])
          /\ Tokens(handle["producer"]["prod"])' = Tokens(handle["producer"]["prod"])
          /\ Tokens(handle["producer"]["cons"])' = Tokens(handle["producer"]["cons"]) - 1
      <3>1. s # names["prod"] /\ s # handle["producer"]["prod"]
        BY <1>2, <1>3, <2>1, Ends, KindsDiffer
      <3> QED BY SMTT(30), <1>1, <1>2, <1>5, <2>1, <3>1, Ends, TokenType
    <2>3. NothingPosted'
      BY <1>10, <2>1, <2>2 DEF ExclusionInv, NothingPosted, Same
    <2>4. OneToken'
      <3>1. CASE s = names["cons"]
        <4>1. ProducerHolds' /\ ~ProducerHolds /\ Tokens(names["cons"])' = Tokens(names["cons"]) - 1
          BY <1>1, <1>2, <1>5, <1>12, <2>1, <3>1 DEF ProducerHolds
        <4> QED BY SMTT(30), <1>2, <2>1, <2>2, <4>1, Ends, TokenType DEF ExclusionInv, OneToken,
                   Same
      <3>2. CASE s # names["cons"]
        <4>1. ~ProducerHolds' /\ ~ProducerHolds /\ Tokens(names["cons"])' = Tokens(names["cons"])
          BY SMTT(30), <1>1, <1>2, <1>5, <1>12, <2>1, <3>2, Ends, TokenType DEF ProducerHolds
        <4> QED BY <1>2, <2>1, <2>2, <4>1, Ends, TokenType DEF ExclusionInv, OneToken, Same
      <3> QED BY <3>1, <3>2
    <2>5. NoRoomNoToken'
      BY <1>1, <2>2 DEF ExclusionInv, NoRoomNoToken
    <2>6. OldTokens'
      BY SMTT(30), <1>2, <1>12, <2>2, Ends, TokenType DEF ExclusionInv, OldTokens
    <2> QED BY <1>6, <1>8, <1>9, <1>11, <2>3, <2>4, <2>5, <2>6 DEF ExclusionInv
  <1>13. CASE p = "consumer"
    <2>1. s = names["prod"] /\ Same("producer")
      BY <1>2, <1>6, <1>13, <1>0, Ends DEF Theirs, ExclusionInv, ConsumerOwns
    <2>2. /\ Tokens(names["prod"])' = Tokens(names["prod"]) - 1
          /\ Tokens(names["cons"])' = Tokens(names["cons"])
          /\ Tokens(handle["producer"]["cons"])' = Tokens(handle["producer"]["cons"])
      <3>1. s # names["cons"] /\ s # handle["producer"]["cons"]
        BY <1>2, <1>3, <2>1, Ends, KindsDiffer
      <3> QED BY Zenon, <1>1, <1>2, <1>5, <2>1, <3>1, Ends, TokenType
    <2>3. ~LeftBehind
      BY <1>5, <2>1 DEF ExclusionInv, NothingPosted
    <2>4. NothingPosted'
      BY <1>10, <2>3 DEF NothingPosted
    <2>5. OneToken'
      <3>1. ProducerHolds' = ProducerHolds
        BY <1>1, <2>1 DEF ProducerHolds, Same
      <3> QED BY <1>2, <1>13, <2>2, <3>1, Ends, TokenType DEF ExclusionInv, OneToken
    <2>6. NoRoomNoToken'
      BY <1>1, <1>5, <2>1, <2>2 DEF ExclusionInv, NoRoomNoToken
    <2>7. Tokens(handle["producer"]["prod"])' <= Tokens(handle["producer"]["prod"])
          /\ Tokens(handle["producer"]["prod"])' \in Int
      <3>1. /\ handle["producer"]["prod"] \in 0 .. Len(value) /\ Tokens(handle["producer"]["prod"]) \in Int
            /\ Tokens(handle["producer"]["prod"]) >= 0
        BY <1>2, Ends, TokenType DEF ExclusionInv, Counts
      <3> QED BY <1>1, <1>5, <1>7, <3>1
    <2>8. OldTokens'
      BY SMTT(30), <1>2, <2>1, <2>2, <2>7, Ends, TokenType DEF ExclusionInv, OldTokens, Same
    <2> QED BY <1>6, <1>8, <1>9, <1>11, <2>4, <2>5, <2>6, <2>8 DEF ExclusionInv
  <1> QED BY <1>12, <1>13, Ends

\* Posting a semaphore puts the token there.
LEMMA PostKeeps ==
    ASSUME SemaphoreConstants, ExclusionInv, NEW p \in Procs, sem_post(p)
    PROVE  ExclusionInv'
  <1>0. PICK s : s = handle[p][Mine(p)]
    OBVIOUS
  <1>1. PICK t \in {"wait", "close"} :
        /\ pc[p] = "post" /\ pc' = [pc EXCEPT ![p] = t] /\ (t = "wait" => i[p] + 1 < Messages)
        /\ value' = [value EXCEPT ![s] = value[s] + 1]
        /\ names' = names /\ handle' = handle /\ i' = [i EXCEPT ![p] = i[p] + 1]
    BY Zenon, <1>0 DEF sem_post, Goto
  <1>2. /\ Types /\ Kinds /\ Ready(p) /\ pc'[p] = t /\ t \in Steps
        /\ Active(p) /\ Holds(p) /\ ~Holds(p)' /\ (Active(p)' => t = "wait")
    BY <1>1 DEF ExclusionInv, Types, Active, Holds, Steps
  <1>3. Mine(p) \in Names /\ s # None /\ s \in 0 .. Len(value) /\ Tokens(s) = value[s] /\ Tokens(s) \in Int
    <2>1. Mine(p) \in Names
      BY Ends DEF Mine
    <2>2. s # None
      BY <1>0, <1>2, <2>1 DEF Ready
    <2> QED BY <1>0, <1>2, <2>1, <2>2, TokenType DEF Tokens
  <1>4. Tokens(s) >= 0 /\ Tokens(s) <= 1
    <2>1. /\ Tokens(names["prod"]) \in Int /\ Tokens(names["prod"]) >= 0
          /\ Tokens(names["cons"]) \in Int /\ Tokens(names["cons"]) >= 0
          /\ Tokens(handle["producer"]["prod"]) \in Int /\ Tokens(handle["producer"]["prod"]) >= 0
          /\ Tokens(handle["producer"]["cons"]) \in Int /\ Tokens(handle["producer"]["cons"]) >= 0
      BY <1>2, Ends, TokenType DEF ExclusionInv, Counts
    <2>2. CASE p = "producer"
      <3>1. s = handle["producer"]["prod"]
        BY <1>0, <2>2 DEF Mine
      <3> QED BY <1>2, <2>1, <2>2, <3>1 DEF ExclusionInv, OldTokens
    <2>3. CASE p = "consumer"
      <3>1. s = names["cons"]
        BY <1>0, <1>2, <2>3 DEF Mine, ExclusionInv, ConsumerOwns
      <3> QED BY <1>2, <2>1, <2>3, <3>1 DEF ExclusionInv, OneToken
    <2> QED BY <2>2, <2>3, Ends
  <1>5. /\ value' \in Seq(Empty .. Messages) /\ Len(value') = Len(value)
        /\ Tokens(s)' = Tokens(s) + 1
        /\ \A o \in 0 .. Len(value) : o # s => Tokens(o)' = Tokens(o)
    <2>1. value[s] + 1 \in Empty .. Messages
      BY <1>3, <1>4 DEF Empty, SemaphoreConstants
    <2> QED BY Zenon, <1>1, <1>2, <1>3, <2>1, Stored
  <1>6. /\ Types' /\ Kinds' /\ \A q \in Procs : q # p => Same(q)
    <2>1. i[p] \in 0 .. Messages /\ i[p] < Messages
      BY <1>2 DEF Types, Ready
    <2>2. i[p] + 1 \in 0 .. Messages
      BY <2>1 DEF SemaphoreConstants
    <2>3. i' \in [Procs -> 0 .. Messages] /\ i'[p] = i[p] + 1 /\ \A q \in Procs : q # p => i'[q] = i[q]
      BY <1>1, <1>2, <2>2 DEF Types
    <2>4. Ready(p)'
      BY <1>1, <1>2, <2>3 DEF Ready
    <2> QED BY Zenon, <1>1, <1>2, <1>5, <2>3, <2>4, SameTypes
  <1>7. \A o \in 0 .. Len(value) : Tokens(o) >= 0 => Tokens(o)' >= 0
    BY SMTT(30), <1>2, <1>3, <1>5, TokenType
  <1>8. Counts'
    BY SMTT(30), <1>1, <1>2, <1>7, Ends, TokenType DEF ExclusionInv, Counts
  <1>9. ConsumerOwns'
    BY <1>1, <1>2, <1>6, Ends DEF ExclusionInv, ConsumerOwns, Same
  <1>10. (LeftBehind' => LeftBehind) /\ (Active("producer")' /\ LeftBehind => LeftBehind')
         /\ (Active("producer")' => Active("producer"))
    BY <1>1, <1>2, <1>6, Ends DEF LeftBehind, Same
  <1>11. Paired'
    BY <1>1, <1>10 DEF ExclusionInv, Paired
  <1>12. CASE p = "producer"
    <2>1. s = handle["producer"]["prod"] /\ Same("consumer")
      BY <1>0, <1>6, <1>12, Ends DEF Mine
    <2>2. /\ Tokens(names["cons"])' = Tokens(names["cons"])
          /\ Tokens(handle["producer"]["cons"])' = Tokens(handle["producer"]["cons"])
          /\ Tokens(handle["producer"]["prod"])' = Tokens(handle["producer"]["prod"]) + 1
      <3>1. s # names["cons"] /\ s # handle["producer"]["cons"]
        BY <1>2, <1>3, <2>1, Ends, KindsDiffer
      <3> QED BY Zenon, <1>1, <1>2, <1>5, <2>1, <3>1, Ends, TokenType
    <2>3. NothingPosted' /\ OneToken' /\ NoRoomNoToken'
      <3>1. ~ProducerHolds' /\ Holds("consumer")' = Holds("consumer")
        BY <1>2, <1>12, <2>1 DEF ProducerHolds, Same
      <3>2. CASE LeftBehind
        <4>1. Tokens(names["prod"])' = Tokens(names["prod"])
          BY SMTT(30), <1>1, <1>2, <1>5, <2>1, <3>2, Ends, TokenType DEF LeftBehind
        <4>2. NothingPosted' /\ NoRoomNoToken'
          BY <1>1, <3>1, <3>2, <4>1 DEF ExclusionInv, NothingPosted, NoRoomNoToken
        <4> QED BY SMTT(30), <1>2, <2>2, <3>1, <4>1, <4>2, Ends, TokenType DEF ExclusionInv,
                   OneToken
      <3>3. CASE ~LeftBehind
        <4>1. /\ names["prod"] = handle["producer"]["prod"] /\ ProducerHolds
              /\ names["cons"] = handle["producer"]["cons"] /\ names["cons"] # None
          BY <1>2, <1>12, <3>3, Ends DEF LeftBehind, ExclusionInv, Paired, ProducerHolds, Ready
        <4>2. Tokens(names["prod"])' = Tokens(names["prod"]) + 1
          BY <1>1, <2>2, <4>1
        <4>3. NothingPosted' /\ NoRoomNoToken'
          BY <1>1, <1>10, <3>3, <4>1 DEF NothingPosted, NoRoomNoToken
        <4> QED BY <1>2, <2>2, <3>1, <4>1, <4>2, <4>3, Ends, TokenType DEF ExclusionInv, OneToken
      <3> QED BY <3>2, <3>3
    <2>4. OldTokens'
      BY SMTT(30), <1>2, <1>12, <2>2, Ends, TokenType DEF ExclusionInv, OldTokens
    <2> QED BY <1>6, <1>8, <1>9, <1>11, <2>3, <2>4 DEF ExclusionInv
  <1>13. CASE p = "consumer"
    <2>1. s = names["cons"] /\ Same("producer") /\ ~LeftBehind
      BY <1>0, <1>2, <1>6, <1>13, Ends DEF Mine, ExclusionInv, ConsumerOwns, NothingPosted
    <2>2. /\ Tokens(names["cons"])' = Tokens(names["cons"]) + 1
          /\ Tokens(names["prod"])' = Tokens(names["prod"])
          /\ Tokens(handle["producer"]["prod"])' = Tokens(handle["producer"]["prod"])
      <3>1. s # names["prod"] /\ s # handle["producer"]["prod"]
        BY <1>2, <1>3, <2>1, Ends, KindsDiffer
      <3> QED BY Zenon, <1>1, <1>2, <1>5, <2>1, <3>1, Ends, TokenType
    <2>3. NothingPosted' /\ NoRoomNoToken'
      BY <1>1, <1>3, <1>10, <2>1 DEF NothingPosted, NoRoomNoToken
    <2>4. OneToken'
      <3>1. ProducerHolds' = ProducerHolds
        BY <1>1, <2>1 DEF ProducerHolds, Same
      <3> QED BY <1>2, <1>13, <2>2, <3>1, Ends, TokenType DEF ExclusionInv, OneToken
    <2>5. OldTokens'
      <3>1. pc'["producer"] = "open_cons" => Tokens(handle["producer"]["prod"])' <= 1
        BY <2>1, <2>2 DEF Same, ExclusionInv, OldTokens
      <3>2. ASSUME Active("producer")'
            PROVE  Tokens(handle["producer"]["prod"])' + Tokens(handle["producer"]["cons"])'
                     + (IF Holds("producer")' THEN 1 ELSE 0) <= 2
        <4>1. /\ names["prod"] = handle["producer"]["prod"] /\ names["cons"] = handle["producer"]["cons"]
              /\ Holds("producer")' => ProducerHolds'
          BY SMTT(30), <1>1, <1>10, <2>1, <3>2 DEF LeftBehind, ExclusionInv, Paired,
             ProducerHolds, Same
        <4>2. /\ Tokens(handle["producer"]["prod"])' = Tokens(names["prod"])'
              /\ Tokens(handle["producer"]["cons"])' = Tokens(names["cons"])'
              /\ Tokens(names["cons"])' \in Int /\ Tokens(names["prod"])' \in Int
          BY <1>1, <1>2, <2>2, <4>1, Ends, TokenType
        <4> QED BY <1>2, <1>13, <2>4, <4>1, <4>2 DEF OneToken
      <3> QED BY <3>1, <3>2 DEF OldTokens
    <2> QED BY <1>6, <1>8, <1>9, <1>11, <2>3, <2>4, <2>5 DEF ExclusionInv
  <1> QED BY <1>12, <1>13, Ends

\* The end of a process: the names go, one by one, and what was opened stays open.
LEMMA CloseKeeps ==
    ASSUME SemaphoreConstants, ExclusionInv, NEW p \in Procs, CloseUp(p)
    PROVE  ExclusionInv'
  <1>1. PICK t \in {"unlink_cons", "unlink_shm", "done"} :
        /\ value' = value /\ handle' = handle /\ i' = i /\ pc' = [pc EXCEPT ![p] = t]
        /\ \/ p = "producer" /\ pc[p] = "close" /\ t = "done" /\ names' = names
           \/ /\ p = "consumer"
              /\ \/ /\ pc[p] = "close" /\ t = "unlink_cons" /\ names' = [names EXCEPT !["prod"] = None]
                 \/ /\ pc[p] = "unlink_cons" /\ t = "unlink_shm" /\ names' = [names EXCEPT !["cons"] = None]
                 \/ /\ pc[p] = "unlink_shm" /\ t = "done" /\ names' = [names EXCEPT !["shm"] = None]
    <2>1. CASE p = "producer"
      BY <2>1 DEF CloseUp, Goto
    <2>2. CASE p = "consumer"
      BY <2>2 DEF CloseUp, Goto
    <2> QED BY <2>1, <2>2, Ends
  <1>2. /\ Types /\ Kinds /\ pc'[p] = t /\ ~Active(p) /\ ~Active(p)' /\ ~Holds(p) /\ ~Holds(p)'
        /\ \A q \in Procs : q # p => Same(q)
        /\ \A o : Tokens(o)' = Tokens(o)
    BY <1>1 DEF ExclusionInv, Types, Active, Holds, Same, Tokens
  <1>3. /\ names' \in [Names -> 0 .. Len(value)] /\ \A n \in Names : names'[n] \in {None, names[n]}
    <2>1. None \in 0 .. Len(value) /\ names \in [Names -> 0 .. Len(value)]
      BY <1>2 DEF Types, None
    <2> QED BY <1>1, <2>1
  <1>4. Types'
    <2>1. pc' \in [Procs -> Steps] /\ pc'["producer"] \notin {"clear", "unlink_cons", "unlink_shm"}
      BY <1>1, <1>2, Ends DEF Types, Steps
    <2>2. Ready(p)'
      BY <1>2 DEF Ready
    <2> QED BY Zenon, <1>1, <1>2, <1>3, <2>1, <2>2, ReadyKept DEF Types
  <1>5. Kinds'
    <2>1. PICK fresh : \A n \in Names : fresh \notin Uses(n)
      <3>1. \A n \in Names : Len(value) + 1 \notin Uses(n)
        BY <1>2 DEF Types, Uses
      <3> QED BY <3>1
    <2>2. \A n \in Names : Uses(n)' \subseteq Uses(n) \cup {None}
      BY <1>1, <1>3 DEF Uses
    <2> QED BY <1>2, <2>1, <2>2, Ends, KindsKept
  <1>6. /\ Tokens(None) = 0 /\ \A q \in Procs, n \in Names : Tokens(handle[q][n])' = Tokens(handle[q][n])
        /\ \A n \in Names : \/ names'[n] = names[n] /\ Tokens(names[n])' = Tokens(names[n])
                            \/ names'[n] = None /\ Tokens(names[n])' = 0
    BY <1>1, <1>2, <1>3 DEF Tokens, None
  <1>7. Counts'
    BY SMTT(30), <1>6, Ends DEF ExclusionInv, Counts
  <1>8. ConsumerOwns'
    BY <1>1, <1>2, Ends DEF ExclusionInv, ConsumerOwns, Types, Same
  <1>9. NothingPosted'
    BY SMTT(30), <1>1, <1>2, <1>6, Ends DEF ExclusionInv, NothingPosted, LeftBehind, Types, Same
  <1>10. Paired'
    <2>1. CASE p = "producer"
      BY <1>2, <2>1 DEF Paired
    <2>2. CASE p = "consumer"
      <3> SUFFICES ASSUME Active("producer"), handle["producer"]["prod"] = names'["prod"]
                   PROVE  handle["producer"]["cons"] = names'["cons"]
        BY <1>1, <1>2, <2>2, Ends DEF Paired, LeftBehind, Same
      <3>1. handle["producer"]["prod"] # None /\ names'["prod"] = names["prod"] /\ names["prod"] # None
        BY <1>2, <1>3, Ends DEF Types, Ready
      <3>2. pc[p] = "unlink_shm" /\ names' = [names EXCEPT !["shm"] = None]
        BY <1>1, <1>2, <2>2, <3>1, Ends DEF ExclusionInv, ConsumerOwns, Types
      <3>3. names["prod"] = None
        BY <2>2, <3>2 DEF ExclusionInv, ConsumerOwns
      <3> QED BY <3>1, <3>3
    <2> QED BY <2>1, <2>2, Ends
  <1>11. OneToken'
    <2>1. /\ Tokens(names["prod"])' \in {0, Tokens(names["prod"])}
          /\ Tokens(names["cons"])' \in {0, Tokens(names["cons"])}
          /\ Tokens(names["prod"]) \in Int /\ Tokens(names["prod"]) >= 0
          /\ Tokens(names["cons"]) \in Int /\ Tokens(names["cons"]) >= 0
      BY SMTT(30), <1>2, <1>6, Ends, TokenType DEF ExclusionInv, Counts
    <2>2. Holds("consumer")' => Holds("consumer")
      BY <1>2, Ends DEF Same
    <2>3. ProducerHolds' => ProducerHolds
      <3>1. ProducerHolds' => Holds("producer") /\ Active("producer") /\ handle["producer"]["cons"] # None
        BY <1>1, <1>2, Ends DEF ProducerHolds, Same, Types, Ready, Active
      <3> QED BY <1>1, <1>3, <3>1, Ends DEF ProducerHolds
    <2> QED BY SMTT(30), <2>1, <2>2, <2>3 DEF ExclusionInv, OneToken
  <1>12. NoRoomNoToken'
    <2> SUFFICES ASSUME names'["cons"] = None
                 PROVE  Tokens(names["prod"])' = 0
      BY DEF NoRoomNoToken
    <2>1. CASE names["cons"] = None
      BY <1>6, <2>1, Ends DEF ExclusionInv, NoRoomNoToken
    <2>2. CASE names["cons"] # None
      <3>1. names["prod"] = None
        BY <1>1, <1>2, <2>2, Ends DEF Types, ExclusionInv, ConsumerOwns
      <3> QED BY <1>6, <3>1, Ends
    <2> QED BY <2>1, <2>2
  <1>13. OldTokens'
    BY <1>1, <1>2, <1>6, Ends DEF ExclusionInv, OldTokens, Same
  <1> QED BY <1>4, <1>5, <1>7, <1>8, <1>9, <1>10, <1>11, <1>12, <1>13 DEF ExclusionInv

\* Every step keeps it.
LEMMA ExclusionStep == SemaphoreConstants /\ ExclusionInv /\ [Next]_vars => ExclusionInv'
  <1> SUFFICES ASSUME SemaphoreConstants, ExclusionInv, [Next]_vars
               PROVE  ExclusionInv'
    OBVIOUS
  <1>1. CASE UNCHANGED vars
    <2>1. /\ names' = names /\ value' = value /\ handle' = handle /\ pc' = pc /\ i' = i
      BY <1>1 DEF vars, objects
    <2>2. /\ \A o : Tokens(o)' = Tokens(o)
          /\ \A q : /\ Holds(q)' = Holds(q) /\ Active(q)' = Active(q)
      BY <2>1 DEF Tokens, Holds, Active
    <2>3. (\A n : Uses(n)' = Uses(n)) /\ LeftBehind' = LeftBehind /\ ProducerHolds' = ProducerHolds
      BY <2>1, <2>2 DEF Uses, LeftBehind, ProducerHolds
    <2>4. Types' /\ Kinds' /\ Counts' /\ ConsumerOwns'
      BY <2>1, <2>2, <2>3 DEF ExclusionInv, Types, Ready, Kinds, Counts, ConsumerOwns
    <2> QED BY <2>1, <2>2, <2>3, <2>4 DEF ExclusionInv, NothingPosted, Paired, OneToken,
               NoRoomNoToken, OldTokens
  <1>2. ASSUME NEW p \in Procs, Start(p) \/ Run(p) \/ Crash(p)
        PROVE  ExclusionInv'
    <2>1. ASSUME p = "consumer", CreateSems
          PROVE  ExclusionInv'
      BY <2>1, ProdKeeps, ConsKeeps DEF CreateSems
    <2> QED BY <1>2, <2>1, StopKeeps, ShmKeeps, WaitKeeps, WorkKeeps, PostKeeps, CloseKeeps,
               OpenKeeps DEF Run
  <1> QED BY <1>1, <1>2 DEF Next

\* The token excludes: one that both need cannot be in the hands of both.
LEMMA ExclusionGives == SemaphoreConstants /\ ExclusionInv => TypeOK /\ Exclusive
  <1> SUFFICES ASSUME SemaphoreConstants, ExclusionInv
               PROVE  TypeOK /\ Exclusive
    OBVIOUS
  <1>1. TypeOK
    <2>1. Types
      BY DEF ExclusionInv
    <2>2. \A o \in DOMAIN value : value[o] \in Empty .. Messages
      BY <2>1 DEF Types, Empty, SemaphoreConstants
    <2>3. \A p \in Procs : pc[p] = "wait" => \A n \in Names : handle[p][n] # None
      BY <2>1 DEF Types, Ready, Active
    <2> QED BY <2>1, <2>2, <2>3 DEF Types, TypeOK
  <1>2. ASSUME pc["producer"] = "work", pc["consumer"] \in {"work", "clear"}
        PROVE  FALSE
    <2>1. Holds("producer") /\ Active("producer") /\ Holds("consumer")
      BY <1>2 DEF Holds, Active
    <2>2. ~LeftBehind
      BY <2>1 DEF ExclusionInv, NothingPosted
    <2>3. ProducerHolds
      BY <2>1, <2>2 DEF ExclusionInv, Paired, ProducerHolds
    <2>4. /\ Tokens(names["prod"]) \in Int /\ Tokens(names["prod"]) >= 0
          /\ Tokens(names["cons"]) \in Int /\ Tokens(names["cons"]) >= 0
      BY Ends, TokenType DEF ExclusionInv, Counts
    <2> QED BY <2>1, <2>3, <2>4 DEF ExclusionInv, OneToken
  <1> QED BY <1>1, <1>2 DEF Exclusive

\* At the start nothing has happened.
LEMMA OrderStart == SemaphoreConstants /\ Init => OrderInv
  <1> SUFFICES ASSUME SemaphoreConstants, Init
               PROVE  OrderInv
    OBVIOUS
  <1>1. /\ \A p \in Procs : pc[p] = "exited" /\ ~Ran(p) /\ ~Active(p) /\ ~Holds(p) /\ i[p] = 0
        /\ \A n \in Names : names[n] = None
        /\ got = <<>> /\ got \in Seq(Int) /\ Len(got) = 0 /\ crashes = 0
    BY DEF Init, Ran, Active, Holds
  <1> QED BY <1>1, Ends DEF OrderInv, Orderly, OneRun, SameObjects, InTurn, Progress

\* A process that is started for the first time, or a producer that has found nothing.
LEMMA StartOrder ==
    ASSUME SemaphoreConstants, ExclusionInv, Orderly, NEW p \in Procs, Start(p), pc[p] = "exited"
    PROVE  Orderly'
  <1>1. /\ pc' = [pc EXCEPT ![p] = "open_shm"] /\ names' = names /\ value' = value
        /\ handle' = [handle EXCEPT ![p] = [n \in Names |-> None]] /\ i' = [i EXCEPT ![p] = 0]
        /\ got' = IF p = "consumer" THEN <<>> ELSE got
    BY DEF Start, objects
  <1>2. Types
    BY DEF ExclusionInv
  <1>3. /\ pc'[p] = "open_shm" /\ i'[p] = 0 /\ ~Ran(p) /\ ~Ran(p)' /\ ~Active(p)' /\ ~Holds(p)'
        /\ \A q \in Procs : q # p => Same(q) /\ Ran(q)' = Ran(q)
        /\ \A o : Tokens(o)' = Tokens(o)
        /\ ~Holds(p)
    BY <1>1, <1>2 DEF Types, Active, Holds, Tokens, Same, Ran
  <1>4. CASE p = "consumer"
    <2>1. OneRun' /\ SameObjects'
      BY <1>1, <1>3, <1>4, Ends DEF Orderly, OneRun, SameObjects, Same
    <2>2. InTurn' /\ Progress'
      BY <1>1, <1>3, <1>4, Ends DEF Orderly, SameObjects, InTurn, Progress, Same
    <2> QED BY <2>1, <2>2 DEF Orderly
  <1>5. CASE p = "producer"
    <2>1. OneRun' /\ SameObjects'
      BY <1>1, <1>3, <1>5, Ends DEF Orderly, OneRun, SameObjects, Same
    <2>2. i' = i
      BY <1>1, <1>2, <1>3, <1>5, Ends DEF Orderly, SameObjects, Types
    <2>3. Prod' = Prod /\ Cons' = Cons
          /\ Tokens(handle["consumer"]["shm"])' = Tokens(handle["consumer"]["shm"])
      BY <1>3, <1>5, Ends DEF Prod, Cons, Same
    <2>4. InTurn'
      BY <1>3, <1>5, <2>2, <2>3, Ends DEF Orderly, InTurn, Same
    <2>5. Progress'
      BY <1>1, <1>3, <1>5, <2>2, Ends DEF Orderly, Progress, Same
    <2> QED BY SMTT(30), <2>1, <2>4, <2>5 DEF Orderly
  <1> QED BY <1>4, <1>5, Ends

\* A step that leaves the counts, the tokens and the holders of a running pair alone
\* keeps the turns.
Quiet == /\ Ran("consumer")' = Ran("consumer") /\ i' = i /\ got' = got
         /\ \A q \in Procs : /\ Ran(q)' => Ran(q)
                             /\ Holds(q)' = Holds(q) /\ (Active(q) => Active(q)')
                             /\ Holds(q) => pc'[q] = pc[q]
         /\ Ran("consumer") => \A n \in Names : Tokens(handle["consumer"][n])' = Tokens(handle["consumer"][n])

\* Whose turn it is and how far they are does not depend on anything else.
LEMMA QuietKeeps ==
    ASSUME InTurn, Progress, Quiet
    PROVE  InTurn' /\ Progress'
  <1>1. \A q \in Procs : pc'[q] \in {"work", "clear", "post"} \/ pc[q] \in {"work", "clear", "post"} =>
                           pc'[q] = pc[q]
    BY DEF Quiet, Holds
  <1>2. InTurn'
    <2>1. Ran("consumer") => /\ Prod' = Prod /\ Cons' = Cons
                             /\ Tokens(handle["consumer"]["shm"])' = Tokens(handle["consumer"]["shm"])
      BY SMTT(30), Ends DEF Quiet, Prod, Cons
    <2> QED BY <1>1, <2>1, Ends DEF Quiet, InTurn
  <1>3. Progress'
    BY <1>1, Ends DEF Quiet, Progress
  <1> QED BY <1>2, <1>3

\* Opening the memory.
LEMMA ShmOrder ==
    ASSUME SemaphoreConstants, ExclusionInv, Orderly, NEW p \in Procs, open_shm(p)
    PROVE  Orderly'
  <1>1. /\ pc[p] = "open_shm" /\ pc' = [pc EXCEPT ![p] = "open_prod"] /\ Create(p, "shm", Empty)
        /\ got' = got
    BY DEF open_shm, Goto, Create
  <1>2. Types /\ Empty \in Empty .. Messages
    BY DEF ExclusionInv, SemaphoreConstants, Empty
  <1>3. Opened(p, "shm", Empty)
    BY <1>1, <1>2, Ends, CreateEffect
  <1>4. /\ i' = i /\ names'["shm"] # None /\ handle'[p]["shm"] = names'["shm"]
        /\ names["shm"] # None => names'["shm"] = names["shm"]
        /\ names'["prod"] = names["prod"] /\ names'["cons"] = names["cons"]
        /\ \A q \in Procs : handle'[q]["prod"] = handle[q]["prod"] /\ handle'[q]["cons"] = handle[q]["cons"]
        /\ \A q \in Procs : q # p => handle'[q]["shm"] = handle[q]["shm"]
    BY <1>3, Ends DEF Opened
  <1>5. /\ pc'[p] = "open_prod" /\ ~Ran(p) /\ ~Ran(p)' /\ ~Active(p) /\ ~Active(p)' /\ ~Holds(p) /\ ~Holds(p)'
        /\ \A q \in Procs : q # p => /\ pc'[q] = pc[q] /\ Active(q)' = Active(q) /\ Holds(q)' = Holds(q)
                                     /\ Ran(q)' = Ran(q)
    BY <1>1, <1>2 DEF Types, Active, Holds, Ran
  <1>6. \A q \in Procs, n \in Names : handle[q][n] \in 0 .. Len(value) /\ Tokens(handle[q][n]) \in Int
    BY <1>2, TokenType
  <1>7. InTurn' /\ Progress'
    <2>1. Ran("consumer") => p # "consumer"
      BY <1>5
    <2>2. Ran("consumer") => \A n \in Names : Tokens(handle["consumer"][n])' = Tokens(handle["consumer"][n])
      BY Zenon, <1>3, <1>6, <2>1, Ends DEF Opened
    <2>3. Quiet
      BY <1>1, <1>4, <1>5, <2>2, Ends DEF Quiet, Ran, Active, Holds
    <2> QED BY <2>3, QuietKeeps DEF Orderly
  <1>8. OneRun'
    <2>1. CASE p = "consumer"
      BY <1>1, <1>4, <1>5, <2>1, Ends DEF Orderly, OneRun
    <2>2. CASE p = "producer"
      BY <1>1, <1>4, <1>5, <2>2, Ends DEF Orderly, OneRun
    <2> QED BY <2>1, <2>2, Ends
  <1>9. SameObjects'
    <2>1. CASE p = "consumer"
      <3>1. ASSUME pc["producer"] \notin {"exited", "open_shm"}
            PROVE  handle["producer"]["shm"] = names["shm"] /\ names["shm"] # None
        <4>1. handle["producer"]["shm"] = names["shm"] /\ ~Ran("producer")
          BY <1>1, <1>5, <2>1, <3>1 DEF Orderly, SameObjects
        <4>2. pc["producer"] \in {"open_prod", "open_cons"}
          BY SMTT(30), <1>2, <3>1, <4>1, Ends DEF Types, Steps, Ran, Active, Holds
        <4> QED BY <1>2, <4>1, <4>2, Ends DEF Types, Ready
      <3> QED BY <1>1, <1>4, <1>5, <2>1, <3>1, Ends DEF Orderly, SameObjects
    <2>2. CASE p = "producer"
      BY <1>1, <1>4, <1>5, <2>2, Ends DEF Orderly, SameObjects
    <2> QED BY <2>1, <2>2, Ends
  <1> QED BY <1>7, <1>8, <1>9 DEF Orderly

\* The consumer makes the semaphores: they are not there yet.
LEMMA ProdOrder ==
    ASSUME SemaphoreConstants, ExclusionInv, Orderly,
           Goto("consumer", "open_prod", "open_cons"), Create("consumer", "prod", 0)
    PROVE  Orderly'
  <1>1. /\ pc["consumer"] = "open_prod" /\ pc' = [pc EXCEPT !["consumer"] = "open_cons"] /\ got' = got
    BY DEF Goto, Create
  <1>2. Types /\ 0 \in Empty .. Messages
    BY DEF ExclusionInv, SemaphoreConstants, Empty
  <1>3. Opened("consumer", "prod", 0)
    BY <1>2, Ends, CreateEffect
  <1>4. /\ i' = i /\ names'["shm"] = names["shm"] /\ names'["cons"] = names["cons"]
        /\ handle'["consumer"]["shm"] = handle["consumer"]["shm"]
        /\ \A n \in Names : handle'["producer"][n] = handle["producer"][n]
    BY <1>3, Ends DEF Opened
  <1>5. /\ pc'["consumer"] = "open_cons" /\ ~Ran("consumer") /\ ~Ran("consumer")' /\ ~Holds("consumer")
        /\ ~Holds("consumer")' /\ ~Active("consumer")
        /\ pc'["producer"] = pc["producer"] /\ Active("producer")' = Active("producer")
        /\ Holds("producer")' = Holds("producer") /\ Ran("producer")' = Ran("producer")
    BY <1>1, <1>2, Ends DEF Types, Active, Holds, Ran
  <1>6. OneRun'
    BY <1>1, <1>4, <1>5, Ends DEF Orderly, OneRun
  <1>7. SameObjects'
    BY <1>1, <1>4, <1>5, Ends DEF Orderly, SameObjects
  <1>8. InTurn'
    BY SMTT(30), <1>5 DEF InTurn
  <1>9. Progress'
    BY <1>1, <1>4, <1>5, Ends DEF Orderly, Progress
  <1> QED BY <1>6, <1>7, <1>8, <1>9 DEF Orderly

\* The consumer's sem_open of its own semaphore opens its run: the first turn is the
\* producer's.
LEMMA ConsOrder ==
    ASSUME SemaphoreConstants, ExclusionInv, Orderly,
           Goto("consumer", "open_cons", "wait"), Create("consumer", "cons", 1)
    PROVE  Orderly'
  <1>1. /\ pc["consumer"] = "open_cons" /\ pc' = [pc EXCEPT !["consumer"] = "wait"] /\ got' = got
    BY DEF Goto, Create
  <1>2. Types /\ 1 \in Empty .. Messages
    BY DEF ExclusionInv, SemaphoreConstants, Empty
  <1>3. Opened("consumer", "cons", 1)
    BY <1>2, Ends, CreateEffect
  <1>4. /\ i' = i /\ names'["shm"] = names["shm"] /\ names'["prod"] = names["prod"]
        /\ handle'["consumer"]["shm"] = handle["consumer"]["shm"]
        /\ handle'["consumer"]["prod"] = handle["consumer"]["prod"]
        /\ handle'["consumer"]["cons"] = names'["cons"] /\ names'["cons"] # None
        /\ \A n \in Names : handle'["producer"][n] = handle["producer"][n]
    BY <1>3, Ends DEF Opened
  <1>5. /\ pc'["consumer"] = "wait" /\ ~Ran("consumer") /\ Ran("consumer")' /\ ~Holds("consumer")
        /\ ~Holds("consumer")' /\ Active("consumer")'
        /\ pc'["producer"] = pc["producer"] /\ Active("producer")' = Active("producer")
        /\ Holds("producer")' = Holds("producer") /\ Ran("producer")' = Ran("producer")
    BY <1>1, <1>2, Ends DEF Types, Active, Holds, Ran
  <1>6. /\ names["cons"] = None /\ ~Ran("producer") /\ ~Holds("producer") /\ pc["producer"] # "post"
        /\ i["consumer"] = 0 /\ i["producer"] = 0
    BY <1>5 DEF Orderly, OneRun, SameObjects, Ran, Active, Holds
  <1>7. Cons' = 1 /\ Prod' = 0
    <2>1. Tokens(names["cons"])' = 1
      BY <1>3, <1>6 DEF Opened
    <2>2. handle["consumer"]["prod"] = names["prod"] /\ Tokens(names["prod"]) = 0
      BY <1>1, <1>6 DEF ExclusionInv, ConsumerOwns, NoRoomNoToken
    <2>3. Tokens(handle["consumer"]["prod"])' = Tokens(handle["consumer"]["prod"])
      BY SMTT(30), <1>2, <1>3, <1>4, Ends, TokenType DEF Opened
    <2> QED BY <1>4, <2>1, <2>2, <2>3 DEF Prod, Cons
  <1>8. OneRun'
    <2>1. handle["consumer"]["prod"] # None /\ handle["consumer"]["shm"] # None
      BY <1>1, <1>2, Ends DEF ExclusionInv, ConsumerOwns, Types, Ready
    <2> QED BY <1>1, <1>4, <1>5, <2>1, Ends DEF Orderly, OneRun
  <1>9. SameObjects'
    BY SMTT(30), <1>1, <1>4, <1>5, <1>6, Ends DEF Orderly, SameObjects
  <1>10. InTurn'
    BY SMTT(30), <1>4, <1>5, <1>6, <1>7 DEF InTurn
  <1>11. Progress'
    BY <1>1, <1>4, <1>5, <1>6, Ends DEF Orderly, Progress
  <1> QED BY <1>8, <1>9, <1>10, <1>11 DEF Orderly

\* The producer finds the semaphores of the consumer, or exits.
LEMMA OpenOrder ==
    ASSUME SemaphoreConstants, ExclusionInv, Orderly, OpenSems
    PROVE  Orderly'
  <1>1. PICK k \in {"prod", "cons"}, t \in {"open_cons", "wait", "exited"} :
        /\ names' = names /\ value' = value /\ i' = i /\ got' = got
        /\ handle' = [handle EXCEPT !["producer"][k] = names[k]] /\ pc' = [pc EXCEPT !["producer"] = t]
        /\ \/ k = "prod" /\ pc["producer"] = "open_prod" /\ t = "open_cons"
           \/ /\ k = "cons" /\ pc["producer"] = "open_cons" /\ t # "open_cons"
              /\ t = "wait" => handle["producer"]["prod"] # None /\ names["cons"] # None
    BY DEF OpenSems, Goto, objects
  <1>2. Types /\ k \in Names
    BY Ends DEF ExclusionInv
  <1>3. /\ \A o : Tokens(o)' = Tokens(o)
        /\ \A q \in Procs, n \in Names : q # "producer" \/ n # k => handle'[q][n] = handle[q][n]
        /\ handle'["producer"][k] = names[k]
        /\ pc'["producer"] = t /\ pc'["consumer"] = pc["consumer"]
        /\ ~Holds("producer")' /\ ~Holds("producer") /\ ~Active("producer") /\ ~Ran("producer")
        /\ Ran("producer")' = (t = "wait") /\ Active("producer")' = (t = "wait")
        /\ Holds("consumer")' = Holds("consumer") /\ Active("consumer")' = Active("consumer")
        /\ Ran("consumer")' = Ran("consumer")
    BY <1>1, <1>2, Ends DEF Types, Tokens, Holds, Active, Ran
  <1>4. names["prod"] # None => /\ handle["consumer"]["prod"] = names["prod"]
                                /\ pc["consumer"] = "open_cons" \/ Ran("consumer")
    <2>1. names["prod"] # None => pc["consumer"] \in {"open_cons", "close"} \/ Active("consumer")
      BY <1>2, Ends DEF Orderly, OneRun, ExclusionInv, ConsumerOwns, Types, Steps, Active, Holds
    <2> QED BY <2>1 DEF ExclusionInv, ConsumerOwns, Ran
  <1>5. names["cons"] # None => /\ handle["consumer"]["cons"] = names["cons"] /\ Ran("consumer")
                                /\ handle["consumer"]["shm"] = names["shm"] /\ pc["consumer"] # "done"
    <2>1. names["cons"] # None => pc["consumer"] \in {"close", "unlink_cons"} \/ Active("consumer")
      BY <1>2, Ends DEF Orderly, OneRun, ExclusionInv, ConsumerOwns, Types, Ran
    <2> QED BY <2>1 DEF ExclusionInv, ConsumerOwns, Ran, Orderly, OneRun, Active, Holds
  <1>6. OneRun'
    BY <1>1, <1>3, Ends DEF Orderly, OneRun
  <1>7. SameObjects'
    <2>1. handle'["producer"]["shm"] = handle["producer"]["shm"] /\ i["producer"] = 0
      BY <1>1, <1>3, Ends DEF Orderly, SameObjects
    <2>2. CASE t = "open_cons"
      BY Zenon, <1>1, <1>3, <1>4, <2>1, <2>2, Ends DEF Orderly, SameObjects
    <2>3. CASE t = "exited"
      BY Zenon, <1>1, <1>3, <2>1, <2>3, Ends DEF Orderly, SameObjects
    <2>4. CASE t = "wait"
      <3>1. /\ k = "cons" /\ names["cons"] # None
            /\ handle["producer"]["prod"] = handle["consumer"]["prod"]
            /\ handle["producer"]["shm"] = names["shm"]
        BY <1>1, <1>5, <2>4 DEF Orderly, SameObjects
      <3>2. handle'["producer"]["prod"] = handle["producer"]["prod"] /\ handle'["producer"]["cons"] = names["cons"]
        BY <1>3, <3>1, Ends
      <3>3. \A n \in Names : handle'["consumer"][n] = handle["consumer"][n]
        BY <1>3, Ends
      <3>4. \A n \in Names : handle'["producer"][n] = handle'["consumer"][n]
        BY <1>5, <2>1, <3>1, <3>2, <3>3, Ends
      <3> QED BY <1>1, <1>3, <1>5, <2>1, <2>4, <3>1, <3>4 DEF SameObjects
    <2> QED BY <2>2, <2>3, <2>4
  <1>8. InTurn'
    <2>1. Prod' = Prod /\ Cons' = Cons
          /\ Tokens(handle["consumer"]["shm"])' = Tokens(handle["consumer"]["shm"])
      BY <1>3, Ends DEF Prod, Cons
    <2>2. pc'["producer"] # "post" /\ pc["producer"] # "post"
      BY <1>1, <1>3
    <2> QED BY SMTT(30), <1>1, <1>3, <2>1, <2>2 DEF Orderly, InTurn
  <1>9. Progress'
    BY <1>1, <1>3, Ends DEF Orderly, Progress
  <1> QED BY <1>6, <1>7, <1>8, <1>9 DEF Orderly

\* The end: the consumer has consumed everything, so the producer has produced it.
LEMMA CloseOrder ==
    ASSUME SemaphoreConstants, ExclusionInv, Orderly, NEW p \in Procs, CloseUp(p)
    PROVE  Orderly'
  <1>1. PICK t \in {"unlink_cons", "unlink_shm", "done"} :
        /\ value' = value /\ handle' = handle /\ i' = i /\ got' = got /\ pc' = [pc EXCEPT ![p] = t]
        /\ \/ p = "producer" /\ pc[p] = "close" /\ t = "done" /\ names' = names
           \/ /\ p = "consumer"
              /\ \/ /\ pc[p] = "close" /\ t = "unlink_cons" /\ names' = [names EXCEPT !["prod"] = None]
                 \/ /\ pc[p] = "unlink_cons" /\ t = "unlink_shm" /\ names' = [names EXCEPT !["cons"] = None]
                 \/ /\ pc[p] = "unlink_shm" /\ t = "done" /\ names' = [names EXCEPT !["shm"] = None]
    <2>1. CASE p = "producer"
      BY <2>1 DEF CloseUp, Goto
    <2>2. CASE p = "consumer"
      BY <2>2 DEF CloseUp, Goto
    <2> QED BY <2>1, <2>2, Ends
  <1>2. /\ Types /\ pc'[p] = t /\ ~Active(p) /\ ~Active(p)' /\ ~Holds(p) /\ ~Holds(p)' /\ Ran(p) /\ Ran(p)'
        /\ \A q \in Procs : q # p => Same(q) /\ Ran(q)' = Ran(q)
        /\ \A o : Tokens(o)' = Tokens(o)
    BY <1>1 DEF ExclusionInv, Types, Active, Holds, Same, Tokens, Ran
  <1>3. InTurn' /\ Progress'
    <2>1. \A q \in Procs : /\ Ran(q)' = Ran(q) /\ Holds(q)' = Holds(q) /\ (Active(q) => Active(q)')
                           /\ Holds(q) => pc'[q] = pc[q]
      BY <1>2 DEF Same, Ran, Active, Holds
    <2>2. \A n \in Names : Tokens(handle["consumer"][n])' = Tokens(handle["consumer"][n])
      BY <1>1, <1>2
    <2>3. Quiet
      BY <1>1, <2>1, <2>2, Ends DEF Quiet
    <2> QED BY <2>3, QuietKeeps DEF Orderly
  <1>4. CASE p = "producer"
    <2>1. OneRun'
      BY <1>1, <1>2, <1>4, Ends DEF Orderly, OneRun, Same
    <2>2. SameObjects'
      BY <1>1, <1>2, <1>4, Ends DEF Orderly, SameObjects, Same
    <2> QED BY <1>3, <2>1, <2>2 DEF Orderly
  <1>5. CASE p = "consumer"
    <2>1. SameObjects'
      BY <1>1, <1>2, <1>5, Ends DEF Orderly, SameObjects, Same, Types
    <2>2. pc["producer"] \in {"close", "done"}
      <3>1. i["consumer"] = Messages /\ Ran("consumer")
        BY SMTT(30), <1>2, <1>5, Ends DEF Orderly, Progress
      <3>2. Prod \in Int /\ Cons \in Int /\ Prod >= 0 /\ Cons >= 0 /\ i["producer"] \in 0 .. Messages
        BY ZenonT(30), <1>2, Ends, TokenType DEF Prod, Cons, ExclusionInv, Counts, Types
      <3>3. /\ Prod + Cons + (IF Holds("consumer") THEN 1 ELSE 0)
                 + (IF Holds("producer") THEN 1 ELSE 0) = 1
            /\ Cons = 1 \/ Holds("producer") => i["producer"] = i["consumer"]
            /\ Prod = 1 \/ Holds("consumer") => i["producer"] = i["consumer"] + 1
        BY <3>1 DEF Orderly, InTurn
      <3>4. Messages \in Nat /\ i["producer"] # Messages + 1
        BY <3>2 DEF SemaphoreConstants
      <3>5. Prod # 1 /\ ~Holds("consumer")
        BY <3>1, <3>3, <3>4
      <3>6. i["producer"] = Messages
        BY <3>1, <3>2, <3>3, <3>5
      <3>7. Ran("producer") /\ ~Active("producer")
        BY <1>2, <3>6, Ends DEF Orderly, SameObjects, Types, Ready, SemaphoreConstants
      <3> QED BY <1>2, <3>7 DEF Types, Ran
    <2>3. pc'["producer"] = pc["producer"] /\ names \in [Names -> 0 .. Len(value)]
      BY <1>2, <1>5, Ends DEF Same, Types
    <2>4. t = "done" => \A n \in Names : names'[n] = None
      BY <1>1, <1>5, <2>3, Ends DEF ExclusionInv, ConsumerOwns
    <2>5. t # "done" => names'["shm"] = names["shm"]
      BY <1>1, <1>5, <2>3, Ends
    <2>6. OneRun'
      BY SMTT(30), <1>1, <1>2, <1>5, <2>2, <2>3, <2>4, <2>5, Ends DEF Orderly, OneRun
    <2> QED BY <1>3, <2>1, <2>6 DEF Orderly
  <1> QED BY <1>4, <1>5, Ends

\* What a running pair is about: three objects, the same for both.
LEMMA Turns ==
    ASSUME SemaphoreConstants, ExclusionInv, Orderly, Ran("consumer")
    PROVE  /\ \A n \in Names : /\ handle["consumer"][n] # None
                               /\ handle["consumer"][n] \in 0 .. Len(value)
                               /\ Ran("producer") => handle["producer"][n] = handle["consumer"][n]
           /\ Prod \in Int /\ Prod >= 0 /\ Cons \in Int /\ Cons >= 0
           /\ \A m, n \in Names : m # n => handle["consumer"][m] # handle["consumer"][n]
           /\ i["producer"] \in 0 .. Messages /\ i["consumer"] \in 0 .. Messages
  <1>1. Types /\ Kinds
    BY DEF ExclusionInv
  <1>2. \A n \in Names : /\ handle["consumer"][n] # None
                         /\ Ran("producer") => handle["producer"][n] = handle["consumer"][n]
    BY DEF Orderly, OneRun, SameObjects
  <1>3. \A m, n \in Names : m # n => handle["consumer"][m] # handle["consumer"][n]
    BY <1>1, <1>2, KindsDiffer, Ends
  <1>4. Prod \in Int /\ Prod >= 0 /\ Cons \in Int /\ Cons >= 0
    BY <1>1, Ends, TokenType DEF Prod, Cons, ExclusionInv, Counts
  <1>5. i["producer"] \in 0 .. Messages /\ i["consumer"] \in 0 .. Messages
    BY <1>1, Ends DEF Types
  <1> QED BY <1>1, <1>2, <1>3, <1>4, <1>5, Ends, TokenType

\* A step inside the loops: only counts, messages and turns change.
Inside(p, t) == /\ names' = names /\ handle' = handle /\ Active(p) /\ pc' = [pc EXCEPT ![p] = t]

\* Such a step leaves the programs with the objects they opened.
LEMMA InsideKeeps ==
    ASSUME ExclusionInv, Orderly, NEW p \in Procs,
           NEW t \in {"wait", "work", "clear", "post", "close"}, Inside(p, t),
           i' \in [Procs -> Int], \A q \in Procs : q # p => i'[q] = i[q], p = "producer" => got' = got
    PROVE  /\ OneRun' /\ SameObjects' /\ Ran(p) /\ Ran(p)' /\ Ran("consumer") /\ Ran("consumer")'
           /\ pc'[p] = t /\ \A q \in Procs : q # p => /\ Same(q) /\ Ran(q)' = Ran(q)
  <1>1. Types
    BY DEF ExclusionInv
  <1>2. /\ pc'[p] = t /\ Ran(p) /\ Ran(p)'
        /\ \A q \in Procs : q # p => /\ Same(q) /\ Ran(q)' = Ran(q)
    BY <1>1 DEF Inside, Types, Ran, Active, Holds, Same
  <1>3. Ran("consumer") /\ Ran("consumer")'
    BY <1>2, Ends DEF Orderly, SameObjects
  <1>4. OneRun'
    <2>1. CASE p = "producer"
      <3>1. pc["consumer"] # "done"
        BY <2>1 DEF Orderly, OneRun, Inside, Active, Holds
      <3> QED BY <1>2, <1>3, <2>1, <3>1, Ends DEF Inside, Orderly, OneRun, Same
    <2>2. CASE p = "consumer"
      BY <1>2, <1>3, <2>2, Ends DEF Inside, Orderly, OneRun, Same, Active, Holds
    <2> QED BY SMTT(30), <2>1, <2>2, Ends
  <1>5. SameObjects'
    <2>1. CASE p = "producer"
      <3>1. pc["consumer"] # "done"
        BY <2>1 DEF Orderly, OneRun, Inside, Active, Holds
      <3> QED BY <1>2, <1>3, <2>1, <3>1, Ends DEF Inside, Orderly, SameObjects, Same, Active, Holds
    <2>2. CASE p = "consumer"
      BY <1>2, <1>3, <2>2, Ends DEF Inside, Orderly, SameObjects, Same, Active, Holds
    <2> QED BY <2>1, <2>2, Ends
  <1> QED BY <1>2, <1>3, <1>4, <1>5

\* Passing a semaphore: it was one's turn.
LEMMA WaitOrder ==
    ASSUME SemaphoreConstants, ExclusionInv, Orderly, NEW p \in Procs, sem_wait(p)
    PROVE  Orderly'
  <1>0. PICK s : s = handle[p][Theirs(p)]
    OBVIOUS
  <1>1. /\ pc[p] = "wait" /\ pc' = [pc EXCEPT ![p] = "work"] /\ value[s] > 0
        /\ value' = [value EXCEPT ![s] = value[s] - 1]
        /\ names' = names /\ handle' = handle /\ i' = i /\ got' = got
    BY <1>0 DEF sem_wait, Goto
  <1>2. Types /\ Active(p) /\ ~Holds(p) /\ Inside(p, "work")
    BY <1>1 DEF ExclusionInv, Active, Holds, Inside
  <1>3. /\ OneRun' /\ SameObjects' /\ Ran(p) /\ Ran(p)' /\ Ran("consumer") /\ Ran("consumer")'
        /\ pc'[p] = "work" /\ \A q \in Procs : q # p => /\ Same(q) /\ Ran(q)' = Ran(q)
    <2>1. i \in [Procs -> Int]
      BY <1>2 DEF Types, SemaphoreConstants
    <2> QED BY <1>1, <1>2, <2>1, InsideKeeps
  <1>4. /\ Theirs(p) \in Names /\ s = handle["consumer"][Theirs(p)] /\ s # None /\ s \in 0 .. Len(value)
    BY <1>0, <1>3, Turns, Ends DEF Theirs
  <1>5. value[s] \in Int /\ value[s] - 1 \in Empty .. Messages /\ Tokens(s) = value[s]
    <2>1. s \in 1 .. Len(value) /\ value \in Seq(Empty .. Messages)
      BY <1>2, <1>4 DEF None, Types
    <2>2. value[s] \in Empty .. Messages
      BY <2>1 DEF Empty, SemaphoreConstants
    <2> QED BY <1>1, <1>4, <2>2 DEF Empty, SemaphoreConstants, Tokens
  <1>6. Tokens(s)' = Tokens(s) - 1 /\ \A o \in 0 .. Len(value) : o # s => Tokens(o)' = Tokens(o)
    BY Zenon, <1>1, <1>2, <1>4, <1>5, Stored
  <1>7. \A n \in Names : n # Theirs(p) => Tokens(handle["consumer"][n])' = Tokens(handle["consumer"][n])
    BY <1>1, <1>3, <1>4, <1>6, Turns
  <1>8. /\ Holds(p)' /\ Active(p)'
    BY <1>3 DEF Holds, Active
  <1>9. InTurn'
    <2>1. CASE p = "producer"
      <3>1. Cons > 0 /\ Cons' = Cons - 1 /\ Prod' = Prod
            /\ Tokens(handle["consumer"]["shm"])' = Tokens(handle["consumer"]["shm"])
        BY SMTT(30), <1>1, <1>4, <1>5, <1>6, <1>7, <2>1, Ends DEF Prod, Cons, Theirs
      <3>2. Cons = 1 /\ Prod = 0 /\ ~Holds("consumer")
        BY <1>3, <3>1, Turns DEF Orderly, InTurn
      <3>3. i'["producer"] = i'["consumer"] /\ ~Holds("consumer")' /\ pc'["consumer"] # "work"
        BY SMTT(30), <1>1, <1>3, <2>1, <3>2, Ends DEF Orderly, InTurn, Same, Holds
      <3> QED BY <1>3, <1>8, <2>1, <3>1, <3>2, <3>3 DEF InTurn
    <2>2. CASE p = "consumer"
      <3>1. Prod > 0 /\ Prod' = Prod - 1 /\ Cons' = Cons
            /\ Tokens(handle["consumer"]["shm"])' = Tokens(handle["consumer"]["shm"])
        BY SMTT(30), <1>1, <1>4, <1>5, <1>6, <1>7, <2>2, Ends DEF Prod, Cons, Theirs
      <3>2. Prod = 1 /\ Cons = 0 /\ ~Holds("producer")
        BY <1>3, <3>1, Turns DEF Orderly, InTurn
      <3>3. /\ i["producer"] = i["consumer"] + 1 /\ ~Holds("producer")' /\ pc'["producer"] # "post"
            /\ Tokens(handle["consumer"]["shm"]) = i["consumer"]
        BY SMTT(30), <1>1, <1>3, <2>2, <3>2, Ends DEF Orderly, InTurn, Same, Holds
      <3> QED BY <1>1, <1>3, <1>8, <2>2, <3>1, <3>2, <3>3 DEF InTurn
    <2> QED BY <2>1, <2>2, Ends
  <1>10. Progress'
    BY Zenon, <1>1, <1>3, <1>8, Ends DEF Orderly, Progress, Same
  <1> QED BY <1>3, <1>9, <1>10 DEF Orderly

\* What one more message does to those consumed.
LEMMA Appended ==
    ASSUME NEW s \in Seq(Int), NEW x \in Int
    PROVE  /\ Append(s, x) \in Seq(Int) /\ Len(Append(s, x)) = Len(s) + 1
           /\ \A k \in 1 .. Len(Append(s, x)) : Append(s, x)[k] = IF k = Len(s) + 1 THEN x ELSE s[k]
  OBVIOUS

\* The message is written and read in turn.
LEMMA WorkOrder ==
    ASSUME SemaphoreConstants, ExclusionInv, Orderly, NEW p \in Procs, Work(p) \/ (p = "consumer" /\ Clear)
    PROVE  Orderly'
  <1>0. PICK m : m = handle[p]["shm"]
    BY SMTT(30)
  <1>1. PICK t \in {"clear", "post"} :
        /\ names' = names /\ handle' = handle /\ i' = i
        /\ pc[p] \in {"work", "clear"} /\ pc' = [pc EXCEPT ![p] = t]
        /\ \/ p = "producer" /\ t = "post" /\ value' = [value EXCEPT ![m] = i[p]] /\ got' = got
           \/ /\ p = "consumer" /\ t = "clear" /\ value' = value /\ got' = Append(got, value[m])
              /\ pc[p] = "work"
           \/ /\ p = "consumer" /\ t = "post" /\ value' = [value EXCEPT ![m] = Empty] /\ got' = got
              /\ pc[p] = "clear"
    BY <1>0, Ends DEF Work, Clear, Goto
  <1>2. Types /\ Active(p) /\ Holds(p) /\ Inside(p, t)
    BY <1>1 DEF ExclusionInv, Active, Holds, Inside
  <1>3. /\ OneRun' /\ SameObjects' /\ Ran(p) /\ Ran(p)' /\ Ran("consumer") /\ Ran("consumer")'
        /\ pc'[p] = t /\ \A q \in Procs : q # p => /\ Same(q) /\ Ran(q)' = Ran(q)
    <2>1. i \in [Procs -> Int]
      BY <1>2 DEF Types, SemaphoreConstants
    <2> QED BY <1>1, <1>2, <2>1, Ends, InsideKeeps
  <1>4. /\ m = handle["consumer"]["shm"] /\ m # None /\ m \in 0 .. Len(value)
    BY <1>0, <1>3, Turns, Ends
  <1>5. /\ \A o \in 0 .. Len(value) : o # m => Tokens(o)' = Tokens(o)
        /\ p = "producer" => Tokens(m)' = i["producer"]
    <2>1. Empty \in Empty .. Messages /\ i[p] \in Empty .. Messages
      BY <1>2 DEF Types, Empty, SemaphoreConstants
    <2>2. CASE value' = value
      BY <1>1, <2>2, <1>2, <1>4, <2>1, Stored DEF Tokens
    <2>3. CASE value' = [value EXCEPT ![m] = i[p]]
      BY Zenon, <1>1, <1>2, <1>4, <2>1, <2>3, Stored
    <2>4. CASE value' = [value EXCEPT ![m] = Empty] /\ p = "consumer"
      BY Zenon, <1>2, <1>4, <2>1, <2>4, Stored
    <2> QED BY <1>1, <2>2, <2>3, <2>4
  <1>6. Prod' = Prod /\ Cons' = Cons
    BY Zenon, <1>1, <1>3, <1>4, <1>5, Turns, Ends DEF Prod, Cons
  <1>7. Holds(p)' /\ Active(p)'
    BY <1>3 DEF Holds, Active
  <1>8. CASE p = "producer"
    <2>1. ~Holds("consumer") /\ Prod = 0 /\ i["producer"] = i["consumer"]
      BY <1>2, <1>3, <1>8, Turns DEF Orderly, InTurn
    <2>2. ~Holds("consumer")' /\ pc'["consumer"] = pc["consumer"] /\ Active("consumer")' = Active("consumer")
      BY <1>3, <1>8, <2>1, Ends DEF Same
    <2>3. Tokens(handle["consumer"]["shm"])' = i["consumer"]
      BY SMTT(30), <1>1, <1>4, <1>5, <1>8, <2>1
    <2>4. InTurn'
      BY <1>1, <1>2, <1>3, <1>6, <1>7, <1>8, <2>1, <2>2, <2>3 DEF Orderly, InTurn
    <2>5. Progress'
      BY SMTT(30), <1>1, <1>3, <1>7, <1>8, <2>2, Ends DEF Orderly, Progress
    <2> QED BY <1>3, <2>4, <2>5 DEF Orderly
  <1>9. CASE p = "consumer"
    <2>1. ~Holds("producer") /\ Prod = 0 /\ Cons = 0
      BY <1>2, <1>3, <1>9, Turns DEF Orderly, InTurn
    <2>2. /\ ~Holds("producer")' /\ pc'["producer"] = pc["producer"] /\ pc'["producer"] # "post"
          /\ Active("producer")' = Active("producer") /\ Ran("producer")' = Ran("producer")
      BY SMTT(30), <1>3, <1>9, <2>1, Ends DEF Same, Holds
    <2>3. InTurn'
      BY <1>1, <1>2, <1>3, <1>6, <1>7, <1>9, <2>1, <2>2 DEF Orderly, InTurn
    <2>4. Progress'
      <3>1. CASE t = "clear"
        <4>1. Tokens(m) = i["consumer"] /\ Tokens(m) = value[m] /\ i["consumer"] \in Int
          BY <1>1, <1>3, <1>4, <1>9, <3>1, Turns DEF Orderly, InTurn, Tokens
        <4>2. got \in Seq(Int) /\ Len(got) = i["consumer"] /\ got' = Append(got, i["consumer"])
          BY <1>1, <1>9, <3>1, <4>1 DEF Orderly, Progress
        <4>3. got' \in Seq(Int) /\ Len(got') = i["consumer"] + 1
              /\ \A k \in 1 .. Len(got') : got'[k] = IF k = Len(got) + 1 THEN i["consumer"] ELSE got[k]
          BY Zenon, <4>1, <4>2, Appended
        <4>4. \A k \in 1 .. Len(got') : got'[k] = k - 1
          BY <4>1, <4>2, <4>3 DEF Orderly, Progress
        <4> QED BY Zenon, <1>1, <1>3, <1>7, <1>9, <2>2, <3>1, <4>3, <4>4, Ends DEF Orderly, Progress
      <3>2. CASE t = "post"
        BY <1>1, <1>3, <1>7, <1>9, <2>2, <3>2, Ends DEF Orderly, Progress
      <3> QED BY <3>1, <3>2
    <2> QED BY <1>3, <2>3, <2>4 DEF Orderly
  <1> QED BY <1>8, <1>9, Ends

\* Posting a semaphore gives the turn away.
LEMMA PostOrder ==
    ASSUME SemaphoreConstants, ExclusionInv, Orderly, NEW p \in Procs, sem_post(p), ExclusionInv'
    PROVE  Orderly'
  <1>0. PICK s : s = handle[p][Mine(p)]
    OBVIOUS
  <1>1. PICK t \in {"wait", "close"} :
        /\ pc[p] = "post" /\ pc' = [pc EXCEPT ![p] = t] /\ (t = "wait" <=> i[p] + 1 < Messages)
        /\ value' = [value EXCEPT ![s] = value[s] + 1] /\ got' = got
        /\ names' = names /\ handle' = handle /\ i' = [i EXCEPT ![p] = i[p] + 1]
    BY Zenon, <1>0 DEF sem_post, Goto
  <1>2. /\ Types /\ Active(p) /\ Holds(p) /\ Inside(p, t)
        /\ i[p] \in 0 .. Messages /\ i[p] < Messages /\ i'[p] = i[p] + 1
        /\ i' \in [Procs -> Int] /\ \A q \in Procs : q # p => i'[q] = i[q]
    <2>1. Types /\ Active(p) /\ Holds(p) /\ Inside(p, t)
      BY <1>1 DEF ExclusionInv, Active, Holds, Inside
    <2>2. i[p] \in 0 .. Messages /\ i[p] < Messages /\ i'[p] = i[p] + 1
      BY <1>1, <2>1 DEF Types, Ready
    <2>3. i' \in [Procs -> Int] /\ \A q \in Procs : q # p => i'[q] = i[q]
      BY <1>1, <2>1, <2>2 DEF Types, SemaphoreConstants
    <2> QED BY <2>1, <2>2, <2>3
  <1>3. /\ OneRun' /\ SameObjects' /\ Ran(p) /\ Ran(p)' /\ Ran("consumer") /\ Ran("consumer")'
        /\ pc'[p] = t /\ \A q \in Procs : q # p => /\ Same(q) /\ Ran(q)' = Ran(q)
    BY <1>1, <1>2, InsideKeeps
  <1>4. /\ Mine(p) \in Names /\ s = handle["consumer"][Mine(p)] /\ s # None /\ s \in 0 .. Len(value)
    BY Zenon, <1>0, <1>3, Turns, Ends DEF Mine
  <1>5. Prod = 0 /\ Cons = 0 /\ Tokens(s) = value[s] /\ Tokens(s) = 0
    <2>1. Prod = 0 /\ Cons = 0
      BY SMTT(30), <1>2, <1>3, Turns, Ends DEF Orderly, InTurn
    <2> QED BY SMTT(30), <1>4, <2>1 DEF Mine, Prod, Cons, Tokens
  <1>6. Tokens(s)' = 1 /\ \A o \in 0 .. Len(value) : o # s => Tokens(o)' = Tokens(o)
    <2>1. 1 \in Empty .. Messages /\ value' = [value EXCEPT ![s] = 1]
      BY <1>1, <1>5 DEF Empty, SemaphoreConstants
    <2> QED BY Zenon, <1>2, <1>4, <2>1, Stored
  <1>7. \A n \in Names : n # Mine(p) => Tokens(handle["consumer"][n])' = Tokens(handle["consumer"][n])
    BY <1>1, <1>3, <1>4, <1>6, Turns
  <1>8. ~Holds(p)' /\ (t = "wait" <=> Active(p)')
    BY <1>3 DEF Holds, Active
  <1>9. InTurn'
    <2>1. CASE p = "producer"
      <3>1. Prod' = 1 /\ Cons' = 0
            /\ Tokens(handle["consumer"]["shm"])' = Tokens(handle["consumer"]["shm"])
        BY SMTT(30), <1>1, <1>4, <1>5, <1>6, <1>7, <2>1, Ends DEF Prod, Cons, Mine
      <3>2. /\ ~Holds("consumer") /\ i["producer"] = i["consumer"]
            /\ Tokens(handle["consumer"]["shm"]) = i["consumer"]
        BY SMTT(30), <1>1, <1>2, <1>3, <1>5, <2>1, Turns DEF Orderly, InTurn
      <3>3. ~Holds("consumer")' /\ i'["consumer"] = i["consumer"]
        BY Zenon, <1>2, <1>3, <2>1, <3>2, Ends DEF Same
      <3> QED BY <1>2, <1>3, <1>8, <2>1, <3>1, <3>2, <3>3 DEF InTurn
    <2>2. CASE p = "consumer"
      <3>1. Prod' = 0 /\ Cons' = 1
        BY SMTT(30), <1>1, <1>4, <1>5, <1>6, <1>7, <2>2, Ends DEF Prod, Cons, Mine
      <3>2. ~Holds("producer") /\ i["producer"] = i["consumer"] + 1
        BY <1>2, <1>3, <1>5, <2>2, Turns DEF Orderly, InTurn
      <3>3. ~Holds("producer")' /\ i'["producer"] = i["producer"] /\ pc'["producer"] # "post"
        BY <1>2, <1>3, <2>2, <3>2, Ends DEF Same, Holds
      <3> QED BY <1>2, <1>3, <1>8, <2>2, <3>1, <3>2, <3>3 DEF InTurn
    <2> QED BY <2>1, <2>2, Ends
  <1>10. Progress'
    <2>1. t = "close" => i'[p] = Messages
      BY <1>1, <1>2 DEF SemaphoreConstants
    <2>2. \A q \in Procs : Ran(q)' /\ ~Active(q)' => i'[q] = Messages
      BY SMTT(30), <1>2, <1>3, <1>8, <2>1 DEF Orderly, Progress, Same
    <2>3. CASE p = "producer"
      BY SMTT(30), <1>1, <1>2, <1>3, <2>2, <2>3, Ends DEF Orderly, Progress, Same
    <2>4. CASE p = "consumer"
      BY <1>1, <1>2, <1>3, <2>2, <2>4, Ends DEF Orderly, Progress, Same
    <2> QED BY <2>2, <2>3, <2>4, Ends
  <1> QED BY <1>3, <1>9, <1>10 DEF Orderly

\* Every step keeps the order.
LEMMA OrderStep == SemaphoreConstants /\ ExclusionInv /\ OrderInv /\ [Next]_vars => OrderInv'
  <1> SUFFICES ASSUME SemaphoreConstants, ExclusionInv, OrderInv, [Next]_vars
               PROVE  OrderInv'
    OBVIOUS
  <1>1. ExclusionInv'
    BY ExclusionStep
  <1>2. CASE UNCHANGED vars
    <2>1. /\ names' = names /\ value' = value /\ handle' = handle /\ pc' = pc /\ i' = i /\ got' = got
          /\ crashes' = crashes /\ again' = again
      BY <1>2 DEF vars, objects
    <2>2. /\ \A o : Tokens(o)' = Tokens(o)
          /\ \A q : /\ Holds(q)' = Holds(q) /\ Active(q)' = Active(q) /\ Ran(q)' = Ran(q)
      BY SMTT(30), <2>1 DEF Tokens, Holds, Active, Ran
    <2>3. Prod' = Prod /\ Cons' = Cons
          /\ Tokens(handle["consumer"]["shm"])' = Tokens(handle["consumer"]["shm"])
      BY ZenonT(30), <2>1, <2>2 DEF Prod, Cons
    <2>4. Undisturbed /\ OneRun /\ SameObjects => OneRun' /\ SameObjects'
      <3>1. Ran("consumer")' = Ran("consumer") /\ Ran("producer")' = Ran("producer")
        BY <2>2
      <3>2. OneRun => OneRun'
        BY <2>1, <3>1 DEF OneRun
      <3>3. SameObjects => SameObjects'
        BY <2>1, <3>1 DEF SameObjects
      <3> QED BY <3>2, <3>3
    <2>5. InTurn /\ Progress => InTurn' /\ Progress'
      BY <2>1, <2>2, <2>3 DEF InTurn, Progress
    <2> QED BY <2>1, <2>4, <2>5 DEF OrderInv, Orderly, Undisturbed
  <1>3. ASSUME NEW p \in Procs, Start(p) \/ Run(p) \/ Crash(p)
        PROVE  OrderInv'
    <2>1. CASE Crash(p)
      BY <2>1 DEF Crash, OrderInv, Undisturbed
    <2>2. CASE Start(p)
      <3>1. crashes' = crashes /\ again' = (again \/ pc[p] = "done") /\ pc[p] \in {"exited", "done"}
        BY <2>2 DEF Start
      <3> QED BY ZenonT(30), <2>2, <3>1, StartOrder DEF OrderInv, Undisturbed
    <2>3. CASE Run(p)
      <3>1. crashes' = crashes /\ again' = again
        BY <2>3 DEF Run, open_shm, Create, sem_wait, Work, sem_post, CloseUp, CreateSems, Clear,
           OpenSems
      <3>2. ASSUME Orderly
            PROVE  Orderly'
        <4>1. CASE p = "consumer" /\ CreateSems
          BY <3>2, <4>1, ProdOrder, ConsOrder DEF CreateSems
        <4> QED BY <1>1, <2>3, <3>2, <4>1, ShmOrder, WaitOrder, WorkOrder, PostOrder, CloseOrder,
                   OpenOrder DEF Run
      <3> QED BY <3>1, <3>2 DEF OrderInv, Undisturbed
    <2> QED BY <1>3, <2>1, <2>2, <2>3
  <1> QED BY <1>2, <1>3 DEF Next

\* What the order says at the end.
LEMMA OrderGives == SemaphoreConstants /\ ExclusionInv /\ OrderInv => InOrder /\ NothingLeft
  <1> SUFFICES ASSUME SemaphoreConstants, ExclusionInv, Orderly, Undisturbed
               PROVE  InOrder /\ NothingLeft
    BY DEF OrderInv, InOrder, NothingLeft
  <1>1. InOrder
    BY DEF InOrder, Orderly, Progress
  <1>2. ASSUME \A p \in Procs : pc[p] = "done"
        PROVE  /\ \A n \in Names : names[n] = None
               /\ value[handle["consumer"]["prod"]] = 0 /\ value[handle["consumer"]["cons"]] = 1
    <2>1. \A p \in Procs : Ran(p) /\ ~Active(p) /\ ~Holds(p) /\ i[p] = Messages
      <3>1. \A p \in Procs : Ran(p) /\ ~Active(p) /\ ~Holds(p)
        BY SMTT(30), <1>2 DEF Ran, Active, Holds
      <3> QED BY <3>1 DEF Orderly, Progress
    <2>2. Prod = 0 /\ Cons = 1
      BY <2>1, Ends, Turns DEF Orderly, InTurn, SemaphoreConstants
    <2>3. handle["consumer"]["prod"] # None /\ handle["consumer"]["cons"] # None
      BY <2>1, Ends, Turns
    <2> QED BY <1>2, <2>2, <2>3, Ends DEF Orderly, OneRun, Prod, Cons, Tokens
  <1> QED BY Zenon, <1>1, <1>2 DEF NothingLeft

\* producer.c and consumer.c with any number of messages, starts and crashes: never both
\* at the memory; and without crashes and second runs the messages arrive in order, once
\* each, and nothing is left behind.
THEOREM SemaphoresExclude ==
    ASSUME SemaphoreConstants
    PROVE  Spec => [](TypeOK /\ Exclusive /\ InOrder /\ NothingLeft)
  <1>1. Init => ExclusionInv /\ OrderInv
    BY ExclusionStart, OrderStart
  <1>2. ExclusionInv /\ OrderInv /\ [Next]_vars => (ExclusionInv /\ OrderInv)'
    BY ExclusionStep, OrderStep
  <1>3. ExclusionInv /\ OrderInv => TypeOK /\ Exclusive /\ InOrder /\ NothingLeft
    BY ExclusionGives, OrderGives
  <1> QED BY <1>1, <1>2, <1>3, PTL DEF Spec
=============================================================================

------------------------- MODULE UpgradeableRwLock -------------------------
(***************************************************************************)
(* concurrency/threads/upgradeableReadLocks.c: a readers-writer lock whose *)
(* only writers are readers that upgrade, and threads that read for ever   *)
(* and upgrade now and then.  Nothing in the program changes the field     *)
(* writers, so its tests of it are constant.                               *)
(***************************************************************************)
EXTENDS Integers, FiniteSets, CondVar

CONSTANT Threads

VARIABLES readers, writers, upgraders, is_writing

vars == <<readers, writers, upgraders, is_writing, pc>>

Init == /\ readers = 0 /\ writers = 0 /\ upgraders = 0
        /\ is_writing = FALSE
        /\ pc = [t \in Threads |-> "out"]

SpuriousWakeup(t) == /\ Spurious(t, "rwait", "out") \/ Spurious(t, "uwait", "uwoken")
                     /\ UNCHANGED <<readers, writers, upgraders, is_writing>>

\* A woken reader repeats the test like one that arrives.
read_lock(t) ==
    /\ pc[t] = "out"
    /\ \/ (writers > 0 \/ is_writing) /\ Goto(t, "rwait") /\ UNCHANGED readers
       \/ ~(writers > 0 \/ is_writing) /\ Goto(t, "reading") /\ readers' = readers + 1
    /\ UNCHANGED <<writers, upgraders, is_writing>>

read_unlock(t) ==
    /\ pc[t] = "reading"
    /\ readers' = readers - 1
    /\ IF readers = 1 /\ writers > 0 THEN Signal(t, "out", "uwait", "uwoken")
                                     ELSE Goto(t, "out")
    /\ UNCHANGED <<writers, upgraders, is_writing>>

\* Mutant: the upgrade does not wait for the other readers.
upgrade_NoWait(t) ==
    /\ pc[t] = "reading" /\ ~is_writing
    /\ readers' = readers - 1
    /\ is_writing' = TRUE
    /\ Goto(t, "writing")
    /\ UNCHANGED <<writers, upgraders>>

upgrade(t) ==
    /\ pc[t] \in {"reading", "uwoken"}
    /\ LET entered == IF pc[t] = "reading" THEN upgraders + 1 ELSE upgraders
       IN \/ /\ readers > 1 \/ writers > 0 \/ is_writing
             /\ upgraders' = entered
             /\ Goto(t, "uwait")
             /\ UNCHANGED <<readers, is_writing>>
          \/ /\ ~(readers > 1 \/ writers > 0 \/ is_writing)
             /\ upgraders' = entered - 1
             /\ readers' = readers - 1
             /\ is_writing' = TRUE
             /\ Goto(t, "writing")
    /\ UNCHANGED writers

write_unlock(t) ==
    /\ pc[t] = "writing"
    /\ is_writing' = FALSE
    /\ IF upgraders > 0 \/ writers > 0 THEN Signal(t, "out", "uwait", "uwoken")
                                       ELSE Broadcast(t, "out", "rwait", "out")
    /\ UNCHANGED <<readers, writers, upgraders>>

thread_func(t) == read_lock(t) \/ read_unlock(t) \/ upgrade(t) \/ write_unlock(t)

Next == \E t \in Threads : thread_func(t) \/ SpuriousWakeup(t)

Spec == Init /\ [][Next]_vars

FairSpec == Spec /\ \A t \in Threads : WF_vars(thread_func(t))
-----------------------------------------------------------------------------
Upgrading == At("uwait") \cup At("uwoken")
Inside == At("reading") \cup Upgrading
Labels == {"out", "rwait", "reading", "uwait", "uwoken", "writing"}

\* The counters are the populations they count; a thread that waits to
\* upgrade still counts as a reader.
TypeOK ==
    /\ pc \in [Threads -> Labels]
    /\ readers = Cardinality(Inside)
    /\ writers = 0
    /\ upgraders = Cardinality(Upgrading)
    /\ is_writing = (At("writing") # {})

\* The lock implements RwLock: a thread that waits to upgrade goes on reading,
\* and it becomes the writer only as the last reader.
Lock == INSTANCE RwLock WITH reading <- Inside, writing <- At("writing")
ImplementsRwLock == Lock!Spec

\* A reader asleep has a writer inside that will wake it: write_unlock wakes
\* the readers, because nobody can be upgrading while a thread writes.
ReaderHasWaker == At("rwait") # {} => At("writing") # {}

\* "10% chance to upgrade": a thread that starts to upgrade gets to write.
UpgradeHappens == \A t \in Threads : pc[t] = "uwait" ~> pc[t] = "writing"
-----------------------------------------------------------------------------
\* A writer is alone: nobody else writes, reads or waits to upgrade.
WriterAlone == \A t \in At("writing") : At("writing") = {t} /\ Inside = {}

UpInv == TypeOK /\ WriterAlone /\ ReaderHasWaker

\* A step keeps the invariant, and is one of RwLock or leaves the threads inside alone.
UpKept == UpInv' /\ [Lock!Next]_<<Inside, At("writing")>>
=============================================================================

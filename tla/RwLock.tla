------------------------------- MODULE RwLock -------------------------------
(***************************************************************************)
(* What a readers-writer lock promises: any number of threads read, or one *)
(* writes alone.  A thread that is the only reader may become the writer.  *)
(* The locks of concurrency/threads are shown to implement this.           *)
(***************************************************************************)
CONSTANT Threads

VARIABLES reading, writing   \* the threads inside, as sets

vars == <<reading, writing>>

Init == reading = {} /\ writing = {}

AcquireRead(t) == /\ writing = {} /\ t \notin reading
                  /\ reading' = reading \cup {t}
                  /\ UNCHANGED writing

ReleaseRead(t) == /\ t \in reading
                  /\ reading' = reading \ {t}
                  /\ UNCHANGED writing

AcquireWrite(t) == /\ writing = {} /\ reading \subseteq {t}
                   /\ reading' = {}
                   /\ writing' = {t}

ReleaseWrite(t) == /\ writing = {t}
                   /\ writing' = {}
                   /\ UNCHANGED reading

Next == \E t \in Threads : \/ AcquireRead(t) \/ ReleaseRead(t)
                           \/ AcquireWrite(t) \/ ReleaseWrite(t)

Spec == Init /\ [][Next]_vars
=============================================================================

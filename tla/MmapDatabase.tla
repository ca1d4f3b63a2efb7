---------------------------- MODULE MmapDatabase ----------------------------
(***************************************************************************)
(* os/filesystem/databaseOperationWithMMAP.c: a table of records in a file *)
(* mapped with MAP_SHARED.  Each run of the program maps the file, making  *)
(* it if need be, inserts its records and looks one up.  The process may   *)
(* be killed between any two stores; what it stored is in the file, since  *)
(* the kernel keeps the pages of a shared mapping.                         *)
(***************************************************************************)
EXTENDS Integers, Sequences

CONSTANTS MaxRecords,   \* MAX_RECORDS
          Ids,          \* the ids of the records main inserts
          Inserts,      \* the sequence of them
          Sought        \* the id main looks up

VARIABLES sized,                \* the file has the size of a Database
          record_count, id, name,   \* the Database; name is abstracted to its id
          pc, k,                \* of the process, and its next insert
          found                 \* the index find_record returned, or -1

vars == <<sized, record_count, id, name, pc, k, found>>
db == <<record_count, id, name>>

Slots == 0 .. MaxRecords - 1

\* A file that was just made larger is all zeros.
Init == /\ sized = FALSE /\ record_count = 0
        /\ id = [s \in Slots |-> 0] /\ name = [s \in Slots |-> 0]
        /\ pc = "off" /\ k = 1 /\ found = -1

\* The program is run.  map_file makes a missing file and gives an empty one
\* its size; any call in it may fail, before or after ftruncate.
map_file ==
    /\ pc = "off"
    /\ \/ sized' = TRUE /\ pc' = "insert" /\ k' = 1
       \/ sized' \in {sized, TRUE} /\ UNCHANGED <<pc, k>>
    /\ UNCHANGED <<db, found>>

\* insert_record: a full table refuses the record.
insert_check ==
    /\ pc = "insert" /\ k <= Len(Inserts)
    /\ IF record_count >= MaxRecords THEN k' = k + 1 /\ UNCHANGED pc
       ELSE pc' = "id" /\ UNCHANGED k
    /\ UNCHANGED <<sized, db, found>>

insert_id ==
    /\ pc = "id" /\ pc' = "name"
    /\ id' = [id EXCEPT ![record_count] = Inserts[k]]
    /\ UNCHANGED <<sized, record_count, name, k, found>>

\* Mutant: the count is raised before the name is there.
insert_name_After ==
    /\ pc = "name" /\ pc' = "count"
    /\ record_count' = record_count + 1
    /\ UNCHANGED <<sized, id, name, k, found>>

insert_name ==
    /\ pc = "name" /\ pc' = "count"
    /\ name' = [name EXCEPT ![record_count] = Inserts[k]]
    /\ UNCHANGED <<sized, record_count, id, k, found>>

\* Mutant: the count starts again.
insert_count_Reset ==
    /\ pc = "count" /\ pc' = "insert" /\ k' = k + 1
    /\ record_count' = k
    /\ UNCHANGED <<sized, id, name, found>>

\* The count is what makes the record part of the table.
insert_count ==
    /\ pc = "count" /\ pc' = "insert" /\ k' = k + 1
    /\ record_count' = record_count + 1
    /\ UNCHANGED <<sized, id, name, found>>

Matches == {s \in 0 .. record_count - 1 : id[s] = Sought}

\* find_record: the first record with the id.
find_record ==
    /\ pc = "insert" /\ k > Len(Inserts) /\ pc' = "found"
    /\ found' = IF Matches = {} THEN -1 ELSE CHOOSE s \in Matches : \A r \in Matches : s <= r
    /\ UNCHANGED <<sized, db, k>>

\* The program ends, or is killed at any point; the mapping is gone.
Stop ==
    /\ pc # "off" /\ pc' = "off"
    /\ UNCHANGED <<sized, db, k, found>>

Insert == insert_check \/ insert_id \/ insert_name \/ insert_count

Next == map_file \/ Insert \/ find_record \/ Stop

Spec == Init /\ [][Next]_vars
-----------------------------------------------------------------------------
\* Types.
TypeOK ==
    /\ sized \in BOOLEAN /\ record_count \in 0 .. MaxRecords
    /\ id \in [Slots -> Ids \cup {0}] /\ name \in [Slots -> Ids \cup {0}]
    /\ pc \in {"off", "insert", "id", "name", "count", "found"}
    /\ k \in 1 .. Len(Inserts) + 1 /\ found \in {-1} \cup Slots

\* Wherever a process was killed, a record below record_count is complete:
\* its id and its name are those of one insert_record.
CountedIsComplete == \A s \in Slots : s < record_count => id[s] \in Ids /\ name[s] = id[s]

\* Records that count are never changed or dropped, by this run of the
\* program or by a later one.
CountedStep == /\ record_count' >= record_count
               /\ \A s \in Slots : s < record_count => id'[s] = id[s] /\ name'[s] = name[s]
CountedStays == [][CountedStep]_vars

\* Where the process is in an insert: the slot it fills is the one after the
\* records that count, and has what has been stored so far.
InsertUnderWay ==
    /\ pc \in {"id", "name", "count"} => record_count < MaxRecords /\ k <= Len(Inserts)
    /\ pc \in {"name", "count"} => id[record_count] = Inserts[k]
    /\ pc = "count" => name[record_count] = Inserts[k]

\* The inductive invariant: types, complete records and the insert under way.
IInv == TypeOK /\ CountedIsComplete /\ InsertUnderWay
=============================================================================

------------------------- MODULE CommandScheduling -------------------------
(***************************************************************************)
(* concurrency/scheduling/commandScheduling.c: DRAM commands in a queue.   *)
(* A read or write of a row that is not open goes back to the end of the   *)
(* queue behind a new ACTIVATE.  Columns are left out.                     *)
(***************************************************************************)
EXTENDS RingQueue, FiniteSets

CONSTANTS Banks, Rows,   \* NUM_BANKS, and the rows that are used
          MaxCommands    \* how many commands main enqueues

Types == {"ACTIVATE", "READ", "WRITE", "PRECHARGE"}
Access == {"READ", "WRITE"}
Commands == [type : Types, bank : Banks, row : Rows, id : 0 .. MaxCommands]

VARIABLES cmd_queue, is_open, open_row,
          given,     \* the commands main has enqueued
          served,    \* the reads and writes that were carried out, by number
          pc         \* "main" or "schedule_commands"

banks == <<is_open, open_row>>
vars == <<cmd_queue, banks, given, served, pc>>

Init == /\ cmd_queue = initQueue /\ given = <<>> /\ served = {} /\ pc = "main"
        /\ is_open = [b \in Banks |-> FALSE] /\ open_row \in [Banks -> Rows]

\* main enqueues commands and calls schedule_commands.
main == \/ \E cmd \in Commands :
              /\ pc = "main" /\ Len(given) < MaxCommands /\ cmd.id = Len(given) + 1
              /\ given' = Append(given, cmd)
              /\ cmd_queue' = enqueue(cmd_queue, cmd)
              /\ UNCHANGED <<banks, served, pc>>
        \/ /\ pc = "main" /\ pc' = "schedule_commands"
           /\ UNCHANGED <<cmd_queue, banks, given, served>>

Hit(cmd) == is_open[cmd.bank] /\ open_row[cmd.bank] = cmd.row

\* An open bank keeps its row.
Activate(cmd) ==
    /\ is_open' = [is_open EXCEPT ![cmd.bank] = TRUE]
    /\ open_row' = IF is_open[cmd.bank] THEN open_row ELSE [open_row EXCEPT ![cmd.bank] = cmd.row]

\* Mutant: only the ACTIVATE is put back.
Retry_Drop(q, cmd) ==
    enqueue(q, [type |-> "ACTIVATE", bank |-> cmd.bank, row |-> cmd.row, id |-> 0])

\* Mutant: only the command is put back.
Retry_NoActivate(q, cmd) == enqueue(q, cmd)

Retry(q, cmd) ==
    LET activate == [type |-> "ACTIVATE", bank |-> cmd.bank, row |-> cmd.row, id |-> 0]
    IN enqueue(enqueue(q, activate), cmd)

\* One turn of the loop: the switch over the command that is dequeued.
schedule_commands ==
    /\ pc = "schedule_commands" /\ ~isQueueEmpty(cmd_queue)
    /\ LET cmd == front(cmd_queue)
           q == dequeue(cmd_queue)
       IN \/ /\ cmd.type = "ACTIVATE" /\ Activate(cmd)
             /\ cmd_queue' = q /\ UNCHANGED served
          \/ /\ cmd.type \in Access
             /\ IF Hit(cmd) THEN cmd_queue' = q /\ served' = served \cup {cmd.id}
                ELSE cmd_queue' = Retry(q, cmd) /\ UNCHANGED served
             /\ UNCHANGED banks
          \/ /\ cmd.type = "PRECHARGE"
             /\ is_open' = [is_open EXCEPT ![cmd.bank] = FALSE]
             /\ cmd_queue' = q /\ UNCHANGED <<open_row, served>>
    /\ UNCHANGED <<given, pc>>

Done == pc = "schedule_commands" /\ isQueueEmpty(cmd_queue)

Next == main \/ schedule_commands \/ (Done /\ UNCHANGED vars)
Spec == Init /\ [][Next]_vars /\ WF_vars(schedule_commands)
-----------------------------------------------------------------------------
\* The three fields of the queue agree, through all wrap-arounds.
QueueOK == RingOK(cmd_queue)

\* With room for twice the commands, no read or write is lost: each has been
\* served or is still queued, once, however often it went back.
NoneLost ==
    \A k \in DOMAIN given : given[k].type \in Access =>
        Cardinality({j \in 1 .. cmd_queue.size : Contents(cmd_queue)[j].id = k}) =
            IF k \in served THEN 0 ELSE 1

\* A bank changes its row only while it is closed: rows are never swapped under
\* the commands that wait for them.
RowKept ==
    [][\A b \in Banks : is_open[b] /\ is_open'[b] => open_row'[b] = open_row[b]]_vars

\* Where every bank is asked for one row, the loop ends and all is served.
AllServed == []<>(pc = "schedule_commands" =>
    Done /\ \A k \in DOMAIN given : given[k].type \in Access => k \in served)
=============================================================================

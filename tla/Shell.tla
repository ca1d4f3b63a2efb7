------------------------------- MODULE Shell -------------------------------
(***************************************************************************)
(* utils/sh.c: a shell that runs a pipeline of commands, connects them     *)
(* with pipes and waits for all of them.  Which process holds which end of *)
(* which pipe decides when a reader sees the end of its input and when a   *)
(* writer is told that nobody reads.                                       *)
(***************************************************************************)
EXTENDS Integers, Sequences, FiniteSets

CONSTANTS MaxCommands,   \* bound on the commands of a line
          Reads, Writes, \* how much a command wants to read and to write
          PipeCapacity,  \* what a pipe holds before a writer blocks
          MaxLines       \* bound on the lines typed

VARIABLES phase, lines, num_commands, i,   \* of the shell
          status, want_in, want_out,       \* of each child
          ends,     \* the pipe ends each process holds; process 0 is the shell
          pipe      \* what is in each pipe; pipe k is written by command k

vars == <<phase, lines, num_commands, i, status, want_in, want_out, ends, pipe>>
children == <<status, want_in, want_out>>

Children == 1 .. MaxCommands
Pipes == 1 .. MaxCommands - 1
ReadEnd(k) == <<"r", k>>
WriteEnd(k) == <<"w", k>>
Held(e) == \E p \in 0 .. MaxCommands : e \in ends[p]

Init == /\ phase = "prompt" /\ lines = 0 /\ num_commands = 0 /\ i = 1
        /\ status = [c \in Children |-> "none"]
        /\ want_in = [c \in Children |-> 0] /\ want_out = [c \in Children |-> 0]
        /\ ends = [p \in 0 .. MaxCommands |-> {}]
        /\ pipe = [k \in Pipes |-> 0]

\* A line is read and split at the bars; the end of the input or "exit" ends
\* the shell.
ReadLine ==
    /\ phase = "prompt"
    /\ \/ /\ lines < MaxLines /\ lines' = lines + 1
          /\ num_commands' \in 0 .. MaxCommands
          /\ i' = 1 /\ phase' = "spawn"
          /\ pipe' = [k \in Pipes |-> 0]
          /\ UNCHANGED <<children, ends>>
       \/ /\ phase' = "done"
          /\ UNCHANGED <<lines, num_commands, i, children, ends, pipe>>

\* The pipe made for command i, unless it is the last.
NewEnds == IF i < num_commands THEN {ReadEnd(i), WriteEnd(i)} ELSE {}

\* Mutant: the parent keeps its end of the input pipe.
Closed_KeepRead == {WriteEnd(i)}

\* input_fd and output_fd, which the parent closes once it has forked.
Closed == {ReadEnd(i - 1), WriteEnd(i)}

\* fork: the child has what the shell has.  dup2 and close then move input_fd
\* and output_fd to 0 and 1, which leaves the set of ends it holds as it is.
execute_command ==
    /\ status' = [status EXCEPT ![i] = "running"]
    /\ \E r \in Reads, w \in Writes : /\ want_in' = [want_in EXCEPT ![i] = r]
                                      /\ want_out' = [want_out EXCEPT ![i] = w]
    /\ ends' = [ends EXCEPT ![0] = (@ \cup NewEnds) \ Closed, ![i] = ends[0] \cup NewEnds]

Spawn ==
    /\ phase = "spawn" /\ i <= num_commands
    /\ execute_command
    /\ i' = i + 1
    /\ UNCHANGED <<phase, lines, num_commands, pipe>>

\* pipe or fork fails and the shell exits.
Fail ==
    /\ phase = "spawn" /\ i <= num_commands
    /\ phase' = "done" /\ ends' = [ends EXCEPT ![0] = {}]
    /\ UNCHANGED <<lines, num_commands, i, children, pipe>>

AllSpawned ==
    /\ phase = "spawn" /\ i > num_commands
    /\ phase' = "wait"
    /\ UNCHANGED <<lines, num_commands, i, children, ends, pipe>>

\* The loop around wait ends when no child is left.
WaitAll ==
    /\ phase = "wait" /\ \A c \in Children : status[c] # "running"
    /\ phase' = "prompt" /\ status' = [c \in Children |-> "none"]
    /\ UNCHANGED <<lines, num_commands, i, want_in, want_out, ends, pipe>>
-----------------------------------------------------------------------------
(* The children, and the kernel's pipes.                                   *)

\* Command 1 reads the terminal, where there is always input.
ReadInput(c) ==
    /\ status[c] = "running" /\ want_in[c] > 0
    /\ IF c = 1 THEN want_in' = [want_in EXCEPT ![c] = @ - 1] /\ UNCHANGED pipe
       ELSE IF pipe[c - 1] > 0
       THEN /\ pipe' = [pipe EXCEPT ![c - 1] = @ - 1]
            /\ want_in' = [want_in EXCEPT ![c] = @ - 1]
       ELSE /\ ~Held(WriteEnd(c - 1))   \* end of file
            /\ want_in' = [want_in EXCEPT ![c] = 0] /\ UNCHANGED pipe
    /\ UNCHANGED <<phase, lines, num_commands, i, status, want_out, ends>>

WriteOutput(c) ==
    /\ status[c] = "running" /\ want_out[c] > 0
    /\ IF c = num_commands THEN UNCHANGED pipe
       ELSE /\ Held(ReadEnd(c)) /\ pipe[c] < PipeCapacity
            /\ pipe' = [pipe EXCEPT ![c] = @ + 1]
    /\ want_out' = [want_out EXCEPT ![c] = @ - 1]
    /\ UNCHANGED <<phase, lines, num_commands, i, status, want_in, ends>>

\* A child ends when it has nothing more to do.  SIGPIPE would end it when it
\* writes and nobody holds the read end.
End(c) ==
    /\ status[c] = "running"
    /\ IF want_out[c] > 0 /\ c # num_commands THEN ~Held(ReadEnd(c))
       ELSE want_in[c] = 0 /\ want_out[c] = 0
    /\ status' = [status EXCEPT ![c] = "exited"]
    /\ ends' = [ends EXCEPT ![c] = {}]
    /\ UNCHANGED <<phase, lines, num_commands, i, want_in, want_out, pipe>>

ShellStep == ReadLine \/ Spawn \/ Fail \/ AllSpawned \/ WaitAll
ChildStep(c) == ReadInput(c) \/ WriteOutput(c) \/ End(c)

Next == ShellStep \/ \E c \in Children : ChildStep(c)

\* The kernel schedules every process that can go on.
Fairness == WF_vars(ShellStep) /\ \A c \in Children : WF_vars(ChildStep(c))

Spec == Init /\ [][Next]_vars /\ Fairness
-----------------------------------------------------------------------------
\* Types.
TypeOK ==
    /\ phase \in {"prompt", "spawn", "wait", "done"}
    /\ lines \in 0 .. MaxLines /\ num_commands \in 0 .. MaxCommands /\ i \in 1 .. MaxCommands + 1
    /\ status \in [Children -> {"none", "running", "exited"}]
    /\ pipe \in [Pipes -> 0 .. PipeCapacity]
    /\ \A p \in 0 .. MaxCommands :
          ends[p] \subseteq {ReadEnd(k) : k \in Pipes} \cup {WriteEnd(k) : k \in Pipes}

\* Once command k is running the write end of its pipe is nobody's but its
\* own: neither the shell nor a later command keeps the reader from seeing
\* the end of the file.
OnlyWriter ==
    \A k \in Pipes, p \in 0 .. MaxCommands : WriteEnd(k) \in ends[p] => p = k

\* The shell comes back to its prompt with no descriptor more than it had,
\* and with no child running: lines do not pile up descriptors or processes.
PromptIsClean ==
    phase = "prompt" => /\ ends[0] = {}
                        /\ \A c \in Children : status[c] # "running"

\* "Wait for all child processes to finish": the wait comes to an end.
WaitEnds == []<>(phase # "wait")
-----------------------------------------------------------------------------
ShellConstants == /\ MaxCommands \in Nat /\ PipeCapacity \in Nat /\ MaxLines \in Nat
                  /\ Reads \subseteq Nat /\ Writes \subseteq Nat

\* Between two forks the shell holds the read end of the last pipe, and nothing
\* at any other time.
ShellEnds == ends[0] \subseteq IF phase = "spawn" /\ i <= num_commands THEN {ReadEnd(i - 1)} ELSE {}

ShellInv ==
    /\ TypeOK /\ OnlyWriter /\ PromptIsClean /\ ShellEnds
    /\ want_in \in [Children -> Nat] /\ want_out \in [Children -> Nat]
    /\ DOMAIN ends = 0 .. MaxCommands
=============================================================================

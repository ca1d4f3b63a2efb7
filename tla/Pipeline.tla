------------------------------ MODULE Pipeline ------------------------------
(***************************************************************************)
(* os/cpu/cpu.c: a five-stage pipeline that knows one instruction, ADD,    *)
(* and neither stalls nor forwards.  Stages 1 (fetch), 3 (execute) and 5   *)
(* (writeback) do something.  A memory word is one instruction, and the    *)
(* program counter counts instructions, not bytes.                         *)
(***************************************************************************)
EXTENDS Integers

CONSTANTS Registers,
          W,           \* bits of a register
          Size,        \* instructions that fit into the memory
          Programs,    \* the memory contents that are considered
          InitRegs,    \* and what the registers may hold at the start
          MaxCycles

Word == 0 .. 2 ^ W - 1
Instructions == [opcode : {"ADD", "other"}, rd : Registers, rs : Registers, rt : Registers]

VARIABLES programCounter, registers, memory,
          pipeline,    \* [inst, result, valid] of the stages 0 .. 4
          start,       \* the registers at the start
          cycle        \* how many cycles have passed

vars == <<programCounter, registers, memory, pipeline, start, cycle>>

ZeroInst == [opcode |-> "ADD", rd |-> 0, rs |-> 0, rt |-> 0]

initCPU ==
    /\ programCounter = 0 /\ cycle = 0
    /\ memory \in Programs /\ registers \in InitRegs /\ start = registers
    /\ pipeline = [s \in 0 .. 4 |-> [inst |-> ZeroInst, result |-> 0, valid |-> FALSE]]

Add(a, b) == (a + b) % 2 ^ W

writebackStage ==
    LET p == pipeline[4]
    IN IF p.valid /\ p.inst.opcode = "ADD" THEN [registers EXCEPT ![p.inst.rd] = p.result]
       ELSE registers

\* Past the end of the memory stage 0 keeps what it has.
fetchStage(stage) ==
    IF programCounter < Size THEN [stage EXCEPT !.inst = memory[programCounter], !.valid = TRUE]
    ELSE stage

executeStage(stage, regs) ==
    IF ~stage.valid THEN stage
    ELSE [stage EXCEPT !.result = IF stage.inst.opcode = "ADD"
                                  THEN Add(regs[stage.inst.rs], regs[stage.inst.rt]) ELSE 0]

\* Mutant: an instruction is executed before the writeback of the same cycle.
pipelineCycle_Early ==
    /\ registers' = writebackStage
    /\ pipeline' = [s \in 0 .. 4 |-> IF s = 0 THEN fetchStage(pipeline[0])
                                     ELSE IF s = 2 THEN executeStage(pipeline[1], registers)
                                     ELSE pipeline[s - 1]]
    /\ programCounter' = IF programCounter < Size THEN programCounter + 1 ELSE programCounter
    /\ cycle' = cycle + 1
    /\ UNCHANGED <<memory, start>>

\* Writeback, one stage forward, fetch, execute.
pipelineCycle ==
    /\ registers' = writebackStage
    /\ pipeline' = [s \in 0 .. 4 |-> IF s = 0 THEN fetchStage(pipeline[0])
                                     ELSE IF s = 2 THEN executeStage(pipeline[1], registers')
                                     ELSE pipeline[s - 1]]
    /\ programCounter' = IF programCounter < Size THEN programCounter + 1 ELSE programCounter
    /\ cycle' = cycle + 1
    /\ UNCHANGED <<memory, start>>

Init == initCPU
Next == cycle < MaxCycles /\ pipelineCycle
Spec == Init /\ [][Next]_vars
-----------------------------------------------------------------------------
\* Types; registers hold words.
TypeOK == /\ registers \in [Registers -> Word]
          /\ programCounter \in 0 .. Size
          /\ pipeline \in [0 .. 4 -> [inst : Instructions, result : Word, valid : BOOLEAN]]

\* No instruction reads what one of the two before it writes.
HazardFree ==
    \A k \in 0 .. Size - 1 : \A j \in {k - 1, k - 2} \cap (0 .. Size - 1) :
        memory[j].opcode = "ADD" => memory[j].rd \notin {memory[k].rs, memory[k].rt}

Effect(i, regs) == IF i.opcode = "ADD" THEN [regs EXCEPT ![i.rd] = Add(regs[i.rs], regs[i.rt])] ELSE regs

\* The registers after the first n instructions of a program, one after the other.
After(program, regs, n) ==
    LET run[k \in 0 .. Size] == IF k = 0 THEN regs ELSE Effect(program[k - 1], run[k - 1])
    IN run[n]

Sequential(n) == After(memory, start, n)

\* The pipeline computes what the program says, five cycles late, if the program
\* keeps the two instructions' distance that the missing forwarding asks for.
IsSequential ==
    HazardFree /\ cycle - 5 <= Size => registers = Sequential(IF cycle < 5 THEN 0 ELSE cycle - 5)
-----------------------------------------------------------------------------
\* The inductive invariant: which instruction each stage has, and that from
\* execution on it has the result of running the program up to it.

PipelineConstants == /\ 0 \in Registers /\ 2 ^ W \in Nat \ {0} /\ Size \in Nat
                     /\ Programs \subseteq [0 .. Size - 1 -> Instructions]
                     /\ InitRegs \subseteq [Registers -> Word]

RegisterFile == [Registers -> Word]

\* The instruction in a stage, counted from the start of the program.
At(s) == cycle - 1 - s

StagesHold ==
    \A s \in 0 .. 4 : /\ At(s) < 0 => ~ pipeline[s].valid
                      /\ At(s) \in 0 .. Size - 1 => pipeline[s].valid /\ pipeline[s].inst = memory[At(s)]

ResultsHold ==
    HazardFree => \A s \in 2 .. 4 : At(s) \in 0 .. Size - 1 /\ memory[At(s)].opcode = "ADD" =>
        pipeline[s].result = Add(Sequential(At(s))[memory[At(s)].rs], Sequential(At(s))[memory[At(s)].rt])

PipelineInv == /\ TypeOK /\ memory \in [0 .. Size - 1 -> Instructions] /\ start \in [Registers -> Word]
               /\ cycle \in Nat /\ programCounter = (IF cycle < Size THEN cycle ELSE Size)
               /\ StagesHold /\ ResultsHold /\ IsSequential
=============================================================================

---------------------------- MODULE ProcessorSim ----------------------------
(***************************************************************************)
(* unix/processor_sim.c: decoding and executing ALU instructions on        *)
(* registers of W bits.  An encoded instruction is a number: from the top  *)
(* the type, the destination, two sources and an immediate value.          *)
(***************************************************************************)
EXTENDS Integers

CONSTANTS W,                        \* bits of a register
          RegBits, ImmBits,         \* bits of these fields, 5 and 11 in the code
          RegCount,                 \* REG_COUNT
          Instructions,             \* the encoded instructions that may come next
          R1, R2                    \* what main puts into these registers

VARIABLES registers, flags, pc,
          last      \* the last operation and its operands

vars == <<registers, flags, pc, last>>

Word == 0 .. 2 ^ W - 1
Regs == 0 .. 2 ^ RegBits - 1     \* the registers an instruction can name

\* memset, and main's two test values.
initialize_processor ==
    /\ registers \in {[r \in Regs |-> IF r = 1 THEN a ELSE IF r = 2 THEN b ELSE 0] :
                        a \in R1, b \in R2}
    /\ flags = [zero |-> FALSE, carry |-> FALSE, negative |-> FALSE, overflow |-> FALSE]
    /\ pc = 0 /\ last = [op |-> -1]

\* Every type is taken for an ALU operation: its low three bits.
decode_instruction(e) ==
    [alu_op |-> (e \div 2 ^ (ImmBits + 3 * RegBits)) % 8,
     rd |-> (e \div 2 ^ (ImmBits + 2 * RegBits)) % 2 ^ RegBits,
     rs1 |-> (e \div 2 ^ (ImmBits + RegBits)) % 2 ^ RegBits,
     rs2 |-> (e \div 2 ^ ImmBits) % 2 ^ RegBits,
     immediate |-> e % 2 ^ ImmBits]

Bit(n, i) == (n \div 2 ^ i) % 2 = 1

\* The results an operation may have: a shift by the width or more is undefined in
\* C; a compiler folds it to 0, the hardware takes the shift modulo the width.
perform_alu_operation(a, b, op) ==
    CASE op = 0 -> {(a + b) % 2 ^ W}
      [] op = 1 -> {(a - b) % 2 ^ W}
      [] op = 2 -> {r \in Word : \A i \in 0 .. W - 1 : Bit(r, i) <=> (Bit(a, i) /\ Bit(b, i))}
      [] op = 3 -> {r \in Word : \A i \in 0 .. W - 1 : Bit(r, i) <=> (Bit(a, i) \/ Bit(b, i))}
      [] op = 4 -> {r \in Word : \A i \in 0 .. W - 1 : Bit(r, i) <=> (Bit(a, i) # Bit(b, i))}
      [] op = 5 -> {(a * 2 ^ (b % W)) % 2 ^ W} \cup (IF b < W THEN {} ELSE {0})
      [] op = 6 -> {a \div 2 ^ (b % W)} \cup (IF b < W THEN {} ELSE {0})
      [] OTHER -> {0}

Carry(a, b, op, result) ==
    IF op = 0 THEN result < a ELSE IF op = 1 THEN a < b ELSE flags.carry

execute_alu_operation(inst) ==
    LET op1 == registers[inst.rs1]
        op2 == IF inst.rs2 < RegCount THEN registers[inst.rs2] ELSE inst.immediate
    IN /\ \E result \in perform_alu_operation(op1, op2, inst.alu_op) :
             /\ registers' = [registers EXCEPT ![inst.rd] = result]
             /\ flags' = [flags EXCEPT !.carry = Carry(op1, op2, inst.alu_op, result),
                                       !.zero = result = 0,
                                       !.negative = result >= 2 ^ (W - 1)]
       /\ last' = [op |-> inst.alu_op, a |-> op1, b |-> op2, rd |-> inst.rd]

\* One turn of main's loop, for the next instruction.
Step(e) == execute_alu_operation(decode_instruction(e)) /\ pc' = (pc + 4) % 2 ^ W

Init == initialize_processor
Next == \E e \in Instructions : Step(e)
Spec == Init /\ [][Next]_vars
-----------------------------------------------------------------------------
\* Types: registers hold words, whatever is computed.
TypeOK == registers \in [Regs -> Word] /\ pc \in Word

\* The carry flag is the carry out of an addition and the borrow of a subtraction
\* in full precision, whichever register the result went to, an operand included.
CarryIsRight == /\ last.op = 0 => (flags.carry <=> last.a + last.b >= 2 ^ W)
                /\ last.op = 1 => (flags.carry <=> last.a - last.b < 0)
-----------------------------------------------------------------------------
\* The inductive invariant; the powers of two are the numbers they should be.

ProcessorConstants == /\ W \in Nat \ {0} /\ RegBits \in Nat /\ ImmBits \in Nat
                      /\ \A k \in 0 .. W + ImmBits + 3 * RegBits : 2 ^ k \in Nat \ {0}
                      /\ 2 ^ ImmBits <= 2 ^ W
                      /\ Instructions \subseteq Nat /\ R1 \subseteq Word /\ R2 \subseteq Word

Flags == [zero : BOOLEAN, carry : BOOLEAN, negative : BOOLEAN, overflow : BOOLEAN]

ProcessorInv == TypeOK /\ flags \in Flags /\ CarryIsRight
=============================================================================

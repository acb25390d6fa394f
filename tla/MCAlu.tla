------------------------------- MODULE MCAlu -------------------------------
(* Operands at the edges of a digit, of a byte and of its sign.  The machine *)
(* stops after an instruction that leaves another value in B: B is only     *)
(* read by MUL and DIV, which TLC meets with every accumulator.             *)
EXTENDS Alu

Edges == {0, 1, 15, 25, 128, 255}
BInOperands == cpu.b \in Operands
=============================================================================

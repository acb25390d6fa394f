------------------------------ MODULE Defs8051 ------------------------------
(***************************************************************************)
(* The definitions of src/src/8051.h and cpu8051.h that the models of the  *)
(* components share.  An 8-bit register whose bits are flags is the set    *)
(* of the positions of its set bits.                                       *)
(***************************************************************************)
EXTENDS Integers

Bit == 0 .. 7
Byte == SUBSET Bit

(* The bits a byte-sized integer constant has set: what "reg & n" selects. *)
MaskBits(n) == {i \in Bit : (n \div 2^i) % 2 = 1}

(* The byte whose set bits are given. *)
Number == LET w(S, i, n) == IF i \in S THEN n ELSE 0
          IN [S \in Byte |-> w(S, 0, 1) + w(S, 1, 2) + w(S, 2, 4) + w(S, 3, 8)
                               + w(S, 4, 16) + w(S, 5, 32) + w(S, 6, 64) + w(S, 7, 128)]

(* TCON *)
TF1 == 7
TR1 == 6
TF0 == 5
TR0 == 4
IE1 == 3
IT1 == 2
IE0 == 1
IT0 == 0

(* IE and IP use the same positions; EA exists in IE alone.  8051.h names  *)
(* both the position IP_EA_BIT and the mask IP_EA_MSK = 0x80.              *)
IP_PX0_BIT == 0
IP_PT0_BIT == 1
IP_PX1_BIT == 2
IP_PT1_BIT == 3
IP_EA_BIT == 7

INT_LVL_OFF == 0
INT_LVL_LO == 1
INT_LVL_HI == 2
Levels == {INT_LVL_OFF, INT_LVL_LO, INT_LVL_HI}

(* The interrupt sources, in the order process_interrupts() polls them.    *)
Ext == {"EXT0", "EXT1"}
Tim == {"TIM0", "TIM1"}
Sources == Ext \cup Tim

EnableBit(s) == CASE s = "EXT0" -> IP_PX0_BIT
                  [] s = "TIM0" -> IP_PT0_BIT
                  [] s = "EXT1" -> IP_PX1_BIT
                  [] s = "TIM1" -> IP_PT1_BIT

RequestFlag(s) == IF s = "EXT0" THEN IE0 ELSE IE1
EdgeFlag(s) == IF s = "EXT0" THEN IT0 ELSE IT1
OverflowFlag(s) == IF s = "TIM0" THEN TF0 ELSE TF1
RunFlag(s) == IF s = "TIM0" THEN TR0 ELSE TR1

TIMER_13BIT == 0
TIMER_16BIT == 1
TIMER_8BIT_AUTO == 2
TIMER_SPLIT == 3
TimerModes == {TIMER_13BIT, TIMER_16BIT, TIMER_8BIT_AUTO, TIMER_SPLIT}
=============================================================================

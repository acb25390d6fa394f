------------------------------ MODULE MCMemory ------------------------------
(* Two RAM bytes, both reached as R0 and through @R0, the second with       *)
(* addressable bits; DPTR, ACC, PSW and P1; one address without a standard  *)
(* SFR, and a peripheral that answers for it, P1 and ACC; two bytes of      *)
(* external memory, one of them beyond the reach of @R0.  Programs store 1, *)
(* and set and clear the top bit: a byte is 0, 1, 128 or 129, as a pointer  *)
(* to the RAM or to where the SFRs are, and in PSW with P and CY either way.*)
EXTENDS Memory

P1 == 144
Other == 192
SmallStored == {{0}}
SmallBits == {0, 7, P1, ACC, PSW + 7}

CONSTANT MaxNonZero

(* Bound: states with other bytes, which counting leads to, with more than  *)
(* MaxNonZero bytes that are not 0, PSW left aside, or with both callbacks  *)
(* registered, or with a byte that is not 0 in int_ram behind a standard    *)
(* SFR other than P1 are checked but not continued.  PSW takes all four     *)
(* values, the RAM and ACC three, the others two.                           *)
NonZero == {x \in Cell : x # <<"sfr", PSW>> /\ Contents(Now)[x] # {}}
SmallBytes == /\ ~(registered /\ ext_registered)
              /\ Cardinality(NonZero) <= MaxNonZero
              /\ \A a \in Standard \ {P1} : int_ram[a] = {}
              /\ sfr[PSW] \subseteq {0, 7}
              /\ \A a \in Ram : int_ram[a] \in {{}, {0}, {7}}
              /\ sfr[ACC] \in {{}, {0}, {7}}
              /\ \A x \in NonZero \ ({Acc} \cup ({"ram"} \X Ram)) : Contents(Now)[x] = {0}
=============================================================================

--------------------------------- MODULE Alu ---------------------------------
(***************************************************************************)
(* The instructions of inst.c that compute: each is an operator from the   *)
(* accumulator, B and the flags of PSW, and the operand fetch_arg() found, *)
(* to what it leaves there.  The machine runs them in any order.           *)
(***************************************************************************)
EXTENDS Defs8051, FiniteSets

CONSTANTS
  Operands,   \* bytes that instructions find in memory or in the code
  Undefined   \* what DIV by zero leaves in B: an uninitialized local

ByteValue == 0 .. 255

ASSUME OperandsAssumption == Operands \subseteq ByteValue
ASSUME UndefinedAssumption == Undefined \notin ByteValue

VARIABLE cpu
vars == <<cpu>>

CPU == [acc : ByteValue, b : ByteValue \cup {Undefined},
        cy : BOOLEAN, ac : BOOLEAN, ov : BOOLEAN, p : BOOLEAN]

Init == cpu = [acc |-> 0, b |-> 0, cy |-> FALSE, ac |-> FALSE, ov |-> FALSE, p |-> FALSE]
-----------------------------------------------------------------------------
(* Bytes and their bits *)
Carry(s) == IF s.cy THEN 1 ELSE 0
Negative(n) == n % 256 >= 128

Xor(S, T) == (S \cup T) \ (S \cap T)
Shifted(S, k) == {i - k : i \in {j \in S : j >= k}}

Halved(S, k) == Xor(S, Shifted(S, k))
odd_parity8 == [n \in ByteValue |-> 0 \in Halved(Halved(Halved(MaskBits(n), 4), 2), 1)]

And(m, n) == Number[MaskBits(m) \cap MaskBits(n)]
Or(m, n) == Number[MaskBits(m) \cup MaskBits(n)]
ExclusiveOr(m, n) == Number[Xor(MaskBits(m), MaskBits(n))]

(* write_arg() to ACC: the parity flag follows. *)
WithAcc(s, n) == [s EXCEPT !.acc = n, !.p = odd_parity8[n]]
-----------------------------------------------------------------------------
(* Arithmetic *)
Sum(s, x, c) ==
  LET n == s.acc + x + c
  IN [WithAcc(s, n % 256) EXCEPT
        !.cy = n >= 256,
        !.ac = (s.acc % 16) + ((x + c) % 16) >= 16,
        !.ov = Negative(s.acc) # Negative(n)]

ADD(s, x) == Sum(s, x, 0)

AddcDroppingCarry(s, x) == Sum(s, x, 0)
ADDC(s, x) == Sum(s, x, Carry(s))

SubbIgnoringBorrow(s, x) ==
  [WithAcc(s, (s.acc - x) % 256) EXCEPT !.cy = x >= s.acc]

(* The flags compare the operand alone: the borrow taken is not in them.   *)
SUBB(s, x) ==
  LET n == s.acc - x - Carry(s)
  IN [WithAcc(s, n % 256) EXCEPT
        !.cy = x > s.acc,
        !.ac = x % 16 > s.acc % 16,
        !.ov = Negative(s.acc) # Negative(n)]

INC(n) == (n + 1) % 256
DEC(n) == (n - 1) % 256

DaHighDigitFirst(s) ==
  LET low == IF s.ac \/ s.acc % 16 > 9 THEN s.acc + 6 ELSE s.acc
      high == IF s.cy \/ s.acc >= 160 THEN low + 96 ELSE low
  IN [WithAcc(s, high % 256) EXCEPT !.cy = s.cy \/ high >= 256]

DA(s) ==
  LET low == IF s.ac \/ s.acc % 16 > 9 THEN s.acc + 6 ELSE s.acc
      carry == s.cy \/ low >= 256
      high == IF carry \/ low >= 160 THEN low + 96 ELSE low
  IN [WithAcc(s, high % 256) EXCEPT !.cy = carry \/ high >= 256]

MulUnshifted(s) == LET n == s.acc * s.b
                   IN [WithAcc(s, n % 256) EXCEPT !.b = n, !.cy = FALSE, !.ov = n > 255]

MUL(s) == LET n == s.acc * s.b
          IN [WithAcc(s, n % 256) EXCEPT !.b = n \div 256, !.cy = FALSE, !.ov = n > 255]

DivSwapped(s) == IF s.b = 0 THEN [s EXCEPT !.b = Undefined, !.cy = FALSE, !.ov = TRUE]
                 ELSE [WithAcc(s, s.acc % s.b) EXCEPT !.b = s.acc \div s.b]

DIV(s) == IF s.b = 0
          THEN [WithAcc(s, s.acc) EXCEPT !.b = Undefined, !.cy = FALSE, !.ov = TRUE]
          ELSE [WithAcc(s, s.acc \div s.b) EXCEPT
                  !.b = s.acc % s.b, !.cy = FALSE, !.ov = FALSE]

(* CJNE stores the order of its operands in the carry. *)
CJNE(s, x) == [s EXCEPT !.cy = s.acc < x]
-----------------------------------------------------------------------------
(* Rotates; RL, RR and SWAP leave the parity flag as it was. *)
RL(s) == [s EXCEPT !.acc = (s.acc % 128) * 2 + (s.acc \div 128)]
RR(s) == [s EXCEPT !.acc = (s.acc \div 2) + (s.acc % 2) * 128]
SWAP(s) == [s EXCEPT !.acc = (s.acc \div 16) + (s.acc % 16) * 16]

RLC(s) == LET n == s.acc * 2 + Carry(s)
          IN [WithAcc(s, n % 256) EXCEPT !.cy = n >= 256]

RrcStaleParity(s) == [s EXCEPT !.acc = (s.acc \div 2) + 128 * Carry(s), !.cy = s.acc % 2 = 1]
RrcCarryFirst(s) == [WithAcc(s, (s.acc \div 2) + 128 * (s.acc % 2)) EXCEPT !.cy = s.acc % 2 = 1]

RRC(s) == [WithAcc(s, (s.acc \div 2) + 128 * Carry(s)) EXCEPT !.cy = s.acc % 2 = 1]
-----------------------------------------------------------------------------
(* Logic on the accumulator and on the carry *)
ANL(s, x) == WithAcc(s, And(s.acc, x))
ORL(s, x) == WithAcc(s, Or(s.acc, x))
XRL(s, x) == WithAcc(s, ExclusiveOr(s.acc, x))
CPL(s) == WithAcc(s, ExclusiveOr(s.acc, 255))

(* XCHD takes the low digit of the operand. *)
XCHD(s, x) == WithAcc(s, (s.acc \div 16) * 16 + (x % 16))
-----------------------------------------------------------------------------
(* One instruction.  MOV, XCH, MOVC and MOVX load ACC alike; CLR A is a    *)
(* load of 0.                                                              *)
Load(x) == cpu' = WithAcc(cpu, x)
LoadB(x) == cpu' = [cpu EXCEPT !.b = x]

Arithmetic(x) == cpu' \in {ADD(cpu, x), ADDC(cpu, x), SUBB(cpu, x), CJNE(cpu, x)}
Logic(x) == cpu' \in {ANL(cpu, x), ORL(cpu, x), XRL(cpu, x), XCHD(cpu, x)}

Adjust == cpu' \in {WithAcc(cpu, INC(cpu.acc)), WithAcc(cpu, DEC(cpu.acc)),
                    DA(cpu), CPL(cpu)}
Rotate == cpu' \in {RL(cpu), RR(cpu), SWAP(cpu), RLC(cpu), RRC(cpu)}

(* A program does not compute with the B that DIV by zero leaves. *)
Multiply == cpu.b # Undefined /\ cpu' = MUL(cpu)
Divide == cpu.b # Undefined /\ cpu' = DIV(cpu)

(* SETB C, CLR C, CPL C, and MOV, ANL and ORL of C with a bit. *)
StoreCarry == \E c \in BOOLEAN : cpu' = [cpu EXCEPT !.cy = c]

(* A store to PSW sets the parity flag like any other. *)
StorePsw == \E cy, ac, ov, p \in BOOLEAN :
              cpu' = [cpu EXCEPT !.cy = cy, !.ac = ac, !.ov = ov, !.p = p]

Next == \/ \E x \in Operands : Load(x) \/ LoadB(x) \/ Arithmetic(x) \/ Logic(x)
        \/ Adjust \/ Rotate \/ Multiply \/ Divide \/ StoreCarry \/ StorePsw

Spec == Init /\ [][Next]_vars
-----------------------------------------------------------------------------
(* The accumulator, B and the flags stay in range after every instruction. *)
TypeOK == cpu \in CPU

(* Once P tells the parity of ACC, no instruction that stores ACC makes it *)
(* wrong, though the rotates never compute it.  A step that changes flags  *)
(* alone, as CJNE does, looks like a store to PSW, and nothing is claimed. *)
Parity(n) == Cardinality(MaskBits(n)) % 2 = 1

ParityKept ==
  [][cpu.p = Parity(cpu.acc) /\ ~StorePsw => cpu'.p = Parity(cpu'.acc)]_vars

(* ADD of the low bytes, then ADDC of the high bytes, adds two-byte        *)
(* numbers: the carry between them is not lost and the last one is right.  *)
WideSum ==
  \A x, h, y \in Operands :
    LET low == ADD(cpu, x)
        high == ADDC(WithAcc(low, h), y)
    IN (Carry(high) * 256 + high.acc) * 256 + low.acc
         = (h * 256 + cpu.acc) + (y * 256 + x)

(* Without a borrow to take, ADD undoes SUBB, and the carry of one is the  *)
(* borrow of the other.                                                    *)
AddUndoesSubb ==
  \A x \in Operands :
    LET difference == SUBB([cpu EXCEPT !.cy = FALSE], x)
        sum == ADD(difference, x)
    IN sum.acc = cpu.acc /\ sum.cy = difference.cy

(* DA after ADDC of two decimal bytes leaves the two digits of their sum   *)
(* and the hundreds in the carry, for every pair of decimal bytes.         *)
Decimal(n) == (n \div 16) * 10 + (n % 16)
DecimalBytes == {n \in ByteValue : n % 16 <= 9 /\ n \div 16 <= 9}

DecimalSum ==
  cpu.acc \in DecimalBytes =>
    \A x \in DecimalBytes :
      LET sum == DA(ADDC(cpu, x))
      IN /\ sum.acc \in DecimalBytes
         /\ Carry(sum) * 100 + Decimal(sum.acc)
              = Decimal(cpu.acc) + Decimal(x) + Carry(cpu)

Thrice(s) == RLC(RLC(RLC(s)))

(* The rotates through the carry undo each other, RR undoes RL, SWAP undoes *)
(* itself, and nine rotates through the carry come back to the start.      *)
RotatesInvert ==
  LET same(s) == s.acc = cpu.acc /\ s.cy = cpu.cy
  IN /\ same(RRC(RLC(cpu))) /\ same(RLC(RRC(cpu)))
     /\ same(RR(RL(cpu))) /\ same(SWAP(SWAP(cpu)))
     /\ same(Thrice(Thrice(Thrice(cpu))))

(* DIV leaves quotient and remainder, and dividing a product that did not  *)
(* overflow by its factor gives back the other with no remainder.          *)
DivisionInverts ==
  \A y \in Operands \ {0} :
    LET s == [cpu EXCEPT !.b = y]
        quotient == DIV(s)
        product == MUL(s)
        factor == DIV([product EXCEPT !.b = y])
    IN /\ quotient.acc * y + quotient.b = s.acc /\ quotient.b < y
       /\ product.b * 256 + product.acc = s.acc * y
       /\ product.ov = (product.b # 0)
       /\ ~product.ov => factor.acc = s.acc /\ factor.b = 0

(* SUBB is "Subtract from accumulator with borrow": after SUBB of the low  *)
(* and of the high bytes the carry is the borrow of the two-byte number.   *)
WideDifference ==
  \A x, h, y \in Operands :
    LET low == SUBB([cpu EXCEPT !.cy = FALSE], x)
        high == SUBB(WithAcc(low, h), y)
    IN high.cy = (h * 256 + cpu.acc < y * 256 + x)
=============================================================================

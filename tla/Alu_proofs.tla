----------------------------- MODULE Alu_proofs -----------------------------
(***************************************************************************)
(* Proofs about Alu, for every set of operands: the bytes and flags stay   *)
(* in range, the parity flag follows the accumulator, and the arithmetic   *)
(* of several instructions in a row is that of the numbers they work on.   *)
(***************************************************************************)
EXTENDS Alu, FiniteSetTheorems, TLAPS

(* Bytes and their bits *)

LEMMA NumberType ==
  ASSUME NEW S \in SUBSET Bit
  PROVE  Number[S] \in ByteValue
BY DEF Number, Byte, ByteValue

LEMMA MaskBitsType ==
  ASSUME NEW n
  PROVE  MaskBits(n) \in SUBSET Bit
BY DEF MaskBits

LEMMA BitsOf ==
  ASSUME NEW n \in Int
  PROVE  /\ 0 \in MaskBits(n) <=> n % 2 = 1
         /\ 1 \in MaskBits(n) <=> (n \div 2) % 2 = 1
         /\ 2 \in MaskBits(n) <=> (n \div 4) % 2 = 1
         /\ 3 \in MaskBits(n) <=> (n \div 8) % 2 = 1
         /\ 4 \in MaskBits(n) <=> (n \div 16) % 2 = 1
         /\ 5 \in MaskBits(n) <=> (n \div 32) % 2 = 1
         /\ 6 \in MaskBits(n) <=> (n \div 64) % 2 = 1
         /\ 7 \in MaskBits(n) <=> (n \div 128) % 2 = 1
BY DEF MaskBits, Bit

LEMMA LogicType ==
  ASSUME NEW m, NEW n
  PROVE  And(m, n) \in ByteValue /\ Or(m, n) \in ByteValue /\ ExclusiveOr(m, n) \in ByteValue
BY MaskBitsType, NumberType DEF And, Or, ExclusiveOr, Xor

(* The parity of a set of bits, without counting them. *)
Odd(S) == ((((0 \in S) # (1 \in S)) # ((2 \in S) # (3 \in S)))
             # (((4 \in S) # (5 \in S)) # ((6 \in S) # (7 \in S))))

(* odd_parity8() folds the byte upon itself three times. *)
LEMMA HalvedBit ==
  ASSUME NEW S \in SUBSET Int, NEW k \in Int, NEW i \in Nat
  PROVE  i \in Halved(S, k) <=> ((i \in S) # (i + k \in S))
<1>1. i \in Shifted(S, k) <=> i + k \in S
  <2>1. ASSUME i + k \in S PROVE i \in Shifted(S, k)
    <3>1. i + k \in {j \in S : j >= k} /\ i = (i + k) - k
      BY <2>1
    <3> QED
      BY <3>1 DEF Shifted
  <2>2. ASSUME i \in Shifted(S, k) PROVE i + k \in S
    <3>1. PICK j \in S : i = j - k
      BY <2>2 DEF Shifted
    <3>2. i + k = j
      BY <3>1
    <3> QED
      BY <3>2
  <2> QED
    BY <2>1, <2>2
<1> QED
  BY <1>1 DEF Halved, Xor

LEMMA HalvedType ==
  ASSUME NEW S \in SUBSET Int, NEW k \in Int
  PROVE  Halved(S, k) \in SUBSET Int
<1>1. \A i \in Shifted(S, k) : i \in Int
  BY DEF Shifted
<1> QED
  BY <1>1 DEF Halved, Xor

LEMMA FoldsToParity ==
  ASSUME NEW S \in SUBSET Int
  PROVE  0 \in Halved(Halved(Halved(S, 4), 2), 1) <=> Odd(S)
<1> DEFINE T == Halved(S, 4)
           U == Halved(T, 2)
<1>1. T \in SUBSET Int /\ U \in SUBSET Int
  BY HalvedType
<1>2. \A i \in Nat : i \in T <=> ((i \in S) # (i + 4 \in S))
  BY HalvedBit
<1>3. \A i \in Nat : i \in U <=> ((i \in T) # (i + 2 \in T))
  BY <1>1, HalvedBit
<1>4. 0 \in Halved(U, 1) <=> ((0 \in U) # (0 + 1 \in U))
  BY <1>1, HalvedBit
<1> HIDE DEF T, U
<1>5. /\ (0 \in T) <=> ((0 \in S) # (4 \in S))
      /\ (1 \in T) <=> ((1 \in S) # (5 \in S))
      /\ (2 \in T) <=> ((2 \in S) # (6 \in S))
      /\ (3 \in T) <=> ((3 \in S) # (7 \in S))
  BY <1>2
<1>6. /\ (0 \in U) <=> ((0 \in T) # (2 \in T))
      /\ (1 \in U) <=> ((1 \in T) # (3 \in T))
  BY <1>3
<1>7. 0 \in Halved(U, 1) <=> ((0 \in U) # (1 \in U))
  BY <1>4
<1> QED
  BY <1>5, <1>6, <1>7 DEF Odd, T, U

LEMMA OddStep ==
  ASSUME NEW S, NEW k \in Nat
  PROVE  (Cardinality(S \cap (0 .. k)) % 2 = 1)
           <=> ((Cardinality(S \cap (0 .. k - 1)) % 2 = 1) # (k \in S))
<1> DEFINE T == S \cap (0 .. k - 1)
           U == S \cap (0 .. k)
<1>1. IsFiniteSet(T) /\ Cardinality(T) \in Nat
  <2>1. k - 1 \in Int /\ T \subseteq 0 .. k - 1
    OBVIOUS
  <2>2. IsFiniteSet(0 .. k - 1)
    BY <2>1, FS_Interval
  <2>3. IsFiniteSet(T)
    BY <2>1, <2>2, FS_Subset
  <2> QED
    BY <2>3, FS_CardinalityType
<1>2. CASE k \in S
  <2>1. U = T \cup {k} /\ k \notin T
    BY <1>2
  <2>2. Cardinality(U) = Cardinality(T) + 1
    BY <1>1, <2>1, FS_AddElement
  <2> QED
    BY <1>1, <1>2, <2>2
<1>3. CASE k \notin S
  <2>1. U = T
    BY <1>3
  <2>2. Cardinality(U) = Cardinality(T)
    BY <2>1
  <2> HIDE DEF T, U
  <2>3. (Cardinality(U) % 2 = 1) <=> ((Cardinality(T) % 2 = 1) # (k \in S))
    BY <1>3, <2>2
  <2> QED
    BY <2>3 DEF T, U
<1> QED
  BY <1>2, <1>3

LEMMA CountsToParity ==
  ASSUME NEW S \in SUBSET Bit
  PROVE  Cardinality(S) % 2 = 1 <=> Odd(S)
<1> DEFINE odd(k) == Cardinality(S \cap (0 .. k)) % 2 = 1
<1>1. ~odd(-1)
  <2>1. S \cap (0 .. -1) = {}
    OBVIOUS
  <2> QED
    BY <2>1, FS_EmptySet
<1>2. \A k \in Nat : odd(k) <=> (odd(k - 1) # (k \in S))
  BY OddStep
<1>3. S \cap (0 .. 7) = S
  BY DEF Bit
<1>4. odd(7) <=> Cardinality(S) % 2 = 1
  BY <1>3
<1>5. \A k : odd(k) \in BOOLEAN
  OBVIOUS
<1> HIDE DEF odd
<1>6. /\ odd(0) <=> (odd(-1) # (0 \in S))
      /\ odd(1) <=> (odd(0) # (1 \in S))
      /\ odd(2) <=> (odd(1) # (2 \in S))
      /\ odd(3) <=> (odd(2) # (3 \in S))
      /\ odd(4) <=> (odd(3) # (4 \in S))
      /\ odd(5) <=> (odd(4) # (5 \in S))
      /\ odd(6) <=> (odd(5) # (6 \in S))
      /\ odd(7) <=> (odd(6) # (7 \in S))
  <2>1. \A k \in 0 .. 7 : odd(k) <=> (odd(k - 1) # (k \in S))
    BY <1>2
  <2>2. 0 - 1 = -1 /\ 1 - 1 = 0 /\ 2 - 1 = 1 /\ 3 - 1 = 2
        /\ 4 - 1 = 3 /\ 5 - 1 = 4 /\ 6 - 1 = 5 /\ 7 - 1 = 6
    OBVIOUS
  <2> QED
    BY <2>1, <2>2
<1> QED
  BY <1>1, <1>4, <1>5, <1>6 DEF Odd

(* The parity flag's table: what three folds of the byte leave in bit 0 is *)
(* the parity of its bits.                                                 *)
LEMMA ParityTable ==
  ASSUME NEW n \in ByteValue
  PROVE  odd_parity8[n] = Parity(n) /\ odd_parity8[n] \in BOOLEAN
<1>1. MaskBits(n) \in SUBSET Bit /\ MaskBits(n) \in SUBSET Int
  BY MaskBitsType DEF Bit
<1>2. odd_parity8[n] = (0 \in Halved(Halved(Halved(MaskBits(n), 4), 2), 1))
  BY DEF odd_parity8
<1> QED
  BY <1>1, <1>2, FoldsToParity, CountsToParity DEF Parity
-----------------------------------------------------------------------------
(* What each instruction leaves in range *)

LEMMA AccWritten ==
  ASSUME NEW s \in CPU, NEW n \in ByteValue
  PROVE  /\ WithAcc(s, n) \in CPU
         /\ WithAcc(s, n).acc = n /\ WithAcc(s, n).p = Parity(n)
         /\ WithAcc(s, n).b = s.b
         /\ WithAcc(s, n).cy = s.cy /\ WithAcc(s, n).ac = s.ac /\ WithAcc(s, n).ov = s.ov
BY ParityTable DEF WithAcc, CPU

LEMMA Reduced ==
  ASSUME NEW n \in Int
  PROVE  n % 256 \in ByteValue
BY DEF ByteValue

LEMMA CarryType ==
  ASSUME NEW s
  PROVE  Carry(s) \in 0 .. 1
BY DEF Carry

LEMMA NegativeType ==
  ASSUME NEW n \in Int
  PROVE  Negative(n) \in BOOLEAN
BY DEF Negative

(* The carry out of the low digits *)
HalfCarry(a, n) == (a % 16) + (n % 16) >= 16

(* ADD and ADDC *)
LEMMA SumResult ==
  ASSUME NEW s \in CPU, NEW x \in ByteValue, NEW c \in 0 .. 1
  PROVE  /\ Sum(s, x, c) \in CPU
         /\ Sum(s, x, c).acc = (s.acc + x + c) % 256
         /\ Sum(s, x, c).cy = (s.acc + x + c >= 256)
         /\ Sum(s, x, c).ac = HalfCarry(s.acc, x + c)
         /\ Sum(s, x, c).p = Parity(Sum(s, x, c).acc)
<1> DEFINE cy == s.acc + x + c >= 256
           ac == (s.acc % 16) + ((x + c) % 16) >= 16
           ov == Negative(s.acc) # Negative(s.acc + x + c)
<1>1. s.acc + x + c \in Int
  BY DEF CPU, ByteValue
<1>2. PICK t \in CPU : /\ t = WithAcc(s, (s.acc + x + c) % 256)
                       /\ t.acc = (s.acc + x + c) % 256 /\ t.p = Parity(t.acc)
  BY <1>1, Reduced, AccWritten
<1>3. Sum(s, x, c) = [t EXCEPT !.cy = cy, !.ac = ac, !.ov = ov]
  BY <1>2 DEF Sum
<1>4. cy \in BOOLEAN /\ ac \in BOOLEAN /\ ov \in BOOLEAN
  OBVIOUS
<1> HIDE DEF cy, ac, ov
<1>5. /\ Sum(s, x, c) \in CPU /\ Sum(s, x, c).acc = t.acc /\ Sum(s, x, c).p = t.p
      /\ Sum(s, x, c).cy = cy /\ Sum(s, x, c).ac = ac
  BY <1>3, <1>4 DEF CPU
<1> QED
  BY <1>2, <1>5 DEF cy, ac, HalfCarry

LEMMA SubbResult ==
  ASSUME NEW s \in CPU, NEW x \in ByteValue
  PROVE  /\ SUBB(s, x) \in CPU
         /\ SUBB(s, x).acc = (s.acc - x - Carry(s)) % 256
         /\ SUBB(s, x).cy = (x > s.acc)
         /\ SUBB(s, x).p = Parity(SUBB(s, x).acc)
<1> DEFINE n == s.acc - x - Carry(s)
           cy == x > s.acc
           ac == x % 16 > s.acc % 16
           ov == Negative(s.acc) # Negative(n)
<1>1. n \in Int
  BY CarryType DEF CPU, ByteValue
<1>2. PICK t \in CPU : t = WithAcc(s, n % 256) /\ t.acc = n % 256 /\ t.p = Parity(t.acc)
  BY <1>1, Reduced, AccWritten
<1>3. SUBB(s, x) = [t EXCEPT !.cy = cy, !.ac = ac, !.ov = ov]
  BY <1>2 DEF SUBB
<1>4. cy \in BOOLEAN /\ ac \in BOOLEAN /\ ov \in BOOLEAN
  OBVIOUS
<1> HIDE DEF cy, ac, ov
<1>5. /\ SUBB(s, x) \in CPU /\ SUBB(s, x).acc = t.acc /\ SUBB(s, x).p = t.p
      /\ SUBB(s, x).cy = cy
  BY <1>3, <1>4 DEF CPU
<1> QED
  BY <1>2, <1>5 DEF cy

LEMMA AdjustedResult ==
  ASSUME NEW s \in CPU
  PROVE  /\ DA(s) \in CPU /\ DA(s).p = Parity(DA(s).acc)
         /\ LET low == IF s.ac \/ s.acc % 16 > 9 THEN s.acc + 6 ELSE s.acc
                carry == s.cy \/ low >= 256
                high == IF carry \/ low >= 160 THEN low + 96 ELSE low
            IN DA(s).acc = high % 256 /\ DA(s).cy = (carry \/ high >= 256)
<1> DEFINE low == IF s.ac \/ s.acc % 16 > 9 THEN s.acc + 6 ELSE s.acc
           carry == s.cy \/ low >= 256
           high == IF carry \/ low >= 160 THEN low + 96 ELSE low
           t == WithAcc(s, high % 256)
<1>1. low \in Int /\ high \in Int
  BY DEF CPU, ByteValue
<1>2. high % 256 \in ByteValue
  BY <1>1, Reduced
<1>3. t \in CPU /\ t.acc = high % 256 /\ t.p = Parity(t.acc)
  BY <1>2, AccWritten
<1>4. DA(s) = [t EXCEPT !.cy = carry \/ high >= 256]
  BY DEF DA
<1> HIDE DEF t, low, high, carry
<1>5. (carry \/ high >= 256) \in BOOLEAN
  OBVIOUS
<1>6. DA(s) \in CPU /\ DA(s).acc = t.acc /\ DA(s).p = t.p
      /\ DA(s).cy = (carry \/ high >= 256)
  BY <1>3, <1>4, <1>5 DEF CPU
<1> QED
  BY <1>3, <1>6 DEF low, carry, high

LEMMA QuotientRemainder ==
  ASSUME NEW n \in Nat, NEW y \in Nat \ {0}
  PROVE  /\ n \div y \in Nat /\ (n % y) \in Nat
         /\ (n \div y) * y + (n % y) = n /\ (n % y) < y /\ n \div y <= n
<1>1. /\ n \div y \in Int /\ n % y \in 0 .. (y - 1)
      /\ n = y * (n \div y) + (n % y)
  OBVIOUS
<1>2. n \div y >= 0
  BY <1>1
<1>3. PICK q \in Nat : q = n \div y
  BY <1>1, <1>2
<1>4. PICK d \in Nat : y = 1 + d
  <2>1. y - 1 \in Nat /\ y = 1 + (y - 1)
    OBVIOUS
  <2> QED
    BY <2>1
<1>5. y * q = q + d * q /\ d * q \in Nat
  BY <1>4
<1>6. q <= n
  BY <1>1, <1>3, <1>5
<1> QED
  BY <1>1, <1>3, <1>6

LEMMA ByteQuotient ==
  ASSUME NEW n \in ByteValue, NEW y \in ByteValue, y # 0
  PROVE  n \div y \in ByteValue /\ (n % y) \in ByteValue
<1>1. n \in Nat /\ n <= 255 /\ y \in Nat \ {0} /\ y <= 255
  BY DEF ByteValue
<1> DEFINE q == n \div y
           r == n % y
<1>2. q \in Nat /\ r \in Nat /\ r < y /\ q <= n
  BY <1>1, QuotientRemainder
<1> HIDE DEF q, r
<1>3. q \in ByteValue /\ r \in ByteValue
  BY <1>1, <1>2 DEF ByteValue
<1> QED
  BY <1>3 DEF q, r

LEMMA MulResult ==
  ASSUME NEW s \in CPU, s.b # Undefined
  PROVE  /\ MUL(s) \in CPU /\ MUL(s).p = Parity(MUL(s).acc)
         /\ MUL(s).acc = (s.acc * s.b) % 256 /\ MUL(s).b = (s.acc * s.b) \div 256
         /\ MUL(s).cy = FALSE /\ MUL(s).ov = (s.acc * s.b > 255)
<1>1. s.acc \in ByteValue /\ s.b \in ByteValue
  BY DEF CPU
<1>2. PICK n \in Nat : n = s.acc * s.b /\ n <= 255 * 255
  <2>1. s.acc \in Nat /\ s.b \in Nat /\ s.acc <= 255 /\ s.b <= 255
    BY <1>1 DEF ByteValue
  <2>2. s.acc * s.b <= 255 * s.b /\ s.acc * s.b \in Nat
    BY <2>1
  <2> QED
    BY <2>1, <2>2
<1>3. n % 256 \in ByteValue /\ n \div 256 \in ByteValue
  <2>1. n % 256 \in ByteValue
    BY Reduced
  <2>2. PICK q \in Int, r \in 0 .. 255 : q = n \div 256 /\ n = 256 * q + r
    <3>1. n \div 256 \in Int /\ n % 256 \in 0 .. 255 /\ n = 256 * (n \div 256) + (n % 256)
      OBVIOUS
    <3> QED
      BY <3>1
  <2>3. q \in 0 .. 255
    BY <1>2, <2>2
  <2> QED
    BY <2>1, <2>2, <2>3 DEF ByteValue
<1>4. PICK t \in CPU : t = WithAcc(s, n % 256) /\ t.acc = n % 256 /\ t.p = Parity(t.acc)
  BY <1>3, AccWritten
<1>5. PICK ov \in BOOLEAN : ov = (n > 255)
  <2>1. (n > 255) \in BOOLEAN
    OBVIOUS
  <2> QED
    BY <2>1
<1>6. PICK m \in ByteValue : m = n \div 256
  BY <1>3
<1>7. PICK u : u = MUL(s) /\ u = [t EXCEPT !.b = m, !.cy = FALSE, !.ov = ov]
  BY <1>2, <1>4, <1>5, <1>6 DEF MUL
<1>8. u \in CPU /\ u.p = t.p /\ u.acc = t.acc /\ u.b = m /\ u.cy = FALSE /\ u.ov = ov
  BY <1>7 DEF CPU
<1> QED
  BY <1>2, <1>4, <1>5, <1>6, <1>7, <1>8

LEMMA DivResult ==
  ASSUME NEW s \in CPU, s.b # Undefined
  PROVE  /\ DIV(s) \in CPU /\ DIV(s).p = Parity(DIV(s).acc)
         /\ s.b # 0 => DIV(s).acc = s.acc \div s.b /\ DIV(s).b = s.acc % s.b
<1>1. s.acc \in ByteValue /\ s.b \in ByteValue
  BY DEF CPU
<1>2. CASE s.b = 0
  <2>1. PICK t \in CPU : t = WithAcc(s, s.acc) /\ t.p = Parity(t.acc)
    BY <1>1, AccWritten
  <2>2. DIV(s) = [t EXCEPT !.b = Undefined, !.cy = FALSE, !.ov = TRUE]
    BY <1>2, <2>1 DEF DIV
  <2> QED
    BY <1>2, <2>1, <2>2 DEF CPU
<1>3. CASE s.b # 0
  <2>1. PICK q \in ByteValue, r \in ByteValue : q = s.acc \div s.b /\ r = s.acc % s.b
    BY <1>1, <1>3, ByteQuotient
  <2>2. PICK t \in CPU : t = WithAcc(s, q) /\ t.acc = q /\ t.p = Parity(t.acc)
    BY <2>1, AccWritten
  <2>3. DIV(s) = [t EXCEPT !.b = r, !.cy = FALSE, !.ov = FALSE]
    BY <1>3, <2>1, <2>2 DEF DIV
  <2>4. DIV(s) \in CPU /\ DIV(s).p = t.p /\ DIV(s).acc = t.acc /\ DIV(s).b = r
    BY <2>1, <2>3 DEF CPU
  <2> QED
    BY <2>1, <2>2, <2>4
<1> QED
  BY <1>2, <1>3
-----------------------------------------------------------------------------
(* The rotates *)

LEMMA RotatedBytes ==
  ASSUME NEW n \in ByteValue
  PROVE  /\ (n % 128) * 2 + (n \div 128) \in ByteValue
         /\ (n \div 2) + (n % 2) * 128 \in ByteValue
         /\ (n \div 16) + (n % 16) * 16 \in ByteValue
         /\ n \div 2 \in 0 .. 127 /\ n % 2 \in 0 .. 1
BY DEF ByteValue

(* A byte and its binary digits *)
Binary(b0, b1, b2, b3, b4, b5, b6, b7) ==
  b0 + 2 * b1 + 4 * b2 + 8 * b3 + 16 * b4 + 32 * b5 + 64 * b6 + 128 * b7

LEMMA Halving ==
  ASSUME NEW k \in Nat, NEW n \in 0 .. 2 * k + 1
  PROVE  \E q \in 0 .. k, b \in 0 .. 1 : n = b + 2 * q
<1>1. n \div 2 \in 0 .. k /\ n % 2 \in 0 .. 1 /\ n = (n % 2) + 2 * (n \div 2)
  OBVIOUS
<1> QED
  BY <1>1

LEMMA DigitsExist ==
  ASSUME NEW n \in ByteValue
  PROVE  \E b0, b1, b2, b3, b4, b5, b6, b7 \in 0 .. 1 :
           n = Binary(b0, b1, b2, b3, b4, b5, b6, b7)
<1>1. PICK q1 \in 0 .. 127, b0 \in 0 .. 1 : n = b0 + 2 * q1
  BY Halving DEF ByteValue
<1>2. PICK q2 \in 0 .. 63, b1 \in 0 .. 1 : q1 = b1 + 2 * q2
  BY <1>1, Halving
<1>3. PICK q3 \in 0 .. 31, b2 \in 0 .. 1 : q2 = b2 + 2 * q3
  BY <1>2, Halving
<1>4. PICK q4 \in 0 .. 15, b3 \in 0 .. 1 : q3 = b3 + 2 * q4
  BY <1>3, Halving
<1>5. PICK q5 \in 0 .. 7, b4 \in 0 .. 1 : q4 = b4 + 2 * q5
  BY <1>4, Halving
<1>6. PICK q6 \in 0 .. 3, b5 \in 0 .. 1 : q5 = b5 + 2 * q6
  BY <1>5, Halving
<1>7. PICK q7 \in 0 .. 1, b6 \in 0 .. 1 : q6 = b6 + 2 * q7
  BY <1>6, Halving
<1>8. n = Binary(b0, b1, b2, b3, b4, b5, b6, q7)
  BY <1>1, <1>2, <1>3, <1>4, <1>5, <1>6, <1>7 DEF Binary
<1> QED
  BY <1>8

LEMMA DigitsAreBits ==
  ASSUME NEW b0 \in 0 .. 1, NEW b1 \in 0 .. 1, NEW b2 \in 0 .. 1, NEW b3 \in 0 .. 1,
         NEW b4 \in 0 .. 1, NEW b5 \in 0 .. 1, NEW b6 \in 0 .. 1, NEW b7 \in 0 .. 1
  PROVE  LET n == Binary(b0, b1, b2, b3, b4, b5, b6, b7)
         IN /\ n \in ByteValue
            /\ 0 \in MaskBits(n) <=> b0 = 1
            /\ 1 \in MaskBits(n) <=> b1 = 1
            /\ 2 \in MaskBits(n) <=> b2 = 1
            /\ 3 \in MaskBits(n) <=> b3 = 1
            /\ 4 \in MaskBits(n) <=> b4 = 1
            /\ 5 \in MaskBits(n) <=> b5 = 1
            /\ 6 \in MaskBits(n) <=> b6 = 1
            /\ 7 \in MaskBits(n) <=> b7 = 1
<1> DEFINE n == Binary(b0, b1, b2, b3, b4, b5, b6, b7)
<1>1. n \in ByteValue /\ n \in Int
  BY DEF Binary, ByteValue
<1>2. n % 2 = b0
  BY DEF Binary
<1>3. (n \div 2) % 2 = b1
  <2>1. n \div 2 = b1 + 2 * b2 + 4 * b3 + 8 * b4 + 16 * b5 + 32 * b6 + 64 * b7
    BY DEF Binary
  <2> QED
    BY <2>1
<1>4. (n \div 4) % 2 = b2
  <2>1. n \div 4 = b2 + 2 * b3 + 4 * b4 + 8 * b5 + 16 * b6 + 32 * b7
    BY DEF Binary
  <2> QED
    BY <2>1
<1>5. (n \div 8) % 2 = b3
  <2>1. n \div 8 = b3 + 2 * b4 + 4 * b5 + 8 * b6 + 16 * b7
    BY DEF Binary
  <2> QED
    BY <2>1
<1>6. (n \div 16) % 2 = b4
  <2>1. n \div 16 = b4 + 2 * b5 + 4 * b6 + 8 * b7
    BY DEF Binary
  <2> QED
    BY <2>1
<1>7. (n \div 32) % 2 = b5
  <2>1. n \div 32 = b5 + 2 * b6 + 4 * b7
    BY DEF Binary
  <2> QED
    BY <2>1
<1>8. (n \div 64) % 2 = b6
  <2>1. n \div 64 = b6 + 2 * b7
    BY DEF Binary
  <2> QED
    BY <2>1
<1>9. (n \div 128) % 2 = b7
  <2>1. n \div 128 = b7
    BY DEF Binary
  <2> QED
    BY <2>1
<1> HIDE DEF n
<1>10. /\ 0 \in MaskBits(n) <=> b0 = 1
       /\ 1 \in MaskBits(n) <=> b1 = 1
       /\ 2 \in MaskBits(n) <=> b2 = 1
       /\ 3 \in MaskBits(n) <=> b3 = 1
       /\ 4 \in MaskBits(n) <=> b4 = 1
       /\ 5 \in MaskBits(n) <=> b5 = 1
       /\ 6 \in MaskBits(n) <=> b6 = 1
       /\ 7 \in MaskBits(n) <=> b7 = 1
  BY <1>1, <1>2, <1>3, <1>4, <1>5, <1>6, <1>7, <1>8, <1>9, BitsOf
<1> QED
  BY <1>1, <1>10 DEF n

(* The parity of a byte is that of the number of its digits that are 1,    *)
(* whatever their places.                                                  *)
LEMMA DigitsParity ==
  ASSUME NEW b0 \in 0 .. 1, NEW b1 \in 0 .. 1, NEW b2 \in 0 .. 1, NEW b3 \in 0 .. 1,
         NEW b4 \in 0 .. 1, NEW b5 \in 0 .. 1, NEW b6 \in 0 .. 1, NEW b7 \in 0 .. 1
  PROVE  Parity(Binary(b0, b1, b2, b3, b4, b5, b6, b7))
           = ((((b0 = 1) # (b1 = 1)) # ((b2 = 1) # (b3 = 1)))
                # (((b4 = 1) # (b5 = 1)) # ((b6 = 1) # (b7 = 1))))
<1> DEFINE n == Binary(b0, b1, b2, b3, b4, b5, b6, b7)
<1> HIDE DEF n
<1>1. Parity(n) = Odd(MaskBits(n))
  <2>1. Parity(n) \in BOOLEAN /\ Odd(MaskBits(n)) \in BOOLEAN
    BY DEF Parity, Odd
  <2>2. Parity(n) <=> Odd(MaskBits(n))
    BY MaskBitsType, CountsToParity DEF Parity
  <2> QED
    BY <2>1, <2>2
<1>2. Odd(MaskBits(n)) = ((((b0 = 1) # (b1 = 1)) # ((b2 = 1) # (b3 = 1)))
                            # (((b4 = 1) # (b5 = 1)) # ((b6 = 1) # (b7 = 1))))
  BY DigitsAreBits DEF Odd, n
<1> QED
  BY <1>1, <1>2 DEF n

(* A rotate permutes the bits, and so keeps their parity. *)
LEMMA RlParity ==
  ASSUME NEW n \in ByteValue
  PROVE  Parity((n % 128) * 2 + (n \div 128)) = Parity(n)
<1>1. PICK b0, b1, b2, b3, b4, b5, b6, b7 \in 0 .. 1 :
             n = Binary(b0, b1, b2, b3, b4, b5, b6, b7)
  BY DigitsExist
<1>2. /\ n % 128 = b0 + 2 * b1 + 4 * b2 + 8 * b3 + 16 * b4 + 32 * b5 + 64 * b6
      /\ n \div 128 = b7
  BY <1>1 DEF Binary
<1>3. (n % 128) * 2 + (n \div 128) = Binary(b7, b0, b1, b2, b3, b4, b5, b6)
  BY <1>2 DEF Binary
<1> QED
  BY <1>1, <1>3, DigitsParity

LEMMA RrParity ==
  ASSUME NEW n \in ByteValue
  PROVE  Parity((n \div 2) + (n % 2) * 128) = Parity(n)
<1>1. PICK b0, b1, b2, b3, b4, b5, b6, b7 \in 0 .. 1 :
             n = Binary(b0, b1, b2, b3, b4, b5, b6, b7)
  BY DigitsExist
<1>2. /\ n \div 2 = b1 + 2 * b2 + 4 * b3 + 8 * b4 + 16 * b5 + 32 * b6 + 64 * b7
      /\ n % 2 = b0
  BY <1>1 DEF Binary
<1>3. (n \div 2) + (n % 2) * 128 = Binary(b1, b2, b3, b4, b5, b6, b7, b0)
  BY <1>2 DEF Binary
<1> QED
  BY <1>1, <1>3, DigitsParity

LEMMA SwapParity ==
  ASSUME NEW n \in ByteValue
  PROVE  Parity((n \div 16) + (n % 16) * 16) = Parity(n)
<1>1. PICK b0, b1, b2, b3, b4, b5, b6, b7 \in 0 .. 1 :
             n = Binary(b0, b1, b2, b3, b4, b5, b6, b7)
  BY DigitsExist
<1>2. /\ n \div 16 = b4 + 2 * b5 + 4 * b6 + 8 * b7
      /\ n % 16 = b0 + 2 * b1 + 4 * b2 + 8 * b3
  BY <1>1 DEF Binary
<1>3. (n \div 16) + (n % 16) * 16 = Binary(b4, b5, b6, b7, b0, b1, b2, b3)
  BY <1>2 DEF Binary
<1> QED
  BY <1>1, <1>3, DigitsParity

LEMMA RlResult ==
  ASSUME NEW s \in CPU
  PROVE  /\ RL(s) \in CPU /\ RL(s).acc = (s.acc % 128) * 2 + (s.acc \div 128)
         /\ RL(s).cy = s.cy /\ RL(s).p = s.p /\ Parity(RL(s).acc) = Parity(s.acc)
<1>1. s.acc \in ByteValue
  BY DEF CPU
<1>2. PICK m \in ByteValue : m = (s.acc % 128) * 2 + (s.acc \div 128)
                             /\ Parity(m) = Parity(s.acc)
  BY <1>1, RotatedBytes, RlParity
<1>3. RL(s) = [s EXCEPT !.acc = m]
  BY <1>2 DEF RL
<1> QED
  BY <1>2, <1>3 DEF CPU

LEMMA RrResult ==
  ASSUME NEW s \in CPU
  PROVE  /\ RR(s) \in CPU /\ RR(s).acc = (s.acc \div 2) + (s.acc % 2) * 128
         /\ RR(s).cy = s.cy /\ RR(s).p = s.p /\ Parity(RR(s).acc) = Parity(s.acc)
<1>1. s.acc \in ByteValue
  BY DEF CPU
<1>2. PICK m \in ByteValue : m = (s.acc \div 2) + (s.acc % 2) * 128
                             /\ Parity(m) = Parity(s.acc)
  BY <1>1, RotatedBytes, RrParity
<1>3. RR(s) = [s EXCEPT !.acc = m]
  BY <1>2 DEF RR
<1> QED
  BY <1>2, <1>3 DEF CPU

LEMMA SwapResult ==
  ASSUME NEW s \in CPU
  PROVE  /\ SWAP(s) \in CPU /\ SWAP(s).acc = (s.acc \div 16) + (s.acc % 16) * 16
         /\ SWAP(s).cy = s.cy /\ SWAP(s).p = s.p /\ Parity(SWAP(s).acc) = Parity(s.acc)
<1>1. s.acc \in ByteValue
  BY DEF CPU
<1>2. PICK m \in ByteValue : m = (s.acc \div 16) + (s.acc % 16) * 16
                             /\ Parity(m) = Parity(s.acc)
  BY <1>1, RotatedBytes, SwapParity
<1>3. SWAP(s) = [s EXCEPT !.acc = m]
  BY <1>2 DEF SWAP
<1> QED
  BY <1>2, <1>3 DEF CPU

LEMMA CarryWritten ==
  ASSUME NEW t \in CPU, NEW cy \in BOOLEAN, NEW u, u = [t EXCEPT !.cy = cy]
  PROVE  u \in CPU /\ u.acc = t.acc /\ u.p = t.p /\ u.cy = cy
BY DEF CPU

LEMMA RlcResult ==
  ASSUME NEW s \in CPU
  PROVE  /\ RLC(s) \in CPU /\ RLC(s).p = Parity(RLC(s).acc)
         /\ RLC(s).acc = (s.acc * 2 + Carry(s)) % 256
         /\ RLC(s).cy = (s.acc * 2 + Carry(s) >= 256)
<1>0. s.acc \in Int /\ Carry(s) \in Int
  BY CarryType DEF CPU, ByteValue
<1>1. PICK n \in Int : n = s.acc * 2 + Carry(s)
  BY <1>0
<1> DEFINE cy == n >= 256
<1>2. PICK t \in CPU : t = WithAcc(s, n % 256) /\ t.acc = n % 256 /\ t.p = Parity(t.acc)
  BY <1>1, Reduced, AccWritten
<1>3. RLC(s) = [t EXCEPT !.cy = cy]
  BY <1>0, <1>1, <1>2 DEF RLC
<1>4. cy \in BOOLEAN
  OBVIOUS
<1> HIDE DEF cy
<1>5. RLC(s) \in CPU /\ RLC(s).acc = t.acc /\ RLC(s).p = t.p /\ RLC(s).cy = cy
  BY <1>3, <1>4, CarryWritten
<1> QED
  BY <1>1, <1>2, <1>5 DEF cy

LEMMA RrcResult ==
  ASSUME NEW s \in CPU
  PROVE  /\ RRC(s) \in CPU /\ RRC(s).p = Parity(RRC(s).acc)
         /\ RRC(s).acc = (s.acc \div 2) + 128 * Carry(s)
         /\ RRC(s).cy = (s.acc % 2 = 1)
<1> DEFINE cy == s.acc % 2 = 1
<1>1. (s.acc \div 2) + 128 * Carry(s) \in ByteValue
  BY CarryType DEF CPU, ByteValue
<1>2. PICK t \in CPU : /\ t = WithAcc(s, (s.acc \div 2) + 128 * Carry(s))
                       /\ t.acc = (s.acc \div 2) + 128 * Carry(s) /\ t.p = Parity(t.acc)
  BY <1>1, AccWritten
<1>3. RRC(s) = [t EXCEPT !.cy = cy]
  BY <1>2 DEF RRC
<1>4. cy \in BOOLEAN
  OBVIOUS
<1> HIDE DEF cy
<1>5. RRC(s) \in CPU /\ RRC(s).acc = t.acc /\ RRC(s).p = t.p /\ RRC(s).cy = cy
  BY <1>3, <1>4, CarryWritten
<1> QED
  BY <1>2, <1>5 DEF cy

LEMMA CjneResult ==
  ASSUME NEW s \in CPU, NEW x
  PROVE  CJNE(s, x) \in CPU /\ CJNE(s, x).acc = s.acc /\ CJNE(s, x).p = s.p
<1> DEFINE cy == s.acc < x
<1>1. CJNE(s, x) = [s EXCEPT !.cy = cy]
  BY DEF CJNE
<1>2. cy \in BOOLEAN
  OBVIOUS
<1> HIDE DEF cy
<1> QED
  BY <1>1, <1>2, CarryWritten
-----------------------------------------------------------------------------
(* One instruction *)

(* It leaves a processor in range, and the parity of ACC right if it was.  *)
Keeps(u, s) == u \in CPU /\ (s.p = Parity(s.acc) => u.p = Parity(u.acc))

LEMMA LoadsKeep ==
  ASSUME NEW s \in CPU, NEW n \in ByteValue
  PROVE  Keeps(WithAcc(s, n), s)
BY AccWritten DEF Keeps

LEMMA ArithmeticKeeps ==
  ASSUME NEW s \in CPU, NEW x \in ByteValue
  PROVE  Keeps(ADD(s, x), s) /\ Keeps(ADDC(s, x), s) /\ Keeps(SUBB(s, x), s)
         /\ Keeps(CJNE(s, x), s)
<1>1. 0 \in 0 .. 1 /\ Carry(s) \in 0 .. 1
  BY CarryType
<1>2. Keeps(ADD(s, x), s) /\ Keeps(ADDC(s, x), s)
  BY <1>1, SumResult DEF ADD, ADDC, Keeps
<1>3. Keeps(SUBB(s, x), s)
  BY SubbResult DEF Keeps
<1>4. Keeps(CJNE(s, x), s)
  BY CjneResult DEF Keeps
<1> QED
  BY <1>2, <1>3, <1>4

LEMMA LogicKeeps ==
  ASSUME NEW s \in CPU, NEW x \in ByteValue
  PROVE  Keeps(ANL(s, x), s) /\ Keeps(ORL(s, x), s) /\ Keeps(XRL(s, x), s)
         /\ Keeps(XCHD(s, x), s) /\ Keeps(CPL(s), s)
<1>1. (s.acc \div 16) * 16 + (x % 16) \in ByteValue
  <2>1. s.acc \div 16 \in 0 .. 15 /\ x % 16 \in 0 .. 15
    BY DEF CPU, ByteValue
  <2> QED
    BY <2>1 DEF ByteValue
<1>2. Keeps(XCHD(s, x), s)
  BY <1>1, LoadsKeep DEF XCHD
<1> QED
  BY <1>2, LogicType, LoadsKeep DEF ANL, ORL, XRL, CPL

LEMMA AdjustKeeps ==
  ASSUME NEW s \in CPU
  PROVE  Keeps(WithAcc(s, INC(s.acc)), s) /\ Keeps(WithAcc(s, DEC(s.acc)), s)
         /\ Keeps(DA(s), s)
<1>1. INC(s.acc) \in ByteValue /\ DEC(s.acc) \in ByteValue
  BY Reduced DEF INC, DEC, CPU, ByteValue
<1>2. Keeps(DA(s), s)
  BY AdjustedResult DEF Keeps
<1> QED
  BY <1>1, <1>2, LoadsKeep

LEMMA RotateKeeps ==
  ASSUME NEW s \in CPU
  PROVE  Keeps(RL(s), s) /\ Keeps(RR(s), s) /\ Keeps(SWAP(s), s)
         /\ Keeps(RLC(s), s) /\ Keeps(RRC(s), s)
BY RlResult, RrResult, SwapResult, RlcResult, RrcResult DEF Keeps

LEMMA StepKeeps ==
  ASSUME TypeOK, Next
  PROVE  TypeOK' /\ (StorePsw \/ Keeps(cpu', cpu))
<1> USE DEF TypeOK
<1>1. \A x \in Operands : x \in ByteValue
  BY OperandsAssumption
<1>2. \A u : Keeps(u, cpu) => u \in CPU
  BY DEF Keeps
<1>3. ASSUME NEW x \in Operands, Load(x) PROVE Keeps(cpu', cpu)
  BY <1>1, <1>3, LoadsKeep DEF Load
<1>4. ASSUME NEW x \in Operands, LoadB(x) PROVE Keeps(cpu', cpu)
  BY <1>1, <1>4 DEF LoadB, CPU, Keeps
<1>5. ASSUME NEW x \in Operands, Arithmetic(x) PROVE Keeps(cpu', cpu)
  BY <1>1, <1>5, ArithmeticKeeps DEF Arithmetic
<1>6. ASSUME NEW x \in Operands, Logic(x) PROVE Keeps(cpu', cpu)
  BY <1>1, <1>6, LogicKeeps DEF Logic
<1>7. ASSUME Adjust PROVE Keeps(cpu', cpu)
  <2>1. 0 \in ByteValue
    BY DEF ByteValue
  <2> QED
    BY <1>7, <2>1, AdjustKeeps, LogicKeeps DEF Adjust
<1>8. ASSUME Rotate PROVE Keeps(cpu', cpu)
  BY <1>8, RotateKeeps DEF Rotate
<1>9. ASSUME Multiply PROVE Keeps(cpu', cpu)
  BY <1>9, MulResult, Zenon DEF Multiply, Keeps
<1>10. ASSUME Divide PROVE Keeps(cpu', cpu)
  BY <1>10, DivResult DEF Divide, Keeps
<1>11. ASSUME StoreCarry PROVE Keeps(cpu', cpu)
  BY <1>11 DEF StoreCarry, CPU, Keeps
<1>12. CASE StorePsw
  <2>1. PICK cy, ac, ov, p \in BOOLEAN :
          cpu' = [cpu EXCEPT !.cy = cy, !.ac = ac, !.ov = ov, !.p = p]
    BY <1>12 DEF StorePsw
  <2>2. cpu' \in CPU
    BY <2>1 DEF CPU
  <2> QED
    BY <1>12, <2>2
<1> QED
  BY <1>2, <1>3, <1>4, <1>5, <1>6, <1>7, <1>8, <1>9, <1>10, <1>11, <1>12 DEF Next

(* The accumulator, B and the flags stay in range, whatever the program    *)
(* computes with, for every instruction of the accumulator and the carry.  *)
THEOREM TypeCorrect == Spec => []TypeOK
<1>1. Init => TypeOK
  BY DEF Init, TypeOK, CPU, ByteValue
<1>2. TypeOK /\ [Next]_vars => TypeOK'
  BY StepKeeps DEF vars, TypeOK
<1> QED
  BY <1>1, <1>2, PTL DEF Spec

(* No instruction that stores ACC makes the parity flag wrong: those that  *)
(* compute it fold the byte rightly, and RL, RR and SWAP, which do not     *)
(* compute it, permute the bits.                                           *)
THEOREM ParityFollows == Spec => ParityKept
<1>1. TypeOK /\ [Next]_vars =>
        [cpu.p = Parity(cpu.acc) /\ ~StorePsw => cpu'.p = Parity(cpu'.acc)]_vars
  BY StepKeeps DEF Keeps
<1> QED
  BY <1>1, TypeCorrect, PTL DEF Spec, ParityKept
-----------------------------------------------------------------------------
(* Several instructions in a row *)

LEMMA BytesAdd ==
  ASSUME NEW a \in 0 .. 255, NEW x \in 0 .. 255, NEW c \in 0 .. 1
  PROVE  a + x + c \in 0 .. 511
OBVIOUS

LEMMA FoldsOnce ==
  ASSUME NEW n \in 0 .. 511
  PROVE  n % 256 = IF n >= 256 THEN n - 256 ELSE n
OBVIOUS

(* The accumulator below the carry, a number of nine bits *)
Nine(s) == Carry(s) * 256 + s.acc

LEMMA NineType ==
  ASSUME NEW s \in CPU
  PROVE  Nine(s) \in 0 .. 511 /\ s.acc \in 0 .. 255 /\ Carry(s) \in 0 .. 1
<1>1. PICK a \in 0 .. 255, c \in 0 .. 1 : a = s.acc /\ c = Carry(s)
  BY CarryType DEF CPU, ByteValue
<1>2. c * 256 + a \in 0 .. 511
  OBVIOUS
<1> QED
  BY <1>1, <1>2 DEF Nine

(* An accumulator reduced to a byte is, with the carry, the number itself. *)
LEMMA CarryKept ==
  ASSUME NEW u \in CPU, NEW n \in 0 .. 511, u.acc = n % 256, u.cy = (n >= 256)
  PROVE  Nine(u) = n
<1>1. CASE n >= 256
  <2>1. (n >= 256) = TRUE
    BY <1>1
  <2>2. u.cy = TRUE
    BY <2>1, Zenon
  <2>3. Carry(u) = 1 /\ u.acc = n - 256
    BY <1>1, <2>2, FoldsOnce DEF Carry
  <2>4. 1 * 256 + (n - 256) = n
    OBVIOUS
  <2> QED
    BY <2>3, <2>4 DEF Nine
<1>2. CASE ~(n >= 256)
  <2>1. (n >= 256) = FALSE
    BY <1>2
  <2>2. u.cy = FALSE
    BY <2>1, Zenon
  <2>3. Carry(u) = 0 /\ u.acc = n
    BY <1>2, <2>2, FoldsOnce DEF Carry
  <2>4. 0 * 256 + n = n
    OBVIOUS
  <2> QED
    BY <2>3, <2>4 DEF Nine
<1> QED
  BY <1>1, <1>2

LEMMA SumValue ==
  ASSUME NEW s \in CPU, NEW x \in ByteValue, NEW c \in 0 .. 1
  PROVE  /\ Sum(s, x, c) \in CPU
         /\ Nine(Sum(s, x, c)) = s.acc + x + c
<1>1. PICK a \in 0 .. 255 : a = s.acc
  BY DEF CPU, ByteValue
<1>2. s.acc + x + c \in 0 .. 511
  BY <1>1, BytesAdd, ZenonT(60) DEF ByteValue
<1>3. PICK n \in 0 .. 511 : n = s.acc + x + c
  BY <1>2
<1>4. PICK u \in CPU : u = Sum(s, x, c) /\ u.acc = n % 256 /\ u.cy = (n >= 256)
  BY <1>3, SumResult
<1>5. Nine(u) = n
  BY <1>4, CarryKept, ZenonT(60)
<1> QED
  BY <1>3, <1>4, <1>5

LEMMA AddValue ==
  ASSUME NEW s \in CPU, NEW x \in ByteValue
  PROVE  /\ ADD(s, x) \in CPU /\ ADDC(s, x) \in CPU
         /\ Nine(ADD(s, x)) = s.acc + x
         /\ Nine(ADDC(s, x)) = s.acc + x + Carry(s)
<1>1. 0 \in 0 .. 1 /\ Carry(s) \in 0 .. 1
  BY CarryType
<1>2. s.acc + x + 0 = s.acc + x
  BY DEF CPU, ByteValue
<1>3. Sum(s, x, 0) \in CPU /\ Nine(Sum(s, x, 0)) = s.acc + x + 0
  BY <1>1, SumValue
<1>4. /\ Sum(s, x, Carry(s)) \in CPU
      /\ Nine(Sum(s, x, Carry(s))) = s.acc + x + Carry(s)
  BY <1>1, SumValue
<1> QED
  BY <1>2, <1>3, <1>4 DEF ADD, ADDC

(* The carry of a processor tells which of the two a number is. *)
LEMMA CarryTells ==
  ASSUME NEW s \in CPU
  PROVE  s.cy = (Nine(s) >= 256) /\ s.acc = Nine(s) % 256
<1>1. PICK a \in 0 .. 255 : a = s.acc
  BY DEF CPU, ByteValue
<1>2. CASE s.cy = TRUE
  <2>1. Nine(s) = 1 * 256 + a
    BY <1>1, <1>2 DEF Carry, Nine
  <2>2. (1 * 256 + a >= 256) = TRUE /\ (1 * 256 + a) % 256 = a
    OBVIOUS
  <2> QED
    BY <1>1, <1>2, <2>1, <2>2, ZenonT(60)
<1>3. CASE s.cy = FALSE
  <2>1. Nine(s) = a
    BY <1>1, <1>3 DEF Carry, Nine
  <2>2. (a >= 256) = FALSE /\ a % 256 = a
    OBVIOUS
  <2> QED
    BY <1>1, <1>3, <2>1, <2>2, Zenon
<1> QED
  BY <1>2, <1>3 DEF CPU

LEMMA WrapsOnce ==
  ASSUME NEW m \in -255 .. 255
  PROVE  m % 256 = IF m < 0 THEN m + 256 ELSE m
OBVIOUS

(* SUBB with no borrow to take *)
LEMMA SubbValue ==
  ASSUME NEW s \in CPU, NEW x \in ByteValue, s.cy = FALSE
  PROVE  /\ SUBB(s, x) \in CPU /\ SUBB(s, x).cy = (x > s.acc)
         /\ SUBB(s, x).acc = IF x > s.acc THEN (s.acc - x) + 256 ELSE s.acc - x
<1>1. s.acc \in 0 .. 255 /\ x \in 0 .. 255 /\ Carry(s) = 0
  BY DEF CPU, ByteValue, Carry
<1>2. PICK a \in 0 .. 255, m \in -255 .. 255 : a = s.acc /\ m = a - x - Carry(s) /\ m = a - x
  <2>1. PICK a \in 0 .. 255 : a = s.acc
    BY <1>1
  <2>2. PICK m \in -255 .. 255 : m = a - x /\ m = a - x - 0
    <3>1. a - x \in -255 .. 255 /\ a - x = a - x - 0
      BY <1>1
    <3> QED
      BY <3>1
  <2> QED
    BY <1>1, <2>1, <2>2, ZenonT(60)
<1>3. SUBB(s, x).acc = m % 256 /\ SUBB(s, x).cy = (x > s.acc) /\ SUBB(s, x) \in CPU
  BY <1>2, SubbResult
<1>4. (m < 0) = (x > a)
  BY <1>1, <1>2
<1> QED
  BY <1>2, <1>3, <1>4, WrapsOnce

(* ADD of the low bytes and ADDC of the high bytes add two-byte numbers:   *)
(* the carry is neither lost between the two, nor by the load of the high  *)
(* byte, for any bytes a program works on.                                 *)
THEOREM WideSumHolds == Spec => []WideSum
<1>1. ASSUME TypeOK PROVE WideSum
  <2> SUFFICES ASSUME NEW x \in Operands, NEW h \in Operands, NEW y \in Operands
               PROVE  LET low == ADD(cpu, x)
                          high == ADDC(WithAcc(low, h), y)
                      IN (Carry(high) * 256 + high.acc) * 256 + low.acc
                           = (h * 256 + cpu.acc) + (y * 256 + x)
    BY DEF WideSum
  <2>1. x \in ByteValue /\ h \in ByteValue /\ y \in ByteValue /\ cpu \in CPU
    BY <1>1, OperandsAssumption DEF TypeOK
  <2>2. PICK low \in CPU : low = ADD(cpu, x) /\ Nine(low) = cpu.acc + x
    BY <2>1, AddValue, Zenon
  <2>3. PICK mid \in CPU : mid = WithAcc(low, h) /\ mid.acc = h /\ mid.cy = low.cy
    BY <2>1, <2>2, AccWritten, Zenon
  <2>4. Carry(mid) = Carry(low)
    BY <2>3 DEF Carry
  <2>5. PICK high \in CPU : high = ADDC(mid, y) /\ Nine(high) = mid.acc + y + Carry(mid)
    BY <2>1, AddValue, Zenon
  <2>6. (Carry(high) * 256 + high.acc) * 256 + low.acc = (h * 256 + cpu.acc) + (y * 256 + x)
    <3>1. /\ Carry(high) \in Int /\ Carry(low) \in Int /\ high.acc \in Int /\ low.acc \in Int
          /\ cpu.acc \in Int /\ x \in Int /\ h \in Int /\ y \in Int
      BY <2>1, CarryType DEF CPU, ByteValue
    <3>2. Carry(high) * 256 + high.acc = h + y + Carry(low)
      BY <2>3, <2>4, <2>5 DEF Nine
    <3> QED
      BY <2>2, <3>1, <3>2 DEF Nine
  <2> QED
    BY <2>2, <2>3, <2>5, <2>6
<1> QED
  BY <1>1, TypeCorrect, PTL

(* Without a borrow to take, ADD restores what SUBB took, and its carry is *)
(* the borrow of SUBB, whatever the two bytes.                             *)
THEOREM AddUndoesSubbHolds == Spec => []AddUndoesSubb
<1>1. ASSUME TypeOK PROVE AddUndoesSubb
  <2> SUFFICES ASSUME NEW x \in Operands
               PROVE  LET difference == SUBB([cpu EXCEPT !.cy = FALSE], x)
                          sum == ADD(difference, x)
                      IN sum.acc = cpu.acc /\ sum.cy = difference.cy
    BY DEF AddUndoesSubb
  <2>1. x \in ByteValue /\ cpu \in CPU
    BY <1>1, OperandsAssumption DEF TypeOK
  <2>2. PICK s \in CPU : s = [cpu EXCEPT !.cy = FALSE] /\ s.acc = cpu.acc /\ s.cy = FALSE
    BY <2>1, CarryWritten
  <2>3. PICK d \in CPU : /\ d = SUBB(s, x) /\ d.cy = (x > s.acc)
                         /\ d.acc = IF x > s.acc THEN (s.acc - x) + 256 ELSE s.acc - x
    BY <2>1, <2>2, SubbValue, Zenon
  <2>acc. PICK a \in 0 .. 255 : a = s.acc
    BY DEF CPU, ByteValue
  <2>4. PICK n \in 0 .. 511 : n = d.acc + x /\ n = IF x > a THEN a + 256 ELSE a
    <3>1. PICK r \in 0 .. 255 : r = d.acc
      BY DEF CPU, ByteValue
    <3>2. x \in 0 .. 255
      BY <2>1 DEF ByteValue
    <3>3. r = IF x > a THEN (a - x) + 256 ELSE a - x
      BY <2>3, <2>acc, <3>1
    <3>4. d.acc + x \in 0 .. 511 /\ d.acc + x = IF x > a THEN a + 256 ELSE a
      BY <3>1, <3>2, <3>3
    <3> QED
      BY <3>4
  <2>5. PICK u \in CPU : u = ADD(d, x) /\ Nine(u) = d.acc + x
    BY <2>1, AddValue
  <2>6. u.cy = (n >= 256) /\ u.acc = n % 256
    <3>1. Nine(u) = n
      BY <2>4, <2>5
    <3> QED
      BY <3>1, CarryTells
  <2>7. (n >= 256) = (x > a) /\ n % 256 = a
    BY <2>1, <2>4 DEF ByteValue
  <2>8. u.acc = cpu.acc /\ u.cy = d.cy
    BY <2>2, <2>3, <2>acc, <2>6, <2>7
  <2> QED
    BY <2>2, <2>3, <2>5, <2>8
<1> QED
  BY <1>1, TypeCorrect, PTL
-----------------------------------------------------------------------------
(* The rotates undo each other *)

LEMMA SameNine ==
  ASSUME NEW s \in CPU, NEW t \in CPU, Nine(s) = Nine(t)
  PROVE  s.acc = t.acc /\ s.cy = t.cy
BY CarryTells

LEMMA SameCarry ==
  ASSUME NEW s \in CPU, NEW t \in CPU, Carry(s) = Carry(t)
  PROVE  s.cy = t.cy
BY DEF Carry, CPU

(* RLC doubles the accumulator and takes the carry in. *)
LEMMA RlcValue ==
  ASSUME NEW s \in CPU
  PROVE  RLC(s) \in CPU /\ Nine(RLC(s)) = 2 * s.acc + Carry(s)
<1>1. PICK a \in 0 .. 255, c \in 0 .. 1 : a = s.acc /\ c = Carry(s)
  BY NineType
<1>2. s.acc * 2 + Carry(s) \in 0 .. 511 /\ s.acc * 2 + Carry(s) = 2 * s.acc + Carry(s)
  BY <1>1
<1>3. PICK n \in 0 .. 511 : n = s.acc * 2 + Carry(s)
  BY <1>2
<1>4. PICK u \in CPU : u = RLC(s) /\ u.acc = n % 256 /\ u.cy = (n >= 256)
  BY <1>3, RlcResult
<1>5. Nine(u) = n
  BY <1>4, CarryKept, ZenonT(60)
<1> QED
  BY <1>2, <1>3, <1>4, <1>5

(* RRC halves the number of nine bits and leaves the rest in the carry. *)
LEMMA RrcValue ==
  ASSUME NEW s \in CPU
  PROVE  RRC(s) \in CPU /\ 2 * RRC(s).acc + Carry(RRC(s)) = Nine(s)
<1>1. PICK a \in 0 .. 255, c \in 0 .. 1 : a = s.acc /\ c = Carry(s)
  BY NineType
<1>2. PICK q \in 0 .. 127, b \in 0 .. 1 : a = b + 2 * q
  <2>1. 127 \in Nat /\ a \in 0 .. 2 * 127 + 1
    OBVIOUS
  <2> QED
    BY <2>1, Halving
<1>3. a \div 2 = q /\ a % 2 = b
  BY <1>2
<1>4. PICK u \in CPU : u = RRC(s) /\ u.acc = q + 128 * c /\ u.cy = (b = 1)
  BY <1>1, <1>3, RrcResult
<1>5. Carry(u) = b
  <2>1. u.cy \in BOOLEAN
    BY DEF CPU
  <2>2. u.cy <=> b = 1
    BY <1>4, <2>1, Zenon
  <2> QED
    BY <2>1, <2>2 DEF Carry
<1>6. 2 * (q + 128 * c) + b = c * 256 + a
  BY <1>2
<1> QED
  BY <1>1, <1>4, <1>5, <1>6 DEF Nine

LEMMA ThriceValue ==
  ASSUME NEW s \in CPU
  PROVE  /\ Thrice(s) \in CPU
         /\ \E k \in 0 .. 7 : Nine(Thrice(s)) = 8 * Nine(s) - 511 * k
<1>1. \A t \in CPU : /\ RLC(t) \in CPU
                     /\ \E b \in 0 .. 1 : Nine(RLC(t)) = 2 * Nine(t) - 511 * b
  <2> SUFFICES ASSUME NEW t \in CPU
               PROVE  /\ RLC(t) \in CPU
                      /\ \E b \in 0 .. 1 : Nine(RLC(t)) = 2 * Nine(t) - 511 * b
    OBVIOUS
  <2>1. PICK a \in 0 .. 255, c \in 0 .. 1 : a = t.acc /\ c = Carry(t)
    BY NineType
  <2>2. RLC(t) \in CPU /\ Nine(RLC(t)) = 2 * a + c
    BY <2>1, RlcValue
  <2>3. 2 * a + c = 2 * (c * 256 + a) - 511 * c
    OBVIOUS
  <2> QED
    BY <2>1, <2>2, <2>3 DEF Nine
<1>2. PICK t \in CPU, b1 \in 0 .. 1 : t = RLC(s) /\ Nine(t) = 2 * Nine(s) - 511 * b1
  BY <1>1
<1>3. PICK u \in CPU, b2 \in 0 .. 1 : u = RLC(t) /\ Nine(u) = 2 * Nine(t) - 511 * b2
  BY <1>1
<1>4. PICK v \in CPU, b3 \in 0 .. 1 : v = RLC(u) /\ Nine(v) = 2 * Nine(u) - 511 * b3
  BY <1>1
<1>5. v = Thrice(s)
  BY <1>2, <1>3, <1>4 DEF Thrice
<1>6. PICK n \in 0 .. 511 : n = Nine(s)
  BY NineType
<1>7. Nine(v) = 8 * n - 511 * (4 * b1 + 2 * b2 + b3) /\ 4 * b1 + 2 * b2 + b3 \in 0 .. 7
  BY <1>2, <1>3, <1>4, <1>6
<1> QED
  BY <1>5, <1>6, <1>7

LEMMA RrUndoesRl ==
  ASSUME NEW a \in 0 .. 255, NEW m, m = (a % 128) * 2 + (a \div 128)
  PROVE  (m \div 2) + (m % 2) * 128 = a
<1>1. PICK h \in 0 .. 1, l \in 0 .. 127 : h = a \div 128 /\ l = a % 128 /\ a = 128 * h + l
  <2>1. a \div 128 \in 0 .. 1 /\ a % 128 \in 0 .. 127 /\ a = 128 * (a \div 128) + (a % 128)
    OBVIOUS
  <2> QED
    BY <2>1
<1>2. m = l * 2 + h
  BY <1>1
<1>3. m \div 2 = l /\ m % 2 = h
  BY <1>2
<1> QED
  BY <1>1, <1>3

LEMMA SwapUndoesSwap ==
  ASSUME NEW a \in 0 .. 255, NEW m, m = (a \div 16) + (a % 16) * 16
  PROVE  (m \div 16) + (m % 16) * 16 = a
<1>1. PICK h \in 0 .. 15, l \in 0 .. 15 : h = a \div 16 /\ l = a % 16 /\ a = 16 * h + l
  <2>1. a \div 16 \in 0 .. 15 /\ a % 16 \in 0 .. 15 /\ a = 16 * (a \div 16) + (a % 16)
    OBVIOUS
  <2> QED
    BY <2>1
<1>2. m = h + l * 16
  BY <1>1
<1>3. m \div 16 = l /\ m % 16 = h
  BY <1>2
<1> QED
  BY <1>1, <1>3

(* For every accumulator and carry: RRC undoes RLC and RLC undoes RRC, RR  *)
(* undoes RL, SWAP undoes SWAP, and nine RLC leave what was there.         *)
THEOREM RotatesInvertHolds == Spec => []RotatesInvert
<1> DEFINE same(s) == s.acc = cpu.acc /\ s.cy = cpu.cy
<1>1. ASSUME TypeOK PROVE RotatesInvert
  <2>1. cpu \in CPU /\ cpu.acc \in 0 .. 255
    BY <1>1, NineType DEF TypeOK
  <2>2. same(RRC(RLC(cpu)))
    <3>1. PICK t \in CPU : t = RLC(cpu) /\ Nine(t) = 2 * cpu.acc + Carry(cpu)
      BY <2>1, RlcValue
    <3>2. PICK u \in CPU : u = RRC(t) /\ 2 * u.acc + Carry(u) = Nine(t)
      BY RrcValue
    <3>3. PICK a \in 0 .. 255, c \in 0 .. 1 : a = cpu.acc /\ c = Carry(cpu)
      BY <2>1, NineType
    <3>4. PICK a2 \in 0 .. 255, c2 \in 0 .. 1 : a2 = u.acc /\ c2 = Carry(u)
      BY NineType
    <3>5. 2 * a2 + c2 = 2 * a + c
      BY <3>1, <3>2, <3>3, <3>4
    <3>6. a2 = a /\ c2 = c
      BY <3>5
    <3>7. u.acc = cpu.acc /\ u.cy = cpu.cy
      BY <2>1, <3>3, <3>4, <3>6, SameCarry, Zenon
    <3> QED
      BY <3>1, <3>2, <3>7
  <2>3. same(RLC(RRC(cpu)))
    <3>1. PICK t \in CPU : t = RRC(cpu) /\ 2 * t.acc + Carry(t) = Nine(cpu)
      BY <2>1, RrcValue
    <3>2. PICK u \in CPU : u = RLC(t) /\ Nine(u) = 2 * t.acc + Carry(t)
      BY RlcValue
    <3>3. u.acc = cpu.acc /\ u.cy = cpu.cy
      BY <2>1, <3>1, <3>2, SameNine
    <3> QED
      BY <3>1, <3>2, <3>3
  <2>4. same(RR(RL(cpu)))
    <3>1. PICK t \in CPU : /\ t = RL(cpu) /\ t.cy = cpu.cy
                           /\ t.acc = (cpu.acc % 128) * 2 + (cpu.acc \div 128)
      BY <2>1, RlResult
    <3>2. PICK u \in CPU : /\ u = RR(t) /\ u.cy = t.cy
                           /\ u.acc = (t.acc \div 2) + (t.acc % 2) * 128
      BY RrResult
    <3>3. u.acc = cpu.acc /\ u.cy = cpu.cy
      BY <2>1, <3>1, <3>2, RrUndoesRl
    <3> QED
      BY <3>1, <3>2, <3>3
  <2>5. same(SWAP(SWAP(cpu)))
    <3>1. PICK t \in CPU : /\ t = SWAP(cpu) /\ t.cy = cpu.cy
                           /\ t.acc = (cpu.acc \div 16) + (cpu.acc % 16) * 16
      BY <2>1, SwapResult
    <3>2. PICK u \in CPU : /\ u = SWAP(t) /\ u.cy = t.cy
                           /\ u.acc = (t.acc \div 16) + (t.acc % 16) * 16
      BY SwapResult
    <3>3. u.acc = cpu.acc /\ u.cy = cpu.cy
      BY <2>1, <3>1, <3>2, SwapUndoesSwap
    <3> QED
      BY <3>1, <3>2, <3>3
  <2>6. same(Thrice(Thrice(Thrice(cpu))))
    <3>1. PICK t \in CPU, k1 \in 0 .. 7 : t = Thrice(cpu) /\ Nine(t) = 8 * Nine(cpu) - 511 * k1
      BY <2>1, ThriceValue
    <3>2. PICK u \in CPU, k2 \in 0 .. 7 : u = Thrice(t) /\ Nine(u) = 8 * Nine(t) - 511 * k2
      BY ThriceValue
    <3>3. PICK v \in CPU, k3 \in 0 .. 7 : v = Thrice(u) /\ Nine(v) = 8 * Nine(u) - 511 * k3
      BY ThriceValue
    <3>4. Nine(v) = Nine(cpu)
      <4>1. PICK n \in 0 .. 511 : n = Nine(cpu)
        BY <2>1, NineType
      <4>2. PICK n3 \in 0 .. 511 : n3 = Nine(t) /\ n3 = 8 * n - 511 * k1
        BY <3>1, <4>1, NineType
      <4>3. PICK n6 \in 0 .. 511 : n6 = Nine(u) /\ n6 = 8 * n3 - 511 * k2
        BY <3>2, <4>2, NineType
      <4>4. PICK n9 \in 0 .. 511 : n9 = Nine(v) /\ n9 = 8 * n6 - 511 * k3
        BY <3>3, <4>3, NineType
      <4>5. n9 = n
        <5>1. n9 = n + 511 * (n - (64 * k1 + 8 * k2 + k3))
          BY <4>2, <4>3, <4>4
        <5>2. CASE n = 0 \/ n = 511
          BY <4>2, <4>3, <4>4, <5>2
        <5>3. CASE n \in 1 .. 510
          BY <5>1, <5>3
        <5> QED
          BY <5>2, <5>3
      <4> QED
        BY <4>1, <4>4, <4>5
    <3>5. v.acc = cpu.acc /\ v.cy = cpu.cy
      BY <2>1, <3>4, SameNine
    <3> QED
      BY <3>1, <3>2, <3>3, <3>5
  <2> QED
    BY <2>2, <2>3, <2>4, <2>5, <2>6 DEF RotatesInvert
<1> QED
  BY <1>1, TypeCorrect, PTL
-----------------------------------------------------------------------------
(* Decimal bytes *)

LEMMA DecimalDigits ==
  ASSUME NEW n \in DecimalBytes
  PROVE  \E h \in 0 .. 9, l \in 0 .. 9 : n = 16 * h + l /\ n % 16 = l /\ Decimal(n) = 10 * h + l
<1>1. /\ n \in 0 .. 255 /\ n \div 16 \in 0 .. 9 /\ n % 16 \in 0 .. 9
      /\ n = 16 * (n \div 16) + (n % 16)
  BY DEF DecimalBytes, ByteValue
<1>2. Decimal(n) = 10 * (n \div 16) + (n % 16)
  BY <1>1 DEF Decimal
<1> QED
  BY <1>1, <1>2

LEMMA DigitsDecimal ==
  ASSUME NEW h \in 0 .. 9, NEW l \in 0 .. 9
  PROVE  16 * h + l \in DecimalBytes /\ Decimal(16 * h + l) = 10 * h + l
<1>1. (16 * h + l) \div 16 = h /\ (16 * h + l) % 16 = l /\ 16 * h + l \in 0 .. 255
  OBVIOUS
<1> QED
  BY <1>1 DEF DecimalBytes, Decimal, ByteValue

LowAdjusted(n, ac) == IF ac \/ n % 16 > 9 THEN n + 6 ELSE n

(* What binary addition leaves, after DA has looked at the low digit: the  *)
(* digits g and f of the sum, but for a carry that already left.           *)
LEMMA LowDigit ==
  ASSUME NEW H \in 0 .. 18, NEW d \in 0 .. 19
  PROVE  \E g \in 0 .. 19, f \in 0 .. 9 :
           /\ 10 * g + f = 10 * H + d
           /\ LowAdjusted((16 * H + d) % 256, d >= 16)
                = IF 16 * H + d >= 256 THEN (16 * g + f) - 256 ELSE 16 * g + f
           /\ 16 * H + d >= 256 => g >= 16
<1> DEFINE low == LowAdjusted((16 * H + d) % 256, d >= 16)
<1>0. PICK u \in 0 .. 255 : u = (16 * H + d) % 256
  OBVIOUS
<1>low. low = IF d >= 16 \/ u % 16 > 9 THEN u + 6 ELSE u
  BY <1>0 DEF LowAdjusted
<1> HIDE DEF low
<1>1. u = IF 16 * H + d >= 256 THEN (16 * H + d) - 256 ELSE 16 * H + d
  <2>1. 16 * H + d \in 0 .. 511
    OBVIOUS
  <2> QED
    BY <1>0, <2>1, FoldsOnce, Zenon
<1>2. CASE d <= 9
  <2>1. u % 16 = d
    BY <1>1, <1>2
  <2>2. low = u
    BY <1>low, <1>2, <2>1
  <2>3. /\ H \in 0 .. 19 /\ d \in 0 .. 9
        /\ low = IF 16 * H + d >= 256 THEN (16 * H + d) - 256 ELSE 16 * H + d
        /\ 16 * H + d >= 256 => H >= 16
    BY <1>1, <1>2, <2>2
  <2> QED
    BY <2>3 DEF low
<1>3. CASE d \in 10 .. 15
  <2>1. u % 16 = d
    BY <1>1, <1>3
  <2>2. low = u + 6
    BY <1>low, <1>3, <2>1
  <2>3. /\ H + 1 \in 0 .. 19 /\ d - 10 \in 0 .. 9 /\ 10 * (H + 1) + (d - 10) = 10 * H + d
        /\ low = IF 16 * H + d >= 256
                 THEN (16 * (H + 1) + (d - 10)) - 256 ELSE 16 * (H + 1) + (d - 10)
        /\ 16 * H + d >= 256 => H + 1 >= 16
    BY <1>1, <1>3, <2>2
  <2> QED
    BY <2>3 DEF low
<1>4. CASE d \in 16 .. 19
  <2>1. low = u + 6
    BY <1>low, <1>4
  <2>2. /\ H + 1 \in 0 .. 19 /\ d - 10 \in 0 .. 9 /\ 10 * (H + 1) + (d - 10) = 10 * H + d
        /\ low = IF 16 * H + d >= 256
                 THEN (16 * (H + 1) + (d - 10)) - 256 ELSE 16 * (H + 1) + (d - 10)
        /\ 16 * H + d >= 256 => H + 1 >= 16
    BY <1>1, <1>4, <2>1
  <2> QED
    BY <2>2 DEF low
<1> QED
  BY <1>2, <1>3, <1>4

(* What DA makes of the high digit. *)
LEMMA HighDigit ==
  ASSUME NEW g \in 0 .. 19, NEW f \in 0 .. 9, NEW cy \in BOOLEAN, cy => g >= 16,
         NEW low, low = IF cy THEN (16 * g + f) - 256 ELSE 16 * g + f,
         NEW high, high = IF (cy \/ low >= 256) \/ low >= 160 THEN low + 96 ELSE low
  PROVE  /\ (cy \/ low >= 256) \/ high >= 256 <=> g >= 10
         /\ high % 256 = IF g >= 10 THEN 16 * (g - 10) + f ELSE 16 * g + f
<1>1. CASE cy
  <2>1. g >= 16 /\ low = (16 * g + f) - 256 /\ high = 16 * (g - 10) + f
    BY <1>1
  <2>2. high \in 0 .. 255
    BY <2>1
  <2> QED
    BY <1>1, <2>1, <2>2
<1>2. CASE ~cy /\ g >= 10
  <2>1. low = 16 * g + f /\ low >= 160
    BY <1>2
  <2>2. high = (16 * (g - 10) + f) + 256
    BY <2>1
  <2>3. 16 * (g - 10) + f \in 0 .. 255
    BY <1>2
  <2>4. high % 256 = 16 * (g - 10) + f
    BY <2>2, <2>3
  <2> QED
    BY <1>2, <2>2, <2>3, <2>4
<1>3. CASE ~cy /\ g < 10
  <2>1. low = 16 * g + f /\ low < 160
    BY <1>3
  <2>2. high = low /\ high \in 0 .. 255
    BY <1>3, <2>1
  <2> QED
    BY <1>3, <2>1, <2>2
<1> QED
  BY <1>1, <1>2, <1>3

LEMMA AddcResult ==
  ASSUME NEW s \in CPU, NEW x \in ByteValue
  PROVE  /\ ADDC(s, x) \in CPU
         /\ ADDC(s, x).acc = (s.acc + x + Carry(s)) % 256
         /\ ADDC(s, x).cy = (s.acc + x + Carry(s) >= 256)
         /\ ADDC(s, x).ac = HalfCarry(s.acc, x + Carry(s))
<1>1. Carry(s) \in 0 .. 1
  BY CarryType
<1>2. ADDC(s, x) = Sum(s, x, Carry(s))
  BY DEF ADDC
<1>3. /\ Sum(s, x, Carry(s)) \in CPU
      /\ Sum(s, x, Carry(s)).acc = (s.acc + x + Carry(s)) % 256
      /\ Sum(s, x, Carry(s)).cy = (s.acc + x + Carry(s) >= 256)
  BY <1>1, SumResult
<1>4. Sum(s, x, Carry(s)).ac = HalfCarry(s.acc, x + Carry(s))
  BY <1>1, SumResult, ZenonT(60)
<1> QED
  BY <1>2, <1>3, <1>4

(* DA after ADDC of two decimal bytes leaves the two digits of their sum,  *)
(* the carry taken in included, and its hundreds in the carry.             *)
THEOREM DecimalSumHolds == Spec => []DecimalSum
<1>1. ASSUME TypeOK PROVE DecimalSum
  <2> SUFFICES ASSUME cpu.acc \in DecimalBytes, NEW x \in DecimalBytes
               PROVE  LET sum == DA(ADDC(cpu, x))
                      IN /\ sum.acc \in DecimalBytes
                         /\ Carry(sum) * 100 + Decimal(sum.acc)
                              = Decimal(cpu.acc) + Decimal(x) + Carry(cpu)
    BY DEF DecimalSum
  <2>1. cpu \in CPU /\ x \in ByteValue
    BY <1>1 DEF TypeOK, DecimalBytes
  <2>2. PICK ah \in 0 .. 9, al \in 0 .. 9 :
          cpu.acc = 16 * ah + al /\ cpu.acc % 16 = al /\ Decimal(cpu.acc) = 10 * ah + al
    BY DecimalDigits
  <2>3. PICK xh \in 0 .. 9, xl \in 0 .. 9 :
          x = 16 * xh + xl /\ x % 16 = xl /\ Decimal(x) = 10 * xh + xl
    BY DecimalDigits
  <2>4. PICK c \in 0 .. 1 : c = Carry(cpu)
    BY CarryType
  <2>5. PICK H \in 0 .. 18, d \in 0 .. 19 : H = ah + xh /\ d = al + xl + c
    <3>1. ah + xh \in 0 .. 18 /\ al + xl + c \in 0 .. 19
      OBVIOUS
    <3> QED
      BY <3>1
  <2>6. cpu.acc + x + c = 16 * H + d
    BY <2>2, <2>3, <2>5
  <2>7. (cpu.acc % 16) + ((x + c) % 16) = d
    <3>1. (x + c) % 16 = xl + c
      BY <2>3
    <3> QED
      BY <2>2, <2>5, <3>1
  <2>8. PICK s \in CPU : /\ s = ADDC(cpu, x) /\ s.acc = (16 * H + d) % 256
                         /\ s.cy = (16 * H + d >= 256) /\ s.ac = (d >= 16)
    <3>1. PICK s \in CPU : /\ s = ADDC(cpu, x)
                           /\ s.acc = (cpu.acc + x + Carry(cpu)) % 256
                           /\ s.cy = (cpu.acc + x + Carry(cpu) >= 256)
                           /\ s.ac = HalfCarry(cpu.acc, x + Carry(cpu))
      BY <2>1, AddcResult
    <3> QED
      BY <2>4, <2>6, <2>7, <3>1 DEF HalfCarry
  <2>9. PICK low : low = IF s.ac \/ s.acc % 16 > 9 THEN s.acc + 6 ELSE s.acc
    OBVIOUS
  <2>10. PICK high : high = IF (s.cy \/ low >= 256) \/ low >= 160 THEN low + 96 ELSE low
    OBVIOUS
  <2>11. PICK r \in CPU : /\ r = DA(s) /\ r.acc = high % 256
                          /\ r.cy = ((s.cy \/ low >= 256) \/ high >= 256)
    BY <2>9, <2>10, AdjustedResult
  <2>12. PICK g \in 0 .. 19, f \in 0 .. 9 :
           /\ 10 * g + f = 10 * H + d
           /\ low = IF 16 * H + d >= 256 THEN (16 * g + f) - 256 ELSE 16 * g + f
           /\ 16 * H + d >= 256 => g >= 16
    <3>1. low = LowAdjusted((16 * H + d) % 256, d >= 16)
      BY <2>8, <2>9, ZenonT(60) DEF LowAdjusted
    <3> QED
      BY <3>1, LowDigit
  <2>13. /\ r.cy <=> g >= 10
         /\ r.acc = IF g >= 10 THEN 16 * (g - 10) + f ELSE 16 * g + f
    <3>1. s.cy \in BOOLEAN /\ (s.cy => g >= 16)
      BY <2>8, <2>12 DEF CPU
    <3>2. low = IF s.cy THEN (16 * g + f) - 256 ELSE 16 * g + f
      BY <2>8, <2>12, Zenon
    <3>3. PICK cy \in BOOLEAN : cy = s.cy
      BY <3>1
    <3>4. /\ (cy \/ low >= 256) \/ high >= 256 <=> g >= 10
          /\ high % 256 = IF g >= 10 THEN 16 * (g - 10) + f ELSE 16 * g + f
      BY <2>10, <3>1, <3>2, <3>3, HighDigit
    <3> QED
      BY <2>11, <3>3, <3>4, Zenon
  <2>14. r.acc \in DecimalBytes /\ Carry(r) * 100 + Decimal(r.acc) = 10 * g + f
    <3>1. CASE g >= 10
      <4>1. g - 10 \in 0 .. 9 /\ 1 * 100 + (10 * (g - 10) + f) = 10 * g + f
        BY <3>1
      <4>2. Carry(r) = 1 /\ r.acc = 16 * (g - 10) + f
        BY <2>13, <3>1 DEF Carry
      <4> QED
        BY <4>1, <4>2, DigitsDecimal
    <3>2. CASE ~(g >= 10)
      <4>1. g \in 0 .. 9 /\ 0 * 100 + (10 * g + f) = 10 * g + f
        BY <3>2
      <4>2. Carry(r) = 0 /\ r.acc = 16 * g + f
        BY <2>13, <3>2 DEF Carry
      <4> QED
        BY <4>1, <4>2, DigitsDecimal
    <3> QED
      BY <3>1, <3>2
  <2>15. 10 * g + f = Decimal(cpu.acc) + Decimal(x) + Carry(cpu)
    BY <2>2, <2>3, <2>4, <2>5, <2>12
  <2> QED
    BY <2>8, <2>11, <2>14, <2>15
<1> QED
  BY <1>1, TypeCorrect, PTL
-----------------------------------------------------------------------------
(* Multiplication and division *)

LEMMA BWritten ==
  ASSUME NEW t \in CPU, NEW y \in ByteValue
  PROVE  /\ [t EXCEPT !.b = y] \in CPU
         /\ [t EXCEPT !.b = y].b = y /\ [t EXCEPT !.b = y].acc = t.acc
BY DEF CPU

LEMMA ProductDivides ==
  ASSUME NEW a \in ByteValue, NEW y \in ByteValue \ {0}
  PROVE  (a * y) \div y = a /\ (a * y) % y = 0
BY DEF ByteValue

(* DIV leaves quotient and remainder, MUL the whole product with OV set    *)
(* when it does not fit a byte, and DIV of a product that fits by one of   *)
(* its factors gives back the other, for every divisor but 0.              *)
THEOREM DivisionInvertsHolds == Spec => []DivisionInverts
<1>1. ASSUME TypeOK PROVE DivisionInverts
  <2> SUFFICES ASSUME NEW y \in Operands \ {0}
               PROVE  LET s == [cpu EXCEPT !.b = y]
                          quotient == DIV(s)
                          product == MUL(s)
                          factor == DIV([product EXCEPT !.b = y])
                      IN /\ quotient.acc * y + quotient.b = s.acc /\ quotient.b < y
                         /\ product.b * 256 + product.acc = s.acc * y
                         /\ product.ov = (product.b # 0)
                         /\ ~product.ov => factor.acc = s.acc /\ factor.b = 0
    BY DEF DivisionInverts
  <2>1. cpu \in CPU /\ y \in ByteValue \ {0} /\ y # Undefined
    BY <1>1, OperandsAssumption, UndefinedAssumption DEF TypeOK
  <2>2. PICK s \in CPU : s = [cpu EXCEPT !.b = y] /\ s.b = y
    BY <2>1, BWritten
  <2>3. PICK a \in ByteValue : a = s.acc
    BY DEF CPU
  <2>4. PICK n \in Nat : n = a * y
    BY <2>1 DEF ByteValue
  <2>5. PICK q \in CPU : q = DIV(s) /\ q.acc = a \div y /\ q.b = a % y
    BY <2>1, <2>2, <2>3, DivResult, Zenon
  <2>6. PICK p \in CPU : p = MUL(s) /\ p.acc = n % 256 /\ p.b = n \div 256 /\ p.ov = (n > 255)
    <3>1. /\ MUL(s) \in CPU
          /\ MUL(s).acc = (s.acc * s.b) % 256 /\ MUL(s).b = (s.acc * s.b) \div 256
          /\ MUL(s).ov = (s.acc * s.b > 255)
      BY <2>1, <2>2, MulResult, ZenonT(60)
    <3>2. s.acc * s.b = n
      BY <2>2, <2>3, <2>4
    <3> QED
      BY <3>1, <3>2
  <2>7. PICK t \in CPU : t = [p EXCEPT !.b = y] /\ t.b = y /\ t.acc = p.acc
    BY <2>1, BWritten
  <2>8. PICK r \in CPU : r = DIV(t) /\ r.acc = p.acc \div y /\ r.b = p.acc % y
    <3>1. t.b # Undefined /\ t.b # 0
      BY <2>1, <2>7
    <3>2. DIV(t) \in CPU /\ DIV(t).acc = t.acc \div t.b /\ DIV(t).b = t.acc % t.b
      BY <3>1, DivResult
    <3> QED
      BY <2>7, <3>2
  <2>9. q.acc * y + q.b = s.acc /\ q.b < y
    <3>1. a \in Nat /\ y \in Nat \ {0}
      BY <2>1 DEF ByteValue
    <3>2. (a \div y) * y + (a % y) = a /\ (a % y) < y
      BY <3>1, QuotientRemainder
    <3> QED
      BY <2>3, <2>5, <3>2
  <2>10. p.b * 256 + p.acc = s.acc * y
    <3>1. (n \div 256) * 256 + (n % 256) = n
      OBVIOUS
    <3> QED
      BY <2>3, <2>4, <2>6, <3>1
  <2>11. p.ov = (p.b # 0)
    <3>1. n > 255 <=> n \div 256 # 0
      OBVIOUS
    <3> QED
      BY <2>6, <3>1
  <2>12. ~p.ov => r.acc = s.acc /\ r.b = 0
    <3> SUFFICES ASSUME ~p.ov PROVE r.acc = s.acc /\ r.b = 0
      OBVIOUS
    <3>1. p.ov <=> n > 255
      <4>1. p.ov \in BOOLEAN /\ (n > 255) \in BOOLEAN
        BY DEF CPU
      <4> QED
        BY <2>6, <4>1, Zenon
    <3>2. n \in 0 .. 255
      BY <3>1
    <3>3. n % 256 = n
      BY <3>2
    <3>4. p.acc = a * y
      BY <2>4, <2>6, <3>3
    <3>5. (a * y) \div y = a /\ (a * y) % y = 0
      BY <2>1, ProductDivides
    <3> QED
      BY <2>3, <2>8, <3>4, <3>5
  <2> QED
    BY <2>2, <2>5, <2>6, <2>7, <2>8, <2>9, <2>10, <2>11, <2>12
<1> QED
  BY <1>1, TypeCorrect, PTL
=============================================================================

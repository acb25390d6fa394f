---------------------------- MODULE Stack_proofs ----------------------------
(***************************************************************************)
(* Proofs about Stack for every program, RAM and placement of the stack.   *)
(***************************************************************************)
EXTENDS Stack, SequenceTheorems, TLAPS

(* TypeOK but for the range of SP, which StackHolds gives. *)
Typed == /\ sp \in Int /\ base \in Byte
         /\ pc \in Code
         /\ int_ram \in [Ram -> Byte]
         /\ items \in Seq(Item)

Inv == Typed /\ StackHolds

(* Splitting an address into bytes and joining them gives it back. *)
LEMMA SplitAddress ==
  ASSUME NEW a \in Word
  PROVE  /\ a % 256 \in Byte /\ a \div 256 \in Byte
         /\ (a \div 256) % 256 = a \div 256
         /\ (a \div 256) * 256 + (a % 256) = a
<1>1. a \in Int /\ a >= 0 /\ a <= 65535
  BY DEF Word
<1>2. a % 256 \in 0 .. 255
  BY <1>1
<1>3. (a \div 256) * 256 + (a % 256) = a /\ a \div 256 \in Int
  BY <1>1
<1>4. a \div 256 \in 0 .. 255
  <2> DEFINE q == a \div 256
             r == a % 256
  <2>1. q * 256 + r = a /\ q \in Int /\ r \in 0 .. 255
    BY <1>2, <1>3
  <2> HIDE DEF q, r
  <2>2. q * 256 + r >= 0 /\ q * 256 + r <= 65535 /\ r >= 0 /\ r <= 255
    <3>1. r \in Int /\ r >= 0 /\ r <= 255
      BY <2>1
    <3>2. q * 256 + r = a
      BY <2>1
    <3> QED
      BY <1>1, <3>1, <3>2
  <2>3. q >= 0
    <3>1. CASE q <= -1
      <4>1. q * 256 <= -256
        BY <2>1, <3>1
      <4> QED
        BY <2>1, <2>2, <4>1
    <3> QED
      BY <2>1, <3>1
  <2>4. q <= 255
    <3>1. CASE q >= 256
      <4>1. q * 256 >= 65536
        BY <2>1, <3>1
      <4> QED
        BY <2>1, <2>2, <4>1
    <3> QED
      BY <2>1, <3>1
  <2>5. q \in 0 .. 255
    BY <2>1, <2>3, <2>4
  <2> QED
    BY <2>5 DEF q
<1>5. (a \div 256) % 256 = a \div 256
  BY <1>4
<1> QED
  BY <1>2, <1>3, <1>4, <1>5 DEF Byte

LEMMA CodeIsWord == Code \subseteq Word /\ 0 \in Code /\ Ram \subseteq Byte
BY CodeAssumption, RamAssumption

LEMMA ItemByte == ASSUME NEW it \in Item PROVE ByteOf(it) \in Byte
<1>1. CASE it.part = "data"
  BY <1>1 DEF Item, ByteOf
<1>2. CASE it.part \in {"low", "high"}
  BY <1>2, CodeIsWord, SplitAddress DEF Item, ByteOf
<1> QED
  BY <1>1, <1>2 DEF Item

(* The items below a popped one stay; so do those below two. *)
LEMMA Shortened ==
  ASSUME NEW q \in Seq(Item), NEW k \in 1 .. 2, k <= Len(q)
  PROVE  /\ SubSeq(q, 1, Len(q) - k) \in Seq(Item)
         /\ Len(SubSeq(q, 1, Len(q) - k)) = Len(q) - k
         /\ \A i \in 1 .. Len(q) - k : SubSeq(q, 1, Len(q) - k)[i] = q[i]
<1>1. Len(q) \in Nat /\ \A i \in 1 .. Len(q) : q[i] \in Item
  OBVIOUS
<1> DEFINE n == Len(q) - k
<1>2. n \in Nat /\ n \in Int /\ 1 \in Int /\ \A i \in 1 .. n : q[i] \in Item
  BY <1>1
<1> HIDE DEF n
<1>3. /\ SubSeq(q, 1, n) \in Seq(Item)
      /\ Len(SubSeq(q, 1, n)) = IF 1 <= n THEN n - 1 + 1 ELSE 0
      /\ \A i \in 1 .. n - 1 + 1 : SubSeq(q, 1, n)[i] = q[1 + i - 1]
  BY <1>2, SubSeqProperties
<1>4. /\ SubSeq(q, 1, n) \in Seq(Item)
      /\ Len(SubSeq(q, 1, n)) = n
      /\ \A i \in 1 .. n : SubSeq(q, 1, n)[i] = q[i]
  <2>1. n - 1 + 1 = n /\ \A i \in 1 .. n : 1 + i - 1 = i
    BY <1>2
  <2> QED
    BY <1>2, <1>3, <2>1
<1> QED
  BY <1>4 DEF n

(* Both bytes of an address go on top, low one first. *)
LEMMA PushAddressKeeps ==
  ASSUME Inv, NEW a \in Code, PushAddress(a)
  PROVE  /\ sp' \in Int /\ base' \in Byte /\ int_ram' \in [Ram -> Byte]
         /\ items' \in Seq(Item)
         /\ StackHolds'
<1> DEFINE n == Len(items)
           lo == [part |-> "low", of |-> a]
           hi == [part |-> "high", of |-> a]
<1> USE DEF Inv
<1>1. /\ items \in Seq(Item) /\ n \in Nat
      /\ sp = base + n /\ sp \in Int /\ base \in Byte
      /\ int_ram \in [Ram -> Byte]
  BY DEF Typed, StackHolds
<1>2. lo \in Item /\ hi \in Item
  BY DEF Item
<1>3. <<lo, hi>> \in Seq(Item) /\ Len(<<lo, hi>>) = 2
      /\ <<lo, hi>>[1] = lo /\ <<lo, hi>>[2] = hi
  BY <1>2
<1>4. items' = items \o <<lo, hi>>
  BY DEF PushAddress
<1> HIDE DEF lo, hi
<1>5. /\ items' \in Seq(Item)
      /\ Len(items') = n + 2
      /\ \A i \in 1 .. n : items'[i] = items[i]
      /\ items'[n + 1] = lo /\ items'[n + 2] = hi
  <2>1. /\ items' \in Seq(Item)
        /\ Len(items') = n + 2
        /\ \A i \in 1 .. n + 2 :
             items'[i] = IF i <= n THEN items[i] ELSE <<lo, hi>>[i - n]
    BY <1>1, <1>3, <1>4, ConcatProperties
  <2>2. n + 1 - n = 1 /\ n + 2 - n = 2 /\ n + 1 \in 1 .. n + 2 /\ n + 2 \in 1 .. n + 2
        /\ ~(n + 1 <= n) /\ ~(n + 2 <= n)
    BY <1>1
  <2>3. \A i \in 1 .. n : i \in 1 .. n + 2 /\ i <= n
    BY <1>1
  <2> QED
    BY <2>1, <2>2, <2>3, <1>3
<1>6. ByteOf(lo) = a % 256 /\ ByteOf(hi) = a \div 256
  BY DEF ByteOf, lo, hi
<1>7. /\ {sp + 1, sp + 2} \subseteq Ram
      /\ int_ram' = [int_ram EXCEPT ![sp + 1] = a % 256, ![sp + 2] = (a \div 256) % 256]
      /\ sp' = sp + 2 /\ base' = base
  BY DEF PushAddress, Pushed
<1>8. a % 256 \in Byte /\ a \div 256 \in Byte /\ (a \div 256) % 256 = a \div 256
  BY CodeIsWord, SplitAddress
<1>9. int_ram' \in [Ram -> Byte]
  BY <1>1, <1>7, <1>8
<1>10. /\ int_ram'[sp + 1] = ByteOf(lo) /\ int_ram'[sp + 2] = ByteOf(hi)
       /\ \A x \in Ram : x # sp + 1 /\ x # sp + 2 => int_ram'[x] = int_ram[x]
  BY <1>1, <1>6, <1>7, <1>8
<1>11. ASSUME NEW i \in 1 .. Len(items')
       PROVE  base' + i \in Ram /\ int_ram'[base' + i] = ByteOf(items'[i])
  <2>1. CASE i \in 1 .. n
    <3>1. base + i \in Ram /\ int_ram[base + i] = ByteOf(items[i])
      BY <2>1 DEF StackHolds
    <3>2. base + i # sp + 1 /\ base + i # sp + 2
      BY <1>1, <2>1 DEF Byte
    <3> QED
      BY <1>5, <1>7, <1>10, <2>1, <3>1, <3>2
  <2>2. CASE i = n + 1
    <3>1. base + i = sp + 1
      BY <1>1, <2>2 DEF Byte
    <3> QED
      BY <1>5, <1>7, <1>10, <2>2, <3>1
  <2>3. CASE i = n + 2
    <3>1. base + i = sp + 2
      BY <1>1, <2>3 DEF Byte
    <3> QED
      BY <1>5, <1>7, <1>10, <2>3, <3>1
  <2> QED
    BY <1>1, <1>5, <2>1, <2>2, <2>3
<1>12. Paired'
  <2> SUFFICES ASSUME NEW i \in 1 .. Len(items')
               PROVE /\ items'[i].part = "low" =>
                          i < Len(items') /\ items'[i + 1] = [part |-> "high", of |-> items'[i].of]
                     /\ items'[i].part = "high" =>
                          i > 1 /\ items'[i - 1] = [part |-> "low", of |-> items'[i].of]
    BY DEF Paired
  <2>1. CASE i \in 1 .. n
    <3>1. /\ items[i].part = "low" =>
               i < n /\ items[i + 1] = [part |-> "high", of |-> items[i].of]
          /\ items[i].part = "high" =>
               i > 1 /\ items[i - 1] = [part |-> "low", of |-> items[i].of]
      BY <2>1 DEF StackHolds, Paired
    <3>2. i < n => i + 1 \in 1 .. n /\ i < n + 2
      BY <1>1, <2>1
    <3>3. i > 1 => i - 1 \in 1 .. n
      BY <1>1, <2>1
    <3> QED
      BY <1>5, <2>1, <3>1, <3>2, <3>3
  <2>2. CASE i = n + 1
    <3>1. items'[i] = lo /\ items'[i + 1] = hi /\ i < n + 2
      BY <1>1, <1>5, <2>2
    <3> QED
      BY <1>5, <3>1 DEF lo, hi
  <2>3. CASE i = n + 2
    <3>1. items'[i] = hi /\ items'[i - 1] = lo /\ i > 1
      BY <1>1, <1>5, <2>3
    <3> QED
      BY <3>1 DEF lo, hi
  <2> QED
    BY <1>1, <1>5, <2>1, <2>2, <2>3
<1>13. sp' = base' + Len(items')
  BY <1>1, <1>5, <1>7 DEF Byte
<1>14. StackHolds'
  BY <1>11, <1>12, <1>13 DEF StackHolds
<1>15. sp' \in Int /\ base' \in Byte
  BY <1>1, <1>7
<1> QED
  BY <1>5, <1>9, <1>14, <1>15

(* One byte of data goes on top. *)
LEMMA PushKeeps ==
  ASSUME Inv, NEW a \in Ram, PUSH(a)
  PROVE  Typed' /\ StackHolds'
<1> DEFINE n == Len(items)
           item == [part |-> "data", of |-> int_ram[a]]
<1>1. /\ items \in Seq(Item) /\ n \in Nat
      /\ sp = base + n /\ sp \in Int /\ base \in Byte
      /\ int_ram \in [Ram -> Byte]
  BY DEF Inv, Typed, StackHolds
<1>2. item \in Item /\ ByteOf(item) = int_ram[a]
  BY <1>1 DEF Item, ByteOf
<1>3. /\ sp + 1 \in Ram
      /\ int_ram' = [int_ram EXCEPT ![sp + 1] = int_ram[a]]
      /\ sp' = sp + 1 /\ base' = base /\ pc' \in Code
      /\ items' = Append(items, item)
  BY DEF PUSH, Advance
<1> HIDE DEF item
<1>4. /\ items' \in Seq(Item)
      /\ Len(items') = n + 1
      /\ \A i \in 1 .. n : items'[i] = items[i]
      /\ items'[n + 1] = item
  BY <1>1, <1>2, <1>3, AppendProperties
<1>5. int_ram' \in [Ram -> Byte]
  BY <1>1, <1>3
<1>6. /\ int_ram'[sp + 1] = ByteOf(item)
      /\ \A x \in Ram : x # sp + 1 => int_ram'[x] = int_ram[x]
  BY <1>1, <1>2, <1>3
<1>7. ASSUME NEW i \in 1 .. Len(items')
      PROVE  base' + i \in Ram /\ int_ram'[base' + i] = ByteOf(items'[i])
  <2>1. CASE i \in 1 .. n
    <3>1. base + i \in Ram /\ int_ram[base + i] = ByteOf(items[i])
      BY <2>1 DEF Inv, StackHolds
    <3>2. base + i # sp + 1
      BY <1>1, <2>1 DEF Byte
    <3> QED
      BY <1>3, <1>4, <1>6, <2>1, <3>1, <3>2
  <2>2. CASE i = n + 1
    <3>1. base + i = sp + 1
      BY <1>1, <2>2 DEF Byte
    <3> QED
      BY <1>3, <1>4, <1>6, <2>2, <3>1
  <2> QED
    BY <1>1, <1>4, <2>1, <2>2
<1>8. Paired'
  <2> SUFFICES ASSUME NEW i \in 1 .. Len(items')
               PROVE /\ items'[i].part = "low" =>
                          i < Len(items') /\ items'[i + 1] = [part |-> "high", of |-> items'[i].of]
                     /\ items'[i].part = "high" =>
                          i > 1 /\ items'[i - 1] = [part |-> "low", of |-> items'[i].of]
    BY DEF Paired
  <2>1. CASE i \in 1 .. n
    <3>1. /\ items[i].part = "low" =>
               i < n /\ items[i + 1] = [part |-> "high", of |-> items[i].of]
          /\ items[i].part = "high" =>
               i > 1 /\ items[i - 1] = [part |-> "low", of |-> items[i].of]
      BY <2>1 DEF Inv, StackHolds, Paired
    <3>2. i < n => i + 1 \in 1 .. n /\ i < n + 1
      BY <1>1, <2>1
    <3>3. i > 1 => i - 1 \in 1 .. n
      BY <1>1, <2>1
    <3> QED
      BY <1>4, <2>1, <3>1, <3>2, <3>3
  <2>2. CASE i = n + 1
    BY <1>4, <2>2 DEF item
  <2> QED
    BY <1>1, <1>4, <2>1, <2>2
<1>9. sp' = base' + Len(items')
  BY <1>1, <1>3, <1>4 DEF Byte
<1>10. StackHolds'
  BY <1>7, <1>8, <1>9 DEF StackHolds
<1>11. sp' \in Int /\ base' \in Byte
  BY <1>1, <1>3
<1> QED
  BY <1>3, <1>4, <1>5, <1>10, <1>11 DEF Typed

(* Taking k items off leaves the rest as it was: one byte of data, or the  *)
(* two bytes of an address, whose pair is complete.                        *)
LEMMA PopKeeps ==
  ASSUME Inv, NEW k \in 1 .. 2, k <= Len(items),
         sp' = sp - k, base' = base, items' = SubSeq(items, 1, Len(items) - k),
         int_ram' \in [Ram -> Byte],
         \A x \in base + 1 .. sp - k : x \in Ram => int_ram'[x] = int_ram[x],
         k = 1 => Top.part = "data", k = 2 => Top.part = "high"
  PROVE  /\ sp' \in Int /\ base' \in Byte /\ items' \in Seq(Item)
         /\ StackHolds'
<1> DEFINE n == Len(items)
<1>1. /\ items \in Seq(Item) /\ n \in Nat
      /\ sp = base + n /\ sp \in Int /\ base \in Byte
  BY DEF Inv, Typed, StackHolds
<1>2. /\ items' \in Seq(Item)
      /\ Len(items') = n - k
      /\ \A i \in 1 .. n - k : items'[i] = items[i]
  BY <1>1, Shortened
<1>3. ASSUME NEW i \in 1 .. Len(items')
      PROVE  base' + i \in Ram /\ int_ram'[base' + i] = ByteOf(items'[i])
  <2>1. i \in 1 .. n - k /\ i \in 1 .. n
    BY <1>1, <1>2
  <2>2. base + i \in Ram /\ int_ram[base + i] = ByteOf(items[i])
    BY <2>1 DEF Inv, StackHolds
  <2>3. base + i \in base + 1 .. sp - k
    BY <1>1, <2>1 DEF Byte
  <2> QED
    BY <1>2, <2>1, <2>2, <2>3
<1>4. Paired'
  <2> SUFFICES ASSUME NEW i \in 1 .. Len(items')
               PROVE /\ items'[i].part = "low" =>
                          i < Len(items') /\ items'[i + 1] = [part |-> "high", of |-> items'[i].of]
                     /\ items'[i].part = "high" =>
                          i > 1 /\ items'[i - 1] = [part |-> "low", of |-> items'[i].of]
    BY DEF Paired
  <2>1. i \in 1 .. n - k /\ i \in 1 .. n /\ i < n
    BY <1>1, <1>2
  <2>2. /\ items[i].part = "low" =>
             i < n /\ items[i + 1] = [part |-> "high", of |-> items[i].of]
        /\ items[i].part = "high" =>
             i > 1 /\ items[i - 1] = [part |-> "low", of |-> items[i].of]
    BY <2>1 DEF Inv, StackHolds, Paired
  <2>3. ASSUME items[i].part = "low" PROVE i < n - k
    <3>1. items[i + 1] = [part |-> "high", of |-> items[i].of]
      BY <2>2, <2>3
    <3>2. CASE k = 1
      <4>1. items[n].part = "data"
        BY <3>2 DEF Top
      <4>2. i + 1 # n
        BY <3>1, <4>1
      <4> QED
        BY <1>1, <2>1, <3>2, <4>2
    <3>3. CASE k = 2
      <4>1. items[n].part = "high" /\ n \in 1 .. n
        BY <1>1, <3>3 DEF Top
      <4>2. n > 1 /\ items[n - 1] = [part |-> "low", of |-> items[n].of]
        BY <4>1 DEF Inv, StackHolds, Paired
      <4>3. i + 1 # n - 1
        BY <3>1, <4>2
      <4> QED
        BY <1>1, <2>1, <3>3, <4>3
    <3> QED
      BY <3>2, <3>3
  <2>4. i > 1 => i - 1 \in 1 .. n - k
    BY <1>1, <2>1
  <2>5. i < n - k => i + 1 \in 1 .. n - k
    BY <1>1, <2>1
  <2> QED
    BY <1>2, <2>1, <2>2, <2>3, <2>4, <2>5
<1>5. sp' = base' + Len(items')
  BY <1>1, <1>2 DEF Byte
<1>6. StackHolds'
  BY <1>3, <1>4, <1>5 DEF StackHolds
<1>7. sp' \in Int /\ base' \in Byte
  BY <1>1
<1> QED
  BY <1>2, <1>6, <1>7

-----------------------------------------------------------------------------
(* The empty stack of the reset holds. *)
LEMMA InitInv == Init => Inv
<1> SUFFICES ASSUME Init PROVE Inv
  OBVIOUS
<1>1. items = <<>> /\ sp = 0 /\ base = 0 /\ pc = 0 /\ int_ram = [a \in Ram |-> 0]
  BY DEF Init
<1>2. items \in Seq(Item) /\ Len(items) = 0 /\ 1 .. Len(items) = {}
  BY <1>1
<1>3. Typed
  BY <1>1, <1>2, CodeIsWord DEF Typed, Byte
<1>4. StackHolds
  BY <1>1, <1>2 DEF StackHolds, Paired
<1> QED
  BY <1>3, <1>4 DEF Inv

(* The address a return pops is the one its pair of items stands for. *)
LEMMA PopsItsAddress ==
  ASSUME Inv, items # <<>>, Top.part = "high"
  PROVE  /\ Len(items) \in Nat /\ 2 <= Len(items)
         /\ Top.of \in Code
         /\ PoppedAddress = Top.of
<1> DEFINE n == Len(items)
<1>1. /\ items \in Seq(Item) /\ n \in Nat /\ n > 0
      /\ sp = base + n /\ base \in Int
  BY DEF Inv, Typed, StackHolds, Byte
<1>2. n \in 1 .. n /\ Top = items[n]
  BY <1>1 DEF Top
<1>3. n > 1 /\ items[n - 1] = [part |-> "low", of |-> Top.of]
  BY <1>2 DEF Inv, StackHolds, Paired
<1>4. Top \in Item
  BY <1>1, <1>2
<1>5. Top.of \in Code
  BY <1>4 DEF Item
<1>6. n - 1 \in 1 .. n /\ base + n = sp /\ base + (n - 1) = sp - 1
  BY <1>1, <1>3
<1>7. int_ram[sp] = ByteOf(Top) /\ int_ram[sp - 1] = ByteOf(items[n - 1])
  BY <1>2, <1>6 DEF Inv, StackHolds
<1>8. ByteOf(Top) = Top.of \div 256 /\ ByteOf(items[n - 1]) = Top.of % 256
  BY <1>3 DEF ByteOf
<1>9. PoppedAddress = (Top.of \div 256) * 256 + (Top.of % 256)
  BY <1>7, <1>8 DEF PoppedAddress
<1>10. PoppedAddress = Top.of
  BY <1>5, <1>9, CodeIsWord, SplitAddress
<1> QED
  BY <1>1, <1>3, <1>5, <1>10

LEMMA ReturnKeeps == ASSUME Inv, Return PROVE Inv'
<1>1. /\ items # <<>> /\ Top.part = "high" /\ pc' = PoppedAddress
      /\ sp' = sp - 2 /\ base' = base /\ int_ram' = int_ram
      /\ items' = SubSeq(items, 1, Len(items) - 2)
  BY DEF Return
<1>2. /\ Len(items) \in Nat /\ 2 <= Len(items) /\ Top.of \in Code
      /\ PoppedAddress = Top.of
  BY <1>1, PopsItsAddress
<1>3. int_ram' \in [Ram -> Byte]
  BY <1>1 DEF Inv, Typed
<1>4. /\ sp' \in Int /\ base' \in Byte /\ items' \in Seq(Item)
      /\ StackHolds'
  <2> DEFINE k == 2
  <2>1. /\ k \in 1 .. 2 /\ k <= Len(items)
        /\ sp' = sp - k /\ items' = SubSeq(items, 1, Len(items) - k)
        /\ k = 1 => Top.part = "data"
        /\ k = 2 => Top.part = "high"
        /\ \A x \in base + 1 .. sp - k : x \in Ram => int_ram'[x] = int_ram[x]
    BY <1>1, <1>2
  <2> HIDE DEF k
  <2> QED
    BY <1>1, <1>3, <2>1, PopKeeps
<1> QED
  BY <1>1, <1>2, <1>3, <1>4 DEF Inv, Typed

LEMMA POPKeeps == ASSUME Inv, NEW a \in Ram, POP(a) PROVE Inv'
<1>1. /\ items # <<>> /\ Top.part = "data"
      /\ a \notin Live \ {sp}
      /\ int_ram' = [int_ram EXCEPT ![a] = int_ram[sp]]
      /\ sp' = sp - 1 /\ base' = base /\ pc' \in Code
      /\ items' = SubSeq(items, 1, Len(items) - 1)
  BY DEF POP, Advance
<1>2. /\ Len(items) \in Nat /\ 1 <= Len(items)
      /\ sp = base + Len(items) /\ base \in Int
      /\ int_ram \in [Ram -> Byte]
  BY <1>1 DEF Inv, Typed, StackHolds, Byte
<1>3. sp \in Ram
  <2>1. Len(items) \in 1 .. Len(items)
    BY <1>2
  <2> QED
    BY <1>2, <2>1 DEF Inv, StackHolds
<1>4. int_ram' \in [Ram -> Byte]
  BY <1>1, <1>2, <1>3
<1>5. \A x \in base + 1 .. sp - 1 : x \in Ram => int_ram'[x] = int_ram[x]
  <2>1. \A x \in base + 1 .. sp - 1 : x \in Live \ {sp}
    BY <1>2 DEF Live
  <2> QED
    BY <1>1, <1>2, <2>1
<1>6. /\ sp' \in Int /\ base' \in Byte /\ items' \in Seq(Item)
      /\ StackHolds'
  <2> DEFINE k == 1
  <2>1. /\ k \in 1 .. 2 /\ k <= Len(items)
        /\ sp' = sp - k /\ items' = SubSeq(items, 1, Len(items) - k)
        /\ k = 1 => Top.part = "data"
        /\ k = 2 => Top.part = "high"
        /\ \A x \in base + 1 .. sp - k : x \in Ram => int_ram'[x] = int_ram[x]
    BY <1>1, <1>2, <1>5
  <2> HIDE DEF k
  <2> QED
    BY <1>1, <1>4, <2>1, PopKeeps
<1> QED
  BY <1>1, <1>4, <1>6 DEF Inv, Typed

LEMMA LoadSpKeeps == ASSUME Inv, NEW v \in Bases, LoadSp(v) PROVE Inv'
<1>1. /\ items = <<>> /\ items' = <<>> /\ sp' = v /\ base' = v
      /\ int_ram' = int_ram /\ pc' \in Code /\ v \in Byte
  BY RamAssumption DEF LoadSp, Advance
<1>2. Len(items') = 0 /\ 1 .. Len(items') = {} /\ items' \in Seq(Item)
  BY <1>1
<1>3. StackHolds'
  BY <1>1, <1>2 DEF StackHolds, Paired, Byte
<1> QED
  BY <1>1, <1>2, <1>3 DEF Inv, Typed, Byte

LEMMA StoreKeeps == ASSUME Inv, NEW a \in Ram, NEW d \in Stored, Store(a, d) PROVE Inv'
<1>1. /\ a \notin Live /\ int_ram' = [int_ram EXCEPT ![a] = d]
      /\ sp' = sp /\ base' = base /\ items' = items /\ pc' \in Code /\ d \in Byte
  BY RamAssumption DEF Store, Advance
<1>2. /\ items \in Seq(Item) /\ Len(items) \in Nat
      /\ sp = base + Len(items) /\ base \in Int
      /\ int_ram \in [Ram -> Byte]
  <2>1. items \in Seq(Item) /\ base \in Byte /\ int_ram \in [Ram -> Byte]
    BY DEF Inv, Typed
  <2>2. sp = base + Len(items)
    BY DEF Inv, StackHolds
  <2>3. Len(items) \in Nat /\ base \in Int
    BY <2>1 DEF Byte
  <2> QED
    BY <2>1, <2>2, <2>3
<1>3. int_ram' \in [Ram -> Byte]
  BY <1>1, <1>2
<1>4. ASSUME NEW i \in 1 .. Len(items)
      PROVE  base + i \in Ram /\ int_ram'[base + i] = ByteOf(items[i])
  <2>1. base + i \in Ram /\ int_ram[base + i] = ByteOf(items[i])
    BY DEF Inv, StackHolds
  <2>2. base + i \in Live
    BY <1>2 DEF Live
  <2> QED
    BY <1>1, <1>2, <2>1, <2>2
<1>5. StackHolds'
  BY <1>1, <1>4 DEF Inv, StackHolds, Paired
<1> QED
  BY <1>1, <1>3, <1>5 DEF Inv, Typed

(* A call or an interrupt pushes an address of the program and goes on in it. *)
LEMMA EntryKeeps == ASSUME Inv, NEW a \in Code, PushAddress(a), pc' \in Code PROVE Inv'
BY PushAddressKeeps DEF Inv, Typed

LEMMA NextInv == Inv /\ [Next]_vars => Inv'
<1> SUFFICES ASSUME Inv, [Next]_vars PROVE Inv'
  OBVIOUS
<1>1. ASSUME NEW t \in Code, ACALL(t) PROVE Inv'
  BY <1>1, EntryKeeps DEF ACALL
<1>2. ASSUME NEW t \in Code, LCALL(t) PROVE Inv'
  BY <1>2, EntryKeeps DEF LCALL
<1>3. ASSUME NEW v \in Vectors, Interrupt(v) PROVE Inv'
  <2>1. v \in Code /\ pc \in Code
    BY CodeAssumption DEF Inv, Typed
  <2> QED
    BY <1>3, <2>1, EntryKeeps DEF Interrupt
<1>4. ASSUME Return PROVE Inv'
  BY <1>4, ReturnKeeps
<1>5. ASSUME NEW a \in Ram, PUSH(a) PROVE Inv'
  BY <1>5, PushKeeps DEF Inv
<1>6. ASSUME NEW a \in Ram, POP(a) PROVE Inv'
  BY <1>6, POPKeeps
<1>7. ASSUME NEW a \in Ram, NEW d \in Stored, Store(a, d) PROVE Inv'
  BY <1>7, StoreKeeps
<1>8. ASSUME NEW v \in Bases, LoadSp(v) PROVE Inv'
  BY <1>8, LoadSpKeeps
<1>f. ASSUME NEW t, Flow(t) PROVE Inv'
  BY <1>f DEF Flow, Inv, Typed, StackHolds, Paired
<1>9. CASE \/ \E t \in Code : LJMP(t) \/ AJMP(t)
           \/ \E size \in 1 .. 3 : Sequential(size)
           \/ \E size \in 2 .. 3, rel \in Offsets : Branch(size, rel)
  BY <1>f, <1>9 DEF LJMP, AJMP, Sequential, Branch
<1>10. CASE UNCHANGED vars
  BY <1>10 DEF vars, Inv, Typed, StackHolds, Paired
<1> QED
  BY <1>1, <1>2, <1>3, <1>4, <1>5, <1>6, <1>7, <1>8, <1>9, <1>10 DEF Next
-----------------------------------------------------------------------------
(* The types and the shape of the stack hold in every reachable state. *)
THEOREM Invariance == Spec => []Inv
BY InitInv, NextInv, PTL DEF Spec

(* Bytes stay bytes, SP among them as the stack lies in the RAM, and the   *)
(* program counter stays in the program, for the address of a return is    *)
(* one that was pushed.                                                    *)
THEOREM TypeCorrect == Spec => []TypeOK
<1>1. ASSUME Inv PROVE TypeOK
  <2> DEFINE n == Len(items)
  <2>1. n \in Nat /\ sp = base + n /\ base \in Byte
    BY <1>1 DEF Inv, Typed, StackHolds
  <2>2. ASSUME n > 0 PROVE base + n \in Byte
    <3>1. n \in 1 .. n
      BY <2>1, <2>2
    <3>2. base + n \in Ram
      BY <1>1, <3>1 DEF Inv, StackHolds
    <3> QED
      BY <3>2, RamAssumption
  <2> HIDE DEF n
  <2>3. sp \in Byte
    BY <2>1, <2>2 DEF Byte
  <2> QED
    BY <1>1, <2>3 DEF Inv, Typed, TypeOK
<1> QED
  BY <1>1, Invariance, PTL

(* The RAM up to SP holds what was pushed and not popped, whatever calls,  *)
(* interrupts, PUSHes and stores the program mixes.                        *)
THEOREM Holds == Spec => []StackHolds
<1>1. Inv => StackHolds
  BY DEF Inv
<1> QED
  BY <1>1, Invariance, PTL

(* RET and RETI go back to the instruction their call or interrupt was     *)
(* entered before, and POP gives the byte its PUSH took.                   *)
THEOREM Returns == Spec => ReturnsToCaller
<1>1. ASSUME Inv, Return PROVE pc' = Top.of
  <2>1. items # <<>> /\ Top.part = "high" /\ pc' = PoppedAddress
    BY <1>1 DEF Return
  <2> QED
    BY <1>1, <2>1, PopsItsAddress
<1>2. ASSUME Inv, NEW a \in Ram, POP(a) PROVE int_ram'[a] = Top.of
  <2>1. /\ items # <<>> /\ Top.part = "data"
        /\ int_ram' = [int_ram EXCEPT ![a] = int_ram[sp]]
    BY <1>2 DEF POP
  <2>2. /\ Len(items) \in 1 .. Len(items) /\ sp = base + Len(items)
        /\ int_ram \in [Ram -> Byte]
    BY <1>2, <2>1 DEF Inv, Typed, StackHolds
  <2>3. int_ram[sp] = ByteOf(Top)
    BY <1>2, <2>2 DEF Inv, StackHolds, Top
  <2>4. ByteOf(Top) = Top.of
    BY <2>1 DEF ByteOf
  <2> QED
    BY <2>1, <2>2, <2>3, <2>4
<1>3. Inv /\ [Next]_vars =>
        [/\ Return => pc' = Top.of
         /\ \A a \in Ram : POP(a) => int_ram'[a] = Top.of]_vars
  BY <1>1, <1>2
<1> QED
  BY <1>3, Invariance, PTL DEF Spec, ReturnsToCaller

(* A branch reaches just the addresses a signed byte can name, each by the *)
(* byte that is its two's complement.                                      *)
THEOREM Reaches == Spec => BranchesReach
<1>1. ASSUME Inv, NEW size \in 2 .. 3, NEW rel \in Offsets, Branch(size, rel)
      PROVE  pc' - (pc + size) \in -128 .. 127 /\ rel = (pc' - (pc + size)) % 256
  <2>1. pc \in Int /\ rel \in Byte
    <3>1. pc \in Code
      BY <1>1 DEF Inv, Typed
    <3>2. Code \subseteq Word /\ Offsets \subseteq Byte
      BY CodeAssumption
    <3>3. \A a \in Word : a \in Int
      BY DEF Word
    <3> QED
      BY <3>1, <3>2, <3>3
  <2>2. Displacement(rel) \in -128 .. 127 /\ rel = Displacement(rel) % 256
    BY <2>1 DEF Displacement, Byte
  <2>3. pc' = pc + size + Displacement(rel)
    BY <1>1 DEF Branch, Flow
  <2>4. pc' - (pc + size) = Displacement(rel)
    BY <2>1, <2>2, <2>3
  <2> QED
    BY <2>2, <2>4
<1>2. Inv /\ [Next]_vars =>
        [\A size \in 2 .. 3, rel \in Offsets :
           Branch(size, rel) => LET d == pc' - (pc + size)
                                IN d \in -128 .. 127 /\ rel = d % 256]_vars
  BY <1>1
<1> QED
  BY <1>2, Invariance, PTL DEF Spec, BranchesReach
-----------------------------------------------------------------------------
(* The frames that items from address b + 1 on stand for. *)
ItemFrame(item, at) == [at |-> at,
                        kind |-> IF item.part = "high" THEN "address" ELSE "data",
                        value |-> item.of]
FramesOf(q, b) == {ItemFrame(q[i], b + i) : i \in {k \in 1 .. Len(q) : q[k].part # "low"}}

(* Read from RAM, the frames are those the items stand for. *)
LEMMA FramesRead == Inv => Frames = FramesOf(items, base)
<1> SUFFICES ASSUME Inv PROVE Frames = FramesOf(items, base)
  OBVIOUS
<1>1. items \in Seq(Item) /\ Len(items) \in Nat /\ base \in Int
  BY DEF Inv, Typed, Byte
<1>2. ASSUME NEW i \in 1 .. Len(items), items[i].part # "low"
      PROVE  Frame(i) = ItemFrame(items[i], base + i)
  <2>1. int_ram[base + i] = ByteOf(items[i])
    BY DEF Inv, StackHolds
  <2>2. items[i] \in Item
    BY <1>1
  <2>3. CASE items[i].part = "high"
    <3>1. i > 1 /\ items[i - 1] = [part |-> "low", of |-> items[i].of]
      BY <2>3 DEF Inv, StackHolds, Paired
    <3>2. i - 1 \in 1 .. Len(items) /\ base + (i - 1) = base + i - 1
      BY <1>1, <3>1
    <3>3. int_ram[base + i - 1] = ByteOf(items[i - 1])
      BY <3>2 DEF Inv, StackHolds
    <3>4. items[i].of \in Word
      BY <2>2, <2>3, CodeIsWord DEF Item
    <3>5. ByteOf(items[i]) = items[i].of \div 256 /\ ByteOf(items[i - 1]) = items[i].of % 256
      BY <2>3, <3>1 DEF ByteOf
    <3>6. int_ram[base + i] * 256 + int_ram[base + i - 1] = items[i].of
      BY <2>1, <3>3, <3>4, <3>5, SplitAddress
    <3> QED
      BY <2>3, <3>6 DEF Frame, ItemFrame
  <2>4. CASE items[i].part = "data"
    <3>1. ByteOf(items[i]) = items[i].of
      BY <2>4 DEF ByteOf
    <3> QED
      BY <2>1, <2>4, <3>1 DEF Frame, ItemFrame
  <2> QED
    BY <1>2, <2>2, <2>3, <2>4 DEF Item
<1> QED
  BY <1>2 DEF Frames, FramesOf

LEMMA FramesReadNext == (Inv => Frames = FramesOf(items, base))'
BY FramesRead, PTL

(* The items r are q and one frame more: a byte of data, or the two bytes  *)
(* of an address.                                                          *)
OneMore(q, r) ==
  /\ q \in Seq(Item) /\ r \in Seq(Item)
  /\ \A i \in 1 .. Len(q) : r[i] = q[i]
  /\ r[Len(r)].part # "low"
  /\ \/ Len(r) = Len(q) + 1
     \/ Len(r) = Len(q) + 2 /\ r[Len(q) + 1].part = "low"

LastFrame(r, b) == ItemFrame(r[Len(r)], b + Len(r))

LEMMA OneFrame ==
  ASSUME NEW b \in Int, NEW q, NEW r, OneMore(q, r)
  PROVE  /\ FramesOf(r, b) = FramesOf(q, b) \cup {LastFrame(r, b)}
         /\ FramesOf(r, b) \ {LastFrame(r, b)} = FramesOf(q, b)
         /\ \A g \in FramesOf(q, b) : g.at < LastFrame(r, b).at
         /\ \A g \in FramesOf(r, b) : g.at <= LastFrame(r, b).at
<1> USE DEF OneMore
<1> DEFINE n == Len(q)
           f == LastFrame(r, b)
<1>1. n \in Nat /\ Len(r) \in Nat /\ Len(r) \in 1 .. Len(r)
  OBVIOUS
<1>2. f \in FramesOf(r, b)
  BY <1>1 DEF FramesOf, LastFrame
<1>3. ASSUME NEW g \in FramesOf(q, b) PROVE g \in FramesOf(r, b) /\ g.at < f.at
  <2>1. PICK i \in 1 .. n : q[i].part # "low" /\ g = ItemFrame(q[i], b + i)
    BY DEF FramesOf
  <2>2. i \in 1 .. Len(r) /\ r[i] = q[i] /\ b + i < b + Len(r)
    BY <1>1, <2>1
  <2>3. g \in FramesOf(r, b)
    BY <2>1, <2>2 DEF FramesOf
  <2> QED
    BY <2>1, <2>2, <2>3 DEF ItemFrame, LastFrame
<1>4. ASSUME NEW g \in FramesOf(r, b) PROVE g = f \/ g \in FramesOf(q, b)
  <2>1. PICK i \in 1 .. Len(r) : r[i].part # "low" /\ g = ItemFrame(r[i], b + i)
    BY DEF FramesOf
  <2>2. CASE i \in 1 .. n
    BY <2>1, <2>2 DEF FramesOf
  <2>3. CASE i = Len(r)
    BY <2>1, <2>3 DEF LastFrame
  <2>4. (i = n + 1 /\ r[i].part = "low") \/ i \in 1 .. n \/ i = Len(r)
    BY <1>1
  <2> QED
    BY <2>1, <2>2, <2>3, <2>4
<1>5. f \notin FramesOf(q, b)
  <2>1. f.at \in Int
    BY <1>1 DEF ItemFrame, LastFrame
  <2> QED
    BY <1>3, <2>1
<1>6. \A g \in FramesOf(r, b) : g.at <= f.at
  <2>1. f.at \in Int /\ \A g \in FramesOf(q, b) : g.at \in Int
    BY <1>1 DEF ItemFrame, FramesOf, LastFrame
  <2> QED
    BY <1>3, <1>4, <2>1
<1> QED
  BY <1>2, <1>3, <1>4, <1>5, <1>6

(* What pushing does to the frames. *)
LEMMA FramePlaced ==
  ASSUME Inv, Inv', base' = base, OneMore(items, items')
  PROVE  LET f == LastFrame(items', base)
         IN f \in Frames' /\ Abstract!Placed(f)
<1> DEFINE f == LastFrame(items', base)
<1>1. Frames = FramesOf(items, base)
  BY FramesRead
<1>2. Frames' = FramesOf(items', base)
  BY FramesReadNext
<1>3. base \in Int
  BY DEF Inv, Typed, Byte
<1>4. /\ Frames' = Frames \cup {f}
      /\ \A g \in Frames : g.at < f.at
  BY <1>1, <1>2, <1>3, OneFrame
<1>5. f.at \in Ram
  <2>1. items' \in Seq(Item) /\ Len(items') \in 1 .. Len(items')
    BY DEF OneMore
  <2>2. base' + Len(items') \in Ram
    BY <2>1 DEF Inv, StackHolds
  <2> QED
    BY <2>2 DEF ItemFrame, LastFrame
<1> QED
  BY <1>4, <1>5 DEF Abstract!Placed

(* What popping does to the frames. *)
LEMMA FrameTaken ==
  ASSUME Inv, Inv', base' = base, OneMore(items', items)
  PROVE  LET f == LastFrame(items, base)
         IN f \in Frames /\ Abstract!Last(f) /\ Frames' = Frames \ {f}
<1>1. Frames = FramesOf(items, base)
  BY FramesRead
<1>2. Frames' = FramesOf(items', base)
  BY FramesReadNext
<1>3. base \in Int
  BY DEF Inv, Typed, Byte
<1> QED
  BY <1>1, <1>2, <1>3, OneFrame DEF Abstract!Last

(* A call or an interrupt places the address it pushes. *)
LEMMA AddressPlaced ==
  ASSUME Inv, Inv', NEW a \in Code, PushAddress(a)
  PROVE  \E f \in Frames' : f.kind = "address" /\ f.value = a /\ Abstract!Placed(f)
<1> DEFINE n == Len(items)
           lo == [part |-> "low", of |-> a]
           hi == [part |-> "high", of |-> a]
           f == LastFrame(items', base)
<1>1. items \in Seq(Item) /\ n \in Nat /\ lo \in Item /\ hi \in Item
  BY DEF Inv, Typed, Item
<1>2. items' = items \o <<lo, hi>> /\ base' = base
  BY DEF PushAddress
<1>3. lo.part = "low" /\ hi.part = "high" /\ hi.of = a
  OBVIOUS
<1> HIDE DEF lo, hi
<1>4. /\ Len(items') = n + 2
      /\ \A i \in 1 .. n : items'[i] = items[i]
      /\ items'[n + 1] = lo /\ items'[n + 2] = hi
  <2>1. <<lo, hi>> \in Seq(Item) /\ Len(<<lo, hi>>) = 2
        /\ <<lo, hi>>[1] = lo /\ <<lo, hi>>[2] = hi
    BY <1>1
  <2>2. /\ Len(items') = n + 2
        /\ \A i \in 1 .. n + 2 :
             items'[i] = IF i <= n THEN items[i] ELSE <<lo, hi>>[i - n]
    BY <1>1, <1>2, <2>1, ConcatProperties
  <2>3. n + 1 - n = 1 /\ n + 2 - n = 2 /\ n + 1 \in 1 .. n + 2 /\ n + 2 \in 1 .. n + 2
        /\ ~(n + 1 <= n) /\ ~(n + 2 <= n)
    BY <1>1
  <2>4. \A i \in 1 .. n : i \in 1 .. n + 2 /\ i <= n
    BY <1>1
  <2> QED
    BY <2>1, <2>2, <2>3, <2>4
<1>5. OneMore(items, items')
  BY <1>1, <1>3, <1>4 DEF OneMore, Inv, Typed
<1>6. f \in Frames' /\ Abstract!Placed(f)
  BY <1>2, <1>5, FramePlaced
<1>7. f.kind = "address" /\ f.value = a
  BY <1>3, <1>4 DEF ItemFrame, LastFrame
<1> QED
  BY <1>6, <1>7

LEMMA CallStep ==
  ASSUME Inv, Inv', NEW t \in Code, ACALL(t) \/ LCALL(t)
  PROVE  Abstract!Call
<1>1. PICK a \in {pc + 2, pc + 3} : a \in Code /\ PushAddress(a) /\ pc' = t
  BY DEF ACALL, LCALL
<1>2. \E f \in Frames' : f.kind = "address" /\ f.value = a /\ Abstract!Placed(f)
  BY <1>1, AddressPlaced
<1> QED
  BY <1>1, <1>2 DEF Abstract!Call

LEMMA InterruptStep ==
  ASSUME Inv, Inv', NEW v \in Vectors, Interrupt(v)
  PROVE  Abstract!Interrupt
<1>1. pc \in Code /\ PushAddress(pc) /\ pc' = v
  BY DEF Interrupt, Inv, Typed
<1>2. \E f \in Frames' : f.kind = "address" /\ f.value = pc /\ Abstract!Placed(f)
  BY <1>1, AddressPlaced
<1> QED
  BY <1>1, <1>2 DEF Abstract!Interrupt

LEMMA ReturnStep == ASSUME Inv, Inv', Return PROVE Abstract!Return
<1> DEFINE f == LastFrame(items, base)
<1>1. /\ items # <<>> /\ Top.part = "high" /\ pc' = PoppedAddress
      /\ base' = base /\ items' = SubSeq(items, 1, Len(items) - 2)
  BY DEF Return
<1>2. Len(items) \in Nat /\ 2 <= Len(items) /\ PoppedAddress = Top.of
  BY <1>1, PopsItsAddress
<1>3. items[Len(items) - 1].part = "low"
  <2>1. Len(items) \in 1 .. Len(items)
    BY <1>2
  <2>2. items[Len(items) - 1] = [part |-> "low", of |-> Top.of]
    BY <1>1, <2>1 DEF Inv, StackHolds, Paired, Top
  <2> QED
    BY <2>2
<1>4. OneMore(items', items)
  <2>1. items \in Seq(Item) /\ items' \in Seq(Item)
    BY DEF Inv, Typed
  <2>2. /\ Len(items') = Len(items) - 2
        /\ \A i \in 1 .. Len(items) - 2 : items'[i] = items[i]
    <3> DEFINE k == 2
    <3>1. k \in 1 .. 2 /\ k <= Len(items) /\ items' = SubSeq(items, 1, Len(items) - k)
      BY <1>1, <1>2
    <3> HIDE DEF k
    <3>2. /\ Len(items') = Len(items) - k
          /\ \A i \in 1 .. Len(items) - k : items'[i] = items[i]
      BY <2>1, <3>1, Shortened
    <3> QED
      BY <3>2 DEF k
  <2>3. Len(items) = Len(items') + 2 /\ Len(items) - 1 = Len(items') + 1
    BY <1>2, <2>2
  <2> QED
    BY <1>1, <1>3, <2>1, <2>2, <2>3 DEF OneMore, Top
<1>5. f \in Frames /\ Abstract!Last(f) /\ Frames' = Frames \ {f}
  BY <1>1, <1>4, FrameTaken
<1>6. f.kind = "address" /\ f.value = Top.of
  BY <1>1 DEF ItemFrame, LastFrame, Top
<1> QED
  BY <1>1, <1>2, <1>5, <1>6 DEF Abstract!Return

LEMMA SaveStep == ASSUME Inv, Inv', NEW a \in Ram, PUSH(a) PROVE Abstract!Save
<1> DEFINE item == [part |-> "data", of |-> int_ram[a]]
           n == Len(items)
           f == LastFrame(items', base)
<1>1. /\ items \in Seq(Item) /\ n \in Nat /\ int_ram[a] \in Byte
  BY DEF Inv, Typed
<1>2. /\ item \in Item /\ item.part = "data" /\ item.of \in Byte
      /\ items' = Append(items, item) /\ base' = base /\ pc' = pc + 2
  BY <1>1 DEF PUSH, Advance, Item
<1> HIDE DEF item
<1>3. /\ Len(items') = n + 1
      /\ \A i \in 1 .. n : items'[i] = items[i]
      /\ items'[n + 1] = item
  BY <1>1, <1>2, AppendProperties
<1>4. f \in Frames' /\ Abstract!Placed(f)
  <2>1. OneMore(items, items')
    BY <1>1, <1>2, <1>3 DEF OneMore, Inv, Typed
  <2> QED
    BY <1>2, <2>1, FramePlaced
<1>5. f.kind = "data" /\ f.value \in Byte
  BY <1>2, <1>3 DEF ItemFrame, LastFrame
<1>6. Abstract!Byte = Byte
  BY DEF Byte, Abstract!Byte
<1> QED
  BY <1>2, <1>4, <1>5, <1>6 DEF Abstract!Save

LEMMA RestoreStep == ASSUME Inv, Inv', NEW a \in Ram, POP(a) PROVE Abstract!Restore
<1> DEFINE f == LastFrame(items, base)
<1>1. /\ items # <<>> /\ Top.part = "data" /\ pc' = pc + 2
      /\ base' = base /\ items' = SubSeq(items, 1, Len(items) - 1)
  BY DEF POP, Advance
<1>2. /\ items \in Seq(Item) /\ items' \in Seq(Item)
      /\ Len(items) \in Nat /\ 1 <= Len(items)
  BY <1>1 DEF Inv, Typed
<1>3. OneMore(items', items)
  <2>1. /\ Len(items') = Len(items) - 1
        /\ \A i \in 1 .. Len(items) - 1 : items'[i] = items[i]
    BY <1>1, <1>2, Shortened
  <2>2. Len(items) = Len(items') + 1
    BY <1>2, <2>1
  <2> QED
    BY <1>1, <1>2, <2>1, <2>2 DEF OneMore, Top
<1>4. f \in Frames /\ Abstract!Last(f) /\ Frames' = Frames \ {f}
  BY <1>1, <1>3, FrameTaken
<1>5. f.kind = "data"
  BY <1>1 DEF ItemFrame, LastFrame, Top
<1> QED
  BY <1>1, <1>4, <1>5 DEF Abstract!Restore

(* Without pushing or popping the frames stay, even when SP is loaded: the *)
(* stack is empty then.                                                    *)
LEMMA FramesKept ==
  ASSUME Inv, Inv', items' = items, base' = base \/ items = <<>>
  PROVE  Frames' = Frames
<1>1. Frames = FramesOf(items, base)
  BY FramesRead
<1>2. Frames' = FramesOf(items', base')
  BY FramesReadNext
<1>3. CASE base' = base
  BY <1>1, <1>2, <1>3
<1>4. CASE items = <<>>
  <2>1. \A k : k \notin 1 .. Len(items)
    BY <1>4
  <2>2. \A b : FramesOf(items, b) = {}
    BY <2>1 DEF FramesOf
  <2> QED
    BY <1>1, <1>2, <2>2
<1> QED
  BY <1>3, <1>4

LEMMA FramesSimulation == Inv /\ Inv' /\ [Next]_vars => [Abstract!Next]_<<pc, Frames>>
<1> SUFFICES ASSUME Inv, Inv', [Next]_vars
             PROVE  Abstract!Next \/ UNCHANGED <<pc, Frames>>
  OBVIOUS
<1> USE DEF Abstract!Next
<1>1. ASSUME NEW t \in Code, ACALL(t) \/ LCALL(t) PROVE Abstract!Next
  BY <1>1, CallStep
<1>2. ASSUME NEW v \in Vectors, Interrupt(v) PROVE Abstract!Next
  BY <1>2, InterruptStep
<1>3. CASE Return
  BY <1>3, ReturnStep
<1>4. ASSUME NEW a \in Ram, PUSH(a) PROVE Abstract!Next
  BY <1>4, SaveStep
<1>5. ASSUME NEW a \in Ram, POP(a) PROVE Abstract!Next
  BY <1>5, RestoreStep
<1>6. ASSUME items' = items, base' = base \/ items = <<>> PROVE Abstract!Next
  <2>1. pc' \in Code
    BY DEF Inv, Typed
  <2> QED
    BY <1>6, <2>1, FramesKept DEF Abstract!Go
<1>7. ASSUME NEW a \in Ram, NEW d \in Stored, Store(a, d) PROVE Abstract!Next
  BY <1>6, <1>7 DEF Store
<1>8. ASSUME NEW v \in Bases, LoadSp(v) PROVE Abstract!Next
  BY <1>6, <1>8 DEF LoadSp
<1>9. CASE \/ \E t \in Code : LJMP(t) \/ AJMP(t)
           \/ \E size \in 1 .. 3 : Sequential(size)
           \/ \E size \in 2 .. 3, rel \in Offsets : Branch(size, rel)
  BY <1>6, <1>9 DEF LJMP, AJMP, Sequential, Branch, Flow
<1>10. CASE UNCHANGED vars
  BY <1>6, <1>10 DEF vars
<1> QED
  BY <1>1, <1>2, <1>3, <1>4, <1>5, <1>7, <1>8, <1>9, <1>10 DEF Next

(* The bytes in RAM implement a stack of whole addresses and data: each    *)
(* call, interrupt, PUSH, return and POP is one step on the last frame,    *)
(* and nothing else touches any.                                           *)
THEOREM FramesRefinement == Spec => ImplementsFrames
<1>1. ASSUME Init PROVE Abstract!Init
  <2>1. pc = 0 /\ \A k : k \notin 1 .. Len(items)
    BY <1>1 DEF Init
  <2> QED
    BY <2>1 DEF Frames, Abstract!Init
<1> QED
  BY <1>1, FramesSimulation, Invariance, PTL DEF Spec, ImplementsFrames, Abstract!Spec
=============================================================================

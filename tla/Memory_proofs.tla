---------------------------- MODULE Memory_proofs ----------------------------
(***************************************************************************)
(* Proofs about Memory for every layout of the RAM and the SFRs, every     *)
(* peripheral and every byte a program may store.                          *)
(***************************************************************************)
EXTENDS Memory, TLAPS

RamAddr == IntRam
Mem == [ram : [RamAddr -> Byte], sfr : [Standard -> Byte], r : 0 .. 7,
        ext : [External -> Byte], device : Byte, ext_device : Byte]

LEMMA OwnSfrs == /\ ACC \in Standard /\ PSW \in Standard
                 /\ DPL \in Standard /\ DPH \in Standard
BY OwnSfrAssumption

LEMMA StoredIn == \A v \in Stored : v \in Byte
BY LayoutAssumption

LEMMA Layout == /\ Ram \subseteq 0 .. 127 /\ ACC \in Standard /\ PSW \in Standard
                /\ DPL \in Standard /\ DPH \in Standard
                /\ ACC = 224 /\ PSW = 208 /\ DPL = 130 /\ DPH = 131 /\ SFR_START = 128
                /\ Standard \cup Extra \subseteq 128 .. 255 /\ Standard \cap Extra = {}
                /\ Devices \subseteq Standard \cup Extra
                /\ Registers \subseteq 0 .. 7
BY OwnSfrs, LayoutAssumption DEF ACC, PSW, DPL, DPH, SFR_START

LEMMA WindowType == ASSUME NEW psw \in Byte PROVE Window(psw) \in 0 .. 7
<1> DEFINE S == psw \cap BankMask
<1>1. S \in Byte /\ 3 \notin S /\ 4 \notin S /\ 5 \notin S /\ 6 \notin S /\ 7 \notin S
  BY DEF Byte, BankMask, Bit
<1> QED
  BY <1>1 DEF Window, Number

LEMMA BitKept == ASSUME NEW byte \in Byte, NEW i \in Bit, NEW on \in BOOLEAN
                 PROVE  WithBit(byte, i, on) \in Byte
BY DEF WithBit, Byte

LEMMA MemFields == ASSUME NEW m \in Mem
                   PROVE  /\ m.ram \in [RamAddr -> Byte] /\ m.sfr \in [Standard -> Byte]
                          /\ m.r \in 0 .. 7 /\ m.ext \in [External -> Byte]
                          /\ m.device \in Byte /\ m.ext_device \in Byte
BY DEF Mem

(* Storing one byte: the memories stay what they are, ... *)
LEMMA PutRamIn == ASSUME NEW m \in Mem, NEW a \in RamAddr, NEW v \in Byte
                  PROVE  PutRam(m, a, v) \in Mem
BY DEF PutRam, Mem

LEMMA PutSfrIn == ASSUME NEW m \in Mem, NEW a \in Standard, NEW v \in Byte
                  PROVE  PutSfr(m, a, v) \in Mem
BY DEF PutSfr, Mem

LEMMA PutExtIn == ASSUME NEW m \in Mem, NEW a \in External, NEW v \in Byte
                  PROVE  PutExt(m, a, v) \in Mem
BY DEF PutExt, Mem

LEMMA ParityIn == ASSUME NEW m \in Mem, NEW v \in Byte
                  PROVE  WithBit(m.sfr[PSW], PSW_P, odd_parity8(v)) \in Byte
<1>1. odd_parity8(v) \in BOOLEAN /\ PSW_P \in Bit /\ m.sfr[PSW] \in Byte
  BY Layout, MemFields DEF odd_parity8, PSW_P, Bit
<1> QED
  BY <1>1, BitKept

LEMMA WriteAccIn == ASSUME NEW m \in Mem, NEW v \in Byte PROVE WriteAcc(m, v) \in Mem
BY Layout, ParityIn, PutSfrIn DEF WriteAcc

LEMMA SetPswIn == ASSUME NEW m \in Mem, NEW v \in Byte
                  PROVE  [PutSfr(m, PSW, v) EXCEPT !.r = Window(v)] \in Mem
<1> DEFINE n == PutSfr(m, PSW, v)
<1>1. n \in Mem /\ Window(v) \in 0 .. 7
  BY Layout, PutSfrIn, WindowType
<1> HIDE DEF n
<1>2. [n EXCEPT !.r = Window(v)] \in Mem
  BY <1>1 DEF Mem
<1> QED
  BY <1>2 DEF n

(* What set_sfr() comes to, case by case. *)
LEMMA SetDevice == ASSUME NEW m, NEW a, NEW v, Handled(a)
                   PROVE  set_sfr(m, a, v) = [m EXCEPT !.device = v]
BY DEF set_sfr

LEMMA SetPsw == ASSUME NEW m, NEW v, ~Handled(PSW)
                PROVE  set_sfr(m, PSW, v) = [PutSfr(m, PSW, v) EXCEPT !.r = Window(v)]
BY Layout DEF set_sfr, set_internal

LEMMA SetAcc == ASSUME NEW m, NEW v, ~Handled(ACC)
                PROVE  set_sfr(m, ACC, v) = WriteAcc(m, v)
BY Layout DEF set_sfr, set_internal

LEMMA SetStandard == ASSUME NEW m, NEW a \in Standard \ {PSW, ACC}, NEW v, ~Handled(a)
                     PROVE  set_sfr(m, a, v) = PutSfr(m, a, v)
BY Layout DEF set_sfr, set_internal

LEMMA SetExtra == ASSUME NEW m, NEW a \in Extra, NEW v, ~Handled(a)
                  PROVE  set_sfr(m, a, v) = PutRam(m, a, v)
BY Layout DEF set_sfr, set_internal

LEMMA SetSfrIn == ASSUME NEW m \in Mem, NEW a \in Standard \cup Extra, NEW v \in Byte
                  PROVE  set_sfr(m, a, v) \in Mem
<1>1. CASE Handled(a)
  <2>1. set_sfr(m, a, v) = [m EXCEPT !.device = v]
    BY <1>1, SetDevice
  <2> QED
    BY <2>1 DEF Mem
<1>2. CASE ~Handled(a) /\ a = PSW
  BY <1>2, SetPsw, SetPswIn
<1>3. CASE ~Handled(a) /\ a = ACC
  BY <1>3, SetAcc, WriteAccIn
<1>4. CASE ~Handled(a) /\ a \in Standard \ {PSW, ACC}
  BY <1>4, SetStandard, PutSfrIn
<1>5. CASE ~Handled(a) /\ a \in Extra
  BY <1>5, SetExtra, PutRamIn DEF RamAddr, IntRam
<1> QED
  BY <1>1, <1>2, <1>3, <1>4, <1>5
-----------------------------------------------------------------------------
(* The cells a memory consists of. *)
LEMMA CellKinds == ASSUME NEW x \in Cell
                   PROVE  \/ \E a \in RamAddr : x = <<"ram", a>>
                          \/ \E a \in Standard : x = <<"sfr", a>>
                          \/ \E a \in External : x = <<"ext", a>>
                          \/ x = <<"device", 0>> \/ x = <<"device", 1>>
BY DEF Cell, Outside, RamAddr, IntRam

LEMMA CellsOf == /\ \A a \in RamAddr : <<"ram", a>> \in Cell
                 /\ \A a \in Standard : <<"sfr", a>> \in Cell
                 /\ \A a \in External : <<"ext", a>> \in Cell
                 /\ <<"device", 0>> \in Cell /\ <<"device", 1>> \in Cell
                 /\ Acc \in Cell /\ <<"sfr", PSW>> \in Cell /\ Acc # <<"sfr", PSW>>
BY Layout DEF Cell, Outside, RamAddr, Acc

LEMMA ContentsRam == ASSUME NEW m, NEW a \in RamAddr
                     PROVE  Contents(m)[<<"ram", a>>] = m.ram[a]
BY CellsOf DEF Contents

LEMMA ContentsSfr == ASSUME NEW m, NEW a \in Standard
                     PROVE  Contents(m)[<<"sfr", a>>] = m.sfr[a]
BY CellsOf DEF Contents

LEMMA ContentsAcc == ASSUME NEW m PROVE m.sfr[ACC] = Contents(m)[Acc]
<1>1. Contents(m)[<<"sfr", ACC>>] = m.sfr[ACC]
  BY ContentsSfr, OwnSfrs
<1> QED
  BY <1>1 DEF Acc

LEMMA ContentsExt == ASSUME NEW m, NEW a \in External
                     PROVE  Contents(m)[<<"ext", a>>] = m.ext[a]
BY CellsOf DEF Contents

LEMMA ContentsDevice == ASSUME NEW m
                        PROVE  /\ Contents(m)[<<"device", 0>>] = m.device
                               /\ Contents(m)[<<"device", 1>>] = m.ext_device
BY CellsOf DEF Contents

LEMMA ContentsIn == ASSUME NEW m \in Mem PROVE Contents(m) \in [Cell -> Byte]
<1>1. ASSUME NEW x \in Cell PROVE Contents(m)[x] \in Byte
  <2>1. CASE \E a \in RamAddr : x = <<"ram", a>>
    <3>1. PICK a \in RamAddr : x = <<"ram", a>>
      BY <2>1
    <3> QED
      BY <3>1, ContentsRam, MemFields
  <2>2. CASE \E a \in Standard : x = <<"sfr", a>>
    <3>1. PICK a \in Standard : x = <<"sfr", a>>
      BY <2>2
    <3> QED
      BY <3>1, ContentsSfr, MemFields
  <2>3. CASE \E a \in External : x = <<"ext", a>>
    <3>1. PICK a \in External : x = <<"ext", a>>
      BY <2>3
    <3> QED
      BY <3>1, ContentsExt, MemFields
  <2>4. CASE x = <<"device", 0>> \/ x = <<"device", 1>>
    BY <2>4, ContentsDevice, MemFields
  <2> QED
    BY <1>1, <2>1, <2>2, <2>3, <2>4, CellKinds
<1> QED
  BY <1>1 DEF Contents

(* Two memories with the same bytes in all cells have the same contents. *)
LEMMA SameContents ==
  ASSUME NEW m \in Mem, NEW f \in [Cell -> Byte],
         \A a \in RamAddr : m.ram[a] = f[<<"ram", a>>],
         \A a \in Standard : m.sfr[a] = f[<<"sfr", a>>],
         \A a \in External : m.ext[a] = f[<<"ext", a>>],
         m.device = f[<<"device", 0>>], m.ext_device = f[<<"device", 1>>]
  PROVE  Contents(m) = f
<1>1. ASSUME NEW x \in Cell PROVE Contents(m)[x] = f[x]
  <2>1. CASE \E a \in RamAddr : x = <<"ram", a>>
    BY <2>1, ContentsRam
  <2>2. CASE \E a \in Standard : x = <<"sfr", a>>
    BY <2>2, ContentsSfr
  <2>3. CASE \E a \in External : x = <<"ext", a>>
    BY <2>3, ContentsExt
  <2>4. CASE x = <<"device", 0>> \/ x = <<"device", 1>>
    BY <2>4, ContentsDevice
  <2> QED
    BY <1>1, <2>1, <2>2, <2>3, <2>4, CellKinds
<1>2. Contents(m) \in [Cell -> Byte]
  BY ContentsIn
<1> QED
  BY <1>1, <1>2
-----------------------------------------------------------------------------
(* Storing one byte changes one cell, ... *)
LEMMA PutIn == ASSUME NEW c \in [Cell -> Byte], NEW x \in Cell, NEW v \in Byte
               PROVE  /\ Abstract!Put(c, x, v) \in [Cell -> Byte]
                      /\ Abstract!Put(c, x, v)[x] = v
<1>1. CASE x = Acc
  <2>1. Abstract!WithParityOf(c[<<"sfr", PSW>>], v) \in Byte
    BY CellsOf DEF Abstract!WithParityOf, Abstract!WithBit, Abstract!PSW_P, Byte, Bit
  <2> QED
    BY <1>1, <2>1, CellsOf DEF Abstract!Put
<1>2. CASE x # Acc
  BY <1>2 DEF Abstract!Put
<1> QED
  BY <1>1, <1>2

LEMMA EffectRam ==
  ASSUME NEW m \in Mem, NEW a \in RamAddr, NEW v \in Byte
  PROVE  Contents(PutRam(m, a, v)) = Abstract!Put(Contents(m), <<"ram", a>>, v)
<1> DEFINE n == PutRam(m, a, v)
           x == <<"ram", a>>
           f == [Contents(m) EXCEPT ![x] = v]
<1>0. n \in Mem
  BY PutRamIn
<1>1. n.ram = [m.ram EXCEPT ![a] = v] /\ n.sfr = m.sfr /\ n.ext = m.ext
      /\ n.device = m.device /\ n.ext_device = m.ext_device
  BY DEF PutRam, Mem
<1>2. x \in Cell /\ x # Acc /\ f \in [Cell -> Byte]
  BY CellsOf, ContentsIn DEF Acc
<1>3. \A y \in Cell : f[y] = IF y = x THEN v ELSE Contents(m)[y]
  BY <1>2, ContentsIn
<1>4. \A b \in RamAddr : n.ram[b] = f[<<"ram", b>>]
  <2>1. TAKE b \in RamAddr
  <2>2. f[<<"ram", b>>] = IF b = a THEN v ELSE Contents(m)[<<"ram", b>>]
    BY <1>3, CellsOf
  <2> QED
    BY <1>1, <2>2, ContentsRam, MemFields
<1>5. \A b \in Standard : n.sfr[b] = f[<<"sfr", b>>]
  <2>1. TAKE b \in Standard
  <2>2. f[<<"sfr", b>>] = Contents(m)[<<"sfr", b>>]
    BY <1>3, CellsOf
  <2> QED
    BY <1>1, <2>2, ContentsSfr
<1>6. \A b \in External : n.ext[b] = f[<<"ext", b>>]
  <2>1. TAKE b \in External
  <2>2. f[<<"ext", b>>] = Contents(m)[<<"ext", b>>]
    BY <1>3, CellsOf
  <2> QED
    BY <1>1, <2>2, ContentsExt
<1>7. n.device = f[<<"device", 0>>] /\ n.ext_device = f[<<"device", 1>>]
  BY <1>1, <1>3, CellsOf, ContentsDevice
<1> HIDE DEF n, f
<1>8. Contents(n) = f
  BY <1>0, <1>2, <1>4, <1>5, <1>6, <1>7, SameContents
<1> QED
  BY <1>2, <1>8 DEF n, f, Abstract!Put

(* ... so does storing one in the external memory, ... *)
LEMMA EffectExt ==
  ASSUME NEW m \in Mem, NEW a \in External, NEW v \in Byte
  PROVE  Contents([m EXCEPT !.ext = [m.ext EXCEPT ![a] = v]])
           = [Contents(m) EXCEPT ![<<"ext", a>>] = v]
<1> DEFINE n == [m EXCEPT !.ext = [m.ext EXCEPT ![a] = v]]
           x == <<"ext", a>>
           f == [Contents(m) EXCEPT ![x] = v]
<1>1. n \in Mem /\ n.ram = m.ram /\ n.sfr = m.sfr /\ n.ext = [m.ext EXCEPT ![a] = v]
      /\ n.device = m.device /\ n.ext_device = m.ext_device
  BY DEF Mem
<1>2. x \in Cell /\ f \in [Cell -> Byte]
  BY CellsOf, ContentsIn
<1>3. \A y \in Cell : f[y] = IF y = x THEN v ELSE Contents(m)[y]
  BY <1>2, ContentsIn
<1> HIDE DEF n
<1>4. \A b \in RamAddr : n.ram[b] = f[<<"ram", b>>]
  <2>1. TAKE b \in RamAddr
  <2>2. f[<<"ram", b>>] = Contents(m)[<<"ram", b>>]
    BY <1>3, CellsOf
  <2> QED
    BY <1>1, <2>2, ContentsRam
<1>5. \A b \in Standard : n.sfr[b] = f[<<"sfr", b>>]
  <2>1. TAKE b \in Standard
  <2>2. f[<<"sfr", b>>] = Contents(m)[<<"sfr", b>>]
    BY <1>3, CellsOf
  <2> QED
    BY <1>1, <2>2, ContentsSfr
<1>6. \A b \in External : n.ext[b] = f[<<"ext", b>>]
  <2>1. TAKE b \in External
  <2>2. f[<<"ext", b>>] = IF b = a THEN v ELSE Contents(m)[<<"ext", b>>]
    BY <1>3, CellsOf
  <2> QED
    BY <1>1, <2>2, ContentsExt, MemFields
<1>7. n.device = f[<<"device", 0>>] /\ n.ext_device = f[<<"device", 1>>]
  BY <1>1, <1>3, CellsOf, ContentsDevice
<1> HIDE DEF f
<1>8. Contents(n) = f
  BY <1>1, <1>2, <1>4, <1>5, <1>6, <1>7, SameContents
<1> QED
  BY <1>8 DEF n, f

(* ... so does storing one in a standard SFR, whatever becomes of r, ... *)
LEMMA EffectSfr ==
  ASSUME NEW m \in Mem, NEW n \in Mem, NEW a \in Standard, NEW v \in Byte,
         n.ram = m.ram, n.sfr = [m.sfr EXCEPT ![a] = v], n.ext = m.ext,
         n.device = m.device, n.ext_device = m.ext_device
  PROVE  Contents(n) = [Contents(m) EXCEPT ![<<"sfr", a>>] = v]
<1> DEFINE x == <<"sfr", a>>
           f == [Contents(m) EXCEPT ![x] = v]
<1>1. x \in Cell /\ f \in [Cell -> Byte]
  BY CellsOf, ContentsIn
<1>2. \A y \in Cell : f[y] = IF y = x THEN v ELSE Contents(m)[y]
  BY <1>1, ContentsIn
<1>3. \A b \in RamAddr : n.ram[b] = f[<<"ram", b>>]
  <2>1. TAKE b \in RamAddr
  <2>2. f[<<"ram", b>>] = Contents(m)[<<"ram", b>>]
    BY <1>2, CellsOf
  <2> QED
    BY <2>2, ContentsRam
<1>4. \A b \in Standard : n.sfr[b] = f[<<"sfr", b>>]
  <2>1. TAKE b \in Standard
  <2>2. f[<<"sfr", b>>] = IF b = a THEN v ELSE Contents(m)[<<"sfr", b>>]
    BY <1>2, CellsOf
  <2> QED
    BY <2>2, ContentsSfr, MemFields
<1>5. \A b \in External : n.ext[b] = f[<<"ext", b>>]
  <2>1. TAKE b \in External
  <2>2. f[<<"ext", b>>] = Contents(m)[<<"ext", b>>]
    BY <1>2, CellsOf
  <2> QED
    BY <2>2, ContentsExt
<1>6. n.device = f[<<"device", 0>>] /\ n.ext_device = f[<<"device", 1>>]
  BY <1>2, CellsOf, ContentsDevice
<1> HIDE DEF f
<1>7. Contents(n) = f
  BY <1>1, <1>3, <1>4, <1>5, <1>6, SameContents
<1> QED
  BY <1>7 DEF f

(* ... and in one of the peripherals. *)
LEMMA EffectDevices ==
  ASSUME NEW m \in Mem, NEW n \in Mem, NEW i \in {0, 1}, NEW v \in Byte,
         n.ram = m.ram, n.sfr = m.sfr, n.ext = m.ext,
         n.device = IF i = 0 THEN v ELSE m.device,
         n.ext_device = IF i = 1 THEN v ELSE m.ext_device
  PROVE  Contents(n) = [Contents(m) EXCEPT ![<<"device", i>>] = v]
<1> DEFINE x == <<"device", i>>
           f == [Contents(m) EXCEPT ![x] = v]
<1>1. n \in Mem /\ n.ram = m.ram /\ n.sfr = m.sfr /\ n.ext = m.ext
  OBVIOUS
<1>2. x \in Cell /\ f \in [Cell -> Byte]
  BY CellsOf, ContentsIn
<1>3. \A y \in Cell : f[y] = IF y = x THEN v ELSE Contents(m)[y]
  BY <1>2, ContentsIn
<1>4. \A b \in RamAddr : n.ram[b] = f[<<"ram", b>>]
  <2>1. TAKE b \in RamAddr
  <2>2. f[<<"ram", b>>] = Contents(m)[<<"ram", b>>]
    BY <1>3, CellsOf
  <2> QED
    BY <1>1, <2>2, ContentsRam
<1>5. \A b \in Standard : n.sfr[b] = f[<<"sfr", b>>]
  <2>1. TAKE b \in Standard
  <2>2. f[<<"sfr", b>>] = Contents(m)[<<"sfr", b>>]
    BY <1>3, CellsOf
  <2> QED
    BY <1>1, <2>2, ContentsSfr
<1>6. \A b \in External : n.ext[b] = f[<<"ext", b>>]
  <2>1. TAKE b \in External
  <2>2. f[<<"ext", b>>] = Contents(m)[<<"ext", b>>]
    BY <1>3, CellsOf
  <2> QED
    BY <1>1, <2>2, ContentsExt
<1>7. n.device = f[<<"device", 0>>] /\ n.ext_device = f[<<"device", 1>>]
  BY <1>3, CellsOf, ContentsDevice
<1> HIDE DEF f
<1>8. Contents(n) = f
  BY <1>1, <1>2, <1>4, <1>5, <1>6, <1>7, SameContents
<1> QED
  BY <1>8 DEF f

LEMMA EffectDevice ==
  ASSUME NEW m \in Mem, NEW v \in Byte
  PROVE  Contents([m EXCEPT !.device = v]) = [Contents(m) EXCEPT ![<<"device", 0>>] = v]
<1> DEFINE n == [m EXCEPT !.device = v]
<1>1. n \in Mem /\ n.ram = m.ram /\ n.sfr = m.sfr /\ n.ext = m.ext
      /\ n.device = v /\ n.ext_device = m.ext_device
  BY DEF Mem
<1> HIDE DEF n
<1>2. Contents(n) = [Contents(m) EXCEPT ![<<"device", 0>>] = v]
  BY <1>1, EffectDevices
<1> QED
  BY <1>2 DEF n

LEMMA EffectExtDevice ==
  ASSUME NEW m \in Mem, NEW v \in Byte
  PROVE  Contents([m EXCEPT !.ext_device = v]) = [Contents(m) EXCEPT ![<<"device", 1>>] = v]
<1> DEFINE n == [m EXCEPT !.ext_device = v]
<1>1. n \in Mem /\ n.ram = m.ram /\ n.sfr = m.sfr /\ n.ext = m.ext
      /\ n.device = m.device /\ n.ext_device = v
  BY DEF Mem
<1> HIDE DEF n
<1>2. Contents(n) = [Contents(m) EXCEPT ![<<"device", 1>>] = v]
  BY <1>1, EffectDevices
<1> QED
  BY <1>2 DEF n

LEMMA PutSfrSfr == ASSUME NEW m \in Mem, NEW a, NEW v
                   PROVE  PutSfr(m, a, v).sfr = [m.sfr EXCEPT ![a] = v]
BY DEF PutSfr, Mem

LEMMA PutSfrRest == ASSUME NEW m \in Mem, NEW a, NEW v
                    PROVE  /\ PutSfr(m, a, v).ram = m.ram /\ PutSfr(m, a, v).r = m.r
                           /\ PutSfr(m, a, v).ext = m.ext
                           /\ PutSfr(m, a, v).device = m.device
                           /\ PutSfr(m, a, v).ext_device = m.ext_device
BY DEF PutSfr, Mem

LEMMA PutSfrEffect ==
  ASSUME NEW m \in Mem, NEW a \in Standard, NEW v \in Byte
  PROVE  Contents(PutSfr(m, a, v)) = [Contents(m) EXCEPT ![<<"sfr", a>>] = v]
<1> DEFINE n == PutSfr(m, a, v)
<1>1. n \in Mem
  BY PutSfrIn
<1>2. n.sfr = [m.sfr EXCEPT ![a] = v]
  BY PutSfrSfr
<1>3. n.ram = m.ram /\ n.ext = m.ext /\ n.device = m.device /\ n.ext_device = m.ext_device
  BY PutSfrRest
<1> HIDE DEF n
<1>4. Contents(n) = [Contents(m) EXCEPT ![<<"sfr", a>>] = v]
  BY <1>1, <1>2, <1>3, EffectSfr
<1> QED
  BY <1>4 DEF n

LEMMA SetPswEffect ==
  ASSUME NEW m \in Mem, NEW v \in Byte
  PROVE  Contents([PutSfr(m, PSW, v) EXCEPT !.r = Window(v)])
           = [Contents(m) EXCEPT ![<<"sfr", PSW>>] = v]
<1> DEFINE k == PutSfr(m, PSW, v)
           n == [k EXCEPT !.r = Window(v)]
<1>1. n \in Mem
  BY SetPswIn
<1>2. k \in Mem
  BY PutSfrIn, Layout
<1>3. n.ram = k.ram /\ n.sfr = k.sfr /\ n.ext = k.ext /\ n.device = k.device
      /\ n.ext_device = k.ext_device
  BY <1>2 DEF Mem
<1>4. k.sfr = [m.sfr EXCEPT ![PSW] = v]
  BY PutSfrSfr
<1>5. k.ram = m.ram /\ k.ext = m.ext /\ k.device = m.device /\ k.ext_device = m.ext_device
  BY PutSfrRest
<1> HIDE DEF n, k
<1>6. Contents(n) = [Contents(m) EXCEPT ![<<"sfr", PSW>>] = v]
  BY <1>1, <1>3, <1>4, <1>5, EffectSfr, Layout
<1> QED
  BY <1>6 DEF n, k

LEMMA WriteAccEffect ==
  ASSUME NEW m \in Mem, NEW v \in Byte
  PROVE  Contents(WriteAcc(m, v)) = Abstract!Put(Contents(m), Acc, v)
<1> DEFINE k == PutSfr(m, ACC, v)
           par == WithBit(m.sfr[PSW], PSW_P, odd_parity8(v))
           c == Contents(m)
<1>1. k \in Mem /\ par \in Byte
  BY PutSfrIn, Layout, ParityIn
<1>2. Contents(k) = [c EXCEPT ![Acc] = v]
  BY PutSfrEffect, Layout DEF Acc
<1>3. par = Abstract!WithParityOf(c[<<"sfr", PSW>>], v)
  <2>1. c[<<"sfr", PSW>>] = m.sfr[PSW]
    BY ContentsSfr, Layout
  <2> QED
    BY <2>1 DEF Abstract!WithParityOf, Abstract!WithBit, Abstract!PSW_P, WithBit, PSW_P
<1>4. WriteAcc(m, v) = PutSfr(k, PSW, par)
  BY DEF WriteAcc
<1> HIDE DEF k, par
<1>5. Contents(PutSfr(k, PSW, par)) = [Contents(k) EXCEPT ![<<"sfr", PSW>>] = par]
  BY <1>1, PutSfrEffect, Layout
<1>6. Contents(WriteAcc(m, v)) = [[c EXCEPT ![Acc] = v] EXCEPT ![<<"sfr", PSW>>] = par]
  BY <1>2, <1>4, <1>5
<1> HIDE DEF c
<1>7. Abstract!Put(c, Acc, v)
        = [[c EXCEPT ![Acc] = v]
             EXCEPT ![<<"sfr", PSW>>] = Abstract!WithParityOf(c[<<"sfr", PSW>>], v)]
  BY DEF Abstract!Put
<1> QED
  BY <1>3, <1>6, <1>7 DEF c
-----------------------------------------------------------------------------
(* Every address has its cell, and fetch_sfr() and set_sfr() use it. *)
LEMMA AddressIn == ASSUME NEW a \in Standard \cup Extra PROVE AddressCell(a) \in Cell
<1>1. CASE Handled(a)
  BY <1>1, CellsOf DEF AddressCell
<1>2. CASE ~Handled(a) /\ a \in Standard
  BY <1>2, CellsOf DEF AddressCell
<1>3. CASE ~Handled(a) /\ a \notin Standard
  BY <1>3, CellsOf DEF AddressCell, RamAddr, IntRam
<1> QED
  BY <1>1, <1>2, <1>3

LEMMA FetchSfr == ASSUME NEW m \in Mem, NEW a \in Standard \cup Extra
                  PROVE  fetch_sfr(m, a) = Contents(m)[AddressCell(a)]
<1>1. CASE Handled(a)
  BY <1>1, ContentsDevice DEF fetch_sfr, AddressCell
<1>2. CASE ~Handled(a) /\ a \in Standard
  BY <1>2, ContentsSfr DEF fetch_sfr, AddressCell
<1>3. CASE ~Handled(a) /\ a \notin Standard
  BY <1>3, ContentsRam DEF fetch_sfr, AddressCell, RamAddr, IntRam
<1> QED
  BY <1>1, <1>2, <1>3

LEMMA PutElsewhere == ASSUME NEW c, NEW x, NEW v, x # Acc
                      PROVE  Abstract!Put(c, x, v) = [c EXCEPT ![x] = v]
BY DEF Abstract!Put

LEMMA SetSfrEffect ==
  ASSUME NEW m \in Mem, NEW a \in Standard \cup Extra, NEW v \in Byte
  PROVE  Contents(set_sfr(m, a, v)) = Abstract!Put(Contents(m), AddressCell(a), v)
<1>1. CASE Handled(a)
  <2>1. AddressCell(a) = <<"device", 0>> /\ AddressCell(a) # Acc
    BY <1>1 DEF AddressCell, Acc
  <2>2. set_sfr(m, a, v) = [m EXCEPT !.device = v]
    BY <1>1, SetDevice
  <2>3. Contents(set_sfr(m, a, v)) = [Contents(m) EXCEPT ![<<"device", 0>>] = v]
    BY <2>2, EffectDevice
  <2>4. Abstract!Put(Contents(m), AddressCell(a), v) = [Contents(m) EXCEPT ![AddressCell(a)] = v]
    BY <2>1, PutElsewhere
  <2> QED
    BY <2>1, <2>3, <2>4
<1>2. CASE ~Handled(a) /\ a = PSW
  <2>1. AddressCell(a) = <<"sfr", PSW>> /\ AddressCell(a) # Acc
    BY <1>2, Layout DEF AddressCell, Acc
  <2>2. set_sfr(m, a, v) = [PutSfr(m, PSW, v) EXCEPT !.r = Window(v)]
    BY <1>2, SetPsw
  <2>3. Contents(set_sfr(m, a, v)) = [Contents(m) EXCEPT ![<<"sfr", PSW>>] = v]
    BY <2>2, SetPswEffect
  <2>4. Abstract!Put(Contents(m), AddressCell(a), v) = [Contents(m) EXCEPT ![AddressCell(a)] = v]
    BY <2>1, PutElsewhere
  <2> QED
    BY <2>1, <2>3, <2>4
<1>3. CASE ~Handled(a) /\ a = ACC
  <2>1. AddressCell(a) = Acc
    BY <1>3, Layout DEF AddressCell, Acc
  <2>2. set_sfr(m, a, v) = WriteAcc(m, v)
    BY <1>3, SetAcc
  <2> QED
    BY <2>1, <2>2, WriteAccEffect
<1>4. CASE ~Handled(a) /\ a \in Standard \ {PSW, ACC}
  <2>1. AddressCell(a) = <<"sfr", a>> /\ AddressCell(a) # Acc
    BY <1>4, Layout DEF AddressCell, Acc
  <2>2. set_sfr(m, a, v) = PutSfr(m, a, v)
    BY <1>4, SetStandard
  <2>3. Contents(set_sfr(m, a, v)) = [Contents(m) EXCEPT ![<<"sfr", a>>] = v]
    BY <1>4, <2>2, PutSfrEffect
  <2>4. Abstract!Put(Contents(m), AddressCell(a), v) = [Contents(m) EXCEPT ![AddressCell(a)] = v]
    BY <2>1, PutElsewhere
  <2> QED
    BY <2>1, <2>3, <2>4
<1>5. CASE ~Handled(a) /\ a \in Extra
  <2>1. AddressCell(a) = <<"ram", a>>
    BY <1>5, Layout DEF AddressCell
  <2>2. set_sfr(m, a, v) = PutRam(m, a, v)
    BY <1>5, SetExtra
  <2> QED
    BY <1>5, <2>1, <2>2, EffectRam DEF RamAddr, IntRam
<1> QED
  BY <1>1, <1>2, <1>3, <1>4, <1>5

(* The modes of an operand in use. *)
LEMMA Modes ==
  ASSUME NEW m, NEW op \in Operand, InUse(m, op)
  PROVE  \/ op[1] = "DIR" /\ op[2] \in Ram
         \/ op[1] = "DIR" /\ op[2] \in Standard \cup Extra
         \/ op[1] = "REG" /\ m.r + op[2] \in Ram
         \/ op[1] = "IND" /\ Pointer(m, op[2]) \in Ram
         \/ op[1] = "IND" /\ Pointer(m, op[2]) \in SFR_START .. 255
         \/ op = <<"ACC", ACC>>
         \/ op[1] = "EXT" /\ ExtAddress(m, op[2]) \in External
BY DEF Operand, Internal, EXT, Direct, Register, Indirect, Accumulator, InUse

LEMMA RamBelow == ASSUME NEW a \in Ram
                  PROVE  a < SFR_START /\ a \notin Standard /\ a \notin Extra
<1>1. a \in 0 .. 127
  BY Layout
<1> QED
  BY <1>1, Layout

(* In every mode an operand acts on one cell, or on none. *)
Idle(m, op, v) == /\ Named(m, op) = {} /\ op[1] = "IND"
                  /\ fetch_arg(m, op) = {} /\ write_arg(m, op, v) = m
ActsOn(m, op, v, x) == /\ Named(m, op) = {x} /\ fetch_arg(m, op) = Contents(m)[x]
                       /\ write_arg(m, op, v) \in Mem
                       /\ Contents(write_arg(m, op, v)) = Abstract!Put(Contents(m), x, v)

LEMMA ArgSfr ==
  ASSUME NEW m \in Mem, NEW op \in Operand, NEW v \in Byte,
         op[1] = "DIR", op[2] \in Standard \cup Extra
  PROVE  \E x \in Cell : ActsOn(m, op, v, x)
<1> DEFINE a == op[2]
           x == AddressCell(a)
<1>1. a \in Standard \cup Extra /\ ~(a < SFR_START)
  BY Layout
<1>2. fetch_arg(m, op) = fetch_sfr(m, a) /\ write_arg(m, op, v) = set_sfr(m, a, v)
  BY <1>1 DEF fetch_arg, write_arg
<1>3. Named(m, op) = {x}
  BY DEF Named
<1> HIDE DEF a
<1>4. x \in Cell
  BY <1>1, AddressIn
<1>5. fetch_sfr(m, a) = Contents(m)[x]
  BY <1>1, FetchSfr
<1>6. set_sfr(m, a, v) \in Mem
  BY <1>1, SetSfrIn
<1>7. Contents(set_sfr(m, a, v)) = Abstract!Put(Contents(m), x, v)
  BY <1>1, SetSfrEffect
<1> HIDE DEF x
<1> QED
  BY <1>2, <1>3, <1>4, <1>5, <1>6, <1>7 DEF ActsOn

LEMMA RamCell ==
  ASSUME NEW m \in Mem, NEW op, NEW a \in Ram, NEW v \in Byte,
         Named(m, op) = {<<"ram", a>>}, fetch_arg(m, op) = m.ram[a],
         write_arg(m, op, v) = PutRam(m, a, v)
  PROVE  \E x \in Cell : ActsOn(m, op, v, x)
<1> DEFINE x == <<"ram", a>>
<1>1. a \in RamAddr
  BY DEF RamAddr, IntRam
<1>2. x \in Cell
  BY <1>1, CellsOf
<1>3. fetch_arg(m, op) = Contents(m)[x]
  BY <1>1, ContentsRam
<1>4. write_arg(m, op, v) \in Mem
  BY <1>1, PutRamIn
<1>5. Contents(write_arg(m, op, v)) = Abstract!Put(Contents(m), x, v)
  BY <1>1, EffectRam
<1> HIDE DEF x
<1>6. ActsOn(m, op, v, x)
  BY <1>3, <1>4, <1>5 DEF ActsOn, x
<1> QED
  BY <1>2, <1>6

LEMMA ArgDirect ==
  ASSUME NEW m \in Mem, NEW op \in Operand, NEW v \in Byte, op[1] = "DIR", op[2] \in Ram
  PROVE  \E x \in Cell : ActsOn(m, op, v, x)
<1> DEFINE a == op[2]
<1>1. a < SFR_START /\ a \notin Standard /\ a \notin Extra
  BY RamBelow
<1>2. AddressCell(a) = <<"ram", a>>
  BY <1>1, Layout DEF AddressCell, Handled
<1>3. Named(m, op) = {<<"ram", a>>}
  BY <1>2 DEF Named
<1>4. fetch_arg(m, op) = m.ram[a] /\ write_arg(m, op, v) = PutRam(m, a, v)
  BY <1>1 DEF fetch_arg, write_arg
<1> QED
  BY <1>3, <1>4, RamCell

LEMMA ArgRegister ==
  ASSUME NEW m \in Mem, NEW op \in Operand, NEW v \in Byte, op[1] = "REG", m.r + op[2] \in Ram
  PROVE  \E x \in Cell : ActsOn(m, op, v, x)
<1> DEFINE a == m.r + op[2]
<1>1. Named(m, op) = {<<"ram", a>>}
  BY DEF Named
<1>2. fetch_arg(m, op) = m.ram[a] /\ write_arg(m, op, v) = PutRam(m, a, v)
  BY DEF fetch_arg, write_arg
<1> HIDE DEF a
<1> QED
  BY <1>1, <1>2, RamCell DEF a

LEMMA ArgIndirect ==
  ASSUME NEW m \in Mem, NEW op \in Operand, NEW v \in Byte, op[1] = "IND", Pointer(m, op[2]) \in Ram
  PROVE  \E x \in Cell : ActsOn(m, op, v, x)
<1> DEFINE a == Pointer(m, op[2])
<1>1. a < SFR_START
  BY RamBelow
<1>2. Named(m, op) = {<<"ram", a>>}
  BY DEF Named
<1>3. fetch_arg(m, op) = m.ram[a] /\ write_arg(m, op, v) = PutRam(m, a, v)
  BY <1>1 DEF fetch_arg, write_arg
<1> HIDE DEF a
<1> QED
  BY <1>2, <1>3, RamCell DEF a

LEMMA ArgBeyond ==
  ASSUME NEW m \in Mem, NEW op \in Operand, NEW v \in Byte, op[1] = "IND",
         Pointer(m, op[2]) \in SFR_START .. 255
  PROVE  Idle(m, op, v)
<1> DEFINE a == Pointer(m, op[2])
<1>1. ~(a < SFR_START) /\ a \notin Ram
  BY Layout
<1>2. fetch_arg(m, op) = {} /\ write_arg(m, op, v) = m
  BY <1>1 DEF fetch_arg, write_arg
<1>3. Named(m, op) = {<<"ram", a>>} \cap ({"ram"} \X Ram)
  BY DEF Named
<1> HIDE DEF a
<1>4. Named(m, op) = {}
  BY <1>1, <1>3
<1> QED
  BY <1>2, <1>4 DEF Idle

LEMMA ArgAcc ==
  ASSUME NEW m \in Mem, NEW op \in Operand, NEW v \in Byte, op = <<"ACC", ACC>>
  PROVE  ActsOn(m, op, v, Acc)
<1>2. Named(m, op) = {Acc}
  BY DEF Named
<1>3. fetch_arg(m, op) = m.sfr[ACC] /\ write_arg(m, op, v) = WriteAcc(m, v)
  BY DEF fetch_arg, write_arg
<1>4. fetch_arg(m, op) = Contents(m)[Acc]
  BY <1>3, ContentsSfr, Layout DEF Acc
<1> QED
  BY <1>2, <1>3, <1>4, WriteAccIn, WriteAccEffect DEF ActsOn

ExtCell(a) == IF ext_registered THEN <<"device", 1>> ELSE <<"ext", a>>

LEMMA PutExtEffect ==
  ASSUME NEW m \in Mem, NEW a \in External, NEW v \in Byte
  PROVE  /\ ExtCell(a) \in Cell /\ fetch_ext(m, a) = Contents(m)[ExtCell(a)]
         /\ Contents(PutExt(m, a, v)) = Abstract!Put(Contents(m), ExtCell(a), v)
<1>1. CASE ext_registered
  <2> DEFINE x == <<"device", 1>>
  <2>1. ExtCell(a) = x /\ fetch_ext(m, a) = Contents(m)[x]
    BY <1>1, ContentsDevice DEF ExtCell, fetch_ext
  <2>2. PutExt(m, a, v) = [m EXCEPT !.ext_device = v]
    BY <1>1 DEF PutExt
  <2>3. Contents(PutExt(m, a, v)) = [Contents(m) EXCEPT ![x] = v]
    BY <2>2, EffectExtDevice
  <2>4. x # Acc /\ x \in Cell
    BY CellsOf DEF Acc
  <2> HIDE DEF x
  <2> QED
    BY <2>1, <2>3, <2>4, PutElsewhere
<1>2. CASE ~ext_registered
  <2> DEFINE x == <<"ext", a>>
  <2>1. ExtCell(a) = x /\ fetch_ext(m, a) = Contents(m)[x]
    BY <1>2, ContentsExt DEF ExtCell, fetch_ext
  <2>2. PutExt(m, a, v) = [m EXCEPT !.ext = [m.ext EXCEPT ![a] = v]]
    BY <1>2 DEF PutExt
  <2>3. Contents(PutExt(m, a, v)) = [Contents(m) EXCEPT ![x] = v]
    BY <2>2, EffectExt
  <2>4. x # Acc /\ x \in Cell
    BY CellsOf DEF Acc
  <2> HIDE DEF x
  <2> QED
    BY <2>1, <2>3, <2>4, PutElsewhere
<1> QED
  BY <1>1, <1>2

LEMMA ArgExt ==
  ASSUME NEW m \in Mem, NEW op \in Operand, NEW v \in Byte, op[1] = "EXT",
         ExtAddress(m, op[2]) \in External
  PROVE  \E x \in Cell : ActsOn(m, op, v, x)
<1> DEFINE a == ExtAddress(m, op[2])
<1>1. fetch_arg(m, op) = fetch_ext(m, a) /\ write_arg(m, op, v) = PutExt(m, a, v)
  BY DEF fetch_arg, write_arg
<1>2. Named(m, op) = {ExtCell(a)}
  BY DEF Named, ExtCell
<1> HIDE DEF a
<1>3. a \in External
  BY DEF a
<1>4. PutExt(m, a, v) \in Mem
  BY <1>3, PutExtIn
<1> QED
  BY <1>1, <1>2, <1>3, <1>4, PutExtEffect DEF ActsOn

LEMMA Argument ==
  ASSUME NEW m \in Mem, NEW op \in Operand, NEW v \in Byte, InUse(m, op)
  PROVE  Idle(m, op, v) \/ \E x \in Cell : ActsOn(m, op, v, x)
BY Modes, ArgDirect, ArgSfr, ArgRegister, ArgIndirect, ArgBeyond, ArgAcc, ArgExt, CellsOf
-----------------------------------------------------------------------------
(* The state as a memory. *)
LEMMA NowIn == ASSUME TypeOK PROVE Now \in Mem
BY DEF TypeOK, Now, Mem, RamAddr, IntRam

LEMMA BecomesIn == ASSUME TypeOK, NEW m \in Mem, Becomes(m)
                   PROVE  TypeOK' /\ Now' = m
<1>1. m.ram \in [RamAddr -> Byte] /\ m.sfr \in [Standard -> Byte] /\ m.r \in 0 .. 7
      /\ m.ext \in [External -> Byte] /\ m.device \in Byte /\ m.ext_device \in Byte
  BY MemFields
<1>2. TypeOK'
  BY <1>1 DEF TypeOK, Becomes, callback, RamAddr, IntRam
<1>3. Now' = [ram |-> m.ram, sfr |-> m.sfr, r |-> m.r, ext |-> m.ext,
             device |-> m.device, ext_device |-> m.ext_device]
  BY DEF Becomes, Now
<1>4. m = [ram |-> m.ram, sfr |-> m.sfr, r |-> m.r, ext |-> m.ext,
           device |-> m.device, ext_device |-> m.ext_device]
  BY DEF Mem
<1> QED
  BY <1>2, <1>3, <1>4

LEMMA ContentsPrime == Contents(Now)' = Contents(Now')
BY DEF Contents, Cell, Outside

LEMMA NoBits == {} \in Byte
BY DEF Byte

LEMMA ClearedFields == /\ Cleared.ram = [a \in IntRam |-> {}]
                       /\ Cleared.sfr = [a \in Standard |-> {}] /\ Cleared.r = 0
BY DEF Cleared

LEMMA Initially == ASSUME Init PROVE TypeOK
<1>1. [a \in IntRam |-> {}] \in [IntRam -> Byte]
      /\ [a \in Standard |-> {}] \in [Standard -> Byte]
  BY NoBits
<1>2. Cleared.ram \in [IntRam -> Byte] /\ Cleared.sfr \in [Standard -> Byte]
      /\ Cleared.r \in 0 .. 7 /\ [a \in External |-> {}] \in [External -> Byte]
  BY <1>1, ClearedFields, NoBits
<1> QED
  BY <1>2, NoBits DEF Init, TypeOK

(* The instructions store bytes. *)
LEMMA FetchIn == ASSUME NEW m \in Mem, NEW op \in Operand, InUse(m, op)
                 PROVE  fetch_arg(m, op) \in Byte
<1>1. {} \in Byte
  BY NoBits
<1>2. Idle(m, op, {}) \/ \E x \in Cell : ActsOn(m, op, {}, x)
  BY <1>1, Argument
<1> QED
  BY <1>1, <1>2, ContentsIn DEF Idle, ActsOn

LEMMA WriteIn == ASSUME NEW m \in Mem, NEW op \in Operand, InUse(m, op), NEW v \in Byte
                 PROVE  write_arg(m, op, v) \in Mem
BY Argument DEF Idle, ActsOn
-----------------------------------------------------------------------------
(* A step from contents c to d, on cells no peripheral hides. *)
Hidden == {h \in Cell :
             \/ \E a \in Devices \ Implicit :
                  Handled(a) /\ h = IF a \in Standard THEN <<"sfr", a>> ELSE <<"ram", a>>
             \/ ext_registered /\ \E a \in External : h = <<"ext", a>>}
Low8 == <<"sfr", DPL>>
High8 == <<"sfr", DPH>>

CellStep(c, d) ==
  \/ d = c
  \/ d = [c EXCEPT ![Low8] = d[Low8], ![High8] = d[High8]]
  \/ \E x \in Cell \ Hidden :
       \/ d = Abstract!Put(c, x, d[x])
       \/ d = [Abstract!Put(c, Acc, c[x]) EXCEPT ![x] = c[Acc]]
       \/ d = [Abstract!Put(c, Acc, Abstract!High(c[Acc]) \cup Abstract!Low(c[x]))
                 EXCEPT ![x] = Abstract!High(c[x]) \cup Abstract!Low(c[Acc])]

LEMMA AccVisible == /\ Acc \in Cell \ Hidden /\ <<"sfr", PSW>> \in Cell \ Hidden
                    /\ Low8 \in Cell \ Hidden /\ High8 \in Cell \ Hidden
BY CellsOf, Layout DEF Hidden, Implicit, Acc, Low8, High8

LEMMA AddressVisible == ASSUME NEW a \in Standard \cup Extra
                        PROVE  AddressCell(a) \in Cell \ Hidden
<1>1. CASE Handled(a)
  <2>1. AddressCell(a) = <<"device", 0>>
    BY <1>1 DEF AddressCell
  <2> QED
    BY <2>1, CellsOf DEF Hidden
<1>2. CASE ~Handled(a) /\ a \in Standard
  <2>1. AddressCell(a) = <<"sfr", a>>
    BY <1>2 DEF AddressCell
  <2> QED
    BY <1>2, <2>1, CellsOf DEF Hidden
<1>3. CASE ~Handled(a) /\ a \notin Standard
  <2>1. AddressCell(a) = <<"ram", a>>
    BY <1>3 DEF AddressCell
  <2> QED
    BY <1>3, <2>1, CellsOf DEF Hidden, RamAddr, IntRam
<1> QED
  BY <1>1, <1>2, <1>3

LEMMA RamVisible == ASSUME NEW a \in Ram PROVE <<"ram", a>> \in Cell \ Hidden
BY RamBelow, CellsOf, Layout DEF Hidden, RamAddr, IntRam

LEMMA ExtVisible == ASSUME NEW a \in External PROVE ExtCell(a) \in Cell \ Hidden
<1>1. CASE ext_registered
  BY <1>1, CellsOf DEF ExtCell, Hidden
<1>2. CASE ~ext_registered
  BY <1>2, CellsOf DEF ExtCell, Hidden
<1> QED
  BY <1>1, <1>2

LEMMA NamedVisible ==
  ASSUME NEW m \in Mem, NEW op \in Operand, InUse(m, op), NEW x, Named(m, op) = {x}
  PROVE  x \in Cell \ Hidden
<1>1. CASE op[1] = "DIR" /\ op[2] \in Ram
  <2>1. AddressCell(op[2]) = <<"ram", op[2]>>
    BY <1>1, RamBelow, Layout DEF AddressCell, Handled
  <2> QED
    BY <1>1, <2>1, RamVisible DEF Named
<1>2. CASE op[1] = "DIR" /\ op[2] \in Standard \cup Extra
  BY <1>2, AddressVisible DEF Named
<1>3. CASE op[1] = "REG" /\ m.r + op[2] \in Ram
  BY <1>3, RamVisible DEF Named
<1>4. CASE op[1] = "IND"
  <2>1. x \in {"ram"} \X Ram
    BY <1>4 DEF Named
  <2> QED
    BY <2>1, RamVisible
<1>5. CASE op = <<"ACC", ACC>>
  BY <1>5, AccVisible DEF Named
<1>6. CASE op[1] = "EXT" /\ ExtAddress(m, op[2]) \in External
  <2>1. x = ExtCell(ExtAddress(m, op[2]))
    BY <1>6 DEF Named, ExtCell
  <2> QED
    BY <1>6, <2>1, ExtVisible
<1> QED
  BY <1>1, <1>2, <1>3, <1>4, <1>5, <1>6, Modes

(* Hidden cells keep their bytes. *)
LEMMA StepKeepsHidden ==
  ASSUME NEW c \in [Cell -> Byte], NEW d, CellStep(c, d), NEW h \in Hidden
  PROVE  d[h] = c[h]
<1>1. h \in Cell /\ h # Acc /\ h # <<"sfr", PSW>>
  BY AccVisible DEF Hidden
<1>2. ASSUME NEW x \in Cell, NEW v, x # h PROVE Abstract!Put(c, x, v)[h] = c[h]
  BY <1>1, <1>2 DEF Abstract!Put
<1>3. ASSUME NEW v PROVE Abstract!Put(c, Acc, v)[h] = c[h]
                         /\ DOMAIN Abstract!Put(c, Acc, v) = Cell
  BY <1>1, AccVisible DEF Abstract!Put
<1>4. ASSUME NEW x \in Cell \ Hidden, NEW u, NEW v
      PROVE  [Abstract!Put(c, Acc, u) EXCEPT ![x] = v][h] = c[h]
  <2> DEFINE k == Abstract!Put(c, Acc, u)
  <2>1. k[h] = c[h] /\ DOMAIN k = Cell /\ x # h
    BY <1>3
  <2> HIDE DEF k
  <2>2. [k EXCEPT ![x] = v][h] = c[h]
    BY <1>1, <2>1
  <2> QED
    BY <2>2 DEF k
<1>5. CASE d = c
  BY <1>5
<1>6. CASE d = [c EXCEPT ![Low8] = d[Low8], ![High8] = d[High8]]
  <2>1. h # Low8 /\ h # High8
    BY AccVisible
  <2> DEFINE k == [c EXCEPT ![Low8] = d[Low8], ![High8] = d[High8]]
  <2>2. k[h] = c[h]
    BY <1>1, <2>1
  <2> HIDE DEF k
  <2> QED
    BY <1>6, <2>2 DEF k
<1>7. CASE d # c /\ d # [c EXCEPT ![Low8] = d[Low8], ![High8] = d[High8]]
  <2>1. PICK x \in Cell \ Hidden :
          \/ d = Abstract!Put(c, x, d[x])
          \/ d = [Abstract!Put(c, Acc, c[x]) EXCEPT ![x] = c[Acc]]
          \/ d = [Abstract!Put(c, Acc, Abstract!High(c[Acc]) \cup Abstract!Low(c[x]))
                    EXCEPT ![x] = Abstract!High(c[x]) \cup Abstract!Low(c[Acc])]
    BY <1>7 DEF CellStep
  <2>2. CASE d = Abstract!Put(c, x, d[x])
    <3>1. Abstract!Put(c, x, d[x])[h] = c[h]
      BY <1>2
    <3> QED
      BY <2>2, <3>1
  <2>3. CASE d = [Abstract!Put(c, Acc, c[x]) EXCEPT ![x] = c[Acc]]
    BY <1>4, <2>3
  <2>4. CASE d = [Abstract!Put(c, Acc, Abstract!High(c[Acc]) \cup Abstract!Low(c[x]))
                    EXCEPT ![x] = Abstract!High(c[x]) \cup Abstract!Low(c[Acc])]
    BY <1>4, <2>4
  <2> QED
    BY <2>1, <2>2, <2>3, <2>4
<1> QED
  BY <1>5, <1>6, <1>7
-----------------------------------------------------------------------------
(* Each instruction is a step on the cells. *)
LEMMA WriteStep ==
  ASSUME NEW m \in Mem, NEW op \in Operand, InUse(m, op), NEW v \in Byte
  PROVE  write_arg(m, op, v) \in Mem /\ CellStep(Contents(m), Contents(write_arg(m, op, v)))
<1> DEFINE n == write_arg(m, op, v)
           c == Contents(m)
<1>1. n \in Mem
  BY WriteIn
<1>2. CASE Idle(m, op, v)
  BY <1>1, <1>2 DEF Idle, CellStep
<1>3. ASSUME NEW x \in Cell, ActsOn(m, op, v, x) PROVE CellStep(c, Contents(n))
  <2>1. x \in Cell \ Hidden
    BY <1>3, NamedVisible DEF ActsOn
  <2>2. Contents(n) = Abstract!Put(c, x, v)
    BY <1>3 DEF ActsOn
  <2>3. c \in [Cell -> Byte]
    BY ContentsIn
  <2> HIDE DEF c, n
  <2>4. Abstract!Put(c, x, v)[x] = v
    BY <2>3, PutIn
  <2>5. Contents(n) = Abstract!Put(c, x, Contents(n)[x])
    BY <2>2, <2>4
  <2> QED
    BY <2>1, <2>5 DEF CellStep
<1> QED
  BY <1>1, <1>2, <1>3, Argument

LEMMA AccStep == ASSUME NEW m \in Mem, NEW v \in Byte
                 PROVE  WriteAcc(m, v) \in Mem /\ CellStep(Contents(m), Contents(WriteAcc(m, v)))
<1> DEFINE n == WriteAcc(m, v)
           c == Contents(m)
<1>1. n \in Mem /\ Contents(n) = Abstract!Put(c, Acc, v) /\ c \in [Cell -> Byte]
  BY WriteAccIn, WriteAccEffect, ContentsIn
<1> HIDE DEF c, n
<1>2. Abstract!Put(c, Acc, v)[Acc] = v
  BY <1>1, PutIn, CellsOf
<1>3. Contents(n) = Abstract!Put(c, Acc, Contents(n)[Acc])
  BY <1>1, <1>2
<1>4. CellStep(c, Contents(n))
  BY <1>3, AccVisible DEF CellStep
<1> QED
  BY <1>1, <1>4 DEF c, n

LEMMA ExtStep ==
  ASSUME NEW m \in Mem, NEW a \in External, NEW v \in Byte
  PROVE  PutExt(m, a, v) \in Mem /\ CellStep(Contents(m), Contents(PutExt(m, a, v)))
<1> DEFINE n == PutExt(m, a, v)
           c == Contents(m)
           x == ExtCell(a)
<1>1. n \in Mem /\ Contents(n) = Abstract!Put(c, x, v) /\ c \in [Cell -> Byte]
  BY PutExtIn, PutExtEffect, ContentsIn
<1>2. x \in Cell \ Hidden
  BY ExtVisible
<1> HIDE DEF c, n, x
<1>3. Abstract!Put(c, x, v)[x] = v
  BY <1>1, <1>2, PutIn
<1>4. CellStep(c, Contents(n))
  BY <1>1, <1>2, <1>3 DEF CellStep
<1> QED
  BY <1>1, <1>4 DEF c, n

LEMMA PointerStep ==
  ASSUME NEW m \in Mem, NEW u \in Byte, NEW v \in Byte
  PROVE  write_dptr(m, u, v) \in Mem /\ CellStep(Contents(m), Contents(write_dptr(m, u, v)))
<1> DEFINE k == PutSfr(m, DPL, v)
           n == PutSfr(k, DPH, u)
           c == Contents(m)
<1>1. k \in Mem /\ Contents(k) = [c EXCEPT ![Low8] = v] /\ c \in [Cell -> Byte]
  BY PutSfrIn, PutSfrEffect, ContentsIn, OwnSfrs DEF Low8
<1> HIDE DEF k, c
<1>2. n \in Mem /\ Contents(n) = [Contents(k) EXCEPT ![High8] = u]
  BY <1>1, PutSfrIn, PutSfrEffect, OwnSfrs DEF High8
<1>3. write_dptr(m, u, v) = n
  BY DEF write_dptr, k
<1> HIDE DEF n
<1>4. Low8 # High8 /\ Low8 \in Cell /\ High8 \in Cell
  BY AccVisible, Layout DEF Low8, High8
<1> HIDE DEF Low8, High8
<1>5. Contents(n)[Low8] = v /\ Contents(n)[High8] = u
  BY <1>1, <1>2, <1>4
<1>6. Contents(n) = [c EXCEPT ![Low8] = Contents(n)[Low8], ![High8] = Contents(n)[High8]]
  BY <1>1, <1>2, <1>4, <1>5
<1> QED
  BY <1>2, <1>3, <1>6 DEF CellStep, c

LEMMA CarryStep ==
  ASSUME NEW m \in Mem, NEW on \in BOOLEAN
  PROVE  write_carry(m, on) \in Mem /\ CellStep(Contents(m), Contents(write_carry(m, on)))
<1> DEFINE v == WithBit(m.sfr[PSW], PSW_CY, on)
           n == PutSfr(m, PSW, v)
           c == Contents(m)
           x == <<"sfr", PSW>>
<1>1. v \in Byte
  BY MemFields, Layout, BitKept DEF PSW_CY, Bit
<1>2. write_carry(m, on) = n
  BY DEF write_carry
<1> HIDE DEF v
<1>3. n \in Mem /\ Contents(n) = [c EXCEPT ![x] = v] /\ c \in [Cell -> Byte]
  BY <1>1, PutSfrIn, PutSfrEffect, ContentsIn, Layout
<1> HIDE DEF n, c
<1>4. x # Acc /\ x \in Cell \ Hidden
  BY AccVisible, CellsOf
<1>5. Contents(n)[x] = v
  BY <1>3, <1>4
<1>6. Contents(n) = Abstract!Put(c, x, Contents(n)[x])
  BY <1>3, <1>4, <1>5, PutElsewhere
<1>7. CellStep(c, Contents(n))
  BY <1>4, <1>6 DEF CellStep
<1> QED
  BY <1>2, <1>3, <1>7 DEF c

(* Writing the accumulator moves no other operand, ... *)
LEMMA WriteAccRest == ASSUME NEW m \in Mem, NEW v
                      PROVE  WriteAcc(m, v).ram = m.ram /\ WriteAcc(m, v).r = m.r
BY DEF WriteAcc, PutSfr, Mem

LEMMA SameOperand ==
  ASSUME NEW m \in Mem, NEW op \in Internal, InUse(m, op), NEW v \in Byte
  PROVE  InUse(WriteAcc(m, v), op) /\ Named(WriteAcc(m, v), op) = Named(m, op)
<1>1. op[1] # "EXT"
  BY DEF Internal, Direct, Register, Indirect, Accumulator
<1> QED
  BY <1>1, WriteAccRest DEF InUse, Named, Pointer

(* ... so writing both comes to this. *)
LEMMA TwoWrites ==
  ASSUME NEW m \in Mem, NEW op \in Internal, InUse(m, op), NEW u \in Byte, NEW v \in Byte
  PROVE  LET n == write_arg(WriteAcc(m, u), op, v)
         IN /\ n \in Mem
            /\ \/ op[1] = "IND" /\ fetch_arg(m, op) = {} /\ n = WriteAcc(m, u)
               \/ \E x \in Cell \ Hidden :
                    /\ fetch_arg(m, op) = Contents(m)[x] /\ Named(m, op) = {x}
                    /\ Contents(n) = Abstract!Put(Abstract!Put(Contents(m), Acc, u), x, v)
<1> DEFINE k == WriteAcc(m, u)
           n == write_arg(k, op, v)
<1>0. op \in Operand
  BY DEF Operand
<1>1. k \in Mem /\ InUse(k, op) /\ Named(k, op) = Named(m, op)
      /\ Contents(k) = Abstract!Put(Contents(m), Acc, u)
  BY WriteAccIn, SameOperand, WriteAccEffect
<1> HIDE DEF k
<1>2. n \in Mem
  BY <1>1, <1>0, WriteIn
<1>3. CASE Idle(m, op, v)
  <2>1. Named(k, op) = {}
    BY <1>1, <1>3 DEF Idle
  <2>2. Idle(k, op, v)
    BY <1>1, <2>1, <1>0, Argument DEF ActsOn
  <2> QED
    BY <1>2, <1>3, <2>2 DEF Idle, k
<1>4. ASSUME NEW x \in Cell, ActsOn(m, op, v, x)
      PROVE  /\ x \in Cell \ Hidden
             /\ fetch_arg(m, op) = Contents(m)[x] /\ Named(m, op) = {x}
             /\ Contents(n) = Abstract!Put(Abstract!Put(Contents(m), Acc, u), x, v)
  <2>1. Named(m, op) = {x} /\ fetch_arg(m, op) = Contents(m)[x]
    BY <1>4 DEF ActsOn
  <2>2. x \in Cell \ Hidden
    BY <2>1, <1>0, NamedVisible
  <2>3. Named(k, op) = {x}
    BY <1>1, <2>1
  <2>4. PICK y \in Cell : ActsOn(k, op, v, y)
    BY <1>1, <2>3, <1>0, Argument DEF Idle
  <2>5. y = x
    BY <2>3, <2>4 DEF ActsOn
  <2>6. Contents(n) = Abstract!Put(Contents(k), x, v)
    BY <2>4, <2>5 DEF ActsOn
  <2> QED
    BY <1>1, <2>1, <2>2, <2>6
<1>5. n = write_arg(WriteAcc(m, u), op, v)
  BY DEF k
<1> HIDE DEF n
<1> QED
  BY <1>2, <1>3, <1>4, <1>5, <1>0, Argument DEF n, k

(* Storing a byte in the accumulator once more changes nothing. *)
LEMMA AccTwice ==
  ASSUME NEW c \in [Cell -> Byte], NEW v \in Byte
  PROVE  /\ Abstract!Put(Abstract!Put(c, Acc, v), Acc, v) = Abstract!Put(c, Acc, v)
         /\ [Abstract!Put(c, Acc, v) EXCEPT ![Acc] = v] = Abstract!Put(c, Acc, v)
<1> DEFINE d == Abstract!Put(c, Acc, v)
           P == <<"sfr", PSW>>
           p == Abstract!WithParityOf(c[P], v)
<1>1. d \in [Cell -> Byte] /\ d[Acc] = v
  BY PutIn, CellsOf
<1>2. d = [c EXCEPT ![Acc] = v, ![P] = p]
  BY DEF Abstract!Put
<1>3. Acc # P /\ P \in Cell /\ Acc \in Cell
  BY CellsOf
<1>4. Abstract!WithParityOf(p, v) = p
  BY DEF Abstract!WithParityOf, Abstract!WithBit
<1>5. Abstract!Put(d, Acc, v) = [d EXCEPT ![Acc] = v, ![P] = Abstract!WithParityOf(d[P], v)]
  BY DEF Abstract!Put
<1> HIDE DEF p, P
<1>6. d[P] = p
  BY <1>2, <1>3
<1> HIDE DEF d
<1>7. Abstract!Put(d, Acc, v) = [d EXCEPT ![Acc] = v, ![P] = p]
  BY <1>4, <1>5, <1>6
<1>8. [d EXCEPT ![Acc] = v, ![P] = p] = d
  BY <1>1, <1>3, <1>6
<1>9. [d EXCEPT ![Acc] = v] = d
  BY <1>1, <1>3
<1> QED
  BY <1>7, <1>8, <1>9 DEF d

LEMMA ExchangeStep ==
  ASSUME NEW m \in Mem, NEW op \in Internal, InUse(m, op)
  PROVE  LET n == write_arg(WriteAcc(m, fetch_arg(m, op)), op, m.sfr[ACC])
         IN n \in Mem /\ CellStep(Contents(m), Contents(n))
<1> DEFINE u == fetch_arg(m, op)
           w == m.sfr[ACC]
           n == write_arg(WriteAcc(m, u), op, w)
           c == Contents(m)
<1>1. u \in Byte /\ w \in Byte /\ w = c[Acc] /\ c \in [Cell -> Byte]
  <2>1. u \in Byte
    BY FetchIn DEF Operand
  <2>2. w \in Byte
    BY MemFields, OwnSfrs
  <2>3. w = c[Acc]
    BY ContentsAcc
  <2>4. c \in [Cell -> Byte]
    BY ContentsIn
  <2> QED
    BY <2>1, <2>2, <2>3, <2>4
<1> HIDE DEF u, w, c
<1>2. /\ n \in Mem
      /\ \/ n = WriteAcc(m, u)
         \/ \E x \in Cell \ Hidden :
              u = c[x] /\ Contents(n) = Abstract!Put(Abstract!Put(c, Acc, u), x, w)
  BY <1>1, TwoWrites DEF u, c
<1> HIDE DEF n
<1>3. ASSUME n = WriteAcc(m, u) PROVE CellStep(c, Contents(n))
  BY <1>1, <1>3, AccStep DEF c
<1>4. ASSUME NEW x \in Cell \ Hidden, u = c[x],
             Contents(n) = Abstract!Put(Abstract!Put(c, Acc, u), x, w)
      PROVE  CellStep(c, Contents(n))
  <2>1. Contents(n) = [Abstract!Put(c, Acc, u) EXCEPT ![x] = w]
    <3>1. CASE x = Acc
      <4>1. u = w
        BY <1>1, <1>4, <3>1
      <4> QED
        BY <1>1, <1>4, <3>1, <4>1, AccTwice
    <3>2. CASE x # Acc
      BY <1>4, <3>2, PutElsewhere
    <3> QED
      BY <3>1, <3>2
  <2>2. Contents(n) = [Abstract!Put(c, Acc, c[x]) EXCEPT ![x] = c[Acc]]
    BY <1>1, <1>4, <2>1
  <2> QED
    BY <2>2 DEF CellStep
<1>5. CellStep(c, Contents(n))
  BY <1>2, <1>3, <1>4
<1> QED
  BY <1>2, <1>5 DEF n, u, w, c

LEMMA DigitsIn == ASSUME NEW a \in Byte, NEW b \in Byte PROVE High(a) \cup Low(b) \in Byte
BY DEF High, Low, Byte

LEMMA DigitStep ==
  ASSUME NEW m \in Mem, NEW op \in Indirect, InUse(m, op)
  PROVE  LET op1 == m.sfr[ACC]
             op2 == fetch_arg(m, op)
             n == write_arg(WriteAcc(m, High(op1) \cup Low(op2)), op, High(op2) \cup Low(op1))
         IN n \in Mem /\ CellStep(Contents(m), Contents(n))
<1> DEFINE op1 == m.sfr[ACC]
           op2 == fetch_arg(m, op)
           u == High(op1) \cup Low(op2)
           w == High(op2) \cup Low(op1)
           n == write_arg(WriteAcc(m, u), op, w)
           c == Contents(m)
<1>0. op \in Operand /\ op \in Internal /\ op[1] = "IND"
  BY DEF Operand, Internal, Indirect
<1>1. op1 \in Byte /\ op2 \in Byte /\ op1 = c[Acc] /\ c \in [Cell -> Byte]
  <2>1. op1 \in Byte
    BY MemFields, OwnSfrs
  <2>2. op2 \in Byte
    BY <1>0, FetchIn
  <2>3. op1 = c[Acc]
    BY ContentsAcc
  <2>4. c \in [Cell -> Byte]
    BY ContentsIn
  <2> QED
    BY <2>1, <2>2, <2>3, <2>4
<1> HIDE DEF op1, op2, c
<1>2. u \in Byte /\ w \in Byte
  BY <1>1, DigitsIn
<1> HIDE DEF u, w
<1>3. /\ n \in Mem
      /\ \/ n = WriteAcc(m, u)
         \/ \E x \in Cell \ Hidden :
              /\ op2 = c[x] /\ Named(m, op) = {x}
              /\ Contents(n) = Abstract!Put(Abstract!Put(c, Acc, u), x, w)
  BY <1>0, <1>2, TwoWrites DEF op2, c
<1> HIDE DEF n
<1>4. ASSUME n = WriteAcc(m, u) PROVE CellStep(c, Contents(n))
  BY <1>2, <1>4, AccStep DEF c
<1>5. ASSUME NEW x \in Cell \ Hidden, op2 = c[x], Named(m, op) = {x},
             Contents(n) = Abstract!Put(Abstract!Put(c, Acc, u), x, w)
      PROVE  CellStep(c, Contents(n))
  <2>1. x # Acc
    BY <1>0, <1>5 DEF Named, Acc
  <2>2. Contents(n) = [Abstract!Put(c, Acc, u) EXCEPT ![x] = w]
    BY <1>5, <2>1, PutElsewhere
  <2>3. u = Abstract!High(c[Acc]) \cup Abstract!Low(c[x])
        /\ w = Abstract!High(c[x]) \cup Abstract!Low(c[Acc])
    BY <1>1, <1>5 DEF u, w, High, Low, Abstract!High, Abstract!Low
  <2> QED
    BY <2>2, <2>3 DEF CellStep
<1>6. CellStep(c, Contents(n))
  BY <1>3, <1>4, <1>5
<1> QED
  BY <1>3, <1>6 DEF n, u, w, op1, op2, c

LEMMA BitOperand == ASSUME NEW b \in BitAddrs, NEW m
                    PROVE  ByteOfBit(b) \in Operand /\ InUse(m, ByteOfBit(b)) /\ b % 8 \in Bit
<1>1. b \in 0 .. 255
  BY BitAssumption
<1>2. b % 8 \in Bit
  BY <1>1 DEF Bit
<1>3. ByteOfBit(b) \in Direct
  BY BitAssumption DEF ByteOfBit, Direct
<1> QED
  BY <1>2, <1>3 DEF Operand, Internal, Direct, InUse

LEMMA BitStep ==
  ASSUME NEW m \in Mem, NEW b \in BitAddrs, NEW on \in BOOLEAN
  PROVE  write_bit(m, b, on) \in Mem /\ CellStep(Contents(m), Contents(write_bit(m, b, on)))
<1> DEFINE op == ByteOfBit(b)
           v == WithBit(fetch_arg(m, op), b % 8, on)
<1>1. op \in Operand /\ InUse(m, op) /\ b % 8 \in Bit
  BY BitOperand
<1>2. v \in Byte
  BY <1>1, FetchIn, BitKept
<1>3. write_bit(m, b, on) = write_arg(m, op, v)
  BY DEF write_bit
<1> HIDE DEF op, v
<1> QED
  BY <1>1, <1>2, <1>3, WriteStep
(* CLR and SETB resolve the address as write_bit() does. *)
LEMMA OwnBit == ASSUME NEW b \in BitAddrs, NEW m, NEW on
                PROVE  OwnWriteBit(m, b, on) = write_bit(m, b, on)
<1> DEFINE ram == BIT_RAM_START + (b \div 8)
           offset == b - (b % 8)
<1>1. CASE b < SFR_START
  <2>1. ByteOfBit(b) = <<"DIR", ram>>
    BY <1>1 DEF ByteOfBit
  <2>2. ram \in Ram
    BY <1>1, BitAssumption
  <2>3. ram < SFR_START
    BY <2>2, RamBelow
  <2> HIDE DEF ram
  <2>4. write_bit(m, b, on) = PutRam(m, ram, WithBit(m.ram[ram], b % 8, on))
    BY <2>1, <2>3 DEF write_bit, write_arg, fetch_arg
  <2> QED
    BY <1>1, <2>4 DEF OwnWriteBit, ram
<1>2. CASE ~(b < SFR_START)
  <2>1. ByteOfBit(b) = <<"DIR", offset>>
    BY <1>2 DEF ByteOfBit
  <2>2. offset \in Standard \cup Extra
    BY <1>2, BitAssumption
  <2>3. ~(offset < SFR_START)
    BY <2>2, Layout
  <2> HIDE DEF offset
  <2>4. write_bit(m, b, on) = set_sfr(m, offset, WithBit(fetch_sfr(m, offset), b % 8, on))
    BY <2>1, <2>3 DEF write_bit, write_arg, fetch_arg
  <2> QED
    BY <1>2, <2>4 DEF OwnWriteBit, offset
<1> QED
  BY <1>1, <1>2
-----------------------------------------------------------------------------
(* What an instruction or set_iram_byte() does, it does by one Becomes(). *)
LEMMA MovStep ==
  ASSUME TypeOK, NEW dst \in Operand, NEW src \in Operand, MOV(dst, src)
  PROVE  \E n \in Mem : Becomes(n) /\ CellStep(Contents(Now), Contents(n))
<1>1. Now \in Mem /\ InUse(Now, dst) /\ InUse(Now, src)
  BY NowIn DEF MOV
<1>2. fetch_arg(Now, src) \in Byte
  BY <1>1, FetchIn
<1> DEFINE n == write_arg(Now, dst, fetch_arg(Now, src))
<1>3. n \in Mem /\ CellStep(Contents(Now), Contents(n))
  BY <1>1, <1>2, WriteStep
<1>4. Becomes(n)
  BY DEF MOV
<1> QED
  BY <1>3, <1>4

LEMMA ImmediateStep ==
  ASSUME TypeOK, NEW dst \in Operand, NEW v \in Byte, InUse(Now, dst),
         Becomes(write_arg(Now, dst, v))
  PROVE  \E n \in Mem : Becomes(n) /\ CellStep(Contents(Now), Contents(n))
BY NowIn, WriteStep

LEMMA CountStep ==
  ASSUME TypeOK, NEW dst \in Operand, INC(dst) \/ DEC(dst)
  PROVE  \E n \in Mem : Becomes(n) /\ CellStep(Contents(Now), Contents(n))
<1>1. InUse(Now, dst)
  BY DEF INC, DEC
<1>2. \A v : Incremented(v) \in Byte /\ Decremented(v) \in Byte
  BY DEF Incremented, Decremented, Byte
<1>3. \/ Becomes(write_arg(Now, dst, Incremented(fetch_arg(Now, dst))))
      \/ Becomes(write_arg(Now, dst, Decremented(fetch_arg(Now, dst))))
  BY DEF INC, DEC
<1> QED
  BY <1>1, <1>2, <1>3, ImmediateStep

LEMMA LogicIn == ASSUME NEW a \in Byte, NEW b \in Byte, NEW v \in Logic(a, b) PROVE v \in Byte
BY DEF Logic, Byte

LEMMA LogicStep ==
  ASSUME TypeOK,
         \/ \E src \in Operand : LogicAcc(src)
         \/ \E dst \in Direct, data \in Byte : LogicDirect(dst, data)
  PROVE  \E n \in Mem : Becomes(n) /\ CellStep(Contents(Now), Contents(n))
<1>1. Now \in Mem /\ sfr[ACC] \in Byte
  BY NowIn, Layout DEF TypeOK
<1>2. ASSUME NEW src \in Operand, LogicAcc(src)
      PROVE  \E n \in Mem : Becomes(n) /\ CellStep(Contents(Now), Contents(n))
  <2>1. PICK v \in Logic(sfr[ACC], fetch_arg(Now, src)) : Becomes(WriteAcc(Now, v))
    BY <1>2 DEF LogicAcc
  <2>2. InUse(Now, src)
    BY <1>2 DEF LogicAcc
  <2>3. v \in Byte
    BY <1>1, <2>2, FetchIn, LogicIn
  <2> QED
    BY <1>1, <2>1, <2>3, AccStep
<1>3. ASSUME NEW dst \in Direct, NEW data \in Byte, LogicDirect(dst, data)
      PROVE  \E n \in Mem : Becomes(n) /\ CellStep(Contents(Now), Contents(n))
  <2>1. PICK v \in Logic(fetch_arg(Now, dst), data) : Becomes(write_arg(Now, dst, v))
    BY <1>3 DEF LogicDirect
  <2>2. dst \in Operand /\ InUse(Now, dst)
    BY DEF Operand, Internal, Direct, InUse
  <2>3. v \in Byte
    BY <1>1, <2>2, FetchIn, LogicIn
  <2> QED
    BY <1>1, <2>1, <2>2, <2>3, WriteStep
<1> QED
  BY <1>2, <1>3

Stacking == \E a \in IntRam, top \in Ram : PUSH(a, top) \/ POP(a, top)

LEMMA StackingStep ==
  ASSUME TypeOK, NEW a \in IntRam, NEW v \in Byte, Becomes(PutRam(Now, a, v))
  PROVE  /\ TypeOK' /\ int_ram' = [int_ram EXCEPT ![a] = v] /\ UNCHANGED <<sfr, ext_ram>>
         /\ Contents(Now)' = Abstract!Put(Contents(Now), <<"ram", a>>, v)
<1> DEFINE n == PutRam(Now, a, v)
<1>1. Now \in Mem /\ a \in RamAddr
  BY NowIn DEF RamAddr
<1>2. n \in Mem /\ Contents(n) = Abstract!Put(Contents(Now), <<"ram", a>>, v)
  BY <1>1, PutRamIn, EffectRam
<1>3. TypeOK' /\ Now' = n
  BY <1>2, BecomesIn
<1>4. Now.ram = int_ram /\ Now.sfr = sfr /\ Now.ext = ext_ram
  BY DEF Now
<1>5. n.ram = [int_ram EXCEPT ![a] = v] /\ n.sfr = sfr /\ n.ext = ext_ram
  BY <1>1, <1>4 DEF PutRam, Mem
<1>6. int_ram' = n.ram /\ sfr' = n.sfr /\ ext_ram' = n.ext
  BY DEF Becomes
<1> HIDE DEF n
<1> QED
  BY <1>2, <1>3, <1>5, <1>6, ContentsPrime

(* PUSH and POP: one byte of int_ram, one that no peripheral hides or the  *)
(* one popped to.                                                          *)
LEMMA StackingEffect ==
  ASSUME TypeOK, Stacking
  PROVE  \E a \in IntRam, v \in Byte :
           /\ TypeOK' /\ int_ram' = [int_ram EXCEPT ![a] = v] /\ UNCHANGED <<sfr, ext_ram>>
           /\ Contents(Now)' = Abstract!Put(Contents(Now), <<"ram", a>>, v)
           /\ a \in Ram \/ \E top \in Ram : POP(a, top)
<1>1. PICK a \in IntRam, top \in Ram : PUSH(a, top) \/ POP(a, top)
  BY DEF Stacking
<1>2. top \in IntRam /\ int_ram[a] \in Byte /\ int_ram[top] \in Byte
  BY DEF TypeOK, IntRam
<1>3. CASE PUSH(a, top)
  <2>1. Becomes(PutRam(Now, top, int_ram[a]))
    BY <1>3 DEF PUSH
  <2> QED
    BY <1>2, <2>1, StackingStep
<1>4. CASE POP(a, top)
  <2>1. Becomes(PutRam(Now, a, int_ram[top]))
    BY <1>4 DEF POP
  <2> QED
    BY <1>2, <1>4, <2>1, StackingStep
<1> QED
  BY <1>1, <1>3, <1>4

LEMMA ExecuteStep ==
  ASSUME TypeOK, Execute
  PROVE  \/ \E n \in Mem : Becomes(n) /\ CellStep(Contents(Now), Contents(n))
         \/ Stacking
<1> DEFINE Goal == \E n \in Mem : Becomes(n) /\ CellStep(Contents(Now), Contents(n))
<1>1. Now \in Mem /\ sfr[ACC] \in Byte /\ Stored \subseteq Byte
  BY NowIn, OwnSfrs, StoredIn DEF TypeOK
<1>2. ASSUME NEW p \in MovPairs, MOV(p[1], p[2]) PROVE Goal
  <2>1. p[1] \in Operand /\ p[2] \in Operand
    BY DEF MovPairs, Operand, Internal
  <2> QED
    BY <1>2, <2>1, MovStep
<1>3. ASSUME NEW dst \in Internal, NEW v \in Stored, MovData(dst, v) PROVE Goal
  BY <1>1, <1>3, ImmediateStep DEF MovData, Operand
<1>4. ASSUME NEW src \in Direct \cup Indirect \cup Register, LogicAcc(src) PROVE Goal
  <2>1. src \in Operand
    BY DEF Operand, Internal
  <2> QED
    BY <1>4, <2>1, LogicStep
<1>5. ASSUME NEW src \in Direct \cup Indirect \cup Register, XCH(src) PROVE Goal
  <2>1. src \in Internal /\ InUse(Now, src)
    BY <1>5 DEF Internal, XCH
  <2>2. Now.sfr = sfr
    BY DEF Now
  <2>3. Becomes(write_arg(WriteAcc(Now, fetch_arg(Now, src)), src, Now.sfr[ACC]))
    BY <1>5, <2>2 DEF XCH
  <2> QED
    BY <1>1, <2>1, <2>3, ExchangeStep
<1>6. ASSUME NEW dst \in Direct, NEW data \in Stored \cup {sfr[ACC]}, LogicDirect(dst, data)
      PROVE  Goal
  <2>1. data \in Byte
    BY <1>1
  <2> QED
    BY <1>6, <2>1, LogicStep
<1>7. ASSUME NEW src \in Indirect, XCHD(src) PROVE Goal
  <2>1. InUse(Now, src) /\ Now.sfr = sfr
    BY <1>7 DEF XCHD, Now
  <2>2. Becomes(write_arg(WriteAcc(Now, High(Now.sfr[ACC]) \cup Low(fetch_arg(Now, src))), src,
                          High(fetch_arg(Now, src)) \cup Low(Now.sfr[ACC])))
    BY <1>7, <2>1 DEF XCHD
  <2> QED
    BY <1>1, <2>1, <2>2, DigitStep
<1>8. ASSUME NEW b \in BitAddrs, NEW on \in BOOLEAN, Becomes(write_bit(Now, b, on)) PROVE Goal
  BY <1>1, <1>8, BitStep
<1>9. ASSUME NEW b \in BitAddrs, CLR(b) \/ SETB(b) \/ CPL(b) \/ JBC(b) \/ MovBit(b) PROVE Goal
  <2>1. fetch_bit(Now, b) \in BOOLEAN /\ Carry(Now) \in BOOLEAN
    BY DEF fetch_bit, Carry
  <2> QED
    BY <1>8, <1>9, <2>1, OwnBit DEF CLR, SETB, CPL, JBC, MovBit
<1>10. ASSUME NEW on \in BOOLEAN, Becomes(write_carry(Now, on)) PROVE Goal
  BY <1>1, <1>10, CarryStep
<1>11. ASSUME NEW b \in BitAddrs, CarryOf(b) PROVE Goal
  <2>1. fetch_bit(Now, b) \in BOOLEAN /\ Carry(Now) \in BOOLEAN
    BY DEF fetch_bit, Carry
  <2> QED
    BY <1>10, <1>11, <2>1 DEF CarryOf
<1>12. ASSUME CarryAlone PROVE Goal
  BY <1>10, <1>12 DEF CarryAlone
<1>13. ASSUME NEW dst \in Internal, INC(dst) \/ DEC(dst) PROVE Goal
  BY <1>13, CountStep DEF Operand
<1>14. ASSUME NEW op \in EXT, MOVX(op) PROVE Goal
  <2>1. op \in Operand /\ <<"ACC", ACC>> \in Operand
    BY DEF Operand, Internal, Accumulator
  <2> QED
    BY <1>14, <2>1, MovStep DEF MOVX
<1>15. ASSUME NEW v \in Stored, MOVC(v) PROVE Goal
  BY <1>1, <1>15, AccStep DEF MOVC
<1>16. ASSUME NEW u \in Byte, NEW v \in Byte, Becomes(write_dptr(Now, u, v)) PROVE Goal
  BY <1>1, <1>16, PointerStep
<1>17. ASSUME NEW u \in Stored, NEW v \in Stored, MOV_DPTR(u, v) PROVE Goal
  BY <1>1, <1>16, <1>17 DEF MOV_DPTR
<1>18. ASSUME INC_DPTR PROVE Goal
  <2> DEFINE u == IF sfr[DPL] = Bit THEN Incremented(sfr[DPH]) ELSE sfr[DPH]
             v == Incremented(sfr[DPL])
  <2>1. \A w : Incremented(w) \in Byte
    BY DEF Incremented, Byte
  <2>2. sfr[DPH] \in Byte
    BY Layout DEF TypeOK
  <2>3. u \in Byte /\ v \in Byte
    BY <2>1, <2>2
  <2>4. Becomes(write_dptr(Now, u, v))
    BY <1>18 DEF INC_DPTR
  <2> HIDE DEF u, v
  <2> QED
    BY <1>16, <2>3, <2>4
<1> QED
  BY <1>2, <1>3, <1>4, <1>5, <1>6, <1>7, <1>9, <1>11, <1>12, <1>13, <1>14, <1>15, <1>17, <1>18
     DEF Execute, Stacking

(* A step of the system is one on the cells, a reset, or the host          *)
(* registering its callback.                                               *)
LEMMA Steps ==
  ASSUME TypeOK, Next
  PROVE  \/ \E n \in Mem : Becomes(n) /\ CellStep(Contents(Now), Contents(n))
         \/ Stacking
         \/ reset_cpu
         \/ TypeOK' /\ UNCHANGED memory
<1>1. CASE Execute
  BY <1>1, ExecuteStep
<1>2. ASSUME NEW a \in Ram \cup Standard \cup Extra, NEW v \in Stored, set_iram_byte(a, v)
      PROVE  \E n \in Mem : Becomes(n) /\ CellStep(Contents(Now), Contents(n))
  <2>1. <<"DIR", a>> \in Operand /\ InUse(Now, <<"DIR", a>>) /\ v \in Byte
    BY StoredIn DEF Operand, Internal, Direct, InUse
  <2> QED
    BY <1>2, <2>1, ImmediateStep DEF set_iram_byte
<1>3. ASSUME NEW a \in External, NEW v \in Stored, set_ext_ram_byte(a, v)
      PROVE  \E n \in Mem : Becomes(n) /\ CellStep(Contents(Now), Contents(n))
  <2>1. Now \in Mem /\ v \in Byte
    BY NowIn, StoredIn
  <2> QED
    BY <1>3, <2>1, ExtStep DEF set_ext_ram_byte
<1>4. ASSUME NEW on \in BOOLEAN, \/ register_sfr_callback(on) \/ all_sfr_callback(on)
                                 \/ register_ext_mem_callback(on)
      PROVE  TypeOK' /\ UNCHANGED memory
  BY <1>4 DEF register_sfr_callback, all_sfr_callback, register_ext_mem_callback, memory, TypeOK
<1> QED
  BY <1>1, <1>2, <1>3, <1>4 DEF Next, Host

LEMMA ResetEffect ==
  ASSUME TypeOK, reset_cpu
  PROVE  TypeOK' /\ Abstract!Reset
<1>1. Now \in Mem
  BY NowIn
<1>2. TypeOK'
  <2>1. [a \in IntRam |-> {}] \in [IntRam -> Byte]
        /\ [a \in Standard |-> {}] \in [Standard -> Byte]
    BY NoBits
  <2> QED
    BY <2>1, ClearedFields DEF TypeOK, reset_cpu, callback
<1> DEFINE c == Contents(Now)
           f == [x \in Cell |-> IF x \in Cell \ Outside THEN {} ELSE c[x]]
<1>3. f \in [Cell -> Byte]
  BY <1>1, ContentsIn, NoBits
<1>4. \A x \in Cell : f[x] = IF x \in Cell \ Outside THEN {} ELSE c[x]
  OBVIOUS
<1> DEFINE n == [ram |-> int_ram', sfr |-> sfr', r |-> r', ext |-> ext_ram',
                 device |-> device', ext_device |-> ext_device']
<1>5. n \in Mem
  BY <1>2 DEF TypeOK, Mem, RamAddr, IntRam
<1>6. n.ram = [a \in IntRam |-> {}] /\ n.sfr = [a \in Standard |-> {}]
      /\ n.ext = ext_ram /\ n.device = device /\ n.ext_device = ext_device
  BY ClearedFields DEF reset_cpu
<1>7. Now' = n
  BY DEF Now
<1> HIDE DEF n, f
<1>8. \A a \in RamAddr : n.ram[a] = f[<<"ram", a>>]
  BY <1>4, <1>6, CellsOf DEF RamAddr, IntRam, Outside
<1>9. \A a \in Standard : n.sfr[a] = f[<<"sfr", a>>]
  BY <1>4, <1>6, CellsOf DEF Outside
<1>10. \A a \in External : n.ext[a] = f[<<"ext", a>>]
  <2>1. \A a \in External : c[<<"ext", a>>] = ext_ram[a] /\ <<"ext", a>> \in Outside
    BY ContentsExt DEF Now, Outside
  <2> QED
    BY <1>4, <1>6, <2>1, CellsOf
<1>11. n.device = f[<<"device", 0>>] /\ n.ext_device = f[<<"device", 1>>]
  <2>1. /\ c[<<"device", 0>>] = device /\ <<"device", 0>> \in Outside
        /\ c[<<"device", 1>>] = ext_device /\ <<"device", 1>> \in Outside
    BY ContentsDevice DEF Now, Outside
  <2> QED
    BY <1>4, <1>6, <2>1, CellsOf
<1>12. Contents(n) = f
  BY <1>3, <1>5, <1>8, <1>9, <1>10, <1>11, SameContents
<1>13. Contents(Now)' = f
  BY <1>7, <1>12, ContentsPrime
<1> QED
  BY <1>2, <1>13 DEF Abstract!Reset, f

LEMMA Stutters == ASSUME UNCHANGED memory
                  PROVE  Contents(Now)' = Contents(Now)
<1>1. Now' = Now
  BY DEF Now, memory
<1> QED
  BY <1>1, ContentsPrime
-----------------------------------------------------------------------------
LEMMA NextTypeOK == ASSUME TypeOK, [Next]_vars PROVE TypeOK'
<1>1. CASE Next
  <2>1. CASE \E n \in Mem : Becomes(n) /\ CellStep(Contents(Now), Contents(n))
    BY <2>1, BecomesIn
  <2>2. CASE reset_cpu
    BY <2>2, ResetEffect
  <2>3. CASE Stacking
    BY <2>3, StackingEffect
  <2> QED
    BY <1>1, <2>1, <2>2, <2>3, Steps
<1>2. CASE UNCHANGED vars
  BY <1>2 DEF vars, memory, callback, TypeOK
<1> QED
  BY <1>1, <1>2

(* Every access of every instruction stays within the memories, the        *)
(* registers included: the window lies over 0 to 14 whatever is written to *)
(* PSW.                                                                    *)
THEOREM TypeCorrect == Spec => []TypeOK
<1>1. Init => TypeOK
  BY Initially
<1>2. TypeOK /\ [Next]_vars => TypeOK'
  BY NextTypeOK
<1> QED
  BY <1>1, <1>2, PTL DEF Spec

(* In every reachable state, each operand in use names one cell, the same  *)
(* for fetch_arg() and write_arg().                                        *)
THEOREM OperandsAgree == Spec => []OperandsNameCells
<1>1. ASSUME TypeOK PROVE OperandsNameCells
  <2>1. SUFFICES ASSUME NEW op \in Operand, NEW v \in Stored, InUse(Now, op)
                 PROVE  NamesCell(Now, op, v)
    BY DEF OperandsNameCells
  <2>2. Now \in Mem /\ v \in Byte
    BY <1>1, NowIn, StoredIn
  <2>3. CASE Idle(Now, op, v)
    BY <2>3 DEF Idle, NamesCell
  <2>4. ASSUME NEW x \in Cell, ActsOn(Now, op, v, x) PROVE NamesCell(Now, op, v)
    <3>1. Named(Now, op) = {x}
      BY <2>4 DEF ActsOn
    <3>2. fetch_arg(Now, op) = Contents(Now)[x]
          /\ Contents(write_arg(Now, op, v)) = Abstract!Put(Contents(Now), x, v)
      BY <2>4 DEF ActsOn
    <3> QED
      BY <3>1, <3>2 DEF NamesCell
  <2> QED
    BY <2>1, <2>2, <2>3, <2>4, Argument
<1> QED
  BY <1>1, TypeCorrect, PTL

LEMMA CellSimulation == ASSUME TypeOK, [Next]_vars PROVE [Abstract!Next]_(Contents(Now))
<1>1. ASSUME NEW n \in Mem, Becomes(n), CellStep(Contents(Now), Contents(n))
      PROVE  [Abstract!Next]_(Contents(Now))
  <2>1. Contents(Now)' = Contents(n)
    BY <1>1, BecomesIn, ContentsPrime
  <2> DEFINE c == Contents(Now)
  <2>2. CellStep(c, c')
    BY <1>1, <2>1
  <2> QED
    BY <2>2 DEF CellStep, Abstract!Next, Abstract!Write, Abstract!Exchange,
       Abstract!ExchangeDigit, Abstract!WritePointer, Low8, High8
<1>2. CASE reset_cpu
  BY <1>2, ResetEffect DEF Abstract!Next
<1>3. CASE UNCHANGED memory
  BY <1>3, Stutters
<1>4. CASE UNCHANGED vars
  BY <1>4, Stutters DEF vars
<1>5. CASE Stacking
  <2>1. PICK a \in IntRam, v \in Byte :
          Contents(Now)' = Abstract!Put(Contents(Now), <<"ram", a>>, v)
    BY <1>5, StackingEffect
  <2> DEFINE x == <<"ram", a>>
             c == Contents(Now)
  <2>2. x \in Cell /\ c \in [Cell -> Byte]
    BY CellsOf, NowIn, ContentsIn DEF RamAddr
  <2>3. Abstract!Put(c, x, v)[x] = v
    BY <2>2, PutIn
  <2>4. c' = Abstract!Put(c, x, c'[x])
    BY <2>1, <2>3
  <2> HIDE DEF c
  <2>5. Abstract!Write(x)
    BY <2>4 DEF Abstract!Write, c
  <2> QED
    BY <2>2, <2>5 DEF Abstract!Next
<1> QED
  BY <1>1, <1>2, <1>3, <1>4, <1>5, Steps

(* Whatever the addressing modes, the register window and the host's       *)
(* callback, each step writes one cell, or exchanges one with the          *)
(* accumulator, or resets.                                                 *)
THEOREM CellsRefinement == Spec => ImplementsCells
<1>1. ASSUME Init PROVE Abstract!Init
  <2>1. Abstract!Byte = Byte
    BY DEF Byte, Bit, Abstract!Byte, Abstract!Bit
  <2>2. Contents(Now) \in [Cell -> Byte]
    BY <1>1, Initially, NowIn, ContentsIn
  <2> QED
    BY <2>1, <2>2 DEF Abstract!Init
<1>2. TypeOK /\ [Next]_vars => [Abstract!Next]_(Contents(Now))
  BY CellSimulation
<1> QED
  BY <1>1, <1>2, TypeCorrect, PTL DEF Spec, ImplementsCells, Abstract!Spec

LEMMA HiddenKept ==
  ASSUME TypeOK, NEW h \in Hidden, [Next]_vars, ~reset_cpu, ~Stacking
  PROVE  Contents(Now)'[h] = Contents(Now)[h]
<1>1. ASSUME NEW n \in Mem, Becomes(n), CellStep(Contents(Now), Contents(n))
      PROVE  Contents(Now)'[h] = Contents(Now)[h]
  <2>1. Contents(n)[h] = Contents(Now)[h]
    BY <1>1, NowIn, ContentsIn, StepKeepsHidden
  <2> QED
    BY <1>1, <2>1, BecomesIn, ContentsPrime
<1>2. CASE UNCHANGED memory
  BY <1>2, Stutters
<1>3. CASE UNCHANGED vars
  BY <1>3, Stutters DEF vars
<1> QED
  BY <1>1, <1>2, <1>3, Steps

Kept(a) == IF a \in Standard THEN sfr'[a] = sfr[a]
           ELSE int_ram'[a] = int_ram[a] \/ \E top \in Ram : POP(a, top)

LEMMA SfrHiddenKept ==
  ASSUME TypeOK, [Next]_vars, ~reset_cpu, NEW a \in Devices \ Implicit, Handled(a)
  PROVE  Kept(a)
<1>1. CASE Stacking
  <2>1. PICK b \in IntRam, v \in Byte :
          /\ int_ram' = [int_ram EXCEPT ![b] = v] /\ sfr' = sfr
          /\ b \in Ram \/ \E top \in Ram : POP(b, top)
    BY <1>1, StackingEffect
  <2>2. a \notin Ram /\ a \in IntRam
    BY RamBelow, Layout DEF IntRam
  <2>3. CASE b = a
    BY <2>1, <2>2, <2>3 DEF Kept
  <2>4. CASE b # a
    BY <2>1, <2>2, <2>4 DEF Kept, TypeOK
  <2> QED
    BY <2>3, <2>4
<1>2. CASE ~Stacking
  <2> DEFINE h == IF a \in Standard THEN <<"sfr", a>> ELSE <<"ram", a>>
  <2>1. h \in Hidden
    BY Layout, CellsOf DEF Hidden, RamAddr, IntRam
  <2>2. Contents(Now)'[h] = Contents(Now)[h]
    BY <1>2, <2>1, HiddenKept
  <2>3. Contents(Now')[h] = Contents(Now)[h]
    BY <2>2, ContentsPrime
  <2>4. Now.sfr = sfr /\ Now.ram = int_ram /\ Now'.sfr = sfr' /\ Now'.ram = int_ram'
    BY DEF Now
  <2>5. CASE a \in Standard
    BY <2>3, <2>4, <2>5, ContentsSfr DEF Kept
  <2>6. CASE a \notin Standard
    <3>1. a \in RamAddr
      BY <2>6, Layout DEF RamAddr, IntRam
    <3> QED
      BY <2>3, <2>4, <2>6, <3>1, ContentsRam DEF Kept
  <2> QED
    BY <2>5, <2>6
<1> QED
  BY <1>1, <1>2

LEMMA ExtHiddenKept ==
  ASSUME TypeOK, TypeOK', [Next]_vars, ext_registered
  PROVE  ext_ram' = ext_ram
<1>1. CASE reset_cpu
  BY <1>1 DEF reset_cpu
<1>2. CASE Stacking
  BY <1>2, StackingEffect
<1>3. CASE ~reset_cpu /\ ~Stacking
  <2>1. ASSUME NEW a \in External PROVE ext_ram'[a] = ext_ram[a]
    <3>1. <<"ext", a>> \in Hidden
      BY CellsOf DEF Hidden
    <3>2. Contents(Now')[<<"ext", a>>] = Contents(Now)[<<"ext", a>>]
      BY <1>3, <3>1, HiddenKept, ContentsPrime
    <3>3. Now.ext = ext_ram /\ Now'.ext = ext_ram'
      BY DEF Now
    <3> QED
      BY <3>2, <3>3, ContentsExt
  <2>2. ext_ram \in [External -> Byte] /\ ext_ram' \in [External -> Byte]
    BY DEF TypeOK
  <2> QED
    BY <2>1, <2>2
<1> QED
  BY <1>1, <1>2, <1>3

(* What the simulator keeps for an address is out of reach while the       *)
(* peripheral answers for it: all SFRs but those instructions use without  *)
(* asking it, and the other addresses but for a POP to them.               *)
THEOREM PeripheralHides == Spec => HandledStaysOutside
<1>1. TypeOK /\ [Next]_vars =>
        [/\ ext_registered /\ ext_registered' => ext_ram' = ext_ram
         /\ ~reset_cpu =>
              \A a \in Devices \ Implicit : Handled(a) /\ Handled(a)' =>
                IF a \in Standard THEN sfr'[a] = sfr[a]
                ELSE int_ram'[a] = int_ram[a] \/ \E top \in Ram : POP(a, top)]_vars
  BY SfrHiddenKept, ExtHiddenKept, NextTypeOK DEF Kept
<1> QED
  BY <1>1, TypeCorrect, PTL DEF Spec, HandledStaysOutside
=============================================================================

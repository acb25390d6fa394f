------------------------------- MODULE Memory -------------------------------
(***************************************************************************)
(* The data memories: fetch_arg() and write_arg() with their addressing    *)
(* modes, fetch_sfr() and set_sfr() with the SFR callback of the host, the *)
(* window of registers R0 to R7 over the RAM, the external memory or the   *)
(* callback in its place, and the instructions that move bytes and bits,   *)
(* exchange, combine or count them.                                        *)
(***************************************************************************)
EXTENDS Defs8051, FiniteSets

CONSTANTS
  Ram,       \* addresses of int_ram in use below SFR_START
  Standard,  \* SFRs in use that have a variable of their own
  Extra,     \* other addresses in use from SFR_START on: int_ram, if no device
  Devices,   \* SFR addresses the host's callback processes
  External,  \* addresses of ext_ram in use
  Registers, \* which of R0 to R7 programs use
  BitAddrs,  \* bit addresses programs use
  Stored,    \* immediate bytes
  BIT_RAM_START

SFR_START == 128
MAXEXTRAM == 65536
SP == 129
DPL == 130
DPH == 131
PSW == 208
ACC == 224
B == 240
PSW_CY == 7
PSW_RS1 == 4
PSW_RS0 == 3
PSW_P == 0

ASSUME LayoutAssumption ==
  /\ Ram \subseteq 0 .. SFR_START - 1
  /\ Standard \cup Extra \subseteq SFR_START .. 255 /\ Standard \cap Extra = {}
  /\ Devices \subseteq Standard \cup Extra
  /\ External \subseteq 0 .. MAXEXTRAM - 1
  /\ Registers \subseteq 0 .. 7
  /\ Stored \subseteq Byte

ASSUME OwnSfrAssumption == {DPL, DPH, ACC, PSW} \subseteq Standard

(* int_ram has a byte behind each standard SFR, too: for PUSH and POP only. *)
IntRam == Ram \cup Standard \cup Extra

ASSUME BitAssumption ==
  /\ BitAddrs \subseteq 0 .. 255
  /\ \A b \in BitAddrs : IF b < SFR_START THEN BIT_RAM_START + (b \div 8) \in Ram
                         ELSE b - (b % 8) \in Standard \cup Extra

VARIABLES
  int_ram,
  sfr,         \* acc, psw, p1, ...: the standard SFRs, by address; dptr as two
  r,           \* the index in int_ram the register pointer is at
  ext_ram,
  device,      \* the host's: what the peripheral behind pSfrCallback holds
  ext_device,  \* the host's: what the one behind pExtCallback holds
  registered,  \* pSfrCallback # NULL
  ext_registered, \* pExtCallback # NULL
  always_call_sfr_cb

callback == <<registered, ext_registered, always_call_sfr_cb>>
memory == <<int_ram, sfr, r, ext_ram, device, ext_device>>
vars == <<memory, callback>>

(* What an instruction works on; its writes come one after the other. *)
Now == [ram |-> int_ram, sfr |-> sfr, r |-> r, ext |-> ext_ram,
        device |-> device, ext_device |-> ext_device]

Cleared == [ram |-> [a \in IntRam |-> {}], sfr |-> [a \in Standard |-> {}], r |-> 0]

Init == /\ int_ram = Cleared.ram /\ sfr = Cleared.sfr /\ r = Cleared.r
        /\ ext_ram = [a \in External |-> {}]
        /\ device = {} /\ ext_device = {}
        /\ registered = FALSE /\ ext_registered = FALSE /\ always_call_sfr_cb = FALSE
-----------------------------------------------------------------------------
WithBit(byte, i, on) == IF on THEN byte \cup {i} ELSE byte \ {i}
odd_parity8(byte) == Cardinality(byte) % 2 = 1

(* The window is placed by psw & (PSW_RS0 | PSW_RS1): the positions 3 and  *)
(* 4 make the mask 7, of the bits 0 to 2.                                  *)
BankMask == 0 .. 2
WindowUnmasked(psw) == Number[psw]
Window(psw) == Number[psw \cap BankMask]

(* The host's peripheral answers; other addresses a callback passes on to  *)
(* int_ram, or leaves to be processed internally.                          *)
Handled(a) == registered /\ a \in Devices /\ (always_call_sfr_cb \/ a \notin Standard)

fetch_sfr(m, a) == CASE Handled(a) -> m.device
                     [] ~Handled(a) /\ a \in Standard -> m.sfr[a]
                     [] ~Handled(a) /\ a \notin Standard -> m.ram[a]

PutRam(m, a, v) == [m EXCEPT !.ram = [m.ram EXCEPT ![a] = v]]
PutSfr(m, a, v) == [m EXCEPT !.sfr = [m.sfr EXCEPT ![a] = v]]
PutExt(m, a, v) == IF ext_registered THEN [m EXCEPT !.ext_device = v]
                   ELSE [m EXCEPT !.ext = [m.ext EXCEPT ![a] = v]]
fetch_ext(m, a) == IF ext_registered THEN m.ext_device ELSE m.ext[a]

WriteAcc(m, v) ==
  PutSfr(PutSfr(m, ACC, v), PSW, WithBit(m.sfr[PSW], PSW_P, odd_parity8(v)))

set_internal(m, a, v) ==
  CASE a = PSW -> [PutSfr(m, PSW, v) EXCEPT !.r = Window(v)]
    [] a = ACC -> WriteAcc(m, v)
    [] a \in Standard \ {PSW, ACC} -> PutSfr(m, a, v)
    [] a \notin Standard -> PutRam(m, a, v)

set_sfr_falling_through(m, a, v) ==
  IF Handled(a) THEN set_internal([m EXCEPT !.device = v], a, v) ELSE set_internal(m, a, v)
set_sfr(m, a, v) ==
  IF Handled(a) THEN [m EXCEPT !.device = v] ELSE set_internal(m, a, v)
-----------------------------------------------------------------------------
(* An operand is an addressing mode and the address or register it names.  *)
Direct == {"DIR"} \X (Ram \cup Standard \cup Extra)
Register == {"REG"} \X Registers
Indirect == {"IND"} \X (Registers \cap {0, 1})
Accumulator == {<<"ACC", ACC>>}
Internal == Direct \cup Register \cup Indirect \cup Accumulator
EXT == {<<"EXT", DPL>>} \cup ({"EXT"} \X (Registers \cap {0, 1}))
Operand == Internal \cup EXT

Pointer(m, n) == Number[m.ram[m.r + n]]
dptr(m) == Number[m.sfr[DPL]] + 256 * Number[m.sfr[DPH]]
ExtAddress(m, n) == IF n = DPL THEN dptr(m) ELSE Pointer(m, n)

(* Programs keep their registers and pointers to the memory in use. *)
InUse(m, op) == /\ op[1] \in {"REG", "IND"} => m.r + op[2] \in Ram
                /\ op[1] = "IND" => Pointer(m, op[2]) \in Ram \cup SFR_START .. 255
                /\ op[1] = "EXT" => /\ op[2] # DPL => m.r + op[2] \in Ram
                                   /\ ExtAddress(m, op[2]) \in External

(* Indirect addressing reaches no SFR: it reads 0 there. *)
fetch_arg(m, op) ==
  CASE op[1] = "DIR" -> IF op[2] < SFR_START THEN m.ram[op[2]] ELSE fetch_sfr(m, op[2])
    [] op[1] = "REG" -> m.ram[m.r + op[2]]
    [] op[1] = "IND" -> LET p == Pointer(m, op[2])
                        IN IF p < SFR_START THEN m.ram[p] ELSE {}
    [] op[1] = "ACC" -> m.sfr[ACC]
    [] op[1] = "EXT" -> fetch_ext(m, ExtAddress(m, op[2]))

write_arg_bank0(m, op, v) ==
  CASE op[1] = "DIR" -> IF op[2] < SFR_START THEN PutRam(m, op[2], v)
                        ELSE set_sfr(m, op[2], v)
    [] op[1] = "REG" -> PutRam(m, op[2], v)
    [] op[1] = "IND" -> LET p == Pointer(m, op[2])
                        IN IF p < SFR_START THEN PutRam(m, p, v) ELSE m
    [] op[1] = "ACC" -> WriteAcc(m, v)
    [] op[1] = "EXT" -> PutExt(m, ExtAddress(m, op[2]), v)

write_arg(m, op, v) ==
  CASE op[1] = "DIR" -> IF op[2] < SFR_START THEN PutRam(m, op[2], v)
                        ELSE set_sfr(m, op[2], v)
    [] op[1] = "REG" -> PutRam(m, m.r + op[2], v)
    [] op[1] = "IND" -> LET p == Pointer(m, op[2])
                        IN IF p < SFR_START THEN PutRam(m, p, v) ELSE m
    [] op[1] = "ACC" -> WriteAcc(m, v)
    [] op[1] = "EXT" -> PutExt(m, ExtAddress(m, op[2]), v)

(* The bit addresses below SFR_START lie in the RAM from BIT_RAM_START on, *)
(* the others in the SFRs whose addresses are multiples of 8.              *)
ByteOfBit(b) == IF b < SFR_START THEN <<"DIR", BIT_RAM_START + (b \div 8)>>
                ELSE <<"DIR", b - (b % 8)>>
fetch_bit(m, b) == b % 8 \in fetch_arg(m, ByteOfBit(b))
write_bit(m, b, on) ==
  write_arg(m, ByteOfBit(b), WithBit(fetch_arg(m, ByteOfBit(b)), b % 8, on))

Carry(m) == PSW_CY \in m.sfr[PSW]
write_carry(m, on) == PutSfr(m, PSW, WithBit(m.sfr[PSW], PSW_CY, on))
-----------------------------------------------------------------------------
(* Instructions. *)
Becomes(m) == /\ int_ram' = m.ram /\ sfr' = m.sfr /\ r' = m.r /\ ext_ram' = m.ext
              /\ device' = m.device /\ ext_device' = m.ext_device
              /\ UNCHANGED callback

(* The operands DECODE_TABLE gives MOV; the immediate ones are in MovData. *)
MovPairs == (Accumulator \X (Direct \cup Indirect \cup Register))
              \cup (Direct \X Internal)
              \cup ((Indirect \cup Register) \X (Accumulator \cup Direct))

MOV(dst, src) == /\ InUse(Now, dst) /\ InUse(Now, src)
                 /\ Becomes(write_arg(Now, dst, fetch_arg(Now, src)))

(* Between the accumulator and the external memory. *)
MOVX(op) == MOV(op, <<"ACC", ACC>>) \/ MOV(<<"ACC", ACC>>, op)

(* A byte of code memory; the code is not in this module. *)
MOVC(code) == Becomes(WriteAcc(Now, code))

MovData(dst, v) == InUse(Now, dst) /\ Becomes(write_arg(Now, dst, v))

(* ANL, ORL and XRL: of op1 and v. *)
Logic(op1, v) == {op1 \cap v, op1 \cup v, (op1 \ v) \cup (v \ op1)}

LogicAcc(src) == /\ InUse(Now, src)
                 /\ \E v \in Logic(sfr[ACC], fetch_arg(Now, src)) : Becomes(WriteAcc(Now, v))

LogicDirect(dst, data) ==
  \E v \in Logic(fetch_arg(Now, dst), data) : Becomes(write_arg(Now, dst, v))

XCH_lost(src) ==
  /\ InUse(Now, src)
  /\ LET m == WriteAcc(Now, fetch_arg(Now, src))
     IN Becomes(write_arg(m, src, fetch_arg(m, <<"ACC", ACC>>)))

XCH(src) ==
  /\ InUse(Now, src)
  /\ Becomes(write_arg(WriteAcc(Now, fetch_arg(Now, src)), src, sfr[ACC]))

Low(byte) == byte \cap 0 .. 3
High(byte) == byte \cap 4 .. 7
XCHD(src) ==
  /\ InUse(Now, src)
  /\ LET op1 == sfr[ACC]
         op2 == fetch_arg(Now, src)
     IN Becomes(write_arg(WriteAcc(Now, High(op1) \cup Low(op2)), src,
                          High(op2) \cup Low(op1)))

(* A bit changes when all the bits below carry into it, or borrow from it. *)
Incremented(v) == {i \in Bit : (i \in v) # (0 .. i - 1 \subseteq v)}
Decremented(v) == {i \in Bit : (i \in v) # ((0 .. i - 1) \cap v = {})}

INC(dst) == /\ InUse(Now, dst)
            /\ Becomes(write_arg(Now, dst, Incremented(fetch_arg(Now, dst))))

(* Of the data pointer: in 16 bits. *)
write_dptr(m, high, low) == PutSfr(PutSfr(m, DPL, low), DPH, high)

MOV_DPTR(high, low) == Becomes(write_dptr(Now, high, low))

INC_DPTR == Becomes(write_dptr(Now,
              IF sfr[DPL] = Bit THEN Incremented(sfr[DPH]) ELSE sfr[DPH],
              Incremented(sfr[DPL])))

(* DJNZ, too: where it goes is not in this module. *)
DEC(dst) == /\ InUse(Now, dst)
            /\ Becomes(write_arg(Now, dst, Decremented(fetch_arg(Now, dst))))

(* PUSH and POP access int_ram itself, at SFR addresses, too, past the      *)
(* SFRs and the callback.  Programs keep the stack in the RAM; where it is  *)
(* is not in this module.                                                   *)
PUSH(a, top) == Becomes(PutRam(Now, top, int_ram[a]))
POP(a, top) == Becomes(PutRam(Now, a, int_ram[top]))

(* CLR and SETB have code of their own for this. *)
OwnWriteBit(m, b, on) ==
  LET ram == BIT_RAM_START + (b \div 8)
      offset == b - (b % 8)
  IN IF b < SFR_START THEN PutRam(m, ram, WithBit(m.ram[ram], b % 8, on))
     ELSE set_sfr(m, offset, WithBit(fetch_sfr(m, offset), b % 8, on))

CLR(b) == Becomes(OwnWriteBit(Now, b, FALSE))
SETB(b) == Becomes(OwnWriteBit(Now, b, TRUE))
CPL(b) == Becomes(write_bit(Now, b, ~fetch_bit(Now, b)))
JBC(b) == Becomes(write_bit(Now, b, FALSE))
MovBit(b) == Becomes(write_bit(Now, b, Carry(Now)))

(* MOV, ANL and ORL to C of a bit; CLR, SETB and CPL of C. *)
CarryOf(b) == LET bit == fetch_bit(Now, b)
              IN \E on \in {bit, Carry(Now) /\ bit, Carry(Now) /\ ~bit,
                            Carry(Now) \/ bit, Carry(Now) \/ ~bit} :
                   Becomes(write_carry(Now, on))
CarryAlone == \E on \in BOOLEAN : Becomes(write_carry(Now, on))

Execute ==
  \/ \E p \in MovPairs : MOV(p[1], p[2])
  \/ \E op \in EXT : MOVX(op)
  \/ \E v \in Stored : MOVC(v) \/ \E high \in Stored : MOV_DPTR(high, v)
  \/ \E dst \in Internal, v \in Stored : MovData(dst, v)
  \/ \E src \in Direct \cup Indirect \cup Register : LogicAcc(src) \/ XCH(src)
  \/ \E dst \in Direct : \E data \in Stored \cup {sfr[ACC]} : LogicDirect(dst, data)
  \/ \E src \in Indirect : XCHD(src)
  \/ \E dst \in Internal : INC(dst) \/ DEC(dst)
  \/ INC_DPTR
  \/ \E a \in IntRam, top \in Ram : PUSH(a, top) \/ POP(a, top)
  \/ \E b \in BitAddrs : CLR(b) \/ SETB(b) \/ CPL(b) \/ JBC(b) \/ MovBit(b) \/ CarryOf(b)
  \/ CarryAlone
-----------------------------------------------------------------------------
(* The host, between runs or inside its callbacks. *)
set_iram_byte(a, v) == Becomes(write_arg(Now, <<"DIR", a>>, v))

set_ext_ram_byte(a, v) == Becomes(PutExt(Now, a, v))

register_sfr_callback(present) ==
  registered' = present /\ UNCHANGED <<memory, ext_registered, always_call_sfr_cb>>

register_ext_mem_callback(present) ==
  ext_registered' = present /\ UNCHANGED <<memory, registered, always_call_sfr_cb>>

all_sfr_callback(on) ==
  always_call_sfr_cb' = on /\ UNCHANGED <<memory, registered, ext_registered>>

(* The next run: the external memory, the callbacks and their mode stay. *)
reset_cpu == /\ int_ram' = Cleared.ram /\ sfr' = Cleared.sfr /\ r' = Cleared.r
             /\ UNCHANGED <<ext_ram, device, ext_device, callback>>

Host == \/ \E a \in Ram \cup Standard \cup Extra, v \in Stored : set_iram_byte(a, v)
        \/ \E a \in External, v \in Stored : set_ext_ram_byte(a, v)
        \/ \E on \in BOOLEAN : \/ register_sfr_callback(on) \/ all_sfr_callback(on)
                               \/ register_ext_mem_callback(on)
        \/ reset_cpu

Next == Execute \/ Host

Spec == Init /\ [][Next]_vars
-----------------------------------------------------------------------------
(* The memories hold bytes; the window lies over the first of the RAM. *)
TypeOK == /\ int_ram \in [IntRam -> Byte]
          /\ sfr \in [Standard -> Byte]
          /\ r \in 0 .. 7
          /\ ext_ram \in [External -> Byte]
          /\ device \in Byte /\ ext_device \in Byte
          /\ registered \in BOOLEAN /\ ext_registered \in BOOLEAN
          /\ always_call_sfr_cb \in BOOLEAN

(* Where each byte is, once the addressing modes are resolved. *)
Outside == ({"ext"} \X External) \cup {<<"device", 0>>, <<"device", 1>>}
Cell == ({"ram"} \X IntRam) \cup ({"sfr"} \X Standard) \cup Outside
Acc == <<"sfr", ACC>>

Contents(m) == [x \in Cell |-> CASE x[1] = "ram" -> m.ram[x[2]]
                                 [] x[1] = "sfr" -> m.sfr[x[2]]
                                 [] x[1] = "ext" -> m.ext[x[2]]
                                 [] x = <<"device", 0>> -> m.device
                                 [] x = <<"device", 1>> -> m.ext_device]

Abstract == INSTANCE Cells WITH
              contents <- Contents(Now), Psw <- <<"sfr", PSW>>,
              Low8 <- <<"sfr", DPL>>, High8 <- <<"sfr", DPH>>,
              Cleared <- Cell \ Outside, OddParity <- odd_parity8

(* Every instruction of this module, with all its fetches and writes,      *)
(* changes one cell, or the data pointer, or exchanges one with the        *)
(* accumulator, and no aliasing of SFR, register, bit, direct and external *)
(* addresses makes it lose another byte.                                   *)
ImplementsCells == Abstract!Spec

(* The cell an operand names is the same for a read and a write, in each   *)
(* of these modes and however the host switches its callback: what is written there  *)
(* is all that changes, and what is read is what was written last.         *)
AddressCell(a) == CASE Handled(a) -> <<"device", 0>>
                    [] ~Handled(a) /\ a \in Standard -> <<"sfr", a>>
                    [] ~Handled(a) /\ a \notin Standard -> <<"ram", a>>
Named(m, op) == CASE op[1] = "DIR" -> {AddressCell(op[2])}
                  [] op[1] = "ACC" -> {Acc}
                  [] op[1] = "REG" -> {<<"ram", m.r + op[2]>>}
                  [] op[1] = "IND" -> {<<"ram", Pointer(m, op[2])>>} \cap ({"ram"} \X Ram)
                  [] op[1] = "EXT" -> {IF ext_registered THEN <<"device", 1>>
                                       ELSE <<"ext", ExtAddress(m, op[2])>>}

NamesCell(m, op, v) ==
  IF Named(m, op) = {}
  THEN fetch_arg(m, op) = {} /\ write_arg(m, op, v) = m
  ELSE \E x \in Named(m, op) :
         /\ fetch_arg(m, op) = Contents(m)[x]
         /\ Contents(write_arg(m, op, v)) = Abstract!Put(Contents(m), x, v)

OperandsNameCells ==
  \A op \in Operand, v \in Stored : InUse(Now, op) => NamesCell(Now, op, v)

(* The registers instructions use without asking the callback: calls and   *)
(* interrupts SP, MUL and DIV B, and so on.                                *)
Implicit == {SP, DPL, DPH, PSW, ACC, B}

(* While a peripheral answers for an address, what the simulator itself    *)
(* keeps there is out of the way of programs and the host: a standard SFR  *)
(* outside Implicit is what it was when the peripheral took over, until a  *)
(* reset; so is the byte of int_ram at another address, save for a POP to  *)
(* that address, which does not ask the peripheral; and so is all external *)
(* memory, across resets, too.                                             *)
HandledStaysOutside ==
  [][/\ ext_registered /\ ext_registered' => ext_ram' = ext_ram
     /\ ~reset_cpu =>
          \A a \in Devices \ Implicit : Handled(a) /\ Handled(a)' =>
            IF a \in Standard THEN sfr'[a] = sfr[a]
            ELSE int_ram'[a] = int_ram[a] \/ \E top \in Ram : POP(a, top)]_vars

(* set_sfr() says it updates the register bank "on RS bits": while those   *)
(* stay as they are, so do the registers.                                  *)
RS(psw) == psw \cap {PSW_RS0, PSW_RS1}
BankFollowsRS == [][RS(sfr'[PSW]) = RS(sfr[PSW]) => r' = r]_vars
=============================================================================

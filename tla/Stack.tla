-------------------------------- MODULE Stack --------------------------------
(***************************************************************************)
(* The stack in internal RAM: the calls and returns, PUSH and POP, and the *)
(* pushes of interrupt(), which may come between any two instructions.     *)
(* Return addresses and data share the RAM byte by byte.  Jumps and        *)
(* branches take the program from one of its instructions to another.      *)
(***************************************************************************)
EXTENDS Integers, Sequences

CONSTANTS
  Code,     \* addresses of the program's instructions
  Offsets,  \* displacements in its branch instructions
  Vectors,  \* those of them interrupts go to
  Ram,      \* addresses of int_ram in use
  Bases,    \* values programs load SP with
  Stored    \* bytes programs store in RAM

Byte == 0 .. 255
Word == 0 .. 65535

ASSUME CodeAssumption == Code \subseteq Word /\ Vectors \subseteq Code /\ 0 \in Code
                         /\ Offsets \subseteq Byte
ASSUME RamAssumption == Ram \subseteq Byte /\ Bases \subseteq Byte /\ Stored \subseteq Byte

VARIABLES
  sp, pc,
  int_ram,
  base,   \* history: what SP was loaded with last
  items   \* history: what each stack byte is, oldest first

vars == <<sp, pc, int_ram, base, items>>

(* A byte of the return address of, or a byte of data. *)
Item == [part : {"low", "high"}, of : Code] \cup [part : {"data"}, of : Byte]

ByteOf(item) == CASE item.part = "low" -> item.of % 256
                  [] item.part = "high" -> item.of \div 256
                  [] OTHER -> item.of

Live == base + 1 .. sp
Top == items[Len(items)]

Init == /\ sp = 0 /\ pc = 0
        /\ int_ram = [a \in Ram |-> 0]
        /\ base = 0 /\ items = <<>>
-----------------------------------------------------------------------------
(* The next instruction is at pc + size, inside the program. *)
Advance(size) == pc + size \in Code /\ pc' = pc + size

(* Low byte first; a program does not push beyond the RAM it uses. *)
PushedHighFirst(address) ==
  [int_ram EXCEPT ![sp + 1] = (address \div 256) % 256, ![sp + 2] = address % 256]
Pushed(address) ==
  [int_ram EXCEPT ![sp + 1] = address % 256, ![sp + 2] = (address \div 256) % 256]

PushAddress(address) ==
  /\ {sp + 1, sp + 2} \subseteq Ram
  /\ int_ram' = Pushed(address)
  /\ sp' = sp + 2
  /\ items' = items \o <<[part |-> "low", of |-> address], [part |-> "high", of |-> address]>>
  /\ UNCHANGED base

ACALLUncounted(target) == /\ target \div 2048 = pc \div 2048
                          /\ pc + 2 \in Code
                          /\ PushAddress(pc)
                          /\ pc' = target

(* ACALL keeps the 2K block of the call itself. *)
ACALL(target) == /\ target \div 2048 = pc \div 2048
                 /\ pc + 2 \in Code
                 /\ PushAddress(pc + 2)
                 /\ pc' = target

LCALL(target) == /\ pc + 3 \in Code
                 /\ PushAddress(pc + 3)
                 /\ pc' = target

Interrupt(vector) == PushAddress(pc) /\ pc' = vector

PoppedLowFirst == int_ram[sp] + int_ram[sp - 1] * 256
PoppedAddress == int_ram[sp] * 256 + int_ram[sp - 1]

(* RET and RETI: a program returns with a return address on top. *)
Return == /\ items # <<>> /\ Top.part = "high"
          /\ pc' = PoppedAddress
          /\ sp' = sp - 2
          /\ items' = SubSeq(items, 1, Len(items) - 2)
          /\ UNCHANGED <<int_ram, base>>

(* PUSH and POP take RAM whatever the address. *)
PUSH(a) == /\ sp + 1 \in Ram
           /\ int_ram' = [int_ram EXCEPT ![sp + 1] = int_ram[a]]
           /\ sp' = sp + 1
           /\ items' = Append(items, [part |-> "data", of |-> int_ram[a]])
           /\ Advance(2)
           /\ UNCHANGED base

(* The destination is not in what stays on the stack. *)
POP(a) == /\ items # <<>> /\ Top.part = "data"
          /\ a \notin Live \ {sp}
          /\ int_ram' = [int_ram EXCEPT ![a] = int_ram[sp]]
          /\ sp' = sp - 1
          /\ items' = SubSeq(items, 1, Len(items) - 1)
          /\ Advance(2)
          /\ UNCHANGED base

(* MOV SP,#v, while nothing is on the stack. *)
LoadSp(v) == /\ items = <<>>
             /\ sp' = v /\ base' = v
             /\ Advance(3)
             /\ UNCHANGED <<int_ram, items>>

(* A store anywhere but on the stack. *)
Store(a, d) == /\ a \notin Live
               /\ int_ram' = [int_ram EXCEPT ![a] = d]
               /\ Advance(2)
               /\ UNCHANGED <<sp, base, items>>

(* The other instructions, by where they lead.  LJMP goes anywhere, as does *)
(* JMP @A+DPTR.                                                            *)
Flow(target) == target \in Code /\ pc' = target /\ UNCHANGED <<sp, int_ram, base, items>>

LJMP(target) == Flow(target)

(* AJMP, too, keeps its own 2K block. *)
AJMP(target) == target \div 2048 = pc \div 2048 /\ Flow(target)

(* rel ^ 0xff is 255 - rel for a byte. *)
DisplacementOnesComplement(rel) == IF rel >= 128 THEN -1 * (255 - rel) ELSE rel
Displacement(rel) == IF rel >= 128 THEN -1 * ((255 - rel) + 1) ELSE rel

(* SJMP, and the conditional branches when their condition holds; otherwise *)
(* they are sequential.                                                     *)
Branch(size, rel) == Flow(pc + size + Displacement(rel))

Sequential(size) == Flow(pc + size)

Next == \/ \E t \in Code : ACALL(t) \/ LCALL(t)
        \/ \E v \in Vectors : Interrupt(v)
        \/ Return
        \/ \E a \in Ram : PUSH(a) \/ POP(a) \/ \E d \in Stored : Store(a, d)
        \/ \E v \in Bases : LoadSp(v)
        \/ \E t \in Code : LJMP(t) \/ AJMP(t)
        \/ \E size \in 1 .. 3 : Sequential(size)
        \/ \E size \in 2 .. 3, rel \in Offsets : Branch(size, rel)

Spec == Init /\ [][Next]_vars
-----------------------------------------------------------------------------
(* SP and RAM hold bytes and the program counter stays in the program. *)
TypeOK == /\ sp \in Byte /\ base \in Byte
          /\ pc \in Code
          /\ int_ram \in [Ram -> Byte]
          /\ items \in Seq(Item)

(* The RAM from the base to SP holds just what was pushed and not popped,  *)
(* and the two bytes of a return address lie together, low byte below.     *)
Paired == \A i \in 1 .. Len(items) :
            /\ items[i].part = "low" =>
                 i < Len(items) /\ items[i + 1] = [part |-> "high", of |-> items[i].of]
            /\ items[i].part = "high" =>
                 i > 1 /\ items[i - 1] = [part |-> "low", of |-> items[i].of]

StackHolds == /\ sp = base + Len(items)
              /\ \A i \in 1 .. Len(items) : /\ base + i \in Ram
                                            /\ int_ram[base + i] = ByteOf(items[i])
              /\ Paired

(* What the bytes of RAM amount to.  The items tell only where a frame     *)
(* ends; its value is read from RAM.                                       *)
Frame(i) ==
  [at |-> base + i,
   kind |-> IF items[i].part = "high" THEN "address" ELSE "data",
   value |-> IF items[i].part = "high"
             THEN int_ram[base + i] * 256 + int_ram[base + i - 1]
             ELSE int_ram[base + i]]

Frames == {Frame(i) : i \in {k \in 1 .. Len(items) : items[k].part # "low"}}

Abstract == INSTANCE CallFrames WITH frames <- Frames

(* The bytes that calls, interrupts, PUSH, POP, stores and returns leave in *)
(* RAM are a stack of return addresses and data: each comes back whole, in  *)
(* the reverse order, and nothing done in between changes it.               *)
ImplementsFrames == Abstract!Spec

(* A return goes to the address its own call or interrupt pushed, with any *)
(* calls, interrupts, pushes and stores in between; POP gives the byte its *)
(* own PUSH took.                                                          *)
ReturnsToCaller ==
  [][/\ Return => pc' = Top.of
     /\ \A a \in Ram : POP(a) => int_ram'[a] = Top.of]_vars

(* The displacement that every branch computes by hand is the two's        *)
(* complement of its byte: a branch reaches what lies up to 128 before and *)
(* 127 behind the next instruction, each by the one byte an assembler      *)
(* writes for it.  So 0x80 0xfe, which run_program() takes for a lock, is  *)
(* a jump to itself.                                                       *)
BranchesReach ==
  [][\A size \in 2 .. 3, rel \in Offsets :
       Branch(size, rel) => LET d == pc' - (pc + size)
                            IN d \in -128 .. 127 /\ rel = d % 256]_vars
=============================================================================

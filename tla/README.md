# cpu8051 in TLA+

Specifications of the 8051 simulator in `src/src`, model-checked with TLC and, where it
matters most, proved with TLAPS. Every definition is translated from the C sources; the
`map` of `PROJECT.json` names the lines each one stands for.

## 1. The system

The simulator is one thread. A host program registers callbacks, then calls
`run_program()`, which loads an Intel HEX file, resets the CPU and loops: poll the
interrupt sources, call the scheduled callback when its time has come, execute one
instruction, test the break conditions. There is no parallelism, but there is
interleaving: callbacks run in the middle of a pass over the interrupt sources and may
call the user API, which changes the registers the pass has copied into locals; an
interrupt may come between any two instructions of the simulated program; and a host may
call `run_program()` again, on state the last run left behind.

### Components

| Component | Source | State | Operations |
|---|---|---|---|
| interrupt controller | `execute.c:356-480`, `inst.c:1252-1268` | `ie`, `ip`, `tcon`, `int_level`, `last_int_level`, `last_ext0_int`, `last_ext1_int`, the `wakeup_time_*`, the locals of `process_interrupts()` | `process_interrupts`, `interrupt`, `RETI`, the callbacks |
| timers | `execute.c:265-347` | `tmod`, `tcon`, `tl0`, `tl1`, `th0`, `th1`, `p3` | `timer`, called through the timer callback pointers |
| run loop | `execute.c:490-578`, API `execute.c:84-256` | `cycle_count`, `break_point`, `pc`, `disable_lock_break`, callback pointers, `wakeup_time_sched` | `run_program`, `execute`, `set_disable_lock_break`, `register_*` |
| stack and control flow | `inst.c` | `sp`, `pc`, `int_ram` | `ACALL LCALL RET RETI PUSH POP`, jumps, branches |
| arithmetic and logic | `inst.c` | `acc`, `b`, `psw` | `ADD ADDC SUBB INC DEC DA MUL DIV CJNE`, rotates, logic, bit instructions |
| memory, banks, addressing | `inst.c:24-364` | `int_ram`, `r`, SFRs, `dptr` | `fetch_arg`, `write_arg`, `fetch_sfr`, `set_sfr`, and the instructions that move bytes and bits |
| SFR callback | `execute.c:179-190, 251-256`, `inst.c:88-222` | `pSfrCallback`, `always_call_sfr_cb` | the hooks in `fetch_sfr` and `set_sfr` |
| external memory | `execute.c:111-130, 238-243` | `ext_ram`, `pExtCallback` | `MOVX`, `get_ext_ram_byte`, `set_ext_ram_byte` |
| Intel HEX loader | `read_ihx.c` | `code_mem` | `read_ihx`, `hex2int` |
| decode table | `8051.h:174-257` | constant | sizes, cycles, addressing modes per opcode |
| command line program | `cpu8051.c` | option variables | `main`, `ext0_interrupt` |
| getopt | `getopt.c` | vendored | |
| trace output | `execute.c`, `verbose` | `ofp` | text |

How they interact. `run_program()` calls the controller, then the scheduled callback, then
`execute()`. The controller calls the external callbacks and, through the same kind of
pointer, `timer()`; both write TCON, and so does the controller, from a copy taken at the
start of the pass. `interrupt()` pushes on the stack the instructions use and sets `pc`.
Instructions reach every register through `set_sfr()`. Callbacks reach them through
`set_iram_byte()`. An SFR callback may take an address away from the simulator, or give it
back. `run_program()` calls the loader, which writes into the code memory of earlier runs.

### What is hard, and what makes each component correct

* **Interrupt controller.** Two variables hold the nesting of handlers. Correct when
  handlers nest at most two deep, a handler is entered only above the level it interrupts,
  and `RETI` restores what was interrupted (`NestingInv`, `ImplementsLevels`), whatever
  callbacks write to IE, IP and TCON, and whichever they register or unregister, between two
  polls of a pass; and when a high-priority request that is flagged as a pass begins is not
  lost and reaches its handler, though callbacks sleep, lower sources go first and TCON is
  stored from a copy (`HighRequestServed`). The stale copy of TCON, the flags an overflow
  sets, and the test of EA are in section 6.
* **Timers.** Two counters in four modes, one of which lends half of one timer to the other.
  Correct when no tick is lost at a carry or counted twice, whatever is stored to the other
  timer, TMOD, TCON and the reload value meanwhile (`EveryTickCounts`), overflows are a
  period apart (`OverflowPeriod`), and a poll does no more to TCON than the controller
  reckons with (`TickWithinOutcomes`).
* **Run loop.** Correct when it stops for the reason it reports (`BreakFaithful`), at the
  first boundary past its limit (`CycleLimitExact`, `LimitedRunReturns`; a negative limit is
  in section 6), misses a break address only on entry by reset or by a vector
  (`BreakMissedOnlyOnEntry`), and does not step over the time of the scheduled callback,
  which is compared with a counter that the next run resets (`CallbackNotForgotten`).
* **Stack.** Return addresses and data share RAM byte by byte, and interrupts push between
  any two instructions. Correct when a return goes where its own call or interrupt came
  from and a POP gets its own PUSH's byte (`StackHolds`, `ReturnsToCaller`,
  `ImplementsFrames`), and when a
  branch lands where the assembler meant it to (`BranchesReach`).
* **Memory.** One byte has many names: a direct address, a register under a window that a
  store to PSW moves, a pointer in such a register, a bit of it. Correct when a read and a
  write agree on the cell an operand names (`OperandsNameCells`), when every instruction,
  with all its fetches and writes, is one step on separate cells (`ImplementsCells`), and
  when what the simulator keeps for an address that a peripheral of the host answers for, a
  register or all of the external memory, stays as it is (`HandledStaysOutside`). PUSH, POP
  and the registers instructions use implicitly do not ask the peripheral, and are excepted.
* **Loader.** Code memory is never cleared and a bad line ends a load in the middle.
  Correct when a run still finds every byte of its own file, the last record winning
  (`RunsItsFile`); what the file does not cover keeps the bytes of earlier loads.
* **Arithmetic.** Flags carry information from one instruction to a later one. Correct
  when sequences compute: multi-byte sums (`WideSum`), decimal sums (`DecimalSum`),
  inverses (`AddUndoesSubb`, `RotatesInvert`, `DivisionInverts`), and a parity flag that
  is stored rather than computed on reading (`ParityKept`).

`PROJECT.json` lists the hazards of the code line by line with the properties that watch
them, and those that no property watches yet with the reason.

## 2. Modules

| Module | Models |
|---|---|
| `Defs8051` | the constants of `8051.h`: bit positions, sources, levels, modes. A register made of flags is the set of the positions of its set bits, `Number` the byte they make |
| `TimerEffects` | what one call of `timer()` may do to TCON and answer, whatever the counters hold |
| `Interrupts` | the controller; polls timers through `TimerEffects` |
| `InterruptLevels` | abstract specification: handlers nest like calls, each above the level it interrupts |
| `Timers` | `timer()` and the stores to its registers |
| `TimerPeriods` | `Timers` with a history of the ticks each counter took |
| `Loader` | what one line of an Intel HEX file means and stores |
| `RunProgram` | `read_ihx()` and `run_program()` over many calls |
| `Memory` | operands, SFRs, the SFR callback, the register window, external memory and its callback; the instructions that move, count, combine and exchange bytes and bits |
| `Cells` | abstract specification: separate cells, one written or exchanged at a time |
| `CallFrames` | abstract specification: a stack of return addresses and data, each taken whole and last in, first out |
| `Stack` | calls, returns, PUSH, POP and `interrupt()` on a stack in RAM; jumps and branches |
| `Alu` | the instructions that compute |
| `MC*` | values of the constants for TLC |
| `*_proofs` | theorems |

Composition: `Interrupts` and `Timers` meet in `TimerEffects`. `Interrupts` allows any
outcome of `TimerOutcomes` at a timer poll; `Timers` is checked, and proved, to stay
within them. The controller is therefore explored without the counters, and the counters
without the controller. `Interrupts` keeps its stack as a sequence of routines; `Stack`
shows that bytes in RAM keep each return address whole and in order. `Interrupts` implements
`InterruptLevels` under the mapping `Frames`. `RunProgram` reads the lines of `Loader` one
by one into the memory it then executes. `Memory` implements `Cells` under the mapping
`Contents`, which resolves the arrays and variables of the code to cells. `Stack` implements
`CallFrames` under the mapping `Frames`, which reads the value of each frame from RAM.

### Correspondence with the code

**Interrupts.** `phase` is the place in the loop of `run_program()`: `gate` before
`process_interrupts()`, then one phase per source in the order of the code, `sched` for the
scheduled callback, `execute` for the instruction. `tconCopy` is the local `tcon` of
`process_interrupts()`, read at line 387 before the test of IE; latching a request adds to
the copy and stores the copy. `PollExt` is one `if (pExtCallback... )` block: callback,
latch, test, `interrupt()`. `PollTimer` is one timer block. `HostWrite` is a call of
`set_iram_byte()` for IE, IP, TCON or TMOD from a callback that is running, so it may come
at each poll before that poll's own effect. `HostRegister` is a call of
`register_int_callback()` or `register_time_callback()` from there; a callback that
unregisters itself does so at the end of its step, when the code next looks at the pointer.
`sleep[s]` is `wakeup_time - cycle_count`, cut off at 0, which is all that the comparisons
use. `pc` and `stack` name routines, not addresses. `Init` lets `last_ext_int` and `sleep`
be anything, since `reset_cpu()` does not reset them.

**Timers.** `tl`, `th`, per timer; `Tick(t)` is the whole of `timer()`, `irq` its answer.
The gate and count pins are the P3.3 and P3.5 that the code tests for either timer.
`Range` stands for 256 and `Prescale` for 32. In `TimerPeriods`, `since` is history: the
value a counter started from and the ticks it took since. Each store says which counters it
is one to (`Restart`): `PLoadTl` and `PLoadTh` the timer's own, and TH0 where timer 1 drives
it; `PSetTmod` those whose mode changes. All others are followed through the store. TH in
mode 2 is the reload value, so a store to it restarts nothing.

**RunProgram.** `phase` again, with `load` for the loop of `read_ihx()`. A file is the
sequence of its lines, as `hex2int()` makes them of characters; `line` counts the records
stored. `Kind` says which instruction a byte of code is (a plain one, `SJMP` to itself, an
unimplemented opcode) and `Leads` where it may lead from an address. `arrival` is history:
whether `pc` was reached by reset, by a vector or by an instruction. `AttachTimers` comes
before the load, as in the code, so a failed load leaves the timers set. `Returns` drops
arguments and locals. The scheduled callback may register or unregister itself as it runs
and set its wakeup time in the same call (`Schedule`); the external callbacks, which run in
the phase `interrupts`, may do so, too (`RegisterTimeCallback`). A file that cannot be
opened is `CallWithoutFile`. Both errors of `read_ihx()` become `LoadError`, which is all
that `run_program()` tells its caller.

**Memory.** A byte is the set of its set bits. `Now` is the state as one record, so that an
instruction is an expression: `fetch_arg` of it, then `write_arg`, one or two, in the order
of the code. `sfr` holds the registers that have a variable of their own, by address;
`int_ram` the RAM and all upper addresses: at those with a variable it has a byte that only
PUSH and POP reach, which index it with the direct address and ask no callback. `r` is the
distance of the C pointer from `int_ram`. `device` is what the host's peripheral holds: the
callback answers for the addresses in `Devices` and passes the others on, to `int_ram` or by
answering `CB_NOT_PROCESSED`, which its prototype offers in the mode of
`en_all_sfr_callback()`. `InUse` keeps registers and pointers within the RAM of the
instance, which for the whole RAM is always so. `dptr` is two bytes of `sfr`, as `fetch_sfr`
and `set_sfr` see it: MOV and INC of DPTR write both. `ext_ram` is what MOVX reaches by
DPTR, R0 or R1, and the API by address; while `ext_registered`, all of them reach the host's
peripheral, `ext_device`, one byte whatever the address. `reset_cpu()` clears neither. CLR
and SETB of a bit have code of their own, `OwnWriteBit`; the other bit instructions use
`write_bit`.

**Stack.** `items` is history: what each byte on the stack is. The guards that a program
stays within the RAM, returns with a return address on top, loads SP while the stack is
empty and stores elsewhere are the discipline of a program that uses its stack; they are
the only assumptions, and interrupts ignore all but the first. The jumps, `Branch` and
`Sequential` are the other instructions by where they lead; what these do to bytes and
flags is in `Memory` and `Alu`.

**Alu.** `cpu` is the record of accumulator, B and flags; each instruction is an operator
from one to the next, with the operand that `fetch_arg()` found.

## 3. Runs

| Run | Shows | Bounds |
|---|---|---|
| `interrupts` | `NestingInv`, `ImplementsLevels` with three callbacks, one of which comes and goes, and a timer | Three values each of IE and IP, two of TCON and TMOD; `MaxSleep` 1 |
| `interrupts_live` | `HighRequestServed` under fairness | Both external sources, one of which comes and goes, and a timer; stores enable all sources, make one of the two and the timer high, select mode 3 and leave IE0 and IE1 set; `MaxSleep` 2 |
| `timers` | no tick lost, overflows a period apart | Bytes of 3 values, prescaler 2, 8 values of TMOD that change the modes, the gating and both |
| `run_program` | loads, stops, breaks, scheduled callback, over repeated calls | 4 files of up to 4 lines, 5 addresses, limits -1, FOREVER and 3, instructions of 1 or 2 cycles, clock to 6 |
| `memory` | cells, operands, the peripherals | 2 bytes of RAM, 5 registers, one further address, 2 bytes of external memory, a peripheral at three addresses, 4 byte values, `BIT_RAM_START` 1; at most 2 bytes beside PSW that are not 0 |
| `stack` | returns, POPs, branches, `ImplementsFrames` | 4 bytes of stack, one other byte, 5 addresses in two 2K blocks, 5 displacements |
| `alu` | what sequences of instructions compute | all accumulators and flags, 6 operands |
| `global_disable`, `stale_tcon`, `negative_limit`, `subb_borrow`, `register_bank` | the findings of section 6 | as small as shows them |

Why the bounds are enough.

* An instruction takes one cycle and is followed by a pass. With `MaxSleep` 2, in
  `interrupts_live`, a callback can miss a poll whenever it naps; a longer nap only repeats
  the missed poll. With `MaxSleep` 1, in `interrupts`, a nap that a callback asks for is over
  by the next pass, and only naps left by an earlier run miss a poll: enough for its
  properties, to which a callback that sleeps is one that does nothing.
* The register values tell the guards apart: a source enabled or not, high or low, edge or
  level triggered, its timer running or not. Three callbacks give a low source polled before
  and after a high one.
* A counter of three values wraps, carries, and has a value that does neither. `timer()`
  compares with the limit only.
* The limit 3 with instructions of 1 or 2 cycles is met exactly and overshot by one. The
  clock stops counting at `Horizon` 6, beyond every limit and instruction, as
  `ClockAssumption` requires; an `int` that overflows is not modelled. One limit is negative
  for the finding at `execute.c:551`; `CycleLimitExact` and `LimitedRunReturns` are about
  FOREVER and positive limits. Break addresses 2 and 4 cover the lock of one file, plain
  instructions and a vector: a lock at the break address, which the code reports as a lock,
  is reached.
* The four files overwrite an earlier record, end with and without an EOF record, have
  lines behind it, leave bytes of an earlier file, and break off at either error after they
  stored a record. Any sequence of calls mixes them.
* Two bytes of RAM are enough for one to be R0, the target of @R0, under the window or out
  of it, and addressable by bits. The bytes 0, 1, 128 and 129 point to either RAM byte or
  above the RAM, and in PSW they set P and CY either way. The external bytes 1 and 256 are
  reached by R0 and by DPTR, and by DPTR alone. The constraint `SmallBytes` keeps each cell
  to two to four values, two cells beside PSW from 0 (`MaxNonZero`: a pointer and the byte
  it points to), one of the two callbacks registered, and of the bytes behind the standard
  SFRs only that of P1, for PUSH and POP to move: a state beyond, which counting, a logic
  instruction or a third store leads to, is checked but not continued. `BIT_RAM_START` is 1
  and not 0x20, for the RAM is short.
* Two nested calls, or a call and two bytes of data, fill four bytes. The low and the high
  bytes of the addresses differ, so a swap of the two is seen. The displacements reach 128
  back and 126 on; the theorem `Reaches` covers the rest.
* `Alu` is checked for every accumulator and flag setting. Operands are the values at the
  edges of a digit, of a byte and of its sign; `DecimalSum` ranges over all pairs of decimal
  bytes. The theorems hold for any set of operands, all 256 bytes included. The constraint
  `BInOperands` keeps B to the operands: a state whose B is another product or remainder is
  checked but not continued, and B has no effect on any instruction but MUL and DIV. After
  `DIV` by zero B is an uninitialized local of the C code: the model marks it `Undefined`
  and such a program does not go on computing with it.

Every run checks for deadlock.

### Fairness

`WF_vars(Loop)` in `Interrupts` and `RunProgram`: `run_program()` is a loop that never
waits, and its callbacks are assumed to return. The scheduling gives no more than that.
`SF_vars(ExecuteReti)` in `Interrupts` is about the simulated program and not about the
simulator: a program leaves its handlers. Without it a program that loops in a
high-priority handler keeps every other request waiting, which is what it should do.

`HighRequestServed` is about a request whose flag is set when a pass begins, and which is the
first in priority: its callback is registered, for the code polls no other; it is enabled and
high; and no source polled before it is high, for such a source can starve it in the code,
while lower ones cannot. That its flag is cleared does not count as being served: only the
handler's entry at the high level does, or the end of one of these conditions. In its
instance the stores to TCON leave IE0 and IE1 set (`LiveControls`), so that a flag that
disappears was not taken back by the program. A request that a callback stores in the middle
of a pass is outside the property: the copy of TCON that EXT1 stores when it latches was
taken before, and loses it.

## 4. Proofs

| Module | Theorem | Says |
|---|---|---|
| `Interrupts_proofs` | `Invariance`, `TypeCorrect`, `Nesting`, `LevelsRefinement` | `[]TypeOK`, `[]NestingInv`, and that every step implements `InterruptLevels` |
| `Timers_proofs` | `TypeCorrect`, `OutcomesSound` | `[]TypeOK`, and `TickWithinOutcomes`, by which the two models fit |
| `TimerPeriods_proofs` | `HistoryOnly`, `PeriodInvariance`, `EveryTick`, `Period` | that the history adds no behaviour, `[]EveryTickCounts`, `OverflowPeriod` |
| `Stack_proofs` | `Invariance`, `TypeCorrect`, `Holds`, `Returns`, `Reaches`, `FramesRefinement` | `[]TypeOK`, `[]StackHolds`, `ReturnsToCaller`, `BranchesReach`, and that every step implements `CallFrames` |
| `RunProgram_proofs` | `Invariance`, `TypeCorrect`, `LoadsItsFile`, `Faithful`, `LimitExact`, `MissedOnlyOnEntry` | `[]TypeOK`, `[]RunsItsFile`, `[]BreakFaithful`, `CycleLimitExact`, `BreakMissedOnlyOnEntry` |
| `Memory_proofs` | `TypeCorrect`, `OperandsAgree`, `CellsRefinement`, `PeripheralHides` | `[]TypeOK`, `[]OperandsNameCells`, that every step implements `Cells`, `HandledStaysOutside` |
| `Alu_proofs` | `TypeCorrect`, `ParityFollows`, `WideSumHolds`, `AddUndoesSubbHolds`, `DecimalSumHolds`, `RotatesInvertHolds`, `DivisionInvertsHolds` | `[]TypeOK`, `ParityKept`, and `[]` of the five invariants about several instructions |

The assumptions are the named ASSUMEs of the component modules: that the values programs
store are register values, that instructions take time, that counters hold at least as many
values as the prescaler, that there is code memory at 0 and at each vector, that records fit
in it, that operands of `Alu` are bytes and `Undefined` is none, and in `Memory` the layout:
RAM below 128, SFRs above, ACC, PSW and DPTR among them. TLC evaluates them in the runs.

**Interrupts.** `NestingInv` alone is not inductive only because it says nothing of types:
with `TypeOK` it is. It distinguishes three shapes (no handler, one, a high one over a low
one) and has one step per action; only vectoring and RETI change shapes. The guard
`Admits` is what rules out a third level: at HI nothing is admitted, at LO only a
high source is. Refinement uses the same invariant: appending to the stack appends a frame
at the new level, since `last_int_level` is the level of the frame below.

**Stack.** The invariant says that SP is the base plus the number of items, each item's
byte lies at its place, and items of an address come in pairs, low below high. A push
writes above every live item, a pop removes whole pairs or single data bytes, a store
misses the live region. That SP is a byte follows: it is the base, or the place of the last
item, which lies in the RAM. `PopsItsAddress` joins the two bytes again by `SplitAddress`,
that `a = (a \div 256) * 256 + a % 256` with both parts bytes. For the refinement the
invariant turns the frames read from RAM into frames read off the items (`FramesRead`), in
the state before and in the state after, so that no step needs to look at RAM again. What
remains is one lemma on sequences, `OneFrame`: items that are longer by a byte of data, or
by the two bytes of an address, make one frame more, above all the others. Read forwards it
is a push, read backwards a pop.

**Timers.** The counters stay below `Range` since every increment is reduced or stopped at
a wrap. `TickWithinOutcomes` follows from the cases of `Tick` and the definition of
`TimerOutcomes`, for every `Range` and `Prescale`.

**TimerPeriods.** `EveryTickCounts` is inductive with `TypeOK` and the types of the history
(`History`). TL and TH are the digits of one number in base `TlLimit`. A tick adds one to
it, whether or not it carries (`OwnTick`), and the counter wraps just when the number
reaches its modulus (`WrapsAtModulus`); a tick of the other timer leaves it alone, unless
mode 3 lends TH0 to it (`OthersTick`, `Th0Tick`); a store restarts the history of its own
counters and keeps the equation of every other (`StoreHistory`). `OverflowPeriod` reads the
number of ticks off the same equation at the wrap. Products of two variables are beyond the
solver's arithmetic; `NextDigit` and `ProductGrows` state the two facts it needs of them.

**RunProgram.** The properties speak of two places in the loop; the invariant says what is
known at each: past the test no break is flagged, the limit is not reached and the program
counter is not at a break address it came to by an instruction (`Looping`); after an
instruction the only break is that of an unimplemented opcode and the limit is overshot by
less than that instruction (`Executed`); before the test, the same or a fresh reset
(`Tested`). `ExecuteWithin` needs that the clock's bound lies beyond every limit and
instruction: the bound never acts in a run with a limit. `RunsItsFile` is inductive with
the types: a record leaves what it does not cover (`StoredCode`), so the last record for an
address among `line + 1` is either the new one or the last among `line` (`RecordKept`), and
nothing but a load writes code memory.

**Memory.** Each primitive store (`PutRam`, `set_sfr` in its four cases, `WriteAcc`,
`PutExt`) is shown to be one `Put` on the cells, and the modes are reduced to these stores
(`Argument`): that is `OperandsAgree`. An instruction then is a chain of them. `TwoWrites`
handles the two writes of XCH and XCHD: the second names the cell the first step would have
named, for ACC and PSW writes move no window and change no pointer, and an operand that is
ACC itself comes out unchanged (`AccTwice`). For `PeripheralHides` the cells behind a
peripheral, outside `Implicit`, are `Hidden`, no operand names a hidden cell
(`NamedVisible`), and a step on the cells changes none but those named, ACC, PSW and DPTR.
PUSH and POP are taken apart (`StackingEffect`): they write one byte of `int_ram`, below 128
or the one popped to. `OwnBit` shows that CLR and SETB resolve a bit address as `write_bit`
does.

**Alu.** All invariants but `TypeOK` speak of instructions still to come, so each follows from
`TypeOK` alone: whatever the processor holds, the sequence computes. Accumulator and carry
are read as one number of nine bits (`Nine`). ADD and ADDC leave the sum in it (`AddValue`),
SUBB the difference and its borrow (`SubbValue`), RLC and RRC double and halve it, so that
instructions in sequence are linear arithmetic. Decimal sums go digit by digit: `LowDigit`
says what DA leaves of the low digit and what it carries, `HighDigit` the same of the high
one. For `ParityKept` the three folds of `odd_parity8()` are shown to leave the exclusive or
of the eight bits in bit 0 (`FoldsToParity`), and that to be the parity of their number
(`CountsToParity`); RL, RR and SWAP never compute P and do not need to, since they permute
the binary digits (`DigitsParity`).

### Model-checked only

* Liveness: `HighRequestServed`, `LimitedRunReturns`, `CallbackNotForgotten`. Fairness and
  ENABLED are out of the prover's reach.
* The violated properties of section 6.

## 5. Not modelled, and why

* **Operands of `Stack` and `Alu`, code bytes of MOVC.** `Stack` and `Alu` take the operand
  as given, as `Memory` provides it; `MOVC` in `Memory` loads any byte of the instance, not
  the one `RunProgram` keeps there.
* **What a host's callbacks do.** The SFR callback of `Memory` answers for its addresses and
  passes the others on; one that loses accesses is outside the model, as is one that writes
  the array it is given. An address that instructions
  use without asking, as ACC, PSW, SP, B and DPTR (`Implicit`), may be the peripheral's, but
  then both hold a value: `HandledStaysOutside` says nothing of these. MUL and DIV, which write
  B, and calls and interrupts, which move SP, are in `Alu`, `Stack` and `Interrupts`.
* **Malformed HEX lines.** The length and the checksum of a line are not tested by the code;
  a line with fewer digits than it counts takes stale characters of its buffer, one that
  reaches beyond 64K writes past the array. `FilesAssumption` leaves them out.
* **Conditions of branches.** `Stack` lets a branch be taken or not; `RunProgram` lets an
  instruction lead where `Leads` says.
* **Serial interrupt.** `execute.c:474-478` is dead: nothing sets its callback pointer.
* **Decode table.** Data. The models take from it the sizes and cycles a property tells
  apart.
* **Overflow of `cycle_count`, stack beyond the RAM, `pc` or A+DPTR beyond 64K.** The first is
  undefined in C, the second writes beyond the array; the models stop short of them by
  named bounds.
* **`cpu8051.c`, `getopt.c`, trace output.** I/O and option parsing. The command line's
  EXT0 callback is one of those `Interrupts` allows.

## 6. Findings

* **EA does not disable interrupts** (`execute.c:391`). The entry test masks IE with the
  position 7 of EA, not with its mask 0x80: it is true when EX0, ET0 or EX1 is set.
  Run `global_disable`: with EA clear an external request is vectored to.
* **A served request comes back** (`execute.c:448`). The TCON read at the start of a pass
  is stored when EXT1 latches, after `interrupt()` cleared IE0 for EXT0. Run `stale_tcon`.
* **A negative cycle count does not run forever** (`execute.c:551`). The comment at 549 says
  it does; the code tests `cycles == FOREVER`, which is 0, and executes nothing when the
  count is negative. Run `negative_limit`: `run_program()` returns `NO_ERROR` at once.
* **SUBB loses a borrow** (`inst.c:1418`). CY compares the operand with the accumulator
  and leaves out the borrow taken. Run `subb_borrow`: the two-byte subtraction of numbers
  with equal high bytes.
* **The register bank follows the wrong bits** (`inst.c:211`). PSW_RS0 and PSW_RS1 are bit
  positions, used as masks: the registers start at the address made of bits 0 to 2 of PSW.
  Run `register_bank`: a store that changes only P moves them. `Memory` keeps the window as
  the code places it, and its theorems hold of that window.

One more defect is in the models without a run of its own. A timer overflow raises other
requests (`execute.c:299, 309, 317`): `tcon | ~mask` sets every bit but the flag it means, so
IE0 and IE1 become pending. `OverflowTcon` has it, and `RaisedOnlyByItsCallback` fails of it,
too, when `StaleTcon.cfg` has TIM0 in place of EXT1 among its callbacks.

Further disagreements met while reading are in the hazards: PUSH and POP of a special
function register reach `int_ram` instead (`inst.c:1204, 1221`), ACALL takes its own block
and not that of the next instruction (`inst.c:427`), and a failed load returns the value of
`UNIMP_BREAK` (`execute.c:544`).

## 7. Plan

Done, in this order: `Interrupts` with `InterruptLevels` and its proofs; `Timers` with
`TimerPeriods` and their proofs; `RunProgram` and its proofs; `Alu` and its proofs; `Stack`
with `CallFrames` and its proofs; `Memory` with `Cells` and its proofs; `Loader`, composed
with `RunProgram`.

Next:

1. `Interrupts` composed with `CallFrames`: its `stack` of routines kept in frames, beside the
   calls and the data of the program.
2. The flags of `Alu` on the PSW of `Memory`.
3. `RunProgram` composed with `Interrupts`: timers that stay enabled.

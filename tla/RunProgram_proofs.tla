-------------------------- MODULE RunProgram_proofs --------------------------
(***************************************************************************)
(* Proofs about RunProgram for every file, code, argument and instruction  *)
(* length.                                                                 *)
(***************************************************************************)
EXTENDS RunProgram, TLAPS

(* Less than an instruction past a limit, which then is a positive one. *)
WithinAnInstr == \/ cycles = FOREVER
                 \/ cycles > 0 /\ \E c \in ClkCycles : cycle_count < cycles + c

(* What the loop knows at each place: it got past its own test, ...        *)
Looping == phase \in {"interrupts", "sched", "execute"} =>
             /\ break_point = NO_ERROR
             /\ cycles = FOREVER \/ cycle_count < cycles
             /\ arrival = "flow" => pc # break_addr

(* ... executed one instruction, ...                                       *)
Executed == phase = "breaks" =>
              /\ break_point = IF opcode = "unimp" THEN UNIMP_BREAK ELSE NO_ERROR
              /\ arrival = "flow"
              /\ WithinAnInstr

(* ... and comes back, or comes from reset_cpu().                          *)
Tested == phase = "test" =>
            /\ arrival \in {"reset", "flow"}
            /\ arrival = "reset" => cycle_count = 0
            /\ arrival = "flow" => WithinAnInstr

Inv == TypeOK /\ Looping /\ Executed /\ Tested /\ BreakFaithful /\ RunsItsFile

LEMMA Codes == /\ FOREVER = 0 /\ NO_ERROR = 0
               /\ UNIMP_BREAK = 1 /\ USER_BREAK = 2 /\ LOCK_BREAK = 3 /\ LoadError = 1
BY DEF FOREVER, NO_ERROR, UNIMP_BREAK, USER_BREAK, LOCK_BREAK, LoadError

LEMMA InitInv == Init => Inv
<1> SUFFICES ASSUME Init PROVE Inv
  OBVIOUS
<1>1. TypeOK
  <2>1. Horizon \in Nat /\ ResetAddr \in Addr
    BY CodeAssumption, ClockAssumption
  <2>2. cycle_count \in 0 .. Horizon /\ wakeup_time_sched \in -1 .. Horizon
    BY <2>1 DEF Init
  <2>3. /\ cycles \in CycleArgs \cup {FOREVER} /\ break_addr \in BreakArgs \cup {-1}
        /\ timCallbacks \in SUBSET {"TIM0", "TIM1"}
        /\ disable_lock_break \in BOOLEAN /\ registered \in BOOLEAN
    BY DEF Init
  <2>4. /\ phase \in Phases /\ opcode \in Ops /\ pc \in Addr
        /\ break_point \in {NO_ERROR, UNIMP_BREAK, USER_BREAK, LOCK_BREAK}
        /\ result \in {NO_ERROR, UNIMP_BREAK, USER_BREAK, LOCK_BREAK}
        /\ arrival \in {"reset", "vector", "flow"}
    BY <2>1 DEF Init, Phases, Ops
  <2>5. file \in Files \cup {<<>>} /\ line \in 0 .. Len(file) /\ code_mem \in [Addr -> Byte]
    BY CodeAssumption DEF Init
  <2> QED
    BY <2>2, <2>3, <2>4, <2>5 DEF TypeOK
<1>2. Looping /\ Executed /\ Tested /\ BreakFaithful /\ RunsItsFile
  BY DEF Init, Looping, Executed, Tested, BreakFaithful, RunsItsFile
<1> QED
  BY <1>1, <1>2 DEF Inv
-----------------------------------------------------------------------------
(* Lines of files, and what a record does to code memory. *)
LEMMA FileLines == ASSUME file \in Files \cup {<<>>}
                   PROVE  /\ Len(file) \in Nat
                          /\ \A i \in 1 .. Len(file) : file[i] \in Line
BY FilesAssumption

LEMMA StoredCode ==
  ASSUME NEW mem \in [Addr -> Byte], NEW l \in Line
  PROVE  /\ Stored(mem, l) \in [Addr -> Byte]
         /\ \A a \in Addr : Stored(mem, l)[a] = IF Covers(l, a) THEN ByteFor(l, a) ELSE mem[a]
<1>1. ASSUME NEW a \in Addr, Covers(l, a) PROVE ByteFor(l, a) \in Byte
  <2>1. a \in Nat /\ l.address \in Nat /\ l.data \in Seq(Byte)
    BY CodeAssumption DEF Line
  <2>2. a - l.address + 1 \in 1 .. Len(l.data)
    BY <1>1, <2>1 DEF Covers
  <2> QED
    BY <2>1, <2>2 DEF ByteFor
<1> QED
  BY <1>1 DEF Stored

(* Each step keeps every variable in its type. *)
LEMMA TypeKept == TypeOK /\ [Next]_vars => TypeOK'
<1> SUFFICES ASSUME TypeOK, [Next]_vars PROVE TypeOK'
  OBVIOUS
<1> USE DEF TypeOK
<1>1. ASSUME SetLockBreak \/ RegisterTimeCallback PROVE TypeOK'
  BY <1>1 DEF SetLockBreak, RegisterTimeCallback, args, load, cpu
<1>2. ASSUME NEW e \in EnableArgs, AttachTimers(e)
      PROVE  /\ timCallbacks' \in SUBSET {"TIM0", "TIM1"}
             /\ code_mem' \in [Addr -> Byte]
             /\ cycle_count' \in 0 .. Horizon
             /\ break_point' \in {NO_ERROR, UNIMP_BREAK, USER_BREAK, LOCK_BREAK}
             /\ pc' \in Addr /\ opcode' \in Ops
             /\ arrival' \in {"reset", "vector", "flow"}
             /\ disable_lock_break' \in BOOLEAN /\ registered' \in BOOLEAN
             /\ wakeup_time_sched' \in -1 .. Horizon
  BY <1>2, ArgsAssumption DEF AttachTimers, cpu
<1>c. ASSUME NEW n \in CycleArgs, NEW b \in BreakArgs, NEW e \in EnableArgs, NEW f \in Files,
             Call(n, b, e, f)
      PROVE  TypeOK'
  <2>1. Len(f) \in Nat
    BY FilesAssumption
  <2>2. /\ phase' \in Phases /\ cycles' \in CycleArgs \cup {FOREVER}
        /\ break_addr' \in BreakArgs \cup {-1}
        /\ file' \in Files \cup {<<>>} /\ line' \in 0 .. Len(file')
        /\ result' \in {NO_ERROR, UNIMP_BREAK, USER_BREAK, LOCK_BREAK}
    BY <1>c, <2>1 DEF Call, Phases
  <2>3. AttachTimers(e)
    BY <1>c DEF Call
  <2> QED
    BY <1>2, <2>2, <2>3
<1>w. ASSUME NEW e \in EnableArgs, CallWithoutFile(e) PROVE TypeOK'
  <2>1. AttachTimers(e) /\ UNCHANGED <<phase, cycles, break_addr, file, line>>
        /\ result' = LoadError
    BY <1>w DEF CallWithoutFile, args
  <2>2. result' \in {NO_ERROR, UNIMP_BREAK, USER_BREAK, LOCK_BREAK}
    BY <2>1, Codes
  <2> QED
    BY <1>2, <2>1, <2>2
<1>s. ASSUME StoreRecord PROVE TypeOK'
  <2>1. line + 1 \in 1 .. Len(file) /\ file[line + 1] \in Line
    BY <1>s, FileLines DEF StoreRecord
  <2>2. code_mem' \in [Addr -> Byte] /\ line' \in 0 .. Len(file)
    BY <1>s, <2>1, StoredCode DEF StoreRecord
  <2> QED
    BY <1>s, <2>2 DEF StoreRecord, args, cpu, host
<1>r. ASSUME NEW v \in {NO_ERROR, UNIMP_BREAK, USER_BREAK, LOCK_BREAK}, Returns(v)
      PROVE  /\ phase' \in Phases /\ cycles' \in CycleArgs \cup {FOREVER}
             /\ break_addr' \in BreakArgs \cup {-1}
             /\ file' \in Files \cup {<<>>} /\ line' \in 0 .. Len(file')
             /\ result' \in {NO_ERROR, UNIMP_BREAK, USER_BREAK, LOCK_BREAK}
  BY <1>r DEF Returns, Phases
<1>j. ASSUME RejectLine PROVE TypeOK'
  BY <1>j, <1>r, Codes DEF RejectLine, cpu
<1>z. ASSUME reset_cpu PROVE TypeOK'
  <2>1. pc' \in Addr /\ cycle_count' \in 0 .. Horizon /\ phase' \in Phases
    BY <1>z, CodeAssumption, ClockAssumption DEF reset_cpu, Phases
  <2> QED
    BY <1>z, <2>1 DEF reset_cpu, args, load, host
<1>3. ASSUME TestLoop PROVE TypeOK'
  <2>1. CASE Continues
    BY <1>3, <2>1 DEF TestLoop, Phases, args, cpu
  <2>2. CASE ~Continues
    BY <1>3, <1>r, <2>2 DEF TestLoop, cpu
  <2> QED
    BY <2>1, <2>2
<1>4. ASSUME Interrupt PROVE TypeOK'
  BY <1>4, CodeAssumption DEF Interrupt, Phases, args, load, host
<1>5. ASSUME Schedule PROVE TypeOK'
  <2>1. wakeup_time_sched' \in -1 .. Horizon /\ registered' \in BOOLEAN
    BY <1>5, ClockAssumption DEF Schedule
  <2> QED
    BY <1>5, <2>1 DEF Schedule, Phases, args, load, cpu
<1>6. ASSUME Execute PROVE TypeOK'
  <2>0. code_mem[pc] \in Byte
    OBVIOUS
  <2>1. opcode' \in Ops /\ pc' \in Addr
    BY <1>6, <2>0, CodeAssumption DEF Execute
  <2>2. cycle_count' \in 0 .. Horizon
    BY <1>6, ClockAssumption DEF Execute, Advanced
  <2>3. break_point' \in {NO_ERROR, UNIMP_BREAK, USER_BREAK, LOCK_BREAK}
    BY <1>6 DEF Execute
  <2> QED
    BY <1>6, <2>1, <2>2, <2>3 DEF Execute, Phases, args, load, host
<1>7. ASSUME CheckBreaks PROVE TypeOK'
  BY <1>7 DEF CheckBreaks, Phases, args, load, host
<1>8. CASE UNCHANGED vars
  BY <1>8 DEF vars, args, load, cpu, host
<1> QED
  BY <1>1, <1>c, <1>w, <1>s, <1>j, <1>z, <1>3, <1>4, <1>5, <1>6, <1>7, <1>8
     DEF Next, Load, Loop

(* An instruction started below the limit ends less than its own length    *)
(* past it: the clock bound is beyond.                                     *)
LEMMA ExecuteWithin == ASSUME TypeOK, Looping, Execute PROVE WithinAnInstr'
<1>1. phase = "execute" /\ cycles' = cycles
  BY DEF Execute, args
<1>2. PICK c \in ClkCycles : cycle_count' = Advanced(c)
  BY DEF Execute
<1>3. CASE cycles = FOREVER
  BY <1>1, <1>3 DEF WithinAnInstr
<1>4. CASE cycles # FOREVER
  <2>1. cycle_count < cycles /\ cycles \in CycleArgs
    BY <1>1, <1>4 DEF Looping, TypeOK
  <2>2. cycles \in Int /\ c \in Nat /\ cycles + c < Horizon /\ Horizon \in Nat
        /\ cycle_count \in Nat
    BY <2>1, ArgsAssumption, ClockAssumption DEF TypeOK
  <2>3. cycle_count' = cycle_count + c
    BY <1>2, <2>1, <2>2 DEF Advanced
  <2>4. cycles > 0 /\ cycle_count' < cycles + c
    BY <2>1, <2>2, <2>3
  <2> QED
    BY <1>1, <2>4 DEF WithinAnInstr
<1> QED
  BY <1>3, <1>4

(* Storing one more record keeps what the file says so far. *)
LEMMA RecordKept ==
  ASSUME TypeOK, RunsItsFile, StoreRecord PROVE RunsItsFile'
<1>1. /\ phase = "load" /\ phase' = "load" /\ file' = file
      /\ line < Len(file) /\ IsData(file[line + 1]) /\ line' = line + 1
      /\ code_mem' = Stored(code_mem, file[line + 1])
  BY DEF StoreRecord, args
<1>2. line \in Nat /\ file[line + 1] \in Line
  BY <1>1, FileLines DEF TypeOK
<1>3. \A a \in Addr : code_mem'[a] = IF Covers(file[line + 1], a) THEN ByteFor(file[line + 1], a)
                                     ELSE code_mem[a]
  BY <1>1, <1>2, StoredCode DEF TypeOK
<1>4. \A i \in 1 .. line + 1 : IsData(file[i])
  BY <1>1, <1>2 DEF RunsItsFile
<1>5. ASSUME NEW a \in Addr, NEW i \in 1 .. line + 1, Covers(file[i], a),
             \A j \in i + 1 .. line + 1 : ~Covers(file[j], a)
      PROVE  code_mem'[a] = ByteFor(file[i], a)
  <2>1. CASE i = line + 1
    BY <1>3, <1>5, <2>1
  <2>2. CASE i # line + 1
    <3>1. i \in 1 .. line /\ line + 1 \in i + 1 .. line + 1
      BY <1>2, <2>2
    <3>2. \A j \in i + 1 .. line : ~Covers(file[j], a)
      BY <1>2, <1>5
    <3>3. code_mem[a] = ByteFor(file[i], a)
      BY <1>1, <1>5, <3>1, <3>2 DEF RunsItsFile
    <3>4. ~Covers(file[line + 1], a)
      BY <1>5, <3>1
    <3> QED
      BY <1>3, <3>3, <3>4
  <2> QED
    BY <2>1, <2>2
<1> QED
  BY <1>1, <1>4, <1>5 DEF RunsItsFile

LEMMA FileKept ==
  ASSUME TypeOK, RunsItsFile, [Next]_vars PROVE RunsItsFile'
<1>1. CASE StoreRecord
  BY <1>1, RecordKept
<1>2. ASSUME phase' = "host" PROVE RunsItsFile'
  BY <1>2 DEF RunsItsFile
<1>3. ASSUME NEW n \in CycleArgs, NEW b \in BreakArgs, NEW e \in EnableArgs, NEW f \in Files,
             Call(n, b, e, f)
      PROVE  RunsItsFile'
  <2>1. phase' = "load" /\ line' = 0
    BY <1>3 DEF Call
  <2> QED
    BY <2>1 DEF RunsItsFile
<1>4. ASSUME UNCHANGED <<file, line, code_mem>>,
             phase' = phase \/ phase \notin {"host", "load"} \/ (phase = "load" /\ AtEnd)
      PROVE  RunsItsFile'
  BY <1>4 DEF RunsItsFile, AtEnd
<1>5. ASSUME \E e \in EnableArgs : CallWithoutFile(e) PROVE phase' = "host"
  BY <1>5 DEF CallWithoutFile, AttachTimers
<1>6. ASSUME RejectLine PROVE phase' = "host"
  BY <1>6 DEF RejectLine, Returns
<1>7. ASSUME TestLoop, phase' # "host"
      PROVE  UNCHANGED <<file, line, code_mem>> /\ phase = "test"
  BY <1>7 DEF TestLoop, Returns, args
<1>8. ASSUME \/ SetLockBreak \/ RegisterTimeCallback \/ Interrupt \/ Schedule
             \/ Execute \/ CheckBreaks \/ reset_cpu \/ UNCHANGED vars
      PROVE  /\ UNCHANGED <<file, line, code_mem>>
             /\ phase' = phase \/ phase \notin {"host", "load"} \/ (phase = "load" /\ AtEnd)
  BY <1>8 DEF SetLockBreak, RegisterTimeCallback, Interrupt, Schedule, Execute, CheckBreaks,
     reset_cpu, vars, args, load
<1> QED
  BY <1>1, <1>2, <1>3, <1>4, <1>5, <1>6, <1>7, <1>8 DEF Next, Load, Loop

LEMMA NextInv == Inv /\ [Next]_vars => Inv'
<1> SUFFICES ASSUME Inv, [Next]_vars PROVE Inv'
  OBVIOUS
<1>t. TypeOK /\ TypeOK'
  BY TypeKept DEF Inv
<1>f. RunsItsFile'
  BY FileKept DEF Inv
<1>l. Looping /\ Executed /\ Tested /\ BreakFaithful
  BY DEF Inv
<1> DEFINE Places == Looping' /\ Executed' /\ Tested' /\ BreakFaithful'
<1>1. ASSUME SetLockBreak \/ RegisterTimeCallback PROVE Places
  <2>1. /\ phase \in {"host", "interrupts", "sched"}
        /\ UNCHANGED <<phase, cycles, break_addr, cycle_count, break_point, pc, arrival>>
    BY <1>1 DEF SetLockBreak, RegisterTimeCallback, HostRuns, args, cpu
  <2> QED
    BY <1>l, <2>1 DEF Looping, Executed, Tested, BreakFaithful
<1>2. ASSUME \/ \E n \in CycleArgs, b \in BreakArgs, e \in EnableArgs, f \in Files :
                  Call(n, b, e, f)
             \/ \E e \in EnableArgs : CallWithoutFile(e)
             \/ Load
      PROVE  Places
  <2>1. \/ phase' = "test" /\ arrival' = "reset" /\ cycle_count' = 0
        \/ phase' \in {"host", "load"}
    BY <1>2 DEF Call, CallWithoutFile, AttachTimers, Load, StoreRecord, RejectLine, Returns,
       reset_cpu
  <2> QED
    BY <2>1 DEF Looping, Executed, Tested, BreakFaithful
<1>3. ASSUME TestLoop PROVE Places
  <2>1. /\ phase = "test"
        /\ \/ /\ phase' = "interrupts" /\ Continues
              /\ UNCHANGED <<cycles, break_addr, cycle_count, break_point, pc, opcode, arrival>>
           \/ phase' = "host"
    BY <1>3 DEF TestLoop, Returns, args, cpu
  <2>2. ASSUME Continues
        PROVE  /\ break_point = NO_ERROR
               /\ cycles = FOREVER \/ cycle_count < cycles
               /\ arrival = "flow" => pc # break_addr
    BY <1>l, <2>1, <2>2 DEF Continues, BreakFaithful
  <2> QED
    BY <2>1, <2>2 DEF Looping, Executed, Tested, BreakFaithful
<1>4. ASSUME Interrupt PROVE Places
  <2>1. /\ phase = "interrupts" /\ phase' = "sched"
        /\ UNCHANGED <<cycles, break_addr, cycle_count, break_point>>
        /\ arrival' = "vector" \/ UNCHANGED <<pc, arrival>>
    BY <1>4 DEF Interrupt, args
  <2> QED
    BY <1>l, <2>1 DEF Looping, Executed, Tested, BreakFaithful
<1>5. ASSUME Schedule PROVE Places
  <2>1. /\ phase = "sched" /\ phase' = "execute"
        /\ UNCHANGED <<cycles, break_addr, cycle_count, break_point, pc, arrival>>
    BY <1>5 DEF Schedule, args, cpu
  <2> QED
    BY <1>l, <2>1 DEF Looping, Executed, Tested, BreakFaithful
<1>6. ASSUME Execute PROVE Places
  <2>1. /\ phase = "execute" /\ phase' = "breaks" /\ arrival' = "flow"
        /\ break_point' = IF opcode' = "unimp" THEN UNIMP_BREAK ELSE break_point
    BY <1>6 DEF Execute
  <2>2. break_point = NO_ERROR
    BY <1>l, <2>1 DEF Looping
  <2>3. WithinAnInstr'
    BY <1>6, <1>l, <1>t, ExecuteWithin
  <2> QED
    BY <2>1, <2>2, <2>3 DEF Looping, Executed, Tested, BreakFaithful
<1>7. ASSUME CheckBreaks PROVE Places
  <2>1. /\ phase = "breaks" /\ phase' = "test"
        /\ UNCHANGED <<cycles, break_addr, disable_lock_break, cycle_count, pc, opcode, arrival>>
        /\ break_point' = IF Locked THEN LOCK_BREAK
                          ELSE IF AtBreakAddr THEN USER_BREAK
                          ELSE break_point
    BY <1>7 DEF CheckBreaks, args, host
  <2>2. /\ break_point = IF opcode = "unimp" THEN UNIMP_BREAK ELSE NO_ERROR
        /\ arrival = "flow" /\ WithinAnInstr
    BY <1>l, <2>1 DEF Executed
  <2>3. WithinAnInstr' /\ (Locked' <=> Locked)
    BY <2>1, <2>2 DEF WithinAnInstr, Locked
  <2>4. BreakFaithful'
    BY <2>1, <2>2, <2>3, Codes DEF BreakFaithful, AtBreakAddr, Locked
  <2> QED
    BY <2>1, <2>2, <2>3, <2>4 DEF Looping, Executed, Tested
<1>8. ASSUME UNCHANGED vars PROVE Places
  <2>1. UNCHANGED <<phase, cycles, break_addr, disable_lock_break, cycle_count,
                    break_point, pc, opcode, arrival>>
    BY <1>8 DEF vars, args, cpu, host
  <2>2. Looping' /\ Executed' /\ Tested'
    BY <1>l, <2>1 DEF Looping, Executed, Tested, WithinAnInstr
  <2>3. BreakFaithful'
    BY <1>l, <2>1 DEF BreakFaithful, Locked
  <2> QED
    BY <2>2, <2>3
<1>9. Places
  <2> HIDE DEF Places
  <2> QED
    BY <1>1, <1>2, <1>3, <1>4, <1>5, <1>6, <1>7, <1>8 DEF Next, Loop
<1> QED
  BY <1>9, <1>f, <1>t DEF Inv
-----------------------------------------------------------------------------
(* Types, and what the loop knows at each place, hold in every state. *)
THEOREM Invariance == Spec => []Inv
BY InitInv, NextInv, PTL DEF Spec

(* The variables of run_program() keep their types in every run. *)
THEOREM TypeCorrect == Spec => []TypeOK
<1>1. Inv => TypeOK
  BY DEF Inv
<1> QED
  BY <1>1, Invariance, PTL

(* For every file: a run has in code memory what the last record for each  *)
(* address says, and began at the end of the file or at an EOF record.     *)
THEOREM LoadsItsFile == Spec => []RunsItsFile
<1>1. Inv => RunsItsFile
  BY DEF Inv
<1> QED
  BY <1>1, Invariance, PTL

(* The break that run_program() finds flagged is the one that occurred, and *)
(* none is flagged only if none occurred.                                  *)
THEOREM Faithful == Spec => []BreakFaithful
<1>1. Inv => BreakFaithful
  BY DEF Inv
<1> QED
  BY <1>1, Invariance, PTL

(* Of all the steps of the loop only its test ends a run. *)
LEMMA OnlyTestEnds ==
  ASSUME [Next]_vars, phase = "test", phase' = "host" PROVE TestLoop
BY DEF Next, Load, Loop, vars, SetLockBreak, RegisterTimeCallback, HostRuns, Call,
       CallWithoutFile, AttachTimers, StoreRecord, RejectLine, reset_cpu, Interrupt,
       Schedule, Execute, CheckBreaks

(* A run ends by a break, or less than an instruction past its positive    *)
(* limit, or its limit was negative.                                       *)
THEOREM LimitExact == Spec => CycleLimitExact
<1>1. ASSUME Inv, [Next]_vars, phase = "test", phase' = "host", result' = NO_ERROR,
             cycles >= 0
      PROVE  /\ cycles > 0 /\ cycles <= cycle_count
             /\ \E c \in ClkCycles : cycle_count < cycles + c
  <2>1. TestLoop
    BY <1>1, OnlyTestEnds
  <2>2. ~Continues /\ break_point = NO_ERROR
    BY <1>1, <2>1 DEF TestLoop, Returns
  <2>3. cycles \in Int /\ cycle_count \in Nat
    BY <1>1, ArgsAssumption, ClockAssumption, Codes DEF Inv, TypeOK
  <2>4. cycles > 0 /\ cycles <= cycle_count
    BY <1>1, <2>2, <2>3, Codes DEF Continues
  <2>5. arrival = "flow"
    BY <1>1, <2>3, <2>4 DEF Inv, Tested
  <2>6. \E c \in ClkCycles : cycle_count < cycles + c
    BY <1>1, <2>4, <2>5, Codes DEF Inv, Tested, WithinAnInstr
  <2> QED
    BY <2>4, <2>6
<1>2. Inv /\ [Next]_vars =>
        [phase = "test" /\ phase' = "host" /\ result' = NO_ERROR /\ cycles >= 0 =>
           /\ cycles > 0 /\ cycles <= cycle_count
           /\ \E c \in ClkCycles : cycle_count < cycles + c]_vars
  BY <1>1
<1> QED
  BY <1>2, Invariance, PTL DEF Spec, CycleLimitExact

(* An instruction at the break address is executed only when reset or an   *)
(* interrupt led there.                                                    *)
THEOREM MissedOnlyOnEntry == Spec => BreakMissedOnlyOnEntry
<1>1. Inv => (phase = "execute" /\ pc = break_addr /\ phase' = "breaks" =>
                arrival \in {"reset", "vector"})
  BY DEF Inv, Looping, TypeOK
<1> QED
  BY <1>1, Invariance, PTL DEF BreakMissedOnlyOnEntry
=============================================================================

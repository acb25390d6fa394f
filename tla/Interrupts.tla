----------------------------- MODULE Interrupts -----------------------------
(***************************************************************************)
(* The interrupt system of the simulator: one pass of process_interrupts() *)
(* before every instruction, the vectoring done by interrupt(), and the    *)
(* return done by RETI.  A step is one callback slot of the pass, one      *)
(* write a callback makes through the user API, or one instruction, so the *)
(* state the pass keeps in locals across callbacks is visible.             *)
(***************************************************************************)
EXTENDS TimerEffects, Sequences

CONSTANTS
  Callbacks,   \* the sources, and "sched", that may have a callback
  Switched,    \* those of them whose callback the host registers and takes back
  IeWrites, IpWrites, TconWrites,  \* register values programs and callbacks store
  ModeWrites,  \* timer modes programs store in TMOD, as [Tim -> TimerModes]
  MaxSleep,    \* longest time a callback asks to be left alone (bound)
  ClkCycles    \* cycles an instruction may take

ASSUME CallbacksAssumption == /\ Callbacks \subseteq Sources \cup {"sched"}
                              /\ Switched \subseteq Callbacks \ Tim
ASSUME WritesAssumption == /\ IeWrites \subseteq Byte
                           /\ IpWrites \subseteq Byte
                           /\ TconWrites \subseteq Byte
                           /\ ModeWrites \subseteq [Tim -> TimerModes]
ASSUME TimeAssumption == /\ MaxSleep \in Nat
                         /\ ClkCycles \subseteq Nat \ {0}
                         /\ ClkCycles # {}

VARIABLES
  ie, ip, tcon,    \* the SFRs of those names
  mode,            \* the mode fields of TMOD, per timer
  tconCopy,        \* process_interrupts()'s local tcon
  phase,           \* where the loop of run_program() stands
  int_level, last_int_level,
  pc,              \* the routine the next instruction belongs to
  stack,           \* the routines return addresses on the stack lead back to
  last_ext_int,    \* last_ext0_int, last_ext1_int
  sleep,           \* wakeup_time_* - cycle_count, 0 once passed
  registered       \* whose callback pointer is not NULL

registers == <<ie, ip, tcon, mode>>
levels == <<int_level, last_int_level, pc, stack>>
vars == <<registers, tconCopy, phase, levels, last_ext_int, sleep, registered>>

Sleepers == Ext \cup {"sched"}
Routines == {"main"} \cup Sources
Phases == {"gate", "sched", "execute"} \cup Sources

After(p) == CASE p = "EXT0" -> "TIM0"
              [] p = "TIM0" -> "EXT1"
              [] p = "EXT1" -> "TIM1"
              [] p = "TIM1" -> "sched"
              [] OTHER -> "gate"

Init == /\ ie = {} /\ ip = {} /\ tcon = {} /\ tconCopy = {}
        /\ mode = [t \in Tim |-> TIMER_13BIT]
        /\ phase = "gate"
        /\ int_level = INT_LVL_OFF /\ last_int_level = INT_LVL_OFF
        /\ pc = "main" /\ stack = <<>>
        \* reset_cpu() leaves these as an earlier run left them
        /\ last_ext_int \in [Ext -> BOOLEAN]
        /\ sleep \in [Sleepers -> 0 .. MaxSleep]
        /\ registered \in {Callbacks \ S : S \in SUBSET Switched}
-----------------------------------------------------------------------------
(* interrupt(): service s at its priority, with newTcon as the TCON found. *)
Priority(s) == IF EnableBit(s) \in ip THEN INT_LVL_HI ELSE INT_LVL_LO

ClearingBoth(s, newTcon) == IF s \in Ext THEN newTcon \ {IE0, IE1} ELSE newTcon
Clearing(s, newTcon) == IF s \in Ext THEN newTcon \ {RequestFlag(s)} ELSE newTcon

VectorAddingLevels(s, newTcon) == /\ last_int_level' = int_level
                                  /\ int_level' = int_level + Priority(s)
                                  /\ stack' = Append(stack, pc)
                                  /\ pc' = s
                                  /\ tcon' = Clearing(s, newTcon)

Vector(s, newTcon) == /\ last_int_level' = int_level
                      /\ int_level' = Priority(s)
                      /\ stack' = Append(stack, pc)
                      /\ pc' = s
                      /\ tcon' = Clearing(s, newTcon)

(* The condition under which a request of s is taken now. *)
AdmitsAtAnyLevel(s) == EnableBit(s) \in ie
                       /\ (EnableBit(s) \in ip \/ int_level = INT_LVL_OFF)

Admits(s) == /\ EnableBit(s) \in ie
             /\ \/ EnableBit(s) \in ip /\ int_level # INT_LVL_HI
                \/ int_level = INT_LVL_OFF

VectorIf(taken, s, newTcon) ==
  \/ taken /\ Vector(s, newTcon)
  \/ ~taken /\ tcon' = newTcon /\ UNCHANGED levels
-----------------------------------------------------------------------------
(* The test on entry masks IE with the position of EA, not with its mask.  *)
PassOpen == ie \cap MaskBits(IP_EA_BIT) # {} /\ int_level # INT_LVL_HI

BeginPass == /\ phase = "gate"
             /\ tconCopy' = tcon
             /\ phase' = IF PassOpen THEN "EXT0" ELSE "sched"
             /\ UNCHANGED <<registers, levels, last_ext_int, sleep, registered>>

CallbackDue(s) == s \in registered /\ (s \in Sleepers => sleep[s] = 0)

(* A callback may unregister itself; the call it is in goes on.            *)
Keeps(s, stays) == registered' = IF stays THEN registered
                                 ELSE registered \ ({s} \cap Switched)

(* irq is the callback's answer.  The latch goes to the local copy, which  *)
(* is then stored over TCON.                                               *)
Latches(s, irq) == irq /\ ~(EdgeFlag(s) \in tconCopy /\ last_ext_int[s])

PollExt(s, irq, nap, stays) ==
  LET copy == IF Latches(s, irq) THEN tconCopy \cup {RequestFlag(s)} ELSE tconCopy
      stored == IF Latches(s, irq) THEN copy ELSE tcon
  IN /\ phase = s /\ CallbackDue(s)
     /\ tconCopy' = copy
     /\ last_ext_int' = [last_ext_int EXCEPT ![s] = irq]
     /\ sleep' = [sleep EXCEPT ![s] = nap]
     /\ VectorIf(Admits(s) /\ RequestFlag(s) \in copy, s, stored)
     /\ phase' = After(s)
     /\ Keeps(s, stays)
     /\ UNCHANGED <<ie, ip, mode>>

(* timer() is called on every open pass: it never sets its wakeup time.    *)
PollTimer(t, outcome) ==
  /\ phase = t /\ CallbackDue(t)
  /\ VectorIf(Admits(t) /\ outcome.irq, t, outcome.tcon)
  /\ phase' = After(t)
  /\ UNCHANGED <<ie, ip, mode, tconCopy, last_ext_int, sleep, registered>>

SkipPoll(s) == /\ phase = s /\ ~CallbackDue(s)
               /\ phase' = After(s)
               /\ UNCHANGED <<registers, tconCopy, levels, last_ext_int, sleep, registered>>

(* The scheduled callback of run_program(), or its absence.  The locals of *)
(* the pass are gone.                                                      *)
TimeCallback(nap, stays) ==
  /\ phase = "sched"
  /\ \/ /\ CallbackDue("sched")
        /\ sleep' = [sleep EXCEPT !["sched"] = nap] /\ Keeps("sched", stays)
     \/ ~CallbackDue("sched") /\ UNCHANGED <<sleep, registered>>
  /\ tconCopy' = {}
  /\ phase' = "execute"
  /\ UNCHANGED <<registers, levels, last_ext_int>>

(* A callback that is running calls set_iram_byte(). *)
HostWrite == /\ phase \in Sleepers /\ CallbackDue(phase)
             /\ \/ ie' \in IeWrites /\ UNCHANGED <<ip, tcon, mode>>
                \/ ip' \in IpWrites /\ UNCHANGED <<ie, tcon, mode>>
                \/ tcon' \in TconWrites /\ UNCHANGED <<ie, ip, mode>>
                \/ mode' \in ModeWrites /\ UNCHANGED <<ie, ip, tcon>>
             /\ UNCHANGED <<tconCopy, phase, levels, last_ext_int, sleep, registered>>

(* A callback that is running registers or unregisters another.            *)
HostRegister == /\ phase \in Sleepers /\ CallbackDue(phase)
                /\ \E s \in Switched \ {phase} :
                     registered' \in {registered \cup {s}, registered \ {s}}
                /\ UNCHANGED <<registers, tconCopy, phase, levels, last_ext_int, sleep>>
-----------------------------------------------------------------------------
(* One instruction, by what it does to this state. *)
Elapse == \E c \in ClkCycles :
            sleep' = [s \in Sleepers |-> IF sleep[s] > c THEN sleep[s] - c ELSE 0]

Execute == phase = "execute" /\ phase' = "gate" /\ Elapse
           /\ UNCHANGED <<tconCopy, last_ext_int, registered>>

ExecuteOther == Execute /\ UNCHANGED <<registers, levels>>

ExecuteSfrWrite ==
  /\ Execute
  /\ \/ ie' \in IeWrites /\ UNCHANGED <<ip, tcon, mode>>
     \/ ip' \in IpWrites /\ UNCHANGED <<ie, tcon, mode>>
     \/ tcon' \in TconWrites /\ UNCHANGED <<ie, ip, mode>>
     \/ mode' \in ModeWrites /\ UNCHANGED <<ie, ip, tcon>>
  /\ UNCHANGED levels

(* RETI: a program executes it to leave a handler, and only there. *)
RetiToProgramLevel == /\ Execute
                      /\ stack # <<>>
                      /\ pc' = stack[Len(stack)]
                      /\ stack' = SubSeq(stack, 1, Len(stack) - 1)
                      /\ int_level' = INT_LVL_OFF
                      /\ last_int_level' = INT_LVL_OFF
                      /\ UNCHANGED registers

ExecuteReti == /\ Execute
               /\ stack # <<>>
               /\ pc' = stack[Len(stack)]
               /\ stack' = SubSeq(stack, 1, Len(stack) - 1)
               /\ int_level' = last_int_level
               /\ last_int_level' = INT_LVL_OFF
               /\ UNCHANGED registers

Poll == \/ \E s \in Ext, irq \in BOOLEAN, nap \in 0 .. MaxSleep, stays \in BOOLEAN :
             PollExt(s, irq, nap, stays)
        \/ \E t \in Tim : \E outcome \in TimerOutcomes(t, mode, tcon) :
             PollTimer(t, outcome)
        \/ \E s \in Sources : SkipPoll(s)

Loop == \/ BeginPass
        \/ Poll
        \/ \E nap \in 0 .. MaxSleep, stays \in BOOLEAN : TimeCallback(nap, stays)
        \/ ExecuteOther
        \/ ExecuteSfrWrite
        \/ ExecuteReti

Next == Loop \/ HostWrite \/ HostRegister

Spec == Init /\ [][Next]_vars

(* The loop of run_program() never blocks, callbacks return, and a program *)
(* does not stay in a handler for ever.                                    *)
Fairness == WF_vars(Loop) /\ SF_vars(ExecuteReti)

FairSpec == Spec /\ Fairness
-----------------------------------------------------------------------------
(* Each variable holds what the code can store in it; the saved routines   *)
(* are as deep as the two level variables can tell apart.                  *)
TypeOK == /\ ie \in Byte /\ ip \in Byte /\ tcon \in Byte /\ tconCopy \in Byte
          /\ mode \in [Tim -> TimerModes]
          /\ phase \in Phases
          /\ int_level \in Levels /\ last_int_level \in Levels
          /\ pc \in Routines
          /\ stack \in Seq(Routines)
          /\ last_ext_int \in [Ext -> BOOLEAN]
          /\ sleep \in [Sleepers -> 0 .. MaxSleep]
          /\ Callbacks \ Switched \subseteq registered /\ registered \subseteq Callbacks

(* int_level and last_int_level are two variables, not a stack: this is    *)
(* why they suffice.  No handler is active, or one is and will return to   *)
(* the program at level OFF, or a high one interrupted a low one.  A third *)
(* entry would overwrite the level the first has to return to.             *)
Idle == /\ int_level = INT_LVL_OFF /\ last_int_level = INT_LVL_OFF
        /\ pc = "main" /\ Len(stack) = 0

OneHandler == /\ int_level \in {INT_LVL_LO, INT_LVL_HI}
              /\ last_int_level = INT_LVL_OFF
              /\ pc \in Sources
              /\ Len(stack) = 1 /\ stack[1] = "main"

Nested == /\ int_level = INT_LVL_HI /\ last_int_level = INT_LVL_LO
          /\ pc \in Sources
          /\ Len(stack) = 2 /\ stack[1] = "main" /\ stack[2] \in Sources

NestingInv == Idle \/ OneHandler \/ Nested

(* The handlers entered and not left, as the abstract specification sees   *)
(* them: all but the last run at the saved level.                          *)
Frames == [i \in 1 .. Len(stack) |->
             [source |-> IF i = Len(stack) THEN pc ELSE stack[i + 1],
              level |-> IF i = Len(stack) THEN int_level ELSE last_int_level]]

Abstract == INSTANCE InterruptLevels
              WITH Source <- Sources, MaxLevel <- INT_LVL_HI, frames <- Frames

(* Vectoring and RETI nest handlers as InterruptLevels promises: a handler *)
(* is entered only above the level it interrupts, and RETI resumes what    *)
(* was interrupted, at its level.                                          *)
ImplementsLevels == Abstract!Spec

(* A high handler closes the gate to every callback, callbacks sleep, come *)
(* and go, and the sources of a pass share one stale copy of TCON.  Still  *)
(* an external request that is flagged when a pass begins is not lost, and *)
(* lower sources do not starve it: its handler is entered at the high      *)
(* level in the end.  The way out is its callback gone, the source no      *)
(* longer enabled and high, or a source polled before it high too; the     *)
(* flag being clear is none.  pc = s at that level is a handler just       *)
(* entered or one still running: to a request flagged meanwhile the        *)
(* property applies again after its RETI.                                  *)
PolledBefore(s) == IF s = "EXT0" THEN {} ELSE {"EXT0", "TIM0"}

FirstInPriority(s) == /\ s \in registered
                      /\ EnableBit(s) \in ie
                      /\ EnableBit(s) \in ip
                      /\ \A t \in PolledBefore(s) : EnableBit(t) \notin ip

HandledHigh(s) == pc = s /\ int_level = INT_LVL_HI

HighRequestServed ==
  \A s \in Ext \cap Callbacks :
    (phase = "gate" /\ RequestFlag(s) \in tcon /\ FirstInPriority(s))
      ~> (HandledHigh(s) \/ ~FirstInPriority(s))

(* process_interrupts() says it checks "only if globally enabled": with EA *)
(* clear, no source is vectored to.                                        *)
NoVectorWhileDisabled ==
  [][Len(stack') > Len(stack) => IP_EA_BIT \in ie]_vars

(* A callback returns 0 when no interrupt is to be generated: while no     *)
(* program stores request flags itself, the flag of an external source is  *)
(* raised by its own callback answering so, and by nothing else.           *)
RaisedOnlyByItsCallback ==
  [][\A s \in Ext : RequestFlag(s) \in tcon' \ tcon
                     => phase = s /\ last_ext_int'[s]]_vars
=============================================================================

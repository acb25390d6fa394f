----------------------------- MODULE RunProgram -----------------------------
(***************************************************************************)
(* run_program(): one call loads a program, resets the CPU and loops until *)
(* a cycle count or a break ends it; the host may call it again.  What     *)
(* neither the load nor reset_cpu() touches survives to the next call: the *)
(* rest of code memory, too, and all of the CPU if the load fails.         *)
(***************************************************************************)
EXTENDS Loader

CONSTANTS
  Files,       \* those a host may name: the sequences of their lines
  Kind,        \* which instruction a byte of code is
  Leads,       \* byte -> address -> where that instruction may lead from there
  Zero,        \* the byte code memory holds before any load
  Vectors,     \* the interrupt vectors
  CycleArgs, BreakArgs, EnableArgs,  \* arguments hosts pass
  ClkCycles,   \* cycles an instruction may take
  Horizon      \* the clock stops counting there: beyond every wakeup and limit

ResetAddr == 0
Ops == {"plain", "lock", "unimp"}   \* "lock" is SJMP to itself

FOREVER == 0
NO_ERROR == 0
UNIMP_BREAK == 1
USER_BREAK == 2
LOCK_BREAK == 3
LoadError == 1   \* what run_program() returns when read_ihx() fails

ASSUME CodeAssumption ==
  /\ Addr \subseteq Nat /\ ResetAddr \in Addr /\ Vectors \subseteq Addr
  /\ Zero \in Byte /\ Kind \in [Byte -> Ops]
  /\ Leads \in [Byte -> [Addr -> SUBSET Addr \ {{}}]]
ASSUME FilesAssumption == \A f \in Files : f \in Seq(Line) /\ \A i \in DOMAIN f : Fits(f[i])
ASSUME ArgsAssumption ==
  /\ CycleArgs \subseteq Int /\ BreakArgs \subseteq Int
  /\ EnableArgs \subseteq SUBSET {"TIM0", "TIM1"}
ASSUME ClockAssumption ==
  /\ ClkCycles \subseteq Nat \ {0} /\ ClkCycles # {}
  /\ Horizon \in Nat
  /\ \A n \in CycleArgs, c \in ClkCycles : n + c < Horizon

VARIABLES
  phase,        \* "host" outside run_program(), else where it stands
  cycles, break_addr, file,  \* its arguments
  line,         \* how many data records of the file it has stored
  code_mem,
  cycle_count, break_point, pc,
  opcode,       \* what execute() decoded last
  result,       \* what the last call returned
  timCallbacks, \* the timers whose callback pointer is set
  disable_lock_break,
  registered, wakeup_time_sched,     \* the scheduled callback
  arrival       \* history: how pc came to be where it is

args == <<cycles, break_addr, file>>
load == <<line, code_mem>>
cpu == <<cycle_count, break_point, pc, opcode, arrival>>
host == <<result, timCallbacks, disable_lock_break, registered>>
vars == <<phase, args, load, cpu, host, wakeup_time_sched>>

Phases == {"host", "load", "test", "interrupts", "sched", "execute", "breaks"}

Init == /\ phase = "host"
        /\ cycles = FOREVER /\ break_addr = -1 /\ file = <<>> /\ line = 0
        /\ code_mem = [a \in Addr |-> Zero]
        /\ cycle_count = 0 /\ break_point = NO_ERROR /\ pc = ResetAddr
        /\ opcode = "plain" /\ arrival = "reset"
        /\ result = NO_ERROR /\ timCallbacks = {}
        /\ disable_lock_break = FALSE
        /\ registered = FALSE /\ wakeup_time_sched = -1
-----------------------------------------------------------------------------
CallbackDueOnTheCycle == registered /\ wakeup_time_sched = cycle_count
CallbackDue == registered /\ wakeup_time_sched <= cycle_count

(* The host calls the API between runs and from inside its callbacks.      *)
HostRuns == phase \in {"host", "interrupts"} \/ (phase = "sched" /\ CallbackDue)

SetLockBreak == /\ HostRuns
                /\ disable_lock_break' \in BOOLEAN
                /\ UNCHANGED <<phase, args, load, cpu, result, timCallbacks, registered,
                               wakeup_time_sched>>

RegisterTimeCallback == /\ phase \in {"host", "interrupts"}
                        /\ registered' \in BOOLEAN
                        /\ UNCHANGED <<phase, args, load, cpu, result, timCallbacks,
                                       disable_lock_break, wakeup_time_sched>>

(* The arguments and locals of a call are gone when it returns. *)
Returns(value) == /\ phase' = "host" /\ result' = value
                  /\ cycles' = FOREVER /\ break_addr' = -1 /\ file' = <<>> /\ line' = 0

(* The timers are attached before the program is loaded, never detached.   *)
AttachTimers(e) == /\ phase = "host"
                   /\ timCallbacks' = timCallbacks \cup e
                   /\ UNCHANGED <<code_mem, cpu, disable_lock_break, registered,
                                  wakeup_time_sched>>

Call(n, b, e, f) == /\ AttachTimers(e)
                    /\ phase' = "load"
                    /\ cycles' = n /\ break_addr' = b /\ file' = f
                    /\ line' = 0
                    /\ UNCHANGED result

CallWithoutFile(e) == /\ AttachTimers(e)
                      /\ result' = LoadError
                      /\ UNCHANGED <<phase, args, line>>

(* read_ihx(): the lines up to the EOF record, or to the end.              *)
AtEnd == line < Len(file) => IsEof(file[line + 1])

StoreRecord == /\ phase = "load" /\ line < Len(file) /\ IsData(file[line + 1])
               /\ code_mem' = Stored(code_mem, file[line + 1])
               /\ line' = line + 1
               /\ UNCHANGED <<phase, args, cpu, host, wakeup_time_sched>>

RejectLine == /\ phase = "load" /\ line < Len(file)
              /\ ~IsData(file[line + 1]) /\ ~IsEof(file[line + 1])
              /\ Returns(LoadError)
              /\ UNCHANGED <<code_mem, cpu, timCallbacks, disable_lock_break, registered,
                             wakeup_time_sched>>

reset_cpu == /\ phase = "load" /\ AtEnd
             /\ phase' = "test"
             /\ pc' = ResetAddr /\ cycle_count' = 0 /\ break_point' = NO_ERROR
             /\ arrival' = "reset"
             /\ UNCHANGED <<args, load, opcode, host, wakeup_time_sched>>

Load == StoreRecord \/ RejectLine \/ reset_cpu

ContinuesAtLimit == /\ cycles = FOREVER \/ cycle_count <= cycles
                    /\ break_point = NO_ERROR
ContinuesForever == break_point = NO_ERROR

Continues == /\ cycles = FOREVER \/ cycle_count < cycles
             /\ break_point = NO_ERROR

TestLoop == /\ phase = "test"
            /\ IF Continues
               THEN phase' = "interrupts" /\ UNCHANGED <<result, args, line>>
               ELSE Returns(break_point)
            /\ UNCHANGED <<code_mem, cpu, timCallbacks, disable_lock_break, registered,
                           wakeup_time_sched>>

(* process_interrupts(), as far as the loop sees it. *)
Interrupt == /\ phase = "interrupts"
             /\ phase' = "sched"
             /\ \/ pc' \in Vectors /\ arrival' = "vector"
                \/ UNCHANGED <<pc, arrival>>
             /\ UNCHANGED <<args, load, host, cycle_count, break_point, opcode,
                            wakeup_time_sched>>

(* The callback leaves its wakeup time alone or names a cycle, and in the  *)
(* same call it may unregister itself.                                     *)
Schedule == /\ phase = "sched"
            /\ phase' = "execute"
            /\ \/ /\ CallbackDue
                  /\ registered' \in BOOLEAN
                  /\ \/ UNCHANGED wakeup_time_sched
                     \/ wakeup_time_sched' \in cycle_count .. Horizon
               \/ ~CallbackDue /\ UNCHANGED <<registered, wakeup_time_sched>>
            /\ UNCHANGED <<args, load, cpu, result, timCallbacks, disable_lock_break>>

Advanced(c) == IF cycle_count + c > Horizon THEN Horizon ELSE cycle_count + c

Execute == /\ phase = "execute"
           /\ phase' = "breaks"
           /\ opcode' = Kind[code_mem[pc]]
           /\ pc' \in Leads[code_mem[pc]][pc]
           /\ \E c \in ClkCycles : cycle_count' = Advanced(c)
           /\ break_point' = IF opcode' = "unimp" THEN UNIMP_BREAK ELSE break_point
           /\ arrival' = "flow"
           /\ UNCHANGED <<args, load, host, wakeup_time_sched>>

(* The lock test does not ask whether a break is already flagged. *)
Locked == ~disable_lock_break /\ opcode = "lock"
AtBreakAddrAnyway == pc = break_addr
AtBreakAddrNegated == pc = break_addr /\ break_point # NO_ERROR
AtBreakAddr == pc = break_addr /\ break_point = NO_ERROR

CheckBreaksSummed == /\ phase = "breaks"
                     /\ phase' = "test"
                     /\ break_point' = break_point + (IF Locked THEN LOCK_BREAK ELSE 0)
                                          + (IF AtBreakAddr THEN USER_BREAK ELSE 0)
                     /\ UNCHANGED <<args, load, host, cycle_count, pc, opcode, arrival,
                                    wakeup_time_sched>>

CheckBreaks == /\ phase = "breaks"
               /\ phase' = "test"
               /\ break_point' = IF Locked THEN LOCK_BREAK
                                 ELSE IF AtBreakAddr THEN USER_BREAK
                                 ELSE break_point
               /\ UNCHANGED <<args, load, host, cycle_count, pc, opcode, arrival,
                              wakeup_time_sched>>

Loop == TestLoop \/ Interrupt \/ Schedule \/ Execute \/ CheckBreaks

Next == \/ SetLockBreak \/ RegisterTimeCallback
        \/ \E n \in CycleArgs, b \in BreakArgs, e \in EnableArgs, f \in Files : Call(n, b, e, f)
        \/ \E e \in EnableArgs : CallWithoutFile(e)
        \/ Load \/ Loop

Spec == Init /\ [][Next]_vars

(* run_program() runs to its end once it is called. *)
FairSpec == Spec /\ WF_vars(Load \/ Loop)
-----------------------------------------------------------------------------
(* Each variable holds what run_program() can store in it. *)
TypeOK == /\ phase \in Phases
          /\ cycles \in CycleArgs \cup {FOREVER} /\ break_addr \in BreakArgs \cup {-1}
          /\ file \in Files \cup {<<>>} /\ line \in 0 .. Len(file)
          /\ code_mem \in [Addr -> Byte]
          /\ cycle_count \in 0 .. Horizon
          /\ break_point \in {NO_ERROR, UNIMP_BREAK, USER_BREAK, LOCK_BREAK}
          /\ pc \in Addr /\ opcode \in Ops
          /\ result \in {NO_ERROR, UNIMP_BREAK, USER_BREAK, LOCK_BREAK}
          /\ timCallbacks \in SUBSET {"TIM0", "TIM1"}
          /\ disable_lock_break \in BOOLEAN /\ registered \in BOOLEAN
          /\ wakeup_time_sched \in -1 .. Horizon
          /\ arrival \in {"reset", "vector", "flow"}

(* Whatever failed and earlier loads left behind: of the records a load    *)
(* went through, all are data and the last one for an address is what is   *)
(* there, and a program runs only after its file was read to the end, or   *)
(* to an EOF record.                                                       *)
RunsItsFile ==
  phase # "host" =>
    /\ \A i \in 1 .. line : IsData(file[i])
    /\ \A a \in Addr : \A i \in 1 .. line :
         Covers(file[i], a) /\ (\A j \in i + 1 .. line : ~Covers(file[j], a))
           => code_mem[a] = ByteFor(file[i], a)
    /\ phase # "load" /\ line < Len(file) => IsEof(file[line + 1])

(* A flagged break is the truth about the instruction just executed, and   *)
(* an unflagged one means no break condition held.  The order of the three *)
(* assignments to break_point gives a lock precedence over a user break    *)
(* and over an unimplemented opcode, which precedes a user break: the      *)
(* address reached by such an opcode is a break nobody is told of.         *)
BreakFaithful ==
  phase = "test" /\ arrival = "flow" =>
    /\ break_point = UNIMP_BREAK => opcode = "unimp"
    /\ break_point = USER_BREAK => pc = break_addr /\ opcode # "unimp" /\ ~Locked
    /\ break_point = LOCK_BREAK => Locked
    /\ break_point = NO_ERROR => pc # break_addr /\ opcode # "unimp" /\ ~Locked

(* A run that is to go on forever ends by a break alone; one with a        *)
(* positive limit that ends without a break stops at the first instruction *)
(* boundary at or past the limit, less than an instruction beyond.         *)
CycleLimitExact ==
  [][phase = "test" /\ phase' = "host" /\ result' = NO_ERROR /\ cycles >= 0 =>
       /\ cycles > 0 /\ cycles <= cycle_count
       /\ \E c \in ClkCycles : cycle_count < cycles + c]_vars

(* The comment on the loop has it run "forever (if cycles negative)": such *)
(* a run, too, would end by a break alone.                                 *)
NegativeRunsForever ==
  [][phase = "test" /\ phase' = "host" /\ result' = NO_ERROR => cycles >= 0]_vars

(* Execution passes the break address without stopping only when it starts *)
(* there or an interrupt vectors there: neither is seen by the test, which *)
(* follows an instruction.                                                 *)
BreakMissedOnlyOnEntry ==
  [][phase = "execute" /\ pc = break_addr /\ phase' = "breaks" =>
       arrival \in {"reset", "vector"}]_vars

(* A run with a positive limit returns, whatever the program and the       *)
(* callbacks do.                                                           *)
LimitedRunReturns == (phase = "load" /\ cycles > 0) ~> phase = "host"

(* While a run goes on, a registered callback is called again and again: no *)
(* instruction steps over its wakeup time, nor does a reset of cycle_count  *)
(* below a wakeup time an earlier run left behind.                          *)
CallbackNotForgotten ==
  (registered /\ phase = "test")
     ~> (phase = "host" \/ ~registered \/ (phase = "sched" /\ CallbackDue))
=============================================================================

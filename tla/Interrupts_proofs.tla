-------------------------- MODULE Interrupts_proofs --------------------------
(***************************************************************************)
(* Proofs about Interrupts for every choice of its constants.              *)
(***************************************************************************)
EXTENDS Interrupts, SequenceTheorems, TLAPS

Inv == TypeOK /\ NestingInv

LEMMA OutcomeType ==
  ASSUME NEW t \in Tim, NEW m \in [Tim -> TimerModes], NEW tc \in Byte,
         NEW o \in TimerOutcomes(t, m, tc)
  PROVE  o.irq \in BOOLEAN /\ o.tcon \in Byte
<1>1. TF0 \in Bit /\ TF1 \in Bit
  BY DEF TF0, TF1, Bit
<1>2. OverflowTcon(t, m, tc) \in Byte /\ tc \cup {TF1} \in Byte
  BY <1>1 DEF OverflowTcon, Byte
<1>3. OverflowRequests(t, m) \in BOOLEAN
  BY DEF OverflowRequests
<1>4. CASE o = [irq |-> FALSE, tcon |-> tc]
  BY <1>4
<1>5. CASE o = [irq |-> OverflowRequests(t, m), tcon |-> OverflowTcon(t, m, tc)]
  BY <1>2, <1>3, <1>5
<1>6. CASE o = [irq |-> TRUE, tcon |-> tc \cup {TF1}]
  BY <1>2, <1>6
<1> QED
  BY <1>4, <1>5, <1>6, Zenon DEF TimerOutcomes

(* Pushing and popping a return address. *)
LEMMA PushFacts ==
  ASSUME NEW q \in Seq(Routines), NEW e \in Routines
  PROVE  /\ Append(q, e) \in Seq(Routines)
         /\ Len(Append(q, e)) = Len(q) + 1
         /\ \A i \in 1 .. Len(q) : Append(q, e)[i] = q[i]
         /\ Append(q, e)[Len(q) + 1] = e
BY AppendProperties

LEMMA PopFacts ==
  ASSUME NEW q \in Seq(Routines), q # <<>>
  PROVE  /\ SubSeq(q, 1, Len(q) - 1) \in Seq(Routines)
         /\ Len(q) \in Nat \ {0}
         /\ Len(SubSeq(q, 1, Len(q) - 1)) = Len(q) - 1
         /\ \A i \in 1 .. Len(q) - 1 : SubSeq(q, 1, Len(q) - 1)[i] = q[i]
<1>1. Len(q) \in Nat /\ Len(q) # 0 /\ \A i \in 1 .. Len(q) : q[i] \in Routines
  OBVIOUS
<1> DEFINE n == Len(q) - 1
<1>2. n \in Int /\ 1 \in Int /\ \A i \in 1 .. n : q[i] \in Routines
  BY <1>1
<1> HIDE DEF n
<1>3. /\ SubSeq(q, 1, n) \in Seq(Routines)
      /\ Len(SubSeq(q, 1, n)) = IF 1 <= n THEN n - 1 + 1 ELSE 0
      /\ \A i \in 1 .. n - 1 + 1 : SubSeq(q, 1, n)[i] = q[1 + i - 1]
  BY <1>2, SubSeqProperties
<1>4. /\ SubSeq(q, 1, n) \in Seq(Routines)
      /\ Len(SubSeq(q, 1, n)) = n
      /\ \A i \in 1 .. n : SubSeq(q, 1, n)[i] = q[i]
  <2>1. n \in Nat
    BY <1>1 DEF n
  <2>2. n - 1 + 1 = n /\ \A i \in 1 .. n : 1 + i - 1 = i
    BY <2>1
  <2> QED
    BY <1>3, <2>1, <2>2
<1> QED
  BY <1>1, <1>4 DEF n

(* Taking an admitted request turns each shape of NestingInv into one of   *)
(* its shapes: this is where Admits is needed.                             *)
LEMMA VectorNests ==
  ASSUME TypeOK, NestingInv, NEW s \in Sources, Admits(s),
         NEW newTcon \in Byte, Vector(s, newTcon)
  PROVE  /\ NestingInv'
         /\ int_level' \in Levels /\ last_int_level' \in Levels
         /\ pc' \in Routines /\ stack' \in Seq(Routines)
         /\ tcon' \in Byte
<1> USE DEF Vector, INT_LVL_OFF, INT_LVL_LO, INT_LVL_HI, Levels
<1>1. Priority(s) \in {INT_LVL_LO, INT_LVL_HI}
  BY DEF Priority
<1>2. tcon' \in Byte
  BY DEF Clearing, Byte
<1>3. pc' \in Routines /\ stack' \in Seq(Routines)
  <2>1. pc \in Routines /\ s \in Routines
    BY DEF TypeOK, Routines
  <2> QED
    BY <2>1, PushFacts DEF TypeOK
<1>4. int_level' \in Levels /\ last_int_level' \in Levels
  BY <1>1 DEF TypeOK
<1>5. CASE Idle
  <2>1. Len(stack') = 1 /\ stack'[1] = "main" /\ last_int_level' = INT_LVL_OFF /\ pc' = s
    BY <1>5, PushFacts DEF Idle, TypeOK, Routines
  <2>2. int_level' \in {INT_LVL_LO, INT_LVL_HI}
    BY <1>1
  <2>3. OneHandler'
    BY <2>1, <2>2 DEF OneHandler
  <2> QED
    BY <1>2, <1>3, <1>4, <2>3 DEF NestingInv
<1>6. CASE OneHandler
  <2>1. Priority(s) = INT_LVL_HI /\ int_level = INT_LVL_LO
    BY <1>6 DEF Admits, OneHandler, Priority
  <2>2. Len(stack') = 2 /\ stack'[1] = "main" /\ stack'[2] = pc
    <3>1. stack \in Seq(Routines) /\ pc \in Routines /\ Len(stack) = 1 /\ stack[1] = "main"
      BY <1>6 DEF OneHandler, TypeOK
    <3>2. /\ Len(Append(stack, pc)) = Len(stack) + 1
          /\ \A i \in 1 .. Len(stack) : Append(stack, pc)[i] = stack[i]
          /\ Append(stack, pc)[Len(stack) + 1] = pc
      BY <3>1, PushFacts
    <3> QED
      BY <3>1, <3>2
  <2> QED
    BY <1>2, <1>3, <1>4, <1>6, <2>1, <2>2 DEF OneHandler, NestingInv, Nested
<1>7. CASE Nested
  BY <1>7 DEF Nested, Admits
<1> QED
  BY <1>2, <1>3, <1>4, <1>5, <1>6, <1>7 DEF NestingInv

LEMMA VectorIfNests ==
  ASSUME TypeOK, NestingInv, NEW s \in Sources, NEW taken \in BOOLEAN,
         taken => Admits(s), NEW newTcon \in Byte, VectorIf(taken, s, newTcon)
  PROVE  /\ NestingInv'
         /\ int_level' \in Levels /\ last_int_level' \in Levels
         /\ pc' \in Routines /\ stack' \in Seq(Routines)
         /\ tcon' \in Byte
<1>1. CASE taken /\ Vector(s, newTcon)
  BY <1>1, VectorNests
<1>2. CASE ~taken /\ tcon' = newTcon /\ UNCHANGED levels
  BY <1>2 DEF levels, NestingInv, Idle, OneHandler, Nested, TypeOK
<1> QED
  BY <1>1, <1>2 DEF VectorIf

(* RETI pops exactly the frame its level belongs to. *)
LEMMA RetiNests ==
  ASSUME TypeOK, NestingInv, ExecuteReti
  PROVE  /\ NestingInv'
         /\ int_level' \in Levels /\ last_int_level' \in Levels
         /\ pc' \in Routines /\ stack' \in Seq(Routines)
<1> USE DEF ExecuteReti, INT_LVL_OFF, INT_LVL_LO, INT_LVL_HI, Levels
<1>t. stack \in Seq(Routines)
  BY DEF TypeOK
<1>s. /\ stack' \in Seq(Routines)
      /\ Len(stack') = Len(stack) - 1
      /\ \A i \in 1 .. Len(stack) - 1 : stack'[i] = stack[i]
  BY <1>t, PopFacts
<1>1. CASE OneHandler
  BY <1>1, <1>s DEF OneHandler, NestingInv, Idle, Routines
<1>2. CASE Nested
  BY <1>2, <1>s DEF Nested, NestingInv, OneHandler, Routines
<1>3. CASE Idle
  BY <1>3 DEF Idle
<1> QED
  BY <1>1, <1>2, <1>3 DEF NestingInv

LEMMA InitInv == Init => Inv
<1> SUFFICES ASSUME Init PROVE Inv
  OBVIOUS
<1>1. TypeOK
  BY DEF Init, TypeOK, Byte, Phases, Levels, INT_LVL_OFF, Routines, TimerModes, TIMER_13BIT
<1>2. NestingInv
  BY DEF Init, NestingInv, Idle
<1> QED
  BY <1>1, <1>2 DEF Inv

LEMMA ElapseType ==
  ASSUME TypeOK, Elapse
  PROVE  sleep' \in [Sleepers -> 0 .. MaxSleep]
<1>1. PICK c \in ClkCycles :
        sleep' = [s \in Sleepers |-> IF sleep[s] > c THEN sleep[s] - c ELSE 0]
  BY DEF Elapse
<1>2. c \in Nat \ {0} /\ MaxSleep \in Nat
  BY TimeAssumption
<1>3. ASSUME NEW s \in Sleepers
      PROVE (IF sleep[s] > c THEN sleep[s] - c ELSE 0) \in 0 .. MaxSleep
  BY <1>2 DEF TypeOK
<1> QED
  BY <1>1, <1>3

(* Only the callbacks a host switches come and go. *)
LEMMA KeepsType ==
  ASSUME TypeOK, NEW s, NEW stays, Keeps(s, stays)
  PROVE  Callbacks \ Switched \subseteq registered' /\ registered' \subseteq Callbacks
BY DEF Keeps, TypeOK

LEMMA NextInv == Inv /\ [Next]_vars => Inv'
<1> SUFFICES ASSUME Inv, [Next]_vars PROVE Inv'
  OBVIOUS
<1> USE DEF Inv
<1>t. TypeOK /\ NestingInv
  OBVIOUS
<1>l. UNCHANGED levels => NestingInv' /\ int_level' \in Levels /\ last_int_level' \in Levels
                          /\ pc' \in Routines /\ stack' \in Seq(Routines)
  BY DEF levels, NestingInv, Idle, OneHandler, Nested, TypeOK
<1>p. \A p \in Phases : After(p) \in Phases
  BY DEF After, Phases, Sources, Ext, Tim
<1>1. ASSUME BeginPass PROVE Inv'
  BY <1>1, <1>l DEF BeginPass, TypeOK, registers, Phases, Sources, Ext
<1>2. ASSUME NEW s \in Ext, NEW irq \in BOOLEAN, NEW nap \in 0 .. MaxSleep,
             NEW stays \in BOOLEAN, PollExt(s, irq, nap, stays)
      PROVE  Inv'
  <2> DEFINE copy == IF Latches(s, irq) THEN tconCopy \cup {RequestFlag(s)} ELSE tconCopy
             stored == IF Latches(s, irq) THEN copy ELSE tcon
             taken == Admits(s) /\ RequestFlag(s) \in copy
  <2>1. RequestFlag(s) \in Bit
    BY DEF RequestFlag, IE0, IE1, Bit
  <2>2. copy \in Byte /\ stored \in Byte
    BY <2>1 DEF TypeOK, Byte
  <2>3. taken \in BOOLEAN /\ (taken => Admits(s)) /\ s \in Sources
    BY DEF Admits, Sources
  <2>4. VectorIf(taken, s, stored)
    BY <1>2 DEF PollExt
  <2> HIDE DEF copy, stored, taken
  <2>5. /\ NestingInv'
        /\ int_level' \in Levels /\ last_int_level' \in Levels
        /\ pc' \in Routines /\ stack' \in Seq(Routines)
        /\ tcon' \in Byte
    BY <1>t, <2>2, <2>3, <2>4, VectorIfNests
  <2>6. tconCopy' = copy
    BY <1>2 DEF PollExt, copy
  <2>7. phase' \in Phases
    BY <1>2, <1>p, <2>3 DEF PollExt, Phases
  <2>8. /\ last_ext_int' \in [Ext -> BOOLEAN]
        /\ sleep' \in [Sleepers -> 0 .. MaxSleep]
        /\ UNCHANGED <<ie, ip, mode>>
    BY <1>2 DEF PollExt, TypeOK, Sleepers
  <2>9. Callbacks \ Switched \subseteq registered' /\ registered' \subseteq Callbacks
    BY <1>2, KeepsType DEF PollExt
  <2> QED
    BY <2>2, <2>5, <2>6, <2>7, <2>8, <2>9 DEF TypeOK
<1>3. ASSUME NEW t \in Tim, NEW o \in TimerOutcomes(t, mode, tcon), PollTimer(t, o)
      PROVE  Inv'
  <2>1. o.irq \in BOOLEAN /\ o.tcon \in Byte
    BY OutcomeType DEF TypeOK
  <2>2. (Admits(t) /\ o.irq) \in BOOLEAN /\ t \in Sources
    BY <2>1 DEF Sources
  <2>3. VectorIf(Admits(t) /\ o.irq, t, o.tcon)
    BY <1>3 DEF PollTimer
  <2>4. /\ NestingInv'
        /\ int_level' \in Levels /\ last_int_level' \in Levels
        /\ pc' \in Routines /\ stack' \in Seq(Routines)
        /\ tcon' \in Byte
    BY <1>t, <2>1, <2>2, <2>3, VectorIfNests
  <2>5. phase' \in Phases
    BY <1>3, <1>p, <2>2 DEF PollTimer, Phases
  <2> QED
    BY <1>3, <2>4, <2>5 DEF PollTimer, TypeOK
<1>4. ASSUME NEW s \in Sources, SkipPoll(s) PROVE Inv'
  <2>1. phase' \in Phases
    BY <1>4, <1>p DEF SkipPoll, Phases
  <2> QED
    BY <1>4, <1>l, <2>1 DEF SkipPoll, registers, TypeOK
<1>5. ASSUME NEW nap \in 0 .. MaxSleep, NEW stays \in BOOLEAN, TimeCallback(nap, stays)
      PROVE  Inv'
  <2>1. sleep' \in [Sleepers -> 0 .. MaxSleep]
    BY <1>5 DEF TimeCallback, TypeOK, Sleepers
  <2>2. Callbacks \ Switched \subseteq registered' /\ registered' \subseteq Callbacks
    BY <1>5, KeepsType DEF TimeCallback, TypeOK
  <2> QED
    BY <1>5, <1>l, <2>1, <2>2 DEF TimeCallback, registers, TypeOK, Phases, Byte
<1>6. ASSUME HostWrite PROVE Inv'
  <2>1. /\ ie' \in Byte /\ ip' \in Byte /\ tcon' \in Byte
        /\ mode' \in [Tim -> TimerModes]
    BY <1>6, WritesAssumption DEF HostWrite, TypeOK
  <2> QED
    BY <1>6, <1>l, <2>1 DEF HostWrite, TypeOK
<1>7. ASSUME Execute PROVE /\ sleep' \in [Sleepers -> 0 .. MaxSleep]
                           /\ phase' \in Phases
                           /\ UNCHANGED <<tconCopy, last_ext_int, registered>>
  BY <1>7, ElapseType DEF Execute, Phases
<1>8. ASSUME ExecuteOther PROVE Inv'
  BY <1>7, <1>8, <1>l DEF ExecuteOther, registers, TypeOK
<1>9. ASSUME ExecuteSfrWrite PROVE Inv'
  <2>1. /\ ie' \in Byte /\ ip' \in Byte /\ tcon' \in Byte
        /\ mode' \in [Tim -> TimerModes]
    BY <1>9, WritesAssumption DEF ExecuteSfrWrite, TypeOK
  <2> QED
    BY <1>7, <1>9, <1>l, <2>1 DEF ExecuteSfrWrite, TypeOK
<1>10. ASSUME ExecuteReti PROVE Inv'
  <2>1. Execute /\ UNCHANGED registers
    BY <1>10 DEF ExecuteReti
  <2> QED
    BY <1>7, <1>10, <2>1, RetiNests DEF registers, TypeOK
<1>11. ASSUME HostRegister PROVE Inv'
  <2>1. Callbacks \ Switched \subseteq registered' /\ registered' \subseteq Callbacks
    BY <1>11, CallbacksAssumption DEF HostRegister, TypeOK
  <2> QED
    BY <1>11, <1>l, <2>1 DEF HostRegister, registers, TypeOK
<1>12. ASSUME UNCHANGED vars PROVE Inv'
  BY <1>12, <1>l DEF vars, registers, levels, TypeOK
<1> QED
  BY <1>1, <1>2, <1>3, <1>4, <1>5, <1>6, <1>8, <1>9, <1>10, <1>11, <1>12
     DEF Next, Loop, Poll

(* The inductive invariant holds of every behaviour. *)
THEOREM Invariance == Spec => []Inv
BY InitInv, NextInv, PTL DEF Spec

(* Every variable keeps to the values the code can store in it. *)
THEOREM TypeCorrect == Spec => []TypeOK
BY Invariance, PTL DEF Inv

(* The two level variables always describe the handlers on the stack. *)
THEOREM Nesting == Spec => []NestingInv
BY Invariance, PTL DEF Inv
-----------------------------------------------------------------------------
(* The refinement.  Frames is a sequence of abstract frames. *)
FrameAt(i) == [source |-> IF i = Len(stack) THEN pc ELSE stack[i + 1],
               level |-> IF i = Len(stack) THEN int_level ELSE last_int_level]

FramesMatch == /\ Frames \in Seq(Abstract!Frame)
               /\ Len(Frames) = Len(stack)
               /\ \A i \in 1 .. Len(stack) : Frames[i] = FrameAt(i)
               /\ Abstract!TopLevel = int_level

LEMMA FramesShape == Inv => FramesMatch
<1> SUFFICES ASSUME Inv PROVE FramesMatch
  OBVIOUS
<1>1. Len(stack) \in 0 .. 2
  BY DEF Inv, NestingInv, Idle, OneHandler, Nested
<1>2. \A i \in 1 .. Len(stack) : FrameAt(i) \in Abstract!Frame
  BY <1>1 DEF Inv, NestingInv, Idle, OneHandler, Nested, FrameAt, Abstract!Frame,
              INT_LVL_OFF, INT_LVL_LO, INT_LVL_HI
<1>3. Frames = [i \in 1 .. Len(stack) |-> FrameAt(i)]
  BY DEF Frames, FrameAt
<1>4. /\ Frames \in Seq(Abstract!Frame)
      /\ Len(Frames) = Len(stack)
      /\ \A i \in 1 .. Len(stack) : Frames[i] = FrameAt(i)
  <2> HIDE DEF FrameAt
  <2> QED
    BY <1>1, <1>2, <1>3, IsASeq
<1>5. CASE Len(stack) = 0
  BY <1>4, <1>5 DEF FramesMatch, Inv, NestingInv, Idle, OneHandler, Nested, Abstract!TopLevel, INT_LVL_OFF
<1>6. CASE Len(stack) # 0
  <2>1. Frames # <<>>
    BY <1>4, <1>6
  <2>2. Frames[Len(Frames)] = FrameAt(Len(stack))
    BY <1>1, <1>4, <1>6
  <2>3. FrameAt(Len(stack)).level = int_level
    BY DEF FrameAt
  <2> QED
    BY <2>1, <2>2, <2>3, <1>4 DEF Abstract!TopLevel, FramesMatch
<1>7. CASE Abstract!TopLevel = int_level
  BY <1>4, <1>7 DEF FramesMatch
<1> QED
  BY <1>5, <1>6, <1>7

LEMMA FramesPushed ==
  ASSUME Inv, Inv', NEW s \in Sources, NEW newTcon, Admits(s), Vector(s, newTcon)
  PROVE  Abstract!Enter(s, Priority(s)) /\ Priority(s) \in 1 .. INT_LVL_HI
<1> DEFINE f == [source |-> s, level |-> Priority(s)]
<1>1. Priority(s) \in {INT_LVL_LO, INT_LVL_HI}
  BY DEF Priority
<1>2. f \in Abstract!Frame
  BY <1>1 DEF Abstract!Frame, INT_LVL_LO, INT_LVL_HI
<1>3. int_level < Priority(s)
  BY DEF Admits, Priority, Inv, TypeOK, Levels, INT_LVL_OFF, INT_LVL_LO, INT_LVL_HI
<1>4. Len(stack) \in {0, 1}
  BY DEF Inv, NestingInv, Idle, OneHandler, Nested, Admits, INT_LVL_OFF, INT_LVL_HI
<1>5. /\ Len(stack') = Len(stack) + 1
      /\ \A i \in 1 .. Len(stack) : stack'[i] = stack[i]
      /\ stack'[Len(stack) + 1] = pc
  BY PushFacts DEF Vector, Inv, TypeOK
<1>6. FramesMatch
  BY FramesShape
<1>7. FramesMatch'
  BY FramesShape, PTL
<1>8. /\ Append(Frames, f) \in Seq(Abstract!Frame)
      /\ Len(Append(Frames, f)) = Len(Frames) + 1
      /\ \A i \in 1 .. Len(Frames) : Append(Frames, f)[i] = Frames[i]
      /\ Append(Frames, f)[Len(Frames) + 1] = f
  BY <1>2, <1>6, AppendProperties DEF FramesMatch
<1>9. \A i \in 1 .. Len(stack') : Frames'[i] = Append(Frames, f)[i]
  <2> SUFFICES ASSUME NEW i \in 1 .. Len(stack')
               PROVE  FrameAt(i)' = Append(Frames, f)[i]
    BY <1>7 DEF FramesMatch
  <2>1. CASE i = Len(stack')
    BY <1>4, <1>5, <1>6, <1>8, <2>1 DEF FramesMatch, FrameAt, Vector
  <2>2. CASE i # Len(stack')
    BY <1>4, <1>5, <1>6, <1>8, <2>2 DEF FramesMatch, FrameAt, Vector
  <2> QED
    BY <2>1, <2>2
<1>10. Frames' = Append(Frames, f)
  BY <1>4, <1>5, <1>6, <1>7, <1>8, <1>9, SeqEqual DEF FramesMatch
<1> QED
  BY <1>1, <1>3, <1>6, <1>10 DEF FramesMatch, Abstract!Enter, INT_LVL_LO, INT_LVL_HI

LEMMA FramesPopped ==
  ASSUME Inv, Inv', ExecuteReti
  PROVE  Abstract!Leave
<1>1. FramesMatch
  BY FramesShape
<1>2. FramesMatch'
  BY FramesShape, PTL
<1>3. stack \in Seq(Routines) /\ stack # <<>> /\ Len(stack) \in {1, 2}
  BY DEF Inv, TypeOK, NestingInv, Idle, OneHandler, Nested, ExecuteReti
<1>4. /\ Len(stack') = Len(stack) - 1
      /\ \A i \in 1 .. Len(stack) - 1 : stack'[i] = stack[i]
  BY <1>3, PopFacts DEF ExecuteReti
<1> DEFINE front == SubSeq(Frames, 1, Len(Frames) - 1)
<1>5. /\ front \in Seq(Abstract!Frame)
      /\ Len(front) = Len(stack) - 1
      /\ \A i \in 1 .. Len(stack) - 1 : front[i] = Frames[i]
  <2>1. Frames \in Seq(Abstract!Frame) /\ Len(Frames) = Len(stack)
    BY <1>1 DEF FramesMatch
  <2>2. CASE Len(stack) = 1
    <3>1. front = <<>>
      BY <2>1, <2>2, SubSeqEmpty
    <3> HIDE DEF front
    <3>2. front \in Seq(Abstract!Frame) /\ Len(front) = 0
      BY <3>1, EmptySeq
    <3> QED
      BY <2>2, <3>2
  <2>3. CASE Len(stack) = 2
    <3>1. \A i \in 1 .. 1 : Frames[i] \in Abstract!Frame
      BY <2>1, <2>3
    <3>2. front = SubSeq(Frames, 1, 1)
      BY <2>1, <2>3
    <3> HIDE DEF front
    <3>3. /\ SubSeq(Frames, 1, 1) \in Seq(Abstract!Frame)
          /\ Len(SubSeq(Frames, 1, 1)) = IF 1 <= 1 THEN 1 - 1 + 1 ELSE 0
          /\ \A i \in 1 .. 1 - 1 + 1 : SubSeq(Frames, 1, 1)[i] = Frames[1 + i - 1]
      BY <3>1, SubSeqProperties
    <3> QED
      BY <2>3, <3>2, <3>3
  <2> QED
    BY <1>3, <2>2, <2>3
<1> HIDE DEF front
<1>6. \A i \in 1 .. Len(stack') : Frames'[i] = front[i]
  <2> SUFFICES ASSUME NEW i \in 1 .. Len(stack')
               PROVE  Frames'[i] = front[i]
    OBVIOUS
  <2>1. Len(stack) = 2 /\ i = 1 /\ Len(stack') = 1
    BY <1>3, <1>4
  <2>2. FrameAt(1)' = FrameAt(1)
    BY <2>1, <1>4 DEF FrameAt, ExecuteReti
  <2> QED
    BY <1>1, <1>2, <1>5, <2>1, <2>2 DEF FramesMatch
<1>7. Frames' = front
  BY <1>2, <1>3, <1>4, <1>5, <1>6, SeqEqual DEF FramesMatch
<1>8. Frames # <<>>
  BY <1>1, <1>3 DEF FramesMatch
<1> QED
  BY <1>7, <1>8 DEF front, Abstract!Leave

(* Every step enters a handler above the running level, leaves the running *)
(* one, or does neither.                                                   *)
LEMMA StepSimulation ==
  ASSUME Inv, Inv', [Next]_vars
  PROVE  [Abstract!Next]_Frames
<1>l. UNCHANGED levels => UNCHANGED Frames
  BY DEF levels, Frames
<1>v. ASSUME NEW s \in Sources, NEW taken \in BOOLEAN, taken => Admits(s),
             NEW newTcon, VectorIf(taken, s, newTcon)
      PROVE  [Abstract!Next]_Frames
  BY <1>l, <1>v, FramesPushed DEF VectorIf, Abstract!Next
<1>1. ASSUME NEW s \in Ext, NEW irq \in BOOLEAN, NEW nap \in 0 .. MaxSleep,
             NEW stays \in BOOLEAN, PollExt(s, irq, nap, stays)
      PROVE  [Abstract!Next]_Frames
  <2> DEFINE copy == IF Latches(s, irq) THEN tconCopy \cup {RequestFlag(s)} ELSE tconCopy
             stored == IF Latches(s, irq) THEN copy ELSE tcon
             taken == Admits(s) /\ RequestFlag(s) \in copy
  <2>1. VectorIf(taken, s, stored)
    BY <1>1 DEF PollExt
  <2>2. taken \in BOOLEAN /\ (taken => Admits(s)) /\ s \in Sources
    BY DEF Admits, Sources
  <2> QED
    BY <1>v, <2>1, <2>2
<1>2. ASSUME NEW t \in Tim, NEW o \in TimerOutcomes(t, mode, tcon), PollTimer(t, o)
      PROVE  [Abstract!Next]_Frames
  <2>1. o.irq \in BOOLEAN
    BY OutcomeType DEF Inv, TypeOK
  <2>2. (Admits(t) /\ o.irq) \in BOOLEAN /\ t \in Sources
    BY <2>1 DEF Sources, Admits
  <2>3. VectorIf(Admits(t) /\ o.irq, t, o.tcon)
    BY <1>2 DEF PollTimer
  <2> QED
    BY <1>v, <2>2, <2>3
<1>3. ASSUME ExecuteReti PROVE [Abstract!Next]_Frames
  BY <1>3, FramesPopped DEF Abstract!Next
<1>4. CASE UNCHANGED levels
  BY <1>4, <1>l
<1>5. CASE \/ BeginPass \/ \E s \in Sources : SkipPoll(s)
           \/ \E nap \in 0 .. MaxSleep, stays \in BOOLEAN : TimeCallback(nap, stays)
           \/ ExecuteOther \/ ExecuteSfrWrite \/ HostWrite \/ HostRegister \/ UNCHANGED vars
  BY <1>4, <1>5 DEF BeginPass, SkipPoll, TimeCallback, ExecuteOther, ExecuteSfrWrite,
                    HostWrite, HostRegister, vars
<1> QED
  BY <1>1, <1>2, <1>3, <1>5 DEF Next, Loop, Poll

(* The interrupt system implements InterruptLevels: handlers nest strictly *)
(* by level, and RETI resumes what was interrupted, at its level.          *)
THEOREM LevelsRefinement == Spec => ImplementsLevels
<1>1. Init => Abstract!Init
  BY DEF Init, Abstract!Init, Frames
<1>2. Inv /\ Inv' /\ [Next]_vars => [Abstract!Next]_Frames
  BY StepSimulation
<1> QED
  BY <1>1, <1>2, Invariance, PTL DEF Spec, ImplementsLevels, Abstract!Spec
=============================================================================

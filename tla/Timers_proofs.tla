--------------------------- MODULE Timers_proofs ---------------------------
(***************************************************************************)
(* Proofs about Timers, for every counter width, prescaler and set of      *)
(* values a program may store.                                             *)
(***************************************************************************)
EXTENDS Timers, TLAPS

LEMMA NextCounts ==
  ASSUME TypeOK, NEW t \in Tim
  PROVE  NextTl(t) \in Count /\ NextTh(t) \in Count
<1>1. Range \in Nat /\ Range >= 2 /\ Prescale \in 2 .. Range
  BY RangeAssumption
<1>2. tl[t] \in Count /\ th[t] \in Count
  BY DEF TypeOK
<1>3. \A n \in Nat : n % Range \in Count
  BY <1>1 DEF Count
<1>4. 0 \in Count /\ tl[t] + 1 \in Nat /\ th[t] + 1 \in Nat
  BY <1>1, <1>2 DEF Count
<1> QED
  BY <1>2, <1>3, <1>4 DEF NextTl, NextTh

LEMMA FlagsInTcon == TF0 \in Bit /\ TF1 \in Bit
BY DEF TF0, TF1, Bit

LEMMA TickType ==
  ASSUME TypeOK, NEW t \in Tim, Tick(t)
  PROVE  TypeOK'
<1>1. tl' \in [Tim -> Count]
  BY NextCounts DEF Tick, TypeOK
<1>2. th' \in [Tim -> Count]
  <2>1. \A u \in Tim : th[u] \in Count /\ (th[u] + 1) % Range \in Count
    BY RangeAssumption DEF TypeOK, Count
  <2>2. NextTh(t) \in Count
    BY NextCounts
  <2> QED
    BY <2>1, <2>2 DEF Tick
<1>3. tcon' \in Byte
  BY FlagsInTcon DEF Tick, TypeOK, OverflowTcon, Byte
<1>4. irq' \in BOOLEAN
  BY DEF Tick, Th0Overflows, Overflows, OverflowRequests, DrivesTh0
<1>5. tmod' \in Tmod /\ p3' \in Byte
  BY DEF Tick, TypeOK
<1> QED
  BY <1>1, <1>2, <1>3, <1>4, <1>5 DEF TypeOK

LEMMA NextType ==
  ASSUME TypeOK, [Next]_vars
  PROVE  TypeOK'
<1>1. ASSUME NEW t \in Tim, Tick(t) PROVE TypeOK'
  BY <1>1, TickType
<1>2. ASSUME NEW t \in Tim, LoadTl(t) PROVE TypeOK'
  BY <1>2, StoresAssumption DEF LoadTl, TypeOK, controls
<1>3. ASSUME NEW t \in Tim, LoadTh(t) PROVE TypeOK'
  BY <1>3, StoresAssumption DEF LoadTh, TypeOK, controls
<1>4. CASE SetTmod
  BY <1>4, StoresAssumption DEF SetTmod, TypeOK, counters
<1>5. CASE SetTcon
  BY <1>5, StoresAssumption DEF SetTcon, TypeOK, counters
<1>6. CASE SetP3
  BY <1>6, StoresAssumption DEF SetP3, TypeOK, counters
<1>7. CASE UNCHANGED vars
  BY <1>7 DEF vars, controls, counters, TypeOK
<1> QED
  BY <1>1, <1>2, <1>3, <1>4, <1>5, <1>6, <1>7 DEF Next

(* The counters stay bytes in every mode, and TCON a byte although         *)
(* "tcon | ~mask" has more bits.                                           *)
THEOREM TypeCorrect == Spec => []TypeOK
<1>1. Init => TypeOK
  <2> SUFFICES ASSUME Init PROVE TypeOK
    OBVIOUS
  <2>1. 0 \in Count
    BY RangeAssumption DEF Count
  <2>2. tmod \in Tmod
    <3>1. TIMER_13BIT \in TimerModes
      BY DEF TimerModes
    <3> QED
      BY <3>1 DEF Init, Tmod
  <2>3. tcon \in Byte /\ p3 \in Byte
    BY DEF Init, Byte
  <2> QED
    BY <2>1, <2>2, <2>3 DEF Init, TypeOK
<1>2. TypeOK /\ [Next]_vars => TypeOK'
  BY NextType
<1> QED
  BY <1>1, <1>2, PTL DEF Spec

(* One tick answers and stores what TimerOutcomes allows. *)
LEMMA TickOutcome ==
  ASSUME NEW t \in Tim, Tick(t)
  PROVE  [irq |-> irq', tcon |-> tcon'] \in TimerOutcomes(t, tmod.mode, tcon)
<1>1. CASE Th0Overflows(t)
  <2>1. Tim1Free(t, tmod.mode) /\ RunFlag(t) \in tcon
    BY <1>1 DEF Th0Overflows, DrivesTh0, Free, Counting
  <2>2. irq' = TRUE /\ tcon' = tcon \cup {TF1}
    BY <1>1 DEF Tick
  <2> QED
    BY <2>1, <2>2 DEF TimerOutcomes
<1>2. CASE ~Th0Overflows(t) /\ Overflows(t)
  <2>1. MayCount(t, tmod.mode, tcon)
    BY <1>2 DEF Overflows, Counting, Free, MayCount
  <2>2. tcon' = OverflowTcon(t, tmod.mode, tcon)
    BY <1>2 DEF Tick
  <2>3. irq' = OverflowRequests(t, tmod.mode)
    BY <1>2, Zenon DEF Tick, OverflowRequests
  <2> QED
    BY <2>1, <2>2, <2>3, Zenon DEF TimerOutcomes
<1>3. CASE ~Th0Overflows(t) /\ ~Overflows(t)
  <2>1. irq' = FALSE /\ tcon' = tcon
    BY <1>3 DEF Tick
  <2> QED
    BY <2>1 DEF TimerOutcomes
<1> QED
  BY <1>1, <1>2, <1>3

(* A poll of a timer in Interrupts is a tick of the timer modelled here.   *)
THEOREM OutcomesSound == Spec => TickWithinOutcomes
<1>1. [Next]_vars =>
        [\A t \in Tim : Tick(t) => [irq |-> irq', tcon |-> tcon']
                                     \in TimerOutcomes(t, tmod.mode, tcon)]_vars
  BY TickOutcome
<1> QED
  BY <1>1, PTL DEF Spec, TickWithinOutcomes
=============================================================================

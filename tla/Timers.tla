------------------------------- MODULE Timers -------------------------------
(***************************************************************************)
(* timer(): the two timers of the simulator, ticked once for each pass of  *)
(* process_interrupts() that polls them, and the stores a program makes to *)
(* their registers between ticks.                                          *)
(***************************************************************************)
EXTENDS TimerEffects

CONSTANTS
  Range,       \* values a byte counter has (256)
  Prescale,    \* TL count at which the 13-bit mode carries (32)
  LoadValues,  \* bytes programs store in TL and TH
  TmodWrites,  \* settings programs store in TMOD
  TconWrites,  \* values programs store in TCON
  P3Writes     \* levels of port 3

ASSUME RangeAssumption == Range \in Nat /\ Prescale \in 2 .. Range

Count == 0 .. Range - 1

(* The fields of TMOD, per timer. *)
Tmod == [mode : [Tim -> TimerModes], gate : [Tim -> BOOLEAN], c_t : [Tim -> BOOLEAN]]

ASSUME StoresAssumption == /\ LoadValues \subseteq Count
                           /\ TmodWrites \subseteq Tmod
                           /\ TconWrites \subseteq Byte
                           /\ P3Writes \subseteq Byte

VARIABLES tmod, tcon, p3,
          tl, th,  \* TL0, TL1 and TH0, TH1
          irq      \* what timer() returned last

controls == <<tmod, tcon, p3>>
counters == <<tl, th>>
vars == <<controls, counters, irq>>

Init == /\ tmod = [mode |-> [t \in Tim |-> TIMER_13BIT],
                   gate |-> [t \in Tim |-> FALSE], c_t |-> [t \in Tim |-> FALSE]]
        /\ tcon = {} /\ p3 = {}
        /\ tl = [t \in Tim |-> 0] /\ th = [t \in Tim |-> 0]
        /\ irq = FALSE
-----------------------------------------------------------------------------
(* On, and not held by the gate pin or by the count pin: the code tests    *)
(* P3.3 and P3.5 for either timer.                                         *)
Counting(t) == /\ RunFlag(t) \in tcon
               /\ ~(tmod.gate[t] /\ 3 \notin p3)
               /\ ~(tmod.c_t[t] /\ 5 \notin p3)

Free(t) == Tim1Free(t, tmod.mode)

Wide(t) == tmod.mode[t] \in {TIMER_13BIT, TIMER_16BIT}

TlLimit(t) == IF tmod.mode[t] = TIMER_13BIT THEN Prescale ELSE Range

TlWraps(t) == tl[t] + 1 = TlLimit(t)

OverflowsAtTl(t) == (Counting(t) \/ Free(t)) /\ TlWraps(t)
Overflows(t) == /\ Counting(t) \/ Free(t)
                /\ TlWraps(t)
                /\ Wide(t) => th[t] + 1 = Range

NextTlUnreduced(t) == IF TlWraps(t) THEN 0 ELSE tl[t] + 1

NextTl(t) == IF TlWraps(t)
             THEN IF tmod.mode[t] = TIMER_8BIT_AUTO THEN th[t] ELSE 0
             ELSE (tl[t] + 1) % Range

NextThAlways(t) == IF TlWraps(t) THEN (th[t] + 1) % Range ELSE th[t]

NextTh(t) == IF TlWraps(t) /\ Wide(t) THEN (th[t] + 1) % Range ELSE th[t]

(* Timer 1 drives TH0 as a counter of its own while timer 0 is in mode 3.  *)
DrivesTh0WhenOff(t) == Free(t)
DrivesTh0(t) == Free(t) /\ Counting(t)

Th0Overflows(t) == DrivesTh0(t) /\ th["TIM0"] + 1 = Range

(* One call of timer() for t. *)
Tick(t) ==
  /\ tl' = IF Counting(t) \/ Free(t) THEN [tl EXCEPT ![t] = NextTl(t)] ELSE tl
  /\ th' = [u \in Tim |->
              IF u = t /\ (Counting(t) \/ Free(t)) THEN NextTh(t)
              ELSE IF u = "TIM0" /\ DrivesTh0(t) THEN (th[u] + 1) % Range
              ELSE th[u]]
  /\ tcon' = IF Th0Overflows(t) THEN tcon \cup {TF1}
             ELSE IF Overflows(t) THEN OverflowTcon(t, tmod.mode, tcon)
             ELSE tcon
  /\ irq' = (Th0Overflows(t) \/ (Overflows(t) /\ OverflowRequests(t, tmod.mode)))
  /\ UNCHANGED <<tmod, p3>>
-----------------------------------------------------------------------------
(* Stores by the program, or by a callback through set_iram_byte(). *)
LoadTl(t) == /\ \E v \in LoadValues : tl' = [tl EXCEPT ![t] = v]
             /\ UNCHANGED <<controls, th, irq>>

LoadTh(t) == /\ \E v \in LoadValues : th' = [th EXCEPT ![t] = v]
             /\ UNCHANGED <<controls, tl, irq>>

SetTmod == /\ tmod' \in TmodWrites
           /\ UNCHANGED <<tcon, p3, counters, irq>>

SetTcon == /\ tcon' \in TconWrites
           /\ UNCHANGED <<tmod, p3, counters, irq>>

SetP3 == /\ p3' \in P3Writes
         /\ UNCHANGED <<tmod, tcon, counters, irq>>

Next == \/ \E t \in Tim : Tick(t) \/ LoadTl(t) \/ LoadTh(t)
        \/ SetTmod \/ SetTcon \/ SetP3

Spec == Init /\ [][Next]_vars
-----------------------------------------------------------------------------
(* The counters stay bytes, whatever the modes do to them. *)
TypeOK == /\ tmod \in Tmod /\ tcon \in Byte /\ p3 \in Byte
          /\ tl \in [Tim -> Count] /\ th \in [Tim -> Count]
          /\ irq \in BOOLEAN

(* What Interrupts assumes of a timer poll is what timer() does: its       *)
(* answer and the TCON it leaves are among TimerOutcomes.                  *)
TickWithinOutcomes ==
  [][\A t \in Tim : Tick(t) => [irq |-> irq', tcon |-> tcon']
                                 \in TimerOutcomes(t, tmod.mode, tcon)]_vars
=============================================================================

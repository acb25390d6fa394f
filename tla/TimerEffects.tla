---------------------------- MODULE TimerEffects ----------------------------
(***************************************************************************)
(* What one call of timer() may do to TCON and whether it may ask for an   *)
(* interrupt, whatever the counters hold.  Timers.tla models the counters  *)
(* and is checked to stay within these outcomes; Interrupts.tla polls the  *)
(* timers through them.                                                    *)
(***************************************************************************)
EXTENDS Defs8051

(* Timer 0 in mode 3 takes over timer 1's run bit and flag: timer 1 then   *)
(* counts whether or not it is on.                                         *)
Tim1Free(t, mode) == t = "TIM1" /\ mode["TIM0"] = TIMER_SPLIT

MayCount(t, mode, tcon) == RunFlag(t) \in tcon \/ Tim1Free(t, mode)

(* "tcon | ~mask" stores every bit of TCON but the one mask names; mode 3  *)
(* stores TF0 for either timer.                                            *)
OverflowTcon(t, mode, tcon) ==
  IF mode[t] = TIMER_SPLIT THEN tcon \cup {TF0}
                           ELSE tcon \cup (Bit \ {OverflowFlag(t)})

OverflowRequests(t, mode) == mode[t] = TIMER_SPLIT \/ ~Tim1Free(t, mode)

(* TH0 as the virtual timer 1 ORs TF1 into the TCON read on entry.         *)
TimerOutcomes(t, mode, tcon) ==
  {[irq |-> FALSE, tcon |-> tcon]}
  \cup (IF MayCount(t, mode, tcon)
        THEN {[irq |-> OverflowRequests(t, mode), tcon |-> OverflowTcon(t, mode, tcon)]}
        ELSE {})
  \cup (IF Tim1Free(t, mode) /\ RunFlag(t) \in tcon
        THEN {[irq |-> TRUE, tcon |-> tcon \cup {TF1}]}
        ELSE {})
=============================================================================

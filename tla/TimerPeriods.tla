---------------------------- MODULE TimerPeriods ----------------------------
(***************************************************************************)
(* Timers with a history of each counter: the value it was loaded with or  *)
(* overflowed to, and the ticks it has taken since.                        *)
(***************************************************************************)
EXTENDS Timers

VARIABLE since

(* TL0/TH0, TL1/TH1, and TH0 alone while timer 1 drives it. *)
Counters == Tim \cup {"TH0"}

Value(c) ==
  IF c = "TH0" THEN th["TIM0"]
  ELSE IF Wide(c) THEN th[c] * TlLimit(c) + tl[c]
  ELSE tl[c]

Modulus(c) == IF c \in Tim THEN IF Wide(c) THEN Range * TlLimit(c) ELSE TlLimit(c)
              ELSE Range

(* A 13-bit timer whose TL is beyond the prescaler does not count yet.     *)
Tracked(c) == IF c = "TH0" THEN tmod.mode["TIM0"] = TIMER_SPLIT
              ELSE tl[c] < TlLimit(c)

Reload(c) == IF c \in Tim /\ tmod.mode[c] = TIMER_8BIT_AUTO THEN th[c] ELSE 0

Ticks(c, t) == IF c = "TH0" THEN DrivesTh0(t) ELSE c = t /\ (Counting(t) \/ Free(t))
Wraps(c, t) == IF c = "TH0" THEN Th0Overflows(t) ELSE c = t /\ Overflows(t)

Fresh(c) == [start |-> Value(c), ticks |-> 0]

PInit == Init /\ since = [c \in Counters |-> Fresh(c)]

PTick(t) ==
  /\ Tick(t)
  /\ since' = [c \in Counters |->
       IF ~Tracked(c) THEN Fresh(c)'
       ELSE IF Wraps(c, t) THEN [start |-> Reload(c), ticks |-> 0]
       ELSE IF Ticks(c, t) THEN [since[c] EXCEPT !.ticks = @ + 1]
       ELSE since[c]]

(* A store restarts the history of the counters in the set, and of no other. *)
Restart(restarted) ==
  since' = [c \in Counters |-> IF c \in restarted THEN Fresh(c)' ELSE since[c]]

TimerOf(c) == IF c = "TH0" THEN "TIM0" ELSE c

PLoadTl(t) == LoadTl(t) /\ Restart({t})

(* Where TH is no part of the count a store to it is not one to the counter: *)
(* in mode 2 it changes the reload value of the next overflow.               *)
PLoadTh(t) == LoadTh(t) /\ Restart({c \in Counters : TimerOf(c) = t /\ (c = "TH0" \/ Wide(t))})

PSetTmod == SetTmod /\ Restart({c \in Counters : tmod'.mode[TimerOf(c)] # tmod.mode[TimerOf(c)]})

PSetControl == (SetTcon \/ SetP3) /\ Restart({})

PStore == (\E t \in Tim : PLoadTl(t) \/ PLoadTh(t)) \/ PSetTmod \/ PSetControl

PNext == (\E t \in Tim : PTick(t)) \/ PStore

PSpec == PInit /\ [][PNext]_<<vars, since>>

(* No tick is lost between TL and TH in any mode: a counter stands at the  *)
(* value it started from plus the ticks it took.  It is followed through   *)
(* stores to the other timer's counters, stores to TMOD that change the    *)
(* other timer's mode or its own gate, stores of the reload value, TCON    *)
(* and port 3, timer 1 driving TH0, and the timers interleaving; a store   *)
(* to itself and a change of its own mode start it anew.                   *)
EveryTickCounts ==
  \A c \in Counters : Tracked(c) =>
     /\ Value(c) = since[c].start + since[c].ticks
     /\ Value(c) < Modulus(c)

(* Overflows come one period apart: from one to the next a counter takes   *)
(* exactly as many ticks as its modulus less the value it restarted from,  *)
(* whatever is stored elsewhere in between.                                *)
OverflowPeriod ==
  [][\A t \in Tim, c \in Counters :
       PTick(t) /\ Tracked(c) /\ Wraps(c, t) =>
         since[c].start + since[c].ticks + 1 = Modulus(c)]_<<vars, since>>
=============================================================================

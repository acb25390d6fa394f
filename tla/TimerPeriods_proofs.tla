------------------------ MODULE TimerPeriods_proofs ------------------------
(***************************************************************************)
(* Proofs about TimerPeriods: no counter loses a tick and overflows are a  *)
(* period apart, for every counter width, prescaler and program.           *)
(***************************************************************************)
EXTENDS TimerPeriods, Timers_proofs

(* The history takes no part in what the timers do: a behaviour with it is *)
(* a behaviour of Timers, so what Timers promises holds here.              *)
THEOREM HistoryOnly == PSpec => Spec
<1>1. PInit => Init
  BY DEF PInit
<1>2. [PNext]_<<vars, since>> => [Next]_vars
  BY DEF PNext, PTick, PStore, PLoadTl, PLoadTh, PSetTmod, PSetControl, Next
<1> QED
  BY <1>1, <1>2, PTL DEF PSpec, Spec

-----------------------------------------------------------------------------
(* TL and TH as one number in base TlLimit *)

LEMMA LimitRange ==
  ASSUME NEW c \in Tim
  PROVE  TlLimit(c) \in 2 .. Range
BY RangeAssumption DEF TlLimit

LEMMA NextDigit ==
  ASSUME NEW h \in Nat, NEW m \in Nat
  PROVE  (h + 1) * m = h * m + m
OBVIOUS

LEMMA ProductIsNat ==
  ASSUME NEW h \in Nat, NEW m \in Nat
  PROVE  h * m \in Nat
OBVIOUS

LEMMA ProductGrows ==
  ASSUME NEW h \in Nat, NEW k \in Nat, NEW m \in Nat, h <= k
  PROVE  h * m <= k * m
<1>1. PICK d \in Nat : k = h + d
  <2>1. k - h \in Nat /\ k = h + (k - h)
    OBVIOUS
  <2> QED
    BY <2>1
<1>2. k * m = h * m + d * m
  BY <1>1
<1>3. h * m \in Nat /\ d * m \in Nat
  BY ProductIsNat
<1> QED
  BY <1>2, <1>3

LEMMA TwoDigits ==
  ASSUME NEW h \in Nat, NEW l \in Nat, NEW r \in Nat, NEW m \in Nat, h < r, l < m
  PROVE  h * m + l < r * m
<1>1. (h + 1) * m <= r * m
  BY ProductGrows
<1>2. (h + 1) * m = h * m + m
  BY NextDigit
<1>3. h * m \in Nat /\ r * m \in Nat
  BY ProductIsNat
<1> QED
  BY <1>1, <1>2, <1>3

LEMMA ValueType ==
  ASSUME TypeOK, NEW c \in Counters
  PROVE  Value(c) \in Nat
<1>1. CASE c = "TH0"
  BY <1>1, RangeAssumption DEF TypeOK, Value, Count, Tim
<1>2. CASE c \in Tim
  <2>1. tl[c] \in Nat /\ th[c] \in Nat /\ TlLimit(c) \in Nat
    BY <1>2, LimitRange, RangeAssumption DEF TypeOK, Count
  <2>2. th[c] * TlLimit(c) \in Nat
    BY <2>1, ProductIsNat
  <2> QED
    BY <1>2, <2>1, <2>2 DEF Value, Tim
<1> QED
  BY <1>1, <1>2 DEF Counters

LEMMA NextValueType ==
  ASSUME TypeOK', NEW c \in Counters
  PROVE  Value(c)' \in Nat
<1>1. CASE c = "TH0"
  BY <1>1, RangeAssumption DEF TypeOK, Value, Count, Tim
<1>2. CASE c \in Tim
  <2>1. TlLimit(c)' \in Nat
    BY RangeAssumption DEF TlLimit
  <2>2. tl'[c] \in Nat /\ th'[c] \in Nat
    BY <1>2, RangeAssumption DEF TypeOK, Count
  <2>3. th'[c] * TlLimit(c)' \in Nat
    BY <2>1, <2>2, ProductIsNat
  <2> QED
    BY <1>2, <2>2, <2>3 DEF Value, Tim
<1> QED
  BY <1>1, <1>2 DEF Counters

LEMMA BelowModulus ==
  ASSUME TypeOK, NEW c \in Counters, Tracked(c)
  PROVE  Value(c) < Modulus(c)
<1>1. CASE c = "TH0"
  BY <1>1, RangeAssumption DEF TypeOK, Value, Modulus, Count, Tim
<1>2. CASE c \in Tim
  <2>1. /\ tl[c] \in Nat /\ th[c] \in Nat /\ TlLimit(c) \in Nat
        /\ Range \in Nat /\ th[c] < Range
    BY <1>2, LimitRange, RangeAssumption DEF TypeOK, Count
  <2>2. tl[c] < TlLimit(c)
    BY <1>2 DEF Tracked, Tim
  <2>3. th[c] * TlLimit(c) + tl[c] < Range * TlLimit(c)
    BY <2>1, <2>2, TwoDigits
  <2> QED
    BY <1>2, <2>2, <2>3 DEF Value, Modulus, Tim
<1> QED
  BY <1>1, <1>2 DEF Counters

(* At a wrap a counter is one tick short of its modulus. *)
LEMMA WrapsAtModulus ==
  ASSUME TypeOK, NEW t \in Tim, NEW c \in Counters, Wraps(c, t)
  PROVE  Value(c) + 1 = Modulus(c)
<1>1. CASE c = "TH0"
  BY <1>1, RangeAssumption DEF TypeOK, Value, Modulus, Wraps, Th0Overflows, Count, Tim
<1>2. CASE c \in Tim
  <2>1. c = t /\ tl[c] + 1 = TlLimit(c) /\ (Wide(c) => th[c] + 1 = Range)
    BY <1>2 DEF Wraps, Overflows, TlWraps, Tim
  <2>2. tl[c] \in Nat /\ th[c] \in Nat /\ TlLimit(c) \in Nat
    BY <1>2, LimitRange, RangeAssumption DEF TypeOK, Count
  <2>3. (th[c] + 1) * TlLimit(c) = th[c] * TlLimit(c) + TlLimit(c)
    BY <2>2, NextDigit
  <2>4. th[c] * TlLimit(c) \in Nat
    BY <2>2, ProductIsNat
  <2> QED
    BY <1>2, <2>1, <2>2, <2>3, <2>4 DEF Value, Modulus, Tim
<1> QED
  BY <1>1, <1>2 DEF Counters
-----------------------------------------------------------------------------
(* One tick *)

(* A tick leaves the modes, so a counter keeps its limit. *)
LEMMA TickKeeps ==
  ASSUME NEW t \in Tim, Tick(t)
  PROVE  /\ UNCHANGED tmod
         /\ \A c \in Tim : TlLimit(c)' = TlLimit(c) /\ (Wide(c)' <=> Wide(c))
BY DEF Tick, TlLimit, Wide

(* TH0 as a counter of its own *)
LEMMA Th0Tick ==
  ASSUME TypeOK, NEW t \in Tim, Tick(t), Tracked("TH0")
  PROVE  Value("TH0")' = IF Wraps("TH0", t) THEN 0
                         ELSE IF Ticks("TH0", t) THEN Value("TH0") + 1
                         ELSE Value("TH0")
<1>1. ~Wide("TIM0")
  BY DEF Tracked, Wide, TIMER_SPLIT, TIMER_13BIT, TIMER_16BIT
<1>2. th["TIM0"] \in Count /\ "TIM0" \in Tim
  BY DEF TypeOK, Tim
<1>3. th'["TIM0"] = IF DrivesTh0(t) THEN (th["TIM0"] + 1) % Range ELSE th["TIM0"]
  <2>1. CASE t = "TIM0"
    <3>1. NextTh(t) = th["TIM0"] /\ ~DrivesTh0(t)
      BY <1>1, <2>1 DEF NextTh, DrivesTh0, Free, Tim1Free
    <3> QED
      BY <1>2, <2>1, <3>1 DEF Tick
  <2>2. CASE t # "TIM0"
    BY <1>2, <2>2 DEF Tick
  <2> QED
    BY <2>1, <2>2
<1>4. th["TIM0"] + 1 # Range => (th["TIM0"] + 1) % Range = th["TIM0"] + 1
  BY <1>2, RangeAssumption DEF Count
<1>5. Range % Range = 0
  BY RangeAssumption
<1> QED
  BY <1>3, <1>4, <1>5 DEF Value, Wraps, Ticks, Th0Overflows

(* Another timer's tick may move TH of timer 0 only, and then TH does not  *)
(* count with TL.                                                          *)
LEMMA OthersTick ==
  ASSUME TypeOK, NEW t \in Tim, NEW c \in Tim, Tick(t), ~Ticks(c, t)
  PROVE  Value(c)' = Value(c) /\ tl'[c] = tl[c]
<1>1. tl'[c] = tl[c]
  BY DEF Tick, Ticks, TypeOK, Tim
<1>2. CASE ~Wide(c)
  <2>1. ~Wide(c)'
    BY <1>2, TickKeeps
  <2> QED
    BY <1>1, <1>2, <2>1 DEF Value, Tim
<1>3. CASE Wide(c)
  <2>1. ~(c = "TIM0" /\ DrivesTh0(t))
    BY <1>3 DEF Wide, DrivesTh0, Free, Tim1Free, TIMER_SPLIT, TIMER_13BIT, TIMER_16BIT
  <2>2. th'[c] = th[c]
    BY <2>1 DEF Tick, Ticks, Tim
  <2> QED
    BY <1>1, <1>3, <2>2, TickKeeps DEF Value, Tim
<1> QED
  BY <1>2, <1>3

LEMMA OwnTick ==
  ASSUME TypeOK, NEW t \in Tim, Tick(t), Ticks(t, t), Tracked(t)
  PROVE  Value(t)' = IF Wraps(t, t) THEN Reload(t) ELSE Value(t) + 1
<1>1. /\ tl[t] \in Nat /\ th[t] \in Nat /\ TlLimit(t) \in Nat /\ Range \in Nat
      /\ tl[t] < TlLimit(t) /\ TlLimit(t) <= Range /\ th[t] < Range /\ Range >= 2
  BY LimitRange, RangeAssumption DEF TypeOK, Count, Tracked, Tim
<1>2. Counting(t) \/ Free(t)
  BY DEF Ticks, Tim
<1>3. tl'[t] = NextTl(t) /\ th'[t] = NextTh(t)
  BY <1>2 DEF Tick, TypeOK
<1>4. Value(t)' = IF Wide(t) THEN NextTh(t) * TlLimit(t) + NextTl(t) ELSE NextTl(t)
  BY <1>3, TickKeeps DEF Value, Tim
<1>5. Wraps(t, t) <=> TlWraps(t) /\ (Wide(t) => th[t] + 1 = Range)
  BY <1>2 DEF Wraps, Overflows, Tim
<1>6. CASE ~TlWraps(t)
  <2>1. NextTl(t) = tl[t] + 1 /\ NextTh(t) = th[t]
    BY <1>1, <1>6 DEF NextTl, NextTh, TlWraps
  <2> QED
    BY <1>1, <1>4, <1>5, <1>6, <2>1, ProductIsNat DEF Value, Tim
<1>7. CASE TlWraps(t) /\ ~Wide(t)
  BY <1>4, <1>5, <1>7 DEF NextTl, Reload
<1>8. CASE TlWraps(t) /\ Wide(t)
  <2>1. tmod.mode[t] # TIMER_8BIT_AUTO
    BY <1>8 DEF Wide, TIMER_8BIT_AUTO, TIMER_13BIT, TIMER_16BIT
  <2>2. NextTl(t) = 0 /\ NextTh(t) = (th[t] + 1) % Range /\ Reload(t) = 0
    BY <1>8, <2>1 DEF NextTl, NextTh, Reload
  <2>3. CASE th[t] + 1 = Range
    <3>1. NextTh(t) = 0 /\ 0 * TlLimit(t) = 0
      BY <1>1, <2>2, <2>3
    <3> QED
      BY <1>4, <1>5, <1>8, <2>2, <2>3, <3>1
  <2>4. CASE th[t] + 1 # Range
    <3>1. NextTh(t) = th[t] + 1
      BY <1>1, <2>2, <2>4
    <3>2. (th[t] + 1) * TlLimit(t) = th[t] * TlLimit(t) + TlLimit(t)
      BY <1>1, NextDigit
    <3>3. Value(t) = th[t] * TlLimit(t) + tl[t] /\ th[t] * TlLimit(t) \in Nat
      BY <1>1, <1>8, ProductIsNat DEF Value, Tim
    <3>4. tl[t] + 1 = TlLimit(t)
      BY <1>8 DEF TlWraps
    <3> QED
      BY <1>1, <1>4, <1>5, <1>8, <2>2, <2>4, <3>1, <3>2, <3>3, <3>4
  <2> QED
    BY <2>3, <2>4
<1> QED
  BY <1>6, <1>7, <1>8
-----------------------------------------------------------------------------
(* The invariant *)

(* The history gives the value of every counter that counts. *)
History ==
  /\ since \in [Counters -> [start : Nat, ticks : Nat]]
  /\ \A c \in Counters : Tracked(c) => Value(c) = since[c].start + since[c].ticks

LEMMA InitHistory == PInit /\ TypeOK => History
<1> SUFFICES ASSUME PInit, TypeOK PROVE History
  OBVIOUS
<1>1. ASSUME NEW c \in Counters
      PROVE  since[c] = [start |-> Value(c), ticks |-> 0] /\ Value(c) \in Nat
  BY ValueType DEF PInit, Fresh
<1> QED
  BY <1>1 DEF History, PInit

(* A counter that starts afresh stands at its start. *)
LEMMA StartsAfresh ==
  ASSUME TypeOK', NEW c \in Counters, since'[c] = Fresh(c)'
  PROVE  /\ since'[c] \in [start : Nat, ticks : Nat]
         /\ Value(c)' = since'[c].start + since'[c].ticks
BY NextValueType DEF Fresh

LEMMA TickHistory ==
  ASSUME TypeOK, TypeOK', History, NEW t \in Tim, PTick(t)
  PROVE  History'
<1>1. Tick(t)
  BY DEF PTick
<1>2. ASSUME NEW c \in Counters
      PROVE  /\ since'[c] \in [start : Nat, ticks : Nat]
             /\ Tracked(c)' => Value(c)' = since'[c].start + since'[c].ticks
  <2>1. CASE ~Tracked(c)
    <3>1. since'[c] = Fresh(c)'
      BY <2>1 DEF PTick
    <3> QED
      BY <3>1, StartsAfresh
  <2>2. CASE Tracked(c)
    <3>1. /\ since[c] \in [start : Nat, ticks : Nat]
          /\ Value(c) = since[c].start + since[c].ticks
      BY <2>2 DEF History
    <3>2. since'[c] = IF Wraps(c, t) THEN [start |-> Reload(c), ticks |-> 0]
                      ELSE IF Ticks(c, t) THEN [since[c] EXCEPT !.ticks = @ + 1]
                      ELSE since[c]
      BY <2>2 DEF PTick
    <3>3. Value(c)' = IF Wraps(c, t) THEN Reload(c)
                      ELSE IF Ticks(c, t) THEN Value(c) + 1 ELSE Value(c)
      <4>1. CASE c = "TH0"
        BY <1>1, <2>2, <4>1, Th0Tick DEF Reload, Tim
      <4>2. CASE c \in Tim /\ Ticks(c, t)
        <5>1. c = t
          BY <4>2 DEF Ticks, Tim
        <5> QED
          BY <1>1, <2>2, <4>2, <5>1, OwnTick
      <4>3. CASE c \in Tim /\ ~Ticks(c, t)
        <5>1. ~Wraps(c, t)
          BY <4>3 DEF Wraps, Ticks, Overflows, Tim
        <5> QED
          BY <1>1, <4>3, <5>1, OthersTick
      <4> QED
        BY <4>1, <4>2, <4>3 DEF Counters
    <3>4. Reload(c) \in Nat
      BY RangeAssumption DEF Reload, TypeOK, Count
    <3> QED
      BY <3>1, <3>2, <3>3, <3>4
  <2> QED
    BY <2>1, <2>2
<1>3. since' = [c \in Counters |-> since'[c]]
  BY DEF PTick
<1> QED
  BY <1>2, <1>3 DEF History

(* A store that restarts the counters it moves, or whose mode it changes,  *)
(* keeps the history.                                                      *)
LEMMA RestartHistory ==
  ASSUME TypeOK', History, NEW restarted, Restart(restarted),
         \A c \in Counters \ restarted : Value(c)' = Value(c) /\ (Tracked(c)' <=> Tracked(c))
  PROVE  History'
<1>1. ASSUME NEW c \in Counters
      PROVE  /\ since'[c] \in [start : Nat, ticks : Nat]
             /\ Tracked(c)' => Value(c)' = since'[c].start + since'[c].ticks
  <2>1. CASE c \in restarted
    <3>1. since'[c] = Fresh(c)'
      BY <2>1 DEF Restart
    <3> QED
      BY <3>1, StartsAfresh
  <2>2. CASE c \notin restarted
    <3>1. since'[c] = since[c]
      BY <2>2 DEF Restart
    <3> QED
      BY <2>2, <3>1 DEF History
  <2> QED
    BY <2>1, <2>2
<1>2. since' = [c \in Counters |-> since'[c]]
  BY DEF Restart
<1> QED
  BY <1>1, <1>2 DEF History

LEMMA StoreHistory ==
  ASSUME TypeOK, TypeOK', History, PStore
  PROVE  History'
<1> USE DEF Value, Tracked, Wide, TlLimit, Counters, TimerOf, Tim, TypeOK
<1>1. ASSUME NEW t \in Tim, PLoadTl(t) PROVE History'
  <2>1. \A c \in Counters \ {t} : Value(c)' = Value(c) /\ (Tracked(c)' <=> Tracked(c))
    BY <1>1 DEF PLoadTl, LoadTl, controls
  <2> QED
    BY <1>1, <2>1, RestartHistory DEF PLoadTl
<1>2. ASSUME NEW t \in Tim, PLoadTh(t) PROVE History'
  <2> DEFINE R == {c \in Counters : TimerOf(c) = t /\ (c = "TH0" \/ Wide(t))}
  <2>1. \A c \in Counters \ R : Value(c)' = Value(c) /\ (Tracked(c)' <=> Tracked(c))
    BY <1>2 DEF PLoadTh, LoadTh, controls
  <2>2. Restart(R)
    BY <1>2 DEF PLoadTh
  <2> HIDE DEF R
  <2> QED
    BY <2>1, <2>2, RestartHistory
<1>3. ASSUME PSetTmod PROVE History'
  <2> DEFINE R == {c \in Counters : tmod'.mode[TimerOf(c)] # tmod.mode[TimerOf(c)]}
  <2>1. \A c \in Counters \ R : Value(c)' = Value(c) /\ (Tracked(c)' <=> Tracked(c))
    BY <1>3 DEF PSetTmod, SetTmod, counters
  <2>2. Restart(R)
    BY <1>3 DEF PSetTmod
  <2> HIDE DEF R
  <2> QED
    BY <2>1, <2>2, RestartHistory
<1>4. ASSUME PSetControl PROVE History'
  <2>1. \A c \in Counters \ {} : Value(c)' = Value(c) /\ (Tracked(c)' <=> Tracked(c))
    BY <1>4 DEF PSetControl, SetTcon, SetP3, counters
  <2> QED
    BY <1>4, <2>1, RestartHistory DEF PSetControl
<1> QED
  BY <1>1, <1>2, <1>3, <1>4 DEF PStore

(* The types of the timers and the history are inductive together. *)
THEOREM PeriodInvariance == PSpec => [](TypeOK /\ History)
<1>1. PSpec => []TypeOK
  BY HistoryOnly, TypeCorrect, PTL
<1>2. PInit /\ TypeOK => History
  BY InitHistory
<1>3. TypeOK /\ TypeOK' /\ History /\ [PNext]_<<vars, since>> => History'
  <2> SUFFICES ASSUME TypeOK, TypeOK', History, [PNext]_<<vars, since>>
               PROVE  History'
    OBVIOUS
  <2>1. ASSUME NEW t \in Tim, PTick(t) PROVE History'
    BY <2>1, TickHistory
  <2>2. CASE PStore
    BY <2>2, StoreHistory
  <2>3. CASE UNCHANGED <<vars, since>>
    <3>1. \A c \in Counters : Value(c)' = Value(c) /\ (Tracked(c)' <=> Tracked(c))
      BY <2>3 DEF vars, controls, counters, Value, Tracked, Wide, TlLimit
    <3> QED
      BY <2>3, <3>1 DEF History
  <2> QED
    BY <2>1, <2>2, <2>3 DEF PNext
<1> QED
  BY <1>1, <1>2, <1>3, PTL DEF PSpec
-----------------------------------------------------------------------------
(* No tick is lost between TL and TH: in every mode, whatever is stored    *)
(* and however the timers interleave, a counter stands at the value it     *)
(* started from plus the ticks it took.                                    *)
THEOREM EveryTick == PSpec => []EveryTickCounts
<1>1. TypeOK /\ History => EveryTickCounts
  BY BelowModulus DEF EveryTickCounts, History
<1> QED
  BY <1>1, PeriodInvariance, PTL

(* From one overflow of a counter to the next there are as many ticks as   *)
(* its modulus less the value it restarted from.                           *)
THEOREM Period == PSpec => OverflowPeriod
<1>1. TypeOK /\ History /\ [PNext]_<<vars, since>> =>
        [\A t \in Tim, c \in Counters :
           PTick(t) /\ Tracked(c) /\ Wraps(c, t) =>
             since[c].start + since[c].ticks + 1 = Modulus(c)]_<<vars, since>>
  <2> SUFFICES ASSUME TypeOK, History, NEW t \in Tim, NEW c \in Counters,
                      Tracked(c), Wraps(c, t)
               PROVE  since[c].start + since[c].ticks + 1 = Modulus(c)
    OBVIOUS
  <2>1. Value(c) = since[c].start + since[c].ticks
    BY DEF History
  <2>2. Value(c) + 1 = Modulus(c)
    BY WrapsAtModulus
  <2> QED
    BY <2>1, <2>2
<1>2. PSpec => [][PNext]_<<vars, since>>
  BY PTL DEF PSpec
<1> QED
  BY <1>1, <1>2, PeriodInvariance, PTL DEF OverflowPeriod
=============================================================================

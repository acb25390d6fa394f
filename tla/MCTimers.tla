------------------------------ MODULE MCTimers ------------------------------
(* Small instances of TimerPeriods: counters of three values with a prescaler *)
(* of two, so every mode carries, wraps and reloads within a few ticks.      *)
EXTENDS TimerPeriods

Ungated == [t \in Tim |-> FALSE]
Setting(m0, m1) == [mode |-> [t \in Tim |-> IF t = "TIM0" THEN m0 ELSE m1],
                    gate |-> Ungated, c_t |-> Ungated]

Gated(s) == [s EXCEPT !.gate["TIM0"] = TRUE, !.c_t["TIM1"] = TRUE]

(* Mode and gating change with each other and apart. *)
Settings == {Setting(m0, m1) : m0 \in {TIMER_13BIT, TIMER_8BIT_AUTO, TIMER_SPLIT},
                               m1 \in {TIMER_16BIT, TIMER_SPLIT}}
            \cup {Gated(Setting(TIMER_13BIT, TIMER_16BIT)),
                  Gated(Setting(TIMER_16BIT, TIMER_8BIT_AUTO))}
Loads == {0, 2}
Controls == {{TR0}, {TR1}}
Pins == {{}, {3, 5}}
=============================================================================

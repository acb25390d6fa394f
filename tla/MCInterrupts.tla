---------------------------- MODULE MCInterrupts ----------------------------
(* Small instances of Interrupts for TLC.  The register values are the ones *)
(* that tell the guards apart: a source enabled or not, high or low, edge   *)
(* or level triggered, its timer running or not.                            *)
EXTENDS Interrupts

AllOf(S) == {EnableBit(s) : s \in S}

Enables == {{}, AllOf({"EXT0", "TIM0"}) \cup {IP_EA_BIT},
            AllOf({"EXT0", "EXT1"}) \cup {IP_EA_BIT}}
Priorities == {{}, AllOf({"TIM0"}), AllOf({"EXT0", "TIM0"})}
Controls == {{TR0, IT0}, {IE0}}
Modes == {[t \in Tim |-> TIMER_16BIT],
          [t \in Tim |-> IF t = "TIM0" THEN TIMER_SPLIT ELSE TIMER_16BIT]}

(* Liveness: both external sources and timer 1, at either priority.  What   *)
(* is stored in TCON takes back no external request, so that a flag that    *)
(* disappears was served or lost.                                           *)
LiveEnables == {AllOf(Sources)}
LivePriorities == {AllOf({"EXT0", "TIM1"}), AllOf({"EXT1", "TIM1"})}
LiveControls == {{IE0, IE1, IT0, IT1}}
LiveModes == {[t \in Tim |-> TIMER_SPLIT]}

(* Programs that set up a source and leave its request flag alone.         *)
SetupEnables == {AllOf(Sources)}  \* every source enabled, EA clear
SetupControls == {{TR0, TR1, IT0, IT1}}
SetupModes == {[t \in Tim |-> TIMER_8BIT_AUTO]}
=============================================================================

--------------------------- MODULE InterruptLevels ---------------------------
(***************************************************************************)
(* What the interrupt system promises a program: handlers nest like calls, *)
(* each at a level above the one it interrupts, and a return resumes the   *)
(* handler that was interrupted, at the level it ran at.                   *)
(***************************************************************************)
EXTENDS Integers, Sequences

CONSTANTS Source,   \* what can be serviced
          MaxLevel  \* the levels are 1 .. MaxLevel; 0 is no interrupt

VARIABLE frames     \* handlers entered and not yet left, oldest first

Frame == [source : Source, level : 1 .. MaxLevel]

TopLevel == IF frames = <<>> THEN 0 ELSE frames[Len(frames)].level

Init == frames = <<>>

Enter(s, l) == /\ l > TopLevel
               /\ frames' = Append(frames, [source |-> s, level |-> l])

Leave == /\ frames # <<>>
         /\ frames' = SubSeq(frames, 1, Len(frames) - 1)

Next == \/ \E s \in Source, l \in 1 .. MaxLevel : Enter(s, l)
        \/ Leave

Spec == Init /\ [][Next]_frames
=============================================================================

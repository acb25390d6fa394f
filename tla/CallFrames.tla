----------------------------- MODULE CallFrames -----------------------------
(***************************************************************************)
(* What a program may expect of the stack, whatever bytes it is made of:   *)
(* frames, each a return address or a byte of data, of which the last one  *)
(* stored is the first one taken, and none changes in between.             *)
(***************************************************************************)
EXTENDS Integers

CONSTANTS Code, Vectors, Ram

VARIABLES pc,
          frames  \* where each ends in RAM, and what it holds

Byte == 0 .. 255

Last(f) == \A g \in frames : g.at <= f.at

Init == pc = 0 /\ frames = {}

(* The frame f is laid on top of the others. *)
Placed(f) == /\ f.at \in Ram /\ \A g \in frames : g.at < f.at
             /\ frames' = frames \cup {f}

Call == /\ pc' \in Code
        /\ \E f \in frames' : /\ f.kind = "address" /\ f.value \in {pc + 2, pc + 3}
                             /\ Placed(f)

Interrupt == /\ pc' \in Vectors
             /\ \E f \in frames' : f.kind = "address" /\ f.value = pc /\ Placed(f)

Return == \E f \in frames : /\ Last(f) /\ f.kind = "address"
                            /\ frames' = frames \ {f}
                            /\ pc' = f.value

Save == /\ pc' = pc + 2
        /\ \E f \in frames' : f.kind = "data" /\ f.value \in Byte /\ Placed(f)

Restore == /\ pc' = pc + 2
           /\ \E f \in frames : f.kind = "data" /\ Last(f) /\ frames' = frames \ {f}

Go == pc' \in Code /\ UNCHANGED frames

Next == Go \/ Call \/ Interrupt \/ Return \/ Save \/ Restore

Spec == Init /\ [][Next]_<<pc, frames>>
=============================================================================

-------------------------------- MODULE Cells --------------------------------
(***************************************************************************)
(* What a program may expect of the data memory, however it addresses it:  *)
(* separate cells, of which an instruction changes one, or the two of the  *)
(* data pointer, or exchanges one with the accumulator.  The parity of the *)
(* accumulator is in the program status word as soon as the accumulator is *)
(* written.                                                                *)
(***************************************************************************)
EXTENDS Defs8051

CONSTANTS Cell,
          Acc, Psw, Low8, High8,  \* four of them: the last two point to data
          Cleared,   \* those that a reset clears
          OddParity(_)

VARIABLE contents

PSW_P == 0
WithBit(byte, i, on) == IF on THEN byte \cup {i} ELSE byte \ {i}
WithParityOf(psw, byte) == WithBit(psw, PSW_P, OddParity(byte))

(* The memory c with v in cell x. *)
Put(c, x, v) == IF x = Acc THEN [c EXCEPT ![Acc] = v, ![Psw] = WithParityOf(c[Psw], v)]
                ELSE [c EXCEPT ![x] = v]

Init == contents \in [Cell -> Byte]

Write(x) == contents' = Put(contents, x, contents'[x])

WritePointer == contents' = [contents EXCEPT ![Low8] = contents'[Low8],
                                             ![High8] = contents'[High8]]

Exchange(x) == contents' = [Put(contents, Acc, contents[x]) EXCEPT ![x] = contents[Acc]]

Low(byte) == byte \cap 0 .. 3
High(byte) == byte \cap 4 .. 7
ExchangeDigit(x) ==
  contents' = [Put(contents, Acc, High(contents[Acc]) \cup Low(contents[x]))
                 EXCEPT ![x] = High(contents[x]) \cup Low(contents[Acc])]

Reset == contents' = [x \in Cell |-> IF x \in Cleared THEN {} ELSE contents[x]]

Next == \/ \E x \in Cell : Write(x)
        \/ \E x \in Cell : Exchange(x) \/ ExchangeDigit(x)
        \/ WritePointer
        \/ Reset

Spec == Init /\ [][Next]_contents
=============================================================================

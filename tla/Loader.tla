------------------------------- MODULE Loader -------------------------------
(***************************************************************************)
(* read_ihx() on one line of an Intel HEX file.  A line is what hex2int()  *)
(* makes of its characters: whether a colon leads it, the record type, the *)
(* address, and as many bytes as it counts.  The checksum is never read.   *)
(***************************************************************************)
EXTENDS Integers, Sequences

CONSTANTS Addr,   \* of the code memory
          Byte

TYPE_DATA == 0
TYPE_EOF == 1

Line == [colon : BOOLEAN, type : 0 .. 255, address : Addr, data : Seq(Byte)]

IsData(l) == l.colon /\ l.type = TYPE_DATA
IsEof(l) == l.colon /\ l.type = TYPE_EOF

(* address++ is not reduced to 16 bits: a record that fits has its bytes   *)
(* at consecutive addresses.                                               *)
Covers(l, a) == a - l.address \in 0 .. Len(l.data) - 1
ByteFor(l, a) == l.data[a - l.address + 1]
Fits(l) == \A k \in 1 .. Len(l.data) : l.address + k - 1 \in Addr

StoredOneLate(mem, l) ==
  [a \in Addr |-> IF Covers(l, a - 1) THEN ByteFor(l, a - 1) ELSE mem[a]]
Stored(mem, l) == [a \in Addr |-> IF Covers(l, a) THEN ByteFor(l, a) ELSE mem[a]]
=============================================================================

------------------------------- MODULE MCStack -------------------------------
(* Two return addresses, or as many bytes of data, on a stack of four bytes; *)
(* return addresses in two 2K blocks, and so with high bytes that differ,    *)
(* and an address as far back as a branch reaches.                           *)
EXTENDS Stack

SmallCode == {0, 3, 1920, 2046, 2048}
SmallRam == {1} \cup 8 .. 11
=============================================================================

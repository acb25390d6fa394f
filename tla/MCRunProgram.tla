---------------------------- MODULE MCRunProgram ----------------------------
(* Five addresses.  One vector holds the lock, as unused vectors do, the     *)
(* other a handler.                                                          *)
EXTENDS RunProgram, TLC

Bytes == {"zero", "jump", "lock", "unimp"}
Kinds == "zero" :> "plain" @@ "jump" :> "plain" @@ "lock" :> "lock" @@ "unimp" :> "unimp"
(* The handler at 4 returns. *)
Targets == [b \in Bytes |-> [a \in 0 .. 4 |->
              CASE b = "lock" -> {a}
                [] b = "jump" -> IF a = 4 THEN {1, 2} ELSE {0, 2, 3}
                [] b \in {"zero", "unimp"} -> {IF a = 4 THEN 4 ELSE a + 1}]]

Record(address, data) == [colon |-> TRUE, type |-> TYPE_DATA, address |-> address, data |-> data]
Other(colon, type) == [colon |-> colon, type |-> type, address |-> 0, data |-> <<>>]

(* A program that overwrites part of its first record and has an EOF        *)
(* record, behind which anything may follow; one without, which leaves the  *)
(* byte at 0 to earlier loads; and two files that break off.                *)
Programs == {
  <<Record(0, <<"zero", "jump", "jump", "unimp", "jump">>), Record(2, <<"lock">>),
    Other(TRUE, TYPE_EOF), Record(1, <<"lock">>)>>,
  <<Record(1, <<"zero", "lock", "zero", "jump">>)>>,
  <<Record(1, <<"lock", "jump">>), Other(FALSE, TYPE_DATA)>>,
  <<Record(0, <<"jump">>), Other(TRUE, 4)>>}

Limits == {-1, FOREVER, 3}
=============================================================================

--------------------------- MODULE MCAccountData ---------------------------
(***************************************************************************)
(* A layout with every kind of field, bytes of two values and numbers of   *)
(* two and four of them, so that every wrap and every sign occurs.         *)
(***************************************************************************)
EXTENDS AccountData

MCFields == <<"u64", "i128", "u128", "pubkey", "u64">>

MCValues == [u64 |-> 0..3, u128 |-> {1, 6, 11, 15}, i128 |-> {-8, -3, -1, 7},
             pubkey |-> {0, 147}]

MCForeign == {<<>>, <<1>>, <<1, 0, 1>>}
===========================================================================

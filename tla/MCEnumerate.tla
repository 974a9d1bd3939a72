----------------------------- MODULE MCEnumerate -----------------------------
(* Enumerate over every airdrop of short account ids. *)
EXTENDS Enumerate

OneTwo == {1, 2}

TwoOthers == {<<0, 1, 0>>, <<1, 1, 1>>}
=============================================================================

--------------------------- MODULE MCClaimService ---------------------------
(* ClaimService with a few request slots and accounts. *)
EXTENDS ClaimService, TLC

CONSTANTS r1, r2, r3, owner, stranger

TwoRequests   == {r1, r2}
ThreeRequests == {r1, r2, r3}
MCAccounts    == {owner, stranger}
MCAirdrop     == {owner}

Slots == Permutations(Requests)
=============================================================================

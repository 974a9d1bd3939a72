----------------------------- MODULE MCApiServer -----------------------------
(* ApiServer with counts on both sides of their limits. *)
EXTENDS ApiServer

CONSTANTS r1, r2, owner, stranger

TwoRequests == {r1, r2}
MCAccounts  == {owner, stranger}
MCAirdrop   == {owner}
MCCounts    == {4, 5, 10000, 10001}
=============================================================================

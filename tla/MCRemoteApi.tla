----------------------------- MODULE MCRemoteApi -----------------------------
(* RemoteApi with one count that is too small.  No property tells answers  *)
(* to GetApiInfo apart, so nobody asks for it.                             *)
EXTENDS RemoteApi

CONSTANTS r1, r2, c1, c2, owner, stranger

TwoRequests == {r1, r2}
TwoCallers  == {c1, c2}
MCAccounts  == {owner, stranger}
MCAirdrop   == {owner}
MCCounts    == {4, 5}

MCQuestions ==
  [operation : {"GetWalletInfo"}, address : {owner, stranger}, count : {0}]
    \cup [operation : {"GetWallets"}, address : {owner}, count : {4, 5}]
    \cup [operation : {"GetWallets"}, address : {Missing}, count : {5}]
=============================================================================

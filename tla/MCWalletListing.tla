--------------------------- MODULE MCWalletListing ---------------------------
(* WalletListing over every airdrop of six accounts. *)
EXTENDS WalletListing

SixAccounts == 0..5
OneTwoThree == {1, 2, 3}
=============================================================================

-------------------------- MODULE MCWalletResolver --------------------------
(* WalletResolver with two requests and a master that comes and goes. *)
EXTENDS WalletResolver

CONSTANTS r1, r2, deployed

TwoRequests == {r1, r2}

TwoStates == {Undeployed, deployed}
=============================================================================

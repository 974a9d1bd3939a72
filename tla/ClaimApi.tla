------------------------------ MODULE ClaimApi ------------------------------
(***************************************************************************)
(* What the claim service promises a caller of GetWalletInfo or            *)
(* GetWallets, with no queue, prover goroutine or cache in sight: each     *)
(* call gets one reply, and the reply tells the truth about the airdrop.   *)
(*                                                                         *)
(* ClaimService implements this specification.                             *)
(***************************************************************************)
EXTENDS Naturals

CONSTANTS
  Requests,   (* slots for HTTP requests that can be in progress at once   *)
  Accounts,   (* account ids                                               *)
  Airdrop,    (* the accounts of the airdrop file                          *)
  NoAccount   (* no account id                                             *)

VARIABLES
  phase,      (* [Requests -> {"idle", "serving", "replied"}]              *)
  op,         (* the operation called                                      *)
  account,    (* its address or next_from parameter                        *)
  gone,       (* the requests whose context is done: the client left       *)
  reply       (* [code, owner]                                             *)

vars == <<phase, op, account, gone, reply>>

Operations == {"GetWalletInfo", "GetWallets"}

NoReply == [code |-> 0, owner |-> NoAccount]

(* BadRequest, NotFound and InternalError carry no wallet. *)
Failure(c) == [code |-> c, owner |-> NoAccount]

(* The replies a call may get; "left" says whether its client has left. *)
Allowed(o, a, left) ==
  { Failure(500) }
    \cup { rep \in { Failure(400) } : left }
    \cup IF o = "GetWallets" THEN { [code |-> 200, owner |-> NoAccount] }
         ELSE IF a \in Airdrop THEN { [code |-> 200, owner |-> a] }
         ELSE { Failure(404) }

Init ==
  /\ phase = [r \in Requests |-> "idle"]
  /\ op \in [Requests -> Operations]
  /\ account \in [Requests -> Accounts \cup {NoAccount}]
  /\ gone = {}
  /\ reply = [r \in Requests |-> NoReply]

Call(r, o, a) ==
  /\ phase[r] = "idle"
  /\ phase' = [phase EXCEPT ![r] = "serving"]
  /\ op' = [op EXCEPT ![r] = o]
  /\ account' = [account EXCEPT ![r] = a]
  /\ UNCHANGED <<gone, reply>>

(* The address or next_from parameter is not an account id. *)
BadCall(r) ==
  /\ phase[r] = "idle"
  /\ phase' = [phase EXCEPT ![r] = "replied"]
  /\ reply' = [reply EXCEPT ![r] = Failure(400)]
  /\ UNCHANGED <<op, account, gone>>

Leave(r) ==
  /\ phase[r] = "serving"
  /\ gone' = gone \cup {r}
  /\ UNCHANGED <<phase, op, account, reply>>

Answer(r) ==
  /\ phase[r] = "serving"
  /\ phase' = [phase EXCEPT ![r] = "replied"]
  /\ \E rep \in Allowed(op[r], account[r], r \in gone) :
       reply' = [reply EXCEPT ![r] = rep]
  /\ UNCHANGED <<op, account, gone>>

(* The slot is free for the next request. *)
Release(r) ==
  /\ phase[r] = "replied"
  /\ phase' = [phase EXCEPT ![r] = "idle"]
  /\ gone' = gone \ {r}
  /\ reply' = [reply EXCEPT ![r] = NoReply]
  /\ UNCHANGED <<op, account>>

Next ==
  \E r \in Requests :
    \/ \E o \in Operations, a \in Accounts : Call(r, o, a)
    \/ BadCall(r)
    \/ Leave(r)
    \/ Answer(r)
    \/ Release(r)

Spec == Init /\ [][Next]_vars
=============================================================================

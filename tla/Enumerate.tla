------------------------------ MODULE Enumerate ------------------------------
(***************************************************************************)
(* Listing the airdrop with GET /wallets: a client that follows next_from, *)
(* Handler.GetWallets, processEnumerateAccountsRequest and the walk over   *)
(* the one tree of cells, whose read cursors every request moves.  In      *)
(* between the client's pages the prover serves other requests.            *)
(***************************************************************************)
EXTENDS HashmapWalk

CONSTANTS
  Counts,   (* the values of count; 5..10000 in the API                    *)
  Others    (* the accounts other clients ask for in the meantime          *)

ASSUME EnumerateAssumption ==
  /\ Counts \subseteq Nat \ {0}
  /\ Others \subseteq Accounts

VARIABLES
  airdrop,   (* the accounts of the airdrop file                           *)
  tree,      (* its cells                                                  *)
  cursors,   (* their read cursors                                         *)
  from,      (* the client's first next_from                               *)
  count,     (* the count it asks for                                      *)
  next,      (* the next_from of its next request, NoNext after the last   *)
  listed,    (* the wallets it was sent, in order                          *)
  failed     (* it was sent an error                                       *)

vars == <<airdrop, tree, cursors, from, count, next, listed, failed>>

fileVars == <<airdrop, tree>>
clientVars == <<from, count, next, listed, failed>>

(* The empty next_from of the last page. *)
NoNext == <<>>

Init ==
  /\ airdrop \in (SUBSET Accounts) \ {{}}
  /\ \E style \in Styles : tree = TreeOf({ Key(a) : a \in airdrop }, style)
  /\ cursors = [p \in DOMAIN tree |-> AtStart]
  /\ from \in Accounts
  /\ count \in Counts
  /\ next = from
  /\ listed = <<>>
  /\ failed = FALSE

(* The reset is forgotten: every cell is read on from where it was left. *)
LeaveCounters(c) == c

(* root.ResetCounters() resets the cells below the root too. *)
ResetCounters(c) == [p \in DOMAIN c |-> AtStart]

enumerateAccounts(nextFrom, n) ==
  walk(tree, Key(nextFrom))[Visit(<<>>, <<>>, n, ResetCounters(cursors))]

(* The page is what was asked for, and the next page begins at its last. *)
ProcessWithoutExtra(nextFrom, n) ==
  LET w    == enumerateAccounts(nextFrom, n)
      more == Len(w.accounts) = n
  IN [ok       |-> w.ok,
      accounts |-> w.accounts,
      nextFrom |-> IF more THEN Last(w.accounts) ELSE ZeroAccount,
      cursors  |-> w.cursors]

(* One account more than asked for is read: the start of the next page. *)
processEnumerateAccountsRequest(nextFrom, n) ==
  LET w    == enumerateAccounts(nextFrom, n + 1)
      more == Len(w.accounts) = n + 1
  IN [ok       |-> w.ok,
      accounts |-> IF more THEN Front(w.accounts) ELSE w.accounts,
      nextFrom |-> IF more THEN Last(w.accounts) ELSE ZeroAccount,
      cursors  |-> w.cursors]

(* if !resp.NextFrom.IsZero() *)
NextFromOf(nextFrom) == IF nextFrom = ZeroAccount THEN NoNext ELSE nextFrom

(* A page is asked for, computed, and received. *)
GetWallets ==
  LET resp == processEnumerateAccountsRequest(next, count)
  IN /\ next # NoNext
     /\ ~failed
     /\ cursors' = resp.cursors
     /\ IF resp.ok
        THEN /\ listed' = listed \o resp.accounts
             /\ next' = NextFromOf(resp.nextFrom)
             /\ UNCHANGED failed
        ELSE /\ failed' = TRUE
             /\ UNCHANGED <<listed, next>>
     /\ UNCHANGED <<fileVars, from, count>>

(* The same, but the client is told "timeout" and will ask again. *)
GetWalletsTimeout ==
  /\ next # NoNext
  /\ ~failed
  /\ cursors' = processEnumerateAccountsRequest(next, count).cursors
  /\ UNCHANGED <<fileVars, clientVars>>

(* Somebody's GetWalletInfo: the cells on the way to the key are read. *)
Prove(a) ==
  /\ next # NoNext
  /\ ~failed
  /\ cursors' = [p \in DOMAIN tree |->
                   IF IsPrefix(p, Key(a))
                   THEN [bit |-> Len(tree[p].bits), ref |-> Len(tree[p].refs)]
                   ELSE ResetCounters(cursors)[p]]
  /\ UNCHANGED <<fileVars, clientVars>>

Next ==
  \/ GetWallets
  \/ GetWalletsTimeout
  \/ \E a \in Others : Prove(a)

Spec == Init /\ [][Next]_vars
-----------------------------------------------------------------------------
TypeOK ==
  /\ airdrop \in SUBSET Accounts
  /\ DOMAIN cursors = DOMAIN tree
  /\ \A p \in DOMAIN tree :
       /\ cursors[p].bit \in 0..Len(tree[p].bits)
       /\ cursors[p].ref \in 0..Len(tree[p].refs)
  /\ from \in Accounts
  /\ count \in Counts
  /\ next \in Accounts \cup {NoNext}
  /\ listed \in Seq(Accounts)
  /\ failed \in BOOLEAN

(***************************************************************************)
(* No request over a well-formed file fails, whatever requests the cells'  *)
(* cursors were moved by before it.                                        *)
(***************************************************************************)
NeverFails == ~failed

(***************************************************************************)
(* The client that follows next_from to the end has every wallet from its  *)
(* start on exactly once and in the order of the keys; until then it has   *)
(* the first of them.                                                      *)
(***************************************************************************)
ListedInOrder ==
  LET all == Ordered(NotBefore(airdrop, from))
  IN IF next = NoNext THEN listed = all ELSE IsStrictPrefix(listed, all) \/ listed = <<>>

(***************************************************************************)
(* Page by page, with "count" wallets in each but the last, the service is *)
(* WalletListing with accounts as numbers.                                 *)
(***************************************************************************)
Number(a) == Value(a, 0, AccountBits)

Numbers(accounts) == { Number(a) : a \in accounts }

Listing == INSTANCE WalletListing WITH
  Accounts <- Numbers(Accounts),
  airdrop  <- Numbers(airdrop),
  from     <- Number(from),
  next     <- IF next = NoNext THEN 0 ELSE Number(next),
  listed   <- Numbers(ToSet(listed)),
  finished <- next = NoNext

ImplementsListing == Listing!Spec
=============================================================================

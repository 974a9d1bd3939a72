---------------------------- MODULE WalletListing ----------------------------
(***************************************************************************)
(* What GET /wallets promises a client that reads the whole airdrop: it    *)
(* asks for the first page, then again with the next_from of each reply,   *)
(* until a reply has none.  The service keeps nothing between the calls.   *)
(*                                                                         *)
(* Enumerate implements this specification with a walk over the tree of    *)
(* cells; WalletListingProofs proves that following the pages is enough.   *)
(***************************************************************************)
EXTENDS Naturals, FiniteSets

CONSTANTS
  Accounts,  (* the account ids, as numbers in the order of their keys     *)
  Counts     (* the page lengths a client may ask for                      *)

ASSUME ListingAssumption ==
  /\ Accounts \subseteq Nat
  /\ Counts \subseteq Nat \ {0}

VARIABLES
  airdrop,   (* the accounts of the airdrop                                *)
  from,      (* where the listing began                                    *)
  next,      (* the next_from to ask with, 0 when there is none            *)
  count,     (* the page length the client asks for                        *)
  listed,    (* the accounts received so far                               *)
  finished   (* the last reply had no next_from                            *)

vars == <<airdrop, from, next, count, listed, finished>>

Init ==
  /\ airdrop \in SUBSET Accounts
  /\ from \in Accounts
  /\ next = from
  /\ count \in Counts
  /\ listed = {}
  /\ finished = FALSE

(* The page's last account, instead of the one after it, is the next start.*)
PageFromItsLast(n) ==
  LET page == { a \in airdrop : next <= a /\ a <= n }
  IN /\ ~finished
     /\ n \in airdrop
     /\ Cardinality(page) = count
     /\ listed' = listed \cup page
     /\ next' = n
     /\ UNCHANGED <<airdrop, from, count, finished>>

(* All the service knows of the request. *)
Remaining == { a \in airdrop : a >= next }

(* The next page is to begin behind the account that was read in excess. *)
PageBehindNext(n) ==
  LET page == { a \in Remaining : a < n }
  IN /\ ~finished
     /\ Cardinality(page) = count
     /\ listed' = listed \cup page
     /\ next' = n + 1
     /\ UNCHANGED <<airdrop, from, count, finished>>

(* The page is followed by account n, at which the next one begins. *)
Page(n) ==
  LET page == { a \in Remaining : a < n }
  IN /\ ~finished
     /\ n \in Remaining
     /\ IsFiniteSet(page)
     /\ Cardinality(page) = count
     /\ listed' = listed \cup page
     /\ next' = n
     /\ UNCHANGED <<airdrop, from, count, finished>>

(* The start is listed as if it had to be in the airdrop. *)
LastPageWithStart ==
  /\ ~finished
  /\ Cardinality(Remaining) <= count
  /\ listed' = listed \cup Remaining \cup {next}
  /\ finished' = TRUE
  /\ next' = 0
  /\ UNCHANGED <<airdrop, from, count>>

LastPage ==
  /\ ~finished
  /\ IsFiniteSet(Remaining)
  /\ Cardinality(Remaining) <= count
  /\ listed' = listed \cup Remaining
  /\ finished' = TRUE
  /\ next' = 0
  /\ UNCHANGED <<airdrop, from, count>>

Next == (\E n \in Remaining : Page(n)) \/ LastPage

Spec == Init /\ [][Next]_vars

(* The client goes on, and is answered. *)
FairSpec == Spec /\ WF_vars(Next)
-----------------------------------------------------------------------------
TypeOK ==
  /\ airdrop \in SUBSET Accounts
  /\ from \in Nat
  /\ next \in Nat
  /\ count \in Counts
  /\ listed \in SUBSET airdrop
  /\ finished \in BOOLEAN

(***************************************************************************)
(* The pages received are exactly what lies between the start and the next *)
(* page: nothing is skipped at a page's end and nothing comes twice.       *)
(***************************************************************************)
NothingSkipped ==
  ~finished => listed = { a \in airdrop : from <= a /\ a < next }

(***************************************************************************)
(* At the end every account of the airdrop from the start on was received, *)
(* although each request says no more than where its page begins.          *)
(***************************************************************************)
Complete == finished => listed = { a \in airdrop : from <= a }

(***************************************************************************)
(* The end comes: every page that is not the last moves on.                *)
(***************************************************************************)
ListingEnds == <>finished
=============================================================================

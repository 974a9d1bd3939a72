------------------------- MODULE WalletListingProofs -------------------------
(***************************************************************************)
(* Proofs about WalletListing, for every airdrop, every start and every    *)
(* page length: a client that follows next_from gets all of it.            *)
(***************************************************************************)
EXTENDS WalletListing, TLAPS

(***************************************************************************)
(* The inductive invariant.  While the listing goes on, what was received  *)
(* lies between the start and the next page, which makes the stateless     *)
(* "everything from next on" the complement of what was received.          *)
(***************************************************************************)
ListingInv ==
  /\ TypeOK
  /\ ~finished => from <= next
  /\ NothingSkipped
  /\ Complete

(* Two pages that meet make one: below the meeting point and from it on.   *)
LEMMA PagesMeet ==
  ASSUME NEW S \in SUBSET Nat, NEW lo \in Nat, NEW mid \in Nat, lo <= mid
  PROVE  /\ { a \in S : lo <= a /\ a < mid } \cup { a \in S : a >= mid }
              = { a \in S : lo <= a }
         /\ \A hi \in Nat : mid <= hi =>
              { a \in S : lo <= a /\ a < mid } \cup { a \in { b \in S : b >= mid } : a < hi }
                = { a \in S : lo <= a /\ a < hi }
<1>1. \A a \in S : a >= mid => lo <= a
  OBVIOUS
<1>2. \A a \in S : (lo <= a /\ a < mid) \/ a >= mid <=> lo <= a
  BY <1>1
<1>3. ASSUME NEW hi \in Nat, mid <= hi
      PROVE  \A a \in S : (lo <= a /\ a < mid) \/ (a >= mid /\ a < hi)
                            <=> lo <= a /\ a < hi
  BY <1>1, <1>3
<1> QED
  BY <1>2, <1>3

(* A listing starts with nothing received and nothing passed over. *)
LEMMA ListingInvInit == Init => ListingInv
<1> SUFFICES ASSUME Init PROVE ListingInv
  OBVIOUS
<1>1. TypeOK
  BY ListingAssumption DEF Init, TypeOK
<1>2. \A a \in airdrop : ~(from <= a /\ a < next)
  BY <1>1 DEF Init, TypeOK
<1>3. NothingSkipped
  BY <1>2 DEF Init, NothingSkipped
<1>4. from <= next
  BY <1>1 DEF Init, TypeOK
<1> QED
  BY <1>1, <1>3, <1>4 DEF Init, ListingInv, Complete

(* A page moves the end of what was received to the next page's start. *)
LEMMA ListingInvPage ==
  ASSUME ListingInv, NEW n \in Remaining, Page(n)
  PROVE  ListingInv'
<1> USE DEF ListingInv, Page, Remaining
<1>1. airdrop \in SUBSET Nat /\ n \in Nat /\ next \in Nat /\ from \in Nat
  BY ListingAssumption DEF TypeOK
<1>2. next <= n /\ from <= n
  BY <1>1
<1>3. listed' = { a \in airdrop : from <= a /\ a < n }
  BY <1>1, <1>2, PagesMeet DEF NothingSkipped
<1>4. TypeOK'
  BY <1>1 DEF TypeOK
<1> QED
  BY <1>2, <1>3, <1>4 DEF NothingSkipped, Complete

(* The last page brings all that is left. *)
LEMMA ListingInvLastPage ==
  ASSUME ListingInv, LastPage
  PROVE  ListingInv'
<1> USE DEF ListingInv, LastPage, Remaining
<1>1. airdrop \in SUBSET Nat /\ next \in Nat /\ from \in Nat /\ from <= next
  BY ListingAssumption DEF TypeOK
<1>2. listed' = { a \in airdrop : from <= a }
  BY <1>1, PagesMeet DEF NothingSkipped
<1>3. TypeOK'
  BY <1>1 DEF TypeOK
<1> QED
  BY <1>2, <1>3 DEF NothingSkipped, Complete

(* The invariant holds throughout. *)
LEMMA ListingInvariant == Spec => []ListingInv
<1>1. ListingInv /\ [Next]_vars => ListingInv'
  <2> SUFFICES ASSUME ListingInv, [Next]_vars
               PROVE  ListingInv'
    OBVIOUS
  <2>1. CASE UNCHANGED vars
    BY <2>1 DEF vars, ListingInv, TypeOK, NothingSkipped, Complete
  <2> QED
    BY <2>1, ListingInvPage, ListingInvLastPage DEF Next
<1> QED
  BY ListingInvInit, <1>1, PTL DEF Spec

(* What was listed is part of the airdrop, whatever the page length.        *)
THEOREM TypeCorrect == Spec => []TypeOK
<1>1. ListingInv => TypeOK
  BY DEF ListingInv
<1> QED
  BY <1>1, ListingInvariant, PTL

(* Nothing is skipped at the end of a page, whatever the page length. *)
THEOREM NeverSkips == Spec => []NothingSkipped
<1>1. ListingInv => NothingSkipped
  BY DEF ListingInv
<1> QED
  BY <1>1, ListingInvariant, PTL

(* A listing that has ended has every account of the airdrop from its      *)
(* start on, although the service remembers nothing between the pages.     *)
THEOREM ListingComplete == Spec => []Complete
<1>1. ListingInv => Complete
  BY DEF ListingInv
<1> QED
  BY <1>1, ListingInvariant, PTL
=============================================================================

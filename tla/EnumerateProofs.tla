-------------------------- MODULE EnumerateProofs ---------------------------
(***************************************************************************)
(* The invariants of the listing, and that it implements WalletListing,    *)
(* proved for every airdrop, page size, encoding of the file, and length of*)
(* account ids.                                                            *)
(***************************************************************************)
EXTENDS Enumerate, HashmapWalkProofs
-----------------------------------------------------------------------------
(***************************************************************************)
(* The invariant, and the answer to one request.                           *)
(***************************************************************************)
(* What is left to be listed from the account a on. *)
Rest(a) == NotBefore(airdrop, a)

(* The accounts a client that is to ask with next has been sent. *)
Sent == IF next = NoNext THEN Rest(from) ELSE Before(Rest(from), next)

(* The cells are those of an airdrop file. *)
FileOK ==
  /\ airdrop \in SUBSET Accounts
  /\ airdrop # {}
  /\ \E style \in Styles : tree = TreeOf(KeysOf(airdrop), style)

(* Whatever moved the cursors, they are within their cells. *)
CursorsOK(c) == c \in Cursors(tree) /\ \A p \in DOMAIN tree : InCell(tree, c, p)

(* The client asks from an account on, or is done, and has not failed. *)
ClientOK ==
  /\ from \in Accounts
  /\ count \in Counts
  /\ next \in Accounts \cup {NoNext}
  /\ failed = FALSE

(* It was sent what is before its next page, and the next page begins at an*)
(* account that is still to be listed.                                     *)
ListedOK ==
  /\ Lists(listed, Sent)
  /\ next # NoNext => next = from \/ next \in Rest(from)

(* The inductive invariant.  ListedInOrder says that the list is a         *)
(* beginning of all wallets in order, but not where the next page begins;  *)
(* ListedOK says that it begins right after the list, and FileOK and       *)
(* CursorsOK that the walk over the one shared tree is answered as         *)
(* WalkAnswers says.                                                       *)
IInv == FileOK /\ CursorsOK(cursors) /\ ClientOK /\ ListedOK

(* The empty next_from is no account. *)
LEMMA NoNextIsNoAccount == NoNext \notin Accounts
<1>1. ASSUME NoNext \in Accounts PROVE FALSE
  <2>1. Len(NoNext) = AccountBits BY <1>1, KeyType
  <2>2. Len(NoNext) = 0 BY EmptySeq DEF NoNext
  <2> QED BY <2>1, <2>2, WalkAssumption
<1> QED BY <1>1

(* The tree of the file is one that walk is right on. *)
LEMMA FileType ==
  ASSUME FileOK
  PROVE /\ TypedTree(tree)
        /\ <<>> \in DOMAIN tree /\ DOMAIN tree \subseteq Seq(Bit)
        /\ [p \in DOMAIN tree |-> AtStart] \in Cursors(tree)
<1>1. PICK style : tree = TreeOf(KeysOf(airdrop), style) BY DEF FileOK
<1>2. airdrop \in SUBSET Accounts /\ airdrop # {} BY DEF FileOK
<1>3. KeysOf(airdrop) \in SUBSET KeyBits /\ KeysOf(airdrop) # {}
  <2>1. PICK a : a \in airdrop BY <1>2
  <2>2. Key(a) \in KeysOf(airdrop) BY <2>1 DEF KeysOf
  <2> QED BY <1>2, <2>2, KeysOfType
<1>4. DOMAIN tree = CellNames(KeysOf(airdrop)) BY <1>1 DEF TreeOf
<1>5. <<>> \in DOMAIN tree BY <1>4 DEF CellNames
<1>6. \A p \in DOMAIN tree : p \in Seq(Bit) BY <1>3, <1>4, CellNameType
<1>7. TypedTree(tree) BY <1>1, <1>3, TreeIsTyped
<1>8. [p \in DOMAIN tree |-> AtStart] \in Cursors(tree) BY DEF Cursors, AtStart
<1> QED BY <1>5, <1>6, <1>7, <1>8

(* The two kinds of reply to a request that begins at a. *)
PageReply(resp, a) ==
  LET n == NextFromOf(resp.nextFrom)
  IN n \in Rest(a) /\ Lists(resp.accounts, Before(Rest(a), n)) /\ Len(resp.accounts) = count

LastReply(resp, a) ==
  /\ NextFromOf(resp.nextFrom) = NoNext
  /\ Lists(resp.accounts, Rest(a))
  /\ Len(resp.accounts) <= count

(* processEnumerateAccountsRequest: whatever requests moved the cursors    *)
(* before, a page has "count" accounts and next_from is the first one after*)
(* it, or it is the last page and ends the listing.  Reading one account   *)
(* more than asked for decides between the two; next_from is never the zero*)
(* account, which would end the listing early, for the zero account is     *)
(* before all others.                                                      *)
LEMMA RequestAnswered ==
  ASSUME FileOK, CursorsOK(cursors), count \in Nat \ {0}, NEW a \in Accounts
  PROVE LET resp == processEnumerateAccountsRequest(a, count)
        IN resp.ok /\ CursorsOK(resp.cursors) /\ (PageReply(resp, a) \/ LastReply(resp, a))
<1> DEFINE m == count + 1
           c == ResetCounters(cursors)
           w == enumerateAccounts(a, m)
           S == Rest(a)
           resp == processEnumerateAccountsRequest(a, count)
<1>1. /\ TypedTree(tree) /\ <<>> \in DOMAIN tree /\ DOMAIN tree \subseteq Seq(Bit)
      /\ airdrop \in SUBSET Accounts /\ airdrop # {}
  BY FileType DEF FileOK
<1>2. c \in Cursors(tree) /\ Unread(tree, <<>>, c)
  <2>1. DOMAIN cursors = DOMAIN tree BY DEF CursorsOK, Cursors
  <2>2. c = [p \in DOMAIN tree |-> AtStart] BY <2>1 DEF ResetCounters
  <2> HIDE DEF c
  <2>3. c \in Cursors(tree) BY <2>2, FileType
  <2>4. \A p \in DOMAIN tree : c[p] = AtStart BY <2>2
  <2> QED BY <2>3, <2>4 DEF Unread
<1>3. m \in Nat \ {0} /\ count \in Nat OBVIOUS
<1>4. w = walk(tree, Key(a))[Visit(<<>>, <<>>, m, c)] BY DEF enumerateAccounts
<1> HIDE DEF w, c, m, S
<1>5. Answers(tree, airdrop, a, <<>>, m, c, w)
  <2>1. PICK style : tree = TreeOf(KeysOf(airdrop), style) BY DEF FileOK
  <2>2. HalfAnswers(walk(tree, Key(a)), tree, airdrop, a, <<>>)
    BY <1>1, <2>1, WalkAnswers
  <2> QED BY <1>2, <1>3, <1>4, <2>2 DEF HalfAnswers
<1>6. Wanted(airdrop, a, <<>>) = S
  <2> SUFFICES ASSUME NEW b \in airdrop PROVE IsPrefix(<<>>, Key(b)) BY DEF Wanted, NotBefore, S, Rest
  <2>1. Key(b) \in Seq(Bit) /\ Len(Key(b)) \in Nat BY <1>1, KeyType, KeyBitsType, KeyLengthType
  <2>2. <<>> \in Seq(Bit) /\ Len(<<>>) = 0 /\ \A i \in 1..0 : FALSE BY EmptySeq
  <2>3. \A i \in 1..Len(<<>>) : <<>>[i] = Key(b)[i] BY <2>2
  <2>4. Len(<<>>) <= Len(Key(b)) BY <2>1, <2>2
  <2> QED BY <2>1, <2>2, <2>3, <2>4, PrefixPointwise, Zenon
<1>7. w.ok /\ FirstOf(w.accounts, S, m) /\ MovesBelow(tree, <<>>, c, w.cursors)
  BY <1>5, <1>6 DEF Answers
<1>8. CursorsOK(w.cursors)
  <2>1. \A q \in DOMAIN tree : IsPrefix(<<>>, q)
    <3> SUFFICES ASSUME NEW q \in DOMAIN tree PROVE IsPrefix(<<>>, q) OBVIOUS
    <3>1. q \in Seq(Bit) /\ Len(q) \in Nat BY <1>1, LenProperties
    <3>2. <<>> \in Seq(Bit) /\ Len(<<>>) = 0 /\ \A i \in 1..0 : FALSE BY EmptySeq
    <3>3. \A i \in 1..Len(<<>>) : <<>>[i] = q[i] BY <3>2
    <3>4. Len(<<>>) <= Len(q) BY <3>1, <3>2
    <3> QED BY <3>1, <3>2, <3>3, <3>4, PrefixPointwise, Zenon
  <2> QED BY <1>7, <2>1 DEF MovesBelow, CursorsOK
<1>9. /\ resp.ok = w.ok /\ resp.cursors = w.cursors
      /\ Len(w.accounts) = m => resp.accounts = Front(w.accounts) /\ resp.nextFrom = Last(w.accounts)
      /\ Len(w.accounts) # m => resp.accounts = w.accounts /\ resp.nextFrom = ZeroAccount
  BY DEF processEnumerateAccountsRequest, w, m
<1> HIDE DEF resp
<1>10. S \in SUBSET Accounts BY <1>1 DEF S, Rest, NotBefore
<1>11. /\ w.accounts \in Seq(S)
       /\ Len(w.accounts) # m => Len(w.accounts) <= count /\ Lists(w.accounts, S)
       /\ Len(w.accounts) = m => /\ Last(w.accounts) \in S
                                 /\ Lists(Front(w.accounts), Before(S, Last(w.accounts)))
                                 /\ Len(Front(w.accounts)) = count
  <2>1. FirstOf(w.accounts, S, count + 1) BY <1>7 DEF m
  <2> QED BY <1>3, <1>10, <2>1, PageLists DEF m
<1>12. CASE Len(w.accounts) # m
  <2>1. NextFromOf(resp.nextFrom) = NoNext BY <1>9, <1>12 DEF NextFromOf
  <2>2. LastReply(resp, a) BY <1>9, <1>11, <1>12, <2>1 DEF LastReply, S
  <2> QED BY <1>7, <1>8, <1>9, <2>2 DEF resp
<1>13. CASE Len(w.accounts) = m
  <2> DEFINE n == Last(w.accounts)
  <2>1. n \in S /\ n \in Accounts BY <1>10, <1>11, <1>13
  <2>2. Before(S, n) # {}
    <3>1. Front(w.accounts) \in Seq(Before(S, n)) /\ Len(Front(w.accounts)) = count
      BY <1>11, <1>13 DEF Lists
    <3>2. 1 \in 1..Len(Front(w.accounts)) BY <3>1
    <3>3. Front(w.accounts)[1] \in Before(S, n) BY <3>1, <3>2, ElementOfSeq
    <3> QED BY <3>3
  <2>3. n # ZeroAccount
    <3>1. PICK b \in S : Precedes(Key(b), Key(n)) BY <2>2 DEF Before
    <3>2. b \in Accounts BY <1>10
    <3> HIDE DEF n
    <3> QED BY <3>1, <3>2, NothingBeforeZero
  <2>4. NextFromOf(resp.nextFrom) = n BY <1>9, <1>13, <2>3 DEF NextFromOf
  <2>5. PageReply(resp, a) BY <1>9, <1>11, <1>13, <2>4 DEF PageReply, S
  <2> QED BY <1>7, <1>8, <1>9, <2>5 DEF resp
<1> QED BY <1>12, <1>13
-----------------------------------------------------------------------------
(***************************************************************************)
(* Every step keeps the invariant.                                         *)
(***************************************************************************)
(* The accounts from the first request on are those before a later one, and*)
(* those from it on.                                                       *)
LEMMA RestParts ==
  ASSUME airdrop \in SUBSET Accounts, from \in Accounts, NEW a \in Accounts,
         a = from \/ a \in Rest(from)
  PROVE LET sent == Before(Rest(from), a)
        IN /\ Rest(from) = sent \cup Rest(a)
           /\ \A x \in sent, y \in Rest(a) : Precedes(Key(x), Key(y))
           /\ \A n \in Rest(a) : /\ n \in Rest(from)
                                 /\ Before(Rest(from), n) = sent \cup Before(Rest(a), n)
<1> DEFINE lt(x, y) == Precedes(Key(x), Key(y))
<1>1. /\ \A x \in Accounts : ~lt(x, x)
      /\ \A x, y \in Accounts : lt(x, y) => ~lt(y, x)
      /\ \A x, y, z \in Accounts : lt(x, y) /\ lt(y, z) => lt(x, z)
      /\ \A x, y \in Accounts : x = y \/ lt(x, y) \/ lt(y, x)
  BY AccountOrder
<1>2. /\ \A b, x : x \in Rest(b) <=> x \in airdrop /\ ~lt(x, b)
      /\ \A b, n, x : x \in Before(Rest(b), n) <=> x \in airdrop /\ ~lt(x, b) /\ lt(x, n)
  BY DEF Rest, NotBefore, Before
<1> HIDE DEF lt
<1>3. ~lt(a, from) BY <1>1, <1>2
<1>4. ASSUME NEW x \in airdrop
      PROVE /\ ~lt(x, a) => ~lt(x, from)
            /\ \A y \in airdrop : lt(x, a) /\ ~lt(y, a) => lt(x, y)
            /\ \A n \in airdrop : ~lt(n, a) /\ lt(x, a) => lt(x, n)
  <2>1. x \in Accounts /\ \A y \in airdrop : y \in Accounts OBVIOUS
  <2>2. ~lt(x, a) => ~lt(x, from) BY <1>1, <1>3, <2>1
  <2>3. ASSUME NEW y \in airdrop, lt(x, a), ~lt(y, a) PROVE lt(x, y)
    <3>1. y = a \/ lt(a, y) BY <1>1, <2>1, <2>3
    <3> QED BY <1>1, <2>1, <2>3, <3>1
  <2> QED BY <2>2, <2>3
<1>5. Rest(from) = Before(Rest(from), a) \cup Rest(a) BY <1>2, <1>4
<1>6. \A x \in Before(Rest(from), a), y \in Rest(a) : lt(x, y) BY <1>2, <1>4
<1>7. \A n \in Rest(a) : n \in Rest(from) BY <1>5
<1>8. ASSUME NEW n \in Rest(a)
      PROVE Before(Rest(from), n) = Before(Rest(from), a) \cup Before(Rest(a), n)
  <2>1. n \in airdrop /\ ~lt(n, a) BY <1>2
  <2> QED BY <1>2, <1>4, <2>1
<1> QED BY <1>5, <1>6, <1>7, <1>8 DEF lt

(* A client that has asked for nothing was sent nothing. *)
LEMMA InitInvariant == Init => IInv
<1> SUFFICES ASSUME Init PROVE IInv OBVIOUS
<1>1. FileOK
  <2>0. airdrop \in (SUBSET Accounts) \ {{}} BY Zenon DEF Init
  <2>1. airdrop \in SUBSET Accounts /\ airdrop # {} BY <2>0
  <2>2. \E style \in Styles : tree = TreeOf({ Key(a) : a \in airdrop }, style)
    BY Zenon DEF Init
  <2>3. KeysOf(airdrop) = { Key(a) : a \in airdrop } BY DEF KeysOf
  <2> QED BY <2>1, <2>2, <2>3, Zenon DEF FileOK
<1>2. CursorsOK(cursors)
  <2>1. cursors = [p \in DOMAIN tree |-> AtStart] BY DEF Init
  <2>2. \A p \in DOMAIN tree : cursors[p] = AtStart BY <2>1
  <2> QED BY <1>1, <2>1, <2>2, FileType, UnreadInCell DEF CursorsOK
<1>3. ClientOK BY DEF Init, ClientOK
<1>4. ListedOK
  <2>1. next = from /\ from \in Accounts /\ listed = <<>> BY DEF Init
  <2>2. next # NoNext BY <2>1, NoNextIsNoAccount
  <2>3. Sent = {} BY <2>1, <2>2 DEF Sent, Before, Rest, NotBefore
  <2>4. Lists(<<>>, {})
    <3>1. FirstOf(<<>>, {}, 1) BY FirstOfNone
    <3>2. Len(<<>>) # 1 OBVIOUS
    <3> QED BY <3>1, <3>2 DEF FirstOf, Lists
  <2> QED BY <2>1, <2>3, <2>4 DEF ListedOK
<1> QED BY <1>1, <1>2, <1>3, <1>4 DEF IInv

(* What a request that succeeds appends to the listed accounts. *)
Paged(page, n) ==
  /\ n \in Rest(next)
  /\ Lists(page, Before(Rest(next), n))
  /\ Len(page) = count

Ended(page, n) ==
  /\ n = NoNext
  /\ Lists(page, Rest(next))
  /\ Len(page) <= count

(* A page that a client of the invariant receives. *)
LEMMA GetWalletsStep ==
  ASSUME IInv, GetWallets
  PROVE /\ next \in Accounts /\ next # NoNext /\ from \in Accounts
        /\ count \in Nat \ {0} /\ airdrop \in SUBSET Accounts
        /\ next = from \/ next \in Rest(from)
        /\ UNCHANGED <<airdrop, tree, from, count, failed>>
        /\ CursorsOK(cursors')
        /\ \E page : listed' = listed \o page /\ (Paged(page, next') \/ Ended(page, next'))
<1> DEFINE resp == processEnumerateAccountsRequest(next, count)
<1>1. FileOK /\ CursorsOK(cursors) /\ ClientOK /\ ListedOK BY DEF IInv
<1>2. next \in Accounts /\ from \in Accounts /\ count \in Nat \ {0} /\ airdrop \in SUBSET Accounts
  BY <1>1, EnumerateAssumption DEF GetWallets, ClientOK, FileOK
<1>3. resp.ok /\ CursorsOK(resp.cursors) /\ (PageReply(resp, next) \/ LastReply(resp, next))
  BY <1>1, <1>2, RequestAnswered
<1>4. /\ cursors' = resp.cursors
      /\ listed' = listed \o resp.accounts
      /\ next' = NextFromOf(resp.nextFrom)
      /\ UNCHANGED <<airdrop, tree, from, count, failed>>
  BY <1>3 DEF GetWallets, fileVars
<1> HIDE DEF resp
<1>5. next # NoNext BY <1>2, NoNextIsNoAccount
<1>6. next = from \/ next \in Rest(from) BY <1>1, <1>5 DEF ListedOK
<1>7. CASE PageReply(resp, next)
  <2>1. Paged(resp.accounts, next') BY <1>4, <1>7 DEF PageReply, Paged
  <2> QED BY <1>2, <1>3, <1>4, <1>5, <1>6, <2>1
<1>8. CASE LastReply(resp, next)
  <2>1. Ended(resp.accounts, next') BY <1>4, <1>8 DEF LastReply, Ended
  <2> QED BY <1>2, <1>3, <1>4, <1>5, <1>6, <2>1
<1> QED BY <1>3, <1>7, <1>8

(* Sent grows by what was appended. *)
LEMMA SentGrows ==
  ASSUME IInv, GetWallets
  PROVE /\ Sent = Before(Rest(from), next)
        /\ \A x \in Sent, y \in Rest(next) : Precedes(Key(x), Key(y))
        /\ next' \in Rest(next) =>
             /\ next' # NoNext /\ next' \in Rest(from)'
             /\ Sent' = Sent \cup Before(Rest(next), next')
        /\ next' = NoNext => Sent' = Sent \cup Rest(next)
<1>1. /\ next \in Accounts /\ next # NoNext /\ from \in Accounts /\ airdrop \in SUBSET Accounts
      /\ next = from \/ next \in Rest(from)
      /\ UNCHANGED <<airdrop, from>>
  BY GetWalletsStep
<1>2. Sent = Before(Rest(from), next) BY <1>1 DEF Sent
<1>3. Rest(from)' = Rest(from) BY <1>1 DEF Rest
<1>4. /\ Rest(from) = Sent \cup Rest(next)
      /\ \A x \in Sent, y \in Rest(next) : Precedes(Key(x), Key(y))
      /\ \A n \in Rest(next) : /\ n \in Rest(from)
                               /\ Before(Rest(from), n) = Sent \cup Before(Rest(next), n)
  BY <1>1, <1>2, RestParts
<1>5. ASSUME next' \in Rest(next)
      PROVE /\ next' # NoNext /\ next' \in Rest(from)'
            /\ Sent' = Sent \cup Before(Rest(next), next')
  <2>1. next' # NoNext BY <1>1, <1>5, NoNextIsNoAccount DEF Rest, NotBefore
  <2>2. Sent' = Before(Rest(from), next') BY <1>3, <2>1 DEF Sent
  <2> QED BY <1>3, <1>4, <1>5, <2>1, <2>2
<1>6. ASSUME next' = NoNext PROVE Sent' = Sent \cup Rest(next)
  <2>1. Sent' = Rest(from) BY <1>3, <1>6 DEF Sent
  <2> QED BY <1>4, <2>1
<1> QED BY <1>2, <1>4, <1>5, <1>6

(* A page that is received. *)
LEMMA GetWalletsInvariant ==
  ASSUME IInv, GetWallets
  PROVE IInv'
<1>1. FileOK /\ ClientOK /\ ListedOK BY DEF IInv
<1>2. /\ next \in Accounts /\ next # NoNext /\ airdrop \in SUBSET Accounts
      /\ UNCHANGED <<airdrop, tree, from, count, failed>>
      /\ CursorsOK(cursors')
  BY GetWalletsStep
<1>3. PICK page : listed' = listed \o page /\ (Paged(page, next') \/ Ended(page, next'))
  BY GetWalletsStep
<1>4. FileOK' BY <1>1, <1>2 DEF FileOK
<1>5. CursorsOK(cursors)' BY <1>2 DEF CursorsOK
<1>6. Lists(listed, Sent) /\ \A x \in Sent, y \in Rest(next) : Precedes(Key(x), Key(y))
  BY <1>1, SentGrows DEF ListedOK
<1>7. CASE Paged(page, next')
  <2>1. next' \in Rest(next) /\ Lists(page, Before(Rest(next), next')) BY <1>7 DEF Paged
  <2>2. next' # NoNext /\ next' \in Rest(from)' /\ Sent' = Sent \cup Before(Rest(next), next')
    BY <2>1, SentGrows
  <2>3. \A x \in Sent, y \in Before(Rest(next), next') : Precedes(Key(x), Key(y))
    BY <1>6 DEF Before
  <2>4. Lists(listed', Sent') BY <1>3, <1>6, <2>1, <2>2, <2>3, ListsConcat
  <2>5. ListedOK' BY <2>2, <2>4 DEF ListedOK
  <2>6. next' \in Accounts BY <1>2, <2>1 DEF Rest, NotBefore
  <2>7. ClientOK' BY <1>1, <1>2, <2>6 DEF ClientOK
  <2> QED BY <1>4, <1>5, <2>5, <2>7 DEF IInv
<1>8. CASE Ended(page, next')
  <2>1. next' = NoNext /\ Lists(page, Rest(next)) BY <1>8 DEF Ended
  <2>2. Sent' = Sent \cup Rest(next) BY <2>1, SentGrows
  <2>3. Lists(listed', Sent') BY <1>3, <1>6, <2>1, <2>2, ListsConcat
  <2>4. ListedOK' BY <2>1, <2>3 DEF ListedOK
  <2>5. ClientOK' BY <1>1, <1>2, <2>1 DEF ClientOK
  <2> QED BY <1>4, <1>5, <2>4, <2>5 DEF IInv
<1> QED BY <1>3, <1>7, <1>8

(* Requests that only move cursors: those of other clients, and one whose  *)
(* answer is too late.                                                     *)
LEMMA CursorsInvariant ==
  ASSUME IInv, CursorsOK(cursors'), UNCHANGED <<fileVars, clientVars>>
  PROVE IInv'
<1>1. FileOK /\ ClientOK /\ ListedOK BY DEF IInv
<1>2. UNCHANGED <<airdrop, tree, from, count, next, listed, failed>> BY DEF fileVars, clientVars
<1>3. FileOK' BY <1>1, <1>2 DEF FileOK
<1>4. ClientOK' BY <1>1, <1>2 DEF ClientOK
<1>5. ListedOK'
  <2>1. Rest(from)' = Rest(from) BY <1>2 DEF Rest
  <2>2. Sent' = Sent BY <1>2, <2>1 DEF Sent
  <2> QED BY <1>1, <1>2, <2>1, <2>2 DEF ListedOK
<1>6. CursorsOK(cursors)' BY <1>2 DEF CursorsOK
<1> QED BY <1>3, <1>4, <1>5, <1>6 DEF IInv

(* Every step. *)
LEMMA StepInvariant == IInv /\ [Next]_vars => IInv'
<1> SUFFICES ASSUME IInv, [Next]_vars PROVE IInv' OBVIOUS
<1>0. FileOK /\ CursorsOK(cursors) /\ ClientOK /\ TypedTree(tree) BY FileType DEF IInv
<1>1. CASE GetWallets BY <1>1, GetWalletsInvariant
<1>2. CASE GetWalletsTimeout
  <2> DEFINE resp == processEnumerateAccountsRequest(next, count)
  <2>1. next \in Accounts /\ count \in Nat \ {0}
    BY <1>0, <1>2, EnumerateAssumption DEF GetWalletsTimeout, ClientOK
  <2>2. CursorsOK(resp.cursors) BY <1>0, <2>1, RequestAnswered
  <2>3. cursors' = resp.cursors /\ UNCHANGED <<fileVars, clientVars>>
    BY <1>2 DEF GetWalletsTimeout
  <2> HIDE DEF resp
  <2> QED BY <2>2, <2>3, CursorsInvariant
<1>3. ASSUME NEW a \in Others, Prove(a) PROVE IInv'
  <2> DEFINE whole(p) == [bit |-> Len(tree[p].bits), ref |-> Len(tree[p].refs)]
             c == [p \in DOMAIN tree |->
                     IF IsPrefix(p, Key(a)) THEN whole(p) ELSE ResetCounters(cursors)[p]]
  <2>1. cursors' = c /\ UNCHANGED <<fileVars, clientVars>> BY <1>3 DEF Prove
  <2>2. \A p \in DOMAIN tree : c[p] = whole(p) \/ c[p] = AtStart
    <3>1. DOMAIN cursors = DOMAIN tree BY <1>0 DEF CursorsOK, Cursors
    <3> QED BY <3>1 DEF ResetCounters
  <2>3. \A p \in DOMAIN tree :
          /\ Len(tree[p].bits) \in Nat /\ Len(tree[p].refs) \in Nat
          /\ whole(p).bit = Len(tree[p].bits) /\ whole(p).ref = Len(tree[p].refs)
    BY <1>0 DEF TypedTree
  <2>4. \A p \in DOMAIN tree : c[p] \in [bit : Nat, ref : Nat]
    <3>1. \A p \in DOMAIN tree : whole(p) \in [bit : Nat, ref : Nat] BY <2>3
    <3>2. AtStart \in [bit : Nat, ref : Nat] BY DEF AtStart
    <3> HIDE DEF c, whole
    <3> QED BY <2>2, <3>1, <3>2
  <2>5. CursorsOK(c)
    <3>1. c \in Cursors(tree)
      <4>1. c = [p \in DOMAIN tree |-> c[p]] OBVIOUS
      <4> HIDE DEF c
      <4> QED BY <2>4, <4>1 DEF Cursors
    <3>2. ASSUME NEW p \in DOMAIN tree PROVE InCell(tree, c, p)
      <4> HIDE DEF c, whole
      <4>1. CASE c[p] = whole(p) BY <2>3, <4>1 DEF InCell
      <4>2. CASE c[p] = AtStart BY <1>0, <4>2, UnreadInCell
      <4> QED BY <2>2, <4>1, <4>2
    <3> HIDE DEF c
    <3> QED BY <3>1, <3>2 DEF CursorsOK
  <2> HIDE DEF c
  <2> QED BY <2>1, <2>5, CursorsInvariant
<1>4. CASE UNCHANGED vars
  <2>1. cursors' = cursors /\ UNCHANGED <<fileVars, clientVars>> BY <1>4 DEF vars, fileVars, clientVars
  <2> QED BY <1>0, <2>1, CursorsInvariant
<1> QED BY <1>1, <1>2, <1>3, <1>4 DEF Next

(* What the three invariants of the listing rest on. *)
THEOREM Invariant == Spec => []IInv
<1> QED BY InitInvariant, StepInvariant, PTL DEF Spec

(* enumerate.go: every state is typed; no request moves a read cursor      *)
(* beyond the end of its cell.                                             *)
THEOREM Typed == Spec => []TypeOK
<1>1. IInv => TypeOK
  <2> SUFFICES ASSUME IInv PROVE TypeOK OBVIOUS
  <2>1. FileOK /\ CursorsOK(cursors) /\ ClientOK /\ ListedOK BY DEF IInv
  <2>2. airdrop \in SUBSET Accounts BY <2>1 DEF FileOK
  <2>3. DOMAIN cursors = DOMAIN tree BY <2>1 DEF CursorsOK, Cursors
  <2>4. ASSUME NEW p \in DOMAIN tree
        PROVE /\ cursors[p].bit \in 0..Len(tree[p].bits)
              /\ cursors[p].ref \in 0..Len(tree[p].refs)
    <3>1. Len(tree[p].bits) \in Nat /\ Len(tree[p].refs) \in Nat BY <2>1, FileType DEF TypedTree
    <3>2. cursors[p].bit \in Nat /\ cursors[p].ref \in Nat BY <2>1 DEF CursorsOK, Cursors
    <3>3. InCell(tree, cursors, p) BY <2>1 DEF CursorsOK
    <3> QED BY <3>1, <3>2, <3>3 DEF InCell
  <2>5. listed \in Seq(Accounts)
    <3>1. Sent \subseteq Accounts BY <2>2 DEF Sent, Before, Rest, NotBefore
    <3>2. listed \in Seq(Sent) BY <2>1 DEF ListedOK, Lists
    <3> QED BY <3>1, <3>2, SeqMonotonic
  <2> QED BY <2>1, <2>2, <2>3, <2>4, <2>5 DEF ClientOK, TypeOK
<1> QED BY <1>1, Invariant, PTL

(* enumerate.go, handler.go: over a well-formed file no request of the     *)
(* listing is answered with an error, wherever the requests before it left *)
(* the cursors of the cells, for every airdrop, page size, encoding of the *)
(* labels and length of ids.                                               *)
THEOREM NeverFailing == Spec => []NeverFails
<1>1. IInv => NeverFails BY DEF IInv, ClientOK, NeverFails
<1> QED BY <1>1, Invariant, PTL

(* handler.go GetWallets: following next_from to the end lists every wallet*)
(* from the start on exactly once and in the order of the keys, and until  *)
(* then the first of them, for every airdrop, page size and length of      *)
(* account ids.                                                            *)
THEOREM InOrder == Spec => []ListedInOrder
<1>1. IInv => ListedInOrder
  <2> SUFFICES ASSUME IInv PROVE ListedInOrder OBVIOUS
  <2> DEFINE S == Rest(from)
  <2>1. airdrop \in SUBSET Accounts /\ S \in SUBSET Accounts /\ from \in Accounts
    BY DEF IInv, FileOK, ClientOK, Rest, NotBefore
  <2>2. Lists(listed, Sent) /\ (next # NoNext => next = from \/ next \in S)
    BY DEF IInv, ListedOK
  <2>3. S = NotBefore(airdrop, from) BY DEF Rest
  <2> HIDE DEF S
  <2>4. CASE next = NoNext
    <3>1. Lists(listed, S) BY <2>2, <2>4 DEF Sent, S
    <3>2. Starts(listed, S) BY <3>1 DEF Lists, Starts
    <3>3. listed = Ordered(S) BY <2>1, <3>1, <3>2, StartsOrdered DEF Lists
    <3> QED BY <2>3, <2>4, <3>3 DEF ListedInOrder
  <2>5. CASE next # NoNext /\ next = from
    <3>1. Sent = {} BY <2>5 DEF Sent, Before, Rest, NotBefore
    <3>2. listed = <<>> BY <2>2, <3>1, EmptySeq DEF Lists
    <3> QED BY <2>5, <3>2 DEF ListedInOrder
  <2>6. CASE next # NoNext /\ next \in S
    <3>1. Lists(listed, Before(S, next)) BY <2>2, <2>6 DEF Sent, S
    <3>2. listed \in Seq(Before(S, next)) /\ listed \in Seq(S)
      <4>1. Before(S, next) \subseteq S BY DEF Before
      <4> QED BY <3>1, <4>1, SeqMonotonic DEF Lists
    <3>3. \A i \in 1..Len(listed) : listed[i] \in Before(S, next) BY <3>2, ElementOfSeq
    <3>4. ASSUME NEW i \in 1..Len(listed), NEW a \in S, Precedes(Key(a), Key(listed[i]))
          PROVE \E j \in 1..Len(listed) : listed[j] = a
      <4>1. listed[i] \in S /\ Precedes(Key(listed[i]), Key(next)) BY <3>3 DEF Before
      <4>2. Precedes(Key(a), Key(next)) BY <2>1, <2>6, <3>4, <4>1, AccountOrder
      <4>3. a \in Before(S, next) BY <4>2 DEF Before
      <4> QED BY <3>1, <4>3 DEF Lists
    <3>5. Starts(listed, S) BY <3>1, <3>2, <3>4 DEF Lists, Starts
    <3>6. \A i \in 1..Len(listed) : listed[i] # next
      <4>1. next \notin Before(S, next) BY <2>1, <2>6, AccountOrder DEF Before
      <4> QED BY <3>3, <4>1
    <3>7. IsPrefix(listed, Ordered(S)) /\ listed # Ordered(S)
      BY <2>1, <2>6, <3>5, <3>6, StartsOrdered
    <3> QED BY <2>3, <2>6, <3>7 DEF ListedInOrder, IsStrictPrefix
  <2> QED BY <2>2, <2>4, <2>5, <2>6
<1> QED BY <1>1, Invariant, PTL
-----------------------------------------------------------------------------
(***************************************************************************)
(* Accounts as numbers are in the order of their keys.                     *)
(***************************************************************************)
(* i is the first bit in which u is less than v. *)
LessAt(u, v, w, i) ==
  /\ \A m \in 1..i - 1 : UintBits(u, w)[m] = UintBits(v, w)[m]
  /\ UintBits(u, w)[i] = 0 /\ UintBits(v, w)[i] = 1

(* The number with the first greater bit is greater. *)
LEMMA UintBitsOrder ==
  ASSUME NEW w \in Nat, NEW u \in 0..2^w - 1, NEW v \in 0..2^w - 1, NEW i \in 1..w,
         LessAt(u, v, w, i)
  PROVE u < v
<1> DEFINE Ord(n) == \A x, y \in 0..2^n - 1, k \in 1..n : LessAt(x, y, n, k) => x < y
           S == { n \in Nat : Ord(n) }
<1>1. 0 \in S OBVIOUS
<1>2. ASSUME NEW n \in S PROVE n + 1 \in S
  <2>0. n \in Nat /\ Ord(n) OBVIOUS
  <2>1. ASSUME NEW x \in 0..2^(n+1) - 1, NEW y \in 0..2^(n+1) - 1, NEW k \in 1..n+1,
               LessAt(x, y, n + 1, k)
        PROVE x < y
    <3>1. 2^n \in Nat /\ 2^(n+1) = 2 * 2^n BY <2>0, PowerType, PowerOfSuccessor
    <3>2. x \in Nat /\ y \in Nat BY <3>1
    <3>3. x \div 2 \in 0..2^n - 1 /\ y \div 2 \in 0..2^n - 1 BY <3>1
    <3>4. \A m \in 1..n : /\ UintBits(x, n + 1)[m] = UintBits(x \div 2, n)[m]
                          /\ UintBits(y, n + 1)[m] = UintBits(y \div 2, n)[m]
      BY <2>0, <3>2, UintBitsStep
    <3>5. UintBits(x, n + 1)[n + 1] = x % 2 /\ UintBits(y, n + 1)[n + 1] = y % 2
      BY <2>0, <3>2, UintBitsStep
    <3>6. CASE k = n + 1
      <4>1. \A m \in 1..n : UintBits(x \div 2, n)[m] = UintBits(y \div 2, n)[m]
        <5>1. \A m \in 1..n : m \in 1..k - 1 BY <2>0, <3>6
        <5> QED BY <2>1, <3>4, <5>1 DEF LessAt
      <4>2. x \div 2 = y \div 2 BY <2>0, <3>3, <4>1, UintBitsInjective
      <4>3. x % 2 = 0 /\ y % 2 = 1 BY <2>1, <3>5, <3>6 DEF LessAt
      <4> QED BY <3>2, <4>2, <4>3
    <3>7. CASE k # n + 1
      <4>1. k \in 1..n /\ \A m \in 1..k - 1 : m \in 1..n BY <2>0, <3>7
      <4>2. LessAt(x \div 2, y \div 2, n, k) BY <2>1, <3>4, <4>1 DEF LessAt
      <4>3. x \div 2 < y \div 2 BY <2>0, <3>3, <4>1, <4>2
      <4> QED BY <3>2, <4>3
    <3> QED BY <3>6, <3>7
  <2>2. Ord(n + 1) BY <2>1
  <2> QED BY <2>0, <2>2
<1>3. S = Nat
  <2> HIDE DEF S
  <2>1. S \in SUBSET Nat BY DEF S
  <2> QED BY <1>1, <1>2, <2>1, Induct
<1>4. Ord(w)
  <2> HIDE DEF Ord
  <2> QED BY <1>3
<1> QED BY <1>4

(* The number of an account is that of its bits. *)
LEMMA NumberBits ==
  ASSUME NEW a \in Accounts
  PROVE /\ Number(a) \in 0..2^AccountBits - 1
        /\ Number(a) \in Nat
        /\ \A i \in 1..AccountBits : UintBits(Number(a), AccountBits)[i] = a[i]
<1>1. AccountBits \in Nat /\ 0 \in Nat BY WalkAssumption
<1>2. \A i \in 0 + 1..0 + AccountBits : a[i] \in Bit BY <1>1 DEF Accounts
<1>3. /\ Value(a, 0, AccountBits) \in 0..2^AccountBits - 1
      /\ Value(a, 0, AccountBits) \in Nat
      /\ \A i \in 1..AccountBits :
           UintBits(Value(a, 0, AccountBits), AccountBits)[i] = a[0 + i]
  BY <1>1, <1>2, ValueType, Zenon
<1>4. \A i \in 1..AccountBits : 0 + i = i BY <1>1
<1> QED BY <1>3, <1>4 DEF Number

(* The order of the numbers is that of the keys. *)
LEMMA NumberOrder ==
  ASSUME NEW a \in Accounts, NEW b \in Accounts
  PROVE Precedes(Key(a), Key(b)) <=> Number(a) < Number(b)
<1>0. AccountBits \in Nat BY WalkAssumption
<1>1. ASSUME NEW x \in Accounts, NEW y \in Accounts, Precedes(Key(x), Key(y))
      PROVE Number(x) < Number(y)
  <2>1. Key(x) \in KeyBits /\ Key(y) \in KeyBits BY KeyType
  <2>2. PICK i \in 1..KeyLength : /\ \A m \in 1..i - 1 : Key(x)[m] = Key(y)[m]
                                  /\ Key(x)[i] = 0 /\ Key(y)[i] = 1
    BY <1>1, <2>1, PrecedesPointwise
  <2>3. i # 1 /\ i # 2 BY <2>2, KeyType
  <2>4. i - 2 \in 1..AccountBits /\ (i - 2) + 2 = i BY <2>3, KeyLengthType
  <2>5. x[i - 2] = 0 /\ y[i - 2] = 1 BY <2>2, <2>4, KeyType
  <2>6. \A m \in 1..(i - 2) - 1 : m \in 1..AccountBits /\ m + 2 \in 1..i - 1 BY <2>4, <1>0
  <2>7. \A m \in 1..(i - 2) - 1 : x[m] = y[m] BY <2>2, <2>6, KeyType
  <2>8. LessAt(Number(x), Number(y), AccountBits, i - 2)
    BY <2>4, <2>5, <2>6, <2>7, NumberBits DEF LessAt
  <2>9. Number(x) \in 0..2^AccountBits - 1 /\ Number(y) \in 0..2^AccountBits - 1 BY NumberBits
  <2> QED BY <1>0, <2>4, <2>8, <2>9, UintBitsOrder
<1>2. Number(a) \in Nat /\ Number(b) \in Nat BY NumberBits
<1>3. a = b \/ Precedes(Key(a), Key(b)) \/ Precedes(Key(b), Key(a)) BY AccountOrder
<1> QED BY <1>1, <1>2, <1>3

(* Different accounts are different numbers. *)
LEMMA NumberInjective ==
  ASSUME NEW a \in Accounts, NEW b \in Accounts, Number(a) = Number(b)
  PROVE a = b
<1>1. Number(a) \in Nat /\ Number(b) \in Nat BY NumberBits
<1>2. ~Precedes(Key(a), Key(b)) /\ ~Precedes(Key(b), Key(a)) BY <1>1, NumberOrder
<1> QED BY <1>2, AccountOrder
-----------------------------------------------------------------------------
(***************************************************************************)
(* The refinement.                                                         *)
(***************************************************************************)
(* What is left to be listed, and what is before the next page, in numbers. *)
LEMMA NumbersPointwise ==
  ASSUME airdrop \in SUBSET Accounts, NEW a \in Accounts
  PROVE /\ { x \in Numbers(airdrop) : x >= Number(a) } = Numbers(Rest(a))
        /\ \A n \in Accounts :
             { x \in Numbers(Rest(a)) : x < Number(n) } = Numbers(Before(Rest(a), n))
<1>1. \A b \in airdrop : /\ Number(b) \in Nat /\ Number(a) \in Nat
                         /\ ~Precedes(Key(b), Key(a)) <=> Number(b) >= Number(a)
  BY NumberBits, NumberOrder
<1>2. { x \in Numbers(airdrop) : x >= Number(a) } = Numbers(Rest(a))
  BY <1>1 DEF Numbers, Rest, NotBefore
<1>3. ASSUME NEW n \in Accounts
      PROVE { x \in Numbers(Rest(a)) : x < Number(n) } = Numbers(Before(Rest(a), n))
  <2>1. \A b \in Rest(a) : Precedes(Key(b), Key(n)) <=> Number(b) < Number(n)
    BY NumberOrder DEF Rest, NotBefore
  <2> QED BY <2>1 DEF Numbers, Before
<1> QED BY <1>2, <1>3

(* As many numbers as accounts have been listed. *)
LEMMA NumbersListed ==
  ASSUME NEW S \in SUBSET Accounts, NEW s, Lists(s, S)
  PROVE /\ ToSet(s) = S
        /\ IsFiniteSet(Numbers(S))
        /\ Cardinality(Numbers(S)) = Len(s)
<1> DEFINE R == FirstMembersOf(s, Len(s))
           f == [a \in S |-> Number(a)]
           N == Numbers(S)
<1>1. s \in Seq(S) /\ s \in Seq(Accounts) /\ Len(s) \in Nat /\ DOMAIN s = 1..Len(s)
  BY SeqMonotonic, LenProperties DEF Lists
<1>2. \A i \in 1..Len(s) : s[i] \in S BY <1>1, ElementOfSeq
<1>3. ToSet(s) = S BY <1>1, <1>2 DEF ToSet, Lists
<1>4. R = S BY <1>2 DEF Lists, FirstMembersOf
<1>5. Once(s) BY <1>1, IncreasingOnce DEF Lists
<1>6. IsFiniteSet(R) /\ Cardinality(R) = Len(s)
  <2>1. Len(s) <= Len(s) BY <1>1
  <2> QED BY <1>1, <1>5, <2>1, FirstMembers
<1>7. f \in [S -> N] BY DEF Numbers
<1>8. \A a, b \in S : f[a] = f[b] => a = b BY NumberInjective
<1>9. \A x \in N : \E a \in S : f[a] = x BY DEF Numbers
<1>10. f \in Bijection(S, N)
  <2> HIDE DEF f, N
  <2> QED BY <1>7, <1>8, <1>9 DEF Bijection, Injection, Surjection, IsInjective
<1> HIDE DEF f, N, R
<1>11. ExistsBijection(S, N) BY <1>10 DEF ExistsBijection
<1>12. IsFiniteSet(N) /\ Cardinality(N) = Cardinality(S) BY <1>4, <1>6, <1>11, FS_Bijection
<1> QED BY <1>3, <1>4, <1>6, <1>12 DEF N

(* The instance counts as its own module does. *)
LEMMA ListingCounts ==
  \A S : /\ Listing!IsFiniteSet(S) <=> IsFiniteSet(S)
         /\ Listing!Cardinality(S) = Cardinality(S)
BY DEF Listing!IsFiniteSet, IsFiniteSet, Listing!Cardinality, Cardinality

(* The listing begins as the abstract one. *)
LEMMA ListingInit == Init => Listing!Init
<1> SUFFICES ASSUME Init PROVE Listing!Init OBVIOUS
<1>1. IInv BY InitInvariant
<1>2. airdrop \in SUBSET Accounts BY <1>1 DEF IInv, FileOK
<1>3. next = from /\ from \in Accounts /\ count \in Counts /\ listed = <<>> BY DEF Init
<1>4. next # NoNext BY <1>3, NoNextIsNoAccount
<1>5. Numbers(airdrop) \in SUBSET Numbers(Accounts) BY <1>2 DEF Numbers
<1>6. Number(from) \in Numbers(Accounts) BY <1>3 DEF Numbers
<1>7. Numbers(ToSet(listed)) = {}
  <2>1. ToSet(<<>>) = {} BY DEF ToSet
  <2> QED BY <1>3, <2>1 DEF Numbers
<1> QED BY <1>3, <1>4, <1>5, <1>6, <1>7 DEF Listing!Init

(* A page that is received is a page of the abstract listing. *)
LEMMA ListingStep ==
  ASSUME IInv, GetWallets
  PROVE Listing!Next
<1>1. /\ next \in Accounts /\ next # NoNext /\ airdrop \in SUBSET Accounts
      /\ count \in Nat \ {0}
      /\ UNCHANGED <<airdrop, from, count>>
  BY GetWalletsStep
<1>2. PICK page : listed' = listed \o page /\ (Paged(page, next') \/ Ended(page, next'))
  BY GetWalletsStep
<1>3. IInv' BY GetWalletsInvariant
<1>4. \A S \in SUBSET Accounts : S \subseteq airdrop => S \subseteq Accounts OBVIOUS
<1>5. ToSet(listed) = Sent /\ ToSet(listed') = Sent'
  <2>1. Lists(listed, Sent) /\ Lists(listed', Sent') BY <1>3 DEF IInv, ListedOK
  <2>2. Sent \in SUBSET Accounts /\ Sent' \in SUBSET Accounts
    BY <1>1 DEF Sent, Before, Rest, NotBefore
  <2> QED BY <2>1, <2>2, NumbersListed
<1>6. Rest(next) \in SUBSET Accounts BY <1>1 DEF Rest, NotBefore
<1>7. Listing!Remaining = Numbers(Rest(next))
  BY <1>1, NumbersPointwise DEF Listing!Remaining
<1>8. \A S, T : Numbers(S \cup T) = Numbers(S) \cup Numbers(T) BY DEF Numbers
<1>9. Numbers(airdrop)' = Numbers(airdrop) /\ Number(from)' = Number(from) BY <1>1
<1>10. CASE Paged(page, next')
  <2> DEFINE n == Number(next')
             S == Before(Rest(next), next')
  <2>1. next' \in Rest(next) /\ Lists(page, S) /\ Len(page) = count BY <1>10 DEF Paged
  <2>2. next' # NoNext /\ Sent' = Sent \cup S BY <2>1, SentGrows
  <2>3. S \in SUBSET Accounts BY <1>6 DEF Before
  <2>4. Listing!IsFiniteSet(Numbers(S)) /\ Listing!Cardinality(Numbers(S)) = count
    <3> HIDE DEF S
    <3> QED BY <2>1, <2>3, NumbersListed, ListingCounts
  <2>5. next' \in Accounts BY <1>6, <2>1
  <2>6. { x \in Listing!Remaining : x < n } = Numbers(S)
    BY <1>1, <1>7, <2>5, NumbersPointwise
  <2>7. n \in Listing!Remaining BY <1>7, <2>1 DEF Numbers
  <2>8. Numbers(ToSet(listed)') = Numbers(ToSet(listed)) \cup Numbers(S)
    BY <1>5, <1>8, <2>2
  <2>9. (IF next = NoNext THEN 0 ELSE Number(next))' = n BY <2>2
  <2>10. Listing!Page(n)
    <3> HIDE DEF S, n
    <3> QED BY <1>1, <1>9, <2>2, <2>4, <2>6, <2>7, <2>8, <2>9 DEF Listing!Page
  <2> QED BY <2>7, <2>10 DEF Listing!Next
<1>11. CASE Ended(page, next')
  <2>1. next' = NoNext /\ Lists(page, Rest(next)) /\ Len(page) <= count BY <1>11 DEF Ended
  <2>2. Sent' = Sent \cup Rest(next) BY <2>1, SentGrows
  <2>3. /\ Listing!IsFiniteSet(Numbers(Rest(next)))
        /\ Listing!Cardinality(Numbers(Rest(next))) <= count
    BY <1>6, <2>1, NumbersListed, ListingCounts
  <2>4. Numbers(ToSet(listed)') = Numbers(ToSet(listed)) \cup Numbers(Rest(next))
    BY <1>5, <1>8, <2>2
  <2>5. Listing!LastPage
    BY <1>1, <1>7, <1>9, <2>1, <2>3, <2>4 DEF Listing!LastPage
  <2> QED BY <2>5 DEF Listing!Next
<1> QED BY <1>2, <1>10, <1>11

(* The listing over the tree of cells implements WalletListing with        *)
(* accounts as numbers: page after page of "count" wallets, each the next  *)
(* ones in order, and a last page with at most as many; requests that are  *)
(* late or somebody else's are stutters.                                   *)
THEOREM Implements == Spec => ImplementsListing
<1>1. Init => Listing!Init BY ListingInit
<1>2. IInv /\ [Next]_vars => [Listing!Next]_(Listing!vars)
  <2> SUFFICES ASSUME IInv, [Next]_vars PROVE [Listing!Next]_(Listing!vars) OBVIOUS
  <2>1. CASE GetWallets BY <2>1, ListingStep
  <2>2. CASE UNCHANGED <<fileVars, clientVars>>
    BY <2>2 DEF fileVars, clientVars, Listing!vars
  <2>3. GetWalletsTimeout => UNCHANGED <<fileVars, clientVars>> BY DEF GetWalletsTimeout
  <2>4. ASSUME NEW a \in Others, Prove(a) PROVE UNCHANGED <<fileVars, clientVars>>
    BY <2>4 DEF Prove
  <2>5. UNCHANGED vars => UNCHANGED <<fileVars, clientVars>> BY DEF vars, fileVars, clientVars
  <2> QED BY <2>1, <2>2, <2>3, <2>4, <2>5 DEF Next
<1> QED BY <1>1, <1>2, Invariant, PTL DEF Spec, ImplementsListing, Listing!Spec
=============================================================================

------------------------ MODULE WalletResolverProofs ------------------------
(***************************************************************************)
(* Proofs about WalletResolver, for every number of requests, of states    *)
(* the jetton master can be in, and of attempts.                           *)
(***************************************************************************)
EXTENDS WalletResolver, TLAPS

(* A request that began with a settled map sees only the entry of the map. *)
SeesEntry(r) ==
  began[r].settled =>
    /\ Settled
    /\ pc[r] = "emulate" => state[r] = cache
    /\ stage[r] = "jettonWallet" \/ pc[r] = "encode" =>
         used[r]["stateInit"] = cache
    /\ outcome[r] = "info" => used[r]["jettonWallet"] = cache

(* payload tells whether the window was open when the request began. *)
PayloadDecided(r) ==
  /\ began[r].clock = "open" => clock # "before"
  /\ pc[r] # "idle" /\ outcome[r] # "proof is broken" =>
       payload[r] = (began[r].clock = "open")

(* An outcome is final, and tells at which question the request ended. *)
OutcomeFinal(r) ==
  /\ outcome[r] # "none" => pc[r] = "done"
  /\ outcome[r] = "info" => stage[r] = "jettonWallet"

(* A request begins with the first question, and only waits for a retry    *)
(* while there is an attempt left.                                         *)
RetryLeft(r) ==
  /\ pc[r] = "pause" => stage[r] = "stateInit" /\ attempt[r] < Attempts
  /\ pc[r] = "idle" => stage[r] = "stateInit"

(* What is to be stored is a state; who has got past the map's entry has   *)
(* left one there, and asks the second question with its help.             *)
EntryFound(r) ==
  /\ pc[r] = "store" => state[r] # NoState
  /\ pc[r] \in {"emulate", "encode"} => cache # NoState
  /\ stage[r] = "jettonWallet" => cache # NoState /\ ~Fetching(r)

ResolverInv ==
  /\ TypeOK
  /\ \A r \in Requests :
       /\ SeesEntry(r) /\ PayloadDecided(r) /\ OutcomeFinal(r)
       /\ RetryLeft(r) /\ EntryFound(r)

(* The invariant holds at the start. *)
LEMMA ResolverInvInit == Init => ResolverInv
  BY ResolverAssumption
  DEF Init, ResolverInv, TypeOK, SeesEntry, PayloadDecided, OutcomeFinal,
      RetryLeft, EntryFound, Fetching, Places, Stages, Clock, Outcomes

(* There is a first attempt; counting one further, while there is an        *)
(* attempt left, stays in bounds.                                          *)
LEMMA AttemptLeft ==
  ASSUME attempt \in [Requests -> 1..Attempts],
         NEW r \in Requests, attempt[r] # Attempts
  PROVE  attempt[r] < Attempts
<1>1. Attempts \in Nat /\ attempt[r] \in 1..Attempts
  BY ResolverAssumption
<1> QED
  BY <1>1

(* getStateInit makes at least one attempt. *)
LEMMA FirstAttempt == 1 \in 1..Attempts
  BY ResolverAssumption

(* A retry is counted within the attempts. *)
LEMMA NextAttempt ==
  ASSUME attempt \in [Requests -> 1..Attempts],
         NEW r \in Requests, attempt[r] < Attempts
  PROVE  [attempt EXCEPT ![r] = @ + 1] \in [Requests -> 1..Attempts]
<1>1. Attempts \in Nat /\ attempt[r] \in 1..Attempts
  BY ResolverAssumption
<1>2. attempt[r] + 1 \in 1..Attempts
  BY <1>1
<1> QED
  BY <1>2

(* The type invariant is kept by every step. *)
LEMMA TypeStep ==
  TypeOK /\ (\A r \in Requests : RetryLeft(r)) /\ [Next]_vars => TypeOK'
<1> SUFFICES ASSUME TypeOK, \A r \in Requests : RetryLeft(r), [Next]_vars
             PROVE  TypeOK'
  OBVIOUS
<1> USE ResolverAssumption DEF TypeOK, requestVars, sharedVars, Goto, Finish,
      Places, Stages, Clock, Outcomes
<1>1. ASSUME NEW r \in Requests, Call(r) PROVE TypeOK'
  BY <1>1 DEF Call, InWindow, Settled
<1>2. ASSUME NEW r \in Requests, CallWithBrokenProof(r) PROVE TypeOK'
  BY <1>2 DEF CallWithBrokenProof, Settled
<1>3. ASSUME NEW r \in Requests, CacheHit(r) PROVE TypeOK'
  BY <1>3 DEF CacheHit
<1>4. ASSUME NEW r \in Requests, CacheMiss(r) PROVE TypeOK'
  BY <1>4 DEF CacheMiss
<1>5. ASSUME NEW r \in Requests, Fetch(r) PROVE TypeOK'
  BY <1>5 DEF Fetch
<1>6. ASSUME NEW r \in Requests, Store(r) PROVE TypeOK'
  BY <1>6 DEF Store
<1>7. ASSUME NEW r \in Requests, Emulate(r) PROVE TypeOK'
  BY <1>7 DEF Emulate
<1>7a. ASSUME NEW r \in Requests, Encode(r) PROVE TypeOK'
  BY <1>7a DEF Encode
<1>8. ASSUME NEW r \in Requests, Fail(r) PROVE TypeOK'
  BY <1>8 DEF Fail
<1>9. ASSUME NEW r \in Requests, Retry(r) PROVE TypeOK'
  <2>1. attempt' \in [Requests -> 1..Attempts]
    BY <1>9, NextAttempt DEF Retry, RetryLeft
  <2> QED
    BY <1>9, <2>1 DEF Retry
<1>10. ASSUME NEW r \in Requests, Release(r) PROVE TypeOK'
  <2>1. attempt' \in [Requests -> 1..Attempts]
    BY <1>10, FirstAttempt DEF Release
  <2>2. used' \in [Requests -> [Stages -> MasterStates \cup {NoState}]]
    <3>1. [s \in Stages |-> NoState] \in [Stages -> MasterStates \cup {NoState}]
      OBVIOUS
    <3> QED
      BY <1>10, <3>1 DEF Release
  <2> QED
    BY <1>10, <2>1, <2>2 DEF Release
<1>11. CASE MasterChanges
  BY <1>11 DEF MasterChanges
<1>12. CASE Tick
  BY <1>12 DEF Tick
<1>13. CASE UNCHANGED vars
  BY <1>13 DEF vars
<1> QED
  BY <1>1, <1>2, <1>3, <1>4, <1>5, <1>6, <1>7, <1>8, <1>9, <1>10, <1>11,
     <1>12, <1>13, <1>7a DEF Next, Handler

(* Once the map is settled, no step changes its entry or unsettles it. *)
LEMMA SettledStep ==
  TypeOK /\ Settled /\ [Next]_vars => Settled' /\ cache' = cache
<1> SUFFICES ASSUME TypeOK, Settled, [Next]_vars
             PROVE  Settled' /\ cache' = cache
  OBVIOUS
<1> USE DEF TypeOK, Settled, Fetching, Goto, sharedVars, requestVars
<1>1. ASSUME NEW r \in Requests, Call(r) PROVE Settled' /\ cache' = cache
  BY <1>1 DEF Call
<1>2. ASSUME NEW r \in Requests, CallWithBrokenProof(r)
      PROVE  Settled' /\ cache' = cache
  BY <1>2 DEF CallWithBrokenProof, Finish
<1>3. ASSUME NEW r \in Requests, CacheHit(r) PROVE Settled' /\ cache' = cache
  BY <1>3 DEF CacheHit
<1>4. ASSUME NEW r \in Requests, CacheMiss(r) \/ Fetch(r) \/ Store(r)
      PROVE  FALSE
  BY <1>4 DEF CacheMiss, Fetch, Store
<1>5. ASSUME NEW r \in Requests, Emulate(r) \/ Encode(r)
      PROVE  Settled' /\ cache' = cache
  BY <1>5 DEF Emulate, Encode, Finish
<1>6. ASSUME NEW r \in Requests, Fail(r) PROVE Settled' /\ cache' = cache
  BY <1>6 DEF Fail, Finish
<1>7. ASSUME NEW r \in Requests, Retry(r) PROVE Settled' /\ cache' = cache
  BY <1>7 DEF Retry
<1>8. ASSUME NEW r \in Requests, Release(r) PROVE Settled' /\ cache' = cache
  BY <1>8 DEF Release
<1>9. CASE MasterChanges \/ Tick \/ UNCHANGED vars
  BY <1>9 DEF MasterChanges, Tick, vars
<1> QED
  BY <1>1, <1>2, <1>3, <1>4, <1>5, <1>6, <1>7, <1>8, <1>9 DEF Next, Handler

(* Outcomes stay final. *)
LEMMA OutcomeStep ==
  ResolverInv /\ [Next]_vars => \A q \in Requests : OutcomeFinal(q)'
<1> SUFFICES ASSUME ResolverInv, [Next]_vars, NEW q \in Requests
             PROVE  OutcomeFinal(q)'
  OBVIOUS
<1> USE DEF ResolverInv, OutcomeFinal, RetryLeft, TypeOK, Goto, Finish,
      sharedVars, requestVars, Outcomes, Places, Stages
<1>1. ASSUME NEW r \in Requests, Call(r) PROVE OutcomeFinal(q)'
  BY <1>1 DEF Call
<1>2. ASSUME NEW r \in Requests, CallWithBrokenProof(r) PROVE OutcomeFinal(q)'
  BY <1>2 DEF CallWithBrokenProof
<1>3. ASSUME NEW r \in Requests, CacheHit(r) PROVE OutcomeFinal(q)'
  BY <1>3 DEF CacheHit
<1>4. ASSUME NEW r \in Requests, CacheMiss(r) PROVE OutcomeFinal(q)'
  BY <1>4 DEF CacheMiss
<1>5. ASSUME NEW r \in Requests, Fetch(r) PROVE OutcomeFinal(q)'
  BY <1>5 DEF Fetch
<1>6. ASSUME NEW r \in Requests, Store(r) PROVE OutcomeFinal(q)'
  BY <1>6 DEF Store
<1>7. ASSUME NEW r \in Requests, Emulate(r) PROVE OutcomeFinal(q)'
  BY <1>7 DEF Emulate
<1>7a. ASSUME NEW r \in Requests, Encode(r) PROVE OutcomeFinal(q)'
  BY <1>7a DEF Encode
<1>8. ASSUME NEW r \in Requests, Fail(r) PROVE OutcomeFinal(q)'
  BY <1>8 DEF Fail, LastAttempt
<1>9. ASSUME NEW r \in Requests, Retry(r) PROVE OutcomeFinal(q)'
  BY <1>9 DEF Retry
<1>10. ASSUME NEW r \in Requests, Release(r) PROVE OutcomeFinal(q)'
  BY <1>10 DEF Release
<1>11. CASE MasterChanges \/ Tick \/ UNCHANGED vars
  BY <1>11 DEF MasterChanges, Tick, vars
<1> QED
  BY <1>1, <1>2, <1>3, <1>4, <1>5, <1>6, <1>7, <1>8, <1>9, <1>10, <1>11, <1>7a
  DEF Next, Handler

(* A retry is only waited for while there is an attempt left. *)
LEMMA RetryStep ==
  ResolverInv /\ [Next]_vars => \A q \in Requests : RetryLeft(q)'
<1> SUFFICES ASSUME ResolverInv, [Next]_vars, NEW q \in Requests
             PROVE  RetryLeft(q)'
  OBVIOUS
<1> USE DEF ResolverInv, OutcomeFinal, RetryLeft, TypeOK, Goto, Finish,
      sharedVars, requestVars, Outcomes, Places, Stages
<1>1. ASSUME NEW r \in Requests, Call(r) PROVE RetryLeft(q)'
  BY <1>1 DEF Call
<1>2. ASSUME NEW r \in Requests, CallWithBrokenProof(r) PROVE RetryLeft(q)'
  BY <1>2 DEF CallWithBrokenProof
<1>3. ASSUME NEW r \in Requests, CacheHit(r) PROVE RetryLeft(q)'
  BY <1>3 DEF CacheHit
<1>4. ASSUME NEW r \in Requests, CacheMiss(r) PROVE RetryLeft(q)'
  BY <1>4 DEF CacheMiss
<1>5. ASSUME NEW r \in Requests, Fetch(r) PROVE RetryLeft(q)'
  BY <1>5 DEF Fetch
<1>6. ASSUME NEW r \in Requests, Store(r) PROVE RetryLeft(q)'
  BY <1>6 DEF Store
<1>7. ASSUME NEW r \in Requests, Emulate(r) PROVE RetryLeft(q)'
  BY <1>7 DEF Emulate
<1>7a. ASSUME NEW r \in Requests, Encode(r) PROVE RetryLeft(q)'
  BY <1>7a DEF Encode
<1>8. ASSUME NEW r \in Requests, Fail(r) PROVE RetryLeft(q)'
  <2>1. CASE LastAttempt(r)
    BY <1>8, <2>1 DEF Fail
  <2>2. CASE ~LastAttempt(r)
    <3>1. stage[r] = "stateInit" /\ attempt[r] < Attempts
      BY <2>2, AttemptLeft DEF LastAttempt
    <3>2. /\ pc' = [pc EXCEPT ![r] = "pause"]
          /\ stage' = stage /\ attempt' = attempt
      BY <1>8, <2>2 DEF Fail
    <3> QED
      BY <3>1, <3>2
  <2> QED
    BY <2>1, <2>2
<1>9. ASSUME NEW r \in Requests, Retry(r) PROVE RetryLeft(q)'
  BY <1>9 DEF Retry
<1>10. ASSUME NEW r \in Requests, Release(r) PROVE RetryLeft(q)'
  BY <1>10 DEF Release
<1>11. CASE MasterChanges \/ Tick \/ UNCHANGED vars
  BY <1>11 DEF MasterChanges, Tick, vars
<1> QED
  BY <1>1, <1>2, <1>3, <1>4, <1>5, <1>6, <1>7, <1>8, <1>9, <1>10, <1>11, <1>7a
  DEF Next, Handler

(* The decision about the payload stands. *)
LEMMA DecidedStep ==
  ResolverInv /\ [Next]_vars => \A q \in Requests : PayloadDecided(q)'
<1> SUFFICES ASSUME ResolverInv, [Next]_vars, NEW q \in Requests
             PROVE  PayloadDecided(q)'
  OBVIOUS
<1> USE DEF ResolverInv, OutcomeFinal, PayloadDecided, TypeOK, Goto, Finish,
      sharedVars, requestVars, Outcomes, Places, Stages, Clock
<1>1. ASSUME NEW r \in Requests, Call(r) PROVE PayloadDecided(q)'
  BY <1>1 DEF Call, InWindow
<1>2. ASSUME NEW r \in Requests, CallWithBrokenProof(r) PROVE PayloadDecided(q)'
  BY <1>2 DEF CallWithBrokenProof, InWindow
<1>3. ASSUME NEW r \in Requests, CacheHit(r) PROVE PayloadDecided(q)'
  BY <1>3 DEF CacheHit
<1>4. ASSUME NEW r \in Requests, CacheMiss(r) PROVE PayloadDecided(q)'
  BY <1>4 DEF CacheMiss
<1>5. ASSUME NEW r \in Requests, Fetch(r) PROVE PayloadDecided(q)'
  BY <1>5 DEF Fetch
<1>6. ASSUME NEW r \in Requests, Store(r) PROVE PayloadDecided(q)'
  BY <1>6 DEF Store
<1>7. ASSUME NEW r \in Requests, Emulate(r) PROVE PayloadDecided(q)'
  BY <1>7 DEF Emulate
<1>7a. ASSUME NEW r \in Requests, Encode(r) PROVE PayloadDecided(q)'
  BY <1>7a DEF Encode
<1>8. ASSUME NEW r \in Requests, Fail(r) PROVE PayloadDecided(q)'
  BY <1>8 DEF Fail
<1>9. ASSUME NEW r \in Requests, Retry(r) PROVE PayloadDecided(q)'
  BY <1>9 DEF Retry
<1>10. ASSUME NEW r \in Requests, Release(r) PROVE PayloadDecided(q)'
  BY <1>10 DEF Release
<1>11. CASE MasterChanges \/ Tick \/ UNCHANGED vars
  BY <1>11 DEF MasterChanges, Tick, vars
<1> QED
  BY <1>1, <1>2, <1>3, <1>4, <1>5, <1>6, <1>7, <1>8, <1>9, <1>10, <1>11, <1>7a
  DEF Next, Handler

(* What a request has seen stays the entry of the map, once it is settled. *)
LEMMA SeesStep ==
  ResolverInv /\ [Next]_vars => \A q \in Requests : SeesEntry(q)'
<1> SUFFICES ASSUME ResolverInv, [Next]_vars, NEW q \in Requests
             PROVE  SeesEntry(q)'
  OBVIOUS
<1>0. Settled => Settled' /\ cache' = cache
  BY SettledStep DEF ResolverInv
<1>  USE <1>0 DEF ResolverInv, SeesEntry, OutcomeFinal, RetryLeft, TypeOK, Goto,
       Finish, sharedVars, requestVars, Outcomes, Places, Stages
<1>1. ASSUME NEW r \in Requests, Call(r) PROVE SeesEntry(q)'
  BY <1>1 DEF Call
<1>2. ASSUME NEW r \in Requests, CallWithBrokenProof(r) PROVE SeesEntry(q)'
  BY <1>2 DEF CallWithBrokenProof
<1>3. ASSUME NEW r \in Requests, CacheHit(r) PROVE SeesEntry(q)'
  BY <1>3 DEF CacheHit
<1>4. ASSUME NEW r \in Requests, CacheMiss(r) PROVE SeesEntry(q)'
  BY <1>4 DEF CacheMiss
<1>5. ASSUME NEW r \in Requests, Fetch(r) PROVE SeesEntry(q)'
  BY <1>5 DEF Fetch
<1>6. ASSUME NEW r \in Requests, Store(r) PROVE SeesEntry(q)'
  BY <1>6 DEF Store
<1>7. ASSUME NEW r \in Requests, Emulate(r) PROVE SeesEntry(q)'
  <2>1. CASE q # r
    <3>1. UNCHANGED <<cache, stage, state, began>>
      BY <1>7 DEF Emulate
    <3>2. UNCHANGED <<pc[q], used[q], outcome[q]>>
      BY <1>7, <2>1 DEF Emulate
    <3> QED
      BY <3>1, <3>2
  <2>2. CASE q = r /\ stage[r] = "stateInit"
    <3>0. pc[r] = "emulate" /\ outcome[r] = "none"
      BY <1>7 DEF Emulate
    <3>1. /\ pc' = [pc EXCEPT ![r] = "encode"]
          /\ used' = [used EXCEPT ![r]["stateInit"] = state[r]]
          /\ UNCHANGED <<cache, stage, state, outcome, began>>
      BY <1>7, <2>2 DEF Emulate
    <3>2. pc'[r] = "encode" /\ used'[r]["stateInit"] = state[r]
      BY <3>1
    <3> QED
      BY <2>2, <3>0, <3>1, <3>2
  <2>3. CASE q = r /\ stage[r] = "jettonWallet"
    <3>1. pc'[r] = "done" /\ stage'[r] = "jettonWallet"
      BY <1>7, <2>3 DEF Emulate
    <3>2. /\ used' = [used EXCEPT ![r]["jettonWallet"] = state[r]]
          /\ cache' = cache /\ began' = began /\ pc[r] = "emulate"
      BY <1>7, <2>3 DEF Emulate
    <3>3. /\ used'[r]["jettonWallet"] = state[r]
          /\ used'[r]["stateInit"] = used[r]["stateInit"]
      BY <3>2
    <3>4. began[r].settled =>
            state[r] = cache /\ used[r]["stateInit"] = cache
      BY <2>3, <3>2
    <3> QED
      BY <2>3, <3>1, <3>2, <3>3, <3>4
  <2> QED
    BY <2>1, <2>2, <2>3
<1>7a. ASSUME NEW r \in Requests, Encode(r) PROVE SeesEntry(q)'
  <2>1. /\ pc[r] = "encode" /\ outcome[r] = "none"
        /\ UNCHANGED <<cache, state, used, began>>
    BY <1>7a DEF Encode
  <2>2. \/ /\ pc' = [pc EXCEPT ![r] = "lookup"] /\ outcome' = outcome
           /\ stage' = [stage EXCEPT ![r] = "jettonWallet"]
        \/ /\ pc' = [pc EXCEPT ![r] = "done"] /\ stage' = stage
           /\ outcome' = [outcome EXCEPT ![r] = "error"]
    BY <1>7a DEF Encode
  <2> QED
    BY <2>1, <2>2
<1>8. ASSUME NEW r \in Requests, Fail(r) PROVE SeesEntry(q)'
  <2>1. CASE LastAttempt(r)
    <3>1. /\ pc' = [pc EXCEPT ![r] = "done"]
          /\ outcome' = [outcome EXCEPT ![r] = "error"]
          /\ UNCHANGED <<cache, stage, state, used, began>>
      BY <1>8, <2>1 DEF Fail
    <3> QED
      BY <3>1
  <2>2. CASE ~LastAttempt(r)
    <3>1. /\ pc' = [pc EXCEPT ![r] = "pause"]
          /\ UNCHANGED <<cache, stage, state, used, outcome, began>>
      BY <1>8, <2>2 DEF Fail
    <3> QED
      BY <3>1
  <2> QED
    BY <2>1, <2>2
<1>9. ASSUME NEW r \in Requests, Retry(r) PROVE SeesEntry(q)'
  BY <1>9 DEF Retry
<1>10. ASSUME NEW r \in Requests, Release(r) PROVE SeesEntry(q)'
  BY <1>10 DEF Release
<1>11. CASE MasterChanges \/ Tick \/ UNCHANGED vars
  BY <1>11 DEF MasterChanges, Tick, vars
<1> QED
  BY <1>1, <1>2, <1>3, <1>4, <1>5, <1>6, <1>7, <1>8, <1>9, <1>10, <1>11, <1>7a
  DEF Next, Handler

(* The entry is never lost, and who depends on it finds it. *)
LEMMA FoundStep ==
  ResolverInv /\ [Next]_vars => \A q \in Requests : EntryFound(q)'
<1> SUFFICES ASSUME ResolverInv, [Next]_vars, NEW q \in Requests
             PROVE  EntryFound(q)'
  OBVIOUS
<1> USE ResolverAssumption DEF ResolverInv, EntryFound, Fetching, RetryLeft,
      TypeOK, Goto, Finish, sharedVars, requestVars, Outcomes, Places, Stages
<1>1. ASSUME NEW r \in Requests, Call(r) PROVE EntryFound(q)'
  BY <1>1 DEF Call
<1>2. ASSUME NEW r \in Requests, CallWithBrokenProof(r) PROVE EntryFound(q)'
  BY <1>2 DEF CallWithBrokenProof
<1>3. ASSUME NEW r \in Requests, CacheHit(r) PROVE EntryFound(q)'
  BY <1>3 DEF CacheHit
<1>4. ASSUME NEW r \in Requests, CacheMiss(r) PROVE EntryFound(q)'
  BY <1>4 DEF CacheMiss
<1>5. ASSUME NEW r \in Requests, Fetch(r) PROVE EntryFound(q)'
  BY <1>5 DEF Fetch
<1>6. ASSUME NEW r \in Requests, Store(r) PROVE EntryFound(q)'
  <2>1. state[r] # NoState /\ pc[r] = "store"
    BY <1>6 DEF Store
  <2>2. CASE MapMade
    BY <1>6, <2>1, <2>2 DEF Store
  <2>3. CASE ~MapMade
    BY <1>6, <2>1, <2>3 DEF Store
  <2> QED
    BY <2>2, <2>3
<1>7. ASSUME NEW r \in Requests, Emulate(r) PROVE EntryFound(q)'
  BY <1>7 DEF Emulate
<1>8. ASSUME NEW r \in Requests, Encode(r) PROVE EntryFound(q)'
  BY <1>8 DEF Encode
<1>9. ASSUME NEW r \in Requests, Fail(r) PROVE EntryFound(q)'
  BY <1>9 DEF Fail
<1>10. ASSUME NEW r \in Requests, Retry(r) PROVE EntryFound(q)'
  BY <1>10 DEF Retry
<1>11. ASSUME NEW r \in Requests, Release(r) PROVE EntryFound(q)'
  BY <1>11 DEF Release
<1>12. CASE MasterChanges \/ Tick \/ UNCHANGED vars
  BY <1>12 DEF MasterChanges, Tick, vars
<1> QED
  BY <1>1, <1>2, <1>3, <1>4, <1>5, <1>6, <1>7, <1>8, <1>9, <1>10, <1>11, <1>12
  DEF Next, Handler

(* The invariant is inductive. *)
LEMMA ResolverInvStep == ResolverInv /\ [Next]_vars => ResolverInv'
  BY TypeStep, OutcomeStep, RetryStep, DecidedStep, SeesStep, FoundStep
  DEF ResolverInv

(* What the conversions know of each other and of the cache is invariant. *)
LEMMA ResolverInvariant == Spec => []ResolverInv
  BY ResolverInvInit, ResolverInvStep, PTL DEF Spec

(***************************************************************************)
(* Type correctness of the conversions.                                    *)
(***************************************************************************)
THEOREM TypeCorrect == Spec => []TypeOK
  BY ResolverInvariant, PTL DEF ResolverInv

(***************************************************************************)
(* jettonMasterStateCache keeps its first settled entry for ever, however  *)
(* many requests race for it and whatever happens on the chain.            *)
(***************************************************************************)
THEOREM EntryNeverReplaced == Spec => EntrySettles
<1>1. ResolverInv /\ [Next]_vars => [Settled => Settled' /\ cache' = cache]_vars
  BY SettledStep DEF ResolverInv
<1> QED
  BY <1>1, ResolverInvariant, PTL DEF Spec, EntrySettles

(***************************************************************************)
(* convertToWalletInfo answers every request that begins with the settled  *)
(* entry from that entry alone.                                            *)
(***************************************************************************)
THEOREM SettledAgreement == Spec => []SettledRepliesAgree
<1>1. ResolverInv => SettledRepliesAgree
  BY DEF ResolverInv, SettledRepliesAgree, SeesEntry, OutcomeFinal, Stages
<1> QED
  BY <1>1, ResolverInvariant, PTL

(***************************************************************************)
(* The custom payload is in the reply when the airdrop was open at the     *)
(* beginning of the conversion, and never before the airdrop has opened.   *)
(***************************************************************************)
THEOREM PayloadWhenOpen == Spec => []PayloadInTime
<1>1. ResolverInv => PayloadInTime
  BY DEF ResolverInv, PayloadInTime, PayloadDecided, OutcomeFinal
<1> QED
  BY <1>1, ResolverInvariant, PTL

(***************************************************************************)
(* getJettonWallet, which has no retry, never calls GetAccountState: the   *)
(* entry that getStateInit has used is still in the map.                   *)
(***************************************************************************)
THEOREM SecondQuestionFromMap == Spec => []UnretriedNeverFetches
<1>1. ResolverInv => UnretriedNeverFetches
  BY DEF ResolverInv, UnretriedNeverFetches, EntryFound
<1> QED
  BY <1>1, ResolverInvariant, PTL
=============================================================================

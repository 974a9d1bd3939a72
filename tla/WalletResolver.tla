---------------------------- MODULE WalletResolver ----------------------------
(***************************************************************************)
(* Handler.convertToWalletInfo, run by the goroutines of many requests at  *)
(* once: it decides whether the reply carries a claim payload, then asks   *)
(* the jetton master for the state init (getStateInit, up to three times)  *)
(* and for the wallet's address (getJettonWallet, once).  Both go through  *)
(* Handler.executor, which keeps the code and data of the jetton master in *)
(* a map shared by all requests: looked up under the read lock, fetched    *)
(* from the lite server with no lock held, stored under the write lock.    *)
(***************************************************************************)
EXTENDS Naturals

CONSTANTS
  Requests,       (* requests in progress                                  *)
  MasterStates,   (* what the jetton master's account may hold over time   *)
  Undeployed,     (* ... one of them: no code, no get method can be run    *)
  NoState,        (* no entry in the map                                   *)
  Attempts,       (* retry.Attempts; 3 in getStateInit                     *)
  MapMade         (* jettonMasterStateCache was made, as NewHandler does   *)

ASSUME ResolverAssumption ==
  /\ Undeployed \in MasterStates
  /\ NoState \notin MasterStates
  /\ Attempts \in Nat \ {0}
  /\ MapMade \in BOOLEAN

VARIABLES
  chain,      (* the jetton master on the blockchain                       *)
  clock,      (* the time, as far as the airdrop's window goes             *)
  cache,      (* jettonMasterStateCache                                    *)
  pc,         (* where each request is in executor and around it           *)
  stage,      (* for which of the two questions                            *)
  attempt,    (* which run of the function given to retry.Do               *)
  state,      (* the variable of executor                                  *)
  used,       (* the states the two answers were computed from             *)
  payload,    (* customPayload was made                                    *)
  outcome,    (* how convertToWalletInfo ended                             *)
  began       (* history: the clock and the map when it was called         *)

sharedVars  == <<chain, clock, cache>>
requestVars == <<pc, stage, attempt, state, used, payload, outcome, began>>

vars == <<sharedVars, requestVars>>

Places   == {"idle", "lookup", "fetch", "store", "emulate", "encode", "pause",
             "done"}
Stages   == {"stateInit", "jettonWallet"}
Clock    == {"before", "open", "over"}
Outcomes == {"none", "info", "proof is broken", "error", "panic"}

(* A request that has missed the map and not yet stored what it fetches. *)
Fetching(r) == pc[r] \in {"fetch", "store"}

(* The map has its entry and nobody is about to write another. *)
Settled == cache # NoState /\ \A r \in Requests : ~Fetching(r)
-----------------------------------------------------------------------------
Init ==
  /\ chain \in MasterStates
  /\ clock = "before"
  /\ cache = NoState
  /\ pc = [r \in Requests |-> "idle"]
  /\ stage = [r \in Requests |-> "stateInit"]
  /\ attempt = [r \in Requests |-> 1]
  /\ state = [r \in Requests |-> NoState]
  /\ used = [r \in Requests |-> [s \in Stages |-> NoState]]
  /\ payload = [r \in Requests |-> FALSE]
  /\ outcome = [r \in Requests |-> "none"]
  /\ began = [r \in Requests |-> [clock |-> "before", settled |-> FALSE]]

Goto(r, place) == pc' = [pc EXCEPT ![r] = place]

Finish(r, o) ==
  /\ Goto(r, "done")
  /\ outcome' = [outcome EXCEPT ![r] = o]

(* The end of the window is tested, its start is not. *)
NotExpired(c) == c \in {"before", "open"}

(* StartFrom <= now && now <= ExpireAt *)
InWindow(c) == c = "open"

Call(r) ==
  /\ pc[r] = "idle"
  /\ Goto(r, "lookup")
  /\ payload' = [payload EXCEPT ![r] = InWindow(clock)]
  /\ began' = [began EXCEPT ![r] = [clock |-> clock, settled |-> Settled]]
  /\ UNCHANGED <<sharedVars, stage, attempt, state, used, outcome>>

(* createCustomPayload does not like the proof. *)
CallWithBrokenProof(r) ==
  /\ pc[r] = "idle"
  /\ InWindow(clock)
  /\ Finish(r, "proof is broken")
  /\ began' = [began EXCEPT ![r] = [clock |-> clock, settled |-> Settled]]
  /\ UNCHANGED <<sharedVars, stage, attempt, state, used, payload>>

CacheHit(r) ==
  /\ pc[r] = "lookup"
  /\ cache # NoState
  /\ state' = [state EXCEPT ![r] = cache]
  /\ Goto(r, "emulate")
  /\ UNCHANGED <<sharedVars, stage, attempt, used, payload, outcome, began>>

(* The account is fetched although it is in the map. *)
CacheIgnored(r) ==
  /\ pc[r] = "lookup"
  /\ Goto(r, "fetch")
  /\ UNCHANGED <<sharedVars, stage, attempt, state, used, payload, outcome, began>>

CacheMiss(r) ==
  /\ pc[r] = "lookup"
  /\ cache = NoState
  /\ Goto(r, "fetch")
  /\ UNCHANGED <<sharedVars, stage, attempt, state, used, payload, outcome, began>>

(* h.cli.GetAccountState, and code and data out of what it returns *)
Fetch(r) ==
  /\ pc[r] = "fetch"
  /\ state' = [state EXCEPT ![r] = chain]
  /\ Goto(r, "store")
  /\ UNCHANGED <<sharedVars, stage, attempt, used, payload, outcome, began>>

(* setJettonMasterState: writing to a nil map panics *)
Store(r) ==
  /\ pc[r] = "store"
  /\ IF MapMade
     THEN /\ cache' = state[r]
          /\ Goto(r, "emulate")
          /\ UNCHANGED outcome
     ELSE /\ Finish(r, "panic")
          /\ UNCHANGED cache
  /\ UNCHANGED <<chain, clock, stage, attempt, state, used, payload, began>>

(* The get method is run, and its result understood. *)
Emulate(r) ==
  /\ pc[r] = "emulate"
  /\ state[r] # Undeployed
  /\ used' = [used EXCEPT ![r][stage[r]] = state[r]]
  /\ IF stage[r] = "stateInit"
     THEN Goto(r, "encode") /\ UNCHANGED outcome
     ELSE Finish(r, "info")
  /\ UNCHANGED <<sharedVars, stage, attempt, state, payload, began>>

(* retry.Do has returned.  stateInit.ToBocBase64 may fail all the same,    *)
(* and is not tried again.                                                 *)
Encode(r) ==
  /\ pc[r] = "encode"
  /\ \/ /\ stage' = [stage EXCEPT ![r] = "jettonWallet"]
        /\ Goto(r, "lookup")
        /\ UNCHANGED outcome
     \/ /\ Finish(r, "error")
        /\ UNCHANGED stage
  /\ UNCHANGED <<sharedVars, attempt, state, used, payload, began>>

(* One attempt too many is made. *)
OneTooMany(r) == stage[r] = "jettonWallet" \/ attempt[r] > Attempts

(* Nothing is tried again after this failure. *)
LastAttempt(r) == stage[r] = "jettonWallet" \/ attempt[r] = Attempts

(* An attempt that fails takes the entry out of the map, lest it is wrong. *)
FailAndForget(r) ==
  /\ pc[r] \in {"fetch", "emulate"}
  /\ cache' = NoState
  /\ IF LastAttempt(r)
     THEN Finish(r, "error")
     ELSE Goto(r, "pause") /\ UNCHANGED outcome
  /\ UNCHANGED <<chain, clock, stage, attempt, state, used, payload, began>>

(* The lite server or the emulator returns an error, or the attempt's own  *)
(* timeout is over.                                                        *)
Fail(r) ==
  /\ pc[r] \in {"fetch", "emulate"}
  /\ IF LastAttempt(r)
     THEN Finish(r, "error")
     ELSE Goto(r, "pause") /\ UNCHANGED outcome
  /\ UNCHANGED <<sharedVars, stage, attempt, state, used, payload, began>>

(* Every retry is a retry.Do of its own. *)
RetryAfresh(r) ==
  /\ pc[r] = "pause"
  /\ attempt' = [attempt EXCEPT ![r] = 1]
  /\ Goto(r, "lookup")
  /\ UNCHANGED <<sharedVars, stage, state, used, payload, outcome, began>>

(* retry.Delay is over; whether the client is still there is not asked.    *)
Retry(r) ==
  /\ pc[r] = "pause"
  /\ attempt' = [attempt EXCEPT ![r] = @ + 1]
  /\ Goto(r, "lookup")
  /\ UNCHANGED <<sharedVars, stage, state, used, payload, outcome, began>>

Handler(r) ==
  \/ CacheHit(r) \/ CacheMiss(r) \/ Fetch(r) \/ Store(r)
  \/ Emulate(r) \/ Encode(r) \/ Fail(r) \/ Retry(r)

(* The slot is free for the next request. *)
Release(r) ==
  /\ pc[r] = "done"
  /\ Goto(r, "idle")
  /\ stage' = [stage EXCEPT ![r] = "stateInit"]
  /\ attempt' = [attempt EXCEPT ![r] = 1]
  /\ state' = [state EXCEPT ![r] = NoState]
  /\ used' = [used EXCEPT ![r] = [s \in Stages |-> NoState]]
  /\ payload' = [payload EXCEPT ![r] = FALSE]
  /\ outcome' = [outcome EXCEPT ![r] = "none"]
  /\ UNCHANGED <<sharedVars, began>>

(* The jetton master is deployed, minted from, upgraded. *)
MasterChanges ==
  /\ chain' \in MasterStates \ {chain}
  /\ UNCHANGED <<clock, cache, requestVars>>

Tick ==
  /\ clock' = CASE clock = "before" -> "open"
                [] clock = "open"   -> "over"
                [] clock = "over"   -> "over"
  /\ UNCHANGED <<chain, cache, requestVars>>

Next ==
  \/ \E r \in Requests :
       Call(r) \/ CallWithBrokenProof(r) \/ Handler(r) \/ Release(r)
  \/ MasterChanges
  \/ Tick

Spec == Init /\ [][Next]_vars

(* Goroutines that can run do run; calls to the lite server have timeouts. *)
FairSpec == Spec /\ \A r \in Requests : WF_vars(Handler(r))
-----------------------------------------------------------------------------
TypeOK ==
  /\ chain \in MasterStates
  /\ clock \in Clock
  /\ cache \in MasterStates \cup {NoState}
  /\ pc \in [Requests -> Places]
  /\ stage \in [Requests -> Stages]
  /\ attempt \in [Requests -> 1..Attempts]
  /\ state \in [Requests -> MasterStates \cup {NoState}]
  /\ used \in [Requests -> [Stages -> MasterStates \cup {NoState}]]
  /\ payload \in [Requests -> BOOLEAN]
  /\ outcome \in [Requests -> Outcomes]
  /\ began \in [Requests -> [clock : Clock, settled : BOOLEAN]]

(***************************************************************************)
(* Requests that miss the map together fetch and store one after the       *)
(* other, and the last one wins.  Once the map has its entry and the last  *)
(* of them is through, the entry never changes again: not even when the    *)
(* account on the chain does.                                              *)
(***************************************************************************)
EntrySettles == [][Settled => Settled' /\ cache' = cache]_vars

(***************************************************************************)
(* A request that begins after that is answered from one state of the      *)
(* jetton master, the one in the map, in both its parts; so all such       *)
(* requests agree.  (One that begins earlier may mix two states.)          *)
(***************************************************************************)
SettledRepliesAgree ==
  \A r \in Requests :
    outcome[r] = "info" /\ began[r].settled =>
      \A s \in Stages : used[r][s] = cache

(***************************************************************************)
(* The payload is decided once, before the slow calls.  A reply never      *)
(* carries one before the window has opened, and never lacks it when the   *)
(* window was open when the conversion began.                              *)
(***************************************************************************)
PayloadInTime ==
  \A r \in Requests :
    outcome[r] = "info" =>
      IF payload[r] THEN clock # "before" ELSE began[r].clock # "open"

(***************************************************************************)
(* The second question is asked once, without a retry.  It never needs the *)
(* account to be fetched: a request that gets so far finds the entry in    *)
(* the map, whoever has stored it and whatever has failed for the others   *)
(* meanwhile.  So a failure of GetAccountState is always met in the first  *)
(* question, which is asked again.                                         *)
(***************************************************************************)
UnretriedNeverFetches ==
  \A r \in Requests :
    stage[r] = "jettonWallet" => cache # NoState /\ ~Fetching(r)

(***************************************************************************)
(* Every conversion ends, whatever fails: also when the map holds the      *)
(* state of an undeployed master, with which no attempt can succeed.       *)
(***************************************************************************)
ConversionEnds ==
  \A r \in Requests : pc[r] # "idle" ~> pc[r] = "done"

(***************************************************************************)
(* TestHandler_getStateInit requires a nil error of a Handler that it      *)
(* makes itself, without a map.                                            *)
(***************************************************************************)
NoPanic == \A r \in Requests : outcome[r] # "panic"
=============================================================================

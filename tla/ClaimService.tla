---------------------------- MODULE ClaimService ----------------------------
(***************************************************************************)
(* The path of a request through the claim service: the handler goroutines *)
(* of api.Handler (GetWalletInfo, GetWallets), the ElasticQueue they share,*)
(* the single goroutine of prover.Prover behind it, the response channel   *)
(* made for each request, and the two LRU caches of the handler.           *)
(*                                                                         *)
(* A "request" is a slot for an HTTP request in progress; it is used again *)
(* once its reply is sent and its message has left the queue.  What        *)
(* convertToWalletInfo does after the proof is found (the calls to the     *)
(* lite server) is left to its two outcomes.                               *)
(***************************************************************************)
EXTENDS Naturals, Sequences, SequencesExt

CONSTANTS
  Requests,     (* slots for HTTP requests in progress                     *)
  Accounts,     (* account ids                                             *)
  Airdrop,      (* the accounts in the airdrop file, read once at startup  *)
  NoAccount,    (* no account id, also "not in the cache" and "no request" *)
  MaxLength,    (* length of the prover's queue; 1000 in NewProver         *)
  Cancellable   (* whether the context of Handler.Run can end: main passes *)
                (* context.TODO(), which cannot                            *)

ASSUME ServiceAssumption ==
  /\ Airdrop \subseteq Accounts
  /\ NoAccount \notin Accounts
  /\ NoAccount \notin Requests
  /\ MaxLength \in Nat \ {0}
  /\ Cancellable \in BOOLEAN

VARIABLES
  input, msgs, sel, ctxDone,   (* the prover's queue, see ElasticQueue     *)
  pc,                (* where each handler goroutine is                    *)
  op,                (* which operation it runs                            *)
  account,           (* accountID, or next of GetWallets                   *)
  gone,              (* the requests whose ctx is done                     *)
  fetched,           (* the owner of the WalletAirdrop it has in hand      *)
  reply,             (* what it returned                                   *)
  responseCh,        (* its response channel, of capacity 1                *)
  proofsCache,       (* account -> owner of the cached WalletAirdrop       *)
  keyNotFoundCache,  (* the accounts in the negative cache                 *)
  prover,            (* the request the prover works on, or NoAccount      *)
  proverStopped,     (* Prover.Run has returned                            *)
  counters           (* the read cursors kept inside the cells of the tree *)

queueVars   == <<input, msgs, sel, ctxDone>>
handlerVars == <<pc, op, account, gone, fetched, reply>>
cacheVars   == <<proofsCache, keyNotFoundCache>>
proverVars  == <<prover, proverStopped, counters>>

vars == <<queueVars, handlerVars, responseCh, cacheVars, proverVars>>

Queue == INSTANCE ElasticQueue WITH Values <- Requests, InputChanLen <- 0

Api == INSTANCE ClaimApi WITH
         phase <- [r \in Requests |->
                     CASE pc[r] = "idle" -> "idle"
                       [] pc[r] = "done" -> "replied"
                       [] OTHER -> "serving"]

Operations == Api!Operations
NoReply    == Api!NoReply
Failure(c) == Api!Failure(c)
Success(a) == [code |-> 200, owner |-> a]

Places == {"idle", "lookupProof", "lookupNotFound", "send", "await",
           "convert", "done"}
Errors == {"none", "key is not found", "other"}

(* ProofResponse and EnumerateResponse: the error and whose wallet it is. *)
Responses == [err : Errors, owner : Accounts \cup {NoAccount}]

(* The error is wrapped on its way, and no longer one the handlers know. *)
RespondWrapped(e, a) == [err |-> "prover: " \o e, owner |-> a]

Respond(e, a) == [err |-> e, owner |-> a]

(* A request is owed a response by the queue or the prover. *)
Owed(r) == r \in Queue!InFlight \/ r = prover
-----------------------------------------------------------------------------
Init ==
  /\ Queue!Init
  /\ pc = [r \in Requests |-> "idle"]
  /\ op = [r \in Requests |-> "GetWalletInfo"]
  /\ account = [r \in Requests |-> NoAccount]
  /\ gone = {}
  /\ fetched = [r \in Requests |-> NoAccount]
  /\ reply = [r \in Requests |-> NoReply]
  /\ responseCh = [r \in Requests |-> <<>>]
  /\ proofsCache = [a \in Accounts |-> NoAccount]
  /\ keyNotFoundCache = {}
  /\ prover = NoAccount
  /\ proverStopped = FALSE
  /\ counters = "reset"

(***************************************************************************)
(* The handlers.                                                           *)
(***************************************************************************)
Goto(r, place) == pc' = [pc EXCEPT ![r] = place]

Return(r, rep) ==
  /\ Goto(r, "done")
  /\ reply' = [reply EXCEPT ![r] = rep]

(* ton.ParseAccountID succeeds; GetWallets has no cache to look at. *)
Call(r, o, a) ==
  /\ pc[r] = "idle"
  /\ Goto(r, IF o = "GetWalletInfo" THEN "lookupProof" ELSE "send")
  /\ op' = [op EXCEPT ![r] = o]
  /\ account' = [account EXCEPT ![r] = a]
  /\ UNCHANGED <<queueVars, gone, fetched, reply, responseCh, cacheVars,
                 proverVars>>

BadAddress(r) ==
  /\ pc[r] = "idle"
  /\ Return(r, Failure(400))
  /\ UNCHANGED <<queueVars, op, account, gone, fetched, responseCh, cacheVars,
                 proverVars>>

ProofHit(r) ==
  /\ pc[r] = "lookupProof"
  /\ proofsCache[account[r]] # NoAccount
  /\ fetched' = [fetched EXCEPT ![r] = proofsCache[account[r]]]
  /\ Goto(r, "convert")
  /\ UNCHANGED <<queueVars, op, account, gone, reply, responseCh, cacheVars,
                 proverVars>>

ProofMiss(r) ==
  /\ pc[r] = "lookupProof"
  /\ proofsCache[account[r]] = NoAccount
  /\ Goto(r, "lookupNotFound")
  /\ UNCHANGED <<queueVars, op, account, gone, fetched, reply, responseCh,
                 cacheVars, proverVars>>

NotFoundHit(r) ==
  /\ pc[r] = "lookupNotFound"
  /\ account[r] \in keyNotFoundCache
  /\ Return(r, Failure(404))
  /\ UNCHANGED <<queueVars, op, account, gone, fetched, responseCh, cacheVars,
                 proverVars>>

NotFoundMiss(r) ==
  /\ pc[r] = "lookupNotFound"
  /\ account[r] \notin keyNotFoundCache
  /\ Goto(r, "send")
  /\ UNCHANGED <<queueVars, op, account, gone, fetched, reply, responseCh,
                 cacheVars, proverVars>>

(* h.prover.Queue() <- request: the send is not part of a select, the      *)
(* handler stays in it until the queue takes the message.                  *)
SendRequest(r) ==
  /\ pc[r] = "send"
  /\ Queue!Send(r)
  /\ Goto(r, "await")
  /\ UNCHANGED <<op, account, gone, fetched, reply, responseCh, cacheVars,
                 proverVars>>

(* The send is over and the handler is at its select. *)
Selecting(r) == pc[r] = "await" /\ ~Queue!Parked(r)

(* A timeout of the handler's own, the client still being there. *)
TimeoutOfItsOwn(r) ==
  /\ Selecting(r)
  /\ Return(r, Failure(400))
  /\ UNCHANGED <<queueVars, op, account, gone, fetched, responseCh, cacheVars,
                 proverVars>>

(* The handler waits for the response alone, not for ctx.Done(). *)
NoTimeout(r) ==
  /\ Selecting(r)
  /\ FALSE
  /\ UNCHANGED vars

(* case <-ctx.Done() *)
Timeout(r) ==
  /\ Selecting(r)
  /\ r \in gone
  /\ Return(r, Failure(400))
  /\ UNCHANGED <<queueVars, op, account, gone, fetched, responseCh, cacheVars,
                 proverVars>>

Receive(r) ==
  /\ Selecting(r)
  /\ responseCh[r] # <<>>
  /\ responseCh' = [responseCh EXCEPT ![r] = Tail(@)]

Response(r) == Head(responseCh[r])

(* resp.Err is nil: the airdrop is cached before it is converted. *)
ReceiveProof(r) ==
  /\ op[r] = "GetWalletInfo"
  /\ Receive(r)
  /\ Response(r).err = "none"
  /\ proofsCache' = [proofsCache EXCEPT ![account[r]] = Response(r).owner]
  /\ fetched' = [fetched EXCEPT ![r] = Response(r).owner]
  /\ Goto(r, "convert")
  /\ UNCHANGED <<queueVars, op, account, gone, reply, keyNotFoundCache,
                 proverVars>>

(* Whatever the error, the account is said not to be found. *)
ReceiveAnyAsNotFound(r) ==
  /\ op[r] = "GetWalletInfo"
  /\ Receive(r)
  /\ Response(r).err # "none"
  /\ Return(r, Failure(404))
  /\ UNCHANGED <<queueVars, op, account, gone, fetched, cacheVars, proverVars>>

(* resp.Err contains "key is not found" *)
ReceiveNotFound(r) ==
  /\ op[r] = "GetWalletInfo"
  /\ Receive(r)
  /\ Response(r).err = "key is not found"
  /\ keyNotFoundCache' = keyNotFoundCache \cup {account[r]}
  /\ Return(r, Failure(404))
  /\ UNCHANGED <<queueVars, op, account, gone, fetched, proofsCache,
                 proverVars>>

ReceiveError(r) ==
  /\ op[r] = "GetWalletInfo"
  /\ Receive(r)
  /\ Response(r).err = "other"
  /\ Return(r, Failure(500))
  /\ UNCHANGED <<queueVars, op, account, gone, fetched, cacheVars, proverVars>>

(* GetWallets keeps nothing of what it receives. *)
ReceivePage(r) ==
  /\ op[r] = "GetWallets"
  /\ Receive(r)
  /\ \/ Response(r).err = "none" /\ Return(r, Success(NoAccount))
     \/ Response(r).err = "key is not found" /\ Return(r, Failure(404))
     \/ Response(r).err = "other" /\ Return(r, Failure(500))
  /\ UNCHANGED <<queueVars, op, account, gone, fetched, cacheVars, proverVars>>

(* convertToWalletInfo and the return after it. *)
Convert(r) ==
  /\ pc[r] = "convert"
  /\ \E rep \in {Success(fetched[r]), Failure(500)} : Return(r, rep)
  /\ UNCHANGED <<queueVars, op, account, gone, fetched, responseCh, cacheVars,
                 proverVars>>

Handler(r) ==
  \/ ProofHit(r) \/ ProofMiss(r) \/ NotFoundHit(r) \/ NotFoundMiss(r)
  \/ SendRequest(r) \/ Timeout(r)
  \/ ReceiveProof(r) \/ ReceiveNotFound(r) \/ ReceiveError(r)
  \/ ReceivePage(r)
  \/ Convert(r)

(***************************************************************************)
(* The server around the handlers: it starts them, ends their contexts     *)
(* when the client goes away, and reuses a slot.                           *)
(***************************************************************************)
Leave(r) ==
  /\ pc[r] \notin {"idle", "done"}
  /\ r \notin gone
  /\ gone' = gone \cup {r}
  /\ UNCHANGED <<queueVars, pc, op, account, fetched, reply, responseCh,
                 cacheVars, proverVars>>

Release(r) ==
  /\ pc[r] = "done"
  /\ ~Owed(r)
  /\ Goto(r, "idle")
  /\ gone' = gone \ {r}
  /\ fetched' = [fetched EXCEPT ![r] = NoAccount]
  /\ reply' = [reply EXCEPT ![r] = NoReply]
  /\ responseCh' = [responseCh EXCEPT ![r] = <<>>]
  /\ UNCHANGED <<queueVars, op, account, cacheVars, proverVars>>

(* An entry expires or is the least recently used one of a full cache. *)
Evict(a) ==
  /\ \/ /\ proofsCache[a] # NoAccount
        /\ proofsCache' = [proofsCache EXCEPT ![a] = NoAccount]
        /\ UNCHANGED keyNotFoundCache
     \/ /\ a \in keyNotFoundCache
        /\ keyNotFoundCache' = keyNotFoundCache \ {a}
        /\ UNCHANGED proofsCache
  /\ UNCHANGED <<queueVars, handlerVars, responseCh, proverVars>>

(***************************************************************************)
(* The prover.  Every cell of the airdrop tree keeps a read cursor, prove  *)
(* and enumerateAccounts move them, and a tree whose cursors are not at    *)
(* the start reads as something else.                                      *)
(***************************************************************************)
(* The reset is forgotten. *)
LeaveCounters(c) == c

ResetCounters(c) == "reset"

Prove(a, c) ==
  IF c # "reset" THEN Responses
  ELSE { Respond("other", NoAccount) } \cup
         IF a \in Airdrop THEN { Respond("none", a) }
                          ELSE { Respond("key is not found", NoAccount) }

EnumerateAccounts(c) ==
  IF c # "reset" THEN Responses
  ELSE { Respond("none", NoAccount), Respond("other", NoAccount) }

(* The prover passes over a request whose client has left. *)
TakeRequestOfPresent ==
  /\ prover = NoAccount
  /\ ~proverStopped
  /\ msgs # <<>> => Head(msgs) \notin gone
  /\ Queue!Deliver
  /\ prover' = Head(msgs)
  /\ UNCHANGED <<handlerVars, responseCh, cacheVars, proverStopped, counters>>

(* case reqAny := <-p.queue.Output() *)
TakeRequest ==
  /\ prover = NoAccount
  /\ ~proverStopped
  /\ Queue!Deliver
  /\ prover' = Head(msgs)
  /\ UNCHANGED <<handlerVars, responseCh, cacheVars, proverStopped, counters>>

(* The response is dropped when the client has left. *)
AnswerIfPresent(outcomes) ==
  /\ Len(responseCh[prover]) < 1
  /\ IF prover \in gone
     THEN UNCHANGED responseCh
     ELSE \E resp \in outcomes :
            responseCh' = [responseCh EXCEPT ![prover] = Append(@, resp)]
  /\ prover' = NoAccount
  /\ counters' = "moved"
  /\ UNCHANGED <<queueVars, handlerVars, cacheVars, proverStopped>>

(* On the error path the prover returns without sending. *)
AnswerSuccessOnly(outcomes) ==
  /\ Len(responseCh[prover]) < 1
  /\ \E resp \in outcomes :
       responseCh' = IF resp.err = "other" THEN responseCh
                     ELSE [responseCh EXCEPT ![prover] = Append(@, resp)]
  /\ prover' = NoAccount
  /\ counters' = "moved"
  /\ UNCHANGED <<queueVars, handlerVars, cacheVars, proverStopped>>

(* req.ResponseCh <- response: would block if the buffer were full. *)
Answer(outcomes) ==
  /\ Len(responseCh[prover]) < 1
  /\ \E resp \in outcomes :
       responseCh' = [responseCh EXCEPT ![prover] = Append(@, resp)]
  /\ prover' = NoAccount
  /\ counters' = "moved"
  /\ UNCHANGED <<queueVars, handlerVars, cacheVars, proverStopped>>

ProcessProofRequest ==
  /\ prover # NoAccount
  /\ op[prover] = "GetWalletInfo"
  /\ Answer(Prove(account[prover], ResetCounters(counters)))

ProcessEnumerateAccountsRequest ==
  /\ prover # NoAccount
  /\ op[prover] = "GetWallets"
  /\ Answer(EnumerateAccounts(ResetCounters(counters)))

StopProver ==
  /\ prover = NoAccount
  /\ ctxDone
  /\ ~proverStopped
  /\ proverStopped' = TRUE
  /\ UNCHANGED <<queueVars, handlerVars, responseCh, cacheVars, prover,
                 counters>>

(* The loop of the queue's goroutine, but for the hand-over to the prover. *)
QueueStep ==
  /\ Queue!FirstReceive \/ Queue!SecondReceive \/ Queue!Stop
  /\ UNCHANGED <<handlerVars, responseCh, cacheVars, proverVars>>

Shutdown ==
  /\ Cancellable
  /\ Queue!Cancel
  /\ UNCHANGED <<handlerVars, responseCh, cacheVars, proverVars>>

Prover == ProcessProofRequest \/ ProcessEnumerateAccountsRequest
-----------------------------------------------------------------------------
Next ==
  \/ \E r \in Requests :
       \/ \E o \in Operations, a \in Accounts : Call(r, o, a)
       \/ BadAddress(r)
       \/ Handler(r)
       \/ Leave(r)
       \/ Release(r)
  \/ \E a \in Accounts : Evict(a)
  \/ TakeRequest
  \/ Prover
  \/ StopProver
  \/ QueueStep
  \/ Shutdown

Spec == Init /\ [][Next]_vars

(***************************************************************************)
(* Goroutines that can run do run: every handler, the prover, and the      *)
(* queue's goroutine, whose select may be unfair between its two channels. *)
(* Clients need not come, nor leave; nothing need be evicted.              *)
(***************************************************************************)
Fairness ==
  /\ \A r \in Requests : WF_vars(Handler(r))
  /\ WF_vars(QueueStep \/ TakeRequest)
  /\ WF_vars(Prover)

FairSpec == Spec /\ Fairness
-----------------------------------------------------------------------------
TypeOK ==
  /\ Queue!TypeOK
  /\ pc \in [Requests -> Places]
  /\ op \in [Requests -> Operations]
  /\ account \in [Requests -> Accounts \cup {NoAccount}]
  /\ gone \in SUBSET Requests
  /\ fetched \in [Requests -> Accounts \cup {NoAccount}]
  /\ reply \in [Requests -> [code : {0, 200, 400, 404, 500},
                             owner : Accounts \cup {NoAccount}]]
  /\ responseCh \in [Requests -> Seq(Responses)]
  /\ proofsCache \in [Accounts -> Accounts \cup {NoAccount}]
  /\ keyNotFoundCache \in SUBSET Accounts
  /\ prover \in Requests \cup {NoAccount}
  /\ proverStopped \in BOOLEAN
  /\ counters \in {"reset", "moved"}

(***************************************************************************)
(* The two caches tell the truth about the airdrop file, so they can never *)
(* disagree about an account: a cached airdrop is that of its key, and no  *)
(* account of the file is ever remembered as missing.                      *)
(***************************************************************************)
CachesTruthful ==
  /\ \A a \in Accounts :
       proofsCache[a] # NoAccount => proofsCache[a] = a /\ a \in Airdrop
  /\ keyNotFoundCache \cap Airdrop = {}

(***************************************************************************)
(* GetWalletInfo answers 200 only with the wallet that was asked for, and  *)
(* only if it has an airdrop, and 404 only if it has none, whichever of    *)
(* the caches, the queue or another request's work the answer came from.   *)
(***************************************************************************)
RepliesTruthful ==
  \A r \in Requests :
    pc[r] = "done" /\ op[r] = "GetWalletInfo" =>
      /\ reply[r].code = 200 => reply[r].owner = account[r] /\ account[r] \in Airdrop
      /\ reply[r].code = 404 => account[r] \notin Airdrop

(***************************************************************************)
(* The prover never blocks on a response channel, even when the handler    *)
(* has timed out and nobody will ever read it: a request gets at most one  *)
(* response and the channel has room for it.                               *)
(***************************************************************************)
ProverNeverBlocks == prover # NoAccount => responseCh[prover] = <<>>

(***************************************************************************)
(* While a handler waits, its request is in exactly one place: in the      *)
(* queue, with the prover, or answered in its channel.  It is not lost on  *)
(* the way, and not answered twice.  Only when Run of the queue has        *)
(* returned can it be in no place, dropped with the backlog.               *)
(***************************************************************************)
InQueueOnce(r) ==
  \E i \in 1..Len(msgs \o input) :
    \A j \in 1..Len(msgs \o input) : (msgs \o input)[j] = r <=> j = i

Nowhere(r) == ~Owed(r) /\ responseCh[r] = <<>>

RequestInOnePlace ==
  \A r \in Requests :
    pc[r] = "await" =>
      \/ sel = "stopped" /\ Nowhere(r)
      \/ InQueueOnce(r) /\ prover # r /\ responseCh[r] = <<>>
      \/ r \notin Queue!InFlight /\ prover = r /\ responseCh[r] = <<>>
      \/ r \notin Queue!InFlight /\ prover # r /\ Len(responseCh[r]) = 1

(***************************************************************************)
(* The service as a whole is the ClaimApi: in particular a client that     *)
(* stays is never told 400 "timeout", and gets its reply once.             *)
(***************************************************************************)
ImplementsApi == Api!Spec

(***************************************************************************)
(* Every handler returns, also one whose send waits on a full queue, one   *)
(* whose client has left, and one that is overtaken by others forever.     *)
(***************************************************************************)
EveryRequestReturns ==
  \A r \in Requests : pc[r] # "idle" ~> pc[r] = "done"

(***************************************************************************)
(* No request, answered or abandoned, stays with the queue or the prover.  *)
(***************************************************************************)
NoWorkIsStuck ==
  \A r \in Requests : Owed(r) ~> ~Owed(r)

(***************************************************************************)
(* Should the service be shut down, a handler whose client has left still  *)
(* returns, even if its request is dropped with the backlog.  The one that *)
(* cannot is parked in the send to a queue that has stopped: the send does *)
(* not look at the handler's context.                                      *)
(***************************************************************************)
ParkedForGood(r) == sel = "stopped" /\ Queue!Parked(r)

AbandonedRequestReturns ==
  \A r \in Requests :
    pc[r] # "done" /\ r \in gone ~> pc[r] = "done" \/ ParkedForGood(r)

(***************************************************************************)
(* Of all handlers a shutdown can leave two kinds behind: those parked in  *)
(* the send to the stopped queue, and those whose request was dropped with *)
(* the backlog while the client stays.  Every other one returns, whichever *)
(* of the queue and the prover stops first and wherever its request is at  *)
(* that time; a request that the prover works on is answered.              *)
(***************************************************************************)
DroppedWithBacklog(r) ==
  sel = "stopped" /\ pc[r] = "await" /\ r \notin gone /\ Nowhere(r)

OthersReturn ==
  \A r \in Requests :
    pc[r] # "idle" ~> pc[r] = "done" \/ ParkedForGood(r) \/ DroppedWithBacklog(r)
=============================================================================

------------------------------ MODULE ApiServer ------------------------------
(***************************************************************************)
(* A call from the HTTP request to the status line: the mux and the router *)
(* of oas.Server, the decoding and validation of parameters, the handler   *)
(* (ClaimApi, which ClaimService implements), the encoding of the reply or *)
(* error, and the counters every operation keeps.                          *)
(*                                                                         *)
(* net/http heeds the first status a handler writes; a second one is only  *)
(* logged.  "sent" is all the statuses written for a call.                 *)
(***************************************************************************)
EXTENDS Integers, Sequences, FiniteSets

CONSTANTS
  Requests,    (* slots for HTTP requests in progress                      *)
  Accounts,    (* account ids                                              *)
  Airdrop,     (* the accounts of the airdrop file                         *)
  NoAccount,   (* no account id                                            *)
  Malformed,   (* an address or next_from that is no account id            *)
  Missing,     (* a parameter left out, or a count that is no number       *)
  Counts,      (* the numbers clients give as count                        *)
  MaxCalls     (* bound: calls in a behaviour                              *)

ASSUME ServerAssumption ==
  /\ Airdrop \subseteq Accounts
  /\ {NoAccount, Malformed, Missing} \cap Accounts = {}
  /\ Malformed # Missing
  /\ Counts \subseteq Int
  /\ Missing \notin Int
  /\ MaxCalls \in Nat
  /\ IsFiniteSet(Requests)

VARIABLES
  phase, op, account, gone, reply,   (* the handlers, see ClaimApi         *)
  stage,     (* where the server is with each request                      *)
  req,       (* what was asked: [path, method, address, count]             *)
  sent,      (* the statuses written, in order                             *)
  calls,     (* how many calls there were                                  *)
  requests,  (* the request counter                                        *)
  errors,    (* the error counter                                          *)
  failures   (* history: how many calls a 5xx was written for              *)

apiVars == <<phase, op, account, gone, reply>>
countVars == <<calls, requests, errors, failures>>

vars == <<apiVars, stage, req, sent, countVars>>

Api == INSTANCE ClaimApi

Stages  == {"idle", "decode", "handle", "encode", "record", "count", "done"}
Paths   == {"/", "/wallet/", "/wallets", "/healthz", "elsewhere"}
Methods == {"GET", "POST", "OPTIONS"}

Calls == [path : Paths, method : Methods,
          address : Accounts \cup {Malformed, Missing},
          count : Counts \cup {Missing}]

(* GET / needs no parameters, GET /wallet/{address} no count. *)
Relevant(q) ==
  /\ q.path \notin {"/wallet/", "/wallets"} => q.address = Missing
  /\ q.path # "/wallets" => q.count = Missing

NoCall == [path |-> "elsewhere", method |-> "GET", address |-> Missing, count |-> Missing]
-----------------------------------------------------------------------------
Init ==
  /\ phase = [r \in Requests |-> "idle"]
  /\ op = [r \in Requests |-> "GetWalletInfo"]
  /\ account = [r \in Requests |-> NoAccount]
  /\ gone = {}
  /\ reply = [r \in Requests |-> Api!NoReply]
  /\ stage = [r \in Requests |-> "idle"]
  /\ req = [r \in Requests |-> NoCall]
  /\ sent = [r \in Requests |-> <<>>]
  /\ calls = 0
  /\ requests = 0
  /\ errors = 0
  /\ failures = 0

Enter(r, s) == stage' = [stage EXCEPT ![r] = s]

(* Also a 5xx that comes too late to be the status of the response.        *)
Failing(statuses) == \E i \in DOMAIN statuses : statuses[i] >= 500

(* http.ResponseWriter.WriteHeader *)
WriteHeader(r, statuses) ==
  /\ sent' = [sent EXCEPT ![r] = statuses]
  /\ failures' = failures + IF Failing(statuses) THEN 1 ELSE 0

Operations == {"/", "/wallet/", "/wallets"}

(* healthz is asked no questions, notFound and notAllowed answer at once.  *)
StatusOf(q) ==
  CASE q.path = "/healthz"       -> 200
    [] q.path = "elsewhere"      -> 404
    [] q.path \in Operations     -> IF q.method = "OPTIONS" THEN 204 ELSE 405

Routed(q) == q.path \in Operations /\ q.method = "GET"

ServeHTTP(r, q) ==
  /\ stage[r] = "idle"
  /\ calls < MaxCalls
  /\ calls' = calls + 1
  /\ req' = [req EXCEPT ![r] = q]
  /\ IF Routed(q)
     THEN Enter(r, "decode") /\ UNCHANGED <<sent, failures>>
     ELSE Enter(r, "done") /\ WriteHeader(r, <<StatusOf(q)>>)
  /\ UNCHANGED <<apiVars, requests, errors>>

(* The upper limit of count is not enforced. *)
NoMaximum(c) == c >= 5

ValidCount(c) == 5 <= c /\ c <= 10000

Decodes(q) ==
  /\ q.path \in {"/wallet/", "/wallets"} => q.address # Missing
  /\ q.path = "/wallets" => q.count \in Counts /\ ValidCount(q.count)

(* The ErrorHandler is not called. *)
DecodeFailsSilently(r) ==
  /\ stage[r] = "decode"
  /\ ~Decodes(req[r])
  /\ Enter(r, "record")
  /\ UNCHANGED <<apiVars, req, sent, countVars>>

(* DefaultErrorHandler turns a DecodeParamsError into 400. *)
DecodeFails(r) ==
  /\ stage[r] = "decode"
  /\ ~Decodes(req[r])
  /\ WriteHeader(r, <<400>>)
  /\ Enter(r, "record")
  /\ UNCHANGED <<apiVars, req, calls, requests, errors>>

(* GetApiInfo is a constant text. *)
GetApiInfo(r) ==
  /\ stage[r] = "decode"
  /\ req[r].path = "/"
  /\ Enter(r, "encode")
  /\ UNCHANGED <<apiVars, req, sent, countVars>>

(* Through the middlewares, with the parameters unpacked, to the handler. *)
CallHandler(r) ==
  /\ stage[r] = "decode"
  /\ req[r].path # "/"
  /\ Decodes(req[r])
  /\ IF req[r].address = Malformed
     THEN Api!BadCall(r) /\ Enter(r, "encode")
     ELSE /\ Api!Call(r, IF req[r].path = "/wallets" THEN "GetWallets" ELSE "GetWalletInfo",
                      req[r].address)
          /\ Enter(r, "handle")
  /\ UNCHANGED <<req, sent, countVars>>

(* The middlewares go on before the handler has returned. *)
HandlerOvertaken(r) ==
  /\ stage[r] = "handle"
  /\ Enter(r, "encode")
  /\ UNCHANGED <<apiVars, req, sent, countVars>>

HandlerReturns(r) ==
  /\ stage[r] = "handle"
  /\ Api!Answer(r)
  /\ Enter(r, "encode")
  /\ UNCHANGED <<req, sent, countVars>>

(* A handler returns no error, or an ErrorStatusCode, which NewError keeps. *)
CodeOf(r) == IF req[r].path = "/" THEN 200 ELSE reply[r].code

(* recordError is not deferred when the body cannot be written. *)
EncodeResponseUnrecorded(r) ==
  /\ stage[r] = "encode"
  /\ CodeOf(r) = 200
  /\ WriteHeader(r, <<200>>) \/ WriteHeader(r, <<200, 500>>)
  /\ Enter(r, "count")
  /\ UNCHANGED <<apiVars, req, calls, requests, errors>>

(* When the body cannot be written, the ErrorHandler writes a status too. *)
EncodeResponse(r) ==
  /\ stage[r] = "encode"
  /\ CodeOf(r) = 200
  /\ \/ WriteHeader(r, <<200>>) /\ Enter(r, "count")
     \/ WriteHeader(r, <<200, 500>>) /\ Enter(r, "record")
  /\ UNCHANGED <<apiVars, req, calls, requests, errors>>

ServerError(code) == code >= 500

(* encodeErrorResponse returns an error for 5xx, or if it cannot write. *)
EncodeErrorResponse(r) ==
  /\ stage[r] = "encode"
  /\ CodeOf(r) # 200
  /\ WriteHeader(r, <<CodeOf(r)>>)
  /\ \/ Enter(r, "record")
     \/ ~ServerError(CodeOf(r)) /\ Enter(r, "count")
  /\ UNCHANGED <<apiVars, req, calls, requests, errors>>

(* The deferred calls: recordError first, the stopwatch after it. *)
RecordError(r) ==
  /\ stage[r] = "record"
  /\ errors' = errors + 1
  /\ Enter(r, "count")
  /\ UNCHANGED <<apiVars, req, sent, calls, requests, failures>>

CountRequest(r) ==
  /\ stage[r] = "count"
  /\ requests' = requests + 1
  /\ Enter(r, "done")
  /\ UNCHANGED <<apiVars, req, sent, calls, errors, failures>>

Serve(r) ==
  \/ DecodeFails(r) \/ GetApiInfo(r) \/ CallHandler(r) \/ HandlerReturns(r)
  \/ EncodeResponse(r) \/ EncodeErrorResponse(r)
  \/ RecordError(r) \/ CountRequest(r)

(* The client closes the connection: the request's context is done. *)
Leave(r) ==
  /\ Api!Leave(r)
  /\ r \notin gone
  /\ UNCHANGED <<stage, req, sent, countVars>>

Release(r) ==
  /\ stage[r] = "done"
  /\ Enter(r, "idle")
  /\ req' = [req EXCEPT ![r] = NoCall]
  /\ sent' = [sent EXCEPT ![r] = <<>>]
  /\ IF phase[r] = "replied" THEN Api!Release(r) ELSE UNCHANGED apiVars
  /\ UNCHANGED countVars

Next ==
  \E r \in Requests :
    \/ \E q \in { c \in Calls : Relevant(c) } : ServeHTTP(r, q)
    \/ Serve(r)
    \/ Leave(r)
    \/ Release(r)

Spec == Init /\ [][Next]_vars

(* The goroutine of a request goes on; that its handler returns is what    *)
(* EveryRequestReturns says of ClaimService.                               *)
FairSpec == Spec /\ \A r \in Requests : WF_vars(Serve(r))
-----------------------------------------------------------------------------
(* The statuses a response may start or go on with. *)
StatusCodes == {200, 204, 400, 404, 405, 500}

TypeOK ==
  /\ phase \in [Requests -> {"idle", "serving", "replied"}]
  /\ op \in [Requests -> Api!Operations]
  /\ account \in [Requests -> Accounts \cup {NoAccount}]
  /\ gone \in SUBSET Requests
  /\ reply \in [Requests -> [code : {0, 200, 400, 404, 500},
                             owner : Accounts \cup {NoAccount}]]
  /\ stage \in [Requests -> Stages]
  /\ req \in [Requests -> Calls]
  /\ sent \in [Requests -> Seq(StatusCodes)]
  /\ {calls, requests, errors, failures} \subseteq 0..MaxCalls

(* The counts that GetWallets accepts. *)
AllowedCounts == 5..10000

(***************************************************************************)
(* What the status line says about the call.  A wallet is shown only if it *)
(* is in the airdrop; 404 means that there is no such route or no such     *)
(* wallet; a well-formed call is told 400 only if nobody is there to read  *)
(* it; and a call that is not well-formed is never told 200.               *)
(***************************************************************************)
WellFormed(q) ==
  /\ q.method = "GET"
  /\ q.path \in {"/wallet/", "/wallets"} => q.address \in Accounts
  /\ q.path = "/wallets" => q.count \in AllowedCounts

StatusTruthful ==
  \A r \in Requests :
    sent[r] # <<>> /\ req[r].path \in Operations =>
      LET q    == req[r]
          seen == sent[r][1]
      IN /\ seen = 404 => q.path = "/wallet/" /\ q.address \notin Airdrop
         /\ seen = 200 => WellFormed(q)
         /\ seen = 200 /\ q.path = "/wallet/" => q.address \in Airdrop
         /\ seen = 400 /\ WellFormed(q) => r \in gone

(***************************************************************************)
(* The counters of calls in any order: every 5xx is recorded as an error,  *)
(* once, also one that was written behind a 200 when the body failed, and  *)
(* no call is recorded twice.  They are not kept together: the error is    *)
(* counted before the request is.                                          *)
(***************************************************************************)
At(s) == Cardinality({ r \in Requests : stage[r] = s })

MetricsAddUp ==
  /\ failures <= errors + At("record")
  /\ errors <= requests + At("count")

(***************************************************************************)
(* Every call is answered, whatever was asked and whoever has left.        *)
(***************************************************************************)
EveryCallAnswered ==
  \A r \in Requests : stage[r] # "idle" ~> stage[r] = "done" /\ sent[r] # <<>>
=============================================================================

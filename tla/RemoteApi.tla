----------------------------- MODULE RemoteApi ------------------------------
(***************************************************************************)
(* The API from the other end: callers of the generated oas.Client, the    *)
(* network, and the process that serves.  A client is a Handler too        *)
(* (oas_client_gen.go says so), and should promise what ClaimApi promises, *)
(* although connections break, processes end, net/http sends a request     *)
(* again and other servers answer in place of ours.                        *)
(***************************************************************************)
EXTENDS ApiProcess, WireFormat

CONSTANTS
  Callers,     (* goroutines that use the client                           *)
  Questions,   (* what they call it with                                   *)
  NoConn       (* no connection                                            *)

VARIABLES
  cstage,      (* where each caller is in Client.send...                   *)
  asked,       (* the operation and the parameters                         *)
  conn,        (* the slot that serves its request                         *)
  result,      (* what the client returned                                 *)
  attempts,    (* how many requests were to be sent                        *)
  known,       (* history: each caller's last call that ClaimApi knows     *)
  believed     (* history: the callers that have a look-alike for answer   *)

clientVars == <<cstage, asked, conn, result, attempts, known, believed>>

remoteVars == <<vars, processVars, clientVars>>

CallerStages == {"idle", "send", "wait", "broken", "done"}

(* Missing is the empty string here. *)
Asked ==
  LET Addresses == Accounts \cup {Malformed, Missing}
  IN [operation : {"GetApiInfo"}, address : {Missing}, count : {0}]
       \cup [operation : {"GetWalletInfo"}, address : Addresses, count : {0}]
       \cup [operation : {"GetWallets"}, address : Addresses, count : Counts]

ASSUME RemoteAssumption ==
  /\ Questions \subseteq Asked
  /\ NoConn \notin Requests
  /\ IsFiniteSet(Callers)

NoQuestion == [operation |-> "GetApiInfo", address |-> Missing, count |-> 0]
-----------------------------------------------------------------------------
(***************************************************************************)
(* Requests and responses.                                                 *)
(***************************************************************************)
Get(p, a, c) == [path |-> p, method |-> "GET", address |-> a, count |-> c]

(* An empty address vanishes from the path, an empty next_from is sent.    *)
RequestOf(a) ==
  CASE a.operation = "GetApiInfo"    -> Get("/", Missing, Missing)
    [] a.operation = "GetWalletInfo" -> Get("/wallet/", a.address, Missing)
    [] a.operation = "GetWallets"    ->
         Get("/wallets", IF a.address = Missing THEN Malformed ELSE a.address, a.count)

(* A body is the JSON values in it, and whether all of it arrives.         *)
Response(code, t, vs) == [status |-> code, type |-> t, values |-> vs, whole |-> TRUE]

Json(code, v) == Response(code, "application/json", <<v>>)

Cut(rsp) == [rsp EXCEPT !.whole = FALSE]

(* A text that no property tells from others. *)
SomeText == "text"

Amounts == [amount |-> SomeText, start_from |-> SomeText, expired_at |-> SomeText]

InfoOf(a) ==
  [owner |-> a, jetton_wallet |-> SomeText, custom_payload |-> SomeText,
   state_init |-> {SomeText}, compressed_info |-> {Amounts}]

(* The pages of GetWallets, see Enumerate; one wallet stands for several.  *)
Pages ==
  [wallets : { <<>> } \cup { << [owner |-> a, compressed_info |-> Amounts] >> : a \in Airdrop },
   next_from : {""}]

(* The body of ogenerrors.DefaultErrorHandler is no Error. *)
ErrorMessage == Obj(<< Field("error_message", Str(SomeText)) >>)

(* What a caller is sent for the request in slot r. *)
Responses(r) ==
  LET code == sent[r][1]
      sound == CASE code = 200 /\ req[r].path = "/" -> { Response(200, "text/plain", <<>>) }
                 [] code = 200 /\ req[r].path = "/wallet/" ->
                      { Json(200, EncodeWalletInfo(InfoOf(reply[r].owner))) }
                 [] code = 200 /\ req[r].path = "/wallets" ->
                      { Json(200, EncodeWalletList(p)) : p \in Pages }
                 [] phase[r] = "replied" /\ code # 200 -> { Json(code, EncodeError(SomeText)) }
                 [] OTHER -> { Json(code, ErrorMessage) }
  IN IF Len(sent[r]) = 1 THEN sound ELSE { Cut(rsp) : rsp \in sound }

(* Proxies, gateways and other services: pages of their own, objects that  *)
(* lack a field of ours, or go on behind the object, and objects of ours.  *)
ForeignBodies ==
  { <<>>, << ErrorMessage >>, << EncodeError(SomeText) >>, << EncodeError(SomeText), ErrorMessage >> }
    \cup { << Obj(<< Field("owner", Str(a)), Field("jetton_wallet", Str(SomeText)) >>) >> : a \in Accounts }
    \cup { << EncodeWalletInfo(InfoOf(a)) >> : a \in Accounts }
    \cup { << EncodeWalletInfo(InfoOf(a)), ErrorMessage >> : a \in Accounts }
    \cup { << EncodeWalletList(p) >> : p \in Pages }

Foreign ==
  [status : {200, 404, 502}, type : {"text/html", "text/plain", "application/json"},
   values : ForeignBodies, whole : BOOLEAN]

(* Those that our server could have sent in answer to the same operation.  *)
LookAlikes(operation) ==
  { rsp \in Foreign :
      /\ rsp.whole
      /\ \/ /\ rsp.status # 200 /\ rsp.type = "application/json"
            /\ rsp.values = << EncodeError(SomeText) >>
         \/ /\ operation = "GetApiInfo" /\ rsp.status = 200 /\ rsp.type = "text/plain"
         \/ /\ operation = "GetWalletInfo" /\ rsp.status = 200 /\ rsp.type = "application/json"
            /\ \E a \in Accounts : rsp.values = << EncodeWalletInfo(InfoOf(a)) >>
         \/ /\ operation = "GetWallets" /\ rsp.status = 200 /\ rsp.type = "application/json"
            /\ \E p \in Pages : rsp.values = << EncodeWalletList(p) >> }
-----------------------------------------------------------------------------
(***************************************************************************)
(* Decoding of responses.                                                  *)
(***************************************************************************)
NoResult == [kind |-> "none"]
Value(v) == [kind |-> "value", value |-> v]

(* ErrorStatusCode, and any other error. *)
StatusError(code, e) == [kind |-> "status", code |-> code, value |-> e]
Failed == [kind |-> "error"]

(* Whatever follows the first value is ignored. *)
FirstValue(rsp) ==
  /\ rsp.type = "application/json"
  /\ rsp.whole
  /\ rsp.values # <<>>

(* One JSON value and nothing behind it. *)
OneValue(rsp) ==
  /\ rsp.type = "application/json"
  /\ rsp.whole
  /\ Len(rsp.values) = 1

(* The default response of every operation. *)
DecodeDefault(rsp) ==
  IF OneValue(rsp) /\ AcceptsError(rsp.values[1])
  THEN StatusError(rsp.status, DecodeError(rsp.values[1]))
  ELSE Failed

DecodeGetApiInfo(rsp) ==
  IF rsp.type = "text/plain" /\ rsp.whole THEN Value(SomeText) ELSE Failed

DecodeGetWalletInfo(rsp) ==
  IF OneValue(rsp) /\ AcceptsWalletInfo(rsp.values[1])
  THEN Value(DecodeWalletInfo(rsp.values[1]))
  ELSE Failed

(* Validate only asks that wallets is not nil, which Decode sees to. *)
DecodeGetWallets(rsp) ==
  IF OneValue(rsp) /\ AcceptsWalletList(rsp.values[1])
  THEN Value(DecodeWalletList(rsp.values[1]))
  ELSE Failed

DecodeResponse(operation, rsp) ==
  IF rsp.status # 200 THEN DecodeDefault(rsp)
  ELSE CASE operation = "GetApiInfo"    -> DecodeGetApiInfo(rsp)
         [] operation = "GetWalletInfo" -> DecodeGetWalletInfo(rsp)
         [] operation = "GetWallets"    -> DecodeGetWallets(rsp)

(* What the answers of others are taken for. *)
ForeignAnswers ==
  [operation \in {"GetApiInfo", "GetWalletInfo", "GetWallets"} |->
     { [result |-> DecodeResponse(operation, rsp), alike |-> rsp \in LookAlikes(operation)] :
         rsp \in Foreign }]
-----------------------------------------------------------------------------
RemoteInit ==
  /\ Init
  /\ ProcessInit
  /\ cstage = [c \in Callers |-> "idle"]
  /\ asked = [c \in Callers |-> NoQuestion]
  /\ conn = [c \in Callers |-> NoConn]
  /\ result = [c \in Callers |-> NoResult]
  /\ attempts = 0
  /\ known = [c \in Callers |-> [op |-> "GetWalletInfo", account |-> NoAccount]]
  /\ believed = {}

serverVars == <<vars, processVars>>

Move(c, s) == cstage' = [cstage EXCEPT ![c] = s]

(* A call that reaches the handler with an account id. *)
Known(a) == a.operation # "GetApiInfo" /\ a.address \in Accounts

Invoke(c) ==
  /\ cstage[c] = "idle"
  /\ attempts < MaxCalls
  /\ \E a \in Questions :
       /\ asked' = [asked EXCEPT ![c] = a]
       /\ known' = IF Known(a)
                   THEN [known EXCEPT ![c] = [op |-> a.operation, account |-> a.address]]
                   ELSE known
  /\ Move(c, "send")
  /\ attempts' = attempts + 1
  /\ UNCHANGED <<serverVars, conn, result, believed>>

(* The body of the response is not closed. *)
FinishWithoutClose(c, res) ==
  /\ Move(c, "done")
  /\ result' = [result EXCEPT ![c] = res]
  /\ UNCHANGED <<asked, conn, attempts, known>>

Finish(c, res) ==
  /\ Move(c, "done")
  /\ result' = [result EXCEPT ![c] = res]
  /\ conn' = [conn EXCEPT ![c] = NoConn]
  /\ UNCHANGED <<asked, attempts, known>>

(* The slots are alike: any one of the free ones will do. *)
FreeSlot ==
  LET free == { r \in Requests : stage[r] = "idle" }
  IN { r \in free : r = CHOOSE x \in free : TRUE }

(* The URL of the client is not cloned before the path is added. *)
ConnectWithSharedURL(c) ==
  /\ cstage[c] = "send"
  /\ Listening
  /\ \E r \in FreeSlot, d \in Callers :
       /\ cstage[d] = "send"
       /\ ServeHTTP(r, RequestOf(asked[d]))
       /\ conn' = [conn EXCEPT ![c] = r]
  /\ Move(c, "wait")
  /\ UNCHANGED <<processVars, asked, result, attempts, known, believed>>

(* Client.Do finds a connection; the server has a goroutine for it. *)
Connect(c) ==
  /\ cstage[c] = "send"
  /\ Listening
  /\ \E r \in FreeSlot :
       /\ ServeHTTP(r, RequestOf(asked[c]))
       /\ conn' = [conn EXCEPT ![c] = r]
  /\ Move(c, "wait")
  /\ UNCHANGED <<processVars, asked, result, attempts, known, believed>>

Refused(c) ==
  /\ cstage[c] = "send"
  /\ ~Listening
  /\ Finish(c, Failed)
  /\ UNCHANGED <<serverVars, believed>>

(* The response ends when the server's handler has returned. *)
Receive(c) ==
  /\ cstage[c] = "wait"
  /\ stage[conn[c]] = "done"
  /\ \E rsp \in Responses(conn[c]) : Finish(c, DecodeResponse(asked[c].operation, rsp))
  /\ UNCHANGED <<serverVars, believed>>

(* Somebody else answers. *)
Intercept(c) ==
  /\ cstage[c] = "send"
  /\ \E answer \in ForeignAnswers[asked[c].operation] :
       /\ Finish(c, answer.result)
       /\ believed' = IF answer.alike THEN believed \cup {c} ELSE believed
  /\ UNCHANGED serverVars

(* The connection breaks; the server may notice (Leave) or not. *)
Break(c) ==
  /\ cstage[c] = "wait"
  /\ Move(c, "broken")
  /\ conn' = [conn EXCEPT ![c] = NoConn]
  /\ UNCHANGED <<serverVars, asked, result, attempts, known, believed>>

(* http.Transport sends a GET again if the connection was an old one ... *)
Resend(c) ==
  /\ cstage[c] = "broken"
  /\ attempts < MaxCalls
  /\ attempts' = attempts + 1
  /\ Move(c, "send")
  /\ UNCHANGED <<serverVars, asked, conn, result, known, believed>>

(* ... and fails otherwise. *)
DoFails(c) ==
  /\ cstage[c] = "broken"
  /\ Finish(c, Failed)
  /\ UNCHANGED <<serverVars, believed>>

(* The caller's context ends. *)
GiveUp(c) ==
  /\ cstage[c] \in {"send", "wait", "broken"}
  /\ Finish(c, Failed)
  /\ UNCHANGED <<serverVars, believed>>

Return(c) ==
  /\ cstage[c] = "done"
  /\ Move(c, "idle")
  /\ asked' = [asked EXCEPT ![c] = NoQuestion]
  /\ result' = [result EXCEPT ![c] = NoResult]
  /\ believed' = believed \ {c}
  /\ UNCHANGED <<serverVars, conn, attempts, known>>

Progress(c) == Connect(c) \/ Refused(c) \/ Receive(c) \/ DoFails(c)

Client(c) ==
  Invoke(c) \/ Progress(c) \/ Intercept(c) \/ Break(c) \/ Resend(c) \/ GiveUp(c) \/ Return(c)
-----------------------------------------------------------------------------
Attached(r) == \E c \in Callers : conn[c] = r

(* A slot whose caller is gone: its context ends, or it is done. *)
Abandoned(r) ==
  /\ ~Attached(r)
  /\ Leave(r) \/ Release(r)
  /\ UNCHANGED processVars

(* The goroutine of a request, to its end. *)
Serving(r) ==
  /\ \/ Work(r)
     \/ ~Attached(r) /\ Release(r) /\ UNCHANGED processVars
  /\ UNCHANGED clientVars

(* Every connection breaks with the process. *)
ProcessEnds ==
  /\ Exit
  /\ cstage' = [c \in Callers |-> IF cstage[c] = "wait" THEN "broken" ELSE cstage[c]]
  /\ conn' = [c \in Callers |-> NoConn]
  /\ UNCHANGED <<asked, result, attempts, known, believed>>

Process ==
  /\ Main \/ ProverRuns \/ Restart
  /\ UNCHANGED <<vars, clientVars>>

Server(r) == (Work(r) \/ Abandoned(r)) /\ UNCHANGED clientVars

RemoteNext ==
  \/ \E c \in Callers : Client(c)
  \/ \E r \in Requests : Server(r)
  \/ Process
  \/ ProcessEnds

RemoteSpec == RemoteInit /\ [][RemoteNext]_remoteVars

(* Goroutines on both ends go on, the network delivers what it does not    *)
(* lose, and nobody has to give up, restart anything or send again.        *)
FairRemoteSpec ==
  /\ RemoteSpec
  /\ WF_remoteVars(ProverRuns /\ UNCHANGED <<vars, clientVars>>)
  /\ \A r \in Requests : WF_remoteVars(Serving(r))
  /\ \A c \in Callers : WF_remoteVars(Progress(c))
-----------------------------------------------------------------------------
RemoteTypeOK ==
  /\ ProcessTypeOK
  /\ cstage \in [Callers -> CallerStages]
  /\ asked \in [Callers -> Asked]
  /\ conn \in [Callers -> Requests \cup {NoConn}]
  /\ \A c \in Callers : conn[c] # NoConn <=> cstage[c] = "wait"
  /\ \A c \in Callers : result[c].kind \in {"none", "value", "status", "error"}
  /\ \A c \in believed : c \in Callers /\ cstage[c] = "done"
  /\ attempts \in 0..MaxCalls
  /\ calls + Cardinality({ c \in Callers : cstage[c] = "send" }) <= attempts

(***************************************************************************)
(* A caller that waits is served by a slot that has its request, that      *)
(* nobody else waits for and that does not take it for gone.               *)
(***************************************************************************)
NoCrossTalk ==
  \A c \in Callers : cstage[c] = "wait" =>
    /\ conn[c] \in Requests \ gone
    /\ stage[conn[c]] # "idle"
    /\ req[conn[c]] = RequestOf(asked[c])
    /\ \A d \in Callers : conn[d] = conn[c] => d = c

TruthTold(a, res) ==
  /\ res.kind = "value" /\ a.operation = "GetWalletInfo" =>
       a.address \in Airdrop /\ res.value = InfoOf(a.address)
  /\ res.kind = "value" /\ a.operation = "GetWallets" =>
       a.address \in Accounts /\ a.count \in AllowedCounts /\ res.value \in Pages
  /\ res.kind = "status" =>
       \/ res.code = 404 /\ a.operation = "GetWalletInfo" /\ a.address \notin Airdrop
       \/ res.code = 400 /\ a.operation # "GetApiInfo" /\ a.address \notin Accounts
       \/ res.code = 500

(***************************************************************************)
(* What a call of the client returns is true of the airdrop, whoever has   *)
(* answered: a wallet is whole, the one that was asked for and in the      *)
(* airdrop; 404 means that there is none; 400 that the caller gave no      *)
(* account id.  Anything else is an error without a status.  The exception *)
(* is a look-alike: the client believes every whole body of the schema,    *)
(* and any server's {"error": ...}, with whatever status it comes.         *)
(***************************************************************************)
InvocationTruthful ==
  \A c \in Callers \ believed : cstage[c] = "done" => TruthTold(asked[c], result[c])

(***************************************************************************)
(* The client implements ClaimApi, as a Handler should; an error without   *)
(* status counts as 500 (NewError), and so does a look-alike, which is no  *)
(* reply of the API.  A call without an account id is one for ClaimApi     *)
(* when it is told so.                                                     *)
(***************************************************************************)
ToldBad(c) == cstage[c] = "done" /\ c \notin believed /\ result[c].kind = "status"

RemotePhase(c) ==
  IF cstage[c] = "idle" \/ ~(Known(asked[c]) \/ ToldBad(c)) THEN "idle"
  ELSE IF cstage[c] = "done" THEN "replied"
  ELSE "serving"

RemoteReply(c) ==
  IF RemotePhase(c) # "replied" THEN Api!NoReply
  ELSE IF c \in believed THEN Api!Failure(500)
  ELSE CASE result[c].kind = "status" -> Api!Failure(result[c].code)
         [] result[c].kind = "error"  -> Api!Failure(500)
         [] OTHER -> [code |-> 200, owner |-> IF asked[c].operation = "GetWalletInfo"
                                              THEN result[c].value.owner ELSE NoAccount]

Remote == INSTANCE ClaimApi WITH
            Requests <- Callers,
            phase    <- [c \in Callers |-> RemotePhase(c)],
            op       <- [c \in Callers |-> known[c].op],
            account  <- [c \in Callers |-> known[c].account],
            gone     <- {},
            reply    <- [c \in Callers |-> RemoteReply(c)]

ClientImplementsApi == Remote!Spec

(***************************************************************************)
(* Every call of the client returns, also one whose server ended, whose    *)
(* connection broke or that was sent again, with no timeout of its own: no *)
(* caller stays in Client.Do for ever.                                     *)
(***************************************************************************)
EveryInvocationReturns ==
  \A c \in Callers : []<>(cstage[c] \notin {"send", "wait", "broken"})
=============================================================================

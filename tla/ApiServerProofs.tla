--------------------------- MODULE ApiServerProofs ---------------------------
(***************************************************************************)
(* Proofs about ApiServer, for every number of requests and accounts and   *)
(* every airdrop: the status of a call tells the truth about the call and  *)
(* about the airdrop, and the counters add up.                             *)
(***************************************************************************)
EXTENDS ApiServer, FiniteSetTheorems, TLAPS

(* The types of what is kept for each request, the counters aside. *)
CallTypes ==
  /\ phase \in [Requests -> {"idle", "serving", "replied"}]
  /\ op \in [Requests -> Api!Operations]
  /\ account \in [Requests -> Accounts \cup {NoAccount}]
  /\ gone \in SUBSET Requests
  /\ reply \in [Requests -> [code : {0, 200, 400, 404, 500},
                             owner : Accounts \cup {NoAccount}]]
  /\ stage \in [Requests -> Stages]
  /\ req \in [Requests -> Calls]
  /\ sent \in [Requests -> Seq(StatusCodes)]

(* The operation the router chooses for a path with parameters. *)
OperationOf(q) == IF q.path = "/wallets" THEN "GetWallets" ELSE "GetWalletInfo"

(* What the code of a reply, or of a status line, says of a call. *)
Says(code, q, left) ==
  /\ code = 404 => q.path = "/wallet/" /\ q.address \notin Airdrop
  /\ code = 200 => WellFormed(q)
  /\ code = 200 /\ q.path = "/wallet/" => q.address \in Airdrop
  /\ code = 400 /\ WellFormed(q) => left

(* The handler was called with the parameters of the request. *)
Called(r) ==
  /\ Decodes(req[r])
  /\ req[r].path # "/"
  /\ req[r].address \in Accounts
  /\ op[r] = OperationOf(req[r])
  /\ account[r] = req[r].address

(* What is known at each stage of a request.                               *)
AtStage(r) ==
  /\ stage[r] \in {"decode", "handle", "encode"} => Routed(req[r])
  /\ stage[r] \in {"idle", "decode", "handle", "encode"} => sent[r] = <<>>
  /\ stage[r] \in {"idle", "decode"} => phase[r] = "idle"
  /\ stage[r] = "handle" => phase[r] = "serving" /\ Called(r)
  /\ stage[r] = "encode" => /\ phase[r] # "serving"
                            /\ CodeOf(r) \in {200, 400, 404, 500}
                            /\ Says(CodeOf(r), req[r], r \in gone)
  /\ phase[r] = "serving" => stage[r] = "handle"

Told(r) ==
  sent[r] # <<>> /\ req[r].path \in Operations =>
    Says(sent[r][1], req[r], r \in gone)

ServerInv == CallTypes /\ \A r \in Requests : AtStage(r) /\ Told(r)
-----------------------------------------------------------------------------
(* A status written alone is a sequence of statuses with that head. *)
LEMMA OneStatus ==
  ASSUME NEW c \in StatusCodes
  PROVE  <<c>> \in Seq(StatusCodes) /\ <<c>>[1] = c /\ <<c>> # <<>>
  OBVIOUS

(* ... and so is the one that a failing body adds to it. *)
LEMMA TwoStatuses ==
  /\ <<200, 500>> \in Seq(StatusCodes)
  /\ <<200, 500>>[1] = 200
  /\ <<200, 500>> # <<>>
<1>1. 200 \in StatusCodes /\ 500 \in StatusCodes
  BY DEF StatusCodes
<1> QED
  BY <1>1

(* validate.Int accepts the counts from 5 to 10000. *)
LEMMA ValidCountInterval ==
  ASSUME NEW c \in Counts
  PROVE  ValidCount(c) <=> c \in AllowedCounts
<1>1. c \in Int
  BY ServerAssumption
<1> QED
  BY <1>1 DEF ValidCount, AllowedCounts

(* What is no number is in no interval. *)
LEMMA MissingIsNoCount == Missing \notin AllowedCounts /\ Missing \notin Counts
<1>1. \A S \in SUBSET Int : Missing \notin S
  BY ServerAssumption, Zenon DEF ServerAssumption
<1>2. AllowedCounts \in SUBSET Int
  BY DEF AllowedCounts
<1>3. Counts \in SUBSET Int
  BY ServerAssumption
<1> QED
  BY <1>1, <1>2, <1>3

(* A request that decodes and names an account is well-formed. *)
LEMMA DecodedIsWellFormed ==
  ASSUME NEW q \in Calls, Routed(q), Decodes(q),
         q.path = "/" \/ q.address \in Accounts
  PROVE  WellFormed(q)
<1>1. q.method = "GET"
  BY DEF Routed
<1>2. q.path = "/wallets" => q.count \in AllowedCounts
  BY ValidCountInterval DEF Decodes
<1> QED
  BY <1>1, <1>2 DEF WellFormed

(* A request that does not decode, or names no account, is not. *)
LEMMA UndecodedIsIllFormed ==
  ASSUME NEW q \in Calls, Routed(q),
         ~Decodes(q) \/ (q.path # "/" /\ q.address = Malformed)
  PROVE  ~WellFormed(q)
<1>1. Malformed \notin Accounts /\ Missing \notin Accounts
  BY ServerAssumption
<1>2. CASE q.path # "/" /\ q.address = Malformed
  BY <1>1, <1>2 DEF WellFormed, Routed, Operations
<1>3. CASE ~Decodes(q)
  <2>1. CASE q.path \in {"/wallet/", "/wallets"} /\ q.address = Missing
    BY <1>1, <2>1 DEF WellFormed
  <2>2. CASE q.path = "/wallets" /\ ~(q.count \in Counts /\ ValidCount(q.count))
    <3>1. q.count \in Counts \cup {Missing}
      BY DEF Calls
    <3>2. q.count \notin AllowedCounts
      BY <2>2, <3>1, ValidCountInterval, MissingIsNoCount
    <3> QED
      BY <2>2, <3>2 DEF WellFormed
  <2> QED
    BY <1>3, <2>1, <2>2 DEF Decodes
<1> QED
  BY <1>2, <1>3
-----------------------------------------------------------------------------
(* What a slot that serves nobody has in place of a request. *)
LEMMA NoCallIsCall == NoCall \in Calls
  BY DEF NoCall, Calls, Paths, Methods

(* A step that is not about request q. *)
Same(q) ==
  /\ stage'[q] = stage[q] /\ req'[q] = req[q] /\ sent'[q] = sent[q]
  /\ phase'[q] = phase[q] /\ op'[q] = op[q] /\ account'[q] = account[q]
  /\ reply'[q] = reply[q] /\ (q \in gone') = (q \in gone)

(* What is known of a request stays known while nothing about it changes.  *)
LEMMA SameKeeps ==
  ASSUME NEW q \in Requests, AtStage(q), Told(q), Same(q)
  PROVE  AtStage(q)' /\ Told(q)'
  BY DEF Same, AtStage, Told, Called, CodeOf

(* What a step of request r has to keep. *)
Keeps(r) ==
  /\ CallTypes'
  /\ \A q \in Requests \ {r} : Same(q)
  /\ AtStage(r)' /\ Told(r)'

(* WriteHeader is the only place where statuses are written. *)
LEMMA WriteEffect ==
  ASSUME CallTypes, NEW r \in Requests,
         NEW statuses \in Seq(StatusCodes),
         WriteHeader(r, statuses)
  PROVE  /\ sent' \in [Requests -> Seq(StatusCodes)]
         /\ sent'[r] = statuses
         /\ \A q \in Requests \ {r} : sent'[q] = sent[q]
  BY DEF CallTypes, WriteHeader

(* Enter moves one request and leaves the stages of the others. *)
LEMMA EnterEffect ==
  ASSUME CallTypes, NEW r \in Requests, NEW s \in Stages, Enter(r, s)
  PROVE  /\ stage' \in [Requests -> Stages]
         /\ stage'[r] = s
         /\ \A q \in Requests \ {r} : stage'[q] = stage[q]
  BY DEF CallTypes, Enter

(* Routing a request, or answering it where no operation is found. *)
LEMMA KeepsServeHTTP ==
  ASSUME ServerInv, NEW r \in Requests, NEW q \in Calls, ServeHTTP(r, q)
  PROVE  Keeps(r)
<1> USE DEF ServerInv
<1>1. /\ stage[r] = "idle" /\ req' = [req EXCEPT ![r] = q]
      /\ UNCHANGED <<phase, op, account, gone, reply>>
  BY DEF ServeHTTP, apiVars
<1>2. /\ req' \in [Requests -> Calls] /\ req'[r] = q
      /\ \A o \in Requests \ {r} : req'[o] = req[o]
  BY <1>1 DEF CallTypes
<1>3. phase[r] = "idle" /\ sent[r] = <<>>
  BY <1>1 DEF AtStage
<1>4. CASE Routed(q)
  <2>1. Enter(r, "decode") /\ UNCHANGED sent
    BY <1>4 DEF ServeHTTP
  <2>2. /\ stage' \in [Requests -> Stages] /\ stage'[r] = "decode"
        /\ \A o \in Requests \ {r} : stage'[o] = stage[o]
    BY <2>1, EnterEffect DEF Stages
  <2>3. CallTypes'
    BY <1>1, <1>2, <2>1, <2>2 DEF CallTypes
  <2>4. \A o \in Requests \ {r} : Same(o)
    BY <1>1, <1>2, <2>1, <2>2 DEF Same
  <2>5. AtStage(r)' /\ Told(r)'
    BY <1>1, <1>2, <1>3, <1>4, <2>1, <2>2 DEF AtStage, Told
  <2> QED
    BY <2>3, <2>4, <2>5 DEF Keeps
<1>5. CASE ~Routed(q)
  <2>1. Enter(r, "done") /\ WriteHeader(r, <<StatusOf(q)>>)
    BY <1>5 DEF ServeHTTP
  <2>2. /\ stage' \in [Requests -> Stages] /\ stage'[r] = "done"
        /\ \A o \in Requests \ {r} : stage'[o] = stage[o]
    BY <2>1, EnterEffect DEF Stages
  <2>3. /\ StatusOf(q) \in {200, 204, 404, 405}
        /\ q.path \in Operations => StatusOf(q) \in {204, 405}
    BY DEF StatusOf, Operations, Calls, Paths
  <2>4. <<StatusOf(q)>> \in Seq(StatusCodes)
    BY <2>3, OneStatus DEF StatusCodes
  <2>5. /\ sent' \in [Requests -> Seq(StatusCodes)]
        /\ sent'[r] = <<StatusOf(q)>>
        /\ \A o \in Requests \ {r} : sent'[o] = sent[o]
    BY <2>1, <2>4, WriteEffect
  <2>6. CallTypes'
    BY <1>1, <1>2, <2>2, <2>5 DEF CallTypes
  <2>7. \A o \in Requests \ {r} : Same(o)
    BY <1>1, <1>2, <2>2, <2>5 DEF Same
  <2>8. AtStage(r)'
    BY <1>1, <1>3, <2>2 DEF AtStage
  <2>9. Told(r)'
    BY <1>2, <2>3, <2>5 DEF Told, Says
  <2> QED
    BY <2>6, <2>7, <2>8, <2>9 DEF Keeps
<1> QED
  BY <1>4, <1>5

(* The wrapper's own 400 goes to calls that are ill-formed. *)
LEMMA KeepsDecodeFails ==
  ASSUME ServerInv, NEW r \in Requests, DecodeFails(r)
  PROVE  Keeps(r)
<1> USE DEF ServerInv
<1>1. /\ stage[r] = "decode" /\ ~Decodes(req[r])
      /\ WriteHeader(r, <<400>>) /\ Enter(r, "record")
      /\ UNCHANGED <<phase, op, account, gone, reply, req>>
  BY DEF DecodeFails, apiVars
<1>2. /\ stage' \in [Requests -> Stages] /\ stage'[r] = "record"
      /\ \A o \in Requests \ {r} : stage'[o] = stage[o]
  BY <1>1, EnterEffect DEF Stages
<1>3. /\ sent' \in [Requests -> Seq(StatusCodes)]
      /\ sent'[r] = <<400>>
      /\ \A o \in Requests \ {r} : sent'[o] = sent[o]
  <2>1. <<400>> \in Seq(StatusCodes)
    BY OneStatus DEF StatusCodes
  <2> QED
    BY <1>1, <2>1, WriteEffect
<1>4. req[r] \in Calls /\ Routed(req[r]) /\ phase[r] = "idle"
  BY <1>1 DEF CallTypes, AtStage
<1>5. ~WellFormed(req[r])
  BY <1>1, <1>4, UndecodedIsIllFormed
<1>6. CallTypes'
  BY <1>1, <1>2, <1>3 DEF CallTypes
<1>7. \A o \in Requests \ {r} : Same(o)
  BY <1>1, <1>2, <1>3 DEF Same
<1>8. AtStage(r)'
  BY <1>1, <1>2, <1>4 DEF AtStage
<1>9. Told(r)'
  BY <1>1, <1>3, <1>5 DEF Told, Says
<1> QED
  BY <1>6, <1>7, <1>8, <1>9 DEF Keeps

(* GetApiInfo has no parameters and always answers 200. *)
LEMMA KeepsGetApiInfo ==
  ASSUME ServerInv, NEW r \in Requests, GetApiInfo(r)
  PROVE  Keeps(r)
<1> USE DEF ServerInv
<1>1. /\ stage[r] = "decode" /\ req[r].path = "/" /\ Enter(r, "encode")
      /\ UNCHANGED <<phase, op, account, gone, reply, req, sent>>
  BY DEF GetApiInfo, apiVars
<1>2. /\ stage' \in [Requests -> Stages] /\ stage'[r] = "encode"
      /\ \A o \in Requests \ {r} : stage'[o] = stage[o]
  BY <1>1, EnterEffect DEF Stages
<1>3. /\ req[r] \in Calls /\ Routed(req[r]) /\ phase[r] = "idle"
      /\ sent[r] = <<>>
  BY <1>1 DEF CallTypes, AtStage
<1>4. WellFormed(req[r])
  BY <1>1, <1>3, DecodedIsWellFormed DEF Decodes
<1>5. CallTypes'
  BY <1>1, <1>2 DEF CallTypes
<1>6. \A o \in Requests \ {r} : Same(o)
  BY <1>1, <1>2 DEF Same
<1>7. AtStage(r)' /\ Told(r)'
  BY <1>1, <1>2, <1>3, <1>4 DEF AtStage, Told, Says, CodeOf
<1> QED
  BY <1>5, <1>6, <1>7 DEF Keeps

(* The handler is called with the decoded parameters, or answers 400. *)
LEMMA KeepsCallHandler ==
  ASSUME ServerInv, NEW r \in Requests, CallHandler(r)
  PROVE  Keeps(r)
<1> USE DEF ServerInv
<1>1. /\ stage[r] = "decode" /\ req[r].path # "/" /\ Decodes(req[r])
      /\ UNCHANGED <<req, sent>>
  BY DEF CallHandler
<1>2. /\ req[r] \in Calls /\ Routed(req[r]) /\ sent[r] = <<>>
      /\ req[r].path \in {"/wallet/", "/wallets"}
  BY <1>1 DEF CallTypes, AtStage, Routed, Operations
<1>3. CASE req[r].address = Malformed
  <2>1. Api!BadCall(r) /\ Enter(r, "encode")
    BY <1>3 DEF CallHandler
  <2>2. /\ stage' \in [Requests -> Stages] /\ stage'[r] = "encode"
        /\ \A o \in Requests \ {r} : stage'[o] = stage[o]
    BY <2>1, EnterEffect DEF Stages
  <2>3. /\ phase' = [phase EXCEPT ![r] = "replied"]
        /\ reply' = [reply EXCEPT ![r] = [code |-> 400, owner |-> NoAccount]]
        /\ UNCHANGED <<op, account, gone>>
    BY <2>1 DEF Api!BadCall, Api!Failure
  <2>4. ~WellFormed(req[r])
    BY <1>1, <1>2, <1>3, UndecodedIsIllFormed
  <2>5. CallTypes'
    BY <1>1, <2>2, <2>3 DEF CallTypes
  <2>6. \A o \in Requests \ {r} : Same(o)
    BY <1>1, <2>2, <2>3 DEF Same, CallTypes
  <2>7. phase'[r] = "replied" /\ reply'[r].code = 400
    BY <2>3 DEF CallTypes
  <2>8. CodeOf(r)' = 400
    BY <1>1, <2>7 DEF CodeOf
  <2>9. AtStage(r)' /\ Told(r)'
    BY <1>1, <1>2, <2>2, <2>4, <2>7, <2>8 DEF AtStage, Told, Says
  <2> QED
    BY <2>5, <2>6, <2>9 DEF Keeps
<1>4. CASE req[r].address # Malformed
  <2>1. /\ Api!Call(r, OperationOf(req[r]), req[r].address)
        /\ Enter(r, "handle")
    BY <1>4 DEF CallHandler, OperationOf
  <2>2. /\ stage' \in [Requests -> Stages] /\ stage'[r] = "handle"
        /\ \A o \in Requests \ {r} : stage'[o] = stage[o]
    BY <2>1, EnterEffect DEF Stages
  <2>3. /\ phase' = [phase EXCEPT ![r] = "serving"]
        /\ op' = [op EXCEPT ![r] = OperationOf(req[r])]
        /\ account' = [account EXCEPT ![r] = req[r].address]
        /\ UNCHANGED <<gone, reply>>
    BY <2>1 DEF Api!Call
  <2>4. req[r].address \in Accounts
    BY <1>1, <1>2, <1>4 DEF Calls, Decodes
  <2>5. OperationOf(req[r]) \in Api!Operations
    BY DEF OperationOf, Api!Operations
  <2>6. CallTypes'
    BY <1>1, <2>2, <2>3, <2>4, <2>5 DEF CallTypes
  <2>7. \A o \in Requests \ {r} : Same(o)
    BY <1>1, <2>2, <2>3 DEF Same, CallTypes
  <2>8. /\ phase'[r] = "serving" /\ op'[r] = OperationOf(req[r])
        /\ account'[r] = req[r].address
    BY <2>3 DEF CallTypes
  <2>9. AtStage(r)' /\ Told(r)'
    BY <1>1, <1>2, <2>2, <2>4, <2>8 DEF AtStage, Told, Called
  <2> QED
    BY <2>6, <2>7, <2>9 DEF Keeps
<1> QED
  BY <1>3, <1>4

(* What the handler may return agrees with the call it was made with. *)
LEMMA KeepsHandlerReturns ==
  ASSUME ServerInv, NEW r \in Requests, HandlerReturns(r)
  PROVE  Keeps(r)
<1> USE DEF ServerInv
<1>1. /\ stage[r] = "handle" /\ Api!Answer(r) /\ Enter(r, "encode")
      /\ UNCHANGED <<req, sent>>
  BY DEF HandlerReturns
<1>2. /\ req[r] \in Calls /\ Routed(req[r]) /\ sent[r] = <<>> /\ Called(r)
  BY <1>1 DEF CallTypes, AtStage
<1>3. /\ stage' \in [Requests -> Stages] /\ stage'[r] = "encode"
      /\ \A o \in Requests \ {r} : stage'[o] = stage[o]
  BY <1>1, EnterEffect DEF Stages
<1>4. /\ phase' = [phase EXCEPT ![r] = "replied"]
      /\ UNCHANGED <<op, account, gone>>
  BY <1>1 DEF Api!Answer
<1>5. PICK rep \in Api!Allowed(op[r], account[r], r \in gone) :
        reply' = [reply EXCEPT ![r] = rep]
  BY <1>1 DEF Api!Answer
<1>6. /\ rep \in [code : {0, 200, 400, 404, 500}, owner : Accounts \cup {NoAccount}]
      /\ rep.code # 0
      /\ rep.code = 404 => op[r] # "GetWallets" /\ account[r] \notin Airdrop
      /\ rep.code = 200 /\ op[r] # "GetWallets" => account[r] \in Airdrop
      /\ rep.code = 400 => r \in gone
  BY <1>2, <1>5, ServerAssumption DEF Api!Allowed, Api!Failure, Called
<1>7. WellFormed(req[r])
  BY <1>2, DecodedIsWellFormed DEF Called
<1>8. req[r].path = "/wallets" \/ req[r].path = "/wallet/"
  BY <1>2 DEF Called, Routed, Operations
<1>9. CallTypes'
  BY <1>1, <1>3, <1>4, <1>5, <1>6 DEF CallTypes
<1>10. \A o \in Requests \ {r} : Same(o)
  BY <1>1, <1>3, <1>4, <1>5 DEF Same, CallTypes
<1>11. phase'[r] = "replied" /\ reply'[r] = rep
  BY <1>4, <1>5 DEF CallTypes
<1>12. CodeOf(r)' = rep.code
  BY <1>1, <1>2, <1>11 DEF CodeOf, Called
<1>13. Says(rep.code, req[r], r \in gone)
  BY <1>2, <1>6, <1>7, <1>8 DEF Says, Called, OperationOf
<1>14. Says(CodeOf(r), req[r], r \in gone)'
  BY <1>1, <1>4, <1>12, <1>13 DEF Says
<1>15. AtStage(r)' /\ Told(r)'
  BY <1>1, <1>2, <1>3, <1>6, <1>11, <1>12, <1>14 DEF AtStage, Told
<1> QED
  BY <1>9, <1>10, <1>15 DEF Keeps

(* Writing the status that the reply says, the body being written or not.  *)
LEMMA KeepsEncode ==
  ASSUME ServerInv, NEW r \in Requests,
         NEW statuses \in Seq(StatusCodes),
         NEW s \in {"record", "count"},
         stage[r] = "encode", statuses[1] = CodeOf(r),
         WriteHeader(r, statuses), Enter(r, s), UNCHANGED <<apiVars, req>>
  PROVE  Keeps(r)
<1> USE DEF ServerInv
<1>1. /\ stage' \in [Requests -> Stages] /\ stage'[r] = s
      /\ \A o \in Requests \ {r} : stage'[o] = stage[o]
  BY EnterEffect DEF Stages
<1>2. /\ sent' \in [Requests -> Seq(StatusCodes)]
      /\ sent'[r] = statuses
      /\ \A o \in Requests \ {r} : sent'[o] = sent[o]
  BY WriteEffect
<1>3. UNCHANGED <<phase, op, account, gone, reply, req>>
  BY DEF apiVars
<1>4. CallTypes'
  BY <1>1, <1>2, <1>3 DEF CallTypes
<1>5. \A o \in Requests \ {r} : Same(o)
  BY <1>1, <1>2, <1>3 DEF Same
<1>6. phase[r] # "serving" /\ Says(CodeOf(r), req[r], r \in gone)
  BY DEF AtStage
<1>7. AtStage(r)'
  BY <1>1, <1>3, <1>6 DEF AtStage
<1>8. Told(r)'
  BY <1>2, <1>3, <1>6 DEF Told, Says
<1> QED
  BY <1>4, <1>5, <1>7, <1>8 DEF Keeps

(* A response is written with its status first, the body failing or not.  *)
LEMMA KeepsEncodeResponse ==
  ASSUME ServerInv, NEW r \in Requests, EncodeResponse(r)
  PROVE  Keeps(r)
<1>1. /\ <<200>> \in Seq(StatusCodes)
      /\ <<200, 500>> \in Seq(StatusCodes)
      /\ <<200>>[1] = 200 /\ <<200, 500>>[1] = 200
  BY OneStatus, TwoStatuses DEF StatusCodes
<1>2. CASE WriteHeader(r, <<200>>) /\ Enter(r, "count")
  BY <1>1, <1>2, KeepsEncode DEF EncodeResponse
<1>3. CASE WriteHeader(r, <<200, 500>>) /\ Enter(r, "record")
  BY <1>1, <1>3, KeepsEncode DEF EncodeResponse
<1> QED
  BY <1>2, <1>3 DEF EncodeResponse

(* An error is written with the status its value carries. *)
LEMMA KeepsEncodeErrorResponse ==
  ASSUME ServerInv, NEW r \in Requests, EncodeErrorResponse(r)
  PROVE  Keeps(r)
<1>1. /\ stage[r] = "encode"
      /\ WriteHeader(r, <<CodeOf(r)>>) /\ UNCHANGED <<apiVars, req>>
      /\ Enter(r, "record") \/ Enter(r, "count")
  BY DEF EncodeErrorResponse
<1>2. CodeOf(r) \in {200, 400, 404, 500}
  BY <1>1 DEF ServerInv, AtStage
<1>3. /\ <<CodeOf(r)>> \in Seq(StatusCodes)
      /\ <<CodeOf(r)>>[1] = CodeOf(r)
  BY <1>2, OneStatus DEF StatusCodes
<1> QED
  BY <1>1, <1>3, KeepsEncode

(* The counters are none of what is kept for a request. *)
LEMMA KeepsCounting ==
  ASSUME ServerInv, NEW r \in Requests, RecordError(r) \/ CountRequest(r)
  PROVE  Keeps(r)
<1> USE DEF ServerInv
<1>1. /\ stage[r] \in {"record", "count"}
      /\ Enter(r, "count") \/ Enter(r, "done")
      /\ UNCHANGED <<phase, op, account, gone, reply, req, sent>>
  BY DEF RecordError, CountRequest, apiVars
<1>2. /\ stage' \in [Requests -> Stages] /\ stage'[r] \in {"count", "done"}
      /\ \A o \in Requests \ {r} : stage'[o] = stage[o]
  BY <1>1, EnterEffect DEF Stages
<1>3. CallTypes'
  BY <1>1, <1>2 DEF CallTypes
<1>4. \A o \in Requests \ {r} : Same(o)
  BY <1>1, <1>2 DEF Same
<1>5. AtStage(r)' /\ Told(r)'
  BY <1>1, <1>2 DEF AtStage, Told
<1> QED
  BY <1>3, <1>4, <1>5 DEF Keeps

(* A client that leaves only allows more answers. *)
LEMMA KeepsLeave ==
  ASSUME ServerInv, NEW r \in Requests, Leave(r)
  PROVE  Keeps(r)
<1> USE DEF ServerInv
<1>1. /\ phase[r] = "serving" /\ gone' = gone \cup {r}
      /\ UNCHANGED <<phase, op, account, reply, stage, req, sent>>
  BY DEF Leave, Api!Leave
<1>2. stage[r] = "handle" /\ sent[r] = <<>>
  BY <1>1 DEF AtStage
<1>3. CallTypes'
  BY <1>1 DEF CallTypes
<1>4. \A o \in Requests \ {r} : Same(o)
  BY <1>1 DEF Same
<1>5. AtStage(r)' /\ Told(r)'
  BY <1>1, <1>2 DEF AtStage, Told, Called
<1> QED
  BY <1>3, <1>4, <1>5 DEF Keeps

(* The connection is free for another request. *)
LEMMA KeepsRelease ==
  ASSUME ServerInv, NEW r \in Requests, Release(r)
  PROVE  Keeps(r)
<1> USE DEF ServerInv
<1>1. /\ stage[r] = "done" /\ Enter(r, "idle")
      /\ req' = [req EXCEPT ![r] = NoCall]
      /\ sent' = [sent EXCEPT ![r] = <<>>]
  BY DEF Release
<1>2. /\ stage' \in [Requests -> Stages] /\ stage'[r] = "idle"
      /\ \A o \in Requests \ {r} : stage'[o] = stage[o]
  BY <1>1, EnterEffect DEF Stages
<1>3. /\ sent' \in [Requests -> Seq(StatusCodes)]
      /\ req' \in [Requests -> Calls]
      /\ sent'[r] = <<>>
      /\ \A o \in Requests \ {r} : sent'[o] = sent[o] /\ req'[o] = req[o]
  BY <1>1, NoCallIsCall DEF CallTypes
<1>4. phase[r] \in {"idle", "replied"}
  BY <1>1 DEF CallTypes, AtStage
<1>5. CASE phase[r] = "replied"
  <2>1. /\ phase' = [phase EXCEPT ![r] = "idle"] /\ gone' = gone \ {r}
        /\ reply' = [reply EXCEPT ![r] = [code |-> 0, owner |-> NoAccount]]
        /\ UNCHANGED <<op, account>>
    BY <1>5 DEF Release, Api!Release, Api!NoReply
  <2>2. CallTypes'
    <3>1. /\ phase' \in [Requests -> {"idle", "serving", "replied"}]
          /\ gone' \in SUBSET Requests
      BY <2>1 DEF CallTypes
    <3>2. reply' \in [Requests -> [code : {0, 200, 400, 404, 500},
                                  owner : Accounts \cup {NoAccount}]]
      BY <2>1 DEF CallTypes
    <3> QED
      BY <1>2, <1>3, <2>1, <3>1, <3>2 DEF CallTypes
  <2>3. \A o \in Requests \ {r} : Same(o)
    BY <1>1, <1>2, <1>3, <2>1 DEF Same, CallTypes
  <2>4. AtStage(r)' /\ Told(r)'
    BY <1>2, <1>3, <2>1 DEF AtStage, Told, CallTypes
  <2> QED
    BY <2>2, <2>3, <2>4 DEF Keeps
<1>6. CASE phase[r] = "idle"
  <2>1. UNCHANGED <<phase, op, account, gone, reply>>
    BY <1>6 DEF Release, apiVars
  <2>2. CallTypes'
    BY <1>1, <1>2, <1>3, <2>1 DEF CallTypes
  <2>3. \A o \in Requests \ {r} : Same(o)
    BY <1>1, <1>2, <1>3, <2>1 DEF Same
  <2>4. AtStage(r)' /\ Told(r)'
    BY <1>2, <1>3, <1>6, <2>1 DEF AtStage, Told
  <2> QED
    BY <2>2, <2>3, <2>4 DEF Keeps
<1> QED
  BY <1>4, <1>5, <1>6
-----------------------------------------------------------------------------
(* No request has been received at first. *)
LEMMA ServerInvInit == Init => ServerInv
<1> SUFFICES ASSUME Init PROVE ServerInv
  OBVIOUS
<1>2. CallTypes
  BY NoCallIsCall DEF Init, CallTypes, Api!NoReply, Api!Operations, Stages
<1>3. \A r \in Requests : AtStage(r) /\ Told(r)
  BY DEF Init, AtStage, Told
<1> QED
  BY <1>2, <1>3 DEF ServerInv

(* Every step keeps what it has to of its request, and nothing else moves. *)
LEMMA ServerInvStep == ServerInv /\ [Next]_vars => ServerInv'
<1> SUFFICES ASSUME ServerInv, [Next]_vars
             PROVE  ServerInv'
  OBVIOUS
<1>1. ASSUME NEW r \in Requests, Keeps(r) PROVE ServerInv'
  <2>1. \A q \in Requests \ {r} : AtStage(q)' /\ Told(q)'
    BY <1>1, SameKeeps DEF Keeps, ServerInv
  <2> QED
    BY <1>1, <2>1 DEF Keeps, ServerInv
<1>2. ASSUME NEW r \in Requests, Serve(r) PROVE Keeps(r)
  BY <1>2, KeepsDecodeFails, KeepsGetApiInfo, KeepsCallHandler,
     KeepsHandlerReturns, KeepsEncodeResponse, KeepsEncodeErrorResponse,
     KeepsCounting DEF Serve
<1>3. CASE UNCHANGED vars
  BY <1>3 DEF vars, apiVars, ServerInv, CallTypes, AtStage, Told, Called, CodeOf
<1>4. CASE Next
  BY <1>1, <1>2, <1>4, KeepsServeHTTP, KeepsLeave, KeepsRelease DEF Next
<1> QED
  BY <1>3, <1>4

(***************************************************************************)
(* Whatever calls come in at once and whoever leaves: the status line of a *)
(* call agrees with the call's own parameters and with the airdrop.        *)
(***************************************************************************)
THEOREM StatusTells == Spec => []StatusTruthful
<1>1. ServerInv => StatusTruthful
  BY DEF ServerInv, Told, Says, StatusTruthful
<1> QED
  BY <1>1, ServerInvInit, ServerInvStep, PTL DEF Spec
-----------------------------------------------------------------------------
(***************************************************************************)
(* The counters.  Every number is bounded by one before it plus the calls  *)
(* that are on their way from the one to the other.                        *)
(***************************************************************************)
Among(S) == { r \in Requests : stage[r] \in S }

NumberOf(S) == Cardinality(Among(S))

Busy == Stages \ {"idle", "done"}

CountInv ==
  /\ calls \in 0..MaxCalls /\ requests \in Nat /\ errors \in Nat /\ failures \in Nat
  /\ requests + NumberOf(Busy) <= calls
  /\ errors <= requests + NumberOf({"count"})
  /\ failures <= requests + NumberOf({"record", "count"})
  /\ failures <= errors + NumberOf({"record"})

(* The number of requests at some stages is a number. *)
LEMMA NumberType ==
  ASSUME NEW S
  PROVE  IsFiniteSet(Among(S)) /\ NumberOf(S) \in Nat
<1>1. Among(S) \in SUBSET Requests
  BY DEF Among
<1>2. IsFiniteSet(Among(S))
  BY <1>1, FS_Subset, ServerAssumption
<1> QED
  BY <1>2, FS_CardinalityType DEF NumberOf

(* At fewer stages there are not more requests. *)
LEMMA NumberMonotone ==
  ASSUME NEW S, NEW T \in SUBSET S
  PROVE  NumberOf(T) <= NumberOf(S)
<1>1. Among(T) \in SUBSET Among(S)
  BY DEF Among
<1> QED
  BY <1>1, NumberType, FS_Subset DEF NumberOf

(* A request that changes its stage is one more, one less, or the same.    *)
LEMMA EnterNumber ==
  ASSUME CallTypes, NEW r \in Requests, NEW s \in Stages, Enter(r, s), NEW S
  PROVE  /\ NumberOf(S)' \in Nat
         /\ s \in S /\ stage[r] \notin S => NumberOf(S)' = NumberOf(S) + 1
         /\ s \notin S /\ stage[r] \in S => NumberOf(S)' = NumberOf(S) - 1
         /\ (s \in S <=> stage[r] \in S) => NumberOf(S)' = NumberOf(S)
<1>1. stage'[r] = s /\ \A o \in Requests \ {r} : stage'[o] = stage[o]
  BY EnterEffect
<1>2. IsFiniteSet(Among(S)) /\ NumberOf(S) \in Nat
  BY NumberType
<1>3. CASE s \in S
  <2>1. Among(S)' = Among(S) \cup {r}
    BY <1>1, <1>3 DEF Among
  <2>2. Cardinality(Among(S) \cup {r}) =
          IF r \in Among(S) THEN Cardinality(Among(S)) ELSE Cardinality(Among(S)) + 1
    BY <1>2, FS_AddElement
  <2>3. r \in Among(S) <=> stage[r] \in S
    BY DEF Among
  <2>4. NumberOf(S)' = IF stage[r] \in S THEN NumberOf(S) ELSE NumberOf(S) + 1
    BY <2>1, <2>2, <2>3 DEF NumberOf
  <2> QED
    BY <1>2, <1>3, <2>4
<1>4. CASE s \notin S
  <2>1. Among(S)' = Among(S) \ {r}
    BY <1>1, <1>4 DEF Among
  <2>2. /\ IsFiniteSet(Among(S) \ {r})
        /\ Cardinality(Among(S) \ {r}) =
             IF r \in Among(S) THEN Cardinality(Among(S)) - 1 ELSE Cardinality(Among(S))
    BY <1>2, FS_RemoveElement
  <2>3. r \in Among(S) <=> stage[r] \in S
    BY DEF Among
  <2>4. NumberOf(S)' = IF stage[r] \in S THEN NumberOf(S) - 1 ELSE NumberOf(S)
    BY <2>1, <2>2, <2>3 DEF NumberOf
  <2>5. NumberOf(S)' \in Nat
    BY <2>1, <2>2, FS_CardinalityType DEF NumberOf
  <2> QED
    BY <1>4, <2>4, <2>5
<1> QED
  BY <1>3, <1>4

(* The numbers in the invariant, before and after a request moves.         *)
Moves(r, s) ==
  /\ \A S \in { Busy, {"count"}, {"record", "count"}, {"record"} } :
       /\ NumberOf(S) \in Nat
       /\ NumberOf(S)' \in Nat
       /\ s \in S /\ stage[r] \notin S => NumberOf(S)' = NumberOf(S) + 1
       /\ s \notin S /\ stage[r] \in S => NumberOf(S)' = NumberOf(S) - 1
       /\ (s \in S <=> stage[r] \in S) => NumberOf(S)' = NumberOf(S)

(* Enter is such a move. *)
LEMMA EnterMoves ==
  ASSUME CallTypes, NEW r \in Requests, NEW s \in Stages, Enter(r, s)
  PROVE  Moves(r, s)
  BY NumberType, EnterNumber DEF Moves

(* A step between two stages at which nothing is counted. *)
LEMMA CountsMove ==
  ASSUME ServerInv, CountInv, NEW r \in Requests, NEW s \in {"handle", "encode"},
         stage[r] \in {"decode", "handle"}, Enter(r, s), UNCHANGED countVars
  PROVE  CountInv'
<1>1. Moves(r, s)
  BY EnterMoves DEF ServerInv, Stages
<1> QED
  BY <1>1 DEF Moves, CountInv, countVars, Busy, Stages
-----------------------------------------------------------------------------
(* A call that is answered on the spot never fails with 5xx. *)
LEMMA CountsServeHTTP ==
  ASSUME ServerInv, CountInv, NEW r \in Requests, NEW q \in Calls, ServeHTTP(r, q)
  PROVE  CountInv'
<1>1. /\ stage[r] = "idle" /\ calls < MaxCalls /\ calls' = calls + 1
      /\ UNCHANGED <<requests, errors>>
  BY DEF ServeHTTP
<1>2. CASE Routed(q)
  <2>1. Enter(r, "decode") /\ failures' = failures
    BY <1>2 DEF ServeHTTP
  <2>2. Moves(r, "decode")
    BY <2>1, EnterMoves DEF ServerInv, Stages
  <2> QED
    BY <1>1, <2>1, <2>2, ServerAssumption DEF Moves, CountInv, Busy, Stages
<1>3. CASE ~Routed(q)
  <2>1. Enter(r, "done") /\ WriteHeader(r, <<StatusOf(q)>>)
    BY <1>3 DEF ServeHTTP
  <2>2. StatusOf(q) \in {200, 204, 404, 405}
    BY DEF StatusOf, Operations, Calls, Paths
  <2>3. failures' = failures
    <3>1. ~Failing(<<StatusOf(q)>>)
      BY <2>2 DEF Failing
    <3> QED
      BY <2>1, <3>1 DEF WriteHeader, CountInv
  <2>4. Moves(r, "done")
    BY <2>1, EnterMoves DEF ServerInv, Stages
  <2> QED
    BY <1>1, <2>3, <2>4, ServerAssumption DEF Moves, CountInv, Busy, Stages
<1> QED
  BY <1>2, <1>3

(* From the last write to the deferred calls: a 5xx goes by recordError.   *)
LEMMA CountsWrite ==
  ASSUME ServerInv, CountInv, NEW r \in Requests, NEW statuses, NEW s \in {"record", "count"},
         stage[r] \in {"decode", "encode"}, Failing(statuses) => s = "record",
         WriteHeader(r, statuses), Enter(r, s), UNCHANGED <<calls, requests, errors>>
  PROVE  CountInv'
<1>1. Moves(r, s)
  BY EnterMoves DEF ServerInv, Stages
<1>2. /\ failures' \in Nat
      /\ failures' = failures \/ (failures' = failures + 1 /\ s = "record")
  BY DEF WriteHeader, CountInv
<1> QED
  BY <1>1, <1>2 DEF Moves, CountInv, Busy, Stages

(* Every step of the goroutine of a request. *)
LEMMA CountsServe ==
  ASSUME ServerInv, CountInv, NEW r \in Requests, Serve(r)
  PROVE  CountInv'
<1>1. CASE DecodeFails(r)
  BY <1>1, CountsWrite DEF DecodeFails
<1>2. CASE GetApiInfo(r)
  BY <1>2, CountsMove DEF GetApiInfo
<1>3. CASE CallHandler(r)
  BY <1>3, CountsMove DEF CallHandler
<1>4. CASE HandlerReturns(r)
  BY <1>4, CountsMove DEF HandlerReturns
<1>5. CASE EncodeResponse(r)
  <2>1. ~Failing(<<200>>)
    BY DEF Failing
  <2>2. CASE WriteHeader(r, <<200>>) /\ Enter(r, "count")
    BY <1>5, <2>1, <2>2, CountsWrite DEF EncodeResponse
  <2>3. CASE WriteHeader(r, <<200, 500>>) /\ Enter(r, "record")
    BY <1>5, <2>3, CountsWrite DEF EncodeResponse
  <2> QED
    BY <1>5, <2>2, <2>3 DEF EncodeResponse
<1>6. CASE EncodeErrorResponse(r)
  <2>1. ~ServerError(CodeOf(r)) => ~Failing(<<CodeOf(r)>>)
    BY DEF ServerError, Failing
  <2>2. CASE Enter(r, "record")
    BY <1>6, <2>2, CountsWrite DEF EncodeErrorResponse
  <2>3. CASE ~ServerError(CodeOf(r)) /\ Enter(r, "count")
    BY <1>6, <2>1, <2>3, CountsWrite DEF EncodeErrorResponse
  <2> QED
    BY <1>6, <2>2, <2>3 DEF EncodeErrorResponse
<1>7. CASE RecordError(r)
  <2>1. Moves(r, "count")
    BY <1>7, EnterMoves DEF RecordError, ServerInv, Stages
  <2> QED
    BY <1>7, <2>1 DEF RecordError, Moves, CountInv, Busy, Stages
<1>8. CASE CountRequest(r)
  <2>1. Moves(r, "done")
    BY <1>8, EnterMoves DEF CountRequest, ServerInv, Stages
  <2> QED
    BY <1>8, <2>1 DEF CountRequest, Moves, CountInv, Busy, Stages
<1> QED
  BY <1>1, <1>2, <1>3, <1>4, <1>5, <1>6, <1>7, <1>8 DEF Serve

(* A slot that becomes free had nothing left to be counted. *)
LEMMA CountsRelease ==
  ASSUME ServerInv, CountInv, NEW r \in Requests, Release(r)
  PROVE  CountInv'
<1>1. stage[r] = "done" /\ Enter(r, "idle") /\ UNCHANGED countVars
  BY DEF Release
<1>2. Moves(r, "idle")
  BY <1>1, EnterMoves DEF ServerInv, Stages
<1> QED
  BY <1>1, <1>2 DEF Moves, CountInv, countVars, Busy, Stages

(* What changes neither stages nor counters. *)
LEMMA CountsStay ==
  ASSUME CountInv, UNCHANGED <<stage, countVars>>
  PROVE  CountInv'
  BY DEF CountInv, countVars, NumberOf, Among

(* No call has come in at first. *)
LEMMA CountInvInit == Init => CountInv
<1> SUFFICES ASSUME Init PROVE CountInv
  OBVIOUS
<1>1. ASSUME NEW S, "idle" \notin S PROVE NumberOf(S) = 0
  <2>1. Among(S) = {}
    BY <1>1 DEF Init, Among
  <2> QED
    BY <2>1, FS_EmptySet DEF NumberOf
<1>2. /\ NumberOf(Busy) = 0 /\ NumberOf({"count"}) = 0
      /\ NumberOf({"record", "count"}) = 0 /\ NumberOf({"record"}) = 0
  BY <1>1 DEF Busy
<1> QED
  BY <1>2, ServerAssumption DEF Init, CountInv

(* The counters keep their distances in every step. *)
LEMMA CountInvStep == ServerInv /\ CountInv /\ [Next]_vars => CountInv'
<1> SUFFICES ASSUME ServerInv, CountInv, [Next]_vars
             PROVE  CountInv'
  OBVIOUS
<1>1. CASE UNCHANGED vars
  BY <1>1, CountsStay DEF vars
<1>2. CASE \E r \in Requests : Leave(r)
  BY <1>2, CountsStay DEF Leave
<1>3. CASE Next
  BY <1>2, <1>3, CountsServeHTTP, CountsServe, CountsRelease DEF Next
<1> QED
  BY <1>1, <1>3

(* Both invariants together. *)
LEMMA ServerInvariant == Spec => [](ServerInv /\ CountInv)
  BY ServerInvInit, ServerInvStep, CountInvInit, CountInvStep, PTL DEF Spec

(***************************************************************************)
(* For every number of calls in every order: each 5xx is recorded as an    *)
(* error once, and no call is recorded twice.                              *)
(***************************************************************************)
THEOREM CountersAddUp == Spec => []MetricsAddUp
<1>1. ASSUME NEW s PROVE At(s) = NumberOf({s})
  <2>1. { r \in Requests : stage[r] = s } = { r \in Requests : stage[r] \in {s} }
    OBVIOUS
  <2> QED
    BY <2>1, Zenon DEF At, NumberOf, Among
<1>2. At("record") = NumberOf({"record"}) /\ At("count") = NumberOf({"count"})
  BY <1>1
<1>3. CountInv => MetricsAddUp
  BY <1>2 DEF CountInv, MetricsAddUp
<1> QED
  BY <1>3, ServerInvariant, PTL

(* Every variable of the server keeps its type; no counter ever exceeds    *)
(* the number of calls.                                                    *)
THEOREM TypeCorrect == Spec => []TypeOK
<1>1. ASSUME ServerInv, CountInv PROVE TypeOK
  <2>1. /\ NumberOf(Busy) \in Nat /\ NumberOf({"count"}) \in Nat
        /\ NumberOf({"record", "count"}) \in Nat
    BY NumberType
  <2>2. /\ NumberOf({"count"}) <= NumberOf(Busy)
        /\ NumberOf({"record", "count"}) <= NumberOf(Busy)
    BY NumberMonotone DEF Busy, Stages
  <2>3. /\ calls \in 0..MaxCalls /\ requests \in 0..MaxCalls
        /\ errors \in 0..MaxCalls /\ failures \in 0..MaxCalls
    BY <1>1, <2>1, <2>2, ServerAssumption DEF CountInv
  <2> QED
    BY <1>1, <2>3 DEF ServerInv, CallTypes, TypeOK
<1> QED
  BY <1>1, ServerInvariant, PTL
=============================================================================

-------------------------- MODULE ClaimServiceProofs --------------------------
(***************************************************************************)
(* Proofs about ClaimService, for every number of requests and accounts,   *)
(* every airdrop and every limit of the queue: no request is lost or       *)
(* answered twice, the prover never blocks, and caches and replies tell    *)
(* the truth about the airdrop.                                            *)
(***************************************************************************)
EXTENDS ClaimService, Integers, TLAPS
-----------------------------------------------------------------------------
(***************************************************************************)
(* Sequences used as queues: what sending, moving a message from one to    *)
(* the next, and taking one do to the sequences and to the sets of their   *)
(* elements.                                                               *)
(***************************************************************************)
(* No element occurs twice. *)
Distinct(s) == \A i, j \in 1..Len(s) : s[i] = s[j] => i = j

(* The first element of a non-empty sequence, put at the end of another,   *)
(* joins the two as before: a message moved from the channel to the slice. *)
LEMMA MoveHead ==
  ASSUME NEW S, NEW s \in Seq(S), NEW t \in Seq(S), t # <<>>
  PROVE  /\ Append(s, Head(t)) \in Seq(S)
         /\ Tail(t) \in Seq(S)
         /\ Append(s, Head(t)) \o Tail(t) = s \o t
         /\ Len(Append(s, Head(t))) = Len(s) + 1
         /\ Append(s, Head(t)) # <<>>
         /\ Len(Tail(t)) = Len(t) - 1
         /\ Len(t) \in Nat \ {0}
         /\ Len(s) \in Nat
  OBVIOUS

(* Appending to the second of two sequences appends to both. *)
LEMMA AppendRight ==
  ASSUME NEW S, NEW s \in Seq(S), NEW t \in Seq(S), NEW e \in S
  PROVE  /\ s \o Append(t, e) = Append(s \o t, e)
         /\ Len(Append(t, e)) = Len(t) + 1
         /\ Len(s \o t) = Len(s) + Len(t)
  OBVIOUS

(* The tail of the first of two sequences is the tail of both. *)
LEMMA TailLeft ==
  ASSUME NEW S, NEW s \in Seq(S), NEW t \in Seq(S), s # <<>>
  PROVE  /\ Tail(s) \in Seq(S)
         /\ Tail(s) \o t = Tail(s \o t)
         /\ Len(Tail(s)) = Len(s) - 1
         /\ Len(s) \in Nat \ {0}
  OBVIOUS

(* A sequence of no length is empty. *)
LEMMA NoElements ==
  ASSUME NEW S, NEW s \in Seq(S), Len(s) = 0
  PROVE  s = <<>>
  OBVIOUS

(* A sequence of one element has no tail. *)
LEMMA TailOfOne ==
  ASSUME NEW S, NEW s \in Seq(S), Len(s) = 1
  PROVE  Tail(s) = <<>>
<1>1. Tail(s) \in Seq(S) /\ Len(Tail(s)) = 0
  OBVIOUS
<1> QED
  BY <1>1, NoElements

(* Two sequences joined hold what the two hold. *)
LEMMA SetOfJoined ==
  ASSUME NEW S, NEW s \in Seq(S), NEW t \in Seq(S)
  PROVE  ToSet(s \o t) = ToSet(s) \cup ToSet(t)
<1>1. ASSUME NEW e \in ToSet(s \o t) PROVE e \in ToSet(s) \cup ToSet(t)
  <2>1. PICK i \in 1..Len(s \o t) : e = (s \o t)[i]
    BY DEF ToSet
  <2>2. CASE i <= Len(s)
    BY <2>1, <2>2 DEF ToSet
  <2>3. CASE i > Len(s)
    <3>1. i - Len(s) \in 1..Len(t) /\ e = t[i - Len(s)]
      BY <2>1, <2>3
    <3> QED
      BY <3>1 DEF ToSet
  <2> QED
    BY <2>1, <2>2, <2>3
<1>2. ASSUME NEW e \in ToSet(s) PROVE e \in ToSet(s \o t)
  <2>1. PICK i \in 1..Len(s) : e = s[i]
    BY DEF ToSet
  <2>2. i \in 1..Len(s \o t) /\ e = (s \o t)[i]
    BY <2>1
  <2> QED
    BY <2>2 DEF ToSet
<1>3. ASSUME NEW e \in ToSet(t) PROVE e \in ToSet(s \o t)
  <2>1. PICK i \in 1..Len(t) : e = t[i]
    BY DEF ToSet
  <2>2. i + Len(s) \in 1..Len(s \o t) /\ e = (s \o t)[i + Len(s)]
    BY <2>1
  <2> QED
    BY <2>2 DEF ToSet
<1> QED
  BY <1>1, <1>2, <1>3

(* What is put at the end of a sequence is added to its elements, and      *)
(* leaves them distinct if it was not among them.                          *)
LEMMA SetOfAppended ==
  ASSUME NEW S, NEW s \in Seq(S), NEW e \in S
  PROVE  /\ ToSet(Append(s, e)) = ToSet(s) \cup {e}
         /\ Distinct(s) /\ e \notin ToSet(s) => Distinct(Append(s, e))
<1>1. /\ Len(Append(s, e)) = Len(s) + 1
      /\ \A i \in 1..Len(s) : Append(s, e)[i] = s[i]
      /\ Append(s, e)[Len(s) + 1] = e
      /\ Len(s) \in Nat
  OBVIOUS
<1>2. ToSet(Append(s, e)) = ToSet(s) \cup {e}
  <2>1. \A i \in 1..Len(s) + 1 : i \in 1..Len(s) \/ i = Len(s) + 1
    BY <1>1
  <2>2. \A i \in 1..Len(s) : i \in 1..Len(s) + 1
    BY <1>1
  <2>3. Len(s) + 1 \in 1..Len(s) + 1
    BY <1>1
  <2>4. DOMAIN s = 1..Len(s) /\ DOMAIN Append(s, e) = 1..Len(s) + 1
    BY <1>1
  <2> QED
    BY <1>1, <2>1, <2>2, <2>3, <2>4, Zenon DEF ToSet
<1>3. ASSUME Distinct(s), e \notin ToSet(s) PROVE Distinct(Append(s, e))
  <2>1. \A i \in 1..Len(s) : s[i] # e
    BY <1>3 DEF ToSet
  <2> QED
    BY <1>1, <1>3, <2>1 DEF Distinct
<1> QED
  BY <1>2, <1>3

(* Taking the head of a sequence of distinct elements removes it.          *)
LEMMA SetOfTail ==
  ASSUME NEW S, NEW s \in Seq(S), s # <<>>, Distinct(s)
  PROVE  /\ Head(s) \in ToSet(s)
         /\ ToSet(Tail(s)) = ToSet(s) \ {Head(s)}
         /\ Distinct(Tail(s))
<1>1. /\ Len(s) \in Nat \ {0}
      /\ Len(Tail(s)) = Len(s) - 1
      /\ \A i \in 1..Len(s) - 1 : Tail(s)[i] = s[i + 1]
      /\ Head(s) = s[1]
  OBVIOUS
<1>2. Head(s) \in ToSet(s)
  BY <1>1 DEF ToSet
<1>3. ASSUME NEW e \in ToSet(Tail(s)) PROVE e \in ToSet(s) \ {Head(s)}
  <2>1. PICK i \in 1..Len(s) - 1 : e = s[i + 1]
    BY <1>1 DEF ToSet
  <2>2. i + 1 \in 1..Len(s) /\ 1 \in 1..Len(s) /\ i + 1 # 1
    BY <1>1
  <2>3. e # s[1]
    BY <2>1, <2>2 DEF Distinct
  <2> QED
    BY <1>1, <2>1, <2>2, <2>3 DEF ToSet
<1>4. ASSUME NEW e \in ToSet(s) \ {Head(s)} PROVE e \in ToSet(Tail(s))
  <2>1. PICK i \in 1..Len(s) : e = s[i]
    BY DEF ToSet
  <2>2. i # 1
    BY <1>1, <2>1
  <2>3. i - 1 \in 1..Len(Tail(s)) /\ Tail(s)[i - 1] = e
    BY <1>1, <2>1, <2>2
  <2>4. DOMAIN Tail(s) = 1..Len(Tail(s))
    BY <1>1
  <2> QED
    BY <2>3, <2>4, Zenon DEF ToSet
<1>5. Distinct(Tail(s))
  <2> SUFFICES ASSUME NEW i \in 1..Len(Tail(s)), NEW j \in 1..Len(Tail(s)),
                      Tail(s)[i] = Tail(s)[j]
               PROVE  i = j
    BY DEF Distinct
  <2>1. i + 1 \in 1..Len(s) /\ j + 1 \in 1..Len(s)
    BY <1>1
  <2>2. s[i + 1] = s[j + 1]
    BY <1>1
  <2>3. i + 1 = j + 1
    BY <2>1, <2>2 DEF Distinct
  <2> QED
    BY <1>1, <2>3
<1> QED
  BY <1>2, <1>3, <1>4, <1>5
-----------------------------------------------------------------------------

(* The queue as one sequence, see ElasticQueueProofs. *)
Pipe == msgs \o input

(* The message has left the queue and the prover, or never got there. *)
Unsent == {"idle", "lookupProof", "lookupNotFound", "send"}

-----------------------------------------------------------------------------
(***************************************************************************)
(* Where requests are.  Each is at most once in the queue or with the      *)
(* prover, its response channel is empty until the prover has answered,    *)
(* and its handler waits for the response or has given up.                 *)
(***************************************************************************)
AtMostOnce ==
  /\ Distinct(Pipe)
  /\ prover \notin Queue!InFlight

Place(r) ==
  /\ Owed(r) => pc[r] \in {"await", "done"} /\ responseCh[r] = <<>>
  /\ pc[r] \in Unsent => responseCh[r] = <<>>
  /\ pc[r] = "await" => Owed(r) \/ responseCh[r] # <<>> \/ sel = "stopped"
  /\ Len(responseCh[r]) \in {0, 1}

PlacesInv == TypeOK /\ AtMostOnce /\ \A r \in Requests : Place(r)

-----------------------------------------------------------------------------
(* What the steps of the queue do to the set of its messages.              *)
LEMMA InFlightIsSet ==
  /\ Queue!InFlight = ToSet(msgs) \cup ToSet(input)
  /\ Queue!InFlight' = ToSet(msgs') \cup ToSet(input')
<1>1. \A s : Queue!ToSet(s) = ToSet(s)
  BY Zenon DEF Queue!ToSet, ToSet
<1> QED
  BY <1>1, Zenon DEF Queue!InFlight

(* The requests in flight are those of the pipe: the ring, then the input. *)
LEMMA InFlightIsPipe ==
  ASSUME Queue!TypeOK
  PROVE  Queue!InFlight = ToSet(Pipe) /\ Pipe \in Seq(Requests)
<1>1. msgs \in Seq(Requests) /\ input \in Seq(Requests)
  BY DEF Queue!TypeOK
<1>2. ToSet(msgs \o input) = ToSet(msgs) \cup ToSet(input)
  BY <1>1, SetOfJoined
<1> QED
  BY <1>1, <1>2, InFlightIsSet DEF Pipe

(* The same after a step. *)
LEMMA InFlightThen ==
  ASSUME msgs' \in Seq(Requests), input' \in Seq(Requests)
  PROVE  Queue!InFlight' = ToSet(Pipe')
<1>1. ToSet(msgs' \o input') = ToSet(msgs') \cup ToSet(input')
  BY SetOfJoined
<1> QED
  BY <1>1, InFlightIsSet DEF Pipe

(* A send puts one request at the end of the pipe. *)
LEMMA SendEffect ==
  ASSUME Queue!TypeOK, NEW r \in Requests, Queue!Send(r)
  PROVE  /\ Queue!TypeOK'
         /\ Queue!InFlight' = Queue!InFlight \cup {r}
         /\ sel' = sel
         /\ Distinct(Pipe) /\ r \notin Queue!InFlight => Distinct(Pipe')
<1> USE DEF Queue!TypeOK, Queue!Send
<1>1. input' \in Seq(Requests) /\ msgs' \in Seq(Requests)
  BY AppendRight
<1>2. Pipe' = Append(Pipe, r)
  BY AppendRight DEF Pipe
<1>3. Queue!InFlight' = ToSet(Pipe')
  BY <1>1, InFlightThen
<1> QED
  BY <1>1, <1>2, <1>3, InFlightIsPipe, SetOfAppended

(* Taking a request from the input moves it within the pipe. *)
LEMMA ReceiveEffect ==
  ASSUME Queue!TypeOK, Queue!FirstReceive \/ Queue!SecondReceive
  PROVE  /\ Queue!TypeOK'
         /\ Queue!InFlight' = Queue!InFlight
         /\ Pipe' = Pipe
         /\ sel # "stopped"
<1> USE DEF Queue!TypeOK, Queue!FirstReceive, Queue!SecondReceive
<1>1. /\ msgs' = Append(msgs, Head(input)) /\ input' = Tail(input)
      /\ input # <<>> /\ sel' \in Queue!Positions /\ ctxDone' = ctxDone
      /\ sel # "stopped"
  BY DEF Queue!SelectFor, Queue!Positions
<1>2. msgs' \in Seq(Requests) /\ input' \in Seq(Requests) /\ Pipe' = Pipe
  BY <1>1, MoveHead DEF Pipe
<1>3. Queue!InFlight' = ToSet(Pipe')
  BY <1>2, InFlightThen
<1> QED
  BY <1>1, <1>2, <1>3, InFlightIsPipe

(* A delivery takes the first request of the pipe out of it. *)
LEMMA DeliverEffect ==
  ASSUME Queue!TypeOK, Distinct(Pipe), Queue!Deliver
  PROVE  /\ Queue!TypeOK'
         /\ Head(msgs) \in Queue!InFlight
         /\ Head(msgs) \in Requests
         /\ Queue!InFlight' = Queue!InFlight \ {Head(msgs)}
         /\ Distinct(Pipe')
         /\ sel # "stopped"
<1> USE DEF Queue!TypeOK, Queue!Deliver
<1>1. /\ msgs' = Tail(msgs) /\ input' = input /\ msgs # <<>>
      /\ sel # "stopped"
      /\ sel' \in Queue!Positions /\ ctxDone' = ctxDone
  BY DEF Queue!SelectFor, Queue!Positions
<1>2. /\ msgs' \in Seq(Requests) /\ input' \in Seq(Requests)
      /\ Pipe' = Tail(Pipe)
  BY <1>1, TailLeft DEF Pipe
<1>3. Pipe # <<>> /\ Head(Pipe) = Head(msgs) /\ Head(msgs) \in Requests
  BY <1>1 DEF Pipe
<1>4. Queue!InFlight' = ToSet(Pipe')
  BY <1>1, <1>2, InFlightThen
<1> QED
  BY <1>1, <1>2, <1>3, <1>4, InFlightIsPipe, SetOfTail

(* A stop drops the slice: what is left is part of what there was. *)
LEMMA StopEffect ==
  ASSUME Queue!TypeOK, Distinct(Pipe), Queue!Stop
  PROVE  /\ Queue!TypeOK'
         /\ Queue!InFlight' \subseteq Queue!InFlight
         /\ Distinct(Pipe')
         /\ sel' = "stopped"
<1>1. /\ msgs' = <<>> /\ input' = input /\ sel' = "stopped"
      /\ ctxDone' = ctxDone
  BY DEF Queue!Stop
<1>2. /\ msgs \in Seq(Requests) /\ input \in Seq(Requests)
      /\ ctxDone \in BOOLEAN /\ <<>> \in Seq(Requests)
  BY DEF Queue!TypeOK
<1>3. Queue!TypeOK'
  BY <1>1, <1>2 DEF Queue!TypeOK, Queue!Positions
<1>4. Queue!InFlight' \subseteq Queue!InFlight
  <2>1. ToSet(<<>>) = {}
    BY DEF ToSet
  <2> QED
    BY <1>1, <2>1, InFlightIsSet
<1>5. Distinct(Pipe')
  <2>1. Pipe' = input
    BY <1>1, <1>2 DEF Pipe
  <2>2. ASSUME NEW i \in 1..Len(input), NEW j \in 1..Len(input),
               input[i] = input[j]
        PROVE  i = j
    <3>1. /\ i + Len(msgs) \in 1..Len(Pipe) /\ Pipe[i + Len(msgs)] = input[i]
          /\ j + Len(msgs) \in 1..Len(Pipe) /\ Pipe[j + Len(msgs)] = input[j]
          /\ Len(msgs) \in Nat
      BY <1>2 DEF Pipe
    <3>2. i + Len(msgs) = j + Len(msgs)
      BY <2>2, <3>1 DEF Distinct
    <3> QED
      BY <3>1, <3>2
  <2> QED
    BY <2>1, <2>2 DEF Distinct
<1> QED
  BY <1>1, <1>3, <1>4, <1>5

(* Steps that leave the queue alone. *)
LEMMA QueueUnchanged ==
  ASSUME Queue!TypeOK, UNCHANGED queueVars
  PROVE  /\ Queue!TypeOK'
         /\ Queue!InFlight' = Queue!InFlight
         /\ Pipe' = Pipe
         /\ sel' = sel
  BY DEF queueVars, Queue!TypeOK, Queue!InFlight, Pipe

(* A response that is received was in the channel, and leaves it empty. *)
LEMMA ReceiveResponse ==
  ASSUME TypeOK, NEW r \in Requests, Receive(r)
  PROVE  /\ Response(r) \in Responses
         /\ responseCh' \in [Requests -> Seq(Responses)]
         /\ pc[r] = "await"
         /\ Len(responseCh[r]) = 1 => responseCh'[r] = <<>>
<1>1. responseCh[r] \in Seq(Responses) /\ responseCh[r] # <<>>
  BY DEF TypeOK, Receive
<1>2. /\ Head(responseCh[r]) \in Responses
      /\ Tail(responseCh[r]) \in Seq(Responses)
  BY <1>1
<1>3. Len(responseCh[r]) = 1 => Tail(responseCh[r]) = <<>>
  BY <1>1, TailOfOne
<1>4. responseCh' = [responseCh EXCEPT ![r] = Tail(responseCh[r])]
  BY DEF Receive
<1>5. responseCh \in [Requests -> Seq(Responses)]
  BY DEF TypeOK
<1>6. pc[r] = "await"
  BY DEF Receive, Selecting
<1> QED
  BY <1>2, <1>3, <1>4, <1>5, <1>6 DEF Response

(* What the prover can answer is a response. *)
LEMMA OutcomesAreResponses ==
  /\ \A c : \A a \in Accounts \cup {NoAccount} : Prove(a, c) \subseteq Responses
  /\ \A c : EnumerateAccounts(c) \subseteq Responses
<1>1. /\ Respond("other", NoAccount) \in Responses
      /\ Respond("key is not found", NoAccount) \in Responses
      /\ Respond("none", NoAccount) \in Responses
      /\ \A a \in Accounts : Respond("none", a) \in Responses
  BY DEF Respond, Responses, Errors
<1>2. Airdrop \subseteq Accounts
  BY ServiceAssumption
<1> QED
  BY <1>1, <1>2 DEF Prove, EnumerateAccounts

(* The prover's answer, for outcomes that are responses. *)
LEMMA AnswerEffect ==
  ASSUME TypeOK, prover # NoAccount, NEW outcomes \in SUBSET Responses,
         Answer(outcomes)
  PROVE  /\ prover \in Requests
         /\ responseCh' \in [Requests -> Seq(Responses)]
         /\ \E resp \in outcomes : responseCh'[prover] = <<resp>>
         /\ \A r \in Requests \ {prover} : responseCh'[r] = responseCh[r]
<1>1. prover \in Requests /\ responseCh \in [Requests -> Seq(Responses)]
  BY DEF TypeOK
<1>2. responseCh[prover] = <<>>
  <2>1. responseCh[prover] \in Seq(Responses) /\ Len(responseCh[prover]) < 1
    BY <1>1 DEF Answer
  <2> QED
    BY <2>1
<1>3. PICK resp \in outcomes :
        responseCh' = [responseCh EXCEPT ![prover] = Append(@, resp)]
  BY DEF Answer
<1>4. Append(<<>>, resp) = <<resp>> /\ <<resp>> \in Seq(Responses)
  OBVIOUS
<1> QED
  BY <1>1, <1>2, <1>3, <1>4
-----------------------------------------------------------------------------
(***************************************************************************)
(* What requests have in hand.  From the lookup in the caches to the reply *)
(* everything a handler of GetWalletInfo holds is about its own account.   *)
(***************************************************************************)
Says(resp, o, a) ==
  /\ resp.err = "none" /\ o = "GetWalletInfo" =>
       resp.owner = a /\ a \in Airdrop
  /\ resp.err = "key is not found" => o = "GetWalletInfo" /\ a \notin Airdrop

Holds(r) ==
  /\ pc[r] \in {"lookupProof", "lookupNotFound", "convert"} =>
       op[r] = "GetWalletInfo"
  /\ pc[r] \notin {"idle", "done"} => account[r] \in Accounts
  /\ pc[r] = "convert" => fetched[r] = account[r] /\ account[r] \in Airdrop
  /\ responseCh[r] # <<>> => Says(Response(r), op[r], account[r])

TruthInv == CachesTruthful /\ RepliesTruthful /\ \A r \in Requests : Holds(r)

ServiceInv == PlacesInv /\ TruthInv

-----------------------------------------------------------------------------
(* A handler that returns with a reply of its type keeps the two types.    *)
LEMMA ReturnType ==
  ASSUME TypeOK, NEW r \in Requests,
         NEW rep \in [code : {0, 200, 400, 404, 500},
                      owner : Accounts \cup {NoAccount}],
         Return(r, rep)
  PROVE  /\ pc' \in [Requests -> Places]
         /\ reply' \in [Requests -> [code : {0, 200, 400, 404, 500},
                                     owner : Accounts \cup {NoAccount}]]
<1>1. /\ pc \in [Requests -> Places] /\ "done" \in Places
      /\ pc' = [pc EXCEPT ![r] = "done"]
  BY DEF TypeOK, Return, Goto, Places
<1>2. /\ reply \in [Requests -> [code : {0, 200, 400, 404, 500},
                                 owner : Accounts \cup {NoAccount}]]
      /\ reply' = [reply EXCEPT ![r] = rep]
  BY DEF TypeOK, Return
<1>3. pc' \in [Requests -> Places]
  BY <1>1
<1>4. reply' \in [Requests -> [code : {0, 200, 400, 404, 500},
                              owner : Accounts \cup {NoAccount}]]
  BY <1>2
<1> QED
  BY <1>3, <1>4

(* The replies that are not a wallet have the type of a reply.             *)
LEMMA ReplyTypes ==
  /\ \A a \in Accounts \cup {NoAccount} :
       Success(a) \in [code : {0, 200, 400, 404, 500},
                      owner : Accounts \cup {NoAccount}]
  /\ \A c \in {400, 404, 500} :
       Failure(c) \in [code : {0, 200, 400, 404, 500},
                      owner : Accounts \cup {NoAccount}]
  BY DEF Success, Failure, Api!Failure

(* So does a handler that returns with what the response says, when it is  *)
(* not a proof.                                                            *)
LEMMA ReceiveTypes ==
  ASSUME TypeOK, NEW r \in Requests, account[r] \in Accounts,
         ReceiveNotFound(r) \/ ReceiveError(r) \/ ReceivePage(r)
  PROVE  TypeOK'
<1>1. /\ Receive(r)
      /\ \/ Return(r, Success(NoAccount))
         \/ Return(r, Failure(404))
         \/ Return(r, Failure(500))
      /\ UNCHANGED <<queueVars, op, account, gone, fetched, proofsCache,
                     proverVars>>
  BY DEF ReceiveNotFound, ReceiveError, ReceivePage, cacheVars
<1>2. PICK rep \in [code : {0, 200, 400, 404, 500},
                   owner : Accounts \cup {NoAccount}] : Return(r, rep)
  BY <1>1, ReplyTypes
<1>3. /\ pc' \in [Requests -> Places]
      /\ reply' \in [Requests -> [code : {0, 200, 400, 404, 500},
                                  owner : Accounts \cup {NoAccount}]]
  BY <1>2, ReturnType
<1>4. responseCh' \in [Requests -> Seq(Responses)]
  BY <1>1, ReceiveResponse
<1>5. keyNotFoundCache' \in SUBSET Accounts
  <2>1. \/ keyNotFoundCache' = keyNotFoundCache \cup {account[r]}
        \/ keyNotFoundCache' = keyNotFoundCache
    BY DEF ReceiveNotFound, ReceiveError, ReceivePage, cacheVars
  <2>2. keyNotFoundCache \in SUBSET Accounts
    BY DEF TypeOK
  <2> QED
    BY <2>1, <2>2
<1>6. Queue!TypeOK'
  BY <1>1, QueueUnchanged DEF TypeOK
<1> QED
  BY <1>1, <1>3, <1>4, <1>5, <1>6 DEF TypeOK, proverVars

(* Every variable keeps its type.                                          *)
LEMMA TypeStep == ServiceInv /\ [Next]_vars => TypeOK'
<1> SUFFICES ASSUME ServiceInv, [Next]_vars
             PROVE  TypeOK'
  OBVIOUS
<1>0. /\ TypeOK /\ Queue!TypeOK /\ Distinct(Pipe)
      /\ \A r \in Requests : Holds(r)
  BY DEF ServiceInv, PlacesInv, TruthInv, AtMostOnce, TypeOK
<1>a. UNCHANGED queueVars => Queue!TypeOK'
  BY <1>0, QueueUnchanged
<1> USE <1>0 DEF TypeOK, Goto, Return, Places, Operations, Api!Operations,
      Failure, Api!Failure, NoReply, Api!NoReply, Success, handlerVars,
      cacheVars, proverVars
<1>1. ASSUME NEW r \in Requests, NEW o \in Operations, NEW a \in Accounts, Call(r, o, a)
      PROVE TypeOK'
  BY <1>1, <1>a DEF Call
<1>2. ASSUME NEW r \in Requests, ProofHit(r) PROVE TypeOK'
  <2>1. account[r] \in Accounts
    BY <1>2 DEF ProofHit, Holds
  <2>2. proofsCache[account[r]] \in Accounts \cup {NoAccount}
    BY <2>1
  <2> QED
    BY <1>2, <1>a, <2>2 DEF ProofHit
<1>3. ASSUME NEW r \in Requests, ProofMiss(r) PROVE TypeOK'
  BY <1>3, <1>a DEF ProofMiss
<1>4. ASSUME NEW r \in Requests, NotFoundHit(r) PROVE TypeOK'
  BY <1>4, <1>a DEF NotFoundHit
<1>5. ASSUME NEW r \in Requests, NotFoundMiss(r) PROVE TypeOK'
  BY <1>5, <1>a DEF NotFoundMiss
<1>6. ASSUME NEW r \in Requests, SendRequest(r) PROVE TypeOK'
  BY <1>6, SendEffect DEF SendRequest
<1>7. ASSUME NEW r \in Requests, Timeout(r) PROVE TypeOK'
  BY <1>7, <1>a DEF Timeout
<1>8. ASSUME NEW r \in Requests, ReceiveProof(r) PROVE TypeOK'
  BY <1>8, <1>a, ReceiveResponse DEF ReceiveProof, Holds, Responses, Errors
<1>9. ASSUME NEW r \in Requests,
             ReceiveNotFound(r) \/ ReceiveError(r) \/ ReceivePage(r)
      PROVE  TypeOK'
  <2>1. pc[r] = "await"
    BY <1>9 DEF ReceiveNotFound, ReceiveError, ReceivePage, Receive, Selecting
  <2>2. account[r] \in Accounts
    BY <2>1 DEF Holds
  <2> QED
    BY <1>9, <2>2, ReceiveTypes
<1>12. ASSUME NEW r \in Requests, Convert(r) PROVE TypeOK'
  BY <1>12, <1>a DEF Convert
<1>13. ASSUME NEW r \in Requests, Leave(r) PROVE TypeOK'
  BY <1>13, <1>a DEF Leave
<1>14. ASSUME NEW r \in Requests, Release(r) PROVE TypeOK'
  BY <1>14, <1>a DEF Release
<1>15. ASSUME NEW r \in Requests, BadAddress(r) PROVE TypeOK'
  BY <1>15, <1>a DEF BadAddress
<1>16. ASSUME NEW a \in Accounts, Evict(a) PROVE TypeOK'
  <2>1. /\ proofsCache' \in [Accounts -> Accounts \cup {NoAccount}]
        /\ keyNotFoundCache' \in SUBSET Accounts
    BY <1>16 DEF Evict
  <2>2. UNCHANGED <<queueVars, handlerVars, responseCh, proverVars>>
    BY <1>16 DEF Evict
  <2> QED
    BY <1>a, <2>1, <2>2
<1>17. CASE TakeRequest
  <2>1. /\ Queue!Deliver /\ prover' = Head(msgs)
        /\ UNCHANGED <<handlerVars, responseCh, cacheVars, proverStopped, counters>>
    BY <1>17 DEF TakeRequest
  <2>2. Queue!TypeOK' /\ Head(msgs) \in Requests
    BY <2>1, DeliverEffect
  <2> QED
    BY <1>a, <2>1, <2>2
<1>18. CASE ProcessProofRequest
  <2>1. Prove(account[prover], ResetCounters(counters)) \in SUBSET Responses
    <3>1. prover \in Requests
      BY <1>18 DEF ProcessProofRequest
    <3>2. account[prover] \in Accounts \cup {NoAccount}
      BY <3>1
    <3> QED
      BY <3>2, OutcomesAreResponses
  <2>2. responseCh' \in [Requests -> Seq(Responses)]
    BY <1>18, <2>1, AnswerEffect DEF ProcessProofRequest
  <2> QED
    BY <1>18, <1>a, <2>2 DEF ProcessProofRequest, Answer
<1>19. CASE ProcessEnumerateAccountsRequest
  BY <1>19, <1>a, OutcomesAreResponses, AnswerEffect
  DEF ProcessEnumerateAccountsRequest, Answer
<1>20. CASE StopProver
  BY <1>20, <1>a DEF StopProver
<1>21. CASE QueueStep
  <2>1. Queue!TypeOK'
    BY <1>21, ReceiveEffect, StopEffect DEF QueueStep
  <2> QED
    BY <1>21, <2>1 DEF QueueStep
<1>22. CASE Shutdown
  BY <1>22 DEF Shutdown, Queue!Cancel, Queue!TypeOK
<1>23. CASE UNCHANGED vars
  BY <1>23, <1>a DEF vars
<1> QED
  BY <1>1, <1>2, <1>3, <1>4, <1>5, <1>6, <1>7, <1>8, <1>9, <1>12, <1>13, <1>14, <1>15, <1>16, <1>17, <1>18, <1>19, <1>20, <1>21, <1>22, <1>23
  DEF Next, Handler, Prover

-----------------------------------------------------------------------------
(* The handler that has its response is no longer owed one.                *)
LEMMA ReceivePlaces ==
  ASSUME PlacesInv, NEW r \in Requests, Receive(r)
  PROVE  /\ ~Owed(r)
         /\ responseCh'[r] = <<>>
         /\ \A q \in Requests \ {r} : responseCh'[q] = responseCh[q]
<1>1. TypeOK /\ Place(r) /\ responseCh \in [Requests -> Seq(Responses)]
  BY DEF PlacesInv, TypeOK
<1>2. responseCh[r] # <<>>
  BY DEF Receive
<1>3. ~Owed(r)
  BY <1>1, <1>2 DEF Place
<1>4. responseCh[r] \in Seq(Responses)
  BY <1>1
<1>5. Len(responseCh[r]) = 1
  <2>1. Len(responseCh[r]) # 0
    BY <1>2, <1>4, NoElements
  <2> QED
    BY <1>1, <2>1 DEF Place
<1>6. responseCh'[r] = <<>>
  BY <1>1, <1>5, ReceiveResponse
<1>7. \A q \in Requests \ {r} : responseCh'[q] = responseCh[q]
  BY <1>1 DEF Receive
<1> QED
  BY <1>3, <1>6, <1>7

(* A handler that received its answer leaves the queue as it was. *)
LEMMA ReceivedPlaces ==
  ASSUME PlacesInv, NEW r \in Requests, Receive(r),
         NEW place \in {"convert", "done"},
         pc' = [pc EXCEPT ![r] = place], UNCHANGED <<queueVars, prover>>
  PROVE  AtMostOnce' /\ \A q \in Requests : Place(q)'
<1>1. /\ Queue!TypeOK /\ AtMostOnce /\ \A q \in Requests : Place(q)
      /\ pc \in [Requests -> Places]
  BY DEF PlacesInv, TypeOK
<1>2. Queue!InFlight' = Queue!InFlight /\ Pipe' = Pipe /\ sel' = sel
  BY <1>1, QueueUnchanged
<1>3. /\ ~Owed(r) /\ responseCh'[r] = <<>>
      /\ \A q \in Requests \ {r} : responseCh'[q] = responseCh[q]
  BY ReceivePlaces
<1>4. ASSUME NEW q \in Requests PROVE Place(q)'
  <2>1. CASE q = r
    <3>1. Len(responseCh'[q]) = 0
      BY <1>3, <2>1
    <3> QED
      BY <1>1, <1>2, <1>3, <2>1, <3>1 DEF Place, Owed, Unsent
  <2>2. CASE q # r
    BY <1>1, <1>2, <1>3, <2>2 DEF Place, Owed
  <2> QED
    BY <2>1, <2>2
<1> QED
  BY <1>1, <1>2, <1>4 DEF AtMostOnce

(* The request that is answered is neither queued nor with the prover.     *)
LEMMA AnswerPlaces ==
  ASSUME PlacesInv, Prover
  PROVE  AtMostOnce' /\ \A q \in Requests : Place(q)'
<1>1. /\ TypeOK /\ AtMostOnce /\ \A q \in Requests : Place(q)
      /\ prover # NoAccount /\ prover \in Requests /\ Queue!TypeOK
      /\ NoAccount \notin Requests
  BY ServiceAssumption
  DEF PlacesInv, TypeOK, Prover, ProcessProofRequest,
      ProcessEnumerateAccountsRequest
<1>2. PICK outcomes \in SUBSET Responses : Answer(outcomes)
  <2>1. account[prover] \in Accounts \cup {NoAccount}
    BY <1>1 DEF TypeOK
  <2>2. CASE ProcessProofRequest
    BY <2>1, <2>2, OutcomesAreResponses DEF ProcessProofRequest
  <2>3. CASE ProcessEnumerateAccountsRequest
    BY <2>3, OutcomesAreResponses DEF ProcessEnumerateAccountsRequest
  <2> QED
    BY <2>2, <2>3 DEF Prover
<1>3. /\ \E resp \in outcomes : responseCh'[prover] = <<resp>>
      /\ \A r \in Requests \ {prover} : responseCh'[r] = responseCh[r]
  BY <1>1, <1>2, AnswerEffect
<1>4. Len(responseCh'[prover]) = 1 /\ responseCh'[prover] # <<>>
  BY <1>3
<1>5. Queue!InFlight' = Queue!InFlight /\ Pipe' = Pipe /\ sel' = sel
  BY <1>1, <1>2, QueueUnchanged DEF Answer
<1>6. pc' = pc /\ prover' = NoAccount
  BY <1>2 DEF Answer, handlerVars
<1>7. Queue!InFlight \subseteq Requests
  BY <1>1, InFlightIsPipe DEF ToSet
<1>8. AtMostOnce'
  BY <1>1, <1>5, <1>6, <1>7 DEF AtMostOnce
<1>9. ASSUME NEW q \in Requests PROVE Place(q)'
  <2>1. prover \notin Queue!InFlight /\ pc[prover] \in {"await", "done"}
    BY <1>1 DEF AtMostOnce, Place, Owed
  <2>2. CASE q = prover
    BY <1>1, <1>4, <1>5, <1>6, <2>1, <2>2 DEF Place, Owed, Unsent
  <2>3. CASE q # prover
    BY <1>1, <1>3, <1>5, <1>6, <2>3 DEF Place, Owed
  <2> QED
    BY <2>2, <2>3
<1> QED
  BY <1>8, <1>9

-----------------------------------------------------------------------------
(* Every request stays in its one place, or goes on to the next.           *)
LEMMA PlacesStep ==
  ServiceInv /\ [Next]_vars => AtMostOnce' /\ \A q \in Requests : Place(q)'
<1> SUFFICES ASSUME ServiceInv, [Next]_vars
             PROVE  AtMostOnce' /\ \A q \in Requests : Place(q)'
  OBVIOUS
<1>0. /\ TypeOK /\ Queue!TypeOK /\ Distinct(Pipe) /\ prover \notin Queue!InFlight
      /\ \A r \in Requests : Place(r)
      /\ pc \in [Requests -> Places]
      /\ responseCh \in [Requests -> Seq(Responses)]
      /\ prover \in Requests \cup {NoAccount}
  BY DEF ServiceInv, PlacesInv, AtMostOnce, TypeOK
<1>p. PlacesInv
  BY DEF ServiceInv
<1>a. UNCHANGED queueVars =>
        Queue!InFlight' = Queue!InFlight /\ Pipe' = Pipe /\ sel' = sel
  BY <1>0, QueueUnchanged
<1>b. NoAccount \notin Requests
  BY ServiceAssumption
<1> USE <1>0 DEF AtMostOnce, Place, Owed, Goto, Return, Places, Unsent,
      handlerVars, cacheVars, proverVars
<1>1. ASSUME NEW r \in Requests, NEW o \in Operations, NEW a \in Accounts,
             Call(r, o, a)
      PROVE  AtMostOnce' /\ \A q \in Requests : Place(q)'
  BY <1>1, <1>a DEF Call
<1>2. ASSUME NEW r \in Requests, ProofHit(r)
      PROVE  AtMostOnce' /\ \A q \in Requests : Place(q)'
  BY <1>2, <1>a DEF ProofHit
<1>3. ASSUME NEW r \in Requests, ProofMiss(r)
      PROVE  AtMostOnce' /\ \A q \in Requests : Place(q)'
  BY <1>3, <1>a DEF ProofMiss
<1>4. ASSUME NEW r \in Requests, NotFoundHit(r)
      PROVE  AtMostOnce' /\ \A q \in Requests : Place(q)'
  BY <1>4, <1>a DEF NotFoundHit
<1>5. ASSUME NEW r \in Requests, NotFoundMiss(r)
      PROVE  AtMostOnce' /\ \A q \in Requests : Place(q)'
  BY <1>5, <1>a DEF NotFoundMiss
<1>6. ASSUME NEW r \in Requests, SendRequest(r)
      PROVE  AtMostOnce' /\ \A q \in Requests : Place(q)'
  <2>1. r \notin Queue!InFlight /\ r # prover /\ pc[r] = "send"
    BY <1>6 DEF SendRequest
  <2>2. /\ Queue!InFlight' = Queue!InFlight \cup {r} /\ Distinct(Pipe')
        /\ sel' = sel
    BY <1>6, <2>1, SendEffect DEF SendRequest
  <2> QED
    BY <1>6, <2>1, <2>2 DEF SendRequest
<1>7. ASSUME NEW r \in Requests, Timeout(r)
      PROVE  AtMostOnce' /\ \A q \in Requests : Place(q)'
  BY <1>7, <1>a DEF Timeout
<1>8. ASSUME NEW r \in Requests, ReceiveProof(r)
      PROVE  AtMostOnce' /\ \A q \in Requests : Place(q)'
  <2>1. /\ Receive(r) /\ UNCHANGED <<queueVars, prover>>
        /\ pc' = [pc EXCEPT ![r] = "convert"]
    BY <1>8 DEF ReceiveProof
  <2> QED
    BY <1>p, <2>1, ReceivedPlaces
<1>9. ASSUME NEW r \in Requests, ReceiveNotFound(r)
      PROVE  AtMostOnce' /\ \A q \in Requests : Place(q)'
  <2>1. /\ Receive(r) /\ UNCHANGED <<queueVars, prover>>
        /\ pc' = [pc EXCEPT ![r] = "done"]
    BY <1>9 DEF ReceiveNotFound
  <2> QED
    BY <1>p, <2>1, ReceivedPlaces
<1>10. ASSUME NEW r \in Requests, ReceiveError(r)
      PROVE  AtMostOnce' /\ \A q \in Requests : Place(q)'
  <2>1. /\ Receive(r) /\ UNCHANGED <<queueVars, prover>>
        /\ pc' = [pc EXCEPT ![r] = "done"]
    BY <1>10 DEF ReceiveError
  <2> QED
    BY <1>p, <2>1, ReceivedPlaces
<1>11. ASSUME NEW r \in Requests, ReceivePage(r)
      PROVE  AtMostOnce' /\ \A q \in Requests : Place(q)'
  <2>1. /\ Receive(r) /\ UNCHANGED <<queueVars, prover>>
        /\ pc' = [pc EXCEPT ![r] = "done"]
    BY <1>11 DEF ReceivePage
  <2> QED
    BY <1>p, <2>1, ReceivedPlaces
<1>12. ASSUME NEW r \in Requests, Convert(r)
      PROVE  AtMostOnce' /\ \A q \in Requests : Place(q)'
  BY <1>12, <1>a DEF Convert
<1>13. ASSUME NEW r \in Requests, Leave(r)
      PROVE  AtMostOnce' /\ \A q \in Requests : Place(q)'
  BY <1>13, <1>a DEF Leave
<1>14. ASSUME NEW r \in Requests, Release(r)
      PROVE  AtMostOnce' /\ \A q \in Requests : Place(q)'
  BY <1>14, <1>a DEF Release
<1>15. ASSUME NEW r \in Requests, BadAddress(r)
      PROVE  AtMostOnce' /\ \A q \in Requests : Place(q)'
  BY <1>15, <1>a DEF BadAddress
<1>16. ASSUME NEW a \in Accounts, Evict(a)
      PROVE  AtMostOnce' /\ \A q \in Requests : Place(q)'
  BY <1>16, <1>a DEF Evict
<1>17. CASE TakeRequest
  <2>1. PICK h \in Requests :
          /\ h \in Queue!InFlight
          /\ Queue!InFlight' = Queue!InFlight \ {h}
          /\ Distinct(Pipe')
          /\ prover' = h
          /\ sel # "stopped"
    BY <1>17, DeliverEffect DEF TakeRequest
  <2>2. prover = NoAccount /\ pc' = pc /\ responseCh' = responseCh
    BY <1>17 DEF TakeRequest
  <2>3. AtMostOnce'
    BY <2>1
  <2>4. ASSUME NEW q \in Requests PROVE Place(q)'
    BY <1>b, <2>1, <2>2
  <2> QED
    BY <2>3, <2>4
<1>18. CASE Prover
  BY <1>18, <1>p, AnswerPlaces
<1>19. CASE StopProver
  BY <1>19, <1>a DEF StopProver
<1>20. CASE QueueStep
  <2>1. UNCHANGED <<pc, responseCh, prover>>
    BY <1>20 DEF QueueStep
  <2>2. CASE Queue!Stop
    <3>1. /\ Queue!InFlight' \subseteq Queue!InFlight /\ Distinct(Pipe')
          /\ sel' = "stopped"
      BY <2>2, StopEffect
    <3> QED
      BY <2>1, <3>1
  <2>3. CASE Queue!FirstReceive \/ Queue!SecondReceive
    <3>1. Queue!InFlight' = Queue!InFlight /\ Pipe' = Pipe /\ sel # "stopped"
      BY <2>3, ReceiveEffect
    <3> QED
      BY <2>1, <3>1
  <2> QED
    BY <1>20, <2>2, <2>3 DEF QueueStep
<1>21. CASE Shutdown
  <2>1. Queue!InFlight' = Queue!InFlight /\ Pipe' = Pipe /\ sel' = sel
    BY <1>21 DEF Shutdown, Queue!Cancel, Queue!InFlight, Pipe
  <2> QED
    BY <1>21, <2>1 DEF Shutdown
<1>22. CASE UNCHANGED vars
  BY <1>22, <1>a DEF vars
<1> QED
  BY <1>1, <1>2, <1>3, <1>4, <1>5, <1>6, <1>7, <1>8, <1>9, <1>10, <1>11, <1>12, <1>13, <1>14, <1>15, <1>16, <1>17, <1>18, <1>19, <1>20, <1>21, <1>22
  DEF Next, Handler

-----------------------------------------------------------------------------
(* A response of prove, from a tree with its counters reset, is right.     *)
LEMMA ProveSays ==
  ASSUME NEW a \in Accounts \cup {NoAccount}, NEW c,
         NEW resp \in Prove(a, ResetCounters(c))
  PROVE  Says(resp, "GetWalletInfo", a)
<1>1. ResetCounters(c) = "reset"
  BY DEF ResetCounters
<1>2. \/ resp = Respond("other", NoAccount)
      \/ resp = Respond("none", a) /\ a \in Airdrop
      \/ resp = Respond("key is not found", NoAccount) /\ a \notin Airdrop
  BY <1>1 DEF Prove
<1>3. CASE resp = Respond("other", NoAccount)
  BY <1>3 DEF Respond, Says
<1>4. CASE resp = Respond("none", a) /\ a \in Airdrop
  BY <1>4 DEF Respond, Says
<1>5. CASE resp = Respond("key is not found", NoAccount) /\ a \notin Airdrop
  BY <1>5 DEF Respond, Says
<1> QED
  BY <1>2, <1>3, <1>4, <1>5

(* A listing does not look for one account: it finds or it fails.          *)
LEMMA ListSays ==
  ASSUME NEW a, NEW c, NEW resp \in EnumerateAccounts(ResetCounters(c))
  PROVE  Says(resp, "GetWallets", a)
<1>1. ResetCounters(c) = "reset"
  BY DEF ResetCounters
<1>2. resp = Respond("none", NoAccount) \/ resp = Respond("other", NoAccount)
  BY <1>1 DEF EnumerateAccounts
<1>3. CASE resp = Respond("none", NoAccount)
  BY <1>3 DEF Respond, Says
<1>4. CASE resp = Respond("other", NoAccount)
  BY <1>4 DEF Respond, Says
<1> QED
  BY <1>2, <1>3, <1>4

(* A failure is told by its code. *)
LEMMA FailureCode == \A c : Failure(c).code = c
  BY DEF Failure, Api!Failure

(* Returning a reply that is right keeps all replies right.                *)
LEMMA ReturnTruth ==
  ASSUME TypeOK, RepliesTruthful, NEW r \in Requests, NEW rep, Return(r, rep),
         UNCHANGED <<op, account>>,
         op[r] = "GetWalletInfo" =>
           /\ rep.code = 200 => rep.owner = account[r] /\ account[r] \in Airdrop
           /\ rep.code = 404 => account[r] \notin Airdrop
  PROVE  RepliesTruthful'
<1>1. /\ pc' = [pc EXCEPT ![r] = "done"] /\ reply' = [reply EXCEPT ![r] = rep]
      /\ DOMAIN pc = Requests /\ DOMAIN reply = Requests
  BY DEF Return, Goto, TypeOK
<1>2. reply'[r] = rep
  BY <1>1
<1>3. \A q \in Requests \ {r} : pc'[q] = pc[q] /\ reply'[q] = reply[q]
  BY <1>1
<1> QED
  BY <1>2, <1>3 DEF RepliesTruthful

(* Receiving changes nothing that the other requests hold.                 *)
LEMMA ReceivedHolds ==
  ASSUME ServiceInv, NEW r \in Requests, Receive(r),
         NEW place \in {"convert", "done"}, pc' = [pc EXCEPT ![r] = place],
         NEW a, fetched' = [fetched EXCEPT ![r] = a],
         UNCHANGED <<op, account>>,
         place = "convert" => /\ op[r] = "GetWalletInfo"
                              /\ a = account[r] /\ a \in Airdrop
  PROVE  \A q \in Requests : Holds(q)'
<1>1. /\ PlacesInv /\ \A q \in Requests : Holds(q)
      /\ DOMAIN pc = Requests /\ DOMAIN fetched = Requests
      /\ pc[r] = "await"
  BY DEF ServiceInv, PlacesInv, TruthInv, TypeOK, Receive, Selecting
<1>2. /\ responseCh'[r] = <<>>
      /\ \A q \in Requests \ {r} : responseCh'[q] = responseCh[q]
  BY <1>1, ReceivePlaces
<1>3. account[r] \in Accounts
  BY <1>1 DEF Holds
<1>4. ASSUME NEW q \in Requests PROVE Holds(q)'
  <2>1. CASE q = r
    <3>1. pc'[q] = place /\ fetched'[q] = a /\ responseCh'[q] = <<>>
      BY <1>1, <1>2, <2>1
    <3> QED
      BY <1>3, <2>1, <3>1 DEF Holds
  <2>2. CASE q # r
    <3>1. /\ pc'[q] = pc[q] /\ fetched'[q] = fetched[q]
          /\ responseCh'[q] = responseCh[q]
      BY <1>1, <1>2, <2>2
    <3> QED
      BY <1>1, <3>1 DEF Holds, Response
  <2> QED
    BY <2>1, <2>2
<1> QED
  BY <1>4

(* What the prover answers is true of the request it took. *)
LEMMA AnswerTruth ==
  ASSUME ServiceInv, Prover, NEW q \in Requests
  PROVE  Holds(q)'
<1>1. /\ TypeOK /\ Holds(q) /\ prover # NoAccount /\ prover \in Requests
      /\ account[prover] \in Accounts \cup {NoAccount}
  BY DEF ServiceInv, PlacesInv, TruthInv, TypeOK, Prover, ProcessProofRequest,
         ProcessEnumerateAccountsRequest
<1>2. UNCHANGED <<pc, op, account, fetched>>
  BY DEF Prover, ProcessProofRequest, ProcessEnumerateAccountsRequest, Answer,
         handlerVars
<1>3. CASE q = prover /\ ProcessProofRequest
  <2> DEFINE outcomes == Prove(account[prover], ResetCounters(counters))
  <2>1. outcomes \in SUBSET Responses /\ Answer(outcomes)
    BY <1>1, <1>3, OutcomesAreResponses DEF ProcessProofRequest
  <2>5. op[prover] = "GetWalletInfo"
    BY <1>3 DEF ProcessProofRequest
  <2>2. PICK resp \in outcomes : responseCh'[prover] = <<resp>>
    BY <1>1, <2>1, AnswerEffect
  <2>3. Says(resp, op[prover], account[prover])
    BY <1>1, <2>2, <2>5, ProveSays
  <2>4. Head(responseCh'[prover]) = resp
    BY <2>2
  <2> QED
    BY <1>1, <1>2, <1>3, <2>3, <2>4 DEF Holds, Response
<1>4. CASE q = prover /\ ProcessEnumerateAccountsRequest
  <2> DEFINE outcomes == EnumerateAccounts(ResetCounters(counters))
  <2>1. /\ op[q] = "GetWallets"
        /\ outcomes \in SUBSET Responses /\ Answer(outcomes)
    BY <1>1, <1>4, OutcomesAreResponses DEF ProcessEnumerateAccountsRequest
  <2>2. PICK resp \in outcomes : responseCh'[prover] = <<resp>>
    BY <1>1, <2>1, AnswerEffect
  <2>3. Says(resp, op[q], account[q])
    BY <2>1, <2>2, ListSays
  <2>4. Head(responseCh'[prover]) = resp
    BY <2>2
  <2> QED
    BY <1>1, <1>2, <1>4, <2>3, <2>4 DEF Holds, Response
<1>5. CASE q # prover
  <2>1. PICK outcomes \in SUBSET Responses : Answer(outcomes)
    BY <1>1, OutcomesAreResponses
    DEF Prover, ProcessProofRequest, ProcessEnumerateAccountsRequest
  <2>2. responseCh'[q] = responseCh[q]
    BY <1>1, <1>5, <2>1, AnswerEffect
  <2> QED
    BY <1>1, <1>2, <2>2 DEF Holds, Response
<1> QED
  BY <1>3, <1>4, <1>5 DEF Prover

(* Handlers keep telling the truth, and so do the caches.                  *)
LEMMA TruthStep == ServiceInv /\ [Next]_vars => TruthInv'
<1> SUFFICES ASSUME ServiceInv, [Next]_vars
             PROVE  TruthInv'
  OBVIOUS
<1>0. /\ PlacesInv
      /\ pc \in [Requests -> Places]
      /\ op \in [Requests -> Operations]
      /\ account \in [Requests -> Accounts \cup {NoAccount}]
      /\ fetched \in [Requests -> Accounts \cup {NoAccount}]
      /\ reply \in [Requests -> [code : {0, 200, 400, 404, 500},
                                 owner : Accounts \cup {NoAccount}]]
      /\ responseCh \in [Requests -> Seq(Responses)]
      /\ proofsCache \in [Accounts -> Accounts \cup {NoAccount}]
      /\ CachesTruthful
      /\ RepliesTruthful
      /\ \A r \in Requests : Holds(r)
  BY DEF ServiceInv, PlacesInv, TruthInv, TypeOK
<1>s. ServiceInv /\ TypeOK
  BY DEF ServiceInv, PlacesInv
<1>p. \A r \in Requests : pc[r] = "idle" => responseCh[r] = <<>>
  BY DEF ServiceInv, PlacesInv, Place, Unsent
<1> USE <1>0
<1>8. ASSUME NEW r \in Requests, ReceiveProof(r) PROVE TruthInv'
  <2>1. /\ Receive(r) /\ op[r] = "GetWalletInfo" /\ Response(r).err = "none"
        /\ pc' = [pc EXCEPT ![r] = "convert"]
        /\ fetched' = [fetched EXCEPT ![r] = Response(r).owner]
        /\ UNCHANGED <<op, account, reply>>
    BY <1>8 DEF ReceiveProof, Goto
  <2>2. Says(Response(r), op[r], account[r])
    BY <2>1 DEF Holds, Receive
  <2>3. Response(r).owner = account[r] /\ account[r] \in Airdrop
    BY <2>1, <2>2 DEF Says
  <2>4. \A q \in Requests : Holds(q)'
    BY <1>s, <2>1, <2>3, ReceivedHolds
  <2>5. RepliesTruthful'
    BY <2>1 DEF RepliesTruthful
  <2>6. CachesTruthful'
    BY <1>8, <2>3 DEF ReceiveProof, CachesTruthful
  <2> QED
    BY <2>4, <2>5, <2>6 DEF TruthInv
<1>9. ASSUME NEW r \in Requests, ReceiveNotFound(r) PROVE TruthInv'
  <2>1. /\ Receive(r) /\ pc' = [pc EXCEPT ![r] = "done"]
        /\ UNCHANGED <<op, account, fetched>>
    BY <1>9 DEF ReceiveNotFound, Return, Goto
  <2>2. /\ op[r] = "GetWalletInfo" /\ Response(r).err = "key is not found"
        /\ Return(r, Failure(404))
    BY <1>9 DEF ReceiveNotFound
  <2>3. Says(Response(r), op[r], account[r])
    BY <2>1, <2>2 DEF Holds, Receive
  <2>4. account[r] \notin Airdrop
    BY <2>2, <2>3 DEF Says
  <2>5. RepliesTruthful'
    <3>1. PICK rep : rep = Failure(404) /\ Return(r, rep)
      BY <2>2
    <3>2. rep.code = 404 /\ Return(r, rep)
      BY <3>1, FailureCode
    <3> QED
      BY <1>s, <2>1, <2>4, <3>2, ReturnTruth
  <2>6. CachesTruthful'
    <3>1. /\ proofsCache' = proofsCache
          /\ keyNotFoundCache' = keyNotFoundCache \cup {account[r]}
      BY <1>9 DEF ReceiveNotFound
    <3> QED
      BY <2>4, <3>1 DEF CachesTruthful
  <2>7. fetched' = [fetched EXCEPT ![r] = fetched[r]]
    BY <2>1
  <2>8. \A q \in Requests : Holds(q)'
    BY <1>s, <2>1, <2>7, ReceivedHolds
  <2> QED
    BY <2>5, <2>6, <2>8 DEF TruthInv
<1>10. ASSUME NEW r \in Requests, ReceiveError(r) PROVE TruthInv'
  <2>1. /\ Receive(r) /\ pc' = [pc EXCEPT ![r] = "done"]
        /\ UNCHANGED <<op, account, fetched>>
    BY <1>10 DEF ReceiveError, Return, Goto
  <2>2. Return(r, Failure(500)) /\ UNCHANGED cacheVars
    BY <1>10 DEF ReceiveError
  <2>5. RepliesTruthful'
    <3>1. PICK rep : rep = Failure(500)
      OBVIOUS
    <3>2. rep.code = 500 /\ Return(r, rep)
      BY <2>2, <3>1, FailureCode
    <3> QED
      BY <1>s, <2>1, <3>2, ReturnTruth
  <2>6. CachesTruthful'
    BY <2>2 DEF CachesTruthful, cacheVars
  <2>7. fetched' = [fetched EXCEPT ![r] = fetched[r]]
    BY <2>1
  <2>8. \A q \in Requests : Holds(q)'
    BY <1>s, <2>1, <2>7, ReceivedHolds
  <2> QED
    BY <2>5, <2>6, <2>8 DEF TruthInv
<1>11. ASSUME NEW r \in Requests, ReceivePage(r) PROVE TruthInv'
  <2>1. /\ Receive(r) /\ pc' = [pc EXCEPT ![r] = "done"]
        /\ UNCHANGED <<op, account, fetched>>
    BY <1>11 DEF ReceivePage, Return, Goto
  <2>2. PICK rep : Return(r, rep)
    BY <1>11 DEF ReceivePage
  <2>3. op[r] = "GetWallets" /\ UNCHANGED cacheVars
    BY <1>11 DEF ReceivePage
  <2>5. RepliesTruthful'
    BY <1>s, <2>1, <2>2, <2>3, ReturnTruth
  <2>6. CachesTruthful'
    BY <2>3 DEF CachesTruthful, cacheVars
  <2>7. fetched' = [fetched EXCEPT ![r] = fetched[r]]
    BY <2>1
  <2>8. \A q \in Requests : Holds(q)'
    BY <1>s, <2>1, <2>7, ReceivedHolds
  <2> QED
    BY <2>5, <2>6, <2>8 DEF TruthInv
<1> USE DEF TruthInv, CachesTruthful, RepliesTruthful, Holds, Response,
      Goto, Return, Failure, Api!Failure, NoReply, Api!NoReply, Success,
      handlerVars, cacheVars
<1>1. ASSUME NEW r \in Requests, NEW o \in Operations, NEW a \in Accounts,
             Call(r, o, a)
      PROVE TruthInv'
  BY <1>1, <1>p DEF Call
<1>2. ASSUME NEW r \in Requests, ProofHit(r) PROVE TruthInv'
  BY <1>2 DEF ProofHit
<1>3. ASSUME NEW r \in Requests, ProofMiss(r) PROVE TruthInv'
  BY <1>3 DEF ProofMiss
<1>4. ASSUME NEW r \in Requests, NotFoundHit(r) PROVE TruthInv'
  BY <1>4 DEF NotFoundHit
<1>5. ASSUME NEW r \in Requests, NotFoundMiss(r) PROVE TruthInv'
  BY <1>5 DEF NotFoundMiss
<1>6. ASSUME NEW r \in Requests, SendRequest(r) PROVE TruthInv'
  BY <1>6 DEF SendRequest
<1>7. ASSUME NEW r \in Requests, Timeout(r) PROVE TruthInv'
  BY <1>7 DEF Timeout
<1>12. ASSUME NEW r \in Requests, Convert(r) PROVE TruthInv'
  BY <1>12 DEF Convert
<1>13. ASSUME NEW r \in Requests, Leave(r) PROVE TruthInv'
  BY <1>13 DEF Leave
<1>14. ASSUME NEW r \in Requests, Release(r) PROVE TruthInv'
  BY <1>14 DEF Release
<1>15. ASSUME NEW r \in Requests, BadAddress(r) PROVE TruthInv'
  BY <1>15 DEF BadAddress
<1>16. ASSUME NEW a \in Accounts, Evict(a) PROVE TruthInv'
  BY <1>16 DEF Evict
<1>17. CASE TakeRequest
  BY <1>17 DEF TakeRequest
<1>18. CASE Prover
  <2>1. UNCHANGED <<handlerVars, cacheVars>>
    BY <1>18 DEF Prover, ProcessProofRequest, ProcessEnumerateAccountsRequest,
       Answer
  <2>2. \A q \in Requests : Holds(q)'
    BY <1>18, AnswerTruth
  <2> QED
    BY <2>1, <2>2
<1>19. CASE StopProver
  BY <1>19 DEF StopProver
<1>20. CASE QueueStep
  BY <1>20 DEF QueueStep
<1>21. CASE Shutdown
  BY <1>21 DEF Shutdown
<1>22. CASE UNCHANGED vars
  BY <1>22 DEF vars
<1> QED
  BY <1>1, <1>2, <1>3, <1>4, <1>5, <1>6, <1>7, <1>8, <1>9, <1>10, <1>11, <1>12, <1>13, <1>14, <1>15, <1>16, <1>17, <1>18, <1>19, <1>20, <1>21, <1>22
  DEF Next, Handler

-----------------------------------------------------------------------------
(* Nothing is on its way at the start.                                     *)
LEMMA ServiceInvInit == Init => ServiceInv
<1> SUFFICES ASSUME Init PROVE ServiceInv
  OBVIOUS
<1> USE DEF Init, Queue!Init
<1>1. /\ <<>> \in Seq(Requests) /\ <<>> \in Seq(Responses)
      /\ Len(<<>>) = 0 /\ <<>> \o <<>> = <<>>
  OBVIOUS
<1>2. Queue!TypeOK
  BY <1>1 DEF Queue!TypeOK, Queue!Positions
<1>3. TypeOK
  BY <1>1, <1>2 DEF TypeOK, Places, Operations, Api!Operations, NoReply,
     Api!NoReply
<1>4. Queue!InFlight = {}
  BY <1>2, InFlightIsPipe, <1>1 DEF Pipe, ToSet
<1>5. AtMostOnce
  BY <1>1, <1>4 DEF AtMostOnce, Distinct, Pipe
<1>6. ASSUME NEW r \in Requests PROVE Place(r)
  BY <1>1, <1>4, ServiceAssumption DEF Place, Owed
<1>7. TruthInv
  BY DEF TruthInv, CachesTruthful, RepliesTruthful, Holds
<1> QED
  BY <1>3, <1>5, <1>6, <1>7 DEF ServiceInv, PlacesInv

(* The invariant is inductive. *)
LEMMA ServiceInvStep == ServiceInv /\ [Next]_vars => ServiceInv'
  BY TypeStep, PlacesStep, TruthStep DEF ServiceInv, PlacesInv

(* The places of the requests and the truth of the answers are invariant. *)
LEMMA ServiceInvariant == Spec => []ServiceInv
  BY ServiceInvInit, ServiceInvStep, PTL DEF Spec

(***************************************************************************)
(* Type correctness of handlers, queue, prover and caches.                 *)
(***************************************************************************)
THEOREM TypeCorrect == Spec => []TypeOK
<1>1. ServiceInv => TypeOK
  BY DEF ServiceInv, PlacesInv
<1> QED
  BY <1>1, ServiceInvariant, PTL

(***************************************************************************)
(* No account of the airdrop file is ever remembered as missing, and every *)
(* airdrop in the cache is that of its key.                                *)
(***************************************************************************)
THEOREM CachesAreTruthful == Spec => []CachesTruthful
<1>1. ServiceInv => CachesTruthful
  BY DEF ServiceInv, TruthInv
<1> QED
  BY <1>1, ServiceInvariant, PTL

(***************************************************************************)
(* GetWalletInfo never answers with the wallet of somebody else, nor 404   *)
(* for an account that has an airdrop.                                     *)
(***************************************************************************)
THEOREM RepliesAreTruthful == Spec => []RepliesTruthful
<1>1. ServiceInv => RepliesTruthful
  BY DEF ServiceInv, TruthInv
<1> QED
  BY <1>1, ServiceInvariant, PTL

(***************************************************************************)
(* The prover's send to a response channel always finds room.              *)
(***************************************************************************)
THEOREM ProverSendsAtOnce == Spec => []ProverNeverBlocks
<1>1. ServiceInv => ProverNeverBlocks
  BY DEF ServiceInv, PlacesInv, TypeOK, Place, Owed, ProverNeverBlocks
<1> QED
  BY <1>1, ServiceInvariant, PTL

(***************************************************************************)
(* The request of a waiting handler is neither lost nor duplicated, unless *)
(* the queue has stopped and dropped it.                                   *)
(***************************************************************************)
THEOREM OneRequestOnePlace == Spec => []RequestInOnePlace
<1>1. ASSUME ServiceInv, NEW r \in Requests, r \in Queue!InFlight
      PROVE  InQueueOnce(r)
  <2>1. r \in ToSet(Pipe) /\ Distinct(Pipe) /\ Pipe \in Seq(Requests)
    BY <1>1, InFlightIsPipe DEF ServiceInv, PlacesInv, AtMostOnce, TypeOK
  <2>2. PICK i \in 1..Len(Pipe) : Pipe[i] = r
    BY <2>1 DEF ToSet
  <2>3. \A j \in 1..Len(Pipe) : Pipe[j] = r <=> j = i
    BY <2>1, <2>2 DEF Distinct
  <2> QED
    BY <2>2, <2>3 DEF InQueueOnce, Pipe
<1>2. ServiceInv => RequestInOnePlace
  <2> SUFFICES ASSUME ServiceInv, NEW r \in Requests, pc[r] = "await"
               PROVE  \/ sel = "stopped" /\ Nowhere(r)
                      \/ InQueueOnce(r) /\ prover # r /\ responseCh[r] = <<>>
                      \/ /\ r \notin Queue!InFlight /\ prover = r
                         /\ responseCh[r] = <<>>
                      \/ /\ r \notin Queue!InFlight /\ prover # r
                         /\ Len(responseCh[r]) = 1
    BY DEF RequestInOnePlace
  <2>1. /\ Place(r) /\ prover \notin Queue!InFlight
        /\ responseCh[r] \in Seq(Responses)
    BY DEF ServiceInv, PlacesInv, AtMostOnce, TypeOK
  <2>2. CASE r \in Queue!InFlight
    BY <1>1, <2>1, <2>2 DEF Place, Owed
  <2>3. CASE r = prover
    BY <2>1, <2>3 DEF Place, Owed
  <2>4. CASE ~Owed(r) /\ responseCh[r] # <<>>
    <3>1. Len(responseCh[r]) # 0
      BY <2>1, <2>4, NoElements DEF Place
    <3> QED
      BY <2>1, <2>4, <3>1 DEF Place, Owed
  <2>5. CASE ~Owed(r) /\ responseCh[r] = <<>>
    BY <2>1, <2>5 DEF Place, Nowhere
  <2> QED
    BY <2>2, <2>3, <2>4, <2>5 DEF Owed
<1> QED
  BY <1>2, ServiceInvariant, PTL

-----------------------------------------------------------------------------
(***************************************************************************)
(* The refinement.  A handler serves from its start to its return; what    *)
(* happens to its request meanwhile is no step of ClaimApi.                *)
(***************************************************************************)
Phase ==
  [r \in Requests |-> CASE pc[r] = "idle" -> "idle"
                         [] pc[r] = "done" -> "replied"
                         [] OTHER -> "serving"]

Serving == Places \ {"idle", "done"}

(* The phase that each control point of a handler stands for. *)
LEMMA PhaseValues ==
  /\ \A r \in Requests :
       /\ pc[r] = "idle" => Phase[r] = "idle"
       /\ pc[r] = "done" => Phase[r] = "replied"
       /\ pc[r] \in Serving => Phase[r] = "serving"
       /\ pc'[r] = "idle" => Phase'[r] = "idle"
       /\ pc'[r] = "done" => Phase'[r] = "replied"
       /\ pc'[r] \in Serving => Phase'[r] = "serving"
  /\ Phase = [r \in Requests |-> Phase[r]]
  /\ Phase' = [r \in Requests |-> Phase'[r]]
  BY DEF Phase, Serving

(* One handler goes to another place. *)
LEMMA PhaseMoves ==
  ASSUME TypeOK, NEW r \in Requests, NEW p \in Places,
         pc' = [pc EXCEPT ![r] = p]
  PROVE  /\ p = "idle" => Phase' = [Phase EXCEPT ![r] = "idle"]
         /\ p = "done" => Phase' = [Phase EXCEPT ![r] = "replied"]
         /\ p \in Serving => Phase' = [Phase EXCEPT ![r] = "serving"]
         /\ p \in Serving /\ pc[r] \in Serving => Phase' = Phase
<1>1. pc'[r] = p /\ \A q \in Requests \ {r} : pc'[q] = pc[q]
  BY DEF TypeOK
<1>2. \A q \in Requests \ {r} : Phase'[q] = Phase[q]
  BY <1>1 DEF Phase
<1> QED
  BY <1>1, <1>2, PhaseValues

(* The handler returns an allowed reply. *)
LEMMA ReturnAnswers ==
  ASSUME TypeOK, NEW r \in Requests, pc[r] \in Serving,
         NEW rep, rep \in Api!Allowed(op[r], account[r], r \in gone),
         Return(r, rep), UNCHANGED <<op, account, gone>>
  PROVE  Api!Answer(r)
<1>1. Phase[r] = "serving" /\ Phase' = [Phase EXCEPT ![r] = "replied"]
  BY PhaseValues, PhaseMoves DEF Return, Goto, Places
<1>2. reply' = [reply EXCEPT ![r] = rep]
  BY DEF Return
<1> QED
  BY <1>1, <1>2 DEF Api!Answer, Phase

(* The replies that a request may get. *)
Replies(r) == Api!Allowed(op[r], account[r], r \in gone)

(* The replies that the API allows, one by one. *)
LEMMA AllowedReplies ==
  ASSUME NEW r \in Requests
  PROVE  /\ Failure(500) \in Replies(r)
         /\ r \in gone => Failure(400) \in Replies(r)
         /\ op[r] = "GetWallets" => Success(NoAccount) \in Replies(r)
         /\ op[r] = "GetWalletInfo" /\ account[r] \in Airdrop =>
              Success(account[r]) \in Replies(r)
         /\ op[r] = "GetWalletInfo" /\ account[r] \notin Airdrop =>
              Failure(404) \in Replies(r)
  BY DEF Replies, Api!Allowed, Failure, Success

(* The service starts as the ClaimApi does. *)
LEMMA ApiInit == Init => Api!Init
  BY DEF Init, Api!Init, Operations, Api!Operations, NoReply, Api!NoReply

(* A step that only moves a serving handler on is no step of the ClaimApi. *)
LEMMA StillServing ==
  ASSUME TypeOK, NEW r \in Requests, NEW p \in Serving, pc[r] \in Serving,
         Goto(r, p), UNCHANGED <<op, account, gone, reply>>
  PROVE  UNCHANGED Api!vars
<1>1. Phase' = Phase
  BY PhaseMoves DEF Goto, Serving
<1> QED
  BY <1>1 DEF Api!vars, Phase

(* Every step of the service is a step of the ClaimApi, or none. *)
LEMMA ApiStep == ServiceInv /\ [Next]_vars => [Api!Next]_(Api!vars)
<1> SUFFICES ASSUME ServiceInv, [Next]_vars
             PROVE  [Api!Next]_(Api!vars)
  OBVIOUS
<1>0. /\ TypeOK /\ CachesTruthful
      /\ \A r \in Requests : Holds(r)
  BY DEF ServiceInv, PlacesInv, TruthInv, TypeOK
<1>t. UNCHANGED <<pc, op, account, gone, reply>> => UNCHANGED Api!vars
  BY DEF Api!vars
<1>1. ASSUME NEW r \in Requests, NEW o \in Operations, NEW a \in Accounts,
             Call(r, o, a)
      PROVE  Api!Call(r, o, a)
  <2>1. PICK p \in Serving : pc' = [pc EXCEPT ![r] = p]
    <3>1. "lookupProof" \in Serving /\ "send" \in Serving
      BY DEF Serving, Places
    <3>2. CASE o = "GetWalletInfo"
      BY <1>1, <3>1, <3>2 DEF Call, Goto
    <3>3. CASE o # "GetWalletInfo"
      BY <1>1, <3>1, <3>3 DEF Call, Goto
    <3> QED
      BY <3>2, <3>3
  <2>2. Phase[r] = "idle" /\ Phase' = [Phase EXCEPT ![r] = "serving"]
    BY <1>0, <1>1, <2>1, PhaseValues, PhaseMoves DEF Call, Serving
  <2> QED
    BY <1>1, <2>2 DEF Call, Api!Call, Phase
<1>2. ASSUME NEW r \in Requests, BadAddress(r) PROVE Api!BadCall(r)
  <2>1. Phase[r] = "idle" /\ Phase' = [Phase EXCEPT ![r] = "replied"]
    BY <1>0, <1>2, PhaseValues, PhaseMoves
    DEF BadAddress, Return, Goto, Places
  <2> QED
    BY <1>2, <2>1 DEF BadAddress, Return, Failure, Api!BadCall, Phase
<1>3. ASSUME NEW r \in Requests, ProofHit(r) \/ ProofMiss(r) \/ NotFoundMiss(r)
      PROVE  UNCHANGED Api!vars
  <2>1. PICK p \in Serving : Goto(r, p)
    BY <1>3 DEF ProofHit, ProofMiss, NotFoundMiss, Serving, Places
  <2>2. pc[r] \in Serving /\ UNCHANGED <<op, account, gone, reply>>
    BY <1>3 DEF ProofHit, ProofMiss, NotFoundMiss, Serving, Places
  <2> QED
    BY <1>0, <2>1, <2>2, StillServing
<1>4. ASSUME NEW r \in Requests, SendRequest(r) PROVE UNCHANGED Api!vars
  <2>1. /\ Goto(r, "await") /\ pc[r] \in Serving /\ "await" \in Serving
        /\ UNCHANGED <<op, account, gone, reply>>
    BY <1>4 DEF SendRequest, Serving, Places
  <2> QED
    BY <1>0, <2>1, StillServing
<1>5. ASSUME NEW r \in Requests, NotFoundHit(r) PROVE Api!Answer(r)
  <2>1. /\ Return(r, Failure(404)) /\ pc[r] \in Serving
        /\ UNCHANGED <<op, account, gone>>
    BY <1>5 DEF NotFoundHit, Serving, Places
  <2>2. op[r] = "GetWalletInfo" /\ account[r] \notin Airdrop
    BY <1>0, <1>5 DEF NotFoundHit, Holds, CachesTruthful
  <2> QED
    BY <1>0, <2>1, <2>2, AllowedReplies, ReturnAnswers DEF Replies
<1>6. ASSUME NEW r \in Requests, Timeout(r) PROVE Api!Answer(r)
  <2>1. /\ Return(r, Failure(400)) /\ pc[r] \in Serving /\ r \in gone
        /\ UNCHANGED <<op, account, gone>>
    BY <1>6 DEF Timeout, Selecting, Serving, Places
  <2> QED
    BY <1>0, <2>1, AllowedReplies, ReturnAnswers DEF Replies
<1>7. ASSUME NEW r \in Requests, ReceiveProof(r) PROVE UNCHANGED Api!vars
  <2>1. /\ Goto(r, "convert") /\ pc[r] \in Serving /\ "convert" \in Serving
        /\ UNCHANGED <<op, account, gone, reply>>
    BY <1>7 DEF ReceiveProof, Receive, Selecting, Serving, Places
  <2> QED
    BY <1>0, <2>1, StillServing
<1>8. ASSUME NEW r \in Requests, ReceiveNotFound(r) PROVE Api!Answer(r)
  <2>1. /\ Return(r, Failure(404)) /\ pc[r] \in Serving
        /\ op[r] = "GetWalletInfo" /\ UNCHANGED <<op, account, gone>>
        /\ Response(r).err = "key is not found" /\ responseCh[r] # <<>>
    BY <1>8 DEF ReceiveNotFound, Receive, Selecting, Serving, Places
  <2>2. account[r] \notin Airdrop
    BY <1>0, <2>1 DEF Holds, Says
  <2> QED
    BY <1>0, <2>1, <2>2, AllowedReplies, ReturnAnswers DEF Replies
<1>9. ASSUME NEW r \in Requests, ReceiveError(r) PROVE Api!Answer(r)
  <2>1. /\ Return(r, Failure(500)) /\ pc[r] \in Serving
        /\ UNCHANGED <<op, account, gone>>
    BY <1>9 DEF ReceiveError, Receive, Selecting, Serving, Places
  <2>2. PICK rep : rep \in Replies(r) /\ Return(r, rep)
    BY <2>1, AllowedReplies
  <2> QED
    BY <1>0, <2>1, <2>2, ReturnAnswers DEF Replies
<1>10. ASSUME NEW r \in Requests, ReceivePage(r) PROVE Api!Answer(r)
  <2>1. /\ pc[r] \in Serving /\ op[r] = "GetWallets" /\ responseCh[r] # <<>>
        /\ UNCHANGED <<op, account, gone>>
    BY <1>10 DEF ReceivePage, Receive, Selecting, Serving, Places
  <2>2. Response(r).err # "key is not found"
    BY <1>0, <2>1 DEF Holds, Says
  <2>3. Return(r, Success(NoAccount)) \/ Return(r, Failure(500))
    BY <1>10, <2>2 DEF ReceivePage
  <2>4. PICK rep : rep \in Replies(r) /\ Return(r, rep)
    BY <2>1, <2>3, AllowedReplies
  <2> QED
    BY <1>0, <2>1, <2>4, ReturnAnswers DEF Replies
<1>11. ASSUME NEW r \in Requests, Convert(r) PROVE Api!Answer(r)
  <2>1. /\ pc[r] \in Serving /\ UNCHANGED <<op, account, gone>>
        /\ Return(r, Success(fetched[r])) \/ Return(r, Failure(500))
    BY <1>11 DEF Convert, Serving, Places
  <2>2. /\ op[r] = "GetWalletInfo" /\ fetched[r] = account[r]
        /\ account[r] \in Airdrop
    BY <1>0, <1>11 DEF Convert, Holds
  <2>3. PICK rep : rep \in Replies(r) /\ Return(r, rep)
    BY <2>1, <2>2, AllowedReplies
  <2> QED
    BY <1>0, <2>1, <2>3, ReturnAnswers DEF Replies
<1>12. ASSUME NEW r \in Requests, Leave(r) PROVE Api!Leave(r)
  <2>1. pc[r] \in Serving /\ pc' = pc
    BY <1>0, <1>12 DEF Leave, TypeOK, Serving
  <2>2. Phase[r] = "serving" /\ Phase' = Phase
    BY <2>1, PhaseValues DEF Phase
  <2> QED
    BY <1>12, <2>2 DEF Leave, Api!Leave, Phase
<1>13. ASSUME NEW r \in Requests, Release(r) PROVE Api!Release(r)
  <2>1. Phase[r] = "replied" /\ Phase' = [Phase EXCEPT ![r] = "idle"]
    BY <1>0, <1>13, PhaseValues, PhaseMoves DEF Release, Goto, Places
  <2> QED
    BY <1>13, <2>1 DEF Release, NoReply, Api!Release, Phase
<1>14. ASSUME NEW a \in Accounts, Evict(a) PROVE UNCHANGED Api!vars
  BY <1>14, <1>t DEF Evict, handlerVars
<1>15. CASE TakeRequest \/ Prover \/ StopProver \/ QueueStep \/ Shutdown
  BY <1>15, <1>t DEF TakeRequest, Prover, ProcessProofRequest,
     ProcessEnumerateAccountsRequest, Answer, StopProver, QueueStep, Shutdown,
     handlerVars
<1>16. CASE UNCHANGED vars
  BY <1>16, <1>t DEF vars, handlerVars
<1> QED
  BY <1>1, <1>2, <1>3, <1>4, <1>5, <1>6, <1>7, <1>8, <1>9, <1>10, <1>11,
     <1>12, <1>13, <1>14, <1>15, <1>16
  DEF Next, Handler, Api!Next, Operations

(***************************************************************************)
(* Seen from its clients, the service with its queue, its prover goroutine *)
(* and its caches is the ClaimApi: each call gets one reply, true to the   *)
(* airdrop, and 400 "timeout" only after the client has left.              *)
(***************************************************************************)
THEOREM ApiImplemented == Spec => ImplementsApi
  BY ApiInit, ServiceInvariant, ApiStep, PTL
  DEF Spec, ImplementsApi, Api!Spec
=============================================================================

-------------------------- MODULE ElasticQueueProofs --------------------------
(***************************************************************************)
(* Proofs about ElasticQueue for every set of messages, every limit and    *)
(* every buffer size: its type, the match of select and backlog, the bound *)
(* on the backlog, that it implements BoundedFifo, and how far its gauge   *)
(* can be off.                                                             *)
(***************************************************************************)
EXTENDS ElasticQueueMetrics, Integers, TLAPS

(* The first element of a non-empty sequence, put at the end of another,   *)
(* joins the two as before: a message moved from the channel to the slice. *)
LEMMA MoveHead ==
  ASSUME NEW S, NEW s \in Seq(S), NEW t \in Seq(S), t # <<>>
  PROVE  /\ Append(s, Head(t)) \in Seq(S)
         /\ Tail(t) \in Seq(S)
         /\ Append(s, Head(t)) \o Tail(t) = s \o t
         /\ Len(Append(s, Head(t))) = Len(s) + 1
         /\ Append(s, Head(t)) # <<>>
         /\ Len(Tail(t)) = Len(t) - 1
         /\ Len(t) \in Nat \ {0}
         /\ Len(s) \in Nat
  OBVIOUS

(* Appending to the second of two sequences appends to both. *)
LEMMA AppendRight ==
  ASSUME NEW S, NEW s \in Seq(S), NEW t \in Seq(S), NEW e \in S
  PROVE  /\ s \o Append(t, e) = Append(s \o t, e)
         /\ Len(Append(t, e)) = Len(t) + 1
         /\ Len(s \o t) = Len(s) + Len(t)
  OBVIOUS

(* The tail of the first of two sequences is the tail of both. *)
LEMMA TailLeft ==
  ASSUME NEW S, NEW s \in Seq(S), NEW t \in Seq(S), s # <<>>
  PROVE  /\ Tail(s) \in Seq(S)
         /\ Tail(s) \o t = Tail(s \o t)
         /\ Len(Tail(s)) = Len(s) - 1
         /\ Len(s) \in Nat \ {0}
  OBVIOUS

(* Without the first of two sequences, the second is left of both. *)
LEMMA BehindTheFirst ==
  ASSUME NEW S, NEW s \in Seq(S), NEW t \in Seq(S)
  PROVE  << >> \o t = SubSeq(s \o t, Len(s) + 1, Len(s \o t))
<1> DEFINE u == SubSeq(s \o t, Len(s) + 1, Len(s \o t))
<1>1. << >> \o t = t /\ Len(s \o t) = Len(s) + Len(t)
  OBVIOUS
<1>2. u \in Seq(S) /\ Len(u) = Len(t)
  OBVIOUS
<1>3. \A i \in 1..Len(t) : u[i] = t[i]
  OBVIOUS
<1> QED
  BY <1>1, <1>2, <1>3

-----------------------------------------------------------------------------
(***************************************************************************)
(* The three invariants hold together: SecondReceive appends only below    *)
(* the limit, FirstReceive without looking at it, so that the bound rests  *)
(* on the first select being entered with an empty slice only.             *)
(***************************************************************************)
QueueInv ==
  /\ TypeOK
  /\ SelectMatchesBacklog
  /\ BacklogBounded

(* Run starts with an empty slice at its first select. *)
LEMMA QueueInvInit == Init => QueueInv
<1> SUFFICES ASSUME Init PROVE QueueInv
  OBVIOUS
<1>1. TypeOK
  <2>1. <<>> \in Seq(Values)
    OBVIOUS
  <2> QED
    BY <2>1 DEF Init, TypeOK, Positions
<1>2. SelectMatchesBacklog
  BY DEF Init, SelectMatchesBacklog
<1>3. Len(msgs) = 0
  BY DEF Init
<1>4. BacklogBounded
  BY <1>3, QueueAssumption DEF BacklogBounded
<1> QED
  BY <1>1, <1>2, <1>4 DEF QueueInv

(* Every step of the senders, of Run and of the context keeps QueueInv. *)
LEMMA QueueInvStep == QueueInv /\ [Next]_vars => QueueInv'
<1> SUFFICES ASSUME QueueInv, [Next]_vars
             PROVE  QueueInv'
  OBVIOUS
<1> USE QueueAssumption DEF QueueInv, TypeOK
<1>1. ASSUME NEW v \in Values \ InFlight, Send(v)
      PROVE  QueueInv'
  <2>1. input' \in Seq(Values)
    BY <1>1, AppendRight DEF Send
  <2> QED
    BY <1>1, <2>1 DEF Send, SelectMatchesBacklog, BacklogBounded
<1>2. CASE FirstReceive
  <2>1. msgs' \in Seq(Values) /\ input' \in Seq(Values)
    BY <1>2, MoveHead DEF FirstReceive
  <2>2. Len(msgs) = 0
    BY <1>2 DEF FirstReceive, SelectMatchesBacklog
  <2>3. Len(msgs') = Len(msgs) + 1
    BY <1>2, MoveHead DEF FirstReceive
  <2>4. msgs' # <<>>
    BY <1>2, MoveHead DEF FirstReceive
  <2> QED
    BY <1>2, <2>1, <2>2, <2>3, <2>4
    DEF FirstReceive, Positions, SelectMatchesBacklog, BacklogBounded
<1>3. CASE SecondReceive
  <2>1. msgs' \in Seq(Values) /\ input' \in Seq(Values)
    BY <1>3, MoveHead DEF SecondReceive
  <2>2. Len(msgs') = Len(msgs) + 1 /\ Len(msgs) \in Nat
    BY <1>3, MoveHead DEF SecondReceive
  <2>3. BacklogBounded'
    BY <1>3, <2>2 DEF SecondReceive, Full, BacklogBounded
  <2> QED
    BY <1>3, <2>1, <2>3
    DEF SecondReceive, SelectFor, Positions, SelectMatchesBacklog
<1>4. CASE Deliver
  <2>1. msgs' \in Seq(Values)
    BY <1>4, TailLeft DEF Deliver
  <2>2. Len(msgs') = Len(msgs) - 1 /\ Len(msgs) \in Nat
    BY <1>4, TailLeft DEF Deliver
  <2>3. BacklogBounded'
    BY <1>4, <2>2 DEF BacklogBounded
  <2> QED
    BY <1>4, <2>1, <2>3
    DEF Deliver, SelectFor, Positions, SelectMatchesBacklog
<1>5. CASE Stop
  <2>1. msgs' = <<>> /\ <<>> \in Seq(Values) /\ Len(<<>>) = 0
    BY <1>5 DEF Stop
  <2> QED
    BY <1>5, <2>1 DEF Stop, Positions, SelectMatchesBacklog, BacklogBounded
<1>6. CASE Cancel
  BY <1>6 DEF Cancel, SelectMatchesBacklog, BacklogBounded
<1>7. CASE UNCHANGED vars
  BY <1>7 DEF vars, SelectMatchesBacklog, BacklogBounded
<1> QED
  BY <1>1, <1>2, <1>3, <1>4, <1>5, <1>6, <1>7 DEF Next, Run

(* The inductive invariant holds throughout. *)
LEMMA QueueInvariant == Spec => []QueueInv
  BY QueueInvInit, QueueInvStep, PTL DEF Spec

(* The variables of the queue keep their types. *)
THEOREM TypeCorrect == Spec => []TypeOK
<1>1. QueueInv => TypeOK
  BY DEF QueueInv
<1> QED
  BY <1>1, QueueInvariant, PTL

(* Run never evaluates msgs[0] on an empty slice, and never waits for      *)
(* input alone while it owes a message to the receiver.                    *)
THEOREM SelectsMatch == Spec => []SelectMatchesBacklog
<1>1. QueueInv => SelectMatchesBacklog
  BY DEF QueueInv
<1> QED
  BY <1>1, QueueInvariant, PTL

(* WithMaxLength is respected for every limit and every buffer size. *)
THEOREM Bounded == Spec => []BacklogBounded
<1>1. QueueInv => BacklogBounded
  BY DEF QueueInv
<1> QED
  BY <1>1, QueueInvariant, PTL
-----------------------------------------------------------------------------
(***************************************************************************)
(* The refinement.  The pipe is the slice followed by the channel, so a    *)
(* message that Run moves from the one to the other leaves the pipe as it  *)
(* is, and at most releases the longest parked sender.                     *)
(***************************************************************************)
Pipe == msgs \o input

Buffered(n) == IF n <= InputChanLen THEN n ELSE InputChanLen

Admitted == Len(msgs) + Buffered(Len(input))

(* How many of n values in the channel are in its buffer. *)
LEMMA BufferedValues ==
  ASSUME NEW n \in Nat
  PROVE  /\ n <= InputChanLen => Buffered(n) = n
         /\ n >= InputChanLen => Buffered(n) = InputChanLen
  BY QueueAssumption DEF Buffered

(* The queue starts as an empty FIFO. *)
LEMMA FifoInit == Init => Fifo!Init
  BY QueueAssumption DEF Init, Fifo!Init

(* A message that is sent is offered; it is admitted on the spot if the    *)
(* channel's buffer has room for it.                                       *)
LEMMA FifoSend ==
  ASSUME QueueInv, NEW v \in Values, Send(v)
  PROVE  [Fifo!Next]_(Fifo!vars)
PROOF
<1> USE QueueAssumption DEF QueueInv, TypeOK
<1>1. /\ Pipe' = Append(Pipe, v)
      /\ Len(input') = Len(input) + 1
      /\ Len(Pipe) = Len(msgs) + Len(input)
      /\ Len(input) \in Nat /\ Len(msgs) \in Nat
  BY AppendRight DEF Send, Pipe
<1>2. UNCHANGED sel /\ UNCHANGED msgs
  BY DEF Send
<1>3. CASE Len(input) < InputChanLen
  <2>1. Admitted' = Admitted + 1 /\ Admitted = Len(Pipe)
    BY <1>1, <1>2, <1>3 DEF Admitted, Buffered
  <2>2. MaxLength > 0 => Admitted < MaxLength + InputChanLen
    BY <1>1, <1>3 DEF Admitted, Buffered, BacklogBounded
  <2>3. Fifo!OfferAdmitted(v)
    BY <1>1, <1>2, <2>1, <2>2
    DEF Fifo!OfferAdmitted, Fifo!Room, Pipe, Admitted, Buffered
  <2> QED
    BY <2>3 DEF Fifo!Next
<1>4. CASE Len(input) >= InputChanLen
  <2>1. Buffered(Len(input)) = InputChanLen /\ Buffered(Len(input')) = InputChanLen
    BY <1>1, <1>4 DEF Buffered
  <2>2. Admitted' = Admitted
    BY <1>2, <2>1 DEF Admitted
  <2>3. Fifo!Offer(v)
    BY <1>1, <1>2, <2>2 DEF Fifo!Offer, Pipe, Admitted, Buffered
  <2> QED
    BY <2>3 DEF Fifo!Next
<1> QED
  BY <1>1, <1>3, <1>4

(* A message that enters the slice makes room in the channel: the longest  *)
(* parked sender, if there is one, is released.                            *)
LEMMA FifoReceive ==
  ASSUME QueueInv,
         input # <<>>,
         sel # "stopped",
         sel' # "stopped",
         MaxLength > 0 => Len(msgs) < MaxLength,
         input' = Tail(input),
         msgs' = Append(msgs, Head(input))
  PROVE  [Fifo!Next]_(Fifo!vars)
PROOF
<1> USE QueueAssumption DEF QueueInv, TypeOK
<1>1. /\ Pipe' = Pipe
      /\ Len(input') = Len(input) - 1
      /\ Len(msgs') = Len(msgs) + 1
      /\ Len(input) \in Nat \ {0}
      /\ Len(msgs) \in Nat
  BY MoveHead DEF Pipe
<1>2. Len(Pipe) = Len(msgs) + Len(input)
  BY DEF Pipe
<1>3. Len(input') \in Nat /\ InputChanLen \in Nat
  BY <1>1
<1>4. CASE Len(input) > InputChanLen
  <2>1. Buffered(Len(input)) = InputChanLen
    BY <1>1, <1>4, BufferedValues
  <2>2. Buffered(Len(input')) = InputChanLen
    BY <1>1, <1>3, <1>4, BufferedValues
  <2>3. Admitted' = Admitted + 1
    BY <1>1, <2>1, <2>2 DEF Admitted
  <2>4. Admitted < Len(Pipe)
    BY <1>1, <1>2, <1>4, <2>1 DEF Admitted
  <2>5. MaxLength > 0 => Admitted < MaxLength + InputChanLen
    BY <1>1, <2>1 DEF Admitted
  <2>6. Fifo!Room
    BY <2>5 DEF Fifo!Room, Admitted, Buffered
  <2>7. Fifo!Admit
    BY <1>1, <2>3, <2>4, <2>6 DEF Fifo!Admit, Pipe, Admitted, Buffered
  <2> QED
    BY <2>7 DEF Fifo!Next
<1>5. CASE Len(input) <= InputChanLen
  <2>1. Buffered(Len(input)) = Len(input)
    BY <1>1, <1>5, BufferedValues
  <2>2. Buffered(Len(input')) = Len(input) - 1
    BY <1>1, <1>3, <1>5, BufferedValues
  <2>3. Admitted' = Admitted
    BY <1>1, <2>1, <2>2 DEF Admitted
  <2> QED
    BY <1>1, <2>3 DEF Fifo!vars, Pipe, Admitted, Buffered
<1> QED
  BY <1>1, <1>4, <1>5

(* What Run loses when it stops is the slice, the oldest part of the pipe. *)
LEMMA FifoStop ==
  ASSUME QueueInv, Stop
  PROVE  Fifo!Close
PROOF
<1>1. /\ msgs \in Seq(Values) /\ input \in Seq(Values)
      /\ msgs' = <<>> /\ input' = input
      /\ sel # "stopped" /\ sel' = "stopped"
  BY DEF QueueInv, TypeOK, Stop
<1>2. Len(msgs) \in Nat /\ Len(input) \in Nat
  BY <1>1
<1>3. Buffered(Len(input)) \in Nat
  BY <1>2, QueueAssumption DEF Buffered
<1>4. Pipe' = SubSeq(Pipe, Len(msgs) + 1, Len(Pipe))
  BY <1>1, BehindTheFirst DEF Pipe
<1>5. Len(msgs) \in 0..Admitted /\ Admitted' = Admitted - Len(msgs)
  BY <1>1, <1>2, <1>3 DEF Admitted
<1> QED
  BY <1>1, <1>4, <1>5 DEF Fifo!Close, Pipe, Admitted, Buffered

(* Every step of the queue is a step of the FIFO, or none. *)
LEMMA FifoStep == QueueInv /\ [Next]_vars => [Fifo!Next]_(Fifo!vars)
<1> SUFFICES ASSUME QueueInv, [Next]_vars
             PROVE  [Fifo!Next]_(Fifo!vars)
  OBVIOUS
<1> USE QueueAssumption
<1>1. ASSUME NEW v \in Values \ InFlight, Send(v)
      PROVE  [Fifo!Next]_(Fifo!vars)
  BY <1>1, FifoSend
<1>2. CASE FirstReceive
  <2>1. Len(msgs) = 0
    BY <1>2 DEF FirstReceive, QueueInv, SelectMatchesBacklog
  <2> QED
    BY <1>2, <2>1, FifoReceive DEF FirstReceive
<1>3. CASE SecondReceive
  <2>1. MaxLength > 0 => Len(msgs) < MaxLength
    BY <1>3 DEF SecondReceive, Full, QueueInv, TypeOK
  <2> QED
    BY <1>3, <2>1, FifoReceive DEF SecondReceive, SelectFor
<1>4. CASE Deliver
  <2>1. /\ Pipe' = Tail(Pipe)
        /\ Len(msgs') = Len(msgs) - 1
        /\ Len(msgs) \in Nat \ {0}
    BY <1>4, TailLeft DEF Deliver, Pipe, QueueInv, TypeOK
  <2>2. Len(input) \in Nat
    BY DEF QueueInv, TypeOK
  <2>3. Admitted' = Admitted - 1 /\ Admitted > 0
    BY <1>4, <2>1, <2>2 DEF Deliver, Admitted, Buffered
  <2>4. sel # "stopped" /\ sel' # "stopped"
    BY <1>4 DEF Deliver, SelectFor
  <2>5. Fifo!Take
    BY <2>1, <2>3, <2>4 DEF Fifo!Take, Pipe, Admitted, Buffered
  <2> QED
    BY <2>5 DEF Fifo!Next
<1>5. CASE Stop
  BY <1>5, FifoStop DEF Fifo!Next
<1>6. CASE Cancel
  BY <1>6 DEF Cancel, Fifo!vars
<1>7. CASE UNCHANGED vars
  BY <1>7 DEF vars, Fifo!vars
<1> QED
  BY <1>1, <1>2, <1>3, <1>4, <1>5, <1>6, <1>7 DEF Next, Run

(* Channel and slice together are one bounded FIFO, for every set of       *)
(* messages, every limit (also none) and every buffer size (also none):    *)
(* nothing is lost, duplicated or overtaken in Run, and no sender goes on  *)
(* before there is room for its message.                                   *)
THEOREM FifoImplemented == Spec => ImplementsFifo
  BY FifoInit, QueueInvariant, FifoStep, PTL
  DEF Spec, ImplementsFifo, Fifo!Spec
-----------------------------------------------------------------------------
(***************************************************************************)
(* The gauge.  It can only be off after the first select, which is entered *)
(* with an empty slice: what the gauge said before was 0, so that exactly  *)
(* the one message just received is missing.  A stop ends the claim.       *)
(***************************************************************************)
GaugeInv == QueueInv /\ GaugeErrorBounded

(* A fresh gauge and an empty slice agree. *)
LEMMA GaugeInvInit == MetricsInit => GaugeInv
<1> SUFFICES ASSUME MetricsInit PROVE GaugeInv
  OBVIOUS
<1>1. QueueInv
  BY QueueInvInit DEF MetricsInit
<1>2. gauge = Len(msgs)
  BY DEF MetricsInit, Init
<1> QED
  BY <1>1, <1>2 DEF GaugeInv, GaugeErrorBounded

(* The gauge changes nothing about the queue. *)
LEMMA MetricsStepIsQueueStep == [MetricsNext]_mvars => [Next]_vars
<1> SUFFICES ASSUME [MetricsNext]_mvars PROVE [Next]_vars
  OBVIOUS
<1>1. CASE MetricsNext
  BY <1>1 DEF MetricsNext, MetricsRun, Next, Run
<1>2. CASE UNCHANGED mvars
  BY <1>2 DEF mvars
<1> QED
  BY <1>1, <1>2

(* Only the first select moves a message without setting the gauge. *)
LEMMA GaugeInvStep == GaugeInv /\ [MetricsNext]_mvars => GaugeInv'
<1> SUFFICES ASSUME GaugeInv, [MetricsNext]_mvars
             PROVE  GaugeInv'
  OBVIOUS
<1>1. QueueInv'
  BY QueueInvStep, MetricsStepIsQueueStep DEF GaugeInv
<1>2. CASE FirstReceive /\ UNCHANGED gauge
  <2>1. Len(msgs) = 0
    BY <1>2 DEF FirstReceive, GaugeInv, QueueInv, SelectMatchesBacklog
  <2>2. Len(msgs') = Len(msgs) + 1
    BY <1>2, MoveHead DEF FirstReceive, GaugeInv, QueueInv, TypeOK
  <2>3. gauge' = 0 /\ Len(msgs') = 1
    BY <1>2, <2>1, <2>2 DEF FirstReceive, GaugeInv, GaugeErrorBounded
  <2> QED
    BY <1>1, <2>3 DEF GaugeInv, GaugeErrorBounded
<1>3. CASE (SecondReceive \/ Deliver) /\ SetGauge
  BY <1>1, <1>3 DEF SetGauge, GaugeInv, GaugeErrorBounded
<1>4. ASSUME UNCHANGED <<msgs, sel, gauge>> PROVE GaugeInv'
  BY <1>1, <1>4 DEF GaugeInv, GaugeErrorBounded
<1>5. CASE \E v \in Values \ InFlight : Send(v) /\ UNCHANGED gauge
  BY <1>4, <1>5 DEF Send
<1>6. CASE Cancel /\ UNCHANGED gauge
  BY <1>4, <1>6 DEF Cancel
<1>7. CASE Stop /\ UNCHANGED gauge
  BY <1>1, <1>7 DEF Stop, GaugeInv, GaugeErrorBounded
<1>8. CASE UNCHANGED mvars
  BY <1>4, <1>8 DEF mvars, vars
<1> QED
  BY <1>2, <1>3, <1>5, <1>6, <1>7, <1>8 DEF MetricsNext, MetricsRun

(* For every limit and buffer size: as long as Run goes on, the exported   *)
(* length counts no message that is gone, and misses at most one.          *)
THEOREM GaugeNearLength == MetricsSpec => []GaugeErrorBounded
<1>1. GaugeInv => GaugeErrorBounded
  BY DEF GaugeInv
<1> QED
  BY <1>1, GaugeInvInit, GaugeInvStep, PTL DEF MetricsSpec
=============================================================================

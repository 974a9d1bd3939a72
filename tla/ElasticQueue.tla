---------------------------- MODULE ElasticQueue ----------------------------
(***************************************************************************)
(* utils.ElasticQueue: a goroutine between two Go channels that keeps the  *)
(* backlog in a slice.  Run is a loop around two selects:                  *)
(*                                                                         *)
(*   "first"   entered with an empty slice: receive from input, or stop    *)
(*   "second"  receive from input (a nil channel when the slice is full),  *)
(*             hand msgs[0] to a receiver on output, or stop               *)
(*                                                                         *)
(* The Go channel "input" is one sequence: its first InputChanLen values   *)
(* are in the channel's buffer, the others belong to goroutines parked in  *)
(* their send, in the runtime's first-come order.  "output" is unbuffered, *)
(* so a delivery is one step of the queue and of its receiver; a module    *)
(* that has a receiver conjoins it to Deliver.                             *)
(***************************************************************************)
EXTENDS Naturals, Sequences, SequencesExt

CONSTANTS
  Values,        (* the messages; two sends never carry the same one, a    *)
                 (* request holds the response channel made for it         *)
  MaxLength,     (* options.MaxLength; 0 means the slice is not limited    *)
  InputChanLen   (* options.InputQueueChanLen                              *)

ASSUME QueueAssumption ==
  /\ MaxLength \in Nat
  /\ InputChanLen \in Nat

VARIABLES
  input,    (* the input channel: buffered values, then parked senders     *)
  msgs,     (* the slice of Run, without the receive times; it dies with   *)
            (* Run                                                         *)
  sel,      (* the select Run is blocked at, or "stopped"                  *)
  ctxDone   (* the context given to Run is done                            *)

vars == <<input, msgs, sel, ctxDone>>

Positions == {"first", "second", "stopped"}

InFlight == ToSet(input) \cup ToSet(msgs)

(* The goroutine that sends v has not been released yet. *)
Parked(v) ==
  \E i \in DOMAIN input : i > InputChanLen /\ input[i] = v

(* A limit that lets one message too many in. *)
FullOffByOne == MaxLength > 0 /\ MaxLength < Len(msgs)

(* input = nil in the second select *)
Full == MaxLength > 0 /\ MaxLength <= Len(msgs)

(* Run always goes back to the select that only receives, or never does. *)
AlwaysFirst(m) == "first"
AlwaysSecond(m) == "second"

(* The select reached after a turn of the loop that leaves backlog m. *)
SelectFor(m) == IF m = <<>> THEN "first" ELSE "second"
-----------------------------------------------------------------------------
Init ==
  /\ input = <<>>
  /\ msgs = <<>>
  /\ sel = "first"
  /\ ctxDone = FALSE

(* q.Input() <- v, up to the moment the sender is buffered or parked. *)
Send(v) ==
  /\ input' = Append(input, v)
  /\ UNCHANGED <<msgs, sel, ctxDone>>

(* The first select stores the message struct where its value is due. *)
FirstReceiveWrapped ==
  /\ sel = "first"
  /\ input # <<>>
  /\ input' = Tail(input)
  /\ msgs' = Append(msgs, <<Head(input)>>)
  /\ sel' = "second"
  /\ UNCHANGED ctxDone

(* The first select falls through to the second one, it does not loop. *)
FirstReceive ==
  /\ sel = "first"
  /\ input # <<>>
  /\ input' = Tail(input)
  /\ msgs' = Append(msgs, Head(input))
  /\ sel' = "second"
  /\ UNCHANGED ctxDone

SecondReceive ==
  /\ sel = "second"
  /\ ~Full
  /\ input # <<>>
  /\ input' = Tail(input)
  /\ msgs' = Append(msgs, Head(input))
  /\ sel' = SelectFor(msgs')
  /\ UNCHANGED ctxDone

(* The newest message is handed over: msgs[len(msgs)-1]. *)
DeliverNewest ==
  /\ sel = "second"
  /\ msgs # <<>>
  /\ msgs' = Front(msgs)
  /\ sel' = SelectFor(msgs')
  /\ UNCHANGED <<input, ctxDone>>

(* msgs = msgs[1:] is forgotten. *)
DeliverAgain ==
  /\ sel = "second"
  /\ msgs # <<>>
  /\ UNCHANGED <<input, msgs, sel, ctxDone>>

(* q.output <- msgs[0].value; with an empty slice msgs[0] would panic *)
Deliver ==
  /\ sel = "second"
  /\ msgs # <<>>
  /\ msgs' = Tail(msgs)
  /\ sel' = SelectFor(msgs')
  /\ UNCHANGED <<input, ctxDone>>

(* Only the select that receives looks at the context. *)
StopWhenEmpty ==
  /\ ctxDone
  /\ sel = "first"
  /\ sel' = "stopped"
  /\ msgs' = <<>>
  /\ UNCHANGED <<input, ctxDone>>

(* case <-ctx.Done() of either select: Run returns and its slice is gone.  *)
(* What is in the channel stays there, nobody receives from it any more.   *)
Stop ==
  /\ ctxDone
  /\ sel \in {"first", "second"}
  /\ sel' = "stopped"
  /\ msgs' = <<>>
  /\ UNCHANGED <<input, ctxDone>>

(* Whoever owns the context ends it. *)
Cancel ==
  /\ ~ctxDone
  /\ ctxDone' = TRUE
  /\ UNCHANGED <<input, msgs, sel>>

Run == FirstReceive \/ SecondReceive \/ Deliver \/ Stop

Next ==
  \/ \E v \in Values \ InFlight : Send(v)
  \/ Run
  \/ Cancel

Spec == Init /\ [][Next]_vars

(***************************************************************************)
(* Run is one goroutine and the receiver keeps returning to the output     *)
(* channel: some case of a select that can proceed is eventually taken.    *)
(* Nothing is assumed about which one, Go's choice may be as unfair as it  *)
(* likes between input and output.                                         *)
(***************************************************************************)
FairSpec == Spec /\ WF_vars(Run)
-----------------------------------------------------------------------------
TypeOK ==
  /\ input \in Seq(Values)
  /\ msgs \in Seq(Values)
  /\ sel \in Positions
  /\ ctxDone \in BOOLEAN

(***************************************************************************)
(* The second select evaluates msgs[0] before it waits: it is never        *)
(* entered with an empty slice, so Run cannot die of an index out of       *)
(* range.  And the first select, which ignores the receiver, is never      *)
(* entered while a message is owed to it.                                  *)
(***************************************************************************)
SelectMatchesBacklog ==
  /\ sel = "first" => msgs = <<>>
  /\ sel = "second" => msgs # <<>>

(***************************************************************************)
(* WithMaxLength: the slice never exceeds the limit, although the first    *)
(* select receives without testing it.                                     *)
(***************************************************************************)
BacklogBounded == MaxLength > 0 => Len(msgs) <= MaxLength

(***************************************************************************)
(* Between them the channel and the slice behave as one bounded FIFO: no   *)
(* message is lost, duplicated or overtaken on its way from the channel to *)
(* the slice and out, and no sender is released beyond the capacity.  A    *)
(* stop loses the oldest messages and no other: those whose senders have   *)
(* gone on, never that of a sender that is still parked.                   *)
(***************************************************************************)
Fifo == INSTANCE BoundedFifo WITH
          Capacity <- IF MaxLength = 0 THEN 0 ELSE MaxLength + InputChanLen,
          pipe     <- msgs \o input,
          admitted <- Len(msgs) + IF Len(input) <= InputChanLen
                                  THEN Len(input) ELSE InputChanLen,
          closed   <- sel = "stopped"

ImplementsFifo == Fifo!Spec

(***************************************************************************)
(* Every message sent is handed over, or the queue is told to stop: also   *)
(* when the queue is full, when senders are parked, and when select always *)
(* prefers the case that does not serve this message.                      *)
(***************************************************************************)
EveryMessageDelivered ==
  \A v \in Values : v \in InFlight ~> (v \notin InFlight \/ ctxDone)
=============================================================================

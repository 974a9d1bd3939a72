------------------------ MODULE ElasticQueueMetrics ------------------------
(***************************************************************************)
(* ElasticQueue with the queue_length gauge it exports.  The gauge is set  *)
(* at the end of every turn of the loop, and the first select does not end *)
(* a turn: a message that enters an empty queue is not counted until the   *)
(* second select has completed too.                                        *)
(***************************************************************************)
EXTENDS ElasticQueue

VARIABLE gauge   (* the value last exported; a fresh gauge reads 0 *)

mvars == <<vars, gauge>>

MetricsInit == Init /\ gauge = 0

(* The gauge is set before the select takes effect. *)
SetGaugeEarly == gauge' = Len(msgs)

(* A turn of the loop that passes its second select sets the gauge. *)
SetGauge == gauge' = Len(msgs')

MetricsRun ==
  \/ FirstReceive /\ UNCHANGED gauge
  \/ SecondReceive /\ SetGauge
  \/ Deliver /\ SetGauge
  \/ Stop /\ UNCHANGED gauge

MetricsNext ==
  \/ \E v \in Values \ InFlight : Send(v) /\ UNCHANGED gauge
  \/ MetricsRun
  \/ Cancel /\ UNCHANGED gauge

MetricsSpec == MetricsInit /\ [][MetricsNext]_mvars

(* As in ElasticQueue: Run goes on, its select may be unfair. *)
MetricsFairSpec == MetricsSpec /\ WF_mvars(MetricsRun)
-----------------------------------------------------------------------------
(***************************************************************************)
(* What the gauge's help text says it is: whenever Run waits in a select,  *)
(* the gauge is the number of messages in the queue.                       *)
(***************************************************************************)
GaugeIsLength == gauge = Len(msgs)

(***************************************************************************)
(* How far the exported length can be off while Run goes on: it shows no   *)
(* message that is gone, and misses at most the one message of a queue     *)
(* that was empty.  Once Run has stopped nothing sets the gauge again: it  *)
(* may show for ever a backlog that was dropped.                           *)
(***************************************************************************)
GaugeErrorBounded ==
  sel # "stopped" => \/ gauge = Len(msgs)
                     \/ gauge = 0 /\ Len(msgs) = 1
=============================================================================

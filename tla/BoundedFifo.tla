----------------------------- MODULE BoundedFifo -----------------------------
(***************************************************************************)
(* What the request queue of the prover promises to the goroutines on its  *)
(* two ends, without goroutines, channels or slices: values leave in the   *)
(* order in which they were offered, each exactly once, and at most        *)
(* Capacity of them are past the point where their sender is released.  If *)
(* it is closed, it may lose values, but none whose sender still waits.    *)
(*                                                                         *)
(* ElasticQueue implements this specification.                             *)
(***************************************************************************)
EXTENDS Naturals, Sequences

CONSTANTS
  Values,    (* what travels through the queue                             *)
  Capacity   (* how many values may be admitted at once; 0 means no limit  *)

VARIABLES
  pipe,      (* every value offered and not yet taken, oldest first        *)
  admitted,  (* the first "admitted" values of pipe: their sender is free  *)
  closed     (* the queue has stopped: nothing more is admitted or taken   *)

vars == <<pipe, admitted, closed>>

Room == Capacity = 0 \/ admitted < Capacity

Init ==
  /\ pipe = <<>>
  /\ admitted = 0
  /\ closed = FALSE

(* A sender offers a value and waits. *)
Offer(v) ==
  /\ pipe' = Append(pipe, v)
  /\ UNCHANGED <<admitted, closed>>

(* A sender offers a value that is admitted on the spot, nobody waiting. *)
OfferAdmitted(v) ==
  /\ admitted = Len(pipe)
  /\ Room
  /\ pipe' = Append(pipe, v)
  /\ admitted' = admitted + 1
  /\ UNCHANGED closed

(* The longest waiting sender is released. *)
Admit ==
  /\ ~closed
  /\ Room
  /\ admitted < Len(pipe)
  /\ admitted' = admitted + 1
  /\ UNCHANGED <<pipe, closed>>

(* The oldest value leaves; it had been admitted. *)
Take ==
  /\ ~closed
  /\ admitted > 0
  /\ pipe' = Tail(pipe)
  /\ admitted' = admitted - 1
  /\ UNCHANGED closed

(* The queue stops, and may lose the oldest of the values it has admitted. *)
Close ==
  /\ ~closed
  /\ closed' = TRUE
  /\ \E n \in 0..admitted :
       /\ pipe' = SubSeq(pipe, n + 1, Len(pipe))
       /\ admitted' = admitted - n

Next ==
  \/ \E v \in Values : Offer(v) \/ OfferAdmitted(v)
  \/ Admit
  \/ Take
  \/ Close

Spec == Init /\ [][Next]_vars
=============================================================================

----------------------------- MODULE ApiProcess -----------------------------
(***************************************************************************)
(* The process around ApiServer: main, which goes through its steps once   *)
(* and ends in ListenAndServe, the prover goroutine it starts on the way,  *)
(* and the end of the process, which takes every request with it.          *)
(*                                                                         *)
(* Each step of main may fail, which ends the process (log.Panicf,         *)
(* logger.Fatal).  So does the goroutine of the metrics server when it     *)
(* cannot listen, whatever is being served by then.                        *)
(***************************************************************************)
EXTENDS ApiServer

VARIABLES
  at,        (* the step that main is at, or "exited"                      *)
  prover     (* the goroutine of Prover.Run                                *)

processVars == <<at, prover>>

Goroutine == {"none", "started", "running"}

Steps == {"load", "run", "listen", "serve", "exited"}

ProcessInit ==
  /\ at = "load"
  /\ prover = "none"

Goto(from, to) == at = from /\ at' = to

(* os.Exit and panics do not wait for anybody, and nothing is persistent.  *)
Exit ==
  /\ at # "exited"
  /\ at' = "exited"
  /\ prover' = "none"
  /\ phase' = [r \in Requests |-> "idle"]
  /\ op' = [r \in Requests |-> "GetWalletInfo"]
  /\ account' = [r \in Requests |-> NoAccount]
  /\ reply' = [r \in Requests |-> Api!NoReply]
  /\ gone' = {}
  /\ stage' = [r \in Requests |-> "idle"]
  /\ req' = [r \in Requests |-> NoCall]
  /\ sent' = [r \in Requests |-> <<>>]
  /\ requests' = 0
  /\ errors' = 0
  /\ failures' = 0
  /\ UNCHANGED calls

(* Configuration, logger, address of the jetton master, and NewHandler: a  *)
(* lite client, the configuration of the blockchain and the airdrop file.  *)
Load == Goto("load", "run") /\ UNCHANGED prover

(* main with handler.Run after server.Run, which it never gets to. *)
RunHandlerTooLate == Goto("run", "listen") /\ UNCHANGED prover

(* handler.Run(context.TODO()) *)
RunHandler == Goto("run", "listen") /\ prover' = "started"

(* NewServer, the goroutine of the metrics server, and Server.Run, which    *)
(* does not return while the server listens.                              *)
Listen == Goto("listen", "serve") /\ UNCHANGED prover

Main == Load \/ RunHandler \/ Listen

(* The scheduler comes to it some time after the go statement. *)
ProverRuns == prover = "started" /\ prover' = "running" /\ UNCHANGED at

(* Started again by whoever looks after the process. *)
Restart == Goto("exited", "load") /\ UNCHANGED prover

Listening == at = "serve"

(* Without the prover goroutine nobody reads the queue (ClaimService). *)
Answers(r) == prover = "running" /\ HandlerReturns(r)

(* ApiServer!Serve, by this process. *)
Work(r) ==
  /\ \/ DecodeFails(r) \/ GetApiInfo(r) \/ CallHandler(r) \/ Answers(r)
     \/ EncodeResponse(r) \/ EncodeErrorResponse(r)
     \/ RecordError(r) \/ CountRequest(r)
  /\ UNCHANGED processVars

ProcessTypeOK ==
  /\ at \in Steps
  /\ prover \in Goroutine
=============================================================================

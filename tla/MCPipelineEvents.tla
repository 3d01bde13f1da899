-------------------------- MODULE MCPipelineEvents --------------------------
(* A small instance of PipelineEvents for TLC.                             *)
EXTENDS PipelineEvents, Naturals, TLC

CONSTANTS build, retry, started, restarted, passed, broke, crashed, canceled,
          retried

(* One run that reports every status, RUNNING and FAILED twice, and a      *)
(* second attempt of it, which is a run of its own.                        *)
Runs == {build, retry}
Bodies ==
  started :> [run |-> build, status |-> "RUNNING"] @@
  restarted :> [run |-> build, status |-> "RUNNING"] @@
  passed :> [run |-> build, status |-> "SUCCESS"] @@
  broke :> [run |-> build, status |-> "FAILED"] @@
  crashed :> [run |-> build, status |-> "FAILED"] @@
  canceled :> [run |-> build, status |-> "CANCELED"] @@
  retried :> [run |-> retry, status |-> "FAILED"]

(* Deliveries differ in nothing but their number, so it is enough to let   *)
(* them arrive in that order.                                              *)
ArrivalOrder ==
  \A d \in Delivery : pc[d] # "idle" => \A c \in 1..d : pc[c] # "idle"
=============================================================================

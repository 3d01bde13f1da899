------------------------- MODULE MCIncidentAnalysis -------------------------
(* A small instance of IncidentAnalysis for TLC.                           *)
EXTENDS IncidentAnalysis, TLC

CONSTANTS meta, log, dq1, dq2, summary, runbook

(* The log store may be unavailable or have nothing; the metadata of the   *)
(* run is always there.                                                    *)
Offers == {{meta}, {meta, log}}

(* Requests differ in nothing but their number, so it is enough to let     *)
(* them arrive in that order.                                              *)
ArrivalOrder ==
  \A r \in Request : pc[r] # "idle" => \A q \in 1..r : pc[q] # "idle"
=============================================================================

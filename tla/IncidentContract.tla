-------------------------- MODULE IncidentContract --------------------------
(***************************************************************************)
(* How the requests that work on one incident share its row and its        *)
(* reports, without evidence, plans, locks or sources: an analysis and a   *)
(* verification load the status, and write it later on what they loaded;   *)
(* a collection writes it outright; no input gets two reports; and only a  *)
(* verification resolves the incident.                                     *)
(*                                                                         *)
(* IncidentAnalysis implements it with verifying = {}; Recovery, which     *)
(* knows of an analysis only that it ends, implements all of it.           *)
(***************************************************************************)
CONSTANTS Request, Input

VARIABLES
  status,      \* the incident's status
  reports,     \* its reports, each with the input it was made from
  subject,     \* the input of each analysis: {} or {i}
  verifying,   \* the requests that carry a verdict
  loaded       \* the status as each request loaded it

vars == <<status, reports, subject, verifying, loaded>>

Init ==
  /\ status = "OPEN" /\ reports = {} /\ verifying = {}
  /\ subject = [r \in Request |-> {}]
  /\ loaded = [r \in Request |-> "OPEN"]

Load(r) == loaded' = [loaded EXCEPT ![r] = status]

StartAnalysis(r) ==
  /\ subject[r] = {} /\ r \notin verifying
  /\ \E i \in subject'[r] : i \in Input /\ subject' = [subject EXCEPT ![r] = {i}]
  /\ Load(r)
  /\ UNCHANGED <<status, reports, verifying>>

ReceiveVerdict(r) ==
  /\ subject[r] = {} /\ r \notin verifying
  /\ verifying' = verifying \cup {r}
  /\ Load(r)
  /\ UNCHANGED <<status, reports, subject>>

End(r) ==
  /\ subject[r] # {} \/ r \in verifying
  /\ subject' = [subject EXCEPT ![r] = {}]
  /\ verifying' = verifying \ {r}
  /\ loaded' = [loaded EXCEPT ![r] = "OPEN"]

Write(r, to) == status' = IF loaded[r] = to THEN status ELSE to

Publish(r) ==
  /\ End(r)
  /\ \A rep \in reports : rep.input \notin subject[r]
  /\ \E rep \in reports' : rep.input \in subject[r] /\ reports' = reports \cup {rep}
  /\ Write(r, "ACTION_REQUIRED")

FindInsufficient(r) ==
  /\ End(r) /\ subject[r] # {}
  /\ Write(r, "ACTION_REQUIRED")
  /\ UNCHANGED reports

Verify(r) ==
  /\ End(r) /\ r \in verifying
  /\ \E to \in {"RESOLVED", "ACTION_REQUIRED"} : Write(r, to)
  /\ UNCHANGED reports

GiveUp(r) == End(r) /\ UNCHANGED <<status, reports>>

Collect ==
  /\ status' \in {"ANALYZING", "ACTION_REQUIRED"}
  /\ UNCHANGED <<reports, subject, verifying, loaded>>

Next ==
  \/ \E r \in Request :
       \/ StartAnalysis(r) \/ ReceiveVerdict(r)
       \/ Publish(r) \/ FindInsufficient(r) \/ Verify(r) \/ GiveUp(r)
  \/ Collect

Spec == Init /\ [][Next]_vars
=============================================================================

----------------------------- MODULE MCRecovery -----------------------------
(* Small instances of Recovery for TLC.                                    *)
EXTENDS Recovery, FiniteSets, TLC

CONSTANTS sound, pinned, unpinned, unsure, incomplete, escalated, proposed

Sound == [validated |-> TRUE, confident |-> TRUE, missing |-> FALSE,
          action |-> "RETRY", immutable |-> FALSE]
Unpinned == [Sound EXCEPT !.action = "ROLLBACK_IMAGE"]

GitHubCapabilities == {"RETRY", "QUARANTINE", "ROLLBACK_IMAGE"}

(* One report that leads to an executable plan.                            *)
OneReport == {sound}
OneRca == [rep \in OneReport |-> Sound]

(* Two executable plans of one incident.                                   *)
TwoReports == {sound, pinned}
TwoRca == sound :> Sound @@ pinned :> [Unpinned EXCEPT !.immutable = TRUE]

(* One report for each answer of the policy and of the executor.           *)
EveryReport ==
  {sound, pinned, unpinned, unsure, incomplete, escalated, proposed}
EveryRca ==
  [rep \in EveryReport |->
     CASE rep = sound -> Sound
       [] rep = pinned -> [Unpinned EXCEPT !.immutable = TRUE]
       [] rep = unpinned -> Unpinned
       [] rep = unsure -> [Sound EXCEPT !.confident = FALSE]
       [] rep = incomplete -> [Sound EXCEPT !.missing = TRUE]
       [] rep = escalated -> [Sound EXCEPT !.action = "ESCALATE"]
       [] rep = proposed -> [Sound EXCEPT !.action = "CREATE_PR"]]

(* Requests differ in nothing but their name, so it is enough to let them  *)
(* arrive in the order of their numbers.                                   *)
ArrivalOrder ==
  \A r \in Request : pc[r] # "idle" => \A q \in 1..r : pc[q] # "idle"

(* Bound: a second report can replace the one a plan is derived from while *)
(* that plan is decided or executed, a third one cannot.                   *)
AtMostTwoReports ==
  LET analyzing == {r \in Request : pc[r] = "analyzing"} IN
  Cardinality(reports \cup {target[r] : r \in analyzing}) <= 2

(* The state six requests leave behind that analysed the incident twice,   *)
(* planned each report as it came and had both plans approved.             *)
InitTwoApproved ==
  /\ incident = "ACTION_REQUIRED"
  /\ reports = TwoReports /\ latest = pinned
  /\ decision = [p \in Report |-> "REQUIRE_APPROVAL"]
  /\ approval = [p \in Report |-> "APPROVED"]
  /\ attempt = [p \in Report |-> "ABSENT"]
  /\ reference = [p \in Report |-> FALSE]
  /\ verified = [p \in Report |-> "NONE"]
  /\ audit = {[by |-> 1, type |-> "PLAN_CREATED", plan |-> sound],
              [by |-> 2, type |-> "PLAN_CREATED", plan |-> pinned],
              [by |-> 3, type |-> "PLAN_APPROVED", plan |-> sound],
              [by |-> 4, type |-> "PLAN_APPROVED", plan |-> pinned]}
  /\ dispatches = [p \in Report |-> 0]
  /\ pc = [r \in Request |-> IF r <= 6 THEN "done" ELSE "idle"]
  /\ target = [r \in Request |-> NoReport]
  /\ verdict = [r \in Request |-> "NONE"]
  /\ seen = [r \in Request |-> "OPEN"]

SpecTwoApproved == InitTwoApproved /\ [][Next]_vars /\ Fairness
=============================================================================

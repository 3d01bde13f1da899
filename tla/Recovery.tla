------------------------------ MODULE Recovery ------------------------------
(***************************************************************************)
(* Policy-gated recovery of one incident: a plan is derived from the       *)
(* newest RCA report, an operator approves or rejects it, an executor      *)
(* dispatches it to the provider at most once, and a verification callback *)
(* from the recovery workflow closes the attempt and the incident.         *)
(*                                                                         *)
(* Every HTTP request runs in its own thread with its own database         *)
(* session at READ COMMITTED.  A request is therefore a process: it reads  *)
(* rows, evaluates its guards on what it read, and later commits all its   *)
(* writes at once.  Between the two, other requests commit.  An UPDATE     *)
(* writes only the columns whose value differs from the one the session    *)
(* loaded, which is why a request remembers the incident status it saw.    *)
(*                                                                         *)
(* A plan is unique per (report, policy version) and an attempt is unique  *)
(* per plan, so Report also indexes the plans and the attempts.            *)
(***************************************************************************)
EXTENDS Naturals

CONSTANTS
  Report,        \* RCA reports the analyses of this incident can store
  Request,       \* requests, each of which is served once
  NoReport,      \* "no row"
  Rca,           \* what each report says, see RcaFacts
  Capabilities,  \* action types the configured executor can dispatch
  Abortable      \* requests whose worker may die before its next commit

ActionType == {"RETRY", "QUARANTINE", "ROLLBACK_IMAGE", "CREATE_PR",
               "ESCALATE", "NO_ACTION"}
RcaFacts == [validated: BOOLEAN, confident: BOOLEAN, missing: BOOLEAN,
             action: ActionType, immutable: BOOLEAN]
Result == {"PASSED", "FAILED"}

ASSUME RcaAssumption == Rca \in [Report -> RcaFacts]
ASSUME NoReportAssumption == NoReport \notin Report

VARIABLES
  incident,      \* incident.status
  reports,       \* RCA reports committed
  latest,        \* the newest of them
  decision,      \* plan.policy_decision, "NONE" where there is no plan
  approval,      \* plan.approval_status, "ABSENT" where there is no plan
  attempt,       \* attempt.status, "ABSENT" where there is no attempt
  reference,     \* attempt.external_reference is set
  verified,      \* attempt.verification_status, "NONE" when null
  audit,         \* the recovery_audit_events table
  dispatches,    \* workflow runs the provider has accepted, per plan
  pc,            \* what each request does next
  target,        \* the report (plan, attempt) each request works on
  verdict,       \* what each verification callback carries
  seen           \* incident.status as each request loaded it

plans == <<decision, approval>>
attempts == <<attempt, reference, verified>>
analyses == <<reports, latest>>
db == <<incident, analyses, plans, attempts, audit>>
request == <<pc, target, verdict, seen>>
vars == <<db, dispatches, request>>

IncidentStatus == {"OPEN", "ANALYZING", "ACTION_REQUIRED", "RESOLVED"}
Decision == {"NONE", "DENIED", "REQUIRE_APPROVAL"}
Approval == {"ABSENT", "NOT_REQUIRED", "PENDING", "APPROVED", "REJECTED"}
AttemptStatus == {"ABSENT", "PENDING", "DISPATCHED", "FAILED", "VERIFIED"}
EventType == {"PLAN_CREATED", "PLAN_APPROVED", "PLAN_REJECTED",
              "EXECUTION_DISPATCHED", "EXECUTION_FAILED",
              "VERIFICATION_PASSED", "VERIFICATION_FAILED"}
Dispatching == {"dispatching", "accepted", "refused"}
InFlight == {"creating", "approving", "rejecting", "executing", "callback",
             "verifying", "analyzing"} \cup Dispatching
-----------------------------------------------------------------------------
(* The policy recovery-v1.                                                 *)

DeniedIgnoringPins(rep) ==
  \/ ~Rca[rep].validated
  \/ ~Rca[rep].confident
  \/ Rca[rep].missing
  \/ Rca[rep].action \in {"ESCALATE", "NO_ACTION"}
Denied(rep) ==
  \/ ~Rca[rep].validated
  \/ ~Rca[rep].confident
  \/ Rca[rep].missing
  \/ Rca[rep].action \in {"ESCALATE", "NO_ACTION"}
  \/ Rca[rep].action = "ROLLBACK_IMAGE" /\ ~Rca[rep].immutable

PolicyDecision(rep) == IF Denied(rep) THEN "DENIED" ELSE "REQUIRE_APPROVAL"
InitialApproval(rep) == IF Denied(rep) THEN "NOT_REQUIRED" ELSE "PENDING"
-----------------------------------------------------------------------------
(* Requests and the audit trail.                                           *)

Begin(r, step, rep) ==
  /\ pc[r] = "idle"
  /\ pc' = [pc EXCEPT ![r] = step]
  /\ target' = [target EXCEPT ![r] = rep]

Proceed(r, from, to) ==
  /\ pc[r] = from
  /\ pc' = [pc EXCEPT ![r] = to]
  /\ UNCHANGED <<target, verdict, seen>>

(* The response is sent and the session, with all it loaded, is closed.    *)
Finish(r, from) ==
  /\ pc[r] = from
  /\ pc' = [pc EXCEPT ![r] = "done"]
  /\ target' = [target EXCEPT ![r] = NoReport]
  /\ verdict' = [verdict EXCEPT ![r] = "NONE"]
  /\ seen' = [seen EXCEPT ![r] = "OPEN"]

RecordEventButFailures(r, type) ==
  audit' = IF type = "EXECUTION_FAILED" THEN audit
           ELSE audit \cup {[by |-> r, type |-> type, plan |-> target[r]]}

RecordEvent(r, type) ==
  audit' = audit \cup {[by |-> r, type |-> type, plan |-> target[r]]}

(* The status column is written only when it differs from what r loaded.   *)
WriteIncident(r, status) ==
  incident' = IF seen[r] = status THEN incident ELSE status

Init ==
  /\ incident = "OPEN"
  /\ reports = {} /\ latest = NoReport
  /\ decision = [p \in Report |-> "NONE"]
  /\ approval = [p \in Report |-> "ABSENT"]
  /\ attempt = [p \in Report |-> "ABSENT"]
  /\ reference = [p \in Report |-> FALSE]
  /\ verified = [p \in Report |-> "NONE"]
  /\ audit = {}
  /\ dispatches = [p \in Report |-> 0]
  /\ pc = [r \in Request |-> "idle"]
  /\ target = [r \in Request |-> NoReport]
  /\ verdict = [r \in Request |-> "NONE"]
  /\ seen = [r \in Request |-> "OPEN"]
-----------------------------------------------------------------------------
(* POST /analyze and POST /collect-evidence, as far as they touch the rows *)
(* of this module.                                                         *)

LoadIncidentForAnalysis(r, rep) ==
  /\ Begin(r, "analyzing", rep)
  /\ seen' = [seen EXCEPT ![r] = incident]
  /\ UNCHANGED <<db, dispatches, verdict>>

NewInput(rep) == rep \notin reports

CommitReport(r) ==
  /\ Finish(r, "analyzing")
  /\ NewInput(target[r])
  /\ reports' = reports \cup {target[r]}
  /\ latest' = target[r]
  /\ WriteIncident(r, "ACTION_REQUIRED")
  /\ UNCHANGED <<plans, attempts, audit, dispatches>>

CommitInsufficientEvidence(r) ==
  /\ Finish(r, "analyzing")
  /\ WriteIncident(r, "ACTION_REQUIRED")
  /\ UNCHANGED <<analyses, plans, attempts, audit, dispatches>>

(* The first UPDATE of a collection holds the incident's row lock until    *)
(* its commit, so the collection is one step for the other writers.        *)
CollectEvidence(r) ==
  /\ Finish(r, "idle")
  /\ incident' \in {"ANALYZING", "ACTION_REQUIRED"}
  /\ UNCHANGED <<analyses, plans, attempts, audit, dispatches>>
-----------------------------------------------------------------------------
(* Plans: create, approve, reject.                                         *)

NoPlan(rep) == approval[rep] = "ABSENT"

(* uq_recovery_plan_policy_input, which the INSERT meets at its flush.     *)
AnyPlan(rep) == rep \in Report
PlanUnique(rep) == NoPlan(rep)

LoadLatestReport(r) ==
  /\ latest # NoReport
  /\ NoPlan(latest)
  /\ Begin(r, "creating", latest)
  /\ UNCHANGED <<db, dispatches, verdict, seen>>

InsertPlan(r) ==
  /\ Finish(r, "creating")
  /\ PlanUnique(target[r])
  /\ decision' = [decision EXCEPT ![target[r]] = PolicyDecision(target[r])]
  /\ approval' = [approval EXCEPT ![target[r]] = InitialApproval(target[r])]
  /\ RecordEvent(r, "PLAN_CREATED")
  /\ UNCHANGED <<incident, analyses, attempts, dispatches>>

Pending(rep) == approval[rep] = "PENDING"

LoadPlanToApprove(r, rep) ==
  /\ Pending(rep)
  /\ decision[rep] = "REQUIRE_APPROVAL"
  /\ Begin(r, "approving", rep)
  /\ UNCHANGED <<db, dispatches, verdict, seen>>

Decide(r, from, status, type) ==
  /\ Finish(r, from)
  /\ approval' = [approval EXCEPT ![target[r]] = status]
  /\ RecordEvent(r, type)
  /\ UNCHANGED <<incident, analyses, decision, attempts, dispatches>>

CommitApproval(r) == Decide(r, "approving", "APPROVED", "PLAN_APPROVED")

LoadPlanToReject(r, rep) ==
  /\ Pending(rep)
  /\ Begin(r, "rejecting", rep)
  /\ UNCHANGED <<db, dispatches, verdict, seen>>

CommitRejection(r) == Decide(r, "rejecting", "REJECTED", "PLAN_REJECTED")
-----------------------------------------------------------------------------
(* Execution: the intent is committed before the provider is called.       *)

ExecutableUnlessRejected(rep) ==
  /\ decision[rep] = "REQUIRE_APPROVAL"
  /\ approval[rep] # "REJECTED"
  /\ Rca[rep].action \in Capabilities
Executable(rep) ==
  /\ decision[rep] # "DENIED"
  /\ approval[rep] \in {"APPROVED", "NOT_REQUIRED"}
  /\ Rca[rep].action \in Capabilities

NoAttempt(rep) == attempt[rep] = "ABSENT"

(* uq_recovery_attempt_plan, which decides a race of two executions.       *)
AnyAttempt(rep) == rep \in Report
AttemptUnique(rep) == NoAttempt(rep)

LoadPlanToExecute(r, rep) ==
  /\ Executable(rep)
  /\ NoAttempt(rep)
  /\ Begin(r, "executing", rep)
  /\ UNCHANGED <<db, dispatches, verdict, seen>>

InsertAttempt(r) ==
  /\ Proceed(r, "executing", "dispatching")
  /\ AttemptUnique(target[r])
  /\ attempt' = [attempt EXCEPT ![target[r]] = "PENDING"]
  /\ UNCHANGED <<incident, analyses, plans, reference, verified, audit,
                 dispatches>>

ProviderAccepts(r) ==
  /\ Proceed(r, "dispatching", "accepted")
  /\ dispatches' = [dispatches EXCEPT ![target[r]] = @ + 1]
  /\ UNCHANGED db

(* A malformed project, oversized parameters, a connection error or an     *)
(* error status: the provider starts nothing.                              *)
ProviderRefuses(r) ==
  /\ Proceed(r, "dispatching", "refused")
  /\ UNCHANGED <<db, dispatches>>

(* The workflow started, but the answer timed out or broke off.            *)
LoseReply(r) ==
  /\ Proceed(r, "accepted", "refused")
  /\ UNCHANGED <<db, dispatches>>

CommitDispatched(r) ==
  /\ Finish(r, "accepted")
  /\ attempt' = [attempt EXCEPT ![target[r]] = "DISPATCHED"]
  /\ reference' = [reference EXCEPT ![target[r]] = TRUE]
  /\ RecordEvent(r, "EXECUTION_DISPATCHED")
  /\ UNCHANGED <<incident, analyses, plans, verified, dispatches>>

FailWithoutRecord(r) ==
  /\ Finish(r, "refused")
  /\ UNCHANGED <<db, dispatches>>
CommitDispatchFailed(r) ==
  /\ Finish(r, "refused")
  /\ attempt' = [attempt EXCEPT ![target[r]] = "FAILED"]
  /\ RecordEvent(r, "EXECUTION_FAILED")
  /\ UNCHANGED <<incident, analyses, plans, reference, verified, dispatches>>
-----------------------------------------------------------------------------
(* Verification callbacks.  A workflow run the provider accepted may call  *)
(* back at any time, several times and with different verdicts.            *)

ReceiveCallback(r, rep, v) ==
  /\ dispatches[rep] > 0
  /\ Begin(r, "callback", rep)
  /\ verdict' = [verdict EXCEPT ![r] = v]
  /\ seen' = [seen EXCEPT ![r] = incident]
  /\ UNCHANGED <<db, dispatches>>

AwaitingAnyVerdict(rep) == attempt[rep] # "ABSENT" /\ verified[rep] = "NONE"
AwaitingVerification(rep) ==
  /\ reference[rep]
  /\ verified[rep] = "NONE"
  /\ attempt[rep] = "DISPATCHED"

LoadAttempt(r) ==
  /\ Proceed(r, "callback", "verifying")
  /\ AwaitingVerification(target[r])
  /\ UNCHANGED <<db, dispatches>>

IncidentAfterSwapped(status) ==
  IF status = "PASSED" THEN "ACTION_REQUIRED" ELSE "RESOLVED"
IncidentAfterCopied(status) == status
IncidentAfter(status) ==
  IF status = "PASSED" THEN "RESOLVED" ELSE "ACTION_REQUIRED"

CommitVerification(r) ==
  LET passed == verdict[r] = "PASSED" IN
  /\ Finish(r, "verifying")
  /\ verified' = [verified EXCEPT ![target[r]] = verdict[r]]
  /\ attempt' = [attempt EXCEPT ![target[r]] =
                   IF passed THEN "VERIFIED" ELSE "FAILED"]
  /\ WriteIncident(r, IncidentAfter(verdict[r]))
  /\ RecordEvent(r, IF passed THEN "VERIFICATION_PASSED"
                              ELSE "VERIFICATION_FAILED")
  /\ UNCHANGED <<analyses, plans, reference, dispatches>>
-----------------------------------------------------------------------------
(* Refusals: a unique constraint, a duplicate, a conflict or a failed      *)
(* analysis rolls the request back and answers with an error.              *)
Refuse(r) ==
  /\ \/ Finish(r, "creating") /\ ~PlanUnique(target[r])
     \/ Finish(r, "executing") /\ ~AttemptUnique(target[r])
     \/ Finish(r, "callback") /\ ~AwaitingVerification(target[r])
     \/ Finish(r, "analyzing")
  /\ UNCHANGED <<db, dispatches>>

(* The worker dies: what it has not committed is lost.                     *)
Abort(r) ==
  /\ r \in Abortable
  /\ \E step \in InFlight : Finish(r, step)
  /\ UNCHANGED <<db, dispatches>>

Arrive(r) ==
  \/ \E rep \in Report :
       \/ LoadIncidentForAnalysis(r, rep)
       \/ LoadPlanToApprove(r, rep) \/ LoadPlanToReject(r, rep)
       \/ LoadPlanToExecute(r, rep)
       \/ \E v \in Result : ReceiveCallback(r, rep, v)
  \/ LoadLatestReport(r)
  \/ CollectEvidence(r)

Serve(r) ==
  \/ CommitReport(r) \/ CommitInsufficientEvidence(r)
  \/ InsertPlan(r) \/ CommitApproval(r) \/ CommitRejection(r)
  \/ InsertAttempt(r)
  \/ ProviderAccepts(r) \/ ProviderRefuses(r) \/ LoseReply(r)
  \/ CommitDispatched(r) \/ CommitDispatchFailed(r)
  \/ LoadAttempt(r) \/ CommitVerification(r)
  \/ Refuse(r)

Next == \E r \in Request : Arrive(r) \/ Serve(r) \/ Abort(r)

Spec == Init /\ [][Next]_vars
(* A worker that took a request keeps running it; the provider call has a  *)
(* timeout, so it returns.  Nobody is obliged to send a request.           *)
Fairness == \A r \in Request : WF_vars(Serve(r))
-----------------------------------------------------------------------------
(* Properties.                                                             *)

Recorded(rep, type) == \E e \in audit : e.plan = rep /\ e.type = type

(* Type invariant: every row and every request holds a value its code can  *)
(* write there.                                                            *)
TypeOK ==
  /\ incident \in IncidentStatus
  /\ reports \subseteq Report /\ latest \in reports \cup {NoReport}
  /\ decision \in [Report -> Decision]
  /\ approval \in [Report -> Approval]
  /\ attempt \in [Report -> AttemptStatus]
  /\ reference \in [Report -> BOOLEAN]
  /\ verified \in [Report -> Result \cup {"NONE"}]
  /\ audit \subseteq [by: Request, type: EventType, plan: Report]
  /\ dispatches \in [Report -> Nat]
  /\ pc \in [Request -> InFlight \cup {"idle", "done"}]
  /\ target \in [Request -> Report \cup {NoReport}]
  /\ \A r \in Request : pc[r] \in InFlight => target[r] \in Report
  /\ verdict \in [Request -> Result \cup {"NONE"}]
  /\ \A r \in Request :
       pc[r] \in {"callback", "verifying"} => verdict[r] \in Result
  /\ seen \in [Request -> IncidentStatus]

(* However many executions of a plan race, are repeated or die half-way,   *)
(* the provider starts at most one workflow run for it.                    *)
AtMostOneDispatch == \A rep \in Report : dispatches[rep] <= 1

(* Nothing reaches the provider that the policy denies (an unvalidated,    *)
(* uncertain or incomplete RCA, an unpinned rollback), that the executor   *)
(* cannot do, that no operator approved, or whose attempt is not already   *)
(* committed: after a crash the database still knows of the dispatch.      *)
DispatchIsAuthorised ==
  \A rep \in Report : dispatches[rep] > 0 =>
    /\ Rca[rep].validated /\ Rca[rep].confident /\ ~Rca[rep].missing
    /\ Rca[rep].action = "ROLLBACK_IMAGE" => Rca[rep].immutable
    /\ Rca[rep].action \in Capabilities \ {"ESCALATE", "NO_ACTION"}
    /\ Recorded(rep, "PLAN_APPROVED")
    /\ attempt[rep] # "ABSENT"

(* The columns of an attempt and the provider agree: a verdict is stored   *)
(* only for a dispatch whose reference was stored, the status follows the  *)
(* verdict, and an attempt that failed to dispatch never gets a verdict.   *)
AttemptConsistent ==
  \A rep \in Report :
    /\ attempt[rep] \in {"ABSENT", "PENDING"} => ~reference[rep]
    /\ attempt[rep] \in {"DISPATCHED", "VERIFIED"} => reference[rep]
    /\ reference[rep] => dispatches[rep] = 1
    /\ (attempt[rep] = "VERIFIED") <=> (verified[rep] = "PASSED")
    /\ (attempt[rep] = "FAILED" /\ reference[rep])
         <=> (verified[rep] = "FAILED")

(* The audit trail reconstructs the recovery: each decision about a plan   *)
(* and each outcome of its attempt has the event that put it there (an     *)
(* attempt that is PENDING has none yet), and the trail never claims both  *)
(* that an execution was dispatched and that it failed to be.              *)
AuditOf(rep) ==
  /\ (approval[rep] # "ABSENT") <=> Recorded(rep, "PLAN_CREATED")
  /\ approval[rep] = "APPROVED" => Recorded(rep, "PLAN_APPROVED")
  /\ approval[rep] = "REJECTED" => Recorded(rep, "PLAN_REJECTED")
  /\ reference[rep] <=> Recorded(rep, "EXECUTION_DISPATCHED")
  /\ (attempt[rep] = "FAILED" /\ ~reference[rep])
       <=> Recorded(rep, "EXECUTION_FAILED")
  /\ verified[rep] = "PASSED" => Recorded(rep, "VERIFICATION_PASSED")
  /\ verified[rep] = "FAILED" => Recorded(rep, "VERIFICATION_FAILED")

(* AuditOf holds of every plan.                                            *)
AuditReconstructs == \A rep \in Report : AuditOf(rep)

(* Racing creations derive a plan once: a plan that an operator decided is *)
(* not reset to PENDING by a slower request, nor its policy decision.      *)
PlanDerivedOnce ==
  [][\A rep \in Report : approval[rep] # "ABSENT" =>
       /\ decision'[rep] = decision[rep]
       /\ approval'[rep] \in {"ABSENT", "PENDING"} =>
            approval'[rep] = approval[rep]]_vars

(* An attempt never goes back: recording the dispatch late does not undo   *)
(* a verdict, and a failed dispatch is not revived by a late callback.     *)
AttemptMovesForward ==
  [][\A rep \in Report :
       /\ attempt[rep] # "ABSENT" => attempt'[rep] # "ABSENT"
       /\ attempt'[rep] = "PENDING" => attempt[rep] \in {"ABSENT", "PENDING"}
       /\ attempt'[rep] = "DISPATCHED" =>
            attempt[rep] \in {"PENDING", "DISPATCHED"}
       /\ attempt[rep] = "FAILED" /\ ~reference[rep] =>
            attempt'[rep] = "FAILED" /\ ~reference'[rep]]_vars

(* Only a PASSED callback makes the incident RESOLVED: not a dispatch, not *)
(* an analysis, not a FAILED callback.                                     *)
ResolvedOnlyByPassedCallback ==
  [][incident # "RESOLVED" /\ incident' = "RESOLVED" =>
       \E e \in audit' \ audit :
         e.type = "VERIFICATION_PASSED" /\ attempt'[e.plan] = "VERIFIED"]_vars

(* The recovery keeps its contract: approve, journal, send once, judge.    *)
Contract == INSTANCE RecoveryContract WITH
  Plan <- Report,
  approved <- {rep \in Report : Recorded(rep, "PLAN_APPROVED")},
  journal <- {rep \in Report : attempt[rep] # "ABSENT"},
  sent <- dispatches,
  judged <- {rep \in Report : verified[rep] # "NONE"}
ImplementsContract == Contract!Spec

(* Its requests share the incident with collections and analyses by the    *)
(* contract that those implement.                                          *)
Incident == INSTANCE IncidentContract WITH
  Input <- Report,
  status <- incident,
  reports <- {[input |-> rep] : rep \in reports},
  subject <- [r \in Request |-> IF pc[r] = "analyzing" THEN {target[r]} ELSE {}],
  verifying <- {r \in Request : pc[r] \in {"callback", "verifying"}},
  loaded <- seen
ImplementsIncident == Incident!Spec

(* As long as no worker dies, an attempt whose intent was committed gets   *)
(* its outcome: the provider's refusal or silence is recorded too.         *)
PendingSettles ==
  \A rep \in Report : attempt[rep] = "PENDING" ~> attempt[rep] # "PENDING"
-----------------------------------------------------------------------------
(* What the documentation and the tests say, and concurrent requests break.*)

(* A decided plan keeps its decision (tests/test_recovery.py: an approved  *)
(* plan cannot be rejected).                                               *)
DecisionIsFinal ==
  [][\A rep \in Report :
       approval[rep] \in {"APPROVED", "REJECTED"} =>
         approval'[rep] = approval[rep]]_vars

(* A FAILED callback leaves the incident in ACTION_REQUIRED.               *)
FailedCallbackRequiresAction ==
  [][(\E e \in audit' \ audit : e.type = "VERIFICATION_FAILED") =>
       incident' = "ACTION_REQUIRED"]_vars
=============================================================================

---------------------------- MODULE RecoveryProof ----------------------------
(* Proofs about Recovery, for every set of reports, requests, policy facts *)
(* and executor capabilities.                                              *)
EXTENDS Recovery, TLAPS

USE RcaAssumption, NoReportAssumption

(***************************************************************************)
(* The inductive invariant.  Each conjunct names what a later step relies  *)
(* on without reading it again.                                            *)
(***************************************************************************)

Authorised(rep) ==
  ~Denied(rep) /\ Rca[rep].action \in Capabilities
               /\ Recorded(rep, "PLAN_APPROVED")

(* A plan carries the policy's answer, and "APPROVED" comes with its event.*)
PlanInv ==
  \A rep \in Report :
    /\ approval[rep] # "ABSENT" => decision[rep] = PolicyDecision(rep)
    /\ approval[rep] = "NOT_REQUIRED" => decision[rep] = "DENIED"
    /\ approval[rep] = "APPROVED" => Recorded(rep, "PLAN_APPROVED")

(* What the requests that decide a plan rely on: the plan is there.        *)
DecidingInv ==
  \A r \in Request :
    pc[r] \in {"approving", "rejecting"} => approval[target[r]] # "ABSENT"

(* An attempt exists only for an authorised plan, and so will the one an   *)
(* executing request inserts.                                              *)
AuthorisedInv ==
  /\ \A rep \in Report : attempt[rep] # "ABSENT" => Authorised(rep)
  /\ \A r \in Request : pc[r] = "executing" => Authorised(target[r])

(* At most one request is between the intent and the outcome of a plan; the*)
(* provider knows nothing before that request has called it.               *)
DispatchInv ==
  /\ \A rep \in Report : attempt[rep] = "ABSENT" => dispatches[rep] = 0
  /\ \A rep \in Report : dispatches[rep] <= 1
  /\ \A r \in Request : pc[r] \in Dispatching => attempt[target[r]] = "PENDING"
  /\ \A r \in Request : pc[r] = "dispatching" => dispatches[target[r]] = 0
  /\ \A r \in Request : pc[r] = "accepted" => dispatches[target[r]] = 1
  /\ \A r, q \in Request :
       r # q /\ pc[r] \in Dispatching /\ pc[q] \in Dispatching =>
         target[r] # target[q]

(* A verdict is only under way for an attempt whose reference is stored.   *)
VerdictInv ==
  /\ AttemptConsistent
  /\ \A r \in Request : pc[r] = "verifying" => reference[target[r]]

IInv ==
  /\ TypeOK
  /\ PlanInv /\ DecidingInv
  /\ AuthorisedInv /\ DispatchInv /\ VerdictInv

(* The empty tables and idle requests have their types.                    *)
LEMMA TypeInit == Init => TypeOK
  BY DEF Init, TypeOK, IncidentStatus, Decision, Approval, AttemptStatus,
         InFlight, Dispatching, Result

(* Every step of every handler keeps the types.                            *)
LEMMA TypeStep == TypeOK /\ [Next]_vars => TypeOK'
<1> USE DEF IncidentStatus, Decision, Approval, AttemptStatus, EventType,
            Dispatching, InFlight, Result
<1> SUFFICES ASSUME TypeOK, [Next]_vars PROVE TypeOK'
OBVIOUS
<1>1. CASE UNCHANGED vars
  BY <1>1 DEF TypeOK, vars, db, analyses, plans, attempts, request
<1>2. ASSUME NEW r \in Request, Arrive(r) PROVE TypeOK'
  <2> USE DEF Begin, Finish, TypeOK, db, analyses, plans, attempts
  <2>1. ASSUME NEW rep \in Report, LoadIncidentForAnalysis(r, rep)
        PROVE TypeOK'
    BY <2>1 DEF LoadIncidentForAnalysis
  <2>2. ASSUME NEW rep \in Report, LoadPlanToApprove(r, rep) PROVE TypeOK'
    BY <2>2 DEF LoadPlanToApprove
  <2>3. ASSUME NEW rep \in Report, LoadPlanToReject(r, rep) PROVE TypeOK'
    BY <2>3 DEF LoadPlanToReject
  <2>4. ASSUME NEW rep \in Report, LoadPlanToExecute(r, rep) PROVE TypeOK'
    BY <2>4 DEF LoadPlanToExecute
  <2>5. ASSUME NEW rep \in Report, NEW v \in Result,
               ReceiveCallback(r, rep, v)
        PROVE TypeOK'
    BY <2>5 DEF ReceiveCallback
  <2>6. CASE LoadLatestReport(r)
    BY <2>6 DEF LoadLatestReport
  <2>7. CASE CollectEvidence(r)
    BY <2>7 DEF CollectEvidence
  <2>8. QED
    BY <1>2, <2>1, <2>2, <2>3, <2>4, <2>5, <2>6, <2>7 DEF Arrive
<1>3. ASSUME NEW r \in Request, Serve(r) PROVE TypeOK'
  <2> USE DEF Finish, Proceed, RecordEvent, WriteIncident, TypeOK, db,
              analyses, plans, attempts
  <2>1. CASE CommitReport(r)
    BY <2>1 DEF CommitReport
  <2>2. CASE CommitInsufficientEvidence(r)
    BY <2>2 DEF CommitInsufficientEvidence
  <2>3. CASE InsertPlan(r)
    BY <2>3 DEF InsertPlan, PolicyDecision, InitialApproval
  <2>4. CASE CommitApproval(r)
    BY <2>4 DEF CommitApproval, Decide
  <2>5. CASE CommitRejection(r)
    BY <2>5 DEF CommitRejection, Decide
  <2>6. CASE InsertAttempt(r)
    BY <2>6 DEF InsertAttempt
  <2>7. CASE ProviderAccepts(r)
    BY <2>7 DEF ProviderAccepts
  <2>8. CASE ProviderRefuses(r)
    BY <2>8 DEF ProviderRefuses
  <2>9. CASE LoseReply(r)
    BY <2>9 DEF LoseReply
  <2>10. CASE CommitDispatched(r)
    BY <2>10 DEF CommitDispatched
  <2>11. CASE CommitDispatchFailed(r)
    BY <2>11 DEF CommitDispatchFailed
  <2>12. CASE LoadAttempt(r)
    BY <2>12 DEF LoadAttempt
  <2>13. CASE CommitVerification(r)
    BY <2>13 DEF CommitVerification, IncidentAfter
  <2>14. CASE Refuse(r)
    BY <2>14 DEF Refuse
  <2>15. QED
    BY <1>3, <2>1, <2>2, <2>3, <2>4, <2>5, <2>6, <2>7, <2>8, <2>9, <2>10,
       <2>11, <2>12, <2>13, <2>14 DEF Serve
<1>4. ASSUME NEW r \in Request, Abort(r) PROVE TypeOK'
  BY <1>4 DEF Abort, Finish, TypeOK, db, analyses, plans, attempts
<1>5. QED
  BY <1>1, <1>2, <1>3, <1>4 DEF Next

(* The type invariant of Recovery holds for any number of reports and      *)
(* requests: no handler writes a value outside its column's domain.        *)
THEOREM TypeCorrect == Spec => []TypeOK
  BY TypeInit, TypeStep, PTL DEF Spec
-----------------------------------------------------------------------------

(* A plan is created with the policy's answer and is approved with its     *)
(* event; a request that decides it finds it still there.                  *)
LEMMA PlanStep ==
  TypeOK /\ PlanInv /\ DecidingInv /\ [Next]_vars => (PlanInv /\ DecidingInv)'
<1> SUFFICES ASSUME TypeOK /\ PlanInv /\ DecidingInv, [Next]_vars
             PROVE  (PlanInv /\ DecidingInv)'
  OBVIOUS
<1> USE DEF TypeOK, PlanInv, DecidingInv, Recorded, InFlight, Dispatching,
            db, analyses, plans, attempts
<1>1. CASE UNCHANGED vars
  BY <1>1 DEF vars, request
<1>2. ASSUME NEW r \in Request, Arrive(r) PROVE (PlanInv /\ DecidingInv)'
  <2> USE DEF Begin, Finish
  <2>1. ASSUME NEW rep \in Report, LoadIncidentForAnalysis(r, rep)
        PROVE (PlanInv /\ DecidingInv)'
    BY <2>1 DEF LoadIncidentForAnalysis
  <2>2. ASSUME NEW rep \in Report, LoadPlanToApprove(r, rep)
        PROVE (PlanInv /\ DecidingInv)'
    BY <2>2 DEF LoadPlanToApprove, Pending
  <2>3. ASSUME NEW rep \in Report, LoadPlanToReject(r, rep)
        PROVE (PlanInv /\ DecidingInv)'
    BY <2>3 DEF LoadPlanToReject, Pending
  <2>4. ASSUME NEW rep \in Report, LoadPlanToExecute(r, rep)
        PROVE (PlanInv /\ DecidingInv)'
    BY <2>4 DEF LoadPlanToExecute, Executable, NoAttempt
  <2>5. ASSUME NEW rep \in Report, NEW v \in Result, ReceiveCallback(r, rep, v)
        PROVE (PlanInv /\ DecidingInv)'
    BY <2>5 DEF ReceiveCallback
  <2>6. CASE LoadLatestReport(r)
    BY <2>6 DEF LoadLatestReport, NoPlan
  <2>7. CASE CollectEvidence(r)
    BY <2>7 DEF CollectEvidence
  <2>8. QED
    BY <1>2, <2>1, <2>2, <2>3, <2>4, <2>5, <2>6, <2>7 DEF Arrive
<1>3. ASSUME NEW r \in Request, Serve(r) PROVE (PlanInv /\ DecidingInv)'
  <2> USE DEF Finish, Proceed, RecordEvent
  <2>1. CASE CommitReport(r)
    BY <2>1 DEF CommitReport
  <2>2. CASE CommitInsufficientEvidence(r)
    BY <2>2 DEF CommitInsufficientEvidence
  <2>3. CASE InsertPlan(r)
    BY <2>3 DEF InsertPlan, PlanUnique, NoPlan, PolicyDecision, InitialApproval
  <2>4. CASE CommitApproval(r)
    <3>1. PICK rep \in Report : rep = target[r]
      BY <2>4 DEF CommitApproval, Decide
    <3>2. [by |-> r, type |-> "PLAN_APPROVED", plan |-> rep] \in audit'
      BY <2>4, <3>1 DEF CommitApproval, Decide
    <3>3. Recorded(rep, "PLAN_APPROVED")'
      BY <3>2
    <3>4. QED
      BY <2>4, <3>1, <3>3 DEF CommitApproval, Decide
  <2>5. CASE CommitRejection(r)
    BY <2>5 DEF CommitRejection, Decide
  <2>6. CASE InsertAttempt(r)
    BY <2>6 DEF InsertAttempt, AttemptUnique, NoAttempt
  <2>7. CASE ProviderAccepts(r)
    BY <2>7 DEF ProviderAccepts
  <2>8. CASE ProviderRefuses(r)
    BY <2>8 DEF ProviderRefuses
  <2>9. CASE LoseReply(r)
    BY <2>9 DEF LoseReply
  <2>10. CASE CommitDispatched(r)
    BY <2>10 DEF CommitDispatched
  <2>11. CASE CommitDispatchFailed(r)
    BY <2>11 DEF CommitDispatchFailed
  <2>12. CASE LoadAttempt(r)
    BY <2>12 DEF LoadAttempt, AwaitingVerification
  <2>13. CASE CommitVerification(r)
    BY <2>13 DEF CommitVerification
  <2>14. CASE Refuse(r)
    BY <2>14 DEF Refuse
  <2>15. QED
    BY <1>3, <2>1, <2>2, <2>3, <2>4, <2>5, <2>6, <2>7,
       <2>8, <2>9, <2>10, <2>11, <2>12, <2>13, <2>14 DEF Serve
<1>4. ASSUME NEW r \in Request, Abort(r) PROVE (PlanInv /\ DecidingInv)'
  BY <1>4 DEF Abort, Finish
<1>5. QED
  BY <1>1, <1>2, <1>3, <1>4 DEF Next

(* The unique attempt row makes its inserter the only request that calls   *)
(* the provider, and verdicts come only after its outcome is stored.       *)
LEMMA DispatchStep ==
  TypeOK /\ DispatchInv /\ VerdictInv /\ [Next]_vars =>
    (DispatchInv /\ VerdictInv)'
<1> SUFFICES ASSUME TypeOK, DispatchInv, VerdictInv, [Next]_vars
             PROVE  (DispatchInv /\ VerdictInv)'
  OBVIOUS
<1> USE DEF TypeOK, DispatchInv, VerdictInv, AttemptConsistent, InFlight,
            Dispatching, Result, db, analyses, plans, attempts
<1>1. CASE UNCHANGED vars
  BY <1>1 DEF vars, request
<1>2. ASSUME NEW r \in Request, Arrive(r) PROVE (DispatchInv /\ VerdictInv)'
  <2> USE DEF Begin, Finish
  <2>1. ASSUME NEW rep \in Report, LoadIncidentForAnalysis(r, rep)
        PROVE (DispatchInv /\ VerdictInv)'
    BY <2>1 DEF LoadIncidentForAnalysis
  <2>2. ASSUME NEW rep \in Report, LoadPlanToApprove(r, rep)
        PROVE (DispatchInv /\ VerdictInv)'
    BY <2>2 DEF LoadPlanToApprove, Pending
  <2>3. ASSUME NEW rep \in Report, LoadPlanToReject(r, rep)
        PROVE (DispatchInv /\ VerdictInv)'
    BY <2>3 DEF LoadPlanToReject, Pending
  <2>4. ASSUME NEW rep \in Report, LoadPlanToExecute(r, rep)
        PROVE (DispatchInv /\ VerdictInv)'
    BY <2>4 DEF LoadPlanToExecute, Executable, NoAttempt
  <2>5. ASSUME NEW rep \in Report, NEW v \in Result, ReceiveCallback(r, rep, v)
        PROVE (DispatchInv /\ VerdictInv)'
    BY <2>5 DEF ReceiveCallback
  <2>6. CASE LoadLatestReport(r)
    BY <2>6 DEF LoadLatestReport, NoPlan
  <2>7. CASE CollectEvidence(r)
    BY <2>7 DEF CollectEvidence
  <2>8. QED
    BY <1>2, <2>1, <2>2, <2>3, <2>4, <2>5, <2>6, <2>7 DEF Arrive
<1>3. ASSUME NEW r \in Request, Serve(r) PROVE (DispatchInv /\ VerdictInv)'
  <2> USE DEF Finish, Proceed, RecordEvent
  <2>1. CASE CommitReport(r)
    BY <2>1 DEF CommitReport
  <2>2. CASE CommitInsufficientEvidence(r)
    BY <2>2 DEF CommitInsufficientEvidence
  <2>3. CASE InsertPlan(r)
    BY <2>3 DEF InsertPlan, PlanUnique, NoPlan, PolicyDecision, InitialApproval
  <2>4. CASE CommitApproval(r)
    BY <2>4 DEF CommitApproval, Decide
  <2>5. CASE CommitRejection(r)
    BY <2>5 DEF CommitRejection, Decide
  <2>6. CASE InsertAttempt(r)
    BY <2>6 DEF InsertAttempt, AttemptUnique, NoAttempt
  <2>7. CASE ProviderAccepts(r)
    BY <2>7 DEF ProviderAccepts
  <2>8. CASE ProviderRefuses(r)
    BY <2>8 DEF ProviderRefuses
  <2>9. CASE LoseReply(r)
    BY <2>9 DEF LoseReply
  <2>10. CASE CommitDispatched(r)
    BY <2>10 DEF CommitDispatched
  <2>11. CASE CommitDispatchFailed(r)
    BY <2>11 DEF CommitDispatchFailed
  <2>12. CASE LoadAttempt(r)
    BY <2>12 DEF LoadAttempt, AwaitingVerification
  <2>13. CASE CommitVerification(r)
    <3> DEFINE p == target[r]
    <3>1. /\ p \in Report /\ pc[r] = "verifying" /\ reference[p]
          /\ verdict[r] \in {"PASSED", "FAILED"}
      BY <2>13 DEF CommitVerification
    <3>2. /\ pc' = [pc EXCEPT ![r] = "done"]
          /\ target' = [target EXCEPT ![r] = NoReport]
          /\ verified' = [verified EXCEPT ![p] = verdict[r]]
          /\ attempt' = [attempt EXCEPT ![p] =
                           IF verdict[r] = "PASSED" THEN "VERIFIED" ELSE "FAILED"]
          /\ UNCHANGED <<reference, dispatches>>
      BY <2>13 DEF CommitVerification
    <3> HIDE DEF p
    <3>3. attempt[p] \notin {"ABSENT", "PENDING"}
      BY <3>1
    <3>4. DispatchInv'
      BY <3>1, <3>2, <3>3
    <3>5. VerdictInv'
      BY <3>1, <3>2, <3>3
    <3> QED
      BY <3>4, <3>5
  <2>14. CASE Refuse(r)
    <3>1. /\ pc' = [pc EXCEPT ![r] = "done"]
          /\ target' = [target EXCEPT ![r] = NoReport]
          /\ UNCHANGED <<attempts, dispatches>>
      BY <2>14 DEF Refuse
    <3> QED
      BY <3>1
  <2>15. QED
    BY <1>3, <2>1, <2>2, <2>3, <2>4, <2>5, <2>6, <2>7,
       <2>8, <2>9, <2>10, <2>11, <2>12, <2>13, <2>14 DEF Serve
<1>4. ASSUME NEW r \in Request, Abort(r) PROVE (DispatchInv /\ VerdictInv)'
  BY <1>4 DEF Abort, Finish
<1>5. QED
  BY <1>1, <1>2, <1>3, <1>4 DEF Next

(* An execution reads an approved plan that the policy allows; neither the *)
(* approval event nor the policy's answer can be taken back before it      *)
(* inserts the attempt.                                                    *)
LEMMA AuthorisedStep ==
  /\ TypeOK /\ PlanInv /\ AuthorisedInv /\ DispatchInv /\ VerdictInv
  /\ [Next]_vars
  => AuthorisedInv'
<1> SUFFICES ASSUME TypeOK, PlanInv, AuthorisedInv, DispatchInv, VerdictInv,
                    [Next]_vars
             PROVE  AuthorisedInv'
  OBVIOUS
<1> USE DEF TypeOK, PlanInv, AuthorisedInv, Authorised, Recorded, InFlight,
            Dispatching, Result, db, analyses, plans, attempts
<1>1. CASE UNCHANGED vars
  BY <1>1 DEF vars, request
<1>2. ASSUME NEW r \in Request, Arrive(r) PROVE AuthorisedInv'
  <2> USE DEF Begin, Finish
  <2>1. ASSUME NEW rep \in Report, LoadIncidentForAnalysis(r, rep)
        PROVE AuthorisedInv'
    BY <2>1 DEF LoadIncidentForAnalysis
  <2>2. ASSUME NEW rep \in Report, LoadPlanToApprove(r, rep)
        PROVE AuthorisedInv'
    BY <2>2 DEF LoadPlanToApprove, Pending
  <2>3. ASSUME NEW rep \in Report, LoadPlanToReject(r, rep)
        PROVE AuthorisedInv'
    BY <2>3 DEF LoadPlanToReject, Pending
  <2>4. ASSUME NEW rep \in Report, LoadPlanToExecute(r, rep)
        PROVE AuthorisedInv'
    BY <2>4 DEF LoadPlanToExecute, Executable, NoAttempt, PolicyDecision
  <2>5. ASSUME NEW rep \in Report, NEW v \in Result, ReceiveCallback(r, rep, v)
        PROVE AuthorisedInv'
    BY <2>5 DEF ReceiveCallback
  <2>6. CASE LoadLatestReport(r)
    BY <2>6 DEF LoadLatestReport, NoPlan
  <2>7. CASE CollectEvidence(r)
    BY <2>7 DEF CollectEvidence
  <2>8. QED
    BY <1>2, <2>1, <2>2, <2>3, <2>4, <2>5, <2>6, <2>7 DEF Arrive
<1>3. ASSUME NEW r \in Request, Serve(r) PROVE AuthorisedInv'
  <2> USE DEF Finish, Proceed, RecordEvent
  <2>1. CASE CommitReport(r)
    BY <2>1 DEF CommitReport
  <2>2. CASE CommitInsufficientEvidence(r)
    BY <2>2 DEF CommitInsufficientEvidence
  <2>3. CASE InsertPlan(r)
    BY <2>3 DEF InsertPlan, PlanUnique, NoPlan, PolicyDecision, InitialApproval
  <2>4. CASE CommitApproval(r)
    BY <2>4 DEF CommitApproval, Decide
  <2>5. CASE CommitRejection(r)
    BY <2>5 DEF CommitRejection, Decide
  <2>6. CASE InsertAttempt(r)
    BY <2>6 DEF InsertAttempt, AttemptUnique, NoAttempt
  <2>7. CASE ProviderAccepts(r)
    BY <2>7 DEF ProviderAccepts
  <2>8. CASE ProviderRefuses(r)
    BY <2>8 DEF ProviderRefuses
  <2>9. CASE LoseReply(r)
    BY <2>9 DEF LoseReply
  <2>10. CASE CommitDispatched(r)
    BY <2>10 DEF CommitDispatched, DispatchInv
  <2>11. CASE CommitDispatchFailed(r)
    BY <2>11 DEF CommitDispatchFailed, DispatchInv
  <2>12. CASE LoadAttempt(r)
    BY <2>12 DEF LoadAttempt, AwaitingVerification
  <2>13. CASE CommitVerification(r)
    BY <2>13 DEF CommitVerification, VerdictInv, AttemptConsistent
  <2>14. CASE Refuse(r)
    BY <2>14 DEF Refuse
  <2>15. QED
    BY <1>3, <2>1, <2>2, <2>3, <2>4, <2>5, <2>6, <2>7,
       <2>8, <2>9, <2>10, <2>11, <2>12, <2>13, <2>14 DEF Serve
<1>4. ASSUME NEW r \in Request, Abort(r) PROVE AuthorisedInv'
  BY <1>4 DEF Abort, Finish
<1>5. QED
  BY <1>1, <1>2, <1>3, <1>4 DEF Next

(* The inductive invariant holds in every reachable state.                 *)
LEMMA InvInductive == Spec => []IInv
<1>1. Init => IInv
  <2>1. Init => TypeOK
    BY TypeInit
  <2>2. Init => /\ PlanInv /\ DecidingInv /\ AuthorisedInv
                /\ DispatchInv /\ VerdictInv
    BY DEF Init, PlanInv, DecidingInv, AuthorisedInv, DispatchInv, VerdictInv,
           AttemptConsistent, Dispatching
  <2>3. QED
    BY <2>1, <2>2 DEF IInv
<1>2. IInv /\ [Next]_vars => IInv'
  BY TypeStep, PlanStep, DispatchStep, AuthorisedStep DEF IInv
<1>3. QED
  BY <1>1, <1>2, PTL DEF Spec
-----------------------------------------------------------------------------
(* However many executions of a plan race, repeat or die half-way, the     *)
(* provider starts at most one workflow run for it.                        *)
THEOREM AtMostOnce == Spec => []AtMostOneDispatch
<1>1. IInv => AtMostOneDispatch
  BY DEF IInv, DispatchInv, AtMostOneDispatch
<1>2. QED
  BY <1>1, InvInductive, PTL

(* What reaches the provider was allowed by the policy, within the         *)
(* executor's capabilities, approved by an operator and journalled.        *)
THEOREM OnlyAuthorised == Spec => []DispatchIsAuthorised
<1>1. IInv => DispatchIsAuthorised
  BY DEF IInv, TypeOK, DispatchInv, AuthorisedInv, Authorised, Denied,
         DispatchIsAuthorised, RcaFacts
<1>2. QED
  BY <1>1, InvInductive, PTL

(* The columns of an attempt agree with each other and with the provider.  *)
THEOREM AttemptsConsistent == Spec => []AttemptConsistent
<1>1. IInv => AttemptConsistent
  BY DEF IInv, VerdictInv
<1>2. QED
  BY <1>1, InvInductive, PTL
-----------------------------------------------------------------------------
(* Recording an event adds exactly that event to what is recorded.         *)
LEMMA RecordAdds ==
  ASSUME NEW r, NEW type, NEW t, NEW rep, RecordEvent(r, type)
  PROVE  Recorded(rep, t)' <=>
           (Recorded(rep, t) \/ (rep = target[r] /\ t = type))
<1> DEFINE e == [by |-> r, type |-> type, plan |-> target[r]]
<1>1. audit' = audit \cup {e}
  BY DEF RecordEvent
<1>2. e.plan = target[r] /\ e.type = type
  OBVIOUS
<1>3. QED
  BY <1>1, <1>2 DEF Recorded

(* While the trail is unchanged, so is what it records.                    *)
LEMMA SameAudit ==
  ASSUME audit' = audit, NEW rep, NEW t
  PROVE  Recorded(rep, t)' <=> Recorded(rep, t)
  BY DEF Recorded

(* A request that has not committed yet leaves the contract's state alone, *)
(* and so does a step of the handlers outside the recovery.                *)
LEMMA ArriveStutters ==
  ASSUME NEW r \in Request, Arrive(r)
  PROVE  UNCHANGED <<plans, attempts, audit, dispatches>>
<1> USE DEF db
<1>1. ASSUME NEW rep \in Report, LoadIncidentForAnalysis(r, rep)
      PROVE UNCHANGED <<plans, attempts, audit, dispatches>>
  BY <1>1 DEF LoadIncidentForAnalysis
<1>2. ASSUME NEW rep \in Report, LoadPlanToApprove(r, rep)
      PROVE UNCHANGED <<plans, attempts, audit, dispatches>>
  BY <1>2 DEF LoadPlanToApprove
<1>3. ASSUME NEW rep \in Report, LoadPlanToReject(r, rep)
      PROVE UNCHANGED <<plans, attempts, audit, dispatches>>
  BY <1>3 DEF LoadPlanToReject
<1>4. ASSUME NEW rep \in Report, LoadPlanToExecute(r, rep)
      PROVE UNCHANGED <<plans, attempts, audit, dispatches>>
  BY <1>4 DEF LoadPlanToExecute
<1>5. ASSUME NEW rep \in Report, NEW v \in Result, ReceiveCallback(r, rep, v)
      PROVE UNCHANGED <<plans, attempts, audit, dispatches>>
  BY <1>5 DEF ReceiveCallback
<1>6. CASE LoadLatestReport(r)
  BY <1>6 DEF LoadLatestReport
<1>7. CASE CollectEvidence(r)
  BY <1>7 DEF CollectEvidence
<1>8. QED
  BY <1>1, <1>2, <1>3, <1>4, <1>5, <1>6, <1>7 DEF Arrive

(* The detailed recovery implements its contract: every step of a request  *)
(* is a step of the contract or invisible to it.                           *)
THEOREM RefinesContract == Spec => ImplementsContract
<1>1. Init => Contract!Init
  BY DEF Init, Contract!Init, Recorded
<1>2. IInv /\ [Next]_vars => [Contract!Next]_(Contract!vars)
  <2> SUFFICES ASSUME IInv, [Next]_vars
               PROVE  [Contract!Next]_(Contract!vars)
    OBVIOUS
  <2> USE DEF IInv, TypeOK, InFlight, Dispatching
  <2>s. ASSUME UNCHANGED <<attempt, verified, dispatches>>,
               \A rep \in Report :
                 Recorded(rep, "PLAN_APPROVED")' <=> Recorded(rep, "PLAN_APPROVED")
        PROVE  UNCHANGED Contract!vars
    BY <2>s DEF Contract!vars
  <2>1. CASE UNCHANGED vars
    BY <2>1, <2>s, SameAudit DEF vars, db, attempts
  <2>2. ASSUME NEW r \in Request, Arrive(r) PROVE UNCHANGED Contract!vars
    BY <2>2, <2>s, ArriveStutters, SameAudit DEF attempts
  <2>3. ASSUME NEW r \in Request, Abort(r) PROVE UNCHANGED Contract!vars
    BY <2>3, <2>s, SameAudit DEF Abort, db, attempts
  <2>4. ASSUME NEW r \in Request, Serve(r)
        PROVE  [Contract!Next]_(Contract!vars)
    <3> PICK rep : rep = target[r]
      OBVIOUS
    <3> USE DEF Finish, Proceed, db, analyses, plans, attempts
    <3>1. CASE CommitApproval(r)
      <4>1. rep \in Report /\ RecordEvent(r, "PLAN_APPROVED")
        BY <3>1 DEF CommitApproval, Decide
      <4>2. UNCHANGED <<attempt, verified, dispatches>>
        BY <3>1 DEF CommitApproval, Decide
      <4>3. Contract!Approve(rep)
        BY <4>1, <4>2, RecordAdds DEF Contract!Approve
      <4>4. QED
        BY <4>1, <4>3 DEF Contract!Next
    <3>2. CASE InsertAttempt(r)
      <4>1. rep \in Report /\ Recorded(rep, "PLAN_APPROVED") /\ attempt[rep] = "ABSENT"
        BY <3>2
           DEF InsertAttempt, AttemptUnique, NoAttempt, AuthorisedInv,
               Authorised
      <4>2. /\ attempt' = [attempt EXCEPT ![rep] = "PENDING"]
            /\ UNCHANGED <<verified, dispatches, audit>>
        BY <3>2 DEF InsertAttempt
      <4>3. Contract!Journal(rep)
        BY <4>1, <4>2, SameAudit DEF Contract!Journal
      <4>4. QED
        BY <4>1, <4>3 DEF Contract!Next
    <3>3. CASE ProviderAccepts(r)
      <4>1. /\ rep \in Report
            /\ attempt[rep] # "ABSENT" /\ dispatches[rep] = 0
        BY <3>3 DEF ProviderAccepts, DispatchInv
      <4>2. /\ dispatches' = [dispatches EXCEPT ![rep] = 1]
            /\ UNCHANGED <<attempt, verified, audit>>
        BY <3>3, <4>1 DEF ProviderAccepts
      <4>3. Contract!Send(rep)
        BY <4>1, <4>2, SameAudit DEF Contract!Send
      <4>4. QED
        BY <4>1, <4>3 DEF Contract!Next
    <3>4. CASE CommitVerification(r)
      <4>1. rep \in Report /\ dispatches[rep] = 1 /\ attempt[rep] # "ABSENT"
        BY <3>4 DEF CommitVerification, VerdictInv, AttemptConsistent
      <4>2. /\ verdict[r] \in Result
            /\ verified' = [verified EXCEPT ![rep] = verdict[r]]
            /\ attempt' = [attempt EXCEPT ![rep] =
                             IF verdict[r] = "PASSED" THEN "VERIFIED" ELSE "FAILED"]
            /\ UNCHANGED dispatches
        BY <3>4 DEF CommitVerification
      <4>3. \A p \in Report :
              Recorded(p, "PLAN_APPROVED")' <=> Recorded(p, "PLAN_APPROVED")
        BY <3>4, RecordAdds DEF CommitVerification
      <4>4. Contract!Judge(rep)
        BY <4>1, <4>2, <4>3 DEF Contract!Judge, Result
      <4>5. QED
        BY <4>1, <4>4 DEF Contract!Next
    <3>5. CASE CommitDispatched(r) \/ CommitDispatchFailed(r)
      <4>1. rep \in Report /\ attempt[rep] = "PENDING"
        BY <3>5 DEF CommitDispatched, CommitDispatchFailed, DispatchInv
      <4>2. /\ \E s \in {"DISPATCHED", "FAILED"} :
                 attempt' = [attempt EXCEPT ![rep] = s]
            /\ UNCHANGED <<verified, dispatches>>
        BY <3>5 DEF CommitDispatched, CommitDispatchFailed
      <4>3. \A p \in Report :
              Recorded(p, "PLAN_APPROVED")' <=> Recorded(p, "PLAN_APPROVED")
        BY <3>5, RecordAdds DEF CommitDispatched, CommitDispatchFailed
      <4>4. QED
        BY <4>1, <4>2, <4>3 DEF Contract!vars
    <3>6. CASE InsertPlan(r) \/ CommitRejection(r)
      <4>1. UNCHANGED <<attempt, verified, dispatches>>
        BY <3>6 DEF InsertPlan, CommitRejection, Decide
      <4>2. \A p \in Report :
              Recorded(p, "PLAN_APPROVED")' <=> Recorded(p, "PLAN_APPROVED")
        BY <3>6, RecordAdds DEF InsertPlan, CommitRejection, Decide
      <4>3. QED
        BY <4>1, <4>2, <2>s
    <3>7. CASE \/ CommitReport(r) \/ CommitInsufficientEvidence(r)
               \/ ProviderRefuses(r) \/ LoseReply(r) \/ LoadAttempt(r)
               \/ Refuse(r)
      BY <3>7, <2>s, SameAudit
         DEF CommitReport, CommitInsufficientEvidence, ProviderRefuses,
             LoseReply, LoadAttempt, Refuse
    <3>8. QED
      BY <2>4, <3>1, <3>2, <3>3, <3>4, <3>5, <3>6, <3>7 DEF Serve
  <2>5. QED
    BY <2>1, <2>2, <2>3, <2>4 DEF Next
<1>3. QED
  BY <1>1, <1>2, InvInductive, PTL DEF Spec, ImplementsContract, Contract!Spec
-----------------------------------------------------------------------------
(* Each handler writes the event of the columns it writes, with them.      *)
LEMMA AuditStep ==
  IInv /\ AuditReconstructs /\ [Next]_vars => AuditReconstructs'
<1> SUFFICES ASSUME IInv, AuditReconstructs, [Next]_vars
             PROVE  AuditReconstructs'
  OBVIOUS
<1> USE DEF IInv, TypeOK, InFlight, Dispatching
<1>s. ASSUME UNCHANGED <<approval, attempt, reference, verified, audit>>
      PROVE  AuditReconstructs'
  BY <1>s, SameAudit DEF AuditReconstructs, AuditOf
<1>1. CASE UNCHANGED vars
  BY <1>1, <1>s DEF vars, db, plans, attempts
<1>2. ASSUME NEW r \in Request, Arrive(r) PROVE AuditReconstructs'
  BY <1>2, <1>s, ArriveStutters DEF plans, attempts
<1>3. ASSUME NEW r \in Request, Abort(r) PROVE AuditReconstructs'
  BY <1>3, <1>s DEF Abort, db, plans, attempts
<1>4. ASSUME NEW r \in Request, Serve(r) PROVE AuditReconstructs'
  <2> SUFFICES ASSUME NEW rep \in Report
               PROVE  AuditOf(rep)'
    BY DEF AuditReconstructs, AuditOf
  <2> PICK mine : mine = target[r]
    OBVIOUS
  <2>o. AuditOf(rep)
    BY DEF AuditReconstructs, AuditOf
  <2> USE DEF Finish, Proceed, db, analyses, plans, attempts
  <2>1. CASE InsertPlan(r)
    <3>1. mine \in Report /\ RecordEvent(r, "PLAN_CREATED")
      BY <2>1 DEF InsertPlan, PlanUnique, NoPlan, InitialApproval
    <3>2. ASSUME NEW type \in EventType
          PROVE  Recorded(rep, type)' <=>
                   (Recorded(rep, type) \/ (rep = mine /\ type = "PLAN_CREATED"))
      BY <3>1, RecordAdds
    <3>3. QED
      BY <2>1, <2>o, <3>1, <3>2
         DEF InsertPlan, PlanUnique, NoPlan, InitialApproval, AuditOf,
             EventType
  <2>2. CASE CommitApproval(r)
    <3>1. mine \in Report /\ RecordEvent(r, "PLAN_APPROVED")
      BY <2>2 DEF CommitApproval, Decide
    <3>2. ASSUME NEW type \in EventType
          PROVE  Recorded(rep, type)' <=>
                   (Recorded(rep, type) \/ (rep = mine /\ type = "PLAN_APPROVED"))
      BY <3>1, RecordAdds
    <3>3. QED
      BY <2>2, <2>o, <3>1, <3>2
         DEF CommitApproval, Decide, AuditOf, EventType, DecidingInv
  <2>3. CASE CommitRejection(r)
    <3>1. mine \in Report /\ RecordEvent(r, "PLAN_REJECTED")
      BY <2>3 DEF CommitRejection, Decide
    <3>2. ASSUME NEW type \in EventType
          PROVE  Recorded(rep, type)' <=>
                   (Recorded(rep, type) \/ (rep = mine /\ type = "PLAN_REJECTED"))
      BY <3>1, RecordAdds
    <3>3. QED
      BY <2>3, <2>o, <3>1, <3>2
         DEF CommitRejection, Decide, AuditOf, EventType, DecidingInv
  <2>4. CASE CommitDispatched(r)
    <3>1. mine \in Report /\ RecordEvent(r, "EXECUTION_DISPATCHED")
      BY <2>4 DEF CommitDispatched
    <3>2. ASSUME NEW type \in EventType
          PROVE  Recorded(rep, type)' <=>
                   (Recorded(rep, type) \/ (rep = mine /\ type = "EXECUTION_DISPATCHED"))
      BY <3>1, RecordAdds
    <3>3. QED
      BY <2>4, <2>o, <3>1, <3>2
         DEF CommitDispatched, AuditOf, EventType, DispatchInv, VerdictInv,
             AttemptConsistent
  <2>5. CASE CommitDispatchFailed(r)
    <3>1. mine \in Report /\ RecordEvent(r, "EXECUTION_FAILED")
      BY <2>5 DEF CommitDispatchFailed
    <3>2. ASSUME NEW type \in EventType
          PROVE  Recorded(rep, type)' <=>
                   (Recorded(rep, type) \/ (rep = mine /\ type = "EXECUTION_FAILED"))
      BY <3>1, RecordAdds
    <3>3. QED
      BY <2>5, <2>o, <3>1, <3>2
         DEF CommitDispatchFailed, AuditOf, EventType, DispatchInv,
             VerdictInv, AttemptConsistent
  <2>6. CASE CommitVerification(r)
    <3> DEFINE type == IF verdict[r] = "PASSED" THEN "VERIFICATION_PASSED"
                                             ELSE "VERIFICATION_FAILED"
    <3>1. mine \in Report /\ verdict[r] \in Result /\ RecordEvent(r, type)
      BY <2>6 DEF CommitVerification
    <3>2. ASSUME NEW t \in EventType
          PROVE  Recorded(rep, t)' <=>
                   (Recorded(rep, t) \/ (rep = mine /\ t = type))
      BY <3>1, RecordAdds
    <3>3. reference[mine] /\ attempt[mine] # "ABSENT"
      BY <2>6 DEF CommitVerification, VerdictInv, AttemptConsistent
    <3>4. QED
      BY <2>6, <2>o, <3>1, <3>2, <3>3
         DEF CommitVerification, AuditOf, EventType, Result
  <2>7. CASE InsertAttempt(r)
    <3>1. /\ mine \in Report /\ attempt[mine] = "ABSENT" /\ ~reference[mine]
          /\ attempt' = [attempt EXCEPT ![mine] = "PENDING"]
          /\ UNCHANGED <<approval, reference, verified, audit>>
      BY <2>7 DEF InsertAttempt, AttemptUnique, NoAttempt, VerdictInv,
                  AttemptConsistent
    <3>2. QED
      BY <2>o, <3>1, SameAudit DEF AuditOf
  <2>8. CASE \/ CommitReport(r) \/ CommitInsufficientEvidence(r)
             \/ ProviderAccepts(r) \/ ProviderRefuses(r) \/ LoseReply(r)
             \/ LoadAttempt(r) \/ Refuse(r)
    <3>1. UNCHANGED <<approval, attempt, reference, verified, audit>>
      BY <2>8 DEF CommitReport, CommitInsufficientEvidence, ProviderAccepts,
                  ProviderRefuses, LoseReply, LoadAttempt, Refuse
    <3>2. QED
      BY <3>1, <2>o, SameAudit DEF AuditOf
  <2>9. QED
    BY <1>4, <2>1, <2>2, <2>3, <2>4, <2>5, <2>6, <2>7, <2>8 DEF Serve
<1>5. QED
  BY <1>1, <1>2, <1>3, <1>4 DEF Next

(* The audit trail reconstructs the state of every plan and attempt, on    *)
(* the error paths and under every race as well.                           *)
THEOREM AuditComplete == Spec => []AuditReconstructs
<1>1. Init => AuditReconstructs
  BY DEF Init, AuditReconstructs, AuditOf, Recorded
<1>2. QED
  BY <1>1, AuditStep, InvInductive, PTL DEF Spec
-----------------------------------------------------------------------------
(* The unique row decides racing creations: the loser changes nothing.     *)
THEOREM PlansDerivedOnce == Spec => PlanDerivedOnce
<1> DEFINE Kept(rep) == approval[rep] # "ABSENT" =>
      /\ decision'[rep] = decision[rep]
      /\ approval'[rep] \in {"ABSENT", "PENDING"} =>
           approval'[rep] = approval[rep]
<1>1. ASSUME TypeOK, [Next]_vars PROVE [\A rep \in Report : Kept(rep)]_vars
  <2> SUFFICES ASSUME Next, NEW rep \in Report PROVE Kept(rep)
    BY <1>1
  <2> USE <1>1 DEF TypeOK, InFlight, Dispatching, db, plans, attempts, Finish
  <2>s. ASSUME UNCHANGED plans PROVE Kept(rep)
    BY <2>s
  <2>1. ASSUME NEW r \in Request, Arrive(r) PROVE Kept(rep)
    BY <2>1, <2>s, ArriveStutters
  <2>2. ASSUME NEW r \in Request, Abort(r) PROVE Kept(rep)
    BY <2>2, <2>s DEF Abort
  <2>3. ASSUME NEW r \in Request, Serve(r) PROVE Kept(rep)
    <3>1. CASE InsertPlan(r)
      BY <3>1 DEF InsertPlan, PlanUnique, NoPlan
    <3>2. CASE CommitApproval(r) \/ CommitRejection(r)
      BY <3>2 DEF CommitApproval, CommitRejection, Decide
    <3>3. CASE \/ InsertAttempt(r) \/ ProviderAccepts(r) \/ ProviderRefuses(r)
               \/ LoseReply(r) \/ CommitDispatched(r) \/ CommitDispatchFailed(r)
               \/ LoadAttempt(r) \/ CommitVerification(r) \/ CommitReport(r)
               \/ CommitInsufficientEvidence(r) \/ Refuse(r)
      BY <3>3, <2>s
         DEF InsertAttempt, ProviderAccepts, ProviderRefuses, LoseReply,
             CommitDispatched, CommitDispatchFailed, LoadAttempt,
             CommitVerification, CommitReport, CommitInsufficientEvidence,
             Refuse
    <3>4. QED
      BY <2>3, <3>1, <3>2, <3>3 DEF Serve
  <2>4. QED
    BY <2>1, <2>2, <2>3 DEF Next
<1>2. QED
  BY <1>1, TypeCorrect, PTL DEF Spec, PlanDerivedOnce
-----------------------------------------------------------------------------
(* An attempt never goes back, whichever requests still work on it.        *)
THEOREM AttemptsMoveForward == Spec => AttemptMovesForward
<1> DEFINE Forward(rep) ==
      /\ attempt[rep] # "ABSENT" => attempt'[rep] # "ABSENT"
      /\ attempt'[rep] = "PENDING" => attempt[rep] \in {"ABSENT", "PENDING"}
      /\ attempt'[rep] = "DISPATCHED" =>
           attempt[rep] \in {"PENDING", "DISPATCHED"}
      /\ attempt[rep] = "FAILED" /\ ~reference[rep] =>
           attempt'[rep] = "FAILED" /\ ~reference'[rep]
<1>1. ASSUME IInv, [Next]_vars
      PROVE  [\A rep \in Report : Forward(rep)]_vars
  <2> SUFFICES ASSUME Next, NEW rep \in Report PROVE Forward(rep)
    BY <1>1
  <2> USE <1>1 DEF IInv, TypeOK, InFlight, Dispatching, db, analyses, plans,
                   attempts, Finish, Proceed
  <2>s. ASSUME UNCHANGED attempts PROVE Forward(rep)
    BY <2>s
  <2>1. ASSUME NEW r \in Request, Arrive(r) PROVE Forward(rep)
    BY <2>1, <2>s, ArriveStutters
  <2>2. ASSUME NEW r \in Request, Abort(r) PROVE Forward(rep)
    BY <2>2, <2>s DEF Abort
  <2>3. ASSUME NEW r \in Request, Serve(r) PROVE Forward(rep)
    <3>1. CASE InsertAttempt(r)
      BY <3>1 DEF InsertAttempt, AttemptUnique, NoAttempt
    <3>2. CASE CommitDispatched(r) \/ CommitDispatchFailed(r)
      BY <3>2 DEF CommitDispatched, CommitDispatchFailed, DispatchInv
    <3>3. CASE CommitVerification(r)
      BY <3>3 DEF CommitVerification, VerdictInv, AttemptConsistent
    <3>4. CASE \/ InsertPlan(r) \/ CommitApproval(r) \/ CommitRejection(r)
               \/ CommitReport(r) \/ CommitInsufficientEvidence(r)
               \/ ProviderAccepts(r) \/ ProviderRefuses(r) \/ LoseReply(r)
               \/ LoadAttempt(r) \/ Refuse(r)
      BY <3>4, <2>s
         DEF InsertPlan, CommitApproval, CommitRejection, Decide, CommitReport,
             CommitInsufficientEvidence, ProviderAccepts, ProviderRefuses,
             LoseReply, LoadAttempt, Refuse
    <3>5. QED
      BY <2>3, <3>1, <3>2, <3>3, <3>4 DEF Serve
  <2>4. QED
    BY <2>1, <2>2, <2>3 DEF Next
<1>2. QED
  BY <1>1, InvInductive, PTL DEF Spec, AttemptMovesForward
-----------------------------------------------------------------------------
(* A request records its event with its last commit: the events in the     *)
(* trail are those of requests that are done.                              *)
EventsInv == \A e \in audit : pc[e.by] = "done"

(* Nothing moves a request that is done, and recording one's event is the  *)
(* last thing a request does.                                              *)
LEMMA EventsStep == TypeOK /\ EventsInv /\ [Next]_vars => EventsInv'
<1> SUFFICES ASSUME TypeOK, EventsInv, [Next]_vars PROVE EventsInv'
  OBVIOUS
<1> USE DEF TypeOK, EventsInv, InFlight, Dispatching, db, analyses, plans,
            attempts
<1>m. ASSUME NEW r \in Request, NEW to, pc[r] # "done",
             pc' = [pc EXCEPT ![r] = to], UNCHANGED audit
      PROVE  EventsInv'
  BY <1>m
<1>d. ASSUME NEW r \in Request, NEW from \in InFlight, Finish(r, from),
             NEW type, RecordEvent(r, type)
      PROVE  EventsInv'
  BY <1>d DEF Finish, RecordEvent
<1>1. CASE UNCHANGED vars
  BY <1>1 DEF vars, request
<1>2. ASSUME NEW r \in Request, Arrive(r) PROVE EventsInv'
  <2>1. UNCHANGED audit
    BY <1>2, ArriveStutters
  <2>2. pc[r] = "idle" /\ \E to : pc' = [pc EXCEPT ![r] = to]
    BY <1>2 DEF Arrive, LoadIncidentForAnalysis, LoadPlanToApprove,
      LoadPlanToReject, LoadPlanToExecute, ReceiveCallback, LoadLatestReport,
      CollectEvidence, Begin, Finish
  <2> QED
    BY <2>1, <2>2, <1>m
<1>3. ASSUME NEW r \in Request, Abort(r) PROVE EventsInv'
  BY <1>3, <1>m DEF Abort, Finish
<1>4. ASSUME NEW r \in Request, Serve(r) PROVE EventsInv'
  <2>1. CASE InsertPlan(r)
    BY <2>1, <1>d DEF InsertPlan
  <2>2. CASE CommitApproval(r) \/ CommitRejection(r)
    BY <2>2, <1>d DEF CommitApproval, CommitRejection, Decide
  <2>3. CASE CommitDispatched(r) \/ CommitDispatchFailed(r)
    BY <2>3, <1>d DEF CommitDispatched, CommitDispatchFailed
  <2>4. CASE CommitVerification(r)
    BY <2>4, <1>d DEF CommitVerification
  <2>5. CASE \/ InsertAttempt(r) \/ ProviderAccepts(r) \/ ProviderRefuses(r)
             \/ LoseReply(r) \/ LoadAttempt(r)
    BY <2>5, <1>m DEF InsertAttempt, ProviderAccepts, ProviderRefuses,
      LoseReply, LoadAttempt, Proceed
  <2>6. CASE CommitReport(r) \/ CommitInsufficientEvidence(r) \/ Refuse(r)
    BY <2>6, <1>m DEF CommitReport, CommitInsufficientEvidence, Refuse, Finish
  <2>7. QED
    BY <1>4, <2>1, <2>2, <2>3, <2>4, <2>5, <2>6 DEF Serve
<1>5. QED
  BY <1>1, <1>2, <1>3, <1>4 DEF Next

(* The incident becomes RESOLVED only together with the record of a PASSED *)
(* verification, whatever analyses and collections run at the same time.   *)
THEOREM OnlyPassedResolves == Spec => ResolvedOnlyByPassedCallback
<1> DEFINE Passed == incident # "RESOLVED" /\ incident' = "RESOLVED" =>
             \E e \in audit' \ audit :
               e.type = "VERIFICATION_PASSED" /\ attempt'[e.plan] = "VERIFIED"
<1>1. Init => EventsInv
  BY DEF Init, EventsInv
<1>2. Spec => []EventsInv
  BY <1>1, EventsStep, TypeCorrect, PTL DEF Spec
<1>3. ASSUME TypeOK, EventsInv, [Next]_vars PROVE [Passed]_vars
  <2> SUFFICES ASSUME Next, incident # "RESOLVED", incident' = "RESOLVED"
               PROVE  \E e \in audit' \ audit :
                        /\ e.type = "VERIFICATION_PASSED"
                        /\ attempt'[e.plan] = "VERIFIED"
    BY <1>3
  <2> USE <1>3 DEF TypeOK, InFlight, Dispatching, db
  <2>1. PICK r \in Request : CommitVerification(r)
    BY DEF Next, Arrive, Serve, Abort, LoadIncidentForAnalysis,
      LoadPlanToApprove, LoadPlanToReject, LoadPlanToExecute, ReceiveCallback,
      LoadLatestReport, CollectEvidence, CommitReport,
      CommitInsufficientEvidence, WriteIncident, InsertPlan, CommitApproval,
      CommitRejection, Decide, InsertAttempt, ProviderAccepts,
      ProviderRefuses, LoseReply, CommitDispatched, CommitDispatchFailed,
      LoadAttempt, Refuse
  <2>2. /\ pc[r] = "verifying" /\ target[r] \in Report
        /\ verdict[r] = "PASSED"
    BY <2>1 DEF CommitVerification, WriteIncident, IncidentAfter, Finish,
      Result
  <2> DEFINE e == [by |-> r, type |-> "VERIFICATION_PASSED", plan |-> target[r]]
  <2>3. e \in audit' /\ attempt'[e.plan] = "VERIFIED"
    BY <2>1, <2>2 DEF CommitVerification, RecordEvent
  <2>4. e \notin audit
    BY <2>2 DEF EventsInv
  <2> QED
    BY <2>3, <2>4
<1>4. QED
  BY <1>2, <1>3, TypeCorrect, PTL DEF Spec, ResolvedOnlyByPassedCallback
-----------------------------------------------------------------------------
(* The contract on the incident.                                           *)

(* The steps of requests that hold a loaded status.                        *)
Holding == {"analyzing", "callback", "verifying"}
LoadedInv == \A r \in Request : pc[r] \notin Holding => seen[r] = "OPEN"

SharedInv == TypeOK /\ LoadedInv

(* The analyses and verifications under way, as the contract sees them.    *)
Subject == [r \in Request |-> IF pc[r] = "analyzing" THEN {target[r]} ELSE {}]
Verifying == {r \in Request : pc[r] \in {"callback", "verifying"}}
Inputs == {[input |-> rep] : rep \in reports}

(* While requests neither start nor end, the contract sees nothing.        *)
LEMMA IncidentKept ==
  ASSUME UNCHANGED <<incident, reports, seen, Subject, Verifying>>
  PROVE  UNCHANGED Incident!vars
  BY DEF Incident!vars, Subject, Verifying

(* The end of a request ends its analysis or verification, or is not seen. *)
LEMMA FinishEnds ==
  ASSUME SharedInv, NEW r \in Request, NEW step \in InFlight \cup {"idle"}, Finish(r, step)
  PROVE  /\ LoadedInv'
         /\ step \in Holding => Incident!End(r)
         /\ step = "analyzing" => Subject[r] = {target[r]} /\ target[r] \in Report
         /\ step \in {"callback", "verifying"} => r \in Verifying
         /\ step \notin Holding => UNCHANGED <<seen, Subject, Verifying>>
<1> USE DEF SharedInv, TypeOK
<1>1. /\ pc[r] = step /\ pc' = [pc EXCEPT ![r] = "done"]
      /\ target' = [target EXCEPT ![r] = NoReport] /\ seen' = [seen EXCEPT ![r] = "OPEN"]
  BY DEF Finish
<1>2. /\ LoadedInv'
      /\ step \notin Holding => seen' = seen
  BY <1>1 DEF LoadedInv
<1>3. \A q \in Request : Subject'[q] = IF q = r THEN {} ELSE Subject[q]
  BY <1>1 DEF Subject
<1>4. Subject' = [Subject EXCEPT ![r] = {}]
  BY <1>3 DEF Subject
<1>5. Verifying' = Verifying \ {r}
  BY <1>1 DEF Verifying
<1>6. /\ step = "analyzing" => Subject[r] = {target[r]} /\ target[r] \in Report
      /\ step # "analyzing" => Subject[r] = {}
      /\ step \in {"callback", "verifying"} <=> r \in Verifying
  BY <1>1 DEF Subject, Verifying, InFlight
<1>7. step \notin Holding => Subject' = Subject /\ Verifying' = Verifying
  <2>1. step \notin Holding => Subject[r] = {} /\ r \notin Verifying
    BY <1>6 DEF Holding
  <2>2. Subject = [q \in Request |-> Subject[q]]
    BY DEF Subject
  <2>3. Subject[r] = {} => Subject' = Subject
    BY <1>4, <2>2
  <2> QED
    BY <1>5, <2>1, <2>3
<1>8. step \in Holding => Incident!End(r)
  BY <1>1, <1>4, <1>5, <1>6 DEF Incident!End, Holding, Subject, Verifying
<1> QED
  BY <1>2, <1>6, <1>7, <1>8

(* A request that starts or goes on, and loads no status, is not seen.     *)
LEMMA ProceedKept ==
  ASSUME SharedInv, NEW r \in Request, NEW to,
         pc' = [pc EXCEPT ![r] = to], UNCHANGED seen,
         to \in Holding <=> pc[r] \in Holding,
         to = "analyzing" <=> pc[r] = "analyzing",
         \A q \in Request : pc[q] = "analyzing" => target'[q] = target[q]
  PROVE  LoadedInv' /\ UNCHANGED <<seen, Subject, Verifying>>
<1> USE DEF SharedInv, TypeOK
<1>1. /\ \A q \in Request : pc'[q] \in Holding <=> pc[q] \in Holding
      /\ \A q \in Request : pc'[q] = "analyzing" <=> pc[q] = "analyzing"
  OBVIOUS
<1>2. Subject' = Subject
  BY <1>1 DEF Subject
<1>3. Verifying' = Verifying
  BY <1>1 DEF Verifying, Holding
<1> QED
  BY <1>1, <1>2, <1>3 DEF LoadedInv

(* What the arrival of a request is for the contract.                      *)
LEMMA ArriveShared ==
  ASSUME SharedInv, NEW r \in Request, Arrive(r)
  PROVE  LoadedInv' /\ [Incident!Next]_(Incident!vars)
<1> USE DEF SharedInv, TypeOK
<1>1. ASSUME NEW rep \in Report, LoadIncidentForAnalysis(r, rep)
      PROVE  LoadedInv' /\ Incident!StartAnalysis(r)
  <2>1. /\ pc[r] = "idle" /\ pc' = [pc EXCEPT ![r] = "analyzing"]
        /\ target' = [target EXCEPT ![r] = rep]
        /\ seen' = [seen EXCEPT ![r] = incident] /\ UNCHANGED <<incident, reports>>
    BY <1>1 DEF LoadIncidentForAnalysis, Begin, db, analyses
  <2>2. LoadedInv'
    BY <2>1 DEF LoadedInv, Holding
  <2>3. \A q \in Request : Subject'[q] = IF q = r THEN {rep} ELSE Subject[q]
    BY <2>1 DEF Subject
  <2>4. Subject' = [Subject EXCEPT ![r] = {rep}] /\ Subject'[r] = {rep} /\ Subject[r] = {}
    BY <2>1, <2>3 DEF Subject
  <2>5. Verifying' = Verifying /\ r \notin Verifying
    BY <2>1 DEF Verifying
  <2> QED
    BY <2>1, <2>2, <2>4, <2>5 DEF Incident!StartAnalysis, Incident!Load, Subject, Verifying
<1>2. ASSUME NEW rep \in Report, NEW v \in Result, ReceiveCallback(r, rep, v)
      PROVE  LoadedInv' /\ Incident!ReceiveVerdict(r)
  <2>1. /\ pc[r] = "idle" /\ pc' = [pc EXCEPT ![r] = "callback"]
        /\ target' = [target EXCEPT ![r] = rep]
        /\ seen' = [seen EXCEPT ![r] = incident] /\ UNCHANGED <<incident, reports>>
    BY <1>2 DEF ReceiveCallback, Begin, db, analyses
  <2>2. LoadedInv'
    BY <2>1 DEF LoadedInv, Holding
  <2>3. Subject' = Subject /\ Subject[r] = {}
    BY <2>1 DEF Subject
  <2>4. Verifying' = Verifying \cup {r} /\ r \notin Verifying
    BY <2>1 DEF Verifying
  <2> QED
    BY <2>1, <2>2, <2>3, <2>4 DEF Incident!ReceiveVerdict, Incident!Load, Subject, Verifying
<1>3. ASSUME NEW rep \in Report,
             \/ LoadPlanToApprove(r, rep) \/ LoadPlanToReject(r, rep)
             \/ LoadPlanToExecute(r, rep)
             \/ LoadLatestReport(r)
      PROVE  LoadedInv' /\ UNCHANGED Incident!vars
  <2>1. PICK step \in {"creating", "approving", "rejecting", "executing"} :
          \E rep2 : Begin(r, step, rep2)
    BY <1>3 DEF LoadPlanToApprove, LoadPlanToReject, LoadPlanToExecute, LoadLatestReport
  <2>2. UNCHANGED <<incident, reports, seen>>
    BY <1>3 DEF LoadPlanToApprove, LoadPlanToReject, LoadPlanToExecute,
      LoadLatestReport, db, analyses
  <2>3. LoadedInv' /\ UNCHANGED <<seen, Subject, Verifying>>
    BY <2>1, <2>2, ProceedKept DEF Begin, Holding
  <2> QED
    BY <2>2, <2>3, IncidentKept
<1>4. CASE LoadLatestReport(r)
  <2>1. \E rep \in Report : TRUE
    BY <1>4 DEF LoadLatestReport
  <2> QED
    BY <1>3, <1>4, <2>1
<1>5. CASE CollectEvidence(r)
  <2>1. /\ Finish(r, "idle") /\ incident' \in {"ANALYZING", "ACTION_REQUIRED"}
        /\ UNCHANGED reports
    BY <1>5 DEF CollectEvidence, analyses
  <2>2. LoadedInv' /\ UNCHANGED <<seen, Subject, Verifying>>
    BY <2>1, FinishEnds DEF Holding
  <2> QED
    BY <2>1, <2>2 DEF Incident!Collect, Incident!Next, Subject, Verifying
<1> QED
  BY <1>1, <1>2, <1>3, <1>4, <1>5 DEF Arrive, Incident!Next

(* What a step of a request is for the contract.                           *)
LEMMA ServeShared ==
  ASSUME SharedInv, NEW r \in Request, Serve(r)
  PROVE  LoadedInv' /\ [Incident!Next]_(Incident!vars)
<1> USE DEF InFlight, Dispatching, Holding
<1>1. CASE CommitReport(r)
  <2>1. /\ Finish(r, "analyzing") /\ target[r] \notin reports
        /\ reports' = reports \cup {target[r]} /\ WriteIncident(r, "ACTION_REQUIRED")
    BY <1>1 DEF CommitReport, NewInput
  <2>2. LoadedInv' /\ Incident!End(r) /\ Subject[r] = {target[r]}
    BY <2>1, FinishEnds
  <2>3. \A rep \in Inputs : rep.input # target[r]
    BY <2>1 DEF Inputs
  <2>4. \E rep \in Inputs' : rep.input = target[r] /\ Inputs' = Inputs \cup {rep}
    <3>1. /\ [input |-> target[r]] \in Inputs'
          /\ Inputs' = Inputs \cup {[input |-> target[r]]}
      BY <2>1 DEF Inputs
    <3> QED
      BY <3>1
  <2>5. Incident!Publish(r)
    BY <2>1, <2>2, <2>3, <2>4
    DEF Incident!Publish, Incident!Write, WriteIncident, Subject, Inputs
  <2> QED
    BY <2>2, <2>5 DEF Incident!Next
<1>2. CASE CommitInsufficientEvidence(r)
  <2>1. /\ Finish(r, "analyzing") /\ UNCHANGED reports
        /\ WriteIncident(r, "ACTION_REQUIRED")
    BY <1>2 DEF CommitInsufficientEvidence, analyses
  <2>2. LoadedInv' /\ Incident!End(r) /\ Subject[r] = {target[r]}
    BY <2>1, FinishEnds
  <2>3. Incident!FindInsufficient(r)
    BY <2>1, <2>2 DEF Incident!FindInsufficient, Incident!Write, WriteIncident, Subject
  <2> QED
    BY <2>2, <2>3 DEF Incident!Next
<1>3. CASE CommitVerification(r)
  <2>1. /\ Finish(r, "verifying") /\ UNCHANGED reports
        /\ \E to \in {"RESOLVED", "ACTION_REQUIRED"} : WriteIncident(r, to)
    BY <1>3 DEF CommitVerification, analyses, IncidentAfter
  <2>2. LoadedInv' /\ Incident!End(r) /\ r \in Verifying
    BY <2>1, FinishEnds
  <2>3. Incident!Verify(r)
    BY <2>1, <2>2 DEF Incident!Verify, Incident!Write, WriteIncident, Verifying
  <2> QED
    BY <2>2, <2>3 DEF Incident!Next
<1>4. CASE \/ InsertPlan(r) \/ CommitApproval(r) \/ CommitRejection(r)
           \/ CommitDispatched(r) \/ CommitDispatchFailed(r)
  <2>1. /\ \E step \in InFlight \ Holding : Finish(r, step)
        /\ UNCHANGED <<incident, reports>>
    BY <1>4 DEF InsertPlan, CommitApproval, CommitRejection, Decide,
      CommitDispatched, CommitDispatchFailed, analyses
  <2> QED
    BY <2>1, FinishEnds, IncidentKept
<1>5. CASE \/ InsertAttempt(r) \/ ProviderAccepts(r) \/ ProviderRefuses(r)
           \/ LoseReply(r) \/ LoadAttempt(r)
  <2>1. /\ \E from, to \in InFlight :
             /\ Proceed(r, from, to)
             /\ to \in Holding <=> from \in Holding
             /\ to # "analyzing" /\ from # "analyzing"
        /\ UNCHANGED <<incident, reports>>
    BY <1>5 DEF InsertAttempt, ProviderAccepts, ProviderRefuses, LoseReply, LoadAttempt,
      db, analyses
  <2>2. LoadedInv' /\ UNCHANGED <<seen, Subject, Verifying>>
    BY <2>1, ProceedKept DEF Proceed
  <2> QED
    BY <2>1, <2>2, IncidentKept
<1>6. CASE Refuse(r)
  <2>1. PICK step \in InFlight : Finish(r, step)
    BY <1>6 DEF Refuse
  <2>2. UNCHANGED <<incident, reports>>
    BY <1>6 DEF Refuse, db, analyses
  <2> QED
    BY <2>1, <2>2, FinishEnds, IncidentKept DEF Incident!GiveUp, Incident!Next
<1> QED
  BY <1>1, <1>2, <1>3, <1>4, <1>5, <1>6 DEF Serve

(* The recovery shares the incident with collection and analysis by the    *)
(* contract that these implement: an analysis, a collection and a callback *)
(* are to the rows of this module what the contract says of them           *)
(* (recovery_executor.py receive_callback).                                *)
THEOREM RefinesIncident == Spec => ImplementsIncident
<1>1. Init => SharedInv /\ Incident!Init
  <2> SUFFICES ASSUME Init PROVE SharedInv /\ Incident!Init
    OBVIOUS
  <2> QED
    BY TypeInit DEF Init, SharedInv, LoadedInv, Incident!Init
<1>2. SharedInv /\ [Next]_vars => SharedInv' /\ [Incident!Next]_(Incident!vars)
  <2> SUFFICES ASSUME SharedInv, [Next]_vars
               PROVE  LoadedInv' /\ [Incident!Next]_(Incident!vars)
    BY TypeStep DEF SharedInv
  <2>1. CASE UNCHANGED vars
    BY <2>1, IncidentKept
    DEF vars, db, analyses, request, SharedInv, LoadedInv, Subject, Verifying
  <2>2. ASSUME NEW r \in Request, Abort(r)
        PROVE  LoadedInv' /\ [Incident!Next]_(Incident!vars)
    <3>1. PICK step \in InFlight : Finish(r, step)
      BY <2>2 DEF Abort
    <3>2. UNCHANGED <<incident, reports>>
      BY <2>2 DEF Abort, db, analyses
    <3> QED
      BY <3>1, <3>2, FinishEnds, IncidentKept DEF Incident!GiveUp, Incident!Next
  <2> QED
    BY <2>1, <2>2, ArriveShared, ServeShared DEF Next
<1> QED
  BY <1>1, <1>2, PTL DEF Spec, ImplementsIncident, Incident!Spec
-----------------------------------------------------------------------------
(* Two claims of the documentation that races break, and what keeps them.  *)

(* No approval and rejection of the same plan are under way at once.       *)
NoOpposedDecisions ==
  \A r, q \in Request :
    pc[r] = "approving" /\ pc[q] = "rejecting" => target[r] # target[q]

(* What _require_pending checked has at most been decided the same way.    *)
Unopposed ==
  \A r \in Request :
    /\ pc[r] = "approving" => approval[target[r]] \in {"PENDING", "APPROVED"}
    /\ pc[r] = "rejecting" => approval[target[r]] \in {"PENDING", "REJECTED"}

(* A step that decides no plan and lets no request begin to.               *)
LEMMA UnopposedIfNoDecision ==
  ASSUME Unopposed, UNCHANGED approval,
         NEW r \in Request, NEW step, step \notin {"approving", "rejecting"},
         pc' = [pc EXCEPT ![r] = step],
         \A q \in Request \ {r} : target'[q] = target[q],
         pc \in [Request -> InFlight \cup {"idle", "done"}]
  PROVE  Unopposed'
BY DEF Unopposed

(* Every step keeps Unopposed where opposed decisions do not meet.         *)
LEMMA UnopposedStep ==
  ASSUME IInv, NoOpposedDecisions, Unopposed, [Next]_vars
  PROVE  Unopposed'
<1> USE DEF IInv, TypeOK, db, plans
<1>f. ASSUME NEW r \in Request, NEW from, Finish(r, from), UNCHANGED approval
      PROVE  Unopposed'
  BY <1>f, UnopposedIfNoDecision DEF Finish
<1>1. CASE UNCHANGED vars
  BY <1>1 DEF Unopposed, vars, request
<1>2. ASSUME NEW r \in Request, Arrive(r) PROVE Unopposed'
  <2> USE DEF Begin
  <2>1. UNCHANGED approval
    BY <1>2, ArriveStutters
  <2>2. ASSUME NEW rep \in Report,
               LoadPlanToApprove(r, rep) \/ LoadPlanToReject(r, rep)
        PROVE  Unopposed'
    BY <2>1, <2>2 DEF LoadPlanToApprove, LoadPlanToReject, Pending, Unopposed
  <2>3. ASSUME NEW rep \in Report,
               LoadIncidentForAnalysis(r, rep) \/ LoadPlanToExecute(r, rep)
        PROVE  Unopposed'
    BY <2>1, <2>3, UnopposedIfNoDecision
      DEF LoadIncidentForAnalysis, LoadPlanToExecute
  <2>4. ASSUME NEW rep \in Report, NEW v \in Result, ReceiveCallback(r, rep, v)
        PROVE  Unopposed'
    BY <2>1, <2>4, UnopposedIfNoDecision DEF ReceiveCallback
  <2>5. CASE LoadLatestReport(r)
    BY <2>1, <2>5, UnopposedIfNoDecision DEF LoadLatestReport
  <2>6. CASE CollectEvidence(r)
    BY <2>1, <2>6, <1>f DEF CollectEvidence
  <2> QED
    BY <1>2, <2>2, <2>3, <2>4, <2>5, <2>6 DEF Arrive
<1>3. ASSUME NEW r \in Request, Abort(r) PROVE Unopposed'
  BY <1>3, <1>f DEF Abort
<1>4. ASSUME NEW r \in Request, Serve(r) PROVE Unopposed'
  <2>1. CASE InsertPlan(r)
    BY <2>1 DEF InsertPlan, PlanUnique, NoPlan, Unopposed, Finish, InFlight
  <2>2. CASE CommitApproval(r)
    BY <2>2 DEF CommitApproval, Decide, NoOpposedDecisions, Unopposed, Finish,
      InFlight
  <2>3. CASE CommitRejection(r)
    BY <2>3 DEF CommitRejection, Decide, NoOpposedDecisions, Unopposed, Finish,
      InFlight
  <2>4. CASE \/ CommitReport(r) \/ CommitInsufficientEvidence(r)
             \/ CommitDispatched(r) \/ CommitDispatchFailed(r)
             \/ CommitVerification(r) \/ Refuse(r)
    BY <2>4, <1>f DEF CommitReport, CommitInsufficientEvidence,
      CommitDispatched, CommitDispatchFailed, CommitVerification, Refuse
  <2>5. CASE \/ InsertAttempt(r) \/ ProviderAccepts(r) \/ ProviderRefuses(r)
             \/ LoseReply(r) \/ LoadAttempt(r)
    BY <2>5, UnopposedIfNoDecision
      DEF InsertAttempt, ProviderAccepts, ProviderRefuses, LoseReply,
          LoadAttempt, Proceed
  <2> QED
    BY <1>4, <2>1, <2>2, <2>3, <2>4, <2>5 DEF Serve
<1> QED
  BY <1>1, <1>2, <1>3, <1>4 DEF Next

(* A decision is final as long as no approval and rejection of one plan    *)
(* are under way at once: only their race overwrites a decision.           *)
THEOREM DecisionFinalUnopposed ==
  Spec /\ []NoOpposedDecisions => DecisionIsFinal
<1> DEFINE Final == \A rep \in Report :
      approval[rep] \in {"APPROVED", "REJECTED"} => approval'[rep] = approval[rep]
<1>1. Init => Unopposed
  BY DEF Init, Unopposed
<1>2. IInv /\ NoOpposedDecisions /\ Unopposed /\ [Next]_vars => Unopposed'
  BY UnopposedStep
<1>3. IInv /\ Unopposed /\ [Next]_vars => [Final]_vars
  <2> SUFFICES ASSUME IInv, Unopposed, Next,
                      NEW rep \in Report, approval[rep] \in {"APPROVED", "REJECTED"}
               PROVE  approval'[rep] = approval[rep]
    OBVIOUS
  <2> USE DEF IInv, TypeOK, InFlight, Dispatching, db, plans, Finish
  <2>1. ASSUME NEW r \in Request, Arrive(r) \/ Abort(r)
        PROVE  approval' = approval
    BY <2>1, ArriveStutters DEF Abort
  <2>2. ASSUME NEW r \in Request, Serve(r) PROVE approval'[rep] = approval[rep]
    <3>1. CASE InsertPlan(r)
      BY <3>1 DEF InsertPlan, PlanUnique, NoPlan
    <3>2. CASE CommitApproval(r) \/ CommitRejection(r)
      BY <3>2 DEF CommitApproval, CommitRejection, Decide, Unopposed
    <3>3. CASE ~(InsertPlan(r) \/ CommitApproval(r) \/ CommitRejection(r))
      BY <2>2, <3>3 DEF Serve, CommitReport, CommitInsufficientEvidence,
        InsertAttempt, ProviderAccepts, ProviderRefuses, LoseReply,
        CommitDispatched, CommitDispatchFailed, LoadAttempt, CommitVerification,
        Refuse
    <3> QED
      BY <3>1, <3>2, <3>3
  <2> QED
    BY <2>1, <2>2 DEF Next
<1> QED
  BY <1>1, <1>2, <1>3, InvInductive, PTL DEF Spec, DecisionIsFinal

(* What a lock on the incident's row would ensure: nobody writes another   *)
(* status between a callback's read and its commit.                        *)
StatusHeldForCallbacks ==
  [][incident' # incident =>
       \A r \in Request :
         pc[r] \in {"callback", "verifying"} => pc'[r] = "done"]_vars

(* What a callback loaded is what the row still says.                      *)
LoadedIsCurrent ==
  \A r \in Request : pc[r] \in {"callback", "verifying"} => seen[r] = incident

(* A step that writes no status where a callback still holds the old one,  *)
(* and lets no callback come.                                              *)
LEMMA CurrentIfHeld ==
  ASSUME LoadedIsCurrent, NEW r \in Request, NEW step,
         step \in {"callback", "verifying"} =>
           pc[r] \in {"callback", "verifying"} /\ seen' = seen,
         pc' = [pc EXCEPT ![r] = step],
         \A q \in Request \ {r} : seen'[q] = seen[q],
         pc \in [Request -> InFlight \cup {"idle", "done"}],
         incident' # incident =>
           \A q \in Request :
             pc[q] \in {"callback", "verifying"} => pc'[q] = "done"
  PROVE  LoadedIsCurrent'
BY DEF LoadedIsCurrent

(* A FAILED callback leaves the incident in ACTION_REQUIRED, whatever it   *)
(* found there and however many callbacks and analyses run, provided the   *)
(* row's status is held for it: the code lacks that lock and nothing else. *)
THEOREM FailureRequiresActionWhenHeld ==
  Spec /\ StatusHeldForCallbacks => FailedCallbackRequiresAction
<1> DEFINE Held == incident' # incident =>
             \A r \in Request :
               pc[r] \in {"callback", "verifying"} => pc'[r] = "done"
           Required == (\E e \in audit' \ audit : e.type = "VERIFICATION_FAILED")
                         => incident' = "ACTION_REQUIRED"
<1>1. Init => LoadedIsCurrent
  BY DEF Init, LoadedIsCurrent
<1>2. TypeOK /\ LoadedIsCurrent /\ [Held]_vars /\ [Next]_vars => LoadedIsCurrent'
  <2> SUFFICES ASSUME TypeOK, LoadedIsCurrent, [Held]_vars, [Next]_vars
               PROVE  LoadedIsCurrent'
    OBVIOUS
  <2> USE DEF TypeOK, db
  <2>1. CASE UNCHANGED vars
    BY <2>1 DEF LoadedIsCurrent, vars, request
  <2> SUFFICES ASSUME Held, NEW r \in Request, Arrive(r) \/ Serve(r) \/ Abort(r)
               PROVE  LoadedIsCurrent'
    BY <2>1 DEF Next
  <2>f. ASSUME NEW from, Finish(r, from) PROVE LoadedIsCurrent'
    BY <2>f, CurrentIfHeld DEF Finish
  <2>b. ASSUME NEW step \in InFlight \ {"callback", "verifying"}, NEW rep,
               Begin(r, step, rep), \A q \in Request \ {r} : seen'[q] = seen[q]
        PROVE  LoadedIsCurrent'
    BY <2>b, CurrentIfHeld DEF Begin
  <2>2. CASE Arrive(r)
    <3>1. ASSUME NEW rep \in Report, NEW v \in Result, ReceiveCallback(r, rep, v)
          PROVE  LoadedIsCurrent'
      BY <3>1 DEF ReceiveCallback, Begin, LoadedIsCurrent
    <3>2. ASSUME NEW rep \in Report,
                 \/ LoadIncidentForAnalysis(r, rep) \/ LoadPlanToApprove(r, rep)
                 \/ LoadPlanToReject(r, rep) \/ LoadPlanToExecute(r, rep)
          PROVE  LoadedIsCurrent'
      BY <3>2, <2>b DEF LoadIncidentForAnalysis, LoadPlanToApprove,
        LoadPlanToReject, LoadPlanToExecute, InFlight
    <3>3. CASE LoadLatestReport(r)
      BY <3>3, <2>b DEF LoadLatestReport, InFlight
    <3>4. CASE CollectEvidence(r)
      BY <3>4, <2>f DEF CollectEvidence
    <3> QED
      BY <2>2, <3>1, <3>2, <3>3, <3>4 DEF Arrive
  <2>3. CASE Serve(r)
    <3>1. CASE LoadAttempt(r)
      BY <3>1, CurrentIfHeld DEF LoadAttempt, Proceed
    <3>2. CASE \/ InsertAttempt(r) \/ ProviderAccepts(r) \/ ProviderRefuses(r)
               \/ LoseReply(r)
      BY <3>2, CurrentIfHeld
        DEF InsertAttempt, ProviderAccepts, ProviderRefuses, LoseReply, Proceed
    <3>3. CASE \/ CommitReport(r) \/ CommitInsufficientEvidence(r)
               \/ InsertPlan(r) \/ CommitApproval(r) \/ CommitRejection(r)
               \/ CommitDispatched(r) \/ CommitDispatchFailed(r)
               \/ CommitVerification(r) \/ Refuse(r)
      BY <3>3, <2>f DEF CommitReport, CommitInsufficientEvidence, InsertPlan,
        CommitApproval, CommitRejection, Decide, CommitDispatched,
        CommitDispatchFailed, CommitVerification, Refuse
    <3> QED
      BY <2>3, <3>1, <3>2, <3>3 DEF Serve
  <2>4. CASE Abort(r)
    BY <2>4, <2>f DEF Abort
  <2> QED
    BY <2>2, <2>3, <2>4
<1>3. TypeOK /\ LoadedIsCurrent /\ [Next]_vars => [Required]_vars
  <2> SUFFICES ASSUME TypeOK, LoadedIsCurrent, Next,
                      NEW e \in audit' \ audit, e.type = "VERIFICATION_FAILED"
               PROVE  incident' = "ACTION_REQUIRED"
    OBVIOUS
  <2> USE DEF TypeOK, db
  <2>1. PICK r \in Request : CommitVerification(r)
    <3>1. PICK r \in Request : Arrive(r) \/ Serve(r) \/ Abort(r)
      BY DEF Next
    <3>2. Serve(r)
      BY <3>1, ArriveStutters DEF Abort
    <3>3. ASSUME NEW type, type # "VERIFICATION_FAILED" PROVE ~RecordEvent(r, type)
      BY <3>3 DEF RecordEvent
    <3> QED
      BY <3>2, <3>3 DEF Serve, CommitReport, CommitInsufficientEvidence, InsertPlan,
        CommitApproval, CommitRejection, Decide, InsertAttempt, ProviderAccepts,
        ProviderRefuses, LoseReply, CommitDispatched, CommitDispatchFailed,
        LoadAttempt, Refuse
  <2>2. verdict[r] # "PASSED"
    BY <2>1 DEF CommitVerification, RecordEvent
  <2>3. seen[r] = incident
    BY <2>1 DEF CommitVerification, Finish, LoadedIsCurrent
  <2> QED
    BY <2>1, <2>2, <2>3 DEF CommitVerification, WriteIncident, IncidentAfter
<1> QED
  BY <1>1, <1>2, <1>3, TypeCorrect, PTL
    DEF Spec, StatusHeldForCallbacks, FailedCallbackRequiresAction
=============================================================================

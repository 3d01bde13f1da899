----------------------- MODULE IncidentAnalysisProof -----------------------
(***************************************************************************)
(* Proofs of the safety properties of IncidentAnalysis, for every set of   *)
(* candidates, sources' offers and requests.                               *)
(***************************************************************************)
EXTENDS IncidentAnalysis, TLAPS

USE CandidateAssumption, NobodyAssumption

(* A collection that has marked the incident holds its lock.               *)
LockInv ==
  \A r \in Request : pc[r] \in {"collecting", "inserting"} => lock = r

(* What a collection looked up is current; what an analysis read is stored *)
(* and its second read found at least what its first one did.              *)
ReadInv ==
  \A r \in Request :
    /\ pc[r] = "inserting" => context[r] = evidence
    /\ pc[r] = "loading" => input[r] \subseteq evidence
    /\ pc[r] = "generating" =>
         /\ input[r] \subseteq context[r] /\ context[r] \subseteq evidence
         /\ Sufficient(context[r])

(* Times of receipt are in the past, and no two reports share one.         *)
StampInv ==
  /\ \A q \in Quality : received[q] <= clock
  /\ \A p, q \in Quality : received[p] = received[q] /\ received[p] > 0 => p = q
  /\ \A r \in Request : pc[r] = "storing" =>
       /\ arrived[r] \in 1..clock
       /\ \A q \in Quality : received[q] # arrived[r]
       /\ \A s \in Request : pc[s] = "storing" /\ arrived[s] = arrived[r] => s = r

(* Quality evidence, and what a collection is about to add, are stored     *)
(* reports, and what it adds is no older than what is evidence already.    *)
QualityInv ==
  /\ \A q \in evidence \cap Quality : received[q] > 0
  /\ \A r \in Request : pc[r] = "inserting" =>
       \A new \in offer[r] \cap Quality :
         /\ received[new] > 0
         /\ \A old \in evidence \cap Quality : received[old] <= received[new]

(* The inductive invariant.                                                *)
IInv ==
  /\ TypeOK
  /\ LockInv /\ ReadInv /\ StampInv /\ QualityInv
  /\ ReportsAreGrounded /\ OneReportPerInput /\ AnalyzingHasLogs

(* The empty tables and idle requests satisfy the invariant.               *)
LEMMA InvInit == Init => IInv
<1> SUFFICES ASSUME Init PROVE IInv
  OBVIOUS
<1>1. TypeOK
  BY DEF Init, TypeOK, Status, InFlight
<1>2. LockInv /\ ReadInv /\ StampInv /\ QualityInv
  BY DEF Init, LockInv, ReadInv, StampInv, QualityInv
<1> QED
  BY <1>1, <1>2 DEF Init, IInv, ReportsAreGrounded, OneReportPerInput, AnalyzingHasLogs

(* Every step keeps the types.                                             *)
LEMMA TypeStep == TypeOK /\ [Next]_vars => TypeOK'
<1> SUFFICES ASSUME TypeOK, [Next]_vars PROVE TypeOK'
  OBVIOUS
<1> USE DEF TypeOK, InFlight, Status, Proceed, Finish, db, quality, local
<1>1. CASE UNCHANGED vars
  BY <1>1 DEF vars
<1>2. ASSUME NEW r \in Request, MarkCollecting(r) PROVE TypeOK'
  BY <1>2 DEF MarkCollecting
<1>3. ASSUME NEW r \in Request, NEW batch \in Batches, AskSources(r, batch)
      PROVE  TypeOK'
  BY <1>3 DEF AskSources, Candidates, Newest, Stored
<1>4. ASSUME NEW r \in Request, CommitCollection(r) PROVE TypeOK'
  BY <1>4 DEF CommitCollection, NewEvidence, StatusAfter
<1>5. ASSUME NEW r \in Request, LoadForAnalysis(r) PROVE TypeOK'
  BY <1>5 DEF LoadForAnalysis
<1>6. ASSUME NEW r \in Request, LoadContext(r) PROVE TypeOK'
  BY <1>6 DEF LoadContext
<1>7. ASSUME NEW r \in Request, CommitInsufficient(r) PROVE TypeOK'
  BY <1>7 DEF CommitInsufficient, WriteStatus
<1>8. ASSUME NEW r \in Request, NEW q \in Quality,
             LoadForUpload(r, q) \/ CommitUpload(r, q)
      PROVE  TypeOK'
  <2>1. CASE LoadForUpload(r, q)
    BY <2>1 DEF LoadForUpload
  <2>2. CASE CommitUpload(r, q)
    BY <2>2 DEF CommitUpload
  <2> QED
    BY <1>8, <2>1, <2>2
<1>9. ASSUME NEW r \in Request, CommitReport(r) PROVE TypeOK'
  <2>1. reports' \subseteq Report
    BY <1>9 DEF CommitReport, Report
  <2> QED
    BY <1>9, <2>1 DEF CommitReport, WriteStatus
<1>10. ASSUME NEW r \in Request, RollBack(r) PROVE TypeOK'
  BY <1>10 DEF RollBack
<1> QED
  BY <1>1, <1>2, <1>3, <1>4, <1>5, <1>6, <1>7, <1>8, <1>9, <1>10 DEF Next

(* The lock keeps the collections apart, and evidence is only ever added:  *)
(* what the others have read stays stored.                                 *)
LEMMA ReadStep ==
  TypeOK /\ LockInv /\ ReadInv /\ [Next]_vars => LockInv' /\ ReadInv'
<1> SUFFICES ASSUME TypeOK, LockInv, ReadInv, [Next]_vars
             PROVE  LockInv' /\ ReadInv'
  OBVIOUS
<1> USE DEF TypeOK, LockInv, ReadInv, InFlight, Proceed, Finish,
            db, quality, local
<1>1. CASE UNCHANGED vars
  BY <1>1 DEF vars
<1>2. ASSUME NEW r \in Request, MarkCollecting(r) PROVE LockInv' /\ ReadInv'
  BY <1>2 DEF MarkCollecting, LockFree
<1>3. ASSUME NEW r \in Request, NEW batch \in Batches, AskSources(r, batch)
      PROVE  LockInv' /\ ReadInv'
  BY <1>3 DEF AskSources
<1>4. ASSUME NEW r \in Request, CommitCollection(r)
      PROVE  LockInv' /\ ReadInv'
  <2>1. /\ pc[r] = "inserting" /\ lock = r
        /\ evidence \subseteq evidence' /\ UNCHANGED reports
    BY <1>4 DEF CommitCollection
  <2>2. \A q \in Request \ {r} :
          /\ pc'[q] = pc[q] /\ input'[q] = input[q] /\ context'[q] = context[q]
          /\ pc[q] \notin {"collecting", "inserting"}
    BY <1>4, <2>1 DEF CommitCollection
  <2>3. pc'[r] = "done"
    BY <1>4 DEF CommitCollection
  <2> QED
    BY <2>1, <2>2, <2>3
<1>5. ASSUME NEW r \in Request, LoadForAnalysis(r) PROVE LockInv' /\ ReadInv'
  BY <1>5 DEF LoadForAnalysis
<1>6. ASSUME NEW r \in Request, LoadContext(r) PROVE LockInv' /\ ReadInv'
  BY <1>6 DEF LoadContext
<1>7. ASSUME NEW r \in Request, CommitInsufficient(r)
      PROVE  LockInv' /\ ReadInv'
  BY <1>7 DEF CommitInsufficient
<1>8. ASSUME NEW r \in Request, NEW q \in Quality,
             LoadForUpload(r, q) \/ CommitUpload(r, q)
      PROVE  LockInv' /\ ReadInv'
  BY <1>8 DEF LoadForUpload, CommitUpload
<1>9. ASSUME NEW r \in Request, CommitReport(r) PROVE LockInv' /\ ReadInv'
  BY <1>9 DEF CommitReport
<1>10. ASSUME NEW r \in Request, RollBack(r) PROVE LockInv' /\ ReadInv'
  BY <1>10 DEF RollBack
<1> QED
  BY <1>1, <1>2, <1>3, <1>4, <1>5, <1>6, <1>7, <1>8, <1>9, <1>10 DEF Next

(* Reports are stored grounded and stay so; the status follows the logs.   *)
LEMMA ReportStep ==
  IInv /\ [Next]_vars =>
    (ReportsAreGrounded /\ OneReportPerInput /\ AnalyzingHasLogs)'
<1> DEFINE Goal == ReportsAreGrounded /\ OneReportPerInput /\ AnalyzingHasLogs
<1> SUFFICES ASSUME IInv, [Next]_vars PROVE Goal'
  OBVIOUS
<1> USE DEF IInv, TypeOK, ReportsAreGrounded, OneReportPerInput,
            AnalyzingHasLogs, db
<1>1. CASE UNCHANGED vars
  BY <1>1 DEF vars
<1>2. ASSUME NEW r \in Request, CommitCollection(r) PROVE Goal'
  <2>1. context[r] = evidence /\ offer[r] \subseteq Candidate
    BY <1>2 DEF CommitCollection, Finish, Proceed, ReadInv
  <2>2. /\ evidence' = evidence \cup offer[r] /\ reports' = reports
        /\ status' = StatusAfter(offer[r])
    BY <1>2, <2>1 DEF CommitCollection, NewEvidence
  <2> QED
    BY <2>2 DEF StatusAfter
<1>3. ASSUME NEW r \in Request, CommitReport(r) PROVE Goal'
  <2>1. /\ input[r] \subseteq context[r] /\ context[r] \subseteq evidence
        /\ Sufficient(context[r]) /\ ~Reported(input[r])
        /\ evidence' = evidence
    BY <1>3 DEF CommitReport, Finish, Proceed, ReadInv, InputUnique
  <2> PICK found \in SUBSET Knowledge, docs \in SUBSET Knowledge,
           cites \in SUBSET Candidate :
             /\ Valid(r, found, cites, docs)
             /\ reports' = reports \cup
                  {[input |-> input[r], context |-> context[r],
                    cites |-> cites, knowledge |-> docs]}
    BY <1>3 DEF CommitReport
  <2>2. cites # {} /\ cites \subseteq context[r] /\ docs \cap Own = {}
    BY DEF Valid, Retrieved
  <2>3. status' = status \/ status' = "ACTION_REQUIRED"
    BY <1>3 DEF CommitReport, WriteStatus
  <2> QED
    BY <2>1, <2>2, <2>3 DEF Sufficient, Reported
<1>4. ASSUME NEW r \in Request, CommitInsufficient(r) PROVE Goal'
  BY <1>4 DEF CommitInsufficient, WriteStatus
<1>5. ASSUME NEW r \in Request,
             \/ MarkCollecting(r) \/ LoadForAnalysis(r) \/ LoadContext(r)
             \/ \E batch \in Batches : AskSources(r, batch)
             \/ \E q \in Quality : LoadForUpload(r, q) \/ CommitUpload(r, q)
             \/ RollBack(r)
      PROVE  Goal'
  <2>1. UNCHANGED db
    BY <1>5 DEF MarkCollecting, LoadForAnalysis, LoadContext, AskSources,
      LoadForUpload, CommitUpload, RollBack
  <2> QED
    BY <2>1
<1> QED
  BY <1>1, <1>2, <1>3, <1>4, <1>5 DEF Next

(* An upload draws a new time and gives it to a report that had none.      *)
LEMMA StampStep == TypeOK /\ StampInv /\ [Next]_vars => StampInv'
<1> SUFFICES ASSUME TypeOK, StampInv, [Next]_vars PROVE StampInv'
  OBVIOUS
<1> USE DEF TypeOK, StampInv, Proceed, Finish, quality, local
<1>1. CASE UNCHANGED vars
  BY <1>1 DEF vars
<1>2. ASSUME NEW r \in Request, NEW q \in Quality, LoadForUpload(r, q)
      PROVE  StampInv'
  BY <1>2 DEF LoadForUpload
<1>3. ASSUME NEW r \in Request, NEW q \in Quality, CommitUpload(r, q)
      PROVE  StampInv'
  <2>1. /\ pc[r] = "storing" /\ received[q] = 0 /\ clock' = clock
        /\ received' = [received EXCEPT ![q] = arrived[r]]
        /\ pc' = [pc EXCEPT ![r] = "done"]
        /\ arrived' = [arrived EXCEPT ![r] = 0]
    BY <1>3 DEF CommitUpload, ContentUnique
  <2>2. \A p \in Quality : received'[p] = IF p = q THEN arrived[r] ELSE received[p]
    BY <2>1
  <2>3. \A s \in Request : pc'[s] = "storing" =>
          s # r /\ pc[s] = "storing" /\ arrived'[s] = arrived[s]
    BY <2>1
  <2> QED
    BY <2>1, <2>2, <2>3
<1>4. ASSUME NEW r \in Request,
             \/ MarkCollecting(r) \/ LoadForAnalysis(r) \/ LoadContext(r)
             \/ \E batch \in Batches : AskSources(r, batch)
             \/ CommitCollection(r) \/ CommitInsufficient(r)
             \/ CommitReport(r) \/ RollBack(r)
      PROVE  StampInv'
  <2>1. /\ UNCHANGED quality
        /\ \A s \in Request : pc'[s] = "storing" =>
             pc[s] = "storing" /\ arrived'[s] = arrived[s]
    BY <1>4 DEF MarkCollecting, LoadForAnalysis, LoadContext, AskSources,
      CommitCollection, CommitInsufficient, CommitReport, RollBack
  <2> QED
    BY <2>1
<1> QED
  BY <1>1, <1>2, <1>3, <1>4 DEF Next

(* A collection takes the newest report under the lock; the reports it     *)
(* looks at, and those already evidence, keep their time of receipt.       *)
LEMMA QualityStep ==
  TypeOK /\ LockInv /\ ReadInv /\ QualityInv /\ [Next]_vars => QualityInv'
<1> SUFFICES ASSUME TypeOK, LockInv, ReadInv, QualityInv, [Next]_vars
             PROVE  QualityInv'
  OBVIOUS
<1> USE DEF TypeOK, QualityInv, Proceed, Finish, db, quality, local
<1>1. CASE UNCHANGED vars
  BY <1>1 DEF vars
<1>2. ASSUME NEW r \in Request, NEW q \in Quality, CommitUpload(r, q)
      PROVE  QualityInv'
  <2>1. /\ received[q] = 0 /\ evidence' = evidence
        /\ received' = [received EXCEPT ![q] = arrived[r]]
    BY <1>2 DEF CommitUpload, ContentUnique
  <2>2. \A p \in Quality : received[p] > 0 => received'[p] = received[p]
    BY <2>1
  <2>3. \A s \in Request : pc'[s] = "inserting" =>
          pc[s] = "inserting" /\ offer'[s] = offer[s]
    BY <1>2 DEF CommitUpload
  <2> QED
    BY <2>1, <2>2, <2>3
<1>3. ASSUME NEW r \in Request, NEW batch \in Batches, AskSources(r, batch)
      PROVE  QualityInv'
  <2>1. /\ UNCHANGED <<evidence, received>>
        /\ offer' = [offer EXCEPT ![r] = batch \cup Newest]
        /\ pc' = [pc EXCEPT ![r] = "inserting"]
    BY <1>3 DEF AskSources, Candidates
  <2>2. \A new \in offer'[r] \cap Quality :
          new \in Stored /\ \A old \in Stored : received[old] <= received[new]
    BY <2>1 DEF Newest
  <2>3. evidence \cap Quality \subseteq Stored /\ \A q \in Stored : received[q] > 0
    BY DEF Stored
  <2> QED
    BY <2>1, <2>2, <2>3
<1>4. ASSUME NEW r \in Request, CommitCollection(r) PROVE QualityInv'
  <2>1. /\ pc[r] = "inserting" /\ UNCHANGED received
        /\ evidence' = evidence \cup NewEvidence(r)
    BY <1>4 DEF CommitCollection
  <2>2. \A s \in Request : pc'[s] # "inserting"
    BY <1>4, <2>1 DEF CommitCollection, LockInv
  <2> QED
    BY <2>1, <2>2 DEF NewEvidence
<1>5. ASSUME NEW r \in Request,
             \/ MarkCollecting(r) \/ LoadForAnalysis(r) \/ LoadContext(r)
             \/ \E q \in Quality : LoadForUpload(r, q)
             \/ CommitInsufficient(r) \/ CommitReport(r) \/ RollBack(r)
      PROVE  QualityInv'
  <2>1. /\ UNCHANGED <<evidence, received>>
        /\ \A s \in Request : pc'[s] = "inserting" =>
             pc[s] = "inserting" /\ offer'[s] = offer[s]
    BY <1>5 DEF MarkCollecting, LoadForAnalysis, LoadContext, LoadForUpload,
      CommitInsufficient, CommitReport, RollBack
  <2> QED
    BY <2>1
<1> QED
  BY <1>1, <1>2, <1>3, <1>4, <1>5 DEF Next

(* IInv holds in every reachable state.                                    *)
LEMMA Invariant == Spec => []IInv
<1>1. IInv /\ [Next]_vars => IInv'
  BY TypeStep, ReadStep, ReportStep, StampStep, QualityStep DEF IInv
<1> QED
  BY <1>1, InvInit, PTL DEF Spec

(* No collection ever fails on evidence another collection inserted.       *)
THEOREM CollectionsDoNotConflict == Spec => []NoConflictingInsert
<1>1. IInv => NoConflictingInsert
  BY DEF IInv, ReadInv, NoConflictingInsert, NewEvidence
<1> QED
  BY <1>1, Invariant, PTL

(* Every reachable state is well typed.                                    *)
THEOREM TypeCorrect == Spec => []TypeOK
<1>1. IInv => TypeOK
  BY DEF IInv
<1> QED
  BY <1>1, Invariant, PTL

(* Whatever the model answers and whenever evidence arrives, a report      *)
(* cites only stored evidence and never the incident's own summary.        *)
THEOREM GroundedReports == Spec => []ReportsAreGrounded
<1>1. IInv => ReportsAreGrounded
  BY DEF IInv
<1> QED
  BY <1>1, Invariant, PTL

(* However many analyses of an input race, one report of it is stored.     *)
THEOREM InputsReportedOnce == Spec => []OneReportPerInput
<1>1. IInv => OneReportPerInput
  BY DEF IInv
<1> QED
  BY <1>1, Invariant, PTL

(* An incident is only shown as ANALYZING when there is a log to analyse.  *)
THEOREM AnalyzingMeansLogs == Spec => []AnalyzingHasLogs
<1>1. IInv => AnalyzingHasLogs
  BY DEF IInv
<1> QED
  BY <1>1, Invariant, PTL

(* Whatever order uploads commit in and however many collections overlap,  *)
(* the data-quality evidence of an incident only becomes newer.            *)
THEOREM QualityMovesForward == Spec => QualityGoesForward
<1> DEFINE Forward ==
      \A new \in (evidence' \ evidence) \cap Quality :
        \A old \in evidence \cap Quality : received[old] < received[new]
<1>1. IInv /\ [Next]_vars => [Forward]_vars
  <2> SUFFICES ASSUME IInv, Next PROVE Forward
    BY DEF vars
  <2> USE DEF IInv, TypeOK
  <2>1. ASSUME NEW r \in Request, CommitCollection(r) PROVE Forward
    <3>1. /\ pc[r] = "inserting"
          /\ evidence' = evidence \cup NewEvidence(r)
      BY <2>1 DEF CommitCollection, Finish, Proceed
    <3>2. \A new \in offer[r] \cap Quality : \A old \in evidence \cap Quality :
            received[new] > 0 /\ received[old] > 0 /\ received[old] <= received[new]
      BY <3>1 DEF QualityInv
    <3>3. \A new \in (evidence' \ evidence) \cap Quality :
            new \in offer[r] /\ \A old \in evidence : new # old
      BY <3>1 DEF NewEvidence
    <3>4. \A p, q \in Quality : received[p] = received[q] /\ received[p] > 0 => p = q
      BY DEF StampInv
    <3> QED
      BY <3>2, <3>3, <3>4
  <2>2. CASE ~\E r \in Request : CommitCollection(r)
    <3>1. evidence' = evidence
      BY <2>2 DEF Next, LoadForUpload, CommitUpload, MarkCollecting, AskSources,
        LoadForAnalysis, LoadContext, CommitInsufficient, CommitReport, RollBack,
        db
    <3> QED
      BY <3>1
  <2> QED
    BY <2>1, <2>2
<1> QED
  BY <1>1, Invariant, PTL DEF Spec, QualityGoesForward
-----------------------------------------------------------------------------
(* The contract on the incident.                                           *)

(* Only an analysis holds a loaded status.                                 *)
LoadedInv == \A r \in Request : pc[r] \notin Analyses => seen[r] = "OPEN"

SharedInv == TypeOK /\ LoadedInv

(* The analyses under way, as the contract sees them.                      *)
Subject == [r \in Request |-> IF pc[r] \in Analyses THEN {input[r]} ELSE {}]

(* The end of a request ends its analysis, or is not seen.                 *)
LEMMA FinishEnds ==
  ASSUME SharedInv, NEW r \in Request, NEW step \in InFlight, Finish(r, step)
  PROVE  /\ Subject' = [Subject EXCEPT ![r] = {}]
         /\ seen' = [seen EXCEPT ![r] = "OPEN"]
         /\ step \in Analyses => Subject[r] = {input[r]}
         /\ step \notin Analyses => Subject' = Subject /\ seen' = seen
<1> USE DEF SharedInv, TypeOK
<1>1. /\ pc[r] = step /\ pc' = [pc EXCEPT ![r] = "done"]
      /\ input' = [input EXCEPT ![r] = {}] /\ seen' = [seen EXCEPT ![r] = "OPEN"]
  BY DEF Finish, Proceed
<1>2. \A q \in Request : Subject'[q] = IF q = r THEN {} ELSE Subject[q]
  BY <1>1 DEF Subject, Analyses
<1>3. Subject' = [Subject EXCEPT ![r] = {}]
  BY <1>2 DEF Subject
<1>4. Subject[r] = IF step \in Analyses THEN {input[r]} ELSE {}
  BY <1>1 DEF Subject
<1>5. step \notin Analyses => Subject' = Subject
  BY <1>3, <1>4 DEF Subject
<1>6. step \notin Analyses => seen' = seen
  BY <1>1 DEF LoadedInv
<1> QED
  BY <1>1, <1>3, <1>4, <1>5, <1>6

(* A step that starts, ends and loads no analysis is not seen.             *)
LEMMA SubjectKept ==
  ASSUME UNCHANGED input, \A q \in Request : pc'[q] \in Analyses <=> pc[q] \in Analyses
  PROVE  Subject' = Subject
  BY DEF Subject

(* What each step is for the contract.                                     *)
LEMMA SharedStep ==
  SharedInv /\ [Next]_vars => LoadedInv' /\ [Incident!Next]_(Incident!vars)
<1> SUFFICES ASSUME SharedInv, [Next]_vars
             PROVE  LoadedInv' /\ [Incident!Next]_(Incident!vars)
  OBVIOUS
<1> USE DEF SharedInv
<1>s. ASSUME UNCHANGED <<status, reports, seen, Subject>>
      PROVE  UNCHANGED Incident!vars
  BY <1>s DEF Incident!vars, Subject
<1>t. ASSUME NEW r \in Request, UNCHANGED <<seen, input>>, NEW to,
             pc' = [pc EXCEPT ![r] = to], to \in Analyses <=> pc[r] \in Analyses
      PROVE  LoadedInv' /\ Subject' = Subject
  <2>1. \A q \in Request : pc'[q] \in Analyses <=> pc[q] \in Analyses
    BY <1>t DEF TypeOK
  <2> QED
    BY <1>t, <2>1, SubjectKept DEF LoadedInv
<1>e. ASSUME NEW r \in Request, NEW step \in InFlight, Finish(r, step)
      PROVE  LoadedInv'
  <2>1. /\ pc' = [pc EXCEPT ![r] = "done"]
        /\ seen' = [seen EXCEPT ![r] = "OPEN"]
    BY <1>e DEF Finish, Proceed
  <2> QED
    BY <2>1 DEF LoadedInv, TypeOK
<1>1. CASE UNCHANGED vars
  BY <1>1, <1>s DEF vars, db, local, LoadedInv, Subject
<1>2. ASSUME NEW r \in Request,
             \/ \E q \in Quality : LoadForUpload(r, q)
             \/ MarkCollecting(r)
             \/ \E batch \in Batches : AskSources(r, batch)
             \/ LoadContext(r)
      PROVE  LoadedInv' /\ UNCHANGED Incident!vars
  <2>1. UNCHANGED <<status, reports, seen, input>>
    BY <1>2 DEF LoadForUpload, MarkCollecting, AskSources, LoadContext, db, local
  <2>2. \E to \in InFlight : /\ pc' = [pc EXCEPT ![r] = to]
                             /\ to \in Analyses <=> pc[r] \in Analyses
    BY <1>2 DEF LoadForUpload, MarkCollecting, AskSources, LoadContext, Proceed,
      InFlight, Analyses
  <2> QED
    BY <1>s, <1>t, <2>1, <2>2
<1>3. ASSUME NEW r \in Request, LoadForAnalysis(r)
      PROVE  LoadedInv' /\ Incident!StartAnalysis(r)
  <2>1. /\ pc[r] = "idle" /\ pc' = [pc EXCEPT ![r] = "loading"]
        /\ seen' = [seen EXCEPT ![r] = status] /\ input' = [input EXCEPT ![r] = evidence]
        /\ evidence \in SUBSET Candidate /\ UNCHANGED <<status, reports>>
    BY <1>3 DEF LoadForAnalysis, Proceed, db, TypeOK
  <2>2. LoadedInv'
    BY <2>1 DEF LoadedInv, Analyses, TypeOK
  <2>3. \A q \in Request : Subject'[q] = IF q = r THEN {evidence} ELSE Subject[q]
    BY <2>1 DEF Subject, Analyses, TypeOK
  <2>4. Subject' = [Subject EXCEPT ![r] = {evidence}] /\ Subject'[r] = {evidence}
    BY <2>3 DEF Subject
  <2>5. Subject[r] = {}
    BY <2>1 DEF Subject, Analyses
  <2> QED
    BY <2>1, <2>2, <2>4, <2>5 DEF Incident!StartAnalysis, Incident!Load, Subject
<1>4. ASSUME NEW r \in Request, NEW step \in Analyses, Finish(r, step)
      PROVE  LoadedInv' /\ Incident!End(r) /\ Subject[r] = {input[r]}
  <2>1. step \in InFlight
    BY DEF Analyses, InFlight
  <2> QED
    BY <1>4, <1>e, <2>1, FinishEnds DEF Incident!End, Subject
<1>5. ASSUME NEW r \in Request, NEW step \in InFlight \ Analyses, Finish(r, step)
      PROVE  LoadedInv' /\ UNCHANGED <<seen, Subject>>
  BY <1>5, <1>e, FinishEnds
<1>6. ASSUME NEW r \in Request, CommitInsufficient(r)
      PROVE  LoadedInv' /\ Incident!FindInsufficient(r)
  <2>1. /\ Finish(r, "insufficient") /\ "insufficient" \in Analyses
        /\ WriteStatus(r, "ACTION_REQUIRED") /\ UNCHANGED reports
    BY <1>6 DEF CommitInsufficient, Analyses
  <2>2. LoadedInv' /\ Incident!End(r) /\ Subject[r] = {input[r]}
    BY <1>4, <2>1
  <2> QED
    BY <2>1, <2>2
    DEF Incident!FindInsufficient, Incident!Write, WriteStatus, Subject
<1>7. ASSUME NEW r \in Request, CommitReport(r)
      PROVE  LoadedInv' /\ Incident!Publish(r)
  <2>1. /\ Finish(r, "generating") /\ "generating" \in Analyses
        /\ WriteStatus(r, "ACTION_REQUIRED") /\ ~Reported(input[r])
    BY <1>7 DEF CommitReport, Analyses, InputUnique
  <2>2. LoadedInv' /\ Incident!End(r) /\ Subject[r] = {input[r]}
    BY <1>4, <2>1
  <2>3. \E rep \in reports' : rep.input = input[r] /\ reports' = reports \cup {rep}
    BY <1>7 DEF CommitReport
  <2>4. \A rep \in reports : rep.input # input[r]
    BY <2>1 DEF Reported
  <2> QED
    BY <2>1, <2>2, <2>3, <2>4
    DEF Incident!Publish, Incident!Write, WriteStatus, Subject
<1>8. ASSUME NEW r \in Request, CommitCollection(r)
      PROVE  LoadedInv' /\ Incident!Collect
  <2>1. /\ Finish(r, "inserting") /\ "inserting" \in InFlight \ Analyses
        /\ status' \in {"ANALYZING", "ACTION_REQUIRED"} /\ UNCHANGED reports
    BY <1>8 DEF CommitCollection, StatusAfter, Analyses, InFlight
  <2>2. LoadedInv' /\ UNCHANGED <<seen, Subject>>
    BY <1>5, <2>1
  <2> QED
    BY <2>1, <2>2 DEF Incident!Collect, Subject
<1>9. ASSUME NEW r \in Request, NEW q \in Quality, CommitUpload(r, q)
      PROVE  LoadedInv' /\ UNCHANGED Incident!vars
  <2>1. /\ Finish(r, "storing") /\ "storing" \in InFlight \ Analyses
        /\ UNCHANGED <<status, reports>>
    BY <1>9 DEF CommitUpload, Analyses, InFlight, db
  <2> QED
    BY <1>5, <1>s, <2>1
<1>10. ASSUME NEW r \in Request, RollBack(r)
       PROVE  LoadedInv' /\ (Incident!GiveUp(r) \/ UNCHANGED Incident!vars)
  <2>1. PICK step \in InFlight : Finish(r, step)
    BY <1>10 DEF RollBack
  <2>2. UNCHANGED <<status, reports>>
    BY <1>10 DEF RollBack, db
  <2>3. CASE step \in Analyses
    BY <1>4, <2>1, <2>2, <2>3 DEF Incident!GiveUp
  <2>4. CASE step \notin Analyses
    BY <1>5, <1>s, <2>1, <2>2, <2>4
  <2> QED
    BY <2>3, <2>4
<1> QED
  BY <1>1, <1>2, <1>3, <1>6, <1>7, <1>8, <1>9, <1>10 DEF Next, Incident!Next

(* Towards the requests that share its incident, collection and analysis   *)
(* keep the contract: a collection is one step, and an analysis publishes  *)
(* one report of what it loaded (evidence.py collect, rca_agent.py         *)
(* analyze).                                                               *)
THEOREM RefinesIncident == Spec => ImplementsIncident
<1>1. Init => SharedInv /\ Incident!Init
  <2> SUFFICES ASSUME Init PROVE SharedInv /\ Incident!Init
    OBVIOUS
  <2>1. TypeOK
    BY InvInit DEF IInv
  <2> QED
    BY <2>1 DEF Init, SharedInv, LoadedInv, Incident!Init, Analyses
<1>2. SharedInv /\ [Next]_vars => SharedInv' /\ [Incident!Next]_(Incident!vars)
  BY TypeStep, SharedStep DEF SharedInv
<1> QED
  BY <1>1, <1>2, PTL DEF Spec, ImplementsIncident, Incident!Spec
=============================================================================

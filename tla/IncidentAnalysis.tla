-------------------------- MODULE IncidentAnalysis --------------------------
(***************************************************************************)
(* Evidence collection and root-cause analysis of one incident, and the    *)
(* data-quality reports that are uploaded for its run.                     *)
(*                                                                         *)
(* A collection marks the incident COLLECTING_EVIDENCE before its first    *)
(* query, so the flush of that UPDATE takes the incident's row lock and    *)
(* keeps it until the collection commits; COLLECTING_EVIDENCE itself is    *)
(* never committed.  An analysis takes no lock while it reads and while    *)
(* the model answers: it reads the evidence once for the input checksum    *)
(* and again for the prompt, and collections commit in between.            *)
(*                                                                         *)
(* A checksum stands for the set of evidence rows it is computed from.  A  *)
(* request answered at its first read (a report of the same input exists)  *)
(* changes nothing and is not a step; nor does an upload whose content is  *)
(* already stored.                                                         *)
(***************************************************************************)
EXTENDS Naturals

CONSTANTS
  Candidate,   \* contents that sources can offer as evidence
  Metadata,    \* those of type PIPELINE_METADATA
  Logs,        \* those of type LOG_EXCERPT
  Quality,     \* those of type DATA_QUALITY_REPORT: contents of reports
  Batches,     \* what the other sources offer to one collection
  Knowledge,   \* documents of the knowledge index
  Own,         \* those made from this incident
  Request,     \* requests, each of which is served once
  Nobody       \* the lock is free

ASSUME CandidateAssumption ==
  /\ Metadata \subseteq Candidate /\ Logs \subseteq Candidate \ Metadata
  /\ Quality \subseteq Candidate \ (Metadata \cup Logs)
  /\ Batches \subseteq SUBSET (Candidate \ Quality)
ASSUME NobodyAssumption == Nobody \notin Request

VARIABLES
  status,      \* incident.status
  evidence,    \* the incident's evidence rows
  reports,     \* the incident's RCA reports
  received,    \* received_at of the run's data-quality reports, 0 for none
  clock,       \* the last received_at that was drawn
  lock,        \* the request that holds the incident's row lock
  pc,          \* what each request does next
  seen,        \* incident.status as the request loaded it
  input,       \* the evidence in an analysis' input checksum
  context,     \* the evidence a collection knows, or an analysis works on
  offer,       \* what the sources offered, or the report that is uploaded
  arrived      \* the received_at of that report

db == <<status, evidence, reports>>
quality == <<received, clock>>
local == <<seen, input, context, offer, arrived>>
vars == <<db, quality, lock, pc, local>>

Status == {"OPEN", "ANALYZING", "ACTION_REQUIRED"}
InFlight == {"storing", "collecting", "inserting",
             "loading", "insufficient", "generating"}
Report == [input : SUBSET Candidate, context : SUBSET Candidate,
           cites : SUBSET Candidate, knowledge : SUBSET Knowledge]

Init ==
  /\ status = "OPEN" /\ evidence = {} /\ reports = {}
  /\ received = [q \in Quality |-> 0] /\ clock = 0
  /\ lock = Nobody
  /\ pc = [r \in Request |-> "idle"]
  /\ seen = [r \in Request |-> "OPEN"]
  /\ input = [r \in Request |-> {}]
  /\ context = [r \in Request |-> {}]
  /\ offer = [r \in Request |-> {}]
  /\ arrived = [r \in Request |-> 0]
-----------------------------------------------------------------------------
Proceed(r, from, to) == pc[r] = from /\ pc' = [pc EXCEPT ![r] = to]

(* The response is sent and the session, with all it loaded, is closed.    *)
Finish(r, from) ==
  /\ Proceed(r, from, "done")
  /\ seen' = [seen EXCEPT ![r] = "OPEN"]
  /\ input' = [input EXCEPT ![r] = {}]
  /\ context' = [context EXCEPT ![r] = {}]
  /\ offer' = [offer EXCEPT ![r] = {}]
  /\ arrived' = [arrived EXCEPT ![r] = 0]

LockIgnored == lock \in Request \cup {Nobody}
LockFree == lock = Nobody

(* The status column is written only when it differs from what r loaded.   *)
WriteStatus(r, to) == status' = IF seen[r] = to THEN status ELSE to
-----------------------------------------------------------------------------
(* POST /reports/data-quality.                                             *)

(* No report of this content is found, and the time is taken.              *)
LoadForUpload(r, q) ==
  /\ received[q] = 0
  /\ Proceed(r, "idle", "storing")
  /\ offer' = [offer EXCEPT ![r] = {q}]
  /\ clock' = clock + 1
  /\ arrived' = [arrived EXCEPT ![r] = clock + 1]
  /\ UNCHANGED <<db, received, lock, seen, input, context>>

(* uq_pipeline_report_content.                                             *)
ContentUnique(q) == received[q] = 0

CommitUpload(r, q) ==
  /\ offer[r] = {q}
  /\ ContentUnique(q)
  /\ Finish(r, "storing")
  /\ received' = [received EXCEPT ![q] = arrived[r]]
  /\ UNCHANGED <<db, clock, lock>>

(* What a collection takes: the report received last.                      *)
Stored == {q \in Quality : received[q] > 0}
Oldest == {q \in Stored : \A p \in Stored : received[q] <= received[p]}
Newest == {q \in Stored : \A p \in Stored : received[p] <= received[q]}

(* The candidates of a collection: with the newest report, the run's       *)
(* metadata, its logs and the diff, as far as their sources answer.        *)
Candidates(batch) == batch \cup Newest
-----------------------------------------------------------------------------
(* POST /collect-evidence.                                                 *)

MarkCollectingCommitted(r) ==
  /\ LockFree
  /\ Proceed(r, "idle", "collecting")
  /\ lock' = r
  /\ status' = "COLLECTING_EVIDENCE"
  /\ UNCHANGED <<evidence, reports, quality, local>>
MarkCollecting(r) ==
  /\ LockFree
  /\ Proceed(r, "idle", "collecting")
  /\ lock' = r
  /\ UNCHANGED <<db, quality, local>>

(* The sources are asked, then each candidate is looked up.                *)
AskSources(r, batch) ==
  /\ Proceed(r, "collecting", "inserting")
  /\ offer' = [offer EXCEPT ![r] = Candidates(batch)]
  /\ context' = [context EXCEPT ![r] = evidence]
  /\ UNCHANGED <<db, quality, lock, seen, input, arrived>>

NewEvidence(r) == offer[r] \ context[r]

StatusAfterAny(batch) ==
  IF batch # {} THEN "ANALYZING" ELSE "ACTION_REQUIRED"
StatusAfter(batch) ==
  IF batch \cap Logs # {} THEN "ANALYZING" ELSE "ACTION_REQUIRED"

CommitCollection(r) ==
  /\ Finish(r, "inserting")
  /\ NewEvidence(r) \cap evidence = {}
  /\ evidence' = evidence \cup NewEvidence(r)
  /\ status' = StatusAfter(offer[r])
  /\ lock' = Nobody
  /\ UNCHANGED <<reports, quality>>
-----------------------------------------------------------------------------
(* POST /analyze.                                                          *)

Reported(known) == \E rep \in reports : rep.input = known

LoadForAnalysis(r) ==
  /\ ~Reported(evidence)
  /\ Proceed(r, "idle", "loading")
  /\ seen' = [seen EXCEPT ![r] = status]
  /\ input' = [input EXCEPT ![r] = evidence]
  /\ UNCHANGED <<db, quality, lock, context, offer, arrived>>

(* Metadata of the run and one diagnostic item of any other type.          *)
Sufficient(known) == known \cap Metadata # {} /\ known \ Metadata # {}

LoadContext(r) ==
  /\ Proceed(r, "loading",
             IF Sufficient(evidence) THEN "generating" ELSE "insufficient")
  /\ context' = [context EXCEPT ![r] = evidence]
  /\ UNCHANGED <<db, quality, lock, seen, input, offer, arrived>>

CommitInsufficient(r) ==
  /\ Finish(r, "insufficient")
  /\ seen[r] # "ACTION_REQUIRED" => LockFree
  /\ WriteStatus(r, "ACTION_REQUIRED")
  /\ UNCHANGED <<evidence, reports, quality, lock>>

(* Retrieved knowledge, without what was made from this incident.          *)
EveryDocument(found) == found
Retrieved(found) == found \ Own

(* At least one claim; every claim cites evidence it loaded, and every     *)
(* document named was retrieved.                                           *)
ValidIfNonEmpty(r, found, cites, docs) ==
  cites # {} /\ docs \subseteq Retrieved(found)
Valid(r, found, cites, docs) ==
  cites # {} /\ cites \subseteq context[r] /\ docs \subseteq Retrieved(found)

(* uq_rca_report_reproducible_input.                                       *)
InputIgnored(known) == known \subseteq Candidate
InputUnique(known) == ~Reported(known)

(* The index returns some documents, the model answers, and an answer that *)
(* is valid is stored.                                                     *)
CommitReport(r) ==
  /\ Finish(r, "generating")
  /\ InputUnique(input[r])
  /\ LockFree
  /\ \E found, docs \in SUBSET Knowledge, cites \in SUBSET Candidate :
       /\ Valid(r, found, cites, docs)
       /\ reports' = reports \cup
            {[input |-> input[r], context |-> context[r],
              cites |-> cites, knowledge |-> docs]}
  /\ WriteStatus(r, "ACTION_REQUIRED")
  /\ UNCHANGED <<evidence, quality, lock>>
-----------------------------------------------------------------------------
(* A service that is unavailable, a model that answers badly, a violated   *)
(* constraint or a worker that dies: the transaction is rolled back and    *)
(* its lock released.  An analysis that times out so leaves its incident   *)
(* in the status it had.                                                   *)
RollBack(r) ==
  /\ \E step \in InFlight : Finish(r, step)
  /\ lock' = IF lock = r THEN Nobody ELSE lock
  /\ UNCHANGED <<db, quality>>

Next ==
  \E r \in Request :
    \/ \E q \in Quality : LoadForUpload(r, q) \/ CommitUpload(r, q)
    \/ MarkCollecting(r)
    \/ \E batch \in Batches : AskSources(r, batch)
    \/ CommitCollection(r)
    \/ LoadForAnalysis(r) \/ LoadContext(r) \/ CommitInsufficient(r)
    \/ CommitReport(r)
    \/ RollBack(r)

Spec == Init /\ [][Next]_vars
-----------------------------------------------------------------------------
(* Properties.                                                             *)

(* Type invariant.                                                         *)
TypeOK ==
  /\ status \in Status
  /\ evidence \subseteq Candidate
  /\ reports \subseteq Report
  /\ received \in [Quality -> Nat] /\ clock \in Nat
  /\ lock \in Request \cup {Nobody}
  /\ pc \in [Request -> InFlight \cup {"idle", "done"}]
  /\ seen \in [Request -> Status]
  /\ input \in [Request -> SUBSET Candidate]
  /\ context \in [Request -> SUBSET Candidate]
  /\ offer \in [Request -> SUBSET Candidate]
  /\ arrived \in [Request -> Nat]

(* Concurrent collections never insert the same evidence twice: what one   *)
(* looked up is still current when it inserts, so uq_evidence_source_      *)
(* content is never violated and no collection fails on it.                *)
NoConflictingInsert ==
  \A r \in Request :
    pc[r] = "inserting" => NewEvidence(r) \cap evidence = {}

(* Every report rests on evidence of its incident: it cites something, all *)
(* it cites was loaded for the analysis, and that had metadata, at least   *)
(* one diagnostic item and all evidence of the input checksum, all of it   *)
(* still stored.  The incident's own summary never supports its analysis.  *)
ReportsAreGrounded ==
  \A rep \in reports :
    /\ rep.cites # {} /\ rep.cites \subseteq rep.context
    /\ rep.input \subseteq rep.context /\ rep.context \subseteq evidence
    /\ rep.context \cap Metadata # {} /\ rep.context \ Metadata # {}
    /\ rep.knowledge \cap Own = {}

(* The same input never gets two reports, however analyses race.           *)
OneReportPerInput ==
  \A rep1, rep2 \in reports : rep1.input = rep2.input => rep1 = rep2

(* "The incident moves to ANALYZING only when there is log evidence".      *)
AnalyzingHasLogs == status = "ANALYZING" => evidence \cap Logs # {}

(* Data-quality evidence goes forward: whatever order uploads commit in,   *)
(* and however collections overlap, a collection never adds a report that  *)
(* was received before one that is already evidence.                       *)
QualityGoesForward ==
  [][\A new \in (evidence' \ evidence) \cap Quality :
       \A old \in evidence \cap Quality : received[old] < received[new]]_vars

(* Towards the other requests on its incident, which know nothing of       *)
(* evidence, sources and locks, collection and analysis keep the contract: *)
(* one step each that shows, on the status that was loaded.                *)
Analyses == {"loading", "insufficient", "generating"}
Incident == INSTANCE IncidentContract WITH
  Input <- SUBSET Candidate,
  subject <- [r \in Request |-> IF pc[r] \in Analyses THEN {input[r]} ELSE {}],
  verifying <- {},
  loaded <- seen
ImplementsIncident == Incident!Spec
=============================================================================

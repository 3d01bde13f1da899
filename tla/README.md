# Formal verification of the DataOps control plane

The DataOps control plane receives events and logs of CI/data pipelines, opens an
incident for a failed run, collects evidence, asks a model for a root-cause
analysis (RCA), derives a recovery plan that an operator approves, dispatches it to
GitHub Actions and closes the incident on the workflow's callback. This directory
holds TLA+ modules of that behaviour, the TLC configurations that check them on
small instances, and theorems about them that TLAPS checks for every value of the
constants. `PROJECT.json` maps every definition to the source lines it models.

## 1. The system

### 1.1 Processes and shared state

The service is a FastAPI application with synchronous handlers: each request runs in
a thread of its own with a SQLAlchemy session of its own
(`api/dependencies.py:get_session`). The only state requests share is the
PostgreSQL database, reached at its default isolation level READ COMMITTED
(`main.py:56`); Elasticsearch (logs, knowledge), GitHub and the model providers are
external services. There are no background jobs: whatever must go on, goes on
because somebody sends a request.

Five facts about sessions and stores shape the models here.

- *Read, then commit.* A handler reads rows, evaluates its guards on what it read,
  and commits all its writes at once. Other requests commit in between, so every
  guard may be stale when the write happens. Only a unique constraint, a primary key
  or a row lock holds at the commit itself.
- *An UPDATE writes changed columns only.* SQLAlchemy compares with the value the
  session loaded. `incident.status = "ACTION_REQUIRED"` in a session that loaded
  `ACTION_REQUIRED` writes nothing, even if another request has changed the column
  since. Models remember what a session loaded where that matters.
- *Unmapped errors roll back.* A violated constraint that the handler does not catch
  is a 500 and leaves the database as it was.
- *A flush takes the row lock.* An UPDATE that is flushed early (before a later query
  of the same session) locks its row until the commit.
- *A call that timed out is not cancelled.* Both Elasticsearch clients repeat a call that
  timed out, twice at most (`elasticsearch_logs.py:81`, `elasticsearch_knowledge.py:75`);
  the server may still carry out the abandoned call, after the repetition or after the
  client gave up.

### 1.2 Components

| component | state | operations | what makes it correct |
|---|---|---|---|
| recovery (`recovery_policy`, `recovery_execution`, `recovery_audit`, `routes/recovery`) | plans, attempts, audit events, incident status | create plan, approve, reject, execute, verify | dispatched at most once, only when policy, executor and operator allow it and after the intent is durable; attempt, verdict and audit agree |
| GitHub executor (`github_recovery`) | none | one `workflow_dispatch` | answers with accepted or failed within a timeout; a failure may hide a started workflow |
| pipeline events (`pipeline_events`) | runs, processed events, incidents | deliver an event | each event has one effect; no failure without an incident; ended runs stay ended |
| evidence (`evidence`, `github_evidence`) | evidence rows, incident status | collect | nothing is stored twice, concurrent collections do not fail each other, ANALYZING means logs |
| RCA agent (`rca_agent`, model clients) | RCA reports, incident status | analyse | reports cite only stored evidence of the incident; one report per input |
| workspace members, bootstrap (`web_members`, `web_identity`) | members, users, platform state | bootstrap, add, change role, remove | one founding, one row per user, an owner remains |
| projects and tokens (`web_projects`) | projects, integration tokens | register, delete, issue, revoke | no token outlives its project, a deletion is all or nothing, a credential that ended is never usable again |
| sessions and authentication (`web_identity`, `dependencies`) | web sessions, `last_used_at` | log in, log out, sweep, authorise an agent | the same: what a request had read of a credential does not bring it back |
| log storage (`elasticsearch_logs`, `pipeline_logs`) | data stream, "resources ready" flag and its lock | set up, append, search | set up before use; a receipt accounts for its whole batch; a repeated batch adds nothing |
| knowledge and retrieval (`retrieval`, `elasticsearch_knowledge`) | knowledge documents, flag and lock | set up, index, search | an acknowledged document is searchable; answers are of the filter, without repetition, in the order both rankings support |
| data-quality reports (`data_quality_reports`) | reports of a run | upload | content is stored once; evidence never goes back to an older report |
| redaction, prompts, clients, UI, settings | none | | |

Interactions: an event opens the incident that collection and analysis work on; a
report of the analysis is what a recovery plan is derived from; recovery,
collection and analysis all write the incident's status and know nothing of one
another; the recovery workflow outside the repository calls back. Agents deliver events,
logs and data-quality reports with an integration token; a collection reads the run, its
newest data-quality report and its logs; an analysis searches the knowledge index, into
which the summary of the same incident may have been written.

### 1.3 What is hard

Racing requests on one row; duplicated, reordered and contradicting deliveries from
CI systems and workflows; a worker that dies between the commit of a dispatch intent
and its outcome; a provider whose answer is lost; guards evaluated on stale reads; status
columns written by three services; a bulk call that fails half-way, times out or is carried
out late; resources that threads and processes race to set up; a row that is deleted between
a request's read and its write. The `hazards` of `PROJECT.json` list each
of them at its line with the properties that cover it.

## 2. The modules

| module | contents |
|---|---|
| `Recovery` | recovery of one incident: policy, approval, dispatch, callbacks, audit, and the analyses and collections that write the same incident |
| `RecoveryContract` | the abstract promise: approve, journal, send at most once, judge only what was sent |
| `IncidentContract` | how analyses, collections and verifications share the incident's row; implemented by `Recovery` and by `IncidentAnalysis` |
| `RecoveryProof` | invariants, action properties and both refinements, proved |
| `EventLedger` | the abstract promise of ingestion: events accepted one at a time, runs and incidents explained by them |
| `PipelineEvents`, `PipelineEventsProof` | ingestion of events, which implements `EventLedger`, and its proofs |
| `IncidentAnalysis`, `IncidentAnalysisProof` | collection and analysis of one incident in detail, and proofs |
| `WorkspaceMembers`, `WorkspaceMembersProof` | bootstrap and membership, and proofs |
| `CredentialLifecycle` | the abstract promise about tokens and sessions: issued once, withdrawn for good |
| `ProjectAccess`, `ProjectAccessProof` | projects, integration tokens, web sessions and agents' requests; implements `CredentialLifecycle`; proofs |
| `ResourceSetup`, `ResourceSetupProof` | the guarded set-up that both Elasticsearch stores share, and its invariant |
| `PipelineLogs`, `PipelineLogsProof` | the log store on top of it, and proofs |
| `HybridRetrieval` | the arithmetic of retrieval: candidate limit, rank fusion, embedding input |
| `KnowledgeIndex`, `KnowledgeIndexProof` | the knowledge index, with `ResourceSetup` and `HybridRetrieval`, and proofs |
| `MC...` | small instances of the above for TLC |

### 2.1 How a request becomes actions

A request is an element of a constant set with a program counter. `Load...` is its
reads and the guards it evaluates on them; `Commit...` is the transaction that
follows, with the constraints of the tables as guards. Loading several rows is one
step where no later step depends on the order of the reads. A request that is
answered at its first read (404, 409, a duplicate) changes nothing and is not a
step, so it needs no request of its own. `Finish` ends a request and forgets what
its session had loaded. The session of a request that a constraint refuses, or whose
worker dies, is rolled back (`Refuse`, `Abort`, `RollBack`). Freshly drawn UUIDs are
never reused. Definitions named `...Ignored`, `Any...` and the like, written directly
above the definition they vary, are deliberate mistakes used to test that each
property can fail; no specification uses them.

*Recovery.* A plan is unique per report and policy version, and an attempt per plan.
The policy version is a constant of the code, so the set `Report` indexes reports,
plans and attempts alike. `Rca` gives what each report says, as far as the policy
asks: validated, confident (at least 0.80), missing information, action, immutable
rollback parameters. `execute` is three transactions' worth of steps: load and check,
commit the PENDING attempt, call the provider, commit the outcome; the provider may
accept, refuse, or accept and lose its answer. `seen` is the incident status the
session loaded. Collection is one step here, because the flush of its first UPDATE
locks the row until it commits. Analysis is reduced to its read of the incident and
its commits; `IncidentAnalysis` has the detail. The newest report is the one
committed last: the code orders by `created_at`, which is drawn shortly before the commit
(`rca_agent.py:176`), so of two analyses that commit in the other order it may take the
other report; no property depends on which of the two is planned.

*PipelineEvents.* What an event reports is a function of its id: a sender that reuses
an id for another event is outside the model. `last_event_at`, `failed_stage` and
the other columns guard nothing and are left out. The look-up of an incident happens
after the run's row is flushed and therefore locked, which is why it belongs to the
commit.

*IncidentAnalysis.* A checksum stands for the set of evidence rows it is made of. The
status COLLECTING_EVIDENCE is flushed but never committed, so no other request ever
sees it; what it does is take the lock. The sources offer one of `Batches`, which
covers a source that is unavailable or has nothing, and with it the newest data-quality
report of the run. The time a report was received is drawn when its upload finds no report
of the same content, not when it commits; `clock` numbers those times, which assumes that no
two uploads draw the same microsecond and that worker clocks agree. The model's answer cites
any set of evidence at all, and names any set of documents; the incident's own
document is dropped from what the search returned. Callbacks are not part of this module,
so RESOLVED does not occur.

*WorkspaceMembers.* One workspace. Adding a member by an unknown e-mail address
inserts the user in the same transaction, and its unique address has the effect of the
unique membership, so both are one guard. The check for another owner is redundant
when requests do not overlap (the actor is an owner and is not the subject) and not
sufficient when they do.

*ProjectAccess.* Web requests are those whose session and role passed the checks at their
start. A request that deletes a project reads its tokens and deletes those it read: a token
issued in between is caught by the foreign key when the project goes, and a project that is
gone by the foreign key when the token comes. Ids are drawn at random and not reused; names
and references are (`NameOf`, `RefOf`). An agent's request looks its token up, commits
`last_used_at`, and reads the rows again for its principal, three steps a revocation or a
deletion can fall between. `acknowledged` is what callers have been told; nothing in the
code reads it.

*ResourceSetup, PipelineLogs.* One store object per worker process, with a flag and a lock;
the resources belong to all processes. A batch has at most 500 entries
(`api/schemas.py:436`), which is the chunk size of the bulk helper, so an append is one HTTP
call. (The helper also splits at its default of 100 MB, `elasticsearch_logs.py:167`: a batch
larger than that is several calls, of which one alone may be repeated; that is not modelled.) An entry stands for everything its `event_hash` is made of, and a `create` is
compared with the ids of the newest backing index only, since a data stream has no others
to compare with. `stray` holds what an abandoned call has not reached yet: it may be written
at any later time, or never.

*HybridRetrieval, KnowledgeIndex.* A write is a number, its position among the writes to its
document; `index` is the last one and `searchable` the one that searches see, which a
refresh moves up. Either branch of a search returns any ranking of any visible documents of
the filter, up to the candidate limit: what BM25 or the vector search prefer is not the
subject. The two branches run one after the other, and writes and refreshes come between.
Scores are exact fractions where the code adds floating-point quotients. A document keeps
its id and does not move between filters.

## 3. What is checked

All runs use `CHECK_DEADLOCK FALSE`: requests are served once and run out. That each
request is served once is the bound on the model; every one of them may be a repeat
of an earlier one. `ArrivalOrder` lets requests arrive in the order of their numbers;
they differ in nothing else, so this only removes symmetric states.

| run | instance | checks |
|---|---|---|
| `RecoveryOnePlan` | 1 report, 7 requests, all may die; 143 664 states | type invariant, `AtMostOneDispatch`, `AttemptConsistent`, `AuditReconstructs`, `PlanDerivedOnce`, `AttemptMovesForward`, `ResolvedOnlyByPassedCallback`, `ImplementsContract` |
| `RecoveryPolicy` | 7 reports, one per outcome of policy and capabilities, at most 2 of them in a behaviour, 5 requests, all may die; 243 765 states | `DispatchIsAuthorised` |
| `RecoveryTwoPlans` | 2 approved plans, 4 further requests, nobody dies, fair; 59 245 states | `PendingSettles` |
| `PipelineEvents` | 2 runs, 7 events, 4 deliveries; 41 092 states | type invariant, `AppliedOnce`, `RowsFollowEvents`, `IncidentJustified`, `EndedRunStaysEnded`, `ImplementsLedger` |
| `WorkspaceMembers` | 2 users, 3 rows, 5 requests; 92 939 states | type invariant, `OneMembershipPerUser`, `FoundedOnce`, `RemovedStaysRemoved` |
| `IncidentAnalysis` | 4 candidates, 2 documents, 5 requests; 496 136 states | type invariant, `NoConflictingInsert`, `ReportsAreGrounded`, `AnalyzingHasLogs`, `QualityGoesForward`, `ImplementsIncident` |
| `ProjectAccess` | 2 projects of one reference, 3 tokens (two of one name), 1 session, 5 requests; 48 379 states | type invariant, `TokensHaveProject`, `TokensGoWithProject`, `ImplementsLifecycle` |
| `PipelineLogs` | 2 processes, 3 requests, 2 entries, 2 repetitions, 1 rollover; 1 351 610 states | type invariant, `SetUpBeforeUse`, `ReceiptIsComplete`, `EntryStoredOnce`, `AcceptedAreStored` |
| `KnowledgeIndex` | 1 process, 2 requests, 3 documents, 1 repetition, fair; 153 873 states | type invariant, `ToldIsVisible`, `ItemsOfTheFilter`, `ClearerFirst`, `EveryRequestAnswered` |

Why the bounds suffice. Analyse, plan, approve, execute and verify take five requests;
seven leave two to race with any of them, which is what every conflict in this code
takes (two executions, an approval and a rejection, two callbacks). Two plans meet
only in the incident and the audit table; `RecoveryTwoPlans` starts from a state that
six requests reach (`InitTwoApproved`) so that both can be executed and verified while
the requests race; dying workers are covered by `RecoveryOnePlan`. The five
requests of the policy run leave one to analyse again before the plan of the first report is
executed, or to execute again after the first worker died; `AtMostTwoReports` is enough, as a
third report meets a plan no differently from the second. Four
deliveries cover create against create, create against update, a duplicate racing its
original, and one more to come late. Two users and a second row for one of them allow
removal and re-addition. Five requests of `IncidentAnalysis` are, say, two uploads, two
collections and an analysis: two reports that commit in the opposite order to their times,
with collections between and after. Five requests of `ProjectAccess` issue, use, revoke and delete with one to spare, and
let a reference or a name be used again. In `PipelineLogs`, two requests of one process
append the same or overlapping batches (one of them holds an entry twice) while a third, in
another process, races for the set-up; `MaxRetries` is the code's 2, and one rollover is
what it takes to store an entry twice. In `KnowledgeIndex` one request indexes while the other indexes or
searches; `MaxRetries` is 1 where the code has 2, as one repetition already leaves a call
behind that may be carried out late; top 2 of 3 documents makes the cut at `TopK` bite. Ranks go up to 3 there; what changes at
rank 62 is left to the theorems `AgreementScoresHigher` and `AgreementIsTight`.

*Fairness.* `Fairness` of `Recovery` is weak fairness of `Serve(r)`, the steps of a request
that has arrived; only `SpecTwoApproved` assumes it. The thread keeps running and the
provider call has a timeout (`github_recovery.py:42`). Arrivals are not fair, as nobody is
obliged to send a request, and no worker dies in its run: an attempt whose worker died
stays PENDING, since nothing in the code resumes it. `KnowledgeIndex` assumes less: some
request that can take a step eventually does. Its calls have a timeout as well and its
repetitions an end, so the waiting threads of a store get their turn at the lock; refreshes
are not fair, a call that waits for one may time out instead.

### 3.1 Disagreements between code and documentation

Each of these runs checks one statement of the docs, a test or a message of the code,
and TLC finds a behaviour of the code that breaks it. `findings` quotes the statement.

| run | what happens |
|---|---|
| `Recovery_DecisionIsFinal` | approval and rejection both read PENDING; the slower one overwrites the decision |
| `Recovery_FailedCallbackRequiresAction` | a FAILED callback whose session loaded ACTION_REQUIRED does not write the column |
| `WorkspaceMembers_AtLeastOneOwner` | two owners demote or remove each other |

Section 4 proves for each of the three that the race shown is all that stands between the
code and the statement.

More behaviours follow from the models, or from reading the code for them, and have no run
of their own:

- Contradicting callbacks that overlap both succeed, and the later verdict stays
  (`recovery_execution.py:182`), where `docs/11-policy-and-recovery.md:45` promises 409.
- Two final events of a run that both read RUNNING are both applied, and the later one
  replaces the status (`pipeline_events.py:95`, against the transitions of line 18).
- Evidence stored after the checksum was computed may be cited (`rca_agent.py:128` reads
  for the checksum, line 197 for the prompt), so a report can rest on more than its
  `input_checksum` covers (`docs/10-agentic-rca.md:60`).
- A collection or an analysis writes the incident's status without looking at it, so it
  takes a RESOLVED incident back to ANALYZING or ACTION_REQUIRED (`evidence.py:75`,
  `rca_agent.py:178`), a transition the state diagram of `docs/03-runtime-flows.md:114`
  does not have.
- An analysis whose model, embedding or knowledge service times out is answered with 503 and
  writes no status (`routes/incidents.py:253`; `RollBack`), so an incident that a collection
  left ANALYZING stays so, where `docs/08-deployment-and-operations.md:293` says that an RCA
  timeout moves it to ACTION_REQUIRED. An answer that fails validation (422) leaves ANALYZING
  too, which `docs/13-deployment-evaluation-2026-09-15.md:162` records as open.
- An analysis that is retried while it is running calls the model a second time for the
  same input and then fails on the unique constraint (`rca_agent.py:129`), where
  `docs/10-agentic-rca.md:66` promises no second call; the promise does hold for a retry
  that follows the report's commit.
- The loser of two uploads of the same data-quality report is answered with an unmapped 500
  (`data_quality_reports.py:60`), and a report that is uploaded again does not become the
  newest one (line 47).
- The log store's deduplication ends at a rollover of the data stream: an entry sent again
  afterwards is stored again. `EntryStoredOnce` says once per backing index.
- A request that an agent's token had passed before the token was revoked still completes
  (`dependencies.py:127`), where `docs/12-web-platform-and-onboarding.md:265` says that a
  revocation takes effect at once; it does for every later request (`ImplementsLifecycle`).
- Of two summaries of an incident that are indexed at once, the one written last stays, be
  it the one made from the older evidence (`retrieval.py:252`).

## 4. What is proved

The proofs hold for any sets of reports, requests, events, runs, users and
candidates, finite or not, from the named assumptions of each module: the constants
have their types and the value for "no row" (or "no holder") is not an element of the
set it stands beside. In particular the number of racing requests is not bounded.

*Recovery.* `AtMostOnce` needs more than the counters: the inductive invariant says
that a request that is dispatching owns its attempt, which is PENDING and for which
no other request is dispatching, and that a plan without an attempt has no dispatch.
`OnlyAuthorised` adds that an APPROVED plan has its audit event and a policy decision
that agrees with the report, and that a loaded plan's authorisation, though it may be
overwritten later, was recorded. `AttemptsConsistent` and `AuditComplete` relate the
columns of an attempt to the phase of the request that owns it. The action properties
follow from the same invariants, one step per action, as does `RefinesContract`:
`CommitApproval` is Approve, `InsertAttempt` is Journal, `ProviderAccepts` is Send,
`CommitVerification` is Judge, and every other step stutters.

*Where the documented statements do hold.* The three statements that
the runs of section 3.1 check are no invariants of the code, and these theorems say what is
missing. `DecisionFinalUnopposed`: in
every behaviour in which no approval and rejection of one plan are under way at once, a
decision is final; what `_require_pending` checked has then at most been decided the same
way. `FailureRequiresActionWhenHeld`: if nobody writes another status while a callback is
between its read and its commit, which a lock on the incident's row would ensure, a FAILED
callback leaves ACTION_REQUIRED. `OwnerKeptByTurns`: if no two requests that take an owner
away are under way at once, the workspace keeps one, although additions, promotions, other
changes and bootstraps still race; the invariant is that the guard of
`_require_another_owner` still holds for whoever is about to rely on it.

*The incident's row.* `Recovery` models collections and analyses only by what they do to the
rows it has, `IncidentAnalysis` models them in full and knows no callbacks. That the two
fit together is `RefinesIncident`, proved in both proof modules: `IncidentContract` says
that an analysis or a verification loads the status and later writes on what it loaded,
that a collection writes outright, that no input has two reports, and that only a
verification resolves. Both modules implement it, so the reduced analysis of `Recovery` does
nothing to the row that the contract does not also allow the detailed one, and the other way
round. Both proofs need the invariant that a request which holds no status has forgotten
what it loaded. The run `IncidentAnalysis` checks its half; the other one is only proved.

*PipelineEvents.* `EffectOnce`: an event that was applied is processed, and the
primary key refuses it from then on. `FailuresAreKept`, `IncidentsAreJustified` and
`IncidentKept`: the incident is opened in the transaction that records the event.
`NeverReopened` rests on the invariant that a delivery that loaded a final status carries
that same status, so that it writes no status at all. `RowsAreExplained` (a run exists, has
ended and has an incident exactly if its accepted events say so) and `RefinesLedger` (each
commit is the acceptance of one event, everything else a stutter) need one more: what a
delivery read of its run is past. The row it found is still there, and a run that had ended
when it was read still has, so a status that is not written was not lost either.

*WorkspaceMembers.* `OneMembership` and `RemovalIsFinal`, from the invariant that rows
only ever hold ids that were used, and that a request that changes or removes a row
works on a used id. `FoundingIsUnique`: a bootstrap commits its owner and the platform state
together, which the primary key lets happen once, and every later row is an addition's.

*IncidentAnalysis.* `CollectionsDoNotConflict`: a request between its look-up and its
commit holds the lock, so the evidence it looked up is the evidence there is.
`GroundedReports`: evidence only grows, and what an analysis read is a subset of it.
`InputsReportedOnce` is the unique constraint at the only step that adds a report; it is
also part of `IncidentContract`.
`AnalyzingMeansLogs` follows from the offer that set the status. `QualityMovesForward`
needs two invariants: the times that are stored or about to be are all different and not
ahead of the clock, and no evidence was received after the report that a collection is
offered. The second one holds only because of the lock: the offer is made and committed
under it.

*ProjectAccess.* `NoOrphans` from both sides of the foreign key, `DeletionIsAtomic` from the
invariant that the tokens a deletion has read belong to the project it deletes.
`RefinesLifecycle` maps every step to an issue, a withdrawal or a stutter, under the
invariants that what a request works on was issued, and that what was acknowledged has
ended.

*ResourceSetup, PipelineLogs.* `SetUpFirst`: the thread that creates holds the lock of its
store, and the calls it has behind it are made; nothing is unmade. `StoredOnce`: an entry
outside the newest backing index has one copy fewer than there are indices.
`ReceiptsAreComplete`: what a call has processed and what it still has to are the batch,
the counts add up to what it has processed unless an item was rejected, and what was
processed is stored. `ClaimsAreStored` counts: the claims of all receipts together are
matched with copies, one new copy for each entry a call counts as accepted, so the
cardinality of the claims stays below that of the copies, also when an abandoned call adds
copies nobody claims.

*Retrieval, KnowledgeIndex.* `DominanceScoresHigher` and `AgreementScoresHigher` order fused
scores for every rank and rank constant. The second one, that a document of both lists
scores above any of a single list, holds for ranks up to the constant plus one (61), and
`AgreementIsTight` proves that this is the last such rank: twice rank 62 ties with one first
place, and a list has up to 75 entries for the largest `top_k`. `ItemsOnceAndFiltered` and
`ClearerComesFirst` carry this to every answer of every search. They first need that the
fused order exists: scores compared as fractions are a strict total order on the merged
entries (`BeforeTotal`, `BeforeTransitive`), and `OrderExists` finds the sequence by placing
each entry after as many as precede it, which a counting argument shows to be a bijection;
no induction is needed. The invariant of a search (`SearchInv`) is that what each branch
found is a ranking of documents of the filter, also when a document is written between the
two branches and is found in two versions. `EnoughCandidates`: no search asks for fewer
candidates than it returns. `EmbeddingInputFits` bounds the input by the limit when title,
separator and marker leave room for one character more, as they do: the title has at most
500 characters (`api/schemas.py:473`), the marker 38, the limit is 1800.
`ToldStaysVisible`: what was acknowledged was below what a refresh had shown, and refreshes
only move up.

Model-checked only: `PendingSettles` and `EveryRequestAnswered`, as liveness under fairness is
out of the prover's reach. The violations of section 3.1 are counterexamples, not theorems.
Every other property of a passing run is the conclusion of a theorem.

## 5. What is not modelled

Redaction, truncation, checksums and prompts are string processing; a checksum is
modelled as what it is computed from, and the one truncation that is modelled works on
lengths. Model and embedding clients, the UI, settings and onboarding texts keep no state.
Passwords, cookies, the origin check and the role of a web request are decided at its start:
a request in a model is one the handler has let through, except for the agents' tokens,
which `ProjectAccess` follows. The instance token is a constant of the process. Read-only
routes are left out. Timestamps other than `received_at`, reasons, risk levels, actors'
names and result details guard nothing. Schema creation at start-up and the connection pool
are left to the libraries. When accepted log entries become searchable is not modelled: a
source may offer nothing at any time. What an incident's summary says is not modelled
either, only which write of it is visible.

## 6. Plan

Modules 1 to 7 exist, in this order: `Recovery` with `RecoveryContract`, the gate between an
analysis and a production change; `PipelineEvents`, where incidents come from;
`IncidentAnalysis`, what a recovery plan rests on; `WorkspaceMembers`, who may decide;
`ProjectAccess` with `CredentialLifecycle`; `ResourceSetup` with `PipelineLogs`;
`HybridRetrieval` with `KnowledgeIndex`. What is left:

- `ControlPlane`: an incident from its event to its resolution, composing `EventLedger` and
  `IncidentContract`, whose implementations are proved.
- The refresh of the log stream, and with it what a collection right after an upload finds.
- The constraint that serialises two opposed decisions or two demotions, should the code
  gain one: the theorems of section 4 on the documented statements name what it must ensure.

---------------------------- MODULE PipelineLogs ----------------------------
(***************************************************************************)
(* The log store: batches of log entries appended to an Elasticsearch data *)
(* stream under ids made of their content, so that a batch may be sent     *)
(* again.                                                                  *)
(*                                                                         *)
(* A bulk call is one HTTP request, because a batch is no longer than the  *)
(* chunk of the bulk helper.  The client repeats a call whose answer does  *)
(* not come in time; the entries the abandoned call has not reached may    *)
(* still be written later.  An entry stands for all that its event_hash is *)
(* made of.                                                                *)
(***************************************************************************)
EXTENDS ResourceSetup, Sequences, FiniteSets

CONSTANTS
  Entry,         \* entries, equal when their event_hash is
  Batches,       \* the batches that requests append
  MaxRetries,    \* max_retries of the Elasticsearch client
  MaxRollovers   \* bound on the rollovers of the data stream

ASSUME BatchAssumption == Batches \subseteq Seq(Entry)
ASSUME BoundAssumption == MaxRetries \in Nat /\ MaxRollovers \in Nat

VARIABLES
  stored,    \* how many copies of each entry the data stream holds
  current,   \* the entries in its newest backing index
  rolled,    \* how often it has rolled over
  stray,     \* entries that an abandoned call may still write
  batch,     \* the batch of each request, empty for a search
  todo,      \* what the present bulk call has still to process
  counts,    \* the outcomes in its answer so far
  tries,     \* how often the call was repeated
  receipts   \* the requests that were answered with their counts

stream == <<stored, current, rolled, stray>>
bulk == <<todo, counts, tries>>
vars == <<setup, pc, stream, bulk, batch, receipts>>

Counts == [accepted : Nat, duplicate : Nat, rejected : BOOLEAN]
NothingYet == [accepted |-> 0, duplicate |-> 0, rejected |-> FALSE]

Using == {"sending", "searching"}
InFlight == SetupStep \cup Using

Init ==
  /\ SetupInit
  /\ stored = [e \in Entry |-> 0]
  /\ current = {} /\ rolled = 0 /\ stray = {}
  /\ batch = [r \in Request |-> <<>>]
  /\ todo = [r \in Request |-> <<>>]
  /\ counts = [r \in Request |-> NothingYet]
  /\ tries = [r \in Request |-> 0]
  /\ receipts = {}
-----------------------------------------------------------------------------
(* The run is found and the agent's token accepted; what follows is the    *)
(* bulk call for a batch and a query for a search.                         *)
Arrive(r, b) ==
  /\ Proceed(r, "idle", "entering")
  /\ batch' = [batch EXCEPT ![r] = b]
  /\ todo' = [todo EXCEPT ![r] = b]
  /\ UNCHANGED <<setup, stream, counts, tries, receipts>>

Use(r) == IF batch[r] = <<>> THEN "searching" ELSE "sending"

EnsureResources(r) ==
  /\ SetUp(r, Use(r))
  /\ UNCHANGED <<stream, bulk, batch, receipts>>

(* A search reads and is answered, or fails: neither changes anything.     *)
Search(r) ==
  /\ Proceed(r, "searching", "done")
  /\ UNCHANGED <<setup, stream, bulk, batch, receipts>>
-----------------------------------------------------------------------------
(* The data stream.                                                        *)

(* An id is compared with those in the newest backing index only.          *)
AlwaysFresh(e) == e \in Entry
Fresh(e) == e \notin current

WriteNew(e) ==
  /\ stored' = [stored EXCEPT ![e] = @ + 1]
  /\ current' = current \cup {e}

RollOver ==
  /\ rolled < MaxRollovers
  /\ rolled' = rolled + 1
  /\ current' = {}
  /\ UNCHANGED <<stored, stray, setup, pc, bulk, batch, receipts>>

WriteStray(e) ==
  /\ e \in stray
  /\ stray' = stray \ {e}
  /\ IF Fresh(e) THEN WriteNew(e) ELSE UNCHANGED <<stored, current>>
  /\ UNCHANGED <<rolled, setup, pc, bulk, batch, receipts>>
-----------------------------------------------------------------------------
(* A bulk call of create operations.                                       *)

Sending(r) == pc[r] = "sending" /\ UNCHANGED <<setup, pc, batch>>

Process(r, outcome) ==
  /\ Sending(r)
  /\ todo[r] # <<>>
  /\ todo' = [todo EXCEPT ![r] = Tail(@)]
  /\ counts' = [counts EXCEPT ![r] = outcome]
  /\ UNCHANGED <<rolled, stray, tries, receipts>>

Accept(r) ==
  /\ Process(r, [counts[r] EXCEPT !.accepted = @ + 1])
  /\ Fresh(Head(todo[r]))
  /\ WriteNew(Head(todo[r]))

(* 409: the id is taken.                                                   *)
DuplicateAsAccepted(c) == [c EXCEPT !.accepted = @ + 1]
CountDuplicate(c) == [c EXCEPT !.duplicate = @ + 1]
Refuse(r) ==
  /\ Process(r, CountDuplicate(counts[r]))
  /\ ~Fresh(Head(todo[r]))
  /\ UNCHANGED <<stored, current>>

(* Any other status; the items behind it are processed nevertheless.       *)
SkipRejected(c) == c
CountRejected(c) == [c EXCEPT !.rejected = TRUE]
Reject(r) ==
  /\ Process(r, CountRejected(counts[r]))
  /\ UNCHANGED <<stored, current>>

(* What the client library holds of the call is dropped.                   *)
Close(r) ==
  /\ Proceed(r, "sending", "done")
  /\ todo' = [todo EXCEPT ![r] = <<>>]
  /\ tries' = [tries EXCEPT ![r] = 0]

(* The answer comes: a receipt, or 503 when an item was rejected.          *)
Answer(r) ==
  /\ Close(r)
  /\ todo[r] = <<>> /\ ~counts[r].rejected
  /\ receipts' = receipts \cup {r}
  /\ UNCHANGED <<setup, stream, counts, batch>>

Fail(r) ==
  /\ Close(r)
  /\ counts' = [counts EXCEPT ![r] = NothingYet]
  /\ batch' = [batch EXCEPT ![r] = <<>>]
  /\ UNCHANGED <<setup, stored, current, rolled, receipts>>

AnswerRejected(r) ==
  /\ Fail(r)
  /\ todo[r] = <<>> /\ counts[r].rejected
  /\ UNCHANGED stray

(* It does not come in time: the client repeats the whole call.            *)
MayRepeatOnceMore(r) == tries[r] <= MaxRetries
MayRepeat(r) == tries[r] < MaxRetries
ResetCounts(r) == counts' = [counts EXCEPT ![r] = NothingYet]
Abandon(r) == stray' = stray \cup {todo[r][i] : i \in DOMAIN todo[r]}

Repeat(r) ==
  /\ Sending(r)
  /\ MayRepeat(r)
  /\ tries' = [tries EXCEPT ![r] = @ + 1]
  /\ Abandon(r)
  /\ todo' = [todo EXCEPT ![r] = batch[r]]
  /\ ResetCounts(r)
  /\ UNCHANGED <<stored, current, rolled, receipts>>

GiveUp(r) == Fail(r) /\ Abandon(r)
-----------------------------------------------------------------------------
Serve(r) ==
  \/ EnsureResources(r) \/ Search(r)
  \/ Accept(r) \/ Refuse(r) \/ Reject(r)
  \/ Answer(r) \/ AnswerRejected(r) \/ Repeat(r) \/ GiveUp(r)

Next ==
  \/ \E r \in Request : (\E b \in Batches \cup {<<>>} : Arrive(r, b)) \/ Serve(r)
  \/ RollOver
  \/ \E e \in Entry : WriteStray(e)

Spec == Init /\ [][Next]_vars
-----------------------------------------------------------------------------
(* Properties.                                                             *)

(* Type invariant.                                                         *)
TypeOK ==
  /\ SetupTypeOK
  /\ pc \in [Request -> InFlight \cup {"idle", "done"}]
  /\ stored \in [Entry -> Nat]
  /\ current \subseteq Entry /\ stray \subseteq Entry
  /\ rolled \in 0..MaxRollovers
  /\ batch \in [Request -> Seq(Entry)] /\ todo \in [Request -> Seq(Entry)]
  /\ counts \in [Request -> Counts]
  /\ tries \in [Request -> 0..MaxRetries]
  /\ receipts \subseteq Request

(* A receipt accounts for every entry of its batch, each once, and all of  *)
(* them are stored: not after a partial failure, and not by what an        *)
(* earlier, abandoned call may or may not have written.                    *)
ReceiptIsComplete ==
  \A r \in receipts :
    /\ counts[r].accepted + counts[r].duplicate = Len(batch[r])
    /\ \A i \in DOMAIN batch[r] : stored[batch[r][i]] > 0

(* However often it is sent, and by however many requests, an entry has    *)
(* one copy in each backing index at most.                                 *)
EntryStoredOnce == \A e \in Entry : stored[e] <= rolled + 1

(* The receipts together never claim more new entries than there are       *)
(* copies: what an abandoned call wrote is not claimed by two of them.     *)
ClaimsOf(requests) == UNION {{r} \X (1..counts[r].accepted) : r \in requests}
Copies == UNION {{e} \X (1..stored[e]) : e \in Entry}
AcceptedAreStored == Cardinality(ClaimsOf(receipts)) <= Cardinality(Copies)
=============================================================================

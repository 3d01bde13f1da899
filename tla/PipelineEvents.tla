--------------------------- MODULE PipelineEvents ---------------------------
(***************************************************************************)
(* Ingestion of pipeline events.  A CI system reports each event at least  *)
(* once and in any order; every delivery is a request with a session of    *)
(* its own.  It looks the event and its run up, checks the status          *)
(* transition on what it found, and commits the run's status, the event's  *)
(* id and, for a failure, the run's incident in one transaction.           *)
(*                                                                         *)
(* A delivery that is answered after its first read (a duplicate, or a     *)
(* transition that is not allowed) applied nothing and is not a step.      *)
(***************************************************************************)
CONSTANTS
  Run,        \* runs, by (provider, project, external id, attempt)
  Event,      \* event ids
  Body,       \* what each event reports, see EventBody
  Delivery,   \* deliveries, each of which is served once
  NoEvent     \* "no row"

Status == {"RUNNING", "SUCCESS", "FAILED", "CANCELED"}
EventBody == [run: Run, status: Status]

ASSUME BodyAssumption == Body \in [Event -> EventBody]
ASSUME NoEventAssumption == NoEvent \notin Event

VARIABLES
  status,     \* pipeline_runs.status, "ABSENT" where there is no row
  incident,   \* incidents.trigger_event_id of each run, or NoEvent
  processed,  \* the processed_events table
  applied,    \* history: the deliveries that committed each event
  pc,         \* what each delivery does next
  carries,    \* the event of each delivery that is being served
  loaded      \* the run's status as the delivery read it

db == <<status, incident, processed, applied>>
vars == <<db, pc, carries, loaded>>

RunOf(e) == Body[e].run
Terminal == Status \ {"RUNNING"}

Init ==
  /\ status = [u \in Run |-> "ABSENT"]
  /\ incident = [u \in Run |-> NoEvent]
  /\ processed = {}
  /\ applied = [e \in Event |-> {}]
  /\ pc = [d \in Delivery |-> "idle"]
  /\ carries = [d \in Delivery |-> NoEvent]
  /\ loaded = [d \in Delivery |-> "ABSENT"]
-----------------------------------------------------------------------------
(* Guards of the service and constraints of the tables.                    *)

AllowedNext(current) == IF current = "RUNNING" THEN Status ELSE {current}

(* The primary key of processed_events.                                    *)
AnyEvent(e) == e \in Event
EventUnique(e) == e \notin processed

(* uq_pipeline_run_external_identity.                                      *)
RunUnique(u) == status[u] = "ABSENT"

(* The UPDATE names the status column only when the session changed it.    *)
WrittenAlways(d) == Body[carries[d]].status
Written(d) ==
  IF Body[carries[d]].status = loaded[d] THEN status[RunOf(carries[d])]
  ELSE Body[carries[d]].status

RecordEventUnlessFailed(d, e) ==
  /\ processed' = IF Body[e].status = "FAILED" THEN processed
                  ELSE processed \cup {e}
  /\ applied' = [applied EXCEPT ![e] = @ \cup {d}]
RecordEvent(d, e) ==
  /\ processed' = processed \cup {e}
  /\ applied' = [applied EXCEPT ![e] = @ \cup {d}]

(* The session flushes the run's row, and so holds its lock, before it     *)
(* looks for an incident: no other delivery can insert one in between.     *)
OpenIncidentForNewRun(e) ==
  incident' = IF Body[e].status = "FAILED" /\ status[RunOf(e)] = "ABSENT"
              THEN [incident EXCEPT ![RunOf(e)] = e] ELSE incident
OpenIncidentAnew(e) ==
  incident' = IF Body[e].status = "FAILED"
              THEN [incident EXCEPT ![RunOf(e)] = e] ELSE incident
OpenIncidentForAnyEnd(e) ==
  incident' = IF Body[e].status # "RUNNING" /\ incident[RunOf(e)] = NoEvent
              THEN [incident EXCEPT ![RunOf(e)] = e] ELSE incident
EnsureIncident(e) ==
  incident' = IF Body[e].status = "FAILED" /\ incident[RunOf(e)] = NoEvent
              THEN [incident EXCEPT ![RunOf(e)] = e] ELSE incident
-----------------------------------------------------------------------------
(* One delivery.                                                           *)

Load(d, e) ==
  LET found == status[RunOf(e)] IN
  /\ pc[d] = "idle"
  /\ e \notin processed
  /\ found # "ABSENT" => Body[e].status \in AllowedNext(found)
  /\ pc' = [pc EXCEPT ![d] = "loaded"]
  /\ carries' = [carries EXCEPT ![d] = e]
  /\ loaded' = [loaded EXCEPT ![d] = found]
  /\ UNCHANGED db

(* The response is sent and the session is closed.                         *)
Finish(d) ==
  /\ pc[d] = "loaded"
  /\ pc' = [pc EXCEPT ![d] = "done"]
  /\ carries' = [carries EXCEPT ![d] = NoEvent]
  /\ loaded' = [loaded EXCEPT ![d] = "ABSENT"]

Commit(d, to) ==
  LET e == carries[d] IN
  /\ Finish(d)
  /\ EventUnique(e)
  /\ status' = [status EXCEPT ![RunOf(e)] = to]
  /\ RecordEvent(d, e)
  /\ EnsureIncident(e)

CreateRun(d) ==
  /\ pc[d] = "loaded"
  /\ loaded[d] = "ABSENT"
  /\ RunUnique(RunOf(carries[d]))
  /\ Commit(d, Body[carries[d]].status)

UpdateRun(d) ==
  /\ loaded[d] # "ABSENT"
  /\ Commit(d, Written(d))

(* A violated constraint, a lost connection or the death of the worker:    *)
(* the transaction is rolled back and the sender may deliver again.        *)
RollBack(d) ==
  /\ Finish(d)
  /\ UNCHANGED db

Next ==
  \E d \in Delivery :
    \/ \E e \in Event : Load(d, e)
    \/ CreateRun(d) \/ UpdateRun(d) \/ RollBack(d)

Spec == Init /\ [][Next]_vars
-----------------------------------------------------------------------------
(* Properties.                                                             *)

(* Type invariant.                                                         *)
TypeOK ==
  /\ status \in [Run -> Status \cup {"ABSENT"}]
  /\ incident \in [Run -> processed \cup {NoEvent}]
  /\ processed \subseteq Event
  /\ applied \in [Event -> SUBSET Delivery]
  /\ pc \in [Delivery -> {"idle", "loaded", "done"}]
  /\ carries \in [Delivery -> Event \cup {NoEvent}]
  /\ \A d \in Delivery : pc[d] = "loaded" => carries[d] \in Event
  /\ loaded \in [Delivery -> Status \cup {"ABSENT"}]

(* However often an event is delivered, and however its deliveries race,   *)
(* at most one of them takes effect.                                       *)
AppliedOnce ==
  \A e \in Event : \A d1, d2 \in applied[e] : d1 = d2

(* No failure is lost: once a FAILED event is accepted its run has an      *)
(* incident, also when the run's row is new or another delivery races.     *)
NoFailureLost ==
  \A e \in processed : Body[e].status = "FAILED" => incident[RunOf(e)] # NoEvent

(* A run's row says what its accepted events say, in whatever order they   *)
(* came: its status is one of theirs, it has ended just when one of them   *)
(* ended it, and it has an incident just when one of them is a failure.    *)
RowsFollowEvents ==
  \A u \in Run :
    LET said == {Body[e].status : e \in {f \in processed : RunOf(f) = u}} IN
    /\ status[u] \in said \/ (said = {} /\ status[u] = "ABSENT")
    /\ status[u] \in Terminal <=> said \cap Terminal # {}
    /\ incident[u] # NoEvent <=> "FAILED" \in said

(* An incident was triggered by an accepted FAILED event of its own run.   *)
IncidentJustified ==
  \A u \in Run : incident[u] # NoEvent =>
    /\ incident[u] \in processed
    /\ RunOf(incident[u]) = u
    /\ Body[incident[u]].status = "FAILED"

(* A run's incident is opened once: a later failure neither replaces it    *)
(* nor changes what triggered it.                                          *)
IncidentIsStable ==
  [][\A u \in Run : incident[u] # NoEvent => incident'[u] = incident[u]]_vars

(* A stale RUNNING event never reopens a run that ended, not even when the *)
(* run ended between the event's read and its commit.                      *)
EndedRunStaysEnded ==
  [][\A u \in Run : status[u] \in Terminal => status'[u] \in Terminal]_vars

(* However deliveries interleave and die, ingestion behaves as if events   *)
(* were accepted one at a time: each commit adds one event, and to its run *)
(* just what the event says of it.                                         *)
Ledger == INSTANCE EventLedger WITH
  accepted <- processed,
  known <- {u \in Run : status[u] # "ABSENT"},
  ended <- {u \in Run : status[u] \in Terminal},
  opener <- incident
ImplementsLedger == Ledger!Spec
=============================================================================

------------------------ MODULE PipelineEventsProof ------------------------
(***************************************************************************)
(* Proofs of the safety properties of PipelineEvents, for every set of     *)
(* runs, events and deliveries.                                            *)
(***************************************************************************)
EXTENDS PipelineEvents, TLAPS

(* Only accepted events have taken effect, each of them once.              *)
AppliedInv ==
  \A e \in Event : \A d \in applied[e] : e \in processed

(* A delivery that found the run passed the guard on the status it found.  *)
LoadedInv ==
  \A d \in Delivery : pc[d] = "loaded" /\ loaded[d] # "ABSENT" =>
    Body[carries[d]].status \in AllowedNext(loaded[d])

(* The inductive invariant.                                                *)
IInv ==
  /\ TypeOK
  /\ AppliedInv /\ AppliedOnce
  /\ NoFailureLost /\ IncidentJustified
  /\ LoadedInv

(* A commit by d, whether it inserts the run or updates it.                *)
Committed(d) ==
  \/ CreateRun(d)
  \/ UpdateRun(d)

(* What every commit does, read off its two forms.                         *)
LEMMA CommitEffect ==
  ASSUME TypeOK, NEW d \in Delivery, Committed(d)
  PROVE  LET e == carries[d] IN
         /\ pc[d] = "loaded" /\ e \in Event /\ RunOf(e) \in Run
         /\ Finish(d) /\ EventUnique(e)
         /\ RecordEvent(d, e) /\ EnsureIncident(e)
         /\ \E to \in Status \cup {"ABSENT"} :
              status' = [status EXCEPT ![RunOf(e)] = to]
<1>1. pc[d] = "loaded"
  BY DEF Committed, CreateRun, UpdateRun, Commit, Finish
<1>2. carries[d] \in Event
  BY <1>1 DEF TypeOK
<1>3. RunOf(carries[d]) \in Run /\ Body[carries[d]].status \in Status
  BY <1>2, BodyAssumption DEF RunOf, EventBody
<1>4. Written(d) \in Status \cup {"ABSENT"}
  BY <1>3 DEF Written, TypeOK
<1> QED
  BY <1>1, <1>2, <1>3, <1>4 DEF Committed, CreateRun, UpdateRun, Commit

(* Every step keeps the types.                                             *)
LEMMA TypeStep == TypeOK /\ [Next]_vars => TypeOK'
<1> SUFFICES ASSUME TypeOK, [Next]_vars PROVE TypeOK'
  OBVIOUS
<1>1. CASE UNCHANGED vars
  BY <1>1 DEF TypeOK, vars, db
<1>2. ASSUME NEW d \in Delivery, NEW e \in Event, Load(d, e) PROVE TypeOK'
  <2>1. RunOf(e) \in Run
    BY BodyAssumption DEF RunOf, EventBody
  <2> QED
    BY <1>2, <2>1 DEF TypeOK, Load, db
<1>3. ASSUME NEW d \in Delivery, Committed(d) PROVE TypeOK'
  <2> DEFINE e == carries[d]
  <2>1. /\ e \in Event /\ RunOf(e) \in Run
        /\ Finish(d) /\ RecordEvent(d, e) /\ EnsureIncident(e)
    BY <1>3, CommitEffect
  <2>2. PICK to \in Status \cup {"ABSENT"} :
          status' = [status EXCEPT ![RunOf(e)] = to]
    BY <1>3, CommitEffect
  <2> HIDE DEF e
  <2>3. processed' = processed \cup {e} /\ processed' \subseteq Event
    BY <2>1 DEF RecordEvent, TypeOK
  <2>4. incident' \in [Run -> processed' \cup {NoEvent}]
    BY <2>1, <2>3 DEF EnsureIncident, TypeOK
  <2>5. status' \in [Run -> Status \cup {"ABSENT"}]
    BY <2>2 DEF TypeOK
  <2>6. applied' \in [Event -> SUBSET Delivery]
    BY <2>1 DEF RecordEvent, TypeOK
  <2>7. /\ pc' \in [Delivery -> {"idle", "loaded", "done"}]
        /\ carries' \in [Delivery -> Event \cup {NoEvent}]
        /\ \A c \in Delivery : pc'[c] = "loaded" => carries'[c] \in Event
        /\ loaded' \in [Delivery -> Status \cup {"ABSENT"}]
    BY <2>1 DEF Finish, TypeOK
  <2> QED
    BY <2>3, <2>4, <2>5, <2>6, <2>7 DEF TypeOK
<1>4. ASSUME NEW d \in Delivery, RollBack(d) PROVE TypeOK'
  BY <1>4 DEF TypeOK, RollBack, Finish, db
<1> QED
  BY <1>1, <1>2, <1>3, <1>4 DEF Next, Committed

(* IInv holds initially and every step keeps it.                           *)
LEMMA InvInductive == (Init => IInv) /\ (IInv /\ [Next]_vars => IInv')
<1>1. Init => IInv
  BY DEF Init, IInv, TypeOK, AppliedInv, AppliedOnce, NoFailureLost,
         IncidentJustified, LoadedInv
<1>2. IInv /\ [Next]_vars => IInv'
  <2> SUFFICES ASSUME IInv, [Next]_vars PROVE IInv'
    OBVIOUS
  <2> USE DEF IInv
  <2>1. TypeOK'
    BY TypeStep
  <2>2. CASE UNCHANGED vars
    BY <2>1, <2>2 DEF AppliedInv, AppliedOnce, NoFailureLost,
      IncidentJustified, LoadedInv, vars, db
  <2>3. ASSUME NEW d \in Delivery, NEW e \in Event, Load(d, e) PROVE IInv'
    <3>1. LoadedInv'
      BY <2>3 DEF TypeOK, LoadedInv, Load, db
    <3> QED
      BY <2>1, <2>3, <3>1 DEF AppliedInv, AppliedOnce, NoFailureLost,
        IncidentJustified, Load, db
  <2>4. ASSUME NEW d \in Delivery, Committed(d) PROVE IInv'
    <3> DEFINE e == carries[d]
    <3>1. /\ e \in Event /\ RunOf(e) \in Run /\ e # NoEvent
          /\ Finish(d) /\ e \notin processed
          /\ processed' = processed \cup {e}
          /\ applied' = [applied EXCEPT ![e] = @ \cup {d}]
          /\ EnsureIncident(e)
      BY <2>4, CommitEffect, NoEventAssumption DEF EventUnique, RecordEvent
    <3> HIDE DEF e
    <3>2. applied[e] = {}
      BY <3>1 DEF AppliedInv, TypeOK
    <3>3. AppliedInv' /\ AppliedOnce'
      BY <3>1, <3>2 DEF AppliedInv, AppliedOnce, TypeOK
    <3>4. NoFailureLost'
      <4> SUFFICES ASSUME NEW f \in processed', Body[f].status = "FAILED"
                   PROVE  incident'[RunOf(f)] # NoEvent
        BY DEF NoFailureLost
      <4>1. f \in Event /\ RunOf(f) \in Run
        BY <3>1, BodyAssumption DEF TypeOK, RunOf, EventBody
      <4>2. CASE f \in processed
        BY <3>1, <4>1, <4>2 DEF NoFailureLost, EnsureIncident, TypeOK
      <4>3. CASE f = e
        BY <3>1, <4>3 DEF EnsureIncident, TypeOK
      <4> QED
        BY <3>1, <4>2, <4>3
    <3>5. IncidentJustified'
      BY <3>1 DEF IncidentJustified, EnsureIncident, TypeOK
    <3>6. LoadedInv'
      BY <3>1 DEF LoadedInv, Finish, TypeOK
    <3> QED
      BY <2>1, <3>3, <3>4, <3>5, <3>6
  <2>5. ASSUME NEW d \in Delivery, RollBack(d) PROVE IInv'
    BY <2>1, <2>5 DEF TypeOK, AppliedInv, AppliedOnce, NoFailureLost,
      IncidentJustified, LoadedInv, RollBack, Finish, db
  <2> QED
    BY <2>2, <2>3, <2>4, <2>5 DEF Next, Committed
<1> QED
  BY <1>1, <1>2

(* IInv holds in every reachable state.                                    *)
LEMMA Invariant == Spec => []IInv
  BY InvInductive, PTL DEF Spec

(* Every reachable state is well typed; an incident's event was processed. *)
THEOREM TypeCorrect == Spec => []TypeOK
<1>1. IInv => TypeOK
  BY DEF IInv
<1> QED
  BY <1>1, Invariant, PTL

(* No event takes effect twice, whatever is delivered again.               *)
THEOREM EffectOnce == Spec => []AppliedOnce
<1>1. IInv => AppliedOnce
  BY DEF IInv
<1> QED
  BY <1>1, Invariant, PTL

(* Every accepted failure has an incident.                                 *)
THEOREM FailuresAreKept == Spec => []NoFailureLost
<1>1. IInv => NoFailureLost
  BY DEF IInv
<1> QED
  BY <1>1, Invariant, PTL

(* Every incident was opened by an accepted failure of its own run.        *)
THEOREM IncidentsAreJustified == Spec => []IncidentJustified
<1>1. IInv => IncidentJustified
  BY DEF IInv
<1> QED
  BY <1>1, Invariant, PTL

(* An incident keeps the event that opened it.                             *)
THEOREM IncidentKept == Spec => IncidentIsStable
<1> DEFINE Stable == \A u \in Run : incident[u] # NoEvent =>
                       incident'[u] = incident[u]
<1>1. IInv /\ [Next]_vars => [Stable]_vars
  <2> SUFFICES ASSUME IInv, Next PROVE Stable
    OBVIOUS
  <2> USE DEF IInv
  <2>1. ASSUME NEW d \in Delivery, NEW e \in Event, Load(d, e) PROVE Stable
    BY <2>1 DEF Load, db
  <2>2. ASSUME NEW d \in Delivery, Committed(d) PROVE Stable
    <3>1. EnsureIncident(carries[d])
      BY <2>2, CommitEffect
    <3> QED
      BY <3>1 DEF EnsureIncident, TypeOK
  <2>3. ASSUME NEW d \in Delivery, RollBack(d) PROVE Stable
    BY <2>3 DEF RollBack, db
  <2> QED
    BY <2>1, <2>2, <2>3 DEF Next, Committed
<1> QED
  BY <1>1, Invariant, PTL DEF Spec, IncidentIsStable

(* A run that ended never runs again, although its deliveries race.        *)
THEOREM NeverReopened == Spec => EndedRunStaysEnded
<1> DEFINE Ended == \A u \in Run : status[u] \in Terminal =>
                      status'[u] \in Terminal
<1>1. IInv /\ [Next]_vars => [Ended]_vars
  <2> SUFFICES ASSUME IInv, Next PROVE Ended
    OBVIOUS
  <2> USE DEF IInv
  <2>1. ASSUME NEW d \in Delivery, NEW e \in Event, Load(d, e) PROVE Ended
    BY <2>1 DEF Load, db
  <2>2. ASSUME NEW d \in Delivery, CreateRun(d) PROVE Ended
    BY <2>2 DEF CreateRun, RunUnique, Commit, Terminal, Status, TypeOK
  <2>3. ASSUME NEW d \in Delivery, UpdateRun(d) PROVE Ended
    <3>1. /\ pc[d] = "loaded" /\ loaded[d] # "ABSENT"
          /\ status' = [status EXCEPT ![RunOf(carries[d])] = Written(d)]
      BY <2>3 DEF UpdateRun, Commit, Finish
    <3>2. carries[d] \in Event /\ Body[carries[d]].status \in Status
      BY <3>1, BodyAssumption DEF TypeOK, EventBody
    <3>3. Body[carries[d]].status \in AllowedNext(loaded[d])
      BY <3>1 DEF LoadedInv
    <3>4. \/ Written(d) = status[RunOf(carries[d])]
          \/ Written(d) \in Terminal
      BY <3>2, <3>3 DEF Written, AllowedNext, Terminal
    <3> QED
      BY <3>1, <3>4 DEF TypeOK
  <2>4. ASSUME NEW d \in Delivery, RollBack(d) PROVE Ended
    BY <2>4 DEF RollBack, db
  <2> QED
    BY <2>1, <2>2, <2>3, <2>4 DEF Next
<1> QED
  BY <1>1, Invariant, PTL DEF Spec, EndedRunStaysEnded
-----------------------------------------------------------------------------
(* The ledger.                                                             *)

(* What a delivery read of its run is past, and the run did not go back:   *)
(* its row is still there, and if it had ended it still has.               *)
ReadPast ==
  \A d \in Delivery : pc[d] = "loaded" =>
    /\ loaded[d] # "ABSENT" => status[RunOf(carries[d])] # "ABSENT"
    /\ loaded[d] \in Terminal => status[RunOf(carries[d])] \in Terminal

LedgerInv == IInv /\ ReadPast

(* A commit leaves its run known, and ended if it had or if the event says *)
(* so, whatever became of the run since the delivery read it.              *)
LEMMA CommitStatus ==
  ASSUME LedgerInv, NEW d \in Delivery, Committed(d)
  PROVE  LET e == carries[d]
             u == RunOf(e) IN
         /\ \A q \in Run \ {u} : status'[q] = status[q]
         /\ status'[u] # "ABSENT"
         /\ status'[u] \in {status[u], Body[e].status}
         /\ status'[u] \in Terminal
              <=> status[u] \in Terminal \/ Body[e].status # "RUNNING"
<1> DEFINE e == carries[d]
           u == RunOf(e)
<1> USE DEF LedgerInv, IInv
<1>1. /\ pc[d] = "loaded" /\ e \in Event /\ u \in Run
      /\ Body[e].status \in Status /\ status[u] \in Status \cup {"ABSENT"}
      /\ DOMAIN status = Run
  BY CommitEffect, BodyAssumption DEF EventBody, TypeOK
<1>2. CASE CreateRun(d)
  <2>1. /\ status[u] = "ABSENT"
        /\ status' = [status EXCEPT ![u] = Body[e].status]
    BY <1>2 DEF CreateRun, RunUnique, Commit
  <2> QED
    BY <1>1, <2>1 DEF Terminal, Status
<1>3. CASE UpdateRun(d)
  <2>1. /\ loaded[d] # "ABSENT"
        /\ status' = [status EXCEPT ![u] = Written(d)]
    BY <1>3 DEF UpdateRun, Commit
  <2>2. Body[e].status \in AllowedNext(loaded[d]) /\ loaded[d] \in Status
    BY <1>1, <2>1 DEF LoadedInv, TypeOK
  <2>3. status[u] # "ABSENT" /\ (loaded[d] \in Terminal => status[u] \in Terminal)
    BY <1>1, <2>1 DEF ReadPast
  <2>4. CASE Body[e].status = loaded[d]
    <3>1. Written(d) = status[u]
      BY <2>4 DEF Written
    <3> QED
      BY <1>1, <2>1, <2>2, <2>3, <2>4, <3>1 DEF Terminal
  <2>5. CASE Body[e].status # loaded[d]
    <3>1. Written(d) = Body[e].status /\ Written(d) \in Terminal
      BY <1>1, <2>2, <2>5 DEF Written, AllowedNext, Terminal
    <3> QED
      BY <1>1, <2>1, <3>1 DEF Terminal, Status
  <2> QED
    BY <2>4, <2>5
<1> QED
  BY <1>2, <1>3 DEF Committed

(* The invariant holds initially and every step keeps it.                  *)
LEMMA LedgerInvInductive == (Init => LedgerInv) /\ (LedgerInv /\ [Next]_vars => LedgerInv')
<1>1. Init => LedgerInv
  BY InvInductive DEF Init, LedgerInv, ReadPast
<1>2. LedgerInv /\ [Next]_vars => LedgerInv'
  <2> SUFFICES ASSUME LedgerInv, [Next]_vars PROVE ReadPast'
    BY InvInductive DEF LedgerInv
  <2>0. IInv /\ ReadPast /\ TypeOK
    BY DEF LedgerInv, IInv
  <2>1. CASE UNCHANGED vars
    BY <2>0, <2>1 DEF ReadPast, vars, db
  <2>2. ASSUME NEW d \in Delivery, NEW e \in Event, Load(d, e) PROVE ReadPast'
    BY <2>0, <2>2 DEF ReadPast, Load, db, TypeOK
  <2>3. ASSUME NEW d \in Delivery, Committed(d) PROVE ReadPast'
    <3>1. /\ Finish(d) /\ RunOf(carries[d]) \in Run
          /\ \A q \in Run : /\ status[q] # "ABSENT" => status'[q] # "ABSENT"
                            /\ status[q] \in Terminal => status'[q] \in Terminal
      BY <2>0, <2>3, CommitEffect, CommitStatus
    <3> SUFFICES ASSUME NEW c \in Delivery, pc'[c] = "loaded"
                 PROVE  /\ loaded'[c] # "ABSENT" => status'[RunOf(carries'[c])] # "ABSENT"
                        /\ loaded'[c] \in Terminal => status'[RunOf(carries'[c])] \in Terminal
      BY DEF ReadPast
    <3>2. /\ pc[c] = "loaded" /\ carries'[c] = carries[c] /\ loaded'[c] = loaded[c]
      BY <2>0, <3>1 DEF Finish, TypeOK
    <3>3. RunOf(carries[c]) \in Run
      BY <2>0, <3>2, BodyAssumption DEF TypeOK, RunOf, EventBody
    <3> QED
      BY <2>0, <3>1, <3>2, <3>3 DEF ReadPast
  <2>4. ASSUME NEW d \in Delivery, RollBack(d) PROVE ReadPast'
    BY <2>0, <2>4 DEF ReadPast, RollBack, Finish, db, TypeOK
  <2> QED
    BY <2>1, <2>2, <2>3, <2>4 DEF Next, Committed
<1> QED
  BY <1>1, <1>2

(* What the accepted events of a run say of it.                            *)
Said(u) == {Body[e].status : e \in {f \in processed : RunOf(f) = u}}

(* A commit adds what its event says, and the run's row follows.           *)
LEMMA RowsStep ==
  LedgerInv /\ RowsFollowEvents /\ [Next]_vars => RowsFollowEvents'
<1> SUFFICES ASSUME LedgerInv, RowsFollowEvents, [Next]_vars PROVE RowsFollowEvents'
  OBVIOUS
<1>0. TypeOK
  BY DEF LedgerInv, IInv
<1>1. CASE UNCHANGED db
  BY <1>1 DEF db, RowsFollowEvents
<1>2. ASSUME NEW d \in Delivery, Committed(d) PROVE RowsFollowEvents'
  <2> PICK e : e = carries[d]
    OBVIOUS
  <2> DEFINE u == RunOf(e)
             now == Body[e].status
  <2>1. /\ e \in Event /\ u \in Run /\ e # NoEvent /\ now \in Status
        /\ processed' = processed \cup {e} /\ EnsureIncident(e)
    BY <1>0, <1>2, CommitEffect, NoEventAssumption, BodyAssumption DEF RecordEvent, EventBody
  <2>2. /\ \A q \in Run \ {u} : status'[q] = status[q]
        /\ status'[u] # "ABSENT" /\ status'[u] \in {status[u], now}
        /\ status'[u] \in Terminal <=> status[u] \in Terminal \/ now # "RUNNING"
    BY <1>2, CommitStatus
  <2>3. \A q \in Run : Said(q)' = IF q = u THEN Said(q) \cup {now} ELSE Said(q)
    BY <2>1 DEF Said
  <2>4. \A q \in Run : incident'[q] # NoEvent
                         <=> incident[q] # NoEvent \/ (q = u /\ now = "FAILED")
    BY <1>0, <2>1 DEF EnsureIncident, TypeOK
  <2> HIDE DEF u, now
  <2> SUFFICES ASSUME NEW q \in Run
               PROVE  /\ status'[q] \in Said(q)' \/ (Said(q)' = {} /\ status'[q] = "ABSENT")
                      /\ status'[q] \in Terminal <=> Said(q)' \cap Terminal # {}
                      /\ incident'[q] # NoEvent <=> "FAILED" \in Said(q)'
    BY DEF RowsFollowEvents, Said
  <2>5. /\ status[q] \in Said(q) \/ (Said(q) = {} /\ status[q] = "ABSENT")
        /\ status[q] \in Terminal <=> Said(q) \cap Terminal # {}
        /\ incident[q] # NoEvent <=> "FAILED" \in Said(q)
    BY DEF RowsFollowEvents, Said
  <2>6. CASE q # u
    BY <2>2, <2>3, <2>4, <2>5, <2>6
  <2>7. CASE q = u
    <3>1. now \in Terminal <=> now # "RUNNING"
      BY <2>1 DEF Terminal
    <3>2. Said(q)' = Said(q) \cup {now}
      BY <2>3, <2>7
    <3> HIDE DEF Said
    <3> QED
      BY <2>2, <2>4, <2>5, <2>7, <3>1, <3>2
  <2> QED
    BY <2>6, <2>7
<1> QED
  BY <1>1, <1>2 DEF Next, Committed, Load, RollBack, vars

(* However deliveries race and in whatever order their events happened,    *)
(* a run's row and incident say just what its accepted events say          *)
(* (pipeline_events.py ingest).                                            *)
THEOREM RowsAreExplained == Spec => []RowsFollowEvents
<1>1. Init => RowsFollowEvents
  <2> SUFFICES ASSUME Init, NEW u \in Run
               PROVE  /\ status[u] \in Said(u) \/ (Said(u) = {} /\ status[u] = "ABSENT")
                      /\ status[u] \in Terminal <=> Said(u) \cap Terminal # {}
                      /\ incident[u] # NoEvent <=> "FAILED" \in Said(u)
    BY DEF RowsFollowEvents, Said
  <2>1. status[u] = "ABSENT" /\ incident[u] = NoEvent /\ processed = {}
    BY DEF Init
  <2>2. Said(u) = {}
    BY <2>1 DEF Said
  <2> QED
    BY <2>1, <2>2 DEF Terminal, Status
<1> QED
  BY <1>1, LedgerInvInductive, RowsStep, PTL DEF Spec

(* Ingestion implements the ledger: however its deliveries race, repeat    *)
(* and die, each commit is the acceptance of one event, with exactly the   *)
(* effects that the event has on its run (pipeline_events.py ingest).      *)
THEOREM RefinesLedger == Spec => ImplementsLedger
<1>1. Init => Ledger!Init
  BY DEF Init, Ledger!Init, Terminal, Status
<1>2. LedgerInv /\ [Next]_vars => [Ledger!Next]_(Ledger!vars)
  <2> SUFFICES ASSUME LedgerInv, [Next]_vars
               PROVE  [Ledger!Next]_(Ledger!vars)
    OBVIOUS
  <2>0. TypeOK
    BY DEF LedgerInv, IInv
  <2>1. CASE UNCHANGED db
    BY <2>1 DEF db, Ledger!vars
  <2>2. ASSUME NEW d \in Delivery, Committed(d) PROVE Ledger!Next
    <3> PICK e : e = carries[d]
      OBVIOUS
    <3> DEFINE u == Body[e].run
    <3>1. /\ e \in Event /\ u \in Run /\ u = RunOf(e)
          /\ e \notin processed /\ processed' = processed \cup {e}
          /\ EnsureIncident(e)
      BY <2>0, <2>2, CommitEffect DEF EventUnique, RecordEvent, RunOf
    <3>2. /\ \A q \in Run \ {u} : status'[q] = status[q]
          /\ status'[u] # "ABSENT"
          /\ status'[u] \in Terminal
               <=> status[u] \in Terminal \/ Body[e].status # "RUNNING"
      BY <2>2, <3>1, CommitStatus
    <3> HIDE DEF u
    <3>3. {q \in Run : status'[q] # "ABSENT"} = {q \in Run : status[q] # "ABSENT"} \cup {u}
      BY <3>1, <3>2
    <3>4. {q \in Run : status'[q] \in Terminal} =
            IF Body[e].status = "RUNNING" THEN {q \in Run : status[q] \in Terminal}
            ELSE {q \in Run : status[q] \in Terminal} \cup {u}
      BY <3>1, <3>2
    <3>5. incident' = IF Body[e].status = "FAILED" /\ incident[u] = NoEvent
                      THEN [incident EXCEPT ![u] = e] ELSE incident
      BY <3>1 DEF EnsureIncident
    <3>6. Ledger!Accept(e)
      BY <3>1, <3>3, <3>4, <3>5 DEF Ledger!Accept, u
    <3> QED
      BY <3>1, <3>6 DEF Ledger!Next
  <2> QED
    BY <2>1, <2>2 DEF Next, Committed, Load, RollBack, vars
<1> QED
  BY <1>1, <1>2, LedgerInvInductive, PTL DEF Spec, ImplementsLedger, Ledger!Spec
=============================================================================

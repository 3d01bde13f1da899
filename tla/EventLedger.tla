----------------------------- MODULE EventLedger -----------------------------
(***************************************************************************)
(* What the ingestion of pipeline events promises, without deliveries,     *)
(* sessions or races: events are accepted one at a time, each at most      *)
(* once, and what is known of a run follows from the events accepted so    *)
(* far and their order, and from nothing else.                             *)
(***************************************************************************)
CONSTANTS
  Run, Event,
  Body,       \* the run and the status that each event reports
  NoEvent     \* "no incident"

VARIABLES
  accepted,   \* the events accepted
  known,      \* the runs heard of
  ended,      \* the runs that ended
  opener      \* the event that opened the incident of each run, or NoEvent

vars == <<accepted, known, ended, opener>>

Init ==
  /\ accepted = {} /\ known = {} /\ ended = {}
  /\ opener = [u \in Run |-> NoEvent]

Accept(e) ==
  LET u == Body[e].run IN
  /\ e \notin accepted
  /\ accepted' = accepted \cup {e}
  /\ known' = known \cup {u}
  /\ ended' = IF Body[e].status = "RUNNING" THEN ended ELSE ended \cup {u}
  /\ opener' = IF Body[e].status = "FAILED" /\ opener[u] = NoEvent
               THEN [opener EXCEPT ![u] = e] ELSE opener

Next == \E e \in Event : Accept(e)

Spec == Init /\ [][Next]_vars
=============================================================================

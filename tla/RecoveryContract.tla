-------------------------- MODULE RecoveryContract --------------------------
(***************************************************************************)
(* What a policy-gated recovery promises, without requests, sessions or    *)
(* failures: a plan is approved, then journalled in the database, then     *)
(* sent to the provider at most once, and only what was sent is judged.    *)
(***************************************************************************)
EXTENDS Naturals

CONSTANT Plan

VARIABLES
  approved,   \* plans an operator has approved
  journal,    \* plans whose dispatch intent is durable
  sent,       \* how often each plan was sent to the provider
  judged      \* plans with a verification verdict

vars == <<approved, journal, sent, judged>>

Init ==
  /\ approved = {} /\ journal = {} /\ judged = {}
  /\ sent = [p \in Plan |-> 0]

Approve(p) ==
  /\ approved' = approved \cup {p}
  /\ UNCHANGED <<journal, sent, judged>>

Journal(p) ==
  /\ p \in approved \ journal
  /\ journal' = journal \cup {p}
  /\ UNCHANGED <<approved, sent, judged>>

Send(p) ==
  /\ p \in journal
  /\ sent[p] = 0
  /\ sent' = [sent EXCEPT ![p] = 1]
  /\ UNCHANGED <<approved, journal, judged>>

Judge(p) ==
  /\ sent[p] = 1
  /\ judged' = judged \cup {p}
  /\ UNCHANGED <<approved, journal, sent>>

Next == \E p \in Plan : Approve(p) \/ Journal(p) \/ Send(p) \/ Judge(p)

Spec == Init /\ [][Next]_vars
=============================================================================

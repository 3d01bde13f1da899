------------------------ MODULE CredentialLifecycle ------------------------
(***************************************************************************)
(* What the control plane promises about the credentials it hands out:     *)
(* each is issued once, may be withdrawn at any time, and a withdrawal,    *)
(* above all one that somebody was told of, is final.                      *)
(***************************************************************************)
CONSTANT Credential

VARIABLES
  stage,         \* the stage of each credential
  acknowledged   \* those whose withdrawal was answered with success

vars == <<stage, acknowledged>>

Init == stage = [c \in Credential |-> "new"] /\ acknowledged = {}

Issue(c) ==
  /\ stage[c] = "new"
  /\ stage' = [stage EXCEPT ![c] = "usable"]
  /\ UNCHANGED acknowledged

(* The deletion of a project withdraws several credentials at once.        *)
Withdraw(gone) ==
  /\ \A c \in gone : stage[c] = "usable"
  /\ stage' = [c \in Credential |-> IF c \in gone THEN "withdrawn" ELSE stage[c]]

Acknowledge ==
  /\ acknowledged \subseteq acknowledged'
  /\ acknowledged' \subseteq {c \in Credential : stage'[c] = "withdrawn"}

Next ==
  \/ \E c \in Credential : Issue(c)
  \/ \E gone \in SUBSET Credential : Withdraw(gone) /\ Acknowledge

Spec == Init /\ [][Next]_vars
=============================================================================

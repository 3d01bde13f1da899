------------------------- MODULE MCWorkspaceMembers -------------------------
(* A small instance of WorkspaceMembers for TLC.                           *)
EXTENDS WorkspaceMembers, Naturals, TLC

CONSTANTS ann, bob, ann1, bob1, bob2

(* Two users; the second can be removed and added again.                   *)
Rows == {ann1, bob1, bob2}
Users == ann1 :> ann @@ bob1 :> bob @@ bob2 :> bob

(* Requests differ in nothing but their number, so it is enough to let     *)
(* them arrive in that order.                                              *)
ArrivalOrder ==
  \A r \in Request : pc[r] # "idle" => \A q \in 1..r : pc[q] # "idle"
=============================================================================

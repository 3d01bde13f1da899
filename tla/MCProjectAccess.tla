--------------------------- MODULE MCProjectAccess ---------------------------
(* A small instance of ProjectAccess for TLC.                              *)
EXTENDS ProjectAccess, Naturals, TLC

CONSTANTS shop, shop2, ci, ci2, deploy, web

(* A project that can be deleted and registered again, and three tokens of *)
(* the first registration, two of them of the same name.                   *)
References == shop :> "shop" @@ shop2 :> "shop"
Projects == ci :> shop @@ ci2 :> shop @@ deploy :> shop
Names == ci :> "ci" @@ ci2 :> "ci" @@ deploy :> "deploy"

(* Requests differ in nothing but their number, so it is enough to let     *)
(* them arrive in that order.                                              *)
ArrivalOrder ==
  \A r \in Request : pc[r] # "idle" => \A q \in 1..r : pc[q] # "idle"
=============================================================================

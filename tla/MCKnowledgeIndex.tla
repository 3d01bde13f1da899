-------------------------- MODULE MCKnowledgeIndex --------------------------
(* A small instance of KnowledgeIndex for TLC: two threads of one worker   *)
(* process, one of which only indexes.                                     *)
EXTENDS KnowledgeIndex

CONSTANT web

OneProcess == [r \in Request |-> web]
Arrivals == job[2].filter = {}
=============================================================================

--------------------------- MODULE HybridRetrieval ---------------------------
(***************************************************************************)
(* The arithmetic of hybrid retrieval: how many candidates a search asks   *)
(* for, how reciprocal rank fusion merges the two ranked lists, and how a  *)
(* text is shortened for the embedding model.                              *)
(*                                                                         *)
(* A hit names its document and carries what was read of it.  Scores are   *)
(* exact fractions, compared by cross-multiplication; the program adds     *)
(* floating-point quotients, which agrees wherever two scores differ by    *)
(* more than a rounding error.                                             *)
(***************************************************************************)
EXTENDS Integers, Sequences, SequencesExt

CONSTANT RankConstant   \* DEFAULT_RANK_CONSTANT

ASSUME RankConstantAssumption == RankConstant \in Nat \ {0}
-----------------------------------------------------------------------------
Larger(a, b) == IF a >= b THEN a ELSE b
Smaller(a, b) == IF a <= b THEN a ELSE b

CandidateLimit(topK) == Smaller(Larger(3 * topK, 10), 100)
-----------------------------------------------------------------------------
(* Reciprocal rank fusion.  A rank is the position in a list, 0 without.   *)

Docs(hits) == {hits[i].doc : i \in DOMAIN hits}
Rank(hits, d) ==
  IF d \in Docs(hits) THEN CHOOSE i \in DOMAIN hits : hits[i].doc = d ELSE 0

Above(p, q) == p.num * q.den > q.num * p.den
Plus(p, q) == [num |-> p.num * q.den + q.num * p.den, den |-> p.den * q.den]

Reciprocal(rank) ==
  IF rank = 0 THEN [num |-> 0, den |-> 1] ELSE [num |-> 1, den |-> RankConstant + rank]

Score(i, j) == Plus(Reciprocal(i), Reciprocal(j))
ScoreOf(keyword, vector, d) == Score(Rank(keyword, d), Rank(vector, d))

(* What a fused order owes to two pairs of ranks.                          *)
NoLower(i, j) == j = 0 \/ (i # 0 /\ i <= j)
Dominates(kd, vd, ke, ve) ==
  NoLower(kd, ke) /\ NoLower(vd, ve) /\ <<kd, vd>> # <<ke, ve>>
Agreed(i, j) == i \in 1..(RankConstant + 1) /\ j \in 1..(RankConstant + 1)

(* Entries are kept by document id: of a document found by both branches,  *)
(* what the keyword branch read.                                           *)
EveryHit(keyword, vector) == Range(keyword) \cup Range(vector)
Merged(keyword, vector) ==
  Range(keyword) \cup {h \in Range(vector) : h.doc \notin Docs(keyword)}

(* Best score first, equal scores in the order of the document ids.        *)
PrecedesAscending(p, d, q, e) == Above(q, p) \/ (~Above(p, q) /\ d < e)
Precedes(p, d, q, e) == Above(p, q) \/ (~Above(q, p) /\ d < e)

Before(keyword, vector, g, h) ==
  Precedes(ScoreOf(keyword, vector, g.doc), g.doc, ScoreOf(keyword, vector, h.doc), h.doc)

(* The merged entries, none behind one that it precedes.                   *)
InOrder(keyword, vector, order) ==
  \A i, j \in DOMAIN order : i < j => ~Before(keyword, vector, order[j], order[i])
Fuse(keyword, vector) ==
  CHOOSE order \in SetToSeqs(Merged(keyword, vector)) : InOrder(keyword, vector, order)

Best(topK, fused) == SubSeq(fused, 1, Smaller(topK, Len(fused)))
-----------------------------------------------------------------------------
(* The input of the embedding model: title and content, or as much of the  *)
(* content's beginning and end as the limit leaves room for.  A text is    *)
(* its length.  The slice from position -0 is the whole text.              *)

LastOf(n, content) == IF n = 0 THEN content ELSE Smaller(n, content)

EmbeddingInput(title, content, marker, limit) ==
  LET budget == limit - (title + 1)
      excerpt == budget - marker
      head == excerpt \div 2
  IN IF content <= budget THEN title + 1 + content
     ELSE title + 1 + Smaller(head, content) + marker
            + LastOf(excerpt - head, content)
=============================================================================

-------------------------- MODULE KnowledgeIndexProof --------------------------
(***************************************************************************)
(* Proofs about hybrid retrieval for any rank constant and ranks, and      *)
(* about the knowledge index for any documents and number of requests.     *)
(***************************************************************************)
EXTENDS KnowledgeIndex, ResourceSetupProof, FiniteSetTheorems

-----------------------------------------------------------------------------
(* Reciprocal rank fusion.                                                 *)

(* Products of naturals keep an order.                                     *)
LEMMA Monotone ==
  ASSUME NEW x \in Nat, NEW y \in Nat, NEW z \in Nat, x <= y
  PROVE  x * z <= y * z /\ (x < y /\ z > 0 => x * z < y * z)
  OBVIOUS

(* The sum of two fractions is above that of two smaller ones, when one of *)
(* them is smaller indeed.                                                 *)
Fraction == [num : Nat, den : Nat \ {0}]
AtLeast(p, q) == p.num * q.den >= q.num * p.den

(* Reciprocals are fractions.                                              *)
LEMMA ReciprocalIsFraction ==
  ASSUME NEW i \in Nat PROVE Reciprocal(i) \in Fraction
  BY RankConstantAssumption DEF Reciprocal, Fraction

(* Adding keeps the order of fractions.                                    *)
LEMMA SumKeepsOrder ==
  ASSUME NEW p \in Fraction, NEW q \in Fraction, NEW s \in Fraction, NEW t \in Fraction,
         AtLeast(p, s), AtLeast(q, t)
  PROVE  /\ AtLeast(Plus(p, q), Plus(s, t))
         /\ Above(p, s) \/ Above(q, t) => Above(Plus(p, q), Plus(s, t))
<1> DEFINE dh == q.den * t.den
           bf == p.den * s.den
           high1 == p.num * s.den   low1 == s.num * p.den
           high2 == q.num * t.den   low2 == t.num * q.den
<1>1. /\ p.num \in Nat /\ q.num \in Nat /\ s.num \in Nat /\ t.num \in Nat
      /\ p.den \in Nat \ {0} /\ q.den \in Nat \ {0}
      /\ s.den \in Nat \ {0} /\ t.den \in Nat \ {0}
  BY DEF Fraction
<1>2. dh \in Nat \ {0} /\ bf \in Nat \ {0}
  BY <1>1
<1>3. high1 \in Nat /\ low1 \in Nat /\ high2 \in Nat /\ low2 \in Nat
  BY <1>1
<1>4. /\ Plus(p, q).num * Plus(s, t).den = high1 * dh + high2 * bf
      /\ Plus(s, t).num * Plus(p, q).den = low1 * dh + low2 * bf
  BY <1>1 DEF Plus
<1>5. low1 <= high1 /\ low2 <= high2
  BY DEF AtLeast
<1>6. Above(p, s) => low1 < high1
  BY DEF Above
<1>7. Above(q, t) => low2 < high2
  BY DEF Above
<1> HIDE DEF dh, bf, high1, low1, high2, low2
<1>8. low1 * dh <= high1 * dh /\ (low1 < high1 => low1 * dh < high1 * dh)
  BY <1>2, <1>3, <1>5, Monotone
<1>9. low2 * bf <= high2 * bf /\ (low2 < high2 => low2 * bf < high2 * bf)
  BY <1>2, <1>3, <1>5, Monotone
<1>10. /\ low1 * dh \in Nat /\ high1 * dh \in Nat
       /\ low2 * bf \in Nat /\ high2 * bf \in Nat
  BY <1>2, <1>3
<1> QED
  BY <1>4, <1>6, <1>7, <1>8, <1>9, <1>10 DEF AtLeast, Above

(* A rank that is no lower counts at least as much, a higher one more.     *)
LEMMA ReciprocalOrder ==
  ASSUME NEW i \in Nat, NEW j \in Nat, NoLower(i, j)
  PROVE  /\ AtLeast(Reciprocal(i), Reciprocal(j))
         /\ i # j => Above(Reciprocal(i), Reciprocal(j))
  BY RankConstantAssumption DEF NoLower, AtLeast, Above, Reciprocal

(* A document that both branches rank no lower than another, and one of    *)
(* them higher, has the higher score, whatever the rank constant: no tie   *)
(* is left to the order of the ids (retrieval.py reciprocal_rank_fusion).  *)
THEOREM DominanceScoresHigher ==
  ASSUME NEW kd \in Nat, NEW vd \in Nat, NEW ke \in Nat, NEW ve \in Nat,
         Dominates(kd, vd, ke, ve)
  PROVE  Above(Score(kd, vd), Score(ke, ve))
<1>1. NoLower(kd, ke) /\ NoLower(vd, ve) /\ (kd # ke \/ vd # ve)
  BY DEF Dominates
<1>2. /\ AtLeast(Reciprocal(kd), Reciprocal(ke))
      /\ AtLeast(Reciprocal(vd), Reciprocal(ve))
      /\ Above(Reciprocal(kd), Reciprocal(ke)) \/ Above(Reciprocal(vd), Reciprocal(ve))
  BY <1>1, ReciprocalOrder
<1> QED
  BY <1>2, ReciprocalIsFraction, SumKeepsOrder DEF Score

(* A document that both branches rank within the rank constant of the top  *)
(* scores higher than any that a single branch found, even at its top      *)
(* (retrieval.py reciprocal_rank_fusion).                                  *)
THEOREM AgreementScoresHigher ==
  ASSUME NEW kd \in Nat, NEW vd \in Nat, Agreed(kd, vd),
         NEW i \in Nat
  PROVE  Above(Score(kd, vd), Score(i, 0)) /\ Above(Score(kd, vd), Score(0, i))
<1> DEFINE a == RankConstant + kd
           b == RankConstant + vd
           m == RankConstant + i
<1>1. /\ a \in Nat \ {0} /\ b \in Nat \ {0} /\ m \in Nat \ {0}
      /\ kd # 0 /\ vd # 0
      /\ i # 0 => a < 2 * m /\ b < 2 * m
  BY RankConstantAssumption DEF Agreed
<1>2. Score(kd, vd) = [num |-> a + b, den |-> a * b]
  <2>1. /\ Reciprocal(kd) = [num |-> 1, den |-> a]
        /\ Reciprocal(vd) = [num |-> 1, den |-> b]
    BY <1>1 DEF Reciprocal
  <2>2. Score(kd, vd) = [num |-> 1 * b + 1 * a, den |-> a * b]
    BY <2>1 DEF Score, Plus
  <2> QED
    BY <1>1, <2>2
<1>3. CASE i = 0
  <2>1. /\ Score(i, 0).num = 0 /\ Score(0, i).num = 0
        /\ Score(i, 0).den = 1 /\ Score(0, i).den = 1
    BY <1>3 DEF Score, Plus, Reciprocal
  <2> QED
    BY <1>1, <1>2, <2>1 DEF Above
<1>4. CASE i # 0
  <2>1. /\ Score(i, 0).num = 1 /\ Score(0, i).num = 1
        /\ Score(i, 0).den = m /\ Score(0, i).den = m
    BY <1>1, <1>4 DEF Score, Plus, Reciprocal
  <2>2. b * a < (2 * m) * a /\ a * b < (2 * m) * b
    BY <1>1, <1>4, Monotone
  <2> HIDE DEF a, b, m
  <2>3. (a + b) * m > 1 * (a * b)
    BY <1>1, <2>2
  <2> QED
    BY <1>2, <2>1, <2>3 DEF Above
<1> QED
  BY <1>3, <1>4

(* It does so no further down: a document that both branches rank two      *)
(* places below the rank constant only ties with the top of one branch,    *)
(* and the order of the ids decides (retrieval.py reciprocal_rank_fusion). *)
THEOREM AgreementIsTight ==
  LET k == RankConstant + 2
  IN ~Above(Score(k, k), Score(1, 0)) /\ ~Above(Score(1, 0), Score(k, k))
<1> DEFINE k == RankConstant + 2
           a == RankConstant + k
           b == RankConstant + 1
<1>1. a \in Nat \ {0} /\ b \in Nat \ {0} /\ a = 2 * b /\ k # 0
  BY RankConstantAssumption
<1>2. /\ Reciprocal(k) = [num |-> 1, den |-> a]
      /\ Reciprocal(1) = [num |-> 1, den |-> b]
      /\ Reciprocal(0) = [num |-> 0, den |-> 1]
  BY <1>1 DEF Reciprocal
<1> HIDE DEF k, a, b
<1>3. /\ Score(k, k).num = a + a /\ Score(k, k).den = a * a
      /\ Score(1, 0).num = 1 /\ Score(1, 0).den = b
  BY <1>1, <1>2 DEF Score, Plus
<1>4. (a + a) * b = a * a
  BY <1>1
<1> QED
  BY <1>1, <1>3, <1>4 DEF Above, k
-----------------------------------------------------------------------------
(* The fused order.                                                        *)

(* The order of fractions is total.                                        *)
LEMMA FractionOrder ==
  ASSUME NEW p \in Fraction, NEW q \in Fraction
  PROVE  /\ AtLeast(p, q) <=> ~Above(q, p)
         /\ Above(p, q) => AtLeast(p, q)
         /\ AtLeast(p, p)
<1>1. p.num * q.den \in Nat /\ q.num * p.den \in Nat /\ p.num * p.den \in Nat
  BY DEF Fraction
<1> QED
  BY <1>1 DEF AtLeast, Above

(* It is transitive, and strict where one of the two comparisons is.       *)
LEMMA FractionTransitive ==
  ASSUME NEW p \in Fraction, NEW q \in Fraction, NEW s \in Fraction,
         AtLeast(p, q), AtLeast(q, s)
  PROVE  /\ AtLeast(p, s)
         /\ Above(p, q) \/ Above(q, s) => Above(p, s)
<1> DEFINE pq == p.num * q.den   qp == q.num * p.den
           qs == q.num * s.den   sq == s.num * q.den
           ps == p.num * s.den   sp == s.num * p.den
<1>1. /\ p.num \in Nat /\ q.num \in Nat /\ s.num \in Nat
      /\ p.den \in Nat \ {0} /\ q.den \in Nat \ {0} /\ s.den \in Nat \ {0}
  BY DEF Fraction
<1>2. /\ pq \in Nat /\ qp \in Nat /\ qs \in Nat /\ sq \in Nat /\ ps \in Nat /\ sp \in Nat
  BY <1>1
<1>3. ps * q.den = pq * s.den /\ qp * s.den = qs * p.den /\ sq * p.den = sp * q.den
  BY <1>1
<1>4. qp <= pq /\ sq <= qs
  BY DEF AtLeast
<1>5. (Above(p, q) => qp < pq) /\ (Above(q, s) => sq < qs)
  BY DEF Above
<1>6. (ps >= sp => AtLeast(p, s)) /\ (ps > sp => Above(p, s))
  BY DEF AtLeast, Above
<1> HIDE DEF pq, qp, qs, sq, ps, sp
<1>7. qp * s.den <= pq * s.den /\ (qp < pq => qp * s.den < pq * s.den)
  BY <1>1, <1>2, <1>4, Monotone
<1>8. sq * p.den <= qs * p.den /\ (sq < qs => sq * p.den < qs * p.den)
  BY <1>1, <1>2, <1>4, Monotone
<1>9. /\ ps < sp => ps * q.den < sp * q.den
      /\ ps <= sp => ps * q.den <= sp * q.den
  BY <1>1, <1>2, Monotone
<1>10. /\ ps * q.den \in Nat /\ sp * q.den \in Nat
       /\ qp * s.den \in Nat /\ pq * s.den \in Nat
       /\ sq * p.den \in Nat /\ qs * p.den \in Nat
  BY <1>1, <1>2
<1>11. sp * q.den <= ps * q.den /\ (qp < pq \/ sq < qs => sp * q.den < ps * q.den)
  BY <1>3, <1>7, <1>8, <1>10
<1>12. sp <= ps /\ (qp < pq \/ sq < qs => sp < ps)
  BY <1>2, <1>9, <1>10, <1>11
<1> QED
  BY <1>2, <1>5, <1>6, <1>12

(* Higher score first, equal scores in the order of the ids: of different  *)
(* documents one precedes the other, and precedence is a strict order.     *)
LEMMA PrecedesTotal ==
  ASSUME NEW p \in Fraction, NEW q \in Fraction, NEW d \in Nat, NEW e \in Nat
  PROVE  /\ ~Precedes(p, d, p, d)
         /\ d # e => Precedes(p, d, q, e) \/ Precedes(q, e, p, d)
         /\ Above(p, q) => Precedes(p, d, q, e)
  BY FractionOrder DEF Precedes

LEMMA PrecedesTransitive ==
  ASSUME NEW p \in Fraction, NEW q \in Fraction, NEW s \in Fraction,
         NEW d \in Nat, NEW e \in Nat, NEW f \in Nat,
         Precedes(p, d, q, e), Precedes(q, e, s, f)
  PROVE  Precedes(p, d, s, f)
<1>1. /\ AtLeast(p, q) /\ AtLeast(q, s)
      /\ Above(p, q) \/ d < e
      /\ Above(q, s) \/ e < f
  BY FractionOrder DEF Precedes
<1>2. AtLeast(p, s) /\ (Above(p, q) \/ Above(q, s) => Above(p, s))
  BY <1>1, FractionTransitive
<1>3. ~Above(s, p) /\ (d < e /\ e < f => d < f)
  BY <1>2, FractionOrder
<1> QED
  BY <1>1, <1>2, <1>3 DEF Precedes

(* What a branch returns: hits of different documents.                     *)
Reading == [doc : Doc, number : Nat]
Ranking ==
  {hits \in Seq(Reading) : \A i, j \in DOMAIN hits : hits[i].doc = hits[j].doc => i = j}

(* A rank is a position or 0, and 0 only of a document that was not found. *)
LEMMA RankOfHit ==
  ASSUME NEW hits \in Ranking, NEW d
  PROVE  Rank(hits, d) \in Nat /\ (Rank(hits, d) # 0 <=> d \in Docs(hits))
<1>1. DOMAIN hits = 1..Len(hits) /\ Len(hits) \in Nat
  BY DEF Ranking
<1>2. CASE d \in Docs(hits)
  <2>1. \E i \in DOMAIN hits : hits[i].doc = d
    BY <1>2 DEF Docs
  <2>2. Rank(hits, d) \in DOMAIN hits
    BY <1>2, <2>1 DEF Rank
  <2> QED
    BY <1>1, <1>2, <2>2
<1>3. CASE d \notin Docs(hits)
  BY <1>3 DEF Rank
<1> QED
  BY <1>2, <1>3

(* Scores are fractions.                                                   *)
LEMMA ScoreIsFraction ==
  ASSUME NEW i \in Nat, NEW j \in Nat PROVE Score(i, j) \in Fraction
<1>1. ASSUME NEW p \in Fraction, NEW q \in Fraction PROVE Plus(p, q) \in Fraction
  <2>1. p.num \in Nat /\ q.num \in Nat /\ p.den \in Nat \ {0} /\ q.den \in Nat \ {0}
    BY DEF Fraction
  <2>2. p.num * q.den + q.num * p.den \in Nat /\ p.den * q.den \in Nat \ {0}
    BY <2>1
  <2> QED
    BY <2>2 DEF Plus, Fraction
<1> QED
  BY <1>1, ReciprocalIsFraction DEF Score

LEMMA ScoreOfIsFraction ==
  ASSUME NEW kw \in Ranking, NEW vec \in Ranking, NEW d
  PROVE  ScoreOf(kw, vec, d) \in Fraction
  BY RankOfHit, ScoreIsFraction DEF ScoreOf

(* Merging finds each document once, and every document of either branch.  *)
LEMMA MergedOnce ==
  ASSUME NEW kw \in Ranking, NEW vec \in Ranking
  PROVE  /\ \A h \in Merged(kw, vec) : h.doc \in Doc /\ h.doc \in Nat
         /\ \A g, h \in Merged(kw, vec) : g.doc = h.doc => g = h
         /\ \A d : d \in Docs(kw) \cup Docs(vec) <=> \E h \in Merged(kw, vec) : h.doc = d
<1>1. /\ DOMAIN kw = 1..Len(kw) /\ \A i \in DOMAIN kw : kw[i] \in Reading
      /\ DOMAIN vec = 1..Len(vec) /\ \A i \in DOMAIN vec : vec[i] \in Reading
  BY DEF Ranking
<1>2. /\ \A i, j \in DOMAIN kw : kw[i].doc = kw[j].doc => i = j
      /\ \A i, j \in DOMAIN vec : vec[i].doc = vec[j].doc => i = j
  BY DEF Ranking
<1>3. \A h : /\ h \in Range(kw) <=> \E i \in DOMAIN kw : h = kw[i]
             /\ h \in Range(vec) <=> \E i \in DOMAIN vec : h = vec[i]
  BY DEF Range
<1>4. \A d : /\ d \in Docs(kw) <=> \E h \in Range(kw) : h.doc = d
             /\ d \in Docs(vec) <=> \E h \in Range(vec) : h.doc = d
  BY <1>3 DEF Docs
<1>5. /\ \A g, h \in Range(kw) : g.doc = h.doc => g = h
      /\ \A g, h \in Range(vec) : g.doc = h.doc => g = h
  BY <1>2, <1>3
<1>6. \A h \in Merged(kw, vec) : h.doc \in Doc /\ h.doc \in Nat
  <2>1. Merged(kw, vec) \subseteq Reading
    BY <1>1, <1>3 DEF Merged
  <2> QED
    BY <2>1, DocAssumption DEF Reading
<1>7. \A g, h \in Merged(kw, vec) : g.doc = h.doc => g = h
  BY <1>4, <1>5 DEF Merged
<1>8. \A d : d \in Docs(kw) \cup Docs(vec) <=> \E h \in Merged(kw, vec) : h.doc = d
  BY <1>4 DEF Merged
<1> QED
  BY <1>6, <1>7, <1>8

(* It finds finitely many.                                                 *)
LEMMA MergedFinite ==
  ASSUME NEW kw \in Ranking, NEW vec \in Ranking
  PROVE  IsFiniteSet(Merged(kw, vec))
<1>1. ASSUME NEW hits \in Ranking PROVE IsFiniteSet(Range(hits))
  <2>1. DOMAIN hits = 1..Len(hits) /\ Len(hits) \in Nat
    BY DEF Ranking
  <2>2. IsFiniteSet(DOMAIN hits)
    BY <2>1, FS_Interval
  <2>3. hits \in Surjection(DOMAIN hits, Range(hits))
    BY DEF Ranking, Surjection, Range
  <2> QED
    BY <2>2, <2>3, FS_Surjection
<1>2. IsFiniteSet(Range(kw) \cup Range(vec))
  BY <1>1, FS_Union
<1>3. Merged(kw, vec) \in SUBSET (Range(kw) \cup Range(vec))
  BY DEF Merged
<1> QED
  BY <1>2, <1>3, FS_Subset

(* Before is a strict total order of the merged entries.                   *)
LEMMA BeforeTotal ==
  ASSUME NEW kw \in Ranking, NEW vec \in Ranking,
         NEW g \in Merged(kw, vec), NEW h \in Merged(kw, vec)
  PROVE  /\ ~Before(kw, vec, g, g)
         /\ g # h => Before(kw, vec, g, h) \/ Before(kw, vec, h, g)
<1>1. g.doc \in Nat /\ h.doc \in Nat /\ (g # h => g.doc # h.doc)
  BY MergedOnce
<1> QED
  BY <1>1, ScoreOfIsFraction, PrecedesTotal DEF Before

LEMMA BeforeTransitive ==
  ASSUME NEW kw \in Ranking, NEW vec \in Ranking, NEW f \in Merged(kw, vec),
         NEW g \in Merged(kw, vec), NEW h \in Merged(kw, vec),
         Before(kw, vec, f, g), Before(kw, vec, g, h)
  PROVE  Before(kw, vec, f, h)
<1>1. f.doc \in Nat /\ g.doc \in Nat /\ h.doc \in Nat
  BY MergedOnce
<1> QED
  BY <1>1, ScoreOfIsFraction, PrecedesTransitive DEF Before

(* So their entries can be put in order: each goes to the place that the   *)
(* number of entries before it leaves, and no two go to the same.          *)
LEMMA OrderExists ==
  ASSUME NEW kw \in Ranking, NEW vec \in Ranking
  PROVE  \E order \in SetToSeqs(Merged(kw, vec)) : InOrder(kw, vec, order)
<1> DEFINE M == Merged(kw, vec)
           n == Cardinality(M)
           Earlier(h) == {g \in M : Before(kw, vec, g, h)}
           place == [h \in M |-> Cardinality(Earlier(h)) + 1]
<1>1. IsFiniteSet(M) /\ n \in Nat
  BY MergedFinite, FS_CardinalityType
<1>2. ASSUME NEW h \in M
      PROVE  Cardinality(Earlier(h)) \in Nat /\ Cardinality(Earlier(h)) < n
  <2>1. Earlier(h) \in SUBSET M /\ h \notin Earlier(h)
    BY BeforeTotal
  <2>2. IsFiniteSet(Earlier(h)) /\ Cardinality(Earlier(h)) <= n /\ Cardinality(Earlier(h)) # n
    BY <1>1, <2>1, FS_Subset
  <2>3. Cardinality(Earlier(h)) \in Nat
    BY <2>2, FS_CardinalityType
  <2> QED
    BY <1>1, <2>2, <2>3
<1>3. ASSUME NEW g \in M, NEW h \in M, Before(kw, vec, g, h)
      PROVE  place[g] < place[h]
  <2>1. Earlier(g) \in SUBSET Earlier(h)
    BY <1>3, BeforeTransitive
  <2>2. g \in Earlier(h) /\ g \notin Earlier(g)
    BY <1>3, BeforeTotal
  <2>3. IsFiniteSet(Earlier(h))
    BY <1>1, FS_Subset, Earlier(h) \in SUBSET M
  <2>4. /\ Cardinality(Earlier(g)) <= Cardinality(Earlier(h))
        /\ Cardinality(Earlier(g)) # Cardinality(Earlier(h))
    BY <2>1, <2>2, <2>3, FS_Subset
  <2>5. Cardinality(Earlier(g)) \in Nat /\ Cardinality(Earlier(h)) \in Nat
    BY <1>2
  <2> HIDE DEF Earlier
  <2> QED
    BY <2>4, <2>5
<1>4. place \in [M -> 1..n]
  <2>1. \A h \in M : Cardinality(Earlier(h)) + 1 \in 1..n
    BY <1>1, <1>2
  <2> HIDE DEF Earlier
  <2> QED
    BY <2>1
<1> HIDE DEF place
<1>5. \A g, h \in M : place[g] = place[h] => g = h
  <2> SUFFICES ASSUME NEW g \in M, NEW h \in M, g # h PROVE place[g] # place[h]
    OBVIOUS
  <2>1. place[g] < place[h] \/ place[h] < place[g]
    BY <1>3, BeforeTotal
  <2>2. place[g] \in Nat /\ place[h] \in Nat
    BY <1>4
  <2> QED
    BY <2>1, <2>2
<1>6. place \in Injection(M, 1..n)
  BY <1>4, <1>5 DEF Injection, IsInjective
<1>7. IsFiniteSet(1..n) /\ Cardinality(1..n) = n
  BY <1>1, FS_Interval
<1>8. place \in Surjection(M, 1..n)
  <2>1. Cardinality(M) = Cardinality(1..n)
    BY <1>7
  <2> HIDE DEF M, n
  <2> QED
    BY <1>6, <1>7, <2>1, FS_Injection
<1>9. \A i \in 1..n : \E h \in M : place[h] = i
  BY <1>8 DEF Surjection
<1> DEFINE order == [i \in 1..n |-> CHOOSE h \in M : place[h] = i]
<1>10. \A i \in 1..n : order[i] \in M /\ place[order[i]] = i
  BY <1>9
<1>11. DOMAIN order = 1..n /\ order \in [1..n -> M]
  BY <1>10
<1> HIDE DEF order, M, n, Earlier
<1>12. order \in SetToSeqs(Merged(kw, vec))
  BY <1>10, <1>11 DEF SetToSeqs, M, n
<1>13. ASSUME NEW i \in DOMAIN order, NEW j \in DOMAIN order, i < j,
              Before(kw, vec, order[j], order[i])
       PROVE  FALSE
  <2>1. place[order[j]] < place[order[i]]
    BY <1>3, <1>10, <1>11, <1>13
  <2>2. j < i /\ i \in Nat /\ j \in Nat
    BY <1>1, <1>10, <1>11, <2>1
  <2> QED
    BY <1>13, <2>2
<1>14. InOrder(kw, vec, order)
  BY <1>13 DEF InOrder
<1> QED
  BY <1>12, <1>14

(* The fused list holds every merged entry once, those that score higher   *)
(* in front.                                                               *)
LEMMA FuseInOrder ==
  ASSUME NEW kw \in Ranking, NEW vec \in Ranking
  PROVE  LET fused == Fuse(kw, vec)
             M == Merged(kw, vec)
         IN  /\ Cardinality(M) \in Nat /\ fused \in [1..Cardinality(M) -> M]
             /\ \A i, j \in DOMAIN fused : i # j => fused[i] # fused[j]
             /\ \A h \in M : \E i \in DOMAIN fused : fused[i] = h
             /\ \A i, j \in DOMAIN fused :
                  Above(ScoreOf(kw, vec, fused[i].doc), ScoreOf(kw, vec, fused[j].doc)) => i < j
<1> DEFINE M == Merged(kw, vec)
           n == Cardinality(M)
           fused == Fuse(kw, vec)
<1>1. IsFiniteSet(M) /\ n \in Nat
  BY MergedFinite, FS_CardinalityType
<1>2. fused \in SetToSeqs(M) /\ InOrder(kw, vec, fused)
  BY OrderExists DEF Fuse
<1> HIDE DEF fused
<1>3. /\ fused \in [1..n -> M] /\ DOMAIN fused = 1..n
      /\ \A i, j \in 1..n : i # j => fused[i] # fused[j]
  BY <1>2 DEF SetToSeqs
<1>4. \A h \in M : \E i \in 1..n : fused[i] = h
  <2>1. fused \in Injection(1..n, M)
    BY <1>3 DEF Injection, IsInjective
  <2>2. IsFiniteSet(1..n) /\ Cardinality(1..n) = n
    BY <1>1, FS_Interval
  <2> HIDE DEF M
  <2>3. fused \in Surjection(1..n, M)
    BY <1>1, <2>1, <2>2, FS_Injection
  <2> QED
    BY <2>3 DEF Surjection
<1>5. ASSUME NEW i \in 1..n, NEW j \in 1..n,
             Above(ScoreOf(kw, vec, fused[i].doc), ScoreOf(kw, vec, fused[j].doc))
      PROVE  i < j
  <2> DEFINE p == ScoreOf(kw, vec, fused[i].doc)
             q == ScoreOf(kw, vec, fused[j].doc)
  <2>1. p \in Fraction /\ q \in Fraction /\ fused[i] \in M /\ fused[j] \in M
    BY <1>3, ScoreOfIsFraction
  <2>2. fused[i].doc \in Nat /\ fused[j].doc \in Nat
    BY <2>1, MergedOnce
  <2> HIDE DEF M
  <2>3. Before(kw, vec, fused[i], fused[j])
    <3> HIDE DEF p, q
    <3>1. Precedes(p, fused[i].doc, q, fused[j].doc)
      BY <1>5, <2>1, <2>2, PrecedesTotal DEF p, q
    <3> QED
      BY <3>1 DEF Before, p, q
  <2>4. ~(j < i)
    BY <1>2, <1>3, <2>3 DEF InOrder
  <2>5. i # j
    BY <2>1, <2>3, BeforeTotal DEF M
  <2> QED
    BY <1>1, <2>4, <2>5
<1> QED
  BY <1>1, <1>3, <1>4, <1>5 DEF fused

-----------------------------------------------------------------------------
(* The bounds of a search and of an embedding.                             *)

(* With the least number of candidates and up to the largest top_k of the  *)
(* interface, a search asks for no fewer candidates than it returns, and   *)
(* the cap of a hundred never bites (retrieval.py search).                 *)
THEOREM EnoughCandidates ==
  ASSUME NEW topK \in 1..25
  PROVE  CandidateLimit(topK) \in 10..75 /\ topK <= CandidateLimit(topK)
  BY DEF CandidateLimit, Smaller, Larger

(* The input of the embedding model keeps to its limit, whatever the       *)
(* lengths of title and content, as long as title and marker leave room    *)
(* for at least one more character; and what is shortened fills the limit  *)
(* (retrieval.py _bounded_embedding_input).                                *)
THEOREM EmbeddingInputFits ==
  ASSUME NEW title \in Nat, NEW content \in Nat, NEW marker \in Nat, NEW limit \in Nat,
         title + 1 + marker < limit
  PROVE  /\ EmbeddingInput(title, content, marker, limit) <= limit
         /\ title + 1 + content > limit =>
              EmbeddingInput(title, content, marker, limit) = limit
<1> DEFINE excerpt == limit - (title + 1) - marker
           head == excerpt \div 2
<1>1. excerpt \in Nat \ {0}
  OBVIOUS
<1>2. head \in Nat /\ head < excerpt
  BY <1>1
<1> HIDE DEF excerpt, head
<1>3. CASE content <= limit - (title + 1)
  BY <1>3 DEF EmbeddingInput
<1>4. CASE ~(content <= limit - (title + 1))
  <2>1. EmbeddingInput(title, content, marker, limit) =
          title + 1 + Smaller(head, content) + marker + LastOf(excerpt - head, content)
    BY <1>4 DEF EmbeddingInput, excerpt, head
  <2>0. excerpt <= content
    BY <1>4 DEF excerpt
  <2>2. Smaller(head, content) = head
    BY <1>1, <1>2, <2>0 DEF Smaller
  <2>3. LastOf(excerpt - head, content) = excerpt - head
    BY <1>1, <1>2, <2>0 DEF LastOf, Smaller
  <2> QED
    BY <1>1, <1>2, <2>1, <2>2, <2>3 DEF excerpt
<1> QED
  BY <1>3, <1>4
-----------------------------------------------------------------------------
(* The index.                                                              *)

USE DEF setup, SetupStep, Proceed, store, local, Using, InFlight

(* The initial states have the types.                                      *)
LEMMA TypeInit == Init => TypeOK
  BY CallsAssumption, BoundAssumption
  DEF Init, SetupInit, TypeOK, SetupTypeOK, Job, NoJob

(* No step leaves the types.                                               *)
LEMMA TypeStep == TypeOK /\ [Next]_vars => TypeOK'
<1> SUFFICES ASSUME TypeOK, [Next]_vars PROVE TypeOK'
  OBVIOUS
<1> USE DEF TypeOK
<1>0. /\ \A d \in Doc : Indexing(d) \in Job /\ Indexing(d).doc = d
      /\ \A f \in Filters \cup {{}} : Searching(f) \in Job
  BY DEF Job, Indexing, Searching
<1>1. ASSUME NEW r \in Request, NEW d \in Doc, ArriveToIndex(r, d) PROVE TypeOK'
  BY <1>0, <1>1 DEF ArriveToIndex, SetupTypeOK
<1>2. ASSUME NEW r \in Request, NEW f \in Filters, ArriveToSearch(r, f) PROVE TypeOK'
  BY <1>0, <1>2 DEF ArriveToSearch, SetupTypeOK
<1>3. ASSUME NEW r \in Request, Embed(r) PROVE TypeOK'
  BY <1>3 DEF Embed, SetupTypeOK
<1>4. ASSUME NEW r \in Request, EnsureResources(r) PROVE TypeOK'
  <2>1. SetupTypeOK'
    BY <1>4, SetupTypeStep DEF EnsureResources
  <2>2. /\ pc' \in [Request -> InFlight \cup {"idle", "done"}]
        /\ pc'[r] \in {"indexing", "refreshing"} => job[r].doc \in Doc
        /\ \A q \in Request \ {r} : pc'[q] = pc[q]
    BY <1>4 DEF EnsureResources, SetUp, Enter, TakeLock, Create, FailCreate, SetReady, Use
  <2> QED
    BY <1>4, <2>1, <2>2 DEF EnsureResources
<1>5. ASSUME NEW r \in Request, Upsert(r) PROVE TypeOK'
  <2>1. job[r].doc \in Doc
    BY <1>5 DEF Upsert
  <2>2. index[job[r].doc] + 1 \in Nat
    BY <2>1
  <2>4. index' \in [Doc -> Nat]
    BY <1>5, <2>2 DEF Upsert, Put
  <2>5. written' \in [Request -> Nat]
    BY <1>5, <2>2 DEF Upsert
  <2>3. /\ pc' \in [Request -> InFlight \cup {"idle", "done"}]
        /\ \A q \in Request : pc'[q] \in {"indexing", "refreshing"} => job'[q].doc \in Doc
    BY <1>5, <2>1 DEF Upsert
  <2> QED
    BY <1>5, <2>3, <2>4, <2>5 DEF Upsert, SetupTypeOK
<1>6. ASSUME NEW r \in Request, AnswerIndex(r) PROVE TypeOK'
  <2>1. told' \in [Doc -> Nat]
    BY <1>6 DEF AnswerIndex, Larger
  <2>2. written' \in [Request -> Nat]
    BY <1>6 DEF AnswerIndex, Close
  <2>4. tries' \in [Request -> 0..MaxRetries]
    BY <1>6, BoundAssumption DEF AnswerIndex, Close
  <2>3. /\ pc' \in [Request -> InFlight \cup {"idle", "done"}]
        /\ \A q \in Request : pc'[q] \in {"indexing", "refreshing"} => job'[q].doc \in Doc
    BY <1>6 DEF AnswerIndex, Close
  <2> QED
    BY <1>6, <2>1, <2>2, <2>3, <2>4 DEF AnswerIndex, SetupTypeOK
<1>7. ASSUME NEW r \in Request, Repeat(r) PROVE TypeOK'
  <2>1. stray' \subseteq Doc
    BY <1>7 DEF Repeat, Abandon
  <2>2. written' \in [Request -> Nat]
    BY <1>7 DEF Repeat
  <2>4. tries' \in [Request -> 0..MaxRetries]
    BY <1>7, BoundAssumption DEF Repeat, MayRepeat
  <2>3. /\ pc' \in [Request -> InFlight \cup {"idle", "done"}]
        /\ \A q \in Request : pc'[q] \in {"indexing", "refreshing"} => job'[q].doc \in Doc
    BY <1>7 DEF Repeat
  <2> QED
    BY <1>7, <2>1, <2>2, <2>3, <2>4 DEF Repeat, SetupTypeOK
<1>8. ASSUME NEW r \in Request, KeywordSearch(r) \/ VectorSearch(r) PROVE TypeOK'
  <2>1. /\ pc' \in [Request -> InFlight \cup {"idle", "done"}]
        /\ pc'[r] \notin {"indexing", "refreshing"}
        /\ \A q \in Request \ {r} : pc'[q] = pc[q]
    BY <1>8 DEF KeywordSearch, VectorSearch
  <2>2. UNCHANGED <<setup, store, job, written, tries, told>>
    BY <1>8 DEF KeywordSearch, VectorSearch
  <2> QED
    BY <2>1, <2>2 DEF SetupTypeOK
<1>9. ASSUME NEW r \in Request, Fail(r) PROVE TypeOK'
  <2>1. PICK step \in {"embedding"} \cup Using : Close(r, step)
    BY <1>9 DEF Fail
  <2>2. NoJob \in Job
    BY <1>0 DEF NoJob
  <2>3. stray' \subseteq Doc
    BY <1>9 DEF Fail, Abandon
  <2>4. written' \in [Request -> Nat]
    BY <2>1 DEF Close
  <2>7. tries' \in [Request -> 0..MaxRetries]
    BY <2>1, BoundAssumption DEF Close
  <2>5. job' \in [Request -> Job]
    BY <1>9, <2>2 DEF Fail
  <2>6. /\ pc' \in [Request -> InFlight \cup {"idle", "done"}]
        /\ pc'[r] = "done" /\ \A q \in Request \ {r} : UNCHANGED <<pc[q], job[q]>>
    BY <1>9, <2>1 DEF Fail, Close
  <2> QED
    BY <1>9, <2>3, <2>4, <2>5, <2>6, <2>7 DEF Fail, SetupTypeOK
<1>10. ASSUME NEW d \in Doc, WriteStray(d) PROVE TypeOK'
  <2>1. index' \in [Doc -> Nat]
    BY <1>10 DEF WriteStray, Put
  <2>2. stray' \subseteq Doc
    BY <1>10 DEF WriteStray
  <2> QED
    BY <1>10, <2>1, <2>2 DEF WriteStray, SetupTypeOK
<1>11. CASE Refresh
  BY <1>11 DEF Refresh, SetupTypeOK
<1>12. CASE UNCHANGED vars
  BY <1>12 DEF vars, SetupTypeOK
<1> QED
  BY <1>1, <1>2, <1>3, <1>4, <1>5, <1>6, <1>7, <1>8, <1>9, <1>10, <1>11, <1>12
  DEF Next, Serve

(* TypeOK holds throughout.                                                *)
THEOREM TypeCorrect == Spec => []TypeOK
  BY TypeInit, TypeStep, PTL DEF Spec

(* Searches never see more than the index holds, nor less than before.     *)
VisibilityInv == TypeOK /\ ToldIsVisible /\ \A d \in Doc : searchable[d] <= index[d]

(* What searches see never goes back, and only what they see is told.      *)
LEMMA VisibilityStep == VisibilityInv /\ [Next]_vars => VisibilityInv'
<1> SUFFICES ASSUME VisibilityInv, [Next]_vars
             PROVE  ToldIsVisible' /\ \A d \in Doc : searchable'[d] <= index'[d]
  BY TypeStep DEF VisibilityInv
<1> USE DEF VisibilityInv, ToldIsVisible
<1>0. /\ index \in [Doc -> Nat] /\ searchable \in [Doc -> Nat] /\ told \in [Doc -> Nat]
      /\ written \in [Request -> Nat]
  BY DEF TypeOK
<1>1. ASSUME NEW d, Put(d), UNCHANGED <<searchable, told>>
      PROVE  ToldIsVisible' /\ \A e \in Doc : searchable'[e] <= index'[e]
  BY <1>0, <1>1 DEF Put
<1>2. ASSUME NEW r \in Request, AnswerIndex(r)
      PROVE  ToldIsVisible' /\ \A e \in Doc : searchable'[e] <= index'[e]
  BY <1>0, <1>2 DEF AnswerIndex, Refreshed, Larger
<1>3. CASE Refresh
  BY <1>0, <1>3 DEF Refresh
<1>4. CASE UNCHANGED <<index, searchable, told>>
  BY <1>4
<1> QED
  BY <1>1, <1>2, <1>3, <1>4, Zenon
  DEF Next, Serve, vars, ArriveToIndex, ArriveToSearch, Embed, EnsureResources, Upsert,
      Repeat, KeywordSearch, VectorSearch, Fail, WriteStray

(* Who is told that a document is indexed can search it from then on       *)
(* (elasticsearch_knowledge.py upsert, refresh="wait_for").                *)
THEOREM ToldStaysVisible == Spec => []ToldIsVisible
<1>1. Init => VisibilityInv
  BY TypeInit DEF Init, VisibilityInv, ToldIsVisible
<1>2. VisibilityInv => ToldIsVisible
  BY DEF VisibilityInv
<1> QED
  BY <1>1, <1>2, VisibilityStep, PTL DEF Spec
-----------------------------------------------------------------------------
(* The answers of searches.                                                *)

(* What a branch returns of the documents that a filter lets through.      *)
Found(hits, f) == hits \in Ranking /\ Docs(hits) \subseteq f

(* A search that is between its branches holds what the first one found.   *)
BetweenBranches(r) ==
  pc[r] = "vector_search" => Found(keyword[r], job[r].filter)

(* An answer is what its two branches found, and no one else's.            *)
Answered(r) ==
  items[r] # <<>> =>
    /\ pc[r] = "done"
    /\ Found(keyword[r], job[r].filter) /\ Found(vector[r], job[r].filter)
    /\ items[r] = Best(TopK, Fuse(keyword[r], vector[r]))

SearchInv ==
  /\ TypeOK
  /\ DOMAIN keyword = Request /\ DOMAIN vector = Request /\ DOMAIN items = Request
  /\ \A r \in Request : BetweenBranches(r) /\ Answered(r)

(* Each branch finds documents that its filter lets through, each once.    *)
LEMMA RankingsAreFound ==
  ASSUME TypeOK, NEW f \in SUBSET Doc, NEW hits \in Rankings(f)
  PROVE  Found(hits, f)
<1>0. PICK some \in SUBSET Visible(f) :
        /\ IsFiniteSet(some)
        /\ \E order \in SetToSeqs(some) : hits = [i \in DOMAIN order |-> Hit(order[i])]
  BY DEF Rankings
<1>1. PICK order \in SetToSeqs(some) : hits = [i \in DOMAIN order |-> Hit(order[i])]
  BY <1>0
<1>2. Cardinality(some) \in Nat
  BY <1>0, FS_CardinalityType
<1>3. /\ DOMAIN order = 1..Cardinality(some)
      /\ \A i \in DOMAIN order : order[i] \in some
      /\ \A i, j \in DOMAIN order : order[i] = order[j] => i = j
  BY DEF SetToSeqs
<1>4. \A d \in some : d \in f /\ Hit(d) \in Reading /\ Hit(d).doc = d
  BY DEF Visible, Hit, Reading, TypeOK
<1>5. /\ DOMAIN hits = 1..Cardinality(some)
      /\ \A i \in DOMAIN hits : hits[i] \in Reading /\ hits[i].doc = order[i]
  BY <1>1, <1>3, <1>4
<1>6. hits \in Seq(Reading)
  <2>1. hits = [i \in 1..Cardinality(some) |-> hits[i]]
    BY <1>1, <1>3
  <2> QED
    BY <1>2, <1>5, <2>1
<1>7. \A i, j \in DOMAIN hits : hits[i].doc = hits[j].doc => i = j
  BY <1>3, <1>5
<1>8. Docs(hits) \subseteq f
  BY <1>3, <1>4, <1>5 DEF Docs
<1> QED
  BY <1>6, <1>7, <1>8 DEF Found, Ranking

(* The initial states satisfy the invariant.                               *)
LEMMA SearchInit == Init => SearchInv
  BY TypeInit DEF Init, SetupInit, SearchInv, BetweenBranches, Answered

(* What one request keeps of its search is not touched by a step of        *)
(* another, and holds when its own step leaves it alone.                   *)
LEMMA SearchKept ==
  ASSUME NEW r \in Request, BetweenBranches(r), Answered(r),
         UNCHANGED <<pc[r], job[r], keyword[r], vector[r], items[r]>>
  PROVE  BetweenBranches(r)' /\ Answered(r)'
  BY DEF BetweenBranches, Answered

(* No step loses it.                                                       *)
LEMMA SearchStep == SearchInv /\ [Next]_vars => SearchInv'
<1> SUFFICES ASSUME SearchInv, [Next]_vars PROVE SearchInv'
  OBVIOUS
<1> USE DEF SearchInv
<1>0. /\ TypeOK' /\ TypeOK
      /\ pc \in [Request -> InFlight \cup {"idle", "done"}]
      /\ DOMAIN pc = Request /\ DOMAIN job = Request
      /\ \A r \in Request : job[r].filter \in SUBSET Doc
  <2>1. ASSUME NEW j \in Job PROVE j.filter \in SUBSET Doc
    <3>1. CASE \E d \in Doc : j = Indexing(d)
      BY <3>1 DEF Indexing
    <3>2. CASE \E f \in Filters \cup {{}} : j = Searching(f)
      BY <3>2, DocAssumption DEF Searching
    <3> QED
      BY <3>1, <3>2 DEF Job
  <2> QED
    BY <2>1, TypeStep DEF TypeOK
<1>1. ASSUME NEW r \in Request, pc[r] # "done", pc[r] # "vector_search",
             pc'[r] # "vector_search", UNCHANGED <<vector, items>>,
             DOMAIN keyword' = Request,
             \A q \in Request \ {r} : UNCHANGED <<pc[q], job[q], keyword[q]>>
      PROVE  SearchInv'
  <2>1. \A q \in Request \ {r} : BetweenBranches(q)' /\ Answered(q)'
    BY <1>1, SearchKept
  <2>2. BetweenBranches(r)' /\ Answered(r)'
    BY <1>1 DEF BetweenBranches, Answered
  <2> QED
    BY <1>0, <1>1, <2>1, <2>2
<1>2. ASSUME NEW r \in Request, NEW j, Proceed(r, "idle", "embedding"),
             job' = [job EXCEPT ![r] = j], UNCHANGED <<keyword, vector, items>>
      PROVE  SearchInv'
  BY <1>0, <1>1, <1>2
<1>3. ASSUME NEW r \in Request, Embed(r) PROVE SearchInv'
  BY <1>0, <1>1, <1>3 DEF Embed
<1>4. ASSUME NEW r \in Request, EnsureResources(r) PROVE SearchInv'
  <2>1. /\ pc[r] # "done" /\ pc[r] # "vector_search" /\ pc'[r] # "vector_search"
        /\ \A q \in Request \ {r} : pc'[q] = pc[q]
    BY <1>0, <1>4
    DEF EnsureResources, SetUp, Enter, TakeLock, Create, FailCreate, SetReady, Use
  <2> QED
    BY <1>1, <1>4, <2>1 DEF EnsureResources
<1>5. ASSUME NEW r \in Request, Upsert(r) PROVE SearchInv'
  BY <1>0, <1>1, <1>5 DEF Upsert
<1>6. ASSUME NEW r \in Request, AnswerIndex(r) PROVE SearchInv'
  BY <1>0, <1>1, <1>6 DEF AnswerIndex, Close
<1>7. ASSUME NEW r \in Request, Repeat(r) PROVE SearchInv'
  BY <1>0, <1>1, <1>7 DEF Repeat
<1>8. ASSUME NEW r \in Request, KeywordSearch(r) PROVE SearchInv'
  <2>1. PICK hits \in Rankings(job[r].filter) : keyword' = [keyword EXCEPT ![r] = hits]
    BY <1>8 DEF KeywordSearch
  <2>2. Found(hits, job[r].filter)
    BY <1>0, <2>1, RankingsAreFound
  <2>3. /\ pc[r] = "keyword_search" /\ pc' = [pc EXCEPT ![r] = "vector_search"]
        /\ UNCHANGED <<job, vector, items>>
    BY <1>8 DEF KeywordSearch
  <2>4. \A q \in Request \ {r} : BetweenBranches(q)' /\ Answered(q)'
    BY <1>0, <2>1, <2>3, SearchKept
  <2>5. BetweenBranches(r)' /\ Answered(r)'
    BY <1>0, <2>1, <2>2, <2>3 DEF BetweenBranches, Answered, Found
  <2> QED
    BY <1>0, <2>1, <2>3, <2>4, <2>5
<1>9. ASSUME NEW r \in Request, VectorSearch(r) PROVE SearchInv'
  <2>1. PICK hits \in Rankings(job[r].filter) :
          /\ vector' = [vector EXCEPT ![r] = hits]
          /\ items' = [items EXCEPT ![r] = Best(TopK, Fuse(keyword[r], hits))]
    BY <1>9 DEF VectorSearch, Filtered
  <2>2. Found(hits, job[r].filter)
    BY <1>0, <2>1, RankingsAreFound
  <2>3. /\ pc[r] = "vector_search" /\ pc' = [pc EXCEPT ![r] = "done"]
        /\ UNCHANGED <<job, keyword>>
    BY <1>9 DEF VectorSearch
  <2>4. \A q \in Request \ {r} : BetweenBranches(q)' /\ Answered(q)'
    BY <1>0, <2>1, <2>3, SearchKept
  <2>5. Found(keyword[r], job[r].filter)
    BY <2>3 DEF BetweenBranches
  <2>6. BetweenBranches(r)' /\ Answered(r)'
    BY <1>0, <2>1, <2>2, <2>3, <2>5 DEF BetweenBranches, Answered, Found
  <2> QED
    BY <1>0, <2>1, <2>3, <2>4, <2>6
<1>10. ASSUME NEW r \in Request, Fail(r) PROVE SearchInv'
  <2>1. /\ pc[r] \in {"embedding"} \cup Using /\ pc' = [pc EXCEPT ![r] = "done"]
        /\ job' = [job EXCEPT ![r] = NoJob]
        /\ keyword' = [keyword EXCEPT ![r] = <<>>] /\ UNCHANGED <<vector, items>>
    BY <1>10 DEF Fail, Close
  <2>2. \A q \in Request \ {r} : BetweenBranches(q)' /\ Answered(q)'
    BY <1>0, <2>1, SearchKept
  <2>3. BetweenBranches(r)' /\ Answered(r)'
    BY <1>0, <2>1 DEF BetweenBranches, Answered
  <2> QED
    BY <1>0, <2>1, <2>2, <2>3
<1>11. CASE UNCHANGED <<pc, job, keyword, vector, items>>
  BY <1>0, <1>11, SearchKept
<1> QED
  BY <1>2, <1>3, <1>4, <1>5, <1>6, <1>7, <1>8, <1>9, <1>10, <1>11
  DEF Next, Serve, vars, ArriveToIndex, ArriveToSearch, WriteStray, Refresh

(* What an answer holds, place by place: the fused entries from the first. *)
LEMMA AnswerIsFused ==
  ASSUME SearchInv, NEW r \in Request, NEW j \in DOMAIN items[r]
  PROVE  LET fused == Fuse(keyword[r], vector[r])
         IN  /\ keyword[r] \in Ranking /\ vector[r] \in Ranking
             /\ Docs(keyword[r]) \cup Docs(vector[r]) \subseteq job[r].filter
             /\ DOMAIN items[r] \subseteq DOMAIN fused
             /\ \A k \in DOMAIN items[r] : items[r][k] = fused[k]
             /\ j \in Nat /\ 1..j \subseteq DOMAIN items[r]
<1> DEFINE fused == Fuse(keyword[r], vector[r])
           n == Cardinality(Merged(keyword[r], vector[r]))
           m == Smaller(TopK, Len(fused))
<1>1. items[r] # <<>>
  OBVIOUS
<1>2. /\ keyword[r] \in Ranking /\ vector[r] \in Ranking
      /\ Docs(keyword[r]) \cup Docs(vector[r]) \subseteq job[r].filter
      /\ items[r] = Best(TopK, fused)
  BY <1>1 DEF SearchInv, Answered, Found
<1>3. n \in Nat /\ fused \in [1..n -> Merged(keyword[r], vector[r])]
  BY <1>2, FuseInOrder
<1> HIDE DEF fused, n
<1>4. fused \in Seq(Merged(keyword[r], vector[r])) /\ Len(fused) = n /\ DOMAIN fused = 1..n
  BY <1>3
<1>5. m \in 0..n
  BY <1>3, <1>4, BoundAssumption DEF Smaller
<1>6. items[r] = SubSeq(fused, 1, m)
  BY <1>2 DEF Best
<1> HIDE DEF m
<1>7. DOMAIN items[r] = 1..m /\ \A k \in 1..m : items[r][k] = fused[k]
  BY <1>3, <1>4, <1>5, <1>6
<1> QED
  BY <1>2, <1>3, <1>4, <1>5, <1>7 DEF fused

(* An answer holds each document once, although the document may have been *)
(* written between the two branches, and only what the filter lets through *)
(* (retrieval.py search, reciprocal_rank_fusion).                          *)
THEOREM ItemsOnceAndFiltered == Spec => []ItemsOfTheFilter
<1>1. SearchInv => ItemsOfTheFilter
  <2> SUFFICES ASSUME SearchInv, NEW r \in Request,
                      NEW i \in DOMAIN items[r], NEW j \in DOMAIN items[r]
               PROVE  /\ items[r][i].doc \in job[r].filter
                      /\ items[r][i].doc = items[r][j].doc => i = j
    BY DEF ItemsOfTheFilter
  <2> DEFINE fused == Fuse(keyword[r], vector[r])
             M == Merged(keyword[r], vector[r])
  <2>1. /\ keyword[r] \in Ranking /\ vector[r] \in Ranking
        /\ Docs(keyword[r]) \cup Docs(vector[r]) \subseteq job[r].filter
        /\ i \in DOMAIN fused /\ j \in DOMAIN fused
        /\ items[r][i] = fused[i] /\ items[r][j] = fused[j]
    BY AnswerIsFused
  <2>2. /\ fused \in [1..Cardinality(M) -> M]
        /\ i # j => fused[i] # fused[j]
    BY <2>1, FuseInOrder
  <2> HIDE DEF fused
  <2>3. fused[i] \in M /\ fused[j] \in M
    BY <2>1, <2>2
  <2>4. /\ fused[i].doc \in Docs(keyword[r]) \cup Docs(vector[r])
        /\ fused[i].doc = fused[j].doc => fused[i] = fused[j]
    BY <2>1, <2>3, MergedOnce
  <2> QED
    BY <2>1, <2>2, <2>4
<1> QED
  BY <1>1, SearchInit, SearchStep, PTL DEF Spec

(* No answer has a document in front of one that both branches put higher, *)
(* or that the two agree on near the top (retrieval.py search,             *)
(* reciprocal_rank_fusion).                                                *)
THEOREM ClearerComesFirst == Spec => []ClearerFirst
<1>1. SearchInv => ClearerFirst
  <2> SUFFICES ASSUME SearchInv, NEW r \in Request, NEW j \in DOMAIN items[r],
                      NEW d \in Docs(keyword[r]) \cup Docs(vector[r]),
                      Clearer(r, d, items[r][j].doc)
               PROVE  \E i \in 1..(j - 1) : items[r][i].doc = d
    BY DEF ClearerFirst
  <2> DEFINE fused == Fuse(keyword[r], vector[r])
             M == Merged(keyword[r], vector[r])
             e == items[r][j].doc
  <2>1. /\ keyword[r] \in Ranking /\ vector[r] \in Ranking
        /\ j \in DOMAIN fused /\ j \in Nat /\ 1..j \subseteq DOMAIN items[r]
        /\ \A k \in DOMAIN items[r] : items[r][k] = fused[k]
    BY AnswerIsFused
  <2>2. PICK h \in M : h.doc = d
    BY <2>1, MergedOnce
  <2>3. PICK i \in DOMAIN fused : fused[i] = h
    BY <2>1, FuseInOrder
  <2>4. Above(ScoreOf(keyword[r], vector[r], d), ScoreOf(keyword[r], vector[r], e))
    <3> DEFINE kd == Rank(keyword[r], d)  vd == Rank(vector[r], d)
               ke == Rank(keyword[r], e)  ve == Rank(vector[r], e)
    <3>1. kd \in Nat /\ vd \in Nat /\ ke \in Nat /\ ve \in Nat
      BY <2>1, RankOfHit
    <3>2. Dominates(kd, vd, ke, ve) \/ (Agreed(kd, vd) /\ (ke = 0 \/ ve = 0))
      BY DEF Clearer
    <3> HIDE DEF kd, vd, ke, ve
    <3>3. Above(Score(kd, vd), Score(ke, ve))
      BY <3>1, <3>2, DominanceScoresHigher, AgreementScoresHigher
    <3> QED
      BY <3>3 DEF ScoreOf, kd, vd, ke, ve
  <2>5. i < j
    <3>1. fused[i].doc = d /\ fused[j].doc = e
      BY <2>1, <2>2, <2>3
    <3> QED
      BY <2>1, <2>3, <2>4, <3>1, FuseInOrder
  <2>6. Cardinality(M) \in Nat /\ DOMAIN fused = 1..Cardinality(M)
    BY <2>1, FuseInOrder
  <2> HIDE DEF fused, M
  <2>7. i \in 1..(j - 1) /\ i \in DOMAIN items[r]
    BY <2>1, <2>3, <2>5, <2>6
  <2> QED
    BY <2>1, <2>2, <2>3, <2>7
<1> QED
  BY <1>1, SearchInit, SearchStep, PTL DEF Spec
=============================================================================

---------------------------- MODULE MCDocReview -----------------------------
(* The instances of DocReview that TLC checks: two reviewers, who are        *)
(* interchangeable.                                                          *)
EXTENDS DocReview, TLC
CONSTANTS r1, r2
People == Permutations(Reviewers)

\* Those who are or were on the roster, or owe or gave a decision.
Involved == roster \cup {r \in Reviewers : \E v \in Versions : Has(r, v)}
\* The bound of the run: two reviewers who may decide at once, at two versions
\* without a review or at one with it; or one reviewer and the unlaned row,
\* deciding in turn, with a review over two versions or without one over three,
\* nothing being asked of the first.
Bounded == \/ /\ doc.version <= (IF review.n = 0 THEN 2 ELSE 1)
              /\ \A v \in Versions : ~Has(Unlaned, v)
           \/ /\ Cardinality(Involved) <= 1 /\ Cardinality(dec) <= 1
              /\ doc.version <= 2 \/ (review.n = 0 /\ \A l \in Lanes : ~Has(l, 1))
=============================================================================

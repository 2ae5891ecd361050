---------------------------- MODULE MCRVQTraining ----------------------------
(***************************************************************************)
(* Small instances of RVQTraining.  Vectors are the integers 0 .. M-1.     *)
(* Cluster mass halves and grows by the count, and is cut off at the       *)
(* threshold, above which a code is alive whatever its mass.               *)
(***************************************************************************)
EXTENDS RVQTraining, FiniteSetsExt

CONSTANT M        \* number of vectors

MCVec == 0 .. (M - 1)

MCMass == 0 .. Threshold

Count(pop) == MapThenSumSet(LAMBDA r : Cardinality(pop[r]), Ranks)
Total(pop) == MapThenSumSet(LAMBDA r : SumSet(pop[r]), Ranks)

MCEmaMass(m, pop) == Min({Threshold, (m \div 2) + Count(pop)})

MCEmaVec(v, pop) == IF Count(pop) = 0 THEN v ELSE (v + Total(pop)) % M

Distance(a, b) == IF a < b THEN b - a ELSE a - b

MCNearest(t, book) ==
  CHOOSE k \in Codes :
    \A j \in Codes :
      \/ Distance(t, book[k].vec) < Distance(t, book[j].vec)
      \/ Distance(t, book[k].vec) = Distance(t, book[j].vec) /\ k <= j

MCResidual(t, v) == (t + M - v) % M

(* Every rank draws its own random codebooks: all stages alike, mass zero. *)
MCInitBooks ==
  {[q \in Stages |-> [k \in Codes |-> [mass |-> 0, vec |-> v[k]]]] :
     v \in {[k \in Codes |-> 0], [k \in Codes |-> k % M]}}
=============================================================================

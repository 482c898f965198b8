----------------------------- MODULE MCRegistry -----------------------------
(* Instances of Registry for TLC. *)
EXTENDS Registry, TLC
CONSTANTS w1, w2, la, lb, lc, s1

OneWorker == {w1}
TwoWorkers == {w1, w2}
MCLabels == {la, lb}
ThreeLabels == {la, lb, lc}
MCSessions == {s1}
Symmetry == Permutations(TwoWorkers) \cup Permutations(ThreeLabels)
=============================================================================

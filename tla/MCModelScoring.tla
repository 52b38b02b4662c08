--------------------------- MODULE MCModelScoring ---------------------------
(* TLC instance of ModelScoring: slots and workers are interchangeable. *)
EXTENDS ModelScoring, TLC

CONSTANTS q1, q2, q3, w1, w2

MCSlot == {q1, q2, q3}
MCWorker == {w1, w2}
MCSymmetry == Permutations(MCSlot) \cup Permutations(MCWorker)
=============================================================================

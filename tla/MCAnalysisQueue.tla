-------------------------- MODULE MCAnalysisQueue --------------------------
(* Instances of AnalysisQueue: t1 is newer than t2, both detectors or one.  *)
EXTENDS AnalysisQueue

CONSTANTS t1, t2

MCRank == [t \in Track |-> IF t = t1 THEN 1 ELSE 2]

=============================================================================

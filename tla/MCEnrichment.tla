---- MODULE MCEnrichment ----
(* Small instances of Enrichment. *)
EXTENDS Enrichment, TLC

MCSymmetry == Permutations(Label) \cup Permutations(Run) \cup Permutations(Caller)
              \cup Permutations(Worker)
====

----------------------------- MODULE MCCurationTx -----------------------------
(* Small instances of CurationTx.                                          *)
EXTENDS CurationTx, TLC

CONSTANTS p1, p2, t1, b1, b2, c1, c2, New, techno, house

\* Both blocks are of one style and see every track; the second category is of
\* another style, so the style guards have something to refuse.
MCBlockStyle == [b \in Block |-> techno]
MCCategoryStyle == [c \in Category |-> IF c = c1 THEN techno ELSE house]
MCWindow == [b \in Block |-> Track]
MCSorted == [b \in Block |-> [t \in Track |-> New]]

\* The blocks are of one style and window.
BlockSymmetry == Permutations(Block)

=============================================================================

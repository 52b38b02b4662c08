------------------------- MODULE MCPlaylistPublish -------------------------
(* Instances of PlaylistPublish for TLC. *)
EXTENDS PlaylistPublish, TLC

CONSTANTS a, b, c, p, q, n1, n2, k1

MCTrack == {a, b, c}
MCPlayable == {a, b}
MCClient == {p, q}
MCName == {n1, n2}
MCCover == {k1}
MCTarget == 1..3

MCSymmetry == Permutations(MCPlayable) \cup Permutations(MCClient) \cup Permutations(MCName)

=============================================================================

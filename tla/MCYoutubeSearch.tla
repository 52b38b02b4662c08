--------------------------- MODULE MCYoutubeSearch ---------------------------
EXTENDS YoutubeSearch, TLC

CONSTANTS t1, t2

MCRank == (t1 :> 1) @@ (t2 :> 2)

=============================================================================

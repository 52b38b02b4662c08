------------------------- MODULE MCCanonicalCatalog -------------------------
(* Instances of CanonicalCatalog for TLC: 1 and 2 were merged into one track, 3 is
   a track of its own that is new. *)
EXTENDS CanonicalCatalog, TLC

CONSTANTS a, b, f, r1, r2, k1, k2, u, w

MCTrack == {1, 2, 3}
MCBeatportId == MCTrack
MCLegacyRow == [x \in MCBeatportId |-> IF x \in {1, 2} THEN 1 ELSE 0]

\* 2 comes to have a value, and that of 3 goes.
MCContent ==
    <<[x \in MCBeatportId |-> f :> IF x = 2 THEN Null ELSE a],
      [x \in MCBeatportId |-> f :> IF x = 3 THEN Null ELSE b]>>

MCField == {f}
MCValue == {a, b}
MCVersion == 1..2
MCRun == {r1, r2}
MCWorker == {u, w}

\* Two runs of one week, of two chunks.
MCKey == {k1}
MCKeyOf == r1 :> k1 @@ r2 :> k1
MCChunk == {<<3>>, <<1, 2>>}
MCListing == k1 :> <<<<3>>, <<1, 2>>>>

\* A run of each of two weeks, which list an id each of the merged track.
MCWeeksKey == {k1, k2}
MCWeeksKeyOf == r1 :> k1 @@ r2 :> k2
MCWeeksChunk == {<<1>>, <<2>>}
MCWeeksListing == k1 :> <<<<1>>>> @@ k2 :> <<<<2>>>>

\* The runs of a week are alike: let r1 be the one that fetches first.  The listing changes
\* once it has.
MCOrder == ingest[r2].at # "none" \/ beatport = 2 => ingest[r1].at # "none"

=============================================================================

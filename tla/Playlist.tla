------------------------------ MODULE Playlist ------------------------------
(***************************************************************************)
(* One playlist of a user and the edits of its tracks                      *)
(* (src/src/collector/curation/playlists_repository.py).  Requests overlap *)
(* statement by statement at READ COMMITTED: every read of a transaction   *)
(* is a step, its writes are the step of its commit, where the database    *)
(* checks the primary key and the deferred UNIQUE(playlist_id, position).  *)
(*                                                                         *)
(* Two vendors can hold a copy, each with a playlist id and a drift flag   *)
(* of its own in the row; one of them is followed.                         *)
(***************************************************************************)
EXTENDS Integers, Sequences, FiniteSets, SequencesExt

CONSTANTS
    Track,
    Client,
    Name, Cover,    \* what PATCH changes, and the keys of the uploaded covers
    NoCover,
    MaxTracks,      \* MAX_TRACKS_PER_PLAYLIST
    Target,         \* ids of playlists of the vendor, from 1
    MaxRequests     \* bounds the edit requests of a behaviour

ASSUME PlaylistAssumption ==
    /\ NoCover \notin Cover
    /\ MaxTracks \in Nat
    /\ Target \subseteq Nat \ {0}
    /\ MaxRequests \in Nat
    /\ IsFiniteSet(Track)

VARIABLES
    vendor,     \* the vendor followed, "spotify" or "ytmusic"
    rows, pos,  \* playlist_tracks: the tracks and their position (0 when absent)
    name, cover,
    target,     \* spotify_playlist_id / ytmusic_playlist_id, 0 for NULL
    dirty,      \* needs_republish / ytmusic_needs_republish
    req,        \* the edit request each client has in progress
    requests

listVars == <<rows, pos>>
metaVars == <<name, cover>>
publishVars == <<target, dirty>>
vars == <<vendor, listVars, metaVars, publishVars, req, requests>>

Idle == [op |-> "idle"]
Request ==
    {Idle}
    \cup [op : {"append"}, pc : {"max", "insert"}, ts : Seq(Track), n : Nat]
    \cup [op : {"remove"}, t : Track, n : Nat]
    \cup [op : {"reorder"}, ts : Seq(Track)]

TypeOK ==
    /\ vendor \in {"spotify", "ytmusic"}
    /\ rows \in SUBSET Track
    /\ pos \in [Track -> Nat]
    /\ name \in Name
    /\ cover \in Cover \cup {NoCover}
    /\ target \in Target \cup {0}
    /\ dirty \in BOOLEAN
    /\ req \in [Client -> Request]
    /\ requests \in 0..MaxRequests

Distinct(r, q) == \A s, t \in r : q[s] = q[t] => s = t

\* A playlist that edits have made, published or not, without a cover yet.
Init ==
    /\ vendor \in {"spotify", "ytmusic"}
    /\ rows \in SUBSET Track
    /\ pos \in {q \in [Track -> 0..Cardinality(rows)] :
                  /\ Distinct(rows, q)
                  /\ \A t \in rows : q[t] < Cardinality(rows)
                  /\ \A t \in Track \ rows : q[t] = 0}
    /\ name \in Name
    /\ cover = NoCover
    /\ target \in Target \cup {0}
    /\ dirty = FALSE
    /\ req = [p \in Client |-> Idle]
    /\ requests = 0

-----------------------------------------------------------------------------
Begin(p, r) ==
    /\ req[p] = Idle
    /\ requests < MaxRequests
    /\ requests' = requests + 1
    /\ req' = [req EXCEPT ![p] = r]

\* set_cover, clear_cover and patch know one vendor only.
MarkSpotifyDirty == dirty' = (dirty \/ (vendor = "spotify" /\ target # 0))

\* _mark_dirty_if_published flags both vendors.
MarkDirty == dirty' = (dirty \/ target # 0)

\* Mutant: the UNIQUE constraint dropped.
CommitUnchecked(p, r, q) ==
    /\ rows' = r
    /\ pos' = q
    /\ MarkDirty
    /\ req' = [req EXCEPT ![p] = Idle]
    /\ UNCHANGED <<vendor, metaVars, target, requests>>

\* What leaves the transaction of p: the rows as long as the constraints hold.
Commit(p, r, q) ==
    /\ Distinct(r, q)
    /\ rows' = r
    /\ pos' = q
    /\ MarkDirty
    /\ req' = [req EXCEPT ![p] = Idle]
    /\ UNCHANGED <<vendor, metaVars, target, requests>>

-----------------------------------------------------------------------------
(* append_tracks.                                                          *)

\* ts: the tracks sent, without those the playlist holds.  The limit is checked here,
\* on the rows counted now.
AppendCheck(p, ts) ==
    /\ ts # <<>>
    /\ \A i \in DOMAIN ts : ts[i] \notin rows
    /\ Cardinality(rows) + Len(ts) <= MaxTracks
    /\ Begin(p, [op |-> "append", pc |-> "max", ts |-> ts, n |-> 0])
    /\ UNCHANGED <<vendor, listVars, metaVars, publishVars>>

\* SELECT COALESCE(MAX(position), -1) + 1.
AppendMax(p) ==
    /\ req[p].op = "append" /\ req[p].pc = "max"
    /\ \E n \in {0} \cup {pos[t] + 1 : t \in rows} :
          /\ \A t \in rows : pos[t] < n
          /\ req' = [req EXCEPT ![p] = [op |-> "append", pc |-> "insert",
                                        ts |-> req[p].ts, n |-> n]]
    /\ UNCHANGED <<vendor, listVars, metaVars, publishVars, requests>>

\* Position n + i - 1 for the i-th track that is new.
Appended(ts, n) ==
    [t \in Track |-> IF t \in rows THEN pos[t]
                     ELSE IF \E i \in DOMAIN ts : ts[i] = t
                     THEN n + (CHOOSE i \in DOMAIN ts : ts[i] = t) - 1
                     ELSE 0]

\* A track inserted meanwhile is a duplicate key.
AppendCommit(p) ==
    LET new == {req[p].ts[i] : i \in DOMAIN req[p].ts}
    IN  /\ req[p].op = "append" /\ req[p].pc = "insert"
        /\ new \cap rows = {}
        /\ Commit(p, rows \cup new, Appended(req[p].ts, req[p].n))

-----------------------------------------------------------------------------
(* remove_track.                                                           *)

RemoveRead(p, t) ==
    /\ t \in rows
    /\ Begin(p, [op |-> "remove", t |-> t, n |-> pos[t]])
    /\ UNCHANGED <<vendor, listVars, metaVars, publishVars>>

\* Mutant: no WHERE clause.
ClosedAll(r, n) == [s \in Track |-> IF s \in r THEN pos[s] - 1 ELSE 0]

\* position = position - 1 WHERE position > :pos.
Closed(r, n) ==
    [s \in Track |-> IF s \in r THEN IF pos[s] > n THEN pos[s] - 1 ELSE pos[s] ELSE 0]

RemoveCommit(p) ==
    LET left == rows \ {req[p].t}
    IN  /\ req[p].op = "remove"
        /\ Commit(p, left, Closed(left, req[p].n))

-----------------------------------------------------------------------------
(* reorder_tracks.                                                         *)

\* validate_reorder_set.
ReorderCheck(p, ts) ==
    /\ {ts[i] : i \in DOMAIN ts} = rows
    /\ Begin(p, [op |-> "reorder", ts |-> ts])
    /\ UNCHANGED <<vendor, listVars, metaVars, publishVars>>

\* Everything is shifted past the end, then the listed tracks are put in place.
Reordered(ts) ==
    [t \in Track |-> IF t \notin rows THEN 0
                     ELSE IF \E i \in DOMAIN ts : ts[i] = t
                     THEN (CHOOSE i \in DOMAIN ts : ts[i] = t) - 1
                     ELSE pos[t] + Len(ts) + 1]

ReorderCommit(p) ==
    /\ req[p].op = "reorder"
    /\ Commit(p, rows, Reordered(req[p].ts))

-----------------------------------------------------------------------------
\* A duplicate key, a Data API error, a Lambda that dies: the transaction is gone.
Abort(p) ==
    /\ req[p] # Idle
    /\ req' = [req EXCEPT ![p] = Idle]
    /\ UNCHANGED <<vendor, listVars, metaVars, publishVars, requests>>

\* One statement each.
Patch(n) ==
    /\ requests < MaxRequests
    /\ requests' = requests + 1
    /\ name' = n
    /\ MarkSpotifyDirty
    /\ UNCHANGED <<vendor, listVars, cover, target, req>>

SetCover(k) ==
    /\ requests < MaxRequests
    /\ requests' = requests + 1
    /\ cover' = k
    /\ MarkSpotifyDirty
    /\ UNCHANGED <<vendor, listVars, name, target, req>>

\* set_publish_state, set_ytmusic_publish_state, called by the publish services.
SetPublishState(id, failed) ==
    /\ target' = id
    /\ dirty' = (failed /\ vendor = "spotify")
    /\ UNCHANGED <<vendor, listVars, metaVars, req, requests>>

Edit(p) ==
    \/ \E ts \in SeqOf(Track, 2) : IsInjective(ts) /\ AppendCheck(p, ts)
    \/ AppendMax(p)
    \/ AppendCommit(p)
    \/ \E t \in Track : RemoveRead(p, t)
    \/ RemoveCommit(p)
    \/ \E ts \in SeqOf(Track, Cardinality(Track)) : IsInjective(ts) /\ ReorderCheck(p, ts)
    \/ ReorderCommit(p)
    \/ Abort(p)

EditMeta == (\E n \in Name : Patch(n)) \/ \E k \in Cover \cup {NoCover} : SetCover(k)

Next ==
    \/ \E p \in Client : Edit(p)
    \/ EditMeta
    \/ \E id \in Target, failed \in BOOLEAN : SetPublishState(id, failed)

Spec == Init /\ [][Next]_vars

-----------------------------------------------------------------------------
(* Properties.                                                             *)

\* However edits overlap, only the commit of a reorder changes the order of tracks that
\* stay, although positions are read in one statement and shifted in another.
OrderKept ==
    [][(\A p \in Client : req[p].op = "reorder" => req'[p] = req[p]) =>
         \A s, t \in rows \cap rows' : pos[s] < pos[t] => pos'[s] < pos'[t]]_vars

=============================================================================

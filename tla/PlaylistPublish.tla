--------------------------- MODULE PlaylistPublish ---------------------------
(***************************************************************************)
(* Publishing a playlist, over the edits of Playlist: the services read    *)
(* the row and then the tracks, call the vendor one call at a time, and    *)
(* write the row once at the end.  Spotify's copy is overwritten in        *)
(* batches (playlists_publish_service.py), YouTube Music's is synchronised *)
(* item by item (ytmusic_publish_service.py).  No call is undone: what a   *)
(* publish that fails half-way has sent stays at the vendor.               *)
(*                                                                         *)
(* Nothing keeps two publishes of one playlist apart: a second tab, or the *)
(* same tab after the gateway gave up waiting, starts another.  Two at a   *)
(* time are modelled, one of them at work and the other between two calls. *)
(* A vendor copy changes by these calls alone, except that the user may    *)
(* delete it.                                                              *)
(***************************************************************************)
EXTENDS Playlist

CONSTANTS
    Playable,   \* tracks with a spotify_id / a match, no two the same video
    Batch,      \* tracks in a Spotify call, 100 in the code
    MaxItems,   \* bounds the items two overlapping publishes put into a copy
    MaxTrouble  \* bounds failed and doubled calls, deleted copies and overlaps

ASSUME PublishAssumption ==
    /\ Playable \subseteq Track
    /\ Batch \in Nat \ {0}
    /\ MaxItems \in Nat
    /\ MaxTrouble \in Nat

VARIABLES
    remote,     \* the copies made at the vendor, by their id
    gone,       \* those the user has deleted
    job,        \* the publish at work
    other,      \* one that has begun as well and is between two calls
    overlap,    \* history: whether two publishes have met, "now" until both have ended
    doubt,      \* history: an edit or another publish overlapped the last one that was
                \* saved, a call of it was applied twice, it synchronised items that an
                \* earlier overlap may have doubled, or one has failed half-way since
    troubles

copyVars == <<remote, gone>>
jobVars == <<job, other, overlap, doubt, troubles>>
meeting == <<other, overlap>>
pvars == <<vars, copyVars, jobVars>>

Ready == [st |-> "ready"]
Job == {Ready}
       \cup [st : {"list", "send", "fill", "cover", "save"}, to : Target \cup {0},
             name : Name, cover : Cover \cup {NoCover}, want : Seq(Playable),
             sent : Nat, failed : BOOLEAN, clean : BOOLEAN]

PublishTypeOK ==
    /\ TypeOK
    /\ remote \in Seq([name : Name, cover : Cover \cup {NoCover}, tracks : Seq(Playable)])
    /\ gone \in SUBSET DOMAIN remote
    /\ job \in Job
    /\ other \in Job
    /\ overlap \in {"none", "now", "past"}
    /\ doubt \in BOOLEAN
    /\ troubles \in 0..MaxTrouble

\* What the vendor can be given of the playlist, ORDER BY position.
Given == rows \cap Playable
Before(t) == {s \in Given : pos[s] < pos[t]}
Wanted == [i \in 1..Cardinality(Given) |-> CHOOSE t \in Given : Cardinality(Before(t)) = i - 1]

\* Not published yet, or published and in step with the playlist.
PublishInit ==
    /\ Init
    /\ target \in {0, 1}
    /\ remote = [i \in 1..target |-> [name |-> name, cover |-> cover, tracks |-> Wanted]]
    /\ gone = {}
    /\ job = Ready
    /\ other = Ready
    /\ overlap = "none"
    /\ doubt = FALSE
    /\ troubles = 0

-----------------------------------------------------------------------------
Trouble == troubles < MaxTrouble /\ troubles' = troubles + 1

\* A step of the publish at stage st that leaves the playlist alone.
At(st) == job.st = st /\ UNCHANGED <<vars, meeting, doubt>>

\* The end of a publish, whatever it came to; the other one goes on.
EndJob ==
    /\ job' = other
    /\ other' = Ready
    /\ overlap' = IF other = Ready /\ overlap = "now" THEN "past" ELSE overlap

\* A call to the copy the job works on: 404 once the user has deleted it.
Call(st) == At(st) /\ job.to \notin gone /\ UNCHANGED gone

\* The handler and its first read; a published playlist comes with confirm_overwrite.
\* Bound: one that overlaps another counts as a trouble and as a request.
PublishRead ==
    /\ other = Ready
    /\ job' = [st |-> "list", to |-> target, name |-> name, cover |-> cover,
               want |-> <<>>, sent |-> 0, failed |-> FALSE,
               clean |-> job = Ready /\ (vendor = "spotify" \/ overlap = "none")]
    /\ \/ job = Ready /\ UNCHANGED <<meeting, troubles>>
       \/ /\ job # Ready
          /\ other' = [job EXCEPT !.clean = FALSE]
          /\ overlap' = "now"
          /\ Trouble
          /\ requests < MaxRequests
    /\ UNCHANGED <<vars, copyVars, doubt>>

\* Between two calls of one publish the other makes its own.
Switch ==
    /\ other # Ready
    /\ job' = other
    /\ other' = job
    /\ UNCHANGED <<vars, copyVars, overlap, doubt, troubles>>

\* list_tracks; NothingToPublishError without a playable track.
PublishList ==
    /\ job.st = "list"
    /\ \/ Wanted = <<>> /\ EndJob
       \/ /\ Wanted # <<>>
          /\ job' = [job EXCEPT !.st = "send", !.want = Wanted]
          /\ UNCHANGED meeting
    /\ UNCHANGED <<vars, copyVars, doubt, troubles>>

\* update_playlist, edit_meta.
UpdateCopy ==
    /\ Call("send")
    /\ job.to # 0
    /\ remote' = [remote EXCEPT ![job.to].name = job.name]
    /\ job' = [job EXCEPT !.st = "fill"]
    /\ UNCHANGED troubles

\* Mutant: a new copy although the known one is there.
CreateAlways ==
    /\ At("send")
    /\ Len(remote) + 1 \in Target
    /\ remote' = Append(remote, [name |-> job.name, cover |-> NoCover, tracks |-> <<>>])
    /\ job' = [job EXCEPT !.st = "fill", !.to = Len(remote) + 1]
    /\ UNCHANGED <<gone, troubles>>

\* create_playlist: the first time, or when the copy known is not there any more.
CreateCopy ==
    /\ At("send")
    /\ job.to \in gone \cup {0}
    /\ Len(remote) + 1 \in Target
    /\ remote' = Append(remote, [name |-> job.name, cover |-> NoCover, tracks |-> <<>>])
    /\ job' = [job EXCEPT !.st = "fill", !.to = Len(remote) + 1]
    /\ UNCHANGED <<gone, troubles>>

-----------------------------------------------------------------------------
(* Spotify: replace_tracks, then append_tracks.  A POST that answers 5xx   *)
(* is sent again, although it may have been applied.                       *)

FillSpotify ==
    LET next  == SubSeq(job.want, job.sent + 1, Min({job.sent + Batch, Len(job.want)}))
        known == IF job.sent = 0 THEN <<>> ELSE remote[job.to].tracks
    IN  /\ vendor = "spotify"
        /\ Call("fill")
        /\ job.sent < Len(job.want)
        /\ \/ /\ remote' = [remote EXCEPT ![job.to].tracks = known \o next]
              /\ job' = [job EXCEPT !.sent = @ + Batch]
              /\ UNCHANGED troubles
           \/ /\ job.sent > 0
              /\ remote' = [remote EXCEPT ![job.to].tracks = known \o next \o next]
              /\ job' = [job EXCEPT !.sent = @ + Batch, !.clean = FALSE]
              /\ Trouble

-----------------------------------------------------------------------------
(* YouTube Music: items not wanted are removed, missing ones added at the  *)
(* end, then items out of place are moved.  The lists of what to remove    *)
(* and to add are computed once; only these calls change the copy.         *)

Stray == {i \in DOMAIN remote[job.to].tracks :
            ~Contains(job.want, remote[job.to].tracks[i])}
Missing == {i \in DOMAIN job.want : ~Contains(remote[job.to].tracks, job.want[i])}

Least(S) == CHOOSE i \in S : \A j \in S : i <= j

Fill(seq) ==
    /\ vendor = "ytmusic"
    /\ Call("fill")
    /\ remote' = [remote EXCEPT ![job.to].tracks = seq]
    /\ UNCHANGED <<job, troubles>>

RemoveItem ==
    /\ job.st = "fill" /\ Stray # {}
    /\ Fill(RemoveAt(remote[job.to].tracks, Least(Stray)))

AddItem ==
    /\ job.st = "fill" /\ Stray = {} /\ Missing # {}
    /\ Fill(Append(remote[job.to].tracks, job.want[Least(Missing)]))

\* The slots that hold another item than wanted, or none.
Misplaced(seq, want) == {i \in DOMAIN want : i \in DOMAIN seq => seq[i] # want[i]}

\* _reorder_items: the item wanted in the first of them, moved there.
Moved(seq, want) ==
    LET slot == Least(Misplaced(seq, want))
        from == Least({i \in DOMAIN seq : seq[i] = want[slot]})
    IN  InsertAt(RemoveAt(seq, from), slot, want[slot])

InPlace == Misplaced(remote[job.to].tracks, job.want) = {}

MoveItem ==
    /\ job.st = "fill" /\ Stray = {} /\ Missing = {} /\ ~InPlace
    /\ Fill(Moved(remote[job.to].tracks, job.want))

\* What publishes that overlap may do as well: each goes by the items it read, whatever
\* the other has made of them since.
StaleItem ==
    /\ overlap = "now" /\ job.st = "fill"
    /\ LET seq == remote[job.to].tracks
       IN  \/ \E i \in Stray : Fill(RemoveAt(seq, i))
           \/ \E i \in DOMAIN job.want : Len(seq) < MaxItems /\ Fill(Append(seq, job.want[i]))
           \/ \E i \in DOMAIN seq, k \in DOMAIN seq \cap DOMAIN job.want :
                 seq[i] = job.want[k] /\ Fill(InsertAt(RemoveAt(seq, i), k, seq[i]))

-----------------------------------------------------------------------------
Filled ==
    IF vendor = "spotify" THEN job.sent >= Len(job.want)
    ELSE overlap = "now" \/ (Stray = {} /\ Missing = {} /\ InPlace)

EndFill ==
    /\ At("fill")
    /\ Filled
    /\ job' = [job EXCEPT !.st = IF job.cover = NoCover THEN "save" ELSE "cover"]
    /\ UNCHANGED <<copyVars, troubles>>

SendCover ==
    /\ Call("cover")
    /\ remote' = [remote EXCEPT ![job.to].cover = job.cover]
    /\ job' = [job EXCEPT !.st = "save"]
    /\ UNCHANGED troubles

\* An exception of the cover upload is caught.
CoverFails ==
    /\ At("cover")
    /\ job' = [job EXCEPT !.st = "save", !.failed = TRUE]
    /\ Trouble
    /\ UNCHANGED copyVars

PublishSave ==
    /\ job.st = "save"
    /\ SetPublishState(job.to, job.failed)
    /\ EndJob
    /\ doubt' = ~job.clean
    /\ UNCHANGED <<copyVars, troubles>>

\* A call that keeps failing, or the Lambda that dies: the row is not written.
PublishFails ==
    /\ job # Ready
    /\ EndJob
    /\ doubt' = (doubt \/ job.st \notin {"list", "send"})
    /\ Trouble
    /\ UNCHANGED <<vars, copyVars>>

\* The user deletes the copy in the vendor's app.
DeleteCopy ==
    /\ \E i \in (DOMAIN remote) \ gone : gone' = gone \cup {i}
    /\ Trouble
    /\ UNCHANGED <<vars, remote, job, meeting, doubt>>

-----------------------------------------------------------------------------
Editing ==
    /\ (\E p \in Client : Edit(p)) \/ EditMeta
    /\ overlap = "none" \/ UNCHANGED requests \/ requests' < MaxRequests
    /\ job' = IF job = Ready \/ UNCHANGED <<listVars, metaVars>> THEN job
              ELSE [job EXCEPT !.clean = FALSE]
    /\ UNCHANGED <<copyVars, meeting, doubt, troubles>>

Publishing ==
    \/ PublishRead
    \/ Switch
    \/ PublishList
    \/ UpdateCopy
    \/ CreateCopy
    \/ FillSpotify
    \/ RemoveItem
    \/ AddItem
    \/ MoveItem
    \/ StaleItem
    \/ EndFill
    \/ SendCover
    \/ CoverFails
    \/ PublishSave
    \/ PublishFails

PublishNext == Editing \/ Publishing \/ DeleteCopy

PublishSpec == PublishInit /\ [][PublishNext]_pvars

-----------------------------------------------------------------------------
(* Properties.                                                             *)

\* The playlist has a copy, and the last publish ran alone and to its end.
Settled == /\ job = Ready
           /\ target # 0 /\ target \notin gone
           /\ ~doubt

\* A copy that differs from the playlist carries the badge, whatever sequence of edits,
\* partial publishes and republishes led there.  Five ways around it are known, and the
\* formula sets them apart: an edit that overlaps a publish, a publish that fails half-way,
\* a batch Spotify applied twice, two publishes that overlap until one has run alone since,
\* and on YouTube Music any overlap there ever was, whose doubled items no later publish
\* removes.
DriftFlagged ==
    Settled /\ ~dirty =>
        /\ remote[target].tracks = Wanted
        /\ vendor = "spotify" => /\ remote[target].name = name
                                 /\ cover \in {NoCover, remote[target].cover}

\* A playlist keeps its copy, and with it the URL people have, until the user deletes
\* it, although a publish looks the copy up long before it writes the row.  Publishes that
\* overlap are the exception: nothing stops both from making a copy, and the last to save
\* replaces the id of the other's.
StableCopy == [][target' # target /\ target # 0 => target \in gone \/ overlap = "now"]_pvars

=============================================================================

---------------------------- MODULE YoutubeSearch ----------------------------
(***************************************************************************)
(* How a track gets its YouTube Music match: the sweep that searches the   *)
(* catalog every 30 minutes (youtube_search_handler.py), the match worker  *)
(* that playlists feed (vendor_match_handler.py), the person who resolves  *)
(* reviews (curation/match_review.py) and the rows they share              *)
(* (repositories/youtube_search.py, repositories/vendor_match.py).         *)
(*                                                                         *)
(* Every autocommitted statement or transaction is a step; a search is     *)
(* answered as late as its answer is stored.  Which video matched is left  *)
(* out, and so is the comments video, which nothing here reads.            *)
(***************************************************************************)
EXTENDS Naturals, FiniteSets

CONSTANTS
    Track,
    Rank,        \* Rank[t]: smaller is a newer release, the order of a claim
    Early,       \* tracks the sweep meets within SECOND_CHANCE_DAYS of their release
    Sweep,       \* batches that may overlap: the first SQS run and a redelivered one
    Limit,       \* tracks per batch
    Streak,      \* failed searches in a row that count as a ban (_ERROR_STREAK)
    MaxTrouble,  \* bounds failed searches and writes, bans, cuts, deaths and redeliveries
    MaxEvents    \* bounds what playlists, people, Spotify and the calendar do

ASSUME SearchAssumption ==
    /\ Rank \in [Track -> Nat]
    /\ \A t, u \in Track : Rank[t] = Rank[u] => t = u
    /\ Early \subseteq Track
    /\ Sweep \cap {"null", "done", "error", "overwritten", "stranded"} = {}
    /\ {Limit, Streak} \subseteq Nat \ {0}
    /\ {MaxTrouble, MaxEvents} \subseteq Nat

VARIABLES
    stamp,      \* clouder_tracks.youtube_searched_at: NULL, a claim's, or a time of its own
    song,       \* the ytmusic row of vendor_track_map
    review,     \* the pending row of match_review_queue, and when it was created
    absent,     \* the no_match row: empty, or the closed review with its candidates
    spotify,    \* spotify_id and spotify_searched_at
    fresh,      \* tracks within SECOND_CHANCE_DAYS of their release
    blocked,    \* a ban of vendor_rate_limits is in force
    message,    \* the vendor-match message of a track
    page,       \* what a person's screen shows of it
    pc,         \* where a batch stands
    paused,     \* it has read that a ban is in force
    todo,       \* the tracks it has claimed and not searched
    videoOnly,  \* of them, those claimed with has_ytmusic
    current,    \* the track it has stored and not marked, as a set
    unconfirmed,
    troubles, events

trackVars == <<stamp, song, review, absent>>
worldVars == <<spotify, fresh, message, page>>
sweepVars == <<pc, paused, todo, videoOnly, current, unconfirmed>>
vars == <<trackVars, worldVars, blocked, sweepVars, troubles, events>>

\* "done": searched; "error": marked without an answer; "overwritten": marked although the
\* claim was no longer this batch's; "stranded": the claim of a batch that died.
Stamp == {"null", "done", "error", "overwritten", "stranded"} \cup Sweep

YoutubeTypeOK ==
    /\ stamp \in [Track -> Stamp]
    /\ song \in [Track -> {"none", "auto", "manual"}]
    /\ review \in [Track -> {"none", "early", "due", "late"}]
    /\ absent \in [Track -> {"none", "empty", "kept"}]
    /\ spotify \in [Track -> {"unsearched", "claimed", "missing", "found"}]
    /\ fresh \subseteq Track
    /\ blocked \in BOOLEAN
    /\ message \in [Track -> {"none", "queued", "searching"}]
    /\ page \in [Track -> {"none", "review", "absent"}]
    /\ pc \in [Sweep -> {"idle", "reopen", "chance", "claim", "search", "mark",
                         "mark_error", "confirm", "release", "release_ban", "ban"}]
    /\ paused \subseteq Sweep
    /\ \A s \in Sweep :
          /\ todo[s] \subseteq Track /\ videoOnly[s] \subseteq Track
          /\ current[s] \subseteq Track /\ Cardinality(current[s]) <= 1
          /\ unconfirmed[s] \subseteq Track
          /\ pc[s] \in {"search", "mark", "confirm"} => Cardinality(unconfirmed[s]) < Streak
          /\ pc[s] = "idle" => todo[s] \cup current[s] \cup unconfirmed[s] = {}
    /\ troubles \in 0..MaxTrouble
    /\ events \in 0..MaxEvents

Init ==
    /\ stamp = [t \in Track |-> "null"]
    /\ song = [t \in Track |-> "none"]
    /\ review = [t \in Track |-> "none"]
    /\ absent = [t \in Track |-> "none"]
    /\ spotify = [t \in Track |-> "unsearched"]
    /\ fresh = Early
    /\ blocked = FALSE
    /\ message = [t \in Track |-> "none"]
    /\ page = [t \in Track |-> "none"]
    /\ pc = [s \in Sweep |-> "idle"]
    /\ paused = {}
    /\ todo = [s \in Sweep |-> {}]
    /\ videoOnly = [s \in Sweep |-> {}]
    /\ current = [s \in Sweep |-> {}]
    /\ unconfirmed = [s \in Sweep |-> {}]
    /\ troubles = 0 /\ events = 0

-----------------------------------------------------------------------------
Trouble == troubles < MaxTrouble /\ troubles' = troubles + 1 /\ UNCHANGED events
Event == events < MaxEvents /\ events' = events + 1 /\ UNCHANGED troubles
Calm == UNCHANGED <<troubles, events>>

Go(s, from, to) == pc[s] = from /\ pc' = [pc EXCEPT ![s] = to]

\* Mutant: the claim looks at the matches only.
HasMatch(t) == song[t] # "none"

\* Every row of the track that stops a search for its song; a resolved review always has
\* its row in the map.
HasYtmusic(t) == song[t] # "none" \/ review[t] # "none" \/ absent[t] # "none"

\* Spotify has not found it, or is looking for it right now: the claim of a Spotify
\* batch stamps spotify_searched_at before the answer.
SpotifyMissed(t) == spotify[t] \in {"claimed", "missing"}

-----------------------------------------------------------------------------
(* The rows (vendor_match.py).                                             *)

UpsertVendorMatch(t, type) == song' = [song EXCEPT ![t] = type]

\* created_at < publish_date + SECOND_CHANCE_DAYS makes the review one of the second chance.
InsertReviewCandidate(t) ==
    review' = IF review[t] # "none" THEN review
              ELSE [review EXCEPT ![t] = IF t \in fresh THEN "early" ELSE "late"]

MarkNoMatch(t) == absent' = IF absent[t] # "none" THEN absent ELSE [absent EXCEPT ![t] = "empty"]

\* What a search leaves of the song of a track.
StoreSong(t) ==
    \/ UpsertVendorMatch(t, "auto") /\ UNCHANGED <<review, absent>>
    \/ InsertReviewCandidate(t) /\ UNCHANGED <<song, absent>>
    \/ MarkNoMatch(t) /\ UNCHANGED <<song, review>>

-----------------------------------------------------------------------------
(* One batch (_sweep): reads the ban, reconciles, claims, searches.        *)

\* A batch takes 13 of its 30 minutes: it overlaps another only when SQS delivers again.
\* The ban is read first; nothing that happens before the first statement minds the order.
CloseReviewsWithoutSpotify(s) ==
    LET closed == {t \in Track : review[t] # "none" /\ SpotifyMissed(t) /\ absent[t] = "none"}
    IN  /\ Go(s, "idle", "reopen")
        /\ paused' = IF blocked THEN paused \cup {s} ELSE paused
        /\ review' = [t \in Track |-> IF t \in closed THEN "none" ELSE review[t]]
        /\ absent' = [t \in Track |-> IF t \in closed THEN "kept" ELSE absent[t]]
        /\ IF \A r \in Sweep : pc[r] = "idle" THEN Calm ELSE Trouble
        /\ UNCHANGED <<stamp, song, worldVars, blocked, todo, videoOnly, current, unconfirmed>>

ReopenForSpotifyFound(s) ==
    LET reopened == {t \in Track : absent[t] = "kept" /\ spotify[t] = "found"}
    IN  /\ Go(s, "reopen", "chance")
        /\ absent' = [t \in Track |-> IF t \in reopened THEN "none" ELSE absent[t]]
        /\ stamp' = [t \in Track |-> IF t \in reopened THEN "null" ELSE stamp[t]]
        /\ UNCHANGED <<song, review, worldVars, blocked, paused, todo, videoOnly, current,
                       unconfirmed>> /\ Calm

\* Mutant: the review goes and the search stamp stays.
SecondChanceUnstamped(s) ==
    /\ Go(s, "chance", IF s \in paused THEN "idle" ELSE "claim")
    /\ paused' = paused \ {s}
    /\ review' = [t \in Track |-> IF review[t] = "due" THEN "none" ELSE review[t]]
    /\ UNCHANGED <<stamp, song, absent, worldVars, blocked, todo, videoOnly, current, unconfirmed>>
    /\ Calm

SecondChance(s) ==
    LET due == {t \in Track : review[t] = "due"}
    IN  /\ Go(s, "chance", IF s \in paused THEN "idle" ELSE "claim")
        /\ paused' = paused \ {s}
        /\ review' = [t \in Track |-> IF t \in due THEN "none" ELSE review[t]]
        /\ stamp' = [t \in Track |-> IF t \in due THEN "null" ELSE stamp[t]]
        /\ UNCHANGED <<song, absent, worldVars, blocked, todo, videoOnly, current, unconfirmed>>
        /\ Calm

Unsearched == {t \in Track : stamp[t] = "null"}
NextBatch == {t \in Unsearched : Cardinality({u \in Unsearched : Rank[u] < Rank[t]}) < Limit}

Claim(s) ==
    /\ Go(s, "claim", IF Unsearched = {} THEN "idle" ELSE "search")
    /\ stamp' = [t \in Track |-> IF t \in NextBatch THEN s ELSE stamp[t]]
    /\ todo' = [todo EXCEPT ![s] = NextBatch]
    /\ videoOnly' = [videoOnly EXCEPT ![s] = {t \in NextBatch : HasYtmusic(t)}]
    /\ UNCHANGED <<song, review, absent, worldVars, blocked, paused, current, unconfirmed>> /\ Calm

IsNext(s, t) == t \in todo[s] /\ \A u \in todo[s] : Rank[t] <= Rank[u]

\* The search is answered and its answer stored (_persist).
SearchOne(s, t) ==
    /\ Go(s, "search", "mark") /\ IsNext(s, t)
    /\ IF t \in videoOnly[s] THEN UNCHANGED <<song, review, absent>> ELSE StoreSong(t)
    /\ todo' = [todo EXCEPT ![s] = @ \ {t}]
    /\ videoOnly' = [videoOnly EXCEPT ![s] = @ \ {t}]
    /\ current' = [current EXCEPT ![s] = {t}]
    /\ UNCHANGED <<stamp, worldVars, blocked, paused, unconfirmed>> /\ Calm

\* The answer cannot be stored: the track is marked all the same.
PersistFails(s, t) ==
    /\ Go(s, "search", "mark_error") /\ IsNext(s, t) /\ Trouble
    /\ todo' = [todo EXCEPT ![s] = @ \ {t}]
    /\ videoOnly' = [videoOnly EXCEPT ![s] = @ \ {t}]
    /\ current' = [current EXCEPT ![s] = {t}]
    /\ UNCHANGED <<trackVars, worldVars, blocked, paused, unconfirmed>>

\* Mutant: one failure too many goes by.
SearchFailsOnceMore(s, t) ==
    /\ Go(s, "search", IF Cardinality(unconfirmed[s]) + 1 > Streak THEN "release_ban"
                       ELSE IF todo[s] = {t} THEN "confirm" ELSE "search")
    /\ IsNext(s, t) /\ Trouble
    /\ todo' = [todo EXCEPT ![s] = @ \ {t}]
    /\ videoOnly' = [videoOnly EXCEPT ![s] = @ \ {t}]
    /\ unconfirmed' = [unconfirmed EXCEPT ![s] = @ \cup {t}]
    /\ UNCHANGED <<trackVars, worldVars, blocked, paused, current>>

SearchFails(s, t) ==
    /\ Go(s, "search", IF Cardinality(unconfirmed[s]) + 1 >= Streak THEN "release_ban"
                       ELSE IF todo[s] = {t} THEN "confirm" ELSE "search")
    /\ IsNext(s, t) /\ Trouble
    /\ todo' = [todo EXCEPT ![s] = @ \ {t}]
    /\ videoOnly' = [videoOnly EXCEPT ![s] = @ \ {t}]
    /\ unconfirmed' = [unconfirmed EXCEPT ![s] = @ \cup {t}]
    /\ UNCHANGED <<trackVars, worldVars, blocked, paused, current>>

Banned(s) ==
    /\ Go(s, "search", "release_ban") /\ todo[s] # {} /\ Trouble
    /\ UNCHANGED <<trackVars, worldVars, blocked, paused, todo, videoOnly, current, unconfirmed>>

\* mark_youtube_searched has no condition on the stamp.
Stamped(s, t, how) ==
    stamp' = [stamp EXCEPT ![t] = IF @ = s \/ how = "error" THEN how ELSE "overwritten"]

\* YouTube still answers, or the batch is over: the failures were the tracks' own.
GoOn(s, failures) ==
    pc' = [pc EXCEPT ![s] = IF failures # {} THEN "confirm"
                            ELSE IF todo[s] # {} THEN "search" ELSE "idle"]

Mark(s, t) ==
    /\ t \in current[s]
    /\ \/ pc[s] = "mark" /\ Stamped(s, t, "done")
       \/ pc[s] = "mark_error" /\ Stamped(s, t, "error")
    /\ GoOn(s, unconfirmed[s])
    /\ current' = [current EXCEPT ![s] = {}]
    /\ UNCHANGED <<song, review, absent, worldVars, blocked, paused, todo, videoOnly,
                   unconfirmed>> /\ Calm

ConfirmFailure(s, t) ==
    /\ pc[s] = "confirm" /\ t \in unconfirmed[s]
    /\ Stamped(s, t, "error")
    /\ GoOn(s, unconfirmed[s] \ {t})
    /\ unconfirmed' = [unconfirmed EXCEPT ![s] = @ \ {t}]
    /\ UNCHANGED <<song, review, absent, worldVars, blocked, paused, todo, videoOnly,
                   current>> /\ Calm

\* The deadline is near, or the database fails, before a search or before a mark.
CutShort(s) ==
    /\ pc[s] \in {"search", "mark", "mark_error", "confirm"} /\ Trouble
    /\ pc' = [pc EXCEPT ![s] = "release"]
    /\ UNCHANGED <<trackVars, worldVars, blocked, paused, todo, videoOnly, current, unconfirmed>>

Forget(s) ==
    /\ todo' = [todo EXCEPT ![s] = {}]
    /\ videoOnly' = [videoOnly EXCEPT ![s] = {}]
    /\ current' = [current EXCEPT ![s] = {}]
    /\ unconfirmed' = [unconfirmed EXCEPT ![s] = {}]

\* Mutant: a ban pauses the sweep and the claim is kept.
ReleaseUnlessBanned(s) ==
    /\ Go(s, "release", "idle") \/ Go(s, "release_ban", "ban")
    /\ stamp' = [t \in Track |-> IF stamp[t] = s /\ pc[s] = "release" THEN "null" ELSE stamp[t]]
    /\ Forget(s)
    /\ UNCHANGED <<song, review, absent, worldVars, blocked, paused>> /\ Calm

\* release_youtube_search_claim: the rows that still carry this claim's stamp.
Release(s) ==
    /\ Go(s, "release", "idle") \/ Go(s, "release_ban", "ban")
    /\ stamp' = [t \in Track |-> IF stamp[t] = s THEN "null" ELSE stamp[t]]
    /\ Forget(s)
    /\ UNCHANGED <<song, review, absent, worldVars, blocked, paused>> /\ Calm

SetBlocked(s) ==
    /\ Go(s, "ban", "idle")
    /\ blocked' = TRUE
    /\ UNCHANGED <<trackVars, worldVars, paused, todo, videoOnly, current, unconfirmed>> /\ Calm

\* The Lambda is killed: nothing hands its claim back.
Dies(s) ==
    /\ pc[s] # "idle" /\ Trouble
    /\ pc' = [pc EXCEPT ![s] = "idle"]
    /\ stamp' = [t \in Track |-> IF stamp[t] = s THEN "stranded" ELSE stamp[t]]
    /\ Forget(s)
    /\ paused' = paused \ {s}
    /\ UNCHANGED <<song, review, absent, worldVars, blocked>>

BanEnds ==
    /\ blocked /\ blocked' = FALSE
    /\ UNCHANGED <<trackVars, worldVars, sweepVars>> /\ Calm

-----------------------------------------------------------------------------
(* The match worker: a track added to a playlist is looked up at once.     *)

\* fetch_unmatched_match_inputs reads, enqueue_vendor_matches sends.
EnqueueMatch(t) ==
    /\ message[t] = "none" /\ ~HasYtmusic(t) /\ Event
    /\ message' = [message EXCEPT ![t] = "queued"]
    /\ UNCHANGED <<trackVars, spotify, fresh, page, blocked, sweepVars>>

\* _process_one looks at the map only.
ReceiveMatch(t) ==
    /\ message[t] = "queued"
    /\ message' = [message EXCEPT ![t] = IF song[t] # "none" THEN "none" ELSE "searching"]
    /\ UNCHANGED <<trackVars, spotify, fresh, page, blocked, sweepVars>> /\ Calm

StoreMatch(t) ==
    /\ message[t] = "searching"
    /\ StoreSong(t)
    /\ message' = [message EXCEPT ![t] = "none"]
    /\ UNCHANGED <<stamp, spotify, fresh, page, blocked, sweepVars>> /\ Calm

\* The worker fails before it has stored anything, or dies before SQS hears of it.
MatchWorkerFails(t) ==
    /\ message[t] = "searching" /\ Trouble
    /\ message' = [message EXCEPT ![t] = "queued"]
    /\ \/ UNCHANGED trackVars
       \/ StoreSong(t) /\ UNCHANGED stamp
    /\ UNCHANGED <<spotify, fresh, page, blocked, sweepVars>>

-----------------------------------------------------------------------------
(* A person, on a page that may be stale when the answer is sent.          *)

\* fetch_ytmusic_status: matched, else needs_review, else not_found.
OpenPage(t) ==
    /\ page[t] = "none" /\ song[t] = "none" /\ Event
    /\ \/ review[t] # "none" /\ page' = [page EXCEPT ![t] = "review"]
       \/ review[t] = "none" /\ absent[t] # "none" /\ page' = [page EXCEPT ![t] = "absent"]
    /\ UNCHANGED <<trackVars, spotify, fresh, message, blocked, sweepVars>>

ResolveAccept(t) ==
    /\ page[t] # "none"
    /\ UpsertVendorMatch(t, "manual")
    /\ review' = [review EXCEPT ![t] = "none"]
    /\ page' = [page EXCEPT ![t] = "none"]
    /\ UNCHANGED <<stamp, absent, spotify, fresh, message, blocked, sweepVars>> /\ Calm

ResolveReject(t) ==
    /\ page[t] = "review"
    /\ review' = [review EXCEPT ![t] = "none"]
    /\ MarkNoMatch(t)
    /\ page' = [page EXCEPT ![t] = "none"]
    /\ UNCHANGED <<stamp, song, spotify, fresh, message, blocked, sweepVars>> /\ Calm

-----------------------------------------------------------------------------
(* Spotify and the calendar.                                               *)

\* Claimed, answered, and searched again when an admin resets what was not found.
SpotifyStep(t) ==
    /\ Event
    /\ \/ spotify[t] = "unsearched" /\ spotify' = [spotify EXCEPT ![t] = "claimed"]
       \/ spotify[t] = "claimed" /\ \E answer \in {"found", "missing", "unsearched"} :
             spotify' = [spotify EXCEPT ![t] = answer]
       \/ spotify[t] = "missing" /\ spotify' = [spotify EXCEPT ![t] = "unsearched"]
    /\ UNCHANGED <<trackVars, fresh, message, page, blocked, sweepVars>>

\* SECOND_CHANCE_DAYS after the review was created; the track may still be within as many
\* days of its release only if it was searched before it.
ReviewFallsDue(t) ==
    /\ review[t] = "early" /\ Event
    /\ review' = [review EXCEPT ![t] = "due"]
    /\ fresh' \in {fresh, fresh \ {t}}
    /\ UNCHANGED <<stamp, song, absent, spotify, message, page, blocked, sweepVars>>

-----------------------------------------------------------------------------
Reconcile(s) == CloseReviewsWithoutSpotify(s) \/ ReopenForSpotifyFound(s) \/ SecondChance(s)

Searching(s) == \E t \in Track : SearchOne(s, t) \/ Mark(s, t) \/ ConfirmFailure(s, t)

Sweeping(s) ==
    Reconcile(s) \/ Claim(s) \/ Searching(s) \/ Release(s) \/ SetBlocked(s)

Failing(s) ==
    \/ \E t \in Track : PersistFails(s, t) \/ SearchFails(s, t)
    \/ Banned(s) \/ CutShort(s) \/ Dies(s)

MatchWorker(t) == EnqueueMatch(t) \/ ReceiveMatch(t) \/ StoreMatch(t) \/ MatchWorkerFails(t)
Person(t) == OpenPage(t) \/ ResolveAccept(t) \/ ResolveReject(t)
World(t) == SpotifyStep(t) \/ ReviewFallsDue(t)

Next ==
    \/ \E s \in Sweep : Sweeping(s) \/ Failing(s)
    \/ \E t \in Track : MatchWorker(t) \/ Person(t) \/ World(t)
    \/ BanEnds

Spec == Init /\ [][Next]_vars

\* EventBridge starts a batch every 30 minutes and a batch runs to its end unless it
\* fails; a ban lasts ban_seconds.  Nothing is assumed of people, playlists or Spotify.
Fairness == WF_vars(BanEnds) /\ \A s \in Sweep : WF_vars(Sweeping(s))

FairSpec == Spec /\ Fairness

-----------------------------------------------------------------------------
(* Properties.                                                             *)

Outcome(t) ==
    IF song[t] # "none" THEN song[t]
    ELSE IF review[t] # "none" THEN "review"
    ELSE IF absent[t] # "none" THEN absent[t]
    ELSE "none"

\* A search for the song of the track is under way somewhere.
Sought(t) ==
    \/ message[t] # "none"
    \/ \E s \in Sweep : t \in todo[s] \ videoOnly[s]

\* A match, an empty search and a reject of a review still open are final: no batch and no
\* message looks for the song again or changes the outcome, also when Spotify or the
\* calendar reopens tracks, nor does an answer from a stale page, unless it accepts a video.
\* Left out are a search that was under way before, and a reject from a stale page of a
\* review the sweep has closed: the row stays 'kept', which Spotify reopens.
SettledStays ==
    [][\A t \in Track :
          Outcome(t) \in {"auto", "manual", "empty"} /\ ~Sought(t)
            => Outcome(t)' \in {Outcome(t), "manual"} /\ ~Sought(t)']_vars

\* youtube_search_counts: "A stamped track with no outcome row lost its write: an error."
\* It holds of a track marked by the batch whose claim it still was, whatever else writes
\* its rows; a track reopened under the hands of the batch that marks it is not covered.
SearchedHasOutcome == \A t \in Track : stamp[t] = "done" => Outcome(t) # "none"

\* No track waits for the sweep for ever: in the end it is searched, marked as failed,
\* stranded by the death of its batch, or, reopened under the hands of an earlier batch,
\* marked by that one, which may have looked for its video only.
NoTrackWaitsForever ==
    \A t \in Track : stamp[t] = "null" ~> stamp[t] \notin {"null"} \cup Sweep

=============================================================================

# CLOUDER in TLA+

CLOUDER collects weekly releases from Beatport, canonicalizes them into a catalog,
enriches and matches them to Spotify and YouTube Music, analyses their audio, and
gives a DJ an application to triage them into categories and playlists. The backend
is a set of AWS Lambdas (`src/src/collector`) that share Aurora PostgreSQL through
the stateless RDS Data API, and talk through SQS queues, S3 objects and HTTP.

This directory holds TLA+ models of the backend, the TLC configurations that check
them, and TLAPS proofs about them. `PROJECT.json` lists the components, the runs,
the source lines of every definition, one mutant per property, the hazards of the
code and the findings.

Contents: [system](#1-the-system) · [plan](#2-plan) · [modules](#3-the-modules) ·
[runs](#4-runs) · [fairness](#5-fairness) · [proofs](#6-proofs) ·
[findings](#7-findings) · [limits](#8-what-is-not-modelled-and-why)

## 1. The system

Paths are relative to `src/src/collector`. "—" in the last column: not modelled yet.

| Component | State it keeps | Operations | Hard behaviour | What makes it correct | Module |
|---|---|---|---|---|---|
| triage blocks (`curation/triage_repository.py`) | `triage_blocks`, `triage_buckets`, `triage_bucket_tracks` | create (classify a window of tracks), move, transfer, finalize, soft delete | checks run outside the transaction that writes; finalize reads bucket by bucket | no track is lost; a finalize promotes whole blocks; a finalized block is frozen | `Curation`, `CurationTx` |
| categories (`curation/categories_repository.py`) | `categories`, `category_tracks` with the source block of each row | create, rename, reorder, soft delete, add / remove tracks | hooks write the buckets of open blocks, finalize writes the rows | STAGING buckets mirror categories; the first source of a row is kept | `Curation`, `CurationTx` |
| tags (`curation/tags_repository.py`) | `track_tags` | tag, untag, three cleanups | a cleanup reads the members before the delete | tags go with the last membership (modelled; no run states it) | `Curation`, `CurationTx` |
| audio analysis queue (`repositories/analysis.py`) | `track_analyses` with leases, counts of labels and artists | claim, results, requeue, AI rule, recount | competing clients, late and repeated requests, death between autocommits | no pair is worked on twice; results are final; every pair is finished | `AnalysisQueue` |
| playlists (`curation/playlists_repository.py`) | `playlists`, `playlist_tracks` with positions and drift flags | append, remove, reorder, patch, covers | positions computed from stale reads, deferred UNIQUE | overlapping edits never swap tracks | `Playlist` |
| playlist publishing (`curation/playlists_publish_service.py`, `ytmusic_publish_service.py`) | the copy at the vendor, its id and the drift flag in the row | publish, republish | minutes of calls, each may fail, be doubled, or meet a deleted copy; the row is written at the end, and nothing keeps two publishes apart | the badge tells of drift; one copy, kept | `PlaylistPublish` |
| ingest (`api/routes_ingest.py`, `storage.py`) | `ingest_runs`, the raw S3 object of a style and week | fetch, save raw, record the run, enqueue | each step can fail after the other; the object of a week is overwritten | a queued run settles; a completed one is shown | `CanonicalCatalog` |
| auto-ingest (`auto_ingest_*.py`) | one settings row with a lease, the attempt log | run: choose weeks, collect, record the attempt | crash under the lease, weeks that keep failing | one run at a time; every due week is loaded | — |
| canonicalization (`worker_handler.py`, `canonicalize.py`, `repositories/lineage.py`) | `source_entities`, `identity_map`, `clouder_*` | five phases, tracks in chunks, each a transaction | at-least-once messages, replays in any order, concurrent claims | one canonical row per id; replays converge | `CatalogMerge`, `CanonicalCatalog` |
| backfill (`backfill_handler.py`) | none (Step Functions) | replay of raw objects | overlaps the live workers | as canonicalization | `CanonicalCatalog` |
| Data API client (`data_api.py`, `data_api_retry.py`) | transactions | execute, batch, transaction, retries | a statement that timed out may have run | nothing of a failed transaction stays | in `CurationTx` |
| vendor matching, match review, YouTube search (`vendor_match*`, `youtube_search*`, `curation/match_review.py`) | `vendor_track_map`, `match_review_queue`, `youtube_searched_at`, a ban in `vendor_rate_limits` | claim a batch, search, store, mark, release; match at once what a playlist needs; accept, reject | bans, killed batches, stale pages, redelivered messages, Spotify changing its mind | a settled match stays; no track waits for the sweep for ever; a searched one has an outcome | `YoutubeSearch` |
| Spotify search (`spotify_handler.py`, `repositories/spotify.py`) | `spotify_id`, `spotify_searched_at` | claim a batch, search, reset | time budget, continuation | as YouTube search | only its effects, in `YoutubeSearch` |
| label and artist enrichment (`label_enrichment*`, `artist_enrichment*`, `auto_enrich_dispatch_handler.py`) | runs with counters, cells, merged info, the AI flag, attempts per label | claim, open a run, one message per entity, ask vendors, merge, count | competing dispatches, stale claims, redelivered messages against counters | an attempt is paid for once; a completed run has its cells; the flag follows the info | `EnrichLedger`, `Enrichment` |
| comments collection (`comments*`) | comments per track, dispatch cooldown | dispatch, collect | repeated dispatch, partial vendor failure | idempotent collection | — |
| ML worker (`ml_worker_handler.py`, `ml_jobs.py`, `repositories/ml.py`) | `ml_models` with version and artifact key, S3 artifacts, `track_predictions` | request a retrain, train, save, score page by page, score one upload | duplicated retrains, a chain that dies half-way, tracks profiled meanwhile | a score is of the model it names; in the end all are of the current one | `ModelScoring` |
| auth and vendor tokens (`auth_handler.py`, `auth/*`, `curation/*_token_resolver.py`) | sessions with the hash of the refresh token, encrypted vendor tokens | callback, refresh with rotation, logout, revoke, connect, disconnect, refresh for a publish | overlapping refreshes of one vendor token, a rotation lost half-way, replay detection | nobody is signed out by accident; no retired token stays on file | `AuthSessions` |
| user deletion and export, user styles | rows of a user | ordered deletes, selects, replace settings | — | nothing of the user stays | — |
| read API, entity statistics, audio features, ML model, providers, telemetry, lakehouse, infrastructure, migrations, frontend | read-only queries, numeric code, append-only files, declarative code, the browser | — | — | — | — |

How they interact. A collected week becomes a raw object and a run row, a message
starts the canonicalization worker, which at its end starts the Spotify search; vendor
matches (`vendor_track_map`) make tracks visible to the analysis queue and playable in
a published playlist. `create_block` classifies the tracks of a window by the user's
categories and by the analyzer's results; a result that flags a track moves it to
DISCARD in every open block of every user and takes it out of categories
(`discard_ai_tracks`); `finalize_block` promotes STAGING buckets into categories;
placements are the labels the ML worker trains on, and its scores are the suggestions
of the next triage. Adding tracks to a category starts a search for their labels and
artists; adding them to a playlist, a match at YouTube Music. Everything else is shared tables:
there are no callbacks and no in-memory state between two requests. Aurora runs at
READ COMMITTED, `FOR UPDATE` is used only by the two search queues, and a request is
many HTTP round trips long, so any two requests interleave statement by statement.

Where it is hard: decisions taken on reads made before the transaction that acts on
them; effects spread over autocommitted statements, which a Lambda that times out
leaves half done; vendor calls that cannot be undone; messages, HTTP posts and
statements that are repeated; leases that run out while their holder still works.
`PROJECT.json` "hazards" has each at its line, with the property that watches it or
the module that will.

## 2. Plan

The order puts what users decide by hand first, since it cannot be collected again.

1. `Curation`: the requests of triage blocks, categories, tags and the AI rule, each
   as one step. This is the abstract specification. **done**
2. `CurationTx`: the same requests cut at their SQL statements. It implements
   `Curation` when requests do not overlap; its other instances show what survives
   when they do. **done**
3. `AnalysisQueue`: leases, late and repeated requests, the AI rule and the recount
   as separate commits. **done**
4. `Playlist`, and `PlaylistPublish` on top of it, which implements `Playlist`
   whatever the vendor answers. **done**
5. `CatalogMerge`, what canonicalization promises of the catalog, and
   `CanonicalCatalog`, the pipeline from a collect to the catalog, which implements it
   where no tracks were merged. **done**; the pending window of auto-ingest, which
   collects a week again when its run did not settle, is left.
6. `ModelScoring`: retrains, versions and artifacts, the chain of scoring pages. **done**
7. `AuthSessions`: rotation of the refresh token of a session and of a vendor. **done**
8. `YoutubeSearch`: the sweep, the match worker and the reviews over the rows they
   share; `EnrichLedger`, what an enrichment run promises, and `Enrichment`, which
   implements it. **done**
9. Left: auto-ingest (its lease, and the window in which a week is collected again when
   its run did not settle); the comments collection, of the shape of `Enrichment`;
   `TriageClassify` as a pure module (the SQL CASE against its Python mirror
   `classify_bucket_type`); positions of categories.
10. Every safety property and action property the passing runs check has a theorem
    (section 6); liveness is model-checked, and the safety it rests on is proved. **done**

Runs stay few: one passing run per composition with as many properties as it can
carry, a violation run only for a disagreement with what the repository says of
itself. Proofs stay at one module per component.

## 3. The modules

Conventions. An action is a whole request, or one SQL statement of it; its name is
that of the method. Names of rows are model values, never built from text. A
definition under a comment that starts with "Mutant" is not used by any
specification: it is the form a plausible bug would give the definition below it, and
`PROJECT.json` says which run then fails.

### Curation

The tables of one user: `block` (status, `deleted_at`, `ai_to_discard`), `category`,
`staging` (the STAGING rows of `triage_buckets`, with `inactive`), `held`
(`triage_bucket_tracks`), `members` (`category_tracks` with its
`source_triage_block_id`), `tagged`, `flagged` (stored results that flag a track) and
`toDiscard` (flagged, with the AI rule still to be committed).

| Action | Code |
|---|---|
| `CreateBlock` | `TriageRepository.create_block`: categories, classification, insert |
| `Move`, `Transfer` | `move_tracks`, `transfer_tracks` |
| `Finalize` | `finalize_block` with `CategoriesRepository.add_tracks_bulk` |
| `SoftDeleteBlock` | `soft_delete` of the triage repository |
| `CreateCategory`, `DeleteCategory` | `create` with `snapshot_category_into_active_blocks`, `soft_delete` with `mark_staging_inactive_for_category` and the tag cleanup |
| `AddTrack`, `RemoveTrack` | `add_track`, `remove_track` with the tag cleanup |
| `TagTrack`, `UntagTrack` | `TagsRepository` with its taggability check |
| `RecordFlag`, `DiscardAiTracks` | `record_analysis_results`, `discard_ai_tracks` |

Guards (`MayMove`, ...) are what a method checks, effects (`MoveEffect`, ...) are what
it writes given what it has read, so that `CurationTx` can apply the same effect to an
older read. `Sorted[b][t]` stands for the branches of the classification CASE that
depend on dates and release types; the AI branch, which comes first, and the exclusion
of kept tracks are modelled. One owner: no query joins rows of two users, except the
AI rule, which treats each of them alike.

### CurationTx

`req[p]` is the request of client `p`: what it has read so far and where it stands.
Every SELECT whose answer matters is a step; the writes are one last step, since they
run in one transaction (`DataAPIClient.transaction`), or are one statement. `Fail`
covers an error, a timeout and a crash of the Lambda: nothing of the transaction
stays. Abstraction: the statements of the committing transaction see the state of the
commit; a lock wait inside it is not modelled. `Isolated` says whether requests may
overlap. `Serializable` is the property `Spec` of `Curation`, the refinement.

### AnalysisQueue

`row` is `track_analyses`; `lease` is a `lease_id`, named after the client that made
it up, or `Gone` once that client has started another batch. A client claims
(`ClaimPick`: the snapshot of the statement; `ClaimLease`: its INSERT .. ON CONFLICT,
which re-checks the rows other claims have written since), works, posts
(`RecordResults`, `ApplyRule`, `RecountRead`, `RecountWrite`, one autocommit each, the
recount cut at its snapshot). `ClaimLost` is the answer the gateway drops,
`ResultsFail` a Lambda that dies between two of its commits, `Crash` a client that
forgets its lease, `Expire` the passing of time. `live` is history: the pairs whose
lease has, as the client was told, not run out. `inPlay` is what `Curation` decides,
here free to change: `EnterPlay` does not look at flags, as a transfer does not and a
`create_block` that classified its tracks earlier no longer does. `overlooked` is history:
the flagged tracks in play that no rule is due for any more, since they came into play
flagged or the request that flagged them died before the rule. The analyzer itself is external code: it is modelled by the
requests the API lets it make.

### Playlist

`rows` and `pos` are `playlist_tracks`. An append counts, reads MAX(position) and
inserts; a remove reads the position, then deletes and closes the gap; a reorder checks
the set and rewrites the positions. `Commit` is where the database checks the primary
key and the deferred UNIQUE(playlist_id, position). `MarkDirty` and
`MarkSpotifyDirty` are the two ways the code raises drift flags; `vendor` says which
of the two copies an instance follows. `target` is the id of the copy in the row.

### PlaylistPublish

Extends `Playlist` with the vendor: `remote[i]` is what copy `i` holds, `gone` the
copies the user has deleted. `Wanted` lists the tracks of the playlist that can be
sent by their rank among the positions. `job` is the publish at work: it reads the row
(`PublishRead`), then the tracks (`PublishList`), updates or creates the copy, sends
the tracks in batches (`FillSpotify`) or item by item (`RemoveItem`, `AddItem`,
`MoveItem`), sends the cover and writes the row (`PublishSave`). A call may fail
(`PublishFails`, `CoverFails`), be applied twice by the retry of the client, or meet a
copy that is gone.

The server takes no lock, so a second tab, or a second click after the gateway gave up
waiting at 29 s (gotchas.md), starts another publish. `PublishRead` allows it: `other` is
the publish that is between two of its calls, `Switch` lets it go on, and `overlap`
remembers that two have met. On YouTube Music each goes by the items it listed, whatever
the other has made of them since: `StaleItem` is the calls that then come about.

`doubt` is history, the five ways around the badge that the code leaves open: an edit that
overlaps a publish, a publish that fails half-way, a batch Spotify applied twice, two
publishes that overlap until one has run alone since, and on YouTube Music any overlap
there ever was, since items put in twice are not removed by a later publish. Abstractions:
which track has a match (`Playable`) is fixed and no two tracks have the same match; two
publishes at a time at most; only these calls, and the user deleting it, change a copy.

### CatalogMerge

The abstract catalog: `source` (`source_entities`), `identity` (`identity_map`; a
canonical row is named by the Beatport id it was made for, 0 is none), `row` (the
columns of `clouder_tracks` that are merged), `made` (rows inserted per id) and
`started` with `clock` (`ingest_runs.started_at`, the order of observations). `Merge`
is one transaction of `process_run`, all at once: the guarded upsert of the source
rows, the claims, the new rows, and for tracks that exist the staleness of
`read_track_state` and `track_update`. A chunk is a list of ids, since the updates of
a batch are applied in its order. `LegacyRow` is the table of ids the early
canonicalizer merged by ISRC: several ids of one track.

### CanonicalCatalog

Extends `CatalogMerge` with what brings runs to it.

| Action | Code |
|---|---|
| `Publish` | Beatport's listing of the styles and weeks changes (external) |
| `Fetch`, `Put`, `Record` with `Enqueue` | `collect_period`: fetch; `write_run_artifacts`; `create_ingest_run` with its `started_at`, and the message, whose failure is swallowed |
| `Receive` | a delivery to `lambda_handler`, which reads the raw object as it then is |
| `Replay` | the `ReplayRun` task of the backfill: a recorded run, with the status its plan saw |
| `ReadChunk`, `CommitChunk` | one transaction of `process_run`, cut between its last read and its commit |
| `Finish`, `Return` | `set_run_completed`; the message is deleted |
| `FailRun`, `Die` | `set_run_failed`, which may fail itself, a permanent error deleting the message either way (`unreported`, history); a timeout or crash |

The cut is where it matters: the upsert and the claims take the rows of the chunk
(`RowsFree`), and what a transaction has found by then (`new`, `write`) is applied at
the commit to a catalog in which *other* rows may have changed. `ReadChunk` is one step
for upsert, claim, find and read because nobody else can have the rows in between; the
rows of other ids are read at its end. Abstractions: labels, styles, artists, albums
and tracks are all Beatport ids, tracks being those that are merged; a phase without
lineage (relations, track artists) is left out; the status FAILED in a plan is treated
as RAW_SAVED, as `replay` does; a plan that saw a run completed is replayed while it
still is.

### AuthSessions

The sessions of one user and the two vendor tokens behind them. `session` is
`user_sessions` (status, the number of the token whose hash it has), `stored` the
refresh tokens in `user_vendor_tokens`, `grants` those a vendor accepts, `req[r]` an
invocation with what it has read, `cookie` and `waiting` the browsers.

| Action | Code |
|---|---|
| `SendRefresh`, `Abandon` | `refreshSession` of the page, under a Web Lock that all pages of a browser share |
| `GetActiveSession` .. `Answer` | `_handle_refresh`: session by id, hash compared, vendor token read, Spotify called, tokens stored, row rotated, cookie set |
| `RevokeAll` | the replay branch |
| `Login` .. `Callback` | `_handle_callback`; `YtmusicPoll` goes the same way without a session |
| `Logout`, `RevokeSession`, `Expire`, `YtmusicDisconnect` | the handlers of those names; `expires_at` |
| `Resolve` .. `ResolverUpdate` | `resolve` of the two resolvers of a publish |
| `Die`, `VendorAnswerLost`, `TakeBack` | a lost invocation, a lost answer, access withdrawn at the vendor |

`Rotates` is the set of vendors that retire a refresh token with every answer. `doubt`,
`taken` and `lost` are history. Abstractions: access tokens, encryption, PKCE and the
premium check; a token is its session and a number.

### EnrichLedger, Enrichment

`EnrichLedger` is the run as its reader polls it: opened for a number of searches, picked
up, counted search by search, completed in the step that counts the last.
`Enrichment` is labels (artists are its twin, statement for statement): `state` is
`label_auto_enrich_state`, `run`, `cells`, `info` and `flag` the tables of the results.

| Action | Code |
|---|---|
| `Reclaim`, `InsertNew`, `CreateRun`, `AttachRun`, `Send` | `_dispatch_labels`: the two claims, the run, the batch of messages |
| `AskByHand` | the admin route, with its own messages |
| `GrowStale` | six hours after the claim |
| `Receive` .. `DeleteMessage` | the worker: `mark_run_running`, a cell per vendor, `merge_cells` and the upsert, the AI flag, the counters, the outcome |
| `CallerStops`, `WorkerStops` | a timeout or an exception between two statements |

Every statement commits by itself. `asked`, `counted`, `again` and `mixed` are history.
The refinement is `Ledger == INSTANCE EnrichLedger WITH ...`: counters count cells there
and searches here, so they are divided by `Vendors`.

### YoutubeSearch

`stamp` is `youtube_searched_at` (with the batch a claim belongs to), `song`, `review` and
`absent` are the three rows a search can leave, `spotify` is what the reconciliation reads.

| Action | Code |
|---|---|
| `CloseReviewsWithoutSpotify`, `ReopenForSpotifyFound`, `SecondChance` | the reconciliation at the start of `_sweep` |
| `Claim` | `claim_tracks_for_youtube_search` |
| `SearchOne`, `PersistFails`, `SearchFails`, `Banned`, `Mark`, `ConfirmFailure` | the loop: search and `_persist`, the streak of failures, `mark_youtube_searched` |
| `CutShort`, `Release`, `SetBlocked`, `Dies`, `BanEnds` | deadline or database error, `release_youtube_search_claim`, the ban, a killed Lambda |
| `EnqueueMatch`, `ReceiveMatch`, `StoreMatch`, `MatchWorkerFails` | a playlist's request and `vendor_match_handler` |
| `OpenPage`, `ResolveAccept`, `ResolveReject` | a person whose page may be stale |
| `SpotifyStep`, `ReviewFallsDue` | Spotify's search, and SECOND_CHANCE_DAYS |

Abstractions: which video it is, scores and candidates, the comments video, the gate rows
that pace calls. Dates are three sets: tracks near their release, reviews created then,
and those of them that are due.

### ModelScoring

One user and style. `row` is `ml_models`, `files` the artifacts by key, `predicted`
the rows of `track_predictions`, `queue` the ml-jobs queue with its receive counts, `job`
the workers.

| Action | Code |
|---|---|
| `RequestRetrain`, `RequestAges`, `LabelsGrow` | `ml_triggers.after_labels`, `ml_request_retrain`, the hour after which a request may be repeated |
| `RecordProfile`, `SendScore` | the upload of a profile and its message |
| `ReadVersion`, `TooFewLabels`, `PutArtifact`, `SaveModel`, `SendChain` | `_retrain` |
| `CheckModel`, `ReadTracks`, `Upsert`, `SendNext` | `_score_style` |
| `ReadModels`, `Upsert` | `_score` |
| `Receive`, `DeleteMessage`, `WorkerFails` | SQS: a delivery again after a failure, twice at once as a trouble, the DLQ after the last |

A model is the attempt that trained it, so "the score is of this model" can be said
without numbers.

## 4. Runs

Every property has a mutant that breaks it under the same configuration.

| Run | Instance | States | Question |
|---|---|---|---|
| `tx_isolated` | `TxIsolated.cfg` | 2.98 M | statements of requests that do not overlap implement `Curation`; own buckets, mirror, provenance, frozen blocks, whole promotions |
| `tx_concurrent` | `TxConcurrent.cfg` | 2.78 M | what survives any overlap: no lost track, no half-visible promotion |
| `analysis` | `Analysis.cfg` | 195 k | shared work, leases, final results, progress |
| `playlist` | `Playlist.cfg` | 1.34 M | order under overlapping edits, the badge, the one copy, publishes that overlap |
| `catalog` | `Catalog.cfg` | 383 k | overlapping, repeated and replayed runs of a week merge whole chunks; every queued run settles |
| `auth` | `Auth.cfg` | 648 k | sign-ins, refreshes, publishes and sign-outs that overlap, one fault |
| `enrich` | `Enrich.cfg` | 1.5 M | dispatches, workers, an admin and one fault; the ledger is implemented |
| `youtube` | `Youtube.cfg` | 521 k | sweep, match worker, person and Spotify on the same tracks; no track waits for ever |
| `models` | `Models.cfg` | 2.07 M | retrains, pages and uploads in any order, two troubles |
| `race_finalize_move` | `RaceFinalizeMove.cfg` | violation | finding 1 |
| `auth_logout` | `AuthLogout.cfg` | violation | finding 2 |
| `catalog_weeks` | `CatalogWeeks.cfg` | violation | finding 3 |

What the properties say, and why they could have failed:

- `HeldInOwnBuckets`: bucket ids travel through requests and the AI rule writes into
  DISCARD buckets it does not look up by block; no row ever sits in a bucket its
  block does not have.
- `ProvenanceKept`: four paths insert category rows; the source block of the first
  one decides where the AI rule sends the track back.
- `FinalizedFrozen`: of requests that do not overlap: moves, transfers, the AI rule and category hooks all write
  buckets; none of them reaches a finalized block, except that the AI rule adds to
  DISCARD.
- `StagingMirrorsCategories`: kept by three methods in two repositories; holds when
  requests do not overlap, and section 7 says how it breaks when they do.
- `Serializable`: cutting a request at its statements adds no behaviour as long as
  nothing overlaps: the guards and effects of `Curation` are those of the code.
- `FinalizePromotesWhole`: as above; finding 1 when they overlap.
- `PromotionTraceable`, `TracksNeverLost`: what any overlap of two requests leaves
  intact, failures included.
- `NoSharedWork`, `ResultsFinal`: claims that overlap, retries of a claim
  under its old id, posts after the lease ran out.
- `EveryPairFinished`: a pair is finished although clients die, answers are lost and
  leases run out. `FlaggedLeavesPlay`: a track that is flagged while in play leaves it,
  whoever else claims, posts or requeues, unless its request dies between the UPDATE and
  the rule; one that comes into play flagged may stay (`overlooked`, section 7).
- `OrderKept`: an append or a remove, overlapping anything but a reorder, never swaps
  two tracks that stay.
- `DriftFlagged`: outside the five ways around it (`doubt`), a copy that differs from the
  playlist carries the badge, through any sequence of edits, failures and republishes. The
  five are in the model and are set apart, not caught.
- `StableCopy`: one copy, kept until the user deletes it. Two publishes that overlap may both
  make one, and the last to save replaces the id; a copy whose first publish fails is nobody's.
- `ChunksMergeAtomically`: workers on the same ids, deliveries of one message to both of
  them, deaths between chunks and a raw object that changes under a queued run add
  nothing to merging whole chunks one after the other.
- `RowFollowsNewest`: a track whose ids are always canonicalized in one transaction, the
  larger later (`TakenTogether`), shows what the newest observation among them carries:
  `track_update` knows staleness only from `source_entities`, written in the same
  transaction. `RowAlwaysFollowsNewest`, without that condition, is what the docstring of
  `read_track_state` says, and `catalog_weeks` shows it broken across weeks.
- `OneRowPerId`: claims by workers that have made up different ids for the same entity.
- `CompletedRunIsShown`: COMPLETED is written by whoever gets to the end, of whichever
  delivery, over whatever object was there; the catalog then has the data of that
  object, and keeps it through later redeliveries of older runs.
- `QueuedRunSettles`: a run leaves RAW_SAVED as long as deliveries outnumber faults, but for
  a permanent error whose `set_run_failed` fails as well: its message is deleted all the same.
- `NoFalseReplay`: a stale refresh token ends *every* session of the user; no overlap of
  two browsers, and no refresh that fails before it rotates, presents one. Only a browser
  that was left without an answer does (`doubt`), which ADR-0015 accepts.
- `GrantKept`: three writers store vendor tokens minutes after reading them, and a
  rotating vendor retires the one they read; the last writer must not put back a dead one.
- `DisconnectStays`: a publish is in the middle of refreshing the token just deleted.
- `SearchesAreAttempts`: two claims of different shape (a stale or failed row, a label with
  none) by dispatches that overlap; the limit of two attempts counts each of them once.
- `CompletedRunHasItsCells`: COMPLETED is computed from counters that every delivery adds
  to; unless a message was counted twice (`again`), it means what it says.
- `FlagFollowsInfo`: info and flag are two statements, a worker may stop in between.
- `ImplementsLedger`: a run moves by whole searches although cells, counters and status
  are written by different statements of workers that crash.
- `SettledStays`: three statements delete or reopen rows by conditions on other tables, and
  two writers search; none of them touches what is settled, nor does a person's stale page.
  A search that was under way before is outside it, and so is a reject from the stale page of
  a review the sweep has closed (entity-resolution.md:182 calls a reject final; section 7).
- `SearchedHasOutcome`: stamp and outcome are two commits; the status page counts a
  stamped track with no outcome as an error. It covers a track marked by the batch that
  claimed it; one reopened meanwhile and marked by its old batch (`overwritten`) it does not.
- `NoTrackWaitsForever`: claims are released by a ban, a deadline and a failure, and tracks
  are reopened while a batch has them. It says that a track does not stay unclaimed, not that
  it is searched: a death strands it, and the mark of an earlier batch may overwrite its claim.
- `ScoresOfTheirModel`: two retrains write files, one wins the row; no page of the loser
  or of an older version stays under the version of another model.
- `ScoredByCurrent`: a track profiled while a chain of pages passes it is scored by its own
  message, with whatever model was current then; no order of the two leaves it behind.

### Bounds

Instances are the smallest in which the interesting case happens, and each bound is a
CONSTANT of its module or the size of a set.

- `tx_isolated`: one client, two blocks of one style (transfers, two sources for one category
  row), one category, one track. One track is enough because no guard or effect relates two
  tracks, except that a request takes a set of them: effects are unions. `BlockSymmetry`
  permutes the blocks.
- `tx_concurrent`, `race_finalize_move`: two requests in flight, the pair every race of two
  needs, over one block and, in the first, two categories of two styles, so that the style
  guards have something to refuse; `Ops` leaves out requests whose interference is asked in
  another run.
- `analysis`: two clients and two tracks of different rank, one of them a claim
  (`Limit = 1`), so that clients compete and the newer track can starve the older; one
  analyzer, since pairs of one track are leased together and no statement compares two
  analyzers but `Flagged`, a disjunction. `MaxTrouble = 1`: one failure at any point of
  any behaviour; with none left, liveness must recover from it.
- `playlist`: three tracks (an order needs two, a gap three), one of them not
  playable, two clients, `MaxRequests = 2` edit requests that may overlap each other
  and the publish, `Batch = 1`, so two tracks are two batches, one trouble, which may be
  a second publish that overlaps the first; that one counts as an edit request too. Two that
  overlap on YouTube Music put at most `MaxItems = 3` items into a copy. Behaviours
  end when the requests are used up, hence `CHECK_DEADLOCK FALSE`. `MCSymmetry`
  permutes the playable tracks, the clients and the names, none of which any
  definition tells apart; the run has no liveness property.
- `catalog`: two runs of one week (an object is overwritten, an older run comes after a
  newer one), two versions of the listing, between which one value comes and one goes,
  two workers, as the queue and the backfill allow; a chunk with a new track and a chunk of
  two, merged into one, in ascending order (section 7 says what the other order does);
  `MaxReceive = 2`, `MaxFaults = 1`, `MaxReplays = 1`. The constraint `MCOrder` lets the runs
  fetch in one order, since the runs of a week are alike. No run has to be started, hence
  `CHECK_DEADLOCK FALSE`. `catalog_weeks`: a run of each of two weeks, which list one of the
  two ids each.
- `auth`: two browsers, two sessions and two requests in flight, the pair a race over the
  one row of Spotify's token needs; `MaxRefresh = 3` tokens of a session (an old, a
  current and a next one), `MaxGrant` three tokens of Spotify, which rotates, and one
  of YouTube Music, which does not; one fault. `MCSymmetry` permutes browsers, sessions
  and requests. When the tokens are used up nothing is left to do, hence
  `CHECK_DEADLOCK FALSE`.
- `enrich`: two labels, two runs, two dispatches and two workers with at most two
  invocations at once (`MaxActive`, as the quota of the account and the batch size of
  one make for), two vendors so that one may fail, two searches (`MaxMessages`), one
  fault. A label listed twice by hand (`MaxCopies = 2`, 3.07 M states) was checked once
  with the same result. `maxReceiveCount` is 3, so one fault never reaches the DLQ; the
  visibility timeout exceeds the worker's, so a second delivery at once is a fault.
- `youtube`: two tracks of different rank, one met early (second chance), two batches, of
  which the second is a redelivery, `Limit = 2`, `Streak = 2`, two troubles, two events.
  No symmetry, as it has a liveness property.
- `models`: two tracks with a page of one, so that a chain has three links; two workers,
  two attempts to train, three slots in the queue, three deliveries, two troubles.
  In these three runs too, events are bounded and may run out: `CHECK_DEADLOCK FALSE`.

## 5. Fairness

`FairSpec` of `AnalysisQueue` and of `YoutubeSearch` and `FairCatalogSpec` of
`CanonicalCatalog` have fairness, all of it weak. In `AnalysisQueue`:

- each client goes on with claims and with posts of what it has been handed: the
  analyzer is a loop, and a client that stops is `Crash`, after which another claim is
  due;
- a statement that has started is answered unless the request fails: a Lambda either
  runs on or is stopped by its timeout (`ResultsFail`, `ClaimLost`);
- a lease runs out: `leased_until` is a time.

Requeues, matches, moves in and out of play and troubles have none. Troubles are
bounded, so progress is asked of what follows the last one.

In `CanonicalCatalog` each worker goes on with its run or, when free, takes a message if
there is one: SQS polls, and an invocation either runs on or ends (`Die`, `FailRun`).
Collects and replays have no fairness. `MaxFaults < MaxReceive` is what makes
`QueuedRunSettles` true: a message that uses up its deliveries goes to the dead letter
queue and the run stays RAW_SAVED.

In `YoutubeSearch` a ban ends, since it is a time, and each batch goes on: EventBridge
starts one every 30 minutes and it runs to its end unless it fails. People, playlists and
Spotify have no fairness. `AuthSessions`, `Enrichment` and `ModelScoring` state safety
only; what they should reach in the end is `ScoredByCurrent`, said of states in
which no work is left.

## 6. Proofs

`tlapm` checks all of these for every value of the constants under the named
assumptions of the modules, with no bound on blocks, tracks, clients, workers, requests
or failures. There is one module of proofs per component; it also proves about the
finer module on top (`CurationTx`, `PlaylistPublish`).

| Theorem | Says | Argument |
|---|---|---|
| `Curation_proofs!TypeCorrect` | `TypeOK` | one lemma per effect |
| `Curation_proofs!StagingMirrored` | `StagingMirrorsCategories` | invariant `Mirror` |
| `Curation_proofs!FinalizedWhole` | `FinalizePromotesWhole` | from `Mirror`: an inactive bucket is empty and an active one is promoted |
| `Curation_proofs!TracksInOwnBuckets` | `HeldInOwnBuckets` | invariant `Owned` |
| `Curation_proofs!FinalizedStaysFrozen` | `FinalizedFrozen` | from the types, effect by effect |
| `Curation_proofs!ProvenanceAlwaysKept` | `ProvenanceKept` | from `Owned` |
| `Curation_proofs!TxTypeCorrect` | `TxTypeOK` in every interleaving | one lemma per request |
| `Curation_proofs!NoTrackLost` | `TracksNeverLost` in every interleaving | invariant `UseInv` |
| `Curation_proofs!PromotionAlwaysTraceable` | `PromotionTraceable` in every interleaving without `add_track` | invariant `TraceInv` |
| `Curation_proofs!SerialWhenIsolated` | `Isolated => (TxSpec => Serializable)`: cut at their statements, requests that do not overlap implement `Curation` | invariant `AloneInv`, one step per request |
| `Curation_proofs!IsolatedKeepsCuration` | so what `Curation` promises holds of the statements too | from the theorem above |
| `AnalysisQueue_proofs!QueueTypeCorrect` | `TypeOK` | one lemma per group of actions |
| `AnalysisQueue_proofs!SharedWorkNever` | `NoSharedWork` | invariant `LeaseInv` |
| `AnalysisQueue_proofs!FinishedFinal` | `ResultsFinal` | from the types |
| `AnalysisQueue_proofs!LeasesAlwaysAccounted` | `LeasesAccounted`: no pair waits for a lease that nobody posts under and that does not run out | invariant `WorkInv` |
| `AnalysisQueue_proofs!FlaggedAlwaysAwaitRule` | `FlaggedAwaitRule`: a flagged track in play is in the tally of a request about to apply the rule, unless it is `overlooked` | inductive with the types |
| `Playlist_proofs!PlaylistTypeCorrect` | `TypeOK` of the list and its requests | one lemma per effect |
| `Playlist_proofs!OrderAlwaysKept` | `OrderKept` | from the types, by cases on where the two tracks stand |
| `Playlist_proofs!PublishImplementsPlaylist` | `PublishSpec => Spec` | every step of a publish is a step of `Playlist` or a stutter, under `CopyInv` |
| `Playlist_proofs!PublishKeepsOrder` | `OrderKept` while publishing | from the two above |
| `Playlist_proofs!CopyAlwaysStable` | `StableCopy`, publishes that overlap set apart | invariant `CopyInv` |
| `Playlist_proofs!PublishTypeCorrect` | `PublishTypeOK` | part of `DriftInv` |
| `Playlist_proofs!DriftAlwaysFlagged` | `DriftFlagged`, the five ways around it set apart | invariant `DriftInv`, one lemma per step of a publish |
| `CanonicalCatalog_proofs!CatalogTypeCorrect` | `CatalogTypeOK` | with `PathInv`, what each stage of a run has behind it |
| `CanonicalCatalog_proofs!OneCanonicalRow` | `OneRowPerId` | invariant `LockInv` |
| `CanonicalCatalog_proofs!ChunksAreAtomic` | `Unmerged => (CatalogSpec => ChunksMergeAtomically)` | invariant `ReadsStand` |
| `CanonicalCatalog_proofs!RowsFollowNewest` | `Unmerged => (CatalogSpec => [](RowFollowsNewest /\ RowAlwaysFollowsNewest))` | invariant `Shown` |
| `CanonicalCatalog_proofs!CompletedAlwaysShown` | `CompletedRunIsShown`, merged tracks included | invariant `InForce` |
| `CanonicalCatalog_proofs!UnderwayAlwaysStays` | `IsFiniteSet(Worker) /\ MaxFaults < MaxReceive => (CatalogSpec => UnderwayStays)`: a run under way stays so until it settles or is `unreported` | invariants `DeliveryInv`, `DoneInv` |
| `AuthSessions_proofs!AuthTypeCorrect` | `AuthTypeOK` | with `StageInv`, what each stage of a request has read |
| `AuthSessions_proofs!GrantAlwaysKept` | `GrantKept` | invariants `HeldInv` and `StoredInv`, vendor by vendor |
| `AuthSessions_proofs!DisconnectAlwaysStays` | `DisconnectStays` | by cases on who stores a token |
| `AuthSessions_proofs!NeverFalseReplay` | `NoFalseReplay` | invariant `OneOwner` |
| `Enrichment_proofs!EnrichTypeCorrect` | `EnrichTypeOK` | part of `Sound` |
| `Enrichment_proofs!CompletedAlwaysHas` | `CompletedRunHasItsCells` | invariants `Stored` and `Tallied` |
| `Enrichment_proofs!FlagAlwaysFollows` | `FlagFollowsInfo` | invariant `Repeated` |
| `Enrichment_proofs!AttemptsAlwaysPay` | `SearchesAreAttempts` | invariant `Paid` |
| `Enrichment_proofs!EnrichImplementsLedger` | `EnrichSpec => ImplementsLedger` | invariant `Measured`, one step per statement |
| `YoutubeSearch_proofs!YoutubeTypeCorrect` | `YoutubeTypeOK` | part of `Held` |
| `YoutubeSearch_proofs!SearchedAlwaysHasOutcome` | `SearchedHasOutcome` | invariant `Backed` |
| `YoutubeSearch_proofs!SettledAlwaysStays` | `SettledStays` | from `Held`, action by action |
| `YoutubeSearch_proofs!ClaimsAlwaysHeld` | `ClaimsHeld`: no claim is orphaned except by a death | invariant `Going` |
| `YoutubeSearch_proofs!BatchesAlwaysGoOn` | `BatchesGoOn`: the track the next step needs is there | invariant `Going` |
| `YoutubeSearch_proofs!BatchesAlwaysWindDown` | `IsFiniteSet(Track) => (Spec => BatchesWindDown)`: the steps a batch has left go down | variant `Left` |
| `YoutubeSearch_proofs!ClaimsAlwaysBounded` | `IsFiniteSet(Track) => (Spec => []ClaimsBounded)`: at most `Limit` claims per batch | by the rank of the tracks of `NextBatch` |
| `ModelScoring_proofs!ModelTypeCorrect` | `ModelTypeOK` | part of `ModelInv` |
| `ModelScoring_proofs!ScoresAreOfTheirModel` | `ScoresOfTheirModel` | invariant `ModelInv` |
| `ModelScoring_proofs!AllScoredByCurrent` | `ScoredByCurrent` | invariant `NoTrackForgotten` with `Hands` |

Why the invariants are needed:

- `Mirror` adds to the property that a block that was never created has no buckets:
  without it `CreateBlock` could overwrite rows.
- `Owned` adds that the source block of a category's track was created, so a new block
  cannot take an id that provenance already names.
- `UseInv`: a create in flight owns its block id, nobody else's write is pending for a
  block that does not exist, and buckets of such a block are empty; otherwise the
  INSERT of a create could replace buckets that hold tracks. It is what the uuid of
  `create_block` gives, and the only thing the proof needs about overlap: every other
  effect is a union, or moves what it removes.
- `TraceInv`: what a finalize in flight has read may be stale at its commit, but the
  bucket existed and the tracks were the block's, and a block gives up neither. An
  `add_track` that overlaps writes over the source, so the theorem is about the other
  requests; the instance `tx_concurrent` has the same hypothesis.
- `AloneInv`: at most one request is under way and what it has read is what the tables
  hold, so its commit is the abstract action.
- `LeaseInv` adds that a pair a client believes live is leased to that client and not
  expired in the table: two believers would need two values in one row.
- `WorkInv`: an unexpired lease of a client that has a batch is one the client counts on
  (`LiveTold`: what makes the client drop it also marks the row or lets it run out), and a
  client that works or posts has pairs it was given (`GotSome`).
- `CopyInv` ties a publish that runs alone to the row: it works on the copy the row
  names, or the row names none that is left. The write at the end of a publish is safe
  because of this although the row is read minutes earlier. While two overlap it says nothing
  of the kind: the row may name the copy of the other.
- `DriftInv` says what a publish at work has done by its stage, as long as no edit and no
  other publish overlaps it (`clean`): it plans the list and the names of the row (`PlanFor`)
  and has sent the batches, or the items, that its stage needs (`SentFor`). For Spotify the
  copy is a prefix of the plan that adjacent batches extend. For YouTube Music no item is
  there twice as long as publishes have never overlapped (`Twiceless`: removes, adds at the
  end and moves keep that, `RemoveTwiceless`, `AppendTwiceless`, `MovedTwiceless`), so a copy
  with nothing stray and every slot filled as wanted is what is wanted (`InPlaceIsAll`).
  `Apart` adds that two publishes on their way have spoilt each other. That the tracks can be
  listed by rank at all is `WantedListed`, from distinct positions. An edit while no publish
  has called the vendor (`Quiet`) raises the badge or changes nothing the copy shows
  (`EditingFacts`).
- `LockInv`: open transactions have disjoint chunks, and the ids one of them found
  unclaimed still are; so what it commits is what a whole merge would claim now.
- `ReadsStand`: the values an open transaction will write are those it would compute
  at its commit. It needs `Unmerged` (no two ids share a track): the staleness of an id
  then depends on its own, locked source row. Without the hypothesis both
  theorems are false: two runs of different weeks, each with one id of a merged track, can
  overwrite the newer row (`catalog_weeks`). `catalog` shows them for merged ids that always
  come in one chunk.
- `Shown`: the row of a claimed track has every value of its source row, and an
  unclaimed id was never observed, so its first merge is never stale.
- `InForce`: an observation carries the time of a run that lists the id (`ObservedInv`);
  every chunk a worker has behind it, and every chunk of a completed run, was reached
  (`ReachInv`); and since a raw object is overwritten *before* its run is recorded and
  read when a delivery begins, the deliveries of that run or later ones work with the data
  the object holds now (`CurrentInv`). An overtaken delivery is then of an older run, which
  the guard of the upsert refuses.
- `DeliveryInv` counts: for a run under way, deliveries to come, invocations that have it
  and faults so far are at least the deliveries a message has. A delivery turns one to
  come into one under way, a fault turns one under way into a fault, so with fewer faults
  than deliveries one of the first two is left. A replay is not counted, for it has no
  message to come back as. `DoneInv`: an invocation that acknowledges has settled
  its run, which keeps the count when the message goes.
- `HeldInv`: a token some request has got and not yet stored is one the vendor takes, and
  of a rotating vendor it is neither the one on file, nor one another request holds, nor
  one a reader of the stored token is about to send. A write of it can then not be of a
  token that was retired meanwhile, and `StoredInv` (the token on file is good, or its
  successor is held, or was lost) survives the write.
- `OneOwner`: every session none of whose answers was lost belongs to one browser, whose
  cookie or whose one request under way has its current token; the Web Lock keeps it one
  request. A token that does not match the hash is then never an honest one.
- `Sound` is the types with what every stage of a request and of a delivery has behind it:
  messages are of runs opened for them, and a run is picked up before it is counted.
- `Stored`, `Tallied`: a counted message has its cells and its label's info; the
  counters of a run none of whose messages was delivered again are those of the
  messages counted, so a full count is every message.
- `Repeated`: info and flag of a label that one run at a time has written are of the same
  answer, or one delivery is between writing the two.
- `Paid`: runs that have the label and claims still without a run are, together, at most
  its attempts.
- `Measured`: also a run that counted a message twice counted whole searches, so the
  division by `Vendors` in the mapping is exact.
- `Held`, `Backed`: what each stage of a batch may have in hand; and that every track a
  batch may mark as searched has its row in one of the three tables while the batch owns
  its claim.
- `Going`: the batch of a claim has the track in hand at every stage (`Holds`) and has, at
  a stage that works on a track, one to work on (`Busy`). Where it is differs: in `todo`
  before its search, in `current` once its row is stored, in `unconfirmed` while the
  failures of the streak wait to be told from a ban.
- `ModelInv`: a file is written once, under a key nobody reuses (`FilesStand`), the model
  saved as a version is that of the row's key (`SavedStand`, `RowStands`), a
  job that has read version and key has read a pair that was once in the row
  (`JobStands`); so what it writes is the prediction of the model saved under it.
- `NoTrackForgotten`: while a profiled track of a trained style lacks the current
  suggestion, its own message is still to be sent, or a worker leads to it, or a message
  does *and* so does every worker that holds that message (a twin that is done will delete
  it). `Hands` says what a failed delivery needs to fall back on: the message of the slot
  is the one the worker has, and asks whatever the worker was still to do. The lemma
  `PageReaches` is the arithmetic of the pages: a track that is not on a page is
  before it, or after a full one.

Assumptions beyond types: labels, runs and callers of `Enrichment` are finite sets (it
counts them), and so are the tracks of `Playlist`; the ids of sweeps are none of the values of the column they are written
to; `None` and the like are not rows.

Left to TLC: liveness under fairness (`EveryPairFinished`, `FlaggedLeavesPlay`,
`QueuedRunSettles`, `NoTrackWaitsForever`) and anything with ENABLED, which tlapm does not
reason about. No module declares a RECURSIVE operator. What these four rest on is proved
as safety, for every value of the constants: that whoever waits has somebody who can take
the next step.

| Liveness, by TLC | Its safety half, by tlapm | Not proved |
|---|---|---|
| `EveryPairFinished` | `LeasesAlwaysAccounted` | that a client takes its next step, an abandoned lease runs out, and a failure or a requeue comes only finitely often |
| `FlaggedLeavesPlay` | `FlaggedAlwaysAwaitRule` | that the request applies the rule |
| `QueuedRunSettles` | `UnderwayAlwaysStays` | that a message is received and an invocation goes on |
| `NoTrackWaitsForever` | `ClaimsAlwaysHeld`, `BatchesAlwaysGoOn`, `BatchesAlwaysWindDown` | that a batch is run, and that those before a track in the order of claims run out |

`MaxFaults < MaxReceive` is the condition under which the SQS policy promises anything: with as
many deaths that report nothing as a message has deliveries, the message goes to the
dead-letter queue and the run stays RAW_SAVED. `catalog` checks `QueuedRunSettles` under the
same condition. `IsFiniteSet(Worker)` and `IsFiniteSet(Track)` let the proofs count.

## 7. Findings

1. `race_finalize_move` — a move that commits between the reads and the status flip of
   `finalize_block` leaves a track in a STAGING bucket of a finalized block that was
   never promoted (openapi.yaml:3625 says every track is).
2. `auth_logout` — a sign-out finds its session in the refresh cookie, which is set with
   Path=/auth/refresh, so no browser sends it to /auth/logout: the session stays active
   (auth-flow.md:201 says it is revoked).
3. `catalog_weeks` — two runs of different weeks, each with one id of a track the early
   canonicalizer merged, canonicalized at once: both read the track, the newer commits, the
   older overwrites it (catalog_writes.py:45-48 says the locks exclude it; they are on the rows
   of the chunk). A replay in order of `started_at`, one run at a time, repairs the row.

Seen while modelling, without a run of their own.

Curation:

- A category deleted while a block is being created keeps an active STAGING bucket
  (data-model.md:232); the block cannot be finalized once the bucket holds a track.
- A category created while a block is being created gets no bucket in it.
- A flagged track enters play through a slow `create_block` or a transfer, and stays there
  (analysis.py:103 says it never does); a track added
  to a category while it is being deleted keeps its tags.
- openapi.yaml:3559 says a transfer moves; it copies. openapi.yaml:3628 says finalize
  is idempotent; the second call is refused. openapi.yaml:4732 says removing a track
  from a playlist is idempotent; it answers 404 the second time.
- `triage_service.classify_bucket_type` calls itself a mirror of the SQL CASE and lacks
  the AI branch; data-model.md:242 freezes finalized blocks, the AI rule adds to their
  DISCARD.

Analysis:

- Overlapping recounts of a label leave the older aggregate (analysis.py:43).
- A Lambda that stops between storing a result and applying the AI rule leaves the
  flagged track in play: the client's second post is refused as `lease_lost`
  (analysis.py:103 says it never stays).
- A retried claim may not get back all tracks of its first attempt (analysis.py:162).

Playlists and their copies:

- Cover changes do not raise the YouTube Music badge whose text names them
  (frontend/src/i18n/en.json:338).
- Overlapping appends can exceed the limit of 1000 tracks; overlapping removes leave
  gaps in the positions.
- A republish that fails leaves the badge off if it was off before; the save of a
  publish clears the badge an overlapping edit has raised; a cleared cover stays on the
  Spotify copy; a cover that fails on YouTube Music is not flagged.
- Two publishes of one playlist that overlap: each may make a copy, of which the last to save
  is kept; the copy may mix both and no badge tells. On YouTube Music an item put in twice
  stays through later publishes, which compare sets of videos.
- A batch that Spotify applied and answered 5xx is in the copy twice, without a badge.
- A copy whose first publish fails is not recorded; the next publish makes another.
- Two tracks matched to one video leave a stray item in the YouTube Music copy.

Ingest and canonicalization:

- `started_at` of a run is taken after the fetch and the upload (routes_ingest.py:186),
  although worker_handler.py:118 calls it the time Beatport was read: of two overlapping
  collects the one that read first may count as the newer.
- A permanent error deletes the message although `set_run_failed` failed too
  (worker_handler.py:168-202): the run stays RAW_SAVED and nothing delivers it again.
- `set_run_failed` has no guard: a duplicate delivery that fails marks a completed run
  FAILED.
- Two ids of one track in one chunk, the larger listed first: the smaller, stale, still
  fills a column that was NULL when it was read, after the larger has written it; the
  next replay of the run changes the row again (canonicalize.py:56 says replays
  converge; they do, in the second pass).
- A run whose message is never sent stays RAW_SAVED; nothing but a new collect or a
  backfill takes it up.

Sign-in and vendor tokens:

- Spotify's answer 400 is raised as a failed exchange, so the branch of a revoked Spotify
  token (auth_handler.py:421) is not reached and the session stays.
- An answer lost after the rotation makes the browser's next refresh a replay, which ends
  all sessions; ADR-0015 accepts it. `expires_at` is not moved by a rotation. A revoked
  session can be used until its access JWT runs out.
- A vendor that rotates only sometimes could be left with a retired token on file:
  the model has vendors that always or never do.

Enrichment:

- A message delivered again is counted again, so such a run may complete early; the
  archived plan 2026-05-18 (425, 428) admits it.
- The outcome of a late or manual search settles the row of a newer attempt; a search in
  which every vendor failed overwrites good info with an empty profile; a label both of
  whose messages were lost stays queued for good.
- ADR-0016:38 skips what has merged info; a reclaimed row is searched all the same.
- Of two runs that have a label at once, info and flag may be of different ones.

YouTube:

- A reject from a page whose review the sweep has closed meanwhile leaves the closed row,
  which Spotify may reopen: entity-resolution.md:182 calls a reject final.
- Reviews are closed for tracks that a Spotify batch has only claimed.
- A killed batch strands its claim; `release_youtube_search_claim` names crashes among
  what it repairs, and is not run by one.
- A batch marks a track that was reopened under its hands, perhaps without having searched it. A second chance may come more
  than once. A late automatic match overwrites a person's.
- As many tracks whose search always fails as make a streak keep the sweep in bans.

Suggestions:

- A track matched to a video that already has a profile is not scored until the next
  retrain.
- A doubled delivery whose superseded twin deletes the message, while the delivery that
  saved the model dies, loses the chain of that version; the model counts it as `lost`.
- Labels that shrink between the save and a redelivery leave the version without a chain:
  `enough` only grows in the model.

## 8. What is not modelled and why

Not modelled yet: auto-ingest, the comments collection, the positions of categories and
the branches of the triage classification that depend on dates (section 2). User
deletion and export are one transaction of ordered deletes and a list of selects, and
user styles one table replaced whole: nothing of them is left to interleave.

Left out for good: read-only queries and statistics (no state), numeric code (feature
vectors, training, scoring: no protocol, and out of TLC's reach), HTTP parsing and
formatting, telemetry and lakehouse (append-only files and declarative SQL),
infrastructure, migrations (the schema is used as the source of the constraints), vendor
HTTP clients except for what their retries do to a publish, the frontend except for the
lock around its refresh.

Inside modelled components: relations and track artists, screening and quarantine,
dry runs and the plan of a backfill (any recorded run may be replayed), counts and
`updated_at` of canonicalization; names and ordering of categories, the tag catalogue,
creation and import of playlists, feature and waveform uploads of the analyzer (one
upsert each), descriptions and privacy of published playlists, rate limits beyond "the
call fails"; PKCE, access tokens and encryption; what enrichment vendors say beyond AI
content, the resolver of social links, the dead letter queue of enrichment; which video
matched, its score, the pacing of YouTube calls, Spotify's batches; the similarity jobs
and the admin's view of models.

------------------------------ MODULE Curation ------------------------------
(***************************************************************************)
(* The triage and category tables of one user, and the requests of the     *)
(* curation API (src/src/collector/curation) as transactions that run      *)
(* alone: every action below is one whole request, reads and writes        *)
(* together.  This is what a caller of the API would like to believe.      *)
(* CurationTx cuts each request at its SQL statements and lets them        *)
(* interleave.                                                             *)
(*                                                                         *)
(* Each request is written as a guard (what the repository method checks)  *)
(* and an effect (the rows it writes, as a function of what it has read).  *)
(* CurationTx reuses the effects with reads that may have gone stale.      *)
(*                                                                         *)
(* A bucket is named by its type (technical buckets) or by its category    *)
(* (STAGING buckets): the two partial unique indexes of triage_buckets,    *)
(* db_models.py:436-446, make that name exact within a block.              *)
(***************************************************************************)
EXTENDS Naturals, FiniteSets

CONSTANTS
    Track,          \* clouder_tracks rows
    Category,       \* category ids, used once each (uuid4)
    Block,          \* triage block ids, used once each (uuid4)
    Tech,           \* technical bucket types
    DISCARD,        \* the technical bucket the AI rule fills
    Style,          \* clouder_styles rows
    BlockStyle,     \* the style a block is created for
    CategoryStyle,  \* the style a category is created for
    Window,         \* Window[b]: tracks of b's style published in b's dates
    Sorted,         \* Sorted[b][t]: where the CASE puts an unflagged track
    ByHand,         \* "no source block" of a category_tracks row
    NotIn           \* "no such category_tracks row"

ASSUME CurationAssumption ==
    /\ DISCARD \in Tech
    /\ Tech \cap Category = {}
    /\ ByHand \notin Block
    /\ NotIn \notin Block \cup {ByHand}
    /\ BlockStyle \in [Block -> Style]
    /\ CategoryStyle \in [Category -> Style]
    /\ Window \in [Block -> SUBSET Track]
    /\ Sorted \in [Block -> [Track -> Tech \ {DISCARD}]]

VARIABLES
    block,      \* triage_blocks: status, soft delete flag, ai_to_discard
    category,   \* categories: not created, alive or soft-deleted
    staging,    \* the STAGING triage_buckets rows: none, active or inactive
    held,       \* triage_bucket_tracks: the tracks each bucket holds
    members,    \* category_tracks: NotIn, or the row's source_triage_block_id
    tagged,     \* tracks with at least one track_tags row of the user
    flagged,    \* tracks a stored analyzer result flags as AI
    toDiscard   \* flagged tracks whose discard has not been committed yet

dbVars == <<block, category, staging, held, members, tagged, flagged, toDiscard>>

Bucket == Tech \cup Category
Source == Block \cup {ByHand}

BlockRow == [status : {"none", "IN_PROGRESS", "FINALIZED"},
             deleted : BOOLEAN, ai : BOOLEAN]

TypeOK ==
    /\ block \in [Block -> BlockRow]
    /\ category \in [Category -> {"none", "alive", "deleted"}]
    /\ staging \in [Block -> [Category -> {"none", "active", "inactive"}]]
    /\ held \in [Block -> [Bucket -> SUBSET Track]]
    /\ members \in [Category -> [Track -> Source \cup {NotIn}]]
    /\ tagged \in SUBSET Track
    /\ flagged \in SUBSET Track
    /\ toDiscard \in SUBSET flagged

Init ==
    /\ block = [b \in Block |-> [status |-> "none", deleted |-> FALSE, ai |-> FALSE]]
    /\ category = [c \in Category |-> "none"]
    /\ staging = [b \in Block |-> [c \in Category |-> "none"]]
    /\ held = [b \in Block |-> [k \in Bucket |-> {}]]
    /\ members = [c \in Category |-> [t \in Track |-> NotIn]]
    /\ tagged = {}
    /\ flagged = {}
    /\ toDiscard = {}

-----------------------------------------------------------------------------
(* What the queries ask of the tables.                                     *)

Created(b) == block[b].status # "none"
Visible(b) == Created(b) /\ ~block[b].deleted
Open(b)    == Visible(b) /\ block[b].status = "IN_PROGRESS"

BucketsOf(b) == Tech \cup {c \in Category : staging[b][c] # "none"}
Inactive(b, k) == k \in Category /\ staging[b][k] = "inactive"
HeldBy(b) == UNION {held[b][k] : k \in Bucket}

Alive(c)  == category[c] = "alive"
In(c, t)  == members[c][t] # NotIn
Kept(t)   == \E c \in Category : Alive(c) /\ In(c, t)
StyleCategories(b) == {c \in Category : Alive(c) /\ CategoryStyle[c] = BlockStyle[b]}
KeptInStyle(b, t)  == \E c \in StyleCategories(b) : In(c, t)
Taggable(t) == Kept(t) \/ \E b \in Block : Open(b) /\ t \in HeldBy(b)

\* Step 5 of create_block: the tracks of the window the user has not kept yet,
\* each in the bucket of the first WHEN that matches.
Classified(b, ai) ==
    [k \in Bucket |->
        {t \in Window[b] : /\ ~KeptInStyle(b, t)
                           /\ k = IF ai /\ t \in flagged THEN DISCARD ELSE Sorted[b][t]}]

\* What finalize_block promotes: the tracks of the active STAGING buckets.
Promotable(b) ==
    [c \in Category |-> IF staging[b][c] = "active" THEN held[b][c] ELSE {}]

-----------------------------------------------------------------------------
(* Effects: the rows a request writes, given what it has read.             *)

CreateBlockEffect(b, ai, cats, put) ==
    /\ block' = [block EXCEPT ![b] = [status |-> "IN_PROGRESS", deleted |-> FALSE, ai |-> ai]]
    /\ staging' = [staging EXCEPT ![b] =
                     [c \in Category |-> IF c \in cats THEN "active" ELSE "none"]]
    /\ held' = [held EXCEPT ![b] = put]
    /\ UNCHANGED <<category, members, tagged, flagged, toDiscard>>

\* DELETE from the source bucket, INSERT .. ON CONFLICT DO NOTHING in the target.
MoveEffect(b, from, to, ts) ==
    /\ held' = [held EXCEPT ![b][from] = @ \ ts, ![b][to] = @ \cup ts]
    /\ UNCHANGED <<block, category, staging, members, tagged, flagged, toDiscard>>

\* INSERT only: the source block keeps its rows.
TransferEffect(d, to, ts) ==
    /\ held' = [held EXCEPT ![d][to] = @ \cup ts]
    /\ UNCHANGED <<block, category, staging, members, tagged, flagged, toDiscard>>

\* Mutant: ON CONFLICT DO UPDATE, the last source wins.
FinalizeLastSourceWins(b, promoted) ==
    /\ members' = [c \in Category |-> [t \in Track |->
                     IF t \in promoted[c] THEN b ELSE members[c][t]]]
    /\ block' = [block EXCEPT ![b].status = "FINALIZED"]
    /\ UNCHANGED <<category, staging, held, tagged, flagged, toDiscard>>

\* add_tracks_bulk per category (ON CONFLICT DO NOTHING keeps the first source),
\* then the status flip.
FinalizeEffect(b, promoted) ==
    /\ members' = [c \in Category |-> [t \in Track |->
                     IF t \in promoted[c] /\ ~In(c, t) THEN b ELSE members[c][t]]]
    /\ block' = [block EXCEPT ![b].status = "FINALIZED"]
    /\ UNCHANGED <<category, staging, held, tagged, flagged, toDiscard>>

CreateCategoryEffect(c, blocks) ==
    /\ category' = [category EXCEPT ![c] = "alive"]
    /\ staging' = [b \in Block |->
                     IF b \in blocks THEN [staging[b] EXCEPT ![c] = "active"] ELSE staging[b]]
    /\ UNCHANGED <<block, held, members, tagged, flagged, toDiscard>>

\* Mutant: the category goes, its STAGING buckets stay active.
DeleteCategoryKeepsStaging(c, former) ==
    /\ category' = [category EXCEPT ![c] = "deleted"]
    /\ tagged' = tagged \ {t \in former : ~\E d \in Category \ {c} : Alive(d) /\ In(d, t)}
    /\ UNCHANGED <<block, staging, held, members, flagged, toDiscard>>

\* The tags of the former members go, unless another alive category keeps the track.
DeleteCategoryEffect(c, former) ==
    /\ category' = [category EXCEPT ![c] = "deleted"]
    /\ staging' = [b \in Block |->
                     [staging[b] EXCEPT ![c] = IF @ = "active" THEN "inactive" ELSE @]]
    /\ tagged' = tagged \ {t \in former : ~\E d \in Category \ {c} : Alive(d) /\ In(d, t)}
    /\ UNCHANGED <<block, held, members, flagged, toDiscard>>

AddTrackEffect(c, t, src) ==
    /\ members' = [members EXCEPT ![c][t] = IF @ = NotIn THEN src ELSE @]
    /\ UNCHANGED <<block, category, staging, held, tagged, flagged, toDiscard>>

RemoveTrackEffect(c, t) ==
    /\ members' = [members EXCEPT ![c][t] = NotIn]
    /\ tagged' = IF \E d \in Category \ {c} : Alive(d) /\ In(d, t)
                 THEN tagged ELSE tagged \ {t}
    /\ UNCHANGED <<block, category, staging, held, flagged, toDiscard>>

\* _DISCARD_AI: in the open blocks that keep the rule a flagged track moves to
\* DISCARD; kept in a category it leaves it for the DISCARD bucket of the block it
\* came from, unless that block opted out.  _UNTAG follows in the same transaction.
Evicted(c, t) ==
    /\ In(c, t)
    /\ members[c][t] \in Block => block[members[c][t]].ai

\* Mutant: the INSERT takes the uncategorized rows and forgets the unbucketed ones.
DiscardForgetsBuckets(ts) ==
    LET rule(b) == Open(b) /\ block[b].ai
        back(b) == {t \in ts : \E c \in Category : Evicted(c, t) /\ members[c][t] = b}
    IN  /\ held' = [b \in Block |-> [k \in Bucket |->
                      IF k = DISCARD THEN held[b][k] \cup back(b)
                      ELSE IF rule(b) THEN held[b][k] \ ts ELSE held[b][k]]]
        /\ members' = [c \in Category |-> [t \in Track |->
                         IF t \in ts /\ Evicted(c, t) THEN NotIn ELSE members[c][t]]]
        /\ toDiscard' = toDiscard \ ts
        /\ UNCHANGED <<block, category, staging, tagged, flagged>>

DiscardEffect(ts) ==
    LET rule(b) == Open(b) /\ block[b].ai
        back(b) == {t \in ts : \E c \in Category : Evicted(c, t) /\ members[c][t] = b}
    IN  /\ held' = [b \in Block |-> [k \in Bucket |->
                      IF k = DISCARD
                      THEN held[b][k] \cup back(b)
                             \cup (IF rule(b) THEN ts \cap HeldBy(b) ELSE {})
                      ELSE IF rule(b) THEN held[b][k] \ ts ELSE held[b][k]]]
        /\ members' = [c \in Category |-> [t \in Track |->
                         IF t \in ts /\ Evicted(c, t) THEN NotIn ELSE members[c][t]]]
        /\ tagged' = tagged \ {t \in ts :
                         /\ \E c \in Category : Evicted(c, t)
                         /\ \A c \in Category : Alive(c) /\ In(c, t) => Evicted(c, t)}
        /\ toDiscard' = toDiscard \ ts
        /\ UNCHANGED <<block, category, staging, flagged>>

-----------------------------------------------------------------------------
(* Guards: what a request checks before it writes.                         *)

\* Mutants: the guard query without its bucket joins, and without its status check.
MayMoveAnyBucket(b, from, to) == Open(b) /\ ~Inactive(b, to)

MayMoveFinalized(b, from, to) ==
    /\ Visible(b)
    /\ {from, to} \subseteq BucketsOf(b)
    /\ ~Inactive(b, to)

MayMove(b, from, to) ==
    /\ Open(b)
    /\ {from, to} \subseteq BucketsOf(b)
    /\ ~Inactive(b, to)

\* The target row is joined to its block whatever the source block's status is.
MayTransfer(s, d, to) ==
    /\ Open(d)
    /\ to \in BucketsOf(d)
    /\ ~Inactive(d, to)
    /\ BlockStyle[s] = BlockStyle[d]

InactiveEmpty(b) == \A c \in Category : staging[b][c] = "inactive" => held[b][c] = {}

-----------------------------------------------------------------------------
(* Requests.                                                               *)

CreateBlock(b, ai) ==
    /\ ~Created(b)
    /\ CreateBlockEffect(b, ai, StyleCategories(b), Classified(b, ai))

Move(b, from, to, ts) ==
    /\ MayMove(b, from, to)
    /\ from # to
    /\ ts \subseteq held[b][from]
    /\ MoveEffect(b, from, to, ts)

Transfer(s, d, to, ts) ==
    /\ Visible(s)
    /\ MayTransfer(s, d, to)
    /\ ts \subseteq HeldBy(s)
    /\ TransferEffect(d, to, ts)

Finalize(b) ==
    /\ Open(b)
    /\ InactiveEmpty(b)
    /\ \A c \in Category : Promotable(b)[c] # {} => Alive(c)
    /\ FinalizeEffect(b, Promotable(b))

SoftDeleteBlock(b) ==
    /\ Visible(b)
    /\ block' = [block EXCEPT ![b].deleted = TRUE]
    /\ UNCHANGED <<category, staging, held, members, tagged, flagged, toDiscard>>

CreateCategory(c) ==
    /\ category[c] = "none"
    /\ CreateCategoryEffect(c, {b \in Block : Open(b) /\ BlockStyle[b] = CategoryStyle[c]})

DeleteCategory(c) ==
    /\ Alive(c)
    /\ DeleteCategoryEffect(c, {t \in Track : In(c, t)})

AddTrack(c, t, src) ==
    /\ src \in Block => Created(src)
    /\ Alive(c)
    /\ AddTrackEffect(c, t, src)

RemoveTrack(c, t) ==
    /\ Alive(c)
    /\ In(c, t)
    /\ RemoveTrackEffect(c, t)

TagTrack(t) ==
    /\ Taggable(t)
    /\ tagged' = tagged \cup {t}
    /\ UNCHANGED <<block, category, staging, held, members, flagged, toDiscard>>

UntagTrack(t) ==
    /\ tagged' = tagged \ {t}
    /\ UNCHANGED <<block, category, staging, held, members, flagged, toDiscard>>

\* Mutant: the rule is queued for a result the lease check refused.
RecordFlagUnstored(t) ==
    /\ toDiscard' = toDiscard \cup {t}
    /\ UNCHANGED <<block, category, staging, held, members, tagged, flagged>>

\* record_analysis_results commits the flagged result, and only then opens the
\* transaction that applies the rule.
RecordFlag(t) ==
    /\ flagged' = flagged \cup {t}
    /\ toDiscard' = toDiscard \cup {t}
    /\ UNCHANGED <<block, category, staging, held, members, tagged>>

DiscardAiTracks(t) ==
    /\ t \in toDiscard
    /\ DiscardEffect({t})

Next ==
    \/ \E b \in Block, ai \in BOOLEAN : CreateBlock(b, ai)
    \/ \E b \in Block, from, to \in Bucket, ts \in (SUBSET Track) \ {{}} : Move(b, from, to, ts)
    \/ \E s, d \in Block, to \in Bucket, ts \in (SUBSET Track) \ {{}} : Transfer(s, d, to, ts)
    \/ \E b \in Block : Finalize(b)
    \/ \E b \in Block : SoftDeleteBlock(b)
    \/ \E c \in Category : CreateCategory(c)
    \/ \E c \in Category : DeleteCategory(c)
    \/ \E c \in Category, t \in Track, src \in Source : AddTrack(c, t, src)
    \/ \E c \in Category, t \in Track : RemoveTrack(c, t)
    \/ \E t \in Track : TagTrack(t)
    \/ \E t \in Track : UntagTrack(t)
    \/ \E t \in Track : RecordFlag(t)
    \/ \E t \in Track : DiscardAiTracks(t)

Spec == Init /\ [][Next]_dbVars

-----------------------------------------------------------------------------
(* Properties.                                                             *)

\* STAGING buckets mirror the categories: an active one belongs to an alive
\* category of the block's style, and every alive category of the style has one in
\* every open block.  Three methods in two repositories keep it together
\* (create_block, snapshot_category_into_active_blocks,
\* mark_staging_inactive_for_category); where it breaks, finalize_block answers 404
\* for good or a category cannot be chosen as a destination.
StagingMirrorsCategories ==
    \A b \in Block, c \in Category :
        /\ staging[b][c] = "active" => Alive(c)
        /\ staging[b][c] # "none" => BlockStyle[b] = CategoryStyle[c]
        /\ Open(b) /\ Alive(c) /\ BlockStyle[b] = CategoryStyle[c] => staging[b][c] = "active"

\* A track only ever sits in a bucket its block has: the rows written from stale
\* bucket ids, by the AI rule or by a transfer, never outlive their bucket.
HeldInOwnBuckets ==
    \A b \in Block : \A k \in Bucket :
        held[b][k] # {} => Created(b) /\ k \in BucketsOf(b)

\* Sorting never loses a track: once a block holds a track it holds it in some
\* bucket for good, through moves, the AI rule, a finalize, a delete of the category
\* whose bucket it sits in (spec D8: "Tracks inside are not deleted").
TracksNeverLost ==
    [][\A b \in Block : HeldBy(b) \subseteq HeldBy(b)']_dbVars

\* First writer wins: the source block of a category row is never rewritten while
\* the row lives, although finalize, re-finalize and hand adds all insert it again.
\* The AI rule sends the track back to that block.
ProvenanceKept ==
    [][\A c \in Category, t \in Track :
          In(c, t) /\ In(c, t)' => members'[c][t] = members[c][t]]_dbVars

\* finalize_block promotes whole blocks: in the step that finalizes a block every
\* track of every STAGING bucket is in the bucket's category, and that category is
\* alive.
PromotedWhole(b) ==
    \A c \in Category : staging[b][c] # "none" =>
        \A t \in held'[b][c] : Alive(c)' /\ In(c, t)'

FinalizePromotesWhole ==
    [][\A b \in Block :
          block[b].status = "IN_PROGRESS" /\ block'[b].status = "FINALIZED"
             => PromotedWhole(b)]_dbVars

\* A finalized block is a record of what was decided: it stays finalized and no
\* bucket of it changes, except that the AI rule may add to its DISCARD.
FinalizedFrozen ==
    [][\A b \in Block : block[b].status = "FINALIZED" =>
          /\ block'[b].status = "FINALIZED"
          /\ \A k \in Bucket \ {DISCARD} : held'[b][k] = held[b][k]
          /\ held[b][DISCARD] \subseteq held'[b][DISCARD]]_dbVars

=============================================================================

--------------------------- MODULE Curation_proofs ---------------------------
(***************************************************************************)
(* Proofs about Curation, whose requests run alone, and about CurationTx,  *)
(* whose requests are cut at their SQL statements: what holds in every     *)
(* interleaving, and that requests which do not overlap implement those of *)
(* Curation.                                                               *)
(***************************************************************************)
EXTENDS CurationTx, TLAPS

-----------------------------------------------------------------------------
(* Type correctness, one lemma per effect.                                 *)

LEMMA CreateBlockType ==
    ASSUME TypeOK, NEW b \in Block, NEW ai \in BOOLEAN, NEW cats \in SUBSET Category,
           NEW put \in [Bucket -> SUBSET Track], CreateBlockEffect(b, ai, cats, put)
    PROVE  TypeOK'
  BY DEF TypeOK, CreateBlockEffect, BlockRow

LEMMA MoveType ==
    ASSUME TypeOK, NEW b \in Block, NEW from \in Bucket, NEW to \in Bucket,
           NEW ts \in SUBSET Track, MoveEffect(b, from, to, ts)
    PROVE  TypeOK'
  BY DEF TypeOK, MoveEffect

LEMMA TransferType ==
    ASSUME TypeOK, NEW d \in Block, NEW to \in Bucket, NEW ts \in SUBSET Track,
           TransferEffect(d, to, ts)
    PROVE  TypeOK'
  BY DEF TypeOK, TransferEffect

LEMMA FinalizeType ==
    ASSUME TypeOK, NEW b \in Block, NEW promoted \in [Category -> SUBSET Track],
           FinalizeEffect(b, promoted)
    PROVE  TypeOK'
  BY DEF TypeOK, FinalizeEffect, BlockRow, Source, In

LEMMA CreateCategoryType ==
    ASSUME TypeOK, NEW c \in Category, NEW blocks \in SUBSET Block,
           CreateCategoryEffect(c, blocks)
    PROVE  TypeOK'
  BY DEF TypeOK, CreateCategoryEffect

LEMMA DeleteCategoryType ==
    ASSUME TypeOK, NEW c \in Category, NEW former \in SUBSET Track,
           DeleteCategoryEffect(c, former)
    PROVE  TypeOK'
  BY DEF TypeOK, DeleteCategoryEffect

LEMMA AddTrackType ==
    ASSUME TypeOK, NEW c \in Category, NEW t \in Track, NEW src \in Source,
           AddTrackEffect(c, t, src)
    PROVE  TypeOK'
  BY DEF TypeOK, AddTrackEffect, Source

LEMMA RemoveTrackType ==
    ASSUME TypeOK, NEW c \in Category, NEW t \in Track, RemoveTrackEffect(c, t)
    PROVE  TypeOK'
  BY DEF TypeOK, RemoveTrackEffect, Source

LEMMA DiscardType ==
    ASSUME TypeOK, NEW ts \in SUBSET Track, DiscardEffect(ts)
    PROVE  TypeOK'
  <1>1. held' \in [Block -> [Bucket -> SUBSET Track]]
    BY DEF TypeOK, DiscardEffect, HeldBy
  <1>2. members' \in [Category -> [Track -> Source \cup {NotIn}]]
    BY DEF TypeOK, DiscardEffect
  <1>3. /\ tagged' \in SUBSET Track
        /\ toDiscard' \in SUBSET flagged'
        /\ UNCHANGED <<block, category, staging, flagged>>
    BY DEF TypeOK, DiscardEffect
  <1> QED BY <1>1, <1>2, <1>3 DEF TypeOK

LEMMA ClassifiedType ==
    ASSUME NEW b \in Block, NEW ai \in BOOLEAN
    PROVE  Classified(b, ai) \in [Bucket -> SUBSET Track]
  BY CurationAssumption DEF Classified

LEMMA PromotableType ==
    ASSUME TypeOK, NEW b \in Block
    PROVE  Promotable(b) \in [Category -> SUBSET Track]
  BY DEF Promotable, TypeOK, Bucket

LEMMA HeldByType == ASSUME TypeOK, NEW b \in Block PROVE HeldBy(b) \subseteq Track
  BY DEF HeldBy, TypeOK

LEMMA TypeStep == TypeOK /\ [Next]_dbVars => TypeOK'
  <1> SUFFICES ASSUME TypeOK, [Next]_dbVars PROVE TypeOK'
    OBVIOUS
  <1>1. ASSUME NEW b \in Block, NEW ai \in BOOLEAN, CreateBlock(b, ai) PROVE TypeOK'
    BY <1>1, CreateBlockType, ClassifiedType DEF CreateBlock, StyleCategories
  <1>2. ASSUME NEW b \in Block, NEW from \in Bucket, NEW to \in Bucket,
               NEW ts \in (SUBSET Track) \ {{}}, Move(b, from, to, ts)
        PROVE  TypeOK'
    BY <1>2, MoveType DEF Move
  <1>3. ASSUME NEW s \in Block, NEW d \in Block, NEW to \in Bucket,
               NEW ts \in (SUBSET Track) \ {{}}, Transfer(s, d, to, ts)
        PROVE  TypeOK'
    BY <1>3, TransferType DEF Transfer
  <1>4. ASSUME NEW b \in Block, Finalize(b) PROVE TypeOK'
    BY <1>4, FinalizeType, PromotableType DEF Finalize
  <1>5. ASSUME NEW b \in Block, SoftDeleteBlock(b) PROVE TypeOK'
    BY <1>5 DEF SoftDeleteBlock, TypeOK, BlockRow
  <1>6. ASSUME NEW c \in Category, CreateCategory(c) PROVE TypeOK'
    BY <1>6, CreateCategoryType DEF CreateCategory
  <1>7. ASSUME NEW c \in Category, DeleteCategory(c) PROVE TypeOK'
    BY <1>7, DeleteCategoryType DEF DeleteCategory
  <1>8. ASSUME NEW c \in Category, NEW t \in Track, NEW src \in Source, AddTrack(c, t, src)
        PROVE  TypeOK'
    BY <1>8, AddTrackType DEF AddTrack
  <1>9. ASSUME NEW c \in Category, NEW t \in Track, RemoveTrack(c, t) PROVE TypeOK'
    BY <1>9, RemoveTrackType DEF RemoveTrack
  <1>10. ASSUME NEW t \in Track, TagTrack(t) PROVE TypeOK'
    BY <1>10 DEF TagTrack, TypeOK
  <1>11. ASSUME NEW t \in Track, UntagTrack(t) PROVE TypeOK'
    BY <1>11 DEF UntagTrack, TypeOK
  <1>12. ASSUME NEW t \in Track, RecordFlag(t) PROVE TypeOK'
    BY <1>12 DEF RecordFlag, TypeOK
  <1>13. ASSUME NEW t \in Track, DiscardAiTracks(t) PROVE TypeOK'
    BY <1>13, DiscardType DEF DiscardAiTracks
  <1>14. CASE UNCHANGED dbVars
    BY <1>14 DEF dbVars, TypeOK
  <1> QED
    BY <1>1, <1>2, <1>3, <1>4, <1>5, <1>6, <1>7, <1>8, <1>9, <1>10, <1>11, <1>12, <1>13, <1>14
    DEF Next

LEMMA TypeInit == Init => TypeOK
  BY CurationAssumption DEF Init, TypeOK, BlockRow, Source

\* The tables keep their shape, whatever the requests do.
THEOREM TypeCorrect == Spec => []TypeOK
  BY TypeInit, TypeStep, PTL DEF Spec

-----------------------------------------------------------------------------
(* STAGING buckets mirror the categories.  The formula alone is not         *)
(* inductive: a category that does not exist yet must have no bucket        *)
(* anywhere and a block that does not exist yet no bucket at all, or the    *)
(* create that brings them in would inherit one.                           *)

NothingBeforeCreation ==
    \A b \in Block, c \in Category :
        category[c] = "none" \/ ~Created(b) => staging[b][c] = "none"

Mirror == TypeOK /\ NothingBeforeCreation /\ StagingMirrorsCategories

LEMMA MirrorInit == Init => Mirror
  BY TypeInit DEF Init, Mirror, NothingBeforeCreation, StagingMirrorsCategories,
     Created, Open, Visible, Alive

LEMMA MirrorCreateBlock ==
    ASSUME Mirror, NEW b \in Block, NEW ai \in BOOLEAN, CreateBlock(b, ai)
    PROVE  NothingBeforeCreation' /\ StagingMirrorsCategories'
  BY DEF Mirror, TypeOK, BlockRow, NothingBeforeCreation, StagingMirrorsCategories, CreateBlock,
     CreateBlockEffect, StyleCategories, Created, Open, Visible, Alive

LEMMA MirrorCreateCategory ==
    ASSUME Mirror, NEW c \in Category, CreateCategory(c)
    PROVE  NothingBeforeCreation' /\ StagingMirrorsCategories'
  BY DEF Mirror, TypeOK, NothingBeforeCreation, StagingMirrorsCategories, CreateCategory,
     CreateCategoryEffect, Created, Open, Visible, Alive

LEMMA MirrorDeleteCategory ==
    ASSUME Mirror, NEW c \in Category, DeleteCategory(c)
    PROVE  NothingBeforeCreation' /\ StagingMirrorsCategories'
  BY DEF Mirror, TypeOK, NothingBeforeCreation, StagingMirrorsCategories, DeleteCategory,
     DeleteCategoryEffect, Created, Open, Visible, Alive

LEMMA MirrorFinalize ==
    ASSUME Mirror, NEW b \in Block, Finalize(b)
    PROVE  NothingBeforeCreation' /\ StagingMirrorsCategories'
  BY DEF Mirror, TypeOK, BlockRow, NothingBeforeCreation, StagingMirrorsCategories, Finalize,
     FinalizeEffect, Created, Open, Visible, Alive

LEMMA MirrorSoftDelete ==
    ASSUME Mirror, NEW b \in Block, SoftDeleteBlock(b)
    PROVE  NothingBeforeCreation' /\ StagingMirrorsCategories'
  BY DEF Mirror, TypeOK, BlockRow, NothingBeforeCreation, StagingMirrorsCategories,
     SoftDeleteBlock, Created, Open, Visible, Alive

\* The other requests write neither blocks, categories nor buckets.
LEMMA MirrorFrame ==
    ASSUME Mirror, UNCHANGED <<block, category, staging>>
    PROVE  NothingBeforeCreation' /\ StagingMirrorsCategories'
  BY DEF Mirror, NothingBeforeCreation, StagingMirrorsCategories, Created, Open, Visible, Alive

LEMMA MirrorStep == Mirror /\ [Next]_dbVars => Mirror'
  <1> SUFFICES ASSUME Mirror, [Next]_dbVars
               PROVE  NothingBeforeCreation' /\ StagingMirrorsCategories'
    BY TypeStep DEF Mirror
  <1>1. CASE UNCHANGED <<block, category, staging>>
    BY <1>1, MirrorFrame
  <1>2. ASSUME NEW b \in Block, NEW ai \in BOOLEAN, CreateBlock(b, ai)
        PROVE  NothingBeforeCreation' /\ StagingMirrorsCategories'
    BY <1>2, MirrorCreateBlock
  <1>3. ASSUME NEW b \in Block, Finalize(b)
        PROVE  NothingBeforeCreation' /\ StagingMirrorsCategories'
    BY <1>3, MirrorFinalize
  <1>4. ASSUME NEW b \in Block, SoftDeleteBlock(b)
        PROVE  NothingBeforeCreation' /\ StagingMirrorsCategories'
    BY <1>4, MirrorSoftDelete
  <1>5. ASSUME NEW c \in Category, CreateCategory(c)
        PROVE  NothingBeforeCreation' /\ StagingMirrorsCategories'
    BY <1>5, MirrorCreateCategory
  <1>6. ASSUME NEW c \in Category, DeleteCategory(c)
        PROVE  NothingBeforeCreation' /\ StagingMirrorsCategories'
    BY <1>6, MirrorDeleteCategory
  <1> QED
    BY <1>1, <1>2, <1>3, <1>4, <1>5, <1>6
    DEF Next, dbVars, Move, MoveEffect, Transfer, TransferEffect, AddTrack, AddTrackEffect,
        RemoveTrack, RemoveTrackEffect, TagTrack, UntagTrack, RecordFlag, DiscardAiTracks,
        DiscardEffect

LEMMA MirrorAlways == Spec => []Mirror
  BY MirrorInit, MirrorStep, PTL DEF Spec

\* Run alone, the requests keep the STAGING buckets of every block in step with the
\* categories, for any number of blocks, categories and styles.
THEOREM StagingMirrored == Spec => []StagingMirrorsCategories
  BY MirrorAlways, PTL DEF Mirror

\* What CurationTx's race runs refute when requests overlap holds when they do not:
\* a block is finalized whole.  The mirror is what makes finalize's skipped buckets
\* (inactive, empty) and its category check agree.
THEOREM FinalizedWhole == Spec => FinalizePromotesWhole
  <1> DEFINE Whole == \A b \in Block :
                block[b].status = "IN_PROGRESS" /\ block'[b].status = "FINALIZED"
                   => PromotedWhole(b)
  <1>1. ASSUME Mirror, [Next]_dbVars PROVE [Whole]_dbVars
    <2> SUFFICES ASSUME NEW b \in Block, Next,
                        block[b].status = "IN_PROGRESS", block'[b].status = "FINALIZED"
                 PROVE  PromotedWhole(b)
      BY <1>1
    <2>1. PICK d \in Block : Finalize(d)
      <3>1. ASSUME NEW d \in Block, NEW ai \in BOOLEAN, CreateBlock(d, ai) PROVE FALSE
        BY <3>1 DEF CreateBlock, CreateBlockEffect, Mirror, TypeOK
      <3>2. ASSUME NEW d \in Block, SoftDeleteBlock(d) PROVE FALSE
        BY <3>2 DEF SoftDeleteBlock, Mirror, TypeOK, BlockRow
      <3>3. CASE UNCHANGED block
        BY <3>3
      <3> QED
        BY <3>1, <3>2, <3>3
        DEF Next, Move, MoveEffect, Transfer, TransferEffect, CreateCategory,
            CreateCategoryEffect, DeleteCategory, DeleteCategoryEffect, AddTrack,
            AddTrackEffect, RemoveTrack, RemoveTrackEffect, TagTrack, UntagTrack,
            RecordFlag, DiscardAiTracks, DiscardEffect
    <2>2. d = b
      BY <2>1 DEF Finalize, FinalizeEffect, Mirror, TypeOK
    <2>3. ASSUME NEW c \in Category, staging[b][c] # "none", NEW t \in held'[b][c]
          PROVE  Alive(c)' /\ In(c, t)'
      <3>1. t \in held[b][c] /\ t \in Track /\ category' = category
        BY <1>1, <2>1, <2>3 DEF Finalize, FinalizeEffect, Mirror, TypeOK, Bucket
      <3>2. staging[b][c] = "active"
        BY <1>1, <2>1, <2>2, <2>3, <3>1 DEF Finalize, InactiveEmpty, Mirror, TypeOK
      <3>3. Alive(c)
        BY <1>1, <3>2 DEF Mirror, StagingMirrorsCategories
      <3>4. t \in Promotable(b)[c]
        BY <3>1, <3>2 DEF Promotable
      <3>5. members'[c][t] = IF ~In(c, t) THEN b ELSE members[c][t]
        BY <2>1, <2>2, <3>1, <3>4 DEF Finalize, FinalizeEffect
      <3>6. members'[c][t] # NotIn
        BY <3>5, CurationAssumption DEF In
      <3> QED
        BY <3>1, <3>3, <3>6 DEF Alive, In
    <2> QED
      BY <2>3 DEF PromotedWhole
  <1> QED
    BY <1>1, MirrorAlways, PTL DEF Spec, FinalizePromotesWhole

-----------------------------------------------------------------------------
(* Tracks sit in buckets their block has.  A bucket is never dropped, so    *)
(* what has to be shown is where tracks arrive; the AI rule writes into the *)
(* block a category row names, which must therefore exist.                 *)

SourcesCreated ==
    \A c \in Category, t \in Track :
        members[c][t] \in Block => Created(members[c][t])

Owned == TypeOK /\ HeldInOwnBuckets /\ SourcesCreated

LEMMA OwnedInit == Init => Owned
  <1> SUFFICES ASSUME Init PROVE HeldInOwnBuckets /\ SourcesCreated
    BY TypeInit DEF Owned
  <1> QED BY CurationAssumption DEF Init, HeldInOwnBuckets, SourcesCreated

\* Blocks and buckets only come into being.
LEMMA OwnedGrows ==
    ASSUME Owned,
           \A b \in Block : Created(b) => Created(b)',
           \A b \in Block, c \in Category :
              Created(b) /\ staging[b][c] # "none" => staging'[b][c] # "none",
           \A b \in Block, k \in Bucket :
              held'[b][k] # {} =>
                \/ held[b][k] # {}
                \/ Created(b)' /\ k \in BucketsOf(b)',
           \A c \in Category, t \in Track :
              members'[c][t] \in Block =>
                \/ members'[c][t] = members[c][t]
                \/ Created(members'[c][t])
    PROVE  HeldInOwnBuckets' /\ SourcesCreated'
  <1>1. ASSUME NEW b \in Block, NEW k \in Bucket, held'[b][k] # {}
        PROVE  Created(b)' /\ k \in BucketsOf(b)'
    <2>1. CASE held[b][k] # {}
      <3>1. Created(b) /\ k \in BucketsOf(b)
        BY <2>1 DEF Owned, HeldInOwnBuckets
      <3> QED BY <3>1 DEF BucketsOf
    <2> QED BY <1>1, <2>1
  <1>2. HeldInOwnBuckets'
    BY <1>1 DEF HeldInOwnBuckets
  <1>3. ASSUME NEW c \in Category, NEW t \in Track, NEW b \in Block, members'[c][t] = b
        PROVE  Created(b)'
    <2>1. Created(b)
      BY <1>3 DEF Owned, SourcesCreated
    <2> QED BY <2>1
  <1>4. SourcesCreated'
    BY <1>3 DEF SourcesCreated, Created
  <1> QED BY <1>2, <1>4

LEMMA OwnedCreateBlock ==
    ASSUME Owned, NEW b \in Block, NEW ai \in BOOLEAN, CreateBlock(b, ai)
    PROVE  HeldInOwnBuckets' /\ SourcesCreated'
  <1>1. \A k \in Bucket : Classified(b, ai)[k] # {} => k \in Tech
    BY CurationAssumption DEF Classified
  <1>2. /\ ~Created(b)
        /\ \A d \in Block : Created(d)' <=> Created(d) \/ d = b
    BY DEF CreateBlock, CreateBlockEffect, Created, Owned, TypeOK
  <1>3. \A d \in Block \ {b} : staging'[d] = staging[d] /\ held'[d] = held[d]
    BY DEF CreateBlock, CreateBlockEffect, Owned, TypeOK
  <1>4. \A k \in Bucket : held'[b][k] # {} => k \in BucketsOf(b)'
    BY <1>1 DEF CreateBlock, CreateBlockEffect, Owned, TypeOK, BucketsOf
  <1>5. members' = members
    BY DEF CreateBlock, CreateBlockEffect
  <1> QED BY <1>2, <1>3, <1>4, <1>5, OwnedGrows

\* Requests that write one bucket of an existing block.
LEMMA OwnedHolds ==
    ASSUME Owned, UNCHANGED <<block, staging, members>>,
           NEW b \in Block, NEW to \in Bucket, Created(b), to \in BucketsOf(b),
           \A d \in Block, k \in Bucket :
              held'[d][k] # {} => held[d][k] # {} \/ (d = b /\ k = to)
    PROVE  HeldInOwnBuckets' /\ SourcesCreated'
  BY OwnedGrows DEF Created, BucketsOf

LEMMA OwnedMove ==
    ASSUME Owned, NEW b \in Block, NEW from \in Bucket, NEW to \in Bucket,
           NEW ts \in SUBSET Track, Move(b, from, to, ts)
    PROVE  HeldInOwnBuckets' /\ SourcesCreated'
  <1>1. Created(b) /\ to \in BucketsOf(b) /\ UNCHANGED <<block, staging, members>>
    BY DEF Move, MayMove, Open, Visible, MoveEffect
  <1>2. \A d \in Block, k \in Bucket :
           held'[d][k] # {} => held[d][k] # {} \/ (d = b /\ k = to)
    BY DEF Move, MoveEffect, Owned, TypeOK
  <1> QED BY <1>1, <1>2, OwnedHolds

LEMMA OwnedTransfer ==
    ASSUME Owned, NEW s \in Block, NEW d \in Block, NEW to \in Bucket,
           NEW ts \in SUBSET Track, Transfer(s, d, to, ts)
    PROVE  HeldInOwnBuckets' /\ SourcesCreated'
  <1>1. Created(d) /\ to \in BucketsOf(d) /\ UNCHANGED <<block, staging, members>>
    BY DEF Transfer, MayTransfer, Open, Visible, TransferEffect
  <1>2. \A b \in Block, k \in Bucket :
           held'[b][k] # {} => held[b][k] # {} \/ (b = d /\ k = to)
    BY DEF Transfer, TransferEffect, Owned, TypeOK
  <1> QED BY <1>1, <1>2, OwnedHolds

LEMMA OwnedFinalize ==
    ASSUME Owned, NEW b \in Block, Finalize(b)
    PROVE  HeldInOwnBuckets' /\ SourcesCreated'
  <1>1. /\ Created(b) /\ UNCHANGED <<staging, held>>
        /\ \A d \in Block : Created(d) => Created(d)'
    BY DEF Finalize, Open, Visible, FinalizeEffect, Created, Owned, TypeOK, BlockRow
  <1>2. \A c \in Category, t \in Track : members'[c][t] \in {members[c][t], b}
    BY DEF Finalize, FinalizeEffect
  <1> QED BY <1>1, <1>2, OwnedGrows

LEMMA OwnedDiscard ==
    ASSUME Owned, NEW u \in Track, DiscardAiTracks(u)
    PROVE  HeldInOwnBuckets' /\ SourcesCreated'
  <1>1. DiscardEffect({u}) /\ UNCHANGED <<block, staging>>
    BY DEF DiscardAiTracks, DiscardEffect
  <1>2. DISCARD \in Tech /\ DISCARD \in Bucket /\ NotIn \notin Block
    BY CurationAssumption DEF Bucket
  <1>3. \A c \in Category, t \in Track : members'[c][t] \in {members[c][t], NotIn}
    BY <1>1 DEF DiscardEffect
  <1>4. ASSUME NEW b \in Block, held'[b][DISCARD] # {} PROVE held[b][DISCARD] # {} \/ Created(b)
    <2>1. CASE Open(b)
      BY <2>1 DEF Open, Visible
    <2>2. CASE \E c \in Category, t \in Track : members[c][t] = b
      BY <2>2 DEF Owned, SourcesCreated
    <2>3. CASE ~Open(b) /\ ~\E c \in Category, t \in Track : members[c][t] = b
      BY <1>1, <1>2, <1>4, <2>3 DEF DiscardEffect
    <2> QED BY <2>1, <2>2, <2>3
  <1>5. \A b \in Block, k \in Bucket \ {DISCARD} : held'[b][k] \subseteq held[b][k]
    BY <1>1 DEF DiscardEffect
  <1>6. ASSUME NEW b \in Block, NEW k \in Bucket, held'[b][k] # {}
        PROVE  held[b][k] # {} \/ (Created(b)' /\ k \in BucketsOf(b)')
    <2>1. CASE k = DISCARD
      BY <1>1, <1>2, <1>4, <1>6, <2>1 DEF Created, BucketsOf
    <2>2. CASE k # DISCARD
      BY <1>5, <1>6, <2>2
    <2> QED BY <2>1, <2>2
  <1> QED BY <1>1, <1>2, <1>3, <1>6, OwnedGrows DEF Created

LEMMA OwnedStep == Owned /\ [Next]_dbVars => Owned'
  <1> DEFINE Goal == HeldInOwnBuckets' /\ SourcesCreated'
  <1> SUFFICES ASSUME Owned, [Next]_dbVars PROVE Goal
    BY TypeStep DEF Owned
  <1>1. ASSUME NEW c \in Category, CreateCategory(c) PROVE Goal
    <2>1. \A b \in Block, d \in Category : staging[b][d] # "none" => staging'[b][d] # "none"
      BY <1>1 DEF CreateCategory, CreateCategoryEffect, Owned, TypeOK
    <2>2. UNCHANGED <<block, held, members>>
      BY <1>1 DEF CreateCategory, CreateCategoryEffect
    <2> QED BY <2>1, <2>2, OwnedGrows DEF Created
  <1>2. ASSUME NEW c \in Category, DeleteCategory(c) PROVE Goal
    <2>1. \A b \in Block, d \in Category : staging[b][d] # "none" => staging'[b][d] # "none"
      BY <1>2 DEF DeleteCategory, DeleteCategoryEffect, Owned, TypeOK
    <2>2. UNCHANGED <<block, held, members>>
      BY <1>2 DEF DeleteCategory, DeleteCategoryEffect
    <2> QED BY <2>1, <2>2, OwnedGrows DEF Created
  <1>3. ASSUME NEW b \in Block, SoftDeleteBlock(b) PROVE Goal
    <2>1. (\A d \in Block : Created(d) => Created(d)') /\ UNCHANGED <<staging, held, members>>
      BY <1>3 DEF SoftDeleteBlock, Created, Owned, TypeOK, BlockRow
    <2> QED BY <2>1, OwnedGrows
  <1>4. ASSUME NEW c \in Category, NEW t \in Track, NEW src \in Source, AddTrack(c, t, src)
        PROVE  Goal
    <2>1. /\ UNCHANGED <<block, staging, held>>
          /\ src \in Block => Created(src)
          /\ \A d \in Category, u \in Track : members'[d][u] \in {members[d][u], src}
      BY <1>4 DEF AddTrack, AddTrackEffect, Owned, TypeOK
    <2> QED BY <2>1, OwnedGrows DEF Created
  <1>5. ASSUME NEW c \in Category, NEW t \in Track, RemoveTrack(c, t) PROVE Goal
    <2>1. /\ UNCHANGED <<block, staging, held>>
          /\ \A d \in Category, u \in Track : members'[d][u] \in {members[d][u], NotIn}
      BY <1>5 DEF RemoveTrack, RemoveTrackEffect, Owned, TypeOK
    <2> QED BY <2>1, OwnedGrows, CurationAssumption DEF Created
  <1>6. CASE UNCHANGED <<block, staging, held, members>>
    BY <1>6, OwnedGrows DEF Created
  <1> QED
    BY <1>1, <1>2, <1>3, <1>4, <1>5, <1>6, OwnedCreateBlock, OwnedMove, OwnedTransfer,
       OwnedFinalize, OwnedDiscard
    DEF Next, dbVars, TagTrack, UntagTrack, RecordFlag

\* Through any sequence of moves, transfers, deletes, finalizes and AI discards a track
\* only ever sits in a bucket that exists in its block.
THEOREM TracksInOwnBuckets == Spec => []HeldInOwnBuckets
  BY OwnedInit, OwnedStep, PTL DEF Spec, Owned

-----------------------------------------------------------------------------
(* What a finalized block keeps.                                           *)

\* What FinalizedFrozen says of one block.
FrozenStep(b) ==
    block[b].status = "FINALIZED" =>
        /\ block'[b].status = "FINALIZED"
        /\ \A k \in Bucket \ {DISCARD} : held'[b][k] = held[b][k]
        /\ held[b][DISCARD] \subseteq held'[b][DISCARD]

LEMMA FrozenNext ==
    ASSUME TypeOK, Next, NEW b \in Block, block[b].status = "FINALIZED"
    PROVE  FrozenStep(b)
  <1>1. DISCARD \in Bucket
    BY CurationAssumption DEF Bucket
  <1>2. ASSUME NEW d \in Block, NEW ai \in BOOLEAN, CreateBlock(d, ai) PROVE FrozenStep(b)
    <2>1. d # b
      BY <1>2 DEF CreateBlock, Created
    <2> QED BY <1>2, <2>1 DEF CreateBlock, CreateBlockEffect, FrozenStep, TypeOK
  <1>3. ASSUME NEW d \in Block, NEW from \in Bucket, NEW to \in Bucket,
               NEW ts \in SUBSET Track, Move(d, from, to, ts)
        PROVE  FrozenStep(b)
    <2>1. d # b
      BY <1>3 DEF Move, MayMove, Open
    <2> QED BY <1>3, <2>1 DEF Move, MoveEffect, FrozenStep, TypeOK
  <1>4. ASSUME NEW s \in Block, NEW d \in Block, NEW to \in Bucket,
               NEW ts \in SUBSET Track, Transfer(s, d, to, ts)
        PROVE  FrozenStep(b)
    <2>1. d # b
      BY <1>4 DEF Transfer, MayTransfer, Open
    <2> QED BY <1>4, <2>1 DEF Transfer, TransferEffect, FrozenStep, TypeOK
  <1>5. ASSUME NEW d \in Block, Finalize(d) PROVE FrozenStep(b)
    BY <1>5 DEF Finalize, FinalizeEffect, FrozenStep, TypeOK, BlockRow
  <1>6. ASSUME NEW d \in Block, SoftDeleteBlock(d) PROVE FrozenStep(b)
    BY <1>6 DEF SoftDeleteBlock, FrozenStep, TypeOK, BlockRow
  <1>7. ASSUME NEW t \in Track, DiscardAiTracks(t) PROVE FrozenStep(b)
    <2>1. ~Open(b) /\ UNCHANGED block
      BY <1>7 DEF DiscardAiTracks, DiscardEffect, Open
    <2>2. \A k \in Bucket \ {DISCARD} : held'[b][k] = held[b][k]
      BY <1>7, <2>1 DEF DiscardAiTracks, DiscardEffect
    <2>3. held[b][DISCARD] \subseteq held'[b][DISCARD]
      BY <1>1, <1>7 DEF DiscardAiTracks, DiscardEffect
    <2> QED BY <2>1, <2>2, <2>3 DEF FrozenStep
  <1>8. CASE UNCHANGED <<block, held>>
    BY <1>8 DEF FrozenStep
  <1> QED
    BY <1>2, <1>3, <1>4, <1>5, <1>6, <1>7, <1>8
    DEF Next, CreateCategory, CreateCategoryEffect, DeleteCategory, DeleteCategoryEffect,
        AddTrack, AddTrackEffect, RemoveTrack, RemoveTrackEffect, TagTrack, UntagTrack,
        RecordFlag

\* A finalized block stays finalized and keeps every bucket, save that the AI rule may
\* add to its DISCARD.
THEOREM FinalizedStaysFrozen == Spec => FinalizedFrozen
  <1>1. TypeOK /\ [Next]_dbVars =>
          [\A b \in Block : block[b].status = "FINALIZED" =>
             /\ block'[b].status = "FINALIZED"
             /\ \A k \in Bucket \ {DISCARD} : held'[b][k] = held[b][k]
             /\ held[b][DISCARD] \subseteq held'[b][DISCARD]]_dbVars
    BY FrozenNext DEF FrozenStep
  <1> QED BY <1>1, TypeCorrect, PTL DEF Spec, FinalizedFrozen

-----------------------------------------------------------------------------
(* Type correctness of what the requests remember.                         *)

\* One fact per request kind: which fields its record has, and their types.
LEMMA CreateBlockFields ==
    ASSUME TxTypeOK, NEW p \in Client, req[p].op = "create_block"
    PROVE  req[p] \in [op : {"create_block"}, pc : {"classify", "commit"}, b : Block,
                       ai : BOOLEAN, cats : SUBSET Category, put : [Bucket -> SUBSET Track]]
  BY DEF TxTypeOK, Request, Idle

LEMMA MoveFields ==
    ASSUME TxTypeOK, NEW p \in Client, req[p].op = "move"
    PROVE  req[p] \in [op : {"move"}, pc : {"present", "commit"}, b : Block,
                       from : Bucket, to : Bucket, ts : SUBSET Track]
  BY DEF TxTypeOK, Request, Idle

LEMMA TransferFields ==
    ASSUME TxTypeOK, NEW p \in Client, req[p].op = "transfer"
    PROVE  req[p] \in [op : {"transfer"}, pc : {"target", "present", "insert"}, s : Block,
                       d : Block, to : Bucket, ts : SUBSET Track]
  BY DEF TxTypeOK, Request, Idle

LEMMA FinalizeFields ==
    ASSUME TxTypeOK, NEW p \in Client, req[p].op = "finalize"
    PROVE  req[p] \in [op : {"finalize"}, pc : {"inactive", "staging", "promote"}, b : Block,
                       todo : SUBSET Category, promoted : [Category -> SUBSET Track]]
  BY DEF TxTypeOK, Request, Idle

LEMMA CreateCategoryFields ==
    ASSUME TxTypeOK, NEW p \in Client, req[p].op = "create_category"
    PROVE  req[p] \in [op : {"create_category"}, c : Category, blocks : SUBSET Block]
  BY DEF TxTypeOK, Request, Idle

LEMMA DeleteCategoryFields ==
    ASSUME TxTypeOK, NEW p \in Client, req[p].op = "delete_category"
    PROVE  req[p] \in [op : {"delete_category"}, c : Category, former : SUBSET Track]
  BY DEF TxTypeOK, Request, Idle

LEMMA AddTrackFields ==
    ASSUME TxTypeOK, NEW p \in Client, req[p].op = "add_track"
    PROVE  req[p] \in [op : {"add_track"}, c : Category, t : Track, src : Source]
  BY DEF TxTypeOK, Request, Idle

LEMMA RemoveTrackFields ==
    ASSUME TxTypeOK, NEW p \in Client, req[p].op = "remove_track"
    PROVE  req[p] \in [op : {"remove_track"}, c : Category, t : Track]
  BY DEF TxTypeOK, Request, Idle

LEMMA TagFields ==
    ASSUME TxTypeOK, NEW p \in Client, req[p].op = "tag"
    PROVE  req[p] \in [op : {"tag"}, t : Track]
  BY DEF TxTypeOK, Request, Idle

\* A SELECT leaves the tables alone and a well-typed record behind.
LEMMA BeginType ==
    ASSUME TxTypeOK, NEW p \in Client, NEW op, NEW r \in Request, Begin(p, op, r)
    PROVE  TxTypeOK'
  BY DEF TxTypeOK, TypeOK, Begin, dbVars

LEMMA ReadType ==
    ASSUME TxTypeOK, NEW p \in Client, NEW r \in Request, Read(p, r)
    PROVE  TxTypeOK'
  BY DEF TxTypeOK, TypeOK, Read, dbVars

LEMMA DoneType ==
    ASSUME TxTypeOK, NEW p \in Client, Done(p), TypeOK'
    PROVE  TxTypeOK'
  BY DEF TxTypeOK, Done, Request

LEMMA TxTypeInit == TxInit => TxTypeOK
  BY TypeInit DEF TxInit, TxTypeOK, Request

\* One lemma per request: each of its statements keeps the types.
LEMMA CreateBlockSteps ==
    ASSUME TxTypeOK, NEW p \in Client, CreatingBlock(p)
    PROVE  TxTypeOK'
  <1>1. ASSUME NEW b \in Block, NEW ai \in BOOLEAN, CreateBlockCategories(p, b, ai)
        PROVE  TxTypeOK'
    <2> DEFINE r == [op |-> "create_block", pc |-> "classify", b |-> b, ai |-> ai,
                     cats |-> StyleCategories(b), put |-> [k \in Bucket |-> {}]]
    <2>1. r \in Request
      BY DEF Request, StyleCategories
    <2> QED BY <1>1, <2>1, BeginType DEF CreateBlockCategories
  <1>2. CASE CreateBlockClassify(p)
    <2> DEFINE r == [req[p] EXCEPT !.put = Classified(req[p].b, req[p].ai), !.pc = "commit"]
    <2>1. /\ req[p].op = "create_block" 
          /\ req[p].b \in Block /\ req[p].ai \in BOOLEAN
      BY <1>2, CreateBlockFields DEF CreateBlockClassify, At
    <2>2. Classified(req[p].b, req[p].ai) \in [Bucket -> SUBSET Track]
      BY <2>1, ClassifiedType
    <2> HIDE DEF r
    <2>3. r \in [op : {"create_block"}, pc : {"classify", "commit"}, b : Block, ai : BOOLEAN,
                 cats : SUBSET Category, put : [Bucket -> SUBSET Track]]
      BY <2>1, <2>2, CreateBlockFields DEF r
    <2>4. r \in Request
      BY <2>3 DEF Request
    <2> QED BY <1>2, <2>4, ReadType DEF CreateBlockClassify, r
  <1>3. CASE CreateBlockCommit(p)
    <2>1. req[p].op = "create_block"
      BY <1>3 DEF CreateBlockCommit, At
    <2>2. TypeOK'
      BY <1>3, <2>1, CreateBlockFields, CreateBlockType DEF CreateBlockCommit, TxTypeOK
    <2> QED BY <1>3, <2>2, DoneType DEF CreateBlockCommit
  <1> QED BY <1>1, <1>2, <1>3 DEF CreatingBlock

LEMMA MoveSteps ==
    ASSUME TxTypeOK, NEW p \in Client, Moving(p)
    PROVE  TxTypeOK'
  <1>1. ASSUME NEW b \in Block, NEW from \in Bucket, NEW to \in Bucket,
               NEW ts \in (SUBSET Track) \ {{}}, MoveGuard(p, b, from, to, ts)
        PROVE  TxTypeOK'
    <2>1. [op |-> "move", pc |-> "present", b |-> b, from |-> from, to |-> to, ts |-> ts]
            \in Request
      BY DEF Request
    <2> QED BY <1>1, <2>1, BeginType DEF MoveGuard
  <1>2. CASE MovePresent(p)
    <2>1. req[p].op = "move"
      BY <1>2 DEF MovePresent, At
    <2>2. [req[p] EXCEPT !.pc = "commit"] \in Request
      BY <2>1, MoveFields DEF Request
    <2> QED BY <1>2, <2>2, ReadType DEF MovePresent
  <1>3. CASE MoveCommit(p)
    <2>1. req[p].op = "move"
      BY <1>3 DEF MoveCommit, At
    <2>2. TypeOK'
      BY <1>3, <2>1, MoveFields, MoveType DEF MoveCommit, TxTypeOK
    <2> QED BY <1>3, <2>2, DoneType DEF MoveCommit
  <1> QED BY <1>1, <1>2, <1>3 DEF Moving

LEMMA TransferSteps ==
    ASSUME TxTypeOK, NEW p \in Client, Transferring(p)
    PROVE  TxTypeOK'
  <1>1. ASSUME NEW s \in Block, NEW d \in Block, NEW to \in Bucket,
               NEW ts \in (SUBSET Track) \ {{}}, TransferSource(p, s, d, to, ts)
        PROVE  TxTypeOK'
    <2>1. [op |-> "transfer", pc |-> "target", s |-> s, d |-> d, to |-> to, ts |-> ts]
            \in Request
      BY DEF Request
    <2> QED BY <1>1, <2>1, BeginType DEF TransferSource
  <1>2. CASE TransferTarget(p)
    <2>1. req[p].op = "transfer"
      BY <1>2 DEF TransferTarget, At
    <2>2. [req[p] EXCEPT !.pc = "present"] \in Request
      BY <2>1, TransferFields DEF Request
    <2> QED BY <1>2, <2>2, ReadType DEF TransferTarget
  <1>3. CASE TransferPresent(p)
    <2>1. req[p].op = "transfer"
      BY <1>3 DEF TransferPresent, At
    <2>2. [req[p] EXCEPT !.pc = "insert"] \in Request
      BY <2>1, TransferFields DEF Request
    <2> QED BY <1>3, <2>2, ReadType DEF TransferPresent
  <1>4. CASE TransferInsert(p)
    <2>1. req[p].op = "transfer"
      BY <1>4 DEF TransferInsert, At
    <2>2. TypeOK'
      BY <1>4, <2>1, TransferFields, TransferType DEF TransferInsert, TxTypeOK
    <2> QED BY <1>4, <2>2, DoneType DEF TransferInsert
  <1> QED BY <1>1, <1>2, <1>3, <1>4 DEF Transferring

LEMMA FinalizeSteps ==
    ASSUME TxTypeOK, NEW p \in Client, Finalizing(p)
    PROVE  TxTypeOK'
  <1>1. ASSUME NEW b \in Block, FinalizeStatus(p, b)
        PROVE  TxTypeOK'
    <2>1. [op |-> "finalize", pc |-> "inactive", b |-> b, todo |-> {}, promoted |-> NoTracks]
            \in Request
      BY DEF Request, NoTracks
    <2> QED BY <1>1, <2>1, BeginType DEF FinalizeStatus
  <1>2. CASE FinalizeInactive(p)
    <2>1. req[p].op = "finalize"
      BY <1>2 DEF FinalizeInactive, At
    <2>2. [req[p] EXCEPT !.pc = "staging"] \in Request
      BY <2>1, FinalizeFields DEF Request
    <2> QED BY <1>2, <2>2, ReadType DEF FinalizeInactive
  <1>3. CASE FinalizeStaging(p)
    <2> DEFINE actives == {d \in Category : staging[req[p].b][d] = "active"}
    <2>1. req[p].op = "finalize"
      BY <1>3 DEF FinalizeStaging, At
    <2> DEFINE r == [req[p] EXCEPT !.pc = "promote", !.todo = actives]
    <2>2. actives \in SUBSET Category
      OBVIOUS
    <2> HIDE DEF actives
    <2>3. r \in [op : {"finalize"}, pc : {"inactive", "staging", "promote"}, b : Block,
                 todo : SUBSET Category, promoted : [Category -> SUBSET Track]]
      BY <2>1, <2>2, FinalizeFields
    <2> HIDE DEF r
    <2>4. r \in Request
      BY <2>3 DEF Request
    <2> QED BY <1>3, <2>4, ReadType DEF FinalizeStaging, r, actives
  <1>4. ASSUME NEW c \in Category, FinalizeBucket(p, c)
        PROVE  TxTypeOK'
    <2> DEFINE prom == [req[p].promoted EXCEPT ![c] = held[req[p].b][c]]
    <2> DEFINE r == [req[p] EXCEPT !.todo = @ \ {c}, !.promoted = prom]
    <2>1. req[p].op = "finalize"
      BY <1>4 DEF FinalizeBucket, At
    <2>2. req[p] \in [op : {"finalize"}, pc : {"inactive", "staging", "promote"}, b : Block,
                      todo : SUBSET Category, promoted : [Category -> SUBSET Track]]
      BY <2>1, FinalizeFields
    <2>3. /\ held \in [Block -> [Bucket -> SUBSET Track]]
          /\ c \in Bucket
      BY DEF TxTypeOK, TypeOK, Bucket
    <2>4. held[req[p].b] \in [Bucket -> SUBSET Track]
      BY <2>2, <2>3
    <2>5. held[req[p].b][c] \in SUBSET Track
      BY <2>3, <2>4
    <2>6. prom \in [Category -> SUBSET Track]
      BY <2>2, <2>5
    <2> HIDE DEF prom
    <2>7. r \in [op : {"finalize"}, pc : {"inactive", "staging", "promote"}, b : Block,
                 todo : SUBSET Category, promoted : [Category -> SUBSET Track]]
      BY <2>2, <2>6
    <2> HIDE DEF r
    <2>8. r \in Request
      BY <2>7 DEF Request
    <2> QED BY <1>4, <2>8, ReadType DEF FinalizeBucket, r, prom
  <1>5. CASE FinalizeCommit(p)
    <2>1. req[p].op = "finalize"
      BY <1>5 DEF FinalizeCommit, At
    <2>2. TypeOK'
      BY <1>5, <2>1, FinalizeFields, FinalizeType DEF FinalizeCommit, TxTypeOK
    <2> QED BY <1>5, <2>2, DoneType DEF FinalizeCommit
  <1> QED BY <1>1, <1>2, <1>3, <1>4, <1>5 DEF Finalizing

LEMMA CategorySteps ==
    ASSUME TxTypeOK, NEW p \in Client, EditingCategories(p)
    PROVE  TxTypeOK'
  <1>1. ASSUME NEW c \in Category, CreateCategoryBlocks(p, c)
        PROVE  TxTypeOK'
    <2> DEFINE opens == {b \in Block : Open(b) /\ BlockStyle[b] = CategoryStyle[c]}
    <2>1. [op |-> "create_category", c |-> c, blocks |-> opens] \in Request
      BY DEF Request
    <2> QED BY <1>1, <2>1, BeginType DEF CreateCategoryBlocks
  <1>2. CASE CreateCategoryCommit(p)
    <2>1. TypeOK'
      BY <1>2, CreateCategoryFields, CreateCategoryType DEF CreateCategoryCommit, TxTypeOK
    <2> QED BY <1>2, <2>1, DoneType DEF CreateCategoryCommit
  <1>3. ASSUME NEW c \in Category, DeleteCategoryMembers(p, c)
        PROVE  TxTypeOK'
    <2> DEFINE ms == {t \in Track : In(c, t)}
    <2>1. [op |-> "delete_category", c |-> c, former |-> ms] \in Request
      BY DEF Request
    <2> QED BY <1>3, <2>1, BeginType DEF DeleteCategoryMembers
  <1>4. CASE DeleteCategoryCommit(p)
    <2>1. TypeOK'
      BY <1>4, DeleteCategoryFields, DeleteCategoryType DEF DeleteCategoryCommit, TxTypeOK
    <2> QED BY <1>4, <2>1, DoneType DEF DeleteCategoryCommit
  <1> QED BY <1>1, <1>2, <1>3, <1>4 DEF EditingCategories

LEMMA TrackSteps ==
    ASSUME TxTypeOK, NEW p \in Client, EditingTracks(p)
    PROVE  TxTypeOK'
  <1>1. ASSUME NEW c \in Category, NEW t \in Track, NEW src \in Source,
               AddTrackCategory(p, c, t, src)
        PROVE  TxTypeOK'
    <2>1. [op |-> "add_track", c |-> c, t |-> t, src |-> src] \in Request
      BY DEF Request
    <2> QED BY <1>1, <2>1, BeginType DEF AddTrackCategory
  <1>2. CASE AddTrackInsert(p)
    <2>1. TypeOK'
      BY <1>2, AddTrackFields, AddTrackType DEF AddTrackInsert, TxTypeOK
    <2> QED BY <1>2, <2>1, DoneType DEF AddTrackInsert
  <1>3. ASSUME NEW c \in Category, NEW t \in Track, RemoveTrackCategory(p, c, t)
        PROVE  TxTypeOK'
    <2>1. [op |-> "remove_track", c |-> c, t |-> t] \in Request
      BY DEF Request
    <2> QED BY <1>3, <2>1, BeginType DEF RemoveTrackCategory
  <1>4. CASE RemoveTrackDelete(p)
    <2>1. TypeOK'
      BY <1>4, RemoveTrackFields, RemoveTrackType DEF RemoveTrackDelete, TxTypeOK
    <2> QED BY <1>4, <2>1, DoneType DEF RemoveTrackDelete
  <1>5. ASSUME NEW t \in Track, TagTaggable(p, t)
        PROVE  TxTypeOK'
    <2>1. [op |-> "tag", t |-> t] \in Request
      BY DEF Request
    <2> QED BY <1>5, <2>1, BeginType DEF TagTaggable
  <1>6. CASE TagInsert(p)
    <2>1. TypeOK'
      BY <1>6, TagFields DEF TagInsert, TxTypeOK, TypeOK
    <2> QED BY <1>6, <2>1, DoneType DEF TagInsert
  <1> QED BY <1>1, <1>2, <1>3, <1>4, <1>5, <1>6 DEF EditingTracks

LEMMA UnlockedType == TxTypeOK /\ Unlocked => TxTypeOK'
  <1> SUFFICES ASSUME TxTypeOK, Unlocked PROVE TxTypeOK'
    OBVIOUS
  <1>1. UNCHANGED req /\ [Next]_dbVars
    BY DEF Unlocked, Single, Next
  <1>2. TypeOK'
    BY <1>1, TypeStep DEF TxTypeOK
  <1> QED BY <1>1, <1>2 DEF TxTypeOK

LEMMA TxTypeStep == TxTypeOK /\ [TxNext]_vars => TxTypeOK'
  <1> SUFFICES ASSUME TxTypeOK, [TxNext]_vars PROVE TxTypeOK'
    OBVIOUS
  <1>1. CASE Unlocked
    BY <1>1, UnlockedType
  <1>2. ASSUME NEW p \in Client, Fail(p) PROVE TxTypeOK'
    BY <1>2, DoneType DEF Fail, TxTypeOK, TypeOK, dbVars
  <1>3. CASE UNCHANGED vars
    BY <1>3 DEF vars, TxTypeOK, TypeOK
  <1> QED
    BY <1>1, <1>2, <1>3, CreateBlockSteps, MoveSteps, TransferSteps, FinalizeSteps,
       CategorySteps, TrackSteps
    DEF TxNext

\* The tables and the memory of every request keep their shape.
THEOREM TxTypeCorrect == TxSpec => []TxTypeOK
  BY TxTypeInit, TxTypeStep, PTL DEF TxSpec

-----------------------------------------------------------------------------
(* The source of a category row is written once, whatever overlaps: the two *)
(* statements that insert rows leave the ones they find alone.             *)

SourcesStay ==
    \A c \in Category, t \in Track :
        In(c, t) /\ In(c, t)' => members'[c][t] = members[c][t]

LEMMA SourcesStayStep == TxTypeOK /\ [TxNext]_vars => SourcesStay
  <1> SUFFICES ASSUME TxTypeOK, [TxNext]_vars PROVE SourcesStay
    OBVIOUS
  <1>1. CASE UNCHANGED members
    BY <1>1 DEF SourcesStay
  <1>2. ASSUME NEW p \in Client, FinalizeCommit(p) PROVE SourcesStay
    BY <1>2 DEF FinalizeCommit, FinalizeEffect, SourcesStay, In
  <1>3. ASSUME NEW p \in Client, AddTrackInsert(p) PROVE SourcesStay
    <2>1. req[p].c \in Category /\ req[p].t \in Track
      BY <1>3, AddTrackFields DEF AddTrackInsert
    <2> QED BY <1>3, <2>1 DEF AddTrackInsert, AddTrackEffect, SourcesStay, In, TxTypeOK, TypeOK
  <1>4. ASSUME NEW p \in Client, RemoveTrackDelete(p) PROVE SourcesStay
    <2>1. req[p].c \in Category /\ req[p].t \in Track
      BY <1>4, RemoveTrackFields DEF RemoveTrackDelete
    <2> QED
      BY <1>4, <2>1 DEF RemoveTrackDelete, RemoveTrackEffect, SourcesStay, In, TxTypeOK, TypeOK
  <1>5. ASSUME NEW t \in Track, DiscardAiTracks(t) PROVE SourcesStay
    BY <1>5 DEF DiscardAiTracks, DiscardEffect, SourcesStay, In
  <1>6. CASE Unlocked
    BY <1>1, <1>5, <1>6 DEF Unlocked, Single, SoftDeleteBlock, UntagTrack, RecordFlag
  <1>7. ASSUME NEW p \in Client, Finalizing(p) PROVE SourcesStay
    BY <1>1, <1>2, <1>7
    DEF Finalizing, FinalizeStatus, FinalizeInactive, FinalizeStaging, FinalizeBucket,
        Begin, Read, dbVars
  <1>8. ASSUME NEW p \in Client, EditingTracks(p) PROVE SourcesStay
    BY <1>1, <1>3, <1>4, <1>8
    DEF EditingTracks, AddTrackCategory, RemoveTrackCategory, TagTaggable, TagInsert,
        Begin, dbVars
  <1>9. ASSUME NEW p \in Client, EditingCategories(p) PROVE SourcesStay
    BY <1>1, <1>9
    DEF EditingCategories, CreateCategoryBlocks, CreateCategoryCommit, CreateCategoryEffect,
        DeleteCategoryMembers, DeleteCategoryCommit, DeleteCategoryEffect, Begin, dbVars
  <1>10. ASSUME NEW p \in Client, CreatingBlock(p) \/ Moving(p) \/ Transferring(p)
         PROVE  SourcesStay
    BY <1>1, <1>10
    DEF CreatingBlock, CreateBlockCategories, CreateBlockClassify, CreateBlockCommit,
        CreateBlockEffect, Moving, MoveGuard, MovePresent, MoveCommit, MoveEffect,
        Transferring, TransferSource, TransferTarget, TransferPresent, TransferInsert,
        TransferEffect, Begin, Read, dbVars
  <1>11. ASSUME NEW p \in Client, Fail(p) PROVE SourcesStay
    BY <1>1, <1>11 DEF Fail, dbVars
  <1> QED
    BY <1>1, <1>6, <1>7, <1>8, <1>9, <1>10, <1>11 DEF TxNext, vars

\* First writer wins in every interleaving, not only when requests run alone: while a
\* category row lives no statement rewrites the block it names as its source.
THEOREM ProvenanceAlwaysKept == TxSpec => ProvenanceKept
  <1>1. TxTypeOK /\ [TxNext]_vars =>
          [\A c \in Category, t \in Track :
             In(c, t) /\ In(c, t)' => members'[c][t] = members[c][t]]_dbVars
    BY SourcesStayStep DEF SourcesStay
  <1> QED BY <1>1, TxTypeCorrect, PTL DEF TxSpec, ProvenanceKept

-----------------------------------------------------------------------------
(* No interleaving loses a track.  The one write that replaces the tracks   *)
(* of a block is the commit of create_block; the argument is that its id is *)
(* still unused then.                                                       *)

\* An id that is not a block yet holds nothing and is no row's source.
UncreatedUnused ==
    /\ \A b \in Block, k \in Bucket : ~Created(b) => held[b][k] = {}
    /\ \A c \in Category, t \in Track :
          members[c][t] \in Block => Created(members[c][t])

\* What a request has checked of its blocks stays true: they exist, or do not yet.
Fits(r) ==
    /\ r.op = "move" => Created(r.b)
    /\ r.op = "finalize" => Created(r.b)
    /\ r.op = "transfer" /\ r.pc # "target" => Created(r.d)
    /\ r.op = "add_track" /\ r.src \in Block => Created(r.src)
    /\ r.op = "create_block" => ~Created(r.b)

\* Two create_block requests never share an id.
OwnIds ==
    \A p, q \in Client :
        p # q /\ req[p].op = "create_block" /\ req[q].op = "create_block"
          => req[p].b # req[q].b

UseInv ==
    /\ TxTypeOK
    /\ UncreatedUnused
    /\ \A p \in Client : Fits(req[p])
    /\ OwnIds

NoneLost == \A b \in Block : HeldBy(b) \subseteq HeldBy(b)'

LEMMA UseInvInit == TxInit => UseInv
  <1> SUFFICES ASSUME TxInit PROVE UseInv
    OBVIOUS
  <1>1. TxTypeOK
    BY TxTypeInit
  <1>2. UncreatedUnused
    BY CurationAssumption DEF TxInit, Init, UncreatedUnused, Created
  <1>3. /\ \A p \in Client : Fits(req[p])
        /\ OwnIds
    BY DEF TxInit, Idle, Fits, OwnIds
  <1> QED BY <1>1, <1>2, <1>3 DEF UseInv

\* A statement that only reads: the new record has to fit.
LEMMA LookKeepsUse ==
    ASSUME UseInv, NEW p \in Client, NEW r \in Request,
           Read(p, r), Fits(r),
           r.op = "create_block" =>
             \A q \in Client \ {p} : req[q].op = "create_block" => req[q].b # r.b
    PROVE  UseInv' /\ NoneLost
  <1>1. TxTypeOK'
    BY ReadType DEF UseInv
  <1>2. UncreatedUnused' /\ NoneLost
    BY DEF Read, dbVars, UseInv, UncreatedUnused, Created, NoneLost, HeldBy
  <1>3. \A q \in Client : req'[q] = IF q = p THEN r ELSE req[q]
    BY DEF Read, UseInv, TxTypeOK
  <1>4. \A q \in Client : Fits(req[q])'
    BY <1>3 DEF Read, dbVars, UseInv, Fits, Created
  <1>5. OwnIds'
    BY <1>3 DEF UseInv, OwnIds
  <1> QED BY <1>1, <1>2, <1>4, <1>5 DEF UseInv

\* A request ends: the blocks it leaves are those before it, and perhaps its own.
LEMMA DoneKeepsUse ==
    ASSUME UseInv, NEW p \in Client, Done(p), TxTypeOK', UncreatedUnused',
           \A b \in Block : Created(b) => Created(b)',
           \A b \in Block : ~Created(b) /\ Created(b)' =>
             req[p].op = "create_block" /\ req[p].b = b
    PROVE  UseInv'
  <1>1. \A q \in Client : req'[q] = IF q = p THEN Idle ELSE req[q]
    BY DEF Done, UseInv, TxTypeOK
  <1>2. OwnIds'
    BY <1>1 DEF UseInv, OwnIds, Idle
  <1>3. ASSUME NEW q \in Client PROVE Fits(req[q])'
    <2>1. CASE q = p
      BY <2>1, <1>1 DEF Fits, Idle
    <2>2. CASE q # p
      <3>1. req'[q] = req[q] /\ Fits(req[q])
        BY <2>2, <1>1 DEF UseInv
      <3>2. ASSUME req[q].op = "create_block" PROVE ~Created(req[q].b)'
        <4>1. req[q].b \in Block /\ ~Created(req[q].b)
          BY <3>1, <3>2, CreateBlockFields DEF UseInv, Fits
        <4>2. req[p].op = "create_block" => req[p].b # req[q].b
          BY <2>2, <3>2 DEF UseInv, OwnIds
        <4> QED BY <3>1, <4>1, <4>2 DEF Created
      <3>3. req[q].op = "move" => Created(req[q].b)'
        BY <3>1, MoveFields DEF UseInv, Fits
      <3>4. req[q].op = "finalize" => Created(req[q].b)'
        BY <3>1, FinalizeFields DEF UseInv, Fits
      <3>5. req[q].op = "transfer" /\ req[q].pc # "target" => Created(req[q].d)'
        BY <3>1, TransferFields DEF UseInv, Fits
      <3>6. req[q].op = "add_track" /\ req[q].src \in Block => Created(req[q].src)'
        BY <3>1 DEF Fits
      <3> QED BY <3>1, <3>2, <3>3, <3>4, <3>5, <3>6 DEF Fits, Created
    <2> QED BY <2>1, <2>2
  <1> QED BY <1>2, <1>3 DEF UseInv

\* create_block: its id is fresh until the commit, which starts from nothing held.
LEMMA CreateBlockUse ==
    ASSUME UseInv, NEW p \in Client, CreatingBlock(p)
    PROVE  UseInv' /\ NoneLost
  <1>0. TxTypeOK /\ TxTypeOK'
    BY CreateBlockSteps DEF UseInv
  <1>1. ASSUME NEW b \in Block, NEW ai \in BOOLEAN, CreateBlockCategories(p, b, ai)
        PROVE  UseInv' /\ NoneLost
    <2> DEFINE r == [op |-> "create_block", pc |-> "classify", b |-> b, ai |-> ai,
                     cats |-> StyleCategories(b), put |-> [k \in Bucket |-> {}]]
    <2>1. /\ r \in Request
          /\ r.op = "create_block" /\ r.b = b
      BY DEF Request, StyleCategories
    <2>2. Read(p, r) /\ Fresh(b)
      BY <1>1 DEF CreateBlockCategories, Begin, Read
    <2> HIDE DEF r
    <2>3. Fits(r)
      BY <2>1, <2>2 DEF Fresh, Fits
    <2> QED BY <2>1, <2>2, <2>3, LookKeepsUse DEF Fresh
  <1>2. CASE CreateBlockClassify(p)
    <2> DEFINE r == [req[p] EXCEPT !.put = Classified(req[p].b, req[p].ai), !.pc = "commit"]
    <2>1. req[p].op = "create_block" /\ Read(p, r)
      BY <1>2 DEF CreateBlockClassify, At
    <2>2. r.op = "create_block" /\ r.b = req[p].b
      BY <1>0, <2>1, CreateBlockFields
    <2> HIDE DEF r
    <2>3. r \in Request
      <3>1. req'[p] = r /\ req'[p] \in Request
        BY <1>0, <2>1 DEF Read, TxTypeOK
      <3> QED BY <3>1
    <2>4. Fits(r)
      BY <2>1, <2>2 DEF UseInv, Fits
    <2>5. \A q \in Client \ {p} : req[q].op = "create_block" => req[q].b # r.b
      BY <2>1, <2>2 DEF UseInv, OwnIds
    <2> QED BY <2>1, <2>3, <2>4, <2>5, LookKeepsUse
  <1>3. CASE CreateBlockCommit(p)
    <2> DEFINE n == req[p].b
    <2>1. /\ req[p].op = "create_block"
          /\ Done(p)
          /\ CreateBlockEffect(n, req[p].ai, req[p].cats, req[p].put)
      BY <1>3 DEF CreateBlockCommit, At
    <2>2. n \in Block /\ ~Created(n)
      BY <1>0, <2>1, CreateBlockFields DEF UseInv, Fits
    <2>3. \A b \in Block : Created(b)' <=> Created(b) \/ b = n
      BY <1>0, <2>1, <2>2 DEF CreateBlockEffect, Created, TxTypeOK, TypeOK, BlockRow
    <2>4. \A b \in Block \ {n} : held'[b] = held[b]
      BY <1>0, <2>1 DEF CreateBlockEffect, TxTypeOK, TypeOK
    <2>5. HeldBy(n) = {}
      BY <2>2 DEF UseInv, UncreatedUnused, HeldBy
    <2>6. NoneLost
      BY <2>4, <2>5 DEF NoneLost, HeldBy
    <2>7. UncreatedUnused'
      BY <2>1, <2>3, <2>4 DEF UseInv, UncreatedUnused, CreateBlockEffect
    <2> QED BY <1>0, <2>1, <2>3, <2>6, <2>7, DoneKeepsUse
  <1> QED BY <1>1, <1>2, <1>3 DEF CreatingBlock

\* move_tracks and transfer_tracks write to a block that exists.
LEMMA MoveUse ==
    ASSUME UseInv, NEW p \in Client, Moving(p)
    PROVE  UseInv' /\ NoneLost
  <1>0. TxTypeOK /\ TxTypeOK'
    BY MoveSteps DEF UseInv
  <1>1. ASSUME NEW b \in Block, NEW from \in Bucket, NEW to \in Bucket,
               NEW ts \in (SUBSET Track) \ {{}}, MoveGuard(p, b, from, to, ts)
        PROVE  UseInv' /\ NoneLost
    <2> DEFINE r == [op |-> "move", pc |-> "present", b |-> b,
                     from |-> from, to |-> to, ts |-> ts]
    <2>1. r \in Request /\ Read(p, r) /\ Fits(r) /\ r.op # "create_block"
      BY <1>1 DEF Request, MoveGuard, Begin, Read, Fits, MayMove, Open, Visible
    <2> HIDE DEF r
    <2> QED BY <2>1, LookKeepsUse
  <1>2. CASE MovePresent(p)
    <2> DEFINE r == [req[p] EXCEPT !.pc = "commit"]
    <2>1. req[p].op = "move" /\ Read(p, r) /\ Fits(req[p])
      BY <1>2 DEF MovePresent, At, UseInv
    <2>2. r \in Request /\ r.op = "move" /\ r.b = req[p].b
      BY <1>0, <2>1, MoveFields DEF Request
    <2> HIDE DEF r
    <2>3. Fits(r)
      BY <2>1, <2>2 DEF Fits
    <2> QED BY <2>1, <2>2, <2>3, LookKeepsUse
  <1>3. CASE MoveCommit(p)
    <2> DEFINE n == req[p].b
    <2>1. /\ req[p].op = "move"
          /\ Done(p)
          /\ MoveEffect(n, req[p].from, req[p].to, req[p].ts)
      BY <1>3 DEF MoveCommit, At
    <2>2. /\ n \in Block /\ req[p].from \in Bucket /\ req[p].to \in Bucket
          /\ Created(n)
      BY <1>0, <2>1, MoveFields DEF UseInv, Fits
    <2>3. /\ \A b \in Block \ {n} : held'[b] = held[b]
          /\ \A k \in Bucket \ {req[p].from, req[p].to} : held'[n][k] = held[n][k]
          /\ held[n][req[p].from] \ req[p].ts \subseteq held'[n][req[p].from]
          /\ held[n][req[p].to] \cup req[p].ts \subseteq held'[n][req[p].to]
      <3>1. held \in [Block -> [Bucket -> SUBSET Track]]
        BY <1>0 DEF TxTypeOK, TypeOK
      <3> QED BY <2>1, <2>2, <3>1 DEF MoveEffect
    <2>4. NoneLost
      BY <2>2, <2>3 DEF NoneLost, HeldBy
    <2>5. UncreatedUnused'
      <3>1. UNCHANGED <<block, members>>
        BY <2>1 DEF MoveEffect
      <3>2. ASSUME NEW b \in Block, NEW k \in Bucket, ~Created(b)' PROVE held'[b][k] = {}
        <4>1. ~Created(b) /\ b # n
          BY <2>2, <3>1, <3>2 DEF Created
        <4> QED BY <2>3, <4>1 DEF UseInv, UncreatedUnused
      <3> QED BY <3>1, <3>2 DEF UseInv, UncreatedUnused, Created
    <2>6. \A b \in Block : Created(b) <=> Created(b)'
      BY <2>1 DEF MoveEffect, Created
    <2>7. Done(p)
      BY <2>1
    <2>8. UseInv'
      BY <1>0, <2>5, <2>6, <2>7, DoneKeepsUse
    <2> QED BY <2>4, <2>8
  <1> QED BY <1>1, <1>2, <1>3 DEF Moving

LEMMA TransferUse ==
    ASSUME UseInv, NEW p \in Client, Transferring(p)
    PROVE  UseInv' /\ NoneLost
  <1>0. TxTypeOK /\ TxTypeOK'
    BY TransferSteps DEF UseInv
  <1>1. ASSUME NEW s \in Block, NEW d \in Block, NEW to \in Bucket,
               NEW ts \in (SUBSET Track) \ {{}}, TransferSource(p, s, d, to, ts)
        PROVE  UseInv' /\ NoneLost
    <2> DEFINE r == [op |-> "transfer", pc |-> "target", s |-> s, d |-> d,
                     to |-> to, ts |-> ts]
    <2>1. r \in Request /\ Read(p, r) /\ Fits(r) /\ r.op # "create_block"
      BY <1>1 DEF Request, TransferSource, Begin, Read, Fits
    <2> HIDE DEF r
    <2> QED BY <2>1, LookKeepsUse
  <1>2. CASE TransferTarget(p)
    <2> DEFINE r == [req[p] EXCEPT !.pc = "present"]
    <2>1. req[p].op = "transfer" /\ Read(p, r) /\ Created(req[p].d)
      BY <1>2 DEF TransferTarget, At, MayTransfer, Open, Visible
    <2>2. r \in Request /\ r.op = "transfer" /\ r.d = req[p].d
      BY <1>0, <2>1, TransferFields DEF Request
    <2> HIDE DEF r
    <2>3. Fits(r)
      BY <2>1, <2>2 DEF Fits
    <2> QED BY <2>1, <2>2, <2>3, LookKeepsUse
  <1>3. CASE TransferPresent(p)
    <2> DEFINE r == [req[p] EXCEPT !.pc = "insert"]
    <2>1. req[p].op = "transfer" /\ req[p].pc = "present" /\ Read(p, r) /\ Fits(req[p])
      BY <1>3 DEF TransferPresent, At, UseInv
    <2>2. r \in Request /\ r.op = "transfer" /\ r.d = req[p].d
      BY <1>0, <2>1, TransferFields DEF Request
    <2> HIDE DEF r
    <2>3. Fits(r)
      BY <2>1, <2>2 DEF Fits
    <2> QED BY <2>1, <2>2, <2>3, LookKeepsUse
  <1>4. CASE TransferInsert(p)
    <2> DEFINE n == req[p].d
    <2>1. /\ req[p].op = "transfer" /\ req[p].pc = "insert"
          /\ Done(p)
          /\ TransferEffect(n, req[p].to, req[p].ts)
      BY <1>4 DEF TransferInsert, At
    <2>2. n \in Block /\ req[p].to \in Bucket /\ Created(n)
      BY <1>0, <2>1, TransferFields DEF UseInv, Fits
    <2>3. /\ \A b \in Block \ {n} : held'[b] = held[b]
          /\ \A k \in Bucket : held[n][k] \subseteq held'[n][k]
      BY <1>0, <2>1, <2>2 DEF TransferEffect, TxTypeOK, TypeOK
    <2>4. NoneLost
      BY <2>3 DEF NoneLost, HeldBy
    <2>5. UncreatedUnused'
      BY <2>1, <2>2, <2>3 DEF UseInv, UncreatedUnused, TransferEffect, Created
    <2> QED BY <1>0, <2>1, <2>4, <2>5, DoneKeepsUse DEF TransferEffect, Created
  <1> QED BY <1>1, <1>2, <1>3, <1>4 DEF Transferring

\* finalize_block and add_track name a block that exists as a source.
LEMMA FinalizeUse ==
    ASSUME UseInv, NEW p \in Client, Finalizing(p)
    PROVE  UseInv' /\ NoneLost
  <1>0. TxTypeOK /\ TxTypeOK'
    BY FinalizeSteps DEF UseInv
  <1>1. ASSUME NEW b \in Block, FinalizeStatus(p, b)
        PROVE  UseInv' /\ NoneLost
    <2> DEFINE r == [op |-> "finalize", pc |-> "inactive", b |-> b, todo |-> {},
                     promoted |-> NoTracks]
    <2>1. r \in Request /\ Read(p, r) /\ Fits(r) /\ r.op # "create_block"
      BY <1>1 DEF Request, NoTracks, FinalizeStatus, Begin, Read, Fits, Open, Visible
    <2> HIDE DEF r
    <2> QED BY <2>1, LookKeepsUse
  <1>2. ASSUME NEW r, Read(p, r), req[p].op = "finalize", r.op = "finalize", r.b = req[p].b
        PROVE  UseInv' /\ NoneLost
    <2>1. req'[p] = r /\ req'[p] \in Request
      BY <1>0, <1>2 DEF Read, TxTypeOK
    <2>2. Fits(r)
      BY <1>2 DEF Fits, UseInv
    <2> QED BY <1>2, <2>1, <2>2, LookKeepsUse
  <1>3. CASE FinalizeInactive(p)
    <2> DEFINE r == [req[p] EXCEPT !.pc = "staging"]
    <2>1. req[p].op = "finalize" /\ Read(p, r)
      BY <1>3 DEF FinalizeInactive, At
    <2>2. r.op = "finalize" /\ r.b = req[p].b
      BY <1>0, <2>1, FinalizeFields
    <2> HIDE DEF r
    <2> QED BY <2>1, <2>2, <1>2
  <1>4. CASE FinalizeStaging(p)
    <2> DEFINE r == [req[p] EXCEPT !.pc = "promote",
                       !.todo = {c \in Category : staging[req[p].b][c] = "active"}]
    <2>1. req[p].op = "finalize" /\ Read(p, r)
      BY <1>4 DEF FinalizeStaging, At
    <2>2. r.op = "finalize" /\ r.b = req[p].b
      BY <1>0, <2>1, FinalizeFields
    <2> HIDE DEF r
    <2> QED BY <2>1, <2>2, <1>2
  <1>5. ASSUME NEW c \in Category, FinalizeBucket(p, c)
        PROVE  UseInv' /\ NoneLost
    <2> DEFINE r == [req[p] EXCEPT
                       !.todo = @ \ {c},
                       !.promoted = [req[p].promoted EXCEPT ![c] = held[req[p].b][c]]]
    <2>1. req[p].op = "finalize" /\ Read(p, r)
      BY <1>5 DEF FinalizeBucket, At
    <2>2. r.op = "finalize" /\ r.b = req[p].b
      BY <1>0, <2>1, FinalizeFields
    <2> HIDE DEF r
    <2> QED BY <2>1, <2>2, <1>2
  <1>6. CASE FinalizeCommit(p)
    <2> DEFINE n == req[p].b
    <2>1. /\ req[p].op = "finalize"
          /\ Done(p)
          /\ FinalizeEffect(n, req[p].promoted)
      BY <1>6 DEF FinalizeCommit, At
    <2>2. n \in Block /\ Created(n)
      BY <1>0, <2>1, FinalizeFields DEF UseInv, Fits
    <2>3. \A b \in Block : Created(b)' <=> Created(b)
      BY <1>0, <2>1, <2>2 DEF FinalizeEffect, Created, TxTypeOK, TypeOK, BlockRow
    <2>4. \A c \in Category, t \in Track : members'[c][t] \in {members[c][t], n}
      BY <2>1 DEF FinalizeEffect
    <2>5. NoneLost /\ UncreatedUnused'
      BY <2>1, <2>2, <2>3, <2>4
      DEF FinalizeEffect, NoneLost, HeldBy, UseInv, UncreatedUnused
    <2> QED BY <1>0, <2>1, <2>3, <2>5, DoneKeepsUse
  <1> QED BY <1>1, <1>3, <1>4, <1>5, <1>6 DEF Finalizing

LEMMA TracksUse ==
    ASSUME UseInv, NEW p \in Client, EditingTracks(p)
    PROVE  UseInv' /\ NoneLost
  <1>0. TxTypeOK /\ TxTypeOK'
    BY TrackSteps DEF UseInv
  <1>1. ASSUME NEW c \in Category, NEW t \in Track, NEW src \in Source,
               AddTrackCategory(p, c, t, src)
        PROVE  UseInv' /\ NoneLost
    <2> DEFINE r == [op |-> "add_track", c |-> c, t |-> t, src |-> src]
    <2>1. r \in Request /\ Read(p, r) /\ Fits(r) /\ r.op # "create_block"
      BY <1>1 DEF Request, AddTrackCategory, Begin, Read, Fits
    <2> HIDE DEF r
    <2> QED BY <2>1, LookKeepsUse
  <1>2. ASSUME NEW c \in Category, NEW t \in Track, RemoveTrackCategory(p, c, t)
        PROVE  UseInv' /\ NoneLost
    <2> DEFINE r == [op |-> "remove_track", c |-> c, t |-> t]
    <2>1. r \in Request /\ Read(p, r) /\ Fits(r) /\ r.op # "create_block"
      BY <1>2 DEF Request, RemoveTrackCategory, Begin, Read, Fits
    <2> HIDE DEF r
    <2> QED BY <2>1, LookKeepsUse
  <1>3. ASSUME NEW t \in Track, TagTaggable(p, t)
        PROVE  UseInv' /\ NoneLost
    <2> DEFINE r == [op |-> "tag", t |-> t]
    <2>1. r \in Request /\ Read(p, r) /\ Fits(r) /\ r.op # "create_block"
      BY <1>3 DEF Request, TagTaggable, Begin, Read, Fits
    <2> HIDE DEF r
    <2> QED BY <2>1, LookKeepsUse
  <1>4. ASSUME Done(p), UNCHANGED <<block, held>>,
               \A c \in Category, t \in Track :
                  members'[c][t] \in Block =>
                    members'[c][t] = members[c][t] \/ Created(members'[c][t])
        PROVE  UseInv' /\ NoneLost
    <2>1. NoneLost /\ \A b \in Block : Created(b)' <=> Created(b)
      BY <1>4 DEF NoneLost, HeldBy, Created
    <2>2. UncreatedUnused'
      BY <1>4 DEF UseInv, UncreatedUnused, Created
    <2> QED BY <1>0, <1>4, <2>1, <2>2, DoneKeepsUse
  <1>5. CASE AddTrackInsert(p)
    <2>1. /\ req[p].op = "add_track"
          /\ Done(p)
          /\ AddTrackEffect(req[p].c, req[p].t, req[p].src)
      BY <1>5 DEF AddTrackInsert
    <2>2. /\ req[p].c \in Category /\ req[p].t \in Track
          /\ req[p].src \in Block => Created(req[p].src)
      BY <1>0, <2>1, AddTrackFields DEF UseInv, Fits
    <2>3. \A c \in Category, t \in Track : members'[c][t] \in {members[c][t], req[p].src}
      BY <1>0, <2>1, <2>2 DEF AddTrackEffect, TxTypeOK, TypeOK
    <2>4. UNCHANGED <<block, held>>
      BY <2>1 DEF AddTrackEffect
    <2> QED BY <2>1, <2>2, <2>3, <2>4, <1>4
  <1>6. CASE RemoveTrackDelete(p)
    <2>1. req[p].op = "remove_track" /\ Done(p) /\ RemoveTrackEffect(req[p].c, req[p].t)
      BY <1>6 DEF RemoveTrackDelete
    <2>2. req[p].c \in Category /\ req[p].t \in Track
      BY <1>0, <2>1, RemoveTrackFields
    <2>3. \A c \in Category, t \in Track : members'[c][t] \in {members[c][t], NotIn}
      BY <1>0, <2>1, <2>2 DEF RemoveTrackEffect, TxTypeOK, TypeOK
    <2>4. UNCHANGED <<block, held>>
      BY <2>1 DEF RemoveTrackEffect
    <2>5. NotIn \notin Block
      BY CurationAssumption
    <2> QED BY <2>1, <2>3, <2>4, <2>5, <1>4
  <1>7. CASE TagInsert(p)
    <2>1. Done(p) /\ UNCHANGED <<block, held, members>>
      BY <1>7 DEF TagInsert
    <2> QED BY <2>1, <1>4
  <1> QED BY <1>1, <1>2, <1>3, <1>5, <1>6, <1>7 DEF EditingTracks

LEMMA CategoriesUse ==
    ASSUME UseInv, NEW p \in Client, EditingCategories(p)
    PROVE  UseInv' /\ NoneLost
  <1>0. TxTypeOK /\ TxTypeOK'
    BY CategorySteps DEF UseInv
  <1>1. ASSUME NEW c \in Category, CreateCategoryBlocks(p, c)
        PROVE  UseInv' /\ NoneLost
    <2> DEFINE opens == {b \in Block : Open(b) /\ BlockStyle[b] = CategoryStyle[c]}
    <2> DEFINE r == [op |-> "create_category", c |-> c, blocks |-> opens]
    <2>1. r \in Request /\ Read(p, r) /\ Fits(r) /\ r.op # "create_block"
      BY <1>1 DEF Request, CreateCategoryBlocks, Begin, Read, Fits
    <2> HIDE DEF r
    <2> QED BY <2>1, LookKeepsUse
  <1>2. ASSUME NEW c \in Category, DeleteCategoryMembers(p, c)
        PROVE  UseInv' /\ NoneLost
    <2> DEFINE ms == {t \in Track : In(c, t)}
    <2> DEFINE r == [op |-> "delete_category", c |-> c, former |-> ms]
    <2>1. r \in Request /\ Read(p, r) /\ Fits(r) /\ r.op # "create_block"
      BY <1>2 DEF Request, DeleteCategoryMembers, Begin, Read, Fits
    <2> HIDE DEF r
    <2> QED BY <2>1, LookKeepsUse
  <1>3. ASSUME Done(p), UNCHANGED <<block, held, members>>
        PROVE  UseInv' /\ NoneLost
    <2>1. NoneLost /\ UncreatedUnused' /\ \A b \in Block : Created(b)' <=> Created(b)
      BY <1>3 DEF NoneLost, HeldBy, UseInv, UncreatedUnused, Created
    <2> QED BY <1>0, <1>3, <2>1, DoneKeepsUse
  <1>4. CASE CreateCategoryCommit(p)
    BY <1>3, <1>4 DEF CreateCategoryCommit, CreateCategoryEffect
  <1>5. CASE DeleteCategoryCommit(p)
    BY <1>3, <1>5 DEF DeleteCategoryCommit, DeleteCategoryEffect
  <1> QED BY <1>1, <1>2, <1>4, <1>5 DEF EditingCategories

\* Steps that leave every request where it is and create no block.
LEMMA QuietKeepsUse ==
    ASSUME UseInv, TxTypeOK', UNCHANGED req, UncreatedUnused',
           \A b \in Block : Created(b)' <=> Created(b)
    PROVE  UseInv'
  <1>1. OwnIds'
    BY DEF UseInv, OwnIds
  <1>2. ASSUME NEW q \in Client PROVE Fits(req[q])'
    <2>1. req'[q] = req[q] /\ Fits(req[q])
      BY DEF UseInv
    <2>2. /\ req[q].op \in {"move", "finalize", "create_block"} => req[q].b \in Block
          /\ req[q].op = "transfer" => req[q].d \in Block
      BY CreateBlockFields, MoveFields, FinalizeFields, TransferFields DEF UseInv
    <2>3. \A b \in Block : (block'[b].status # "none") <=> (block[b].status # "none")
      BY DEF Created
    <2> QED BY <2>1, <2>2, <2>3 DEF Fits, Created
  <1> QED BY <1>1, <1>2 DEF UseInv

\* The AI rule moves tracks between the buckets of a block, never out of it.
LEMMA DiscardUse ==
    ASSUME UseInv, NEW t \in Track, DiscardAiTracks(t)
    PROVE  NoneLost /\ UncreatedUnused'
  <1>1. /\ DiscardEffect({t})
        /\ UNCHANGED block
      BY DEF DiscardAiTracks, DiscardEffect
  <1>2. DISCARD \in Bucket
    BY CurationAssumption DEF Bucket
  <1>3. ASSUME NEW b \in Block PROVE HeldBy(b) \subseteq HeldBy(b)'
    <2>1. SUFFICES ASSUME NEW k \in Bucket, NEW u \in held[b][k]
                   PROVE  \E l \in Bucket : u \in held'[b][l]
      BY DEF HeldBy
    <2>2. u \in HeldBy(b)
      BY DEF HeldBy
    <2>3. CASE k = DISCARD \/ ~(Open(b) /\ block[b].ai) \/ u # t
      BY <1>1, <1>2, <2>3 DEF DiscardEffect
    <2>4. CASE Open(b) /\ block[b].ai /\ u = t
      BY <1>1, <1>2, <2>2, <2>4 DEF DiscardEffect
    <2> QED BY <2>3, <2>4
  <1>4. ASSUME NEW b \in Block, NEW k \in Bucket, ~Created(b) PROVE held'[b][k] = {}
    <2>1. ~Open(b) /\ held[b][k] = {}
      BY <1>4 DEF Open, Visible, UseInv, UncreatedUnused
    <2>2. \A c \in Category, u \in Track : members[c][u] # b
      BY <1>4 DEF UseInv, UncreatedUnused
    <2> QED BY <1>1, <2>1, <2>2 DEF DiscardEffect
  <1>5. \A c \in Category, u \in Track :
           members'[c][u] \in Block => members'[c][u] = members[c][u]
    BY <1>1, CurationAssumption DEF DiscardEffect
  <1>6. UncreatedUnused'
    BY <1>1, <1>4, <1>5 DEF UncreatedUnused, UseInv, Created
  <1> QED BY <1>3, <1>6 DEF NoneLost

LEMMA UnlockedUse ==
    ASSUME UseInv, Unlocked
    PROVE  UseInv' /\ NoneLost
  <1>0. TxTypeOK /\ TxTypeOK' /\ UNCHANGED req
    BY UnlockedType DEF UseInv, Unlocked, Single
  <1>1. ASSUME UNCHANGED <<held, members>>, \A b \in Block : Created(b)' <=> Created(b)
        PROVE  UseInv' /\ NoneLost
    <2>1. NoneLost /\ UncreatedUnused'
      BY <1>1 DEF NoneLost, HeldBy, UseInv, UncreatedUnused, Created
    <2> QED BY <1>0, <1>1, <2>1, QuietKeepsUse
  <1>2. ASSUME NEW b \in Block, SoftDeleteBlock(b) PROVE UseInv' /\ NoneLost
    <2>1. \A d \in Block : Created(d)' <=> Created(d)
      BY <1>0, <1>2 DEF SoftDeleteBlock, Created, TxTypeOK, TypeOK, BlockRow
    <2> QED BY <1>1, <1>2, <2>1 DEF SoftDeleteBlock
  <1>3. ASSUME NEW t \in Track, UntagTrack(t) \/ RecordFlag(t) PROVE UseInv' /\ NoneLost
    <2>1. UNCHANGED <<block, held, members>>
      BY <1>3 DEF UntagTrack, RecordFlag
    <2> QED BY <1>1, <2>1 DEF Created
  <1>4. ASSUME NEW t \in Track, DiscardAiTracks(t) PROVE UseInv' /\ NoneLost
    <2>1. NoneLost /\ UncreatedUnused' /\ UNCHANGED block
      BY <1>4, DiscardUse DEF DiscardAiTracks, DiscardEffect
    <2> QED BY <1>0, <2>1, QuietKeepsUse DEF Created
  <1> QED BY <1>2, <1>3, <1>4 DEF Unlocked, Single

LEMMA UseStep == UseInv /\ [TxNext]_vars => UseInv' /\ NoneLost
  <1> SUFFICES ASSUME UseInv, [TxNext]_vars PROVE UseInv' /\ NoneLost
    OBVIOUS
  <1>1. ASSUME UNCHANGED dbVars
        PROVE  NoneLost /\ UncreatedUnused' /\ \A b \in Block : Created(b)' <=> Created(b)
    BY <1>1 DEF dbVars, NoneLost, HeldBy, UseInv, UncreatedUnused, Created
  <1>2. TxTypeOK'
    BY TxTypeStep DEF UseInv
  <1>3. ASSUME NEW p \in Client, Fail(p) PROVE UseInv' /\ NoneLost
    BY <1>1, <1>2, <1>3, DoneKeepsUse DEF Fail
  <1>4. CASE UNCHANGED vars
    <2>1. UNCHANGED dbVars /\ UNCHANGED req
      BY <1>4 DEF vars, dbVars
    <2> QED BY <1>1, <1>2, <2>1, QuietKeepsUse
  <1> QED BY <1>3, <1>4, UnlockedUse, CreateBlockUse, MoveUse, TransferUse, FinalizeUse,
             CategoriesUse, TracksUse DEF TxNext

\* Whatever requests overlap, and wherever they fail, a track a block holds stays in
\* some bucket of that block.
THEOREM NoTrackLost == TxSpec => TracksNeverLost
  <1>1. UseInv /\ [TxNext]_vars => [\A b \in Block : HeldBy(b) \subseteq HeldBy(b)']_dbVars
    BY UseStep DEF NoneLost
  <1>2. UseInv /\ [TxNext]_vars => UseInv'
    BY UseStep
  <1> QED BY <1>1, <1>2, UseInvInit, PTL DEF TxSpec, TracksNeverLost

-----------------------------------------------------------------------------
(* A promotion can be traced to its block.  The tracks and buckets a        *)
(* finalize_block has read may be stale at its commit; they were the        *)
(* block's then, and a block gives up neither a track nor a bucket.         *)

\* What a finalize in flight is about to promote.
Backed(r) ==
    r.op = "finalize" =>
        \A c \in Category :
            /\ c \in r.todo \/ r.promoted[c] # {} => staging[r.b][c] # "none"
            /\ r.promoted[c] \subseteq HeldBy(r.b)

TraceInv ==
    /\ UseInv
    /\ PromotionTraceable
    /\ \A p \in Client : Backed(req[p]) /\ req[p].op # "add_track"

\* A block that exists keeps its buckets, and a finalized one stays finalized.
BlocksStay ==
    \A b \in Block : Created(b) =>
        /\ block[b].status = "FINALIZED" => block'[b].status = "FINALIZED"
        /\ \A c \in Category : staging[b][c] # "none" => staging'[b][c] # "none"

LEMMA BlocksStayStep == UseInv /\ [TxNext]_vars => BlocksStay
  <1> SUFFICES ASSUME UseInv, [TxNext]_vars PROVE BlocksStay
    OBVIOUS
  <1>0. TxTypeOK /\ TypeOK
    BY DEF UseInv, TxTypeOK
  <1>1. CASE UNCHANGED <<block, staging>>
    BY <1>1 DEF BlocksStay
  <1>2. ASSUME NEW p \in Client, CreateBlockCommit(p) PROVE BlocksStay
    <2>1. /\ req[p].op = "create_block"
          /\ CreateBlockEffect(req[p].b, req[p].ai, req[p].cats, req[p].put)
      BY <1>2 DEF CreateBlockCommit, At
    <2>2. ~Created(req[p].b)
      BY <2>1 DEF UseInv, Fits
    <2>3. \A b \in Block \ {req[p].b} : block'[b] = block[b] /\ staging'[b] = staging[b]
      BY <1>0, <2>1 DEF CreateBlockEffect, TypeOK
    <2> QED BY <2>2, <2>3 DEF BlocksStay
  <1>3. ASSUME NEW p \in Client, FinalizeCommit(p) PROVE BlocksStay
    BY <1>0, <1>3 DEF FinalizeCommit, FinalizeEffect, BlocksStay, TypeOK, BlockRow
  <1>4. ASSUME NEW p \in Client, CreateCategoryCommit(p) PROVE BlocksStay
    <2>1. UNCHANGED block
      BY <1>4 DEF CreateCategoryCommit, CreateCategoryEffect
    <2>2. \A b \in Block, c \in Category : staging'[b][c] \in {staging[b][c], "active"}
      BY <1>0, <1>4 DEF CreateCategoryCommit, CreateCategoryEffect, TypeOK
    <2> QED BY <2>1, <2>2 DEF BlocksStay
  <1>5. ASSUME NEW p \in Client, DeleteCategoryCommit(p) PROVE BlocksStay
    <2>1. UNCHANGED block
      BY <1>5 DEF DeleteCategoryCommit, DeleteCategoryEffect
    <2>2. \A b \in Block, c \in Category : staging'[b][c] \in {staging[b][c], "inactive"}
      BY <1>0, <1>5 DEF DeleteCategoryCommit, DeleteCategoryEffect, TypeOK
    <2> QED BY <2>1, <2>2 DEF BlocksStay
  <1>6. ASSUME NEW b \in Block, SoftDeleteBlock(b) PROVE BlocksStay
    BY <1>0, <1>6 DEF SoftDeleteBlock, BlocksStay, TypeOK, BlockRow
  <1>7. CASE Unlocked
    BY <1>1, <1>6, <1>7
    DEF Unlocked, Single, UntagTrack, RecordFlag, DiscardAiTracks, DiscardEffect
  <1>8. ASSUME NEW p \in Client, CreatingBlock(p) \/ Finalizing(p) PROVE BlocksStay
    BY <1>1, <1>2, <1>3, <1>8
    DEF CreatingBlock, CreateBlockCategories, CreateBlockClassify, Finalizing,
        FinalizeStatus, FinalizeInactive, FinalizeStaging, FinalizeBucket, Begin, Read,
        dbVars
  <1>9. ASSUME NEW p \in Client, EditingCategories(p) PROVE BlocksStay
    BY <1>1, <1>4, <1>5, <1>9
    DEF EditingCategories, CreateCategoryBlocks, DeleteCategoryMembers, Begin, dbVars
  <1>10. ASSUME NEW p \in Client, EditingTracks(p) PROVE BlocksStay
    BY <1>1, <1>10
    DEF EditingTracks, AddTrackCategory, AddTrackInsert, AddTrackEffect,
        RemoveTrackCategory, RemoveTrackDelete, RemoveTrackEffect, TagTaggable, TagInsert,
        Begin, dbVars
  <1>11. ASSUME NEW p \in Client, Moving(p) \/ Transferring(p) \/ Fail(p) PROVE BlocksStay
    BY <1>1, <1>11
    DEF Moving, MoveGuard, MovePresent, MoveCommit, MoveEffect, Transferring,
        TransferSource, TransferTarget, TransferPresent, TransferInsert, TransferEffect,
        Begin, Read, Fail, dbVars
  <1> QED
    BY <1>1, <1>7, <1>8, <1>9, <1>10, <1>11 DEF TxNext, vars

\* A request that is where it was is still backed.
LEMMA BackedStays ==
    ASSUME UseInv, NoneLost, BlocksStay, NEW p \in Client, req'[p] = req[p], Backed(req[p])
    PROVE  Backed(req[p])'
  <1> SUFFICES ASSUME req[p].op = "finalize", NEW c \in Category
               PROVE  /\ c \in req[p].todo \/ req[p].promoted[c] # {}
                           => staging'[req[p].b][c] # "none"
                      /\ req[p].promoted[c] \subseteq HeldBy(req[p].b)'
    BY DEF Backed, HeldBy
  <1>1. req[p].b \in Block /\ Created(req[p].b)
    BY FinalizeFields DEF UseInv, Fits
  <1>2. /\ c \in req[p].todo \/ req[p].promoted[c] # {} => staging[req[p].b][c] # "none"
        /\ req[p].promoted[c] \subseteq HeldBy(req[p].b)
    BY DEF Backed
  <1> QED BY <1>1, <1>2 DEF NoneLost, BlocksStay

\* A row that is as it was is still traceable.
LEMMA TraceStays ==
    ASSUME UseInv, PromotionTraceable, NoneLost, BlocksStay,
           \A c \in Category, t \in Track :
              members'[c][t] \in Block => members'[c][t] = members[c][t]
    PROVE  PromotionTraceable'
  <1> SUFFICES ASSUME NEW c \in Category, NEW t \in Track, NEW b \in Block,
                      members'[c][t] = b
               PROVE  /\ block'[b].status = "FINALIZED"
                      /\ staging'[b][c] # "none"
                      /\ t \in HeldBy(b)'
    BY DEF PromotionTraceable
  <1>1. members[c][t] = b
    OBVIOUS
  <1>2. block[b].status = "FINALIZED" /\ staging[b][c] # "none" /\ t \in HeldBy(b)
    BY <1>1 DEF PromotionTraceable
  <1>3. Created(b)
    BY <1>2 DEF Created
  <1> QED BY <1>2, <1>3 DEF NoneLost, BlocksStay

\* The commit promotes what is backed, and finalizes the block.
LEMMA FinalizeCommitTraced ==
    ASSUME TraceInv, NoneLost, BlocksStay, NEW p \in Client, FinalizeCommit(p)
    PROVE  PromotionTraceable'
  <1>1. /\ req[p].op = "finalize" /\ req[p].b \in Block
        /\ FinalizeEffect(req[p].b, req[p].promoted)
    BY FinalizeFields DEF FinalizeCommit, At, TraceInv, UseInv
  <1>2. block'[req[p].b].status = "FINALIZED" /\ UNCHANGED <<staging, held>>
    BY <1>1 DEF FinalizeEffect, TraceInv, UseInv, TxTypeOK, TypeOK, BlockRow
  <1> SUFFICES ASSUME NEW c \in Category, NEW t \in Track, NEW b \in Block,
                      members'[c][t] = b
               PROVE  /\ block'[b].status = "FINALIZED"
                      /\ staging'[b][c] # "none"
                      /\ t \in HeldBy(b)'
    BY DEF PromotionTraceable
  <1>3. CASE t \in req[p].promoted[c] /\ ~In(c, t)
    <2>1. b = req[p].b
      BY <1>1, <1>3 DEF FinalizeEffect
    <2>2. staging[b][c] # "none" /\ t \in HeldBy(b)
      BY <1>1, <1>3, <2>1 DEF TraceInv, Backed
    <2> QED BY <1>2, <2>1, <2>2 DEF HeldBy
  <1>4. CASE ~(t \in req[p].promoted[c] /\ ~In(c, t))
    <2>1. members[c][t] = b
      BY <1>1, <1>4 DEF FinalizeEffect
    <2>2. block[b].status = "FINALIZED" /\ staging[b][c] # "none" /\ t \in HeldBy(b)
      BY <2>1 DEF TraceInv, PromotionTraceable
    <2>3. Created(b)
      BY <2>2 DEF Created
    <2> QED BY <2>2, <2>3 DEF NoneLost, BlocksStay
  <1> QED BY <1>3, <1>4

\* What a statement of finalize_block leaves in the request is backed.
LEMMA FinalizingBacked ==
    ASSUME TraceInv, NEW p \in Client, Finalizing(p), ~FinalizeCommit(p)
    PROVE  /\ UNCHANGED dbVars
           /\ Backed(req[p])' /\ req'[p].op = "finalize"
           /\ \A q \in Client \ {p} : req'[q] = req[q]
  <1>0. TxTypeOK /\ req \in [Client -> Request]
    BY DEF TraceInv, UseInv, TxTypeOK
  <1>1. ASSUME NEW b \in Block, FinalizeStatus(p, b)
        PROVE  /\ UNCHANGED dbVars /\ Backed(req[p])' /\ req'[p].op = "finalize"
               /\ \A q \in Client \ {p} : req'[q] = req[q]
    <2> DEFINE r == [op |-> "finalize", pc |-> "inactive", b |-> b, todo |-> {},
                     promoted |-> NoTracks]
    <2>1. r.op = "finalize" /\ r.todo = {} /\ \A c \in Category : r.promoted[c] = {}
      BY DEF NoTracks
    <2>2. UNCHANGED dbVars /\ req' = [req EXCEPT ![p] = r]
      BY <1>1 DEF FinalizeStatus, Begin
    <2> HIDE DEF r
    <2>3. req'[p] = r /\ \A q \in Client \ {p} : req'[q] = req[q]
      BY <1>0, <2>2
    <2> QED BY <2>1, <2>2, <2>3 DEF Backed
  <1>2. ASSUME NEW r, Read(p, r), r.op = "finalize", Backed(r)
        PROVE  /\ UNCHANGED dbVars /\ Backed(req[p])' /\ req'[p].op = "finalize"
               /\ \A q \in Client \ {p} : req'[q] = req[q]
    <2>1. UNCHANGED dbVars /\ req'[p] = r /\ \A q \in Client \ {p} : req'[q] = req[q]
      BY <1>0, <1>2 DEF Read
    <2>2. UNCHANGED <<staging, held>>
      BY <2>1 DEF dbVars
    <2> QED BY <1>2, <2>1, <2>2 DEF Backed, HeldBy
  <1>3. CASE FinalizeInactive(p)
    <2> DEFINE r == [req[p] EXCEPT !.pc = "staging"]
    <2>1. req[p].op = "finalize" /\ Read(p, r)
      BY <1>3 DEF FinalizeInactive, At
    <2>2. r.op = "finalize" /\ r.b = req[p].b /\ r.todo = req[p].todo
            /\ r.promoted = req[p].promoted
      BY <1>0, <2>1, FinalizeFields
    <2> HIDE DEF r
    <2>3. Backed(r)
      BY <2>1, <2>2 DEF TraceInv, Backed
    <2> QED BY <2>1, <2>2, <2>3, <1>2
  <1>4. CASE FinalizeStaging(p)
    <2> DEFINE actives == {c \in Category : staging[req[p].b][c] = "active"}
    <2> DEFINE r == [req[p] EXCEPT !.pc = "promote", !.todo = actives]
    <2>1. req[p].op = "finalize" /\ Read(p, r)
      BY <1>4 DEF FinalizeStaging, At
    <2>2. \A c \in actives : staging[req[p].b][c] # "none"
      OBVIOUS
    <2> HIDE DEF actives
    <2>3. r.op = "finalize" /\ r.b = req[p].b /\ r.todo = actives
            /\ r.promoted = req[p].promoted
      BY <1>0, <2>1, FinalizeFields
    <2> HIDE DEF r
    <2>4. Backed(r)
      BY <2>1, <2>2, <2>3 DEF TraceInv, Backed
    <2> QED BY <2>1, <2>3, <2>4, <1>2
  <1>5. ASSUME NEW c \in Category, FinalizeBucket(p, c)
        PROVE  /\ UNCHANGED dbVars /\ Backed(req[p])' /\ req'[p].op = "finalize"
               /\ \A q \in Client \ {p} : req'[q] = req[q]
    <2> DEFINE prom == [req[p].promoted EXCEPT ![c] = held[req[p].b][c]]
    <2> DEFINE r == [req[p] EXCEPT !.todo = @ \ {c}, !.promoted = prom]
    <2>1. req[p].op = "finalize" /\ c \in req[p].todo /\ Read(p, r)
      BY <1>5 DEF FinalizeBucket, At
    <2>2. req[p].promoted \in [Category -> SUBSET Track]
      BY <1>0, <2>1, FinalizeFields
    <2>3. \A d \in Category : prom[d] = IF d = c THEN held[req[p].b][c] ELSE req[p].promoted[d]
      BY <2>2
    <2> HIDE DEF prom
    <2>4. r.op = "finalize" /\ r.b = req[p].b /\ r.todo = req[p].todo \ {c} /\ r.promoted = prom
      BY <1>0, <2>1, FinalizeFields
    <2> HIDE DEF r
    <2>5. c \in Bucket /\ held[req[p].b][c] \subseteq HeldBy(req[p].b)
      BY DEF Bucket, HeldBy
    <2>6. Backed(req[p])
      BY DEF TraceInv
    <2>7. Backed(r)
      BY <2>1, <2>3, <2>4, <2>5, <2>6 DEF Backed
    <2> QED BY <2>1, <2>4, <2>7, <1>2
  <1> QED BY <1>1, <1>3, <1>4, <1>5 DEF Finalizing


\* The statements of the other requests neither promote nor start to.
OtherSteps(p) ==
    \/ Fail(p)
    \/ FinalizeCommit(p)
    \/ CreatingBlock(p)
    \/ Moving(p)
    \/ Transferring(p)
    \/ EditingCategories(p)
    \/ EditingTracks(p)

LEMMA OtherRequests ==
    ASSUME TxTypeOK, "add_track" \notin Ops, NEW p \in Client, OtherSteps(p)
    PROVE  \A q \in Client :
              req'[q] = req[q] \/ req'[q].op \notin {"finalize", "add_track"}
  <1>0. req \in [Client -> Request]
    BY DEF TxTypeOK
  <1>1. ASSUME NEW r, req' = [req EXCEPT ![p] = r], r.op \notin {"finalize", "add_track"}
        PROVE  \A q \in Client :
                  req'[q] = req[q] \/ req'[q].op \notin {"finalize", "add_track"}
    BY <1>0, <1>1
  <1>2. CASE Done(p)
    BY <1>1, <1>2 DEF Done, Idle
  <1>3. CASE CreatingBlock(p)
    <2>1. ASSUME NEW b \in Block, NEW ai \in BOOLEAN, CreateBlockCategories(p, b, ai)
          PROVE  \A q \in Client :
                    req'[q] = req[q] \/ req'[q].op \notin {"finalize", "add_track"}
      BY <1>1, <2>1 DEF CreateBlockCategories, Begin
    <2>2. CASE CreateBlockClassify(p)
      <3> DEFINE r == [req[p] EXCEPT !.put = Classified(req[p].b, req[p].ai), !.pc = "commit"]
      <3>1. req[p].op = "create_block" /\ Read(p, r)
        BY <2>2 DEF CreateBlockClassify, At
      <3>2. r.op = "create_block"
        BY <3>1, CreateBlockFields
      <3> HIDE DEF r
      <3> QED BY <1>1, <3>1, <3>2 DEF Read
    <2> QED BY <1>2, <1>3, <2>1, <2>2 DEF CreatingBlock, CreateBlockCommit
  <1>4. CASE Moving(p)
    <2>1. CASE MovePresent(p)
      <3> DEFINE r == [req[p] EXCEPT !.pc = "commit"]
      <3>1. req[p].op = "move" /\ Read(p, r)
        BY <2>1 DEF MovePresent, At
      <3>2. r.op = "move"
        BY <3>1, MoveFields
      <3> HIDE DEF r
      <3> QED BY <1>1, <3>1, <3>2 DEF Read
    <2>2. ASSUME NEW b \in Block, NEW from \in Bucket, NEW to \in Bucket,
                 NEW ts \in SUBSET Track, MoveGuard(p, b, from, to, ts)
          PROVE  \A q \in Client :
                    req'[q] = req[q] \/ req'[q].op \notin {"finalize", "add_track"}
      BY <1>1, <2>2 DEF MoveGuard, Begin
    <2> QED BY <1>2, <1>4, <2>1, <2>2 DEF Moving, MoveCommit
  <1>5. CASE Transferring(p)
    <2>1. ASSUME NEW r, Read(p, r), r.op = "transfer"
          PROVE  \A q \in Client :
                    req'[q] = req[q] \/ req'[q].op \notin {"finalize", "add_track"}
      BY <1>1, <2>1 DEF Read
    <2>2. CASE TransferTarget(p)
      <3>1. req[p].op = "transfer" /\ Read(p, [req[p] EXCEPT !.pc = "present"])
        BY <2>2 DEF TransferTarget, At
      <3>2. [req[p] EXCEPT !.pc = "present"].op = "transfer"
        BY <3>1, TransferFields
      <3> QED BY <2>1, <3>1, <3>2
    <2>3. CASE TransferPresent(p)
      <3>1. req[p].op = "transfer" /\ Read(p, [req[p] EXCEPT !.pc = "insert"])
        BY <2>3 DEF TransferPresent, At
      <3>2. [req[p] EXCEPT !.pc = "insert"].op = "transfer"
        BY <3>1, TransferFields
      <3> QED BY <2>1, <3>1, <3>2
    <2>4. ASSUME NEW s \in Block, NEW d \in Block, NEW to \in Bucket,
                 NEW ts \in SUBSET Track, TransferSource(p, s, d, to, ts)
          PROVE  \A q \in Client :
                    req'[q] = req[q] \/ req'[q].op \notin {"finalize", "add_track"}
      BY <1>1, <2>4 DEF TransferSource, Begin
    <2> QED BY <1>2, <1>5, <2>2, <2>3, <2>4 DEF Transferring, TransferInsert
  <1>6. CASE EditingCategories(p)
    BY <1>1, <1>2, <1>6
    DEF EditingCategories, CreateCategoryBlocks, CreateCategoryCommit,
        DeleteCategoryMembers, DeleteCategoryCommit, Begin
  <1>7. CASE EditingTracks(p)
    BY <1>1, <1>2, <1>7
    DEF EditingTracks, AddTrackCategory, AddTrackInsert, RemoveTrackCategory,
        RemoveTrackDelete, TagTaggable, TagInsert, Begin
  <1> QED BY <1>2, <1>3, <1>4, <1>5, <1>6, <1>7 DEF OtherSteps, Fail, FinalizeCommit

\* What is written into category_tracks, save by a finalize and a hand add.
LEMMA OtherMembers ==
    ASSUME TraceInv, Unlocked \/ \E p \in Client : OtherSteps(p) /\ ~FinalizeCommit(p)
    PROVE  \A c \in Category, t \in Track :
              members'[c][t] \in Block => members'[c][t] = members[c][t]
  <1>0. TxTypeOK /\ TypeOK /\ NotIn \notin Block
    BY CurationAssumption DEF TraceInv, UseInv, TxTypeOK
  <1>1. CASE UNCHANGED members
    BY <1>1
  <1>2. ASSUME NEW p \in Client, RemoveTrackDelete(p)
        PROVE  \A c \in Category, t \in Track :
                  members'[c][t] \in Block => members'[c][t] = members[c][t]
    <2>1. req[p].c \in Category /\ req[p].t \in Track
      BY <1>0, <1>2, RemoveTrackFields DEF RemoveTrackDelete
    <2> QED BY <1>0, <1>2, <2>1 DEF RemoveTrackDelete, RemoveTrackEffect, TypeOK
  <1>3. ASSUME NEW t \in Track, DiscardAiTracks(t)
        PROVE  \A c \in Category, u \in Track :
                  members'[c][u] \in Block => members'[c][u] = members[c][u]
    BY <1>0, <1>3 DEF DiscardAiTracks, DiscardEffect
  <1>4. CASE Unlocked
    BY <1>1, <1>3, <1>4 DEF Unlocked, Single, SoftDeleteBlock, UntagTrack, RecordFlag
  <1>5. ASSUME NEW p \in Client, EditingTracks(p)
        PROVE  \A c \in Category, t \in Track :
                  members'[c][t] \in Block => members'[c][t] = members[c][t]
    <2>1. ~AddTrackInsert(p)
      BY DEF TraceInv, AddTrackInsert
    <2> QED
      BY <1>1, <1>2, <1>5, <2>1
      DEF EditingTracks, AddTrackCategory, RemoveTrackCategory, TagTaggable, TagInsert,
          Begin, dbVars
  <1>6. ASSUME NEW p \in Client, EditingCategories(p) PROVE UNCHANGED members
    BY <1>6
    DEF EditingCategories, CreateCategoryBlocks, CreateCategoryCommit, CreateCategoryEffect,
        DeleteCategoryMembers, DeleteCategoryCommit, DeleteCategoryEffect, Begin, dbVars
  <1>7. ASSUME NEW p \in Client, CreatingBlock(p) \/ Moving(p) \/ Transferring(p) \/ Fail(p)
        PROVE  UNCHANGED members
    BY <1>7
    DEF CreatingBlock, CreateBlockCategories, CreateBlockClassify, CreateBlockCommit,
        CreateBlockEffect, Moving, MoveGuard, MovePresent, MoveCommit, MoveEffect,
        Transferring, TransferSource, TransferTarget, TransferPresent, TransferInsert,
        TransferEffect, Begin, Read, Fail, dbVars
  <1> QED BY <1>1, <1>4, <1>5, <1>6, <1>7 DEF OtherSteps

LEMMA TraceStep ==
    ASSUME "add_track" \notin Ops
    PROVE  TraceInv /\ [TxNext]_vars => TraceInv'
  <1> SUFFICES ASSUME TraceInv, [TxNext]_vars PROVE TraceInv'
    OBVIOUS
  <1>1. UseInv' /\ NoneLost /\ BlocksStay
    BY UseStep, BlocksStayStep DEF TraceInv
  <1>2. TxTypeOK /\ UseInv /\ PromotionTraceable
    BY DEF TraceInv, UseInv
  <1> DEFINE Members == \A c \in Category, t \in Track :
                members'[c][t] \in Block => members'[c][t] = members[c][t]
  <1> DEFINE Requests == \A p \in Client :
                req'[p] = req[p] \/ req'[p].op \notin {"finalize", "add_track"}
  <1>3. ASSUME Requests PROVE \A p \in Client : Backed(req[p])' /\ req'[p].op # "add_track"
    <2> SUFFICES ASSUME NEW p \in Client PROVE Backed(req[p])' /\ req'[p].op # "add_track"
      OBVIOUS
    <2>1. CASE req'[p] = req[p]
      BY <1>1, <1>2, <2>1, BackedStays DEF TraceInv
    <2>2. CASE req'[p].op \notin {"finalize", "add_track"}
      BY <2>2 DEF Backed
    <2> QED BY <1>3, <2>1, <2>2
  <1>4. ASSUME Members PROVE PromotionTraceable'
    BY <1>1, <1>2, <1>4, TraceStays
  <1>5. CASE UNCHANGED vars
    BY <1>1, <1>3, <1>4, <1>5 DEF vars, TraceInv
  <1>6. CASE Unlocked
    <2>1. Requests
      BY <1>6 DEF Unlocked, Single
    <2>2. Members
      BY <1>6, OtherMembers
    <2> QED BY <1>1, <1>3, <1>4, <2>1, <2>2 DEF TraceInv
  <1>7. ASSUME NEW p \in Client, OtherSteps(p) PROVE TraceInv'
    <2>1. Requests
      BY <1>2, <1>7, OtherRequests
    <2>2. PromotionTraceable'
      <3>1. CASE FinalizeCommit(p)
        BY <1>1, <3>1, FinalizeCommitTraced
      <3>2. CASE ~FinalizeCommit(p)
        BY <1>4, <1>7, <3>2, OtherMembers
      <3> QED BY <3>1, <3>2
    <2> QED BY <1>1, <1>3, <2>1, <2>2 DEF TraceInv
  <1>8. ASSUME NEW p \in Client, Finalizing(p), ~FinalizeCommit(p) PROVE TraceInv'
    <2>1. /\ UNCHANGED dbVars
          /\ Backed(req[p])' /\ req'[p].op = "finalize"
          /\ \A q \in Client \ {p} : req'[q] = req[q]
      BY <1>8, FinalizingBacked
    <2>2. PromotionTraceable'
      BY <1>4, <2>1 DEF dbVars
    <2>3. ASSUME NEW q \in Client PROVE Backed(req[q])' /\ req'[q].op # "add_track"
      <3>1. CASE q = p
        BY <2>1, <3>1
      <3>2. CASE q # p
        BY <1>1, <1>2, <2>1, <3>2, BackedStays DEF TraceInv
      <3> QED BY <3>1, <3>2
    <2> QED BY <1>1, <2>2, <2>3 DEF TraceInv
  <1> QED BY <1>5, <1>6, <1>7, <1>8 DEF TxNext, OtherSteps

LEMMA TraceInit == TxInit => TraceInv
  <1> SUFFICES ASSUME TxInit PROVE TraceInv
    OBVIOUS
  <1>1. UseInv
    BY UseInvInit
  <1>2. PromotionTraceable
    BY CurationAssumption DEF TxInit, Init, PromotionTraceable
  <1>3. \A p \in Client : Backed(req[p]) /\ req[p].op # "add_track"
    BY DEF TxInit, Idle, Backed
  <1> QED BY <1>1, <1>2, <1>3 DEF TraceInv

\* Whatever overlaps a finalize_block, and wherever requests fail, a category row that
\* names a source block was written by the commit that finalized it, for one of its own
\* buckets, and the block still holds the track.  Hand adds are left out: their callers
\* name any block they own as the source.
THEOREM PromotionAlwaysTraceable ==
    ASSUME "add_track" \notin Ops
    PROVE  TxSpec => []PromotionTraceable
  <1>1. TraceInv /\ [TxNext]_vars => TraceInv'
    BY TraceStep
  <1>2. TraceInv => PromotionTraceable
    BY DEF TraceInv
  <1> QED BY <1>1, <1>2, TraceInit, PTL DEF TxSpec

-----------------------------------------------------------------------------
(* Requests that do not overlap implement the one-step requests of Curation. *)
(* A request alone finds at its commit the tables it has read: every answer  *)
(* it remembers is the one the same SELECT would give now, so the guard of   *)
(* the one-step request holds and the effect is applied to what it says.     *)

Idles == \A p, q \in Client : req[p] # Idle /\ req[q] # Idle => p = q

\* What the request remembers is what the tables say.
CurrentFinalize(r) ==
    /\ Open(r.b)
    /\ r.pc # "inactive" => InactiveEmpty(r.b)
    /\ r.pc # "promote" => r.promoted = NoTracks
    /\ r.pc = "promote" => \A c \in r.todo : staging[r.b][c] = "active"
    /\ r.pc = "promote" =>
         \A c \in Category :
            IF staging[r.b][c] = "active" /\ c \notin r.todo
            THEN /\ r.promoted[c] = held[r.b][c]
                 /\ held[r.b][c] # {} => Alive(c)
            ELSE r.promoted[c] = {}

Current(r) ==
    /\ r.op = "create_block" =>
         /\ ~Created(r.b)
         /\ r.cats = StyleCategories(r.b)
         /\ r.pc = "commit" => r.put = Classified(r.b, r.ai)
    /\ r.op = "move" =>
         /\ MayMove(r.b, r.from, r.to)
         /\ r.from # r.to
         /\ r.ts # {}
         /\ r.pc = "commit" => r.ts \subseteq held[r.b][r.from]
    /\ r.op = "transfer" =>
         /\ Visible(r.s)
         /\ r.ts # {}
         /\ r.pc # "target" => MayTransfer(r.s, r.d, r.to)
         /\ r.pc = "insert" => r.ts \subseteq HeldBy(r.s)
    /\ r.op = "finalize" => CurrentFinalize(r)
    /\ r.op = "create_category" =>
         /\ category[r.c] = "none"
         /\ r.blocks = {b \in Block : Open(b) /\ BlockStyle[b] = CategoryStyle[r.c]}
    /\ r.op = "delete_category" => r.former = {t \in Track : In(r.c, t)}
    /\ r.op = "add_track" =>
         /\ r.src \in Block => Created(r.src)
         /\ Alive(r.c)
    /\ r.op = "remove_track" => Alive(r.c)
    /\ r.op = "tag" => Taggable(r.t)

AloneInv ==
    /\ TxTypeOK
    /\ Idles
    /\ \A p \in Client : Current(req[p])

LEMMA AloneInit == TxInit => AloneInv
  <1> SUFFICES ASSUME TxInit PROVE AloneInv
    OBVIOUS
  <1>1. \A p \in Client : req[p] = Idle
    BY DEF TxInit
  <1>2. Idles /\ \A p \in Client : Current(req[p])
    BY <1>1 DEF Idles, Current, Idle
  <1> QED BY <1>2, TxTypeInit DEF AloneInv

\* A request ends: nothing is left in flight.
LEMMA AloneDone ==
    ASSUME AloneInv, NEW p \in Client, req[p] # Idle, Done(p), TxTypeOK'
    PROVE  AloneInv'
  <1>1. \A q \in Client : req'[q] = Idle
    BY DEF AloneInv, Idles, Done, TxTypeOK
  <1>2. Idles' /\ \A q \in Client : Current(req[q])'
    BY <1>1 DEF Idles, Current, Idle
  <1> QED BY <1>2 DEF AloneInv

\* A SELECT of the only request in flight: what it leaves has to be current.
LEMMA AloneRead ==
    ASSUME AloneInv, NEW p \in Client, NEW r, Read(p, r), Current(r), TxTypeOK',
           \A q \in Client \ {p} : req[q] = Idle
    PROVE  AloneInv' /\ UNCHANGED dbVars
  <1>1. req'[p] = r /\ \A q \in Client \ {p} : req'[q] = Idle
    BY DEF Read, AloneInv, TxTypeOK
  <1>2. Current(r)'
    <2>1. UNCHANGED dbVars
      BY DEF Read
    <2>2. CurrentFinalize(r) => CurrentFinalize(r)'
      BY <2>1 DEF dbVars, CurrentFinalize, Open, Visible, Created, InactiveEmpty, Alive
    <2>3. /\ \A b \in Block : /\ Created(b)' <=> Created(b)
                            /\ Open(b)' <=> Open(b)
          /\ \A c \in Category : Alive(c)' <=> Alive(c)
          /\ Created(r.b)' <=> Created(r.b)
          /\ Visible(r.s)' <=> Visible(r.s)
          /\ Alive(r.c)' <=> Alive(r.c)
      BY <2>1 DEF dbVars, Created, Visible, Open, Alive
    <2>4. /\ StyleCategories(r.b)' = StyleCategories(r.b)
          /\ Classified(r.b, r.ai)' = Classified(r.b, r.ai)
          /\ HeldBy(r.s)' = HeldBy(r.s)
      BY <2>1 DEF dbVars, StyleCategories, Classified, KeptInStyle, Alive, In, HeldBy
    <2>5. /\ MayMove(r.b, r.from, r.to)' <=> MayMove(r.b, r.from, r.to)
          /\ MayTransfer(r.s, r.d, r.to)' <=> MayTransfer(r.s, r.d, r.to)
      BY <2>1 DEF dbVars, MayMove, MayTransfer, Open, Visible, Created, BucketsOf, Inactive
    <2>6. Taggable(r.t)' <=> Taggable(r.t)
      BY <2>1 DEF dbVars, Taggable, Kept, Alive, In, Open, Visible, Created, HeldBy
    <2>7. {b \in Block : Open(b) /\ BlockStyle[b] = CategoryStyle[r.c]}'
            = {b \in Block : Open(b) /\ BlockStyle[b] = CategoryStyle[r.c]}
      BY <2>1 DEF dbVars, Open, Visible, Created
    <2>8. {t \in Track : In(r.c, t)}' = {t \in Track : In(r.c, t)}
      BY <2>1 DEF dbVars, In
    <2>9. UNCHANGED <<held, category>>
      BY <2>1 DEF dbVars
    <2>10. r.src \in Block => (Created(r.src)' <=> Created(r.src))
      BY <2>1 DEF dbVars, Created
    <2> QED
      BY <2>2, <2>3, <2>4, <2>5, <2>6, <2>7, <2>8, <2>9, <2>10 DEF Current
  <1>5. Current(req[p])'
    BY <1>1, <1>2
    DEF Current, CurrentFinalize, Created, StyleCategories, Alive, Classified, KeptInStyle, In,
        MayMove, MayTransfer, Open, Visible, BucketsOf, Inactive, HeldBy, InactiveEmpty,
        Taggable, Kept
  <1>3. \A q \in Client \ {p} : Current(req[q])'
    BY <1>1 DEF Current, Idle
  <1>4. Idles'
    BY <1>1 DEF Idles
  <1> QED BY <1>3, <1>4, <1>5 DEF AloneInv, Read

\* The first SELECT, which Isolated lets run only when nothing is in flight.
LEMMA AloneBegin ==
    ASSUME Isolated, AloneInv, NEW p \in Client, NEW op, NEW r, Begin(p, op, r), Current(r),
           TxTypeOK'
    PROVE  AloneInv' /\ UNCHANGED dbVars
  <1>1. Read(p, r) /\ \A q \in Client \ {p} : req[q] = Idle
    BY DEF Begin, Quiet, Read
  <1> QED BY <1>1, AloneRead

LEMMA OthersIdle ==
    ASSUME AloneInv, NEW p \in Client, req[p] # Idle
    PROVE  \A q \in Client \ {p} : req[q] = Idle
  BY DEF AloneInv, Idles

\* A request that is at some statement is in flight.
LEMMA InFlight == ASSUME NEW p \in Client, req[p].op # "idle" PROVE req[p] # Idle
  BY DEF Idle

\* Each step of a request is a read or the one-step request itself.
LEMMA CreateBlockSerial ==
    ASSUME Isolated, AloneInv, NEW p \in Client, CreatingBlock(p)
    PROVE  AloneInv' /\ [Next]_dbVars
  <1>0. TxTypeOK /\ TxTypeOK' /\ Current(req[p])
    BY CreateBlockSteps DEF AloneInv
  <1>1. ASSUME NEW b \in Block, NEW ai \in BOOLEAN, CreateBlockCategories(p, b, ai)
        PROVE  AloneInv' /\ [Next]_dbVars
    <2> DEFINE r == [op |-> "create_block", pc |-> "classify", b |-> b, ai |-> ai,
                     cats |-> StyleCategories(b), put |-> [k \in Bucket |-> {}]]
    <2>1. Begin(p, "create_block", r) /\ ~Created(b)
      BY <1>1 DEF CreateBlockCategories, Fresh
    <2>2. Current(r)
      BY <2>1 DEF Current
    <2> HIDE DEF r
    <2> QED BY <1>0, <2>1, <2>2, AloneBegin
  <1>2. CASE CreateBlockClassify(p)
    <2> DEFINE r == [req[p] EXCEPT !.put = Classified(req[p].b, req[p].ai), !.pc = "commit"]
    <2>1. req[p].op = "create_block" /\ Read(p, r)
      BY <1>2 DEF CreateBlockClassify, At
    <2>2. /\ r.op = "create_block" /\ r.b = req[p].b /\ r.ai = req[p].ai
          /\ r.cats = req[p].cats /\ r.put = Classified(req[p].b, req[p].ai)
      BY <1>0, <2>1, CreateBlockFields
    <2> HIDE DEF r
    <2>3. Current(r)
      BY <1>0, <2>1, <2>2 DEF Current
    <2> QED BY <1>0, <2>1, <2>3, AloneRead, OthersIdle, InFlight
  <1>3. CASE CreateBlockCommit(p)
    <2>1. /\ req[p].op = "create_block" /\ req[p].pc = "commit" /\ Done(p)
          /\ CreateBlockEffect(req[p].b, req[p].ai, req[p].cats, req[p].put)
      BY <1>3 DEF CreateBlockCommit, At
    <2>2. req[p].b \in Block /\ req[p].ai \in BOOLEAN
      BY <1>0, <2>1, CreateBlockFields
    <2>3. CreateBlock(req[p].b, req[p].ai)
      BY <1>0, <2>1 DEF Current, CreateBlock
    <2>4. Next
      BY <2>2, <2>3 DEF Next
    <2> QED BY <1>0, <2>1, <2>4, AloneDone, InFlight
  <1> QED BY <1>1, <1>2, <1>3 DEF CreatingBlock

LEMMA MoveSerial ==
    ASSUME Isolated, AloneInv, NEW p \in Client, Moving(p)
    PROVE  AloneInv' /\ [Next]_dbVars
  <1>0. TxTypeOK /\ TxTypeOK' /\ Current(req[p])
    BY MoveSteps DEF AloneInv
  <1>1. ASSUME NEW b \in Block, NEW from \in Bucket, NEW to \in Bucket,
               NEW ts \in (SUBSET Track) \ {{}}, MoveGuard(p, b, from, to, ts)
        PROVE  AloneInv' /\ [Next]_dbVars
    <2> DEFINE r == [op |-> "move", pc |-> "present", b |-> b,
                     from |-> from, to |-> to, ts |-> ts]
    <2>1. Begin(p, "move", r) /\ MayMove(b, from, to) /\ from # to /\ ts # {}
      BY <1>1 DEF MoveGuard
    <2>2. Current(r)
      BY <2>1 DEF Current
    <2> HIDE DEF r
    <2> QED BY <1>0, <2>1, <2>2, AloneBegin
  <1>2. CASE MovePresent(p)
    <2> DEFINE r == [req[p] EXCEPT !.pc = "commit"]
    <2>1. /\ req[p].op = "move" /\ Read(p, r)
          /\ req[p].ts \subseteq held[req[p].b][req[p].from]
      BY <1>2 DEF MovePresent, At
    <2>2. /\ r.op = "move" /\ r.b = req[p].b /\ r.from = req[p].from
          /\ r.to = req[p].to /\ r.ts = req[p].ts
      BY <1>0, <2>1, MoveFields
    <2> HIDE DEF r
    <2>3. Current(r)
      BY <1>0, <2>1, <2>2 DEF Current
    <2> QED BY <1>0, <2>1, <2>3, AloneRead, OthersIdle, InFlight
  <1>3. CASE MoveCommit(p)
    <2>1. /\ req[p].op = "move" /\ req[p].pc = "commit" /\ Done(p)
          /\ MoveEffect(req[p].b, req[p].from, req[p].to, req[p].ts)
      BY <1>3 DEF MoveCommit, At
    <2>2. /\ req[p].b \in Block /\ req[p].from \in Bucket /\ req[p].to \in Bucket
          /\ req[p].ts \in SUBSET Track
      BY <1>0, <2>1, MoveFields
    <2>3. Move(req[p].b, req[p].from, req[p].to, req[p].ts) /\ req[p].ts # {}
      BY <1>0, <2>1 DEF Current, Move
    <2>4. Next
      BY <2>2, <2>3 DEF Next
    <2> QED BY <1>0, <2>1, <2>4, AloneDone, InFlight
  <1> QED BY <1>1, <1>2, <1>3 DEF Moving

LEMMA TransferSerial ==
    ASSUME Isolated, AloneInv, NEW p \in Client, Transferring(p)
    PROVE  AloneInv' /\ [Next]_dbVars
  <1>0. TxTypeOK /\ TxTypeOK' /\ Current(req[p])
    BY TransferSteps DEF AloneInv
  <1>1. ASSUME NEW s \in Block, NEW d \in Block, NEW to \in Bucket,
               NEW ts \in (SUBSET Track) \ {{}}, TransferSource(p, s, d, to, ts)
        PROVE  AloneInv' /\ [Next]_dbVars
    <2> DEFINE r == [op |-> "transfer", pc |-> "target", s |-> s, d |-> d,
                     to |-> to, ts |-> ts]
    <2>1. Begin(p, "transfer", r) /\ Visible(s) /\ ts # {}
      BY <1>1 DEF TransferSource
    <2>2. Current(r)
      BY <2>1 DEF Current
    <2> HIDE DEF r
    <2> QED BY <1>0, <2>1, <2>2, AloneBegin
  <1>2. CASE TransferTarget(p)
    <2> DEFINE r == [req[p] EXCEPT !.pc = "present"]
    <2>1. req[p].op = "transfer" /\ Read(p, r) /\ MayTransfer(req[p].s, req[p].d, req[p].to)
      BY <1>2 DEF TransferTarget, At
    <2>2. /\ r.op = "transfer" /\ r.pc = "present" /\ r.s = req[p].s /\ r.d = req[p].d
          /\ r.to = req[p].to /\ r.ts = req[p].ts
      BY <1>0, <2>1, TransferFields
    <2> HIDE DEF r
    <2>3. Current(r)
      BY <1>0, <2>1, <2>2 DEF Current
    <2> QED BY <1>0, <2>1, <2>3, AloneRead, OthersIdle, InFlight
  <1>3. CASE TransferPresent(p)
    <2> DEFINE r == [req[p] EXCEPT !.pc = "insert"]
    <2>1. /\ req[p].op = "transfer" /\ req[p].pc = "present" /\ Read(p, r)
          /\ req[p].ts \subseteq HeldBy(req[p].s)
      BY <1>3 DEF TransferPresent, At
    <2>2. /\ r.op = "transfer" /\ r.s = req[p].s /\ r.d = req[p].d
          /\ r.to = req[p].to /\ r.ts = req[p].ts
      BY <1>0, <2>1, TransferFields
    <2> HIDE DEF r
    <2>3. Current(r)
      BY <1>0, <2>1, <2>2 DEF Current
    <2> QED BY <1>0, <2>1, <2>3, AloneRead, OthersIdle, InFlight
  <1>4. CASE TransferInsert(p)
    <2>1. /\ req[p].op = "transfer" /\ req[p].pc = "insert" /\ Done(p)
          /\ TransferEffect(req[p].d, req[p].to, req[p].ts)
      BY <1>4 DEF TransferInsert, At
    <2>2. /\ req[p].s \in Block /\ req[p].d \in Block /\ req[p].to \in Bucket
          /\ req[p].ts \in SUBSET Track
      BY <1>0, <2>1, TransferFields
    <2>3. Transfer(req[p].s, req[p].d, req[p].to, req[p].ts) /\ req[p].ts # {}
      BY <1>0, <2>1 DEF Current, Transfer
    <2>4. Next
      BY <2>2, <2>3 DEF Next
    <2> QED BY <1>0, <2>1, <2>4, AloneDone, InFlight
  <1> QED BY <1>1, <1>2, <1>3, <1>4 DEF Transferring

LEMMA FinalizeSerial ==
    ASSUME Isolated, AloneInv, NEW p \in Client, Finalizing(p)
    PROVE  AloneInv' /\ [Next]_dbVars
  <1>0. TxTypeOK /\ TxTypeOK' /\ Current(req[p])
    BY FinalizeSteps DEF AloneInv
  <1>1. ASSUME NEW b \in Block, FinalizeStatus(p, b)
        PROVE  AloneInv' /\ [Next]_dbVars
    <2> DEFINE r == [op |-> "finalize", pc |-> "inactive", b |-> b, todo |-> {},
                     promoted |-> NoTracks]
    <2>1. Begin(p, "finalize", r) /\ Open(b)
      BY <1>1 DEF FinalizeStatus
    <2>2. Current(r)
      BY <2>1 DEF Current, CurrentFinalize
    <2> HIDE DEF r
    <2> QED BY <1>0, <2>1, <2>2, AloneBegin
  <1>2. ASSUME NEW r, Read(p, r), req[p].op = "finalize", r.op = "finalize",
               CurrentFinalize(r)
        PROVE  AloneInv' /\ [Next]_dbVars
    <2>1. Current(r)
      BY <1>2 DEF Current
    <2> QED BY <1>0, <1>2, <2>1, AloneRead, OthersIdle, InFlight
  <1>3. ASSUME req[p].op = "finalize"
        PROVE  /\ CurrentFinalize(req[p])
               /\ req[p] \in [op : {"finalize"}, pc : {"inactive", "staging", "promote"},
                              b : Block, todo : SUBSET Category,
                              promoted : [Category -> SUBSET Track]]
    BY <1>0, <1>3, FinalizeFields DEF Current
  <1>4. CASE FinalizeInactive(p)
    <2> DEFINE r == [req[p] EXCEPT !.pc = "staging"]
    <2>1. /\ req[p].op = "finalize" /\ req[p].pc = "inactive" /\ Read(p, r)
          /\ InactiveEmpty(req[p].b)
      BY <1>4 DEF FinalizeInactive, At
    <2>2. /\ r.op = "finalize" /\ r.pc = "staging" /\ r.b = req[p].b
          /\ r.todo = req[p].todo /\ r.promoted = req[p].promoted
      BY <1>3, <2>1
    <2> HIDE DEF r
    <2>3. CurrentFinalize(r)
      BY <1>3, <2>1, <2>2 DEF CurrentFinalize
    <2> QED BY <1>2, <2>1, <2>2, <2>3
  <1>5. CASE FinalizeStaging(p)
    <2> DEFINE actives == {c \in Category : staging[req[p].b][c] = "active"}
    <2> DEFINE r == [req[p] EXCEPT !.pc = "promote", !.todo = actives]
    <2>1. req[p].op = "finalize" /\ req[p].pc = "staging" /\ Read(p, r)
      BY <1>5 DEF FinalizeStaging, At
    <2>2. /\ actives \subseteq Category
          /\ \A c \in Category : c \in actives <=> staging[req[p].b][c] = "active"
      OBVIOUS
    <2> HIDE DEF actives
    <2>3. /\ r.op = "finalize" /\ r.pc = "promote" /\ r.b = req[p].b
          /\ r.todo = actives /\ r.promoted = req[p].promoted
      BY <1>3, <2>1
    <2> HIDE DEF r
    <2>4. CurrentFinalize(r)
      BY <1>3, <2>1, <2>2, <2>3 DEF CurrentFinalize, NoTracks
    <2> QED BY <1>2, <2>1, <2>3, <2>4
  <1>6. ASSUME NEW c \in Category, FinalizeBucket(p, c)
        PROVE  AloneInv' /\ [Next]_dbVars
    <2> DEFINE prom == [req[p].promoted EXCEPT ![c] = held[req[p].b][c]]
    <2> DEFINE r == [req[p] EXCEPT !.todo = @ \ {c}, !.promoted = prom]
    <2>1. /\ req[p].op = "finalize" /\ req[p].pc = "promote" /\ Read(p, r)
          /\ c \in req[p].todo
          /\ held[req[p].b][c] # {} => Alive(c)
      BY <1>6 DEF FinalizeBucket, At
    <2>2. \A d \in Category : prom[d] = IF d = c THEN held[req[p].b][c] ELSE req[p].promoted[d]
      BY <1>3, <2>1
    <2> HIDE DEF prom
    <2>3. /\ r.op = "finalize" /\ r.pc = "promote" /\ r.b = req[p].b
          /\ r.todo = req[p].todo \ {c} /\ r.promoted = prom
      BY <1>3, <2>1
    <2> HIDE DEF r
    <2>4. CurrentFinalize(r)
      BY <1>3, <2>1, <2>2, <2>3 DEF CurrentFinalize
    <2> QED BY <1>2, <2>1, <2>3, <2>4
  <1>7. CASE FinalizeCommit(p)
    <2>1. /\ req[p].op = "finalize" /\ req[p].pc = "promote" /\ Done(p)
          /\ req[p].todo = {}
          /\ FinalizeEffect(req[p].b, req[p].promoted)
      BY <1>7 DEF FinalizeCommit, At
    <2>2. Open(req[p].b) /\ InactiveEmpty(req[p].b) /\ req[p].b \in Block
      BY <1>3, <2>1 DEF CurrentFinalize
    <2>3. \A c \in Category :
             /\ req[p].promoted[c] = Promotable(req[p].b)[c]
             /\ Promotable(req[p].b)[c] # {} => Alive(c)
      BY <1>3, <2>1 DEF CurrentFinalize, Promotable
    <2>4. req[p].promoted = Promotable(req[p].b)
      BY <1>0, <1>3, <2>1, <2>2, <2>3, PromotableType DEF TxTypeOK
    <2>5. Finalize(req[p].b)
      BY <2>1, <2>2, <2>3, <2>4 DEF Finalize
    <2>6. Next
      BY <2>2, <2>5 DEF Next
    <2> QED BY <1>0, <2>1, <2>6, AloneDone, InFlight
  <1> QED BY <1>1, <1>4, <1>5, <1>6, <1>7 DEF Finalizing

LEMMA CategoriesSerial ==
    ASSUME Isolated, AloneInv, NEW p \in Client, EditingCategories(p)
    PROVE  AloneInv' /\ [Next]_dbVars
  <1>0. TxTypeOK /\ TxTypeOK' /\ Current(req[p])
    BY CategorySteps DEF AloneInv
  <1>1. ASSUME NEW c \in Category, CreateCategoryBlocks(p, c)
        PROVE  AloneInv' /\ [Next]_dbVars
    <2> DEFINE opens == {b \in Block : Open(b) /\ BlockStyle[b] = CategoryStyle[c]}
    <2> DEFINE r == [op |-> "create_category", c |-> c, blocks |-> opens]
    <2>1. Begin(p, "create_category", r) /\ category[c] = "none"
      BY <1>1 DEF CreateCategoryBlocks
    <2>2. Current(r)
      BY <2>1 DEF Current
    <2> HIDE DEF r
    <2> QED BY <1>0, <2>1, <2>2, AloneBegin
  <1>2. CASE CreateCategoryCommit(p)
    <2>1. /\ req[p].op = "create_category" /\ Done(p)
          /\ CreateCategoryEffect(req[p].c, req[p].blocks)
      BY <1>2 DEF CreateCategoryCommit
    <2>2. req[p].c \in Category
      BY <1>0, <2>1, CreateCategoryFields
    <2>3. CreateCategory(req[p].c)
      BY <1>0, <2>1 DEF Current, CreateCategory
    <2>4. Next
      BY <2>2, <2>3 DEF Next
    <2> QED BY <1>0, <2>1, <2>4, AloneDone, InFlight
  <1>3. ASSUME NEW c \in Category, DeleteCategoryMembers(p, c)
        PROVE  AloneInv' /\ [Next]_dbVars
    <2> DEFINE ms == {t \in Track : In(c, t)}
    <2> DEFINE r == [op |-> "delete_category", c |-> c, former |-> ms]
    <2>1. Begin(p, "delete_category", r)
      BY <1>3 DEF DeleteCategoryMembers
    <2>2. Current(r)
      BY DEF Current
    <2> HIDE DEF r
    <2> QED BY <1>0, <2>1, <2>2, AloneBegin
  <1>4. CASE DeleteCategoryCommit(p)
    <2>1. /\ req[p].op = "delete_category" /\ Alive(req[p].c) /\ Done(p)
          /\ DeleteCategoryEffect(req[p].c, req[p].former)
      BY <1>4 DEF DeleteCategoryCommit
    <2>2. req[p].c \in Category
      BY <1>0, <2>1, DeleteCategoryFields
    <2>3. DeleteCategory(req[p].c)
      BY <1>0, <2>1 DEF Current, DeleteCategory
    <2>4. Next
      BY <2>2, <2>3 DEF Next
    <2> QED BY <1>0, <2>1, <2>4, AloneDone, InFlight
  <1> QED BY <1>1, <1>2, <1>3, <1>4 DEF EditingCategories

LEMMA TracksSerial ==
    ASSUME Isolated, AloneInv, NEW p \in Client, EditingTracks(p)
    PROVE  AloneInv' /\ [Next]_dbVars
  <1>0. TxTypeOK /\ TxTypeOK' /\ Current(req[p])
    BY TrackSteps DEF AloneInv
  <1>1. ASSUME NEW c \in Category, NEW t \in Track, NEW src \in Source,
               AddTrackCategory(p, c, t, src)
        PROVE  AloneInv' /\ [Next]_dbVars
    <2> DEFINE r == [op |-> "add_track", c |-> c, t |-> t, src |-> src]
    <2>1. Begin(p, "add_track", r) /\ Alive(c) /\ (src \in Block => Created(src))
      BY <1>1 DEF AddTrackCategory
    <2>2. Current(r)
      BY <2>1 DEF Current
    <2> HIDE DEF r
    <2> QED BY <1>0, <2>1, <2>2, AloneBegin
  <1>2. CASE AddTrackInsert(p)
    <2>1. /\ req[p].op = "add_track" /\ Done(p)
          /\ AddTrackEffect(req[p].c, req[p].t, req[p].src)
      BY <1>2 DEF AddTrackInsert
    <2>2. req[p].c \in Category /\ req[p].t \in Track /\ req[p].src \in Source
      BY <1>0, <2>1, AddTrackFields
    <2>3. AddTrack(req[p].c, req[p].t, req[p].src)
      BY <1>0, <2>1 DEF Current, AddTrack
    <2>4. Next
      BY <2>2, <2>3 DEF Next
    <2> QED BY <1>0, <2>1, <2>4, AloneDone, InFlight
  <1>3. ASSUME NEW c \in Category, NEW t \in Track, RemoveTrackCategory(p, c, t)
        PROVE  AloneInv' /\ [Next]_dbVars
    <2> DEFINE r == [op |-> "remove_track", c |-> c, t |-> t]
    <2>1. Begin(p, "remove_track", r) /\ Alive(c)
      BY <1>3 DEF RemoveTrackCategory
    <2>2. Current(r)
      BY <2>1 DEF Current
    <2> HIDE DEF r
    <2> QED BY <1>0, <2>1, <2>2, AloneBegin
  <1>4. CASE RemoveTrackDelete(p)
    <2>1. /\ req[p].op = "remove_track" /\ Done(p) /\ In(req[p].c, req[p].t)
          /\ RemoveTrackEffect(req[p].c, req[p].t)
      BY <1>4 DEF RemoveTrackDelete
    <2>2. req[p].c \in Category /\ req[p].t \in Track
      BY <1>0, <2>1, RemoveTrackFields
    <2>3. RemoveTrack(req[p].c, req[p].t)
      BY <1>0, <2>1 DEF Current, RemoveTrack
    <2>4. Next
      BY <2>2, <2>3 DEF Next
    <2> QED BY <1>0, <2>1, <2>4, AloneDone, InFlight
  <1>5. ASSUME NEW t \in Track, TagTaggable(p, t)
        PROVE  AloneInv' /\ [Next]_dbVars
    <2> DEFINE r == [op |-> "tag", t |-> t]
    <2>1. Begin(p, "tag", r) /\ Taggable(t)
      BY <1>5 DEF TagTaggable
    <2>2. Current(r)
      BY <2>1 DEF Current
    <2> HIDE DEF r
    <2> QED BY <1>0, <2>1, <2>2, AloneBegin
  <1>6. CASE TagInsert(p)
    <2>1. req[p].op = "tag" /\ Done(p)
      BY <1>6 DEF TagInsert
    <2>2. req[p].t \in Track
      BY <1>0, <2>1, TagFields
    <2>3. TagTrack(req[p].t)
      BY <1>0, <1>6, <2>1 DEF TagInsert, Current, TagTrack
    <2>4. Next
      BY <2>2, <2>3 DEF Next
    <2> QED BY <1>0, <2>1, <2>4, AloneDone, InFlight
  <1> QED BY <1>1, <1>2, <1>3, <1>4, <1>5, <1>6 DEF EditingTracks

\* Requests of one statement run when nothing is in flight.
LEMMA UnlockedSerial ==
    ASSUME Isolated, AloneInv, Unlocked
    PROVE  AloneInv' /\ [Next]_dbVars
  <1>1. Next /\ UNCHANGED req /\ \A q \in Client : req[q] = Idle
    BY DEF Unlocked, Single, Quiet, Next
  <1>2. \A q \in Client : req'[q] = Idle
    BY <1>1
  <1>3. Idles' /\ \A q \in Client : Current(req[q])'
    BY <1>2 DEF Idles, Current, Idle
  <1>4. TxTypeOK'
    BY UnlockedType DEF AloneInv
  <1> QED BY <1>1, <1>3, <1>4 DEF AloneInv

LEMMA AloneStep ==
    ASSUME Isolated
    PROVE  AloneInv /\ [TxNext]_vars => AloneInv' /\ [Next]_dbVars
  <1> SUFFICES ASSUME AloneInv, [TxNext]_vars PROVE AloneInv' /\ [Next]_dbVars
    OBVIOUS
  <1>1. TxTypeOK'
    BY TxTypeStep DEF AloneInv
  <1>2. ASSUME NEW p \in Client, Fail(p) PROVE AloneInv' /\ [Next]_dbVars
    BY <1>1, <1>2, AloneDone DEF Fail
  <1>3. CASE UNCHANGED vars
    <2>1. UNCHANGED dbVars /\ UNCHANGED req
      BY <1>3 DEF vars, dbVars
    <2>2. Idles'
      BY <2>1 DEF AloneInv, Idles
    <2>3. ASSUME NEW p \in Client PROVE Current(req[p])'
      <3>1. Read(p, req[p]) /\ Current(req[p])
        BY <2>1 DEF AloneInv, Read, TxTypeOK
      <3>2. CASE req[p] = Idle
        BY <2>1, <3>2 DEF Current, Idle
      <3>3. CASE req[p] # Idle
        BY <1>1, <3>1, <3>3, AloneRead, OthersIdle DEF AloneInv
      <3> QED BY <3>2, <3>3
    <2> QED BY <1>1, <2>1, <2>2, <2>3 DEF AloneInv
  <1> QED
    BY <1>2, <1>3, UnlockedSerial, CreateBlockSerial, MoveSerial, TransferSerial,
       FinalizeSerial, CategoriesSerial, TracksSerial
    DEF TxNext

\* The refinement: requests cut at their SQL statements that do not overlap behave like
\* the one-step requests of Curation, whatever fails in between.
THEOREM SerialWhenIsolated ==
    ASSUME Isolated
    PROVE  TxSpec => Serializable
  <1>1. AloneInv /\ [TxNext]_vars => AloneInv' /\ [Next]_dbVars
    BY AloneStep
  <1>2. TxInit => Init
    BY DEF TxInit
  <1> QED BY <1>1, <1>2, AloneInit, PTL DEF TxSpec, Spec, Serializable

\* So what is proved of the one-step requests holds of the statements: buckets mirror
\* the categories, a finalize is whole, tracks sit in buckets of their block and
\* finalized blocks are frozen.  CurationTx's race run refutes the second when
\* requests overlap.
THEOREM IsolatedKeepsCuration ==
    ASSUME Isolated
    PROVE  TxSpec => /\ []StagingMirrorsCategories
                     /\ FinalizePromotesWhole
                     /\ []HeldInOwnBuckets
                     /\ FinalizedFrozen
  <1>1. TxSpec => Spec
    BY SerialWhenIsolated DEF Serializable
  <1> QED
    BY <1>1, StagingMirrored, FinalizedWhole, TracksInOwnBuckets, FinalizedStaysFrozen, PTL

=============================================================================

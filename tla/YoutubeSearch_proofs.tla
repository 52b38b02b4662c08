------------------------ MODULE YoutubeSearch_proofs ------------------------
(***************************************************************************)
(* Proofs about YoutubeSearch, for any number of tracks and of batches     *)
(* that overlap: what a batch holds at each stage, that a track marked as  *)
(* searched has an outcome, that an outcome which is final stays, and that *)
(* a batch keeps what it claimed, can go on, and ends.                     *)
(***************************************************************************)
EXTENDS YoutubeSearch, FiniteSetTheorems, WellFoundedInduction, TLAPS

-----------------------------------------------------------------------------
(* The rows, and what a batch holds at each stage.                         *)

Stage == {"idle", "reopen", "chance", "claim", "search", "mark",
          "mark_error", "confirm", "release", "release_ban", "ban"}

Rows ==
    /\ stamp \in [Track -> Stamp]
    /\ song \in [Track -> {"none", "auto", "manual"}]
    /\ review \in [Track -> {"none", "early", "due", "late"}]
    /\ absent \in [Track -> {"none", "empty", "kept"}]
    /\ spotify \in [Track -> {"unsearched", "claimed", "missing", "found"}]
    /\ fresh \subseteq Track
    /\ blocked \in BOOLEAN
    /\ message \in [Track -> {"none", "queued", "searching"}]
    /\ page \in [Track -> {"none", "review", "absent"}]
    /\ paused \subseteq Sweep
    /\ troubles \in 0..MaxTrouble
    /\ events \in 0..MaxEvents

\* Stage, tracks to search, those only for a video, the stored one, failures.
Fits(stage, left, video, stored, failed) ==
    /\ video \subseteq left
    /\ stored = {} \/ \E t : stored = {t}
    /\ IsFiniteSet(failed)
    /\ stage \in {"search", "mark", "mark_error", "confirm"} => Cardinality(failed) < Streak
    /\ stage \notin {"mark", "mark_error", "release"} => stored = {}
    /\ stage \in {"idle", "reopen", "chance", "claim", "ban"} => left = {} /\ failed = {}

Batches ==
    /\ pc \in [Sweep -> Stage]
    /\ todo \in [Sweep -> SUBSET Track] /\ videoOnly \in [Sweep -> SUBSET Track]
    /\ current \in [Sweep -> SUBSET Track] /\ unconfirmed \in [Sweep -> SUBSET Track]
    /\ \A s \in Sweep : Fits(pc[s], todo[s], videoOnly[s], current[s], unconfirmed[s])

Held == Rows /\ Batches

LEMMA HeldType == Held => YoutubeTypeOK
  <1> SUFFICES ASSUME Held PROVE YoutubeTypeOK
    OBVIOUS
  <1>1. ASSUME NEW s \in Sweep
        PROVE  /\ todo[s] \subseteq Track /\ videoOnly[s] \subseteq Track
               /\ current[s] \subseteq Track /\ Cardinality(current[s]) <= 1
               /\ unconfirmed[s] \subseteq Track
               /\ pc[s] \in {"search", "mark", "confirm"} => Cardinality(unconfirmed[s]) < Streak
               /\ pc[s] = "idle" => todo[s] \cup current[s] \cup unconfirmed[s] = {}
    <2>1. Fits(pc[s], todo[s], videoOnly[s], current[s], unconfirmed[s])
      BY DEF Held, Batches
    <2>2. Cardinality(current[s]) <= 1
      <3>1. CASE current[s] = {}
        BY <3>1, FS_EmptySet
      <3>2. ASSUME NEW t, current[s] = {t} PROVE Cardinality(current[s]) <= 1
        BY <3>2, FS_Singleton
      <3> QED BY <2>1, <3>1, <3>2 DEF Fits
    <2> QED BY <2>1, <2>2 DEF Held, Batches, Fits
  <1>2. /\ pc \in [Sweep -> Stage]
        /\ todo \in [Sweep -> SUBSET Track] /\ videoOnly \in [Sweep -> SUBSET Track]
        /\ current \in [Sweep -> SUBSET Track] /\ unconfirmed \in [Sweep -> SUBSET Track]
    BY DEF Held, Batches
  <1> QED BY <1>1, <1>2 DEF Held, Rows, Stage, YoutubeTypeOK

\* A step of one batch leaves the others as they are.
LEMMA BatchMoves ==
    ASSUME Batches, NEW s \in Sweep, NEW p \in Stage,
           NEW T \in SUBSET Track, NEW V \in SUBSET Track,
           NEW C \in SUBSET Track, NEW U \in SUBSET Track, Fits(p, T, V, C, U),
           pc' = [pc EXCEPT ![s] = p],
           todo' = [todo EXCEPT ![s] = T] \/ (todo' = todo /\ T = todo[s]),
           videoOnly' = [videoOnly EXCEPT ![s] = V] \/ (videoOnly' = videoOnly /\ V = videoOnly[s]),
           current' = [current EXCEPT ![s] = C] \/ (current' = current /\ C = current[s]),
           unconfirmed' = [unconfirmed EXCEPT ![s] = U]
              \/ (unconfirmed' = unconfirmed /\ U = unconfirmed[s])
    PROVE  Batches'
  <1>1. /\ pc' \in [Sweep -> Stage]
        /\ todo' \in [Sweep -> SUBSET Track] /\ videoOnly' \in [Sweep -> SUBSET Track]
        /\ current' \in [Sweep -> SUBSET Track] /\ unconfirmed' \in [Sweep -> SUBSET Track]
    BY DEF Batches
  <1>2. /\ pc'[s] = p /\ todo'[s] = T /\ videoOnly'[s] = V /\ current'[s] = C
        /\ unconfirmed'[s] = U
    BY DEF Batches
  <1>3. \A r \in Sweep \ {s} : /\ pc'[r] = pc[r] /\ todo'[r] = todo[r]
                               /\ videoOnly'[r] = videoOnly[r] /\ current'[r] = current[r]
                               /\ unconfirmed'[r] = unconfirmed[r]
    BY DEF Batches
  <1>4. ASSUME NEW r \in Sweep
        PROVE  Fits(pc'[r], todo'[r], videoOnly'[r], current'[r], unconfirmed'[r])
    <2>1. CASE r = s
      BY <1>2, <2>1
    <2>2. CASE r # s
      BY <1>3, <2>2 DEF Batches
    <2> QED BY <2>1, <2>2
  <1> QED BY <1>1, <1>4 DEF Batches

LEMMA BatchOf ==
    ASSUME Held, NEW s \in Sweep
    PROVE  /\ todo[s] \in SUBSET Track /\ videoOnly[s] \in SUBSET todo[s]
           /\ current[s] \in SUBSET Track /\ unconfirmed[s] \in SUBSET Track
           /\ videoOnly[s] \in SUBSET Track
           /\ Fits(pc[s], todo[s], videoOnly[s], current[s], unconfirmed[s])
  BY DEF Held, Batches, Fits

LEMMA EmptyFits ==
    ASSUME NEW p \in Stage \ {"search", "mark", "mark_error", "confirm"}
    PROVE  Fits(p, {}, {}, {}, {})
  BY FS_EmptySet DEF Fits, Stage
-----------------------------------------------------------------------------
(* Every action keeps the rows and the batches.                            *)

LEMMA Counters ==
    ASSUME Rows, Calm \/ Trouble \/ Event
    PROVE  troubles' \in 0..MaxTrouble /\ events' \in 0..MaxEvents
  BY SearchAssumption, SMT DEF Rows, Calm, Trouble, Event

\* Whatever a search leaves is a row of its table.
LEMMA StoreRows ==
    ASSUME Rows, NEW t \in Track, StoreSong(t)
    PROVE  /\ song' \in [Track -> {"none", "auto", "manual"}]
           /\ review' \in [Track -> {"none", "early", "due", "late"}]
           /\ absent' \in [Track -> {"none", "empty", "kept"}]
  <1>1. CASE UpsertVendorMatch(t, "auto") /\ UNCHANGED <<review, absent>>
    BY <1>1 DEF Rows, UpsertVendorMatch
  <1>2. CASE InsertReviewCandidate(t) /\ UNCHANGED <<song, absent>>
    BY <1>2 DEF Rows, InsertReviewCandidate
  <1>3. CASE MarkNoMatch(t) /\ UNCHANGED <<song, review>>
    BY <1>3 DEF Rows, MarkNoMatch
  <1> QED BY <1>1, <1>2, <1>3 DEF StoreSong

LEMMA HeldInit == Init => Held
  <1> SUFFICES ASSUME Init PROVE Held
    OBVIOUS
  <1>1. Rows
    <2>1. 0 \in 0..MaxTrouble /\ 0 \in 0..MaxEvents
      BY SearchAssumption, SMT
    <2> QED BY <2>1, SearchAssumption DEF Init, Rows, Stamp
  <1>2. ASSUME NEW s \in Sweep
        PROVE  Fits(pc[s], todo[s], videoOnly[s], current[s], unconfirmed[s])
    <2>1. "idle" \in Stage \ {"search", "mark", "mark_error", "confirm"}
      BY DEF Stage
    <2> QED BY <2>1, EmptyFits DEF Init
  <1>3. Batches
    BY <1>2 DEF Init, Batches, Stage
  <1> QED BY <1>1, <1>3 DEF Held

LEMMA QuietBatches ==
    ASSUME Held, UNCHANGED sweepVars PROVE Batches'
  BY DEF Held, Batches, sweepVars

LEMMA HeldClose ==
    ASSUME Held, NEW s \in Sweep, CloseReviewsWithoutSpotify(s) PROVE Held'
  <1>1. /\ pc[s] = "idle" /\ pc' = [pc EXCEPT ![s] = "reopen"]
        /\ paused' \subseteq Sweep
        /\ review' \in [Track -> {"none", "early", "due", "late"}]
        /\ absent' \in [Track -> {"none", "empty", "kept"}]
        /\ UNCHANGED <<stamp, song, worldVars, blocked, todo, videoOnly, current, unconfirmed>>
        /\ Calm \/ Trouble
    BY DEF Held, Rows, CloseReviewsWithoutSpotify, Go
  <1>2. Rows'
    BY <1>1, Counters DEF Held, Rows, worldVars
  <1>3. Batches'
    <2>1. Fits("reopen", todo[s], videoOnly[s], current[s], unconfirmed[s])
      BY <1>1, BatchOf DEF Fits
    <2>2. "reopen" \in Stage
      BY DEF Stage
    <2> QED BY <1>1, <2>1, <2>2, BatchOf, BatchMoves DEF Held
  <1> QED BY <1>2, <1>3 DEF Held

LEMMA HeldReopen ==
    ASSUME Held, NEW s \in Sweep, ReopenForSpotifyFound(s) PROVE Held'
  <1>1. /\ pc[s] = "reopen" /\ pc' = [pc EXCEPT ![s] = "chance"]
        /\ absent' \in [Track -> {"none", "empty", "kept"}]
        /\ stamp' \in [Track -> Stamp]
        /\ UNCHANGED <<song, review, worldVars, blocked, paused, todo, videoOnly, current,
                       unconfirmed>>
        /\ Calm
    BY DEF Held, Rows, ReopenForSpotifyFound, Go, Stamp
  <1>2. Rows'
    BY <1>1, Counters DEF Held, Rows, worldVars
  <1>3. Batches'
    <2>1. Fits("chance", todo[s], videoOnly[s], current[s], unconfirmed[s])
      BY <1>1, BatchOf DEF Fits
    <2>2. "chance" \in Stage
      BY DEF Stage
    <2> QED BY <1>1, <2>1, <2>2, BatchOf, BatchMoves DEF Held
  <1> QED BY <1>2, <1>3 DEF Held

LEMMA HeldChance ==
    ASSUME Held, NEW s \in Sweep, SecondChance(s) PROVE Held'
  <1> DEFINE p == IF s \in paused THEN "idle" ELSE "claim"
  <1>1. /\ pc[s] = "chance" /\ pc' = [pc EXCEPT ![s] = p]
        /\ paused' \subseteq Sweep
        /\ review' \in [Track -> {"none", "early", "due", "late"}]
        /\ stamp' \in [Track -> Stamp]
        /\ UNCHANGED <<song, absent, worldVars, blocked, todo, videoOnly, current, unconfirmed>>
        /\ Calm
    BY DEF Held, Rows, SecondChance, Go, Stamp
  <1>2. Rows'
    BY <1>1, Counters DEF Held, Rows, worldVars
  <1>3. Batches'
    <2>1. Fits(p, todo[s], videoOnly[s], current[s], unconfirmed[s])
      BY <1>1, BatchOf DEF Fits
    <2>2. p \in Stage
      BY DEF Stage
    <2> HIDE DEF p
    <2> QED BY <1>1, <2>1, <2>2, BatchOf, BatchMoves DEF Held
  <1> QED BY <1>2, <1>3 DEF Held

LEMMA HeldClaim ==
    ASSUME Held, NEW s \in Sweep, Claim(s) PROVE Held'
  <1> DEFINE p == IF Unsearched = {} THEN "idle" ELSE "search"
             V == {t \in NextBatch : HasYtmusic(t)}
  <1>1. /\ pc[s] = "claim" /\ pc' = [pc EXCEPT ![s] = p]
        /\ todo' = [todo EXCEPT ![s] = NextBatch]
        /\ videoOnly' = [videoOnly EXCEPT ![s] = V]
        /\ stamp' \in [Track -> Stamp]
        /\ UNCHANGED <<song, review, absent, worldVars, blocked, paused, current, unconfirmed>>
        /\ Calm
    BY DEF Held, Rows, Claim, Go, Stamp
  <1>2. Rows'
    BY <1>1, Counters DEF Held, Rows, worldVars
  <1>3. Batches'
    <2>1. /\ NextBatch \in SUBSET Track /\ V \in SUBSET NextBatch
          /\ Unsearched = {} => NextBatch = {}
      BY DEF NextBatch, Unsearched
    <2> HIDE DEF V
    <2>2. Fits(p, NextBatch, V, current[s], unconfirmed[s])
      <3>1. current[s] = {} /\ unconfirmed[s] = {}
        BY <1>1, BatchOf DEF Fits
      <3>2. IsFiniteSet({}) /\ Cardinality({}) = 0 /\ 0 < Streak
        BY FS_EmptySet, SearchAssumption, SMT
      <3> QED BY <2>1, <3>1, <3>2 DEF Fits
    <2>3. p \in Stage
      BY DEF Stage
    <2> HIDE DEF p
    <2>4. V \in SUBSET Track
      BY <2>1
    <2> QED BY <1>1, <2>1, <2>2, <2>3, <2>4, BatchOf, BatchMoves DEF Held
  <1> QED BY <1>2, <1>3 DEF Held

\* The track a batch turns to leaves what is left.
LEMMA TurnTo ==
    ASSUME Held, NEW s \in Sweep, NEW t \in Track, IsNext(s, t)
    PROVE  /\ todo[s] \ {t} \in SUBSET Track /\ videoOnly[s] \ {t} \in SUBSET Track
           /\ videoOnly[s] \ {t} \in SUBSET (todo[s] \ {t})
  BY BatchOf

LEMMA HeldSearchOne ==
    ASSUME Held, NEW s \in Sweep, NEW t \in Track, SearchOne(s, t) PROVE Held'
  <1>1. /\ pc[s] = "search" /\ pc' = [pc EXCEPT ![s] = "mark"] /\ IsNext(s, t)
        /\ UNCHANGED <<song, review, absent>> \/ StoreSong(t)
        /\ todo' = [todo EXCEPT ![s] = todo[s] \ {t}]
        /\ videoOnly' = [videoOnly EXCEPT ![s] = videoOnly[s] \ {t}]
        /\ current' = [current EXCEPT ![s] = {t}]
        /\ UNCHANGED <<stamp, worldVars, blocked, paused, unconfirmed>> /\ Calm
    BY DEF SearchOne, Go
  <1>2. Rows'
    <2>1. /\ song' \in [Track -> {"none", "auto", "manual"}]
          /\ review' \in [Track -> {"none", "early", "due", "late"}]
          /\ absent' \in [Track -> {"none", "empty", "kept"}]
      BY <1>1, StoreRows DEF Held, Rows
    <2> QED BY <1>1, <2>1, Counters DEF Held, Rows, worldVars
  <1>3. Batches'
    <2>1. Fits("mark", todo[s] \ {t}, videoOnly[s] \ {t}, {t}, unconfirmed[s])
      BY <1>1, BatchOf, TurnTo DEF Fits
    <2>2. "mark" \in Stage /\ {t} \in SUBSET Track
      BY DEF Stage
    <2> QED BY <1>1, <2>1, <2>2, BatchOf, TurnTo, BatchMoves DEF Held
  <1> QED BY <1>2, <1>3 DEF Held

LEMMA HeldPersistFails ==
    ASSUME Held, NEW s \in Sweep, NEW t \in Track, PersistFails(s, t) PROVE Held'
  <1>1. /\ pc[s] = "search" /\ pc' = [pc EXCEPT ![s] = "mark_error"] /\ IsNext(s, t)
        /\ todo' = [todo EXCEPT ![s] = todo[s] \ {t}]
        /\ videoOnly' = [videoOnly EXCEPT ![s] = videoOnly[s] \ {t}]
        /\ current' = [current EXCEPT ![s] = {t}]
        /\ UNCHANGED <<trackVars, worldVars, blocked, paused, unconfirmed>> /\ Trouble
    BY DEF PersistFails, Go
  <1>2. Rows'
    BY <1>1, Counters DEF Held, Rows, worldVars, trackVars
  <1>3. Batches'
    <2>1. Fits("mark_error", todo[s] \ {t}, videoOnly[s] \ {t}, {t}, unconfirmed[s])
      BY <1>1, BatchOf, TurnTo DEF Fits
    <2>2. "mark_error" \in Stage /\ {t} \in SUBSET Track
      BY DEF Stage
    <2> QED BY <1>1, <2>1, <2>2, BatchOf, TurnTo, BatchMoves DEF Held
  <1> QED BY <1>2, <1>3 DEF Held

LEMMA HeldSearchFails ==
    ASSUME Held, NEW s \in Sweep, NEW t \in Track, SearchFails(s, t) PROVE Held'
  <1> DEFINE p == IF Cardinality(unconfirmed[s]) + 1 >= Streak THEN "release_ban"
                  ELSE IF todo[s] = {t} THEN "confirm" ELSE "search"
             U == unconfirmed[s] \cup {t}
  <1>1. /\ pc[s] = "search" /\ pc' = [pc EXCEPT ![s] = p] /\ IsNext(s, t)
        /\ todo' = [todo EXCEPT ![s] = todo[s] \ {t}]
        /\ videoOnly' = [videoOnly EXCEPT ![s] = videoOnly[s] \ {t}]
        /\ unconfirmed' = [unconfirmed EXCEPT ![s] = U]
        /\ UNCHANGED <<trackVars, worldVars, blocked, paused, current>> /\ Trouble
    BY DEF SearchFails, Go
  <1>2. Rows'
    BY <1>1, Counters DEF Held, Rows, worldVars, trackVars
  <1>3. Batches'
    <2>1. IsFiniteSet(unconfirmed[s]) /\ current[s] = {}
      BY <1>1, BatchOf DEF Fits
    <2>2. /\ IsFiniteSet(U) /\ Cardinality(unconfirmed[s]) \in Nat
          /\ Cardinality(U) \in Nat /\ Cardinality(U) <= Cardinality(unconfirmed[s]) + 1
      <3>1. Cardinality(unconfirmed[s]) \in Nat
        BY <2>1, FS_CardinalityType
      <3>2. /\ IsFiniteSet(U)
            /\ Cardinality(U) = IF t \in unconfirmed[s] THEN Cardinality(unconfirmed[s])
                                ELSE Cardinality(unconfirmed[s]) + 1
        BY <2>1, FS_AddElement
      <3> QED BY <3>1, <3>2
    <2>3. p # "release_ban" => Cardinality(U) < Streak
      <3> SUFFICES ASSUME ~(Cardinality(unconfirmed[s]) + 1 >= Streak)
                   PROVE Cardinality(U) < Streak
        OBVIOUS
      <3> QED BY <2>2, SearchAssumption, SMT
    <2>4. p \in {"release_ban", "confirm", "search"}
      OBVIOUS
    <2> HIDE DEF p
    <2>5. Fits(p, todo[s] \ {t}, videoOnly[s] \ {t}, current[s], U)
      BY <2>1, <2>2, <2>3, <2>4, <1>1, TurnTo DEF Fits
    <2>6. p \in Stage /\ U \in SUBSET Track
      BY <2>4, BatchOf DEF Stage
    <2> HIDE DEF U
    <2> QED BY <1>1, <2>5, <2>6, BatchOf, TurnTo, BatchMoves DEF Held
  <1> QED BY <1>2, <1>3 DEF Held

LEMMA HeldBanned ==
    ASSUME Held, NEW s \in Sweep, Banned(s) PROVE Held'
  <1>1. /\ pc[s] = "search" /\ pc' = [pc EXCEPT ![s] = "release_ban"]
        /\ UNCHANGED <<trackVars, worldVars, blocked, paused, todo, videoOnly, current, unconfirmed>>
        /\ Trouble
    BY DEF Banned, Go
  <1>2. Rows'
    BY <1>1, Counters DEF Held, Rows, worldVars, trackVars
  <1>3. Batches'
    <2>1. Fits("release_ban", todo[s], videoOnly[s], current[s], unconfirmed[s])
      BY <1>1, BatchOf DEF Fits
    <2>2. "release_ban" \in Stage
      BY DEF Stage
    <2> QED BY <1>1, <2>1, <2>2, BatchOf, BatchMoves DEF Held
  <1> QED BY <1>2, <1>3 DEF Held

\* Where a batch goes with these failures left.
GoesOn(s, failures) ==
    IF failures # {} THEN "confirm" ELSE IF todo[s] # {} THEN "search" ELSE "idle"

LEMMA GoesOnFits ==
    ASSUME Held, NEW s \in Sweep, NEW U \in SUBSET Track,
           IsFiniteSet(U), Cardinality(U) < Streak
    PROVE  /\ GoesOn(s, U) \in Stage
           /\ Fits(GoesOn(s, U), todo[s], videoOnly[s], {}, U)
  BY BatchOf DEF GoesOn, Stage, Fits

LEMMA HeldMark ==
    ASSUME Held, NEW s \in Sweep, NEW t \in Track, Mark(s, t) PROVE Held'
  <1>1. /\ pc[s] \in {"mark", "mark_error"} /\ pc' = [pc EXCEPT ![s] = GoesOn(s, unconfirmed[s])]
        /\ Stamped(s, t, "done") \/ Stamped(s, t, "error")
        /\ current' = [current EXCEPT ![s] = {}]
        /\ UNCHANGED <<song, review, absent, worldVars, blocked, paused, todo, videoOnly,
                       unconfirmed>> /\ Calm
    BY DEF Mark, GoOn, GoesOn
  <1>2. stamp' \in [Track -> Stamp]
    BY <1>1 DEF Held, Rows, Stamped, Stamp
  <1>3. Rows'
    BY <1>1, <1>2, Counters DEF Held, Rows, worldVars
  <1>4. Batches'
    <2>1. IsFiniteSet(unconfirmed[s]) /\ Cardinality(unconfirmed[s]) < Streak
      BY <1>1, BatchOf DEF Fits
    <2>2. /\ GoesOn(s, unconfirmed[s]) \in Stage
          /\ Fits(GoesOn(s, unconfirmed[s]), todo[s], videoOnly[s], {}, unconfirmed[s])
      BY <2>1, BatchOf, GoesOnFits
    <2> QED BY <1>1, <2>2, BatchOf, BatchMoves DEF Held
  <1> QED BY <1>3, <1>4 DEF Held

LEMMA HeldConfirm ==
    ASSUME Held, NEW s \in Sweep, NEW t \in Track, ConfirmFailure(s, t) PROVE Held'
  <1> DEFINE U == unconfirmed[s] \ {t}
  <1>1. /\ pc[s] = "confirm" /\ pc' = [pc EXCEPT ![s] = GoesOn(s, U)]
        /\ Stamped(s, t, "error")
        /\ unconfirmed' = [unconfirmed EXCEPT ![s] = U]
        /\ UNCHANGED <<song, review, absent, worldVars, blocked, paused, todo, videoOnly,
                       current>> /\ Calm
    BY DEF ConfirmFailure, GoOn, GoesOn
  <1>2. stamp' \in [Track -> Stamp]
    BY <1>1 DEF Held, Rows, Stamped, Stamp
  <1>3. Rows'
    BY <1>1, <1>2, Counters DEF Held, Rows, worldVars
  <1>4. Batches'
    <2>1. /\ IsFiniteSet(unconfirmed[s]) /\ Cardinality(unconfirmed[s]) < Streak
          /\ current[s] = {}
      BY <1>1, BatchOf DEF Fits
    <2>2. U \in SUBSET Track /\ IsFiniteSet(U) /\ Cardinality(U) < Streak
      <3>1. IsFiniteSet(U) /\ Cardinality(U) <= Cardinality(unconfirmed[s])
        BY <2>1, FS_Subset
      <3>2. Cardinality(U) \in Nat /\ Cardinality(unconfirmed[s]) \in Nat
        BY <2>1, <3>1, FS_CardinalityType
      <3>3. U \in SUBSET Track
        BY BatchOf
      <3>4. Cardinality(U) < Streak
        BY <2>1, <3>1, <3>2, SearchAssumption, SMT
      <3> QED BY <3>1, <3>3, <3>4
    <2> HIDE DEF U
    <2>3. /\ GoesOn(s, U) \in Stage
          /\ Fits(GoesOn(s, U), todo[s], videoOnly[s], {}, U)
      BY <2>2, GoesOnFits
    <2> QED BY <1>1, <2>1, <2>2, <2>3, BatchOf, BatchMoves DEF Held
  <1> QED BY <1>3, <1>4 DEF Held

LEMMA HeldCut ==
    ASSUME Held, NEW s \in Sweep, CutShort(s) PROVE Held'
  <1>1. /\ pc[s] \in {"search", "mark", "mark_error", "confirm"}
        /\ pc' = [pc EXCEPT ![s] = "release"]
        /\ UNCHANGED <<trackVars, worldVars, blocked, paused, todo, videoOnly, current, unconfirmed>>
        /\ Trouble
    BY DEF CutShort
  <1>2. Rows'
    BY <1>1, Counters DEF Held, Rows, worldVars, trackVars
  <1>3. Batches'
    <2>1. Fits("release", todo[s], videoOnly[s], current[s], unconfirmed[s])
      BY <1>1, BatchOf DEF Fits
    <2>2. "release" \in Stage
      BY DEF Stage
    <2> QED BY <1>1, <2>1, <2>2, BatchOf, BatchMoves DEF Held
  <1> QED BY <1>2, <1>3 DEF Held

LEMMA ForgetBatches ==
    ASSUME Held, NEW s \in Sweep, Forget(s), NEW p \in {"idle", "ban"},
           pc' = [pc EXCEPT ![s] = p]
    PROVE  Batches'
  <1>1. p \in Stage /\ Fits(p, {}, {}, {}, {})
    BY EmptyFits DEF Stage
  <1>2. {} \in SUBSET Track
    OBVIOUS
  <1> QED BY <1>1, <1>2, BatchMoves DEF Held, Forget

LEMMA HeldRelease ==
    ASSUME Held, NEW s \in Sweep, Release(s) PROVE Held'
  <1>1. /\ pc' = [pc EXCEPT ![s] = "idle"] \/ pc' = [pc EXCEPT ![s] = "ban"]
        /\ stamp' \in [Track -> Stamp]
        /\ Forget(s)
        /\ UNCHANGED <<song, review, absent, worldVars, blocked, paused>> /\ Calm
    BY DEF Release, Go, Held, Rows, Stamp
  <1>2. Rows'
    BY <1>1, Counters DEF Held, Rows, worldVars
  <1>3. Batches'
    <2>1. "idle" \in {"idle", "ban"} /\ "ban" \in {"idle", "ban"}
      OBVIOUS
    <2> QED BY <1>1, <2>1, ForgetBatches
  <1> QED BY <1>2, <1>3 DEF Held

LEMMA HeldSetBlocked ==
    ASSUME Held, NEW s \in Sweep, SetBlocked(s) PROVE Held'
  <1>1. /\ pc[s] = "ban" /\ pc' = [pc EXCEPT ![s] = "idle"] /\ blocked' = TRUE
        /\ UNCHANGED <<trackVars, worldVars, paused, todo, videoOnly, current, unconfirmed>>
        /\ Calm
    BY DEF SetBlocked, Go
  <1>2. Rows'
    BY <1>1, Counters DEF Held, Rows, worldVars, trackVars
  <1>3. Batches'
    <2>1. Fits("idle", todo[s], videoOnly[s], current[s], unconfirmed[s])
      BY <1>1, BatchOf DEF Fits
    <2>2. "idle" \in Stage
      BY DEF Stage
    <2> QED BY <1>1, <2>1, <2>2, BatchOf, BatchMoves DEF Held
  <1> QED BY <1>2, <1>3 DEF Held

LEMMA HeldDies ==
    ASSUME Held, NEW s \in Sweep, Dies(s) PROVE Held'
  <1>1. /\ pc' = [pc EXCEPT ![s] = "idle"] /\ stamp' \in [Track -> Stamp]
        /\ Forget(s) /\ paused' \subseteq Sweep
        /\ UNCHANGED <<song, review, absent, worldVars, blocked>> /\ Trouble
    BY DEF Dies, Held, Rows, Stamp
  <1>2. Rows'
    BY <1>1, Counters DEF Held, Rows, worldVars
  <1>3. Batches'
    <2>1. "idle" \in {"idle", "ban"} /\ "ban" \in {"idle", "ban"}
      OBVIOUS
    <2> QED BY <1>1, <2>1, ForgetBatches
  <1> QED BY <1>2, <1>3 DEF Held

LEMMA HeldSweep ==
    ASSUME Held, NEW s \in Sweep, Sweeping(s) \/ Failing(s) PROVE Held'
  BY HeldClose, HeldReopen, HeldChance, HeldClaim, HeldSearchOne, HeldMark, HeldConfirm,
     HeldRelease, HeldSetBlocked, HeldPersistFails, HeldSearchFails, HeldBanned, HeldCut,
     HeldDies DEF Sweeping, Reconcile, Searching, Failing

\* The match worker, people, Spotify and the calendar leave the batches alone.
LEMMA HeldTrack ==
    ASSUME Held, NEW t \in Track, MatchWorker(t) \/ Person(t) \/ World(t) PROVE Held'
  <1>1. CASE EnqueueMatch(t)
    <2>1. /\ UNCHANGED <<trackVars, spotify, fresh, page, blocked, sweepVars>> /\ Event
          /\ message' \in [Track -> {"none", "queued", "searching"}]
      BY <1>1 DEF EnqueueMatch, Held, Rows
    <2>2. Rows' /\ Batches'
      BY <2>1, Counters, QuietBatches DEF Held, Rows, trackVars, sweepVars
    <2> QED BY <2>2 DEF Held
  <1>2. CASE ReceiveMatch(t)
    <2>1. /\ UNCHANGED <<trackVars, spotify, fresh, page, blocked, sweepVars>> /\ Calm
          /\ message' \in [Track -> {"none", "queued", "searching"}]
      BY <1>2 DEF ReceiveMatch, Held, Rows
    <2>2. Rows' /\ Batches'
      BY <2>1, Counters, QuietBatches DEF Held, Rows, trackVars, sweepVars
    <2> QED BY <2>2 DEF Held
  <1>3. CASE StoreMatch(t)
    <2>1. /\ UNCHANGED <<stamp, spotify, fresh, page, blocked, sweepVars>> /\ Calm
          /\ StoreSong(t)
          /\ message' \in [Track -> {"none", "queued", "searching"}]
      BY <1>3 DEF StoreMatch, Held, Rows
    <2>2. Rows' /\ Batches'
      BY <2>1, Counters, StoreRows, QuietBatches DEF Held, Rows, sweepVars
    <2> QED BY <2>2 DEF Held
  <1>4. CASE MatchWorkerFails(t)
    <2>1. /\ UNCHANGED <<spotify, fresh, page, blocked, sweepVars>> /\ Trouble
          /\ UNCHANGED trackVars \/ (StoreSong(t) /\ UNCHANGED stamp)
          /\ message' \in [Track -> {"none", "queued", "searching"}]
      BY <1>4 DEF MatchWorkerFails, Held, Rows
    <2>2. Rows' /\ Batches'
      BY <2>1, Counters, StoreRows, QuietBatches DEF Held, Rows, trackVars, sweepVars
    <2> QED BY <2>2 DEF Held
  <1>5. CASE OpenPage(t)
    <2>1. /\ UNCHANGED <<trackVars, spotify, fresh, message, blocked, sweepVars>> /\ Event
          /\ page' \in [Track -> {"none", "review", "absent"}]
      BY <1>5 DEF OpenPage, Held, Rows
    <2>2. Rows' /\ Batches'
      BY <2>1, Counters, QuietBatches DEF Held, Rows, trackVars, sweepVars
    <2> QED BY <2>2 DEF Held
  <1>6. CASE ResolveAccept(t)
    <2>1. /\ UNCHANGED <<stamp, absent, spotify, fresh, message, blocked, sweepVars>> /\ Calm
          /\ song' \in [Track -> {"none", "auto", "manual"}]
          /\ review' \in [Track -> {"none", "early", "due", "late"}]
          /\ page' \in [Track -> {"none", "review", "absent"}]
      BY <1>6 DEF ResolveAccept, UpsertVendorMatch, Held, Rows
    <2>2. Rows' /\ Batches'
      BY <2>1, Counters, QuietBatches DEF Held, Rows, sweepVars
    <2> QED BY <2>2 DEF Held
  <1>7. CASE ResolveReject(t)
    <2>1. /\ UNCHANGED <<stamp, song, spotify, fresh, message, blocked, sweepVars>> /\ Calm
          /\ absent' \in [Track -> {"none", "empty", "kept"}]
          /\ review' \in [Track -> {"none", "early", "due", "late"}]
          /\ page' \in [Track -> {"none", "review", "absent"}]
      BY <1>7 DEF ResolveReject, MarkNoMatch, Held, Rows
    <2>2. Rows' /\ Batches'
      BY <2>1, Counters, QuietBatches DEF Held, Rows, sweepVars
    <2> QED BY <2>2 DEF Held
  <1>8. CASE SpotifyStep(t)
    <2>1. /\ UNCHANGED <<trackVars, fresh, message, page, blocked, sweepVars>> /\ Event
          /\ spotify' \in [Track -> {"unsearched", "claimed", "missing", "found"}]
      BY <1>8 DEF SpotifyStep, Held, Rows
    <2>2. Rows' /\ Batches'
      BY <2>1, Counters, QuietBatches DEF Held, Rows, trackVars, sweepVars
    <2> QED BY <2>2 DEF Held
  <1>9. CASE ReviewFallsDue(t)
    <2>1. /\ UNCHANGED <<stamp, song, absent, spotify, message, page, blocked, sweepVars>> /\ Event
          /\ review' \in [Track -> {"none", "early", "due", "late"}]
          /\ fresh' \subseteq Track
      BY <1>9 DEF ReviewFallsDue, Held, Rows
    <2>2. Rows' /\ Batches'
      BY <2>1, Counters, QuietBatches DEF Held, Rows, sweepVars
    <2> QED BY <2>2 DEF Held
  <1> QED BY <1>1, <1>2, <1>3, <1>4, <1>5, <1>6, <1>7, <1>8, <1>9 DEF MatchWorker, Person, World

LEMMA HeldBanEnds ==
    ASSUME Held, BanEnds PROVE Held'
  <1>1. /\ blocked' \in BOOLEAN /\ UNCHANGED <<trackVars, worldVars, sweepVars>> /\ Calm
    BY DEF BanEnds
  <1>2. Rows' /\ Batches'
    BY <1>1, Counters, QuietBatches DEF Held, Rows, trackVars, worldVars, sweepVars
  <1> QED BY <1>2 DEF Held

LEMMA HeldStep == Held /\ [Next]_vars => Held'
  <1> SUFFICES ASSUME Held, [Next]_vars PROVE Held'
    OBVIOUS
  <1>1. CASE UNCHANGED vars
    BY <1>1 DEF Held, Rows, Batches, vars, trackVars, worldVars, sweepVars
  <1>2. CASE Next
    BY <1>2, HeldSweep, HeldTrack, HeldBanEnds DEF Next
  <1> QED BY <1>1, <1>2

\* Every row is one of its table's; a batch holds at most one stored track, fewer failures
\* than the streak that counts as a ban until that streak is reached, and nothing at all
\* when it is idle: no way out of a batch forgets to hand back what it had claimed.
THEOREM YoutubeTypeCorrect == Spec => []YoutubeTypeOK
  <1>1. Init => Held
    BY HeldInit
  <1>2. Held /\ [Next]_vars => Held'
    BY HeldStep
  <1>3. Held => YoutubeTypeOK
    BY HeldType
  <1> QED BY <1>1, <1>2, <1>3, PTL DEF Spec

-----------------------------------------------------------------------------
(* A track marked as searched has an outcome.                              *)

Found == {t \in Track : HasYtmusic(t)}

\* What a batch may mark as searched: a track it claimed for its video only, whose song has
\* its row already, and the track it has just stored, while the claim is its own.
Backed ==
    /\ \A t \in Track : stamp[t] = "done" => t \in Found
    /\ \A s \in Sweep : \A t \in Track :
          stamp[t] = s /\ (t \in videoOnly[s] \/ (pc[s] = "mark" /\ t \in current[s]))
             => t \in Found

LEMMA FoundHasOutcome == ASSUME NEW t \in Track PROVE t \in Found <=> Outcome(t) # "none"
  BY DEF Found, HasYtmusic, Outcome

LEMMA BackedShown == Backed => SearchedHasOutcome
  BY FoundHasOutcome DEF Backed, SearchedHasOutcome

\* A step that takes rows only from tracks it hands back, and lets no batch mark more.
LEMMA BackedKept ==
    ASSUME Backed,
           \A t \in Track : stamp'[t] \in {"done"} \cup Sweep
              => stamp'[t] = stamp[t] /\ (t \in Found => t \in Found'),
           \A s \in Sweep : videoOnly'[s] \subseteq videoOnly[s],
           \A s \in Sweep : pc'[s] = "mark" => pc[s] = "mark" /\ current'[s] = current[s]
    PROVE  Backed'
  BY DEF Backed

LEMMA StoredIsFound ==
    ASSUME Rows, NEW t \in Track, StoreSong(t)
    PROVE  Found' = Found \cup {t}
  <1>1. CASE UpsertVendorMatch(t, "auto") /\ UNCHANGED <<review, absent>>
    BY <1>1 DEF Rows, UpsertVendorMatch, Found, HasYtmusic
  <1>2. CASE InsertReviewCandidate(t) /\ UNCHANGED <<song, absent>>
    BY <1>2 DEF Rows, InsertReviewCandidate, Found, HasYtmusic
  <1>3. CASE MarkNoMatch(t) /\ UNCHANGED <<song, review>>
    BY <1>3 DEF Rows, MarkNoMatch, Found, HasYtmusic
  <1> QED BY <1>1, <1>2, <1>3 DEF StoreSong

LEMMA BackedReconcile ==
    ASSUME Held, Backed, NEW s \in Sweep, Reconcile(s) PROVE Backed'
  <1>1. /\ videoOnly' = videoOnly /\ current' = current
        /\ \A r \in Sweep : pc'[r] = "mark" => pc[r] = "mark"
    <2>1. /\ UNCHANGED <<videoOnly, current>> /\ pc \in [Sweep -> Stage]
          /\ \E p \in {"reopen", "chance", "idle", "claim"} : pc' = [pc EXCEPT ![s] = p]
      BY DEF Reconcile, CloseReviewsWithoutSpotify, ReopenForSpotifyFound, SecondChance, Go,
             Held, Batches
    <2> QED BY <2>1
  <1>2. ASSUME NEW t \in Track, stamp'[t] \in {"done"} \cup Sweep
        PROVE  stamp'[t] = stamp[t] /\ (t \in Found => t \in Found')
    <2>1. "null" \notin {"done"} \cup Sweep
      BY SearchAssumption
    <2>2. CASE CloseReviewsWithoutSpotify(s)
      BY <2>2 DEF CloseReviewsWithoutSpotify, Found, HasYtmusic
    <2>3. CASE ReopenForSpotifyFound(s)
      BY <1>2, <2>1, <2>3 DEF ReopenForSpotifyFound, Found, HasYtmusic
    <2>4. CASE SecondChance(s)
      BY <1>2, <2>1, <2>4 DEF SecondChance, Found, HasYtmusic
    <2> QED BY <2>2, <2>3, <2>4 DEF Reconcile
  <1> QED BY <1>1, <1>2, BackedKept

LEMMA BackedClaim ==
    ASSUME Held, Backed, NEW s \in Sweep, Claim(s) PROVE Backed'
  <1> DEFINE V == {t \in NextBatch : HasYtmusic(t)}
  <1>1. /\ pc' = [pc EXCEPT ![s] = IF Unsearched = {} THEN "idle" ELSE "search"]
        /\ stamp' = [t \in Track |-> IF t \in NextBatch THEN s ELSE stamp[t]]
        /\ videoOnly' = [videoOnly EXCEPT ![s] = V]
        /\ UNCHANGED <<song, review, absent, current>>
    BY DEF Claim, Go
  <1>2. Found' = Found /\ V \subseteq Found /\ V \subseteq NextBatch
    BY <1>1 DEF Found, HasYtmusic, NextBatch, Unsearched
  <1> HIDE DEF V
  <1>3. ASSUME NEW t \in Track, stamp'[t] = "done" PROVE t \in Found'
    <2>1. s # "done"
      BY SearchAssumption
    <2> QED BY <1>1, <1>2, <1>3, <2>1 DEF Backed
  <1>4. ASSUME NEW r \in Sweep, NEW t \in Track, stamp'[t] = r,
               t \in videoOnly'[r] \/ (pc'[r] = "mark" /\ t \in current'[r])
        PROVE  t \in Found'
    <2>1. CASE r = s
      BY <1>1, <1>2, <1>4, <2>1 DEF Held, Batches
    <2>2. CASE r # s
      <3>1. stamp[t] = r /\ pc'[r] = pc[r] /\ videoOnly'[r] = videoOnly[r]
        BY <1>1, <1>4, <2>2 DEF Held, Batches
      <3> QED BY <1>1, <1>2, <1>4, <3>1 DEF Backed
    <2> QED BY <2>1, <2>2
  <1> QED BY <1>3, <1>4 DEF Backed

LEMMA BackedSearchOne ==
    ASSUME Held, Backed, NEW s \in Sweep, NEW u \in Track, SearchOne(s, u) PROVE Backed'
  <1>1. /\ pc' = [pc EXCEPT ![s] = "mark"]
        /\ UNCHANGED stamp
        /\ videoOnly' = [videoOnly EXCEPT ![s] = videoOnly[s] \ {u}]
        /\ current' = [current EXCEPT ![s] = {u}]
        /\ \/ u \in videoOnly[s] /\ UNCHANGED <<song, review, absent>>
           \/ StoreSong(u)
    BY DEF SearchOne, Go
  <1>2. Found \subseteq Found' /\ (stamp[u] = s => u \in Found')
    <2>1. CASE u \in videoOnly[s] /\ UNCHANGED <<song, review, absent>>
      <3>1. Found' = Found
        BY <2>1 DEF Found, HasYtmusic
      <3> QED BY <2>1, <3>1 DEF Backed
    <2>2. CASE StoreSong(u)
      BY <2>2, StoredIsFound DEF Held
    <2> QED BY <1>1, <2>1, <2>2
  <1>3. ASSUME NEW t \in Track, stamp'[t] = "done" PROVE t \in Found'
    BY <1>1, <1>2, <1>3 DEF Backed
  <1>4. ASSUME NEW r \in Sweep, NEW t \in Track, stamp'[t] = r,
               t \in videoOnly'[r] \/ (pc'[r] = "mark" /\ t \in current'[r])
        PROVE  t \in Found'
    <2>1. CASE r = s
      BY <1>1, <1>2, <1>4, <2>1 DEF Backed, Held, Batches
    <2>2. CASE r # s
      <3>1. /\ stamp[t] = r /\ pc'[r] = pc[r] /\ videoOnly'[r] = videoOnly[r]
            /\ current'[r] = current[r]
        BY <1>1, <1>4, <2>2 DEF Held, Batches
      <3> QED BY <1>2, <1>4, <3>1 DEF Backed
    <2> QED BY <2>1, <2>2
  <1> QED BY <1>3, <1>4 DEF Backed

LEMMA BackedMark ==
    ASSUME Held, Backed, NEW s \in Sweep, NEW u \in Track, Mark(s, u) PROVE Backed'
  <1>1. /\ u \in current[s]
        /\ (pc[s] = "mark" /\ Stamped(s, u, "done")) \/ Stamped(s, u, "error")
        /\ pc' = [pc EXCEPT ![s] = GoesOn(s, unconfirmed[s])]
        /\ UNCHANGED <<song, review, absent, videoOnly>>
        /\ current' = [current EXCEPT ![s] = {}]
    BY DEF Mark, GoOn, GoesOn
  <1>2. Found' = Found
    BY <1>1 DEF Found, HasYtmusic
  <1>3. \A t \in Track \ {u} : stamp'[t] = stamp[t]
    BY <1>1 DEF Held, Rows, Stamped
  <1>4. /\ stamp'[u] = "done" => pc[s] = "mark" /\ stamp[u] = s
        /\ stamp'[u] \in {"done", "error", "overwritten"}
    BY <1>1 DEF Held, Rows, Stamped
  <1>5. ASSUME NEW t \in Track, stamp'[t] = "done" PROVE t \in Found'
    BY <1>1, <1>2, <1>3, <1>4, <1>5 DEF Backed
  <1>6. ASSUME NEW r \in Sweep, NEW t \in Track, stamp'[t] = r,
               t \in videoOnly'[r] \/ (pc'[r] = "mark" /\ t \in current'[r])
        PROVE  t \in Found'
    <2>1. t # u /\ stamp[t] = r
      BY <1>3, <1>4, <1>6, SearchAssumption
    <2>2. pc'[r] = "mark" => pc[r] = "mark" /\ current'[r] = current[r]
      BY <1>1 DEF Held, Batches, GoesOn
    <2> QED BY <1>1, <1>2, <1>6, <2>1, <2>2 DEF Backed
  <1> QED BY <1>5, <1>6 DEF Backed

\* Whatever else a batch does marks nothing, and hands back or strands what it held.
LEMMA BackedOther ==
    ASSUME Held, Backed, NEW s \in Sweep, NEW p \in Stage \ {"mark"},
           UNCHANGED <<song, review, absent>>,
           pc' = [pc EXCEPT ![s] = p],
           UNCHANGED current \/ current' = [current EXCEPT ![s] = {}]
              \/ \E t \in Track : current' = [current EXCEPT ![s] = {t}],
           \A r \in Sweep : videoOnly'[r] \subseteq videoOnly[r],
           \A t \in Track : stamp'[t] # stamp[t] => stamp'[t] \in {"null", "error", "stranded"}
    PROVE  Backed'
  <1>1. Found' = Found
    BY DEF Found, HasYtmusic
  <1>2. \A t \in Track : stamp'[t] \in {"done"} \cup Sweep
           => stamp'[t] = stamp[t] /\ (t \in Found => t \in Found')
    BY <1>1, SearchAssumption
  <1>3. \A r \in Sweep : pc'[r] = "mark" => pc[r] = "mark" /\ current'[r] = current[r]
    BY DEF Held, Batches
  <1> QED BY <1>2, <1>3, BackedKept

LEMMA BackedSweep ==
    ASSUME Held, Backed, NEW s \in Sweep, Sweeping(s) \/ Failing(s) PROVE Backed'
  <1>0. Stage \ {"mark"} = {"idle", "reopen", "chance", "claim", "search", "mark_error",
                            "confirm", "release", "release_ban", "ban"}
    BY DEF Stage
  <1>1. ASSUME NEW t \in Track, ConfirmFailure(s, t) PROVE Backed'
    <2>1. /\ UNCHANGED <<song, review, absent, videoOnly, current>> /\ Stamped(s, t, "error")
          /\ pc' = [pc EXCEPT ![s] = GoesOn(s, unconfirmed[s] \ {t})]
      BY <1>1 DEF ConfirmFailure, GoOn, GoesOn
    <2>2. \A u \in Track : stamp'[u] # stamp[u] => stamp'[u] \in {"null", "error", "stranded"}
      BY <2>1 DEF Stamped, Held, Rows
    <2>3. GoesOn(s, unconfirmed[s] \ {t}) \in Stage \ {"mark"}
      BY <1>0 DEF GoesOn
    <2> QED BY <2>1, <2>2, <2>3, BackedOther
  <1>2. ASSUME NEW t \in Track, PersistFails(s, t) PROVE Backed'
    <2>1. /\ UNCHANGED <<stamp, song, review, absent>>
          /\ pc' = [pc EXCEPT ![s] = "mark_error"]
          /\ current' = [current EXCEPT ![s] = {t}]
          /\ videoOnly' = [videoOnly EXCEPT ![s] = videoOnly[s] \ {t}]
      BY <1>2 DEF PersistFails, Go, trackVars
    <2>2. \A r \in Sweep : videoOnly'[r] \subseteq videoOnly[r]
      BY <2>1 DEF Held, Batches
    <2>3. "mark_error" \in Stage \ {"mark"}
      BY <1>0
    <2> QED BY <2>1, <2>2, <2>3, BackedOther
  <1>3. ASSUME NEW t \in Track, SearchFails(s, t) PROVE Backed'
    <2>1. /\ UNCHANGED <<stamp, song, review, absent, current>>
          /\ \E p \in {"release_ban", "confirm", "search"} : pc' = [pc EXCEPT ![s] = p]
          /\ videoOnly' = [videoOnly EXCEPT ![s] = videoOnly[s] \ {t}]
      BY <1>3 DEF SearchFails, Go, trackVars
    <2>2. \A r \in Sweep : videoOnly'[r] \subseteq videoOnly[r]
      BY <2>1 DEF Held, Batches
    <2>3. {"release_ban", "confirm", "search"} \subseteq Stage \ {"mark"}
      BY <1>0
    <2> QED BY <2>1, <2>2, <2>3, BackedOther
  <1>4. ASSUME Release(s) \/ Dies(s) PROVE Backed'
    <2>1. /\ UNCHANGED <<song, review, absent>> /\ Forget(s)
          /\ \E p \in {"idle", "ban"} : pc' = [pc EXCEPT ![s] = p]
          /\ \A t \in Track : stamp'[t] # stamp[t] => stamp'[t] \in {"null", "error", "stranded"}
      BY <1>4 DEF Release, Dies, Go
    <2>2. \A r \in Sweep : videoOnly'[r] \subseteq videoOnly[r]
      BY <2>1 DEF Held, Batches, Forget
    <2>3. current' = [current EXCEPT ![s] = {}]
      BY <2>1 DEF Forget
    <2>4. {"idle", "ban"} \subseteq Stage \ {"mark"}
      BY <1>0
    <2> QED BY <2>1, <2>2, <2>3, <2>4, BackedOther
  <1>5. ASSUME SetBlocked(s) \/ Banned(s) \/ CutShort(s) PROVE Backed'
    <2>1. /\ UNCHANGED <<stamp, song, review, absent, current, videoOnly>>
          /\ \E p \in {"idle", "release_ban", "release"} : pc' = [pc EXCEPT ![s] = p]
      BY <1>5 DEF SetBlocked, Banned, CutShort, Go, trackVars
    <2>2. {"idle", "release_ban", "release"} \subseteq Stage \ {"mark"}
      BY <1>0
    <2> QED BY <2>1, <2>2, BackedOther
  <1> QED BY <1>1, <1>2, <1>3, <1>4, <1>5, BackedReconcile, BackedClaim, BackedSearchOne,
             BackedMark DEF Sweeping, Searching, Failing

\* Nobody but a batch takes a row away without leaving another.
LEMMA BackedTrack ==
    ASSUME Held, Backed, NEW t \in Track, MatchWorker(t) \/ Person(t) \/ World(t) PROVE Backed'
  <1>1. UNCHANGED <<stamp, sweepVars>>
    BY DEF MatchWorker, Person, World, EnqueueMatch, ReceiveMatch, StoreMatch, MatchWorkerFails,
           OpenPage, ResolveAccept, ResolveReject, SpotifyStep, ReviewFallsDue, trackVars
  <1>2. Found \subseteq Found'
    <2>1. CASE StoreSong(t)
      BY <2>1, StoredIsFound DEF Held
    <2>2. CASE UNCHANGED <<song, review, absent>>
      BY <2>2 DEF Found, HasYtmusic
    <2>3. CASE ResolveAccept(t)
      BY <2>3 DEF ResolveAccept, UpsertVendorMatch, Found, HasYtmusic, Held, Rows
    <2>4. CASE ResolveReject(t)
      BY <2>4 DEF ResolveReject, MarkNoMatch, Found, HasYtmusic, Held, Rows
    <2>5. CASE ReviewFallsDue(t)
      BY <2>5 DEF ReviewFallsDue, Found, HasYtmusic, Held, Rows
    <2> QED BY <2>1, <2>2, <2>3, <2>4, <2>5
            DEF MatchWorker, Person, World, EnqueueMatch, ReceiveMatch, StoreMatch,
                MatchWorkerFails, OpenPage, SpotifyStep, trackVars
  <1> QED BY <1>1, <1>2, BackedKept DEF sweepVars

LEMMA BackedStep == Held /\ Backed /\ [Next]_vars => Backed'
  <1> SUFFICES ASSUME Held, Backed, [Next]_vars PROVE Backed'
    OBVIOUS
  <1>1. CASE UNCHANGED vars \/ BanEnds
    <2>1. UNCHANGED <<trackVars, sweepVars>>
      BY <1>1 DEF vars, BanEnds
    <2>2. Found' = Found
      BY <2>1 DEF Found, HasYtmusic, trackVars
    <2> QED BY <2>1, <2>2, BackedKept DEF trackVars, sweepVars
  <1> QED BY <1>1, BackedSweep, BackedTrack DEF Next

\* youtube_search_counts calls a stamped track without an outcome row an error: no track a
\* batch marked under its own claim ever is one; nothing is said of a track it marks when
\* others have reopened or claimed it meanwhile.  What takes the rows of a track away to have
\* it searched again takes its stamp too, so that a batch which searched it before marks a
\* claim that is no longer its own.
THEOREM SearchedAlwaysHasOutcome == Spec => []SearchedHasOutcome
  <1>1. Init => Held /\ Backed
    <2>1. Init => Backed
      BY SearchAssumption DEF Init, Backed
    <2> QED BY <2>1, HeldInit
  <1>2. Held /\ Backed /\ [Next]_vars => (Held /\ Backed)'
    BY HeldStep, BackedStep
  <1>3. Held /\ Backed => SearchedHasOutcome
    BY BackedShown
  <1> QED BY <1>1, <1>2, <1>3, PTL DEF Spec

-----------------------------------------------------------------------------
(* An outcome that is final stays.                                         *)

Settled(t) == Outcome(t) \in {"auto", "manual", "empty"}

\* The rows of the track that its outcome rests on while it is settled.
Stays(t) ==
    /\ song'[t] = song[t]
    /\ review[t] = "none" /\ absent[t] = "empty" => review'[t] = "none" /\ absent'[t] = "empty"

Seeking(s) == todo[s] \ videoOnly[s]

LEMMA SettledKept ==
    ASSUME Rows, NEW t \in Track, Settled(t), ~Sought(t), Stays(t), message'[t] = message[t],
           \A s \in Sweep : t \in Seeking(s)' => t \in Seeking(s) \/ ~HasYtmusic(t)
    PROVE  Outcome(t)' = Outcome(t) /\ ~Sought(t)'
  <1>0. song[t] = "none" => Outcome(t) = IF review[t] # "none" THEN "review"
                                          ELSE IF absent[t] # "none" THEN absent[t] ELSE "none"
    BY DEF Outcome
  <1>1. HasYtmusic(t) /\ (song[t] = "none" => review[t] = "none" /\ absent[t] = "empty")
    BY <1>0 DEF Settled, HasYtmusic, Rows
  <1>2. Outcome(t)' = Outcome(t)
    BY <1>1 DEF Stays, Outcome
  <1>3. ~Sought(t)'
    BY <1>1 DEF Sought, Seeking
  <1> QED BY <1>2, <1>3

\* A search stores the song of its own track.
LEMMA StoreStays ==
    ASSUME Rows, NEW u \in Track, StoreSong(u), NEW t \in Track \ {u}
    PROVE  song'[t] = song[t] /\ review'[t] = review[t] /\ absent'[t] = absent[t]
  <1>1. CASE UpsertVendorMatch(u, "auto") /\ UNCHANGED <<review, absent>>
    BY <1>1 DEF Rows, UpsertVendorMatch
  <1>2. CASE InsertReviewCandidate(u) /\ UNCHANGED <<song, absent>>
    BY <1>2 DEF Rows, InsertReviewCandidate
  <1>3. CASE MarkNoMatch(u) /\ UNCHANGED <<song, review>>
    BY <1>3 DEF Rows, MarkNoMatch
  <1> QED BY <1>1, <1>2, <1>3 DEF StoreSong

\* What a batch stores, and what it looks for.
LEMMA SweepStays ==
    ASSUME Held, NEW s \in Sweep, Sweeping(s) \/ Failing(s),
           NEW t \in Track, t \notin Seeking(s)
    PROVE  /\ Stays(t) /\ message' = message
           /\ \A r \in Sweep : t \in Seeking(r)' => t \in Seeking(r) \/ ~HasYtmusic(t)
  <1>1. CASE Reconcile(s)
    <2>1. UNCHANGED <<message, todo, videoOnly>>
      BY <1>1 DEF Reconcile, CloseReviewsWithoutSpotify, ReopenForSpotifyFound, SecondChance,
                  worldVars
    <2>2. Stays(t)
      BY <1>1 DEF Reconcile, CloseReviewsWithoutSpotify, ReopenForSpotifyFound, SecondChance, Stays
    <2> QED BY <2>1, <2>2 DEF Seeking
  <1>2. CASE Claim(s)
    <2>1. /\ UNCHANGED <<song, review, absent, message>>
          /\ todo' = [todo EXCEPT ![s] = NextBatch]
          /\ videoOnly' = [videoOnly EXCEPT ![s] = {u \in NextBatch : HasYtmusic(u)}]
      BY <1>2 DEF Claim, worldVars
    <2>2. todo'[s] = NextBatch /\ videoOnly'[s] = {u \in NextBatch : HasYtmusic(u)}
      BY <2>1 DEF Held, Batches
    <2>3. \A r \in Sweep \ {s} : todo'[r] = todo[r] /\ videoOnly'[r] = videoOnly[r]
      BY <2>1 DEF Held, Batches
    <2> QED BY <2>1, <2>2, <2>3 DEF Stays, Seeking
  <1>3. ASSUME NEW u \in Track, SearchOne(s, u)
        PROVE  /\ Stays(t) /\ message' = message
               /\ \A r \in Sweep : t \in Seeking(r)' => t \in Seeking(r) \/ ~HasYtmusic(t)
    <2>1. /\ message' = message
          /\ IF u \in videoOnly[s] THEN UNCHANGED <<song, review, absent>> ELSE StoreSong(u)
          /\ u \in todo[s]
          /\ todo' = [todo EXCEPT ![s] = todo[s] \ {u}]
          /\ videoOnly' = [videoOnly EXCEPT ![s] = videoOnly[s] \ {u}]
      BY <1>3 DEF SearchOne, IsNext, worldVars
    <2>2. Stays(t)
      BY <2>1, StoreStays DEF Seeking, Stays, Held
    <2>3. \A r \in Sweep : Seeking(r)' \subseteq Seeking(r)
      BY <2>1 DEF Seeking, Held, Batches
    <2> QED BY <2>1, <2>2, <2>3
  <1>4. ASSUME NEW u \in Track, PersistFails(s, u) \/ SearchFails(s, u)
        PROVE  /\ Stays(t) /\ message' = message
               /\ \A r \in Sweep : t \in Seeking(r)' => t \in Seeking(r) \/ ~HasYtmusic(t)
    <2>1. /\ UNCHANGED <<song, review, absent, message>>
          /\ todo' = [todo EXCEPT ![s] = todo[s] \ {u}]
          /\ videoOnly' = [videoOnly EXCEPT ![s] = videoOnly[s] \ {u}]
      BY <1>4 DEF PersistFails, SearchFails, worldVars, trackVars
    <2>2. \A r \in Sweep : Seeking(r)' \subseteq Seeking(r)
      BY <2>1 DEF Seeking, Held, Batches
    <2> QED BY <2>1, <2>2 DEF Stays
  <1>5. CASE Release(s) \/ Dies(s)
    <2>1. UNCHANGED <<song, review, absent, message>> /\ Forget(s)
      BY <1>5 DEF Release, Dies, worldVars
    <2>2. \A r \in Sweep : Seeking(r)' \subseteq Seeking(r)
      BY <2>1 DEF Forget, Seeking, Held, Batches
    <2> QED BY <2>1, <2>2 DEF Stays
  <1>6. ASSUME \/ SetBlocked(s) \/ Banned(s) \/ CutShort(s)
               \/ \E u \in Track : Mark(s, u) \/ ConfirmFailure(s, u)
        PROVE  /\ Stays(t) /\ message' = message
               /\ \A r \in Sweep : t \in Seeking(r)' => t \in Seeking(r) \/ ~HasYtmusic(t)
    <2>1. UNCHANGED <<song, review, absent, message, todo, videoOnly>>
      BY <1>6 DEF SetBlocked, Banned, CutShort, Mark, ConfirmFailure, worldVars, trackVars
    <2> QED BY <2>1 DEF Stays, Seeking
  <1> QED BY <1>1, <1>2, <1>3, <1>4, <1>5, <1>6 DEF Sweeping, Searching, Failing

\* What the match worker, a person, Spotify and the calendar do about one track.
LEMMA TrackStays ==
    ASSUME Held, NEW u \in Track, MatchWorker(u) \/ Person(u) \/ World(u),
           NEW t \in Track, Settled(t), message[t] = "none"
    PROVE  /\ Stays(t) \/ song'[t] = "manual"
           /\ message'[t] = message[t] /\ UNCHANGED <<todo, videoOnly>>
  <1>1. UNCHANGED <<todo, videoOnly>>
    BY DEF MatchWorker, Person, World, EnqueueMatch, ReceiveMatch, StoreMatch, MatchWorkerFails,
           OpenPage, ResolveAccept, ResolveReject, SpotifyStep, ReviewFallsDue, sweepVars
  <1>2. HasYtmusic(t)
    BY DEF Settled, Outcome, HasYtmusic
  <1>3. CASE EnqueueMatch(u)
    BY <1>1, <1>2, <1>3 DEF EnqueueMatch, Stays, Held, Rows, trackVars
  <1>4. CASE ReceiveMatch(u)
    BY <1>1, <1>4 DEF ReceiveMatch, Stays, Held, Rows, trackVars
  <1>5. CASE StoreMatch(u) \/ MatchWorkerFails(u)
    <2>1. /\ u # t /\ message'[t] = message[t]
          /\ UNCHANGED <<song, review, absent>> \/ StoreSong(u)
      BY <1>5 DEF StoreMatch, MatchWorkerFails, Held, Rows, trackVars
    <2>2. song'[t] = song[t] /\ review'[t] = review[t] /\ absent'[t] = absent[t]
      BY <2>1, StoreStays DEF Held
    <2> QED BY <1>1, <2>1, <2>2 DEF Stays
  <1>6. CASE OpenPage(u) \/ SpotifyStep(u)
    BY <1>1, <1>6 DEF OpenPage, SpotifyStep, Stays, trackVars
  <1>7. CASE ResolveAccept(u)
    BY <1>1, <1>7 DEF ResolveAccept, UpsertVendorMatch, Stays, Held, Rows
  <1>8. CASE ResolveReject(u)
    BY <1>1, <1>8 DEF ResolveReject, MarkNoMatch, Stays, Held, Rows
  <1>9. CASE ReviewFallsDue(u)
    BY <1>1, <1>9 DEF ReviewFallsDue, Stays, Held, Rows
  <1> QED BY <1>3, <1>4, <1>5, <1>6, <1>7, <1>8, <1>9 DEF MatchWorker, Person, World

\* A match and an empty search are final, and so is a reject of a review still open, which
\* leaves the row of one: the reconciliation takes up only reviews and the reviews it closed
\* itself, a claim notes which songs need no search, a message is sent only for a track
\* without any row, a reject from a stale page finds a row it does not change.  Only a
\* person who accepts a video changes a settled outcome, or a search under way before.
THEOREM SettledAlwaysStays == Spec => SettledStays
  <1> DEFINE Kept == \A t \in Track :
                        Outcome(t) \in {"auto", "manual", "empty"} /\ ~Sought(t)
                          => Outcome(t)' \in {Outcome(t), "manual"} /\ ~Sought(t)'
  <1>1. Held /\ [Next]_vars => [Kept]_vars
    <2> SUFFICES ASSUME Held, Next, NEW t \in Track, Settled(t), ~Sought(t)
                 PROVE  Outcome(t)' \in {Outcome(t), "manual"} /\ ~Sought(t)'
      BY DEF Settled
    <2>1. CASE \E s \in Sweep : Sweeping(s) \/ Failing(s)
      <3>1. PICK s \in Sweep : Sweeping(s) \/ Failing(s)
        BY <2>1
      <3>2. t \notin Seeking(s)
        BY DEF Sought, Seeking
      <3> QED BY <3>1, <3>2, SweepStays, SettledKept DEF Held
    <2>2. CASE \E u \in Track : MatchWorker(u) \/ Person(u) \/ World(u)
      <3>1. PICK u \in Track : MatchWorker(u) \/ Person(u) \/ World(u)
        BY <2>2
      <3>2. message[t] = "none"
        BY DEF Sought
      <3>3. /\ Stays(t) \/ song'[t] = "manual"
            /\ message'[t] = message[t] /\ UNCHANGED <<todo, videoOnly>>
        BY <3>1, <3>2, TrackStays
      <3>4. \A s \in Sweep : Seeking(s)' = Seeking(s)
        BY <3>3 DEF Seeking
      <3>5. CASE Stays(t)
        BY <3>3, <3>4, <3>5, SettledKept DEF Held
      <3>6. CASE song'[t] = "manual"
        BY <3>3, <3>6 DEF Outcome, Sought
      <3> QED BY <3>3, <3>5, <3>6
    <2>3. CASE BanEnds
      <3>1. UNCHANGED <<song, review, absent, message, todo, videoOnly>>
        BY <2>3 DEF BanEnds, trackVars, worldVars, sweepVars
      <3> QED BY <3>1, SettledKept DEF Stays, Seeking, Held
    <2> QED BY <2>1, <2>2, <2>3 DEF Next
  <1>2. Init => Held
    BY HeldInit
  <1>3. Held /\ [Next]_vars => Held'
    BY HeldStep
  <1>4. Spec => [][Kept]_vars
    BY <1>1, <1>2, <1>3, PTL DEF Spec
  <1> QED BY <1>4 DEF SettledStays

-----------------------------------------------------------------------------
(* What NoTrackWaitsForever rests on: a claim is in the hands of the batch  *)
(* that made it until the batch marks the track, hands it back or dies, and *)
(* a batch at work always has a next step, of which it takes so many.       *)

Work == {"search", "mark", "mark_error", "confirm"}

InHand(s) == todo[s] \cup current[s] \cup unconfirmed[s]

\* No track carries the stamp of a batch that has finished with it or forgotten it, which
\* would take it from every later batch: only a death leaves that.
ClaimsHeld ==
    \A s \in Sweep, t \in Track : stamp[t] = s =>
        \/ pc[s] \in Work /\ t \in InHand(s)
        \/ pc[s] \in {"release", "release_ban"}

\* A batch at work has the track that its next step is about.
BatchesGoOn ==
    \A s \in Sweep :
        /\ pc[s] = "search" => \E t \in Track : IsNext(s, t)
        /\ pc[s] \in {"mark", "mark_error"} => \E t \in Track : t \in current[s]
        /\ pc[s] = "confirm" => \E t \in Track : t \in unconfirmed[s]

\* A stage that has this in hand still holds its claim of t.
Holds(stage, left, stored, failed, t) ==
    \/ stage \in Work /\ t \in left \cup stored \cup failed
    \/ stage \in {"release", "release_ban"}

Busy(stage, left, stored, failed) ==
    /\ stage = "search" => left # {}
    /\ stage \in {"mark", "mark_error"} => stored # {}
    /\ stage = "confirm" => failed # {}

Going ==
    \A s \in Sweep :
        /\ Busy(pc[s], todo[s], current[s], unconfirmed[s])
        /\ \A t \in Track : stamp[t] = s =>
              Holds(pc[s], todo[s], current[s], unconfirmed[s], t)

\* Of some tracks one is the newest.
LEMMA NewestOf ==
    ASSUME NEW S, S \subseteq Track, S # {}
    PROVE  \E t \in S : \A u \in S : Rank[t] <= Rank[u]
  <1> DEFINE R == {Rank[t] : t \in S}
  <1>1. \A t \in S : Rank[t] \in Nat
    BY SearchAssumption
  <1>2. R \subseteq Nat /\ R # {}
    BY <1>1
  <1>3. PICK m \in R : \A n \in R : ~(<<n, m>> \in OpToRel(<, Nat))
    BY <1>2, NatLessThanWellFounded, WFMin
  <1>4. \A n \in R : ~(n < m)
    BY <1>2, <1>3 DEF OpToRel
  <1>5. PICK t \in S : m = Rank[t]
    OBVIOUS
  <1>6. ASSUME NEW u \in S PROVE Rank[t] <= Rank[u]
    <2>1. ~(Rank[u] < Rank[t])
      BY <1>4, <1>5
    <2> QED BY <1>1, <2>1
  <1> QED BY <1>6

LEMMA GoingShows == Held /\ Going => ClaimsHeld /\ BatchesGoOn
  <1> SUFFICES ASSUME Held, Going PROVE ClaimsHeld /\ BatchesGoOn
    OBVIOUS
  <1>1. ClaimsHeld
    BY DEF Going, Holds, ClaimsHeld, InHand
  <1>2. ASSUME NEW s \in Sweep, todo[s] # {} PROVE \E t \in Track : IsNext(s, t)
    <2>1. todo[s] \subseteq Track
      BY BatchOf
    <2>2. PICK t \in todo[s] : \A u \in todo[s] : Rank[t] <= Rank[u]
      BY <1>2, <2>1, NewestOf
    <2> QED BY <2>1, <2>2 DEF IsNext
  <1>3. BatchesGoOn
    BY <1>2, BatchOf DEF Going, Busy, BatchesGoOn
  <1> QED BY <1>1, <1>3

\* A step of one batch, which leaves the claims of the others with them.
LEMMA GoingMoves ==
    ASSUME Held, Going, NEW s \in Sweep, NEW p, NEW T, NEW C, NEW U,
           pc' = [pc EXCEPT ![s] = p],
           todo' = [todo EXCEPT ![s] = T] \/ (todo' = todo /\ T = todo[s]),
           current' = [current EXCEPT ![s] = C] \/ (current' = current /\ C = current[s]),
           unconfirmed' = [unconfirmed EXCEPT ![s] = U]
              \/ (unconfirmed' = unconfirmed /\ U = unconfirmed[s]),
           Busy(p, T, C, U),
           \A t \in Track : stamp'[t] = s => Holds(p, T, C, U, t),
           \A t \in Track : stamp'[t] \in Sweep \ {s} => stamp'[t] = stamp[t]
    PROVE  Going'
  <1>1. pc'[s] = p /\ todo'[s] = T /\ current'[s] = C /\ unconfirmed'[s] = U
    BY DEF Held, Batches
  <1>2. \A r \in Sweep \ {s} : /\ pc'[r] = pc[r] /\ todo'[r] = todo[r]
                               /\ current'[r] = current[r] /\ unconfirmed'[r] = unconfirmed[r]
    BY DEF Held, Batches
  <1>3. ASSUME NEW r \in Sweep
        PROVE  /\ Busy(pc'[r], todo'[r], current'[r], unconfirmed'[r])
               /\ \A t \in Track : stamp'[t] = r =>
                     Holds(pc'[r], todo'[r], current'[r], unconfirmed'[r], t)
    <2>1. CASE r = s
      BY <1>1, <2>1
    <2>2. CASE r # s
      <3>1. \A t \in Track : stamp'[t] = r => stamp[t] = r
        BY <2>2
      <3> QED BY <1>2, <2>2, <3>1 DEF Going
    <2> QED BY <2>1, <2>2
  <1> QED BY <1>3 DEF Going

\* A batch that is not at work and has nothing to hand back claims nothing.
LEMMA ClaimsNone ==
    ASSUME Going, NEW s \in Sweep,
           pc[s] \in {"idle", "reopen", "chance", "claim", "ban"}, NEW t \in Track
    PROVE  stamp[t] # s
  BY DEF Going, Holds, Work

LEMMA GoingQuiet ==
    ASSUME Held, Going, NEW s \in Sweep,
           Reconcile(s) \/ SetBlocked(s)
    PROVE  Going'
  <1>1. /\ pc[s] \in {"idle", "reopen", "chance", "ban"}
        /\ \E p \in {"idle", "reopen", "chance", "claim"} : pc' = [pc EXCEPT ![s] = p]
        /\ UNCHANGED <<todo, current, unconfirmed>>
    BY DEF Reconcile, CloseReviewsWithoutSpotify, ReopenForSpotifyFound, SecondChance,
           SetBlocked, Go
  <1>2. ASSUME NEW t \in Track, stamp'[t] \in Sweep PROVE stamp'[t] = stamp[t]
    <2>1. stamp'[t] = stamp[t] \/ stamp'[t] = "null"
      BY DEF Reconcile, CloseReviewsWithoutSpotify, ReopenForSpotifyFound, SecondChance,
             SetBlocked, trackVars
    <2> QED BY <1>2, <2>1, SearchAssumption
  <1>3. \A t \in Track : stamp'[t] # s
    BY <1>1, <1>2, ClaimsNone
  <1>4. \A p \in {"idle", "reopen", "chance", "claim"} :
           Busy(p, todo[s], current[s], unconfirmed[s])
    BY DEF Busy
  <1>5. PICK p \in {"idle", "reopen", "chance", "claim"} : pc' = [pc EXCEPT ![s] = p]
    BY <1>1
  <1>6. \A t \in Track : stamp'[t] = s => Holds(p, todo[s], current[s], unconfirmed[s], t)
    BY <1>3
  <1>7. \A t \in Track : stamp'[t] \in Sweep \ {s} => stamp'[t] = stamp[t]
    BY <1>2
  <1>8. todo' = todo /\ current' = current /\ unconfirmed' = unconfirmed
    BY <1>1
  <1>9. Busy(p, todo[s], current[s], unconfirmed[s])
    BY <1>4
  <1> QED BY <1>5, <1>6, <1>7, <1>8, <1>9, GoingMoves

LEMMA GoingClaim ==
    ASSUME Held, Going, NEW s \in Sweep, Claim(s)
    PROVE  Going'
  <1> DEFINE p == IF Unsearched = {} THEN "idle" ELSE "search"
  <1>1. /\ pc[s] = "claim" /\ pc' = [pc EXCEPT ![s] = p]
        /\ stamp' = [t \in Track |-> IF t \in NextBatch THEN s ELSE stamp[t]]
        /\ todo' = [todo EXCEPT ![s] = NextBatch]
        /\ UNCHANGED <<current, unconfirmed>>
    BY DEF Claim, Go
  <1>2. Unsearched # {} => NextBatch # {}
    <2> SUFFICES ASSUME Unsearched # {} PROVE NextBatch # {}
      OBVIOUS
    <2>1. Unsearched \subseteq Track
      BY DEF Unsearched
    <2>2. PICK t \in Unsearched : \A u \in Unsearched : Rank[t] <= Rank[u]
      BY <2>1, NewestOf
    <2>3. \A u \in Unsearched : ~(Rank[u] < Rank[t])
      <3>1. \A u \in Unsearched : Rank[u] \in Nat
        BY <2>1, SearchAssumption
      <3> QED BY <2>2, <3>1
    <2>4. {u \in Unsearched : Rank[u] < Rank[t]} = {}
      BY <2>3
    <2>5. Cardinality({u \in Unsearched : Rank[u] < Rank[t]}) < Limit
      <3>1. Cardinality({}) = 0
        BY FS_EmptySet
      <3>2. 0 < Limit
        BY SearchAssumption
      <3> QED BY <2>4, <3>1, <3>2
    <2> QED BY <2>2, <2>5 DEF NextBatch
  <1>3. Busy(p, NextBatch, current[s], unconfirmed[s])
    BY <1>2 DEF Busy
  <1>4. ASSUME NEW t \in Track, stamp'[t] = s
        PROVE  Holds(p, NextBatch, current[s], unconfirmed[s], t)
    <2>1. t \in NextBatch
      BY <1>1, <1>4, ClaimsNone
    <2>2. Unsearched # {}
      BY <2>1 DEF NextBatch
    <2> QED BY <2>1, <2>2 DEF Holds, Work
  <1>5. \A t \in Track : stamp'[t] \in Sweep \ {s} => stamp'[t] = stamp[t]
    BY <1>1
  <1> HIDE DEF p
  <1> QED BY <1>1, <1>3, <1>4, <1>5, GoingMoves

\* The track that is searched goes on, or ends up among the failures.
LEMMA GoingSearch ==
    ASSUME Held, Going, NEW s \in Sweep, NEW t \in Track,
           SearchOne(s, t) \/ PersistFails(s, t)
    PROVE  Going'
  <1>1. /\ pc[s] = "search"
        /\ \E p \in {"mark", "mark_error"} : pc' = [pc EXCEPT ![s] = p]
        /\ todo' = [todo EXCEPT ![s] = todo[s] \ {t}]
        /\ current' = [current EXCEPT ![s] = {t}]
        /\ UNCHANGED <<stamp, unconfirmed>>
    BY DEF SearchOne, PersistFails, Go, trackVars
  <1>2. current[s] = {}
    BY <1>1, BatchOf DEF Fits
  <1>3. \A p \in {"mark", "mark_error"} : Busy(p, todo[s] \ {t}, {t}, unconfirmed[s])
    BY DEF Busy
  <1>4. ASSUME NEW u \in Track, stamp[u] = s, NEW p \in {"mark", "mark_error"}
        PROVE  Holds(p, todo[s] \ {t}, {t}, unconfirmed[s], u)
    BY <1>1, <1>2, <1>4 DEF Going, Holds, Work
  <1>5. PICK p \in {"mark", "mark_error"} : pc' = [pc EXCEPT ![s] = p]
    BY <1>1
  <1>6. \A u \in Track : stamp'[u] = s => Holds(p, todo[s] \ {t}, {t}, unconfirmed[s], u)
    BY <1>1, <1>4
  <1>7. Busy(p, todo[s] \ {t}, {t}, unconfirmed[s])
    BY <1>3
  <1> DEFINE T == todo[s] \ {t}
             C == {t}
  <1>8. todo' = [todo EXCEPT ![s] = T] /\ current' = [current EXCEPT ![s] = C]
    BY <1>1
  <1>9. /\ Busy(p, T, C, unconfirmed[s])
        /\ \A u \in Track : stamp'[u] = s => Holds(p, T, C, unconfirmed[s], u)
    BY <1>6, <1>7
  <1> HIDE DEF T, C
  <1> QED BY <1>1, <1>5, <1>8, <1>9, GoingMoves

LEMMA GoingSearchFails ==
    ASSUME Held, Going, NEW s \in Sweep, NEW t \in Track, SearchFails(s, t)
    PROVE  Going'
  <1> DEFINE p == IF Cardinality(unconfirmed[s]) + 1 >= Streak THEN "release_ban"
                  ELSE IF todo[s] = {t} THEN "confirm" ELSE "search"
             U == unconfirmed[s] \cup {t}
  <1>1. /\ pc[s] = "search" /\ pc' = [pc EXCEPT ![s] = p] /\ t \in todo[s]
        /\ todo' = [todo EXCEPT ![s] = todo[s] \ {t}]
        /\ unconfirmed' = [unconfirmed EXCEPT ![s] = U]
        /\ UNCHANGED <<stamp, current>>
    BY DEF SearchFails, Go, IsNext, trackVars
  <1>2. p \in {"release_ban", "confirm", "search"} /\ (p = "search" => todo[s] # {t})
    OBVIOUS
  <1> HIDE DEF p
  <1>3. Busy(p, todo[s] \ {t}, current[s], U)
    BY <1>1, <1>2 DEF Busy
  <1>4. ASSUME NEW u \in Track, stamp[u] = s
        PROVE  Holds(p, todo[s] \ {t}, current[s], U, u)
    BY <1>1, <1>2, <1>4 DEF Going, Holds, Work
  <1> HIDE DEF U
  <1> QED BY <1>1, <1>3, <1>4, GoingMoves

LEMMA GoingReleases ==
    ASSUME Held, Going, NEW s \in Sweep, Banned(s) \/ CutShort(s)
    PROVE  Going'
  <1>1. /\ \E p \in {"release", "release_ban"} : pc' = [pc EXCEPT ![s] = p]
        /\ UNCHANGED <<stamp, todo, current, unconfirmed>>
    BY DEF Banned, CutShort, Go, trackVars
  <1>2. \A p \in {"release", "release_ban"} :
           /\ Busy(p, todo[s], current[s], unconfirmed[s])
           /\ \A t \in Track : Holds(p, todo[s], current[s], unconfirmed[s], t)
    BY DEF Busy, Holds
  <1> QED BY <1>1, <1>2, GoingMoves

\* What is left once a track is marked is all that the batch still claims.
LEMMA GoingMark ==
    ASSUME Held, Going, NEW s \in Sweep, NEW t \in Track, Mark(s, t) \/ ConfirmFailure(s, t)
    PROVE  Going'
  <1>1. PICK U : /\ pc[s] \in Work /\ pc' = [pc EXCEPT ![s] = GoesOn(s, U)]
                 /\ Stamped(s, t, "done") \/ Stamped(s, t, "error")
                 /\ current' = [current EXCEPT ![s] = {}]
                 /\ unconfirmed' = [unconfirmed EXCEPT ![s] = U]
                 /\ UNCHANGED todo
                 /\ InHand(s) \subseteq todo[s] \cup U \cup {t}
    <2>1. CASE Mark(s, t)
      <3>1. /\ pc[s] \in {"mark", "mark_error"}
            /\ pc' = [pc EXCEPT ![s] = GoesOn(s, unconfirmed[s])]
            /\ Stamped(s, t, "done") \/ Stamped(s, t, "error")
            /\ current' = [current EXCEPT ![s] = {}] /\ t \in current[s]
            /\ UNCHANGED <<todo, unconfirmed>>
        BY <2>1 DEF Mark, GoOn, GoesOn
      <3>2. current[s] = {t}
        BY <3>1, BatchOf DEF Fits
      <3>3. unconfirmed' = [unconfirmed EXCEPT ![s] = unconfirmed[s]]
        BY <3>1 DEF Held, Batches
      <3>4. pc[s] \in Work /\ InHand(s) \subseteq todo[s] \cup unconfirmed[s] \cup {t}
        BY <3>1, <3>2 DEF Work, InHand
      <3> QED BY <3>1, <3>3, <3>4
    <2>2. CASE ConfirmFailure(s, t)
      <3>1. /\ pc[s] = "confirm"
            /\ pc' = [pc EXCEPT ![s] = GoesOn(s, unconfirmed[s] \ {t})]
            /\ Stamped(s, t, "error")
            /\ unconfirmed' = [unconfirmed EXCEPT ![s] = unconfirmed[s] \ {t}]
            /\ UNCHANGED <<todo, current>>
        BY <2>2 DEF ConfirmFailure, GoOn, GoesOn
      <3>2. current[s] = {}
        BY <3>1, BatchOf DEF Fits
      <3>3. current' = [current EXCEPT ![s] = {}]
        BY <3>1, <3>2 DEF Held, Batches
      <3> DEFINE V == unconfirmed[s] \ {t}
      <3>4. pc[s] \in Work /\ InHand(s) \subseteq todo[s] \cup V \cup {t}
        BY <3>1, <3>2 DEF Work, InHand
      <3> HIDE DEF V
      <3> QED BY <3>1, <3>3, <3>4 DEF V
    <2> QED BY <2>1, <2>2
  <1>2. stamp'[t] \notin Sweep /\ \A u \in Track \ {t} : stamp'[u] = stamp[u]
    BY <1>1, SearchAssumption DEF Stamped, Held, Rows
  <1>3. Busy(GoesOn(s, U), todo[s], {}, U)
    BY DEF Busy, GoesOn
  <1>4. ASSUME NEW u \in Track, stamp'[u] = s
        PROVE  Holds(GoesOn(s, U), todo[s], {}, U, u)
    <2>1. u # t /\ stamp[u] = s
      BY <1>2, <1>4
    <2>2. u \in InHand(s)
      BY <1>1, <2>1 DEF Going, Holds, Work, InHand
    <2>3. u \in todo[s] \cup U
      BY <1>1, <2>1, <2>2
    <2> QED BY <2>3 DEF Holds, GoesOn, Work
  <1>5. \A u \in Track : stamp'[u] \in Sweep \ {s} => stamp'[u] = stamp[u]
    BY <1>2
  <1> QED BY <1>1, <1>3, <1>4, <1>5, GoingMoves

LEMMA GoingForgets ==
    ASSUME Held, Going, NEW s \in Sweep, Release(s) \/ Dies(s)
    PROVE  Going'
  <1>1. /\ \E p \in {"idle", "ban"} : pc' = [pc EXCEPT ![s] = p]
        /\ todo' = [todo EXCEPT ![s] = {}] /\ current' = [current EXCEPT ![s] = {}]
        /\ unconfirmed' = [unconfirmed EXCEPT ![s] = {}]
    BY DEF Release, Dies, Forget, Go
  <1>2. ASSUME NEW t \in Track, stamp'[t] \in Sweep PROVE stamp'[t] = stamp[t] /\ stamp'[t] # s
    <2>1. \/ stamp[t] = s /\ stamp'[t] \in {"null", "stranded"}
          \/ stamp[t] # s /\ stamp'[t] = stamp[t]
      BY DEF Release, Dies
    <2> QED BY <1>2, <2>1, SearchAssumption
  <1>3. \A p \in {"idle", "ban"} : Busy(p, {}, {}, {})
    BY DEF Busy
  <1> QED BY <1>1, <1>2, <1>3, GoingMoves

LEMMA GoingStep == Held /\ Going /\ [Next]_vars => Going'
  <1> SUFFICES ASSUME Held, Going, [Next]_vars PROVE Going'
    OBVIOUS
  <1>1. ASSUME UNCHANGED <<stamp, pc, todo, current, unconfirmed>> PROVE Going'
    BY <1>1 DEF Going
  <1>2. CASE UNCHANGED vars \/ BanEnds
    BY <1>1, <1>2 DEF vars, BanEnds, trackVars, sweepVars
  <1>3. ASSUME NEW t \in Track, MatchWorker(t) \/ Person(t) \/ World(t) PROVE Going'
    BY <1>1, <1>3
    DEF MatchWorker, Person, World, EnqueueMatch, ReceiveMatch, StoreMatch, MatchWorkerFails,
        OpenPage, ResolveAccept, ResolveReject, SpotifyStep, ReviewFallsDue, trackVars, sweepVars
  <1> QED BY <1>2, <1>3, GoingQuiet, GoingClaim, GoingSearch, GoingSearchFails, GoingReleases,
             GoingMark, GoingForgets DEF Next, Sweeping, Searching, Failing

LEMMA GoingAlways == Spec => [](Held /\ Going)
  <1>1. Init => Held /\ Going
    <2>1. Init => Going
      BY SearchAssumption DEF Init, Going, Busy, Work
    <2> QED BY <2>1, HeldInit
  <1>2. Held /\ Going /\ [Next]_vars => (Held /\ Going)'
    BY HeldStep, GoingStep
  <1> QED BY <1>1, <1>2, PTL DEF Spec

\* However batches overlap and tracks are reopened under their hands, a claim is either in
\* the hands of the batch that made it or about to be handed back: what youtube_searched_at
\* keeps from all other batches is not lost except by a death.
THEOREM ClaimsAlwaysHeld == Spec => []ClaimsHeld
  BY GoingAlways, GoingShows, PTL

\* No batch gets stuck: at every stage of its work there is the track its next step needs,
\* the newest of those it has left, the one it has stored, or one that failed.
THEOREM BatchesAlwaysGoOn == Spec => []BatchesGoOn
  BY GoingAlways, GoingShows, PTL

\* What a batch has left: a search and a mark of each track, or a mark.
Left(s) == 2 * Cardinality(todo[s]) + Cardinality(current[s]) + Cardinality(unconfirmed[s])

Idles(s) == UNCHANGED <<pc[s], todo[s], current[s], unconfirmed[s]>>

\* A step of a batch at work, failed or not, leaves it with less to do or takes it out of work,
\* and nothing else gives it more.
BatchesWindDown ==
    [][\A s \in Sweep : pc[s] \in Work /\ pc'[s] \in Work
                           => Left(s)' < Left(s) \/ Idles(s)]_vars

LEMMA LeftCounts ==
    ASSUME IsFiniteSet(Track), Held, NEW s \in Sweep
    PROVE  /\ IsFiniteSet(todo[s]) /\ Cardinality(todo[s]) \in Nat
           /\ IsFiniteSet(current[s]) /\ Cardinality(current[s]) \in Nat
           /\ IsFiniteSet(unconfirmed[s]) /\ Cardinality(unconfirmed[s]) \in Nat
  BY BatchOf, FS_Subset, FS_CardinalityType

LEMMA CountAfter ==
    ASSUME NEW s, NEW a \in Nat, NEW b \in Nat, NEW c \in Nat,
           Cardinality(todo'[s]) = a, Cardinality(current'[s]) = b,
           Cardinality(unconfirmed'[s]) = c
    PROVE  Left(s)' = 2 * a + b + c
  <1>1. Left(s)' = 2 * Cardinality(todo'[s]) + Cardinality(current'[s])
                     + Cardinality(unconfirmed'[s])
    BY DEF Left
  <1> QED BY <1>1

LEMMA SearchWindsDown ==
    ASSUME IsFiniteSet(Track), Held, NEW s \in Sweep, NEW t \in Track,
           SearchOne(s, t) \/ PersistFails(s, t) \/ SearchFails(s, t)
    PROVE  Left(s)' < Left(s)
  <1>1. pc[s] = "search" /\ t \in todo[s] /\ todo' = [todo EXCEPT ![s] = todo[s] \ {t}]
    BY DEF SearchOne, PersistFails, SearchFails, Go, IsNext
  <1>2. PICK a \in Nat : Cardinality(todo[s]) = a /\ a - 1 \in Nat
                         /\ Cardinality(todo'[s]) = a - 1
    <2>1. IsFiniteSet(todo[s]) /\ Cardinality(todo[s]) \in Nat
      BY LeftCounts
    <2>2. Cardinality(todo[s]) # 0
      BY <1>1, <2>1, FS_EmptySet
    <2>3. Cardinality(todo[s] \ {t}) = Cardinality(todo[s]) - 1
      BY <1>1, <2>1, FS_RemoveElement
    <2>4. todo'[s] = todo[s] \ {t}
      BY <1>1 DEF Held, Batches
    <2> QED BY <2>1, <2>2, <2>3, <2>4
  <1>3. Cardinality(current[s]) = 0
    <2>1. current[s] = {}
      BY <1>1, BatchOf DEF Fits
    <2> QED BY <2>1, FS_EmptySet
  <1>4. PICK c \in Nat : Cardinality(unconfirmed[s]) = c
    BY LeftCounts
  <1>5. Left(s) = 2 * a + c
    BY <1>2, <1>3, <1>4 DEF Left
  <1>6. CASE SearchOne(s, t) \/ PersistFails(s, t)
    <2>1. current'[s] = {t} /\ unconfirmed'[s] = unconfirmed[s]
      BY <1>6 DEF SearchOne, PersistFails, Held, Batches
    <2>2. Cardinality(current'[s]) = 1 /\ Cardinality(unconfirmed'[s]) = c
      BY <1>4, <2>1, FS_Singleton
    <2>3. Left(s)' = 2 * (a - 1) + 1 + c
      BY <1>2, <2>2, CountAfter
    <2> QED BY <1>2, <1>5, <2>3
  <1>7. CASE SearchFails(s, t)
    <2>1. current'[s] = current[s] /\ unconfirmed'[s] = unconfirmed[s] \cup {t}
      BY <1>7 DEF SearchFails, Held, Batches
    <2>2. PICK d \in Nat : Cardinality(unconfirmed'[s]) = d /\ d <= c + 1
      <3>1. IsFiniteSet(unconfirmed[s])
        BY LeftCounts
      <3>2. Cardinality(unconfirmed[s] \cup {t}) \in {c, c + 1}
        BY <1>4, <3>1, FS_AddElement
      <3> QED BY <2>1, <3>2
    <2>3. Cardinality(current'[s]) = 0 /\ 0 \in Nat
      BY <1>3, <2>1
    <2>4. Left(s)' = 2 * (a - 1) + 0 + d
      BY <1>2, <2>2, <2>3, CountAfter
    <2> QED BY <1>2, <1>5, <2>2, <2>4
  <1> QED BY <1>6, <1>7

LEMMA MarkWindsDown ==
    ASSUME IsFiniteSet(Track), Held, NEW s \in Sweep, NEW t \in Track,
           Mark(s, t) \/ ConfirmFailure(s, t)
    PROVE  Left(s)' < Left(s)
  <1>1. PICK a \in Nat, b \in Nat, c \in Nat :
           /\ Cardinality(todo[s]) = a /\ Cardinality(current[s]) = b
           /\ Cardinality(unconfirmed[s]) = c
    BY LeftCounts
  <1>2. Left(s) = 2 * a + b + c
    BY <1>1 DEF Left
  <1>3. CASE Mark(s, t)
    <2>1. /\ current'[s] = {} /\ todo'[s] = todo[s] /\ unconfirmed'[s] = unconfirmed[s]
          /\ t \in current[s]
      BY <1>3 DEF Mark, Held, Batches
    <2>2. b # 0 /\ Cardinality(current'[s]) = 0
      BY <1>1, <2>1, LeftCounts, FS_EmptySet
    <2>3. Cardinality(todo'[s]) = a /\ Cardinality(unconfirmed'[s]) = c
      BY <1>1, <2>1
    <2>4. PICK d \in Nat : d = 0
      OBVIOUS
    <2>5. Cardinality(current'[s]) = d
      BY <2>2, <2>4
    <2>6. Left(s)' = 2 * a + d + c
      BY <2>3, <2>5, CountAfter
    <2> QED BY <1>2, <2>2, <2>4, <2>6
  <1>4. CASE ConfirmFailure(s, t)
    <2>1. /\ current'[s] = current[s] /\ todo'[s] = todo[s]
          /\ unconfirmed'[s] = unconfirmed[s] \ {t} /\ t \in unconfirmed[s]
      BY <1>4 DEF ConfirmFailure, Held, Batches
    <2>2. c # 0 /\ Cardinality(unconfirmed'[s]) = c - 1
      <3>1. IsFiniteSet(unconfirmed[s]) /\ unconfirmed[s] # {}
        BY <2>1, LeftCounts
      <3>2. Cardinality(unconfirmed[s]) # 0
        BY <3>1, FS_EmptySet
      <3>3. Cardinality(unconfirmed[s] \ {t}) = Cardinality(unconfirmed[s]) - 1
        BY <2>1, <3>1, FS_RemoveElement
      <3> QED BY <1>1, <2>1, <3>2, <3>3
    <2>3. PICK d \in Nat : d = c - 1
      BY <2>2
    <2>4. /\ Cardinality(todo'[s]) = a /\ Cardinality(current'[s]) = b
          /\ Cardinality(unconfirmed'[s]) = d
      BY <1>1, <2>1, <2>2, <2>3
    <2>5. Left(s)' = 2 * a + b + d
      BY <2>4, CountAfter
    <2> QED BY <1>2, <2>3, <2>5
  <1> QED BY <1>3, <1>4

\* Batches do not touch each other's work, nor does anybody else.
LEMMA OthersIdle ==
    ASSUME Held, NEW r \in Sweep, Sweeping(r) \/ Failing(r), NEW s \in Sweep \ {r}
    PROVE  Idles(s)
  <1>1. CASE Reconcile(r) \/ Claim(r) \/ SetBlocked(r) \/ Banned(r) \/ CutShort(r)
    BY <1>1 DEF Reconcile, CloseReviewsWithoutSpotify, ReopenForSpotifyFound, SecondChance,
                Claim, SetBlocked, Banned, CutShort, Go, Idles, Held, Batches
  <1>2. CASE Release(r) \/ Dies(r)
    BY <1>2 DEF Release, Dies, Forget, Go, Idles, Held, Batches
  <1>3. ASSUME NEW t \in Track, SearchOne(r, t) \/ PersistFails(r, t) \/ SearchFails(r, t)
        PROVE  Idles(s)
    BY <1>3 DEF SearchOne, PersistFails, SearchFails, Go, Idles, Held, Batches
  <1>4. ASSUME NEW t \in Track, Mark(r, t) \/ ConfirmFailure(r, t) PROVE Idles(s)
    BY <1>4 DEF Mark, ConfirmFailure, GoOn, Idles, Held, Batches
  <1> QED BY <1>1, <1>2, <1>3, <1>4 DEF Sweeping, Searching, Failing

LEMMA WindDownStep ==
    ASSUME IsFiniteSet(Track), Held, [Next]_vars, NEW s \in Sweep, pc[s] \in Work, pc'[s] \in Work
    PROVE  Left(s)' < Left(s) \/ Idles(s)
  <1>1. CASE UNCHANGED sweepVars
    BY <1>1 DEF sweepVars, Idles
  <1>2. CASE UNCHANGED vars \/ BanEnds
    BY <1>1, <1>2 DEF vars, BanEnds
  <1>3. ASSUME NEW t \in Track, MatchWorker(t) \/ Person(t) \/ World(t)
        PROVE  Left(s)' < Left(s) \/ Idles(s)
    BY <1>1, <1>3
    DEF MatchWorker, Person, World, EnqueueMatch, ReceiveMatch, StoreMatch, MatchWorkerFails,
        OpenPage, ResolveAccept, ResolveReject, SpotifyStep, ReviewFallsDue
  <1>4. CASE Sweeping(s) \/ Failing(s)
    <2>1. ~(Reconcile(s) \/ Claim(s) \/ SetBlocked(s) \/ Release(s))
      BY DEF Reconcile, CloseReviewsWithoutSpotify, ReopenForSpotifyFound, SecondChance, Claim,
             SetBlocked, Release, Go, Work
    <2>2. ~(Banned(s) \/ CutShort(s) \/ Dies(s))
      BY DEF Banned, CutShort, Dies, Go, Work, Held, Batches
    <2> QED BY <1>4, <2>1, <2>2, SearchWindsDown, MarkWindsDown DEF Sweeping, Searching, Failing
  <1> QED BY <1>2, <1>3, <1>4, OthersIdle DEF Next

\* A batch that has claimed is over, or hands its claim back, after at most two steps for each
\* track it claimed, whatever fails and whoever overlaps it: with the steps it always has
\* (BatchesAlwaysGoOn) it comes to its end if only it is run.
THEOREM BatchesAlwaysWindDown == IsFiniteSet(Track) => (Spec => BatchesWindDown)
  <1> SUFFICES ASSUME IsFiniteSet(Track) PROVE Spec => BatchesWindDown
    OBVIOUS
  <1>1. Held /\ [Next]_vars =>
          [\A s \in Sweep : pc[s] \in Work /\ pc'[s] \in Work
                               => Left(s)' < Left(s) \/ Idles(s)]_vars
    BY WindDownStep
  <1> QED BY <1>1, HeldInit, HeldStep, PTL DEF Spec, BatchesWindDown

\* A batch never has the claim of more tracks than it may search.
ClaimsBounded == \A s \in Sweep : Cardinality({t \in Track : stamp[t] = s}) <= Limit

\* Of some finitely many tracks one is the oldest.
LEMMA OldestOf ==
    ASSUME NEW S, S \subseteq Track, IsFiniteSet(S), S # {}
    PROVE  \E t \in S : \A u \in S : Rank[u] <= Rank[t]
  <1> DEFINE Above(t) == {u \in S : Rank[u] > Rank[t]}
             N == {Cardinality(Above(t)) : t \in S}
  <1>1. \A t \in S : Rank[t] \in Nat
    BY SearchAssumption
  <1>2. ASSUME NEW t \in S PROVE IsFiniteSet(Above(t)) /\ Cardinality(Above(t)) \in Nat
    <2>1. Above(t) \in SUBSET S
      OBVIOUS
    <2> QED BY <2>1, FS_Subset, FS_CardinalityType
  <1>3. N \subseteq Nat /\ N # {}
    BY <1>2
  <1>4. PICK m \in N : \A n \in N : ~(<<n, m>> \in OpToRel(<, Nat))
    BY <1>3, NatLessThanWellFounded, WFMin
  <1>5. \A n \in N : ~(n < m)
    BY <1>3, <1>4 DEF OpToRel
  <1>6. PICK t \in S : m = Cardinality(Above(t))
    OBVIOUS
  <1>7. ASSUME NEW u \in S, ~(Rank[u] <= Rank[t]) PROVE FALSE
    <2>1. Rank[u] > Rank[t]
      BY <1>1, <1>7
    <2>2. Above(u) \in SUBSET Above(t) /\ u \in Above(t) /\ u \notin Above(u)
      BY <1>1, <2>1
    <2>3. /\ Cardinality(Above(u)) <= Cardinality(Above(t))
          /\ Cardinality(Above(t)) = Cardinality(Above(u)) => Above(t) = Above(u)
      <3> HIDE DEF Above
      <3> QED BY <1>2, <2>2, FS_Subset
    <2>4. Cardinality(Above(u)) # Cardinality(Above(t))
      BY <2>2, <2>3
    <2>5. ~(Cardinality(Above(u)) < Cardinality(Above(t)))
      BY <1>5, <1>6
    <2> HIDE DEF Above
    <2> QED BY <1>2, <2>3, <2>4, <2>5
  <1> QED BY <1>6, <1>7

\* The batch of a claim: nothing above the rank of its oldest track is in it.
LEMMA NextBatchBounded ==
    ASSUME IsFiniteSet(Track)
    PROVE  Cardinality(NextBatch) <= Limit
  <1>1. NextBatch \subseteq Unsearched /\ Unsearched \subseteq Track
    BY DEF NextBatch, Unsearched
  <1>2. IsFiniteSet(NextBatch) /\ Cardinality(NextBatch) \in Nat
    <2>1. NextBatch \in SUBSET Track
      BY <1>1
    <2> QED BY <2>1, FS_Subset, FS_CardinalityType
  <1>3. CASE NextBatch = {}
    <2>1. Cardinality(NextBatch) = 0
      BY <1>3, FS_EmptySet
    <2> QED BY <2>1, SearchAssumption
  <1>4. CASE NextBatch # {}
    <2>1. PICK t \in NextBatch : \A u \in NextBatch : Rank[u] <= Rank[t]
      BY <1>1, <1>2, <1>4, OldestOf
    <2> DEFINE B == {u \in Unsearched : Rank[u] < Rank[t]}
    <2>2. B \in SUBSET Track /\ Cardinality(B) < Limit
      BY <1>1 DEF NextBatch
    <2>3. NextBatch \ {t} \subseteq B
      <3> SUFFICES ASSUME NEW u \in NextBatch \ {t} PROVE Rank[u] < Rank[t]
        BY <1>1
      <3>1. u \in Track /\ t \in Track /\ Rank[u] <= Rank[t]
        BY <1>1, <2>1
      <3>2. Rank[u] \in Nat /\ Rank[t] \in Nat /\ Rank[u] # Rank[t]
        BY <3>1, SearchAssumption
      <3> QED BY <3>1, <3>2
    <2> HIDE DEF B
    <2>4. IsFiniteSet(B) /\ Cardinality(B) \in Nat
      BY <2>2, FS_Subset, FS_CardinalityType
    <2>5. Cardinality(NextBatch \ {t}) <= Cardinality(B)
      BY <2>3, <2>4, FS_Subset
    <2>6. Cardinality(NextBatch \ {t}) = Cardinality(NextBatch) - 1
      BY <1>2, FS_RemoveElement
    <2> QED BY <1>2, <2>2, <2>4, <2>5, <2>6, SearchAssumption
  <1> QED BY <1>3, <1>4

LEMMA BoundedStep ==
    ASSUME IsFiniteSet(Track), Held, Going, ClaimsBounded, [Next]_vars
    PROVE  ClaimsBounded'
  <1> SUFFICES ASSUME NEW s \in Sweep
               PROVE  Cardinality({t \in Track : stamp'[t] = s}) <= Limit
    BY DEF ClaimsBounded
  <1> DEFINE Before == {t \in Track : stamp[t] = s}
             After == {t \in Track : stamp'[t] = s}
  <1>1. CASE Claim(s)
    <2>1. After = NextBatch
      <3>1. stamp' = [t \in Track |-> IF t \in NextBatch THEN s ELSE stamp[t]]
        BY <1>1 DEF Claim
      <3>2. \A t \in Track : stamp[t] # s
        BY <1>1, ClaimsNone DEF Claim, Go
      <3>3. NextBatch \subseteq Track
        BY DEF NextBatch, Unsearched
      <3> QED BY <3>1, <3>2, <3>3
    <2> QED BY <2>1, NextBatchBounded
  <1>2. ASSUME \A t \in Track : stamp'[t] = s => stamp[t] = s
        PROVE  Cardinality(After) <= Limit
    <2>1. After \in SUBSET Before /\ Before \in SUBSET Track
      BY <1>2
    <2> HIDE DEF Before, After
    <2>2. IsFiniteSet(Before) /\ Cardinality(Before) \in Nat
      BY <2>1, FS_Subset, FS_CardinalityType
    <2>3. Cardinality(After) <= Cardinality(Before) /\ Cardinality(After) \in Nat
      BY <2>1, <2>2, FS_Subset, FS_CardinalityType
    <2>4. Cardinality(Before) <= Limit
      BY DEF ClaimsBounded, Before
    <2> QED BY <2>2, <2>3, <2>4, SearchAssumption
  <1>3. ASSUME NEW r \in Sweep, Sweeping(r) \/ Failing(r), ~Claim(s)
        PROVE  \A t \in Track : stamp'[t] = s => stamp[t] = s
    <2>1. s \notin {"null", "done", "error", "overwritten", "stranded"}
      BY SearchAssumption
    <2>2. CASE Reconcile(r) \/ SetBlocked(r) \/ Release(r) \/ Dies(r) \/ Banned(r) \/ CutShort(r)
      BY <2>1, <2>2
      DEF Reconcile, CloseReviewsWithoutSpotify, ReopenForSpotifyFound, SecondChance, SetBlocked,
          Release, Dies, Banned, CutShort, trackVars
    <2>3. CASE Claim(r)
      BY <1>3, <2>3 DEF Claim
    <2>4. ASSUME NEW t \in Track, SearchOne(r, t) \/ PersistFails(r, t) \/ SearchFails(r, t)
          PROVE  stamp' = stamp
      BY <2>4 DEF SearchOne, PersistFails, SearchFails, trackVars
    <2>5. ASSUME NEW t \in Track, Mark(r, t) \/ ConfirmFailure(r, t)
          PROVE  \A u \in Track : stamp'[u] = s => stamp[u] = s
      <3>1. Stamped(r, t, "done") \/ Stamped(r, t, "error")
        BY <2>5 DEF Mark, ConfirmFailure
      <3> QED BY <2>1, <3>1 DEF Stamped, Held, Rows
    <2> QED BY <1>3, <2>2, <2>3, <2>4, <2>5 DEF Sweeping, Searching, Failing
  <1>4. CASE UNCHANGED stamp
    BY <1>2, <1>4
  <1>5. ASSUME NEW t \in Track, MatchWorker(t) \/ Person(t) \/ World(t) PROVE UNCHANGED stamp
    BY <1>5 DEF MatchWorker, Person, World, EnqueueMatch, ReceiveMatch, StoreMatch,
                MatchWorkerFails, OpenPage, ResolveAccept, ResolveReject, SpotifyStep,
                ReviewFallsDue, trackVars
  <1>6. CASE UNCHANGED vars \/ BanEnds
    BY <1>4, <1>6 DEF vars, BanEnds, trackVars
  <1> HIDE DEF After
  <1> QED BY <1>1, <1>2, <1>3, <1>4, <1>5, <1>6 DEF Next, After

\* claim_tracks_for_youtube_search takes Limit tracks and no batch ever comes to hold more, also
\* when batches overlap and tracks are handed back and claimed again.
THEOREM ClaimsAlwaysBounded == IsFiniteSet(Track) => (Spec => []ClaimsBounded)
  <1> SUFFICES ASSUME IsFiniteSet(Track) PROVE Spec => []ClaimsBounded
    OBVIOUS
  <1>1. Init => ClaimsBounded
    <2> SUFFICES ASSUME Init, NEW s \in Sweep
                 PROVE  Cardinality({t \in Track : stamp[t] = s}) <= Limit
      BY DEF ClaimsBounded
    <2>1. {t \in Track : stamp[t] = s} = {}
      BY SearchAssumption DEF Init
    <2>2. Cardinality({}) = 0 /\ Limit \in Nat
      BY FS_EmptySet, SearchAssumption
    <2> QED BY <2>1, <2>2
  <1>2. Held /\ Going /\ ClaimsBounded /\ [Next]_vars => ClaimsBounded'
    BY BoundedStep
  <1> QED BY <1>1, <1>2, GoingAlways, PTL DEF Spec

=============================================================================

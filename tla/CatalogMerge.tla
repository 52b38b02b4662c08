---------------------------- MODULE CatalogMerge ----------------------------
(***************************************************************************)
(* What canonicalization promises of the catalog (ADR-0022, ADR-0024): the *)
(* observations of Beatport made by ingest runs are merged chunk by chunk, *)
(* each chunk at once, in any order and any number of times.               *)
(*                                                                         *)
(* A Beatport id has its latest observation (source_entities), the         *)
(* canonical row it stands for (identity_map) and that row's merged        *)
(* columns (clouder_tracks).  Labels, styles, artists and albums take      *)
(* their columns when they are created; tracks are merged into.  The early *)
(* canonicalizer let some Beatport ids share a track.                      *)
(***************************************************************************)
EXTENDS Integers, Sequences, FiniteSetsExt

CONSTANTS
    BeatportId,     \* the entities Beatport lists, of all types
    Track,          \* those that are tracks
    Field, Value,   \* the columns a later observation may set, and their values
    Null,           \* a column, or a field of an observation, without a value
    LegacyRow,      \* the track an id was merged into by the early canonicalizer, or 0
    Version,        \* the states Beatport's catalog goes through
    Content,        \* Content[v][x]: what Beatport says of x at version v
    Run,            \* the ingest runs
    NoRun,          \* the run of what was there before them
    Chunk           \* lists of ids canonicalized in one transaction

Observation == [Field -> Value \cup {Null}]

ASSUME CatalogAssumption ==
    /\ BeatportId \subseteq Nat \ {0}
    /\ Track \subseteq BeatportId
    /\ Null \notin Value
    /\ NoRun \notin Run
    /\ Content \in [Version -> [BeatportId -> Observation]]
    /\ LegacyRow \in [BeatportId -> Track \cup {0}]
    /\ Chunk \subseteq Seq(BeatportId)

VARIABLES
    source,         \* source_entities: last_run_id, last_seen_at and the payload
    identity,       \* identity_map: the canonical row, named by the id it was made for
    row,            \* the columns of the canonical rows
    made,           \* how many canonical rows were made for an id
    started,        \* ingest_runs.started_at, 0 until the run is recorded
    clock           \* the last started_at given out

vars == <<source, identity, row, made, started, clock>>

Bare == [f \in Field |-> Null]

TypeOK ==
    /\ source \in [BeatportId -> [run : Run \cup {NoRun}, seen : Nat, payload : Observation]]
    /\ identity \in [BeatportId -> BeatportId \cup {0}]
    /\ row \in [BeatportId -> Observation]
    /\ made \in [BeatportId -> Nat]
    /\ started \in [Run -> Nat]
    /\ clock \in Nat

\* A merged track begins with nothing but its title, observed before every run.
Init ==
    /\ source = [x \in BeatportId |-> [run |-> NoRun, seen |-> 0, payload |-> Bare]]
    /\ identity = LegacyRow
    /\ row = [x \in BeatportId |-> Bare]
    /\ made = [x \in BeatportId |-> 0]
    /\ started = [r \in Run |-> 0]
    /\ clock = 0

-----------------------------------------------------------------------------
(* One chunk of a run's tracks, or one phase of its other entities.         *)

IdsOf(chunk) == {chunk[i] : i \in DOMAIN chunk}

\* Mutant: an observation in hand always replaces the stored one.
NewerNever(obs, r) == FALSE

\* A newer observation, from another run, is there already.
Newer(obs, r) == obs.run # r /\ obs.seen > started[r]

\* batch_upsert_source_entities: the row is replaced unless a newer one is there.
Upserted(r, v, chunk) ==
    [x \in BeatportId |->
        IF x \in IdsOf(chunk) /\ ~Newer(source[x], r)
        THEN [run |-> r, seen |-> started[r], payload |-> Content[v][x]]
        ELSE source[x]]

\* read_track_state, after the upsert: x itself, or another id of its track, has a newer
\* observation; within one run the larger id is the newer.
Stale(src, x, r) ==
    \/ Newer(src[x], r)
    \/ \E y \in Track \ {x} :
        /\ identity[y] = identity[x]
        /\ Newer(src[y], r) \/ (src[y].run = r /\ y > x)

\* Mutant: a stale observation overwrites.
track_update_all(current, incoming, stale) == incoming

\* What an observation writes over the current columns; Null keeps the column.
track_update(current, incoming, stale) ==
    [f \in Field |-> IF stale /\ current[f] # Null THEN Null ELSE incoming[f]]

\* claim_identities, find_identities: the ids whose claim wins.
Unclaimed(chunk) == {x \in IdsOf(chunk) : identity[x] = 0}

Writes(r, v, chunk) ==
    [x \in BeatportId |->
        IF x \in Track \cap (IdsOf(chunk) \ Unclaimed(chunk))
        THEN track_update(row[identity[x]], Content[v][x],
                          Stale(Upserted(r, v, chunk), x, r))
        ELSE Bare]

\* batch_conservative_update_tracks: in the order of the chunk.
Updated(chunk, write, c, f) ==
    LET hits == {i \in DOMAIN chunk : identity[chunk[i]] = c /\ write[chunk[i]][f] # Null}
    IN  IF hits = {} THEN row[c][f] ELSE write[chunk[Max(hits)]][f]

\* The writes of a transaction that made rows for the ids in new and found write to be
\* what the others need.
Apply(r, v, chunk, new, write) ==
    /\ source' = Upserted(r, v, chunk)
    /\ identity' = [x \in BeatportId |-> IF x \in new THEN x ELSE identity[x]]
    /\ made' = [x \in BeatportId |-> IF x \in new THEN made[x] + 1 ELSE made[x]]
    /\ row' = [c \in BeatportId |->
                IF c \in new THEN Content[v][c]
                ELSE [f \in Field |-> Updated(chunk, write, c, f)]]
    /\ UNCHANGED <<started, clock>>

-----------------------------------------------------------------------------
\* create_ingest_run: the run takes its place in the order of observations.
Observe(r) ==
    /\ started[r] = 0
    /\ clock' = clock + 1
    /\ started' = [started EXCEPT ![r] = clock + 1]
    /\ UNCHANGED <<source, identity, row, made>>

Merge(r, v, chunk) ==
    /\ started[r] # 0
    /\ Apply(r, v, chunk, Unclaimed(chunk), Writes(r, v, chunk))

Next ==
    \/ \E r \in Run : Observe(r)
    \/ \E r \in Run, v \in Version, chunk \in Chunk : Merge(r, v, chunk)

Spec == Init /\ [][Next]_vars

-----------------------------------------------------------------------------
\* y was observed after x was: by a later run, or by the same under a larger id.
Ahead(y, x) ==
    \/ source[y].seen > source[x].seen
    \/ source[y].seen = source[x].seen /\ y > x

Newest(x) ==
    /\ identity[x] # 0
    /\ \A y \in Track \ {x} : identity[y] = identity[x] => ~Ahead(y, x)

Shows(x) ==
    \A f \in Field : source[x].payload[f] # Null => row[identity[x]][f] = source[x].payload[f]

\* The ids that share x's track are canonicalized in one transaction, the larger later.
TakenTogether(x) ==
    LET Ids == {y \in Track : identity[y] = identity[x]}
    IN  \A chunk \in Chunk :
            /\ IdsOf(chunk) \cap Ids \in {{}, Ids}
            /\ \A i, j \in DOMAIN chunk :
                    i < j /\ {chunk[i], chunk[j]} \subseteq Ids => chunk[i] <= chunk[j]

\* A track shows what the newest observation among its Beatport ids carries, in whatever
\* order runs are canonicalized and however often (read_track_state, track_update), where
\* its ids are always taken together: then the rows of source_entities a transaction has
\* locked are all that decides what it writes.
RowFollowsNewest == \A x \in Track : Newest(x) /\ TakenTogether(x) => Shows(x)

\* What the docstring of read_track_state says of every track: it takes its values from the
\* newest observation among its ids, and no concurrent run can change it between the read
\* and the update.
RowAlwaysFollowsNewest == \A x \in Track : Newest(x) => Shows(x)

\* Runs that meet a new Beatport id at the same time make one canonical row for it, and
\* all of them come to use that row (_resolve_identities).
OneRowPerId ==
    \A x \in BeatportId :
        /\ made[x] = IF identity[x] = x /\ LegacyRow[x] # x THEN 1 ELSE 0
        /\ identity[x] \in {LegacyRow[x], x}

=============================================================================

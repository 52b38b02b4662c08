---------------------------- MODULE ModelScoring ----------------------------
(***************************************************************************)
(* The triage suggestions of one user in one style: the ml-jobs worker     *)
(* (ml_worker_handler.py) retrains the model and scores the profiled       *)
(* tracks of the style with it, page after page, while tracks are profiled *)
(* and more retrains are asked for (repositories/ml.py, ml_jobs.py,        *)
(* curation/ml_triggers.py, api/routes_analysis.py).                       *)
(*                                                                         *)
(* A model is the attempt that trained it; what it predicts is left out.   *)
(* A track has a video of its own, matched before it is profiled.          *)
(***************************************************************************)
EXTENDS Integers, FiniteSets, FiniteSetsExt

CONSTANTS
    Tracks,       \* the tracks of the style are 1..Tracks, in the order of their ids
    Page,         \* tracks per scoring message (PAGE)
    Slot,         \* places for messages in the queue
    Worker,
    MaxReceives,  \* deliveries of a message before it goes to the DLQ
    MaxAttempts,  \* bounds the models trained
    MaxRequests,  \* bounds the triggers that ask for a retrain
    MaxTrouble    \* bounds failed sends, failed workers and doubled deliveries

ASSUME ScoringAssumption ==
    /\ {Page, MaxReceives} \subseteq Nat \ {0}
    /\ {Tracks, MaxAttempts, MaxRequests, MaxTrouble} \subseteq Nat

VARIABLES
    row,        \* ml_models: version, artifact_key and the model whose numbers it shows
    files,      \* the artifacts in S3: the model under each key, 0 if there is none
    request,    \* retrain_requested_at: NULL, within the hour, or older
    predicted,  \* track_predictions: the version, and the model it was computed with
    enough,     \* the user has labelled enough tracks to train; labels only grow
    profiled,   \* tracks with a profile
    unsent,     \* of them, those whose score message the API has still to send
    queue,      \* the message of each slot and how often it was received
    job,        \* what each worker is doing
    saved,      \* the model saved as each version, 0 if there is none
    attempts, requests, troubles,
    lost        \* work has been given up: a message in the DLQ, or one that was never sent

rowVars == <<row, files, request, saved>>
trackVars == <<predicted, profiled, unsent, enough>>
bounds == <<attempts, requests, troubles>>
vars == <<rowVars, trackVars, queue, job, bounds, lost>>

Track == 1..Tracks
Version == 0..MaxAttempts

Retrain == [type |-> "retrain"]
ScoreStyle(version, after) == [type |-> "score_style", version |-> version, after |-> after]
Score(t) == [type |-> "score", track |-> t]
Message == {Retrain} \cup {ScoreStyle(v, t) : v \in Version \ {0}, t \in 0..Tracks}
           \cup {Score(t) : t \in Track}

Empty == [message |-> [type |-> "none"], received |-> 0]
Idle == [stage |-> "idle"]

\* What a worker holds: the version and the key it has read or is to save, the model it
\* has trained, and the tracks it is to score.
Job == [stage : {"start", "train", "save", "send", "tracks", "upsert", "next", "done"},
        slot : Slot, message : Message, version : Version, key : Version,
        model : Version, tracks : SUBSET Track]

ModelTypeOK ==
    /\ row \in [version : Version, key : Version, model : Version]
    /\ files \in [Version -> Version]
    /\ request \in {"none", "pending", "old"}
    /\ predicted \in [Track -> [version : Version, model : Version]]
    /\ unsent \subseteq profiled /\ profiled \subseteq Track
    /\ enough \in BOOLEAN /\ lost \in BOOLEAN
    /\ queue \in [Slot -> {Empty} \cup [message : Message, received : 0..MaxReceives]]
    /\ job \in [Worker -> {Idle} \cup Job]
    /\ saved \in [Version -> Version]
    /\ attempts \in 0..MaxAttempts /\ requests \in 0..MaxRequests /\ troubles \in 0..MaxTrouble

Init ==
    /\ row = [version |-> 0, key |-> 0, model |-> 0]
    /\ files = [k \in Version |-> 0]
    /\ request = "none"
    /\ predicted = [t \in Track |-> [version |-> 0, model |-> 0]]
    /\ profiled = {} /\ unsent = {}
    /\ enough = FALSE /\ lost = FALSE
    /\ queue = [q \in Slot |-> Empty]
    /\ job = [w \in Worker |-> Idle]
    /\ saved = [v \in Version |-> 0]
    /\ attempts = 0 /\ requests = 0 /\ troubles = 0

-----------------------------------------------------------------------------
Trouble == troubles < MaxTrouble /\ troubles' = troubles + 1 /\ UNCHANGED <<attempts, requests>>
Calm == UNCHANGED bounds

Busy == {w \in Worker : job[w].stage # "idle"}
Holds(w, q) == w \in Busy /\ job[w].slot = q
Free(q) == queue[q] = Empty /\ \A w \in Worker : ~Holds(w, q)

Send(q, message) ==
    /\ Free(q)
    /\ queue' = [queue EXCEPT ![q] = [message |-> message, received |-> 0]]

\* A job that has read nothing yet, or that has nothing left to do.
Blank(stage, q, message) ==
    [stage |-> stage, slot |-> q, message |-> message,
     version |-> 0, key |-> 0, model |-> 0, tracks |-> {}]

At(w, type, stage) == w \in Busy /\ job[w].message.type = type /\ job[w].stage = stage
Ends(w) == job' = [job EXCEPT ![w] = Blank("done", job[w].slot, job[w].message)]

-----------------------------------------------------------------------------
(* The API: triggers and profiles, whose messages are best-effort.         *)

\* after_labels: ml_request_retrain unless one is pending, then the message.
RequestRetrain(q) ==
    /\ requests < MaxRequests /\ requests' = requests + 1
    /\ request # "pending" /\ request' = "pending"
    /\ \/ Send(q, Retrain) /\ UNCHANGED troubles
       \/ troubles < MaxTrouble /\ troubles' = troubles + 1 /\ UNCHANGED queue
    /\ UNCHANGED <<row, files, saved, trackVars, job, attempts, lost>>

RequestAges ==
    /\ request = "pending" /\ requests < MaxRequests
    /\ request' = "old"
    /\ UNCHANGED <<row, files, saved, trackVars, queue, job, bounds, lost>>

LabelsGrow ==
    /\ ~enough /\ enough' = TRUE
    /\ UNCHANGED <<rowVars, predicted, profiled, unsent, queue, job, bounds, lost>>

RecordProfile(t) ==
    /\ t \notin profiled
    /\ profiled' = profiled \cup {t}
    /\ unsent' = unsent \cup {t}
    /\ UNCHANGED <<rowVars, predicted, enough, queue, job, bounds, lost>>

SendScore(t, q) ==
    /\ t \in unsent /\ unsent' = unsent \ {t}
    /\ \/ Send(q, Score(t)) /\ Calm /\ UNCHANGED lost
       \/ Trouble /\ lost' = TRUE /\ UNCHANGED queue
    /\ UNCHANGED <<rowVars, predicted, profiled, enough, job>>

-----------------------------------------------------------------------------
(* Deliveries.                                                             *)

Start(w, q) ==
    /\ job' = [job EXCEPT ![w] = Blank("start", q, queue[q].message)]
    /\ queue' = [queue EXCEPT ![q].received = @ + 1]

\* Out of sight while a worker has it, but SQS may deliver it twice.
Receive(w, q) ==
    /\ w \notin Busy /\ queue[q] # Empty /\ queue[q].received < MaxReceives
    /\ IF \E u \in Worker : Holds(u, q) THEN Trouble ELSE Calm
    /\ Start(w, q)
    /\ UNCHANGED <<rowVars, trackVars, lost>>

DeleteMessage(w) ==
    /\ w \in Busy /\ job[w].stage = "done"
    /\ queue' = [queue EXCEPT ![job[w].slot] = Empty]
    /\ job' = [job EXCEPT ![w] = Idle]
    /\ UNCHANGED <<rowVars, trackVars, bounds, lost>>

\* The worker raises or dies: the message is received again, unless that was its last
\* delivery, or it was delivered twice and the other delivery, worked off, deletes it.
WorkerFails(w) ==
    LET q == job[w].slot
        twin == \E u \in Worker \ {w} : Holds(u, q)
        spent == queue[q].received = MaxReceives /\ ~twin
    IN  /\ w \in Busy /\ Trouble
        /\ job' = [job EXCEPT ![w] = Idle]
        /\ queue' = IF spent THEN [queue EXCEPT ![q] = Empty] ELSE queue
        /\ lost' = (lost \/ spent \/ twin \/ queue[q] = Empty)
        /\ UNCHANGED <<rowVars, trackVars>>

-----------------------------------------------------------------------------
(* retrain.                                                                *)

ReadVersion(w) ==
    /\ At(w, "retrain", "start")
    /\ job' = [job EXCEPT ![w].stage = "train", ![w].version = row.version]
    /\ UNCHANGED <<rowVars, trackVars, queue, bounds, lost>>

\* ml_mark_too_few_labels clears the request of a pair that never trained.
TooFewLabels(w) ==
    /\ At(w, "retrain", "train") /\ ~enough
    /\ request' = IF job[w].version = 0 /\ row.version = 0 THEN "none" ELSE request
    /\ Ends(w)
    /\ UNCHANGED <<row, files, saved, trackVars, queue, bounds, lost>>

\* Mutant: the file is named after the version alone.
KeyOfVersion(w) == job[w].version + 1

\* Every attempt writes a file of its own.
ArtifactKey(w) == attempts + 1

PutArtifact(w) ==
    /\ At(w, "retrain", "train") /\ enough
    /\ attempts < MaxAttempts /\ attempts' = attempts + 1
    /\ files' = [files EXCEPT ![ArtifactKey(w)] = attempts + 1]
    /\ job' = [job EXCEPT ![w].stage = "save", ![w].key = ArtifactKey(w),
                          ![w].model = attempts + 1]
    /\ UNCHANGED <<row, request, saved, trackVars, queue, requests, troubles, lost>>

\* ml_save_model, unless another attempt has moved the row past the version read.
SaveModel(w) ==
    /\ At(w, "retrain", "save")
    /\ IF row.version = job[w].version
       THEN /\ row' = [version |-> row.version + 1, key |-> job[w].key, model |-> job[w].model]
            /\ saved' = [saved EXCEPT ![row.version + 1] = job[w].model]
            /\ request' = "none"
            /\ job' = [job EXCEPT ![w] = [Blank("send", job[w].slot, job[w].message)
                                              EXCEPT !.version = row.version + 1]]
       ELSE Ends(w) /\ UNCHANGED <<row, saved, request>>
    /\ UNCHANGED <<files, trackVars, queue, bounds, lost>>

\* Mutant: the version is raised once more for the message.
SendChainAgain(w, q) ==
    /\ At(w, "retrain", "send")
    /\ Send(q, ScoreStyle(job[w].version + 1, 0))
    /\ Ends(w)
    /\ UNCHANGED <<rowVars, trackVars, bounds, lost>>

\* A send that fails is raised: WorkerFails.
SendChain(w, q) ==
    /\ At(w, "retrain", "send")
    /\ Send(q, ScoreStyle(job[w].version, 0))
    /\ Ends(w)
    /\ UNCHANGED <<rowVars, trackVars, bounds, lost>>

-----------------------------------------------------------------------------
(* score_style: one page of the style with the version the message names.  *)

CheckModel(w) ==
    /\ At(w, "score_style", "start")
    /\ IF row.version = job[w].message.version
       THEN job' = [job EXCEPT ![w].stage = "tracks", ![w].version = row.version,
                               ![w].key = row.key]
       ELSE Ends(w)
    /\ UNCHANGED <<rowVars, trackVars, queue, bounds, lost>>

\* ml_style_tracks: the first PAGE profiled tracks after the one the message names.
PageAfter(after) ==
    {t \in profiled : /\ t > after
                      /\ Cardinality({u \in profiled : after < u /\ u < t}) < Page}

ReadTracks(w) ==
    /\ At(w, "score_style", "tracks")
    /\ job' = [job EXCEPT ![w].stage = "upsert", ![w].tracks = PageAfter(job[w].message.after)]
    /\ UNCHANGED <<rowVars, trackVars, queue, bounds, lost>>

\* Mutant: the row of a newer version does not stay.
EveryTrack(w) == job[w].tracks

\* ml_upsert_predictions leaves the row of a newer version alone.
Written(w) == {t \in job[w].tracks : predicted[t].version <= job[w].version}

\* The file is the one of the key read: no attempt overwrites it, so when it is read matters not.
Upsert(w) ==
    /\ w \in Busy /\ job[w].stage = "upsert"
    /\ predicted' = [t \in Track |->
                        IF t \in Written(w)
                        THEN [version |-> job[w].version, model |-> files[job[w].key]]
                        ELSE predicted[t]]
    /\ IF job[w].message.type = "score_style" /\ Cardinality(job[w].tracks) = Page
       THEN job' = [job EXCEPT ![w].stage = "next"]
       ELSE Ends(w)
    /\ UNCHANGED <<rowVars, profiled, unsent, enough, queue, bounds, lost>>

LastTrack(w) == Max(job[w].tracks)

SendNext(w, q) ==
    /\ w \in Busy /\ job[w].stage = "next"
    /\ Send(q, ScoreStyle(job[w].version, LastTrack(w)))
    /\ Ends(w)
    /\ UNCHANGED <<rowVars, trackVars, bounds, lost>>

-----------------------------------------------------------------------------
(* score: the tracks of one upload, with every trained model of the style. *)

ReadModels(w) ==
    /\ At(w, "score", "start")
    /\ IF row.version > 0
       THEN job' = [job EXCEPT ![w] = [Blank("upsert", job[w].slot, job[w].message)
                                         EXCEPT !.version = row.version, !.key = row.key,
                                                !.tracks = {job[w].message.track}]]
       ELSE Ends(w)
    /\ UNCHANGED <<rowVars, trackVars, queue, bounds, lost>>

-----------------------------------------------------------------------------
WorkerStep(w) ==
    \/ ReadVersion(w) \/ TooFewLabels(w) \/ PutArtifact(w) \/ SaveModel(w)
    \/ CheckModel(w) \/ ReadTracks(w) \/ Upsert(w) \/ ReadModels(w)
    \/ DeleteMessage(w) \/ WorkerFails(w)
    \/ \E q \in Slot : Receive(w, q) \/ SendChain(w, q) \/ SendNext(w, q)

Next ==
    \/ RequestAges \/ LabelsGrow
    \/ \E q \in Slot : RequestRetrain(q)
    \/ \E t \in Track : RecordProfile(t) \/ \E q \in Slot : SendScore(t, q)
    \/ \E w \in Worker : WorkerStep(w)

Spec == Init /\ [][Next]_vars

-----------------------------------------------------------------------------
\* However many deliveries of a retrain train at once, the file the model row names is the
\* model whose numbers the row shows (_retrain and ml_save_model), and a track's suggestion
\* was computed with the model that was saved under the version it is stored with.
ScoresOfTheirModel ==
    /\ files[row.key] = row.model
    /\ \A t \in Track : predicted[t].model = saved[predicted[t].version]

Settled == /\ Busy = {} /\ unsent = {} /\ ~lost
           /\ \A q \in Slot : queue[q] = Empty

\* Tracks profiled, models retrained and pages scored in any order, redelivered, stopped
\* halfway: unless a message was given up, once all work is done every profiled track of a
\* trained style has its suggestion from the current model.
ScoredByCurrent ==
    Settled /\ row.version > 0 => \A t \in profiled : predicted[t].version = row.version
=============================================================================

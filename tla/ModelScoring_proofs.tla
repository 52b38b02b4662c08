------------------------ MODULE ModelScoring_proofs ------------------------
(* Proofs about ModelScoring: types, that a score is of the model whose     *)
(* version it names, and that no profiled track is left without the score   *)
(* of the current model once all work is done.                              *)
EXTENDS ModelScoring, FiniteSetTheorems, WellFoundedInduction, TLAPS

\* The last track of a page is a track (_score_style).
LEMMA LastIsTrack ==
    ASSUME NEW S \in SUBSET Track, S # {}
    PROVE  Max(S) \in S /\ Max(S) \in Track /\ \A u \in S : u <= Max(S)
  <1> DEFINE T == {Tracks - t : t \in S}
  <1>1. Tracks \in Nat
    BY ScoringAssumption
  <1>2. T \subseteq Nat /\ T # {}
    <2>1. \A t \in S : Tracks - t \in Nat
      BY <1>1 DEF Track
    <2> QED BY <2>1
  <1>3. PICK d \in T : \A e \in T : ~(<<e, d>> \in OpToRel(<, Nat))
    BY <1>2, NatLessThanWellFounded, WFMin, Zenon
  <1>4. \A e \in T : ~(e < d)
    BY <1>2, <1>3 DEF OpToRel
  <1>5. \E t \in S : \A u \in S : t >= u
    <2>1. PICK t \in S : d = Tracks - t
      BY <1>3
    <2>2. ASSUME NEW u \in S PROVE t >= u
      <3>1. ~(Tracks - u < Tracks - t)
        BY <1>4, <2>1
      <3>2. t \in Int /\ u \in Int
        BY <1>1 DEF Track
      <3> QED BY <1>1, <3>1, <3>2
    <2> QED BY <2>2
  <1>6. Max(S) \in S /\ \A u \in S : Max(S) >= u
    BY <1>5 DEF Max
  <1>7. \A u \in S : u \in Int
    BY <1>1 DEF Track
  <1> QED BY <1>6, <1>7
-----------------------------------------------------------------------------
(* What every step keeps: versions never pass the attempts that trained     *)
(* them, and what a worker has read of the row still stands, or its save    *)
(* and its page are refused.                                                *)

FilesStand == \A k \in 0..attempts : files[k] = k

SavedStand == saved[0] = 0 /\ \A v \in Version : saved[v] <= attempts

RowStands ==
    row.version <= attempts /\ row.key = saved[row.version] /\ row.model = row.key

PredictedStand ==
    \A t \in Track : /\ predicted[t].version <= row.version
                     /\ predicted[t].model = saved[predicted[t].version]

\* A save whose version still stands has an attempt of its own behind it.
SaveStands(j) ==
    /\ j.version <= row.version
    /\ j.version = row.version => row.version < attempts
    /\ j.key <= attempts /\ j.model = j.key

JobStands(j) ==
    /\ j.stage = "train" => j.version <= row.version
    /\ j.stage = "save" => SaveStands(j)
    /\ j.stage = "send" => j.version \in 1..row.version
    /\ j.stage \in {"tracks", "upsert", "next"} =>
          j.version \in 1..row.version /\ j.key = saved[j.version]
    /\ j.stage = "next" => j.tracks # {}

ModelInv ==
    /\ ModelTypeOK
    /\ FilesStand /\ SavedStand /\ RowStands /\ PredictedStand
    /\ \A w \in Worker : JobStands(job[w])
LEMMA ModelInvInit == Init => ModelInv
  <1> SUFFICES ASSUME Init PROVE ModelInv
    OBVIOUS
  <1> USE ScoringAssumption
  <1>1. ModelTypeOK
    <2>1. 0 \in Version /\ 0 \in 0..MaxAttempts /\ 0 \in 0..MaxRequests /\ 0 \in 0..MaxTrouble
      BY DEF Version
    <2>2. /\ row \in [version : Version, key : Version, model : Version]
          /\ predicted \in [Track -> [version : Version, model : Version]]
      BY <2>1 DEF Init
    <2>3. files \in [Version -> Version] /\ saved \in [Version -> Version]
      BY <2>1 DEF Init
    <2> QED BY <2>1, <2>2, <2>3 DEF Init, ModelTypeOK
  <1>2. FilesStand /\ SavedStand /\ RowStands /\ PredictedStand
    BY DEF Init, FilesStand, SavedStand, RowStands, PredictedStand, Version
  <1>3. \A w \in Worker : JobStands(job[w])
    BY DEF Init, Idle, JobStands
  <1> QED BY <1>1, <1>2, <1>3 DEF ModelInv

LEMMA InJob ==
    ASSUME ModelTypeOK, NEW w \in Busy
    PROVE  w \in Worker /\ job[w] \in Job
  <1>1. w \in Worker /\ job[w] # Idle
    BY DEF Busy, Idle
  <1> QED BY <1>1 DEF ModelTypeOK

LEMMA MessageKinds ==
    ASSUME NEW m \in Message
    PROVE  /\ m.type = "score_style" => m.version \in Version \ {0} /\ m.after \in 0..Tracks
           /\ m.type = "score" => m.track \in Track
  <1>1. CASE m = Retrain
    BY <1>1 DEF Retrain
  <1>2. ASSUME NEW v \in Version \ {0}, NEW t \in 0..Tracks, m = ScoreStyle(v, t)
        PROVE  /\ m.version = v /\ m.after = t
               /\ m.type = "score_style"
    BY <1>2 DEF ScoreStyle
  <1>3. ASSUME NEW t \in Track, m = Score(t)
        PROVE  m.type = "score" /\ m.track = t
    BY <1>3 DEF Score
  <1>4. Retrain.type = "retrain"
    BY DEF Retrain
  <1> QED BY <1>1, <1>2, <1>3, <1>4 DEF Message

\* A step that leaves the row, the files and the attempts alone keeps all that stands.
LEMMA StillStands ==
    ASSUME ModelInv, UNCHANGED <<row, files, saved, attempts, job, predicted>>
    PROVE  /\ (FilesStand /\ SavedStand /\ RowStands /\ PredictedStand)'
           /\ \A w \in Worker : JobStands(job[w])'
  BY DEF ModelInv, FilesStand, SavedStand, RowStands, PredictedStand, JobStands, SaveStands

LEMMA ApiKeepsInv ==
    ASSUME ModelInv,
           \/ RequestAges \/ LabelsGrow
           \/ \E q \in Slot : RequestRetrain(q)
           \/ \E t \in Track : RecordProfile(t) \/ \E q \in Slot : SendScore(t, q)
    PROVE  ModelInv'
  <1> USE ScoringAssumption
  <1>1. CASE RequestAges \/ LabelsGrow
    <2>1. ModelTypeOK'
      BY <1>1 DEF ModelInv, ModelTypeOK, RequestAges, LabelsGrow, rowVars, trackVars, bounds
    <2>2. UNCHANGED <<row, files, saved, attempts, job, predicted>>
      BY <1>1 DEF RequestAges, LabelsGrow, rowVars, trackVars, bounds
    <2> QED BY <2>1, <2>2, StillStands DEF ModelInv
  <1>2. ASSUME NEW q \in Slot, RequestRetrain(q) PROVE ModelInv'
    <2>1. queue' \in [Slot -> {Empty} \cup [message : Message, received : 0..MaxReceives]]
      <3>1. [message |-> Retrain, received |-> 0] \in [message : Message, received : 0..MaxReceives]
        BY DEF Message
      <3> QED BY <1>2, <3>1 DEF RequestRetrain, Send, ModelInv, ModelTypeOK
    <2>2. requests' \in 0..MaxRequests /\ troubles' \in 0..MaxTrouble
      BY <1>2 DEF RequestRetrain, ModelInv, ModelTypeOK
    <2>3. UNCHANGED <<row, files, saved, attempts, job, predicted>>
      BY <1>2 DEF RequestRetrain, trackVars
    <2>4. ModelTypeOK'
      BY <1>2, <2>1, <2>2, <2>3 DEF RequestRetrain, trackVars, ModelInv, ModelTypeOK
    <2> QED BY <2>3, <2>4, StillStands DEF ModelInv
  <1>3. ASSUME NEW t \in Track, RecordProfile(t) PROVE ModelInv'
    <2>1. ModelTypeOK'
      BY <1>3 DEF RecordProfile, rowVars, bounds, ModelInv, ModelTypeOK
    <2>2. UNCHANGED <<row, files, saved, attempts, job, predicted>>
      BY <1>3 DEF RecordProfile, rowVars, bounds
    <2> QED BY <2>1, <2>2, StillStands DEF ModelInv
  <1>4. ASSUME NEW t \in Track, NEW q \in Slot, SendScore(t, q) PROVE ModelInv'
    <2>1. queue' \in [Slot -> {Empty} \cup [message : Message, received : 0..MaxReceives]]
      <3>1. [message |-> Score(t), received |-> 0] \in [message : Message, received : 0..MaxReceives]
        BY DEF Message
      <3> QED BY <1>4, <3>1 DEF SendScore, Send, ModelInv, ModelTypeOK
    <2>2. UNCHANGED <<row, files, saved, attempts, job, predicted>>
      BY <1>4 DEF SendScore, rowVars, Calm, Trouble, bounds
    <2>3. troubles' \in 0..MaxTrouble /\ lost' \in BOOLEAN
      <3>1. (Calm /\ UNCHANGED lost) \/ (Trouble /\ lost' = TRUE)
        BY <1>4 DEF SendScore
      <3>2. lost' \in BOOLEAN
        BY <3>1, Zenon DEF ModelInv, ModelTypeOK
      <3>3. troubles' \in 0..MaxTrouble
        BY <3>1 DEF Calm, Trouble, bounds, ModelInv, ModelTypeOK
      <3> QED BY <3>2, <3>3
    <2>4. ModelTypeOK'
      <3>1. UNCHANGED <<row, files, request, saved, predicted, profiled, enough, job, attempts, requests>>
        BY <1>4 DEF SendScore, rowVars, Calm, Trouble, bounds
      <3>2. unsent' \subseteq profiled'
        BY <1>4, <3>1 DEF SendScore, ModelInv, ModelTypeOK
      <3> QED BY <2>1, <2>3, <3>1, <3>2, Zenon DEF ModelInv, ModelTypeOK
    <2> QED BY <2>2, <2>4, StillStands DEF ModelInv
  <1> QED BY <1>1, <1>2, <1>3, <1>4
-----------------------------------------------------------------------------
(* The worker's steps.                                                     *)

\* A step that changes what one worker holds and nothing the others rely on.
LEMMA WorkerOnly ==
    ASSUME ModelInv, NEW w \in Worker, NEW j \in {Idle} \cup Job, JobStands(j),
           job' = [job EXCEPT ![w] = j],
           UNCHANGED <<row, files, saved, attempts, trackVars>>,
           request' \in {"none", "pending", "old"},
           queue' \in [Slot -> {Empty} \cup [message : Message, received : 0..MaxReceives]],
           requests' \in 0..MaxRequests, troubles' \in 0..MaxTrouble, lost' \in BOOLEAN
    PROVE  ModelInv'
  <1>1. job' \in [Worker -> {Idle} \cup Job]
    BY DEF ModelInv, ModelTypeOK
  <1>2. ModelTypeOK'
    BY <1>1, Zenon DEF ModelInv, ModelTypeOK, trackVars
  <1>3. (FilesStand /\ SavedStand /\ RowStands /\ PredictedStand)'
    BY DEF ModelInv, FilesStand, SavedStand, RowStands, PredictedStand, trackVars
  <1>4. ASSUME NEW u \in Worker PROVE JobStands(job[u])'
    <2>1. CASE u = w
      <3>1. job'[u] = j
        BY <2>1 DEF ModelInv, ModelTypeOK
      <3> QED BY <3>1 DEF JobStands, SaveStands
    <2>2. CASE u # w
      <3>1. job'[u] = job[u] /\ JobStands(job[u])
        BY <2>2 DEF ModelInv, ModelTypeOK
      <3> QED BY <3>1 DEF JobStands, SaveStands
    <2> QED BY <2>1, <2>2
  <1> QED BY <1>2, <1>3, <1>4 DEF ModelInv

LEMMA BlankJob ==
    ASSUME NEW q \in Slot, NEW m \in Message, NEW stage \in {"start", "done"}
    PROVE  Blank(stage, q, m) \in Job /\ JobStands(Blank(stage, q, m))
  BY ScoringAssumption DEF Blank, Job, Version, JobStands

\* A worker that ends holds nothing that could stop standing.
LEMMA EndedJob ==
    ASSUME ModelTypeOK, NEW w \in Busy, Ends(w)
    PROVE  \E j \in Job : JobStands(j) /\ job' = [job EXCEPT ![w] = j]
  <1> DEFINE j == Blank("done", job[w].slot, job[w].message)
  <1>1. job[w].slot \in Slot /\ job[w].message \in Message
    BY InJob DEF Job
  <1>2. j \in Job /\ JobStands(j)
    BY <1>1, BlankJob
  <1> QED BY <1>2 DEF Ends

\* A step of a worker that ends and touches nothing else.
LEMMA EndKeepsInv ==
    ASSUME ModelInv, NEW w \in Busy, Ends(w),
           UNCHANGED <<row, files, saved, trackVars, bounds, lost>>,
           request' \in {"none", "pending", "old"},
           queue' \in [Slot -> {Empty} \cup [message : Message, received : 0..MaxReceives]]
    PROVE  ModelInv'
  <1>1. PICK j \in Job : JobStands(j) /\ job' = [job EXCEPT ![w] = j]
    BY EndedJob DEF ModelInv
  <1>2. w \in Worker
    BY DEF Busy
  <1>3. requests' \in 0..MaxRequests /\ troubles' \in 0..MaxTrouble /\ lost' \in BOOLEAN
    BY Zenon DEF ModelInv, ModelTypeOK, bounds
  <1>4. UNCHANGED <<row, files, saved, attempts, trackVars>>
    BY DEF bounds
  <1> QED BY <1>1, <1>2, <1>3, <1>4, WorkerOnly

\* A worker's step within its job, with what it has read and nothing written.
LEMMA JobKeepsInv ==
    ASSUME ModelInv, NEW w \in Busy, NEW j \in Job, JobStands(j),
           job' = [job EXCEPT ![w] = j],
           UNCHANGED <<rowVars, trackVars, queue, bounds, lost>>
    PROVE  ModelInv'
  <1>1. w \in Worker
    BY DEF Busy
  <1>2. /\ request' \in {"none", "pending", "old"}
        /\ queue' \in [Slot -> {Empty} \cup [message : Message, received : 0..MaxReceives]]
        /\ requests' \in 0..MaxRequests /\ troubles' \in 0..MaxTrouble /\ lost' \in BOOLEAN
    BY Zenon DEF ModelInv, ModelTypeOK, rowVars, bounds
  <1>3. UNCHANGED <<row, files, saved, attempts, trackVars>>
    BY DEF rowVars, bounds
  <1> QED BY <1>1, <1>2, <1>3, WorkerOnly

\* A send by a worker whose job ends with it.
LEMMA SendKeepsInv ==
    ASSUME ModelInv, NEW w \in Busy, NEW q \in Slot, NEW m \in Message,
           Send(q, m), Ends(w), UNCHANGED <<rowVars, trackVars, bounds, lost>>
    PROVE  ModelInv'
  <1>1. queue' \in [Slot -> {Empty} \cup [message : Message, received : 0..MaxReceives]]
    <2>1. [message |-> m, received |-> 0] \in [message : Message, received : 0..MaxReceives]
      BY ScoringAssumption
    <2> QED BY <2>1 DEF Send, ModelInv, ModelTypeOK
  <1>2. request' \in {"none", "pending", "old"}
    BY Zenon DEF ModelInv, ModelTypeOK, rowVars
  <1>3. UNCHANGED <<row, files, saved, trackVars, bounds, lost>>
    BY DEF rowVars
  <1> QED BY <1>1, <1>2, <1>3, EndKeepsInv
-----------------------------------------------------------------------------
LEMMA DeliveryKeepsInv ==
    ASSUME ModelInv, NEW w \in Worker,
           \/ \E q \in Slot : Receive(w, q)
           \/ DeleteMessage(w)
           \/ WorkerFails(w)
    PROVE  ModelInv'
  <1> USE ScoringAssumption
  <1> DEFINE Cells == {Empty} \cup [message : Message, received : 0..MaxReceives]
  <1>t. queue \in [Slot -> Cells]
    BY DEF ModelInv, ModelTypeOK
  <1>1. ASSUME NEW q \in Slot, Receive(w, q) PROVE ModelInv'
    <2>1. queue[q] \in [message : Message, received : 0..MaxReceives]
      BY <1>t, <1>1 DEF Receive
    <2>2. Blank("start", q, queue[q].message) \in Job /\ JobStands(Blank("start", q, queue[q].message))
      BY <2>1, BlankJob
    <2>3. queue' \in [Slot -> Cells]
      <3>1. [queue[q] EXCEPT !.received = @ + 1] \in [message : Message, received : 0..MaxReceives]
        BY <1>1, <2>1 DEF Receive
      <3>2. queue' = [queue EXCEPT ![q] = [queue[q] EXCEPT !.received = @ + 1]]
        BY <1>1, <1>t DEF Receive, Start
      <3> QED BY <3>1, <3>2, <1>t
    <2>4. requests' \in 0..MaxRequests /\ troubles' \in 0..MaxTrouble /\ attempts' = attempts
      <3>1. Trouble \/ Calm
        BY <1>1, Zenon DEF Receive
      <3> QED BY <3>1 DEF Calm, Trouble, bounds, ModelInv, ModelTypeOK
    <2>5. /\ job' = [job EXCEPT ![w] = Blank("start", q, queue[q].message)]
          /\ UNCHANGED <<row, files, saved, trackVars, request, lost>>
      BY <1>1 DEF Receive, Start, rowVars
    <2>6. request' \in {"none", "pending", "old"} /\ lost' \in BOOLEAN
      BY <2>5, Zenon DEF ModelInv, ModelTypeOK
    <2> QED BY <2>2, <2>3, <2>4, <2>5, <2>6, WorkerOnly
  <1>i. Idle \in {Idle} \cup Job /\ JobStands(Idle)
    BY DEF Idle, JobStands
  <1>2. CASE DeleteMessage(w)
    <2>1. queue' \in [Slot -> Cells]
      <3>1. job[w].slot \in Slot
        BY <1>2, InJob DEF DeleteMessage, Job, ModelInv
      <3> QED BY <1>2, <1>t, <3>1 DEF DeleteMessage
    <2>2. /\ job' = [job EXCEPT ![w] = Idle]
          /\ UNCHANGED <<row, files, saved, attempts, trackVars, request, requests, troubles, lost>>
      BY <1>2 DEF DeleteMessage, rowVars, bounds
    <2>3. /\ request' \in {"none", "pending", "old"} /\ lost' \in BOOLEAN
          /\ requests' \in 0..MaxRequests /\ troubles' \in 0..MaxTrouble
      BY <2>2, Zenon DEF ModelInv, ModelTypeOK
    <2> QED BY <1>i, <2>1, <2>2, <2>3, WorkerOnly
  <1>3. CASE WorkerFails(w)
    <2>1. queue' \in [Slot -> Cells]
      <3>1. queue' = queue \/ queue' = [queue EXCEPT ![job[w].slot] = Empty]
        BY <1>3 DEF WorkerFails
      <3> QED BY <1>t, <3>1
    <2>2. /\ job' = [job EXCEPT ![w] = Idle]
          /\ UNCHANGED <<row, files, saved, attempts, trackVars, request, requests>>
      BY <1>3 DEF WorkerFails, Trouble, rowVars
    <2>3. troubles' \in 0..MaxTrouble
      BY <1>3 DEF WorkerFails, Trouble, ModelInv, ModelTypeOK
    <2>4. lost' \in BOOLEAN
      BY <1>3, Zenon DEF WorkerFails
    <2>5. request' \in {"none", "pending", "old"} /\ requests' \in 0..MaxRequests
      BY <2>2, Zenon DEF ModelInv, ModelTypeOK
    <2> QED BY <1>i, <2>1, <2>2, <2>3, <2>4, <2>5, WorkerOnly
  <1> QED BY <1>1, <1>2, <1>3
-----------------------------------------------------------------------------
LEMMA RetrainKeepsInv ==
    ASSUME ModelInv, NEW w \in Worker,
           ReadVersion(w) \/ TooFewLabels(w) \/ \E q \in Slot : SendChain(w, q)
    PROVE  ModelInv'
  <1> USE ScoringAssumption
  <1>1. CASE ReadVersion(w)
    <2> DEFINE j == [[job[w] EXCEPT !.stage = "train"] EXCEPT !.version = row.version]
    <2>1. w \in Busy /\ job[w] \in Job /\ row.version \in Version /\ row.version \in Int
      BY <1>1, InJob DEF ReadVersion, At, ModelInv, ModelTypeOK, Version
    <2>2. j \in Job /\ j.stage = "train" /\ j.version = row.version
      BY <2>1 DEF Job
    <2>3. JobStands(j)
      BY <2>1, <2>2 DEF JobStands
    <2>4. job' = [job EXCEPT ![w] = j]
      BY <1>1 DEF ReadVersion, ModelInv, ModelTypeOK
    <2> QED BY <1>1, <2>1, <2>2, <2>3, <2>4, JobKeepsInv DEF ReadVersion
  <1>2. CASE TooFewLabels(w)
    <2>1. w \in Busy /\ Ends(w)
      BY <1>2 DEF TooFewLabels, At
    <2>2. UNCHANGED <<row, files, saved, trackVars, queue, bounds, lost>>
      BY <1>2 DEF TooFewLabels
    <2>3. request' \in {"none", "pending", "old"}
      BY <1>2 DEF TooFewLabels, ModelInv, ModelTypeOK
    <2>4. queue' \in [Slot -> {Empty} \cup [message : Message, received : 0..MaxReceives]]
      BY <2>2 DEF ModelInv, ModelTypeOK
    <2> QED BY <2>1, <2>2, <2>3, <2>4, EndKeepsInv
  <1>3. ASSUME NEW q \in Slot, SendChain(w, q) PROVE ModelInv'
    <2>1. w \in Busy /\ job[w] \in Job /\ job[w].stage = "send"
      BY <1>3, InJob DEF SendChain, At, ModelInv
    <2>2. job[w].version \in Version \ {0}
      BY <2>1 DEF ModelInv, JobStands, Job
    <2>3. ScoreStyle(job[w].version, 0) \in Message
      BY <2>2 DEF Message
    <2> QED BY <1>3, <2>1, <2>3, SendKeepsInv DEF SendChain
  <1> QED BY <1>1, <1>2, <1>3

\* A new attempt has a number above every model saved and every key that is stored.
LEMMA PutKeepsInv ==
    ASSUME ModelInv, NEW w \in Worker, PutArtifact(w)
    PROVE  ModelInv'
  <1> USE ScoringAssumption
  <1> DEFINE a == attempts + 1
             j == [[[job[w] EXCEPT !.stage = "save"] EXCEPT !.key = a] EXCEPT !.model = a]
  <1>1. w \in Busy /\ job[w] \in Job /\ job[w].stage = "train"
    BY InJob DEF PutArtifact, At, ModelInv
  <1>2. attempts \in Nat /\ a \in Version /\ attempts' = a /\ a \in 0..MaxAttempts
    BY DEF PutArtifact, Version, ModelInv, ModelTypeOK
  <1>3. j \in Job /\ j.stage = "save" /\ j.version = job[w].version /\ j.key = a /\ j.model = a
    BY <1>1, <1>2 DEF Job
  <1>4. job' = [job EXCEPT ![w] = j]
    BY DEF PutArtifact, ArtifactKey, ModelInv, ModelTypeOK
  <1>5. files' = [files EXCEPT ![a] = a]
    BY DEF PutArtifact, ArtifactKey
  <1>6. UNCHANGED <<row, request, saved, predicted, enough, profiled, unsent, queue, requests, troubles, lost>>
    BY DEF PutArtifact, trackVars
  <1>7. ModelTypeOK'
    <2>1. job' \in [Worker -> {Idle} \cup Job]
      BY <1>3, <1>4 DEF ModelInv, ModelTypeOK
    <2>2. files' \in [Version -> Version]
      BY <1>2, <1>5 DEF ModelInv, ModelTypeOK
    <2>3. attempts' \in 0..MaxAttempts
      BY <1>2
    <2> QED BY <1>6, <2>1, <2>2, <2>3, Zenon DEF ModelInv, ModelTypeOK
  <1>8. FilesStand'
    BY <1>2, <1>5 DEF FilesStand, ModelInv, ModelTypeOK, Version
  <1>9. SavedStand' /\ RowStands' /\ PredictedStand'
    <2>1. row.version \in Nat
      BY DEF ModelInv, ModelTypeOK, Version
    <2>2. \A v \in Version : saved[v] \in Nat
      <3>1. saved \in [Version -> Version]
        BY DEF ModelInv, ModelTypeOK
      <3>2. Version \subseteq Nat
        BY DEF Version
      <3> QED BY <3>1, <3>2
    <2>3. SavedStand'
      BY <1>2, <1>6, <2>2 DEF SavedStand, ModelInv
    <2>4. RowStands'
      BY <1>2, <1>6, <2>1 DEF RowStands, ModelInv
    <2>5. PredictedStand'
      BY <1>6 DEF PredictedStand, ModelInv
    <2> QED BY <2>3, <2>4, <2>5
  <1>10. ASSUME NEW u \in Worker PROVE JobStands(job[u])'
    <2>1. row.version \in Nat /\ row.version <= attempts /\ row' = row /\ saved' = saved
      BY <1>6 DEF ModelInv, ModelTypeOK, Version, RowStands
    <2>2. CASE u = w
      <3>1. job'[u] = j
        BY <1>4, <2>2 DEF ModelInv, ModelTypeOK
      <3>2. job[w].version <= row.version
        BY <1>1 DEF ModelInv, JobStands
      <3>3. /\ job'[u].stage = "save" /\ job'[u].version = job[w].version
            /\ job'[u].key = a /\ job'[u].model = a
        BY <1>3, <3>1
      <3>4. SaveStands(job[u])'
        BY <1>2, <2>1, <3>2, <3>3 DEF SaveStands
      <3> QED BY <3>3, <3>4 DEF JobStands
    <2>3. CASE u # w
      <3>1. job'[u] = job[u] /\ JobStands(job[u])
        BY <1>4, <2>3 DEF ModelInv, ModelTypeOK
      <3>2. ASSUME job[u].stage = "save" PROVE SaveStands(job[u])'
        <4>1. job[u] \in Job /\ SaveStands(job[u])
          BY <3>1, <3>2 DEF JobStands, Idle, ModelInv, ModelTypeOK
        <4> QED BY <1>2, <2>1, <3>1, <4>1 DEF SaveStands, Job, Version
      <3> QED BY <2>1, <3>1, <3>2 DEF JobStands
    <2> QED BY <2>2, <2>3
  <1> QED BY <1>7, <1>8, <1>9, <1>10 DEF ModelInv

\* A save that the row accepts: no track and no worker has seen the new version.
LEMMA SaveKeepsInv ==
    ASSUME ModelInv, NEW w \in Worker, SaveModel(w)
    PROVE  ModelInv'
  <1> USE ScoringAssumption
  <1>1. w \in Busy /\ job[w] \in Job /\ job[w].stage = "save"
    BY InJob DEF SaveModel, At, ModelInv
  <1>2. CASE row.version # job[w].version
    <2>1. Ends(w) /\ UNCHANGED <<row, files, saved, trackVars, bounds, lost>>
      BY <1>2 DEF SaveModel
    <2>2. /\ request' \in {"none", "pending", "old"}
          /\ queue' \in [Slot -> {Empty} \cup [message : Message, received : 0..MaxReceives]]
      BY <1>2 DEF SaveModel, ModelInv, ModelTypeOK
    <2> QED BY <1>1, <2>1, <2>2, EndKeepsInv
  <1>3. CASE row.version = job[w].version
    <2> PICK v : v = row.version
      OBVIOUS
    <2> PICK m : m = job[w].model
      OBVIOUS
    <2> DEFINE b == Blank("send", job[w].slot, job[w].message)
               j == [b EXCEPT !.version = v + 1]
    <2>1. /\ v \in Nat /\ attempts \in Nat /\ v < attempts /\ m <= attempts
          /\ job[w].key = m /\ m \in Version /\ v + 1 \in Version
      <3>1. SaveStands(job[w]) /\ m \in Version /\ attempts \in 0..MaxAttempts /\ v \in Version
        BY <1>1, <1>3 DEF ModelInv, JobStands, Job, ModelTypeOK
      <3> QED BY <1>3, <3>1 DEF SaveStands, Version
    <2>2. /\ row' = [version |-> v + 1, key |-> m, model |-> m]
          /\ saved' = [saved EXCEPT ![v + 1] = m]
          /\ request' = "none"
          /\ UNCHANGED <<files, predicted, enough, profiled, unsent, queue, attempts, requests, troubles, lost>>
      BY <1>3, <2>1 DEF SaveModel, trackVars, bounds
    <2>3. j \in Job /\ j.stage = "send" /\ j.version = v + 1
      <3>1. b \in Job /\ b.stage = "send"
        BY <1>1 DEF Blank, Job, Version
      <3> QED BY <2>1, <3>1 DEF Job
    <2>4. job' = [job EXCEPT ![w] = j]
      BY <1>3 DEF SaveModel
    <2>5. ModelTypeOK'
      <3>1. job' \in [Worker -> {Idle} \cup Job]
        BY <2>3, <2>4 DEF ModelInv, ModelTypeOK
      <3>2. row' \in [version : Version, key : Version, model : Version]
        BY <2>1, <2>2
      <3>3. saved' \in [Version -> Version]
        BY <2>1, <2>2 DEF ModelInv, ModelTypeOK
      <3> QED BY <2>2, <3>1, <3>2, <3>3, Zenon DEF ModelInv, ModelTypeOK
    <2>6. \A x \in Version : saved'[x] = IF x = v + 1 THEN m ELSE saved[x]
      BY <2>2 DEF ModelInv, ModelTypeOK
    <2>7. FilesStand' /\ SavedStand' /\ RowStands'
      <3>1. SavedStand'
        BY <2>1, <2>2, <2>6 DEF SavedStand, ModelInv, Version
      <3>2. RowStands'
        BY <2>1, <2>2, <2>6 DEF RowStands
      <3> QED BY <2>2, <3>1, <3>2 DEF FilesStand, ModelInv
    <2>8. PredictedStand'
      <3>1. ASSUME NEW t \in Track
            PROVE  /\ predicted[t].version <= v + 1 /\ predicted[t].version # v + 1
                   /\ predicted[t].version \in Version
                   /\ predicted[t].model = saved[predicted[t].version]
        <4>1. predicted[t].version \in Version /\ predicted[t].version \in Nat
          BY DEF ModelInv, ModelTypeOK, Version
        <4>2. /\ predicted[t].version <= v
              /\ predicted[t].model = saved[predicted[t].version]
          BY DEF ModelInv, PredictedStand
        <4> QED BY <2>1, <4>1, <4>2
      <3> QED BY <2>2, <2>6, <3>1 DEF PredictedStand
    <2>9. ASSUME NEW u \in Worker PROVE JobStands(job[u])'
      <3>1. CASE u = w
        <4>1. job'[u].stage = "send" /\ job'[u].version = v + 1
          BY <2>3, <2>4, <3>1 DEF ModelInv, ModelTypeOK
        <4> QED BY <2>1, <2>2, <4>1 DEF JobStands
      <3>2. CASE u # w
        <4> PICK r : r = job[u]
          OBVIOUS
        <4>1. job'[u] = r /\ JobStands(r) /\ r \in {Idle} \cup Job
          BY <2>4, <3>2 DEF ModelInv, ModelTypeOK
        <4>2. CASE r = Idle
          BY <4>1, <4>2 DEF Idle, JobStands
        <4>3. CASE r \in Job
          <5>1. r.version \in Version
            BY <4>3 DEF Job
          <5>2. r.stage = "save" => SaveStands(r)'
            BY <2>1, <2>2, <4>1, <5>1 DEF JobStands, SaveStands, Version
          <5>3. r.stage \in {"tracks", "upsert", "next"} =>
                    r.version \in 1..(v + 1) /\ r.key = saved'[r.version]
            <6>1. SUFFICES ASSUME r.stage \in {"tracks", "upsert", "next"}
                           PROVE  r.version \in 1..(v + 1) /\ r.key = saved'[r.version]
              OBVIOUS
            <6>2. r.version \in 1..v /\ r.key = saved[r.version]
              BY <4>1, <6>1 DEF JobStands
            <6> QED BY <2>1, <2>6, <5>1, <6>2
          <5>4. r.stage = "train" => r.version <= v + 1
            BY <2>1, <4>1, <5>1 DEF JobStands, Version
          <5>5. r.stage = "send" => r.version \in 1..(v + 1)
            BY <2>1, <4>1, <5>1 DEF JobStands, Version
          <5>6. r.stage = "next" => r.tracks # {}
            BY <4>1 DEF JobStands
          <5> QED BY <2>2, <4>1, <5>2, <5>3, <5>4, <5>5, <5>6 DEF JobStands
        <4> QED BY <4>1, <4>2, <4>3
      <3> QED BY <3>1, <3>2
    <2> QED BY <2>5, <2>7, <2>8, <2>9 DEF ModelInv
  <1> QED BY <1>2, <1>3
-----------------------------------------------------------------------------
LEMMA ReadKeepsInv ==
    ASSUME ModelInv, NEW w \in Worker,
           CheckModel(w) \/ ReadTracks(w) \/ ReadModels(w)
    PROVE  ModelInv'
  <1> USE ScoringAssumption
  <1>r. /\ row.version \in Version /\ row.key \in Version
        /\ row.key = saved[row.version] /\ row.version \in Nat
    BY DEF ModelInv, RowStands, ModelTypeOK, Version
  <1>1. CASE CheckModel(w)
    <2>1. w \in Busy /\ job[w] \in Job /\ job[w].message.type = "score_style"
      BY <1>1, InJob DEF CheckModel, At, ModelInv
    <2>2. UNCHANGED <<rowVars, trackVars, queue, bounds, lost>>
      BY <1>1 DEF CheckModel
    <2>3. CASE row.version # job[w].message.version
      <3>1. Ends(w) /\ UNCHANGED <<row, files, saved, trackVars, bounds, lost>>
        BY <1>1, <2>3 DEF CheckModel, rowVars
      <3>2. /\ request' \in {"none", "pending", "old"}
            /\ queue' \in [Slot -> {Empty} \cup [message : Message, received : 0..MaxReceives]]
        BY <2>2 DEF rowVars, ModelInv, ModelTypeOK
      <3> QED BY <2>1, <3>1, <3>2, EndKeepsInv
    <2>4. CASE row.version = job[w].message.version
      <3> DEFINE j == [[[job[w] EXCEPT !.stage = "tracks"] EXCEPT !.version = row.version]
                          EXCEPT !.key = row.key]
      <3>1. row.version # 0
        <4>1. job[w].message \in Message
          BY <2>1 DEF Job
        <4> QED BY <2>1, <2>4, <4>1, MessageKinds
      <3>2. j \in Job /\ j.stage = "tracks" /\ j.version = row.version /\ j.key = row.key
        BY <1>r, <2>1 DEF Job
      <3>3. JobStands(j)
        BY <1>r, <3>1, <3>2 DEF JobStands
      <3>4. job' = [job EXCEPT ![w] = j]
        BY <1>1, <2>4 DEF CheckModel, ModelInv, ModelTypeOK
      <3> QED BY <2>1, <2>2, <3>2, <3>3, <3>4, JobKeepsInv
    <2> QED BY <2>3, <2>4
  <1>2. CASE ReadTracks(w)
    <2> DEFINE page == PageAfter(job[w].message.after)
               j == [[job[w] EXCEPT !.stage = "upsert"] EXCEPT !.tracks = page]
    <2>1. w \in Busy /\ job[w] \in Job /\ job[w].stage = "tracks"
      BY <1>2, InJob DEF ReadTracks, At, ModelInv
    <2>2. page \in SUBSET Track
      BY DEF PageAfter, ModelInv, ModelTypeOK
    <2> HIDE DEF page
    <2>3. j \in Job /\ j.stage = "upsert" /\ j.version = job[w].version /\ j.key = job[w].key
      BY <2>1, <2>2 DEF Job
    <2>4. JobStands(j)
      BY <2>1, <2>3 DEF JobStands, ModelInv
    <2>5. job' = [job EXCEPT ![w] = j]
      BY <1>2 DEF ReadTracks, ModelInv, ModelTypeOK, page
    <2>6. UNCHANGED <<rowVars, trackVars, queue, bounds, lost>>
      BY <1>2 DEF ReadTracks
    <2> QED BY <2>1, <2>3, <2>4, <2>5, <2>6, JobKeepsInv
  <1>3. CASE ReadModels(w)
    <2>1. w \in Busy /\ job[w] \in Job /\ job[w].message.type = "score"
      BY <1>3, InJob DEF ReadModels, At, ModelInv
    <2>2. UNCHANGED <<rowVars, trackVars, queue, bounds, lost>>
      BY <1>3 DEF ReadModels
    <2>3. CASE ~(row.version > 0)
      <3>1. Ends(w) /\ UNCHANGED <<row, files, saved, trackVars, bounds, lost>>
        BY <1>3, <2>3 DEF ReadModels, rowVars
      <3>2. /\ request' \in {"none", "pending", "old"}
            /\ queue' \in [Slot -> {Empty} \cup [message : Message, received : 0..MaxReceives]]
        BY <2>2 DEF rowVars, ModelInv, ModelTypeOK
      <3> QED BY <2>1, <3>1, <3>2, EndKeepsInv
    <2>4. CASE row.version > 0
      <3> DEFINE b == Blank("upsert", job[w].slot, job[w].message)
                 j == [[[b EXCEPT !.version = row.version] EXCEPT !.key = row.key]
                         EXCEPT !.tracks = {job[w].message.track}]
      <3>1. {job[w].message.track} \in SUBSET Track
        <4>1. job[w].message \in Message
          BY <2>1 DEF Job
        <4> QED BY <2>1, <4>1, MessageKinds
      <3>2. j \in Job /\ j.stage = "upsert" /\ j.version = row.version /\ j.key = row.key
        <4>1. b \in Job /\ b.stage = "upsert"
          BY <2>1 DEF Blank, Job, Version
        <4> HIDE DEF b
        <4> QED BY <1>r, <3>1, <4>1 DEF Job
      <3>3. JobStands(j)
        BY <1>r, <2>4, <3>2 DEF JobStands
      <3>4. job' = [job EXCEPT ![w] = j]
        BY <1>3, <2>4 DEF ReadModels
      <3> QED BY <2>1, <2>2, <3>2, <3>3, <3>4, JobKeepsInv
    <2> QED BY <2>3, <2>4
  <1> QED BY <1>1, <1>2, <1>3

LEMMA SendNextKeepsInv ==
    ASSUME ModelInv, NEW w \in Worker, NEW q \in Slot, SendNext(w, q)
    PROVE  ModelInv'
  <1> USE ScoringAssumption
  <1>1. w \in Busy /\ job[w] \in Job /\ job[w].stage = "next"
    BY InJob DEF SendNext, ModelInv
  <1>2. job[w].version \in Version \ {0} /\ job[w].tracks # {} /\ job[w].tracks \in SUBSET Track
    BY <1>1 DEF ModelInv, JobStands, Job
  <1>3. LastTrack(w) \in 0..Tracks
    BY <1>2, LastIsTrack DEF LastTrack, Track
  <1>4. ScoreStyle(job[w].version, LastTrack(w)) \in Message
    BY <1>2, <1>3 DEF Message
  <1> QED BY <1>1, <1>4, SendKeepsInv DEF SendNext

\* The worker writes the model of the file it read the key of, which still is the model of
\* the version it writes.
LEMMA UpsertKeepsInv ==
    ASSUME ModelInv, NEW w \in Worker, Upsert(w)
    PROVE  ModelInv'
  <1> USE ScoringAssumption
  <1> PICK v : v = job[w].version
    OBVIOUS
  <1>1. /\ w \in Busy /\ job[w] \in Job /\ job[w].stage = "upsert"
        /\ v \in Version /\ v \in 1..row.version /\ job[w].key = saved[v] /\ row.version \in Nat
    <2>1. w \in Busy /\ job[w] \in Job /\ job[w].stage = "upsert"
      BY InJob DEF Upsert, ModelInv
    <2>2. v \in 1..row.version /\ job[w].key = saved[v]
      BY <2>1 DEF ModelInv, JobStands
    <2>3. v \in Version /\ row.version \in Nat
      BY <2>1 DEF Job, ModelInv, ModelTypeOK, Version
    <2> QED BY <2>1, <2>2, <2>3
  <1>2. files[job[w].key] = saved[v] /\ saved[v] \in Version
    <2>1. saved[v] \in Version /\ saved[v] <= attempts
      BY <1>1 DEF ModelInv, SavedStand, ModelTypeOK
    <2> QED BY <1>1, <2>1 DEF ModelInv, FilesStand, Version
  <1>3. UNCHANGED <<row, files, saved, request, profiled, unsent, enough, queue, bounds, lost>>
    BY DEF Upsert, rowVars
  <1>4. \A t \in Track : \/ predicted'[t] = predicted[t]
                         \/ predicted'[t] = [version |-> v, model |-> saved[v]]
    <2>1. predicted' = [t \in Track |->
                            IF t \in Written(w)
                            THEN [version |-> job[w].version, model |-> files[job[w].key]]
                            ELSE predicted[t]]
      BY DEF Upsert
    <2>2. [version |-> job[w].version, model |-> files[job[w].key]] = [version |-> v, model |-> saved[v]]
      BY <1>2
    <2>3. ASSUME NEW t \in Track
          PROVE  \/ predicted'[t] = predicted[t]
                 \/ predicted'[t] = [version |-> job[w].version, model |-> files[job[w].key]]
      BY <2>1, Zenon
    <2> QED BY <2>2, <2>3, Zenon
  <1>5. predicted' \in [Track -> [version : Version, model : Version]]
    <2>1. predicted' = [t \in Track |-> predicted'[t]]
      BY DEF Upsert
    <2>2. [version |-> v, model |-> saved[v]] \in [version : Version, model : Version]
      BY <1>1, <1>2
    <2>3. \A t \in Track : predicted[t] \in [version : Version, model : Version]
      BY DEF ModelInv, ModelTypeOK
    <2>4. ASSUME NEW t \in Track
          PROVE  predicted'[t] \in [version : Version, model : Version]
      BY <1>4, <2>2, <2>3, Zenon
    <2> QED BY <2>1, <2>4
  <1>6. PICK j \in Job : JobStands(j) /\ job' = [job EXCEPT ![w] = j]
    <2>1. CASE Ends(w)
      BY <1>1, <2>1, EndedJob DEF ModelInv
    <2>2. CASE /\ Cardinality(job[w].tracks) = Page
               /\ job' = [job EXCEPT ![w].stage = "next"]
      <3> DEFINE j == [job[w] EXCEPT !.stage = "next"]
      <3>1. /\ j \in Job /\ j.stage = "next" /\ j.version = v /\ j.key = job[w].key
            /\ j.tracks = job[w].tracks
        BY <1>1 DEF Job
      <3>2. job[w].tracks # {}
        BY <2>2, FS_EmptySet
      <3>3. JobStands(j)
        BY <1>1, <3>1, <3>2 DEF JobStands
      <3>4. job' = [job EXCEPT ![w] = j]
        BY <2>2
      <3> QED BY <3>1, <3>3, <3>4
    <2> QED BY <2>1, <2>2 DEF Upsert
  <1>7. ModelTypeOK'
    <2>1. job' \in [Worker -> {Idle} \cup Job]
      BY <1>6 DEF ModelInv, ModelTypeOK
    <2> QED BY <1>3, <1>5, <2>1, Zenon DEF bounds, ModelInv, ModelTypeOK
  <1>8. FilesStand' /\ SavedStand' /\ RowStands'
    BY <1>3 DEF bounds, FilesStand, SavedStand, RowStands, ModelInv
  <1>9. PredictedStand'
    BY <1>1, <1>3, <1>4 DEF PredictedStand, ModelInv
  <1>10. ASSUME NEW u \in Worker PROVE JobStands(job[u])'
    <2>1. JobStands(job'[u])
      BY <1>6 DEF ModelInv, ModelTypeOK
    <2> QED BY <1>3, <2>1 DEF bounds, JobStands, SaveStands
  <1> QED BY <1>7, <1>8, <1>9, <1>10 DEF ModelInv
-----------------------------------------------------------------------------
LEMMA ModelInvStep == ModelInv /\ [Next]_vars => ModelInv'
  <1> SUFFICES ASSUME ModelInv, [Next]_vars PROVE ModelInv'
    OBVIOUS
  <1>1. CASE RequestAges \/ LabelsGrow
    BY <1>1, ApiKeepsInv
  <1>2. CASE \E q \in Slot : RequestRetrain(q)
    BY <1>2, ApiKeepsInv
  <1>3. CASE \E t \in Track : RecordProfile(t) \/ \E q \in Slot : SendScore(t, q)
    BY <1>3, ApiKeepsInv
  <1>4. ASSUME NEW w \in Worker, WorkerStep(w) PROVE ModelInv'
    <2>1. CASE ReadVersion(w) \/ TooFewLabels(w) \/ \E q \in Slot : SendChain(w, q)
      BY <2>1, RetrainKeepsInv
    <2>2. CASE PutArtifact(w) \/ SaveModel(w) \/ Upsert(w)
      BY <2>2, PutKeepsInv, SaveKeepsInv, UpsertKeepsInv
    <2>3. CASE CheckModel(w) \/ ReadTracks(w) \/ ReadModels(w)
      BY <2>3, ReadKeepsInv
    <2>4. CASE \E q \in Slot : SendNext(w, q)
      BY <2>4, SendNextKeepsInv
    <2>5. CASE DeleteMessage(w) \/ WorkerFails(w) \/ \E q \in Slot : Receive(w, q)
      BY <2>5, DeliveryKeepsInv
    <2> QED BY <1>4, <2>1, <2>2, <2>3, <2>4, <2>5 DEF WorkerStep
  <1>5. CASE UNCHANGED vars
    <2>1. UNCHANGED <<row, files, saved, attempts, job, predicted>>
      BY <1>5 DEF vars, rowVars, trackVars, bounds
    <2>2. ModelTypeOK'
      BY <1>5, Zenon DEF vars, rowVars, trackVars, bounds, ModelInv, ModelTypeOK
    <2> QED BY <2>1, <2>2, StillStands DEF ModelInv
  <1> QED BY <1>1, <1>2, <1>3, <1>4, <1>5 DEF Next

LEMMA ModelInvAlways == Spec => []ModelInv
  BY ModelInvInit, ModelInvStep, PTL DEF Spec

\* Every variable keeps its type, whatever order the messages are worked in.
THEOREM ModelTypeCorrect == Spec => []ModelTypeOK
  <1>1. ModelInv => ModelTypeOK
    BY DEF ModelInv
  <1> QED BY <1>1, ModelInvAlways, PTL

\* For any number of tracks, workers, messages and deliveries: the row shows the numbers of
\* the model in the file it names, and a score is of the model saved under its version.
THEOREM ScoresAreOfTheirModel == Spec => []ScoresOfTheirModel
  <1>1. ModelInv => ScoresOfTheirModel
    <2>1. SUFFICES ASSUME ModelInv PROVE files[row.key] = row.model
      BY DEF ModelInv, PredictedStand, ScoresOfTheirModel
    <2>2. row.version \in Version /\ row.key = saved[row.version] /\ row.key = row.model
      BY <2>1 DEF ModelInv, RowStands, ModelTypeOK
    <2>3. row.key <= attempts /\ row.key \in Nat
      <3>1. row.key <= attempts
        BY <2>1, <2>2 DEF ModelInv, SavedStand
      <3>2. row.key \in Version
        BY <2>1 DEF ModelInv, ModelTypeOK
      <3> QED BY <3>1, <3>2 DEF Version
    <2>4. row.key \in 0..attempts
      BY <2>1, <2>3 DEF ModelInv, ModelTypeOK
    <2> QED BY <2>1, <2>2, <2>4 DEF ModelInv, FilesStand
  <1> QED BY <1>1, ModelInvAlways, PTL
-----------------------------------------------------------------------------
\* What the tracks of a page count to.
LEMMA SmallSets ==
    ASSUME NEW S \in SUBSET Track
    PROVE  IsFiniteSet(S) /\ Cardinality(S) \in Nat
  <1>1. IsFiniteSet(Track)
    BY ScoringAssumption, FS_Interval DEF Track
  <1> QED BY <1>1, FS_Subset, FS_CardinalityType

\* A profiled track after the page begins that is not on it lies beyond a full page.
LEMMA PageReaches ==
    ASSUME ModelTypeOK, NEW a \in 0..Tracks, NEW t \in profiled, a < t, t \notin PageAfter(a)
    PROVE  Cardinality(PageAfter(a)) = Page /\ Max(PageAfter(a)) < t
  <1> USE ScoringAssumption
  <1> DEFINE B(u) == {x \in profiled : a < x /\ x < u}
             D == {u \in profiled : a < u /\ ~(Cardinality(B(u)) < Page)}
  <1>1. profiled \in SUBSET Track /\ \A x \in profiled : x \in Nat
    BY DEF ModelTypeOK, Track
  <1>2. t \in D /\ D \subseteq Nat
    BY <1>1 DEF PageAfter
  <1>3. PICK e \in D : \A x \in D : ~(<<x, e>> \in OpToRel(<, Nat))
    BY <1>2, NatLessThanWellFounded, WFMin, Zenon
  <1>4. \A x \in D : ~(x < e)
    BY <1>2, <1>3 DEF OpToRel
  <1>5. e \in profiled /\ a < e /\ ~(Cardinality(B(e)) < Page) /\ e <= t
    <2>1. ~(t < e)
      BY <1>2, <1>4
    <2> QED BY <1>1, <2>1
  <1>6. \A u \in profiled : B(u) \in SUBSET Track /\ IsFiniteSet(B(u)) /\ Cardinality(B(u)) \in Nat
    BY <1>1, SmallSets
  <1>7. \A x \in profiled : a < x /\ x < e => Cardinality(B(x)) < Page
    BY <1>4
  <1>8. Cardinality(B(e)) >= Page /\ Cardinality(B(e)) \in Nat
    <2> HIDE DEF B
    <2> QED BY <1>5, <1>6
  <1>9. B(e) # {}
    BY <1>8, FS_EmptySet
  <1>10. PICK m : m = Max(B(e))
    OBVIOUS
  <1>11. m \in B(e) /\ \A u \in B(e) : u <= m
    BY <1>5, <1>6, <1>9, <1>10, LastIsTrack
  <1>12. Cardinality(B(e)) = Page
    <2>1. B(e) = B(m) \cup {m} /\ m \notin B(m)
      BY <1>1, <1>5, <1>11
    <2>2. m \in profiled /\ Cardinality(B(m)) < Page
      BY <1>7, <1>11
    <2>3. IsFiniteSet(B(m)) /\ Cardinality(B(m)) \in Nat
      BY <1>6, <2>2
    <2>4. Cardinality(B(m) \cup {m}) = Cardinality(B(m)) + 1
      BY <2>1, <2>3, FS_AddElement
    <2>5. Cardinality(B(e)) = Cardinality(B(m)) + 1
      BY <2>1, <2>4, Zenon
    <2> HIDE DEF B
    <2> QED BY <1>8, <2>2, <2>3, <2>5
  <1>13. PageAfter(a) = B(e)
    <2>1. ASSUME NEW x \in profiled, a < x, x < e PROVE x \in PageAfter(a)
      BY <1>7, <2>1 DEF PageAfter
    <2>2. ASSUME NEW x \in profiled, a < x, ~(x < e) PROVE ~(Cardinality(B(x)) < Page)
      <3>1. B(e) \subseteq B(x)
        BY <1>1, <1>5, <2>2
      <3>2. Cardinality(B(e)) <= Cardinality(B(x))
        BY <1>6, <3>1, FS_Subset
      <3> HIDE DEF B
      <3> QED BY <1>6, <1>12, <3>2
    <2>3. \A x \in PageAfter(a) : x \in profiled /\ a < x /\ Cardinality(B(x)) < Page
      BY DEF PageAfter
    <2> QED BY <2>1, <2>2, <2>3
  <1>14. m < t
    BY <1>1, <1>5, <1>11
  <1> HIDE DEF B
  <1> QED BY <1>10, <1>12, <1>13, <1>14

-----------------------------------------------------------------------------
(* Why no track is forgotten: while a profiled track of a trained style     *)
(* lacks the suggestion of the current model, a message or a worker still   *)
(* leads to it, and whatever that one does next either writes the           *)
(* suggestion or hands the track on.                                        *)

\* What a message asks of whoever receives it while version v is current.
Asks(m, v, t) ==
    \/ m.type = "retrain"
    \/ m.type = "score_style" /\ m.version = v /\ m.after < t
    \/ m.type = "score" /\ m.track = t

\* A job that leads to the suggestion of version v for t, or to a newer version.
SeesTo(j, v, t) ==
    \/ j.stage = "start" /\ Asks(j.message, v, t)
    \/ /\ j.message.type = "retrain" /\ j.version = v
       /\ j.stage \in {"train", "save", "send"}
    \/ /\ j.message.type = "score_style" /\ j.version = v
       /\ \/ j.stage = "tracks" /\ j.message.after < t
          \/ j.stage = "upsert" /\ t \in j.tracks
          \/ j.stage = "upsert" /\ Cardinality(j.tracks) = Page /\ Max(j.tracks) < t
          \/ j.stage = "next" /\ Max(j.tracks) < t
    \/ /\ j.message.type = "score" /\ j.version = v
       /\ j.stage = "upsert" /\ j.message.track = t

\* A message that would lead to t, were it received (again) when every delivery of it fails.
Waits(q, v, t) ==
    /\ queue[q] # Empty /\ Asks(queue[q].message, v, t)
    /\ \A w \in Worker : Holds(w, q) => SeesTo(job[w], v, t)

Covered(t) ==
    \/ predicted[t].version = row.version
    \/ t \in unsent
    \/ \E w \in Busy : SeesTo(job[w], row.version, t)
    \/ \E q \in Slot : Waits(q, row.version, t)

NoTrackForgotten == lost \/ row.version = 0 \/ \A t \in profiled : Covered(t)

\* A page holds tracks after the one its message names, for the version the message names.
PageStands(j) ==
    /\ j.stage \in {"tracks", "upsert", "next"} /\ j.message.type = "score_style" =>
         j.version = j.message.version
    /\ j.stage \in {"upsert", "next"} /\ j.message.type = "score_style" =>
         \A u \in j.tracks : j.message.after < u
    /\ j.stage = "upsert" /\ j.message.type = "score" => j.tracks = {j.message.track}

OneMessage ==
    \A w \in Busy : queue[job[w].slot] # Empty => queue[job[w].slot].message = job[w].message

\* Nothing is trained before there are labels enough.
Taught == (row.version > 0 \/ \E w \in Busy : job[w].stage = "save") => enough

Hands == (\A w \in Busy : PageStands(job[w])) /\ OneMessage /\ Taught

LEMMA NoneForgottenInit == Init => Hands /\ NoTrackForgotten
  <1> SUFFICES ASSUME Init PROVE Hands /\ NoTrackForgotten
    OBVIOUS
  <1>1. Busy = {} /\ row.version = 0
    BY DEF Init, Busy, Idle
  <1> QED BY <1>1 DEF Hands, OneMessage, Taught, NoTrackForgotten

\* What a job sees to, its message still asks: the delivery may fail and be made again.
LEMMA SeesAsks ==
    ASSUME NEW j \in Job, JobStands(j), PageStands(j), NEW v, NEW t \in Track, SeesTo(j, v, t)
    PROVE  Asks(j.message, v, t)
  <1> USE ScoringAssumption
  <1>1. CASE j.stage = "start" \/ j.message.type = "retrain"
    BY <1>1 DEF SeesTo, Asks
  <1>2. CASE j.message.type = "score" /\ j.stage = "upsert"
    BY <1>2 DEF SeesTo, Asks
  <1>3. CASE j.message.type = "score_style" /\ j.stage # "start"
    <2>1. j.stage \in {"tracks", "upsert", "next"} /\ j.version = v
      BY <1>3 DEF SeesTo
    <2>2. /\ j.message.version = v
          /\ j.stage # "tracks" => \A u \in j.tracks : j.message.after < u
      BY <1>3, <2>1 DEF PageStands
    <2>3. j.message.after \in 0..Tracks /\ j.tracks \in SUBSET Track
      BY <1>3, MessageKinds DEF Job
    <2>4. ASSUME j.stage # "tracks", j.tracks # {}, Max(j.tracks) < t PROVE j.message.after < t
      BY <2>2, <2>3, <2>4, LastIsTrack DEF Track
    <2>5. j.stage = "next" => j.tracks # {}
      BY DEF JobStands
    <2>6. Cardinality(j.tracks) = Page => j.tracks # {}
      BY FS_EmptySet
    <2>7. j.message.after < t
      <3>1. \/ j.stage = "tracks" /\ j.message.after < t
            \/ j.stage = "upsert" /\ t \in j.tracks
            \/ j.stage = "upsert" /\ Cardinality(j.tracks) = Page /\ Max(j.tracks) < t
            \/ j.stage = "next" /\ Max(j.tracks) < t
        BY <1>3, <2>1 DEF SeesTo, Asks
      <3> QED BY <2>2, <2>4, <2>5, <2>6, <3>1
    <2> QED BY <1>3, <2>2, <2>7 DEF Asks
  <1> QED BY <1>1, <1>2, <1>3 DEF SeesTo
-----------------------------------------------------------------------------
\* A worker goes on within its job, and the tracks it saw to it still does, or has written.
LEMMA CoverMoves ==
    ASSUME ModelTypeOK, NEW w \in Busy, NEW j, j.stage # "idle", j.slot = job[w].slot,
           job' = [job EXCEPT ![w] = j],
           UNCHANGED <<row, queue, unsent>>, NEW t \in profiled, Covered(t),
           predicted[t].version = row.version => predicted'[t].version = row.version,
           SeesTo(job[w], row.version, t) =>
               SeesTo(j, row.version, t) \/ predicted'[t].version = row.version
    PROVE  Covered(t)'
  <1> PICK v : v = row.version
    OBVIOUS
  <1>1. w \in Worker /\ job'[w] = j /\ \A u \in Worker \ {w} : job'[u] = job[u]
    BY DEF Busy, ModelTypeOK
  <1>2. Busy' = Busy
    BY <1>1 DEF Busy
  <1>3. \A u \in Worker, q \in Slot : Holds(u, q)' <=> Holds(u, q)
    BY <1>1, <1>2 DEF Holds
  <1>4. CASE SeesTo(job[w], v, t)
    <2>1. CASE predicted'[t].version = v
      BY <2>1 DEF Covered
    <2>2. CASE SeesTo(j, v, t)
      BY <1>1, <1>2, <2>2 DEF Covered
    <2> QED BY <1>4, <2>1, <2>2
  <1>5. ASSUME NEW u \in Busy, SeesTo(job[u], v, t), ~SeesTo(job[w], v, t)
        PROVE  Covered(t)'
    <2>1. u \in Worker \ {w}
      BY <1>5 DEF Busy
    <2>2. job'[u] = job[u]
      BY <1>1, <2>1
    <2> QED BY <1>2, <1>5, <2>2 DEF Covered
  <1>6. ASSUME NEW q \in Slot, Waits(q, v, t), ~SeesTo(job[w], v, t)
        PROVE  Covered(t)'
    <2>1. ASSUME NEW u \in Worker, Holds(u, q)' PROVE SeesTo(job'[u], v, t)
      <3>1. Holds(u, q) /\ SeesTo(job[u], v, t)
        BY <1>3, <1>6, <2>1 DEF Waits
      <3>2. u # w
        BY <1>6, <3>1
      <3> QED BY <1>1, <3>1, <3>2
    <2>2. Waits(q, v, t)'
      BY <1>6, <2>1 DEF Waits
    <2> QED BY <2>2 DEF Covered
  <1>7. CASE predicted[t].version = v \/ t \in unsent
    BY <1>7 DEF Covered
  <1> QED BY <1>4, <1>5, <1>6, <1>7 DEF Covered

\* A message goes into a free slot, from a worker that ends or from the API.
LEMMA CoverSends ==
    ASSUME ModelTypeOK, NEW q \in Slot, NEW m, Send(q, m),
           UNCHANGED <<row, predicted>>, NEW t, Covered(t),
           t \in unsent => t \in unsent' \/ Asks(m, row.version, t),
           \/ UNCHANGED job
           \/ \E w \in Busy : /\ Ends(w)
                              /\ SeesTo(job[w], row.version, t) => Asks(m, row.version, t)
    PROVE  Covered(t)'
  <1> PICK v : v = row.version
    OBVIOUS
  <1>1. queue' = [queue EXCEPT ![q] = [message |-> m, received |-> 0]] /\ Free(q)
    BY DEF Send
  <1>2. /\ queue'[q] = [message |-> m, received |-> 0]
        /\ \A p \in Slot \ {q} : queue'[p] = queue[p]
    BY <1>1 DEF ModelTypeOK
  <1>3. Busy' = Busy /\ \A u \in Busy : job'[u].slot = job[u].slot
    <2>1. CASE UNCHANGED job
      BY <2>1 DEF Busy
    <2>2. ASSUME NEW w \in Busy, Ends(w)
          PROVE  Busy' = Busy /\ \A u \in Busy : job'[u].slot = job[u].slot
      BY <2>2 DEF Ends, Blank, Busy, ModelTypeOK
    <2> QED BY <2>1, <2>2
  <1>4. \A u \in Worker, p \in Slot : Holds(u, p)' <=> Holds(u, p)
    BY <1>3 DEF Holds
  <1>5. \A u \in Worker : ~Holds(u, q)'
    BY <1>1, <1>4 DEF Free
  <1>6. CASE Asks(m, v, t)
    <2>1. queue'[q] # Empty
      <3>1. m # [type |-> "none"]
        <4>1. [type |-> "none"].type = "none"
          OBVIOUS
        <4> QED BY <1>6, <4>1 DEF Asks
      <3>2. queue'[q].message = m /\ Empty.message = [type |-> "none"]
        BY <1>2 DEF Empty
      <3> QED BY <3>1, <3>2
    <2>2. Asks(queue'[q].message, v, t)
      BY <1>2, <1>6
    <2>3. Waits(q, v, t)'
      BY <1>5, <2>1, <2>2 DEF Waits
    <2> QED BY <2>3 DEF Covered
  <1>7. ASSUME ~Asks(m, v, t), NEW u \in Busy, SeesTo(job[u], v, t)
        PROVE  u \in Busy' /\ SeesTo(job'[u], v, t)
    <2>1. CASE UNCHANGED job
      BY <1>3, <1>7, <2>1
    <2>2. ASSUME NEW w \in Busy, Ends(w), SeesTo(job[w], v, t) => Asks(m, v, t)
          PROVE  job'[u] = job[u]
      <3>1. u # w /\ u \in Worker
        BY <1>7, <2>2 DEF Busy
      <3> QED BY <2>2, <3>1 DEF Ends, ModelTypeOK
    <2> QED BY <1>3, <1>7, <2>1, <2>2
  <1>8. ASSUME ~Asks(m, v, t), NEW p \in Slot, Waits(p, v, t)
        PROVE  Covered(t)'
    <2>1. p # q
      BY <1>1, <1>8 DEF Waits, Free
    <2>2. queue'[p] = queue[p]
      BY <1>2, <2>1
    <2>3. ASSUME NEW u \in Worker, Holds(u, p)' PROVE SeesTo(job'[u], v, t)
      <3>1. Holds(u, p) /\ SeesTo(job[u], v, t) /\ u \in Busy
        BY <1>4, <1>8, <2>3 DEF Waits, Holds
      <3> QED BY <1>7, <1>8, <3>1
    <2>4. Waits(p, v, t)'
      BY <1>8, <2>2, <2>3 DEF Waits
    <2> QED BY <2>4 DEF Covered
  <1>9. CASE predicted[t].version = v \/ (t \in unsent /\ ~Asks(m, v, t))
    BY <1>9 DEF Covered
  <1>10. ASSUME ~Asks(m, v, t), NEW u \in Busy, SeesTo(job[u], v, t)
         PROVE  Covered(t)'
    BY <1>7, <1>10 DEF Covered
  <1> QED BY <1>6, <1>8, <1>9, <1>10 DEF Covered
-----------------------------------------------------------------------------
\* Steps of one worker within its job keep what the workers hold.
LEMMA HandsMove ==
    ASSUME ModelTypeOK, Hands, NEW w \in Busy, NEW j \in Job, PageStands(j),
           j.stage # "idle", j.slot = job[w].slot, j.message = job[w].message,
           job' = [job EXCEPT ![w] = j], UNCHANGED enough,
           row' = row \/ enough, j.stage = "save" => enough,
           \A q \in Slot : queue'[q] = queue[q] \/ queue'[q] = Empty \/ Free(q)
    PROVE  Hands'
  <1>1. w \in Worker /\ job'[w] = j /\ \A u \in Worker \ {w} : job'[u] = job[u]
    BY DEF Busy, ModelTypeOK
  <1>2. Busy' = Busy
    BY <1>1 DEF Busy
  <1>3. ASSUME NEW u \in Busy
        PROVE  /\ PageStands(job'[u])
               /\ job'[u].slot = job[u].slot /\ job'[u].message = job[u].message
               /\ job'[u].stage = "save" => job[u].stage = "save" \/ enough
               /\ u \in Worker /\ job[u].slot \in Slot
    <2>1. u \in Worker /\ job[u].slot \in Slot
      BY InJob DEF Job
    <2>2. CASE u = w
      BY <1>1, <2>1, <2>2
    <2>3. CASE u # w
      <3>1. job'[u] = job[u]
        BY <1>1, <2>1, <2>3
      <3> QED BY <2>1, <3>1 DEF Hands
    <2> QED BY <2>2, <2>3
  <1>4. (\A u \in Busy : PageStands(job[u]))'
    BY <1>2, <1>3 DEF PageStands
  <1>5. OneMessage'
    <2>1. ASSUME NEW u \in Busy, queue'[job'[u].slot] # Empty
          PROVE  queue'[job'[u].slot].message = job'[u].message
      <3>1. ~Free(job[u].slot)
        BY <1>3 DEF Free, Holds
      <3>2. queue'[job[u].slot] = queue[job[u].slot]
        BY <1>3, <2>1, <3>1
      <3> QED BY <1>3, <2>1, <3>2 DEF Hands, OneMessage
    <2> QED BY <1>2, <2>1 DEF OneMessage
  <1>6. Taught'
    BY <1>2, <1>3 DEF Taught, Hands
  <1> QED BY <1>4, <1>5, <1>6 DEF Hands

\* A message sent to a free slot is in no worker's hands.
LEMMA HandsStay ==
    ASSUME ModelTypeOK, Hands, UNCHANGED <<row, enough, job>>,
           UNCHANGED queue \/ \E q \in Slot : \E m : Send(q, m)
    PROVE  Hands'
  <1>1. CASE UNCHANGED queue
    BY <1>1 DEF Hands, OneMessage, Taught, PageStands, Busy
  <1>2. ASSUME NEW q \in Slot, NEW m, Send(q, m) PROVE Hands'
    <2>1. ASSUME NEW u \in Busy PROVE queue'[job[u].slot] = queue[job[u].slot]
      <3>1. job[u].slot # q /\ job[u].slot \in Slot
        BY <1>2, InJob DEF Send, Free, Holds, Job
      <3> QED BY <1>2, <3>1 DEF Send, ModelTypeOK
    <2> QED BY <2>1 DEF Hands, OneMessage, Taught, PageStands, Busy
  <1> QED BY <1>1, <1>2

LEMMA BlankPage ==
    ASSUME NEW q, NEW m, NEW stage \in {"start", "done"}
    PROVE  PageStands(Blank(stage, q, m)) /\ ~(Blank(stage, q, m).stage \in {"idle", "save"})
  BY DEF Blank, PageStands

\* A worker that ends keeps the hands, whatever it has written.
LEMMA HandsEnd ==
    ASSUME ModelTypeOK, Hands, NEW w \in Busy, Ends(w), UNCHANGED <<row, enough>>,
           \A q \in Slot : queue'[q] = queue[q] \/ queue'[q] = Empty \/ Free(q)
    PROVE  Hands'
  <1> PICK j : j = Blank("done", job[w].slot, job[w].message)
    OBVIOUS
  <1>1. job[w].slot \in Slot /\ job[w].message \in Message
    BY InJob DEF Job
  <1>2. j \in Job /\ PageStands(j) /\ j.stage # "idle" /\ j.stage # "save"
    BY <1>1, BlankJob, BlankPage
  <1>3. j.slot = job[w].slot /\ j.message = job[w].message
    BY DEF Blank
  <1>4. job' = [job EXCEPT ![w] = j]
    BY DEF Ends
  <1> QED BY <1>2, <1>3, <1>4, HandsMove

\* Ending is enough only where the job led nowhere, or has written what it saw to.
LEMMA CoverEnds ==
    ASSUME ModelTypeOK, NEW w \in Busy, Ends(w), UNCHANGED <<row, queue, unsent>>,
           NEW t \in profiled, Covered(t),
           predicted[t].version = row.version => predicted'[t].version = row.version,
           SeesTo(job[w], row.version, t) => predicted'[t].version = row.version
    PROVE  Covered(t)'
  <1> PICK j : j = Blank("done", job[w].slot, job[w].message)
    OBVIOUS
  <1>1. j.stage # "idle" /\ j.slot = job[w].slot
    BY DEF Blank
  <1>2. job' = [job EXCEPT ![w] = j]
    BY DEF Ends
  <1> QED BY <1>1, <1>2, CoverMoves

LEMMA ApiForgetsNone ==
    ASSUME ModelInv, Hands, NoTrackForgotten,
           \/ RequestAges \/ LabelsGrow
           \/ \E q \in Slot : RequestRetrain(q)
           \/ \E t \in Track : RecordProfile(t) \/ \E q \in Slot : SendScore(t, q)
    PROVE  Hands' /\ NoTrackForgotten'
  <1>t. ModelTypeOK
    BY DEF ModelInv
  <1>1. CASE RequestAges \/ LabelsGrow
    <2>1. /\ UNCHANGED <<row, predicted, profiled, unsent, queue, job, lost>>
          /\ enough => enough'
      <3>1. CASE RequestAges
        BY <3>1 DEF RequestAges, trackVars
      <3>2. CASE LabelsGrow
        BY <3>2 DEF LabelsGrow, rowVars
      <3> QED BY <1>1, <3>1, <3>2
    <2>2. \A t : Covered(t)' <=> Covered(t)
      BY <2>1 DEF Covered, Waits, Holds, Busy
    <2>3. Hands'
      BY <2>1 DEF Hands, OneMessage, Taught, PageStands, Busy
    <2> QED BY <2>1, <2>2, <2>3 DEF NoTrackForgotten
  <1>2. ASSUME NEW q \in Slot, RequestRetrain(q) PROVE Hands' /\ NoTrackForgotten'
    <2>1. UNCHANGED <<row, predicted, profiled, unsent, enough, job, lost>>
      BY <1>2 DEF RequestRetrain, trackVars
    <2>2. Send(q, Retrain) \/ UNCHANGED queue
      BY <1>2 DEF RequestRetrain
    <2>3. Hands'
      BY <1>t, <2>1, <2>2, HandsStay
    <2>4. ASSUME NEW t \in profiled, Covered(t) PROVE Covered(t)'
      <3>1. CASE Send(q, Retrain)
        BY <1>t, <2>1, <2>4, <3>1, CoverSends
      <3>2. CASE UNCHANGED queue
        BY <2>1, <2>4, <3>2 DEF Covered, Waits, Holds, Busy
      <3> QED BY <2>2, <3>1, <3>2
    <2> QED BY <2>1, <2>3, <2>4 DEF NoTrackForgotten
  <1>3. ASSUME NEW t \in Track, RecordProfile(t) PROVE Hands' /\ NoTrackForgotten'
    <2>1. /\ UNCHANGED <<row, predicted, enough, queue, job, lost>>
          /\ profiled' = profiled \cup {t} /\ unsent' = unsent \cup {t}
      BY <1>3 DEF RecordProfile, rowVars
    <2>2. Hands'
      BY <1>t, <2>1, HandsStay
    <2>3. Covered(t)' /\ \A u : Covered(u) => Covered(u)'
      BY <2>1 DEF Covered, Waits, Holds, Busy
    <2> QED BY <2>1, <2>2, <2>3 DEF NoTrackForgotten
  <1>4. ASSUME NEW t \in Track, NEW q \in Slot, SendScore(t, q)
        PROVE  Hands' /\ NoTrackForgotten'
    <2>1. /\ UNCHANGED <<row, predicted, profiled, enough, job>>
          /\ unsent' = unsent \ {t}
      BY <1>4 DEF SendScore, rowVars
    <2>2. (Send(q, Score(t)) /\ UNCHANGED lost) \/ (lost' = TRUE /\ UNCHANGED queue)
      BY <1>4, Zenon DEF SendScore
    <2>3. Hands'
      BY <1>t, <2>1, <2>2, HandsStay
    <2>4. ASSUME NEW u \in profiled, Covered(u), Send(q, Score(t)) PROVE Covered(u)'
      <3>1. u \in unsent => u \in unsent' \/ Asks(Score(t), row.version, u)
        BY <2>1 DEF Asks, Score
      <3> QED BY <1>t, <2>1, <2>4, <3>1, CoverSends
    <2> QED BY <2>1, <2>2, <2>3, <2>4 DEF NoTrackForgotten
  <1> QED BY <1>1, <1>2, <1>3, <1>4

\* A worker's step within its job that writes no suggestion.
LEMMA JobForgetsNone ==
    ASSUME ModelInv, Hands, NoTrackForgotten, NEW w \in Busy, NEW j \in Job,
           job' = [job EXCEPT ![w] = j], j.slot = job[w].slot, j.message = job[w].message,
           PageStands(j), j.stage # "idle", j.stage = "save" => enough,
           UNCHANGED <<row, queue, trackVars, lost>>,
           \A t \in profiled :
               SeesTo(job[w], row.version, t) => SeesTo(j, row.version, t) \/ row.version = 0
    PROVE  Hands' /\ NoTrackForgotten'
  <1>1. ModelTypeOK /\ UNCHANGED <<enough, predicted, profiled, unsent>>
    BY DEF ModelInv, trackVars
  <1>2. Hands'
    BY <1>1, HandsMove
  <1>3. ASSUME NEW t \in profiled, Covered(t), row.version # 0 PROVE Covered(t)'
    BY <1>1, <1>3, CoverMoves
  <1> QED BY <1>1, <1>2, <1>3 DEF NoTrackForgotten

\* A worker that ends without having written anything, and led nowhere.
LEMMA EndForgetsNone ==
    ASSUME ModelInv, Hands, NoTrackForgotten, NEW w \in Busy, Ends(w),
           UNCHANGED <<row, queue, trackVars, lost>>,
           \A t \in profiled : ~SeesTo(job[w], row.version, t) \/ row.version = 0
    PROVE  Hands' /\ NoTrackForgotten'
  <1>1. ModelTypeOK /\ UNCHANGED <<enough, predicted, profiled, unsent>>
    BY DEF ModelInv, trackVars
  <1>2. Hands'
    BY <1>1, HandsEnd
  <1>3. ASSUME NEW t \in profiled, Covered(t), row.version # 0 PROVE Covered(t)'
    BY <1>1, <1>3, CoverEnds
  <1> QED BY <1>1, <1>2, <1>3 DEF NoTrackForgotten

LEMMA TrainForgetsNone ==
    ASSUME ModelInv, Hands, NoTrackForgotten, NEW w \in Worker,
           ReadVersion(w) \/ TooFewLabels(w) \/ PutArtifact(w)
    PROVE  Hands' /\ NoTrackForgotten'
  <1> USE ScoringAssumption
  <1>1. w \in Busy /\ job[w] \in Job /\ job[w].message.type = "retrain"
    BY InJob DEF ReadVersion, TooFewLabels, PutArtifact, At, ModelInv
  <1>2. CASE ReadVersion(w)
    <2> PICK j : j = [[job[w] EXCEPT !.stage = "train"] EXCEPT !.version = row.version]
      OBVIOUS
    <2>1. row.version \in Version
      BY DEF ModelInv, ModelTypeOK
    <2>2. /\ j \in Job /\ j.stage = "train" /\ j.version = row.version
          /\ j.slot = job[w].slot /\ j.message = job[w].message
      BY <1>1, <2>1 DEF Job
    <2>3. PageStands(j) /\ \A t : SeesTo(j, row.version, t)
      BY <1>1, <2>2 DEF PageStands, SeesTo
    <2>4. job' = [job EXCEPT ![w] = j] /\ UNCHANGED <<row, queue, trackVars, lost>>
      BY <1>2 DEF ReadVersion, rowVars, ModelInv, ModelTypeOK
    <2> QED BY <1>1, <2>2, <2>3, <2>4, JobForgetsNone
  <1>3. CASE TooFewLabels(w)
    <2>1. ~enough /\ job[w].stage = "train" /\ Ends(w) /\ UNCHANGED <<row, queue, trackVars, lost>>
      BY <1>3 DEF TooFewLabels, At
    <2>2. row.version = 0
      BY <2>1 DEF Hands, Taught, ModelInv, ModelTypeOK, Version
    <2> QED BY <1>1, <2>1, <2>2, EndForgetsNone
  <1>4. CASE PutArtifact(w)
    <2> PICK a : a = attempts + 1
      OBVIOUS
    <2> PICK j : j = [[[job[w] EXCEPT !.stage = "save"] EXCEPT !.key = a] EXCEPT !.model = a]
      OBVIOUS
    <2>1. a \in Version /\ job[w].stage = "train" /\ enough
      <3>1. attempts < MaxAttempts /\ job[w].stage = "train" /\ enough
        BY <1>4 DEF PutArtifact, At
      <3> QED BY <3>1 DEF Version, ModelInv, ModelTypeOK
    <2>2. /\ j \in Job /\ j.stage = "save" /\ j.version = job[w].version
          /\ j.slot = job[w].slot /\ j.message = job[w].message
      BY <1>1, <2>1 DEF Job
    <2>3. PageStands(j)
      BY <2>2 DEF PageStands
    <2>4. \A t : SeesTo(job[w], row.version, t) => SeesTo(j, row.version, t)
      BY <1>1, <2>1, <2>2 DEF SeesTo
    <2>5. job' = [job EXCEPT ![w] = j] /\ UNCHANGED <<row, queue, trackVars, lost>>
      BY <1>4 DEF PutArtifact, ArtifactKey, ModelInv, ModelTypeOK
    <2> QED BY <1>1, <2>1, <2>2, <2>3, <2>4, <2>5, JobForgetsNone
  <1> QED BY <1>2, <1>3, <1>4

LEMMA SaveForgetsNone ==
    ASSUME ModelInv, Hands, NoTrackForgotten, NEW w \in Worker, SaveModel(w)
    PROVE  Hands' /\ NoTrackForgotten'
  <1> USE ScoringAssumption
  <1>1. /\ w \in Busy /\ job[w] \in Job /\ job[w].message.type = "retrain"
        /\ job[w].stage = "save"
    BY InJob DEF SaveModel, At, ModelInv
  <1>2. UNCHANGED <<queue, trackVars, lost>>
    BY DEF SaveModel
  <1>3. CASE row.version # job[w].version
    <2>1. Ends(w) /\ UNCHANGED row
      BY <1>3 DEF SaveModel
    <2>2. \A t : ~SeesTo(job[w], row.version, t)
      BY <1>1, <1>3 DEF SeesTo
    <2> QED BY <1>1, <1>2, <2>1, <2>2, EndForgetsNone
  <1>4. CASE row.version = job[w].version
    <2> PICK v : v = row.version + 1
      OBVIOUS
    <2> PICK b : b = Blank("send", job[w].slot, job[w].message)
      OBVIOUS
    <2> PICK j : j = [b EXCEPT !.version = v]
      OBVIOUS
    <2>1. v \in Version /\ row'.version = v
      <3>1. row.version < attempts
        BY <1>1, <1>4 DEF ModelInv, JobStands, SaveStands
      <3>2. row'.version = v
        BY <1>4 DEF SaveModel
      <3> QED BY <3>1, <3>2 DEF Version, ModelInv, ModelTypeOK
    <2>2. /\ j \in Job /\ j.stage = "send" /\ j.version = v
          /\ j.slot = job[w].slot /\ j.message = job[w].message
      <3>1. /\ b \in Job /\ b.stage = "send"
            /\ b.slot = job[w].slot /\ b.message = job[w].message
        BY <1>1 DEF Blank, Job, Version
      <3> QED BY <2>1, <3>1 DEF Job
    <2>3. job' = [job EXCEPT ![w] = j]
      BY <1>4 DEF SaveModel
    <2>4. PageStands(j) /\ \A t : SeesTo(j, v, t)
      BY <1>1, <2>2 DEF PageStands, SeesTo
    <2>5. enough
      BY <1>1 DEF Hands, Taught
    <2>6. Hands'
      BY <1>1, <1>2, <2>2, <2>3, <2>4, <2>5, HandsMove DEF ModelInv, trackVars
    <2>7. w \in Busy' /\ job'[w] = j
      BY <1>1, <2>2, <2>3 DEF Busy, ModelInv, ModelTypeOK
    <2>8. \A t : Covered(t)'
      BY <2>1, <2>4, <2>7 DEF Covered
    <2> QED BY <2>6, <2>8 DEF NoTrackForgotten
  <1> QED BY <1>3, <1>4
-----------------------------------------------------------------------------
LEMMA CheckForgetsNone ==
    ASSUME ModelInv, Hands, NoTrackForgotten, NEW w \in Worker,
           CheckModel(w) \/ ReadModels(w)
    PROVE  Hands' /\ NoTrackForgotten'
  <1> USE ScoringAssumption
  <1>1. /\ w \in Busy /\ job[w] \in Job /\ job[w].stage = "start"
        /\ job[w].message \in Message
    BY InJob DEF CheckModel, ReadModels, At, ModelInv, Job
  <1>2. UNCHANGED <<row, queue, trackVars, lost>> /\ row.version \in Version /\ row.key \in Version
    BY DEF CheckModel, ReadModels, rowVars, ModelInv, ModelTypeOK
  <1>3. CASE CheckModel(w) /\ row.version # job[w].message.version
    <2>1. Ends(w) /\ \A t : ~SeesTo(job[w], row.version, t)
      BY <1>1, <1>3 DEF CheckModel, At, SeesTo, Asks
    <2> QED BY <1>1, <1>2, <2>1, EndForgetsNone
  <1>4. CASE CheckModel(w) /\ row.version = job[w].message.version
    <2> PICK j : j = [[[job[w] EXCEPT !.stage = "tracks"] EXCEPT !.version = row.version]
                         EXCEPT !.key = row.key]
      OBVIOUS
    <2>1. job[w].message.type = "score_style"
      BY <1>4 DEF CheckModel, At
    <2>2. /\ j \in Job /\ j.stage = "tracks" /\ j.version = row.version
          /\ j.slot = job[w].slot /\ j.message = job[w].message
      BY <1>1, <1>2 DEF Job
    <2>4. PageStands(j)
      BY <1>4, <2>1, <2>2 DEF PageStands
    <2>5. \A t : SeesTo(job[w], row.version, t) => SeesTo(j, row.version, t)
      BY <1>1, <2>1, <2>2 DEF SeesTo, Asks
    <2>6. job' = [job EXCEPT ![w] = j]
      BY <1>4 DEF CheckModel, ModelInv, ModelTypeOK
    <2> QED BY <1>1, <1>2, <2>2, <2>4, <2>5, <2>6, JobForgetsNone
  <1>5. CASE ReadModels(w) /\ ~(row.version > 0)
    <2>1. Ends(w) /\ row.version = 0
      BY <1>2, <1>5 DEF ReadModels, Version
    <2> QED BY <1>1, <1>2, <2>1, EndForgetsNone
  <1>6. CASE ReadModels(w) /\ row.version > 0
    <2> PICK b : b = Blank("upsert", job[w].slot, job[w].message)
      OBVIOUS
    <2> PICK j : j = [[[b EXCEPT !.version = row.version] EXCEPT !.key = row.key]
                        EXCEPT !.tracks = {job[w].message.track}]
      OBVIOUS
    <2>1. job[w].message.type = "score"
      BY <1>6 DEF ReadModels, At
    <2>2. {job[w].message.track} \in SUBSET Track
      BY <1>1, <2>1, MessageKinds
    <2>3. /\ b \in Job /\ b.stage = "upsert"
          /\ b.slot = job[w].slot /\ b.message = job[w].message
      BY <1>1 DEF Blank, Job, Version
    <2>4. /\ j \in Job /\ j.stage = "upsert" /\ j.version = row.version
          /\ j.slot = job[w].slot /\ j.message = job[w].message
          /\ j.tracks = {job[w].message.track}
      BY <1>2, <2>2, <2>3 DEF Job
    <2>5. PageStands(j)
      BY <2>1, <2>4 DEF PageStands
    <2>6. \A t : SeesTo(job[w], row.version, t) => SeesTo(j, row.version, t)
      BY <1>1, <2>1, <2>4 DEF SeesTo, Asks
    <2>7. job' = [job EXCEPT ![w] = j]
      BY <1>6 DEF ReadModels
    <2> QED BY <1>1, <1>2, <2>4, <2>5, <2>6, <2>7, JobForgetsNone
  <1> QED BY <1>3, <1>4, <1>5, <1>6

\* The page that is read holds every profiled track up to its last one, and is full unless
\* it holds them all.
LEMMA ReadTracksForgetsNone ==
    ASSUME ModelInv, Hands, NoTrackForgotten, NEW w \in Worker, ReadTracks(w)
    PROVE  Hands' /\ NoTrackForgotten'
  <1> USE ScoringAssumption
  <1> PICK a : a = job[w].message.after
    OBVIOUS
  <1> PICK page : page = PageAfter(a)
    OBVIOUS
  <1> PICK j : j = [[job[w] EXCEPT !.stage = "upsert"] EXCEPT !.tracks = page]
    OBVIOUS
  <1>1. /\ w \in Busy /\ job[w] \in Job /\ job[w].stage = "tracks"
        /\ job[w].message.type = "score_style"
    BY InJob DEF ReadTracks, At, ModelInv
  <1>2. a \in 0..Tracks /\ page \in SUBSET Track
    <2>1. job[w].message \in Message
      BY <1>1 DEF Job
    <2>2. page \in SUBSET Track
      BY DEF PageAfter, ModelInv, ModelTypeOK
    <2> QED BY <1>1, <2>1, <2>2, MessageKinds
  <1>3. /\ j \in Job /\ j.stage = "upsert" /\ j.version = job[w].version
        /\ j.slot = job[w].slot /\ j.message = job[w].message /\ j.tracks = page
    BY <1>1, <1>2 DEF Job
  <1>4. PageStands(j)
    <2>1. \A u \in page : a < u
      BY <1>2 DEF PageAfter, Track
    <2>2. job[w].version = job[w].message.version
      BY <1>1 DEF Hands, PageStands
    <2> QED BY <1>1, <1>3, <2>1, <2>2 DEF PageStands
  <1>5. ASSUME NEW t \in profiled, SeesTo(job[w], row.version, t)
        PROVE  SeesTo(j, row.version, t)
    <2>1. job[w].version = row.version /\ a < t
      BY <1>1, <1>5 DEF SeesTo
    <2>2. t \in page \/ (Cardinality(page) = Page /\ Max(page) < t)
      BY <1>2, <2>1, PageReaches DEF ModelInv
    <2> QED BY <1>1, <1>3, <2>1, <2>2 DEF SeesTo
  <1>6. job' = [job EXCEPT ![w] = j] /\ UNCHANGED <<row, queue, trackVars, lost>>
    BY DEF ReadTracks, rowVars, ModelInv, ModelTypeOK
  <1> QED BY <1>1, <1>3, <1>4, <1>5, <1>6, JobForgetsNone

\* What the page holds is written or is newer already; a full page leads to the next.
LEMMA UpsertForgetsNone ==
    ASSUME ModelInv, Hands, NoTrackForgotten, NEW w \in Worker, Upsert(w)
    PROVE  Hands' /\ NoTrackForgotten'
  <1> USE ScoringAssumption
  <1>t. ModelTypeOK
    BY DEF ModelInv
  <1>1. /\ w \in Busy /\ job[w] \in Job /\ job[w].stage = "upsert"
        /\ job[w].version \in 1..row.version /\ row.version \in Nat
    <2>1. w \in Busy /\ job[w] \in Job /\ job[w].stage = "upsert"
      BY <1>t, InJob DEF Upsert
    <2> QED BY <2>1 DEF ModelInv, ModelTypeOK, JobStands, Version
  <1>2. UNCHANGED <<row, profiled, unsent, enough, queue, lost>>
    BY DEF Upsert, rowVars
  <1>3. ASSUME NEW t \in Track
        PROVE  /\ predicted[t].version = row.version => predicted'[t].version = row.version
               /\ t \in job[w].tracks /\ job[w].version = row.version
                    => predicted'[t].version = row.version
    <2>1. predicted'[t] = IF t \in Written(w)
                          THEN [version |-> job[w].version, model |-> files[job[w].key]]
                          ELSE predicted[t]
      BY DEF Upsert
    <2>2. CASE t \in Written(w)
      <3>1. predicted'[t].version = job[w].version
        BY <2>1, <2>2
      <3>2. predicted[t].version <= job[w].version
        BY <2>2 DEF Written
      <3> QED BY <1>1, <3>1, <3>2
    <2>3. CASE t \notin Written(w)
      <3>1. predicted'[t] = predicted[t]
        BY <2>1, <2>3
      <3>2. predicted[t].version <= row.version
        BY DEF ModelInv, PredictedStand
      <3> QED BY <2>3, <3>1, <3>2 DEF Written
    <2> QED BY <2>2, <2>3
  <1>4. ASSUME NEW t \in profiled, SeesTo(job[w], row.version, t)
        PROVE  \/ predicted'[t].version = row.version
               \/ /\ job[w].message.type = "score_style" /\ job[w].version = row.version
                  /\ Cardinality(job[w].tracks) = Page /\ Max(job[w].tracks) < t
    <2>1. t \in Track
      BY <1>t DEF ModelTypeOK
    <2>2. CASE job[w].message.type = "score"
      <3>1. job[w].tracks = {job[w].message.track}
        BY <1>1, <2>2 DEF Hands, PageStands
      <3>2. job[w].message.track = t /\ job[w].version = row.version
        BY <1>1, <1>4, <2>2 DEF SeesTo
      <3> QED BY <1>3, <2>1, <3>1, <3>2
    <2>3. CASE job[w].message.type # "score"
      <3>1. /\ job[w].message.type = "score_style" /\ job[w].version = row.version
            /\ \/ t \in job[w].tracks
               \/ Cardinality(job[w].tracks) = Page /\ Max(job[w].tracks) < t
        BY <1>1, <1>4, <2>3 DEF SeesTo
      <3> QED BY <1>3, <2>1, <3>1
    <2> QED BY <2>2, <2>3
  <1>5. \A t \in profiled : t \in Track
    BY <1>t DEF ModelTypeOK
  <1>6. CASE ~(job[w].message.type = "score_style" /\ Cardinality(job[w].tracks) = Page)
    <2>1. Ends(w)
      BY <1>6 DEF Upsert
    <2>2. Hands'
      BY <1>t, <1>1, <1>2, <2>1, HandsEnd
    <2>3. ASSUME NEW t \in profiled, Covered(t) PROVE Covered(t)'
      BY <1>t, <1>1, <1>2, <1>3, <1>4, <1>5, <1>6, <2>1, <2>3, CoverEnds
    <2> QED BY <1>2, <2>2, <2>3 DEF NoTrackForgotten
  <1>7. CASE job[w].message.type = "score_style" /\ Cardinality(job[w].tracks) = Page
    <2> PICK j : j = [job[w] EXCEPT !.stage = "next"]
      OBVIOUS
    <2>1. /\ j \in Job /\ j.stage = "next" /\ j.version = job[w].version
          /\ j.slot = job[w].slot /\ j.message = job[w].message /\ j.tracks = job[w].tracks
      BY <1>1 DEF Job
    <2>2. job' = [job EXCEPT ![w] = j]
      BY <1>7 DEF Upsert
    <2>3. PageStands(j)
      BY <1>1, <1>7, <2>1 DEF Hands, PageStands
    <2>4. Hands'
      BY <1>t, <1>1, <1>2, <2>1, <2>2, <2>3, HandsMove
    <2>5. ASSUME NEW t \in profiled, Covered(t) PROVE Covered(t)'
      <3>1. SeesTo(job[w], row.version, t) =>
                SeesTo(j, row.version, t) \/ predicted'[t].version = row.version
        BY <1>4, <2>1 DEF SeesTo
      <3> QED BY <1>t, <1>1, <1>2, <1>3, <1>5, <2>1, <2>2, <2>5, <3>1, CoverMoves
    <2> QED BY <1>2, <2>4, <2>5 DEF NoTrackForgotten
  <1> QED BY <1>6, <1>7

\* The model a retrain saved, and the rest of the style after a full page, go on as a message.
LEMMA ChainForgetsNone ==
    ASSUME ModelInv, Hands, NoTrackForgotten, NEW w \in Worker, NEW q \in Slot,
           SendChain(w, q) \/ SendNext(w, q)
    PROVE  Hands' /\ NoTrackForgotten'
  <1> USE ScoringAssumption
  <1>t. ModelTypeOK
    BY DEF ModelInv
  <1>1. /\ w \in Busy /\ job[w] \in Job /\ Ends(w)
        /\ UNCHANGED <<row, predicted, profiled, unsent, enough, lost>>
    BY <1>t, InJob DEF SendChain, SendNext, At, rowVars, trackVars
  <1>2. PICK m : /\ Send(q, m)
                 /\ \A t \in Track : SeesTo(job[w], row.version, t) => Asks(m, row.version, t)
    <2>1. CASE SendChain(w, q)
      <3>1. Send(q, ScoreStyle(job[w].version, 0)) /\ At(w, "retrain", "send")
        BY <2>1 DEF SendChain
      <3>2. ASSUME NEW t \in Track, SeesTo(job[w], row.version, t)
            PROVE  Asks(ScoreStyle(job[w].version, 0), row.version, t)
        <4>1. job[w].version = row.version
          BY <3>1, <3>2 DEF At, SeesTo
        <4>2. 0 < t
          BY DEF Track
        <4> QED BY <4>1, <4>2 DEF Asks, ScoreStyle
      <3> QED BY <3>1, <3>2
    <2>2. CASE SendNext(w, q)
      <3>1. Send(q, ScoreStyle(job[w].version, Max(job[w].tracks))) /\ job[w].stage = "next"
        BY <2>2 DEF SendNext, LastTrack
      <3>2. ASSUME NEW t \in Track, SeesTo(job[w], row.version, t)
            PROVE  Asks(ScoreStyle(job[w].version, Max(job[w].tracks)), row.version, t)
        BY <3>1, <3>2 DEF SeesTo, Asks, ScoreStyle
      <3> QED BY <3>1, <3>2
    <2> QED BY <2>1, <2>2
  <1>3. \A p \in Slot : queue'[p] = queue[p] \/ Free(p)
    BY <1>t, <1>2 DEF Send, ModelTypeOK
  <1>4. Hands'
    BY <1>t, <1>1, <1>3, HandsEnd
  <1>5. ASSUME NEW t \in profiled, Covered(t) PROVE Covered(t)'
    <2>1. t \in Track
      BY <1>t DEF ModelTypeOK
    <2> QED BY <1>t, <1>1, <1>2, <1>5, <2>1, CoverSends
  <1> QED BY <1>1, <1>4, <1>5 DEF NoTrackForgotten
-----------------------------------------------------------------------------
\* A delivery takes on all its message asks.
LEMMA ReceiveForgetsNone ==
    ASSUME ModelInv, Hands, NoTrackForgotten, NEW w \in Worker, NEW q \in Slot, Receive(w, q)
    PROVE  Hands' /\ NoTrackForgotten'
  <1> USE ScoringAssumption
  <1> PICK m : m = queue[q].message
    OBVIOUS
  <1> PICK j : j = Blank("start", q, m)
    OBVIOUS
  <1>t. ModelTypeOK
    BY DEF ModelInv
  <1>1. /\ w \notin Busy /\ queue[q] # Empty
        /\ job' = [job EXCEPT ![w] = j]
        /\ queue' = [queue EXCEPT ![q].received = @ + 1]
        /\ UNCHANGED <<row, predicted, profiled, unsent, enough, lost>>
    BY DEF Receive, Start, rowVars, trackVars
  <1>2. j.stage = "start" /\ j.slot = q /\ j.message = m /\ PageStands(j)
    BY BlankPage DEF Blank
  <1>3. job'[w] = j /\ \A u \in Worker \ {w} : job'[u] = job[u]
    BY <1>t, <1>1 DEF ModelTypeOK
  <1>4. Busy' = Busy \cup {w}
    BY <1>2, <1>3 DEF Busy
  <1>5. /\ queue'[q] # Empty /\ queue'[q].message = m
        /\ \A p \in Slot \ {q} : queue'[p] = queue[p]
    <2>1. queue[q] \in [message : Message, received : 0..MaxReceives]
      BY <1>t, <1>1 DEF ModelTypeOK
    <2>2. queue' = [queue EXCEPT ![q] = [queue[q] EXCEPT !.received = @ + 1]]
      BY <1>t, <1>1 DEF ModelTypeOK
    <2>3. queue'[q] = [queue[q] EXCEPT !.received = @ + 1]
      BY <1>t, <2>2 DEF ModelTypeOK
    <2>4. queue'[q].message = m /\ queue'[q].received = queue[q].received + 1
      BY <2>1, <2>3
    <2>5. queue[q].received \in Nat /\ Empty.received = 0
      BY <2>1 DEF Empty
    <2>6. \A p \in Slot \ {q} : queue'[p] = queue[p]
      BY <1>t, <1>1 DEF ModelTypeOK
    <2>7. queue'[q] # Empty
      <3>1. queue'[q].received # Empty.received
        BY <2>4, <2>5
      <3> QED BY <3>1
    <2> QED BY <2>4, <2>6, <2>7
  <1>6. ASSUME NEW u \in Busy
        PROVE  job'[u] = job[u] /\ u \in Worker /\ job[u].slot \in Slot
    BY <1>t, <1>1, <1>3, InJob DEF Busy, Job
  <1>7. Hands'
    <2>1. (\A u \in Busy : PageStands(job[u]))'
      BY <1>2, <1>3, <1>4, <1>6 DEF Hands, PageStands
    <2>2. OneMessage'
      <3>1. ASSUME NEW u \in Busy, queue'[job'[u].slot] # Empty
            PROVE  queue'[job'[u].slot].message = job'[u].message
        <4>1. CASE job[u].slot = q
          BY <1>1, <1>5, <1>6, <4>1 DEF Hands, OneMessage
        <4>2. CASE job[u].slot # q
          BY <1>5, <1>6, <3>1, <4>2 DEF Hands, OneMessage
        <4> QED BY <4>1, <4>2
      <3> QED BY <1>2, <1>3, <1>4, <1>5, <3>1 DEF OneMessage
    <2>3. Taught'
      BY <1>1, <1>2, <1>3, <1>4, <1>6 DEF Hands, Taught
    <2> QED BY <2>1, <2>2, <2>3 DEF Hands
  <1>8. ASSUME NEW t \in profiled, Covered(t) PROVE Covered(t)'
    <2>1. CASE predicted[t].version = row.version \/ t \in unsent
      BY <1>1, <2>1 DEF Covered
    <2>2. ASSUME NEW u \in Busy, SeesTo(job[u], row.version, t) PROVE Covered(t)'
      BY <1>1, <1>4, <1>6, <2>2 DEF Covered
    <2>3. CASE Waits(q, row.version, t)
      <3>1. SeesTo(j, row.version, t)
        BY <1>2, <2>3 DEF Waits, SeesTo
      <3> QED BY <1>1, <1>3, <1>4, <3>1 DEF Covered
    <2>4. ASSUME NEW p \in Slot \ {q}, Waits(p, row.version, t) PROVE Covered(t)'
      <3>1. ASSUME NEW u \in Worker, Holds(u, p)' PROVE SeesTo(job'[u], row.version, t)
        <4>1. u # w /\ u \in Busy
          BY <1>2, <1>3, <1>4, <3>1 DEF Holds
        <4>2. Holds(u, p)
          BY <1>6, <3>1, <4>1 DEF Holds
        <4> QED BY <1>6, <2>4, <4>1, <4>2 DEF Waits
      <3>2. Waits(p, row.version, t)'
        BY <1>1, <1>5, <2>4, <3>1 DEF Waits
      <3> QED BY <3>2 DEF Covered
    <2> QED BY <1>8, <2>1, <2>2, <2>3, <2>4 DEF Covered
  <1> QED BY <1>1, <1>7, <1>8 DEF NoTrackForgotten

\* A worker lets go: what others hold and what waits is as it was.
LEMMA HandsLeave ==
    ASSUME ModelTypeOK, Hands, NEW w \in Busy, job' = [job EXCEPT ![w] = Idle],
           UNCHANGED <<row, enough>>,
           \A q \in Slot : queue'[q] = queue[q] \/ queue'[q] = Empty
    PROVE  /\ Hands' /\ Busy' = Busy \ {w}
           /\ \A u \in Busy' : job'[u] = job[u] /\ u \in Worker
           /\ \A u \in Worker, q \in Slot : Holds(u, q)' => Holds(u, q) /\ job'[u] = job[u]
  <1>1. job'[w] = Idle /\ w \in Worker /\ \A u \in Worker \ {w} : job'[u] = job[u]
    BY DEF Busy, ModelTypeOK
  <1>2. Busy' = Busy \ {w}
    BY <1>1 DEF Busy, Idle
  <1>3. ASSUME NEW u \in Busy \ {w}
        PROVE  job'[u] = job[u] /\ u \in Worker /\ job[u].slot \in Slot
    BY <1>1, InJob DEF Busy, Job
  <1>4. (\A u \in Busy : PageStands(job[u]))'
    BY <1>2, <1>3 DEF Hands, PageStands
  <1>5. OneMessage'
    BY <1>2, <1>3 DEF Hands, OneMessage
  <1>6. Taught'
    BY <1>2, <1>3 DEF Hands, Taught
  <1>7. \A u \in Worker, q \in Slot : Holds(u, q)' => Holds(u, q) /\ job'[u] = job[u]
    BY <1>2, <1>3 DEF Holds
  <1> QED BY <1>2, <1>3, <1>4, <1>5, <1>6, <1>7 DEF Hands

\* A message is deleted by a delivery that is done with it; a twin that still works goes on.
LEMMA DeleteForgetsNone ==
    ASSUME ModelInv, Hands, NoTrackForgotten, NEW w \in Worker, DeleteMessage(w)
    PROVE  Hands' /\ NoTrackForgotten'
  <1>t. ModelTypeOK
    BY DEF ModelInv
  <1> PICK s : s = job[w].slot
    OBVIOUS
  <1>1. /\ w \in Busy /\ job[w].stage = "done" /\ s \in Slot
        /\ job' = [job EXCEPT ![w] = Idle] /\ queue' = [queue EXCEPT ![s] = Empty]
        /\ UNCHANGED <<row, predicted, profiled, unsent, enough, lost>>
    BY <1>t, InJob DEF DeleteMessage, Job, rowVars, trackVars
  <1>2. \A p \in Slot : queue'[p] = IF p = s THEN Empty ELSE queue[p]
    BY <1>t, <1>1 DEF ModelTypeOK
  <1>3. /\ Hands' /\ Busy' = Busy \ {w}
        /\ \A u \in Busy' : job'[u] = job[u] /\ u \in Worker
        /\ \A u \in Worker, q \in Slot : Holds(u, q)' => Holds(u, q) /\ job'[u] = job[u]
    BY <1>t, <1>1, <1>2, HandsLeave
  <1>4. \A v, t : ~SeesTo(job[w], v, t)
    BY <1>1 DEF SeesTo
  <1>5. ASSUME NEW t \in profiled, Covered(t) PROVE Covered(t)'
    <2>1. CASE predicted[t].version = row.version \/ t \in unsent
      BY <1>1, <2>1 DEF Covered
    <2>2. ASSUME NEW u \in Busy, SeesTo(job[u], row.version, t) PROVE Covered(t)'
      <3>1. u \in Busy'
        BY <1>3, <1>4, <2>2
      <3> QED BY <1>1, <1>3, <2>2, <3>1 DEF Covered
    <2>3. ASSUME NEW q \in Slot, Waits(q, row.version, t) PROVE Covered(t)'
      <3>1. q # s
        BY <1>1, <1>4, <2>3 DEF Waits, Holds
      <3>2. queue'[q] = queue[q]
        BY <1>2, <3>1
      <3>3. Waits(q, row.version, t)'
        BY <1>1, <1>3, <2>3, <3>2 DEF Waits
      <3> QED BY <3>3 DEF Covered
    <2> QED BY <1>5, <2>1, <2>2, <2>3 DEF Covered
  <1> QED BY <1>1, <1>3, <1>5 DEF NoTrackForgotten

\* A worker that fails leaves its message to be received again, which asks all it saw to.
LEMMA FailureForgetsNone ==
    ASSUME ModelInv, Hands, NoTrackForgotten, NEW w \in Worker, WorkerFails(w)
    PROVE  Hands' /\ NoTrackForgotten'
  <1>t. ModelTypeOK
    BY DEF ModelInv
  <1> PICK s : s = job[w].slot
    OBVIOUS
  <1>1. /\ w \in Busy /\ s \in Slot /\ job[w] \in Job
        /\ job' = [job EXCEPT ![w] = Idle]
        /\ UNCHANGED <<row, predicted, profiled, unsent, enough>>
    BY <1>t, InJob DEF WorkerFails, Job, rowVars, trackVars
  <1>2. queue' = queue \/ queue' = [queue EXCEPT ![s] = Empty]
    BY DEF WorkerFails
  <1>3. /\ Hands' /\ Busy' = Busy \ {w}
        /\ \A u \in Busy' : job'[u] = job[u] /\ u \in Worker
        /\ \A u \in Worker, q \in Slot : Holds(u, q)' => Holds(u, q) /\ job'[u] = job[u]
    <2>1. \A p \in Slot : queue'[p] = queue[p] \/ queue'[p] = Empty
      BY <1>t, <1>1, <1>2 DEF ModelTypeOK
    <2> QED BY <1>t, <1>1, <2>1, HandsLeave
  <1>4. ~lost' => /\ ~lost /\ queue' = queue /\ queue[s] # Empty
                  /\ \A u \in Worker \ {w} : ~Holds(u, s)
    BY Zenon DEF WorkerFails
  <1>5. ASSUME ~lost', NEW t \in profiled, Covered(t) PROVE Covered(t)'
    <2>1. CASE predicted[t].version = row.version \/ t \in unsent
      BY <1>1, <2>1 DEF Covered
    <2>2. ASSUME NEW u \in Busy \ {w}, SeesTo(job[u], row.version, t) PROVE Covered(t)'
      BY <1>1, <1>3, <2>2 DEF Covered
    <2>3. CASE SeesTo(job[w], row.version, t)
      <3>1. t \in Track /\ JobStands(job[w]) /\ PageStands(job[w])
        BY <1>t, <1>1 DEF ModelInv, ModelTypeOK, Hands
      <3>2. Asks(job[w].message, row.version, t)
        BY <1>1, <2>3, <3>1, SeesAsks
      <3>3. queue[s].message = job[w].message
        BY <1>1, <1>4, <1>5 DEF Hands, OneMessage
      <3>4. \A u \in Worker : ~Holds(u, s)'
        <4>1. \A u \in Worker : Holds(u, s)' => Holds(u, s) /\ u # w
          BY <1>1, <1>3 DEF Holds
        <4> QED BY <1>4, <1>5, <4>1
      <3>5. Waits(s, row.version, t)'
        BY <1>1, <1>4, <1>5, <3>2, <3>3, <3>4 DEF Waits
      <3> QED BY <1>1, <3>5 DEF Covered
    <2>4. ASSUME NEW q \in Slot, Waits(q, row.version, t) PROVE Covered(t)'
      <3>1. Waits(q, row.version, t)'
        BY <1>1, <1>3, <1>4, <1>5, <2>4 DEF Waits
      <3> QED BY <3>1 DEF Covered
    <2> QED BY <1>5, <2>1, <2>2, <2>3, <2>4 DEF Covered
  <1> QED BY <1>1, <1>3, <1>4, <1>5 DEF NoTrackForgotten
-----------------------------------------------------------------------------
LEMMA NoneForgottenStep ==
    ModelInv /\ Hands /\ NoTrackForgotten /\ [Next]_vars => Hands' /\ NoTrackForgotten'
  <1> SUFFICES ASSUME ModelInv, Hands, NoTrackForgotten, [Next]_vars
               PROVE  Hands' /\ NoTrackForgotten'
    OBVIOUS
  <1>1. CASE RequestAges \/ LabelsGrow
    BY <1>1, ApiForgetsNone
  <1>2. CASE \E q \in Slot : RequestRetrain(q)
    BY <1>2, ApiForgetsNone
  <1>3. CASE \E t \in Track : RecordProfile(t) \/ \E q \in Slot : SendScore(t, q)
    BY <1>3, ApiForgetsNone
  <1>4. ASSUME NEW w \in Worker, WorkerStep(w) PROVE Hands' /\ NoTrackForgotten'
    <2>1. CASE ReadVersion(w) \/ TooFewLabels(w) \/ PutArtifact(w) \/ SaveModel(w)
      BY <2>1, TrainForgetsNone, SaveForgetsNone
    <2>2. CASE CheckModel(w) \/ ReadTracks(w) \/ ReadModels(w)
      BY <2>2, CheckForgetsNone, ReadTracksForgetsNone
    <2>3. CASE Upsert(w)
      BY <2>3, UpsertForgetsNone
    <2>4. CASE \E q \in Slot : SendChain(w, q) \/ SendNext(w, q)
      BY <2>4, ChainForgetsNone
    <2>5. CASE DeleteMessage(w) \/ WorkerFails(w) \/ \E q \in Slot : Receive(w, q)
      BY <2>5, DeleteForgetsNone, FailureForgetsNone, ReceiveForgetsNone
    <2> QED BY <1>4, <2>1, <2>2, <2>3, <2>4, <2>5 DEF WorkerStep
  <1>5. CASE UNCHANGED vars
    <2>1. UNCHANGED <<row, predicted, profiled, unsent, enough, queue, job, lost>>
      BY <1>5 DEF vars, rowVars, trackVars
    <2>2. Hands'
      BY <2>1 DEF Hands, OneMessage, Taught, PageStands, Busy
    <2>3. \A t : Covered(t)' <=> Covered(t)
      BY <2>1 DEF Covered, Waits, Holds, Busy
    <2> QED BY <2>1, <2>2, <2>3 DEF NoTrackForgotten
  <1> QED BY <1>1, <1>2, <1>3, <1>4, <1>5 DEF Next

\* For any number of tracks, workers, messages and deliveries, pages of any size: unless work
\* has been given up, once all of it is done every profiled track of a trained style has its
\* suggestion from the current model.
THEOREM AllScoredByCurrent == Spec => []ScoredByCurrent
  <1>1. NoTrackForgotten => ScoredByCurrent
    <2>1. SUFFICES ASSUME NoTrackForgotten, Settled, row.version > 0, NEW t \in profiled
                   PROVE  predicted[t].version = row.version
      BY DEF ScoredByCurrent
    <2>2. row.version # 0 /\ ~lost
      BY <2>1 DEF Settled
    <2>3. Covered(t)
      BY <2>1, <2>2 DEF NoTrackForgotten
    <2> QED BY <2>1, <2>3 DEF Settled, Covered, Waits
  <1> QED BY <1>1, NoneForgottenInit, NoneForgottenStep, ModelInvAlways, PTL DEF Spec
=============================================================================

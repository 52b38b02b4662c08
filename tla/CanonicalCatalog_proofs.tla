---------------------- MODULE CanonicalCatalog_proofs ----------------------
(***************************************************************************)
(* Theorems about canonicalization, for any number of runs, weeks, workers *)
(* and faults.                                                             *)
(***************************************************************************)
EXTENDS CanonicalCatalog, FiniteSetTheorems, WellFoundedInduction, TLAPS

USE CatalogAssumption, PipelineAssumption

-----------------------------------------------------------------------------
(* The operators of CatalogMerge.                                          *)

LEMMA MaxIn ==
    ASSUME NEW n \in Nat, NEW S, S \subseteq 1..n, S # {}
    PROVE  Max(S) \in S
<1> DEFINE D == {n - i : i \in S}
<1>1. D \subseteq Nat /\ D # {}
  <2>1. \A i \in S : n - i \in Nat
    OBVIOUS
  <2>2. PICK i \in S : TRUE
    OBVIOUS
  <2>3. n - i \in D
    OBVIOUS
  <2> QED
    BY <2>1, <2>3
<1>2. PICK d \in D : \A e \in D : ~(<<e, d>> \in OpToRel(<, Nat))
  BY <1>1, NatLessThanWellFounded, WFMin
<1>3. \A e \in D : ~(e < d)
  BY <1>1, <1>2 DEF OpToRel
<1>4. PICK m \in S : d = n - m
  OBVIOUS
<1>5. \A j \in S : m >= j
  <2> SUFFICES ASSUME NEW j \in S PROVE m >= j
    OBVIOUS
  <2>1. ~(n - j < n - m)
    BY <1>3, <1>4
  <2> QED
    BY <2>1
<1> QED
  BY <1>5 DEF Max

LEMMA ChunkIds ==
    ASSUME NEW chunk \in Chunk
    PROVE  /\ DOMAIN chunk = 1..Len(chunk)
           /\ Len(chunk) \in Nat
           /\ \A i \in DOMAIN chunk : chunk[i] \in BeatportId
           /\ IdsOf(chunk) \subseteq BeatportId
BY DEF IdsOf

LEMMA UpdateType ==
    ASSUME NEW current \in Observation, NEW incoming \in Observation, NEW stale
    PROVE  track_update(current, incoming, stale) \in Observation
BY DEF track_update, Observation

LEMMA WritesType ==
    ASSUME TypeOK, NEW r \in Run, NEW v \in Version, NEW chunk \in Chunk
    PROVE  /\ Writes(r, v, chunk) \in [BeatportId -> Observation]
           /\ Unclaimed(chunk) \in SUBSET BeatportId
<1>1. Bare \in Observation
  BY DEF Bare, Observation
<1>2. ASSUME NEW x \in Track \cap (IdsOf(chunk) \ Unclaimed(chunk))
      PROVE  row[identity[x]] \in Observation /\ Content[v][x] \in Observation
  <2>1. x \in BeatportId
    OBVIOUS
  <2>2. identity[x] \in BeatportId
    BY <2>1 DEF TypeOK, Unclaimed
  <2>3. row[identity[x]] \in Observation
    BY <2>2 DEF TypeOK
  <2>4. Content[v] \in [BeatportId -> Observation]
    OBVIOUS
  <2> QED
    BY <2>1, <2>3, <2>4
<1> QED
  BY <1>1, <1>2, UpdateType, ChunkIds DEF Writes, Unclaimed

\* The last of some positions of a chunk is one of them.
LEMMA LastPosition ==
    ASSUME NEW chunk \in Chunk, NEW hits \in SUBSET DOMAIN chunk, hits # {}
    PROVE  Max(hits) \in hits
<1>1. hits \subseteq 1..Len(chunk) /\ Len(chunk) \in Nat
  BY ChunkIds
<1> QED
  BY <1>1, MaxIn

\* A column that some id of a chunk is to write takes one of the values written.
LEMMA UpdatedHit ==
    ASSUME NEW chunk \in Chunk, NEW write, NEW c, NEW f,
           NEW i \in DOMAIN chunk, identity[chunk[i]] = c, write[chunk[i]][f] # Null
    PROVE  \E x \in IdsOf(chunk) :
                /\ identity[x] = c
                /\ write[x][f] # Null
                /\ Updated(chunk, write, c, f) = write[x][f]
<1> DEFINE hits == {j \in DOMAIN chunk : identity[chunk[j]] = c /\ write[chunk[j]][f] # Null}
<1>1. hits # {}
  OBVIOUS
<1>2. Max(hits) \in hits
  <2> HIDE DEF hits
  <2>1. hits \in SUBSET DOMAIN chunk
    BY DEF hits
  <2> QED
    BY <1>1, <2>1, LastPosition
<1>3. Updated(chunk, write, c, f) = write[chunk[Max(hits)]][f]
  BY <1>1 DEF Updated
<1> QED
  BY <1>2, <1>3 DEF IdsOf

\* A column keeps its value or takes one of those written.
LEMMA UpdatedIn ==
    ASSUME NEW chunk \in Chunk, NEW write, NEW c, NEW f
    PROVE  \/ /\ \A i \in DOMAIN chunk : identity[chunk[i]] = c => write[chunk[i]][f] = Null
              /\ Updated(chunk, write, c, f) = row[c][f]
           \/ \E x \in IdsOf(chunk) :
                /\ identity[x] = c
                /\ write[x][f] # Null
                /\ Updated(chunk, write, c, f) = write[x][f]
<1> DEFINE hits == {j \in DOMAIN chunk : identity[chunk[j]] = c /\ write[chunk[j]][f] # Null}
<1>1. CASE hits = {}
  BY <1>1 DEF Updated
<1>2. CASE hits # {}
  <2>1. Max(hits) \in hits
    <3> HIDE DEF hits
    <3>1. hits \in SUBSET DOMAIN chunk
      BY DEF hits
    <3> QED
      BY <1>2, <3>1, LastPosition
  <2>2. Updated(chunk, write, c, f) = write[chunk[Max(hits)]][f]
    BY <1>2 DEF Updated
  <2> QED
    BY <2>1, <2>2 DEF IdsOf
<1> QED
  BY <1>1, <1>2

LEMMA ApplyType ==
    ASSUME TypeOK, NEW r \in Run, NEW v \in Version, NEW chunk \in Chunk,
           NEW new \in SUBSET BeatportId, NEW write \in [BeatportId -> Observation],
           Apply(r, v, chunk, new, write)
    PROVE  TypeOK'
<1>1. source' \in [BeatportId -> [run : Run \cup {NoRun}, seen : Nat, payload : Observation]]
  BY DEF TypeOK, Apply, Upserted
<1>2. row' \in [BeatportId -> Observation]
  <2>1. ASSUME NEW c \in BeatportId, NEW f \in Field
        PROVE  Updated(chunk, write, c, f) \in Value \cup {Null}
    <3>1. row[c][f] \in Value \cup {Null}
      BY DEF TypeOK, Observation
    <3>2. \A x \in IdsOf(chunk) : write[x] \in Observation
      BY ChunkIds
    <3>3. \A x \in IdsOf(chunk) : write[x][f] \in Value \cup {Null}
      BY <3>2 DEF Observation
    <3>4. CASE Updated(chunk, write, c, f) = row[c][f]
      BY <3>1, <3>4
    <3>5. CASE \E x \in IdsOf(chunk) : Updated(chunk, write, c, f) = write[x][f]
      BY <3>3, <3>5
    <3> QED
      BY <3>4, <3>5, UpdatedIn
  <2>2. \A c \in BeatportId : [f \in Field |-> Updated(chunk, write, c, f)] \in Observation
    BY <2>1 DEF Observation
  <2>3. row' = [c \in BeatportId |->
                  IF c \in new THEN Content[v][c]
                  ELSE [f \in Field |-> Updated(chunk, write, c, f)]]
    BY DEF Apply
  <2> QED
    BY <2>2, <2>3
<1> QED
  BY <1>1, <1>2 DEF TypeOK, Apply

LEMMA Deliveries ==
    0 \in 0..MaxReceive /\ MaxReceive \in 0..MaxReceive
OBVIOUS

-----------------------------------------------------------------------------
(* Type correctness.                                                       *)

\* A run has fetched something before it is recorded, queued and worked on.
PathInv ==
    /\ \A r \in Run :
        /\ ingest[r].at = "fetched" => ingest[r].version \in Version
        /\ ingest[r].at \in {"put", "recorded"} => raw[KeyOf[r]].version \in Version
        /\ started[r] # 0 => ingest[r].at = "recorded"
        /\ queue[r] # 0 => started[r] # 0
    /\ \A w \in Worker : worker[w] # Idle => started[worker[w].run] # 0

USE DEF collectVars, runVars, limits, vars

LEMMA InitType == CatalogInit => CatalogTypeOK /\ PathInv
<1> SUFFICES ASSUME CatalogInit PROVE CatalogTypeOK /\ PathInv
  OBVIOUS
<1>1. Bare \in Observation
  BY DEF Bare, Observation
<1>2. TypeOK
  BY <1>1 DEF CatalogInit, Init, TypeOK
<1> QED
  BY <1>2 DEF CatalogInit, Init, CatalogTypeOK, PathInv, Idle

\* What a step of a worker within process_run works on.
LEMMA JobOf ==
    ASSUME CatalogTypeOK, PathInv, NEW w \in Worker, worker[w] # Idle
    PROVE  /\ worker[w] \in Job
           /\ worker[w].run \in Run
           /\ worker[w].version \in Version
           /\ worker[w].at \in Nat \ {0}
           /\ worker[w].new \in SUBSET BeatportId
           /\ worker[w].write \in [BeatportId -> Observation]
           /\ started[worker[w].run] # 0
           /\ Chunks(w) \in Seq(Chunk)
<1>1. worker[w] \in Job
  BY DEF CatalogTypeOK
<1>2. started[worker[w].run] # 0
  BY DEF PathInv
<1> QED
  BY <1>1, <1>2 DEF Job, Chunks

LEMMA NotIdle ==
    ASSUME NEW w \in Worker, worker[w].pc # "idle"
    PROVE  worker[w] # Idle
BY DEF Idle

LEMMA PublishType ==
    ASSUME CatalogTypeOK, PathInv, Publish
    PROVE  CatalogTypeOK' /\ PathInv'
BY DEF CatalogTypeOK, PathInv, Publish, TypeOK

LEMMA CollectType ==
    ASSUME CatalogTypeOK, PathInv, NEW r \in Run,
           Fetch(r) \/ Put(r) \/ Record(r)
    PROVE  CatalogTypeOK' /\ PathInv'
<1> USE DEF CatalogTypeOK, PathInv
<1>1. CASE Fetch(r)
  <2>1. TypeOK'
    BY <1>1 DEF Fetch, TypeOK
  <2>2. ingest' = [ingest EXCEPT ![r] = [at |-> "fetched", version |-> beatport]]
    BY <1>1 DEF Fetch, Collect
  <2> QED
    BY <1>1, <2>1, <2>2 DEF Fetch, Collect
<1>2. CASE Put(r)
  <2>1. TypeOK'
    BY <1>2 DEF Put, TypeOK
  <2>2. /\ ingest' = [ingest EXCEPT ![r] = [at |-> "put", version |-> 0]]
        /\ raw' = [raw EXCEPT ![KeyOf[r]] = [version |-> ingest[r].version, by |-> r]]
        /\ ingest[r].version \in Version
        /\ ingest[r].at = "fetched"
    BY <1>2 DEF Put, Collect
  <2>3. raw' \in [Key -> [version : Version \cup {0}, by : Run \cup {NoRun}]]
    BY <2>2
  <2>4. \A q \in Run : raw'[KeyOf[q]].version = raw[KeyOf[q]].version
                        \/ raw'[KeyOf[q]].version \in Version
    BY <2>2
  <2> QED
    BY <1>2, <2>1, <2>2, <2>3, <2>4 DEF Put, Collect
<1>3. CASE Record(r)
  <2>1. TypeOK'
    BY <1>3 DEF Record, Enqueue, Observe, TypeOK
  <2>2. /\ ingest' = [ingest EXCEPT ![r] = [at |-> "recorded", version |-> 0]]
        /\ status' = [status EXCEPT ![r] = "RAW_SAVED"]
        /\ started' = [started EXCEPT ![r] = clock + 1]
        /\ clock + 1 # 0
        /\ ingest[r].at = "put"
        /\ UNCHANGED <<raw, beatport, worker, replays, unreported>>
    BY <1>3 DEF Record, Enqueue, Observe, Collect, TypeOK
  <2>3. /\ queue' = queue \/ queue' = [queue EXCEPT ![r] = MaxReceive]
        /\ faults' \in 0..MaxFaults
    BY <1>3 DEF Record, Enqueue
  <2>4. \A q \in Run : started'[q] = started[q] \/ (q = r /\ started'[q] # 0)
    BY <2>2 DEF TypeOK
  <2>5. CatalogTypeOK'
    <3>1. ingest' \in [Run -> [at : {"none", "fetched", "put", "recorded"},
                               version : Version \cup {0}]]
      BY <2>2
    <3>2. status' \in [Run -> Status \cup {"none"}]
      BY <2>2 DEF Status
    <3>3. queue' \in [Run -> 0..MaxReceive]
      BY <2>3, Deliveries
    <3> QED
      BY <2>1, <2>2, <2>3, <3>1, <3>2, <3>3
  <2>6. \A q \in Run : queue'[q] = queue[q] \/ q = r
    BY <2>3
  <2>7. \A q \in Run : ingest'[q] = ingest[q] \/ (q = r /\ ingest'[q].at = "recorded")
    BY <2>2
  <2>8. raw[KeyOf[r]].version \in Version /\ started'[r] # 0
    BY <2>2 DEF TypeOK
  <2>9. \A w \in Worker : worker[w] # Idle => worker[w].run \in Run
    BY JobOf
  <2> QED
    BY <2>2, <2>4, <2>5, <2>6, <2>7, <2>8, <2>9
<1> QED
  BY <1>1, <1>2, <1>3

LEMMA BeginType ==
    ASSUME CatalogTypeOK, PathInv, NEW w \in Worker, NEW r \in Run,
           Receive(w, r) \/ Replay(w, r)
    PROVE  CatalogTypeOK' /\ PathInv'
<1> USE DEF CatalogTypeOK, PathInv
<1>1. started[r] # 0
  BY DEF Receive, Replay
<1>2. PICK seen \in Status \cup {Queued} : Begin(w, r, seen)
  BY DEF Receive, Replay, Status
<1>3. raw[KeyOf[r]].version \in Version
  BY <1>1
<1>4. NoWrites \in [BeatportId -> Observation]
  BY DEF NoWrites, Bare, Observation
<1> DEFINE first == [pc |-> "next", run |-> r, planned |-> seen, at |-> 1, new |-> {},
                     version |-> raw[KeyOf[r]].version, write |-> NoWrites]
<1>5. PICK job \in Job : worker' = [worker EXCEPT ![w] = job] /\ job.run = r
  <2>1. first \in Job /\ first.run = r
    BY <1>3, <1>4 DEF Job
  <2>2. worker' = [worker EXCEPT ![w] = first]
    BY <1>2 DEF Begin
  <2> QED
    BY <2>1, <2>2
<1>6. UNCHANGED <<vars, collectVars, status, unreported>>
  BY <1>2 DEF Begin
<1>7. /\ queue' = queue \/ (queue' = [queue EXCEPT ![r] = queue[r] - 1] /\ queue[r] > 0)
      /\ replays' \in 0..MaxReplays
      /\ UNCHANGED faults
  BY DEF Receive, Replay
<1>8. queue' \in [Run -> 0..MaxReceive]
  <2>1. queue \in [Run -> 0..MaxReceive]
    OBVIOUS
  <2>2. queue[r] > 0 => queue[r] - 1 \in 0..MaxReceive
    BY <2>1
  <2> DEFINE D == 0..MaxReceive
  <2> HIDE DEF D
  <2>3. CASE queue' = queue
    BY <2>1, <2>3 DEF D
  <2>4. CASE queue' = [queue EXCEPT ![r] = queue[r] - 1] /\ queue[r] > 0
    <3>1. queue \in [Run -> D] /\ queue[r] - 1 \in D
      BY <2>1, <2>2, <2>4 DEF D
    <3>2. queue' \in [Run -> D]
      BY <2>4, <3>1
    <3> QED
      BY <3>2 DEF D
  <2> QED
    BY <1>7, <2>3, <2>4
<1>9. TypeOK'
  BY <1>6 DEF TypeOK
<1>10. worker' \in [Worker -> Job \cup {Idle}]
  BY <1>5
<1>11. CatalogTypeOK'
  BY <1>6, <1>7, <1>8, <1>9, <1>10
<1>12. \A q \in Run : queue'[q] # 0 => started[q] # 0
  BY <1>1, <1>7
<1>13. \A u \in Worker : worker'[u] # Idle => started[worker'[u].run] # 0
  BY <1>1, <1>5
<1> QED
  BY <1>6, <1>11, <1>12, <1>13

\* A step that leaves worker w idle or on the same run, and the raw zone alone.
LEMMA WorkType ==
    ASSUME CatalogTypeOK, PathInv, NEW w \in Worker, worker[w] # Idle,
           TypeOK', UNCHANGED <<collectVars, started, replays>>,
           NEW job \in Job \cup {Idle}, worker' = [worker EXCEPT ![w] = job],
           job # Idle => job.run = worker[w].run,
           status' \in [Run -> Status \cup {"none"}],
           faults' \in 0..MaxFaults, unreported' \in SUBSET Run,
           queue' \in {queue, [queue EXCEPT ![worker[w].run] = 0]}
    PROVE  CatalogTypeOK' /\ PathInv'
<1> USE DEF CatalogTypeOK, PathInv
<1>1. worker[w].run \in Run /\ started[worker[w].run] # 0
  BY JobOf
<1>2. queue' \in [Run -> 0..MaxReceive] /\ \A q \in Run : queue'[q] # 0 => queue[q] # 0
  <2> DEFINE D == 0..MaxReceive
  <2>1. queue \in [Run -> D] /\ 0 \in D
    BY Deliveries
  <2> HIDE DEF D
  <2>2. queue' \in [Run -> D]
    BY <1>1, <2>1
  <2>3. \A q \in Run : queue'[q] # 0 => queue[q] # 0
    BY <1>1, <2>1
  <2> QED
    BY <2>2, <2>3 DEF D
<1>3. worker' \in [Worker -> Job \cup {Idle}]
  OBVIOUS
<1>4. CatalogTypeOK'
  BY <1>2, <1>3
<1>5. \A u \in Worker : worker'[u] # Idle => started[worker'[u].run] # 0
  BY <1>1
<1> QED
  BY <1>2, <1>4, <1>5

\* What a transaction has read belongs to a chunk of its run, and still is what it is in
\* the database; nobody else has its source rows.
LockInv ==
    \A w \in Worker : worker[w].pc = "read" =>
        /\ worker[w].at \in DOMAIN Chunks(w)
        /\ worker[w].new = Unclaimed(ChunkOf(w))
        /\ RowsFree(w)

LEMMA ProcessType ==
    ASSUME CatalogTypeOK, PathInv, LockInv, NEW w \in Worker,
           Progress(w) \/ FailRun(w) \/ Die(w)
    PROVE  CatalogTypeOK' /\ PathInv'
<1>0. worker[w] # Idle
  BY NotIdle DEF Progress, ReadChunk, CommitChunk, Finish, Return, FailRun, Die, Stop
<1> DEFINE j == worker[w]
<1>1. /\ j \in Job /\ j.run \in Run /\ j.version \in Version /\ j.at \in Nat \ {0}
      /\ j.new \in SUBSET BeatportId /\ j.write \in [BeatportId -> Observation]
      /\ Chunks(w) \in Seq(Chunk)
  BY <1>0, JobOf
<1>2. /\ status \in [Run -> Status \cup {"none"}] /\ faults \in 0..MaxFaults
      /\ unreported \in SUBSET Run
  BY DEF CatalogTypeOK
<1>3. CASE UNCHANGED vars /\ ~CommitChunk(w)
  <2>1. TypeOK'
    BY <1>3 DEF CatalogTypeOK, TypeOK
  <2>2. CASE ReadChunk(w)
    <3> DEFINE c == ChunkOf(w)
               job == [j EXCEPT !.pc = "read", !.new = Unclaimed(c),
                                !.write = Writes(j.run, j.version, c)]
    <3>1. c \in Chunk
      <4>1. j.at \in 1..Len(Chunks(w))
        BY <1>1, <2>2 DEF ReadChunk
      <4> QED
        BY <1>1, <4>1 DEF ChunkOf
    <3>2. Unclaimed(c) \in SUBSET BeatportId
          /\ Writes(j.run, j.version, c) \in [BeatportId -> Observation]
      BY <1>1, <3>1, WritesType DEF CatalogTypeOK
    <3>3. job \in Job /\ job.run = j.run
      BY <1>1, <3>2 DEF Job
    <3>4. worker' = [worker EXCEPT ![w] = job]
      BY <2>2 DEF ReadChunk
    <3> HIDE DEF job
    <3> QED
      BY <1>0, <1>2, <1>3, <2>1, <2>2, <3>3, <3>4, WorkType DEF ReadChunk, Working
  <2>3. CASE Finish(w)
    <3> DEFINE job == IF j.planned = Queued THEN [j EXCEPT !.pc = "done"] ELSE Idle
    <3>1. job \in Job \cup {Idle} /\ (job # Idle => job.run = j.run)
      BY <1>1 DEF Job
    <3>2. worker' = [worker EXCEPT ![w] = job]
      BY <2>3 DEF Finish
    <3>3. status' \in [Run -> Status \cup {"none"}]
      BY <1>1, <1>2, <2>3 DEF Finish, Status
    <3> HIDE DEF job
    <3> QED
      BY <1>0, <1>2, <1>3, <2>1, <2>3, <3>1, <3>2, <3>3, WorkType DEF Finish
  <2>4. CASE Return(w)
    BY <1>0, <1>2, <1>3, <2>1, <2>4, WorkType DEF Return
  <2>5. CASE FailRun(w) \/ Die(w)
    <3>1. status' \in [Run -> Status \cup {"none"}]
      BY <1>1, <1>2, <2>5 DEF FailRun, Die, Status
    <3>2. faults' \in 0..MaxFaults /\ unreported' \in SUBSET Run
      BY <1>1, <1>2, <2>5 DEF FailRun, Die, Stop
    <3>3. /\ worker' = [worker EXCEPT ![w] = Idle]
          /\ queue' \in {queue, [queue EXCEPT ![j.run] = 0]}
          /\ UNCHANGED <<collectVars, started, replays>>
      BY <2>5 DEF FailRun, Die, Stop
    <3> QED
      BY <1>0, <2>1, <3>1, <3>2, <3>3, WorkType
  <2> QED
    BY <1>3, <2>2, <2>3, <2>4, <2>5 DEF Progress
<1>4. CASE CommitChunk(w)
  <2> DEFINE c == ChunkOf(w)
             job == [j EXCEPT !.pc = "next", !.at = j.at + 1, !.new = {}, !.write = NoWrites]
  <2>1. NoWrites \in [BeatportId -> Observation]
    BY DEF NoWrites, Bare, Observation
  <2>2. job \in Job /\ job.run = j.run
    <3>1. j.at + 1 \in Nat \ {0}
      BY <1>1
    <3> QED
      BY <1>1, <2>1, <3>1 DEF Job
  <2>3. worker' = [worker EXCEPT ![w] = job]
    BY <1>4 DEF CommitChunk
  <2>4. TypeOK'
    <3>1. c \in Chunk
      BY <1>1, <1>4 DEF CommitChunk, ChunkOf, LockInv
    <3> QED
      BY <1>1, <1>4, <3>1, ApplyType DEF CommitChunk, CatalogTypeOK
  <2>5. UNCHANGED <<collectVars, started, replays, status, faults, queue, unreported>>
    BY <1>4 DEF CommitChunk, Apply, Working
  <2> HIDE DEF job
  <2> QED
    BY <1>0, <1>2, <2>2, <2>3, <2>4, <2>5, WorkType
<1> QED
  BY <1>3, <1>4 DEF Progress, ReadChunk, Finish, Return, FailRun, Die, Stop

-----------------------------------------------------------------------------
(* The rows of a transaction, and one row per id.                          *)

Inv == CatalogTypeOK /\ PathInv /\ LockInv /\ OneRowPerId

LEMMA InitInv == CatalogInit => Inv
<1> SUFFICES ASSUME CatalogInit PROVE LockInv /\ OneRowPerId
  BY InitType DEF Inv
<1>1. LockInv
  BY DEF CatalogInit, LockInv, Idle
<1>2. OneRowPerId
  BY DEF CatalogInit, Init, OneRowPerId
<1> QED
  BY <1>1, <1>2

\* Steps that start or end no transaction.
LEMMA LockFrame ==
    ASSUME LockInv, UNCHANGED identity,
           \A u \in Worker : worker'[u] = worker[u] \/ worker'[u].pc # "read"
    PROVE  LockInv'
<1>1. \A u \in Worker : worker'[u].pc = "read" =>
        /\ worker'[u] = worker[u]
        /\ Chunks(u)' = Chunks(u)
        /\ ChunkOf(u)' = ChunkOf(u)
  BY DEF Chunks, ChunkOf
<1>2. ASSUME NEW u \in Worker, worker'[u].pc = "read"
      PROVE  RowsFree(u)'
  <2>1. RowsFree(u)
    BY <1>1, <1>2 DEF LockInv
  <2>2. ASSUME NEW v \in Worker \ {u}, worker'[v].pc = "read"
        PROVE  IdsOf(ChunkOf(v)') \cap IdsOf(ChunkOf(u)') = {}
    BY <1>1, <1>2, <2>1, <2>2 DEF RowsFree
  <2> QED
    BY <2>2 DEF RowsFree, IdsOf
<1>3. ASSUME NEW u \in Worker, worker'[u].pc = "read"
      PROVE  worker'[u].at \in DOMAIN Chunks(u)' /\ worker'[u].new = Unclaimed(ChunkOf(u))'
  <2>1. worker[u].at \in DOMAIN Chunks(u) /\ worker[u].new = Unclaimed(ChunkOf(u))
    BY <1>1, <1>3 DEF LockInv
  <2>2. Unclaimed(ChunkOf(u))' = Unclaimed(ChunkOf(u))
    BY <1>1, <1>3 DEF Unclaimed, IdsOf
  <2> QED
    BY <1>1, <1>3, <2>1, <2>2
<1> QED
  BY <1>2, <1>3 DEF LockInv

LEMMA ReadLock ==
    ASSUME Inv, NEW w \in Worker, ReadChunk(w)
    PROVE  LockInv'
<1> USE DEF Inv
<1> DEFINE j == worker[w]
<1>1. /\ j \in Job /\ j.at \in Nat \ {0} /\ Chunks(w) \in Seq(Chunk)
  BY JobOf, NotIdle DEF ReadChunk
<1>2. j.at \in DOMAIN Chunks(w)
  BY <1>1 DEF ReadChunk
<1>3. worker \in [Worker -> Job \cup {Idle}]
  BY DEF CatalogTypeOK
<1>4. /\ worker'[w].pc = "read" /\ worker'[w].run = j.run /\ worker'[w].at = j.at
      /\ worker'[w].new = Unclaimed(ChunkOf(w))
      /\ \A u \in Worker \ {w} : worker'[u] = worker[u]
  BY <1>1, <1>3 DEF ReadChunk, Job
<1>5. UNCHANGED identity
  BY DEF ReadChunk
<1>6. \A u \in Worker : Chunks(u)' = Chunks(u) /\ ChunkOf(u)' = ChunkOf(u)
  BY <1>4 DEF Chunks, ChunkOf
<1>7. RowsFree(w)
  BY DEF ReadChunk
<1>8. ASSUME NEW u \in Worker, worker'[u].pc = "read"
      PROVE  RowsFree(u)'
  <2> SUFFICES ASSUME NEW v \in Worker \ {u}, worker'[v].pc = "read"
               PROVE  IdsOf(ChunkOf(v)') \cap IdsOf(ChunkOf(u)') = {}
    BY DEF RowsFree, IdsOf
  <2>1. CASE u = w
    <3>1. worker[v].pc = "read" /\ v \in Worker \ {w}
      BY <1>4, <2>1
    <3>2. IdsOf(ChunkOf(v)) \cap IdsOf(ChunkOf(w)) = {}
      BY <1>7, <3>1 DEF RowsFree
    <3> QED
      BY <1>6, <2>1, <3>2
  <2>2. CASE v = w
    <3>1. worker[u].pc = "read" /\ u \in Worker \ {w}
      BY <1>4, <1>8, <2>2
    <3>2. IdsOf(ChunkOf(u)) \cap IdsOf(ChunkOf(w)) = {}
      BY <1>7, <3>1 DEF RowsFree
    <3> QED
      BY <1>6, <2>2, <3>2
  <2>3. CASE u # w /\ v # w
    <3>1. worker[u].pc = "read" /\ worker[v].pc = "read"
      BY <1>4, <1>8, <2>3
    <3>2. IdsOf(ChunkOf(v)) \cap IdsOf(ChunkOf(u)) = {}
      BY <3>1 DEF LockInv, RowsFree
    <3> QED
      BY <1>6, <3>2
  <2> QED
    BY <2>1, <2>2, <2>3
<1>9. \A u \in Worker : worker'[u].pc = "read" =>
        worker'[u].at \in DOMAIN Chunks(u) /\ worker'[u].new = Unclaimed(ChunkOf(u))
  BY <1>2, <1>4 DEF LockInv
<1> QED
  BY <1>5, <1>6, <1>8, <1>9 DEF LockInv, Unclaimed

\* What a commit writes, in terms of the database it is committed to.
LEMMA CommitApplies ==
    ASSUME Inv, NEW w \in Worker, CommitChunk(w)
    PROVE  /\ ChunkOf(w) \in Chunk
           /\ worker[w].run \in Run
           /\ worker[w].version \in Version
           /\ started[worker[w].run] # 0
           /\ RowsFree(w)
           /\ Apply(worker[w].run, worker[w].version, ChunkOf(w), Unclaimed(ChunkOf(w)),
                    worker[w].write)
<1>1. /\ worker[w].run \in Run /\ worker[w].version \in Version
      /\ started[worker[w].run] # 0 /\ Chunks(w) \in Seq(Chunk)
  BY JobOf, NotIdle DEF CommitChunk, Inv
<1>2. worker[w].at \in DOMAIN Chunks(w) /\ worker[w].new = Unclaimed(ChunkOf(w))
      /\ RowsFree(w)
  BY DEF CommitChunk, Inv, LockInv
<1> QED
  BY <1>1, <1>2 DEF CommitChunk, ChunkOf

LEMMA CommitLock ==
    ASSUME Inv, NEW w \in Worker, CommitChunk(w)
    PROVE  LockInv'
<1> USE DEF Inv
<1>1. worker \in [Worker -> Job \cup {Idle}] /\ identity \in [BeatportId -> BeatportId \cup {0}]
  BY DEF CatalogTypeOK, TypeOK
<1>2. worker'[w].pc = "next" /\ \A u \in Worker \ {w} : worker'[u] = worker[u]
  <2>1. worker[w] \in Job
    BY JobOf, NotIdle DEF CommitChunk
  <2> QED
    BY <1>1, <2>1 DEF CommitChunk, Job
<1>3. \A u \in Worker \ {w} : Chunks(u)' = Chunks(u) /\ ChunkOf(u)' = ChunkOf(u)
  BY <1>2 DEF Chunks, ChunkOf
<1>4. ASSUME NEW u \in Worker \ {w}, worker[u].pc = "read"
      PROVE  Unclaimed(ChunkOf(u))' = Unclaimed(ChunkOf(u))
  <2>1. IdsOf(ChunkOf(u)) \cap IdsOf(ChunkOf(w)) = {}
    BY <1>4, CommitApplies DEF RowsFree
  <2>2. IdsOf(ChunkOf(u)) \subseteq BeatportId
    <3>1. Chunks(u) \in Seq(Chunk)
      BY <1>4, JobOf, NotIdle
    <3>2. ChunkOf(u) \in Chunk
      BY <1>4, <3>1 DEF LockInv, ChunkOf
    <3> QED
      BY <3>2, ChunkIds
  <2>3. \A x \in IdsOf(ChunkOf(u)) : identity'[x] = identity[x]
    <3>1. identity' = [x \in BeatportId |->
                        IF x \in Unclaimed(ChunkOf(w)) THEN x ELSE identity[x]]
      BY CommitApplies DEF Apply
    <3>2. Unclaimed(ChunkOf(w)) \subseteq IdsOf(ChunkOf(w))
      BY DEF Unclaimed
    <3> QED
      BY <2>1, <2>2, <3>1, <3>2
  <2>4. IdsOf(ChunkOf(u))' = IdsOf(ChunkOf(u))
    BY <1>3 DEF IdsOf
  <2> QED
    BY <2>3, <2>4 DEF Unclaimed
<1>5. ASSUME NEW u \in Worker \ {w}, worker[u].pc = "read"
      PROVE  RowsFree(u)'
  <2>1. RowsFree(u)
    BY <1>5 DEF LockInv
  <2>2. ASSUME NEW v \in Worker \ {u}, worker'[v].pc = "read"
        PROVE  IdsOf(ChunkOf(v)') \cap IdsOf(ChunkOf(u)') = {}
    BY <1>2, <1>3, <2>1, <2>2 DEF RowsFree
  <2> QED
    BY <2>2 DEF RowsFree, IdsOf
<1> QED
  BY <1>2, <1>3, <1>4, <1>5 DEF LockInv

LEMMA CommitOneRow ==
    ASSUME Inv, NEW w \in Worker, CommitChunk(w)
    PROVE  OneRowPerId'
<1> DEFINE new == Unclaimed(ChunkOf(w))
<1>1. \A x \in new : x \in BeatportId /\ x # 0 /\ identity[x] = 0
  BY CommitApplies, ChunkIds DEF Unclaimed
<1>2. /\ identity' = [x \in BeatportId |-> IF x \in new THEN x ELSE identity[x]]
      /\ made' = [x \in BeatportId |-> IF x \in new THEN made[x] + 1 ELSE made[x]]
  BY CommitApplies DEF Apply
<1> HIDE DEF new
<1> QED
  BY <1>1, <1>2 DEF OneRowPerId, Inv

LEMMA StepInv ==
    ASSUME Inv, [CatalogNext]_cvars
    PROVE  Inv'
<1> USE DEF Inv
<1>0. CASE Publish
  <2>1. UNCHANGED <<identity, made, worker>>
    BY <1>0 DEF Publish
  <2> QED
    BY <1>0, <2>1, PublishType, LockFrame DEF OneRowPerId
<1>1. ASSUME NEW r \in Run, Fetch(r) \/ Put(r) \/ Record(r)
      PROVE  Inv'
  <2>1. UNCHANGED <<identity, made, worker>>
    BY <1>1 DEF Fetch, Put, Record, Enqueue, Observe, Collect
  <2> QED
    BY <1>1, <2>1, CollectType, LockFrame DEF OneRowPerId
<1>2. ASSUME NEW w \in Worker, NEW r \in Run, Receive(w, r) \/ Replay(w, r)
      PROVE  Inv'
  <2>1. UNCHANGED <<identity, made>>
    BY <1>2 DEF Receive, Replay, Begin
  <2>2. \A u \in Worker : worker'[u] = worker[u] \/ worker'[u].pc # "read"
    BY <1>2 DEF Receive, Replay, Begin, CatalogTypeOK
  <2> QED
    BY <1>2, <2>1, <2>2, BeginType, LockFrame DEF OneRowPerId
<1>3. ASSUME NEW w \in Worker, ReadChunk(w)
      PROVE  Inv'
  BY <1>3, ProcessType, ReadLock DEF Progress, ReadChunk, OneRowPerId
<1>4. ASSUME NEW w \in Worker, CommitChunk(w)
      PROVE  Inv'
  BY <1>4, ProcessType, CommitLock, CommitOneRow DEF Progress
<1>5. ASSUME NEW w \in Worker, Finish(w) \/ Return(w) \/ FailRun(w) \/ Die(w)
      PROVE  Inv'
  <2>1. UNCHANGED <<identity, made>>
    BY <1>5 DEF Finish, Return, FailRun, Die, Stop
  <2>2. \A u \in Worker : worker'[u] = worker[u] \/ worker'[u].pc # "read"
    <3>1. worker[w] \in Job
      BY <1>5, JobOf, NotIdle DEF Finish, Return, FailRun, Die, Stop
    <3> QED
      BY <1>5, <3>1 DEF Finish, Return, FailRun, Die, Stop, Job, Idle, CatalogTypeOK
  <2> QED
    BY <1>5, <2>1, <2>2, ProcessType, LockFrame DEF Progress, OneRowPerId
<1>6. CASE UNCHANGED cvars
  <2>1. CatalogTypeOK' /\ PathInv'
    BY <1>6 DEF cvars, CatalogTypeOK, TypeOK, PathInv
  <2>2. UNCHANGED <<identity, made, worker>>
    BY <1>6 DEF cvars
  <2> QED
    BY <2>1, <2>2, LockFrame DEF OneRowPerId
<1> QED
  BY <1>0, <1>1, <1>2, <1>3, <1>4, <1>5, <1>6 DEF CatalogNext, Progress

-----------------------------------------------------------------------------
(* The theorems for every table of merged tracks.                          *)

\* Every state of the pipeline and the catalog is well typed.
THEOREM CatalogTypeCorrect == CatalogSpec => []CatalogTypeOK
<1>1. CatalogSpec => []Inv
  BY InitInv, StepInv, PTL DEF CatalogSpec
<1> QED
  BY <1>1, PTL DEF Inv

\* However many workers meet a new Beatport id at once, it gets one canonical row
\* (_resolve_identities, ADR-0022).
THEOREM OneCanonicalRow == CatalogSpec => []OneRowPerId
<1>1. CatalogSpec => []Inv
  BY InitInv, StepInv, PTL DEF CatalogSpec
<1> QED
  BY <1>1, PTL DEF Inv

-----------------------------------------------------------------------------
(* Without merged tracks, the reads of a transaction still stand when it   *)
(* commits.                                                                *)

\* No two Beatport ids share a track.
Unmerged == \A x \in BeatportId : LegacyRow[x] \in {0, x}

\* w has read the chunk for run r with version v.
HasRead(w, r, v, chunk) ==
    /\ worker[w].pc = "read"
    /\ worker[w].run = r
    /\ worker[w].version = v
    /\ ChunkOf(w) = chunk

ReadsStand ==
    \A w \in Worker, r \in Run, v \in Version, chunk \in Chunk :
        HasRead(w, r, v, chunk) => worker[w].write = Writes(r, v, chunk)

\* The row of a claimed id is its own.
LEMMA OwnRow ==
    ASSUME Unmerged, OneRowPerId, NEW x \in BeatportId, identity[x] # 0
    PROVE  identity[x] = x
BY DEF Unmerged, OneRowPerId

LEMMA OwnStale ==
    ASSUME Unmerged, OneRowPerId, NEW src, NEW r, NEW x \in BeatportId, identity[x] # 0
    PROVE  Stale(src, x, r) = Newer(src[x], r)
<1>1. \A y \in Track \ {x} : identity[y] # identity[x]
  BY OwnRow
<1> QED
  BY <1>1 DEF Stale, Newer

\* What a claimed id of the chunk writes depends on its own rows alone.
LEMMA OwnWrite ==
    ASSUME Unmerged, OneRowPerId, NEW r, NEW v, NEW chunk \in Chunk,
           NEW x \in Track \cap IdsOf(chunk), identity[x] # 0
    PROVE  Writes(r, v, chunk)[x] =
                track_update(row[x], Content[v][x], Newer(source[x], r))
<1>1. x \in BeatportId /\ x \notin Unclaimed(chunk) /\ identity[x] = x
  BY OwnRow, ChunkIds DEF Unclaimed
<1>2. Stale(Upserted(r, v, chunk), x, r) = Newer(Upserted(r, v, chunk)[x], r)
  BY <1>1, OwnStale
<1>3. Newer(Upserted(r, v, chunk)[x], r) = Newer(source[x], r)
  BY <1>1 DEF Upserted, Newer
<1> QED
  BY <1>1, <1>2, <1>3 DEF Writes

LEMMA WritesFrame ==
    ASSUME Unmerged, OneRowPerId, OneRowPerId', NEW r \in Run, NEW v, NEW chunk \in Chunk,
           started'[r] = started[r],
           \A x \in IdsOf(chunk) :
                source'[x] = source[x] /\ identity'[x] = identity[x] /\ row'[x] = row[x]
    PROVE  Writes(r, v, chunk)' = Writes(r, v, chunk)
<1>1. Unclaimed(chunk)' = Unclaimed(chunk)
  BY DEF Unclaimed, IdsOf
<1> DEFINE W == Writes(r, v, chunk)
<1>2. ASSUME NEW x \in BeatportId, x \in Track \cap (IdsOf(chunk) \ Unclaimed(chunk))
      PROVE  W'[x] = W[x]
  <2>1. identity[x] # 0 /\ identity'[x] # 0
    BY <1>2 DEF Unclaimed
  <2>2. W[x] = track_update(row[x], Content[v][x], Newer(source[x], r))
    BY <1>2, <2>1, OwnWrite
  <2>3. Newer(source[x], r)' = Newer(source[x], r)
    BY <1>2 DEF Newer
  <2>4. identity'[x] = x /\ identity[x] = x
    BY <1>2, <2>1, OwnRow
  <2>5. \A y \in Track \ {x} : identity'[y] # x
    BY DEF Unmerged, OneRowPerId
  <2>6. W'[x] = track_update(row'[x], Content[v][x], Newer(source[x], r)')
    <3>1. Stale(Upserted(r, v, chunk), x, r)' = Newer(source[x], r)'
      BY <1>2, <2>4, <2>5 DEF Stale, Upserted, Newer, IdsOf
    <3> QED
      BY <1>1, <1>2, <2>4, <3>1 DEF Writes, track_update, IdsOf
  <2> QED
    BY <1>2, <2>2, <2>3, <2>6
<1>3. ASSUME NEW x \in BeatportId, x \notin Track \cap (IdsOf(chunk) \ Unclaimed(chunk))
      PROVE  W'[x] = W[x]
  BY <1>1, <1>3 DEF Writes, IdsOf, Bare
<1>4. /\ W = [x \in BeatportId |-> W[x]]
      /\ W' = [x \in BeatportId |-> W'[x]]
  BY DEF Writes
<1> QED
  BY <1>2, <1>3, <1>4

\* A commit leaves what other transactions have read alone.
LEMMA CommitFrame ==
    ASSUME Unmerged, Inv, NEW w \in Worker, CommitChunk(w), NEW chunk \in Chunk,
           IdsOf(chunk) \cap IdsOf(ChunkOf(w)) = {}, NEW x \in IdsOf(chunk)
    PROVE  source'[x] = source[x] /\ identity'[x] = identity[x] /\ row'[x] = row[x]
<1> DEFINE c == ChunkOf(w)
           r == worker[w].run
           v == worker[w].version
           write == worker[w].write
<1>1. x \in BeatportId /\ x \notin IdsOf(c) /\ x \notin Unclaimed(c)
  BY ChunkIds DEF Unclaimed
<1>2. Apply(r, v, c, Unclaimed(c), write) /\ c \in Chunk
  BY CommitApplies
<1>3. source'[x] = source[x] /\ identity'[x] = identity[x]
  BY <1>1, <1>2 DEF Apply, Upserted
<1>4. \A f \in Field : Updated(c, write, x, f) = row[x][f]
  <2> SUFFICES ASSUME NEW f \in Field PROVE Updated(c, write, x, f) = row[x][f]
    OBVIOUS
  <2>1. \A y \in IdsOf(c) : identity[y] # x
    <3> SUFFICES ASSUME NEW y \in IdsOf(c), identity[y] = x PROVE FALSE
      OBVIOUS
    <3>1. y \in BeatportId /\ x # 0
      BY <1>1, <1>2, ChunkIds
    <3>2. y = x
      BY <3>1, OwnRow DEF Inv
    <3> QED
      BY <1>1, <3>2
  <2> HIDE DEF c, write
  <2>2. \/ Updated(c, write, x, f) = row[x][f]
        \/ \E y \in IdsOf(c) : identity[y] = x
    BY <1>2, UpdatedIn
  <2> QED
    BY <2>1, <2>2
<1>5. row'[x] = [f \in Field |-> Updated(c, write, x, f)]
  BY <1>1, <1>2 DEF Apply
<1>6. row[x] = [f \in Field |-> row[x][f]]
  <2>1. row[x] \in Observation
    BY <1>1 DEF Inv, CatalogTypeOK, TypeOK
  <2> QED
    BY <2>1 DEF Observation
<1> QED
  BY <1>3, <1>4, <1>5, <1>6

LEMMA ReadChunkOf ==
    ASSUME Inv, NEW u \in Worker, worker[u].pc = "read"
    PROVE  ChunkOf(u) \in Chunk /\ worker[u].run \in Run /\ started[worker[u].run] # 0
<1>1. Chunks(u) \in Seq(Chunk) /\ worker[u].run \in Run /\ started[worker[u].run] # 0
  BY JobOf, NotIdle DEF Inv
<1> QED
  BY <1>1 DEF Inv, LockInv, ChunkOf

\* A transaction that was open before the step and is after it, and whose rows and run
\* the step leaves alone.
LEMMA StandFrame ==
    ASSUME Unmerged, Inv, Inv', ReadsStand, NEW u \in Worker, NEW r \in Run, NEW v \in Version,
           NEW chunk \in Chunk, HasRead(u, r, v, chunk), worker'[u] = worker[u],
           started'[r] = started[r],
           \A x \in IdsOf(chunk) :
                source'[x] = source[x] /\ identity'[x] = identity[x] /\ row'[x] = row[x]
    PROVE  worker'[u].write = Writes(r, v, chunk)'
<1>1. worker[u].write = Writes(r, v, chunk)
  BY DEF ReadsStand
<1>2. Writes(r, v, chunk)' = Writes(r, v, chunk)
  BY WritesFrame DEF Inv
<1> QED
  BY <1>1, <1>2

\* A step that opens no transaction, on other rows than those of the open ones.
LEMMA StandStep ==
    ASSUME Unmerged, Inv, Inv', ReadsStand,
           \A u \in Worker : worker'[u].pc = "read" => worker'[u] = worker[u],
           \A r \in Run : started[r] # 0 => started'[r] = started[r],
           \A u \in Worker : worker'[u].pc = "read" => \A x \in IdsOf(ChunkOf(u)) :
                source'[x] = source[x] /\ identity'[x] = identity[x] /\ row'[x] = row[x]
    PROVE  ReadsStand'
<1> SUFFICES ASSUME NEW u \in Worker, NEW r \in Run, NEW v \in Version, NEW chunk \in Chunk,
                    HasRead(u, r, v, chunk)'
             PROVE  worker'[u].write = Writes(r, v, chunk)'
  BY DEF ReadsStand
<1>1. worker'[u].pc = "read" /\ worker'[u] = worker[u]
  BY DEF HasRead
<1>2. HasRead(u, r, v, chunk)
  BY <1>1 DEF HasRead, ChunkOf, Chunks
<1>3. started'[r] = started[r]
  BY <1>2, ReadChunkOf DEF HasRead
<1>4. \A x \in IdsOf(chunk) :
        source'[x] = source[x] /\ identity'[x] = identity[x] /\ row'[x] = row[x]
  BY <1>1, <1>2 DEF HasRead
<1> QED
  BY <1>1, <1>2, <1>3, <1>4, StandFrame

LEMMA ReadStands ==
    ASSUME Unmerged, Inv, Inv', ReadsStand, NEW w \in Worker, ReadChunk(w)
    PROVE  ReadsStand'
<1> SUFFICES ASSUME NEW u \in Worker, NEW r \in Run, NEW v \in Version, NEW chunk \in Chunk,
                    HasRead(u, r, v, chunk)'
             PROVE  worker'[u].write = Writes(r, v, chunk)'
  BY DEF ReadsStand
<1>1. UNCHANGED <<source, identity, row, made, started, clock>>
  BY DEF ReadChunk
<1>2. Writes(r, v, chunk)' = Writes(r, v, chunk)
  BY <1>1, WritesFrame DEF Inv
<1>3. worker[w] \in Job /\ worker \in [Worker -> Job \cup {Idle}]
  BY JobOf, NotIdle DEF ReadChunk, Inv, CatalogTypeOK
<1>4. CASE u # w
  <2>1. worker'[u] = worker[u]
    BY <1>4 DEF ReadChunk
  <2>2. HasRead(u, r, v, chunk)
    BY <2>1 DEF HasRead, ChunkOf, Chunks
  <2> QED
    BY <1>2, <2>1, <2>2 DEF ReadsStand
<1>5. CASE u = w
  <2>1. /\ worker'[w].run = worker[w].run
        /\ worker'[w].version = worker[w].version
        /\ worker'[w].at = worker[w].at
        /\ worker'[w].write = Writes(worker[w].run, worker[w].version, ChunkOf(w))
    BY <1>3 DEF ReadChunk, Job
  <2>2. worker[w].run = r /\ worker[w].version = v /\ ChunkOf(w) = chunk
    BY <1>5, <2>1 DEF HasRead, ChunkOf, Chunks
  <2> QED
    BY <1>2, <1>5, <2>1, <2>2
<1> QED
  BY <1>4, <1>5

LEMMA CommitStands ==
    ASSUME Unmerged, Inv, Inv', ReadsStand, NEW w \in Worker, CommitChunk(w)
    PROVE  ReadsStand'
<1>1. worker[w] \in Job /\ worker \in [Worker -> Job \cup {Idle}]
  BY JobOf, NotIdle DEF CommitChunk, Inv, CatalogTypeOK
<1>2. \A u \in Worker : worker'[u].pc = "read" => worker'[u] = worker[u] /\ u # w
  BY <1>1 DEF CommitChunk, Job
<1>3. ASSUME NEW u \in Worker, worker'[u].pc = "read", NEW x \in IdsOf(ChunkOf(u))
      PROVE  source'[x] = source[x] /\ identity'[x] = identity[x] /\ row'[x] = row[x]
  <2>1. worker[u].pc = "read" /\ u \in Worker \ {w}
    BY <1>2, <1>3
  <2>2. IdsOf(ChunkOf(u)) \cap IdsOf(ChunkOf(w)) = {}
    BY <2>1, CommitApplies DEF RowsFree
  <2>3. PICK chunk \in Chunk : chunk = ChunkOf(u)
    BY <2>1, ReadChunkOf
  <2> QED
    BY <1>3, <2>2, <2>3, CommitFrame
<1>4. \A r \in Run : started'[r] = started[r]
  BY DEF CommitChunk, Apply
<1> QED
  BY <1>2, <1>3, <1>4, StandStep

\* The write sets are the same when nothing of the catalog changes.
LEMMA StepStands ==
    ASSUME Unmerged, Inv, Inv', ReadsStand, [CatalogNext]_cvars
    PROVE  ReadsStand'
<1>0. CASE Publish \/ UNCHANGED cvars
  BY <1>0, StandStep DEF Publish, cvars
<1>1. ASSUME NEW r \in Run, Fetch(r) \/ Put(r)
      PROVE  ReadsStand'
  BY <1>1, StandStep DEF Fetch, Put, Collect
<1>2. ASSUME NEW r \in Run, Record(r)
      PROVE  ReadsStand'
  <2>1. UNCHANGED <<source, identity, row, worker>>
    BY <1>2 DEF Record, Enqueue, Observe, Collect
  <2>2. \A q \in Run : started[q] # 0 => started'[q] = started[q]
    BY <1>2 DEF Record, Enqueue, Observe, Inv, CatalogTypeOK, TypeOK
  <2> QED
    BY <2>1, <2>2, StandStep
<1>3. ASSUME NEW w \in Worker, NEW r \in Run, Receive(w, r) \/ Replay(w, r)
      PROVE  ReadsStand'
  <2>1. UNCHANGED vars
    BY <1>3 DEF Receive, Replay, Begin
  <2>2. \A u \in Worker : worker'[u].pc = "read" => worker'[u] = worker[u]
    BY <1>3 DEF Receive, Replay, Begin, Inv, CatalogTypeOK
  <2> QED
    BY <2>1, <2>2, StandStep
<1>4. ASSUME NEW w \in Worker, Finish(w) \/ Return(w) \/ FailRun(w) \/ Die(w)
      PROVE  ReadsStand'
  <2>1. UNCHANGED vars
    BY <1>4 DEF Finish, Return, FailRun, Die, Stop
  <2>2. \A u \in Worker : worker'[u].pc = "read" => worker'[u] = worker[u]
    <3>1. worker[w] \in Job
      BY <1>4, JobOf, NotIdle DEF Finish, Return, FailRun, Die, Stop, Inv
    <3> QED
      BY <1>4, <3>1 DEF Finish, Return, FailRun, Die, Stop, Job, Idle, Inv, CatalogTypeOK
  <2> QED
    BY <2>1, <2>2, StandStep
<1> QED
  BY <1>0, <1>1, <1>2, <1>3, <1>4, ReadStands, CommitStands DEF CatalogNext, Progress

-----------------------------------------------------------------------------
\* The commit of a chunk is its merge.
LEMMA CommitMerges ==
    ASSUME Unmerged, Inv, ReadsStand, NEW w \in Worker, CommitChunk(w)
    PROVE  \E r \in Run, v \in Version, chunk \in Chunk : Merge(r, v, chunk)
<1>1. PICK r \in Run, v \in Version, chunk \in Chunk : HasRead(w, r, v, chunk)
  BY CommitApplies DEF HasRead, CommitChunk
<1>2. started[r] # 0 /\ Apply(r, v, chunk, Unclaimed(chunk), worker[w].write)
  BY <1>1, CommitApplies DEF HasRead
<1>3. worker[w].write = Writes(r, v, chunk)
  BY <1>1 DEF ReadsStand
<1> QED
  BY <1>2, <1>3 DEF Merge

LEMMA StepRefines ==
    ASSUME Unmerged, Inv, ReadsStand, [CatalogNext]_cvars
    PROVE  [Next]_vars
<1>1. ASSUME NEW r \in Run, Fetch(r) \/ Put(r) \/ Record(r)
      PROVE  [Next]_vars
  BY <1>1 DEF Fetch, Put, Record, Enqueue, Next
<1>2. ASSUME NEW w \in Worker, NEW r \in Run, Receive(w, r) \/ Replay(w, r)
      PROVE  UNCHANGED vars
  BY <1>2 DEF Receive, Replay, Begin
<1>3. ASSUME NEW w \in Worker, ReadChunk(w) \/ Finish(w) \/ Return(w) \/ FailRun(w) \/ Die(w)
      PROVE  UNCHANGED vars
  BY <1>3 DEF ReadChunk, Finish, Return, FailRun, Die, Stop
<1>4. ASSUME NEW w \in Worker, CommitChunk(w)
      PROVE  Next
  BY <1>4, CommitMerges DEF Next
<1>5. CASE Publish \/ UNCHANGED cvars
  BY <1>5 DEF Publish, cvars
<1> QED
  BY <1>1, <1>2, <1>3, <1>4, <1>5 DEF CatalogNext, Progress

LEMMA InitStands == CatalogInit => ReadsStand
BY DEF CatalogInit, ReadsStand, HasRead, Idle

\* Where no tracks were merged, any interleaving of workers, redeliveries, replays and
\* collects that overwrite raw objects is a sequence of whole chunks (ADR-0022, ADR-0024).
THEOREM ChunksAreAtomic == Unmerged => (CatalogSpec => ChunksMergeAtomically)
<1> SUFFICES ASSUME Unmerged PROVE CatalogSpec => ChunksMergeAtomically
  OBVIOUS
<1>1. CatalogInit => Inv /\ ReadsStand
  BY InitInv, InitStands
<1>2. Inv /\ ReadsStand /\ [CatalogNext]_cvars => (Inv /\ ReadsStand)'
  BY StepInv, StepStands
<1>3. Inv /\ ReadsStand /\ [CatalogNext]_cvars => [Next]_vars
  BY StepRefines
<1>4. CatalogInit => Init
  BY DEF CatalogInit
<1> QED
  BY <1>1, <1>2, <1>3, <1>4, PTL DEF CatalogSpec, ChunksMergeAtomically, Spec

-----------------------------------------------------------------------------
(* Without merged tracks, a track's row shows its observation.             *)

Shown ==
    \A x \in Track :
        IF identity[x] = 0 THEN source[x].seen = 0
        ELSE \A f \in Field : source[x].payload[f] # Null =>
                row[x][f] = source[x].payload[f]

\* Of the columns of a claimed id, a transaction writes those it found to be written.
LEMMA OwnUpdate ==
    ASSUME Unmerged, Inv, NEW chunk \in Chunk, NEW write,
           NEW x \in IdsOf(chunk), identity[x] # 0, NEW f
    PROVE  Updated(chunk, write, x, f) = IF write[x][f] = Null THEN row[x][f] ELSE write[x][f]
<1>1. x \in BeatportId /\ identity[x] = x
  BY ChunkIds, OwnRow DEF Inv
<1>2. PICK i \in DOMAIN chunk : chunk[i] = x
  BY DEF IdsOf
<1>3. \A y \in IdsOf(chunk) : identity[y] = x => y = x
  <2> SUFFICES ASSUME NEW y \in IdsOf(chunk), identity[y] = x PROVE y = x
    OBVIOUS
  <2>1. y \in BeatportId /\ x # 0
    BY <1>1, ChunkIds
  <2> QED
    BY <2>1, OwnRow DEF Inv
<1>4. CASE write[x][f] = Null
  <2>1. ~ \E y \in IdsOf(chunk) : identity[y] = x /\ write[y][f] # Null
    BY <1>3, <1>4
  <2>2. \/ Updated(chunk, write, x, f) = row[x][f]
        \/ \E y \in IdsOf(chunk) : identity[y] = x /\ write[y][f] # Null
    BY UpdatedIn
  <2> QED
    BY <1>4, <2>1, <2>2
<1>5. CASE write[x][f] # Null
  <2>1. \E y \in IdsOf(chunk) : /\ identity[y] = x
                               /\ Updated(chunk, write, x, f) = write[y][f]
    BY <1>1, <1>2, <1>5, UpdatedHit
  <2> QED
    BY <1>3, <1>5, <2>1
<1> QED
  BY <1>4, <1>5

LEMMA MergeShows ==
    ASSUME Unmerged, Inv, Shown, NEW r \in Run, NEW v \in Version, NEW chunk \in Chunk,
           Apply(r, v, chunk, Unclaimed(chunk), Writes(r, v, chunk)),
           NEW x \in Track, x \in IdsOf(chunk), NEW f \in Field,
           source'[x].payload[f] # Null
    PROVE  identity'[x] # 0 /\ row'[x][f] = source'[x].payload[f]
<1>1. /\ source \in [BeatportId -> [run : Run \cup {NoRun}, seen : Nat, payload : Observation]]
      /\ row \in [BeatportId -> Observation]
      /\ started \in [Run -> Nat]
      /\ x \in BeatportId /\ x # 0
      /\ Content[v][x] \in Observation
  BY DEF Inv, CatalogTypeOK, TypeOK
<1>2. source'[x] = IF Newer(source[x], r) THEN source[x]
                   ELSE [run |-> r, seen |-> started[r], payload |-> Content[v][x]]
  BY <1>1 DEF Apply, Upserted
<1>3. CASE identity[x] = 0
  <2>1. x \in Unclaimed(chunk)
    BY <1>3 DEF Unclaimed
  <2>2. identity'[x] = x /\ row'[x] = Content[v][x]
    BY <1>1, <2>1 DEF Apply
  <2>3. ~Newer(source[x], r)
    BY <1>1, <1>3 DEF Shown, Newer
  <2> QED
    BY <1>1, <1>2, <2>2, <2>3
<1>4. CASE identity[x] # 0
  <2> DEFINE W == Writes(r, v, chunk)
             stale == Newer(source[x], r)
  <2>1. identity'[x] = identity[x] /\ x \notin Unclaimed(chunk)
    BY <1>1, <1>4 DEF Apply, Unclaimed
  <2>2. W[x] = track_update(row[x], Content[v][x], stale)
    BY <1>4, OwnWrite DEF Inv
  <2>3. W[x][f] = IF stale /\ row[x][f] # Null THEN Null ELSE Content[v][x][f]
    BY <2>2 DEF track_update
  <2>4. row'[x][f] = Updated(chunk, W, x, f)
    BY <1>1, <2>1 DEF Apply
  <2> HIDE DEF W, stale
  <2>5. row'[x][f] = IF W[x][f] = Null THEN row[x][f] ELSE W[x][f]
    <3>1. ASSUME NEW write
          PROVE  Updated(chunk, write, x, f)
                    = IF write[x][f] = Null THEN row[x][f] ELSE write[x][f]
      BY <1>4, OwnUpdate
    <3> QED
      BY <2>4, <3>1
  <2>6. source[x].payload[f] # Null => row[x][f] = source[x].payload[f]
    BY <1>4 DEF Shown
  <2>7. stale => row'[x][f] = source'[x].payload[f]
    BY <1>2, <2>3, <2>5, <2>6 DEF stale
  <2>8. ~stale => row'[x][f] = source'[x].payload[f]
    BY <1>1, <1>2, <2>3, <2>5 DEF stale
  <2>9. identity'[x] # 0 /\ (stale \/ ~stale)
    BY <1>4, <2>1
  <2> QED
    BY <2>7, <2>8, <2>9
<1> QED
  BY <1>3, <1>4

LEMMA CommitShows ==
    ASSUME Unmerged, Inv, ReadsStand, Shown, NEW w \in Worker, CommitChunk(w)
    PROVE  Shown'
<1> SUFFICES ASSUME NEW x \in Track
             PROVE  (IF identity[x] = 0 THEN source[x].seen = 0
                     ELSE \A f \in Field : source[x].payload[f] # Null =>
                             row[x][f] = source[x].payload[f])'
  BY DEF Shown
<1>1. PICK r \in Run, v \in Version, chunk \in Chunk : HasRead(w, r, v, chunk)
  BY CommitApplies DEF HasRead, CommitChunk
<1>2. Apply(r, v, chunk, Unclaimed(chunk), Writes(r, v, chunk))
  <2>1. worker[w].write = Writes(r, v, chunk)
    BY <1>1 DEF ReadsStand
  <2>2. Apply(r, v, chunk, Unclaimed(chunk), worker[w].write)
    BY <1>1, CommitApplies DEF HasRead
  <2> QED
    BY <2>1, <2>2
<1>3. CASE x \in IdsOf(chunk)
  <2>1. x \in BeatportId /\ x # 0
    OBVIOUS
  <2>2. identity'[x] = IF x \in Unclaimed(chunk) THEN x ELSE identity[x]
    BY <1>2, <2>1 DEF Apply
  <2>3. identity[x] # 0 \/ x \in Unclaimed(chunk)
    BY <1>3 DEF Unclaimed
  <2>4. identity'[x] # 0
    BY <2>1, <2>2, <2>3
  <2>5. identity'[x] = x
    BY <2>2, <2>3, OwnRow DEF Inv
  <2> QED
    BY <1>2, <1>3, <2>4, <2>5, MergeShows
<1>4. CASE x \notin IdsOf(chunk)
  <2>1. source'[x] = source[x] /\ identity'[x] = identity[x]
    BY <1>2, <1>4 DEF Apply, Upserted, Unclaimed
  <2>2. \A f \in Field : identity[x] # 0 => row'[x][f] = row[x][f]
    <3> SUFFICES ASSUME NEW f \in Field, identity[x] # 0 PROVE row'[x][f] = row[x][f]
      OBVIOUS
    <3>1. identity[x] = x /\ x \in BeatportId /\ x \notin Unclaimed(chunk)
      BY OwnRow DEF Inv, Unclaimed
    <3>2. row'[x][f] = Updated(chunk, Writes(r, v, chunk), x, f)
      BY <1>2, <3>1 DEF Apply
    <3>3. \A y \in IdsOf(chunk) : identity[y] # x
      <4> SUFFICES ASSUME NEW y \in IdsOf(chunk), identity[y] = x PROVE FALSE
        OBVIOUS
      <4>1. y \in BeatportId /\ x # 0
        BY <3>1, ChunkIds
      <4> QED
        BY <1>4, <4>1, OwnRow DEF Inv
    <3>4. ASSUME NEW write PROVE Updated(chunk, write, x, f) = row[x][f]
      <4>1. \/ Updated(chunk, write, x, f) = row[x][f]
            \/ \E y \in IdsOf(chunk) : identity[y] = x
        BY UpdatedIn
      <4> QED
        BY <3>3, <4>1
    <3> QED
      BY <3>2, <3>4
  <2> QED
    BY <2>1, <2>2 DEF Shown
<1> QED
  BY <1>3, <1>4

LEMMA StepShows ==
    ASSUME Unmerged, Inv, ReadsStand, Shown, [CatalogNext]_cvars
    PROVE  Shown'
<1>1. CASE \E w \in Worker : CommitChunk(w)
  BY <1>1, CommitShows
<1>2. CASE ~(\E w \in Worker : CommitChunk(w))
  <2>1. UNCHANGED <<source, identity, row>>
    BY <1>2 DEF CatalogNext, Publish, Fetch, Put, Record, Enqueue, Observe, Receive, Replay, Begin,
                Progress, ReadChunk, Finish, Return, FailRun, Die, Stop, cvars
  <2> QED
    BY <2>1 DEF Shown
<1> QED
  BY <1>1, <1>2

LEMMA ShownFollows ==
    ASSUME Unmerged, Inv, Shown
    PROVE  RowFollowsNewest /\ RowAlwaysFollowsNewest
<1> SUFFICES ASSUME NEW x \in Track, Newest(x), NEW f \in Field,
                    source[x].payload[f] # Null
             PROVE  row[identity[x]][f] = source[x].payload[f]
  BY DEF RowFollowsNewest, RowAlwaysFollowsNewest, Shows
<1>1. identity[x] # 0
  BY DEF Newest
<1>2. identity[x] = x
  BY <1>1, OwnRow DEF Inv
<1> QED
  BY <1>1, <1>2 DEF Shown

LEMMA InitShows == CatalogInit => Shown
BY DEF CatalogInit, Init, Shown, Bare

\* Where no tracks were merged, every track's row carries what the latest run to observe it
\* saw, in any week and chunk, whatever order runs are canonicalized in and however often (track_update,
\* the condition of batch_upsert_source_entities).
THEOREM RowsFollowNewest ==
    Unmerged => (CatalogSpec => [](RowFollowsNewest /\ RowAlwaysFollowsNewest))
<1> SUFFICES ASSUME Unmerged
             PROVE  CatalogSpec => [](RowFollowsNewest /\ RowAlwaysFollowsNewest)
  OBVIOUS
<1> DEFINE I == Inv /\ ReadsStand /\ Shown
<1>1. CatalogInit => I
  BY InitInv, InitStands, InitShows
<1>2. I /\ [CatalogNext]_cvars => I'
  BY StepInv, StepStands, StepShows
<1>3. I => RowFollowsNewest /\ RowAlwaysFollowsNewest
  BY ShownFollows
<1> QED
  BY <1>1, <1>2, <1>3, PTL DEF CatalogSpec

-----------------------------------------------------------------------------
(* A completed run is shown, for every table of merged tracks.  Reached: the *)
(* chunks a worker has behind it are in the catalog, of its run or a later   *)
(* one, and stay so.  CurrentFor: the object of a run is overwritten before  *)
(* the next run of it is recorded, and read when a worker begins; so who     *)
(* works for the run an object names, or for a later one, has read the       *)
(* object as it is.                                                          *)

\* Run r's chunk has been committed, if not by it then by a later run.
Reached(r, chunk) ==
    \A x \in IdsOf(chunk) : identity[x] # 0 /\ source[x].seen >= started[r]

\* An observation is of a recorded run that lists the id, and has its time.
ObservedInv ==
    /\ \A r \in Run : started[r] <= clock
    /\ \A x \in BeatportId :
        IF source[x].run = NoRun THEN source[x].seen = 0
        ELSE /\ source[x].seen = started[source[x].run] /\ source[x].seen # 0
             /\ x \in Listed(KeyOf[source[x].run])

\* What a worker has behind it, and what a completed run has.
ReachInv ==
    /\ \A w \in Worker : worker[w] # Idle =>
        \A i \in DOMAIN Chunks(w) : i < worker[w].at => Reached(worker[w].run, Chunks(w)[i])
    /\ \A r \in Run : status[r] = "COMPLETED" =>
        /\ started[r] # 0
        /\ \A i \in DOMAIN Listing[KeyOf[r]] : Reached(r, Listing[KeyOf[r]][i])

\* Once the run whose data a raw object holds is recorded, this run and later ones of the
\* object work with that data and observe nothing else.
CurrentFor(k, r) ==
    /\ \A w \in Worker :
        worker[w] # Idle /\ KeyOf[worker[w].run] = k /\ started[worker[w].run] >= started[r]
          => worker[w].version = raw[k].version
    /\ \A x \in BeatportId :
        source[x].run # NoRun /\ KeyOf[source[x].run] = k /\ source[x].seen >= started[r]
          => source[x].payload = Content[raw[k].version][x]

CurrentInv ==
    \A k \in Key, r \in Run : raw[k].by = r =>
        KeyOf[r] = k /\ (started[r] # 0 => CurrentFor(k, r))

InForce == ObservedInv /\ ReachInv /\ CurrentInv

LEMMA InitInForce == CatalogInit => InForce
<1> SUFFICES ASSUME CatalogInit PROVE InForce
  OBVIOUS
<1>1. ObservedInv
  BY DEF CatalogInit, Init, ObservedInv
<1>2. ReachInv
  BY DEF CatalogInit, ReachInv
<1>3. CurrentInv
  BY DEF CatalogInit, CurrentInv
<1> QED
  BY <1>1, <1>2, <1>3 DEF InForce

\* The facts about the tables that the steps below use.
LEMMA Tables ==
    ASSUME Inv
    PROVE  /\ source \in [BeatportId -> [run : Run \cup {NoRun}, seen : Nat,
                                         payload : Observation]]
           /\ identity \in [BeatportId -> BeatportId \cup {0}]
           /\ started \in [Run -> Nat] /\ clock \in Nat
           /\ raw \in [Key -> [version : Version \cup {0}, by : Run \cup {NoRun}]]
           /\ status \in [Run -> Status \cup {"none"}]
           /\ worker \in [Worker -> Job \cup {Idle}]
BY DEF Inv, CatalogTypeOK, TypeOK

LEMMA ListingIds ==
    ASSUME NEW k \in Key
    PROVE  /\ Listed(k) \subseteq BeatportId
           /\ DOMAIN Listing[k] = 1..Len(Listing[k])
           /\ Len(Listing[k]) \in Nat
           /\ \A i \in DOMAIN Listing[k] :
                /\ Listing[k][i] \in Chunk
                /\ IdsOf(Listing[k][i]) \subseteq Listed(k)
<1>1. Listing[k] \in Seq(Chunk)
  OBVIOUS
<1>2. \A i \in DOMAIN Listing[k] : Listing[k][i] \in Chunk
  BY <1>1
<1>3. \A i \in DOMAIN Listing[k] : IdsOf(Listing[k][i]) \subseteq BeatportId
  BY <1>2, ChunkIds
<1> QED
  BY <1>1, <1>2, <1>3 DEF Listed

\* What was reached stays so while source times and identities only grow.
LEMMA ReachedStays ==
    ASSUME NEW r \in Run, NEW chunk \in Chunk, Reached(r, chunk), started'[r] = started[r],
           \A x \in BeatportId : /\ identity[x] # 0 => identity'[x] # 0
                                 /\ source'[x].seen >= source[x].seen
                                 /\ source[x].seen \in Nat /\ source'[x].seen \in Nat,
           started[r] \in Nat
    PROVE  Reached(r, chunk)'
<1> SUFFICES ASSUME NEW x \in IdsOf(chunk)
             PROVE  identity'[x] # 0 /\ source'[x].seen >= started'[r]
  BY DEF Reached, IdsOf
<1>1. x \in BeatportId
  BY ChunkIds
<1>2. identity[x] # 0 /\ source[x].seen >= started[r]
  BY DEF Reached
<1> QED
  BY <1>1, <1>2

\* Steps that write nothing to the catalog: the workers that go on hold what they held,
\* and a run is completed only when all of it was reached.
LEMMA QuietReach ==
    ASSUME Inv, ReachInv, UNCHANGED <<source, identity>>,
           \A r \in Run : started'[r] = started[r] \/ started[r] = 0,
           \A w \in Worker : worker'[w] # Idle =>
              \/ /\ worker[w] # Idle
                 /\ worker'[w].run = worker[w].run /\ worker'[w].at = worker[w].at
              \/ worker'[w].at = 1 /\ worker'[w].run \in Run,
           \A r \in Run : status'[r] = "COMPLETED" =>
              \/ status[r] = "COMPLETED"
              \/ /\ started[r] # 0
                 /\ \A i \in DOMAIN Listing[KeyOf[r]] : Reached(r, Listing[KeyOf[r]][i])
    PROVE  ReachInv'
<1>1. ASSUME NEW r \in Run, NEW chunk \in Chunk, started[r] # 0, Reached(r, chunk)
      PROVE  Reached(r, chunk)'
  BY <1>1, ReachedStays, Tables DEF Reached, IdsOf
<1>2. ASSUME NEW w \in Worker, worker'[w] # Idle, NEW i \in DOMAIN Chunks(w)',
             i < worker'[w].at, NEW x \in IdsOf(Chunks(w)'[i])
      PROVE  identity'[x] # 0 /\ source'[x].seen >= started'[worker'[w].run]
  <2>1. CASE /\ worker[w] # Idle
             /\ worker'[w].run = worker[w].run /\ worker'[w].at = worker[w].at
    <3> DEFINE r == worker[w].run
               chunk == Chunks(w)[i]
    <3>1. Chunks(w)' = Chunks(w)
      BY <2>1 DEF Chunks
    <3>2. r \in Run /\ started[r] # 0 /\ Chunks(w) \in Seq(Chunk)
      BY <2>1, JobOf DEF Inv
    <3>3. Reached(r, chunk)
      BY <1>2, <2>1, <3>1 DEF ReachInv
    <3>4. x \in IdsOf(chunk) /\ started'[r] = started[r]
      BY <1>2, <3>1, <3>2
    <3>5. identity[x] # 0 /\ source[x].seen >= started[r]
      BY <3>3, <3>4 DEF Reached
    <3> QED
      BY <2>1, <3>4, <3>5
  <2>2. CASE worker'[w].at = 1 /\ worker'[w].run \in Run
    <3>1. KeyOf[worker'[w].run] \in Key
      BY <2>2
    <3>2. i \in Nat \ {0}
      BY <1>2, <3>1, ListingIds DEF Chunks
    <3> QED
      BY <1>2, <2>2, <3>2
  <2> QED
    <3>1. \/ /\ worker[w] # Idle
             /\ worker'[w].run = worker[w].run /\ worker'[w].at = worker[w].at
          \/ worker'[w].at = 1 /\ worker'[w].run \in Run
      BY <1>2
    <3> QED
      BY <2>1, <2>2, <3>1
<1>3. ASSUME NEW r \in Run, status'[r] = "COMPLETED"
      PROVE  /\ started'[r] # 0
             /\ \A i \in DOMAIN Listing[KeyOf[r]] : Reached(r, Listing[KeyOf[r]][i])'
  <2>1. /\ started[r] # 0
        /\ \A i \in DOMAIN Listing[KeyOf[r]] : Reached(r, Listing[KeyOf[r]][i])
    BY <1>3 DEF ReachInv
  <2>2. \A i \in DOMAIN Listing[KeyOf[r]] : Listing[KeyOf[r]][i] \in Chunk
    BY ListingIds
  <2> QED
    BY <1>1, <2>1, <2>2
<1>4. \A w \in Worker : worker'[w] # Idle =>
        \A i \in DOMAIN Chunks(w)' : i < worker'[w].at =>
          \A x \in IdsOf(Chunks(w)'[i]) :
            identity'[x] # 0 /\ source'[x].seen >= started'[worker'[w].run]
  BY <1>2
<1> QED
  BY <1>3, <1>4 DEF ReachInv, Reached, IdsOf

\* Of a worker that goes on and one that begins, while raw zone and sources stay.
LEMMA QuietCurrent ==
    ASSUME Inv, CurrentInv, UNCHANGED <<source, started, raw>>,
           \A w \in Worker : worker'[w] # Idle =>
              \/ /\ worker[w] # Idle
                 /\ worker'[w].run = worker[w].run /\ worker'[w].version = worker[w].version
              \/ worker'[w].version = raw[KeyOf[worker'[w].run]].version
    PROVE  CurrentInv'
<1> SUFFICES ASSUME NEW k \in Key, NEW r \in Run, raw[k].by = r
             PROVE  KeyOf[r] = k /\ (started[r] # 0 => CurrentFor(k, r)')
  BY DEF CurrentInv
<1>1. KeyOf[r] = k /\ (started[r] # 0 => CurrentFor(k, r))
  BY DEF CurrentInv
<1>2. ASSUME started[r] # 0 PROVE CurrentFor(k, r)'
  <2>1. ASSUME NEW w \in Worker, worker'[w] # Idle, KeyOf[worker'[w].run] = k,
               started[worker'[w].run] >= started[r]
        PROVE  worker'[w].version = raw[k].version
    BY <1>1, <1>2, <2>1 DEF CurrentFor
  <2>2. \A x \in BeatportId :
          source[x].run # NoRun /\ KeyOf[source[x].run] = k /\ source[x].seen >= started[r]
            => source[x].payload = Content[raw[k].version][x]
    BY <1>1, <1>2 DEF CurrentFor
  <2> QED
    BY <2>1, <2>2 DEF CurrentFor
<1> QED
  BY <1>1, <1>2

LEMMA PutInForce ==
    ASSUME Inv, InForce, NEW r \in Run, Put(r)
    PROVE  InForce'
<1>1. /\ UNCHANGED <<source, identity, started, clock, status, worker>>
      /\ raw' = [raw EXCEPT ![KeyOf[r]] = [version |-> ingest[r].version, by |-> r]]
      /\ ingest[r].at = "fetched"
  BY DEF Put, Collect
<1>2. started[r] = 0
  BY <1>1 DEF Inv, PathInv
<1>3. ObservedInv'
  BY <1>1 DEF InForce, ObservedInv
<1>4. ReachInv'
  BY <1>1, QuietReach DEF InForce, ReachInv
<1>5. ASSUME NEW k \in Key, NEW q \in Run, raw'[k].by = q
      PROVE  KeyOf[q] = k /\ (started'[q] # 0 => CurrentFor(k, q)')
  <2>1. CASE k = KeyOf[r]
    <3>1. q = r
      BY <1>1, <1>5, <2>1, Tables
    <3> QED
      BY <1>1, <1>2, <2>1, <3>1
  <2>2. CASE k # KeyOf[r]
    <3>1. raw'[k] = raw[k]
      BY <1>1, <2>2, Tables
    <3>2. KeyOf[q] = k /\ (started[q] # 0 => CurrentFor(k, q))
      BY <1>5, <3>1 DEF InForce, CurrentInv
    <3> QED
      BY <1>1, <3>1, <3>2 DEF CurrentFor
  <2> QED
    BY <2>1, <2>2
<1>6. CurrentInv'
  BY <1>5 DEF CurrentInv
<1> QED
  BY <1>3, <1>4, <1>6 DEF InForce

LEMMA RecordInForce ==
    ASSUME Inv, InForce, NEW r \in Run, Record(r)
    PROVE  InForce'
<1>1. /\ UNCHANGED <<source, identity, raw, worker>>
      /\ started[r] = 0
      /\ clock' = clock + 1
      /\ started' = [started EXCEPT ![r] = clock + 1]
      /\ status' = [status EXCEPT ![r] = "RAW_SAVED"]
  BY DEF Record, Enqueue, Observe, Collect
<1>2. /\ started \in [Run -> Nat] /\ clock \in Nat
      /\ \A q \in Run : started[q] <= clock
      /\ started'[r] = clock + 1
      /\ \A q \in Run \ {r} : started'[q] = started[q]
  BY <1>1, Tables DEF InForce, ObservedInv
<1>3. ASSUME NEW x \in BeatportId, source[x].run # NoRun
      PROVE  /\ source[x].run \in Run \ {r}
             /\ source[x].seen \in Nat /\ source[x].seen <= clock
  <2>1. source[x].seen = started[source[x].run] /\ source[x].seen # 0
        /\ source[x].run \in Run
    BY <1>3, Tables DEF InForce, ObservedInv
  <2> QED
    BY <1>1, <1>2, <2>1
<1>4. ASSUME NEW w \in Worker, worker[w] # Idle
      PROVE  worker[w].run \in Run \ {r} /\ started[worker[w].run] <= clock
  <2>1. worker[w].run \in Run /\ started[worker[w].run] # 0
    BY <1>4, JobOf DEF Inv
  <2> QED
    BY <1>1, <1>2, <2>1
<1>5. ObservedInv'
  <2>1. \A q \in Run : started'[q] <= clock'
    BY <1>1, <1>2
  <2>2. ASSUME NEW x \in BeatportId
        PROVE  IF source[x].run = NoRun THEN source[x].seen = 0
               ELSE /\ source[x].seen = started'[source[x].run] /\ source[x].seen # 0
                    /\ x \in Listed(KeyOf[source[x].run])
    <3>1. IF source[x].run = NoRun THEN source[x].seen = 0
          ELSE /\ source[x].seen = started[source[x].run] /\ source[x].seen # 0
               /\ x \in Listed(KeyOf[source[x].run])
      BY DEF InForce, ObservedInv
    <3>2. source[x].run # NoRun => started'[source[x].run] = started[source[x].run]
      BY <1>2, <1>3
    <3> QED
      BY <3>1, <3>2
  <2> QED
    BY <1>1, <2>1, <2>2 DEF ObservedInv
<1>6. ReachInv'
  <2>1. \A q \in Run : status'[q] = "COMPLETED" => status[q] = "COMPLETED"
    BY <1>1, Tables
  <2>2. \A q \in Run : started'[q] = started[q] \/ started[q] = 0
    BY <1>1, <1>2
  <2> QED
    BY <1>1, <2>1, <2>2, QuietReach DEF InForce
<1>7. ASSUME NEW k \in Key, NEW q \in Run, raw[k].by = q
      PROVE  KeyOf[q] = k /\ (started'[q] # 0 => CurrentFor(k, q)')
  <2>1. KeyOf[q] = k /\ (started[q] # 0 => CurrentFor(k, q))
    BY <1>7 DEF InForce, CurrentInv
  <2>2. CASE q = r
    <3>1. \A w \in Worker : worker[w] # Idle => ~(started'[worker[w].run] >= started'[r])
      BY <1>2, <1>4
    <3>2. \A x \in BeatportId : source[x].run # NoRun => ~(source[x].seen >= started'[r])
      BY <1>2, <1>3
    <3> QED
      BY <1>1, <2>1, <2>2, <3>1, <3>2 DEF CurrentFor
  <2>3. CASE q # r
    <3>1. started'[q] = started[q]
      BY <1>2, <2>3
    <3>2. \A w \in Worker : worker[w] # Idle =>
            started'[worker[w].run] = started[worker[w].run]
      BY <1>2, <1>4
    <3> QED
      BY <1>1, <2>1, <3>1, <3>2 DEF CurrentFor
  <2> QED
    BY <2>2, <2>3
<1>8. CurrentInv'
  BY <1>1, <1>7 DEF CurrentInv
<1> QED
  BY <1>5, <1>6, <1>8 DEF InForce

\* The steps that write neither catalog nor raw zone.
LEMMA QuietInForce ==
    ASSUME Inv, InForce, UNCHANGED <<vars, raw>>,
           \A w \in Worker : worker'[w] # Idle =>
              \/ /\ worker[w] # Idle
                 /\ worker'[w].run = worker[w].run /\ worker'[w].at = worker[w].at
                 /\ worker'[w].version = worker[w].version
              \/ /\ worker'[w].at = 1 /\ worker'[w].run \in Run
                 /\ worker'[w].version = raw[KeyOf[worker'[w].run]].version,
           \A r \in Run : status'[r] = "COMPLETED" =>
              \/ status[r] = "COMPLETED"
              \/ /\ started[r] # 0
                 /\ \A i \in DOMAIN Listing[KeyOf[r]] : Reached(r, Listing[KeyOf[r]][i])
    PROVE  InForce'
<1>1. ObservedInv'
  BY DEF InForce, ObservedInv
<1>2. \A w \in Worker : worker'[w] # Idle =>
        \/ /\ worker[w] # Idle
           /\ worker'[w].run = worker[w].run /\ worker'[w].at = worker[w].at
        \/ worker'[w].at = 1 /\ worker'[w].run \in Run
  OBVIOUS
<1>3. ReachInv'
  BY <1>2, QuietReach DEF InForce
<1>4. \A w \in Worker : worker'[w] # Idle =>
        \/ /\ worker[w] # Idle
           /\ worker'[w].run = worker[w].run /\ worker'[w].version = worker[w].version
        \/ worker'[w].version = raw[KeyOf[worker'[w].run]].version
  OBVIOUS
<1>5. CurrentInv'
  BY <1>4, QuietCurrent DEF InForce
<1> QED
  BY <1>1, <1>3, <1>5 DEF InForce

LEMMA BeginInForce ==
    ASSUME Inv, InForce, NEW w \in Worker, NEW r \in Run, Receive(w, r) \/ Replay(w, r)
    PROVE  InForce'
<1>1. UNCHANGED <<vars, raw, status>>
  BY DEF Receive, Replay, Begin
<1>2. /\ \A u \in Worker \ {w} : worker'[u] = worker[u]
      /\ worker'[w].run = r /\ worker'[w].at = 1
      /\ worker'[w].version = raw[KeyOf[r]].version
  BY Tables DEF Receive, Replay, Begin
<1>3. \A u \in Worker : worker'[u] # Idle =>
        \/ /\ worker[u] # Idle
           /\ worker'[u].run = worker[u].run /\ worker'[u].at = worker[u].at
           /\ worker'[u].version = worker[u].version
        \/ /\ worker'[u].at = 1 /\ worker'[u].run \in Run
           /\ worker'[u].version = raw[KeyOf[worker'[u].run]].version
  BY <1>2
<1> QED
  BY <1>1, <1>3, QuietInForce

LEMMA ProgressInForce ==
    ASSUME Inv, InForce, NEW w \in Worker,
           ReadChunk(w) \/ Finish(w) \/ Return(w) \/ FailRun(w) \/ Die(w)
    PROVE  InForce'
<1>1. UNCHANGED <<vars, raw>>
  BY DEF ReadChunk, Finish, Return, FailRun, Die, Stop, Working
<1>2. worker[w] # Idle
  BY NotIdle DEF ReadChunk, Finish, Return, FailRun, Die, Stop
<1>3. /\ worker[w] \in Job /\ worker[w].run \in Run /\ started[worker[w].run] # 0
      /\ worker[w].at \in Nat
      /\ worker \in [Worker -> Job \cup {Idle}]
      /\ status \in [Run -> Status \cup {"none"}]
  BY <1>2, JobOf, Tables DEF Inv
<1>4. /\ \A u \in Worker \ {w} : worker'[u] = worker[u]
      /\ worker'[w] # Idle => /\ worker'[w].run = worker[w].run
                              /\ worker'[w].at = worker[w].at
                              /\ worker'[w].version = worker[w].version
  <2>1. CASE ReadChunk(w)
    BY <1>3, <2>1 DEF ReadChunk, Job
  <2>2. CASE Finish(w)
    BY <1>3, <2>2 DEF Finish, Job
  <2>3. CASE Return(w) \/ FailRun(w) \/ Die(w)
    BY <1>3, <2>3 DEF Return, FailRun, Die, Stop
  <2> QED
    BY <2>1, <2>2, <2>3
<1>5. \A u \in Worker : worker'[u] # Idle =>
        /\ worker[u] # Idle
        /\ worker'[u].run = worker[u].run /\ worker'[u].at = worker[u].at
        /\ worker'[u].version = worker[u].version
  BY <1>2, <1>4
<1>6. ASSUME NEW r \in Run, status'[r] = "COMPLETED", status[r] # "COMPLETED"
      PROVE  /\ started[r] # 0
             /\ \A i \in DOMAIN Listing[KeyOf[r]] : Reached(r, Listing[KeyOf[r]][i])
  <2>1. Finish(w) /\ r = worker[w].run
    BY <1>3, <1>6 DEF ReadChunk, Finish, Return, FailRun, Die, Working
  <2>2. worker[w].at > Len(Listing[KeyOf[r]]) /\ Chunks(w) = Listing[KeyOf[r]]
    BY <2>1 DEF Finish, Chunks
  <2>3. DOMAIN Listing[KeyOf[r]] = 1..Len(Listing[KeyOf[r]]) /\ Len(Listing[KeyOf[r]]) \in Nat
    BY ListingIds
  <2>4. \A i \in DOMAIN Chunks(w) : i < worker[w].at
    BY <1>3, <2>2, <2>3
  <2> QED
    BY <1>2, <1>3, <2>1, <2>2, <2>4 DEF InForce, ReachInv
<1> QED
  BY <1>1, <1>5, <1>6, QuietInForce

\* What a commit does to the observation of an id.
LEMMA CommitObserves ==
    ASSUME Inv, ObservedInv, NEW w \in Worker, CommitChunk(w), NEW x \in BeatportId
    PROVE  LET r == worker[w].run
               v == worker[w].version
               chunk == ChunkOf(w)
           IN  /\ identity[x] # 0 => identity'[x] # 0
               /\ x \in IdsOf(chunk) => identity'[x] # 0
               /\ source'[x].seen >= source[x].seen
               /\ source[x].seen \in Nat /\ source'[x].seen \in Nat
               /\ x \in IdsOf(chunk) => source'[x].seen >= started[r]
               /\ \/ source'[x] = source[x]
                  \/ /\ x \in IdsOf(chunk)
                     /\ source'[x].run = r /\ source'[x].seen = started[r]
                     /\ source'[x].payload = Content[v][x]
<1> DEFINE r == worker[w].run
           v == worker[w].version
           chunk == ChunkOf(w)
<1>1. /\ r \in Run /\ v \in Version /\ started[r] # 0 /\ chunk \in Chunk
      /\ Apply(r, v, chunk, Unclaimed(chunk), worker[w].write)
  BY CommitApplies
<1> HIDE DEF r, v, chunk
<1>2. /\ source' = Upserted(r, v, chunk)
      /\ identity' = [y \in BeatportId |-> IF y \in Unclaimed(chunk) THEN y ELSE identity[y]]
  BY <1>1 DEF Apply
<1>3. identity'[x] = IF x \in Unclaimed(chunk) THEN x ELSE identity[x]
  BY <1>2
<1>4. (identity[x] # 0 => identity'[x] # 0) /\ (x \in IdsOf(chunk) => identity'[x] # 0)
  BY <1>3 DEF Unclaimed
<1>5. source'[x] = IF x \in IdsOf(chunk) /\ ~Newer(source[x], r)
                   THEN [run |-> r, seen |-> started[r], payload |-> Content[v][x]]
                   ELSE source[x]
  BY <1>2 DEF Upserted
<1>6. source[x].seen \in Nat /\ source[x].run \in Run \cup {NoRun} /\ started[r] \in Nat
  BY <1>1, Tables
<1>7. source[x].run = r => source[x].seen = started[r]
  BY <1>1 DEF ObservedInv
<1>8. Newer(source[x], r) => source[x].seen > started[r]
  BY DEF Newer
<1>9. ~Newer(source[x], r) => source[x].seen <= started[r]
  BY <1>6, <1>7 DEF Newer
<1>10. CASE x \in IdsOf(chunk) /\ ~Newer(source[x], r)
  <2>1. source'[x] = [run |-> r, seen |-> started[r], payload |-> Content[v][x]]
    BY <1>5, <1>10
  <2>2. /\ source'[x].run = r /\ source'[x].seen = started[r]
        /\ source'[x].payload = Content[v][x]
    BY <2>1
  <2> QED
    BY <1>4, <1>6, <1>9, <1>10, <2>2 DEF r, v, chunk
<1>11. CASE ~(x \in IdsOf(chunk) /\ ~Newer(source[x], r))
  <2>1. source'[x] = source[x]
    BY <1>5, <1>11
  <2>2. x \in IdsOf(chunk) => source'[x].seen >= started[r]
    BY <1>6, <1>8, <1>11, <2>1
  <2> QED
    BY <1>4, <1>6, <2>1, <2>2 DEF r, v, chunk
<1> QED
  BY <1>10, <1>11

LEMMA CommitInForce ==
    ASSUME Inv, InForce, NEW w \in Worker, CommitChunk(w)
    PROVE  InForce'
<1>0. PICK r, v, chunk : r = worker[w].run /\ v = worker[w].version /\ chunk = ChunkOf(w)
  OBVIOUS
<1>1. /\ r \in Run /\ v \in Version /\ started[r] # 0 /\ chunk \in Chunk
      /\ worker[w] # Idle /\ worker[w] \in Job /\ worker[w].at \in Nat
      /\ Chunks(w) \in Seq(Chunk) /\ worker[w].at \in DOMAIN Chunks(w)
  BY <1>0, CommitApplies, JobOf, NotIdle DEF CommitChunk, Inv, LockInv
<1>2. /\ UNCHANGED <<raw, status, started, clock>>
      /\ worker' = [worker EXCEPT ![w] = [worker[w] EXCEPT
            !.pc = "next", !.at = worker[w].at + 1, !.new = {}, !.write = NoWrites]]
  BY DEF CommitChunk, Apply, Working
<1>3. /\ \A u \in Worker \ {w} : worker'[u] = worker[u]
      /\ worker'[w].run = r /\ worker'[w].version = v /\ worker'[w].at = worker[w].at + 1
  BY <1>0, <1>1, <1>2, Tables DEF Job
<1>4. \A x \in BeatportId :
        /\ identity[x] # 0 => identity'[x] # 0
        /\ x \in IdsOf(chunk) => identity'[x] # 0
        /\ source'[x].seen >= source[x].seen
        /\ source[x].seen \in Nat /\ source'[x].seen \in Nat
        /\ x \in IdsOf(chunk) => source'[x].seen >= started[r]
        /\ \/ source'[x] = source[x]
           \/ /\ x \in IdsOf(chunk)
              /\ source'[x].run = r /\ source'[x].seen = started[r]
              /\ source'[x].payload = Content[v][x]
  BY <1>0, CommitObserves DEF InForce
<1>5. IdsOf(chunk) \subseteq Listed(KeyOf[r]) /\ IdsOf(chunk) \subseteq BeatportId
  <2>1. KeyOf[r] \in Key /\ worker[w].at \in DOMAIN Listing[KeyOf[r]]
        /\ chunk = Listing[KeyOf[r]][worker[w].at]
    BY <1>0, <1>1 DEF ChunkOf, Chunks
  <2> QED
    BY <2>1, ListingIds, <1>1, ChunkIds
<1>6. ObservedInv'
  <2>1. ASSUME NEW x \in BeatportId
        PROVE  IF source'[x].run = NoRun THEN source'[x].seen = 0
               ELSE /\ source'[x].seen = started[source'[x].run] /\ source'[x].seen # 0
                    /\ x \in Listed(KeyOf[source'[x].run])
    <3>1. CASE source'[x] = source[x]
      BY <3>1 DEF InForce, ObservedInv
    <3>2. CASE x \in IdsOf(chunk) /\ source'[x].run = r /\ source'[x].seen = started[r]
      BY <1>1, <1>5, <3>2
    <3> QED
      BY <1>4, <3>1, <3>2
  <2>2. \A q \in Run : started[q] <= clock
    BY DEF InForce, ObservedInv
  <2> QED
    BY <1>2, <2>1, <2>2 DEF ObservedInv
<1>7. ASSUME NEW q \in Run, NEW c \in Chunk, Reached(q, c)
      PROVE  Reached(q, c)'
  BY <1>2, <1>4, <1>7, ReachedStays, Tables
<1>8. Reached(r, chunk)'
  BY <1>2, <1>4, <1>5 DEF Reached, IdsOf
<1>9. ReachInv'
  <2>1. ASSUME NEW u \in Worker, worker'[u] # Idle, NEW i \in DOMAIN Chunks(u)',
               i < worker'[u].at, NEW x \in IdsOf(Chunks(u)'[i])
        PROVE  identity'[x] # 0 /\ source'[x].seen >= started'[worker'[u].run]
    <3>1. worker[u] # Idle /\ worker'[u].run = worker[u].run
      BY <1>0, <1>1, <1>3, <2>1
    <3>2. Chunks(u)' = Chunks(u) /\ Chunks(u) \in Seq(Chunk) /\ worker[u].run \in Run
      BY <3>1, JobOf DEF Chunks, Inv
    <3>3. PICK q, c : q = worker[u].run /\ c = Chunks(u)[i]
      OBVIOUS
    <3>4. q \in Run /\ c \in Chunk /\ x \in IdsOf(c) /\ i \in 1..Len(Chunks(u))
      BY <2>1, <3>2, <3>3
    <3>5. Reached(q, c)'
      <4>1. CASE i < worker[u].at
        <5>1. Reached(q, c)
          BY <2>1, <3>1, <3>2, <3>3, <4>1 DEF InForce, ReachInv
        <5> QED
          BY <1>7, <3>4, <5>1
      <4>2. CASE ~(i < worker[u].at)
        <5>3. u = w
          BY <1>3, <2>1, <4>2
        <5>4. i \in Nat
          BY <3>4
        <5>5. i < worker[w].at + 1 /\ ~(i < worker[w].at) /\ worker[w].at \in Nat
          BY <1>1, <1>3, <2>1, <4>2, <5>3
        <5>1. u = w /\ i = worker[w].at
          BY <5>3, <5>4, <5>5
        <5>2. c = chunk /\ q = r
          BY <1>0, <3>3, <5>1 DEF ChunkOf
        <5> QED
          BY <1>8, <5>2
      <4> QED
        BY <4>1, <4>2
    <3> QED
      BY <3>1, <3>3, <3>4, <3>5 DEF Reached, IdsOf
  <2>2. ASSUME NEW q \in Run, status[q] = "COMPLETED"
        PROVE  /\ started[q] # 0
               /\ \A i \in DOMAIN Listing[KeyOf[q]] : Reached(q, Listing[KeyOf[q]][i])'
    <3>1. /\ started[q] # 0
          /\ \A i \in DOMAIN Listing[KeyOf[q]] : Reached(q, Listing[KeyOf[q]][i])
      BY <2>2 DEF InForce, ReachInv
    <3>2. \A i \in DOMAIN Listing[KeyOf[q]] : Listing[KeyOf[q]][i] \in Chunk
      BY ListingIds
    <3> QED
      BY <1>7, <3>1, <3>2
  <2>3. \A u \in Worker : worker'[u] # Idle =>
          \A i \in DOMAIN Chunks(u)' : i < worker'[u].at =>
            \A x \in IdsOf(Chunks(u)'[i]) :
              identity'[x] # 0 /\ source'[x].seen >= started'[worker'[u].run]
    BY <2>1
  <2> QED
    BY <1>2, <2>2, <2>3 DEF ReachInv, Reached, IdsOf
<1>10. CurrentInv'
  <2> SUFFICES ASSUME NEW k \in Key, NEW q \in Run, raw[k].by = q
               PROVE  KeyOf[q] = k /\ (started[q] # 0 => CurrentFor(k, q)')
    BY <1>2 DEF CurrentInv
  <2>1. KeyOf[q] = k /\ (started[q] # 0 => CurrentFor(k, q))
    BY DEF InForce, CurrentInv
  <2>2. ASSUME started[q] # 0 PROVE CurrentFor(k, q)'
    <3>1. ASSUME NEW u \in Worker, worker'[u] # Idle, KeyOf[worker'[u].run] = k,
                 started[worker'[u].run] >= started[q]
          PROVE  worker'[u].version = raw[k].version
      <4>1. worker[u] # Idle /\ worker'[u].run = worker[u].run
            /\ worker'[u].version = worker[u].version
        BY <1>0, <1>1, <1>3, <3>1
      <4> QED
        BY <2>1, <2>2, <3>1, <4>1 DEF CurrentFor
    <3>2. ASSUME NEW x \in BeatportId, source'[x].run # NoRun, KeyOf[source'[x].run] = k,
                 source'[x].seen >= started[q]
          PROVE  source'[x].payload = Content[raw[k].version][x]
      <4>1. CASE source'[x] = source[x]
        BY <2>1, <2>2, <3>2, <4>1 DEF CurrentFor
      <4>2. CASE /\ source'[x].run = r /\ source'[x].seen = started[r]
                 /\ source'[x].payload = Content[v][x]
        <5>1. v = raw[k].version
          BY <1>0, <1>1, <2>1, <2>2, <3>2, <4>2 DEF CurrentFor
        <5> QED
          BY <4>2, <5>1
      <4> QED
        BY <1>4, <4>1, <4>2
    <3> QED
      BY <1>2, <3>1, <3>2 DEF CurrentFor
  <2> QED
    BY <2>1, <2>2
<1> QED
  BY <1>6, <1>9, <1>10 DEF InForce

LEMMA StepInForce ==
    ASSUME Inv, InForce, [CatalogNext]_cvars
    PROVE  InForce'
<1>1. CASE Publish \/ (\E r \in Run : Fetch(r)) \/ UNCHANGED cvars
  <2>1. UNCHANGED <<vars, raw, status, worker>>
    BY <1>1 DEF Publish, Fetch, Collect, cvars
  <2> QED
    BY <2>1, QuietInForce
<1>2. ASSUME NEW r \in Run, Put(r) \/ Record(r) PROVE InForce'
  BY <1>2, PutInForce, RecordInForce
<1>3. ASSUME NEW w \in Worker, NEW r \in Run, Receive(w, r) \/ Replay(w, r) PROVE InForce'
  BY <1>3, BeginInForce
<1>4. ASSUME NEW w \in Worker, Progress(w) \/ FailRun(w) \/ Die(w) PROVE InForce'
  BY <1>4, ProgressInForce, CommitInForce DEF Progress
<1> QED
  BY <1>1, <1>2, <1>3, <1>4 DEF CatalogNext

LEMMA InForceShows ==
    ASSUME Inv, InForce
    PROVE  CompletedRunIsShown
<1> SUFFICES ASSUME NEW k \in Key, NEW r \in Run, raw[k].by = r, status[r] = "COMPLETED",
                    NEW x \in Listed(k)
             PROVE  /\ identity[x] # 0
                    /\ source[x].seen >= started[r]
                    /\ x \notin UNION {Listed(j) : j \in Key \ {k}} =>
                            source[x].payload = Content[raw[k].version][x]
  BY DEF CompletedRunIsShown
<1>1. KeyOf[r] = k /\ started[r] # 0 /\ CurrentFor(k, r)
  BY DEF InForce, CurrentInv, ReachInv
<1>2. PICK i \in DOMAIN Listing[k] : x \in IdsOf(Listing[k][i])
  BY DEF Listed
<1>3. identity[x] # 0 /\ source[x].seen >= started[r] /\ x \in BeatportId
  BY <1>1, <1>2, ListingIds DEF InForce, ReachInv, Reached
<1>4. ASSUME x \notin UNION {Listed(j) : j \in Key \ {k}}
      PROVE  source[x].payload = Content[raw[k].version][x]
  <2>1. source[x].seen # 0
    BY <1>1, <1>3, Tables
  <2>2. source[x].run \in Run /\ source[x].run # NoRun /\ x \in Listed(KeyOf[source[x].run])
    BY <1>3, <2>1, Tables DEF InForce, ObservedInv
  <2>3. KeyOf[source[x].run] = k
    BY <1>4, <2>2
  <2> QED
    BY <1>1, <1>3, <2>2, <2>3 DEF CurrentFor
<1> QED
  BY <1>3, <1>4

\* Once the run whose data a raw object holds is COMPLETED, the catalog has that data,
\* whatever older runs of the week are delivered or replayed late, however workers
\* overlap, die and start again, and whichever tracks share a row.
THEOREM CompletedAlwaysShown == CatalogSpec => []CompletedRunIsShown
<1>1. CatalogInit => Inv /\ InForce
  BY InitInv, InitInForce
<1>2. Inv /\ InForce /\ [CatalogNext]_cvars => (Inv /\ InForce)'
  BY StepInv, StepInForce
<1>3. Inv /\ InForce => CompletedRunIsShown
  BY InForceShows
<1> QED
  BY <1>1, <1>2, <1>3, PTL DEF CatalogSpec

-----------------------------------------------------------------------------
(* What QueuedRunSettles rests on: a run that is queued is not lost on the  *)
(* way.  A message has as many deliveries as the redrive policy allows, and *)
(* each that settles nothing has cost a fault.                              *)

\* The workers that have the run from the queue.
On(r) == {w \in Worker : worker[w] # Idle /\ worker[w].run = r /\ worker[w].planned = Queued}

Underway(r) ==
    status[r] = "RAW_SAVED" /\ r \notin unreported /\ (queue[r] > 0 \/ On(r) # {})

\* Where QueuedRunSettles says a run ends.
SettledNext(r) == status'[r] \in {"COMPLETED", "FAILED"} \/ r \in unreported'

\* The run that is on its way stays so until it is COMPLETED or FAILED, or given up while
\* FAILED could not be written.
UnderwayStays == [][\A r \in Run : Underway(r) => Underway(r)' \/ SettledNext(r)]_cvars

\* Deliveries to come, those under way, and those a fault may have undone.
Deliverable(r) == queue[r] + Cardinality(On(r)) + faults

DeliveryInv == \A r \in Run : Underway(r) => Deliverable(r) >= MaxReceive

\* An invocation that is about to return has settled its run.
DoneInv == \A w \in Worker : worker[w].pc = "done" => status[worker[w].run] # "RAW_SAVED"

\* A step keeps the count of a run it does not settle, and only queueing puts one under way.
Counted(r) ==
    /\ Underway(r) /\ status'[r] = "RAW_SAVED" /\ r \notin unreported' =>
            Deliverable(r)' >= Deliverable(r)
    /\ Underway(r)' => Underway(r) \/ Deliverable(r)' >= MaxReceive

LEMMA OnCounts ==
    ASSUME IsFiniteSet(Worker), NEW r
    PROVE  /\ IsFiniteSet(On(r)) /\ Cardinality(On(r)) \in Nat
           /\ IsFiniteSet(On(r)') /\ Cardinality(On(r)') \in Nat
<1>1. On(r) \in SUBSET Worker /\ On(r)' \in SUBSET Worker
  BY DEF On
<1> QED
  BY <1>1, FS_Subset, FS_CardinalityType

\* A worker that works for the queue on r, or not, before and after.
LEMMA OnMoves ==
    ASSUME NEW w \in Worker, NEW r, \A u \in Worker \ {w} : worker'[u] = worker[u]
    PROVE  On(r)' = IF worker'[w] # Idle /\ worker'[w].run = r /\ worker'[w].planned = Queued
                    THEN On(r) \cup {w} ELSE On(r) \ {w}
BY DEF On

\* An invocation that takes up a run, and one that goes on with its chunks.
LEMMA BegunAt ==
    ASSUME CatalogTypeOK, NEW w \in Worker, NEW r, NEW seen, Begin(w, r, seen)
    PROVE  /\ worker'[w].pc = "next" /\ worker'[w].run = r /\ worker'[w].planned = seen
           /\ worker'[w] # Idle
           /\ \A u \in Worker \ {w} : worker'[u] = worker[u]
<1>1. worker \in [Worker -> Job \cup {Idle}]
  BY DEF CatalogTypeOK
<1> QED
  BY <1>1 DEF Begin, Idle

LEMMA ChunkedAt ==
    ASSUME CatalogTypeOK, PathInv, NEW w \in Worker, ReadChunk(w) \/ CommitChunk(w)
    PROVE  /\ worker[w] # Idle /\ worker'[w] # Idle /\ worker'[w].pc \in {"next", "read"}
           /\ worker'[w].run = worker[w].run /\ worker'[w].planned = worker[w].planned
           /\ \A u \in Worker \ {w} : worker'[u] = worker[u]
           /\ UNCHANGED <<queue, status, unreported, faults>>
<1>1. worker \in [Worker -> Job \cup {Idle}]
  BY DEF CatalogTypeOK
<1>2. worker[w] \in Job /\ worker[w] # Idle
  BY JobOf, NotIdle DEF ReadChunk, CommitChunk
<1>3. UNCHANGED <<queue, status, unreported, faults>>
  BY DEF ReadChunk, CommitChunk, Working
<1>4. CASE ReadChunk(w)
  <2>1. worker' = [worker EXCEPT ![w] = [worker[w] EXCEPT
                    !.pc = "read",
                    !.new = Unclaimed(ChunkOf(w)),
                    !.write = Writes(worker[w].run, worker[w].version, ChunkOf(w))]]
    BY <1>4 DEF ReadChunk
  <2> QED
    BY <1>1, <1>2, <1>3, <2>1 DEF Job, Idle
<1>5. CASE CommitChunk(w)
  <2>1. worker' = [worker EXCEPT ![w] = [worker[w] EXCEPT
                    !.pc = "next", !.at = worker[w].at + 1, !.new = {}, !.write = NoWrites]]
    BY <1>5 DEF CommitChunk
  <2> QED
    BY <1>1, <1>2, <1>3, <2>1 DEF Job, Idle
<1> QED
  BY <1>4, <1>5

\* A step that leaves the message of r and the workers on it alone.
LEMMA QuietCounted ==
    ASSUME CatalogTypeOK, CatalogTypeOK', IsFiniteSet(Worker), NEW r \in Run,
           queue'[r] = queue[r], On(r)' = On(r), faults' >= faults,
           unreported \subseteq unreported',
           status'[r] = "RAW_SAVED" => status[r] = "RAW_SAVED"
    PROVE  Counted(r)
<1>1. queue[r] \in Nat /\ faults \in Nat /\ faults' \in Nat
  BY DEF CatalogTypeOK
<1>2. Cardinality(On(r)) \in Nat
  BY OnCounts
<1>3. Deliverable(r)' >= Deliverable(r)
  BY <1>1, <1>2 DEF Deliverable
<1>4. Underway(r)' => Underway(r)
  BY DEF Underway
<1> QED
  BY <1>3, <1>4 DEF Counted

LEMMA RecordCounted ==
    ASSUME Inv, Inv', IsFiniteSet(Worker), NEW q \in Run, Record(q), NEW r \in Run
    PROVE  Counted(r)
<1> USE DEF Inv
<1>1. worker' = worker /\ On(r)' = On(r) /\ unreported' = unreported
  BY DEF Record, Enqueue, Collect, On
<1>2. faults \in Nat /\ faults' \in Nat /\ faults' >= faults
  BY DEF Record, Enqueue, CatalogTypeOK
<1>3. CASE r # q
  <2>1. queue'[r] = queue[r] /\ status'[r] = status[r]
    BY <1>3 DEF Record, Enqueue, CatalogTypeOK
  <2> QED
    BY <1>1, <1>2, <2>1, QuietCounted
<1>4. CASE r = q
  <2>1. started[r] = 0
    BY <1>4 DEF Record, Enqueue, Observe
  <2>2. On(r) = {} /\ queue[r] = 0
    BY <2>1 DEF On, PathInv
  <2>3. ~Underway(r)
    BY <2>2 DEF Underway
  <2>4. queue'[r] = MaxReceive \/ queue'[r] = 0
    BY <1>4, <2>2 DEF Record, Enqueue, CatalogTypeOK
  <2>5. CASE queue'[r] = MaxReceive
    <3>1. Cardinality(On(r)') \in Nat
      BY OnCounts
    <3>2. Deliverable(r)' >= MaxReceive
      BY <1>2, <2>5, <3>1 DEF Deliverable
    <3> QED
      BY <2>3, <3>2 DEF Counted
  <2>6. CASE queue'[r] = 0
    BY <1>1, <2>2, <2>3, <2>6 DEF Counted, Underway
  <2> QED
    BY <2>4, <2>5, <2>6
<1> QED
  BY <1>3, <1>4

LEMMA BeginCounted ==
    ASSUME Inv, Inv', IsFiniteSet(Worker), NEW w \in Worker, NEW q \in Run,
           Receive(w, q) \/ Replay(w, q), NEW r \in Run
    PROVE  Counted(r)
<1> USE DEF Inv
<1>1. /\ worker[w] = Idle /\ faults' = faults /\ faults \in Nat
      /\ status' = status /\ unreported' = unreported
  BY DEF Receive, Replay, Begin, CatalogTypeOK
<1>2. w \notin On(r)
  BY <1>1 DEF On
<1>3. ASSUME NEW seen, Begin(w, q, seen), r # q \/ seen # Queued, queue'[r] = queue[r]
      PROVE  Counted(r)
  <2>1. /\ worker'[w].run = q /\ worker'[w].planned = seen
        /\ \A u \in Worker \ {w} : worker'[u] = worker[u]
    BY <1>3, BegunAt
  <2>2. On(r)' = On(r) \ {w}
    <3>1. ~(worker'[w] # Idle /\ worker'[w].run = r /\ worker'[w].planned = Queued)
      BY <1>3, <2>1
    <3> QED
      BY <2>1, <3>1, OnMoves
  <2>3. On(r)' = On(r)
    BY <1>2, <2>2
  <2> QED
    BY <1>1, <1>3, <2>3, QuietCounted
<1>4. CASE Replay(w, q)
  <2>1. PICK seen : Begin(w, q, seen) /\ seen \in {"RAW_SAVED", "COMPLETED"}
    BY <1>4 DEF Replay
  <2> QED
    BY <1>3, <1>4, <2>1 DEF Queued, Replay
<1>5. CASE Receive(w, q) /\ r # q
  BY <1>3, <1>5 DEF Receive, CatalogTypeOK
<1>6. CASE Receive(w, q) /\ r = q
  <2>1. Begin(w, r, Queued)
    BY <1>6 DEF Receive
  <2>2. /\ worker'[w] # Idle /\ worker'[w].run = r /\ worker'[w].planned = Queued
        /\ \A u \in Worker \ {w} : worker'[u] = worker[u]
    BY <2>1, BegunAt
  <2>3. On(r)' = On(r) \cup {w}
    BY <2>2, OnMoves
  <2>4. PICK n \in Nat : Cardinality(On(r)) = n /\ Cardinality(On(r)') = n + 1
    <3>1. IsFiniteSet(On(r)) /\ Cardinality(On(r)) \in Nat
      BY OnCounts
    <3>2. Cardinality(On(r) \cup {w}) = Cardinality(On(r)) + 1
      BY <1>2, <3>1, FS_AddElement
    <3> QED
      BY <2>3, <3>1, <3>2
  <2>5. queue[r] \in Nat /\ queue[r] > 0 /\ queue'[r] = queue[r] - 1
    BY <1>6 DEF Receive, CatalogTypeOK
  <2>6. Deliverable(r)' = Deliverable(r)
    <3>1. /\ Deliverable(r) = queue[r] + Cardinality(On(r)) + faults
          /\ Deliverable(r)' = queue'[r] + Cardinality(On(r)') + faults'
      BY DEF Deliverable
    <3>2. PICK m \in Nat : queue[r] = m /\ queue'[r] = m - 1
      BY <2>5
    <3> QED
      BY <1>1, <2>4, <3>1, <3>2
  <2>7. Deliverable(r) \in Nat
    BY <1>1, <2>4, <2>5 DEF Deliverable
  <2>8. Underway(r)' => Underway(r)
    BY <1>1, <2>5 DEF Underway
  <2> QED
    BY <2>6, <2>7, <2>8 DEF Counted
<1> QED
  BY <1>4, <1>5, <1>6

LEMMA ChunkCounted ==
    ASSUME Inv, Inv', IsFiniteSet(Worker), NEW w \in Worker,
           ReadChunk(w) \/ CommitChunk(w), NEW r \in Run
    PROVE  Counted(r)
<1> USE DEF Inv
<1>1. /\ worker[w] # Idle /\ worker'[w] # Idle
      /\ worker'[w].run = worker[w].run /\ worker'[w].planned = worker[w].planned
      /\ \A u \in Worker \ {w} : worker'[u] = worker[u]
      /\ UNCHANGED <<queue, status, unreported, faults>>
  BY ChunkedAt
<1>2. On(r)' = On(r)
  BY <1>1 DEF On
<1>3. faults \in Nat
  BY DEF CatalogTypeOK
<1> QED
  BY <1>1, <1>2, <1>3, QuietCounted

LEMMA FinishCounted ==
    ASSUME Inv, Inv', IsFiniteSet(Worker), NEW w \in Worker, Finish(w), NEW r \in Run
    PROVE  Counted(r)
<1> USE DEF Inv
<1>1. worker[w] \in Job /\ worker[w] # Idle
  BY JobOf, NotIdle DEF Finish
<1>2. /\ worker'[w] = IF worker[w].planned = Queued THEN [worker[w] EXCEPT !.pc = "done"]
                      ELSE Idle
      /\ \A u \in Worker \ {w} : worker'[u] = worker[u]
  BY DEF Finish, CatalogTypeOK
<1>3. On(r)' = On(r)
  <2>1. CASE worker[w].planned = Queued
    <3>1. /\ worker'[w].run = worker[w].run /\ worker'[w].planned = Queued
          /\ worker'[w].pc = "done"
      BY <1>1, <1>2, <2>1 DEF Job
    <3>2. worker'[w] # Idle
      BY <3>1 DEF Idle
    <3> QED
      BY <1>1, <1>2, <2>1, <3>1, <3>2 DEF On
  <2>2. CASE worker[w].planned # Queued
    BY <1>2, <2>2 DEF On
  <2> QED
    BY <2>1, <2>2
<1>4. UNCHANGED <<queue, unreported, faults>> /\ faults \in Nat
  BY DEF Finish, CatalogTypeOK
<1>5. status'[r] = "RAW_SAVED" => status[r] = "RAW_SAVED"
  BY <1>1 DEF Finish, CatalogTypeOK
<1> QED
  BY <1>3, <1>4, <1>5, QuietCounted

LEMMA ReturnCounted ==
    ASSUME Inv, Inv', DoneInv, IsFiniteSet(Worker), NEW w \in Worker, Return(w), NEW r \in Run
    PROVE  Counted(r)
<1> USE DEF Inv
<1>1. worker' = [worker EXCEPT ![w] = Idle] /\ UNCHANGED <<status, unreported>>
  BY DEF Return
<1>2. CASE r = worker[w].run
  BY <1>1, <1>2 DEF DoneInv, Return, Counted, Underway
<1>3. CASE r # worker[w].run
  <2>1. On(r)' = On(r)
    BY <1>1, <1>3 DEF On, CatalogTypeOK
  <2>2. queue'[r] = queue[r] /\ faults' = faults /\ faults \in Nat
    BY <1>3 DEF Return, CatalogTypeOK
  <2> QED
    BY <1>1, <2>1, <2>2, QuietCounted
<1> QED
  BY <1>2, <1>3

LEMMA StopCounted ==
    ASSUME Inv, Inv', IsFiniteSet(Worker), NEW w \in Worker, FailRun(w) \/ Die(w), NEW r \in Run
    PROVE  Counted(r)
<1> USE DEF Inv
<1>1. On(r)' = On(r) \ {w}
  <2>1. worker'[w] = Idle /\ \A u \in Worker \ {w} : worker'[u] = worker[u]
    BY DEF FailRun, Die, Stop, CatalogTypeOK
  <2> QED
    BY <2>1, OnMoves
<1>2. worker[w] # Idle /\ worker[w].run \in Run
  BY JobOf DEF FailRun, Die, Stop
<1>3. faults' = faults + 1 /\ faults \in Nat /\ unreported \subseteq unreported'
  BY DEF FailRun, Die, Stop, CatalogTypeOK
<1>4. CASE status'[r] = "FAILED" \/ r \in unreported'
  BY <1>4 DEF Counted, Underway
<1>5. CASE r # worker[w].run
  <2>1. On(r)' = On(r)
    BY <1>1, <1>5 DEF On
  <2>2. queue'[r] = queue[r] /\ status'[r] = status[r]
    BY <1>2, <1>5 DEF FailRun, Die, CatalogTypeOK
  <2> QED
    BY <1>3, <2>1, <2>2, QuietCounted
<1>6. CASE r = worker[w].run /\ status'[r] # "FAILED" /\ r \notin unreported'
  <2>0. queue[r] \in Nat
    BY DEF CatalogTypeOK
  <2>1. UNCHANGED <<status, queue>>
    <3>1. CASE Die(w)
      BY <3>1 DEF Die
    <3>2. CASE FailRun(w)
      <4>1. PICK written, permanent \in BOOLEAN :
              /\ status' = IF written THEN [status EXCEPT ![r] = "FAILED"] ELSE status
              /\ queue' = IF permanent THEN [queue EXCEPT ![r] = 0] ELSE queue
              /\ unreported' = IF permanent /\ ~written THEN unreported \cup {r}
                              ELSE unreported
        BY <1>6, <3>2 DEF FailRun
      <4>2. ~written
        BY <1>6, <4>1 DEF CatalogTypeOK
      <4>3. ~permanent
        BY <1>6, <4>1, <4>2
      <4> QED
        BY <4>1, <4>2, <4>3
    <3> QED
      BY <3>1, <3>2
  <2>2. Cardinality(On(r)) \in Nat /\ Cardinality(On(r)') \in Nat /\ IsFiniteSet(On(r))
    BY OnCounts
  <2>3. Cardinality(On(r)') >= Cardinality(On(r)) - 1
    <3>1. Cardinality(On(r) \ {w}) \in {Cardinality(On(r)) - 1, Cardinality(On(r))}
      BY <2>2, FS_RemoveElement
    <3> QED
      BY <1>1, <2>2, <3>1
  <2>4. Deliverable(r)' >= Deliverable(r)
    <3>1. Deliverable(r)' = queue'[r] + Cardinality(On(r)') + faults'
      BY DEF Deliverable
    <3> QED
      BY <1>3, <2>0, <2>1, <2>2, <2>3, <3>1 DEF Deliverable
  <2>5. Underway(r)' => Underway(r)
    BY <1>1, <1>3, <2>1 DEF Underway
  <2> QED
    BY <2>4, <2>5 DEF Counted
<1> QED
  BY <1>4, <1>5, <1>6

LEMMA StepCounted ==
    ASSUME Inv, Inv', DoneInv, IsFiniteSet(Worker), [CatalogNext]_cvars, NEW r \in Run
    PROVE  Counted(r)
<1>1. CASE Publish \/ (\E q \in Run : Fetch(q) \/ Put(q)) \/ UNCHANGED cvars
  <2>1. UNCHANGED <<worker, status, queue, unreported, faults>>
    BY <1>1 DEF Publish, Fetch, Put, Collect, cvars
  <2>2. On(r)' = On(r) /\ faults \in Nat
    BY <2>1 DEF On, Inv, CatalogTypeOK
  <2> QED
    BY <2>1, <2>2, QuietCounted DEF Inv
<1> QED
  BY <1>1, RecordCounted, BeginCounted, ChunkCounted, FinishCounted, ReturnCounted, StopCounted
  DEF CatalogNext, Progress

\* Only a worker that has settled the run sets it "done", and a settled run is never RAW_SAVED
\* again.
LEMMA StepDone ==
    ASSUME Inv, Inv', DoneInv, [CatalogNext]_cvars
    PROVE  DoneInv'
<1> USE DEF Inv
<1>0. SUFFICES ASSUME NEW v \in Worker, worker'[v].pc = "done"
               PROVE  status'[worker'[v].run] # "RAW_SAVED"
  BY DEF DoneInv
<1>1. ASSUME worker'[v] = worker[v],
             \A r \in Run : status'[r] = "RAW_SAVED" => status[r] = "RAW_SAVED"
      PROVE  status'[worker'[v].run] # "RAW_SAVED"
  <2>1. worker[v].run \in Run
    BY <1>0, <1>1, JobOf, NotIdle
  <2> QED
    BY <1>0, <1>1, <2>1 DEF DoneInv
<1>2. CASE Publish \/ (\E q \in Run : Fetch(q) \/ Put(q)) \/ UNCHANGED cvars
  BY <1>1, <1>2 DEF Publish, Fetch, Put, Collect, cvars
<1>3. ASSUME NEW q \in Run, Record(q) PROVE status'[worker'[v].run] # "RAW_SAVED"
  <2>1. worker'[v] = worker[v] /\ worker[v] # Idle
    BY <1>0, <1>3, NotIdle DEF Record, Enqueue, Collect
  <2>2. worker[v].run # q
    BY <1>3, <2>1 DEF Record, Enqueue, Observe, PathInv
  <2>3. status'[worker[v].run] = status[worker[v].run]
    BY <1>3, <2>2 DEF Record, Enqueue, CatalogTypeOK
  <2> QED
    BY <1>0, <2>1, <2>3 DEF DoneInv
<1>4. ASSUME NEW w \in Worker, NEW q \in Run, Receive(w, q) \/ Replay(w, q)
      PROVE  status'[worker'[v].run] # "RAW_SAVED"
  <2>1. status' = status /\ worker'[w].pc = "next" /\ (v # w => worker'[v] = worker[v])
    BY <1>4 DEF Receive, Replay, Begin, CatalogTypeOK
  <2> QED
    BY <1>0, <1>1, <2>1
<1>5. ASSUME NEW w \in Worker, ReadChunk(w) \/ CommitChunk(w)
      PROVE  status'[worker'[v].run] # "RAW_SAVED"
  <2>1. status' = status /\ worker'[w].pc # "done" /\ (v # w => worker'[v] = worker[v])
    BY <1>5, ChunkedAt
  <2> QED
    BY <1>0, <1>1, <2>1
<1>6. ASSUME NEW w \in Worker, Finish(w) PROVE status'[worker'[v].run] # "RAW_SAVED"
  <2>1. worker[w] \in Job
    BY <1>6, JobOf, NotIdle DEF Finish
  <2>2. \A r \in Run : status'[r] = "RAW_SAVED" => status[r] = "RAW_SAVED"
    BY <1>6, <2>1 DEF Finish, CatalogTypeOK
  <2>3. CASE v # w
    <3>1. worker'[v] = worker[v]
      BY <1>6, <2>3 DEF Finish, CatalogTypeOK
    <3> QED
      BY <1>1, <2>2, <3>1
  <2>4. CASE v = w
    <3>1. worker[w].planned = Queued
      BY <1>0, <1>6, <2>4 DEF Finish, CatalogTypeOK, Idle
    <3>2. worker'[w].run = worker[w].run /\ worker[w].run \in Run
      BY <1>6, <2>1, <3>1 DEF Finish, CatalogTypeOK, Job
    <3>3. status'[worker[w].run] = "COMPLETED"
      BY <1>6, <3>1, <3>2 DEF Finish, CatalogTypeOK, Queued
    <3> QED
      BY <2>4, <3>2, <3>3
  <2> QED
    BY <2>3, <2>4
<1>7. ASSUME NEW w \in Worker, Return(w) \/ FailRun(w) \/ Die(w)
      PROVE  status'[worker'[v].run] # "RAW_SAVED"
  <2>1. worker' = [worker EXCEPT ![w] = Idle]
    BY <1>7 DEF Return, FailRun, Die, Stop
  <2>2. v # w /\ worker'[v] = worker[v]
    BY <1>0, <2>1 DEF CatalogTypeOK, Idle
  <2>3. \A r \in Run : status'[r] = "RAW_SAVED" => status[r] = "RAW_SAVED"
    BY <1>7 DEF Return, FailRun, Die, CatalogTypeOK
  <2> QED
    BY <1>1, <2>2, <2>3
<1> QED
  BY <1>2, <1>3, <1>4, <1>5, <1>6, <1>7 DEF CatalogNext, Progress

\* Where a run that is under way is afterwards.
LEMMA StepUnderway ==
    ASSUME Inv, Inv', DoneInv, DeliveryInv, IsFiniteSet(Worker), MaxFaults < MaxReceive,
           [CatalogNext]_cvars
    PROVE  /\ DeliveryInv'
           /\ \A r \in Run : Underway(r) => Underway(r)' \/ SettledNext(r)
<1>1. ASSUME NEW r \in Run
      PROVE  Deliverable(r) \in Nat /\ Deliverable(r)' \in Nat /\ Counted(r)
  <2>1. /\ queue[r] \in Nat /\ faults \in Nat
        /\ queue'[r] \in Nat /\ faults' \in Nat
    BY DEF Inv, CatalogTypeOK
  <2> QED
    BY <2>1, OnCounts, StepCounted DEF Deliverable
<1>2. ASSUME NEW r \in Run, Underway(r)' PROVE Deliverable(r)' >= MaxReceive
  <2>1. status'[r] = "RAW_SAVED" /\ r \notin unreported'
    BY <1>2 DEF Underway
  <2>2. CASE Underway(r)
    BY <1>1, <2>1, <2>2 DEF Counted, DeliveryInv
  <2> QED
    BY <1>1, <1>2, <2>2 DEF Counted
<1>3. ASSUME NEW r \in Run, Underway(r)
      PROVE  Underway(r)' \/ SettledNext(r)
  <2>0. CASE r \in unreported'
    BY <2>0 DEF SettledNext
  <2>1. CASE status'[r] = "RAW_SAVED" /\ r \notin unreported'
    <3>1. Deliverable(r)' >= MaxReceive
      BY <1>1, <1>3, <2>1 DEF Counted, DeliveryInv
    <3>2. /\ faults' < MaxReceive /\ faults' \in Nat /\ queue'[r] \in Nat
          /\ Cardinality(On(r)') \in Nat
      BY OnCounts DEF Inv, CatalogTypeOK
    <3>3. queue'[r] > 0 \/ Cardinality(On(r)') > 0
      BY <3>1, <3>2 DEF Deliverable
    <3>4. On(r)' = {} => Cardinality(On(r)') = 0
      BY FS_EmptySet
    <3>5. queue'[r] > 0 \/ On(r)' # {}
      BY <3>3, <3>4
    <3> QED
      BY <2>1, <3>5 DEF Underway
  <2>2. CASE status'[r] # "RAW_SAVED"
    <3>1. status[r] = "RAW_SAVED"
      BY <1>3 DEF Underway
    <3>2. status'[r] \in {status[r], "RAW_SAVED", "COMPLETED", "FAILED"}
      <4>1. status \in [Run -> Status \cup {"none"}]
        BY DEF Inv, CatalogTypeOK
      <4>2. \/ UNCHANGED status
            \/ \E k \in Run, v \in Status : status' = [status EXCEPT ![k] = v]
        <5>1. CASE UNCHANGED cvars
          BY <5>1 DEF cvars, runVars
        <5>2. CASE Publish \/ \E k \in Run : Fetch(k) \/ Put(k) \/ Record(k)
          BY <5>2 DEF Publish, Fetch, Put, Record, Enqueue, Status, runVars
        <5>3. CASE \E w \in Worker, k \in Run : Receive(w, k) \/ Replay(w, k)
          BY <5>3 DEF Receive, Replay, Begin
        <5>4. ASSUME NEW w \in Worker, Progress(w) \/ FailRun(w) \/ Die(w)
              PROVE  \/ UNCHANGED status
                     \/ \E k \in Run, v \in Status : status' = [status EXCEPT ![k] = v]
          <6>1. CASE ReadChunk(w) \/ CommitChunk(w) \/ Return(w) \/ Die(w)
            BY <6>1 DEF ReadChunk, CommitChunk, Return, Die, Working, runVars
          <6>2. CASE Finish(w) \/ FailRun(w)
            <7>1. worker[w] # Idle
              BY <6>2 DEF Finish, FailRun, Stop, Idle
            <7>2. worker[w].run \in Run
              BY <7>1 DEF Inv, CatalogTypeOK, Job
            <7> QED
              BY <6>2, <7>2 DEF Finish, FailRun, Status
          <6> QED
            BY <5>4, <6>1, <6>2 DEF Progress
        <5> QED
          BY <5>1, <5>2, <5>3, <5>4 DEF CatalogNext
      <4> QED
        BY <4>1, <4>2 DEF Status
    <3> QED
      BY <2>2, <3>1, <3>2 DEF SettledNext
  <2> QED
    BY <2>0, <2>1, <2>2
<1> QED
  BY <1>2, <1>3 DEF DeliveryInv

\* With fewer faults than a message has deliveries, a run that is queued or with a worker
\* that has it from the queue stays so until it is COMPLETED or FAILED, whichever deliveries
\* die, overlap or come after a replay.  It is left RAW_SAVED with nobody to take it up in
\* one case only: a permanent error, whose message the worker deletes, and whose
\* set_run_failed fails too (worker_handler.py).
THEOREM UnderwayAlwaysStays ==
    IsFiniteSet(Worker) /\ MaxFaults < MaxReceive => (CatalogSpec => UnderwayStays)
<1> SUFFICES ASSUME IsFiniteSet(Worker), MaxFaults < MaxReceive
             PROVE  CatalogSpec => UnderwayStays
  OBVIOUS
<1>1. CatalogInit => Inv /\ DoneInv /\ DeliveryInv
  <2>1. CatalogInit => DoneInv /\ DeliveryInv
    BY DEF CatalogInit, DoneInv, DeliveryInv, Underway, Idle
  <2> QED
    BY <2>1, InitInv
<1>2. Inv /\ DoneInv /\ DeliveryInv /\ [CatalogNext]_cvars
        => (Inv /\ DoneInv /\ DeliveryInv)'
  BY StepInv, StepDone, StepUnderway
<1>3. Inv /\ Inv' /\ DoneInv /\ DeliveryInv /\ [CatalogNext]_cvars
        => [\A r \in Run : Underway(r) => Underway(r)' \/ SettledNext(r)]_cvars
  BY StepUnderway
<1> QED
  BY <1>1, <1>2, <1>3, PTL DEF CatalogSpec, UnderwayStays

=============================================================================

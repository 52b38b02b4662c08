-------------------------- MODULE CanonicalCatalog --------------------------
(***************************************************************************)
(* How ingest runs reach the canonical catalog: a collect fetches a style  *)
(* and week of Beatport, overwrites its raw object, records the run and    *)
(* queues it (routes_ingest.py); workers take runs from the queue, where   *)
(* they come more than once, and from a backfill's plan, and canonicalize  *)
(* the object as it then is, a transaction per phase and per chunk of      *)
(* tracks (worker_handler.py, backfill_handler.py, canonicalize.py).       *)
(*                                                                         *)
(* A transaction is taken apart where another can come between its reads   *)
(* and its commit; it has its source rows from before the reads on.        *)
(***************************************************************************)
EXTENDS CatalogMerge

CONSTANTS
    Key,            \* the raw objects, one per style and week
    KeyOf,          \* the object a run collects
    Listing,        \* the chunks the tracks of an object make, phase by phase
    Worker,         \* concurrent invocations: SQS and the Map allow two each
    MaxReceive,     \* deliveries of a message before it goes to the DLQ
    MaxFaults,      \* bounds failed and lost invocations and lost messages
    MaxReplays      \* bounds the replays, retried ones included

ASSUME PipelineAssumption ==
    /\ 1 \in Version
    /\ KeyOf \in [Run -> Key]
    /\ Listing \in [Key -> Seq(Chunk)]
    /\ MaxReceive \in Nat \ {0}
    /\ MaxFaults \in Nat
    /\ MaxReplays \in Nat

VARIABLES
    beatport,       \* the version Beatport's catalog is at
    ingest,         \* how far the collect of each run is, and the version it fetched
    raw,            \* the raw zone: the version in each object and the run that put it
    status,         \* ingest_runs.status
    queue,          \* deliveries left of each run's message, 0 when there is none
    unreported,     \* history, nothing reads it: the runs whose message was given up while
                    \* FAILED could not be written
    worker,         \* the invocations
    faults, replays

collectVars == <<beatport, ingest, raw>>
runVars == <<status, queue, unreported>>
limits == <<faults, replays>>
cvars == <<vars, collectVars, runVars, worker, limits>>

Status == {"RAW_SAVED", "COMPLETED", "FAILED"}
Queued == "queued"
Idle == [pc |-> "idle"]
NoWrites == [x \in BeatportId |-> Bare]
Job == [pc : {"next", "read", "done"}, run : Run, planned : Status \cup {Queued},
        version : Version, at : Nat \ {0}, new : SUBSET BeatportId,
        write : [BeatportId -> Observation]]

CatalogTypeOK ==
    /\ TypeOK
    /\ beatport \in Version
    /\ ingest \in [Run -> [at : {"none", "fetched", "put", "recorded"},
                           version : Version \cup {0}]]
    /\ raw \in [Key -> [version : Version \cup {0}, by : Run \cup {NoRun}]]
    /\ status \in [Run -> Status \cup {"none"}]
    /\ queue \in [Run -> 0..MaxReceive]
    /\ unreported \in SUBSET Run
    /\ worker \in [Worker -> Job \cup {Idle}]
    /\ faults \in 0..MaxFaults
    /\ replays \in 0..MaxReplays

CatalogInit ==
    /\ Init
    /\ beatport = 1
    /\ ingest = [r \in Run |-> [at |-> "none", version |-> 0]]
    /\ raw = [k \in Key |-> [version |-> 0, by |-> NoRun]]
    /\ status = [r \in Run |-> "none"]
    /\ queue = [r \in Run |-> 0]
    /\ unreported = {}
    /\ worker = [w \in Worker |-> Idle]
    /\ faults = 0
    /\ replays = 0

-----------------------------------------------------------------------------
(* collect_period *)

\* The labels move their catalog on.
Publish ==
    /\ beatport + 1 \in Version
    /\ beatport' = beatport + 1
    /\ UNCHANGED <<vars, ingest, raw, runVars, worker, limits>>

\* The next stage of r's collect, holding version v of the listing.
Collect(r, from, to, v) ==
    /\ ingest[r].at = from
    /\ ingest' = [ingest EXCEPT ![r] = [at |-> to, version |-> v]]
    /\ UNCHANGED <<beatport, worker, replays>>

Fetch(r) ==
    /\ Collect(r, "none", "fetched", beatport)
    /\ UNCHANGED <<vars, raw, runVars, faults>>

\* write_run_artifacts: the object is the style and week's, not the run's.
Put(r) ==
    /\ Collect(r, "fetched", "put", 0)
    /\ raw' = [raw EXCEPT ![KeyOf[r]] = [version |-> ingest[r].version, by |-> r]]
    /\ UNCHANGED <<vars, runVars, faults>>

\* _enqueue_canonicalization: a failure to send is reported and nothing else.
Enqueue(r) ==
    \/ queue' = [queue EXCEPT ![r] = MaxReceive] /\ UNCHANGED faults
    \/ faults < MaxFaults /\ faults' = faults + 1 /\ UNCHANGED queue

\* create_ingest_run, with the time of now, then the message.
Record(r) ==
    /\ Collect(r, "put", "recorded", 0)
    /\ Observe(r)
    /\ status' = [status EXCEPT ![r] = "RAW_SAVED"]
    /\ Enqueue(r)
    /\ UNCHANGED <<raw, unreported>>

-----------------------------------------------------------------------------
(* Where workers find runs *)

Begin(w, r, seen) ==
    /\ worker[w] = Idle
    /\ worker' = [worker EXCEPT ![w] =
                    [pc |-> "next", run |-> r, planned |-> seen, at |-> 1, new |-> {},
                     version |-> raw[KeyOf[r]].version, write |-> NoWrites]]
    /\ UNCHANGED <<vars, collectVars, status, unreported>>

\* Mutant: the message is gone once it is delivered.
ReceiveOnce(w, r) ==
    /\ queue[r] > 0
    /\ queue' = [queue EXCEPT ![r] = 0]
    /\ Begin(w, r, Queued)
    /\ UNCHANGED limits

\* Mutant: deliveries are not counted.
ReceiveEver(w, r) ==
    /\ status[r] = "RAW_SAVED"
    /\ queue' = [queue EXCEPT ![r] = queue[r] - 1]
    /\ Begin(w, r, Queued)
    /\ UNCHANGED limits

\* A delivery; the message stays until it is acknowledged.
Receive(w, r) ==
    /\ queue[r] > 0
    /\ queue' = [queue EXCEPT ![r] = queue[r] - 1]
    /\ Begin(w, r, Queued)
    /\ UNCHANGED limits

\* A backfill's plan lists the run last recorded for each object, and may be old: by the
\* time of its replay the run has any status since and its object may be another's.
Replay(w, r) ==
    /\ started[r] # 0
    /\ replays < MaxReplays
    /\ replays' = replays + 1
    /\ \E seen \in {"RAW_SAVED"} \cup ({"COMPLETED"} \cap {status[r]}) : Begin(w, r, seen)
    /\ UNCHANGED <<queue, faults>>

-----------------------------------------------------------------------------
(* process_run *)

Chunks(w) == Listing[KeyOf[worker[w].run]]
ChunkOf(w) == Chunks(w)[worker[w].at]

\* Steps of an invocation within process_run.
Working == UNCHANGED <<collectVars, runVars, limits>>

\* Mutant: the rows are read without waiting for them.
RowsShared(w) == TRUE

\* batch_upsert_source_entities and claim_identities wait for whoever has the rows.
RowsFree(w) ==
    \A u \in Worker \ {w} : worker[u].pc = "read" => IdsOf(ChunkOf(u)) \cap IdsOf(ChunkOf(w)) = {}

\* Then find_identities and read_track_state; what other rows show by then is read now.
ReadChunk(w) ==
    /\ worker[w].pc = "next"
    /\ worker[w].at <= Len(Chunks(w))
    /\ RowsFree(w)
    /\ worker' = [worker EXCEPT ![w] = [worker[w] EXCEPT
                    !.pc = "read",
                    !.new = Unclaimed(ChunkOf(w)),
                    !.write = Writes(worker[w].run, worker[w].version, ChunkOf(w))]]
    /\ Working
    /\ UNCHANGED vars

\* Mutant: the upsert is not part of the transaction.
CommitSources(w) ==
    /\ worker[w].pc = "read"
    /\ source' = Upserted(worker[w].run, worker[w].version, ChunkOf(w))
    /\ UNCHANGED <<identity, row, made, started, clock, worker>>
    /\ Working

CommitChunk(w) ==
    /\ worker[w].pc = "read"
    /\ Apply(worker[w].run, worker[w].version, ChunkOf(w), worker[w].new, worker[w].write)
    /\ worker' = [worker EXCEPT ![w] = [worker[w] EXCEPT
                    !.pc = "next", !.at = worker[w].at + 1, !.new = {}, !.write = NoWrites]]
    /\ Working

\* set_run_completed; a backfill leaves a run it saw completed.
Finish(w) ==
    /\ worker[w].pc = "next"
    /\ worker[w].at > Len(Chunks(w))
    /\ worker' = [worker EXCEPT ![w] = IF worker[w].planned = Queued
                                       THEN [worker[w] EXCEPT !.pc = "done"] ELSE Idle]
    /\ status' = IF worker[w].planned = "COMPLETED" THEN status
                 ELSE [status EXCEPT ![worker[w].run] = "COMPLETED"]
    /\ UNCHANGED <<vars, collectVars, queue, unreported, limits>>

\* The invocation returns, and SQS deletes its message.
Return(w) ==
    /\ worker[w].pc = "done"
    /\ worker' = [worker EXCEPT ![w] = Idle]
    /\ queue' = [queue EXCEPT ![worker[w].run] = 0]
    /\ UNCHANGED <<vars, collectVars, status, unreported, limits>>

-----------------------------------------------------------------------------
(* Invocations that do not finish; the open transaction is rolled back. *)

Stop(w) ==
    /\ worker[w] # Idle
    /\ faults < MaxFaults
    /\ faults' = faults + 1
    /\ worker' = [worker EXCEPT ![w] = Idle]
    /\ UNCHANGED <<vars, collectVars, replays>>

\* set_run_failed, also of a run another delivery has completed; its own failure is logged
\* and nothing else.  A permanent error gives the message up, reported or not.
FailRun(w) ==
    LET r == worker[w].run
    IN  /\ Stop(w)
        /\ worker[w].planned = Queued
        /\ \E written, permanent \in BOOLEAN :
              /\ status' = IF written THEN [status EXCEPT ![r] = "FAILED"] ELSE status
              /\ queue' = IF permanent THEN [queue EXCEPT ![r] = 0] ELSE queue
              /\ unreported' = IF permanent /\ ~written THEN unreported \cup {r} ELSE unreported

\* The Lambda times out or dies, or a replay fails, which the state machine tries again
\* or notes.
Die(w) ==
    /\ Stop(w)
    /\ UNCHANGED runVars

-----------------------------------------------------------------------------
Progress(w) == ReadChunk(w) \/ CommitChunk(w) \/ Finish(w) \/ Return(w)

CatalogNext ==
    \/ Publish
    \/ \E r \in Run : Fetch(r) \/ Put(r) \/ Record(r)
    \/ \E w \in Worker, r \in Run : Receive(w, r) \/ Replay(w, r)
    \/ \E w \in Worker : Progress(w) \/ FailRun(w) \/ Die(w)

CatalogSpec == CatalogInit /\ [][CatalogNext]_cvars

\* An invocation goes on, and a free one takes a message if there is one; nobody has to
\* collect, or to replay a run.
FairCatalogSpec ==
    /\ CatalogSpec
    /\ \A w \in Worker : WF_cvars(Progress(w) \/ \E r \in Run : Receive(w, r))

-----------------------------------------------------------------------------
\* A transaction per chunk, several workers, redeliveries, failures and replays change
\* nothing that merging whole chunks one after the other would not (ADR-0022, ADR-0024).
ChunksMergeAtomically == Spec

Listed(k) == UNION {IdsOf(Listing[k][i]) : i \in DOMAIN Listing[k]}

\* Once the run whose data is in a raw object is COMPLETED, the catalog has that data, or
\* for what other objects list too something recorded later; no late delivery or replay
\* of an older run takes it back (ADR-0024, list_replayable_runs).
CompletedRunIsShown ==
    \A k \in Key, r \in Run :
        raw[k].by = r /\ status[r] = "COMPLETED" =>
            \A x \in Listed(k) :
                /\ identity[x] # 0
                /\ source[x].seen >= started[r]
                /\ x \notin UNION {Listed(j) : j \in Key \ {k}} =>
                        source[x].payload = Content[raw[k].version][x]

\* A queued run does not stay RAW_SAVED: with fewer faults than deliveries a worker gets
\* to the end of it or reports why not (worker_handler.py, the redrive policy).  One way is
\* left: a permanent error whose set_run_failed fails as well, for the message is deleted.
QueuedRunSettles ==
    \A r \in Run : queue[r] > 0 ~> status[r] \in {"COMPLETED", "FAILED"} \/ r \in unreported

=============================================================================

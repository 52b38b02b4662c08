-------------------------- MODULE Enrichment_proofs --------------------------
(***************************************************************************)
(* Proofs about Enrichment, in every interleaving of its statements, with  *)
(* every crash and repeated delivery: what a claim pays for, what a        *)
(* completed run has, what the AI flag repeats, and that the statements    *)
(* implement the ledger of EnrichLedger.                                   *)
(***************************************************************************)
EXTENDS Enrichment, FiniteSetTheorems, TLAPS

-----------------------------------------------------------------------------
(* Arithmetic of whole searches, and finite sets of messages.              *)

LEMMA Times ==
    ASSUME NEW v \in Nat \ {0}, NEW a \in Nat, NEW b \in Nat
    PROVE  /\ a * v \in Nat
           /\ a < b <=> a * v < b * v
           /\ a <= b <=> a * v <= b * v
           /\ a = b <=> a * v = b * v
           /\ (a + 1) * v = a * v + v
  <1>1. a * v \in Nat /\ b * v \in Nat
    OBVIOUS
  <1>2. a < b => a * v < b * v
    <2> SUFFICES ASSUME a < b PROVE a * v < b * v
      OBVIOUS
    <2>1. b * v = a * v + (b - a) * v
      OBVIOUS
    <2>2. (b - a) * v >= 1
      OBVIOUS
    <2> QED BY <2>1, <2>2, <1>1
  <1>3. b < a => b * v < a * v
    <2> SUFFICES ASSUME b < a PROVE b * v < a * v
      OBVIOUS
    <2>1. a * v = b * v + (a - b) * v
      OBVIOUS
    <2>2. (a - b) * v >= 1
      OBVIOUS
    <2> QED BY <2>1, <2>2, <1>1
  <1>4. (a + 1) * v = a * v + v
    OBVIOUS
  <1> QED BY <1>1, <1>2, <1>3, <1>4

\* Dividing a number of whole searches by the vendors gives the searches back.
LEMMA Whole ==
    ASSUME NEW v \in Nat \ {0}, NEW n \in Nat
    PROVE  (n * v) \div v = n
  <1>1. n * v \in Nat
    OBVIOUS
  <1>2. PICK k : k = (n * v) \div v
    OBVIOUS
  <1>3. k \in Nat /\ v * k <= n * v /\ n * v < v * k + v
    BY <1>1, <1>2
  <1>4. k * v <= n * v /\ n * v < (k + 1) * v
    BY <1>3
  <1>5. k <= n
    BY <1>3, <1>4, Times
  <1>6. n < k + 1
    BY <1>3, <1>4, Times
  <1> QED BY <1>2, <1>3, <1>5, <1>6

LEMMA MessageFinite ==
    /\ IsFiniteSet(Message)
    /\ IsFiniteSet(Label \X (1..MaxCopies))
    /\ Cardinality(Label \X (1..MaxCopies)) = Cardinality(Label) * MaxCopies
  <1>1. IsFiniteSet(1..MaxCopies) /\ Cardinality(1..MaxCopies) = MaxCopies
    BY EnrichAssumption, FS_Interval
  <1>2. /\ IsFiniteSet(Label \X (1..MaxCopies))
        /\ Cardinality(Label \X (1..MaxCopies)) = Cardinality(Label) * MaxCopies
    BY <1>1, EnrichAssumption, FS_Product
  <1>3. IsFiniteSet(Run \X (Label \X (1..MaxCopies)))
    BY <1>2, EnrichAssumption, FS_Product
  <1> DEFINE f == [m \in Message |-> <<m.run, <<m.label, m.copy>>>>]
  <1>4. f \in Injection(Message, Run \X (Label \X (1..MaxCopies)))
    BY DEF Injection, IsInjective, Message
  <1>5. IsFiniteSet(Message)
    BY <1>3, <1>4, FS_Injection
  <1> QED BY <1>2, <1>5

LEMMA MessagesFinite ==
    ASSUME NEW S \in SUBSET Message
    PROVE  IsFiniteSet(S) /\ Cardinality(S) \in Nat
  BY MessageFinite, FS_Subset, FS_CardinalityType

-----------------------------------------------------------------------------
(* What holds at every stage of a request and of a delivery.               *)

\* A run is opened for its messages in one statement, and what is sent,
\* received and counted are messages of their run.
Asked ==
    /\ \A r \in Run : /\ \A m \in asked[r] : m.run = r
                      /\ run[r].status = "none" <=> asked[r] = {}
                      /\ run[r].total = Cardinality(asked[r]) * Vendors
    /\ \A c \in Caller : /\ \A m \in caller[c].todo : m \in asked[m.run]
                         /\ caller[c].pc = "create_run" => caller[c].claimed # {}
    /\ \A m \in queue \cup counted : m \in asked[m.run]

\* A delivery works on a message of a run that was picked up, and has counted
\* no more answers than it stored cells.
Handed ==
    \A w \in Worker : worker[w].pc # "idle" =>
        LET m == worker[w].msg IN
        /\ m \in Message /\ m \in asked[m.run]
        /\ run[m.run].status \in {"running", "completed"}
        /\ worker[w].pc = "insert_cell" => worker[w].ok <= worker[w].next - 1

Sound == EnrichTypeOK /\ Asked /\ Handed

LEMMA InHandOf ==
    ASSUME Sound, NEW w \in Worker, worker[w].pc # "idle"
    PROVE  /\ worker[w].msg \in Message /\ worker[w].msg.run \in Run
           /\ worker[w].msg.label \in Label
           /\ worker[w].msg \in asked[worker[w].msg.run]
           /\ run[worker[w].msg.run].status \in {"running", "completed"}
           /\ worker[w].ok \in 0..Vendors /\ worker[w].next \in Vendor
           /\ worker[w].pc = "insert_cell" => worker[w].ok <= worker[w].next - 1
  BY DEF Sound, Handed, EnrichTypeOK, Message, Work

-----------------------------------------------------------------------------
(* Type correctness and soundness of the stages, action by action.         *)

LEMMA ReclaimCall ==
    ASSUME Sound, NEW c \in Caller, NEW labels \in SUBSET Label, Reclaim(c, labels)
    PROVE  \E r \in Call : /\ caller' = [caller EXCEPT ![c] = r]
                           /\ r.pc = "insert" /\ r.todo = {} /\ r.labels = labels
                           /\ r.claimed = {l \in labels : Reclaimable(l)}
  <1> DEFINE claimed == {l \in labels : Reclaimable(l)}
             r == [NoCall EXCEPT !.pc = "insert", !.labels = labels, !.claimed = claimed]
  <1>1. caller' = [caller EXCEPT ![c] = r]
    BY DEF Reclaim
  <1>2. claimed \in SUBSET Label
    OBVIOUS
  <1> HIDE DEF claimed
  <1>3. r \in Call
    BY <1>2 DEF NoCall, Call, CallStage
  <1>4. r.pc = "insert" /\ r.todo = {} /\ r.labels = labels /\ r.claimed = claimed
    BY DEF NoCall
  <1> HIDE DEF r
  <1> QED BY <1>1, <1>3, <1>4 DEF claimed

LEMMA ReclaimSound ==
    ASSUME Sound, NEW c \in Caller, NEW labels \in SUBSET Label, Reclaim(c, labels)
    PROVE  Sound'
  <1>1. PICK r \in Call : /\ caller' = [caller EXCEPT ![c] = r]
                          /\ r.pc = "insert" /\ r.todo = {}
    BY ReclaimCall
  <1>2. state' \in [Label -> StateRow]
    BY DEF Sound, EnrichTypeOK, Reclaim, Reclaimable, StateRow, MaxAttempts
  <1>3. UNCHANGED <<info, flag, run, cells, worker, queue, asked, counted, again, mixed, faults>>
    BY DEF Reclaim, workVars, countVars
  <1>4. EnrichTypeOK'
    BY <1>1, <1>2, <1>3 DEF Sound, EnrichTypeOK
  <1>5. Asked'
    BY <1>1, <1>3 DEF Sound, EnrichTypeOK, Asked
  <1>6. Handed'
    BY <1>3 DEF Sound, Handed
  <1> QED BY <1>4, <1>5, <1>6 DEF Sound

LEMMA InsertNewCall ==
    ASSUME Sound, NEW c \in Caller, InsertNew(c)
    PROVE  \E r \in Call : /\ caller' = [caller EXCEPT ![c] = r] /\ r.todo = {}
                           /\ r.pc \in {"idle", "create_run"}
                           /\ r.pc = "create_run" => r.claimed # {}
                           /\ r.claimed = caller[c].claimed
                                            \cup {l \in caller[c].labels : Unsearched(l)}
  <1> DEFINE claimed == caller[c].claimed \cup {l \in caller[c].labels : Unsearched(l)}
             r == [NoCall EXCEPT !.pc = "create_run", !.claimed = claimed]
  <1>1. caller' = [caller EXCEPT ![c] = IF claimed = {} THEN NoCall ELSE r]
    BY DEF InsertNew
  <1>2. claimed \in SUBSET Label
    BY DEF Sound, EnrichTypeOK, Call
  <1> HIDE DEF claimed
  <1>3. r \in Call /\ NoCall \in Call
    BY <1>2 DEF NoCall, Call, CallStage
  <1>4. /\ r.pc = "create_run" /\ r.todo = {} /\ r.claimed = claimed
        /\ NoCall.pc = "idle" /\ NoCall.todo = {} /\ NoCall.claimed = {}
    BY DEF NoCall
  <1> HIDE DEF r
  <1>5. CASE claimed = {}
    BY <1>1, <1>3, <1>4, <1>5 DEF claimed
  <1>6. CASE claimed # {}
    BY <1>1, <1>3, <1>4, <1>6 DEF claimed
  <1> QED BY <1>5, <1>6

LEMMA InsertNewSound ==
    ASSUME Sound, NEW c \in Caller, InsertNew(c)
    PROVE  Sound'
  <1>1. PICK r \in Call : /\ caller' = [caller EXCEPT ![c] = r] /\ r.todo = {}
                          /\ r.pc = "create_run" => r.claimed # {}
    BY InsertNewCall
  <1>2. state' \in [Label -> StateRow]
    BY DEF Sound, EnrichTypeOK, InsertNew, Unsearched, StateRow, MaxAttempts
  <1>3. UNCHANGED <<info, flag, run, cells, worker, queue, asked, counted, again, mixed, faults>>
    BY DEF InsertNew, workVars, countVars
  <1>4. EnrichTypeOK'
    BY <1>1, <1>2, <1>3 DEF Sound, EnrichTypeOK
  <1>5. Asked'
    BY <1>1, <1>3 DEF Sound, EnrichTypeOK, Asked
  <1>6. Handed'
    BY <1>3 DEF Sound, Handed
  <1> QED BY <1>4, <1>5, <1>6 DEF Sound

LEMMA AttachRunSound ==
    ASSUME Sound, NEW c \in Caller, AttachRun(c)
    PROVE  Sound'
  <1>1. state' \in [Label -> StateRow]
    BY DEF Sound, EnrichTypeOK, AttachRun, StateRow
  <1>2. /\ caller' \in [Caller -> Call]
        /\ \A d \in Caller : /\ caller'[d].todo = caller[d].todo
                             /\ caller'[d].claimed = caller[d].claimed
                             /\ caller'[d].pc \in {caller[d].pc, "send"}
    <2>1. caller \in [Caller -> Call] /\ caller' = [caller EXCEPT ![c].pc = "send"]
      BY DEF Sound, EnrichTypeOK, AttachRun
    <2> QED BY <2>1 DEF Call, CallStage
  <1>3. UNCHANGED <<info, flag, run, cells, worker, queue, asked, counted, again, mixed, faults>>
    BY DEF AttachRun, workVars, countVars
  <1>4. EnrichTypeOK'
    BY <1>1, <1>2, <1>3 DEF Sound, EnrichTypeOK
  <1>5. Asked'
    BY <1>2, <1>3 DEF Sound, Asked
  <1>6. Handed'
    BY <1>3 DEF Sound, Handed
  <1> QED BY <1>4, <1>5, <1>6 DEF Sound

LEMMA SendCall ==
    ASSUME Sound, NEW c \in Caller, NEW batch \in SUBSET caller[c].todo,
           NEW refused \in SUBSET batch, Send(c, batch, refused)
    PROVE  \E r \in Call : /\ caller' = [caller EXCEPT ![c] = r]
                           /\ r.todo \subseteq caller[c].todo
                           /\ r.pc \in {"send", "idle"}
                           /\ r.pc = "send" => r.claimed = caller[c].claimed
  <1> DEFINE q == caller[c]
             r == [q EXCEPT !.todo = q.todo \ batch]
  <1>1. caller' = [caller EXCEPT ![c] = IF batch = q.todo THEN NoCall ELSE r]
    BY DEF Sound, EnrichTypeOK, Send
  <1>2. q \in Call /\ q.pc = "send"
    BY DEF Sound, EnrichTypeOK, Send
  <1> HIDE DEF q
  <1>3. r \in Call /\ r.pc = "send" /\ r.todo \subseteq q.todo /\ r.claimed = q.claimed
    BY <1>2 DEF Call
  <1>4. NoCall \in Call /\ NoCall.pc = "idle" /\ NoCall.todo = {}
    BY DEF NoCall, Call
  <1> HIDE DEF r
  <1> QED BY <1>1, <1>3, <1>4 DEF q

LEMMA SendSound ==
    ASSUME Sound, NEW c \in Caller, NEW batch \in SUBSET caller[c].todo,
           NEW refused \in SUBSET batch, Send(c, batch, refused)
    PROVE  Sound'
  <1>1. /\ caller \in [Caller -> Call] /\ batch \in SUBSET Message
        /\ \A m \in batch : m \in asked[m.run]
    BY DEF Sound, EnrichTypeOK, Asked, Call
  <1>2. PICK r \in Call : /\ caller' = [caller EXCEPT ![c] = r]
                          /\ r.todo \subseteq caller[c].todo /\ r.pc \in {"send", "idle"}
    BY SendCall
  <1>3. /\ queue' \in SUBSET Message /\ faults' \in 0..MaxFaults
        /\ queue' \subseteq queue \cup batch
    BY <1>1, EnrichAssumption DEF Sound, EnrichTypeOK, Send
  <1>4. UNCHANGED <<state, info, flag, run, cells, worker, asked, counted, again, mixed>>
    BY DEF Send, workVars, countVars
  <1>5. EnrichTypeOK'
    BY <1>1, <1>2, <1>3, <1>4 DEF Sound, EnrichTypeOK
  <1>6. Asked'
    BY <1>1, <1>2, <1>3, <1>4 DEF Sound, Asked
  <1>7. Handed'
    BY <1>4 DEF Sound, Handed
  <1> QED BY <1>5, <1>6, <1>7 DEF Sound

LEMMA StopsSound ==
    ASSUME Sound
    PROVE  /\ \A c \in Caller : CallerStops(c) => Sound'
           /\ \A l \in Label : GrowStale(l) => Sound'
  <1>1. ASSUME NEW c \in Caller, CallerStops(c) PROVE Sound'
    <2>1. caller' \in [Caller -> Call]
      BY <1>1 DEF Sound, EnrichTypeOK, CallerStops, Call, NoCall
    <2>2. EnrichTypeOK'
      BY <1>1, <2>1, EnrichAssumption DEF Sound, EnrichTypeOK, CallerStops, workVars, countVars
    <2>3. Asked'
      BY <1>1 DEF Sound, EnrichTypeOK, Asked, CallerStops, workVars, countVars, NoCall
    <2>4. Handed'
      BY <1>1 DEF Sound, Handed, CallerStops, workVars, countVars
    <2> QED BY <2>2, <2>3, <2>4 DEF Sound
  <1>2. ASSUME NEW l \in Label, GrowStale(l) PROVE Sound'
    <2>1. state' \in [Label -> StateRow]
      BY <1>2 DEF Sound, EnrichTypeOK, GrowStale, StateRow
    <2>2. EnrichTypeOK'
      BY <1>2, <2>1 DEF Sound, EnrichTypeOK, GrowStale, workVars, countVars
    <2>3. Asked' /\ Handed'
      BY <1>2 DEF Sound, Asked, Handed, GrowStale, workVars, countVars
    <2> QED BY <2>2, <2>3 DEF Sound
  <1> QED BY <1>1, <1>2


\* The search goes on to another stage, with the same message.
LEMMA WorkMoves ==
    ASSUME Sound, NEW w \in Worker, worker[w].pc # "idle", NEW r \in Work,
           worker' = [worker EXCEPT ![w] = r],
           r.pc # "idle" => r.msg = worker[w].msg,
           r.pc = "insert_cell" => r.ok <= r.next - 1,
           UNCHANGED <<run, asked>>
    PROVE  worker' \in [Worker -> Work] /\ Handed'
  <1>1. worker \in [Worker -> Work]
    BY DEF Sound, EnrichTypeOK
  <1>2. worker' \in [Worker -> Work]
    BY <1>1
  <1>3. Handed'
    BY <1>1 DEF Sound, Handed
  <1> QED BY <1>2, <1>3

LEMMA AskingFields ==
    ASSUME NEW work \in Work, work.pc = "insert_cell", work.ok <= work.next - 1,
           NEW answered \in BOOLEAN, NEW r, r = Asking(work, answered)
    PROVE  /\ r \in Work /\ r.msg = work.msg
           /\ r.pc = IF work.next = Vendors THEN "upsert_info" ELSE "insert_cell"
           /\ r.next = IF work.next = Vendors THEN 1 ELSE work.next + 1
           /\ r.pc = "insert_cell" => r.ok <= r.next - 1
  <1>1. work.ok \in 0..Vendors /\ work.next \in 1..Vendors
    BY DEF Work, Vendor
  <1>2. /\ r.msg = work.msg /\ r.says = work.says
        /\ r.ok = IF answered THEN work.ok + 1 ELSE work.ok
        /\ r.next = IF work.next = Vendors THEN 1 ELSE work.next + 1
        /\ r.pc = IF work.next = Vendors THEN "upsert_info" ELSE "insert_cell"
    BY DEF Asking, Work
  <1>3. r.ok \in 0..Vendors /\ r.next \in 1..Vendors /\ r.pc \in WorkStage
    BY <1>1, <1>2, EnrichAssumption DEF WorkStage
  <1>4. r \in Work
    <2>1. r = [work EXCEPT !.ok = r.ok, !.next = r.next, !.pc = r.pc]
      BY <1>2 DEF Asking
    <2> QED BY <1>3, <2>1 DEF Work, Vendor
  <1>5. r.pc = "insert_cell" => r.ok <= r.next - 1
    BY <1>1, <1>2, EnrichAssumption
  <1> QED BY <1>2, <1>4, <1>5

LEMMA InsertCellSound ==
    ASSUME Sound, NEW w \in Worker, NEW answered \in BOOLEAN, InsertCell(w, answered)
    PROVE  Sound'
  <1>1. worker[w] \in Work /\ worker[w].pc = "insert_cell"
    BY DEF Sound, EnrichTypeOK, InsertCell
  <1>2. /\ worker[w].msg.run \in Run /\ worker[w].msg.label \in Label
        /\ worker[w].next \in Vendor /\ worker[w].ok <= worker[w].next - 1
    BY <1>1, InHandOf
  <1>3. UNCHANGED <<state, info, flag, run, caller, queue, asked, counted, again, mixed, faults>>
    BY DEF InsertCell, callVars, countVars
  <1>4. worker' = [worker EXCEPT ![w] = Asking(worker[w], answered)]
    BY DEF InsertCell
  <1>5. worker' \in [Worker -> Work] /\ Handed'
    BY <1>1, <1>2, <1>3, <1>4, AskingFields, WorkMoves
  <1>6. cells' \in [Run -> [Label -> SUBSET Vendor]]
    BY <1>2 DEF Sound, EnrichTypeOK, InsertCell
  <1>7. EnrichTypeOK'
    BY <1>3, <1>5, <1>6 DEF Sound, EnrichTypeOK
  <1>8. Asked'
    BY <1>3 DEF Sound, Asked
  <1> QED BY <1>5, <1>7, <1>8 DEF Sound

LEMMA UpsertLabelInfoSound ==
    ASSUME Sound, NEW w \in Worker, NEW says \in Says, UpsertLabelInfo(w, says)
    PROVE  Sound'
  <1>1. worker[w] \in Work /\ worker[w].pc = "upsert_info"
    BY DEF Sound, EnrichTypeOK, UpsertLabelInfo
  <1>2. worker[w].msg.label \in Label
    BY <1>1, InHandOf
  <1>3. UNCHANGED <<state, flag, run, cells, caller, queue, asked, counted, again, mixed, faults>>
    BY DEF UpsertLabelInfo, callVars, countVars
  <1> DEFINE r == [worker[w] EXCEPT !.pc = "project_ai", !.says = says]
  <1>4. worker' = [worker EXCEPT ![w] = r]
    BY DEF Sound, EnrichTypeOK, UpsertLabelInfo
  <1>5. r \in Work /\ r.pc = "project_ai" /\ r.msg = worker[w].msg
    BY <1>1 DEF Work, WorkStage
  <1> HIDE DEF r
  <1>6. worker' \in [Worker -> Work] /\ Handed'
    BY <1>1, <1>3, <1>4, <1>5, WorkMoves
  <1>7. info' \in [Label -> Info]
    BY <1>2 DEF Sound, EnrichTypeOK, UpsertLabelInfo, Info
  <1>8. EnrichTypeOK'
    BY <1>3, <1>6, <1>7 DEF Sound, EnrichTypeOK
  <1>9. Asked'
    BY <1>3 DEF Sound, Asked
  <1> QED BY <1>6, <1>8, <1>9 DEF Sound

LEMMA ProjectAiSuspectedSound ==
    ASSUME Sound, NEW w \in Worker, ProjectAiSuspected(w)
    PROVE  Sound'
  <1>1. worker[w] \in Work /\ worker[w].pc = "project_ai"
    BY DEF Sound, EnrichTypeOK, ProjectAiSuspected
  <1>2. worker[w].msg.label \in Label
    BY <1>1, InHandOf
  <1>3. UNCHANGED <<state, info, run, cells, caller, queue, asked, counted, again, mixed, faults>>
    BY DEF ProjectAiSuspected, callVars, countVars
  <1> DEFINE r == [worker[w] EXCEPT !.pc = "counters", !.says = "empty"]
  <1>4. worker' = [worker EXCEPT ![w] = r]
    BY DEF Sound, EnrichTypeOK, ProjectAiSuspected
  <1>5. r \in Work /\ r.pc = "counters" /\ r.msg = worker[w].msg
    BY <1>1 DEF Work, WorkStage, Says
  <1> HIDE DEF r
  <1>6. worker' \in [Worker -> Work] /\ Handed'
    BY <1>1, <1>3, <1>4, <1>5, WorkMoves
  <1>7. flag' \in [Label -> BOOLEAN]
    BY <1>2 DEF Sound, EnrichTypeOK, ProjectAiSuspected
  <1>8. EnrichTypeOK'
    BY <1>3, <1>6, <1>7 DEF Sound, EnrichTypeOK
  <1>9. Asked'
    BY <1>3 DEF Sound, Asked
  <1> QED BY <1>6, <1>8, <1>9 DEF Sound

LEMMA DeleteMessageSound ==
    ASSUME Sound, NEW w \in Worker, DeleteMessage(w)
    PROVE  Sound'
  <1>1. worker[w].pc = "delete"
    BY DEF DeleteMessage
  <1>2. UNCHANGED <<state, info, flag, run, cells, caller, queue, asked, counted, again, mixed,
                    faults>>
    BY DEF DeleteMessage, callVars, countVars
  <1>3. NoWork \in Work /\ NoWork.pc = "idle"
    BY EnrichAssumption DEF NoWork, Work, Vendor, Says
  <1>4. worker' = [worker EXCEPT ![w] = NoWork]
    BY DEF DeleteMessage
  <1>5. worker' \in [Worker -> Work] /\ Handed'
    BY <1>1, <1>2, <1>3, <1>4, WorkMoves
  <1>6. EnrichTypeOK'
    BY <1>2, <1>5 DEF Sound, EnrichTypeOK
  <1>7. Asked'
    BY <1>2 DEF Sound, Asked
  <1> QED BY <1>5, <1>6, <1>7 DEF Sound

LEMMA MarkAutoEnrichOutcomeSound ==
    ASSUME Sound, NEW w \in Worker, MarkAutoEnrichOutcome(w)
    PROVE  Sound'
  <1>1. worker[w] \in Work /\ worker[w].pc = "outcome"
    BY DEF Sound, EnrichTypeOK, MarkAutoEnrichOutcome
  <1>2. worker[w].msg.label \in Label
    BY <1>1, InHandOf
  <1>3. UNCHANGED <<info, flag, run, cells, caller, queue, asked, counted, again, mixed, faults>>
    BY DEF MarkAutoEnrichOutcome, countVars
  <1> DEFINE r == [worker[w] EXCEPT !.pc = "delete", !.ok = 0]
  <1>4. worker' = [worker EXCEPT ![w] = r]
    BY DEF Sound, EnrichTypeOK, MarkAutoEnrichOutcome
  <1>5. r \in Work /\ r.pc = "delete" /\ r.msg = worker[w].msg
    <2>1. 0 \in 0..Vendors
      BY EnrichAssumption
    <2> QED BY <1>1, <2>1 DEF Work, WorkStage
  <1> HIDE DEF r
  <1>6. worker' \in [Worker -> Work] /\ Handed'
    BY <1>1, <1>3, <1>4, <1>5, WorkMoves
  <1>7. state' \in [Label -> StateRow]
    <2>1. PICK l \in Label : l = worker[w].msg.label
      BY <1>2
    <2>2. state \in [Label -> StateRow]
      BY DEF Sound, EnrichTypeOK
    <2>3. PICK x : x = IF state[l].status # "queued" THEN state[l]
                       ELSE [state[l] EXCEPT
                               !.status = IF worker[w].ok > 0 THEN "completed" ELSE "failed",
                               !.stale = FALSE]
      OBVIOUS
    <2>4. state' = [state EXCEPT ![l] = x]
      BY <2>1, <2>3 DEF MarkAutoEnrichOutcome
    <2>5. state[l] \in StateRow
      BY <2>2
    <2>6. x \in StateRow
      BY <2>3, <2>5 DEF StateRow
    <2> QED BY <2>2, <2>4, <2>6
  <1>8. EnrichTypeOK'
    BY <1>3, <1>6, <1>7 DEF Sound, EnrichTypeOK
  <1>9. Asked'
    BY <1>3 DEF Sound, Asked
  <1> QED BY <1>6, <1>8, <1>9 DEF Sound

LEMMA WorkerStopsSound ==
    ASSUME Sound, NEW w \in Worker, WorkerStops(w)
    PROVE  Sound'
  <1>1. worker[w].pc # "idle"
    BY DEF WorkerStops
  <1>2. worker[w].msg \in Message /\ worker[w].msg \in asked[worker[w].msg.run]
    BY <1>1, InHandOf
  <1>3. UNCHANGED <<state, info, flag, run, cells, caller, asked, counted, again, mixed>>
    BY DEF WorkerStops, callVars, countVars
  <1>4. NoWork \in Work /\ NoWork.pc = "idle"
    BY EnrichAssumption DEF NoWork, Work, Vendor, Says
  <1>5. worker' = [worker EXCEPT ![w] = NoWork] /\ queue' = queue \cup {worker[w].msg}
    BY DEF WorkerStops
  <1>6. worker' \in [Worker -> Work] /\ Handed'
    BY <1>1, <1>3, <1>4, <1>5, WorkMoves
  <1>7. queue' \in SUBSET Message /\ faults' \in 0..MaxFaults
    BY <1>2, EnrichAssumption DEF Sound, EnrichTypeOK, WorkerStops
  <1>8. EnrichTypeOK'
    BY <1>3, <1>6, <1>7 DEF Sound, EnrichTypeOK
  <1>9. Asked'
    BY <1>2, <1>3, <1>5 DEF Sound, Asked
  <1> QED BY <1>6, <1>8, <1>9 DEF Sound


\* A run is opened in one statement, from a row that nothing refers to yet.
LEMMA OpenedSound ==
    ASSUME Sound, NEW c \in Caller, NEW q \in Call, NEW r \in Run, run[r].status = "none",
           NEW source \in {"auto", "manual"}, NEW messages \in SUBSET Message,
           messages # {}, \A m \in messages : m.run = r,
           caller' = [caller EXCEPT ![c] = q], q.todo = messages, q.pc # "create_run",
           run' = [run EXCEPT ![r] = Opened(run[r], source, messages)],
           asked' = [asked EXCEPT ![r] = messages],
           UNCHANGED <<state, info, flag, cells, worker, queue, counted, again, mixed, faults>>
    PROVE  Sound'
  <1>1. Cardinality(messages) * Vendors \in Nat
    BY MessagesFinite, Times, EnrichAssumption
  <1>2. PICK row : row = Opened(run[r], source, messages)
    OBVIOUS
  <1>3. run[r] \in RunRow
    BY DEF Sound, EnrichTypeOK
  <1>4. row \in RunRow
    BY <1>1, <1>2, <1>3 DEF Opened, RunRow
  <1>5. row.status = "queued" /\ row.total = Cardinality(messages) * Vendors
    BY <1>2, <1>3 DEF Opened, RunRow
  <1>6. run' = [run EXCEPT ![r] = row]
    BY <1>2
  <1>7. EnrichTypeOK'
    BY <1>4, <1>6 DEF Sound, EnrichTypeOK
  <1>8. asked[r] = {}
    BY DEF Sound, Asked
  <1>9. ASSUME NEW m \in Message, m \in asked[m.run]
        PROVE  m.run \in Run /\ m.run # r /\ m \in asked'[m.run] /\ run'[m.run] = run[m.run]
    <2>1. m.run \in Run
      BY DEF Message
    <2>2. m.run # r
      BY <1>8, <1>9
    <2> QED BY <1>6, <1>9, <2>1, <2>2 DEF Sound, EnrichTypeOK
  <1>10. \A m \in messages : m \in asked'[m.run]
    BY DEF Sound, EnrichTypeOK
  <1>11. Asked'
    <2>1. ASSUME NEW s \in Run
          PROVE  /\ \A m \in asked'[s] : m.run = s
                 /\ run'[s].status = "none" <=> asked'[s] = {}
                 /\ run'[s].total = Cardinality(asked'[s]) * Vendors
      <3>1. CASE s = r
        <4>1. run'[s] = row /\ asked'[s] = messages
          BY <1>6, <3>1 DEF Sound, EnrichTypeOK
        <4> QED BY <1>5, <3>1, <4>1
      <3>2. CASE s # r
        <4>1. run'[s] = run[s] /\ asked'[s] = asked[s]
          BY <1>6, <3>2 DEF Sound, EnrichTypeOK
        <4> QED BY <4>1 DEF Sound, Asked
      <3> QED BY <3>1, <3>2
    <2>2. ASSUME NEW d \in Caller
          PROVE  /\ \A m \in caller'[d].todo : m \in asked'[m.run]
                 /\ caller'[d].pc = "create_run" => caller'[d].claimed # {}
      <3>1. caller[d].todo \in SUBSET Message /\ caller \in [Caller -> Call]
        BY DEF Sound, EnrichTypeOK, Call
      <3>2. CASE d = c
        BY <1>10, <3>1, <3>2
      <3>3. CASE d # c
        BY <1>9, <3>1, <3>3 DEF Sound, Asked
      <3> QED BY <3>2, <3>3
    <2>3. \A m \in queue \cup counted : m \in asked'[m.run]
      BY <1>9 DEF Sound, EnrichTypeOK, Asked
    <2> QED BY <2>1, <2>2, <2>3 DEF Asked
  <1>12. Handed'
    BY <1>9 DEF Sound, Handed
  <1> QED BY <1>7, <1>11, <1>12 DEF Sound

\* What a manual request and a dispatch open, and for which messages.
LEMMA AskByHandOpens ==
    ASSUME Sound, NEW c \in Caller, NEW entries \in SUBSET (Label \X (1..MaxCopies)),
           AskByHand(c, entries)
    PROVE  \E r \in Run, messages \in SUBSET Message, q \in Call :
              /\ run[r].status = "none"
              /\ messages # {} /\ \A m \in messages : m.run = r
              /\ caller' = [caller EXCEPT ![c] = q]
              /\ q.todo = messages /\ q.pc = "send" /\ q.claimed = {}
              /\ run' = [run EXCEPT ![r] = Opened(run[r], "manual", messages)]
              /\ asked' = [asked EXCEPT ![r] = messages]
  <1>1. PICK r \in Run :
           /\ run[r].status = "none"
           /\ LET messages == {[run |-> r, label |-> e[1], copy |-> e[2]] : e \in entries} IN
              /\ caller' = [caller EXCEPT ![c] =
                    [NoCall EXCEPT !.pc = "send", !.source = "manual",
                                   !.run = r, !.todo = messages]]
              /\ run' = [run EXCEPT ![r] = Opened(run[r], "manual", messages)]
              /\ asked' = [asked EXCEPT ![r] = messages]
    BY Zenon DEF AskByHand
  <1> DEFINE messages == {[run |-> r, label |-> e[1], copy |-> e[2]] : e \in entries}
             q == [NoCall EXCEPT !.pc = "send", !.source = "manual",
                                 !.run = r, !.todo = messages]
  <1>2. messages \in SUBSET Message /\ \A m \in messages : m.run = r
    BY DEF Message
  <1>3. messages # {}
    <2>1. PICK e \in entries : TRUE
      BY DEF AskByHand
    <2>2. [run |-> r, label |-> e[1], copy |-> e[2]] \in messages
      OBVIOUS
    <2> QED BY <2>2
  <1>4. /\ run[r].status = "none"
        /\ caller' = [caller EXCEPT ![c] = q]
        /\ run' = [run EXCEPT ![r] = Opened(run[r], "manual", messages)]
        /\ asked' = [asked EXCEPT ![r] = messages]
    BY <1>1, Zenon
  <1> HIDE DEF messages
  <1>5. q \in Call
    BY <1>2 DEF NoCall, Call, CallStage
  <1>6. q.todo = messages /\ q.pc = "send" /\ q.claimed = {}
    BY DEF NoCall
  <1> HIDE DEF q
  <1> QED BY <1>2, <1>3, <1>4, <1>5, <1>6

LEMMA CreateRunOpens ==
    ASSUME Sound, NEW c \in Caller, CreateRun(c)
    PROVE  \E r \in Run, messages \in SUBSET Message, q \in Call :
              /\ run[r].status = "none"
              /\ messages # {} /\ messages = [run : {r}, label : caller[c].claimed, copy : {1}]
              /\ caller' = [caller EXCEPT ![c] = q]
              /\ q.todo = messages /\ q.pc = "attach_run"
              /\ run' = [run EXCEPT ![r] = Opened(run[r], "auto", messages)]
              /\ asked' = [asked EXCEPT ![r] = messages]
  <1>1. PICK r \in Run :
           /\ run[r].status = "none"
           /\ LET messages == [run : {r}, label : caller[c].claimed, copy : {1}] IN
              /\ caller' = [caller EXCEPT ![c].pc = "attach_run", ![c].run = r,
                                          ![c].todo = messages]
              /\ run' = [run EXCEPT ![r] = Opened(run[r], "auto", messages)]
              /\ asked' = [asked EXCEPT ![r] = messages]
    BY Zenon DEF CreateRun
  <1> DEFINE messages == [run : {r}, label : caller[c].claimed, copy : {1}]
             q == [caller[c] EXCEPT !.pc = "attach_run", !.run = r, !.todo = messages]
  <1>2. caller \in [Caller -> Call] /\ caller[c].pc = "create_run"
    BY DEF Sound, EnrichTypeOK, CreateRun
  <1>3. caller[c].claimed \in SUBSET Label /\ caller[c].claimed # {}
    BY <1>2 DEF Call, Sound, Asked
  <1>4. messages \in SUBSET Message
    <2>1. 1 \in 1..MaxCopies
      BY EnrichAssumption
    <2> QED BY <1>3, <2>1 DEF Message
  <1>5. messages # {}
    <2>1. PICK l : l \in caller[c].claimed
      BY <1>3
    <2>2. [run |-> r, label |-> l, copy |-> 1] \in messages
      BY <2>1
    <2> QED BY <2>2
  <1>6. /\ run' = [run EXCEPT ![r] = Opened(run[r], "auto", messages)]
        /\ asked' = [asked EXCEPT ![r] = messages]
    BY <1>1, Zenon
  <1>7. caller' = [caller EXCEPT ![c].pc = "attach_run", ![c].run = r, ![c].todo = messages]
    BY <1>1, Zenon
  <1> HIDE DEF messages
  <1>8. caller' = [caller EXCEPT ![c] = q]
    BY <1>2, <1>7 DEF Call
  <1>9. q \in Call
    BY <1>2, <1>4 DEF Call, CallStage
  <1>10. q.todo = messages /\ q.pc = "attach_run"
    BY <1>2 DEF Call
  <1> HIDE DEF q
  <1> QED BY <1>1, <1>4, <1>5, <1>6, <1>8, <1>9, <1>10 DEF messages

LEMMA OpensSound ==
    ASSUME Sound, NEW c \in Caller
    PROVE  /\ \A entries \in SUBSET (Label \X (1..MaxCopies)) : AskByHand(c, entries) => Sound'
           /\ CreateRun(c) => Sound'
  <1>1. ASSUME NEW entries \in SUBSET (Label \X (1..MaxCopies)), AskByHand(c, entries)
        PROVE  Sound'
    <2>1. UNCHANGED <<state, info, flag, cells, worker, queue, counted, again, mixed, faults>>
      BY <1>1 DEF AskByHand, workVars
    <2>2. PICK r \in Run, messages \in SUBSET Message, q \in Call :
              /\ run[r].status = "none"
              /\ messages # {} /\ \A m \in messages : m.run = r
              /\ caller' = [caller EXCEPT ![c] = q]
              /\ q.todo = messages /\ q.pc = "send" /\ q.claimed = {}
              /\ run' = [run EXCEPT ![r] = Opened(run[r], "manual", messages)]
              /\ asked' = [asked EXCEPT ![r] = messages]
      BY <1>1, AskByHandOpens
    <2> QED BY <2>1, <2>2, OpenedSound
  <1>2. ASSUME CreateRun(c) PROVE Sound'
    <2>1. UNCHANGED <<state, info, flag, cells, worker, queue, counted, again, mixed, faults>>
      BY <1>2 DEF CreateRun, workVars
    <2>2. PICK r \in Run, messages \in SUBSET Message, q \in Call :
              /\ run[r].status = "none"
              /\ messages # {} /\ messages = [run : {r}, label : caller[c].claimed, copy : {1}]
              /\ caller' = [caller EXCEPT ![c] = q]
              /\ q.todo = messages /\ q.pc = "attach_run"
              /\ run' = [run EXCEPT ![r] = Opened(run[r], "auto", messages)]
              /\ asked' = [asked EXCEPT ![r] = messages]
      BY <1>2, CreateRunOpens
    <2>3. \A m \in messages : m.run = r
      BY <2>2
    <2> QED BY <2>1, <2>2, <2>3, OpenedSound
  <1> QED BY <1>1, <1>2

LEMMA ReceiveSound ==
    ASSUME Sound, NEW w \in Worker, NEW m \in queue, NEW spare \in BOOLEAN,
           Receive(w, m, spare)
    PROVE  Sound'
  <1>1. m \in Message /\ m.run \in Run /\ m.label \in Label /\ m \in asked[m.run]
    BY DEF Sound, EnrichTypeOK, Asked, Message
  <1>2. /\ queue' \in SUBSET queue /\ faults' \in 0..MaxFaults /\ mixed' \in SUBSET Label
        /\ UNCHANGED <<state, caller, info, flag, cells, counted, again, asked>>
    BY <1>1, EnrichAssumption DEF Sound, EnrichTypeOK, Receive, callVars
  <1> DEFINE r == [NoWork EXCEPT !.pc = "insert_cell", !.msg = m]
  <1>3. worker' = [worker EXCEPT ![w] = r] /\ worker \in [Worker -> Work]
    BY DEF Sound, EnrichTypeOK, Receive
  <1>4. r \in Work
    <2>1. 0 \in 0..Vendors /\ 1 \in 1..Vendors
      BY EnrichAssumption
    <2> QED BY <1>1, <2>1 DEF NoWork, Work, WorkStage, Vendor, Says
  <1>5. r.msg = m /\ r.ok = 0 /\ r.next = 1
    BY DEF NoWork
  <1> HIDE DEF r
  <1>6. /\ run' \in [Run -> RunRow]
        /\ \A s \in Run : /\ run'[s].total = run[s].total
                          /\ run'[s].status = "none" <=> run[s].status = "none"
                          /\ run[s].status \in {"running", "completed"}
                                => run'[s].status = run[s].status
        /\ run'[m.run].status = IF run[m.run].status = "queued" THEN "running"
                                ELSE run[m.run].status
    <2>1. run \in [Run -> RunRow]
      BY DEF Sound, EnrichTypeOK
    <2>2. PICK x : x = [run[m.run] EXCEPT
                          !.status = IF run[m.run].status = "queued" THEN "running"
                                     ELSE run[m.run].status]
      OBVIOUS
    <2>3. run' = [run EXCEPT ![m.run] = x]
      BY <2>2 DEF Receive
    <2>4. run[m.run] \in RunRow
      BY <1>1, <2>1
    <2>5. /\ x \in RunRow /\ x.total = run[m.run].total
          /\ x.status = IF run[m.run].status = "queued" THEN "running" ELSE run[m.run].status
      BY <2>2, <2>4 DEF RunRow
    <2>6. run' \in [Run -> RunRow] /\ run'[m.run] = x
      BY <1>1, <2>1, <2>3, <2>5
    <2>7. \A s \in Run : s = m.run \/ run'[s] = run[s]
      BY <2>1, <2>3
    <2> QED BY <2>5, <2>6, <2>7
  <1>7. EnrichTypeOK'
    BY <1>2, <1>3, <1>4, <1>6 DEF Sound, EnrichTypeOK
  <1>8. Asked'
    BY <1>2, <1>6 DEF Sound, Asked
  <1>9. run'[m.run].status \in {"running", "completed"}
    BY <1>1, <1>6 DEF Sound, EnrichTypeOK, RunRow, Asked
  <1>10. Handed'
    <2>1. ASSUME NEW v \in Worker, worker'[v].pc # "idle"
          PROVE  /\ worker'[v].msg \in Message /\ worker'[v].msg \in asked[worker'[v].msg.run]
                 /\ run'[worker'[v].msg.run].status \in {"running", "completed"}
                 /\ worker'[v].pc = "insert_cell" => worker'[v].ok <= worker'[v].next - 1
      <3>1. CASE v = w
        BY <1>1, <1>3, <1>5, <1>9, <3>1
      <3>2. CASE v # w
        <4>1. worker'[v] = worker[v]
          BY <1>3, <3>2
        <4> QED BY <1>6, <2>1, <4>1, InHandOf
      <3> QED BY <3>1, <3>2
    <2> QED BY <1>2, <2>1 DEF Handed
  <1> QED BY <1>7, <1>8, <1>10 DEF Sound

LEMMA IncrementRow ==
    ASSUME Sound, NEW w \in Worker, IncrementRunCounters(w)
    PROVE  LET r == worker[w].msg.run
               ok == worker[w].ok
           IN  \E row \in RunRow :
                 /\ run' = [run EXCEPT ![r] = row]
                 /\ row.total = run[r].total /\ row.source = run[r].source
                 /\ row.ok = run[r].ok + ok /\ row.error = run[r].error + (Vendors - ok)
                 /\ row.status = IF row.ok + row.error >= row.total THEN "completed"
                                 ELSE run[r].status
  <1> DEFINE old == run[worker[w].msg.run]
             ok == worker[w].ok
             row == Counted(old, ok, Vendors - ok)
  <1>1. worker[w].pc = "counters" /\ run' = [run EXCEPT ![worker[w].msg.run] = row]
    BY DEF IncrementRunCounters
  <1>2. worker[w].msg.run \in Run /\ ok \in 0..Vendors
    BY <1>1, InHandOf
  <1>3. old \in RunRow
    BY <1>2 DEF Sound, EnrichTypeOK
  <1> HIDE DEF old, ok
  <1>4. ok \in Nat /\ Vendors - ok \in Nat
    BY <1>2, EnrichAssumption
  <1>5. /\ row.total = old.total /\ row.source = old.source
        /\ row.ok = old.ok + ok /\ row.error = old.error + (Vendors - ok)
        /\ row.status = IF old.ok + old.error + ok + (Vendors - ok) >= old.total
                        THEN "completed" ELSE old.status
    BY <1>3 DEF Counted, RunRow
  <1>6. row \in RunRow
    <2>1. row.ok \in Nat /\ row.error \in Nat /\ row.status \in {"completed", old.status}
      BY <1>3, <1>4, <1>5 DEF RunRow
    <2>2. row = [old EXCEPT !.ok = row.ok, !.error = row.error, !.status = row.status]
      BY <1>5 DEF Counted
    <2> QED BY <1>3, <2>1, <2>2 DEF RunRow
  <1> HIDE DEF row
  <1>7. row.status = IF row.ok + row.error >= row.total THEN "completed" ELSE old.status
    BY <1>3, <1>4, <1>5 DEF RunRow
  <1> QED BY <1>1, <1>5, <1>6, <1>7 DEF old, ok

LEMMA IncrementSound ==
    ASSUME Sound, NEW w \in Worker, IncrementRunCounters(w)
    PROVE  Sound'
  <1> DEFINE m == worker[w].msg
  <1>1. worker[w] \in Work /\ worker[w].pc = "counters"
    BY DEF Sound, EnrichTypeOK, IncrementRunCounters
  <1>2. /\ m \in Message /\ m.run \in Run /\ m \in asked[m.run]
        /\ run[m.run].status \in {"running", "completed"}
    BY <1>1, InHandOf
  <1>3. /\ UNCHANGED <<state, info, flag, cells, caller, queue, asked, mixed, faults>>
        /\ counted' = counted \cup {m} /\ again' \in SUBSET Run
    BY <1>2 DEF Sound, EnrichTypeOK, IncrementRunCounters, callVars
  <1> DEFINE r == [worker[w] EXCEPT !.pc = "outcome"]
  <1>4. worker' = [worker EXCEPT ![w] = r] /\ worker \in [Worker -> Work]
    BY DEF Sound, EnrichTypeOK, IncrementRunCounters
  <1>5. r \in Work /\ r.pc = "outcome" /\ r.msg = m
    BY <1>1 DEF Work, WorkStage
  <1> HIDE DEF r
  <1>6. PICK row \in RunRow : /\ run' = [run EXCEPT ![m.run] = row]
                              /\ row.total = run[m.run].total
                              /\ row.status \in {run[m.run].status, "completed"}
    BY IncrementRow
  <1> HIDE DEF m
  <1>7. EnrichTypeOK'
    BY <1>2, <1>3, <1>4, <1>5, <1>6 DEF Sound, EnrichTypeOK
  <1>8. \A s \in Run : /\ run'[s].total = run[s].total
                       /\ run'[s].status = "none" <=> run[s].status = "none"
                       /\ run[s].status \in {"running", "completed"}
                             => run'[s].status \in {"running", "completed"}
    BY <1>2, <1>6 DEF Sound, EnrichTypeOK
  <1>9. Asked'
    BY <1>2, <1>3, <1>8 DEF Sound, Asked
  <1>10. Handed'
    <2>1. ASSUME NEW v \in Worker, worker'[v].pc # "idle"
          PROVE  /\ worker'[v].msg \in Message /\ worker'[v].msg \in asked[worker'[v].msg.run]
                 /\ run'[worker'[v].msg.run].status \in {"running", "completed"}
                 /\ worker'[v].pc = "insert_cell" => worker'[v].ok <= worker'[v].next - 1
      <3>1. CASE v = w
        BY <1>2, <1>4, <1>5, <1>8, <3>1
      <3>2. CASE v # w
        <4>1. worker'[v] = worker[v]
          BY <1>4, <3>2
        <4> QED BY <1>8, <2>1, <4>1, InHandOf
      <3> QED BY <3>1, <3>2
    <2> QED BY <1>3, <2>1 DEF Handed
  <1> QED BY <1>7, <1>9, <1>10 DEF Sound


-----------------------------------------------------------------------------
(* Every step is one of a request, or one of a delivery.                   *)

RequestStep ==
    \/ \E c \in Caller :
          \/ \E labels \in SUBSET Label : Reclaim(c, labels)
          \/ \E entries \in SUBSET (Label \X (1..MaxCopies)) : AskByHand(c, entries)
          \/ CallerStep(c) \/ CallerStops(c)
    \/ \E l \in Label : GrowStale(l)

DeliveryStep(w) ==
    \/ \E m \in queue, spare \in BOOLEAN : Receive(w, m, spare)
    \/ WorkerStep(w) \/ WorkerStops(w)

LEMMA Steps == Next => RequestStep \/ \E w \in Worker : DeliveryStep(w)
  BY Zenon DEF Next, RequestStep, DeliveryStep

LEMMA RequestStepSound ==
    ASSUME Sound, RequestStep
    PROVE  Sound'
  <1>1. ASSUME NEW c \in Caller, CallerStep(c) PROVE Sound'
    <2>1. CASE InsertNew(c)
      BY <2>1, InsertNewSound
    <2>2. CASE CreateRun(c)
      BY <2>2, OpensSound
    <2>3. CASE AttachRun(c)
      BY <2>3, AttachRunSound
    <2>4. ASSUME NEW batch \in SUBSET caller[c].todo, NEW refused \in SUBSET batch,
                 Send(c, batch, refused)
          PROVE  Sound'
      BY <2>4, SendSound
    <2> QED BY <1>1, <2>1, <2>2, <2>3, <2>4 DEF CallerStep
  <1> QED BY <1>1, ReclaimSound, OpensSound, StopsSound DEF RequestStep

LEMMA DeliveryStepSound ==
    ASSUME Sound, NEW w \in Worker, DeliveryStep(w)
    PROVE  Sound'
  <1>1. CASE WorkerStep(w)
    BY <1>1, InsertCellSound, UpsertLabelInfoSound, ProjectAiSuspectedSound, IncrementSound,
       MarkAutoEnrichOutcomeSound, DeleteMessageSound DEF WorkerStep
  <1> QED BY <1>1, ReceiveSound, WorkerStopsSound DEF DeliveryStep

LEMMA SoundInit == Init => Sound
  <1> SUFFICES ASSUME Init PROVE Sound
    OBVIOUS
  <1>1. NoCall \in Call /\ NoCall.pc = "idle" /\ NoCall.todo = {}
    BY DEF NoCall, Call
  <1>2. NoWork \in Work /\ NoWork.pc = "idle"
    <2>1. 0 \in 0..Vendors /\ 1 \in 1..Vendors
      BY EnrichAssumption
    <2> QED BY <2>1 DEF NoWork, Work, Vendor, Says
  <1>3. state \in [Label -> StateRow] /\ run \in [Run -> RunRow]
    BY DEF Init, StateRow, RunRow, MaxAttempts
  <1>4. EnrichTypeOK
    BY <1>1, <1>2, <1>3, EnrichAssumption DEF Init, EnrichTypeOK, Info
  <1>5. Cardinality({}) * Vendors = 0
    BY FS_EmptySet, EnrichAssumption
  <1>6. Asked
    BY <1>1, <1>5 DEF Init, Asked
  <1>7. Handed
    BY <1>2 DEF Init, Handed
  <1> QED BY <1>4, <1>6, <1>7 DEF Sound

LEMMA SoundStep == Sound /\ [Next]_vars => Sound'
  <1> SUFFICES ASSUME Sound, [Next]_vars PROVE Sound'
    OBVIOUS
  <1>1. CASE UNCHANGED vars
    BY <1>1 DEF Sound, EnrichTypeOK, Asked, Handed, vars, callVars, workVars, countVars
  <1>2. CASE Next
    BY <1>2, Steps, RequestStepSound, DeliveryStepSound
  <1> QED BY <1>1, <1>2

LEMMA AlwaysSound == Spec => []Sound
  BY SoundInit, SoundStep, PTL DEF Spec

\* Rows, requests and deliveries keep their shape, in particular no label is
\* ever searched a third time on its own: attempts stay within MaxAttempts.
THEOREM EnrichTypeCorrect == Spec => []EnrichTypeOK
  <1>1. Sound => EnrichTypeOK
    BY DEF Sound
  <1> QED BY <1>1, AlwaysSound, PTL


-----------------------------------------------------------------------------
(* What a delivery has stored by the time it counts.                       *)

HasCells(m) == cells[m.run][m.label] = Vendor
HasInfo(m) == info[m.label] # "absent"

\* A delivery that stops loses its place, and the next begins over its cells.
StoredFor(work) ==
    /\ work.pc = "insert_cell" => 1..(work.next - 1) \subseteq cells[work.msg.run][work.msg.label]
    /\ work.pc \notin {"idle", "insert_cell"} => HasCells(work.msg)
    /\ work.pc \notin {"idle", "insert_cell", "upsert_info"} => HasInfo(work.msg)

Stored ==
    /\ \A w \in Worker : StoredFor(worker[w])
    /\ \A m \in counted : HasCells(m) /\ HasInfo(m)

\* Cells and infos only come; a delivery moves on when it has stored its own.
LEMMA StoredGrows ==
    ASSUME Sound, Sound', Stored, NEW w \in Worker,
           \A r \in Run, l \in Label : cells[r][l] \subseteq cells'[r][l],
           \A l \in Label : info[l] # "absent" => info'[l] # "absent",
           \A v \in Worker \ {w} : worker'[v] = worker[v],
           StoredFor(worker[w])',
           \A m \in counted' : m \in counted \/ (HasCells(m) /\ HasInfo(m))'
    PROVE  Stored'
  <1>1. ASSUME NEW m \in Message
        PROVE  (HasCells(m) => HasCells(m)') /\ (HasInfo(m) => HasInfo(m)')
    <2>1. m.run \in Run /\ m.label \in Label
      BY DEF Message
    <2>2. cells'[m.run][m.label] \subseteq Vendor
      BY <2>1 DEF Sound, EnrichTypeOK
    <2> QED BY <2>1, <2>2 DEF HasCells, HasInfo
  <1>2. ASSUME NEW v \in Worker, v # w PROVE StoredFor(worker[v])'
    <2>1. worker'[v] = worker[v] /\ StoredFor(worker[v])
      BY <1>2 DEF Stored
    <2>2. CASE worker[v].pc = "idle"
      BY <2>1, <2>2 DEF StoredFor
    <2>3. CASE worker[v].pc # "idle"
      <3>1. /\ worker[v].msg \in Message /\ worker[v].msg.run \in Run
            /\ worker[v].msg.label \in Label
        BY <2>3, InHandOf
      <3>2. cells[worker[v].msg.run][worker[v].msg.label]
               \subseteq cells'[worker[v].msg.run][worker[v].msg.label]
        BY <3>1
      <3> QED BY <1>1, <2>1, <3>1, <3>2 DEF StoredFor
    <2> QED BY <2>2, <2>3
  <1>3. \A m \in counted' : (HasCells(m) /\ HasInfo(m))'
    BY <1>1 DEF Sound, EnrichTypeOK, Stored
  <1> QED BY <1>2, <1>3 DEF Stored

LEMMA RequestKeeps ==
    ASSUME RequestStep
    PROVE  UNCHANGED <<info, flag, cells, worker, counted, again, mixed>>
  <1>1. ASSUME NEW c \in Caller, CallerStep(c)
        PROVE  UNCHANGED <<info, flag, cells, worker, counted, again, mixed>>
    BY <1>1 DEF CallerStep, InsertNew, CreateRun, AttachRun, Send, workVars, countVars
  <1>2. ASSUME NEW c \in Caller, NEW labels, Reclaim(c, labels)
        PROVE  UNCHANGED <<info, flag, cells, worker, counted, again, mixed>>
    BY <1>2 DEF Reclaim, workVars, countVars
  <1>3. ASSUME NEW c \in Caller, NEW entries, AskByHand(c, entries)
        PROVE  UNCHANGED <<info, flag, cells, worker, counted, again, mixed>>
    BY <1>3 DEF AskByHand, workVars
  <1>4. ASSUME NEW c \in Caller, CallerStops(c)
        PROVE  UNCHANGED <<info, flag, cells, worker, counted, again, mixed>>
    BY <1>4 DEF CallerStops, workVars, countVars
  <1>5. ASSUME NEW l \in Label, GrowStale(l)
        PROVE  UNCHANGED <<info, flag, cells, worker, counted, again, mixed>>
    BY <1>5 DEF GrowStale, workVars, countVars
  <1> QED BY <1>1, <1>2, <1>3, <1>4, <1>5 DEF RequestStep

LEMMA InsertCellStored ==
    ASSUME Sound, Sound', Stored, NEW w \in Worker, NEW answered \in BOOLEAN,
           InsertCell(w, answered)
    PROVE  Stored'
  <1> DEFINE m == worker[w].msg
             v == worker[w].next
  <1>1. worker[w] \in Work /\ worker[w].pc = "insert_cell" /\ worker \in [Worker -> Work]
    BY DEF Sound, EnrichTypeOK, InsertCell
  <1>2. /\ m \in Message /\ m.run \in Run /\ m.label \in Label /\ v \in 1..Vendors
        /\ worker[w].ok <= v - 1
    BY <1>1, InHandOf DEF Vendor
  <1>3. PICK r : r = Asking(worker[w], answered)
    OBVIOUS
  <1>4. worker' = [worker EXCEPT ![w] = r]
    BY <1>3 DEF InsertCell
  <1>5. /\ r.msg = m /\ r.pc = IF v = Vendors THEN "upsert_info" ELSE "insert_cell"
        /\ r.next = IF v = Vendors THEN 1 ELSE v + 1
    BY <1>1, <1>2, <1>3, AskingFields
  <1>6. cells' = [cells EXCEPT ![m.run][m.label] = @ \cup {v}]
    BY DEF InsertCell
  <1>7. 1..(v - 1) \subseteq cells[m.run][m.label]
    BY <1>1 DEF Stored, StoredFor
  <1> HIDE DEF m, v
  <1>8. /\ cells'[m.run][m.label] = cells[m.run][m.label] \cup {v}
        /\ \A s \in Run, l \in Label : cells[s][l] \subseteq cells'[s][l]
    BY <1>2, <1>6 DEF Sound, EnrichTypeOK
  <1>9. 1..v \subseteq cells'[m.run][m.label]
    BY <1>2, <1>7, <1>8
  <1>10. worker'[w] = r /\ \A u \in Worker \ {w} : worker'[u] = worker[u]
    BY <1>1, <1>4
  <1>11. StoredFor(worker[w])'
    <2>1. CASE v = Vendors
      <3>1. cells'[m.run][m.label] \subseteq Vendor
        BY <1>2 DEF Sound, EnrichTypeOK
      <3> QED BY <1>5, <1>9, <1>10, <2>1, <3>1 DEF StoredFor, HasCells, Vendor
    <2>2. CASE v # Vendors
      <3>1. r.next - 1 = v /\ r.pc = "insert_cell"
        BY <1>2, <1>5, <2>2
      <3> QED BY <1>5, <1>9, <1>10, <3>1 DEF StoredFor
    <2> QED BY <2>1, <2>2
  <1>12. UNCHANGED <<info, counted>>
    BY DEF InsertCell, countVars
  <1> QED BY <1>8, <1>10, <1>11, <1>12, StoredGrows

LEMMA UpsertStored ==
    ASSUME Sound, Sound', Stored, NEW w \in Worker, NEW says \in Says, UpsertLabelInfo(w, says)
    PROVE  Stored'
  <1> DEFINE m == worker[w].msg
  <1>1. worker[w] \in Work /\ worker[w].pc = "upsert_info" /\ worker \in [Worker -> Work]
    BY DEF Sound, EnrichTypeOK, UpsertLabelInfo
  <1>2. m.label \in Label /\ HasCells(m)
    BY <1>1, InHandOf DEF Stored, StoredFor
  <1>3. /\ worker'[w].msg = m /\ worker'[w].pc = "project_ai"
        /\ \A v \in Worker \ {w} : worker'[v] = worker[v]
    BY <1>1 DEF UpsertLabelInfo, Work
  <1>4. UNCHANGED <<cells, counted>> /\ info' = [info EXCEPT ![m.label] = says]
    BY DEF UpsertLabelInfo, countVars
  <1>5. info'[m.label] # "absent" /\ \A l \in Label : info[l] # "absent" => info'[l] # "absent"
    BY <1>2, <1>4 DEF Sound, EnrichTypeOK, Says
  <1>6. StoredFor(worker[w])'
    BY <1>2, <1>3, <1>4, <1>5 DEF StoredFor, HasCells, HasInfo
  <1> QED BY <1>3, <1>4, <1>5, <1>6, StoredGrows

\* The remaining stages store nothing that a later one waits for.
LEMMA LaterStored ==
    ASSUME Sound, Sound', Stored, NEW w \in Worker, ProjectAiSuspected(w)
                                                   \/ IncrementRunCounters(w)
                                                   \/ MarkAutoEnrichOutcome(w)
                                                   \/ DeleteMessage(w) \/ WorkerStops(w)
    PROVE  Stored'
  <1>0. PICK m : m = worker[w].msg
    OBVIOUS
  <1>1. worker[w] \in Work /\ worker \in [Worker -> Work]
    BY DEF Sound, EnrichTypeOK
  <1>2. UNCHANGED <<info, cells>>
    BY DEF ProjectAiSuspected, IncrementRunCounters, MarkAutoEnrichOutcome, DeleteMessage,
           WorkerStops
  <1>3. \A v \in Worker \ {w} : worker'[v] = worker[v]
    BY <1>1 DEF ProjectAiSuspected, IncrementRunCounters, MarkAutoEnrichOutcome, DeleteMessage,
                WorkerStops
  <1>4. CASE DeleteMessage(w) \/ WorkerStops(w)
    <2>1. worker'[w].pc = "idle" /\ counted' = counted
      BY <1>1, <1>4 DEF DeleteMessage, WorkerStops, NoWork, countVars
    <2>2. StoredFor(worker[w])'
      BY <2>1 DEF StoredFor
    <2> QED BY <1>2, <1>3, <2>1, <2>2, StoredGrows
  <1>5. CASE ProjectAiSuspected(w) \/ IncrementRunCounters(w) \/ MarkAutoEnrichOutcome(w)
    <2>1. worker[w].pc \in {"project_ai", "counters", "outcome"}
      BY <1>5 DEF ProjectAiSuspected, IncrementRunCounters, MarkAutoEnrichOutcome
    <2>2. HasCells(m) /\ HasInfo(m)
      BY <1>0, <2>1 DEF Stored, StoredFor
    <2>3. worker'[w].msg = m /\ worker'[w].pc \in {"counters", "outcome", "delete"}
      <3>1. CASE ProjectAiSuspected(w)
        BY <1>0, <1>1, <3>1 DEF ProjectAiSuspected, Work
      <3>2. CASE IncrementRunCounters(w)
        BY <1>0, <1>1, <3>2 DEF IncrementRunCounters, Work
      <3>3. CASE MarkAutoEnrichOutcome(w)
        BY <1>0, <1>1, <3>3 DEF MarkAutoEnrichOutcome, Work
      <3> QED BY <1>5, <3>1, <3>2, <3>3
    <2>4. \A n \in counted' : n \in counted \/ n = m
      BY <1>0, <1>5 DEF ProjectAiSuspected, IncrementRunCounters, MarkAutoEnrichOutcome,
                        countVars
    <2>5. HasCells(m)' /\ HasInfo(m)'
      BY <1>2, <2>2 DEF HasCells, HasInfo
    <2>6. StoredFor(worker[w])'
      BY <2>3, <2>5 DEF StoredFor, HasCells, HasInfo
    <2> QED BY <1>2, <1>3, <2>4, <2>5, <2>6, StoredGrows
  <1> QED BY <1>4, <1>5

LEMMA ReceiveStored ==
    ASSUME Sound, Sound', Stored, NEW w \in Worker, NEW m \in queue, NEW spare \in BOOLEAN,
           Receive(w, m, spare)
    PROVE  Stored'
  <1>1. worker \in [Worker -> Work]
    BY DEF Sound, EnrichTypeOK
  <1>2. /\ UNCHANGED <<info, cells, counted>>
        /\ worker'[w].pc = "insert_cell" /\ worker'[w].next = 1
        /\ \A v \in Worker \ {w} : worker'[v] = worker[v]
    BY <1>1 DEF Receive, NoWork
  <1>3. StoredFor(worker[w])'
    BY <1>2 DEF StoredFor
  <1> QED BY <1>2, <1>3, StoredGrows

LEMMA StoredStep == Sound /\ Sound' /\ Stored /\ [Next]_vars => Stored'
  <1> SUFFICES ASSUME Sound, Sound', Stored, [Next]_vars PROVE Stored'
    OBVIOUS
  <1>1. CASE UNCHANGED <<info, cells, worker, counted>>
    BY <1>1 DEF Stored, StoredFor, HasCells, HasInfo
  <1>2. CASE RequestStep
    BY <1>1, <1>2, RequestKeeps
  <1>3. ASSUME NEW w \in Worker, DeliveryStep(w) PROVE Stored'
    <2>1. CASE WorkerStep(w)
      BY <2>1, InsertCellStored, UpsertStored, LaterStored DEF WorkerStep
    <2> QED BY <1>3, <2>1, ReceiveStored, LaterStored DEF DeliveryStep
  <1>4. CASE UNCHANGED vars
    BY <1>1, <1>4 DEF vars, workVars, countVars
  <1> QED BY <1>2, <1>3, <1>4, Steps


-----------------------------------------------------------------------------
(* The counters of a run, and what it has when it is completed.            *)

\* As long as no message is counted twice the counters are those of the
\* messages counted.
Tallied ==
    \A r \in Run \ again :
        /\ run[r].ok + run[r].error = Cardinality(counted \cap asked[r]) * Vendors
        /\ run[r].status = "completed" => run[r].ok + run[r].error >= run[r].total

\* Opening a run is one way a request touches runs, and the only one.
Opens(r, messages) ==
    /\ run[r].status = "none" /\ messages # {} /\ \A m \in messages : m.run = r
    /\ asked' = [asked EXCEPT ![r] = messages]
    /\ \E source \in {"auto", "manual"} :
          run' = [run EXCEPT ![r] = Opened(run[r], source, messages)]

LEMMA RequestOpens ==
    ASSUME Sound, RequestStep
    PROVE  \/ UNCHANGED <<run, asked>>
           \/ \E r \in Run, messages \in SUBSET Message : Opens(r, messages)
  <1>1. ASSUME NEW c \in Caller, NEW entries \in SUBSET (Label \X (1..MaxCopies)),
               AskByHand(c, entries)
        PROVE  \E r \in Run, messages \in SUBSET Message : Opens(r, messages)
    <2>1. PICK r \in Run, messages \in SUBSET Message, q \in Call :
              /\ run[r].status = "none"
              /\ messages # {} /\ \A m \in messages : m.run = r
              /\ caller' = [caller EXCEPT ![c] = q]
              /\ q.todo = messages /\ q.pc = "send" /\ q.claimed = {}
              /\ run' = [run EXCEPT ![r] = Opened(run[r], "manual", messages)]
              /\ asked' = [asked EXCEPT ![r] = messages]
      BY <1>1, AskByHandOpens
    <2>2. Opens(r, messages)
      BY <2>1 DEF Opens
    <2> QED BY <2>2
  <1>2. ASSUME NEW c \in Caller, CreateRun(c)
        PROVE  \E r \in Run, messages \in SUBSET Message : Opens(r, messages)
    <2>1. PICK r \in Run, messages \in SUBSET Message, q \in Call :
              /\ run[r].status = "none"
              /\ messages # {} /\ messages = [run : {r}, label : caller[c].claimed, copy : {1}]
              /\ caller' = [caller EXCEPT ![c] = q]
              /\ q.todo = messages /\ q.pc = "attach_run"
              /\ run' = [run EXCEPT ![r] = Opened(run[r], "auto", messages)]
              /\ asked' = [asked EXCEPT ![r] = messages]
      BY <1>2, CreateRunOpens
    <2>2. \A m \in messages : m.run = r
      BY <2>1
    <2> QED BY <2>1, <2>2 DEF Opens
  <1>3. ASSUME NEW c \in Caller, CallerStep(c) \/ CallerStops(c)
        PROVE  UNCHANGED <<run, asked>> \/ CreateRun(c)
    BY <1>3 DEF CallerStep, InsertNew, AttachRun, Send, CallerStops, countVars
  <1>4. ASSUME NEW c \in Caller, NEW labels, Reclaim(c, labels)
        PROVE  UNCHANGED <<run, asked>>
    BY <1>4 DEF Reclaim, countVars
  <1>5. ASSUME NEW l \in Label, GrowStale(l)
        PROVE  UNCHANGED <<run, asked>>
    BY <1>5 DEF GrowStale, countVars
  <1> QED BY <1>1, <1>2, <1>3, <1>4, <1>5 DEF RequestStep

LEMMA OpenedRow ==
    ASSUME Sound, NEW r \in Run, NEW messages \in SUBSET Message, Opens(r, messages)
    PROVE  \E row \in RunRow :
              /\ run' = [run EXCEPT ![r] = row] /\ row.status = "queued"
              /\ row.total = Cardinality(messages) * Vendors
              /\ row.ok = run[r].ok /\ row.error = run[r].error
  <1>1. PICK source \in {"auto", "manual"} :
           run' = [run EXCEPT ![r] = Opened(run[r], source, messages)]
    BY DEF Opens
  <1>2. PICK row : row = Opened(run[r], source, messages)
    OBVIOUS
  <1>3. run[r] \in RunRow
    BY DEF Sound, EnrichTypeOK
  <1>4. Cardinality(messages) * Vendors \in Nat
    BY MessagesFinite, Times, EnrichAssumption
  <1>5. row \in RunRow
    BY <1>2, <1>3, <1>4 DEF Opened, RunRow
  <1>6. /\ row.status = "queued" /\ row.total = Cardinality(messages) * Vendors
        /\ row.ok = run[r].ok /\ row.error = run[r].error
    BY <1>2, <1>3 DEF Opened, RunRow
  <1> QED BY <1>1, <1>2, <1>5, <1>6

LEMMA OpensTallied ==
    ASSUME Sound, Tallied, NEW r \in Run, NEW messages \in SUBSET Message, Opens(r, messages),
           UNCHANGED <<counted, again>>
    PROVE  Tallied'
  <1>1. PICK row \in RunRow :
              /\ run' = [run EXCEPT ![r] = row] /\ row.status = "queued"
              /\ row.ok = run[r].ok /\ row.error = run[r].error
    BY OpenedRow
  <1>2. asked[r] = {} /\ asked' = [asked EXCEPT ![r] = messages]
    BY DEF Sound, Asked, Opens
  <1>3. counted \cap messages = {}
    <2>1. SUFFICES ASSUME NEW m \in counted, m \in messages PROVE FALSE
      OBVIOUS
    <2>2. m.run = r /\ m \in asked[m.run]
      BY <2>1 DEF Opens, Sound, Asked
    <2> QED BY <1>2, <2>2
  <1>4. ASSUME NEW s \in Run \ again
        PROVE  /\ run'[s].ok + run'[s].error = Cardinality(counted \cap asked'[s]) * Vendors
               /\ run'[s].status = "completed" => run'[s].ok + run'[s].error >= run'[s].total
    <2>1. CASE s = r
      <3>1. run'[s] = row /\ counted \cap asked'[s] = counted \cap asked[s]
        BY <1>1, <1>2, <1>3, <2>1 DEF Sound, EnrichTypeOK
      <3> QED BY <1>1, <2>1, <3>1 DEF Tallied
    <2>2. CASE s # r
      <3>1. run'[s] = run[s] /\ asked'[s] = asked[s]
        BY <1>1, <1>2, <2>2 DEF Sound, EnrichTypeOK
      <3> QED BY <3>1 DEF Tallied
    <2> QED BY <2>1, <2>2
  <1> QED BY <1>4 DEF Tallied

LEMMA ReceiveRow ==
    ASSUME Sound, NEW w \in Worker, NEW m \in queue, NEW spare \in BOOLEAN,
           Receive(w, m, spare)
    PROVE  /\ m.run \in Run /\ UNCHANGED <<asked, counted, again>>
           /\ \A s \in Run : /\ run'[s].ok = run[s].ok /\ run'[s].error = run[s].error
                             /\ run'[s].total = run[s].total
                             /\ run'[s].status = IF s = m.run /\ run[s].status = "queued"
                                                 THEN "running" ELSE run[s].status
  <1>1. m.run \in Run
    BY DEF Sound, EnrichTypeOK, Message
  <1>2. UNCHANGED <<asked, counted, again>>
    BY DEF Receive
  <1>3. /\ run \in [Run -> RunRow]
        /\ run' = [run EXCEPT ![m.run].status = IF @ = "queued" THEN "running" ELSE @]
    BY DEF Sound, EnrichTypeOK, Receive
  <1> QED BY <1>1, <1>2, <1>3 DEF RunRow

LEMMA IncrementTallied ==
    ASSUME Sound, Tallied, NEW w \in Worker, IncrementRunCounters(w)
    PROVE  Tallied'
  <1>1. PICK m : m = worker[w].msg
    OBVIOUS
  <1>2. PICK r : r = m.run
    OBVIOUS
  <1>3. PICK ok : ok = worker[w].ok
    OBVIOUS
  <1>4. worker[w].pc = "counters"
    BY DEF IncrementRunCounters
  <1>5. m \in Message /\ r \in Run /\ m \in asked[r] /\ ok \in 0..Vendors
    BY <1>1, <1>2, <1>3, <1>4, InHandOf
  <1>6. PICK row \in RunRow :
           /\ run' = [run EXCEPT ![r] = row] /\ row.total = run[r].total
           /\ row.ok = run[r].ok + ok /\ row.error = run[r].error + (Vendors - ok)
           /\ row.status = IF row.ok + row.error >= row.total THEN "completed"
                           ELSE run[r].status
    BY <1>1, <1>2, <1>3, IncrementRow
  <1>7. /\ asked' = asked /\ counted' = counted \cup {m}
        /\ again' = IF m \in counted THEN again \cup {r} ELSE again
    BY <1>1, <1>2 DEF IncrementRunCounters
  <1>8. ASSUME NEW s \in Run, s \notin again'
        PROVE  /\ run'[s].ok + run'[s].error = Cardinality(counted' \cap asked'[s]) * Vendors
               /\ run'[s].status = "completed" => run'[s].ok + run'[s].error >= run'[s].total
    <2>1. s \notin again
      BY <1>7, <1>8
    <2>2. CASE s # r
      <3>1. run'[s] = run[s]
        BY <1>6, <2>2 DEF Sound, EnrichTypeOK
      <3>2. m \notin asked[s]
        BY <1>2, <2>2 DEF Sound, Asked
      <3>3. counted' \cap asked'[s] = counted \cap asked[s]
        BY <1>7, <3>2
      <3> QED BY <2>1, <3>1, <3>3 DEF Tallied
    <2>3. CASE s = r
      <3>1. m \notin counted
        BY <1>7, <1>8, <2>3
      <3>2. PICK C : C = counted \cap asked[r]
        OBVIOUS
      <3>3. IsFiniteSet(C) /\ Cardinality(C) \in Nat /\ m \notin C
        <4>1. C \in SUBSET Message
          BY <3>2 DEF Sound, EnrichTypeOK
        <4> QED BY <3>1, <3>2, <4>1, MessagesFinite
      <3>4. counted' \cap asked'[r] = C \cup {m}
        BY <1>5, <1>7, <3>2
      <3>5. Cardinality(C \cup {m}) = Cardinality(C) + 1
        BY <3>3, FS_AddElement
      <3>6. Cardinality(C \cup {m}) * Vendors = Cardinality(C) * Vendors + Vendors
        BY <3>3, <3>5, Times, EnrichAssumption
      <3>7. /\ run[r].ok + run[r].error = Cardinality(C) * Vendors
            /\ run[r].status = "completed" => run[r].ok + run[r].error >= run[r].total
        BY <2>1, <2>3, <3>2 DEF Tallied
      <3>8. run[r] \in RunRow /\ run'[r] = row
        BY <1>5, <1>6 DEF Sound, EnrichTypeOK
      <3>9. /\ run[r].ok \in Nat /\ run[r].error \in Nat /\ run[r].total \in Nat
            /\ Vendors \in Nat /\ ok \in Nat /\ Cardinality(C) * Vendors \in Nat
        BY <1>5, <3>3, <3>8, Times, EnrichAssumption DEF RunRow
      <3>10. row.ok + row.error = Cardinality(C) * Vendors + Vendors
        BY <1>6, <3>7, <3>9
      <3>11. row.status = "completed" => row.ok + row.error >= row.total
        BY <1>6, <3>7, <3>9, <3>10
      <3> QED BY <2>3, <3>4, <3>6, <3>8, <3>10, <3>11
    <2> QED BY <2>2, <2>3
  <1> QED BY <1>8 DEF Tallied

LEMMA TalliedStep == Sound /\ Tallied /\ [Next]_vars => Tallied'
  <1> SUFFICES ASSUME Sound, Tallied, [Next]_vars PROVE Tallied'
    OBVIOUS
  <1>1. CASE UNCHANGED <<run, asked, counted, again>>
    BY <1>1 DEF Tallied
  <1>2. CASE RequestStep
    <2>1. UNCHANGED <<counted, again>>
      BY <1>2, RequestKeeps
    <2> QED BY <1>1, <1>2, <2>1, RequestOpens, OpensTallied
  <1>3. ASSUME NEW w \in Worker, DeliveryStep(w) PROVE Tallied'
    <2>1. ASSUME NEW m \in queue, NEW spare \in BOOLEAN, Receive(w, m, spare) PROVE Tallied'
      <3>1. /\ UNCHANGED <<asked, counted, again>>
            /\ \A s \in Run : /\ run'[s].ok = run[s].ok /\ run'[s].error = run[s].error
                              /\ run'[s].total = run[s].total
                              /\ run'[s].status = "completed" => run[s].status = "completed"
        BY <2>1, ReceiveRow
      <3> QED BY <3>1 DEF Tallied
    <2>2. CASE WorkerStops(w)
      BY <1>1, <2>2 DEF WorkerStops, countVars
    <2>3. CASE WorkerStep(w)
      <3>1. UNCHANGED <<run, asked, counted, again>> \/ IncrementRunCounters(w)
        BY <2>3 DEF WorkerStep, InsertCell, UpsertLabelInfo, ProjectAiSuspected,
                    MarkAutoEnrichOutcome, DeleteMessage, countVars
      <3> QED BY <1>1, <3>1, IncrementTallied
    <2> QED BY <1>3, <2>1, <2>2, <2>3 DEF DeliveryStep
  <1>4. CASE UNCHANGED vars
    BY <1>1, <1>4 DEF vars, countVars
  <1> QED BY <1>2, <1>3, <1>4, Steps

LEMMA TalliedInit == Init => Stored /\ Tallied
  <1> SUFFICES ASSUME Init PROVE Stored /\ Tallied
    OBVIOUS
  <1>1. Stored
    BY DEF Init, Stored, StoredFor, NoWork
  <1>2. Cardinality({}) * Vendors = 0
    BY FS_EmptySet, EnrichAssumption
  <1>3. ASSUME NEW r \in Run
        PROVE  /\ run[r].ok + run[r].error = 0 /\ counted \cap asked[r] = {}
               /\ run[r].status # "completed"
    BY DEF Init
  <1> QED BY <1>1, <1>2, <1>3 DEF Tallied

LEMMA CompletedHas ==
    ASSUME Sound, Stored, Tallied
    PROVE  CompletedRunHasItsCells
  <1> SUFFICES ASSUME NEW r \in Run \ again, run[r].status = "completed"
               PROVE  /\ run[r].ok + run[r].error = run[r].total
                      /\ \A m \in asked[r] : /\ info[m.label] # "absent"
                                             /\ cells[r][m.label] = Vendor
    BY DEF CompletedRunHasItsCells
  <1>1. PICK C : C = counted \cap asked[r]
    OBVIOUS
  <1>2. asked[r] \in SUBSET Message /\ C \in SUBSET asked[r] /\ C \in SUBSET Message
    BY <1>1 DEF Sound, EnrichTypeOK
  <1>3. /\ IsFiniteSet(asked[r]) /\ Cardinality(asked[r]) \in Nat /\ Cardinality(C) \in Nat
        /\ Cardinality(C) <= Cardinality(asked[r])
        /\ Cardinality(asked[r]) = Cardinality(C) => asked[r] = C
    BY <1>2, MessagesFinite, FS_Subset
  <1>4. /\ run[r].ok + run[r].error = Cardinality(C) * Vendors
        /\ run[r].ok + run[r].error >= run[r].total
        /\ run[r].total = Cardinality(asked[r]) * Vendors
    BY <1>1 DEF Tallied, Sound, Asked
  <1>5. Cardinality(C) = Cardinality(asked[r])
    <2>1. Cardinality(C) * Vendors \in Nat /\ Cardinality(asked[r]) * Vendors \in Nat
      BY <1>3, Times, EnrichAssumption
    <2>2. Cardinality(asked[r]) * Vendors <= Cardinality(C) * Vendors
      BY <1>4, <2>1
    <2>3. Cardinality(asked[r]) <= Cardinality(C)
      BY <1>3, <2>2, Times, EnrichAssumption
    <2> QED BY <1>3, <2>3
  <1>6. asked[r] \subseteq counted
    BY <1>1, <1>3, <1>5
  <1>7. \A m \in asked[r] : info[m.label] # "absent" /\ cells[r][m.label] = Vendor
    BY <1>6 DEF Stored, HasCells, HasInfo, Sound, Asked
  <1> QED BY <1>4, <1>5, <1>7

\* A run that counted no message twice is completed only when every search it
\* asked for left a cell per vendor and the info, and says exactly that many,
\* however many deliveries crashed and came again.
THEOREM CompletedAlwaysHas == Spec => []CompletedRunHasItsCells
  <1> DEFINE Inv == Sound /\ Stored /\ Tallied
  <1>1. Init => Inv
    BY SoundInit, TalliedInit
  <1>2. Inv /\ [Next]_vars => Inv'
    BY SoundStep, StoredStep, TalliedStep
  <1>3. Inv => CompletedRunHasItsCells
    BY CompletedHas
  <1> QED BY <1>1, <1>2, <1>3, PTL DEF Spec


-----------------------------------------------------------------------------
(* The flag and the info it repeats are two statements of a delivery.      *)

Match(l) == info[l] \in {"yes", "no"} => flag[l] = (info[l] = "yes")

\* What a delivery that has a label to itself knows of it.
Repeats(w, l) ==
    /\ worker[w].pc = "project_ai" => info[l] = worker[w].says
    /\ worker[w].pc \in {"counters", "outcome", "delete"} => Match(l)

Alone(l) ==
    /\ \A v, w \in InHand(l) : v = w
    /\ \A w \in InHand(l) : Repeats(w, l)
    /\ InHand(l) = {} /\ (\A m \in queue : m.label # l) => Match(l)

Repeated == \A l \in Label \ mixed : Alone(l)

LEMMA AloneElsewhere ==
    ASSUME NEW w \in Worker, NEW l \in Label, Alone(l),
           w \notin InHand(l), w \notin InHand(l)',
           \A v \in Worker \ {w} : worker'[v] = worker[v],
           info'[l] = info[l], flag'[l] = flag[l],
           \A m \in queue : m.label = l => m \in queue'
    PROVE  Alone(l)'
  <1>1. InHand(l)' = InHand(l)
    BY DEF InHand
  <1>2. Match(l)' <=> Match(l)
    BY DEF Match
  <1>3. \A v \in InHand(l)' : Repeats(v, l)'
    <2>1. ASSUME NEW v \in InHand(l)' PROVE Repeats(v, l)'
      <3>1. v \in Worker \ {w} /\ v \in InHand(l)
        BY <1>1, <2>1 DEF InHand
      <3>2. worker'[v] = worker[v] /\ Repeats(v, l)
        BY <3>1 DEF Alone
      <3> QED BY <1>2, <3>2 DEF Repeats
    <2> QED BY <2>1
  <1>4. (\A m \in queue' : m.label # l) => \A m \in queue : m.label # l
    OBVIOUS
  <1> QED BY <1>1, <1>2, <1>3, <1>4 DEF Alone

LEMMA AloneHere ==
    ASSUME NEW w \in Worker, NEW l \in Label, InHand(l) \subseteq {w},
           \A v \in Worker \ {w} : worker'[v] = worker[v],
           w \in InHand(l)' => Repeats(w, l)',
           w \notin InHand(l)' => Match(l)' \/ \E m \in queue' : m.label = l
    PROVE  Alone(l)'
  <1>1. InHand(l)' \subseteq {w}
    BY DEF InHand
  <1> QED BY <1>1 DEF Alone

LEMMA RequestRepeated ==
    ASSUME Repeated, RequestStep
    PROVE  Repeated'
  <1>1. UNCHANGED <<info, flag, worker, mixed>>
    BY RequestKeeps
  <1>2. queue \subseteq queue'
    <2>1. ASSUME NEW c \in Caller, CallerStep(c) PROVE queue \subseteq queue'
      BY <2>1 DEF CallerStep, InsertNew, CreateRun, AttachRun, Send
    <2> QED BY <2>1 DEF RequestStep, Reclaim, AskByHand, CallerStops, GrowStale
  <1>3. ASSUME NEW l \in Label \ mixed PROVE Alone(l)'
    <2>1. Alone(l)
      BY DEF Repeated
    <2> QED BY <1>1, <1>2, <2>1 DEF Alone, InHand, Repeats, Match
  <1> QED BY <1>1, <1>3 DEF Repeated

LEMMA ReceiveRepeated ==
    ASSUME Sound, Repeated, NEW w \in Worker, NEW m \in queue, NEW spare \in BOOLEAN,
           Receive(w, m, spare)
    PROVE  Repeated'
  <1>1. /\ worker[w].pc = "idle" /\ worker \in [Worker -> Work]
        /\ worker' = [worker EXCEPT ![w] = [NoWork EXCEPT !.pc = "insert_cell", !.msg = m]]
        /\ UNCHANGED <<info, flag>> /\ queue \ {m} \subseteq queue'
        /\ mixed' = IF InHand(m.label) = {} THEN mixed ELSE mixed \cup {m.label}
    BY DEF Sound, EnrichTypeOK, Receive
  <1>2. /\ worker'[w].pc = "insert_cell" /\ worker'[w].msg = m
        /\ \A v \in Worker \ {w} : worker'[v] = worker[v]
    BY <1>1 DEF NoWork
  <1>3. ASSUME NEW l \in Label, l \notin mixed' PROVE Alone(l)'
    <2>1. Alone(l)
      BY <1>1, <1>3 DEF Repeated
    <2>2. CASE m.label = l
      <3>1. InHand(l) = {}
        BY <1>1, <1>3, <2>2
      <3>2. w \in InHand(l)' /\ Repeats(w, l)'
        BY <1>2, <2>2 DEF InHand, Repeats
      <3> QED BY <1>2, <3>1, <3>2, AloneHere
    <2>3. CASE m.label # l
      <3>1. w \notin InHand(l) /\ w \notin InHand(l)'
        BY <1>1, <1>2, <2>3 DEF InHand
      <3>2. \A n \in queue : n.label = l => n \in queue'
        BY <1>1, <2>3
      <3> QED BY <1>1, <1>2, <2>1, <3>1, <3>2, AloneElsewhere
    <2> QED BY <2>2, <2>3
  <1> QED BY <1>3 DEF Repeated

\* Any other step of a delivery is over its own label.
LEMMA WorkRepeated ==
    ASSUME Repeated, NEW w \in Worker, worker[w].pc # "idle",
           NEW l \in Label, l \notin mixed', mixed' = mixed,
           \A v \in Worker \ {w} : worker'[v] = worker[v],
           worker'[w].pc # "idle" => worker'[w].msg = worker[w].msg,
           worker[w].msg.label # l => info'[l] = info[l] /\ flag'[l] = flag[l],
           queue \subseteq queue',
           ASSUME worker[w].msg.label = l, Repeats(w, l)
           PROVE  /\ worker'[w].pc # "idle" => Repeats(w, l)'
                  /\ worker'[w].pc = "idle" => Match(l)' \/ \E m \in queue' : m.label = l
    PROVE  Alone(l)'
  <1>1. Alone(l)
    BY DEF Repeated
  <1>2. CASE worker[w].msg.label = l
    <2>1. w \in InHand(l)
      BY <1>2 DEF InHand
    <2>2. InHand(l) \subseteq {w} /\ Repeats(w, l)
      BY <1>1, <2>1 DEF Alone
    <2>3. w \in InHand(l)' <=> worker'[w].pc # "idle"
      BY <1>2 DEF InHand
    <2> QED BY <1>2, <2>2, <2>3, AloneHere
  <1>3. CASE worker[w].msg.label # l
    <2>1. w \notin InHand(l) /\ w \notin InHand(l)'
      BY <1>3 DEF InHand
    <2> QED BY <1>1, <1>3, <2>1, AloneElsewhere
  <1> QED BY <1>2, <1>3

LEMMA WorkerStepRepeated ==
    ASSUME Sound, Repeated, NEW w \in Worker, WorkerStep(w)
    PROVE  Repeated'
  <1>1. worker[w] \in Work /\ worker \in [Worker -> Work]
    BY DEF Sound, EnrichTypeOK
  <1>2. worker[w].pc # "idle" /\ UNCHANGED <<mixed, queue>>
    BY DEF WorkerStep, InsertCell, UpsertLabelInfo, ProjectAiSuspected, IncrementRunCounters,
           MarkAutoEnrichOutcome, DeleteMessage
  <1>3. worker[w].msg.label \in Label
    BY <1>2, InHandOf
  <1>4. \A v \in Worker \ {w} : worker'[v] = worker[v]
    BY <1>1 DEF WorkerStep, InsertCell, UpsertLabelInfo, ProjectAiSuspected,
                IncrementRunCounters, MarkAutoEnrichOutcome, DeleteMessage
  <1> SUFFICES ASSUME NEW l \in Label, l \notin mixed' PROVE Alone(l)'
    BY DEF Repeated
  <1>5. ASSUME NEW answered \in BOOLEAN, InsertCell(w, answered) PROVE Alone(l)'
    <2>1. worker[w].pc = "insert_cell" /\ worker[w].ok <= worker[w].next - 1
      BY <1>5, InHandOf DEF InsertCell
    <2>2. worker'[w] = Asking(worker[w], answered)
      BY <1>1, <1>5 DEF InsertCell
    <2>3. worker'[w].msg = worker[w].msg /\ worker'[w].pc \in {"insert_cell", "upsert_info"}
      BY <1>1, <2>1, <2>2, AskingFields
    <2>4. Repeats(w, l)'
      BY <2>3 DEF Repeats
    <2>5. UNCHANGED <<info, flag>>
      BY <1>5 DEF InsertCell
    <2> QED BY <1>2, <1>4, <2>3, <2>4, <2>5, WorkRepeated
  <1>6. ASSUME NEW says \in Says, UpsertLabelInfo(w, says) PROVE Alone(l)'
    <2>1. /\ worker'[w].msg = worker[w].msg /\ worker'[w].pc = "project_ai"
          /\ worker'[w].says = says
      BY <1>1, <1>6 DEF UpsertLabelInfo, Work
    <2>2. flag' = flag /\ info' = [info EXCEPT ![worker[w].msg.label] = says]
      BY <1>6 DEF UpsertLabelInfo
    <2>3. /\ worker[w].msg.label # l => info'[l] = info[l]
          /\ worker[w].msg.label = l => info'[l] = says
      BY <2>2 DEF Sound, EnrichTypeOK
    <2>4. worker[w].msg.label = l => Repeats(w, l)'
      BY <2>1, <2>3 DEF Repeats
    <2> QED BY <1>2, <1>4, <2>1, <2>2, <2>3, <2>4, WorkRepeated
  <1>7. CASE ProjectAiSuspected(w)
    <2>1. worker'[w].msg = worker[w].msg /\ worker'[w].pc = "counters"
      BY <1>1, <1>7 DEF ProjectAiSuspected, Work
    <2>2. /\ worker[w].pc = "project_ai" /\ info' = info
          /\ flag' = [flag EXCEPT ![worker[w].msg.label] =
                IF worker[w].says \in {"yes", "no"} THEN worker[w].says = "yes" ELSE @]
      BY <1>7 DEF ProjectAiSuspected
    <2>3. worker[w].msg.label # l => flag'[l] = flag[l]
      BY <2>2 DEF Sound, EnrichTypeOK
    <2>4. ASSUME worker[w].msg.label = l, Repeats(w, l) PROVE Repeats(w, l)'
      <3>1. info[l] = worker[w].says
        BY <2>2, <2>4 DEF Repeats
      <3>2. worker[w].says \in {"yes", "no"} => flag'[l] = (worker[w].says = "yes")
        BY <2>2, <2>4, Zenon DEF Sound, EnrichTypeOK
      <3>3. Match(l)'
        BY <2>2, <3>1, <3>2 DEF Match
      <3> QED BY <2>1, <3>3 DEF Repeats
    <2> QED BY <1>2, <1>4, <2>1, <2>2, <2>3, <2>4, WorkRepeated
  <1>8. CASE IncrementRunCounters(w) \/ MarkAutoEnrichOutcome(w)
    <2>1. worker'[w].msg = worker[w].msg /\ worker'[w].pc \in {"outcome", "delete"}
      <3>1. CASE IncrementRunCounters(w)
        BY <1>1, <3>1 DEF IncrementRunCounters, Work
      <3>2. CASE MarkAutoEnrichOutcome(w)
        BY <1>1, <3>2 DEF MarkAutoEnrichOutcome, Work
      <3> QED BY <1>8, <3>1, <3>2
    <2>2. worker[w].pc \in {"counters", "outcome"} /\ UNCHANGED <<info, flag>>
      BY <1>8 DEF IncrementRunCounters, MarkAutoEnrichOutcome
    <2>3. ASSUME Repeats(w, l) PROVE Repeats(w, l)'
      <3>1. Match(l)'
        BY <2>2, <2>3 DEF Repeats, Match
      <3> QED BY <2>1, <3>1 DEF Repeats
    <2> QED BY <1>2, <1>4, <2>1, <2>2, <2>3, WorkRepeated
  <1>9. CASE DeleteMessage(w)
    <2>1. worker[w].pc = "delete" /\ worker'[w].pc = "idle" /\ UNCHANGED <<info, flag>>
      BY <1>1, <1>9 DEF DeleteMessage, NoWork
    <2>2. ASSUME Repeats(w, l) PROVE Match(l)'
      BY <2>1, <2>2 DEF Repeats, Match
    <2> QED BY <1>2, <1>4, <2>1, <2>2, WorkRepeated
  <1> QED BY <1>5, <1>6, <1>7, <1>8, <1>9 DEF WorkerStep

LEMMA WorkerStopsRepeated ==
    ASSUME Sound, Repeated, NEW w \in Worker, WorkerStops(w)
    PROVE  Repeated'
  <1>1. worker \in [Worker -> Work]
    BY DEF Sound, EnrichTypeOK
  <1>2. /\ worker[w].pc # "idle" /\ UNCHANGED <<info, flag, mixed>>
        /\ queue' = queue \cup {worker[w].msg}
    BY DEF WorkerStops
  <1>3. worker'[w].pc = "idle" /\ \A v \in Worker \ {w} : worker'[v] = worker[v]
    BY <1>1 DEF WorkerStops, NoWork
  <1>4. ASSUME NEW l \in Label, l \notin mixed' PROVE Alone(l)'
    <2>1. worker[w].msg.label = l => \E m \in queue' : m.label = l
      BY <1>2
    <2> QED BY <1>2, <1>3, <1>4, <2>1, WorkRepeated
  <1> QED BY <1>4 DEF Repeated

LEMMA RepeatedStep == Sound /\ Repeated /\ [Next]_vars => Repeated'
  <1> SUFFICES ASSUME Sound, Repeated, [Next]_vars PROVE Repeated'
    OBVIOUS
  <1>1. CASE UNCHANGED vars
    BY <1>1 DEF vars, workVars, Repeated, Alone, InHand, Repeats, Match
  <1>2. ASSUME NEW w \in Worker, DeliveryStep(w) PROVE Repeated'
    BY <1>2, ReceiveRepeated, WorkerStepRepeated, WorkerStopsRepeated DEF DeliveryStep
  <1> QED BY <1>1, <1>2, RequestRepeated, Steps

\* Once nothing of a label is under way or was given up the flag repeats what
\* the info says of AI content, whichever delivery stopped between the two,
\* unless two workers had the label in hand at once.
THEOREM FlagAlwaysFollows == Spec => []FlagFollowsInfo
  <1>1. Init => Repeated
    BY DEF Init, Repeated, Alone, InHand, NoWork, Match
  <1>2. Repeated => FlagFollowsInfo
    BY DEF Repeated, Alone, Match, FlagFollowsInfo
  <1> QED BY <1>1, <1>2, AlwaysSound, RepeatedStep, PTL DEF Spec


-----------------------------------------------------------------------------
(* Claims and runs, against the attempts of a label.                       *)

Runs(l) == {r \in Run : run[r].source = "auto" /\ \E m \in asked[r] : m.label = l}
Claims(l) == {c \in Caller : /\ l \in caller[c].claimed
                             /\ caller[c].pc \in {"insert", "create_run"}}

PaidFor(l) ==
    /\ Cardinality(Runs(l)) + Cardinality(Claims(l)) <= state[l].attempts
    /\ state[l].status = "none" => state[l].attempts = 0

Paid == \A l \in Label : PaidFor(l)

LEMMA RunsFinite ==
    ASSUME NEW l
    PROVE  /\ IsFiniteSet(Runs(l)) /\ IsFiniteSet(Claims(l))
           /\ Cardinality(Runs(l)) \in Nat /\ Cardinality(Claims(l)) \in Nat
  <1>1. Runs(l) \in SUBSET Run /\ Claims(l) \in SUBSET Caller
    BY DEF Runs, Claims
  <1>2. IsFiniteSet(Runs(l)) /\ IsFiniteSet(Claims(l))
    BY <1>1, FS_Subset, EnrichAssumption
  <1> QED BY <1>2, FS_CardinalityType

LEMMA SmallerSet ==
    ASSUME NEW S, IsFiniteSet(S), NEW T, T \subseteq S
    PROVE  /\ Cardinality(S) \in Nat /\ Cardinality(T) \in Nat
           /\ Cardinality(T) <= Cardinality(S)
  BY FS_Subset, FS_CardinalityType

LEMMA OneMore ==
    ASSUME NEW S, IsFiniteSet(S), NEW x, NEW T, T \subseteq S \cup {x}
    PROVE  Cardinality(T) \in Nat /\ Cardinality(T) <= Cardinality(S) + 1
  <1>1. /\ IsFiniteSet(S \cup {x})
        /\ Cardinality(S \cup {x}) = IF x \in S THEN Cardinality(S) ELSE Cardinality(S) + 1
    BY FS_AddElement
  <1>2. /\ Cardinality(S) \in Nat /\ Cardinality(T) \in Nat
        /\ Cardinality(T) <= Cardinality(S \cup {x})
    BY <1>1, SmallerSet
  <1> QED BY <1>1, <1>2

LEMMA OneLess ==
    ASSUME NEW S, IsFiniteSet(S), NEW x \in S, NEW T, T \subseteq S \ {x}
    PROVE  Cardinality(T) \in Nat /\ Cardinality(T) <= Cardinality(S) - 1
  <1>1. IsFiniteSet(S \ {x}) /\ Cardinality(S \ {x}) = Cardinality(S) - 1
    BY FS_RemoveElement
  <1> QED BY <1>1, SmallerSet

LEMMA Attempts ==
    ASSUME Sound, NEW l \in Label, PaidFor(l)
    PROVE  /\ state[l].attempts \in Nat
           /\ Cardinality(Runs(l)) + Cardinality(Claims(l)) <= state[l].attempts
  BY DEF Sound, EnrichTypeOK, StateRow, MaxAttempts, PaidFor

\* Nothing new is claimed or opened.
LEMMA PaidKept ==
    ASSUME Sound, NEW l \in Label, PaidFor(l),
           Runs(l)' \subseteq Runs(l), Claims(l)' \subseteq Claims(l),
           state'[l].attempts = state[l].attempts,
           state'[l].status = "none" => state[l].status = "none"
    PROVE  PaidFor(l)'
  <1>1. /\ Cardinality(Runs(l)') \in Nat /\ Cardinality(Runs(l)') <= Cardinality(Runs(l))
        /\ Cardinality(Claims(l)') \in Nat /\ Cardinality(Claims(l)') <= Cardinality(Claims(l))
    BY RunsFinite, SmallerSet
  <1>2. Cardinality(Runs(l)') + Cardinality(Claims(l)') <= state'[l].attempts
    BY <1>1, RunsFinite, Attempts
  <1> QED BY <1>2 DEF PaidFor

\* A claim is an attempt more, whether it is the first or not.
LEMMA PaidClaimed ==
    ASSUME Sound, NEW l \in Label, PaidFor(l), NEW c \in Caller,
           Runs(l)' \subseteq Runs(l), Claims(l)' \subseteq Claims(l) \cup {c},
           state'[l].attempts = state[l].attempts + 1, state'[l].status # "none"
    PROVE  PaidFor(l)'
  <1>1. Cardinality(Runs(l)') \in Nat /\ Cardinality(Runs(l)') <= Cardinality(Runs(l))
    BY RunsFinite, SmallerSet
  <1>2. Cardinality(Claims(l)') \in Nat /\ Cardinality(Claims(l)') <= Cardinality(Claims(l)) + 1
    BY RunsFinite, OneMore
  <1>3. Cardinality(Runs(l)') + Cardinality(Claims(l)') <= state'[l].attempts
    BY <1>1, <1>2, RunsFinite, Attempts
  <1> QED BY <1>3 DEF PaidFor

\* A run takes the place of the claim it is created for.
LEMMA PaidOpened ==
    ASSUME Sound, NEW l \in Label, PaidFor(l), NEW c \in Claims(l), NEW r,
           Runs(l)' \subseteq Runs(l) \cup {r}, Claims(l)' \subseteq Claims(l) \ {c},
           state' = state
    PROVE  PaidFor(l)'
  <1>1. Cardinality(Runs(l)') \in Nat /\ Cardinality(Runs(l)') <= Cardinality(Runs(l)) + 1
    BY RunsFinite, OneMore
  <1>2. Cardinality(Claims(l)') \in Nat /\ Cardinality(Claims(l)') <= Cardinality(Claims(l)) - 1
    BY RunsFinite, OneLess
  <1>3. Cardinality(Runs(l)') + Cardinality(Claims(l)') <= state'[l].attempts
    BY <1>1, <1>2, RunsFinite, Attempts
  <1> QED BY <1>3 DEF PaidFor

LEMMA ReclaimPaid ==
    ASSUME Sound, Paid, NEW c \in Caller, NEW labels \in SUBSET Label,
           Reclaim(c, labels), NEW l \in Label
    PROVE  PaidFor(l)'
  <1>1. PICK r \in Call : /\ caller' = [caller EXCEPT ![c] = r]
                          /\ r.claimed = {k \in labels : Reclaimable(k)}
    BY ReclaimCall
  <1>2. caller[c].pc = "idle" /\ UNCHANGED <<run, asked>> /\ PaidFor(l)
    BY DEF Reclaim, countVars, Paid
  <1>3. Runs(l)' = Runs(l)
    BY <1>2 DEF Runs
  <1>4. Claims(l)' \subseteq Claims(l) \cup {c}
    BY <1>1 DEF Claims, Sound, EnrichTypeOK
  <1>5. CASE l \in labels /\ Reclaimable(l)
    <2>1. state'[l].attempts = state[l].attempts + 1 /\ state'[l].status = "queued"
      BY <1>5 DEF Reclaim
    <2> QED BY <1>2, <1>3, <1>4, <2>1, PaidClaimed
  <1>6. CASE ~(l \in labels /\ Reclaimable(l))
    <2>1. state'[l] = state[l]
      BY <1>6 DEF Reclaim
    <2>2. caller'[c].claimed = {k \in labels : Reclaimable(k)}
      BY <1>1 DEF Sound, EnrichTypeOK
    <2>3. c \notin Claims(l)'
      BY <1>6, <2>2 DEF Claims
    <2>4. Claims(l)' \subseteq Claims(l)
      BY <1>4, <2>3
    <2> QED BY <1>2, <1>3, <2>1, <2>4, PaidKept
  <1> QED BY <1>5, <1>6

LEMMA InsertNewPaid ==
    ASSUME Sound, Paid, NEW c \in Caller, InsertNew(c), NEW l \in Label
    PROVE  PaidFor(l)'
  <1>1. PICK r \in Call : /\ caller' = [caller EXCEPT ![c] = r]
                          /\ r.claimed = caller[c].claimed
                                           \cup {k \in caller[c].labels : Unsearched(k)}
    BY InsertNewCall
  <1>2. /\ caller[c].pc = "insert" /\ UNCHANGED <<run, asked>> /\ PaidFor(l)
        /\ caller[c].labels \subseteq Label
    BY DEF InsertNew, countVars, Paid, Sound, EnrichTypeOK, Call
  <1>3. Runs(l)' = Runs(l)
    BY <1>2 DEF Runs
  <1>4. Claims(l)' \subseteq Claims(l) \cup {c}
    BY <1>1 DEF Claims, Sound, EnrichTypeOK
  <1>5. CASE l \in caller[c].labels /\ Unsearched(l)
    <2>1. state'[l].attempts = 1 /\ state'[l].status = "queued"
      BY <1>5 DEF InsertNew
    <2>2. state[l].attempts = 0
      BY <1>2, <1>5 DEF PaidFor, Unsearched
    <2> QED BY <1>2, <1>3, <1>4, <2>1, <2>2, PaidClaimed
  <1>6. CASE ~(l \in caller[c].labels /\ Unsearched(l))
    <2>1. state'[l] = state[l]
      BY <1>6 DEF InsertNew
    <2>2. l \in caller'[c].claimed <=> l \in caller[c].claimed
      BY <1>1, <1>6 DEF Sound, EnrichTypeOK
    <2>3. c \in Claims(l)' => c \in Claims(l)
      BY <1>2, <2>2 DEF Claims
    <2>4. Claims(l)' \subseteq Claims(l)
      BY <1>4, <2>3
    <2> QED BY <1>2, <1>3, <2>1, <2>4, PaidKept
  <1> QED BY <1>5, <1>6

LEMMA CreateRunPaid ==
    ASSUME Sound, Paid, NEW c \in Caller, CreateRun(c), NEW l \in Label
    PROVE  PaidFor(l)'
  <1>1. PICK r \in Run, messages \in SUBSET Message, q \in Call :
              /\ run[r].status = "none"
              /\ messages # {} /\ messages = [run : {r}, label : caller[c].claimed, copy : {1}]
              /\ caller' = [caller EXCEPT ![c] = q]
              /\ q.todo = messages /\ q.pc = "attach_run"
              /\ run' = [run EXCEPT ![r] = Opened(run[r], "auto", messages)]
              /\ asked' = [asked EXCEPT ![r] = messages]
    BY CreateRunOpens
  <1>2. caller[c].pc = "create_run" /\ state' = state /\ PaidFor(l)
    BY DEF CreateRun, Paid
  <1>3. Claims(l)' \subseteq Claims(l) \ {c}
    BY <1>1 DEF Claims, Sound, EnrichTypeOK
  <1>4. \A s \in Run \ {r} : run'[s] = run[s] /\ asked'[s] = asked[s]
    BY <1>1 DEF Sound, EnrichTypeOK
  <1>5. Runs(l)' \subseteq Runs(l) \cup {r}
    BY <1>4 DEF Runs
  <1>6. CASE l \in caller[c].claimed
    <2>1. c \in Claims(l)
      BY <1>2, <1>6 DEF Claims
    <2> QED BY <1>2, <1>3, <1>5, <2>1, PaidOpened
  <1>7. CASE l \notin caller[c].claimed
    <2>1. asked'[r] = messages
      BY <1>1 DEF Sound, EnrichTypeOK
    <2>2. \A m \in messages : m.label # l
      BY <1>1, <1>7
    <2>3. r \notin Runs(l)'
      BY <2>1, <2>2 DEF Runs
    <2>4. Runs(l)' \subseteq Runs(l) /\ Claims(l)' \subseteq Claims(l)
      BY <1>3, <1>5, <2>3
    <2> QED BY <1>2, <2>4, PaidKept
  <1> QED BY <1>6, <1>7

LEMMA AskByHandPaid ==
    ASSUME Sound, Paid, NEW c \in Caller,
           NEW entries \in SUBSET (Label \X (1..MaxCopies)), AskByHand(c, entries),
           NEW l \in Label
    PROVE  PaidFor(l)'
  <1>1. PICK r \in Run, messages \in SUBSET Message, q \in Call :
              /\ run[r].status = "none"
              /\ messages # {} /\ \A m \in messages : m.run = r
              /\ caller' = [caller EXCEPT ![c] = q]
              /\ q.todo = messages /\ q.pc = "send" /\ q.claimed = {}
              /\ run' = [run EXCEPT ![r] = Opened(run[r], "manual", messages)]
              /\ asked' = [asked EXCEPT ![r] = messages]
    BY AskByHandOpens
  <1>2. state' = state /\ PaidFor(l)
    BY DEF AskByHand, Paid
  <1>3. Claims(l)' \subseteq Claims(l)
    BY <1>1 DEF Claims, Sound, EnrichTypeOK
  <1>4. \A s \in Run \ {r} : run'[s] = run[s] /\ asked'[s] = asked[s]
    BY <1>1 DEF Sound, EnrichTypeOK
  <1>5. run'[r].source = "manual"
    <2>1. run'[r] = Opened(run[r], "manual", messages)
      BY <1>1 DEF Sound, EnrichTypeOK
    <2>2. run[r] \in RunRow
      BY DEF Sound, EnrichTypeOK
    <2> QED BY <2>1, <2>2 DEF Opened, RunRow
  <1>6. Runs(l)' \subseteq Runs(l)
    BY <1>4, <1>5 DEF Runs
  <1> QED BY <1>2, <1>3, <1>6, PaidKept

LEMMA RequestPaid ==
    ASSUME Sound, Paid, RequestStep, NEW l \in Label
    PROVE  PaidFor(l)'
  <1>0. PaidFor(l) /\ caller \in [Caller -> Call] /\ state \in [Label -> StateRow]
    BY DEF Paid, Sound, EnrichTypeOK
  <1>1. ASSUME NEW c \in Caller, AttachRun(c) PROVE PaidFor(l)'
    <2>1. UNCHANGED <<run, asked>> /\ caller' = [caller EXCEPT ![c].pc = "send"]
      BY <1>1 DEF AttachRun, countVars
    <2>2. Claims(l)' \subseteq Claims(l)
      BY <1>0, <2>1 DEF Claims, Call
    <2>3. state'[l].attempts = state[l].attempts /\ state'[l].status = state[l].status
      BY <1>0, <1>1 DEF AttachRun, StateRow
    <2>4. Runs(l)' = Runs(l)
      BY <2>1 DEF Runs
    <2> QED BY <1>0, <2>2, <2>3, <2>4, PaidKept
  <1>2. ASSUME NEW c \in Caller, NEW batch \in SUBSET caller[c].todo,
               NEW refused \in SUBSET batch, Send(c, batch, refused)
        PROVE  PaidFor(l)'
    <2>1. UNCHANGED <<state, run, asked>>
      BY <1>2 DEF Send, countVars
    <2>2. PICK r \in Call : caller' = [caller EXCEPT ![c] = r] /\ r.pc \in {"send", "idle"}
      BY <1>2, SendCall
    <2>3. Claims(l)' \subseteq Claims(l)
      BY <1>0, <2>2 DEF Claims
    <2>4. Runs(l)' = Runs(l)
      BY <2>1 DEF Runs
    <2> QED BY <1>0, <2>1, <2>3, <2>4, PaidKept
  <1>3. ASSUME NEW c \in Caller, CallerStops(c) PROVE PaidFor(l)'
    <2>1. UNCHANGED <<state, run, asked>> /\ caller' = [caller EXCEPT ![c] = NoCall]
      BY <1>3 DEF CallerStops, countVars
    <2>2. NoCall.pc = "idle"
      BY DEF NoCall
    <2>3. Claims(l)' \subseteq Claims(l)
      BY <1>0, <2>1, <2>2 DEF Claims
    <2>4. Runs(l)' = Runs(l)
      BY <2>1 DEF Runs
    <2> QED BY <1>0, <2>1, <2>3, <2>4, PaidKept
  <1>4. ASSUME NEW k \in Label, GrowStale(k) PROVE PaidFor(l)'
    <2>1. UNCHANGED <<caller, run, asked>> /\ state' = [state EXCEPT ![k].stale = TRUE]
      BY <1>4 DEF GrowStale, countVars
    <2>2. state'[l].attempts = state[l].attempts /\ state'[l].status = state[l].status
      BY <1>0, <2>1 DEF StateRow
    <2>3. Runs(l)' = Runs(l) /\ Claims(l)' = Claims(l)
      BY <2>1 DEF Runs, Claims
    <2> QED BY <1>0, <2>2, <2>3, PaidKept
  <1>5. ASSUME NEW c \in Caller, CallerStep(c) PROVE PaidFor(l)'
    BY <1>1, <1>2, <1>5, InsertNewPaid, CreateRunPaid DEF CallerStep
  <1> QED BY <1>3, <1>4, <1>5, ReclaimPaid, AskByHandPaid DEF RequestStep

LEMMA DeliveryPaid ==
    ASSUME Sound, Paid, NEW w \in Worker, DeliveryStep(w), NEW l \in Label
    PROVE  PaidFor(l)'
  <1>0. PaidFor(l) /\ state \in [Label -> StateRow] /\ run \in [Run -> RunRow]
    BY DEF Paid, Sound, EnrichTypeOK
  <1>1. UNCHANGED <<caller, asked>>
    BY DEF DeliveryStep, WorkerStep, Receive, WorkerStops, InsertCell, UpsertLabelInfo,
           ProjectAiSuspected, IncrementRunCounters, MarkAutoEnrichOutcome, DeleteMessage,
           callVars
  <1>2. \A r \in Run : run'[r].source = run[r].source
    <2>1. ASSUME NEW m \in queue, NEW spare \in BOOLEAN, Receive(w, m, spare)
          PROVE  \A r \in Run : run'[r].source = run[r].source
      BY <1>0, <2>1 DEF Receive, RunRow
    <2>2. CASE IncrementRunCounters(w)
      <3>1. PICK row \in RunRow : /\ run' = [run EXCEPT ![worker[w].msg.run] = row]
                                  /\ row.source = run[worker[w].msg.run].source
        BY <2>2, IncrementRow
      <3> QED BY <1>0, <3>1
    <2>3. CASE WorkerStops(w) \/ (WorkerStep(w) /\ ~IncrementRunCounters(w))
      BY <2>3 DEF WorkerStep, WorkerStops, InsertCell, UpsertLabelInfo, ProjectAiSuspected,
                  MarkAutoEnrichOutcome, DeleteMessage, countVars
    <2> QED BY <2>1, <2>2, <2>3 DEF DeliveryStep
  <1>3. state'[l].attempts = state[l].attempts /\ (state'[l].status = "none" => state[l].status = "none")
    <2>1. CASE MarkAutoEnrichOutcome(w)
      BY <1>0, <2>1 DEF MarkAutoEnrichOutcome, StateRow
    <2>2. CASE ~MarkAutoEnrichOutcome(w)
      <3>1. state' = state
        BY <2>2 DEF DeliveryStep, WorkerStep, Receive, WorkerStops, InsertCell,
                    UpsertLabelInfo, ProjectAiSuspected, IncrementRunCounters,
                    DeleteMessage, callVars
      <3> QED BY <3>1
    <2> QED BY <2>1, <2>2
  <1>4. Runs(l)' = Runs(l) /\ Claims(l)' = Claims(l)
    BY <1>1, <1>2 DEF Runs, Claims
  <1> QED BY <1>0, <1>3, <1>4, PaidKept

LEMMA PaidStep == Sound /\ Paid /\ [Next]_vars => Paid'
  <1> SUFFICES ASSUME Sound, Paid, [Next]_vars, NEW l \in Label PROVE PaidFor(l)'
    BY DEF Paid
  <1>1. CASE UNCHANGED vars
    BY <1>1 DEF vars, callVars, countVars, Paid, PaidFor, Runs, Claims
  <1> QED BY <1>1, RequestPaid, DeliveryPaid, Steps

\* Every automatic search of a label, opened or about to be, is an attempt of
\* its own, whichever claims raced, crashed or went stale: no two curators pay
\* for one attempt.
THEOREM AttemptsAlwaysPay == Spec => []SearchesAreAttempts
  <1>1. Init => Paid
    <2> SUFFICES ASSUME Init, NEW l \in Label PROVE PaidFor(l)
      BY DEF Paid
    <2>1. Runs(l) = {} /\ Claims(l) = {} /\ state[l].attempts = 0
      BY DEF Init, Runs, Claims, NoCall
    <2> QED BY <2>1, FS_EmptySet DEF PaidFor
  <1>2. Paid => SearchesAreAttempts
    BY DEF Paid, PaidFor, Runs, Claims, SearchesAreAttempts
  <1> QED BY <1>1, <1>2, AlwaysSound, PaidStep, PTL DEF Spec


-----------------------------------------------------------------------------
(* The statements implement the ledger.                                    *)

\* Also a run that counted a message twice counted whole searches.
Measured ==
    \A r \in Run : /\ \E k \in Nat : run[r].ok + run[r].error = k * Vendors
                   /\ run[r].status = "completed" => run[r].ok + run[r].error >= run[r].total

LEMMA IncrementMeasured ==
    ASSUME Sound, Measured, NEW w \in Worker, IncrementRunCounters(w)
    PROVE  \E r \in Run, k \in Nat, t \in Nat, row \in RunRow :
              /\ run' = [run EXCEPT ![r] = row]
              /\ run[r].status \in {"running", "completed"}
              /\ run[r].total = t * Vendors /\ row.total = run[r].total
              /\ run[r].ok + run[r].error = k * Vendors
              /\ row.ok + row.error = (k + 1) * Vendors
              /\ row.status = IF k + 1 >= t THEN "completed" ELSE "running"
  <1>1. PICK r : r = worker[w].msg.run
    OBVIOUS
  <1>2. PICK ok : ok = worker[w].ok
    OBVIOUS
  <1>3. worker[w].pc = "counters"
    BY DEF IncrementRunCounters
  <1>4. r \in Run /\ ok \in 0..Vendors /\ run[r].status \in {"running", "completed"}
    BY <1>1, <1>2, <1>3, InHandOf
  <1>5. PICK row \in RunRow :
           /\ run' = [run EXCEPT ![r] = row] /\ row.total = run[r].total
           /\ row.ok = run[r].ok + ok /\ row.error = run[r].error + (Vendors - ok)
           /\ row.status = IF row.ok + row.error >= row.total THEN "completed"
                           ELSE run[r].status
    BY <1>1, <1>2, IncrementRow
  <1>6. PICK k \in Nat : run[r].ok + run[r].error = k * Vendors
    BY <1>4 DEF Measured
  <1>7. PICK t \in Nat : run[r].total = t * Vendors
    BY <1>4, MessagesFinite DEF Sound, EnrichTypeOK, Asked
  <1>8. run[r] \in RunRow /\ run[r].ok \in Nat /\ run[r].error \in Nat /\ run[r].total \in Nat
    BY <1>4 DEF Sound, EnrichTypeOK, RunRow
  <1>9. row.ok + row.error = (k + 1) * Vendors
    <2>1. row.ok + row.error = (run[r].ok + run[r].error) + Vendors
      BY <1>4, <1>5, <1>8, EnrichAssumption
    <2>2. (k + 1) * Vendors = k * Vendors + Vendors
      BY Times, EnrichAssumption
    <2> QED BY <1>6, <2>1, <2>2
  <1>10. row.ok + row.error >= row.total <=> k + 1 >= t
    <2>1. /\ t * Vendors \in Nat /\ (k + 1) * Vendors \in Nat
          /\ t <= k + 1 <=> t * Vendors <= (k + 1) * Vendors
      BY Times, EnrichAssumption
    <2> QED BY <1>5, <1>7, <1>9, <2>1
  <1>11. row.status = IF k + 1 >= t THEN "completed" ELSE "running"
    <2>1. CASE k + 1 >= t
      BY <1>5, <1>10, <2>1
    <2>2. CASE ~(k + 1 >= t)
      <3>1. run[r].status # "completed"
        <4>1. SUFFICES ASSUME run[r].status = "completed" PROVE FALSE
          OBVIOUS
        <4>2. k * Vendors >= t * Vendors
          BY <1>4, <1>6, <1>7, <4>1 DEF Measured
        <4>3. t <= k
          BY <4>2, Times, EnrichAssumption
        <4> QED BY <2>2, <4>3
      <3> QED BY <1>4, <1>5, <1>10, <2>2, <3>1
    <2> QED BY <2>1, <2>2
  <1> QED BY <1>4, <1>5, <1>6, <1>7, <1>9, <1>11

\* A run is opened for at most every label as often as it may be listed.
LEMMA OpenedSearches ==
    ASSUME NEW r \in Run, NEW messages \in SUBSET Message, messages # {},
           \A m \in messages : m.run = r
    PROVE  Cardinality(messages) \in 1..(Cardinality(Label) * MaxCopies)
  <1> DEFINE f == [m \in messages |-> <<m.label, m.copy>>]
  <1>1. f \in Injection(messages, Label \X (1..MaxCopies))
    BY DEF Injection, IsInjective, Message
  <1>2. Cardinality(messages) <= Cardinality(Label) * MaxCopies
    BY <1>1, MessageFinite, FS_Injection
  <1>3. Cardinality(Label) * MaxCopies \in Nat
    BY MessageFinite, FS_CardinalityType
  <1>4. Cardinality(messages) \in Nat /\ Cardinality(messages) # 0
    BY MessagesFinite, FS_EmptySet
  <1> QED BY <1>2, <1>3, <1>4

\* A step of the ledger over a run that becomes the given row.
LEMMA LedgerOpens ==
    ASSUME Sound, Measured, NEW r \in Run, NEW messages \in SUBSET Message, Opens(r, messages)
    PROVE  Measured' /\ Ledger!LedgerNext
  <1>1. PICK row \in RunRow :
              /\ run' = [run EXCEPT ![r] = row] /\ row.status = "queued"
              /\ row.total = Cardinality(messages) * Vendors
              /\ row.ok = run[r].ok /\ row.error = run[r].error
    BY OpenedRow
  <1>2. PICK n : n = Cardinality(messages)
    OBVIOUS
  <1>3. n \in 1..(Cardinality(Label) * MaxCopies) /\ n \in Nat
    BY <1>2, OpenedSearches, MessagesFinite DEF Opens
  <1>4. row.total \div Vendors = n
    BY <1>1, <1>2, <1>3, Whole, EnrichAssumption
  <1>5. run \in [Run -> RunRow]
    BY DEF Sound, EnrichTypeOK
  <1>6. Measured'
    BY <1>1, <1>5 DEF Measured
  <1>7. Ledger!Open(r, n)
    <2>1. run[r].status = "none"
      BY DEF Opens
    <2>2. /\ run'[r].status = "queued" /\ run'[r].total \div Vendors = n
          /\ run'[r].ok = run[r].ok /\ run'[r].error = run[r].error
          /\ \A s \in Run \ {r} : run'[s] = run[s]
      BY <1>1, <1>4, <1>5
    <2> QED BY <2>1, <2>2 DEF Ledger!Open
  <1> QED BY <1>3, <1>6, <1>7 DEF Ledger!LedgerNext

LEMMA LedgerPicksUp ==
    ASSUME Sound, Measured, NEW w \in Worker, NEW m \in queue, NEW spare \in BOOLEAN,
           Receive(w, m, spare)
    PROVE  Measured' /\ [Ledger!LedgerNext]_(Ledger!ledger)
  <1>1. PICK r : r = m.run
    OBVIOUS
  <1>2. /\ r \in Run
        /\ \A s \in Run : /\ run'[s].ok = run[s].ok /\ run'[s].error = run[s].error
                          /\ run'[s].total = run[s].total
                          /\ run'[s].status = IF s = r /\ run[s].status = "queued"
                                              THEN "running" ELSE run[s].status
    BY <1>1, ReceiveRow
  <1>3. Measured'
    BY <1>2 DEF Measured
  <1>4. CASE run[r].status = "queued"
    <2>1. Ledger!PickUp(r)
      BY <1>2, <1>4 DEF Ledger!PickUp
    <2> QED BY <1>2, <1>3, <2>1 DEF Ledger!LedgerNext
  <1>5. CASE run[r].status # "queued"
    BY <1>2, <1>3, <1>5 DEF Ledger!ledger
  <1> QED BY <1>4, <1>5

LEMMA LedgerCounts ==
    ASSUME Sound, Measured, NEW w \in Worker, IncrementRunCounters(w)
    PROVE  Measured' /\ Ledger!LedgerNext
  <1>1. PICK r \in Run, k \in Nat, t \in Nat, row \in RunRow :
              /\ run' = [run EXCEPT ![r] = row]
              /\ run[r].status \in {"running", "completed"}
              /\ run[r].total = t * Vendors /\ row.total = run[r].total
              /\ run[r].ok + run[r].error = k * Vendors
              /\ row.ok + row.error = (k + 1) * Vendors
              /\ row.status = IF k + 1 >= t THEN "completed" ELSE "running"
    BY IncrementMeasured
  <1>2. /\ run[r].total \div Vendors = t /\ row.total \div Vendors = t
        /\ (run[r].ok + run[r].error) \div Vendors = k
        /\ (row.ok + row.error) \div Vendors = k + 1
    BY <1>1, Whole, EnrichAssumption
  <1>3. run'[r] = row /\ \A s \in Run \ {r} : run'[s] = run[s]
    BY <1>1 DEF Sound, EnrichTypeOK
  <1>4. row.status = "completed" => row.ok + row.error >= row.total
    <2>1. /\ t * Vendors \in Nat /\ (k + 1) * Vendors \in Nat
          /\ t <= k + 1 <=> t * Vendors <= (k + 1) * Vendors
      BY Times, EnrichAssumption
    <2> QED BY <1>1, <2>1
  <1>5. Measured'
    <2>1. k + 1 \in Nat
      OBVIOUS
    <2> QED BY <1>1, <1>3, <1>4, <2>1 DEF Measured
  <1>6. Ledger!Count(r)
    <2>1. [s \in Run |-> run'[s].total \div Vendors] = [s \in Run |-> run[s].total \div Vendors]
      BY <1>2, <1>3
    <2>2. [s \in Run |-> (run'[s].ok + run'[s].error) \div Vendors]
            = [[s \in Run |-> (run[s].ok + run[s].error) \div Vendors]
                 EXCEPT ![r] = (run[r].ok + run[r].error) \div Vendors + 1]
      BY <1>2, <1>3
    <2>3. [s \in Run |-> run'[s].status]
            = [[s \in Run |-> run[s].status] EXCEPT ![r] = row.status]
      BY <1>3
    <2>4. row.status = IF (run[r].ok + run[r].error) \div Vendors + 1
                             >= run[r].total \div Vendors
                       THEN "completed" ELSE "running"
      BY <1>1, <1>2, Zenon
    <2> QED BY <1>1, <2>1, <2>2, <2>3, <2>4 DEF Ledger!Count
  <1> QED BY <1>5, <1>6 DEF Ledger!LedgerNext

LEMMA LedgerStep ==
    Sound /\ Measured /\ [Next]_vars => Measured' /\ [Ledger!LedgerNext]_(Ledger!ledger)
  <1> SUFFICES ASSUME Sound, Measured, [Next]_vars
               PROVE  Measured' /\ [Ledger!LedgerNext]_(Ledger!ledger)
    OBVIOUS
  <1>1. CASE run' = run
    BY <1>1 DEF Measured, Ledger!ledger
  <1>2. CASE RequestStep
    BY <1>1, <1>2, RequestOpens, LedgerOpens
  <1>3. ASSUME NEW w \in Worker, DeliveryStep(w)
        PROVE  Measured' /\ [Ledger!LedgerNext]_(Ledger!ledger)
    <2>1. CASE WorkerStops(w)
      BY <1>1, <2>1 DEF WorkerStops, countVars
    <2>2. CASE WorkerStep(w)
      <3>1. run' = run \/ IncrementRunCounters(w)
        BY <2>2 DEF WorkerStep, InsertCell, UpsertLabelInfo, ProjectAiSuspected,
                    MarkAutoEnrichOutcome, DeleteMessage, countVars
      <3> QED BY <1>1, <3>1, LedgerCounts
    <2> QED BY <1>3, <2>1, <2>2, LedgerPicksUp DEF DeliveryStep
  <1>4. CASE UNCHANGED vars
    BY <1>1, <1>4 DEF vars, countVars
  <1> QED BY <1>2, <1>3, <1>4, Steps

LEMMA LedgerBegins == Init => Measured /\ Ledger!LedgerInit
  <1> SUFFICES ASSUME Init PROVE Measured /\ Ledger!LedgerInit
    OBVIOUS
  <1>1. 0 * Vendors = 0 /\ 0 \div Vendors = 0
    BY Whole, EnrichAssumption
  <1>2. \A r \in Run : /\ run[r].status = "none" /\ run[r].total = 0
                       /\ run[r].ok = 0 /\ run[r].error = 0 /\ run[r].ok + run[r].error = 0
    BY DEF Init
  <1>3. Measured
    BY <1>1, <1>2 DEF Measured
  <1>4. Ledger!LedgerInit
    BY <1>1, <1>2 DEF Ledger!LedgerInit
  <1> QED BY <1>3, <1>4

\* Run by run the statements are those of the ledger, for any number of labels,
\* vendors, workers and crashes: opened once for 1 to MaxSearches searches,
\* picked up once, counted by whole searches, and completed from the very step
\* that counts the last of them.
THEOREM EnrichImplementsLedger == Spec => ImplementsLedger
  <1> QED BY AlwaysSound, LedgerBegins, LedgerStep, PTL
             DEF Spec, ImplementsLedger, Ledger!LedgerSpec

=============================================================================

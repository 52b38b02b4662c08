----------------------------- MODULE Enrichment -----------------------------
(***************************************************************************)
(* Label enrichment (artist enrichment is its twin, statement for          *)
(* statement): curation claims labels for an automatic search, an admin    *)
(* asks for one by hand, each search is a message, and a worker asks the   *)
(* vendors, stores a cell for each, merges them over the label's info, and *)
(* moves the counters of the run.  Every statement commits by itself.      *)
(*                                                                         *)
(* The vendors of a run are 1..Vendors, in the order of its list.  Of the  *)
(* info it matters whether there is a row, whether any vendor answered,    *)
(* and what it says of AI content: "yes", "no", or "unsure" (unknown, or   *)
(* below the threshold).  last_run_id, which nothing reads, is left out.   *)
(* Time is one bit per label: six hours since its row was touched.         *)
(***************************************************************************)
EXTENDS Naturals, FiniteSets

CONSTANTS
    Label,
    Run,          \* ids that runs may get
    Caller,       \* dispatching requests in flight
    Worker,       \* worker invocations
    None,
    Vendors,      \* how many vendors the configuration names
    MaxCopies,    \* how often a manual request may list one label
    MaxMessages,  \* bounds the searches ever asked for
    MaxActive,    \* bounds the invocations at once
    MaxFaults     \* bounds crashes, entries SQS refuses, and spare deliveries

ASSUME EnrichAssumption ==
    /\ None \notin Label \cup Run \cup Caller \cup Worker
    /\ IsFiniteSet(Label) /\ IsFiniteSet(Run) /\ IsFiniteSet(Caller)
    /\ Vendors \in Nat \ {0} /\ MaxCopies \in Nat \ {0}
    /\ MaxMessages \in Nat /\ MaxActive \in Nat /\ MaxFaults \in Nat

VARIABLES
    state,      \* label_auto_enrich_state
    info,       \* clouder_label_info
    flag,       \* clouder_labels.is_ai_suspected
    run,        \* clouder_label_enrichment_runs
    cells,      \* clouder_label_enrichment_cells: the vendors stored, per run and label
    caller,     \* a dispatch or a manual request, between two statements
    worker,     \* the message a worker holds, and where it stands
    queue,      \* messages that can be received
    asked,      \* history: the messages a run was opened for
    counted,    \* history: messages that were counted
    again,      \* history: runs that counted a message twice
    mixed,      \* history: labels in two hands at once
    faults

callVars == <<state, caller>>
countVars == <<run, counted, again>>
workVars == <<info, flag, cells, worker, mixed>>
vars == <<callVars, workVars, queue, countVars, asked, faults>>

Vendor == 1..Vendors
MaxAttempts == 2
Message == [run : Run, label : Label, copy : 1..MaxCopies]
Says == {"empty", "unsure", "yes", "no"}
Info == {"absent"} \cup Says

NoCall == [pc |-> "idle", source |-> "auto", labels |-> {}, claimed |-> {}, run |-> None,
           todo |-> {}]
NoWork == [pc |-> "idle", msg |-> None, ok |-> 0, next |-> 1, says |-> "empty"]

CallStage == {"insert", "create_run", "attach_run", "send"}
WorkStage == {"insert_cell", "upsert_info", "project_ai", "counters",
              "outcome", "delete"}

StateRow == [status : {"none", "queued", "failed", "completed"},
             attempts : 0..MaxAttempts, stale : BOOLEAN]
RunRow == [status : {"none", "queued", "running", "completed"},
           source : {"auto", "manual"}, total : Nat, ok : Nat, error : Nat]
Call == [pc : {"idle"} \cup CallStage, source : {"auto", "manual"}, labels : SUBSET Label,
         claimed : SUBSET Label, run : Run \cup {None}, todo : SUBSET Message]
Work == [pc : {"idle"} \cup WorkStage, msg : Message \cup {None},
         ok : 0..Vendors, next : Vendor, says : Says]

EnrichTypeOK ==
    /\ state \in [Label -> StateRow]
    /\ info \in [Label -> Info]
    /\ flag \in [Label -> BOOLEAN]
    /\ run \in [Run -> RunRow]
    /\ cells \in [Run -> [Label -> SUBSET Vendor]]
    /\ caller \in [Caller -> Call]
    /\ worker \in [Worker -> Work]
    /\ queue \in SUBSET Message
    /\ asked \in [Run -> SUBSET Message]
    /\ counted \in SUBSET Message /\ again \in SUBSET Run
    /\ mixed \in SUBSET Label
    /\ faults \in 0..MaxFaults

Init ==
    /\ state = [l \in Label |-> [status |-> "none", attempts |-> 0, stale |-> FALSE]]
    /\ info = [l \in Label |-> "absent"]
    /\ flag = [l \in Label |-> FALSE]
    /\ run = [r \in Run |-> [status |-> "none", source |-> "auto", total |-> 0,
                             ok |-> 0, error |-> 0]]
    /\ cells = [r \in Run |-> [l \in Label |-> {}]]
    /\ caller = [c \in Caller |-> NoCall]
    /\ worker = [w \in Worker |-> NoWork]
    /\ queue = {}
    /\ asked = [r \in Run |-> {}]
    /\ counted = {} /\ again = {} /\ mixed = {}
    /\ faults = 0

-----------------------------------------------------------------------------
(* Dispatch: the labels of one track, or those of a finalized block.       *)

\* Keeps to MaxActive.
MayStart == Cardinality({c \in Caller : caller[c].pc # "idle"})
               + Cardinality({w \in Worker : worker[w].pc # "idle"}) < MaxActive

\* Mutant: no limit on attempts.
ReclaimableForever(l) ==
    \/ state[l].status = "failed"
    \/ state[l].status = "queued" /\ state[l].stale

Reclaimable(l) ==
    /\ state[l].attempts < MaxAttempts
    /\ \/ state[l].status = "failed"
       \/ state[l].status = "queued" /\ state[l].stale

\* A dispatch begins with this statement.
Reclaim(c, labels) ==
    LET claimed == {l \in labels : Reclaimable(l)} IN
    /\ caller[c].pc = "idle" /\ labels # {} /\ MayStart
    /\ state' = [l \in Label |-> IF l \in claimed
                                 THEN [status |-> "queued", attempts |-> state[l].attempts + 1,
                                       stale |-> FALSE]
                                 ELSE state[l]]
    /\ caller' = [caller EXCEPT ![c] = [NoCall EXCEPT !.pc = "insert", !.labels = labels,
                                                     !.claimed = claimed]]
    /\ UNCHANGED <<workVars, queue, countVars, asked, faults>>

\* Mutant: only the info is looked at.
WithoutInfo(l) == info[l] = "absent"

Unsearched(l) == state[l].status = "none" /\ info[l] = "absent"

InsertNew(c) ==
    LET new == {l \in caller[c].labels : Unsearched(l)}
        claimed == caller[c].claimed \cup new
    IN  /\ caller[c].pc = "insert"
        /\ state' = [l \in Label |-> IF l \in new
                                     THEN [status |-> "queued", attempts |-> 1, stale |-> FALSE]
                                     ELSE state[l]]
        /\ caller' = [caller EXCEPT ![c] =
                        IF claimed = {} THEN NoCall
                        ELSE [NoCall EXCEPT !.pc = "create_run", !.claimed = claimed]]
        /\ UNCHANGED <<workVars, queue, countVars, asked, faults>>

\* Keeps to MaxMessages.
Room(S) == Cardinality(UNION {asked[r] : r \in Run}) + Cardinality(S) <= MaxMessages

\* The row a run starts with: a cell per vendor is due for every message.
Opened(row, source, messages) ==
    [row EXCEPT !.status = "queued", !.source = source,
                !.total = Cardinality(messages) * Vendors]

\* Manual requests name their entries themselves, a label perhaps twice.
AskByHand(c, entries) ==
    /\ caller[c].pc = "idle" /\ entries # {} /\ Room(entries) /\ MayStart
    /\ \E r \in Run : /\ run[r].status = "none"
                      /\ LET messages == {[run |-> r, label |-> e[1], copy |-> e[2]] :
                                             e \in entries} IN
                         /\ caller' = [caller EXCEPT ![c] =
                               [NoCall EXCEPT !.pc = "send", !.source = "manual",
                                              !.run = r, !.todo = messages]]
                         /\ run' = [run EXCEPT ![r] = Opened(run[r], "manual", messages)]
                         /\ asked' = [asked EXCEPT ![r] = messages]
    /\ UNCHANGED <<state, workVars, queue, counted, again, faults>>

CreateRun(c) ==
    /\ caller[c].pc = "create_run" /\ Room(caller[c].claimed)
    /\ \E r \in Run : /\ run[r].status = "none"
                      /\ LET messages == [run : {r}, label : caller[c].claimed, copy : {1}] IN
                         /\ caller' = [caller EXCEPT ![c].pc = "attach_run", ![c].run = r,
                                                     ![c].todo = messages]
                         /\ run' = [run EXCEPT ![r] = Opened(run[r], "auto", messages)]
                         /\ asked' = [asked EXCEPT ![r] = messages]
    /\ UNCHANGED <<state, workVars, queue, counted, again, faults>>

AttachRun(c) ==
    /\ caller[c].pc = "attach_run"
    /\ state' = [l \in Label |-> IF l \in caller[c].claimed
                                 THEN [state[l] EXCEPT !.stale = FALSE]
                                 ELSE state[l]]
    /\ caller' = [caller EXCEPT ![c].pc = "send"]
    /\ UNCHANGED <<workVars, queue, countVars, asked, faults>>

\* A manual request sends its messages one by one, a dispatch its batch at once;
\* entries that SQS refuses are logged and no more.
Send(c, batch, refused) ==
    /\ caller[c].pc = "send" /\ batch # {} /\ batch \subseteq caller[c].todo
    /\ IF caller[c].source = "auto" THEN batch = caller[c].todo
                                    ELSE Cardinality(batch) = 1 /\ refused = {}
    /\ refused \subseteq batch
    /\ refused # {} => faults < MaxFaults
    /\ faults' = IF refused = {} THEN faults ELSE faults + 1
    /\ queue' = queue \cup (batch \ refused)
    /\ caller' = [caller EXCEPT ![c] =
                   IF batch = @.todo THEN NoCall
                   ELSE [@ EXCEPT !.todo = caller[c].todo \ batch]]
    /\ UNCHANGED <<state, workVars, countVars, asked>>

\* The invocation ends between two statements, by a timeout or an exception.
CallerStops(c) ==
    /\ caller[c].pc # "idle" /\ faults < MaxFaults
    /\ faults' = faults + 1
    /\ caller' = [caller EXCEPT ![c] = NoCall]
    /\ UNCHANGED <<state, workVars, queue, countVars, asked>>

\* Six hours since the claim: longer than any dispatch takes.
GrowStale(l) ==
    /\ state[l].status = "queued" /\ ~state[l].stale
    /\ \A c \in Caller : l \notin caller[c].claimed
    /\ state' = [state EXCEPT ![l].stale = TRUE]
    /\ UNCHANGED <<caller, workVars, queue, countVars, asked, faults>>

-----------------------------------------------------------------------------
(* The worker: one message at a time, and the queue that feeds it.         *)

InHand(l) == {w \in Worker : worker[w].pc # "idle" /\ worker[w].msg.label = l}

\* A standard queue may hand a message out a second time while it is being worked on.
\* The first statement of a delivery is mark_run_running.
Receive(w, m, spare) ==
    /\ worker[w].pc = "idle" /\ m \in queue /\ MayStart
    /\ spare => faults < MaxFaults
    /\ faults' = IF spare THEN faults + 1 ELSE faults
    /\ queue' = IF spare THEN queue ELSE queue \ {m}
    /\ worker' = [worker EXCEPT ![w] = [NoWork EXCEPT !.pc = "insert_cell", !.msg = m]]
    /\ run' = [run EXCEPT ![m.run].status = IF @ = "queued" THEN "running" ELSE @]
    /\ mixed' = IF InHand(m.label) = {} THEN mixed ELSE mixed \cup {m.label}
    /\ UNCHANGED <<callVars, info, flag, cells, counted, again, asked>>

\* The loop over the vendors moves on.
Asking(work, answered) ==
    [work EXCEPT !.ok = IF answered THEN @ + 1 ELSE @,
                 !.next = IF @ = Vendors THEN 1 ELSE @ + 1,
                 !.pc = IF work.next = Vendors THEN "upsert_info" ELSE @]

\* Mutant: a vendor that failed leaves no cell.
InsertAnsweredCell(w, answered) ==
    LET m == worker[w].msg
        v == worker[w].next
    IN  /\ worker[w].pc = "insert_cell"
        /\ cells' = [cells EXCEPT ![m.run][m.label] = IF answered THEN @ \cup {v} ELSE @]
        /\ worker' = [worker EXCEPT ![w] = Asking(worker[w], answered)]
        /\ UNCHANGED <<callVars, info, flag, mixed, queue, countVars, asked, faults>>

\* All vendors have been asked before; what the next of them said is chosen here.
InsertCell(w, answered) ==
    LET m == worker[w].msg
        v == worker[w].next
    IN  /\ worker[w].pc = "insert_cell"
        /\ cells' = [cells EXCEPT ![m.run][m.label] = @ \cup {v}]
        /\ worker' = [worker EXCEPT ![w] = Asking(worker[w], answered)]
        /\ UNCHANGED <<callVars, info, flag, mixed, queue, countVars, asked, faults>>

\* merge_cells over this delivery's answers; of none it makes an empty profile.
UpsertLabelInfo(w, says) ==
    /\ worker[w].pc = "upsert_info"
    /\ worker[w].ok = 0 <=> says = "empty"
    /\ info' = [info EXCEPT ![worker[w].msg.label] = says]
    /\ worker' = [worker EXCEPT ![w].pc = "project_ai", ![w].says = says]
    /\ UNCHANGED <<callVars, flag, cells, mixed, queue, countVars, asked, faults>>

\* Mutant: the flag is raised and never cleared.
RaiseAiSuspected(w) ==
    /\ worker[w].pc = "project_ai"
    /\ flag' = [flag EXCEPT ![worker[w].msg.label] = @ \/ worker[w].says = "yes"]
    /\ worker' = [worker EXCEPT ![w].pc = "counters", ![w].says = "empty"]
    /\ UNCHANGED <<callVars, info, cells, mixed, queue, countVars, asked, faults>>

ProjectAiSuspected(w) ==
    /\ worker[w].pc = "project_ai"
    /\ flag' = [flag EXCEPT ![worker[w].msg.label] =
                   IF worker[w].says \in {"yes", "no"} THEN worker[w].says = "yes" ELSE @]
    /\ worker' = [worker EXCEPT ![w].pc = "counters", ![w].says = "empty"]
    /\ UNCHANGED <<callVars, info, cells, mixed, queue, countVars, asked, faults>>

\* Mutant: the comparison sees the counters of before the addition.
CountedLate(row, ok, error) ==
    [row EXCEPT !.ok = @ + ok, !.error = @ + error,
                !.status = IF row.ok + row.error >= row.total THEN "completed" ELSE @]

Counted(row, ok, error) ==
    [row EXCEPT !.ok = @ + ok, !.error = @ + error,
                !.status = IF row.ok + row.error + ok + error >= row.total
                           THEN "completed" ELSE @]

IncrementRunCounters(w) ==
    LET r == worker[w].msg.run
        ok == worker[w].ok
    IN  /\ worker[w].pc = "counters"
        /\ run' = [run EXCEPT ![r] = Counted(run[r], ok, Vendors - ok)]
        /\ counted' = counted \cup {worker[w].msg}
        /\ again' = IF worker[w].msg \in counted THEN again \cup {r} ELSE again
        /\ worker' = [worker EXCEPT ![w].pc = "outcome"]
        /\ UNCHANGED <<callVars, info, flag, cells, mixed, queue, asked, faults>>

MarkAutoEnrichOutcome(w) ==
    LET l == worker[w].msg.label IN
    /\ worker[w].pc = "outcome"
    /\ state' = [state EXCEPT ![l] =
                   IF @.status # "queued" THEN @
                   ELSE [@ EXCEPT !.status = IF worker[w].ok > 0 THEN "completed" ELSE "failed",
                                  !.stale = FALSE]]
    /\ worker' = [worker EXCEPT ![w].pc = "delete", ![w].ok = 0]
    /\ UNCHANGED <<caller, info, flag, cells, mixed, queue, countVars, asked, faults>>

DeleteMessage(w) ==
    /\ worker[w].pc = "delete"
    /\ worker' = [worker EXCEPT ![w] = NoWork]
    /\ UNCHANGED <<callVars, info, flag, cells, mixed, queue, countVars, asked, faults>>

\* The worker dies, or an exception ends it; the message comes back.
WorkerStops(w) ==
    LET m == worker[w].msg IN
    /\ worker[w].pc # "idle" /\ faults < MaxFaults
    /\ faults' = faults + 1
    /\ queue' = queue \cup {m}
    /\ worker' = [worker EXCEPT ![w] = NoWork]
    /\ UNCHANGED <<callVars, info, flag, cells, mixed, countVars, asked>>

-----------------------------------------------------------------------------
CallerStep(c) ==
    \/ InsertNew(c) \/ CreateRun(c) \/ AttachRun(c)
    \/ \E batch \in SUBSET caller[c].todo : \E refused \in SUBSET batch :
          Send(c, batch, refused)

WorkerStep(w) ==
    \/ \E answered \in BOOLEAN : InsertCell(w, answered)
    \/ \E says \in Says : UpsertLabelInfo(w, says)
    \/ ProjectAiSuspected(w)
    \/ IncrementRunCounters(w) \/ MarkAutoEnrichOutcome(w) \/ DeleteMessage(w)

Next ==
    \/ \E c \in Caller :
          \/ \E labels \in SUBSET Label : Reclaim(c, labels)
          \/ \E entries \in SUBSET (Label \X (1..MaxCopies)) : AskByHand(c, entries)
          \/ CallerStep(c) \/ CallerStops(c)
    \/ \E l \in Label : GrowStale(l)
    \/ \E w \in Worker :
          \/ \E m \in queue, spare \in BOOLEAN : Receive(w, m, spare)
          \/ WorkerStep(w) \/ WorkerStops(w)

Spec == Init /\ [][Next]_vars

-----------------------------------------------------------------------------
(* What should be true of it.                                              *)

\* Every automatic search of a label, those whose run is yet to be created
\* included, is an attempt of its own, and there are two at most: curators who
\* add tracks of one label at once never pay for one attempt twice.
SearchesAreAttempts ==
    \A l \in Label :
        LET Runs == {r \in Run : run[r].source = "auto" /\ \E m \in asked[r] : m.label = l}
            Claims == {c \in Caller : /\ l \in caller[c].claimed
                                      /\ caller[c].pc \in {"insert", "create_run"}}
        IN  Cardinality(Runs) + Cardinality(Claims) <= state[l].attempts

\* A run that counted no message twice is completed only when every search it
\* asked for has stored a cell per vendor and the info, and its counters say
\* exactly that many cells, whatever crashed and was delivered again before.
CompletedRunHasItsCells ==
    \A r \in Run \ again :
        run[r].status = "completed" =>
            /\ run[r].ok + run[r].error = run[r].total
            /\ \A m \in asked[r] : /\ info[m.label] # "absent"
                                   /\ cells[r][m.label] = Vendor

\* The flag repeats what the stored info says of AI content, once nothing of
\* the label is under way or was given up, unless two workers had the label in
\* hand at once (their info and their flag may then be of different runs).
FlagFollowsInfo ==
    \A l \in Label \ mixed :
        /\ InHand(l) = {}
        /\ \A m \in queue : m.label # l
        /\ info[l] \in {"yes", "no"}
        => flag[l] = (info[l] = "yes")

\* Run by run, the statements above are those of a ledger of searches: a status
\* and counters that move by whole searches, completed in the step that counts
\* the last of them.
Ledger == INSTANCE EnrichLedger WITH
    MaxSearches <- Cardinality(Label) * MaxCopies,
    status <- [r \in Run |-> run[r].status],
    asked <- [r \in Run |-> run[r].total \div Vendors],
    counted <- [r \in Run |-> (run[r].ok + run[r].error) \div Vendors]
ImplementsLedger == Ledger!LedgerSpec
=============================================================================

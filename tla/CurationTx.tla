----------------------------- MODULE CurationTx -----------------------------
(***************************************************************************)
(* Curation with its requests cut at the SQL statements they run.          *)
(*                                                                         *)
(* Aurora runs READ COMMITTED: a statement sees what is committed when it  *)
(* starts, a transaction's own writes appear to the others when it         *)
(* commits, and nothing re-checks what an earlier statement has read.      *)
(* Each SELECT that decides something is therefore a step, which leaves    *)
(* its answer in req[p], and the writes of a request are one last step,    *)
(* the commit, that applies the effect of module Curation to the answers.  *)
(* API Gateway and the browser bound nothing: two tabs, a double click or  *)
(* a retry after the gateway's 29 s timeout are two clients.               *)
(***************************************************************************)
EXTENDS Curation

CONSTANTS
    Client,     \* requests that may be in flight at once
    Ops,        \* the requests an instance exercises
    Isolated    \* TRUE: a request starts only when no other is in flight

ASSUME ClientAssumption == Isolated \in BOOLEAN

VARIABLE req    \* what each request has read so far

vars == <<block, category, staging, held, members, tagged, flagged, toDiscard, req>>

Idle == [op |-> "idle"]

Request ==
    {Idle}
    \cup [op : {"create_block"}, pc : {"classify", "commit"}, b : Block, ai : BOOLEAN,
          cats : SUBSET Category, put : [Bucket -> SUBSET Track]]
    \cup [op : {"move"}, pc : {"present", "commit"}, b : Block,
          from : Bucket, to : Bucket, ts : SUBSET Track]
    \cup [op : {"transfer"}, pc : {"target", "present", "insert"}, s : Block, d : Block,
          to : Bucket, ts : SUBSET Track]
    \cup [op : {"finalize"}, pc : {"inactive", "staging", "promote"}, b : Block,
          todo : SUBSET Category, promoted : [Category -> SUBSET Track]]
    \cup [op : {"create_category"}, c : Category, blocks : SUBSET Block]
    \cup [op : {"delete_category"}, c : Category, former : SUBSET Track]
    \cup [op : {"add_track"}, c : Category, t : Track, src : Source]
    \cup [op : {"remove_track"}, c : Category, t : Track]
    \cup [op : {"tag"}, t : Track]

TxTypeOK == TypeOK /\ req \in [Client -> Request]

TxInit == Init /\ req = [p \in Client |-> Idle]

-----------------------------------------------------------------------------
NoTracks == [c \in Category |-> {}]
Quiet == Isolated => \A q \in Client : req[q] = Idle

\* The first statement of a request has run and left r.
Begin(p, op, r) ==
    /\ op \in Ops
    /\ req[p] = Idle
    /\ Quiet
    /\ req' = [req EXCEPT ![p] = r]
    /\ UNCHANGED dbVars

\* A later statement of the request has run.
Read(p, r) ==
    /\ req' = [req EXCEPT ![p] = r]
    /\ UNCHANGED dbVars

Done(p) == req' = [req EXCEPT ![p] = Idle]

At(p, op, pc) == req[p].op = op /\ req[p].pc = pc

\* An error answer, a timeout or a crash of the Lambda: everything a request writes
\* is written by its last step, so nothing stays behind.
Fail(p) ==
    /\ req[p] # Idle
    /\ Done(p)
    /\ UNCHANGED dbVars

-----------------------------------------------------------------------------
(* create_block: the categories, the classification, the commit.           *)

Fresh(b) == /\ ~Created(b)
            /\ \A q \in Client : req[q].op = "create_block" => req[q].b # b

CreateBlockCategories(p, b, ai) ==
    /\ Fresh(b)
    /\ Begin(p, "create_block",
             [op |-> "create_block", pc |-> "classify", b |-> b, ai |-> ai,
              cats |-> StyleCategories(b), put |-> [k \in Bucket |-> {}]])

CreateBlockClassify(p) ==
    /\ At(p, "create_block", "classify")
    /\ Read(p, [req[p] EXCEPT !.put = Classified(req[p].b, req[p].ai), !.pc = "commit"])

CreateBlockCommit(p) ==
    /\ At(p, "create_block", "commit")
    /\ CreateBlockEffect(req[p].b, req[p].ai, req[p].cats, req[p].put)
    /\ Done(p)

-----------------------------------------------------------------------------
(* move_tracks: the guard and the presence check run before the transaction *)
(* that deletes and inserts.                                               *)

MoveGuard(p, b, from, to, ts) ==
    /\ MayMove(b, from, to)
    /\ from # to
    /\ Begin(p, "move", [op |-> "move", pc |-> "present", b |-> b,
                         from |-> from, to |-> to, ts |-> ts])

MovePresent(p) ==
    /\ At(p, "move", "present")
    /\ req[p].ts \subseteq held[req[p].b][req[p].from]
    /\ Read(p, [req[p] EXCEPT !.pc = "commit"])

MoveCommit(p) ==
    /\ At(p, "move", "commit")
    /\ MoveEffect(req[p].b, req[p].from, req[p].to, req[p].ts)
    /\ Done(p)

-----------------------------------------------------------------------------
(* transfer_tracks: no transaction at all, four statements.                *)

TransferSource(p, s, d, to, ts) ==
    /\ Visible(s)
    /\ Begin(p, "transfer", [op |-> "transfer", pc |-> "target", s |-> s, d |-> d,
                             to |-> to, ts |-> ts])

TransferTarget(p) ==
    /\ At(p, "transfer", "target")
    /\ MayTransfer(req[p].s, req[p].d, req[p].to)
    /\ Read(p, [req[p] EXCEPT !.pc = "present"])

TransferPresent(p) ==
    /\ At(p, "transfer", "present")
    /\ req[p].ts \subseteq HeldBy(req[p].s)
    /\ Read(p, [req[p] EXCEPT !.pc = "insert"])

TransferInsert(p) ==
    /\ At(p, "transfer", "insert")
    /\ TransferEffect(req[p].d, req[p].to, req[p].ts)
    /\ Done(p)

-----------------------------------------------------------------------------
(* finalize_block: status, inactive buckets, active buckets, then bucket by *)
(* bucket its tracks and add_tracks_bulk's category check, the commit.     *)

FinalizeStatus(p, b) ==
    /\ Open(b)
    /\ Begin(p, "finalize", [op |-> "finalize", pc |-> "inactive", b |-> b,
                             todo |-> {}, promoted |-> NoTracks])

\* Mutant: the check of the inactive buckets is dropped.
FinalizeUnchecked(p) ==
    /\ At(p, "finalize", "inactive")
    /\ Read(p, [req[p] EXCEPT !.pc = "staging"])

FinalizeInactive(p) ==
    /\ At(p, "finalize", "inactive")
    /\ InactiveEmpty(req[p].b)
    /\ Read(p, [req[p] EXCEPT !.pc = "staging"])

FinalizeStaging(p) ==
    /\ At(p, "finalize", "staging")
    /\ Read(p, [req[p] EXCEPT !.pc = "promote",
                  !.todo = {c \in Category : staging[req[p].b][c] = "active"}])

\* Mutant: add_tracks_bulk is called without the transaction id and autocommits.
FinalizeBucketAutocommits(p, c) ==
    /\ At(p, "finalize", "promote")
    /\ c \in req[p].todo
    /\ held[req[p].b][c] # {} => Alive(c)
    /\ members' = [members EXCEPT ![c] = [t \in Track |->
                     IF t \in held[req[p].b][c] /\ ~In(c, t) THEN req[p].b ELSE @[t]]]
    /\ req' = [req EXCEPT ![p].todo = @ \ {c}, ![p].promoted[c] = held[req[p].b][c]]
    /\ UNCHANGED <<block, category, staging, held, tagged, flagged, toDiscard>>

FinalizeBucket(p, c) ==
    /\ At(p, "finalize", "promote")
    /\ c \in req[p].todo
    /\ held[req[p].b][c] # {} => Alive(c)
    /\ Read(p, [req[p] EXCEPT
                  !.todo = @ \ {c},
                  !.promoted = [req[p].promoted EXCEPT ![c] = held[req[p].b][c]]])

FinalizeCommit(p) ==
    /\ At(p, "finalize", "promote")
    /\ req[p].todo = {}
    /\ FinalizeEffect(req[p].b, req[p].promoted)
    /\ Done(p)

-----------------------------------------------------------------------------
(* Categories and tags.                                                    *)

CreateCategoryBlocks(p, c) ==
    /\ category[c] = "none"
    /\ \A q \in Client : req[q].op = "create_category" => req[q].c # c
    /\ Begin(p, "create_category",
             [op |-> "create_category", c |-> c,
              blocks |-> {b \in Block : Open(b) /\ BlockStyle[b] = CategoryStyle[c]}])

CreateCategoryCommit(p) ==
    /\ req[p].op = "create_category"
    /\ CreateCategoryEffect(req[p].c, req[p].blocks)
    /\ Done(p)

\* The members are read before the UPDATE that checks the category is alive.
DeleteCategoryMembers(p, c) ==
    Begin(p, "delete_category",
          [op |-> "delete_category", c |-> c, former |-> {t \in Track : In(c, t)}])

DeleteCategoryCommit(p) ==
    /\ req[p].op = "delete_category"
    /\ Alive(req[p].c)
    /\ DeleteCategoryEffect(req[p].c, req[p].former)
    /\ Done(p)

AddTrackCategory(p, c, t, src) ==
    /\ src \in Block => Created(src)
    /\ Alive(c)
    /\ Begin(p, "add_track", [op |-> "add_track", c |-> c, t |-> t, src |-> src])

AddTrackInsert(p) ==
    /\ req[p].op = "add_track"
    /\ AddTrackEffect(req[p].c, req[p].t, req[p].src)
    /\ Done(p)

RemoveTrackCategory(p, c, t) ==
    /\ Alive(c)
    /\ Begin(p, "remove_track", [op |-> "remove_track", c |-> c, t |-> t])

RemoveTrackDelete(p) ==
    /\ req[p].op = "remove_track"
    /\ In(req[p].c, req[p].t)
    /\ RemoveTrackEffect(req[p].c, req[p].t)
    /\ Done(p)

TagTaggable(p, t) ==
    /\ Taggable(t)
    /\ Begin(p, "tag", [op |-> "tag", t |-> t])

TagInsert(p) ==
    /\ req[p].op = "tag"
    /\ tagged' = tagged \cup {req[p].t}
    /\ UNCHANGED <<block, category, staging, held, members, flagged, toDiscard>>
    /\ Done(p)

-----------------------------------------------------------------------------
(* Requests that are one statement, and the analyzer's two transactions.   *)

Single(op, A) == op \in Ops /\ Quiet /\ A /\ UNCHANGED req

Unlocked ==
    \/ \E b \in Block : Single("delete_block", SoftDeleteBlock(b))
    \/ \E t \in Track : Single("tag", UntagTrack(t))
    \/ \E t \in Track : Single("flag", RecordFlag(t))
    \/ \E t \in Track : Single("flag", DiscardAiTracks(t))

CreatingBlock(p) ==
    \/ \E b \in Block, ai \in BOOLEAN : CreateBlockCategories(p, b, ai)
    \/ CreateBlockClassify(p)
    \/ CreateBlockCommit(p)

Moving(p) ==
    \/ \E b \in Block, from, to \in Bucket, ts \in (SUBSET Track) \ {{}} :
          MoveGuard(p, b, from, to, ts)
    \/ MovePresent(p)
    \/ MoveCommit(p)

Transferring(p) ==
    \/ \E s, d \in Block, to \in Bucket, ts \in (SUBSET Track) \ {{}} :
          TransferSource(p, s, d, to, ts)
    \/ TransferTarget(p)
    \/ TransferPresent(p)
    \/ TransferInsert(p)

Finalizing(p) ==
    \/ \E b \in Block : FinalizeStatus(p, b)
    \/ FinalizeInactive(p)
    \/ FinalizeStaging(p)
    \/ \E c \in Category : FinalizeBucket(p, c)
    \/ FinalizeCommit(p)

EditingCategories(p) ==
    \/ \E c \in Category : CreateCategoryBlocks(p, c)
    \/ CreateCategoryCommit(p)
    \/ \E c \in Category : DeleteCategoryMembers(p, c)
    \/ DeleteCategoryCommit(p)

EditingTracks(p) ==
    \/ \E c \in Category, t \in Track, src \in Source : AddTrackCategory(p, c, t, src)
    \/ AddTrackInsert(p)
    \/ \E c \in Category, t \in Track : RemoveTrackCategory(p, c, t)
    \/ RemoveTrackDelete(p)
    \/ \E t \in Track : TagTaggable(p, t)
    \/ TagInsert(p)

TxNext ==
    \/ Unlocked
    \/ \E p \in Client : \/ Fail(p)
                         \/ CreatingBlock(p)
                         \/ Moving(p)
                         \/ Transferring(p)
                         \/ Finalizing(p)
                         \/ EditingCategories(p)
                         \/ EditingTracks(p)

TxSpec == TxInit /\ [][TxNext]_vars

-----------------------------------------------------------------------------
(* Properties.                                                             *)

\* Requests that do not overlap behave like the one-step requests of Curation:
\* every commit is a step some guard of Curation allows in that very state.
Serializable == Spec

\* No promotion is ever half visible: a category row that names a source block was
\* written by the commit that finalized the block, for a category the block had a
\* bucket for, and the block still holds the track (for instances without
\* add_track, whose callers name any block they own).
PromotionTraceable ==
    \A c \in Category, t \in Track : members[c][t] \in Block =>
        LET b == members[c][t]
        IN  /\ block[b].status = "FINALIZED"
            /\ staging[b][c] # "none"
            /\ t \in HeldBy(b)

=============================================================================

--------------------------- MODULE Playlist_proofs ---------------------------
(***************************************************************************)
(* Theorems about Playlist and PlaylistPublish, for any number of tracks,  *)
(* clients, requests and failed calls: overlapping edits keep the order, a *)
(* publish is invisible to the list it publishes, a playlist keeps its     *)
(* copy at the vendor until the user deletes it, and a copy that differs   *)
(* from the list carries the badge.                                        *)
(***************************************************************************)
EXTENDS PlaylistPublish, SequenceTheorems, FiniteSetTheorems, WellFoundedInduction, TLAPS

USE DEF listVars, metaVars, publishVars

\* A request in progress is of one of three kinds.
LEMMA RequestKinds ==
    ASSUME NEW r \in Request
    PROVE  /\ r.op = "append" => r.ts \in Seq(Track) /\ r.n \in Nat
           /\ r.op = "remove" => r.t \in Track /\ r.n \in Nat
           /\ r.op = "reorder" => r.ts \in Seq(Track)
BY DEF Request, Idle

\* The positions each commit writes are naturals.
LEMMA ClosedType ==
    ASSUME TypeOK, NEW r \in SUBSET Track, NEW n \in Nat
    PROVE  Closed(r, n) \in [Track -> Nat]
BY DEF Closed, TypeOK

LEMMA PlaceInSeq ==
    ASSUME NEW ts \in Seq(Track), NEW t, \E i \in DOMAIN ts : ts[i] = t
    PROVE  (CHOOSE i \in DOMAIN ts : ts[i] = t) \in Nat \ {0}
<1>1. (CHOOSE i \in DOMAIN ts : ts[i] = t) \in DOMAIN ts
  OBVIOUS
<1>2. DOMAIN ts = 1..Len(ts) /\ Len(ts) \in Nat
  OBVIOUS
<1> QED
  BY <1>1, <1>2

LEMMA AppendedType ==
    ASSUME TypeOK, NEW ts \in Seq(Track), NEW n \in Nat
    PROVE  Appended(ts, n) \in [Track -> Nat]
<1> SUFFICES ASSUME NEW t \in Track PROVE Appended(ts, n)[t] \in Nat
  BY DEF Appended
<1>1. CASE t \in rows
  BY <1>1 DEF Appended, TypeOK
<1>2. CASE t \notin rows /\ \E i \in DOMAIN ts : ts[i] = t
  <2> DEFINE k == CHOOSE i \in DOMAIN ts : ts[i] = t
  <2>1. k \in Nat \ {0}
    BY <1>2, PlaceInSeq
  <2>2. Appended(ts, n)[t] = n + k - 1
    BY <1>2 DEF Appended
  <2> QED
    BY <2>1, <2>2
<1>3. CASE t \notin rows /\ ~(\E i \in DOMAIN ts : ts[i] = t)
  BY <1>3 DEF Appended
<1> QED
  BY <1>1, <1>2, <1>3

LEMMA ReorderedType ==
    ASSUME TypeOK, NEW ts \in Seq(Track)
    PROVE  Reordered(ts) \in [Track -> Nat]
<1> SUFFICES ASSUME NEW t \in Track PROVE Reordered(ts)[t] \in Nat
  BY DEF Reordered
<1>1. CASE t \notin rows
  BY <1>1 DEF Reordered
<1>2. CASE t \in rows /\ \E i \in DOMAIN ts : ts[i] = t
  <2> DEFINE k == CHOOSE i \in DOMAIN ts : ts[i] = t
  <2>1. k \in Nat \ {0}
    BY <1>2, PlaceInSeq
  <2>2. Reordered(ts)[t] = k - 1
    BY <1>2 DEF Reordered
  <2> QED
    BY <2>1, <2>2
<1>3. CASE t \in rows /\ ~(\E i \in DOMAIN ts : ts[i] = t)
  <2>1. Reordered(ts)[t] = pos[t] + Len(ts) + 1
    BY <1>3 DEF Reordered
  <2> QED
    BY <2>1 DEF TypeOK
<1> QED
  BY <1>1, <1>2, <1>3

-----------------------------------------------------------------------------
\* What one edit of one client does to the types.
LEMMA EditType ==
    ASSUME TypeOK, NEW p \in Client, Edit(p), PlaylistAssumption
    PROVE  TypeOK'
<1> USE DEF TypeOK, Begin, Commit, MarkDirty
<1>r. req[p] \in Request
  OBVIOUS
<1>1. CASE \E ts \in SeqOf(Track, 2) : IsInjective(ts) /\ AppendCheck(p, ts)
  <2>1. PICK ts \in SeqOf(Track, 2) : AppendCheck(p, ts)
    BY <1>1
  <2> DEFINE r == [op |-> "append", pc |-> "max", ts |-> ts, n |-> 0]
  <2>2. ts \in Seq(Track)
    <3>1. PICK m \in 0..2 : ts \in [1..m -> Track]
      BY <2>1 DEF SeqOf
    <3>2. m \in Nat
      OBVIOUS
    <3> QED
      BY <3>1, <3>2, SeqDef
  <2>4. r \in Request
    BY <2>2 DEF Request
  <2>5. req' = [req EXCEPT ![p] = r] /\ requests' = requests + 1 /\ requests < MaxRequests
    BY <2>1 DEF AppendCheck
  <2> HIDE DEF r
  <2>6. req' \in [Client -> Request]
    BY <2>4, <2>5
  <2> QED
    BY <2>1, <2>5, <2>6, PlaylistAssumption DEF AppendCheck, PlaylistAssumption
<1>2. CASE AppendMax(p)
  <2>1. PICK n \in {0} \cup {pos[t] + 1 : t \in rows} :
           req' = [req EXCEPT ![p] = [op |-> "append", pc |-> "insert",
                                      ts |-> req[p].ts, n |-> n]]
    BY <1>2 DEF AppendMax
  <2>2. n \in Nat
    BY <2>1
  <2>3. req[p].ts \in Seq(Track)
    BY <1>r, <1>2, RequestKinds DEF AppendMax
  <2> DEFINE r == [op |-> "append", pc |-> "insert", ts |-> req[p].ts, n |-> n]
  <2>4. r \in Request
    BY <2>2, <2>3 DEF Request
  <2> HIDE DEF r
  <2>5. req' \in [Client -> Request]
    BY <2>1, <2>4 DEF r
  <2> QED
    BY <1>2, <2>5 DEF AppendMax
<1>3. CASE AppendCommit(p)
  <2>1. req[p].ts \in Seq(Track) /\ req[p].n \in Nat
    BY <1>r, <1>3, RequestKinds DEF AppendCommit
  <2>2. pos' \in [Track -> Nat]
    BY <1>3, <2>1, AppendedType DEF AppendCommit
  <2>3. rows' \in SUBSET Track
    BY <1>3, <2>1 DEF AppendCommit
  <2>4. req' \in [Client -> Request]
    BY <1>3 DEF AppendCommit, Request
  <2> QED
    BY <1>3, <2>2, <2>3, <2>4 DEF AppendCommit
<1>4. CASE \E t \in Track : RemoveRead(p, t)
  <2>1. PICK t \in Track : RemoveRead(p, t)
    BY <1>4
  <2> DEFINE r == [op |-> "remove", t |-> t, n |-> pos[t]]
  <2>2. r \in Request
    BY DEF Request
  <2>3. req' = [req EXCEPT ![p] = r] /\ requests' = requests + 1 /\ requests < MaxRequests
    BY <2>1 DEF RemoveRead
  <2> HIDE DEF r
  <2>4. req' \in [Client -> Request]
    BY <2>2, <2>3
  <2> QED
    BY <2>1, <2>3, <2>4, PlaylistAssumption DEF RemoveRead, PlaylistAssumption
<1>5. CASE RemoveCommit(p)
  <2>1. req[p].n \in Nat
    BY <1>r, <1>5, RequestKinds DEF RemoveCommit
  <2>2. pos' \in [Track -> Nat]
    BY <1>5, <2>1, ClosedType DEF RemoveCommit
  <2>3. req' \in [Client -> Request]
    BY <1>5 DEF RemoveCommit, Request
  <2> QED
    BY <1>5, <2>2, <2>3 DEF RemoveCommit
<1>6. CASE \E ts \in SeqOf(Track, Cardinality(Track)) : IsInjective(ts) /\ ReorderCheck(p, ts)
  <2>1. PICK ts \in SeqOf(Track, Cardinality(Track)) : ReorderCheck(p, ts)
    BY <1>6
  <2> DEFINE r == [op |-> "reorder", ts |-> ts]
  <2>2. ts \in Seq(Track)
    <3>1. PICK m \in 0..Cardinality(Track) : ts \in [1..m -> Track]
      BY <2>1 DEF SeqOf
    <3>2. m \in Nat
      OBVIOUS
    <3> QED
      BY <3>1, <3>2, SeqDef
  <2>3. r \in Request
    BY <2>2 DEF Request
  <2>4. req' = [req EXCEPT ![p] = r] /\ requests' = requests + 1 /\ requests < MaxRequests
    BY <2>1 DEF ReorderCheck
  <2> HIDE DEF r
  <2>5. req' \in [Client -> Request]
    BY <2>3, <2>4
  <2> QED
    BY <2>1, <2>4, <2>5, PlaylistAssumption DEF ReorderCheck, PlaylistAssumption
<1>7. CASE ReorderCommit(p)
  <2>1. req[p].ts \in Seq(Track)
    BY <1>r, <1>7, RequestKinds DEF ReorderCommit
  <2>2. pos' \in [Track -> Nat]
    BY <1>7, <2>1, ReorderedType DEF ReorderCommit
  <2>3. req' \in [Client -> Request]
    BY <1>7 DEF ReorderCommit, Request
  <2> QED
    BY <1>7, <2>2, <2>3 DEF ReorderCommit
<1>8. CASE Abort(p)
  BY <1>8 DEF Abort, Request
<1> QED
  BY <1>1, <1>2, <1>3, <1>4, <1>5, <1>6, <1>7, <1>8 DEF Edit

\* Playlist keeps the types of its variables, for every value of the constants.
LEMMA TypeStep == TypeOK /\ [Next]_vars => TypeOK'
<1> SUFFICES ASSUME TypeOK, [Next]_vars PROVE TypeOK'
  OBVIOUS
<1>1. CASE \E p \in Client : Edit(p)
  BY <1>1, EditType, PlaylistAssumption
<1>2. CASE EditMeta
  <2>1. requests' \in 0..MaxRequests
    BY <1>2, PlaylistAssumption DEF TypeOK, EditMeta, Patch, SetCover, PlaylistAssumption
  <2>4. dirty' \in BOOLEAN
    BY <1>2 DEF TypeOK, EditMeta, Patch, SetCover, MarkSpotifyDirty
  <2>2. name' \in Name /\ cover' \in Cover \cup {NoCover}
    BY <1>2 DEF TypeOK, EditMeta, Patch, SetCover
  <2>3. UNCHANGED <<vendor, listVars, target, req>>
    BY <1>2 DEF EditMeta, Patch, SetCover
  <2> QED
    BY <2>1, <2>2, <2>3, <2>4 DEF TypeOK
<1>3. CASE \E id \in Target, failed \in BOOLEAN : SetPublishState(id, failed)
  BY <1>3 DEF TypeOK, SetPublishState
<1>4. CASE UNCHANGED vars
  BY <1>4 DEF TypeOK, vars
<1> QED
  BY <1>1, <1>2, <1>3, <1>4 DEF Next

LEMMA InitType == Init => TypeOK
<1> SUFFICES ASSUME Init PROVE TypeOK
  OBVIOUS
<1>1. pos \in [Track -> Nat]
  <2>1. 0..Cardinality(rows) \subseteq Nat
    OBVIOUS
  <2> QED
    BY <2>1 DEF Init
<1>2. req \in [Client -> Request]
  BY DEF Init, Request
<1>3. requests \in 0..MaxRequests
  BY PlaylistAssumption DEF Init, PlaylistAssumption
<1>6. dirty \in BOOLEAN
  BY DEF Init
<1>4. vendor \in {"spotify", "ytmusic"} /\ rows \in SUBSET Track /\ name \in Name
  BY DEF Init
<1>5. cover \in Cover \cup {NoCover} /\ target \in Target \cup {0}
  BY DEF Init
<1> QED
  BY <1>1, <1>2, <1>3, <1>4, <1>5, <1>6 DEF TypeOK

\* The playlist keeps its types: tracks of the library at positions from 0, and requests
\* in progress that hold what they have read.
THEOREM PlaylistTypeCorrect == Spec => []TypeOK
BY InitType, TypeStep, PTL DEF Spec

-----------------------------------------------------------------------------
OrderStep ==
    (\A p \in Client : req[p].op = "reorder" => req'[p] = req[p]) =>
        \A s, t \in rows \cap rows' : pos[s] < pos[t] => pos'[s] < pos'[t]

\* A remove that commits with a stale position may close the wrong gap, but where two
\* positions would meet the UNIQUE constraint refuses it.
LEMMA RemoveKeepsOrder ==
    ASSUME TypeOK, NEW p \in Client, RemoveCommit(p)
    PROVE  \A s, t \in rows \cap rows' : pos[s] < pos[t] => pos'[s] < pos'[t]
<1> DEFINE n == req[p].n
           left == rows \ {req[p].t}
<1>1. n \in Nat
  BY RequestKinds DEF RemoveCommit, TypeOK
<1>2. rows' = left /\ pos' = Closed(left, n) /\ Distinct(left, pos')
  BY DEF RemoveCommit, Commit
<1> HIDE DEF n
<1> SUFFICES ASSUME NEW s \in left, NEW t \in left, pos[s] < pos[t]
             PROVE  pos'[s] < pos'[t]
  BY <1>2
<1>3. pos[s] \in Nat /\ pos[t] \in Nat /\ s \in Track /\ t \in Track /\ s # t
  BY DEF TypeOK
<1>4. pos'[s] = (IF pos[s] > n THEN pos[s] - 1 ELSE pos[s])
  BY <1>2, <1>3 DEF Closed
<1>5. pos'[t] = (IF pos[t] > n THEN pos[t] - 1 ELSE pos[t])
  BY <1>2, <1>3 DEF Closed
<1>6. pos'[s] # pos'[t]
  BY <1>2, <1>3 DEF Distinct
<1> QED
  BY <1>1, <1>3, <1>4, <1>5, <1>6

LEMMA OrderNext == TypeOK /\ [Next]_vars => OrderStep
<1> SUFFICES ASSUME TypeOK, [Next]_vars,
                    \A p \in Client : req[p].op = "reorder" => req'[p] = req[p]
             PROVE  \A s, t \in rows \cap rows' : pos[s] < pos[t] => pos'[s] < pos'[t]
  BY DEF OrderStep
<1>1. CASE UNCHANGED listVars
  BY <1>1
<1>2. ASSUME NEW p \in Client, AppendCommit(p)
      PROVE  \A s, t \in rows \cap rows' : pos[s] < pos[t] => pos'[s] < pos'[t]
  BY <1>2 DEF AppendCommit, Commit, Appended, TypeOK
<1>3. ASSUME NEW p \in Client, RemoveCommit(p)
      PROVE  \A s, t \in rows \cap rows' : pos[s] < pos[t] => pos'[s] < pos'[t]
  BY <1>3, RemoveKeepsOrder
<1>4. ASSUME NEW p \in Client, ReorderCommit(p)
      PROVE  FALSE
  <2>1. req[p].op = "reorder" /\ req'[p] = Idle
    BY <1>4 DEF ReorderCommit, Commit, TypeOK
  <2> QED
    BY <2>1 DEF Idle
<1>5. ASSUME NEW p \in Client, Edit(p), ~AppendCommit(p), ~RemoveCommit(p), ~ReorderCommit(p)
      PROVE  UNCHANGED listVars
  BY <1>5 DEF Edit, AppendCheck, AppendMax, RemoveRead, ReorderCheck, Abort
<1>6. ASSUME EditMeta \/ \E id \in Target, failed \in BOOLEAN : SetPublishState(id, failed)
      PROVE  UNCHANGED listVars
  BY <1>6 DEF EditMeta, Patch, SetCover, SetPublishState
<1> QED
  BY <1>1, <1>2, <1>3, <1>4, <1>5, <1>6 DEF Next, vars

\* Overlapping appends and removes never swap two tracks of a playlist, for any number
\* of clients, tracks and requests.
THEOREM OrderAlwaysKept == Spec => OrderKept
<1>1. TypeOK /\ [Next]_vars => [OrderStep]_vars
  BY OrderNext
<1>2. [][OrderStep]_vars => OrderKept
  BY DEF OrderStep, OrderKept
<1> QED
  BY <1>1, <1>2, PlaylistTypeCorrect, PTL DEF Spec

-----------------------------------------------------------------------------
(* Publishing over the edits.                                              *)

\* What a publish in progress is, as far as the row it writes depends on it.
Works(j) ==
    j # Ready =>
        /\ j = [st |-> j.st, to |-> j.to, name |-> j.name, cover |-> j.cover, want |-> j.want,
                sent |-> j.sent, failed |-> j.failed, clean |-> j.clean]
        /\ j.failed \in BOOLEAN
        /\ j.to \in Target \cup {0}
        /\ j.st \in {"list", "send"} \/ j.to # 0

\* The copy a publish works on is the one the row names, or the row names none that is
\* left, unless another publish is on its way: what makes the write at the end safe.
CopyInv ==
    /\ Works(job) /\ Works(other)
    /\ job = Ready => other = Ready
    /\ other # Ready => overlap = "now"
    /\ job # Ready /\ overlap # "now" => target \in {0, job.to} \cup gone

Inv == TypeOK /\ CopyInv

LEMMA InitInv == PublishInit => Inv
BY InitType DEF PublishInit, Inv, CopyInv, Works

\* Every step of a publish is a step of the playlist, or none.
LEMMA StepRefines ==
    ASSUME Inv, [PublishNext]_pvars
    PROVE  [Next]_vars
<1>1. CASE Editing
  BY <1>1 DEF Editing, Next
<1>2. CASE PublishSave
  <2>1. job # Ready
    BY <1>2 DEF PublishSave, Ready
  <2>2. job.to \in Target /\ job.failed \in BOOLEAN
    BY <1>2, <2>1 DEF PublishSave, Inv, CopyInv, Works
  <2> QED
    BY <1>2, <2>2 DEF PublishSave, Next
<1>3. CASE Publishing /\ ~PublishSave
  BY <1>3 DEF Publishing, PublishRead, Switch, PublishList, UpdateCopy, CreateCopy,
     FillSpotify, RemoveItem, AddItem, MoveItem, StaleItem, Fill, EndFill, SendCover,
     CoverFails, PublishFails, Call, At
<1>4. CASE DeleteCopy \/ UNCHANGED pvars
  BY <1>4 DEF DeleteCopy, pvars
<1> QED
  BY <1>1, <1>2, <1>3, <1>4 DEF PublishNext

-----------------------------------------------------------------------------
\* A step that changes some fields of the job and leaves the other publish alone.
LEMMA JobStep ==
    ASSUME CopyInv, UNCHANGED <<target, meeting>>, gone \subseteq gone', job # Ready,
           NEW j, job' = j, j # Ready, Works(j),
           j.to = job.to \/ target \in {0} \cup gone
    PROVE  CopyInv'
<1>1. other' = other /\ overlap' = overlap /\ target' = target
  BY DEF meeting
<1>2. Works(job)' /\ Works(other)'
  BY <1>1 DEF CopyInv, Works
<1>3. overlap # "now" => target \in {0, j.to} \cup gone
  BY DEF CopyInv
<1> QED
  BY <1>1, <1>2, <1>3 DEF CopyInv

LEMMA CopyStep ==
    ASSUME Inv, [PublishNext]_pvars
    PROVE  CopyInv'
<1> USE DEF Inv, Ready
<1>0. job # Ready =>
         /\ job = [st |-> job.st, to |-> job.to, name |-> job.name, cover |-> job.cover,
                   want |-> job.want, sent |-> job.sent, failed |-> job.failed,
                   clean |-> job.clean]
         /\ job.failed \in BOOLEAN /\ job.to \in Target \cup {0}
         /\ job.st \in {"list", "send"} \/ job.to # 0
  BY DEF CopyInv, Works
<1>1. CASE Editing
  <2>1. UNCHANGED <<target, gone, meeting>>
    BY <1>1 DEF Editing, copyVars, Edit, EditMeta, AppendCheck, AppendMax, AppendCommit,
       RemoveRead, RemoveCommit, ReorderCheck, ReorderCommit, Abort, Commit, Patch,
       SetCover
  <2>2. CASE job' = job
    BY <2>1, <2>2 DEF CopyInv, Works, meeting
  <2>3. CASE job # Ready /\ job' = [job EXCEPT !.clean = FALSE]
    <3>1. PICK j : j = [job EXCEPT !.clean = FALSE]
      OBVIOUS
    <3>2. j # Ready /\ Works(j) /\ j.to = job.to
      BY <1>0, <2>3, <3>1 DEF Works
    <3> QED
      BY <2>1, <2>3, <3>1, <3>2, JobStep
  <2> QED
    BY <1>1, <2>2, <2>3 DEF Editing
<1>2. CASE PublishRead
  <2>1. PICK c : c = (job = Ready /\ (vendor = "spotify" \/ overlap = "none"))
    OBVIOUS
  <2>2. /\ job' = [st |-> "list", to |-> target, name |-> name, cover |-> cover,
                   want |-> <<>>, sent |-> 0, failed |-> FALSE, clean |-> c]
        /\ UNCHANGED <<target, gone>> /\ other = Ready
    BY <1>2, <2>1 DEF PublishRead, vars, copyVars
  <2>3. job'.to = target /\ job' # Ready /\ Works(job)'
    BY <2>2 DEF Works, TypeOK
  <2>4. CASE job = Ready /\ UNCHANGED meeting
    BY <2>2, <2>3, <2>4 DEF CopyInv, Works, meeting
  <2>5. CASE job # Ready /\ other' = [job EXCEPT !.clean = FALSE] /\ overlap' = "now"
    <3>1. Works(other)'
      BY <1>0, <2>5 DEF Works
    <3> QED
      BY <2>2, <2>3, <2>5, <3>1 DEF CopyInv
  <2> QED
    BY <1>2, <2>4, <2>5 DEF PublishRead
<1>3. CASE Switch
  BY <1>3 DEF Switch, CopyInv, Works, vars, copyVars
<1>4. CASE EndJob
  BY <1>4 DEF EndJob, CopyInv, Works
<1>5. CASE PublishList /\ ~EndJob
  <2>1. UNCHANGED <<target, gone, meeting>> /\ job.st = "list"
    BY <1>5 DEF PublishList, vars, copyVars
  <2>2. PICK w : job' = [job EXCEPT !.st = "send", !.want = w]
    BY <1>5 DEF PublishList
  <2>3. PICK j : j = [job EXCEPT !.st = "send", !.want = w]
    OBVIOUS
  <2>4. job # Ready
    BY <2>1
  <2>5. j # Ready /\ Works(j) /\ j.to = job.to
    BY <1>0, <2>3, <2>4 DEF Works
  <2> QED
    BY <2>1, <2>2, <2>3, <2>4, <2>5, JobStep
<1>6. CASE UpdateCopy
  <2>1. UNCHANGED <<target, gone, meeting>> /\ job # Ready /\ job.to # 0
    BY <1>6 DEF UpdateCopy, Call, At, vars, meeting
  <2>2. PICK j : j = [job EXCEPT !.st = "fill"]
    OBVIOUS
  <2>3. job' = j /\ j # Ready /\ Works(j) /\ j.to = job.to
    BY <1>0, <1>6, <2>1, <2>2 DEF Works, UpdateCopy
  <2> QED
    BY <2>1, <2>3, JobStep
<1>7. CASE CreateCopy
  <2>1. job # Ready /\ UNCHANGED <<target, gone, meeting>> /\ job.to \in gone \cup {0}
    BY <1>7 DEF CreateCopy, At, vars, meeting
  <2>2. PICK i \in Target : job' = [job EXCEPT !.st = "fill", !.to = i]
    BY <1>7 DEF CreateCopy
  <2>3. i # 0
    BY PlaylistAssumption DEF PlaylistAssumption
  <2>4. PICK j : j = [job EXCEPT !.st = "fill", !.to = i]
    OBVIOUS
  <2>5. j # Ready /\ Works(j)
    BY <1>0, <2>1, <2>3, <2>4 DEF Works
  <2>6. CASE overlap # "now"
    <3>1. target \in {0} \cup gone
      BY <2>1, <2>6 DEF CopyInv
    <3> QED
      BY <2>1, <2>2, <2>4, <2>5, <3>1, JobStep
  <2>7. CASE overlap = "now"
    BY <2>1, <2>2, <2>4, <2>5, <2>7 DEF CopyInv, Works, meeting
  <2> QED
    BY <2>6, <2>7
<1>8. CASE FillSpotify
  <2>1. UNCHANGED <<target, gone, meeting>> /\ job.st = "fill"
    BY <1>8 DEF FillSpotify, Call, At, vars, meeting
  <2>2. PICK j : j = job'
    OBVIOUS
  <2>3. CASE j = [job EXCEPT !.sent = @ + Batch]
    <3>1. j # Ready /\ Works(j) /\ j.to = job.to
      BY <1>0, <2>1, <2>3 DEF Works
    <3> QED
      BY <2>1, <2>2, <3>1, JobStep
  <2>4. CASE j = [job EXCEPT !.sent = @ + Batch, !.clean = FALSE]
    <3>1. j # Ready /\ Works(j) /\ j.to = job.to
      BY <1>0, <2>1, <2>4 DEF Works
    <3> QED
      BY <2>1, <2>2, <3>1, JobStep
  <2> QED
    BY <1>8, <2>2, <2>3, <2>4 DEF FillSpotify
<1>9. CASE RemoveItem \/ AddItem \/ MoveItem \/ StaleItem
  <2>1. UNCHANGED <<target, gone, job, meeting>>
    BY <1>9 DEF RemoveItem, AddItem, MoveItem, StaleItem, Fill, Call, At, vars, meeting
  <2> QED
    BY <2>1 DEF CopyInv, Works, meeting
<1>10. CASE EndFill
  <2>1. UNCHANGED <<target, gone, meeting>> /\ job.st = "fill" /\ job # Ready
    BY <1>10 DEF EndFill, At, vars, copyVars, meeting
  <2>2. PICK st \in {"save", "cover"} : job' = [job EXCEPT !.st = st]
    BY <1>10 DEF EndFill
  <2>3. PICK j : j = [job EXCEPT !.st = st]
    OBVIOUS
  <2>4. j # Ready /\ Works(j) /\ j.to = job.to
    BY <1>0, <2>1, <2>3, SMTT(30) DEF Works
  <2> QED
    BY <2>1, <2>2, <2>3, <2>4, JobStep
<1>11. CASE SendCover
  <2>1. UNCHANGED <<target, gone, meeting>> /\ job.st = "cover"
    BY <1>11 DEF SendCover, Call, At, vars, meeting
  <2>2. PICK j : j = [job EXCEPT !.st = "save"]
    OBVIOUS
  <2>3. job' = j /\ j # Ready /\ Works(j) /\ j.to = job.to
    BY <1>0, <1>11, <2>1, <2>2 DEF Works, SendCover
  <2> QED
    BY <2>1, <2>3, JobStep
<1>12. CASE CoverFails
  <2>1. UNCHANGED <<target, gone, meeting>> /\ job # Ready /\ job.st = "cover"
    BY <1>12 DEF CoverFails, At, vars, copyVars, meeting
  <2>2. PICK j : j = [job EXCEPT !.st = "save", !.failed = TRUE]
    OBVIOUS
  <2>3. job' = j
    BY <1>12, <2>2 DEF CoverFails
  <2>4. j = [st |-> "save", to |-> job.to, name |-> job.name, cover |-> job.cover,
             want |-> job.want, sent |-> job.sent, failed |-> TRUE, clean |-> job.clean]
    BY <1>0, <2>1, <2>2
  <2>5. j # Ready /\ j.to = job.to /\ Works(j)
    BY <1>0, <2>1, <2>4 DEF Works
  <2> QED
    BY <2>1, <2>3, <2>5, JobStep
<1>13. CASE PublishSave \/ PublishFails
  BY <1>4, <1>13 DEF PublishSave, PublishFails
<1>14. CASE DeleteCopy
  <2>1. UNCHANGED <<target, job, meeting>> /\ gone \subseteq gone'
    BY <1>14 DEF DeleteCopy, vars
  <2> QED
    BY <2>1 DEF CopyInv, Works, meeting
<1>15. CASE UNCHANGED pvars
  BY <1>15 DEF pvars, vars, copyVars, jobVars, CopyInv, Works
<1> QED
  BY <1>1, <1>2, <1>3, <1>4, <1>5, <1>6, <1>7, <1>8, <1>9, <1>10, <1>11, <1>12, <1>13, <1>14,
     <1>15 DEF PublishNext, Publishing

LEMMA InvAlways == PublishSpec => []Inv
<1>1. Inv /\ [PublishNext]_pvars => Inv'
  BY StepRefines, CopyStep, TypeStep DEF Inv
<1> QED
  BY <1>1, InitInv, PTL DEF PublishSpec

-----------------------------------------------------------------------------
\* Publishing implements the playlist: whatever the vendor answers, in any order with the
\* edits, the rows go through the steps of Playlist only.
THEOREM PublishImplementsPlaylist == PublishSpec => Spec
<1>1. PublishInit => Init
  BY DEF PublishInit
<1>2. Inv /\ [PublishNext]_pvars => [Next]_vars
  BY StepRefines
<1> QED
  BY <1>1, <1>2, InvAlways, PTL DEF PublishSpec, Spec

\* So overlapping edits keep the order of the tracks while a publish reads them.
THEOREM PublishKeepsOrder == PublishSpec => OrderKept
BY PublishImplementsPlaylist, OrderAlwaysKept

\* The row's playlist id changes only from none, from a copy that was deleted, or while
\* two publishes overlap.
THEOREM CopyAlwaysStable == PublishSpec => StableCopy
<1>1. Inv /\ [PublishNext]_pvars =>
        [target' # target /\ target # 0 => target \in gone \/ overlap = "now"]_pvars
  <2> SUFFICES ASSUME Inv, PublishNext, target' # target, target # 0
               PROVE  target \in gone \/ overlap = "now"
    OBVIOUS
  <2>1. PublishSave
    <3>1. ~Editing
      BY DEF Editing, Edit, EditMeta, AppendCheck, AppendMax, AppendCommit, RemoveRead,
         RemoveCommit, ReorderCheck, ReorderCommit, Abort, Commit, Patch, SetCover,
         publishVars
    <3>2. ~DeleteCopy
      BY DEF DeleteCopy, vars
    <3> QED
      BY <3>1, <3>2 DEF PublishNext, Publishing, PublishRead, Switch, PublishList,
         UpdateCopy, CreateCopy, FillSpotify, RemoveItem, AddItem, MoveItem, StaleItem, Fill,
         EndFill, SendCover, CoverFails, PublishFails, Call, At, vars
  <2>2. target' = job.to /\ job # Ready
    BY <2>1 DEF PublishSave, SetPublishState, Ready
  <2> QED
    BY <2>2 DEF Inv, CopyInv
<1> QED
  BY <1>1, InvAlways, PTL DEF PublishSpec, StableCopy

-----------------------------------------------------------------------------
(* Sequences without an item twice, and what the calls make of them.       *)

NoTwice(seq) == \A i, j \in DOMAIN seq : seq[i] = seq[j] => i = j

LEMMA LeastOf ==
    ASSUME NEW S \in SUBSET Nat, S # {}
    PROVE  Least(S) \in S /\ \A j \in S : Least(S) <= j
  <1>1. PICK d \in S : \A e \in S : ~(<<e, d>> \in OpToRel(<, Nat))
    BY NatLessThanWellFounded, WFMin, Zenon
  <1>2. \A e \in S : ~(e < d)
    BY <1>1 DEF OpToRel
  <1>3. \A e \in S : d <= e
    BY <1>2
  <1> QED BY <1>3 DEF Least

LEMMA MinOfTwo ==
    ASSUME NEW a \in Nat, NEW b \in Nat
    PROVE  Min({a, b}) = IF a <= b THEN a ELSE b
  BY DEF Min

LEMMA RemoveAtKeeps ==
    ASSUME NEW S, NEW seq \in Seq(S), NEW i \in 1..Len(seq)
    PROVE  /\ RemoveAt(seq, i) \in Seq(S) /\ Len(RemoveAt(seq, i)) = Len(seq) - 1
           /\ \A k \in 1..(Len(seq) - 1) :
                 RemoveAt(seq, i)[k] = IF k < i THEN seq[k] ELSE seq[k + 1]
  <1> PICK n \in Nat : n = Len(seq)
    BY LenProperties
  <1>1. /\ SubSeq(seq, 1, i - 1) \in Seq(S) /\ Len(SubSeq(seq, 1, i - 1)) = i - 1
        /\ \A k \in 1..(i - 1) : SubSeq(seq, 1, i - 1)[k] = seq[k]
    <2>1. \A k \in 1..(i - 1) : seq[k] \in S
      BY ElementOfSeq
    <2> QED BY <2>1, SubSeqProperties
  <1>2. /\ SubSeq(seq, i + 1, n) \in Seq(S) /\ Len(SubSeq(seq, i + 1, n)) = n - i
        /\ \A k \in 1..(n - i) : SubSeq(seq, i + 1, n)[k] = seq[i + k]
    <2>1. \A k \in (i + 1)..n : seq[k] \in S
      BY ElementOfSeq
    <2>2. /\ SubSeq(seq, i + 1, n) \in Seq(S)
          /\ Len(SubSeq(seq, i + 1, n)) = IF i + 1 <= n THEN n - (i + 1) + 1 ELSE 0
          /\ \A k \in 1..(n - (i + 1) + 1) : SubSeq(seq, i + 1, n)[k] = seq[(i + 1) + k - 1]
      BY <2>1, SubSeqProperties
    <2> QED BY <2>2
  <1>a. PICK a \in Seq(S) : /\ a = SubSeq(seq, 1, i - 1) /\ Len(a) = i - 1
                            /\ \A k \in 1..(i - 1) : a[k] = seq[k]
    BY <1>1
  <1>b. PICK b \in Seq(S) : /\ b = SubSeq(seq, i + 1, n) /\ Len(b) = n - i
                            /\ \A k \in 1..(n - i) : b[k] = seq[i + k]
    BY <1>2
  <1>c. /\ Len(a) = i - 1 /\ \A k \in 1..(i - 1) : a[k] = seq[k]
        /\ Len(b) = n - i /\ \A k \in 1..(n - i) : b[k] = seq[i + k]
    BY <1>a, <1>b
  <1>3. RemoveAt(seq, i) = a \o b
    BY <1>a, <1>b DEF RemoveAt
  <1>4. /\ a \o b \in Seq(S) /\ Len(a \o b) = (i - 1) + (n - i)
        /\ \A k \in 1..((i - 1) + (n - i)) :
              (a \o b)[k] = IF k <= i - 1 THEN a[k] ELSE b[k - (i - 1)]
    <2>1. Len(a) = i - 1 /\ Len(b) = n - i
      BY <1>c
    <2>2. /\ a \o b \in Seq(S) /\ Len(a \o b) = Len(a) + Len(b)
          /\ \A k \in 1..(Len(a) + Len(b)) :
                (a \o b)[k] = IF k <= Len(a) THEN a[k] ELSE b[k - Len(a)]
      BY ConcatProperties
    <2> QED BY <2>1, <2>2
  <1>5. ASSUME NEW k \in 1..(n - 1)
        PROVE  (a \o b)[k] = IF k < i THEN seq[k] ELSE seq[k + 1]
    <2>1. CASE k < i
      BY <1>c, <1>4, <2>1
    <2>2. CASE ~(k < i)
      <3>1. k - (i - 1) \in 1..(n - i)
        BY <2>2
      <3>2. b[k - (i - 1)] = seq[i + (k - (i - 1))]
        BY <1>c, <3>1
      <3> QED BY <1>4, <2>2, <3>2
    <2> QED BY <2>1, <2>2
  <1> QED BY <1>3, <1>4, <1>5

LEMMA InsertAtKeeps ==
    ASSUME NEW S, NEW seq \in Seq(S), NEW i \in 1..(Len(seq) + 1), NEW e \in S
    PROVE  /\ InsertAt(seq, i, e) \in Seq(S) /\ Len(InsertAt(seq, i, e)) = Len(seq) + 1
           /\ \A k \in 1..(Len(seq) + 1) :
                 InsertAt(seq, i, e)[k] =
                    IF k < i THEN seq[k] ELSE IF k = i THEN e ELSE seq[k - 1]
  <1> PICK n \in Nat : n = Len(seq)
    BY LenProperties
  <1>1. /\ SubSeq(seq, 1, i - 1) \in Seq(S) /\ Len(SubSeq(seq, 1, i - 1)) = i - 1
        /\ \A k \in 1..(i - 1) : SubSeq(seq, 1, i - 1)[k] = seq[k]
    <2>1. \A k \in 1..(i - 1) : seq[k] \in S
      BY ElementOfSeq
    <2> QED BY <2>1, SubSeqProperties
  <1>2. /\ SubSeq(seq, i, n) \in Seq(S) /\ Len(SubSeq(seq, i, n)) = n - i + 1
        /\ \A k \in 1..(n - i + 1) : SubSeq(seq, i, n)[k] = seq[i + k - 1]
    <2>1. \A k \in i..n : seq[k] \in S
      BY ElementOfSeq
    <2> QED BY <2>1, SubSeqProperties
  <1>a. PICK a \in Seq(S) : /\ a = SubSeq(seq, 1, i - 1) /\ Len(a) = i - 1
                            /\ \A k \in 1..(i - 1) : a[k] = seq[k]
    BY <1>1
  <1>b. PICK b \in Seq(S) : /\ b = SubSeq(seq, i, n) /\ Len(b) = n - i + 1
                            /\ \A k \in 1..(n - i + 1) : b[k] = seq[i + k - 1]
    BY <1>2
  <1>d. /\ Len(a) = i - 1 /\ \A k \in 1..(i - 1) : a[k] = seq[k]
        /\ Len(b) = n - i + 1 /\ \A k \in 1..(n - i + 1) : b[k] = seq[i + k - 1]
    BY <1>a, <1>b
  <1>e. PICK c : c = Append(a, e)
    OBVIOUS
  <1>3. InsertAt(seq, i, e) = c \o b
    <2>1. Append(a, e) = a \o <<e>>
      BY AppendIsConcat
    <2>2. InsertAt(seq, i, e) = a \o <<e>> \o b
      BY <1>a, <1>b DEF InsertAt
    <2> QED BY <1>e, <2>1, <2>2
  <1>5. /\ c \in Seq(S) /\ Len(c) = i
        /\ \A k \in 1..i : c[k] = IF k < i THEN seq[k] ELSE e
    <2>1. /\ c \in Seq(S) /\ Len(c) = (i - 1) + 1
          /\ c[(i - 1) + 1] = e /\ \A k \in 1..(i - 1) : c[k] = a[k]
      BY <1>d, <1>e, AppendProperties
    <2>2. c[i] = e /\ \A k \in 1..(i - 1) : c[k] = seq[k]
      BY <1>d, <2>1
    <2>3. \A k \in 1..i : k = i \/ k \in 1..(i - 1)
      OBVIOUS
    <2> QED BY <2>1, <2>2, <2>3
  <1>6. /\ c \o b \in Seq(S) /\ Len(c \o b) = i + (n - i + 1)
        /\ \A k \in 1..(i + (n - i + 1)) : (c \o b)[k] = IF k <= i THEN c[k] ELSE b[k - i]
    <2>1. c \in Seq(S) /\ Len(c) = i /\ Len(b) = n - i + 1
      BY <1>d, <1>5
    <2>2. /\ c \o b \in Seq(S) /\ Len(c \o b) = Len(c) + Len(b)
          /\ \A k \in 1..(Len(c) + Len(b)) :
                (c \o b)[k] = IF k <= Len(c) THEN c[k] ELSE b[k - Len(c)]
      BY <2>1, ConcatProperties
    <2> QED BY <2>1, <2>2
  <1>7. ASSUME NEW k \in 1..(n + 1)
        PROVE  (c \o b)[k] = IF k < i THEN seq[k] ELSE IF k = i THEN e ELSE seq[k - 1]
    <2>1. CASE k <= i
      BY <1>5, <1>6, <2>1
    <2>2. CASE ~(k <= i)
      <3>1. k - i \in 1..(n - i + 1)
        BY <2>2
      <3>2. b[k - i] = seq[i + (k - i) - 1]
        BY <1>d, <3>1
      <3> QED BY <1>6, <2>2, <3>2
    <2> QED BY <2>1, <2>2
  <1> QED BY <1>3, <1>6, <1>7

LEMMA RemoveTwiceless ==
    ASSUME NEW S, NEW seq \in Seq(S), NoTwice(seq), NEW i \in 1..Len(seq)
    PROVE  RemoveAt(seq, i) \in Seq(S) /\ NoTwice(RemoveAt(seq, i))
  <1> PICK n \in Nat : n = Len(seq)
    BY LenProperties
  <1> PICK r \in Seq(S) : r = RemoveAt(seq, i)
    BY RemoveAtKeeps
  <1>1. DOMAIN seq = 1..n /\ DOMAIN r = 1..(n - 1)
    BY RemoveAtKeeps, LenProperties
  <1>2. \A k \in 1..(n - 1) : r[k] = IF k < i THEN seq[k] ELSE seq[k + 1]
    BY RemoveAtKeeps
  <1>3. ASSUME NEW j \in 1..(n - 1), NEW k \in 1..(n - 1), r[j] = r[k], j < k PROVE FALSE
    <2>1. PICK x \in 1..n : x = (IF j < i THEN j ELSE j + 1) /\ r[j] = seq[x]
      BY <1>2
    <2>2. PICK y \in 1..n : y = (IF k < i THEN k ELSE k + 1) /\ r[k] = seq[y]
      BY <1>2
    <2>3. x # y
      BY <1>3, <2>1, <2>2
    <2> QED BY <1>1, <1>3, <2>1, <2>2, <2>3 DEF NoTwice
  <1> QED BY <1>1, <1>3 DEF NoTwice

LEMMA AppendTwiceless ==
    ASSUME NEW S, NEW seq \in Seq(S), NoTwice(seq), NEW e \in S, ~Contains(seq, e)
    PROVE  Append(seq, e) \in Seq(S) /\ NoTwice(Append(seq, e))
  <1> PICK n \in Nat : n = Len(seq)
    BY LenProperties
  <1> PICK r \in Seq(S) : r = Append(seq, e)
    BY AppendProperties
  <1>1. DOMAIN seq = 1..n /\ DOMAIN r = 1..(n + 1)
    BY AppendProperties, LenProperties
  <1>2. r[n + 1] = e /\ \A k \in 1..n : r[k] = seq[k] /\ seq[k] # e
    BY AppendProperties DEF Contains
  <1>3. ASSUME NEW j \in 1..(n + 1), NEW k \in 1..(n + 1), r[j] = r[k], j < k PROVE FALSE
    BY <1>1, <1>2, <1>3 DEF NoTwice
  <1> QED BY <1>1, <1>3 DEF NoTwice

\* The item moved, the first of its track, was at its slot or behind: those before are in
\* place.
LEMMA MovedTwiceless ==
    ASSUME NEW S, NEW seq \in Seq(S), NEW want \in Seq(S), NoTwice(want),
           Misplaced(seq, want) # {}, \A k \in DOMAIN want : Contains(seq, want[k])
    PROVE  Moved(seq, want) \in Seq(S) /\ (NoTwice(seq) => NoTwice(Moved(seq, want)))
  <1>0. PICK n \in Nat : n = Len(seq) /\ DOMAIN seq = 1..n
    BY LenProperties
  <1>1. DOMAIN want = 1..Len(want) /\ Len(want) \in Nat
    BY LenProperties
  <1>2. PICK slot : slot = Least(Misplaced(seq, want))
    OBVIOUS
  <1>3. /\ slot \in DOMAIN want /\ slot \in Nat \ {0} /\ slot \in Misplaced(seq, want)
        /\ \A k \in Misplaced(seq, want) : slot <= k
    <2>1. Misplaced(seq, want) \in SUBSET Nat
      BY <1>1 DEF Misplaced
    <2>2. slot \in Misplaced(seq, want) /\ \A k \in Misplaced(seq, want) : slot <= k
      BY <1>2, <2>1, LeastOf
    <2>3. slot \in DOMAIN want
      BY <2>2 DEF Misplaced
    <2> QED BY <1>1, <2>2, <2>3
  <1>4. \A k \in 1..(slot - 1) : k \in 1..n /\ seq[k] = want[k]
    <2>1. ASSUME NEW k \in 1..(slot - 1) PROVE k \in 1..n /\ seq[k] = want[k]
      <3>1. k \in DOMAIN want /\ k \notin Misplaced(seq, want)
        BY <1>1, <1>3
      <3> QED BY <1>0, <3>1 DEF Misplaced
    <2> QED BY <2>1
  <1>5. PICK from : from = Least({i \in DOMAIN seq : seq[i] = want[slot]})
    OBVIOUS
  <1>6. from \in 1..n /\ seq[from] = want[slot]
    <2>1. \E i \in DOMAIN seq : seq[i] = want[slot]
      BY <1>0, <1>3 DEF Contains
    <2> DEFINE Places == {i \in DOMAIN seq : seq[i] = want[slot]}
    <2>2. Places # {} /\ Places \in SUBSET Nat
      BY <1>0, <2>1
    <2>3. from \in Places
      BY <1>5, <2>2, LeastOf
    <2> QED BY <1>0, <2>3
  <1>7. slot <= from
    <2>1. ASSUME from < slot PROVE FALSE
      <3>1. from \in 1..(slot - 1) /\ from \in DOMAIN want
        BY <1>1, <1>3, <1>6, <2>1
      <3>2. want[from] = want[slot]
        BY <1>4, <1>6, <3>1
      <3> QED BY <1>3, <2>1, <3>1, <3>2 DEF NoTwice
    <2> QED BY <1>3, <1>6, <2>1
  <1>8. PICK r : r = RemoveAt(seq, from)
    OBVIOUS
  <1>9. /\ r \in Seq(S) /\ Len(r) = n - 1
        /\ \A k \in 1..(n - 1) : r[k] = IF k < from THEN seq[k] ELSE seq[k + 1]
    BY <1>0, <1>6, <1>8, RemoveAtKeeps
  <1>10. PICK m : m = InsertAt(r, slot, want[slot])
    OBVIOUS
  <1>11. /\ m \in Seq(S) /\ Len(m) = n
         /\ \A k \in 1..n :
               m[k] = IF k < slot THEN r[k] ELSE IF k = slot THEN want[slot] ELSE r[k - 1]
    <2>1. slot \in 1..(Len(r) + 1)
      BY <1>3, <1>6, <1>7, <1>9
    <2>2. PICK e \in S : e = want[slot]
      BY <1>1, <1>3, ElementOfSeq
    <2>3. m = InsertAt(r, slot, e)
      BY <1>10, <2>2
    <2>4. r \in Seq(S)
      BY <1>9
    <2>5. /\ m \in Seq(S) /\ Len(m) = Len(r) + 1
          /\ \A k \in 1..(Len(r) + 1) :
                m[k] = IF k < slot THEN r[k] ELSE IF k = slot THEN e ELSE r[k - 1]
      <3>1. /\ InsertAt(r, slot, e) \in Seq(S)
            /\ Len(InsertAt(r, slot, e)) = Len(r) + 1
            /\ \A k \in 1..(Len(r) + 1) :
                  InsertAt(r, slot, e)[k] =
                     IF k < slot THEN r[k] ELSE IF k = slot THEN e ELSE r[k - 1]
        BY <2>1, <2>4, InsertAtKeeps
      <3> QED BY <2>3, <3>1
    <2>6. Len(r) + 1 = n /\ n \in Nat
      BY <1>0, <1>9
    <2> QED BY <2>2, <2>5, <2>6
  <1>12. ASSUME NEW k \in 1..n
         PROVE  m[k] = seq[IF k < slot THEN k ELSE IF k = slot THEN from
                           ELSE IF k <= from THEN k - 1 ELSE k]
    <2>1. CASE k < slot
      <3>1. m[k] = r[k] /\ k \in 1..(n - 1) /\ k < from
        BY <1>3, <1>6, <1>7, <1>11, <2>1
      <3> QED BY <1>9, <2>1, <3>1
    <2>2. CASE k = slot
      BY <1>6, <1>11, <2>2
    <2>3. CASE k > slot /\ k <= from
      <3>1. m[k] = r[k - 1] /\ k - 1 \in 1..(n - 1) /\ k - 1 < from /\ ~(k < slot) /\ k # slot
        BY <1>3, <1>6, <1>11, <2>3
      <3> QED BY <1>9, <2>3, <3>1
    <2>4. CASE k > slot /\ k > from
      <3>1. m[k] = r[k - 1] /\ k - 1 \in 1..(n - 1) /\ ~(k - 1 < from)
        BY <1>3, <1>6, <1>11, <2>4
      <3>2. r[k - 1] = seq[k]
        BY <1>9, <3>1
      <3>3. ~(k < slot) /\ k # slot /\ ~(k <= from)
        BY <1>3, <1>6, <2>4
      <3> QED BY <3>1, <3>2, <3>3
    <2> QED BY <1>3, <1>6, <2>1, <2>2, <2>3, <2>4
  <1>13. ASSUME NoTwice(seq), NEW j \in 1..n, NEW k \in 1..n, m[j] = m[k], j < k PROVE FALSE
    <2>1. PICK x \in 1..n :
             /\ x = (IF j < slot THEN j ELSE IF j = slot THEN from
                     ELSE IF j <= from THEN j - 1 ELSE j)
             /\ m[j] = seq[x]
      BY <1>3, <1>6, <1>12, SMTT(30)
    <2>2. PICK y \in 1..n :
             /\ y = (IF k < slot THEN k ELSE IF k = slot THEN from
                     ELSE IF k <= from THEN k - 1 ELSE k)
             /\ m[k] = seq[y]
      BY <1>3, <1>6, <1>12, SMTT(30)
    <2>3. x # y
      BY <1>3, <1>6, <1>7, <1>13, <2>1, <2>2
    <2> QED BY <1>0, <1>13, <2>1, <2>2, <2>3 DEF NoTwice
  <1>14. Moved(seq, want) = m
    BY <1>2, <1>5, <1>8, <1>10 DEF Moved
  <1>15. DOMAIN m = 1..n
    BY <1>11, LenProperties
  <1> QED BY <1>11, <1>13, <1>14, <1>15 DEF NoTwice

\* With nothing stray and each slot filled as wanted, the copy is what is wanted.
LEMMA InPlaceIsAll ==
    ASSUME NEW S, NEW seq \in Seq(S), NEW want \in Seq(S), NoTwice(seq),
           Misplaced(seq, want) = {}, \A k \in DOMAIN seq : Contains(want, seq[k])
    PROVE  seq = want
  <1>0. PICK n \in Nat : n = Len(seq) /\ DOMAIN seq = 1..n
    BY LenProperties
  <1>1. PICK l \in Nat : l = Len(want) /\ DOMAIN want = 1..l
    BY LenProperties
  <1>2. \A i \in 1..l : i \in 1..n /\ seq[i] = want[i]
    BY <1>0, <1>1 DEF Misplaced
  <1>3. l <= n
    BY <1>2
  <1>4. ASSUME l < n PROVE FALSE
    <2>1. l + 1 \in 1..n
      BY <1>4
    <2>2. PICK i \in 1..l : want[i] = seq[l + 1]
      BY <1>0, <1>1, <2>1 DEF Contains
    <2>3. i \in 1..n /\ seq[i] = seq[l + 1]
      BY <1>2, <2>2
    <2> QED BY <1>0, <2>1, <2>2, <2>3 DEF NoTwice
  <1>5. l = n
    BY <1>3, <1>4
  <1> QED BY <1>0, <1>1, <1>2, <1>5, SeqEqual
-----------------------------------------------------------------------------
(* The tracks of the list in its order.                                    *)

\* A finite set of tracks at places of their own has a last one.
LEMMA LastOfList ==
    ASSUME TypeOK, NEW S \in SUBSET Track, S # {}, Distinct(S, pos)
    PROVE  \E m \in S : S = {s \in S : pos[s] < pos[m]} \cup {m}
  <1> DEFINE Below(m) == {s \in S : pos[s] < pos[m]}
             T == {Cardinality(S) - Cardinality(Below(m)) : m \in S}
  <1>1. IsFiniteSet(S) /\ Cardinality(S) \in Nat
    BY PlaylistAssumption, FS_Subset, FS_CardinalityType
  <1>2. \A m : /\ IsFiniteSet(Below(m)) /\ Cardinality(Below(m)) \in Nat
               /\ Cardinality(Below(m)) <= Cardinality(S)
    <2>1. \A m : Below(m) \subseteq S
      OBVIOUS
    <2> HIDE DEF Below
    <2> QED BY <1>1, <2>1, FS_Subset, FS_CardinalityType
  <1>3. T \in SUBSET Nat /\ T # {}
    <2> HIDE DEF Below
    <2>1. \A m \in S : Cardinality(S) - Cardinality(Below(m)) \in Nat
      BY <1>1, <1>2
    <2> QED BY <2>1
  <1>4. PICK d \in T : \A e \in T : d <= e
    BY <1>3, LeastOf
  <1>5. PICK m \in S : d = Cardinality(S) - Cardinality(Below(m))
    BY <1>4
  <1>6. ASSUME NEW s \in S PROVE Cardinality(Below(s)) <= Cardinality(Below(m))
    <2> HIDE DEF Below
    <2>1. Cardinality(S) - Cardinality(Below(s)) \in T
      OBVIOUS
    <2>2. d <= Cardinality(S) - Cardinality(Below(s))
      BY <1>4, <2>1
    <2> QED BY <1>1, <1>2, <1>5, <2>2
  <1>7. ASSUME NEW s \in S, pos[m] < pos[s] PROVE FALSE
    <2>1. /\ Below(m) \cup {m} \subseteq Below(s) /\ m \notin Below(m)
          /\ IsFiniteSet(Below(s)) /\ IsFiniteSet(Below(m))
      BY <1>2, <1>7 DEF TypeOK
    <2> HIDE DEF Below
    <2>2. Cardinality(Below(m) \cup {m}) = Cardinality(Below(m)) + 1
      BY <2>1, FS_AddElement
    <2>3. Cardinality(Below(m) \cup {m}) <= Cardinality(Below(s))
      BY <2>1, FS_Subset
    <2> QED BY <1>2, <1>6, <2>2, <2>3
  <1>8. \A s \in S : s = m \/ pos[s] < pos[m]
    BY <1>7 DEF TypeOK, Distinct
  <1> QED BY <1>8

LEMMA WantedListed ==
    ASSUME TypeOK, Distinct(rows, pos), NEW n \in Nat, n < Cardinality(Given)
    PROVE  \E t \in Given : Cardinality(Before(t)) = n
  <1>1. Given \in SUBSET Track /\ Distinct(Given, pos)
    BY PublishAssumption DEF Given, TypeOK, Distinct
  <1>2. IsFiniteSet(Given) /\ Cardinality(Given) \in Nat
    BY <1>1, PlaylistAssumption, FS_Subset, FS_CardinalityType
  <1>3. \A t : /\ Before(t) \subseteq Given /\ IsFiniteSet(Before(t))
               /\ Cardinality(Before(t)) \in Nat
    <2>1. \A t : Before(t) \subseteq Given
      BY DEF Before
    <2> QED BY <1>2, <2>1, FS_Subset, FS_CardinalityType
  <1> DEFINE T == {Cardinality(Before(t)) : t \in {u \in Given : n <= Cardinality(Before(u))}}
  <1>4. T # {}
    <2>1. Given # {}
      BY FS_EmptySet
    <2>2. PICK m \in Given : Given = {s \in Given : pos[s] < pos[m]} \cup {m}
      BY <1>1, <2>1, LastOfList
    <2>3. Given = Before(m) \cup {m} /\ m \notin Before(m)
      BY <1>1, <2>2 DEF Before, TypeOK
    <2>4. Cardinality(Given) = Cardinality(Before(m)) + 1
      BY <1>3, <2>3, FS_AddElement
    <2>5. n <= Cardinality(Before(m))
      BY <1>3, <2>4
    <2> QED BY <2>5
  <1>5. T \in SUBSET Nat
    BY <1>3
  <1>6. PICK c \in T : \A e \in T : c <= e
    BY <1>4, <1>5, LeastOf
  <1>7. PICK t \in Given : c = Cardinality(Before(t)) /\ n <= c
    BY <1>6
  <1>8. ASSUME n < c PROVE FALSE
    <2>1. Before(t) # {} /\ Before(t) \in SUBSET Track /\ Distinct(Before(t), pos)
      BY <1>1, <1>3, <1>7, <1>8, FS_EmptySet DEF Distinct
    <2>2. PICK m \in Before(t) : Before(t) = {s \in Before(t) : pos[s] < pos[m]} \cup {m}
      BY <2>1, LastOfList
    <2>3. m \in Given /\ Before(t) = Before(m) \cup {m} /\ m \notin Before(m)
      BY <1>1, <2>2 DEF Before, TypeOK
    <2>4. Cardinality(Before(t)) = Cardinality(Before(m)) + 1
      BY <1>3, <2>3, FS_AddElement
    <2>5. n <= Cardinality(Before(m)) /\ Cardinality(Before(m)) < c
      BY <1>3, <1>7, <1>8, <2>4
    <2>6. Cardinality(Before(m)) \in T
      BY <2>3, <2>5
    <2>7. c <= Cardinality(Before(m))
      BY <1>6, <2>6
    <2> QED BY <1>3, <1>5, <2>5, <2>7
  <1> QED BY <1>3, <1>7, <1>8

LEMMA WantedOnce ==
    ASSUME TypeOK, Distinct(rows, pos)
    PROVE  Wanted \in Seq(Playable) /\ NoTwice(Wanted)
  <1> PICK n : n = Cardinality(Given)
    OBVIOUS
  <1>1. n \in Nat
    <2>1. Given \subseteq Track
      BY DEF Given, TypeOK
    <2> QED BY <2>1, PlaylistAssumption, FS_Subset, FS_CardinalityType
  <1>2. ASSUME NEW i \in 1..n
        PROVE  Wanted[i] \in Given /\ Cardinality(Before(Wanted[i])) = i - 1
    <2>1. \E t \in Given : Cardinality(Before(t)) = i - 1
      BY <1>1, WantedListed
    <2>2. Wanted[i] = CHOOSE t \in Given : Cardinality(Before(t)) = i - 1
      BY DEF Wanted
    <2> QED BY <2>1, <2>2
  <1>3. DOMAIN Wanted = 1..n /\ Wanted = [i \in 1..n |-> Wanted[i]]
    BY DEF Wanted
  <1>4. Wanted \in Seq(Playable)
    <2>1. \A i \in 1..n : Wanted[i] \in Playable
      BY <1>2 DEF Given
    <2>2. Wanted \in [1..n -> Playable]
      BY <1>3, <2>1, Zenon
    <2> QED BY <1>1, <2>2, SeqDef
  <1>5. NoTwice(Wanted)
    BY <1>1, <1>2, <1>3 DEF NoTwice
  <1> QED BY <1>4, <1>5
-----------------------------------------------------------------------------
(* Why a copy without a badge shows the playlist: while no edit overlaps    *)
(* it, a publish works with the list and the names of the row, and has sent *)
(* of them what its stage says.                                             *)

Copy == [name : Name, cover : Cover \cup {NoCover}, tracks : Seq(Playable)]

Late == {"fill", "cover", "save"}

Shows(copy) ==
    /\ copy.tracks = Wanted
    /\ vendor = "spotify" => copy.name = name /\ cover \in {NoCover, copy.cover}

PlanFor(j) ==
    /\ j.st \notin Late => j.sent = 0
    /\ j.st # "list" => j.want # <<>> /\ NoTwice(j.want)
    /\ j.clean => /\ j.name = name /\ j.cover = cover
                  /\ j.st # "list" => j.want = Wanted

SentFor(j, copy) ==
    j.clean =>
        /\ vendor = "spotify" => copy.name = j.name
        /\ vendor = "spotify" /\ j.st = "fill" /\ j.sent > 0 =>
             copy.tracks = SubSeq(j.want, 1, Min({j.sent, Len(j.want)}))
        /\ j.st \in {"cover", "save"} => copy.tracks = j.want
        /\ j.st = "save" /\ ~j.failed => j.cover \in {NoCover, copy.cover}

\* Two publishes on their way have spoilt each other; on YouTube Music no later one is
\* trusted either.
Apart ==
    /\ job = Ready => other = Ready /\ overlap # "now"
    /\ other # Ready => /\ overlap = "now" /\ ~other.clean
                        /\ other.to <= Len(remote) /\ PlanFor(other)
                        /\ other.st \in Late => other.to # 0
    /\ job # Ready /\ job.clean =>
         overlap = "none" \/ (overlap = "past" /\ vendor = "spotify")

\* No publish on its way has called the vendor yet.
Quiet ==
    /\ job = Ready \/ job.st \notin Late
    /\ other = Ready \/ other.st \notin Late

\* Once a publish calls the vendor the badge says nothing until it ends.
Badged ==
    Quiet /\ ~doubt /\ ~dirty /\ target # 0 /\ target \notin gone => Shows(remote[target])

\* Only publishes that overlap put a track into YouTube Music's copy twice.
Twiceless ==
    vendor = "ytmusic" /\ overlap = "none" => \A i \in DOMAIN remote : NoTwice(remote[i].tracks)

DriftInv ==
    /\ PublishTypeOK /\ Distinct(rows, pos) /\ target <= Len(remote)
    /\ Twiceless
    /\ job # Ready => job.to <= Len(remote) /\ PlanFor(job)
    /\ job # Ready /\ job.st \in Late => job.to # 0 /\ SentFor(job, remote[job.to])
    /\ Apart
    /\ Badged

LEMMA DriftInit == PublishInit => DriftInv
  <1> SUFFICES ASSUME PublishInit PROVE DriftInv
    OBVIOUS
  <1>1. TypeOK /\ Distinct(rows, pos)
    BY InitType DEF PublishInit, Init
  <1>2. Wanted \in Seq(Playable) /\ NoTwice(Wanted)
    BY <1>1, WantedOnce
  <1>3. [name |-> name, cover |-> cover, tracks |-> Wanted] \in Copy
    BY <1>1, <1>2 DEF Copy, TypeOK
  <1>4. /\ target \in {0, 1}
        /\ remote = [i \in 1..target |-> [name |-> name, cover |-> cover, tracks |-> Wanted]]
    BY DEF PublishInit
  <1>5. /\ remote \in Seq(Copy) /\ Len(remote) = target /\ DOMAIN remote = 1..target
        /\ \A i \in 1..target : remote[i] = [name |-> name, cover |-> cover, tracks |-> Wanted]
    <2>1. \A i \in 1..target : remote[i] = [name |-> name, cover |-> cover, tracks |-> Wanted]
      BY <1>4
    <2>2. remote \in [1..target -> Copy] /\ target \in Nat
      BY <1>3, <1>4
    <2>3. remote \in Seq(Copy) /\ DOMAIN remote = 1..target
      BY <2>2, SeqDef
    <2>4. Len(remote) = target
      BY <2>2, <2>3, LenProperties
    <2> QED BY <2>1, <2>3, <2>4
  <1>6. PublishTypeOK
    <2>1. /\ job \in Job /\ other \in Job /\ overlap \in {"none", "now", "past"}
          /\ gone \in SUBSET DOMAIN remote
      BY DEF PublishInit, Job
    <2>2. doubt \in BOOLEAN
      BY DEF PublishInit
    <2>3. troubles \in 0..MaxTrouble
      BY PublishAssumption DEF PublishInit
    <2> QED BY <1>1, <1>5, <2>1, <2>2, <2>3, Zenon DEF PublishTypeOK, Copy
  <1>7. Badged
    BY <1>4, <1>5 DEF Badged, Shows
  <1>8. Twiceless
    BY <1>2, <1>5 DEF Twiceless
  <1>9. job = Ready /\ Apart
    BY DEF PublishInit, Apart
  <1> QED BY <1>1, <1>4, <1>5, <1>6, <1>7, <1>8, <1>9 DEF DriftInv

LEMMA InWork ==
    ASSUME PublishTypeOK, job # Ready
    PROVE  /\ job \in Job /\ job.st \in {"list", "send", "fill", "cover", "save"}
           /\ job.to \in Target \cup {0} /\ job.to \in Nat /\ job.name \in Name /\ job.cover \in Cover \cup {NoCover}
           /\ job.want \in Seq(Playable) /\ job.sent \in Nat
           /\ job.failed \in BOOLEAN /\ job.clean \in BOOLEAN
  <1> DEFINE Work == [st : {"list", "send", "fill", "cover", "save"}, to : Target \cup {0},
                     name : Name, cover : Cover \cup {NoCover}, want : Seq(Playable),
                     sent : Nat, failed : BOOLEAN, clean : BOOLEAN]
  <1>1. job \in Job /\ job \in Work
    BY DEF PublishTypeOK, Job
  <1>2. Target \cup {0} \subseteq Nat
    BY PlaylistAssumption
  <1>3. job.failed \in BOOLEAN /\ job.clean \in BOOLEAN
    BY <1>1, Zenon
  <1>4. /\ job.st \in {"list", "send", "fill", "cover", "save"}
        /\ job.to \in Target \cup {0} /\ job.name \in Name /\ job.cover \in Cover \cup {NoCover}
        /\ job.want \in Seq(Playable) /\ job.sent \in Nat
    BY <1>1
  <1> QED BY <1>1, <1>2, <1>3, <1>4

\* What the step of one publish leaves of the other.
LEMMA ApartKept ==
    ASSUME DriftInv, UNCHANGED <<vendor, meeting>>, job # Ready, job' # Ready,
           job'.clean => job.clean, Len(remote) \in Nat, Len(remote') \in Nat,
           Len(remote) <= Len(remote')
    PROVE  /\ Apart' /\ other' \in Job /\ overlap' \in {"none", "now", "past"}
           /\ overlap' = overlap
           /\ Quiet' => (other = Ready \/ other.st \notin Late)
  <1>1. other' = other /\ overlap' = overlap /\ vendor' = vendor
    BY DEF meeting
  <1>2. other \in Job /\ overlap \in {"none", "now", "past"}
    BY DEF DriftInv, PublishTypeOK
  <1>3. ASSUME other # Ready
        PROVE  /\ overlap = "now" /\ ~other.clean /\ PlanFor(other)' /\ other.to <= Len(remote')
               /\ other.st \in Late => other.to # 0
    <2>1. /\ overlap = "now" /\ ~other.clean /\ PlanFor(other) /\ other.to <= Len(remote)
          /\ other.st \in Late => other.to # 0
      BY <1>3 DEF DriftInv, Apart
    <2>2. other.to \in Nat
      <3>1. other.to \in Target \cup {0}
        BY <1>2, <1>3 DEF Job
      <3>2. Target \cup {0} \subseteq Nat
        BY PlaylistAssumption
      <3> QED BY <3>1, <3>2
    <2>3. other.to <= Len(remote')
      BY <2>1, <2>2
    <2>4. PlanFor(other)'
      BY <1>1, <2>1 DEF PlanFor
    <2> QED BY <2>1, <2>3, <2>4
  <1>4. job'.clean => overlap = "none" \/ (overlap = "past" /\ vendor = "spotify")
    BY DEF DriftInv, Apart
  <1>5. Apart'
    BY <1>1, <1>3, <1>4 DEF Apart
  <1> QED BY <1>1, <1>2, <1>5 DEF Quiet

\* A step of a publish that leaves the row alone and goes on.
LEMMA PublishMoves ==
    ASSUME DriftInv, UNCHANGED <<vars, doubt, gone>>, NEW j \in Job, job' = j, j # Ready,
           remote' \in Seq(Copy), Len(remote) <= Len(remote'), troubles' \in 0..MaxTrouble,
           Twiceless', other' \in Job, overlap' \in {"none", "now", "past"}, Apart',
           j.to <= Len(remote'), PlanFor(j),
           j.st \in Late => j.to # 0 /\ SentFor(j, remote'[j.to]),
           Quiet' => UNCHANGED remote /\ Quiet
    PROVE  DriftInv'
  <1>1. UNCHANGED <<vendor, rows, pos, name, cover, target, dirty>>
    BY DEF vars
  <1>2. Wanted' = Wanted
    BY <1>1 DEF Wanted, Given, Before
  <1>3. PublishTypeOK'
    <2>1. gone' \in SUBSET DOMAIN remote'
      <3>1. DOMAIN remote = 1..Len(remote) /\ DOMAIN remote' = 1..Len(remote')
            /\ Len(remote) \in Nat /\ Len(remote') \in Nat
        BY LenProperties DEF DriftInv, PublishTypeOK, Copy
      <3> QED BY <3>1 DEF DriftInv, PublishTypeOK
    <2>2. TypeOK'
      BY DEF DriftInv, PublishTypeOK, TypeOK, vars
    <2>3. doubt' \in BOOLEAN
      BY DEF DriftInv, PublishTypeOK
    <2> QED BY <2>1, <2>2, <2>3 DEF PublishTypeOK, Copy
  <1>4. PlanFor(job)'
    BY <1>1, <1>2 DEF PlanFor
  <1>5. job'.st \in Late => SentFor(job, remote[job.to])'
    BY <1>1 DEF SentFor
  <1>6. Badged'
    BY <1>1, <1>2 DEF Badged, Shows, DriftInv
  <1>7. target' <= Len(remote') /\ Distinct(rows, pos)'
    <2>1. target <= Len(remote) /\ Len(remote) \in Nat /\ Len(remote') \in Nat /\ target \in Nat
      BY LenProperties, PlaylistAssumption DEF DriftInv, PublishTypeOK, Copy, TypeOK
    <2> QED BY <1>1, <2>1 DEF DriftInv, Distinct
  <1> QED BY <1>1, <1>3, <1>4, <1>5, <1>6, <1>7 DEF DriftInv

\* An edit badges the copy it departs from, and spoils a publish that has read the row.
LEMMA EditingFacts ==
    ASSUME DriftInv, Editing
    PROVE  /\ UNCHANGED <<vendor, target, remote, gone, meeting, doubt, troubles>>
           /\ Distinct(rows, pos)'
           /\ dirty => dirty'
           /\ target # 0 => dirty' \/ UNCHANGED <<rows, pos>>
           /\ target # 0 /\ vendor = "spotify" => dirty' \/ UNCHANGED <<name, cover>>
           /\ job' = job \/ (job # Ready /\ job' = [job EXCEPT !.clean = FALSE])
           /\ job # Ready /\ job'.clean => UNCHANGED <<rows, pos, name, cover>>
  <1>1. UNCHANGED <<vendor, target, remote, gone, meeting, doubt, troubles>>
    BY DEF Editing, copyVars, Edit, EditMeta, AppendCheck, AppendMax, AppendCommit,
       RemoveRead, RemoveCommit, ReorderCheck, ReorderCommit, Abort, Commit, Patch, SetCover
  <1>2. \/ /\ UNCHANGED <<rows, pos, name, cover>> /\ dirty' = dirty
        \/ /\ Distinct(rows', pos') /\ MarkDirty /\ UNCHANGED <<name, cover>>
        \/ /\ UNCHANGED <<rows, pos>> /\ MarkSpotifyDirty
    BY DEF Editing, Edit, EditMeta, AppendCheck, AppendMax, AppendCommit, RemoveRead,
       RemoveCommit, ReorderCheck, ReorderCommit, Abort, Commit, Patch, SetCover
  <1>3. Distinct(rows, pos)'
    BY <1>2 DEF DriftInv, Distinct
  <1>4. /\ dirty => dirty'
        /\ target # 0 => dirty' \/ UNCHANGED <<rows, pos>>
        /\ target # 0 /\ vendor = "spotify" => dirty' \/ UNCHANGED <<name, cover>>
    <2>1. CASE UNCHANGED <<rows, pos, name, cover>> /\ dirty' = dirty
      BY <2>1
    <2>2. CASE MarkDirty /\ UNCHANGED <<name, cover>>
      BY <2>2, Zenon DEF MarkDirty
    <2>3. CASE UNCHANGED <<rows, pos>> /\ MarkSpotifyDirty
      BY <2>3, Zenon DEF MarkSpotifyDirty
    <2> QED BY <1>2, <2>1, <2>2, <2>3
  <1>5. \/ job' = job /\ (job = Ready \/ UNCHANGED <<rows, pos, name, cover>>)
        \/ job # Ready /\ job' = [job EXCEPT !.clean = FALSE]
    BY DEF Editing
  <1>6. ASSUME job # Ready, job' = [job EXCEPT !.clean = FALSE] PROVE job'.clean = FALSE
    BY <1>6, InWork DEF DriftInv, Job, Ready
  <1> QED BY <1>1, <1>3, <1>4, <1>5, <1>6

\* The job with its fields spelled out, as the steps change them.
LEMMA JobFields ==
    ASSUME PublishTypeOK, job # Ready
    PROVE  job = [st |-> job.st, to |-> job.to, name |-> job.name, cover |-> job.cover,
                  want |-> job.want, sent |-> job.sent, failed |-> job.failed,
                  clean |-> job.clean]
  BY DEF PublishTypeOK, Job

\* A job in progress is what it was but for the fields a step sets.
LEMMA JobSet ==
    ASSUME PublishTypeOK, job # Ready,
           NEW st \in {"list", "send", "fill", "cover", "save"}, NEW to \in Target \cup {0},
           NEW want \in Seq(Playable), NEW sent \in Nat, NEW failed \in BOOLEAN,
           NEW clean \in BOOLEAN,
           NEW j, j = [st |-> st, to |-> to, name |-> job.name, cover |-> job.cover,
                       want |-> want, sent |-> sent, failed |-> failed, clean |-> clean]
    PROVE  /\ j \in Job /\ j # Ready
           /\ j.st = st /\ j.to = to /\ j.name = job.name /\ j.cover = job.cover
           /\ j.want = want /\ j.sent = sent /\ j.failed = failed /\ j.clean = clean
  <1>1. job.name \in Name /\ job.cover \in Cover \cup {NoCover}
    BY InWork
  <1>2. j \in Job
    BY <1>1 DEF Job
  <1>3. j # Ready
    BY DEF Ready
  <1> QED BY <1>2, <1>3

LEMMA FunctionIsSeq ==
    ASSUME NEW S, NEW n \in Nat, NEW f \in [1..n -> S]
    PROVE  f \in Seq(S) /\ DOMAIN f = 1..n
  <1>1. f \in Seq(S)
    BY SeqDef
  <1> QED BY <1>1

\* A call to the copy of the job leaves the other copies alone.
LEMMA CallMoves ==
    ASSUME DriftInv, UNCHANGED <<vars, doubt, gone, meeting>>, job # Ready, job.to # 0,
           NEW c \in Copy, vendor = "ytmusic" /\ overlap = "none" => NoTwice(c.tracks),
           remote' = [remote EXCEPT ![job.to] = c], troubles' \in 0..MaxTrouble,
           NEW j \in Job, job' = j, j # Ready, j.to = job.to, j.st \in Late,
           j.clean => job.clean, PlanFor(j), SentFor(j, c)
    PROVE  DriftInv'
  <1>1. PICK n \in Nat : n = Len(remote) /\ DOMAIN remote = 1..n
    BY LenProperties DEF DriftInv, PublishTypeOK
  <1>2. remote \in Seq(Copy) /\ remote \in [1..n -> Copy]
    BY <1>1, LenProperties DEF DriftInv, PublishTypeOK, Copy
  <1>3. job.to \in 1..n
    BY <1>1, InWork DEF DriftInv
  <1>4. remote' \in [1..n -> Copy] /\ remote'[job.to] = c
    BY <1>2, <1>3
  <1>5. remote' \in Seq(Copy) /\ DOMAIN remote' = 1..n
    BY <1>4, FunctionIsSeq
  <1>6. Len(remote') = n
    BY <1>1, <1>5, LenProperties
  <1>7. UNCHANGED <<vendor, meeting>>
    BY DEF vars
  <1>8. /\ Apart' /\ other' \in Job /\ overlap' \in {"none", "now", "past"}
        /\ overlap' = overlap
    BY <1>1, <1>6, <1>7, ApartKept
  <1>9. Twiceless'
    <2> SUFFICES ASSUME vendor = "ytmusic", overlap = "none", NEW i \in 1..n
                 PROVE  NoTwice(remote'[i].tracks)
      BY <1>5, <1>7, <1>8 DEF Twiceless
    <2>1. CASE i = job.to
      BY <1>4, <2>1
    <2>2. CASE i # job.to
      <3>1. remote'[i] = remote[i] /\ NoTwice(remote[i].tracks)
        BY <1>1, <1>2, <2>2 DEF DriftInv, Twiceless
      <3> QED BY <3>1
    <2> QED BY <2>1, <2>2
  <1>10. Len(remote) <= Len(remote') /\ j.to <= Len(remote')
    BY <1>1, <1>3, <1>6
  <1>11. j.to # 0 /\ SentFor(j, remote'[j.to])
    BY <1>4
  <1>12. ~Quiet'
    BY DEF Quiet
  <1> QED BY <1>5, <1>8, <1>9, <1>10, <1>11, <1>12, PublishMoves

\* The copy a call changes.
LEMMA CopyKnown ==
    ASSUME DriftInv, job # Ready, job.to # 0
    PROVE  /\ job.to \in DOMAIN remote /\ remote[job.to] \in Copy
           /\ remote[job.to].name \in Name /\ remote[job.to].cover \in Cover \cup {NoCover}
           /\ remote[job.to].tracks \in Seq(Playable)
  <1>1. remote \in Seq(Copy)
    BY DEF DriftInv, PublishTypeOK, Copy
  <1>2. DOMAIN remote = 1..Len(remote) /\ Len(remote) \in Nat
    BY <1>1, LenProperties
  <1>3. job.to \in 1..Len(remote)
    BY <1>2, InWork DEF DriftInv
  <1>4. remote[job.to] \in Copy
    BY <1>1, <1>3, ElementOfSeq
  <1> QED BY <1>2, <1>3, <1>4 DEF Copy

LEMMA NoTrouble == DriftInv /\ (Trouble \/ UNCHANGED troubles) => troubles' \in 0..MaxTrouble
  <1>1. ASSUME DriftInv, Trouble PROVE troubles' \in 0..MaxTrouble
    BY <1>1, PublishAssumption DEF DriftInv, PublishTypeOK, Trouble
  <1>2. ASSUME DriftInv, UNCHANGED troubles PROVE troubles' \in 0..MaxTrouble
    BY <1>2 DEF DriftInv, PublishTypeOK
  <1> QED BY <1>1, <1>2

-----------------------------------------------------------------------------
(* One lemma per step of the publish.                                      *)

LEMMA ReadDrift == DriftInv /\ PublishRead => DriftInv'
  <1> SUFFICES ASSUME DriftInv, PublishRead PROVE DriftInv'
    OBVIOUS
  <1>0. PICK clean \in BOOLEAN : clean = (job = Ready /\ (vendor = "spotify" \/ overlap = "none"))
    OBVIOUS
  <1>1. PICK j : j = [st |-> "list", to |-> target, name |-> name, cover |-> cover,
                      want |-> <<>>, sent |-> 0, failed |-> FALSE, clean |-> clean]
    OBVIOUS
  <1>2. job' = j /\ other = Ready /\ UNCHANGED <<vars, remote, gone, doubt>>
    BY <1>0, <1>1 DEF PublishRead, copyVars
  <1>3. /\ target \in Target \cup {0} /\ name \in Name /\ cover \in Cover \cup {NoCover}
        /\ target <= Len(remote) /\ remote \in Seq(Copy) /\ Len(remote) \in Nat
    BY LenProperties DEF DriftInv, PublishTypeOK, TypeOK, Copy
  <1>4. <<>> \in Seq(Playable)
    OBVIOUS
  <1>5. j \in Job
    BY <1>1, <1>3, <1>4 DEF Job
  <1>6. /\ j # Ready /\ j.st = "list" /\ j.to = target /\ j.name = name /\ j.cover = cover
        /\ j.sent = 0 /\ j.clean = clean
    BY <1>1 DEF Ready
  <1>7. PlanFor(j)
    BY <1>6 DEF PlanFor
  <1>8. troubles' \in 0..MaxTrouble
    BY NoTrouble DEF PublishRead
  <1>9. j.st \notin Late
    BY <1>6 DEF Late
  <1>10. \/ job = Ready /\ UNCHANGED meeting
         \/ job # Ready /\ other' = [job EXCEPT !.clean = FALSE] /\ overlap' = "now"
    BY DEF PublishRead
  <1>11. vendor' = vendor /\ Len(remote) <= Len(remote')
    BY <1>2, <1>3 DEF vars
  <1>12. CASE job = Ready
    <2>1. other' = Ready /\ overlap' = overlap /\ overlap \in {"none", "past"}
      BY <1>2, <1>10, <1>12 DEF meeting, DriftInv, Apart, PublishTypeOK
    <2>2. clean => overlap = "none" \/ (overlap = "past" /\ vendor = "spotify")
      BY <1>0, <2>1
    <2>3. Apart'
      BY <1>2, <1>6, <1>11, <2>1, <2>2 DEF Apart
    <2>4. Twiceless'
      BY <1>2, <1>11, <2>1 DEF Twiceless, DriftInv
    <2>5. Quiet
      BY <1>2, <1>12 DEF Quiet
    <2>6. other' \in Job /\ overlap' \in {"none", "now", "past"}
      BY <2>1 DEF Job
    <2> QED BY <1>2, <1>3, <1>5, <1>6, <1>7, <1>8, <1>9, <1>11, <2>3, <2>4, <2>5, <2>6, PublishMoves
  <1>13. CASE job # Ready
    <2>1. PICK o : o = [job EXCEPT !.clean = FALSE]
      OBVIOUS
    <2>2. other' = o /\ overlap' = "now" /\ ~clean
      BY <1>0, <1>10, <1>13, <2>1
    <2>3. o = [st |-> job.st, to |-> job.to, name |-> job.name, cover |-> job.cover,
               want |-> job.want, sent |-> job.sent, failed |-> job.failed, clean |-> FALSE]
      BY <1>13, <2>1, JobFields DEF DriftInv
    <2>4. /\ o \in Job /\ o # Ready /\ o.st = job.st /\ o.to = job.to /\ o.want = job.want
          /\ o.sent = job.sent /\ o.clean = FALSE
      <3>1. /\ job.st \in {"list", "send", "fill", "cover", "save"}
            /\ job.to \in Target \cup {0} /\ job.sent \in Nat /\ job.failed \in BOOLEAN
            /\ job.want \in Seq(Playable) /\ FALSE \in BOOLEAN
            /\ job.name \in Name /\ job.cover \in Cover \cup {NoCover}
        BY <1>13, InWork DEF DriftInv
      <3>2. o \in Job
        BY <2>3, <3>1 DEF Job
      <3>3. o # Ready
        BY <2>3 DEF Ready
      <3> QED BY <2>3, <3>2, <3>3
    <2>5. PlanFor(o)'
      <3>1. PlanFor(job)
        BY <1>13 DEF DriftInv
      <3>2. PlanFor(o)
        BY <2>4, <3>1 DEF PlanFor
      <3>3. UNCHANGED <<rows, pos, name, cover>>
        BY <1>2 DEF vars
      <3> QED BY <2>4, <3>2, <3>3 DEF PlanFor
    <2>6. o.to <= Len(remote') /\ (o.st \in Late => o.to # 0)
      BY <1>2, <1>13, <2>4 DEF DriftInv
    <2>7. PlanFor(other)'
      BY <2>2, <2>5 DEF PlanFor
    <2>8. Apart'
      BY <1>2, <1>6, <2>2, <2>4, <2>6, <2>7 DEF Apart
    <2>9. Twiceless'
      BY <2>2 DEF Twiceless
    <2>10. Quiet' => Quiet
      BY <1>2, <2>2, <2>4 DEF Quiet
    <2>11. other' \in Job /\ overlap' \in {"none", "now", "past"}
      BY <2>2, <2>4
    <2> QED BY <1>2, <1>3, <1>5, <1>6, <1>7, <1>8, <1>9, <1>11, <2>8, <2>9, <2>10, <2>11,
               PublishMoves
  <1> QED BY <1>12, <1>13

\* Publishes that overlap promise nothing, whichever of them is at work.
LEMMA OtherWorks ==
    ASSUME DriftInv, other # Ready
    PROVE  /\ other \in Job /\ ~other.clean /\ overlap = "now"
           /\ other.to <= Len(remote) /\ PlanFor(other)
           /\ other.st \in Late => other.to # 0 /\ SentFor(other, remote[other.to])
  <1>1. /\ other \in Job /\ ~other.clean /\ overlap = "now"
        /\ other.to <= Len(remote) /\ PlanFor(other)
        /\ other.st \in Late => other.to # 0
    BY DEF DriftInv, Apart, PublishTypeOK
  <1> QED BY <1>1 DEF SentFor

LEMMA SwitchDrift == DriftInv /\ Switch => DriftInv'
  <1> SUFFICES ASSUME DriftInv, Switch PROVE DriftInv'
    OBVIOUS
  <1>1. /\ other # Ready /\ job' = other /\ other' = job /\ overlap' = overlap
        /\ UNCHANGED <<vars, doubt, gone, remote, troubles>>
    BY DEF Switch, copyVars
  <1>2. PICK j : j = other
    OBVIOUS
  <1>3. /\ j \in Job /\ j # Ready /\ ~j.clean /\ overlap = "now"
        /\ j.to <= Len(remote) /\ PlanFor(j)
        /\ j.st \in Late => j.to # 0 /\ SentFor(j, remote[j.to])
    BY <1>1, <1>2, OtherWorks
  <1>4. /\ job # Ready /\ ~job.clean /\ job \in Job /\ PlanFor(job) /\ job.to <= Len(remote)
        /\ job.st \in Late => job.to # 0
    <2>1. job # Ready
      BY <1>1 DEF DriftInv, Apart
    <2> QED BY <1>3, <2>1 DEF DriftInv, Apart, PublishTypeOK
  <1>5. vendor' = vendor
    BY <1>1 DEF vars
  <1>6. PlanFor(other)'
    BY <1>1, <1>4 DEF PlanFor
  <1>7. Apart'
    BY <1>1, <1>2, <1>3, <1>4, <1>6 DEF Apart
  <1>8. Twiceless'
    BY <1>1, <1>3 DEF Twiceless
  <1>9. Quiet' => Quiet
    BY <1>1 DEF Quiet
  <1>10. remote \in Seq(Copy) /\ Len(remote) \in Nat
    BY LenProperties DEF DriftInv, PublishTypeOK, Copy
  <1>11. troubles' \in 0..MaxTrouble
    BY <1>1, NoTrouble
  <1>12. other' \in Job /\ overlap' \in {"none", "now", "past"}
    BY <1>1, <1>3, <1>4
  <1>13. /\ job' = j /\ remote' \in Seq(Copy) /\ Len(remote) <= Len(remote')
         /\ j.to <= Len(remote') /\ (j.st \in Late => j.to # 0 /\ SentFor(j, remote'[j.to]))
    BY <1>1, <1>2, <1>3, <1>10
  <1> QED BY <1>1, <1>3, <1>7, <1>8, <1>9, <1>11, <1>12, <1>13, PublishMoves

\* The end of a publish that has not written the row.
LEMMA EndOfJob ==
    ASSUME DriftInv, UNCHANGED <<vars, remote, gone>>, EndJob, doubt' \in BOOLEAN,
           troubles' \in 0..MaxTrouble, job # Ready,
           doubt' \/ (UNCHANGED doubt /\ job.st \notin Late)
    PROVE  DriftInv'
  <1>1. UNCHANGED <<vendor, rows, pos, name, cover, target, dirty>>
    BY DEF vars
  <1>2. Wanted' = Wanted
    BY <1>1 DEF Wanted, Given, Before
  <1>3. job' = other /\ other' = Ready /\ overlap' \in {"none", "now", "past"}
        /\ (overlap' = "none" => overlap = "none")
        /\ (other = Ready => overlap' # "now")
    BY DEF EndJob, DriftInv, PublishTypeOK
  <1>4. PublishTypeOK'
    <2>1. other \in Job /\ Ready \in Job
      BY DEF DriftInv, PublishTypeOK, Job
    <2>2. TypeOK'
      BY DEF DriftInv, PublishTypeOK, TypeOK, vars
    <2> QED BY <1>3, <2>1, <2>2 DEF DriftInv, PublishTypeOK
  <1>5. Badged'
    <2> SUFFICES ASSUME Quiet', ~doubt' PROVE Quiet /\ ~doubt
      BY <1>1, <1>2 DEF Badged, Shows, DriftInv
    <2> QED BY <1>3 DEF Quiet
  <1>6. Twiceless'
    BY <1>1, <1>3 DEF Twiceless, DriftInv
  <1>7. ASSUME other # Ready
        PROVE  /\ ~other.clean /\ other.to <= Len(remote) /\ PlanFor(job)'
               /\ other.st \in Late => other.to # 0 /\ SentFor(job, remote[job.to])'
    <2>1. /\ ~other.clean /\ other.to <= Len(remote) /\ PlanFor(other)
          /\ other.st \in Late => other.to # 0
      BY <1>7, OtherWorks
    <2>2. PlanFor(job)'
      BY <1>3, <2>1 DEF PlanFor
    <2>3. SentFor(job, remote[job.to])'
      BY <1>3, <2>1 DEF SentFor
    <2> QED BY <2>1, <2>2, <2>3
  <1>8. Apart'
    BY <1>3, <1>7 DEF Apart
  <1> QED BY <1>1, <1>3, <1>4, <1>5, <1>6, <1>7, <1>8 DEF DriftInv, Distinct

LEMMA ListDrift == DriftInv /\ PublishList => DriftInv'
  <1> SUFFICES ASSUME DriftInv, PublishList PROVE DriftInv'
    OBVIOUS
  <1>1. job.st = "list" /\ job # Ready /\ UNCHANGED <<vars, doubt, copyVars, troubles>>
    BY DEF PublishList, Ready
  <1>2. troubles' \in 0..MaxTrouble /\ doubt' \in BOOLEAN /\ PublishTypeOK
    BY <1>1, NoTrouble DEF DriftInv, PublishTypeOK
  <1>3. CASE EndJob
    BY <1>1, <1>2, <1>3, EndOfJob DEF copyVars, Late
  <1>4. CASE /\ Wanted # <<>>
             /\ job' = [job EXCEPT !.st = "send", !.want = Wanted]
             /\ UNCHANGED meeting
    <2>1. PICK j : j = [job EXCEPT !.st = "send", !.want = Wanted]
      OBVIOUS
    <2>2. job' = j
      BY <1>4, <2>1
    <2>3. Wanted \in Seq(Playable) /\ NoTwice(Wanted)
      BY <1>2, WantedOnce DEF DriftInv, PublishTypeOK
    <2>4. PICK w : w = Wanted
      OBVIOUS
    <2>5. j = [st |-> "send", to |-> job.to, name |-> job.name, cover |-> job.cover,
               want |-> w, sent |-> job.sent, failed |-> job.failed, clean |-> job.clean]
      BY <1>1, <1>2, <2>1, <2>4 DEF PublishTypeOK, Job
    <2>6. /\ j \in Job /\ j # Ready
          /\ j.st = "send" /\ j.to = job.to /\ j.name = job.name /\ j.cover = job.cover
          /\ j.want = w /\ j.sent = job.sent /\ j.clean = job.clean
      <3>1. /\ job.to \in Target \cup {0} /\ job.sent \in Nat /\ job.failed \in BOOLEAN
            /\ job.clean \in BOOLEAN /\ w \in Seq(Playable)
        BY <1>1, <1>2, <2>3, <2>4, InWork
      <3>2. job.name \in Name /\ job.cover \in Cover \cup {NoCover}
        BY <1>1, <1>2, InWork
      <3>3. j \in Job
        BY <2>5, <3>1, <3>2 DEF Job
      <3>4. j # Ready
        BY <2>5 DEF Ready
      <3> QED BY <2>5, <3>3, <3>4
    <2>7. PlanFor(j)
      BY <1>1, <1>4, <2>3, <2>4, <2>6 DEF PlanFor, DriftInv, Late
    <2>8. remote' = remote /\ UNCHANGED <<vars, doubt, gone>> /\ remote \in Seq(Copy)
      BY <1>1 DEF copyVars, DriftInv, PublishTypeOK, Copy
    <2>9. Len(remote) \in Nat /\ vendor' = vendor
      BY <2>8, LenProperties DEF vars
    <2>10. /\ Apart' /\ other' \in Job /\ overlap' \in {"none", "now", "past"}
           /\ overlap' = overlap
           /\ Quiet' => (other = Ready \/ other.st \notin Late)
      BY <1>1, <1>4, <2>2, <2>6, <2>8, <2>9, ApartKept
    <2>11. Twiceless'
      BY <2>8, <2>9, <2>10 DEF DriftInv, Twiceless
    <2>12. j.st \notin Late /\ (Quiet' => Quiet)
      BY <1>1, <2>6, <2>10 DEF Late, Quiet
    <2>13. Len(remote) <= Len(remote') /\ j.to <= Len(remote')
      BY <1>1, <2>6, <2>8, <2>9 DEF DriftInv
    <2> QED BY <1>2, <2>2, <2>6, <2>7, <2>8, <2>10, <2>11, <2>12, <2>13, PublishMoves
  <1> QED BY <1>3, <1>4 DEF PublishList

LEMMA UpdateDrift == DriftInv /\ UpdateCopy => DriftInv'
  <1> SUFFICES ASSUME DriftInv, UpdateCopy PROVE DriftInv'
    OBVIOUS
  <1>1. /\ job.st = "send" /\ job # Ready /\ job.to # 0
        /\ UNCHANGED <<vars, doubt, gone, meeting, troubles>>
    BY DEF UpdateCopy, Call, At, Ready
  <1>2. troubles' \in 0..MaxTrouble /\ PublishTypeOK
    BY <1>1, NoTrouble DEF DriftInv
  <1>3. PICK j : j = [job EXCEPT !.st = "fill"]
    OBVIOUS
  <1>4. job' = j
    BY <1>3 DEF UpdateCopy
  <1>5. j = [st |-> "fill", to |-> job.to, name |-> job.name, cover |-> job.cover,
             want |-> job.want, sent |-> job.sent, failed |-> job.failed, clean |-> job.clean]
    BY <1>1, <1>2, <1>3, JobFields
  <1>6. /\ j \in Job /\ j # Ready
        /\ j.st = "fill" /\ j.to = job.to /\ j.name = job.name /\ j.cover = job.cover
        /\ j.want = job.want /\ j.sent = job.sent /\ j.clean = job.clean
    <2>1. /\ job.to \in Target \cup {0} /\ job.sent \in Nat /\ job.failed \in BOOLEAN
          /\ job.clean \in BOOLEAN /\ job.want \in Seq(Playable)
      BY <1>1, <1>2, InWork
    <2> QED BY <1>1, <1>2, <1>5, <2>1, JobSet
  <1>7. PICK c : c = [remote[job.to] EXCEPT !.name = job.name]
    OBVIOUS
  <1>8. remote' = [remote EXCEPT ![job.to] = c]
    BY <1>7 DEF UpdateCopy
  <1>9. /\ c \in Copy /\ c.name = job.name /\ c.tracks = remote[job.to].tracks
    <2>1. remote[job.to] \in Copy /\ job.name \in Name
      BY <1>1, <1>2, CopyKnown, InWork
    <2> QED BY <1>7, <2>1 DEF Copy
  <1>10. vendor = "ytmusic" /\ overlap = "none" => NoTwice(c.tracks)
    BY <1>1, <1>9, CopyKnown DEF DriftInv, Twiceless
  <1>11. job.sent = 0
    BY <1>1 DEF DriftInv, PlanFor, Late
  <1>12. PlanFor(j)
    BY <1>1, <1>6 DEF PlanFor, DriftInv, Late
  <1>13. SentFor(j, c) /\ j.st \in Late
    BY <1>6, <1>9, <1>11 DEF SentFor, Late
  <1> QED BY <1>1, <1>2, <1>4, <1>6, <1>8, <1>9, <1>10, <1>12, <1>13, CallMoves

LEMMA CreateDrift == DriftInv /\ CreateCopy => DriftInv'
  <1> SUFFICES ASSUME DriftInv, CreateCopy PROVE DriftInv'
    OBVIOUS
  <1>1. job.st = "send" /\ job # Ready /\ UNCHANGED <<vars, doubt, gone, meeting, troubles>>
    BY DEF CreateCopy, At, Ready
  <1>2. troubles' \in 0..MaxTrouble /\ PublishTypeOK
    BY <1>1, NoTrouble DEF DriftInv
  <1>0. PICK n : n = Len(remote)
    OBVIOUS
  <1>3. PICK j : j = [job EXCEPT !.st = "fill", !.to = n + 1]
    OBVIOUS
  <1>4. job' = j /\ n + 1 \in Target
    BY <1>0, <1>3 DEF CreateCopy
  <1>5. j = [st |-> "fill", to |-> n + 1, name |-> job.name, cover |-> job.cover,
             want |-> job.want, sent |-> job.sent, failed |-> job.failed, clean |-> job.clean]
    <2>1. PICK b : b = job
      OBVIOUS
    <2>2. b = [st |-> b.st, to |-> b.to, name |-> b.name, cover |-> b.cover,
               want |-> b.want, sent |-> b.sent, failed |-> b.failed, clean |-> b.clean]
      BY <1>1, <1>2, <2>1, JobFields
    <2>3. j = [b EXCEPT !.st = "fill", !.to = n + 1]
      BY <1>3, <2>1
    <2> QED BY <2>1, <2>2, <2>3
  <1>6. /\ j \in Job /\ j # Ready
        /\ j.st = "fill" /\ j.to = n + 1 /\ j.name = job.name /\ j.cover = job.cover
        /\ j.want = job.want /\ j.sent = job.sent /\ j.clean = job.clean
    <2>1. /\ n + 1 \in Target \cup {0} /\ job.sent \in Nat /\ job.failed \in BOOLEAN
          /\ job.clean \in BOOLEAN /\ job.want \in Seq(Playable)
      BY <1>1, <1>2, <1>4, InWork
    <2> QED BY <1>1, <1>2, <1>5, <2>1, JobSet
  <1>7. PICK c : c = [name |-> job.name, cover |-> NoCover, tracks |-> <<>>]
    OBVIOUS
  <1>8. c \in Copy /\ c.name = job.name /\ NoTwice(c.tracks)
    <2>1. job.name \in Name /\ <<>> \in Seq(Playable)
      BY <1>1, <1>2, InWork
    <2> QED BY <1>7, <2>1 DEF Copy, NoTwice
  <1>9. remote \in Seq(Copy) /\ n \in Nat /\ DOMAIN remote = 1..n
    BY <1>0, <1>2, LenProperties DEF PublishTypeOK, Copy
  <1>10. PICK r : r = Append(remote, c)
    OBVIOUS
  <1>11. /\ r \in Seq(Copy) /\ Len(r) = n + 1 /\ DOMAIN r = 1..(n + 1) /\ r[n + 1] = c
         /\ \A i \in 1..n : r[i] = remote[i]
    BY <1>0, <1>8, <1>9, <1>10, AppendProperties, LenProperties
  <1>12. remote' = r
    BY <1>7, <1>10 DEF CreateCopy
  <1>13. vendor = "ytmusic" /\ overlap = "none" => \A i \in DOMAIN r : NoTwice(r[i].tracks)
    <2>1. vendor = "ytmusic" /\ overlap = "none" => \A i \in 1..n : NoTwice(remote[i].tracks)
      BY <1>9 DEF DriftInv, Twiceless
    <2>2. ASSUME NEW i \in 1..(n + 1) PROVE i = n + 1 \/ i \in 1..n
      BY <1>9
    <2> QED BY <1>8, <1>11, <2>1, <2>2
  <1>14. PlanFor(j)
    BY <1>1, <1>6 DEF PlanFor, DriftInv, Late
  <1>15. job.sent = 0
    BY <1>1 DEF DriftInv, PlanFor, Late
  <1>16. SentFor(j, c) /\ j.st \in Late
    BY <1>6, <1>8, <1>15 DEF SentFor, Late
  <1>17. /\ remote' \in Seq(Copy) /\ Len(remote) <= Len(remote') /\ j.to <= Len(remote')
         /\ j.to # 0 /\ remote'[j.to] = c
    BY <1>0, <1>6, <1>9, <1>11, <1>12
  <1>18. /\ Apart' /\ other' \in Job /\ overlap' \in {"none", "now", "past"}
         /\ overlap' = overlap
    <2>1. UNCHANGED <<vendor, meeting>> /\ Len(remote) \in Nat /\ Len(remote') \in Nat
      BY <1>0, <1>1, <1>9, <1>11, <1>12 DEF vars
    <2> QED BY <1>1, <1>4, <1>6, <1>17, <2>1, ApartKept
  <1>19. Twiceless' /\ ~Quiet'
    BY <1>1, <1>4, <1>6, <1>12, <1>13, <1>16, <1>18 DEF Twiceless, Quiet, vars
  <1> QED BY <1>1, <1>2, <1>4, <1>6, <1>14, <1>16, <1>17, <1>18, <1>19, PublishMoves

\* A batch after what the copy holds.
LEMMA NextBatch ==
    ASSUME NEW want \in Seq(Playable), NEW sent \in Nat, NEW size \in Nat \ {0}, sent < Len(want)
    PROVE  LET upto == Min({sent + size, Len(want)})
               next == SubSeq(want, sent + 1, upto)
           IN  /\ next \in Seq(Playable)
               /\ SubSeq(want, 1, Min({sent, Len(want)})) \o next = SubSeq(want, 1, upto)
               /\ sent = 0 => next = SubSeq(want, 1, upto)
  <1>1. PICK l \in Nat : l = Len(want)
    BY LenProperties
  <1>2. PICK m : m = Min({sent + size, Len(want)})
    OBVIOUS
  <1>3. m \in sent..l
    <2>1. Min({sent + size, l}) = IF sent + size <= l THEN sent + size ELSE l
      BY MinOfTwo
    <2> QED BY <1>1, <1>2, <2>1
  <1>4. Min({sent, Len(want)}) = sent
    <2>1. Min({sent, l}) = IF sent <= l THEN sent ELSE l
      BY MinOfTwo
    <2> QED BY <1>1, <2>1
  <1>5. SubSeq(want, sent + 1, m) \in Seq(Playable)
    <2>1. \A i \in (sent + 1)..m : want[i] \in Playable
      BY <1>1, <1>3, ElementOfSeq
    <2> QED BY <1>3, <2>1, SubSeqProperties
  <1>6. SubSeq(want, 1, sent) \o SubSeq(want, sent + 1, m) = SubSeq(want, 1, m)
    BY <1>1, <1>3, ConcatAdjacentSubSeq
  <1>7. PICK next : next = SubSeq(want, sent + 1, m)
    OBVIOUS
  <1>8. next \in Seq(Playable) /\ SubSeq(want, 1, sent) \o next = SubSeq(want, 1, m)
    BY <1>5, <1>6, <1>7
  <1>9. sent = 0 => next = SubSeq(want, 1, m)
    BY <1>7
  <1> QED BY <1>2, <1>4, <1>7, <1>8, <1>9, Zenon

LEMMA FillDrift == DriftInv /\ FillSpotify => DriftInv'
  <1> SUFFICES ASSUME DriftInv, FillSpotify PROVE DriftInv'
    OBVIOUS
  <1>1. /\ job.st = "fill" /\ job # Ready /\ UNCHANGED <<vars, doubt, gone, meeting>>
        /\ vendor = "spotify" /\ job.sent < Len(job.want)
    BY DEF FillSpotify, Call, At, Ready
  <1>2. troubles' \in 0..MaxTrouble /\ PublishTypeOK
    BY NoTrouble DEF DriftInv, FillSpotify
  <1>3. PICK s : s = job.sent
    OBVIOUS
  <1>4. PICK w : w = job.want
    OBVIOUS
  <1>5. /\ s \in Nat /\ w \in Seq(Playable) /\ s < Len(w) /\ job.to # 0
        /\ job.to \in Target \cup {0} /\ job.failed \in BOOLEAN /\ job.clean \in BOOLEAN
    BY <1>1, <1>2, <1>3, <1>4, InWork DEF DriftInv, Late
  <1>6. PICK m : m = Min({s + Batch, Len(w)})
    OBVIOUS
  <1>7. PICK next : next = SubSeq(w, s + 1, m)
    OBVIOUS
  <1>8. /\ next \in Seq(Playable)
        /\ SubSeq(w, 1, Min({s, Len(w)})) \o next = SubSeq(w, 1, m)
        /\ s = 0 => next = SubSeq(w, 1, m)
    BY <1>5, <1>6, <1>7, PublishAssumption, NextBatch
  <1>9. PICK known : known = IF s = 0 THEN <<>> ELSE remote[job.to].tracks
    OBVIOUS
  <1>10. known \in Seq(Playable) /\ remote[job.to] \in Copy
    BY <1>1, <1>5, <1>9, CopyKnown
  <1>11. known \o next \in Seq(Playable) /\ known \o next \o next \in Seq(Playable)
    <2>1. known \o next \in Seq(Playable)
      BY <1>8, <1>10, ConcatProperties
    <2> QED BY <1>8, <2>1, ConcatProperties
  <1>12. job.clean => known \o next = SubSeq(w, 1, m)
    <2>1. CASE s = 0
      <3>1. <<>> \o next = next
        BY <1>8, ConcatEmptySeq
      <3> QED BY <1>8, <1>9, <2>1, <3>1
    <2>2. CASE s # 0
      <3>1. job.clean => remote[job.to].tracks = SubSeq(w, 1, Min({s, Len(w)}))
        <4>1. SentFor(job, remote[job.to])
          BY <1>1 DEF DriftInv, Late
        <4>2. job.sent > 0
          BY <1>3, <1>5, <2>2
        <4>3. job.clean =>
                 remote[job.to].tracks = SubSeq(job.want, 1, Min({job.sent, Len(job.want)}))
          BY <1>1, <4>1, <4>2, Zenon DEF SentFor
        <4> QED BY <1>3, <1>4, <4>3, Zenon
      <3>2. PICK x : x = SubSeq(w, 1, Min({s, Len(w)}))
        OBVIOUS
      <3>3. job.clean => known = x
        BY <1>9, <2>2, <3>1, <3>2
      <3>4. x \o next = SubSeq(w, 1, m)
        BY <1>8, <3>2
      <3>5. ASSUME job.clean PROVE known \o next = SubSeq(w, 1, m)
        <4>1. known = x
          BY <3>3, <3>5
        <4>2. known \o next = x \o next
          BY <4>1
        <4> QED BY <3>4, <4>2
      <3> QED BY <3>5
    <2> QED BY <2>1, <2>2
  <1>13. PICK tracks \in Seq(Playable), clean \in BOOLEAN :
            /\ remote' = [remote EXCEPT ![job.to].tracks = tracks]
            /\ clean => job.clean /\ tracks = SubSeq(w, 1, m)
            /\ job' = [st |-> "fill", to |-> job.to, name |-> job.name, cover |-> job.cover,
                       want |-> w, sent |-> s + Batch, failed |-> job.failed, clean |-> clean]
    <2>1. PICK b : b = job
      OBVIOUS
    <2>2. b = [st |-> "fill", to |-> b.to, name |-> b.name, cover |-> b.cover,
               want |-> w, sent |-> s, failed |-> b.failed, clean |-> b.clean]
      BY <1>1, <1>2, <1>3, <1>4, <2>1, JobFields
    <2>3. CASE /\ remote' = [remote EXCEPT ![job.to].tracks = known \o next]
               /\ job' = [job EXCEPT !.sent = @ + Batch]
      <3>1. job' = [b EXCEPT !.sent = @ + Batch]
        BY <2>1, <2>3
      <3>2. job' = [st |-> "fill", to |-> b.to, name |-> b.name, cover |-> b.cover,
                    want |-> w, sent |-> s + Batch, failed |-> b.failed, clean |-> b.clean]
        BY <2>2, <3>1
      <3> QED BY <1>5, <1>11, <1>12, <2>1, <2>3, <3>2
    <2>4. CASE /\ remote' = [remote EXCEPT ![job.to].tracks = known \o next \o next]
               /\ job' = [job EXCEPT !.sent = @ + Batch, !.clean = FALSE]
      <3>1. PICK d : d = [b EXCEPT !.sent = s + Batch]
        OBVIOUS
      <3>3. d = [st |-> "fill", to |-> b.to, name |-> b.name, cover |-> b.cover,
                 want |-> w, sent |-> s + Batch, failed |-> b.failed, clean |-> b.clean]
        BY <2>2, <3>1
      <3>4. job' = [d EXCEPT !.clean = FALSE]
        BY <1>3, <2>1, <2>4, <3>1
      <3>2. job' = [st |-> "fill", to |-> b.to, name |-> b.name, cover |-> b.cover,
                    want |-> w, sent |-> s + Batch, failed |-> b.failed, clean |-> FALSE]
        BY <3>3, <3>4
      <3> QED BY <1>11, <2>1, <2>4, <3>2
    <2> QED BY <1>3, <1>4, <1>6, <1>7, <1>9, <2>3, <2>4 DEF FillSpotify
  <1>14. PICK j : j = job'
    OBVIOUS
  <1>15. s + Batch \in Nat /\ s + Batch > 0
    BY <1>5, PublishAssumption
  <1>16. /\ j \in Job /\ j # Ready
         /\ j.st = "fill" /\ j.to = job.to /\ j.name = job.name /\ j.cover = job.cover
         /\ j.want = w /\ j.sent = s + Batch /\ j.clean = clean
    BY <1>1, <1>2, <1>5, <1>13, <1>14, <1>15, JobSet
  <1>17. PICK c : c = [remote[job.to] EXCEPT !.tracks = tracks]
    OBVIOUS
  <1>18. c \in Copy /\ c.name = remote[job.to].name /\ c.tracks = tracks
    BY <1>10, <1>17 DEF Copy
  <1>19. remote' = [remote EXCEPT ![job.to] = c]
    BY <1>13, <1>17
  <1>20. PlanFor(j)
    BY <1>1, <1>4, <1>13, <1>16 DEF PlanFor, DriftInv, Late
  <1>21. job.clean => c.name = job.name
    BY <1>1, <1>18 DEF SentFor, DriftInv, Late
  <1>22. SentFor(j, c) /\ j.st \in Late
    BY <1>6, <1>13, <1>16, <1>18, <1>21 DEF SentFor, Late
  <1>23. vendor # "ytmusic" /\ (j.clean => job.clean)
    BY <1>1, <1>13, <1>16
  <1> QED BY <1>1, <1>2, <1>5, <1>14, <1>16, <1>18, <1>19, <1>20, <1>22, <1>23, CallMoves

-----------------------------------------------------------------------------
(* YouTube Music: calls on single items.                                   *)

\* A call of YouTube Music's synchronisation.
LEMMA FillItem ==
    ASSUME DriftInv, job.st = "fill", NEW seq \in Seq(Playable), Fill(seq),
           overlap = "none" => NoTwice(seq)
    PROVE  DriftInv'
  <1>1. /\ job # Ready /\ UNCHANGED <<vars, doubt, gone, meeting, troubles, job>>
        /\ vendor = "ytmusic" /\ remote' = [remote EXCEPT ![job.to].tracks = seq]
    BY DEF Fill, Call, At, Ready
  <1>2. troubles' \in 0..MaxTrouble /\ PublishTypeOK /\ job.to # 0
    BY <1>1, NoTrouble DEF DriftInv, Late
  <1>3. PICK c : c = [remote[job.to] EXCEPT !.tracks = seq]
    OBVIOUS
  <1>4. c \in Copy /\ c.tracks = seq
    <2>1. remote[job.to] \in Copy
      BY <1>1, <1>2, CopyKnown
    <2> QED BY <1>3, <2>1 DEF Copy
  <1>5. remote' = [remote EXCEPT ![job.to] = c]
    BY <1>1, <1>3
  <1>6. job \in Job /\ PlanFor(job)
    BY <1>1 DEF DriftInv, PublishTypeOK
  <1>7. SentFor(job, c) /\ job.st \in Late
    BY <1>1 DEF SentFor, Late
  <1>8. PICK j : j = job
    OBVIOUS
  <1> QED BY <1>1, <1>2, <1>4, <1>5, <1>6, <1>7, <1>8, CallMoves

\* What the calls work on.
LEMMA ItemsKnown ==
    ASSUME DriftInv, job.st = "fill"
    PROVE  /\ remote[job.to].tracks \in Seq(Playable) /\ job.want \in Seq(Playable)
           /\ NoTwice(job.want)
           /\ vendor = "ytmusic" /\ overlap = "none" => NoTwice(remote[job.to].tracks)
  <1>1. job # Ready /\ job.to # 0
    BY DEF Ready, DriftInv, Late
  <1>2. job.to \in DOMAIN remote /\ remote[job.to].tracks \in Seq(Playable)
    BY <1>1, CopyKnown
  <1>3. job.want \in Seq(Playable)
    BY <1>1, InWork DEF DriftInv
  <1>4. NoTwice(job.want)
    BY <1>1 DEF DriftInv, PlanFor
  <1> QED BY <1>2, <1>3, <1>4 DEF DriftInv, Twiceless

LEMMA ItemDrift == DriftInv /\ (RemoveItem \/ AddItem \/ MoveItem \/ StaleItem) => DriftInv'
  <1> SUFFICES ASSUME DriftInv, RemoveItem \/ AddItem \/ MoveItem \/ StaleItem PROVE DriftInv'
    OBVIOUS
  <1>0. job.st = "fill" /\ vendor = "ytmusic"
    BY DEF RemoveItem, AddItem, MoveItem, StaleItem, Fill
  <1> PICK tracks : tracks = remote[job.to].tracks
    OBVIOUS
  <1> PICK want : want = job.want
    OBVIOUS
  <1>1. /\ tracks \in Seq(Playable) /\ want \in Seq(Playable)
        /\ overlap = "none" => NoTwice(tracks)
        /\ NoTwice(want)
    BY <1>0, ItemsKnown
  <1>2. /\ DOMAIN tracks = 1..Len(tracks) /\ DOMAIN tracks \in SUBSET Nat
        /\ DOMAIN want = 1..Len(want) /\ DOMAIN want \in SUBSET Nat
    BY <1>1, LenProperties
  <1>3. CASE RemoveItem
    <2>1. Stray # {} /\ Stray \in SUBSET Nat /\ Stray \subseteq DOMAIN tracks
      BY <1>2, <1>3 DEF RemoveItem, Stray
    <2>2. PICK i : i = Least(Stray)
      OBVIOUS
    <2>3. i \in 1..Len(tracks)
      BY <1>2, <2>1, <2>2, LeastOf
    <2>4. /\ RemoveAt(tracks, i) \in Seq(Playable)
          /\ overlap = "none" => NoTwice(RemoveAt(tracks, i))
      BY <1>1, <2>3, RemoveAtKeeps, RemoveTwiceless
    <2>5. PICK seq : seq = RemoveAt(tracks, i)
      OBVIOUS
    <2>6. Fill(seq)
      BY <1>3, <2>2, <2>5 DEF RemoveItem
    <2> QED BY <1>0, <2>4, <2>5, <2>6, FillItem
  <1>4. CASE AddItem
    <2>1. Missing # {} /\ Missing \in SUBSET Nat
      BY <1>2, <1>4 DEF AddItem, Missing
    <2>2. PICK i : i = Least(Missing)
      OBVIOUS
    <2>3. i \in Missing
      BY <2>1, <2>2, LeastOf
    <2>4. i \in 1..Len(want) /\ ~Contains(tracks, want[i])
      BY <1>2, <2>3 DEF Missing
    <2>5. PICK e \in Playable : e = want[i]
      BY <1>1, <2>4, ElementOfSeq
    <2>6. /\ Append(tracks, e) \in Seq(Playable)
          /\ overlap = "none" => NoTwice(Append(tracks, e))
      BY <1>1, <2>4, <2>5, AppendProperties, AppendTwiceless
    <2>7. PICK seq : seq = Append(tracks, e)
      OBVIOUS
    <2>8. Fill(seq)
      BY <1>4, <2>2, <2>5, <2>7 DEF AddItem
    <2> QED BY <1>0, <2>6, <2>7, <2>8, FillItem
  <1>5. CASE MoveItem
    <2>1. Misplaced(tracks, want) # {}
      BY <1>5 DEF MoveItem, InPlace
    <2>2. \A k \in DOMAIN want : Contains(tracks, want[k])
      BY <1>5 DEF MoveItem, Missing
    <2>3. /\ Moved(tracks, want) \in Seq(Playable)
          /\ NoTwice(tracks) => NoTwice(Moved(tracks, want))
      BY <1>1, <2>1, <2>2, MovedTwiceless
    <2>4. PICK seq : seq = Moved(tracks, want)
      OBVIOUS
    <2>5. Fill(seq)
      BY <1>5, <2>4 DEF MoveItem
    <2> QED BY <1>0, <1>1, <2>3, <2>4, <2>5, FillItem
  <1>6. CASE StaleItem
    <2>1. overlap = "now"
      BY <1>6 DEF StaleItem
    <2>2. ASSUME NEW i \in 1..Len(tracks), Fill(RemoveAt(tracks, i)) PROVE DriftInv'
      <3>1. RemoveAt(tracks, i) \in Seq(Playable)
        BY <1>1, RemoveAtKeeps
      <3>2. PICK seq : seq = RemoveAt(tracks, i)
        OBVIOUS
      <3>3. Fill(seq)
        BY <2>2, <3>2
      <3> QED BY <1>0, <2>1, <3>1, <3>2, <3>3, FillItem
    <2>3. ASSUME NEW i \in 1..Len(want), Fill(Append(tracks, want[i])) PROVE DriftInv'
      <3>1. PICK e \in Playable : e = want[i]
        BY <1>1, ElementOfSeq
      <3>2. Append(tracks, e) \in Seq(Playable)
        BY <1>1, <3>1, AppendProperties
      <3>3. PICK seq : seq = Append(tracks, e)
        OBVIOUS
      <3>4. Fill(seq)
        BY <2>3, <3>1, <3>3
      <3> QED BY <1>0, <2>1, <3>2, <3>3, <3>4, FillItem
    <2>4. ASSUME NEW i \in 1..Len(tracks), NEW k \in 1..Len(tracks),
                 Fill(InsertAt(RemoveAt(tracks, i), k, tracks[i]))
          PROVE  DriftInv'
      <3>1. PICK e \in Playable : e = tracks[i]
        BY <1>1, ElementOfSeq
      <3>2. PICK r : r = RemoveAt(tracks, i)
        OBVIOUS
      <3>3. r \in Seq(Playable) /\ Len(r) = Len(tracks) - 1 /\ Len(tracks) \in Nat
        BY <1>1, <3>2, RemoveAtKeeps, LenProperties
      <3>4. k \in 1..(Len(r) + 1)
        BY <3>3
      <3>5. InsertAt(r, k, e) \in Seq(Playable)
        BY <3>3, <3>4, InsertAtKeeps
      <3>6. PICK seq : seq = InsertAt(r, k, e)
        OBVIOUS
      <3>7. Fill(seq)
        BY <2>4, <3>1, <3>2, <3>6
      <3> QED BY <1>0, <2>1, <3>5, <3>6, <3>7, FillItem
    <2>5. \/ \E i \in Stray : Fill(RemoveAt(tracks, i))
          \/ \E i \in DOMAIN want : Fill(Append(tracks, want[i]))
          \/ \E i, k \in DOMAIN tracks : Fill(InsertAt(RemoveAt(tracks, i), k, tracks[i]))
      BY <1>6 DEF StaleItem
    <2>6. Stray \subseteq DOMAIN tracks
      BY DEF Stray
    <2> QED BY <1>2, <2>2, <2>3, <2>4, <2>5, <2>6
  <1> QED BY <1>3, <1>4, <1>5, <1>6

\* A step that changes nothing at the vendor: the copy is as it was.
LEMMA StageMoves ==
    ASSUME DriftInv, UNCHANGED <<vars, doubt, gone, remote, meeting>>, job # Ready,
           job.st \in Late, troubles' \in 0..MaxTrouble,
           NEW j \in Job, job' = j, j # Ready, j.to = job.to, j.st \in Late,
           j.clean => job.clean, PlanFor(j), SentFor(j, remote[job.to])
    PROVE  DriftInv'
  <1>1. job.to # 0 /\ job.to <= Len(remote) /\ remote \in Seq(Copy)
    BY DEF DriftInv, PublishTypeOK, Copy
  <1>2. Len(remote) \in Nat /\ UNCHANGED <<vendor, meeting>>
    BY <1>1, LenProperties DEF vars
  <1>3. /\ Apart' /\ other' \in Job /\ overlap' \in {"none", "now", "past"}
        /\ overlap' = overlap
    BY <1>2, ApartKept
  <1>4. Twiceless' /\ ~Quiet'
    BY <1>2, <1>3 DEF DriftInv, Twiceless, Quiet
  <1>5. /\ remote' \in Seq(Copy) /\ Len(remote) <= Len(remote') /\ j.to <= Len(remote')
        /\ j.to # 0 /\ SentFor(j, remote'[j.to])
    BY <1>1, <1>2
  <1> QED BY <1>3, <1>4, <1>5, PublishMoves

\* At the end of the fill the copy holds what the publish wanted.
LEMMA FilledIsWanted ==
    ASSUME DriftInv, job.st = "fill", Filled, job.clean
    PROVE  remote[job.to].tracks = job.want
  <1> PICK tracks : tracks = remote[job.to].tracks
    OBVIOUS
  <1> PICK want : want = job.want
    OBVIOUS
  <1>1. /\ tracks \in Seq(Playable) /\ want \in Seq(Playable)
        /\ vendor = "ytmusic" => overlap = "none" /\ NoTwice(tracks)
    <2>1. job # Ready
      BY DEF Ready
    <2>2. vendor = "ytmusic" => overlap = "none"
      BY <2>1 DEF DriftInv, Apart
    <2> QED BY <2>2, ItemsKnown
  <1>2. vendor \in {"spotify", "ytmusic"}
    BY DEF DriftInv, PublishTypeOK, TypeOK
  <1>3. CASE vendor = "ytmusic"
    <2>1. Misplaced(tracks, want) = {} /\ \A k \in DOMAIN tracks : Contains(want, tracks[k])
      BY <1>1, <1>3 DEF Filled, InPlace, Stray
    <2> QED BY <1>1, <1>3, <2>1, InPlaceIsAll
  <1>4. CASE vendor = "spotify"
    <2>1. PICK l \in Nat : l = Len(want)
      BY <1>1, LenProperties
    <2>2. job # Ready /\ job.sent \in Nat /\ job.sent >= l
      BY <1>4, <2>1, InWork DEF Ready, Filled, DriftInv
    <2>3. want # <<>>
      BY <2>2 DEF DriftInv, PlanFor
    <2>4. l # 0
      BY <1>1, <2>1, <2>3, EmptySeq
    <2>5. SentFor(job, remote[job.to])
      BY <2>2 DEF DriftInv, Late
    <2>6. job.sent > 0 /\ job.clean
      BY <1>4, <2>1, <2>2, <2>4
    <2>7. tracks = SubSeq(want, 1, Min({job.sent, Len(want)}))
      BY <1>4, <2>5, <2>6, Zenon DEF SentFor
    <2>8. Min({job.sent, Len(want)}) = Len(want)
      <3>1. PICK s \in Nat : s = job.sent
        BY <2>2
      <3>2. Min({s, l}) = IF s <= l THEN s ELSE l
        BY MinOfTwo
      <3> QED BY <2>1, <2>2, <3>1, <3>2
    <2>9. SubSeq(want, 1, Len(want)) = want
      BY <1>1, SubSeqFull
    <2> QED BY <2>7, <2>8, <2>9, Zenon
  <1> QED BY <1>2, <1>3, <1>4

LEMMA EndDrift == DriftInv /\ EndFill => DriftInv'
  <1> SUFFICES ASSUME DriftInv, EndFill PROVE DriftInv'
    OBVIOUS
  <1>1. /\ job.st = "fill" /\ job # Ready /\ Filled
        /\ UNCHANGED <<vars, doubt, gone, remote, meeting, troubles>>
    BY DEF EndFill, At, Ready, copyVars
  <1>2. troubles' \in 0..MaxTrouble /\ PublishTypeOK
    BY <1>1, NoTrouble DEF DriftInv
  <1>3. PICK st \in {"cover", "save"} : st = IF job.cover = NoCover THEN "save" ELSE "cover"
    OBVIOUS
  <1>4. PICK j : j = [job EXCEPT !.st = st]
    OBVIOUS
  <1>5. job' = j
    BY <1>3, <1>4 DEF EndFill
  <1>6. j = [st |-> st, to |-> job.to, name |-> job.name, cover |-> job.cover,
             want |-> job.want, sent |-> job.sent, failed |-> job.failed, clean |-> job.clean]
    BY <1>1, <1>2, <1>4, JobFields
  <1>7. /\ j \in Job /\ j # Ready
        /\ j.st = st /\ j.to = job.to /\ j.name = job.name /\ j.cover = job.cover
        /\ j.want = job.want /\ j.sent = job.sent /\ j.clean = job.clean
    <2>1. /\ job.to \in Target \cup {0} /\ job.sent \in Nat /\ job.failed \in BOOLEAN
          /\ job.clean \in BOOLEAN /\ job.want \in Seq(Playable)
      BY <1>1, <1>2, InWork
    <2>2. st \in {"list", "send", "fill", "cover", "save"}
      BY <1>3
    <2>3. job.name \in Name /\ job.cover \in Cover \cup {NoCover}
      BY <1>1, <1>2, InWork
    <2>4. j \in Job
      BY <1>6, <2>1, <2>2, <2>3 DEF Job
    <2>5. j # Ready
      BY <1>6 DEF Ready
    <2> QED BY <1>6, <2>4, <2>5
  <1>8. PlanFor(j)
    BY <1>1, <1>3, <1>7 DEF PlanFor, DriftInv, Late
  <1>9. job.clean => remote[job.to].tracks = job.want
    BY <1>1, FilledIsWanted
  <1>10. job.clean => (vendor = "spotify" => remote[job.to].name = job.name)
    BY <1>1 DEF DriftInv, SentFor, Late
  <1>11. SentFor(j, remote[job.to]) /\ j.st \in Late
    BY <1>3, <1>7, <1>9, <1>10 DEF SentFor, Late
  <1>12. job.st \in Late
    BY <1>1 DEF Late
  <1> QED BY <1>1, <1>2, <1>5, <1>7, <1>8, <1>11, <1>12, StageMoves

LEMMA CoverDrift == DriftInv /\ (SendCover \/ CoverFails) => DriftInv'
  <1> SUFFICES ASSUME DriftInv, SendCover \/ CoverFails PROVE DriftInv'
    OBVIOUS
  <1>1. job.st = "cover" /\ job # Ready /\ UNCHANGED <<vars, doubt, gone, meeting>>
    BY DEF SendCover, CoverFails, Call, At, Ready, copyVars
  <1>2. troubles' \in 0..MaxTrouble /\ PublishTypeOK
    BY NoTrouble DEF DriftInv, SendCover, CoverFails
  <1>3. job.to # 0 /\ SentFor(job, remote[job.to]) /\ job.st \in Late
    BY <1>1 DEF DriftInv, Late
  <1>4. PICK failed \in BOOLEAN :
           /\ job' = [st |-> "save", to |-> job.to, name |-> job.name, cover |-> job.cover,
                      want |-> job.want, sent |-> job.sent, failed |-> failed,
                      clean |-> job.clean]
           /\ \/ failed /\ UNCHANGED remote
              \/ remote' = [remote EXCEPT ![job.to].cover = job.cover]
    <2>1. PICK b : b = job
      OBVIOUS
    <2>2. b = [st |-> b.st, to |-> b.to, name |-> b.name, cover |-> b.cover,
               want |-> b.want, sent |-> b.sent, failed |-> b.failed, clean |-> b.clean]
      BY <1>1, <1>2, <2>1, JobFields
    <2>3. CASE SendCover
      <3>1. job' = [b EXCEPT !.st = "save"]
        BY <2>1, <2>3 DEF SendCover
      <3>2. job' = [st |-> "save", to |-> b.to, name |-> b.name, cover |-> b.cover,
                    want |-> b.want, sent |-> b.sent, failed |-> b.failed, clean |-> b.clean]
        BY <2>2, <3>1
      <3>3. job.failed \in BOOLEAN
        BY <1>1, <1>2, InWork
      <3> QED BY <2>1, <2>3, <3>2, <3>3 DEF SendCover
    <2>4. CASE CoverFails
      <3>1. PICK d : d = [b EXCEPT !.st = "save"]
        OBVIOUS
      <3>2. d = [st |-> "save", to |-> b.to, name |-> b.name, cover |-> b.cover,
                 want |-> b.want, sent |-> b.sent, failed |-> b.failed, clean |-> b.clean]
        BY <2>2, <3>1
      <3>3. job' = [d EXCEPT !.failed = TRUE]
        BY <2>1, <2>4, <3>1 DEF CoverFails
      <3>4. job' = [st |-> "save", to |-> b.to, name |-> b.name, cover |-> b.cover,
                    want |-> b.want, sent |-> b.sent, failed |-> TRUE, clean |-> b.clean]
        BY <3>2, <3>3
      <3> QED BY <2>1, <2>4, <3>4 DEF CoverFails, copyVars
    <2> QED BY <2>3, <2>4
  <1>5. PICK j : j = job'
    OBVIOUS
  <1>6. /\ j \in Job /\ j # Ready
        /\ j.st = "save" /\ j.to = job.to /\ j.name = job.name /\ j.cover = job.cover
        /\ j.want = job.want /\ j.sent = job.sent /\ j.failed = failed /\ j.clean = job.clean
    <2>1. /\ job.to \in Target \cup {0} /\ job.sent \in Nat
          /\ job.clean \in BOOLEAN /\ job.want \in Seq(Playable)
      BY <1>1, <1>2, InWork
    <2> QED BY <1>1, <1>2, <1>4, <1>5, <2>1, JobSet
  <1>7. PlanFor(j) /\ j.st \in Late
    BY <1>1, <1>6 DEF PlanFor, DriftInv, Late
  <1>8. CASE failed /\ UNCHANGED remote
    <2>1. SentFor(j, remote[job.to])
      BY <1>1, <1>3, <1>6, <1>8 DEF SentFor
    <2> QED BY <1>1, <1>2, <1>3, <1>5, <1>6, <1>7, <1>8, <2>1, StageMoves
  <1>9. CASE remote' = [remote EXCEPT ![job.to].cover = job.cover]
    <2>1. PICK c : c = [remote[job.to] EXCEPT !.cover = job.cover]
      OBVIOUS
    <2>2. /\ c \in Copy /\ c.name = remote[job.to].name /\ c.cover = job.cover
          /\ c.tracks = remote[job.to].tracks
      <3>1. remote[job.to] \in Copy /\ job.cover \in Cover \cup {NoCover}
        BY <1>1, <1>2, <1>3, CopyKnown, InWork
      <3> QED BY <2>1, <3>1 DEF Copy
    <2>3. remote' = [remote EXCEPT ![job.to] = c]
      BY <1>9, <2>1
    <2>4. SentFor(j, c)
      BY <1>1, <1>3, <1>6, <2>2 DEF SentFor
    <2>5. vendor = "ytmusic" /\ overlap = "none" => NoTwice(c.tracks)
      BY <1>1, <1>3, <2>2, CopyKnown DEF DriftInv, Twiceless
    <2> QED BY <1>1, <1>2, <1>3, <1>5, <1>6, <1>7, <2>2, <2>3, <2>4, <2>5, CallMoves
  <1> QED BY <1>4, <1>8, <1>9

-----------------------------------------------------------------------------
(* The end of a publish, and what happens beside it.                       *)

\* The row is written with what the publish has sent.
LEMMA SaveDrift == DriftInv /\ PublishSave => DriftInv'
  <1> SUFFICES ASSUME DriftInv, PublishSave PROVE DriftInv'
    OBVIOUS
  <1>1. /\ job.st = "save" /\ job # Ready /\ EndJob /\ doubt' = ~job.clean
        /\ target' = job.to /\ dirty' = (job.failed /\ vendor = "spotify")
        /\ UNCHANGED <<vendor, rows, pos, name, cover, req, requests, remote, gone, troubles>>
    BY DEF PublishSave, SetPublishState, Ready, copyVars
  <1>2. /\ job.to \in Target \cup {0} /\ job.failed \in BOOLEAN /\ job.clean \in BOOLEAN
        /\ job.to <= Len(remote) /\ PlanFor(job) /\ SentFor(job, remote[job.to])
    BY <1>1, InWork DEF DriftInv, Late
  <1>3. dirty' \in BOOLEAN /\ doubt' \in BOOLEAN
    BY <1>1
  <1>4. TypeOK'
    BY <1>1, <1>2, <1>3 DEF DriftInv, PublishTypeOK, TypeOK
  <1>5. job' = other /\ other' = Ready /\ overlap' \in {"none", "now", "past"}
        /\ (overlap' = "none" => overlap = "none")
        /\ (other = Ready => overlap' # "now")
    BY <1>1 DEF EndJob, DriftInv, PublishTypeOK
  <1>6. PublishTypeOK'
    <2>1. other \in Job /\ Ready \in Job
      BY DEF DriftInv, PublishTypeOK, Job
    <2> QED BY <1>1, <1>3, <1>4, <1>5, <2>1 DEF DriftInv, PublishTypeOK
  <1>7. Wanted' = Wanted
    BY <1>1 DEF Wanted, Given, Before
  <1>8. ASSUME ~doubt', ~dirty' PROVE Shows(remote[target])'
    <2>1. job.clean /\ (vendor = "spotify" => ~job.failed)
      BY <1>1, <1>2, <1>8
    <2>2. /\ remote[job.to].tracks = job.want /\ job.want = Wanted
          /\ job.name = name /\ job.cover = cover
      BY <1>1, <1>2, <2>1 DEF PlanFor, SentFor
    <2>3. vendor = "spotify" =>
             remote[job.to].name = job.name /\ job.cover \in {NoCover, remote[job.to].cover}
      BY <1>1, <1>2, <2>1 DEF SentFor
    <2> QED BY <1>1, <1>7, <2>2, <2>3 DEF Shows
  <1>9. Badged'
    BY <1>8 DEF Badged
  <1>10. target' <= Len(remote') /\ Distinct(rows, pos)'
    BY <1>1, <1>2 DEF DriftInv, Distinct
  <1>11. Twiceless'
    BY <1>1, <1>5 DEF Twiceless, DriftInv
  <1>12. ASSUME other # Ready
         PROVE  /\ ~other.clean /\ other.to <= Len(remote) /\ PlanFor(job)'
                /\ other.st \in Late => other.to # 0 /\ SentFor(job, remote[job.to])'
    <2>1. /\ ~other.clean /\ other.to <= Len(remote) /\ PlanFor(other)
          /\ other.st \in Late => other.to # 0
      BY <1>12, OtherWorks
    <2>2. PlanFor(job)'
      BY <1>5, <2>1 DEF PlanFor
    <2>3. SentFor(job, remote[job.to])'
      BY <1>5, <2>1 DEF SentFor
    <2> QED BY <2>1, <2>2, <2>3
  <1>13. Apart'
    BY <1>5, <1>12 DEF Apart
  <1> QED BY <1>1, <1>5, <1>6, <1>9, <1>10, <1>11, <1>12, <1>13 DEF DriftInv

LEMMA FailsDrift == DriftInv /\ PublishFails => DriftInv'
  <1> SUFFICES ASSUME DriftInv, PublishFails PROVE DriftInv'
    OBVIOUS
  <1>1. /\ job # Ready /\ EndJob /\ UNCHANGED <<vars, remote, gone>>
        /\ doubt' = (doubt \/ job.st \notin {"list", "send"})
    BY DEF PublishFails, copyVars
  <1>2. troubles' \in 0..MaxTrouble
    BY NoTrouble DEF PublishFails
  <1>3. doubt \in BOOLEAN
    BY DEF DriftInv, PublishTypeOK
  <1>4. job.st \in {"list", "send", "fill", "cover", "save"}
    BY <1>1, InWork DEF DriftInv
  <1>5. doubt' \in BOOLEAN
    BY <1>1, <1>3
  <1>6. CASE job.st \in {"list", "send"}
    <2>1. doubt' = doubt /\ job.st \notin Late
      BY <1>1, <1>3, <1>6 DEF Late
    <2> QED BY <1>1, <1>2, <1>5, <2>1, EndOfJob
  <1>7. CASE job.st \notin {"list", "send"}
    <2>1. doubt'
      BY <1>1, <1>7
    <2> QED BY <1>1, <1>2, <1>5, <2>1, EndOfJob
  <1> QED BY <1>6, <1>7

LEMMA DeleteDrift == DriftInv /\ DeleteCopy => DriftInv'
  <1> SUFFICES ASSUME DriftInv, DeleteCopy PROVE DriftInv'
    OBVIOUS
  <1>1. PICK i \in DOMAIN remote : gone' = gone \cup {i}
    BY DEF DeleteCopy
  <1>2. UNCHANGED <<vendor, rows, pos, name, cover, target, dirty, req, requests,
                    remote, job, other, overlap, doubt>>
    BY DEF DeleteCopy, vars, meeting
  <1>3. troubles' \in 0..MaxTrouble
    BY NoTrouble DEF DeleteCopy
  <1>4. Wanted' = Wanted
    BY <1>2 DEF Wanted, Given, Before
  <1>5. PublishTypeOK'
    BY <1>1, <1>2, <1>3 DEF DriftInv, PublishTypeOK, TypeOK
  <1>6. Badged'
    BY <1>1, <1>2, <1>4 DEF DriftInv, Badged, Shows, Quiet
  <1>7. (PlanFor(job)' <=> PlanFor(job)) /\ (PlanFor(other)' <=> PlanFor(other))
    BY <1>2, <1>4 DEF PlanFor
  <1>8. SentFor(job, remote[job.to])' <=> SentFor(job, remote[job.to])
    BY <1>2 DEF SentFor
  <1>9. Apart' /\ Twiceless'
    BY <1>2, <1>7 DEF DriftInv, Apart, Twiceless
  <1> QED BY <1>2, <1>5, <1>6, <1>7, <1>8, <1>9 DEF DriftInv, Distinct

LEMMA EditingDrift == DriftInv /\ Editing => DriftInv'
  <1> SUFFICES ASSUME DriftInv, Editing PROVE DriftInv'
    OBVIOUS
  <1>1. /\ UNCHANGED <<vendor, target, remote, gone, meeting, doubt, troubles>>
        /\ Distinct(rows, pos)'
        /\ dirty => dirty'
        /\ target # 0 => dirty' \/ UNCHANGED <<rows, pos>>
        /\ target # 0 /\ vendor = "spotify" => dirty' \/ UNCHANGED <<name, cover>>
        /\ job' = job \/ (job # Ready /\ job' = [job EXCEPT !.clean = FALSE])
        /\ job # Ready /\ job'.clean => UNCHANGED <<rows, pos, name, cover>>
    BY EditingFacts
  <1>2. TypeOK'
    <2>1. [Next]_vars
      BY DEF Editing, Next
    <2> QED BY <2>1, TypeStep DEF DriftInv, PublishTypeOK
  <1>3. PublishTypeOK
    BY DEF DriftInv
  <1>4. /\ job' \in Job /\ (job' = Ready <=> job = Ready)
        /\ job # Ready =>
             /\ job'.st = job.st /\ job'.to = job.to /\ job'.name = job.name
             /\ job'.cover = job.cover /\ job'.want = job.want /\ job'.sent = job.sent
             /\ job'.failed = job.failed /\ job'.clean \in BOOLEAN
             /\ job'.clean => job.clean
    <2>1. CASE job' = job
      BY <1>3, <2>1, InWork DEF PublishTypeOK
    <2>2. CASE job # Ready /\ job' = [job EXCEPT !.clean = FALSE]
      <3>1. PICK j : j = [job EXCEPT !.clean = FALSE]
        OBVIOUS
      <3>2. j = [st |-> job.st, to |-> job.to, name |-> job.name, cover |-> job.cover,
                 want |-> job.want, sent |-> job.sent, failed |-> job.failed, clean |-> FALSE]
        BY <1>3, <2>2, <3>1, JobFields
      <3>3. /\ j \in Job /\ j # Ready
            /\ j.st = job.st /\ j.to = job.to /\ j.name = job.name /\ j.cover = job.cover
            /\ j.want = job.want /\ j.sent = job.sent /\ j.failed = job.failed /\ j.clean = FALSE
        <4>1. /\ job.st \in {"list", "send", "fill", "cover", "save"}
              /\ job.to \in Target \cup {0} /\ job.sent \in Nat /\ job.failed \in BOOLEAN
              /\ job.want \in Seq(Playable) /\ FALSE \in BOOLEAN
              /\ job.name \in Name /\ job.cover \in Cover \cup {NoCover}
          BY <1>3, <2>2, InWork
        <4>2. j \in Job
          BY <3>2, <4>1 DEF Job
        <4>3. j # Ready
          BY <3>2 DEF Ready
        <4> QED BY <3>2, <4>2, <4>3
      <3> QED BY <2>2, <3>1, <3>3
    <2> QED BY <1>1, <2>1, <2>2
  <1>5. PublishTypeOK'
    BY <1>1, <1>2, <1>4 DEF DriftInv, PublishTypeOK, meeting
  <1>6. UNCHANGED <<rows, pos>> => Wanted' = Wanted
    BY DEF Wanted, Given, Before
  <1>7. job # Ready => PlanFor(job)'
    <2>1. job # Ready => PlanFor(job)
      BY DEF DriftInv
    <2> QED BY <1>1, <1>4, <1>6, <2>1 DEF PlanFor, Late
  <1>8. job # Ready /\ job.st \in Late => SentFor(job, remote[job.to])'
    <2>1. job # Ready /\ job.st \in Late => SentFor(job, remote[job.to])
      BY DEF DriftInv
    <2> QED BY <1>1, <1>4, <2>1 DEF SentFor
  <1>9. Badged'
    <2> SUFFICES ASSUME Quiet', ~doubt', ~dirty', target' # 0, target' \notin gone'
                 PROVE  Shows(remote[target])'
      BY DEF Badged
    <2>1. ~doubt /\ ~dirty /\ target # 0 /\ target \notin gone /\ Quiet
      BY <1>1, <1>4 DEF Quiet, meeting
    <2>2. Shows(remote[target])
      BY <2>1 DEF DriftInv, Badged
    <2>3. Wanted' = Wanted /\ (vendor = "spotify" => UNCHANGED <<name, cover>>)
      BY <1>1, <1>6, <2>1
    <2> QED BY <1>1, <2>2, <2>3 DEF Shows
  <1>10. Twiceless'
    BY <1>1 DEF DriftInv, Twiceless, meeting
  <1>11. Apart'
    <2>1. other # Ready => PlanFor(other)'
      <3>1. ASSUME other # Ready PROVE ~other.clean /\ PlanFor(other) /\ other' = other
        BY <1>1, <3>1, OtherWorks DEF meeting
      <3>2. ASSUME other # Ready PROVE PlanFor(other)'
        BY <3>1, <3>2 DEF PlanFor
      <3> QED BY <3>2
    <2> QED BY <1>1, <1>4, <2>1 DEF DriftInv, Apart, meeting
  <1> QED BY <1>1, <1>4, <1>5, <1>7, <1>8, <1>9, <1>10, <1>11 DEF DriftInv

LEMMA DriftStep == DriftInv /\ [PublishNext]_pvars => DriftInv'
  <1> SUFFICES ASSUME DriftInv, [PublishNext]_pvars PROVE DriftInv'
    OBVIOUS
  <1>1. CASE UNCHANGED pvars
    <2>1. UNCHANGED <<vendor, rows, pos, name, cover, target, dirty, req, requests,
                      remote, gone, job, other, overlap, doubt, troubles>>
      BY <1>1 DEF pvars, vars, copyVars, jobVars
    <2>2. Wanted' = Wanted
      BY <2>1 DEF Wanted, Given, Before
    <2>3. PublishTypeOK'
      BY <2>1 DEF DriftInv, PublishTypeOK, TypeOK
    <2>4. Badged'
      BY <2>1, <2>2 DEF DriftInv, Badged, Shows, Quiet
    <2>5. (PlanFor(job)' <=> PlanFor(job)) /\ (PlanFor(other)' <=> PlanFor(other))
      BY <2>1, <2>2 DEF PlanFor
    <2>6. SentFor(job, remote[job.to])' <=> SentFor(job, remote[job.to])
      BY <2>1 DEF SentFor
    <2>7. Apart' /\ Twiceless'
      BY <2>1, <2>5 DEF DriftInv, Apart, Twiceless
    <2> QED BY <2>1, <2>3, <2>4, <2>5, <2>6, <2>7 DEF DriftInv, Distinct
  <1>2. CASE PublishNext
    BY <1>2, EditingDrift, ReadDrift, SwitchDrift, ListDrift, UpdateDrift, CreateDrift, FillDrift,
       ItemDrift, EndDrift, CoverDrift, SaveDrift, FailsDrift, DeleteDrift DEF PublishNext, Publishing
  <1> QED BY <1>1, <1>2

LEMMA DriftAlways == PublishSpec => []DriftInv
  BY DriftInit, DriftStep, PTL DEF PublishSpec

\* The publish keeps the types of its job and of the copies at the vendor.
THEOREM PublishTypeCorrect == PublishSpec => []PublishTypeOK
  <1>1. DriftInv => PublishTypeOK
    BY DEF DriftInv
  <1> QED BY <1>1, DriftAlways, PTL

\* A copy that differs from the playlist carries the badge, outside the five ways around it
\* that doubt and Settled set apart: an edit over a publish, a publish that fails half-way, a
\* batch applied twice, publishes that overlap, and YouTube Music's copy once they have.
THEOREM DriftAlwaysFlagged == PublishSpec => []DriftFlagged
  <1>1. DriftInv => DriftFlagged
    BY DEF DriftInv, Apart, Badged, Quiet, Shows, DriftFlagged, Settled
  <1> QED BY <1>1, DriftAlways, PTL

=============================================================================

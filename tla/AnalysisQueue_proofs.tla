------------------------ MODULE AnalysisQueue_proofs ------------------------
(* Proofs about AnalysisQueue: types, that no two clients are told to work  *)
(* on the same pair, and that no lease and no flagged track is left to      *)
(* nobody.                                                                  *)
EXTENDS AnalysisQueue, TLAPS

Row == {NoRow} \cup Leased \cup Finished

LEMMA RowKinds ==
    ASSUME NEW r \in Row
    PROVE  /\ r.status = "leased" => r \in Leased
           /\ r.status \in {"ok", "failed", "unusable_source"} => r \in Finished
           /\ r.status = "none" => r = NoRow
  <1>1. NoRow.status = "none"
    BY DEF NoRow
  <1>2. \A s \in Leased : s.status = "leased"
    BY DEF Leased
  <1>3. \A s \in Finished : s.status \in {"ok", "failed", "unusable_source"}
    BY DEF Finished
  <1> QED BY <1>1, <1>2, <1>3 DEF Row

LEMMA QueueTypeInit == Init => TypeOK
  BY QueueAssumption DEF Init, TypeOK

LEMMA ClaimingType ==
    ASSUME TypeOK, NEW k \in Client, Claiming(k)
    PROVE  TypeOK'
  <1>1. CASE ClaimPick(k)
    <2>1. \A p \in Pair : row'[p] \in Row
      <3> SUFFICES ASSUME NEW p \in Pair PROVE row'[p] \in Row
        OBVIOUS
      <3>1. row[p] \in Row
        BY DEF TypeOK, Row
      <3>2. HeldBy(p, k) => row[p].expired \in BOOLEAN
        BY <3>1, RowKinds DEF HeldBy, IsLeased, Leased
      <3> QED BY <1>1, <3>1, <3>2 DEF ClaimPick, Leased, Row
    <2>2. row' \in [Pair -> Row]
      BY <1>1, <2>1 DEF ClaimPick, TypeOK, Row
    <2> QED BY <1>1, <2>2 DEF ClaimPick, TypeOK, Row
  <1>2. CASE ClaimLease(k)
    <2>1. [status |-> "leased", lease |-> k, expired |-> FALSE] \in Leased
      BY DEF Leased
    <2>2. row' \in [Pair -> Row]
      BY <1>2, <2>1 DEF ClaimLease, TypeOK, Row
    <2> QED BY <1>2, <2>2 DEF ClaimLease, TypeOK, Row
  <1>3. CASE ClaimAnswer(k)
    BY <1>3 DEF ClaimAnswer, TypeOK, queueVars
  <1>4. CASE ClaimLost(k)
    BY <1>4, QueueAssumption DEF ClaimLost, Trouble, TypeOK, queueVars
  <1> QED BY <1>1, <1>2, <1>3, <1>4 DEF Claiming

LEMMA PostingType ==
    ASSUME TypeOK, NEW k \in Client, Posting(k)
    PROVE  TypeOK'
  <1>1. ASSUME NEW posted \in {got[k]} \cup {{p} : p \in got[k]}, NEW result \in Results,
               RecordResults(k, posted, result)
        PROVE  TypeOK'
    <2>1. posted \in SUBSET Pair
      BY DEF TypeOK
    <2>2. row' \in [Pair -> Row]
      BY <1>1 DEF RecordResults, Results, TypeOK, Row
    <2> QED BY <1>1, <2>1, <2>2 DEF RecordResults, TypeOK, Row
  <1>2. CASE ApplyRule(k)
    BY <1>2 DEF ApplyRule, TypeOK
  <1>3. CASE RecountRead(k) \/ RecountWrite(k)
    BY <1>3 DEF RecountRead, RecountWrite, TypeOK, queueVars
  <1>4. CASE ResultsAnswer(k)
    BY <1>4 DEF ResultsAnswer, TypeOK, queueVars
  <1>5. CASE ResultsFail(k)
    BY <1>5, QueueAssumption DEF ResultsFail, Trouble, TypeOK, queueVars
  <1> QED BY <1>1, <1>2, <1>3, <1>4, <1>5 DEF Posting

LEMMA WorldType ==
    ASSUME TypeOK,
           \/ \E k \in Client : Crash(k)
           \/ \E p \in Pair : Expire(p)
           \/ \E a \in Analyzer, failedToo \in BOOLEAN : Requeue(a, failedToo)
           \/ \E t \in Track : Match(t) \/ EnterPlay(t) \/ LeavePlay(t)
    PROVE  TypeOK'
  <1>1. ASSUME NEW k \in Client, Crash(k) PROVE TypeOK'
    BY <1>1, QueueAssumption DEF Crash, Trouble, TypeOK, queueVars
  <1>2. ASSUME NEW p \in Pair, Expire(p) PROVE TypeOK'
    <2>1. row[p] \in Leased
      BY <1>2, RowKinds DEF Expire, IsLeased, TypeOK, Row
    <2>2. [row[p] EXCEPT !.expired = TRUE] \in Leased
      BY <2>1 DEF Leased
    <2>3. row' \in [Pair -> Row]
      BY <1>2, <2>2 DEF Expire, TypeOK, Row
    <2>4. troubles' \in 0..MaxTrouble
      BY <1>2, QueueAssumption DEF Expire, Trouble, TypeOK
    <2> QED BY <1>2, <2>3, <2>4 DEF Expire, TypeOK, Row
  <1>3. ASSUME NEW a \in Analyzer, NEW failedToo \in BOOLEAN, Requeue(a, failedToo)
        PROVE  TypeOK'
    BY <1>3, QueueAssumption DEF Requeue, Trouble, TypeOK, clientVars
  <1>4. ASSUME NEW t \in Track, Match(t) \/ EnterPlay(t) \/ LeavePlay(t) PROVE TypeOK'
    BY <1>4 DEF Match, EnterPlay, LeavePlay, TypeOK, clientVars
  <1> QED BY <1>1, <1>2, <1>3, <1>4

LEMMA QueueTypeStep == TypeOK /\ [Next]_vars => TypeOK'
  <1> SUFFICES ASSUME TypeOK, [Next]_vars PROVE TypeOK'
    OBVIOUS
  <1>1. CASE UNCHANGED vars
    BY <1>1 DEF vars, queueVars, clientVars, TypeOK
  <1> QED BY <1>1, ClaimingType, PostingType, WorldType DEF Next

\* The rows and what the clients remember keep their shape.
THEOREM QueueTypeCorrect == Spec => []TypeOK
  BY QueueTypeInit, QueueTypeStep, PTL DEF Spec

-----------------------------------------------------------------------------
(* No shared work.  A client that was told its lease still runs does hold   *)
(* the row, and a row has one lease.                                        *)

LiveHeld == \A k \in Client, p \in Pair :
              p \in live[k] => HeldBy(p, k) /\ ~row[p].expired

LeaseInv == TypeOK /\ LiveHeld

LEMMA LeaseInvShares == LeaseInv => NoSharedWork
  BY DEF LeaseInv, LiveHeld, NoSharedWork, HeldBy, TypeOK

LEMMA ClaimPickLive ==
    ASSUME LeaseInv, NEW k \in Client, ClaimPick(k)
    PROVE  LiveHeld'
  <1>1. CASE pc[k] = "retry"
    BY <1>1 DEF ClaimPick, LeaseInv, LiveHeld, HeldBy, IsLeased
  <1>2. CASE pc[k] # "retry"
    <2> SUFFICES ASSUME NEW j \in Client, NEW p \in Pair, p \in live'[j]
                 PROVE  (HeldBy(p, j) /\ ~row[p].expired)'
      BY DEF LiveHeld
    <2>1. j # k /\ p \in live[j]
      BY <1>2 DEF ClaimPick, LeaseInv, TypeOK
    <2>2. HeldBy(p, j) /\ ~row[p].expired
      BY <2>1 DEF LeaseInv, LiveHeld
    <2>3. row'[p] = row[p]
      BY <1>2, <2>1, <2>2 DEF ClaimPick, HeldBy
    <2> QED BY <2>2, <2>3 DEF HeldBy, IsLeased
  <1> QED BY <1>1, <1>2

LEMMA ClaimLeaseLive ==
    ASSUME LeaseInv, NEW k \in Client, ClaimLease(k)
    PROVE  LiveHeld'
  <1> SUFFICES ASSUME NEW j \in Client, NEW p \in Pair, p \in live'[j]
               PROVE  (HeldBy(p, j) /\ ~row[p].expired)'
    BY DEF LiveHeld
  <1> DEFINE mine == {q \in pick[k] : Free(q, k)}
  <1>1. CASE p \in mine
    <2>1. row'[p] = [status |-> "leased", lease |-> k, expired |-> FALSE]
      BY <1>1 DEF ClaimLease
    <2>2. j = k
      <3> SUFFICES ASSUME j # k PROVE FALSE
        OBVIOUS
      <3>1. p \in live[j]
        BY DEF ClaimLease, LeaseInv, TypeOK
      <3>2. HeldBy(p, j) /\ ~row[p].expired
        BY <3>1 DEF LeaseInv, LiveHeld
      <3> QED BY <1>1, <3>2 DEF Free, HeldBy, IsLeased
    <2> QED BY <2>1, <2>2 DEF HeldBy, IsLeased
  <1>2. CASE p \notin mine
    <2>1. p \in live[j] /\ row'[p] = row[p]
      BY <1>2 DEF ClaimLease, LeaseInv, TypeOK
    <2> QED BY <2>1 DEF LeaseInv, LiveHeld, HeldBy, IsLeased
  <1> QED BY <1>1, <1>2

LEMMA RecordLive ==
    ASSUME LeaseInv, NEW k \in Client, NEW posted, NEW result, RecordResults(k, posted, result)
    PROVE  LiveHeld'
  <1> SUFFICES ASSUME NEW j \in Client, NEW p \in Pair, p \in live'[j]
               PROVE  (HeldBy(p, j) /\ ~row[p].expired)'
    BY DEF LiveHeld
  <1>1. p \in live[j] /\ (j = k => ~(p \in posted /\ HeldBy(p, k)))
    BY DEF RecordResults, LeaseInv, TypeOK
  <1>2. HeldBy(p, j) /\ ~row[p].expired
    BY <1>1 DEF LeaseInv, LiveHeld
  <1>3. row'[p] = row[p]
    BY <1>1, <1>2 DEF RecordResults, HeldBy
  <1> QED BY <1>2, <1>3 DEF HeldBy, IsLeased

LEMMA LeaseInvStep == LeaseInv /\ [Next]_vars => LeaseInv'
  <1> SUFFICES ASSUME LeaseInv, [Next]_vars PROVE LiveHeld'
    BY QueueTypeStep DEF LeaseInv
  <1>1. ASSUME UNCHANGED <<row, live>> PROVE LiveHeld'
    BY <1>1 DEF LeaseInv, LiveHeld, HeldBy, IsLeased
  <1>2. CASE UNCHANGED vars
    BY <1>1, <1>2 DEF vars, queueVars, clientVars
  <1>3. ASSUME NEW k \in Client, Claiming(k) PROVE LiveHeld'
    BY <1>1, <1>3, ClaimPickLive, ClaimLeaseLive
    DEF Claiming, ClaimAnswer, ClaimLost, queueVars
  <1>4. ASSUME NEW k \in Client, Posting(k) PROVE LiveHeld'
    BY <1>1, <1>4, RecordLive
    DEF Posting, ApplyRule, RecountRead, RecountWrite, ResultsAnswer, ResultsFail, queueVars
  <1>5. ASSUME NEW k \in Client, Crash(k) PROVE LiveHeld'
    BY <1>5 DEF Crash, queueVars, LeaseInv, TypeOK, LiveHeld, HeldBy, IsLeased
  <1>6. ASSUME NEW p \in Pair, Expire(p) PROVE LiveHeld'
    <2>1. \A q \in Pair \ {p} : row'[q] = row[q]
      BY <1>6 DEF Expire, LeaseInv, TypeOK
    <2>2. \A k \in Client : live'[k] = live[k] \ {p}
      BY <1>6 DEF Expire
    <2> QED BY <2>1, <2>2 DEF LeaseInv, LiveHeld, HeldBy, IsLeased
  <1>7. ASSUME NEW a \in Analyzer, NEW failedToo \in BOOLEAN, Requeue(a, failedToo)
        PROVE  LiveHeld'
    <2>1. \A q \in Pair : IsLeased(q) => row'[q] = row[q]
      BY <1>7 DEF Requeue, IsLeased
    <2> QED BY <1>7, <2>1 DEF Requeue, clientVars, LeaseInv, LiveHeld, HeldBy, IsLeased
  <1>8. ASSUME NEW t \in Track, Match(t) \/ EnterPlay(t) \/ LeavePlay(t) PROVE LiveHeld'
    BY <1>1, <1>8 DEF Match, EnterPlay, LeavePlay, clientVars
  <1> QED BY <1>2, <1>3, <1>4, <1>5, <1>6, <1>7, <1>8 DEF Next

\* However many claims overlap, expire, are retried or abandoned, no two clients are
\* at work on one pair under a lease they were told still runs.
THEOREM SharedWorkNever == Spec => []NoSharedWork
  <1>1. Init => LeaseInv
    BY QueueTypeInit DEF Init, LeaseInv, LiveHeld
  <1> QED BY <1>1, LeaseInvStep, LeaseInvShares, PTL DEF Spec

LEMMA FinishedStep ==
    ASSUME LeaseInv, [Next]_vars, NEW p \in Pair, IsFinished(p)
    PROVE  row'[p] = row[p] \/ row'[p] = NoRow
  <1>0. ~IsLeased(p) /\ \A k \in Client : ~Free(p, k) /\ ~HeldBy(p, k)
    BY DEF IsFinished, IsLeased, Free, HeldBy
  <1>1. ASSUME NEW k \in Client, Claiming(k) PROVE row'[p] = row[p]
    BY <1>0, <1>1 DEF Claiming, ClaimPick, ClaimLease, ClaimAnswer, ClaimLost, queueVars
  <1>2. ASSUME NEW k \in Client, Posting(k) PROVE row'[p] = row[p]
    BY <1>0, <1>2 DEF Posting, RecordResults, ApplyRule, RecountRead, RecountWrite,
                      ResultsAnswer, ResultsFail, queueVars
  <1>3. ASSUME NEW q \in Pair, Expire(q) PROVE row'[p] = row[p]
    BY <1>0, <1>3 DEF Expire, LeaseInv, TypeOK
  <1> QED
    BY <1>1, <1>2, <1>3
    DEF Next, Crash, Requeue, Match, EnterPlay, LeavePlay, vars, queueVars

\* A finished row changes only by being requeued.
THEOREM FinishedFinal == Spec => ResultsFinal
  <1>1. Init => LeaseInv
    BY QueueTypeInit DEF Init, LeaseInv, LiveHeld
  <1>2. LeaseInv /\ [Next]_vars =>
          [\A p \in Pair : IsFinished(p) => row'[p] = row[p] \/ row'[p] = NoRow]_vars
    BY FinishedStep
  <1> QED BY <1>1, <1>2, LeaseInvStep, PTL DEF Spec, ResultsFinal

-----------------------------------------------------------------------------
(* What EveryPairFinished and FlaggedLeavesPlay rest on: whatever           *)
(* still waits for a step is in the hands of somebody who can take it.      *)

Posts == {"working", "rule", "recount", "counting", "stored"}

\* The lease of a pair, unless it has run out, is that of a batch whose client is gone or
\* has dropped it, and then runs out by itself, or is live and its client is at work: one
\* that works has results to post.
LeasesAccounted ==
    \A p \in Pair : IsLeased(p) /\ ~row[p].expired =>
        \/ row[p].lease = Gone
        \/ \E k \in Client :
              /\ row[p].lease = k
              /\ pc[k] = "idle" \/ p \in live[k]
              /\ pc[k] = "working" => got[k] # {}

LiveTold == \A k \in Client, p \in Pair :
              HeldBy(p, k) /\ ~row[p].expired /\ pc[k] # "idle" => p \in live[k]

GotSome == \A k \in Client : pc[k] \in Posts => got[k] # {}

WorkInv == TypeOK /\ LiveTold /\ GotSome

LEMMA WorkInvAccounts == WorkInv => LeasesAccounted
  <1> SUFFICES ASSUME WorkInv, NEW p \in Pair, IsLeased(p), ~row[p].expired, row[p].lease # Gone
               PROVE  \E k \in Client :
                         /\ row[p].lease = k
                         /\ pc[k] = "idle" \/ p \in live[k]
                         /\ pc[k] = "working" => got[k] # {}
    BY DEF LeasesAccounted
  <1>1. row[p] \in Leased
    BY RowKinds DEF WorkInv, TypeOK, IsLeased, Row
  <1>2. row[p].lease \in Client
    BY <1>1 DEF Leased
  <1> QED BY <1>2 DEF WorkInv, LiveTold, GotSome, HeldBy, Posts

LEMMA ClaimPickTold ==
    ASSUME WorkInv, NEW k \in Client, ClaimPick(k)
    PROVE  LiveTold'
  <1> SUFFICES ASSUME NEW j \in Client, NEW p \in Pair,
                      (HeldBy(p, j) /\ ~row[p].expired /\ pc[j] # "idle")'
               PROVE  p \in live'[j]
    BY DEF LiveTold
  <1>1. CASE pc[k] = "retry"
    <2>1. row' = row /\ live' = live /\ (pc'[j] # "idle" => j = k \/ pc'[j] = pc[j])
      BY <1>1 DEF ClaimPick, WorkInv, TypeOK
    <2> QED BY <1>1, <2>1 DEF WorkInv, LiveTold, HeldBy, IsLeased
  <1>2. CASE pc[k] # "retry"
    <2>1. row'[p] = IF HeldBy(p, k)
                    THEN [status |-> "leased", lease |-> Gone, expired |-> row[p].expired]
                    ELSE row[p]
      BY <1>2 DEF ClaimPick
    <2>2. ~HeldBy(p, k) /\ row'[p] = row[p]
      BY <2>1, QueueAssumption DEF HeldBy
    <2>3. j # k
      BY <2>2 DEF HeldBy, IsLeased
    <2>4. live'[j] = live[j] /\ pc'[j] = pc[j]
      BY <1>2, <2>3 DEF ClaimPick, WorkInv, TypeOK
    <2> QED BY <2>2, <2>4 DEF WorkInv, LiveTold, HeldBy, IsLeased
  <1> QED BY <1>1, <1>2

LEMMA ClaimLeaseTold ==
    ASSUME WorkInv, NEW k \in Client, ClaimLease(k)
    PROVE  LiveTold'
  <1> DEFINE mine == {q \in pick[k] : Free(q, k)}
  <1> SUFFICES ASSUME NEW j \in Client, NEW p \in Pair,
                      (HeldBy(p, j) /\ ~row[p].expired /\ pc[j] # "idle")'
               PROVE  p \in live'[j]
    BY DEF LiveTold
  <1>1. live'[k] = live[k] \cup mine /\ \A i \in Client \ {k} : live'[i] = live[i]
    BY DEF ClaimLease, WorkInv, TypeOK
  <1>2. CASE p \in mine
    <2>1. row'[p] = [status |-> "leased", lease |-> k, expired |-> FALSE]
      BY <1>2 DEF ClaimLease
    <2>2. j = k
      BY <2>1 DEF HeldBy
    <2> QED BY <1>1, <1>2, <2>2
  <1>3. CASE p \notin mine
    <2>1. row'[p] = row[p] /\ pc[j] # "idle"
      BY <1>3 DEF ClaimLease, WorkInv, TypeOK
    <2>2. p \in live[j]
      BY <2>1 DEF WorkInv, LiveTold, HeldBy, IsLeased
    <2> QED BY <1>1, <2>2
  <1> QED BY <1>2, <1>3

LEMMA RecordTold ==
    ASSUME WorkInv, NEW k \in Client, NEW posted, NEW result \in Results,
           posted \in SUBSET Pair, RecordResults(k, posted, result)
    PROVE  LiveTold'
  <1> SUFFICES ASSUME NEW j \in Client, NEW p \in Pair,
                      (HeldBy(p, j) /\ ~row[p].expired /\ pc[j] # "idle")'
               PROVE  p \in live'[j]
    BY DEF LiveTold
  <1>1. result[p].status # "leased"
    BY DEF Results, Finished
  <1>2. ~(p \in posted /\ HeldBy(p, k)) /\ row'[p] = row[p]
    BY <1>1 DEF RecordResults, HeldBy, IsLeased
  <1>3. pc[j] # "idle"
    BY DEF RecordResults, WorkInv, TypeOK
  <1>4. p \in live[j]
    BY <1>2, <1>3 DEF WorkInv, LiveTold, HeldBy, IsLeased
  <1> QED BY <1>2, <1>4 DEF RecordResults, WorkInv, TypeOK

LEMMA LiveToldStep == WorkInv /\ [Next]_vars => LiveTold'
  <1> SUFFICES ASSUME WorkInv, [Next]_vars PROVE LiveTold'
    OBVIOUS
  <1>1. ASSUME UNCHANGED <<row, live>>,
               \A k \in Client : pc'[k] # "idle" => pc[k] # "idle"
        PROVE  LiveTold'
    BY <1>1 DEF WorkInv, LiveTold, HeldBy, IsLeased
  <1>2. CASE UNCHANGED vars
    BY <1>1, <1>2 DEF vars, queueVars, clientVars
  <1>3. ASSUME NEW k \in Client, Claiming(k) PROVE LiveTold'
    <2>1. CASE ClaimAnswer(k) \/ ClaimLost(k)
      <3>1. UNCHANGED <<row, live>> /\ \A j \in Client : pc'[j] # "idle" => pc[j] # "idle"
        BY <2>1 DEF ClaimAnswer, ClaimLost, queueVars, WorkInv, TypeOK
      <3> QED BY <1>1, <3>1
    <2> QED BY <1>3, <2>1, ClaimPickTold, ClaimLeaseTold DEF Claiming
  <1>4. ASSUME NEW k \in Client, Posting(k) PROVE LiveTold'
    <2>1. CASE \/ ApplyRule(k) \/ RecountRead(k) \/ RecountWrite(k) \/ ResultsAnswer(k)
               \/ ResultsFail(k)
      <3>1. UNCHANGED <<row, live>> /\ \A j \in Client : pc'[j] # "idle" => pc[j] # "idle"
        BY <2>1 DEF ApplyRule, RecountRead, RecountWrite, ResultsAnswer, ResultsFail, queueVars,
                    WorkInv, TypeOK
      <3> QED BY <1>1, <3>1
    <2>2. ASSUME NEW posted \in {got[k]} \cup {{p} : p \in got[k]}, NEW result \in Results,
                 RecordResults(k, posted, result)
          PROVE  LiveTold'
      <3>1. posted \in SUBSET Pair
        BY DEF WorkInv, TypeOK
      <3> QED BY <2>2, <3>1, RecordTold
    <2> QED BY <1>4, <2>1, <2>2 DEF Posting
  <1>5. ASSUME NEW k \in Client, Crash(k) PROVE LiveTold'
    <2>1. /\ row' = row /\ pc'[k] = "idle"
          /\ \A j \in Client \ {k} : pc'[j] = pc[j] /\ live'[j] = live[j]
      BY <1>5 DEF Crash, queueVars, WorkInv, TypeOK
    <2> QED BY <2>1 DEF WorkInv, LiveTold, HeldBy, IsLeased
  <1>6. ASSUME NEW p \in Pair, Expire(p) PROVE LiveTold'
    <2>1. /\ row'[p].expired
          /\ \A q \in Pair \ {p} : row'[q] = row[q]
          /\ \A k \in Client : live'[k] = live[k] \ {p} /\ pc'[k] = pc[k]
      <3>1. row[p] \in Leased
        BY <1>6, RowKinds DEF Expire, IsLeased, WorkInv, TypeOK, Row
      <3>2. row' = [row EXCEPT ![p] = [row[p] EXCEPT !.expired = TRUE]]
        BY <1>6 DEF Expire
      <3>3. [row[p] EXCEPT !.expired = TRUE].expired
        BY <3>1 DEF Leased
      <3> QED BY <1>6, <3>2, <3>3 DEF Expire, WorkInv, TypeOK
    <2> QED BY <2>1 DEF WorkInv, LiveTold, HeldBy, IsLeased
  <1>7. ASSUME NEW a \in Analyzer, NEW failedToo \in BOOLEAN, Requeue(a, failedToo)
        PROVE  LiveTold'
    <2>1. \A q \in Pair : row'[q] = row[q] \/ row'[q].status = "none"
      BY <1>7 DEF Requeue, NoRow
    <2> QED BY <1>7, <2>1 DEF Requeue, clientVars, WorkInv, LiveTold, HeldBy, IsLeased
  <1>8. ASSUME NEW t \in Track, Match(t) \/ EnterPlay(t) \/ LeavePlay(t) PROVE LiveTold'
    BY <1>1, <1>8 DEF Match, EnterPlay, LeavePlay, clientVars
  <1> QED BY <1>2, <1>3, <1>4, <1>5, <1>6, <1>7, <1>8 DEF Next

LEMMA GotSomeStep == WorkInv /\ [Next]_vars => GotSome'
  <1> SUFFICES ASSUME WorkInv, [Next]_vars, NEW j \in Client, pc'[j] \in Posts PROVE got'[j] # {}
    BY DEF GotSome
  <1>0. pc[j] \in Posts => got[j] # {}
    BY DEF WorkInv, GotSome
  <1>1. ASSUME got' = got, pc'[j] = pc[j] PROVE got'[j] # {}
    BY <1>0, <1>1
  <1>2. ASSUME NEW k \in Client, Claiming(k) PROVE got'[j] # {}
    <2>1. CASE ClaimAnswer(k)
      BY <1>0, <2>1 DEF ClaimAnswer, WorkInv, TypeOK, Posts
    <2>2. CASE ClaimPick(k) \/ ClaimLease(k) \/ ClaimLost(k)
      BY <1>0, <2>2 DEF ClaimPick, ClaimLease, ClaimLost, WorkInv, TypeOK, Posts
    <2> QED BY <1>2, <2>1, <2>2 DEF Claiming
  <1>3. ASSUME NEW k \in Client, Posting(k) PROVE got'[j] # {}
    <2>1. ASSUME NEW posted, NEW result, RecordResults(k, posted, result) PROVE got'[j] # {}
      BY <1>0, <2>1 DEF RecordResults, WorkInv, TypeOK, Posts
    <2>2. CASE ApplyRule(k) \/ RecountRead(k) \/ RecountWrite(k) \/ ResultsFail(k)
      BY <1>0, <2>2 DEF ApplyRule, RecountRead, RecountWrite, ResultsFail, WorkInv, TypeOK, Posts
    <2>3. CASE ResultsAnswer(k)
      BY <1>0, <2>3 DEF ResultsAnswer, WorkInv, TypeOK, Posts
    <2> QED BY <1>3, <2>1, <2>2, <2>3 DEF Posting
  <1>4. ASSUME NEW k \in Client, Crash(k) PROVE got'[j] # {}
    BY <1>0, <1>4 DEF Crash, WorkInv, TypeOK, Posts
  <1> QED BY <1>1, <1>2, <1>3, <1>4
          DEF Next, Expire, Requeue, Match, EnterPlay, LeavePlay, vars, clientVars

\* No pair waits for a lease that nobody would post under and that does not run out: from
\* there EveryPairFinished needs only that clients and leases take the steps they can.
THEOREM LeasesAlwaysAccounted == Spec => []LeasesAccounted
  <1>1. Init => WorkInv
    <2>1. Init => \A p \in Pair : ~IsLeased(p)
      BY DEF Init, IsLeased, NoRow
    <2> QED BY <2>1, QueueTypeInit DEF Init, WorkInv, LiveTold, GotSome, HeldBy, Posts
  <1>2. WorkInv /\ [Next]_vars => WorkInv'
    BY QueueTypeStep, LiveToldStep, GotSomeStep DEF WorkInv
  <1> QED BY <1>1, <1>2, WorkInvAccounts, PTL DEF Spec

\* To a flagged track in play, unless it came into play flagged or lost its request to a
\* death, a request is about to apply the rule.
FlaggedAwaitRule == \A t \in inPlay \ overlooked : Flagged(t) => AwaitsRule(t)

LEMMA FlagOld ==
    ASSUME NEW t, \A p \in Pair : row'[p].status = "ok" => row'[p] = row[p],
           t \in Track, Flagged(t)'
    PROVE  Flagged(t)
  <1>1. PICK a \in PairAnalyzers : (row[<<t, a>>].status = "ok" /\ row[<<t, a>>].ai)'
    BY DEF Flagged
  <1>2. <<t, a>> \in Pair
    BY QueueAssumption DEF Pair
  <1> QED BY <1>1, <1>2 DEF Flagged

LEMMA RecordAwaits ==
    ASSUME TypeOK, NEW k \in Client, NEW posted, NEW result,
           RecordResults(k, posted, result), NEW t \in Track, Flagged(t)',
           Flagged(t) => AwaitsRule(t)
    PROVE  AwaitsRule(t)'
  <1> DEFINE accepted == {p \in posted : HeldBy(p, k)}
  <1>1. PICK a \in PairAnalyzers : (row[<<t, a>>].status = "ok" /\ row[<<t, a>>].ai)'
    BY DEF Flagged
  <1>2. <<t, a>> \in Pair
    BY QueueAssumption DEF Pair
  <1>3. CASE <<t, a>> \in accepted
    <2>1. result[<<t, a>>].ai
      BY <1>1, <1>2, <1>3 DEF RecordResults
    <2>2. t \in {u \in Track : \E p \in accepted : p[1] = u /\ result[p].ai}
      BY <1>3, <2>1
    <2>3. pc'[k] = "rule" /\ t \in tally'[k]
      BY <2>2 DEF RecordResults, TypeOK
    <2> QED BY <2>3 DEF AwaitsRule
  <1>4. CASE <<t, a>> \notin accepted
    <2>1. row'[<<t, a>>] = row[<<t, a>>]
      BY <1>2, <1>4 DEF RecordResults
    <2>2. Flagged(t)
      BY <1>1, <2>1 DEF Flagged
    <2>3. PICK j \in Client : pc[j] = "rule" /\ t \in tally[j]
      BY <2>2 DEF AwaitsRule
    <2>4. pc'[j] = "rule" /\ tally'[j] = tally[j]
      BY <2>3 DEF RecordResults, TypeOK
    <2> QED BY <2>3, <2>4 DEF AwaitsRule
  <1> QED BY <1>3, <1>4

LEMMA FlaggedStep == TypeOK /\ FlaggedAwaitRule /\ [Next]_vars => FlaggedAwaitRule'
  <1> SUFFICES ASSUME TypeOK, FlaggedAwaitRule, [Next]_vars,
                      NEW t \in inPlay', t \notin overlooked', Flagged(t)'
               PROVE  AwaitsRule(t)'
    BY DEF FlaggedAwaitRule
  <1>0. t \in Track
    BY QueueTypeStep DEF TypeOK
  <1>1. t \in inPlay /\ t \notin overlooked /\ Flagged(t) => AwaitsRule(t)
    BY DEF FlaggedAwaitRule
  <1>2. ASSUME UNCHANGED <<row, pc, tally>>, t \in inPlay \ overlooked \/ ~Flagged(t)
        PROVE  AwaitsRule(t)'
    BY <1>0, <1>1, <1>2, FlagOld DEF AwaitsRule
  <1>3. ASSUME t \in inPlay \ overlooked, \A p \in Pair : row'[p].status = "ok" => row'[p] = row[p],
               \A k \in Client : pc[k] = "rule" => pc'[k] = pc[k] /\ tally'[k] = tally[k]
        PROVE  AwaitsRule(t)'
    BY <1>0, <1>1, <1>3, FlagOld DEF AwaitsRule
  <1>4. ASSUME NEW k \in Client, Claiming(k) PROVE AwaitsRule(t)'
    <2>1. /\ inPlay' = inPlay /\ overlooked' = overlooked
          /\ \A p \in Pair : row'[p].status = "ok" => row'[p] = row[p]
      BY <1>4 DEF Claiming, ClaimPick, ClaimLease, ClaimAnswer, ClaimLost, queueVars
    <2>2. \A j \in Client : pc[j] = "rule" => pc'[j] = pc[j] /\ tally'[j] = tally[j]
      BY <1>4 DEF Claiming, ClaimPick, ClaimLease, ClaimAnswer, ClaimLost, TypeOK
    <2> QED BY <1>3, <2>1, <2>2
  <1>5. ASSUME NEW k \in Client, Posting(k) PROVE AwaitsRule(t)'
    <2>1. ASSUME NEW posted, NEW result, RecordResults(k, posted, result) PROVE AwaitsRule(t)'
      <3>1. inPlay' = inPlay /\ overlooked' = overlooked \ tally'[k]
        BY <2>1 DEF RecordResults
      <3>2. CASE t \in tally'[k]
        <4>1. pc'[k] = "rule"
          BY <2>1 DEF RecordResults, TypeOK
        <4> QED BY <3>2, <4>1 DEF AwaitsRule
      <3>3. CASE t \notin tally'[k]
        BY <1>0, <1>1, <2>1, <3>1, <3>3, RecordAwaits
      <3> QED BY <3>2, <3>3
    <2>2. CASE ApplyRule(k)
      <3>1. Flagged(t)
        BY <1>0, <2>2, FlagOld DEF ApplyRule
      <3>2. t \in inPlay /\ t \notin tally[k] /\ t \notin overlooked
        BY <2>2, <3>1 DEF ApplyRule
      <3>3. PICK j \in Client : pc[j] = "rule" /\ t \in tally[j]
        BY <1>1, <3>1, <3>2 DEF AwaitsRule
      <3>4. pc'[j] = "rule" /\ tally'[j] = tally[j]
        BY <2>2, <3>2, <3>3 DEF ApplyRule, TypeOK
      <3> QED BY <3>3, <3>4 DEF AwaitsRule
    <2>3. CASE RecountRead(k) \/ RecountWrite(k) \/ ResultsAnswer(k)
      <3>1. UNCHANGED <<inPlay, row, overlooked>>
        BY <2>3 DEF RecountRead, RecountWrite, ResultsAnswer, queueVars
      <3>2. \A j \in Client : pc[j] = "rule" => pc'[j] = pc[j] /\ tally'[j] = tally[j]
        BY <2>3 DEF RecountRead, RecountWrite, ResultsAnswer, TypeOK
      <3> QED BY <1>3, <3>1, <3>2
    <2>4. CASE ResultsFail(k)
      <3>1. UNCHANGED <<inPlay, row>> /\ overlooked \subseteq overlooked'
        BY <2>4 DEF ResultsFail, queueVars
      <3>2. Flagged(t)
        BY <1>0, <3>1, FlagOld
      <3>3. PICK j \in Client : pc[j] = "rule" /\ t \in tally[j]
        BY <1>1, <3>1, <3>2 DEF AwaitsRule
      <3>4. CASE j = k
        BY <1>0, <2>4, <3>1, <3>2, <3>3, <3>4 DEF ResultsFail
      <3>5. CASE j # k
        <4>1. pc'[j] = "rule" /\ tally'[j] = tally[j]
          BY <2>4, <3>3, <3>5 DEF ResultsFail, TypeOK
        <4> QED BY <3>3, <4>1 DEF AwaitsRule
      <3> QED BY <3>4, <3>5
    <2> QED BY <1>5, <2>1, <2>2, <2>3, <2>4 DEF Posting
  <1>6. ASSUME NEW p \in Pair, Expire(p) PROVE AwaitsRule(t)'
    <2>1. UNCHANGED <<inPlay, pc, tally, overlooked>>
      BY <1>6 DEF Expire
    <2>2. \A q \in Pair : row'[q].status = "ok" => row'[q] = row[q]
      <3>1. row[p] \in Leased
        BY <1>6, RowKinds DEF Expire, IsLeased, TypeOK, Row
      <3>2. row' = [row EXCEPT ![p] = [row[p] EXCEPT !.expired = TRUE]]
        BY <1>6 DEF Expire
      <3>3. [row[p] EXCEPT !.expired = TRUE].status = "leased"
        BY <3>1 DEF Leased
      <3> QED BY <3>2, <3>3 DEF TypeOK
    <2> QED BY <1>3, <2>1, <2>2
  <1>7. ASSUME NEW k \in Client, Crash(k) PROVE AwaitsRule(t)'
    <2>1. UNCHANGED <<inPlay, row, overlooked, tally>>
      BY <1>7 DEF Crash, queueVars
    <2>2. \A j \in Client : pc[j] = "rule" => pc'[j] = pc[j]
      BY <1>7 DEF Crash, TypeOK
    <2> QED BY <1>3, <2>1, <2>2
  <1>8. ASSUME NEW a \in Analyzer, NEW failedToo \in BOOLEAN, Requeue(a, failedToo)
        PROVE  AwaitsRule(t)'
    <2>1. UNCHANGED <<inPlay, pc, tally>> /\ (t \in overlooked => t \in overlooked')
      BY <1>8 DEF Requeue, clientVars
    <2>2. \A p \in Pair : row'[p].status = "ok" => row'[p] = row[p]
      BY <1>8 DEF Requeue, NoRow
    <2> QED BY <1>3, <2>1, <2>2
  <1>9. ASSUME NEW u \in Track, Match(u) \/ EnterPlay(u) \/ LeavePlay(u) PROVE AwaitsRule(t)'
    <2>1. UNCHANGED <<row, pc, tally>>
      BY <1>9 DEF Match, EnterPlay, LeavePlay, clientVars
    <2>2. CASE t \in inPlay \ overlooked
      BY <1>2, <2>1, <2>2
    <2>3. CASE t \notin inPlay \ overlooked
      <3>1. t \notin inPlay /\ t = u /\ EnterPlay(u)
        BY <1>9, <2>3 DEF Match, EnterPlay, LeavePlay
      <3>2. ~Flagged(t) \/ AwaitsRule(t)
        BY <3>1 DEF EnterPlay
      <3> QED BY <1>0, <2>1, <3>2, FlagOld DEF AwaitsRule
    <2> QED BY <2>2, <2>3
  <1>10. CASE UNCHANGED vars
    BY <1>2, <1>10 DEF vars, queueVars, clientVars
  <1> QED BY <1>4, <1>5, <1>6, <1>7, <1>8, <1>9, <1>10 DEF Next

\* A flagged track is in play without a request about to apply the rule to it only if it
\* came into play flagged, or the request that flagged it died before the rule: no other
\* interleaving of claims, posts, requeues, expiries and moves leaves one behind.
THEOREM FlaggedAlwaysAwaitRule == Spec => []FlaggedAwaitRule
  <1>1. Init => TypeOK /\ FlaggedAwaitRule
    BY QueueTypeInit DEF Init, FlaggedAwaitRule
  <1>2. TypeOK /\ FlaggedAwaitRule /\ [Next]_vars => (TypeOK /\ FlaggedAwaitRule)'
    BY QueueTypeStep, FlaggedStep
  <1> QED BY <1>1, <1>2, PTL DEF Spec

=============================================================================

--------------------------- MODULE AnalysisQueue ---------------------------
(***************************************************************************)
(* The work queue of the external audio analyzer                           *)
(* (src/src/collector/repositories/analysis.py): tracks are leased to      *)
(* clients over HTTP, leases run out, late results are refused, flagged    *)
(* results trigger the AI rule.  The server steps are the autocommitted    *)
(* statements of claim_analysis and record_analysis_results; the client is *)
(* external and is modelled by the requests the API lets it make.          *)
(*                                                                         *)
(* Time is abstract: a lease may run out at any moment (Expire), since     *)
(* lease_seconds is chosen by the client.                                  *)
(***************************************************************************)
EXTENDS Naturals, FiniteSets

CONSTANTS
    Track, Analyzer,
    PairAnalyzers,  \* the two detectors whose verdict flags a track
    Rank,           \* Rank[t]: smaller is newer, the order claims go through
    Client,         \* processes of the analyzer, each with its current lease_id
    Gone,           \* the lease_id of a batch whose client will not speak again
    Limit,          \* tracks per claim
    MaxTrouble      \* bounds what goes wrong: deaths, lost answers, late leases, requeues

ASSUME QueueAssumption ==
    /\ PairAnalyzers \subseteq Analyzer
    /\ Rank \in [Track -> Nat]
    /\ Gone \notin Client
    /\ Limit \in Nat \ {0}
    /\ MaxTrouble \in Nat

VARIABLES
    matched,    \* tracks with a ytmusic row in vendor_track_map
    inPlay,     \* tracks in a bucket other than DISCARD of an open block
    row,        \* track_analyses
    counted,    \* the tracks their label's ai_tracks counts (one label owns all)
    pc,         \* where the request of each client stands
    pick,       \* the pairs its claim has picked, then the pairs it has leased
    got,        \* the pairs the client was handed and has not posted
    live,       \* the pairs whose lease, as the client was told, has not run out
    items,      \* the pairs of the results request in progress
    tally,      \* the tracks the request's results flag, then what its recount has read
    troubles,
    overlooked  \* history, nothing reads it: the flagged tracks in play no rule is due for
                \* any more, for they came into play flagged or the request died

queueVars == <<matched, inPlay, row, counted>>
clientVars == <<pc, pick, got, live, items, tally>>
vars == <<queueVars, clientVars, troubles, overlooked>>

Pair == Track \X Analyzer
NoRow == [status |-> "none"]
Leased == [status : {"leased"}, lease : Client \cup {Gone}, expired : BOOLEAN]
Finished == [status : {"ok"}, ai : BOOLEAN]
            \cup [status : {"failed", "unusable_source"}, ai : {FALSE}]

TypeOK ==
    /\ matched \in SUBSET Track
    /\ inPlay \in SUBSET Track
    /\ row \in [Pair -> {NoRow} \cup Leased \cup Finished]
    /\ counted \in SUBSET Track
    /\ pc \in [Client -> {"idle", "picked", "leased", "retry", "working",
                          "rule", "recount", "counting", "stored"}]
    /\ pick \in [Client -> SUBSET Pair]
    /\ got \in [Client -> SUBSET Pair]
    /\ live \in [Client -> SUBSET Pair]
    /\ items \in [Client -> SUBSET Pair]
    /\ tally \in [Client -> SUBSET Track]
    /\ troubles \in 0..MaxTrouble
    /\ overlooked \in SUBSET Track

Init ==
    /\ matched = {} /\ inPlay = {} /\ counted = {}
    /\ row = [p \in Pair |-> NoRow]
    /\ pc = [k \in Client |-> "idle"]
    /\ pick = [k \in Client |-> {}]
    /\ got = [k \in Client |-> {}]
    /\ live = [k \in Client |-> {}]
    /\ items = [k \in Client |-> {}]
    /\ tally = [k \in Client |-> {}]
    /\ troubles = 0
    /\ overlooked = {}

-----------------------------------------------------------------------------
Trouble == troubles < MaxTrouble /\ troubles' = troubles + 1

IsLeased(p) == row[p].status = "leased"
HeldBy(p, k) == IsLeased(p) /\ row[p].lease = k
IsFinished(p) == row[p].status \in {"ok", "failed", "unusable_source"}

\* AI_FLAGGED_SQL.
Flagged(t) == \E a \in PairAnalyzers : row[<<t, a>>].status = "ok" /\ row[<<t, a>>].ai

\* A request that stored a flag of the track is about to apply the rule to it.
AwaitsRule(t) == \E k \in Client : pc[k] = "rule" /\ t \in tally[k]

\* Mutant: a lease that ran out is not handed out again.
FreeOnlyOwn(p, k) == row[p].status = "none" \/ HeldBy(p, k)

\* Not _CLAIM_HELD: no row, a lease that ran out, or a lease of the same lease_id.
Free(p, k) == row[p].status = "none" \/ (IsLeased(p) /\ (row[p].expired \/ row[p].lease = k))

\* The owner's target first, newest first within each.
Before(t, u) ==
    \/ t \in inPlay /\ u \notin inPlay
    \/ (t \in inPlay <=> u \in inPlay) /\ Rank[t] < Rank[u]

Missing(k) == {t \in matched : \E a \in Analyzer : Free(<<t, a>>, k)}
Picked(k) == {t \in Missing(k) : Cardinality({u \in Missing(k) : Before(u, t)}) < Limit}

-----------------------------------------------------------------------------
(* POST /analysis/claim: the statement takes its snapshot, then its INSERT  *)
(* meets the rows other claims have committed since.                       *)

\* A batch that is over, or a claim whose answer never came.  A new batch has a new
\* lease_id: rows under the old one are nobody's until they run out.
ClaimPick(k) ==
    /\ pc[k] \in {"idle", "retry"}
    /\ row' = IF pc[k] = "retry" THEN row
              ELSE [p \in Pair |->
                      IF HeldBy(p, k)
                      THEN [status |-> "leased", lease |-> Gone, expired |-> row[p].expired]
                      ELSE row[p]]
    /\ live' = IF pc[k] = "retry" THEN live ELSE [live EXCEPT ![k] = {}]
    /\ pick' = [pick EXCEPT ![k] = {p \in Pair : p[1] \in Picked(k) /\ Free(p, k)}]
    /\ pc' = [pc EXCEPT ![k] = "picked"]
    /\ UNCHANGED <<matched, inPlay, counted, got, items, tally, troubles, overlooked>>

\* Mutant: ON CONFLICT DO UPDATE without its WHERE.
ClaimLeaseBlind(k) ==
    /\ pc[k] = "picked"
    /\ row' = [p \in Pair |-> IF p \in pick[k]
                              THEN [status |-> "leased", lease |-> k, expired |-> FALSE]
                              ELSE row[p]]
    /\ live' = [live EXCEPT ![k] = @ \cup pick[k]]
    /\ pc' = [pc EXCEPT ![k] = "leased"]
    /\ UNCHANGED <<matched, inPlay, counted, pick, got, items, tally, troubles, overlooked>>

\* ON CONFLICT .. DO UPDATE .. WHERE: what the other claims left.
ClaimLease(k) ==
    LET mine == {p \in pick[k] : Free(p, k)}
    IN  /\ pc[k] = "picked"
        /\ row' = [p \in Pair |-> IF p \in mine
                                  THEN [status |-> "leased", lease |-> k, expired |-> FALSE]
                                  ELSE row[p]]
        /\ pick' = [pick EXCEPT ![k] = mine]
        /\ live' = [live EXCEPT ![k] = @ \cup mine]
        /\ pc' = [pc EXCEPT ![k] = "leased"]
        /\ UNCHANGED <<matched, inPlay, counted, got, items, tally, troubles, overlooked>>

ClaimAnswer(k) ==
    /\ pc[k] = "leased"
    /\ got' = [got EXCEPT ![k] = pick[k]]
    /\ pc' = [pc EXCEPT ![k] = IF pick[k] = {} THEN "idle" ELSE "working"]
    /\ UNCHANGED <<queueVars, pick, live, items, tally, troubles, overlooked>>

\* The gateway times out, the client asks again with the same lease_id.
ClaimLost(k) ==
    /\ pc[k] = "leased"
    /\ Trouble
    /\ pc' = [pc EXCEPT ![k] = "retry"]
    /\ UNCHANGED <<queueVars, pick, got, live, items, tally, overlooked>>

-----------------------------------------------------------------------------
(* POST /analysis/results: the UPDATE, the AI rule, the recount, the answer. *)

\* Only a detector's result says ai_detected.
Results == {r \in [Pair -> Finished] : \A p \in Pair : r[p].ai => p[2] \in PairAnalyzers}

\* Mutant: the UPDATE matches the pair only.
RecordAnyLease(k, posted, result) ==
    /\ pc[k] = "working"
    /\ row' = [p \in Pair |-> IF p \in posted THEN result[p] ELSE row[p]]
    /\ live' = [live EXCEPT ![k] = @ \ posted]
    /\ items' = [items EXCEPT ![k] = posted]
    /\ pick' = [pick EXCEPT ![k] = posted]
    /\ tally' = [tally EXCEPT ![k] = {t \in Track : \E p \in posted : p[1] = t /\ result[p].ai}]
    /\ pc' = [pc EXCEPT ![k] = "rule"]
    /\ overlooked' = overlooked \ tally'[k]
    /\ UNCHANGED <<matched, inPlay, counted, got, troubles>>

\* The UPDATE stores what the lease still holds (run out or not) and nothing else;
\* pick[k] becomes the accepted pairs.
RecordResults(k, posted, result) ==
    LET accepted == {p \in posted : HeldBy(p, k)}
    IN  /\ pc[k] = "working"
        /\ row' = [p \in Pair |-> IF p \in accepted THEN result[p] ELSE row[p]]
        /\ live' = [live EXCEPT ![k] = @ \ accepted]
        /\ items' = [items EXCEPT ![k] = posted]
        /\ pick' = [pick EXCEPT ![k] = accepted]
        /\ tally' = [tally EXCEPT ![k] =
                       {t \in Track : \E p \in accepted : p[1] = t /\ result[p].ai}]
        /\ pc' = [pc EXCEPT ![k] = "rule"]
        /\ overlooked' = overlooked \ tally'[k]
        /\ UNCHANGED <<matched, inPlay, counted, got, troubles>>

\* Mutant: the rule takes the tracks of the pairs that were refused.
ApplyRuleToRejected(k) ==
    /\ pc[k] = "rule"
    /\ inPlay' = inPlay \ {t \in Track :
                    Flagged(t) /\ \E a \in PairAnalyzers : <<t, a>> \in items[k] \ pick[k]}
    /\ overlooked' = overlooked \cap inPlay'
    /\ tally' = [tally EXCEPT ![k] = {}]
    /\ pc' = [pc EXCEPT ![k] = IF \E t \in Track, a \in PairAnalyzers : <<t, a>> \in pick[k]
                               THEN "recount" ELSE "stored"]
    /\ UNCHANGED <<matched, row, counted, pick, got, live, items, troubles>>

\* Only what this request stored and flagged leaves, and only if it is still flagged.
ApplyRule(k) ==
    /\ pc[k] = "rule"
    /\ inPlay' = inPlay \ {t \in tally[k] : Flagged(t)}
    /\ overlooked' = overlooked \cap inPlay'
    /\ tally' = [tally EXCEPT ![k] = {}]
    /\ pc' = [pc EXCEPT ![k] = IF \E t \in Track, a \in PairAnalyzers : <<t, a>> \in pick[k]
                               THEN "recount" ELSE "stored"]
    /\ UNCHANGED <<matched, row, counted, pick, got, live, items, troubles>>

\* The recount is one UPDATE, which aggregates in its snapshot and then waits for the
\* row of the label: a row updated meanwhile is written with the old aggregate.
RecountRead(k) ==
    /\ pc[k] = "recount"
    /\ tally' = [tally EXCEPT ![k] = {t \in Track : Flagged(t)}]
    /\ pc' = [pc EXCEPT ![k] = "counting"]
    /\ UNCHANGED <<queueVars, pick, got, live, items, troubles, overlooked>>

RecountWrite(k) ==
    /\ pc[k] = "counting"
    /\ counted' = tally[k]
    /\ pc' = [pc EXCEPT ![k] = "stored"]
    /\ UNCHANGED <<matched, inPlay, row, pick, got, live, items, tally, troubles, overlooked>>

\* Accepted or lease_lost, the client is done with the posted pairs.
ResultsAnswer(k) ==
    /\ pc[k] = "stored"
    /\ got' = [got EXCEPT ![k] = @ \ items[k]]
    /\ items' = [items EXCEPT ![k] = {}]
    /\ tally' = [tally EXCEPT ![k] = {}]
    /\ pc' = [pc EXCEPT ![k] = IF got[k] \subseteq items[k] THEN "idle" ELSE "working"]
    /\ UNCHANGED <<queueVars, pick, live, troubles, overlooked>>

\* The Lambda dies or times out after the UPDATE; the client posts again, and is told
\* lease_lost: what had not been done by then is never done.
ResultsFail(k) ==
    /\ pc[k] \in {"rule", "recount", "counting", "stored"}
    /\ Trouble
    /\ items' = [items EXCEPT ![k] = {}]
    /\ tally' = [tally EXCEPT ![k] = {}]
    /\ pc' = [pc EXCEPT ![k] = "working"]
    /\ overlooked' = IF pc[k] = "rule"
                     THEN overlooked \cup {t \in tally[k] \cap inPlay : Flagged(t) /\ ~AwaitsRule(t)'}
                     ELSE overlooked
    /\ UNCHANGED <<queueVars, pick, got, live>>

-----------------------------------------------------------------------------
(* The rest of the world.                                                  *)

\* Mutant: the sweep analysis_status suggests, which rewrites the status.
ExpireStatus(p) ==
    /\ IsLeased(p) /\ ~row[p].expired
    /\ row' = [row EXCEPT ![p] = [status |-> "expired"]]
    /\ UNCHANGED <<matched, inPlay, counted, clientVars, troubles, overlooked>>

\* The lease of a batch in hand runs out as a trouble; one nobody works on
\* any more does so whenever it likes.
Expire(p) ==
    /\ IsLeased(p) /\ ~row[p].expired
    /\ IF row[p].lease = Gone \/ pc[row[p].lease] = "idle"
       THEN UNCHANGED troubles
       ELSE Trouble
    /\ row' = [row EXCEPT ![p].expired = TRUE]
    /\ live' = [k \in Client |-> live[k] \ {p}]
    /\ UNCHANGED <<matched, inPlay, counted, pc, pick, got, items, tally, overlooked>>

\* The client process dies between two requests and forgets its lease_id.
Crash(k) ==
    /\ pc[k] \in {"retry", "working"}
    /\ Trouble
    /\ pc' = [pc EXCEPT ![k] = "idle"]
    /\ got' = [got EXCEPT ![k] = {}]
    /\ live' = [live EXCEPT ![k] = {}]
    /\ UNCHANGED <<queueVars, pick, items, tally, overlooked>>

\* Finished rows only: live leases are never touched.
Requeue(a, failedToo) ==
    /\ Trouble
    /\ row' = [p \in Pair |->
                 IF /\ p[2] = a
                    /\ \/ row[p].status \in {"ok", "unusable_source"}
                       \/ failedToo /\ row[p].status = "failed"
                 THEN NoRow ELSE row[p]]
    /\ overlooked' = {t \in overlooked : Flagged(t)'}
    /\ UNCHANGED <<matched, inPlay, counted, clientVars>>

Match(t) ==
    /\ t \notin matched
    /\ matched' = matched \cup {t}
    /\ UNCHANGED <<inPlay, row, counted, clientVars, troubles, overlooked>>

\* By create_block, by a transfer or by hand.  The first reads the flags long before it
\* commits and the others do not read them, so a flagged track may come into play.
EnterPlay(t) ==
    /\ inPlay' = inPlay \cup {t}
    /\ overlooked' = overlooked \cup {u \in {t} \ inPlay : Flagged(u) /\ ~AwaitsRule(u)}
    /\ UNCHANGED <<matched, row, counted, clientVars, troubles>>

\* Moved to DISCARD, or its last open block was finalized or deleted.
LeavePlay(t) ==
    /\ inPlay' = inPlay \ {t}
    /\ overlooked' = overlooked \ {t}
    /\ UNCHANGED <<matched, row, counted, clientVars, troubles>>

Claiming(k) == ClaimPick(k) \/ ClaimLease(k) \/ ClaimAnswer(k) \/ ClaimLost(k)

\* All the pairs the client was handed, or one of them.
Posting(k) ==
    \/ \E posted \in {got[k]} \cup {{p} : p \in got[k]}, result \in Results :
          RecordResults(k, posted, result)
    \/ ApplyRule(k)
    \/ RecountRead(k)
    \/ RecountWrite(k)
    \/ ResultsAnswer(k)
    \/ ResultsFail(k)

Next ==
    \/ \E k \in Client : Claiming(k) \/ Posting(k) \/ Crash(k)
    \/ \E p \in Pair : Expire(p)
    \/ \E a \in Analyzer, failedToo \in BOOLEAN : Requeue(a, failedToo)
    \/ \E t \in Track : Match(t) \/ EnterPlay(t) \/ LeavePlay(t)

Spec == Init /\ [][Next]_vars

\* The analyzer is a loop of claims and posts, the server answers what it starts
\* unless it fails, and a lease runs out.
Fairness ==
    /\ \A k \in Client :
          /\ WF_vars(ClaimPick(k)) /\ WF_vars(ClaimLease(k)) /\ WF_vars(ClaimAnswer(k))
          /\ WF_vars(\E result \in Results : RecordResults(k, got[k], result))
          /\ WF_vars(ApplyRule(k)) /\ WF_vars(RecountRead(k)) /\ WF_vars(RecountWrite(k))
          /\ WF_vars(ResultsAnswer(k))
    /\ \A p \in Pair : WF_vars(Expire(p))

FairSpec == Spec /\ Fairness

-----------------------------------------------------------------------------
(* Properties.                                                             *)

\* "Two claimers never share a pair": of the clients that were told their lease still
\* runs, one at most is working on a pair, whatever overlaps, expires or is retried.
NoSharedWork ==
    \A j, k \in Client : j # k =>
        (got[j] \cap live[j]) \cap (got[k] \cap live[k]) = {}

\* A result is final until an admin requeues it: neither a late post of a lease that
\* ran out, nor a retried post, nor a claim touches a finished row.
ResultsFinal ==
    [][\A p \in Pair : IsFinished(p) => row'[p] = row[p] \/ row'[p] = NoRow]_vars

\* Every track that has a video is analysed by every analyzer in the end, although
\* clients die, answers get lost and leases run out at any time.
EveryPairFinished ==
    \A p \in Pair : p[1] \in matched ~> IsFinished(p)

\* A track the results flag while it is in play leaves play, whoever else claims, posts,
\* requeues or is late.  It may stay in two cases, which analysis.py:103 does not have: it
\* came into play when it was flagged, or the request died between its UPDATE and the rule.
FlaggedLeavesPlay ==
    \A t \in Track : Flagged(t) ~> (t \notin inPlay \/ t \in overlooked \/ ~Flagged(t))

=============================================================================

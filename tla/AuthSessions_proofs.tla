------------------------ MODULE AuthSessions_proofs ------------------------
(* Proofs about AuthSessions: types, that no overlap of requests loses the  *)
(* vendor's refresh token, that a disconnected account stays so, and that   *)
(* no overlap alone sets off the tripwire of a replayed refresh token.      *)
EXTENDS AuthSessions, TLAPS

HoldStage == {"upsert_vendor_token", "store_login", "resolver_update"}
AskStage == {"oauth_refresh", "resolver_refresh"}

RealToken(t) == t \in [of : Session, n : 1..MaxRefresh]

\* A refresh has a real token and asks Spotify; whoever is waited for is one.
StageInv ==
    /\ \A r \in Request : req[r].pc \in RefreshStage =>
          req[r].vendor = "spotify" /\ RealToken(req[r].token)
    /\ \A b \in Browser : waiting[b] # None => req[waiting[b]].pc \in RefreshStage

\* The tokens a vendor has made that only the user can have ended.
Live(v) == grants[v] \cup taken[v]

HoldsFor(r, v) == req[r].pc \in HoldStage /\ req[r].vendor = v
AsksFor(r, v) == req[r].pc \in AskStage /\ req[r].vendor = v

\* A token some request holds is live, and of a rotating vendor it is nobody else's and
\* unknown to whoever has read the stored one.
HeldInv(v) ==
    /\ Live(v) \subseteq 1..minted[v]
    /\ \A r \in Request : HoldsFor(r, v) => req[r].grant \in Live(v)
    /\ \A r \in Request : AsksFor(r, v) => req[r].grant <= minted[v]
    /\ v \in Rotates =>
          \A r \in Request : HoldsFor(r, v) =>
              /\ req[r].grant # stored[v]
              /\ \A q \in Request \ {r} :
                    HoldsFor(q, v) \/ AsksFor(q, v) => req[q].grant # req[r].grant

\* The stored token is live, or its successor is held, or died with its request.
StoredInv(v) ==
    stored[v] \in Live(v) \cup {0} \/ lost[v] \/ \E r \in Request : HoldsFor(r, v)

AuthInv == AuthTypeOK /\ StageInv /\ \A v \in Vendor : HeldInv(v) /\ StoredInv(v)
-----------------------------------------------------------------------------
(* One vendor, one request that moves.                                     *)

\* Only request r moves.
Moves(r) == \A q \in Request \ {r} : req'[q] = req[q]

SameTokens(v) ==
    stored'[v] = stored[v] /\ grants'[v] = grants[v] /\ minted'[v] = minted[v] /\ taken'[v] = taken[v]

VendorInv(v) == HeldInv(v) /\ StoredInv(v)

VendorTypeOK(v) ==
    /\ minted[v] \in Nat /\ stored[v] \in 0..minted[v] /\ grants[v] \subseteq 0..minted[v]
    /\ \A r \in Request : req[r].grant \in Nat

\* A request that neither held a token of v nor now holds or reads one.
LEMMA QuietVendor ==
    ASSUME NEW v \in Vendor, VendorInv(v), NEW r \in Request, Moves(r),
           SameTokens(v), lost'[v] = lost[v],
           ~HoldsFor(r, v), ~HoldsFor(r, v)', ~AsksFor(r, v)'
    PROVE  VendorInv(v)'
  <1>1. \A q \in Request : /\ HoldsFor(q, v)' <=> HoldsFor(q, v)
                           /\ AsksFor(q, v)' => AsksFor(q, v)
                           /\ HoldsFor(q, v)' \/ AsksFor(q, v)' => req'[q].grant = req[q].grant
    BY DEF Moves, HoldsFor, AsksFor
  <1>2. Live(v)' = Live(v)
    BY DEF SameTokens, Live
  <1>3. HeldInv(v)'
    BY <1>1, <1>2 DEF VendorInv, HeldInv, SameTokens
  <1>4. StoredInv(v)'
    BY <1>1, <1>2 DEF VendorInv, StoredInv, SameTokens
  <1> QED BY <1>3, <1>4 DEF VendorInv

\* A request that reads the stored token to refresh it.
LEMMA AskVendor ==
    ASSUME NEW v \in Vendor, VendorInv(v), VendorTypeOK(v), NEW r \in Request, Moves(r),
           SameTokens(v), lost'[v] = lost[v],
           ~HoldsFor(r, v), ~HoldsFor(r, v)', req'[r].grant = stored[v]
    PROVE  VendorInv(v)'
  <1>1. \A q \in Request : /\ HoldsFor(q, v)' <=> HoldsFor(q, v)
                           /\ HoldsFor(q, v)' => q # r /\ req'[q].grant = req[q].grant
    BY DEF Moves, HoldsFor
  <1>2. \A q \in Request \ {r} : AsksFor(q, v)' => AsksFor(q, v) /\ req'[q].grant = req[q].grant
    BY DEF Moves, AsksFor
  <1>3. Live(v)' = Live(v) /\ stored'[v] = stored[v] /\ minted'[v] = minted[v]
    BY DEF SameTokens, Live
  <1>4. HeldInv(v)'
    <2>1. \A q \in Request : HoldsFor(q, v)' => req'[q].grant \in Live(v)'
      BY <1>1, <1>3 DEF VendorInv, HeldInv
    <2>2. \A q \in Request : AsksFor(q, v)' => req'[q].grant <= minted'[v]
      BY <1>2, <1>3 DEF VendorInv, HeldInv, VendorTypeOK
    <2>3. ASSUME v \in Rotates, NEW h \in Request, HoldsFor(h, v)'
          PROVE  /\ req'[h].grant # stored'[v]
                 /\ \A q \in Request \ {h} :
                       HoldsFor(q, v)' \/ AsksFor(q, v)' => req'[q].grant # req'[h].grant
      <3>1. HoldsFor(h, v) /\ h # r /\ req'[h].grant = req[h].grant /\ req[h].grant # stored[v]
        BY <1>1, <2>3 DEF VendorInv, HeldInv
      <3>2. \A q \in Request \ {h} :
               HoldsFor(q, v) \/ AsksFor(q, v) => req[q].grant # req[h].grant
        BY <2>3, <3>1 DEF VendorInv, HeldInv
      <3> QED BY <1>1, <1>2, <1>3, <3>1, <3>2
    <2> QED BY <1>3, <2>1, <2>2, <2>3 DEF VendorInv, HeldInv
  <1>5. StoredInv(v)'
    BY <1>1, <1>3 DEF VendorInv, StoredInv
  <1> QED BY <1>4, <1>5 DEF VendorInv

\* A request that got a new token of v, made or exchanged by the vendor: a rotating vendor
\* has made a number it never made before, and ends at most the token the request read.
LEMMA GotVendor ==
    ASSUME NEW v \in Vendor, VendorInv(v), VendorTypeOK(v), NEW r \in Request, Moves(r),
           stored'[v] = stored[v], taken'[v] = taken[v],
           ~HoldsFor(r, v), HoldsFor(r, v)',
           \/ /\ v \notin Rotates /\ grants'[v] = grants[v] /\ minted'[v] = minted[v]
              /\ req'[r].grant \in grants[v]
           \/ /\ minted'[v] = minted[v] + 1 /\ req'[r].grant = minted[v] + 1
              /\ \/ grants'[v] = grants[v] \cup {minted[v] + 1}
                 \/ /\ AsksFor(r, v)
                    /\ v \in Rotates
                    /\ grants'[v] = (grants[v] \ {req[r].grant}) \cup {minted[v] + 1}
    PROVE  VendorInv(v)'
  <1>1. \A q \in Request \ {r} : /\ HoldsFor(q, v)' <=> HoldsFor(q, v)
                                 /\ AsksFor(q, v)' <=> AsksFor(q, v)
                                 /\ req'[q].grant = req[q].grant
    BY DEF Moves, HoldsFor, AsksFor
  <1>2. ~AsksFor(r, v)'
    BY DEF HoldsFor, AsksFor, HoldStage, AskStage
  <1>3. minted[v] \in Nat /\ minted'[v] \in Nat /\ minted[v] <= minted'[v]
    BY DEF VendorTypeOK
  <1>4. Live(v)' \subseteq 1..minted'[v]
    BY <1>3 DEF VendorInv, HeldInv, Live
  <1>5. req'[r].grant \in Live(v)'
    BY DEF Live
  <1>6. ASSUME NEW q \in Request, HoldsFor(q, v)' PROVE req'[q].grant \in Live(v)'
    <2>1. CASE q = r
      BY <1>5, <2>1
    <2>2. CASE q # r
      <3>1. HoldsFor(q, v) /\ req'[q].grant = req[q].grant /\ req[q].grant \in Live(v)
        BY <1>1, <1>6, <2>2 DEF VendorInv, HeldInv
      <3>2. v \in Rotates /\ AsksFor(r, v) => req[r].grant # req[q].grant
        BY <2>2, <3>1 DEF VendorInv, HeldInv
      <3> QED BY <3>1, <3>2 DEF Live
    <2> QED BY <2>1, <2>2
  <1>7. ASSUME NEW q \in Request, AsksFor(q, v)' PROVE req'[q].grant <= minted'[v]
    <2>1. q # r /\ AsksFor(q, v) /\ req'[q].grant = req[q].grant
      BY <1>1, <1>2, <1>7
    <2>2. req[q].grant <= minted[v] /\ req[q].grant \in Nat
      BY <2>1 DEF VendorInv, HeldInv, VendorTypeOK
    <2> QED BY <1>3, <2>1, <2>2
  <1>8. ASSUME v \in Rotates, NEW h \in Request, HoldsFor(h, v)'
        PROVE  /\ req'[h].grant # stored'[v]
               /\ \A q \in Request \ {h} :
                     HoldsFor(q, v)' \/ AsksFor(q, v)' => req'[q].grant # req'[h].grant
    <2>1. /\ req'[r].grant = minted[v] + 1 /\ stored[v] <= minted[v] /\ stored[v] \in Nat
      BY <1>8 DEF VendorTypeOK
    <2>2. ASSUME NEW q \in Request \ {r}, HoldsFor(q, v) \/ AsksFor(q, v)
          PROVE  req[q].grant # minted[v] + 1
      <3>1. req[q].grant <= minted[v] /\ req[q].grant \in Nat
        BY <1>3, <2>2 DEF VendorInv, HeldInv, VendorTypeOK
      <3> QED BY <1>3, <3>1
    <2>3. CASE h = r
      <3>1. req'[h].grant # stored'[v]
        BY <1>3, <2>1, <2>3
      <3>2. ASSUME NEW q \in Request \ {h}, HoldsFor(q, v)' \/ AsksFor(q, v)'
            PROVE  req'[q].grant # req'[h].grant
        BY <1>1, <2>1, <2>2, <2>3, <3>2
      <3> QED BY <3>1, <3>2
    <2>4. CASE h # r
      <3>1. HoldsFor(h, v) /\ req'[h].grant = req[h].grant
        BY <1>1, <1>8, <2>4
      <3>2. req[h].grant # stored[v]
        BY <1>8, <3>1 DEF VendorInv, HeldInv
      <3>3. ASSUME NEW q \in Request \ {h}, HoldsFor(q, v)' \/ AsksFor(q, v)'
            PROVE  req'[q].grant # req'[h].grant
        <4>1. CASE q = r
          BY <2>1, <2>2, <2>4, <3>1, <4>1
        <4>2. CASE q # r
          <5>1. (HoldsFor(q, v) \/ AsksFor(q, v)) /\ req'[q].grant = req[q].grant
            BY <1>1, <3>3, <4>2
          <5>2. req[q].grant # req[h].grant
            BY <1>8, <3>1, <3>3, <5>1 DEF VendorInv, HeldInv
          <5> QED BY <3>1, <5>1, <5>2
        <4> QED BY <4>1, <4>2
      <3> QED BY <3>1, <3>2, <3>3
    <2> QED BY <2>3, <2>4
  <1>9. HeldInv(v)'
    BY <1>4, <1>6, <1>7, <1>8 DEF HeldInv
  <1>10. StoredInv(v)'
    BY DEF StoredInv
  <1> QED BY <1>9, <1>10 DEF VendorInv

\* The vendor's answer is lost on the way.
LEMMA LostVendor ==
    ASSUME NEW v \in Vendor, VendorInv(v), VendorTypeOK(v), NEW r \in Request, Moves(r),
           stored'[v] = stored[v], taken'[v] = taken[v], lost'[v],
           ~HoldsFor(r, v)', ~AsksFor(r, v)',
           \/ grants'[v] = grants[v] /\ minted'[v] = minted[v]
           \/ /\ AsksFor(r, v) /\ v \in Rotates
              /\ minted'[v] = minted[v] + 1
              /\ grants'[v] = (grants[v] \ {req[r].grant}) \cup {minted[v] + 1}
    PROVE  VendorInv(v)'
  <1>1. \A q \in Request \ {r} : /\ HoldsFor(q, v)' <=> HoldsFor(q, v)
                                 /\ AsksFor(q, v)' <=> AsksFor(q, v)
                                 /\ req'[q].grant = req[q].grant
    BY DEF Moves, HoldsFor, AsksFor
  <1>2. minted[v] \in Nat /\ minted'[v] \in Nat /\ minted[v] <= minted'[v]
    BY DEF VendorTypeOK
  <1>3. Live(v)' \subseteq 1..minted'[v]
    BY <1>2 DEF VendorInv, HeldInv, Live
  <1>4. ASSUME NEW q \in Request, HoldsFor(q, v)' PROVE req'[q].grant \in Live(v)'
    <2>1. q # r /\ HoldsFor(q, v) /\ req'[q].grant = req[q].grant /\ req[q].grant \in Live(v)
      BY <1>1, <1>4 DEF VendorInv, HeldInv
    <2>2. v \in Rotates /\ AsksFor(r, v) => req[r].grant # req[q].grant
      BY <2>1 DEF VendorInv, HeldInv
    <2> QED BY <2>1, <2>2 DEF Live
  <1>5. ASSUME NEW q \in Request, AsksFor(q, v)' PROVE req'[q].grant <= minted'[v]
    <2>1. q # r /\ AsksFor(q, v) /\ req'[q].grant = req[q].grant
      BY <1>1, <1>5
    <2>2. req[q].grant <= minted[v] /\ req[q].grant \in Nat
      BY <2>1 DEF VendorInv, HeldInv, VendorTypeOK
    <2> QED BY <1>2, <2>1, <2>2
  <1>6. ASSUME v \in Rotates, NEW h \in Request, HoldsFor(h, v)'
        PROVE  /\ req'[h].grant # stored'[v]
               /\ \A q \in Request \ {h} :
                     HoldsFor(q, v)' \/ AsksFor(q, v)' => req'[q].grant # req'[h].grant
    <2>1. h # r /\ HoldsFor(h, v) /\ req'[h].grant = req[h].grant
      BY <1>1, <1>6
    <2>2. /\ req[h].grant # stored[v]
          /\ \A q \in Request \ {h} :
                HoldsFor(q, v) \/ AsksFor(q, v) => req[q].grant # req[h].grant
      BY <1>6, <2>1 DEF VendorInv, HeldInv
    <2> QED BY <1>1, <2>1, <2>2
  <1>7. HeldInv(v)'
    BY <1>3, <1>4, <1>5, <1>6 DEF HeldInv
  <1>8. StoredInv(v)'
    BY DEF StoredInv
  <1> QED BY <1>7, <1>8 DEF VendorInv

\* A request that stores what it holds, or finds no row to store it in.
LEMMA StoreVendor ==
    ASSUME NEW v \in Vendor, VendorInv(v), VendorTypeOK(v), NEW r \in Request, Moves(r),
           grants'[v] = grants[v], minted'[v] = minted[v], taken'[v] = taken[v],
           HoldsFor(r, v), ~HoldsFor(r, v)', ~AsksFor(r, v)',
           stored'[v] \in {0, req[r].grant}
    PROVE  VendorInv(v)'
  <1>1. \A q \in Request \ {r} : /\ HoldsFor(q, v)' <=> HoldsFor(q, v)
                                 /\ AsksFor(q, v)' <=> AsksFor(q, v)
                                 /\ req'[q].grant = req[q].grant
    BY DEF Moves, HoldsFor, AsksFor
  <1>2. Live(v)' = Live(v) /\ minted'[v] = minted[v] /\ req[r].grant \in Live(v)
    BY DEF Live, VendorInv, HeldInv
  <1>3. ASSUME v \in Rotates, NEW h \in Request, HoldsFor(h, v)'
        PROVE  /\ req'[h].grant # stored'[v]
               /\ \A q \in Request \ {h} :
                     HoldsFor(q, v)' \/ AsksFor(q, v)' => req'[q].grant # req'[h].grant
    <2>1. h # r /\ HoldsFor(h, v) /\ req'[h].grant = req[h].grant
      BY <1>1, <1>3
    <2>2. \A q \in Request \ {h} :
             HoldsFor(q, v) \/ AsksFor(q, v) => req[q].grant # req[h].grant
      BY <1>3, <2>1 DEF VendorInv, HeldInv
    <2>3. req[h].grant # req[r].grant
      BY <2>1, <2>2
    <2>4. req[h].grant # 0
      BY <2>1 DEF VendorInv, HeldInv, VendorTypeOK
    <2> QED BY <1>1, <2>1, <2>2, <2>3, <2>4
  <1>4. HeldInv(v)'
    <2>1. \A q \in Request : HoldsFor(q, v)' => req'[q].grant \in Live(v)'
      BY <1>1, <1>2 DEF VendorInv, HeldInv
    <2>2. \A q \in Request : AsksFor(q, v)' => req'[q].grant <= minted'[v]
      BY <1>1, <1>2 DEF VendorInv, HeldInv
    <2> QED BY <1>2, <1>3, <2>1, <2>2 DEF VendorInv, HeldInv
  <1>5. StoredInv(v)'
    BY <1>2 DEF StoredInv
  <1> QED BY <1>4, <1>5 DEF VendorInv
-----------------------------------------------------------------------------
(* Types, and where requests stand.                                        *)

ReqRecord == [pc : {"idle"} \cup RefreshStage \cup LoginStage \cup ResolveStage,
              by : Browser \cup {None}, token : Token, vendor : Vendor, grant : Nat]

StageOf(j) == j.pc \in RefreshStage => j.vendor = "spotify" /\ RealToken(j.token)

VendorTypes ==
    /\ stored \in [Vendor -> Nat] /\ grants \in [Vendor -> SUBSET Nat]
    /\ minted \in [Vendor -> Nat]
    /\ \A v \in Vendor : /\ minted[v] <= MaxGrant[v]
                         /\ grants[v] \cup {stored[v]} \subseteq 0..minted[v]
    /\ taken \in [Vendor -> SUBSET Nat] /\ lost \in [Vendor -> BOOLEAN]

SessionTypes ==
    /\ session \in [Session -> [status : {"none", "active", "ended"}, hash : 0..MaxRefresh]]
    /\ issued \in [Session -> 0..MaxRefresh]
    /\ cookie \in [Browser -> Token]
    /\ doubt \in SUBSET Session /\ faults \in 0..MaxFaults

WaitingTypes == waiting \in [Browser -> Request \cup {None}]

LEMMA TypesApart ==
    AuthTypeOK <=> /\ SessionTypes /\ VendorTypes /\ WaitingTypes
                   /\ req \in [Request -> ReqRecord]
  BY Zenon DEF AuthTypeOK, SessionTypes, VendorTypes, WaitingTypes, ReqRecord

LEMMA TypesTogether ==
    ASSUME SessionTypes', VendorTypes', WaitingTypes', req' \in [Request -> ReqRecord]
    PROVE  AuthTypeOK'
  BY Zenon DEF AuthTypeOK, SessionTypes, VendorTypes, WaitingTypes, ReqRecord

\* Request r becomes j; whoever waits for r still waits for a refresh.
LEMMA ReqStep ==
    ASSUME AuthTypeOK, StageInv, NEW r \in Request, NEW j \in ReqRecord, StageOf(j),
           req' = [req EXCEPT ![r] = j],
           waiting' \in [Browser -> Request \cup {None}],
           \A b \in Browser : \/ waiting'[b] = r /\ j.pc \in RefreshStage
                              \/ waiting'[b] # r /\ waiting'[b] \in {None, waiting[b]}
    PROVE  /\ req' \in [Request -> ReqRecord] /\ StageInv'
           /\ req'[r] = j /\ Moves(r)
  <1>1. req \in [Request -> ReqRecord]
    BY TypesApart
  <1>2. req'[r] = j /\ Moves(r) /\ req' \in [Request -> ReqRecord]
    BY <1>1 DEF Moves
  <1>3. ASSUME NEW q \in Request, req'[q].pc \in RefreshStage
        PROVE  req'[q].vendor = "spotify" /\ RealToken(req'[q].token)
    <2>1. CASE q = r
      BY <1>2, <1>3, <2>1 DEF StageOf
    <2>2. CASE q # r
      <3>1. req'[q] = req[q]
        BY <1>2, <2>2 DEF Moves
      <3> QED BY <1>3, <3>1 DEF StageInv
    <2> QED BY <2>1, <2>2
  <1>4. ASSUME NEW b \in Browser, waiting'[b] # None
        PROVE  req'[waiting'[b]].pc \in RefreshStage
    <2>1. CASE waiting'[b] = r
      BY <1>2, <2>1
    <2>2. CASE waiting'[b] # r /\ waiting'[b] = waiting[b]
      <3>1. waiting[b] \in Request \ {r}
        BY <1>4, <2>2
      <3>2. req'[waiting[b]] = req[waiting[b]]
        BY <1>2, <3>1 DEF Moves
      <3> QED BY <1>4, <2>2, <3>2 DEF StageInv
    <2> QED BY <1>4, <2>1, <2>2
  <1>5. StageInv'
    BY <1>3, <1>4 DEF StageInv, RealToken
  <1> QED BY <1>2, <1>5

LEMMA NoTokenApart == ASSUME NEW t \in Token, t # NoToken PROVE RealToken(t)
  BY DEF Token, RealToken

LEMMA IdleRecord == Idle \in ReqRecord /\ StageOf(Idle)
  BY DEF Idle, ReqRecord, StageOf, NoToken, Token, Vendor, RefreshStage

\* Who waits for nobody that is idle, waits for nobody that has just begun.
LEMMA NobodyWaits ==
    ASSUME AuthTypeOK, StageInv, NEW r \in Request, req[r].pc \notin RefreshStage,
           NEW b \in Browser
    PROVE  waiting[b] # r
  <1>1. waiting[b] = r => waiting[b] # None
    BY AuthAssumption
  <1> QED BY <1>1 DEF StageInv

LEMMA VendorTypesAt ==
    ASSUME AuthTypeOK, NEW v \in Vendor
    PROVE  VendorTypeOK(v)
  <1>1. req \in [Request -> ReqRecord] /\ VendorTypes
    BY TypesApart
  <1>2. \A r \in Request : req[r].grant \in Nat
    BY <1>1 DEF ReqRecord
  <1> QED BY <1>1, <1>2 DEF VendorTypes, VendorTypeOK

\* How waiting may change when request r becomes j.
WaitsRight(r, j) ==
    /\ waiting' \in [Browser -> Request \cup {None}]
    /\ \A b \in Browser : \/ waiting'[b] = r /\ j.pc \in RefreshStage
                          \/ waiting'[b] # r /\ waiting'[b] \in {None, waiting[b]}

LEMMA WaitsKept ==
    ASSUME AuthTypeOK, StageInv, NEW r \in Request, NEW j \in ReqRecord,
           waiting' = waiting, j.pc \in RefreshStage \/ req[r].pc \notin RefreshStage
    PROVE  WaitsRight(r, j)
  <1>1. waiting \in [Browser -> Request \cup {None}]
    BY TypesApart DEF WaitingTypes
  <1> QED BY <1>1, NobodyWaits DEF WaitsRight

LEMMA WaitsEnded ==
    ASSUME AuthTypeOK, NEW r \in Request, NEW j \in ReqRecord,
           waiting' = [b \in Browser |-> IF waiting[b] = r THEN None ELSE waiting[b]]
    PROVE  WaitsRight(r, j)
  <1>1. waiting \in [Browser -> Request \cup {None}]
    BY TypesApart DEF WaitingTypes
  <1>2. waiting' \in [Browser -> Request \cup {None}]
    BY <1>1
  <1>3. None # r
    BY AuthAssumption
  <1> QED BY <1>1, <1>2, <1>3 DEF WaitsRight

\* A step of a request that concerns no vendor token.
LEMMA QuietStep ==
    ASSUME AuthInv, NEW r \in Request, NEW j \in ReqRecord, StageOf(j),
           req' = [req EXCEPT ![r] = j], WaitsRight(r, j), UNCHANGED vendorVars,
           req[r].pc \notin HoldStage, j.pc \notin HoldStage \cup AskStage,
           SessionTypes'
    PROVE  AuthInv'
  <1>1. /\ req' \in [Request -> ReqRecord] /\ StageInv' /\ req'[r] = j /\ Moves(r)
    BY ReqStep DEF AuthInv, WaitsRight
  <1>2. VendorTypes'
    BY TypesApart DEF AuthInv, vendorVars, VendorTypes
  <1>3. AuthTypeOK'
    BY <1>1, <1>2, TypesTogether DEF WaitsRight, WaitingTypes
  <1>4. ASSUME NEW v \in Vendor PROVE VendorInv(v)'
    <2>1. VendorInv(v)
      BY DEF AuthInv, VendorInv
    <2>2. ~HoldsFor(r, v) /\ ~HoldsFor(r, v)' /\ ~AsksFor(r, v)'
      BY <1>1 DEF HoldsFor, AsksFor
    <2>3. SameTokens(v) /\ lost'[v] = lost[v]
      BY DEF vendorVars, SameTokens
    <2> QED BY <1>1, <2>1, <2>2, <2>3, QuietVendor
  <1> QED BY <1>1, <1>3, <1>4 DEF AuthInv, VendorInv

\* A request that ends and held no token.
LEMMA RefusedStep ==
    ASSUME AuthInv, NEW r \in Request, Refused(r), UNCHANGED vendorVars,
           req[r].pc \notin HoldStage,
           session' \in [Session -> [status : {"none", "active", "ended"}, hash : 0..MaxRefresh]],
           UNCHANGED <<issued, doubt, faults>>
    PROVE  AuthInv'
  <1>1. WaitsRight(r, Idle)
    BY WaitsEnded, IdleRecord DEF Refused, AuthInv
  <1>2. SessionTypes'
    BY TypesApart DEF AuthInv, SessionTypes, Refused
  <1>3. Idle.pc \notin HoldStage \cup AskStage
    BY DEF Idle, HoldStage, AskStage
  <1> QED BY <1>1, <1>2, <1>3, IdleRecord, QuietStep DEF Refused

LEMMA EndedTypes ==
    ASSUME SessionTypes, NEW S \in SUBSET Session, session' = Ended(S)
    PROVE  session' \in [Session -> [status : {"none", "active", "ended"}, hash : 0..MaxRefresh]]
  <1>1. ASSUME NEW t \in Session
        PROVE  [session[t] EXCEPT !.status = "ended"]
                  \in [status : {"none", "active", "ended"}, hash : 0..MaxRefresh]
    BY DEF SessionTypes
  <1> QED BY <1>1 DEF SessionTypes, Ended
-----------------------------------------------------------------------------
(* Steps of browsers.                                                      *)

LEMMA BrowserStep ==
    ASSUME AuthInv, NEW b \in Browser,
           \/ Abandon(b) \/ Logout(b)
           \/ \E t \in Session : RevokeSession(b, t) \/ Expire(t)
    PROVE  AuthInv'
  <1> USE AuthAssumption
  <1>1. SessionTypes' /\ UNCHANGED <<req, vendorVars>>
    <2>1. CASE Abandon(b)
      <3>1. req[waiting[b]].token.of \in Session
        <4>1. waiting[b] \in Request /\ RealToken(req[waiting[b]].token)
          BY <2>1, TypesApart DEF Abandon, AuthInv, StageInv, WaitingTypes
        <4> QED BY <4>1 DEF RealToken
      <3>2. doubt' \in SUBSET Session
        BY <2>1, <3>1, TypesApart DEF Abandon, AuthInv, SessionTypes
      <3>3. faults' \in 0..MaxFaults
        BY <2>1, TypesApart DEF Abandon, AuthInv, SessionTypes
      <3> QED BY <2>1, <3>2, <3>3, TypesApart DEF Abandon, AuthInv, SessionTypes, sessionVars
    <2>2. CASE Logout(b)
      <3>1. SessionTypes
        BY TypesApart DEF AuthInv
      <3>2. session' \in [Session -> [status : {"none", "active", "ended"}, hash : 0..MaxRefresh]]
        <4>1. NoToken.of \notin Session /\ SentTo("/auth/logout", b) = NoToken
          BY DEF NoToken, SentTo
        <4>2. session' = Ended({})
          BY <2>2, <4>1 DEF Logout, Ended
        <4> QED BY <3>1, <4>2, EndedTypes
      <3>3. cookie' \in [Browser -> Token]
        BY <2>2, <3>1 DEF Logout, SessionTypes, Token
      <3> QED BY <2>2, <3>1, <3>2, <3>3 DEF Logout, SessionTypes
    <2>3. ASSUME NEW t \in Session, RevokeSession(b, t) \/ Expire(t)
          PROVE  SessionTypes' /\ UNCHANGED <<req, vendorVars>>
      <3>1. SessionTypes
        BY TypesApart DEF AuthInv
      <3>2. session' \in [Session -> [status : {"none", "active", "ended"}, hash : 0..MaxRefresh]]
        BY <2>3, <3>1, EndedTypes DEF RevokeSession, Expire
      <3> QED BY <2>3, <3>1, <3>2 DEF RevokeSession, Expire, SessionTypes
    <2> QED BY <2>1, <2>2, <2>3
  <1>2. WaitingTypes' /\ \A c \in Browser : waiting'[c] \in {None, waiting[c]}
    BY TypesApart DEF AuthInv, WaitingTypes, Abandon, Logout, RevokeSession, Expire
  <1>3. AuthTypeOK'
    <2>1. VendorTypes' /\ req' \in [Request -> ReqRecord]
      BY <1>1, TypesApart DEF AuthInv, vendorVars, VendorTypes
    <2> QED BY <1>1, <1>2, <2>1, TypesTogether
  <1>4. StageInv'
    BY <1>1, <1>2 DEF AuthInv, StageInv, RealToken
  <1>5. ASSUME NEW v \in Vendor PROVE HeldInv(v)' /\ StoredInv(v)'
    BY <1>1 DEF AuthInv, HeldInv, StoredInv, HoldsFor, AsksFor, Live, vendorVars
  <1> QED BY <1>3, <1>4, <1>5 DEF AuthInv
-----------------------------------------------------------------------------
(* Steps of requests that concern no vendor token.                         *)

LEMMA RecordOf ==
    ASSUME AuthTypeOK, NEW r \in Request
    PROVE  /\ req[r] \in ReqRecord /\ req \in [Request -> ReqRecord]
           /\ SessionTypes /\ VendorTypes /\ WaitingTypes
  BY TypesApart

\* The next stage of a request.
LEMMA GotoRecord ==
    ASSUME NEW i \in ReqRecord, NEW stage \in RefreshStage \cup LoginStage \cup ResolveStage
    PROVE  /\ [i EXCEPT !.pc = stage] \in ReqRecord
           /\ [i EXCEPT !.pc = stage].pc = stage
           /\ [i EXCEPT !.pc = stage].vendor = i.vendor
           /\ [i EXCEPT !.pc = stage].token = i.token
           /\ [i EXCEPT !.pc = stage].grant = i.grant
  BY DEF ReqRecord

LEMMA SendRefreshKeeps ==
    ASSUME AuthInv, NEW r \in Request, NEW b \in Browser, SendRefresh(r, b)
    PROVE  AuthInv'
  <1> DEFINE j == [pc |-> "get_active_session", by |-> b, token |-> cookie[b],
                   vendor |-> "spotify", grant |-> 0]
  <1>1. SessionTypes /\ req[r] = Idle /\ cookie[b] # NoToken
    BY RecordOf DEF AuthInv, SendRefresh, Begin
  <1>2. j \in ReqRecord /\ RealToken(cookie[b])
    BY <1>1, NoTokenApart DEF ReqRecord, SessionTypes, RefreshStage, Vendor
  <1>3. StageOf(j)
    BY <1>2 DEF StageOf
  <1>4. WaitsRight(r, j)
    <2>1. waiting' = [waiting EXCEPT ![b] = r] /\ WaitingTypes
      BY RecordOf DEF SendRefresh, AuthInv
    <2>2. waiting' \in [Browser -> Request \cup {None}]
      BY <2>1 DEF WaitingTypes
    <2>3. \A c \in Browser : waiting[c] # r
      BY <1>1, NobodyWaits DEF AuthInv, Idle, RefreshStage
    <2>4. j.pc \in RefreshStage
      BY DEF RefreshStage
    <2> QED BY <2>1, <2>2, <2>3, <2>4 DEF WaitsRight, WaitingTypes
  <1>5. SessionTypes'
    BY <1>1 DEF SessionTypes, SendRefresh, sessionVars
  <1>6. /\ req' = [req EXCEPT ![r] = j] /\ UNCHANGED vendorVars
        /\ req[r].pc \notin HoldStage /\ j.pc \notin HoldStage \cup AskStage
    BY <1>1 DEF SendRefresh, Begin, Idle, HoldStage, AskStage
  <1> QED BY <1>2, <1>3, <1>4, <1>5, <1>6, QuietStep

\* A request goes on to a stage that concerns no vendor token.
LEMMA GotoStep ==
    ASSUME AuthInv, NEW r \in Request,
           NEW stage \in {"revoke_all", "get_vendor_token", "answer"},
           req[r].pc \in RefreshStage \ HoldStage, UNCHANGED vendorVars,
           Goto(r, stage), UNCHANGED <<sessionVars, doubt, faults>>
    PROVE  AuthInv'
  <1> DEFINE j == [req[r] EXCEPT !.pc = stage]
  <1>1. req[r] \in ReqRecord /\ stage \in RefreshStage
    BY RecordOf DEF AuthInv, RefreshStage
  <1>2. /\ j \in ReqRecord /\ j.pc = stage /\ j.vendor = req[r].vendor /\ j.token = req[r].token
    BY <1>1, GotoRecord
  <1>3. StageOf(j)
    BY <1>2 DEF StageOf, AuthInv, StageInv
  <1>4. WaitsRight(r, j)
    BY <1>1, <1>2, WaitsKept DEF AuthInv, Goto
  <1>5. SessionTypes'
    BY RecordOf DEF AuthInv, SessionTypes, sessionVars, Goto
  <1>6. req' = [req EXCEPT ![r] = j]
    BY DEF Goto
  <1>7. j.pc \notin HoldStage \cup AskStage /\ req[r].pc \notin HoldStage
    BY <1>2 DEF HoldStage, AskStage
  <1> QED BY <1>2, <1>3, <1>4, <1>5, <1>6, <1>7, QuietStep

LEMMA SessionStep ==
    ASSUME AuthInv, NEW r \in Request, GetActiveSession(r) \/ RevokeAll(r)
    PROVE  AuthInv'
  <1>1. SessionTypes
    BY RecordOf DEF AuthInv
  <1>2. CASE GetActiveSession(r)
    <2>1. /\ req[r].pc \in RefreshStage \ HoldStage
          /\ UNCHANGED <<sessionVars, doubt, faults>> /\ UNCHANGED vendorVars
      BY <1>2 DEF GetActiveSession, RefreshStage, HoldStage
    <2>2. CASE Refused(r)
      BY <1>1, <2>1, <2>2, RefusedStep DEF SessionTypes, sessionVars
    <2>3. CASE Goto(r, "revoke_all") \/ Goto(r, "get_vendor_token")
      BY <2>1, <2>3, GotoStep
    <2> QED BY <1>2, <2>2, <2>3 DEF GetActiveSession
  <1>3. CASE RevokeAll(r)
    <2>1. session' \in [Session -> [status : {"none", "active", "ended"}, hash : 0..MaxRefresh]]
      BY <1>1, <1>3, EndedTypes DEF RevokeAll
    <2> QED BY <1>3, <2>1, RefusedStep DEF RevokeAll, HoldStage
  <1> QED BY <1>2, <1>3

LEMMA RotateKeeps ==
    ASSUME AuthInv, NEW r \in Request, RotateSession(r)
    PROVE  AuthInv'
  <1> USE AuthAssumption
  <1> DEFINE t == req[r].token.of
             j == [[req[r] EXCEPT !.pc = "answer"] EXCEPT !.token = [of |-> t, n |-> issued[t] + 1]]
  <1>1. /\ req[r] \in ReqRecord /\ SessionTypes /\ req[r].pc = "rotate_session"
        /\ req[r].vendor = "spotify" /\ RealToken(req[r].token)
    BY RecordOf DEF AuthInv, StageInv, RotateSession, RefreshStage
  <1>2. t \in Session /\ issued[t] \in Nat /\ issued[t] + 1 \in 1..MaxRefresh
    BY <1>1 DEF RealToken, SessionTypes, RotateSession
  <1>3. RealToken([of |-> t, n |-> issued[t] + 1])
    BY <1>2 DEF RealToken
  <1>4. /\ j \in ReqRecord /\ j.pc = "answer" /\ j.vendor = "spotify"
        /\ j.token = [of |-> t, n |-> issued[t] + 1]
    BY <1>1, <1>3 DEF ReqRecord, RealToken, Token, RefreshStage
  <1>5. StageOf(j)
    BY <1>3, <1>4 DEF StageOf
  <1>6. WaitsRight(r, j)
    BY <1>4, WaitsKept DEF AuthInv, RotateSession, RefreshStage
  <1>7. SessionTypes'
    <2>1. issued' \in [Session -> 0..MaxRefresh]
      BY <1>1, <1>2 DEF RotateSession, SessionTypes
    <2>2. session' \in [Session -> [status : {"none", "active", "ended"}, hash : 0..MaxRefresh]]
      <3>1. [session[t] EXCEPT !.hash = issued[t] + 1]
               \in [status : {"none", "active", "ended"}, hash : 0..MaxRefresh]
        BY <1>1, <1>2 DEF SessionTypes
      <3> QED BY <1>1, <3>1 DEF RotateSession, SessionTypes
    <2> QED BY <1>1, <2>1, <2>2 DEF RotateSession, SessionTypes
  <1>8. req' = [req EXCEPT ![r] = j] /\ UNCHANGED vendorVars
    BY DEF RotateSession
  <1>9. req[r].pc \notin HoldStage /\ j.pc \notin HoldStage \cup AskStage
    BY <1>1, <1>4 DEF HoldStage, AskStage
  <1> QED BY <1>4, <1>5, <1>6, <1>7, <1>8, <1>9, QuietStep

LEMMA AnswerKeeps ==
    ASSUME AuthInv, NEW r \in Request, Answer(r) \/ Callback(r)
    PROVE  AuthInv'
  <1>1. req[r] \in ReqRecord /\ SessionTypes
    BY RecordOf DEF AuthInv
  <1>2. req[r].token \in Token
    BY <1>1 DEF ReqRecord
  <1>3. SessionTypes'
    BY <1>1, <1>2 DEF Answer, Callback, SessionTypes, sessionVars
  <1>4. WaitsRight(r, Idle)
    <2>1. CASE Answer(r)
      BY <2>1, WaitsEnded, IdleRecord DEF AuthInv, Answer
    <2>2. CASE Callback(r)
      BY <2>2, WaitsKept, IdleRecord DEF AuthInv, Callback, RefreshStage
    <2> QED BY <2>1, <2>2
  <1>5. /\ req' = [req EXCEPT ![r] = Idle] /\ UNCHANGED vendorVars
        /\ req[r].pc \notin HoldStage /\ Idle.pc \notin HoldStage \cup AskStage
    BY DEF Answer, Callback, HoldStage, AskStage, Idle
  <1> QED BY <1>3, <1>4, <1>5, IdleRecord, QuietStep

LEMMA CreateKeeps ==
    ASSUME AuthInv, NEW r \in Request, CreateSession(r)
    PROVE  AuthInv'
  <1> USE AuthAssumption
  <1>1. PICK t \in Session :
           /\ session' = [session EXCEPT ![t] = [status |-> "active", hash |-> 1]]
           /\ issued' = [issued EXCEPT ![t] = 1]
           /\ req' = [req EXCEPT ![r].pc = "callback", ![r].token = [of |-> t, n |-> 1]]
    BY DEF CreateSession
  <1> DEFINE j == [[req[r] EXCEPT !.pc = "callback"] EXCEPT !.token = [of |-> t, n |-> 1]]
  <1>2. req[r] \in ReqRecord /\ SessionTypes /\ req[r].pc = "create_session"
    BY RecordOf DEF AuthInv, CreateSession
  <1>3. j \in ReqRecord /\ j.pc = "callback"
    <2>1. [of |-> t, n |-> 1] \in Token
      BY DEF Token
    <2> QED BY <1>2, <2>1 DEF ReqRecord, LoginStage
  <1>4. StageOf(j)
    BY <1>3 DEF StageOf, RefreshStage
  <1>5. WaitsRight(r, j)
    BY <1>2, <1>3, WaitsKept DEF AuthInv, CreateSession, RefreshStage
  <1>6. SessionTypes'
    <2>1. issued' \in [Session -> 0..MaxRefresh]
      BY <1>1, <1>2 DEF SessionTypes
    <2>2. session' \in [Session -> [status : {"none", "active", "ended"}, hash : 0..MaxRefresh]]
      BY <1>1, <1>2 DEF SessionTypes
    <2> QED BY <1>2, <2>1, <2>2 DEF CreateSession, SessionTypes
  <1>7. req' = [req EXCEPT ![r] = j] /\ UNCHANGED vendorVars
    <2>1. UNCHANGED vendorVars
      BY DEF CreateSession
    <2>2. PICK k : k = [req[r] EXCEPT !.pc = "callback", !.token = [of |-> t, n |-> 1]]
      OBVIOUS
    <2>3. req' = [req EXCEPT ![r] = k]
      BY <1>1, <2>2
    <2>4. k = j
      BY <1>2, <2>2 DEF ReqRecord
    <2> QED BY <2>1, <2>3, <2>4
  <1>8. req[r].pc \notin HoldStage /\ j.pc \notin HoldStage \cup AskStage
    BY <1>2, <1>3 DEF HoldStage, AskStage
  <1> QED BY <1>3, <1>4, <1>5, <1>6, <1>7, <1>8, QuietStep
-----------------------------------------------------------------------------
(* Steps of requests that concern the tokens of one vendor.                *)

LEMMA VendorStep ==
    ASSUME AuthInv, NEW r \in Request, NEW j \in ReqRecord, StageOf(j),
           req' = [req EXCEPT ![r] = j], WaitsRight(r, j), SessionTypes', VendorTypes',
           NEW v \in Vendor, VendorInv(v)',
           req[r].pc \in HoldStage => req[r].vendor = v,
           j.pc \in HoldStage \cup AskStage => j.vendor = v,
           \A u \in Vendor \ {v} : SameTokens(u) /\ lost'[u] = lost[u]
    PROVE  AuthInv'
  <1>1. /\ req' \in [Request -> ReqRecord] /\ StageInv' /\ req'[r] = j /\ Moves(r)
    BY ReqStep DEF AuthInv, WaitsRight
  <1>2. AuthTypeOK'
    BY <1>1, TypesTogether DEF WaitsRight, WaitingTypes
  <1>3. ASSUME NEW u \in Vendor \ {v} PROVE VendorInv(u)'
    <2>1. VendorInv(u)
      BY DEF AuthInv, VendorInv
    <2>2. ~HoldsFor(r, u) /\ ~HoldsFor(r, u)' /\ ~AsksFor(r, u)'
      BY <1>1 DEF HoldsFor, AsksFor
    <2> QED BY <1>1, <2>1, <2>2, QuietVendor
  <1>4. \A u \in Vendor : VendorInv(u)'
    BY <1>3
  <1> QED BY <1>1, <1>2, <1>4 DEF AuthInv, VendorInv

\* A request that reads the stored token.
LEMMA AskKeeps ==
    ASSUME AuthInv, NEW r \in Request,
           GetVendorToken(r) \/ \E v \in Vendor : Resolve(r, v)
    PROVE  AuthInv'
  <1>r. req[r] \in ReqRecord /\ SessionTypes /\ VendorTypes /\ req \in [Request -> ReqRecord]
    BY RecordOf DEF AuthInv
  <1>1. ASSUME NEW v \in Vendor, NEW j \in ReqRecord, StageOf(j), WaitsRight(r, j),
               req' = [req EXCEPT ![r] = j], UNCHANGED <<sessionVars, cookie, vendorVars, doubt, faults>>,
               req[r].pc \notin HoldStage, j.pc \notin HoldStage, j.vendor = v, j.grant = stored[v]
        PROVE  AuthInv'
    <2>1. SessionTypes' /\ VendorTypes'
      BY <1>r, <1>1 DEF SessionTypes, VendorTypes, sessionVars, vendorVars
    <2>2. Moves(r) /\ req'[r] = j
      BY <1>r, <1>1 DEF Moves
    <2>3. VendorInv(v)'
      <3>1. VendorInv(v) /\ VendorTypeOK(v)
        BY VendorTypesAt DEF AuthInv, VendorInv
      <3>2. SameTokens(v) /\ lost'[v] = lost[v]
        BY <1>1 DEF vendorVars, SameTokens
      <3>3. ~HoldsFor(r, v) /\ ~HoldsFor(r, v)' /\ req'[r].grant = stored[v]
        BY <1>1, <2>2 DEF HoldsFor
      <3> QED BY <2>2, <3>1, <3>2, <3>3, AskVendor
    <2>4. \A u \in Vendor \ {v} : SameTokens(u) /\ lost'[u] = lost[u]
      BY <1>1 DEF vendorVars, SameTokens
    <2> QED BY <1>1, <2>1, <2>3, <2>4, VendorStep
  <1>2. CASE GetVendorToken(r)
    <2> DEFINE j == [[req[r] EXCEPT !.pc = "oauth_refresh"] EXCEPT !.grant = stored["spotify"]]
    <2>1. /\ req[r].pc = "get_vendor_token" /\ req[r].vendor = "spotify"
          /\ RealToken(req[r].token) /\ "spotify" \in Vendor
      BY <1>2 DEF AuthInv, StageInv, GetVendorToken, RefreshStage, Vendor
    <2>2. /\ j \in ReqRecord /\ j.pc = "oauth_refresh" /\ j.vendor = "spotify"
          /\ j.grant = stored["spotify"] /\ j.token = req[r].token
      BY <1>r, <2>1 DEF ReqRecord, RefreshStage, VendorTypes
    <2>3. StageOf(j)
      BY <2>1, <2>2 DEF StageOf
    <2>4. WaitsRight(r, j)
      BY <1>2, <2>2, WaitsKept DEF AuthInv, GetVendorToken, RefreshStage
    <2>5. /\ req' = [req EXCEPT ![r] = j]
          /\ UNCHANGED <<sessionVars, cookie, vendorVars, doubt, faults>>
          /\ req[r].pc \notin HoldStage /\ j.pc \notin HoldStage
      BY <1>2, <2>1, <2>2 DEF GetVendorToken, HoldStage
    <2> HIDE DEF j
    <2> QED BY <1>1, <2>1, <2>2, <2>3, <2>4, <2>5
  <1>3. ASSUME NEW v \in Vendor, Resolve(r, v) PROVE AuthInv'
    <2> DEFINE j == [pc |-> "resolver_refresh", by |-> None, token |-> NoToken,
                     vendor |-> v, grant |-> stored[v]]
    <2>1. /\ j \in ReqRecord /\ StageOf(j) /\ j.vendor = v /\ j.grant = stored[v]
          /\ j.pc \notin HoldStage
      BY <1>r DEF ReqRecord, Token, StageOf, RefreshStage, ResolveStage, HoldStage, VendorTypes
    <2>2. WaitsRight(r, j)
      BY <1>3, <2>1, WaitsKept DEF AuthInv, Resolve, Begin, Idle, RefreshStage
    <2>3. /\ req' = [req EXCEPT ![r] = j]
          /\ UNCHANGED <<sessionVars, cookie, vendorVars, doubt, faults>>
          /\ req[r].pc \notin HoldStage
      BY <1>3 DEF Resolve, Begin, Idle, HoldStage
    <2> HIDE DEF j
    <2> QED BY <1>1, <2>1, <2>2, <2>3
  <1> QED BY <1>2, <1>3

\* What an answered refresh with token g changes.
LEMMA RefreshEffect ==
    ASSUME VendorTypes, NEW v \in Vendor, NEW g, VendorRefresh(v, g),
           UNCHANGED <<stored, taken>>, lost' \in [Vendor -> BOOLEAN]
    PROVE  /\ VendorTypes'
           /\ \/ /\ v \notin Rotates /\ grants'[v] = grants[v] /\ minted'[v] = minted[v]
                 /\ TokenOfAnswer(v, g) = g /\ g \in grants[v]
              \/ /\ v \in Rotates /\ minted'[v] = minted[v] + 1
                 /\ TokenOfAnswer(v, g) = minted[v] + 1
                 /\ grants'[v] = (grants[v] \ {g}) \cup {minted[v] + 1}
           /\ \A u \in Vendor \ {v} : SameTokens(u)
           /\ TokenOfAnswer(v, g) \in Nat
  <1>1. CASE v \notin Rotates
    <2>1. UNCHANGED <<stored, grants, minted, taken>> /\ g \in grants[v]
      BY <1>1 DEF VendorRefresh
    <2>2. VendorTypes'
      BY <2>1, Zenon DEF VendorTypes
    <2>3. g \in Nat
      BY <2>1 DEF VendorTypes
    <2> QED BY <1>1, <2>1, <2>2, <2>3 DEF TokenOfAnswer, SameTokens
  <1>2. CASE v \in Rotates
    <2> DEFINE n == minted[v] + 1
               G == (grants[v] \ {g}) \cup {n}
    <2>1. /\ minted' = [minted EXCEPT ![v] = n] /\ n <= MaxGrant[v] /\ n \in Nat
          /\ grants' = [grants EXCEPT ![v] = G] /\ minted[v] \in Nat
      <3>1. /\ minted[v] < MaxGrant[v]
            /\ minted' = [minted EXCEPT ![v] = n] /\ grants' = [grants EXCEPT ![v] = G]
        BY <1>2 DEF VendorRefresh
      <3>2. minted[v] \in Nat /\ MaxGrant[v] \in Nat
        BY AuthAssumption DEF VendorTypes
      <3> QED BY <3>1, <3>2
    <2>2. G \subseteq 0..n /\ stored[v] \in 0..n /\ G \in SUBSET Nat
      BY <2>1 DEF VendorTypes
    <2>3. /\ \A u \in Vendor \ {v} : minted'[u] = minted[u] /\ grants'[u] = grants[u]
          /\ minted'[v] = n /\ grants'[v] = G
      BY <2>1 DEF VendorTypes
    <2> HIDE DEF G, n
    <2>4. minted' \in [Vendor -> Nat] /\ grants' \in [Vendor -> SUBSET Nat]
      BY <2>1, <2>2 DEF VendorTypes
    <2>5. \A u \in Vendor : /\ minted'[u] <= MaxGrant[u]
                            /\ grants'[u] \cup {stored'[u]} \subseteq 0..minted'[u]
      <3>1. stored' = stored
        OBVIOUS
      <3>2. ASSUME NEW u \in Vendor
            PROVE  minted'[u] <= MaxGrant[u] /\ grants'[u] \cup {stored'[u]} \subseteq 0..minted'[u]
        <4>1. CASE u = v
          BY <2>1, <2>2, <2>3, <3>1, <4>1
        <4>2. CASE u # v
          BY <2>3, <3>1, <4>2 DEF VendorTypes
        <4> QED BY <4>1, <4>2
      <3> QED BY <3>2
    <2>6. VendorTypes'
      BY <2>4, <2>5, Zenon DEF VendorTypes
    <2>7. TokenOfAnswer(v, g) = n
      BY <1>2 DEF TokenOfAnswer, n
    <2>8. \A u \in Vendor \ {v} : SameTokens(u)
      BY <2>3 DEF SameTokens
    <2> QED BY <1>2, <2>1, <2>3, <2>6, <2>7, <2>8 DEF G, n
  <1> QED BY <1>1, <1>2

\* The refresh call of a request of vendor v, which goes on to store the answer.
LEMMA RefreshKeeps ==
    ASSUME AuthInv, NEW r \in Request, NEW v \in Vendor, AsksFor(r, v),
           NEW stage \in {"upsert_vendor_token", "resolver_update"},
           req[r].pc = "oauth_refresh" <=> stage = "upsert_vendor_token",
           VendorRefresh(v, req[r].grant),
           req' = [req EXCEPT ![r].pc = stage, ![r].grant = TokenOfAnswer(v, req[r].grant)],
           UNCHANGED <<cookie, waiting, sessionVars, stored, taken, lost, doubt, faults>>
    PROVE  AuthInv'
  <1> DEFINE g == req[r].grant
             n == TokenOfAnswer(v, g)
             j == [[req[r] EXCEPT !.pc = stage] EXCEPT !.grant = n]
  <1>1. req[r] \in ReqRecord /\ SessionTypes /\ VendorTypes /\ req \in [Request -> ReqRecord]
    BY RecordOf DEF AuthInv
  <1>2. lost' \in [Vendor -> BOOLEAN]
    BY <1>1 DEF VendorTypes
  <1>3. /\ VendorTypes' /\ n \in Nat
        /\ \/ /\ v \notin Rotates /\ grants'[v] = grants[v] /\ minted'[v] = minted[v]
              /\ n = g /\ g \in grants[v]
           \/ /\ v \in Rotates /\ minted'[v] = minted[v] + 1 /\ n = minted[v] + 1
              /\ grants'[v] = (grants[v] \ {g}) \cup {minted[v] + 1}
        /\ \A u \in Vendor \ {v} : SameTokens(u)
    BY <1>1, <1>2, RefreshEffect
  <1> HIDE DEF n
  <1>4. /\ j \in ReqRecord /\ j.pc = stage /\ j.vendor = v /\ j.grant = n
        /\ j.token = req[r].token
    <2>1. req[r].vendor = v /\ stage \in RefreshStage \cup ResolveStage
      BY DEF AsksFor, RefreshStage, ResolveStage
    <2> QED BY <1>1, <1>3, <2>1 DEF ReqRecord
  <1>5. stage = "upsert_vendor_token" => req[r].pc \in RefreshStage
    BY DEF RefreshStage
  <1>6. StageOf(j)
    BY <1>4, <1>5 DEF StageOf, AuthInv, StageInv, AsksFor, RefreshStage
  <1>7. req[r].pc \in AskStage /\ req[r].vendor = v /\ req[r].pc \notin HoldStage
    BY DEF AsksFor, AskStage, HoldStage
  <1>8. WaitsRight(r, j)
    <2>1. j.pc \in RefreshStage \/ req[r].pc \notin RefreshStage
      BY <1>4, <1>7 DEF AskStage, RefreshStage
    <2> QED BY <1>4, <2>1, WaitsKept DEF AuthInv
  <1>9. req' = [req EXCEPT ![r] = j]
    BY DEF n
  <1>10. Moves(r) /\ req'[r] = j
    <2> HIDE DEF j
    <2> QED BY <1>1, <1>9 DEF Moves
  <1> HIDE DEF j
  <1>11. HoldsFor(r, v)' /\ ~HoldsFor(r, v)
    BY <1>4, <1>7, <1>10 DEF HoldsFor, HoldStage
  <1>12. VendorInv(v)'
    <2>1. VendorInv(v) /\ VendorTypeOK(v)
      BY VendorTypesAt DEF AuthInv, VendorInv
    <2>2. stored'[v] = stored[v] /\ taken'[v] = taken[v] /\ req'[r].grant = n
      BY <1>4, <1>10
    <2> QED BY <1>3, <1>10, <1>11, <2>1, <2>2, GotVendor
  <1>13. SessionTypes'
    BY <1>1 DEF SessionTypes, sessionVars
  <1>14. \A u \in Vendor \ {v} : SameTokens(u) /\ lost'[u] = lost[u]
    BY <1>3
  <1> QED BY <1>3, <1>4, <1>6, <1>7, <1>8, <1>9, <1>12, <1>13, <1>14, VendorStep

LEMMA VendorCallStep ==
    ASSUME AuthInv, NEW r \in Request, OauthRefresh(r) \/ ResolverRefresh(r)
    PROVE  AuthInv'
  <1>r. req[r] \in ReqRecord /\ SessionTypes
    BY RecordOf DEF AuthInv
  <1>1. CASE Refused(r) /\ UNCHANGED <<grants, minted>>
    <2>1. UNCHANGED vendorVars /\ req[r].pc \notin HoldStage /\ UNCHANGED <<sessionVars, doubt, faults>>
      BY <1>1 DEF OauthRefresh, ResolverRefresh, HoldStage, vendorVars
    <2> QED BY <1>r, <1>1, <2>1, RefusedStep DEF SessionTypes, sessionVars
  <1>2. CASE OauthRefresh(r) /\ ~(Refused(r) /\ UNCHANGED <<grants, minted>>)
    <2>1. req[r].pc = "oauth_refresh" /\ req[r].vendor = "spotify" /\ "spotify" \in Vendor
      BY <1>2 DEF OauthRefresh, AuthInv, StageInv, RefreshStage, Vendor
    <2>2. AsksFor(r, "spotify")
      BY <2>1 DEF AsksFor, AskStage
    <2> QED BY <1>2, <2>1, <2>2, RefreshKeeps DEF OauthRefresh
  <1>3. CASE ResolverRefresh(r) /\ ~(Refused(r) /\ UNCHANGED <<grants, minted>>)
    <2>1. req[r].pc = "resolver_refresh" /\ req[r].vendor \in Vendor
      BY <1>r, <1>3 DEF ResolverRefresh, ReqRecord
    <2>2. AsksFor(r, req[r].vendor)
      BY <2>1 DEF AsksFor, AskStage
    <2> QED BY <1>3, <2>1, <2>2, RefreshKeeps DEF ResolverRefresh
  <1> QED BY <1>1, <1>2, <1>3

\* A request that stores what it holds, or finds the row gone.
LEMMA StoreStep ==
    ASSUME AuthInv, NEW r \in Request, req[r].pc \in HoldStage,
           NEW token \in {0, req[r].grant}, Store(r, token),
           NEW j \in ReqRecord, StageOf(j), WaitsRight(r, j), req' = [req EXCEPT ![r] = j],
           j.pc \notin HoldStage \cup AskStage, SessionTypes'
    PROVE  AuthInv'
  <1> PICK v : v = req[r].vendor
    OBVIOUS
  <1>1. req[r] \in ReqRecord /\ VendorTypes /\ v \in Vendor /\ req \in [Request -> ReqRecord]
    BY RecordOf DEF AuthInv, ReqRecord
  <1>2. HoldsFor(r, v) /\ HeldInv(v)
    BY <1>1 DEF HoldsFor, AuthInv
  <1>3. /\ stored' = [stored EXCEPT ![v] = token] /\ lost' = [lost EXCEPT ![v] = FALSE]
        /\ UNCHANGED <<grants, minted, taken>>
    BY DEF Store
  <1>4. Moves(r) /\ req'[r] = j
    BY <1>1 DEF Moves
  <1>5. token \in 0..minted[v] /\ token \in Nat
    <2>1. req[r].grant \in 1..minted[v]
      BY <1>2 DEF HeldInv
    <2>2. minted[v] \in Nat
      BY <1>1 DEF VendorTypes
    <2> QED BY <2>1, <2>2
  <1>6. VendorTypes'
    <2>1. stored' \in [Vendor -> Nat] /\ \A u \in Vendor \ {v} : stored'[u] = stored[u]
      BY <1>1, <1>3, <1>5 DEF VendorTypes
    <2>2. lost' \in [Vendor -> BOOLEAN]
      BY <1>1, <1>3 DEF VendorTypes
    <2>3. stored'[v] = token
      BY <1>1, <1>3 DEF VendorTypes
    <2>4. \A u \in Vendor : /\ minted'[u] <= MaxGrant[u]
                            /\ grants'[u] \cup {stored'[u]} \subseteq 0..minted'[u]
      BY <1>1, <1>3, <1>5, <2>1, <2>3 DEF VendorTypes
    <2> QED BY <1>1, <1>3, <2>1, <2>2, <2>4, Zenon DEF VendorTypes
  <1>7. VendorInv(v)'
    <2>1. VendorInv(v) /\ VendorTypeOK(v)
      BY <1>1, VendorTypesAt DEF AuthInv, VendorInv
    <2>2. stored'[v] \in {0, req[r].grant}
      BY <1>1, <1>3 DEF VendorTypes
    <2>3. ~HoldsFor(r, v)' /\ ~AsksFor(r, v)'
      BY <1>4 DEF HoldsFor, AsksFor
    <2> QED BY <1>1, <1>2, <1>3, <1>4, <2>1, <2>2, <2>3, StoreVendor
  <1>8. \A u \in Vendor \ {v} : SameTokens(u) /\ lost'[u] = lost[u]
    BY <1>1, <1>3 DEF SameTokens, VendorTypes
  <1> QED BY <1>1, <1>6, <1>7, <1>8, VendorStep

LEMMA StoreKeeps ==
    ASSUME AuthInv, NEW r \in Request,
           UpsertVendorToken(r) \/ StoreLogin(r) \/ ResolverUpdate(r)
    PROVE  AuthInv'
  <1>r. req[r] \in ReqRecord /\ SessionTypes
    BY RecordOf DEF AuthInv
  <1>1. ASSUME NEW stage \in {"rotate_session", "create_session", "callback"}, Goto(r, stage),
               Store(r, req[r].grant), UNCHANGED <<sessionVars, doubt, faults>>,
               req[r].pc \in HoldStage,
               req[r].pc \in RefreshStage <=> stage = "rotate_session"
        PROVE  AuthInv'
    <2> DEFINE j == [req[r] EXCEPT !.pc = stage]
    <2>1. stage \in RefreshStage \cup LoginStage \cup ResolveStage
      BY DEF RefreshStage, LoginStage
    <2>2. /\ j \in ReqRecord /\ j.pc = stage /\ j.vendor = req[r].vendor
          /\ j.token = req[r].token
      BY <1>r, <2>1, GotoRecord
    <2>3. req' = [req EXCEPT ![r] = j]
      BY <1>1 DEF Goto
    <2> HIDE DEF j
    <2>4. StageOf(j)
      BY <1>1, <2>2 DEF StageOf, AuthInv, StageInv, RefreshStage
    <2>5. WaitsRight(r, j)
      BY <1>1, <2>2, WaitsKept DEF AuthInv, Goto, RefreshStage
    <2>6. SessionTypes'
      BY <1>r, <1>1 DEF SessionTypes, sessionVars, Goto
    <2>7. j.pc \notin HoldStage \cup AskStage
      BY <2>2 DEF HoldStage, AskStage
    <2> QED BY <1>1, <2>2, <2>3, <2>4, <2>5, <2>6, <2>7, StoreStep
  <1>2. CASE UpsertVendorToken(r)
    BY <1>1, <1>2 DEF UpsertVendorToken, HoldStage, RefreshStage
  <1>3. CASE StoreLogin(r)
    <2>1. req[r].pc = "store_login"
      BY <1>3 DEF StoreLogin
    <2>2. "store_login" \in HoldStage /\ "store_login" \notin RefreshStage
      BY DEF HoldStage, RefreshStage
    <2>3. CASE req[r].vendor = "spotify"
      BY <1>1, <1>3, <2>1, <2>2, <2>3 DEF StoreLogin
    <2>4. CASE req[r].vendor # "spotify"
      BY <1>1, <1>3, <2>1, <2>2, <2>4 DEF StoreLogin
    <2> QED BY <2>3, <2>4
  <1>4. CASE ResolverUpdate(r)
    <2>1. WaitsRight(r, Idle) /\ req' = [req EXCEPT ![r] = Idle]
      BY <1>4, WaitsEnded, IdleRecord DEF ResolverUpdate, Refused, AuthInv
    <2>2. SessionTypes'
      BY <1>r, <1>4 DEF SessionTypes, sessionVars, Refused, ResolverUpdate
    <2>3. req[r].pc \in HoldStage /\ Idle.pc \notin HoldStage \cup AskStage
      BY <1>4 DEF ResolverUpdate, HoldStage, AskStage, Idle
    <2>4. PICK token \in {0, req[r].grant} : Store(r, token)
      BY <1>4 DEF ResolverUpdate
    <2> QED BY <2>1, <2>2, <2>3, <2>4, IdleRecord, StoreStep
  <1> QED BY <1>2, <1>3, <1>4

\* A sign-in or a connection: the vendor makes a token beside those it accepts.
LEMMA MintKeeps ==
    ASSUME AuthInv, NEW r \in Request, NEW b \in Browser, NEW v \in Vendor, Mint(v),
           Begin(r, "store_login", b, NoToken, v, minted[v] + 1),
           UNCHANGED <<sessionVars, cookie, waiting, stored, taken, lost, doubt, faults>>
    PROVE  AuthInv'
  <1> DEFINE n == minted[v] + 1
             j == [pc |-> "store_login", by |-> b, token |-> NoToken, vendor |-> v, grant |-> n]
             G == grants[v] \cup {n}
  <1>1. /\ SessionTypes /\ VendorTypes /\ req \in [Request -> ReqRecord]
        /\ req[r] = Idle /\ req' = [req EXCEPT ![r] = j]
    BY RecordOf DEF AuthInv, Begin
  <1>2. /\ minted[v] \in Nat /\ n \in Nat /\ n <= MaxGrant[v] /\ minted[v] <= n
        /\ minted' = [minted EXCEPT ![v] = n]
    <2>1. minted[v] < MaxGrant[v] /\ minted' = [minted EXCEPT ![v] = n]
      BY DEF Mint
    <2>2. minted[v] \in Nat /\ MaxGrant[v] \in Nat
      BY <1>1, AuthAssumption DEF VendorTypes
    <2> QED BY <2>1, <2>2
  <1>3. grants' = [grants EXCEPT ![v] = G] /\ G \in SUBSET Nat /\ G \subseteq 0..n /\ stored[v] \in 0..n
    <2>1. grants' = [grants EXCEPT ![v] = G]
      BY DEF Mint
    <2>2. grants[v] \subseteq 0..minted[v] /\ stored[v] \in 0..minted[v]
      BY <1>1 DEF VendorTypes
    <2> QED BY <1>2, <2>1, <2>2
  <1>4. /\ j \in ReqRecord /\ StageOf(j) /\ j.pc = "store_login" /\ j.vendor = v /\ j.grant = n
    BY <1>2 DEF ReqRecord, Token, StageOf, RefreshStage, LoginStage
  <1>5. Moves(r) /\ req'[r] = j
    BY <1>1 DEF Moves
  <1>6. /\ minted'[v] = n /\ grants'[v] = G
        /\ \A u \in Vendor \ {v} : minted'[u] = minted[u] /\ grants'[u] = grants[u]
    BY <1>1, <1>2, <1>3 DEF VendorTypes
  <1>7. VendorTypes'
    <2> HIDE DEF G, n
    <2>1. minted' \in [Vendor -> Nat] /\ grants' \in [Vendor -> SUBSET Nat]
      BY <1>1, <1>2, <1>3 DEF VendorTypes
    <2>2. \A u \in Vendor : /\ minted'[u] <= MaxGrant[u]
                            /\ grants'[u] \cup {stored'[u]} \subseteq 0..minted'[u]
      <3>1. ASSUME NEW u \in Vendor
            PROVE  minted'[u] <= MaxGrant[u] /\ grants'[u] \cup {stored'[u]} \subseteq 0..minted'[u]
        <4>1. CASE u = v
          BY <1>2, <1>3, <1>6, <4>1
        <4>2. CASE u # v
          BY <1>1, <1>6, <4>2 DEF VendorTypes
        <4> QED BY <4>1, <4>2
      <3> QED BY <3>1
    <2> QED BY <1>1, <2>1, <2>2, Zenon DEF VendorTypes
  <1>8. WaitsRight(r, j)
    BY <1>1, <1>4, WaitsKept DEF AuthInv, Idle, RefreshStage
  <1>9. req[r].pc \notin HoldStage
    BY <1>1 DEF Idle, HoldStage
  <1> HIDE DEF j
  <1>10. VendorInv(v)'
    <2>1. VendorInv(v) /\ VendorTypeOK(v)
      BY VendorTypesAt DEF AuthInv, VendorInv
    <2>2. ~HoldsFor(r, v) /\ HoldsFor(r, v)' /\ req'[r].grant = n
      BY <1>4, <1>5, <1>9 DEF HoldsFor, HoldStage
    <2>3. stored'[v] = stored[v] /\ taken'[v] = taken[v]
      OBVIOUS
    <2> QED BY <1>5, <1>6, <2>1, <2>2, <2>3, GotVendor
  <1>11. SessionTypes'
    BY <1>1 DEF SessionTypes, sessionVars
  <1>12. \A u \in Vendor \ {v} : SameTokens(u) /\ lost'[u] = lost[u]
    BY <1>6 DEF SameTokens
  <1> QED BY <1>1, <1>4, <1>7, <1>8, <1>9, <1>10, <1>11, <1>12, VendorStep
-----------------------------------------------------------------------------
(* Faults, and accounts disconnected.                                      *)

LEMMA OutsideStep ==
    ASSUME AuthInv, YtmusicDisconnect \/ \E v \in Vendor : TakeBack(v)
    PROVE  AuthInv'
  <1>1. /\ SessionTypes /\ VendorTypes /\ WaitingTypes /\ req \in [Request -> ReqRecord]
    BY TypesApart DEF AuthInv
  <1>2. UNCHANGED <<sessionVars, cookie, waiting, req, doubt>>
    BY DEF YtmusicDisconnect, TakeBack
  <1>3. SessionTypes' /\ WaitingTypes' /\ req' \in [Request -> ReqRecord]
    <2>1. faults' \in 0..MaxFaults
      BY <1>1, AuthAssumption DEF YtmusicDisconnect, TakeBack, SessionTypes
    <2> QED BY <1>1, <1>2, <2>1 DEF SessionTypes, WaitingTypes, sessionVars
  <1>4. StageInv'
    BY <1>2 DEF AuthInv, StageInv, RealToken
  <1>5. CASE YtmusicDisconnect
    <2>1. /\ \A v \in Vendor : stored'[v] \in {0, stored[v]}
          /\ stored' \in [Vendor -> Nat] /\ UNCHANGED <<grants, minted, taken, lost>>
      BY <1>1, <1>5 DEF YtmusicDisconnect, VendorTypes
    <2>2. VendorTypes'
      <3>1. \A v \in Vendor : /\ minted'[v] <= MaxGrant[v]
                              /\ grants'[v] \cup {stored'[v]} \subseteq 0..minted'[v]
        BY <1>1, <2>1 DEF VendorTypes
      <3> QED BY <1>1, <2>1, <3>1, Zenon DEF VendorTypes
    <2>3. ASSUME NEW v \in Vendor PROVE HeldInv(v)' /\ StoredInv(v)'
      <3>1. HeldInv(v) /\ StoredInv(v) /\ VendorTypeOK(v)
        BY VendorTypesAt DEF AuthInv
      <3>2. \A r \in Request : HoldsFor(r, v) => req[r].grant # 0
        BY <3>1 DEF HeldInv, VendorTypeOK
      <3>3. stored'[v] = 0 \/ stored'[v] = stored[v]
        BY <2>1
      <3>4. HeldInv(v)'
        BY <1>2, <2>1, <3>1, <3>2, <3>3 DEF HeldInv, HoldsFor, AsksFor, Live
      <3>5. StoredInv(v)'
        BY <1>2, <2>1, <3>1, <3>3 DEF StoredInv, HoldsFor, Live
      <3> QED BY <3>4, <3>5
    <2> QED BY <1>3, <1>4, <2>2, <2>3, TypesTogether DEF AuthInv
  <1>6. ASSUME NEW t \in Vendor, TakeBack(t) PROVE AuthInv'
    <2>1. /\ grants' = [grants EXCEPT ![t] = {}]
          /\ taken' = [taken EXCEPT ![t] = taken[t] \cup grants[t]]
          /\ UNCHANGED <<stored, minted, lost>>
      BY <1>6 DEF TakeBack
    <2>2. VendorTypes'
      <3>1. grants' \in [Vendor -> SUBSET Nat] /\ taken' \in [Vendor -> SUBSET Nat]
        BY <1>1, <2>1 DEF VendorTypes
      <3>2. \A v \in Vendor : /\ minted'[v] <= MaxGrant[v]
                              /\ grants'[v] \cup {stored'[v]} \subseteq 0..minted'[v]
        BY <1>1, <2>1 DEF VendorTypes
      <3> QED BY <1>1, <2>1, <3>1, <3>2, Zenon DEF VendorTypes
    <2>3. ASSUME NEW v \in Vendor PROVE HeldInv(v)' /\ StoredInv(v)'
      <3>1. Live(v)' = Live(v)
        BY <1>1, <2>1 DEF VendorTypes, Live
      <3> QED BY <1>2, <2>1, <3>1 DEF AuthInv, HeldInv, StoredInv, HoldsFor, AsksFor
    <2> QED BY <1>3, <1>4, <2>2, <2>3, TypesTogether DEF AuthInv
  <1> QED BY <1>5, <1>6

\* An invocation that dies with the token it holds, or with the answer it waits for.
LEMMA LostKeeps ==
    ASSUME AuthInv, NEW r \in Request, Die(r) \/ VendorAnswerLost(r)
    PROVE  AuthInv'
  <1> PICK v : v = req[r].vendor
    OBVIOUS
  <1>1. /\ req[r] \in ReqRecord /\ SessionTypes /\ VendorTypes /\ v \in Vendor
        /\ req \in [Request -> ReqRecord]
    BY RecordOf DEF AuthInv, ReqRecord
  <1>2. WaitsRight(r, Idle) /\ req' = [req EXCEPT ![r] = Idle]
    BY WaitsEnded, IdleRecord DEF Die, VendorAnswerLost, Refused, AuthInv
  <1>3. SessionTypes'
    <2>1. faults' \in 0..MaxFaults
      BY <1>1, AuthAssumption DEF Die, VendorAnswerLost, SessionTypes
    <2>2. doubt' \in SUBSET Session
      <3>1. req[r].pc = "answer" => req[r].token.of \in Session
        BY DEF AuthInv, StageInv, RealToken, RefreshStage
      <3> QED BY <1>1, <3>1 DEF Die, VendorAnswerLost, SessionTypes
    <2> QED BY <1>1, <2>1, <2>2 DEF Die, VendorAnswerLost, Refused, SessionTypes, sessionVars
  <1>4. Moves(r) /\ req'[r] = Idle
    BY <1>1, <1>2 DEF Moves
  <1>5. \A u \in Vendor : ~HoldsFor(r, u)' /\ ~AsksFor(r, u)'
    BY <1>4 DEF HoldsFor, AsksFor, HoldStage, AskStage, Idle
  <1>6. VendorInv(v) /\ VendorTypeOK(v)
    BY <1>1, VendorTypesAt DEF AuthInv, VendorInv
  <1>7. Idle.pc \notin HoldStage \cup AskStage
    BY DEF Idle, HoldStage, AskStage
  <1>8. CASE Die(r) /\ ~Holds(r)
    <2>1. UNCHANGED vendorVars /\ req[r].pc \notin HoldStage
      BY <1>8 DEF Die, Holds, HoldStage, vendorVars
    <2> QED BY <1>2, <1>3, <1>7, <2>1, IdleRecord, QuietStep
  <1>9. CASE Die(r) /\ Holds(r)
    <2>1. /\ lost' = [lost EXCEPT ![v] = TRUE] /\ UNCHANGED <<stored, grants, minted, taken>>
      BY <1>9 DEF Die
    <2>2. lost' \in [Vendor -> BOOLEAN] /\ lost'[v] /\ \A u \in Vendor \ {v} : lost'[u] = lost[u]
      BY <1>1, <2>1 DEF VendorTypes
    <2>3. VendorTypes'
      BY <1>1, <2>1, <2>2, Zenon DEF VendorTypes
    <2>4. VendorInv(v)'
      BY <1>1, <1>4, <1>5, <1>6, <2>1, <2>2, LostVendor
    <2>5. \A u \in Vendor \ {v} : SameTokens(u) /\ lost'[u] = lost[u]
      BY <2>1, <2>2 DEF SameTokens
    <2> QED BY <1>1, <1>2, <1>3, <1>7, <2>3, <2>4, <2>5, IdleRecord, VendorStep
  <1>10. CASE VendorAnswerLost(r)
    <2>1. /\ lost' = [lost EXCEPT ![v] = TRUE] /\ UNCHANGED <<stored, taken>>
          /\ VendorRefresh(v, req[r].grant) /\ AsksFor(r, v)
      BY <1>10 DEF VendorAnswerLost, AsksFor, AskStage
    <2>2. lost' \in [Vendor -> BOOLEAN] /\ lost'[v] /\ \A u \in Vendor \ {v} : lost'[u] = lost[u]
      BY <1>1, <2>1 DEF VendorTypes
    <2>3. /\ VendorTypes'
          /\ \/ grants'[v] = grants[v] /\ minted'[v] = minted[v]
             \/ /\ v \in Rotates /\ minted'[v] = minted[v] + 1
                /\ grants'[v] = (grants[v] \ {req[r].grant}) \cup {minted[v] + 1}
          /\ \A u \in Vendor \ {v} : SameTokens(u)
      BY <1>1, <2>1, <2>2, RefreshEffect
    <2>4. VendorInv(v)'
      BY <1>1, <1>4, <1>5, <1>6, <2>1, <2>2, <2>3, LostVendor
    <2> QED BY <1>1, <1>2, <1>3, <1>7, <2>2, <2>3, <2>4, IdleRecord, VendorStep
  <1> QED BY <1>8, <1>9, <1>10
-----------------------------------------------------------------------------
LEMMA AuthInvInit == Init => AuthInv
  <1> SUFFICES ASSUME Init PROVE AuthInv
    OBVIOUS
  <1> USE AuthAssumption
  <1>1. SessionTypes
    BY DEF Init, SessionTypes, Token
  <1>2. VendorTypes
    <2>1. /\ stored \in [Vendor -> Nat] /\ grants \in [Vendor -> SUBSET Nat]
          /\ minted \in [Vendor -> Nat] /\ taken \in [Vendor -> SUBSET Nat]
          /\ lost \in [Vendor -> BOOLEAN]
      BY DEF Init
    <2>2. \A v \in Vendor : /\ minted[v] <= MaxGrant[v]
                            /\ grants[v] \cup {stored[v]} \subseteq 0..minted[v]
      BY DEF Init
    <2> QED BY <2>1, <2>2, Zenon DEF VendorTypes
  <1>3. WaitingTypes /\ req \in [Request -> ReqRecord]
    BY IdleRecord DEF Init, WaitingTypes
  <1>4. AuthTypeOK
    BY <1>1, <1>2, <1>3, TypesApart
  <1>5. \A r \in Request : req[r].pc = "idle"
    BY DEF Init, Idle
  <1>6. StageInv
    BY <1>5 DEF Init, StageInv, RefreshStage
  <1>7. ASSUME NEW v \in Vendor PROVE HeldInv(v) /\ StoredInv(v)
    <2>1. /\ Live(v) = {} /\ stored[v] = 0
      BY DEF Init, Live
    <2>2. \A r \in Request : ~HoldsFor(r, v) /\ ~AsksFor(r, v)
      BY <1>5 DEF HoldsFor, AsksFor, HoldStage, AskStage
    <2> QED BY <2>1, <2>2 DEF HeldInv, StoredInv
  <1> QED BY <1>4, <1>6, <1>7 DEF AuthInv

LEMMA AuthInvStep == AuthInv /\ [Next]_vars => AuthInv'
  <1> SUFFICES ASSUME AuthInv, [Next]_vars PROVE AuthInv'
    OBVIOUS
  <1>1. ASSUME NEW b \in Browser,
               Abandon(b) \/ Logout(b) \/ \E t \in Session : RevokeSession(b, t)
        PROVE  AuthInv'
    BY <1>1, BrowserStep
  <1>2. ASSUME NEW t \in Session, Expire(t) PROVE AuthInv'
    <2>1. SessionTypes
      BY TypesApart DEF AuthInv
    <2>2. SessionTypes' /\ UNCHANGED <<req, waiting, vendorVars>>
      <3>1. session' \in [Session -> [status : {"none", "active", "ended"}, hash : 0..MaxRefresh]]
        BY <1>2, <2>1, EndedTypes DEF Expire
      <3> QED BY <1>2, <2>1, <3>1 DEF Expire, SessionTypes
    <2>3. AuthTypeOK'
      BY <2>2, TypesApart, TypesTogether
         DEF AuthInv, VendorTypes, vendorVars, WaitingTypes
    <2>4. StageInv'
      BY <2>2 DEF AuthInv, StageInv, RealToken
    <2>5. ASSUME NEW v \in Vendor PROVE HeldInv(v)' /\ StoredInv(v)'
      BY <2>2 DEF AuthInv, HeldInv, StoredInv, HoldsFor, AsksFor, Live, vendorVars
    <2> QED BY <2>3, <2>4, <2>5 DEF AuthInv
  <1>3. ASSUME NEW r \in Request, NEW b \in Browser,
               SendRefresh(r, b) \/ Login(r, b) \/ YtmusicPoll(r, b)
        PROVE  AuthInv'
    <2>1. CASE SendRefresh(r, b)
      BY <2>1, SendRefreshKeeps
    <2>2. CASE Login(r, b)
      BY <2>2, MintKeeps DEF Login, Vendor
    <2>3. CASE YtmusicPoll(r, b)
      BY <2>3, MintKeeps DEF YtmusicPoll, Vendor
    <2> QED BY <1>3, <2>1, <2>2, <2>3
  <1>4. ASSUME NEW r \in Request,
               \/ GetActiveSession(r) \/ RevokeAll(r) \/ RotateSession(r)
               \/ Answer(r) \/ Callback(r) \/ CreateSession(r)
        PROVE  AuthInv'
    BY <1>4, SessionStep, RotateKeeps, AnswerKeeps, CreateKeeps
  <1>5. ASSUME NEW r \in Request,
               \/ GetVendorToken(r) \/ \E v \in Vendor : Resolve(r, v)
               \/ OauthRefresh(r) \/ ResolverRefresh(r)
               \/ UpsertVendorToken(r) \/ StoreLogin(r) \/ ResolverUpdate(r)
        PROVE  AuthInv'
    BY <1>5, AskKeeps, VendorCallStep, StoreKeeps
  <1>6. ASSUME NEW r \in Request, Die(r) \/ VendorAnswerLost(r) PROVE AuthInv'
    BY <1>6, LostKeeps
  <1>7. CASE YtmusicDisconnect \/ \E v \in Vendor : TakeBack(v)
    BY <1>7, OutsideStep
  <1>8. CASE UNCHANGED vars
    <2>1. AuthTypeOK'
      BY <1>8, Zenon DEF vars, sessionVars, vendorVars, AuthInv, AuthTypeOK
    <2>2. StageInv'
      BY <1>8 DEF vars, AuthInv, StageInv, RealToken
    <2>3. ASSUME NEW v \in Vendor PROVE HeldInv(v)' /\ StoredInv(v)'
      BY <1>8 DEF vars, vendorVars, AuthInv, HeldInv, StoredInv, HoldsFor, AsksFor, Live
    <2> QED BY <2>1, <2>2, <2>3 DEF AuthInv
  <1> QED BY <1>1, <1>2, <1>3, <1>4, <1>5, <1>6, <1>7, <1>8 DEF Next

LEMMA AuthInvAlways == Spec => []AuthInv
  BY AuthInvInit, AuthInvStep, PTL DEF Spec

\* A row that is gone stays gone: only a sign-in or a connection stores without finding one.
LEMMA ZeroStays ==
    ASSUME AuthInv, [Next]_vars, stored["ytmusic"] = 0, stored'["ytmusic"] # 0
    PROVE  \E r \in Request : req[r].pc = "store_login" /\ req'[r].pc = "callback"
  <1>1. VendorTypes /\ req \in [Request -> ReqRecord]
    BY TypesApart DEF AuthInv
  <1>2. PICK r \in Request : UpsertVendorToken(r) \/ StoreLogin(r) \/ ResolverUpdate(r)
    BY Zenon DEF Next, vars, sessionVars, vendorVars, Abandon, Logout, RevokeSession, Expire,
       SendRefresh, Login, YtmusicPoll, GetActiveSession, RevokeAll, GetVendorToken,
       OauthRefresh, RotateSession, Answer, CreateSession, Callback, ResolverRefresh, Die,
       VendorAnswerLost, Resolve, YtmusicDisconnect, TakeBack
  <1>3. req[r].vendor = "ytmusic"
    <2>1. PICK token : stored' = [stored EXCEPT ![req[r].vendor] = token]
      BY <1>2 DEF UpsertVendorToken, StoreLogin, ResolverUpdate, Store
    <2> QED BY <1>1, <2>1 DEF VendorTypes, Vendor
  <1>4. ~UpsertVendorToken(r)
    BY <1>3 DEF UpsertVendorToken, AuthInv, StageInv, RefreshStage
  <1>5. ~ResolverUpdate(r)
    BY <1>1, <1>3 DEF ResolverUpdate, Store, VendorTypes, Vendor
  <1>6. StoreLogin(r)
    BY <1>2, <1>4, <1>5
  <1>7. req[r].pc = "store_login" /\ Goto(r, "callback")
    BY <1>3, <1>6 DEF StoreLogin
  <1>8. req'[r].pc = "callback"
    BY <1>1, <1>7 DEF Goto, ReqRecord
  <1> QED BY <1>7, <1>8

\* The rows of sessions and vendor tokens, the cookies and what every invocation has read
\* keep their types in every interleaving, faults included.
THEOREM AuthTypeCorrect == Spec => []AuthTypeOK
  <1>1. AuthInv => AuthTypeOK
    BY DEF AuthInv
  <1> QED BY <1>1, AuthInvAlways, PTL

\* Any number of refreshes, publishes, sign-ins and connections that overlap, die or lose
\* their answers: the stored token is one the vendor takes, or took until the user ended
\* it, or a request holds its successor, or died with it.
THEOREM GrantAlwaysKept == Spec => []GrantKept
  <1>1. AuthInv => GrantKept
    <2>1. SUFFICES ASSUME AuthInv, NEW v \in Vendor
                   PROVE  \/ stored[v] \in grants[v] \cup taken[v] \cup {0}
                          \/ lost[v]
                          \/ \E r \in Request : /\ Holds(r) /\ req[r].vendor = v
                                                /\ req[r].grant \in grants[v] \cup taken[v]
      BY DEF GrantKept
    <2>2. \A r \in Request : HoldsFor(r, v) =>
              Holds(r) /\ req[r].vendor = v /\ req[r].grant \in grants[v] \cup taken[v]
      BY <2>1 DEF AuthInv, HeldInv, HoldsFor, HoldStage, Holds, Live
    <2> QED BY <2>1, <2>2 DEF AuthInv, StoredInv, Live
  <1> QED BY <1>1, AuthInvAlways, PTL

\* A disconnected account stays so until the user connects it again, whatever publish is
\* refreshing its token meanwhile.
THEOREM DisconnectAlwaysStays == Spec => DisconnectStays
  <1>1. AuthInv /\ [Next]_vars =>
            [stored["ytmusic"] = 0 /\ stored'["ytmusic"] # 0
             => \E r \in Request : req[r].pc = "store_login" /\ req'[r].pc = "callback"]_vars
    BY ZeroStays
  <1> QED BY <1>1, AuthInvAlways, PTL DEF Spec, DisconnectStays
-----------------------------------------------------------------------------
(* The one owner of a session.                                             *)

Uses(r, s) == req[r].token.of = s

\* One request at most carries the token of the session, and it is the current one; a refresh
\* is waited for by the browser that sent it, the only one that can have a cookie of the
\* session, and a sign-in has not given it to any yet.
InFlight(s) ==
    /\ \A r, q \in Request : Uses(r, s) /\ Uses(q, s) => r = q
    /\ \A r \in Request : Uses(r, s) =>
          /\ req[r].token.n = session[s].hash
          /\ \/ /\ req[r].pc \in RefreshStage \ {"revoke_all"}
                /\ req[r].by \in Browser /\ waiting[req[r].by] = r
                /\ \A b \in Browser : cookie[b].of = s => b = req[r].by
             \/ req[r].pc = "callback" /\ \A b \in Browser : cookie[b].of # s

\* One browser at most has a cookie of the session: the current token, or the one before it
\* while the answer that brings the current one is on its way.
InJar(s) ==
    /\ \A b, c \in Browser : cookie[b].of = s /\ cookie[c].of = s => b = c
    /\ \A b \in Browser : cookie[b].of = s =>
          \/ cookie[b].n = session[s].hash
          \/ \E r \in Request : Uses(r, s) /\ req[r].pc = "answer"

\* Every session without a lost answer has one owner, who has its current token.
OneOwner ==
    /\ \A s \in Session : session[s].status = "none" =>
          /\ \A r \in Request : ~Uses(r, s)
          /\ \A b \in Browser : cookie[b].of # s
    /\ \A s \in Session \ doubt : InFlight(s) /\ InJar(s)
    /\ \A b \in Browser : waiting[b] # None => req[waiting[b]].by = b

Owned(s) == InFlight(s) /\ InJar(s)

\* A session that no row has yet is nobody's.
Fresh(s) ==
    session[s].status = "none" =>
       (\A r \in Request : ~Uses(r, s)) /\ (\A b \in Browser : cookie[b].of # s)

SenderWaits == \A b \in Browser : waiting[b] # None => req[waiting[b]].by = b

LEMMA OwnerParts ==
    OneOwner <=> /\ \A s \in Session : Fresh(s)
                 /\ \A s \in Session \ doubt : Owned(s)
                 /\ SenderWaits
  BY DEF OneOwner, Fresh, Owned, SenderWaits

\* A request that carries the token of s goes on with it.
LEMMA OwnedGoes ==
    ASSUME NEW s \in Session, Owned(s), NEW r \in Request, Moves(r),
           req'[r].token = req[r].token, req'[r].by = req[r].by,
           Uses(r, s) => /\ req[r].pc \in RefreshStage \ {"answer"}
                         /\ req'[r].pc \in RefreshStage \ {"revoke_all"},
           session'[s].hash = session[s].hash, cookie' = cookie, waiting' = waiting
    PROVE  Owned(s)'
  <1>1. \A q \in Request : /\ Uses(q, s)' <=> Uses(q, s)
                           /\ req'[q].token = req[q].token /\ req'[q].by = req[q].by
                           /\ q # r => req'[q].pc = req[q].pc
    BY DEF Moves, Uses
  <1>2. InFlight(s)'
    <2>1. \A p, q \in Request : Uses(p, s)' /\ Uses(q, s)' => p = q
      BY <1>1 DEF Owned, InFlight
    <2>2. ASSUME NEW q \in Request, Uses(q, s)'
          PROVE  /\ req'[q].token.n = session'[s].hash
                 /\ \/ /\ req'[q].pc \in RefreshStage \ {"revoke_all"}
                       /\ req'[q].by \in Browser /\ waiting'[req'[q].by] = q
                       /\ \A b \in Browser : cookie'[b].of = s => b = req'[q].by
                    \/ req'[q].pc = "callback" /\ \A b \in Browser : cookie'[b].of # s
      <3>1. Uses(q, s)
        BY <1>1, <2>2
      <3>2. q = r => req[q].pc # "callback"
        BY <3>1 DEF RefreshStage
      <3> QED BY <1>1, <3>1, <3>2 DEF Owned, InFlight
    <2> QED BY <2>1, <2>2 DEF InFlight
  <1>3. InJar(s)'
    BY <1>1 DEF Owned, InJar
  <1> QED BY <1>2, <1>3 DEF Owned

\* A request ends, or carried no token and begins without one.
LEMMA OwnedEnds ==
    ASSUME NEW s \in Session, Owned(s), NEW r \in Request, Moves(r), ~Uses(r, s)',
           Uses(r, s) => req[r].pc # "answer",
           session'[s].hash = session[s].hash, cookie' = cookie,
           \A b \in Browser : waiting[b] = r \/ waiting'[b] = waiting[b]
    PROVE  Owned(s)'
  <1>1. \A q \in Request : Uses(q, s)' => Uses(q, s) /\ q # r
    BY DEF Moves, Uses
  <1>2. \A q \in Request \ {r} : req'[q] = req[q] /\ (Uses(q, s)' <=> Uses(q, s))
    BY DEF Moves, Uses
  <1>3. InFlight(s)'
    <2>1. \A p, q \in Request : Uses(p, s)' /\ Uses(q, s)' => p = q
      BY <1>1 DEF Owned, InFlight
    <2>2. ASSUME NEW q \in Request, Uses(q, s)'
          PROVE  /\ req'[q].token.n = session'[s].hash
                 /\ \/ /\ req'[q].pc \in RefreshStage \ {"revoke_all"}
                       /\ req'[q].by \in Browser /\ waiting'[req'[q].by] = q
                       /\ \A b \in Browser : cookie'[b].of = s => b = req'[q].by
                    \/ req'[q].pc = "callback" /\ \A b \in Browser : cookie'[b].of # s
      <3>1. Uses(q, s) /\ q # r /\ req'[q] = req[q]
        BY <1>1, <1>2, <2>2
      <3> QED BY <3>1 DEF Owned, InFlight
    <2> QED BY <2>1, <2>2 DEF InFlight
  <1>4. InJar(s)'
    <2>1. ASSUME NEW b \in Browser, cookie'[b].of = s
          PROVE  \/ cookie'[b].n = session'[s].hash
                 \/ \E q \in Request : Uses(q, s)' /\ req'[q].pc = "answer"
      BY <1>2, <2>1 DEF Owned, InJar
    <2> QED BY <2>1 DEF Owned, InJar
  <1> QED BY <1>3, <1>4 DEF Owned

\* No row returns to the state of a session that does not exist.
LEMMA EndedKeeps ==
    ASSUME SessionTypes, NEW S, session' = Ended(S), NEW s \in Session
    PROVE  /\ session'[s].hash = session[s].hash
           /\ session'[s].status = "none" => session[s].status = "none"
  <1>1. session[s] \in [status : {"none", "active", "ended"}, hash : 0..MaxRefresh]
    BY DEF SessionTypes
  <1>2. session'[s] = IF s \in S /\ session[s].status = "active"
                      THEN [session[s] EXCEPT !.status = "ended"] ELSE session[s]
    BY DEF Ended
  <1> QED BY <1>1, <1>2

LEMMA ReleaseStep ==
    ASSUME AuthInv, OneOwner, NEW r \in Request, Moves(r), req'[r].token = NoToken,
           cookie' = cookie, doubt \subseteq doubt',
           \A s \in Session : /\ session'[s].hash = session[s].hash
                              /\ session'[s].status = "none" => session[s].status = "none",
           \A b \in Browser : /\ waiting'[b] # r
                              /\ waiting[b] = r => waiting'[b] = None
                              /\ waiting[b] # r => waiting'[b] = waiting[b],
           \A s \in Session : Uses(r, s) /\ req[r].pc = "answer" => s \in doubt'
    PROVE  OneOwner'
  <1>1. \A s \in Session : ~Uses(r, s)'
    BY AuthAssumption DEF Uses, NoToken
  <1>2. ASSUME NEW s \in Session PROVE Fresh(s)'
    <2>1. Fresh(s)
      BY OwnerParts
    <2> QED BY <1>1, <2>1 DEF Fresh, Uses, Moves
  <1>3. ASSUME NEW s \in Session, s \notin doubt' PROVE Owned(s)'
    BY <1>1, <1>3, OwnerParts, OwnedEnds
  <1>4. SenderWaits'
    <2>1. ASSUME NEW b \in Browser, waiting'[b] # None PROVE req'[waiting'[b]].by = b
      <3>1. waiting[b] \in Request \ {r} /\ waiting'[b] = waiting[b]
        BY <2>1, RecordOf DEF AuthInv, WaitingTypes
      <3> QED BY <2>1, <3>1 DEF Moves, OneOwner
    <2> QED BY <2>1 DEF SenderWaits
  <1> QED BY <1>2, <1>3, <1>4, OwnerParts DEF OneOwner, Fresh, Owned, SenderWaits, InFlight, InJar, Uses

LEMMA GoesStep ==
    ASSUME AuthInv, OneOwner, NEW r \in Request, Moves(r),
           req'[r].token = req[r].token, req'[r].by = req[r].by,
           \A s \in Session \ doubt : Uses(r, s)
              => req[r].pc \in RefreshStage \ {"answer"} /\ req'[r].pc \in RefreshStage \ {"revoke_all"},
           UNCHANGED <<session, cookie, waiting, doubt>>
    PROVE  OneOwner'
  <1>1. \A q \in Request : /\ req'[q].token = req[q].token /\ req'[q].by = req[q].by
    BY DEF Moves
  <1>2. ASSUME NEW s \in Session PROVE Fresh(s)'
    <2>1. Fresh(s)
      BY OwnerParts
    <2> QED BY <1>1, <2>1 DEF Fresh, Uses
  <1>3. ASSUME NEW s \in Session \ doubt PROVE Owned(s)'
    BY <1>3, OwnerParts, OwnedGoes
  <1>4. SenderWaits'
    <2>1. waiting \in [Browser -> Request \cup {None}]
      BY RecordOf DEF AuthInv, WaitingTypes
    <2> QED BY <1>1, <2>1 DEF SenderWaits, OneOwner
  <1> QED BY <1>2, <1>3, <1>4 DEF OneOwner, Fresh, Owned, SenderWaits

\* A request that ends before it has an answer to deliver, or dies with one.
LEMMA OwnerRefused ==
    ASSUME AuthInv, OneOwner, NEW r \in Request, Refused(r), doubt \subseteq doubt',
           \A s \in Session : /\ session'[s].hash = session[s].hash
                              /\ session'[s].status = "none" => session[s].status = "none",
           req[r].pc = "answer" => req[r].token.of \in doubt'
    PROVE  OneOwner'
  <1>1. req \in [Request -> ReqRecord] /\ waiting \in [Browser -> Request \cup {None}]
    BY RecordOf DEF AuthInv, WaitingTypes
  <1>2. Moves(r) /\ req'[r].token = NoToken
    BY <1>1 DEF Refused, Moves, Idle
  <1>3. \A b \in Browser : /\ waiting'[b] # r
                           /\ waiting[b] = r => waiting'[b] = None
                           /\ waiting[b] # r => waiting'[b] = waiting[b]
    BY <1>1, AuthAssumption DEF Refused
  <1>4. \A s \in Session : Uses(r, s) /\ req[r].pc = "answer" => s \in doubt'
    BY DEF Uses
  <1>5. cookie' = cookie
    BY DEF Refused
  <1> QED BY <1>2, <1>3, <1>4, <1>5, ReleaseStep

\* A sign-in, a connection and a publish begin without a token.
LEMMA OwnerBegins ==
    ASSUME AuthInv, OneOwner, NEW r \in Request, NEW stage, NEW c, NEW v, NEW g,
           Begin(r, stage, c, NoToken, v, g), UNCHANGED <<session, cookie, waiting, doubt>>
    PROVE  OneOwner'
  <1>1. req \in [Request -> ReqRecord]
    BY RecordOf DEF AuthInv
  <1>2. Moves(r) /\ req'[r].token = NoToken /\ req[r].pc = "idle"
    BY <1>1 DEF Begin, Moves, Idle
  <1>3. \A b \in Browser : waiting[b] # r
    BY <1>2, NobodyWaits DEF AuthInv, RefreshStage
  <1> QED BY <1>2, <1>3, ReleaseStep

\* A request that goes on, its token untouched.
LEMMA OwnerGoes ==
    ASSUME AuthInv, OneOwner, NEW r \in Request,
           NEW stage \in RefreshStage \cup LoginStage \cup ResolveStage,
           req[r].pc \in LoginStage \ {"callback"} \/ req[r].pc \in ResolveStage
             \/ (req[r].pc \in RefreshStage \ {"answer"} /\ stage \in RefreshStage),
           stage = "revoke_all" => req[r].token.of \in doubt,
           \/ req' = [req EXCEPT ![r].pc = stage]
           \/ \E g : req' = [req EXCEPT ![r].pc = stage, ![r].grant = g],
           UNCHANGED <<session, cookie, waiting, doubt>>
    PROVE  OneOwner'
  <1>1. req \in [Request -> ReqRecord]
    BY RecordOf DEF AuthInv
  <1>2. /\ Moves(r) /\ req'[r].token = req[r].token /\ req'[r].by = req[r].by
        /\ req'[r].pc = stage
    BY <1>1 DEF Moves, ReqRecord
  <1>3. ASSUME NEW s \in Session \ doubt, Uses(r, s)
        PROVE  req[r].pc \in RefreshStage \ {"answer"} /\ req'[r].pc \in RefreshStage \ {"revoke_all"}
    <2>1. req[r].pc \in RefreshStage \cup {"callback"}
      BY <1>3 DEF OneOwner, InFlight
    <2>2. stage # "revoke_all"
      BY <1>3 DEF Uses
    <2> QED BY <1>2, <2>1, <2>2 DEF RefreshStage, LoginStage, ResolveStage
  <1> QED BY <1>2, <1>3, GoesStep

\* The tripwire: a refresh of a session without a lost answer finds its own token there.
LEMMA OwnerRead ==
    ASSUME AuthInv, OneOwner, NEW r \in Request, GetActiveSession(r)
    PROVE  OneOwner'
  <1>1. /\ req[r].pc = "get_active_session" /\ UNCHANGED <<session, doubt>>
        /\ req[r].token.of \in Session
    <2>1. req[r].pc = "get_active_session" /\ UNCHANGED <<session, doubt>>
      BY DEF GetActiveSession, sessionVars
    <2> QED BY <2>1 DEF AuthInv, StageInv, RealToken, RefreshStage
  <1>2. CASE Refused(r)
    BY <1>1, <1>2, OwnerRefused
  <1>3. CASE Goto(r, "get_vendor_token")
    <2>1. /\ req' = [req EXCEPT ![r].pc = "get_vendor_token"] /\ UNCHANGED <<cookie, waiting>>
      BY <1>3 DEF Goto
    <2>2. req[r].pc \in RefreshStage \ {"answer"} /\ "get_vendor_token" \in RefreshStage
      BY <1>1 DEF RefreshStage
    <2> QED BY <1>1, <2>1, <2>2, OwnerGoes
  <1>4. CASE Goto(r, "revoke_all") /\ session[req[r].token.of].hash # req[r].token.n
    <2>1. /\ req' = [req EXCEPT ![r].pc = "revoke_all"] /\ UNCHANGED <<cookie, waiting>>
      BY <1>4 DEF Goto
    <2>2. req[r].pc \in RefreshStage \ {"answer"} /\ "revoke_all" \in RefreshStage
      BY <1>1 DEF RefreshStage
    <2>3. req[r].token.of \in doubt
      BY <1>1, <1>4 DEF OneOwner, InFlight, Uses
    <2> QED BY <1>1, <2>1, <2>2, <2>3, OwnerGoes
  <1> QED BY <1>2, <1>3, <1>4 DEF GetActiveSession

\* The statements and calls of a request that read or store vendor tokens.
LEMMA OwnerCalls ==
    ASSUME AuthInv, OneOwner, NEW r \in Request,
           \/ GetVendorToken(r) \/ OauthRefresh(r) \/ ResolverRefresh(r)
           \/ UpsertVendorToken(r) \/ StoreLogin(r)
    PROVE  OneOwner'
  <1>1. UNCHANGED <<session, doubt>>
    BY DEF GetVendorToken, OauthRefresh, ResolverRefresh, UpsertVendorToken, StoreLogin, sessionVars
  <1>2. CASE Refused(r) /\ req[r].pc # "answer"
    BY <1>1, <1>2, OwnerRefused
  <1>3. CASE GetVendorToken(r)
    <2>1. /\ req' = [req EXCEPT ![r].pc = "oauth_refresh", ![r].grant = stored["spotify"]]
          /\ UNCHANGED <<cookie, waiting>> /\ req[r].pc = "get_vendor_token"
      BY <1>3 DEF GetVendorToken
    <2>2. req[r].pc \in RefreshStage \ {"answer"} /\ "oauth_refresh" \in RefreshStage
      BY <2>1 DEF RefreshStage
    <2> QED BY <1>1, <2>1, <2>2, OwnerGoes
  <1>4. CASE OauthRefresh(r) /\ ~Refused(r)
    <2>1. /\ \E g : req' = [req EXCEPT ![r].pc = "upsert_vendor_token", ![r].grant = g]
          /\ UNCHANGED <<cookie, waiting>> /\ req[r].pc = "oauth_refresh"
      BY <1>4 DEF OauthRefresh
    <2>2. req[r].pc \in RefreshStage \ {"answer"} /\ "upsert_vendor_token" \in RefreshStage
      BY <2>1 DEF RefreshStage
    <2> QED BY <1>1, <2>1, <2>2, OwnerGoes
  <1>5. CASE ResolverRefresh(r) /\ ~Refused(r)
    <2>1. /\ \E g : req' = [req EXCEPT ![r].pc = "resolver_update", ![r].grant = g]
          /\ UNCHANGED <<cookie, waiting>> /\ req[r].pc = "resolver_refresh"
      BY <1>5 DEF ResolverRefresh
    <2>2. req[r].pc \in ResolveStage /\ "resolver_update" \in ResolveStage
      BY <2>1 DEF ResolveStage
    <2> QED BY <1>1, <2>1, <2>2, OwnerGoes
  <1>6. CASE UpsertVendorToken(r)
    <2>1. /\ req' = [req EXCEPT ![r].pc = "rotate_session"]
          /\ UNCHANGED <<cookie, waiting>> /\ req[r].pc = "upsert_vendor_token"
      BY <1>6 DEF UpsertVendorToken, Goto
    <2>2. req[r].pc \in RefreshStage \ {"answer"} /\ "rotate_session" \in RefreshStage
      BY <2>1 DEF RefreshStage
    <2> QED BY <1>1, <2>1, <2>2, OwnerGoes
  <1>7. CASE StoreLogin(r)
    <2>1. /\ \E p \in {"create_session", "callback"} : req' = [req EXCEPT ![r].pc = p]
          /\ UNCHANGED <<cookie, waiting>> /\ req[r].pc = "store_login"
      BY <1>7 DEF StoreLogin, Goto
    <2>2. /\ req[r].pc \in LoginStage \ {"callback"} /\ {"create_session", "callback"} \subseteq LoginStage
          /\ "revoke_all" \notin {"create_session", "callback"}
      BY <2>1 DEF LoginStage
    <2> QED BY <1>1, <2>1, <2>2, OwnerGoes
  <1>8. req[r].pc # "answer"
    BY DEF GetVendorToken, OauthRefresh, ResolverRefresh, UpsertVendorToken, StoreLogin
  <1> QED BY <1>2, <1>3, <1>4, <1>5, <1>6, <1>7, <1>8

\* A browser that goes away puts its session in doubt; signing out, revoking and expiring
\* leave every token what it was.
LEMMA OwnerBrowser ==
    ASSUME AuthInv, OneOwner, NEW b \in Browser,
           Abandon(b) \/ Logout(b) \/ \E s \in Session : RevokeSession(b, s) \/ Expire(s)
    PROVE  OneOwner'
  <1>1. /\ SessionTypes /\ waiting \in [Browser -> Request \cup {None}]
        /\ req \in [Request -> ReqRecord]
    BY TypesApart DEF AuthInv, WaitingTypes
  <1>2. CASE Abandon(b)
    <2>1. /\ UNCHANGED <<session, cookie, req>>
          /\ waiting' = [waiting EXCEPT ![b] = None]
          /\ doubt' = doubt \cup {req[waiting[b]].token.of}
      BY <1>2 DEF Abandon, sessionVars
    <2>2. ASSUME NEW s \in Session \ doubt' PROVE Owned(s)'
      <3>1. s \notin doubt /\ InFlight(s) /\ InJar(s) /\ ~Uses(waiting[b], s)
        BY <2>1, <2>2 DEF OneOwner, Uses
      <3>2. \A r \in Request : Uses(r, s) /\ req[r].by \in Browser /\ waiting[req[r].by] = r
               => waiting'[req[r].by] = r
        BY <1>1, <2>1, <3>1 DEF Uses
      <3>3. InFlight(s)'
        BY <2>1, <3>1, <3>2 DEF InFlight, Uses
      <3>4. InJar(s)'
        BY <2>1, <3>1 DEF InJar, Uses
      <3> QED BY <3>3, <3>4 DEF Owned
    <2>3. \A s \in Session : Fresh(s)'
      BY <2>1 DEF Fresh, OneOwner, Uses
    <2>4. SenderWaits'
      BY <1>1, <2>1 DEF SenderWaits, OneOwner
    <2> QED BY <2>2, <2>3, <2>4 DEF OneOwner, Fresh, Owned, SenderWaits
  <1>3. ASSUME Logout(b) \/ \E s \in Session : RevokeSession(b, s) \/ Expire(s)
        PROVE  OneOwner'
    <2>1. /\ UNCHANGED <<waiting, req, doubt>>
          /\ cookie' = cookie \/ cookie' = [cookie EXCEPT ![b] = NoToken]
          /\ \E S : session' = Ended(S)
      BY <1>3 DEF Logout, RevokeSession, Expire
    <2>2. \A s \in Session : /\ session'[s].hash = session[s].hash
                             /\ session'[s].status = "none" => session[s].status = "none"
      BY <1>1, <2>1, EndedKeeps
    <2>3. \A c \in Browser, s \in Session : cookie'[c].of = s => cookie'[c] = cookie[c]
      BY <1>1, <2>1, AuthAssumption DEF SessionTypes, NoToken
    <2>4. \A s \in Session : Fresh(s)'
      BY <2>1, <2>2, <2>3 DEF Fresh, OneOwner, Uses
    <2>5. ASSUME NEW s \in Session \ doubt' PROVE Owned(s)'
      <3>1. InFlight(s) /\ InJar(s)
        BY <2>1, <2>5 DEF OneOwner
      <3>2. InFlight(s)'
        BY <2>1, <2>2, <2>3, <3>1 DEF InFlight, Uses
      <3>3. InJar(s)'
        BY <2>1, <2>2, <2>3, <3>1 DEF InJar, Uses
      <3> QED BY <3>2, <3>3 DEF Owned
    <2>6. SenderWaits'
      BY <2>1 DEF SenderWaits, OneOwner
    <2> QED BY <2>4, <2>5, <2>6 DEF OneOwner, Fresh, Owned, SenderWaits
  <1> QED BY <1>2, <1>3

\* A browser that waits for nothing sends its cookie: the current token of the session, if
\* no answer was lost, for the answer that may carry a newer one is waited for.
LEMMA OwnerSends ==
    ASSUME AuthInv, OneOwner, NEW r \in Request, NEW b \in Browser, SendRefresh(r, b)
    PROVE  OneOwner'
  <1>1. /\ req \in [Request -> ReqRecord] /\ waiting \in [Browser -> Request \cup {None}]
        /\ SessionTypes
    BY RecordOf DEF AuthInv, WaitingTypes
  <1>2. /\ req[r] = Idle /\ waiting[b] = None /\ cookie[b] # NoToken
        /\ req' = [req EXCEPT ![r] = [pc |-> "get_active_session", by |-> b, token |-> cookie[b],
                                      vendor |-> "spotify", grant |-> 0]]
        /\ waiting' = [waiting EXCEPT ![b] = r]
        /\ UNCHANGED <<session, cookie, doubt>>
    BY DEF SendRefresh, Begin, sessionVars
  <1>3. /\ Moves(r) /\ req'[r].token = cookie[b] /\ req'[r].by = b
        /\ req'[r].pc = "get_active_session"
    BY <1>1, <1>2 DEF Moves
  <1>4. waiting'[b] = r /\ \A c \in Browser \ {b} : waiting'[c] = waiting[c]
    BY <1>1, <1>2
  <1>5. \A c \in Browser : waiting[c] # r
    BY <1>2, NobodyWaits DEF AuthInv, Idle, RefreshStage
  <1>6. \A s \in Session : ~Uses(r, s)
    BY <1>2, AuthAssumption DEF Uses, Idle, NoToken
  <1>7. \A s \in Session, o \in Request \ {r} : /\ Uses(o, s)' <=> Uses(o, s)
                                                /\ req'[o] = req[o]
    BY <1>3 DEF Moves, Uses
  <1>8. ASSUME NEW s \in Session PROVE Fresh(s)'
    BY <1>2, <1>3, <1>7 DEF Fresh, OneOwner, Uses
  <1>9. ASSUME NEW s \in Session \ doubt' PROVE Owned(s)'
    <2>1. InFlight(s) /\ InJar(s)
      BY <1>2, <1>9 DEF OneOwner
    <2>2. ASSUME cookie[b].of = s
          PROVE  (\A o \in Request : ~Uses(o, s)) /\ cookie[b].n = session[s].hash
      <3>1. ASSUME NEW o \in Request, Uses(o, s) PROVE FALSE
        <4>1. req[o].by = b /\ waiting[b] = o
          BY <2>1, <2>2, <3>1 DEF InFlight
        <4> QED BY <1>2, <4>1, AuthAssumption
      <3> QED BY <2>1, <2>2, <3>1 DEF InJar
    <2>3. CASE cookie[b].of = s
      <3>1. \A o \in Request : Uses(o, s)' => o = r
        BY <1>7, <2>2, <2>3
      <3>2. \A c \in Browser : cookie[c].of = s => c = b
        BY <2>1, <2>3 DEF InJar
      <3>3. InFlight(s)'
        <4>1. "get_active_session" \in RefreshStage \ {"revoke_all"}
          BY DEF RefreshStage
        <4> QED BY <1>2, <1>3, <1>4, <2>2, <2>3, <3>1, <3>2, <4>1 DEF InFlight
      <3>4. InJar(s)'
        BY <1>2, <2>2, <2>3, <3>2 DEF InJar
      <3> QED BY <3>3, <3>4 DEF Owned
    <2>4. CASE cookie[b].of # s
      <3>1. ~Uses(r, s)'
        BY <1>3, <2>4 DEF Uses
      <3>2. \A o \in Request : Uses(o, s)' => Uses(o, s) /\ o # r /\ req'[o] = req[o]
        BY <1>7, <3>1
      <3>3. \A o \in Request : Uses(o, s) => o # r /\ Uses(o, s)' /\ req'[o] = req[o]
        BY <1>6, <1>7
      <3>4. ASSUME NEW o \in Request, Uses(o, s), waiting[req[o].by] = o, req[o].by \in Browser
            PROVE  waiting'[req[o].by] = o
        <4>1. req[o].by # b
          BY <1>2, <3>4, AuthAssumption
        <4> QED BY <1>4, <3>4, <4>1
      <3>5. InFlight(s)'
        BY <1>2, <2>1, <3>2, <3>4 DEF InFlight
      <3>6. InJar(s)'
        BY <1>2, <2>1, <3>3 DEF InJar
      <3> QED BY <3>5, <3>6 DEF Owned
    <2> QED BY <2>3, <2>4
  <1>10. SenderWaits'
    BY <1>1, <1>3, <1>4, <1>5 DEF SenderWaits, OneOwner, Moves
  <1> QED BY <1>8, <1>9, <1>10 DEF OneOwner, Fresh, Owned, SenderWaits

\* The token that the rotation makes is the current one, and waited for.
LEMMA OwnerRotates ==
    ASSUME AuthInv, OneOwner, NEW r \in Request, RotateSession(r)
    PROVE  OneOwner'
  <1> PICK t : t = req[r].token.of
    OBVIOUS
  <1> PICK n : n = issued[t] + 1
    OBVIOUS
  <1>1. /\ req \in [Request -> ReqRecord] /\ waiting \in [Browser -> Request \cup {None}]
        /\ SessionTypes
    BY RecordOf DEF AuthInv, WaitingTypes
  <1>2. /\ req[r].pc = "rotate_session" /\ session' = [session EXCEPT ![t].hash = n]
        /\ req' = [req EXCEPT ![r].pc = "answer", ![r].token = [of |-> t, n |-> n]]
        /\ UNCHANGED <<cookie, waiting, doubt>>
    BY DEF RotateSession
  <1>3. /\ Moves(r) /\ req'[r].token = [of |-> t, n |-> n] /\ req'[r].by = req[r].by
        /\ req'[r].pc = "answer"
    BY <1>1, <1>2 DEF Moves, ReqRecord
  <1>4. /\ \A s \in Session : session'[s].status = session[s].status
        /\ \A s \in Session \ {t} : session'[s].hash = session[s].hash
        /\ t \in Session => session'[t].hash = n
    <2>1. session \in [Session -> [status : {"none", "active", "ended"}, hash : 0..MaxRefresh]]
      BY <1>1 DEF SessionTypes
    <2>2. ASSUME NEW s \in Session \ {t} PROVE session'[s] = session[s]
      BY <1>2, <2>1
    <2>3. ASSUME t \in Session
          PROVE  session'[t].status = session[t].status /\ session'[t].hash = n
      BY <1>2, <2>1, <2>3
    <2> QED BY <2>2, <2>3
  <1>5. \A s \in Session, o \in Request : /\ Uses(o, s)' <=> Uses(o, s)
                                          /\ o # r => req'[o] = req[o]
                                          /\ req'[o].by = req[o].by
    BY <1>3 DEF Moves, Uses
  <1>6. ASSUME NEW s \in Session PROVE Fresh(s)'
    BY <1>2, <1>4, <1>5 DEF Fresh, OneOwner
  <1>7. ASSUME NEW s \in Session \ doubt' PROVE Owned(s)'
    <2>0. UNCHANGED <<cookie, waiting>> /\ s \in Session \ doubt /\ req[r].pc = "rotate_session"
      BY <1>2
    <2>1. InFlight(s) /\ InJar(s)
      BY <2>0 DEF OneOwner
    <2>o. \A o \in Request : /\ Uses(o, s)' <=> Uses(o, s)
                             /\ o # r => req'[o] = req[o]
      BY <1>5
    <2>2. CASE s = t
      <3>1. Uses(r, s) /\ Uses(r, s)' /\ req'[r].token.n = session'[s].hash
        BY <1>3, <1>4, <2>2 DEF Uses
      <3>2. \A o \in Request : Uses(o, s) => o = r
        BY <2>1, <3>1 DEF InFlight
      <3>3. /\ req[r].by \in Browser /\ waiting[req[r].by] = r
            /\ \A b \in Browser : cookie[b].of = s => b = req[r].by
        BY <2>0, <2>1, <3>1 DEF InFlight
      <3>4. InFlight(s)'
        <4>1. "answer" \in RefreshStage \ {"revoke_all"}
          BY DEF RefreshStage
        <4> QED BY <2>0, <2>o, <1>3, <3>1, <3>2, <3>3, <4>1 DEF InFlight
      <3>5. InJar(s)'
        BY <2>0, <1>3, <2>1, <3>1 DEF InJar
      <3> QED BY <3>4, <3>5 DEF Owned
    <2>3. CASE s # t
      <3>1. ~Uses(r, s)
        BY <2>3 DEF Uses
      <3>2. session'[s].hash = session[s].hash
        BY <1>4, <2>3
      <3>3. InFlight(s)'
        BY <2>0, <2>o, <2>1, <3>1, <3>2 DEF InFlight
      <3>4. InJar(s)'
        BY <2>0, <2>o, <2>1, <3>1, <3>2 DEF InJar
      <3> QED BY <3>3, <3>4 DEF Owned
    <2> QED BY <2>2, <2>3
  <1>8. SenderWaits'
    <2>1. \A o \in Request : req'[o].by = req[o].by
      BY <1>3 DEF Moves
    <2> QED BY <1>1, <1>2, <2>1 DEF SenderWaits, OneOwner
  <1> QED BY <1>6, <1>7, <1>8 DEF OneOwner, Fresh, Owned, SenderWaits

\* The answer of a refresh gives its token to the browser that waits for it, the sign-in
\* gives its own to the browser that signed in, a cookie of another session lost or not.
LEMMA OwnerHands ==
    ASSUME AuthInv, OneOwner, NEW r \in Request, NEW B \in SUBSET Browser,
           Moves(r), req'[r].token = NoToken, session' = session, doubt' = doubt,
           \A b \in Browser : cookie'[b] = IF b \in B THEN req[r].token ELSE cookie[b],
           \A b \in Browser : waiting'[b] = IF waiting[b] = r THEN None ELSE waiting[b],
           \A b \in Browser : waiting[b] = r => b \in B,
           req[r].pc = "answer" => \A b \in B : waiting[b] = r,
           req[r].pc # "answer" => \A b, c \in B : b = c
    PROVE  OneOwner'
  <1>1. /\ req \in [Request -> ReqRecord] /\ waiting \in [Browser -> Request \cup {None}]
    BY RecordOf DEF AuthInv, WaitingTypes
  <1>2. \A s \in Session : ~Uses(r, s)'
    BY AuthAssumption DEF Uses, NoToken
  <1>3. \A s \in Session, o \in Request \ {r} : req'[o] = req[o] /\ (Uses(o, s)' <=> Uses(o, s))
    BY DEF Moves, Uses
  <1>4. \A b, c \in B : b = c
    <2>1. CASE req[r].pc = "answer"
      <3>1. \A b \in B : waiting[b] # None /\ req[waiting[b]].by = b /\ waiting[b] = r
        BY <2>1, AuthAssumption DEF OneOwner
      <3> QED BY <3>1
    <2> QED BY <2>1
  <1>5. ASSUME NEW s \in Session PROVE Fresh(s)'
    <2>1. Fresh(s)
      BY OwnerParts
    <2>2. session[s].status = "none" => \A b \in Browser : cookie'[b].of # s
      BY <2>1 DEF Fresh, Uses
    <2> QED BY <1>2, <1>3, <2>1, <2>2 DEF Fresh
  <1>6. ASSUME NEW s \in Session \ doubt' PROVE Owned(s)'
    <2>1. InFlight(s) /\ InJar(s)
      BY <1>6 DEF OneOwner
    <2>2. CASE Uses(r, s)
      <3>1. \A o \in Request : ~Uses(o, s)'
        BY <1>2, <1>3, <2>1, <2>2 DEF InFlight
      <3>2. \A b \in Browser : cookie'[b].of = s => b \in B
        <4>1. CASE \A b \in Browser : cookie[b].of # s
          BY <4>1
        <4>2. CASE /\ req[r].by \in Browser /\ waiting[req[r].by] = r
                   /\ \A b \in Browser : cookie[b].of = s => b = req[r].by
          BY <4>2
        <4> QED BY <2>1, <2>2, <4>1, <4>2 DEF InFlight
      <3>3. \A b \in B : cookie'[b].n = session'[s].hash
        BY <2>1, <2>2 DEF InFlight
      <3>4. InFlight(s)'
        BY <3>1 DEF InFlight
      <3>5. InJar(s)'
        BY <1>4, <3>2, <3>3 DEF InJar
      <3> QED BY <3>4, <3>5 DEF Owned
    <2>3. CASE ~Uses(r, s)
      <3>1. \A b \in Browser : cookie'[b].of = s => cookie'[b] = cookie[b]
        BY <2>3 DEF Uses
      <3>2. \A o \in Request : Uses(o, s)' => Uses(o, s) /\ o # r /\ req'[o] = req[o]
        BY <1>2, <1>3
      <3>3. \A o \in Request : Uses(o, s) => Uses(o, s)' /\ o # r /\ req'[o] = req[o]
        BY <1>3, <2>3
      <3>4. \A o \in Request, b \in Browser : Uses(o, s) /\ waiting[b] = o => waiting'[b] = o
        BY <2>3
      <3>5. InFlight(s)'
        <4>1. \A p, o \in Request : Uses(p, s)' /\ Uses(o, s)' => p = o
          BY <2>1, <3>2 DEF InFlight
        <4>2. ASSUME NEW o \in Request, Uses(o, s)'
              PROVE  /\ req'[o].token.n = session'[s].hash
                     /\ \/ /\ req'[o].pc \in RefreshStage \ {"revoke_all"}
                           /\ req'[o].by \in Browser /\ waiting'[req'[o].by] = o
                           /\ \A b \in Browser : cookie'[b].of = s => b = req'[o].by
                        \/ req'[o].pc = "callback" /\ \A b \in Browser : cookie'[b].of # s
          <5>1. Uses(o, s) /\ req'[o] = req[o]
            BY <3>2, <4>2
          <5> QED BY <2>1, <3>1, <3>4, <5>1 DEF InFlight
        <4> QED BY <4>1, <4>2 DEF InFlight
      <3>6. InJar(s)'
        <4>1. \A b, c \in Browser : cookie'[b].of = s /\ cookie'[c].of = s => b = c
          BY <2>1, <3>1 DEF InJar
        <4>2. ASSUME NEW b \in Browser, cookie'[b].of = s
              PROVE  \/ cookie'[b].n = session'[s].hash
                     \/ \E o \in Request : Uses(o, s)' /\ req'[o].pc = "answer"
          BY <2>1, <3>1, <3>3, <4>2 DEF InJar
        <4> QED BY <4>1, <4>2 DEF InJar
      <3> QED BY <3>5, <3>6 DEF Owned
    <2> QED BY <2>2, <2>3
  <1>7. SenderWaits'
    <2>1. ASSUME NEW b \in Browser, waiting'[b] # None PROVE req'[waiting'[b]].by = b
      <3>1. waiting[b] \in Request \ {r} /\ waiting'[b] = waiting[b]
        BY <1>1, <2>1
      <3> QED BY <1>3, <2>1, <3>1 DEF OneOwner, Moves
    <2> QED BY <2>1 DEF SenderWaits
  <1> QED BY <1>5, <1>6, <1>7 DEF OneOwner, Fresh, Owned, SenderWaits

LEMMA OwnerAnswers ==
    ASSUME AuthInv, OneOwner, NEW r \in Request, Answer(r) \/ Callback(r)
    PROVE  OneOwner'
  <1>1. /\ req \in [Request -> ReqRecord] /\ waiting \in [Browser -> Request \cup {None}]
        /\ SessionTypes
    BY RecordOf DEF AuthInv, WaitingTypes
  <1>2. /\ req' = [req EXCEPT ![r] = Idle] /\ UNCHANGED <<session, doubt>>
    BY DEF Answer, Callback, sessionVars
  <1>3. Moves(r) /\ req'[r].token = NoToken
    BY <1>1, <1>2 DEF Moves, Idle
  <1>4. CASE Answer(r)
    <2> DEFINE B == {b \in Browser : waiting[b] = r}
    <2>1. /\ \A b \in Browser : cookie'[b] = IF b \in B THEN req[r].token ELSE cookie[b]
          /\ \A b \in Browser : waiting'[b] = IF waiting[b] = r THEN None ELSE waiting[b]
          /\ req[r].pc = "answer"
      BY <1>4 DEF Answer
    <2>2. /\ B \in SUBSET Browser
          /\ \A b \in Browser : waiting[b] = r => b \in B
          /\ \A b \in B : waiting[b] = r
      OBVIOUS
    <2> HIDE DEF B
    <2> QED BY <1>2, <1>3, <2>1, <2>2, OwnerHands
  <1>5. CASE Callback(r)
    <2> DEFINE B == IF req[r].vendor = "spotify" THEN Browser \cap {req[r].by} ELSE {}
    <2>1. req[r].pc = "callback" /\ waiting' = waiting
      BY <1>5 DEF Callback
    <2>2. \A b \in Browser : waiting[b] # r
      BY <2>1, NobodyWaits DEF AuthInv, RefreshStage
    <2>3. \A b \in Browser : cookie'[b] = IF b \in B THEN req[r].token ELSE cookie[b]
      BY <1>1, <1>5 DEF Callback, SessionTypes
    <2>4. B \in SUBSET Browser /\ \A b, c \in B : b = c
      OBVIOUS
    <2> HIDE DEF B
    <2> QED BY <1>2, <1>3, <2>1, <2>2, <2>3, <2>4, OwnerHands
  <1> QED BY <1>4, <1>5

\* A new session is its sign-in's alone.
LEMMA OwnerCreates ==
    ASSUME AuthInv, OneOwner, NEW r \in Request, CreateSession(r)
    PROVE  OneOwner'
  <1>1. /\ req \in [Request -> ReqRecord] /\ waiting \in [Browser -> Request \cup {None}]
        /\ SessionTypes
    BY RecordOf DEF AuthInv, WaitingTypes
  <1>2. PICK t \in Session :
           /\ session[t].status = "none"
           /\ session' = [session EXCEPT ![t] = [status |-> "active", hash |-> 1]]
           /\ req' = [req EXCEPT ![r].pc = "callback", ![r].token = [of |-> t, n |-> 1]]
    BY DEF CreateSession
  <1>3. req[r].pc = "create_session" /\ UNCHANGED <<cookie, waiting, doubt>>
    BY DEF CreateSession
  <1>4. /\ Moves(r) /\ req'[r].token = [of |-> t, n |-> 1] /\ req'[r].by = req[r].by
        /\ req'[r].pc = "callback"
    BY <1>1, <1>2 DEF Moves, ReqRecord
  <1>5. /\ session'[t] = [status |-> "active", hash |-> 1]
        /\ \A s \in Session \ {t} : session'[s] = session[s]
    BY <1>1, <1>2 DEF SessionTypes
  <1>6. /\ \A o \in Request : ~Uses(o, t)
        /\ \A b \in Browser : cookie[b].of # t
    BY <1>2 DEF OneOwner
  <1>7. \A s \in Session, o \in Request \ {r} : req'[o] = req[o] /\ (Uses(o, s)' <=> Uses(o, s))
    BY <1>4 DEF Moves, Uses
  <1>8. \A s \in Session : Uses(r, s)' <=> s = t
    BY <1>4 DEF Uses
  <1>9. ASSUME NEW s \in Session PROVE Fresh(s)'
    <2>1. Fresh(s)
      BY OwnerParts
    <2> QED BY <1>3, <1>5, <1>7, <1>8, <2>1 DEF Fresh
  <1>10. ASSUME NEW s \in Session \ doubt' PROVE Owned(s)'
    <2>1. CASE s = t
      <3>1. \A o \in Request : Uses(o, t)' => o = r
        BY <1>6, <1>7
      <3>2. InFlight(t)'
        BY <1>3, <1>4, <1>5, <1>6, <3>1 DEF InFlight
      <3>3. InJar(t)'
        BY <1>3, <1>6 DEF InJar
      <3> QED BY <2>1, <3>2, <3>3 DEF Owned
    <2>2. CASE s # t
      <3>1. /\ Owned(s) /\ ~Uses(r, s)' /\ session'[s].hash = session[s].hash
            /\ \A b \in Browser : waiting'[b] = waiting[b]
        BY <1>3, <1>5, <1>8, <1>10, <2>2, OwnerParts
      <3>2. cookie' = cookie /\ req[r].pc # "answer"
        BY <1>3
      <3> QED BY <1>4, <3>1, <3>2, OwnedEnds
    <2> QED BY <2>1, <2>2
  <1>11. SenderWaits'
    <2>1. \A o \in Request : req'[o].by = req[o].by
      BY <1>4 DEF Moves
    <2> QED BY <1>1, <1>3, <2>1 DEF SenderWaits, OneOwner
  <1> QED BY <1>9, <1>10, <1>11 DEF OneOwner, Fresh, Owned, SenderWaits

LEMMA OwnerStep == AuthInv /\ OneOwner /\ [Next]_vars => OneOwner'
  <1> SUFFICES ASSUME AuthInv, OneOwner, [Next]_vars PROVE OneOwner'
    OBVIOUS
  <1>0. SessionTypes
    BY TypesApart DEF AuthInv
  <1>1. ASSUME NEW b \in Browser,
               Abandon(b) \/ Logout(b) \/ \E s \in Session : RevokeSession(b, s)
        PROVE  OneOwner'
    BY <1>1, OwnerBrowser
  <1>2. ASSUME NEW s \in Session, Expire(s) PROVE OneOwner'
    <2>1. /\ UNCHANGED <<cookie, waiting, req, doubt>> /\ session' = Ended({s})
      BY <1>2 DEF Expire
    <2>2. \A u \in Session : /\ session'[u].hash = session[u].hash
                             /\ session'[u].status = "none" => session[u].status = "none"
      BY <1>0, <2>1, EndedKeeps
    <2>3. UNCHANGED <<cookie, waiting, req, doubt>>
      BY <2>1
    <2>4. \A u \in Session : Fresh(u)'
      BY <2>2, <2>3 DEF Fresh, OneOwner, Uses
    <2>5. \A u \in Session \ doubt : InFlight(u)'
      BY <2>2, <2>3 DEF OneOwner, InFlight, Uses
    <2>6. \A u \in Session \ doubt : InJar(u)'
      BY <2>2, <2>3 DEF OneOwner, InJar, Uses
    <2>7. SenderWaits'
      BY <2>3 DEF OneOwner, SenderWaits
    <2> QED BY <2>3, <2>4, <2>5, <2>6, <2>7 DEF OneOwner, Fresh, SenderWaits
  <1>3. ASSUME NEW r \in Request, NEW b \in Browser,
               SendRefresh(r, b) \/ Login(r, b) \/ YtmusicPoll(r, b)
        PROVE  OneOwner'
    BY <1>3, OwnerSends, OwnerBegins DEF Login, YtmusicPoll, sessionVars
  <1>4. ASSUME NEW r \in Request, NEW v \in Vendor, Resolve(r, v) PROVE OneOwner'
    BY <1>4, OwnerBegins DEF Resolve, sessionVars
  <1>5. ASSUME NEW r \in Request, RevokeAll(r) PROVE OneOwner'
    <2>1. /\ Refused(r) /\ session' = Ended(Session) /\ doubt' = doubt
          /\ req[r].pc # "answer"
      BY <1>5 DEF RevokeAll
    <2> QED BY <1>0, <2>1, EndedKeeps, OwnerRefused
  <1>6. ASSUME NEW r \in Request, ResolverUpdate(r) \/ VendorAnswerLost(r) \/ Die(r)
        PROVE  OneOwner'
    <2>1. /\ Refused(r) /\ session' = session /\ doubt \subseteq doubt'
          /\ req[r].pc = "answer" => req[r].token.of \in doubt'
      BY <1>6 DEF ResolverUpdate, VendorAnswerLost, Die, sessionVars
    <2> QED BY <2>1, OwnerRefused
  <1>7. CASE YtmusicDisconnect \/ (\E v \in Vendor : TakeBack(v)) \/ UNCHANGED vars
    <2>1. UNCHANGED <<session, cookie, waiting, req, doubt>>
      BY <1>7 DEF YtmusicDisconnect, TakeBack, vars, sessionVars
    <2> QED BY <2>1 DEF OneOwner, InFlight, InJar, Uses
  <1>8. ASSUME NEW r \in Request,
               \/ GetActiveSession(r) \/ GetVendorToken(r) \/ OauthRefresh(r)
               \/ UpsertVendorToken(r) \/ RotateSession(r) \/ Answer(r) \/ StoreLogin(r)
               \/ CreateSession(r) \/ Callback(r) \/ ResolverRefresh(r)
        PROVE  OneOwner'
    BY <1>8, OwnerRead, OwnerCalls, OwnerRotates, OwnerAnswers, OwnerCreates
  <1> QED BY <1>1, <1>2, <1>3, <1>4, <1>5, <1>6, <1>7, <1>8 DEF Next

\* Whatever sign-ins, sign-outs, revocations, publishes and refreshes overlap, on any number
\* of browsers: the tripwire of a replayed refresh token ends the sessions of the user only
\* after a browser was left without an answer, for until then each session has one browser
\* with its current token, or on the way to it.
THEOREM NeverFalseReplay == Spec => []NoFalseReplay
  <1>1. Init => OneOwner
    BY AuthAssumption DEF Init, OneOwner, InFlight, InJar, Uses, Idle, NoToken
  <1>2. AuthInv /\ OneOwner => NoFalseReplay
    <2> SUFFICES ASSUME AuthInv, OneOwner, NEW r \in Request, req[r].pc = "revoke_all",
                        req[r].token.of \notin doubt
                 PROVE  FALSE
      BY DEF NoFalseReplay
    <2>1. req[r].token.of \in Session \ doubt
      BY DEF AuthInv, StageInv, RealToken, RefreshStage
    <2> QED BY <2>1 DEF OneOwner, InFlight, Uses
  <1>3. AuthInv /\ OneOwner /\ [Next]_vars => OneOwner'
    BY OwnerStep
  <1> QED BY <1>1, <1>2, <1>3, AuthInvAlways, PTL DEF Spec
=============================================================================

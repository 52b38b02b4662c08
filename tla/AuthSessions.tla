---------------------------- MODULE AuthSessions ----------------------------
(***************************************************************************)
(* Sessions of one user and the vendor tokens behind them: the handlers of *)
(* auth_handler.py and the two token resolvers of a publish.  A session    *)
(* row holds the hash of the one refresh token that counts; a refresh      *)
(* reads the row, calls Spotify with the stored Spotify token, stores the  *)
(* tokens of the answer and rotates the row, each a statement of its own.  *)
(* A token that is not the one of the row ends every session of the user.  *)
(*                                                                         *)
(* A refresh token is its session and its number in it (every JWT has a    *)
(* fresh jti); a vendor refresh token is a number.  The user exists        *)
(* already and is premium.  A vendor either hands out a new refresh token  *)
(* with every answer and retires the old one, or never does.               *)
(***************************************************************************)
EXTENDS Naturals, FiniteSets

CONSTANTS
    Browser,     \* cookie jars of the user
    Session,     \* ids that user_sessions may get
    Request,     \* Lambda invocations in flight
    None,
    Rotates,     \* vendors that hand out a new refresh token each time
    MaxRefresh,  \* bounds the refresh tokens of a session
    MaxGrant,    \* bounds the refresh tokens of each vendor
    MaxFaults    \* bounds lost calls and answers, and grants taken back

Vendor == {"spotify", "ytmusic"}

ASSUME AuthAssumption ==
    /\ None \notin Session \cup Request
    /\ Rotates \subseteq Vendor
    /\ MaxGrant \in [Vendor -> Nat]
    /\ MaxRefresh \in Nat \ {0} /\ MaxFaults \in Nat

VARIABLES
    session,    \* user_sessions: whether a row is active, and its hash
    issued,     \* refresh tokens made so far for a session
    cookie,     \* the refresh token in the jar of a browser
    waiting,    \* the refresh a browser holds its lock for
    req,        \* what an invocation has read, and where it stands
    stored,     \* user_vendor_tokens: the refresh token of a vendor, 0 is no row
    grants,     \* the refresh tokens a vendor accepts
    minted,     \* and how many it has made
    doubt,      \* history: sessions with a refresh whose answer was never taken
    taken,      \* history: refresh tokens the user has taken back at a vendor
    lost,       \* history: vendors whose newest token died with a request
    faults

sessionVars == <<session, issued>>
vendorVars == <<stored, grants, minted, taken, lost>>
vars == <<sessionVars, cookie, waiting, req, vendorVars, doubt, faults>>

NoToken == [of |-> None, n |-> 0]
Token == {NoToken} \cup [of : Session, n : 1..MaxRefresh]
Idle == [pc |-> "idle", by |-> None, token |-> NoToken, vendor |-> "spotify", grant |-> 0]

\* Where an invocation stands: before the statement or call of that name.
RefreshStage == {"get_active_session", "revoke_all", "get_vendor_token", "oauth_refresh",
                 "upsert_vendor_token", "rotate_session", "answer"}
LoginStage == {"store_login", "create_session", "callback"}
ResolveStage == {"resolver_refresh", "resolver_update"}

AuthTypeOK ==
    /\ session \in [Session -> [status : {"none", "active", "ended"}, hash : 0..MaxRefresh]]
    /\ issued \in [Session -> 0..MaxRefresh]
    /\ cookie \in [Browser -> Token]
    /\ waiting \in [Browser -> Request \cup {None}]
    /\ req \in [Request -> [pc : {"idle"} \cup RefreshStage \cup LoginStage \cup ResolveStage,
                            by : Browser \cup {None}, token : Token, vendor : Vendor,
                            grant : Nat]]
    /\ stored \in [Vendor -> Nat]
    /\ grants \in [Vendor -> SUBSET Nat]
    /\ minted \in [Vendor -> Nat]
    /\ \A v \in Vendor : /\ minted[v] <= MaxGrant[v]
                         /\ grants[v] \cup {stored[v]} \subseteq 0..minted[v]
    /\ taken \in [Vendor -> SUBSET Nat]
    /\ doubt \in SUBSET Session
    /\ lost \in [Vendor -> BOOLEAN]
    /\ faults \in 0..MaxFaults

Init ==
    /\ session = [s \in Session |-> [status |-> "none", hash |-> 0]]
    /\ issued = [s \in Session |-> 0]
    /\ cookie = [b \in Browser |-> NoToken]
    /\ waiting = [b \in Browser |-> None]
    /\ req = [r \in Request |-> Idle]
    /\ stored = [v \in Vendor |-> 0]
    /\ grants = [v \in Vendor |-> {}]
    /\ minted = [v \in Vendor |-> 0]
    /\ taken = [v \in Vendor |-> {}]
    /\ doubt = {}
    /\ lost = [v \in Vendor |-> FALSE]
    /\ faults = 0

\* An invocation starts, before the named statement or call.
Begin(r, stage, b, token, v, g) ==
    /\ req[r] = Idle
    /\ req' = [req EXCEPT ![r] = [pc |-> stage, by |-> b, token |-> token,
                                  vendor |-> v, grant |-> g]]

-----------------------------------------------------------------------------
(* Vendors. *)

\* A new refresh token of vendor v, beside those it accepts.
Mint(v) ==
    /\ minted[v] < MaxGrant[v]
    /\ minted' = [minted EXCEPT ![v] = @ + 1]
    /\ grants' = [grants EXCEPT ![v] = @ \cup {minted[v] + 1}]

\* The vendor answers a refresh with token g: a rotating one retires g.
VendorRefresh(v, g) ==
    /\ g \in grants[v]
    /\ IF v \in Rotates
       THEN /\ minted[v] < MaxGrant[v]
            /\ minted' = [minted EXCEPT ![v] = @ + 1]
            /\ grants' = [grants EXCEPT ![v] = (@ \ {g}) \cup {minted[v] + 1}]
       ELSE UNCHANGED <<grants, minted>>

\* Mutant: the refresh token of the answer is dropped.
TokenSent(v, g) == g

\* The refresh token of the answer, the one sent if it names none.
TokenOfAnswer(v, g) == IF v \in Rotates THEN minted[v] + 1 ELSE g

-----------------------------------------------------------------------------
(* Browsers.  One refresh at a time in a browser: the page is single-      *)
(* flight and the pages of a browser share a Web Lock.                     *)

\* Mutant: every tab on its own.
SendRefreshUnlocked(r, b) ==
    /\ cookie[b] # NoToken
    /\ Begin(r, "get_active_session", b, cookie[b], "spotify", 0)
    /\ waiting' = [waiting EXCEPT ![b] = r]
    /\ UNCHANGED <<sessionVars, cookie, vendorVars, doubt, faults>>

SendRefresh(r, b) ==
    /\ waiting[b] = None
    /\ cookie[b] # NoToken
    /\ Begin(r, "get_active_session", b, cookie[b], "spotify", 0)
    /\ waiting' = [waiting EXCEPT ![b] = r]
    /\ UNCHANGED <<sessionVars, cookie, vendorVars, doubt, faults>>

\* The request ends without a new token for the browser.
Refused(r) ==
    /\ req' = [req EXCEPT ![r] = Idle]
    /\ waiting' = [b \in Browser |-> IF waiting[b] = r THEN None ELSE waiting[b]]
    /\ UNCHANGED cookie

Goto(r, stage) ==
    /\ req' = [req EXCEPT ![r].pc = stage]
    /\ UNCHANGED <<cookie, waiting>>

\* The page that waits goes away: its lock is free, the invocation runs on.
Abandon(b) ==
    /\ faults < MaxFaults
    /\ waiting[b] # None
    /\ faults' = faults + 1
    /\ waiting' = [waiting EXCEPT ![b] = None]
    /\ doubt' = doubt \cup {req[waiting[b]].token.of}
    /\ UNCHANGED <<sessionVars, cookie, req, vendorVars>>

\* The cookies a request to a path carries: the refresh cookie has Path=/auth/refresh.
SentTo(path, b) == IF path = "/auth/refresh" THEN cookie[b] ELSE NoToken

Ended(S) == [s \in Session |-> IF s \in S /\ session[s].status = "active"
                               THEN [session[s] EXCEPT !.status = "ended"] ELSE session[s]]

\* Sign out: revoke the session of the cookie the request carries, clear the cookie.
Logout(b) ==
    /\ cookie[b] # NoToken
    /\ session' = Ended({SentTo("/auth/logout", b).of})
    /\ cookie' = [cookie EXCEPT ![b] = NoToken]
    /\ UNCHANGED <<issued, waiting, req, vendorVars, doubt, faults>>

\* A signed-in page revokes another session of the user.
RevokeSession(b, s) ==
    /\ cookie[b] # NoToken
    /\ s # cookie[b].of
    /\ session[s].status = "active"
    /\ session' = Ended({s})
    /\ UNCHANGED <<issued, cookie, waiting, req, vendorVars, doubt, faults>>

\* expires_at passes; a rotation does not move it.
Expire(s) ==
    /\ session[s].status = "active"
    /\ session' = Ended({s})
    /\ UNCHANGED <<issued, cookie, waiting, req, vendorVars, doubt, faults>>

-----------------------------------------------------------------------------
(* POST /auth/refresh. *)

GetActiveSession(r) ==
    LET t == req[r].token IN
    /\ req[r].pc = "get_active_session"
    /\ \/ session[t.of].status # "active" /\ Refused(r)
       \/ session[t.of].status = "active" /\ session[t.of].hash # t.n /\ Goto(r, "revoke_all")
       \/ session[t.of].status = "active" /\ session[t.of].hash = t.n
          /\ Goto(r, "get_vendor_token")
    /\ UNCHANGED <<sessionVars, vendorVars, doubt, faults>>

RevokeAll(r) ==
    /\ req[r].pc = "revoke_all"
    /\ session' = Ended(Session)
    /\ Refused(r)
    /\ UNCHANGED <<issued, vendorVars, doubt, faults>>

\* The row is there: the callback stores it before it makes a session, and nothing
\* deletes the row of Spotify (see OauthRefresh).
GetVendorToken(r) ==
    /\ req[r].pc = "get_vendor_token"
    /\ req' = [req EXCEPT ![r].pc = "oauth_refresh", ![r].grant = stored["spotify"]]
    /\ UNCHANGED <<sessionVars, cookie, waiting, vendorVars, doubt, faults>>

\* A token the vendor no longer takes is answered with a 400, which urllib raises and
\* _post_token reports as a failed exchange, like a vendor that cannot be reached.
OauthRefresh(r) ==
    /\ req[r].pc = "oauth_refresh"
    /\ \/ /\ VendorRefresh("spotify", req[r].grant)
          /\ req' = [req EXCEPT ![r].pc = "upsert_vendor_token",
                                ![r].grant = TokenOfAnswer("spotify", req[r].grant)]
          /\ UNCHANGED <<cookie, waiting>>
       \/ Refused(r) /\ UNCHANGED <<grants, minted>>
    /\ UNCHANGED <<sessionVars, stored, taken, lost, doubt, faults>>

Store(r, token) ==
    /\ stored' = [stored EXCEPT ![req[r].vendor] = token]
    /\ lost' = [lost EXCEPT ![req[r].vendor] = FALSE]
    /\ UNCHANGED <<grants, minted, taken>>

UpsertVendorToken(r) ==
    /\ req[r].pc = "upsert_vendor_token"
    /\ Store(r, req[r].grant)
    /\ Goto(r, "rotate_session")
    /\ UNCHANGED <<sessionVars, doubt, faults>>

\* UPDATE .. WHERE id: whatever the row is by now.
RotateSession(r) ==
    LET s == req[r].token.of IN
    /\ req[r].pc = "rotate_session"
    /\ issued[s] < MaxRefresh
    /\ issued' = [issued EXCEPT ![s] = @ + 1]
    /\ session' = [session EXCEPT ![s].hash = issued[s] + 1]
    /\ req' = [req EXCEPT ![r].pc = "answer", ![r].token = [of |-> s, n |-> issued[s] + 1]]
    /\ UNCHANGED <<cookie, waiting, vendorVars, doubt, faults>>

\* The Set-Cookie of the answer reaches the browser that still waits for it.
Answer(r) ==
    /\ req[r].pc = "answer"
    /\ cookie' = [b \in Browser |-> IF waiting[b] = r THEN req[r].token ELSE cookie[b]]
    /\ waiting' = [b \in Browser |-> IF waiting[b] = r THEN None ELSE waiting[b]]
    /\ req' = [req EXCEPT ![r] = Idle]
    /\ UNCHANGED <<sessionVars, vendorVars, doubt, faults>>

-----------------------------------------------------------------------------
(* GET /auth/callback, and the connection of YouTube Music. *)

Login(r, b) ==
    /\ Mint("spotify")
    /\ Begin(r, "store_login", b, NoToken, "spotify", minted["spotify"] + 1)
    /\ UNCHANGED <<sessionVars, cookie, waiting, stored, taken, lost, doubt, faults>>

StoreLogin(r) ==
    /\ req[r].pc = "store_login"
    /\ Store(r, req[r].grant)
    /\ Goto(r, IF req[r].vendor = "spotify" THEN "create_session" ELSE "callback")
    /\ UNCHANGED <<sessionVars, doubt, faults>>

CreateSession(r) ==
    /\ req[r].pc = "create_session"
    /\ \E s \in Session :
          /\ session[s].status = "none"
          /\ session' = [session EXCEPT ![s] = [status |-> "active", hash |-> 1]]
          /\ issued' = [issued EXCEPT ![s] = 1]
          /\ req' = [req EXCEPT ![r].pc = "callback", ![r].token = [of |-> s, n |-> 1]]
    /\ UNCHANGED <<cookie, waiting, vendorVars, doubt, faults>>

\* Mutant: the cookie names the session and not the token.
CallbackWithSession(r) ==
    /\ req[r].pc = "callback"
    /\ cookie' = [cookie EXCEPT ![req[r].by] = req[r].token.of]
    /\ req' = [req EXCEPT ![r] = Idle]
    /\ UNCHANGED <<sessionVars, waiting, vendorVars, doubt, faults>>

\* A login sets the cookie of its browser; a connection leaves it alone.
Callback(r) ==
    LET b == req[r].by IN
    /\ req[r].pc = "callback"
    /\ cookie' = IF req[r].vendor = "spotify" THEN [cookie EXCEPT ![b] = req[r].token] ELSE cookie
    /\ req' = [req EXCEPT ![r] = Idle]
    /\ UNCHANGED <<sessionVars, waiting, vendorVars, doubt, faults>>

\* The poll that finds the device code approved.
YtmusicPoll(r, b) ==
    /\ Mint("ytmusic")
    /\ cookie[b] # NoToken
    /\ Begin(r, "store_login", b, NoToken, "ytmusic", minted["ytmusic"] + 1)
    /\ UNCHANGED <<sessionVars, cookie, waiting, stored, taken, lost, doubt, faults>>

YtmusicDisconnect ==
    /\ stored["ytmusic"] # 0
    /\ stored' = [stored EXCEPT !["ytmusic"] = 0]
    /\ UNCHANGED <<sessionVars, cookie, waiting, req, grants, minted, taken, lost, doubt, faults>>

-----------------------------------------------------------------------------
(* A publish whose access token runs out within a minute. *)

Resolve(r, v) ==
    /\ stored[v] # 0
    /\ Begin(r, "resolver_refresh", None, NoToken, v, stored[v])
    /\ UNCHANGED <<sessionVars, cookie, waiting, vendorVars, doubt, faults>>

ResolverRefresh(r) ==
    LET v == req[r].vendor IN
    /\ req[r].pc = "resolver_refresh"
    /\ \/ /\ VendorRefresh(v, req[r].grant)
          /\ req' = [req EXCEPT ![r].pc = "resolver_update",
                                ![r].grant = TokenOfAnswer(v, req[r].grant)]
          /\ UNCHANGED <<cookie, waiting>>
       \/ Refused(r) /\ UNCHANGED <<grants, minted>>
    /\ UNCHANGED <<sessionVars, stored, taken, lost, doubt, faults>>

\* Mutant: the resolver upserts.
ResolverUpsert(r) ==
    /\ req[r].pc = "resolver_update"
    /\ Store(r, req[r].grant)
    /\ Refused(r)
    /\ UNCHANGED <<sessionVars, doubt, faults>>

\* UPDATE .. WHERE user_id AND vendor: nothing if the row is gone.
ResolverUpdate(r) ==
    /\ req[r].pc = "resolver_update"
    /\ Store(r, IF stored[req[r].vendor] = 0 THEN 0 ELSE req[r].grant)
    /\ Refused(r)
    /\ UNCHANGED <<sessionVars, doubt, faults>>

-----------------------------------------------------------------------------
(* Faults. *)

Holds(r) == req[r].pc \in {"upsert_vendor_token", "store_login", "resolver_update"}

\* An invocation that dies, or whose answer does not arrive.
Die(r) ==
    /\ faults < MaxFaults
    /\ req[r] # Idle
    /\ faults' = faults + 1
    /\ Refused(r)
    /\ doubt' = IF req[r].pc = "answer" THEN doubt \cup {req[r].token.of} ELSE doubt
    /\ lost' = IF Holds(r) THEN [lost EXCEPT ![req[r].vendor] = TRUE] ELSE lost
    /\ UNCHANGED <<sessionVars, stored, grants, minted, taken>>

\* The vendor has answered a refresh, and the answer does not arrive.
VendorAnswerLost(r) ==
    /\ faults < MaxFaults
    /\ req[r].pc \in {"oauth_refresh", "resolver_refresh"}
    /\ VendorRefresh(req[r].vendor, req[r].grant)
    /\ faults' = faults + 1
    /\ lost' = [lost EXCEPT ![req[r].vendor] = TRUE]
    /\ Refused(r)
    /\ UNCHANGED <<sessionVars, stored, taken, doubt>>

\* The user takes the application's access back at the vendor.
TakeBack(v) ==
    /\ faults < MaxFaults
    /\ grants[v] # {}
    /\ faults' = faults + 1
    /\ grants' = [grants EXCEPT ![v] = {}]
    /\ taken' = [taken EXCEPT ![v] = @ \cup grants[v]]
    /\ UNCHANGED <<sessionVars, cookie, waiting, req, stored, minted, lost, doubt>>

-----------------------------------------------------------------------------
Next ==
    \/ \E b \in Browser : Abandon(b) \/ Logout(b) \/ \E s \in Session : RevokeSession(b, s)
    \/ \E s \in Session : Expire(s)
    \/ \E r \in Request, b \in Browser : SendRefresh(r, b) \/ Login(r, b) \/ YtmusicPoll(r, b)
    \/ \E r \in Request : \/ GetActiveSession(r) \/ RevokeAll(r) \/ GetVendorToken(r)
                          \/ OauthRefresh(r) \/ UpsertVendorToken(r) \/ RotateSession(r)
                          \/ Answer(r)
                          \/ StoreLogin(r) \/ CreateSession(r) \/ Callback(r)
                          \/ ResolverRefresh(r) \/ ResolverUpdate(r)
                          \/ Die(r) \/ VendorAnswerLost(r)
                          \/ \E v \in Vendor : Resolve(r, v)
    \/ YtmusicDisconnect
    \/ \E v \in Vendor : TakeBack(v)

Spec == Init /\ [][Next]_vars

-----------------------------------------------------------------------------
(* Properties. *)

\* The tripwire of ADR-0015 ends every session of the user only when a browser was left
\* without the answer to a refresh: overlapping sign-ins, sign-outs, revocations,
\* publishes and refreshes of other sessions, or a refresh that fails before it rotates,
\* never set it off.
NoFalseReplay == \A r \in Request : req[r].pc = "revoke_all" => req[r].token.of \in doubt

\* The token on file is one the vendor still takes, or took until the user revoked it
\* there; or the request that got its successor is about to store that, or died with it.
\* Refreshes, publishes, sign-ins and connections that overlap never leave a retired
\* token behind (auth_handler.py:433, the UPDATE of the resolvers).
GrantKept ==
    \A v \in Vendor :
        \/ stored[v] \in grants[v] \cup taken[v] \cup {0}
        \/ lost[v]
        \/ \E r \in Request : /\ Holds(r) /\ req[r].vendor = v
                              /\ req[r].grant \in grants[v] \cup taken[v]

\* A disconnected account stays so until the user connects it again: a publish that is
\* refreshing the token meanwhile does not bring the row back.
DisconnectStays ==
    [][stored["ytmusic"] = 0 /\ stored'["ytmusic"] # 0
       => \E r \in Request : req[r].pc = "store_login" /\ req'[r].pc = "callback"]_vars

\* docs/api/auth-flow.md: POST /auth/logout revokes the current session.
LogoutRevokes ==
    [][\A b \in Browser : Logout(b) => session'[cookie[b].of].status # "active"]_vars

=============================================================================

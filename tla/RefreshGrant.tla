---------------------------- MODULE RefreshGrant ----------------------------
(***************************************************************************)
(* The OAuth2 refresh-token grant: the token endpoint of internal/oidc     *)
(* (handleAuthCodeGrant, handleRefreshGrant, handleRetiredRefreshGrant,    *)
(* tearDownGrant, LogoutHandler), the grant tables of the PostgreSQL store *)
(* (grants, retired_refresh_tokens, revoked_tokens, operator_actions) and  *)
(* the operator's grant revocation.                                        *)
(*                                                                         *)
(* Every database call and the GitHub call is one atomic step, so requests *)
(* interleave exactly where the handlers give up control.  A request keeps *)
(* the grant row it read (the handler's `grant` variable) across the steps *)
(* that follow, while other requests change the tables under it.           *)
(*                                                                         *)
(* Data abstraction.  The jti and the opaque refresh token minted together *)
(* are named by one serial number; a row's jti and our_refresh_token are   *)
(* kept apart because the code looks rows up by either.  A GitHub refresh  *)
(* token is [id, gen, exp]: the authorization it descends from, its place  *)
(* in the rotation chain and its expiry.  Time is a counter shared by the  *)
(* server and the database; 0 stands for Go's zero time.                   *)
(***************************************************************************)
EXTENDS Naturals, FiniteSets

CONSTANTS
    Req,          \* concurrent requests the token endpoint serves
    Client,       \* client_id values
    NoClient,     \* the empty client_id of rows older than migration 4
    User,         \* users.id values
    JwtTTL,       \* jwtTTL
    GracePeriod,  \* refreshTokenGracePeriod; 0 disables the grace retry
    Retention,    \* retiredRefreshTokenRetention
    GitHubTTL,    \* lifetime of a GitHub refresh token
    MaxGrants,    \* bound: authorization codes ever exchanged
    MaxSerial,    \* bound: token pairs ever minted
    MaxTime       \* bound: the last instant

\* resolveRefreshTokenDurations refuses every other pair of durations.
ASSUME DurationsAssumption ==
    /\ JwtTTL \in Nat \ {0}
    /\ GitHubTTL \in Nat \ {0}
    /\ GracePeriod \in Nat
    /\ Retention \in Nat \ {0}
    /\ Retention >= GracePeriod

ASSUME BoundsAssumption ==
    MaxGrants \in Nat /\ MaxSerial \in Nat /\ MaxTime \in Nat

ASSUME NoClientAssumption == NoClient \notin Client

VARIABLES
    now,       \* the clock
    serial,    \* the last token pair minted
    grants,    \* table grants
    retired,   \* table retired_refresh_tokens
    revoked,   \* table revoked_tokens
    issued,    \* every JWT signed so far, and the client_id it was sent to
    upstream,  \* GitHub refresh tokens GitHub still accepts
    operator,  \* grants named by an oauth_grant.revoke row of operator_actions
    req        \* the handlers' local state

vars == <<now, serial, grants, retired, revoked, issued, upstream, operator, req>>

tables == <<grants, retired, revoked, issued, operator>>

-----------------------------------------------------------------------------
(* Records *)

Reason == {"rotated", "github_expired", "github_invalid",
           "github_missing_refresh", "grant_deleted",
           "client_binding_missing", "operator_revoked"}

GitHubToken == [id : Nat, gen : Nat, exp : Nat]

Grant == [id : Nat, jti : Nat, our_refresh_token : Nat,
          client_id : Client \cup {NoClient}, user_id : User,
          github : GitHubToken, jwt_expiry : Nat]

RetiredRefreshToken ==
    [token : Nat, reason : Reason, client_id : Client \cup {NoClient},
     replacement_jti : Nat, grace_expires_at : Nat, retained_until : Nat]

RevokedToken == [jti : Nat, expires_at : Nat]

\* jti, client_id and exp are claims.  The rest is history: the grant lineage
\* `id`, and the request the JWT answered, by its client `to` and the refresh
\* token it presented (`from`, 0 for an authorization code).
Jwt == [id : Nat, jti : Nat, client_id : Client \cup {NoClient},
        exp : Nat, to : Client \cup {NoClient}, from : Nat]

\* A request is idle, about to call GitHub, about to store what GitHub
\* returned, about to read the retired token or its replacement grant, or in
\* the two halves of tearDownGrant.
Handler ==
    [pc : {"idle"}]
    \cup [pc : {"retired"}, token : Nat, client : Client]
    \cup [pc : {"replacement"}, token : Nat, client : Client, jti : Nat]
    \cup [pc : {"github"}, grant : Grant, client : Client]
    \cup [pc : {"store"}, grant : Grant, client : Client, github : GitHubToken]
    \cup [pc : {"revoke", "delete"}, grant : Grant, reason : Reason]

TypeOK ==
    /\ now \in Nat
    /\ serial \in Nat
    /\ grants \subseteq Grant
    /\ retired \subseteq RetiredRefreshToken
    /\ revoked \subseteq RevokedToken
    /\ issued \subseteq Jwt
    /\ upstream \subseteq GitHubToken
    /\ operator \subseteq Nat
    /\ req \in [Req -> Handler]

Idle == [pc |-> "idle"]

-----------------------------------------------------------------------------
(* SQL statements on the grant tables *)

\* INSERT INTO revoked_tokens ... ON CONFLICT (jti) DO NOTHING
InsertRevoked(j, e) ==
    IF \E v \in revoked : v.jti = j
    THEN revoked
    ELSE revoked \cup {[jti |-> j, expires_at |-> e]}

RevokeToken_PrunesLive(j, e) ==
    InsertRevoked(j, e) \ {v \in revoked : v.expires_at > now}

\* Store.RevokeToken: the insert and, in the same statement, the deletion of
\* the rows that were already there and have expired.
RevokeToken(j, e) ==
    InsertRevoked(j, e) \ {v \in revoked : v.expires_at < now}

\* Store.IsTokenRevoked
IsTokenRevoked(j) == \E v \in revoked : v.jti = j /\ v.expires_at > now

\* Server.VerifyJWT: a signed JWT is accepted until it expires, unless revoked.
Accepted(i) == i.exp > now /\ ~IsTokenRevoked(i.jti)

\* insertRetiredRefreshTokenTx: upsert by token hash, then prune.
InsertRetired(t) ==
    {x \in {y \in retired : y.token # t.token} \cup {t} : x.retained_until >= now}

NewRetired_NoRetention(token, reason, client, replacement, grace) ==
    [token |-> token, reason |-> reason, client_id |-> client,
     replacement_jti |-> replacement, grace_expires_at |-> grace,
     retained_until |-> now]

\* Server.newRetiredRefreshToken
NewRetired(token, reason, client, replacement, grace) ==
    [token |-> token, reason |-> reason, client_id |-> client,
     replacement_jti |-> replacement, grace_expires_at |-> grace,
     retained_until |-> now + Retention]

GraceExpiresAt == IF GracePeriod > 0 THEN now + GracePeriod ELSE 0

\* Server.IssueJWT, answering a request of client `to` with token `from`
IssueJWT(id, j, client, exp, to, from) ==
    [id |-> id, jti |-> j, client_id |-> client, exp |-> exp,
     to |-> to, from |-> from]

\* The DELETE of Store.UpsertGrant
PrunedByUpsert(u, c) ==
    {g \in grants : g.user_id = u /\ g.client_id = c /\ g.jwt_expiry < now}

GetGrantByRefreshToken(token) == {g \in grants : g.our_refresh_token = token}

GetGrant(j) == {g \in grants : g.jti = j}

GetRetiredRefreshToken(token) ==
    {t \in retired : t.token = token /\ t.retained_until > now}

Goto(r, h) == req' = [req EXCEPT ![r] = h]

-----------------------------------------------------------------------------
(* The authorization-code exchange: where a grant begins *)

\* The bounds on the exchanges a model explores.
MayExchange ==
    /\ serial < MaxSerial
    /\ Cardinality({i.id : i \in issued}) < MaxGrants

\* handleAuthCodeGrant, from the point where the code has been consumed and
\* checked: mint a token pair, sign the JWT, store the grant.
AuthCodeGrant(u, c) ==
    LET n  == serial + 1
        gh == [id |-> n, gen |-> 1, exp |-> now + GitHubTTL]
    IN  /\ MayExchange
        /\ serial' = n
        /\ issued' = issued \cup {IssueJWT(n, n, c, now + JwtTTL, c, 0)}
        /\ grants' = (grants \ PrunedByUpsert(u, c)) \cup
                     {[id |-> n, jti |-> n, our_refresh_token |-> n,
                       client_id |-> c, user_id |-> u, github |-> gh,
                       jwt_expiry |-> now + JwtTTL]}
        /\ upstream' = upstream \cup {gh}
        /\ UNCHANGED <<now, retired, revoked, operator, req>>

\* The same exchange when no grant is stored: the client may not refresh,
\* GitHub returned no refresh token, or UpsertGrant failed.  The JWT is sent.
AuthCodeWithoutGrant(c) ==
    /\ MayExchange
    /\ serial' = serial + 1
    /\ issued' = issued \cup
          {IssueJWT(serial + 1, serial + 1, c, now + JwtTTL, c, 0)}
    /\ UNCHANGED <<now, grants, retired, revoked, upstream, operator, req>>

-----------------------------------------------------------------------------
(* The refresh grant *)

\* handleRefreshGrant up to its first database read, which finds the row: a
\* row without client binding is torn down, another client's is refused (and
\* nothing changes), the client's own goes on to GitHub.
RefreshFound(r, token, c) ==
    /\ req[r].pc = "idle"
    /\ \E g \in GetGrantByRefreshToken(token) :
          \/ /\ g.client_id = NoClient
             /\ Goto(r, [pc |-> "revoke", grant |-> g,
                         reason |-> "client_binding_missing"])
          \/ /\ g.client_id = c
             /\ Goto(r, [pc |-> "github", grant |-> g, client |-> c])
    /\ UNCHANGED <<now, serial, upstream, tables>>

\* No row has the token: handleRetiredRefreshGrant takes over.
RefreshNotFound(r, token, c) ==
    /\ req[r].pc = "idle"
    /\ GetGrantByRefreshToken(token) = {}
    /\ Goto(r, [pc |-> "retired", token |-> token, client |-> c])
    /\ UNCHANGED <<now, serial, upstream, tables>>

\* The stored GitHub token has expired: tear down without calling GitHub.
GitHubExpired(r) ==
    /\ req[r].pc = "github"
    /\ now > req[r].grant.github.exp
    /\ Goto(r, [pc |-> "revoke", grant |-> req[r].grant,
                reason |-> "github_expired"])
    /\ UNCHANGED <<now, serial, upstream, tables>>

\* External: GitHub answers bad_refresh_token for a token that it has
\* invalidated, or that expired after the check above.
GitHubRejects(r) ==
    /\ req[r].pc = "github"
    /\ req[r].grant.github \notin upstream \/ now > req[r].grant.github.exp
    /\ Goto(r, [pc |-> "revoke", grant |-> req[r].grant,
                reason |-> "github_invalid"])
    /\ UNCHANGED <<now, serial, upstream, tables>>

\* External: GitHub invalidates the token and returns its successor.
GitHubRotates(r) ==
    LET old == req[r].grant.github
        new == [id |-> old.id, gen |-> old.gen + 1, exp |-> now + GitHubTTL]
    IN  /\ req[r].pc = "github"
        /\ now <= old.exp
        /\ old \in upstream
        /\ upstream' = (upstream \ {old}) \cup {new}
        /\ Goto(r, [pc |-> "store", grant |-> req[r].grant,
                    client |-> req[r].client, github |-> new])
        /\ UNCHANGED <<now, serial, tables>>

\* External: GitHub invalidates the token and returns no successor.
GitHubMissingRefresh(r) ==
    LET old == req[r].grant.github
    IN  /\ req[r].pc = "github"
        /\ now <= old.exp
        /\ old \in upstream
        /\ upstream' = upstream \ {old}
        /\ Goto(r, [pc |-> "revoke", grant |-> req[r].grant,
                    reason |-> "github_missing_refresh"])
        /\ UNCHANGED <<now, serial, tables>>

RotateTarget_Snapshot(g) == {g}

\* The row the conditional UPDATE of RotateGrant finds for the row it read.
RotateTarget(g) == GetGrantByRefreshToken(g.our_refresh_token)

RotatedRow_KeepsToken(g, c, n, gh) ==
    [g EXCEPT !.jti = n, !.client_id = c, !.github = gh,
              !.jwt_expiry = now + JwtTTL]

\* The row RotateGrant writes over g; id and user_id stay.
RotatedRow(g, c, n, gh) ==
    [g EXCEPT !.jti = n, !.our_refresh_token = n, !.client_id = c,
              !.github = gh, !.jwt_expiry = now + JwtTTL]

\* Store.RotateGrant: one transaction swaps the row that still carries the
\* presented token, revokes the old jti and retires the old token.  The
\* handler then signs the new JWT; if it stops between the commit and the
\* signature, a grace retry signs the same JWT, so it counts as issued here.
RotateGrant(r) ==
    LET h == req[r]
        n == serial + 1
    IN  /\ h.pc = "store"
        /\ serial < MaxSerial
        /\ \E g \in RotateTarget(h.grant) :
              grants' = (grants \ {g}) \cup
                        {RotatedRow(g, h.grant.client_id, n, h.github)}
        /\ serial' = n
        /\ revoked' = InsertRevoked(h.grant.jti, h.grant.jwt_expiry)
        /\ retired' = InsertRetired(
              NewRetired(h.grant.our_refresh_token, "rotated",
                         h.grant.client_id, n, GraceExpiresAt))
        /\ issued' = issued \cup
              {IssueJWT(h.grant.id, n, h.grant.client_id, now + JwtTTL,
                        h.client, h.grant.our_refresh_token)}
        /\ Goto(r, Idle)
        /\ UNCHANGED <<now, upstream, operator>>

\* The conditional UPDATE matched no row: "refresh token already used".
RotateGrantNotFound(r) ==
    /\ req[r].pc = "store"
    /\ RotateTarget(req[r].grant) = {}
    /\ Goto(r, Idle)
    /\ UNCHANGED <<now, serial, upstream, tables>>

\* After GitHub has rotated, the identity fetch, UpsertUser or the RotateGrant
\* transaction fails: server_error.
StoreFails(r) ==
    /\ req[r].pc = "store"
    /\ Goto(r, Idle)
    /\ UNCHANGED <<now, serial, upstream, tables>>

-----------------------------------------------------------------------------
(* The retry of a token that is no longer in the grants table *)

\* A grace retry may go on to the replacement grant.
GraceEligible(t, c) ==
    /\ t.client_id = NoClient \/ t.client_id = c
    /\ t.reason = "rotated"
    /\ t.grace_expires_at # 0 /\ now <= t.grace_expires_at
    /\ t.replacement_jti # 0

\* handleRetiredRefreshGrant up to GetRetiredRefreshToken and the checks on it.
RetiredLookup(r) ==
    /\ req[r].pc = "retired"
    /\ \E t \in GetRetiredRefreshToken(req[r].token) :
          /\ GraceEligible(t, req[r].client)
          /\ Goto(r, [pc |-> "replacement", token |-> req[r].token,
                      client |-> req[r].client, jti |-> t.replacement_jti])
    /\ UNCHANGED <<now, serial, upstream, tables>>

\* The token was never seen, is another client's, was removed for another
\* reason than rotation, or its grace is over: invalid_grant.
RetiredRefused(r) ==
    /\ req[r].pc = "retired"
    /\ \A t \in GetRetiredRefreshToken(req[r].token) :
          ~GraceEligible(t, req[r].client)
    /\ Goto(r, Idle)
    /\ UNCHANGED <<now, serial, upstream, tables>>

ReissueExpiry_Extended(g) == now + JwtTTL

\* The expiry of the JWT a grace retry signs: the replacement's own.
ReissueExpiry(g) == g.jwt_expiry

\* GetGrant(replacement_jti) finds the replacement and its JWT is signed again.
GraceRetry(r) ==
    /\ req[r].pc = "replacement"
    /\ \E g \in GetGrant(req[r].jti) :
          /\ g.client_id = req[r].client
          /\ now <= g.jwt_expiry
          /\ issued' = issued \cup
                {IssueJWT(g.id, g.jti, g.client_id, ReissueExpiry(g),
                          req[r].client, req[r].token)}
    /\ Goto(r, Idle)
    /\ UNCHANGED <<now, serial, grants, retired, revoked, upstream, operator>>

\* The replacement is gone, is another client's, or its JWT has expired.
GraceRefused(r) ==
    /\ req[r].pc = "replacement"
    /\ \A g \in GetGrant(req[r].jti) :
          /\ g.client_id # NoClient
          /\ g.client_id # req[r].client \/ now > g.jwt_expiry
    /\ Goto(r, Idle)
    /\ UNCHANGED <<now, serial, upstream, tables>>

\* The replacement has no client binding: it is torn down under its own token.
GraceUnbound(r) ==
    /\ req[r].pc = "replacement"
    /\ \E g \in GetGrant(req[r].jti) :
          /\ g.client_id = NoClient
          /\ Goto(r, [pc |-> "revoke", grant |-> g,
                      reason |-> "client_binding_missing"])
    /\ UNCHANGED <<now, serial, upstream, tables>>

-----------------------------------------------------------------------------
(* tearDownGrant: two database calls *)

TearDownRevoke(r) ==
    /\ req[r].pc = "revoke"
    /\ revoked' = RevokeToken(req[r].grant.jti, req[r].grant.jwt_expiry)
    /\ Goto(r, [pc |-> "delete", grant |-> req[r].grant, reason |-> req[r].reason])
    /\ UNCHANGED <<now, serial, grants, retired, issued, upstream, operator>>

\* RevokeToken fails: the error is logged and the deletion still tried.
TearDownRevokeFails(r) ==
    /\ req[r].pc = "revoke"
    /\ Goto(r, [pc |-> "delete", grant |-> req[r].grant, reason |-> req[r].reason])
    /\ UNCHANGED <<now, serial, upstream, tables>>

DeleteTarget_Lineage(g) == {x \in grants : x.id = g.id}

\* The rows DELETE FROM grants WHERE jti = ... removes.
DeleteTarget(g) == GetGrant(g.jti)

\* Store.DeleteGrant: delete by jti and retire the token, in one transaction;
\* no row with that jti is not an error for tearDownGrant.
DeleteGrant(r) ==
    LET g == req[r].grant
    IN  /\ req[r].pc = "delete"
        /\ grants' = grants \ DeleteTarget(g)
        /\ retired' = IF DeleteTarget(g) = {} THEN retired
                      ELSE InsertRetired(NewRetired(g.our_refresh_token,
                                req[r].reason, g.client_id, 0, 0))
        /\ Goto(r, Idle)
        /\ UNCHANGED <<now, serial, revoked, issued, upstream, operator>>

\* The handler stops early, with server_error or with its process: the GitHub
\* call or a database call failed and left the tables alone.
Fail(r) ==
    /\ req[r].pc \notin {"idle", "store"}
    /\ Goto(r, Idle)
    /\ UNCHANGED <<now, serial, upstream, tables>>

-----------------------------------------------------------------------------
(* The other actors *)

\* LogoutHandler: an unexpired JWT revokes its own jti.  The grant stays.
Logout(i) ==
    /\ i \in issued
    /\ i.exp > now
    /\ revoked' = RevokeToken(i.jti, i.exp)
    /\ UNCHANGED <<now, serial, grants, retired, issued, upstream, operator, req>>

\* Store.RevokeOAuthGrantByID: one transaction over the row, locked by its id.
RevokeOAuthGrantByID(g) ==
    /\ g \in grants
    /\ revoked' = IF g.jwt_expiry > now
                  THEN InsertRevoked(g.jti, g.jwt_expiry) ELSE revoked
    /\ grants' = grants \ {g}
    /\ retired' = InsertRetired(NewRetired(g.our_refresh_token,
                        "operator_revoked", g.client_id, 0, 0))
    /\ operator' = operator \cup {g.id}
    /\ UNCHANGED <<now, serial, issued, upstream, req>>

\* External: the user withdraws the authorization at GitHub.
GitHubRevokes(t) ==
    /\ t \in upstream
    /\ upstream' = upstream \ {t}
    /\ UNCHANGED <<now, serial, tables, req>>

Tick ==
    /\ now < MaxTime
    /\ now' = now + 1
    /\ UNCHANGED <<serial, upstream, tables, req>>

-----------------------------------------------------------------------------
(* The specification *)

EmptyInit ==
    /\ now = 0
    /\ serial = 0
    /\ grants = {}
    /\ retired = {}
    /\ revoked = {}
    /\ issued = {}
    /\ upstream = {}
    /\ operator = {}
    /\ req = [r \in Req |-> Idle]

\* A database upgraded from a release that did not bind grants to clients: one
\* unbound grant, rotated just before the upgrade and still within its grace.
LegacyInit ==
    /\ now = 0
    /\ serial = 2
    /\ \E u \in User :
          grants = {[id |-> 1, jti |-> 2, our_refresh_token |-> 2,
                     client_id |-> NoClient, user_id |-> u,
                     github |-> [id |-> 1, gen |-> 2, exp |-> GitHubTTL],
                     jwt_expiry |-> JwtTTL]}
    /\ retired = {[token |-> 1, reason |-> "rotated", client_id |-> NoClient,
                   replacement_jti |-> 2, grace_expires_at |-> GracePeriod,
                   retained_until |-> Retention]}
    /\ revoked = {[jti |-> 1, expires_at |-> JwtTTL]}
    /\ issued = {[id |-> 1, jti |-> j, client_id |-> NoClient, exp |-> JwtTTL,
                  to |-> NoClient, from |-> j - 1] : j \in {1, 2}}
    /\ upstream = {[id |-> 1, gen |-> 2, exp |-> GitHubTTL]}
    /\ operator = {}
    /\ req = [r \in Req |-> Idle]

Init == EmptyInit \/ LegacyInit

\* The steps of one request.  A client may present any token ever minted for
\* it: a lost response, a retry and a token kept too long look alike here.
Serve(r) ==
    \/ \E token \in 1 .. serial, c \in Client :
          RefreshFound(r, token, c) \/ RefreshNotFound(r, token, c)
    \/ GitHubExpired(r)
    \/ GitHubRejects(r)
    \/ GitHubRotates(r)
    \/ GitHubMissingRefresh(r)
    \/ RotateGrant(r)
    \/ RotateGrantNotFound(r)
    \/ StoreFails(r)
    \/ RetiredLookup(r)
    \/ RetiredRefused(r)
    \/ GraceRetry(r)
    \/ GraceRefused(r)
    \/ GraceUnbound(r)
    \/ TearDownRevoke(r)
    \/ TearDownRevokeFails(r)
    \/ DeleteGrant(r)
    \/ Fail(r)

Next ==
    \/ \E r \in Req : Serve(r)
    \/ \E u \in User, c \in Client : AuthCodeGrant(u, c)
    \/ \E c \in Client : AuthCodeWithoutGrant(c)
    \/ \E i \in issued : Logout(i)
    \/ \E g \in grants : RevokeOAuthGrantByID(g)
    \/ \E t \in upstream : GitHubRevokes(t)
    \/ Tick

Spec == Init /\ [][Next]_vars

-----------------------------------------------------------------------------
(* Properties *)

\* A grant lineage has at most one JWT that VerifyJWT accepts, and while the
\* grant exists it is the one of the current row: RotateGrant revokes the old
\* jti in the transaction that installs the new one, a stale request's
\* tear-down and every prune of revoked_tokens included.
OneAcceptedJwt ==
    \A i, j \in issued :
        /\ i.id = j.id /\ Accepted(i) /\ Accepted(j) => i.jti = j.jti
        /\ \A g \in grants : g.id = i.id /\ Accepted(i) => i.jti = g.jti

\* Once an operator has revoked a grant, no JWT of its lineage is accepted and
\* the grant does not come back, whatever the requests in flight had read
\* before the revocation.
OperatorRevocationFinal ==
    \A k \in operator :
        /\ \A g \in grants : g.id # k
        /\ \A i \in issued : i.id = k => ~Accepted(i)

\* A jti names one JWT: the grace retry signs the claims of the rotation it
\* repeats, with the same expiry, in answer to the same token of the same
\* client, and no JWT is sent to a client it does not name.
JwtBoundToRequest ==
    /\ \A i \in issued : i.to = i.client_id
    /\ \A i, j \in issued : i.jti = j.jti => i = j

\* A refresh token buys at most one JWT, however many requests present it and
\* at whatever point of the first one's GitHub call and rotation.
SingleUse ==
    \A i, j \in issued : i.from = j.from /\ i.from # 0 => i.jti = j.jti

\* A refresh token that a rotation, a tear-down or an operator has retired is
\* not the token of any grant.
RetiredTokenDead ==
    \A t \in retired, g \in grants : g.our_refresh_token # t.token

\* Tearing a grant down never takes away a grant that still works: the row a
\* request deletes is the row it read, and its GitHub token is dead, expired
\* or unusable for want of a client binding.
TearDownOnlyBroken ==
    [][\A r \in Req :
          req[r].pc = "delete" /\ DeleteGrant(r) =>
             \A g \in grants \ grants' :
                /\ g = req[r].grant
                /\ \/ g.github \notin upstream
                   \/ now > g.github.exp
                   \/ g.client_id = NoClient]_vars

\* Within the grace period of a rotation whose replacement is still current,
\* the client that lost the response can obtain the replacement: the retired
\* record is there and eligible, and the replacement row is bound to the same
\* client (retention is at least the grace period, and no prune, tear-down or
\* later write to retired_refresh_tokens removes the record early).
GraceRetryAvailable ==
    \A g \in grants :
        \A i \in issued :
            (/\ i.id = g.id /\ i.jti < g.jti
             /\ \A k \in issued : k.id = g.id /\ k.jti < g.jti => k.jti <= i.jti
             /\ g.client_id # NoClient
             /\ now < g.jwt_expiry - JwtTTL + GracePeriod)
            => \E t \in GetRetiredRefreshToken(i.jti) :
                  GraceEligible(t, g.client_id) /\ t.replacement_jti = g.jti
=============================================================================

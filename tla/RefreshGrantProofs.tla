------------------------ MODULE RefreshGrantProofs --------------------------
(***************************************************************************)
(* Safety of the refresh-token grant for any number of requests, clients,  *)
(* users, grants, rotations and instants, and for any durations the server *)
(* accepts.                                                                *)
(***************************************************************************)
EXTENDS RefreshGrant, Integers, TLAPS

-----------------------------------------------------------------------------
(* The inductive invariant *)

\* Every JWT has a serial already minted, belongs to a lineage that began no
\* later, and answers an older token.
IssuedBelowSerial ==
    \A i \in issued :
        i.jti \in 1 .. serial /\ i.id \in 1 .. i.jti /\ i.from \in 0 .. serial

\* The JWT that was signed for a grant row.
SignedFor(g, i) ==
    /\ i.id = g.id /\ i.jti = g.jti
    /\ i.exp = g.jwt_expiry /\ i.client_id = g.client_id

\* What a row of the grants table, or a handler's copy of one, says of itself.
RowSound(g) ==
    /\ g.our_refresh_token = g.jti
    /\ \E i \in issued : SignedFor(g, i)

\* The rows of grants: one per lineage, and that lineage's newest pair, whose
\* refresh token nobody has used yet.
GrantsSound ==
    /\ \A g \in grants : RowSound(g)
    /\ \A g, h \in grants : g.id = h.id => g = h
    /\ \A g \in grants, i \in issued : i.id = g.id => i.jti <= g.jti
    /\ \A g \in grants, i \in issued : i.from # g.our_refresh_token

HasRevocation(i) == \E v \in revoked : v.jti = i.jti

\* A revocation lasts exactly as long as the JWT it revokes, and every JWT a
\* rotation or an operator has overtaken has one until it expires.
RevocationsSound ==
    /\ \A v \in revoked : v.jti <= serial
    /\ \A v \in revoked, i \in issued : v.jti = i.jti => v.expires_at = i.exp
    /\ \A i, j \in issued :
          i.id = j.id /\ i.jti < j.jti /\ i.exp > now => HasRevocation(i)
    /\ \A k \in operator :
          /\ k <= serial
          /\ \A g \in grants : g.id # k
          /\ \A i \in issued : i.id = k /\ i.exp > now => HasRevocation(i)

\* A retired token is no grant's token, and a rotated one points at the JWT
\* its rotation bought.
RetiredSound ==
    /\ \A t \in retired : t.token <= serial /\ t.replacement_jti <= serial
    /\ RetiredTokenDead
    /\ \A t \in retired, i \in issued :
          t.reason = "rotated" /\ i.jti = t.replacement_jti => i.from = t.token

\* What a handler remembers.  Its copy of a row is either the row that still
\* has that jti, or a row that is gone for good.
HandlerSound(h) ==
    /\ h.pc \in {"github", "store", "revoke", "delete"} =>
          RowSound(h.grant) /\ \A g \in grants : g.jti = h.grant.jti => g = h.grant
    /\ h.pc \in {"github", "store"} => h.client = h.grant.client_id
    /\ h.pc \in {"revoke", "delete"} => h.reason # "rotated"
    /\ h.pc = "replacement" =>
          h.jti <= serial /\ \A i \in issued : i.jti = h.jti => i.from = h.token

Requests == \A r \in Req : HandlerSound(req[r])

TablesSound ==
    /\ IssuedBelowSerial
    /\ JwtBoundToRequest
    /\ SingleUse
    /\ GrantsSound
    /\ RevocationsSound
    /\ RetiredSound

IInv == TypeOK /\ TablesSound /\ Requests

-----------------------------------------------------------------------------
(* Type correctness *)

\* The record a request at a given point of the handler consists of.
LEMMA HandlerFields ==
    ASSUME TypeOK, NEW r \in Req
    PROVE  /\ req[r].pc \in {"github", "store"} =>
                  req[r].grant \in Grant /\ req[r].client \in Client
           /\ req[r].pc = "store" => req[r].github \in GitHubToken
           /\ req[r].pc \in {"revoke", "delete"} =>
                  req[r].grant \in Grant /\ req[r].reason \in Reason
           /\ req[r].pc = "retired" =>
                  req[r].token \in Nat /\ req[r].client \in Client
           /\ req[r].pc = "replacement" =>
                  /\ req[r].token \in Nat /\ req[r].client \in Client
                  /\ req[r].jti \in Nat
  BY DEF TypeOK, Handler

\* Moving one request keeps the requests well typed.
LEMMA GotoTyped ==
    ASSUME TypeOK, NEW r \in Req, NEW h \in Handler, Goto(r, h)
    PROVE  req' \in [Req -> Handler]
  BY DEF TypeOK, Goto

\* The handler states that requests move to are well typed.
LEMMA HandlerStates ==
    /\ Idle \in Handler
    /\ \A g \in Grant, c \in Client :
          [pc |-> "github", grant |-> g, client |-> c] \in Handler
    /\ \A g \in Grant, c \in Client, t \in GitHubToken :
          [pc |-> "store", grant |-> g, client |-> c, github |-> t] \in Handler
    /\ \A g \in Grant, x \in Reason :
          /\ [pc |-> "revoke", grant |-> g, reason |-> x] \in Handler
          /\ [pc |-> "delete", grant |-> g, reason |-> x] \in Handler
    /\ \A n \in Nat, c \in Client :
          [pc |-> "retired", token |-> n, client |-> c] \in Handler
    /\ \A n \in Nat, c \in Client, j \in Nat :
          [pc |-> "replacement", token |-> n, client |-> c, jti |-> j] \in Handler
  BY DEF Handler, Idle

\* The writes to the tables are well typed.
LEMMA TableWrites ==
    ASSUME TypeOK
    PROVE  /\ \A j, e \in Nat :
                  /\ InsertRevoked(j, e) \subseteq RevokedToken
                  /\ RevokeToken(j, e) \subseteq RevokedToken
           /\ \A n \in Nat, x \in Reason, c \in Client \cup {NoClient}, j, e \in Nat :
                  InsertRetired(NewRetired(n, x, c, j, e)) \subseteq RetiredRefreshToken
           /\ GraceExpiresAt \in Nat
           /\ now + JwtTTL \in Nat /\ now + GitHubTTL \in Nat
  <1>1. \A j, e \in Nat : InsertRevoked(j, e) \subseteq RevokedToken
    BY DEF TypeOK, InsertRevoked, RevokedToken
  <1>2. \A j, e \in Nat : RevokeToken(j, e) \subseteq RevokedToken
    BY <1>1 DEF RevokeToken
  <1>3. ASSUME NEW n \in Nat, NEW x \in Reason, NEW c \in Client \cup {NoClient},
               NEW j \in Nat, NEW e \in Nat
        PROVE  InsertRetired(NewRetired(n, x, c, j, e)) \subseteq RetiredRefreshToken
    <2>1. NewRetired(n, x, c, j, e) \in RetiredRefreshToken
      BY DurationsAssumption DEF TypeOK, NewRetired, RetiredRefreshToken
    <2>2. QED
      BY <2>1 DEF TypeOK, InsertRetired
  <1>4. GraceExpiresAt \in Nat /\ now + JwtTTL \in Nat /\ now + GitHubTTL \in Nat
    BY DurationsAssumption DEF TypeOK, GraceExpiresAt
  <1>5. QED
    BY <1>1, <1>2, <1>3, <1>4

\* The types hold in the initial states, the upgraded database included.
LEMMA TypeInit == Init => TypeOK
  <1>1. EmptyInit => TypeOK
    BY DEF EmptyInit, TypeOK, Handler, Idle
  <1>2. ASSUME LegacyInit PROVE TypeOK
    <2>1. PICK u \in User :
             grants = {[id |-> 1, jti |-> 2, our_refresh_token |-> 2,
                        client_id |-> NoClient, user_id |-> u,
                        github |-> [id |-> 1, gen |-> 2, exp |-> GitHubTTL],
                        jwt_expiry |-> JwtTTL]}
      BY <1>2 DEF LegacyInit
    <2>2. grants \subseteq Grant
      BY <2>1, DurationsAssumption DEF Grant, GitHubToken
    <2>3. retired \subseteq RetiredRefreshToken /\ revoked \subseteq RevokedToken
      BY <1>2, DurationsAssumption
      DEF LegacyInit, RetiredRefreshToken, RevokedToken, Reason
    <2>4. issued \subseteq Jwt /\ upstream \subseteq GitHubToken
      BY <1>2, DurationsAssumption DEF LegacyInit, Jwt, GitHubToken
    <2>5. QED
      BY <1>2, <2>2, <2>3, <2>4 DEF LegacyInit, TypeOK, Handler, Idle
  <1>3. QED
    BY <1>1, <1>2 DEF Init

\* A step of one request keeps the types.
LEMMA TypeServe == ASSUME TypeOK, NEW r \in Req, Serve(r) PROVE TypeOK'
  <1> USE HandlerFields, HandlerStates, TableWrites
  <1>1. ASSUME NEW token \in 1 .. serial, NEW c \in Client,
               RefreshFound(r, token, c)
        PROVE  TypeOK'
    <2>1. PICK g \in grants :
             \/ Goto(r, [pc |-> "revoke", grant |-> g, reason |-> "client_binding_missing"])
             \/ Goto(r, [pc |-> "github", grant |-> g, client |-> c])
      BY <1>1 DEF RefreshFound, GetGrantByRefreshToken
    <2>2. req' \in [Req -> Handler]
      BY <2>1, GotoTyped DEF TypeOK, Reason
    <2>3. QED
      BY <1>1, <2>2 DEF RefreshFound, TypeOK, tables
  <1>2. ASSUME NEW token \in 1 .. serial, NEW c \in Client,
               RefreshNotFound(r, token, c)
        PROVE  TypeOK'
    <2>1. req' \in [Req -> Handler]
      BY <1>2, GotoTyped DEF TypeOK, RefreshNotFound
    <2>2. QED
      BY <1>2, <2>1 DEF RefreshNotFound, TypeOK, tables
  <1>3. CASE GitHubExpired(r) \/ GitHubRejects(r)
    <2>1. req' \in [Req -> Handler]
      BY <1>3, GotoTyped DEF GitHubExpired, GitHubRejects, Reason
    <2>2. QED
      BY <1>3, <2>1 DEF GitHubExpired, GitHubRejects, TypeOK, tables
  <1>4. CASE GitHubRotates(r)
    <2> DEFINE old == req[r].grant.github
               new == [id |-> old.id, gen |-> old.gen + 1, exp |-> now + GitHubTTL]
    <2>1. old \in GitHubToken /\ req[r].client \in Client /\ req[r].grant \in Grant
      BY <1>4 DEF GitHubRotates, Grant
    <2>2. new \in GitHubToken
      BY <2>1 DEF GitHubToken
    <2>3. req' \in [Req -> Handler]
      BY <1>4, <2>1, <2>2, GotoTyped DEF GitHubRotates
    <2>4. QED
      BY <1>4, <2>2, <2>3 DEF GitHubRotates, TypeOK, tables
  <1>5. CASE GitHubMissingRefresh(r)
    <2>1. req' \in [Req -> Handler]
      BY <1>5, GotoTyped DEF GitHubMissingRefresh, Reason
    <2>2. QED
      BY <1>5, <2>1 DEF GitHubMissingRefresh, TypeOK, tables
  <1>6. CASE RotateGrant(r)
    <2> DEFINE h == req[r]
               n == serial + 1
    <2>1. /\ h.grant \in Grant /\ h.client \in Client /\ h.github \in GitHubToken
          /\ n \in Nat
      BY <1>6 DEF RotateGrant, TypeOK
    <2>2. PICK g \in grants : grants' = (grants \ {g}) \cup {RotatedRow(g, h.grant.client_id, n, h.github)}
      BY <1>6 DEF RotateGrant, RotateTarget, GetGrantByRefreshToken
    <2>3. RotatedRow(g, h.grant.client_id, n, h.github) \in Grant
      BY <2>1, <2>2 DEF RotatedRow, Grant, TypeOK
    <2>4. grants' \subseteq Grant
      BY <2>2, <2>3 DEF TypeOK
    <2>5. issued' \subseteq Jwt
      BY <1>6, <2>1 DEF RotateGrant, IssueJWT, Jwt, Grant, TypeOK
    <2>6. revoked' \subseteq RevokedToken
      BY <1>6, <2>1 DEF RotateGrant, Grant
    <2>7. retired' \subseteq RetiredRefreshToken
      BY <1>6, <2>1 DEF RotateGrant, Grant, Reason
    <2>8. req' \in [Req -> Handler]
      BY <1>6, GotoTyped DEF RotateGrant
    <2>9. QED
      BY <1>6, <2>1, <2>4, <2>5, <2>6, <2>7, <2>8 DEF RotateGrant, TypeOK
  <1>7. CASE RotateGrantNotFound(r) \/ StoreFails(r) \/ RetiredRefused(r)
             \/ GraceRefused(r) \/ Fail(r)
    <2>1. req' \in [Req -> Handler]
      BY <1>7, GotoTyped
      DEF RotateGrantNotFound, StoreFails, RetiredRefused, GraceRefused, Fail
    <2>2. QED
      BY <1>7, <2>1
      DEF RotateGrantNotFound, StoreFails, RetiredRefused, GraceRefused, Fail,
          TypeOK, tables
  <1>8. CASE RetiredLookup(r)
    <2>1. PICK t \in retired :
             Goto(r, [pc |-> "replacement", token |-> req[r].token,
                      client |-> req[r].client, jti |-> t.replacement_jti])
      BY <1>8 DEF RetiredLookup, GetRetiredRefreshToken
    <2>2. req' \in [Req -> Handler]
      BY <1>8, <2>1, GotoTyped DEF RetiredLookup, TypeOK, RetiredRefreshToken
    <2>3. QED
      BY <1>8, <2>2 DEF RetiredLookup, TypeOK, tables
  <1>9. CASE GraceRetry(r)
    <2>1. PICK g \in grants :
             issued' = issued \cup
                {IssueJWT(g.id, g.jti, g.client_id, g.jwt_expiry,
                          req[r].client, req[r].token)}
      BY <1>9 DEF GraceRetry, GetGrant, ReissueExpiry
    <2>2. issued' \subseteq Jwt
      BY <1>9, <2>1 DEF GraceRetry, IssueJWT, Jwt, Grant, TypeOK
    <2>3. req' \in [Req -> Handler]
      BY <1>9, GotoTyped DEF GraceRetry
    <2>4. QED
      BY <1>9, <2>2, <2>3 DEF GraceRetry, TypeOK
  <1>10. CASE GraceUnbound(r)
    <2>1. PICK g \in grants :
             Goto(r, [pc |-> "revoke", grant |-> g, reason |-> "client_binding_missing"])
      BY <1>10 DEF GraceUnbound, GetGrant
    <2>2. req' \in [Req -> Handler]
      BY <2>1, GotoTyped DEF TypeOK, Reason
    <2>3. QED
      BY <1>10, <2>2 DEF GraceUnbound, TypeOK, tables
  <1>11. CASE TearDownRevoke(r) \/ TearDownRevokeFails(r)
    <2>1. req' \in [Req -> Handler]
      BY <1>11, GotoTyped DEF TearDownRevoke, TearDownRevokeFails
    <2>2. revoked' \subseteq RevokedToken
      BY <1>11 DEF TearDownRevoke, TearDownRevokeFails, TypeOK, tables, Grant
    <2>3. QED
      BY <1>11, <2>1, <2>2 DEF TearDownRevoke, TearDownRevokeFails, TypeOK, tables
  <1>12. CASE DeleteGrant(r)
    <2>1. req' \in [Req -> Handler]
      BY <1>12, GotoTyped DEF DeleteGrant
    <2>2. retired' \subseteq RetiredRefreshToken
      BY <1>12 DEF DeleteGrant, TypeOK, Grant
    <2>3. QED
      BY <1>12, <2>1, <2>2 DEF DeleteGrant, TypeOK
  <1>13. QED
    BY <1>1, <1>2, <1>3, <1>4, <1>5, <1>6, <1>7, <1>8, <1>9, <1>10, <1>11, <1>12
    DEF Serve

\* A step of any actor keeps the types.
LEMMA TypeNext == TypeOK /\ [Next]_vars => TypeOK'
  <1> SUFFICES ASSUME TypeOK, [Next]_vars PROVE TypeOK'
    OBVIOUS
  <1> USE TableWrites
  <1>1. ASSUME NEW r \in Req, Serve(r) PROVE TypeOK'
    BY <1>1, TypeServe
  <1>2. ASSUME NEW u \in User, NEW c \in Client, AuthCodeGrant(u, c) PROVE TypeOK'
    <2> DEFINE n == serial + 1
               gh == [id |-> n, gen |-> 1, exp |-> now + GitHubTTL]
    <2>1. n \in Nat /\ gh \in GitHubToken
      BY DEF TypeOK, GitHubToken
    <2>2. grants' \subseteq Grant
      BY <1>2, <2>1 DEF AuthCodeGrant, TypeOK, Grant
    <2>3. issued' \subseteq Jwt
      BY <1>2, <2>1 DEF AuthCodeGrant, IssueJWT, TypeOK, Jwt
    <2>4. QED
      BY <1>2, <2>1, <2>2, <2>3 DEF AuthCodeGrant, TypeOK
  <1>3. ASSUME NEW c \in Client, AuthCodeWithoutGrant(c) PROVE TypeOK'
    <2>1. issued' \subseteq Jwt
      BY <1>3 DEF AuthCodeWithoutGrant, IssueJWT, TypeOK, Jwt
    <2>2. QED
      BY <1>3, <2>1 DEF AuthCodeWithoutGrant, TypeOK
  <1>4. ASSUME NEW i \in issued, Logout(i) PROVE TypeOK'
    <2>1. revoked' \subseteq RevokedToken
      BY <1>4 DEF Logout, TypeOK, Jwt
    <2>2. QED
      BY <1>4, <2>1 DEF Logout, TypeOK
  <1>5. ASSUME NEW g \in grants, RevokeOAuthGrantByID(g) PROVE TypeOK'
    <2>1. g \in Grant
      BY DEF TypeOK
    <2>2. revoked' \subseteq RevokedToken /\ retired' \subseteq RetiredRefreshToken
      BY <1>5, <2>1 DEF RevokeOAuthGrantByID, TypeOK, Grant, Reason
    <2>3. QED
      BY <1>5, <2>1, <2>2 DEF RevokeOAuthGrantByID, TypeOK, Grant
  <1>6. ASSUME NEW t \in upstream, GitHubRevokes(t) PROVE TypeOK'
    BY <1>6 DEF GitHubRevokes, TypeOK, tables
  <1>7. CASE Tick
    BY <1>7 DEF Tick, TypeOK, tables
  <1>8. CASE UNCHANGED vars
    BY <1>8 DEF vars, TypeOK
  <1>9. QED
    BY <1>1, <1>2, <1>3, <1>4, <1>5, <1>6, <1>7, <1>8 DEF Next

\* Every reachable state of the grant tables and the handlers is well typed.
THEOREM TypeCorrect == Spec => []TypeOK
  <1>1. QED
    BY TypeInit, TypeNext, PTL DEF Spec

-----------------------------------------------------------------------------
(* How the tables may grow *)

\* What every step does: JWTs are never forgotten, and a row or a JWT that was
\* not there before has the next serial.
Grows ==
    /\ serial' \in Nat /\ serial <= serial'
    /\ issued \subseteq issued'
    /\ \A i \in issued' : i \in issued \/ i.jti = serial + 1
    /\ \A g \in grants' : g \in grants \/ g.jti = serial + 1

\* A handler's memory stays sound while other requests work.
LEMMA HandlerStable ==
    ASSUME IInv, Grows, NEW r \in Req
    PROVE  HandlerSound(req[r])'  \/ req[r]' # req[r]
  <1> SUFFICES ASSUME req[r]' = req[r] PROVE HandlerSound(req[r])'
    OBVIOUS
  <1> DEFINE h == req[r]
  <1>0. HandlerSound(h)
    BY DEF IInv, Requests
  <1>1. h.pc \in {"github", "store", "revoke", "delete"} =>
           /\ RowSound(h.grant)'
           /\ \A g \in grants' : g.jti = h.grant.jti => g = h.grant
    <2> SUFFICES ASSUME h.pc \in {"github", "store", "revoke", "delete"}
                 PROVE  /\ RowSound(h.grant)'
                        /\ \A g \in grants' : g.jti = h.grant.jti => g = h.grant
      OBVIOUS
    <2>1. RowSound(h.grant)
      BY <1>0 DEF HandlerSound
    <2>2. PICK i \in issued : SignedFor(h.grant, i)
      BY <2>1 DEF RowSound
    <2>3. h.grant.jti \in 1 .. serial
      BY <2>2 DEF SignedFor, IInv, TablesSound, IssuedBelowSerial
    <2>4. RowSound(h.grant)'
      BY <2>1, <2>2 DEF RowSound, Grows, SignedFor
    <2>5. serial \in Nat
      BY DEF IInv, TypeOK
    <2>6. QED
      BY <1>0, <2>3, <2>4, <2>5 DEF HandlerSound, Grows
  <1>2. h.pc = "replacement" =>
           h.jti <= serial' /\ \A i \in issued' : i.jti = h.jti => i.from = h.token
    <2> SUFFICES ASSUME h.pc = "replacement"
                 PROVE  h.jti <= serial' /\ \A i \in issued' : i.jti = h.jti => i.from = h.token
      OBVIOUS
    <2>1. h.jti <= serial /\ \A i \in issued : i.jti = h.jti => i.from = h.token
      BY <1>0 DEF HandlerSound
    <2>2. h.jti \in Nat /\ serial \in Nat
      BY HandlerFields DEF IInv, TypeOK
    <2>3. QED
      BY <2>1, <2>2 DEF Grows
  <1>3. QED
    BY <1>0, <1>1, <1>2 DEF HandlerSound

\* One request moves, and its new memory is sound.
LEMMA RequestsStep ==
    ASSUME IInv, Grows, NEW r \in Req,
           \A q \in Req \ {r} : req'[q] = req[q],
           HandlerSound(req[r])'
    PROVE  Requests'
  <1> SUFFICES ASSUME NEW q \in Req PROVE HandlerSound(req[q])'
    BY DEF Requests
  <1>1. CASE q = r
    BY <1>1
  <1>2. CASE q # r
    BY <1>2, HandlerStable
  <1>3. QED
    BY <1>1, <1>2

\* No request moves.
LEMMA RequestsStay == ASSUME IInv, Grows, req' = req PROVE Requests'
  BY HandlerStable DEF Requests

\* The initial tables are sound, the upgraded database included.
LEMMA SoundInit == Init => IInv
  <1>1. ASSUME EmptyInit PROVE TablesSound /\ Requests
    BY <1>1 DEF EmptyInit, TablesSound, Requests, IssuedBelowSerial,
       JwtBoundToRequest, SingleUse, GrantsSound, RevocationsSound,
       RetiredSound, RetiredTokenDead, HandlerSound, Idle
  <1>2. ASSUME LegacyInit PROVE TablesSound /\ Requests
    <2> DEFINE a == [id |-> 1, jti |-> 1, client_id |-> NoClient, exp |-> JwtTTL,
                     to |-> NoClient, from |-> 0]
               b == [id |-> 1, jti |-> 2, client_id |-> NoClient, exp |-> JwtTTL,
                     to |-> NoClient, from |-> 1]
    <2>0. 1 - 1 = 0 /\ 2 - 1 = 1
      OBVIOUS
    <2>1. issued = {a, b}
      <3> DEFINE J(j) == [id |-> 1, jti |-> j, client_id |-> NoClient,
                          exp |-> JwtTTL, to |-> NoClient, from |-> j - 1]
      <3>1. issued = {J(j) : j \in {1, 2}}
        BY <1>2 DEF LegacyInit
      <3>2. J(1) = a /\ J(2) = b
        BY <2>0
      <3> HIDE DEF J, a, b
      <3>3. QED
        BY <3>1, <3>2
    <2> DEFINE Row(u) == [id |-> 1, jti |-> 2, our_refresh_token |-> 2,
                          client_id |-> NoClient, user_id |-> u,
                          github |-> [id |-> 1, gen |-> 2, exp |-> GitHubTTL],
                          jwt_expiry |-> JwtTTL]
    <2>u. PICK u \in User : grants = {Row(u)}
      BY <1>2 DEF LegacyInit
    <2> DEFINE g == Row(u)
    <2>2. /\ grants = {g}
          /\ g.id = 1 /\ g.jti = 2 /\ g.our_refresh_token = 2
          /\ g.client_id = NoClient /\ g.jwt_expiry = JwtTTL
      BY <2>u
    <2> HIDE DEF g
    <2>3. IssuedBelowSerial
      BY <1>2, <2>1 DEF LegacyInit, IssuedBelowSerial
    <2>4. JwtBoundToRequest /\ SingleUse
      BY <2>1 DEF JwtBoundToRequest, SingleUse
    <2>5. GrantsSound
      <3>1. SignedFor(g, b)
        BY <2>2 DEF SignedFor
      <3>2. QED
        BY <2>1, <2>2, <3>1 DEF GrantsSound, RowSound
    <2>6. RevocationsSound
      BY <1>2, <2>1 DEF LegacyInit, RevocationsSound, HasRevocation
    <2>7. RetiredSound
      BY <1>2, <2>1, <2>2 DEF LegacyInit, RetiredSound, RetiredTokenDead
    <2>8. Requests
      BY <1>2 DEF LegacyInit, Requests, HandlerSound, Idle
    <2>9. QED
      BY <2>3, <2>4, <2>5, <2>6, <2>7, <2>8 DEF TablesSound
  <1>3. QED
    BY <1>1, <1>2, TypeInit DEF Init, IInv

-----------------------------------------------------------------------------
(* The steps *)

\* A step that leaves the tables, the clock and the serial alone.
LEMMA TablesUnchanged ==
    ASSUME IInv, UNCHANGED <<now, serial, tables>>
    PROVE  TablesSound' /\ Grows
  <1>1. Grows
    BY DEF Grows, tables, IInv, TypeOK
  <1>2. TablesSound'
    BY DEF IInv, TablesSound, tables, IssuedBelowSerial, JwtBoundToRequest,
       SingleUse, GrantsSound, RowSound, SignedFor, RevocationsSound,
       HasRevocation, RetiredSound, RetiredTokenDead
  <1>3. QED
    BY <1>1, <1>2

\* What the insert into revoked_tokens leaves in the table.
LEMMA InsertRevokedRows ==
    ASSUME NEW j, NEW e
    PROVE  /\ revoked \subseteq InsertRevoked(j, e)
           /\ \A v \in InsertRevoked(j, e) :
                 v \in revoked \/ (v.jti = j /\ v.expires_at = e)
           /\ \E v \in InsertRevoked(j, e) : v.jti = j
  <1>1. CASE \E v \in revoked : v.jti = j
    BY <1>1 DEF InsertRevoked
  <1>2. CASE ~ \E v \in revoked : v.jti = j
    <2>1. InsertRevoked(j, e) = revoked \cup {[jti |-> j, expires_at |-> e]}
      BY <1>2 DEF InsertRevoked
    <2>2. [jti |-> j, expires_at |-> e].jti = j /\ [jti |-> j, expires_at |-> e].expires_at = e
      OBVIOUS
    <2>3. QED
      BY <2>1, <2>2
  <1>3. QED
    BY <1>1, <1>2

\* RevokeToken for a JWT that was signed, with the expiry it carries: the new
\* row fits the JWT, and the pruned rows belonged to expired ones.
LEMMA RevokeTokenSound ==
    ASSUME IInv, NEW i \in issued,
           revoked' = RevokeToken(i.jti, i.exp),
           UNCHANGED <<now, serial, grants, retired, issued, operator>>
    PROVE  TablesSound' /\ Grows
  <1> USE DEF IInv, TablesSound
  <1>1. Grows
    BY DEF Grows, TypeOK
  <1>2. now \in Nat /\ issued \subseteq Jwt /\ revoked \subseteq RevokedToken
    BY DEF TypeOK
  <1>3. \A v \in revoked' : v \in revoked \/ (v.jti = i.jti /\ v.expires_at = i.exp)
    BY DEF RevokeToken, InsertRevoked
  <1>4. \A v \in revoked : v.expires_at >= now => v \in revoked'
    BY <1>2 DEF RevokeToken, InsertRevoked, RevokedToken
  <1>5. \A j \in issued : j.exp > now /\ HasRevocation(j) => HasRevocation(j)'
    <2> SUFFICES ASSUME NEW j \in issued, j.exp > now, NEW v \in revoked, v.jti = j.jti
                 PROVE  \E w \in revoked' : w.jti = j.jti
      BY DEF HasRevocation
    <2>1. v.expires_at = j.exp
      BY DEF RevocationsSound
    <2>2. v \in revoked'
      BY <1>2, <1>4, <2>1 DEF Jwt
    <2>3. QED
      BY <2>2
  <1>6. RevocationsSound'
    BY <1>2, <1>3, <1>5 DEF RevocationsSound, IssuedBelowSerial, JwtBoundToRequest
  <1>7. QED
    BY <1>1, <1>6 DEF IssuedBelowSerial, JwtBoundToRequest, SingleUse,
       GrantsSound, RowSound, SignedFor, RetiredSound, RetiredTokenDead

\* A row is deleted and its token retired without replacement.
LEMMA RemovalSound ==
    ASSUME IInv, NEW g \in grants, NEW x \in Reason \ {"rotated"},
           grants' = grants \ {g},
           retired' = InsertRetired(NewRetired(g.our_refresh_token, x, g.client_id, 0, 0)),
           UNCHANGED <<serial, issued>>
    PROVE  /\ Grows /\ GrantsSound' /\ RetiredSound'
           /\ IssuedBelowSerial' /\ JwtBoundToRequest' /\ SingleUse'
  <1> USE DEF IInv, TablesSound
  <1>1. Grows
    BY DEF Grows, TypeOK
  <1>2. GrantsSound'
    BY DEF GrantsSound, RowSound, SignedFor
  <1>3. g.our_refresh_token <= serial
    <2>1. PICK i \in issued : SignedFor(g, i) /\ g.our_refresh_token = g.jti
      BY DEF GrantsSound, RowSound
    <2>2. QED
      BY <2>1 DEF SignedFor, IssuedBelowSerial
  <1>4. \A h \in grants' : h.our_refresh_token # g.our_refresh_token
    <2> SUFFICES ASSUME NEW h \in grants, h # g,
                        h.our_refresh_token = g.our_refresh_token
                 PROVE  FALSE
      OBVIOUS
    <2>1. PICK i \in issued : SignedFor(g, i)
      BY DEF GrantsSound, RowSound
    <2>2. PICK j \in issued : SignedFor(h, j)
      BY DEF GrantsSound, RowSound
    <2>3. i.jti = j.jti
      BY <2>1, <2>2 DEF GrantsSound, RowSound, SignedFor
    <2>4. g.id = h.id
      BY <2>1, <2>2, <2>3 DEF SignedFor, JwtBoundToRequest
    <2>5. QED
      BY <2>4 DEF GrantsSound
  <1>5. \A t \in retired' :
           \/ t \in retired
           \/ /\ t.token = g.our_refresh_token
              /\ t.reason # "rotated"
              /\ t.replacement_jti = 0
    BY DEF InsertRetired, NewRetired
  <1>6. RetiredSound'
    <2>1. serial \in Nat
      BY DEF TypeOK
    <2>2. QED
      BY <1>3, <1>4, <1>5, <2>1 DEF RetiredSound, RetiredTokenDead
  <1>7. QED
    BY <1>1, <1>2, <1>6 DEF IssuedBelowSerial, JwtBoundToRequest, SingleUse

\* The operator's transaction: every JWT of the lineage is expired or revoked.
LEMMA OperatorSound ==
    ASSUME IInv, NEW g \in grants, RevokeOAuthGrantByID(g)
    PROVE  TablesSound' /\ Grows
  <1> USE DEF IInv, TablesSound
  <1>1. /\ Grows /\ GrantsSound' /\ RetiredSound'
        /\ IssuedBelowSerial' /\ JwtBoundToRequest' /\ SingleUse'
    <2>1. "operator_revoked" \in Reason \ {"rotated"}
      BY DEF Reason
    <2>2. QED
      BY <2>1, RemovalSound DEF RevokeOAuthGrantByID
  <1>2. PICK i \in issued : SignedFor(g, i)
    BY DEF GrantsSound, RowSound
  <1>3. /\ revoked \subseteq revoked'
        /\ \A v \in revoked' : v \in revoked \/ (v.jti = i.jti /\ v.expires_at = i.exp)
        /\ i.exp > now => \E v \in revoked' : v.jti = i.jti
    <2>1. revoked' = IF i.exp > now THEN InsertRevoked(i.jti, i.exp) ELSE revoked
      BY <1>2 DEF RevokeOAuthGrantByID, SignedFor
    <2>2. QED
      BY <2>1, InsertRevokedRows
  <1>4. \A j \in issued : j.id = g.id /\ j.exp > now => HasRevocation(j)'
    <2> SUFFICES ASSUME NEW j \in issued, j.id = g.id, j.exp > now
                 PROVE  HasRevocation(j)'
      OBVIOUS
    <2>1. j.jti <= i.jti /\ j.jti \in Nat /\ i.jti \in Nat
      BY <1>2 DEF GrantsSound, SignedFor, TypeOK, Jwt
    <2>2. CASE j.jti = i.jti
      <3>1. j = i
        BY <2>2 DEF JwtBoundToRequest
      <3>2. QED
        BY <1>3, <3>1 DEF HasRevocation
    <2>3. CASE j.jti < i.jti
      <3>1. HasRevocation(j)
        BY <1>2, <2>3 DEF RevocationsSound, SignedFor
      <3>2. QED
        BY <1>3, <3>1 DEF HasRevocation
    <2>4. QED
      BY <2>1, <2>2, <2>3
  <1>5. \A j \in issued : HasRevocation(j) => HasRevocation(j)'
    BY <1>3 DEF HasRevocation
  <1>6. g.id <= serial
    <2>1. i.id \in 1 .. i.jti /\ i.jti \in 1 .. serial /\ g.id = i.id
      BY <1>2 DEF SignedFor, IssuedBelowSerial
    <2>2. serial \in Nat
      BY DEF TypeOK
    <2>3. QED
      BY <2>1, <2>2
  <1>7. RevocationsSound'
    <2>1. UNCHANGED <<now, serial, issued>> /\ grants' = grants \ {g}
          /\ operator' = operator \cup {g.id}
      BY DEF RevokeOAuthGrantByID
    <2>2. \A v \in revoked' : v.jti <= serial
      BY <1>3 DEF RevocationsSound, IssuedBelowSerial
    <2>3. \A v \in revoked', j \in issued : v.jti = j.jti => v.expires_at = j.exp
      BY <1>3 DEF RevocationsSound, JwtBoundToRequest
    <2>4. \A h \in grants' : h.id # g.id
      BY <2>1 DEF GrantsSound
    <2>5. QED
      BY <1>4, <1>5, <1>6, <2>1, <2>2, <2>3, <2>4 DEF RevocationsSound
  <1>8. QED
    BY <1>1, <1>7

\* An authorization code is exchanged: a new lineage begins with a fresh JWT,
\* with or without a grant row; rows may be pruned.
LEMMA ExchangeSound ==
    ASSUME IInv, NEW i \in Jwt, NEW c \in Client,
           i.id = serial + 1, i.jti = serial + 1, i.client_id = c, i.to = c,
           i.from = 0,
           serial' = serial + 1, issued' = issued \cup {i},
           UNCHANGED <<now, retired, revoked, operator>>,
           \A g \in grants' : \/ g \in grants
                              \/ SignedFor(g, i) /\ g.our_refresh_token = g.jti,
           \A g, h \in grants' : g \notin grants /\ h \notin grants => g = h
    PROVE  TablesSound' /\ Grows
  <1> USE DEF IInv, TablesSound
  <1>0. serial \in Nat /\ issued \subseteq Jwt
    BY DEF TypeOK
  <1>1. Grows
    BY <1>0 DEF Grows, SignedFor
  <1>2. \A j \in issued : j.jti <= serial /\ j.id <= serial /\ j.from <= serial
                          /\ j.jti \in Nat /\ j.id \in Nat /\ j.from \in Nat
    BY <1>0 DEF IssuedBelowSerial, Jwt
  <1>3. \A g \in grants : g.id <= serial /\ g.jti <= serial /\ g.our_refresh_token <= serial
    BY <1>2 DEF GrantsSound, RowSound, SignedFor
  <1>4. IssuedBelowSerial'
    BY <1>0, <1>2 DEF IssuedBelowSerial
  <1>5. JwtBoundToRequest' /\ SingleUse'
    BY <1>0, <1>2 DEF JwtBoundToRequest, SingleUse
  <1>6. GrantsSound'
    <2>1. \A g \in grants' : RowSound(g)'
      BY DEF GrantsSound, RowSound, SignedFor
    <2>2. \A g, h \in grants' : g.id = h.id => g = h
      BY <1>0, <1>3 DEF GrantsSound, SignedFor
    <2>3. \A g \in grants', j \in issued' : j.id = g.id => j.jti <= g.jti
      BY <1>0, <1>2, <1>3 DEF GrantsSound, SignedFor
    <2>4. \A g \in grants', j \in issued' : j.from # g.our_refresh_token
      <3> SUFFICES ASSUME NEW g \in grants', NEW j \in issued'
                   PROVE  j.from # g.our_refresh_token
        OBVIOUS
      <3>1. CASE g \in grants /\ j \in issued
        BY <3>1 DEF GrantsSound
      <3>2. CASE g \in grants /\ j = i
        <4>1. PICK k \in issued : SignedFor(g, k) /\ g.our_refresh_token = g.jti
          BY <3>2 DEF GrantsSound, RowSound
        <4>2. g.our_refresh_token # 0
          BY <4>1 DEF SignedFor, IssuedBelowSerial
        <4>3. QED
          BY <3>2, <4>2
      <3>3. CASE g \notin grants
        <4>1. g.our_refresh_token = serial + 1
          BY <3>3 DEF SignedFor
        <4>2. QED
          BY <1>0, <1>2, <4>1
      <3>4. QED
        BY <3>1, <3>2, <3>3
    <2>5. QED
      BY <2>1, <2>2, <2>3, <2>4 DEF GrantsSound
  <1>7. RevocationsSound'
    <2>1. \A j \in issued : HasRevocation(j) <=> HasRevocation(j)'
      BY DEF HasRevocation
    <2>2. \A v \in revoked : v.jti <= serial /\ v.jti \in Nat
      BY DEF RevocationsSound, TypeOK, RevokedToken
    <2>3. \A v \in revoked : v.jti <= serial'
      BY <1>0, <2>2
    <2>4. \A v \in revoked, j \in issued' : v.jti = j.jti => v.expires_at = j.exp
      BY <1>0, <2>2 DEF RevocationsSound
    <2>5. \A j, k \in issued' :
             j.id = k.id /\ j.jti < k.jti /\ j.exp > now => HasRevocation(j)'
      BY <1>0, <1>2, <2>1 DEF RevocationsSound
    <2>6. \A k \in operator : k \in Nat /\ k <= serial
      BY DEF RevocationsSound, TypeOK
    <2>7. \A k \in operator :
             /\ k <= serial'
             /\ \A g \in grants' : g.id # k
             /\ \A j \in issued' : j.id = k /\ j.exp > now => HasRevocation(j)'
      BY <1>0, <2>1, <2>6 DEF RevocationsSound, SignedFor
    <2>8. QED
      BY <2>3, <2>4, <2>5, <2>7 DEF RevocationsSound
  <1>8. RetiredSound'
    <2>1. \A t \in retired : t.token <= serial /\ t.replacement_jti <= serial
                             /\ t.token \in Nat /\ t.replacement_jti \in Nat
      BY DEF RetiredSound, TypeOK, RetiredRefreshToken
    <2>2. \A t \in retired, g \in grants' : g.our_refresh_token # t.token
      BY <1>0, <2>1 DEF RetiredSound, RetiredTokenDead, SignedFor
    <2>3. \A t \in retired, j \in issued' :
             t.reason = "rotated" /\ j.jti = t.replacement_jti => j.from = t.token
      BY <1>0, <2>1 DEF RetiredSound
    <2>4. QED
      BY <1>0, <2>1, <2>2, <2>3 DEF RetiredSound, RetiredTokenDead
  <1>9. QED
    BY <1>1, <1>4, <1>5, <1>6, <1>7, <1>8

\* A grace retry signs the JWT the rotation signed, and so nothing new.
LEMMA GraceRetrySound ==
    ASSUME IInv, NEW r \in Req, GraceRetry(r)
    PROVE  issued' = issued
  <1>1. PICK g \in GetGrant(req[r].jti) :
           /\ g.client_id = req[r].client
           /\ issued' = issued \cup
                {IssueJWT(g.id, g.jti, g.client_id, g.jwt_expiry,
                          req[r].client, req[r].token)}
    BY DEF GraceRetry, ReissueExpiry
  <1>2. g \in grants /\ g.jti = req[r].jti
    BY <1>1 DEF GetGrant
  <1>3. PICK i \in issued : SignedFor(g, i)
    BY <1>2 DEF IInv, TablesSound, GrantsSound, RowSound
  <1>4. i.from = req[r].token
    BY <1>2, <1>3 DEF SignedFor, GraceRetry, IInv, Requests, HandlerSound
  <1>5. i.to = req[r].client
    BY <1>1, <1>3 DEF SignedFor, IInv, TablesSound, JwtBoundToRequest
  <1>6. i \in Jwt
    BY DEF IInv, TypeOK
  <1>7. i = IssueJWT(g.id, g.jti, g.client_id, g.jwt_expiry,
                     req[r].client, req[r].token)
    BY <1>3, <1>4, <1>5, <1>6 DEF IssueJWT, Jwt, SignedFor
  <1>8. QED
    BY <1>1, <1>7

\* A rotation: the row that carries the presented token is the row the request
\* read, the JWT it had is revoked, and its successor is the lineage's newest.
LEMMA RotateSound ==
    ASSUME IInv, NEW r \in Req, RotateGrant(r)
    PROVE  TablesSound' /\ Grows
  <1> USE DEF IInv, TablesSound
  <1> DEFINE h == req[r]
             g == h.grant
             n == serial + 1
             i == IssueJWT(g.id, n, g.client_id, now + JwtTTL, h.client,
                           g.our_refresh_token)
             row == RotatedRow(g, g.client_id, n, h.github)
  <1>0. /\ h.pc = "store" /\ g \in Grant /\ serial \in Nat /\ now \in Nat
        /\ issued \subseteq Jwt /\ grants \subseteq Grant
    BY HandlerFields DEF RotateGrant, TypeOK
  <1>1. /\ RowSound(g) /\ g.our_refresh_token = g.jti
        /\ \A x \in grants : x.jti = g.jti => x = g
        /\ h.client = g.client_id
    BY <1>0 DEF Requests, HandlerSound, RowSound
  <1>2. g \in grants /\ grants' = (grants \ {g}) \cup {row}
    <2>1. PICK x \in grants :
             /\ x.our_refresh_token = g.our_refresh_token
             /\ grants' = (grants \ {x}) \cup {RotatedRow(x, g.client_id, n, h.github)}
      BY DEF RotateGrant, RotateTarget, GetGrantByRefreshToken
    <2>2. x.jti = g.jti
      BY <1>1, <2>1 DEF GrantsSound, RowSound
    <2>3. QED
      BY <1>1, <2>1, <2>2
  <1>3. /\ serial' = n /\ now' = now /\ operator' = operator
        /\ issued' = issued \cup {i}
        /\ revoked' = InsertRevoked(g.jti, g.jwt_expiry)
    BY DEF RotateGrant
  <1>4. /\ i.id = g.id /\ i.jti = n /\ i.client_id = g.client_id
        /\ i.exp = now + JwtTTL /\ i.to = h.client /\ i.from = g.jti
    BY <1>1 DEF IssueJWT
  <1>5. /\ row.id = g.id /\ row.jti = n /\ row.our_refresh_token = n
        /\ row.client_id = g.client_id /\ row.jwt_expiry = now + JwtTTL
    BY <1>0 DEF RotatedRow, Grant
  <1>6. \A t \in retired' :
           \/ t \in retired
           \/ t.token = g.jti /\ t.replacement_jti = n /\ t.reason = "rotated"
    BY <1>1 DEF RotateGrant, InsertRetired, NewRetired
  <1>7. PICK k \in issued : SignedFor(g, k)
    BY <1>1 DEF RowSound
  <1> HIDE DEF i, row, g, h
  <1>8. \A j \in issued : /\ j.jti <= serial /\ j.id <= serial /\ j.from <= serial
                          /\ j.jti \in Nat /\ j.id \in Nat /\ j.from \in Nat
    BY <1>0 DEF IssuedBelowSerial, Jwt
  <1>9. /\ g.jti \in 1 .. serial /\ g.id \in 1 .. serial
        /\ \A x \in grants : x.jti <= serial
    <2>1. g.jti \in 1 .. serial /\ g.id \in 1 .. serial
      BY <1>0, <1>7 DEF SignedFor, IssuedBelowSerial
    <2>2. \A x \in grants : x.jti <= serial
      BY <1>8 DEF GrantsSound, RowSound, SignedFor
    <2>3. QED
      BY <2>1, <2>2
  <1>10. Grows
    BY <1>0, <1>2, <1>3, <1>4, <1>5 DEF Grows
  <1>11. IssuedBelowSerial'
    BY <1>0, <1>3, <1>4, <1>8, <1>9 DEF IssuedBelowSerial
  <1>12. JwtBoundToRequest'
    BY <1>0, <1>1, <1>3, <1>4, <1>8 DEF JwtBoundToRequest
  <1>13. \A j \in issued : j.from # g.jti
    BY <1>1, <1>2 DEF GrantsSound
  <1>14. SingleUse'
    BY <1>3, <1>4, <1>13 DEF SingleUse
  <1>15. GrantsSound'
    <2>1. \A x \in grants' : RowSound(x)'
      <3>1. SignedFor(row, i)
        BY <1>4, <1>5 DEF SignedFor
      <3>2. \A x : x = row => RowSound(x)'
        BY <1>3, <1>5, <3>1 DEF RowSound, SignedFor
      <3>3. \A x \in grants : RowSound(x)'
        BY <1>3 DEF GrantsSound, RowSound, SignedFor
      <3>4. QED
        BY <1>2, <3>2, <3>3
    <2>2. \A x, y \in grants' : x.id = y.id => x = y
      BY <1>2, <1>5 DEF GrantsSound
    <2>3. \A x \in grants', j \in issued' : j.id = x.id => j.jti <= x.jti
      <3> SUFFICES ASSUME NEW x \in grants', NEW j \in issued', j.id = x.id
                   PROVE  j.jti <= x.jti
        OBVIOUS
      <3>1. CASE x = row
        BY <1>0, <1>3, <1>4, <1>5, <1>8, <3>1
      <3>2. CASE x # row
        <4>1. x \in grants /\ x # g
          BY <1>2, <3>2
        <4>2. x.id # g.id
          BY <1>2, <4>1 DEF GrantsSound
        <4>3. j \in issued
          BY <1>3, <1>4, <4>2
        <4>4. QED
          BY <4>1, <4>3 DEF GrantsSound
      <3>3. QED
        BY <3>1, <3>2
    <2>4. \A x \in grants', j \in issued' : j.from # x.our_refresh_token
      <3> SUFFICES ASSUME NEW x \in grants', NEW j \in issued'
                   PROVE  j.from # x.our_refresh_token
        OBVIOUS
      <3>1. CASE x = row
        BY <1>0, <1>3, <1>4, <1>5, <1>8, <1>9, <3>1
      <3>2. CASE x # row /\ j \in issued
        BY <1>2, <3>2 DEF GrantsSound
      <3>3. CASE x # row /\ j = i
        <4>1. x \in grants /\ x # g
          BY <1>2, <3>3
        <4>2. x.our_refresh_token = x.jti
          BY <4>1 DEF GrantsSound, RowSound
        <4>3. x.jti # g.jti
          BY <1>1, <4>1
        <4>4. QED
          BY <1>4, <3>3, <4>2, <4>3
      <3>4. QED
        BY <1>3, <3>1, <3>2, <3>3
    <2>5. QED
      BY <2>1, <2>2, <2>3, <2>4 DEF GrantsSound
  <1>16. RevocationsSound'
    <2>1. /\ revoked \subseteq revoked'
          /\ \A v \in revoked' : v \in revoked \/ (v.jti = k.jti /\ v.expires_at = k.exp)
          /\ \E v \in revoked' : v.jti = k.jti
      BY <1>3, <1>7, InsertRevokedRows DEF SignedFor
    <2>2. \A j \in issued : HasRevocation(j) => HasRevocation(j)'
      BY <2>1 DEF HasRevocation
    <2>3. \A v \in revoked : v.jti \in Nat /\ v.jti <= serial
      BY DEF RevocationsSound, TypeOK, RevokedToken
    <2>4. \A v \in revoked' : v.jti <= serial
      BY <1>8, <2>1, <2>3
    <2>5. \A v \in revoked', j \in issued : v.jti = j.jti => v.expires_at = j.exp
      BY <2>1 DEF RevocationsSound, JwtBoundToRequest
    <2>6. \A v \in revoked' : v.jti # i.jti
      BY <1>0, <1>4, <1>8, <2>1, <2>3
    <2>7. \A j \in issued : j.id = g.id /\ j.exp > now => HasRevocation(j)'
      <3> SUFFICES ASSUME NEW j \in issued, j.id = g.id, j.exp > now
                   PROVE  HasRevocation(j)'
        OBVIOUS
      <3>1. j.jti <= k.jti /\ k.id = g.id
        BY <1>2, <1>7 DEF GrantsSound, SignedFor
      <3>2. CASE j.jti = k.jti
        BY <2>1, <3>2 DEF HasRevocation
      <3>3. CASE j.jti < k.jti
        BY <2>2, <3>1, <3>3 DEF RevocationsSound
      <3>4. QED
        BY <1>8, <3>1, <3>2, <3>3
    <2>8. \A j, l \in issued' :
             j.id = l.id /\ j.jti < l.jti /\ j.exp > now => HasRevocation(j)'
      <3> SUFFICES ASSUME NEW j \in issued', NEW l \in issued',
                          j.id = l.id, j.jti < l.jti, j.exp > now
                   PROVE  HasRevocation(j)'
        OBVIOUS
      <3>1. CASE j = i
        <4>1. l.jti <= n
          BY <1>0, <1>3, <1>4, <1>8
        <4>2. QED
          BY <1>0, <1>3, <1>4, <1>8, <3>1, <4>1
      <3>2. CASE j \in issued /\ l = i
        BY <1>4, <2>7, <3>2
      <3>3. CASE j \in issued /\ l \in issued
        BY <2>2, <3>3 DEF RevocationsSound
      <3>4. QED
        BY <1>3, <3>1, <3>2, <3>3
    <2>9. \A x \in operator :
             /\ x \in Nat /\ x <= serial /\ x # g.id
             /\ \A y \in grants' : y.id # x
             /\ \A j \in issued' : j.id = x /\ j.exp > now => HasRevocation(j)'
      <3> SUFFICES ASSUME NEW x \in operator
                   PROVE  /\ x \in Nat /\ x <= serial /\ x # g.id
                          /\ \A y \in grants' : y.id # x
                          /\ \A j \in issued' : j.id = x /\ j.exp > now => HasRevocation(j)'
        OBVIOUS
      <3>1. x \in Nat /\ x <= serial /\ x # g.id
        BY <1>2 DEF RevocationsSound, TypeOK
      <3>2. \A y \in grants' : y.id # x
        BY <1>2, <1>5, <3>1 DEF RevocationsSound
      <3>3. \A j \in issued' : j.id = x /\ j.exp > now => HasRevocation(j)'
        BY <1>3, <1>4, <2>2, <3>1 DEF RevocationsSound
      <3>4. QED
        BY <3>1, <3>2, <3>3
    <2>10. \A x \in operator : x <= n
      BY <1>0, <2>9
    <2>11. \A v \in revoked' : v.jti <= n
      BY <1>0, <1>8, <2>1, <2>3
    <2>12. \A v \in revoked', j \in issued' : v.jti = j.jti => v.expires_at = j.exp
      BY <1>3, <2>5, <2>6
    <2>13. QED
      BY <1>3, <2>8, <2>9, <2>10, <2>11, <2>12 DEF RevocationsSound
  <1>17. RetiredSound'
    <2>1. \A t \in retired : /\ t.token <= serial /\ t.replacement_jti <= serial
                             /\ t.token \in Nat /\ t.replacement_jti \in Nat
      BY DEF RetiredSound, TypeOK, RetiredRefreshToken
    <2>2. \A t \in retired' : t.token <= n /\ t.replacement_jti <= n
      BY <1>0, <1>6, <1>9, <2>1
    <2>3. \A t \in retired', x \in grants' : x.our_refresh_token # t.token
      <3> SUFFICES ASSUME NEW t \in retired', NEW x \in grants'
                   PROVE  x.our_refresh_token # t.token
        OBVIOUS
      <3>1. CASE x = row
        BY <1>0, <1>5, <1>6, <1>9, <2>1, <3>1
      <3>2. CASE x \in grants /\ x # g
        <4>1. x.our_refresh_token # g.jti
          BY <1>1, <3>2 DEF GrantsSound, RowSound
        <4>2. QED
          BY <1>6, <3>2, <4>1 DEF RetiredSound, RetiredTokenDead
      <3>3. QED
        BY <1>2, <3>1, <3>2
    <2>4. \A t \in retired', j \in issued' :
             t.reason = "rotated" /\ j.jti = t.replacement_jti => j.from = t.token
      <3> SUFFICES ASSUME NEW t \in retired', NEW j \in issued',
                          t.reason = "rotated", j.jti = t.replacement_jti
                   PROVE  j.from = t.token
        OBVIOUS
      <3>1. CASE t \in retired
        <4>1. j \in issued
          BY <1>0, <1>3, <1>4, <2>1, <3>1
        <4>2. QED
          BY <3>1, <4>1 DEF RetiredSound
      <3>2. CASE t.token = g.jti /\ t.replacement_jti = n
        <4>1. j = i
          BY <1>0, <1>3, <1>8, <3>2
        <4>2. QED
          BY <1>4, <3>2, <4>1
      <3>3. QED
        BY <1>6, <3>1, <3>2
    <2>5. QED
      BY <1>3, <2>2, <2>3, <2>4 DEF RetiredSound, RetiredTokenDead
  <1>18. QED
    BY <1>10, <1>11, <1>12, <1>14, <1>15, <1>16, <1>17

\* Time passes: revocations are asked of fewer JWTs.
LEMMA TickSound == ASSUME IInv, Tick PROVE TablesSound' /\ Grows
  <1> USE DEF IInv, TablesSound
  <1>1. /\ now \in Nat /\ now' = now + 1 /\ issued \subseteq Jwt
        /\ UNCHANGED <<serial, grants, retired, revoked, issued, operator>>
    BY DEF Tick, TypeOK, tables
  <1>2. Grows
    BY <1>1 DEF Grows, TypeOK
  <1>3. \A j \in issued : j.exp > now' => j.exp > now
    BY <1>1 DEF Jwt
  <1>4. RevocationsSound'
    BY <1>1, <1>3 DEF RevocationsSound, HasRevocation
  <1>5. QED
    BY <1>1, <1>2, <1>4 DEF IssuedBelowSerial, JwtBoundToRequest, SingleUse,
       GrantsSound, RowSound, SignedFor, RetiredSound, RetiredTokenDead

\* The deletion of tearDownGrant: no row, or the row the request read.
LEMMA DeleteSound ==
    ASSUME IInv, NEW r \in Req, DeleteGrant(r)
    PROVE  TablesSound' /\ Grows
  <1> USE DEF IInv, TablesSound
  <1> DEFINE g == req[r].grant
  <1>1. /\ req[r].pc = "delete" /\ req[r].reason \in Reason \ {"rotated"}
        /\ \A x \in grants : x.jti = g.jti => x = g
    BY HandlerFields DEF DeleteGrant, Requests, HandlerSound
  <1>2. CASE DeleteTarget(g) = {}
    <2>1. UNCHANGED <<now, serial, tables>>
      BY <1>2 DEF DeleteGrant, tables
    <2>2. QED
      BY <2>1, TablesUnchanged
  <1>3. CASE DeleteTarget(g) # {}
    <2>1. g \in grants /\ DeleteTarget(g) = {g}
      BY <1>1, <1>3 DEF DeleteTarget, GetGrant
    <2>2. /\ grants' = grants \ {g}
          /\ retired' = InsertRetired(NewRetired(g.our_refresh_token,
                              req[r].reason, g.client_id, 0, 0))
          /\ UNCHANGED <<now, serial, issued, revoked, operator>>
      BY <2>1 DEF DeleteGrant
    <2>3. /\ Grows /\ GrantsSound' /\ RetiredSound'
          /\ IssuedBelowSerial' /\ JwtBoundToRequest' /\ SingleUse'
      BY <1>1, <2>1, <2>2, RemovalSound
    <2>4. RevocationsSound'
      BY <2>2 DEF RevocationsSound, HasRevocation
    <2>5. QED
      BY <2>3, <2>4
  <1>4. QED
    BY <1>2, <1>3

\* What a step of one request does to the other requests' memory.
LEMMA GotoOthers ==
    ASSUME TypeOK, NEW r \in Req, NEW h, Goto(r, h)
    PROVE  req'[r] = h /\ \A q \in Req \ {r} : req'[q] = req[q]
  BY DEF TypeOK, Goto

\* A request that ends remembers nothing.
LEMMA EndSound ==
    ASSUME IInv, NEW r \in Req, Goto(r, Idle), Grows
    PROVE  Requests'
  <1>1. req'[r] = Idle /\ \A q \in Req \ {r} : req'[q] = req[q]
    BY GotoOthers DEF IInv
  <1>2. HandlerSound(req[r])'
    BY <1>1 DEF HandlerSound, Idle
  <1>3. QED
    BY <1>1, <1>2, RequestsStep

\* A request that moves on with a sound copy of a row.
LEMMA MoveSound ==
    ASSUME IInv, NEW r \in Req, Grows, NEW h, Goto(r, h), NEW g,
           issued' = issued, grants' = grants,
           h.pc \in {"github", "store", "revoke", "delete"}, h.grant = g,
           h.pc \in {"github", "store"} => h.client = g.client_id,
           h.pc \in {"revoke", "delete"} => h.reason # "rotated",
           RowSound(g), \A x \in grants : x.jti = g.jti => x = g
    PROVE  Requests'
  <1>1. req'[r] = h /\ \A q \in Req \ {r} : req'[q] = req[q]
    BY GotoOthers DEF IInv
  <1>2. RowSound(g)'
    BY DEF RowSound, SignedFor
  <1>3. HandlerSound(req[r])'
    BY <1>1, <1>2 DEF HandlerSound
  <1>4. QED
    BY <1>1, <1>3, RequestsStep

\* Two rows with one jti are one row: what a request reads identifies it.
LEMMA RowIsIdentified ==
    ASSUME IInv, NEW g \in grants
    PROVE  RowSound(g) /\ \A x \in grants : x.jti = g.jti => x = g
  <1> USE DEF IInv, TablesSound
  <1>1. RowSound(g)
    BY DEF GrantsSound
  <1>2. ASSUME NEW x \in grants, x.jti = g.jti PROVE x = g
    <2>1. PICK i \in issued : SignedFor(g, i)
      BY DEF GrantsSound, RowSound
    <2>2. PICK j \in issued : SignedFor(x, j)
      BY DEF GrantsSound, RowSound
    <2>3. i = j
      BY <1>2, <2>1, <2>2 DEF SignedFor, JwtBoundToRequest
    <2>4. QED
      BY <2>1, <2>2, <2>3 DEF SignedFor, GrantsSound
  <1>3. QED
    BY <1>1, <1>2

\* A step of one request keeps the tables and every request's memory sound.
LEMMA SoundServe ==
    ASSUME IInv, NEW r \in Req, Serve(r)
    PROVE  TablesSound' /\ Requests'
  <1>0. /\ req[r].pc \in {"github", "store", "revoke", "delete"} =>
              /\ RowSound(req[r].grant)
              /\ \A x \in grants : x.jti = req[r].grant.jti => x = req[r].grant
        /\ req[r].pc \in {"github", "store"} => req[r].client = req[r].grant.client_id
        /\ req[r].pc \in {"revoke", "delete"} => req[r].reason # "rotated"
    BY DEF IInv, Requests, HandlerSound
  <1>1. ASSUME NEW token \in 1 .. serial, NEW c \in Client,
               RefreshFound(r, token, c)
        PROVE  TablesSound' /\ Requests'
    <2>1. TablesSound' /\ Grows
      BY <1>1, TablesUnchanged DEF RefreshFound
    <2>2. PICK g \in grants :
             \/ Goto(r, [pc |-> "revoke", grant |-> g, reason |-> "client_binding_missing"])
             \/ g.client_id = c /\ Goto(r, [pc |-> "github", grant |-> g, client |-> c])
      BY <1>1 DEF RefreshFound, GetGrantByRefreshToken
    <2>3. Requests'
      BY <1>1, <2>1, <2>2, RowIsIdentified, MoveSound DEF RefreshFound, tables
    <2>4. QED
      BY <2>1, <2>3
  <1>2. ASSUME NEW token \in 1 .. serial, NEW c \in Client,
               RefreshNotFound(r, token, c)
        PROVE  TablesSound' /\ Requests'
    <2>1. TablesSound' /\ Grows
      BY <1>2, TablesUnchanged DEF RefreshNotFound
    <2> DEFINE h == [pc |-> "retired", token |-> token, client |-> c]
    <2>2. req'[r] = h /\ \A q \in Req \ {r} : req'[q] = req[q]
      BY <1>2, GotoOthers DEF IInv, RefreshNotFound
    <2>3. HandlerSound(req[r])'
      BY <2>2 DEF HandlerSound
    <2>4. QED
      BY <2>1, <2>2, <2>3, RequestsStep
  <1>3. CASE GitHubExpired(r) \/ GitHubRejects(r) \/ GitHubRotates(r)
             \/ GitHubMissingRefresh(r)
    <2>1. TablesSound' /\ Grows
      BY <1>3, TablesUnchanged
      DEF GitHubExpired, GitHubRejects, GitHubRotates, GitHubMissingRefresh
    <2>2. issued' = issued /\ grants' = grants /\ req[r].pc = "github"
      BY <1>3
      DEF GitHubExpired, GitHubRejects, GitHubRotates, GitHubMissingRefresh, tables
    <2>3. PICK h : /\ Goto(r, h) /\ h.pc \in {"store", "revoke"}
                   /\ h.grant = req[r].grant
                   /\ h.pc = "store" => h.client = req[r].client
                   /\ h.pc = "revoke" => h.reason # "rotated"
      BY <1>3
      DEF GitHubExpired, GitHubRejects, GitHubRotates, GitHubMissingRefresh
    <2>4. Requests'
      BY <1>0, <2>1, <2>2, <2>3, MoveSound
    <2>5. QED
      BY <2>1, <2>4
  <1>4. CASE RotateGrant(r)
    BY <1>4, RotateSound, EndSound DEF RotateGrant
  <1>5. CASE RotateGrantNotFound(r) \/ StoreFails(r) \/ RetiredRefused(r)
             \/ GraceRefused(r) \/ Fail(r)
    <2>1. Goto(r, Idle) /\ UNCHANGED <<now, serial, tables>>
      BY <1>5
      DEF RotateGrantNotFound, StoreFails, RetiredRefused, GraceRefused, Fail
    <2>2. QED
      BY <2>1, TablesUnchanged, EndSound
  <1>6. CASE RetiredLookup(r)
    <2>1. TablesSound' /\ Grows
      BY <1>6, TablesUnchanged DEF RetiredLookup
    <2>2. PICK t \in retired :
             /\ t.token = req[r].token /\ t.reason = "rotated"
             /\ Goto(r, [pc |-> "replacement", token |-> req[r].token,
                         client |-> req[r].client, jti |-> t.replacement_jti])
      BY <1>6 DEF RetiredLookup, GetRetiredRefreshToken, GraceEligible
    <2>3. /\ t.replacement_jti <= serial
          /\ \A i \in issued : i.jti = t.replacement_jti => i.from = req[r].token
      BY <2>2 DEF IInv, TablesSound, RetiredSound
    <2>4. /\ req'[r] = [pc |-> "replacement", token |-> req[r].token,
                        client |-> req[r].client, jti |-> t.replacement_jti]
          /\ \A q \in Req \ {r} : req'[q] = req[q]
      BY <2>2, GotoOthers DEF IInv
    <2>5. HandlerSound(req[r])'
      BY <1>6, <2>3, <2>4 DEF HandlerSound, RetiredLookup, tables
    <2>6. QED
      BY <2>1, <2>4, <2>5, RequestsStep
  <1>7. CASE GraceRetry(r)
    <2>1. UNCHANGED <<now, serial, tables>>
      BY <1>7, GraceRetrySound DEF GraceRetry, tables
    <2>2. QED
      BY <1>7, <2>1, TablesUnchanged, EndSound DEF GraceRetry
  <1>8. CASE GraceUnbound(r)
    <2>1. TablesSound' /\ Grows
      BY <1>8, TablesUnchanged DEF GraceUnbound
    <2>2. PICK g \in grants :
             Goto(r, [pc |-> "revoke", grant |-> g, reason |-> "client_binding_missing"])
      BY <1>8 DEF GraceUnbound, GetGrant
    <2>3. Requests'
      BY <1>8, <2>1, <2>2, RowIsIdentified, MoveSound DEF GraceUnbound, tables
    <2>4. QED
      BY <2>1, <2>3
  <1>9. CASE TearDownRevoke(r) \/ TearDownRevokeFails(r)
    <2>1. TablesSound' /\ Grows
      <3>1. CASE TearDownRevoke(r)
        <4>1. PICK i \in issued : SignedFor(req[r].grant, i)
          BY <1>0, <3>1 DEF TearDownRevoke, RowSound
        <4>2. revoked' = RevokeToken(i.jti, i.exp)
          BY <3>1, <4>1 DEF TearDownRevoke, SignedFor
        <4>3. QED
          BY <3>1, <4>2, RevokeTokenSound DEF TearDownRevoke
      <3>2. CASE TearDownRevokeFails(r)
        BY <3>2, TablesUnchanged DEF TearDownRevokeFails
      <3>3. QED
        BY <1>9, <3>1, <3>2
    <2>2. /\ issued' = issued /\ grants' = grants /\ req[r].pc = "revoke"
          /\ Goto(r, [pc |-> "delete", grant |-> req[r].grant, reason |-> req[r].reason])
      BY <1>9 DEF TearDownRevoke, TearDownRevokeFails, tables
    <2>3. Requests'
      BY <1>0, <2>1, <2>2, MoveSound
    <2>4. QED
      BY <2>1, <2>3
  <1>10. CASE DeleteGrant(r)
    BY <1>10, DeleteSound, EndSound DEF DeleteGrant
  <1>11. QED
    BY <1>1, <1>2, <1>3, <1>4, <1>5, <1>6, <1>7, <1>8, <1>9, <1>10 DEF Serve

\* Every step of every actor keeps the inductive invariant.
LEMMA SoundNext == IInv /\ [Next]_vars => IInv'
  <1> SUFFICES ASSUME IInv, [Next]_vars PROVE IInv'
    OBVIOUS
  <1>0. TypeOK'
    BY TypeNext DEF IInv
  <1>1. ASSUME NEW r \in Req, Serve(r) PROVE TablesSound' /\ Requests'
    BY <1>1, SoundServe
  <1>2. ASSUME NEW u \in User, NEW c \in Client, AuthCodeGrant(u, c)
        PROVE  TablesSound' /\ Requests'
    <2> DEFINE n == serial + 1
               i == IssueJWT(n, n, c, now + JwtTTL, c, 0)
               gh == [id |-> n, gen |-> 1, exp |-> now + GitHubTTL]
               g == [id |-> n, jti |-> n, our_refresh_token |-> n,
                     client_id |-> c, user_id |-> u, github |-> gh,
                     jwt_expiry |-> now + JwtTTL]
    <2>1. /\ serial' = n /\ issued' = issued \cup {i}
          /\ grants' = (grants \ PrunedByUpsert(u, c)) \cup {g}
          /\ UNCHANGED <<now, retired, revoked, operator>>
          /\ req' = req
      BY <1>2 DEF AuthCodeGrant
    <2>2. i \in Jwt
      BY TableWrites DEF IInv, TypeOK, IssueJWT, Jwt
    <2>3. /\ i.id = n /\ i.jti = n /\ i.client_id = c /\ i.to = c /\ i.from = 0
          /\ SignedFor(g, i) /\ g.our_refresh_token = g.jti
      BY DEF IssueJWT, SignedFor
    <2> HIDE DEF i, g
    <2>4. /\ \A x \in grants' : \/ x \in grants
                                \/ SignedFor(x, i) /\ x.our_refresh_token = x.jti
          /\ \A x, y \in grants' : x \notin grants /\ y \notin grants => x = y
      BY <2>1, <2>3
    <2>5. TablesSound' /\ Grows
      BY <2>1, <2>2, <2>3, <2>4, ExchangeSound
    <2>6. QED
      BY <2>1, <2>5, RequestsStay
  <1>3. ASSUME NEW c \in Client, AuthCodeWithoutGrant(c)
        PROVE  TablesSound' /\ Requests'
    <2> DEFINE n == serial + 1
               i == IssueJWT(n, n, c, now + JwtTTL, c, 0)
    <2>1. /\ serial' = n /\ issued' = issued \cup {i}
          /\ UNCHANGED <<now, grants, retired, revoked, operator>>
          /\ req' = req
      BY <1>3 DEF AuthCodeWithoutGrant
    <2>2. i \in Jwt
      BY TableWrites DEF IInv, TypeOK, IssueJWT, Jwt
    <2>3. i.id = n /\ i.jti = n /\ i.client_id = c /\ i.to = c /\ i.from = 0
      BY DEF IssueJWT
    <2> HIDE DEF i
    <2>4. TablesSound' /\ Grows
      BY <2>1, <2>2, <2>3, ExchangeSound
    <2>5. QED
      BY <2>1, <2>4, RequestsStay
  <1>4. ASSUME NEW i \in issued, Logout(i) PROVE TablesSound' /\ Requests'
    BY <1>4, RevokeTokenSound, RequestsStay DEF Logout
  <1>5. ASSUME NEW g \in grants, RevokeOAuthGrantByID(g)
        PROVE  TablesSound' /\ Requests'
    BY <1>5, OperatorSound, RequestsStay DEF RevokeOAuthGrantByID
  <1>6. ASSUME NEW t \in upstream, GitHubRevokes(t)
        PROVE  TablesSound' /\ Requests'
    BY <1>6, TablesUnchanged, RequestsStay DEF GitHubRevokes
  <1>7. ASSUME Tick PROVE TablesSound' /\ Requests'
    BY <1>7, TickSound, RequestsStay DEF Tick
  <1>8. ASSUME UNCHANGED vars PROVE TablesSound' /\ Requests'
    BY <1>8, TablesUnchanged, RequestsStay DEF vars, tables
  <1>9. QED
    BY <1>0, <1>1, <1>2, <1>3, <1>4, <1>5, <1>6, <1>7, <1>8 DEF Next, IInv

-----------------------------------------------------------------------------
(* The properties *)

\* The inductive invariant holds in every reachable state of the token endpoint.
LEMMA Soundness == Spec => []IInv
  <1>1. QED
    BY SoundInit, SoundNext, PTL DEF Spec

\* A JWT that has a revocation is not accepted: the revocation lasts as long
\* as the JWT does.
LEMMA RevokedNotAccepted ==
    ASSUME IInv, NEW i \in issued, i.exp > now => HasRevocation(i)
    PROVE  ~Accepted(i)
  BY DEF IInv, TablesSound, RevocationsSound, HasRevocation, Accepted, IsTokenRevoked

\* At most one JWT of a lineage is accepted, the current row's.
THEOREM OneAccepted == Spec => []OneAcceptedJwt
  <1>1. ASSUME IInv PROVE OneAcceptedJwt
    <2> USE <1>1
    <2>1. \A i \in issued : i.jti \in Nat
      BY DEF IInv, TypeOK, Jwt
    <2>2. ASSUME NEW i \in issued, NEW j \in issued, i.id = j.id, i.jti < j.jti
          PROVE  ~Accepted(i)
      BY <2>2, RevokedNotAccepted DEF IInv, TablesSound, RevocationsSound
    <2>3. ASSUME NEW i \in issued, NEW j \in issued, i.id = j.id,
                 Accepted(i), Accepted(j)
          PROVE  i.jti = j.jti
      BY <2>1, <2>2, <2>3
    <2>4. ASSUME NEW g \in grants, NEW i \in issued, g.id = i.id, Accepted(i)
          PROVE  i.jti = g.jti
      <3>1. PICK j \in issued : SignedFor(g, j)
        BY DEF IInv, TablesSound, GrantsSound, RowSound
      <3>2. i.jti <= j.jti /\ i.id = j.id /\ j.jti = g.jti
        BY <2>4, <3>1 DEF IInv, TablesSound, GrantsSound, SignedFor
      <3>3. QED
        BY <2>1, <2>2, <2>4, <3>2
    <2>5. QED
      BY <2>3, <2>4 DEF OneAcceptedJwt
  <1>2. QED
    BY <1>1, Soundness, PTL

\* No JWT and no row of a lineage survives its revocation by an operator.
THEOREM OperatorFinal == Spec => []OperatorRevocationFinal
  <1>1. ASSUME IInv PROVE OperatorRevocationFinal
    BY <1>1, RevokedNotAccepted
    DEF OperatorRevocationFinal, IInv, TablesSound, RevocationsSound
  <1>2. QED
    BY <1>1, Soundness, PTL

\* A jti names one JWT, signed for the client that asked for it.
THEOREM BoundToRequest == Spec => []JwtBoundToRequest
  <1>1. IInv => JwtBoundToRequest
    BY DEF IInv, TablesSound
  <1>2. QED
    BY <1>1, Soundness, PTL

\* A refresh token buys at most one JWT.
THEOREM RefreshTokenSingleUse == Spec => []SingleUse
  <1>1. IInv => SingleUse
    BY DEF IInv, TablesSound
  <1>2. QED
    BY <1>1, Soundness, PTL

\* A retired token is no grant's token.
THEOREM RetiredIsDead == Spec => []RetiredTokenDead
  <1>1. IInv => RetiredTokenDead
    BY DEF IInv, TablesSound, RetiredSound
  <1>2. QED
    BY <1>1, Soundness, PTL

-----------------------------------------------------------------------------
(* The grace retry *)

\* i is the JWT a grant row's own JWT replaced: the newest before it.
Predecessor(g, i) ==
    /\ i.id = g.id /\ i.jti < g.jti
    /\ \A k \in issued : k.id = g.id /\ k.jti < g.jti => k.jti <= i.jti

\* The end of the grace period of the rotation that wrote row g.
GraceEnd(g) == g.jwt_expiry - JwtTTL + GracePeriod

\* The record a rotation leaves of the pair it replaced.
RecordOf(t, i, g) ==
    /\ t.token = i.jti /\ t.reason = "rotated"
    /\ t.client_id = g.client_id /\ t.replacement_jti = g.jti
    /\ t.grace_expires_at = GraceEnd(g)
    /\ t.retained_until >= t.grace_expires_at

\* Until its grace period ends, a row's predecessor has its record.
GraceSound(g) ==
    g.client_id # NoClient /\ now < GraceEnd(g) =>
        \A i \in issued : Predecessor(g, i) => \E t \in retired : RecordOf(t, i, g)

GInv == \A g \in grants : GraceSound(g)

\* What the initial database holds of rotations was written before clients
\* were bound: no bound row has a predecessor yet.
LEMMA GraceInit == Init => GInv
  <1>1. EmptyInit => GInv
    BY DEF EmptyInit, GInv
  <1>2. LegacyInit => GInv
    BY DEF LegacyInit, GInv, GraceSound
  <1>3. QED
    BY <1>1, <1>2 DEF Init

\* The upsert and the prune of retired_refresh_tokens keep every record of
\* another token that is still retained.
LEMMA RecordKept ==
    ASSUME NEW n, NEW t \in retired, t.token # n.token, t.retained_until >= now
    PROVE  t \in InsertRetired(n)
  BY DEF InsertRetired

\* A step that signs nothing for a row's lineage and retires no token of it
\* leaves the row its record.
LEMMA GraceKept ==
    ASSUME IInv, GInv, IInv', NEW g \in grants,
           now' = now, issued \subseteq issued',
           \A i \in issued' : i.id = g.id => i \in issued,
           \/ retired' = retired
           \/ \E n : /\ retired' = InsertRetired(n)
                     /\ \A i \in issued : i.id = g.id => i.jti # n.token
    PROVE  GraceSound(g)'
  <1> SUFFICES ASSUME g.client_id # NoClient, now' < GraceEnd(g),
                      NEW i \in issued', Predecessor(g, i)'
               PROVE  \E t \in retired' : RecordOf(t, i, g)
    BY DEF GraceSound, GraceEnd, RecordOf
  <1>1. i \in issued /\ Predecessor(g, i)
    BY DEF Predecessor
  <1>2. PICK t \in retired : RecordOf(t, i, g)
    BY <1>1 DEF GInv, GraceSound
  <1>3. CASE retired' = retired
    BY <1>2, <1>3
  <1>4. ASSUME NEW n, retired' = InsertRetired(n),
               \A j \in issued : j.id = g.id => j.jti # n.token
        PROVE  \E x \in retired' : RecordOf(x, i, g)
    <2>1. t.token # n.token
      BY <1>1, <1>2, <1>4 DEF Predecessor, RecordOf
    <2>2. t.retained_until >= now
      <3>1. /\ now \in Nat /\ g.jwt_expiry \in Nat /\ t.retained_until \in Nat
            /\ t.grace_expires_at \in Nat
        BY DEF IInv, TypeOK, Grant, RetiredRefreshToken
      <3>2. /\ GraceEnd(g) = t.grace_expires_at
            /\ t.retained_until >= t.grace_expires_at
        BY <1>2 DEF RecordOf
      <3>3. QED
        BY <3>1, <3>2
    <2>3. QED
      BY <1>2, <1>4, <2>1, <2>2, RecordKept
  <1>5. QED
    BY <1>3, <1>4

\* The clock alone only brings the end of a grace period nearer.
LEMMA GraceTick == ASSUME IInv, GInv, Tick PROVE GInv'
  <1> SUFFICES ASSUME NEW g \in grants PROVE GraceSound(g)'
    BY DEF GInv, Tick, tables
  <1>1. now \in Nat /\ now' = now + 1 /\ GraceEnd(g) \in Int
    BY DurationsAssumption DEF Tick, IInv, TypeOK, Grant, GraceEnd
  <1>2. now' < GraceEnd(g) => now < GraceEnd(g)
    BY <1>1
  <1>3. GraceSound(g)
    BY DEF GInv
  <1>4. issued' = issued /\ retired' = retired
    BY DEF Tick, tables
  <1>5. \A i \in issued' : Predecessor(g, i)' => Predecessor(g, i)
    BY <1>4 DEF Predecessor
  <1>6. QED
    BY <1>2, <1>3, <1>4, <1>5 DEF GraceSound, GraceEnd, RecordOf

\* A new lineage's first row has no predecessor, and the others keep theirs.
LEMMA GraceExchange ==
    ASSUME IInv, GInv, IInv', NEW i,
           i.id = serial + 1, i.jti = serial + 1,
           issued' = issued \cup {i}, now' = now, retired' = retired,
           \A g \in grants' : \/ g \in grants
                              \/ g.id = serial + 1 /\ g.jti = serial + 1
    PROVE  GInv'
  <1> SUFFICES ASSUME NEW g \in grants' PROVE GraceSound(g)'
    BY DEF GInv
  <1>1. /\ serial \in Nat
        /\ \A j \in issued : /\ j.id \in Nat /\ j.jti \in Nat
                             /\ j.id <= j.jti /\ j.jti <= serial
    BY DEF IInv, TypeOK, TablesSound, IssuedBelowSerial, Jwt
  <1>2. CASE g \in grants
    <2>1. PICK j \in issued : SignedFor(g, j)
      BY <1>2 DEF IInv, TablesSound, GrantsSound, RowSound
    <2>2. g.id # serial + 1
      BY <1>1, <2>1 DEF SignedFor
    <2>3. QED
      BY <1>2, <2>2, GraceKept
  <1>3. CASE g.id = serial + 1 /\ g.jti = serial + 1
    <2>1. \A j \in issued' : ~Predecessor(g, j)'
      BY <1>1, <1>3 DEF Predecessor
    <2>2. QED
      BY <2>1 DEF GraceSound
  <1>4. QED
    BY <1>2, <1>3

\* A row is taken away and its token retired: the other rows keep their records.
LEMMA GraceRemoval ==
    ASSUME IInv, GInv, IInv', NEW g \in grants, NEW n,
           grants' = grants \ {g}, now' = now, issued' = issued,
           retired' = InsertRetired(n), n.token = g.our_refresh_token
    PROVE  GInv'
  <1> SUFFICES ASSUME NEW x \in grants, x # g PROVE GraceSound(x)'
    BY DEF GInv
  <1> USE DEF IInv, TablesSound
  <1>1. PICK k \in issued : SignedFor(g, k) /\ g.our_refresh_token = g.jti
    BY DEF GrantsSound, RowSound
  <1>2. \A i \in issued : i.id = x.id => i.jti # n.token
    BY <1>1 DEF GrantsSound, JwtBoundToRequest, SignedFor
  <1> USE DEF IInv
  <1>3. QED
    BY <1>2, GraceKept

\* A rotation leaves the record of the pair it replaces, retained for longer
\* than the grace period, and the other rows keep theirs.
LEMMA GraceRotate ==
    ASSUME IInv, GInv, IInv', NEW r \in Req, RotateGrant(r)
    PROVE  GInv'
  <1> DEFINE h == req[r]
             g == h.grant
             n == serial + 1
             i == IssueJWT(g.id, n, g.client_id, now + JwtTTL, h.client,
                           g.our_refresh_token)
             row == RotatedRow(g, g.client_id, n, h.github)
             t == NewRetired(g.our_refresh_token, "rotated", g.client_id, n,
                             GraceExpiresAt)
  <1>0. h.pc = "store" /\ g \in Grant /\ serial \in Nat /\ now \in Nat
    BY HandlerFields DEF RotateGrant, IInv, TypeOK
  <1>1. /\ RowSound(g) /\ g.our_refresh_token = g.jti
        /\ \A x \in grants : x.jti = g.jti => x = g
    BY <1>0 DEF IInv, Requests, HandlerSound, RowSound
  <1>2. g \in grants /\ grants' = (grants \ {g}) \cup {row}
    <2>1. PICK x \in grants :
             /\ x.our_refresh_token = g.our_refresh_token
             /\ grants' = (grants \ {x}) \cup {RotatedRow(x, g.client_id, n, h.github)}
      BY DEF RotateGrant, RotateTarget, GetGrantByRefreshToken
    <2>2. x.jti = g.jti
      BY <1>1, <2>1 DEF IInv, TablesSound, GrantsSound, RowSound
    <2>3. QED
      BY <1>1, <2>1, <2>2
  <1>3. now' = now /\ issued' = issued \cup {i} /\ retired' = InsertRetired(t)
    BY DEF RotateGrant
  <1>4. i.id = g.id /\ i.jti = n
    BY DEF IssueJWT
  <1>5. /\ row.id = g.id /\ row.jti = n /\ row.client_id = g.client_id
        /\ row.jwt_expiry = now + JwtTTL
    BY <1>0 DEF RotatedRow, Grant
  <1>6. /\ t.token = g.jti /\ t.reason = "rotated" /\ t.client_id = g.client_id
        /\ t.replacement_jti = n /\ t.grace_expires_at = GraceExpiresAt
        /\ t.retained_until = now + Retention
    BY <1>1 DEF NewRetired
  <1>7. PICK k \in issued : SignedFor(g, k)
    BY <1>1 DEF RowSound
  <1> HIDE DEF i, row, t, g, h
  <1>8. \A j \in issued : j.jti \in Nat /\ j.jti <= serial
    BY <1>0 DEF IInv, TypeOK, TablesSound, IssuedBelowSerial, Jwt
  <1>9. ASSUME NEW x \in grants, x # g PROVE GraceSound(x)'
    <2>1. x.id # g.id
      BY <1>2, <1>9 DEF IInv, TablesSound, GrantsSound
    <2>2. \A j \in issued : j.id = x.id => j.jti # t.token
      BY <1>6, <1>7, <2>1 DEF IInv, TablesSound, JwtBoundToRequest, SignedFor
    <2>3. issued \subseteq issued' /\ \A j \in issued' : j.id = x.id => j \in issued
      BY <1>3, <1>4, <2>1
    <2>4. QED
      BY <1>3, <2>2, <2>3, GraceKept
  <1>10. ASSUME NEW x, x = row PROVE GraceSound(x)'
    <2>0. /\ x.id = g.id /\ x.jti = n /\ x.client_id = g.client_id
          /\ x.jwt_expiry = now + JwtTTL
      BY <1>5, <1>10
    <2> SUFFICES ASSUME now < GraceEnd(x), NEW p \in issued', Predecessor(x, p)'
                 PROVE  \E y \in retired' : RecordOf(y, p, x)
      BY <1>3 DEF GraceSound, GraceEnd, RecordOf
    <2>1. p \in issued /\ p.id = g.id
      <3>1. p.jti < n /\ p.id = g.id
        BY <2>0 DEF Predecessor
      <3>2. QED
        BY <1>0, <1>3, <1>4, <3>1
    <2>2. p.jti <= g.jti
      BY <1>2, <2>1 DEF IInv, TablesSound, GrantsSound
    <2>3. k \in issued /\ k.id = x.id /\ k.jti = g.jti /\ k.jti < x.jti
      BY <1>0, <1>7, <1>8, <2>0 DEF SignedFor
    <2>4. g.jti <= p.jti
      BY <1>3, <2>3 DEF Predecessor
    <2>5. p.jti = g.jti
      BY <1>8, <2>1, <2>2, <2>3, <2>4
    <2>6. GracePeriod > 0 /\ GraceExpiresAt = GraceEnd(x)
      BY <1>0, <2>0, DurationsAssumption DEF GraceEnd, GraceExpiresAt
    <2>7. t.retained_until >= t.grace_expires_at /\ t.retained_until >= now
      BY <1>0, <1>6, <2>6, DurationsAssumption DEF GraceExpiresAt
    <2>8. t \in retired'
      BY <1>3, <2>7 DEF InsertRetired
    <2>9. RecordOf(t, p, x)
      BY <1>6, <2>0, <2>5, <2>6, <2>7 DEF RecordOf
    <2>10. QED
      BY <2>8, <2>9
  <1>11. QED
    BY <1>2, <1>9, <1>10 DEF GInv

\* A step that leaves the rows, the records and what was signed alone.
LEMMA GraceStays ==
    ASSUME IInv, GInv, IInv', UNCHANGED <<now, grants, retired, issued>>
    PROVE  GInv'
  BY DEF GInv, GraceSound, GraceEnd, Predecessor, RecordOf

\* Every step of every actor keeps the records.
LEMMA GraceNext == IInv /\ IInv' /\ GInv /\ [Next]_vars => GInv'
  <1> SUFFICES ASSUME IInv, IInv', GInv, [Next]_vars PROVE GInv'
    OBVIOUS
  <1>1. ASSUME NEW r \in Req, Serve(r) PROVE GInv'
    <2>1. CASE RotateGrant(r)
      BY <2>1, GraceRotate
    <2>2. CASE DeleteGrant(r)
      <3> DEFINE g == req[r].grant
                 n == NewRetired(g.our_refresh_token, req[r].reason, g.client_id, 0, 0)
      <3>1. CASE DeleteTarget(g) = {}
        BY <2>2, <3>1, GraceStays DEF DeleteGrant
      <3>2. CASE DeleteTarget(g) # {}
        <4>1. \A x \in grants : x.jti = g.jti => x = g
          BY <2>2 DEF DeleteGrant, IInv, Requests, HandlerSound
        <4>2. g \in grants /\ DeleteTarget(g) = {g}
          BY <3>2, <4>1 DEF DeleteTarget, GetGrant
        <4>3. /\ grants' = grants \ {g} /\ retired' = InsertRetired(n)
              /\ now' = now /\ issued' = issued
          BY <2>2, <4>2 DEF DeleteGrant
        <4>4. n.token = g.our_refresh_token
          BY DEF NewRetired
        <4>5. QED
          BY <4>2, <4>3, <4>4, GraceRemoval
      <3>3. QED
        BY <3>1, <3>2
    <2>3. CASE GraceRetry(r)
      BY <2>3, GraceRetrySound, GraceStays DEF GraceRetry
    <2>4. CASE ~RotateGrant(r) /\ ~DeleteGrant(r) /\ ~GraceRetry(r)
      <3>1. UNCHANGED <<now, grants, retired, issued>>
        BY <1>1, <2>4
        DEF Serve, RefreshFound, RefreshNotFound, GitHubExpired, GitHubRejects,
            GitHubRotates, GitHubMissingRefresh, RotateGrantNotFound, StoreFails,
            RetiredLookup, RetiredRefused, GraceRefused, GraceUnbound,
            TearDownRevoke, TearDownRevokeFails, Fail, tables
      <3>2. QED
        BY <3>1, GraceStays
    <2>5. QED
      BY <2>1, <2>2, <2>3, <2>4
  <1>2. ASSUME NEW u \in User, NEW c \in Client, AuthCodeGrant(u, c) PROVE GInv'
    <2> DEFINE n == serial + 1
               i == IssueJWT(n, n, c, now + JwtTTL, c, 0)
               g == [id |-> n, jti |-> n, our_refresh_token |-> n,
                     client_id |-> c, user_id |-> u,
                     github |-> [id |-> n, gen |-> 1, exp |-> now + GitHubTTL],
                     jwt_expiry |-> now + JwtTTL]
    <2>1. i.id = n /\ i.jti = n /\ g.id = n /\ g.jti = n
      BY DEF IssueJWT
    <2>2. /\ issued' = issued \cup {i} /\ now' = now /\ retired' = retired
          /\ grants' = (grants \ PrunedByUpsert(u, c)) \cup {g}
      BY <1>2 DEF AuthCodeGrant
    <2> HIDE DEF i, g
    <2>3. \A x \in grants' : x \in grants \/ (x.id = n /\ x.jti = n)
      BY <2>1, <2>2
    <2>4. QED
      BY <2>1, <2>2, <2>3, GraceExchange
  <1>3. ASSUME NEW c \in Client, AuthCodeWithoutGrant(c) PROVE GInv'
    <2> DEFINE n == serial + 1
               i == IssueJWT(n, n, c, now + JwtTTL, c, 0)
    <2>1. i.id = n /\ i.jti = n
      BY DEF IssueJWT
    <2>2. /\ issued' = issued \cup {i} /\ now' = now /\ retired' = retired
          /\ grants' = grants
      BY <1>3 DEF AuthCodeWithoutGrant
    <2>3. QED
      BY <2>1, <2>2, GraceExchange
  <1>4. ASSUME NEW i \in issued, Logout(i) PROVE GInv'
    BY <1>4, GraceStays DEF Logout
  <1>5. ASSUME NEW g \in grants, RevokeOAuthGrantByID(g) PROVE GInv'
    <2> DEFINE n == NewRetired(g.our_refresh_token, "operator_revoked",
                               g.client_id, 0, 0)
    <2>1. n.token = g.our_refresh_token
      BY DEF NewRetired
    <2>2. /\ grants' = grants \ {g} /\ retired' = InsertRetired(n)
          /\ now' = now /\ issued' = issued
      BY <1>5 DEF RevokeOAuthGrantByID
    <2>3. QED
      BY <2>1, <2>2, GraceRemoval
  <1>6. ASSUME NEW t \in upstream, GitHubRevokes(t) PROVE GInv'
    BY <1>6, GraceStays DEF GitHubRevokes, tables
  <1>7. CASE Tick
    BY <1>7, GraceTick
  <1>8. CASE UNCHANGED vars
    BY <1>8, GraceStays DEF vars
  <1>9. QED
    BY <1>1, <1>2, <1>3, <1>4, <1>5, <1>6, <1>7, <1>8 DEF Next

\* Within the grace period a retry finds its record, whatever else was retired,
\* pruned or torn down in between.
THEOREM GraceRetryFinds == Spec => []GraceRetryAvailable
  <1>1. ASSUME IInv, GInv PROVE GraceRetryAvailable
    <2> SUFFICES ASSUME NEW g \in grants, NEW i \in issued, Predecessor(g, i),
                        g.client_id # NoClient, now < GraceEnd(g)
                 PROVE  \E t \in GetRetiredRefreshToken(i.jti) :
                           GraceEligible(t, g.client_id) /\ t.replacement_jti = g.jti
      BY DEF GraceRetryAvailable, Predecessor, GraceEnd
    <2>1. PICK t \in retired : RecordOf(t, i, g)
      BY <1>1 DEF GInv, GraceSound
    <2>2. /\ now \in Nat /\ g.jti \in Nat /\ i.jti \in Nat
          /\ t.grace_expires_at \in Nat /\ t.retained_until \in Nat
      BY <1>1 DEF IInv, TypeOK, Grant, Jwt, RetiredRefreshToken
    <2>3. /\ now < t.grace_expires_at /\ t.retained_until > now
      BY <2>1, <2>2 DEF RecordOf
    <2>4. g.jti # 0
      BY <2>2 DEF Predecessor
    <2>5. t \in GetRetiredRefreshToken(i.jti)
      BY <2>1, <2>3 DEF GetRetiredRefreshToken, RecordOf
    <2>6. GraceEligible(t, g.client_id)
      BY <2>1, <2>2, <2>3, <2>4 DEF GraceEligible, RecordOf
    <2>7. QED
      BY <2>1, <2>5, <2>6 DEF RecordOf
  <1>2. Spec => [](IInv /\ GInv)
    BY SoundInit, SoundNext, GraceInit, GraceNext, PTL DEF Spec
  <1>3. QED
    BY <1>1, <1>2, PTL

-----------------------------------------------------------------------------
(* The tear-down *)

\* A GitHub refresh token that has been handed out: of its authorization GitHub
\* accepts this one or later ones only.
Known(t) ==
    /\ t.id <= serial
    /\ \A u \in upstream : u.id = t.id => t.gen < u.gen \/ u = t

\* The row can no longer be refreshed.
Broken(g) ==
    g.github \notin upstream \/ now > g.github.exp \/ g.client_id = NoClient

\* What a handler remembers of GitHub.
HandlerUp(h) ==
    /\ h.pc \in {"github", "store", "revoke", "delete"} => Known(h.grant.github)
    /\ h.pc = "store" => Known(h.github)
    /\ h.pc \in {"revoke", "delete"} => Broken(h.grant)

UInv ==
    /\ \A t \in upstream : Known(t)
    /\ \A g \in grants : Known(g.github)
    /\ \A r \in Req : HandlerUp(req[r])

\* What every step keeps of a token once handed out: it stays known, and it is
\* never accepted again.
NeverBack ==
    /\ serial' \in Nat /\ serial <= serial' /\ now' \in Nat /\ now <= now'
    /\ \A t \in GitHubToken : Known(t) =>
          Known(t)' /\ (t \notin upstream => t \notin upstream')

\* The initial tokens are known, the upgraded database's included.
LEMMA UpstreamInit == Init => UInv
  <1>1. EmptyInit => UInv
    BY DEF EmptyInit, UInv, HandlerUp, Idle
  <1>2. ASSUME LegacyInit PROVE UInv
    <2> DEFINE gh == [id |-> 1, gen |-> 2, exp |-> GitHubTTL]
    <2>1. upstream = {gh} /\ serial = 2 /\ \A g \in grants : g.github = gh
      BY <1>2 DEF LegacyInit
    <2>2. Known(gh)
      BY <2>1 DEF Known
    <2>3. \A r \in Req : HandlerUp(req[r])
      BY <1>2 DEF LegacyInit, HandlerUp, Idle
    <2> HIDE DEF gh
    <2>4. QED
      BY <2>1, <2>2, <2>3 DEF UInv
  <1>3. QED
    BY <1>1, <1>2 DEF Init

\* GitHub may forget tokens.
LEMMA NeverBackForget ==
    ASSUME TypeOK, TypeOK', serial <= serial', now <= now', upstream' \subseteq upstream
    PROVE  NeverBack
  <1>1. serial \in Nat /\ serial' \in Nat /\ now' \in Nat
    BY DEF TypeOK
  <1>2. \A t \in GitHubToken : Known(t) => Known(t)'
    BY <1>1 DEF Known, GitHubToken
  <1>3. QED
    BY <1>1, <1>2 DEF NeverBack

\* GitHub may replace the token it accepts by its successor.
LEMMA NeverBackRotate ==
    ASSUME TypeOK, TypeOK', UInv, NEW old \in upstream, NEW new,
           new.id = old.id, new.gen = old.gen + 1,
           upstream' = (upstream \ {old}) \cup {new},
           serial' = serial, now' = now
    PROVE  NeverBack /\ Known(new)'
  <1>1. /\ serial \in Nat /\ now \in Nat
        /\ \A u \in upstream : u.id \in Nat /\ u.gen \in Nat
    BY DEF TypeOK, GitHubToken
  <1>2. \A u \in upstream : u.id = old.id => u = old
    BY <1>1 DEF UInv, Known
  <1>3. Known(new)'
    BY <1>2 DEF Known, UInv
  <1>4. ASSUME NEW t \in GitHubToken, Known(t)
        PROVE  Known(t)' /\ (t \notin upstream => t \notin upstream')
    <2>1. t.gen \in Nat
      BY DEF GitHubToken
    <2>2. t.id = new.id => t.gen < new.gen
      BY <1>1, <1>4, <2>1 DEF Known
    <2>3. t # new
      BY <1>1, <2>2
    <2>4. \A u \in upstream' : u.id = t.id => t.gen < u.gen \/ u = t
      BY <1>4, <2>2 DEF Known
    <2>5. QED
      BY <1>4, <2>3, <2>4 DEF Known
  <1>5. QED
    BY <1>1, <1>3, <1>4 DEF NeverBack

\* GitHub may begin a new authorization.
LEMMA NeverBackAuthorize ==
    ASSUME TypeOK, TypeOK', UInv, NEW new,
           new.id = serial + 1, serial' = serial + 1, now' = now,
           upstream' = upstream \cup {new}
    PROVE  NeverBack /\ Known(new)'
  <1>1. /\ serial \in Nat /\ now \in Nat
        /\ \A u \in upstream : u.id \in Nat /\ u.id <= serial
    BY DEF TypeOK, GitHubToken, UInv, Known
  <1>2. Known(new)'
    BY <1>1 DEF Known
  <1>3. ASSUME NEW t \in GitHubToken, Known(t)
        PROVE  Known(t)' /\ (t \notin upstream => t \notin upstream')
    <2>1. t.id \in Nat /\ t.id <= serial
      BY <1>3 DEF GitHubToken, Known
    <2>2. t.id # new.id /\ t.id <= serial'
      BY <1>1, <2>1
    <2>3. QED
      BY <1>3, <2>2 DEF Known
  <1>4. QED
    BY <1>1, <1>2, <1>3 DEF NeverBack

\* A step that adds no token and no row that were not known keeps both known.
LEMMA TokensKnown ==
    ASSUME TypeOK, UInv, NeverBack,
           \A t \in upstream' : t \in upstream \/ Known(t)',
           \A g \in grants' : g \in grants \/ Known(g.github)'
    PROVE  /\ \A t \in upstream' : Known(t)'
           /\ \A g \in grants' : Known(g.github)'
  <1>1. ASSUME NEW t \in upstream' PROVE Known(t)'
    <2>1. CASE t \in upstream
      BY <2>1 DEF TypeOK, UInv, NeverBack
    <2>2. QED
      BY <2>1
  <1>2. ASSUME NEW g \in grants' PROVE Known(g.github)'
    <2>1. CASE g \in grants
      BY <2>1 DEF TypeOK, UInv, NeverBack, Grant
    <2>2. QED
      BY <2>1
  <1>3. QED
    BY <1>1, <1>2

\* A handler's memory of GitHub outlives what the others do.
LEMMA HandlerUpStable ==
    ASSUME TypeOK, NeverBack, NEW r \in Req, HandlerUp(req[r]), req'[r] = req[r]
    PROVE  HandlerUp(req[r])'
  <1> DEFINE h == req[r]
  <1>1. h.pc \in {"github", "store", "revoke", "delete"} =>
           h.grant.github \in GitHubToken
    BY HandlerFields DEF Grant
  <1>2. h.pc \in {"github", "store", "revoke", "delete"} => Known(h.grant.github)'
    BY <1>1 DEF HandlerUp, NeverBack
  <1>3. h.pc = "store" => Known(h.github)'
    BY HandlerFields DEF HandlerUp, NeverBack
  <1>4. h.pc \in {"revoke", "delete"} => Broken(h.grant)'
    <2> SUFFICES ASSUME h.pc \in {"revoke", "delete"} PROVE Broken(h.grant)'
      OBVIOUS
    <2>1. Broken(h.grant) /\ Known(h.grant.github)
      BY DEF HandlerUp
    <2>2. CASE h.grant.github \notin upstream
      BY <1>1, <2>1, <2>2 DEF NeverBack, Broken
    <2>3. CASE now > h.grant.github.exp
      <3>1. h.grant.github.exp \in Nat /\ now \in Nat
        BY <1>1 DEF GitHubToken, TypeOK
      <3>2. now' > h.grant.github.exp
        BY <2>3, <3>1 DEF NeverBack
      <3>3. QED
        BY <3>2 DEF Broken
    <2>4. CASE h.grant.client_id = NoClient
      BY <2>4 DEF Broken
    <2>5. QED
      BY <2>1, <2>2, <2>3, <2>4 DEF Broken
  <1>5. QED
    BY <1>2, <1>3, <1>4 DEF HandlerUp

\* One request moves and its new memory is sound.
LEMMA HandlersUp ==
    ASSUME TypeOK, UInv, NeverBack, NEW r \in Req, NEW h, Goto(r, h), HandlerUp(h)'
    PROVE  \A q \in Req : HandlerUp(req[q])'
  <1>1. req'[r] = h /\ \A q \in Req \ {r} : req'[q] = req[q]
    BY GotoOthers
  <1>2. HandlerUp(req[r])'
    BY <1>1 DEF HandlerUp
  <1>3. ASSUME NEW q \in Req \ {r} PROVE HandlerUp(req[q])'
    BY <1>1, HandlerUpStable DEF UInv
  <1>4. QED
    BY <1>2, <1>3

\* A step that leaves GitHub, the clock and the rows alone: the request it
\* moves, if it remembers a row, read it now or remembered it before.
LEMMA UpstreamSame ==
    ASSUME TypeOK, TypeOK', UInv, NEW r \in Req, NEW h, Goto(r, h),
           UNCHANGED <<now, serial, upstream>>, grants' \subseteq grants,
           h.pc # "store",
           h.pc \in {"github", "revoke", "delete"} => Known(h.grant.github),
           h.pc \in {"revoke", "delete"} => Broken(h.grant)
    PROVE  UInv'
  <1>1. NeverBack
    BY NeverBackForget DEF TypeOK
  <1>2. HandlerUp(h)'
    BY DEF HandlerUp, Known, Broken
  <1>3. \A q \in Req : HandlerUp(req[q])'
    BY <1>1, <1>2, HandlersUp
  <1>4. QED
    BY <1>1, <1>3, TokensKnown DEF UInv

\* A step of one request keeps what is known of GitHub.
LEMMA UpstreamServe ==
    ASSUME IInv, TypeOK', UInv, NEW r \in Req, Serve(r)
    PROVE  UInv'
  <1> DEFINE h == req[r]
  <1>0. TypeOK /\ HandlerUp(h) /\ serial \in Nat /\ now \in Nat
    BY DEF IInv, UInv, TypeOK
  <1>1. ASSUME NEW token \in 1 .. serial, NEW c \in Client,
               RefreshFound(r, token, c)
        PROVE  UInv'
    <2>1. PICK g \in grants :
             \/ /\ g.client_id = NoClient
                /\ Goto(r, [pc |-> "revoke", grant |-> g, reason |-> "client_binding_missing"])
             \/ Goto(r, [pc |-> "github", grant |-> g, client |-> c])
      BY <1>1 DEF RefreshFound, GetGrantByRefreshToken
    <2>2. Known(g.github)
      BY DEF UInv
    <2>3. QED
      BY <1>0, <1>1, <2>1, <2>2, UpstreamSame DEF RefreshFound, tables, Broken
  <1>2. ASSUME NEW token \in 1 .. serial, NEW c \in Client,
               RefreshNotFound(r, token, c)
        PROVE  UInv'
    BY <1>0, <1>2, UpstreamSame DEF RefreshNotFound, tables
  <1>3. CASE GitHubExpired(r) \/ GitHubRejects(r)
    <2>1. Known(h.grant.github) /\ Broken(h.grant)
      BY <1>0, <1>3 DEF GitHubExpired, GitHubRejects, HandlerUp, Broken
    <2>2. PICK x : /\ Goto(r, x) /\ x.pc = "revoke" /\ x.grant = h.grant
      BY <1>3 DEF GitHubExpired, GitHubRejects
    <2>3. UNCHANGED <<now, serial, upstream, grants>>
      BY <1>3 DEF GitHubExpired, GitHubRejects, tables
    <2>4. QED
      BY <1>0, <2>1, <2>2, <2>3, UpstreamSame
  <1>4. CASE GitHubRotates(r)
    <2> DEFINE old == h.grant.github
               new == [id |-> old.id, gen |-> old.gen + 1, exp |-> now + GitHubTTL]
               x == [pc |-> "store", grant |-> h.grant, client |-> h.client,
                     github |-> new]
    <2>1. /\ h.pc = "github" /\ old \in upstream
          /\ upstream' = (upstream \ {old}) \cup {new}
          /\ Goto(r, x) /\ UNCHANGED <<now, serial, grants>>
      BY <1>4 DEF GitHubRotates, tables
    <2>2. new.id = old.id /\ new.gen = old.gen + 1
      OBVIOUS
    <2>3. x.pc = "store" /\ x.grant = h.grant /\ x.github = new
      OBVIOUS
    <2>4. old \in GitHubToken /\ Known(old)
      BY <1>0, <2>1 DEF TypeOK, HandlerUp
    <2>5. PICK y : y = new
      OBVIOUS
    <2>6. PICK z : z = x
      OBVIOUS
    <2>7. PICK o : o = old
      OBVIOUS
    <2> HIDE DEF old, new, x, h
    <2>9. NeverBack /\ Known(y)'
      BY <1>0, <2>1, <2>2, <2>5, <2>7, NeverBackRotate
    <2>10. Known(o)'
      BY <2>4, <2>7, <2>9 DEF NeverBack
    <2>11. HandlerUp(z)'
      <3>1. z.pc = "store" /\ z.grant.github = o /\ z.github = y
        BY <2>3, <2>5, <2>6, <2>7 DEF old
      <3>2. QED
        BY <2>9, <2>10, <3>1 DEF HandlerUp
    <2>12. \A q \in Req : HandlerUp(req[q])'
      BY <1>0, <2>1, <2>6, <2>9, <2>11, HandlersUp
    <2>13. QED
      BY <1>0, <2>1, <2>5, <2>9, <2>12, TokensKnown DEF UInv
  <1>5. CASE GitHubMissingRefresh(r)
    <2> DEFINE x == [pc |-> "revoke", grant |-> h.grant,
                     reason |-> "github_missing_refresh"]
    <2>1. /\ h.pc = "github" /\ upstream' = upstream \ {h.grant.github}
          /\ Goto(r, x) /\ UNCHANGED <<now, serial, grants>>
      BY <1>5 DEF GitHubMissingRefresh, tables
    <2>2. NeverBack
      BY <1>0, <2>1, NeverBackForget
    <2>3. PICK g \in Grant : g = h.grant
      BY <1>0, <2>1, HandlerFields
    <2>4. Known(g.github)'
      BY <1>0, <2>1, <2>2, <2>3 DEF HandlerUp, NeverBack, Grant
    <2>5. Broken(g)'
      BY <2>1, <2>3 DEF Broken
    <2>6. PICK z : z = x
      OBVIOUS
    <2>7. z.pc = "revoke" /\ z.grant = g
      BY <2>3, <2>6
    <2>8. HandlerUp(z)'
      BY <2>4, <2>5, <2>7 DEF HandlerUp
    <2>9. \A q \in Req : HandlerUp(req[q])'
      BY <1>0, <2>1, <2>2, <2>6, <2>8, HandlersUp
    <2>10. QED
      BY <1>0, <2>1, <2>2, <2>9, TokensKnown DEF UInv
  <1>6. CASE RotateGrant(r)
    <2>1. PICK g \in grants, row \in Grant, t \in GitHubToken :
             /\ grants' = (grants \ {g}) \cup {row}
             /\ row.github = t /\ t = h.github
      <3>1. PICK g \in grants :
               grants' = (grants \ {g}) \cup
                         {RotatedRow(g, h.grant.client_id, serial + 1, h.github)}
        BY <1>6 DEF RotateGrant, RotateTarget, GetGrantByRefreshToken
      <3>2. h.github \in GitHubToken /\ h.grant \in Grant
        BY <1>0, <1>6, HandlerFields DEF RotateGrant
      <3>3. RotatedRow(g, h.grant.client_id, serial + 1, h.github).github = h.github
        BY <1>0 DEF RotatedRow, TypeOK, Grant
      <3>4. RotatedRow(g, h.grant.client_id, serial + 1, h.github) \in Grant
        BY <3>1 DEF TypeOK
      <3>5. QED
        BY <3>1, <3>2, <3>3, <3>4
    <2>2. /\ h.pc = "store" /\ Goto(r, Idle) /\ serial' = serial + 1
          /\ UNCHANGED <<now, upstream>>
      BY <1>6 DEF RotateGrant
    <2>3. NeverBack
      BY <1>0, <2>2, NeverBackForget
    <2>4. Known(t)'
      BY <1>0, <2>1, <2>2, <2>3 DEF HandlerUp, NeverBack
    <2>5. HandlerUp(Idle)'
      BY DEF HandlerUp, Idle
    <2>6. \A q \in Req : HandlerUp(req[q])'
      BY <1>0, <2>2, <2>3, <2>5, HandlersUp
    <2>7. QED
      BY <1>0, <2>1, <2>2, <2>3, <2>4, <2>6, TokensKnown DEF UInv
  <1>7. CASE \/ RotateGrantNotFound(r) \/ StoreFails(r) \/ RetiredRefused(r)
             \/ GraceRefused(r) \/ Fail(r) \/ GraceRetry(r) \/ DeleteGrant(r)
    <2>1. /\ Goto(r, Idle) /\ UNCHANGED <<now, serial, upstream>>
          /\ grants' \subseteq grants
      BY <1>7
      DEF RotateGrantNotFound, StoreFails, RetiredRefused, GraceRefused, Fail,
          GraceRetry, DeleteGrant, tables
    <2>2. QED
      BY <1>0, <2>1, UpstreamSame DEF Idle
  <1>8. CASE RetiredLookup(r)
    <2>1. PICK x : Goto(r, x) /\ x.pc = "replacement"
      BY <1>8 DEF RetiredLookup
    <2>2. QED
      BY <1>0, <1>8, <2>1, UpstreamSame DEF RetiredLookup, tables
  <1>9. CASE GraceUnbound(r)
    <2>1. PICK g \in grants :
             /\ g.client_id = NoClient
             /\ Goto(r, [pc |-> "revoke", grant |-> g, reason |-> "client_binding_missing"])
      BY <1>9 DEF GraceUnbound, GetGrant
    <2>2. Known(g.github) /\ Broken(g)
      BY <2>1 DEF UInv, Broken
    <2>3. QED
      BY <1>0, <1>9, <2>1, <2>2, UpstreamSame DEF GraceUnbound, tables
  <1>10. CASE TearDownRevoke(r) \/ TearDownRevokeFails(r)
    <2>1. /\ h.pc = "revoke" /\ UNCHANGED <<now, serial, upstream, grants>>
          /\ Goto(r, [pc |-> "delete", grant |-> h.grant, reason |-> h.reason])
      BY <1>10 DEF TearDownRevoke, TearDownRevokeFails, tables
    <2>2. Known(h.grant.github) /\ Broken(h.grant)
      BY <1>0, <2>1 DEF HandlerUp
    <2>3. PICK x : /\ Goto(r, x) /\ x.pc = "delete" /\ x.grant = h.grant
      BY <2>1
    <2>4. QED
      BY <1>0, <2>1, <2>2, <2>3, UpstreamSame
  <1>11. QED
    BY <1>1, <1>2, <1>3, <1>4, <1>5, <1>6, <1>7, <1>8, <1>9, <1>10 DEF Serve

\* Every step of every actor keeps what is known of GitHub.
LEMMA UpstreamNext == IInv /\ TypeOK' /\ UInv /\ [Next]_vars => UInv'
  <1> SUFFICES ASSUME IInv, TypeOK', UInv, [Next]_vars PROVE UInv'
    OBVIOUS
  <1>0. TypeOK /\ serial \in Nat /\ now \in Nat
    BY DEF IInv, TypeOK
  <1>1. ASSUME NEW r \in Req, Serve(r) PROVE UInv'
    BY <1>1, UpstreamServe
  <1>a. ASSUME NeverBack, req' = req PROVE \A q \in Req : HandlerUp(req[q])'
    BY <1>0, <1>a, HandlerUpStable DEF UInv
  <1>2. ASSUME NEW u \in User, NEW c \in Client, AuthCodeGrant(u, c) PROVE UInv'
    <2>1. PICK gh, g : /\ gh.id = serial + 1 /\ g.github = gh
                       /\ upstream' = upstream \cup {gh}
                       /\ grants' = (grants \ PrunedByUpsert(u, c)) \cup {g}
      BY <1>2 DEF AuthCodeGrant
    <2>2. serial' = serial + 1 /\ now' = now /\ req' = req
      BY <1>2 DEF AuthCodeGrant
    <2>3. NeverBack /\ Known(gh)'
      BY <1>0, <2>1, <2>2, NeverBackAuthorize
    <2>4. QED
      BY <1>0, <1>a, <2>1, <2>2, <2>3, TokensKnown DEF UInv
  <1>3. ASSUME /\ serial <= serial' /\ now <= now' /\ upstream' \subseteq upstream
               /\ grants' \subseteq grants /\ req' = req
        PROVE  UInv'
    <2>1. NeverBack
      BY <1>0, <1>3, NeverBackForget
    <2>2. QED
      BY <1>0, <1>3, <1>a, <2>1, TokensKnown DEF UInv
  <1>4. ASSUME NEW c \in Client, AuthCodeWithoutGrant(c) PROVE UInv'
    BY <1>0, <1>3, <1>4 DEF AuthCodeWithoutGrant
  <1>5. ASSUME NEW i \in issued, Logout(i) PROVE UInv'
    BY <1>0, <1>3, <1>5 DEF Logout
  <1>6. ASSUME NEW g \in grants, RevokeOAuthGrantByID(g) PROVE UInv'
    BY <1>0, <1>3, <1>6 DEF RevokeOAuthGrantByID
  <1>7. ASSUME NEW t \in upstream, GitHubRevokes(t) PROVE UInv'
    BY <1>0, <1>3, <1>7 DEF GitHubRevokes, tables
  <1>8. CASE Tick
    BY <1>0, <1>3, <1>8 DEF Tick, tables
  <1>9. CASE UNCHANGED vars
    BY <1>0, <1>3, <1>9 DEF vars
  <1>10. QED
    BY <1>1, <1>2, <1>4, <1>5, <1>6, <1>7, <1>8, <1>9 DEF Next

\* A tear-down deletes the row its request read, and nothing that happened
\* since then can have made that row work again.
THEOREM TearDownSafe == Spec => TearDownOnlyBroken
  <1>1. ASSUME IInv, UInv, NEW r \in Req, req[r].pc = "delete", DeleteGrant(r),
               NEW g \in grants \ grants'
        PROVE  /\ g = req[r].grant
               /\ \/ g.github \notin upstream
                  \/ now > g.github.exp
                  \/ g.client_id = NoClient
    <2>1. g.jti = req[r].grant.jti
      BY <1>1 DEF DeleteGrant, DeleteTarget, GetGrant
    <2>2. g = req[r].grant
      BY <1>1, <2>1 DEF IInv, Requests, HandlerSound
    <2>3. Broken(g)
      BY <1>1, <2>2 DEF UInv, HandlerUp
    <2>4. QED
      BY <2>2, <2>3 DEF Broken
  <1>2. IInv /\ UInv /\ [Next]_vars =>
           [\A r \in Req :
               req[r].pc = "delete" /\ DeleteGrant(r) =>
                  \A g \in grants \ grants' :
                     /\ g = req[r].grant
                     /\ \/ g.github \notin upstream
                        \/ now > g.github.exp
                        \/ g.client_id = NoClient]_vars
    BY <1>1
  <1>3. Spec => [](IInv /\ UInv)
    <2>1. IInv => TypeOK
      BY DEF IInv
    <2>2. QED
      BY <2>1, SoundInit, SoundNext, TypeNext, UpstreamInit, UpstreamNext, PTL DEF Spec
  <1>4. QED
    BY <1>2, <1>3, PTL DEF Spec, TearDownOnlyBroken
=============================================================================

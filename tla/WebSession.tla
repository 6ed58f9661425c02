----------------------------- MODULE WebSession -----------------------------
(***************************************************************************)
(* Dashboard sessions: the login callback, the session middleware, logout  *)
(* and the operator's revocation of internal/server (ui_auth.go,           *)
(* ui_service.go) over the table web_sessions of the PostgreSQL store.     *)
(*                                                                         *)
(* Every statement is one step and every reading of the server's clock     *)
(* another, so that requests interleave between what they read and what    *)
(* they write.  A touch is two steps: PostgreSQL's now() is fixed when the *)
(* statement begins, and the row is updated once no transaction holds its  *)
(* lock.  The operator's transaction holds the row from SELECT ... FOR     *)
(* UPDATE to COMMIT.                                                       *)
(*                                                                         *)
(* Data abstraction.  A session's id, its token and the hash of the token  *)
(* are one value, and a login attempt stands for its state, verifier and   *)
(* authorization code, whose flow is AuthCodeFlow's.  A request may carry  *)
(* the cookie of any session ever issued, as a browser or a copied cookie  *)
(* would.  Server and database share one clock.                            *)
(***************************************************************************)
EXTENDS Integers, FiniteSets

CONSTANTS
    Session,        \* web_sessions.id values
    Login,          \* login attempts
    OperatorLogin,  \* those whose user is on the operator list
    Request,        \* concurrent requests
    None,           \* no session, login or lock holder
    IdleTTL,        \* uiSessionIdleTTL
    TTL,            \* uiSessionTTL
    TouchInterval,  \* uiSessionTouchInterval
    MaxTime         \* bound: the last instant

\* server.New refuses an idle lifetime above the absolute one.
ASSUME LifetimeAssumption ==
    /\ TTL \in Nat \ {0}
    /\ IdleTTL \in 1..TTL
    /\ TouchInterval \in Nat \ {0}

ASSUME SessionBoundsAssumption ==
    /\ MaxTime \in Nat
    /\ OperatorLogin \subseteq Login
    /\ None \notin Session \cup Login \cup Request

VARIABLES
    now,      \* the clock
    attempt,  \* login attempts: "none", "open" (its code is unused) or "used"
    row,      \* table web_sessions; None where there is no row
    lock,     \* the request whose transaction holds the row
    actions,  \* number of operator_actions rows that name the session
    origin,   \* history: the login attempt that created the session
    req       \* the handlers' local state

vars == <<now, attempt, row, lock, actions, origin, req>>

-----------------------------------------------------------------------------
(* Records *)

WebSession ==
    [created_at : Nat, last_seen_at : Nat, idle_expires_at : Nat,
     expires_at : Nat, revoked : BOOLEAN]

Kind == {"rpc", "revoke", "logout", "callback"}

Stage == {"start", "loaded", "touch", "touching", "serve", "locked",
          "exchanged", "done"}

\* The response: a page, result or redirect; 401 with the cookie cleared; the
\* RPC's NotFound; any other failure.
Answer == {"none", "ok", "unauthorized", "not_found", "failed", "logged"}

\* seen, loaded, at and started are the handler's locals: the row's last_seen_at,
\* when it was read, the server's clock and the now() of the touch statement.
Handler ==
    [stage : Stage, kind : Kind, session : Session \cup {None},
     target : Session \cup {None}, login : Login \cup {None}, answer : Answer,
     seen : Nat, loaded : Nat, at : Nat, started : Nat]

Idle == [stage |-> "done", kind |-> "rpc", session |-> None, target |-> None,
         login |-> None, answer |-> "none",
         seen |-> 0, loaded |-> 0, at |-> 0, started |-> 0]

-----------------------------------------------------------------------------
(* Helpers *)

Least(a, b) == IF a <= b THEN a ELSE b

\* Mutant: the clause looks at the absolute deadline only.
LiveAt_NoIdle(s, t) ==
    /\ row[s] # None
    /\ ~row[s].revoked
    /\ row[s].expires_at > t

\* The WHERE clause shared by GetWebSessionByTokenHash, TouchWebSession and,
\* negated, the pruning of CreateWebSession.
LiveAt(s, t) ==
    /\ row[s] # None
    /\ ~row[s].revoked
    /\ row[s].idle_expires_at > t
    /\ row[s].expires_at > t

\* Mutant: the operator's SELECT takes no lock that others wait for.
Unlocked_Always(s) == TRUE

Unlocked(s) == lock[s] = None

At(r, stage) == req[r].stage = stage

Goto(r, stage) == req' = [req EXCEPT ![r].stage = stage]

\* The handler returns; only its answer is remembered.
Reply(r, answer) == req' = [req EXCEPT ![r] = [Idle EXCEPT !.answer = answer]]

-----------------------------------------------------------------------------
(* Requests *)

Begin(r, h) ==
    /\ At(r, "done")
    /\ req' = [req EXCEPT ![r] = [h EXCEPT !.stage = "start"]]
    /\ UNCHANGED <<now, attempt, row, lock, actions, origin>>

\* A request of an issued cookie: an RPC, logout, or the operator's revocation
\* of session t.
SendCookie(r, kind, s, t) ==
    /\ origin[s] # None
    /\ kind = "revoke" <=> t # None
    /\ t # None => origin[t] # None
    /\ Begin(r, [Idle EXCEPT !.kind = kind, !.session = s, !.target = t])

\* The browser follows the redirect of the authorization server, perhaps twice.
SendCallback(r, l) ==
    /\ attempt[l] # "none"
    /\ Begin(r, [Idle EXCEPT !.kind = "callback", !.login = l])

\* loginHandler begins an attempt; its code is issued by AuthCodeFlow.
StartLogin(l) ==
    /\ attempt[l] = "none"
    /\ attempt' = [attempt EXCEPT ![l] = "open"]
    /\ UNCHANGED <<now, row, lock, actions, origin, req>>

\* Mutant: the code is checked but not spent.
ExchangeUICode_KeepsCode(r) ==
    LET l == req[r].login IN
    /\ req[r].kind = "callback" /\ At(r, "start")
    /\ \/ /\ attempt[l] = "open"
          /\ UNCHANGED attempt
          /\ req' = [req EXCEPT ![r].stage = "exchanged", ![r].at = now]
       \/ /\ attempt' \in {attempt, [attempt EXCEPT ![l] = "used"]}
          /\ Reply(r, "failed")
    /\ UNCHANGED <<now, row, lock, actions, origin>>

\* exchangeUICode spends the code, then the callback reads the clock.  A bad
\* state, a missing cookie, a used code or an access token that cannot be verified
\* ends the callback, before or after the code is spent.
ExchangeUICode(r) ==
    LET l == req[r].login IN
    /\ req[r].kind = "callback" /\ At(r, "start")
    /\ \/ /\ attempt[l] = "open"
          /\ attempt' = [attempt EXCEPT ![l] = "used"]
          /\ req' = [req EXCEPT ![r].stage = "exchanged", ![r].at = now]
       \/ /\ attempt' \in {attempt, [attempt EXCEPT ![l] = "used"]}
          /\ Reply(r, "failed")
    /\ UNCHANGED <<now, row, lock, actions, origin>>

\* The inserted row: times of the database, deadlines from the server's clock.
NewSession(at) ==
    [created_at |-> now, last_seen_at |-> now,
     idle_expires_at |-> at + IdleTTL, expires_at |-> at + TTL, revoked |-> FALSE]

\* One statement prunes the dead rows and inserts the new one, whose lifetimes
\* are counted from the clock the callback read.
CreateWebSession(r) ==
    LET dead == {s \in Session : row[s] # None /\ ~LiveAt(s, now)} IN
    /\ At(r, "exchanged")
    /\ \A s \in dead : Unlocked(s)
    /\ \E s \in Session :
        /\ origin[s] = None
        /\ origin' = [origin EXCEPT ![s] = req[r].login]
        /\ row' = [t \in Session |->
                    IF t = s THEN NewSession(req[r].at)
                    ELSE IF t \in dead THEN None ELSE row[t]]
    /\ Reply(r, "ok")
    /\ UNCHANGED <<now, attempt, lock, actions>>

\* Mutant: a failed lookup is answered like a missing session.
GetWebSessionByTokenHash_Clears(r) ==
    LET s == req[r].session IN
    /\ req[r].kind \in {"rpc", "revoke"} /\ At(r, "start")
    /\ \/ /\ LiveAt(s, now)
          /\ req' = [req EXCEPT ![r].stage = "loaded", ![r].loaded = now,
                                ![r].seen = row[s].last_seen_at]
       \/ Reply(r, "unauthorized")
    /\ UNCHANGED <<now, attempt, row, lock, actions, origin>>

\* uiAuthMiddleware reads the live row of the cookie, or refuses the request.
GetWebSessionByTokenHash(r) ==
    LET s == req[r].session IN
    /\ req[r].kind \in {"rpc", "revoke"} /\ At(r, "start")
    /\ \/ /\ LiveAt(s, now)
          /\ req' = [req EXCEPT ![r].stage = "loaded", ![r].loaded = now,
                                ![r].seen = row[s].last_seen_at]
       \/ /\ ~LiveAt(s, now)
          /\ Reply(r, "unauthorized")
    /\ UNCHANGED <<now, attempt, row, lock, actions, origin>>

\* The middleware reads the clock and decides from the row it holds whether to
\* touch the session.
CheckTouch(r) ==
    /\ At(r, "loaded")
    /\ \/ /\ now - req[r].seen >= TouchInterval
          /\ req' = [req EXCEPT ![r].stage = "touch", ![r].at = now]
       \/ /\ now - req[r].seen < TouchInterval
          /\ Goto(r, "serve")
    /\ UNCHANGED <<now, attempt, row, lock, actions, origin>>

\* The touch reaches the database, where now() is fixed.
StartTouch(r) ==
    /\ At(r, "touch")
    /\ req' = [req EXCEPT ![r].stage = "touching", ![r].started = now]
    /\ UNCHANGED <<now, attempt, row, lock, actions, origin>>

\* Mutant: the idle deadline is not capped.
TouchWebSession_Uncapped(r) ==
    LET s == req[r].session IN
    /\ At(r, "touching")
    /\ Unlocked(s)
    /\ \/ /\ LiveAt(s, req[r].started)
          /\ row' = [row EXCEPT ![s].last_seen_at = req[r].at,
                                ![s].idle_expires_at = req[r].at + IdleTTL]
          /\ Goto(r, "serve")
       \/ /\ ~LiveAt(s, req[r].started)
          /\ Reply(r, "unauthorized")
          /\ UNCHANGED row
    /\ UNCHANGED <<now, attempt, lock, actions, origin>>

\* Mutant: a touch that finds no live row is tried again.
TouchWebSession_Retries(r) ==
    LET s == req[r].session IN
    /\ At(r, "touching")
    /\ Unlocked(s)
    /\ \/ /\ LiveAt(s, req[r].started)
          /\ row' = [row EXCEPT
                ![s].last_seen_at = req[r].at,
                ![s].idle_expires_at = Least(req[r].at + IdleTTL, row[s].expires_at)]
          /\ Goto(r, "serve")
       \/ /\ ~LiveAt(s, req[r].started)
          /\ Goto(r, "touch")
          /\ UNCHANGED row
    /\ UNCHANGED <<now, attempt, lock, actions, origin>>

\* Mutant: the touch asks for the lifetimes only, and saves the session as the
\* middleware found it.
TouchWebSession_SavesLoaded(r) ==
    LET s == req[r].session
        unexpired == row[s] # None /\ row[s].idle_expires_at > req[r].started
    IN
    /\ At(r, "touching")
    /\ Unlocked(s)
    /\ \/ /\ unexpired
          /\ row' = [row EXCEPT ![s] =
                [@ EXCEPT !.last_seen_at = req[r].at, !.revoked = FALSE,
                          !.idle_expires_at = Least(req[r].at + IdleTTL, @.expires_at)]]
          /\ Goto(r, "serve")
       \/ /\ ~unexpired
          /\ Reply(r, "unauthorized")
          /\ UNCHANGED row
    /\ UNCHANGED <<now, attempt, lock, actions, origin>>

\* TouchWebSession updates the row if it is still live, else the request is
\* refused although the middleware had found the session.
TouchWebSession(r) ==
    LET s == req[r].session IN
    /\ At(r, "touching")
    /\ Unlocked(s)
    /\ \/ /\ LiveAt(s, req[r].started)
          /\ row' = [row EXCEPT
                ![s].last_seen_at = req[r].at,
                ![s].idle_expires_at = Least(req[r].at + IdleTTL, row[s].expires_at)]
          /\ Goto(r, "serve")
       \/ /\ ~LiveAt(s, req[r].started)
          /\ Reply(r, "unauthorized")
          /\ UNCHANGED row
    /\ UNCHANGED <<now, attempt, lock, actions, origin>>

\* An RPC that only reads is answered with the session the middleware found.
ServeRPC(r) ==
    /\ req[r].kind = "rpc" /\ At(r, "serve")
    /\ Reply(r, "ok")
    /\ UNCHANGED <<now, attempt, row, lock, actions, origin>>

\* Mutant: logout clears the cookie only.
Logout_CookieOnly(r) ==
    /\ req[r].kind = "logout" /\ At(r, "start")
    /\ Reply(r, "ok")
    /\ UNCHANGED <<now, attempt, row, lock, actions, origin>>

\* The table after RevokeWebSessionByTokenHash, which revokes a row expired or not.
RevokedByTokenHash(s) ==
    IF row[s] # None THEN [row EXCEPT ![s].revoked = TRUE] ELSE row

\* uiLogoutHandler revokes the session of the cookie and clears the cookie.
Logout(r) ==
    LET s == req[r].session IN
    /\ req[r].kind = "logout" /\ At(r, "start")
    /\ Unlocked(s)
    /\ row' = RevokedByTokenHash(s)
    /\ Reply(r, "ok")
    /\ UNCHANGED <<now, attempt, lock, actions, origin>>

\* The operatorAuthorizer knows operators by their GitHub id.
Allows(s) == origin[s] \in OperatorLogin

\* RevokeOperationsWebSession refuses who is no operator, and the current session.
RevokeRefused(r) ==
    /\ req[r].kind = "revoke" /\ At(r, "serve")
    /\ ~Allows(req[r].session) \/ req[r].target = req[r].session
    /\ Reply(r, "failed")
    /\ UNCHANGED <<now, attempt, row, lock, actions, origin>>

\* RevokeWebSessionByID: SELECT ... FOR UPDATE waits for the row and, unless the
\* session is already revoked, holds it.
RevokeSelect(r) ==
    LET t == req[r].target IN
    /\ req[r].kind = "revoke" /\ At(r, "serve")
    /\ Allows(req[r].session) /\ t # req[r].session
    /\ Unlocked(t)
    /\ \/ /\ row[t] = None
          /\ Reply(r, "not_found")
          /\ UNCHANGED lock
       \/ /\ row[t] # None /\ row[t].revoked
          /\ Reply(r, "ok")
          /\ UNCHANGED lock
       \/ /\ row[t] # None /\ ~row[t].revoked
          /\ Goto(r, "locked")
          /\ lock' = [lock EXCEPT ![t] = r]
    /\ UNCHANGED <<now, attempt, row, actions, origin>>

\* The transaction revokes the session, records the operator's action, commits.
RevokeCommit(r) ==
    LET t == req[r].target IN
    /\ At(r, "locked")
    /\ row' = [row EXCEPT ![t].revoked = TRUE]
    /\ actions' = [actions EXCEPT ![t] = @ + 1]
    /\ lock' = [s \in Session |-> IF lock[s] = r THEN None ELSE lock[s]]
    /\ Reply(r, "ok")
    /\ UNCHANGED <<now, attempt, origin>>

\* A statement fails: the transaction rolls back and the handler answers 500
\* without clearing the cookie; logout only logs the error and answers as if
\* it had succeeded, here told apart as "logged".
StatementFails(r) ==
    /\ ~At(r, "done") /\ ~At(r, "loaded") /\ ~At(r, "touch")
    /\ req[r].kind = "callback" => At(r, "exchanged")
    /\ req[r].kind = "rpc" => ~At(r, "serve")
    /\ Reply(r, IF req[r].kind = "logout" THEN "logged" ELSE "failed")
    /\ lock' = [s \in Session |-> IF lock[s] = r THEN None ELSE lock[s]]
    /\ UNCHANGED <<now, attempt, row, actions, origin>>

Tick ==
    /\ now < MaxTime
    /\ now' = now + 1
    /\ UNCHANGED <<attempt, row, lock, actions, origin, req>>

-----------------------------------------------------------------------------
(* Specification *)

Init ==
    /\ now = 0
    /\ attempt = [l \in Login |-> "none"]
    /\ row = [s \in Session |-> None]
    /\ lock = [s \in Session |-> None]
    /\ actions = [s \in Session |-> 0]
    /\ origin = [s \in Session |-> None]
    /\ req = [r \in Request |-> Idle]

\* One step of a handler that has begun.
Work(r) ==
    \/ ExchangeUICode(r) \/ CreateWebSession(r)
    \/ GetWebSessionByTokenHash(r) \/ CheckTouch(r)
    \/ StartTouch(r) \/ TouchWebSession(r) \/ ServeRPC(r)
    \/ Logout(r) \/ RevokeRefused(r) \/ RevokeSelect(r) \/ RevokeCommit(r)

Send(r) ==
    \/ \E kind \in Kind \ {"callback"}, s \in Session, t \in Session \cup {None} :
        SendCookie(r, kind, s, t)
    \/ \E l \in Login : SendCallback(r, l)

Next ==
    \/ Tick
    \/ \E l \in Login : StartLogin(l)
    \/ \E r \in Request : Send(r) \/ Work(r) \/ StatementFails(r)

Spec == Init /\ [][Next]_vars

\* A handler that has begun goes on: the server runs each request in a goroutine
\* of its own, a transaction always ends, and PostgreSQL serves the statements that
\* wait for a row in turn (hence strong fairness).  Nobody has to send a request.
FairSpec == Spec /\ \A r \in Request : SF_vars(Work(r))

-----------------------------------------------------------------------------
(* Properties *)

TypeOK ==
    /\ now \in Nat
    /\ attempt \in [Login -> {"none", "open", "used"}]
    /\ row \in [Session -> WebSession \cup {None}]
    /\ lock \in [Session -> Request \cup {None}]
    /\ actions \in [Session -> Nat]
    /\ origin \in [Session -> Login \cup {None}]
    /\ req \in [Request -> Handler]

\* The table's CHECK (idle_expires_at <= expires_at) never fails a touch, and the
\* idle deadline never runs past the recorded activity by more than IdleTTL,
\* however touches with older clocks overtake each other.
DeadlinesBounded ==
    \A s \in Session : row[s] # None =>
        /\ row[s].idle_expires_at <= row[s].expires_at
        /\ row[s].idle_expires_at <= row[s].last_seen_at + IdleTTL
        /\ row[s].expires_at <= row[s].created_at + TTL

\* A request past the middleware belongs to a session that, when it was read,
\* had been used within IdleTTL and created within TTL.
ServedWithinLifetimes ==
    \A r \in Request :
        req[r].stage \in {"loaded", "touch", "touching", "serve", "locked"} =>
            /\ req[r].loaded < req[r].seen + IdleTTL
            /\ req[r].loaded <= now
            /\ row[req[r].session] # None =>
                /\ req[r].loaded < row[req[r].session].created_at + TTL

\* The operator's trail: however many operators revoke a session at once, and
\* however often, one action is recorded, and only for a session that is gone.
OneActionPerRevocation ==
    \A s \in Session :
        /\ actions[s] <= 1
        /\ actions[s] = 1 => row[s] = None \/ row[s].revoked

\* A code signs in once: two callbacks of one attempt never leave two sessions.
OneSessionPerLogin ==
    \A s, t \in Session : origin[s] # None /\ origin[s] = origin[t] => s = t

\* A session that is over stays over.  Nothing that was under way brings back one that
\* was revoked, and only a touch whose statement began in the idle lifetime, and got
\* the row after its end, still extends one that was not.
DeadStaysDead ==
    [][\A s \in Session : row[s] # None /\ ~LiveAt(s, now) /\ LiveAt(s, now)' =>
        \E r \in Request : /\ At(r, "touching")
                           /\ req[r].session = s
                           /\ LiveAt(s, req[r].started)]_vars

\* The middleware clears a cookie (401) only of a session that is over.
OnlyDeadRefused ==
    [][\A r \in Request :
        ~At(r, "done") /\ req'[r].answer = "unauthorized" =>
            ~LiveAt(req[r].session, now)]_vars

\* After a logout whose statement did not fail the session cannot be used again
\* (web_sessions.md: "Logout accepts POST only, revokes the current web session,
\* clears the cookie").
LogoutRevokes ==
    [][\A r \in Request, s \in Session :
        /\ req[r].kind = "logout" /\ req[r].session = s
        /\ ~At(r, "done") /\ At(r, "done")' /\ req'[r].answer # "logged"
        => ~LiveAt(s, now)']_vars

\* Every request that reached a handler is answered, although it may wait for a row
\* that operators lock again and again.
RequestsAnswered == \A r \in Request : ~At(r, "done") ~> At(r, "done")

\* The sessions as stored: well typed, with bounded deadlines, one for each login,
\* and one operator action for each that an operator revoked.
SessionsSound ==
    /\ TypeOK
    /\ DeadlinesBounded
    /\ OneSessionPerLogin
    /\ OneActionPerRevocation

\* Revocation is effective and final: a logout ends the session, and nothing that
\* was under way brings back one that is over.
RevocationFinal == LogoutRevokes /\ DeadStaysDead
=============================================================================

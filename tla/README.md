# Verification of starlogz

starlogz is an MCP server that keeps short texts ("insights") per project in
PostgreSQL. It is its own OAuth 2 authorization server, in front of GitHub. This
directory holds TLA+ models of its core, the TLC configurations that check them
and TLAPS proofs. `PROJECT.json` lists the runs, the source lines behind each
definition, the mutants, hazards, findings and theorems.

    tlc -workers 2 -config MCRefreshGrant.cfg MCRefreshGrant    # one run
    tlapm RefreshGrantProofs.tla                                # one proof module

## 1. Inventory

| Component (source) | State | Operations | What makes it correct |
|---|---|---|---|
| Refresh grants and JWT revocation (`oidc/handlers.go`, `oidc/server.go`, `store/postgres`) | tables `grants`, `retired_refresh_tokens`, `revoked_tokens`, `operator_actions`; GitHub's tokens | code exchange, refresh, grace retry, tear-down, logout, operator revocation, JWT check | a refresh token buys one JWT; one JWT of a lineage is accepted; revocation is final; only broken grants are torn down |
| Insight writes, revisions, links (`store/postgres`, `server/tools.go`) | `insights`, `insight_revisions`, `insight_links` | write, update, delete, restore | complete history; one live insight per key; links follow content; expected revisions honoured |
| Authorization-code flow (`oidc/handlers.go`, `oidc/confirmation.go`) | `pending_auths`, `authorization_confirmations`, `auth_codes` | authorize, callback, confirm or deny, exchange | every stage is used once; a code is bound to its client, redirect and challenge; no code without the confirmation it needs |
| Clients (`oidc/dcr.go`, `clients.go`, `cimd.go`, `scopes.go`) | `oauth_clients` | register, resolve, match a redirect, narrow scopes | a request gets no redirect or scope its client does not have |
| Web sessions (`server/ui_auth.go`, `ui_context.go`, `store/postgres`) | `web_sessions`, `operator_actions` | login, callback, lookup, touch, logout, operator revocation | no session outlives revocation or its absolute expiry; a code signs in once; a live cookie is never cleared |
| Dashboard and operator service (`server/ui_service.go`) | none of its own | reads, two revocations | only operators revoke; each revocation is recorded |
| Users, organisations, projects (`store/postgres`, `server/tools.go`) | `users`, `orgs`, `org_members`, `projects` | `UpsertUser`, `EnsureProject`, resolution of a request's user, organisation and project | one personal organisation per user; one project per slug; nobody reaches another's project |
| Insight pages (`store/postgres`, `server/cursor.go`) | cursors held by clients | list, history, search | a page sequence repeats nothing and skips nothing that stood still; a cursor is bound to its filter |
| Insight detail and dashboard reads (`store/postgres`) | none | `GetInsight` with links and backlinks, `GetProjectDashboard` | a detail is one moment of the database; dashboard parts differ by no more than the writes between them |
| Migrations (`store/postgres/migrations.go`) | `schema_migrations`, indexes, an advisory lock | migrate, check the schema | each migration applied once, in order, by one process; an interrupted index build is repaired |
| Telemetry cache (`operations/telemetry.go`) | one cached snapshot under a mutex, goroutines per query | get | an error is not cached; every caller is answered; no goroutine is left behind |
| Telemetry figures (`operations/telemetry.go`, `server/ui_service.go`) | none | `buildSnapshot` and its presentation | the figures agree with the rows and with each other, in a determined order |
| Wide events and access log (`wideevent`, `middleware/access_log.go`) | none that outlives a request | classify, validate, publish, log | a request is reported as it ended, at most once; the log has the status that was sent |
| Lambda adapter, CORS and headers, encryption, audit log, commands, front end, generated code, infrastructure | none that outlives a request, or outside the core | | not modelled, section 8 |

Components meet in the database. Any number of server processes (HTTP or
Lambda) run handlers concurrently, each handler is a sequence of statements or
transactions, and GitHub is called in between. No lock is held across calls, so
what a handler read may be stale when it writes. The hard parts are these
interleavings, the GitHub call that cannot be undone, lost responses and their
retries, two-step tear-downs, rows pruned as a side effect, and rows waited for
under READ COMMITTED. Within one process the telemetry cache shares memory and
a mutex between requests and their goroutines. Across processes, starting
servers meet at the advisory lock of the migrations.

## 2. Modules

| Module | Models |
|---|---|
| `RefreshGrant` | the token endpoint's grants, from the exchange of a code to the end of the lineage |
| `RefreshGrantProofs` | its theorems |
| `MCRefreshGrant` | TLC instances (symmetry of requests) |
| `AuthCodeFlow` | clients, authorize, callback, confirmation and code exchange |
| `AuthCodeFlowProofs` | its theorems |
| `MCAuthCodeFlow` | TLC instances (client metadata, hash, symmetry) |
| `InsightLedger` | what insights promise: an append-only ledger of snapshots |
| `InsightStore` | the four insight transactions over the three tables |
| `InsightStoreProofs` | its theorems, the refinement of the ledger among them |
| `MCInsightStore` | TLC instances (link targets, symmetry) |
| `WebSession` | dashboard sessions: login, middleware, logout, operator revocation |
| `WebSessionProofs` | its theorems |
| `Migrations` | `RunMigrations` and `CheckSchema` by several processes that crash |
| `MigrationsProofs` | its theorems |
| `TelemetryCache` | `CloudWatch.Get`: mutex, goroutines, contexts, timeouts |
| `TelemetryProofs` | its theorems, and those of `WideEvents` and `TelemetrySnapshot` |
| `TelemetrySnapshot` | `buildSnapshot` row by row, and the response made of it |
| `Tenancy` | `UpsertUser`, `EnsureProject`, and how requests find their project |
| `TenancyProofs` | its theorems |
| `InsightTable` | the constants of the table that the next two share |
| `InsightPages` | list, search and history by cursor over a changing table |
| `InsightDetail` | reads of several statements over a changing table |
| `InsightReadingProofs` | the theorems of these two |
| `WideEvents` | the completion event and the log line of a request |
| `MCMigrations`, `MCInsightPages` | TLC instances: which binary knows which versions; lists of excluded ids |
| `MCWebSession` | TLC instances (symmetry of sessions and of requests) |
| `MCTenancy` | TLC instance, constants only |
| `MCRemote` | TLC instance of `TelemetryCache` and `WideEvents`, side by side |
| `MCAnswers` | TLC instance of `InsightDetail` and `TelemetrySnapshot`, side by side |

Operators named `X_Something` that precede a definition `X` are mutants of it:
plausible bugs that the named property must detect. Modules about which one module
proves theorems share no names; hence `EventsSpec`, `SnapshotSpec` and `DetailSpec`.
The two side-by-side instances check pairs of components that share no state: a
behaviour is one of one component, named by `part`, while the other rests.

### RefreshGrant

A state variable per table, plus `upstream` (refresh tokens GitHub accepts),
`req` (each request's local state), the clock `now`, `serial` (how many token
pairs were minted) and `issued`, the history of signed JWTs.

Each database call and the GitHub call is a step of its own. `req[r].grant` is
the handler's copy of the row, kept from `RefreshFound` to the end.

| Action | Code |
|---|---|
| `AuthCodeGrant`, `AuthCodeWithoutGrant` | `handleAuthCodeGrant` after the code is consumed; `UpsertGrant` with its prune |
| `RefreshFound`, `RefreshNotFound` | `handleRefreshGrant` up to `GetGrantByRefreshToken` |
| `GitHubExpired`, `GitHubRejects`, `GitHubRotates`, `GitHubMissingRefresh` | the local expiry check and the outcomes of `RefreshToken` |
| `RotateGrant`, `RotateGrantNotFound`, `StoreFails` | the transaction that swaps the row, revokes the old jti and retires the old token, and its failures |
| `RetiredLookup`, `RetiredRefused`, `GraceRetry`, `GraceRefused`, `GraceUnbound` | `handleRetiredRefreshGrant` |
| `TearDownRevoke`, `TearDownRevokeFails`, `DeleteGrant` | `tearDownGrant`, two database calls |
| `Fail` | a call fails, or the process stops |
| `Logout`, `RevokeOAuthGrantByID` | `LogoutHandler`; the operator's revocation |
| `GitHubRevokes`, `Tick` | the user at GitHub; the clock |

Simplifications. The jti and refresh token minted together share a serial. A
JWT counts as issued when `RotateGrant` commits: should the handler stop before
it signs, a grace retry signs the same claims. A GitHub token's life counts from
the exchange of the code. `UpsertUser` in the refresh only matters by failing
(`StoreFails`); `last_used_at` is left out. Server and database share a clock.
`LegacyInit` is a database whose grant predates the binding to clients.

### AuthCodeFlow

A variable per table (`clients`, `pending`, `confirmations`, `codes`), the
documents metadata clients publish, `req` (callbacks and exchanges that have
consumed a row and hold its copy), `serial` (handles minted), and histories:
accepted authorize requests, decisions, redirects, refused exchanges, JWTs.

| Action | Code |
|---|---|
| `Register`, `EnsureUIClient`, `Publish` | `DCRHandler`; `ensureUIClient` of the dashboard login; somebody else's web server |
| `Authorize` | `AuthorizeHandler`: `resolveClientForAuthorize`, the scope rules, `StorePendingAuth` |
| `CallbackBegin`, `Identify`, `StoreConfirmation` or `StoreAuthCode` | `GitHubCallbackHandler`, call by call |
| `Approve`, `Deny` | `AuthorizationConfirmationHandler`; `CompleteAuthorizationConfirmation` is one transaction |
| `ExchangeBegin`, `ExchangeRefused`, `ExchangeIssue` | `handleAuthCodeGrant`: the code is consumed, then the form compared, then the JWT issued |
| `Fail`, `Expire` | a call fails or the process stops; `expires_at` passes |

A request may present any handle there is, at any time: this covers repeated,
late and crossed requests. Time is abstracted: a row may expire whenever it
likes, which includes every schedule of the 10 and 5 minute limits. `Authorize`
is one step because between its two database calls it only holds a copy of the
client, and nobody knows the state it is about to insert; the client's metadata
of that moment is kept in `asked`. A redirect URI is a site (scheme, host, path
and query) and a port, which is all `redirectURIMatches` tells apart; scopes are
sets. Resolution is that of the deployed server, with a client store and
metadata documents enabled. `UpsertUser` in the callback only matters by failing
(`Fail`). Left out: the rendered page, logos, `iss`, the client's own `state`
and length limits. The grant an exchange stores is `AuthCodeGrant` of
`RefreshGrant`.

### InsightStore

A call is a READ COMMITTED transaction. `tx[t]` is its place and, once a row is
locked, the copy it read. The statements that write, and the commit, are one
step, because they touch only the locked row (or a new one) and what hangs on
it; a statement that waits for another transaction's uncommitted key is a step
taken after that commit. What cannot be merged is kept apart: the SELECT by
key (`SelectByKey`, `SelectByKeyMisses`), the wait for a lock and the second
look at the row after it (`WaitEnds`), the INSERT that may lose
(`CreateInsight`, `CreateConflict`) and the second SELECT.

| Action | Code |
|---|---|
| `WriteBegin`, `SelectByKey`, `SelectByKeyMisses`, `WaitEnds` | `writeInsightTx`, `getInsightByKeyForUpdateTx` |
| `CreateInsight`, `CreateConflict` | `createInsightTx` and its ON CONFLICT DO NOTHING |
| `UpdateByKey` | `updateInsightByKeyTx` |
| `UpdateBegin`, `UpdateInsight`; `DeleteBegin`, `DeleteInsight`; `RestoreBegin`, `RestoreInsight` | the row lock and the rest of the three calls |
| `Refused` | revision conflict, failed UPDATE, unknown target revision, key conflict |
| `Rollback` | a failed statement, a cancelled request, a stopped process |

`SyncInsightContent`, `Snapshot` and `Change` are the helpers the calls share.
`Init` is any project as migration 19 finds it: rows with baseline snapshots,
some with links (written since migration 17) and some without. One project is
modelled; a call for another project touches none of its rows. Contents are
opaque and `Targets` gives the keys one links to; link warnings change nothing.
`MaxRevision` stands for `MaxInsightRevision`, where the UPDATE overflows the
INTEGER column and fails.

### WebSession

State: the clock, the attempts to log in, the rows of `web_sessions`, who holds
a row lock, the operator actions recorded, the login each session came from
(history), and each request's local state with the times it has read.

| Action | Code |
|---|---|
| `StartLogin`, `ExchangeUICode`, `CreateWebSession` | `loginHandler`, `uiCallbackHandler`: the code is spent, the clock read, then one statement prunes dead rows and inserts |
| `GetWebSessionByTokenHash`, `CheckTouch`, `StartTouch`, `TouchWebSession`, `ServeRPC` | `uiAuthMiddleware`: lookup, clock, decision, UPDATE that may wait, the RPC |
| `Logout` | `uiLogoutHandler`, `RevokeWebSessionByTokenHash` |
| `RevokeRefused`, `RevokeSelect`, `RevokeCommit` | `RevokeOperationsWebSession`, `RevokeWebSessionByID` with its row lock |
| `SendCookie`, `SendCallback`, `StatementFails`, `Tick` | browsers, repeated callbacks included; a failing statement; time |

Three clocks are kept apart because the code mixes them: the server's time before
a statement, `now()` when the statement begins, and the moment it gets the row.
The login's own authorization is `AuthCodeFlow` with the dashboard as client.
The browser's cookie jar is left out: any issued cookie may be sent at any time.

### Migrations

State: the recorded versions, how often each transaction committed, the
concurrent indexes as `pg_index` shows them, the advisory lock, the sessions an
index build waits for, and each process's place in its loop.

| Action | Code |
|---|---|
| `StartMigrate`, `AcquireLock`, `Unlock`, `LockTimeout` | `RunMigrations`: connection, lock with its 60 s, deferred unlock |
| `CheckApplied`, `CommitMigration` | `runMigration`, the file and its record in one transaction |
| `IndexState`, `DropInvalidIndex`, `CreateIndex`, `SecondScan`, `IndexBuilt`, `VerifyIndex`, `RecordIndexMigration` | `runConcurrentIndexMigration`, one step a statement (two for the build) |
| `CheckSchema` | a server that does not migrate |
| `UnlockFails`, `ConnectionEnds` | an unlock whose error is ignored: the pool of a server that serves keeps the lock until it closes the connection |
| `StatementFails`, `Crash`, `DeadlockDetected` | faults; PostgreSQL's deadlock detector |

A session waiting in `pg_advisory_lock` holds a snapshot, and `CREATE INDEX
CONCURRENTLY` waits for older snapshots: the two wait for each other until
PostgreSQL cancels one. The model has both outcomes.

### TelemetryCache

State: the clock, the mutex, the cached snapshot and its expiry; for each call of
`Get` its place, the time it read, its answer and the results it received; for
each goroutine its place, the end of its `StopQuery`, its result, and the query as
CloudWatch knows it. `CallGet`, `ServeCached`, `StartRefresh`, `Receive` and
`CacheSnapshot` are `Get` and `refresh`; `StartQuery`, `Poll`, `PollFails` and
`StopQuery` the goroutines; `CallerLeaves`, `RemoteEnds` and `Tick` the
environment. Calls of the AWS client heed their context, so the clock does not
pass a deadline before those it concerns have reacted (`InTime`). The clock is
assumed never to be set back: `Get` compares wall-clock times, since `.UTC()`
(`telemetry.go:121`) drops the monotonic reading, and a clock set back by d would
let a cached snapshot live d longer. The deadlines of contexts are monotonic.

### TelemetrySnapshot

`ReadToolRow`, `ReadLatency` and `ReadFlowRow` are the three loops of
`buildSnapshot`, one row a step, so that every sequence of rows is an input,
with rows outside the window and fields that do not parse; `Respond` sorts the
maps in whatever order they were ranged and saturates the counts. The reference
definitions are sums over the rows.

### Tenancy

`BeginUpsert`, `UpsertRow`, `InsertOrg`, `InsertMember`, `Commit` and `Rollback`
are the transaction of `UpsertUser`, whose first statement waits for another
login of the same account. `BeginRequest`, `ResolveUser`, `ResolveOrg`, and then
`ProjectEnsure`, `InsightWriteProject`, `ProjectBySlug` or `ProjectList`, are a
tool call or dashboard request, one step a statement. A GitHub login name may
move from one account to another.

### InsightPages

`FirstPage`, `LoadMore` and `RefuseCursor` are the handlers with
`cursor.go`; `Begin` and `Commit` are a writing transaction, which stamps
`updated_at` with its beginning; every page is a query of its own over what is
committed then. Positions are tuples compared as PostgreSQL compares rows. A cursor
gives its position back exactly: a stored time is whole microseconds, which
`UnixMicro` writes and reads, and a rank is written as its bits. `Encode_Coarse` is
the mutant that writes a time in a coarser unit, and it makes a traversal skip rows.

### InsightDetail

`ReadInsight`, `CountLinks`, `ReadLinks`, `CountBacklinks`, `ReadBacklinks` are
the statements of `GetInsight` in one repeatable-read transaction, so they see
the version of the first; `CountInsights`, `CountCategories`, `ReadRecent` those
of `GetProjectDashboard`, each of which sees the latest version. `CommitVersion` is any
write. Of the dashboard's groupings the category stands for all: the others are
the same statement over another column.

### WideEvents

`WriteHeader` is both response writers, each keeping the first status;
`HandlerEnds` a return, an error or a panic; `Emit` the completion with its
classification and validation; `Published` and `PublishTimeout` the EventBridge
call; `LogRequest` and `Abort` the access log and the connection cut after a
panic. An event is a sequence, so that one sent twice would show. How the MCP and
Connect libraries answer is external.

## 3. Runs

| Run | Bounds | Checks |
|---|---|---|
| `refresh_grant` | 2 requests, 2 clients, 1 lineage, 4 token pairs, times 0..3, JWT and GitHub lives 2, grace 1; 2.2 M states | `OneAcceptedJwt`, `OperatorRevocationFinal`, `JwtBoundToRequest`, `SingleUse`, `GraceRetryAvailable`, `TearDownOnlyBroken` |
| `auth_code_flow` | 1 authorize request, 5 handles, 2 later requests, 3 clients, 4 metadata records, 2 ports, 3 scope requests, 2 users, 2 verifiers; 21 k states | `OneTokenPerAuthorization`, `TokenAsAuthorized`, `AnsweredOnceAtItsRedirect`, `UserDecides`, `RefusedExchangeBurnsCode` |
| `insight_store` | 2 transactions, 2 insights, 1 key, 2 contents, revisions 1..3; 1.6 M states | `HistoryComplete`, `OneLiveInsightPerKey`, `LinksFollowContent`, `ExpectedRevisionHonoured`, `ImplementsLedger` |
| `insight_write_lands` | the same | violation, section 6 |
| `web_session` | 2 sessions, 2 logins (one an operator's), 2 requests, times 0..3, idle life 2, absolute life 3, touch interval 1; 3.0 M states | `SessionsSound`, `ServedWithinLifetimes`, `RevocationFinal`, `OnlyDeadRefused` |
| `web_session_ends` | the same with times 0..1 and absolute life 2; 365 k states | `RequestsAnswered` |
| `migrations` | an old and two new binaries, 3 versions, two of them concurrent indexes, 2 starts each, 3 faults; 220 k states | `MigrationsSound`, `ReadyMeansMigrated`, `RunsEnd`, `MigratedInTheEnd` |
| `remote` | cache: 2 calls, 2 queries, times 0..6, cache life 2, timeouts 1; events: 1 request, 9 statuses, 9 counts at the edges of the buckets, 3 contexts, 2 writes; 159 k states | `CacheSound`, `AnswersFresh`, `RefreshesEnd`; `ReportsTruthful`, `RequestsEnd` |
| `events_contract` | 1 request, 2 statuses, 3 contexts, 2 writes | violation, section 6 |
| `answers` | detail: 2 insights, 2 keys, 2 categories, 1 reader, 1 commit, limit 1; snapshot: 3 rows of 2 tools, events and reasons, 32-bit limit 2; 2.1 M states | `DetailSound`, `DashboardDrift`; `FiguresAgree`, `ListingsDetermined` |
| `tenancy` | 2 logins, 2 accounts, 2 login names, 2 requests, 1 slug; 379 k states | `TenantsSound`, `ProjectsSound`, `LoginsEnd` |
| `insight_pages` | 3 insights, 2 tags, 2 ranks, 1 traversal, 1 writer, pages of 1 or 2, times 1..2; 1.2 M states | `PagesSound`, `RefusedForCause`, `TraversalEnds` |

Some properties are conjunctions of named parts, each with a comment of its own
and, in `PROJECT.json`, a mutant of its own: `SessionsSound` (`TypeOK`,
`DeadlinesBounded`, `OneSessionPerLogin`, `OneActionPerRevocation`),
`RevocationFinal` (`LogoutRevokes`, `DeadStaysDead`), `MigrationsSound` (`TypeOK`,
`AppliedInOrder`, `AppliedOnce`, `OneMigrator`, `RecordedIndexValid`),
`CacheSound` (`TypeOK`, `SnapshotsComplete`, `RefreshBounded`), `RefreshesEnd`
(`GetReturns`, `GoroutinesEnd`), `FiguresAgree` (`SnapshotTypeOK`, `ToolTotalsAgree`,
`FlowTotalsAgree`, `PartsWithinWhole`, `PercentileNearest`), `TenantsSound`
(`TypeOK`, `OneOrgPerUser`, `LoggedInResolves`), `ProjectsSound`
(`OwnProjectsOnly`, `ProjectIdsStable`), `PagesSound` (`TypeOK`, `PagesDisjoint`,
`TraversalComplete`), `DetailSound` (`DetailTypeOK`, `AtomicDetail`, `DetailCoherent`),
`ReportsTruthful` (`EventsTypeOK`, `EventTruthful`, `FlowReported`, `LogTruthful`).

Why these bounds are enough to be of use. Two requests make every race on one row: both
read, one is rotated upstream, the other rejected, torn down or retried. Four serials
allow three rotations, so a retired token, its replacement and the replacement's
successor coexist. Three ticks pass the grace, the JWT and the GitHub expiry. An
authorization mints at most four handles (state, confirmation, code, jti), so five leave
room for a second of one kind, were it possible. The four metadata records are a
loopback client, a narrow one, and two that validation must refuse. Two transactions and
two insights make a key pass from one insight to another and back; three revisions are
create, delete, restore; two contents with different links make a stale link visible;
one key suffices because no statement mentions two. Two sessions and two requests let an
operator revoke a session that is being touched, or used, or has expired. A session is
idle-live for two instants and a touch needs one since the last, so touches succeed,
carry a session over the end of its first idle life, and are capped by the absolute life
of three instants, which is the one that ends a touched session. Two requests that read
the clock at different instants touch in the other order. `RequestsAnswered` needs only
one instant late enough for a touch, and the locks. Three faults crash a build, its
repair and the repair's record; an old binary that wins the lock stops short of the new
ones. Six instants hold a refresh that times out, its stop, a second refresh and the
expiry of a cached one. Three insights and pages of one make a row cross the reader's
position in either direction while ties remain; one writer that begins before the first
page and commits after it is the late stamp. One commit can fall between any two
statements of a reader. A first write and one more show which of them counts; the proof
has them for any number of writes (`Written` in section 5).

What rests on the theorems and on no run: two authorizations mixed up, two
lineages that prune each other's rows, two traversals at once, and the type
invariants of `RefreshGrant`, `AuthCodeFlow` and `InsightStore`.

Deadlock is checked in `refresh_grant`, `auth_code_flow`, `insight_store` and
`web_session`, whose actors can always do something. In the others each process,
call, login, traversal or request happens a bounded number of times and the
system then rests, so these configurations say `CHECK_DEADLOCK FALSE`; that
nobody is stuck half-way is what their liveness properties say.

## 4. Fairness

Nothing is assumed of callers, of faults or of GitHub and CloudWatch. The rest:

| Specification | Assumes | Because |
|---|---|---|
| `WebSession!FairSpec` | strong fairness of a request's next step | each request has a goroutine, the database answers, and PostgreSQL serves the waiters of a row in turn, although operators may lock it again and again |
| `Migrations!FairSpec` | weak fairness of a running process, and of the end of a pooled connection that kept the lock | PostgreSQL grants a free lock and resolves a deadlock; pgxpool closes a connection at its lifetime, an hour unless the DSN says otherwise |
| `TelemetryCache!FairSpec` | weak fairness of the clock, of goroutines and of receiving; strong fairness of the mutex | a Go mutex hands itself over to a waiter that has starved for a millisecond; the AWS client answers or heeds its context. CloudWatch need not end a query |
| `Tenancy!FairSpec` | weak fairness of statements | once the holder has committed the entry is free |
| `InsightPages!FairSpec` | weak fairness of asking for the next page | `TraversalEnds` is about clients that go on |
| `WideEvents!Proceed`, in `RemoteFairSpec` | weak fairness of the running code and of its timeout | EventBridge may never answer; `Published` is not fair |

## 5. Proofs

### RefreshGrantProofs

For any number of requests, clients, users, grants, rotations and instants, and
all durations `resolveRefreshTokenDurations` accepts (`DurationsAssumption`):

| Theorem | States |
|---|---|
| `TypeCorrect` | `Spec => []TypeOK` |
| `OneAccepted` | `OneAcceptedJwt` |
| `OperatorFinal` | `OperatorRevocationFinal` |
| `BoundToRequest` | `JwtBoundToRequest` |
| `RefreshTokenSingleUse` | `SingleUse` |
| `RetiredIsDead` | `RetiredTokenDead` |
| `GraceRetryFinds` | `GraceRetryAvailable` |
| `TearDownSafe` | `TearDownOnlyBroken` |

None of the five safety properties is inductive alone: what a stale request writes depends on what
it remembers. `IInv` adds

- `GrantsSound`: a lineage has one row, with the newest pair minted for it, and
  nobody has used that pair's refresh token;
- `RevocationsSound`: a revocation lasts exactly as long as its JWT, and each
  overtaken or operator-revoked JWT has one until it expires. Hence pruning
  expired rows brings nothing back;
- `RetiredSound`: a rotated token's record names the JWT its rotation bought, so
  a grace retry can only repeat it;
- `Requests`: a handler's copy of a row is the row that still has its jti, or a
  row gone for good. Rotation by token and deletion by jti therefore never hit a
  newer row.

So far the proof never looks at `upstream`: these properties do not depend on which
tokens GitHub accepts.

The grace retry rests on one more invariant, `GInv`: until the grace period of the
rotation that wrote a row ends, the JWT the row replaced has its record, with the
client and the jti a retry compares. Rotations, exchanges and prunes, of this
lineage or another, keep the record because its `retained_until` is no earlier than
the end of its grace (`RecordKept`); a tear-down takes the row with it.

The tear-down rests on `UInv`, which does look at `upstream`. A GitHub token that
a row or a handler holds is `Known`: GitHub has handed out none of its
authorization that is older and still accepted. So a token that is no longer
accepted never is again (`NeverBack`), and a handler on its way to a tear-down
still holds a row that is `Broken`, whatever other handlers rotate or authorize in
between. `TearDownOnlyBroken` is an action property, proved from both invariants.

### AuthCodeFlowProofs

For any requests, clients, documents, scopes, users, verifiers and handles, and
any hash `S256`:

| Theorem | States |
|---|---|
| `FlowTypeCorrect` | `Spec => []TypeOK` |
| `OneToken` | `OneTokenPerAuthorization` |
| `BoundAtAuthorization` | `TokenAsAuthorized` |
| `ConsentGiven` | `UserDecides` |
| `AnsweredOnce` | `AnsweredOnceAtItsRedirect` |
| `RefusedIsBurnt` | `RefusedExchangeBurnsCode` |

The argument of `AInv`: an authorization is carried by exactly one thing at a
time, a row of one of three tables, a request that has consumed one, a JWT or a
refused exchange (`Sole`). Every step replaces a carrier by another, drops one
or starts an authorization with a fresh handle, and three lemmas show that each
of these keeps carriers sole. What is decided or answered is no longer carried
by an early stage (`Closed`), and every carrier says what the authorize request
said (`RowsSound`, `LogSound`). `SiteAssumption`, `UIAssumption` and
`ScopeAssumption` are facts of the code's constants: loopback sites are safe, so
is the dashboard's redirect, and the default scope is supported.

### InsightStoreProofs

For any transactions, ids, keys, contents and revision limit:

| Theorem | States |
|---|---|
| `StoreTypeCorrect` | `Spec => []TypeOK` |
| `LedgerComplete` | `HistoryComplete` |
| `KeysUnique` | `OneLiveInsightPerKey` |
| `ExpectedHonoured` | `ExpectedRevisionHonoured` |
| `LinksFollow` | `LinksFollowContent` |
| `StoreImplementsLedger` | `ImplementsLedger`: the detailed specification implements the abstract one |

The invariant `SInv` says that ids are unique, that a transaction holding a lock
holds the present row and nobody else holds it (`HoldersSound`), and that the
snapshots of an insight are exactly its revisions, the newest equal to the row
(`HistorySound`). With them the head of an insight in the ledger is its row, and
each commit is one abstract step.

For the links `LInv` adds that no link is without its row. Every call that writes
touches the links and snapshots of one row (`OneRow`), and either syncs them
(`SyncStores`) or leaves the content they were made from. The exception a baseline
row has needs its history: only a row whose snapshots all carry its content, none
of them by a restore, may still be without links.

### WebSessionProofs

For any sessions, logins, requests and lifetimes:

| Theorem | States |
|---|---|
| `Sessions` | `Spec => []SessionsSound` |
| `ServedAlive` | `ServedWithinLifetimes` |
| `RevokedForGood` | `RevocationFinal` |
| `RefusedForCause` | `OnlyDeadRefused` |

`IInv` adds to `SessionsSound` what a request that is under way knows (`UnderWay`):
the clocks it read are past, a code it has exchanged has no session yet and no
second request with it (`ExchangedOnce`), and a row it holds locked is unrevoked. A
row belongs to an issued session whose code is used (`Issued`), so a pruned row
never returns. `Keeps` says what a step of one request leaves another to know; each
step is checked once against it. The last two theorems are action properties.

### TenancyProofs

For any logins, accounts, login names, requests and slugs:

| Theorem | States |
|---|---|
| `OneOrg`, `Resolves` | `OneOrgPerUser`, `LoggedInResolves` |
| `Tenants` | `Spec => []TenantsSound`, which contains both |
| `Projects` | `ProjectsSound` |

The lock that the first statement of `UpsertUser` takes makes the account's
uncommitted rows one login's (`LocksSound`), so the id it works with is that of the
committed row, or its own (`LoginSound`). Hence a user, the organisation and the
membership become visible together (`TablesSound`), a request resolves to the
organisation of its own user, and every project belongs to who created it
(`ProjectsOwned`).

### TelemetryProofs

For any calls and queries and any lifetime and timeouts (`TelemetryAssumption`):

| Theorem | States |
|---|---|
| `Cache` | `Spec => []CacheSound` |
| `Fresh` | `AnswersFresh` |
| `OneRefresh` | two calls never refresh at the same time |
| `Reports` | `ReportsTruthful` of `WideEvents`, for any requests, statuses, counts and contexts: no request has two events, exactly the requests of `Unreported` have none, and an event and the log line say how the request ended |
| `FiguresHold` | `SnapshotSpec => []FiguresAgree`, for any rows |
| `ListingsHold` | `ListingsDetermined` of `TelemetrySnapshot`, for any rows |

Of the cache, `IInv` says that the mutex is held exactly by the call that refreshes
(`MutexHeld`), that a result is in the channel only of a goroutine that has ended
(`InChannel`), that what is cached or answered comes from a call all of whose queries
delivered (`Snapshots`), and where the clock is while a goroutine runs or stops its
query (`Deadlines`).

Of the events, `HTTPAccepted`, `ToolAccepted` and `OperatorAccepted` say which event
the validation lets through for each kind of flow, whatever the request did: one that
says how it ended, or none for a tool that panicked or whose context has a control
character. These two cases are named (`Unreported`), as is the operator call that
panics and counts as a success; the contract has none of them, which is what the run
`events_contract` shows. `ReportInv` says
that this is the event of every request that has reached its publication
(`Reported`), and that the two writers a handler and the access log see have kept the
status that was sent, which a second write does not change (`Written`). `EventsAssumption`
says that statuses are HTTP statuses and that a tool returns at most 200 results.

Of the snapshot, the figures are sums over rows and over maps of any size
(`SumFunction` of the community modules, a recursion over subsets). The induction
theorems of the library cannot be instantiated, so what is needed of sums is proved
from a smallest set for which it fails (`SmallestSubset`, from the well-foundedness
of the subset order): the recursion has a solution (`SolutionExists`), any entry may
be taken first (`SumTake`), one more entry or another number changes a sum by the
difference (`SumAdd`, `SumChange`), for the next row (`SumNext`) and for an entry of a
map (`SumPut`). `SnapshotInv` says after every row what
`FiguresAgree` says, of every event name, and that a tool that a row has named
has no more failures than calls and no more calls than the total. TLC checked it on
the run's instance before it was proved.

Of the listings: a finite set has a listing in any strict total order
(`ListingExists`: each entry stands where the number of entries before it says), and
two sorted listings show the same values in the same places (`SameOrder`), otherwise
the first entries of one would be more than the earlier entries of the other. `ToolsOnce` and
`FailuresOnce` apply this to the orders of `sortSnapshot`; failures that are equal in
all three fields are interchangeable. `SnapshotAssumption` says that the window has
finitely many hours and that reasons are ordered, as strings are.

### InsightReadingProofs

For any table, readers, writers, tags, ranks, lists of excluded ids and limits:

| Theorem | States |
|---|---|
| `Pages` | `Spec => []PagesSound` |
| `Refused` | `RefusedForCause` |
| `DetailReads` | `DetailSound` of `InsightDetail` |
| `DashboardReads` | `DashboardDrift` of `InsightDetail` |

Of the pages: the lemmas on the operators come first: row comparison is a strict total
order (`LessOrder`); of a finite set of positions `Top` returns at most the limit, and
what it leaves out is below all of it (`TopSound`); a page ends either with no cursor
and everything returned, or with the cursor of its last entry (`PageSound`); operations
with one hash match the same (`SameHash`). The invariant is `Continues`: the cursor is
that of an entry with everything returned on one side of it, and everything promised and
not yet returned on the other. A writer cannot break it, since a row that moves is no
longer promised, wherever its late stamp puts it. `InsightAssumption` says that there
are finitely many insights, as in a table, `PagesAssumption` that the default limit is a
limit; `CursorAssumption` that no cursor is taken for none: in the code the empty string
stands for none, and no encoded cursor is empty.

Of details and dashboards: `FirstSound` says what a list that is ordered and cut at a
limit holds, for any strict total order, and `LinksShown` and `BacklinksShown` apply it
to the two lists of a detail. `ReadInv` says that what a request has read by each stage
is exactly that part (`Partial`) of the detail of one version, the one its first
statement saw, and that the parts of a dashboard are of versions in the order of its
statements (`ReadsInOrder`). A commit only adds a version, so it takes nothing from what
has been read. For the dashboard `ReadInv` also bounds how far two versions can differ
(`Drift`): a commit changes the number of live insights by one at most (`OneCommit`),
hence k commits by k. The buckets of one version add up to its live insights
(`BucketsTotal`, by a bijection), and its recent ones are as many as the limit allows
and none older than one left out (`RecentShown`). `DetailAssumption` says that keys are
finitely many and ordered, as `InsightAssumption` says of insights, and that limits are
numbers.

### MigrationsProofs

For any processes, binaries, versions, concurrent indexes, starts and faults:

| Theorem | States |
|---|---|
| `DatabaseSound` | `Spec => []MigrationsSound` |
| `MigrationsTypeCorrect`, `OnlyOneMigrates`, `RecordedInOrder`, `TakesEffectOnce`, `RecordedIndexesValid` | its parts, one each |
| `ReadyIsMigrated` | `ReadyMeansMigrated` |

`IInv` adds to the properties that whoever is in the loop holds the lock
(`LockHeld`), that everything below the loop's position is recorded
(`LoopPosition`), and what each place knows of the index or transaction it works
on (`StageFacts`): at "record" the index is valid, at "tx" the version is not
recorded. A crash frees the lock at any of these places, which is why they must
hold of the tables alone.

### Only model-checked

Liveness under fairness (`RequestsAnswered`, `RunsEnd`, `MigratedInTheEnd`,
`RefreshesEnd`, `LoginsEnd`, `TraversalEnds`, `RequestsEnd`) is outside what the prover
handles. Every safety property of the passing runs is a theorem.

## 6. Findings

`events_contract` is a violation run: `spec/events.md:7` promises one completion event
for each recognized flow, as the basis of failure rates, and `FlowsCounted` says so.
Three things break it. `trackTool` emits after the handler and not in a deferred
function (`tools.go:161`), so a tool that panics has no event; this is the trace. A
telemetry context with a control character between its words passes the tool's
validation but not the event's (`tools.go:232`, `event.go:361`), so the call has no
event. A panic inside an operator revocation is emitted as a success
(`ui_service.go:114`). `EventTruthful` and `FlowReported` of the passing run say that
there are no others.

`insight_write_lands` is a violation run: a keyed write that loses its INSERT and
finds the winner deleted at the second SELECT returns not found and writes
nothing, although the operation is described as an upsert.

Further observations made while modelling, without a run. They are what the models
take from the code where a comment or document says otherwise, or where the reader
may be surprised:

- The detached context does not make "refresh + storage" complete
  (`handlers.go:425`): after GitHub has rotated, a failed identity fetch, user
  upsert or transaction loses the new token.
- A rotation that finds no row was not always overtaken by a rotation
  (`handlers.go:510`): a concurrent request may have torn the grant down.
- A refresh token has another expiry clock (`store.go:549`, against
  `spec/refresh_tokens.md:38`): a second login of the same user and client
  deletes grants whose JWT expired.
- A session may be touched twice within the touch interval (`ui_auth.go:200`,
  `spec/web_sessions.md:23`): two requests decide from the same read.
- A touch whose statement began before the session's end and then waited for the
  operator's row lock may extend it past that end (`DeadStaysDead` names the case).
- A logout whose statement fails is only logged; the cookie is cleared and the row
  stays live (`ui_auth.go:166`).
- Revoking a session again succeeds only until a login prunes its row
  (`store.go:222`, `spec/dashboard_operations_controls.md:21`).
- A server waiting for the advisory lock and a concurrent index build wait for
  each other until PostgreSQL cancels one of them (`migrations.go:40` and `:54`).
- `insight_write` resets a project's display name to its slug (`tools.go:669`).
- A panic leaves no access-log line (`access_log.go:79`).
- A failed unlock is ignored (`migrations.go:60`): a server may serve with a pooled
  connection that keeps the migration lock.

## 7. Hazards

`PROJECT.json` lists them by line, each with the properties that would catch it
going wrong.

## 8. Not modelled

- `GetOperationsOverview`, the dashboard's activity calendar and `list_tags`: single
  read-only aggregations whose result is what SQL says.
- Markdown parsing and HTML rendering, text search ranking, CIMD fetching, logo
  scaling, signatures, encryption: library or string processing.
- CORS, security headers and the Lambda adapter convert one request and share no
  state. The audit log is written by triggers.
- The browser: which cookie is sent is a free choice in the models.
- The commands, the front end, the generated API code, the infrastructure and the
  build tools are outside the program's core logic.

## 9. Plan

1. An abstract specification of a refresh lineage (one current pair, pairs retired for
   good, a grace window) and the proof that `RefreshGrant` implements it, as
   `InsightStore` implements `InsightLedger`.
2. Measures for the liveness properties: for each, a number that every step of the
   request or call makes smaller and no other step makes larger, as an action property.
   Fairness then remains the only step that is not proved.

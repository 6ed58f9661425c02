---------------------------- MODULE AuthCodeFlow ----------------------------
(***************************************************************************)
(* The authorization-code flow: AuthorizeHandler, GitHubCallbackHandler,   *)
(* AuthorizationConfirmationHandler and the code exchange of TokenHandler, *)
(* over the tables oauth_clients, pending_auths,                           *)
(* authorization_confirmations and auth_codes.                             *)
(*                                                                         *)
(* Requests may be repeated, late, out of order and concurrent, and any of *)
(* them may present any handle (GitHub state, confirmation token or code)  *)
(* that was ever minted.  A handler that consumes a row and goes on with   *)
(* its copy is several steps; one that makes a single transaction is one.  *)
(* AuthorizeHandler reads the client and inserts a row nobody knows yet,   *)
(* so it is one step, at the moment the client is resolved.                *)
(*                                                                         *)
(* Time is abstracted: any row may expire at any moment (Expire).  It can  *)
(* then not be consumed, and is pruned by the next insert.                 *)
(***************************************************************************)
EXTENDS Naturals, FiniteSets

CONSTANTS
    Req,            \* concurrent callback and token requests
    Registered,     \* client ids DCR hands out
    Published,      \* client ids that are URLs of metadata documents (CIMD)
    UI,             \* FirstPartyDashboardClientID
    UIRedirect,     \* its redirect URI
    Site,           \* redirect URIs up to the port
    Port,
    Safe,           \* the sites validateRedirectURIs accepts
    Loopback,       \* the HTTP loopback sites
    Scope,          \* scope names
    Supported,      \* supportedScopes
    DefaultScope,   \* defaultRegisteredClientScope, which is also uiScope
    Document,       \* client metadata that may be registered or published
    Ask,            \* scopes an authorize request may ask for, {}: none named
    User,
    Verifier,       \* PKCE verifiers
    S256(_),        \* their challenges
    MaxRequests,    \* bound on the authorize requests accepted
    MaxHandles      \* bound on the handles and JWT ids minted

Client == Registered \cup Published \cup {UI}

URI == [site : Site, port : Port]

Metadata == [redirects : SUBSET URI, scope : SUBSET Scope, refresh : BOOLEAN]

Challenge == {S256(v) : v \in Verifier}

ASSUME ClientAssumption == UI \notin Registered \cup Published

ASSUME SiteAssumption == Loopback \subseteq Safe /\ Safe \subseteq Site

ASSUME UIAssumption == UIRedirect \in URI /\ UIRedirect.site \in Safe

ASSUME ScopeAssumption ==
    Supported \subseteq Scope /\ DefaultScope \subseteq Supported

ASSUME InputAssumption == Document \subseteq Metadata /\ Ask \subseteq SUBSET Scope

ASSUME MaxHandlesAssumption == MaxHandles \in Nat

VARIABLES
    clients,         \* oauth_clients: each id's metadata, if it has a row
    documents,       \* what the URLs of Published serve
    pending,         \* table pending_auths
    confirmations,   \* table authorization_confirmations
    codes,           \* table auth_codes
    req,             \* the local state of callback and token requests
    serial,          \* the handles and JWT ids minted so far
    asked,           \* history: the authorize requests accepted
    decisions,       \* history: what users decided on the confirmation page
    redirects,       \* history: the redirects back to clients
    burnt,           \* history: authorizations whose code was refused
    issued           \* history: the JWTs issued

rows == <<pending, confirmations, codes>>

log == <<asked, decisions, redirects, burnt, issued>>

vars == <<clients, documents, rows, req, serial, log>>

-----------------------------------------------------------------------------
(* Records *)

Handle == 1 .. MaxHandles

\* PendingAuth, by its GitHub state.
PendingAuth == [state : Handle, client : Client, uri : URI, scope : SUBSET Scope,
                challenge : Challenge, refresh : BOOLEAN, confirm : BOOLEAN,
                expired : BOOLEAN]

\* AuthCode.  `origin` is history: the state of the authorize request.
AuthCode == [origin : Handle, sub : User, client : Client, uri : URI,
             scope : SUBSET Scope, challenge : Challenge, refresh : BOOLEAN,
             backed : BOOLEAN]

Confirmation == [token : Handle, auth : AuthCode, expired : BOOLEAN]

CodeRow == [code : Handle, auth : AuthCode, expired : BOOLEAN]

\* The form of a token request.
Form == [client : Client, uri : URI, verifier : Verifier]

\* A request: not begun; a callback that has consumed its pending row, or has
\* the user's identity as well; an exchange that has consumed its code.
Request ==
    [pc : {"idle"}]
    \cup [pc : {"callback"}, pending : PendingAuth]
    \cup [pc : {"identified"}, auth : AuthCode, confirm : BOOLEAN]
    \cup [pc : {"exchange"}, auth : AuthCode, form : Form]

\* An accepted authorize request and its client's metadata at that moment.
Asked == [state : Handle, client : Client, uri : URI, scope : SUBSET Scope,
          challenge : Challenge, metadata : Metadata]

Decision == [origin : Handle, sub : User, approve : BOOLEAN]

\* A redirect to the client with a code, or with access_denied (code 0).
Redirect == [origin : Handle, uri : URI, code : 0 .. MaxHandles]

Jwt == [jti : Handle, origin : Handle, sub : User, client : Client, uri : URI,
        scope : SUBSET Scope, verifier : Verifier, refresh : BOOLEAN]

normalizeScope(scope, fallback) == IF scope = {} THEN fallback ELSE scope

\* validateClientRegistrationMetadata, validateCIMDDocument
ValidMetadata(m) ==
    /\ m.redirects # {}
    /\ \A u \in m.redirects : u.site \in Safe
    /\ m.scope \subseteq Supported

\* A row of oauth_clients has passed the validation: AuthorizeHandler's check of
\* the registered scope never fails.
TypeOK ==
    /\ clients \in [Client -> SUBSET Metadata]
    /\ \A c \in Client : \A m \in clients[c] : ValidMetadata(m)
    /\ documents \in [Published -> SUBSET Metadata]
    /\ pending \subseteq PendingAuth
    /\ confirmations \subseteq Confirmation
    /\ codes \subseteq CodeRow
    /\ req \in [Req -> Request]
    /\ serial \in 0 .. MaxHandles
    /\ asked \subseteq Asked
    /\ decisions \subseteq Decision
    /\ redirects \subseteq Redirect
    /\ burnt \subseteq Handle
    /\ issued \subseteq Jwt

Idle == [pc |-> "idle"]

Goto(r, s) == req' = [req EXCEPT ![r] = s]

\* A random handle: never seen before.
Mint == serial < MaxHandles /\ serial' = serial + 1

Live(table) == {x \in table : ~x.expired}

-----------------------------------------------------------------------------
(* Clients *)

\* DCRHandler: every registered client gets the refresh grant.
Register(c, m) ==
    LET n == [m EXCEPT !.scope = normalizeScope(m.scope, DefaultScope),
                       !.refresh = TRUE]
    IN  /\ clients[c] = {}
        /\ ValidMetadata(n)
        /\ clients' = [clients EXCEPT ![c] = {n}]
        /\ UNCHANGED <<documents, rows, req, serial, log>>

UIMetadata == [redirects |-> {UIRedirect}, scope |-> DefaultScope, refresh |-> FALSE]

\* loginHandler: ensureUIClient
EnsureUIClient ==
    /\ clients' = [clients EXCEPT ![UI] = {UIMetadata}]
    /\ UNCHANGED <<documents, rows, req, serial, log>>

\* The document behind a client id changes, or cannot be fetched any more.
Publish(c, served) ==
    /\ documents' = [documents EXCEPT ![c] = served]
    /\ UNCHANGED <<clients, rows, req, serial, log>>

\* httpClientIDMetadataResolver.Resolve
Resolve(c) ==
    LET normal(m) == [m EXCEPT !.scope = normalizeScope(m.scope, DefaultScope)]
    IN  {n \in {normal(m) : m \in documents[c]} : ValidMetadata(n)}

redirectURIMatches_AnyPort(allowed, u, loopback) == allowed.site = u.site

redirectURIMatches(allowed, u, loopback) ==
    \/ allowed = u
    \/ loopback /\ allowed.site = u.site /\ u.site \in Loopback

\* resolveClientForAuthorize: a row in oauth_clients comes before a document.
ResolvedClient(c, u) ==
    LET metadata == IF clients[c] = {} /\ c \in Published THEN Resolve(c) ELSE clients[c]
    IN  {m \in metadata : \E a \in m.redirects : redirectURIMatches(a, u, clients[c] = {})}

-----------------------------------------------------------------------------
(* AuthorizeHandler *)

GrantedScope_Unchecked(scope, m) == {normalizeScope(scope, m.scope)}

\* The scope granted to a request for `scope`, if it is granted at all.
GrantedScope(scope, m) ==
    {s \in {normalizeScope(scope, m.scope)} : s \subseteq m.scope /\ s \subseteq Supported}

authorizationConfirmationRequired(c) == c # UI

Authorize(c, u, scope, challenge) ==
    \E m \in ResolvedClient(c, u) : \E s \in GrantedScope(scope, m) :
        /\ Cardinality(asked) < MaxRequests
        /\ Mint
        /\ pending' = Live(pending) \cup
              {[state |-> serial', client |-> c, uri |-> u, scope |-> s,
                challenge |-> challenge, refresh |-> m.refresh,
                confirm |-> authorizationConfirmationRequired(c), expired |-> FALSE]}
        /\ asked' = asked \cup
              {[state |-> serial', client |-> c, uri |-> u, scope |-> s,
                challenge |-> challenge, metadata |-> m]}
        /\ UNCHANGED <<clients, documents, confirmations, codes, req,
                       decisions, redirects, burnt, issued>>

-----------------------------------------------------------------------------
(* GitHubCallbackHandler *)

\* ConsumePendingAuth
CallbackBegin(r, p) ==
    /\ req[r].pc = "idle"
    /\ p \in Live(pending)
    /\ pending' = pending \ {p}
    /\ Goto(r, [pc |-> "callback", pending |-> p])
    /\ UNCHANGED <<clients, documents, confirmations, codes, serial, log>>

\* GitHub tells who the user is and whether the tokens can be refreshed.
Identify(r, u, backed) ==
    LET p == req[r].pending
    IN  /\ req[r].pc = "callback"
        /\ Goto(r, [pc |-> "identified", confirm |-> p.confirm,
                    auth |-> [origin |-> p.state, sub |-> u, client |-> p.client,
                              uri |-> p.uri, scope |-> p.scope,
                              challenge |-> p.challenge, refresh |-> p.refresh,
                              backed |-> backed]])
        /\ UNCHANGED <<clients, documents, rows, serial, log>>

\* StoreAuthorizationConfirmation
StoreConfirmation(r) ==
    /\ req[r].pc = "identified"
    /\ req[r].confirm
    /\ Mint
    /\ confirmations' = Live(confirmations) \cup
          {[token |-> serial', auth |-> req[r].auth, expired |-> FALSE]}
    /\ Goto(r, Idle)
    /\ UNCHANGED <<clients, documents, pending, codes, log>>

\* authorizationResultRedirect, unless the URI's query cannot be decoded or the
\* answer is lost.
Redirects(auth, code) ==
    \/ UNCHANGED redirects
    \/ redirects' = redirects \cup
          {[origin |-> auth.origin, uri |-> auth.uri, code |-> code]}

\* StoreAuthCode
StoreAuthCode(r) ==
    /\ req[r].pc = "identified"
    /\ ~req[r].confirm
    /\ Mint
    /\ codes' = Live(codes) \cup
          {[code |-> serial', auth |-> req[r].auth, expired |-> FALSE]}
    /\ Redirects(req[r].auth, serial')
    /\ Goto(r, Idle)
    /\ UNCHANGED <<clients, documents, pending, confirmations, asked, decisions,
                   burnt, issued>>

-----------------------------------------------------------------------------
(* AuthorizationConfirmationHandler *)

\* CompleteAuthorizationConfirmation, one transaction.
Approve(c) ==
    /\ c \in Live(confirmations)
    /\ Mint
    /\ confirmations' = confirmations \ {c}
    /\ codes' = codes \cup {[code |-> serial', auth |-> c.auth, expired |-> FALSE]}
    /\ decisions' = decisions \cup
          {[origin |-> c.auth.origin, sub |-> c.auth.sub, approve |-> TRUE]}
    /\ Redirects(c.auth, serial')
    /\ UNCHANGED <<clients, documents, pending, req, asked, burnt, issued>>

Deny_Keeps(c) ==
    /\ c \in Live(confirmations)
    /\ decisions' = decisions \cup
          {[origin |-> c.auth.origin, sub |-> c.auth.sub, approve |-> FALSE]}
    /\ Redirects(c.auth, 0)
    /\ UNCHANGED <<clients, documents, rows, req, serial, asked, burnt, issued>>

Deny(c) ==
    /\ c \in Live(confirmations)
    /\ confirmations' = confirmations \ {c}
    /\ decisions' = decisions \cup
          {[origin |-> c.auth.origin, sub |-> c.auth.sub, approve |-> FALSE]}
    /\ Redirects(c.auth, 0)
    /\ UNCHANGED <<clients, documents, pending, codes, req, serial, asked, burnt, issued>>

-----------------------------------------------------------------------------
(* handleAuthCodeGrant *)

\* The code is the client's, for this redirect and this verifier.
ExchangeValid(auth, form) ==
    /\ form.client = auth.client
    /\ form.uri = auth.uri
    /\ S256(form.verifier) = auth.challenge

ExchangeBegin_Reads(r, c, form) ==
    /\ req[r].pc = "idle"
    /\ c \in Live(codes)
    /\ Goto(r, [pc |-> "exchange", auth |-> c.auth, form |-> form])
    /\ UNCHANGED <<clients, documents, rows, serial, log>>

ExchangeBegin_ChecksFirst(r, c, form) ==
    /\ req[r].pc = "idle"
    /\ c \in Live(codes)
    /\ codes' = IF ExchangeValid(c.auth, form) THEN codes \ {c} ELSE codes
    /\ Goto(r, [pc |-> "exchange", auth |-> c.auth, form |-> form])
    /\ UNCHANGED <<clients, documents, pending, confirmations, serial, log>>

\* ConsumeAuthCode comes first, whatever else the form says.
ExchangeBegin(r, c, form) ==
    /\ req[r].pc = "idle"
    /\ c \in Live(codes)
    /\ codes' = codes \ {c}
    /\ Goto(r, [pc |-> "exchange", auth |-> c.auth, form |-> form])
    /\ UNCHANGED <<clients, documents, pending, confirmations, serial, log>>

ExchangeRefused(r) ==
    /\ req[r].pc = "exchange"
    /\ ~ExchangeValid(req[r].auth, req[r].form)
    /\ burnt' = burnt \cup {req[r].auth.origin}
    /\ Goto(r, Idle)
    /\ UNCHANGED <<clients, documents, rows, serial, asked, decisions, redirects, issued>>

\* The JWT, with a refresh token where the client may have one, GitHub gave one
\* and UpsertGrant does not fail.
ExchangeIssue(r) ==
    LET auth == req[r].auth
    IN  /\ req[r].pc = "exchange"
        /\ ExchangeValid(auth, req[r].form)
        /\ Mint
        /\ \E refresh \in {auth.refresh /\ auth.backed, FALSE} :
              issued' = issued \cup
                 {[jti |-> serial', origin |-> auth.origin, sub |-> auth.sub,
                   client |-> auth.client, uri |-> req[r].form.uri,
                   scope |-> auth.scope, verifier |-> req[r].form.verifier,
                   refresh |-> refresh]}
        /\ Goto(r, Idle)
        /\ UNCHANGED <<clients, documents, rows, asked, decisions, redirects, burnt>>

-----------------------------------------------------------------------------
(* The specification *)

\* An error, a lost connection or a stop of the process ends a request.
Fail(r) ==
    /\ req[r].pc # "idle"
    /\ Goto(r, Idle)
    /\ UNCHANGED <<clients, documents, rows, serial, log>>

\* A row's expires_at passes.
Expire ==
    LET expire(table, x) == (table \ {x}) \cup {[x EXCEPT !.expired = TRUE]}
    IN  /\ \/ \E p \in Live(pending) :
                 pending' = expire(pending, p) /\ UNCHANGED <<confirmations, codes>>
           \/ \E c \in Live(confirmations) :
                 confirmations' = expire(confirmations, c) /\ UNCHANGED <<pending, codes>>
           \/ \E c \in Live(codes) :
                 codes' = expire(codes, c) /\ UNCHANGED <<pending, confirmations>>
        /\ UNCHANGED <<clients, documents, req, serial, log>>

Init ==
    /\ clients = [c \in Client |-> {}]
    /\ documents = [c \in Published |-> {}]
    /\ pending = {} /\ confirmations = {} /\ codes = {}
    /\ req = [r \in Req |-> Idle]
    /\ serial = 0
    /\ asked = {} /\ decisions = {} /\ redirects = {} /\ burnt = {} /\ issued = {}

Next ==
    \/ \E c \in Registered, m \in Document : Register(c, m)
    \/ EnsureUIClient
    \/ \E c \in Published, served \in {{}} \cup {{m} : m \in Document} : Publish(c, served)
    \/ \E c \in Client, u \in URI, scope \in Ask, challenge \in Challenge :
          Authorize(c, u, scope, challenge)
    \/ \E r \in Req : \/ \E p \in pending : CallbackBegin(r, p)
                      \/ \E u \in User, backed \in BOOLEAN : Identify(r, u, backed)
                      \/ StoreConfirmation(r)
                      \/ StoreAuthCode(r)
                      \/ \E c \in codes, form \in Form : ExchangeBegin(r, c, form)
                      \/ ExchangeRefused(r)
                      \/ ExchangeIssue(r)
                      \/ Fail(r)
    \/ \E c \in confirmations : Approve(c) \/ Deny(c)
    \/ Expire

Spec == Init /\ [][Next]_vars

-----------------------------------------------------------------------------
(* Properties *)

\* However often and in whatever order callbacks, confirmations and exchanges
\* are repeated, an authorize request yields at most one JWT.
OneTokenPerAuthorization ==
    \A s, t \in issued : s.origin = t.origin => s = t

\* A JWT is what the authorize request was granted: its client and scope, for
\* who knows the verifier of its challenge, at the redirect it named.  The
\* client's metadata at that moment covers the scope and the refresh token,
\* also when its document has changed since (spec/auth.md: authorization-time
\* binding).
TokenAsAuthorized ==
    \A t \in issued : \E a \in asked :
        /\ a.state = t.origin
        /\ t.client = a.client /\ t.scope = a.scope /\ t.uri = a.uri
        /\ S256(t.verifier) = a.challenge
        /\ t.scope \subseteq a.metadata.scope
        /\ t.refresh => a.metadata.refresh

\* Every client but the dashboard gets its JWT with the approval of the user it
\* is issued for, and a user decides once: a denial is final.
UserDecides ==
    /\ \A t \in issued : t.client # UI =>
          [origin |-> t.origin, sub |-> t.sub, approve |-> TRUE] \in decisions
    /\ \A d, e \in decisions : d.origin = e.origin => d = e

\* An authorization is answered once, with one code or one denial, at a redirect
\* URI its client had registered: the very URI, or for a metadata document a
\* loopback URI on another port.
AnsweredOnceAtItsRedirect ==
    \A d \in redirects :
        /\ \A e \in redirects : d.origin = e.origin => d = e
        /\ d.uri.site \in Safe
        /\ \E a \in asked :
              /\ a.state = d.origin /\ a.uri = d.uri
              /\ \/ a.uri \in a.metadata.redirects
                 \/ /\ a.client \in Published
                    /\ a.uri.site \in Loopback
                    /\ \E u \in a.metadata.redirects : u.site = a.uri.site

\* A refused exchange uses up the authorization: no exchange of it succeeds,
\* before or after.
RefusedExchangeBurnsCode ==
    \A o \in burnt : /\ \A t \in issued : t.origin # o
                     /\ \A c \in codes : c.auth.origin # o
=============================================================================

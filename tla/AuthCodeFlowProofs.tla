------------------------- MODULE AuthCodeFlowProofs -------------------------
(***************************************************************************)
(* Safety of the authorization-code flow for any number of requests,       *)
(* clients, documents, users, verifiers and handles.                       *)
(*                                                                         *)
(* An authorization is carried by one thing at a time: a row, a request    *)
(* that has consumed a row, a JWT or a refused exchange.  Every step       *)
(* replaces one carrier by another of the same authorization, drops some,  *)
(* or starts a new authorization.                                          *)
(***************************************************************************)
EXTENDS AuthCodeFlow, TLAPS

-----------------------------------------------------------------------------
(* Carriers *)

Origin(s) == IF s.pc = "callback" THEN s.pending.state ELSE s.auth.origin

\* w is a carrier of kind k of the authorization o.
Carries(k, w, o) ==
    \/ k = "pending" /\ w \in pending /\ o = w.state
    \/ k = "confirmation" /\ w \in confirmations /\ o = w.auth.origin
    \/ k = "code" /\ w \in codes /\ o = w.auth.origin
    \/ k = "request" /\ w \in Req /\ req[w].pc # "idle" /\ o = Origin(req[w])
    \/ k = "issued" /\ w \in issued /\ o = w.origin
    \/ k = "burnt" /\ w \in burnt /\ o = w

Sole ==
    \A k, v, l, w, o : Carries(k, v, o) /\ Carries(l, w, o) => k = l /\ v = w

\* What a step may do to the carriers.
Shrinks == \A k, w, o : Carries(k, w, o)' => Carries(k, w, o)

Replaces(k0, w0, k1, w1, o0) ==
    /\ Carries(k0, w0, o0)
    /\ \A k, w, o : Carries(k, w, o)' =>
          \/ Carries(k, w, o) /\ ~(k = k0 /\ w = w0)
          \/ k = k1 /\ w = w1 /\ o = o0

Adds(k1, w1, o1) ==
    \A k, w, o : Carries(k, w, o)' =>
        Carries(k, w, o) \/ (k = k1 /\ w = w1 /\ o = o1)

-----------------------------------------------------------------------------
(* The inductive invariant *)

\* Handles in use were minted.
Fresh ==
    /\ \A k, w, o : Carries(k, w, o) => o \in 1 .. serial
    /\ \A d \in decisions : d.origin \in 1 .. serial
    /\ \A d \in redirects : d.origin \in 1 .. serial

\* The authorization o still awaits its answer.
Early(o) ==
    \/ \E p \in pending : p.state = o
    \/ \E c \in confirmations : c.auth.origin = o
    \/ \E r \in Req : req[r].pc \in {"callback", "identified"} /\ Origin(req[r]) = o

\* What is decided or answered is no longer early, and was so once.
Closed ==
    /\ \A d \in decisions : ~Early(d.origin)
    /\ \A d \in redirects : ~Early(d.origin)
    /\ \A d, e \in decisions : d.origin = e.origin => d = e
    /\ \A d, e \in redirects : d.origin = e.origin => d = e

\* What AuthorizeHandler checked of an accepted request.
AskSound(a) ==
    /\ a.scope \subseteq a.metadata.scope
    /\ a.uri.site \in Safe
    /\ \/ a.uri \in a.metadata.redirects
       \/ /\ a.client \in Published
          /\ a.uri.site \in Loopback
          /\ \E u \in a.metadata.redirects : u.site = a.uri.site

\* x, a pending row or an AuthCode, says what the authorize request o says.
FromAsk(o, x) ==
    \E a \in asked :
        /\ a.state = o /\ a.client = x.client /\ a.uri = x.uri /\ a.scope = x.scope
        /\ a.challenge = x.challenge /\ a.metadata.refresh = x.refresh

Consented(auth) ==
    auth.client # UI =>
        [origin |-> auth.origin, sub |-> auth.sub, approve |-> TRUE] \in decisions

PendingSound(p) == FromAsk(p.state, p) /\ p.confirm = (p.client # UI)

ReqSound(s) ==
    /\ s.pc = "callback" => PendingSound(s.pending)
    /\ s.pc = "identified" =>
          FromAsk(s.auth.origin, s.auth) /\ s.confirm = (s.auth.client # UI)
    /\ s.pc = "exchange" => FromAsk(s.auth.origin, s.auth) /\ Consented(s.auth)

\* The body of TokenAsAuthorized.
JwtSound(t) ==
    \E a \in asked :
        /\ a.state = t.origin
        /\ t.client = a.client /\ t.scope = a.scope /\ t.uri = a.uri
        /\ S256(t.verifier) = a.challenge
        /\ t.scope \subseteq a.metadata.scope
        /\ t.refresh => a.metadata.refresh

RowsSound ==
    /\ \A p \in pending : PendingSound(p)
    /\ \A c \in confirmations : FromAsk(c.auth.origin, c.auth) /\ c.auth.client # UI
    /\ \A c \in codes : FromAsk(c.auth.origin, c.auth) /\ Consented(c.auth)
    /\ \A r \in Req : ReqSound(req[r])

LogSound ==
    /\ \A a \in asked : AskSound(a)
    /\ \A t \in issued : JwtSound(t) /\ Consented(t)
    /\ \A d \in redirects : \E a \in asked : a.state = d.origin /\ a.uri = d.uri

AInv == TypeOK /\ Sole /\ Fresh /\ Closed /\ RowsSound /\ LogSound

-----------------------------------------------------------------------------
(* Carriers under steps *)

\* Carriers that are only dropped stay sole.
LEMMA SoleShrinks == ASSUME Sole, Shrinks PROVE Sole'
  BY DEF Sole, Shrinks

\* Carriers stay sole when one is replaced by another of its authorization.
LEMMA SoleReplaces ==
    ASSUME Sole, NEW k0, NEW w0, NEW k1, NEW w1, NEW o0, Replaces(k0, w0, k1, w1, o0)
    PROVE  Sole'
  BY DEF Sole, Replaces

\* Carriers stay sole when one is added for an authorization that has none.
LEMMA SoleAdds ==
    ASSUME Sole, NEW k1, NEW w1, NEW o1, Adds(k1, w1, o1),
           \A k, w : ~Carries(k, w, o1)
    PROVE  Sole'
  BY DEF Sole, Adds

\* An early authorization has a carrier that is a row or a request.
LEMMA EarlyCarried ==
    ASSUME NEW o, Early(o)
    PROVE  \E k, w : /\ Carries(k, w, o)
                     /\ \/ k \in {"pending", "confirmation"}
                        \/ k = "request" /\ req[w].pc \in {"callback", "identified"}
  BY DEF Early, Carries

\* Where one request goes, the others stay.
LEMMA GotoOthers ==
    ASSUME req \in [Req -> Request], NEW r \in Req, NEW s \in Request, Goto(r, s)
    PROVE  /\ req' \in [Req -> Request]
           /\ req'[r] = s
           /\ \A q \in Req : q # r => req'[q] = req[q]
  BY DEF Goto

\* The records of a request, by its place.
LEMMA ReqFields ==
    ASSUME TypeOK, NEW r \in Req
    PROVE  /\ req[r].pc \in {"idle", "callback", "identified", "exchange"}
           /\ req[r].pc = "callback" => req[r].pending \in PendingAuth
           /\ req[r].pc = "identified" =>
                 req[r].auth \in AuthCode /\ req[r].confirm \in BOOLEAN
           /\ req[r].pc = "exchange" => req[r].auth \in AuthCode /\ req[r].form \in Form
  BY DEF TypeOK, Request

\* An idle request is a request.
LEMMA IdleTyped == Idle \in Request /\ Idle.pc = "idle"
  BY DEF Idle, Request

-----------------------------------------------------------------------------
(* The parts of the invariant, one step later *)

\* The history only grows, so what it justifies stays justified.
LEMMA Monotone ==
    ASSUME asked \subseteq asked', decisions \subseteq decisions'
    PROVE  /\ \A o, x : FromAsk(o, x) => FromAsk(o, x)'
           /\ \A x : Consented(x) => Consented(x)'
           /\ \A p : PendingSound(p) => PendingSound(p)'
           /\ \A s : ReqSound(s) => ReqSound(s)'
           /\ \A t : JwtSound(t) => JwtSound(t)'
  <1>1. \A o, x : FromAsk(o, x) => FromAsk(o, x)'
    BY DEF FromAsk
  <1>2. \A x : Consented(x) => Consented(x)'
    BY DEF Consented
  <1>3. \A p : PendingSound(p) => PendingSound(p)'
    BY <1>1 DEF PendingSound
  <1>4. \A s : ReqSound(s) => ReqSound(s)'
    BY <1>1, <1>2, <1>3 DEF ReqSound
  <1>5. \A t : JwtSound(t) => JwtSound(t)'
    BY DEF JwtSound
  <1>6. QED
    BY <1>1, <1>2, <1>3, <1>4, <1>5

\* Only what is new in the rows and requests has to be justified.
LEMMA RowsStep ==
    ASSUME RowsSound, asked \subseteq asked', decisions \subseteq decisions',
           \A p \in pending' : p \in pending \/ PendingSound(p)',
           \A c \in confirmations' :
              \/ c \in confirmations
              \/ FromAsk(c.auth.origin, c.auth)' /\ c.auth.client # UI,
           \A c \in codes' :
              \/ c \in codes
              \/ FromAsk(c.auth.origin, c.auth)' /\ Consented(c.auth)',
           \A r \in Req : req'[r] = req[r] \/ ReqSound(req[r])'
    PROVE  RowsSound'
  <1>1. \A p \in pending' : PendingSound(p)'
    BY Monotone DEF RowsSound
  <1>2. \A c \in confirmations' : FromAsk(c.auth.origin, c.auth)' /\ c.auth.client # UI
    BY Monotone DEF RowsSound
  <1>3. \A c \in codes' : FromAsk(c.auth.origin, c.auth)' /\ Consented(c.auth)'
    BY Monotone DEF RowsSound
  <1>4. ASSUME NEW r \in Req PROVE ReqSound(req[r])'
    <2>1. CASE req'[r] = req[r]
      <3>1. ReqSound(req[r])
        BY DEF RowsSound
      <3>2. \A s : ReqSound(s) => ReqSound(s)'
        BY Monotone
      <3>3. ReqSound(req[r]) => ReqSound(req[r])'
        BY <2>1, <3>2
      <3>4. QED
        BY <3>1, <3>3
    <2>2. QED
      BY <2>1
  <1>5. QED
    BY <1>1, <1>2, <1>3, <1>4 DEF RowsSound

\* Only what is new in the history has to be justified.
LEMMA LogStep ==
    ASSUME LogSound, asked \subseteq asked', decisions \subseteq decisions',
           \A a \in asked' : a \in asked \/ AskSound(a),
           \A t \in issued' : t \in issued \/ (JwtSound(t)' /\ Consented(t)'),
           \A d \in redirects' :
              d \in redirects \/ \E a \in asked' : a.state = d.origin /\ a.uri = d.uri
    PROVE  LogSound'
  <1>1. \A a \in asked' : AskSound(a)
    BY DEF LogSound
  <1>2. \A t \in issued' : JwtSound(t)' /\ Consented(t)'
    BY Monotone DEF LogSound
  <1>3. \A d \in redirects' : \E a \in asked' : a.state = d.origin /\ a.uri = d.uri
    BY DEF LogSound
  <1>4. QED
    BY <1>1, <1>2, <1>3 DEF LogSound, AskSound

\* What is newly decided or answered was early and no longer is.
LEMMA ClosedStep ==
    ASSUME Closed, Fresh, serial \in Nat,
           \A o : Early(o)' => Early(o) \/ o = serial + 1,
           \A d \in decisions' :
              d \in decisions \/ (Early(d.origin) /\ ~Early(d.origin)'),
           \A d \in redirects' :
              d \in redirects \/ (Early(d.origin) /\ ~Early(d.origin)'),
           \A d, e \in decisions' \ decisions : d = e,
           \A d, e \in redirects' \ redirects : d = e
    PROVE  Closed'
  <1>1. \A d \in decisions' : ~Early(d.origin)'
    BY DEF Closed, Fresh
  <1>2. \A d \in redirects' : ~Early(d.origin)'
    BY DEF Closed, Fresh
  <1>3. \A d, e \in decisions' : d.origin = e.origin => d = e
    BY DEF Closed
  <1>4. \A d, e \in redirects' : d.origin = e.origin => d = e
    BY DEF Closed
  <1>5. QED
    BY <1>1, <1>2, <1>3, <1>4 DEF Closed

\* A new carrier has an old authorization or the handle just minted.
LEMMA FreshStep ==
    ASSUME Fresh, serial \in Nat, serial' \in {serial, serial + 1},
           \A k, w, o : Carries(k, w, o)' =>
              \/ \E l, v : Carries(l, v, o)
              \/ o = serial' /\ serial' = serial + 1,
           \A d \in decisions' : d \in decisions \/ Early(d.origin),
           \A d \in redirects' : d \in redirects \/ Early(d.origin)
    PROVE  Fresh'
  <1>1. \A n \in 1 .. serial : n \in 1 .. serial'
    OBVIOUS
  <1>2. \A o : Early(o) => o \in 1 .. serial
    BY EarlyCarried DEF Fresh
  <1>3. serial' = serial + 1 => serial' \in 1 .. serial'
    OBVIOUS
  <1>4. \A k, w, o : Carries(k, w, o)' => o \in 1 .. serial'
    BY <1>1, <1>3 DEF Fresh
  <1>5. QED
    BY <1>1, <1>2, <1>4 DEF Fresh

\* What every step has to show.
StepSound ==
    /\ TypeOK' /\ Sole' /\ RowsSound'
    /\ serial' \in {serial, serial + 1}
    /\ \A k, w, o : Carries(k, w, o)' =>
          \/ \E l, v : Carries(l, v, o)
          \/ o = serial' /\ serial' = serial + 1
    /\ \A o : Early(o)' => Early(o) \/ o = serial + 1
    /\ asked \subseteq asked' /\ decisions \subseteq decisions'
    /\ \A a \in asked' : a \in asked \/ AskSound(a)
    /\ \A t \in issued' : t \in issued \/ (JwtSound(t)' /\ Consented(t)')
    /\ \A d \in decisions' : d \in decisions \/ (Early(d.origin) /\ ~Early(d.origin)')
    /\ \A d, e \in decisions' \ decisions : d = e
    /\ \A d \in redirects' :
          \/ d \in redirects
          \/ /\ Early(d.origin) /\ ~Early(d.origin)'
             /\ \E a \in asked' : a.state = d.origin /\ a.uri = d.uri
    /\ \A d, e \in redirects' \ redirects : d = e

\* A sound step keeps the invariant.
LEMMA StepSuffices == ASSUME AInv, StepSound PROVE AInv'
  <1>1. serial \in Nat
    BY MaxHandlesAssumption DEF AInv, TypeOK
  <1>2. Fresh'
    BY <1>1, FreshStep DEF AInv, StepSound
  <1>3. Closed'
    BY <1>1, ClosedStep DEF AInv, StepSound
  <1>4. LogSound'
    BY LogStep DEF AInv, StepSound
  <1>5. QED
    BY <1>2, <1>3, <1>4 DEF AInv, StepSound

\* A step that leaves the history alone.
LEMMA QuietStep ==
    ASSUME UNCHANGED log, TypeOK', Sole', RowsSound',
           serial' \in {serial, serial + 1},
           \A k, w, o : Carries(k, w, o)' => \E l, v : Carries(l, v, o),
           \A o : Early(o)' => Early(o)
    PROVE  StepSound
  BY DEF StepSound, log

-----------------------------------------------------------------------------
(* Every action is sound *)

\* The client registry is no part of an authorization.
LEMMA ClientsSound ==
    ASSUME AInv, UNCHANGED <<rows, req, serial, log>>, TypeOK'
    PROVE  StepSound
  <1>1. /\ pending' = pending /\ confirmations' = confirmations /\ codes' = codes
        /\ req' = req /\ serial' = serial /\ issued' = issued /\ burnt' = burnt
        /\ asked' = asked /\ decisions' = decisions /\ redirects' = redirects
    BY DEF rows, log
  <1>2. \A k, w, o : Carries(k, w, o)' <=> Carries(k, w, o)
    BY <1>1 DEF Carries, Origin
  <1>3. Sole'
    BY <1>2, SoleShrinks DEF Shrinks, AInv
  <1>4. \A o : Early(o)' => Early(o)
    BY <1>1 DEF Early, Origin
  <1>5. RowsSound'
    BY <1>1, RowsStep DEF AInv
  <1>6. QED
    BY <1>1, <1>2, <1>3, <1>4, <1>5, QuietStep DEF log

\* Register: DCRHandler stores a validated client.
LEMMA RegisterSound ==
    ASSUME AInv, NEW c \in Registered, NEW m \in Document, Register(c, m)
    PROVE  StepSound
  <1> DEFINE n == [m EXCEPT !.scope = normalizeScope(m.scope, DefaultScope),
                            !.refresh = TRUE]
  <1>1. n \in Metadata
    BY InputAssumption, ScopeAssumption DEF Metadata, normalizeScope
  <1>2. ValidMetadata(n) /\ clients' = [clients EXCEPT ![c] = {n}]
    BY DEF Register
  <1>3. UNCHANGED <<documents, rows, req, serial, log>>
    BY DEF Register
  <1> HIDE DEF n
  <1>4. c \in Client
    BY DEF Client
  <1>5. TypeOK'
    <2>1. clients' \in [Client -> SUBSET Metadata]
      BY <1>1, <1>2, <1>4 DEF AInv, TypeOK
    <2>2. \A d \in Client : \A k \in clients'[d] : ValidMetadata(k)
      BY <1>2, <1>4 DEF AInv, TypeOK
    <2>3. QED
      BY <1>3, <2>1, <2>2 DEF AInv, TypeOK, ValidMetadata, rows, log
  <1>6. QED
    BY <1>3, <1>5, ClientsSound

\* EnsureUIClient: the dashboard's own metadata is valid.
LEMMA EnsureUISound == ASSUME AInv, EnsureUIClient PROVE StepSound
  <1>1. UIMetadata \in Metadata /\ ValidMetadata(UIMetadata)
    BY UIAssumption, ScopeAssumption DEF UIMetadata, Metadata, ValidMetadata
  <1>2. clients' = [clients EXCEPT ![UI] = {UIMetadata}]
    BY DEF EnsureUIClient
  <1>3. UNCHANGED <<documents, rows, req, serial, log>>
    BY DEF EnsureUIClient
  <1>4. UI \in Client
    BY DEF Client
  <1>5. TypeOK'
    <2>1. clients' \in [Client -> SUBSET Metadata]
      BY <1>1, <1>2, <1>4 DEF AInv, TypeOK
    <2>2. \A d \in Client : \A k \in clients'[d] : ValidMetadata(k)
      BY <1>1, <1>2, <1>4 DEF AInv, TypeOK
    <2>3. QED
      BY <1>3, <2>1, <2>2 DEF AInv, TypeOK, ValidMetadata, rows, log
  <1>6. QED
    BY <1>3, <1>5, ClientsSound

\* Publish: documents are not rows, and need not be valid.
LEMMA PublishSound ==
    ASSUME AInv, NEW c \in Published,
           NEW served \in {{}} \cup {{m} : m \in Document}, Publish(c, served)
    PROVE  StepSound
  <1>1. served \subseteq Metadata
    BY InputAssumption
  <1>2. UNCHANGED <<clients, rows, req, serial, log>>
    BY DEF Publish
  <1>3. TypeOK'
    BY <1>1, <1>2 DEF Publish, AInv, TypeOK, ValidMetadata, rows, log
  <1>4. QED
    BY <1>2, <1>3, ClientsSound

\* CallbackBegin: a callback takes the authorization over from its pending row.
LEMMA CallbackBeginSound ==
    ASSUME AInv, NEW r \in Req, NEW p \in pending, CallbackBegin(r, p)
    PROVE  StepSound
  <1> DEFINE s == [pc |-> "callback", pending |-> p]
  <1>1. p \in PendingAuth /\ PendingSound(p) /\ req[r].pc = "idle"
    BY DEF CallbackBegin, AInv, TypeOK, RowsSound
  <1>2. s \in Request /\ s.pc = "callback" /\ s.pending = p
    BY <1>1 DEF Request
  <1>3. /\ pending' = pending \ {p} /\ Goto(r, s)
        /\ confirmations' = confirmations /\ codes' = codes /\ serial' = serial
        /\ clients' = clients /\ documents' = documents /\ UNCHANGED log
    BY DEF CallbackBegin
  <1> HIDE DEF s
  <1>4. /\ req' \in [Req -> Request] /\ req'[r] = s
        /\ \A q \in Req : q # r => req'[q] = req[q]
    BY <1>2, <1>3, GotoOthers DEF AInv, TypeOK
  <1>5. Replaces("pending", p, "request", r, p.state)
    BY <1>1, <1>2, <1>3, <1>4 DEF Replaces, Carries, Origin, log
  <1>6. Sole'
    BY <1>5, SoleReplaces DEF AInv
  <1>7. \A k, w, o : Carries(k, w, o)' => \E l, v : Carries(l, v, o)
    BY <1>5 DEF Replaces
  <1>8. \A o : Early(o)' => Early(o)
    BY <1>2, <1>3, <1>4 DEF Early, Origin
  <1>9. RowsSound'
    <2>1. asked' = asked /\ decisions' = decisions
      BY <1>3 DEF log
    <2>2. PendingSound(p)'
      BY <1>1, <2>1, Monotone
    <2>3. ReqSound(req[r])'
      BY <1>2, <1>4, <2>2 DEF ReqSound
    <2>4. \A q \in Req : req'[q] = req[q] \/ ReqSound(req[q])'
      BY <1>4, <2>3
    <2>5. QED
      BY <1>3, <2>1, <2>4, RowsStep DEF AInv
  <1>10. TypeOK'
    BY <1>3, <1>4 DEF AInv, TypeOK, ValidMetadata, log
  <1>11. QED
    BY <1>3, <1>6, <1>7, <1>8, <1>9, <1>10, QuietStep

\* Identify: the callback keeps the authorization, now with a user.
LEMMA IdentifySound ==
    ASSUME AInv, NEW r \in Req, NEW u \in User, NEW backed \in BOOLEAN,
           Identify(r, u, backed)
    PROVE  StepSound
  <1>1. PICK p \in PendingAuth : p = req[r].pending
    BY ReqFields DEF Identify, AInv
  <1> DEFINE a == [origin |-> p.state, sub |-> u, client |-> p.client, uri |-> p.uri,
                   scope |-> p.scope, challenge |-> p.challenge,
                   refresh |-> p.refresh, backed |-> backed]
             s == [pc |-> "identified", confirm |-> p.confirm, auth |-> a]
  <1>2. req[r].pc = "callback" /\ Goto(r, s) /\ PendingSound(p)
    BY <1>1 DEF Identify, AInv, RowsSound, ReqSound
  <1>3. /\ a \in AuthCode /\ a.origin = p.state /\ a.client = p.client /\ a.uri = p.uri
        /\ a.scope = p.scope /\ a.challenge = p.challenge /\ a.refresh = p.refresh
    BY DEF AuthCode, PendingAuth
  <1>4. s \in Request /\ s.pc = "identified" /\ s.auth = a /\ s.confirm = p.confirm
    BY <1>3 DEF Request, PendingAuth
  <1>5. FromAsk(a.origin, a)
    BY <1>2, <1>3 DEF PendingSound, FromAsk
  <1>6. Origin(s) = Origin(req[r])
    BY <1>1, <1>2, <1>3, <1>4 DEF Origin
  <1>7. UNCHANGED <<clients, documents, rows, serial, log>>
    BY DEF Identify
  <1> HIDE DEF a, s
  <1>8. /\ req' \in [Req -> Request] /\ req'[r] = s
        /\ \A q \in Req : q # r => req'[q] = req[q]
    BY <1>2, <1>4, GotoOthers DEF AInv, TypeOK
  <1>9. \A k, w, o : Carries(k, w, o)' => Carries(k, w, o)
    BY <1>2, <1>4, <1>6, <1>7, <1>8 DEF Carries, Origin, rows, log
  <1>10. Sole'
    BY <1>9, SoleShrinks DEF AInv, Shrinks
  <1>11. \A o : Early(o)' => Early(o)
    BY <1>2, <1>4, <1>6, <1>7, <1>8 DEF Early, Origin, rows
  <1>12. RowsSound'
    <2>1. asked' = asked /\ decisions' = decisions
      BY <1>7 DEF log
    <2>2. FromAsk(a.origin, a)'
      BY <1>5, <2>1, Monotone
    <2>3. ReqSound(req[r])'
      BY <1>2, <1>3, <1>4, <1>8, <2>2 DEF ReqSound, PendingSound
    <2>4. \A q \in Req : req'[q] = req[q] \/ ReqSound(req[q])'
      BY <1>8, <2>3
    <2>5. QED
      BY <1>7, <2>1, <2>4, RowsStep DEF AInv, rows
  <1>13. TypeOK'
    BY <1>7, <1>8 DEF AInv, TypeOK, ValidMetadata, rows, log
  <1>14. QED
    BY <1>7, <1>9, <1>10, <1>11, <1>12, <1>13, QuietStep

\* ExchangeBegin: an exchange takes the authorization over from its code.
LEMMA ExchangeBeginSound ==
    ASSUME AInv, NEW r \in Req, NEW c \in codes, NEW form \in Form,
           ExchangeBegin(r, c, form)
    PROVE  StepSound
  <1> DEFINE s == [pc |-> "exchange", auth |-> c.auth, form |-> form]
  <1>1. /\ c \in CodeRow /\ req[r].pc = "idle"
        /\ FromAsk(c.auth.origin, c.auth) /\ Consented(c.auth)
    BY DEF ExchangeBegin, AInv, TypeOK, RowsSound
  <1>2. s \in Request /\ s.pc = "exchange" /\ s.auth = c.auth
    BY <1>1 DEF Request, CodeRow
  <1>3. /\ codes' = codes \ {c} /\ Goto(r, s)
        /\ confirmations' = confirmations /\ pending' = pending /\ serial' = serial
        /\ clients' = clients /\ documents' = documents /\ UNCHANGED log
    BY DEF ExchangeBegin
  <1> HIDE DEF s
  <1>4. /\ req' \in [Req -> Request] /\ req'[r] = s
        /\ \A q \in Req : q # r => req'[q] = req[q]
    BY <1>2, <1>3, GotoOthers DEF AInv, TypeOK
  <1>5. Replaces("code", c, "request", r, c.auth.origin)
    BY <1>1, <1>2, <1>3, <1>4 DEF Replaces, Carries, Origin, log
  <1>6. Sole'
    BY <1>5, SoleReplaces DEF AInv
  <1>7. \A k, w, o : Carries(k, w, o)' => \E l, v : Carries(l, v, o)
    BY <1>5 DEF Replaces
  <1>8. \A o : Early(o)' => Early(o)
    BY <1>2, <1>3, <1>4 DEF Early, Origin
  <1>9. RowsSound'
    <2>1. asked' = asked /\ decisions' = decisions
      BY <1>3 DEF log
    <2>2. FromAsk(c.auth.origin, c.auth)' /\ Consented(c.auth)'
      BY <1>1, <2>1, Monotone
    <2>3. ReqSound(req[r])'
      BY <1>2, <1>4, <2>2 DEF ReqSound
    <2>4. \A q \in Req : req'[q] = req[q] \/ ReqSound(req[q])'
      BY <1>4, <2>3
    <2>5. QED
      BY <1>3, <2>1, <2>4, RowsStep DEF AInv
  <1>10. TypeOK'
    BY <1>3, <1>4 DEF AInv, TypeOK, ValidMetadata, log
  <1>11. QED
    BY <1>3, <1>6, <1>7, <1>8, <1>9, <1>10, QuietStep

\* Fail: the authorization the request carried is lost.
LEMMA FailSound == ASSUME AInv, NEW r \in Req, Fail(r) PROVE StepSound
  <1>1. Goto(r, Idle) /\ UNCHANGED <<clients, documents, rows, serial, log>>
    BY DEF Fail
  <1>2. /\ req' \in [Req -> Request] /\ req'[r] = Idle
        /\ \A q \in Req : q # r => req'[q] = req[q]
    BY <1>1, GotoOthers, IdleTyped DEF AInv, TypeOK
  <1>3. \A k, w, o : Carries(k, w, o)' => Carries(k, w, o)
    BY <1>1, <1>2, IdleTyped DEF Carries, Origin, rows, log
  <1>4. Sole'
    BY <1>3, SoleShrinks DEF AInv, Shrinks
  <1>5. \A o : Early(o)' => Early(o)
    BY <1>1, <1>2, IdleTyped DEF Early, Origin, rows
  <1>6. RowsSound'
    <2>1. ReqSound(req[r])'
      BY <1>2, IdleTyped DEF ReqSound
    <2>2. \A q \in Req : req'[q] = req[q] \/ ReqSound(req[q])'
      BY <1>2, <2>1
    <2>3. QED
      BY <1>1, <2>2, RowsStep DEF AInv, rows, log
  <1>7. TypeOK'
    BY <1>1, <1>2 DEF AInv, TypeOK, ValidMetadata, rows, log
  <1>8. QED
    BY <1>1, <1>3, <1>4, <1>5, <1>6, <1>7, QuietStep

\* Mint yields a handle above all earlier ones.
LEMMA Minted ==
    ASSUME TypeOK, Mint
    PROVE  /\ serial' = serial + 1
           /\ serial' \in Handle /\ serial' \in 0 .. MaxHandles /\ serial + 1 \in Handle
  BY MaxHandlesAssumption DEF TypeOK, Mint, Handle

\* An authorization that has reached its code no longer awaits its answer.
LEMMA CodeNotEarly ==
    ASSUME Sole', NEW w, NEW o, Carries("code", w, o)'
    PROVE  ~Early(o)'
  <1>1. SUFFICES ASSUME Early(o)' PROVE FALSE
    OBVIOUS
  <1>2. PICK k, v : Carries(k, v, o)' /\ k # "code"
    BY <1>1 DEF Early, Carries
  <1>3. QED
    BY <1>2 DEF Sole

\* StoreConfirmation: a confirmation row takes the authorization over.
LEMMA StoreConfirmationSound ==
    ASSUME AInv, NEW r \in Req, StoreConfirmation(r)
    PROVE  StepSound
  <1>1. PICK a \in AuthCode : a = req[r].auth
    BY ReqFields DEF StoreConfirmation, AInv
  <1>2. PICK n \in Handle : n = serial + 1
    BY Minted DEF StoreConfirmation, AInv
  <1> DEFINE c == [token |-> n, auth |-> a, expired |-> FALSE]
  <1>3. /\ serial' = serial + 1 /\ serial' \in 0 .. MaxHandles
        /\ confirmations' = Live(confirmations) \cup {c} /\ Goto(r, Idle)
        /\ pending' = pending /\ codes' = codes
        /\ clients' = clients /\ documents' = documents /\ UNCHANGED log
    BY <1>1, <1>2, Minted DEF StoreConfirmation, AInv
  <1>4. c \in Confirmation /\ c.auth = a
    BY DEF Confirmation
  <1>5. /\ req[r].pc = "identified" /\ Origin(req[r]) = a.origin
        /\ FromAsk(a.origin, a) /\ a.client # UI
    BY <1>1 DEF StoreConfirmation, AInv, RowsSound, ReqSound, Origin
  <1> HIDE DEF c
  <1>6. /\ req' \in [Req -> Request] /\ req'[r] = Idle
        /\ \A q \in Req : q # r => req'[q] = req[q]
    BY <1>3, GotoOthers, IdleTyped DEF AInv, TypeOK
  <1>7. \A x \in confirmations' : x \in confirmations \/ x = c
    BY <1>3 DEF Live
  <1>8. Replaces("request", r, "confirmation", c, a.origin)
    BY <1>3, <1>4, <1>5, <1>6, <1>7, IdleTyped DEF Replaces, Carries, Origin, log
  <1>9. Sole'
    BY <1>8, SoleReplaces DEF AInv
  <1>10. \A k, w, o : Carries(k, w, o)' => \E l, v : Carries(l, v, o)
    BY <1>8 DEF Replaces
  <1>11. \A o : Early(o)' => Early(o)
    <2>1. Early(a.origin)
      BY <1>5 DEF Early
    <2>2. QED
      BY <1>3, <1>4, <1>6, <1>7, <2>1, IdleTyped DEF Early, Origin
  <1>12. RowsSound'
    <2>1. asked' = asked /\ decisions' = decisions
      BY <1>3 DEF log
    <2>2. FromAsk(c.auth.origin, c.auth)'
      BY <1>4, <1>5, <2>1, Monotone
    <2>3. ReqSound(req[r])'
      BY <1>6, IdleTyped DEF ReqSound
    <2>4. \A q \in Req : req'[q] = req[q] \/ ReqSound(req[q])'
      BY <1>6, <2>3
    <2>5. QED
      BY <1>3, <1>4, <1>5, <1>7, <2>1, <2>2, <2>4, RowsStep DEF AInv
  <1>13. TypeOK'
    BY <1>3, <1>4, <1>6, <1>7 DEF AInv, TypeOK, ValidMetadata, log
  <1>14. QED
    BY <1>3, <1>9, <1>10, <1>11, <1>12, <1>13, QuietStep

\* StoreAuthCode: a code row takes the dashboard's authorization over, and the
\* redirect answers it.
LEMMA StoreAuthCodeSound ==
    ASSUME AInv, NEW r \in Req, StoreAuthCode(r)
    PROVE  StepSound
  <1>1. PICK a \in AuthCode : a = req[r].auth
    BY ReqFields DEF StoreAuthCode, AInv
  <1>2. PICK n \in Handle : n = serial + 1
    BY Minted DEF StoreAuthCode, AInv
  <1> DEFINE c == [code |-> n, auth |-> a, expired |-> FALSE]
             d == [origin |-> a.origin, uri |-> a.uri, code |-> n]
  <1>3. /\ serial' = serial + 1 /\ serial' \in 0 .. MaxHandles
        /\ codes' = Live(codes) \cup {c} /\ Goto(r, Idle)
        /\ pending' = pending /\ confirmations' = confirmations
        /\ clients' = clients /\ documents' = documents
        /\ asked' = asked /\ decisions' = decisions /\ burnt' = burnt /\ issued' = issued
        /\ redirects' = redirects \/ redirects' = redirects \cup {d}
    BY <1>1, <1>2, Minted DEF StoreAuthCode, Redirects, AInv
  <1>4. /\ c \in CodeRow /\ c.auth = a
        /\ d \in Redirect /\ d.origin = a.origin /\ d.uri = a.uri
    BY DEF CodeRow, Redirect, AuthCode, Handle
  <1>5. /\ req[r].pc = "identified" /\ Origin(req[r]) = a.origin
        /\ FromAsk(a.origin, a) /\ a.client = UI
    BY <1>1 DEF StoreAuthCode, AInv, RowsSound, ReqSound, Origin
  <1> HIDE DEF c, d
  <1>6. /\ req' \in [Req -> Request] /\ req'[r] = Idle
        /\ \A q \in Req : q # r => req'[q] = req[q]
    BY <1>3, GotoOthers, IdleTyped DEF AInv, TypeOK
  <1>7. \A x \in codes' : x \in codes \/ x = c
    BY <1>3 DEF Live
  <1>8. Replaces("request", r, "code", c, a.origin)
    BY <1>3, <1>4, <1>5, <1>6, <1>7, IdleTyped DEF Replaces, Carries, Origin
  <1>9. Sole'
    BY <1>8, SoleReplaces DEF AInv
  <1>10. \A k, w, o : Carries(k, w, o)' => \E l, v : Carries(l, v, o)
    BY <1>8 DEF Replaces
  <1>11. Early(a.origin) /\ \A o : Early(o)' => Early(o)
    <2>1. Early(a.origin)
      BY <1>5 DEF Early
    <2>2. QED
      BY <1>3, <1>6, <2>1, IdleTyped DEF Early, Origin
  <1>12. ~Early(a.origin)'
    <2>1. Carries("code", c, a.origin)'
      BY <1>3, <1>4 DEF Carries
    <2>2. QED
      BY <1>9, <2>1, CodeNotEarly
  <1>13. RowsSound'
    <2>1. FromAsk(c.auth.origin, c.auth)' /\ Consented(c.auth)'
      BY <1>3, <1>4, <1>5, Monotone DEF Consented
    <2>2. ReqSound(req[r])'
      BY <1>6, IdleTyped DEF ReqSound
    <2>3. \A q \in Req : req'[q] = req[q] \/ ReqSound(req[q])'
      BY <1>6, <2>2
    <2>4. QED
      BY <1>3, <1>7, <2>1, <2>3, RowsStep DEF AInv
  <1>14. TypeOK'
    BY <1>3, <1>4, <1>6, <1>7 DEF AInv, TypeOK, ValidMetadata
  <1>15. \E b \in asked' : b.state = d.origin /\ b.uri = d.uri
    BY <1>3, <1>4, <1>5 DEF FromAsk
  <1>16. \A x \in redirects' : x \in redirects \/ x = d
    BY <1>3
  <1>17. \A x \in redirects' :
            \/ x \in redirects
            \/ /\ Early(x.origin) /\ ~Early(x.origin)'
               /\ \E b \in asked' : b.state = x.origin /\ b.uri = x.uri
    BY <1>4, <1>11, <1>12, <1>15, <1>16
  <1>18. QED
    BY <1>3, <1>9, <1>10, <1>11, <1>13, <1>14, <1>16, <1>17 DEF StepSound

\* ExchangeRefused: the authorization is burnt.
LEMMA ExchangeRefusedSound ==
    ASSUME AInv, NEW r \in Req, ExchangeRefused(r)
    PROVE  StepSound
  <1>1. PICK a \in AuthCode : a = req[r].auth
    BY ReqFields DEF ExchangeRefused, AInv
  <1>2. /\ Goto(r, Idle) /\ burnt' = burnt \cup {a.origin} /\ serial' = serial
        /\ UNCHANGED rows /\ clients' = clients /\ documents' = documents
        /\ asked' = asked /\ decisions' = decisions /\ redirects' = redirects
        /\ issued' = issued
    BY <1>1 DEF ExchangeRefused
  <1>3. req[r].pc = "exchange" /\ Origin(req[r]) = a.origin /\ a.origin \in Handle
    BY <1>1 DEF ExchangeRefused, Origin, AuthCode
  <1>4. /\ req' \in [Req -> Request] /\ req'[r] = Idle
        /\ \A q \in Req : q # r => req'[q] = req[q]
    BY <1>2, GotoOthers, IdleTyped DEF AInv, TypeOK
  <1>5. Replaces("request", r, "burnt", a.origin, a.origin)
    BY <1>2, <1>3, <1>4, IdleTyped DEF Replaces, Carries, Origin, rows
  <1>6. Sole'
    BY <1>5, SoleReplaces DEF AInv
  <1>7. \A k, w, o : Carries(k, w, o)' => \E l, v : Carries(l, v, o)
    BY <1>5 DEF Replaces
  <1>8. \A o : Early(o)' => Early(o)
    BY <1>2, <1>4, IdleTyped DEF Early, Origin, rows
  <1>9. RowsSound'
    <2>1. ReqSound(req[r])'
      BY <1>4, IdleTyped DEF ReqSound
    <2>2. \A q \in Req : req'[q] = req[q] \/ ReqSound(req[q])'
      BY <1>4, <2>1
    <2>3. QED
      BY <1>2, <2>2, RowsStep DEF AInv, rows
  <1>10. TypeOK'
    BY <1>2, <1>3, <1>4 DEF AInv, TypeOK, ValidMetadata, rows
  <1>11. QED
    BY <1>2, <1>6, <1>7, <1>8, <1>9, <1>10 DEF StepSound

\* ExchangeIssue: the JWT ends the authorization, and says what was granted.
LEMMA ExchangeIssueSound ==
    ASSUME AInv, NEW r \in Req, ExchangeIssue(r)
    PROVE  StepSound
  <1>1. PICK a \in AuthCode : a = req[r].auth
    BY ReqFields DEF ExchangeIssue, AInv
  <1>2. PICK f \in Form : f = req[r].form
    BY ReqFields DEF ExchangeIssue, AInv
  <1>3. PICK n \in Handle : n = serial + 1
    BY Minted DEF ExchangeIssue, AInv
  <1>4. /\ req[r].pc = "exchange" /\ ExchangeValid(a, f) /\ Goto(r, Idle)
        /\ serial' = serial + 1 /\ serial' \in 0 .. MaxHandles
        /\ UNCHANGED rows /\ clients' = clients /\ documents' = documents
        /\ asked' = asked /\ decisions' = decisions /\ redirects' = redirects
        /\ burnt' = burnt
    BY <1>1, <1>2, Minted DEF ExchangeIssue, AInv
  <1>5. PICK refresh \in {a.refresh /\ a.backed, FALSE} :
          issued' = issued \cup
            {[jti |-> n, origin |-> a.origin, sub |-> a.sub, client |-> a.client,
              uri |-> f.uri, scope |-> a.scope, verifier |-> f.verifier,
              refresh |-> refresh]}
    BY <1>1, <1>2, <1>3, Minted DEF ExchangeIssue, AInv
  <1> DEFINE t == [jti |-> n, origin |-> a.origin, sub |-> a.sub, client |-> a.client,
                   uri |-> f.uri, scope |-> a.scope, verifier |-> f.verifier,
                   refresh |-> refresh]
  <1>6. refresh \in BOOLEAN /\ (refresh => a.refresh)
    BY DEF AuthCode
  <1>7. /\ t.origin = a.origin /\ t.sub = a.sub /\ t.client = a.client
        /\ t.uri = f.uri /\ t.scope = a.scope /\ t.verifier = f.verifier
        /\ t.refresh = refresh
    OBVIOUS
  <1>8. t \in Jwt
    BY <1>6 DEF Jwt, AuthCode, Form
  <1>9. issued' = issued \cup {t}
    BY <1>5
  <1> HIDE DEF t
  <1>10. FromAsk(a.origin, a) /\ Consented(a)
    BY <1>1, <1>4 DEF AInv, RowsSound, ReqSound
  <1>11. JwtSound(t)
    <2>1. PICK b \in asked :
            /\ b.state = a.origin /\ b.client = a.client /\ b.uri = a.uri
            /\ b.scope = a.scope /\ b.challenge = a.challenge
            /\ b.metadata.refresh = a.refresh
      BY <1>10 DEF FromAsk
    <2>2. b.scope \subseteq b.metadata.scope
      BY DEF AInv, LogSound, AskSound
    <2>3. t.refresh => b.metadata.refresh
      BY <1>6, <1>7, <2>1
    <2>4. t.uri = b.uri /\ S256(t.verifier) = b.challenge
      BY <1>4, <1>7, <2>1 DEF ExchangeValid
    <2>5. QED
      BY <1>7, <2>1, <2>2, <2>3, <2>4 DEF JwtSound
  <1>12. Consented(t)
    BY <1>7, <1>10 DEF Consented
  <1>13. JwtSound(t)' /\ Consented(t)'
    BY <1>4, <1>11, <1>12, Monotone
  <1>14. Origin(req[r]) = a.origin
    BY <1>1, <1>4 DEF Origin
  <1>15. /\ req' \in [Req -> Request] /\ req'[r] = Idle
         /\ \A q \in Req : q # r => req'[q] = req[q]
    BY <1>4, GotoOthers, IdleTyped DEF AInv, TypeOK
  <1>16. Replaces("request", r, "issued", t, a.origin)
    BY <1>4, <1>7, <1>9, <1>14, <1>15, IdleTyped DEF Replaces, Carries, Origin, rows
  <1>17. Sole'
    BY <1>16, SoleReplaces DEF AInv
  <1>18. \A k, w, o : Carries(k, w, o)' => \E l, v : Carries(l, v, o)
    BY <1>16 DEF Replaces
  <1>19. \A o : Early(o)' => Early(o)
    BY <1>4, <1>15, IdleTyped DEF Early, Origin, rows
  <1>20. RowsSound'
    <2>1. ReqSound(req[r])'
      BY <1>15, IdleTyped DEF ReqSound
    <2>2. \A q \in Req : req'[q] = req[q] \/ ReqSound(req[q])'
      BY <1>15, <2>1
    <2>3. QED
      BY <1>4, <2>2, RowsStep DEF AInv, rows
  <1>21. TypeOK'
    BY <1>4, <1>8, <1>9, <1>15 DEF AInv, TypeOK, ValidMetadata, rows
  <1>22. QED
    BY <1>4, <1>9, <1>13, <1>17, <1>18, <1>19, <1>20, <1>21 DEF StepSound

\* Approve: a code takes the authorization over from the confirmation, with the
\* user's consent; the redirect answers it.
LEMMA ApproveSound ==
    ASSUME AInv, NEW c \in confirmations, Approve(c)
    PROVE  StepSound
  <1>1. PICK a \in AuthCode : a = c.auth
    BY DEF AInv, TypeOK, Confirmation
  <1>2. PICK n \in Handle : n = serial + 1
    BY Minted DEF Approve, AInv
  <1> DEFINE x == [code |-> n, auth |-> a, expired |-> FALSE]
             d == [origin |-> a.origin, uri |-> a.uri, code |-> n]
             e == [origin |-> a.origin, sub |-> a.sub, approve |-> TRUE]
  <1>3. /\ serial' = serial + 1 /\ serial' \in 0 .. MaxHandles
        /\ confirmations' = confirmations \ {c} /\ codes' = codes \cup {x}
        /\ decisions' = decisions \cup {e}
        /\ redirects' = redirects \/ redirects' = redirects \cup {d}
        /\ pending' = pending /\ req' = req /\ clients' = clients
        /\ documents' = documents
        /\ asked' = asked /\ burnt' = burnt /\ issued' = issued
    BY <1>1, <1>2, Minted DEF Approve, Redirects, AInv
  <1>4. /\ x \in CodeRow /\ x.auth = a /\ e \in Decision /\ e.origin = a.origin
        /\ d \in Redirect /\ d.origin = a.origin /\ d.uri = a.uri
    BY DEF CodeRow, Redirect, Decision, AuthCode, Handle
  <1>5. Consented(a)'
    BY <1>3 DEF Consented
  <1>6. FromAsk(a.origin, a)
    BY <1>1 DEF AInv, RowsSound
  <1> HIDE DEF x, d, e
  <1>7. Replaces("confirmation", c, "code", x, a.origin)
    BY <1>1, <1>3, <1>4 DEF Replaces, Carries, Origin
  <1>8. Sole'
    BY <1>7, SoleReplaces DEF AInv
  <1>9. \A k, w, o : Carries(k, w, o)' => \E l, v : Carries(l, v, o)
    BY <1>7 DEF Replaces
  <1>10. Early(a.origin) /\ \A o : Early(o)' => Early(o)
    BY <1>1, <1>3 DEF Early, Origin
  <1>11. ~Early(a.origin)'
    <2>1. Carries("code", x, a.origin)'
      BY <1>3, <1>4 DEF Carries
    <2>2. QED
      BY <1>8, <2>1, CodeNotEarly
  <1>12. RowsSound'
    <2>1. FromAsk(x.auth.origin, x.auth)' /\ Consented(x.auth)'
      BY <1>3, <1>4, <1>5, <1>6, Monotone
    <2>2. QED
      BY <1>3, <2>1, RowsStep DEF AInv
  <1>13. TypeOK'
    BY <1>3, <1>4 DEF AInv, TypeOK, ValidMetadata
  <1>14. \E b \in asked' : b.state = d.origin /\ b.uri = d.uri
    BY <1>3, <1>4, <1>6 DEF FromAsk
  <1>15. /\ \A y \in redirects' : y \in redirects \/ y = d
         /\ \A y \in decisions' : y \in decisions \/ y = e
    BY <1>3
  <1>16. \A y \in redirects' :
            \/ y \in redirects
            \/ /\ Early(y.origin) /\ ~Early(y.origin)'
               /\ \E b \in asked' : b.state = y.origin /\ b.uri = y.uri
    BY <1>4, <1>10, <1>11, <1>14, <1>15
  <1>17. \A y \in decisions' : y \in decisions \/ (Early(y.origin) /\ ~Early(y.origin)')
    BY <1>4, <1>10, <1>11, <1>15
  <1>18. QED
    BY <1>3, <1>8, <1>9, <1>10, <1>12, <1>13, <1>15, <1>16, <1>17 DEF StepSound

\* Deny: the confirmation was the only carrier, so nothing of the authorization
\* is left to answer.
LEMMA DenySound ==
    ASSUME AInv, NEW c \in confirmations, Deny(c)
    PROVE  StepSound
  <1>1. PICK a \in AuthCode : a = c.auth
    BY DEF AInv, TypeOK, Confirmation
  <1> DEFINE d == [origin |-> a.origin, uri |-> a.uri, code |-> 0]
             e == [origin |-> a.origin, sub |-> a.sub, approve |-> FALSE]
  <1>2. /\ confirmations' = confirmations \ {c} /\ decisions' = decisions \cup {e}
        /\ redirects' = redirects \/ redirects' = redirects \cup {d}
        /\ pending' = pending /\ codes' = codes /\ req' = req /\ serial' = serial
        /\ clients' = clients /\ documents' = documents
        /\ asked' = asked /\ burnt' = burnt /\ issued' = issued
    BY <1>1 DEF Deny, Redirects
  <1>3. /\ e \in Decision /\ e.origin = a.origin
        /\ d \in Redirect /\ d.origin = a.origin /\ d.uri = a.uri
    BY MaxHandlesAssumption DEF Redirect, Decision, AuthCode, Handle
  <1>4. FromAsk(a.origin, a)
    BY <1>1 DEF AInv, RowsSound
  <1> HIDE DEF d, e
  <1>5. \A k, w, o : Carries(k, w, o)' =>
           Carries(k, w, o) /\ ~(k = "confirmation" /\ w = c)
    BY <1>2 DEF Carries, Origin
  <1>6. Sole'
    BY <1>5, SoleShrinks DEF AInv, Shrinks
  <1>7. Early(a.origin) /\ \A o : Early(o)' => Early(o)
    BY <1>1, <1>2 DEF Early, Origin
  <1>8. ~Early(a.origin)'
    <2>1. SUFFICES ASSUME Early(a.origin)' PROVE FALSE
      OBVIOUS
    <2>2. PICK k, w : Carries(k, w, a.origin)'
      BY <2>1 DEF Early, Carries
    <2>3. Carries("confirmation", c, a.origin)
      BY <1>1 DEF Carries
    <2>4. QED
      BY <1>5, <2>2, <2>3 DEF AInv, Sole
  <1>9. RowsSound'
    BY <1>2, RowsStep DEF AInv
  <1>10. TypeOK'
    BY <1>2, <1>3 DEF AInv, TypeOK, ValidMetadata
  <1>11. \E b \in asked' : b.state = d.origin /\ b.uri = d.uri
    BY <1>2, <1>3, <1>4 DEF FromAsk
  <1>12. /\ \A y \in redirects' : y \in redirects \/ y = d
         /\ \A y \in decisions' : y \in decisions \/ y = e
    BY <1>2
  <1>13. \A y \in redirects' :
            \/ y \in redirects
            \/ /\ Early(y.origin) /\ ~Early(y.origin)'
               /\ \E b \in asked' : b.state = y.origin /\ b.uri = y.uri
    BY <1>3, <1>7, <1>8, <1>11, <1>12
  <1>14. \A y \in decisions' : y \in decisions \/ (Early(y.origin) /\ ~Early(y.origin)')
    BY <1>3, <1>7, <1>8, <1>12
  <1>15. QED
    BY <1>2, <1>5, <1>6, <1>7, <1>9, <1>10, <1>12, <1>13, <1>14 DEF StepSound

\* Expire: a row and its expired copy carry the same authorization.
LEMMA ExpireSound == ASSUME AInv, Expire PROVE StepSound
  <1>1. UNCHANGED <<clients, documents, req, serial, log>>
    BY DEF Expire
  <1>2. /\ TypeOK' /\ \E k, v, w, o : Replaces(k, v, k, w, o)
        /\ \A o : Early(o)' => Early(o)
        /\ RowsSound'
    <2>1. ASSUME NEW p \in Live(pending),
                 pending' = (pending \ {p}) \cup {[p EXCEPT !.expired = TRUE]},
                 confirmations' = confirmations, codes' = codes
          PROVE  /\ TypeOK' /\ \E k, v, w, o : Replaces(k, v, k, w, o)
                 /\ \A o : Early(o)' => Early(o)
                 /\ RowsSound'
      <3> DEFINE q == [p EXCEPT !.expired = TRUE]
      <3>1. p \in pending /\ p \in PendingAuth /\ PendingSound(p)
        BY DEF Live, AInv, TypeOK, RowsSound
      <3>2. /\ q \in PendingAuth /\ q.state = p.state /\ q.client = p.client
            /\ q.uri = p.uri /\ q.scope = p.scope /\ q.challenge = p.challenge
            /\ q.refresh = p.refresh /\ q.confirm = p.confirm
        BY <3>1 DEF PendingAuth
      <3>3. pending' = (pending \ {p}) \cup {q}
        BY <2>1
      <3> HIDE DEF q
      <3>4. PendingSound(q)'
        BY <1>1, <3>1, <3>2 DEF PendingSound, FromAsk, log
      <3>5. RowsSound'
        BY <1>1, <2>1, <3>3, <3>4, RowsStep DEF AInv, log
      <3>6. Replaces("pending", p, "pending", q, p.state)
        BY <1>1, <2>1, <3>1, <3>2, <3>3 DEF Replaces, Carries, Origin, log
      <3>7. \A o : Early(o)' => Early(o)
        BY <1>1, <2>1, <3>1, <3>2, <3>3 DEF Early, Origin
      <3>8. TypeOK'
        BY <1>1, <2>1, <3>2, <3>3 DEF AInv, TypeOK, ValidMetadata, log
      <3>9. QED
        BY <3>5, <3>6, <3>7, <3>8
    <2>2. ASSUME NEW p \in Live(confirmations),
                 confirmations' = (confirmations \ {p}) \cup {[p EXCEPT !.expired = TRUE]},
                 pending' = pending, codes' = codes
          PROVE  /\ TypeOK' /\ \E k, v, w, o : Replaces(k, v, k, w, o)
                 /\ \A o : Early(o)' => Early(o)
                 /\ RowsSound'
      <3> DEFINE q == [p EXCEPT !.expired = TRUE]
      <3>1. /\ p \in confirmations /\ p \in Confirmation
            /\ FromAsk(p.auth.origin, p.auth) /\ p.auth.client # UI
        BY DEF Live, AInv, TypeOK, RowsSound
      <3>2. q \in Confirmation /\ q.auth = p.auth
        BY <3>1 DEF Confirmation
      <3>3. confirmations' = (confirmations \ {p}) \cup {q}
        BY <2>2
      <3> HIDE DEF q
      <3>4. FromAsk(q.auth.origin, q.auth)' /\ q.auth.client # UI
        BY <1>1, <3>1, <3>2, Monotone DEF log
      <3>5. RowsSound'
        BY <1>1, <2>2, <3>3, <3>4, RowsStep DEF AInv, log
      <3>6. Replaces("confirmation", p, "confirmation", q, p.auth.origin)
        BY <1>1, <2>2, <3>1, <3>2, <3>3 DEF Replaces, Carries, Origin, log
      <3>7. \A o : Early(o)' => Early(o)
        BY <1>1, <2>2, <3>1, <3>2, <3>3 DEF Early, Origin
      <3>8. TypeOK'
        BY <1>1, <2>2, <3>2, <3>3 DEF AInv, TypeOK, ValidMetadata, log
      <3>9. QED
        BY <3>5, <3>6, <3>7, <3>8
    <2>3. ASSUME NEW p \in Live(codes),
                 codes' = (codes \ {p}) \cup {[p EXCEPT !.expired = TRUE]},
                 pending' = pending, confirmations' = confirmations
          PROVE  /\ TypeOK' /\ \E k, v, w, o : Replaces(k, v, k, w, o)
                 /\ \A o : Early(o)' => Early(o)
                 /\ RowsSound'
      <3> DEFINE q == [p EXCEPT !.expired = TRUE]
      <3>1. /\ p \in codes /\ p \in CodeRow
            /\ FromAsk(p.auth.origin, p.auth) /\ Consented(p.auth)
        BY DEF Live, AInv, TypeOK, RowsSound
      <3>2. q \in CodeRow /\ q.auth = p.auth
        BY <3>1 DEF CodeRow
      <3>3. codes' = (codes \ {p}) \cup {q}
        BY <2>3
      <3> HIDE DEF q
      <3>4. FromAsk(q.auth.origin, q.auth)' /\ Consented(q.auth)'
        BY <1>1, <3>1, <3>2, Monotone DEF log
      <3>5. RowsSound'
        BY <1>1, <2>3, <3>3, <3>4, RowsStep DEF AInv, log
      <3>6. Replaces("code", p, "code", q, p.auth.origin)
        BY <1>1, <2>3, <3>1, <3>2, <3>3 DEF Replaces, Carries, Origin, log
      <3>7. \A o : Early(o)' => Early(o)
        BY <1>1, <2>3 DEF Early, Origin
      <3>8. TypeOK'
        BY <1>1, <2>3, <3>2, <3>3 DEF AInv, TypeOK, ValidMetadata, log
      <3>9. QED
        BY <3>5, <3>6, <3>7, <3>8
    <2>4. QED
      BY <2>1, <2>2, <2>3 DEF Expire
  <1>3. Sole'
    BY <1>2, SoleReplaces DEF AInv
  <1>4. \A k, w, o : Carries(k, w, o)' => \E l, v : Carries(l, v, o)
    BY <1>2 DEF Replaces
  <1>5. QED
    BY <1>1, <1>2, <1>3, <1>4, QuietStep

\* A client AuthorizeHandler resolves has valid metadata that allows the redirect.
LEMMA ResolvedSound ==
    ASSUME TypeOK, NEW c \in Client, NEW u \in URI, NEW m \in ResolvedClient(c, u)
    PROVE  /\ m \in Metadata /\ u.site \in Safe
           /\ \/ u \in m.redirects
              \/ /\ c \in Published /\ u.site \in Loopback
                 /\ \E a \in m.redirects : a.site = u.site
  <1>1. PICK a \in m.redirects : redirectURIMatches(a, u, clients[c] = {})
    BY DEF ResolvedClient
  <1>2. CASE clients[c] = {} /\ c \in Published
    <2>1. m \in Resolve(c)
      BY <1>2 DEF ResolvedClient
    <2>2. PICK d \in documents[c] :
            m = [d EXCEPT !.scope = normalizeScope(d.scope, DefaultScope)]
      BY <2>1 DEF Resolve
    <2>3. d \in Metadata
      BY <1>2, <2>2 DEF TypeOK
    <2>4. m \in Metadata
      BY <2>2, <2>3, ScopeAssumption DEF Metadata, normalizeScope
    <2>5. \A v \in m.redirects : v.site \in Safe
      BY <2>1 DEF Resolve, ValidMetadata
    <2>6. QED
      BY <1>1, <1>2, <2>4, <2>5, SiteAssumption DEF redirectURIMatches
  <1>3. CASE ~(clients[c] = {} /\ c \in Published)
    <2>1. m \in clients[c]
      BY <1>3 DEF ResolvedClient
    <2>2. m \in Metadata /\ \A v \in m.redirects : v.site \in Safe
      BY <2>1 DEF TypeOK, ValidMetadata
    <2>3. clients[c] # {}
      BY <2>1
    <2>4. QED
      BY <1>1, <2>2, <2>3 DEF redirectURIMatches
  <1>4. QED
    BY <1>2, <1>3

\* Authorize: a new authorization, of the handle just minted.
LEMMA AuthorizeSound ==
    ASSUME AInv, NEW c \in Client, NEW u \in URI, NEW scope \in Ask,
           NEW challenge \in Challenge, Authorize(c, u, scope, challenge)
    PROVE  StepSound
  <1>1. PICK m \in ResolvedClient(c, u) : \E s \in GrantedScope(scope, m) :
          /\ Mint
          /\ pending' = Live(pending) \cup
                {[state |-> serial', client |-> c, uri |-> u, scope |-> s,
                  challenge |-> challenge, refresh |-> m.refresh,
                  confirm |-> authorizationConfirmationRequired(c), expired |-> FALSE]}
          /\ asked' = asked \cup
                {[state |-> serial', client |-> c, uri |-> u, scope |-> s,
                  challenge |-> challenge, metadata |-> m]}
          /\ UNCHANGED <<clients, documents, confirmations, codes, req,
                         decisions, redirects, burnt, issued>>
    BY DEF Authorize
  <1>2. PICK s \in GrantedScope(scope, m) :
          /\ Mint
          /\ pending' = Live(pending) \cup
                {[state |-> serial', client |-> c, uri |-> u, scope |-> s,
                  challenge |-> challenge, refresh |-> m.refresh,
                  confirm |-> authorizationConfirmationRequired(c), expired |-> FALSE]}
          /\ asked' = asked \cup
                {[state |-> serial', client |-> c, uri |-> u, scope |-> s,
                  challenge |-> challenge, metadata |-> m]}
          /\ UNCHANGED <<clients, documents, confirmations, codes, req,
                         decisions, redirects, burnt, issued>>
    BY <1>1
  <1>3. PICK n \in Handle : n = serial + 1
    BY <1>2, Minted DEF AInv
  <1> DEFINE p == [state |-> n, client |-> c, uri |-> u, scope |-> s,
                   challenge |-> challenge, refresh |-> m.refresh,
                   confirm |-> authorizationConfirmationRequired(c), expired |-> FALSE]
             a == [state |-> n, client |-> c, uri |-> u, scope |-> s,
                   challenge |-> challenge, metadata |-> m]
  <1>4. /\ serial' = serial + 1 /\ serial' \in 0 .. MaxHandles /\ serial' = n
        /\ pending' = Live(pending) \cup {p} /\ asked' = asked \cup {a}
    BY <1>2, <1>3, Minted DEF AInv
  <1>5. /\ m \in Metadata /\ u.site \in Safe
        /\ \/ u \in m.redirects
           \/ /\ c \in Published /\ u.site \in Loopback
              /\ \E v \in m.redirects : v.site = u.site
    BY ResolvedSound DEF AInv
  <1>6. s \subseteq m.scope /\ s \subseteq Scope
    BY ScopeAssumption DEF GrantedScope
  <1>7. /\ p \in PendingAuth /\ p.state = n /\ p.client = c /\ p.uri = u /\ p.scope = s
        /\ p.challenge = challenge /\ p.refresh = m.refresh /\ p.confirm = (c # UI)
    BY <1>5, <1>6 DEF PendingAuth, Metadata, authorizationConfirmationRequired
  <1>8. /\ a \in Asked /\ a.state = n /\ a.client = c /\ a.uri = u /\ a.scope = s
        /\ a.challenge = challenge /\ a.metadata = m
    BY <1>5, <1>6 DEF Asked
  <1> HIDE DEF p, a
  <1>9. AskSound(a)
    BY <1>5, <1>6, <1>8 DEF AskSound
  <1>10. \A x \in pending' : x \in pending \/ x = p
    BY <1>4 DEF Live
  <1>11. Adds("pending", p, n)
    BY <1>2, <1>7, <1>10 DEF Adds, Carries, Origin
  <1>12. Sole'
    <2>1. n \notin 1 .. serial
      BY <1>3, MaxHandlesAssumption DEF AInv, TypeOK
    <2>2. \A k, w : ~Carries(k, w, n)
      BY <2>1 DEF AInv, Fresh
    <2>3. QED
      BY <1>11, <2>2, SoleAdds DEF AInv
  <1>13. \A k, w, o : Carries(k, w, o)' =>
            (\E l, v : Carries(l, v, o)) \/ o = serial'
    BY <1>4, <1>11 DEF Adds
  <1>14. \A o : Early(o)' => Early(o) \/ o = serial + 1
    BY <1>2, <1>3, <1>7, <1>10 DEF Early, Origin
  <1>15. RowsSound'
    <2>1. PendingSound(p)'
      BY <1>4, <1>7, <1>8 DEF PendingSound, FromAsk
    <2>2. QED
      BY <1>2, <1>4, <1>10, <2>1, RowsStep DEF AInv
  <1>16. TypeOK'
    BY <1>2, <1>4, <1>7, <1>8, <1>10 DEF AInv, TypeOK, ValidMetadata
  <1>17. QED
    BY <1>2, <1>4, <1>9, <1>12, <1>13, <1>14, <1>15, <1>16 DEF StepSound

-----------------------------------------------------------------------------
(* The theorems *)

\* At the start there are no clients, no rows and no history.
LEMMA AInit == Init => AInv
  <1>1. SUFFICES ASSUME Init PROVE AInv
    OBVIOUS
  <1>2. \A r \in Req : req[r] = Idle /\ req[r].pc = "idle"
    BY <1>1, IdleTyped DEF Init
  <1>3. TypeOK
    BY <1>1, IdleTyped, MaxHandlesAssumption DEF Init, TypeOK
  <1>4. \A k, w, o : ~Carries(k, w, o)
    BY <1>1, <1>2 DEF Init, Carries
  <1>5. Sole /\ Fresh /\ Closed
    BY <1>1, <1>4 DEF Init, Sole, Fresh, Closed
  <1>6. RowsSound /\ LogSound
    BY <1>1, <1>2 DEF Init, RowsSound, LogSound, ReqSound
  <1>7. QED
    BY <1>3, <1>5, <1>6 DEF AInv

\* Every step of the flow keeps the invariant, and so does a stuttering step.
LEMMA AInvNext == AInv /\ [Next]_vars => AInv'
  <1>1. ASSUME AInv, Next PROVE AInv'
    <2>1. ASSUME NEW c \in Registered, NEW m \in Document, Register(c, m) PROVE AInv'
      BY <1>1, <2>1, RegisterSound, StepSuffices
    <2>2. CASE EnsureUIClient
      BY <1>1, <2>2, EnsureUISound, StepSuffices
    <2>3. ASSUME NEW c \in Published, NEW served \in {{}} \cup {{m} : m \in Document},
                 Publish(c, served)
          PROVE  AInv'
      BY <1>1, <2>3, PublishSound, StepSuffices
    <2>4. ASSUME NEW c \in Client, NEW u \in URI, NEW scope \in Ask,
                 NEW challenge \in Challenge, Authorize(c, u, scope, challenge)
          PROVE  AInv'
      BY <1>1, <2>4, AuthorizeSound, StepSuffices
    <2>5. ASSUME NEW r \in Req, NEW p \in pending, CallbackBegin(r, p) PROVE AInv'
      BY <1>1, <2>5, CallbackBeginSound, StepSuffices
    <2>6. ASSUME NEW r \in Req, NEW u \in User, NEW backed \in BOOLEAN,
                 Identify(r, u, backed)
          PROVE  AInv'
      BY <1>1, <2>6, IdentifySound, StepSuffices
    <2>7. ASSUME NEW r \in Req, StoreConfirmation(r) PROVE AInv'
      BY <1>1, <2>7, StoreConfirmationSound, StepSuffices
    <2>8. ASSUME NEW r \in Req, StoreAuthCode(r) PROVE AInv'
      BY <1>1, <2>8, StoreAuthCodeSound, StepSuffices
    <2>9. ASSUME NEW r \in Req, NEW c \in codes, NEW form \in Form,
                 ExchangeBegin(r, c, form)
          PROVE  AInv'
      BY <1>1, <2>9, ExchangeBeginSound, StepSuffices
    <2>10. ASSUME NEW r \in Req, ExchangeRefused(r) PROVE AInv'
      BY <1>1, <2>10, ExchangeRefusedSound, StepSuffices
    <2>11. ASSUME NEW r \in Req, ExchangeIssue(r) PROVE AInv'
      BY <1>1, <2>11, ExchangeIssueSound, StepSuffices
    <2>12. ASSUME NEW r \in Req, Fail(r) PROVE AInv'
      BY <1>1, <2>12, FailSound, StepSuffices
    <2>13. ASSUME NEW c \in confirmations, Approve(c) PROVE AInv'
      BY <1>1, <2>13, ApproveSound, StepSuffices
    <2>14. ASSUME NEW c \in confirmations, Deny(c) PROVE AInv'
      BY <1>1, <2>14, DenySound, StepSuffices
    <2>15. CASE Expire
      BY <1>1, <2>15, ExpireSound, StepSuffices
    <2>16. QED
      BY <1>1, <2>1, <2>2, <2>3, <2>4, <2>5, <2>6, <2>7, <2>8, <2>9, <2>10, <2>11,
         <2>12, <2>13, <2>14, <2>15 DEF Next
  <1>2. ASSUME AInv, UNCHANGED vars PROVE AInv'
    <2>1. UNCHANGED <<rows, req, serial, log>>
      BY <1>2 DEF vars
    <2>2. TypeOK'
      BY <1>2 DEF vars, rows, log, AInv, TypeOK, ValidMetadata
    <2>3. QED
      BY <1>2, <2>1, <2>2, ClientsSound, StepSuffices
  <1>3. QED
    BY <1>1, <1>2

\* The inductive invariant holds in every state of the flow.
THEOREM FlowSound == Spec => []AInv
  BY AInit, AInvNext, PTL DEF Spec

\* The tables, requests and histories keep their types, and every row of
\* oauth_clients has passed the metadata validation.
THEOREM FlowTypeCorrect == Spec => []TypeOK
  <1>1. AInv => TypeOK
    BY DEF AInv
  <1>2. QED
    BY <1>1, FlowSound, PTL

\* An authorize request yields at most one JWT, whatever is replayed or
\* interleaved: the JWTs are carriers.
THEOREM OneToken == Spec => []OneTokenPerAuthorization
  <1>1. ASSUME AInv PROVE OneTokenPerAuthorization
    <2>1. \A t \in issued : Carries("issued", t, t.origin)
      BY DEF Carries
    <2>2. QED
      BY <1>1, <2>1 DEF AInv, Sole, OneTokenPerAuthorization
  <1>2. QED
    BY <1>1, FlowSound, PTL

\* A JWT says what AuthorizeHandler granted when it accepted the request.
THEOREM BoundAtAuthorization == Spec => []TokenAsAuthorized
  <1>1. AInv => TokenAsAuthorized
    BY DEF AInv, LogSound, JwtSound, TokenAsAuthorized
  <1>2. QED
    BY <1>1, FlowSound, PTL

\* No client but the dashboard gets a JWT without the approval of its user, and
\* a decision is final.
THEOREM ConsentGiven == Spec => []UserDecides
  <1>1. AInv => UserDecides
    BY DEF AInv, LogSound, Consented, Closed, UserDecides
  <1>2. QED
    BY <1>1, FlowSound, PTL

\* An authorization is answered at most once, at a redirect its client had
\* registered.
THEOREM AnsweredOnce == Spec => []AnsweredOnceAtItsRedirect
  <1>1. ASSUME AInv PROVE AnsweredOnceAtItsRedirect
    <2>1. SUFFICES ASSUME NEW d \in redirects
                   PROVE  /\ \A e \in redirects : d.origin = e.origin => d = e
                          /\ \E a \in asked :
                                a.state = d.origin /\ a.uri = d.uri /\ AskSound(a)
      BY DEF AnsweredOnceAtItsRedirect, AskSound
    <2>2. QED
      BY <1>1 DEF AInv, Closed, LogSound
  <1>2. QED
    BY <1>1, FlowSound, PTL

\* After a refused exchange neither a JWT nor a code of the authorization exists.
THEOREM RefusedIsBurnt == Spec => []RefusedExchangeBurnsCode
  <1>1. ASSUME AInv PROVE RefusedExchangeBurnsCode
    <2>1. SUFFICES ASSUME NEW o \in burnt
                   PROVE  /\ \A t \in issued : t.origin # o
                          /\ \A c \in codes : c.auth.origin # o
      BY DEF RefusedExchangeBurnsCode
    <2>2. Carries("burnt", o, o)
      BY DEF Carries
    <2>3. \A t \in issued : Carries("issued", t, t.origin)
      BY DEF Carries
    <2>4. \A c \in codes : Carries("code", c, c.auth.origin)
      BY DEF Carries
    <2>5. QED
      BY <1>1, <2>2, <2>3, <2>4 DEF AInv, Sole
  <1>2. QED
    BY <1>1, FlowSound, PTL

=============================================================================

--------------------------- MODULE WebSessionProofs ---------------------------
(***************************************************************************)
(* Proofs about WebSession, for any sessions, login attempts, requests and  *)
(* lifetimes.                                                               *)
(***************************************************************************)
EXTENDS WebSession, TLAPS

\* Past the middleware.
Inside == {"loaded", "touch", "touching", "serve", "locked"}

\* What a request that is under way knows.  Its cookie is that of an issued session;
\* an exchanged code is used and has no session yet; a locked row is its own, and
\* unrevoked.
UnderWay(q) ==
    LET h == req[q] IN
    /\ h.answer = "none"
    /\ h.kind = "callback" => h.stage \in {"start", "exchanged"} /\ h.login \in Login
    /\ h.kind = "logout" => h.stage = "start"
    /\ h.kind # "callback" =>
          h.stage # "exchanged" /\ h.session \in Session /\ origin[h.session] # None
    /\ h.kind = "revoke" => h.target \in Session /\ origin[h.target] # None
    /\ h.stage = "exchanged" =>
          attempt[h.login] = "used" /\ \A s \in Session : origin[s] # h.login
    /\ h.stage = "locked" =>
          /\ h.kind = "revoke" /\ lock[h.target] = q
          /\ row[h.target] # None /\ ~row[h.target].revoked
    /\ h.stage \in Inside =>
          /\ h.loaded < h.seen + IdleTTL
          /\ row[h.session] # None => h.loaded < row[h.session].created_at + TTL

\* The clocks a request read are past.
RequestSound(q) ==
    /\ req[q].at <= now /\ req[q].started <= now /\ req[q].loaded <= now
    /\ req[q].stage # "done" => UnderWay(q)

\* A code is being signed in with by one request at most.
ExchangedOnce ==
    \A q, r \in Request :
        At(q, "exchanged") /\ At(r, "exchanged") /\ req[q].login = req[r].login => q = r

\* A row, or its trail, is that of an issued session, whose code is used.
Issued ==
    \A s \in Session :
        /\ row[s] # None \/ actions[s] # 0 => origin[s] # None
        /\ origin[s] # None => attempt[origin[s]] = "used"

IInv ==
    /\ TypeOK
    /\ DeadlinesBounded
    /\ OneSessionPerLogin
    /\ OneActionPerRevocation
    /\ Issued
    /\ ExchangedOnce
    /\ \A q \in Request : RequestSound(q)

-----------------------------------------------------------------------------
(* Steps of one request *)

\* The tables stay sound.
TablesSound ==
    /\ now \in Nat
    /\ attempt \in [Login -> {"none", "open", "used"}]
    /\ row \in [Session -> WebSession \cup {None}]
    /\ lock \in [Session -> Request \cup {None}]
    /\ actions \in [Session -> Nat]
    /\ origin \in [Session -> Login \cup {None}]
    /\ DeadlinesBounded
    /\ OneSessionPerLogin
    /\ OneActionPerRevocation
    /\ Issued

\* Request q does not move, and its step leaves what others know: codes stay used,
\* issued sessions stay theirs, no row comes back or changes its age, and a locked
\* row does not change.
Keeps(q) ==
    /\ req'[q] = req[q]
    /\ now <= now'
    /\ \A l \in Login : attempt[l] = "used" => attempt'[l] = "used"
    /\ \A s \in Session : origin[s] # None => origin'[s] = origin[s]
    /\ \A s \in Session :
          At(q, "exchanged") /\ origin[s] # req[q].login => origin'[s] # req[q].login
    /\ \A s \in Session : origin[s] # None /\ row'[s] # None =>
          row[s] # None /\ row'[s].created_at = row[s].created_at
    /\ \A s \in Session : lock[s] = q /\ row[s] # None => lock'[s] = q /\ row'[s] = row[s]

LEMMA KeepsSound ==
    ASSUME IInv, NEW q \in Request, Keeps(q), now' \in Nat
    PROVE  RequestSound(q)'
  <1>1. req[q] \in Handler /\ RequestSound(q) /\ now \in Nat
    BY DEF IInv, TypeOK
  <1>2. /\ req'[q].at <= now' /\ req'[q].started <= now' /\ req'[q].loaded <= now'
    BY <1>1 DEF Keeps, RequestSound, Handler
  <1>3. ASSUME req[q].stage # "done" PROVE UnderWay(q)'
    <2>1. UnderWay(q)
      BY <1>1, <1>3 DEF RequestSound
    <2>2. ASSUME req[q].stage \in Inside
          PROVE  /\ req[q].loaded < req[q].seen + IdleTTL
                 /\ row'[req[q].session] # None =>
                       req[q].loaded < row'[req[q].session].created_at + TTL
      <3>1. req[q].session \in Session /\ origin[req[q].session] # None
        BY <1>1, <2>1, <2>2 DEF UnderWay, Inside, Handler, Kind
      <3>2. QED
        BY <2>1, <2>2, <3>1 DEF UnderWay, Keeps
    <2>3. ASSUME req[q].stage = "locked"
          PROVE  /\ lock'[req[q].target] = q
                 /\ row'[req[q].target] # None /\ ~row'[req[q].target].revoked
      BY <2>1, <2>3 DEF UnderWay, Keeps
    <2>4. ASSUME req[q].stage = "exchanged"
          PROVE  /\ attempt'[req[q].login] = "used"
                 /\ \A s \in Session : origin'[s] # req[q].login
      BY <1>1, <2>1, <2>4 DEF UnderWay, Keeps, At, Handler
    <2>5. req'[q] = req[q]
      BY DEF Keeps
    <2>6. /\ req[q].kind # "callback" => origin'[req[q].session] # None
          /\ req[q].kind = "revoke" => origin'[req[q].target] # None
      BY <2>1 DEF UnderWay, Keeps
    <2>7. QED
      BY <2>1, <2>2, <2>3, <2>4, <2>5, <2>6 DEF UnderWay
  <1>4. QED
    BY <1>2, <1>3 DEF RequestSound, Keeps

\* A step of request r is sound if the tables and r are, and the others keep what
\* they know.
LEMMA StepSound ==
    ASSUME IInv, NEW r \in Request, req' \in [Request -> Handler], TablesSound', RequestSound(r)',
           \A q \in Request \ {r} : Keeps(q),
           At(r, "exchanged")' =>
              \A q \in Request \ {r} : At(q, "exchanged") => req[q].login # req'[r].login
    PROVE  IInv'
  <1>1. TypeOK'
    BY DEF TablesSound, TypeOK
  <1>2. \A q \in Request : RequestSound(q)'
    BY KeepsSound DEF TablesSound
  <1>3. ExchangedOnce'
    BY DEF IInv, ExchangedOnce, At, Keeps
  <1>4. QED
    BY <1>1, <1>2, <1>3 DEF IInv, TablesSound

\* A handler that returns knows nothing more.
LEMMA ReplySound ==
    ASSUME IInv, NEW r \in Request, NEW answer \in Answer, Reply(r, answer), now' \in Nat
    PROVE  /\ req' \in [Request -> Handler]
           /\ RequestSound(r)'
           /\ ~At(r, "exchanged")'
           /\ \A q \in Request \ {r} : req'[q] = req[q]
  <1>1. [Idle EXCEPT !.answer = answer] \in Handler
    BY DEF Idle, Handler, Stage, Kind
  <1>2. req' \in [Request -> Handler] /\ req'[r] = [Idle EXCEPT !.answer = answer]
    BY <1>1 DEF IInv, TypeOK, Reply
  <1>3. /\ req'[r].stage = "done" /\ req'[r].at = 0 /\ req'[r].started = 0
        /\ req'[r].loaded = 0
    BY <1>2 DEF Idle
  <1>4. QED
    BY <1>2, <1>3 DEF RequestSound, At, Reply, IInv, TypeOK

\* Without a change of the tables there is nothing to keep.
LEMMA SameTables ==
    ASSUME IInv, UNCHANGED <<now, attempt, row, lock, actions, origin>>
    PROVE  /\ TablesSound' /\ now' \in Nat
           /\ \A q \in Request : req'[q] = req[q] => Keeps(q)
  BY DEF IInv, TypeOK, TablesSound, Keeps, DeadlinesBounded, OneSessionPerLogin,
         OneActionPerRevocation, Issued

\* A handler that returns without a change of the tables.
LEMMA ReplyOnly ==
    ASSUME IInv, NEW r \in Request, NEW answer \in Answer, Reply(r, answer),
           UNCHANGED <<now, attempt, row, lock, actions, origin>>
    PROVE  IInv'
  BY SameTables, ReplySound, StepSound

\* A handler that goes on without a change of the tables.
LEMMA GoOn ==
    ASSUME IInv, NEW r \in Request, req' \in [Request -> Handler],
           \A q \in Request \ {r} : req'[q] = req[q],
           req'[r].at <= now, req'[r].started <= now, req'[r].loaded <= now,
           UnderWay(r)', ~At(r, "exchanged")',
           UNCHANGED <<now, attempt, row, lock, actions, origin>>
    PROVE  IInv'
  BY SameTables, StepSound DEF RequestSound

LEMMA SendSound ==
    ASSUME IInv, NEW r \in Request, Send(r)
    PROVE  IInv'
  <1>1. PICK h \in Handler :
           /\ Begin(r, h)
           /\ h.answer = "none" /\ h.at = 0 /\ h.started = 0 /\ h.loaded = 0
           /\ h.kind = "callback" => h.login \in Login
           /\ h.kind # "callback" => h.session \in Session /\ origin[h.session] # None
           /\ h.kind = "revoke" => h.target \in Session /\ origin[h.target] # None
    <2>1. CASE \E kind \in Kind \ {"callback"}, s \in Session, t \in Session \cup {None} :
                  SendCookie(r, kind, s, t)
      <3>1. PICK kind \in Kind \ {"callback"}, s \in Session, t \in Session \cup {None} :
                  SendCookie(r, kind, s, t)
        BY <2>1
      <3>2. [Idle EXCEPT !.kind = kind, !.session = s, !.target = t] \in Handler
        BY DEF Idle, Handler, Stage, Kind, Answer
      <3>3. QED
        BY <3>1, <3>2 DEF SendCookie, Idle
    <2>2. CASE \E l \in Login : SendCallback(r, l)
      <3>1. PICK l \in Login : SendCallback(r, l)
        BY <2>2
      <3>2. [Idle EXCEPT !.kind = "callback", !.login = l] \in Handler
        BY DEF Idle, Handler, Stage, Kind, Answer
      <3>3. QED
        BY <3>1, <3>2 DEF SendCallback, Idle
    <2>3. QED
      BY <2>1, <2>2 DEF Send
  <1>2. [h EXCEPT !.stage = "start"] \in Handler
    BY DEF Handler, Stage
  <1>3. /\ req' \in [Request -> Handler] /\ req'[r] = [h EXCEPT !.stage = "start"]
        /\ \A q \in Request \ {r} : req'[q] = req[q]
        /\ UNCHANGED <<now, attempt, row, lock, actions, origin>>
    BY <1>1, <1>2 DEF Begin, IInv, TypeOK
  <1>4. UnderWay(r)'
    BY <1>1, <1>3 DEF UnderWay, Inside, Handler
  <1>5. req'[r].at <= now /\ req'[r].started <= now /\ req'[r].loaded <= now
    BY <1>1, <1>3 DEF Handler, IInv, TypeOK
  <1>6. ~At(r, "exchanged")'
    BY <1>3 DEF At, Handler
  <1>7. QED
    BY <1>3, <1>4, <1>5, <1>6, GoOn

\* The middleware reads a live row: by then it was used within IdleTTL and created
\* within TTL.
LEMMA GetSound ==
    ASSUME IInv, NEW r \in Request, GetWebSessionByTokenHash(r)
    PROVE  IInv'
  <1> DEFINE s == req[r].session
  <1>1. req[r] \in Handler /\ UnderWay(r) /\ RequestSound(r) /\ now \in Nat
    BY DEF IInv, TypeOK, RequestSound, GetWebSessionByTokenHash, At
  <1>2. s \in Session /\ origin[s] # None
    BY <1>1 DEF UnderWay, GetWebSessionByTokenHash
  <1>3. CASE LiveAt(s, now) /\ req' = [req EXCEPT ![r].stage = "loaded", ![r].loaded = now,
                                                  ![r].seen = row[s].last_seen_at]
    <2>1. row[s] # None /\ row[s] \in WebSession
      BY <1>2, <1>3 DEF LiveAt, IInv, TypeOK
    <2>2. /\ row[s].last_seen_at \in Nat /\ row[s].created_at \in Nat
          /\ row[s].idle_expires_at \in Nat /\ row[s].expires_at \in Nat
      BY <2>1 DEF WebSession
    <2>3. now < row[s].last_seen_at + IdleTTL /\ now < row[s].created_at + TTL
      BY <1>1, <1>2, <1>3, <2>1, <2>2, LifetimeAssumption DEF LiveAt, IInv, DeadlinesBounded
    <2>4. req'[r] = [req[r] EXCEPT !.stage = "loaded", !.loaded = now,
                                   !.seen = row[s].last_seen_at]
      BY <1>3 DEF IInv, TypeOK
    <2>5. req'[r] \in Handler
      BY <1>1, <2>2, <2>4 DEF Handler, Stage
    <2>6. req' \in [Request -> Handler] /\ \A q \in Request \ {r} : req'[q] = req[q]
      BY <1>3, <2>4, <2>5 DEF IInv, TypeOK
    <2>7. /\ req'[r].stage = "loaded" /\ req'[r].loaded = now
          /\ req'[r].seen = row[s].last_seen_at
          /\ req'[r].kind = req[r].kind /\ req'[r].session = s
          /\ req'[r].target = req[r].target /\ req'[r].answer = req[r].answer
          /\ req'[r].at = req[r].at /\ req'[r].started = req[r].started
      BY <1>1, <2>4 DEF Handler
    <2>8. UNCHANGED <<now, attempt, row, lock, actions, origin>>
      BY DEF GetWebSessionByTokenHash
    <2>9. req[r].kind \in {"rpc", "revoke"}
      BY DEF GetWebSessionByTokenHash
    <2>10. UnderWay(r)'
      BY <1>1, <1>2, <2>3, <2>7, <2>8, <2>9 DEF UnderWay
    <2>11. QED
      BY <1>1, <2>6, <2>7, <2>8, <2>10, GoOn DEF RequestSound, At
  <1>4. CASE Reply(r, "unauthorized")
    BY <1>4, ReplyOnly DEF GetWebSessionByTokenHash, Answer
  <1>5. QED
    BY <1>3, <1>4 DEF GetWebSessionByTokenHash

\* Between the middleware and the answer only the stage and the clocks move.
LEMMA InsideSound ==
    ASSUME IInv, NEW r \in Request, CheckTouch(r) \/ StartTouch(r)
    PROVE  IInv'
  <1>1. req[r] \in Handler /\ RequestSound(r) /\ now \in Nat /\ UnderWay(r)
    BY DEF IInv, TypeOK, RequestSound, CheckTouch, StartTouch, At
  <1>2. /\ req' \in [Request -> Handler] /\ \A q \in Request \ {r} : req'[q] = req[q]
        /\ UNCHANGED <<now, attempt, row, lock, actions, origin>>
        /\ req[r].stage \in {"loaded", "touch"}
    BY DEF IInv, TypeOK, CheckTouch, StartTouch, Goto, Handler, Stage, At
  <1>3. /\ req'[r].stage \in {"touch", "serve", "touching"}
        /\ req'[r].at \in {req[r].at, now} /\ req'[r].started \in {req[r].started, now}
        /\ req'[r].loaded = req[r].loaded /\ req'[r].seen = req[r].seen
        /\ req'[r].kind = req[r].kind /\ req'[r].session = req[r].session
        /\ req'[r].target = req[r].target /\ req'[r].answer = req[r].answer
    BY <1>1 DEF IInv, TypeOK, CheckTouch, StartTouch, Goto, Handler
  <1>4. UnderWay(r)'
    BY <1>1, <1>2, <1>3 DEF UnderWay, Inside
  <1>5. QED
    BY <1>1, <1>2, <1>3, <1>4, GoOn DEF RequestSound, At, Handler

\* What the unprimed state says of a request that has begun.
LEMMA Known ==
    ASSUME IInv, NEW r \in Request, ~At(r, "done")
    PROVE  req[r] \in Handler /\ UnderWay(r) /\ RequestSound(r) /\ now \in Nat
  BY DEF IInv, TypeOK, RequestSound, At

\* A new code, or a spent one; at "exchanged" the request has the only use of it.
LEMMA ExchangeSound ==
    ASSUME IInv, NEW r \in Request, ExchangeUICode(r)
    PROVE  IInv'
  <1> DEFINE l == req[r].login
  <1>1. req[r] \in Handler /\ UnderWay(r) /\ RequestSound(r) /\ now \in Nat /\ l \in Login
    BY Known DEF ExchangeUICode, At, UnderWay
  <1>2. UNCHANGED <<now, row, lock, actions, origin>>
    BY DEF ExchangeUICode
  <1>3. /\ attempt' \in [Login -> {"none", "open", "used"}]
        /\ \A k \in Login : attempt[k] = "used" => attempt'[k] = "used"
    BY <1>1 DEF ExchangeUICode, IInv, TypeOK
  <1>4. TablesSound'
    BY <1>2, <1>3 DEF IInv, TypeOK, TablesSound, DeadlinesBounded, OneSessionPerLogin,
       OneActionPerRevocation, Issued
  <1>5. ASSUME NEW q \in Request, req'[q] = req[q] PROVE Keeps(q)
    BY <1>1, <1>2, <1>3, <1>5 DEF Keeps
  <1>6. CASE \E answer \in Answer : Reply(r, answer)
    BY <1>1, <1>2, <1>4, <1>5, <1>6, ReplySound, StepSound
  <1>7. CASE /\ attempt[l] = "open"
             /\ attempt' = [attempt EXCEPT ![l] = "used"]
             /\ req' = [req EXCEPT ![r].stage = "exchanged", ![r].at = now]
    <2>1. req'[r] = [req[r] EXCEPT !.stage = "exchanged", !.at = now]
      BY <1>7 DEF IInv, TypeOK
    <2>2. req'[r] \in Handler
      BY <1>1, <2>1 DEF Handler, Stage
    <2>3. req' \in [Request -> Handler] /\ \A q \in Request \ {r} : req'[q] = req[q]
      BY <1>7, <2>1, <2>2 DEF IInv, TypeOK
    <2>4. /\ req'[r].stage = "exchanged" /\ req'[r].at = now
          /\ req'[r].started = req[r].started /\ req'[r].loaded = req[r].loaded
          /\ req'[r].kind = "callback" /\ req'[r].login = l /\ req'[r].answer = req[r].answer
      BY <1>1, <2>1 DEF Handler, ExchangeUICode
    <2>5. attempt'[l] = "used"
      BY <1>1, <1>7 DEF IInv, TypeOK
    <2>6. \A s \in Session : origin[s] # l
      BY <1>1, <1>7, SessionBoundsAssumption DEF IInv, Issued
    <2>7. UnderWay(r)'
      BY <1>1, <1>2, <2>4, <2>5, <2>6 DEF UnderWay, Inside
    <2>8. RequestSound(r)'
      BY <1>1, <1>2, <2>4, <2>7 DEF RequestSound
    <2>9. ASSUME NEW q \in Request, At(q, "exchanged") PROVE req[q].login # l
      BY <1>7, <2>9, Known DEF UnderWay, At
    <2>10. QED
      BY <1>4, <1>5, <2>3, <2>4, <2>8, <2>9, StepSound
  <1>8. QED
    BY <1>6, <1>7 DEF ExchangeUICode, Answer

\* The pruning takes only rows nobody has locked, and the new row is the one of
\* its code.
LEMMA CreateSound ==
    ASSUME IInv, NEW r \in Request, CreateWebSession(r)
    PROVE  IInv'
  <1> DEFINE l == req[r].login
             dead == {s \in Session : row[s] # None /\ ~LiveAt(s, now)}
  <1>1. /\ req[r] \in Handler /\ UnderWay(r) /\ RequestSound(r) /\ now \in Nat
        /\ req[r].stage = "exchanged"
    BY Known DEF CreateWebSession, At
  <1>2. l \in Login /\ attempt[l] = "used" /\ \A s \in Session : origin[s] # l
    BY <1>1 DEF UnderWay
  <1>3. req[r].at \in Nat /\ req[r].at <= now
    BY <1>1 DEF Handler, RequestSound
  <1>4. PICK s \in Session :
           /\ origin[s] = None
           /\ origin' = [origin EXCEPT ![s] = l]
           /\ row' = [t \in Session |->
                       IF t = s THEN NewSession(req[r].at)
                       ELSE IF t \in dead THEN None ELSE row[t]]
    BY DEF CreateWebSession
  <1>5. UNCHANGED <<now, attempt, lock, actions>> /\ Reply(r, "ok") /\ \A t \in dead : Unlocked(t)
    BY DEF CreateWebSession
  <1>6. row[s] = None /\ actions[s] = 0 /\ l # None
    BY <1>2, <1>4, SessionBoundsAssumption DEF IInv, Issued
  <1>7. \A t \in Session : origin'[t] = IF t = s THEN l ELSE origin[t]
    BY <1>4 DEF IInv, TypeOK
  <1>8. \A t \in Session : t # s => row'[t] \in {None, row[t]}
    BY <1>4
  <1>9. /\ row'[s].created_at = now /\ row'[s].last_seen_at = now
        /\ row'[s].idle_expires_at = req[r].at + IdleTTL
        /\ row'[s].expires_at = req[r].at + TTL /\ row'[s] \in WebSession
    BY <1>1, <1>3, <1>4, LifetimeAssumption DEF NewSession, WebSession
  <1>10. TablesSound'
    <2>1. /\ row' \in [Session -> WebSession \cup {None}]
          /\ origin' \in [Session -> Login \cup {None}]
      <3>1. \A t \in Session : row'[t] \in WebSession \cup {None}
        BY <1>8, <1>9 DEF IInv, TypeOK
      <3>2. row' = [t \in Session |-> row'[t]]
        BY <1>4
      <3>3. QED
        BY <1>2, <1>4, <3>1, <3>2 DEF IInv, TypeOK
    <2>2. DeadlinesBounded'
      BY <1>1, <1>3, <1>8, <1>9, LifetimeAssumption DEF IInv, DeadlinesBounded
    <2>3. OneSessionPerLogin'
      BY <1>2, <1>6, <1>7 DEF IInv, OneSessionPerLogin
    <2>4. OneActionPerRevocation'
      BY <1>5, <1>6, <1>8 DEF IInv, OneActionPerRevocation
    <2>5. Issued'
      BY <1>2, <1>5, <1>6, <1>7, <1>8 DEF IInv, Issued
    <2>6. QED
      BY <1>5, <2>1, <2>2, <2>3, <2>4, <2>5 DEF IInv, TypeOK, TablesSound
  <1>11. ASSUME NEW q \in Request, q # r, req'[q] = req[q] PROVE Keeps(q)
    <2>1. \A t \in Session : lock[t] = q /\ row[t] # None => row'[t] = row[t]
      <3>1. ASSUME NEW t \in Session, lock[t] = q PROVE t \notin dead
        BY <1>5, <3>1, SessionBoundsAssumption DEF Unlocked
      <3>2. QED
        BY <1>4, <1>6, <3>1
    <2>2. At(q, "exchanged") => req[q].login # l
      BY <1>1, <1>11 DEF IInv, ExchangedOnce, At
    <2>3. QED
      BY <1>1, <1>4, <1>5, <1>7, <1>8, <1>11, <2>1, <2>2 DEF Keeps
  <1>12. QED
    BY <1>1, <1>5, <1>10, <1>11, ReplySound, StepSound DEF Answer

\* One row z changes, with its birth and within its deadlines; it may only get
\* revoked, and a recorded action leaves it revoked.
LEMMA RowSound ==
    ASSUME IInv, NEW s \in Session, row[s] # None, NEW z \in WebSession,
           row' = [row EXCEPT ![s] = z], UNCHANGED <<now, attempt, origin>>,
           z.created_at = row[s].created_at, row[s].revoked => z.revoked,
           z.idle_expires_at <= z.expires_at, z.idle_expires_at <= z.last_seen_at + IdleTTL,
           z.expires_at <= z.created_at + TTL,
           lock' \in [Session -> Request \cup {None}],
           actions' \in [Session -> Nat],
           \A t \in Session : t # s => actions'[t] = actions[t],
           actions'[s] <= 1, actions'[s] = 1 => z.revoked
    PROVE  TablesSound' /\ now' \in Nat
  <1>1. \A t \in Session : row'[t] = IF t = s THEN z ELSE row[t]
    BY DEF IInv, TypeOK
  <1>2. row' \in [Session -> WebSession \cup {None}]
    BY DEF IInv, TypeOK
  <1>3. DeadlinesBounded'
    BY <1>1 DEF IInv, DeadlinesBounded
  <1>4. OneActionPerRevocation'
    BY <1>1 DEF IInv, OneActionPerRevocation
  <1>5. Issued'
    BY <1>1 DEF IInv, Issued
  <1>6. OneSessionPerLogin'
    BY DEF IInv, OneSessionPerLogin
  <1>7. QED
    BY <1>2, <1>3, <1>4, <1>5, <1>6 DEF IInv, TypeOK, TablesSound

\* Such a change keeps what a request knows that has not locked the row.
LEMMA RowKeeps ==
    ASSUME IInv, NEW s \in Session, row[s] # None, NEW z,
           row' = [row EXCEPT ![s] = z], z.created_at = row[s].created_at,
           UNCHANGED <<now, attempt, origin>>,
           NEW q \in Request, req'[q] = req[q], lock[s] # q,
           \A t \in Session : lock[t] = q => lock'[t] = q
    PROVE  Keeps(q)
  <1>1. \A t \in Session : row'[t] = IF t = s THEN z ELSE row[t]
    BY DEF IInv, TypeOK
  <1>2. now \in Nat
    BY DEF IInv, TypeOK
  <1>3. QED
    BY <1>1, <1>2 DEF Keeps

\* A touch moves last_seen_at and the idle deadline, which it caps.
LEMMA TouchSound ==
    ASSUME IInv, NEW r \in Request, TouchWebSession(r)
    PROVE  IInv'
  <1> DEFINE s == req[r].session
  <1>1. req[r] \in Handler /\ UnderWay(r) /\ RequestSound(r) /\ now \in Nat
    BY Known DEF TouchWebSession, At
  <1>2. req[r].stage = "touching"
    BY DEF TouchWebSession, At
  <1>3. s \in Session
    BY <1>1, <1>2 DEF UnderWay, Handler, Kind
  <1>4. CASE Reply(r, "unauthorized") /\ UNCHANGED row
    BY <1>4, ReplyOnly DEF TouchWebSession, Answer
  <1>5. CASE /\ LiveAt(s, req[r].started)
             /\ row' = [row EXCEPT
                   ![s].last_seen_at = req[r].at,
                   ![s].idle_expires_at = Least(req[r].at + IdleTTL, row[s].expires_at)]
             /\ Goto(r, "serve")
    <2> DEFINE d == Least(req[r].at + IdleTTL, row[s].expires_at)
    <2>1. PICK z : z = [row[s] EXCEPT !.last_seen_at = req[r].at, !.idle_expires_at = d]
      OBVIOUS
    <2>2. row[s] # None /\ row[s] \in WebSession /\ ~row[s].revoked
      BY <1>3, <1>5 DEF LiveAt, IInv, TypeOK
    <2>3. row' = [row EXCEPT ![s] = z]
      BY <1>3, <1>5, <2>1 DEF IInv, TypeOK
    <2>4. req[r].at \in Nat /\ row[s].expires_at \in Nat /\ row[s].created_at \in Nat
      BY <1>1, <2>2 DEF Handler, WebSession
    <2>5. /\ z.created_at = row[s].created_at /\ z.revoked = row[s].revoked
          /\ z.expires_at = row[s].expires_at /\ z.last_seen_at = req[r].at
          /\ z.idle_expires_at = d /\ z \in WebSession
      <3>1. d \in Nat
        BY <2>4, LifetimeAssumption DEF Least
      <3> HIDE DEF d
      <3>2. QED
        BY <2>1, <2>2, <2>4, <3>1 DEF WebSession
    <2>6. /\ z.idle_expires_at <= z.expires_at
          /\ z.idle_expires_at <= z.last_seen_at + IdleTTL
          /\ z.expires_at <= z.created_at + TTL
      BY <1>3, <2>2, <2>4, <2>5, LifetimeAssumption DEF Least, IInv, DeadlinesBounded
    <2>7. UNCHANGED <<now, attempt, lock, actions, origin>> /\ lock[s] = None
      BY DEF TouchWebSession, Unlocked
    <2>8. actions[s] <= 1 /\ actions[s] # 1
      BY <1>3, <2>2 DEF IInv, OneActionPerRevocation
    <2>9. TablesSound'
      BY <1>3, <2>2, <2>3, <2>5, <2>6, <2>7, <2>8, RowSound DEF IInv, TypeOK
    <2>10. /\ req' \in [Request -> Handler] /\ \A q \in Request \ {r} : req'[q] = req[q]
           /\ req'[r] = [req[r] EXCEPT !.stage = "serve"]
      BY <1>5 DEF Goto, IInv, TypeOK, Handler, Stage
    <2>11. \A q \in Request \ {r} : Keeps(q)
      BY <1>3, <2>2, <2>3, <2>5, <2>7, <2>10, SessionBoundsAssumption, RowKeeps
    <2>12. /\ req'[r].stage = "serve" /\ req'[r].kind = req[r].kind
           /\ req'[r].session = s /\ req'[r].target = req[r].target
           /\ req'[r].answer = req[r].answer /\ req'[r].seen = req[r].seen
           /\ req'[r].loaded = req[r].loaded /\ req'[r].at = req[r].at
           /\ req'[r].started = req[r].started
      BY <1>1, <2>10 DEF Handler
    <2>13. row'[s] = z
      BY <1>3, <2>3 DEF IInv, TypeOK
    <2>14. UnderWay(r)'
      BY <1>1, <1>2, <2>2, <2>5, <2>7, <2>12, <2>13 DEF UnderWay, Inside
    <2>15. RequestSound(r)' /\ ~At(r, "exchanged")'
      BY <1>1, <2>7, <2>12, <2>14 DEF RequestSound, At
    <2>16. QED
      BY <2>9, <2>10, <2>11, <2>15, StepSound
  <1>6. QED
    BY <1>4, <1>5 DEF TouchWebSession

\* A logout revokes a row nobody has locked.
LEMMA LogoutSound ==
    ASSUME IInv, NEW r \in Request, Logout(r)
    PROVE  IInv'
  <1> DEFINE s == req[r].session
  <1>1. s \in Session /\ now \in Nat
    BY Known DEF Logout, At, UnderWay
  <1>2. UNCHANGED <<now, attempt, lock, actions, origin>> /\ Reply(r, "ok") /\ lock[s] = None
    BY DEF Logout, Unlocked
  <1>3. CASE row[s] = None
    BY <1>2, <1>3, ReplyOnly DEF Logout, RevokedByTokenHash, Answer
  <1>4. CASE row[s] # None
    <2>1. PICK z : z = [row[s] EXCEPT !.revoked = TRUE]
      OBVIOUS
    <2>2. row' = [row EXCEPT ![s] = z] /\ row[s] \in WebSession
      BY <1>1, <1>4, <2>1 DEF Logout, RevokedByTokenHash, IInv, TypeOK
    <2>3. /\ z \in WebSession /\ z.revoked /\ z.created_at = row[s].created_at
          /\ z.idle_expires_at = row[s].idle_expires_at /\ z.expires_at = row[s].expires_at
          /\ z.last_seen_at = row[s].last_seen_at
      BY <2>1, <2>2 DEF WebSession
    <2>4. /\ z.idle_expires_at <= z.expires_at
          /\ z.idle_expires_at <= z.last_seen_at + IdleTTL
          /\ z.expires_at <= z.created_at + TTL
      BY <1>1, <1>4, <2>3 DEF IInv, DeadlinesBounded
    <2>5. TablesSound'
      BY <1>1, <1>2, <1>4, <2>2, <2>3, <2>4, RowSound DEF IInv, TypeOK, OneActionPerRevocation
    <2>6. \A q \in Request : req'[q] = req[q] => Keeps(q)
      BY <1>1, <1>2, <1>4, <2>2, <2>3, SessionBoundsAssumption, RowKeeps
    <2>7. QED
      BY <1>1, <1>2, <2>5, <2>6, ReplySound, StepSound DEF Answer
  <1>5. QED
    BY <1>3, <1>4

\* SELECT ... FOR UPDATE takes a free row.
LEMMA SelectSound ==
    ASSUME IInv, NEW r \in Request, RevokeSelect(r)
    PROVE  IInv'
  <1> DEFINE t == req[r].target
  <1>1. req[r] \in Handler /\ UnderWay(r) /\ RequestSound(r) /\ now \in Nat
    BY Known DEF RevokeSelect, At
  <1>2. req[r].stage = "serve" /\ req[r].kind = "revoke" /\ t \in Session /\ lock[t] = None
    BY <1>1 DEF RevokeSelect, At, UnderWay, Unlocked
  <1>3. UNCHANGED <<now, attempt, row, actions, origin>>
    BY DEF RevokeSelect
  <1>4. CASE UNCHANGED lock /\ \E answer \in Answer : Reply(r, answer)
    BY <1>3, <1>4, ReplyOnly
  <1>5. CASE /\ row[t] # None /\ ~row[t].revoked
             /\ Goto(r, "locked")
             /\ lock' = [lock EXCEPT ![t] = r]
    <2>1. TablesSound'
      BY <1>3, <1>5 DEF IInv, TypeOK, TablesSound, DeadlinesBounded, OneSessionPerLogin,
         OneActionPerRevocation, Issued
    <2>2. /\ req' \in [Request -> Handler] /\ \A q \in Request \ {r} : req'[q] = req[q]
          /\ req'[r] = [req[r] EXCEPT !.stage = "locked"]
      <3>1. [req[r] EXCEPT !.stage = "locked"] \in Handler
        BY <1>1 DEF Handler, Stage
      <3>2. QED
        BY <1>5, <3>1 DEF Goto, IInv, TypeOK
    <2>3. \A k \in Session : lock'[k] = IF k = t THEN r ELSE lock[k]
      BY <1>5 DEF IInv, TypeOK
    <2>4. \A q \in Request \ {r} : Keeps(q)
      BY <1>1, <1>2, <1>3, <2>2, <2>3, SessionBoundsAssumption DEF Keeps
    <2>5. /\ req'[r].stage = "locked" /\ req'[r].kind = "revoke"
          /\ req'[r].session = req[r].session /\ req'[r].target = t
          /\ req'[r].answer = req[r].answer /\ req'[r].seen = req[r].seen
          /\ req'[r].loaded = req[r].loaded /\ req'[r].at = req[r].at
          /\ req'[r].started = req[r].started
      BY <1>1, <1>2, <2>2 DEF Handler
    <2>6. UnderWay(r)'
      BY <1>1, <1>2, <1>3, <1>5, <2>3, <2>5 DEF UnderWay, Inside
    <2>7. RequestSound(r)' /\ ~At(r, "exchanged")'
      BY <1>1, <1>3, <2>5, <2>6 DEF RequestSound, At
    <2>8. QED
      BY <2>1, <2>2, <2>4, <2>7, StepSound
  <1>6. QED
    BY <1>4, <1>5 DEF RevokeSelect, Answer

\* The row is still there and unrevoked at the commit, for it was locked.
LEMMA RevokeCommitSound ==
    ASSUME IInv, NEW r \in Request, RevokeCommit(r)
    PROVE  IInv'
  <1> DEFINE t == req[r].target
  <1>1. /\ t \in Session /\ lock[t] = r /\ row[t] # None /\ ~row[t].revoked
        /\ now \in Nat
    BY Known DEF RevokeCommit, At, UnderWay
  <1>2. UNCHANGED <<now, attempt, origin>> /\ Reply(r, "ok")
    BY DEF RevokeCommit
  <1>3. PICK z : z = [row[t] EXCEPT !.revoked = TRUE]
    OBVIOUS
  <1>4. row' = [row EXCEPT ![t] = z] /\ row[t] \in WebSession
    BY <1>1, <1>3 DEF RevokeCommit, IInv, TypeOK
  <1>5. /\ z \in WebSession /\ z.revoked /\ z.created_at = row[t].created_at
        /\ z.idle_expires_at = row[t].idle_expires_at /\ z.expires_at = row[t].expires_at
        /\ z.last_seen_at = row[t].last_seen_at
    BY <1>3, <1>4 DEF WebSession
  <1>6. /\ z.idle_expires_at <= z.expires_at
        /\ z.idle_expires_at <= z.last_seen_at + IdleTTL
        /\ z.expires_at <= z.created_at + TTL
    BY <1>1, <1>5 DEF IInv, DeadlinesBounded
  <1>7. actions[t] = 0
    BY <1>1 DEF IInv, TypeOK, OneActionPerRevocation
  <1>8. /\ actions' \in [Session -> Nat] /\ actions'[t] = 1
        /\ \A s \in Session : s # t => actions'[s] = actions[s]
    BY <1>1, <1>7 DEF RevokeCommit, IInv, TypeOK
  <1>9. /\ lock' \in [Session -> Request \cup {None}]
        /\ \A s \in Session : lock'[s] = IF lock[s] = r THEN None ELSE lock[s]
    BY DEF RevokeCommit, IInv, TypeOK
  <1> HIDE DEF t
  <1>10. TablesSound'
    <2>1. row[t].revoked => z.revoked
      BY <1>5
    <2>2. actions'[t] <= 1 /\ (actions'[t] = 1 => z.revoked)
      BY <1>5, <1>8
    <2>3. QED
      BY <1>1, <1>2, <1>4, <1>5, <1>6, <1>8, <1>9, <2>1, <2>2, RowSound
  <1>11. \A q \in Request \ {r} : req'[q] = req[q] => Keeps(q)
    BY <1>1, <1>2, <1>4, <1>5, <1>9, RowKeeps
  <1>12. QED
    BY <1>1, <1>2, <1>10, <1>11, ReplySound, StepSound DEF Answer

\* A rollback only frees what the request itself had locked.
LEMMA FailsSound ==
    ASSUME IInv, NEW r \in Request, StatementFails(r)
    PROVE  IInv'
  <1>1. UNCHANGED <<now, attempt, row, actions, origin>> /\ now \in Nat
    BY DEF StatementFails, IInv, TypeOK
  <1>2. PICK answer \in Answer : Reply(r, answer)
    BY DEF StatementFails, Answer
  <1>3. /\ lock' \in [Session -> Request \cup {None}]
        /\ \A s \in Session : lock'[s] = IF lock[s] = r THEN None ELSE lock[s]
    BY DEF StatementFails, IInv, TypeOK
  <1>4. TablesSound'
    BY <1>1, <1>3 DEF IInv, TypeOK, TablesSound, DeadlinesBounded, OneSessionPerLogin,
       OneActionPerRevocation, Issued
  <1>5. \A q \in Request \ {r} : req'[q] = req[q] => Keeps(q)
    BY <1>1, <1>3 DEF Keeps
  <1>6. QED
    BY <1>1, <1>2, <1>4, <1>5, ReplySound, StepSound

LEMMA WorkSound ==
    ASSUME IInv, NEW r \in Request, Work(r)
    PROVE  IInv'
  <1>1. CASE ServeRPC(r) \/ RevokeRefused(r)
    BY <1>1, ReplyOnly DEF ServeRPC, RevokeRefused, Answer
  <1>2. QED
    BY <1>1, ExchangeSound, CreateSound, GetSound, InsideSound, TouchSound, LogoutSound,
       SelectSound, RevokeCommitSound DEF Work

-----------------------------------------------------------------------------
(* Theorems *)

LEMMA IInvInit == Init => IInv
  <1> SUFFICES ASSUME Init PROVE IInv
    OBVIOUS
  <1>1. Idle \in Handler /\ Idle.stage = "done" /\ Idle.at = 0 /\ Idle.started = 0
        /\ Idle.loaded = 0
    BY DEF Idle, Handler, Stage, Kind, Answer
  <1>2. TypeOK
    BY <1>1 DEF Init, TypeOK
  <1>3. DeadlinesBounded /\ OneSessionPerLogin /\ OneActionPerRevocation /\ Issued
    BY DEF Init, DeadlinesBounded, OneSessionPerLogin, OneActionPerRevocation, Issued
  <1>4. ExchangedOnce /\ \A q \in Request : RequestSound(q)
    BY <1>1 DEF Init, ExchangedOnce, RequestSound, At
  <1>5. QED
    BY <1>2, <1>3, <1>4 DEF IInv

\* Time and new login attempts take nothing from anybody.
LEMMA WorldSound ==
    ASSUME IInv, Tick \/ \E l \in Login : StartLogin(l)
    PROVE  IInv'
  <1>1. /\ UNCHANGED <<row, lock, actions, origin, req>>
        /\ now \in Nat /\ now' \in Nat /\ now <= now'
        /\ attempt' \in [Login -> {"none", "open", "used"}]
        /\ \A l \in Login : attempt[l] = "used" => attempt'[l] = "used"
    BY DEF IInv, TypeOK, Tick, StartLogin
  <1>2. \A q \in Request : Keeps(q)
    BY <1>1 DEF Keeps
  <1>3. TypeOK' /\ DeadlinesBounded' /\ OneSessionPerLogin' /\ OneActionPerRevocation'
        /\ ExchangedOnce'
    BY <1>1 DEF IInv, TypeOK, DeadlinesBounded, OneSessionPerLogin, OneActionPerRevocation,
       ExchangedOnce, At
  <1>4. Issued'
    BY <1>1 DEF IInv, TypeOK, Issued
  <1>5. QED
    BY <1>1, <1>2, <1>3, <1>4, KeepsSound DEF IInv

LEMMA IInvNext == IInv /\ [Next]_vars => IInv'
  <1>1. ASSUME IInv, UNCHANGED vars PROVE IInv'
    BY <1>1 DEF vars, IInv, TypeOK, DeadlinesBounded, OneSessionPerLogin,
       OneActionPerRevocation, Issued, ExchangedOnce, RequestSound, UnderWay, At
  <1>2. ASSUME IInv, Next PROVE IInv'
    BY <1>2, WorldSound, SendSound, WorkSound, FailsSound DEF Next
  <1>3. QED
    BY <1>1, <1>2

\* Whatever requests, logins and operators do, the invariant holds.
THEOREM Invariance == Spec => []IInv
  BY IInvInit, IInvNext, PTL DEF Spec

\* The stored sessions keep bounded deadlines, one for each login, and one operator
\* action for each that an operator revoked.
THEOREM Sessions == Spec => []SessionsSound
  <1>1. IInv => SessionsSound
    BY DEF IInv, SessionsSound
  <1>2. QED
    BY <1>1, Invariance, PTL

\* A request past the middleware has a session used within IdleTTL and created
\* within TTL when it was read.
THEOREM ServedAlive == Spec => []ServedWithinLifetimes
  <1>1. ASSUME IInv, NEW r \in Request, req[r].stage \in Inside
        PROVE  /\ req[r].loaded < req[r].seen + IdleTTL
               /\ req[r].loaded <= now
               /\ row[req[r].session] # None =>
                     req[r].loaded < row[req[r].session].created_at + TTL
    BY <1>1, Known DEF Inside, At, UnderWay, RequestSound
  <1>2. IInv => ServedWithinLifetimes
    BY <1>1 DEF ServedWithinLifetimes, Inside
  <1>3. QED
    BY <1>2, Invariance, PTL

\* A step is one of the clock, a new attempt, or one request's.
LEMMA Movers ==
    ASSUME IInv, Next
    PROVE  \/ UNCHANGED <<row, req>> /\ now' \in {now, now + 1}
           \/ \E r \in Request :
                 /\ Send(r) \/ Work(r) \/ StatementFails(r)
                 /\ now' = now
                 /\ \A q \in Request \ {r} : req'[q] = req[q]
  <1>1. CASE Tick \/ \E l \in Login : StartLogin(l)
    BY <1>1 DEF Tick, StartLogin
  <1>2. ASSUME NEW r \in Request, Send(r) \/ Work(r) \/ StatementFails(r)
        PROVE  now' = now /\ \A q \in Request \ {r} : req'[q] = req[q]
    BY <1>2 DEF IInv, TypeOK, Send, SendCookie, SendCallback, Begin, Work, ExchangeUICode,
       CreateWebSession, GetWebSessionByTokenHash, CheckTouch, StartTouch, TouchWebSession,
       ServeRPC, Logout, RevokeRefused, RevokeSelect, RevokeCommit, StatementFails, Reply, Goto
  <1>3. QED
    BY <1>1, <1>2 DEF Next

\* What comes alive again does so by a touch that had begun in time.
LEMMA Revival ==
    ASSUME IInv, Next, NEW s \in Session, row[s] # None, ~LiveAt(s, now), LiveAt(s, now)'
    PROVE  \E r \in Request : At(r, "touching") /\ req[r].session = s /\ LiveAt(s, req[r].started)
  <1>1. row[s] \in WebSession /\ now \in Nat /\ origin[s] # None
    BY DEF IInv, TypeOK, Issued
  <1>2. row'[s] # row[s]
    <2>1. now' \in Nat /\ now <= now'
      BY <1>1, Movers
    <2>2. row[s].idle_expires_at \in Nat /\ row[s].expires_at \in Nat
      BY <1>1 DEF WebSession
    <2>3. QED
      BY <1>1, <2>1, <2>2 DEF LiveAt
  <1>3. row'[s] # None /\ ~row'[s].revoked
    BY DEF LiveAt
  <1>4. PICK r \in Request : Send(r) \/ Work(r) \/ StatementFails(r)
    BY <1>2, Movers
  <1>5. CASE CreateWebSession(r)
    BY <1>1, <1>2, <1>3, <1>5 DEF CreateWebSession
  <1>6. CASE Logout(r) \/ RevokeCommit(r)
    <2>1. PICK t : row' \in {row, [row EXCEPT ![t].revoked = TRUE]}
      BY <1>6 DEF Logout, RevokedByTokenHash, RevokeCommit
    <2>2. t = s /\ row'[s] = [row[s] EXCEPT !.revoked = TRUE]
      BY <1>2, <2>1 DEF IInv, TypeOK
    <2>3. row'[s].revoked
      BY <1>1, <2>2 DEF WebSession
    <2>4. QED
      BY <1>3, <2>3
  <1>7. CASE TouchWebSession(r)
    BY <1>1, <1>2, <1>7 DEF TouchWebSession, IInv, TypeOK
  <1>8. QED
    BY <1>2, <1>4, <1>5, <1>6, <1>7 DEF Send, SendCookie, SendCallback, Begin, Work,
       ExchangeUICode, GetWebSessionByTokenHash, CheckTouch, StartTouch, ServeRPC,
       RevokeRefused, RevokeSelect, StatementFails

\* A logout that is answered as done has revoked the row, or there is none.
LEMMA LogoutEnds ==
    ASSUME IInv, Next, NEW r \in Request, NEW s \in Session,
           req[r].kind = "logout", req[r].session = s,
           ~At(r, "done"), At(r, "done")', req'[r].answer # "logged"
    PROVE  ~LiveAt(s, now)'
  <1>1. UnderWay(r) /\ req[r] \in Handler /\ req[r].stage = "start"
    BY Known DEF UnderWay
  <1>2. PICK q \in Request :
           /\ Send(q) \/ Work(q) \/ StatementFails(q)
           /\ \A p \in Request \ {q} : req'[p] = req[p]
    BY Movers DEF At
  <1>3. q = r
    BY <1>2 DEF At
  <1>4. ~Send(r)
    BY DEF Send, SendCookie, SendCallback, Begin
  <1>5. ~StatementFails(r)
    BY <1>1 DEF StatementFails, Reply, IInv, TypeOK, Idle
  <1>6. Logout(r)
    BY <1>1, <1>2, <1>3, <1>4, <1>5
    DEF Work, ExchangeUICode, CreateWebSession, GetWebSessionByTokenHash, CheckTouch,
        StartTouch, TouchWebSession, ServeRPC, RevokeRefused, RevokeSelect, RevokeCommit, At
  <1>7. row' = RevokedByTokenHash(s)
    BY <1>6 DEF Logout
  <1>8. CASE row[s] = None
    BY <1>7, <1>8 DEF RevokedByTokenHash, LiveAt
  <1>9. CASE row[s] # None
    <2>1. row[s] \in WebSession /\ row'[s] = [row[s] EXCEPT !.revoked = TRUE]
      BY <1>7, <1>9 DEF RevokedByTokenHash, IInv, TypeOK
    <2>2. row'[s].revoked
      BY <2>1 DEF WebSession
    <2>3. QED
      BY <2>2 DEF LiveAt
  <1>10. QED
    BY <1>8, <1>9

\* A logout ends the session, and nothing that was under way brings one back
\* that is over.
THEOREM RevokedForGood == Spec => RevocationFinal
  <1> DEFINE Ends == \A r \in Request, s \in Session :
                        /\ req[r].kind = "logout" /\ req[r].session = s
                        /\ ~At(r, "done") /\ At(r, "done")' /\ req'[r].answer # "logged"
                        => ~LiveAt(s, now)'
             Stays == \A s \in Session : row[s] # None /\ ~LiveAt(s, now) /\ LiveAt(s, now)' =>
                         \E r \in Request : /\ At(r, "touching")
                                            /\ req[r].session = s
                                            /\ LiveAt(s, req[r].started)
  <1>1. IInv /\ Next => Ends /\ Stays
    BY LogoutEnds, Revival
  <1>2. IInv /\ [Next]_vars => [Ends]_vars /\ [Stays]_vars
    BY <1>1
  <1>3. Spec => [][Ends]_vars /\ [][Stays]_vars
    BY <1>2, Invariance, PTL DEF Spec
  <1>4. QED
    BY <1>3 DEF RevocationFinal, LogoutRevokes, DeadStaysDead

\* A request is refused only when its session is over: it was when the clock of the
\* touch was read, hence it is now.
LEMMA RefusedIsDead ==
    ASSUME IInv, Next, NEW r \in Request, ~At(r, "done"), req'[r].answer = "unauthorized"
    PROVE  ~LiveAt(req[r].session, now)
  <1>1. UnderWay(r) /\ RequestSound(r) /\ req[r] \in Handler /\ now \in Nat
    BY Known
  <1>2. PICK q \in Request :
           /\ Send(q) \/ Work(q) \/ StatementFails(q)
           /\ \A p \in Request \ {q} : req'[p] = req[p]
    BY <1>1, Movers DEF UnderWay
  <1>3. q = r
    BY <1>1, <1>2 DEF UnderWay
  <1>4. ~Send(r)
    BY DEF Send, SendCookie, SendCallback, Begin
  <1>5. CASE GetWebSessionByTokenHash(r)
    <2>1. CASE req' = [req EXCEPT ![r].stage = "loaded", ![r].loaded = now,
                                  ![r].seen = row[req[r].session].last_seen_at]
      <3>1. req'[r].answer = req[r].answer
        BY <1>1, <2>1 DEF IInv, TypeOK, Handler
      <3>2. QED
        BY <1>1, <3>1 DEF UnderWay
    <2>2. QED
      BY <1>5, <2>1 DEF GetWebSessionByTokenHash
  <1>6. CASE TouchWebSession(r)
    <2>1. CASE Goto(r, "serve")
      <3>1. req'[r].answer = req[r].answer
        BY <1>1, <2>1 DEF IInv, TypeOK, Handler, Goto
      <3>2. QED
        BY <1>1, <3>1 DEF UnderWay
    <2>2. CASE ~LiveAt(req[r].session, req[r].started)
      <3>1. req[r].session \in Session
        BY <1>1, <1>6 DEF TouchWebSession, At, UnderWay, Handler, Kind
      <3>2. row[req[r].session] # None =>
               /\ row[req[r].session].idle_expires_at \in Nat
               /\ row[req[r].session].expires_at \in Nat
        BY <3>1 DEF IInv, TypeOK, WebSession
      <3>3. req[r].started \in Nat /\ req[r].started <= now
        BY <1>1 DEF Handler, RequestSound
      <3>4. QED
        BY <1>1, <2>2, <3>2, <3>3 DEF LiveAt
    <2>3. QED
      BY <1>6, <2>1, <2>2 DEF TouchWebSession
  <1>7. CASE CheckTouch(r) \/ StartTouch(r)
    <2>1. req'[r].answer = req[r].answer
      BY <1>1, <1>7 DEF CheckTouch, StartTouch, Goto, IInv, TypeOK, Handler
    <2>2. QED
      BY <1>1, <2>1 DEF UnderWay
  <1>8. CASE ExchangeUICode(r) \/ RevokeSelect(r)
    <2>1. req'[r].answer = req[r].answer \/ \E a \in {"failed", "ok", "not_found"} : Reply(r, a)
      BY <1>1, <1>8 DEF ExchangeUICode, RevokeSelect, Goto, IInv, TypeOK, Handler
    <2>2. QED
      BY <1>1, <2>1 DEF UnderWay, Reply, Idle, IInv, TypeOK
  <1>9. CASE \/ CreateWebSession(r) \/ ServeRPC(r) \/ Logout(r) \/ RevokeRefused(r)
             \/ RevokeCommit(r) \/ StatementFails(r)
    <2>1. PICK a \in {"ok", "failed", "logged"} : Reply(r, a)
      BY <1>9 DEF CreateWebSession, ServeRPC, Logout, RevokeRefused, RevokeCommit, StatementFails
    <2>2. QED
      BY <2>1 DEF Reply, Idle, IInv, TypeOK
  <1>10. QED
    BY <1>2, <1>3, <1>4, <1>5, <1>6, <1>7, <1>8, <1>9 DEF Work

\* The middleware clears a cookie only of a session that is over.
THEOREM RefusedForCause == Spec => OnlyDeadRefused
  <1> DEFINE Refused == \A r \in Request :
               ~At(r, "done") /\ req'[r].answer = "unauthorized" => ~LiveAt(req[r].session, now)
  <1>1. IInv /\ Next => Refused
    BY RefusedIsDead
  <1>2. IInv /\ [Next]_vars => [Refused]_vars
    BY <1>1
  <1>3. QED
    BY <1>2, Invariance, PTL DEF Spec, OnlyDeadRefused
=============================================================================

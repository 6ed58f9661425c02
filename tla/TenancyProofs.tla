---------------------------- MODULE TenancyProofs -----------------------------
(***************************************************************************)
(* Proofs about Tenancy, for any number of logins, accounts and requests.   *)
(***************************************************************************)
EXTENDS Tenancy, TLAPS

\* User ids that a committed row of users or organizations has.
Committed(u) == orgs[u] # None

\* What a login's transaction knows: it holds the lock of its account, and the id
\* its upsert returned is that of the committed row, or its own if there is none.
LoginSound(l) ==
    /\ pc[l] # "idle" => github[l] \in GitHubID /\ handle[l] \in Handle
    /\ pc[l] \in {"org", "member", "commit"} =>
          /\ lock[github[l]] = l
          /\ uid[l] = IF users[github[l]] = None THEN l ELSE users[github[l]].id
    /\ pc[l] = "done" => uid[l] \in Login /\ Committed(uid[l])

LoginsSound == \A l \in Login : LoginSound(l)

\* A lock is held by an open transaction of that account.
LocksSound ==
    \A g \in GitHubID : lock[g] # None =>
        pc[lock[g]] \in {"org", "member", "commit"} /\ github[lock[g]] = g

\* Users, organisations and memberships come together: the login that made a user
\* made its organisation and the membership, and has ended.
TablesSound ==
    /\ \A g \in GitHubID : users[g] # None =>
          /\ Committed(users[g].id)
          /\ github[users[g].id] = g
    /\ \A o \in Login : Committed(o) =>
          /\ pc[o] \in {"done", "failed"}
          /\ \E g \in GitHubID : users[g] # None /\ users[g].id = o
    /\ \A m \in [org : Login, user : Login] :
          m \in members <=> m.org = m.user /\ Committed(m.org)

\* A request has the id of a committed user, the organisation of that user and
\* the projects in it.
RequestSound(r) ==
    /\ stage[r] # "reauthenticate"
    /\ stage[r] # "idle" => sub[r] \in Login /\ Committed(sub[r]) /\ slug[r] \in Slug
    /\ stage[r] = "project" => org[r] = sub[r]
    /\ found[r] # {} => stage[r] = "done"
    /\ \A p \in found[r] :
          /\ p.org = sub[r]
          /\ projects[p.org][p.slug] # None
          /\ projects[p.org][p.slug].id = p.id

RequestsSound == \A r \in Request : RequestSound(r)

\* A project was created by the user whose organisation it is in.
ProjectsOwned ==
    \A o \in Login, s \in Slug : projects[o][s] # None =>
        projects[o][s].by = o /\ Committed(o)

IInv ==
    /\ TypeOK
    /\ LoginsSound
    /\ LocksSound
    /\ TablesSound
    /\ RequestsSound
    /\ ProjectsOwned



-----------------------------------------------------------------------------
(* Logins *)

LEMMA IInvInit == Init => IInv
  <1> SUFFICES ASSUME Init PROVE IInv
    OBVIOUS
  <1>1. TypeOK
    BY DEF Init, TypeOK
  <1>2. LoginsSound /\ LocksSound /\ TablesSound
    BY DEF Init, LoginsSound, LoginSound, LocksSound, TablesSound, Committed
  <1>3. RequestsSound /\ ProjectsOwned
    BY DEF Init, RequestsSound, RequestSound, ProjectsOwned
  <1>4. QED
    BY <1>1, <1>2, <1>3 DEF IInv

\* What a step of a login leaves alone: projects and requests; and it takes back
\* nothing that was committed.
LoginFrame ==
    /\ UNCHANGED <<projects, requestVars>>
    /\ \A o \in Login : Committed(o) => Committed(o)'

\* The login's side of the invariant.
LoginSide == LoginsSound /\ LocksSound /\ TablesSound

\* A login begins: its row in pc, github and handle.
LEMMA BeginUpsertSound ==
    ASSUME IInv, NEW l \in Login, NEW g \in GitHubID, NEW h \in Handle, BeginUpsert(l, g, h)
    PROVE  TypeOK' /\ LoginSide' /\ LoginFrame
  <1>1. TypeOK'
    BY DEF IInv, TypeOK, BeginUpsert, requestVars
  <1>2. LoginsSound'
    BY DEF IInv, TypeOK, LoginsSound, LoginSound, Committed, BeginUpsert
  <1>3. LocksSound'
    BY DEF IInv, TypeOK, LocksSound, BeginUpsert
  <1>4. TablesSound'
    BY DEF IInv, TypeOK, TablesSound, Committed, BeginUpsert
  <1>5. QED
    BY <1>1, <1>2, <1>3, <1>4 DEF LoginSide, LoginFrame, BeginUpsert, Committed

\* The upsert takes the lock, and no other transaction of the account is open.
LEMMA UpsertRowSound ==
    ASSUME IInv, NEW l \in Login, UpsertRow(l)
    PROVE  TypeOK' /\ LoginSide' /\ LoginFrame
  <1>1. github[l] \in GitHubID /\ lock[github[l]] = None /\ pc[l] = "upsert"
    BY DEF IInv, LoginsSound, LoginSound, UpsertRow
  <1>2. users[github[l]] # None => users[github[l]].id \in Login
    BY <1>1 DEF IInv, TypeOK
  <1>3. TypeOK'
    BY <1>1, <1>2 DEF IInv, TypeOK, UpsertRow, requestVars
  <1>4. LoginsSound'
    BY <1>1, <1>2, TenancyAssumption DEF IInv, TypeOK, LoginsSound, LoginSound, Committed, UpsertRow
  <1>5. LocksSound'
    BY <1>1 DEF IInv, TypeOK, LoginsSound, LoginSound, LocksSound, UpsertRow
  <1>6. TablesSound'
    BY <1>1 DEF IInv, TypeOK, TablesSound, Committed, UpsertRow
  <1>7. QED
    BY <1>3, <1>4, <1>5, <1>6 DEF LoginSide, LoginFrame, UpsertRow, Committed

\* Rows that are not yet committed are the transaction's own business.
LEMMA InsertSound ==
    ASSUME IInv, NEW l \in Login, InsertOrg(l) \/ InsertMember(l)
    PROVE  TypeOK' /\ LoginSide' /\ LoginFrame
  <1>1. TypeOK'
    BY DEF IInv, TypeOK, InsertOrg, InsertMember, requestVars
  <1>2. LoginsSound'
    BY DEF IInv, TypeOK, LoginsSound, LoginSound, Committed, InsertOrg, InsertMember
  <1>3. LocksSound'
    BY DEF IInv, TypeOK, LocksSound, InsertOrg, InsertMember
  <1>4. TablesSound'
    BY DEF IInv, TypeOK, TablesSound, Committed, InsertOrg, InsertMember
  <1>5. QED
    BY <1>1, <1>2, <1>3, <1>4 DEF LoginSide, LoginFrame, InsertOrg, InsertMember, Committed

\* The commit publishes user, organisation and membership at once.
LEMMA CommitSound ==
    ASSUME IInv, NEW l \in Login, Commit(l)
    PROVE  TypeOK' /\ LoginSide' /\ LoginFrame
  <1> DEFINE g == github[l]
             row == [id |-> uid[l], login |-> handle[l]]
  <1>1. /\ g \in GitHubID /\ handle[l] \in Handle /\ lock[g] = l /\ pc[l] = "commit"
        /\ uid[l] = IF users[g] = None THEN l ELSE users[g].id
    BY DEF IInv, LoginsSound, LoginSound, Commit
  <1>2. uid[l] \in Login
    BY <1>1 DEF IInv, TypeOK
  <1>3. handle[l] # None /\ row # None /\ ~Committed(l)
    BY <1>1, <1>2, TenancyAssumption DEF IInv, TablesSound
  <1>4. users[g] # None => uid[l] # l /\ Committed(uid[l]) /\ users[g].id = uid[l]
    BY <1>1, <1>3 DEF IInv, TablesSound
  <1>5. users' = [users EXCEPT ![g] = row]
    BY DEF Commit, CommitRows
  <1>6. \A o \in Login : orgs'[o] = IF o = uid[l] /\ o = l THEN handle[l] ELSE orgs[o]
    BY DEF IInv, TypeOK, Commit, CommitRows
  <1>7. \A o \in Login : Committed(o)' <=> Committed(o) \/ o = uid[l]
    BY <1>1, <1>3, <1>4, <1>6 DEF Committed
  <1>8. TypeOK'
    BY <1>1, <1>2 DEF IInv, TypeOK, Commit, CommitRows, requestVars
  <1>9. LoginsSound'
    <2> SUFFICES ASSUME NEW k \in Login PROVE LoginSound(k)'
      BY DEF LoginsSound
    <2>1. pc[k] \in {"org", "member", "commit"} /\ k # l => github[k] # g
      BY <1>1 DEF IInv, LoginsSound, LoginSound
    <2>2. k # l => pc'[k] = pc[k] /\ github'[k] = github[k] /\ uid'[k] = uid[k]
                   /\ handle'[k] = handle[k]
      BY DEF IInv, TypeOK, Commit
    <2>3. pc'[l] \in {"done", "failed"} /\ uid' = uid /\ github' = github /\ handle' = handle
      BY DEF IInv, TypeOK, Commit
    <2>4. CASE k = l
      BY <1>1, <1>2, <1>7, <2>3, <2>4 DEF LoginSound
    <2>5. CASE k # l
      <3>1. LoginSound(k)
        BY DEF IInv, LoginsSound
      <3>2. pc[k] # "idle" /\ github[k] # g =>
               lock'[github[k]] = lock[github[k]] /\ users'[github[k]] = users[github[k]]
        BY <1>5, <3>1 DEF IInv, TypeOK, Commit, LoginSound
      <3>3. QED
        BY <1>7, <2>1, <2>2, <2>5, <3>1, <3>2 DEF LoginSound
    <2>6. QED
      BY <2>4, <2>5
  <1>10. LocksSound'
    BY <1>1 DEF IInv, TypeOK, LocksSound, Commit
  <1>11. TablesSound'
    <2>1. ASSUME NEW k \in GitHubID, users'[k] # None
          PROVE  orgs'[users'[k].id] # None /\ github'[users'[k].id] = k
      <3>1. CASE k = g
        <4>1. users'[k] = row /\ row.id = uid[l] /\ github' = github
          BY <1>1, <1>5, <3>1 DEF IInv, TypeOK, Commit
        <4>2. github[uid[l]] = g
          BY <1>1, <1>4 DEF IInv, TablesSound
        <4>3. QED
          BY <1>2, <1>7, <3>1, <4>1, <4>2 DEF Committed
      <3>2. CASE k # g
        <4>1. users'[k] = users[k] /\ github' = github
          BY <1>5, <3>2 DEF IInv, TypeOK, Commit
        <4>2. users[k].id \in Login
          BY <2>1, <4>1 DEF IInv, TypeOK
        <4>3. QED
          BY <1>7, <2>1, <4>1, <4>2 DEF IInv, TablesSound, Committed
      <3>3. QED
        BY <3>1, <3>2
    <2>2. ASSUME NEW o \in Login, Committed(o)'
          PROVE  /\ pc'[o] \in {"done", "failed"}
                 /\ \E k \in GitHubID : users'[k] # None /\ users'[k].id = o
      <3>1. CASE o = uid[l]
        <4>1. users'[g] = row /\ row.id = o
          BY <1>1, <1>5, <3>1 DEF IInv, TypeOK
        <4>2. pc'[o] \in {"done", "failed"}
          BY <1>1, <1>2, <1>4, <3>1 DEF IInv, TypeOK, TablesSound, Commit
        <4>3. QED
          BY <1>1, <1>3, <4>1, <4>2
      <3>2. CASE o # uid[l]
        <4>1. Committed(o)
          BY <1>7, <2>2, <3>2
        <4>2. PICK k \in GitHubID : users[k] # None /\ users[k].id = o
          BY <4>1 DEF IInv, TablesSound
        <4>3. k # g
          BY <1>4, <3>2, <4>2
        <4>4. users'[k] = users[k]
          BY <1>5, <4>3 DEF IInv, TypeOK
        <4>5. pc'[o] \in {"done", "failed"}
          BY <4>1 DEF IInv, TypeOK, TablesSound, Commit
        <4>6. QED
          BY <4>2, <4>4, <4>5
      <3>3. QED
        BY <3>1, <3>2
    <2>3. ASSUME NEW m \in [org : Login, user : Login]
          PROVE  m \in members' <=> m.org = m.user /\ Committed(m.org)'
      <3>1. m.org \in Login /\ (m \in members <=> m.org = m.user /\ Committed(m.org))
        BY DEF IInv, TablesSound
      <3>2. CASE uid[l] = l
        <4>1. m = [org |-> l, user |-> l] <=> m.org = l /\ m.user = l
          OBVIOUS
        <4>2. m \in members' <=> m \in members \/ (m.org = l /\ m.user = l)
          BY <3>2, <4>1 DEF Commit, CommitRows
        <4>3. QED
          BY <1>7, <3>1, <3>2, <4>2
      <3>3. CASE uid[l] # l
        BY <1>1, <1>4, <1>7, <3>1, <3>3 DEF Commit, CommitRows
      <3>4. QED
        BY <3>2, <3>3
    <2>4. QED
      BY <2>1, <2>2, <2>3 DEF TablesSound, Committed
  <1>12. QED
    BY <1>7, <1>8, <1>9, <1>10, <1>11 DEF LoginSide, LoginFrame, Commit

\* A rollback leaves the tables, and frees the lock.
LEMMA RollbackSound ==
    ASSUME IInv, NEW l \in Login, Rollback(l)
    PROVE  TypeOK' /\ LoginSide' /\ LoginFrame
  <1>1. TypeOK'
    BY DEF IInv, TypeOK, Rollback, requestVars
  <1>2. LoginsSound'
    BY TenancyAssumption DEF IInv, TypeOK, LoginsSound, LoginSound, Committed, Rollback
  <1>3. LocksSound'
    BY DEF IInv, TypeOK, LocksSound, Rollback
  <1>4. TablesSound'
    BY DEF IInv, TypeOK, TablesSound, Committed, Rollback
  <1>5. QED
    BY <1>1, <1>2, <1>3, <1>4 DEF LoginSide, LoginFrame, Rollback, Committed

\* What a login does leaves what requests know true.
LEMMA LoginKeepsRequests ==
    ASSUME IInv, LoginFrame
    PROVE  RequestsSound' /\ ProjectsOwned'
  <1>1. RequestsSound'
    BY DEF IInv, TypeOK, RequestsSound, RequestSound, LoginFrame, requestVars
  <1>2. ProjectsOwned'
    BY DEF IInv, ProjectsOwned, LoginFrame
  <1>3. QED
    BY <1>1, <1>2

LEMMA LoginStepSound ==
    ASSUME IInv, NEW l \in Login,
           \/ \E g \in GitHubID, h \in Handle : BeginUpsert(l, g, h)
           \/ LoginStep(l)
           \/ Rollback(l)
    PROVE  IInv'
  <1>1. TypeOK' /\ LoginSide' /\ LoginFrame
    BY BeginUpsertSound, UpsertRowSound, InsertSound, CommitSound, RollbackSound DEF LoginStep
  <1>2. QED
    BY <1>1, LoginKeepsRequests DEF IInv, LoginSide

-----------------------------------------------------------------------------
(* Requests *)

RequestFrame == UNCHANGED <<users, orgs, members, lock, loginVars>>

\* What a request does leaves the logins and their tables alone.
LEMMA RequestKeepsLogins ==
    ASSUME IInv, RequestFrame
    PROVE  LoginSide'
  BY DEF IInv, LoginSide, RequestFrame, loginVars, LoginsSound, LoginSound, LocksSound,
         TablesSound, Committed

\* A token or session names a user that is committed.
LEMMA BeginRequestSound ==
    ASSUME IInv, NEW r \in Request, NEW l \in Login, NEW t \in Tool, NEW s \in Slug,
           NEW n \in Name \cup {None}, NEW scopes, BeginRequest(r, l, t, s, n, scopes)
    PROVE  TypeOK' /\ RequestFrame /\ RequestsSound' /\ ProjectsOwned'
  <1>1. uid[l] \in Login /\ Committed(uid[l])
    BY DEF IInv, LoginsSound, LoginSound, BeginRequest
  <1>2. TypeOK'
    BY <1>1 DEF IInv, TypeOK, BeginRequest, loginVars
  <1>3. RequestsSound'
    BY <1>1 DEF IInv, TypeOK, RequestsSound, RequestSound, Committed, BeginRequest
  <1>4. ProjectsOwned'
    BY DEF IInv, ProjectsOwned, Committed, BeginRequest
  <1>5. QED
    BY <1>2, <1>3, <1>4 DEF RequestFrame, BeginRequest

\* The user is found, for it is committed.
LEMMA ResolveUserSound ==
    ASSUME IInv, NEW r \in Request, ResolveUser(r)
    PROVE  TypeOK' /\ RequestFrame /\ RequestsSound' /\ ProjectsOwned'
  <1>1. sub[r] \in Login /\ Committed(sub[r])
    BY DEF IInv, RequestsSound, RequestSound, ResolveUser
  <1>2. \E g \in GitHubID : users[g] # None /\ users[g].id = sub[r]
    BY <1>1 DEF IInv, TablesSound
  <1>3. stage' = [stage EXCEPT ![r] = "org"]
    BY <1>2 DEF ResolveUser
  <1>4. TypeOK'
    BY <1>3 DEF IInv, TypeOK, ResolveUser, loginVars
  <1>5. RequestsSound'
    BY <1>3 DEF IInv, TypeOK, RequestsSound, RequestSound, Committed, ResolveUser
  <1>6. ProjectsOwned'
    BY DEF IInv, ProjectsOwned, Committed, ResolveUser
  <1>7. QED
    BY <1>4, <1>5, <1>6 DEF RequestFrame, ResolveUser

\* The personal organisation is the one that was made with the user.
LEMMA PersonalOrg ==
    ASSUME IInv, NEW u \in Login, Committed(u)
    PROVE  PersonalOrgs(u) = {u}
  <1>1. \A o \in Login : [org |-> o, user |-> u] \in members <=> o = u
    BY DEF IInv, TablesSound, Committed
  <1>2. QED
    BY <1>1 DEF PersonalOrgs, Committed

LEMMA ResolveOrgSound ==
    ASSUME IInv, NEW r \in Request, ResolveOrg(r)
    PROVE  TypeOK' /\ RequestFrame /\ RequestsSound' /\ ProjectsOwned'
  <1>1. sub[r] \in Login /\ Committed(sub[r])
    BY DEF IInv, RequestsSound, RequestSound, ResolveOrg
  <1>2. PersonalOrgs(sub[r]) = {sub[r]}
    BY <1>1, PersonalOrg
  <1>3. org' = [org EXCEPT ![r] = sub[r]] /\ stage' = [stage EXCEPT ![r] = "project"]
    BY <1>2 DEF ResolveOrg
  <1>4. TypeOK'
    BY <1>1, <1>3 DEF IInv, TypeOK, ResolveOrg, loginVars
  <1>5. RequestsSound'
    BY <1>3 DEF IInv, TypeOK, RequestsSound, RequestSound, Committed, ResolveOrg
  <1>6. ProjectsOwned'
    BY DEF IInv, ProjectsOwned, Committed, ResolveOrg
  <1>7. QED
    BY <1>4, <1>5, <1>6 DEF RequestFrame, ResolveOrg

\* At "project" a request works in its user's organisation.
LEMMA AtProject ==
    ASSUME IInv, NEW r \in Request, stage[r] = "project"
    PROVE  org[r] \in Login /\ org[r] = sub[r] /\ Committed(org[r]) /\ slug[r] \in Slug
  BY DEF IInv, RequestsSound, RequestSound

\* What is given out is there, and is the user's.
LEMMA GiveSound ==
    ASSUME IInv, NEW r \in Request, stage[r] = "project",
           NEW F \in SUBSET [org : Login, slug : Slug, id : Request], Give(r, F),
           projects' \in [Login -> [Slug ->
                             [id : Request, name : Slug \cup Name, by : Login] \cup {None}]],
           ProjectsOwned',
           \A o \in Login, s \in Slug : projects[o][s] # None =>
              projects'[o][s] # None /\ projects'[o][s].id = projects[o][s].id,
           \A p \in F : /\ p.org = sub[r]
                        /\ projects'[p.org][p.slug] # None
                        /\ projects'[p.org][p.slug].id = p.id
    PROVE  TypeOK' /\ RequestFrame /\ RequestsSound' /\ ProjectsOwned'
  <1>1. TypeOK'
    BY DEF IInv, TypeOK, Give, loginVars
  <1>2. ASSUME NEW q \in Request PROVE RequestSound(q)'
    <2>1. RequestSound(q) /\ found[q] \subseteq [org : Login, slug : Slug, id : Request]
      BY DEF IInv, RequestsSound, RequestSound, TypeOK
    <2>2. sub' = sub /\ slug' = slug /\ org' = org /\ orgs' = orgs
      BY DEF Give
    <2>3. CASE q = r
      <3>1. stage'[r] = "done" /\ found'[r] = F
        BY DEF Give, IInv, TypeOK
      <3>2. QED
        BY <2>1, <2>2, <2>3, <3>1 DEF RequestSound, Committed
    <2>4. CASE q # r
      <3>1. stage'[q] = stage[q] /\ found'[q] = found[q]
        BY <2>4 DEF Give, IInv, TypeOK
      <3>2. QED
        BY <2>1, <2>2, <3>1 DEF RequestSound, Committed
    <2>5. QED
      BY <2>3, <2>4
  <1>3. QED
    BY <1>1, <1>2 DEF RequestsSound, RequestSound, RequestFrame, Give

\* A project is created in the user's organisation, or keeps its id and creator.
LEMMA EnsureSound ==
    ASSUME IInv, NEW r \in Request, stage[r] = "project", NEW n \in Slug \cup Name, Ensure(r, n)
    PROVE  TypeOK' /\ RequestFrame /\ RequestsSound' /\ ProjectsOwned'
  <1> DEFINE o == org[r]
             s == slug[r]
             row == EnsuredRow(r, projects[o][s], n)
             F == {[org |-> o, slug |-> s, id |-> row.id]}
  <1>1. o \in Login /\ o = sub[r] /\ Committed(o) /\ s \in Slug
    BY AtProject
  <1>2. projects[o][s] \in [id : Request, name : Slug \cup Name, by : Login] \cup {None}
    BY <1>1 DEF IInv, TypeOK
  <1>3. /\ row \in [id : Request, name : Slug \cup Name, by : Login]
        /\ row # None /\ row.by = o
        /\ projects[o][s] # None => row.id = projects[o][s].id
    BY <1>1, <1>2, TenancyAssumption DEF EnsuredRow, IInv, ProjectsOwned
  <1>4. projects' = [projects EXCEPT ![o][s] = row] /\ Give(r, F)
    BY DEF Ensure
  <1> HIDE DEF row
  <1>5. F \in SUBSET [org : Login, slug : Slug, id : Request]
    BY <1>1, <1>3
  <1>6. \A k \in Login, t \in Slug :
           projects'[k][t] = IF k = o /\ t = s THEN row ELSE projects[k][t]
    BY <1>4 DEF IInv, TypeOK
  <1>7. projects' \in [Login -> [Slug ->
                         [id : Request, name : Slug \cup Name, by : Login] \cup {None}]]
    BY <1>1, <1>3, <1>4 DEF IInv, TypeOK
  <1>8. ProjectsOwned'
    BY <1>1, <1>3, <1>4, <1>6 DEF IInv, ProjectsOwned, Committed, Give
  <1>9. \A k \in Login, t \in Slug : projects[k][t] # None =>
           projects'[k][t] # None /\ projects'[k][t].id = projects[k][t].id
    BY <1>3, <1>6
  <1>10. \A p \in F : /\ p.org = sub[r]
                      /\ projects'[p.org][p.slug] # None
                      /\ projects'[p.org][p.slug].id = p.id
    BY <1>1, <1>3, <1>6
  <1> HIDE DEF F
  <1>11. QED
    BY <1>4, <1>5, <1>7, <1>8, <1>9, <1>10, GiveSound

\* Reading gives out what is there.
LEMMA ReadSound ==
    ASSUME IInv, NEW r \in Request, ProjectBySlug(r) \/ ProjectList(r)
    PROVE  TypeOK' /\ RequestFrame /\ RequestsSound' /\ ProjectsOwned'
  <1>1. stage[r] = "project" /\ projects' = projects
    BY DEF ProjectBySlug, ProjectList
  <1>2. PICK F \in SUBSET {Found(org[r], s) : s \in {t \in Slug : projects[org[r]][t] # None}} :
           Give(r, F)
    BY <1>1, AtProject DEF ProjectBySlug, ProjectList
  <1>3. \A p \in F : \E s \in Slug : projects[org[r]][s] # None /\ p = Found(org[r], s)
    OBVIOUS
  <1>4. \A s \in Slug : projects[org[r]][s] # None => projects[org[r]][s].id \in Request
    BY <1>1, AtProject DEF IInv, TypeOK
  <1>5. \A p \in F : /\ p \in [org : Login, slug : Slug, id : Request]
                     /\ p.org = sub[r]
                     /\ projects[p.org][p.slug] # None
                     /\ projects[p.org][p.slug].id = p.id
    BY <1>1, <1>3, <1>4, AtProject DEF Found
  <1>6. ProjectsOwned' /\ projects' \in [Login -> [Slug ->
                         [id : Request, name : Slug \cup Name, by : Login] \cup {None}]]
    BY <1>1, <1>2 DEF IInv, TypeOK, ProjectsOwned, Committed, Give
  <1>7. QED
    BY <1>1, <1>2, <1>5, <1>6, GiveSound

LEMMA RequestFailsSound ==
    ASSUME IInv, NEW r \in Request, RequestFails(r)
    PROVE  TypeOK' /\ RequestFrame /\ RequestsSound' /\ ProjectsOwned'
  <1>1. TypeOK'
    BY DEF IInv, TypeOK, RequestFails, loginVars
  <1>2. RequestsSound'
    BY DEF IInv, TypeOK, RequestsSound, RequestSound, Committed, RequestFails
  <1>3. ProjectsOwned'
    BY DEF IInv, ProjectsOwned, Committed, RequestFails
  <1>4. QED
    BY <1>1, <1>2, <1>3 DEF RequestFrame, RequestFails

LEMMA RequestStepSound ==
    ASSUME IInv, NEW r \in Request, RequestStep(r)
    PROVE  TypeOK' /\ RequestFrame /\ RequestsSound' /\ ProjectsOwned'
  <1>1. CASE ProjectEnsure(r)
    <2>1. stage[r] = "project" /\ EnsureName(r) \in Slug \cup Name
      BY <1>1, AtProject DEF ProjectEnsure, EnsureName, IInv, TypeOK
    <2>2. QED
      BY <1>1, <2>1, EnsureSound DEF ProjectEnsure
  <1>2. CASE InsightWriteProject(r)
    BY <1>2, AtProject, EnsureSound DEF InsightWriteProject
  <1>3. QED
    BY <1>1, <1>2, ResolveUserSound, ResolveOrgSound, ReadSound DEF RequestStep

-----------------------------------------------------------------------------
(* Theorems *)

LEMMA IInvNext == IInv /\ [Next]_vars => IInv'
  <1>1. ASSUME IInv, UNCHANGED vars PROVE IInv'
    BY <1>1 DEF vars, loginVars, requestVars, IInv, TypeOK, LoginsSound, LoginSound, LocksSound,
       TablesSound, RequestsSound, RequestSound, ProjectsOwned, Committed
  <1>2. ASSUME IInv, NEW r \in Request, NEW l \in Login, NEW t \in Tool, NEW s \in Slug,
               NEW n \in Name \cup {None}, NEW scopes,
               BeginRequest(r, l, t, s, n, scopes)
        PROVE  IInv'
    BY <1>2, BeginRequestSound, RequestKeepsLogins DEF IInv, LoginSide
  <1>3. ASSUME IInv, NEW r \in Request, RequestStep(r) \/ RequestFails(r) PROVE IInv'
    BY <1>3, RequestStepSound, RequestFailsSound, RequestKeepsLogins DEF IInv, LoginSide
  <1>4. QED
    BY <1>1, <1>2, <1>3, LoginStepSound DEF Next

\* Whatever logins and requests do to the tables, the invariant holds.
THEOREM Invariance == Spec => []IInv
  BY IInvInit, IInvNext, PTL DEF Spec

\* Who owns what.
LEMMA Ownership ==
    ASSUME IInv, NEW u \in Login, NEW o \in Login
    PROVE  Owns(u, o) <=> u = o /\ Committed(o)
  BY DEF IInv, TablesSound, Owns, Committed

\* A user has one personal organisation and one entry, and every organisation its
\* owner, whichever logins of one account overlapped, failed or crashed.
THEOREM OneOrg == Spec => []OneOrgPerUser
  <1>1. IInv => OneOrgPerUser
    <2> SUFFICES ASSUME IInv PROVE OneOrgPerUser
      OBVIOUS
    <2>1. \A g \in GitHubID : users[g] # None => users[g].id \in Login
      BY DEF IInv, TypeOK
    <2>2. ASSUME NEW g \in GitHubID, users[g] # None
          PROVE  \E o \in Login : \A p \in Login : Owns(users[g].id, p) <=> p = o
      <3>1. users[g].id \in Login /\ Committed(users[g].id)
        BY <2>1, <2>2 DEF IInv, TablesSound
      <3>2. \A p \in Login : Owns(users[g].id, p) <=> p = users[g].id
        BY <3>1, Ownership
      <3>3. QED
        BY <3>1, <3>2
    <2>3. ASSUME NEW o \in Login, orgs[o] # None
          PROVE  \E g \in GitHubID : users[g] # None /\ Owns(users[g].id, o)
      <3>1. PICK g \in GitHubID : users[g] # None /\ users[g].id = o
        BY <2>3 DEF IInv, TablesSound, Committed
      <3>2. QED
        BY <2>3, <3>1, Ownership DEF Committed
    <2>4. QED
      BY <2>2, <2>3 DEF OneOrgPerUser, IInv, TablesSound
  <1>2. QED
    BY <1>1, Invariance, PTL

\* Nobody who has logged in is sent to log in again.
THEOREM Resolves == Spec => []LoggedInResolves
  <1>1. IInv => LoggedInResolves
    BY DEF IInv, RequestsSound, RequestSound, LoggedInResolves
  <1>2. QED
    BY <1>1, Invariance, PTL

\* Users and their organisations fit together for everybody who has logged in.
THEOREM Tenants == Spec => []TenantsSound
  <1>1. IInv => TypeOK
    BY DEF IInv
  <1>2. TypeOK /\ OneOrgPerUser /\ LoggedInResolves => TenantsSound
    BY DEF TenantsSound
  <1>3. QED
    BY <1>1, <1>2, Invariance, OneOrg, Resolves, PTL

\* Requests are given, and create, their own user's projects only, and an id given
\* out stays the id of that slug.
THEOREM Projects == Spec => []ProjectsSound
  <1>1. ASSUME IInv PROVE ProjectsSound
    <2>1. ASSUME NEW r \in Request, NEW p \in found[r]
          PROVE  /\ Owns(sub[r], p.org)
                 /\ projects[p.org][p.slug] # None /\ projects[p.org][p.slug].id = p.id
      <3>1. RequestSound(r)
        BY <1>1 DEF IInv, RequestsSound
      <3>2. QED
        BY <1>1, <2>1, <3>1, Ownership DEF RequestSound
    <2>2. ASSUME NEW o \in Login, NEW s \in Slug, projects[o][s] # None
          PROVE  Owns(projects[o][s].by, o)
      BY <1>1, <2>2, Ownership DEF IInv, ProjectsOwned
    <2>3. QED
      BY <2>1, <2>2 DEF ProjectsSound, OwnProjectsOnly, ProjectIdsStable
  <1>2. QED
    BY <1>1, Invariance, PTL
=============================================================================

------------------------------- MODULE Tenancy -------------------------------
(***************************************************************************)
(* Users, their personal organisations and the projects in them: UpsertUser *)
(* and EnsureProject of internal/store/postgres/store.go, and how a request *)
(* of the MCP server (tools.go) or the dashboard (ui_service.go) finds its  *)
(* user, organisation and project.                                          *)
(*                                                                          *)
(* UpsertUser is a transaction of up to three statements; the first one     *)
(* locks the entry of the GitHub id until commit or rollback, and others    *)
(* wait for it.  Uncommitted rows are in the variables of the login.        *)
(*                                                                          *)
(* Data abstraction.  A login or a request creates at most one row of each  *)
(* kind, so a user, an organisation and a project are identified by the     *)
(* login or request that created them.  Of a profile only the GitHub login  *)
(* is kept: a user may rename it and another may then take it.              *)
(***************************************************************************)
EXTENDS FiniteSets

CONSTANTS
    Login,      \* executions of UpsertUser, and the user and organisation ids they make
    GitHubID,   \* GitHub accounts
    Handle,     \* GitHub logins
    Request,    \* requests, and the project ids they make
    Slug,       \* project slugs
    Name,       \* display names given to project_ensure
    None        \* no row, no name

ASSUME TenancyAssumption ==
    /\ None \notin Login \cup Handle \cup Request \cup Slug \cup Name
    /\ None \notin [id : Login, login : Handle]
    /\ None \notin [id : Request, name : Slug \cup Name, by : Login]

VARIABLES
    users,      \* GitHub account -> committed row
    orgs,       \* organisation id -> slug of the committed row
    members,    \* committed memberships, all with role owner
    projects,   \* organisation, slug -> row
    lock,       \* GitHub account -> the login whose transaction holds its entry
    pc,         \* the next statement of a login
    github,     \* the GitHub account of a login
    handle,     \* the GitHub login in its profile
    uid,        \* the user id its upsert returned
    stage,      \* where a request is
    tool,       \* the tool of a request
    sub,        \* the user id in its token or session
    slug,       \* the project it names
    name,       \* the display name it gives
    org,        \* the organisation it resolved
    found       \* the projects it was given: organisation, slug and id

loginVars == <<pc, github, handle, uid>>

requestVars == <<stage, tool, sub, slug, name, org, found>>

vars == <<users, orgs, members, projects, lock, loginVars, requestVars>>

-----------------------------------------------------------------------------
(* UpsertUser *)

\* A GitHub callback, or a refresh that asked GitHub who the user is.
BeginUpsert(l, g, h) ==
    /\ pc[l] = "idle"
    /\ pc' = [pc EXCEPT ![l] = "upsert"]
    /\ github' = [github EXCEPT ![l] = g]
    /\ handle' = [handle EXCEPT ![l] = h]
    /\ UNCHANGED <<users, orgs, members, projects, lock, uid, requestVars>>

\* Mutant: the insert does not wait for the transaction that is inserting.
UpsertRow_NoWait(l) ==
    /\ pc[l] = "upsert"
    /\ lock' = [lock EXCEPT ![github[l]] = l]
    /\ LET row == users[github[l]]
       IN  /\ uid' = [uid EXCEPT ![l] = IF row = None THEN l ELSE row.id]
           /\ pc' = [pc EXCEPT ![l] = IF row = None THEN "org" ELSE "commit"]
    /\ UNCHANGED <<users, orgs, members, projects, github, handle, requestVars>>

\* INSERT ... ON CONFLICT DO UPDATE ... RETURNING id, (xmax = 0) AS created.
UpsertRow(l) ==
    /\ pc[l] = "upsert"
    /\ lock[github[l]] = None
    /\ lock' = [lock EXCEPT ![github[l]] = l]
    /\ LET row == users[github[l]]
       IN  /\ uid' = [uid EXCEPT ![l] = IF row = None THEN l ELSE row.id]
           /\ pc' = [pc EXCEPT ![l] = IF row = None THEN "org" ELSE "commit"]
    /\ UNCHANGED <<users, orgs, members, projects, github, handle, requestVars>>

\* The personal organisation of a new user, with the GitHub login as its slug.
InsertOrg(l) ==
    /\ pc[l] = "org"
    /\ pc' = [pc EXCEPT ![l] = "member"]
    /\ UNCHANGED <<users, orgs, members, projects, lock, github, handle, uid, requestVars>>

InsertMember(l) ==
    /\ pc[l] = "member"
    /\ pc' = [pc EXCEPT ![l] = "commit"]
    /\ UNCHANGED <<users, orgs, members, projects, lock, github, handle, uid, requestVars>>

\* Mutant: the membership is written after the commit, and gets lost.
CommitRows_NoMember(l) ==
    /\ users' = [users EXCEPT ![github[l]] = [id |-> uid[l], login |-> handle[l]]]
    /\ orgs' = IF uid[l] = l THEN [orgs EXCEPT ![l] = handle[l]] ELSE orgs
    /\ UNCHANGED members

\* What the transaction of l makes visible.
CommitRows(l) ==
    /\ users' = [users EXCEPT ![github[l]] = [id |-> uid[l], login |-> handle[l]]]
    /\ orgs' = IF uid[l] = l THEN [orgs EXCEPT ![l] = handle[l]] ELSE orgs
    /\ members' = IF uid[l] = l THEN members \cup {[org |-> l, user |-> l]} ELSE members

\* The commit succeeds, and the caller learns of it or not.
Commit(l) ==
    /\ pc[l] = "commit"
    /\ CommitRows(l)
    /\ lock' = [lock EXCEPT ![github[l]] = None]
    /\ \E p \in {"done", "failed"} : pc' = [pc EXCEPT ![l] = p]
    /\ UNCHANGED <<projects, github, handle, uid, requestVars>>

\* Mutant: an error leaves the transaction open.
Rollback_Forgotten(l) ==
    /\ pc[l] \in {"upsert", "org", "member", "commit"}
    /\ pc' = [pc EXCEPT ![l] = "failed"]
    /\ UNCHANGED <<users, orgs, members, projects, lock, github, handle, uid, requestVars>>

\* A statement or the commit fails, or the process crashes: the transaction is
\* rolled back and its lock released.
Rollback(l) ==
    /\ pc[l] \in {"upsert", "org", "member", "commit"}
    /\ pc' = [pc EXCEPT ![l] = "failed"]
    /\ lock' = [g \in GitHubID |-> IF lock[g] = l THEN None ELSE lock[g]]
    /\ UNCHANGED <<users, orgs, members, projects, github, handle, uid, requestVars>>

-----------------------------------------------------------------------------
(* Requests *)

Tool == {"project_ensure", "insight_write", "insight_write_expected", "project_list",
         "read"}

\* mcpBearerAuth asks for insights:read, and the writing tools for insights:write.
Allowed(t, scopes) ==
    /\ "insights:read" \in scopes
    /\ t \in {"insight_write", "insight_write_expected"} => "insights:write" \in scopes

\* A request with a token, or a session, that a login l was given.
BeginRequest(r, l, t, s, n, scopes) ==
    /\ stage[r] = "idle"
    /\ pc[l] = "done"
    /\ n # None => t = "project_ensure"
    /\ stage' = [stage EXCEPT ![r] = IF Allowed(t, scopes) THEN "user" ELSE "failed"]
    /\ tool' = [tool EXCEPT ![r] = t]
    /\ sub' = [sub EXCEPT ![r] = uid[l]]
    /\ slug' = [slug EXCEPT ![r] = s]
    /\ name' = [name EXCEPT ![r] = n]
    /\ UNCHANGED <<users, orgs, members, projects, lock, loginVars, org, found>>

\* GetUserByID; without a row the client is asked to authenticate again.
ResolveUser(r) ==
    /\ stage[r] = "user"
    /\ stage' = [stage EXCEPT ![r] =
                    IF \E g \in GitHubID : users[g] # None /\ users[g].id = sub[r]
                    THEN "org" ELSE "reauthenticate"]
    /\ UNCHANGED <<users, orgs, members, projects, lock, loginVars, tool, sub, slug, name,
                   org, found>>

\* Mutant: the organisation is looked up by the GitHub login of the user.
PersonalOrgs_BySlug(u) ==
    {o \in Login : orgs[o] # None /\ \E g \in GitHubID :
        users[g] # None /\ users[g].id = u /\ users[g].login = orgs[o]}

\* The personal organisations of user u: orgs joined with its memberships.
PersonalOrgs(u) == {o \in Login : orgs[o] # None /\ [org |-> o, user |-> u] \in members}

\* GetPersonalOrgByUserID takes the first row.
ResolveOrg(r) ==
    /\ stage[r] = "org"
    /\ \/ \E o \in PersonalOrgs(sub[r]) :
            /\ org' = [org EXCEPT ![r] = o]
            /\ stage' = [stage EXCEPT ![r] = "project"]
       \/ /\ PersonalOrgs(sub[r]) = {}
          /\ stage' = [stage EXCEPT ![r] = "reauthenticate"]
          /\ UNCHANGED org
    /\ UNCHANGED <<users, orgs, members, projects, lock, loginVars, tool, sub, slug, name,
                   found>>

\* The request ends with the projects in F.
Give(r, F) ==
    /\ stage' = [stage EXCEPT ![r] = "done"]
    /\ found' = [found EXCEPT ![r] = F]
    /\ UNCHANGED <<users, orgs, members, lock, loginVars, tool, sub, slug, name, org>>

Found(o, s) == [org |-> o, slug |-> s, id |-> projects[o][s].id]

\* Mutant: an existing project is replaced.
EnsuredRow_Replaced(r, row, n) == [id |-> r, name |-> n, by |-> sub[r]]

\* ON CONFLICT (org_id, slug) DO UPDATE SET name.
EnsuredRow(r, row, n) ==
    IF row = None THEN [id |-> r, name |-> n, by |-> sub[r]] ELSE [row EXCEPT !.name = n]

\* EnsureProject, one statement.
Ensure(r, n) ==
    LET row == EnsuredRow(r, projects[org[r]][slug[r]], n)
    IN  /\ projects' = [projects EXCEPT ![org[r]][slug[r]] = row]
        /\ Give(r, {[org |-> org[r], slug |-> slug[r], id |-> row.id]})

\* The slug is the name when none is given.
EnsureName(r) == IF name[r] = None THEN slug[r] ELSE name[r]

ProjectEnsure(r) ==
    /\ stage[r] = "project"
    /\ tool[r] = "project_ensure"
    /\ Ensure(r, EnsureName(r))

\* insight_write ensures its project, always with the slug as the name.
InsightWriteProject(r) ==
    /\ stage[r] = "project"
    /\ tool[r] = "insight_write"
    /\ Ensure(r, slug[r])

\* GetProjectBySlug, of the reading tools, the dashboard, and insight_write with a
\* positive expected revision; a missing project is a conflict or not found.
ProjectBySlug(r) ==
    /\ stage[r] = "project"
    /\ tool[r] \in {"read", "insight_write_expected"}
    /\ Give(r, IF projects[org[r]][slug[r]] = None THEN {} ELSE {Found(org[r], slug[r])})
    /\ UNCHANGED projects

\* ListProjects.
ProjectList(r) ==
    /\ stage[r] = "project"
    /\ tool[r] = "project_list"
    /\ Give(r, {Found(org[r], s) : s \in {t \in Slug : projects[org[r]][t] # None}})
    /\ UNCHANGED projects

RequestFails(r) ==
    /\ stage[r] \in {"user", "org", "project"}
    /\ stage' = [stage EXCEPT ![r] = "failed"]
    /\ UNCHANGED <<users, orgs, members, projects, lock, loginVars, tool, sub, slug, name,
                   org, found>>

-----------------------------------------------------------------------------
(* Specification *)

Init ==
    /\ users = [g \in GitHubID |-> None]
    /\ orgs = [o \in Login |-> None]
    /\ members = {}
    /\ projects = [o \in Login |-> [s \in Slug |-> None]]
    /\ lock = [g \in GitHubID |-> None]
    /\ pc = [l \in Login |-> "idle"]
    /\ github = [l \in Login |-> None]
    /\ handle = [l \in Login |-> None]
    /\ uid = [l \in Login |-> None]
    /\ stage = [r \in Request |-> "idle"]
    /\ tool = [r \in Request |-> None]
    /\ sub = [r \in Request |-> None]
    /\ slug = [r \in Request |-> None]
    /\ name = [r \in Request |-> None]
    /\ org = [r \in Request |-> None]
    /\ found = [r \in Request |-> {}]

LoginStep(l) == UpsertRow(l) \/ InsertOrg(l) \/ InsertMember(l) \/ Commit(l)

RequestStep(r) ==
    \/ ResolveUser(r) \/ ResolveOrg(r) \/ ProjectEnsure(r) \/ InsightWriteProject(r)
    \/ ProjectBySlug(r) \/ ProjectList(r)

Next ==
    \/ \E l \in Login :
        \/ \E g \in GitHubID, h \in Handle : BeginUpsert(l, g, h)
        \/ LoginStep(l)
        \/ Rollback(l)
    \/ \E r \in Request :
        \/ \E l \in Login, t \in Tool, s \in Slug, n \in Name \cup {None} :
           \E scopes \in SUBSET {"insights:read", "insights:write"} :
                BeginRequest(r, l, t, s, n, scopes)
        \/ RequestStep(r)
        \/ RequestFails(r)

Spec == Init /\ [][Next]_vars

\* Statements are answered, and a lock that is free is granted.
FairSpec ==
    /\ Spec
    /\ \A l \in Login : WF_vars(LoginStep(l))
    /\ \A r \in Request : WF_vars(RequestStep(r))

-----------------------------------------------------------------------------
(* Properties *)

TypeOK ==
    /\ users \in [GitHubID -> [id : Login, login : Handle] \cup {None}]
    /\ orgs \in [Login -> Handle \cup {None}]
    /\ members \subseteq [org : Login, user : Login]
    /\ projects \in [Login -> [Slug ->
                        [id : Request, name : Slug \cup Name, by : Login] \cup {None}]]
    /\ lock \in [GitHubID -> Login \cup {None}]
    /\ pc \in [Login -> {"idle", "upsert", "org", "member", "commit", "done", "failed"}]
    /\ github \in [Login -> GitHubID \cup {None}]
    /\ handle \in [Login -> Handle \cup {None}]
    /\ uid \in [Login -> Login \cup {None}]
    /\ stage \in [Request -> {"idle", "user", "org", "project", "done", "failed",
                              "reauthenticate"}]
    /\ tool \in [Request -> Tool \cup {None}]
    /\ sub \in [Request -> Login \cup {None}]
    /\ slug \in [Request -> Slug \cup {None}]
    /\ name \in [Request -> Name \cup {None}]
    /\ org \in [Request -> Login \cup {None}]
    /\ found \in [Request -> SUBSET [org : Login, slug : Slug, id : Request]]

\* User u owns organisation o.
Owns(u, o) == orgs[o] # None /\ [org |-> o, user |-> u] \in members

\* A user has exactly one personal organisation and no organisation is without its
\* one owner, however first logins of one account overlap, fail or crash.
OneOrgPerUser ==
    /\ \A g \in GitHubID : users[g] # None =>
        \E o \in Login : \A p \in Login : Owns(users[g].id, p) <=> p = o
    /\ \A o \in Login : orgs[o] # None =>
        \E g \in GitHubID : users[g] # None /\ Owns(users[g].id, o)
    /\ \A g, h \in GitHubID :
        users[g] # None /\ users[h] # None /\ users[g].id = users[h].id => g = h

\* Nobody who was given a token or a session is told to authenticate again because
\* the user or the organisation is missing.
LoggedInResolves == \A r \in Request : stage[r] # "reauthenticate"

\* Requests are given, and create, projects of their own user's organisation only,
\* even if that user's GitHub login was another's before.
OwnProjectsOnly ==
    /\ \A r \in Request : \A p \in found[r] : Owns(sub[r], p.org)
    /\ \A o \in Login, s \in Slug : projects[o][s] # None =>
        Owns(projects[o][s].by, o)

\* A project id, once given to a request, stays the id of that slug: whoever ensures
\* the project again or at the same time gets the same one.
ProjectIdsStable ==
    \A r \in Request : \A p \in found[r] :
        projects[p.org][p.slug] # None /\ projects[p.org][p.slug].id = p.id

\* A login ends although it may wait for another one of the same account.
LoginsEnd == \A l \in Login : pc[l] = "upsert" ~> pc[l] \in {"done", "failed"}

\* Users and their organisations fit together for everybody who has logged in.
TenantsSound ==
    /\ TypeOK
    /\ OneOrgPerUser
    /\ LoggedInResolves

\* Whatever a request is told of projects is its own user's and stays true.
ProjectsSound == OwnProjectsOnly /\ ProjectIdsStable
=============================================================================

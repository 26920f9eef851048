------------------------------ MODULE Accounts ------------------------------
(***************************************************************************)
(* Users, teams, sessions and API tokens on the Bolt store: the requests   *)
(* of api/login.go, auth.go, user.go, users.go and of api/projects that    *)
(* log in, authenticate and change accounts, projects and memberships.     *)
(* Each transaction is a step: what a handler has read may be out of date  *)
(* when it writes, and the process may die between two transactions.       *)
(*                                                                         *)
(* A name stands for the username and the email of a user; LDAP servers    *)
(* and OpenID providers are the names they vouch for.                      *)
(***************************************************************************)
EXTENDS Integers, FiniteSets, FiniteSetsExt

CONSTANTS
    User,          \* user ids
    Name,          \* usernames
    Password,      \* passwords
    Project,       \* project ids
    Token,         \* API tokens
    Session,       \* session ids
    Req,           \* bound: requests, each made once
    NoRow,         \* a row that is not in its table
    NonAdminCanCreateProject,  \* util.Config.NonAdminCanCreateProject
    LdapEnable,    \* util.Config.LdapEnable
    Seed           \* the accounts that exist at the start

VARIABLES
    users,         \* the table of users
    userIds,       \* the ids NextSequence has given to users
    projects,      \* the projects in the table
    projectIds,    \* the ids NextSequence has given to projects
    member,        \* role of a user in a project, "none" if not in its team
    tokenRow,      \* bucket user__token_<user>
    tokenIndex,    \* bucket token: the user of a token
    sessions,      \* bucket session_<user>
    pc,            \* where a request is
    me,            \* context "user", as authentication has read it
    seen,          \* what the request has read, or is about to write
    wasAdmin,      \* history: users that have had the admin flag
    stray          \* history: memberships that may outlive their user, see
                   \* MembersGone

tables == <<users, userIds, projects, projectIds, member, tokenRow, tokenIndex, sessions>>
vars   == <<tables, pc, me, seen, wasAdmin, stray>>

Roles   == {"owner", "manager", "task_runner", "guest"}
UserRow == [name : Name, admin : BOOLEAN, external : BOOLEAN, pwd : Password \cup {""}]
Pcs     == {"new", "createExternal", "insertExternal", "createSession", "getUser", "authed",
            "insertUser", "user", "writeUser", "deleteUser", "index", "owner", "project",
            "member", "done"}

ASSUME AccountsAssumption ==
    /\ User \subseteq Nat /\ IsFiniteSet(User)
    /\ NonAdminCanCreateProject \in BOOLEAN /\ LdapEnable \in BOOLEAN
    /\ "" \notin Password
    /\ NoRow \notin UserRow /\ NoRow \notin [user : User, expired : BOOLEAN]
    /\ Seed.users \in [User -> UserRow \cup {NoRow}]
    /\ Seed.member \in [Project -> [User -> Roles \cup {"none"}]]
    /\ Seed.projects \subseteq Project
    /\ Seed.sessions \in [Session -> [user : User, age : {"fresh"}] \cup {NoRow}]

TypeOK ==
    /\ users \in [User -> UserRow \cup {NoRow}]
    /\ userIds \subseteq User
    /\ projects \subseteq Project /\ projectIds \subseteq Project
    /\ member \in [Project -> [User -> Roles \cup {"none"}]]
    /\ tokenRow \in [Token -> [user : User, expired : BOOLEAN] \cup {NoRow}]
    /\ tokenIndex \in [Token -> User \cup {NoRow}]
    /\ sessions \in [Session -> [user : User, age : {"fresh", "old"}] \cup {NoRow}]
    /\ pc \in [Req -> Pcs]
    /\ me \in [Req -> [id : User, admin : BOOLEAN] \cup {NoRow}]
    /\ wasAdmin \subseteq User
    /\ stray \subseteq Project \X User

Init ==
    /\ users = Seed.users
    /\ userIds = {u \in User : users[u] # NoRow}
    /\ projects = Seed.projects /\ projectIds = projects
    /\ member = Seed.member
    /\ tokenRow = [t \in Token |-> NoRow]
    /\ tokenIndex = [t \in Token |-> NoRow]
    /\ sessions = Seed.sessions
    /\ pc = [r \in Req |-> "new"]
    /\ me = [r \in Req |-> NoRow]
    /\ seen = [r \in Req |-> NoRow]
    /\ wasAdmin = {u \in userIds : users[u].admin}
    /\ stray = {x \in Project \X User : users[x[2]] = NoRow /\ member[x[1]][x[2]] # "none"}

-----------------------------------------------------------------------------
\* A request goes on, remembering x; it is over.
Goto(r, where, x) ==
    /\ pc' = [pc EXCEPT ![r] = where]
    /\ seen' = [seen EXCEPT ![r] = x]

Done(r) ==
    /\ pc' = [pc EXCEPT ![r] = "done"]
    /\ seen' = [seen EXCEPT ![r] = NoRow]
    /\ me' = [me EXCEPT ![r] = NoRow]

\* db.GetUserByLoginOrEmail: the first user of that name.
Found(n) == {u \in User : users[u] # NoRow /\ users[u].name = n}
GetUserByLoginOrEmail(n) == Min(Found(n))

\* createObject gives a new user who comes without an id the next one of the
\* sequence, which does not know the ids that bodies have named.  It replaces a
\* row that has the id already.
NextUserId(u) ==
    /\ User \ userIds # {}
    /\ u = Min(User \ userIds)
    /\ userIds' = userIds \cup {u}

InsertUser(u, row) ==
    /\ users' = [users EXCEPT ![u] = row]
    /\ wasAdmin' = IF row.admin THEN wasAdmin \cup {u} ELSE wasAdmin

\* updateObject needs the row.
UpdateUserRow(u, row) ==
    /\ users' = IF users[u] = NoRow THEN users ELSE [users EXCEPT ![u] = row]
    /\ wasAdmin' = IF users[u] # NoRow /\ row.admin THEN wasAdmin \cup {u} ELSE wasAdmin

\* Whether u is not there or somebody is deleting u.
Leaving(u) == users[u] = NoRow \/ \E r \in Req : pc[r] = "deleteUser" /\ seen[r].id = u

\* createObject and updateObject of a ProjectUser, whose key is the user.
CreateProjectUser(p, u, role) ==
    /\ member' = [member EXCEPT ![p][u] = role]
    /\ stray' = IF Leaving(u) THEN stray \cup {<<p, u>>} ELSE stray

DeleteProjectUser(p, u) ==
    /\ member' = [member EXCEPT ![p][u] = "none"]
    /\ stray' = stray \ {<<p, u>>}

-----------------------------------------------------------------------------
(***************************************************************************)
(* Login.  A found user must be of the kind that logs in this way; an      *)
(* unknown one whom LDAP or OpenID vouches for is created.                 *)
(***************************************************************************)

\* What the LDAP server says of a name and a password: it vouches for them, it
\* has no such entry, or anything else, a wrong password included, which is an
\* error.  It is not asked if LDAP is disabled.
TryFindLDAPUser == IF LdapEnable THEN {"user", "nobody", "error"} ELSE {"nobody"}

\* What becomes of the answer of an OpenID provider.
ClaimOidcToken == {"claims", "error"}

LoginByPassword(r, n, pwd) ==
    /\ pc[r] = "new"
    /\ "nobody" \in TryFindLDAPUser
    /\ IF /\ Found(n) # {}
          /\ ~ users[GetUserByLoginOrEmail(n)].external
          /\ users[GetUserByLoginOrEmail(n)].pwd = pwd
       THEN Goto(r, "createSession", GetUserByLoginOrEmail(n)) /\ UNCHANGED me
       ELSE Done(r)
    /\ UNCHANGED <<tables, wasAdmin, stray>>

ExternalLookup(r, n) ==
    /\ pc[r] = "new"
    /\ IF Found(n) = {} THEN Goto(r, "createExternal", n) /\ UNCHANGED me
       ELSE IF users[GetUserByLoginOrEmail(n)].external
       THEN Goto(r, "createSession", GetUserByLoginOrEmail(n)) /\ UNCHANGED me
       ELSE Done(r)
    /\ UNCHANGED <<tables, wasAdmin, stray>>

LoginByLDAP(r, n) == "user" \in TryFindLDAPUser /\ ExternalLookup(r, n)
OidcRedirect(r, n) == "claims" \in ClaimOidcToken /\ ExternalLookup(r, n)

LoginError(r) ==
    /\ pc[r] = "new"
    /\ "error" \in TryFindLDAPUser \cup ClaimOidcToken
    /\ Done(r)
    /\ UNCHANGED <<tables, wasAdmin, stray>>

\* CreateUserWithoutPassword looks for the name again ...
CreateUserWithoutPassword(r) ==
    /\ pc[r] = "createExternal"
    /\ IF Found(seen[r]) = {} THEN Goto(r, "insertExternal", seen[r]) /\ UNCHANGED me
                              ELSE Done(r)
    /\ UNCHANGED <<tables, wasAdmin, stray>>

\* ... and inserts the user in another transaction.
InsertExternal(r) ==
    /\ pc[r] = "insertExternal"
    /\ \E u \in User :
          /\ NextUserId(u)
          /\ InsertUser(u, [name |-> seen[r], admin |-> FALSE, external |-> TRUE, pwd |-> ""])
          /\ Goto(r, "createSession", u)
    /\ UNCHANGED <<projects, projectIds, member, tokenRow, tokenIndex, sessions, me, stray>>

CreateSession(r, s) ==
    /\ pc[r] = "createSession"
    /\ sessions[s] = NoRow
    /\ sessions' = [sessions EXCEPT ![s] = [user |-> seen[r], age |-> "fresh"]]
    /\ Done(r)
    /\ UNCHANGED <<users, userIds, projects, projectIds, member, tokenRow, tokenIndex, wasAdmin, stray>>

\* A session is not used for a week.
Age(s) ==
    /\ sessions[s] # NoRow
    /\ sessions[s].age = "fresh"
    /\ sessions' = [sessions EXCEPT ![s].age = "old"]
    /\ UNCHANGED <<users, userIds, projects, projectIds, member, tokenRow, tokenIndex,
                   pc, me, seen, wasAdmin, stray>>

-----------------------------------------------------------------------------
(***************************************************************************)
(* authenticationHandler: the session, or the token, and then the user.    *)
(* A session that is too old is marked and stays too old.                  *)
(***************************************************************************)
AuthSession(r, s) ==
    /\ pc[r] = "new"
    /\ sessions[s] # NoRow
    /\ IF sessions[s].age = "old" THEN Done(r)
       ELSE Goto(r, "getUser", sessions[s].user) /\ UNCHANGED me
    /\ UNCHANGED <<tables, wasAdmin, stray>>

\* The row of a token is looked for in the bucket of the user in the index.
GetAPIToken(t) ==
    {row \in {tokenRow[t]} \ {NoRow} : row.user = tokenIndex[t]}

AuthToken(r, t) ==
    /\ pc[r] = "new"
    /\ IF GetAPIToken(t) # {}
       THEN Goto(r, "getUser", tokenRow[t].user) /\ UNCHANGED me
       ELSE Done(r)
    /\ UNCHANGED <<tables, wasAdmin, stray>>

AuthUser(r) ==
    /\ pc[r] = "getUser"
    /\ IF users[seen[r]] = NoRow THEN Done(r)
       ELSE /\ me' = [me EXCEPT ![r] = [id |-> seen[r], admin |-> users[seen[r]].admin]]
            /\ Goto(r, "authed", NoRow)
    /\ UNCHANGED <<tables, wasAdmin, stray>>

-----------------------------------------------------------------------------
(***************************************************************************)
(* Users: addUser, and getUserMiddleware with the handlers behind it.      *)
(***************************************************************************)
AddUser(r, row) ==
    /\ pc[r] = "authed"
    /\ IF me[r].admin /\ Found(row.name) = {}
       THEN Goto(r, "insertUser", row) /\ UNCHANGED me
       ELSE Done(r)
    /\ UNCHANGED <<tables, wasAdmin, stray>>

\* The id may be one that the body names.
AddUserInsert(r) ==
    /\ pc[r] = "insertUser"
    /\ \E u \in User :
          /\ NextUserId(u) \/ UNCHANGED userIds
          /\ InsertUser(u, seen[r])
    /\ Done(r)
    /\ UNCHANGED <<projects, projectIds, member, tokenRow, tokenIndex, sessions, stray>>

GetUserMiddleware(r, u) ==
    /\ pc[r] = "authed"
    /\ IF users[u] # NoRow /\ (me[r].admin \/ me[r].id = u)
       THEN Goto(r, "user", [id |-> u, row |-> users[u]]) /\ UNCHANGED me
       ELSE Done(r)
    /\ UNCHANGED <<tables, wasAdmin, stray>>

\* Faulty variant: the rule on one's own role is missing.
MayUpdateUserOwn(r, row) == seen[r].row.external => row.name = seen[r].row.name

\* "User can't edit his own role", and external users keep their name.
MayUpdateUser(r, row) ==
    /\ me[r].id = seen[r].id => row.admin = seen[r].row.admin
    /\ seen[r].row.external => row.name = seen[r].row.name

\* UpdateUser without a password reads the stored one for the row it writes.
UpdateUser(r, row) ==
    /\ pc[r] = "user"
    /\ IF MayUpdateUser(r, row) /\ (row.pwd # "" \/ users[seen[r].id] # NoRow)
       THEN /\ Goto(r, "writeUser", [id |-> seen[r].id, row |->
                  IF row.pwd # "" THEN row ELSE [row EXCEPT !.pwd = users[seen[r].id].pwd]])
            /\ UNCHANGED me
       ELSE Done(r)
    /\ UNCHANGED <<tables, wasAdmin, stray>>

\* SetUserPassword reads the row and writes it back as it was.
UpdateUserPassword(r, pwd) ==
    /\ pc[r] = "user"
    /\ IF ~ seen[r].row.external /\ users[seen[r].id] # NoRow
       THEN /\ Goto(r, "writeUser", [id |-> seen[r].id,
                                     row |-> [users[seen[r].id] EXCEPT !.pwd = pwd]])
            /\ UNCHANGED me
       ELSE Done(r)
    /\ UNCHANGED <<tables, wasAdmin, stray>>

WriteUser(r) ==
    /\ pc[r] = "writeUser"
    /\ UpdateUserRow(seen[r].id, seen[r].row)
    /\ Done(r)
    /\ UNCHANGED <<userIds, projects, projectIds, member, tokenRow, tokenIndex, sessions, stray>>

\* The projects of a user.  The code asks project by project; a membership
\* made meanwhile is one made after the deletion has begun.
GetProjects(u) == {p \in projects : member[p][u] # "none"}

\* DeleteUser: the projects of the user are listed, the memberships deleted
\* one by one and the user last.
DeleteUser(r) ==
    /\ pc[r] = "user"
    /\ Goto(r, "deleteUser", [id |-> seen[r].id, todo |-> GetProjects(seen[r].id)])
    /\ UNCHANGED <<tables, me, wasAdmin, stray>>

\* An error of DeleteProjectUser is discarded, and the membership stays.
DeleteUserMember(r, p) ==
    /\ pc[r] = "deleteUser"
    /\ p \in seen[r].todo
    /\ \/ DeleteProjectUser(p, seen[r].id)
       \/ stray' = stray \cup {<<p, seen[r].id>>} /\ UNCHANGED member
    /\ Goto(r, "deleteUser", [seen[r] EXCEPT !.todo = @ \ {p}])
    /\ UNCHANGED <<users, userIds, projects, projectIds, tokenRow, tokenIndex, sessions, me, wasAdmin>>

\* Faulty variant: the user goes first.
DeleteUserRowFirst(r) ==
    /\ pc[r] = "deleteUser"
    /\ users' = [users EXCEPT ![seen[r].id] = NoRow]
    /\ IF seen[r].todo = {} THEN Done(r) ELSE UNCHANGED <<pc, me, seen>>
    /\ UNCHANGED <<userIds, projects, projectIds, member, tokenRow, tokenIndex, sessions, wasAdmin, stray>>

DeleteUserRow(r) ==
    /\ pc[r] = "deleteUser"
    /\ seen[r].todo = {}
    /\ users' = [users EXCEPT ![seen[r].id] = NoRow]
    /\ Done(r)
    /\ UNCHANGED <<userIds, projects, projectIds, member, tokenRow, tokenIndex, sessions, wasAdmin, stray>>

-----------------------------------------------------------------------------
(***************************************************************************)
(* API tokens are kept twice: with their user, and in the index that       *)
(* authentication starts from.                                             *)
(***************************************************************************)

\* Faulty variant: the index comes first.
CreateAPITokenIndexFirst(r, t) ==
    /\ pc[r] = "authed"
    /\ tokenIndex[t] = NoRow
    /\ tokenIndex' = [tokenIndex EXCEPT ![t] = me[r].id]
    /\ Goto(r, "index", t)
    /\ UNCHANGED <<users, userIds, projects, projectIds, member, tokenRow, sessions, me, wasAdmin, stray>>

CreateAPIToken(r, t) ==
    /\ pc[r] = "authed"
    /\ tokenRow[t] = NoRow
    /\ tokenRow' = [tokenRow EXCEPT ![t] = [user |-> me[r].id, expired |-> FALSE]]
    /\ Goto(r, "index", t)
    /\ UNCHANGED <<users, userIds, projects, projectIds, member, tokenIndex, sessions, me, wasAdmin, stray>>

IndexAPIToken(r) ==
    /\ pc[r] = "index"
    /\ tokenIndex' = [tokenIndex EXCEPT ![seen[r]] = me[r].id]
    /\ Done(r)
    /\ UNCHANGED <<users, userIds, projects, projectIds, member, tokenRow, sessions, wasAdmin, stray>>

ExpireAPIToken(r, t) ==
    /\ pc[r] = "authed"
    /\ tokenRow' = IF tokenRow[t] # NoRow /\ tokenRow[t].user = me[r].id
                   THEN [tokenRow EXCEPT ![t].expired = TRUE] ELSE tokenRow
    /\ Done(r)
    /\ UNCHANGED <<users, userIds, projects, projectIds, member, tokenIndex, sessions, wasAdmin, stray>>

-----------------------------------------------------------------------------
(***************************************************************************)
(* Projects and their teams.                                               *)
(***************************************************************************)

\* The permissions of the roles, as far as routes here ask for them.
Can(role, permission) ==
    permission \in CASE role = "owner" -> {"RunTasks", "ManageResources", "UpdateProject", "ManageUsers"}
                     [] role = "manager" -> {"RunTasks", "ManageResources"}
                     [] role = "task_runner" -> {"RunTasks"}
                     [] OTHER -> {}

\* AddProject: the project, then its owner in another transaction.  The id is
\* the next of the sequence or one that the body names; if a deleted project had
\* it, the team of that project is the team of this one.
AddProject(r, p) ==
    /\ pc[r] = "authed"
    /\ IF me[r].admin \/ NonAdminCanCreateProject
       THEN /\ projects' = projects \cup {p}
            /\ \/ p \notin projectIds /\ projectIds' = projectIds \cup {p}
               \/ UNCHANGED projectIds
            /\ stray' = stray \cup {<<p, u>> : u \in {u \in User : member[p][u] # "none" /\ Leaving(u)}}
            /\ Goto(r, "owner", p)
            /\ UNCHANGED me
       ELSE Done(r) /\ UNCHANGED <<projects, projectIds, stray>>
    /\ UNCHANGED <<users, userIds, member, tokenRow, tokenIndex, sessions, wasAdmin>>

AddProjectOwner(r) ==
    /\ pc[r] = "owner"
    /\ CreateProjectUser(seen[r], me[r].id, "owner")
    /\ Done(r)
    /\ UNCHANGED <<users, userIds, projects, projectIds, tokenRow, tokenIndex, sessions, wasAdmin>>

\* The role is read here and used later.
ProjectMiddleware(r, p) ==
    /\ pc[r] = "authed"
    /\ IF p \in projects /\ (me[r].admin \/ member[p][me[r].id] # "none")
       THEN Goto(r, "project", [p |-> p, role |-> member[p][me[r].id]]) /\ UNCHANGED me
       ELSE Done(r)
    /\ UNCHANGED <<tables, wasAdmin, stray>>

\* GetMustCanMiddleware.
MustCan(r, permission) == me[r].admin \/ Can(seen[r].role, permission)

\* Faulty variant: the role is not looked at (Role.IsValid).
AddMemberAnyRole(r, u, role) ==
    /\ pc[r] = "project"
    /\ IF MustCan(r, "ManageUsers") THEN CreateProjectUser(seen[r].p, u, "")
                                    ELSE UNCHANGED <<member, stray>>
    /\ Done(r)
    /\ UNCHANGED <<users, userIds, projects, projectIds, tokenRow, tokenIndex, sessions, wasAdmin>>

\* Nothing checks that the user is there.
AddMember(r, u, role) ==
    /\ pc[r] = "project"
    /\ IF MustCan(r, "ManageUsers") THEN CreateProjectUser(seen[r].p, u, role)
                                    ELSE UNCHANGED <<member, stray>>
    /\ Done(r)
    /\ UNCHANGED <<users, userIds, projects, projectIds, tokenRow, tokenIndex, sessions, wasAdmin>>

UserMiddleware(r, u) ==
    /\ pc[r] = "project"
    /\ IF MustCan(r, "ManageUsers") /\ member[seen[r].p][u] # "none" /\ users[u] # NoRow
       THEN Goto(r, "member", [p |-> seen[r].p, role |-> seen[r].role, id |-> u]) /\ UNCHANGED me
       ELSE Done(r)
    /\ UNCHANGED <<tables, wasAdmin, stray>>

\* "owner can not left the project", "owner can not change his role".
OwnOwner(r, u) == ~ me[r].admin /\ u = me[r].id /\ seen[r].role = "owner"

RemoveMember(r, u) ==
    /\ IF OwnOwner(r, u) THEN UNCHANGED <<member, stray>> ELSE DeleteProjectUser(seen[r].p, u)
    /\ Done(r)
    /\ UNCHANGED <<users, userIds, projects, projectIds, tokenRow, tokenIndex, sessions, wasAdmin>>

LeftProject(r) == pc[r] = "project" /\ RemoveMember(r, me[r].id)
RemoveUser(r) == pc[r] = "member" /\ RemoveMember(r, seen[r].id)

UpdateMember(r, role) ==
    /\ pc[r] = "member"
    /\ member' = IF OwnOwner(r, seen[r].id) \/ member[seen[r].p][seen[r].id] = "none" THEN member
                 ELSE [member EXCEPT ![seen[r].p][seen[r].id] = role]
    /\ Done(r)
    /\ UNCHANGED <<users, userIds, projects, projectIds, tokenRow, tokenIndex, sessions, wasAdmin, stray>>

\* The team and everything else of the project stays in its buckets.
DeleteProject(r) ==
    /\ pc[r] = "project"
    /\ projects' = IF MustCan(r, "UpdateProject") THEN projects \ {seen[r].p} ELSE projects
    /\ Done(r)
    /\ UNCHANGED <<users, userIds, projectIds, member, tokenRow, tokenIndex, sessions, wasAdmin, stray>>

-----------------------------------------------------------------------------
\* The process dies: the requests are gone, the tables stay.
Crash ==
    /\ pc' = [r \in Req |-> IF pc[r] = "new" THEN "new" ELSE "done"]
    /\ me' = [r \in Req |-> NoRow]
    /\ seen' = [r \in Req |-> NoRow]
    /\ UNCHANGED <<tables, wasAdmin, stray>>

Login(r) ==
    \/ \E n \in Name :
          \/ LoginByLDAP(r, n) \/ OidcRedirect(r, n)
          \/ \E pwd \in Password : LoginByPassword(r, n, pwd)
    \/ LoginError(r) \/ CreateUserWithoutPassword(r) \/ InsertExternal(r)
    \/ \E s \in Session : CreateSession(r, s)

Authentication(r) ==
    \/ \E s \in Session : AuthSession(r, s)
    \/ \E t \in Token : AuthToken(r, t)
    \/ AuthUser(r)

UserAPI(r) ==
    \/ \E row \in UserRow : (AddUser(r, row) /\ row.pwd # "") \/ UpdateUser(r, row)
    \/ AddUserInsert(r) \/ WriteUser(r) \/ DeleteUser(r) \/ DeleteUserRow(r)
    \/ \E u \in User : GetUserMiddleware(r, u)
    \/ \E pwd \in Password : UpdateUserPassword(r, pwd)
    \/ \E p \in Project : DeleteUserMember(r, p)

TokenAPI(r) ==
    IndexAPIToken(r) \/ \E t \in Token : CreateAPIToken(r, t) \/ ExpireAPIToken(r, t)

ProjectAPI(r) ==
    \/ \E p \in Project : AddProject(r, p) \/ ProjectMiddleware(r, p)
    \/ AddProjectOwner(r) \/ LeftProject(r) \/ RemoveUser(r) \/ DeleteProject(r)
    \/ \E role \in Roles : UpdateMember(r, role)
    \/ \E u \in User : UserMiddleware(r, u) \/ \E role \in Roles : AddMember(r, u, role)

Next ==
    \/ \E r \in Req : Login(r) \/ Authentication(r) \/ UserAPI(r) \/ TokenAPI(r) \/ ProjectAPI(r)
    \/ \E s \in Session : Age(s)
    \/ Crash

Spec == Init /\ [][Next]_vars

-----------------------------------------------------------------------------
(***************************************************************************)
(* Properties.                                                             *)
(***************************************************************************)

\* The index that authentication starts from never leads to a token that is not
\* there, or to another user, although a token is stored in two transactions
\* and the process may die between them (BoltDb.CreateAPIToken, GetAPIToken).
TokenIndexed ==
    \A t \in Token : tokenIndex[t] # NoRow =>
        tokenRow[t] # NoRow /\ tokenRow[t].user = tokenIndex[t]

\* A user who is not there is in no team, however far DeleteUser gets and
\* whatever is done to teams meanwhile (BoltDb.DeleteUser, "TODO: add
\* transaction"), but for the memberships that are stray: they were made, or came
\* back with the id of a deleted project, when the user was gone or his deletion
\* had begun, or DeleteProjectUser failed on them.
MembersGone ==
    \A u \in User : users[u] = NoRow =>
        \A p \in projects : member[p][u] # "none" => <<p, u>> \in stray

\* Nobody gets the admin flag for the first time but by a request of somebody
\* who had it when the request was authenticated, whatever rows are written
\* back meanwhile (addUser, updateUser, SetUserPassword).
AdminGranted ==
    [][\A u \in User \ wasAdmin : u \in wasAdmin' =>
        \E r \in Req : pc[r] \in {"insertUser", "writeUser"} /\ me[r].admin /\ pc'[r] = "done"]_vars

=============================================================================

--------------------------- MODULE AccountsProofs ---------------------------
(***************************************************************************)
(* Proofs about Accounts for any number of users, projects, tokens and     *)
(* concurrent requests, and any accounts at the start.                     *)
(***************************************************************************)
EXTENDS Accounts, TLAPS, WellFoundedInduction

\* Where a request has been authenticated, and its context holds the user.
SignedIn == {"authed", "insertUser", "user", "writeUser", "deleteUser", "index", "owner",
             "project", "member"}

(***************************************************************************)
(* The inductive invariant.                                                *)
(***************************************************************************)

\* What a request has read, or is about to write, at each point of its work.
ReadSoFar(r) ==
    /\ pc[r] \in SignedIn => me[r] \in [id : User, admin : BOOLEAN]
    /\ pc[r] \in {"createExternal", "insertExternal"} => seen[r] \in Name
    /\ pc[r] \in {"createSession", "getUser"} => seen[r] \in User
    /\ pc[r] = "insertUser" => seen[r] \in UserRow
    /\ pc[r] \in {"user", "writeUser"} => seen[r] \in [id : User, row : UserRow]
    /\ pc[r] = "deleteUser" => seen[r] \in [id : User, todo : SUBSET Project]
    /\ pc[r] = "index" => seen[r] \in Token
    /\ pc[r] = "owner" => seen[r] \in Project
    /\ pc[r] = "project" => seen[r] \in [p : Project, role : Roles \cup {"none"}]
    /\ pc[r] = "member" => seen[r] \in [p : Project, role : Roles \cup {"none"}, id : User]

\* A token that is about to be indexed is there, with its user.
TokenStored(r) ==
    pc[r] = "index" => tokenRow[seen[r]] # NoRow /\ tokenRow[seen[r]].user = me[r].id

\* DeleteUser leaves no membership but those it has still to delete and the
\* stray ones.
TeamsLeft(r) ==
    pc[r] = "deleteUser" =>
        \A p \in projects : member[p][seen[r].id] # "none" =>
            p \in seen[r].todo \/ <<p, seen[r].id>> \in stray

\* A request that writes the admin flag is an administrator's, or writes it
\* for somebody who has had it.
MayGrant(r) ==
    /\ pc[r] = "insertUser" => me[r].admin
    /\ pc[r] = "user" => /\ me[r].admin \/ me[r].id = seen[r].id
                         /\ seen[r].row.admin => seen[r].id \in wasAdmin
    /\ pc[r] = "writeUser" => (seen[r].row.admin => me[r].admin \/ seen[r].id \in wasAdmin)

RequestOK(r) == ReadSoFar(r) /\ TokenStored(r) /\ TeamsLeft(r) /\ MayGrant(r)

AdminRecorded == \A u \in User : users[u] # NoRow /\ users[u].admin => u \in wasAdmin

AccountsInv ==
    /\ TypeOK
    /\ DOMAIN seen = Req
    /\ \A r \in Req : RequestOK(r)
    /\ TokenIndexed
    /\ MembersGone
    /\ AdminRecorded

-----------------------------------------------------------------------------
\* The user found for a name is one of that name.
LEMMA FoundUser ==
    ASSUME TypeOK, NEW n, Found(n) # {}
    PROVE  GetUserByLoginOrEmail(n) \in Found(n)
<1> DEFINE F == Found(n)
<1>1. F \subseteq Nat
  BY AccountsAssumption DEF Found
<1>2. PICK u \in F : \A v \in F : <<v, u>> \notin {ss \in Nat \X Nat : ss[1] < ss[2]}
  <2> DEFINE R == {ss \in Nat \X Nat : ss[1] < ss[2]}
  <2>1. IsWellFoundedOn(R, Nat)
    BY NatLessThanWellFounded DEF OpToRel
  <2> HIDE DEF F, R
  <2>2. F # {}
    BY DEF F
  <2> QED
    BY <1>1, <2>1, <2>2, WFMin DEF R
<1>3. ASSUME NEW v \in F PROVE u <= v
  <2>1. u \in Nat /\ v \in Nat
    BY <1>1
  <2>2. v < u => <<v, u>> \in {ss \in Nat \X Nat : ss[1] < ss[2]}
    BY <2>1
  <2>3. ~ (v < u)
    BY <1>2, <2>2
  <2> QED
    BY <2>1, <2>3
<1>4. GetUserByLoginOrEmail(n) = CHOOSE x \in F : \A y \in F : x <= y
  BY DEF GetUserByLoginOrEmail, Min
<1> HIDE DEF F
<1>5. (CHOOSE x \in F : \A y \in F : x <= y) \in F
  BY <1>3
<1> QED
  BY <1>4, <1>5 DEF F

-----------------------------------------------------------------------------
(***************************************************************************)
(* A step of one request.                                                  *)
(***************************************************************************)
OnlyMoves(r) ==
    /\ pc' \in [Req -> Pcs]
    /\ DOMAIN seen' = Req
    /\ me' \in [Req -> [id : User, admin : BOOLEAN] \cup {NoRow}]
    /\ \A q \in Req \ {r} : pc'[q] = pc[q] /\ seen'[q] = seen[q] /\ me'[q] = me[q]

\* The end of a request leaves the others where they are.
LEMMA DoneMoves ==
    ASSUME AccountsInv, NEW r \in Req, Done(r)
    PROVE  OnlyMoves(r) /\ RequestOK(r)' /\ pc'[r] = "done"
<1>1. OnlyMoves(r) /\ pc'[r] = "done"
  BY DEF AccountsInv, TypeOK, Done, OnlyMoves, Pcs
<1> QED
  BY <1>1 DEF RequestOK, ReadSoFar, TokenStored, TeamsLeft, MayGrant, SignedIn

\* So does a step of a request to its next point.
LEMMA GotoMoves ==
    ASSUME AccountsInv, NEW r \in Req, NEW where \in Pcs, NEW x, Goto(r, where, x), me' = me
    PROVE  OnlyMoves(r) /\ pc'[r] = where /\ seen'[r] = x /\ me'[r] = me[r]
  BY DEF AccountsInv, TypeOK, Goto, OnlyMoves

\* What a request relies on in the tables, others may only add to.
LEMMA OthersRely ==
    ASSUME AccountsInv, NEW r, OnlyMoves(r), NEW q \in Req \ {r},
           wasAdmin \subseteq wasAdmin',
           \A t \in Token : tokenRow[t] # NoRow =>
               tokenRow'[t] # NoRow /\ tokenRow'[t].user = tokenRow[t].user,
           TeamsLeft(q)'
    PROVE  RequestOK(q)'
<1>1. pc'[q] = pc[q] /\ seen'[q] = seen[q] /\ me'[q] = me[q] /\ RequestOK(q)
  BY DEF OnlyMoves, AccountsInv
<1>2. ReadSoFar(q)'
  BY <1>1 DEF RequestOK, ReadSoFar
<1>3. TokenStored(q)'
  BY <1>1 DEF RequestOK, ReadSoFar, TokenStored
<1>4. MayGrant(q)'
  BY <1>1 DEF RequestOK, MayGrant
<1> QED
  BY <1>2, <1>3, <1>4 DEF RequestOK

\* A step that writes no table keeps the invariant if its own request is well.
LEMMA QuietInv ==
    ASSUME AccountsInv, NEW r \in Req, OnlyMoves(r), RequestOK(r)',
           UNCHANGED <<tables, wasAdmin, stray>>
    PROVE  AccountsInv'
<1>1. /\ users' = users /\ userIds' = userIds /\ projects' = projects
      /\ projectIds' = projectIds /\ member' = member /\ tokenRow' = tokenRow
      /\ tokenIndex' = tokenIndex /\ sessions' = sessions /\ wasAdmin' = wasAdmin
      /\ stray' = stray
  BY DEF tables
<1>2. ASSUME NEW q \in Req PROVE RequestOK(q)'
  <2>1. CASE q # r
    <3>1. TeamsLeft(q)'
      BY <1>1, <2>1 DEF AccountsInv, RequestOK, TeamsLeft, OnlyMoves
    <3> QED
      BY <1>1, <2>1, <3>1, OthersRely
  <2> QED
    BY <2>1
<1>3. TypeOK' /\ DOMAIN seen' = Req
  BY <1>1 DEF AccountsInv, TypeOK, OnlyMoves
<1>4. TokenIndexed' /\ MembersGone' /\ AdminRecorded'
  BY <1>1 DEF AccountsInv, TokenIndexed, MembersGone, AdminRecorded
<1> QED
  BY <1>2, <1>3, <1>4 DEF AccountsInv

\* A request that only reads goes to a point where what it has read, x, is
\* what that point expects.
LEMMA GotoInv ==
    ASSUME AccountsInv, NEW r \in Req, NEW where \in Pcs, NEW x, Goto(r, where, x), me' = me,
           UNCHANGED <<tables, wasAdmin, stray>>,
           \/ where \in {"createExternal", "insertExternal"} /\ x \in Name
           \/ where \in {"createSession", "getUser"} /\ x \in User
           \/ /\ where = "insertUser" /\ x \in UserRow /\ pc[r] \in SignedIn /\ me[r].admin
           \/ /\ where = "user" /\ x \in [id : User, row : UserRow] /\ pc[r] \in SignedIn
              /\ me[r].admin \/ me[r].id = x.id
              /\ x.row.admin => x.id \in wasAdmin
           \/ /\ where = "writeUser" /\ x \in [id : User, row : UserRow] /\ pc[r] \in SignedIn
              /\ x.row.admin => me[r].admin \/ x.id \in wasAdmin
           \/ /\ where = "project" /\ x \in [p : Project, role : Roles \cup {"none"}]
              /\ pc[r] \in SignedIn
           \/ /\ where = "member" /\ pc[r] \in SignedIn
              /\ x \in [p : Project, role : Roles \cup {"none"}, id : User]
    PROVE  AccountsInv'
<1>1. OnlyMoves(r) /\ pc'[r] = where /\ seen'[r] = x /\ me'[r] = me[r]
  BY GotoMoves
<1>2. wasAdmin' = wasAdmin
  BY DEF tables
<1>3. pc[r] \in SignedIn => me[r] \in [id : User, admin : BOOLEAN]
  BY DEF AccountsInv, RequestOK, ReadSoFar
<1>4. ReadSoFar(r)'
  BY <1>1, <1>2, <1>3 DEF ReadSoFar, SignedIn
<1>5. TokenStored(r)' /\ TeamsLeft(r)' /\ MayGrant(r)'
  BY <1>1, <1>2 DEF TokenStored, TeamsLeft, MayGrant
<1> QED
  BY <1>1, <1>4, <1>5, QuietInv DEF RequestOK

-----------------------------------------------------------------------------
(***************************************************************************)
(* The requests that only read, step by step.                              *)
(***************************************************************************)
LEMMA QuietDone ==
    ASSUME AccountsInv, NEW r \in Req, Done(r), UNCHANGED <<tables, wasAdmin, stray>>
    PROVE  AccountsInv'
  BY DoneMoves, QuietInv

\* The steps of login up to the insertion of an external user.
LEMMA LoginInv ==
    ASSUME AccountsInv, NEW r \in Req,
           \/ \E n \in Name : \E pwd \in Password : LoginByPassword(r, n, pwd)
           \/ \E n \in Name : ExternalLookup(r, n)
           \/ LoginError(r) \/ CreateUserWithoutPassword(r)
    PROVE  AccountsInv'
<1>1. CASE Done(r) /\ UNCHANGED <<tables, wasAdmin, stray>>
  BY <1>1, QuietDone
<1>2. ASSUME NEW n \in Name, Found(n) # {}, Goto(r, "createSession", GetUserByLoginOrEmail(n)),
             me' = me, UNCHANGED <<tables, wasAdmin, stray>>
      PROVE  AccountsInv'
  <2>1. GetUserByLoginOrEmail(n) \in User
    BY <1>2, FoundUser DEF AccountsInv, Found
  <2>2. "createSession" \in Pcs
    BY DEF Pcs
  <2> QED
    BY <1>2, <2>1, <2>2, GotoInv
<1>3. ASSUME NEW n \in Name, NEW where \in {"createExternal", "insertExternal"},
             Goto(r, where, n), me' = me, UNCHANGED <<tables, wasAdmin, stray>>
      PROVE  AccountsInv'
  <2>1. where \in Pcs
    BY DEF Pcs
  <2> QED
    BY <1>3, <2>1, GotoInv
<1>4. CASE \E n \in Name : \E pwd \in Password : LoginByPassword(r, n, pwd)
  BY <1>1, <1>2, <1>4 DEF LoginByPassword
<1>5. CASE \E n \in Name : ExternalLookup(r, n)
  BY <1>1, <1>2, <1>3, <1>5 DEF ExternalLookup
<1>6. CASE LoginError(r)
  BY <1>1, <1>6 DEF LoginError
<1>7. CASE CreateUserWithoutPassword(r)
  <2>1. seen[r] \in Name
    BY <1>7 DEF CreateUserWithoutPassword, AccountsInv, RequestOK, ReadSoFar
  <2> QED
    BY <1>1, <1>3, <1>7, <2>1 DEF CreateUserWithoutPassword
<1> QED
  BY <1>4, <1>5, <1>6, <1>7

\* Authentication by session or token.
LEMMA AuthenticationInv ==
    ASSUME AccountsInv, NEW r \in Req, Authentication(r)
    PROVE  AccountsInv'
<1>1. CASE Done(r) /\ UNCHANGED <<tables, wasAdmin, stray>>
  BY <1>1, QuietDone
<1>2. ASSUME NEW u \in User, Goto(r, "getUser", u), me' = me,
             UNCHANGED <<tables, wasAdmin, stray>>
      PROVE  AccountsInv'
  <2>1. "getUser" \in Pcs
    BY DEF Pcs
  <2> QED
    BY <1>2, <2>1, GotoInv
<1>3. ASSUME NEW s \in Session, AuthSession(r, s) PROVE AccountsInv'
  <2>1. sessions[s].user \in User
    BY <1>3 DEF AuthSession, AccountsInv, TypeOK
  <2> QED
    BY <1>1, <1>2, <1>3, <2>1 DEF AuthSession
<1>4. ASSUME NEW t \in Token, AuthToken(r, t) PROVE AccountsInv'
  <2>1. GetAPIToken(t) # {} => tokenRow[t].user \in User
    BY DEF GetAPIToken, AccountsInv, TypeOK
  <2> QED
    BY <1>1, <1>2, <1>4, <2>1 DEF AuthToken
<1>5. CASE AuthUser(r)
  <2>1. pc[r] = "getUser" /\ seen[r] \in User /\ UNCHANGED <<tables, wasAdmin, stray>>
    BY <1>5 DEF AuthUser, AccountsInv, RequestOK, ReadSoFar
  <2>2. CASE users[seen[r]] # NoRow
    <3> DEFINE m == [id |-> seen[r], admin |-> users[seen[r]].admin]
    <3>1. m \in [id : User, admin : BOOLEAN]
      BY <2>1, <2>2 DEF AccountsInv, TypeOK, UserRow
    <3>2. me' = [me EXCEPT ![r] = m] /\ Goto(r, "authed", NoRow)
      BY <1>5, <2>2 DEF AuthUser
    <3> HIDE DEF m
    <3>3. OnlyMoves(r) /\ pc'[r] = "authed" /\ me'[r] = m
      BY <3>1, <3>2 DEF OnlyMoves, Goto, AccountsInv, TypeOK, Pcs
    <3>4. RequestOK(r)'
      BY <3>1, <3>3 DEF RequestOK, ReadSoFar, TokenStored, TeamsLeft, MayGrant
    <3> QED
      BY <2>1, <3>3, <3>4, QuietInv
  <2> QED
    BY <1>1, <1>5, <2>1, <2>2 DEF AuthUser
<1> QED
  BY <1>3, <1>4, <1>5 DEF Authentication

\* What UpdateUser and SetUserPassword will write, and what they have read.
LEMMA UserReadInv ==
    ASSUME AccountsInv, NEW r \in Req,
           \/ \E row \in UserRow : AddUser(r, row) \/ UpdateUser(r, row)
           \/ \E u \in User : GetUserMiddleware(r, u)
           \/ \E pwd \in Password : UpdateUserPassword(r, pwd)
    PROVE  AccountsInv'
<1>1. CASE Done(r) /\ UNCHANGED <<tables, wasAdmin, stray>>
  BY <1>1, QuietDone
<1>2. {"insertUser", "user", "writeUser"} \subseteq Pcs
  BY DEF Pcs
<1>3. ASSUME NEW row \in UserRow, AddUser(r, row) PROVE AccountsInv'
  <2>1. CASE me[r].admin /\ Found(row.name) = {}
    <3>1. Goto(r, "insertUser", row) /\ me' = me /\ UNCHANGED <<tables, wasAdmin, stray>>
      BY <1>3, <2>1 DEF AddUser
    <3>2. pc[r] \in SignedIn
      BY <1>3 DEF AddUser, SignedIn
    <3> QED
      BY <1>2, <2>1, <3>1, <3>2, GotoInv
  <2> QED
    BY <1>1, <1>3, <2>1 DEF AddUser
<1>4. ASSUME NEW u \in User, GetUserMiddleware(r, u) PROVE AccountsInv'
  <2>1. CASE users[u] # NoRow /\ (me[r].admin \/ me[r].id = u)
    <3> DEFINE x == [id |-> u, row |-> users[u]]
    <3>1. Goto(r, "user", x) /\ me' = me /\ UNCHANGED <<tables, wasAdmin, stray>>
      BY <1>4, <2>1 DEF GetUserMiddleware
    <3>2. x \in [id : User, row : UserRow] /\ (x.row.admin => x.id \in wasAdmin) /\ x.id = u
      BY <2>1 DEF AccountsInv, TypeOK, AdminRecorded
    <3>3. pc[r] \in SignedIn
      BY <1>4 DEF GetUserMiddleware, SignedIn
    <3> HIDE DEF x
    <3> QED
      BY <1>2, <2>1, <3>1, <3>2, <3>3, GotoInv
  <2> QED
    BY <1>1, <1>4, <2>1 DEF GetUserMiddleware
<1>5. ASSUME pc[r] = "user", NEW row \in UserRow,
             row.admin => me[r].admin \/ seen[r].id \in wasAdmin,
             Goto(r, "writeUser", [id |-> seen[r].id, row |-> row]), me' = me,
             UNCHANGED <<tables, wasAdmin, stray>>
      PROVE  AccountsInv'
  <2> DEFINE x == [id |-> seen[r].id, row |-> row]
  <2>1. x \in [id : User, row : UserRow] /\ x.row = row /\ x.id = seen[r].id
    BY <1>5 DEF AccountsInv, RequestOK, ReadSoFar
  <2>2. pc[r] \in SignedIn
    BY <1>5 DEF SignedIn
  <2>3. Goto(r, "writeUser", x)
    BY <1>5
  <2> HIDE DEF x
  <2> QED
    BY <1>2, <1>5, <2>1, <2>2, <2>3, GotoInv
<1>6. pc[r] = "user" =>
         /\ seen[r] \in [id : User, row : UserRow]
         /\ me[r].admin \/ me[r].id = seen[r].id
         /\ seen[r].row.admin => seen[r].id \in wasAdmin
  BY DEF AccountsInv, RequestOK, ReadSoFar, MayGrant
<1>7. ASSUME NEW row \in UserRow, UpdateUser(r, row) PROVE AccountsInv'
  <2>1. CASE MayUpdateUser(r, row) /\ (row.pwd # "" \/ users[seen[r].id] # NoRow)
    <3> DEFINE new == IF row.pwd # "" THEN row
                      ELSE [row EXCEPT !.pwd = users[seen[r].id].pwd]
    <3>1. /\ pc[r] = "user" /\ Goto(r, "writeUser", [id |-> seen[r].id, row |-> new])
          /\ me' = me /\ UNCHANGED <<tables, wasAdmin, stray>>
      BY <1>7, <2>1 DEF UpdateUser
    <3>2. row.pwd = "" => users[seen[r].id] \in UserRow
      BY <1>6, <2>1, <3>1 DEF AccountsInv, TypeOK
    <3>3. new \in UserRow /\ new.admin = row.admin
      BY <3>2 DEF UserRow
    <3>4. row.admin => me[r].admin \/ seen[r].id \in wasAdmin
      BY <1>6, <2>1, <3>1 DEF MayUpdateUser
    <3> HIDE DEF new
    <3> QED
      BY <1>5, <3>1, <3>3, <3>4
  <2> QED
    BY <1>1, <1>7, <2>1 DEF UpdateUser
<1>8. ASSUME NEW pwd \in Password, UpdateUserPassword(r, pwd) PROVE AccountsInv'
  <2>1. CASE ~ seen[r].row.external /\ users[seen[r].id] # NoRow
    <3> DEFINE new == [users[seen[r].id] EXCEPT !.pwd = pwd]
    <3>1. /\ pc[r] = "user" /\ Goto(r, "writeUser", [id |-> seen[r].id, row |-> new])
          /\ me' = me /\ UNCHANGED <<tables, wasAdmin, stray>>
      BY <1>8, <2>1 DEF UpdateUserPassword
    <3>2. users[seen[r].id] \in UserRow /\ seen[r].id \in User
      BY <1>6, <2>1, <3>1 DEF AccountsInv, TypeOK
    <3>3. new \in UserRow /\ new.admin = users[seen[r].id].admin
      BY <3>2 DEF UserRow
    <3>4. users[seen[r].id].admin => seen[r].id \in wasAdmin
      BY <2>1, <3>2 DEF AccountsInv, AdminRecorded
    <3> HIDE DEF new
    <3> QED
      BY <1>5, <3>1, <3>3, <3>4
  <2> QED
    BY <1>1, <1>8, <2>1 DEF UpdateUserPassword
<1> QED
  BY <1>3, <1>4, <1>7, <1>8

\* The middlewares that read the project, the role and the member.
LEMMA ProjectReadInv ==
    ASSUME AccountsInv, NEW r \in Req,
           \/ \E p \in Project : ProjectMiddleware(r, p)
           \/ \E u \in User : UserMiddleware(r, u)
    PROVE  AccountsInv'
<1>1. CASE Done(r) /\ UNCHANGED <<tables, wasAdmin, stray>>
  BY <1>1, QuietDone
<1>2. {"project", "member"} \subseteq Pcs
  BY DEF Pcs
<1>3. ASSUME NEW p \in Project, ProjectMiddleware(r, p) PROVE AccountsInv'
  <2>1. CASE p \in projects /\ (me[r].admin \/ member[p][me[r].id] # "none")
    <3> DEFINE x == [p |-> p, role |-> member[p][me[r].id]]
    <3>1. Goto(r, "project", x) /\ me' = me /\ UNCHANGED <<tables, wasAdmin, stray>>
      BY <1>3, <2>1 DEF ProjectMiddleware
    <3>2. pc[r] \in SignedIn
      BY <1>3 DEF ProjectMiddleware, SignedIn
    <3>3. me[r].id \in User
      BY <3>2 DEF AccountsInv, RequestOK, ReadSoFar
    <3>4. x \in [p : Project, role : Roles \cup {"none"}]
      BY <2>1, <3>3 DEF AccountsInv, TypeOK
    <3> HIDE DEF x
    <3> QED
      BY <1>2, <3>1, <3>2, <3>4, GotoInv
  <2> QED
    BY <1>1, <1>3, <2>1 DEF ProjectMiddleware
<1>4. ASSUME NEW u \in User, UserMiddleware(r, u) PROVE AccountsInv'
  <2>1. CASE MustCan(r, "ManageUsers") /\ member[seen[r].p][u] # "none" /\ users[u] # NoRow
    <3> DEFINE x == [p |-> seen[r].p, role |-> seen[r].role, id |-> u]
    <3>1. Goto(r, "member", x) /\ me' = me /\ UNCHANGED <<tables, wasAdmin, stray>>
      BY <1>4, <2>1 DEF UserMiddleware
    <3>2. pc[r] = "project" /\ pc[r] \in SignedIn
      BY <1>4 DEF UserMiddleware, SignedIn
    <3>3. x \in [p : Project, role : Roles \cup {"none"}, id : User]
      BY <3>2 DEF AccountsInv, TypeOK, RequestOK, ReadSoFar
    <3> HIDE DEF x
    <3> QED
      BY <1>2, <3>1, <3>2, <3>3, GotoInv
  <2> QED
    BY <1>1, <1>4, <2>1 DEF UserMiddleware
<1> QED
  BY <1>3, <1>4

-----------------------------------------------------------------------------
(***************************************************************************)
(* The steps that write.                                                   *)
(***************************************************************************)
TablesTyped ==
    /\ users \in [User -> UserRow \cup {NoRow}]
    /\ userIds \subseteq User
    /\ projects \subseteq Project /\ projectIds \subseteq Project
    /\ member \in [Project -> [User -> Roles \cup {"none"}]]
    /\ tokenRow \in [Token -> [user : User, expired : BOOLEAN] \cup {NoRow}]
    /\ tokenIndex \in [Token -> User \cup {NoRow}]
    /\ sessions \in [Session -> [user : User, age : {"fresh", "old"}] \cup {NoRow}]
    /\ wasAdmin \subseteq User
    /\ stray \subseteq Project \X User

\* A step that writes tables keeps the invariant if it leaves others what they rely
\* on and keeps the parts about tables.
LEMMA WriteInv ==
    ASSUME AccountsInv, NEW r \in Req, OnlyMoves(r), RequestOK(r)', TablesTyped',
           wasAdmin \subseteq wasAdmin',
           \A t \in Token : tokenRow[t] # NoRow =>
               tokenRow'[t] # NoRow /\ tokenRow'[t].user = tokenRow[t].user,
           \A q \in Req \ {r} : TeamsLeft(q)',
           TokenIndexed', MembersGone', AdminRecorded'
    PROVE  AccountsInv'
<1>1. \A q \in Req : RequestOK(q)'
  BY OthersRely
<1>2. TypeOK' /\ DOMAIN seen' = Req
  BY DEF TypeOK, TablesTyped, OnlyMoves
<1> QED
  BY <1>1, <1>2 DEF AccountsInv

\* A row of a user is written, or deleted when all that is left of the teams
\* of the user is stray.
LEMMA UserWriteInv ==
    ASSUME AccountsInv, NEW r \in Req, OnlyMoves(r), RequestOK(r)', NEW u \in User,
           users' \in [User -> UserRow \cup {NoRow}],
           \A v \in User \ {u} : users'[v] = users[v],
           users'[u] = NoRow => \A p \in projects : member[p][u] # "none" => <<p, u>> \in stray,
           users'[u] # NoRow /\ users'[u].admin => u \in wasAdmin',
           userIds' = userIds \/ userIds' = userIds \cup {u},
           wasAdmin' = wasAdmin \/ wasAdmin' = wasAdmin \cup {u},
           UNCHANGED <<projects, projectIds, member, tokenRow, tokenIndex, sessions, stray>>
    PROVE  AccountsInv'
<1>1. TablesTyped'
  BY DEF TablesTyped, AccountsInv, TypeOK
<1>2. \A q \in Req \ {r} : TeamsLeft(q)'
  BY DEF TeamsLeft, AccountsInv, RequestOK, OnlyMoves
<1>3. TokenIndexed'
  BY DEF TokenIndexed, AccountsInv
<1>4. MembersGone'
  BY DEF MembersGone, AccountsInv, TypeOK
<1>5. AdminRecorded'
  BY DEF AdminRecorded, AccountsInv
<1> QED
  BY <1>1, <1>2, <1>3, <1>4, <1>5, WriteInv

\* The row of a new user, or one that replaces the row of another.
LEMMA InsertUserInv ==
    ASSUME AccountsInv, NEW r \in Req, OnlyMoves(r), RequestOK(r)', NEW row \in UserRow,
           NEW u \in User, InsertUser(u, row), NextUserId(u) \/ userIds' = userIds,
           UNCHANGED <<projects, projectIds, member, tokenRow, tokenIndex, sessions, stray>>
    PROVE  AccountsInv'
<1>1. /\ userIds' = userIds \/ userIds' = userIds \cup {u}
      /\ users' = [users EXCEPT ![u] = row]
      /\ wasAdmin' = IF row.admin THEN wasAdmin \cup {u} ELSE wasAdmin
  BY DEF InsertUser, NextUserId
<1>2. /\ users' \in [User -> UserRow \cup {NoRow}]
      /\ \A v \in User \ {u} : users'[v] = users[v]
      /\ users'[u] = row /\ row # NoRow
  BY <1>1, AccountsAssumption DEF AccountsInv, TypeOK
<1> QED
  BY <1>1, <1>2, UserWriteInv

\* The steps that insert, replace or delete the row of a user.
LEMMA UserStepInv ==
    ASSUME AccountsInv, NEW r \in Req,
           InsertExternal(r) \/ AddUserInsert(r) \/ WriteUser(r) \/ DeleteUserRow(r)
    PROVE  AccountsInv'
<1>1. CASE InsertExternal(r)
  <2> DEFINE row == [name |-> seen[r], admin |-> FALSE, external |-> TRUE, pwd |-> ""]
  <2>1. row \in UserRow
    BY <1>1 DEF InsertExternal, AccountsInv, RequestOK, ReadSoFar, UserRow
  <2>2. /\ me' = me
        /\ UNCHANGED <<projects, projectIds, member, tokenRow, tokenIndex, sessions, stray>>
    BY <1>1 DEF InsertExternal
  <2>3. PICK u \in User : NextUserId(u) /\ InsertUser(u, row) /\ Goto(r, "createSession", u)
    BY <1>1 DEF InsertExternal
  <2>5. OnlyMoves(r) /\ pc'[r] = "createSession" /\ seen'[r] = u
    <3>1. "createSession" \in Pcs
      BY DEF Pcs
    <3> QED
      BY <2>2, <2>3, <3>1, GotoMoves
  <2>6. RequestOK(r)'
    BY <2>5 DEF RequestOK, ReadSoFar, TokenStored, TeamsLeft, MayGrant, SignedIn
  <2> HIDE DEF row
  <2> QED
    BY <2>1, <2>2, <2>3, <2>5, <2>6, InsertUserInv
<1>2. CASE AddUserInsert(r)
  <2>1. seen[r] \in UserRow
    BY <1>2 DEF AddUserInsert, AccountsInv, RequestOK, ReadSoFar
  <2>2. OnlyMoves(r) /\ RequestOK(r)'
    BY <1>2, DoneMoves DEF AddUserInsert
  <2>3. PICK u \in User : InsertUser(u, seen[r]) /\ (NextUserId(u) \/ userIds' = userIds)
    BY <1>2 DEF AddUserInsert
  <2>4. UNCHANGED <<projects, projectIds, member, tokenRow, tokenIndex, sessions, stray>>
    BY <1>2 DEF AddUserInsert
  <2> QED
    BY <2>1, <2>2, <2>3, <2>4, InsertUserInv
<1>3. CASE WriteUser(r)
  <2> DEFINE u   == seen[r].id
             row == seen[r].row
  <2>1. u \in User /\ row \in UserRow
    BY <1>3 DEF WriteUser, AccountsInv, RequestOK, ReadSoFar
  <2>2. OnlyMoves(r) /\ RequestOK(r)'
    BY <1>3, DoneMoves DEF WriteUser
  <2>3. /\ UpdateUserRow(u, row) /\ userIds' = userIds
        /\ UNCHANGED <<projects, projectIds, member, tokenRow, tokenIndex, sessions, stray>>
    BY <1>3 DEF WriteUser
  <2> HIDE DEF u, row
  <2>4. CASE users[u] = NoRow
    <3>1. UNCHANGED <<tables, wasAdmin, stray>>
      BY <2>3, <2>4 DEF UpdateUserRow, tables
    <3> QED
      BY <2>2, <3>1, QuietInv
  <2>5. CASE users[u] # NoRow
    <3>1. /\ users' = [users EXCEPT ![u] = row]
          /\ wasAdmin' = IF row.admin THEN wasAdmin \cup {u} ELSE wasAdmin
      BY <2>3, <2>5 DEF UpdateUserRow
    <3>2. /\ users' \in [User -> UserRow \cup {NoRow}]
          /\ \A v \in User \ {u} : users'[v] = users[v]
          /\ users'[u] = row /\ row # NoRow
      BY <2>1, <3>1, AccountsAssumption DEF AccountsInv, TypeOK
    <3> QED
      BY <2>1, <2>2, <2>3, <3>1, <3>2, UserWriteInv
  <2> QED
    BY <2>4, <2>5
<1>4. CASE DeleteUserRow(r)
  <2> DEFINE u == seen[r].id
  <2>1. u \in User /\ pc[r] = "deleteUser" /\ seen[r].todo = {}
    BY <1>4 DEF DeleteUserRow, AccountsInv, RequestOK, ReadSoFar
  <2>2. OnlyMoves(r) /\ RequestOK(r)'
    BY <1>4, DoneMoves DEF DeleteUserRow
  <2>3. /\ users' = [users EXCEPT ![u] = NoRow] /\ userIds' = userIds /\ wasAdmin' = wasAdmin
        /\ UNCHANGED <<projects, projectIds, member, tokenRow, tokenIndex, sessions, stray>>
    BY <1>4 DEF DeleteUserRow
  <2>4. \A p \in projects : member[p][u] # "none" => <<p, u>> \in stray
    BY <2>1 DEF AccountsInv, RequestOK, TeamsLeft
  <2> HIDE DEF u
  <2>5. /\ users' \in [User -> UserRow \cup {NoRow}]
        /\ \A v \in User \ {u} : users'[v] = users[v]
        /\ users'[u] = NoRow
    BY <2>1, <2>3 DEF AccountsInv, TypeOK
  <2> QED
    BY <2>1, <2>2, <2>3, <2>4, <2>5, UserWriteInv
<1> QED
  BY <1>1, <1>2, <1>3, <1>4

\* A membership of u in p is written.
LEMMA MemberWriteInv ==
    ASSUME AccountsInv, NEW r \in Req, OnlyMoves(r), RequestOK(r)', NEW p \in Project, NEW u \in User,
           \/ \E role \in Roles : CreateProjectUser(p, u, role)
           \/ DeleteProjectUser(p, u)
           \/ /\ member[p][u] # "none" /\ stray' = stray
              /\ \E role \in Roles : member' = [member EXCEPT ![p][u] = role],
           UNCHANGED <<users, userIds, projects, projectIds, tokenRow, tokenIndex, sessions, wasAdmin>>
    PROVE  AccountsInv'
<1> USE DEF CreateProjectUser, DeleteProjectUser
<1>1. PICK role \in Roles \cup {"none"} : member' = [member EXCEPT ![p][u] = role]
  OBVIOUS
<1>2. /\ member' \in [Project -> [User -> Roles \cup {"none"}]]
      /\ member'[p][u] = role
      /\ \A x \in Project, v \in User : x # p \/ v # u => member'[x][v] = member[x][v]
  BY <1>1 DEF AccountsInv, TypeOK
<1>3. stray' \subseteq Project \X User
  BY DEF AccountsInv, TypeOK
<1>4. ASSUME NEW x \in Project, NEW v \in User, member'[x][v] # "none"
      PROVE  \/ member[x][v] # "none" /\ (<<x, v>> \in stray => <<x, v>> \in stray')
             \/ Leaving(v) => <<x, v>> \in stray'
  <2>1. CASE x # p \/ v # u
    BY <1>2, <1>4, <2>1
  <2>2. CASE x = p /\ v = u
    <3>1. ~ DeleteProjectUser(p, u)
      BY <1>4, <2>2 DEF AccountsInv, TypeOK
    <3> QED
      BY <2>2, <3>1
  <2> QED
    BY <2>1, <2>2
<1>5. TablesTyped'
  BY <1>2, <1>3 DEF TablesTyped, AccountsInv, TypeOK
<1>6. ASSUME NEW q \in Req \ {r} PROVE TeamsLeft(q)'
  <2> SUFFICES ASSUME pc[q] = "deleteUser", NEW x \in projects,
                      member'[x][seen[q].id] # "none"
               PROVE  x \in seen[q].todo \/ <<x, seen[q].id>> \in stray'
    BY DEF TeamsLeft, OnlyMoves
  <2>1. seen[q].id \in User /\ x \in Project /\ Leaving(seen[q].id)
    BY DEF AccountsInv, RequestOK, ReadSoFar, TypeOK, Leaving
  <2>2. \/ member[x][seen[q].id] # "none" /\ (<<x, seen[q].id>> \in stray => <<x, seen[q].id>> \in stray')
        \/ <<x, seen[q].id>> \in stray'
    BY <1>4, <2>1
  <2> QED
    BY <2>2 DEF AccountsInv, RequestOK, TeamsLeft
<1>7. MembersGone'
  <2> SUFFICES ASSUME NEW v \in User, users[v] = NoRow, NEW x \in projects,
                      member'[x][v] # "none"
               PROVE  <<x, v>> \in stray'
    BY DEF MembersGone
  <2>1. x \in Project /\ Leaving(v)
    BY DEF AccountsInv, TypeOK, Leaving
  <2> QED
    BY <1>4, <2>1 DEF AccountsInv, MembersGone
<1>8. TokenIndexed' /\ AdminRecorded'
  BY DEF TokenIndexed, AdminRecorded, AccountsInv
<1> QED
  BY <1>5, <1>6, <1>7, <1>8, WriteInv

\* The steps that write memberships, one transaction each.
LEMMA MemberStepInv ==
    ASSUME AccountsInv, NEW r \in Req,
           \/ AddProjectOwner(r) \/ LeftProject(r) \/ RemoveUser(r)
           \/ \E role \in Roles : UpdateMember(r, role)
           \/ \E u \in User : \E role \in Roles : AddMember(r, u, role)
           \/ \E p \in Project : DeleteUserMember(r, p)
    PROVE  AccountsInv'
<1>1. Done(r) => OnlyMoves(r) /\ RequestOK(r)'
  BY DoneMoves
<1>2. /\ pc[r] \in {"owner", "project", "member"} => me[r] \in [id : User, admin : BOOLEAN]
      /\ pc[r] = "owner" => seen[r] \in Project
      /\ pc[r] \in {"project", "member"} => seen[r].p \in Project
      /\ pc[r] = "member" => seen[r].id \in User
  BY DEF AccountsInv, RequestOK, ReadSoFar, SignedIn
<1>3. CASE /\ UNCHANGED <<member, stray>> /\ Done(r)
           /\ UNCHANGED <<users, userIds, projects, projectIds, tokenRow, tokenIndex, sessions, wasAdmin>>
  BY <1>3, QuietDone DEF tables
<1>4. CASE AddProjectOwner(r)
  <2>1. /\ seen[r] \in Project /\ me[r].id \in User
        /\ CreateProjectUser(seen[r], me[r].id, "owner") /\ Done(r)
        /\ UNCHANGED <<users, userIds, projects, projectIds, tokenRow, tokenIndex, sessions, wasAdmin>>
    BY <1>2, <1>4 DEF AddProjectOwner
  <2>2. "owner" \in Roles
    BY DEF Roles
  <2> QED
    BY <1>1, <1>2, <2>1, <2>2, MemberWriteInv
<1>5. CASE LeftProject(r) \/ RemoveUser(r)
  <2>1. PICK u \in User : RemoveMember(r, u) /\ seen[r].p \in Project
    BY <1>2, <1>5 DEF LeftProject, RemoveUser
  <2>2. CASE ~ OwnOwner(r, u)
    <3>1. /\ DeleteProjectUser(seen[r].p, u) /\ Done(r)
          /\ UNCHANGED <<users, userIds, projects, projectIds, tokenRow, tokenIndex, sessions, wasAdmin>>
      BY <2>1, <2>2 DEF RemoveMember
    <3> QED
      BY <1>1, <1>2, <2>1, <3>1, MemberWriteInv
  <2> QED
    BY <1>3, <2>1, <2>2 DEF RemoveMember
<1>6. ASSUME NEW role \in Roles, UpdateMember(r, role) PROVE AccountsInv'
  <2> DEFINE p == seen[r].p
             u == seen[r].id
  <2>1. /\ p \in Project /\ u \in User /\ Done(r) /\ stray' = stray
        /\ UNCHANGED <<users, userIds, projects, projectIds, tokenRow, tokenIndex, sessions, wasAdmin>>
        /\ member' = IF OwnOwner(r, u) \/ member[p][u] = "none" THEN member
                     ELSE [member EXCEPT ![p][u] = role]
    BY <1>2, <1>6 DEF UpdateMember
  <2> HIDE DEF p, u
  <2>2. CASE OwnOwner(r, u) \/ member[p][u] = "none"
    BY <1>3, <2>1, <2>2
  <2>3. CASE ~ (OwnOwner(r, u) \/ member[p][u] = "none")
    BY <1>1, <1>2, <2>1, <2>3, MemberWriteInv
  <2> QED
    BY <2>2, <2>3
<1>7. ASSUME NEW u \in User, NEW role \in Roles, AddMember(r, u, role) PROVE AccountsInv'
  <2>1. /\ seen[r].p \in Project /\ u \in User /\ Done(r)
        /\ UNCHANGED <<users, userIds, projects, projectIds, tokenRow, tokenIndex, sessions, wasAdmin>>
    BY <1>2, <1>7 DEF AddMember, AccountsInv, TypeOK
  <2>2. CASE MustCan(r, "ManageUsers")
    <3>1. CreateProjectUser(seen[r].p, u, role)
      BY <1>7, <2>2 DEF AddMember
    <3> QED
      BY <1>1, <1>2, <2>1, <3>1, MemberWriteInv
  <2>3. CASE ~ MustCan(r, "ManageUsers")
    BY <1>3, <1>7, <2>1, <2>3 DEF AddMember
  <2> QED
    BY <2>2, <2>3
<1>8. ASSUME NEW p \in Project, DeleteUserMember(r, p) PROVE AccountsInv'
  <2> DEFINE x == [seen[r] EXCEPT !.todo = @ \ {p}]
             u == seen[r].id
  <2>1. /\ pc[r] = "deleteUser" /\ seen[r] \in [id : User, todo : SUBSET Project]
        /\ p \in seen[r].todo /\ me[r] \in [id : User, admin : BOOLEAN]
    BY <1>8 DEF DeleteUserMember, AccountsInv, RequestOK, ReadSoFar, SignedIn
  <2>2. /\ Goto(r, "deleteUser", x) /\ me' = me
        /\ UNCHANGED <<users, userIds, projects, projectIds, tokenRow, tokenIndex, sessions, wasAdmin>>
    BY <1>8 DEF DeleteUserMember
  <2>3. /\ x \in [id : User, todo : SUBSET Project] /\ x.id = u /\ u \in User
        /\ x.todo = seen[r].todo \ {p}
    BY <2>1
  <2>4. "deleteUser" \in Pcs
    BY DEF Pcs
  <2> HIDE DEF x
  <2>5. OnlyMoves(r) /\ pc'[r] = "deleteUser" /\ seen'[r] = x /\ me'[r] = me[r]
    BY <2>2, <2>4, GotoMoves
  <2>6. TeamsLeft(r)' => RequestOK(r)'
    BY <2>1, <2>3, <2>5 DEF RequestOK, ReadSoFar, TokenStored, MayGrant
  <2>7. CASE DeleteProjectUser(p, u)
    <3>1. TeamsLeft(r)'
      <4> SUFFICES ASSUME NEW y \in projects, member'[y][u] # "none"
                   PROVE  y \in x.todo \/ <<y, u>> \in stray'
        BY <2>2, <2>3, <2>5 DEF TeamsLeft
      <4>1. y \in Project /\ y # p
        BY <2>3, <2>7 DEF AccountsInv, TypeOK, DeleteProjectUser
      <4>2. member[y][u] # "none" /\ stray' = stray \ {<<p, u>>}
        BY <2>3, <2>7, <4>1 DEF AccountsInv, TypeOK, DeleteProjectUser
      <4>3. y \in seen[r].todo \/ <<y, u>> \in stray
        BY <2>1, <4>2 DEF AccountsInv, RequestOK, TeamsLeft
      <4> QED
        BY <2>3, <4>1, <4>2, <4>3
    <3> HIDE DEF u
    <3> QED
      BY <2>2, <2>3, <2>5, <2>6, <2>7, <3>1, MemberWriteInv
  <2>8. CASE stray' = stray \cup {<<p, u>>} /\ member' = member
    <3>1. TeamsLeft(r)'
      <4> SUFFICES ASSUME NEW y \in projects, member[y][u] # "none"
                   PROVE  y \in x.todo \/ <<y, u>> \in stray'
        BY <2>2, <2>3, <2>5, <2>8 DEF TeamsLeft
      <4>1. y \in seen[r].todo \/ <<y, u>> \in stray
        BY <2>1 DEF AccountsInv, RequestOK, TeamsLeft
      <4> QED
        BY <2>3, <2>8, <4>1
    <3> HIDE DEF u
    <3>2. TablesTyped'
      BY <2>2, <2>3, <2>8 DEF TablesTyped, AccountsInv, TypeOK
    <3>3. \A q \in Req \ {r} : TeamsLeft(q)'
      BY <2>2, <2>5, <2>8 DEF AccountsInv, RequestOK, TeamsLeft, OnlyMoves
    <3>4. MembersGone'
      BY <2>2, <2>8 DEF AccountsInv, MembersGone
    <3>5. TokenIndexed' /\ AdminRecorded'
      BY <2>2 DEF AccountsInv, TokenIndexed, AdminRecorded
    <3> QED
      BY <2>2, <2>5, <2>6, <3>1, <3>2, <3>3, <3>4, <3>5, WriteInv
  <2> QED
    BY <1>8, <2>7, <2>8 DEF DeleteUserMember
<1> QED
  BY <1>4, <1>5, <1>6, <1>7, <1>8

\* DeleteUser lists the teams the user is in.
LEMMA DeleteUserInv == ASSUME AccountsInv, NEW r \in Req, DeleteUser(r) PROVE AccountsInv'
<1> DEFINE x == [id |-> seen[r].id, todo |-> GetProjects(seen[r].id)]
<1>1. /\ pc[r] = "user" /\ seen[r].id \in User /\ me[r] \in [id : User, admin : BOOLEAN]
      /\ Goto(r, "deleteUser", x) /\ me' = me /\ UNCHANGED <<tables, wasAdmin, stray>>
  BY DEF DeleteUser, AccountsInv, RequestOK, ReadSoFar, SignedIn
<1>2. /\ x \in [id : User, todo : SUBSET Project] /\ x.id = seen[r].id
      /\ x.todo = {p \in projects : member[p][seen[r].id] # "none"}
  BY <1>1 DEF GetProjects, AccountsInv, TypeOK
<1>3. "deleteUser" \in Pcs
  BY DEF Pcs
<1> HIDE DEF x
<1>4. OnlyMoves(r) /\ pc'[r] = "deleteUser" /\ seen'[r] = x /\ me'[r] = me[r]
  BY <1>1, <1>3, GotoMoves
<1>5. TeamsLeft(r)'
  BY <1>1, <1>2, <1>4 DEF TeamsLeft, tables
<1>6. RequestOK(r)'
  BY <1>1, <1>2, <1>4, <1>5 DEF RequestOK, ReadSoFar, TokenStored, MayGrant
<1> QED
  BY <1>1, <1>4, <1>6, QuietInv

\* The memberships others have still to delete do not change with the rest.
LEMMA TeamsStay ==
    ASSUME AccountsInv, NEW r \in Req, OnlyMoves(r), projects' \subseteq projects,
           member' = member, stray' = stray
    PROVE  \A q \in Req \ {r} : TeamsLeft(q)'
  BY DEF AccountsInv, RequestOK, TeamsLeft, OnlyMoves

\* The two writes of a new token, and the expiry of one.
LEMMA TokenStepInv ==
    ASSUME AccountsInv, NEW r \in Req, TokenAPI(r)
    PROVE  AccountsInv'
<1>1. ASSUME NEW t \in Token, CreateAPIToken(r, t) PROVE AccountsInv'
  <2> DEFINE row == [user |-> me[r].id, expired |-> FALSE]
  <2>1. /\ pc[r] = "authed" /\ tokenRow[t] = NoRow /\ tokenRow' = [tokenRow EXCEPT ![t] = row]
        /\ Goto(r, "index", t) /\ me' = me
        /\ UNCHANGED <<users, userIds, projects, projectIds, member, tokenIndex, sessions, wasAdmin, stray>>
    BY <1>1 DEF CreateAPIToken
  <2>2. me[r] \in [id : User, admin : BOOLEAN]
    BY <2>1 DEF AccountsInv, RequestOK, ReadSoFar, SignedIn
  <2>3. row \in [user : User, expired : BOOLEAN] /\ row # NoRow /\ row.user = me[r].id
    <3>1. row \in [user : User, expired : BOOLEAN] /\ row.user = me[r].id
      BY <2>2
    <3>2. NoRow \notin [user : User, expired : BOOLEAN]
      BY AccountsAssumption
    <3> QED
      BY <3>1, <3>2
  <2> HIDE DEF row
  <2>4. /\ tokenRow' \in [Token -> [user : User, expired : BOOLEAN] \cup {NoRow}]
        /\ tokenRow'[t] = row /\ \A v \in Token \ {t} : tokenRow'[v] = tokenRow[v]
    BY <2>1, <2>3 DEF AccountsInv, TypeOK
  <2>5. OnlyMoves(r) /\ pc'[r] = "index" /\ seen'[r] = t /\ me'[r] = me[r]
    <3>1. "index" \in Pcs
      BY DEF Pcs
    <3> QED
      BY <2>1, <3>1, GotoMoves
  <2>6. RequestOK(r)'
    BY <2>2, <2>3, <2>4, <2>5 DEF RequestOK, ReadSoFar, TokenStored, TeamsLeft, MayGrant
  <2>7. TablesTyped'
    BY <2>1, <2>4 DEF TablesTyped, AccountsInv, TypeOK
  <2>8. \A q \in Req \ {r} : TeamsLeft(q)'
    BY <2>1, <2>5, TeamsStay
  <2>9. TokenIndexed'
    BY <2>1, <2>4 DEF AccountsInv, TokenIndexed
  <2>10. MembersGone' /\ AdminRecorded'
    BY <2>1 DEF AccountsInv, MembersGone, AdminRecorded
  <2> QED
    BY <2>1, <2>4, <2>5, <2>6, <2>7, <2>8, <2>9, <2>10, WriteInv
<1>2. CASE IndexAPIToken(r)
  <2> DEFINE t == seen[r]
             u == me[r].id
  <2>1. /\ pc[r] = "index" /\ tokenIndex' = [tokenIndex EXCEPT ![t] = u] /\ Done(r)
        /\ UNCHANGED <<users, userIds, projects, projectIds, member, tokenRow, sessions, wasAdmin, stray>>
    BY <1>2 DEF IndexAPIToken
  <2>2. t \in Token /\ u \in User /\ tokenRow[t] # NoRow /\ tokenRow[t].user = u
    BY <2>1 DEF AccountsInv, RequestOK, ReadSoFar, TokenStored, SignedIn
  <2>3. OnlyMoves(r) /\ RequestOK(r)'
    BY <2>1, DoneMoves
  <2> HIDE DEF t, u
  <2>4. /\ tokenIndex' \in [Token -> User \cup {NoRow}]
        /\ tokenIndex'[t] = u /\ \A v \in Token \ {t} : tokenIndex'[v] = tokenIndex[v]
    BY <2>1, <2>2 DEF AccountsInv, TypeOK
  <2>5. TablesTyped'
    BY <2>1, <2>4 DEF TablesTyped, AccountsInv, TypeOK
  <2>6. \A q \in Req \ {r} : TeamsLeft(q)'
    BY <2>1, <2>3, TeamsStay
  <2>7. TokenIndexed'
    BY <2>1, <2>2, <2>4 DEF AccountsInv, TokenIndexed
  <2>8. MembersGone' /\ AdminRecorded'
    BY <2>1 DEF AccountsInv, MembersGone, AdminRecorded
  <2> QED
    BY <2>1, <2>3, <2>5, <2>6, <2>7, <2>8, WriteInv
<1>3. ASSUME NEW t \in Token, ExpireAPIToken(r, t) PROVE AccountsInv'
  <2>1. /\ tokenRow' = IF tokenRow[t] # NoRow /\ tokenRow[t].user = me[r].id
                       THEN [tokenRow EXCEPT ![t].expired = TRUE] ELSE tokenRow
        /\ Done(r)
        /\ UNCHANGED <<users, userIds, projects, projectIds, member, tokenIndex, sessions, wasAdmin, stray>>
    BY <1>3 DEF ExpireAPIToken
  <2>2. OnlyMoves(r) /\ RequestOK(r)'
    BY <2>1, DoneMoves
  <2>3. CASE tokenRow[t] = NoRow
    BY <2>1, <2>3, QuietDone DEF tables
  <2>4. CASE tokenRow[t] # NoRow
    <3>1. /\ tokenRow' \in [Token -> [user : User, expired : BOOLEAN] \cup {NoRow}]
          /\ tokenRow'[t].user = tokenRow[t].user
          /\ tokenRow'[t] \in [user : User, expired : BOOLEAN]
          /\ \A v \in Token \ {t} : tokenRow'[v] = tokenRow[v]
      <4>1. tokenRow[t] \in [user : User, expired : BOOLEAN]
        BY <2>4 DEF AccountsInv, TypeOK
      <4>2. CASE tokenRow' = tokenRow
        BY <4>1, <4>2 DEF AccountsInv, TypeOK
      <4>3. CASE tokenRow' = [tokenRow EXCEPT ![t].expired = TRUE]
        BY <4>1, <4>3 DEF AccountsInv, TypeOK
      <4> QED
        BY <2>1, <4>2, <4>3
    <3>2. tokenRow'[t] # NoRow
      BY <3>1, AccountsAssumption
    <3>3. TablesTyped'
      BY <2>1, <3>1 DEF TablesTyped, AccountsInv, TypeOK
    <3>4. \A q \in Req \ {r} : TeamsLeft(q)'
      BY <2>1, <2>2, TeamsStay
    <3>5. TokenIndexed'
      BY <2>1, <3>1, <3>2 DEF AccountsInv, TokenIndexed
    <3>6. MembersGone' /\ AdminRecorded'
      BY <2>1 DEF AccountsInv, MembersGone, AdminRecorded
    <3> QED
      BY <2>1, <2>2, <3>1, <3>2, <3>3, <3>4, <3>5, <3>6, WriteInv
  <2> QED
    BY <2>3, <2>4
<1> QED
  BY <1>1, <1>2, <1>3 DEF TokenAPI

\* A new project may find the team of a deleted one, which leaves it behind.
LEMMA ProjectStepInv ==
    ASSUME AccountsInv, NEW r \in Req,
           (\E p \in Project : AddProject(r, p)) \/ DeleteProject(r)
    PROVE  AccountsInv'
<1>1. ASSUME NEW p \in Project, AddProject(r, p) PROVE AccountsInv'
  <2>1. /\ pc[r] = "authed"
        /\ UNCHANGED <<users, userIds, member, tokenRow, tokenIndex, sessions, wasAdmin>>
    BY <1>1 DEF AddProject
  <2>2. CASE me[r].admin \/ NonAdminCanCreateProject
    <3> DEFINE Back == {u \in User : member[p][u] # "none" /\ Leaving(u)}
    <3>1. /\ projects' = projects \cup {p}
          /\ projectIds' = projectIds \/ projectIds' = projectIds \cup {p}
          /\ stray' = stray \cup {<<p, u>> : u \in Back}
          /\ Goto(r, "owner", p) /\ me' = me
      BY <1>1, <2>2 DEF AddProject
    <3>2. OnlyMoves(r) /\ pc'[r] = "owner" /\ seen'[r] = p /\ me'[r] = me[r]
      <4>1. "owner" \in Pcs
        BY DEF Pcs
      <4> QED
        BY <3>1, <4>1, GotoMoves
    <3>3. me[r] \in [id : User, admin : BOOLEAN]
      BY <2>1 DEF AccountsInv, RequestOK, ReadSoFar, SignedIn
    <3>4. RequestOK(r)'
      BY <3>1, <3>2, <3>3 DEF RequestOK, ReadSoFar, TokenStored, TeamsLeft, MayGrant
    <3>5. TablesTyped'
      BY <2>1, <3>1 DEF TablesTyped, AccountsInv, TypeOK
    <3>6. ASSUME NEW u \in User, member[p][u] # "none", Leaving(u) PROVE <<p, u>> \in stray'
      BY <3>1, <3>6
    <3>7. ASSUME NEW q \in Req \ {r} PROVE TeamsLeft(q)'
      <4> SUFFICES ASSUME pc[q] = "deleteUser", NEW x \in projects',
                          member[x][seen[q].id] # "none"
                   PROVE  x \in seen[q].todo \/ <<x, seen[q].id>> \in stray'
        BY <2>1, <3>2 DEF TeamsLeft, OnlyMoves
      <4>1. seen[q].id \in User /\ Leaving(seen[q].id)
        BY DEF AccountsInv, RequestOK, ReadSoFar, Leaving
      <4>2. CASE x = p
        BY <3>6, <4>1, <4>2
      <4>3. CASE x \in projects
        BY <3>1, <4>3 DEF AccountsInv, RequestOK, TeamsLeft
      <4> QED
        BY <3>1, <4>2, <4>3
    <3>8. MembersGone'
      <4> SUFFICES ASSUME NEW v \in User, users[v] = NoRow, NEW x \in projects',
                          member[x][v] # "none"
                   PROVE  <<x, v>> \in stray'
        BY <2>1 DEF MembersGone
      <4>1. CASE x = p
        BY <3>6, <4>1 DEF Leaving
      <4>2. CASE x \in projects
        BY <3>1, <4>2 DEF AccountsInv, MembersGone
      <4> QED
        BY <3>1, <4>1, <4>2
    <3>9. TokenIndexed' /\ AdminRecorded'
      BY <2>1 DEF AccountsInv, TokenIndexed, AdminRecorded
    <3> QED
      BY <2>1, <3>2, <3>4, <3>5, <3>7, <3>8, <3>9, WriteInv
  <2>3. CASE ~ (me[r].admin \/ NonAdminCanCreateProject)
    BY <1>1, <2>1, <2>3, QuietDone DEF AddProject, tables
  <2> QED
    BY <2>2, <2>3
<1>2. CASE DeleteProject(r)
  <2>1. /\ projects' \subseteq projects /\ Done(r)
        /\ UNCHANGED <<users, userIds, projectIds, member, tokenRow, tokenIndex, sessions, wasAdmin, stray>>
    BY <1>2 DEF DeleteProject
  <2>2. OnlyMoves(r) /\ RequestOK(r)'
    BY <2>1, DoneMoves
  <2>3. TablesTyped'
    BY <2>1 DEF TablesTyped, AccountsInv, TypeOK
  <2>4. \A q \in Req \ {r} : TeamsLeft(q)'
    BY <2>1, <2>2, TeamsStay
  <2>5. MembersGone'
    BY <2>1 DEF AccountsInv, MembersGone
  <2>6. TokenIndexed' /\ AdminRecorded'
    BY <2>1 DEF AccountsInv, TokenIndexed, AdminRecorded
  <2> QED
    BY <2>1, <2>2, <2>3, <2>4, <2>5, <2>6, WriteInv
<1> QED
  BY <1>1, <1>2

\* A new session, and one that grows old.
LEMMA SessionStepInv ==
    ASSUME AccountsInv,
           (\E r \in Req : \E s \in Session : CreateSession(r, s)) \/ \E s \in Session : Age(s)
    PROVE  AccountsInv'
<1>1. ASSUME NEW r \in Req, NEW s \in Session, CreateSession(r, s) PROVE AccountsInv'
  <2>1. /\ sessions' = [sessions EXCEPT ![s] = [user |-> seen[r], age |-> "fresh"]]
        /\ Done(r) /\ seen[r] \in User
        /\ UNCHANGED <<users, userIds, projects, projectIds, member, tokenRow, tokenIndex, wasAdmin, stray>>
    BY <1>1 DEF CreateSession, AccountsInv, RequestOK, ReadSoFar
  <2>2. OnlyMoves(r) /\ RequestOK(r)'
    BY <2>1, DoneMoves
  <2>3. TablesTyped'
    <3>1. [user |-> seen[r], age |-> "fresh"] \in [user : User, age : {"fresh", "old"}]
      BY <2>1
    <3>2. sessions' \in [Session -> [user : User, age : {"fresh", "old"}] \cup {NoRow}]
      BY <2>1, <3>1 DEF AccountsInv, TypeOK
    <3> QED
      BY <2>1, <3>2 DEF TablesTyped, AccountsInv, TypeOK
  <2>4. \A q \in Req \ {r} : TeamsLeft(q)'
    BY <2>1, <2>2, TeamsStay
  <2>5. TokenIndexed' /\ MembersGone' /\ AdminRecorded'
    BY <2>1 DEF AccountsInv, TokenIndexed, MembersGone, AdminRecorded
  <2> QED
    BY <2>1, <2>2, <2>3, <2>4, <2>5, WriteInv
<1>2. ASSUME NEW s \in Session, Age(s) PROVE AccountsInv'
  <2>1. /\ sessions[s] # NoRow /\ sessions' = [sessions EXCEPT ![s].age = "old"]
        /\ users' = users /\ userIds' = userIds /\ projects' = projects
        /\ projectIds' = projectIds /\ member' = member /\ tokenRow' = tokenRow
        /\ tokenIndex' = tokenIndex /\ pc' = pc /\ me' = me /\ seen' = seen
        /\ wasAdmin' = wasAdmin /\ stray' = stray
    BY <1>2 DEF Age
  <2>2. TypeOK' /\ DOMAIN seen' = Req
    BY <2>1 DEF AccountsInv, TypeOK
  <2>3. \A r \in Req : RequestOK(r)'
    BY <2>1 DEF AccountsInv, RequestOK, ReadSoFar, TokenStored, TeamsLeft, MayGrant
  <2>4. TokenIndexed' /\ MembersGone' /\ AdminRecorded'
    BY <2>1 DEF AccountsInv, TokenIndexed, MembersGone, AdminRecorded
  <2> QED
    BY <2>2, <2>3, <2>4 DEF AccountsInv
<1> QED
  BY <1>1, <1>2

\* The process dies and its requests with it, or nothing happens.
LEMMA CrashInv == ASSUME AccountsInv, Crash \/ UNCHANGED vars PROVE AccountsInv'
<1>1. /\ users' = users /\ userIds' = userIds /\ projects' = projects
      /\ projectIds' = projectIds /\ member' = member /\ tokenRow' = tokenRow
      /\ tokenIndex' = tokenIndex /\ sessions' = sessions
      /\ wasAdmin' = wasAdmin /\ stray' = stray
  BY DEF Crash, vars, tables
<1>2. TokenIndexed' /\ MembersGone' /\ AdminRecorded'
  BY <1>1 DEF AccountsInv, TokenIndexed, MembersGone, AdminRecorded
<1>3. CASE Crash
  <2>1. TypeOK' /\ DOMAIN seen' = Req
    BY <1>1, <1>3 DEF Crash, AccountsInv, TypeOK, Pcs
  <2>2. \A r \in Req : pc'[r] \in {"new", "done"}
    BY <1>3 DEF Crash
  <2>3. \A r \in Req : RequestOK(r)'
    BY <2>2 DEF RequestOK, ReadSoFar, TokenStored, TeamsLeft, MayGrant, SignedIn
  <2> QED
    BY <1>2, <2>1, <2>3 DEF AccountsInv
<1>4. CASE UNCHANGED vars
  <2>1. pc' = pc /\ me' = me /\ seen' = seen
    BY <1>4 DEF vars
  <2>2. TypeOK' /\ DOMAIN seen' = Req
    BY <1>1, <2>1 DEF AccountsInv, TypeOK
  <2>3. \A r \in Req : RequestOK(r)'
    BY <1>1, <2>1 DEF AccountsInv, RequestOK, ReadSoFar, TokenStored, TeamsLeft, MayGrant
  <2> QED
    BY <1>2, <2>2, <2>3 DEF AccountsInv
<1> QED
  BY <1>3, <1>4

\* The accounts at the start satisfy the invariant.
LEMMA AccountsInit == ASSUME Init PROVE AccountsInv
<1>1. TypeOK /\ DOMAIN seen = Req
  <2>1. sessions \in [Session -> [user : User, age : {"fresh", "old"}] \cup {NoRow}]
    BY AccountsAssumption DEF Init
  <2> QED
    BY <2>1, AccountsAssumption DEF Init, TypeOK, Pcs
<1>2. \A r \in Req : RequestOK(r)
  BY DEF Init, RequestOK, ReadSoFar, TokenStored, TeamsLeft, MayGrant, SignedIn
<1>3. TokenIndexed /\ MembersGone /\ AdminRecorded
  BY AccountsAssumption DEF Init, TokenIndexed, MembersGone, AdminRecorded
<1> QED
  BY <1>1, <1>2, <1>3 DEF AccountsInv

\* Every step of every request, and a crash, keep it.
LEMMA AccountsStep == ASSUME AccountsInv, [Next]_vars PROVE AccountsInv'
<1>1. ASSUME NEW r \in Req, Login(r) PROVE AccountsInv'
  BY <1>1, LoginInv, UserStepInv, SessionStepInv DEF Login, LoginByLDAP, OidcRedirect
<1>2. ASSUME NEW r \in Req, UserAPI(r) PROVE AccountsInv'
  BY <1>2, UserReadInv, UserStepInv, DeleteUserInv, MemberStepInv DEF UserAPI
<1>3. ASSUME NEW r \in Req, ProjectAPI(r) PROVE AccountsInv'
  BY <1>3, ProjectReadInv, ProjectStepInv, MemberStepInv DEF ProjectAPI
<1> QED
  BY <1>1, <1>2, <1>3, AuthenticationInv, TokenStepInv, SessionStepInv, CrashInv DEF Next

\* The invariant holds in every reachable state.
LEMMA AccountsInvariant == Spec => []AccountsInv
<1>1. Init => AccountsInv
  BY AccountsInit
<1>2. AccountsInv /\ [Next]_vars => AccountsInv'
  BY AccountsStep
<1> QED
  BY <1>1, <1>2, PTL DEF Spec

-----------------------------------------------------------------------------
(***************************************************************************)
(* The theorems.                                                           *)
(***************************************************************************)

\* The tables stay tables, every membership has a role that the code knows, and
\* the context of a request is a user or nothing.
THEOREM AccountsTyped == Spec => []TypeOK
  BY AccountsInvariant, PTL DEF AccountsInv

\* Authentication never finds a token in the index whose row is missing or
\* another user's: for any number of requests that create and expire tokens,
\* and a process that dies between the two writes of CreateAPIToken.
THEOREM TokensStayIndexed == Spec => []TokenIndexed
  BY AccountsInvariant, PTL DEF AccountsInv

\* DeleteUser, which deletes memberships one transaction at a time, leaves no
\* membership of a deleted user but those made after it began, those whose
\* deletion failed and those that come back with the id of a deleted project.
THEOREM DeletedUsersHaveLeft == Spec => []MembersGone
  BY AccountsInvariant, PTL DEF AccountsInv

\* No step writes the admin flag for somebody who never had it but the last one
\* of addUser or updateUser of an administrator; the rows that other requests
\* write back from old copies do not (updateUser, SetUserPassword).
THEOREM AdminIsGranted == Spec => AdminGranted
<1> DEFINE Granted ==
      \A u \in User \ wasAdmin : u \in wasAdmin' =>
        \E r \in Req : pc[r] \in {"insertUser", "writeUser"} /\ me[r].admin /\ pc'[r] = "done"
<1>1. ASSUME AccountsInv, Next PROVE Granted
  <2>1. \/ wasAdmin' = wasAdmin
        \/ \E r \in Req : InsertExternal(r) \/ AddUserInsert(r) \/ WriteUser(r)
    <3>1. ASSUME NEW r \in Req, Login(r) PROVE wasAdmin' = wasAdmin \/ InsertExternal(r)
      BY <3>1 DEF Login, LoginByLDAP, OidcRedirect, LoginByPassword, ExternalLookup, LoginError,
           CreateUserWithoutPassword, CreateSession
    <3>2. ASSUME NEW r \in Req, Authentication(r) PROVE wasAdmin' = wasAdmin
      BY <3>2 DEF Authentication, AuthSession, AuthToken, AuthUser
    <3>3. ASSUME NEW r \in Req, UserAPI(r)
          PROVE  wasAdmin' = wasAdmin \/ AddUserInsert(r) \/ WriteUser(r)
      BY <3>3 DEF UserAPI, AddUser, GetUserMiddleware, UpdateUser, UpdateUserPassword,
           DeleteUser, DeleteUserMember, DeleteUserRow
    <3>4. ASSUME NEW r \in Req, TokenAPI(r) \/ ProjectAPI(r) PROVE wasAdmin' = wasAdmin
      BY <3>4 DEF TokenAPI, IndexAPIToken, CreateAPIToken, ExpireAPIToken, ProjectAPI,
           AddProject, ProjectMiddleware, AddProjectOwner, LeftProject, RemoveUser,
           RemoveMember, DeleteProject, UpdateMember, UserMiddleware, AddMember
    <3>5. (\E s \in Session : Age(s)) \/ Crash => wasAdmin' = wasAdmin
      BY DEF Age, Crash
    <3> QED
      BY <1>1, <3>1, <3>2, <3>3, <3>4, <3>5 DEF Next
  <2>2. ASSUME NEW r \in Req, InsertExternal(r) PROVE wasAdmin' = wasAdmin
    BY <2>2 DEF InsertExternal, InsertUser
  <2>3. ASSUME NEW r \in Req, AddUserInsert(r)
        PROVE  pc[r] = "insertUser" /\ me[r].admin /\ pc'[r] = "done"
    BY <1>1, <2>3, DoneMoves DEF AddUserInsert, AccountsInv, RequestOK, MayGrant
  <2>4. ASSUME NEW r \in Req, WriteUser(r), NEW u \in User \ wasAdmin, u \in wasAdmin'
        PROVE  pc[r] = "writeUser" /\ me[r].admin /\ pc'[r] = "done"
    <3>1. pc[r] = "writeUser" /\ pc'[r] = "done" /\ UpdateUserRow(seen[r].id, seen[r].row)
      BY <1>1, <2>4, DoneMoves DEF WriteUser
    <3>2. seen[r].row.admin /\ u = seen[r].id
      BY <2>4, <3>1 DEF UpdateUserRow
    <3> QED
      BY <1>1, <3>1, <3>2 DEF AccountsInv, RequestOK, MayGrant
  <2> QED
    BY <2>1, <2>2, <2>3, <2>4
<1>2. AccountsInv /\ [Next]_vars => [Granted]_vars
  BY <1>1
<1> QED
  BY <1>2, AccountsInvariant, PTL DEF Spec, AdminGranted

=============================================================================

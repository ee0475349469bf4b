------------------------------ MODULE ServerProofs -----------------------------
(***************************************************************************)
(* Type correctness of Server, soundness of the directory of users and     *)
(* projects, and exactness of patches: for any number of requests, rows,   *)
(* tokens and crashes.                                                     *)
(*                                                                         *)
(* The argument: save() may write an account that was loaded long ago, or  *)
(* insert it again, so the unique constraint of the INSERT alone does not  *)
(* keep names unique.  It is enough because all copies of an account, in   *)
(* the table and in the handlers that edit it, carry one username and one  *)
(* address (OneIdentity), and an id is never given out twice (Fresh).      *)
(***************************************************************************)
EXTENDS Server, TLAPS

SameAccount(a, b) == a.username = b.username /\ a.email = b.email

Editing == {"reloadUser", "writeUser"}
Edits(q, u) == pc[q] \in Editing /\ target[q] = u

Renaming == {"reloadProject", "writeProject"}
Marking  == {"softRemove", "undelete", "reread"}

\* What a handler in flight holds.
Holds(r) ==
  /\ pc[r] = "hash" => body[r] \in UserRow
  /\ pc[r] \in Editing => /\ target[r] \in User /\ body[r] \in UpdateUserDto
                          /\ loaded[r] \in UserRow
  /\ pc[r] = "writeUser" => seen[r] \in UserRow \cup {NoRow}
  /\ pc[r] = "deleteUser" => target[r] \in User
  /\ pc[r] = "compare" => loaded[r] \in UserRow
  /\ pc[r] \in Renaming => /\ target[r] \in Project /\ body[r] \in UpdateProjectDto
                           /\ loaded[r] \in ProjectRow
  /\ pc[r] = "writeProject" => seen[r] \in ProjectRow /\ seen[r].owner = loaded[r].owner
  /\ pc[r] \in Marking => target[r] \in Project
  /\ pc[r] \in {"lookup", "insertFile"} => target[r] \in Ticket
  /\ pc[r] = "deleteRow" => target[r] \in File

\* The row of a project a handler works on is still there, with its owner.
OnProject(r) ==
  /\ pc[r] \in Renaming \cup Marking => projects[target[r]] # NoRow
  /\ pc[r] \in Renaming => projects[target[r]].owner = loaded[r].owner

OneIdentity ==
  \A u \in User, q \in Request : Edits(q, u) =>
    /\ users[u] # NoRow => SameAccount(users[u], loaded[q])
    /\ pc[q] = "writeUser" /\ seen[q] # NoRow => SameAccount(seen[q], loaded[q])
    /\ \A p \in Request : Edits(p, u) => SameAccount(loaded[p], loaded[q])

Fresh ==
  \A r \in Request :
    /\ pc[r] \in {"ready", "hash"} => users[r] = NoRow /\ \A q \in Request : ~Edits(q, r)
    /\ pc[r] = "ready" => projects[r] = NoRow

AuditTyped == trail \in SUBSET Entry /\ pending \in SUBSET Entry

TablesTyped ==
  /\ users \in [User -> UserRow \cup {NoRow}]
  /\ projects \in [Project -> ProjectRow \cup {NoRow}]
  /\ attachments \in [File -> Ticket \cup {NoRow}]
  /\ disk \in SUBSET File /\ unlinking \in SUBSET File
  /\ revoked \in SUBSET Token /\ claims \in [Token -> Role \cup {NoRow}]
  /\ crashes \in 0..MaxCrashes
  /\ changed \in SUBSET (Request \X Endpoint)
  /\ torn \in SUBSET (Request \cup File)

LocalsTyped ==
  /\ pc \in [Request -> Phase]
  /\ target \in [Request -> Target]
  /\ body \in [Request -> Body \cup {NoBody}]
  /\ loaded \in [Request -> AnyRow] /\ seen \in [Request -> AnyRow]

SInv ==
  /\ TablesTyped /\ AuditTyped /\ LocalsTyped
  /\ \A r \in Request : Holds(r) /\ OnProject(r)
  /\ OneIdentity /\ Fresh
  /\ DirectorySound

\* A step leaves the locals of a handler that does not move alone.
Stays(q) == /\ pc'[q] = pc[q] /\ target'[q] = target[q] /\ body'[q] = body[q]
            /\ loaded'[q] = loaded[q] /\ seen'[q] = seen[q]
OthersStay(r) == \A q \in Request \ {r} : Stays(q)

LEMMA TypeParts == TypeOK <=> TablesTyped /\ AuditTyped /\ LocalsTyped
BY DEF TypeOK, TablesTyped, AuditTyped, LocalsTyped

-------------------------------------------------------------------------------
(* What a step of handler r may do to the directory.                       *)

UsersKept(r) ==
  \A u \in User : users'[u] # NoRow =>
    \/ users[u] # NoRow /\ SameAccount(users'[u], users[u])
    \/ u = r /\ pc[r] = "hash"
    \/ Edits(r, u) /\ SameAccount(users'[u], loaded[r])

ProjectsKept(r) ==
  \A p \in Project :
    /\ projects[p] # NoRow => projects'[p] # NoRow /\ projects'[p].owner = projects[p].owner
    /\ projects'[p] # NoRow => projects[p] # NoRow \/ (p = r /\ pc[r] = "ready")

\* A handler starts to edit an account with the row the table has, and reloads
\* the row the table has.
EditsKept(r) ==
  \A u \in User : pc'[r] \in Editing /\ target'[r] = u =>
    \/ /\ pc[r] = "ready" /\ pc'[r] = "reloadUser"
       /\ users[u] # NoRow /\ loaded'[r] = users[u] /\ UNCHANGED users
    \/ /\ Edits(r, u) /\ pc'[r] = "writeUser"
       /\ loaded'[r] = loaded[r] /\ seen'[r] = users[u] /\ UNCHANGED users

\* An id that is not used yet stays unused until its request inserts a row.
Moves(r) ==
  /\ pc'[r] # "ready"
  /\ pc'[r] = "hash" => pc[r] = "ready" /\ UNCHANGED users

Good(r) ==
  /\ OthersStay(r) /\ LocalsTyped' /\ TablesTyped' /\ AuditTyped'
  /\ Holds(r)' /\ OnProject(r)'
  /\ UsersKept(r) /\ ProjectsKept(r) /\ EditsKept(r) /\ Moves(r)
  /\ DirectorySound'

-------------------------------------------------------------------------------
(* Such a step keeps the invariant.                                        *)

LEMMA OthersHold ==
  ASSUME NEW r \in Request, NEW q \in Request, Stays(q), Holds(q), OnProject(q),
         ProjectsKept(r)
  PROVE  Holds(q)' /\ OnProject(q)'
<1>1. Holds(q)'
  BY DEF Holds, Stays
<1>2. pc[q] \in Renaming \cup Marking => target[q] \in Project
  BY DEF Holds, Renaming
<1>3. OnProject(q)'
  BY <1>2 DEF OnProject, Stays, ProjectsKept
<1>4. QED
  BY <1>1, <1>3

\* A handler edits an account after the step only if it did before, or starts
\* to with the row of the table.
LEMMA KeepsIdentity ==
  ASSUME SInv, NEW r \in Request, Good(r)
  PROVE  OneIdentity'
<1> SUFFICES ASSUME NEW u \in User, NEW q \in Request, Edits(q, u)'
             PROVE  /\ users'[u] # NoRow => SameAccount(users'[u], loaded'[q])
                    /\ pc'[q] = "writeUser" /\ seen'[q] # NoRow =>
                         SameAccount(seen'[q], loaded'[q])
                    /\ \A p \in Request : Edits(p, u)' => SameAccount(loaded'[p], loaded'[q])
  BY DEF OneIdentity, SameAccount
<1> DEFINE Copy(p) == \/ /\ Edits(p, u) /\ loaded'[p] = loaded[p]
                      \/ p = r /\ users[u] # NoRow /\ loaded'[p] = users[u] /\ UNCHANGED users
<1>1. ASSUME NEW p \in Request, Edits(p, u)' PROVE Copy(p)
  <2>1. CASE p = r
    BY <1>1, <2>1 DEF Good, EditsKept, Edits
  <2>2. CASE p # r
    BY <1>1, <2>2 DEF Good, OthersStay, Stays, Edits
  <2>3. QED
    BY <2>1, <2>2
<1>2. ASSUME NEW p \in Request, Copy(p), NEW o \in Request, Copy(o)
      PROVE  SameAccount(loaded'[p], loaded'[o])
  BY <1>2 DEF SInv, OneIdentity, SameAccount
<1>3. users'[u] # NoRow => SameAccount(users'[u], loaded'[q])
  <2> SUFFICES ASSUME users'[u] # NoRow PROVE SameAccount(users'[u], loaded'[q])
    OBVIOUS
  <2>1. Copy(q)
    BY <1>1
  <2>2. CASE UNCHANGED users
    BY <2>1, <2>2 DEF SInv, OneIdentity, SameAccount
  <2>3. CASE Edits(q, u) /\ loaded'[q] = loaded[q]
    <3>1. ~(u = r /\ pc[r] = "hash")
      BY <2>3 DEF SInv, Fresh
    <3>2. CASE users[u] # NoRow /\ SameAccount(users'[u], users[u])
      BY <2>3, <3>2 DEF SInv, OneIdentity, SameAccount
    <3>3. CASE Edits(r, u) /\ SameAccount(users'[u], loaded[r])
      BY <2>3, <3>3 DEF SInv, OneIdentity, SameAccount
    <3>4. QED
      BY <3>1, <3>2, <3>3 DEF Good, UsersKept
  <2>4. QED
    BY <2>1, <2>2, <2>3
<1>4. ASSUME pc'[q] = "writeUser", seen'[q] # NoRow PROVE SameAccount(seen'[q], loaded'[q])
  <2>1. CASE q = r
    <3>1. Edits(r, u) /\ loaded'[r] = loaded[r] /\ seen'[r] = users[u]
      BY <1>4, <2>1 DEF Good, EditsKept, Edits
    <3>2. QED
      BY <1>4, <2>1, <3>1 DEF SInv, OneIdentity, SameAccount
  <2>2. CASE q # r
    BY <1>4, <2>2 DEF Good, OthersStay, Stays, Edits, SInv, OneIdentity, SameAccount
  <2>3. QED
    BY <2>1, <2>2
<1>5. QED
  BY <1>1, <1>2, <1>3, <1>4

LEMMA KeepsFresh ==
  ASSUME SInv, NEW r \in Request, Good(r)
  PROVE  Fresh'
<1>1. ASSUME NEW i \in Request, pc'[i] = "ready" PROVE projects'[i] = NoRow
  <2>1. i # r /\ pc[i] = "ready"
    BY <1>1 DEF Good, Moves, OthersStay, Stays
  <2>2. i \in Project
    BY DEF Project
  <2>3. QED
    BY <2>1, <2>2 DEF Good, ProjectsKept, SInv, Fresh
<1>2. ASSUME NEW i \in Request, pc'[i] \in {"ready", "hash"}
      PROVE  users'[i] = NoRow /\ \A q \in Request : ~Edits(q, i)'
  <2>1. pc[i] \in {"ready", "hash"} /\ (i = r => pc[i] = "ready" /\ UNCHANGED users)
    BY <1>2 DEF Good, Moves, OthersStay, Stays
  <2>2. users[i] = NoRow /\ \A q \in Request : ~Edits(q, i)
    BY <2>1 DEF SInv, Fresh
  <2>3. i \in User
    BY DEF User
  <2>4. users'[i] = NoRow
    BY <2>1, <2>2, <2>3 DEF Good, UsersKept
  <2>5. ASSUME NEW q \in Request PROVE ~Edits(q, i)'
    BY <2>2, <2>3 DEF Good, EditsKept, OthersStay, Stays, Edits
  <2>6. QED
    BY <2>4, <2>5
<1>3. QED
  BY <1>1, <1>2 DEF Fresh

LEMMA GoodStep ==
  ASSUME SInv, NEW r \in Request, Good(r)
  PROVE  SInv'
<1>1. OneIdentity' /\ Fresh'
  BY KeepsIdentity, KeepsFresh
<1>2. ASSUME NEW q \in Request PROVE Holds(q)' /\ OnProject(q)'
  <2>1. CASE q = r
    BY <2>1 DEF Good
  <2>2. CASE q # r
    BY <2>2, OthersHold DEF Good, OthersStay, SInv
  <2>3. QED
    BY <2>1, <2>2
<1>3. QED
  BY <1>1, <1>2 DEF SInv, Good

-------------------------------------------------------------------------------
(* The operators the handlers are built from.                              *)

\* The locals' half of Good.
Local(r) == /\ OthersStay(r) /\ LocalsTyped'
            /\ Holds(r)' /\ OnProject(r)' /\ EditsKept(r) /\ Moves(r)

\* The tables' half of Good.
Directory(r) == TablesTyped' /\ UsersKept(r) /\ ProjectsKept(r) /\ DirectorySound'

LEMMA Halves ==
  ASSUME NEW r \in Request, Local(r), Directory(r), AuditTyped'
  PROVE  Good(r)
BY DEF Local, Directory, Good

\* The types that have a member with no value.
LEMMA NoRows == NoRow \notin UserRow /\ NoRow \notin ProjectRow
BY IdsAssumption

LEMMA Phases == Reply \subseteq Resting /\ Resting \subseteq Phase
BY DEF Phase, Resting

\* A handler that answers holds nothing.
LEMMA AnswerLocal ==
  ASSUME LocalsTyped, NEW r \in Request, NEW reply \in Reply, Answer(r, reply)
  PROVE  Local(r) /\ pc'[r] = reply
<1>1. pc'[r] = reply
  BY DEF Answer, Goto, LocalsTyped
<1>2. OthersStay(r)
  BY DEF Answer, Goto, OthersStay, Stays, LocalsTyped
<1>3. LocalsTyped'
  BY Phases DEF Answer, Goto, LocalsTyped, Target, AnyRow
<1>4. Holds(r)' /\ OnProject(r)' /\ EditsKept(r) /\ Moves(r)
  BY <1>1 DEF Reply, Holds, OnProject, EditsKept, Moves, Editing, Renaming, Marking
<1>5. QED
  BY <1>1, <1>2, <1>3, <1>4 DEF Local

\* What the interceptor writes is a row of audit_logs.
LEMMA EntryTyped ==
  ASSUME NEW r \in Request, NEW op \in Endpoint, NEW subject \in Subject
  PROVE  EntryOf(r, op, subject) \in Entry
<1>1. Route[op][1] \in {"POST", "PATCH", "DELETE"}
  <2>1. op \in {"createUser", "updateUser", "removeUser", "login", "logout", "createProject",
                "updateProject", "removeProject", "restoreProject", "upload",
                "removeAttachment", "createTicket", "updateTicket", "removeTicket",
                "restoreTicket", "importCsv", "createComment", "updateComment",
                "removeComment", "addDependency", "removeDependency"}
    BY DEF Endpoint, Route
  <2>2. /\ Route["createUser"][1] = "POST" /\ Route["updateUser"][1] = "POST"
        /\ Route["login"][1] = "POST" /\ Route["logout"][1] = "POST"
        /\ Route["createProject"][1] = "POST" /\ Route["restoreProject"][1] = "POST"
        /\ Route["upload"][1] = "POST" /\ Route["createTicket"][1] = "POST"
        /\ Route["restoreTicket"][1] = "POST" /\ Route["importCsv"][1] = "POST"
        /\ Route["createComment"][1] = "POST" /\ Route["addDependency"][1] = "POST"
        /\ Route["updateProject"][1] = "PATCH" /\ Route["updateTicket"][1] = "PATCH"
        /\ Route["updateComment"][1] = "PATCH"
    BY DEF Route
  <2>3. /\ Route["removeUser"][1] = "DELETE" /\ Route["removeProject"][1] = "DELETE"
        /\ Route["removeAttachment"][1] = "DELETE" /\ Route["removeTicket"][1] = "DELETE"
        /\ Route["removeComment"][1] = "DELETE" /\ Route["removeDependency"][1] = "DELETE"
    BY DEF Route
  <2>4. QED
    BY <2>1, <2>2, <2>3
<1>2. Action(Route[op][1]) \in {"CREATE", "UPDATE", "DELETE"}
  BY <1>1 DEF Action
<1>3. QED
  BY <1>2 DEF EntryOf, Entry

LEMMA FailLocal ==
  ASSUME LocalsTyped, AuditTyped, NEW r \in Request, NEW reply \in Reply, Fail(r, reply)
  PROVE  Local(r) /\ AuditTyped' /\ pc'[r] = reply
BY AnswerLocal DEF Fail, AuditTyped, audit

LEMMA SucceedLocal ==
  ASSUME LocalsTyped, AuditTyped, NEW r \in Request, NEW op \in Endpoint,
         NEW subject \in Subject, Succeed(r, op, subject)
  PROVE  Local(r) /\ AuditTyped' /\ pc'[r] = "200"
<1>1. "200" \in Reply /\ Answer(r, "200")
  BY DEF Reply, Succeed
<1>2. AuditTyped'
  BY EntryTyped DEF Succeed, AuditTyped
<1>3. QED
  BY <1>1, <1>2, AnswerLocal

\* A step that leaves the tables alone.
LEMMA SameTables ==
  ASSUME SInv, NEW r \in Request, UNCHANGED <<tables, files, session, crashes, history>>
  PROVE  Directory(r)
<1>1. TablesTyped'
  BY DEF SInv, TablesTyped, tables, files, session, history
<1>2. UsersKept(r) /\ ProjectsKept(r)
  BY DEF UsersKept, ProjectsKept, SameAccount, tables
<1>3. DirectorySound'
  BY DEF SInv, DirectorySound, Unique, tables
<1>4. QED
  BY <1>1, <1>2, <1>3 DEF Directory

\* A call that fails before it has changed anything.
LEMMA FailGood ==
  ASSUME SInv, NEW r \in Request, NEW reply \in Reply, Fail(r, reply),
         UNCHANGED <<tables, files, session, crashes, history>>
  PROVE  Good(r)
BY FailLocal, SameTables, Halves DEF SInv

\* A handler that goes on.
LEMMA ContinueTyped ==
  ASSUME SInv, NEW r \in Request, NEW phase \in Phase, Continue(r, phase)
  PROVE  /\ AuditTyped' /\ pc' \in [Request -> Phase] /\ pc'[r] = phase
         /\ \A q \in Request \ {r} : pc'[q] = pc[q]
BY DEF Continue, Goto, SInv, AuditTyped, audit, LocalsTyped

LEMMA PhaseNames ==
  {"hash", "reloadUser", "writeUser", "deleteUser", "compare", "reloadProject", "writeProject",
   "softRemove", "undelete", "reread", "lookup", "insertFile", "deleteRow", "written"} \subseteq Phase
BY DEF Phase

-------------------------------------------------------------------------------
(* Accounts                                                                *)

LEMMA FindTakenGood ==
  ASSUME SInv, NEW r \in Request, FindTaken(r)
  PROVE  Good(r)
<1>1. PICK dto \in CreateUserDtos :
        \/ Fail(r, "409")
        \/ body' = [body EXCEPT ![r] = dto] /\ Continue(r, "hash") /\ UNCHANGED <<target, loaded, seen>>
  BY DEF FindTaken
<1>2. UNCHANGED <<tables, files, session, crashes, history>> /\ pc[r] = "ready"
  BY DEF FindTaken, Call
<1>3. CASE Fail(r, "409")
  BY <1>2, <1>3, FailGood DEF Reply
<1>4. CASE body' = [body EXCEPT ![r] = dto] /\ Continue(r, "hash") /\ UNCHANGED <<target, loaded, seen>>
  <2>1. dto \in UserRow
    BY BodiesAssumption
  <2>2. /\ AuditTyped' /\ pc' \in [Request -> Phase] /\ pc'[r] = "hash"
        /\ \A q \in Request \ {r} : pc'[q] = pc[q]
    BY <1>4, ContinueTyped, PhaseNames
  <2>3. OthersStay(r) /\ LocalsTyped'
    BY <1>4, <2>1, <2>2 DEF OthersStay, Stays, SInv, LocalsTyped, Body
  <2>4. body'[r] = dto
    BY <1>4 DEF SInv, LocalsTyped
  <2>5. Holds(r)' /\ OnProject(r)' /\ EditsKept(r) /\ Moves(r)
    BY <1>2, <2>1, <2>2, <2>4 DEF Holds, OnProject, EditsKept, Moves, Editing, Renaming, Marking, tables
  <2>6. QED
    BY <1>2, <2>2, <2>3, <2>5, SameTables, Halves DEF Local
<1>5. QED
  BY <1>1, <1>3, <1>4

LEMMA FindForUpdateGood ==
  ASSUME SInv, NEW r \in Request, FindForUpdate(r)
  PROVE  Good(r)
<1>1. PICK u \in User, dto \in UpdateUserDtos :
        \/ Fail(r, "404")
        \/ /\ users[u] # NoRow
           /\ target' = [target EXCEPT ![r] = u]
           /\ body'   = [body EXCEPT ![r] = dto]
           /\ loaded' = [loaded EXCEPT ![r] = users[u]]
           /\ Continue(r, "reloadUser")
           /\ UNCHANGED seen
  BY DEF FindForUpdate
<1>2. UNCHANGED <<tables, files, session, crashes, history>> /\ pc[r] = "ready"
  BY DEF FindForUpdate, Call
<1>3. CASE Fail(r, "404")
  BY <1>2, <1>3, FailGood DEF Reply
<1>4. CASE ~Fail(r, "404")
  <2>1. dto \in UpdateUserDto /\ users[u] \in UserRow
    BY <1>1, <1>4, BodiesAssumption DEF SInv, TablesTyped
  <2>2. /\ AuditTyped' /\ pc' \in [Request -> Phase] /\ pc'[r] = "reloadUser"
        /\ \A q \in Request \ {r} : pc'[q] = pc[q]
    BY <1>1, <1>4, ContinueTyped, PhaseNames
  <2>3. target'[r] = u /\ body'[r] = dto /\ loaded'[r] = users[u]
    BY <1>1, <1>4 DEF SInv, LocalsTyped
  <2>4. OthersStay(r) /\ LocalsTyped'
    BY <1>1, <1>4, <2>1, <2>2 DEF OthersStay, Stays, SInv, LocalsTyped, Body, AnyRow, Target
  <2>5. Holds(r)' /\ OnProject(r)' /\ EditsKept(r) /\ Moves(r)
    BY <1>1, <1>2, <1>4, <2>1, <2>2, <2>3
    DEF Holds, OnProject, EditsKept, Moves, Editing, Renaming, Marking, tables
  <2>6. QED
    BY <1>2, <2>2, <2>4, <2>5, SameTables, Halves DEF Local
<1>5. QED
  BY <1>3, <1>4

LEMMA ReloadUserGood ==
  ASSUME SInv, NEW r \in Request, ReloadUser(r)
  PROVE  Good(r)
<1> DEFINE u == target[r]
<1>1. UNCHANGED <<tables, files, session, crashes, history>> /\ pc[r] = "reloadUser"
  BY DEF ReloadUser
<1>2. u \in User /\ loaded[r] \in UserRow /\ body[r] \in UpdateUserDto
  BY <1>1 DEF SInv, Holds, Editing
<1>3. users[u] \in UserRow \cup {NoRow}
  BY <1>2 DEF SInv, TablesTyped
<1>4. /\ AuditTyped' /\ pc' \in [Request -> Phase] /\ pc'[r] = "writeUser"
      /\ \A q \in Request \ {r} : pc'[q] = pc[q]
  BY ContinueTyped, PhaseNames DEF ReloadUser
<1>5. seen' = [seen EXCEPT ![r] = users[u]] /\ UNCHANGED <<target, body, loaded>>
  BY DEF ReloadUser
<1>6. OthersStay(r) /\ LocalsTyped' /\ seen'[r] = users[u]
  BY <1>3, <1>4, <1>5 DEF OthersStay, Stays, SInv, LocalsTyped, AnyRow
<1>7. Holds(r)' /\ OnProject(r)' /\ EditsKept(r) /\ Moves(r)
  BY <1>1, <1>2, <1>3, <1>4, <1>5, <1>6
  DEF Holds, OnProject, EditsKept, Moves, Edits, Editing, Renaming, Marking, tables
<1>8. QED
  BY <1>1, <1>4, <1>6, <1>7, SameTables, Halves DEF Local

\* The entity of an edit is a row with the name and the address it was loaded with.
LEMMA AmendedRow ==
  ASSUME NEW row \in UserRow, NEW dto \in UpdateUserDto
  PROVE  Amended(row, dto) \in UserRow /\ SameAccount(Amended(row, dto), row)
<1>1. Given(dto.fullName, row.fullName) \in Text /\ Given(dto.role, row.role) \in Role
  BY DEF Given, UpdateUserDto, UserRow
<1>2. QED
  BY <1>1 DEF Amended, UserRow, SameAccount

\* The UPDATE of save() writes a row and leaves name and address as they are.
LEMMA MergedUserRow ==
  ASSUME NEW entity \in UserRow, NEW reloaded \in UserRow, NEW current \in UserRow,
         SameAccount(entity, reloaded)
  PROVE  /\ MergedUser(entity, reloaded, current) \in UserRow
         /\ SameAccount(MergedUser(entity, reloaded, current), current)
<1>1. current # NoRow
  BY NoRows
<1>2. /\ Column(entity.username, reloaded.username, current.username) = current.username
      /\ Column(entity.email, reloaded.email, current.email) = current.email
      /\ Column(entity.fullName, reloaded.fullName, current.fullName) \in Text
      /\ Column(entity.role, reloaded.role, current.role) \in Role
  BY DEF Column, SameAccount, UserRow
<1>3. QED
  BY <1>1, <1>2 DEF MergedUser, UserRow, SameAccount

\* An INSERT the unique constraints admit.
LEMMA InsertKeepsUnique ==
  ASSUME SInv, NEW u \in User, NEW row \in UserRow, ~Taken(row),
         users' = [users EXCEPT ![u] = row], UNCHANGED projects
  PROVE  DirectorySound'
<1>1. users'[u] = row /\ \A v \in User \ {u} : users'[v] = users[v]
  BY DEF SInv, TablesTyped
<1>2. \A v \in User : users[v] # NoRow =>
        users[v].username # row.username /\ users[v].email # row.email
  BY DEF Taken, Registered
<1>3. Unique(users)'
  BY <1>1, <1>2 DEF SInv, DirectorySound, Unique
<1>4. \A p \in Project : projects[p] # NoRow => projects[p].owner \in User
  BY DEF SInv, TablesTyped, ProjectRow
<1>5. \A p \in Project : projects'[p] # NoRow => users'[projects'[p].owner] # NoRow
  BY <1>1, <1>4, NoRows DEF SInv, DirectorySound
<1>6. QED
  BY <1>3, <1>5 DEF DirectorySound

\* An UPDATE that keeps name and address.
LEMMA UpdateKeepsUnique ==
  ASSUME SInv, NEW u \in User, NEW row, UNCHANGED projects,
         users' = [users EXCEPT ![u] = row],
         row = NoRow <=> users[u] = NoRow,
         users[u] # NoRow => SameAccount(row, users[u])
  PROVE  DirectorySound'
<1>1. users'[u] = row /\ \A v \in User \ {u} : users'[v] = users[v]
  BY DEF SInv, TablesTyped
<1>2. Unique(users)'
  BY <1>1 DEF SInv, DirectorySound, Unique, SameAccount
<1>3. \A p \in Project : projects[p] # NoRow => projects[p].owner \in User
  BY DEF SInv, TablesTyped, ProjectRow
<1>4. \A p \in Project : projects'[p] # NoRow => users'[projects'[p].owner] # NoRow
  BY <1>1, <1>3 DEF SInv, DirectorySound
<1>5. QED
  BY <1>2, <1>4 DEF DirectorySound

\* A step on the table of users.
LEMMA UsersTyped ==
  ASSUME SInv, NEW r \in Request, NEW op \in Endpoint, NEW u \in User,
         NEW row \in UserRow \cup {NoRow},
         users' = [users EXCEPT ![u] = row], Change(r, op),
         UNCHANGED <<projects, attachments, files, session, crashes>>
  PROVE  TablesTyped' /\ ProjectsKept(r)
BY DEF SInv, TablesTyped, ProjectsKept, Change, files, session

LEMMA InsertUserGood ==
  ASSUME SInv, NEW r \in Request, InsertUser(r)
  PROVE  Good(r)
<1>1. /\ pc[r] = "hash" /\ body[r] \in UserRow /\ r \in User
      /\ UNCHANGED <<projects, attachments, files, session, crashes>>
  BY DEF InsertUser, SInv, Holds, User
<1>2. CASE Fail(r, "500") /\ UNCHANGED <<users, history>>
  BY <1>1, <1>2, FailGood DEF Reply, tables
<1>3. CASE /\ ~Taken(body[r])
           /\ users' = [users EXCEPT ![r] = body[r]]
           /\ Succeed(r, "createUser", r)
           /\ Change(r, "createUser")
  <2>1. "createUser" \in Endpoint /\ r \in Subject
    BY DEF Endpoint, Route, Subject, User
  <2>2. Local(r) /\ AuditTyped'
    BY <1>3, <2>1, SucceedLocal DEF SInv
  <2>3. TablesTyped' /\ ProjectsKept(r)
    BY <1>1, <1>3, <2>1, UsersTyped
  <2>4. DirectorySound'
    BY <1>1, <1>3, InsertKeepsUnique
  <2>5. UsersKept(r)
    BY <1>1, <1>3 DEF UsersKept, SInv, TablesTyped, SameAccount
  <2>6. QED
    BY <2>2, <2>3, <2>4, <2>5, Halves DEF Directory
<1>4. QED
  BY <1>2, <1>3 DEF InsertUser

LEMMA SaveUserGood ==
  ASSUME SInv, NEW r \in Request, SaveUser(r)
  PROVE  Good(r)
<1> DEFINE u == target[r]
           entity == Amended(loaded[r], body[r])
<1>1. /\ pc[r] = "writeUser" /\ u \in User /\ Edits(r, u)
      /\ loaded[r] \in UserRow /\ body[r] \in UpdateUserDto /\ seen[r] \in UserRow \cup {NoRow}
      /\ UNCHANGED <<projects, attachments, files, session, crashes>>
  BY DEF SaveUser, SInv, Holds, Editing, Edits
<1>2. entity \in UserRow /\ SameAccount(entity, loaded[r])
  BY <1>1, AmendedRow
<1>3. "updateUser" \in Endpoint /\ u \in Subject /\ users[u] \in UserRow \cup {NoRow}
  BY <1>1 DEF Endpoint, Route, Subject, SInv, TablesTyped
<1>4. CASE Fail(r, "500") /\ UNCHANGED <<users, history>>
  BY <1>1, <1>4, FailGood DEF Reply, tables
<1>5. CASE /\ seen[r] = NoRow /\ users[u] = NoRow /\ ~Taken(entity)
           /\ users' = [users EXCEPT ![u] = entity]
           /\ Succeed(r, "updateUser", u) /\ Change(r, "updateUser")
  <2>1. Local(r) /\ AuditTyped'
    BY <1>3, <1>5, SucceedLocal DEF SInv
  <2>2. TablesTyped' /\ ProjectsKept(r)
    BY <1>1, <1>2, <1>3, <1>5, UsersTyped
  <2>3. DirectorySound'
    BY <1>1, <1>2, <1>5, InsertKeepsUnique
  <2>4. UsersKept(r)
    BY <1>1, <1>2, <1>5 DEF UsersKept, SInv, TablesTyped, SameAccount
  <2>5. QED
    BY <2>1, <2>2, <2>3, <2>4, Halves DEF Directory
<1>6. CASE /\ seen[r] # NoRow
           /\ users' = [users EXCEPT ![u] = MergedUser(entity, seen[r], @)]
           /\ Succeed(r, "updateUser", u) /\ Change(r, "updateUser")
  <2> DEFINE row == MergedUser(entity, seen[r], users[u])
  <2>1. SameAccount(entity, seen[r]) /\ seen[r] \in UserRow
    BY <1>1, <1>2, <1>6 DEF SInv, OneIdentity, SameAccount
  <2>2. /\ row \in UserRow \cup {NoRow} /\ (row = NoRow <=> users[u] = NoRow)
        /\ users[u] # NoRow => SameAccount(row, users[u])
    <3>1. CASE users[u] = NoRow
      BY <3>1 DEF MergedUser
    <3>2. CASE users[u] \in UserRow
      BY <1>2, <2>1, <3>2, MergedUserRow, NoRows
    <3>3. QED
      BY <1>3, <3>1, <3>2
  <2>3. users' = [users EXCEPT ![u] = row]
    BY <1>6
  <2> HIDE DEF row
  <2>4. Local(r) /\ AuditTyped'
    BY <1>3, <1>6, SucceedLocal DEF SInv
  <2>5. TablesTyped' /\ ProjectsKept(r)
    BY <1>1, <1>3, <1>6, <2>2, <2>3, UsersTyped
  <2>6. DirectorySound'
    BY <1>1, <2>2, <2>3, UpdateKeepsUnique
  <2>7. UsersKept(r)
    BY <1>1, <2>2, <2>3 DEF UsersKept, SInv, TablesTyped, SameAccount
  <2>8. QED
    BY <2>4, <2>5, <2>6, <2>7, Halves DEF Directory
<1>7. QED
  BY <1>4, <1>5, <1>6 DEF SaveUser

LEMMA FindForRemoveGood ==
  ASSUME SInv, NEW r \in Request, FindForRemove(r)
  PROVE  Good(r)
<1>1. PICK u \in User :
        \/ Fail(r, "404")
        \/ /\ target' = [target EXCEPT ![r] = u]
           /\ Continue(r, "deleteUser")
           /\ UNCHANGED <<body, loaded, seen>>
  BY DEF FindForRemove
<1>2. UNCHANGED <<tables, files, session, crashes, history>> /\ pc[r] = "ready"
  BY DEF FindForRemove, Call
<1>3. CASE Fail(r, "404")
  BY <1>2, <1>3, FailGood DEF Reply
<1>4. CASE ~Fail(r, "404")
  <2>1. /\ AuditTyped' /\ pc' \in [Request -> Phase] /\ pc'[r] = "deleteUser"
        /\ \A q \in Request \ {r} : pc'[q] = pc[q]
    BY <1>1, <1>4, ContinueTyped, PhaseNames
  <2>2. OthersStay(r) /\ LocalsTyped' /\ target'[r] = u
    BY <1>1, <1>4, <2>1 DEF OthersStay, Stays, SInv, LocalsTyped, Target
  <2>3. Holds(r)' /\ OnProject(r)' /\ EditsKept(r) /\ Moves(r)
    BY <2>1, <2>2 DEF Holds, OnProject, EditsKept, Moves, Editing, Renaming, Marking
  <2>4. QED
    BY <1>2, <2>1, <2>2, <2>3, SameTables, Halves DEF Local
<1>5. QED
  BY <1>3, <1>4

LEMMA DeleteUserGood ==
  ASSUME SInv, NEW r \in Request, DeleteUser(r)
  PROVE  Good(r)
<1> DEFINE u == target[r]
<1>1. /\ pc[r] = "deleteUser" /\ u \in User
      /\ UNCHANGED <<projects, attachments, files, session, crashes>>
  BY DEF DeleteUser, SInv, Holds
<1>2. CASE Fail(r, "500") /\ UNCHANGED <<users, history>>
  BY <1>1, <1>2, FailGood DEF Reply, tables
<1>3. CASE /\ users[u] = NoRow \/ ~InUse(u)
           /\ users' = [users EXCEPT ![u] = NoRow]
           /\ Succeed(r, "removeUser", u) /\ Change(r, "removeUser")
  <2>1. "removeUser" \in Endpoint /\ u \in Subject
    BY <1>1 DEF Endpoint, Route, Subject
  <2>2. Local(r) /\ AuditTyped'
    BY <1>3, <2>1, SucceedLocal DEF SInv
  <2>3. TablesTyped' /\ ProjectsKept(r)
    BY <1>1, <1>3, <2>1, UsersTyped
  <2>4. users'[u] = NoRow /\ \A v \in User \ {u} : users'[v] = users[v]
    BY <1>1, <1>3 DEF SInv, TablesTyped
  <2>5. Unique(users)'
    BY <2>4 DEF SInv, DirectorySound, Unique
  <2>6. \A p \in Project : projects[p] # NoRow =>
          projects[p].owner \in User /\ users[projects[p].owner] # NoRow
    BY DEF SInv, DirectorySound, TablesTyped, ProjectRow
  <2>7. \A p \in Project : projects[p] # NoRow => projects[p].owner # u
    BY <1>3, <2>6 DEF InUse
  <2>8. DirectorySound'
    BY <1>1, <2>4, <2>5, <2>6, <2>7 DEF DirectorySound
  <2>9. UsersKept(r)
    BY <2>4 DEF UsersKept, SameAccount
  <2>10. QED
    BY <2>2, <2>3, <2>8, <2>9, Halves DEF Directory
<1>4. QED
  BY <1>2, <1>3 DEF DeleteUser

LEMMA FindCredentialsGood ==
  ASSUME SInv, NEW r \in Request, FindCredentials(r)
  PROVE  Good(r)
<1>1. PICK name \in Name :
        \/ Fail(r, "401")
        \/ /\ \E u \in Named(name) : loaded' = [loaded EXCEPT ![r] = users[u]]
           /\ Continue(r, "compare")
           /\ UNCHANGED <<target, body, seen>>
  BY DEF FindCredentials
<1>2. UNCHANGED <<tables, files, session, crashes, history>> /\ pc[r] = "ready"
  BY DEF FindCredentials, Call
<1>3. CASE Fail(r, "401")
  BY <1>2, <1>3, FailGood DEF Reply
<1>4. CASE ~Fail(r, "401")
  <2>1. PICK u \in Named(name) : loaded' = [loaded EXCEPT ![r] = users[u]]
    BY <1>1, <1>4
  <2>2. users[u] \in UserRow
    BY DEF Named, Registered, SInv, TablesTyped
  <2>3. /\ AuditTyped' /\ pc' \in [Request -> Phase] /\ pc'[r] = "compare"
        /\ \A q \in Request \ {r} : pc'[q] = pc[q]
    BY <1>1, <1>4, ContinueTyped, PhaseNames
  <2>4. OthersStay(r) /\ LocalsTyped' /\ loaded'[r] = users[u]
    BY <1>1, <1>4, <2>1, <2>2, <2>3 DEF OthersStay, Stays, SInv, LocalsTyped, AnyRow
  <2>5. Holds(r)' /\ OnProject(r)' /\ EditsKept(r) /\ Moves(r)
    BY <2>2, <2>3, <2>4 DEF Holds, OnProject, EditsKept, Moves, Editing, Renaming, Marking
  <2>6. QED
    BY <1>2, <2>3, <2>4, <2>5, SameTables, Halves DEF Local
<1>5. QED
  BY <1>3, <1>4

\* A step on the deny-list or on the tokens.
LEMMA SessionTables ==
  ASSUME SInv, NEW r \in Request, UNCHANGED <<tables, files, crashes, history>>,
         revoked' \in SUBSET Token, claims' \in [Token -> Role \cup {NoRow}]
  PROVE  Directory(r)
<1>1. TablesTyped'
  BY DEF SInv, TablesTyped, tables, files, history
<1>2. UsersKept(r) /\ ProjectsKept(r)
  BY DEF UsersKept, ProjectsKept, SameAccount, tables
<1>3. DirectorySound'
  BY DEF SInv, DirectorySound, Unique, tables
<1>4. QED
  BY <1>1, <1>2, <1>3 DEF Directory

LEMMA SignTokenGood ==
  ASSUME SInv, NEW r \in Request, SignToken(r)
  PROVE  Good(r)
<1>1. pc[r] = "compare" /\ UNCHANGED <<tables, files, revoked, crashes, history>>
  BY DEF SignToken
<1>2. CASE Fail(r, "401") /\ UNCHANGED claims
  BY <1>1, <1>2, FailGood DEF Reply, session
<1>3. CASE Succeed(r, "login", NoId) /\ claims' = [claims EXCEPT ![r] = loaded[r].role]
  <2>1. loaded[r].role \in Role
    BY <1>1 DEF SInv, Holds, UserRow
  <2>2. revoked' \in SUBSET Token /\ claims' \in [Token -> Role \cup {NoRow}]
    BY <1>1, <1>3, <2>1 DEF SInv, TablesTyped
  <2>3. Directory(r)
    BY <1>1, <2>2, SessionTables
  <2>4. ~Logged("login")
    BY DEF Logged, Route
  <2>5. AuditTyped' /\ Answer(r, "200")
    BY <1>3, <2>4 DEF Succeed, SInv, AuditTyped
  <2>6. Local(r)
    BY <2>5, AnswerLocal DEF SInv, Reply
  <2>7. QED
    BY <2>3, <2>5, <2>6, Halves
<1>4. QED
  BY <1>2, <1>3 DEF SignToken

LEMMA LogoutGood ==
  ASSUME SInv, NEW r \in Request, Logout(r)
  PROVE  Good(r)
<1>1. revoked' \in SUBSET Token /\ claims' \in [Token -> Role \cup {NoRow}]
  BY DEF Logout, SInv, TablesTyped
<1>2. Directory(r)
  BY <1>1, SessionTables DEF Logout
<1>3. ~Logged("logout")
  BY DEF Logged, Route
<1>4. AuditTyped' /\ Answer(r, "200")
  BY <1>3 DEF Logout, Succeed, SInv, AuditTyped
<1>5. Local(r)
  BY <1>4, AnswerLocal DEF SInv, Reply
<1>6. QED
  BY <1>2, <1>4, <1>5, Halves

-------------------------------------------------------------------------------
(* Projects                                                                *)

\* A step on one row of the table of projects that keeps the row and its owner.
LEMMA ProjectWrite ==
  ASSUME SInv, NEW r \in Request, NEW op \in Endpoint, NEW p \in Project, NEW row \in ProjectRow,
         projects[p] # NoRow, row.owner = projects[p].owner,
         projects' = [projects EXCEPT ![p] = row], Change(r, op),
         UNCHANGED <<users, attachments, files, session, crashes>>
  PROVE  Directory(r)
<1>1. TablesTyped'
  BY DEF SInv, TablesTyped, Change, files, session
<1>2. projects'[p] = row /\ \A q \in Project \ {p} : projects'[q] = projects[q]
  BY DEF SInv, TablesTyped
<1>3. ProjectsKept(r)
  BY <1>2, NoRows DEF ProjectsKept
<1>4. UsersKept(r)
  BY DEF UsersKept, SameAccount
<1>5. DirectorySound'
  BY <1>2 DEF SInv, DirectorySound, Unique
<1>6. QED
  BY <1>1, <1>3, <1>4, <1>5 DEF Directory

LEMMA CreateProjectGood ==
  ASSUME SInv, NEW r \in Request, CreateProject(r)
  PROVE  Good(r)
<1>1. PICK owner \in User \cup {Elsewhere}, name \in Text :
        \/ /\ owner \notin Registered
           /\ Fail(r, "500") /\ UNCHANGED <<projects, history>>
        \/ /\ owner \in Registered
           /\ projects' = [projects EXCEPT ![r] =
                [name |-> name, owner |-> owner, deleted |-> FALSE]]
           /\ Succeed(r, "createProject", r) /\ Change(r, "createProject")
  BY DEF CreateProject
<1>2. UNCHANGED <<users, attachments, files, session, crashes>> /\ pc[r] = "ready"
  BY DEF CreateProject, Call
<1>3. CASE Fail(r, "500") /\ UNCHANGED <<projects, history>>
  BY <1>2, <1>3, FailGood DEF Reply, tables
<1>4. CASE /\ owner \in Registered
           /\ projects' = [projects EXCEPT ![r] =
                [name |-> name, owner |-> owner, deleted |-> FALSE]]
           /\ Succeed(r, "createProject", r) /\ Change(r, "createProject")
  <2> DEFINE row == [name |-> name, owner |-> owner, deleted |-> FALSE]
  <2>1. /\ "createProject" \in Endpoint /\ r \in Subject /\ r \in Project
        /\ owner \in User /\ users[owner] # NoRow
    BY <1>4 DEF Endpoint, Route, Subject, Project, Registered
  <2>2. row \in ProjectRow /\ row.owner = owner
    BY <2>1 DEF ProjectRow
  <2>3. projects[r] = NoRow
    BY <1>2 DEF SInv, Fresh
  <2> HIDE DEF row
  <2>4. projects' = [projects EXCEPT ![r] = row]
    BY <1>4 DEF row
  <2>5. projects'[r] = row /\ \A q \in Project \ {r} : projects'[q] = projects[q]
    BY <2>1, <2>4 DEF SInv, TablesTyped
  <2>6. TablesTyped'
    <3>1. projects' \in [Project -> ProjectRow \cup {NoRow}]
      BY <2>1, <2>2, <2>4 DEF SInv, TablesTyped
    <3>2. changed' \in SUBSET (Request \X Endpoint) /\ UNCHANGED torn
      BY <1>4, <2>1 DEF SInv, TablesTyped, Change
    <3>3. QED
      BY <1>2, <3>1, <3>2 DEF SInv, TablesTyped, files, session
  <2>7. ProjectsKept(r)
    BY <1>2, <2>3, <2>5 DEF ProjectsKept
  <2>8. UsersKept(r)
    BY <1>2 DEF UsersKept, SameAccount
  <2>9. DirectorySound'
    BY <1>2, <2>1, <2>2, <2>5 DEF SInv, DirectorySound, Unique
  <2>10. Local(r) /\ AuditTyped'
    BY <1>4, <2>1, SucceedLocal DEF SInv
  <2>11. QED
    BY <2>6, <2>7, <2>8, <2>9, <2>10, Halves DEF Directory
<1>5. QED
  BY <1>1, <1>3, <1>4

LEMMA FindProjectGood ==
  ASSUME SInv, NEW r \in Request, FindProject(r)
  PROVE  Good(r)
<1>1. PICK p \in Project, dto \in UpdateProjectDtos :
        \/ Fail(r, "404")
        \/ /\ FindableProject(p)
           /\ target' = [target EXCEPT ![r] = p]
           /\ body'   = [body EXCEPT ![r] = dto]
           /\ loaded' = [loaded EXCEPT ![r] = projects[p]]
           /\ Continue(r, "reloadProject")
           /\ UNCHANGED seen
  BY DEF FindProject
<1>2. UNCHANGED <<tables, files, session, crashes, history>> /\ pc[r] = "ready"
  BY DEF FindProject, Call
<1>3. CASE Fail(r, "404")
  BY <1>2, <1>3, FailGood DEF Reply
<1>4. CASE ~Fail(r, "404")
  <2>1. dto \in UpdateProjectDto /\ projects[p] # NoRow /\ projects[p] \in ProjectRow
    BY <1>1, <1>4, BodiesAssumption DEF FindableProject, SInv, TablesTyped
  <2>2. /\ AuditTyped' /\ pc' \in [Request -> Phase] /\ pc'[r] = "reloadProject"
        /\ \A q \in Request \ {r} : pc'[q] = pc[q]
    BY <1>1, <1>4, ContinueTyped, PhaseNames
  <2>3. target'[r] = p /\ body'[r] = dto /\ loaded'[r] = projects[p]
    BY <1>1, <1>4 DEF SInv, LocalsTyped
  <2>4. OthersStay(r) /\ LocalsTyped'
    BY <1>1, <1>4, <2>1, <2>2 DEF OthersStay, Stays, SInv, LocalsTyped, Body, AnyRow, Target
  <2>5. Holds(r)' /\ EditsKept(r) /\ Moves(r)
    BY <2>1, <2>2, <2>3 DEF Holds, EditsKept, Moves, Editing, Renaming, Marking
  <2>6. OnProject(r)'
    BY <1>2, <2>1, <2>3 DEF OnProject, tables
  <2>7. QED
    BY <1>2, <2>2, <2>4, <2>5, <2>6, SameTables, Halves DEF Local
<1>5. QED
  BY <1>3, <1>4

LEMMA ReloadProjectGood ==
  ASSUME SInv, NEW r \in Request, ReloadProject(r)
  PROVE  Good(r)
<1> DEFINE p == target[r]
<1>1. UNCHANGED <<tables, files, session, crashes, history>> /\ pc[r] = "reloadProject"
  BY DEF ReloadProject
<1>2. /\ p \in Project /\ loaded[r] \in ProjectRow /\ body[r] \in UpdateProjectDto
      /\ projects[p] # NoRow /\ projects[p].owner = loaded[r].owner
  BY <1>1 DEF SInv, Holds, OnProject, Renaming
<1>3. projects[p] \in ProjectRow
  BY <1>2 DEF SInv, TablesTyped
<1>4. /\ AuditTyped' /\ pc' \in [Request -> Phase] /\ pc'[r] = "writeProject"
      /\ \A q \in Request \ {r} : pc'[q] = pc[q]
  BY ContinueTyped, PhaseNames DEF ReloadProject
<1>5. seen' = [seen EXCEPT ![r] = projects[p]] /\ UNCHANGED <<target, body, loaded>>
  BY DEF ReloadProject
<1>6. OthersStay(r) /\ LocalsTyped' /\ seen'[r] = projects[p]
  BY <1>3, <1>4, <1>5 DEF OthersStay, Stays, SInv, LocalsTyped, AnyRow
<1>7. Holds(r)' /\ OnProject(r)' /\ EditsKept(r) /\ Moves(r)
  BY <1>1, <1>2, <1>3, <1>4, <1>5, <1>6
  DEF Holds, OnProject, EditsKept, Moves, Editing, Renaming, Marking, tables
<1>8. QED
  BY <1>1, <1>4, <1>6, <1>7, SameTables, Halves DEF Local

LEMMA RenamedRow ==
  ASSUME NEW row \in ProjectRow, NEW dto \in UpdateProjectDto
  PROVE  /\ Renamed(row, dto) \in ProjectRow
         /\ Renamed(row, dto).owner = row.owner /\ Renamed(row, dto).deleted = row.deleted
         /\ Renamed(row, dto).name = Given(dto.name, row.name)
<1>1. Given(dto.name, row.name) \in Text
  BY DEF Given, UpdateProjectDto, ProjectRow
<1>2. QED
  BY <1>1 DEF Renamed, ProjectRow

\* The UPDATE of save() writes a row and leaves the owner as it is.
LEMMA MergedProjectRow ==
  ASSUME NEW entity \in ProjectRow, NEW reloaded \in ProjectRow, NEW current \in ProjectRow,
         entity.owner = reloaded.owner
  PROVE  /\ MergedProject(entity, reloaded, current) \in ProjectRow
         /\ MergedProject(entity, reloaded, current).owner = current.owner
<1>1. /\ Column(entity.name, reloaded.name, current.name) \in Text
      /\ Column(entity.owner, reloaded.owner, current.owner) = current.owner
      /\ Column(entity.deleted, reloaded.deleted, current.deleted) \in BOOLEAN
  BY DEF Column, ProjectRow
<1>2. current.owner \in User
  BY DEF ProjectRow
<1>3. QED
  BY <1>1, <1>2 DEF MergedProject, ProjectRow

LEMMA SaveProjectGood ==
  ASSUME SInv, NEW r \in Request, SaveProject(r)
  PROVE  Good(r)
<1> DEFINE p == target[r]
           entity == Renamed(loaded[r], body[r])
           row == MergedProject(entity, seen[r], projects[p])
<1>1. /\ pc[r] = "writeProject"
      /\ UNCHANGED <<users, attachments, files, session, crashes>>
      /\ Succeed(r, "updateProject", p) /\ Change(r, "updateProject")
  BY DEF SaveProject
<1>2. /\ p \in Project /\ loaded[r] \in ProjectRow /\ body[r] \in UpdateProjectDto
      /\ seen[r] \in ProjectRow /\ seen[r].owner = loaded[r].owner
      /\ projects[p] # NoRow
  BY <1>1 DEF SInv, Holds, OnProject, Renaming
<1>3. projects[p] \in ProjectRow
  BY <1>2 DEF SInv, TablesTyped
<1>4. entity \in ProjectRow /\ entity.owner = seen[r].owner
  BY <1>2, RenamedRow
<1>5. row \in ProjectRow /\ row.owner = projects[p].owner
  BY <1>2, <1>3, <1>4, MergedProjectRow
<1>6. projects' = [projects EXCEPT ![p] = row]
  BY DEF SaveProject
<1> HIDE DEF row
<1>7. "updateProject" \in Endpoint /\ p \in Subject
  BY <1>2 DEF Endpoint, Route, Subject
<1>8. Directory(r)
  BY <1>1, <1>2, <1>5, <1>6, <1>7, ProjectWrite
<1>9. Local(r) /\ AuditTyped'
  BY <1>1, <1>7, SucceedLocal DEF SInv
<1>10. QED
  BY <1>8, <1>9, Halves

\* The UPDATE of softRemove and restore.
LEMMA MarkDirectory ==
  ASSUME SInv, NEW r \in Request, NEW op \in Endpoint, NEW flag \in BOOLEAN,
         NEW p \in Project, projects[p] # NoRow, MarkProject(p, flag), Change(r, op),
         UNCHANGED <<users, attachments, files, session, crashes>>
  PROVE  Directory(r)
<1> DEFINE row == [projects[p] EXCEPT !.deleted = flag]
<1>1. projects[p] \in ProjectRow
  BY DEF SInv, TablesTyped
<1>2. row \in ProjectRow /\ row.owner = projects[p].owner
  BY <1>1 DEF ProjectRow
<1>3. projects' = [projects EXCEPT ![p] = row]
  BY DEF MarkProject
<1> HIDE DEF row
<1>4. QED
  BY <1>2, <1>3, ProjectWrite

\* A call that has found the project it is to mark.
LEMMA FoundProject ==
  ASSUME SInv, NEW r \in Request, NEW p \in Project, projects[p] # NoRow,
         NEW phase \in Marking, Continue(r, phase), target' = [target EXCEPT ![r] = p],
         UNCHANGED <<body, loaded, seen>>, UNCHANGED <<tables, files, session, crashes, history>>
  PROVE  Good(r)
<1>1. /\ AuditTyped' /\ pc' \in [Request -> Phase] /\ pc'[r] = phase
      /\ \A q \in Request \ {r} : pc'[q] = pc[q]
  BY ContinueTyped, PhaseNames DEF Marking
<1>2. OthersStay(r) /\ LocalsTyped' /\ target'[r] = p
  BY <1>1 DEF OthersStay, Stays, SInv, LocalsTyped, Target
<1>3. Holds(r)' /\ EditsKept(r) /\ Moves(r)
  BY <1>1, <1>2 DEF Holds, EditsKept, Moves, Editing, Renaming, Marking
<1>4. OnProject(r)'
  BY <1>1, <1>2 DEF OnProject, tables, Renaming, Marking
<1>5. QED
  BY <1>1, <1>2, <1>3, <1>4, SameTables, Halves DEF Local

LEMMA FindToRemoveGood ==
  ASSUME SInv, NEW r \in Request, FindToRemove(r)
  PROVE  Good(r)
<1>1. PICK p \in Project :
        \/ Fail(r, "404")
        \/ /\ FindableProject(p)
           /\ target' = [target EXCEPT ![r] = p]
           /\ Continue(r, "softRemove")
           /\ UNCHANGED <<body, loaded, seen>>
  BY DEF FindToRemove
<1>2. UNCHANGED <<tables, files, session, crashes, history>>
  BY DEF FindToRemove
<1>3. CASE Fail(r, "404")
  BY <1>2, <1>3, FailGood DEF Reply
<1>4. CASE ~Fail(r, "404")
  BY <1>1, <1>2, <1>4, FoundProject DEF FindableProject, Marking
<1>5. QED
  BY <1>3, <1>4

LEMMA FindDeletedGood ==
  ASSUME SInv, NEW r \in Request, FindDeleted(r)
  PROVE  Good(r)
<1>1. PICK p \in Project :
        \/ Fail(r, "404")
        \/ /\ DeletedProject(p)
           /\ target' = [target EXCEPT ![r] = p]
           /\ Continue(r, "undelete")
           /\ UNCHANGED <<body, loaded, seen>>
  BY DEF FindDeleted
<1>2. UNCHANGED <<tables, files, session, crashes, history>>
  BY DEF FindDeleted
<1>3. CASE Fail(r, "404")
  BY <1>2, <1>3, FailGood DEF Reply
<1>4. CASE ~Fail(r, "404")
  BY <1>1, <1>2, <1>4, FoundProject DEF DeletedProject, Marking
<1>5. QED
  BY <1>3, <1>4

\* The project a handler is about to mark, or has marked.
LEMMA MarkTarget ==
  ASSUME SInv, NEW r \in Request, pc[r] \in Marking
  PROVE  target[r] \in Project /\ projects[target[r]] # NoRow
BY DEF SInv, Holds, OnProject

LEMMA SoftRemoveGood ==
  ASSUME SInv, NEW r \in Request, SoftRemoveProject(r)
  PROVE  Good(r)
<1> DEFINE p == target[r]
<1>1. /\ pc[r] = "softRemove" /\ MarkProject(p, TRUE)
      /\ Succeed(r, "removeProject", p) /\ Change(r, "removeProject")
      /\ UNCHANGED <<users, attachments, files, session, crashes>>
  BY DEF SoftRemoveProject
<1>2. p \in Project /\ projects[p] # NoRow
  BY <1>1, MarkTarget DEF Marking
<1>3. "removeProject" \in Endpoint /\ p \in Subject
  BY <1>2 DEF Endpoint, Route, Subject
<1>4. Directory(r)
  BY <1>1, <1>2, <1>3, MarkDirectory
<1>5. Local(r) /\ AuditTyped'
  BY <1>1, <1>3, SucceedLocal DEF SInv
<1>6. QED
  BY <1>4, <1>5, Halves

LEMMA UndeleteGood ==
  ASSUME SInv, NEW r \in Request, UndeleteProject(r)
  PROVE  Good(r)
<1> DEFINE p == target[r]
<1>1. /\ pc[r] = "undelete" /\ MarkProject(p, FALSE) /\ Change(r, "restoreProject")
      /\ Continue(r, "reread") /\ UNCHANGED <<target, body, loaded, seen>>
      /\ UNCHANGED <<users, attachments, files, session, crashes>>
  BY DEF UndeleteProject, locals
<1>2. p \in Project /\ projects[p] # NoRow
  BY <1>1, MarkTarget DEF Marking
<1>3. "restoreProject" \in Endpoint
  BY DEF Endpoint, Route
<1>4. Directory(r)
  BY <1>1, <1>2, <1>3, MarkDirectory
<1>5. /\ AuditTyped' /\ pc' \in [Request -> Phase] /\ pc'[r] = "reread"
      /\ \A q \in Request \ {r} : pc'[q] = pc[q]
  BY <1>1, ContinueTyped, PhaseNames
<1>6. OthersStay(r) /\ LocalsTyped'
  BY <1>1, <1>5 DEF OthersStay, Stays, SInv, LocalsTyped
<1>7. Holds(r)' /\ EditsKept(r) /\ Moves(r)
  BY <1>1, <1>2, <1>5 DEF Holds, EditsKept, Moves, Editing, Renaming, Marking
<1>8. OnProject(r)'
  <2>1. projects'[p] # NoRow
    BY <1>2, <1>4 DEF Directory, ProjectsKept
  <2>2. QED
    BY <1>1, <1>5, <2>1 DEF OnProject, Renaming
<1>9. QED
  BY <1>4, <1>5, <1>6, <1>7, <1>8, Halves DEF Local

LEMMA RereadGood ==
  ASSUME SInv, NEW r \in Request, RereadProject(r)
  PROVE  Good(r)
<1> DEFINE p == target[r]
<1>1. /\ pc[r] = "reread" /\ UNCHANGED <<tables, files, session, crashes, history>>
      /\ Succeed(r, "restoreProject", p) \/ Fail(r, "404")
  BY DEF RereadProject
<1>2. p \in Project
  BY <1>1, MarkTarget DEF Marking
<1>3. "restoreProject" \in Endpoint /\ p \in Subject
  BY <1>2 DEF Endpoint, Route, Subject
<1>4. CASE Fail(r, "404")
  BY <1>1, <1>4, FailGood DEF Reply
<1>5. CASE Succeed(r, "restoreProject", p)
  BY <1>1, <1>3, <1>5, SucceedLocal, SameTables, Halves DEF SInv
<1>6. QED
  BY <1>1, <1>4, <1>5

-------------------------------------------------------------------------------
(* Attachments and the other services                                      *)

\* A step on the files and the table of attachments.
LEMMA FileTables ==
  ASSUME SInv, NEW r \in Request, UNCHANGED <<users, projects, session, crashes, torn>>,
         attachments' \in [File -> Ticket \cup {NoRow}], disk' \in SUBSET File,
         unlinking' \in SUBSET File, changed' \in SUBSET (Request \X Endpoint)
  PROVE  Directory(r)
<1>1. TablesTyped'
  BY DEF SInv, TablesTyped, session
<1>2. UsersKept(r) /\ ProjectsKept(r)
  BY DEF UsersKept, ProjectsKept, SameAccount
<1>3. DirectorySound'
  BY DEF SInv, DirectorySound, Unique
<1>4. QED
  BY <1>1, <1>2, <1>3 DEF Directory

LEMMA StoreFileGood ==
  ASSUME SInv, NEW r \in Request, StoreFile(r)
  PROVE  Good(r)
<1>1. /\ disk' \in SUBSET File
      /\ UNCHANGED <<users, projects, attachments, unlinking, session, crashes, changed, torn>>
  BY DEF StoreFile, SInv, TablesTyped, File, tables, history
<1>2. Directory(r)
  BY <1>1, FileTables DEF SInv, TablesTyped
<1>3. CASE Fail(r, "400")
  BY <1>2, <1>3, FailLocal, Halves DEF SInv, Reply
<1>4. CASE ~Fail(r, "400")
  <2>1. PICK t \in Ticket : /\ target' = [target EXCEPT ![r] = t]
                            /\ Continue(r, "lookup") /\ UNCHANGED <<body, loaded, seen>>
    BY <1>4 DEF StoreFile
  <2>2. /\ AuditTyped' /\ pc' \in [Request -> Phase] /\ pc'[r] = "lookup"
        /\ \A q \in Request \ {r} : pc'[q] = pc[q]
    BY <2>1, ContinueTyped, PhaseNames
  <2>3. OthersStay(r) /\ LocalsTyped' /\ target'[r] = t
    BY <2>1, <2>2 DEF OthersStay, Stays, SInv, LocalsTyped, Target
  <2>4. Holds(r)' /\ OnProject(r)' /\ EditsKept(r) /\ Moves(r)
    BY <2>2, <2>3 DEF Holds, OnProject, EditsKept, Moves, Editing, Renaming, Marking
  <2>5. QED
    BY <1>2, <2>2, <2>3, <2>4, Halves DEF Local
<1>5. QED
  BY <1>3, <1>4

LEMMA LookupTicketGood ==
  ASSUME SInv, NEW r \in Request, LookupTicket(r)
  PROVE  Good(r)
<1>1. /\ unlinking' \in SUBSET File /\ pc[r] = "lookup" /\ target[r] \in Ticket
      /\ UNCHANGED <<users, projects, attachments, disk, session, crashes, changed, torn>>
  BY DEF LookupTicket, SInv, TablesTyped, Holds, File, tables, history, files
<1>2. Directory(r)
  BY <1>1, FileTables DEF SInv, TablesTyped
<1>3. CASE Fail(r, "404")
  BY <1>2, <1>3, FailLocal, Halves DEF SInv, Reply
<1>4. CASE Continue(r, "insertFile") /\ UNCHANGED locals
  <2>1. /\ AuditTyped' /\ pc' \in [Request -> Phase] /\ pc'[r] = "insertFile"
        /\ \A q \in Request \ {r} : pc'[q] = pc[q]
    BY <1>4, ContinueTyped, PhaseNames
  <2>2. OthersStay(r) /\ LocalsTyped'
    BY <1>4, <2>1 DEF OthersStay, Stays, SInv, LocalsTyped, locals
  <2>3. Holds(r)' /\ OnProject(r)' /\ EditsKept(r) /\ Moves(r)
    BY <1>1, <1>4, <2>1 DEF Holds, OnProject, EditsKept, Moves, Editing, Renaming, Marking, locals
  <2>4. QED
    BY <1>2, <2>1, <2>2, <2>3, Halves DEF Local
<1>5. QED
  BY <1>3, <1>4 DEF LookupTicket

LEMMA InsertAttachmentGood ==
  ASSUME SInv, NEW r \in Request, InsertAttachment(r)
  PROVE  Good(r)
<1>1. target[r] \in Ticket /\ r \in File /\ r \in Subject /\ "upload" \in Endpoint
  BY DEF InsertAttachment, SInv, Holds, File, Subject, Endpoint, Route
<1>2. /\ attachments' \in [File -> Ticket \cup {NoRow}]
      /\ changed' \in SUBSET (Request \X Endpoint)
      /\ UNCHANGED <<users, projects, disk, unlinking, session, crashes, torn>>
  BY <1>1 DEF InsertAttachment, SInv, TablesTyped, Change, files
<1>3. Directory(r)
  BY <1>2, FileTables DEF SInv, TablesTyped
<1>4. QED
  BY <1>1, <1>3, SucceedLocal, Halves DEF SInv, InsertAttachment

LEMMA FindAttachmentGood ==
  ASSUME SInv, NEW r \in Request, FindAttachment(r)
  PROVE  Good(r)
<1>1. PICK f \in File :
        \/ Fail(r, "404") /\ UNCHANGED unlinking
        \/ /\ unlinking' = unlinking \cup {f}
           /\ target' = [target EXCEPT ![r] = f]
           /\ Continue(r, "deleteRow")
           /\ UNCHANGED <<body, loaded, seen>>
  BY DEF FindAttachment
<1>2. /\ unlinking' \in SUBSET File
      /\ UNCHANGED <<users, projects, attachments, disk, session, crashes, changed, torn>>
  BY <1>1 DEF FindAttachment, SInv, TablesTyped, tables, history
<1>3. Directory(r)
  BY <1>2, FileTables DEF SInv, TablesTyped
<1>4. CASE Fail(r, "404")
  BY <1>3, <1>4, FailLocal, Halves DEF SInv, Reply
<1>5. CASE ~Fail(r, "404")
  <2>1. /\ AuditTyped' /\ pc' \in [Request -> Phase] /\ pc'[r] = "deleteRow"
        /\ \A q \in Request \ {r} : pc'[q] = pc[q]
    BY <1>1, <1>5, ContinueTyped, PhaseNames
  <2>2. OthersStay(r) /\ LocalsTyped' /\ target'[r] = f
    BY <1>1, <1>5, <2>1 DEF OthersStay, Stays, SInv, LocalsTyped, Target
  <2>3. Holds(r)' /\ OnProject(r)' /\ EditsKept(r) /\ Moves(r)
    BY <2>1, <2>2 DEF Holds, OnProject, EditsKept, Moves, Editing, Renaming, Marking
  <2>4. QED
    BY <1>3, <2>1, <2>2, <2>3, Halves DEF Local
<1>6. QED
  BY <1>4, <1>5

LEMMA DeleteAttachmentGood ==
  ASSUME SInv, NEW r \in Request, DeleteAttachment(r)
  PROVE  Good(r)
<1>1. target[r] \in File /\ target[r] \in Subject /\ "removeAttachment" \in Endpoint
  BY DEF DeleteAttachment, SInv, Holds, Subject, Endpoint, Route
<1>2. /\ attachments' \in [File -> Ticket \cup {NoRow}]
      /\ changed' \in SUBSET (Request \X Endpoint)
      /\ UNCHANGED <<users, projects, disk, unlinking, session, crashes, torn>>
  BY <1>1 DEF DeleteAttachment, SInv, TablesTyped, Change, files
<1>3. Directory(r)
  BY <1>2, FileTables DEF SInv, TablesTyped
<1>4. QED
  BY <1>1, <1>3, SucceedLocal, Halves DEF SInv, DeleteAttachment

LEMMA OtherEndpoints == OtherRoute \subseteq Endpoint /\ Elsewhere \in Subject
BY DEF OtherRoute, TicketRoute, CommentRoute, DependencyRoute, Endpoint, Route, Subject

LEMMA WriteElsewhereGood ==
  ASSUME SInv, NEW r \in Request, NEW op \in OtherRoute, WriteElsewhere(r, op)
  PROVE  Good(r)
<1>1. UNCHANGED <<tables, files, session, crashes>> /\ pc[r] = "ready"
  BY DEF WriteElsewhere, Call
<1>2. CASE Fail(r, "404") /\ UNCHANGED history
  BY <1>1, <1>2, FailGood DEF Reply
<1>3. CASE Continue(r, "written") /\ Change(r, op) /\ UNCHANGED locals
  <2>1. changed' \in SUBSET (Request \X Endpoint) /\ UNCHANGED torn
    BY <1>3, OtherEndpoints DEF SInv, TablesTyped, Change
  <2>2. Directory(r)
    BY <1>1, <2>1, FileTables DEF SInv, TablesTyped, tables, files
  <2>3. /\ AuditTyped' /\ pc' \in [Request -> Phase] /\ pc'[r] = "written"
        /\ \A q \in Request \ {r} : pc'[q] = pc[q]
    BY <1>3, ContinueTyped, PhaseNames
  <2>4. OthersStay(r) /\ LocalsTyped'
    BY <1>3, <2>3 DEF OthersStay, Stays, SInv, LocalsTyped, locals
  <2>5. Holds(r)' /\ OnProject(r)' /\ EditsKept(r) /\ Moves(r)
    BY <2>3 DEF Holds, OnProject, EditsKept, Moves, Editing, Renaming, Marking
  <2>6. QED
    BY <2>2, <2>3, <2>4, <2>5, Halves DEF Local
<1>4. QED
  BY <1>2, <1>3 DEF WriteElsewhere

LEMMA OtherStepGood ==
  ASSUME SInv, NEW r \in Request, OtherStep(r)
  PROVE  Good(r)
<1>1. UNCHANGED <<tables, files, session, crashes, history>>
  BY DEF OtherStep
<1>2. CASE ReturnElsewhere(r)
  <2>1. PICK op \in OtherRoute : Succeed(r, op, Elsewhere)
    BY <1>2 DEF ReturnElsewhere
  <2>2. changed' \in SUBSET (Request \X Endpoint) /\ UNCHANGED torn
    BY <1>1 DEF SInv, TablesTyped, history
  <2>3. Directory(r)
    BY <1>1, <2>2, FileTables DEF SInv, TablesTyped, tables, files
  <2>4. QED
    BY <2>1, <2>3, OtherEndpoints, SucceedLocal, Halves DEF SInv
<1>3. CASE RestoredNotFound(r) \/ CommentWrittenFails(r)
  <2>1. PICK reply \in {"404", "500"} : Fail(r, reply)
    BY <1>3 DEF RestoredNotFound, CommentWrittenFails
  <2>2. QED
    BY <1>1, <2>1, FailGood DEF Reply
<1>4. QED
  BY <1>2, <1>3 DEF OtherStep

LEMMA RefusedGood ==
  ASSUME SInv, NEW r \in Request, Refused(r)
  PROVE  Good(r)
<1>1. PICK reply \in {"400", "401", "403"} : Fail(r, reply)
  BY DEF Refused
<1>2. UNCHANGED <<tables, files, session, crashes, history>>
  BY DEF Refused
<1>3. QED
  BY <1>1, <1>2, FailGood DEF Reply

-------------------------------------------------------------------------------
(* All steps.                                                              *)

LEMMA HandlerGood ==
  ASSUME SInv, NEW r \in Request, ServerCall(r) \/ ServerStep(r)
  PROVE  Good(r)
<1>1. CASE AccountCall(r) \/ AccountStep(r)
  BY <1>1, FindTakenGood, FindForUpdateGood, FindForRemoveGood, FindCredentialsGood, LogoutGood,
     InsertUserGood, ReloadUserGood, SaveUserGood, DeleteUserGood, SignTokenGood
  DEF AccountCall, AccountStep
<1>2. CASE ProjectCall(r) \/ ProjectStep(r)
  BY <1>2, CreateProjectGood, FindProjectGood, FindToRemoveGood, FindDeletedGood,
     ReloadProjectGood, SaveProjectGood, SoftRemoveGood, UndeleteGood, RereadGood
  DEF ProjectCall, ProjectStep
<1>3. CASE AttachmentCall(r) \/ AttachmentStep(r)
  BY <1>3, StoreFileGood, FindAttachmentGood, LookupTicketGood, InsertAttachmentGood,
     DeleteAttachmentGood DEF AttachmentCall, AttachmentStep
<1>4. CASE OtherCall(r) \/ OtherStep(r) \/ Refused(r)
  BY <1>4, WriteElsewhereGood, OtherStepGood, RefusedGood
  DEF OtherCall, TicketCall, CommentCall, DependencyCall, OtherRoute
<1>5. QED
  BY <1>1, <1>2, <1>3, <1>4 DEF ServerCall, ServerStep

\* Steps that move no handler and leave users and projects alone.
LEMMA NobodyMoves ==
  ASSUME SInv, UNCHANGED <<users, projects, pc, target, body, loaded, seen>>,
         TablesTyped', AuditTyped'
  PROVE  SInv'
<1>1. LocalsTyped' /\ \A r \in Request : Holds(r)' /\ OnProject(r)'
  BY DEF SInv, LocalsTyped, Holds, OnProject
<1>2. OneIdentity' /\ Fresh'
  BY DEF SInv, OneIdentity, Fresh, Edits, SameAccount
<1>3. DirectorySound'
  BY DEF SInv, DirectorySound, Unique
<1>4. QED
  BY <1>1, <1>2, <1>3 DEF SInv

LEMMA CrashInv ==
  ASSUME SInv, Crash
  PROVE  SInv'
<1>1. pc' = [r \in Request |-> IF r \in InFlight THEN "lost" ELSE pc[r]]
  BY DEF Crash
<1>2. \A r \in Request : pc'[r] \in Resting /\ (pc'[r] = "ready" => pc[r] = "ready")
  BY <1>1 DEF InFlight, Resting, Reply
<1>3. LocalsTyped'
  <2>1. pc' \in [Request -> Phase]
    BY <1>1, <1>2, Phases
  <2>2. QED
    BY <2>1 DEF Crash, LocalsTyped, Target, AnyRow
<1>4. crashes' \in 0..MaxCrashes
  BY LimitAssumption DEF Crash, SInv, TablesTyped
<1>5. torn' \in SUBSET (Request \cup File)
  <2>1. InFlight \subseteq Request /\ unlinking \subseteq File
    BY DEF InFlight, SInv, TablesTyped
  <2>2. \A e \in pending : e.request \in Request
    BY DEF SInv, AuditTyped, Entry
  <2>3. \A q \in Request : pc[q] = "deleteRow" => target[q] \in File
    BY DEF SInv, Holds
  <2>4. QED
    BY <2>1, <2>2, <2>3 DEF Crash, SInv, TablesTyped
<1>6. TablesTyped' /\ AuditTyped'
  BY <1>4, <1>5 DEF Crash, SInv, TablesTyped, AuditTyped, tables
<1>7. \A r \in Request : Holds(r)' /\ OnProject(r)'
  BY <1>2 DEF Holds, OnProject, Editing, Renaming, Marking, Resting, Reply
<1>8. \A u \in User, q \in Request : ~Edits(q, u)'
  BY <1>2 DEF Edits, Editing, Resting, Reply
<1>9. OneIdentity' /\ Fresh'
  <2>1. OneIdentity'
    BY <1>8 DEF OneIdentity
  <2>2. \A r \in Request : r \in User /\ pc'[r] # "hash"
    BY <1>2 DEF User, Resting, Reply
  <2>3. Fresh'
    BY <1>2, <1>8, <2>2 DEF Fresh, Crash, SInv, tables
  <2>4. QED
    BY <2>1, <2>3
<1>10. DirectorySound'
  BY DEF Crash, SInv, DirectorySound, Unique, tables
<1>11. QED
  BY <1>3, <1>6, <1>7, <1>9, <1>10 DEF SInv

LEMMA InitInv == Init => SInv
<1> SUFFICES ASSUME Init PROVE SInv
  OBVIOUS
<1>1. /\ users \in [User -> UserRow \cup {NoRow}] /\ Unique(users)
      /\ \A u \in User : users[u] # NoRow <=> u \in SeedUser
  BY InitAssumption DEF Init
<1>2. PICK owner \in [SeedProject -> SeedUser], name \in Text :
        projects = [p \in Project |->
          IF p \in SeedProject
          THEN [name |-> name, owner |-> owner[p], deleted |-> FALSE] ELSE NoRow]
  BY DEF Init
<1>3. \A p \in SeedProject :
        /\ [name |-> name, owner |-> owner[p], deleted |-> FALSE] \in ProjectRow
        /\ owner[p] \in SeedUser
  BY DEF ProjectRow, User
<1>4. projects \in [Project -> ProjectRow \cup {NoRow}]
  BY <1>2, <1>3
<1>5. attachments \in [File -> Ticket \cup {NoRow}]
  BY DEF Init
<1>6. claims \in [Token -> Role \cup {NoRow}]
  BY DEF Init
<1>7. TablesTyped /\ AuditTyped
  BY <1>1, <1>4, <1>5, <1>6, LimitAssumption DEF TablesTyped, AuditTyped, Init, File
<1>8. \A r \in Request : pc[r] = "ready"
  BY DEF Init
<1>9. LocalsTyped
  BY DEF LocalsTyped, Init, Phase, Resting, Target, AnyRow
<1>10. \A r \in Request : Holds(r) /\ OnProject(r)
  BY <1>8 DEF Holds, OnProject, Editing, Renaming, Marking
<1>11. \A u \in User, q \in Request : ~Edits(q, u)
  BY <1>8 DEF Edits, Editing
<1>12. \A r \in Request : r \notin SeedUser /\ r \notin SeedProject /\ r \in User /\ r \in Project
  BY IdsAssumption DEF User, Project
<1>13. OneIdentity /\ Fresh
  BY <1>1, <1>2, <1>11, <1>12 DEF OneIdentity, Fresh
<1>14. DirectorySound
  <2>1. ASSUME NEW p \in Project, projects[p] # NoRow PROVE users[projects[p].owner] # NoRow
    <3>1. p \in SeedProject
      BY <1>2, <2>1
    <3>2. projects[p].owner = owner[p]
      BY <1>2, <3>1
    <3>3. QED
      BY <1>1, <1>3, <3>1, <3>2 DEF User
  <2>2. QED
    BY <1>1, <2>1 DEF DirectorySound
<1>15. QED
  BY <1>7, <1>9, <1>10, <1>13, <1>14 DEF SInv

LEMMA NextInv == SInv /\ [Next]_vars => SInv'
<1> SUFFICES ASSUME SInv, [Next]_vars PROVE SInv'
  OBVIOUS
<1>1. ASSUME NEW r \in Request, ServerCall(r) \/ ServerStep(r) PROVE SInv'
  BY <1>1, HandlerGood, GoodStep
<1>2. ASSUME NEW e \in pending, InsertEntry(e) PROVE SInv'
  <2>1. TablesTyped' /\ AuditTyped'
    BY <1>2 DEF InsertEntry, SInv, TablesTyped, AuditTyped, tables, files, session, history
  <2>2. QED
    BY <1>2, <2>1, NobodyMoves DEF InsertEntry, tables, locals
<1>3. ASSUME NEW f \in unlinking, Unlink(f) PROVE SInv'
  <2>1. TablesTyped' /\ AuditTyped'
    BY <1>3 DEF Unlink, SInv, TablesTyped, AuditTyped, tables, audit, session, history
  <2>2. QED
    BY <1>3, <2>1, NobodyMoves DEF Unlink, tables, locals
<1>4. CASE UNCHANGED vars
  <2>1. TablesTyped' /\ AuditTyped'
    BY <1>4 DEF SInv, TablesTyped, AuditTyped, vars, tables, files, audit, session, history
  <2>2. QED
    BY <1>4, <2>1, NobodyMoves DEF vars, tables, locals
<1>5. QED
  BY <1>1, <1>2, <1>3, <1>4, CrashInv DEF Next

\* The inductive invariant.
LEMMA Invariant == Spec => []SInv
BY InitInv, NextInv, PTL DEF Spec

-------------------------------------------------------------------------------
(* Theorems                                                                *)

\* Every variable keeps its type, for any number of requests, rows and crashes.
THEOREM ServerTypeCorrect == Spec => []TypeOK
<1>1. SInv => TypeOK
  BY TypeParts DEF SInv
<1>2. QED
  BY <1>1, Invariant, PTL

\* However registrations, edits, removals and crashes interleave, no two accounts
\* share a name or an address, and every project has its owner.
THEOREM DirectoryIsSound == Spec => []DirectorySound
<1>1. SInv => DirectorySound
  BY DEF SInv
<1>2. QED
  BY <1>1, Invariant, PTL

\* Only the UPDATE of save() moves a handler that is about to write.
LEMMA WriteSteps ==
  ASSUME NEW r \in Request, ServerCall(r) \/ ServerStep(r)
  PROVE  /\ pc[r] = "writeUser" => SaveUser(r)
         /\ pc[r] = "writeProject" => SaveProject(r)
<1>1. AccountCall(r) => pc[r] = "ready"
  BY DEF AccountCall, FindTaken, FindForUpdate, FindForRemove, FindCredentials, Logout, Call
<1>2. ProjectCall(r) => pc[r] = "ready"
  BY DEF ProjectCall, CreateProject, FindProject, FindToRemove, FindDeleted, Call
<1>3. AttachmentCall(r) \/ OtherCall(r) \/ Refused(r) => pc[r] = "ready"
  BY DEF AttachmentCall, StoreFile, FindAttachment, OtherCall, TicketCall, CommentCall,
         DependencyCall, WriteElsewhere, Refused, Call
<1>4. AccountStep(r) => SaveUser(r) \/ pc[r] \in {"hash", "reloadUser", "deleteUser", "compare"}
  BY DEF AccountStep, InsertUser, ReloadUser, DeleteUser, SignToken
<1>5. ProjectStep(r) => SaveProject(r) \/ pc[r] \in {"reloadProject", "softRemove", "undelete", "reread"}
  BY DEF ProjectStep, ReloadProject, SoftRemoveProject, UndeleteProject, RereadProject
<1>6. AttachmentStep(r) \/ OtherStep(r) => pc[r] \in {"lookup", "insertFile", "deleteRow", "written"}
  BY DEF AttachmentStep, LookupTicket, InsertAttachment, DeleteAttachment,
         OtherStep, ReturnElsewhere, RestoredNotFound, CommentWrittenFails, Written
<1>7. (SaveUser(r) => pc[r] = "writeUser") /\ (SaveProject(r) => pc[r] = "writeProject")
  BY DEF SaveUser, SaveProject
<1>8. QED
  BY <1>1, <1>2, <1>3, <1>4, <1>5, <1>6, <1>7 DEF ServerCall, ServerStep

LEMMA UserFields ==
  ASSUME NEW row \in UserRow, NEW f \in Text, NEW g \in Role
  PROVE  [row EXCEPT !.fullName = f, !.role = g]
           = [username |-> row.username, email |-> row.email, fullName |-> f, role |-> g]
<1> DEFINE new   == [row EXCEPT !.fullName = f, !.role = g]
           other == [username |-> row.username, email |-> row.email, fullName |-> f, role |-> g]
<1>1. /\ new \in UserRow /\ new.username = row.username /\ new.email = row.email
      /\ new.fullName = f /\ new.role = g
  BY DEF UserRow
<1>2. /\ other \in UserRow /\ other.username = row.username /\ other.email = row.email
      /\ other.fullName = f /\ other.role = g
  BY DEF UserRow
<1> HIDE DEF new, other
<1>3. \A x \in UserRow, y \in UserRow :
        /\ x.username = y.username /\ x.email = y.email
        /\ x.fullName = y.fullName /\ x.role = y.role
        => x = y
  BY DEF UserRow
<1>4. new = other
  BY <1>1, <1>2, <1>3
<1>5. QED
  BY <1>4 DEF new, other

LEMMA UserPatchedStep ==
  ASSUME SInv, NEW r \in Request, pc[r] = "writeUser", SaveUser(r), pc'[r] = "200",
         seen[r] = loaded[r]
  PROVE  UserPatched(r)
<1> DEFINE u == target[r]
           entity == Amended(loaded[r], body[r])
<1>1. /\ u \in User /\ loaded[r] \in UserRow /\ body[r] \in UpdateUserDto /\ seen[r] # NoRow
      /\ users[u] \in UserRow \cup {NoRow}
  BY NoRows DEF SInv, Holds, Editing, TablesTyped
<1>2. users' = [users EXCEPT ![u] = MergedUser(entity, seen[r], @)]
  <2>1. ~Fail(r, "500")
    BY DEF Fail, Answer, Goto, SInv, LocalsTyped
  <2>2. QED
    BY <1>1, <2>1 DEF SaveUser
<1>3. users'[u] = MergedUser(entity, loaded[r], users[u])
  BY <1>1, <1>2 DEF SInv, TablesTyped
<1>4. CASE users[u] = NoRow
  BY <1>3, <1>4 DEF MergedUser, UserPatched
<1>5. CASE users[u] \in UserRow
  <2>1. /\ entity.username = loaded[r].username /\ entity.email = loaded[r].email
        /\ entity.fullName = Given(body[r].fullName, loaded[r].fullName)
        /\ entity.role = Given(body[r].role, loaded[r].role)
    BY <1>1 DEF Amended, UserRow
  <2>2. /\ Column(entity.username, loaded[r].username, users[u].username) = users[u].username
        /\ Column(entity.email, loaded[r].email, users[u].email) = users[u].email
        /\ Column(entity.fullName, loaded[r].fullName, users[u].fullName)
             = Changed(body[r].fullName, loaded[r].fullName, users[u].fullName)
        /\ Column(entity.role, loaded[r].role, users[u].role)
             = Changed(body[r].role, loaded[r].role, users[u].role)
    BY <2>1 DEF Column, Given, Changed
  <2>3. users[u] # NoRow
    BY <1>5, NoRows
  <2> HIDE DEF entity
  <2>4. MergedUser(entity, loaded[r], users[u])
          = [username |-> users[u].username, email |-> users[u].email,
             fullName |-> Changed(body[r].fullName, loaded[r].fullName, users[u].fullName),
             role |-> Changed(body[r].role, loaded[r].role, users[u].role)]
    BY <2>2, <2>3 DEF MergedUser
  <2> DEFINE f == Changed(body[r].fullName, loaded[r].fullName, users[u].fullName)
             g == Changed(body[r].role, loaded[r].role, users[u].role)
  <2>5. [users[u] EXCEPT !.fullName = f, !.role = g]
          = [username |-> users[u].username, email |-> users[u].email, fullName |-> f, role |-> g]
    <3>1. f \in Text /\ g \in Role
      BY <1>1, <1>5 DEF Changed, UserRow, UpdateUserDto
    <3>2. QED
      BY <1>5, <3>1, UserFields
  <2>6. users'[u] = [users[u] EXCEPT !.fullName = f, !.role = g]
    BY <1>3, <2>4, <2>5
  <2>7. QED
    BY <2>3, <2>6 DEF UserPatched
<1>6. QED
  BY <1>1, <1>4, <1>5

LEMMA ProjectPatchedStep ==
  ASSUME SInv, NEW r \in Request, pc[r] = "writeProject", SaveProject(r), seen[r] = loaded[r]
  PROVE  ProjectPatched(r)
<1> DEFINE p == target[r]
           entity == Renamed(loaded[r], body[r])
<1>1. /\ p \in Project /\ loaded[r] \in ProjectRow /\ body[r] \in UpdateProjectDto
      /\ projects[p] \in ProjectRow
  BY DEF SInv, Holds, OnProject, Renaming, TablesTyped
<1>2. projects'[p] = MergedProject(entity, loaded[r], projects[p])
  BY <1>1 DEF SaveProject, SInv, TablesTyped
<1>3. /\ Column(entity.name, loaded[r].name, projects[p].name)
           = Changed(body[r].name, loaded[r].name, projects[p].name)
      /\ Column(entity.owner, loaded[r].owner, projects[p].owner) = projects[p].owner
      /\ Column(entity.deleted, loaded[r].deleted, projects[p].deleted) = projects[p].deleted
  BY <1>1, RenamedRow DEF Column, Given, Changed
<1> HIDE DEF entity
<1>4. projects'[p]
        = [name |-> Changed(body[r].name, loaded[r].name, projects[p].name),
           owner |-> projects[p].owner, deleted |-> projects[p].deleted]
  BY <1>2, <1>3 DEF MergedProject
<1>5. QED
  BY <1>1, <1>4 DEF ProjectPatched, ProjectRow

\* A save() whose reload found the row it had loaded writes the client's changes
\* and nothing else, whatever commits between the reload and the UPDATE.
THEOREM PatchesAreExact == Spec => PatchesExact
<1> DEFINE Exact == \A r \in Request : pc'[r] = "200" /\ seen[r] = loaded[r] =>
                      /\ pc[r] = "writeUser" => UserPatched(r)
                      /\ pc[r] = "writeProject" => ProjectPatched(r)
<1>1. SInv /\ [Next]_vars => [Exact]_vars
  <2> SUFFICES ASSUME SInv, Next, NEW r \in Request, pc'[r] = "200", seen[r] = loaded[r],
                      pc[r] \in {"writeUser", "writeProject"}
               PROVE  /\ pc[r] = "writeUser" => UserPatched(r)
                      /\ pc[r] = "writeProject" => ProjectPatched(r)
    OBVIOUS
  <2>1. ServerCall(r) \/ ServerStep(r)
    <3>1. ASSUME NEW q \in Request, ServerCall(q) \/ ServerStep(q) PROVE q = r
      BY <3>1, HandlerGood DEF Good, OthersStay, Stays
    <3>2. \A e \in pending : ~InsertEntry(e)
      BY DEF InsertEntry
    <3>3. \A f \in unlinking : ~Unlink(f)
      BY DEF Unlink
    <3>4. ~Crash
      BY DEF Crash, InFlight, Resting, Reply
    <3>5. QED
      BY <3>1, <3>2, <3>3, <3>4 DEF Next
  <2>2. QED
    BY <2>1, WriteSteps, UserPatchedStep, ProjectPatchedStep
<1>2. QED
  BY <1>1, Invariant, PTL DEF Spec, PatchesExact
===============================================================================

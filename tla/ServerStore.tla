------------------------------ MODULE ServerStore ------------------------------
(***************************************************************************)
(* The state the user, session, project and attachment services share with *)
(* the audit interceptor: their Postgres tables, the upload directory, and *)
(* what the Node process keeps in memory only: the deny-list of tokens,    *)
(* unlinks and audit INSERTs nobody awaits, the locals of the handlers.    *)
(* As in TicketStore every SQL statement is one step, and the code between *)
(* two awaits belongs to the step of the first.  The guards of a request   *)
(* are evaluated in the step of its first statement.                       *)
(***************************************************************************)
EXTENDS Integers, FiniteSets

CONSTANTS
  Request,        \* HTTP requests, each served once
  Operation,      \* the endpoints the clients of this instance call
  SeedUser,       \* ids of the users there are at the start
  SeedProject,    \* ids of the projects there are at the start
  SeedFile,       \* ids of the attachments there are at the start
  SeedToken,      \* tokens clients hold at the start
  Name, Email,    \* usernames and e-mail addresses
  Text,           \* values of the plain columns (fullName; name, description)
  Ticket,         \* ids in URLs
  LiveTicket,     \* ids of tickets findOneBy finds
  Referenced,     \* users that tickets, comments or mentions refer to
  CreateUserDtos, UpdateUserDtos, UpdateProjectDtos,  \* bodies the clients send
  InitUsers,      \* contents the users table may start with
  MaxInFlight,    \* bound: handlers that are in flight at the same time
  MaxCrashes,     \* bound: process crashes
  NoRow, NoBody, NoId, Absent, Elsewhere

\* A row, a token and a stored file are named by the request that made them.
User    == Request \cup SeedUser
Project == Request \cup SeedProject
File    == Request \cup SeedFile
Token   == Request \cup SeedToken

Role == {"ADMIN", "DEVELOPER"}

UserRow == [username : Name, email : Email, fullName : Text, role : Role]

\* deleted stands for deletedAt IS NOT NULL, name for name and description.
ProjectRow == [name : Text, owner : User, deleted : BOOLEAN]

UpdateUserDto    == [fullName : Text \cup {Absent}, role : Role \cup {Absent}]
UpdateProjectDto == [name : Text \cup {Absent}]

\* The endpoints that change state, with the method and the label that
\* ENTITY_TYPE_MAP has for the last mapped segment of the route ("" for none).
Route ==
  [createUser       |-> <<"POST", "USER">>,      updateUser       |-> <<"POST", "USER">>,
   removeUser       |-> <<"DELETE", "USER">>,
   login            |-> <<"POST", "">>,          logout           |-> <<"POST", "">>,
   createProject    |-> <<"POST", "PROJECT">>,   updateProject    |-> <<"PATCH", "PROJECT">>,
   removeProject    |-> <<"DELETE", "PROJECT">>, restoreProject   |-> <<"POST", "PROJECT">>,
   upload           |-> <<"POST", "ATTACHMENT">>,
   removeAttachment |-> <<"DELETE", "ATTACHMENT">>,
   createTicket     |-> <<"POST", "TICKET">>,    updateTicket     |-> <<"PATCH", "TICKET">>,
   removeTicket     |-> <<"DELETE", "TICKET">>,  restoreTicket    |-> <<"POST", "TICKET">>,
   importCsv        |-> <<"POST", "TICKET">>,
   createComment    |-> <<"POST", "COMMENT">>,   updateComment    |-> <<"PATCH", "COMMENT">>,
   removeComment    |-> <<"DELETE", "COMMENT">>,
   addDependency    |-> <<"POST", "TICKET_DEPENDENCY">>,
   removeDependency |-> <<"DELETE", "TICKET_DEPENDENCY">>]

Endpoint   == DOMAIN Route
Unguarded  == {"createUser", "login"}
AdminOnly  == {"restoreProject", "restoreTicket"}

\* The endpoints of the services this module knows from outside only.
TicketRoute     == {"createTicket", "updateTicket", "removeTicket", "restoreTicket", "importCsv"}
CommentRoute    == {"createComment", "updateComment", "removeComment"}
DependencyRoute == {"addDependency", "removeDependency"}
OtherRoute      == TicketRoute \cup CommentRoute \cup DependencyRoute

\* A row of audit_logs the interceptor writes, and the request it is about.
Subject == User \cup Project \cup File \cup {Elsewhere}
Entry == [request : Request, type : {Route[op][2] : op \in Endpoint},
          action : {"CREATE", "UPDATE", "DELETE"}, subject : Subject,
          actor : {"USER", "SYSTEM"}]

Reply   == {"200", "400", "401", "403", "404", "409", "500", "lost"}
Resting == {"ready"} \cup Reply
Phase   == {"hash", "reloadUser", "writeUser", "deleteUser", "compare",
            "reloadProject", "writeProject", "softRemove", "undelete", "reread",
            "lookup", "insertFile", "deleteRow", "written"} \cup Resting

Body   == UserRow \cup UpdateUserDto \cup UpdateProjectDto
AnyRow == UserRow \cup ProjectRow \cup {NoRow}
Target == User \cup Project \cup File \cup Ticket \cup {NoId}

Unique(rows) == \A u, v \in User : rows[u] # NoRow /\ rows[v] # NoRow /\ u # v =>
                  rows[u].username # rows[v].username /\ rows[u].email # rows[v].email

ASSUME IdsAssumption ==
  /\ Request \cap (SeedUser \cup SeedProject \cup SeedFile \cup SeedToken) = {}
  /\ NoRow \notin UserRow \cup ProjectRow \cup Ticket \cup Role
  /\ LiveTicket \subseteq Ticket /\ Referenced \subseteq SeedUser
ASSUME BodiesAssumption ==
  /\ Absent \notin Text \cup Role
  /\ CreateUserDtos \subseteq UserRow /\ UpdateUserDtos \subseteq UpdateUserDto
  /\ UpdateProjectDtos \subseteq UpdateProjectDto /\ Operation \subseteq Endpoint
ASSUME InitAssumption ==
  \A rows \in InitUsers :
    /\ rows \in [User -> UserRow \cup {NoRow}] /\ Unique(rows)
    /\ \A u \in User : rows[u] # NoRow <=> u \in SeedUser
ASSUME LimitAssumption == MaxInFlight \in Nat /\ MaxCrashes \in Nat

VARIABLES
  users,        \* table users
  projects,     \* table projects
  attachments,  \* table attachments: the ticket of each row
  trail,        \* table audit_logs, the interceptor's rows
  disk,         \* the files in uploads/attachments
  revoked,      \* AuthService.revokedTokens
  claims,       \* the role in each token that was issued (NoRow: not issued)
  unlinking,    \* files whose fs.unlink has been issued and not yet done
  pending,      \* audit rows whose INSERT has been issued and not yet done
  crashes,      \* crashes so far
  pc,           \* where each handler is
  target,       \* the row it works on
  body,         \* its DTO
  loaded,       \* the row its first SELECT returned
  seen,         \* the row as save() reloaded it
  changed,      \* history: requests that changed a table, with their endpoint
  torn          \* history: requests and files whose work a crash cut off

tables  == <<users, projects, attachments>>
files   == <<disk, unlinking>>
audit   == <<trail, pending>>
session == <<revoked, claims>>
locals  == <<target, body, loaded, seen>>
history == <<changed, torn>>
vars    == <<tables, files, audit, session, crashes, pc, locals, history>>

TypeOK ==
  /\ users \in [User -> UserRow \cup {NoRow}]
  /\ projects \in [Project -> ProjectRow \cup {NoRow}]
  /\ attachments \in [File -> Ticket \cup {NoRow}]
  /\ trail \in SUBSET Entry /\ pending \in SUBSET Entry
  /\ disk \in SUBSET File /\ unlinking \in SUBSET File
  /\ revoked \in SUBSET Token /\ claims \in [Token -> Role \cup {NoRow}]
  /\ crashes \in 0..MaxCrashes
  /\ pc \in [Request -> Phase]
  /\ target \in [Request -> Target]
  /\ body \in [Request -> Body \cup {NoBody}]
  /\ loaded \in [Request -> AnyRow] /\ seen \in [Request -> AnyRow]
  /\ changed \in SUBSET (Request \X Endpoint)
  /\ torn \in SUBSET (Request \cup File)

\* The seeded projects belong to any seeded users, the seeded attachments have
\* their files, and the seeded tokens carry any role.
Init ==
  /\ users \in InitUsers
  /\ \E owner \in [SeedProject -> SeedUser], name \in Text :
       projects = [p \in Project |->
         IF p \in SeedProject
         THEN [name |-> name, owner |-> owner[p], deleted |-> FALSE] ELSE NoRow]
  /\ \E ticket \in [SeedFile -> Ticket] :
       attachments = [f \in File |-> IF f \in SeedFile THEN ticket[f] ELSE NoRow]
  /\ disk = SeedFile /\ unlinking = {}
  /\ trail = {} /\ pending = {}
  /\ revoked = {}
  /\ \E role \in [SeedToken -> Role] :
       claims = [k \in Token |-> IF k \in SeedToken THEN role[k] ELSE NoRow]
  /\ crashes = 0
  /\ pc = [r \in Request |-> "ready"]
  /\ target = [r \in Request |-> NoId]
  /\ body = [r \in Request |-> NoBody]
  /\ loaded = [r \in Request |-> NoRow]
  /\ seen = [r \in Request |-> NoRow]
  /\ changed = {} /\ torn = {}

-------------------------------------------------------------------------------
(* Control of the handlers, and the guards.                                *)

InFlight == {r \in Request : pc[r] \notin Resting}

Goto(r, phase) == pc' = [pc EXCEPT ![r] = phase]

\* A token JwtStrategy.validate accepts: signed by the server, not on the deny-list.
Valid(k) == claims[k] # NoRow /\ k \notin revoked

\* JwtAuthGuard and RolesGuard: the role is the one in the token.
Admitted(op) ==
  op \in Unguarded \/ \E k \in Token : Valid(k) /\ (op \in AdminOnly => claims[k] = "ADMIN")

\* A client calls an endpoint and the guards let it in.
Call(r, op) ==
  /\ pc[r] = "ready" /\ op \in Operation /\ Cardinality(InFlight) < MaxInFlight
  /\ Admitted(op)

\* A handler returns or throws; its locals go out of scope.
Answer(r, reply) ==
  /\ Goto(r, reply)
  /\ target' = [target EXCEPT ![r] = NoId]
  /\ body'   = [body EXCEPT ![r] = NoBody]
  /\ loaded' = [loaded EXCEPT ![r] = NoRow]
  /\ seen'   = [seen EXCEPT ![r] = NoRow]

Change(r, op) == changed' = changed \cup {<<r, op>>} /\ UNCHANGED torn

\* Mutant of Given: a field is assigned although the body omits it.
GivenOrNot(value, default) == value

\* An optional field of a body: its value, or the default when it is omitted.
Given(value, default) == IF value = Absent THEN default ELSE value

\* One column of the UPDATE of save(): written when the entity differs from the
\* reloaded row (external, as in TicketStore).
Column(entity, reloaded, current) == IF entity = reloaded THEN current ELSE entity

-------------------------------------------------------------------------------
(* AuditLogInterceptor                                                     *)

Action(method) == [POST |-> "CREATE", PATCH |-> "UPDATE", DELETE |-> "DELETE"][method]

EntryOf(r, op, subject) ==
  [request |-> r, type |-> Route[op][2], action |-> Action(Route[op][1]), subject |-> subject,
   actor |-> IF op \in Unguarded THEN "SYSTEM" ELSE "USER"]

\* Mutant of Logged: the methods checked are POST and PATCH.
LoggedWithoutDelete(op) == Route[op][2] # "" /\ op # "importCsv" /\ Route[op][1] # "DELETE"

\* /auth is skipped, and resolveEntityId finds no id for an import: its response
\* has none and its route has no parameter.
Logged(op) == Route[op][2] # "" /\ op # "importCsv"

\* tap: only a handler that returned is logged, and the INSERT is not awaited.
Succeed(r, op, subject) ==
  /\ Answer(r, "200")
  /\ pending' = IF Logged(op) THEN pending \cup {EntryOf(r, op, subject)} ELSE pending
  /\ UNCHANGED trail

Fail(r, reply) == Answer(r, reply) /\ UNCHANGED audit

Continue(r, phase) == Goto(r, phase) /\ UNCHANGED audit

\* The INSERT of one audit row; INSERTs overtake each other.
InsertEntry(e) ==
  /\ e \in pending
  /\ pending' = pending \ {e}
  /\ trail' = trail \cup {e}
  /\ UNCHANGED <<tables, files, session, crashes, pc, locals, history>>

-------------------------------------------------------------------------------
\* The Node process dies and is restarted: what it kept in memory is gone.
Crash ==
  /\ crashes < MaxCrashes
  /\ crashes' = crashes + 1
  /\ revoked' = {} /\ pending' = {} /\ unlinking' = {}
  /\ pc' = [r \in Request |-> IF r \in InFlight THEN "lost" ELSE pc[r]]
  /\ target' = [r \in Request |-> NoId]
  /\ body'   = [r \in Request |-> NoBody]
  /\ loaded' = [r \in Request |-> NoRow]
  /\ seen'   = [r \in Request |-> NoRow]
  /\ torn' = torn \cup InFlight \cup {e.request : e \in pending} \cup unlinking
                  \cup {target[r] : r \in {q \in Request : pc[q] = "deleteRow"}}
  /\ UNCHANGED <<tables, trail, disk, claims, changed>>
===============================================================================

------------------------------ MODULE TicketStore ------------------------------
(***************************************************************************)
(* The state the ticket services share: the Postgres tables `tickets`,     *)
(* `ticket_dependencies` and the SYSTEM entries of `audit_logs`, the       *)
(* clock, and the locals of every handler in flight.                       *)
(*                                                                         *)
(* Node runs JavaScript on one thread, so the code between two awaits is   *)
(* one step; every SQL statement is one step.  A handler is a process with *)
(* a program counter pc[p]: an HTTP request (Request) serves one call and  *)
(* then stays at its status code; a slot of the cron job (Run) goes round. *)
(* The TypeORM repository operations the services call are modelled here   *)
(* by what they do to the tables (they are a library, external to src/).   *)
(***************************************************************************)
EXTENDS Integers, FiniteSets

CONSTANTS
  Ticket,         \* ids that the serial column tickets.id can hand out
  Project,        \* ids of existing projects
  User,           \* ids of existing users, in registration order
  Developer,      \* the users with role DEVELOPER
  Title,          \* the values of the plain columns (title, description, type)
  Request,        \* HTTP requests, each served once
  Run,            \* slots for runs of the cron job that may overlap
  Operation,      \* the endpoints the clients of this instance call
  UpdateDtos,     \* PATCH bodies the clients send
  CreateDtos,     \* POST bodies the clients send
  InitTickets,    \* contents the tickets table may start with
  InitDeps,       \* contents the ticket_dependencies table may start with
  MaxNow,         \* bound: the clock stops at MaxNow
  MaxInFlight,    \* bound: handlers that are in flight at the same time
  MaxCrashes,     \* bound: process crashes
  NoRow, NoTicket, NoUser, NoDate, NoDep, NoBody, Absent, Seed

\* STATUS_ORDER and PRIORITY_ORDER: an enum value is its index.
TODO        == 0
IN_PROGRESS == 1
IN_REVIEW   == 2
DONE        == 3
Status      == TODO..DONE

LOW      == 0
MEDIUM   == 1
HIGH     == 2
CRITICAL == 3
Priority == LOW..CRITICAL

Date     == 0..MaxNow
Proc     == Request \cup Run

\* The columns of the Ticket entity that a property can tell apart;
\* deleted stands for deletedAt IS NOT NULL, overdue for isOverdue.
Row == [project  : Project,
        title    : Title,
        status   : Status,
        priority : Priority,
        due      : Date \cup {NoDate},
        overdue  : BOOLEAN,
        assignee : User \cup {NoUser},
        version  : Nat,
        deleted  : BOOLEAN]

\* A row of ticket_dependencies; its primary key is named by the request that
\* inserted it (Seed: it was there before).
Dep == [id : Request \cup {Seed}, blocked : Ticket, blocker : Ticket]

\* The body of POST /tickets and PATCH /tickets/:id; Absent is an omitted field.
Dto == [project  : Project \cup {Absent},
        version  : Nat \cup {Absent},
        title    : Title \cup {Absent},
        status   : Status \cup {Absent},
        priority : Priority \cup {Absent},
        due      : Date \cup {NoDate, Absent},
        assignee : User \cup {NoUser, Absent}]

CreateTicketDto == {d \in Dto : d.project # Absent /\ d.title # Absent /\ d.version = Absent}
UpdateTicketDto == {d \in Dto : d.project = Absent}

\* Entries the services themselves write: who was auto-assigned to which ticket,
\* and from which priority a ticket was escalated.
AuditKey == ({"AUTO_ASSIGN"} \X Ticket \X User) \cup ({"ESCALATE"} \X Ticket \X Priority)

\* What a request ends with; "lost" when the process crashed under it.
Reply == {"200", "400", "404", "409", "500", "lost"}

RequestPhase == {"ready", "gate", "reload", "write", "insert", "logAssign",
                 "softRemove", "undelete", "reread", "readPair", "readPairMissing",
                 "lookup", "insertDep", "deleteDep", "listDeps"} \cup Reply
RunPhase     == {"idle", "next", "write", "logEscalation"}
Resting      == {"ready", "idle"} \cup Reply

Endpoint == {"create", "update", "remove", "restore", "addDependency",
             "removeDependency", "getDependencies"}

\* A ticket before the first call of a behaviour is as POST /tickets inserted it,
\* or that and then soft-deleted.
InitialRow(row) == /\ row.overdue = FALSE
                   /\ row.version = IF row.deleted THEN 2 ELSE 1

\* Dependencies join two different existing tickets of one project, and no pair
\* is there twice.
SoundLinks(rows, links) ==
  /\ \A d \in links : /\ d.blocked # d.blocker
                      /\ rows[d.blocked] # NoRow /\ rows[d.blocker] # NoRow
                      /\ rows[d.blocked].project = rows[d.blocker].project
  /\ \A d, e \in links : d.blocked = e.blocked /\ d.blocker = e.blocker => d = e

-------------------------------------------------------------------------------
ASSUME IdAssumption        == Ticket \subseteq Nat /\ User \subseteq Nat /\ Developer \subseteq User
ASSUME FiniteAssumption    == IsFiniteSet(Ticket)
ASSUME ProcAssumption      == Request \cap Run = {}
ASSUME OperationAssumption == Operation \subseteq Endpoint
ASSUME BoundAssumption     == MaxNow \in Nat /\ MaxInFlight \in Nat /\ MaxCrashes \in Nat
ASSUME NullAssumption      == /\ NoRow \notin Row /\ NoTicket \notin Ticket
                              /\ NoUser \notin User /\ NoDate \notin Date
                              /\ NoDep \notin Dep /\ NoBody \notin Dto /\ Seed \notin Request
ASSUME AbsentAssumption    == Absent \notin Project \cup Nat \cup Title \cup {NoUser, NoDate}
ASSUME DtoAssumption       ==
  UpdateDtos \subseteq UpdateTicketDto /\ CreateDtos \subseteq CreateTicketDto
ASSUME InitAssumption      ==
  /\ InitTickets \subseteq [Ticket -> Row \cup {NoRow}]
  /\ \A tt \in InitTickets : \A t \in Ticket : tt[t] # NoRow => InitialRow(tt[t])
  /\ InitDeps \subseteq SUBSET Dep
  /\ \A tt \in InitTickets, dd \in InitDeps : SoundLinks(tt, dd)

-------------------------------------------------------------------------------
VARIABLES
  tickets,   \* table tickets: id -> row
  deps,      \* table ticket_dependencies
  audit,     \* table audit_logs, SYSTEM entries: how many there are of each
  now,       \* the wall clock
  crashes,   \* crashes so far
  pc,        \* where each handler is
  target,    \* the ticket it works on
  body,      \* the DTO of a request
  loaded,    \* the row as its first SELECT returned it, or the row to insert
  seen,      \* the row as save() reloaded it to compute the changed columns
  link,      \* the dependency a request adds or removes
  unread,    \* the SELECTs of a Promise.all that have not returned
  batch      \* the rows a cron run still has to escalate, as its SELECT returned them

tables == <<tickets, deps, audit>>
locals == <<target, body, loaded, seen, link, unread, batch>>
env    == <<now, crashes>>
vars   == <<tables, env, pc, locals>>

NoBatch == [t \in Ticket |-> NoRow]

TypeOK ==
  /\ tickets \in [Ticket -> Row \cup {NoRow}]
  /\ deps \in SUBSET Dep
  /\ audit \in [AuditKey -> Nat]
  /\ now \in Date
  /\ crashes \in 0..MaxCrashes
  /\ pc \in [Proc -> RequestPhase \cup RunPhase]
  /\ target \in [Proc -> Ticket \cup {NoTicket}]
  /\ body \in [Request -> Dto \cup {NoBody}]
  /\ loaded \in [Proc -> Row \cup {NoRow}]
  /\ seen \in [Proc -> Row \cup {NoRow}]
  /\ link \in [Request -> Dep \cup {NoDep}]
  /\ unread \in [Request -> SUBSET Ticket]
  /\ batch \in [Run -> [Ticket -> Row \cup {NoRow}]]

Init ==
  /\ tickets \in InitTickets
  /\ deps \in InitDeps
  /\ audit = [k \in AuditKey |-> 0]
  /\ now = 0
  /\ crashes = 0
  /\ pc = [p \in Proc |-> IF p \in Request THEN "ready" ELSE "idle"]
  /\ target = [p \in Proc |-> NoTicket]
  /\ body = [r \in Request |-> NoBody]
  /\ loaded = [p \in Proc |-> NoRow]
  /\ seen = [p \in Proc |-> NoRow]
  /\ link = [r \in Request |-> NoDep]
  /\ unread = [r \in Request |-> {}]
  /\ batch = [k \in Run |-> NoBatch]

-------------------------------------------------------------------------------
(* Control of the handlers.                                                *)

InFlight == {p \in Proc : pc[p] \notin Resting}
CanStart == Cardinality(InFlight) < MaxInFlight

Goto(p, phase) == pc' = [pc EXCEPT ![p] = phase]

\* A client calls an endpoint: the request starts on its handler.
Call(r, op) == pc[r] = "ready" /\ op \in Operation /\ CanStart

\* A handler returns; its locals go out of scope.
Answer(r, reply) ==
  /\ Goto(r, reply)
  /\ target' = [target EXCEPT ![r] = NoTicket]
  /\ body'   = [body EXCEPT ![r] = NoBody]
  /\ loaded' = [loaded EXCEPT ![r] = NoRow]
  /\ seen'   = [seen EXCEPT ![r] = NoRow]
  /\ link'   = [link EXCEPT ![r] = NoDep]
  /\ unread' = [unread EXCEPT ![r] = {}]
  /\ UNCHANGED batch

-------------------------------------------------------------------------------
(* TypeORM on the tables (external).                                       *)

\* Mutant of Visible: soft-deleted rows are found too (withDeleted: true).
VisibleWithDeleted(t) == tickets[t] # NoRow

\* find, findBy and findOneBy leave soft-deleted rows out.
IsLive(row) == row # NoRow /\ ~row.deleted
Visible(t)  == IsLive(tickets[t])

\* One column of the UPDATE of save(entity): written when the entity differs
\* from the reloaded row, left as it is in the table when not.
Column(entity, reloaded, current) == IF entity = reloaded THEN current ELSE entity

\* Mutant of Merge: the version column is written like a plain column, so that
\* nothing increments it.
MergeWithoutVersion(entity, reloaded, current) ==
  [c \in DOMAIN current |-> Column(entity[c], reloaded[c], current[c])]

\* save(entity) with an id: the UPDATE writes the columns that differ from the
\* reloaded row.  It has no WHERE version = ...; the version column is
\* incremented by the database unless it is itself one of the differing columns.
Merge(entity, reloaded, current) ==
  IF entity = reloaded THEN current
  ELSE [project  |-> current.project,
        title    |-> Column(entity.title, reloaded.title, current.title),
        status   |-> Column(entity.status, reloaded.status, current.status),
        priority |-> Column(entity.priority, reloaded.priority, current.priority),
        due      |-> Column(entity.due, reloaded.due, current.due),
        overdue  |-> Column(entity.overdue, reloaded.overdue, current.overdue),
        assignee |-> Column(entity.assignee, reloaded.assignee, current.assignee),
        version  |-> Column(entity.version, reloaded.version, current.version + 1),
        deleted  |-> Column(entity.deleted, reloaded.deleted, current.deleted)]

\* The two statements of save(entity): SELECT the row by id (soft-deleted or
\* not), then UPDATE.
SaveReload(p, t)        == seen' = [seen EXCEPT ![p] = tickets[t]]
SaveWrite(p, t, entity) == tickets' = [tickets EXCEPT ![t] = Merge(entity, seen[p], @)]

\* Mutant of Marked: a deletion or a restore leaves the version as it is.
MarkedOnly(row, flag) == [row EXCEPT !.deleted = flag]

\* softRemove(entity) and restore(id): UPDATE of deletedAt alone, and of the version.
Marked(row, flag)   == [row EXCEPT !.deleted = flag, !.version = row.version + 1]
SetDeleted(t, flag) == tickets' = [tickets EXCEPT ![t] = Marked(@, flag)]

\* save(entity) without an id: INSERT with the next value of the sequence.
NextId(t) == tickets[t] = NoRow /\ \A u \in Ticket : tickets[u] = NoRow => t <= u

\* auditRepo.save(auditRepo.create(...)).
Log(key) == audit' = [audit EXCEPT ![key] = @ + 1]

-------------------------------------------------------------------------------
\* Time passes.
Tick == now < MaxNow /\ now' = now + 1 /\ UNCHANGED <<tables, crashes, pc, locals>>

\* The Node process dies and is restarted: every handler in flight is lost with
\* its locals, the committed statements stay.
Crash ==
  /\ crashes < MaxCrashes
  /\ crashes' = crashes + 1
  /\ pc' = [p \in Proc |-> IF p \in Run THEN "idle"
                           ELSE IF pc[p] \in Resting THEN pc[p] ELSE "lost"]
  /\ target' = [p \in Proc |-> NoTicket]
  /\ body'   = [r \in Request |-> NoBody]
  /\ loaded' = [p \in Proc |-> NoRow]
  /\ seen'   = [p \in Proc |-> NoRow]
  /\ link'   = [r \in Request |-> NoDep]
  /\ unread' = [r \in Request |-> {}]
  /\ batch'  = [k \in Run |-> NoBatch]
  /\ UNCHANGED <<tables, now>>
===============================================================================

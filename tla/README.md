# Verification of the IssueFlow server

IssueFlow (`src/`) is a NestJS server over one Postgres database, reached through
TypeORM: accounts and sessions, projects, tickets, dependencies between tickets,
comments, attachments, CSV import, an audit log, and a cron job that escalates
overdue tickets. This directory holds TLA+ models of it, the TLC configurations
that check them, and theorems checked by TLAPS.

Run, in this directory:

    tlc -config MC_serial.cfg MCTicketSystem      # serial, overlap, settle, second_writer,
                                                  # gate_race, revived, gate_fails
    tlc -config MC_import.cfg MCCsvImport
    tlc -config MC_comments.cfg MCComments        # comments, second_edit
    tlc -config MC_accounts.cfg MCServer          # accounts, upkeep
    tlapm TicketSystemProofs.tla                  # and SerialProofs, LedgerProofs, ImportProofs,
                                                  # CommentsProofs, ServerProofs, UpkeepProofs

## 1. Inventory

| Component (src/src/...) | State | Operations | Hard behaviour | What makes it correct |
|---|---|---|---|---|
| Tickets (`tickets/`) | table `tickets` | create (auto-assign), update, remove, restore, import/export CSV, reads | handlers interleave at each `await`; check-then-act without transaction; `save()` writes a stale entity | lifecycle one stage at a time, DONE final, gate on blockers, lost updates refused, soft-deleted stays deleted, least loaded developer |
| Dependencies (`dependencies/`) | table `ticket_dependencies` | add, remove, list, `allBlockersDone` | two SELECTs in parallel; duplicate adds race; blockers deleted later; cycles | two different tickets of one project, no pair twice; lists and gate answer |
| Escalation (`scheduler/`) | none (a batch of rows per run) | one run every minute | runs overlap each other and requests; works on a stale batch; crash between UPDATE and audit INSERT | one level per run, DONE untouched, marked at CRITICAL, each step logged, nothing stays late |
| Audit log (`audit-logs/`, `common/interceptors/`) | table `audit_logs` | SYSTEM entries by services; USER entries by the interceptor | the interceptor writes after the response, unawaited, errors swallowed | an entry per change, naming the right entity |
| Comments (`comments/`) | `comments`, `mentions` | create, update, remove, list | `syncMentions` is DELETE, SELECT, INSERT; `save()` takes the loaded mentions for all there are; version assigned to the entity | mentions are those of the content; second writer refused |
| Users (`users/`) | `users` | register, update, remove, mentions | uniqueness checked before two awaits; `save()` of a stale or removed account | names unique, edits undo no demotion |
| Auth (`auth/`, `common/guards/`) | in-memory deny-list | login, logout, me; strategy and guards | lost at restart | a logged-out token is refused |
| Projects (`projects/`) | `projects` | CRUD, soft delete, restore, workload | `save()` of a stale project; restore is an UPDATE and a SELECT | owners exist, edits write what was sent, the workload is what autoAssign counts |
| Attachments (`attachments/`) | `attachments`, files | upload, remove | file and row change separately, the unlink is not awaited | no row without file, no file without row |
| Pipeline and bootstrap (`main.ts`, filter, `app.*`) | none | validation, error format | – | – |

Interaction: every service shares the one database; `TicketsService.update` calls
`DependenciesService.allBlockersDone`; the job writes tickets through the same
repository as the requests and logs through `AuditLogsService`; the interceptor
wraps all controllers. There is no transaction around a handler and no lock in
the process, so the database statement is the unit of atomicity and everything
computed between two of them may be stale.

`PROJECT.json` lists the hazards by line. Modelled: everything in the table but the
last row.

## 2. Plan

1. *(done)* `TicketStore`, `Dependencies`, `Tickets`, `Escalation`, composed by
   `TicketSystem`; abstract `TicketBoard`.
2. *(done)* `Comments`: comments and mentions, concurrent `syncMentions`, the
   version the client sends.
3. *(done)* `ServerStore`, `Accounts`, `Projects`, `Attachments`, composed by `Server`
   with the guards, the sessions and the audit interceptor, and restarts.
4. *(done)* `CsvImport` on top of `TicketSystem`.
5. *(done)* Proofs for all safety properties of `Comments` and `Server`, for type
   correctness, dependencies, handlers and fresh commits of `TicketSystem`, and for
   every property of the serial system, the refinement of `TicketBoard` first.
6. *(done)* Proofs for the SYSTEM entries (`LedgerProofs`) and for the import
   (`ImportProofs`). Every invariant and action property of a passing run is now
   stated by a theorem.

The database is split over three systems, which share no written table: tickets and
dependencies (`TicketSystem`), comments and mentions (`Comments`), accounts, projects,
attachments and the interceptor's log (`Server`). They meet through foreign keys and
through reads of rows the others only take as constants; `Server` keeps of the other
services what the interceptor sees of them: that a handler has written, and how it ends
(`OtherCall`, `OtherStep`).

## 3. Modules

| Module | Models |
|---|---|
| `TicketStore` | constants with their assumptions, types, the tables, the locals of all handlers, `Init`, `TypeOK`; the TypeORM operations; clock and crash |
| `Dependencies` | `DependenciesService` |
| `Tickets` | `TicketsService` |
| `Escalation` | `EscalationService` |
| `TicketBoard` | what the services promise: every operation one step, no handlers |
| `TicketSystem` | composition, fairness, properties, the refinement `Board == INSTANCE TicketBoard` |
| `MCTicketSystem` | values of the constants for TLC |
| `TicketSystemProofs`, `SerialProofs`, `LedgerProofs` | theorems and proofs about `TicketSystem`; about the serial system; about its log |
| `CsvImport`, `MCCsvImport`, `ImportProofs` | `TicketsService.importCsv` beside the ticket services; its instance; theorems and proofs |
| `ServerStore` | constants, types, tables, disk, sessions and locals of `Server`; routes, the guards, `AuditLogInterceptor`, crash and restart |
| `Accounts` | `UsersService`, `AuthService` |
| `Projects` | `ProjectsService` |
| `Attachments` | `AttachmentsController`, `AttachmentsService` |
| `Server` | composition, refused requests, the other services as the interceptor sees them, fairness, properties |
| `MCServer`, `ServerProofs`, `UpkeepProofs` | its instances; theorems and proofs (the directory; files and log) |
| `Comments` | `CommentsService` with the tables `comments` and `mentions`; tickets and users are constants |
| `MCComments`, `CommentsProofs` | its instance, theorems and proofs |

### State and steps

A handler (HTTP request or slot of the cron job) is a process with a program
counter `pc[p]`. Node runs one thread, so the code between two awaits is one
step; each SQL statement is one step and what the handler computes from its
result belongs to it. Locals of the code are the functions `target` (id),
`body` (DTO), `loaded` (the entity as its first SELECT returned it), `seen` (the
row as `save()` reloaded it), `link`, `unread` (which SELECT of a `Promise.all` is
out) and `batch` (rows the job still has to do). A request is served once and
rests at its status code.

| Code | Actions |
|---|---|
| `create`, `autoAssign` | `CreateAssign` (load query), `CreateInsert`, `CreateLog` |
| `update` | `UpdateLoad` (findOne and checks), `UpdateGate` (allBlockersDone), `UpdateReload`, `UpdateWrite` (save) |
| `remove` / `restore` | `RemoveLoad`, `RemoveWrite` / `RestoreLoad`, `RestoreWrite`, `RestoreReread` |
| `addDependency` | `AddDependency`, `AddReadPair` (twice), `AddLookup`, `AddInsert` |
| `removeDependency`, `getDependencies` | `RemoveDependency`, `RemoveDelete`; `GetDependencies`, `ListDependencies` |
| `escalateOverdueTickets` | `EscalateScan`, then per ticket `EscalateReload`, `EscalateWrite`, `EscalateLog` |
| clock, process death | `Tick`, `Crash` |
| comments: `create` | `CreateComment` (INSERT), then syncMentions and loadOne |
| comments: `update` | `LoadForUpdate` (loadOne and the ticket check), `ReloadComment`, `ReloadMentions`, `SaveComment` (save), then syncMentions if the body has a content, and loadOne |
| comments: `remove` | `LoadForRemove`, `DeleteComment` |
| `syncMentions`, `loadOne` of the response | `ClearMentions`, `InsertMentions`; `Reread` |
| `importCsv` | `RefuseFile` (400 of the controller, 500 when csvParse throws) or `ParseFile`, per row `RefuseRow` or `CreateRow` (a full run of `create`) and `RowCreated`, `AnswerImport` |
| users: `create`, `update`, `remove` | `FindTaken`, `InsertUser`; `FindForUpdate`, `ReloadUser`, `SaveUser`; `FindForRemove`, `DeleteUser` |
| auth: `login`, `logout` | `FindCredentials`, `SignToken`; `Logout` |
| projects: `create`, `update` | `CreateProject`; `FindProject`, `ReloadProject`, `SaveProject` |
| projects: `remove`, `restore` | `FindToRemove`, `SoftRemoveProject`; `FindDeleted`, `UndeleteProject`, `RereadProject` |
| `getWorkload` | operator `Workload` in `TicketSystem` (`AssignsLeastLoaded` compares `autoAssign` with it) |
| attachments: `upload` | `StoreFile` (multer and the pipes), `LookupTicket`, `InsertAttachment` |
| attachments: `remove` | `FindAttachment` (and the unlink it issues), `DeleteAttachment`; `Unlink` |
| guards and pipes | `Admitted` in `Call`; `Refused` |
| `AuditLogInterceptor` | `Logged`, `EntryOf` in `Succeed`; `InsertEntry` |
| handlers of the other services, in `Server` | `WriteElsewhere` (fails, or has written), then `ReturnElsewhere`, `RestoredNotFound` (ticket `restore`), `CommentWrittenFails` (comments `create`, `update`) |

`Comments` is written the same way: `loaded` and `held` are the row and the mentions
`loadOne` returned, `seen` and `listed` what `save()` reloaded. One variable is no
state of the code: `met`, the handlers that have been on a comment together with
another one; `LoneHandlersConsistent` speaks about the others.

### TypeORM, as the code uses it (external)

* `find*` leave soft-deleted rows out; so does the relation `blocker`, which is
  then null (`BlockersAnswer`, `ListDependencies`). The order of rows without
  ORDER BY is open.
* `save(entity)` with an id is a SELECT by id, deleted rows included, then an
  UPDATE of the columns in which the entity differs from what that SELECT
  returned, `WHERE id = ...` alone. The version is incremented in SQL unless it
  differs itself; then the stale value is written. `OptimisticLockVersionMismatchError`
  is raised only by find with a lock option, so the catch in `update` is dead.
* `softRemove` and `restore` update `deletedAt` and increment the version.
* `updatedAt` is not a column of the ticket rows: it differs only where the version
  does. In `Comments`, where the client's version may equal the stored one while the
  rows differ, `updated` stands for it: the request that wrote last.
* `save(comment)` with a loaded one-to-many relation also reads the ids of the
  mentions in a second SELECT, and sets `commentId := NULL` on those that are not in
  the entity; the column is NOT NULL, so the transaction fails and the handler answers
  500 (`Orphans`). If the comment is gone, `save()` inserts it under its old id with
  version 1 (`SaveComment`).
* `save()` of a user or a project is the same SELECT and UPDATE without a version.
  A user row the SELECT did not find is inserted under its old id, and fails if the id,
  the name or the address is taken (`SaveUser`); one that goes between SELECT and
  UPDATE is updated nowhere. `users` is unique on username and on email; the foreign
  key of `projects.ownerId` refuses a DELETE of an owner, soft-deleted projects included
  (`InUse`), and an INSERT without one.
* `remove(comment)` is a DELETE by id; the foreign key of `mentions` cascades.
  `save(mentions)` is one INSERT, refused as a whole by the foreign key or by the
  unique constraint on user and comment.

### Abstractions and bounds

`title` stands for title, description and type; a date is a tick; a body field is
absent or a value. Statuses and priorities are the indices of `STATUS_ORDER` and
`PRIORITY_ORDER`. Explicit nulls in a body, foreign-key failures (unknown project
or assignee) and gaps of the id sequence are not modelled; reads of finished
handlers leave no state. Roles decide who may call `restore` and are not modelled:
every call is possible. Bounds: `MaxNow` (clock), `MaxInFlight` (handlers at once),
`MaxCrashes`, the sets of requests and ids (`IdLeft` keeps creates within the ids).
In `Comments` a content is a value with the set of users it names (`Named`, what
`extractUsernames` and the lookup yield for users that do not change) and the id of
a comment is the request that inserted it; the author is left out.
`Operation` names the endpoints the clients of a run use. `InitTickets` are rows as
`create` inserts them (any status: the DTO admits one).

In `Server` a row, a token and a file are named by the request that made them, `pending`
and `unlinking` are what the process has issued and nobody awaits, and two history
variables serve the properties: `changed` (which requests changed a table) and `torn`
(requests and files whose work a crash cut off). A token is a role and a place on the
deny-list; `name` of a project stands for name and description, `fullName` of a user is
the plain column. Of a handler of the tickets, comments or dependencies only its first write is a
step, since the interceptor sees nothing but the answer; a PATCH that finds nothing to
change counts as a change like any other, as the interceptor logs it. Bounds:
`MaxInFlight`, `MaxCrashes`, the sets of requests and ids.

## 4. Runs

Passing (two workers, two minutes at most each):

| Run | Instance | Shows |
|---|---|---|
| `serial` | 3 tickets, 2 projects, 3 requests on all endpoints, the job, 1 crash, one handler at a time | `TypeOK`; the statements of a handler add up to one operation of `TicketBoard` (`ImplementsBoard`), also when a crash cuts it short; `OverdueIsCritical`; `AssignsLeastLoaded` against the workload endpoint; `CyclesStayOpen` |
| `overlap` | 2 tickets of one or two projects, 3 requests (edit, remove, restore, link, unlink) and the job at once | `FreshCommits`, `HandlersSound`, `DepsSound` |
| `settle` | 1 ticket, 2 overlapping runs, 1 request, 1 crash | `LateTicketsSettle` under `FairSpec` |
| `import` | 4 ticket ids, an import of a file (two good rows around a bad one, or one row for the administrator), creates and removals of clients and the job beside it, 1 crash | `ImportsPrefix`, `ImportSpreads`; `EscalationsLogged`, `AssignmentsLogged` |
| `comments` | a comment with two mentions, 3 requests at once (each may create one more, edit or remove any), 1 crash | `TypeOK`, `MentionsSound`, `LoneHandlersConsistent` |
| `accounts` | 2 users, a project, a token, 3 requests at once on all endpoints of users, auth and projects (and one of dependencies), 1 restart | `TypeOK`, `DirectorySound`, `PatchesExact` |
| `upkeep` | an attachment, a project, 3 requests at once (upload, remove attachment, remove and restore project, restore a ticket, import, comment), 1 restart | `FilesMatchRows`, `ChangesLogged`; `SideEffectsSettle` under `FairSpec` |

The split between `serial` and the concurrent runs is the main result. A serial
server implements the board. A concurrent one does not, and `FreshCommits` says
exactly where it departs: only in a commit that another handler has *overtaken*
(`Overtaken`: the row changed since it was loaded or since `save()` reloaded it,
the gate no longer holds, the deletion mark is already there, a linked ticket is
deleted). Every violation run of `TicketSystem` below is such a commit or a soft-deleted
blocker.

Why the bounds are enough: an anomaly needs at most two handlers that overlap on
one row and a third that moves it; three requests (and a run of the job) give all
such triples, and a crash may fall between any two of their statements. Priority has
three steps, a ticket that starts HIGH meets the top at the first; `import` starts at
LOW. Two ticks separate "not yet late" and "late". The registrations of `accounts`
claim the name or the address of the user that others remove and save again, which is
the way to a duplicate. In `import` the titles of the rows differ and no client uses
them, so a ticket shows the row it came from. Requests are symmetric (`SYMMETRY`),
which is dropped for the liveness runs.

Violation runs, each a statement of the documents that the code does not keep
(`findings` in `PROJECT.json` quotes it):

| Run | Statement | Why it fails |
|---|---|---|
| `second_writer` | second concurrent PATCH gets 409 | `save()` does not compare versions |
| `second_edit` | second concurrent edit of a comment gets 409 | the version is assigned to the entity, and `save()` writes it |
| `gate_race` | DONE only past its blockers | link added after the gate |
| `revived` | deleted until restored | stale `deletedAt` is written back |
| `gate_fails` | an open blocker gives 400 | a soft-deleted blocker is null (`getDependencies` fails on the same null) |

Effects of the same kinds that have no run of their own:

* two overlapping runs of the job raise a ticket once and log the level twice (the
  reason `import` has one slot);
* a crash between `save()` and the audit INSERT loses the entry (the allowance for
  `crashes` in `EscalationsLogged` and `AssignmentsLogged`);
* a ticket that became DONE between the SELECT of the job and its `save()` is raised
  all the same (`TEST_PLAN.md:402`: never escalated);
* two creates that both query the loads before either inserts get the same developer
  (`AssignsLeastLoaded` holds in `serial` only);
* a PATCH of the priority that overlaps the job may leave the overdue mark on a ticket
  below CRITICAL (`PLAN.md:140`: a manual change resets it; `OverdueIsCritical` holds in
  `serial` only): the reset is no differing column of an entity loaded before;
* a POST of a comment on a ticket that does not exist answers 500, not the 404 of
  `TEST_PLAN.md:235` (`CreateComment`);
* of two crossing registrations of one name the second answers 500, not the 409 of the
  check (`InsertUser`); `DirectorySound` says that the database keeps the name single;
* an edit of a user or a project that overlaps another one, a demotion or a soft delete
  writes back what it loaded; an edit that overlaps a removal inserts the account again.
  `PatchesExact` says that this needs a commit between the two SELECTs of the edit;
* an import leaves no audit entry of its own, nor do the creates of its rows
  (`README.md:38`: all state-changing actions): its answer has no id and its route no
  parameter, so `resolveEntityId` finds none;
* a restore of a project or a ticket that is deleted again before the SELECT of its
  answer gets 404, and a comment whose mentions meet a constraint, or that is removed
  before it is loaded for the answer, gets 500 or 404: the change was made and leaves no
  entry. `ChangesLogged` names imports and these as the only answered changes without
  an entry;
* an upload with a malformed ticket id is refused after multer has stored the file, which
  stays (`Strays` in `FilesMatchRows`); with an unknown ticket it is unlinked;
* a token stays valid, with the role it was issued with, after its owner is demoted or
  removed, and a logged-out one is accepted again after a restart;
* two edits of one comment that cross may leave the mentions of both contents, or
  those of one beside the content of the other; an edit that crosses a removal may
  bring the comment back without its mentions. `MentionsSound` survives all of this,
  `LoneHandlersConsistent` excludes it by `met`, and says that the next handler that
  has the comment for itself repairs what they left.

Deadlock is checked in the runs of `TicketSystem`; the job's empty scan is always
possible, so that system never stops by itself. In `Comments` there is no job: every
request is served once and then nothing is left to do, so `CHECK_DEADLOCK FALSE`;
`Server` stops for the same reason.

### Fairness

`FairSpec` of `TicketSystem` assumes weak fairness of the steps of each handler that has started
(the event loop resumes it when its statement returns), of the scan of each slot
of the job (`@Cron` every minute) and of the clock. Clients owe no call and the
process need not crash. A slot is only started while `CanStart`; in `settle` the
bound exceeds the number of handlers, so it is no assumption about load.

`FairSpec` of `Server` assumes weak fairness of the steps of each handler that has
started, of the INSERTs of the audit entries and of the unlinks that have been issued:
Postgres and the operating system do what they were given, a database that fails is not
modelled. There is no fairness for calls, for a particular entry or file, or for `Crash`.

Each property has a mutant in the module it is about (the operators commented
"Mutant of"), a plausible bug under which its run fails.

## 5. Proofs

`TicketSystemProofs` proves, for all values of the constants that satisfy the
named assumptions of `TicketStore` (any number of tickets, requests, overlapping
runs and crashes):

| Theorem | Statement |
|---|---|
| `TypeCorrect` | `Spec => []TypeOK` |
| `DependenciesSound` | `Spec => []DepsSound` |
| `HandlersAreSound` | `Spec => []HandlersSound` |
| `FreshCommitsAreAtomic` | `Spec => FreshCommits` |

The inductive invariant is `IInv == TypeOK /\ DepsSound /\ HandlersSound`.
`DepsSound` is not inductive alone: that an INSERT joins existing tickets of one
project follows from what the handler checked two awaits before and from rows
never going away nor changing project (`LinkSound`). Likewise the stored row after
`save()` has its type only because the entity is a live row and the transition was
allowed (`UpdateSound`), and an escalated priority stays within range only because
the batch was selected below CRITICAL (`RunSound`). Each action has a lemma for the
type and one for what the rest of the invariant needs; handlers that do not move
keep their soundness because every step preserves the existence and the project of
rows. `FreshCommitsAreAtomic` uses `IInv` before the step: for every action that
writes a table, if the handler is not overtaken, its UPDATE equals the abstract
operation (`Edit`, `Escalate`, `Mark`, `Link`, ...).

`SerialProofs` extends it with what holds when the server is never called while it is
busy, for any number of tickets, requests, runs and crashes. Each theorem assumes
`MaxInFlight = 1`, as the run `serial` does:

| Theorem | Statement |
|---|---|
| `SerialImplementsBoard` | `Spec => ImplementsBoard` |
| `SerialOverdueIsCritical` | `Spec => []OverdueIsCritical` |
| `SerialCyclesStayOpen` | `Spec => CyclesStayOpen` |
| `SerialAssignsLeastLoaded` | `Spec => AssignsLeastLoaded` |
| `SerialGateHolds` | `Spec => GateHolds` |
| `SerialOnlyRestoreRevives` | `Spec => OnlyRestoreRevives` |

The invariant `SerialInv` says that at most one handler is in flight (`Alone`) and that
what it has read is still so (`Current`): the row it loaded, the blockers it counted, the
two ends of the dependency, the loads it ordered by, and of a run of the job every row of
the batch that is yet to be done. When a handler moves, all others rest, and a resting
handler holds nothing (`RestCurrent`). Hence nothing is ever overtaken, and by the lemma
behind `FreshCommitsAreAtomic` every step is a step of the board or leaves it alone: the
refinement. The next two are proved about steps of the board (`OverdueStays`,
`CycleStays`), where an operation changes one ticket in one of five ways, and carried over
by it. `SerialAssignsLeastLoaded` needs `Current` at the INSERT, and that the query of
`autoAssign` and `getWorkload` count the same set, which is finite. The last two are the
statements that the runs `gate_race` and `revived` refute with overlapping handlers: the
theorems say that some overlap is needed, not which. For the gate there is more than one
way: the link of `gate_race`, or a stale save that takes a blocker back from DONE. The first follows from the board (`GateStays`),
the second from `Current` at the two saves, whose rows are live when they are written.

`LedgerProofs` extends it with what the SYSTEM entries of the audit log say:

| Theorem | Assumes | Statement |
|---|---|---|
| `AssignmentsAreLogged` | `OnlyAutoAssigns` | `Spec => []AssignmentsLogged` |
| `EscalationsAreLogged` | `OnlyJobEscalates` | `Spec => []EscalationsLogged` |

The log can only be compared with the table where nobody else writes the column, hence
the two hypotheses about bodies and initial rows (`TicketSystem`). Even then whole
entities are saved that were read long before; that they carry the column as it is, is
the invariant `Agree(c)`, for any column that no PATCH names and the job leaves alone. It
is what `AssignmentsAreLogged` needs, at any number of handlers at once: `AInv` adds that
an entry is true (`EntriesTrue`), that a handler about to log is the only one for its
ticket (`LogsOnce`), and that there are no more of them than `MaxInFlight` (`Flight`), so
that a crash loses at most as many entries. The bound is an invariant of a cardinality:
an INSERT adds to neither side, a crash adds the tickets in flight to `Unlogged`.

Priorities do change, so for them `Agree` holds only where no stale entity is saved:
`OnlyJobEscalates` asks for one handler at a time (then `SerialInv` gives it), or for no
PATCH and one slot of the job. Neither can be dropped: a PATCH of the title that overlaps
a run writes the old priority back, and two runs raise a ticket once and log the level
twice. `EInv` says that a run holds the priority of the table (`PriorityCurrent`), that
the level it is about to log has no entry, and that each level was logged once and lies
below the priority of its ticket (`LevelsLogged`); the step that raises the priority owes
one entry, which its handler writes or a crash loses (`Lost`).

`ImportProofs` puts the import beside them:

| Theorem | Assumes | Statement |
|---|---|---|
| `ImportIsServed` | – | `ImportSpec => Spec` |
| `ImportedAssignmentsLogged` | `OnlyAutoAssigns` | `ImportSpec => []AssignmentsLogged` |
| `ImportedEscalationsLogged` | `OnlyJobEscalates` | `ImportSpec => []EscalationsLogged` |
| `ImportedTicketsArePrefix` | `OwnTitles` | `ImportSpec => []ImportsPrefix` |
| `ImportSpreadsLoad` | `OwnTitles`, `NothingRevives` | `ImportSpec => []ImportSpreads` |

An import creates its rows by the handler of POST, so each of its behaviours is one of the
ticket services (`ImportIsServed`) and what is proved of those holds around it. The tickets
of a file are told by their titles, which is why `OwnTitles` reserves them. `PInv` relates
the position of the loop to the tables: one ticket for each good row behind it, none for a
row ahead, and for the row it is at none, or one as soon as its create has inserted it
(`RowOK`), which after a crash may stay; ids grow with the rows (`OrderOK`); the counts are
those of the rows behind (`CountsOK`). `Agree("title")` keeps the others from changing any of
it. `SInv` adds `Spread`: in a project that satisfies `SpreadOnly` the loads differ by one at
most, and the developer chosen for the row in progress has the least, from the query of
the loads until the INSERT. That pair is inductive because nothing else moves a load there:
a deletion falsifies `SpreadOnly` for good. A restore, or a stale `deletedAt` written back
by a PATCH or by the job, would bring the project back with any loads, which is what
`NothingRevives` excludes; without it the statement is false.

TLC evaluates the four hypotheses on the instance of `import` (`Suitable`), and the
invariants `AInv`, `EInv`, `PInv`, `SInv` hold there.

`CommentsProofs` proves, again for all values of the constants:

| Theorem | Statement |
|---|---|
| `CommentsTypeCorrect` | `Spec => []TypeOK` |
| `MentionsAreSound` | `Spec => []MentionsSound` |
| `LoneHandlersAreConsistent` | `Spec => LoneHandlersConsistent` |

The inductive invariant `CInv` adds to the first two what a handler holds (`Holds`)
and, for one that has met nobody on its comment, that what it has read or written is
still so (`Alone`): the row is the one it loaded, the mentions those it listed, none
after `ClearMentions`. One lemma per action shows `Good(r)`: the step leaves the
locals of the others alone, touches no comment but the one of `r` (`TouchesOwn`) and
establishes `Alone` for `r`. `OthersAlone` then carries `Alone` over to everybody
else: a handler outside `met` is on another comment, which the step did not touch.
The theorem speaks of the stored content only for an edit that names no version or the
one of the comment (`UpToDate`): what the documents want of another one is what
`second_edit` is about. `LoneStep` reads the property off `Alone` before the step. `MentionsSound` needs
none of this: the two constraints of the database carry it.

`ServerProofs` proves, for any number of requests, rows, tokens, files and crashes:

| Theorem | Statement |
|---|---|
| `ServerTypeCorrect` | `Spec => []TypeOK` |
| `DirectoryIsSound` | `Spec => []DirectorySound` |
| `PatchesAreExact` | `Spec => PatchesExact` |

The unique constraint alone does not carry `DirectorySound`: the UPDATE of `SaveUser`
checks nothing in the model, since the columns it writes are no unique ones, and this is
what must be shown. The inductive invariant `SInv` says that all copies of an
account, in the table and in the handlers that edit it, carry one username and one
address (`OneIdentity`), and that the id of an account yet to be inserted is nowhere in
use (`Fresh`); `Holds` types the locals, `OnProject` keeps the project under an edit
there. One lemma per action shows `Good(r)`: what the step of handler `r` may do to
accounts and projects (`UsersKept`, `ProjectsKept`, `EditsKept`); `GoodStep` carries
`SInv` over it once for all.

`UpkeepProofs` extends it:

| Theorem | Statement |
|---|---|
| `FilesAndRowsMatch` | `Spec => []FilesMatchRows` |
| `ChangesAreLogged` | `Spec => []ChangesLogged` |

`FInv` adds to `SInv` where the request is that stored a file (`Uploads`: a row or a
removal only after it answered 200, the file on disk from `StoreFile` on) and that a
file with a row waits for its unlink only while a handler is about to delete the row
(`Unlinks`). That needs `Uploads` in turn: an upload that is refused unlinks its own
file, which has no row. `LogInv` rests on `Changes`: a request that changed a table has
answered, or is about to (`Midway`): the restore that reads its project again, and a
handler of another service after its write. From there it may still answer 404 or 500
without an entry; `Late` says which endpoints may. So there is no entry of a
request before its answer (`Earned`), and the answer adds exactly one. Every step of a
handler is `Silent`, or `Completes` a change, or makes one and goes on to `Midway`. That a
logged removal of an attachment stays one (`Gone`) uses `Uploads` again: only the
request that is the file's name could insert it, and that one has answered.

The assumptions are about the instance (null values are no values, ids are
numbers, requests are not runs, bodies are of the DTO types, the initial database
is one the API could have made); TLC evaluates them in every run.

Only model-checked: liveness (`LateTicketsSettle`, `SideEffectsSettle`), which with ENABLED
is out of this prover's reach. The violation runs need no proof: their counterexamples are
behaviours.

## 6. Not modelled

* Reads (`GET` endpoints, CSV export, the list of mentions) change nothing; those a
  property is about are operators (`Workload`) or actions (`GetDependencies`).
* The validation pipe, the exception filter and the serializer keep no state: what passes
  validation is in the sets of DTOs, what an exception becomes is the status code, and a
  request they turn away is `Refused`.
* Passwords, token signatures and expiry: a wrong password, a forged or an expired token
  is a 401 that may happen at any time.
* `performedBy` and `changes` of audit entries; of the type, the action and the entity of
  an entry all that the interceptor derives is there.
* A database that fails: an INSERT of an audit entry that is refused is swallowed by the
  interceptor, and a failing DELETE of an attachment leaves the row with no file; both are
  what a crash at that place leaves.
* Explicit nulls in bodies and foreign-key failures of tickets (unknown project or
  assignee).
* Postgres and TypeORM themselves are taken as described in section 3.

-------------------------------- MODULE Tickets --------------------------------
(***************************************************************************)
(* TicketsService: create with auto-assignment, update with the status     *)
(* lifecycle, soft delete and restore.  Each handler is its sequence of    *)
(* database statements; what it computes between two of them belongs to    *)
(* the step of the first.                                                  *)
(***************************************************************************)
EXTENDS Dependencies

\* An optional field of a body: its value, or the default when it is omitted.
Given(value, default) == IF value = Absent THEN default ELSE value

-------------------------------------------------------------------------------
(* create                                                                  *)

\* Mutant of OpenTickets: without ticket.deletedAt IS NULL.
OpenTicketsWithDeleted(u, project) ==
  {t \in Ticket : /\ tickets[t] # NoRow
                  /\ tickets[t].project = project
                  /\ tickets[t].assignee = u
                  /\ tickets[t].status # DONE}

\* The tickets that count as a developer's load in a project.
OpenTickets(u, project) ==
  {t \in Ticket : /\ Visible(t)
                  /\ tickets[t].project = project
                  /\ tickets[t].assignee = u
                  /\ tickets[t].status # DONE}

Load(u, project) == Cardinality(OpenTickets(u, project))

\* autoAssign's ORDER BY count ASC, createdAt ASC, first row.
LeastLoaded(u, project) ==
  /\ u \in Developer
  /\ \A v \in Developer : \/ Load(u, project) < Load(v, project)
                          \/ Load(u, project) = Load(v, project) /\ u <= v

AutoAssigned(dto) == dto.assignee \in {Absent, NoUser}

\* What autoAssign may return: null when there is no developer.
AutoAssignees(project) ==
  IF Developer = {} THEN {NoUser} ELSE {u \in Developer : LeastLoaded(u, project)}

\* The row the INSERT of create writes: column defaults for omitted fields.
NewRow(dto, assignee) ==
  [project  |-> dto.project,
   title    |-> dto.title,
   status   |-> Given(dto.status, TODO),
   priority |-> Given(dto.priority, LOW),
   due      |-> Given(dto.due, NoDate),
   overdue  |-> FALSE,
   assignee |-> assignee,
   version  |-> 1,
   deleted  |-> FALSE]

\* Bound: a create is only called while the ids of the instance last.
Creating == {r \in Request : pc[r] = "insert"}
IdLeft   == Cardinality(Creating) < Cardinality({t \in Ticket : tickets[t] = NoRow})

\* Without an assignee the handler first queries the loads; with one it goes
\* straight to the INSERT.
CreateAssign(r) ==
  /\ Call(r, "create") /\ IdLeft
  /\ \E dto \in CreateDtos :
     \E assignee \in IF AutoAssigned(dto) THEN AutoAssignees(dto.project) ELSE {dto.assignee} :
       /\ body' = [body EXCEPT ![r] = dto]
       /\ loaded' = [loaded EXCEPT ![r] = NewRow(dto, assignee)]
  /\ Goto(r, "insert")
  /\ UNCHANGED <<tables, env, target, seen, link, unread, batch>>

\* Mutant of LogsAssignment: every assigned ticket is logged as auto-assigned.
LogsAnyAssignment(r) == loaded[r].assignee # NoUser

\* The condition for the AUTO_ASSIGN entry.
LogsAssignment(r) == AutoAssigned(body[r]) /\ loaded[r].assignee # NoUser

CreateInsert(r) ==
  /\ pc[r] = "insert"
  /\ \E t \in Ticket :
       /\ NextId(t)
       /\ tickets' = [tickets EXCEPT ![t] = loaded[r]]
       /\ IF LogsAssignment(r)
          THEN /\ Goto(r, "logAssign")
               /\ target' = [target EXCEPT ![r] = t]
               /\ UNCHANGED <<body, loaded, seen, link, unread, batch>>
          ELSE Answer(r, "200")
  /\ UNCHANGED <<deps, audit, env>>

CreateLog(r) ==
  /\ pc[r] = "logAssign"
  /\ Log(<<"AUTO_ASSIGN", target[r], loaded[r].assignee>>)
  /\ Answer(r, "200")
  /\ UNCHANGED <<tickets, deps, env>>

-------------------------------------------------------------------------------
(* update                                                                  *)

\* Mutant of Assigned: isOverdue is not reset.
AssignedKeepsOverdue(row, dto) ==
  [row EXCEPT !.title    = Given(dto.title, @),
              !.status   = Given(dto.status, @),
              !.priority = Given(dto.priority, @),
              !.due      = Given(dto.due, @),
              !.assignee = Given(dto.assignee, @)]

\* Object.assign(ticket, updates), and the reset of isOverdue.
Assigned(row, dto) ==
  [row EXCEPT !.title    = Given(dto.title, @),
              !.status   = Given(dto.status, @),
              !.priority = Given(dto.priority, @),
              !.due      = Given(dto.due, @),
              !.assignee = Given(dto.assignee, @),
              !.overdue  = IF dto.priority = Absent THEN @ ELSE FALSE]

\* Mutant of TransitionAllowed: any later status will do.
AnyLaterStatus(row, dto) == dto.status \in {Absent} \cup (row.status + 1)..DONE

TransitionAllowed(row, dto) == dto.status = Absent \/ dto.status = row.status + 1

\* The client's version is compared with the row the handler has loaded.
VersionMatches(row, dto) == dto.version \in {Absent, row.version}

UpdateLoad(r) ==
  /\ Call(r, "update")
  /\ \E t \in Ticket, dto \in UpdateDtos :
       LET row  == tickets[t]
           keep == /\ target' = [target EXCEPT ![r] = t]
                   /\ body'   = [body EXCEPT ![r] = dto]
                   /\ loaded' = [loaded EXCEPT ![r] = row]
       IN  \/ ~Visible(t) /\ Answer(r, "404")
           \/ Visible(t) /\ row.status = DONE /\ Answer(r, "400")
           \/ /\ Visible(t) /\ row.status # DONE /\ ~TransitionAllowed(row, dto)
              /\ Answer(r, "400")
           \/ /\ Visible(t) /\ row.status # DONE /\ TransitionAllowed(row, dto)
              /\ \/ /\ dto.status = DONE
                    /\ Goto(r, "gate") /\ keep
                    /\ UNCHANGED <<seen, link, unread, batch>>
                 \/ /\ dto.status # DONE /\ VersionMatches(row, dto)
                    /\ Goto(r, "reload") /\ keep
                    /\ UNCHANGED <<seen, link, unread, batch>>
                 \/ /\ dto.status # DONE /\ ~VersionMatches(row, dto)
                    /\ Answer(r, "409")
  /\ UNCHANGED <<tables, env>>

\* The query of allBlockersDone, and what update does with the answer.
UpdateGate(r) ==
  /\ pc[r] = "gate"
  /\ \E answer \in BlockersAnswer(target[r]) :
       \/ answer = "throws" /\ Answer(r, "500")
       \/ answer = "open" /\ Answer(r, "400")
       \/ /\ answer = "done" /\ VersionMatches(loaded[r], body[r])
          /\ Goto(r, "reload") /\ UNCHANGED locals
       \/ /\ answer = "done" /\ ~VersionMatches(loaded[r], body[r])
          /\ Answer(r, "409")
  /\ UNCHANGED <<tables, env>>

UpdateReload(r) ==
  /\ pc[r] = "reload"
  /\ SaveReload(r, target[r])
  /\ Goto(r, "write")
  /\ UNCHANGED <<tables, env, target, body, loaded, link, unread, batch>>

\* TypeORM never throws OptimisticLockVersionMismatchError here, so the catch
\* block that answers 409 is not reached.
UpdateWrite(r) ==
  /\ pc[r] = "write"
  /\ SaveWrite(r, target[r], Assigned(loaded[r], body[r]))
  /\ Answer(r, "200")
  /\ UNCHANGED <<deps, audit, env>>

-------------------------------------------------------------------------------
(* remove and restore                                                      *)

RemoveLoad(r) ==
  /\ Call(r, "remove")
  /\ \E t \in Ticket :
       IF Visible(t)
       THEN /\ Goto(r, "softRemove")
            /\ target' = [target EXCEPT ![r] = t]
            /\ UNCHANGED <<body, loaded, seen, link, unread, batch>>
       ELSE Answer(r, "404")
  /\ UNCHANGED <<tables, env>>

RemoveWrite(r) ==
  /\ pc[r] = "softRemove"
  /\ SetDeleted(target[r], TRUE)
  /\ Answer(r, "200")
  /\ UNCHANGED <<deps, audit, env>>

RestoreLoad(r) ==
  /\ Call(r, "restore")
  /\ \E t \in Ticket :
       \/ tickets[t] = NoRow /\ Answer(r, "404")
       \/ Visible(t) /\ Answer(r, "400")
       \/ /\ tickets[t] # NoRow /\ tickets[t].deleted
          /\ Goto(r, "undelete")
          /\ target' = [target EXCEPT ![r] = t]
          /\ UNCHANGED <<body, loaded, seen, link, unread, batch>>
  /\ UNCHANGED <<tables, env>>

RestoreWrite(r) ==
  /\ pc[r] = "undelete"
  /\ SetDeleted(target[r], FALSE)
  /\ Goto(r, "reread")
  /\ UNCHANGED <<deps, audit, env, locals>>

RestoreReread(r) ==
  /\ pc[r] = "reread"
  /\ Answer(r, IF Visible(target[r]) THEN "200" ELSE "404")
  /\ UNCHANGED <<tables, env>>

TicketStep(r) ==
  \/ CreateInsert(r) \/ CreateLog(r)
  \/ UpdateGate(r) \/ UpdateReload(r) \/ UpdateWrite(r)
  \/ RemoveWrite(r) \/ RestoreWrite(r) \/ RestoreReread(r)

TicketCall(r) == CreateAssign(r) \/ UpdateLoad(r) \/ RemoveLoad(r) \/ RestoreLoad(r)
===============================================================================

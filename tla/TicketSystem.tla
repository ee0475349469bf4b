----------------------------- MODULE TicketSystem ------------------------------
(***************************************************************************)
(* The ticket services together: requests of the tickets and dependencies  *)
(* endpoints, runs of the escalation job, the clock and crashes, on one    *)
(* database.  MaxInFlight = 1 is a server that is never called while it is *)
(* busy; with more, handlers interleave at every await.                    *)
(***************************************************************************)
EXTENDS Tickets, Escalation

RequestStep(r) == TicketStep(r) \/ DependencyStep(r)
RequestCall(r) == TicketCall(r) \/ DependencyCall(r)

Next ==
  \/ \E r \in Request : RequestCall(r) \/ RequestStep(r)
  \/ \E k \in Run : EscalateScan(k) \/ EscalationStep(k)
  \/ Tick
  \/ Crash

Spec == Init /\ [][Next]_vars

\* A handler that has started is run by the event loop until it answers, the
\* cron job is started every minute, and time passes.  Clients owe no call.
Fairness ==
  /\ \A r \in Request : WF_vars(RequestStep(r))
  /\ \A k \in Run : WF_vars(EscalateScan(k)) /\ WF_vars(EscalationStep(k))
  /\ WF_vars(Tick)

FairSpec == Spec /\ Fairness

Board == INSTANCE TicketBoard WITH Board0 <- InitTickets, Links0 <- InitDeps

-------------------------------------------------------------------------------
(* Properties                                                              *)

\* A server that is never called while it is busy does what TicketBoard says:
\* the statements of each handler add up to one operation of the board.
ImplementsBoard == Board!Spec

\* The commit of handler p rests on something another handler has changed since
\* p read it: the row (or save()'s reload of it), the blockers the DONE gate
\* looked at, the deletion mark, or a ticket a new dependency joins.
GateOvertaken(r) == body[r].status = DONE /\ ~AllBlockersDone(target[r])

RowOvertaken(p) == tickets[target[p]] # loaded[p] \/ seen[p] # loaded[p]

Overtaken(p) ==
  \/ pc[p] = "write" /\ (RowOvertaken(p) \/ (p \in Request /\ GateOvertaken(p)))
  \/ pc[p] = "softRemove" /\ tickets[target[p]].deleted
  \/ pc[p] = "undelete" /\ ~tickets[target[p]].deleted
  \/ pc[p] = "insertDep" /\ ~(Visible(link[p].blocked) /\ Visible(link[p].blocker))

OvertakenCommit == \E p \in Proc : pc'[p] # pc[p] /\ Overtaken(p)

\* However handlers interleave, a commit whose reads still hold is an operation
\* of the board: every anomaly of the services comes from a commit that some
\* other handler has overtaken between a SELECT and the UPDATE.
FreshCommits == [][Board!Next \/ OvertakenCommit]_<<tickets, deps>>

\* Dependencies join two different existing tickets of one project and no pair
\* is there twice, also when two requests add the same link, or a ticket is
\* deleted between the checks of addDependency and its INSERT.
DepsSound == SoundLinks(tickets, deps)

\* What a handler has checked and read stays true of its locals and of the ids
\* it is about to write, whatever the others commit in between: a PATCH holds a
\* live ticket that was not DONE and an allowed transition, an INSERT of a link
\* has two tickets of one project, a run of the job holds rows that were late.
UpdateSound(r) ==
  pc[r] \in {"gate", "reload", "write"} =>
    /\ target[r] \in Ticket /\ tickets[target[r]] # NoRow
    /\ body[r] \in Dto /\ IsLive(loaded[r]) /\ loaded[r].status # DONE
    /\ TransitionAllowed(loaded[r], body[r])
    /\ pc[r] = "write" => seen[r] # NoRow

CreateSound(r) ==
  /\ pc[r] = "insert" =>
       /\ body[r] \in Dto /\ loaded[r] # NoRow
       /\ InitialRow(loaded[r]) /\ ~loaded[r].deleted
  /\ pc[r] = "logAssign" =>
       target[r] \in Ticket /\ loaded[r] # NoRow /\ loaded[r].assignee # NoUser

MarkSound(r) ==
  pc[r] \in {"softRemove", "undelete", "reread"} =>
    target[r] \in Ticket /\ tickets[target[r]] # NoRow

LinkSound(r) ==
  pc[r] \in {"readPair", "readPairMissing", "lookup", "insertDep"} =>
    /\ link[r] # NoDep /\ link[r].blocked # link[r].blocker
    /\ unread[r] \subseteq {link[r].blocked, link[r].blocker}
    /\ pc[r] = "readPair" =>
         \A t \in {link[r].blocked, link[r].blocker} \ unread[r] : tickets[t] # NoRow
    /\ pc[r] \in {"lookup", "insertDep"} => SoundLinks(tickets, {link[r]})

RunSound(k) ==
  /\ \A t \in Remaining(k) : tickets[t] # NoRow /\ IsLate(batch[k][t])
  /\ pc[k] \in {"write", "logEscalation"} =>
       /\ target[k] \in Ticket /\ tickets[target[k]] # NoRow
       /\ IsLate(loaded[k])
       /\ seen[k] # NoRow

RequestSound(r) == UpdateSound(r) /\ CreateSound(r) /\ MarkSound(r) /\ LinkSound(r)

HandlersSound == (\A r \in Request : RequestSound(r)) /\ (\A k \in Run : RunSound(k))

\* A ticket is marked overdue only at priority CRITICAL: escalation sets the
\* mark at the top, every manual priority change clears it.
OverdueIsCritical ==
  \A t \in Ticket : tickets[t] # NoRow /\ tickets[t].overdue => tickets[t].priority = CRITICAL

\* Tickets that wait for each other: none is DONE, each has a blocker among them.
Deadlocked(S) ==
  \A t \in S : /\ tickets[t] # NoRow /\ tickets[t].status # DONE
              /\ \E b \in S : b \in BlockersOf(t)

\* addDependency does not look for cycles; tickets in one stay open until one
\* of their dependencies is removed.
CyclesStayOpen ==
  [][\A S \in SUBSET Ticket : Deadlocked(S) => Deadlocked(S)' \/ deps \ deps' # {}]_<<tickets, deps>>

\* ProjectsService.getWorkload: the COUNT of the left join, per developer.
Workload(project) ==
  [u \in Developer |-> Cardinality({t \in Ticket :
     /\ tickets[t] # NoRow /\ tickets[t].assignee = u /\ tickets[t].project = project
     /\ tickets[t].status # DONE /\ ~tickets[t].deleted})]

\* The query of autoAssign and the workload endpoint agree: when the row of an
\* auto-assigned ticket is inserted, no developer has a smaller workload in its
\* project, and none with the same one registered earlier than the assignee.
AssignsLeastLoaded ==
  [][\A r \in Request :
       pc[r] = "insert" /\ pc'[r] = "logAssign" =>
         LET row  == loaded[r]
             load == Workload(row.project)
         IN  \A u \in Developer : \/ load[u] > load[row.assignee]
                                  \/ load[u] = load[row.assignee] /\ u >= row.assignee]_vars

\* No PATCH of a client names column c.
Keeps(c) == "update" \in Operation => \A d \in UpdateDtos : d[c] = Absent

\* Priorities are changed by the job only, from LOW: no client names one, and no
\* handler saves an entity with an older one (there is one handler at a time, or
\* no PATCH and one slot of the job).
OnlyJobEscalates ==
  /\ Keeps("priority")
  /\ \A d \in CreateDtos : d.priority \in {Absent, LOW}
  /\ \A tt \in InitTickets : \A t \in Ticket : tt[t] # NoRow => tt[t].priority = LOW
  /\ MaxInFlight = 1 \/ ("update" \notin Operation /\ \A k, l \in Run : k = l)

\* ESCALATE entries of a ticket and escalations still to be logged.
Logged(t)  == {k \in AuditKey : k[1] = "ESCALATE" /\ k[2] = t /\ audit[k] > 0}
Pending(t) == {k \in Run : pc[k] = "logEscalation" /\ target[k] = t}

\* Under OnlyJobEscalates priorities are what the audit log says: each level was
\* logged once, or its entry is about to be written, or it was lost in a crash
\* between the UPDATE and the INSERT.
EscalationsLogged ==
  \A t \in Ticket : tickets[t] # NoRow =>
    LET unlogged == tickets[t].priority - Cardinality(Logged(t)) - Cardinality(Pending(t))
    IN  /\ 0 <= unlogged /\ unlogged <= crashes
        /\ \A k \in Logged(t) : audit[k] = 1 /\ k[3] < tickets[t].priority

\* Developers are assigned by autoAssign only: no client names one, in the body of a
\* create or of an update, and no ticket has one at first.
OnlyAutoAssigns ==
  /\ Keeps("assignee")
  /\ \A d \in CreateDtos : d.assignee \notin Developer
  /\ \A tt \in InitTickets : \A t \in Ticket : tt[t] # NoRow => tt[t].assignee \notin Developer

\* Under OnlyAutoAssigns each ticket of a developer has one AUTO_ASSIGN entry,
\* naming them, or its handler is about to write it, or a crash lost it (no more
\* than were in flight); others have none.
AssignmentEntries(t) == {k \in AuditKey : k[1] = "AUTO_ASSIGN" /\ k[2] = t /\ audit[k] > 0}
Unlogged == {t \in Ticket : /\ tickets[t] # NoRow /\ tickets[t].assignee \in Developer
                            /\ AssignmentEntries(t) = {}
                            /\ \A r \in Request : ~(pc[r] = "logAssign" /\ target[r] = t)}

AssignmentsLogged ==
  /\ \A t \in Ticket : \A k \in AssignmentEntries(t) :
       audit[k] = 1 /\ k[3] \in Developer /\ k[3] = tickets[t].assignee
  /\ Cardinality(Unlogged) <= crashes * MaxInFlight

\* However runs and requests interleave, once the clients have made their calls
\* and the clock has stopped, no ticket stays late: each one is CRITICAL, DONE,
\* deleted, or due later.
LateTicketsSettle == <>[](\A t \in Ticket : ~Late(t))

-------------------------------------------------------------------------------
(* What the documents say and interleavings, deletions or crashes break.   *)

\* PLAN: with concurrent PATCH requests the second writer gets a conflict; so a
\* PATCH never overwrites a version it has not read.
SecondWriterConflicts ==
  [][\A r \in Request :
       pc[r] = "write" /\ pc'[r] = "200" /\ tickets' # tickets
         => tickets[target[r]].version = loaded[r].version]_vars

\* PLAN: a ticket becomes DONE only when every blocker is DONE.
GateHolds ==
  [][\A t \in Ticket :
       IsLive(tickets[t]) /\ tickets[t].status # DONE /\ tickets'[t].status = DONE
         => AllBlockersDone(t)]_vars

\* README: a deleted ticket comes back when it is restored, and only then.
OnlyRestoreRevives ==
  [][\A t \in Ticket :
       tickets[t] # NoRow /\ tickets[t].deleted /\ ~tickets'[t].deleted
         => \E r \in Request : pc[r] = "undelete" /\ target[r] = t]_vars

\* TEST_PLAN: the DONE transition is accepted or refused with a 400.
GateAnswers == [][\A r \in Request : pc[r] = "gate" => pc'[r] # "500"]_vars
===============================================================================

-------------------------- MODULE TicketSystemProofs ---------------------------
(***************************************************************************)
(* Type correctness, soundness of the dependencies and of what handlers    *)
(* hold across their awaits, and that fresh commits are operations of the  *)
(* board: for any number of tickets, requests and runs of the job.         *)
(*                                                                         *)
(* The argument: a step moves one handler.  The handlers that stay put are *)
(* undisturbed because a step never removes a row, never changes a row's   *)
(* project and never sets the clock back (Grow); so each action needs an   *)
(* argument about the one handler that moves only.                         *)
(***************************************************************************)
EXTENDS TicketSystem, TLAPS

IInv == TypeOK /\ DepsSound /\ HandlersSound

TablesOK ==
  /\ tickets \in [Ticket -> Row \cup {NoRow}]
  /\ deps \in SUBSET Dep
  /\ audit \in [AuditKey -> Nat]
  /\ now \in Date
  /\ crashes \in 0..MaxCrashes

LocalsOK ==
  /\ pc \in [Proc -> RequestPhase \cup RunPhase]
  /\ target \in [Proc -> Ticket \cup {NoTicket}]
  /\ body \in [Request -> Dto \cup {NoBody}]
  /\ loaded \in [Proc -> Row \cup {NoRow}]
  /\ seen \in [Proc -> Row \cup {NoRow}]
  /\ link \in [Request -> Dep \cup {NoDep}]
  /\ unread \in [Request -> SUBSET Ticket]
  /\ batch \in [Run -> [Ticket -> Row \cup {NoRow}]]

\* Rows and their projects stay, the clock does not run backwards.
Grow ==
  /\ \A t \in Ticket : tickets[t] # NoRow =>
       tickets'[t] # NoRow /\ tickets'[t].project = tickets[t].project
  /\ now <= now'

StaysRequest(r) ==
  /\ pc'[r] = pc[r] /\ target'[r] = target[r] /\ loaded'[r] = loaded[r]
  /\ seen'[r] = seen[r] /\ body'[r] = body[r] /\ link'[r] = link[r] /\ unread'[r] = unread[r]

StaysRun(k) ==
  /\ pc'[k] = pc[k] /\ target'[k] = target[k] /\ loaded'[k] = loaded[k]
  /\ seen'[k] = seen[k] /\ batch'[k] = batch[k]

\* Only handler p moves.
OnlyMoves(p) ==
  /\ \A r \in Request \ {p} : StaysRequest(r)
  /\ \A k \in Run \ {p} : StaysRun(k)

-------------------------------------------------------------------------------
(* The operators the handlers are built from.                              *)

LEMMA TypeParts == TypeOK <=> TablesOK /\ LocalsOK
BY DEF TypeOK, TablesOK, LocalsOK

\* save() writes a row of the table's columns and never moves it to another project.
LEMMA MergeRow ==
  ASSUME NEW e \in Row, NEW s \in Row, NEW c \in Row
  PROVE  Merge(e, s, c) \in Row /\ Merge(e, s, c).project = c.project
<1>1. /\ c.project \in Project
      /\ Column(e.title, s.title, c.title) \in Title
      /\ Column(e.status, s.status, c.status) \in Status
      /\ Column(e.priority, s.priority, c.priority) \in Priority
      /\ Column(e.due, s.due, c.due) \in Date \cup {NoDate}
      /\ Column(e.overdue, s.overdue, c.overdue) \in BOOLEAN
      /\ Column(e.assignee, s.assignee, c.assignee) \in User \cup {NoUser}
      /\ Column(e.version, s.version, c.version + 1) \in Nat
      /\ Column(e.deleted, s.deleted, c.deleted) \in BOOLEAN
  BY DEF Column, Row
<1>2. CASE e = s
  BY <1>2 DEF Merge
<1>3. CASE e # s
  BY <1>1, <1>3 DEF Merge, Row
<1>4. QED
  BY <1>2, <1>3

\* A PATCH that passed the checks of update leaves an entity that is a row.
LEMMA AssignedRow ==
  ASSUME NEW row \in Row, NEW dto \in Dto, row.status # DONE, TransitionAllowed(row, dto)
  PROVE  Assigned(row, dto) \in Row
<1>1. Given(dto.status, row.status) \in Status
  BY DEF Row, Dto, Given, TransitionAllowed, Status, TODO, DONE
<1>2. /\ Given(dto.title, row.title) \in Title
      /\ Given(dto.priority, row.priority) \in Priority
      /\ Given(dto.due, row.due) \in Date \cup {NoDate}
      /\ Given(dto.assignee, row.assignee) \in User \cup {NoUser}
      /\ (IF dto.priority = Absent THEN row.overdue ELSE FALSE) \in BOOLEAN
  BY DEF Given, Row, Dto
<1>3. QED
  BY <1>1, <1>2 DEF Assigned, Row

\* Raising the priority of a late ticket stays within PRIORITY_ORDER.
LEMMA EscalatedRow ==
  ASSUME NEW row \in Row, row.priority # CRITICAL
  PROVE  Escalated(row) \in Row
<1>1. row.priority + 1 \in Priority
  BY DEF Row, Priority, LOW, CRITICAL
<1>2. (IF row.priority + 1 = CRITICAL THEN TRUE ELSE row.overdue) \in BOOLEAN
  BY DEF Row
<1>3. QED
  BY <1>1, <1>2 DEF Escalated, Row

LEMMA NewRowRow ==
  ASSUME NEW dto \in CreateDtos, NEW a \in User \cup {NoUser}
  PROVE  /\ NewRow(dto, a) \in Row /\ InitialRow(NewRow(dto, a))
         /\ ~NewRow(dto, a).deleted /\ dto \in Dto
<1>1. dto \in Dto /\ dto.project # Absent /\ dto.title # Absent
  BY DtoAssumption DEF CreateTicketDto
<1>2. QED
  BY <1>1 DEF NewRow, Row, Dto, Given, Status, Priority, TODO, LOW, DONE, CRITICAL, InitialRow

-------------------------------------------------------------------------------
(* Handlers that stay put.                                                 *)

LEMMA LinksGrow ==
  ASSUME TablesOK, Grow, NEW links \in SUBSET Dep, SoundLinks(tickets, links)
  PROVE  SoundLinks(tickets', links)
BY DEF SoundLinks, Grow, Dep

LEMMA RequestStays ==
  ASSUME TypeOK, Grow, NEW r \in Request, StaysRequest(r), RequestSound(r)
  PROVE  RequestSound(r)'
<1>1. UpdateSound(r)'
  BY DEF RequestSound, UpdateSound, StaysRequest, Grow, IsLive, TransitionAllowed
<1>2. CreateSound(r)'
  BY DEF RequestSound, CreateSound, StaysRequest, InitialRow
<1>3. MarkSound(r)'
  BY DEF RequestSound, MarkSound, StaysRequest, Grow
<1>4. LinkSound(r)'
  BY NullAssumption DEF RequestSound, LinkSound, StaysRequest, Grow, SoundLinks, TypeOK, Dep
<1>5. QED
  BY <1>1, <1>2, <1>3, <1>4 DEF RequestSound

LEMMA LateStays ==
  ASSUME TypeOK, now' \in Date, now <= now', NEW row \in Row, IsLate(row)
  PROVE  IsLate(row)'
BY BoundAssumption, NullAssumption DEF IsLate, IsLive, Row, Date, TypeOK

LEMMA RunStays ==
  ASSUME TypeOK, TypeOK', Grow, NEW k \in Run, StaysRun(k), RunSound(k)
  PROVE  RunSound(k)'
<1>1. now' \in Date /\ now <= now'
  BY DEF TypeOK, Grow
<1>2. ASSUME NEW t \in Ticket, batch[k][t] # NoRow
      PROVE  tickets'[t] # NoRow /\ IsLate(batch[k][t])'
  <2>1. batch[k][t] \in Row /\ IsLate(batch[k][t]) /\ tickets[t] # NoRow
    BY <1>2 DEF RunSound, Remaining, TypeOK
  <2>2. tickets'[t] # NoRow
    BY <2>1 DEF Grow
  <2>3. PICK row \in Row : row = batch[k][t]
    BY <2>1
  <2>4. batch'[k][t] = row
    BY <2>3 DEF StaysRun
  <2>5. IsLate(row)'
    BY <2>1, <2>3, <1>1, LateStays
  <2>. QED
    BY <2>2, <2>4, <2>5, <2>3 DEF IsLate, IsLive
<1>3. ASSUME pc[k] \in {"write", "logEscalation"}
      PROVE  /\ target'[k] \in Ticket /\ tickets'[target'[k]] # NoRow
             /\ IsLate(loaded[k])' /\ seen'[k] # NoRow
  <2>1. /\ target[k] \in Ticket /\ tickets[target[k]] # NoRow
        /\ IsLate(loaded[k]) /\ seen[k] # NoRow
    BY <1>3 DEF RunSound
  <2>2. loaded[k] \in Row
    BY <2>1 DEF TypeOK, IsLate, IsLive, Proc
  <2>3. PICK row \in Row : row = loaded[k]
    BY <2>2
  <2>4. IsLate(row)'
    BY <2>1, <2>3, <1>1, LateStays
  <2>5. loaded'[k] = row
    BY <2>3 DEF StaysRun
  <2>. QED
    BY <2>1, <2>4, <2>5 DEF IsLate, IsLive, StaysRun, Grow
<1>. QED
  BY <1>2, <1>3 DEF RunSound, Remaining, StaysRun

\* One handler moved; its own soundness and the frame give the rest.
LEMMA OneMoved ==
  ASSUME TypeOK, HandlersSound, TypeOK', Grow, NEW p \in Proc, OnlyMoves(p),
         p \in Request => RequestSound(p)', p \in Run => RunSound(p)'
  PROVE  HandlersSound'
<1>1. ASSUME NEW r \in Request PROVE RequestSound(r)'
  <2>1. CASE r = p
    BY <2>1
  <2>2. CASE r # p
    BY <2>2, RequestStays DEF OnlyMoves, HandlersSound
  <2>. QED BY <2>1, <2>2
<1>2. ASSUME NEW k \in Run PROVE RunSound(k)'
  <2>1. CASE k = p
    BY <2>1
  <2>2. CASE k # p
    BY <2>2, RunStays DEF OnlyMoves, HandlersSound
  <2>. QED BY <2>1, <2>2
<1>. QED
  BY <1>1, <1>2 DEF HandlersSound

LEMMA TablesStay ==
  ASSUME TypeOK, UNCHANGED <<tables, env>>
  PROVE  TablesOK' /\ Grow
BY BoundAssumption DEF TypeOK, TablesOK, Grow, tables, env, Date

\* A request that answers holds nothing any more.
LEMMA Answered ==
  ASSUME TypeOK, NEW r \in Request, NEW reply \in Reply, Answer(r, reply)
  PROVE  LocalsOK' /\ OnlyMoves(r) /\ RequestSound(r)'
<1>1. pc'[r] = reply
  BY DEF Answer, Goto, TypeOK, Proc
<1>2. LocalsOK'
  BY DEF Answer, Goto, TypeOK, LocalsOK, Proc, RequestPhase
<1>3. OnlyMoves(r)
  BY ProcAssumption DEF Answer, Goto, TypeOK, OnlyMoves, StaysRequest, StaysRun, Proc
<1>4. pc'[r] \notin {"gate", "reload", "write", "insert", "logAssign", "softRemove", "undelete",
                    "reread", "readPair", "readPairMissing", "lookup", "insertDep"}
  BY <1>1 DEF Reply
<1>. QED
  BY <1>2, <1>3, <1>4 DEF RequestSound, UpdateSound, CreateSound, MarkSound, LinkSound

-------------------------------------------------------------------------------
(* The dependencies endpoints.                                             *)

RequestStepSound(r) == TablesOK' /\ LocalsOK' /\ Grow /\ OnlyMoves(r) /\ RequestSound(r)'

LEMMA AnswerStep ==
  ASSUME TypeOK, NEW r \in Request, NEW reply \in Reply, Answer(r, reply),
         UNCHANGED <<tables, env>>
  PROVE  RequestStepSound(r)
BY Answered, TablesStay DEF RequestStepSound

LEMMA AddDependencySound ==
  ASSUME IInv, NEW r \in Request, AddDependency(r)
  PROVE  RequestStepSound(r)
<1>. TypeOK /\ UNCHANGED <<tables, env>>
  BY DEF IInv, AddDependency
<1>. PICK blocked \in Ticket, blocker \in Ticket :
       IF blocked = blocker
       THEN Answer(r, "400")
       ELSE /\ Goto(r, "readPair")
            /\ link' = [link EXCEPT ![r] = [id |-> r, blocked |-> blocked, blocker |-> blocker]]
            /\ unread' = [unread EXCEPT ![r] = {blocked, blocker}]
            /\ UNCHANGED <<target, body, loaded, seen, batch>>
  BY DEF AddDependency
<1>1. CASE blocked = blocker
  BY <1>1, AnswerStep DEF Reply
<1>2. CASE blocked # blocker
  <2>. DEFINE d == [id |-> r, blocked |-> blocked, blocker |-> blocker]
  <2>1. d \in Dep
    BY DEF Dep
  <2>2. /\ pc' = [pc EXCEPT ![r] = "readPair"] /\ link' = [link EXCEPT ![r] = d]
        /\ unread' = [unread EXCEPT ![r] = {blocked, blocker}]
        /\ UNCHANGED <<target, body, loaded, seen, batch>>
    BY <1>2 DEF Goto
  <2>3. LocalsOK'
    BY <2>1, <2>2 DEF TypeOK, LocalsOK, Proc, RequestPhase
  <2>4. OnlyMoves(r)
    BY <2>2, ProcAssumption DEF TypeOK, OnlyMoves, StaysRequest, StaysRun, Proc
  <2>5. RequestSound(r)'
    <3>1. pc'[r] = "readPair" /\ link'[r] = d /\ unread'[r] = {blocked, blocker}
      BY <2>2 DEF TypeOK, Proc
    <3>2. link'[r] # NoDep /\ link'[r].blocked = blocked /\ link'[r].blocker = blocker
      BY <3>1, <2>1, NullAssumption
    <3>. QED
      BY <3>1, <3>2, <1>2 DEF RequestSound, UpdateSound, CreateSound, MarkSound, LinkSound
  <2>. QED
    BY <2>3, <2>4, <2>5, TablesStay DEF RequestStepSound
<1>. QED
  BY <1>1, <1>2

LEMMA AddReadPairSound ==
  ASSUME IInv, NEW r \in Request, AddReadPair(r)
  PROVE  RequestStepSound(r)
<1>. TypeOK /\ RequestSound(r) /\ UNCHANGED <<tables, env>> /\ pc[r] \in {"readPair", "readPairMissing"}
  BY DEF IInv, HandlersSound, AddReadPair
<1>. PICK t \in unread[r] :
       \/ /\ unread[r] # {t}
          /\ Goto(r, IF pc[r] = "readPairMissing" \/ ~Visible(t) THEN "readPairMissing" ELSE "readPair")
          /\ unread' = [unread EXCEPT ![r] = @ \ {t}]
          /\ UNCHANGED <<target, body, loaded, seen, link, batch>>
       \/ Answer(r, "404") \/ Answer(r, "400")
       \/ /\ unread[r] = {t} /\ ~(pc[r] = "readPairMissing" \/ ~Visible(t))
          /\ SameProject(link[r])
          /\ Goto(r, "lookup")
          /\ unread' = [unread EXCEPT ![r] = {}]
          /\ UNCHANGED <<target, body, loaded, seen, link, batch>>
  BY DEF AddReadPair
<1>0. /\ link[r] \in Dep /\ link[r].blocked # link[r].blocker
      /\ unread[r] \subseteq {link[r].blocked, link[r].blocker}
      /\ pc[r] = "readPair" =>
           \A u \in {link[r].blocked, link[r].blocker} \ unread[r] : tickets[u] # NoRow
  BY DEF RequestSound, LinkSound, TypeOK
<1>1. CASE Answer(r, "404") \/ Answer(r, "400")
  BY <1>1, AnswerStep DEF Reply
<1>2. CASE /\ unread[r] # {t}
           /\ Goto(r, IF pc[r] = "readPairMissing" \/ ~Visible(t) THEN "readPairMissing" ELSE "readPair")
           /\ unread' = [unread EXCEPT ![r] = @ \ {t}]
           /\ UNCHANGED <<target, body, loaded, seen, link, batch>>
  <2>1. PICK phase \in {"readPair", "readPairMissing"} :
          /\ pc' = [pc EXCEPT ![r] = phase]
          /\ phase = "readPair" => pc[r] = "readPair" /\ Visible(t)
    BY <1>2 DEF Goto
  <2>2. LocalsOK'
    BY <1>2, <2>1 DEF TypeOK, LocalsOK, Proc, RequestPhase
  <2>3. OnlyMoves(r)
    BY <1>2, <2>1, ProcAssumption DEF TypeOK, OnlyMoves, StaysRequest, StaysRun, Proc
  <2>4. /\ pc'[r] = phase /\ unread'[r] = unread[r] \ {t} /\ link'[r] = link[r]
        /\ tickets' = tickets
    BY <1>2, <2>1 DEF TypeOK, Proc, tables
  <2>5. LinkSound(r)'
    BY <2>1, <2>4, <1>0, NullAssumption DEF LinkSound, Visible, IsLive
  <2>6. RequestSound(r)'
    BY <2>4, <2>5 DEF RequestSound, UpdateSound, CreateSound, MarkSound
  <2>. QED
    BY <2>2, <2>3, <2>6, TablesStay DEF RequestStepSound
<1>3. CASE /\ unread[r] = {t} /\ ~(pc[r] = "readPairMissing" \/ ~Visible(t))
           /\ SameProject(link[r])
           /\ Goto(r, "lookup")
           /\ unread' = [unread EXCEPT ![r] = {}]
           /\ UNCHANGED <<target, body, loaded, seen, link, batch>>
  <2>1. LocalsOK'
    BY <1>3 DEF Goto, TypeOK, LocalsOK, Proc, RequestPhase
  <2>2. OnlyMoves(r)
    BY <1>3, ProcAssumption DEF Goto, TypeOK, OnlyMoves, StaysRequest, StaysRun, Proc
  <2>3. /\ pc'[r] = "lookup" /\ unread'[r] = {} /\ link'[r] = link[r] /\ tickets' = tickets
    BY <1>3 DEF Goto, TypeOK, Proc, tables
  <2>4. tickets[link[r].blocked] # NoRow /\ tickets[link[r].blocker] # NoRow
    BY <1>3, <1>0 DEF Visible, IsLive
  <2>5. LinkSound(r)'
    BY <2>3, <2>4, <1>0, <1>3, NullAssumption DEF LinkSound, SoundLinks, SameProject
  <2>6. RequestSound(r)'
    BY <2>3, <2>5 DEF RequestSound, UpdateSound, CreateSound, MarkSound
  <2>. QED
    BY <2>1, <2>2, <2>6, TablesStay DEF RequestStepSound
<1>. QED
  BY <1>1, <1>2, <1>3

LEMMA AddLookupSound ==
  ASSUME IInv, NEW r \in Request, AddLookup(r)
  PROVE  RequestStepSound(r)
<1>. TypeOK /\ RequestSound(r) /\ UNCHANGED <<tables, env>> /\ pc[r] = "lookup"
  BY DEF IInv, HandlersSound, AddLookup
<1>1. CASE Answer(r, "400")
  BY <1>1, AnswerStep DEF Reply
<1>2. CASE Goto(r, "insertDep") /\ UNCHANGED locals
  <2>1. LocalsOK'
    BY <1>2 DEF Goto, TypeOK, LocalsOK, Proc, RequestPhase, locals
  <2>2. OnlyMoves(r)
    BY <1>2, ProcAssumption DEF Goto, TypeOK, OnlyMoves, StaysRequest, StaysRun, Proc, locals
  <2>3. /\ pc'[r] = "insertDep" /\ unread'[r] = unread[r] /\ link'[r] = link[r] /\ tickets' = tickets
    BY <1>2 DEF Goto, TypeOK, Proc, tables, locals
  <2>4. RequestSound(r)'
    BY <2>3 DEF RequestSound, UpdateSound, CreateSound, MarkSound, LinkSound, SoundLinks
  <2>. QED
    BY <2>1, <2>2, <2>4, TablesStay DEF RequestStepSound
<1>. QED
  BY <1>1, <1>2 DEF AddLookup

LEMMA AddInsertSound ==
  ASSUME IInv, NEW r \in Request, AddInsert(r)
  PROVE  RequestStepSound(r) /\ DepsSound'
<1>. /\ TypeOK /\ DepsSound /\ RequestSound(r) /\ UNCHANGED <<tickets, audit, env>>
     /\ pc[r] = "insertDep"
  BY DEF IInv, HandlersSound, AddInsert
<1>1. /\ link[r] \in Dep /\ SoundLinks(tickets, {link[r]})
  BY DEF RequestSound, LinkSound, TypeOK
<1>2. PICK reply \in Reply : Answer(r, reply)
  BY DEF AddInsert, Reply
<1>3. \/ UNCHANGED deps
      \/ ~Linked(link[r]) /\ deps' = deps \cup {link[r]}
  BY DEF AddInsert
<1>4. TablesOK' /\ Grow
  BY <1>1, <1>3, BoundAssumption DEF TypeOK, TablesOK, Grow, env, Date
<1>5. DepsSound'
  BY <1>1, <1>3 DEF DepsSound, SoundLinks, Linked, SamePair
<1>. QED
  BY <1>2, <1>4, <1>5, Answered DEF RequestStepSound

LEMMA RemoveDependencySound ==
  ASSUME IInv, NEW r \in Request, RemoveDependency(r)
  PROVE  RequestStepSound(r)
<1>. TypeOK /\ UNCHANGED <<tables, env>>
  BY DEF IInv, RemoveDependency
<1>1. CASE Answer(r, "404")
  BY <1>1, AnswerStep DEF Reply
<1>2. CASE /\ Goto(r, "deleteDep")
           /\ \E d \in deps : link' = [link EXCEPT ![r] = d]
           /\ UNCHANGED <<target, body, loaded, seen, unread, batch>>
  <2>1. LocalsOK'
    BY <1>2 DEF Goto, TypeOK, LocalsOK, Proc, RequestPhase
  <2>2. OnlyMoves(r)
    BY <1>2, ProcAssumption DEF Goto, TypeOK, OnlyMoves, StaysRequest, StaysRun, Proc
  <2>3. pc'[r] = "deleteDep"
    BY <1>2 DEF Goto, TypeOK, Proc
  <2>4. RequestSound(r)'
    BY <2>3 DEF RequestSound, UpdateSound, CreateSound, MarkSound, LinkSound
  <2>. QED
    BY <2>1, <2>2, <2>4, TablesStay DEF RequestStepSound
<1>. QED
  BY <1>1, <1>2 DEF RemoveDependency

LEMMA RemoveDeleteSound ==
  ASSUME IInv, NEW r \in Request, RemoveDelete(r)
  PROVE  RequestStepSound(r) /\ DepsSound'
<1>. /\ TypeOK /\ DepsSound /\ UNCHANGED <<tickets, audit, env>>
     /\ deps' = deps \ {link[r]} /\ Answer(r, "200")
  BY DEF IInv, RemoveDelete
<1>1. TablesOK' /\ Grow
  BY BoundAssumption DEF TypeOK, TablesOK, Grow, env, Date
<1>2. DepsSound'
  BY DEF DepsSound, SoundLinks
<1>3. "200" \in Reply
  BY DEF Reply
<1>. QED
  BY <1>1, <1>2, <1>3, Answered DEF RequestStepSound

LEMMA GetDependenciesSound ==
  ASSUME IInv, NEW r \in Request, GetDependencies(r)
  PROVE  RequestStepSound(r)
<1>. TypeOK /\ UNCHANGED <<tables, env>>
  BY DEF IInv, GetDependencies
<1>1. CASE Answer(r, "404")
  BY <1>1, AnswerStep DEF Reply
<1>2. CASE /\ Goto(r, "listDeps")
           /\ \E t \in Ticket : target' = [target EXCEPT ![r] = t]
           /\ UNCHANGED <<body, loaded, seen, link, unread, batch>>
  <2>1. LocalsOK'
    BY <1>2 DEF Goto, TypeOK, LocalsOK, Proc, RequestPhase
  <2>2. OnlyMoves(r)
    BY <1>2, ProcAssumption DEF Goto, TypeOK, OnlyMoves, StaysRequest, StaysRun, Proc
  <2>3. pc'[r] = "listDeps"
    BY <1>2 DEF Goto, TypeOK, Proc
  <2>4. RequestSound(r)'
    BY <2>3 DEF RequestSound, UpdateSound, CreateSound, MarkSound, LinkSound
  <2>. QED
    BY <2>1, <2>2, <2>4, TablesStay DEF RequestStepSound
<1>. QED
  BY <1>1, <1>2 DEF GetDependencies

LEMMA ListDependenciesSound ==
  ASSUME IInv, NEW r \in Request, ListDependencies(r)
  PROVE  RequestStepSound(r)
<1>. PICK reply \in Reply : Answer(r, reply)
  BY DEF ListDependencies, Reply
<1>. QED
  BY AnswerStep DEF IInv, ListDependencies

-------------------------------------------------------------------------------
(* The tickets endpoints.                                                  *)

LEMMA CreateAssignSound ==
  ASSUME IInv, NEW r \in Request, CreateAssign(r)
  PROVE  RequestStepSound(r)
<1>. TypeOK /\ UNCHANGED <<tables, env>>
  BY DEF IInv, CreateAssign
<1>. PICK dto \in CreateDtos, assignee \in User \cup {NoUser} :
       /\ body' = [body EXCEPT ![r] = dto]
       /\ loaded' = [loaded EXCEPT ![r] = NewRow(dto, assignee)]
  <2>1. PICK dto \in CreateDtos :
          \E a \in IF AutoAssigned(dto) THEN AutoAssignees(dto.project) ELSE {dto.assignee} :
            /\ body' = [body EXCEPT ![r] = dto]
            /\ loaded' = [loaded EXCEPT ![r] = NewRow(dto, a)]
    BY DEF CreateAssign
  <2>2. AutoAssigned(dto) => AutoAssignees(dto.project) \subseteq User \cup {NoUser}
    BY IdAssumption DEF AutoAssignees
  <2>3. ~AutoAssigned(dto) => dto.assignee \in User \cup {NoUser}
    BY DtoAssumption DEF AutoAssigned, Dto, CreateTicketDto
  <2>. QED
    BY <2>1, <2>2, <2>3
<1>. DEFINE row == NewRow(dto, assignee)
<1>1. row \in Row /\ InitialRow(row) /\ ~row.deleted /\ dto \in Dto
  BY NewRowRow
<1>2. /\ pc' = [pc EXCEPT ![r] = "insert"] /\ body' = [body EXCEPT ![r] = dto]
      /\ loaded' = [loaded EXCEPT ![r] = row]
      /\ UNCHANGED <<target, seen, link, unread, batch>>
  BY DEF CreateAssign, Goto
<1>. HIDE DEF row
<1>3. LocalsOK'
  BY <1>1, <1>2 DEF TypeOK, LocalsOK, Proc, RequestPhase
<1>4. OnlyMoves(r)
  BY <1>2, ProcAssumption DEF TypeOK, OnlyMoves, StaysRequest, StaysRun, Proc
<1>5. pc'[r] = "insert" /\ body'[r] = dto /\ loaded'[r] = row
  BY <1>2 DEF TypeOK, Proc
<1>6. RequestSound(r)'
  BY <1>1, <1>5, NullAssumption
     DEF RequestSound, UpdateSound, CreateSound, MarkSound, LinkSound, InitialRow
<1>. QED
  BY <1>3, <1>4, <1>6, TablesStay DEF RequestStepSound

LEMMA CreateInsertSound ==
  ASSUME IInv, NEW r \in Request, CreateInsert(r)
  PROVE  RequestStepSound(r)
<1>. TypeOK /\ RequestSound(r) /\ UNCHANGED <<deps, audit, env>> /\ pc[r] = "insert"
  BY DEF IInv, HandlersSound, CreateInsert
<1>. PICK t \in Ticket :
       /\ NextId(t)
       /\ tickets' = [tickets EXCEPT ![t] = loaded[r]]
       /\ IF LogsAssignment(r)
          THEN /\ Goto(r, "logAssign")
               /\ target' = [target EXCEPT ![r] = t]
               /\ UNCHANGED <<body, loaded, seen, link, unread, batch>>
          ELSE Answer(r, "200")
  BY DEF CreateInsert
<1>1. loaded[r] \in Row
  BY DEF RequestSound, CreateSound, TypeOK, Proc
<1>2. TablesOK' /\ Grow
  BY <1>1, BoundAssumption DEF TypeOK, TablesOK, Grow, env, Date, NextId
<1>3. CASE Answer(r, "200")
  BY <1>2, <1>3, Answered DEF RequestStepSound, Reply
<1>4. CASE /\ loaded[r].assignee # NoUser
           /\ Goto(r, "logAssign")
           /\ target' = [target EXCEPT ![r] = t]
           /\ UNCHANGED <<body, loaded, seen, link, unread, batch>>
  <2>1. LocalsOK'
    BY <1>4 DEF Goto, TypeOK, LocalsOK, Proc, RequestPhase
  <2>2. OnlyMoves(r)
    BY <1>4, ProcAssumption DEF Goto, TypeOK, OnlyMoves, StaysRequest, StaysRun, Proc
  <2>3. pc'[r] = "logAssign" /\ target'[r] = t /\ loaded'[r] = loaded[r]
    BY <1>4 DEF Goto, TypeOK, Proc
  <2>4. RequestSound(r)'
    BY <2>3, <1>1, <1>4, NullAssumption
       DEF RequestSound, UpdateSound, CreateSound, MarkSound, LinkSound
  <2>. QED
    BY <1>2, <2>1, <2>2, <2>4 DEF RequestStepSound
<1>. QED
  BY <1>3, <1>4 DEF LogsAssignment

LEMMA CreateLogSound ==
  ASSUME IInv, NEW r \in Request, CreateLog(r)
  PROVE  RequestStepSound(r)
<1>. /\ TypeOK /\ RequestSound(r) /\ UNCHANGED <<tickets, deps, env>> /\ pc[r] = "logAssign"
     /\ Answer(r, "200") /\ Log(<<"AUTO_ASSIGN", target[r], loaded[r].assignee>>)
  BY DEF IInv, HandlersSound, CreateLog
<1>1. target[r] \in Ticket /\ loaded[r] \in Row /\ loaded[r].assignee # NoUser
  BY DEF RequestSound, CreateSound, TypeOK, Proc
<1>2. loaded[r].assignee \in User
  BY <1>1 DEF Row
<1>3. <<"AUTO_ASSIGN", target[r], loaded[r].assignee>> \in AuditKey
  BY <1>1, <1>2 DEF AuditKey
<1>4. audit' \in [AuditKey -> Nat]
  BY <1>3 DEF Log, TypeOK
<1>5. TablesOK' /\ Grow
  BY <1>4, BoundAssumption DEF TypeOK, TablesOK, Grow, env, Date
<1>. QED
  BY <1>5, Answered DEF RequestStepSound, Reply

LEMMA UpdateLoadSound ==
  ASSUME IInv, NEW r \in Request, UpdateLoad(r)
  PROVE  RequestStepSound(r)
<1>. TypeOK /\ UNCHANGED <<tables, env>>
  BY DEF IInv, UpdateLoad
<1>. PICK t \in Ticket, dto \in UpdateDtos :
       \/ Answer(r, "404") \/ Answer(r, "400") \/ Answer(r, "409")
       \/ /\ Visible(t) /\ tickets[t].status # DONE /\ TransitionAllowed(tickets[t], dto)
          /\ \/ Goto(r, "gate") \/ Goto(r, "reload")
          /\ target' = [target EXCEPT ![r] = t]
          /\ body' = [body EXCEPT ![r] = dto]
          /\ loaded' = [loaded EXCEPT ![r] = tickets[t]]
          /\ UNCHANGED <<seen, link, unread, batch>>
  BY DEF UpdateLoad
<1>1. CASE Answer(r, "404") \/ Answer(r, "400") \/ Answer(r, "409")
  BY <1>1, AnswerStep DEF Reply
<1>2. CASE /\ Visible(t) /\ tickets[t].status # DONE /\ TransitionAllowed(tickets[t], dto)
           /\ \/ Goto(r, "gate") \/ Goto(r, "reload")
           /\ target' = [target EXCEPT ![r] = t]
           /\ body' = [body EXCEPT ![r] = dto]
           /\ loaded' = [loaded EXCEPT ![r] = tickets[t]]
           /\ UNCHANGED <<seen, link, unread, batch>>
  <2>1. PICK phase \in {"gate", "reload"} : pc' = [pc EXCEPT ![r] = phase]
    BY <1>2 DEF Goto
  <2>2. dto \in Dto /\ tickets[t] \in Row
    BY <1>2, DtoAssumption DEF Visible, IsLive, TypeOK, UpdateTicketDto
  <2>3. LocalsOK'
    BY <1>2, <2>1, <2>2 DEF TypeOK, LocalsOK, Proc, RequestPhase
  <2>4. OnlyMoves(r)
    BY <1>2, <2>1, ProcAssumption DEF TypeOK, OnlyMoves, StaysRequest, StaysRun, Proc
  <2>5. /\ pc'[r] = phase /\ target'[r] = t /\ body'[r] = dto /\ loaded'[r] = tickets[t]
        /\ tickets' = tickets
    BY <1>2, <2>1 DEF TypeOK, Proc, tables
  <2>6. UpdateSound(r)'
    BY <1>2, <2>2, <2>5 DEF UpdateSound, Visible, IsLive, TransitionAllowed
  <2>7. RequestSound(r)'
    BY <2>5, <2>6 DEF RequestSound, CreateSound, MarkSound, LinkSound
  <2>. QED
    BY <2>3, <2>4, <2>7, TablesStay DEF RequestStepSound
<1>. QED
  BY <1>1, <1>2

LEMMA UpdateGateSound ==
  ASSUME IInv, NEW r \in Request, UpdateGate(r)
  PROVE  RequestStepSound(r)
<1>. TypeOK /\ RequestSound(r) /\ UNCHANGED <<tables, env>> /\ pc[r] = "gate"
  BY DEF IInv, HandlersSound, UpdateGate
<1>1. CASE \E reply \in Reply : Answer(r, reply)
  BY <1>1, AnswerStep
<1>2. CASE Goto(r, "reload") /\ UNCHANGED locals
  <2>1. LocalsOK'
    BY <1>2 DEF Goto, TypeOK, LocalsOK, Proc, RequestPhase, locals
  <2>2. OnlyMoves(r)
    BY <1>2, ProcAssumption DEF Goto, TypeOK, OnlyMoves, StaysRequest, StaysRun, Proc, locals
  <2>3. /\ pc'[r] = "reload" /\ target'[r] = target[r] /\ body'[r] = body[r]
        /\ loaded'[r] = loaded[r] /\ tickets' = tickets
    BY <1>2 DEF Goto, TypeOK, Proc, tables, locals
  <2>4. RequestSound(r)'
    BY <2>3 DEF RequestSound, UpdateSound, CreateSound, MarkSound, LinkSound, IsLive,
                TransitionAllowed
  <2>. QED
    BY <2>1, <2>2, <2>4, TablesStay DEF RequestStepSound
<1>. QED
  BY <1>1, <1>2 DEF UpdateGate, Reply

LEMMA UpdateReloadSound ==
  ASSUME IInv, NEW r \in Request, UpdateReload(r)
  PROVE  RequestStepSound(r)
<1>. /\ TypeOK /\ RequestSound(r) /\ UNCHANGED <<tables, env>> /\ pc[r] = "reload"
     /\ pc' = [pc EXCEPT ![r] = "write"]
     /\ seen' = [seen EXCEPT ![r] = tickets[target[r]]]
     /\ UNCHANGED <<target, body, loaded, link, unread, batch>>
  BY DEF IInv, HandlersSound, UpdateReload, Goto, SaveReload
<1>1. target[r] \in Ticket /\ tickets[target[r]] # NoRow /\ tickets[target[r]] \in Row
  BY DEF RequestSound, UpdateSound, TypeOK
<1>2. LocalsOK'
  BY <1>1 DEF TypeOK, LocalsOK, Proc, RequestPhase
<1>3. OnlyMoves(r)
  BY ProcAssumption DEF TypeOK, OnlyMoves, StaysRequest, StaysRun, Proc
<1>4. /\ pc'[r] = "write" /\ target'[r] = target[r] /\ body'[r] = body[r]
      /\ loaded'[r] = loaded[r] /\ tickets' = tickets /\ seen'[r] = tickets[target[r]]
  BY DEF TypeOK, Proc, tables
<1>5. RequestSound(r)'
  BY <1>1, <1>4 DEF RequestSound, UpdateSound, CreateSound, MarkSound, LinkSound, IsLive,
                    TransitionAllowed
<1>. QED
  BY <1>2, <1>3, <1>5, TablesStay DEF RequestStepSound

\* save() of a row that is there keeps the table typed and the row's project.
LEMMA SaveWriteTables ==
  ASSUME TypeOK, NEW p \in Proc, NEW t \in Ticket, NEW entity \in Row, tickets[t] # NoRow,
         seen[p] # NoRow, SaveWrite(p, t, entity), UNCHANGED <<deps, env>>,
         audit' \in [AuditKey -> Nat]
  PROVE  TablesOK' /\ Grow
<1>1. tickets[t] \in Row /\ seen[p] \in Row
  BY DEF TypeOK
<1>. DEFINE new == Merge(entity, seen[p], tickets[t])
<1>2. new \in Row /\ new.project = tickets[t].project
  BY <1>1, MergeRow
<1>3. tickets' = [tickets EXCEPT ![t] = new]
  BY DEF SaveWrite
<1>. HIDE DEF new
<1>. QED
  BY <1>2, <1>3, NullAssumption, BoundAssumption DEF TypeOK, TablesOK, Grow, env, Date

LEMMA UpdateWriteSound ==
  ASSUME IInv, NEW r \in Request, UpdateWrite(r)
  PROVE  RequestStepSound(r)
<1>. /\ TypeOK /\ RequestSound(r) /\ UNCHANGED <<deps, audit, env>> /\ pc[r] = "write"
     /\ SaveWrite(r, target[r], Assigned(loaded[r], body[r])) /\ Answer(r, "200")
  BY DEF IInv, HandlersSound, UpdateWrite
<1>1. /\ target[r] \in Ticket /\ tickets[target[r]] # NoRow /\ seen[r] # NoRow
      /\ loaded[r] \in Row /\ body[r] \in Dto /\ loaded[r].status # DONE
      /\ TransitionAllowed(loaded[r], body[r])
  BY DEF RequestSound, UpdateSound, TypeOK, IsLive, Proc
<1>2. Assigned(loaded[r], body[r]) \in Row
  BY <1>1, AssignedRow
<1>3. TablesOK' /\ Grow
  BY <1>1, <1>2, SaveWriteTables DEF TypeOK, Proc
<1>. QED
  BY <1>3, Answered DEF RequestStepSound, Reply

LEMMA MarkedRow ==
  ASSUME NEW row \in Row, NEW flag \in BOOLEAN
  PROVE  Marked(row, flag) \in Row /\ Marked(row, flag).project = row.project
<1>1. row.version + 1 \in Nat
  BY DEF Row
<1>. QED
  BY <1>1 DEF Marked, Row

LEMMA SetDeletedTables ==
  ASSUME TypeOK, NEW t \in Ticket, NEW flag \in BOOLEAN, tickets[t] # NoRow,
         SetDeleted(t, flag), UNCHANGED <<deps, audit, env>>
  PROVE  TablesOK' /\ Grow
<1>1. tickets[t] \in Row
  BY DEF TypeOK
<1>2. PICK new \in Row : new.project = tickets[t].project /\ tickets' = [tickets EXCEPT ![t] = new]
  BY <1>1, MarkedRow DEF SetDeleted
<1>. QED
  BY <1>2, NullAssumption, BoundAssumption DEF TypeOK, TablesOK, Grow, env, Date

\* remove and restore start alike: they hold the id of an existing row.
LEMMA MarkLoaded ==
  ASSUME TypeOK, NEW r \in Request, NEW phase \in {"softRemove", "undelete"}, NEW t \in Ticket,
         tickets[t] # NoRow, Goto(r, phase), target' = [target EXCEPT ![r] = t],
         UNCHANGED <<body, loaded, seen, link, unread, batch>>, UNCHANGED <<tables, env>>
  PROVE  RequestStepSound(r)
<1>1. LocalsOK'
  BY DEF Goto, TypeOK, LocalsOK, Proc, RequestPhase
<1>2. OnlyMoves(r)
  BY ProcAssumption DEF Goto, TypeOK, OnlyMoves, StaysRequest, StaysRun, Proc
<1>3. pc'[r] = phase /\ target'[r] = t /\ tickets' = tickets
  BY DEF Goto, TypeOK, Proc, tables
<1>4. RequestSound(r)'
  BY <1>3 DEF RequestSound, UpdateSound, CreateSound, MarkSound, LinkSound
<1>. QED
  BY <1>1, <1>2, <1>4, TablesStay DEF RequestStepSound

LEMMA RemoveLoadSound ==
  ASSUME IInv, NEW r \in Request, RemoveLoad(r)
  PROVE  RequestStepSound(r)
<1>. TypeOK /\ UNCHANGED <<tables, env>>
  BY DEF IInv, RemoveLoad
<1>1. CASE Answer(r, "404")
  BY <1>1, AnswerStep DEF Reply
<1>2. ASSUME ~Answer(r, "404") PROVE RequestStepSound(r)
  BY <1>2, MarkLoaded DEF RemoveLoad, Visible, IsLive
<1>. QED
  BY <1>1, <1>2

LEMMA RemoveWriteSound ==
  ASSUME IInv, NEW r \in Request, RemoveWrite(r)
  PROVE  RequestStepSound(r)
<1>. TypeOK /\ MarkSound(r) /\ pc[r] = "softRemove"
  BY DEF IInv, HandlersSound, RequestSound, RemoveWrite
<1>1. target[r] \in Ticket /\ tickets[target[r]] # NoRow
  BY DEF MarkSound
<1>2. TablesOK' /\ Grow
  BY <1>1, SetDeletedTables DEF RemoveWrite
<1>. QED
  BY <1>2, Answered DEF RemoveWrite, RequestStepSound, Reply

LEMMA RestoreLoadSound ==
  ASSUME IInv, NEW r \in Request, RestoreLoad(r)
  PROVE  RequestStepSound(r)
<1>. TypeOK /\ UNCHANGED <<tables, env>>
  BY DEF IInv, RestoreLoad
<1>1. CASE Answer(r, "404") \/ Answer(r, "400")
  BY <1>1, AnswerStep DEF Reply
<1>2. ASSUME ~Answer(r, "404"), ~Answer(r, "400") PROVE RequestStepSound(r)
  BY <1>2, MarkLoaded DEF RestoreLoad
<1>. QED
  BY <1>1, <1>2

LEMMA RestoreWriteSound ==
  ASSUME IInv, NEW r \in Request, RestoreWrite(r)
  PROVE  RequestStepSound(r)
<1>. /\ TypeOK /\ MarkSound(r) /\ pc[r] = "undelete" /\ pc' = [pc EXCEPT ![r] = "reread"]
     /\ SetDeleted(target[r], FALSE) /\ UNCHANGED <<deps, audit, env, locals>>
  BY DEF IInv, HandlersSound, RequestSound, RestoreWrite, Goto
<1>1. target[r] \in Ticket /\ tickets[target[r]] # NoRow
  BY DEF MarkSound
<1>2. TablesOK' /\ Grow
  BY <1>1, SetDeletedTables
<1>3. LocalsOK'
  BY DEF TypeOK, LocalsOK, Proc, RequestPhase, locals
<1>4. OnlyMoves(r)
  BY ProcAssumption DEF TypeOK, OnlyMoves, StaysRequest, StaysRun, Proc, locals
<1>5. pc'[r] = "reread" /\ target'[r] = target[r] /\ tickets'[target[r]] # NoRow
  BY <1>1, <1>2 DEF TypeOK, Proc, locals, Grow
<1>6. RequestSound(r)'
  BY <1>1, <1>5 DEF RequestSound, UpdateSound, CreateSound, MarkSound, LinkSound
<1>. QED
  BY <1>2, <1>3, <1>4, <1>6 DEF RequestStepSound

LEMMA RestoreRereadSound ==
  ASSUME IInv, NEW r \in Request, RestoreReread(r)
  PROVE  RequestStepSound(r)
<1>. PICK reply \in Reply : Answer(r, reply)
  BY DEF RestoreReread, Reply
<1>. QED
  BY AnswerStep DEF IInv, RestoreReread

-------------------------------------------------------------------------------
(* The escalation job.                                                     *)

RunStepSound(k) == TablesOK' /\ LocalsOK' /\ Grow /\ OnlyMoves(k) /\ RunSound(k)'

LEMMA EscalateScanSound ==
  ASSUME IInv, NEW k \in Run, EscalateScan(k)
  PROVE  RunStepSound(k)
<1>. TypeOK /\ RunSound(k) /\ UNCHANGED <<tables, env>> /\ pc[k] = "idle"
     /\ UNCHANGED <<target, body, loaded, seen, link, unread>>
  BY DEF IInv, HandlersSound, EscalateScan
<1>1. CASE UNCHANGED <<pc, batch>>
  <2>1. LocalsOK' /\ OnlyMoves(k)
    BY <1>1 DEF TypeOK, LocalsOK, OnlyMoves, StaysRequest, StaysRun
  <2>2. TypeOK' /\ Grow
    BY <2>1, TablesStay, TypeParts DEF TypeOK, TablesOK, LocalsOK
  <2>3. RunSound(k)'
    BY <1>1, <2>2, RunStays DEF StaysRun
  <2>. QED
    BY <2>1, <2>3, TablesStay DEF RunStepSound
<1>2. CASE /\ Goto(k, "next")
           /\ batch' = [batch EXCEPT ![k] = [t \in Ticket |-> IF Late(t) THEN tickets[t] ELSE NoRow]]
  <2>1. LocalsOK'
    BY <1>2 DEF Goto, TypeOK, LocalsOK, Proc, RunPhase
  <2>2. OnlyMoves(k)
    BY <1>2, ProcAssumption DEF Goto, TypeOK, OnlyMoves, StaysRequest, StaysRun, Proc
  <2>3. /\ pc'[k] = "next" /\ tickets' = tickets /\ now' = now
        /\ batch'[k] = [t \in Ticket |-> IF Late(t) THEN tickets[t] ELSE NoRow]
    BY <1>2 DEF Goto, TypeOK, Proc, tables, env
  <2>4. ASSUME NEW t \in Ticket, batch'[k][t] # NoRow
        PROVE  tickets'[t] # NoRow /\ IsLate(batch[k][t])'
    <3>1. Late(t) /\ batch'[k][t] = tickets[t]
      BY <2>3, <2>4
    <3>. QED
      BY <2>3, <3>1 DEF Late, IsLate, IsLive
  <2>5. RunSound(k)'
    BY <2>3, <2>4 DEF RunSound, Remaining
  <2>. QED
    BY <2>1, <2>2, <2>5, TablesStay DEF RunStepSound
<1>. QED
  BY <1>1, <1>2 DEF EscalateScan

LEMMA EscalateReloadSound ==
  ASSUME IInv, NEW k \in Run, EscalateReload(k)
  PROVE  RunStepSound(k)
<1>. TypeOK /\ RunSound(k) /\ UNCHANGED <<tables, env>> /\ UNCHANGED <<body, link, unread>>
     /\ pc' = [pc EXCEPT ![k] = "write"]
  BY DEF IInv, HandlersSound, EscalateReload, Goto
<1>1. PICK t \in Ticket :
        /\ batch[k][t] # NoRow
        /\ target' = [target EXCEPT ![k] = t]
        /\ loaded' = [loaded EXCEPT ![k] = batch[k][t]]
        /\ batch'  = [batch EXCEPT ![k] = [@ EXCEPT ![t] = NoRow]]
        /\ seen' = [seen EXCEPT ![k] = tickets[t]]
  BY DEF EscalateReload, Remaining, SaveReload
<1>2. batch[k][t] \in Row /\ tickets[t] # NoRow /\ tickets[t] \in Row /\ IsLate(batch[k][t])
  BY <1>1 DEF RunSound, Remaining, TypeOK
<1>3. LocalsOK'
  BY <1>1, <1>2 DEF TypeOK, LocalsOK, Proc, RunPhase
<1>4. OnlyMoves(k)
  BY <1>1, ProcAssumption DEF TypeOK, OnlyMoves, StaysRequest, StaysRun, Proc
<1>5. /\ target'[k] = t /\ loaded'[k] = batch[k][t] /\ seen'[k] = tickets[t]
      /\ tickets' = tickets /\ now' = now
      /\ \A u \in Ticket : batch'[k][u] # NoRow => batch'[k][u] = batch[k][u]
  BY <1>1 DEF TypeOK, Proc, tables, env
<1>6. ASSUME NEW u \in Ticket, batch'[k][u] # NoRow
      PROVE  tickets'[u] # NoRow /\ IsLate(batch[k][u])'
  <2>1. batch'[k][u] = batch[k][u] /\ tickets[u] # NoRow /\ IsLate(batch[k][u])
    BY <1>5, <1>6 DEF RunSound, Remaining
  <2>. QED
    BY <1>5, <2>1 DEF IsLate, IsLive
<1>7. IsLate(loaded[k])'
  BY <1>2, <1>5 DEF IsLate, IsLive
<1>8. RunSound(k)'
  BY <1>2, <1>5, <1>6, <1>7 DEF RunSound, Remaining
<1>. QED
  BY <1>3, <1>4, <1>8, TablesStay DEF RunStepSound

LEMMA EscalateWriteSound ==
  ASSUME IInv, NEW k \in Run, EscalateWrite(k)
  PROVE  RunStepSound(k)
<1>. /\ TypeOK /\ RunSound(k) /\ UNCHANGED <<deps, audit, env, locals>> /\ pc[k] = "write"
     /\ pc' = [pc EXCEPT ![k] = "logEscalation"]
     /\ SaveWrite(k, target[k], Escalated(loaded[k]))
  BY DEF IInv, HandlersSound, EscalateWrite, Goto
<1>1. /\ target[k] \in Ticket /\ tickets[target[k]] # NoRow /\ seen[k] # NoRow
      /\ IsLate(loaded[k]) /\ loaded[k] \in Row
  BY DEF RunSound, TypeOK, IsLate, IsLive, Proc
<1>2. Escalated(loaded[k]) \in Row
  BY <1>1, EscalatedRow DEF IsLate
<1>3. TablesOK' /\ Grow
  BY <1>1, <1>2, SaveWriteTables DEF TypeOK, Proc
<1>4. LocalsOK'
  BY DEF TypeOK, LocalsOK, Proc, RunPhase, locals
<1>5. OnlyMoves(k)
  BY ProcAssumption DEF TypeOK, OnlyMoves, StaysRequest, StaysRun, Proc, locals
<1>6. /\ target'[k] = target[k] /\ loaded'[k] = loaded[k] /\ seen'[k] = seen[k]
      /\ batch' = batch /\ now' = now
  BY DEF locals, env
<1>7. ASSUME NEW u \in Ticket, batch'[k][u] # NoRow
      PROVE  tickets'[u] # NoRow /\ IsLate(batch[k][u])'
  <2>1. tickets[u] # NoRow /\ IsLate(batch[k][u])
    BY <1>6, <1>7 DEF RunSound, Remaining
  <2>. QED
    BY <1>3, <1>6, <2>1 DEF IsLate, IsLive, Grow
<1>8. IsLate(loaded[k])' /\ tickets'[target'[k]] # NoRow
  BY <1>1, <1>3, <1>6 DEF IsLate, IsLive, Grow
<1>9. RunSound(k)'
  BY <1>1, <1>6, <1>7, <1>8 DEF RunSound, Remaining
<1>. QED
  BY <1>3, <1>4, <1>5, <1>9 DEF RunStepSound

LEMMA EscalateLogSound ==
  ASSUME IInv, NEW k \in Run, EscalateLog(k)
  PROVE  RunStepSound(k)
<1>. /\ TypeOK /\ RunSound(k) /\ UNCHANGED <<tickets, deps, env, body, link, unread, batch>>
     /\ pc[k] = "logEscalation"
  BY DEF IInv, HandlersSound, EscalateLog
<1>1. target[k] \in Ticket /\ loaded[k] \in Row
  BY DEF RunSound, TypeOK, IsLate, IsLive, Proc
<1>2. <<"ESCALATE", target[k], loaded[k].priority>> \in AuditKey
  BY <1>1 DEF AuditKey, Row
<1>3. audit' \in [AuditKey -> Nat]
  BY <1>2 DEF EscalateLog, Log, TypeOK, PreviousPriority
<1>4. TablesOK' /\ Grow
  BY <1>3, BoundAssumption DEF TypeOK, TablesOK, Grow, env, Date
<1>5. PICK phase \in {"idle", "next"} : pc' = [pc EXCEPT ![k] = phase]
  BY DEF EscalateLog, Goto
<1>6. LocalsOK'
  BY <1>5 DEF EscalateLog, TypeOK, LocalsOK, Proc, RunPhase
<1>7. OnlyMoves(k)
  BY <1>5, ProcAssumption DEF EscalateLog, TypeOK, OnlyMoves, StaysRequest, StaysRun, Proc
<1>8. pc'[k] = phase
  BY <1>5 DEF TypeOK, Proc
<1>9. ASSUME NEW u \in Ticket, batch'[k][u] # NoRow
      PROVE  tickets'[u] # NoRow /\ IsLate(batch[k][u])'
  <2>1. tickets[u] # NoRow /\ IsLate(batch[k][u])
    BY <1>9 DEF RunSound, Remaining
  <2>. QED
    BY <2>1 DEF IsLate, IsLive, env
<1>10. RunSound(k)'
  BY <1>8, <1>9 DEF RunSound, Remaining
<1>. QED
  BY <1>4, <1>6, <1>7, <1>10 DEF RunStepSound

-------------------------------------------------------------------------------
(* Clock, crash, and the inductive invariant.                              *)

LEMMA CrashSound ==
  ASSUME IInv, Crash
  PROVE  IInv'
<1>1. TablesOK'
  BY BoundAssumption DEF IInv, TypeOK, TablesOK, Crash, tables
<1>2. LocalsOK'
  BY DEF IInv, TypeOK, LocalsOK, Crash, NoBatch, Proc, RequestPhase, RunPhase, Reply, Resting
<1>3. ASSUME NEW r \in Request PROVE RequestSound(r)'
  <2>1. pc'[r] \in Resting
    BY ProcAssumption DEF Crash, Proc, Resting, Reply
  <2>. QED
    BY <2>1 DEF RequestSound, UpdateSound, CreateSound, MarkSound, LinkSound, Resting, Reply
<1>4. ASSUME NEW k \in Run PROVE RunSound(k)'
  <2>1. pc'[k] = "idle" /\ batch'[k] = NoBatch
    BY DEF Crash, Proc
  <2>. QED
    BY <2>1 DEF RunSound, Remaining, NoBatch
<1>5. DepsSound'
  BY DEF IInv, DepsSound, Crash, tables, SoundLinks
<1>. QED
  BY <1>1, <1>2, <1>3, <1>4, <1>5, TypeParts DEF IInv, HandlersSound, TypeOK, TablesOK, LocalsOK

LEMMA StillSound ==
  ASSUME IInv, UNCHANGED <<tables, crashes, pc, locals>>, now' \in Date, now <= now'
  PROVE  IInv'
<1>1. TypeOK' /\ Grow
  BY DEF IInv, TypeOK, Grow, tables, locals
<1>2. ASSUME NEW r \in Request PROVE RequestSound(r)'
  BY <1>1, RequestStays DEF IInv, HandlersSound, StaysRequest, locals
<1>3. ASSUME NEW k \in Run PROVE RunSound(k)'
  BY <1>1, RunStays DEF IInv, HandlersSound, StaysRun, locals
<1>4. DepsSound'
  BY DEF IInv, DepsSound, tables, SoundLinks
<1>. QED
  BY <1>1, <1>2, <1>3, <1>4 DEF IInv, HandlersSound

LEMMA DepsUntouched ==
  ASSUME TypeOK, DepsSound, Grow, UNCHANGED deps
  PROVE  DepsSound'
<1>1. SoundLinks(tickets', deps)
  BY LinksGrow, TypeParts DEF DepsSound, TypeOK
<1>. QED
  BY <1>1 DEF DepsSound, SoundLinks

LEMMA InitSound == Init => IInv
<1>. SUFFICES ASSUME Init PROVE IInv
  OBVIOUS
<1>1. TypeOK
  BY InitAssumption, BoundAssumption
     DEF Init, TypeOK, NoBatch, Date, RequestPhase, RunPhase, Proc
<1>2. DepsSound
  BY InitAssumption DEF Init, DepsSound
<1>3. ASSUME NEW r \in Request PROVE RequestSound(r)
  BY DEF Init, RequestSound, UpdateSound, CreateSound, MarkSound, LinkSound, Proc
<1>4. ASSUME NEW k \in Run PROVE RunSound(k)
  BY ProcAssumption DEF Init, RunSound, Remaining, NoBatch, Proc
<1>. QED
  BY <1>1, <1>2, <1>3, <1>4 DEF IInv, HandlersSound

\* A step of a request, with its dependencies table, keeps the invariant.
LEMMA RequestMoves ==
  ASSUME IInv, NEW r \in Request, RequestStepSound(r), DepsSound'
  PROVE  IInv'
<1>1. TypeOK'
  BY DEF RequestStepSound, TypeOK, TablesOK, LocalsOK
<1>2. HandlersSound'
  BY <1>1, OneMoved, ProcAssumption DEF IInv, RequestStepSound, Proc
<1>. QED
  BY <1>1, <1>2 DEF IInv

LEMMA RunMoves ==
  ASSUME IInv, NEW k \in Run, RunStepSound(k), DepsSound'
  PROVE  IInv'
<1>1. TypeOK'
  BY DEF RunStepSound, TypeOK, TablesOK, LocalsOK
<1>2. HandlersSound'
  BY <1>1, OneMoved, ProcAssumption DEF IInv, RunStepSound, Proc
<1>. QED
  BY <1>1, <1>2 DEF IInv

LEMMA RequestStepIsSound ==
  ASSUME IInv, NEW r \in Request, RequestCall(r) \/ RequestStep(r)
  PROVE  RequestStepSound(r)
<1>1. CASE TicketCall(r)
  BY <1>1, CreateAssignSound, UpdateLoadSound, RemoveLoadSound, RestoreLoadSound DEF TicketCall
<1>2. CASE DependencyCall(r)
  BY <1>2, AddDependencySound, RemoveDependencySound, GetDependenciesSound DEF DependencyCall
<1>3. CASE TicketStep(r)
  BY <1>3, CreateInsertSound, CreateLogSound, UpdateGateSound, UpdateReloadSound,
     UpdateWriteSound, RemoveWriteSound, RestoreWriteSound, RestoreRereadSound DEF TicketStep
<1>4. CASE DependencyStep(r)
  BY <1>4, AddReadPairSound, AddLookupSound, AddInsertSound, RemoveDeleteSound,
     ListDependenciesSound DEF DependencyStep
<1>. QED
  BY <1>1, <1>2, <1>3, <1>4 DEF RequestCall, RequestStep

LEMMA RunStepIsSound ==
  ASSUME IInv, NEW k \in Run, EscalateScan(k) \/ EscalationStep(k)
  PROVE  RunStepSound(k)
BY EscalateScanSound, EscalateReloadSound, EscalateWriteSound, EscalateLogSound
   DEF EscalationStep

LEMMA RequestKeepsIInv ==
  ASSUME IInv, NEW r \in Request, RequestCall(r) \/ RequestStep(r)
  PROVE  IInv'
<1>1. RequestStepSound(r)
  BY RequestStepIsSound
<1>2. DepsSound'
  <2>1. CASE AddInsert(r) \/ RemoveDelete(r)
    BY <2>1, AddInsertSound, RemoveDeleteSound
  <2>2. CASE ~(AddInsert(r) \/ RemoveDelete(r))
    <3>1. UNCHANGED deps
      BY <2>2 DEF RequestCall, RequestStep, TicketCall, DependencyCall, TicketStep, DependencyStep,
         CreateAssign, UpdateLoad, RemoveLoad, RestoreLoad, AddDependency, RemoveDependency,
         GetDependencies, CreateInsert, CreateLog, UpdateGate, UpdateReload, UpdateWrite,
         RemoveWrite, RestoreWrite, RestoreReread, AddReadPair, AddLookup, ListDependencies, tables
    <3>. QED
      BY <3>1, <1>1, DepsUntouched DEF IInv, RequestStepSound
  <2>. QED
    BY <2>1, <2>2
<1>. QED
  BY <1>1, <1>2, RequestMoves

LEMMA RunKeepsIInv ==
  ASSUME IInv, NEW k \in Run, EscalateScan(k) \/ EscalationStep(k)
  PROVE  IInv'
<1>1. RunStepSound(k)
  BY RunStepIsSound
<1>2. UNCHANGED deps
  BY DEF EscalationStep, EscalateScan, EscalateReload, EscalateWrite, EscalateLog, tables
<1>. QED
  BY <1>1, <1>2, DepsUntouched, RunMoves DEF IInv, RunStepSound

LEMMA StepSound == IInv /\ [Next]_vars => IInv'
<1>. SUFFICES ASSUME IInv, [Next]_vars PROVE IInv'
  OBVIOUS
<1>1. CASE \E r \in Request : RequestCall(r) \/ RequestStep(r)
  BY <1>1, RequestKeepsIInv
<1>2. CASE \E k \in Run : EscalateScan(k) \/ EscalationStep(k)
  BY <1>2, RunKeepsIInv
<1>3. CASE Tick
  <2>1. now' \in Date /\ now <= now'
    BY <1>3, BoundAssumption DEF Tick, IInv, TypeOK, Date
  <2>. QED
    BY <1>3, <2>1, StillSound DEF Tick
<1>4. CASE Crash
  BY <1>4, CrashSound
<1>5. CASE UNCHANGED vars
  <2>1. now' \in Date /\ now <= now'
    BY <1>5, BoundAssumption DEF vars, env, IInv, TypeOK, Date
  <2>. QED
    BY <1>5, <2>1, StillSound DEF vars, env
<1>. QED
  BY <1>1, <1>2, <1>3, <1>4, <1>5 DEF Next

THEOREM Invariance == Spec => []IInv
<1>. QED
  BY InitSound, StepSound, PTL DEF Spec

-------------------------------------------------------------------------------
(* Theorems                                                                *)

\* In every state the tables hold rows of their columns, the audit log counts
\* entries of existing kinds, and every local of a handler holds what its type
\* says or nothing.
THEOREM TypeCorrect == Spec => []TypeOK
BY Invariance, PTL DEF IInv

\* Under any interleaving of addDependency, removeDependency, deletions and
\* crashes the dependencies table holds no self-loop, no pair twice, and no
\* pair of tickets of different projects.
THEOREM DependenciesSound == Spec => []DepsSound
BY Invariance, PTL DEF IInv

\* What each handler checked before an await is still true, of the values it
\* holds, when it resumes; the ids it writes name rows that exist.
THEOREM HandlersAreSound == Spec => []HandlersSound
BY Invariance, PTL DEF IInv

-------------------------------------------------------------------------------
(* Fresh commits are operations of the board.                              *)

BoardStep == Board!Next \/ OvertakenCommit \/ UNCHANGED <<tickets, deps>>

Versioned(row, v) == [row EXCEPT !.version = v]

LEMMA VersionedRow ==
  ASSUME NEW row \in Row, NEW v \in Nat
  PROVE  /\ Versioned(row, v) \in Row /\ Versioned(row, v).version = v
         /\ Versioned(row, v).project = row.project /\ Versioned(row, v).status = row.status
         /\ Versioned(row, v).priority = row.priority /\ Versioned(row, v).overdue = row.overdue
         /\ Versioned(row, v).deleted = row.deleted
BY DEF Versioned, Row

\* When the reload saw the entity's own original, save() writes the entity and
\* counts the version up, or nothing when the entity is unchanged.
LEMMA FreshMerge ==
  ASSUME NEW e \in Row, NEW s \in Row, e.version = s.version, e.project = s.project, e # s
  PROVE  Merge(e, s, s) = Versioned(e, s.version + 1)
BY DEF Merge, Column, Row, Versioned

LEMMA BlockersAgree ==
  ASSUME TypeOK, NEW t \in Ticket, AllBlockersDone(t)
  PROVE  Board!BlockersDone(t)
BY DEF AllBlockersDone, BlockersOf, Visible, IsLive, Board!BlockersDone, Board!Blocks,
       Board!Live, DONE, Board!DONE

LEMMA UpdateWriteBoard ==
  ASSUME IInv, NEW r \in Request, UpdateWrite(r)
  PROVE  BoardStep
<1>. DEFINE t == target[r]
            dto == body[r]
            old == tickets[t]
            entity == Assigned(loaded[r], dto)
<1>1. /\ t \in Ticket /\ old \in Row /\ dto \in Dto /\ loaded[r] \in Row /\ seen[r] \in Row
      /\ ~loaded[r].deleted /\ loaded[r].status # DONE /\ TransitionAllowed(loaded[r], dto)
  BY DEF IInv, HandlersSound, RequestSound, UpdateSound, TypeOK, IsLive, Proc, UpdateWrite
<1>2. /\ tickets' = [tickets EXCEPT ![t] = Merge(entity, seen[r], old)]
      /\ UNCHANGED deps /\ pc[r] = "write" /\ pc'[r] # pc[r]
  BY DEF UpdateWrite, SaveWrite, Answer, Goto, IInv, TypeOK, Proc
<1>3. CASE Overtaken(r)
  BY <1>2, <1>3 DEF BoardStep, OvertakenCommit, Proc
<1>4. CASE ~Overtaken(r)
  <2>1. old = loaded[r] /\ seen[r] = old /\ ~GateOvertaken(r)
    BY <1>2, <1>4 DEF Overtaken, RowOvertaken
  <2>2. entity \in Row
    BY <1>1, AssignedRow
  <2>3. /\ entity.version = old.version /\ entity.project = old.project
        /\ entity.deleted = old.deleted
        /\ entity.status = Given(dto.status, old.status)
        /\ entity.priority = Given(dto.priority, old.priority)
        /\ entity.overdue = IF dto.priority = Absent THEN old.overdue ELSE FALSE
    BY <2>1, <1>1 DEF Assigned, Row
  <2>. HIDE DEF entity
  <2>4. CASE entity = old
    BY <1>1, <1>2, <2>1, <2>4 DEF Merge, BoardStep, IInv, TypeOK
  <2>5. CASE entity # old
    <3>. DEFINE new == Versioned(entity, old.version + 1)
    <3>1. tickets' = [tickets EXCEPT ![t] = new]
      BY <1>1, <1>2, <2>1, <2>2, <2>3, <2>5, FreshMerge
    <3>2. /\ new \in Row /\ new.version = old.version + 1 /\ new.project = old.project
          /\ ~new.deleted /\ new.status = entity.status /\ new.priority = entity.priority
          /\ new.overdue = entity.overdue
      <4>1. old.version + 1 \in Nat
        BY <1>1 DEF Row
      <4>. QED
        BY <1>1, <2>1, <2>2, <2>3, <4>1, VersionedRow
    <3>. HIDE DEF new
    <3>3. tickets'[t] = new /\ \A u \in Ticket \ {t} : tickets'[u] = tickets[u]
      BY <3>1, <1>1 DEF IInv, TypeOK
    <3>4. new.status \in {old.status, old.status + 1}
      BY <1>1, <2>1, <2>3, <3>2 DEF TransitionAllowed, Given
    <3>5. new.status = DONE => Board!BlockersDone(t)
      <4>1. new.status = DONE => dto.status = DONE
        BY <1>1, <2>1, <2>3, <3>2 DEF Given
      <4>. QED
        BY <4>1, <2>1, <1>1, BlockersAgree DEF GateOvertaken, IInv
    <3>6. \/ new.priority = old.priority /\ new.overdue = old.overdue
          \/ ~new.overdue
      BY <2>3, <3>2 DEF Given
    <3>7. Board!Edit(t)
      BY <1>1, <1>2, <2>1, <3>2, <3>3, <3>4, <3>5, <3>6, NullAssumption
         DEF Board!Edit, Board!Live, Board!NextVersion, Board!SameProject, Board!Only,
             DONE, Board!DONE
    <3>. QED
      BY <1>1, <3>7 DEF BoardStep, Board!Next, Board!TicketChange
  <2>. QED
    BY <2>4, <2>5
<1>. QED
  BY <1>3, <1>4

LEMMA EscalateWriteBoard ==
  ASSUME IInv, NEW k \in Run, EscalateWrite(k)
  PROVE  BoardStep
<1>. DEFINE t == target[k]
            old == tickets[t]
<1>1. /\ t \in Ticket /\ old \in Row /\ loaded[k] \in Row /\ seen[k] \in Row /\ IsLate(loaded[k])
  BY DEF IInv, HandlersSound, RunSound, TypeOK, IsLate, IsLive, Proc, EscalateWrite
<1>2. /\ tickets' = [tickets EXCEPT ![t] = Merge(Escalated(loaded[k]), seen[k], old)]
      /\ UNCHANGED deps /\ pc[k] = "write" /\ pc'[k] # pc[k]
  BY DEF EscalateWrite, SaveWrite, Goto, IInv, TypeOK, Proc
<1>3. CASE Overtaken(k)
  BY <1>2, <1>3 DEF BoardStep, OvertakenCommit, Proc
<1>4. CASE ~Overtaken(k)
  <2>1. old = loaded[k] /\ seen[k] = old
    BY <1>2, <1>4 DEF Overtaken, RowOvertaken
  <2>2. IsLate(old)
    BY <1>1, <2>1
  <2>. DEFINE up == Escalated(old)
  <2>3. up \in Row
    BY <1>1, <2>2, EscalatedRow DEF IsLate
  <2>4. /\ up.version = old.version /\ up.project = old.project /\ up.priority = old.priority + 1
    BY <1>1 DEF Escalated, Row
  <2>5. up # old
    BY <1>1, <2>4 DEF Row, Priority
  <2>6. Merge(up, old, old) = Versioned(up, old.version + 1)
    BY <1>1, <2>3, <2>4, <2>5, FreshMerge
  <2>7. Versioned(up, old.version + 1)
        = [old EXCEPT !.priority = old.priority + 1,
                      !.overdue  = IF old.priority + 1 = CRITICAL THEN TRUE ELSE old.overdue,
                      !.version  = old.version + 1]
    BY <1>1 DEF Escalated, Row, Versioned
  <2>8. tickets'[t] = [old EXCEPT !.priority = old.priority + 1,
                         !.overdue  = IF old.priority + 1 = CRITICAL THEN TRUE ELSE old.overdue,
                         !.version  = old.version + 1]
    BY <1>1, <1>2, <2>1, <2>6, <2>7 DEF IInv, TypeOK
  <2>9. \A u \in Ticket \ {t} : tickets'[u] = tickets[u]
    BY <1>2
  <2>10. /\ old # NoRow /\ ~old.deleted /\ old.status # DONE /\ old.priority < CRITICAL
         /\ old.due # NoDate /\ old.due < now
    BY <1>1, <2>2 DEF IsLate, IsLive, Row, Priority, LOW, CRITICAL
  <2>11. Board!Escalate(t)
    BY <1>1, <1>2, <2>8, <2>9, <2>10
       DEF Board!Escalate, Board!Live, Board!Only, CRITICAL, Board!CRITICAL, DONE, Board!DONE
  <2>. QED
    BY <1>1, <2>11 DEF BoardStep, Board!Next, Board!TicketChange
<1>. QED
  BY <1>3, <1>4

LEMMA MarkBoard ==
  ASSUME IInv, NEW r \in Request, RemoveWrite(r) \/ RestoreWrite(r)
  PROVE  BoardStep
<1>. DEFINE t == target[r]
<1>1. t \in Ticket /\ tickets[t] # NoRow /\ tickets[t] \in Row
  BY DEF IInv, HandlersSound, RequestSound, MarkSound, TypeOK, RemoveWrite, RestoreWrite
<1>2. PICK flag \in BOOLEAN :
        /\ SetDeleted(t, flag) /\ UNCHANGED deps
        /\ pc[r] = IF flag THEN "softRemove" ELSE "undelete"
        /\ pc'[r] # pc[r]
  BY DEF RemoveWrite, RestoreWrite, Answer, Goto, IInv, TypeOK, Proc
<1>3. CASE tickets[t].deleted = flag
  BY <1>1, <1>2, <1>3 DEF BoardStep, OvertakenCommit, Overtaken, Proc
<1>4. CASE tickets[t].deleted # flag
  <2>1. tickets'[t] = [tickets[t] EXCEPT !.deleted = flag, !.version = tickets[t].version + 1]
    BY <1>1, <1>2 DEF SetDeleted, Marked, IInv, TypeOK
  <2>2. \A u \in Ticket \ {t} : tickets'[u] = tickets[u]
    BY <1>2 DEF SetDeleted
  <2>3. Board!Mark(t, flag)
    BY <1>2, <1>4, <2>1, <2>2 DEF Board!Mark, Board!Only
  <2>. QED
    BY <1>1, <1>2, <2>3 DEF BoardStep, Board!Next, Board!TicketChange, Board!Delete, Board!Restore
<1>. QED
  BY <1>1, <1>3, <1>4 DEF Row

LEMMA CreateInsertBoard ==
  ASSUME IInv, NEW r \in Request, CreateInsert(r)
  PROVE  BoardStep
<1>1. PICK t \in Ticket : NextId(t) /\ tickets' = [tickets EXCEPT ![t] = loaded[r]]
  BY DEF CreateInsert
<1>2. loaded[r] # NoRow /\ InitialRow(loaded[r]) /\ ~loaded[r].deleted /\ loaded[r] \in Row
  BY DEF IInv, HandlersSound, RequestSound, CreateSound, TypeOK, Proc, CreateInsert
<1>3. tickets'[t] = loaded[r] /\ \A u \in Ticket \ {t} : tickets'[u] = tickets[u]
  BY <1>1 DEF IInv, TypeOK
<1>4. Board!Create(t)
  BY <1>1, <1>2, <1>3 DEF Board!Create, Board!Only, NextId, InitialRow, CreateInsert
<1>. QED
  BY <1>4 DEF BoardStep, Board!Next, Board!TicketChange

LEMMA LinkBoard ==
  ASSUME IInv, NEW r \in Request, AddInsert(r) \/ RemoveDelete(r)
  PROVE  BoardStep
<1>1. CASE RemoveDelete(r)
  BY <1>1 DEF RemoveDelete, BoardStep, Board!Next, Board!Unlink
<1>2. CASE AddInsert(r) /\ Linked(link[r])
  BY <1>2 DEF AddInsert, BoardStep
<1>3. CASE AddInsert(r) /\ ~Linked(link[r])
  <2>. DEFINE d == link[r]
  <2>1. /\ d \in Dep /\ d.blocked # d.blocker
        /\ tickets[d.blocked].project = tickets[d.blocker].project
    BY <1>3 DEF IInv, HandlersSound, RequestSound, LinkSound, SoundLinks, TypeOK, AddInsert
  <2>2. /\ deps' = deps \cup {d} /\ UNCHANGED tickets /\ pc[r] = "insertDep" /\ pc'[r] # pc[r]
    BY <1>3 DEF AddInsert, Answer, Goto, IInv, TypeOK, Proc
  <2>3. d \notin deps /\ ~Board!Blocks(d.blocker, d.blocked)
    BY <1>3 DEF Linked, SamePair, Board!Blocks
  <2>4. CASE Visible(d.blocked) /\ Visible(d.blocker)
    BY <2>1, <2>2, <2>3, <2>4 DEF BoardStep, Board!Next, Board!Link, Board!Live, Visible, IsLive
  <2>5. CASE ~(Visible(d.blocked) /\ Visible(d.blocker))
    BY <2>2, <2>5 DEF BoardStep, OvertakenCommit, Overtaken, Proc
  <2>. QED
    BY <2>4, <2>5
<1>. QED
  BY <1>1, <1>2, <1>3

LEMMA StepBoard == IInv /\ [Next]_vars => BoardStep
<1>. SUFFICES ASSUME IInv, [Next]_vars PROVE BoardStep
  OBVIOUS
<1>1. CASE UNCHANGED <<tickets, deps>>
  BY <1>1 DEF BoardStep
<1>2. CASE ~UNCHANGED <<tickets, deps>>
  <2>1. \/ \E r \in Request : \/ CreateInsert(r) \/ UpdateWrite(r) \/ RemoveWrite(r)
                              \/ RestoreWrite(r) \/ AddInsert(r) \/ RemoveDelete(r)
        \/ \E k \in Run : EscalateWrite(k)
    BY <1>2 DEF Next, vars, tables, Tick, Crash,
       RequestCall, RequestStep, TicketCall, DependencyCall, TicketStep, DependencyStep,
       CreateAssign, UpdateLoad, RemoveLoad, RestoreLoad, AddDependency, RemoveDependency,
       GetDependencies, CreateLog, UpdateGate, UpdateReload, RestoreReread, AddReadPair,
       AddLookup, ListDependencies, EscalateScan, EscalationStep, EscalateReload, EscalateLog
  <2>. QED
    BY <2>1, CreateInsertBoard, UpdateWriteBoard, MarkBoard, LinkBoard, EscalateWriteBoard
<1>. QED
  BY <1>1, <1>2

\* Whatever interleaves, a step that changes the tickets or the dependencies is
\* an operation of the board, or the commit of a handler that was overtaken.
THEOREM FreshCommitsAreAtomic == Spec => FreshCommits
<1>1. IInv /\ [Next]_vars => [Board!Next \/ OvertakenCommit]_<<tickets, deps>>
  BY StepBoard DEF BoardStep
<1>. QED
  BY <1>1, Invariance, PTL DEF Spec, FreshCommits
===============================================================================

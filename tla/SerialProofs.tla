------------------------------ MODULE SerialProofs -----------------------------
(***************************************************************************)
(* A server that is never called while it is busy (MaxInFlight = 1) does   *)
(* what TicketBoard says, with any number of tickets, requests, runs of    *)
(* the job and crashes; and what follows from that for the overdue mark,   *)
(* for cycles of dependencies, for auto-assignment, for the DONE gate and  *)
(* for deleted tickets.                                                    *)
(*                                                                         *)
(* The argument: by FreshCommits only a commit that was overtaken departs  *)
(* from the board.  At most one handler is in flight (Alone), so the rows, *)
(* blockers and loads it has read are those of the tables (Current), and   *)
(* no commit is overtaken.                                                 *)
(***************************************************************************)
EXTENDS TicketSystemProofs, FiniteSetTheorems

\* At most one handler is between its call and its answer.
Alone == \A p, q \in Proc : pc[p] \notin Resting /\ pc[q] \notin Resting => p = q

\* What a request has read is still so.
RowCurrent(r) ==
  /\ pc[r] \in {"gate", "reload", "write"} => tickets[target[r]] = loaded[r]
  /\ pc[r] \in {"reload", "write"} /\ body[r].status = DONE => AllBlockersDone(target[r])
  /\ pc[r] = "write" => seen[r] = loaded[r]
  /\ pc[r] = "softRemove" => ~tickets[target[r]].deleted
  /\ pc[r] = "undelete" => tickets[target[r]].deleted

LinkCurrent(r) ==
  /\ pc[r] = "readPair" =>
       \A t \in {link[r].blocked, link[r].blocker} \ unread[r] : Visible(t)
  /\ pc[r] \in {"lookup", "insertDep"} => Visible(link[r].blocked) /\ Visible(link[r].blocker)

LoadCurrent(r) ==
  pc[r] = "insert" /\ LogsAssignment(r) => LeastLoaded(loaded[r].assignee, loaded[r].project)

RequestCurrent(r) == RowCurrent(r) /\ LinkCurrent(r) /\ LoadCurrent(r)

\* So is what a run of the job has read, of every row it has yet to do.
RunCurrent(k) ==
  /\ pc[k] \in RunPhase
  /\ \A t \in Remaining(k) : batch[k][t] = tickets[t]
  /\ Remaining(k) # {} => pc[k] # "idle"
  /\ pc[k] \in {"write", "logEscalation"} => target[k] \notin Remaining(k)
  /\ pc[k] = "write" => tickets[target[k]] = loaded[k] /\ seen[k] = loaded[k]

Current == (\A r \in Request : RequestCurrent(r)) /\ (\A k \in Run : RunCurrent(k))

\* The inductive invariant of the serial system, on top of IInv.
SerialInv == Alone /\ Current

-------------------------------------------------------------------------------
(* Who moves, and who does not.                                            *)

LEMMA AtMostOne ==
  ASSUME Alone
  PROVE  InFlight = {} \/ \E p \in Proc : InFlight = {p}
BY DEF Alone, InFlight

LEMMA OthersRest ==
  ASSUME MaxInFlight = 1, Alone, NEW p \in Proc, pc[p] \notin Resting \/ CanStart
  PROVE  \A q \in Proc \ {p} : pc[q] \in Resting
<1>1. CASE pc[p] \notin Resting
  BY <1>1 DEF Alone
<1>2. CASE CanStart
  <2>1. \A q \in Proc : InFlight # {q}
    BY <1>2, FS_Singleton DEF CanStart
  <2>2. InFlight = {}
    BY <2>1, AtMostOne
  <2>3. QED
    BY <2>2 DEF InFlight
<1>3. QED
  BY <1>1, <1>2

LEMMA StillAlone ==
  ASSUME NEW p \in Proc, \A q \in Proc \ {p} : pc[q] \in Resting /\ pc'[q] = pc[q]
  PROVE  Alone'
BY DEF Alone

\* Phases in which a request holds nothing it has read.
Unbound == Resting \cup {"logAssign", "reread", "readPairMissing", "deleteDep", "listDeps"}

LEMMA UnboundCurrent ==
  ASSUME NEW r \in Request, pc'[r] \in Unbound
  PROVE  RequestCurrent(r)'
BY DEF RequestCurrent, RowCurrent, LinkCurrent, LoadCurrent, Unbound, Resting, Reply

\* When one handler moves, the resting ones stay current.
LEMMA RestCurrent ==
  ASSUME Current, NEW p \in Proc, OnlyMoves(p), \A q \in Proc \ {p} : pc[q] \in Resting
  PROVE  /\ \A r \in Request \ {p} : RequestCurrent(r)'
         /\ \A k \in Run \ {p} : RunCurrent(k)'
<1>1. ASSUME NEW r \in Request \ {p} PROVE RequestCurrent(r)'
  BY <1>1, UnboundCurrent DEF OnlyMoves, StaysRequest, Unbound, Proc
<1>2. ASSUME NEW k \in Run \ {p} PROVE RunCurrent(k)'
  <2>1. pc'[k] = pc[k] /\ batch'[k] = batch[k] /\ pc[k] \in Resting \cap RunPhase
    BY <1>2 DEF OnlyMoves, StaysRun, Current, RunCurrent, Proc
  <2>2. pc[k] = "idle" /\ Remaining(k) = {}
    BY <2>1 DEF Current, RunCurrent, Resting, Reply, RunPhase
  <2>3. Remaining(k)' = {}
    BY <2>1, <2>2 DEF Remaining
  <2>4. QED
    BY <2>1, <2>2, <2>3 DEF RunCurrent
<1>3. QED
  BY <1>1, <1>2

LEMMA RequestSerial ==
  ASSUME MaxInFlight = 1, SerialInv, NEW r \in Request, OnlyMoves(r),
         pc[r] \notin Resting \/ CanStart, RequestCurrent(r)'
  PROVE  SerialInv'
<1>1. r \in Proc /\ \A q \in Proc \ {r} : pc[q] \in Resting
  BY OthersRest DEF SerialInv, Proc
<1>2. \A q \in Proc \ {r} : pc'[q] = pc[q]
  BY DEF OnlyMoves, StaysRequest, StaysRun, Proc
<1>3. Alone'
  BY <1>1, <1>2, StillAlone
<1>4. Current'
  BY <1>1, RestCurrent, ProcAssumption DEF SerialInv, Current
<1>5. QED
  BY <1>3, <1>4 DEF SerialInv

LEMMA RunSerial ==
  ASSUME MaxInFlight = 1, SerialInv, NEW k \in Run, OnlyMoves(k),
         pc[k] \notin Resting \/ CanStart, RunCurrent(k)'
  PROVE  SerialInv'
<1>1. k \in Proc /\ \A q \in Proc \ {k} : pc[q] \in Resting
  BY OthersRest DEF SerialInv, Proc
<1>2. \A q \in Proc \ {k} : pc'[q] = pc[q]
  BY DEF OnlyMoves, StaysRequest, StaysRun, Proc
<1>3. Alone'
  BY <1>1, <1>2, StillAlone
<1>4. Current'
  BY <1>1, RestCurrent, ProcAssumption DEF SerialInv, Current
<1>5. QED
  BY <1>3, <1>4 DEF SerialInv

-------------------------------------------------------------------------------
(* Requests.                                                               *)

LEMMA AnswerCurrent ==
  ASSUME TypeOK, NEW r \in Request, NEW reply \in Reply, Answer(r, reply)
  PROVE  RequestCurrent(r)'
<1>1. pc'[r] = reply
  BY DEF Answer, Goto, TypeOK, Proc
<1>2. QED
  BY <1>1, UnboundCurrent DEF Unbound, Resting

LEMMA GotoUnbound ==
  ASSUME TypeOK, NEW r \in Request, NEW phase \in Unbound, Goto(r, phase)
  PROVE  RequestCurrent(r)'
BY UnboundCurrent DEF Goto, TypeOK, Proc

LEMMA AddDependencyCurrent ==
  ASSUME TypeOK, NEW r \in Request, AddDependency(r)
  PROVE  RequestCurrent(r)'
<1>1. PICK blocked \in Ticket, blocker \in Ticket :
        \/ Answer(r, "400")
        \/ /\ Goto(r, "readPair")
           /\ link' = [link EXCEPT ![r] = [id |-> r, blocked |-> blocked, blocker |-> blocker]]
           /\ unread' = [unread EXCEPT ![r] = {blocked, blocker}]
  BY DEF AddDependency
<1>2. CASE Answer(r, "400")
  BY <1>2, AnswerCurrent DEF Reply
<1>3. CASE ~Answer(r, "400")
  <2>1. /\ pc'[r] = "readPair" /\ unread'[r] = {blocked, blocker}
        /\ link'[r] = [id |-> r, blocked |-> blocked, blocker |-> blocker]
    BY <1>1, <1>3 DEF Goto, TypeOK, Proc
  <2>2. QED
    BY <2>1 DEF RequestCurrent, RowCurrent, LinkCurrent, LoadCurrent
<1>4. QED
  BY <1>2, <1>3

LEMMA AddReadPairCurrent ==
  ASSUME IInv, NEW r \in Request, RequestCurrent(r), AddReadPair(r)
  PROVE  RequestCurrent(r)'
<1> DEFINE d == link[r]
<1>1. TypeOK /\ tickets' = tickets
  BY DEF IInv, AddReadPair, tables
<1>2. PICK t \in unread[r] :
        \/ \E reply \in Reply : Answer(r, reply)
        \/ Goto(r, "readPairMissing")
        \/ /\ pc[r] = "readPair" /\ Visible(t) /\ Goto(r, "readPair")
           /\ unread' = [unread EXCEPT ![r] = @ \ {t}] /\ UNCHANGED link
        \/ /\ pc[r] = "readPair" /\ Visible(t) /\ unread[r] = {t} /\ Goto(r, "lookup")
           /\ UNCHANGED link
  BY DEF AddReadPair, Reply
<1>3. CASE \E reply \in Reply : Answer(r, reply)
  BY <1>1, <1>3, AnswerCurrent
<1>4. CASE Goto(r, "readPairMissing")
  BY <1>1, <1>4, GotoUnbound DEF Unbound
<1>5. CASE /\ pc[r] = "readPair" /\ Visible(t) /\ Goto(r, "readPair")
           /\ unread' = [unread EXCEPT ![r] = @ \ {t}] /\ UNCHANGED link
  <2>1. pc'[r] = "readPair" /\ unread'[r] = unread[r] \ {t} /\ link'[r] = d
    BY <1>1, <1>5 DEF Goto, TypeOK, Proc
  <2>2. \A u \in {d.blocked, d.blocker} \ unread'[r] : Visible(u)
    BY <1>5, <2>1 DEF RequestCurrent, LinkCurrent
  <2>3. QED
    BY <1>1, <2>1, <2>2 DEF RequestCurrent, RowCurrent, LinkCurrent, LoadCurrent, Visible
<1>6. CASE /\ pc[r] = "readPair" /\ Visible(t) /\ unread[r] = {t} /\ Goto(r, "lookup")
           /\ UNCHANGED link
  <2>1. pc'[r] = "lookup" /\ link'[r] = d
    BY <1>1, <1>6 DEF Goto, TypeOK, Proc
  <2>2. Visible(d.blocked) /\ Visible(d.blocker)
    BY <1>6 DEF RequestCurrent, LinkCurrent
  <2>3. QED
    BY <1>1, <2>1, <2>2 DEF RequestCurrent, RowCurrent, LinkCurrent, LoadCurrent, Visible
<1>7. QED
  BY <1>2, <1>3, <1>4, <1>5, <1>6

LEMMA AddLookupCurrent ==
  ASSUME TypeOK, NEW r \in Request, RequestCurrent(r), AddLookup(r)
  PROVE  RequestCurrent(r)'
<1>1. CASE Answer(r, "400")
  BY <1>1, AnswerCurrent DEF Reply
<1>2. CASE Goto(r, "insertDep") /\ UNCHANGED locals
  <2>1. pc[r] = "lookup" /\ pc'[r] = "insertDep" /\ link'[r] = link[r] /\ tickets' = tickets
    BY <1>2 DEF AddLookup, Goto, TypeOK, Proc, tables, locals
  <2>2. QED
    BY <2>1 DEF RequestCurrent, RowCurrent, LinkCurrent, LoadCurrent, Visible
<1>3. QED
  BY <1>1, <1>2 DEF AddLookup

\* The other steps of the dependencies endpoints hold nothing they have read.
LEMMA OtherDependencyCurrent ==
  ASSUME TypeOK, NEW r \in Request,
         AddInsert(r) \/ RemoveDelete(r) \/ ListDependencies(r) \/ RemoveDependency(r)
           \/ GetDependencies(r)
  PROVE  RequestCurrent(r)'
<1>1. (\E reply \in Reply : Answer(r, reply)) \/ Goto(r, "deleteDep") \/ Goto(r, "listDeps")
  BY DEF AddInsert, RemoveDelete, ListDependencies, RemoveDependency, GetDependencies, Reply
<1>2. QED
  BY <1>1, AnswerCurrent, GotoUnbound DEF Unbound

LEMMA CreateAssignCurrent ==
  ASSUME TypeOK, NEW r \in Request, CreateAssign(r)
  PROVE  RequestCurrent(r)'
<1>1. PICK dto \in CreateDtos :
        \E assignee \in IF AutoAssigned(dto) THEN AutoAssignees(dto.project) ELSE {dto.assignee} :
          /\ body' = [body EXCEPT ![r] = dto]
          /\ loaded' = [loaded EXCEPT ![r] = NewRow(dto, assignee)]
  BY DEF CreateAssign
<1>2. PICK assignee \in IF AutoAssigned(dto) THEN AutoAssignees(dto.project) ELSE {dto.assignee} :
          /\ body' = [body EXCEPT ![r] = dto]
          /\ loaded' = [loaded EXCEPT ![r] = NewRow(dto, assignee)]
  BY <1>1
<1>3. pc'[r] = "insert" /\ body'[r] = dto /\ loaded'[r] = NewRow(dto, assignee)
      /\ tickets' = tickets
  BY <1>2 DEF CreateAssign, Goto, TypeOK, Proc, tables
<1>4. loaded'[r].assignee = assignee /\ loaded'[r].project = dto.project
  BY <1>3 DEF NewRow
<1>5. AutoAssigned(dto) /\ assignee # NoUser => LeastLoaded(assignee, dto.project)
  BY <1>2 DEF AutoAssignees
<1>6. LoadCurrent(r)'
  BY <1>3, <1>4, <1>5
  DEF LoadCurrent, LogsAssignment, LeastLoaded, Load, OpenTickets, Visible
<1>7. QED
  BY <1>3, <1>6 DEF RequestCurrent, RowCurrent, LinkCurrent

LEMMA UpdateLoadCurrent ==
  ASSUME TypeOK, NEW r \in Request, UpdateLoad(r)
  PROVE  RequestCurrent(r)'
<1>1. PICK t \in Ticket, dto \in UpdateDtos :
        \/ \E reply \in Reply : Answer(r, reply)
        \/ /\ Goto(r, "gate") \/ (dto.status # DONE /\ Goto(r, "reload"))
           /\ target' = [target EXCEPT ![r] = t]
           /\ body' = [body EXCEPT ![r] = dto]
           /\ loaded' = [loaded EXCEPT ![r] = tickets[t]]
  BY DEF UpdateLoad, Reply
<1>2. CASE \E reply \in Reply : Answer(r, reply)
  BY <1>2, AnswerCurrent
<1>3. CASE ~\E reply \in Reply : Answer(r, reply)
  <2>1. /\ pc'[r] = "gate" \/ (pc'[r] = "reload" /\ dto.status # DONE)
        /\ target'[r] = t /\ body'[r] = dto /\ loaded'[r] = tickets[t] /\ tickets' = tickets
    BY <1>1, <1>3 DEF UpdateLoad, Goto, TypeOK, Proc, tables
  <2>2. QED
    BY <2>1 DEF RequestCurrent, RowCurrent, LinkCurrent, LoadCurrent
<1>4. QED
  BY <1>2, <1>3

LEMMA UpdateGateCurrent ==
  ASSUME TypeOK, NEW r \in Request, RequestCurrent(r), UpdateGate(r)
  PROVE  RequestCurrent(r)'
<1>1. pc[r] = "gate" /\ tickets' = tickets /\ deps' = deps
  BY DEF UpdateGate, tables
<1>2. PICK answer \in BlockersAnswer(target[r]) :
        \/ \E reply \in Reply : Answer(r, reply)
        \/ answer = "done" /\ Goto(r, "reload") /\ UNCHANGED locals
  BY DEF UpdateGate, Reply
<1>3. CASE \E reply \in Reply : Answer(r, reply)
  BY <1>3, AnswerCurrent
<1>4. CASE answer = "done" /\ Goto(r, "reload") /\ UNCHANGED locals
  <2>1. pc'[r] = "reload" /\ target'[r] = target[r] /\ body'[r] = body[r]
        /\ loaded'[r] = loaded[r]
    BY <1>4 DEF Goto, TypeOK, Proc, locals
  <2>2. AllBlockersDone(target[r])
    BY <1>2, <1>4 DEF BlockersAnswer, AllBlockersDone
  <2>3. AllBlockersDone(target[r])'
    BY <1>1, <2>1, <2>2 DEF AllBlockersDone, BlockersOf, Visible
  <2>4. QED
    BY <1>1, <2>1, <2>3 DEF RequestCurrent, RowCurrent, LinkCurrent, LoadCurrent
<1>5. QED
  BY <1>2, <1>3, <1>4

LEMMA UpdateReloadCurrent ==
  ASSUME TypeOK, NEW r \in Request, RequestCurrent(r), UpdateReload(r)
  PROVE  RequestCurrent(r)'
<1>1. /\ pc[r] = "reload" /\ pc'[r] = "write" /\ target'[r] = target[r] /\ body'[r] = body[r]
      /\ loaded'[r] = loaded[r] /\ seen'[r] = tickets[target[r]]
      /\ tickets' = tickets /\ deps' = deps
  BY DEF UpdateReload, SaveReload, Goto, TypeOK, Proc, tables
<1>2. body[r].status = DONE => AllBlockersDone(target[r])'
  BY <1>1 DEF RequestCurrent, RowCurrent, AllBlockersDone, BlockersOf, Visible
<1>3. QED
  BY <1>1, <1>2 DEF RequestCurrent, RowCurrent, LinkCurrent, LoadCurrent

LEMMA MarkLoadCurrent ==
  ASSUME TypeOK, NEW r \in Request, RemoveLoad(r) \/ RestoreLoad(r)
  PROVE  RequestCurrent(r)'
<1>1. PICK t \in Ticket :
        \/ \E reply \in Reply : Answer(r, reply)
        \/ /\ target' = [target EXCEPT ![r] = t]
           /\ \/ Visible(t) /\ Goto(r, "softRemove")
              \/ tickets[t].deleted /\ Goto(r, "undelete")
  BY DEF RemoveLoad, RestoreLoad, Reply
<1>2. CASE \E reply \in Reply : Answer(r, reply)
  BY <1>2, AnswerCurrent
<1>3. CASE ~\E reply \in Reply : Answer(r, reply)
  <2>1. /\ target'[r] = t /\ tickets' = tickets
        /\ \/ pc'[r] = "softRemove" /\ ~tickets[t].deleted
           \/ pc'[r] = "undelete" /\ tickets[t].deleted
    BY <1>1, <1>3 DEF RemoveLoad, RestoreLoad, Goto, TypeOK, Proc, tables, Visible, IsLive
  <2>2. QED
    BY <2>1 DEF RequestCurrent, RowCurrent, LinkCurrent, LoadCurrent
<1>4. QED
  BY <1>2, <1>3

\* The other steps of the tickets endpoints hold nothing they have read.
LEMMA OtherTicketCurrent ==
  ASSUME TypeOK, NEW r \in Request,
         CreateInsert(r) \/ CreateLog(r) \/ UpdateWrite(r) \/ RemoveWrite(r) \/ RestoreWrite(r)
           \/ RestoreReread(r)
  PROVE  RequestCurrent(r)'
<1>1. (\E reply \in Reply : Answer(r, reply)) \/ Goto(r, "logAssign") \/ Goto(r, "reread")
  BY DEF CreateInsert, CreateLog, UpdateWrite, RemoveWrite, RestoreWrite, RestoreReread, Reply
<1>2. QED
  BY <1>1, AnswerCurrent, GotoUnbound DEF Unbound

\* A step is a call, while the server accepts one, or of a handler in flight.
LEMMA RequestBusy ==
  ASSUME NEW r \in Request, RequestCall(r) \/ RequestStep(r)
  PROVE  pc[r] \notin Resting \/ CanStart
<1>1. CASE RequestCall(r)
  BY <1>1 DEF RequestCall, TicketCall, DependencyCall, CreateAssign, UpdateLoad, RemoveLoad,
     RestoreLoad, AddDependency, RemoveDependency, GetDependencies, Call
<1>2. CASE RequestStep(r)
  <2>1. pc[r] \in {"insert", "logAssign", "gate", "reload", "write", "softRemove", "undelete",
                   "reread", "readPair", "readPairMissing", "lookup", "insertDep", "deleteDep",
                   "listDeps"}
    BY <1>2 DEF RequestStep, TicketStep, DependencyStep, CreateInsert, CreateLog, UpdateGate,
       UpdateReload, UpdateWrite, RemoveWrite, RestoreWrite, RestoreReread, AddReadPair,
       AddLookup, AddInsert, RemoveDelete, ListDependencies
  <2>2. QED
    BY <2>1 DEF Resting, Reply
<1>3. QED
  BY <1>1, <1>2

LEMMA RequestKeepsSerial ==
  ASSUME MaxInFlight = 1, IInv, SerialInv, NEW r \in Request, RequestCall(r) \/ RequestStep(r)
  PROVE  SerialInv'
<1>1. TypeOK /\ RequestCurrent(r)
  BY DEF IInv, SerialInv, Current
<1>2. RequestCurrent(r)'
  <2>1. CASE RequestCall(r)
    BY <1>1, <2>1, AddDependencyCurrent, OtherDependencyCurrent, CreateAssignCurrent,
       UpdateLoadCurrent, MarkLoadCurrent DEF RequestCall, TicketCall, DependencyCall
  <2>2. CASE RequestStep(r)
    BY <1>1, <2>2, AddReadPairCurrent, AddLookupCurrent, OtherDependencyCurrent,
       UpdateGateCurrent, UpdateReloadCurrent, OtherTicketCurrent
    DEF RequestStep, TicketStep, DependencyStep
  <2>3. QED
    BY <2>1, <2>2
<1>3. OnlyMoves(r)
  BY RequestStepIsSound DEF RequestStepSound
<1>4. QED
  BY <1>2, <1>3, RequestBusy, RequestSerial

-------------------------------------------------------------------------------
(* Runs of the job, crashes, and the start.                                *)

LEMMA EscalateScanCurrent ==
  ASSUME TypeOK, NEW k \in Run, RunCurrent(k), EscalateScan(k)
  PROVE  RunCurrent(k)'
<1>1. pc[k] = "idle" /\ tickets' = tickets
  BY DEF EscalateScan, tables
<1>2. CASE UNCHANGED <<pc, batch>>
  BY <1>1, <1>2 DEF RunCurrent, Remaining
<1>3. CASE ~UNCHANGED <<pc, batch>>
  <2>1. /\ pc'[k] = "next"
        /\ batch'[k] = [t \in Ticket |-> IF Late(t) THEN tickets[t] ELSE NoRow]
    BY <1>3 DEF EscalateScan, Goto, TypeOK, Proc
  <2>2. \A t \in Remaining(k)' : batch'[k][t] = tickets[t]
    BY <2>1 DEF Remaining
  <2>3. QED
    BY <1>1, <2>1, <2>2 DEF RunCurrent, RunPhase
<1>4. QED
  BY <1>2, <1>3

LEMMA EscalateReloadCurrent ==
  ASSUME TypeOK, NEW k \in Run, RunCurrent(k), EscalateReload(k)
  PROVE  RunCurrent(k)'
<1>1. PICK t \in Remaining(k) :
        /\ target' = [target EXCEPT ![k] = t]
        /\ loaded' = [loaded EXCEPT ![k] = batch[k][t]]
        /\ batch'  = [batch EXCEPT ![k] = [@ EXCEPT ![t] = NoRow]]
        /\ seen' = [seen EXCEPT ![k] = tickets[t]]
  BY DEF EscalateReload, SaveReload
<1>2. t \in Ticket /\ batch[k][t] = tickets[t]
  BY DEF Remaining, RunCurrent
<1>3. /\ pc'[k] = "write" /\ target'[k] = t /\ loaded'[k] = batch[k][t] /\ seen'[k] = tickets[t]
      /\ batch'[k] = [batch[k] EXCEPT ![t] = NoRow] /\ tickets' = tickets
  BY <1>1 DEF EscalateReload, Goto, TypeOK, Proc, tables
<1>4. Remaining(k)' = Remaining(k) \ {t} /\ \A u \in Remaining(k)' : batch'[k][u] = batch[k][u]
  BY <1>2, <1>3 DEF Remaining, TypeOK
<1>5. QED
  BY <1>2, <1>3, <1>4 DEF RunCurrent, RunPhase

LEMMA EscalateWriteCurrent ==
  ASSUME TypeOK, NEW k \in Run, RunCurrent(k), EscalateWrite(k)
  PROVE  RunCurrent(k)'
<1>1. pc[k] = "write" /\ pc'[k] = "logEscalation" /\ target' = target /\ batch' = batch
  BY DEF EscalateWrite, Goto, TypeOK, Proc, locals
<1>2. \A t \in Ticket \ {target[k]} : tickets'[t] = tickets[t]
  BY DEF EscalateWrite, SaveWrite, TypeOK
<1>3. Remaining(k)' = Remaining(k)
  BY <1>1 DEF Remaining
<1>4. \A t \in Remaining(k) : batch'[k][t] = tickets'[t]
  BY <1>1, <1>2 DEF RunCurrent, Remaining
<1>5. QED
  BY <1>1, <1>3, <1>4 DEF RunCurrent, RunPhase

LEMMA EscalateLogCurrent ==
  ASSUME TypeOK, NEW k \in Run, RunCurrent(k), EscalateLog(k)
  PROVE  RunCurrent(k)'
<1>1. /\ pc'[k] = IF Remaining(k) = {} THEN "idle" ELSE "next"
      /\ batch' = batch /\ tickets' = tickets
  BY DEF EscalateLog, Goto, TypeOK, Proc
<1>2. Remaining(k)' = Remaining(k)
  BY <1>1 DEF Remaining
<1>3. QED
  BY <1>1, <1>2 DEF RunCurrent, RunPhase

LEMMA RunKeepsSerial ==
  ASSUME MaxInFlight = 1, IInv, SerialInv, NEW k \in Run, EscalateScan(k) \/ EscalationStep(k)
  PROVE  SerialInv'
<1>1. TypeOK /\ RunCurrent(k)
  BY DEF IInv, SerialInv, Current
<1>2. RunCurrent(k)'
  BY <1>1, EscalateScanCurrent, EscalateReloadCurrent, EscalateWriteCurrent, EscalateLogCurrent
  DEF EscalationStep
<1>3. OnlyMoves(k)
  BY RunStepIsSound DEF RunStepSound
<1>4. pc[k] \notin Resting \/ CanStart
  BY DEF EscalateScan, EscalationStep, EscalateReload, EscalateWrite, EscalateLog, Resting, Reply
<1>5. QED
  BY <1>2, <1>3, <1>4, RunSerial

LEMMA CrashSerial ==
  ASSUME Crash
  PROVE  SerialInv'
<1>1. \A p \in Proc : pc'[p] \in Resting
  BY DEF Crash, Resting, Reply
<1>2. \A k \in Run : pc'[k] = "idle" /\ Remaining(k)' = {}
  BY DEF Crash, Remaining, NoBatch, Proc
<1>3. \A r \in Request : RequestCurrent(r)'
  BY <1>1, UnboundCurrent DEF Unbound, Proc
<1>4. \A k \in Run : RunCurrent(k)'
  BY <1>2 DEF RunCurrent, RunPhase
<1>5. QED
  BY <1>1, <1>3, <1>4 DEF SerialInv, Alone, Current

LEMMA InitSerial == Init => SerialInv
<1> SUFFICES ASSUME Init PROVE SerialInv
  OBVIOUS
<1>1. /\ \A r \in Request : pc[r] = "ready"
      /\ \A k \in Run : pc[k] = "idle" /\ Remaining(k) = {}
  BY ProcAssumption DEF Init, Proc, Remaining, NoBatch
<1>2. \A r \in Request : RequestCurrent(r)
  BY <1>1 DEF RequestCurrent, RowCurrent, LinkCurrent, LoadCurrent
<1>3. \A k \in Run : RunCurrent(k)
  BY <1>1 DEF RunCurrent, RunPhase
<1>4. Alone
  BY <1>1 DEF Alone, Proc, Resting
<1>5. QED
  BY <1>2, <1>3, <1>4 DEF SerialInv, Current

LEMMA NextSerial ==
  ASSUME MaxInFlight = 1, IInv, SerialInv, [Next]_vars
  PROVE  SerialInv'
<1>1. ASSUME UNCHANGED <<tables, pc, locals>> PROVE SerialInv'
  BY <1>1 DEF tables, locals, SerialInv, Alone, Current, RequestCurrent, RowCurrent,
     LinkCurrent, LoadCurrent, RunCurrent, Remaining, AllBlockersDone, BlockersOf, Visible,
     LogsAssignment, LeastLoaded, Load, OpenTickets
<1>2. CASE Tick
  BY <1>1, <1>2 DEF Tick
<1>3. CASE UNCHANGED vars
  BY <1>1, <1>3 DEF vars
<1>4. QED
  BY <1>2, <1>3, RequestKeepsSerial, RunKeepsSerial, CrashSerial DEF Next

LEMMA SerialInvariance ==
  ASSUME MaxInFlight = 1
  PROVE  Spec => [](IInv /\ SerialInv)
<1>1. Init => IInv /\ SerialInv
  BY InitSound, InitSerial
<1>2. IInv /\ SerialInv /\ [Next]_vars => IInv' /\ SerialInv'
  BY StepSound, NextSerial
<1>3. QED
  BY <1>1, <1>2, PTL DEF Spec

-------------------------------------------------------------------------------
(* Theorems                                                                *)

\* A handler that is alone is not overtaken.
LEMMA NeverOvertaken ==
  ASSUME SerialInv, NEW p \in Proc
  PROVE  ~Overtaken(p)
<1>1. CASE p \in Request
  BY <1>1, ProcAssumption
  DEF SerialInv, Current, RequestCurrent, RowCurrent, LinkCurrent, Overtaken, RowOvertaken,
      GateOvertaken
<1>2. CASE p \in Run
  BY <1>2, ProcAssumption
  DEF SerialInv, Current, RunCurrent, Overtaken, RowOvertaken, RunPhase
<1>3. QED
  BY <1>1, <1>2 DEF Proc

LEMMA SerialBoardStep ==
  ASSUME IInv, SerialInv, [Next]_vars
  PROVE  [Board!Next]_<<tickets, deps>>
BY StepBoard, NeverOvertaken DEF BoardStep, OvertakenCommit

\* A server that is never called while it is busy implements the board: the
\* statements of a handler, or as many of them as a crash lets it execute, add up
\* to one operation.
THEOREM SerialImplementsBoard ==
  ASSUME MaxInFlight = 1
  PROVE  Spec => ImplementsBoard
<1>1. Init => Board!Init
  BY DEF Init, Board!Init
<1>2. IInv /\ SerialInv /\ [Next]_vars => [Board!Next]_Board!board
  BY SerialBoardStep DEF Board!board
<1>3. QED
  BY <1>1, <1>2, SerialInvariance, PTL DEF Spec, ImplementsBoard, Board!Spec

\* A step of the board changes one ticket at most, in one of five ways.
LEMMA OverdueStays ==
  ASSUME TypeOK, TypeOK', OverdueIsCritical, Board!Next
  PROVE  OverdueIsCritical'
<1> USE DEF CRITICAL, Board!CRITICAL
<1>1. CASE UNCHANGED tickets
  BY <1>1 DEF OverdueIsCritical
<1>2. ASSUME NEW t \in Ticket, Board!TicketChange(t) PROVE OverdueIsCritical'
  <2>1. \A u \in Ticket \ {t} : tickets'[u] = tickets[u]
    BY <1>2 DEF Board!TicketChange, Board!Create, Board!Edit, Board!Delete, Board!Restore,
       Board!Mark, Board!Escalate, Board!Only
  <2>2. tickets'[t] # NoRow /\ tickets'[t].overdue => tickets'[t].priority = 3
    <3>1. CASE Board!Create(t)
      BY <3>1 DEF Board!Create
    <3>2. CASE Board!Edit(t)
      BY <3>2 DEF Board!Edit, Board!Live, OverdueIsCritical
    <3>3. CASE Board!Delete(t) \/ Board!Restore(t)
      <4>1. tickets[t] # NoRow /\ tickets[t] \in Row
        BY <3>3 DEF Board!Delete, Board!Restore, TypeOK
      <4>2. /\ tickets'[t].overdue = tickets[t].overdue
            /\ tickets'[t].priority = tickets[t].priority
        BY <3>3, <4>1 DEF Board!Delete, Board!Restore, Board!Mark, Row
      <4>3. QED
        BY <4>1, <4>2 DEF OverdueIsCritical
    <3>4. CASE Board!Escalate(t)
      <4>1. tickets[t] # NoRow /\ tickets[t] \in Row /\ tickets[t].priority < 3
        BY <3>4 DEF Board!Escalate, Board!Live, TypeOK
      <4>2. /\ tickets'[t].priority = tickets[t].priority + 1
            /\ tickets'[t].overdue = IF tickets[t].priority + 1 = 3 THEN TRUE
                                     ELSE tickets[t].overdue
        BY <3>4, <4>1 DEF Board!Escalate, Row
      <4>3. tickets[t].priority # 3 /\ ~tickets[t].overdue
        BY <4>1 DEF OverdueIsCritical, Row, Priority, LOW
      <4>4. QED
        BY <4>2, <4>3
    <3>5. QED
      BY <1>2, <3>1, <3>2, <3>3, <3>4 DEF Board!TicketChange
  <2>3. QED
    BY <2>1, <2>2 DEF OverdueIsCritical
<1>3. QED
  BY <1>1, <1>2 DEF Board!Next, Board!Link, Board!Unlink

\* In the serial system the overdue mark goes with priority CRITICAL: the job
\* sets it at the top, a priority change of a client clears it.
THEOREM SerialOverdueIsCritical ==
  ASSUME MaxInFlight = 1
  PROVE  Spec => []OverdueIsCritical
<1>1. Init => OverdueIsCritical
  BY InitAssumption DEF Init, OverdueIsCritical, InitialRow
<1>2. /\ IInv /\ SerialInv /\ OverdueIsCritical /\ [Next]_vars /\ IInv'
      => OverdueIsCritical'
  <2> SUFFICES ASSUME IInv, SerialInv, OverdueIsCritical, [Next]_vars, IInv'
               PROVE  OverdueIsCritical'
    OBVIOUS
  <2>1. CASE Board!Next
    BY <2>1, OverdueStays DEF IInv
  <2>2. CASE UNCHANGED tickets
    BY <2>2 DEF OverdueIsCritical
  <2>3. QED
    BY <2>1, <2>2, SerialBoardStep
<1>3. QED
  BY <1>1, <1>2, SerialInvariance, PTL DEF Spec

LEMMA RowsPersist ==
  ASSUME IInv, [Next]_vars
  PROVE  \A t \in Ticket : tickets[t] # NoRow => tickets'[t] # NoRow
<1>1. CASE \E r \in Request : RequestCall(r) \/ RequestStep(r)
  BY <1>1, RequestStepIsSound DEF RequestStepSound, Grow
<1>2. CASE \E k \in Run : EscalateScan(k) \/ EscalationStep(k)
  BY <1>2, RunStepIsSound DEF RunStepSound, Grow
<1>3. CASE UNCHANGED tickets
  BY <1>3
<1>4. QED
  BY <1>1, <1>2, <1>3 DEF Next, vars, tables, Tick, Crash

\* Tickets that wait for each other cannot pass the DONE gate one by one.
LEMMA CycleStays ==
  ASSUME TypeOK, Board!Next, NEW S \in SUBSET Ticket, Deadlocked(S), deps \subseteq deps',
         \A t \in Ticket : tickets[t] # NoRow => tickets'[t] # NoRow
  PROVE  Deadlocked(S)'
<1>1. \A t \in S : \A b \in BlockersOf(t) : b \in BlockersOf(t)'
  BY DEF BlockersOf
<1>2. \A t \in S : tickets'[t] # NoRow /\ tickets'[t].status # DONE
  <2>1. CASE UNCHANGED tickets
    BY <2>1 DEF Deadlocked
  <2>2. ASSUME NEW u \in Ticket, Board!TicketChange(u), NEW t \in S
        PROVE  tickets'[t].status # DONE
    <3>1. tickets[t] # NoRow /\ tickets[t].status # DONE /\ tickets[t] \in Row
      BY DEF Deadlocked, TypeOK
    <3>2. CASE t # u
      <4>1. tickets'[t] = tickets[t]
        BY <2>2, <3>2 DEF Board!TicketChange, Board!Create, Board!Edit, Board!Delete,
           Board!Restore, Board!Mark, Board!Escalate, Board!Only
      <4>2. QED
        BY <3>1, <4>1
    <3>3. CASE t = u /\ Board!Edit(u)
      <4>1. PICK b \in S : b \in BlockersOf(t)
        BY DEF Deadlocked
      <4>2. Board!Blocks(b, t) /\ tickets[b].status # DONE
        BY <4>1 DEF Board!Blocks, BlockersOf, Deadlocked
      <4>3. ~Board!BlockersDone(t)
        BY <4>2 DEF Board!BlockersDone, DONE, Board!DONE
      <4>4. QED
        BY <3>3, <4>3 DEF Board!Edit, DONE, Board!DONE
    <3>4. CASE t = u /\ (Board!Delete(u) \/ Board!Restore(u))
      <4>1. tickets'[t] = [tickets[t] EXCEPT !.deleted = tickets'[t].deleted,
                                             !.version = tickets[t].version + 1]
        BY <3>1, <3>4 DEF Board!Delete, Board!Restore, Board!Mark, Row
      <4>2. tickets'[t].status = tickets[t].status
        BY <3>1, <4>1 DEF Row
      <4>3. QED
        BY <3>1, <4>2
    <3>5. CASE t = u /\ Board!Escalate(u)
      BY <3>1, <3>5 DEF Board!Escalate, Row
    <3>6. QED
      BY <2>2, <3>1, <3>2, <3>3, <3>4, <3>5 DEF Board!TicketChange, Board!Create
  <2>3. \A t \in S : tickets[t] # NoRow
    BY DEF Deadlocked
  <2>4. QED
    BY <2>1, <2>2, <2>3 DEF Board!Next, Board!Link, Board!Unlink
<1>3. QED
  BY <1>1, <1>2 DEF Deadlocked

\* In the serial system tickets that block each other stay open until one of
\* their dependencies is removed, whatever else clients and the job do.
THEOREM SerialCyclesStayOpen ==
  ASSUME MaxInFlight = 1
  PROVE  Spec => CyclesStayOpen
<1>1. ASSUME IInv, SerialInv, [Next]_vars
      PROVE  [\A S \in SUBSET Ticket : Deadlocked(S) => Deadlocked(S)' \/ deps \ deps' # {}]_<<tickets, deps>>
  BY <1>1, SerialBoardStep, CycleStays, RowsPersist DEF IInv
<1>2. QED
  BY <1>1, SerialInvariance, PTL DEF Spec, CyclesStayOpen

\* The query of autoAssign and getWorkload count the same tickets.
LEMMA WorkloadIsLoad ==
  ASSUME NEW project, NEW u \in Developer
  PROVE  Workload(project)[u] = Load(u, project) /\ Load(u, project) \in Nat
<1> DEFINE T == {t \in Ticket :
       /\ tickets[t] # NoRow /\ tickets[t].assignee = u /\ tickets[t].project = project
       /\ tickets[t].status # DONE /\ ~tickets[t].deleted}
<1>1. T = OpenTickets(u, project)
  BY DEF OpenTickets, Visible, IsLive
<1>2. Workload(project)[u] = Cardinality(T)
  BY DEF Workload
<1>3. Cardinality(OpenTickets(u, project)) \in Nat
  <2>1. OpenTickets(u, project) \in SUBSET Ticket
    BY DEF OpenTickets
  <2>2. IsFiniteSet(OpenTickets(u, project))
    BY <2>1, FS_Subset, FiniteAssumption
  <2>3. QED
    BY <2>2, FS_CardinalityType
<1>4. QED
  BY <1>1, <1>2, <1>3 DEF Load

\* Only the INSERT of an auto-assigned ticket leads to its log entry.
LEMMA InsertsAssigned ==
  ASSUME IInv, [Next]_vars, NEW r \in Request, pc[r] = "insert", pc'[r] = "logAssign"
  PROVE  LogsAssignment(r)
<1>0. pc \in [Proc -> RequestPhase \cup RunPhase] /\ r \in Proc
  BY DEF IInv, TypeOK, Proc
<1>1. ASSUME NEW q \in Request \ {r}, RequestCall(q) \/ RequestStep(q) PROVE FALSE
  BY <1>1, RequestStepIsSound DEF RequestStepSound, OnlyMoves, StaysRequest
<1>2. ASSUME NEW k \in Run, EscalateScan(k) \/ EscalationStep(k) PROVE FALSE
  BY <1>2, RunStepIsSound, ProcAssumption DEF RunStepSound, OnlyMoves, StaysRequest
<1>3. ~Crash
  BY <1>0, ProcAssumption DEF Crash, Resting, Reply
<1>4. ~UNCHANGED pc
  OBVIOUS
<1>5. RequestCall(r) \/ RequestStep(r)
  BY <1>1, <1>2, <1>3, <1>4 DEF Next, vars, Tick
<1>6. CreateInsert(r)
  BY <1>5 DEF RequestCall, RequestStep, TicketCall, DependencyCall, TicketStep, DependencyStep,
     CreateAssign, UpdateLoad, RemoveLoad, RestoreLoad, AddDependency, RemoveDependency,
     GetDependencies, Call, CreateLog, UpdateGate, UpdateReload, UpdateWrite, RemoveWrite,
     RestoreWrite, RestoreReread, AddReadPair, AddLookup, AddInsert, RemoveDelete,
     ListDependencies
<1>7. CASE ~LogsAssignment(r)
  <2>1. pc'[r] = "200"
    BY <1>0, <1>6, <1>7 DEF CreateInsert, Answer, Goto
  <2>2. QED
    BY <2>1
<1>8. QED
  BY <1>7

\* In the serial system the developer a ticket is auto-assigned to has, when the
\* row is inserted, the smallest workload of the project.
THEOREM SerialAssignsLeastLoaded ==
  ASSUME MaxInFlight = 1
  PROVE  Spec => AssignsLeastLoaded
<1>1. ASSUME IInv, SerialInv, [Next]_vars, NEW r \in Request, pc[r] = "insert",
             pc'[r] = "logAssign", NEW u \in Developer
      PROVE  LET row  == loaded[r]
                 load == Workload(row.project)
             IN  \/ load[u] > load[row.assignee]
                 \/ load[u] = load[row.assignee] /\ u >= row.assignee
  <2> DEFINE v == loaded[r].assignee
             p == loaded[r].project
  <2>1. LeastLoaded(v, p)
    BY <1>1, InsertsAssigned DEF SerialInv, Current, RequestCurrent, LoadCurrent
  <2>2. v \in Developer /\ (\/ Load(v, p) < Load(u, p)
                            \/ Load(v, p) = Load(u, p) /\ v <= u)
    BY <1>1, <2>1 DEF LeastLoaded
  <2>3. /\ Workload(p)[u] = Load(u, p) /\ Load(u, p) \in Nat
        /\ Workload(p)[v] = Load(v, p) /\ Load(v, p) \in Nat
    BY <1>1, <2>2, WorkloadIsLoad
  <2>4. u \in Nat /\ v \in Nat
    BY <1>1, <2>2, IdAssumption
  <2>. HIDE DEF v, p
  <2>5. \/ Workload(p)[u] > Workload(p)[v]
        \/ Workload(p)[u] = Workload(p)[v] /\ u >= v
    BY <2>2, <2>3, <2>4
  <2>6. QED
    BY <2>5 DEF v, p
<1>2. IInv /\ SerialInv /\ [Next]_vars =>
      [\A r \in Request :
         pc[r] = "insert" /\ pc'[r] = "logAssign" =>
           LET row  == loaded[r]
               load == Workload(row.project)
           IN  \A u \in Developer : \/ load[u] > load[row.assignee]
                                    \/ load[u] = load[row.assignee] /\ u >= row.assignee]_vars
  BY <1>1
<1>3. QED
  BY <1>2, SerialInvariance, PTL DEF Spec, AssignsLeastLoaded

-------------------------------------------------------------------------------
(* What overlapping calls break holds in the serial system.                *)

RowWrite(r) == UpdateWrite(r) \/ RemoveWrite(r) \/ RestoreWrite(r)

LEMMA TicketWrites ==
  ASSUME [Next]_vars
  PROVE  \/ UNCHANGED tickets
         \/ \E r \in Request : CreateInsert(r) \/ RowWrite(r)
         \/ \E k \in Run : EscalateWrite(k)
<1>1. ASSUME NEW r \in Request, RequestCall(r) \/ RequestStep(r)
      PROVE  UNCHANGED tickets \/ CreateInsert(r) \/ RowWrite(r)
  BY <1>1 DEF RequestCall, RequestStep, TicketCall, DependencyCall, TicketStep, DependencyStep,
     CreateAssign, UpdateLoad, RemoveLoad, RestoreLoad, AddDependency, RemoveDependency,
     GetDependencies, CreateLog, UpdateGate, UpdateReload, RestoreReread, AddReadPair,
     AddLookup, AddInsert, RemoveDelete, ListDependencies, tables, RowWrite
<1>2. ASSUME NEW k \in Run, EscalateScan(k) \/ EscalationStep(k)
      PROVE  UNCHANGED tickets \/ EscalateWrite(k)
  BY <1>2 DEF EscalateScan, EscalationStep, EscalateReload, EscalateLog, tables
<1>3. QED
  BY <1>1, <1>2 DEF Next, Tick, Crash, vars, tables

\* Only an edit of a client changes the status of a ticket.
LEMMA GateStays ==
  ASSUME TypeOK, Board!Next, NEW t \in Ticket, tickets[t] # NoRow, tickets[t].status # DONE,
         tickets'[t].status = DONE
  PROVE  AllBlockersDone(t)
<1>1. PICK u \in Ticket : Board!TicketChange(u)
  BY DEF Board!Next, Board!Link, Board!Unlink
<1>2. t = u
  BY <1>1 DEF Board!TicketChange, Board!Create, Board!Edit, Board!Delete, Board!Restore,
     Board!Mark, Board!Escalate, Board!Only
<1>3. tickets[t] \in Row
  BY DEF TypeOK
<1>4. CASE Board!Edit(t)
  <2>1. Board!BlockersDone(t)
    BY <1>4 DEF Board!Edit, DONE, Board!DONE
  <2>2. \A b \in BlockersOf(t) : b \in Ticket /\ Board!Blocks(b, t)
    BY DEF TypeOK, Dep, BlockersOf, Board!Blocks
  <2>3. QED
    BY <2>1, <2>2 DEF AllBlockersDone, Visible, IsLive, Board!BlockersDone, Board!Live, DONE,
       Board!DONE
<1>5. CASE Board!Delete(t) \/ Board!Restore(t)
  BY <1>3, <1>5 DEF Board!Delete, Board!Restore, Board!Mark, Row
<1>6. CASE Board!Escalate(t)
  BY <1>3, <1>6 DEF Board!Escalate, Row
<1>7. QED
  BY <1>1, <1>2, <1>4, <1>5, <1>6 DEF Board!TicketChange, Board!Create

\* In the serial system a ticket becomes DONE only when every blocker is DONE:
\* what the gate has counted still holds when save() writes the status.
THEOREM SerialGateHolds ==
  ASSUME MaxInFlight = 1
  PROVE  Spec => GateHolds
<1>1. ASSUME IInv, SerialInv, [Next]_vars, NEW t \in Ticket, IsLive(tickets[t]),
             tickets[t].status # DONE, tickets'[t].status = DONE
      PROVE  AllBlockersDone(t)
  <2>1. Board!Next
    BY <1>1, SerialBoardStep
  <2>2. QED
    BY <1>1, <2>1, GateStays DEF IInv, IsLive
<1>2. IInv /\ SerialInv /\ [Next]_vars =>
      [\A t \in Ticket :
         IsLive(tickets[t]) /\ tickets[t].status # DONE /\ tickets'[t].status = DONE
           => AllBlockersDone(t)]_vars
  BY <1>1
<1>3. QED
  BY <1>2, SerialInvariance, PTL DEF Spec, GateHolds

\* In the serial system only a restore brings a deleted ticket back: what save()
\* writes is a row that is live when it writes.
THEOREM SerialOnlyRestoreRevives ==
  ASSUME MaxInFlight = 1
  PROVE  Spec => OnlyRestoreRevives
<1>1. ASSUME IInv, SerialInv, [Next]_vars, NEW t \in Ticket, tickets[t] # NoRow,
             tickets[t].deleted, ~tickets'[t].deleted
      PROVE  \E r \in Request : pc[r] = "undelete" /\ target[r] = t
  <2>0. tickets \in [Ticket -> Row \cup {NoRow}] /\ tickets[t] \in Row
    BY <1>1 DEF IInv, TypeOK
  <2>1. ASSUME NEW r \in Request, CreateInsert(r) PROVE FALSE
    BY <1>1, <2>0, <2>1 DEF CreateInsert, NextId
  <2>2. ASSUME NEW r \in Request, UpdateWrite(r) PROVE FALSE
    <3>1. pc[r] = "write" /\ IsLive(tickets[target[r]])
      BY <1>1, <2>2
      DEF UpdateWrite, IInv, HandlersSound, RequestSound, UpdateSound, SerialInv, Current,
          RequestCurrent, RowCurrent
    <3>2. target[r] # t
      BY <1>1, <3>1 DEF IsLive
    <3>3. QED
      BY <1>1, <2>0, <2>2, <3>2 DEF UpdateWrite, SaveWrite
  <2>3. ASSUME NEW k \in Run, EscalateWrite(k) PROVE FALSE
    <3>1. pc[k] = "write" /\ IsLive(tickets[target[k]])
      BY <1>1, <2>3
      DEF EscalateWrite, IInv, HandlersSound, RunSound, IsLate, SerialInv, Current, RunCurrent
    <3>2. target[k] # t
      BY <1>1, <3>1 DEF IsLive
    <3>3. QED
      BY <1>1, <2>0, <2>3, <3>2 DEF EscalateWrite, SaveWrite
  <2>4. ASSUME NEW r \in Request, RemoveWrite(r) PROVE FALSE
    BY <1>1, <2>0, <2>4 DEF RemoveWrite, SetDeleted, Marked, Row
  <2>5. ASSUME NEW r \in Request, RestoreWrite(r) PROVE pc[r] = "undelete" /\ target[r] = t
    BY <1>1, <2>0, <2>5 DEF RestoreWrite, SetDeleted
  <2>6. QED
    BY <1>1, <2>1, <2>2, <2>3, <2>4, <2>5, TicketWrites DEF RowWrite
<1>2. IInv /\ SerialInv /\ [Next]_vars =>
      [\A t \in Ticket :
         tickets[t] # NoRow /\ tickets[t].deleted /\ ~tickets'[t].deleted
           => \E r \in Request : pc[r] = "undelete" /\ target[r] = t]_vars
  BY <1>1
<1>3. QED
  BY <1>2, SerialInvariance, PTL DEF Spec, OnlyRestoreRevives
===============================================================================

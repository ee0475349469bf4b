------------------------------ MODULE LedgerProofs -----------------------------
(***************************************************************************)
(* The SYSTEM entries of the audit log: what they say about priorities     *)
(* that only the job changes and about developers that only autoAssign     *)
(* picks, for any number of tickets, requests, log entries and crashes.    *)
(*                                                                         *)
(* A column that no body of a client names never changes once its row is   *)
(* there, although whole entities are saved that were read long before:    *)
(* all copies of it agree (Agree).  The entries are counted against what   *)
(* is in the tables (EscalationBooks, AssignmentBooks); only a crash makes *)
(* the two differ, by what was in flight.                                  *)
(***************************************************************************)
EXTENDS SerialProofs

\* The plain columns that the job, a deletion and a restore leave as they are.
Plain == {"title", "status", "due", "assignee"}

\* A handler in flight serves a call that clients make.
Sent(r) ==
  /\ pc[r] \in {"gate", "reload", "write"} =>
       "update" \in Operation /\ body[r] \in UpdateDtos
  /\ pc[r] \in {"insert", "logAssign"} =>
       /\ body[r] \in CreateDtos /\ loaded[r] = NewRow(body[r], loaded[r].assignee)
       /\ loaded[r].assignee \in IF AutoAssigned(body[r]) THEN Developer \cup {NoUser}
                                                          ELSE {body[r].assignee}
  /\ pc[r] = "logAssign" => LogsAssignment(r)
  /\ pc[r] = "undelete" => "restore" \in Operation

AllSent == \A r \in Request : Sent(r)

\* The copies of column c that a handler holds are those of the table.
RequestAgrees(r, c) ==
  /\ pc[r] \in {"gate", "reload", "write"} => loaded[r][c] = tickets[target[r]][c]
  /\ pc[r] = "write" => seen[r][c] = tickets[target[r]][c]

RunAgrees(k, c) ==
  /\ \A t \in Remaining(k) : batch[k][t][c] = tickets[t][c]
  /\ pc[k] = "write" => /\ loaded[k][c] = tickets[target[k]][c]
                        /\ seen[k][c] = tickets[target[k]][c]

Agree(c) == (\A r \in Request : RequestAgrees(r, c)) /\ (\A k \in Run : RunAgrees(k, c))

\* Column c of a row that is there does not change in this step.
Fixed(c) == \A t \in Ticket : tickets[t] # NoRow => tickets'[t][c] = tickets[t][c]

-------------------------------------------------------------------------------
(* Which steps write the tables.                                           *)

LEMMA AuditWrites ==
  ASSUME [Next]_vars
  PROVE  \/ UNCHANGED audit
         \/ \E r \in Request : CreateLog(r)
         \/ \E k \in Run : EscalateLog(k)
<1>1. ASSUME NEW r \in Request, RequestCall(r) \/ RequestStep(r)
      PROVE  UNCHANGED audit \/ CreateLog(r)
  BY <1>1 DEF RequestCall, RequestStep, TicketCall, DependencyCall, TicketStep, DependencyStep,
     CreateAssign, UpdateLoad, RemoveLoad, RestoreLoad, AddDependency, RemoveDependency,
     GetDependencies, CreateInsert, UpdateGate, UpdateReload, UpdateWrite, RemoveWrite,
     RestoreWrite, RestoreReread, AddReadPair, AddLookup, AddInsert, RemoveDelete,
     ListDependencies, tables
<1>2. ASSUME NEW k \in Run, EscalateScan(k) \/ EscalationStep(k)
      PROVE  UNCHANGED audit \/ EscalateLog(k)
  BY <1>2 DEF EscalateScan, EscalationStep, EscalateReload, EscalateWrite, tables
<1>3. QED
  BY <1>1, <1>2 DEF Next, Tick, Crash, vars, tables

\* Handler p moves: it was in flight, or it could start.
Moves(p) == OnlyMoves(p) /\ (pc[p] \notin Resting \/ CanStart) /\ UNCHANGED crashes

LEMMA RequestStepMoves ==
  ASSUME IInv, NEW r \in Request, RequestCall(r) \/ RequestStep(r)
  PROVE  Moves(r)
<1>1. OnlyMoves(r)
  BY RequestStepIsSound DEF RequestStepSound
<1>2. UNCHANGED crashes
  BY DEF RequestCall, RequestStep, TicketCall, DependencyCall, TicketStep, DependencyStep,
     CreateAssign, UpdateLoad, RemoveLoad, RestoreLoad, AddDependency, RemoveDependency,
     GetDependencies, CreateInsert, CreateLog, UpdateGate, UpdateReload, UpdateWrite,
     RemoveWrite, RestoreWrite, RestoreReread, AddReadPair, AddLookup, AddInsert,
     RemoveDelete, ListDependencies, env
<1>3. QED
  BY <1>1, <1>2, RequestBusy DEF Moves

LEMMA RunStepMoves ==
  ASSUME IInv, NEW k \in Run, EscalateScan(k) \/ EscalationStep(k)
  PROVE  Moves(k)
<1>1. OnlyMoves(k)
  BY RunStepIsSound DEF RunStepSound
<1>2. UNCHANGED crashes
  BY DEF EscalateScan, EscalationStep, EscalateReload, EscalateWrite, EscalateLog, env
<1>3. pc[k] \notin Resting \/ CanStart
  BY DEF EscalateScan, EscalationStep, EscalateReload, EscalateWrite, EscalateLog, Resting, Reply
<1>4. QED
  BY <1>1, <1>2, <1>3 DEF Moves

-------------------------------------------------------------------------------
(* What clients send.                                                      *)

LEMMA SentStays ==
  ASSUME NEW r \in Request, StaysRequest(r), Sent(r)
  PROVE  Sent(r)'
BY DEF Sent, StaysRequest, LogsAssignment, AutoAssigned, NewRow, Given

\* Phases that say nothing about the call.
Other == (RequestPhase \cup {"idle"}) \ {"gate", "reload", "write", "insert", "logAssign", "undelete"}

LEMMA SentElsewhere ==
  ASSUME NEW r \in Request, pc'[r] \in Other
  PROVE  Sent(r)'
BY DEF Sent, Other

LEMMA AnswerSent ==
  ASSUME TypeOK, NEW r \in Request, NEW reply \in Reply, Answer(r, reply)
  PROVE  pc'[r] \in Other
BY DEF Answer, Goto, TypeOK, Proc, Other, Reply, RequestPhase

\* What the handlers that hold neither body nor new row go to.
LEMMA OtherPhases ==
  ASSUME IInv, NEW r \in Request,
         \/ DependencyCall(r) \/ DependencyStep(r) \/ RemoveLoad(r) \/ CreateLog(r)
         \/ UpdateWrite(r) \/ RemoveWrite(r) \/ RestoreWrite(r) \/ RestoreReread(r)
  PROVE  pc'[r] \in Other
<1>1. TypeOK /\ r \in Proc /\ pc \in [Proc -> RequestPhase \cup RunPhase]
  BY DEF IInv, TypeOK, Proc
<1>2. CASE \E reply \in Reply : Answer(r, reply)
  BY <1>1, <1>2, AnswerSent
<1>3. CASE \E phase \in {"readPair", "readPairMissing", "lookup", "insertDep", "deleteDep",
                         "listDeps", "softRemove", "reread"} : Goto(r, phase)
  BY <1>1, <1>3 DEF Goto, Other, RequestPhase, Reply
<1>4. QED
  BY <1>2, <1>3 DEF DependencyCall, DependencyStep, RemoveLoad, CreateLog, UpdateWrite,
     RemoveWrite, RestoreWrite, RestoreReread, AddDependency, RemoveDependency,
     GetDependencies, AddReadPair, AddLookup, AddInsert, RemoveDelete, ListDependencies, Reply

LEMMA CreateAssignSent ==
  ASSUME TypeOK, NEW r \in Request, CreateAssign(r)
  PROVE  Sent(r)'
<1>1. PICK dto \in CreateDtos :
        \E a \in IF AutoAssigned(dto) THEN AutoAssignees(dto.project) ELSE {dto.assignee} :
          /\ body' = [body EXCEPT ![r] = dto]
          /\ loaded' = [loaded EXCEPT ![r] = NewRow(dto, a)]
  BY DEF CreateAssign
<1>2. PICK a \in IF AutoAssigned(dto) THEN AutoAssignees(dto.project) ELSE {dto.assignee} :
        /\ body' = [body EXCEPT ![r] = dto]
        /\ loaded' = [loaded EXCEPT ![r] = NewRow(dto, a)]
  BY <1>1
<1>3. pc'[r] = "insert" /\ body'[r] = dto /\ loaded'[r] = NewRow(dto, a)
  BY <1>2 DEF CreateAssign, Goto, TypeOK, Proc
<1>4. a \in IF AutoAssigned(dto) THEN Developer \cup {NoUser} ELSE {dto.assignee}
  BY <1>2 DEF AutoAssignees
<1>5. loaded'[r].assignee = a
  BY <1>3 DEF NewRow
<1>6. QED
  BY <1>3, <1>4, <1>5 DEF Sent, AutoAssigned, NewRow, Given

LEMMA CreateInsertSent ==
  ASSUME TypeOK, NEW r \in Request, Sent(r), CreateInsert(r)
  PROVE  Sent(r)'
<1>1. CASE Answer(r, "200")
  BY <1>1, AnswerSent, SentElsewhere DEF Reply
<1>2. CASE LogsAssignment(r) /\ Goto(r, "logAssign") /\ UNCHANGED <<body, loaded>>
  <2>1. pc[r] = "insert" /\ pc'[r] = "logAssign" /\ body'[r] = body[r] /\ loaded'[r] = loaded[r]
    BY <1>2 DEF CreateInsert, Goto, TypeOK, Proc
  <2>2. QED
    BY <1>2, <2>1 DEF Sent, LogsAssignment, AutoAssigned, NewRow, Given
<1>3. QED
  BY <1>1, <1>2 DEF CreateInsert

LEMMA UpdateLoadSent ==
  ASSUME TypeOK, NEW r \in Request, UpdateLoad(r)
  PROVE  Sent(r)'
<1>1. PICK t \in Ticket, dto \in UpdateDtos :
        \/ \E reply \in Reply : Answer(r, reply)
        \/ /\ Goto(r, "gate") \/ Goto(r, "reload")
           /\ body' = [body EXCEPT ![r] = dto]
  BY DEF UpdateLoad, Reply
<1>2. CASE \E reply \in Reply : Answer(r, reply)
  BY <1>2, AnswerSent, SentElsewhere
<1>3. CASE (Goto(r, "gate") \/ Goto(r, "reload")) /\ body' = [body EXCEPT ![r] = dto]
  <2>1. pc'[r] \in {"gate", "reload"} /\ body'[r] = dto /\ "update" \in Operation
    BY <1>3 DEF UpdateLoad, Call, Goto, TypeOK, Proc
  <2>2. QED
    BY <2>1 DEF Sent
<1>4. QED
  BY <1>1, <1>2, <1>3

LEMMA UpdateGoesOnSent ==
  ASSUME TypeOK, NEW r \in Request, Sent(r), UpdateGate(r) \/ UpdateReload(r)
  PROVE  Sent(r)'
<1>1. \/ \E reply \in Reply : Answer(r, reply)
      \/ /\ pc[r] \in {"gate", "reload"} /\ (Goto(r, "reload") \/ Goto(r, "write"))
         /\ body' = body
  BY DEF UpdateGate, UpdateReload, Reply, locals
<1>2. CASE \E reply \in Reply : Answer(r, reply)
  BY <1>2, AnswerSent, SentElsewhere
<1>3. CASE /\ pc[r] \in {"gate", "reload"} /\ (Goto(r, "reload") \/ Goto(r, "write"))
           /\ body' = body
  <2>1. pc'[r] \in {"reload", "write"} /\ body'[r] = body[r]
    BY <1>3 DEF Goto, TypeOK, Proc
  <2>2. QED
    BY <1>3, <2>1 DEF Sent
<1>4. QED
  BY <1>1, <1>2, <1>3

LEMMA RestoreLoadSent ==
  ASSUME TypeOK, NEW r \in Request, RestoreLoad(r)
  PROVE  Sent(r)'
<1>1. CASE \E reply \in Reply : Answer(r, reply)
  BY <1>1, AnswerSent, SentElsewhere
<1>2. CASE Goto(r, "undelete")
  <2>1. pc'[r] = "undelete" /\ "restore" \in Operation
    BY <1>2 DEF RestoreLoad, Call, Goto, TypeOK, Proc
  <2>2. QED
    BY <2>1 DEF Sent
<1>3. QED
  BY <1>1, <1>2 DEF RestoreLoad, Reply

LEMMA RequestSent ==
  ASSUME IInv, AllSent, NEW r \in Request, RequestCall(r) \/ RequestStep(r)
  PROVE  Sent(r)'
<1>1. TypeOK /\ Sent(r)
  BY DEF IInv, AllSent
<1>2. QED
  BY <1>1, OtherPhases, SentElsewhere, CreateAssignSent, CreateInsertSent, UpdateLoadSent,
     UpdateGoesOnSent, RestoreLoadSent
  DEF RequestCall, RequestStep, TicketCall, TicketStep

LEMMA CrashEnds ==
  ASSUME IInv, Crash
  PROVE  /\ \A r \in Request : pc'[r] \in Other
         /\ \A k \in Run : pc'[k] = "idle" /\ Remaining(k)' = {}
<1>1. \A r \in Request : pc'[r] \in Other
  BY ProcAssumption DEF Crash, Proc, Other, RequestPhase, Resting, Reply
<1>2. \A k \in Run : pc'[k] = "idle" /\ Remaining(k)' = {}
  BY DEF Crash, Remaining, NoBatch, Proc
<1>3. QED
  BY <1>1, <1>2

LEMMA SentStep ==
  ASSUME IInv, AllSent, [Next]_vars
  PROVE  AllSent'
<1>1. CASE \E r \in Request : RequestCall(r) \/ RequestStep(r)
  BY <1>1, RequestSent, RequestStepMoves, SentStays DEF AllSent, Moves, OnlyMoves
<1>2. CASE \E k \in Run : EscalateScan(k) \/ EscalationStep(k)
  BY <1>2, RunStepMoves, SentStays, ProcAssumption DEF AllSent, Moves, OnlyMoves
<1>3. CASE Crash
  BY <1>3, CrashEnds, SentElsewhere DEF AllSent
<1>4. CASE Tick \/ UNCHANGED vars
  BY <1>4, SentStays DEF AllSent, Tick, vars, locals, StaysRequest
<1>5. QED
  BY <1>1, <1>2, <1>3, <1>4 DEF Next

LEMMA InitSent == Init => AllSent
<1>1. Init => \A r \in Request : pc[r] = "ready"
  BY DEF Init, Proc
<1>2. QED
  BY <1>1 DEF AllSent, Sent

-------------------------------------------------------------------------------
(* Columns nobody names do not change.                                     *)

\* save() leaves a column alone in which the entity is as it was reloaded.
LEMMA MergeKeeps ==
  ASSUME NEW c \in Plain \cup {"priority"}, NEW e \in Row, NEW s \in Row, NEW row \in Row, e[c] = s[c]
  PROVE  Merge(e, s, row)[c] = row[c]
<1>1. CASE c = "title"
  BY <1>1 DEF Merge, Column, Row
<1>2. CASE c = "status"
  BY <1>2 DEF Merge, Column, Row
<1>3. CASE c = "due"
  BY <1>3 DEF Merge, Column, Row
<1>4. CASE c = "assignee"
  BY <1>4 DEF Merge, Column, Row
<1>5. CASE c = "priority"
  BY <1>5 DEF Merge, Column, Row
<1>6. QED
  BY <1>1, <1>2, <1>3, <1>4, <1>5 DEF Plain

LEMMA AssignedKeeps ==
  ASSUME NEW c \in Plain \cup {"priority"}, NEW row \in Row, NEW dto, dto[c] = Absent
  PROVE  Assigned(row, dto)[c] = row[c]
<1>1. CASE c = "title"
  BY <1>1 DEF Assigned, Given, Row
<1>2. CASE c = "status"
  BY <1>2 DEF Assigned, Given, Row
<1>3. CASE c = "due"
  BY <1>3 DEF Assigned, Given, Row
<1>4. CASE c = "assignee"
  BY <1>4 DEF Assigned, Given, Row
<1>5. CASE c = "priority"
  BY <1>5 DEF Assigned, Given, Row
<1>6. QED
  BY <1>1, <1>2, <1>3, <1>4, <1>5 DEF Plain

LEMMA EscalatedKeeps ==
  ASSUME NEW c \in Plain, NEW row \in Row
  PROVE  Escalated(row)[c] = row[c]
BY DEF Escalated, Row, Plain

LEMMA MarkedKeeps ==
  ASSUME NEW c \in Plain \cup {"priority"}, NEW row \in Row, NEW flag
  PROVE  Marked(row, flag)[c] = row[c]
BY DEF Marked, Row, Plain

\* What an UPDATE of a handler finds: its ticket, its entity and the reload.
LEMMA UpdateWriteLocals ==
  ASSUME IInv, NEW r \in Request, UpdateWrite(r)
  PROVE  /\ target[r] \in Ticket /\ tickets[target[r]] \in Row /\ tickets[target[r]] # NoRow
         /\ loaded[r] \in Row /\ seen[r] \in Row /\ body[r] \in Dto
         /\ Assigned(loaded[r], body[r]) \in Row
         /\ tickets' = [tickets EXCEPT ![target[r]] =
              Merge(Assigned(loaded[r], body[r]), seen[r], tickets[target[r]])]
<1>1. TypeOK /\ UpdateSound(r) /\ pc[r] = "write"
  BY DEF IInv, HandlersSound, RequestSound, UpdateWrite
<1>2. /\ target[r] \in Ticket /\ tickets[target[r]] \in Row /\ tickets[target[r]] # NoRow
      /\ loaded[r] \in Row /\ seen[r] \in Row /\ body[r] \in Dto
  BY <1>1 DEF UpdateSound, TypeOK, IsLive, Proc
<1>3. Assigned(loaded[r], body[r]) \in Row
  BY <1>1, <1>2, AssignedRow DEF UpdateSound
<1>4. QED
  BY <1>1, <1>2, <1>3 DEF UpdateWrite, SaveWrite

LEMMA EscalateWriteLocals ==
  ASSUME IInv, NEW k \in Run, EscalateWrite(k)
  PROVE  /\ target[k] \in Ticket /\ tickets[target[k]] \in Row /\ tickets[target[k]] # NoRow
         /\ loaded[k] \in Row /\ seen[k] \in Row /\ loaded[k].priority # CRITICAL
         /\ Escalated(loaded[k]) \in Row
         /\ tickets' = [tickets EXCEPT ![target[k]] =
              Merge(Escalated(loaded[k]), seen[k], tickets[target[k]])]
<1>1. TypeOK /\ RunSound(k) /\ pc[k] = "write"
  BY DEF IInv, HandlersSound, EscalateWrite
<1>2. /\ target[k] \in Ticket /\ tickets[target[k]] \in Row /\ tickets[target[k]] # NoRow
      /\ loaded[k] \in Row /\ seen[k] \in Row /\ loaded[k].priority # CRITICAL
  BY <1>1 DEF RunSound, TypeOK, IsLate, IsLive, Proc
<1>3. Escalated(loaded[k]) \in Row
  BY <1>2, EscalatedRow
<1>4. QED
  BY <1>1, <1>2, <1>3 DEF EscalateWrite, SaveWrite

LEMMA MarkWriteLocals ==
  ASSUME IInv, NEW r \in Request, RemoveWrite(r) \/ RestoreWrite(r)
  PROVE  /\ target[r] \in Ticket /\ tickets[target[r]] \in Row /\ tickets[target[r]] # NoRow
         /\ \E flag \in BOOLEAN : 
              /\ flag = FALSE => pc[r] = "undelete"
              /\ tickets' = [tickets EXCEPT ![target[r]] = Marked(tickets[target[r]], flag)]
<1>1. TypeOK /\ MarkSound(r)
  BY DEF IInv, HandlersSound, RequestSound
<1>2. target[r] \in Ticket /\ tickets[target[r]] \in Row /\ tickets[target[r]] # NoRow
  BY <1>1 DEF MarkSound, TypeOK, RemoveWrite, RestoreWrite
<1>3. QED
  BY <1>1, <1>2 DEF RemoveWrite, RestoreWrite, SetDeleted

LEMMA InsertLocals ==
  ASSUME IInv, NEW r \in Request, CreateInsert(r)
  PROVE  /\ loaded[r] \in Row /\ loaded[r] # NoRow /\ pc[r] = "insert"
         /\ \E t \in Ticket : NextId(t) /\ tickets' = [tickets EXCEPT ![t] = loaded[r]]
<1>1. TypeOK /\ CreateSound(r) /\ pc[r] = "insert"
  BY DEF IInv, HandlersSound, RequestSound, CreateInsert
<1>2. loaded[r] \in Row /\ loaded[r] # NoRow
  BY <1>1 DEF CreateSound, TypeOK, Proc
<1>3. QED
  BY <1>1, <1>2 DEF CreateInsert

LEMMA FixedStep ==
  ASSUME IInv, AllSent, NEW c \in Plain, Keeps(c), Agree(c), [Next]_vars
  PROVE  Fixed(c)
<1>1. CASE UNCHANGED tickets
  BY <1>1 DEF Fixed
<1>2. ASSUME NEW r \in Request, CreateInsert(r) PROVE Fixed(c)
  <2>1. PICK t \in Ticket : tickets[t] = NoRow /\ tickets' = [tickets EXCEPT ![t] = loaded[r]]
    BY <1>2, InsertLocals DEF NextId
  <2>2. QED
    BY <2>1 DEF Fixed, IInv, TypeOK
<1>3. ASSUME NEW r \in Request, UpdateWrite(r) PROVE Fixed(c)
  <2> DEFINE t == target[r]
             e == Assigned(loaded[r], body[r])
  <2>1. body[r][c] = Absent /\ loaded[r][c] = tickets[t][c] /\ seen[r][c] = tickets[t][c]
    BY <1>3 DEF UpdateWrite, AllSent, Sent, Keeps, Agree, RequestAgrees
  <2>2. e[c] = seen[r][c]
    BY <1>3, <2>1, UpdateWriteLocals, AssignedKeeps
  <2>3. Merge(e, seen[r], tickets[t])[c] = tickets[t][c]
    BY <1>3, <2>2, UpdateWriteLocals, MergeKeeps
  <2>4. QED
    BY <1>3, <2>3, UpdateWriteLocals DEF Fixed, IInv, TypeOK
<1>4. ASSUME NEW r \in Request, RemoveWrite(r) \/ RestoreWrite(r) PROVE Fixed(c)
  <2> DEFINE t == target[r]
  <2>1. PICK flag \in BOOLEAN : tickets' = [tickets EXCEPT ![t] = Marked(tickets[t], flag)]
    BY <1>4, MarkWriteLocals
  <2>2. Marked(tickets[t], flag)[c] = tickets[t][c]
    BY <1>4, MarkWriteLocals, MarkedKeeps
  <2>3. QED
    BY <1>4, <2>1, <2>2, MarkWriteLocals DEF Fixed, IInv, TypeOK
<1>5. ASSUME NEW k \in Run, EscalateWrite(k) PROVE Fixed(c)
  <2> DEFINE t == target[k]
             e == Escalated(loaded[k])
  <2>1. loaded[k][c] = seen[k][c]
    BY <1>5 DEF EscalateWrite, Agree, RunAgrees
  <2>2. e[c] = seen[k][c]
    BY <1>5, <2>1, EscalateWriteLocals, EscalatedKeeps
  <2>3. Merge(e, seen[k], tickets[t])[c] = tickets[t][c]
    BY <1>5, <2>2, EscalateWriteLocals, MergeKeeps
  <2>4. QED
    BY <1>5, <2>3, EscalateWriteLocals DEF Fixed, IInv, TypeOK
<1>6. QED
  BY <1>1, <1>2, <1>3, <1>4, <1>5, TicketWrites DEF RowWrite


LEMMA RequestStillAgrees ==
  ASSUME IInv, NEW r \in Request, NEW c, Fixed(c), StaysRequest(r), RequestAgrees(r, c)
  PROVE  RequestAgrees(r, c)'
<1>1. pc[r] \in {"gate", "reload", "write"} => target[r] \in Ticket /\ tickets[target[r]] # NoRow
  BY DEF IInv, HandlersSound, RequestSound, UpdateSound
<1>2. QED
  BY <1>1 DEF Fixed, StaysRequest, RequestAgrees

LEMMA RunStillAgrees ==
  ASSUME IInv, NEW k \in Run, NEW c, Fixed(c), StaysRun(k), RunAgrees(k, c)
  PROVE  RunAgrees(k, c)'
<1>1. /\ pc[k] = "write" => target[k] \in Ticket /\ tickets[target[k]] # NoRow
      /\ \A t \in Remaining(k) : t \in Ticket /\ tickets[t] # NoRow
  BY DEF IInv, HandlersSound, RunSound, Remaining
<1>2. Remaining(k)' = Remaining(k)
  BY DEF StaysRun, Remaining
<1>3. QED
  BY <1>1, <1>2 DEF Fixed, StaysRun, RunAgrees

LEMMA RequestStepAgrees ==
  ASSUME IInv, NEW r \in Request, NEW c, RequestAgrees(r, c), RequestCall(r) \/ RequestStep(r)
  PROVE  RequestAgrees(r, c)'
<1>1. TypeOK /\ r \in Proc
  BY DEF IInv, Proc
<1>2. ASSUME pc'[r] \in Other \cup {"insert", "logAssign", "undelete"} PROVE RequestAgrees(r, c)'
  BY <1>2 DEF RequestAgrees, Other
<1>3. CASE \E reply \in Reply : Answer(r, reply)
  BY <1>1, <1>2, <1>3, AnswerSent
<1>4. CASE CreateAssign(r) \/ CreateInsert(r) \/ RestoreLoad(r)
  <2>1. \E reply \in Reply \cup {"insert", "logAssign", "undelete"} : Goto(r, reply)
    BY <1>4 DEF CreateAssign, CreateInsert, RestoreLoad, Answer, Reply
  <2>2. pc'[r] \in Other \cup {"insert", "logAssign", "undelete"}
    BY <1>1, <2>1 DEF Goto, TypeOK, Other, RequestPhase, Reply
  <2>3. QED
    BY <1>2, <2>2
<1>5. CASE UpdateLoad(r) /\ ~\E reply \in Reply : Answer(r, reply)
  <2>1. PICK t \in Ticket : /\ target' = [target EXCEPT ![r] = t]
                            /\ loaded' = [loaded EXCEPT ![r] = tickets[t]]
                            /\ Goto(r, "gate") \/ Goto(r, "reload")
                            /\ UNCHANGED tickets
    BY <1>5 DEF UpdateLoad, Reply, tables
  <2>2. QED
    BY <1>1, <2>1 DEF RequestAgrees, Goto, TypeOK
<1>6. CASE UpdateGate(r) /\ ~\E reply \in Reply : Answer(r, reply)
  <2>1. pc[r] = "gate" /\ Goto(r, "reload") /\ UNCHANGED <<tickets, target, loaded>>
    BY <1>6 DEF UpdateGate, Reply, tables, locals
  <2>2. QED
    BY <1>1, <2>1 DEF RequestAgrees, Goto, TypeOK
<1>7. CASE UpdateReload(r)
  <2>1. /\ pc[r] = "reload" /\ Goto(r, "write") /\ UNCHANGED <<tickets, target, loaded>>
        /\ seen' = [seen EXCEPT ![r] = tickets[target[r]]]
    BY <1>7 DEF UpdateReload, SaveReload, tables
  <2>2. QED
    BY <1>1, <2>1 DEF RequestAgrees, Goto, TypeOK
<1>8. QED
  BY <1>2, <1>3, <1>4, <1>5, <1>6, <1>7, OtherPhases
  DEF RequestCall, RequestStep, TicketCall, TicketStep

LEMMA RunStepAgrees ==
  ASSUME IInv, NEW k \in Run, NEW c, RunAgrees(k, c), Fixed(c),
         EscalateScan(k) \/ EscalationStep(k)
  PROVE  RunAgrees(k, c)'
<1>1. TypeOK /\ k \in Proc /\ RunSound(k)
  BY DEF IInv, HandlersSound, Proc
<1>2. CASE EscalateScan(k)
  <2>1. CASE UNCHANGED <<pc, batch>>
    BY <1>2, <2>1 DEF EscalateScan, tables, RunAgrees, Remaining
  <2>2. CASE ~UNCHANGED <<pc, batch>>
    <3>1. /\ pc'[k] = "next" /\ UNCHANGED tickets
          /\ batch'[k] = [t \in Ticket |-> IF Late(t) THEN tickets[t] ELSE NoRow]
      BY <1>1, <1>2, <2>2 DEF EscalateScan, tables, Goto, TypeOK
    <3>2. QED
      BY <3>1 DEF RunAgrees, Remaining
  <2>3. QED
    BY <2>1, <2>2
<1>3. CASE EscalateReload(k)
  <2>1. PICK t \in Remaining(k) :
          /\ target' = [target EXCEPT ![k] = t]
          /\ loaded' = [loaded EXCEPT ![k] = batch[k][t]]
          /\ batch'  = [batch EXCEPT ![k] = [@ EXCEPT ![t] = NoRow]]
          /\ seen' = [seen EXCEPT ![k] = tickets[t]]
          /\ pc' = [pc EXCEPT ![k] = "write"] /\ UNCHANGED tickets
    BY <1>3 DEF EscalateReload, SaveReload, Goto, tables
  <2>2. /\ target'[k] = t /\ loaded'[k] = batch[k][t] /\ seen'[k] = tickets[t]
        /\ batch'[k] = [batch[k] EXCEPT ![t] = NoRow] /\ tickets' = tickets
    BY <1>1, <2>1 DEF TypeOK
  <2>3. \A u \in Remaining(k)' : u \in Remaining(k) /\ batch'[k][u] = batch[k][u]
    BY <1>1, <2>2 DEF Remaining, TypeOK
  <2>4. QED
    BY <2>2, <2>3 DEF RunAgrees
<1>4. CASE EscalateWrite(k) \/ EscalateLog(k)
  <2>1. pc'[k] \in {"logEscalation", "idle", "next"} /\ batch' = batch
    BY <1>1, <1>4 DEF EscalateWrite, EscalateLog, Goto, TypeOK, locals
  <2>2. \A t \in Remaining(k) : t \in Ticket /\ tickets[t] # NoRow
    BY <1>1 DEF RunSound, Remaining
  <2>3. QED
    BY <2>1, <2>2 DEF RunAgrees, Remaining, Fixed
<1>5. QED
  BY <1>2, <1>3, <1>4 DEF EscalationStep

LEMMA AgreeStep ==
  ASSUME IInv, AllSent, NEW c \in Plain, Keeps(c), Agree(c), [Next]_vars
  PROVE  Agree(c)'
<1>1. Fixed(c)
  BY FixedStep
<1>2. ASSUME NEW p \in Proc, OnlyMoves(p)
      PROVE  /\ \A r \in Request \ {p} : RequestAgrees(r, c)'
             /\ \A k \in Run \ {p} : RunAgrees(k, c)'
  BY <1>1, <1>2, RequestStillAgrees, RunStillAgrees DEF OnlyMoves, Agree
<1>3. ASSUME NEW r \in Request, RequestCall(r) \/ RequestStep(r) PROVE Agree(c)'
  <2>1. RequestAgrees(r, c)' /\ OnlyMoves(r) /\ r \in Proc
    BY <1>3, RequestStepAgrees, RequestStepMoves DEF Agree, Moves, Proc
  <2>2. QED
    BY <1>2, <2>1, ProcAssumption DEF Agree
<1>4. ASSUME NEW k \in Run, EscalateScan(k) \/ EscalationStep(k) PROVE Agree(c)'
  <2>1. RunAgrees(k, c)' /\ OnlyMoves(k) /\ k \in Proc
    BY <1>1, <1>4, RunStepAgrees, RunStepMoves DEF Agree, Moves, Proc
  <2>2. QED
    BY <1>2, <2>1, ProcAssumption DEF Agree
<1>5. CASE Crash
  BY <1>5, CrashEnds DEF Agree, RequestAgrees, RunAgrees, Other
<1>6. CASE Tick \/ UNCHANGED vars
  <2>1. (\A r \in Request : StaysRequest(r)) /\ (\A k \in Run : StaysRun(k))
    BY <1>6 DEF Tick, vars, locals, StaysRequest, StaysRun
  <2>2. QED
    BY <1>1, <2>1, RequestStillAgrees, RunStillAgrees DEF Agree
<1>7. QED
  BY <1>3, <1>4, <1>5, <1>6 DEF Next

LEMMA InitAgree == ASSUME NEW c PROVE Init => Agree(c)
<1> SUFFICES ASSUME Init PROVE Agree(c)
  OBVIOUS
<1>1. /\ \A r \in Request : pc[r] = "ready"
      /\ \A k \in Run : pc[k] = "idle" /\ Remaining(k) = {}
  BY ProcAssumption DEF Init, Proc, Remaining, NoBatch
<1>2. QED
  BY <1>1 DEF Agree, RequestAgrees, RunAgrees

\* The invariant of everything below: what clients send.
LInv == IInv /\ AllSent

LEMMA LStep == LInv /\ [Next]_vars => LInv'
BY StepSound, SentStep DEF LInv

LEMMA LInvariance == Spec => []LInv
<1>1. Init => LInv
  BY InitSound, InitSent DEF LInv
<1>2. QED
  BY <1>1, LStep, PTL DEF Spec

-------------------------------------------------------------------------------
(* Auto-assignments.                                                       *)

Assignment(t, u) == <<"AUTO_ASSIGN", t, u>>

\* An entry names the assignee of its ticket.
EntriesTrue ==
  \A t \in Ticket, u \in User : audit[Assignment(t, u)] # 0 =>
    /\ audit[Assignment(t, u)] = 1 /\ tickets[t] # NoRow
    /\ u \in Developer /\ tickets[t].assignee = u

\* A handler about to log is the only one for its ticket, which has no entry yet.
LogsOnce(r) ==
  pc[r] = "logAssign" =>
    /\ target[r] \in Ticket /\ tickets[target[r]] # NoRow
    /\ tickets[target[r]].assignee = loaded[r].assignee /\ loaded[r].assignee \in Developer
    /\ \A u \in User : audit[Assignment(target[r], u)] = 0
    /\ \A q \in Request : pc[q] = "logAssign" /\ target[q] = target[r] => q = r

\* The bound on the handlers in flight holds.
Flight == IsFiniteSet(InFlight) /\ Cardinality(InFlight) <= MaxInFlight

AssignmentBooks ==
  /\ EntriesTrue /\ (\A r \in Request : LogsOnce(r))
  /\ Cardinality(Unlogged) <= crashes * MaxInFlight

\* The inductive invariant of AssignmentsLogged.
AInv == LInv /\ Agree("assignee") /\ Flight /\ AssignmentBooks

LEMMA AssignmentKeys ==
  /\ \A t \in Ticket, u \in User : Assignment(t, u) \in AuditKey
  /\ \A t \in Ticket : \A k \in AssignmentEntries(t) :
       k[3] \in User /\ k = Assignment(t, k[3]) /\ audit[k] # 0
  /\ \A t, v \in Ticket, u, w \in User : Assignment(t, u) = Assignment(v, w) => t = v /\ u = w
<1>1. \A t \in Ticket, u \in User : Assignment(t, u) \in AuditKey
  BY DEF Assignment, AuditKey
<1>2. ASSUME NEW t \in Ticket, NEW k \in AssignmentEntries(t)
      PROVE  k[3] \in User /\ k = Assignment(t, k[3]) /\ audit[k] # 0
  <2>1. k \in AuditKey /\ k[1] = "AUTO_ASSIGN" /\ k[2] = t /\ audit[k] > 0
    BY <1>2 DEF AssignmentEntries
  <2>2. k \in {"AUTO_ASSIGN"} \X Ticket \X User
    BY <2>1 DEF AuditKey
  <2>3. QED
    BY <2>1, <2>2 DEF Assignment
<1>3. \A t, v \in Ticket, u, w \in User : Assignment(t, u) = Assignment(v, w) => t = v /\ u = w
  BY DEF Assignment
<1>4. QED
  BY <1>1, <1>2, <1>3

\* A ticket has an entry when the count of one of its keys is not 0.
LEMMA HasEntry ==
  ASSUME TypeOK, NEW t \in Ticket, NEW u \in User, audit[Assignment(t, u)] # 0
  PROVE  AssignmentEntries(t) # {}
<1>1. Assignment(t, u) \in AuditKey /\ audit[Assignment(t, u)] \in Nat
  BY AssignmentKeys DEF TypeOK
<1>2. Assignment(t, u) \in AssignmentEntries(t)
  BY <1>1 DEF AssignmentEntries, Assignment
<1>3. QED
  BY <1>2

LEMMA UnloggedFinite ==
  /\ IsFiniteSet(Unlogged) /\ Cardinality(Unlogged) \in Nat
<1>1. Unlogged \in SUBSET Ticket
  BY DEF Unlogged
<1>2. IsFiniteSet(Unlogged)
  BY <1>1, FS_Subset, FiniteAssumption
<1>3. QED
  BY <1>2, FS_CardinalityType

LEMMA UnloggedShrinks ==
  ASSUME TypeOK, Unlogged' \subseteq Unlogged, UNCHANGED crashes, AssignmentBooks
  PROVE  Cardinality(Unlogged)' <= crashes' * MaxInFlight
<1>1. Cardinality(Unlogged') <= Cardinality(Unlogged)
  BY UnloggedFinite, FS_Subset
<1>2. Cardinality(Unlogged') \in Nat
  <2>1. IsFiniteSet(Unlogged')
    BY UnloggedFinite, FS_Subset
  <2>2. QED
    BY <2>1, FS_CardinalityType
<1>3. crashes \in Nat /\ MaxInFlight \in Nat /\ crashes * MaxInFlight \in Nat
  BY BoundAssumption DEF TypeOK
<1>4. Cardinality(Unlogged) <= crashes * MaxInFlight
  BY DEF AssignmentBooks
<1>. DEFINE product == crashes * MaxInFlight
<1>. HIDE DEF product
<1>5. Cardinality(Unlogged') <= product
  BY <1>1, <1>2, <1>3, <1>4, UnloggedFinite DEF product
<1>6. QED
  BY <1>5 DEF product

\* The bound on the handlers in flight.
LEMMA FlightOfOne ==
  ASSUME Flight, NEW p \in Proc, Moves(p)
  PROVE  Flight'
<1>1. InFlight' \subseteq InFlight \cup {p}
  BY DEF InFlight, Moves, OnlyMoves, StaysRequest, StaysRun, Proc
<1>2. /\ IsFiniteSet(InFlight \cup {p})
      /\ Cardinality(InFlight \cup {p}) <= MaxInFlight
  <2>1. CASE p \in InFlight
    <3>1. InFlight \cup {p} = InFlight
      BY <2>1
    <3>2. QED
      BY <3>1 DEF Flight
  <2>2. CASE p \notin InFlight
    <3>1. CanStart
      BY <2>2 DEF Moves, InFlight
    <3>2. Cardinality(InFlight) \in Nat
      BY FS_CardinalityType DEF Flight
    <3>3. /\ IsFiniteSet(InFlight \cup {p})
          /\ Cardinality(InFlight \cup {p}) = Cardinality(InFlight) + 1
      BY <2>2, FS_AddElement DEF Flight
    <3>4. QED
      BY <3>1, <3>2, <3>3, BoundAssumption DEF CanStart
  <2>3. QED
    BY <2>1, <2>2
<1>3. /\ IsFiniteSet(InFlight')
      /\ Cardinality(InFlight') <= Cardinality(InFlight \cup {p})
  BY <1>1, <1>2, FS_Subset
<1>4. Cardinality(InFlight') \in Nat /\ Cardinality(InFlight \cup {p}) \in Nat
  BY <1>2, <1>3, FS_CardinalityType
<1>5. QED
  BY <1>2, <1>3, <1>4, BoundAssumption DEF Flight

LEMMA FlightStep ==
  ASSUME IInv, Flight, [Next]_vars
  PROVE  Flight'
<1>1. CASE \E r \in Request : RequestCall(r) \/ RequestStep(r)
  BY <1>1, RequestStepMoves, FlightOfOne DEF Proc
<1>2. CASE \E k \in Run : EscalateScan(k) \/ EscalationStep(k)
  BY <1>2, RunStepMoves, FlightOfOne DEF Proc
<1>3. CASE Crash
  <2>1. InFlight' = {}
    BY <1>3 DEF Crash, InFlight, Resting, Reply
  <2>2. QED
    BY <2>1, FS_EmptySet, BoundAssumption DEF Flight
<1>4. CASE Tick \/ UNCHANGED vars
  <2>1. InFlight' = InFlight
    BY <1>4 DEF Tick, vars, InFlight
  <2>2. QED
    BY <2>1 DEF Flight
<1>5. QED
  BY <1>1, <1>2, <1>3, <1>4 DEF Next

LEMMA InitFlight == Init => Flight
<1> SUFFICES ASSUME Init PROVE Flight
  OBVIOUS
<1>1. InFlight = {}
  BY DEF Init, InFlight, Resting
<1>2. QED
  BY <1>1, FS_EmptySet, BoundAssumption DEF Flight

\* The entries of one kind are as before.
SameEntries(kind) == \A k \in AuditKey : k[1] = kind => audit'[k] = audit[k]

LEMMA EntriesOfOneKind ==
  ASSUME IInv, [Next]_vars
  PROVE  /\ (\A r \in Request : ~CreateLog(r)) => SameEntries("AUTO_ASSIGN")
         /\ (\A k \in Run : ~EscalateLog(k)) => SameEntries("ESCALATE")
<1>1. ASSUME NEW key, audit' = [audit EXCEPT ![key] = @ + 1], NEW kind, key[1] # kind
      PROVE  SameEntries(kind)
  BY <1>1 DEF SameEntries, IInv, TypeOK
<1>2. ASSUME NEW k \in Run, EscalateLog(k) PROVE SameEntries("AUTO_ASSIGN")
  <2> DEFINE key == <<"ESCALATE", target[k], PreviousPriority(k)>>
  <2>1. audit' = [audit EXCEPT ![key] = @ + 1] /\ key[1] # "AUTO_ASSIGN"
    BY <1>2 DEF EscalateLog, Log
  <2>2. QED
    BY <1>1, <2>1
<1>3. ASSUME NEW r \in Request, CreateLog(r) PROVE SameEntries("ESCALATE")
  <2> DEFINE key == <<"AUTO_ASSIGN", target[r], loaded[r].assignee>>
  <2>1. audit' = [audit EXCEPT ![key] = @ + 1] /\ key[1] # "ESCALATE"
    BY <1>3 DEF CreateLog, Log
  <2>2. QED
    BY <1>1, <2>1
<1>4. ASSUME UNCHANGED audit PROVE \A kind : SameEntries(kind)
  BY <1>4 DEF SameEntries
<1>5. QED
  BY <1>2, <1>3, <1>4, AuditWrites

\* Handlers that neither insert a ticket nor log an assignment.
LEMMA OtherThanAssigning ==
  ASSUME IInv, NEW r \in Request, RequestCall(r) \/ RequestStep(r),
         ~CreateInsert(r), ~CreateLog(r)
  PROVE  pc[r] # "logAssign" /\ pc'[r] # "logAssign"
<1>1. TypeOK /\ r \in Proc
  BY DEF IInv, Proc
<1>2. pc[r] # "logAssign"
  BY DEF RequestCall, RequestStep, TicketCall, DependencyCall, TicketStep, DependencyStep,
     CreateAssign, UpdateLoad, RemoveLoad, RestoreLoad, AddDependency, RemoveDependency,
     GetDependencies, Call, UpdateGate, UpdateReload, UpdateWrite, RemoveWrite, RestoreWrite,
     RestoreReread, AddReadPair, AddLookup, AddInsert, RemoveDelete, ListDependencies
<1>3. CASE pc'[r] \in Other
  BY <1>2, <1>3 DEF Other
<1>4. CASE \E reply \in Reply : Answer(r, reply)
  BY <1>1, <1>3, <1>4, AnswerSent
<1>5. CASE \E phase \in {"insert", "gate", "reload", "write", "undelete"} : Goto(r, phase)
  BY <1>1, <1>2, <1>5 DEF Goto, TypeOK
<1>6. CreateAssign(r) \/ UpdateLoad(r) \/ UpdateGate(r) \/ UpdateReload(r) \/ RestoreLoad(r)
      => \/ \E reply \in Reply : Answer(r, reply)
         \/ \E phase \in {"insert", "gate", "reload", "write", "undelete"} : Goto(r, phase)
  BY DEF CreateAssign, UpdateLoad, UpdateGate, UpdateReload, RestoreLoad, Reply
<1>7. QED
  BY <1>2, <1>3, <1>4, <1>5, <1>6, OtherPhases DEF RequestCall, RequestStep, TicketCall, TicketStep

LEMMA QuietBooks ==
  ASSUME LInv, AssignmentBooks, Fixed("assignee"), SameEntries("AUTO_ASSIGN"),
         \A t \in Ticket : tickets'[t] = NoRow <=> tickets[t] = NoRow,
         \A r \in Request : /\ pc'[r] = "logAssign" <=> pc[r] = "logAssign"
                            /\ pc[r] = "logAssign" => target'[r] = target[r] /\ loaded'[r] = loaded[r]
  PROVE  EntriesTrue' /\ (\A r \in Request : LogsOnce(r)') /\ Unlogged' \subseteq Unlogged
<1>0. \A t \in Ticket, u \in User : audit'[Assignment(t, u)] = audit[Assignment(t, u)]
  BY AssignmentKeys DEF SameEntries, Assignment
<1>1. EntriesTrue'
  BY <1>0 DEF AssignmentBooks, EntriesTrue, Fixed, Assignment
<1>2. ASSUME NEW r \in Request PROVE LogsOnce(r)'
  BY <1>0 DEF AssignmentBooks, LogsOnce, Fixed, Assignment
<1>3. Unlogged' \subseteq Unlogged
  BY DEF Unlogged, AssignmentEntries, Fixed, SameEntries
<1>4. QED
  BY <1>1, <1>2, <1>3

LEMMA InsertBooks ==
  ASSUME OnlyAutoAssigns, AInv, NEW r \in Request, CreateInsert(r)
  PROVE  EntriesTrue' /\ (\A q \in Request : LogsOnce(q)') /\ Unlogged' \subseteq Unlogged
<1>1. /\ TypeOK /\ TypeOK' /\ EntriesTrue /\ \A q \in Request : LogsOnce(q)
      /\ UNCHANGED audit /\ Sent(r)
  BY RequestKeepsIInv DEF AInv, LInv, AllSent, IInv, AssignmentBooks, CreateInsert, RequestStep, TicketStep
<1>2. PICK t \in Ticket :
        /\ NextId(t) /\ tickets' = [tickets EXCEPT ![t] = loaded[r]]
        /\ IF LogsAssignment(r)
           THEN /\ Goto(r, "logAssign") /\ target' = [target EXCEPT ![r] = t]
                /\ UNCHANGED <<body, loaded, seen, link, unread, batch>>
           ELSE Answer(r, "200")
  BY DEF CreateInsert
<1>3. /\ tickets[t] = NoRow /\ tickets'[t] = loaded[r] /\ loaded[r] # NoRow
      /\ \A u \in Ticket \ {t} : tickets'[u] = tickets[u]
  BY <1>1, <1>2, InsertLocals DEF NextId, TypeOK, AInv, LInv
<1>4. \A u \in User : audit[Assignment(t, u)] = 0
  BY <1>1, <1>3 DEF EntriesTrue
<1>5. LogsAssignment(r) <=> loaded[r].assignee \in Developer
  <2>1. CreateInsert(r) /\ pc[r] = "insert" /\ NoUser \notin Developer
    BY IdAssumption, NullAssumption DEF CreateInsert
  <2>2. QED
    BY <1>1, <2>1 DEF Sent, LogsAssignment, OnlyAutoAssigns
<1>6. OnlyMoves(r) /\ pc[r] = "insert"
  BY RequestStepMoves DEF Moves, CreateInsert, RequestStep, TicketStep, AInv, LInv
<1>7. EntriesTrue'
  BY <1>1, <1>3, <1>4 DEF EntriesTrue, Assignment
<1>8. LogsAssignment(r) => pc'[r] = "logAssign" /\ target'[r] = t /\ loaded'[r] = loaded[r]
  BY <1>1, <1>2 DEF Goto, TypeOK, Proc
<1>9. ~LogsAssignment(r) => pc'[r] # "logAssign"
  BY <1>1, <1>2 DEF Answer, Goto, TypeOK, Proc
<1>10. ASSUME NEW q \in Request PROVE LogsOnce(q)'
  <2>1. CASE q = r
    <3>1. \A s \in Request \ {r} : pc'[s] = "logAssign" => target'[s] # t
      BY <1>1, <1>3, <1>6 DEF LogsOnce, OnlyMoves, StaysRequest
    <3>2. QED
      BY <1>1, <1>3, <1>4, <1>5, <1>8, <1>9, <2>1, <3>1 DEF LogsOnce, Assignment
  <2>2. CASE q # r
    <3>1. StaysRequest(q)
      BY <1>6, <2>2 DEF OnlyMoves
    <3>2. pc[q] = "logAssign" => target[q] \in Ticket \ {t}
      BY <1>1, <1>3 DEF LogsOnce
    <3>3. pc[q] = "logAssign" => \A s \in Request : pc'[s] = "logAssign" /\ target'[s] = target[q] => s = q
      BY <1>1, <1>6, <1>8, <1>9, <3>2 DEF LogsOnce, OnlyMoves, StaysRequest
    <3>4. pc[q] = "logAssign" =>
            /\ tickets[target[q]] # NoRow /\ tickets'[target[q]] = tickets[target[q]]
            /\ tickets[target[q]].assignee = loaded[q].assignee /\ loaded[q].assignee \in Developer
            /\ \A u \in User : audit[Assignment(target[q], u)] = 0
      BY <1>1, <1>3, <3>2 DEF LogsOnce
    <3>5. pc'[q] = pc[q] /\ target'[q] = target[q] /\ loaded'[q] = loaded[q] /\ audit' = audit
      BY <1>1, <3>1 DEF StaysRequest
    <3>6. QED
      BY <3>2, <3>3, <3>4, <3>5 DEF LogsOnce, Assignment
  <2>3. QED
    BY <2>1, <2>2
<1>11. Unlogged' \subseteq Unlogged
  <2> SUFFICES ASSUME NEW u \in Unlogged' PROVE u \in Unlogged
    OBVIOUS
  <2>1. u # t
    BY <1>3, <1>5, <1>8 DEF Unlogged
  <2>2. u \in Ticket /\ tickets'[u] = tickets[u] /\ AssignmentEntries(u)' = AssignmentEntries(u)
    BY <1>1, <1>3, <2>1 DEF Unlogged, AssignmentEntries
  <2>3. \A q \in Request : ~(pc[q] = "logAssign" /\ target[q] = u)
    BY <1>6, <2>2 DEF Unlogged, OnlyMoves, StaysRequest
  <2>4. QED
    BY <2>2, <2>3 DEF Unlogged
<1>12. QED
  BY <1>7, <1>10, <1>11

LEMMA LogBooks ==
  ASSUME AInv, NEW r \in Request, CreateLog(r)
  PROVE  EntriesTrue' /\ (\A q \in Request : LogsOnce(q)') /\ Unlogged' \subseteq Unlogged
<1> DEFINE t == target[r]
           d == loaded[r].assignee
<1>1. /\ TypeOK /\ TypeOK' /\ EntriesTrue /\ \A q \in Request : LogsOnce(q)
      /\ UNCHANGED tickets /\ pc[r] = "logAssign"
  BY RequestKeepsIInv DEF AInv, LInv, IInv, AssignmentBooks, CreateLog, RequestStep, TicketStep
<1>2. /\ t \in Ticket /\ d \in Developer /\ d \in User /\ tickets[t] # NoRow /\ tickets[t].assignee = d
      /\ audit[Assignment(t, d)] = 0
  BY <1>1, IdAssumption DEF LogsOnce
<1>3. /\ audit'[Assignment(t, d)] = 1
      /\ \A k \in AuditKey \ {Assignment(t, d)} : audit'[k] = audit[k]
  <2>1. Assignment(t, d) \in AuditKey /\ audit' = [audit EXCEPT ![Assignment(t, d)] = @ + 1]
    BY <1>2, AssignmentKeys DEF CreateLog, Log, Assignment
  <2>2. QED
    BY <1>1, <1>2, <2>1 DEF TypeOK
<1>4. OnlyMoves(r) /\ pc'[r] = "200"
  BY <1>1, RequestStepMoves DEF Moves, CreateLog, RequestStep, TicketStep, AInv, LInv, Answer,
     Goto, TypeOK, Proc
<1>5. \A v \in Ticket, u \in User : Assignment(v, u) # Assignment(t, d) =>
        audit'[Assignment(v, u)] = audit[Assignment(v, u)]
  BY <1>3, AssignmentKeys
<1>6. EntriesTrue'
  <2> SUFFICES ASSUME NEW v \in Ticket, NEW u \in User, audit'[Assignment(v, u)] # 0
               PROVE  /\ audit'[Assignment(v, u)] = 1 /\ tickets'[v] # NoRow
                      /\ u \in Developer /\ tickets'[v].assignee = u
    BY DEF EntriesTrue, Assignment
  <2>1. CASE Assignment(v, u) = Assignment(t, d)
    <3>1. v = t /\ u = d
      BY <1>2, <2>1, AssignmentKeys
    <3>2. QED
      BY <1>1, <1>2, <1>3, <3>1
  <2>2. CASE Assignment(v, u) # Assignment(t, d)
    BY <1>1, <1>5, <2>2 DEF EntriesTrue
  <2>3. QED
    BY <2>1, <2>2
<1>7. ASSUME NEW q \in Request PROVE LogsOnce(q)'
  <2>1. CASE q = r
    BY <1>4, <2>1 DEF LogsOnce
  <2>2. CASE q # r
    <3>1. StaysRequest(q)
      BY <1>4, <2>2 DEF OnlyMoves
    <3>2. pc[q] = "logAssign" => target[q] \in Ticket /\ target[q] # t
      BY <1>1, <2>2 DEF LogsOnce
    <3>3. pc[q] = "logAssign" => \A u \in User : audit'[Assignment(target[q], u)] = 0
      <4>1. ASSUME pc[q] = "logAssign", NEW u \in User
            PROVE  audit'[Assignment(target[q], u)] = 0
        <5>1. Assignment(target[q], u) # Assignment(t, d)
          BY <1>2, <3>2, <4>1, AssignmentKeys
        <5>2. QED
          BY <1>1, <1>5, <3>2, <4>1, <5>1 DEF LogsOnce
      <4>2. QED
        BY <4>1
    <3>4. pc[q] = "logAssign" => \A s \in Request : pc'[s] = "logAssign" /\ target'[s] = target[q] => s = q
      BY <1>1, <1>4 DEF LogsOnce, OnlyMoves, StaysRequest
    <3>5. QED
      BY <1>1, <3>1, <3>2, <3>3, <3>4 DEF LogsOnce, StaysRequest, Assignment
  <2>3. QED
    BY <2>1, <2>2
<1>8. Unlogged' \subseteq Unlogged
  <2> SUFFICES ASSUME NEW v \in Unlogged' PROVE v \in Unlogged
    OBVIOUS
  <2>1. v \in Ticket /\ AssignmentEntries(v)' = {}
    BY DEF Unlogged
  <2>2. v # t
    <3>1. AssignmentEntries(v)' = {k \in AuditKey : k[1] = "AUTO_ASSIGN" /\ k[2] = v /\ audit'[k] > 0}
      BY DEF AssignmentEntries
    <3>2. Assignment(t, d) \in AuditKey /\ Assignment(t, d)[1] = "AUTO_ASSIGN"
          /\ Assignment(t, d)[2] = t /\ audit'[Assignment(t, d)] > 0
      BY <1>2, <1>3, AssignmentKeys DEF Assignment
    <3>3. QED
      BY <2>1, <3>1, <3>2
  <2>3. AssignmentEntries(v) = {}
    <3> SUFFICES ASSUME NEW k \in AssignmentEntries(v) PROVE FALSE
      OBVIOUS
    <3>1. k \in AuditKey /\ k[1] = "AUTO_ASSIGN" /\ k[2] = v /\ audit[k] > 0
      BY DEF AssignmentEntries
    <3>2. k # Assignment(t, d)
      BY <2>2, <3>1 DEF Assignment
    <3>3. audit'[k] > 0
      BY <1>3, <3>1, <3>2
    <3>4. QED
      BY <2>1, <3>1, <3>3 DEF AssignmentEntries
  <2>4. \A q \in Request : ~(pc[q] = "logAssign" /\ target[q] = v)
    BY <1>4, <2>2 DEF Unlogged, OnlyMoves, StaysRequest
  <2>5. QED
    BY <1>1, <2>1, <2>3, <2>4 DEF Unlogged
<1>9. QED
  BY <1>6, <1>7, <1>8

\* A crash loses at most the entries of the handlers in flight.
LEMMA CrashBooks ==
  ASSUME AInv, Crash
  PROVE  AssignmentBooks'
<1> DEFINE Logging == {r \in Request : pc[r] = "logAssign"}
           Targets == {target[r] : r \in Logging}
<1>1. /\ IInv /\ TypeOK /\ TypeOK' /\ AssignmentBooks /\ Flight /\ UNCHANGED <<tickets, audit>>
      /\ crashes' = crashes + 1 /\ crashes \in Nat /\ MaxInFlight \in Nat
  BY CrashSound, BoundAssumption DEF AInv, LInv, IInv, TypeOK, Crash, tables
<1>2. EntriesTrue'
  BY <1>1 DEF AssignmentBooks, EntriesTrue, Assignment
<1>3. \A r \in Request : LogsOnce(r)'
  BY <1>1, CrashEnds DEF LogsOnce, Other
<1>4. Unlogged' \subseteq Unlogged \cup Targets
  BY <1>1 DEF Unlogged, AssignmentEntries
<1>5. IsFiniteSet(Targets) /\ Cardinality(Targets) <= MaxInFlight /\ Cardinality(Targets) \in Nat
  <2>1. Logging \in SUBSET InFlight
    BY DEF InFlight, Resting, Reply, Proc
  <2>2. IsFiniteSet(Logging) /\ Cardinality(Logging) <= Cardinality(InFlight)
    BY <1>1, <2>1, FS_Subset DEF Flight
  <2> DEFINE f == [r \in Logging |-> target[r]]
  <2>3. f \in Surjection(Logging, Targets)
    BY DEF Surjection
  <2>4. IsFiniteSet(Targets) /\ Cardinality(Targets) <= Cardinality(Logging)
    BY <2>2, <2>3, FS_Surjection
  <2>5. Cardinality(Targets) \in Nat /\ Cardinality(Logging) \in Nat /\ Cardinality(InFlight) \in Nat
    BY <1>1, <2>2, <2>4, FS_CardinalityType DEF Flight
  <2>. HIDE DEF Targets, Logging
  <2>6. QED
    BY <1>1, <2>2, <2>4, <2>5 DEF Flight
<1>6. /\ IsFiniteSet(Unlogged \cup Targets)
      /\ Cardinality(Unlogged \cup Targets) <= Cardinality(Unlogged) + Cardinality(Targets)
  <2>. HIDE DEF Targets
  <2>1. /\ IsFiniteSet(Unlogged \cup Targets)
        /\ Cardinality(Unlogged \cup Targets) =
             Cardinality(Unlogged) + Cardinality(Targets) - Cardinality(Unlogged \cap Targets)
    BY <1>5, UnloggedFinite, FS_Union
  <2>2. Cardinality(Unlogged \cap Targets) \in Nat
    BY UnloggedFinite, FS_Intersection, FS_CardinalityType
  <2>3. QED
    BY <1>5, <2>1, <2>2, UnloggedFinite
<1>7. /\ Cardinality(Unlogged') <= Cardinality(Unlogged \cup Targets)
      /\ Cardinality(Unlogged') \in Nat /\ Cardinality(Unlogged \cup Targets) \in Nat
  BY <1>4, <1>6, FS_Subset, FS_CardinalityType
<1>8. Cardinality(Unlogged') <= crashes' * MaxInFlight
  <2>. HIDE DEF Targets
  <2>1. crashes' * MaxInFlight = crashes * MaxInFlight + MaxInFlight /\ crashes * MaxInFlight \in Nat
    BY <1>1
  <2>2. Cardinality(Unlogged) <= crashes * MaxInFlight
    BY <1>1 DEF AssignmentBooks
  <2> DEFINE product == crashes * MaxInFlight
  <2>. HIDE DEF product
  <2>3. Cardinality(Unlogged') <= product + MaxInFlight
    BY <1>1, <1>5, <1>6, <1>7, <2>1, <2>2, UnloggedFinite DEF product
  <2>4. QED
    BY <2>1, <2>3 DEF product
<1>9. QED
  BY <1>2, <1>3, <1>8 DEF AssignmentBooks

\* Steps that are not an INSERT of a ticket add no row.
LEMMA NoNewRow ==
  ASSUME IInv, [Next]_vars, \A r \in Request : ~CreateInsert(r)
  PROVE  \A t \in Ticket : tickets'[t] = NoRow <=> tickets[t] = NoRow
<1>1. CASE UNCHANGED tickets
  BY <1>1
<1>2. CASE \E t \in Ticket : tickets[t] # NoRow /\ \E row : tickets' = [tickets EXCEPT ![t] = row]
  BY <1>2, RowsPersist DEF IInv, TypeOK
<1>3. QED
  BY <1>1, <1>2, TicketWrites, UpdateWriteLocals, MarkWriteLocals, EscalateWriteLocals
  DEF RowWrite

LEMMA AssignmentBooksStep ==
  ASSUME OnlyAutoAssigns, AInv, [Next]_vars
  PROVE  AssignmentBooks'
<1>1. LInv /\ IInv /\ TypeOK /\ AssignmentBooks /\ Fixed("assignee")
  BY FixedStep DEF AInv, LInv, IInv, OnlyAutoAssigns, Plain
<1>2. CASE Crash
  BY <1>2, CrashBooks
<1>3. CASE \E r \in Request : CreateInsert(r) \/ CreateLog(r)
  <2>1. UNCHANGED crashes
    BY <1>3 DEF CreateInsert, CreateLog, env
  <2>2. QED
    BY <1>1, <1>3, <2>1, InsertBooks, LogBooks, UnloggedShrinks DEF AssignmentBooks
<1>4. CASE ~Crash /\ \A r \in Request : ~CreateInsert(r) /\ ~CreateLog(r)
  <2>1. SameEntries("AUTO_ASSIGN") /\ \A t \in Ticket : tickets'[t] = NoRow <=> tickets[t] = NoRow
    BY <1>1, <1>4, NoNewRow, EntriesOfOneKind
  <2>2. UNCHANGED crashes
    BY <1>1, <1>4, RequestStepMoves, RunStepMoves DEF Next, Moves, Tick, vars, env
  <2>3. ASSUME NEW r \in Request
        PROVE  /\ pc'[r] = "logAssign" <=> pc[r] = "logAssign"
               /\ pc[r] = "logAssign" => target'[r] = target[r] /\ loaded'[r] = loaded[r]
    <3>1. CASE StaysRequest(r)
      BY <3>1 DEF StaysRequest
    <3>2. CASE RequestCall(r) \/ RequestStep(r)
      BY <1>1, <1>4, <3>2, OtherThanAssigning
    <3>3. CASE \E p \in Proc \ {r} : OnlyMoves(p)
      BY <3>1, <3>3 DEF OnlyMoves
    <3>4. CASE Tick \/ UNCHANGED vars
      BY <3>1, <3>4 DEF Tick, vars, locals, StaysRequest
    <3>5. QED
      BY <1>1, <1>4, <3>2, <3>3, <3>4, RequestStepMoves, RunStepMoves, ProcAssumption
      DEF Next, Moves, Proc
  <2>4. Unlogged' \subseteq Unlogged /\ EntriesTrue' /\ \A r \in Request : LogsOnce(r)'
    BY <1>1, <2>1, <2>3, QuietBooks
  <2>5. QED
    BY <1>1, <2>2, <2>4, UnloggedShrinks DEF AssignmentBooks
<1>5. QED
  BY <1>2, <1>3, <1>4

LEMMA InitBooks == OnlyAutoAssigns /\ Init => AssignmentBooks
<1> SUFFICES ASSUME OnlyAutoAssigns, Init PROVE AssignmentBooks
  OBVIOUS
<1>1. /\ \A t \in Ticket, u \in User : audit[Assignment(t, u)] = 0
      /\ \A r \in Request : pc[r] = "ready"
  BY AssignmentKeys DEF Init, Proc
<1>2. Unlogged = {}
  BY DEF Unlogged, OnlyAutoAssigns, Init
<1>3. Cardinality(Unlogged) <= crashes * MaxInFlight
  BY <1>2, FS_EmptySet, BoundAssumption DEF Init
<1>4. QED
  BY <1>1, <1>3 DEF AssignmentBooks, EntriesTrue, LogsOnce

LEMMA BooksShow ==
  ASSUME TypeOK, AssignmentBooks
  PROVE  AssignmentsLogged
<1>1. ASSUME NEW t \in Ticket, NEW k \in AssignmentEntries(t)
      PROVE  audit[k] = 1 /\ k[3] \in Developer /\ k[3] = tickets[t].assignee
  BY <1>1, AssignmentKeys DEF AssignmentBooks, EntriesTrue
<1>2. QED
  BY <1>1 DEF AssignmentBooks, AssignmentsLogged

LEMMA AStep ==
  ASSUME OnlyAutoAssigns
  PROVE  AInv /\ [Next]_vars => AInv'
<1> SUFFICES ASSUME AInv, [Next]_vars PROVE AInv'
  OBVIOUS
<1>1. LInv /\ IInv /\ AllSent /\ Agree("assignee") /\ Flight /\ Keeps("assignee")
  BY DEF AInv, LInv, OnlyAutoAssigns
<1>2. Agree("assignee")'
  BY <1>1, AgreeStep DEF Plain
<1>3. QED
  BY <1>1, <1>2, LStep, FlightStep, AssignmentBooksStep DEF AInv

\* Where developers are only ever assigned by autoAssign, the log says so: every
\* such ticket has its one entry, naming the developer, except for those whose
\* handler has yet to write it and those that were in flight in a crash.
THEOREM AssignmentsAreLogged ==
  ASSUME OnlyAutoAssigns
  PROVE  Spec => []AssignmentsLogged
<1>1. Init => AInv
  BY InitSound, InitSent, InitAgree, InitFlight, InitBooks DEF AInv, LInv
<1>2. AInv /\ [Next]_vars => AInv'
  BY AStep
<1>3. AInv => AssignmentsLogged
  BY BooksShow DEF AInv, LInv, IInv
<1>4. QED
  BY <1>1, <1>2, <1>3, PTL DEF Spec

-------------------------------------------------------------------------------
(* Escalations.                                                            *)

Escalation(t, p) == <<"ESCALATE", t, p>>

\* What a run holds of a priority is what the table has.
PriorityCurrent(k) ==
  /\ Remaining(k) # {} => pc[k] \notin Resting
  /\ \A t \in Remaining(k) : batch[k][t].priority = tickets[t].priority
  /\ pc[k] \in {"write", "logEscalation"} => target[k] \notin Remaining(k)
  /\ pc[k] = "write" => /\ loaded[k].priority = tickets[target[k]].priority
                        /\ seen[k].priority = tickets[target[k]].priority
  /\ pc[k] = "logEscalation" =>
       /\ tickets[target[k]].priority = loaded[k].priority + 1
       /\ audit[Escalation(target[k], loaded[k].priority)] = 0

\* Escalations of a ticket that no entry tells of, nor ever will.
Lost(t) == tickets[t].priority - Cardinality(Logged(t)) - Cardinality(Pending(t))

\* Each level below the priority of a ticket has been logged once at most.
LevelsLogged(t) ==
  \A p \in Priority : audit[Escalation(t, p)] # 0 =>
    audit[Escalation(t, p)] = 1 /\ tickets[t] # NoRow /\ p < tickets[t].priority

EscalationBooks ==
  \A t \in Ticket : /\ LevelsLogged(t)
                    /\ tickets[t] # NoRow => 0 <= Lost(t) /\ Lost(t) <= crashes

\* The inductive invariant of EscalationsLogged.
EInv == /\ LInv /\ (MaxInFlight = 1 => SerialInv)
        /\ \A k \in Run : PriorityCurrent(k)
        /\ EscalationBooks

\* At most one run of the job is on its way.
OneRun == \A k, l \in Run : pc[k] \notin Resting /\ pc[l] \notin Resting => k = l

LEMMA RunsAlone ==
  ASSUME OnlyJobEscalates, EInv
  PROVE  OneRun
BY DEF OnlyJobEscalates, EInv, OneRun, SerialInv, Alone, Proc

LEMMA EscalationKeys ==
  /\ \A t \in Ticket, p \in Priority : Escalation(t, p) \in AuditKey
  /\ \A t \in Ticket : \A k \in Logged(t) :
       k[3] \in Priority /\ k = Escalation(t, k[3]) /\ audit[k] # 0
  /\ \A t, v \in Ticket, p, q \in Priority : Escalation(t, p) = Escalation(v, q) => t = v /\ p = q
<1>1. \A t \in Ticket, p \in Priority : Escalation(t, p) \in AuditKey
  BY DEF Escalation, AuditKey
<1>2. ASSUME NEW t \in Ticket, NEW k \in Logged(t)
      PROVE  k[3] \in Priority /\ k = Escalation(t, k[3]) /\ audit[k] # 0
  <2>1. k \in AuditKey /\ k[1] = "ESCALATE" /\ k[2] = t /\ audit[k] > 0
    BY <1>2 DEF Logged
  <2>2. k \in {"ESCALATE"} \X Ticket \X Priority
    BY <2>1 DEF AuditKey
  <2>3. QED
    BY <2>1, <2>2 DEF Escalation
<1>3. \A t, v \in Ticket, p, q \in Priority : Escalation(t, p) = Escalation(v, q) => t = v /\ p = q
  BY DEF Escalation
<1>4. QED
  BY <1>1, <1>2, <1>3

LEMMA RowPriority ==
  /\ \A p \in Priority : p \in Int
  /\ \A row \in Row : row.priority \in Priority /\ row.priority \in Int
<1>1. \A p \in Priority : p \in Int
  BY DEF Priority, LOW, CRITICAL
<1>2. \A row \in Row : row.priority \in Priority
  BY DEF Row
<1>3. QED
  BY <1>1, <1>2

LEMMA LoggedFinite ==
  ASSUME NEW t \in Ticket
  PROVE  IsFiniteSet(Logged(t)) /\ Cardinality(Logged(t)) \in Nat
<1> DEFINE Keys == {Escalation(t, p) : p \in Priority}
           f == [p \in Priority |-> Escalation(t, p)]
<1>1. IsFiniteSet(Priority)
  <2>1. LOW \in Int /\ CRITICAL \in Int
    BY DEF LOW, CRITICAL
  <2>2. IsFiniteSet(LOW..CRITICAL)
    BY <2>1, FS_Interval
  <2>3. QED
    BY <2>2 DEF Priority
<1>2. f \in Surjection(Priority, Keys)
  BY DEF Surjection
<1>3. IsFiniteSet(Keys)
  BY <1>1, <1>2, FS_Surjection
<1>4. Logged(t) \in SUBSET Keys
  BY EscalationKeys
<1>5. QED
  BY <1>3, <1>4, FS_Subset, FS_CardinalityType

LEMMA PendingOne ==
  ASSUME OneRun, NEW t
  PROVE  /\ Pending(t) = {} \/ \E k \in Run : Pending(t) = {k}
         /\ Cardinality(Pending(t)) \in {0, 1}
<1>1. Pending(t) = {} \/ \E k \in Run : Pending(t) = {k}
  BY DEF OneRun, Pending, Resting, Reply
<1>2. QED
  BY <1>1, FS_EmptySet, FS_Singleton

\* A ticket that is not there has no entry, nor is one on its way.
LEMMA NoRowNoEntry ==
  ASSUME EInv, NEW t \in Ticket, tickets[t] = NoRow
  PROVE  Logged(t) = {} /\ Pending(t) = {}
<1>1. Logged(t) = {}
  BY EscalationKeys DEF EInv, EscalationBooks, LevelsLogged
<1>2. Pending(t) = {}
  BY DEF EInv, LInv, IInv, HandlersSound, RunSound, Pending
<1>3. QED
  BY <1>1, <1>2

\* No step but an UPDATE of the job changes the priority of a row that is there.
LEMMA OthersKeepPriority ==
  ASSUME OnlyJobEscalates, EInv, [Next]_vars, \A k \in Run : ~EscalateWrite(k)
  PROVE  Fixed("priority")
<1>1. LInv /\ IInv /\ AllSent /\ TypeOK
  BY DEF EInv, LInv, IInv
<1>2. CASE UNCHANGED tickets
  BY <1>2 DEF Fixed
<1>3. ASSUME NEW r \in Request, CreateInsert(r) PROVE Fixed("priority")
  <2>1. PICK t \in Ticket : tickets[t] = NoRow /\ tickets' = [tickets EXCEPT ![t] = loaded[r]]
    BY <1>1, <1>3, InsertLocals DEF NextId
  <2>2. QED
    BY <1>1, <2>1 DEF Fixed, TypeOK
<1>4. ASSUME NEW r \in Request, UpdateWrite(r) PROVE Fixed("priority")
  <2> DEFINE t == target[r]
             e == Assigned(loaded[r], body[r])
  <2>1. "update" \in Operation /\ body[r] \in UpdateDtos /\ pc[r] = "write"
    BY <1>1, <1>4 DEF UpdateWrite, AllSent, Sent
  <2>2. body[r].priority = Absent /\ MaxInFlight = 1
    BY <2>1 DEF OnlyJobEscalates, Keeps
  <2>3. seen[r] = loaded[r]
    BY <2>1, <2>2 DEF EInv, SerialInv, Current, RequestCurrent, RowCurrent
  <2>4. Merge(e, seen[r], tickets[t])["priority"] = tickets[t]["priority"]
    BY <1>1, <1>4, <2>2, <2>3, UpdateWriteLocals, AssignedKeeps, MergeKeeps
  <2>5. QED
    BY <1>1, <1>4, <2>4, UpdateWriteLocals DEF Fixed, TypeOK
<1>5. ASSUME NEW r \in Request, RemoveWrite(r) \/ RestoreWrite(r) PROVE Fixed("priority")
  <2> DEFINE t == target[r]
  <2>1. PICK flag \in BOOLEAN : tickets' = [tickets EXCEPT ![t] = Marked(tickets[t], flag)]
    BY <1>1, <1>5, MarkWriteLocals
  <2>2. Marked(tickets[t], flag)["priority"] = tickets[t]["priority"]
    BY <1>1, <1>5, MarkWriteLocals, MarkedKeeps
  <2>3. QED
    BY <1>1, <1>5, <2>1, <2>2, MarkWriteLocals DEF Fixed, TypeOK
<1>6. QED
  BY <1>1, <1>2, <1>3, <1>4, <1>5, TicketWrites DEF RowWrite

\* The UPDATE of the job raises the priority of its ticket, and of no other, by one.
LEMMA JobRaisesPriority ==
  ASSUME EInv, NEW k \in Run, EscalateWrite(k)
  PROVE  /\ target[k] \in Ticket /\ tickets[target[k]] # NoRow
         /\ loaded[k].priority \in Priority /\ loaded[k].priority = tickets[target[k]].priority
         /\ tickets'[target[k]].priority = tickets[target[k]].priority + 1
         /\ tickets'[target[k]] # NoRow
         /\ \A u \in Ticket \ {target[k]} : tickets'[u] = tickets[u]
<1> DEFINE t == target[k]
<1>1. IInv /\ TypeOK /\ TypeOK' /\ PriorityCurrent(k) /\ pc[k] = "write"
  BY RunKeepsIInv DEF EInv, LInv, IInv, EscalateWrite, EscalationStep
<1>2. /\ t \in Ticket /\ tickets[t] \in Row /\ tickets[t] # NoRow
      /\ loaded[k] \in Row /\ seen[k] \in Row
      /\ tickets' = [tickets EXCEPT ![t] = Merge(Escalated(loaded[k]), seen[k], tickets[t])]
  BY <1>1, EscalateWriteLocals
<1>3. loaded[k].priority = tickets[t].priority /\ seen[k].priority = tickets[t].priority
  BY <1>1 DEF PriorityCurrent
<1>4. Escalated(loaded[k]).priority = loaded[k].priority + 1
  BY <1>2 DEF Escalated, Row
<1>5. loaded[k].priority \in Priority /\ loaded[k].priority + 1 # loaded[k].priority
  BY <1>2 DEF Row, Priority, LOW, CRITICAL
<1>6. Merge(Escalated(loaded[k]), seen[k], tickets[t]).priority = tickets[t].priority + 1
  BY <1>3, <1>4, <1>5 DEF Merge, Column
<1>7. /\ tickets'[t] = Merge(Escalated(loaded[k]), seen[k], tickets[t])
      /\ \A u \in Ticket \ {t} : tickets'[u] = tickets[u]
  BY <1>1, <1>2 DEF TypeOK
<1>8. tickets'[t] # NoRow
  BY <1>1, <1>2, RunStepIsSound DEF RunStepSound, Grow, EscalationStep
<1>9. QED
  BY <1>2, <1>3, <1>5, <1>6, <1>7, <1>8

\* No step lowers a priority.
LEMMA PriorityGrows ==
  ASSUME OnlyJobEscalates, EInv, [Next]_vars
  PROVE  \A t \in Ticket : tickets[t] # NoRow =>
           /\ tickets'[t] # NoRow /\ tickets[t].priority \in Int
           /\ tickets'[t].priority \in Int /\ tickets[t].priority <= tickets'[t].priority
<1>1. IInv /\ TypeOK /\ TypeOK'
  BY StepSound DEF EInv, LInv, IInv
<1>2. \A t \in Ticket : tickets[t] # NoRow => tickets'[t] # NoRow
  BY <1>1, NoNewRow, InsertLocals DEF NextId, TypeOK
<1>3. \A t \in Ticket : /\ tickets[t] # NoRow => tickets[t].priority \in Int
                        /\ tickets'[t] # NoRow => tickets'[t].priority \in Int
  BY <1>1, RowPriority DEF TypeOK
<1>4. CASE \E k \in Run : EscalateWrite(k)
  BY <1>2, <1>3, <1>4, JobRaisesPriority
<1>5. CASE \A k \in Run : ~EscalateWrite(k)
  BY <1>2, <1>3, <1>5, OthersKeepPriority DEF Fixed
<1>6. QED
  BY <1>4, <1>5

LEMMA RestingRunCurrent ==
  ASSUME NEW k \in Run, pc'[k] \in Resting, Remaining(k)' = {}
  PROVE  PriorityCurrent(k)'
BY DEF PriorityCurrent, Resting, Reply

\* A run that does not move, while no other writes or logs.
LEMMA QuietRunCurrent ==
  ASSUME IInv, NEW k \in Run, PriorityCurrent(k), StaysRun(k), Fixed("priority"),
         SameEntries("ESCALATE")
  PROVE  PriorityCurrent(k)'
<1>1. TypeOK /\ RunSound(k)
  BY DEF IInv, HandlersSound
<1>2. /\ pc[k] \in {"write", "logEscalation"} => target[k] \in Ticket /\ tickets[target[k]] # NoRow
      /\ \A t \in Remaining(k) : t \in Ticket /\ tickets[t] # NoRow
  BY <1>1 DEF RunSound, Remaining
<1>3. Remaining(k)' = Remaining(k)
  BY DEF StaysRun, Remaining
<1>4. ASSUME pc[k] = "logEscalation"
      PROVE  audit'[Escalation(target[k], loaded[k].priority)] =
             audit[Escalation(target[k], loaded[k].priority)]
  <2>1. loaded[k] \in Row /\ loaded[k].priority \in Priority
    BY <1>1, <1>4 DEF RunSound, IsLate, IsLive, TypeOK, Row, Proc
  <2>2. QED
    BY <1>2, <1>4, <2>1, EscalationKeys DEF SameEntries, Escalation
<1>5. QED
  BY <1>2, <1>3, <1>4 DEF PriorityCurrent, StaysRun, Fixed, Escalation

LEMMA MovedRunCurrent ==
  ASSUME EInv, NEW k \in Run, EscalateScan(k) \/ EscalationStep(k)
  PROVE  PriorityCurrent(k)'
<1>1. IInv /\ TypeOK /\ k \in Proc /\ PriorityCurrent(k) /\ EscalationBooks
  BY DEF EInv, LInv, IInv, Proc
<1>2. CASE EscalateScan(k)
  <2>1. CASE UNCHANGED <<pc, batch>>
    <3>1. Remaining(k)' = Remaining(k) /\ pc'[k] = "idle" /\ Remaining(k) = {}
      BY <1>1, <1>2, <2>1 DEF EscalateScan, PriorityCurrent, Remaining, Resting
    <3>2. QED
      BY <3>1, RestingRunCurrent DEF Resting
  <2>2. CASE ~UNCHANGED <<pc, batch>>
    <3>1. /\ pc'[k] = "next" /\ UNCHANGED tickets
          /\ batch'[k] = [t \in Ticket |-> IF Late(t) THEN tickets[t] ELSE NoRow]
      BY <1>1, <1>2, <2>2 DEF EscalateScan, tables, Goto, TypeOK
    <3>2. \A t \in Remaining(k)' : batch'[k][t] = tickets'[t]
      BY <3>1 DEF Remaining
    <3>3. QED
      BY <3>1, <3>2 DEF PriorityCurrent, Resting, Reply
  <2>3. QED
    BY <2>1, <2>2
<1>3. CASE EscalateReload(k)
  <2>1. PICK t \in Remaining(k) :
          /\ target' = [target EXCEPT ![k] = t]
          /\ loaded' = [loaded EXCEPT ![k] = batch[k][t]]
          /\ batch'  = [batch EXCEPT ![k] = [@ EXCEPT ![t] = NoRow]]
          /\ seen' = [seen EXCEPT ![k] = tickets[t]]
          /\ pc' = [pc EXCEPT ![k] = "write"] /\ UNCHANGED tickets
    BY <1>3 DEF EscalateReload, SaveReload, Goto, tables
  <2>2. /\ target'[k] = t /\ loaded'[k] = batch[k][t] /\ seen'[k] = tickets[t]
        /\ batch'[k] = [batch[k] EXCEPT ![t] = NoRow] /\ tickets' = tickets
        /\ pc'[k] = "write" /\ t \in Ticket
    BY <1>1, <2>1 DEF TypeOK, Remaining
  <2>3. /\ \A u \in Remaining(k)' : u \in Remaining(k) /\ batch'[k][u] = batch[k][u]
        /\ t \notin Remaining(k)'
    BY <1>1, <2>2 DEF Remaining, TypeOK
  <2>4. QED
    BY <1>1, <2>2, <2>3 DEF PriorityCurrent, Resting, Reply
<1>4. CASE EscalateWrite(k)
  <2>1. /\ pc[k] = "write" /\ pc'[k] = "logEscalation" /\ UNCHANGED <<batch, target, loaded, audit>>
    BY <1>1, <1>4 DEF EscalateWrite, Goto, TypeOK, locals
  <2>2. Remaining(k)' = Remaining(k) /\ target[k] \notin Remaining(k) /\ Remaining(k) \subseteq Ticket
    BY <1>1, <2>1 DEF Remaining, PriorityCurrent
  <2>3. audit[Escalation(target[k], loaded[k].priority)] = 0
    <3>1. /\ target[k] \in Ticket /\ loaded[k].priority \in Priority
          /\ loaded[k].priority = tickets[target[k]].priority
      BY <1>4, JobRaisesPriority
    <3>2. ~(loaded[k].priority < loaded[k].priority)
      BY <3>1 DEF Priority, LOW, CRITICAL
    <3>3. QED
      BY <1>1, <3>1, <3>2 DEF EscalationBooks, LevelsLogged
  <2>4. /\ tickets'[target[k]].priority = loaded[k].priority + 1
        /\ \A u \in Remaining(k) : tickets'[u] = tickets[u]
    BY <1>4, <2>2, JobRaisesPriority
  <2>5. QED
    BY <1>1, <2>1, <2>2, <2>3, <2>4 DEF PriorityCurrent, Resting, Reply, Escalation
<1>5. CASE EscalateLog(k)
  <2>1. /\ pc'[k] = IF Remaining(k) = {} THEN "idle" ELSE "next"
        /\ UNCHANGED <<batch, tickets>>
    BY <1>1, <1>5 DEF EscalateLog, Goto, TypeOK
  <2>2. Remaining(k)' = Remaining(k)
    BY <2>1 DEF Remaining
  <2>3. QED
    BY <1>1, <2>1, <2>2 DEF PriorityCurrent, Resting, Reply
<1>6. QED
  BY <1>2, <1>3, <1>4, <1>5 DEF EscalationStep

LEMMA PriorityCurrentStep ==
  ASSUME OnlyJobEscalates, EInv, [Next]_vars
  PROVE  \A k \in Run : PriorityCurrent(k)'
<1>1. IInv /\ OneRun /\ \A k \in Run : PriorityCurrent(k)
  BY RunsAlone DEF EInv, LInv
<1>2. CASE \E l \in Run : EscalateWrite(l) \/ EscalateLog(l)
  <2>1. PICK l \in Run : EscalateWrite(l) \/ EscalateLog(l)
    BY <1>2
  <2>2. pc[l] \notin Resting /\ OnlyMoves(l) /\ PriorityCurrent(l)'
    BY <1>1, <2>1, RunStepMoves, MovedRunCurrent
    DEF EscalationStep, Moves, EscalateWrite, EscalateLog, Resting, Reply
  <2>3. ASSUME NEW k \in Run \ {l} PROVE PriorityCurrent(k)'
    <3>1. StaysRun(k) /\ pc[k] \in Resting /\ Remaining(k) = {}
      BY <1>1, <2>2 DEF OnlyMoves, OneRun, PriorityCurrent
    <3>2. Remaining(k)' = Remaining(k)
      BY <3>1 DEF StaysRun, Remaining
    <3>3. QED
      BY <3>1, <3>2, RestingRunCurrent DEF StaysRun
  <2>4. QED
    BY <2>2, <2>3
<1>3. CASE Crash
  BY <1>1, <1>3, CrashEnds, RestingRunCurrent DEF Resting
<1>4. CASE ~Crash /\ \A l \in Run : ~EscalateWrite(l) /\ ~EscalateLog(l)
  <2>1. Fixed("priority") /\ SameEntries("ESCALATE")
    BY <1>1, <1>4, OthersKeepPriority, EntriesOfOneKind
  <2>2. ASSUME NEW k \in Run PROVE StaysRun(k) \/ EscalateScan(k) \/ EscalationStep(k)
    BY <1>1, <1>4, RequestStepMoves, RunStepMoves, ProcAssumption
    DEF Next, Moves, OnlyMoves, Tick, vars, locals, StaysRun
  <2>3. QED
    BY <1>1, <2>1, <2>2, QuietRunCurrent, MovedRunCurrent
<1>5. QED
  BY <1>2, <1>3, <1>4

\* The entries and priorities agree after a step that logs no escalation.
LEMMA LevelsStay ==
  ASSUME OnlyJobEscalates, EInv, [Next]_vars, SameEntries("ESCALATE"), NEW t \in Ticket
  PROVE  LevelsLogged(t)'
<1> SUFFICES ASSUME NEW p \in Priority, audit'[Escalation(t, p)] # 0
             PROVE  /\ audit'[Escalation(t, p)] = 1 /\ tickets'[t] # NoRow
                    /\ p < tickets'[t].priority
  BY DEF LevelsLogged, Escalation
<1>1. audit'[Escalation(t, p)] = audit[Escalation(t, p)]
  BY EscalationKeys DEF SameEntries, Escalation
<1>2. audit[Escalation(t, p)] = 1 /\ tickets[t] # NoRow /\ p < tickets[t].priority
  BY <1>1 DEF EInv, EscalationBooks, LevelsLogged
<1>3. p \in Int
  BY DEF Priority, LOW, CRITICAL
<1>4. QED
  BY <1>1, <1>2, <1>3, PriorityGrows

\* Nothing is lost by a step that neither writes nor logs an escalation.
LEMMA QuietLosesNothing ==
  ASSUME OnlyJobEscalates, EInv, [Next]_vars, ~Crash,
         \A k \in Run : ~EscalateWrite(k) /\ ~EscalateLog(k)
  PROVE  EscalationBooks'
<1>1. /\ IInv /\ TypeOK /\ Fixed("priority") /\ SameEntries("ESCALATE") /\ EscalationBooks
      /\ crashes \in Int /\ 0 <= crashes
  BY OthersKeepPriority, EntriesOfOneKind DEF EInv, LInv, IInv, TypeOK
<1>2. UNCHANGED crashes
  BY <1>1, RequestStepMoves, RunStepMoves DEF Next, Moves, Tick, vars, env
<1>3. ASSUME NEW t \in Ticket PROVE Logged(t)' = Logged(t)
  BY <1>1 DEF Logged, SameEntries
<1>4. ASSUME NEW k \in Run
      PROVE  /\ pc'[k] = "logEscalation" <=> pc[k] = "logEscalation"
             /\ pc[k] = "logEscalation" => target'[k] = target[k]
  <2>1. CASE StaysRun(k)
    BY <2>1 DEF StaysRun
  <2>2. CASE EscalateScan(k) \/ EscalateReload(k)
    BY <1>1, <2>2 DEF EscalateScan, EscalateReload, Goto, TypeOK, Proc
  <2>3. QED
    BY <1>1, <2>1, <2>2, RequestStepMoves, RunStepMoves, ProcAssumption
    DEF Next, EscalationStep, Moves, OnlyMoves, Tick, vars, locals, StaysRun
<1>5. ASSUME NEW t \in Ticket PROVE Pending(t)' = Pending(t)
  BY <1>4 DEF Pending
<1>6. ASSUME NEW t \in Ticket, tickets'[t] # NoRow PROVE 0 <= Lost(t)' /\ Lost(t)' <= crashes'
  <2>1. CASE tickets[t] # NoRow
    <3>1. Lost(t)' = Lost(t)
      BY <1>1, <1>3, <1>5, <2>1 DEF Lost, Fixed
    <3>2. QED
      BY <1>1, <1>2, <2>1, <3>1 DEF EscalationBooks
  <2>2. CASE tickets[t] = NoRow
    <3>1. PICK r \in Request : CreateInsert(r)
      BY <1>1, <1>6, <2>2, NoNewRow
    <3>2. tickets'[t] = loaded[r] /\ loaded[r] \in Row /\ pc[r] = "insert"
      BY <1>1, <1>6, <2>2, <3>1, InsertLocals DEF TypeOK
    <3>3. tickets'[t].priority = LOW
      <4>1. body[r] \in CreateDtos /\ \E a : loaded[r] = NewRow(body[r], a)
        BY <3>2 DEF EInv, LInv, AllSent, Sent
      <4>2. loaded[r].priority = Given(body[r].priority, LOW)
        BY <4>1 DEF NewRow
      <4>3. QED
        BY <3>2, <4>1, <4>2 DEF Given, OnlyJobEscalates
    <3>4. Cardinality(Logged(t)') = 0 /\ Cardinality(Pending(t)') = 0
      BY <1>3, <1>5, <2>2, NoRowNoEntry, FS_EmptySet
    <3>5. QED
      BY <1>1, <1>2, <3>3, <3>4 DEF Lost, LOW
  <2>3. QED
    BY <2>1, <2>2
<1>7. QED
  BY <1>1, <1>6, LevelsStay DEF EscalationBooks

\* An UPDATE of the job raises a priority and owes an entry.
LEMMA WriteOwesEntry ==
  ASSUME OnlyJobEscalates, EInv, NEW k \in Run, EscalateWrite(k)
  PROVE  EscalationBooks'
<1>0. PICK t \in Ticket : t = target[k]
  BY JobRaisesPriority
<1>1. /\ IInv /\ TypeOK /\ EscalationBooks /\ OneRun /\ OnlyMoves(k) /\ k \in Proc /\ [Next]_vars
  BY RunsAlone, RunStepMoves DEF EInv, LInv, IInv, EscalationStep, Moves, Proc, Next
<1>2. /\ pc[k] = "write" /\ pc'[k] = "logEscalation" /\ UNCHANGED <<audit, crashes, target>>
  BY <1>1 DEF EscalateWrite, Goto, TypeOK, locals, env
<1>3. t \in Ticket /\ tickets[t] # NoRow /\ tickets'[t].priority = tickets[t].priority + 1
      /\ \A u \in Ticket \ {t} : tickets'[u] = tickets[u]
  BY <1>0, JobRaisesPriority
<1>4. \A l \in Run \ {k} : pc[l] # "logEscalation" /\ pc'[l] # "logEscalation"
  <2>1. pc[k] \notin Resting /\ "logEscalation" \notin Resting
    BY <1>2 DEF Resting, Reply
  <2>2. QED
    BY <1>1, <2>1 DEF OneRun, OnlyMoves, StaysRun
<1>5. \A u \in Ticket : Pending(u) = {} /\ Pending(u)' = IF u = t THEN {k} ELSE {}
  BY <1>0, <1>2, <1>4 DEF Pending
<1>6. \A u \in Ticket : Logged(u)' = Logged(u)
  BY <1>2 DEF Logged
<1>7. tickets[t].priority \in Int
  BY <1>1, <1>3 DEF TypeOK, Row, Priority, LOW, CRITICAL
<1>8. Lost(t)' = Lost(t)
  <2>1. Pending(t) = {} /\ Pending(t)' = {k}
    BY <1>3, <1>5
  <2>2. Cardinality(Pending(t)) = 0 /\ Cardinality(Pending(t)') = 1
    BY <2>1, FS_EmptySet, FS_Singleton, Zenon
  <2>3. Cardinality(Logged(t)) \in Nat /\ Logged(t)' = Logged(t)
    BY <1>3, <1>6, LoggedFinite
  <2>4. QED
    BY <1>3, <1>7, <2>2, <2>3 DEF Lost
<1>9. \A u \in Ticket \ {t} : Lost(u)' = Lost(u)
  BY <1>3, <1>5, <1>6 DEF Lost
<1>10. \A u \in Ticket : LevelsLogged(u)'
  <2>1. SameEntries("ESCALATE")
    BY <1>2 DEF SameEntries
  <2>2. QED
    BY <1>1, <2>1, LevelsStay
<1>11. QED
  BY <1>1, <1>2, <1>3, <1>8, <1>9, <1>10 DEF EscalationBooks

\* The INSERT into the log settles it.
LEMMA LogSettlesEntry ==
  ASSUME OnlyJobEscalates, EInv, NEW k \in Run, EscalateLog(k)
  PROVE  EscalationBooks'
<1>0. PICK t \in Ticket, p \in Priority : t = target[k] /\ p = loaded[k].priority
  <2>1. IInv /\ pc[k] = "logEscalation"
    BY DEF EInv, LInv, EscalateLog
  <2>2. target[k] \in Ticket /\ loaded[k] \in Row
    BY <2>1 DEF IInv, HandlersSound, RunSound, IsLate, IsLive, TypeOK, Proc
  <2>3. QED
    BY <2>2, RowPriority
<1>1. /\ IInv /\ TypeOK /\ EscalationBooks /\ OneRun /\ OnlyMoves(k) /\ k \in Proc
      /\ PriorityCurrent(k) /\ RunSound(k)
  BY RunsAlone, RunStepMoves DEF EInv, LInv, IInv, HandlersSound, EscalationStep, Moves, Proc
<1>2. /\ pc[k] = "logEscalation" /\ pc'[k] # "logEscalation" /\ UNCHANGED <<tickets, crashes>>
  BY <1>1 DEF EscalateLog, Goto, TypeOK, env
<1>3. /\ t \in Ticket /\ tickets[t] # NoRow /\ p \in Priority /\ tickets[t].priority = p + 1
      /\ audit[Escalation(t, p)] = 0
  BY <1>0, <1>1, <1>2 DEF RunSound, PriorityCurrent
<1>4. /\ Escalation(t, p) \in AuditKey /\ audit'[Escalation(t, p)] = 1
      /\ \A key \in AuditKey \ {Escalation(t, p)} : audit'[key] = audit[key]
  <2>1. Escalation(t, p) \in AuditKey /\ audit' = [audit EXCEPT ![Escalation(t, p)] = @ + 1]
    BY <1>0, <1>3, EscalationKeys DEF EscalateLog, Log, Escalation, PreviousPriority
  <2>2. QED
    BY <1>1, <1>3, <2>1 DEF TypeOK
<1>5. \A l \in Run \ {k} : pc[l] # "logEscalation" /\ pc'[l] # "logEscalation"
  <2>1. pc[k] \notin Resting /\ "logEscalation" \notin Resting
    BY <1>2 DEF Resting, Reply
  <2>2. QED
    BY <1>1, <2>1 DEF OneRun, OnlyMoves, StaysRun
<1>6. \A u \in Ticket : Pending(u)' = {} /\ Pending(u) = IF u = t THEN {k} ELSE {}
  BY <1>0, <1>2, <1>5 DEF Pending
<1>7. Logged(t)' = Logged(t) \cup {Escalation(t, p)} /\ Escalation(t, p) \notin Logged(t)
  BY <1>3, <1>4 DEF Logged, Escalation
<1>8. \A u \in Ticket \ {t} : Logged(u)' = Logged(u)
  BY <1>4 DEF Logged, Escalation
<1>9. Lost(t)' = Lost(t)
  <2>0. Pending(t) = {k} /\ Pending(t)' = {}
    BY <1>3, <1>6
  <2>1. Cardinality(Pending(t)) = 1 /\ Cardinality(Pending(t)') = 0
    BY <2>0, FS_EmptySet, FS_Singleton, Zenon
  <2>2. Cardinality(Logged(t)') = Cardinality(Logged(t)) + 1 /\ Cardinality(Logged(t)) \in Nat
    BY <1>3, <1>7, LoggedFinite, FS_AddElement
  <2>3. tickets[t].priority \in Int
    BY <1>3 DEF Priority, LOW, CRITICAL
  <2>4. QED
    BY <1>2, <2>1, <2>2, <2>3 DEF Lost
<1>10. \A u \in Ticket \ {t} : Lost(u)' = Lost(u)
  BY <1>2, <1>6, <1>8 DEF Lost
<1>11. ASSUME NEW u \in Ticket PROVE LevelsLogged(u)'
  <2> SUFFICES ASSUME NEW q \in Priority, audit'[Escalation(u, q)] # 0
               PROVE  /\ audit'[Escalation(u, q)] = 1 /\ tickets'[u] # NoRow
                      /\ q < tickets'[u].priority
    BY DEF LevelsLogged, Escalation
  <2>1. CASE u = t /\ q = p
    BY <1>2, <1>3, <1>4, <2>1 DEF Priority, LOW, CRITICAL
  <2>2. CASE ~(u = t /\ q = p)
    <3>1. audit'[Escalation(u, q)] = audit[Escalation(u, q)]
      BY <1>3, <1>4, <2>2, EscalationKeys
    <3>2. QED
      BY <1>1, <1>2, <3>1 DEF EscalationBooks, LevelsLogged
  <2>3. QED
    BY <2>1, <2>2
<1>12. QED
  BY <1>1, <1>2, <1>9, <1>10, <1>11 DEF EscalationBooks

\* A crash loses the entry of the one run that owes one.
LEMMA CrashLosesOne ==
  ASSUME OnlyJobEscalates, EInv, Crash
  PROVE  EscalationBooks'
<1>1. /\ IInv /\ TypeOK /\ EscalationBooks /\ OneRun /\ crashes \in Int
      /\ UNCHANGED <<tickets, audit>> /\ crashes' = crashes + 1
  BY RunsAlone DEF EInv, LInv, IInv, TypeOK, Crash, tables
<1>2. \A t \in Ticket : Pending(t)' = {} /\ Logged(t)' = Logged(t)
  BY <1>1, CrashEnds DEF Pending, Logged
<1>3. ASSUME NEW t \in Ticket, tickets[t] # NoRow PROVE 0 <= Lost(t)' /\ Lost(t)' <= crashes'
  <2>1. Cardinality(Pending(t)) \in {0, 1} /\ Cardinality(Logged(t)) \in Nat
    BY <1>1, PendingOne, LoggedFinite
  <2>2. Cardinality(Pending(t)') = 0 /\ tickets[t].priority \in Int
    <3>1. Cardinality(Pending(t)') = 0
      BY <1>2, FS_EmptySet, Zenon
    <3>2. tickets[t].priority \in Int
      BY <1>1, <1>3, RowPriority DEF TypeOK
    <3>3. QED
      BY <3>1, <3>2
  <2>3. Lost(t)' = Lost(t) + Cardinality(Pending(t))
    BY <1>1, <1>2, <2>1, <2>2 DEF Lost
  <2>4. Lost(t) \in Int /\ 0 <= Lost(t) /\ Lost(t) <= crashes
    BY <1>1, <1>3, <2>1, <2>2 DEF Lost, EscalationBooks
  <2>5. QED
    BY <1>1, <2>1, <2>3, <2>4
<1>4. \A t \in Ticket : LevelsLogged(t)'
  BY <1>1 DEF EscalationBooks, LevelsLogged, Escalation
<1>5. QED
  BY <1>1, <1>3, <1>4 DEF EscalationBooks

LEMMA EStep ==
  ASSUME OnlyJobEscalates
  PROVE  EInv /\ [Next]_vars => EInv'
<1> SUFFICES ASSUME EInv, [Next]_vars PROVE EInv'
  OBVIOUS
<1>1. LInv' /\ (MaxInFlight = 1 => SerialInv')
  BY LStep, NextSerial DEF EInv, LInv
<1>2. EscalationBooks'
  BY QuietLosesNothing, WriteOwesEntry, LogSettlesEntry, CrashLosesOne
<1>3. QED
  BY <1>1, <1>2, PriorityCurrentStep DEF EInv

LEMMA InitEscalations == OnlyJobEscalates /\ Init => EInv
<1> SUFFICES ASSUME OnlyJobEscalates, Init PROVE EInv
  OBVIOUS
<1>1. LInv /\ SerialInv
  BY InitSound, InitSent, InitSerial DEF LInv
<1>2. \A k \in Run : pc[k] = "idle" /\ Remaining(k) = {}
  BY ProcAssumption DEF Init, Proc, Remaining, NoBatch
<1>3. ASSUME NEW t \in Ticket PROVE LevelsLogged(t)
  BY EscalationKeys DEF Init, LevelsLogged, Escalation
<1>4. ASSUME NEW t \in Ticket, tickets[t] # NoRow PROVE Lost(t) = 0
  <2>1. Logged(t) = {} /\ Pending(t) = {}
    BY <1>2 DEF Init, Logged, Pending
  <2>2. QED
    BY <1>4, <2>1, FS_EmptySet DEF Init, Lost, OnlyJobEscalates, LOW
<1>5. crashes = 0
  BY DEF Init
<1>6. QED
  BY <1>1, <1>2, <1>3, <1>4, <1>5 DEF EInv, PriorityCurrent, EscalationBooks

LEMMA EscalationBooksShow ==
  ASSUME TypeOK, EscalationBooks
  PROVE  EscalationsLogged
<1>1. ASSUME NEW t \in Ticket, tickets[t] # NoRow, NEW k \in Logged(t)
      PROVE  audit[k] = 1 /\ k[3] < tickets[t].priority
  <2>1. k[3] \in Priority /\ k = Escalation(t, k[3]) /\ audit[k] # 0
    BY EscalationKeys
  <2>2. audit[Escalation(t, k[3])] = 1 /\ k[3] < tickets[t].priority
    BY <2>1 DEF EscalationBooks, LevelsLogged
  <2>3. QED
    BY <2>1, <2>2
<1>2. QED
  BY <1>1 DEF EscalationBooks, EscalationsLogged, Lost

\* Where priorities are changed by the job only, and by one run at a time, they are
\* what the log says: each level was logged once, or its entry is about to be
\* written, or it was lost in a crash, one entry per crash.
THEOREM EscalationsAreLogged ==
  ASSUME OnlyJobEscalates
  PROVE  Spec => []EscalationsLogged
<1>1. Init => EInv
  BY InitEscalations
<1>2. EInv /\ [Next]_vars => EInv'
  BY EStep
<1>3. EInv => EscalationsLogged
  BY EscalationBooksShow DEF EInv, LInv, IInv
<1>4. QED
  BY <1>1, <1>2, <1>3, PTL DEF Spec
===============================================================================

------------------------------ MODULE ImportProofs ------------------------------
(***************************************************************************)
(* The CSV import among clients, runs of the job and crashes: its steps    *)
(* are steps of the ticket services, so all that is proved about those     *)
(* holds around an import; the tickets of an import are those of the rows  *)
(* it has behind it (ImportsPrefix), and they are spread over the          *)
(* developers (ImportSpreads).                                             *)
(***************************************************************************)
EXTENDS CsvImport, LedgerProofs, SequenceTheorems

\* No row of any file has title s.
Foreign(s) == \A f \in CsvFiles : \A i \in DOMAIN f : f[i] # Bad => f[i].title # s

\* The import has no rows yet, or never gets any.
Unread == {"ready", "400", "500"}

\* Where the loop is.
LoopOK ==
  /\ import \in Unread \cup {"running", "200", "lost"}
  /\ import \in Unread => file = <<>> /\ next = 1
  /\ import = "ready" => \A t \in Ticket : tickets[t] # NoRow => Foreign(tickets[t].title)
  /\ import \notin Unread => file \in CsvFiles
  /\ next \in 1..Len(file) + 1
  /\ import = "200" => next = Len(file) + 1

\* What it has counted.
Behind   == {i \in GoodRows : i < next}
CountsOK == created = Cardinality(Behind) /\ failed \in Nat /\ created + failed = next - 1

\* The create it waits for; all other creates are of clients.
CallOK ==
  /\ call # NoCall =>
       /\ import = "running" /\ next <= Len(file) /\ file[next] # Bad
       /\ call \in Request /\ pc[call] \in {"insert", "logAssign", "200"}
       /\ pc[call] = "insert" => body[call] = file[next]
  /\ \A r \in Request : pc[r] = "insert" /\ r # call => body[r] \in ClientDtos

\* The tickets of the rows: one for each behind, none ahead, and one for the row the
\* loop is at when its create has inserted it, or had when the process crashed.
One(S)   == \E t \in Ticket : S = {t}
Inserted == call # NoCall /\ pc[call] # "insert"

RowOK(i) ==
  /\ i < next => One(TicketOf(i))
  /\ i = next /\ Inserted => One(TicketOf(i))
  /\ i = next /\ ~Inserted => TicketOf(i) = {} \/ (import = "lost" /\ One(TicketOf(i)))
  /\ i > next => TicketOf(i) = {}

\* Their ids are in the order of the rows, and below all ids there are left.
OrderOK ==
  /\ \A i \in GoodRows : \A t \in TicketOf(i), u \in Ticket : tickets[u] = NoRow => t < u
  /\ \A i, j \in GoodRows : i < j => \A t \in TicketOf(i), u \in TicketOf(j) : t < u

TicketsOK == (\A i \in GoodRows : RowOK(i)) /\ OrderOK

\* The inductive invariant of ImportsPrefix.
PInv == LInv /\ Agree("title") /\ LoopOK /\ CountsOK /\ CallOK /\ TicketsOK

Undated == \A i \in GoodRows : \A t \in TicketOf(i) : tickets[t].due = NoDate

\* The loads are spread, and the developer the next ticket goes to has the least.
Spread(p) ==
  /\ \A u, v \in Developer : Load(u, p) <= Load(v, p) + 1
  /\ call # NoCall /\ pc[call] = "insert" /\ loaded[call].project = p /\ LogsAssignment(call) =>
       \A v \in Developer : Load(loaded[call].assignee, p) <= Load(v, p)

\* The inductive invariant of ImportSpreads.
SInv == /\ PInv /\ (\A c \in Plain : Agree(c)) /\ Undated
        /\ \A p \in Project : SpreadOnly(p) => Spread(p)

-------------------------------------------------------------------------------
(* An import is served by the ticket services.                             *)

LEMMA ImportMoves ==
  ASSUME [ImportNext]_allVars
  PROVE  \/ UNCHANGED vars
         \/ Crash /\ CrashImport
         \/ \E r \in Request : CreateAssign(r) /\ CreateRow
         \/ [Next]_vars /\ Others
BY DEF ImportNext, RefuseFile, ParseFile, RefuseRow, CreateRow, RowCreated, AnswerImport,
   CrashImport, Others, allVars, Next

LEMMA ImportStepIsStep ==
  ASSUME [ImportNext]_allVars
  PROVE  [Next]_vars
BY ImportMoves DEF Next, RequestCall, TicketCall

\* Whatever an import does to the tables and the handlers, the ticket services do:
\* each behaviour of CsvImport is one of TicketSystem.
THEOREM ImportIsServed == ImportSpec => Spec
<1>1. ImportInit => Init
  BY DEF ImportInit
<1>2. [ImportNext]_allVars => [Next]_vars
  BY ImportStepIsStep
<1>3. QED
  BY <1>1, <1>2, PTL DEF ImportSpec, Spec

\* So the log is right about auto-assignments while files are imported.
THEOREM ImportedAssignmentsLogged ==
  ASSUME OnlyAutoAssigns
  PROVE  ImportSpec => []AssignmentsLogged
BY ImportIsServed, AssignmentsAreLogged, PTL

\* So it is about escalations.
THEOREM ImportedEscalationsLogged ==
  ASSUME OnlyJobEscalates
  PROVE  ImportSpec => []EscalationsLogged
BY ImportIsServed, EscalationsAreLogged, PTL

-------------------------------------------------------------------------------
(* The file and the counts.                                                *)

LEMMA FileFacts ==
  ASSUME LoopOK
  PROVE  /\ Len(file) \in Nat /\ DOMAIN file = 1..Len(file) /\ next \in Nat
         /\ \A i \in DOMAIN file : file[i] # Bad => file[i] \in CreateDtos
         /\ \A i \in GoodRows : \A s : Foreign(s) => s # file[i].title
<1>1. file \in Seq(CreateDtos \cup {Bad})
  <2>1. CASE import \in Unread
    <3>1. file = <<>>
      BY <2>1 DEF LoopOK
    <3>2. QED
      BY <3>1, EmptySeq
  <2>2. CASE import \notin Unread
    <3>1. file \in CsvFiles
      BY <2>2 DEF LoopOK
    <3>2. QED
      BY <3>1, CsvAssumption
  <2>3. QED
    BY <2>1, <2>2
<1>2. Len(file) \in Nat /\ DOMAIN file = 1..Len(file)
  BY <1>1
<1>3. next \in Nat
  BY <1>2 DEF LoopOK
<1>4. \A i \in DOMAIN file : file[i] # Bad => file[i] \in CreateDtos
  <2>1. \A i \in 1..Len(file) : file[i] \in CreateDtos \cup {Bad}
    BY <1>1, ElementOfSeq
  <2>2. QED
    BY <1>2, <2>1
<1>5. \A i \in GoodRows : \A s : Foreign(s) => s # file[i].title
  BY <1>2 DEF LoopOK, GoodRows, Foreign
<1>6. QED
  BY <1>2, <1>3, <1>4, <1>5

LEMMA BehindFinite ==
  ASSUME LoopOK
  PROVE  IsFiniteSet(Behind) /\ Cardinality(Behind) \in Nat
<1>1. Len(file) \in Int /\ 1 \in Int /\ DOMAIN file = 1..Len(file)
  BY FileFacts
<1>2. IsFiniteSet(1..Len(file))
  BY <1>1, FS_Interval
<1>3. Behind \in SUBSET (1..Len(file))
  BY <1>1 DEF Behind, GoodRows
<1>4. QED
  BY <1>2, <1>3, FS_Subset, FS_CardinalityType

LEMMA GoodRowInt ==
  ASSUME LoopOK, NEW i \in GoodRows
  PROVE  i \in Int /\ 1 <= i /\ i <= Len(file) /\ file[i] \in CreateDtos /\ file[i] # Bad
BY FileFacts DEF GoodRows

\* What the titles of the tickets are after a step of the services.
LEMMA TitlesStay ==
  ASSUME LInv, Keeps("title"), Agree("title"), [Next]_vars
  PROVE  /\ \A t \in Ticket : tickets[t] # NoRow =>
              tickets'[t] # NoRow /\ tickets'[t].title = tickets[t].title
         /\ (\A r \in Request : ~CreateInsert(r)) =>
              \A t \in Ticket : tickets'[t] # NoRow => tickets[t] # NoRow
<1>1. IInv /\ AllSent /\ Fixed("title")
  BY FixedStep DEF LInv, Plain
<1>2. \A t \in Ticket : tickets[t] # NoRow => tickets'[t] # NoRow
  BY <1>1, NoNewRow, InsertLocals DEF NextId, IInv, TypeOK
<1>3. QED
  BY <1>1, <1>2, NoNewRow DEF Fixed

LEMMA CsvFileFacts ==
  ASSUME NEW f \in CsvFiles
  PROVE  Len(f) \in Nat /\ DOMAIN f = 1..Len(f)
BY CsvAssumption

-------------------------------------------------------------------------------
(* The creates.                                                            *)

\* A create that has started goes on to its answer.
LEMMA CreateGoesOn ==
  ASSUME IInv, NEW r \in Request, RequestCall(r) \/ RequestStep(r),
         pc[r] \in {"insert", "logAssign", "200"}
  PROVE  /\ pc'[r] \in {"logAssign", "200"}
         /\ CreateInsert(r) <=> pc[r] = "insert"
<1>1. CreateInsert(r) \/ CreateLog(r)
  BY DEF RequestCall, RequestStep, TicketCall, DependencyCall, TicketStep, DependencyStep,
     CreateAssign, UpdateLoad, RemoveLoad, RestoreLoad, AddDependency, RemoveDependency,
     GetDependencies, Call, UpdateGate, UpdateReload, UpdateWrite, RemoveWrite, RestoreWrite,
     RestoreReread, AddReadPair, AddLookup, AddInsert, RemoveDelete, ListDependencies
<1>2. Goto(r, "logAssign") \/ Goto(r, "200")
  BY <1>1 DEF CreateInsert, CreateLog, Answer
<1>3. pc'[r] \in {"logAssign", "200"}
  BY <1>2 DEF Goto, IInv, TypeOK, Proc
<1>4. QED
  BY <1>1, <1>3 DEF CreateInsert, CreateLog

\* A handler that has been called does not start a create.
LEMMA StepsInsertNothing ==
  ASSUME IInv, NEW r \in Request, RequestStep(r)
  PROVE  pc'[r] # "insert"
<1>1. TypeOK /\ r \in Proc
  BY DEF IInv, Proc
<1>2. CASE pc'[r] \in Other
  BY <1>2 DEF Other
<1>3. CASE \E reply \in Reply : Answer(r, reply)
  BY <1>1, <1>2, <1>3, AnswerSent
<1>4. CASE \E phase \in {"logAssign", "reload", "write"} : Goto(r, phase)
  BY <1>1, <1>4 DEF Goto, TypeOK
<1>5. CreateInsert(r) \/ UpdateGate(r) \/ UpdateReload(r)
      => \/ \E reply \in Reply : Answer(r, reply)
         \/ \E phase \in {"logAssign", "reload", "write"} : Goto(r, phase)
  BY DEF CreateInsert, UpdateGate, UpdateReload, Reply
<1>6. QED
  BY <1>2, <1>3, <1>4, <1>5, OtherPhases DEF RequestStep, TicketStep

LEMMA CallsAreNew ==
  ASSUME NEW r \in Request, RequestCall(r)
  PROVE  pc[r] = "ready"
BY DEF RequestCall, TicketCall, DependencyCall, CreateAssign, UpdateLoad, RemoveLoad,
   RestoreLoad, AddDependency, RemoveDependency, GetDependencies, Call

\* What the others do to a request.
LEMMA OthersRequest ==
  ASSUME IInv, Others, NEW q \in Request
  PROVE  /\ pc'[q] = "insert" =>
              \/ pc[q] = "insert" /\ body'[q] = body[q] /\ loaded'[q] = loaded[q]
              \/ pc[q] = "ready" /\ body'[q] \in ClientDtos
         /\ pc[q] \in {"insert", "logAssign", "200"} =>
              /\ pc'[q] \in {"insert", "logAssign", "200"}
              /\ pc'[q] = "insert" <=> pc[q] = "insert" /\ ~CreateInsert(q)
<1>1. CASE StaysRequest(q)
  <2>1. pc'[q] = "insert" => ~CreateInsert(q)
    BY StepsInsertNothing DEF RequestStep, TicketStep
  <2>2. QED
    BY <1>1, <2>1 DEF StaysRequest
<1>2. CASE RequestStep(q)
  BY <1>2, StepsInsertNothing, CreateGoesOn
<1>3. CASE RequestCall(q) /\ (pc'[q] = "insert" => body'[q] \in ClientDtos)
  BY <1>3, CreateGoesOn, CallsAreNew
<1>4. CASE \E p \in Proc \ {q} : OnlyMoves(p)
  BY <1>1, <1>4 DEF OnlyMoves
<1>5. CASE Tick
  BY <1>1, <1>5 DEF Tick, locals, StaysRequest
<1>6. QED
  BY <1>2, <1>3, <1>4, <1>5, RequestStepMoves, RunStepMoves, ProcAssumption DEF Others, Moves, Proc

LEMMA OthersKeepCall ==
  ASSUME IInv, CallOK, Others
  PROVE  CallOK'
<1>1. import' = import /\ file' = file /\ next' = next /\ call' = call
  BY DEF Others, importVars
<1>2. ASSUME call # NoCall PROVE pc'[call] \in {"insert", "logAssign", "200"}
                              /\ (pc'[call] = "insert" => body'[call] = file'[next'])
  <2>1. /\ call \in Request /\ pc[call] \in {"insert", "logAssign", "200"}
        /\ pc[call] = "insert" => body[call] = file[next]
    BY <1>2 DEF CallOK
  <2>2. QED
    BY <1>1, <2>1, OthersRequest
<1>3. ASSUME NEW r \in Request, pc'[r] = "insert", r # call' PROVE body'[r] \in ClientDtos
  BY <1>1, <1>3, OthersRequest DEF CallOK
<1>4. QED
  BY <1>1, <1>2, <1>3 DEF CallOK

-------------------------------------------------------------------------------
(* Steps of the loop, which leave the tickets as they are.                 *)

LoopInv == LoopOK /\ CountsOK /\ CallOK /\ TicketsOK

LEMMA RefuseFileKeeps ==
  ASSUME LoopInv, RefuseFile
  PROVE  LoopInv'
<1>1. /\ import = "ready" /\ import' \in {"400", "500"}
      /\ UNCHANGED <<vars, file, next, call, created, failed>>
  BY DEF RefuseFile
<1>2. LoopOK'
  BY <1>1 DEF LoopInv, LoopOK, Unread
<1>3. CountsOK' /\ CallOK'
  BY <1>1 DEF LoopInv, CountsOK, CallOK, Behind, GoodRows, vars, locals
<1>4. GoodRows' = GoodRows /\ \A i : TicketOf(i)' = TicketOf(i)
  BY <1>1 DEF GoodRows, TicketOf, vars, tables
<1>5. \A i \in GoodRows : RowOK(i)'
  BY <1>1, <1>4 DEF LoopInv, TicketsOK, RowOK, Inserted, vars
<1>6. OrderOK'
  BY <1>1, <1>4 DEF LoopInv, TicketsOK, OrderOK, vars, tables
<1>7. QED
  BY <1>2, <1>3, <1>4, <1>5, <1>6 DEF LoopInv, TicketsOK

LEMMA ParseFileKeeps ==
  ASSUME LoopInv, ParseFile
  PROVE  LoopInv'
<1>1. PICK f \in CsvFiles : file' = f
  BY DEF ParseFile
<1>2. /\ import' = "running" /\ next' = 1 /\ file = <<>> /\ call = NoCall /\ call' = NoCall
      /\ UNCHANGED <<created, failed, vars>>
      /\ \A t \in Ticket : tickets[t] # NoRow => Foreign(tickets[t].title)
  BY DEF ParseFile, LoopInv, LoopOK, CallOK, Unread
<1>3. Len(f) \in Nat /\ DOMAIN f = 1..Len(f)
  BY CsvFileFacts
<1>4. LoopOK'
  BY <1>1, <1>2, <1>3 DEF LoopOK, Unread
<1>5. GoodRows = {} /\ GoodRows' \subseteq 1..Len(f)
  BY <1>1, <1>2, <1>3 DEF GoodRows
<1>6. CountsOK'
  <2>1. \A i \in GoodRows' : ~(i < 1)
    BY <1>3, <1>5
  <2>. Behind = {} /\ Behind' = {}
    BY <1>2, <1>5, <2>1 DEF Behind
  <2>2. next' = next
    BY <1>2 DEF LoopInv, LoopOK, ParseFile
  <2>3. QED
    BY <1>2, <2>2 DEF LoopInv, CountsOK
<1>7. CallOK'
  BY <1>2 DEF LoopInv, CallOK, vars, locals
<1>8. \A i \in GoodRows' : TicketOf(i)' = {}
  BY <1>1, <1>2 DEF TicketOf, Foreign, GoodRows, vars, tables
<1>9. TicketsOK'
  <2>1. ~Inserted'
    BY <1>2 DEF Inserted
  <2>2. ASSUME NEW i \in GoodRows' PROVE RowOK(i)'
    <3>1. ~(i < next')
      BY <1>2, <1>3, <1>5
    <3>2. QED
      BY <1>8, <2>1, <3>1 DEF RowOK
  <2>3. OrderOK'
    BY <1>8 DEF OrderOK
  <2>4. QED
    BY <2>2, <2>3 DEF TicketsOK
<1>10. QED
  BY <1>4, <1>6, <1>7, <1>9 DEF LoopInv

LEMMA RefuseRowKeeps ==
  ASSUME LoopInv, RefuseRow
  PROVE  LoopInv'
<1>1. /\ import = "running" /\ call = NoCall /\ next <= Len(file) /\ file[next] = Bad
      /\ failed' = failed + 1 /\ next' = next + 1
      /\ UNCHANGED <<vars, import, file, call, created>>
  BY DEF RefuseRow, AtRow
<1>2. Len(file) \in Nat /\ DOMAIN file = 1..Len(file) /\ next \in Nat /\ LoopOK
  BY FileFacts DEF LoopInv
<1>3. LoopOK'
  BY <1>1, <1>2 DEF LoopOK, Unread
<1>4. GoodRows' = GoodRows /\ next \notin GoodRows /\ \A i \in GoodRows : i \in Int
  BY <1>1, <1>2 DEF GoodRows
<1>5. CountsOK'
  <2>1. Behind' = Behind
    BY <1>1, <1>2, <1>4 DEF Behind
  <2>2. created \in Nat
    BY <1>2, BehindFinite DEF LoopInv, CountsOK
  <2>3. QED
    BY <1>1, <1>2, <2>1, <2>2 DEF LoopInv, CountsOK
<1>6. CallOK'
  BY <1>1 DEF LoopInv, CallOK, vars, locals
<1>7. \A i : TicketOf(i)' = TicketOf(i)
  BY <1>1 DEF TicketOf, vars, tables
<1>8. \A i \in GoodRows : RowOK(i)'
  BY <1>1, <1>2, <1>4, <1>7 DEF LoopInv, TicketsOK, RowOK, Inserted
<1>9. OrderOK'
  BY <1>1, <1>4, <1>7 DEF LoopInv, TicketsOK, OrderOK, vars, tables
<1>10. QED
  BY <1>3, <1>4, <1>5, <1>6, <1>8, <1>9 DEF LoopInv, TicketsOK

LEMMA RowCreatedKeeps ==
  ASSUME LoopInv, RowCreated
  PROVE  LoopInv'
<1>1. /\ import = "running" /\ call # NoCall /\ pc[call] = "200"
      /\ created' = created + 1 /\ next' = next + 1 /\ call' = NoCall
      /\ UNCHANGED <<vars, import, file, failed>>
  BY DEF RowCreated
<1>2. /\ Len(file) \in Nat /\ DOMAIN file = 1..Len(file) /\ next \in Nat /\ LoopOK
      /\ next <= Len(file) /\ file[next] # Bad /\ call \in Request
  BY <1>1, FileFacts DEF LoopInv, CallOK
<1>3. LoopOK'
  BY <1>1, <1>2 DEF LoopOK, Unread
<1>4. GoodRows' = GoodRows /\ next \in GoodRows /\ \A i \in GoodRows : i \in Int
  <2>1. 1 <= next
    BY <1>2 DEF LoopOK
  <2>2. QED
    BY <1>1, <1>2, <2>1 DEF GoodRows
<1>5. CountsOK'
  <2>0. \A i \in GoodRows : i < next + 1 <=> i < next \/ i = next
    BY <1>2, <1>4
  <2>1. Behind' = Behind \cup {next} /\ next \notin Behind
    <3>1. Behind' = {i \in GoodRows : i < next + 1}
      BY <1>1, <1>4 DEF Behind
    <3>2. {i \in GoodRows : i < next + 1} = {i \in GoodRows : i < next} \cup {next}
      BY <1>4, <2>0
    <3>3. ~(next < next)
      BY <1>2
    <3>4. QED
      BY <3>1, <3>2, <3>3 DEF Behind
  <2>2. Cardinality(Behind') = Cardinality(Behind) + 1 /\ Cardinality(Behind) \in Nat
    BY <1>2, <2>1, BehindFinite, FS_AddElement
  <2>3. QED
    BY <1>1, <1>2, <2>2 DEF LoopInv, CountsOK
<1>6. CallOK'
  BY <1>1 DEF LoopInv, CallOK, vars, locals
<1>7. \A i : TicketOf(i)' = TicketOf(i)
  BY <1>1 DEF TicketOf, vars, tables
<1>8. \A i \in GoodRows : RowOK(i)'
  BY <1>1, <1>2, <1>4, <1>7 DEF LoopInv, TicketsOK, RowOK, Inserted, One
<1>9. OrderOK'
  BY <1>1, <1>4, <1>7 DEF LoopInv, TicketsOK, OrderOK, vars, tables
<1>10. QED
  BY <1>3, <1>4, <1>5, <1>6, <1>8, <1>9 DEF LoopInv, TicketsOK

LEMMA AnswerImportKeeps ==
  ASSUME LoopInv, AnswerImport
  PROVE  LoopInv'
<1>1. /\ import = "running" /\ call = NoCall /\ next > Len(file) /\ import' = "200"
      /\ UNCHANGED <<vars, file, next, call, created, failed>>
  BY DEF AnswerImport
<1>2. Len(file) \in Nat /\ DOMAIN file = 1..Len(file) /\ next \in Nat /\ LoopOK
  BY FileFacts DEF LoopInv
<1>3. LoopOK'
  BY <1>1, <1>2 DEF LoopOK, Unread
<1>4. GoodRows' = GoodRows /\ \A i \in GoodRows : i \in Int /\ i < next
  BY <1>1, <1>2 DEF GoodRows
<1>5. CountsOK'
  <2>1. Behind' = Behind
    BY <1>1, <1>4 DEF Behind
  <2>2. QED
    BY <1>1, <2>1 DEF LoopInv, CountsOK
<1>6. CallOK'
  BY <1>1 DEF LoopInv, CallOK, vars, locals
<1>7. \A i : TicketOf(i)' = TicketOf(i)
  BY <1>1 DEF TicketOf, vars, tables
<1>8. \A i \in GoodRows : RowOK(i)'
  BY <1>1, <1>2, <1>4, <1>7 DEF LoopInv, TicketsOK, RowOK, One
<1>9. OrderOK'
  BY <1>1, <1>4, <1>7 DEF LoopInv, TicketsOK, OrderOK, vars, tables
<1>10. QED
  BY <1>3, <1>4, <1>5, <1>6, <1>8, <1>9 DEF LoopInv, TicketsOK

\* The create of a row starts.
LEMMA CreateRowKeeps ==
  ASSUME LoopInv, IInv, CreateRow
  PROVE  LoopInv'
<1>1. PICK r \in Request : CreateAssign(r) /\ body'[r] = file[next] /\ call' = r
  BY DEF CreateRow
<1>2. /\ import = "running" /\ call = NoCall /\ next <= Len(file)
      /\ UNCHANGED <<tickets, import, file, next, created, failed>>
  BY <1>1 DEF CreateRow, AtRow, CreateAssign, tables
<1>3. /\ Len(file) \in Nat /\ DOMAIN file = 1..Len(file) /\ next \in Nat /\ LoopOK
  BY FileFacts DEF LoopInv
<1>4. OnlyMoves(r) /\ pc'[r] = "insert" /\ body'[r] \in CreateDtos
  <2>1. OnlyMoves(r)
    BY <1>1, RequestStepMoves DEF RequestCall, TicketCall, Moves
  <2>2. PICK dto \in CreateDtos : body' = [body EXCEPT ![r] = dto]
    BY <1>1 DEF CreateAssign
  <2>3. QED
    BY <1>1, <2>1, <2>2 DEF CreateAssign, Goto, IInv, TypeOK, Proc
<1>5. LoopOK'
  BY <1>2 DEF LoopInv, LoopOK
<1>6. CountsOK'
  BY <1>2 DEF LoopInv, CountsOK, Behind, GoodRows
<1>7. CallOK'
  <2>1. file[next] # Bad
    BY <1>1, <1>4, CsvAssumption
  <2>2. \A q \in Request : pc'[q] = "insert" /\ q # r => body'[q] \in ClientDtos
    BY <1>2, <1>4, CsvAssumption DEF OnlyMoves, StaysRequest, LoopInv, CallOK
  <2>3. QED
    BY <1>1, <1>2, <1>4, <2>1, <2>2 DEF CallOK
<1>8. GoodRows' = GoodRows /\ \A i : TicketOf(i)' = TicketOf(i)
  BY <1>2 DEF GoodRows, TicketOf
<1>9. \A i \in GoodRows : RowOK(i)'
  BY <1>1, <1>2, <1>4, <1>8 DEF LoopInv, TicketsOK, RowOK, Inserted
<1>10. OrderOK'
  BY <1>2, <1>8 DEF LoopInv, TicketsOK, OrderOK
<1>11. QED
  BY <1>5, <1>6, <1>7, <1>8, <1>9, <1>10 DEF LoopInv, TicketsOK

\* A crash ends the loop; the create of its row has inserted a ticket or not.
LEMMA CrashImportKeeps ==
  ASSUME LoopInv, IInv, CrashImport
  PROVE  LoopInv'
<1>1. /\ import' = IF import = "running" THEN "lost" ELSE import
      /\ call' = NoCall /\ UNCHANGED <<tickets, file, next, created, failed>> /\ Crash
  BY DEF CrashImport, Crash, tables
<1>2. LoopOK'
  BY <1>1 DEF LoopInv, LoopOK, Unread
<1>3. CountsOK'
  BY <1>1 DEF LoopInv, CountsOK, Behind, GoodRows
<1>4. CallOK'
  BY <1>1, CrashEnds DEF CallOK, Other
<1>5. GoodRows' = GoodRows /\ \A i : TicketOf(i)' = TicketOf(i)
  BY <1>1 DEF GoodRows, TicketOf
<1>6. \A i \in GoodRows : RowOK(i)'
  BY <1>1, <1>5 DEF LoopInv, TicketsOK, RowOK, Inserted, CallOK, One
<1>7. OrderOK'
  BY <1>1, <1>5 DEF LoopInv, TicketsOK, OrderOK
<1>8. QED
  BY <1>2, <1>3, <1>4, <1>5, <1>6, <1>7 DEF LoopInv, TicketsOK

-------------------------------------------------------------------------------
(* Steps of the others.                                                    *)

\* What an INSERT of create does to the titles.
LEMMA InsertTitles ==
  ASSUME LInv, NEW r \in Request, CreateInsert(r)
  PROVE  \E t \in Ticket :
           /\ tickets[t] = NoRow /\ tickets'[t] = loaded[r] /\ loaded[r] # NoRow
           /\ loaded[r].title = body[r].title /\ body[r] \in CreateDtos
           /\ \A u \in Ticket : tickets[u] = NoRow => t <= u
           /\ \A u \in Ticket \ {t} : tickets'[u] = tickets[u]
<1>1. IInv /\ TypeOK /\ Sent(r) /\ pc[r] = "insert"
  BY DEF LInv, IInv, AllSent, CreateInsert
<1>2. PICK t \in Ticket : NextId(t) /\ tickets' = [tickets EXCEPT ![t] = loaded[r]]
  BY <1>1, InsertLocals
<1>3. loaded[r] # NoRow
  BY <1>1, InsertLocals
<1>4. loaded[r].title = body[r].title /\ body[r] \in CreateDtos
  BY <1>1 DEF Sent, NewRow
<1>5. QED
  BY <1>1, <1>2, <1>3, <1>4 DEF NextId, TypeOK

\* Without an INSERT, the tickets of each row stay as they are.
LEMMA OthersKeepTickets ==
  ASSUME OwnTitles, LInv, Agree("title"), LoopInv, [Next]_vars, Others,
         \A r \in Request : ~CreateInsert(r)
  PROVE  LoopOK' /\ TicketsOK'
<1>1. import' = import /\ file' = file /\ next' = next /\ call' = call
  BY DEF Others, importVars
<1>2. \A t \in Ticket : /\ tickets'[t] = NoRow <=> tickets[t] = NoRow
                        /\ tickets[t] # NoRow => tickets'[t].title = tickets[t].title
  BY TitlesStay DEF OwnTitles
<1>3. LoopOK'
  BY <1>1, <1>2 DEF LoopInv, LoopOK, Foreign
<1>4. GoodRows' = GoodRows /\ \A i \in GoodRows : TicketOf(i)' = TicketOf(i)
  BY <1>1, <1>2 DEF GoodRows, TicketOf
<1>5. Inserted' <=> Inserted
  BY <1>1, OthersRequest DEF LInv, LoopInv, CallOK, Inserted
<1>6. \A i \in GoodRows : RowOK(i)'
  BY <1>1, <1>4, <1>5 DEF LoopInv, TicketsOK, RowOK
<1>7. OrderOK'
  BY <1>2, <1>4 DEF LoopInv, TicketsOK, OrderOK, TicketOf
<1>8. QED
  BY <1>3, <1>4, <1>6, <1>7 DEF TicketsOK

\* A ticket of a client is not one of the file.
LEMMA ClientInsertKeeps ==
  ASSUME OwnTitles, LInv, LoopInv, Others, NEW r \in Request, CreateInsert(r), r # call
  PROVE  LoopOK' /\ TicketsOK' /\ \A i \in GoodRows : TicketOf(i)' = TicketOf(i)
<1>1. import' = import /\ file' = file /\ next' = next /\ call' = call
  BY DEF Others, importVars
<1>2. PICK t \in Ticket :
        /\ tickets[t] = NoRow /\ tickets'[t] = loaded[r] /\ loaded[r] # NoRow
        /\ loaded[r].title = body[r].title
        /\ \A u \in Ticket \ {t} : tickets'[u] = tickets[u]
  BY InsertTitles
<1>3. Foreign(loaded[r].title)
  <2>1. body[r] \in ClientDtos
    BY DEF LoopInv, CallOK, CreateInsert
  <2>2. QED
    BY <1>2, <2>1 DEF OwnTitles, Foreign
<1>4. LoopOK'
  BY <1>1, <1>2, <1>3 DEF LoopInv, LoopOK, Foreign
<1>5. GoodRows' = GoodRows /\ \A i \in GoodRows : TicketOf(i)' = TicketOf(i)
  <2>1. \A i \in GoodRows : loaded[r].title # file[i].title
    BY <1>3, FileFacts DEF LoopInv
  <2>2. QED
    BY <1>1, <1>2, <2>1 DEF GoodRows, TicketOf
<1>6. Inserted' <=> Inserted
  <2>1. call # NoCall => StaysRequest(call)
    BY RequestStepMoves DEF LInv, LoopInv, CallOK, RequestStep, TicketStep, Moves, OnlyMoves
  <2>2. QED
    BY <1>1, <2>1 DEF Inserted, StaysRequest
<1>7. \A i \in GoodRows : RowOK(i)'
  BY <1>1, <1>5, <1>6 DEF LoopInv, TicketsOK, RowOK
<1>8. OrderOK'
  <2>1. \A u \in Ticket : tickets'[u] = NoRow => tickets[u] = NoRow
    BY <1>2
  <2>2. QED
    BY <1>5, <2>1 DEF LoopInv, TicketsOK, OrderOK
<1>9. QED
  BY <1>4, <1>5, <1>7, <1>8 DEF TicketsOK

\* The create of a row inserts the one ticket with its title, under the next id.
LEMMA RowInsertKeeps ==
  ASSUME OwnTitles, LInv, LoopInv, Others, NEW r \in Request, CreateInsert(r), r = call
  PROVE  LoopOK' /\ TicketsOK'
<1>1. /\ import' = import /\ file' = file /\ next' = next /\ call' = call
      /\ import = "running" /\ next <= Len(file) /\ file[next] # Bad /\ call # NoCall
      /\ pc[call] = "insert" /\ body[call] = file[next] /\ LoopOK
  BY CsvAssumption DEF Others, importVars, LoopInv, CallOK, CreateInsert
<1>2. PICK t \in Ticket :
        /\ tickets[t] = NoRow /\ tickets'[t] = loaded[r] /\ loaded[r] # NoRow
        /\ loaded[r].title = body[r].title
        /\ \A u \in Ticket : tickets[u] = NoRow => t <= u
        /\ \A u \in Ticket \ {t} : tickets'[u] = tickets[u]
  BY InsertTitles
<1>3. GoodRows' = GoodRows /\ next \in GoodRows
  <2>1. DOMAIN file = 1..Len(file) /\ next \in Nat /\ 1 <= next /\ Len(file) \in Nat
    BY <1>1, FileFacts DEF LoopOK
  <2>2. QED
    BY <1>1, <2>1 DEF GoodRows
<1>4. LoopOK'
  BY <1>1 DEF LoopOK
<1>5. \A i \in GoodRows : i # next => file[i].title # file[next].title
  BY <1>1, <1>3 DEF OwnTitles, LoopOK, GoodRows
<1>6. ~Inserted /\ Inserted'
  <2>1. pc'[call] \in {"logAssign", "200"}
    BY <1>1, CreateGoesOn DEF LInv, RequestStep, TicketStep
  <2>2. QED
    BY <1>1, <2>1 DEF Inserted
<1>7. \A i \in GoodRows : i = next => TicketOf(i) = {} /\ TicketOf(i)' = {t}
  <2> SUFFICES ASSUME NEW i \in GoodRows, i = next
               PROVE  TicketOf(i) = {} /\ TicketOf(i)' = {t}
    OBVIOUS
  <2>1. TicketOf(i) = {}
    BY <1>1, <1>6 DEF LoopInv, TicketsOK, RowOK
  <2>2. \A u \in Ticket : tickets'[u] # NoRow /\ tickets'[u].title = file'[i].title <=> u = t
    BY <1>1, <1>2, <2>1 DEF TicketOf
  <2>3. QED
    BY <2>1, <2>2 DEF TicketOf
<1>8. \A i \in GoodRows : i # next => TicketOf(i)' = TicketOf(i)
  BY <1>1, <1>2, <1>5 DEF TicketOf
<1>9. \A i \in GoodRows : RowOK(i)'
  <2>1. \A i \in GoodRows : i \in Int
    BY <1>1, GoodRowInt
  <2>2. next \in Int
    BY <1>3, <2>1
  <2>3. QED
    BY <1>1, <1>6, <1>7, <1>8, <2>1, <2>2 DEF LoopInv, TicketsOK, RowOK, One
<1>10. \A u \in Ticket : tickets'[u] = NoRow => tickets[u] = NoRow /\ t < u
  <2>1. \A u \in Ticket : tickets'[u] = NoRow => u # t /\ tickets[u] = NoRow /\ t <= u
    BY <1>2
  <2>2. \A u \in Ticket : u \in Int
    BY IdAssumption
  <2>3. QED
    BY <2>1, <2>2
<1>11. \A i \in GoodRows : i # next => \A u \in TicketOf(i) : u < t
  BY <1>2 DEF LoopInv, TicketsOK, OrderOK
<1>12. \A i \in GoodRows : i > next => TicketOf(i) = {}
  BY DEF LoopInv, TicketsOK, RowOK
<1>13. OrderOK'
  <2>1. ASSUME NEW i \in GoodRows, NEW v \in TicketOf(i)', NEW u \in Ticket, tickets'[u] = NoRow
        PROVE  v < u
    <3>1. tickets[u] = NoRow /\ t < u
      BY <1>10, <2>1
    <3>2. CASE i = next
      BY <1>7, <2>1, <3>1, <3>2
    <3>3. CASE i # next
      BY <1>8, <2>1, <3>1, <3>3 DEF LoopInv, TicketsOK, OrderOK
    <3>4. QED
      BY <3>2, <3>3
  <2>2. ASSUME NEW i \in GoodRows, NEW j \in GoodRows, i < j,
               NEW v \in TicketOf(i)', NEW u \in TicketOf(j)'
        PROVE  v < u
    <3>1. i \in Int /\ j \in Int /\ next \in Int
      BY <1>1, <1>3, GoodRowInt
    <3>2. CASE i = next
      <4>1. j > next /\ j # next
        BY <2>2, <3>1, <3>2
      <4>2. QED
        BY <1>8, <1>12, <2>2, <4>1
    <3>3. CASE i # next /\ j = next
      BY <1>7, <1>8, <1>11, <2>2, <3>3
    <3>4. CASE i # next /\ j # next
      BY <1>8, <2>2, <3>4 DEF LoopInv, TicketsOK, OrderOK
    <3>5. QED
      BY <3>2, <3>3, <3>4
  <2>3. QED
    BY <1>3, <2>1, <2>2 DEF OrderOK
<1>14. QED
  BY <1>3, <1>4, <1>9, <1>13 DEF TicketsOK

LEMMA OthersKeep ==
  ASSUME OwnTitles, LInv, Agree("title"), LoopInv, [Next]_vars, Others
  PROVE  LoopInv'
<1>1. LoopOK' /\ TicketsOK'
  BY OthersKeepTickets, ClientInsertKeeps, RowInsertKeeps
<1>2. CallOK'
  BY OthersKeepCall DEF LInv, LoopInv
<1>3. CountsOK'
  BY DEF Others, importVars, LoopInv, CountsOK, Behind, GoodRows
<1>4. QED
  BY <1>1, <1>2, <1>3 DEF LoopInv

-------------------------------------------------------------------------------
(* The tickets of an import.                                               *)

LEMMA PStep ==
  ASSUME OwnTitles
  PROVE  PInv /\ [ImportNext]_allVars => PInv'
<1> SUFFICES ASSUME PInv, [ImportNext]_allVars PROVE PInv'
  OBVIOUS
<1>1. LInv /\ IInv /\ AllSent /\ Agree("title") /\ LoopInv /\ [Next]_vars
  BY ImportStepIsStep DEF PInv, LInv, LoopInv
<1>2. LInv' /\ Agree("title")'
  BY <1>1, LStep, AgreeStep DEF OwnTitles, Plain
<1>3. LoopInv'
  <2>1. CASE UNCHANGED allVars
    BY <1>1, <2>1 DEF allVars, importVars, vars, tables, locals, LoopInv, LoopOK, CountsOK,
       CallOK, TicketsOK, RowOK, OrderOK, Behind, GoodRows, TicketOf, Inserted, One
  <2>2. QED
    BY <1>1, <2>1, RefuseFileKeeps, ParseFileKeeps, RefuseRowKeeps, RowCreatedKeeps,
       AnswerImportKeeps, CreateRowKeeps, CrashImportKeeps, OthersKeep DEF ImportNext
<1>4. QED
  BY <1>2, <1>3 DEF PInv, LoopInv

LEMMA InitImport == OwnTitles /\ ImportInit => PInv
<1> SUFFICES ASSUME OwnTitles, ImportInit PROVE PInv
  OBVIOUS
<1>1. LInv /\ Agree("title")
  BY InitSound, InitSent, InitAgree DEF ImportInit, LInv
<1>2. GoodRows = {} /\ Behind = {}
  BY DEF ImportInit, GoodRows, Behind
<1>3. LoopOK
  <2>1. Len(file) = 0
    BY EmptySeq DEF ImportInit
  <2>2. QED
    BY <2>1 DEF ImportInit, Init, LoopOK, Unread, OwnTitles, Foreign
<1>4. CountsOK
  BY <1>2, FS_EmptySet DEF ImportInit, CountsOK
<1>5. CallOK
  BY DEF ImportInit, Init, CallOK, Proc
<1>6. QED
  BY <1>1, <1>2, <1>3, <1>4, <1>5 DEF PInv, TicketsOK, OrderOK

LEMMA PrefixShows ==
  ASSUME PInv
  PROVE  ImportsPrefix
<1>1. LoopOK /\ CountsOK /\ TicketsOK /\ next \in Int /\ Len(file) \in Int
  BY FileFacts DEF PInv
<1>2. \A i \in GoodRows : i \in Int /\ i <= Len(file)
  BY <1>1, GoodRowInt
<1>3. \A i \in GoodRows : TicketOf(i) = {} \/ One(TicketOf(i))
  BY <1>1, <1>2 DEF TicketsOK, RowOK
<1>4. \A i \in GoodRows : Cardinality(TicketOf(i)) <= 1
  <2>1. \A S : One(S) => Cardinality(S) = 1
    BY FS_Singleton DEF One
  <2>2. QED
    BY <1>3, <2>1, FS_EmptySet
<1>5. ASSUME NEW i \in GoodRows, NEW j \in Imported, i < j
      PROVE  i \in Imported /\ \A t \in TicketOf(i), u \in TicketOf(j) : t < u
  <2>1. j \in GoodRows /\ TicketOf(j) # {} /\ j \in Int /\ i \in Int
    BY <1>2 DEF Imported
  <2>2. i < next
    BY <1>1, <1>5, <2>1 DEF TicketsOK, RowOK
  <2>3. One(TicketOf(i))
    BY <1>1, <2>2 DEF TicketsOK, RowOK
  <2>4. QED
    BY <1>1, <1>5, <2>1, <2>3 DEF TicketsOK, OrderOK, Imported, One
<1>6. Behind \subseteq Imported /\ Imported \subseteq Behind \cup {next}
  <2>1. ASSUME NEW i \in Behind PROVE i \in Imported
    BY <1>1 DEF Behind, Imported, TicketsOK, RowOK, One
  <2>2. ASSUME NEW i \in Imported PROVE i \in Behind \cup {next}
    BY <1>1, <1>2 DEF Behind, Imported, TicketsOK, RowOK
  <2>3. QED
    BY <2>1, <2>2
<1>7. /\ IsFiniteSet(Behind) /\ Cardinality(Behind) \in Nat
      /\ IsFiniteSet(Behind \cup {next}) /\ Cardinality(Behind \cup {next}) <= Cardinality(Behind) + 1
      /\ Cardinality(Behind \cup {next}) \in Nat
  BY <1>1, BehindFinite, FS_AddElement
<1>8. /\ Cardinality(Behind) <= Cardinality(Imported)
      /\ Cardinality(Imported) <= Cardinality(Behind \cup {next})
      /\ Cardinality(Imported) \in Nat
  <2>1. IsFiniteSet(Imported)
    BY <1>6, <1>7, FS_Subset
  <2>2. QED
    BY <1>6, <1>7, <2>1, FS_Subset, FS_CardinalityType
<1>9. created <= Cardinality(Imported) /\ Cardinality(Imported) <= created + 1
  BY <1>1, <1>7, <1>8 DEF CountsOK
<1>10. import = "200" => created = Cardinality(Imported) /\ created + failed = Len(file)
  <2> SUFFICES ASSUME import = "200"
               PROVE  created = Cardinality(Imported) /\ created + failed = Len(file)
    OBVIOUS
  <2>1. next = Len(file) + 1
    BY <1>1 DEF LoopOK
  <2>2. next \notin GoodRows
    BY <1>1, <1>2, <2>1
  <2>3. Imported = Behind
    BY <1>6, <2>2 DEF Imported
  <2>4. QED
    BY <1>1, <2>1, <2>3 DEF CountsOK
<1>11. QED
  BY <1>4, <1>5, <1>9, <1>10 DEF ImportsPrefix

LEMMA PInvariance ==
  ASSUME OwnTitles
  PROVE  ImportSpec => []PInv
<1>1. ImportInit => PInv
  BY InitImport
<1>2. PInv /\ [ImportNext]_allVars => PInv'
  BY PStep
<1>3. QED
  BY <1>1, <1>2, PTL DEF ImportSpec

\* Whatever handlers, runs of the job and crashes there are meanwhile, the tickets of
\* an import are those of the first good rows of the file, one each, in the order of
\* the file, and the counts it answers are true.
THEOREM ImportedTicketsArePrefix ==
  ASSUME OwnTitles
  PROVE  ImportSpec => []ImportsPrefix
<1>1. PInv => ImportsPrefix
  BY PrefixShows
<1>2. QED
  BY <1>1, PInvariance, PTL

\* An INSERT of a ticket is a step of the others: those of the loop write no table.
LEMMA OthersInsert ==
  ASSUME LInv, [ImportNext]_allVars, NEW r \in Request, CreateInsert(r)
  PROVE  Others /\ import' = import /\ file' = file /\ next' = next /\ call' = call
<1>1. tickets' # tickets
  BY InsertLocals DEF LInv, IInv, TypeOK, NextId
<1>2. Others
  BY <1>1, ImportMoves DEF vars, tables, Crash, CreateAssign
<1>3. QED
  BY <1>2 DEF Others, importVars

\* The row whose create is about to insert its ticket.
LEMMA RowAtCall ==
  ASSUME LoopInv, call \in Request, pc[call] = "insert"
  PROVE  /\ body[call] = file[next] /\ file \in CsvFiles /\ file[next] # Bad
         /\ next \in DOMAIN file /\ next \in GoodRows
<1>1. /\ import = "running" /\ next <= Len(file) /\ file[next] # Bad /\ body[call] = file[next]
      /\ LoopOK
  BY CsvAssumption DEF LoopInv, CallOK
<1>2. DOMAIN file = 1..Len(file) /\ next \in Nat /\ 1 <= next /\ Len(file) \in Nat
  BY <1>1, FileFacts DEF LoopOK
<1>3. QED
  BY <1>1, <1>2 DEF LoopOK, GoodRows

-------------------------------------------------------------------------------
(* The loads of the developers.                                            *)

LEMMA NothingReviving ==
  ASSUME NothingRevives, LInv, Agree("due"), [Next]_vars, NEW t \in Ticket,
         tickets[t] # NoRow, tickets[t].deleted, tickets[t].due = NoDate
  PROVE  tickets'[t].deleted
<1>1. IInv /\ TypeOK /\ AllSent
  BY DEF LInv, IInv
<1>2. ASSUME NEW r \in Request, CreateInsert(r) PROVE tickets'[t] = tickets[t]
  BY <1>1, <1>2, InsertLocals DEF NextId, TypeOK
<1>3. ASSUME NEW r \in Request, RowWrite(r) PROVE tickets'[t].deleted
  <2>1. ~UpdateWrite(r) /\ pc[r] # "undelete"
    BY <1>1 DEF NothingRevives, AllSent, Sent, UpdateWrite
  <2>2. PICK flag \in BOOLEAN :
          flag = TRUE /\ tickets' = [tickets EXCEPT ![target[r]] = Marked(tickets[target[r]], flag)]
    BY <1>1, <1>3, <2>1, MarkWriteLocals DEF RowWrite
  <2>3. CASE target[r] = t
    BY <1>1, <2>2, <2>3 DEF TypeOK, Marked, Row
  <2>4. CASE target[r] # t
    BY <1>1, <2>2, <2>4 DEF TypeOK
  <2>5. QED
    BY <2>3, <2>4
<1>4. ASSUME NEW k \in Run, EscalateWrite(k) PROVE tickets'[t] = tickets[t]
  <2>1. pc[k] = "write" /\ loaded[k].due # NoDate /\ loaded[k].due = tickets[target[k]].due
    BY <1>1, <1>4 DEF IInv, HandlersSound, RunSound, IsLate, EscalateWrite, Agree, RunAgrees
  <2>2. target[k] # t
    BY <2>1
  <2>3. QED
    BY <1>1, <1>4, <2>2, EscalateWriteLocals DEF TypeOK
<1>5. QED
  BY <1>2, <1>3, <1>4, TicketWrites

\* What stays of a ticket that is there.
LEMMA RowKeeps ==
  ASSUME NothingRevives, SInv, [Next]_vars, NEW t \in Ticket, tickets[t] # NoRow
  PROVE  /\ tickets'[t] # NoRow /\ tickets'[t].project = tickets[t].project
         /\ \A c \in Plain : tickets'[t][c] = tickets[t][c]
<1>1. IInv /\ AllSent
  BY DEF SInv, PInv, LInv
<1>2. \A c \in Plain : Fixed(c)
  BY <1>1, FixedStep DEF SInv, NothingRevives, Keeps
<1>3. CASE UNCHANGED tickets
  BY <1>3
<1>4. CASE ~UNCHANGED tickets
  <2>1. (\E r \in Request : RequestCall(r) \/ RequestStep(r))
        \/ (\E k \in Run : EscalateScan(k) \/ EscalationStep(k))
    BY <1>4, TicketWrites DEF RowWrite, RequestStep, TicketStep, EscalationStep
  <2>2. Grow
    BY <1>1, <2>1, RequestStepIsSound, RunStepIsSound DEF RequestStepSound, RunStepSound
  <2>3. QED
    BY <1>2, <2>2 DEF Grow, Fixed
<1>5. QED
  BY <1>2, <1>3, <1>4 DEF Fixed

\* A ticket that was there is of the same row as before.
LEMMA OldTicketOf ==
  ASSUME NothingRevives, SInv, [ImportNext]_allVars, NEW t \in Ticket, tickets[t] # NoRow,
         NEW i \in GoodRows', t \in TicketOf(i)'
  PROVE  i \in GoodRows /\ t \in TicketOf(i) /\ file' = file
<1>1. tickets'[t] # NoRow /\ tickets'[t].title = tickets[t].title
  <2>1. [Next]_vars /\ "title" \in Plain
    BY ImportStepIsStep DEF Plain
  <2>2. QED
    BY <2>1, RowKeeps
<1>2. tickets'[t].title = file'[i].title /\ i \in DOMAIN file' /\ file'[i] # Bad
  BY DEF TicketOf, GoodRows
<1>3. CASE ParseFile
  <2>1. Foreign(tickets[t].title) /\ file' \in CsvFiles
    BY <1>3 DEF ParseFile, SInv, PInv, LoopOK
  <2>2. QED
    BY <1>1, <1>2, <2>1 DEF Foreign
<1>4. CASE file' = file
  BY <1>1, <1>2, <1>4 DEF TicketOf, GoodRows
<1>5. QED
  BY <1>3, <1>4 DEF ImportNext, RefuseFile, RefuseRow, CreateRow, RowCreated, AnswerImport,
     CrashImport, Others, allVars, importVars

LEMMA UndatedStep ==
  ASSUME OwnTitles, NothingRevives, SInv, [ImportNext]_allVars
  PROVE  Undated'
<1>0. [Next]_vars /\ LInv /\ LoopInv /\ LoopOK
  BY ImportStepIsStep DEF SInv, PInv, LoopInv
<1> SUFFICES ASSUME NEW i \in GoodRows', NEW t \in TicketOf(i)' PROVE tickets'[t].due = NoDate
  BY DEF Undated
<1>1. t \in Ticket /\ tickets'[t] # NoRow
  BY DEF TicketOf
<1>2. CASE tickets[t] # NoRow
  <2>1. i \in GoodRows /\ t \in TicketOf(i)
    BY <1>1, <1>2, OldTicketOf
  <2>2. tickets'[t]["due"] = tickets[t]["due"]
    BY <1>0, <1>1, <1>2, RowKeeps DEF Plain
  <2>3. QED
    BY <2>1, <2>2 DEF SInv, Undated
<1>3. CASE tickets[t] = NoRow
  <2>1. PICK r \in Request : CreateInsert(r)
    BY <1>0, <1>1, <1>3, NoNewRow DEF LInv
  <2>2. Others /\ file' = file
    BY <1>0, <2>1, OthersInsert
  <2>3. i \in GoodRows
    BY <2>2 DEF GoodRows
  <2>4. t \notin TicketOf(i)
    BY <1>3 DEF TicketOf
  <2>5. r = call
    BY <1>0, <2>1, <2>2, <2>3, <2>4, ClientInsertKeeps
  <2>6. body[r] = file[next] /\ next \in DOMAIN file /\ file \in CsvFiles /\ file[next] # Bad
    BY <1>0, <2>1, <2>5, RowAtCall DEF CreateInsert
  <2>7. Sent(r) /\ pc[r] = "insert"
    BY <1>0, <2>1 DEF LInv, AllSent, CreateInsert
  <2>8. loaded[r].due = Given(body[r].due, NoDate)
    BY <2>7 DEF Sent, NewRow
  <2>9. loaded[r].due = NoDate
    BY <2>6, <2>8 DEF NothingRevives, Given
  <2>10. tickets'[t] = loaded[r]
    BY <1>0, <1>1, <1>3, <2>1, InsertTitles
  <2>11. QED
    BY <2>9, <2>10
<1>4. QED
  BY <1>2, <1>3

\* What keeps the tickets of a project from being those of the file alone stays.
LEMMA SpreadOnlyBefore ==
  ASSUME NothingRevives, SInv, [ImportNext]_allVars, NEW p \in Project, SpreadOnly(p)'
  PROVE  SpreadOnly(p)
<1> SUFFICES ASSUME NEW t \in Ticket, tickets[t] # NoRow, tickets[t].project = p,
                    tickets[t].assignee # NoUser
             PROVE  /\ ~tickets[t].deleted
                    /\ \E i \in Imported : t \in TicketOf(i) /\ AutoAssigned(file[i])
  BY DEF SpreadOnly
<1>1. [Next]_vars /\ LInv /\ Agree("due")
  BY ImportStepIsStep DEF SInv, PInv, Plain
<1>2. /\ tickets'[t] # NoRow /\ tickets'[t].project = tickets[t].project
      /\ tickets'[t]["assignee"] = tickets[t]["assignee"]
  BY <1>1, RowKeeps DEF Plain
<1>3. ~tickets'[t].deleted /\ \E i \in Imported' : t \in TicketOf(i)' /\ AutoAssigned(file'[i])
  BY <1>2 DEF SpreadOnly, AutoAssigned
<1>4. PICK i \in Imported' : t \in TicketOf(i)' /\ AutoAssigned(file'[i])
  BY <1>3
<1>5. i \in GoodRows'
  BY DEF Imported
<1>6. i \in GoodRows /\ t \in TicketOf(i) /\ file' = file
  BY <1>4, <1>5, OldTicketOf
<1>7. ~tickets[t].deleted
  BY <1>1, <1>3, <1>6, NothingReviving DEF SInv, Undated
<1>8. QED
  BY <1>4, <1>6, <1>7 DEF Imported, AutoAssigned

\* The tickets that count as load and were there before the step.
LEMMA OpenTicketsStay ==
  ASSUME NothingRevives, SInv, [ImportNext]_allVars, NEW p \in Project,
         SpreadOnly(p), SpreadOnly(p)', NEW u \in Developer, NEW t \in Ticket, tickets[t] # NoRow
  PROVE  t \in OpenTickets(u, p)' <=> t \in OpenTickets(u, p)
<1>1. [Next]_vars
  BY ImportStepIsStep
<1>2. /\ tickets'[t] # NoRow /\ tickets'[t].project = tickets[t].project
      /\ tickets'[t]["assignee"] = tickets[t]["assignee"]
      /\ tickets'[t]["status"] = tickets[t]["status"]
  BY <1>1, RowKeeps DEF Plain
<1>3. u # NoUser
  BY IdAssumption, NullAssumption
<1>4. tickets[t].assignee = u /\ tickets[t].project = p => ~tickets[t].deleted /\ ~tickets'[t].deleted
  BY <1>2, <1>3 DEF SpreadOnly
<1>5. QED
  BY <1>2, <1>4 DEF OpenTickets, Visible, IsLive

\* Without an INSERT of an assigned ticket of the project, the loads stay.
LEMMA LoadsStay ==
  ASSUME NothingRevives, SInv, [ImportNext]_allVars, NEW p \in Project,
         SpreadOnly(p), SpreadOnly(p)',
         \A r \in Request : CreateInsert(r) =>
           ~(loaded[r].project = p /\ loaded[r].assignee \in Developer),
         NEW u \in Developer
  PROVE  Load(u, p)' = Load(u, p)
<1>1. ASSUME NEW t \in Ticket, tickets[t] = NoRow PROVE t \notin OpenTickets(u, p)'
  <2>1. CASE tickets'[t] = NoRow
    BY <2>1 DEF OpenTickets, Visible, IsLive
  <2>2. CASE tickets'[t] # NoRow
    <3>0. LInv /\ IInv /\ [Next]_vars
      BY ImportStepIsStep DEF SInv, PInv, LInv
    <3>1. PICK r \in Request : CreateInsert(r)
      BY <1>1, <2>2, <3>0, NoNewRow
    <3>2. tickets'[t] = loaded[r]
      BY <1>1, <2>2, <3>0, <3>1, InsertTitles
    <3>3. QED
      BY <3>1, <3>2 DEF OpenTickets
  <2>3. QED
    BY <2>1, <2>2
<1>2. \A t \in Ticket : tickets[t] = NoRow => t \notin OpenTickets(u, p)
  BY DEF OpenTickets, Visible, IsLive
<1>3. OpenTickets(u, p)' \subseteq Ticket /\ OpenTickets(u, p) \subseteq Ticket
  BY DEF OpenTickets
<1>4. OpenTickets(u, p)' = OpenTickets(u, p)
  BY <1>1, <1>2, <1>3, OpenTicketsStay
<1>5. QED
  BY <1>4 DEF Load

\* An INSERT raises the load of the assignee by one at most, and no other.
LEMMA InsertLoads ==
  ASSUME NothingRevives, SInv, [ImportNext]_allVars, NEW p \in Project,
         SpreadOnly(p), SpreadOnly(p)', NEW r \in Request, CreateInsert(r), NEW u \in Developer
  PROVE  /\ u # loaded[r].assignee => Load(u, p)' = Load(u, p)
         /\ Load(u, p)' \in {Load(u, p), Load(u, p) + 1}
<1>0. LInv
  BY DEF SInv, PInv
<1>1. PICK t \in Ticket : /\ tickets[t] = NoRow /\ tickets'[t] = loaded[r]
                          /\ \A v \in Ticket \ {t} : tickets'[v] = tickets[v]
  BY <1>0, InsertTitles
<1>2. \A v \in Ticket : v # t => (v \in OpenTickets(u, p)' <=> v \in OpenTickets(u, p))
  BY <1>1 DEF OpenTickets, Visible, IsLive
<1>3. t \notin OpenTickets(u, p)
  BY <1>1 DEF OpenTickets, Visible, IsLive
<1>4. OpenTickets(u, p)' \subseteq Ticket /\ OpenTickets(u, p) \subseteq Ticket
  BY DEF OpenTickets
<1>5. u # loaded[r].assignee => t \notin OpenTickets(u, p)'
  BY <1>1 DEF OpenTickets
<1>6. OpenTickets(u, p)' = OpenTickets(u, p) \/ OpenTickets(u, p)' = OpenTickets(u, p) \cup {t}
  BY <1>2, <1>3, <1>4
<1>7. u # loaded[r].assignee => OpenTickets(u, p)' = OpenTickets(u, p)
  BY <1>2, <1>3, <1>4, <1>5
<1>8. IsFiniteSet(OpenTickets(u, p))
  <2>1. OpenTickets(u, p) \in SUBSET Ticket
    BY <1>4
  <2>2. QED
    BY <2>1, FS_Subset, FiniteAssumption
<1>9. QED
  BY <1>3, <1>6, <1>7, <1>8, FS_AddElement DEF Load

\* Which ticket an INSERT may add to a project of the file alone: that of the row the
\* loop is at, to the developer with the least load.
LEMMA SpreadInsert ==
  ASSUME OwnTitles, SInv, [ImportNext]_allVars, NEW p \in Project,
         SpreadOnly(p), SpreadOnly(p)', NEW r \in Request, CreateInsert(r),
         loaded[r].project = p, loaded[r].assignee \in Developer
  PROVE  /\ r = call /\ call' = call /\ pc'[call] # "insert"
         /\ \A v \in Developer : Load(loaded[r].assignee, p) <= Load(v, p)
<1>1. /\ [Next]_vars /\ LInv /\ IInv /\ LoopInv /\ LoopOK
      /\ Others /\ file' = file /\ call' = call
  BY ImportStepIsStep, OthersInsert DEF SInv, PInv, LInv, LoopInv
<1>2. PICK t \in Ticket :
        /\ tickets[t] = NoRow /\ tickets'[t] = loaded[r] /\ loaded[r] # NoRow
        /\ loaded[r].title = body[r].title
  BY <1>1, InsertTitles
<1>3. loaded[r].assignee # NoUser
  BY IdAssumption, NullAssumption
<1>4. PICK i \in Imported' : t \in TicketOf(i)' /\ AutoAssigned(file'[i])
  BY <1>2, <1>3 DEF SpreadOnly, AutoAssigned
<1>5. i \in GoodRows /\ t \notin TicketOf(i) /\ file[i].title = loaded[r].title
  BY <1>1, <1>2, <1>4 DEF Imported, GoodRows, TicketOf
<1>6. r = call
  BY <1>1, <1>4, <1>5, ClientInsertKeeps
<1>7. /\ body[call] = file[next] /\ file \in CsvFiles /\ file[next] # Bad
      /\ next \in DOMAIN file /\ pc[call] = "insert"
  BY <1>1, <1>6, RowAtCall DEF CreateInsert
<1>8. i = next
  BY <1>2, <1>5, <1>6, <1>7 DEF OwnTitles, GoodRows
<1>9. LogsAssignment(call)
  BY <1>1, <1>3, <1>4, <1>6, <1>7, <1>8 DEF LogsAssignment, AutoAssigned
<1>10. pc'[call] # "insert"
  BY <1>1, <1>6, <1>7, CreateGoesOn DEF RequestStep, TicketStep
<1>11. call # NoCall
  BY <1>6, CsvAssumption
<1>12. QED
  BY <1>1, <1>6, <1>7, <1>9, <1>10, <1>11 DEF SInv, Spread

\* The create a row starts has read the loads; later ones have not changed them.
LEMMA LeastLoadedStays ==
  ASSUME NothingRevives, SInv, [ImportNext]_allVars, NEW p \in Project, Spread(p),
         \A u \in Developer : Load(u, p)' = Load(u, p),
         call' # NoCall, pc'[call'] = "insert", loaded'[call'].project = p,
         LogsAssignment(call)', NEW v \in Developer
  PROVE  \E a \in Developer : a = loaded'[call'].assignee /\ Load(a, p)' <= Load(v, p)'
<1>1. /\ [Next]_vars /\ LInv /\ IInv /\ TypeOK /\ LInv' /\ IInv' /\ LoopInv
  BY ImportStepIsStep, LStep DEF SInv, PInv, LInv, IInv, LoopInv
<1>2. CASE \E r \in Request : CreateAssign(r) /\ call' = r
  <2>1. PICK r \in Request : CreateAssign(r) /\ call' = r
    BY <1>2
  <2>2. LoadCurrent(r)'
    BY <1>1, <2>1, CreateAssignCurrent DEF RequestCurrent
  <2>3. LogsAssignment(r)'
    BY <2>1 DEF LogsAssignment, AutoAssigned
  <2>4. LeastLoaded(loaded[r].assignee, loaded[r].project)'
    BY <2>1, <2>2, <2>3 DEF LoadCurrent
  <2>5. PICK a : a = loaded'[r].assignee
    OBVIOUS
  <2>6. a \in Developer /\ (Load(a, p)' < Load(v, p)' \/ Load(a, p)' = Load(v, p)')
    BY <2>1, <2>4, <2>5 DEF LeastLoaded, Load, OpenTickets, Visible
  <2>7. Load(a, p)' = Load(a, p) /\ Load(a, p) \in Nat /\ Load(v, p)' = Load(v, p)
        /\ Load(v, p) \in Nat
    BY <2>6, WorkloadIsLoad
  <2>8. QED
    BY <2>1, <2>5, <2>6, <2>7
<1>3. CASE Others
  <2>1. /\ call' = call /\ call \in Request /\ pc[call] \in {"insert", "logAssign", "200"}
        /\ call # NoCall
    BY <1>1, <1>3 DEF Others, importVars, LoopInv, CallOK
  <2>2. pc[call] = "insert" /\ body'[call] = body[call] /\ loaded'[call] = loaded[call]
    BY <1>1, <1>3, <2>1, OthersRequest
  <2>3. LogsAssignment(call)
    BY <2>1, <2>2 DEF LogsAssignment, AutoAssigned
  <2>4. Load(loaded[call].assignee, p) <= Load(v, p)
    BY <2>1, <2>2, <2>3 DEF Spread
  <2>5. loaded[call].assignee \in Developer
    BY <1>1, <2>1, <2>2, <2>3 DEF LInv, AllSent, Sent, LogsAssignment
  <2>6. QED
    BY <2>1, <2>2, <2>4, <2>5
<1>4. CASE UNCHANGED allVars
  <2>1. call \in Request /\ call' = call /\ pc' = pc /\ loaded' = loaded /\ body' = body
    BY <1>1, <1>4 DEF allVars, vars, locals, importVars, LoopInv, CallOK
  <2>2. LogsAssignment(call)
    BY <2>1 DEF LogsAssignment, AutoAssigned
  <2>3. Load(loaded[call].assignee, p) <= Load(v, p)
    BY <2>1, <2>2 DEF Spread
  <2>4. loaded[call].assignee \in Developer
    BY <1>1, <2>1, <2>2 DEF LInv, AllSent, Sent, LogsAssignment
  <2>5. QED
    BY <2>1, <2>3, <2>4
<1>5. CASE RefuseFile \/ ParseFile \/ RefuseRow \/ RowCreated \/ AnswerImport \/ CrashImport
  BY <1>1, <1>5 DEF RefuseFile, ParseFile, RefuseRow, AtRow, RowCreated, AnswerImport,
     CrashImport, LoopInv, CallOK
<1>6. QED
  BY <1>2, <1>3, <1>4, <1>5 DEF ImportNext, CreateRow

LEMMA SpreadStep ==
  ASSUME OwnTitles, NothingRevives, SInv, [ImportNext]_allVars, NEW p \in Project, SpreadOnly(p)'
  PROVE  Spread(p)'
<1>1. SpreadOnly(p) /\ Spread(p)
  BY SpreadOnlyBefore DEF SInv
<1>2. \A u \in Developer : Load(u, p) \in Nat
  BY WorkloadIsLoad
<1>3. CASE \E r \in Request : CreateInsert(r) /\ loaded[r].project = p /\ loaded[r].assignee \in Developer
  <2>1. PICK r \in Request :
          CreateInsert(r) /\ loaded[r].project = p /\ loaded[r].assignee \in Developer
    BY <1>3
  <2>2. PICK a \in Developer : a = loaded[r].assignee
    BY <2>1
  <2>3. \A v \in Developer : Load(a, p) <= Load(v, p)
    BY <1>1, <2>1, <2>2, SpreadInsert
  <2>4. \A u \in Developer : /\ u # a => Load(u, p)' = Load(u, p)
                             /\ Load(u, p)' \in {Load(u, p), Load(u, p) + 1}
    BY <1>1, <2>1, <2>2, InsertLoads
  <2>5. ASSUME NEW u \in Developer, NEW v \in Developer PROVE Load(u, p)' <= Load(v, p)' + 1
    <3>1. Load(u, p) <= Load(v, p) + 1 /\ Load(a, p) <= Load(v, p)
      BY <1>1, <2>3 DEF Spread
    <3>2. CASE u = a
      BY <1>2, <2>4, <3>1, <3>2
    <3>3. CASE u # a
      BY <1>2, <2>4, <3>1, <3>3
    <3>4. QED
      BY <3>2, <3>3
  <2>6. pc'[call'] # "insert"
    BY <1>1, <2>1, SpreadInsert
  <2>7. QED
    BY <2>5, <2>6 DEF Spread
<1>4. CASE \A r \in Request : CreateInsert(r) =>
             ~(loaded[r].project = p /\ loaded[r].assignee \in Developer)
  <2>1. \A u \in Developer : Load(u, p)' = Load(u, p)
    BY <1>1, <1>4, LoadsStay
  <2>2. \A u, v \in Developer : Load(u, p)' <= Load(v, p)' + 1
    BY <1>1, <2>1 DEF Spread
  <2>3. ASSUME call' # NoCall, pc'[call'] = "insert", loaded'[call'].project = p,
               LogsAssignment(call)', NEW v \in Developer
        PROVE  Load(loaded[call].assignee, p)' <= Load(v, p)'
    <3>1. PICK a \in Developer : a = loaded'[call'].assignee /\ Load(a, p)' <= Load(v, p)'
      BY <1>1, <2>1, <2>3, LeastLoadedStays
    <3>2. QED
      BY <3>1 DEF Load, OpenTickets, Visible
  <2>4. QED
    BY <2>2, <2>3 DEF Spread
<1>5. QED
  BY <1>3, <1>4

LEMMA SStep ==
  ASSUME OwnTitles, NothingRevives
  PROVE  SInv /\ [ImportNext]_allVars => SInv'
<1> SUFFICES ASSUME SInv, [ImportNext]_allVars PROVE SInv'
  OBVIOUS
<1>1. PInv /\ IInv /\ AllSent /\ [Next]_vars
  BY ImportStepIsStep DEF SInv, PInv, LInv
<1>2. PInv'
  BY <1>1, PStep
<1>3. \A c \in Plain : Agree(c)'
  BY <1>1, AgreeStep DEF SInv, NothingRevives, Keeps
<1>4. QED
  BY <1>2, <1>3, UndatedStep, SpreadStep DEF SInv

LEMMA InitSpread == OwnTitles /\ ImportInit => SInv
<1> SUFFICES ASSUME OwnTitles, ImportInit PROVE SInv
  OBVIOUS
<1>1. PInv
  BY InitImport
<1>2. \A c \in Plain : Agree(c)
  BY InitAgree DEF ImportInit
<1>3. GoodRows = {}
  BY DEF ImportInit, GoodRows
<1>4. Undated
  BY <1>3 DEF Undated
<1>5. ASSUME NEW p \in Project, SpreadOnly(p) PROVE Spread(p)
  <2>1. \A u \in Developer : OpenTickets(u, p) = {}
    BY <1>3, <1>5, IdAssumption, NullAssumption
    DEF SpreadOnly, Imported, OpenTickets, Visible, IsLive
  <2>2. \A u \in Developer : Load(u, p) = 0
    BY <2>1, FS_EmptySet DEF Load
  <2>3. call = NoCall
    BY DEF ImportInit
  <2>4. QED
    BY <2>2, <2>3 DEF Spread
<1>6. QED
  BY <1>1, <1>2, <1>4, <1>5 DEF SInv

LEMMA SpreadShows ==
  ASSUME SInv
  PROVE  ImportSpreads
BY DEF SInv, ImportSpreads, Spread

\* An import spreads its tickets evenly although clients create, link and delete
\* tickets, the job runs and the process may crash between its reading of the loads
\* and its INSERT: as long as nothing brings a deleted ticket back.
THEOREM ImportSpreadsLoad ==
  ASSUME OwnTitles, NothingRevives
  PROVE  ImportSpec => []ImportSpreads
<1>1. ImportInit => SInv
  BY InitSpread
<1>2. SInv /\ [ImportNext]_allVars => SInv'
  BY SStep
<1>3. SInv => ImportSpreads
  BY SpreadShows
<1>4. QED
  BY <1>1, <1>2, <1>3, PTL DEF ImportSpec
===============================================================================

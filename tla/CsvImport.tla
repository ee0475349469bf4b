------------------------------- MODULE CsvImport -------------------------------
(***************************************************************************)
(* TicketsService.importCsv on top of the ticket services: the rows of a   *)
(* file are checked and created one after the other, each by a full run of *)
(* create, while clients, the escalation job and crashes go on.  A slot of *)
(* Request serves as the activation of each create.                        *)
(***************************************************************************)
EXTENDS TicketSystem, Sequences

CONSTANTS
  CsvFiles,    \* uploaded files: a row is the body of a create, or Bad
  ClientDtos,  \* the bodies that clients post themselves
  Bad,         \* a row that is refused: no title, an unknown value, no such user
  NoCall

ASSUME CsvAssumption ==
  /\ CsvFiles \subseteq Seq(CreateDtos \cup {Bad}) /\ Bad \notin CreateDtos
  /\ NoCall \notin Request /\ ClientDtos \subseteq CreateDtos

VARIABLES
  import,   \* the request POST /tickets/import
  file,     \* its parsed rows
  next,     \* the row it is at
  call,     \* the create it waits for
  created,  \* rows created so far
  failed    \* rows refused so far

importVars == <<import, file, next, call, created, failed>>
allVars    == <<vars, importVars>>

ImportInit ==
  /\ Init
  /\ import = "ready" /\ file = <<>> /\ next = 1
  /\ call = NoCall /\ created = 0 /\ failed = 0

\* No file, one that is no CSV, or a project that is no number; csvParse throws.
RefuseFile ==
  /\ import = "ready"
  /\ import' \in {"400", "500"}
  /\ UNCHANGED <<vars, file, next, call, created, failed>>

\* The rows csvParse returns.
ParseFile ==
  /\ import = "ready"
  /\ \E f \in CsvFiles : file' = f
  /\ import' = "running"
  /\ UNCHANGED <<vars, next, call, created, failed>>

\* The loop is at a row that has not been looked at.
AtRow == import = "running" /\ call = NoCall /\ next <= Len(file)

\* Mutant of RefuseRow: the loop goes on without failed++.
SkipRow ==
  /\ AtRow /\ file[next] = Bad
  /\ next' = next + 1
  /\ UNCHANGED <<vars, import, file, call, created, failed>>

RefuseRow ==
  /\ AtRow /\ file[next] = Bad
  /\ failed' = failed + 1 /\ next' = next + 1
  /\ UNCHANGED <<vars, import, file, call, created>>

\* Mutant of CreateRow: this.create(dto) is not awaited.
CreateRowUnawaited ==
  /\ AtRow
  /\ \E r \in Request : CreateAssign(r) /\ body'[r] = file[next]
  /\ created' = created + 1 /\ next' = next + 1
  /\ UNCHANGED <<import, file, call, failed>>

\* await this.create(dto)
CreateRow ==
  /\ AtRow
  /\ \E r \in Request : CreateAssign(r) /\ body'[r] = file[next] /\ call' = r
  /\ UNCHANGED <<import, file, next, created, failed>>

RowCreated ==
  /\ import = "running" /\ call # NoCall /\ pc[call] = "200"
  /\ created' = created + 1 /\ next' = next + 1 /\ call' = NoCall
  /\ UNCHANGED <<vars, import, file, failed>>

AnswerImport ==
  /\ import = "running" /\ call = NoCall /\ next > Len(file)
  /\ import' = "200"
  /\ UNCHANGED <<vars, file, next, call, created, failed>>

CrashImport ==
  /\ Crash
  /\ import' = IF import = "running" THEN "lost" ELSE import
  /\ call' = NoCall
  /\ UNCHANGED <<file, next, created, failed>>

\* The other handlers; clients create tickets of their own.
Others ==
  /\ \/ \E r \in Request :
          RequestStep(r) \/ (RequestCall(r) /\ (pc'[r] = "insert" => body'[r] \in ClientDtos))
     \/ \E k \in Run : EscalateScan(k) \/ EscalationStep(k)
     \/ Tick
  /\ UNCHANGED importVars

ImportNext ==
  \/ RefuseFile \/ ParseFile \/ RefuseRow \/ CreateRow \/ RowCreated \/ AnswerImport
  \/ CrashImport \/ Others

ImportSpec == ImportInit /\ [][ImportNext]_allVars

-------------------------------------------------------------------------------
(* Properties, and what they suppose of files and clients.                 *)

\* Titles tell the tickets of an import from one another and from all others: the
\* rows of a file have different ones, no client and no earlier ticket uses them,
\* and no PATCH changes a title.
OwnTitles ==
  /\ Keeps("title")
  /\ \A f \in CsvFiles : \A i, j \in DOMAIN f :
       f[i] # Bad /\ f[j] # Bad /\ f[i].title = f[j].title => i = j
  /\ \A f \in CsvFiles : \A i \in DOMAIN f : f[i] # Bad =>
       /\ \A d \in ClientDtos : d.title # f[i].title
       /\ \A tt \in InitTickets : \A t \in Ticket : tt[t] # NoRow => tt[t].title # f[i].title

GoodRows    == {i \in DOMAIN file : file[i] # Bad}
TicketOf(i) == {t \in Ticket : tickets[t] # NoRow /\ tickets[t].title = file[i].title}
Imported    == {i \in GoodRows : TicketOf(i) # {}}

\* Under OwnTitles, whatever happens meanwhile, also after a crash, the tickets of an import are
\* those of its first good rows, one each, with ids in the order of the file; the
\* counts it answers are those of the tickets there are and the rows refused.
ImportsPrefix ==
  /\ \A i \in GoodRows : Cardinality(TicketOf(i)) <= 1
  /\ \A i \in GoodRows, j \in Imported : i < j =>
       i \in Imported /\ \A t \in TicketOf(i), u \in TicketOf(j) : t < u
  /\ created <= Cardinality(Imported) /\ Cardinality(Imported) <= created + 1
  /\ import = "200" => created = Cardinality(Imported) /\ created + failed = Len(file)

\* Tickets of an import stay deleted once they are: no PATCH and no restore, and no
\* date, so that the job leaves them alone.
NothingRevives ==
  /\ "update" \notin Operation /\ "restore" \notin Operation
  /\ \A f \in CsvFiles : \A i \in DOMAIN f : f[i] # Bad => f[i].due \in {Absent, NoDate}

\* Under NothingRevives an import spreads its tickets: in a project whose assigned
\* tickets all come from unassigned rows of the file and are still there, the
\* loads of two developers differ by one at most.
SpreadOnly(p) ==
  \A t \in Ticket : tickets[t] # NoRow /\ tickets[t].project = p /\ tickets[t].assignee # NoUser =>
    /\ ~tickets[t].deleted
    /\ \E i \in Imported : t \in TicketOf(i) /\ AutoAssigned(file[i])

ImportSpreads ==
  \A p \in Project : SpreadOnly(p) =>
    \A u, v \in Developer : Load(u, p) <= Load(v, p) + 1
===============================================================================

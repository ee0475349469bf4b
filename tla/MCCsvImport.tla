------------------------------ MODULE MCCsvImport ------------------------------
(***************************************************************************)
(* Values of the constants of CsvImport for the run: a ticket only the job *)
(* works on, from LOW; a file of unassigned rows with one that is refused  *)
(* between them, one with a row for the administrator 3; and a client that *)
(* posts a ticket of its own.                                              *)
(***************************************************************************)
EXTENDS CsvImport, TLC

RequestSymmetry == Permutations(Request)

LateRow == [project |-> 1, title |-> "old", status |-> TODO, priority |-> LOW, due |-> 0,
         overdue |-> FALSE, assignee |-> NoUser, version |-> 1, deleted |-> FALSE]

LateTicket == { [t \in Ticket |-> IF t = 1 THEN LateRow ELSE NoRow] }

Titled(title, assignee) ==
  [project |-> 1, version |-> Absent, title |-> title, status |-> Absent,
   priority |-> Absent, due |-> Absent, assignee |-> assignee]

Files   == {<<Titled("a", Absent), Bad, Titled("b", Absent)>>,
            <<Titled("a", 3), Titled("b", Absent)>>}
Clients == {Titled("new", Absent)}
Creates == Clients \cup {Titled("a", Absent), Titled("a", 3), Titled("b", Absent)}
None    == {}
NoLinks == {{}}

\* The instance meets the hypotheses of the theorems about the log and the import.
ASSUME Suitable == OnlyJobEscalates /\ OnlyAutoAssigns /\ OwnTitles /\ NothingRevives
===============================================================================

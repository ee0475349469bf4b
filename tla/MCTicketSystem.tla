---------------------------- MODULE MCTicketSystem -----------------------------
(***************************************************************************)
(* Values of the constants of TicketSystem for the runs.                   *)
(***************************************************************************)
EXTENDS TicketSystem, TLC

RequestSymmetry == Permutations(Request)

\* A row as POST /tickets inserts it.
Fresh(project, status, priority, due, assignee) ==
  [project |-> project, title |-> "old", status |-> status, priority |-> priority,
   due |-> due, overdue |-> FALSE, assignee |-> assignee, version |-> 1, deleted |-> FALSE]

\* A body with no field given, to be completed.
Empty == [project |-> Absent, version |-> Absent, title |-> Absent, status |-> Absent,
          priority |-> Absent, due |-> Absent, assignee |-> Absent]

Retitle         == [Empty EXCEPT !.title = "new"]
RetitleAt(v)    == [Empty EXCEPT !.title = "new", !.version = v]
MoveTo(status)  == [Empty EXCEPT !.status = status]
Prioritise(lvl) == [Empty EXCEPT !.priority = lvl]
NewTicket(p)    == [Empty EXCEPT !.project = p, !.title = "new"]

-------------------------------------------------------------------------------
\* serial: a late ticket in review, a ticket about to be late, ids left for creates.
SerialTickets == { [t \in Ticket |->
  CASE t = 1 -> Fresh(1, IN_REVIEW, HIGH, 0, 1)
    [] t = 2 -> Fresh(1, IN_REVIEW, LOW, NoDate, NoUser)
    [] OTHER -> NoRow] }
SerialUpdates == {[MoveTo(DONE) EXCEPT !.version = 1], MoveTo(DONE), Prioritise(MEDIUM),
                  RetitleAt(1)}
SerialCreates == {NewTicket(1), [NewTicket(2) EXCEPT !.status = IN_REVIEW, !.assignee = 1]}

\* overlap: a late ticket everybody works on, and one of the same or of another
\* project that may block it.
OverlapTickets == { [t \in Ticket |-> IF t = 1 THEN Fresh(1, IN_REVIEW, HIGH, 0, NoUser)
                                      ELSE Fresh(p, IN_REVIEW, LOW, NoDate, NoUser)] : p \in Project }
OverlapUpdates == {MoveTo(DONE), Prioritise(MEDIUM), RetitleAt(1)}

\* two tickets in review of one project.
LinkTickets == { [t \in Ticket |-> Fresh(1, IN_REVIEW, LOW, NoDate, NoUser)] }
SeedLink    == { {[id |-> Seed, blocked |-> 1, blocker |-> 2]} }
NoLinks     == {{}}
SerialLinks == { {}, {[id |-> Seed, blocked |-> 2, blocker |-> 1]} }

Untouched == {Retitle}

\* bodies of single scenarios
Finish           == {MoveTo(DONE)}
VersionedUpdates == {RetitleAt(1), [Prioritise(LOW) EXCEPT !.version = 1]}
None        == {}
===============================================================================

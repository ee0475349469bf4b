------------------------------ MODULE TicketBoard ------------------------------
(***************************************************************************)
(* What the ticket services promise, every operation being one step: the   *)
(* status lifecycle, the DONE gate, the final DONE, soft delete, restore,  *)
(* well-formed dependencies and one-level escalation of overdue tickets.   *)
(* Handlers, statements, bodies and the cron job are not mentioned.        *)
(***************************************************************************)
EXTENDS Integers

CONSTANTS Ticket, NoRow, NoDate, Board0, Links0

TODO     == 0
DONE     == 3
LOW      == 0
CRITICAL == 3

VARIABLES tickets, deps, now

board == <<tickets, deps>>

Live(t)           == tickets[t] # NoRow /\ ~tickets[t].deleted
Only(t)           == \A u \in Ticket \ {t} : tickets'[u] = tickets[u]
Blocks(b, t)      == \E d \in deps : d.blocked = t /\ d.blocker = b
BlockersDone(t)   == \A b \in Ticket : Blocks(b, t) => Live(b) /\ tickets[b].status = DONE
NextVersion(t)    == tickets'[t].version = tickets[t].version + 1
SameProject(t)    == tickets'[t].project = tickets[t].project

\* A new ticket: any body, version 1, neither overdue nor deleted.
Create(t) ==
  /\ tickets[t] = NoRow
  /\ tickets'[t] # NoRow
  /\ tickets'[t].version = 1
  /\ ~tickets'[t].overdue /\ ~tickets'[t].deleted
  /\ Only(t) /\ UNCHANGED deps

\* An edit: never of a DONE ticket, the status moves by at most one, DONE is
\* reached past the gate, a new priority clears the overdue mark.
Edit(t) ==
  /\ Live(t) /\ tickets[t].status # DONE
  /\ LET old == tickets[t]
         new == tickets'[t]
     IN  /\ new # NoRow /\ ~new.deleted
         /\ new.status \in {old.status, old.status + 1}
         /\ new.status = DONE => BlockersDone(t)
         /\ \/ new.priority = old.priority /\ new.overdue = old.overdue
            \/ ~new.overdue
  /\ NextVersion(t) /\ SameProject(t) /\ Only(t) /\ UNCHANGED deps

\* Soft delete and restore touch nothing but the mark and the version.
Mark(t, flag) ==
  /\ tickets[t].deleted # flag
  /\ tickets'[t] = [tickets[t] EXCEPT !.deleted = flag, !.version = @ + 1]
  /\ Only(t) /\ UNCHANGED deps

Delete(t)  == tickets[t] # NoRow /\ Mark(t, TRUE)
Restore(t) == tickets[t] # NoRow /\ Mark(t, FALSE)

\* An overdue ticket goes up one priority level and is marked at the top.
Escalate(t) ==
  /\ Live(t) /\ tickets[t].status # DONE /\ tickets[t].priority < CRITICAL
  /\ tickets[t].due # NoDate /\ tickets[t].due < now
  /\ tickets'[t] = [tickets[t] EXCEPT
       !.priority = @ + 1,
       !.overdue  = IF tickets[t].priority + 1 = CRITICAL THEN TRUE ELSE @,
       !.version  = @ + 1]
  /\ Only(t) /\ UNCHANGED deps

\* A new link joins two live tickets of one project that are not yet linked.
Link ==
  /\ \E d \in deps' \ deps :
       /\ deps' = deps \cup {d}
       /\ d.blocked # d.blocker /\ ~Blocks(d.blocker, d.blocked)
       /\ Live(d.blocked) /\ Live(d.blocker)
       /\ tickets[d.blocked].project = tickets[d.blocker].project
  /\ UNCHANGED tickets

Unlink == (\E d \in deps : deps' = deps \ {d}) /\ UNCHANGED tickets

TicketChange(t) == Create(t) \/ Edit(t) \/ Delete(t) \/ Restore(t) \/ Escalate(t)

Next == (\E t \in Ticket : TicketChange(t)) \/ Link \/ Unlink

Init == tickets \in Board0 /\ deps \in Links0

Spec == Init /\ [][Next]_board
===============================================================================

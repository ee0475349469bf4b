------------------------------ MODULE Escalation -------------------------------
(***************************************************************************)
(* EscalationService: the cron job that every minute raises the priority   *)
(* of overdue tickets by one level.  Nothing stops the next run from       *)
(* starting while the last one is still in its loop.                       *)
(***************************************************************************)
EXTENDS TicketStore

\* Mutant of IsLate: CRITICAL tickets are selected as well.
IsLateAtAnyPriority(row) == /\ IsLive(row) /\ row.status # DONE
                            /\ row.due # NoDate /\ row.due < now

\* The where clause of the job's SELECT (soft-deleted rows are left out).
IsLate(row) == /\ IsLive(row)
               /\ row.due # NoDate /\ row.due < now
               /\ row.status # DONE
               /\ row.priority # CRITICAL

Late(t) == IsLate(tickets[t])

\* What one round of the loop does to the entity it holds.
Escalated(row) ==
  [row EXCEPT !.priority = @ + 1,
              !.overdue  = IF row.priority + 1 = CRITICAL THEN TRUE ELSE @]

Remaining(k) == {t \in Ticket : batch[k][t] # NoRow}

\* Mutant of EscalateScan: the job selects open tickets by status TODO.
EscalateScanTodo(k) ==
  /\ pc[k] = "idle" /\ CanStart
  /\ LET found == {t \in Ticket : Late(t) /\ tickets[t].status = TODO}
     IN  \/ found = {} /\ UNCHANGED <<pc, batch>>
         \/ /\ found # {}
            /\ Goto(k, "next")
            /\ batch' = [batch EXCEPT ![k] =
                          [t \in Ticket |-> IF t \in found THEN tickets[t] ELSE NoRow]]
  /\ UNCHANGED <<tables, env, target, body, loaded, seen, link, unread>>

\* A minute is up.  A run that finds nothing is over.
EscalateScan(k) ==
  /\ pc[k] = "idle" /\ CanStart
  /\ \/ /\ \A t \in Ticket : ~Late(t)
        /\ UNCHANGED <<pc, batch>>
     \/ /\ \E t \in Ticket : Late(t)
        /\ Goto(k, "next")
        /\ batch' = [batch EXCEPT ![k] = [t \in Ticket |-> IF Late(t) THEN tickets[t] ELSE NoRow]]
  /\ UNCHANGED <<tables, env, target, body, loaded, seen, link, unread>>

\* The next ticket of the result, in whatever order the SELECT returned it:
\* bump the entity and start save(), whose first statement reloads the row.
EscalateReload(k) ==
  /\ pc[k] = "next"
  /\ \E t \in Remaining(k) :
       /\ target' = [target EXCEPT ![k] = t]
       /\ loaded' = [loaded EXCEPT ![k] = batch[k][t]]
       /\ batch'  = [batch EXCEPT ![k] = [@ EXCEPT ![t] = NoRow]]
       /\ SaveReload(k, t)
  /\ Goto(k, "write")
  /\ UNCHANGED <<tables, env, body, link, unread>>

EscalateWrite(k) ==
  /\ pc[k] = "write"
  /\ SaveWrite(k, target[k], Escalated(loaded[k]))
  /\ Goto(k, "logEscalation")
  /\ UNCHANGED <<deps, audit, env, locals>>

\* Mutant of PreviousPriority: read off the entity after it was changed.
PreviousPriorityAfter(k) == Escalated(loaded[k]).priority

\* previousPriority, taken before the entity was changed.
PreviousPriority(k) == loaded[k].priority

EscalateLog(k) ==
  /\ pc[k] = "logEscalation"
  /\ Log(<<"ESCALATE", target[k], PreviousPriority(k)>>)
  /\ Goto(k, IF Remaining(k) = {} THEN "idle" ELSE "next")
  /\ target' = [target EXCEPT ![k] = NoTicket]
  /\ loaded' = [loaded EXCEPT ![k] = NoRow]
  /\ seen'   = [seen EXCEPT ![k] = NoRow]
  /\ UNCHANGED <<tickets, deps, env, body, link, unread, batch>>

EscalationStep(k) == EscalateReload(k) \/ EscalateWrite(k) \/ EscalateLog(k)
===============================================================================

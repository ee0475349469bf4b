----------------------------- MODULE Dependencies ------------------------------
(***************************************************************************)
(* DependenciesService: which ticket blocks which, and the question the    *)
(* DONE transition asks it.                                                *)
(***************************************************************************)
EXTENDS TicketStore

BlockersOf(t) == {d.blocker : d \in {e \in deps : e.blocked = t}}

\* Mutant of BlockersAnswer: a blocker in review is taken for done.
BlockersAnswerInReview(t) ==
  IF \E b \in BlockersOf(t) : ~Visible(b) THEN {"throws"}
  ELSE IF \E b \in BlockersOf(t) : tickets[b].status < IN_REVIEW THEN {"open"}
  ELSE {"done"}

\* allBlockersDone: `relations: ['blocker']` leaves a soft-deleted blocker null.
\* every() stops at the first blocker that is not DONE; with a deleted blocker
\* the answer depends on the order in which the rows come back.
BlockersAnswer(t) ==
  LET gone == {b \in BlockersOf(t) : ~Visible(b)}
      open == {b \in BlockersOf(t) : Visible(b) /\ tickets[b].status # DONE}
  IN  IF gone \cup open = {} THEN {"done"}
      ELSE (IF open # {} THEN {"open"} ELSE {}) \cup (IF gone # {} THEN {"throws"} ELSE {})

AllBlockersDone(t) == \A b \in BlockersOf(t) : Visible(b) /\ tickets[b].status = DONE

-------------------------------------------------------------------------------
(* addDependency                                                           *)

AddDependency(r) ==
  /\ Call(r, "addDependency")
  /\ \E blocked, blocker \in Ticket :
       IF blocked = blocker
       THEN Answer(r, "400")
       ELSE /\ Goto(r, "readPair")
            /\ link' = [link EXCEPT ![r] = [id |-> r, blocked |-> blocked, blocker |-> blocker]]
            /\ unread' = [unread EXCEPT ![r] = {blocked, blocker}]
            /\ UNCHANGED <<target, body, loaded, seen, batch>>
  /\ UNCHANGED <<tables, env>>

\* Mutant of SameProject: the check is made on existence alone.
BothExist(d) == tickets[d.blocked] # NoRow /\ tickets[d.blocker] # NoRow

\* The project of a row never changes, so the rows that were read agree with the table.
SameProject(d) == tickets[d.blocked].project = tickets[d.blocker].project

\* One of the two SELECTs under Promise.all returns; they are on different
\* connections, so in either order.  After the second the checks run.
AddReadPair(r) ==
  /\ pc[r] \in {"readPair", "readPairMissing"}
  /\ \E t \in unread[r] :
       LET missing == pc[r] = "readPairMissing" \/ ~Visible(t)
           last    == unread[r] = {t}
           d       == link[r]
       IN  \/ /\ ~last
              /\ Goto(r, IF missing THEN "readPairMissing" ELSE "readPair")
              /\ unread' = [unread EXCEPT ![r] = @ \ {t}]
              /\ UNCHANGED <<target, body, loaded, seen, link, batch>>
           \/ /\ last /\ missing
              /\ Answer(r, "404")
           \/ /\ last /\ ~missing
              /\ ~SameProject(d)
              /\ Answer(r, "400")
           \/ /\ last /\ ~missing
              /\ SameProject(d)
              /\ Goto(r, "lookup")
              /\ unread' = [unread EXCEPT ![r] = {}]
              /\ UNCHANGED <<target, body, loaded, seen, link, batch>>
  /\ UNCHANGED <<tables, env>>

SamePair(d, e) == d.blocked = e.blocked /\ d.blocker = e.blocker
Linked(d)      == \E e \in deps : SamePair(d, e)

AddLookup(r) ==
  /\ pc[r] = "lookup"
  /\ IF Linked(link[r])
     THEN Answer(r, "400")
     ELSE Goto(r, "insertDep") /\ UNCHANGED locals
  /\ UNCHANGED <<tables, env>>

\* Mutant of AddInsert: the entity has no @Unique(['blockedId', 'blockerId']).
AddInsertAnyway(r) ==
  /\ pc[r] = "insertDep"
  /\ Answer(r, "200") /\ deps' = deps \cup {link[r]}
  /\ UNCHANGED <<tickets, audit, env>>

\* The INSERT; the unique constraint refuses a pair that is there by now.
AddInsert(r) ==
  /\ pc[r] = "insertDep"
  /\ IF Linked(link[r])
     THEN Answer(r, "500") /\ UNCHANGED deps
     ELSE Answer(r, "200") /\ deps' = deps \cup {link[r]}
  /\ UNCHANGED <<tickets, audit, env>>

-------------------------------------------------------------------------------
(* removeDependency and getDependencies                                    *)

RemoveDependency(r) ==
  /\ Call(r, "removeDependency")
  /\ \E blocked, blocker \in Ticket :
       LET found == {d \in deps : d.blocked = blocked /\ d.blocker = blocker}
       IN  \/ found = {} /\ Answer(r, "404")
           \/ /\ Goto(r, "deleteDep")
              /\ \E d \in found : link' = [link EXCEPT ![r] = d]
              /\ UNCHANGED <<target, body, loaded, seen, unread, batch>>
  /\ UNCHANGED <<tables, env>>

\* remove(dep) deletes by primary key: nothing when the row is gone.
RemoveDelete(r) ==
  /\ pc[r] = "deleteDep"
  /\ deps' = deps \ {link[r]}
  /\ Answer(r, "200")
  /\ UNCHANGED <<tickets, audit, env>>

GetDependencies(r) ==
  /\ Call(r, "getDependencies")
  /\ \E t \in Ticket :
       IF Visible(t)
       THEN /\ Goto(r, "listDeps")
            /\ target' = [target EXCEPT ![r] = t]
            /\ UNCHANGED <<body, loaded, seen, link, unread, batch>>
       ELSE Answer(r, "404")
  /\ UNCHANGED <<tables, env>>

\* The list reads d.blocker.id of every row: null for a soft-deleted blocker.
ListDependencies(r) ==
  /\ pc[r] = "listDeps"
  /\ Answer(r, IF \A b \in BlockersOf(target[r]) : Visible(b) THEN "200" ELSE "500")
  /\ UNCHANGED <<tables, env>>

DependencyStep(r) ==
  \/ AddReadPair(r) \/ AddLookup(r) \/ AddInsert(r)
  \/ RemoveDelete(r) \/ ListDependencies(r)

DependencyCall(r) == AddDependency(r) \/ RemoveDependency(r) \/ GetDependencies(r)
===============================================================================

--------------------------------- MODULE Server --------------------------------
(***************************************************************************)
(* The server around the ticket services: accounts, sessions, projects and *)
(* attachments on one database and one disk, the guards in front of them   *)
(* and the audit interceptor behind them, with restarts.  Of the endpoints *)
(* of the ticket, comment and dependency services only what the            *)
(* interceptor sees of them is kept here: that they have written, and how  *)
(* they end.                                                               *)
(***************************************************************************)
EXTENDS Attachments

\* Requests the guards or the pipes turn away: no token, an expired or a
\* logged-out one; a role that is not ADMIN; a body that is not valid.
Refused(r) ==
  /\ pc[r] = "ready" /\ Cardinality(InFlight) < MaxInFlight
  /\ \E op \in Operation :
       \/ op \notin Unguarded /\ Fail(r, "401")
       \/ op \in AdminOnly /\ (\E k \in Token : Valid(k) /\ claims[k] # "ADMIN") /\ Fail(r, "403")
       \/ Fail(r, "400")
  /\ UNCHANGED <<tables, files, session, crashes, history>>

-------------------------------------------------------------------------------
(* The other services, from outside.                                       *)

\* Their handlers fail before they have written anything (404 stands for every
\* such answer), or they write; how many statements that takes is no concern of
\* the interceptor.
WriteElsewhere(r, op) ==
  /\ Call(r, op)
  /\ \/ Fail(r, "404") /\ UNCHANGED history
     \/ Continue(r, "written") /\ Change(r, op) /\ UNCHANGED locals
  /\ UNCHANGED <<tables, files, session, crashes>>

TicketCall(r)     == \E op \in TicketRoute : WriteElsewhere(r, op)
CommentCall(r)    == \E op \in CommentRoute : WriteElsewhere(r, op)
DependencyCall(r) == \E op \in DependencyRoute : WriteElsewhere(r, op)
OtherCall(r)      == TicketCall(r) \/ CommentCall(r) \/ DependencyCall(r)

Written(r, op) == pc[r] = "written" /\ <<r, op>> \in changed

ReturnElsewhere(r) == \E op \in OtherRoute : Written(r, op) /\ Succeed(r, op, Elsewhere)

\* The ticket is restored, and the findOne for the response does not find it:
\* it was deleted again.
RestoredNotFound(r) == Written(r, "restoreTicket") /\ Fail(r, "404")

\* The comment is written; then the mentions meet a constraint (500), or the
\* comment is removed before it is loaded for the response (404).
CommentWrittenFails(r) ==
  \E op \in {"createComment", "updateComment"}, reply \in {"404", "500"} :
    Written(r, op) /\ Fail(r, reply)

OtherStep(r) ==
  /\ ReturnElsewhere(r) \/ RestoredNotFound(r) \/ CommentWrittenFails(r)
  /\ UNCHANGED <<tables, files, session, crashes, history>>

-------------------------------------------------------------------------------
ServerCall(r) == \/ AccountCall(r) \/ ProjectCall(r) \/ AttachmentCall(r)
                 \/ OtherCall(r) \/ Refused(r)
ServerStep(r) == AccountStep(r) \/ ProjectStep(r) \/ AttachmentStep(r) \/ OtherStep(r)

Next ==
  \/ \E r \in Request : ServerCall(r) \/ ServerStep(r)
  \/ \E e \in pending : InsertEntry(e)
  \/ \E f \in unlinking : Unlink(f)
  \/ Crash

Spec == Init /\ [][Next]_vars

\* The event loop runs a handler that has started to its end; the database and
\* the operating system do what was issued to them.  Clients owe no call.
Fairness ==
  /\ \A r \in Request : WF_vars(ServerStep(r))
  /\ WF_vars(\E e \in pending : InsertEntry(e))
  /\ WF_vars(\E f \in unlinking : Unlink(f))

FairSpec == Spec /\ Fairness

-------------------------------------------------------------------------------
(* Properties                                                              *)

\* No two accounts share a username or an address and no project is without its
\* owner, also when registrations cross, a removed account is saved once more,
\* or an owner is removed while a project is created for them.
DirectorySound ==
  /\ Unique(users)
  /\ \A p \in Project : projects[p] # NoRow => users[projects[p].owner] # NoRow

\* A save() whose reload still found the row it had loaded writes the client's
\* changes and nothing else, whatever commits between the reload and the UPDATE:
\* it undoes no demotion, no removal and no soft delete.
Changed(value, old, current) == IF value \in {Absent, old} THEN current ELSE value

UserPatched(r) ==
  LET u == target[r] IN
  users'[u] = IF users[u] = NoRow THEN NoRow ELSE
    [users[u] EXCEPT !.fullName = Changed(body[r].fullName, loaded[r].fullName, @),
                     !.role     = Changed(body[r].role, loaded[r].role, @)]

ProjectPatched(r) ==
  LET p == target[r] IN
  projects'[p] = [projects[p] EXCEPT !.name = Changed(body[r].name, loaded[r].name, @)]

PatchesExact ==
  [][\A r \in Request : pc'[r] = "200" /\ seen[r] = loaded[r] =>
       /\ pc[r] = "writeUser" => UserPatched(r)
       /\ pc[r] = "writeProject" => ProjectPatched(r)]_vars

\* Attachment rows and files belong together, although no transaction spans
\* them and removals cross: a row has its file, except while a handler that
\* unlinked it is about to delete the row; a file has its row, except during
\* its upload, while it waits to be unlinked, or when its upload was refused
\* after it was stored.  Work that a crash cut off is left out (torn).
Removing == {target[r] : r \in {q \in Request : pc[q] = "deleteRow"}}
Stored   == {f \in File : attachments[f] # NoRow}
Strays   == {r \in disk \cap Request : pc[r] = "400"}

FilesMatchRows ==
  /\ (Stored \ disk) \ torn \subseteq Removing
  /\ ((disk \ Stored) \ torn) \ Strays \subseteq unlinking \cup InFlight

\* Every handler that changed a table and answered 200 has one audit entry,
\* written or about to be, unless it was an import.  A change without an entry
\* was made by a request that is still in flight, that a crash cut off, or that
\* failed after its write: a restore whose project or ticket was deleted again
\* (404), or a write of a comment whose mentions or whose response failed.  No
\* entry is about a request that has written nothing, and an attachment
\* reported as deleted stays away.
EntriesOf(r) == {e \in trail \cup pending : e.request = r}

FailedAfterWrite(r, op) ==
  \/ op \in {"restoreProject", "restoreTicket"} /\ pc[r] = "404"
  \/ op \in {"createComment", "updateComment"} /\ pc[r] \in {"404", "500"}

ChangesLogged ==
  /\ \A c \in changed :
       \/ c[1] \in InFlight \cup torn
       \/ c[2] = "importCsv"
       \/ FailedAfterWrite(c[1], c[2])
       \/ \E e \in EntriesOf(c[1]) : EntriesOf(c[1]) = {e} /\ e.type = Route[c[2]][2]
  /\ \A e \in trail \cup pending :
       /\ e.request \in {c[1] : c \in changed} /\ pc[e.request] = "200"
       /\ e.type = "ATTACHMENT" /\ e.action = "DELETE" => attachments[e.subject] = NoRow
  /\ trail \cap pending = {}

\* Once the clients have made their calls, the audit entries are written, the
\* files are unlinked, and what is on the disk is what the table says.
SideEffectsSettle ==
  <>[](/\ pending = {} /\ unlinking = {}
       /\ \A f \in File \ torn : f \in disk \ Strays <=> f \in Stored)
===============================================================================

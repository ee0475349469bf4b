------------------------------ MODULE Attachments ------------------------------
(***************************************************************************)
(* AttachmentsController and AttachmentsService: a file on disk and a row  *)
(* in the table, which no transaction spans.  multer stores the file       *)
(* before the handler runs, and fs.unlink is issued but never awaited.     *)
(***************************************************************************)
EXTENDS Projects

-------------------------------------------------------------------------------
(* upload                                                                  *)

\* multer: a file of a wrong type or size, or none, leaves nothing behind.  The
\* pipe that parses ticketId runs after it: an id that is no number (Elsewhere)
\* is refused with the file on disk.
StoreFile(r) ==
  /\ Call(r, "upload")
  /\ \/ Fail(r, "400") /\ UNCHANGED disk
     \/ /\ disk' = disk \cup {r}
        /\ \/ Fail(r, "400")
           \/ \E t \in Ticket : /\ target' = [target EXCEPT ![r] = t]
                                /\ Continue(r, "lookup")
                                /\ UNCHANGED <<body, loaded, seen>>
  /\ UNCHANGED <<tables, unlinking, session, crashes, history>>

\* Mutant of LookupTicket: the file of a refused upload is not unlinked.
LookupTicketOnly(r) ==
  /\ pc[r] = "lookup"
  /\ IF target[r] \in LiveTicket THEN Continue(r, "insertFile") /\ UNCHANGED locals
                                 ELSE Fail(r, "404")
  /\ UNCHANGED <<tables, files, session, crashes, history>>

LookupTicket(r) ==
  /\ pc[r] = "lookup"
  /\ IF target[r] \in LiveTicket
     THEN Continue(r, "insertFile") /\ UNCHANGED <<locals, unlinking>>
     ELSE Fail(r, "404") /\ unlinking' = unlinking \cup {r}
  /\ UNCHANGED <<tables, disk, session, crashes, history>>

InsertAttachment(r) ==
  /\ pc[r] = "insertFile"
  /\ attachments' = [attachments EXCEPT ![r] = target[r]]
  /\ Succeed(r, "upload", r) /\ Change(r, "upload")
  /\ UNCHANGED <<users, projects, files, session, crashes>>

-------------------------------------------------------------------------------
(* remove                                                                  *)

\* The SELECT by id and ticket, and the unlink that is issued with it.
FindAttachment(r) ==
  /\ Call(r, "removeAttachment")
  /\ \E f \in File, t \in Ticket :
       \/ attachments[f] # t /\ Fail(r, "404") /\ UNCHANGED unlinking
       \/ /\ attachments[f] = t
          /\ unlinking' = unlinking \cup {f}
          /\ target' = [target EXCEPT ![r] = f]
          /\ Continue(r, "deleteRow")
          /\ UNCHANGED <<body, loaded, seen>>
  /\ UNCHANGED <<tables, disk, session, crashes, history>>

\* The DELETE by id.
DeleteAttachment(r) ==
  /\ pc[r] = "deleteRow"
  /\ attachments' = [attachments EXCEPT ![target[r]] = NoRow]
  /\ Succeed(r, "removeAttachment", target[r]) /\ Change(r, "removeAttachment")
  /\ UNCHANGED <<users, projects, files, session, crashes>>

\* The operating system has removed the file; one that is gone is no error.
Unlink(f) ==
  /\ f \in unlinking
  /\ unlinking' = unlinking \ {f}
  /\ disk' = disk \ {f}
  /\ UNCHANGED <<tables, audit, session, crashes, pc, locals, history>>

AttachmentCall(r) == StoreFile(r) \/ FindAttachment(r)
AttachmentStep(r) == LookupTicket(r) \/ InsertAttachment(r) \/ DeleteAttachment(r)
===============================================================================

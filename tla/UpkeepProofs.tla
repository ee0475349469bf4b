------------------------------ MODULE UpkeepProofs -----------------------------
(***************************************************************************)
(* That attachment rows and files stay together and that the audit log has *)
(* one entry per change that was answered, for any number of requests,     *)
(* files and crashes.                                                      *)
(*                                                                         *)
(* The argument: a file is named by the request that stored it, so what    *)
(* may happen to it follows from where that request is (Uploads); a file   *)
(* that waits to be unlinked although it has a row has a handler that is   *)
(* about to delete the row (Unlinks).  For the log: a request changes      *)
(* tables for one endpoint, and has then answered or is about to (Midway); *)
(* so the answer that adds the entry adds the only one (Changes).          *)
(***************************************************************************)
EXTENDS ServerProofs

Uploading == {"lookup", "insertFile"}

\* A file with a row that waits to be unlinked is being removed, and the file a
\* handler removes is unlinked or waits for it.
Unlinks ==
  /\ \A f \in unlinking : attachments[f] # NoRow => f \in Removing \cup torn
  /\ \A f \in Removing : f \in disk => f \in unlinking

\* Where the request is that stored a file.
Uploads ==
  \A r \in Request :
    /\ attachments[r] # NoRow \/ r \in Removing => pc[r] = "200"
    /\ r \in unlinking => pc[r] \in Reply
    /\ pc[r] \in Uploading => r \in disk
    /\ r \in disk => pc[r] \in Uploading \cup Reply

RowsHaveFiles == \A f \in File : attachments[f] # NoRow => f \in disk \cup torn \cup Removing
FilesHaveRows ==
  \A f \in disk : \/ attachments[f] # NoRow \/ f \in torn \cup unlinking \cup InFlight
                  \/ f \in Request /\ pc[f] = "400"

\* The inductive invariant of the files.
FInv == SInv /\ Unlinks /\ Uploads /\ RowsHaveFiles /\ FilesHaveRows

LEMMA FilesMatch == SInv /\ RowsHaveFiles /\ FilesHaveRows => FilesMatchRows
BY DEF SInv, TablesTyped, RowsHaveFiles, FilesHaveRows, FilesMatchRows, Stored, Strays

LEMMA InRemoving ==
  ASSUME NEW f
  PROVE  f \in Removing <=> \E q \in Request : pc[q] = "deleteRow" /\ target[q] = f
BY DEF Removing

LEMMA InRemovingNext ==
  ASSUME NEW f
  PROVE  f \in Removing' <=> \E q \in Request : pc'[q] = "deleteRow" /\ target'[q] = f
BY DEF Removing

FilePhase == Uploading \cup {"deleteRow"}

\* A step of a handler that has nothing to do with files.
Elsewhen(r) ==
  /\ OthersStay(r) /\ UNCHANGED <<attachments, disk, unlinking, torn>>
  /\ pc[r] \notin FilePhase \cup Reply /\ pc'[r] \notin FilePhase

LEMMA ElsewhenFiles ==
  ASSUME FInv, SInv', NEW r \in Request, Elsewhen(r)
  PROVE  FInv'
<1>1. \A f : f \in Removing' <=> f \in Removing
  BY InRemoving, InRemovingNext DEF Elsewhen, OthersStay, Stays, FilePhase
<1>2. r \notin disk /\ r \notin unlinking /\ attachments[r] = NoRow /\ r \notin Removing
  BY DEF FInv, Uploads, Elsewhen, FilePhase, Reply
<1>3. \A q \in Request \ {r} : pc'[q] = pc[q]
  BY DEF Elsewhen, OthersStay, Stays
<1>4. Unlinks'
  BY <1>1 DEF FInv, Unlinks, Elsewhen
<1>5. Uploads'
  BY <1>1, <1>2, <1>3 DEF FInv, Uploads, Elsewhen, FilePhase
<1>6. RowsHaveFiles'
  BY <1>1 DEF FInv, RowsHaveFiles, Elsewhen
<1>7. FilesHaveRows'
  BY <1>2, <1>3 DEF FInv, FilesHaveRows, Elsewhen, InFlight, SInv, TablesTyped, File
<1>8. QED
  BY <1>4, <1>5, <1>6, <1>7 DEF FInv

\* Where a handler is after it has answered, or gone on.
LEMMA AnswerMoves ==
  ASSUME SInv, NEW r \in Request, NEW reply, Answer(r, reply)
  PROVE  pc'[r] = reply /\ \A q \in Request \ {r} : pc'[q] = pc[q] /\ target'[q] = target[q]
BY DEF Answer, Goto, SInv, LocalsTyped

LEMMA ContinueMoves ==
  ASSUME SInv, NEW r \in Request, NEW phase, Continue(r, phase)
  PROVE  pc'[r] = phase /\ \A q \in Request \ {r} : pc'[q] = pc[q]
BY DEF Continue, Goto, SInv, LocalsTyped

LEMMA SInFile == \A r \in Request : r \in File
BY DEF File

LEMMA StoreFileFiles ==
  ASSUME FInv, SInv', NEW r \in Request, StoreFile(r)
  PROVE  FInv'
<1>1. pc[r] = "ready" /\ UNCHANGED <<attachments, unlinking, torn>>
  BY DEF StoreFile, Call, tables, history
<1>2. \/ Fail(r, "400") /\ (UNCHANGED disk \/ disk' = disk \cup {r})
      \/ /\ disk' = disk \cup {r} /\ Continue(r, "lookup")
         /\ \A q \in Request \ {r} : target'[q] = target[q]
  BY DEF StoreFile, FInv, SInv, LocalsTyped
<1>3. /\ \A q \in Request \ {r} : pc'[q] = pc[q] /\ target'[q] = target[q]
      /\ \/ pc'[r] = "400" /\ (UNCHANGED disk \/ disk' = disk \cup {r})
         \/ pc'[r] = "lookup" /\ disk' = disk \cup {r}
  BY <1>2, AnswerMoves, ContinueMoves DEF FInv, Fail
<1>4. \A f : f \in Removing' <=> f \in Removing
  BY <1>1, <1>3, InRemoving, InRemovingNext
<1>5. r \notin unlinking /\ attachments[r] = NoRow /\ r \notin Removing /\ r \notin disk
  BY <1>1 DEF FInv, Uploads, Uploading, Reply
<1>6. Unlinks'
  BY <1>1, <1>3, <1>4, <1>5 DEF FInv, Unlinks
<1>7. Uploads'
  BY <1>1, <1>3, <1>4, <1>5 DEF FInv, Uploads, Uploading, Reply
<1>8. RowsHaveFiles'
  BY <1>1, <1>3, <1>4 DEF FInv, RowsHaveFiles
<1>9. FilesHaveRows'
  <2>1. \A f \in disk : f \in InFlight => f \in InFlight'
    BY <1>3, <1>5 DEF InFlight
  <2>2. pc'[r] = "lookup" => r \in InFlight'
    BY DEF InFlight, Resting, Reply
  <2>3. QED
    BY <1>1, <1>3, <1>5, <2>1, <2>2 DEF FInv, FilesHaveRows
<1>10. QED
  BY <1>6, <1>7, <1>8, <1>9 DEF FInv

LEMMA LookupTicketFiles ==
  ASSUME FInv, SInv', NEW r \in Request, LookupTicket(r)
  PROVE  FInv'
<1>1. pc[r] = "lookup" /\ UNCHANGED <<attachments, disk, torn>>
  BY DEF LookupTicket, tables, history
<1>2. /\ \A q \in Request \ {r} : pc'[q] = pc[q] /\ target'[q] = target[q]
      /\ \/ pc'[r] = "insertFile" /\ UNCHANGED unlinking
         \/ pc'[r] = "404" /\ unlinking' = unlinking \cup {r}
  <2>1. CASE Continue(r, "insertFile") /\ UNCHANGED <<locals, unlinking>>
    BY <2>1, ContinueMoves DEF FInv, locals
  <2>2. CASE Fail(r, "404") /\ unlinking' = unlinking \cup {r}
    BY <2>2, AnswerMoves DEF FInv, Fail
  <2>3. QED
    BY <2>1, <2>2 DEF LookupTicket
<1>3. \A f : f \in Removing' <=> f \in Removing
  BY <1>1, <1>2, InRemoving, InRemovingNext
<1>4. r \notin unlinking /\ attachments[r] = NoRow /\ r \notin Removing /\ r \in disk
  BY <1>1 DEF FInv, Uploads, Uploading, Reply
<1>5. Unlinks'
  BY <1>1, <1>2, <1>3, <1>4 DEF FInv, Unlinks
<1>6. Uploads'
  BY <1>1, <1>2, <1>3, <1>4 DEF FInv, Uploads, Uploading, Reply
<1>7. RowsHaveFiles'
  BY <1>1, <1>3 DEF FInv, RowsHaveFiles
<1>8. FilesHaveRows'
  <2>1. \A f \in disk \ {r} : f \in InFlight => f \in InFlight'
    BY <1>2 DEF InFlight
  <2>2. pc'[r] = "insertFile" => r \in InFlight'
    BY DEF InFlight, Resting, Reply
  <2>3. QED
    BY <1>1, <1>2, <1>4, <2>1, <2>2 DEF FInv, FilesHaveRows
<1>9. QED
  BY <1>5, <1>6, <1>7, <1>8 DEF FInv

LEMMA InsertAttachmentFiles ==
  ASSUME FInv, SInv', NEW r \in Request, InsertAttachment(r)
  PROVE  FInv'
<1>1. pc[r] = "insertFile" /\ UNCHANGED <<disk, unlinking, torn>>
  BY DEF InsertAttachment, Change, files
<1>2. pc'[r] = "200" /\ \A q \in Request \ {r} : pc'[q] = pc[q] /\ target'[q] = target[q]
  BY AnswerMoves DEF FInv, InsertAttachment, Succeed
<1>3. \A f \in File \ {r} : attachments'[f] = attachments[f]
  BY DEF InsertAttachment, FInv, SInv, TablesTyped
<1>4. attachments'[r] # NoRow
  <2>1. attachments'[r] = target[r] /\ target[r] \in Ticket
    BY <1>1, SInFile DEF InsertAttachment, FInv, SInv, TablesTyped, Holds
  <2>2. QED
    BY <2>1, IdsAssumption
<1>5. \A f : f \in Removing' <=> f \in Removing
  BY <1>1, <1>2, InRemoving, InRemovingNext
<1>6. r \notin unlinking /\ r \notin Removing /\ r \in disk
  BY <1>1 DEF FInv, Uploads, Uploading, Reply
<1>7. Unlinks'
  BY <1>1, <1>3, <1>5, <1>6 DEF FInv, Unlinks, SInv, TablesTyped
<1>8. Uploads'
  BY <1>1, <1>2, <1>3, <1>5, SInFile DEF FInv, Uploads, Uploading, Reply
<1>9. RowsHaveFiles'
  BY <1>1, <1>3, <1>5, <1>6 DEF FInv, RowsHaveFiles
<1>10. FilesHaveRows'
  <2>1. \A f \in disk \ {r} : f \in InFlight => f \in InFlight'
    BY <1>2 DEF InFlight
  <2>2. QED
    BY <1>1, <1>2, <1>3, <1>4, <2>1 DEF FInv, FilesHaveRows, SInv, TablesTyped
<1>11. QED
  BY <1>7, <1>8, <1>9, <1>10 DEF FInv

LEMMA FindAttachmentFiles ==
  ASSUME FInv, SInv', NEW r \in Request, FindAttachment(r)
  PROVE  FInv'
<1>1. pc[r] = "ready" /\ UNCHANGED <<attachments, disk, torn>>
  BY DEF FindAttachment, Call, tables, history
<1>2. CASE Fail(r, "404") /\ UNCHANGED unlinking
  <2>1. pc'[r] = "404" /\ \A q \in Request \ {r} : pc'[q] = pc[q] /\ target'[q] = target[q]
    BY <1>2, AnswerMoves DEF FInv, Fail
  <2>2. OthersStay(r)
    BY <1>2 DEF Fail, Answer, Goto, OthersStay, Stays, FInv, SInv, LocalsTyped
  <2>3. Elsewhen(r)
    BY <1>1, <1>2, <2>1, <2>2 DEF Elsewhen, FilePhase, Uploading, Reply
  <2>4. QED
    BY <2>3, ElsewhenFiles
<1>3. CASE ~(Fail(r, "404") /\ UNCHANGED unlinking)
  <2>1. PICK f \in File, t \in Ticket :
          /\ attachments[f] = t /\ unlinking' = unlinking \cup {f}
          /\ target' = [target EXCEPT ![r] = f] /\ Continue(r, "deleteRow")
    BY <1>3 DEF FindAttachment
  <2>2. attachments[f] # NoRow
    BY <2>1, IdsAssumption
  <2>3. /\ pc'[r] = "deleteRow" /\ target'[r] = f
        /\ \A q \in Request \ {r} : pc'[q] = pc[q] /\ target'[q] = target[q]
    BY <2>1, ContinueMoves DEF FInv, SInv, LocalsTyped
  <2>4. \A g : g \in Removing' <=> g \in Removing \/ g = f
    BY <1>1, <2>3, InRemoving, InRemovingNext
  <2>5. f \in Request => pc[f] = "200" /\ f # r
    BY <1>1, <2>2 DEF FInv, Uploads
  <2>6. Unlinks'
    BY <1>1, <2>1, <2>4 DEF FInv, Unlinks
  <2>7. Uploads'
    BY <1>1, <2>1, <2>3, <2>4, <2>5 DEF FInv, Uploads, Uploading, Reply
  <2>8. RowsHaveFiles'
    BY <1>1, <2>4 DEF FInv, RowsHaveFiles
  <2>9. FilesHaveRows'
    <3>1. \A g \in disk : g \in InFlight => g \in InFlight'
      BY <2>3 DEF InFlight, Resting, Reply
    <3>2. r \notin disk
      BY <1>1 DEF FInv, Uploads, Uploading, Reply
    <3>3. QED
      BY <1>1, <2>1, <2>3, <3>1, <3>2 DEF FInv, FilesHaveRows
  <2>10. QED
    BY <2>6, <2>7, <2>8, <2>9 DEF FInv
<1>4. QED
  BY <1>2, <1>3

LEMMA DeleteAttachmentFiles ==
  ASSUME FInv, SInv', NEW r \in Request, DeleteAttachment(r)
  PROVE  FInv'
<1> DEFINE f == target[r]
<1>1. pc[r] = "deleteRow" /\ f \in File /\ UNCHANGED <<disk, unlinking, torn>>
  BY DEF DeleteAttachment, Change, files, FInv, SInv, Holds
<1>2. pc'[r] = "200" /\ \A q \in Request \ {r} : pc'[q] = pc[q] /\ target'[q] = target[q]
  BY AnswerMoves DEF FInv, DeleteAttachment, Succeed
<1>3. attachments'[f] = NoRow /\ \A g \in File \ {f} : attachments'[g] = attachments[g]
  BY <1>1 DEF DeleteAttachment, FInv, SInv, TablesTyped
<1>4. /\ \A g : g \in Removing' => g \in Removing
      /\ \A g : g \in Removing /\ g # f => g \in Removing'
  BY <1>1, <1>2, InRemoving, InRemovingNext
<1>5. f \in Removing
  BY <1>1, InRemoving
<1>6. r \notin disk /\ r \notin unlinking /\ attachments[r] = NoRow /\ r \notin Removing
  BY <1>1 DEF FInv, Uploads, Uploading, Reply
<1>7. Unlinks'
  BY <1>1, <1>3, <1>4 DEF FInv, Unlinks, SInv, TablesTyped
<1>8. Uploads'
  BY <1>1, <1>2, <1>3, <1>4, <1>6, SInFile DEF FInv, Uploads, Uploading, Reply
<1>9. RowsHaveFiles'
  BY <1>1, <1>3, <1>4 DEF FInv, RowsHaveFiles
<1>10. FilesHaveRows'
  <2>1. \A g \in disk : g \in InFlight => g \in InFlight'
    BY <1>2, <1>6 DEF InFlight
  <2>2. f \in disk => f \in unlinking
    BY <1>5 DEF FInv, Unlinks
  <2>3. QED
    BY <1>1, <1>2, <1>3, <1>6, <2>1, <2>2 DEF FInv, FilesHaveRows, SInv, TablesTyped
<1>11. QED
  BY <1>7, <1>8, <1>9, <1>10 DEF FInv

\* The phases of a handler of the other services: none is about files.
LEMMA AccountElsewhen ==
  ASSUME SInv, NEW r \in Request, AccountCall(r) \/ AccountStep(r)
  PROVE  /\ UNCHANGED <<attachments, disk, unlinking, torn>>
         /\ pc[r] \notin FilePhase \cup Reply /\ pc'[r] \notin FilePhase
<1> USE DEF tables, files, history, Change, FilePhase, Uploading, Reply
<1>1. CASE AccountCall(r)
  <2>1. pc[r] = "ready" /\ UNCHANGED <<attachments, disk, unlinking, torn>>
    BY <1>1 DEF AccountCall, FindTaken, FindForUpdate, FindForRemove, FindCredentials, Logout, Call
  <2>2. \/ \E reply \in Reply : Answer(r, reply)
        \/ \E phase \in {"hash", "reloadUser", "deleteUser", "compare"} : Continue(r, phase)
    BY <1>1 DEF AccountCall, FindTaken, FindForUpdate, FindForRemove, FindCredentials, Logout,
                Fail, Succeed
  <2>3. QED
    BY <2>1, <2>2, AnswerMoves, ContinueMoves
<1>2. CASE AccountStep(r)
  <2>1. /\ pc[r] \in {"hash", "reloadUser", "writeUser", "deleteUser", "compare"}
        /\ UNCHANGED <<attachments, disk, unlinking, torn>>
    BY <1>2 DEF AccountStep, InsertUser, ReloadUser, SaveUser, DeleteUser, SignToken
  <2>2. (\E reply \in Reply : Answer(r, reply)) \/ Continue(r, "writeUser")
    BY <1>2 DEF AccountStep, InsertUser, ReloadUser, SaveUser, DeleteUser, SignToken, Fail, Succeed
  <2>3. QED
    BY <2>1, <2>2, AnswerMoves, ContinueMoves
<1>3. QED
  BY <1>1, <1>2

LEMMA ProjectElsewhen ==
  ASSUME SInv, NEW r \in Request, ProjectCall(r) \/ ProjectStep(r)
  PROVE  /\ UNCHANGED <<attachments, disk, unlinking, torn>>
         /\ pc[r] \notin FilePhase \cup Reply /\ pc'[r] \notin FilePhase
<1> USE DEF tables, files, history, Change, FilePhase, Uploading, Reply
<1>1. CASE ProjectCall(r)
  <2>1. pc[r] = "ready" /\ UNCHANGED <<attachments, disk, unlinking, torn>>
    BY <1>1 DEF ProjectCall, CreateProject, FindProject, FindToRemove, FindDeleted, Call
  <2>2. \/ \E reply \in Reply : Answer(r, reply)
        \/ \E phase \in {"reloadProject", "softRemove", "undelete"} : Continue(r, phase)
    BY <1>1 DEF ProjectCall, CreateProject, FindProject, FindToRemove, FindDeleted, Fail, Succeed
  <2>3. QED
    BY <2>1, <2>2, AnswerMoves, ContinueMoves
<1>2. CASE ProjectStep(r)
  <2>1. /\ pc[r] \in {"reloadProject", "writeProject", "softRemove", "undelete", "reread"}
        /\ UNCHANGED <<attachments, disk, unlinking, torn>>
    BY <1>2 DEF ProjectStep, ReloadProject, SaveProject, SoftRemoveProject, UndeleteProject,
                RereadProject
  <2>2. \/ \E reply \in Reply : Answer(r, reply)
        \/ \E phase \in {"writeProject", "reread"} : Continue(r, phase)
    BY <1>2 DEF ProjectStep, ReloadProject, SaveProject, SoftRemoveProject, UndeleteProject,
                RereadProject, Fail, Succeed
  <2>3. QED
    BY <2>1, <2>2, AnswerMoves, ContinueMoves
<1>3. QED
  BY <1>1, <1>2

LEMMA OtherElsewhen ==
  ASSUME SInv, NEW r \in Request, OtherCall(r) \/ OtherStep(r) \/ Refused(r)
  PROVE  /\ UNCHANGED <<attachments, disk, unlinking, torn>>
         /\ pc[r] \notin FilePhase \cup Reply /\ pc'[r] \notin FilePhase
<1> USE DEF OtherCall, TicketCall, CommentCall, DependencyCall, WriteElsewhere,
            OtherStep, ReturnElsewhere, RestoredNotFound, CommentWrittenFails
<1>1. pc[r] \in {"ready", "written"} /\ UNCHANGED <<attachments, disk, unlinking, torn>>
  BY DEF Refused, Call, Written, tables, files, history, Change
<1>2. (\E reply \in Reply : Answer(r, reply)) \/ Continue(r, "written")
  BY DEF Refused, Fail, Succeed, Reply
<1>3. QED
  BY <1>1, <1>2, AnswerMoves, ContinueMoves DEF FilePhase, Uploading, Reply

LEMMA HandlerFiles ==
  ASSUME FInv, NEW r \in Request, ServerCall(r) \/ ServerStep(r)
  PROVE  FInv'
<1>1. Good(r) /\ SInv'
  BY HandlerGood, GoodStep DEF FInv
<1>2. CASE AttachmentCall(r) \/ AttachmentStep(r)
  BY <1>1, <1>2, StoreFileFiles, FindAttachmentFiles, LookupTicketFiles, InsertAttachmentFiles,
     DeleteAttachmentFiles DEF AttachmentCall, AttachmentStep
<1>3. CASE ~(AttachmentCall(r) \/ AttachmentStep(r))
  <2>1. Elsewhen(r)
    BY <1>1, <1>3, AccountElsewhen, ProjectElsewhen, OtherElsewhen
    DEF Elsewhen, ServerCall, ServerStep, FInv, Good
  <2>2. QED
    BY <1>1, <2>1, ElsewhenFiles
<1>4. QED
  BY <1>2, <1>3

LEMMA UnlinkFiles ==
  ASSUME FInv, SInv', NEW f \in unlinking, Unlink(f)
  PROVE  FInv'
<1>1. /\ unlinking' = unlinking \ {f} /\ disk' = disk \ {f}
      /\ UNCHANGED <<attachments, pc, target, torn>>
  BY DEF Unlink, tables, locals, history
<1>2. \A g : g \in Removing' <=> g \in Removing
  BY <1>1, InRemoving, InRemovingNext
<1>3. Unlinks' /\ RowsHaveFiles' /\ FilesHaveRows'
  BY <1>1, <1>2 DEF FInv, Unlinks, RowsHaveFiles, FilesHaveRows, InFlight
<1>4. Uploads'
  BY <1>1, <1>2 DEF FInv, Uploads, Uploading, Reply
<1>5. QED
  BY <1>3, <1>4 DEF FInv

LEMMA CrashFiles ==
  ASSUME FInv, SInv', Crash
  PROVE  FInv'
<1>1. /\ pc' = [q \in Request |-> IF q \in InFlight THEN "lost" ELSE pc[q]]
      /\ unlinking' = {} /\ UNCHANGED <<attachments, disk>>
      /\ torn \cup InFlight \cup unlinking \cup Removing \subseteq torn'
  BY DEF Crash, tables, Removing
<1>2. /\ \A q \in Request : q \in InFlight => pc'[q] = "lost"
      /\ \A q \in Request : q \notin InFlight => pc'[q] = pc[q]
      /\ \A q \in Request : pc'[q] \in Resting
  BY <1>1 DEF InFlight, Resting, Reply
<1>3. \A g : g \notin Removing'
  BY <1>2, InRemovingNext DEF Resting, Reply
<1>4. Unlinks' /\ RowsHaveFiles'
  BY <1>1, <1>3 DEF FInv, Unlinks, RowsHaveFiles
<1>5. FilesHaveRows'
  BY <1>1, <1>2 DEF FInv, FilesHaveRows
<1>6. Uploads'
  BY <1>1, <1>2, <1>3 DEF FInv, Uploads, Uploading, InFlight, Resting, Reply
<1>7. QED
  BY <1>4, <1>5, <1>6 DEF FInv

LEMMA InitFiles == Init => FInv
<1> SUFFICES ASSUME Init PROVE FInv
  OBVIOUS
<1>1. \A r \in Request : pc[r] = "ready" /\ r \notin SeedFile /\ r \in File
  BY IdsAssumption DEF Init, File
<1>2. disk = SeedFile /\ unlinking = {}
  BY DEF Init
<1>3. \A f \in File : attachments[f] # NoRow <=> f \in SeedFile
  <2>1. PICK ticket \in [SeedFile -> Ticket] :
          attachments = [f \in File |-> IF f \in SeedFile THEN ticket[f] ELSE NoRow]
    BY DEF Init
  <2>2. \A f \in SeedFile : ticket[f] # NoRow
    BY IdsAssumption
  <2>3. QED
    BY <2>1, <2>2
<1>4. \A f : f \notin Removing
  BY <1>1, InRemoving
<1>5. Unlinks /\ Uploads /\ RowsHaveFiles /\ FilesHaveRows
  BY <1>1, <1>2, <1>3, <1>4
  DEF Unlinks, Uploads, RowsHaveFiles, FilesHaveRows, Uploading, File
<1>6. QED
  BY <1>5, InitInv DEF FInv

LEMMA NextFiles == FInv /\ [Next]_vars => FInv'
<1> SUFFICES ASSUME FInv, [Next]_vars PROVE FInv'
  OBVIOUS
<1>1. SInv'
  BY NextInv DEF FInv
<1>2. ASSUME UNCHANGED <<attachments, disk, unlinking, torn, pc, target>> PROVE FInv'
  <2>1. \A g : g \in Removing' <=> g \in Removing
    BY <1>2, InRemoving, InRemovingNext
  <2>2. QED
    BY <1>1, <1>2, <2>1
    DEF FInv, Unlinks, Uploads, RowsHaveFiles, FilesHaveRows, InFlight
<1>3. ASSUME NEW e \in pending, InsertEntry(e) PROVE FInv'
  BY <1>2, <1>3 DEF InsertEntry, tables, files, locals, history
<1>4. CASE UNCHANGED vars
  BY <1>2, <1>4 DEF vars, tables, files, locals, history
<1>5. QED
  BY <1>1, <1>3, <1>4, HandlerFiles, UnlinkFiles, CrashFiles DEF Next

\* A row has its file, except while its remover is about to delete it; a file has
\* its row, except during its upload, while it waits to be unlinked, or when it
\* was refused after multer had stored it; the work of a crash is left out.
THEOREM FilesAndRowsMatch == Spec => []FilesMatchRows
<1>1. FInv => FilesMatchRows
  BY FilesMatch DEF FInv
<1>2. QED
  BY <1>1, InitFiles, NextFiles, PTL DEF Spec

-------------------------------------------------------------------------------
(* The audit log.                                                          *)

\* The parts of ChangesLogged.
Accounted(c) ==
  \/ c[1] \in InFlight \cup torn
  \/ c[2] = "importCsv"
  \/ FailedAfterWrite(c[1], c[2])
  \/ \E e \in EntriesOf(c[1]) : EntriesOf(c[1]) = {e} /\ e.type = Route[c[2]][2]
Earned(e) == e.request \in {c[1] : c \in changed} /\ pc[e.request] = "200"
Apart     == trail \cap pending = {}

\* Handlers that have written and have not answered yet.
Midway == {"reread", "written"}

\* A request changes tables for one endpoint, and has answered or is about to.
Changes ==
  /\ \A c \in changed : pc[c[1]] \in Reply \cup Midway
  /\ \A c, d \in changed : c[1] = d[1] => c = d
  /\ \A r \in Request : pc[r] = "reread" => <<r, "restoreProject">> \in changed

\* An attachment whose removal is logged is gone, and nobody uploads it.
Gone(e) ==
  e.type = "ATTACHMENT" /\ e.action = "DELETE" =>
    /\ e.subject \in File /\ attachments[e.subject] = NoRow
    /\ e.subject \in Request => pc[e.subject] = "200"

Log == trail \cup pending

\* The inductive invariant of the log, relative to FInv.
LogInv == /\ Changes /\ Apart
          /\ \A c \in changed : Accounted(c)
          /\ \A e \in Log : Earned(e) /\ Gone(e)

LEMMA LogParts == SInv /\ LogInv => ChangesLogged
BY DEF SInv, LogInv, ChangesLogged, Accounted, Earned, Gone, Apart, Log

\* What the interceptor makes of an endpoint.
LEMMA Labels ==
  ASSUME NEW op \in Endpoint
  PROVE  /\ op \notin {"login", "logout", "importCsv"} => Logged(op)
         /\ Route[op][2] = "ATTACHMENT" /\ Action(Route[op][1]) = "DELETE"
              => op = "removeAttachment"
<1>1. op \in {"createUser", "updateUser", "removeUser", "login", "logout", "createProject",
              "updateProject", "removeProject", "restoreProject", "upload",
              "removeAttachment", "createTicket", "updateTicket", "removeTicket",
              "restoreTicket", "importCsv", "createComment", "updateComment",
              "removeComment", "addDependency", "removeDependency"}
  BY DEF Endpoint, Route
<1>2. /\ Route["createUser"][2] = "USER" /\ Route["updateUser"][2] = "USER"
      /\ Route["removeUser"][2] = "USER"
      /\ Route["login"][2] = "" /\ Route["logout"][2] = ""
      /\ Route["createProject"][2] = "PROJECT" /\ Route["updateProject"][2] = "PROJECT"
      /\ Route["removeProject"][2] = "PROJECT" /\ Route["restoreProject"][2] = "PROJECT"
  BY DEF Route
<1>3. /\ Route["createTicket"][2] = "TICKET" /\ Route["updateTicket"][2] = "TICKET"
      /\ Route["removeTicket"][2] = "TICKET" /\ Route["restoreTicket"][2] = "TICKET"
      /\ Route["importCsv"][2] = "TICKET"
      /\ Route["createComment"][2] = "COMMENT" /\ Route["updateComment"][2] = "COMMENT"
      /\ Route["removeComment"][2] = "COMMENT"
      /\ Route["addDependency"][2] = "TICKET_DEPENDENCY"
      /\ Route["removeDependency"][2] = "TICKET_DEPENDENCY"
  BY DEF Route
<1>4. /\ Route["upload"][1] = "POST" /\ Route["upload"][2] = "ATTACHMENT"
      /\ Route["removeAttachment"][2] = "ATTACHMENT"
  BY DEF Route
<1>5. op \notin {"login", "logout", "importCsv"} => Logged(op)
  BY <1>1, <1>2, <1>3, <1>4 DEF Logged
<1>6. ASSUME Route[op][2] = "ATTACHMENT" PROVE op \in {"upload", "removeAttachment"}
  BY <1>1, <1>2, <1>3, <1>6
<1>7. Action("POST") = "CREATE"
  BY DEF Action
<1>8. QED
  BY <1>4, <1>5, <1>6, <1>7

\* The answers of a handler that fails after it has written.
Late(op, reply) ==
  \/ op \in {"restoreProject", "restoreTicket"} /\ reply = "404"
  \/ op \in {"createComment", "updateComment"} /\ reply \in {"404", "500"}

LEMMA LateAnswers ==
  ASSUME NEW r, NEW op
  PROVE  /\ FailedAfterWrite(r, op) <=> Late(op, pc[r])
         /\ FailedAfterWrite(r, op)' <=> Late(op, pc'[r])
BY DEF FailedAfterWrite, Late

\* A step of a handler that changes no table and logs nothing.
Silent(r) ==
  /\ OthersStay(r) /\ UNCHANGED <<attachments, trail, pending, changed, torn>>
  /\ pc[r] \notin Reply /\ pc'[r] \notin Midway
  /\ pc[r] \in Midway => /\ pc'[r] \in Reply
                         /\ \E op : <<r, op>> \in changed /\ Late(op, pc'[r])

LEMMA SilentLog ==
  ASSUME SInv, LogInv, NEW r \in Request, Silent(r)
  PROVE  LogInv'
<1>1. /\ UNCHANGED <<attachments, trail, pending, changed, torn>>
      /\ \A q \in Request \ {r} : pc'[q] = pc[q]
  BY DEF Silent, OthersStay, Stays
<1>2. \A c \in changed : c[1] \in Request
  BY DEF SInv, TablesTyped
<1>3. \A e \in Log : e.request \in Request
  BY DEF SInv, AuditTyped, Entry, Log
<1>4. Changes'
  <2>1. \A c \in changed : c[1] = r => pc'[r] \in Reply
    BY DEF LogInv, Changes, Silent, Reply
  <2>2. \A c \in changed' : pc'[c[1]] \in Reply \cup Midway
    BY <1>1, <1>2, <2>1 DEF LogInv, Changes
  <2>3. \A q \in Request : pc'[q] = "reread" => <<q, "restoreProject">> \in changed'
    BY <1>1 DEF LogInv, Changes, Silent, Midway
  <2>4. QED
    BY <1>1, <2>2, <2>3 DEF LogInv, Changes
<1>5. ASSUME NEW c \in changed PROVE Accounted(c)'
  <2>1. EntriesOf(c[1])' = EntriesOf(c[1])
    BY <1>1 DEF EntriesOf
  <2>2. CASE c[1] = r
    <3>1. PICK op : <<r, op>> \in changed /\ Late(op, pc'[r])
      BY <2>2 DEF LogInv, Changes, Silent
    <3>2. c = <<r, op>>
      BY <2>2, <3>1 DEF LogInv, Changes
    <3>3. QED
      BY <3>1, <3>2, LateAnswers DEF Accounted
  <2>3. CASE c[1] # r
    <3>1. pc'[c[1]] = pc[c[1]] /\ (c[1] \in InFlight => c[1] \in InFlight')
      BY <1>1, <1>2, <2>3 DEF InFlight
    <3>2. Accounted(c)
      BY DEF LogInv
    <3>3. QED
      BY <1>1, <2>1, <3>1, <3>2 DEF Accounted, FailedAfterWrite
  <2>4. QED
    BY <2>2, <2>3
<1>6. ASSUME NEW e \in Log PROVE Earned(e)' /\ Gone(e)'
  <2>1. Earned(e) /\ Gone(e) /\ "200" \in Reply
    BY DEF LogInv, Reply
  <2>2. Earned(e)'
    BY <1>1, <1>3, <2>1 DEF Earned, Silent
  <2>3. Gone(e)'
    BY <1>1, <2>1 DEF Gone, Silent
  <2>4. QED
    BY <2>2, <2>3
<1>7. Apart' /\ Log' = Log
  BY <1>1 DEF LogInv, Apart, Log
<1>8. QED
  BY <1>1, <1>4, <1>5, <1>6, <1>7 DEF LogInv

\* A step that completes a change of a table and answers.
Completes(r, op, subject) ==
  /\ OthersStay(r) /\ pc'[r] = "200" /\ op \in Endpoint \ {"login", "logout"}
  /\ pc[r] \notin Reply /\ (pc[r] \in Midway => <<r, op>> \in changed)
  /\ pending' = IF Logged(op) THEN pending \cup {EntryOf(r, op, subject)} ELSE pending
  /\ changed' = changed \cup {<<r, op>>} /\ UNCHANGED <<trail, torn>>
  /\ op = "removeAttachment" =>
       /\ subject \in File /\ attachments'[subject] = NoRow
       /\ subject \in Request => pc'[subject] = "200"
  /\ \A f \in File : attachments'[f] = NoRow \/ attachments[f] # NoRow \/ f = r

LEMMA CompletesLog ==
  ASSUME SInv, LogInv, NEW r \in Request, NEW op, NEW subject, Completes(r, op, subject)
  PROVE  LogInv'
<1> DEFINE new == EntryOf(r, op, subject)
<1>1. /\ UNCHANGED <<trail, torn>> /\ changed' = changed \cup {<<r, op>>}
      /\ \A q \in Request \ {r} : pc'[q] = pc[q]
      /\ pc'[r] = "200" /\ pc[r] \notin Reply /\ op \in Endpoint
  BY DEF Completes, OthersStay, Stays
<1>2. \A c \in changed : c[1] \in Request
  BY DEF SInv, TablesTyped
<1>3. \A e \in Log : e.request \in Request \ {r}
  BY <1>1 DEF SInv, AuditTyped, Entry, Log, LogInv, Earned, Reply
<1>4. new.request = r /\ new.type = Route[op][2] /\ new.action = Action(Route[op][1])
      /\ new.subject = subject
  BY DEF EntryOf
<1>5. \A c \in changed' : c[1] = r => c[2] = op
  BY <1>1 DEF LogInv, Changes, Completes
<1>6. Log' = Log \/ (Log' = Log \cup {new} /\ pending' = pending \cup {new})
  BY <1>1 DEF Log, Completes
<1>7. Changes'
  <2>1. \A c \in changed' : pc'[c[1]] \in Reply \cup Midway
    BY <1>1, <1>2 DEF LogInv, Changes, Reply
  <2>2. ASSUME NEW c \in changed', NEW d \in changed', c[1] = d[1] PROVE c = d
    <3>1. \A x \in changed' : x \in changed \/ x = <<r, op>>
      BY <1>1
    <3>2. \A x \in changed : x[1] = r => x = <<r, op>>
      BY <1>1 DEF LogInv, Changes, Completes
    <3>3. <<r, op>>[1] = r
      OBVIOUS
    <3>4. QED
      BY <2>2, <3>1, <3>2, <3>3 DEF LogInv, Changes
  <2>3. \A q \in Request : pc'[q] = "reread" => <<q, "restoreProject">> \in changed'
    BY <1>1 DEF LogInv, Changes
  <2>4. QED
    BY <2>1, <2>2, <2>3 DEF Changes
<1>8. ASSUME NEW c \in changed' PROVE Accounted(c)'
  <2>1. CASE c[1] = r /\ op # "importCsv"
    <3>1. Logged(op)
      BY <1>1, <2>1, Labels DEF Completes
    <3>2. Log' = Log \cup {new}
      BY <1>1, <3>1 DEF Log, Completes
    <3>3. EntriesOf(r)' = {new}
      BY <1>3, <1>4, <3>2 DEF EntriesOf, Log
    <3>4. QED
      BY <1>4, <1>5, <2>1, <3>3 DEF Accounted
  <2>2. CASE c[1] = r /\ op = "importCsv"
    BY <1>5, <2>2 DEF Accounted
  <2>3. CASE c[1] # r
    <3>1. c \in changed /\ c[1] \in Request
      BY <1>1, <1>2, <2>3
    <3>2. Accounted(c)
      BY <3>1 DEF LogInv
    <3>3. pc'[c[1]] = pc[c[1]] /\ (c[1] \in InFlight => c[1] \in InFlight')
      BY <1>1, <2>3, <3>1 DEF InFlight
    <3>4. EntriesOf(c[1])' = EntriesOf(c[1])
      BY <1>4, <1>6, <2>3 DEF EntriesOf, Log
    <3>5. QED
      BY <1>1, <3>2, <3>3, <3>4 DEF Accounted, FailedAfterWrite
  <2>4. QED
    BY <2>1, <2>2, <2>3
<1>9. ASSUME NEW e \in Log' PROVE Earned(e)' /\ Gone(e)'
  <2>1. CASE e \in Log
    <3>1. Earned(e) /\ Gone(e) /\ "200" \in Reply
      BY <2>1 DEF LogInv, Reply
    <3>2. Earned(e)'
      BY <1>1, <1>3, <2>1, <3>1 DEF Earned
    <3>3. Gone(e)'
      BY <1>1, <3>1 DEF Gone, Completes
    <3>4. QED
      BY <3>2, <3>3
  <2>2. CASE e = new
    <3>1. Earned(e)'
      <4>1. <<r, op>> \in changed' /\ <<r, op>>[1] = r
        BY <1>1
      <4>2. QED
        BY <1>1, <1>4, <2>2, <4>1 DEF Earned
    <3>2. Gone(e)'
      BY <1>1, <1>4, <2>2, Labels DEF Gone, Completes
    <3>3. QED
      BY <3>1, <3>2
  <2>3. QED
    BY <1>6, <2>1, <2>2
<1>10. Apart'
  <2>1. new \notin trail
    BY <1>3, <1>4 DEF Log
  <2>2. QED
    BY <1>1, <2>1 DEF LogInv, Apart, Completes
<1>11. QED
  BY <1>7, <1>8, <1>9, <1>10 DEF LogInv

-------------------------------------------------------------------------------
(* Every step of a handler is one or the other, but for a write before the *)
(* last step.                                                              *)

\* Handlers that answer without an entry, and go on.
LEMMA FailSilent ==
  ASSUME SInv, NEW r \in Request, NEW reply, Fail(r, reply), pc[r] \notin Reply,
         reply \in Reply,
         pc[r] \in Midway => \E op : <<r, op>> \in changed /\ Late(op, reply),
         UNCHANGED <<attachments, changed, torn>>
  PROVE  Silent(r)
<1>1. pc'[r] = reply
  BY AnswerMoves DEF Fail
<1>2. OthersStay(r)
  BY DEF Fail, Answer, Goto, OthersStay, Stays, SInv, LocalsTyped
<1>3. reply \notin Midway
  BY DEF Reply, Midway
<1>4. QED
  BY <1>1, <1>2, <1>3 DEF Silent, Fail, audit

LEMMA ContinueSilent ==
  ASSUME SInv, NEW r \in Request, NEW phase, Continue(r, phase), OthersStay(r),
         pc[r] \notin Reply \cup Midway, phase \notin Midway,
         UNCHANGED <<attachments, changed, torn>>
  PROVE  Silent(r)
BY ContinueMoves DEF Silent, Continue, audit

LEMMA SucceedCompletes ==
  ASSUME SInv, NEW r \in Request, NEW op \in Endpoint \ {"login", "logout"}, NEW subject,
         Succeed(r, op, subject), pc[r] \notin Reply,
         pc[r] \in Midway => <<r, op>> \in changed,
         changed' = changed \cup {<<r, op>>}, UNCHANGED torn,
         op # "removeAttachment", UNCHANGED attachments
  PROVE  Completes(r, op, subject)
<1>1. pc'[r] = "200"
  BY AnswerMoves DEF Succeed
<1>2. OthersStay(r)
  BY DEF Succeed, Answer, Goto, OthersStay, Stays, SInv, LocalsTyped
<1>3. QED
  BY <1>1, <1>2 DEF Completes, Succeed

\* Answers of /auth are not logged.
LEMMA AuthSilent ==
  ASSUME SInv, NEW r \in Request, NEW op \in {"login", "logout"}, Succeed(r, op, NoId),
         pc[r] \notin Reply \cup Midway, UNCHANGED <<attachments, changed, torn>>
  PROVE  Silent(r)
<1>1. Route["login"][2] = "" /\ Route["logout"][2] = ""
  BY DEF Route
<1>2. ~Logged(op)
  BY <1>1 DEF Logged
<1>3. pc'[r] = "200"
  BY AnswerMoves DEF Succeed
<1>4. OthersStay(r)
  BY DEF Succeed, Answer, Goto, OthersStay, Stays, SInv, LocalsTyped
<1>5. QED
  BY <1>2, <1>3, <1>4 DEF Silent, Succeed, Midway

Endpoints == {"createUser", "updateUser", "removeUser", "createProject", "updateProject",
              "removeProject", "restoreProject", "upload", "removeAttachment"} \cup OtherRoute

LEMMA AreEndpoints == \A op \in Endpoints : op \in Endpoint \ {"login", "logout"}
BY DEF Endpoints, OtherRoute, TicketRoute, CommentRoute, DependencyRoute, Endpoint, Route

\* A handler has written, and its answer is still to come.
Writes(r, op) ==
  /\ OthersStay(r) /\ UNCHANGED <<attachments, trail, pending, torn>>
  /\ pc[r] \notin Reply \cup Midway /\ pc'[r] \in Midway
  /\ pc'[r] = "reread" => op = "restoreProject"
  /\ changed' = changed \cup {<<r, op>>}

\* What a step of a handler does to the log.
Kind(r) == \/ Silent(r)
           \/ \E op, subject : Completes(r, op, subject)
           \/ \E op : Writes(r, op)

LEMMA AccountCallKind ==
  ASSUME SInv, NEW r \in Request, OthersStay(r), AccountCall(r)
  PROVE  Kind(r)
<1>1. pc[r] = "ready" /\ UNCHANGED <<attachments, changed, torn>>
  BY DEF AccountCall, FindTaken, FindForUpdate, FindForRemove, FindCredentials, Logout, Call,
         tables, history
<1>2. \/ \E reply \in Reply : Fail(r, reply)
      \/ \E phase \in {"hash", "reloadUser", "deleteUser", "compare"} : Continue(r, phase)
      \/ Succeed(r, "logout", NoId)
  BY DEF AccountCall, FindTaken, FindForUpdate, FindForRemove, FindCredentials, Logout, Reply
<1>3. QED
  BY <1>1, <1>2, FailSilent, ContinueSilent, AuthSilent DEF Kind, Midway, Reply

LEMMA AccountStepKind ==
  ASSUME SInv, NEW r \in Request, OthersStay(r), AccountStep(r)
  PROVE  Kind(r)
<1> USE DEF tables, history, Change
<1>1. pc[r] \in {"hash", "reloadUser", "writeUser", "deleteUser", "compare"}
      /\ UNCHANGED attachments
  BY DEF AccountStep, InsertUser, ReloadUser, SaveUser, DeleteUser, SignToken
<1>2. \/ \E reply \in Reply : Fail(r, reply) /\ UNCHANGED <<changed, torn>>
      \/ Continue(r, "writeUser") /\ UNCHANGED <<changed, torn>>
      \/ Succeed(r, "login", NoId) /\ UNCHANGED <<changed, torn>>
      \/ \E op \in {"createUser", "updateUser", "removeUser"} : \E subject :
           Succeed(r, op, subject) /\ Change(r, op)
  BY DEF AccountStep, InsertUser, ReloadUser, SaveUser, DeleteUser, SignToken, Reply
<1>3. CASE \E reply \in Reply : Fail(r, reply) /\ UNCHANGED <<changed, torn>>
  BY <1>1, <1>3, FailSilent DEF Kind, Midway, Reply
<1>4. CASE Continue(r, "writeUser") /\ UNCHANGED <<changed, torn>>
  BY <1>1, <1>4, ContinueSilent DEF Kind, Midway, Reply
<1>5. CASE Succeed(r, "login", NoId) /\ UNCHANGED <<changed, torn>>
  BY <1>1, <1>5, AuthSilent DEF Kind, Midway, Reply
<1>6. CASE \E op \in {"createUser", "updateUser", "removeUser"} : \E subject :
             Succeed(r, op, subject) /\ Change(r, op)
  BY <1>1, <1>6, SucceedCompletes, AreEndpoints DEF Kind, Midway, Reply, Endpoints
<1>7. QED
  BY <1>2, <1>3, <1>4, <1>5, <1>6

LEMMA ProjectCallKind ==
  ASSUME SInv, NEW r \in Request, OthersStay(r), ProjectCall(r)
  PROVE  Kind(r)
<1> USE DEF tables, history, Change
<1>1. pc[r] = "ready" /\ UNCHANGED attachments
  BY DEF ProjectCall, CreateProject, FindProject, FindToRemove, FindDeleted, Call
<1>2. \/ \E reply \in Reply : Fail(r, reply) /\ UNCHANGED <<changed, torn>>
      \/ \E phase \in {"reloadProject", "softRemove", "undelete"} :
           Continue(r, phase) /\ UNCHANGED <<changed, torn>>
      \/ Succeed(r, "createProject", r) /\ Change(r, "createProject")
  BY DEF ProjectCall, CreateProject, FindProject, FindToRemove, FindDeleted, Reply
<1>3. CASE \E reply \in Reply : Fail(r, reply) /\ UNCHANGED <<changed, torn>>
  BY <1>1, <1>3, FailSilent DEF Kind, Midway, Reply
<1>4. CASE \E phase \in {"reloadProject", "softRemove", "undelete"} :
             Continue(r, phase) /\ UNCHANGED <<changed, torn>>
  BY <1>1, <1>4, ContinueSilent DEF Kind, Midway, Reply
<1>5. CASE Succeed(r, "createProject", r) /\ Change(r, "createProject")
  BY <1>1, <1>5, SucceedCompletes, AreEndpoints DEF Kind, Midway, Reply, Endpoints
<1>6. QED
  BY <1>2, <1>3, <1>4, <1>5

LEMMA ProjectStepKind ==
  ASSUME SInv, LogInv, NEW r \in Request, OthersStay(r), ProjectStep(r)
  PROVE  Kind(r)
<1> USE DEF tables, history, Change
<1>1. CASE RereadProject(r)
  <2>1. pc[r] = "reread" /\ UNCHANGED <<attachments, changed, torn>>
    BY <1>1 DEF RereadProject
  <2>2. changed = changed \cup {<<r, "restoreProject">>}
    BY <2>1 DEF LogInv, Changes
  <2>3. CASE Fail(r, "404")
    <3>1. <<r, "restoreProject">> \in changed /\ Late("restoreProject", "404")
      BY <2>1 DEF LogInv, Changes, Late
    <3>2. QED
      BY <2>1, <2>3, <3>1, FailSilent DEF Kind, Reply
  <2>4. CASE Succeed(r, "restoreProject", target[r])
    BY <2>1, <2>2, <2>4, SucceedCompletes, AreEndpoints DEF Kind, Midway, Reply, Endpoints
  <2>5. QED
    BY <1>1, <2>3, <2>4 DEF RereadProject
<1>2. CASE UndeleteProject(r)
  <2>1. Writes(r, "restoreProject")
    BY <1>2, ContinueMoves DEF UndeleteProject, Writes, Midway, Reply, Continue, audit
  <2>2. QED
    BY <2>1 DEF Kind
<1>3. CASE ~RereadProject(r) /\ ~UndeleteProject(r)
  <2>1. pc[r] \in {"reloadProject", "writeProject", "softRemove"} /\ UNCHANGED attachments
    BY <1>3 DEF ProjectStep, ReloadProject, SaveProject, SoftRemoveProject
  <2>2. \/ Continue(r, "writeProject") /\ UNCHANGED <<changed, torn>>
        \/ \E op \in {"updateProject", "removeProject"} :
             Succeed(r, op, target[r]) /\ Change(r, op)
    BY <1>3 DEF ProjectStep, ReloadProject, SaveProject, SoftRemoveProject
  <2>3. CASE Continue(r, "writeProject") /\ UNCHANGED <<changed, torn>>
    BY <2>1, <2>3, ContinueSilent DEF Kind, Midway, Reply
  <2>4. CASE \E op \in {"updateProject", "removeProject"} :
               Succeed(r, op, target[r]) /\ Change(r, op)
    BY <2>1, <2>4, SucceedCompletes, AreEndpoints DEF Kind, Midway, Reply, Endpoints
  <2>5. QED
    BY <2>2, <2>3, <2>4
<1>4. QED
  BY <1>1, <1>2, <1>3

LEMMA AttachmentKind ==
  ASSUME FInv, NEW r \in Request, OthersStay(r), AttachmentCall(r) \/ AttachmentStep(r)
  PROVE  Kind(r)
<1> USE DEF tables, files, history, Change
<1>1. CASE StoreFile(r) \/ FindAttachment(r) \/ LookupTicket(r)
  <2>1. pc[r] \in {"ready", "lookup"} /\ UNCHANGED <<attachments, changed, torn>>
    BY <1>1 DEF StoreFile, FindAttachment, LookupTicket, Call
  <2>2. \/ \E reply \in Reply : Fail(r, reply)
        \/ \E phase \in {"lookup", "deleteRow", "insertFile"} : Continue(r, phase)
    BY <1>1 DEF StoreFile, FindAttachment, LookupTicket, Reply
  <2>3. QED
    BY <2>1, <2>2, FailSilent, ContinueSilent DEF Kind, Midway, Reply, FInv
<1>2. CASE InsertAttachment(r)
  <2>1. pc[r] = "insertFile" /\ pc'[r] = "200"
    BY <1>2, AnswerMoves DEF InsertAttachment, Succeed, FInv
  <2>2. \A f \in File \ {r} : attachments'[f] = attachments[f]
    BY <1>2 DEF InsertAttachment, FInv, SInv, TablesTyped
  <2>3. Completes(r, "upload", r)
    BY <1>2, <2>1, <2>2, AreEndpoints
    DEF InsertAttachment, Succeed, Completes, Midway, Reply, Endpoints
  <2>4. QED
    BY <2>3 DEF Kind
<1>3. CASE DeleteAttachment(r)
  <2> DEFINE f == target[r]
  <2>1. pc[r] = "deleteRow" /\ pc'[r] = "200" /\ f \in File
    BY <1>3, AnswerMoves DEF DeleteAttachment, Succeed, FInv, SInv, Holds
  <2>2. attachments'[f] = NoRow /\ \A g \in File \ {f} : attachments'[g] = attachments[g]
    BY <1>3, <2>1 DEF DeleteAttachment, FInv, SInv, TablesTyped
  <2>3. f \in Request => pc[f] = "200"
    BY <2>1, InRemoving DEF FInv, Uploads
  <2>4. f \in Request => pc'[f] = "200"
    BY <2>1, <2>3 DEF OthersStay, Stays
  <2>5. Completes(r, "removeAttachment", f)
    BY <1>3, <2>1, <2>2, <2>4, AreEndpoints
    DEF DeleteAttachment, Succeed, Completes, Midway, Reply, Endpoints
  <2>6. QED
    BY <2>5 DEF Kind
<1>4. QED
  BY <1>1, <1>2, <1>3 DEF AttachmentCall, AttachmentStep

LEMMA WriteElsewhereKind ==
  ASSUME SInv, NEW r \in Request, OthersStay(r), OtherCall(r) \/ Refused(r)
  PROVE  Kind(r)
<1> USE DEF tables, history, Change
<1>1. pc[r] = "ready" /\ UNCHANGED attachments
  BY DEF OtherCall, TicketCall, CommentCall, DependencyCall, WriteElsewhere, Refused, Call
<1>2. \/ \E reply \in Reply : Fail(r, reply) /\ UNCHANGED <<changed, torn>>
      \/ \E op : Continue(r, "written") /\ Change(r, op)
  BY DEF OtherCall, TicketCall, CommentCall, DependencyCall, WriteElsewhere, Refused, Reply
<1>3. CASE \E reply \in Reply : Fail(r, reply) /\ UNCHANGED <<changed, torn>>
  BY <1>1, <1>3, FailSilent DEF Kind, Midway, Reply
<1>4. ASSUME NEW op, Continue(r, "written"), Change(r, op) PROVE Kind(r)
  <2>1. Writes(r, op)
    BY <1>1, <1>4, ContinueMoves DEF Writes, Midway, Reply, Continue, audit
  <2>2. QED
    BY <2>1 DEF Kind
<1>5. QED
  BY <1>2, <1>3, <1>4

LEMMA OtherStepKind ==
  ASSUME SInv, NEW r \in Request, OthersStay(r), OtherStep(r)
  PROVE  Kind(r)
<1>1. UNCHANGED <<attachments, changed, torn>>
  BY DEF OtherStep, tables, history
<1>2. CASE ReturnElsewhere(r)
  <2>1. PICK op \in OtherRoute : Written(r, op) /\ Succeed(r, op, Elsewhere)
    BY <1>2 DEF ReturnElsewhere
  <2>2. op # "removeAttachment" /\ op \in Endpoint \ {"login", "logout"}
    BY AreEndpoints DEF Endpoints, OtherRoute, TicketRoute, CommentRoute, DependencyRoute
  <2>3. pc[r] \notin Reply /\ changed' = changed \cup {<<r, op>>}
    BY <1>1, <2>1 DEF Written, Reply
  <2>4. Completes(r, op, Elsewhere)
    BY <1>1, <2>1, <2>2, <2>3, SucceedCompletes DEF Written
  <2>5. QED
    BY <2>4 DEF Kind
<1>3. CASE RestoredNotFound(r)
  <2>1. Written(r, "restoreTicket") /\ Fail(r, "404") /\ Late("restoreTicket", "404")
    BY <1>3 DEF RestoredNotFound, Late
  <2>2. QED
    BY <1>1, <2>1, FailSilent DEF Kind, Written, Reply
<1>4. CASE CommentWrittenFails(r)
  <2>1. PICK op \in {"createComment", "updateComment"}, reply \in {"404", "500"} :
          Written(r, op) /\ Fail(r, reply) /\ Late(op, reply)
    BY <1>4 DEF CommentWrittenFails, Late
  <2>2. QED
    BY <1>1, <2>1, FailSilent DEF Kind, Written, Reply
<1>5. QED
  BY <1>2, <1>3, <1>4 DEF OtherStep

\* A write whose answer is still to come.
LEMMA WritesLog ==
  ASSUME SInv, LogInv, NEW r \in Request, NEW op, Writes(r, op)
  PROVE  LogInv'
<1>1. /\ pc[r] \notin Reply \cup Midway /\ pc'[r] \in Midway
      /\ UNCHANGED <<attachments, trail, pending, torn>>
      /\ changed' = changed \cup {<<r, op>>}
      /\ \A q \in Request \ {r} : pc'[q] = pc[q]
  BY DEF Writes, OthersStay, Stays
<1>2. \A c \in changed : c[1] \in Request \ {r}
  BY <1>1 DEF SInv, TablesTyped, LogInv, Changes
<1>3. \A e \in Log : e.request \in Request \ {r}
  BY <1>1 DEF SInv, AuditTyped, Entry, Log, LogInv, Earned, Reply
<1>4. Changes'
  <2>1. <<r, op>>[1] = r
    OBVIOUS
  <2>2. \A c \in changed' : pc'[c[1]] \in Reply \cup Midway
    BY <1>1, <1>2, <2>1 DEF LogInv, Changes
  <2>3. \A c, d \in changed' : c[1] = d[1] => c = d
    BY <1>1, <1>2, <2>1 DEF LogInv, Changes
  <2>4. \A q \in Request : pc'[q] = "reread" => <<q, "restoreProject">> \in changed'
    BY <1>1 DEF LogInv, Changes, Writes
  <2>5. QED
    BY <2>2, <2>3, <2>4 DEF Changes
<1>5. r \in InFlight'
  BY <1>1 DEF InFlight, Midway, Resting, Reply
<1>6. ASSUME NEW c \in changed' PROVE Accounted(c)'
  <2>1. CASE c = <<r, op>>
    BY <1>5, <2>1 DEF Accounted
  <2>2. CASE c \in changed
    <3>1. Accounted(c)
      BY <2>2 DEF LogInv
    <3>2. pc'[c[1]] = pc[c[1]] /\ (c[1] \in InFlight => c[1] \in InFlight')
      BY <1>1, <1>2, <2>2 DEF InFlight
    <3>3. EntriesOf(c[1])' = EntriesOf(c[1])
      BY <1>1 DEF EntriesOf
    <3>4. QED
      BY <1>1, <3>1, <3>2, <3>3 DEF Accounted, FailedAfterWrite
  <2>3. QED
    BY <1>1, <2>1, <2>2
<1>7. ASSUME NEW e \in Log PROVE Earned(e)' /\ Gone(e)'
  <2>1. Earned(e) /\ Gone(e)
    BY DEF LogInv
  <2>2. "200" \in Reply
    BY DEF Reply
  <2>3. QED
    BY <1>1, <1>3, <2>1, <2>2 DEF Earned, Gone
<1>8. Apart' /\ Log' = Log
  BY <1>1 DEF LogInv, Apart, Log
<1>9. QED
  BY <1>4, <1>6, <1>7, <1>8 DEF LogInv

LEMMA HandlerLog ==
  ASSUME FInv, LogInv, NEW r \in Request, ServerCall(r) \/ ServerStep(r)
  PROVE  LogInv'
<1>1. SInv /\ OthersStay(r)
  BY HandlerGood DEF FInv, Good
<1>2. Kind(r)
  BY <1>1, AccountCallKind, AccountStepKind, ProjectCallKind, ProjectStepKind,
     AttachmentKind, WriteElsewhereKind, OtherStepKind DEF ServerCall, ServerStep
<1>3. QED
  BY <1>1, <1>2, SilentLog, CompletesLog, WritesLog DEF Kind

LEMMA InsertEntryLog ==
  ASSUME LogInv, NEW e \in pending, InsertEntry(e)
  PROVE  LogInv'
<1>1. /\ pending' = pending \ {e} /\ trail' = trail \cup {e} /\ Log' = Log
      /\ UNCHANGED <<attachments, pc, changed, torn>>
  BY DEF InsertEntry, Log, tables, history
<1>2. \A r : EntriesOf(r)' = EntriesOf(r)
  BY <1>1 DEF EntriesOf, Log
<1>3. Apart'
  BY <1>1 DEF LogInv, Apart
<1>4. Changes' /\ \A c \in changed' : Accounted(c)'
  BY <1>1, <1>2 DEF LogInv, Changes, Accounted, FailedAfterWrite, InFlight
<1>5. \A d \in Log' : Earned(d)' /\ Gone(d)'
  BY <1>1 DEF LogInv, Earned, Gone
<1>6. QED
  BY <1>3, <1>4, <1>5 DEF LogInv

LEMMA CrashLog ==
  ASSUME SInv, LogInv, Crash
  PROVE  LogInv'
<1>1. /\ pc' = [q \in Request |-> IF q \in InFlight THEN "lost" ELSE pc[q]]
      /\ pending' = {} /\ UNCHANGED <<attachments, trail, changed>>
      /\ torn \cup InFlight \cup {e.request : e \in pending} \subseteq torn'
  BY DEF Crash, tables
<1>2. /\ \A q \in Request : q \in InFlight => pc'[q] = "lost"
      /\ \A q \in Request : q \notin InFlight => pc'[q] = pc[q]
      /\ \A q \in Request : pc'[q] # "reread"
      /\ \A q \in Request : pc[q] \in Midway => pc'[q] = "lost"
      /\ \A q \in Request : pc[q] \in Reply => q \notin InFlight
  BY <1>1 DEF InFlight, Midway, Resting, Reply
<1>3. \A c \in changed : c[1] \in Request
  BY DEF SInv, TablesTyped
<1>4. Changes'
  BY <1>1, <1>2, <1>3 DEF LogInv, Changes, Reply
<1>5. ASSUME NEW c \in changed PROVE Accounted(c)'
  <2>1. Accounted(c) /\ c[1] \in Request
    BY <1>3 DEF LogInv
  <2>2. CASE c[1] \in InFlight \cup torn
    BY <1>1, <2>2 DEF Accounted
  <2>3. CASE c[2] = "importCsv"
    BY <2>3 DEF Accounted
  <2>4. CASE FailedAfterWrite(c[1], c[2])
    BY <1>2, <2>1, <2>4 DEF Accounted, FailedAfterWrite, Reply
  <2>5. ASSUME NEW e \in EntriesOf(c[1]), EntriesOf(c[1]) = {e}, e.type = Route[c[2]][2]
        PROVE  Accounted(c)'
    <3>1. CASE e \in pending
      <4>1. e.request = c[1]
        BY <2>5 DEF EntriesOf
      <4>2. c[1] \in torn'
        BY <1>1, <3>1, <4>1
      <4>3. QED
        BY <4>2 DEF Accounted
    <3>2. CASE e \in trail
      <4>1. EntriesOf(c[1])' = {e}
        BY <1>1, <2>5, <3>2 DEF EntriesOf
      <4>2. QED
        BY <2>5, <4>1 DEF Accounted
    <3>3. QED
      BY <3>1, <3>2 DEF EntriesOf
  <2>6. QED
    BY <2>1, <2>2, <2>3, <2>4, <2>5 DEF Accounted
<1>6. ASSUME NEW e \in Log' PROVE Earned(e)' /\ Gone(e)'
  <2>1. e \in Log /\ Earned(e) /\ Gone(e) /\ e.request \in Request
    BY <1>1 DEF Log, LogInv, SInv, AuditTyped, Entry
  <2>2. QED
    BY <1>1, <1>2, <2>1 DEF Earned, Gone, Reply
<1>7. Apart'
  BY <1>1 DEF Apart
<1>8. QED
  BY <1>1, <1>4, <1>5, <1>6, <1>7 DEF LogInv

LEMMA NextLog == FInv /\ LogInv /\ [Next]_vars => LogInv'
<1> SUFFICES ASSUME FInv, LogInv, [Next]_vars PROVE LogInv'
  OBVIOUS
<1>1. ASSUME UNCHANGED <<attachments, trail, pending, pc, changed, torn>> PROVE LogInv'
  BY <1>1 DEF LogInv, Changes, Apart, Accounted, FailedAfterWrite, Log, Earned, Gone, EntriesOf,
            InFlight
<1>2. ASSUME NEW f \in unlinking, Unlink(f) PROVE LogInv'
  BY <1>1, <1>2 DEF Unlink, tables, audit, history
<1>3. CASE UNCHANGED vars
  BY <1>1, <1>3 DEF vars, tables, audit, history
<1>4. QED
  BY <1>2, <1>3, HandlerLog, InsertEntryLog, CrashLog DEF Next, FInv

\* Every handler that changed a table and returned has one audit entry, imports
\* apart.  The other changes without one are those of requests in flight or cut
\* off by a crash, of restores of a project or a ticket that answered 404, and
\* of writes of a comment that answered 404 or 500.  No entry is about a request
\* that wrote nothing; a removal of an attachment that is logged stays.
THEOREM ChangesAreLogged == Spec => []ChangesLogged
<1>1. Init => LogInv
  BY DEF Init, LogInv, Changes, Apart, Log
<1>2. FInv /\ LogInv => ChangesLogged
  BY LogParts DEF FInv
<1>3. QED
  BY <1>1, <1>2, InitFiles, NextFiles, NextLog, PTL DEF Spec
===============================================================================

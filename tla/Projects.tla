-------------------------------- MODULE Projects -------------------------------
(***************************************************************************)
(* ProjectsService: projects are owned by users, edited with save(),       *)
(* soft-deleted, and restored by administrators.                           *)
(***************************************************************************)
EXTENDS Accounts

FindableProject(p) == projects[p] # NoRow /\ ~projects[p].deleted
DeletedProject(p)  == projects[p] # NoRow /\ projects[p].deleted

\* The INSERT of create; a foreign key refuses an owner that does not exist.
CreateProject(r) ==
  /\ Call(r, "createProject")
  /\ \E owner \in User \cup {Elsewhere}, name \in Text :
       \/ /\ owner \notin Registered
          /\ Fail(r, "500") /\ UNCHANGED <<projects, history>>
       \/ /\ owner \in Registered
          /\ projects' = [projects EXCEPT ![r] =
               [name |-> name, owner |-> owner, deleted |-> FALSE]]
          /\ Succeed(r, "createProject", r) /\ Change(r, "createProject")
  /\ UNCHANGED <<users, attachments, files, session, crashes>>

-------------------------------------------------------------------------------
(* update                                                                  *)

FindProject(r) ==
  /\ Call(r, "updateProject")
  /\ \E p \in Project, dto \in UpdateProjectDtos :
       \/ ~FindableProject(p) /\ Fail(r, "404")
       \/ /\ FindableProject(p)
          /\ target' = [target EXCEPT ![r] = p]
          /\ body'   = [body EXCEPT ![r] = dto]
          /\ loaded' = [loaded EXCEPT ![r] = projects[p]]
          /\ Continue(r, "reloadProject")
          /\ UNCHANGED seen
  /\ UNCHANGED <<tables, files, session, crashes, history>>

Renamed(row, dto) == [row EXCEPT !.name = Given(dto.name, @)]

\* The SELECT of save(); it finds soft-deleted rows, too.
ReloadProject(r) ==
  /\ pc[r] = "reloadProject"
  /\ seen' = [seen EXCEPT ![r] = projects[target[r]]]
  /\ Continue(r, "writeProject")
  /\ UNCHANGED <<tables, files, session, crashes, target, body, loaded, history>>

MergedProject(entity, reloaded, current) ==
  [name    |-> Column(entity.name, reloaded.name, current.name),
   owner   |-> Column(entity.owner, reloaded.owner, current.owner),
   deleted |-> Column(entity.deleted, reloaded.deleted, current.deleted)]

SaveProject(r) ==
  /\ pc[r] = "writeProject"
  /\ projects' = [projects EXCEPT ![target[r]] =
       MergedProject(Renamed(loaded[r], body[r]), seen[r], @)]
  /\ Succeed(r, "updateProject", target[r]) /\ Change(r, "updateProject")
  /\ UNCHANGED <<users, attachments, files, session, crashes>>

-------------------------------------------------------------------------------
(* remove and restore                                                      *)

MarkProject(p, flag) == projects' = [projects EXCEPT ![p].deleted = flag]

FindToRemove(r) ==
  /\ Call(r, "removeProject")
  /\ \E p \in Project :
       \/ ~FindableProject(p) /\ Fail(r, "404")
       \/ /\ FindableProject(p)
          /\ target' = [target EXCEPT ![r] = p]
          /\ Continue(r, "softRemove")
          /\ UNCHANGED <<body, loaded, seen>>
  /\ UNCHANGED <<tables, files, session, crashes, history>>

SoftRemoveProject(r) ==
  /\ pc[r] = "softRemove"
  /\ MarkProject(target[r], TRUE)
  /\ Succeed(r, "removeProject", target[r]) /\ Change(r, "removeProject")
  /\ UNCHANGED <<users, attachments, files, session, crashes>>

\* Missing projects and those that are not deleted answer 404.
FindDeleted(r) ==
  /\ Call(r, "restoreProject")
  /\ \E p \in Project :
       \/ ~DeletedProject(p) /\ Fail(r, "404")
       \/ /\ DeletedProject(p)
          /\ target' = [target EXCEPT ![r] = p]
          /\ Continue(r, "undelete")
          /\ UNCHANGED <<body, loaded, seen>>
  /\ UNCHANGED <<tables, files, session, crashes, history>>

UndeleteProject(r) ==
  /\ pc[r] = "undelete"
  /\ MarkProject(target[r], FALSE)
  /\ Change(r, "restoreProject")
  /\ Continue(r, "reread")
  /\ UNCHANGED <<users, attachments, files, session, crashes, locals>>

\* The findOne for the response.
RereadProject(r) ==
  /\ pc[r] = "reread"
  /\ IF FindableProject(target[r]) THEN Succeed(r, "restoreProject", target[r])
                                   ELSE Fail(r, "404")
  /\ UNCHANGED <<tables, files, session, crashes, history>>

ProjectCall(r) == CreateProject(r) \/ FindProject(r) \/ FindToRemove(r) \/ FindDeleted(r)
ProjectStep(r) == ReloadProject(r) \/ SaveProject(r) \/ SoftRemoveProject(r)
                  \/ UndeleteProject(r) \/ RereadProject(r)
===============================================================================

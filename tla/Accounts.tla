-------------------------------- MODULE Accounts -------------------------------
(***************************************************************************)
(* UsersService and AuthService.  An account is registered, edited and     *)
(* removed; logging in issues a token with the role the account had when   *)
(* it was looked up, logging out puts the token on the deny-list.          *)
(***************************************************************************)
EXTENDS ServerStore

Registered == {u \in User : users[u] # NoRow}

\* The columns with a unique constraint.
Taken(account) == \E u \in Registered : \/ users[u].username = account.username
                                        \/ users[u].email = account.email

-------------------------------------------------------------------------------
(* create                                                                  *)

\* The SELECT by username or email.
FindTaken(r) ==
  /\ Call(r, "createUser")
  /\ \E dto \in CreateUserDtos :
       \/ Taken(dto) /\ Fail(r, "409")
       \/ /\ ~Taken(dto)
          /\ body' = [body EXCEPT ![r] = dto]
          /\ Continue(r, "hash")
          /\ UNCHANGED <<target, loaded, seen>>
  /\ UNCHANGED <<tables, files, session, crashes, history>>

\* Mutant of InsertUser: the columns of the entity are not unique.
InsertUserAnyway(r) ==
  /\ pc[r] = "hash"
  /\ users' = [users EXCEPT ![r] = body[r]]
  /\ Succeed(r, "createUser", r)
  /\ Change(r, "createUser")
  /\ UNCHANGED <<projects, attachments, files, session, crashes>>

\* The INSERT once bcrypt has hashed the password; the table's unique
\* constraints refuse a name that was registered meanwhile.
InsertUser(r) ==
  /\ pc[r] = "hash"
  /\ \/ Taken(body[r]) /\ Fail(r, "500") /\ UNCHANGED <<users, history>>
     \/ /\ ~Taken(body[r])
        /\ users' = [users EXCEPT ![r] = body[r]]
        /\ Succeed(r, "createUser", r)
        /\ Change(r, "createUser")
  /\ UNCHANGED <<projects, attachments, files, session, crashes>>

-------------------------------------------------------------------------------
(* update                                                                  *)

FindForUpdate(r) ==
  /\ Call(r, "updateUser")
  /\ \E u \in User, dto \in UpdateUserDtos :
       \/ users[u] = NoRow /\ Fail(r, "404")
       \/ /\ users[u] # NoRow
          /\ target' = [target EXCEPT ![r] = u]
          /\ body'   = [body EXCEPT ![r] = dto]
          /\ loaded' = [loaded EXCEPT ![r] = users[u]]
          /\ Continue(r, "reloadUser")
          /\ UNCHANGED seen
  /\ UNCHANGED <<tables, files, session, crashes, history>>

\* Object.assign(user, dto).
Amended(row, dto) == [row EXCEPT !.fullName = Given(dto.fullName, @),
                                 !.role     = Given(dto.role, @)]

ReloadUser(r) ==
  /\ pc[r] = "reloadUser"
  /\ seen' = [seen EXCEPT ![r] = users[target[r]]]
  /\ Continue(r, "writeUser")
  /\ UNCHANGED <<tables, files, session, crashes, target, body, loaded, history>>

\* Mutant of MergedUser: all columns of the entity are written.
OverwrittenUser(entity, reloaded, current) == IF current = NoRow THEN current ELSE entity

\* The UPDATE of save(user); no row is left to update when it is gone.
MergedUser(entity, reloaded, current) ==
  IF current = NoRow THEN current
  ELSE [username |-> Column(entity.username, reloaded.username, current.username),
        email    |-> Column(entity.email, reloaded.email, current.email),
        fullName |-> Column(entity.fullName, reloaded.fullName, current.fullName),
        role     |-> Column(entity.role, reloaded.role, current.role)]

\* The write of save(user): a row that the reload did not find is inserted under
\* its old id, if nobody has that id, name or address by now.
SaveUser(r) ==
  /\ pc[r] = "writeUser"
  /\ LET u      == target[r]
         entity == Amended(loaded[r], body[r])
     IN  \/ /\ seen[r] = NoRow /\ (users[u] # NoRow \/ Taken(entity))
            /\ Fail(r, "500") /\ UNCHANGED <<users, history>>
         \/ /\ seen[r] = NoRow /\ users[u] = NoRow /\ ~Taken(entity)
            /\ users' = [users EXCEPT ![u] = entity]
            /\ Succeed(r, "updateUser", u) /\ Change(r, "updateUser")
         \/ /\ seen[r] # NoRow
            /\ users' = [users EXCEPT ![u] = MergedUser(entity, seen[r], @)]
            /\ Succeed(r, "updateUser", u) /\ Change(r, "updateUser")
  /\ UNCHANGED <<projects, attachments, files, session, crashes>>

-------------------------------------------------------------------------------
(* remove                                                                  *)

FindForRemove(r) ==
  /\ Call(r, "removeUser")
  /\ \E u \in User :
       \/ users[u] = NoRow /\ Fail(r, "404")
       \/ /\ users[u] # NoRow
          /\ target' = [target EXCEPT ![r] = u]
          /\ Continue(r, "deleteUser")
          /\ UNCHANGED <<body, loaded, seen>>
  /\ UNCHANGED <<tables, files, session, crashes, history>>

\* A row some foreign key refers to; soft-deleted projects still do.
InUse(u) == u \in Referenced \/ \E p \in Project : projects[p] # NoRow /\ projects[p].owner = u

\* The DELETE by id.
DeleteUser(r) ==
  /\ pc[r] = "deleteUser"
  /\ \/ /\ users[target[r]] # NoRow /\ InUse(target[r])
        /\ Fail(r, "500") /\ UNCHANGED <<users, history>>
     \/ /\ users[target[r]] = NoRow \/ ~InUse(target[r])
        /\ users' = [users EXCEPT ![target[r]] = NoRow]
        /\ Succeed(r, "removeUser", target[r]) /\ Change(r, "removeUser")
  /\ UNCHANGED <<projects, attachments, files, session, crashes>>

-------------------------------------------------------------------------------
(* login and logout; /auth routes are not logged                           *)

Named(name) == {u \in Registered : users[u].username = name}

FindCredentials(r) ==
  /\ Call(r, "login")
  /\ \E name \in Name :
       \/ Named(name) = {} /\ Fail(r, "401")
       \/ /\ \E u \in Named(name) : loaded' = [loaded EXCEPT ![r] = users[u]]
          /\ Continue(r, "compare")
          /\ UNCHANGED <<target, body, seen>>
  /\ UNCHANGED <<tables, files, session, crashes, history>>

\* bcrypt.compare has answered; the token carries what the SELECT returned.
SignToken(r) ==
  /\ pc[r] = "compare"
  /\ \/ Fail(r, "401") /\ UNCHANGED claims
     \/ Succeed(r, "login", NoId) /\ claims' = [claims EXCEPT ![r] = loaded[r].role]
  /\ UNCHANGED <<tables, files, revoked, crashes, history>>

Logout(r) ==
  /\ Call(r, "logout")
  /\ \E k \in Token : Valid(k) /\ revoked' = revoked \cup {k}
  /\ Succeed(r, "logout", NoId)
  /\ UNCHANGED <<tables, files, claims, crashes, history>>

AccountCall(r) == FindTaken(r) \/ FindForUpdate(r) \/ FindForRemove(r)
                  \/ FindCredentials(r) \/ Logout(r)
AccountStep(r) == InsertUser(r) \/ ReloadUser(r) \/ SaveUser(r) \/ DeleteUser(r) \/ SignToken(r)
===============================================================================

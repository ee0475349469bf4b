------------------------------- MODULE Comments --------------------------------
(***************************************************************************)
(* CommentsService: comments on tickets, and the mentions of users that    *)
(* are kept in step with the content.  A handler is a sequence of SQL      *)
(* statements, each one step, as in TicketStore; save(comment) also takes  *)
(* the loaded `mentions` of the comment for the truth about that relation. *)
(* The users do not change, so looking them up is no step of its own.      *)
(***************************************************************************)
EXTENDS Integers, FiniteSets

CONSTANTS
  Ticket,         \* ids in URLs
  Existing,       \* ids of existing tickets
  User,           \* ids of existing users
  Content,        \* contents of comments
  Named,          \* the existing users a content mentions with @username
  Request,        \* HTTP requests, each served once
  Seeded,         \* ids of the comments there are at the start
  UpdateDtos,     \* PATCH bodies the clients send
  InitContents,   \* contents the seeded comments may have
  MaxInFlight,    \* bound: handlers that are in flight at the same time
  MaxCrashes,     \* bound: process crashes
  NoRow, NoBody, NoId, Absent, Seed

\* An id of a comment is named by the request that created it.
Comment == Request \cup Seeded

\* updated stands for updatedAt: the request whose write set it.
Row == [ticket  : Existing,
        content : Content,
        version : Nat,
        updated : Request \cup {Seed}]

\* A row of `mentions`; its primary key is the request that inserted it and the user.
Mention == [comment : Comment, user : User, by : Request \cup {Seed}]

Dto == [content : Content \cup {Absent}, version : Nat \cup {Absent}]

Reply   == {"200", "404", "500", "lost"}
Resting == {"ready"} \cup Reply
Phase   == {"reload", "relist", "write", "clear", "insert", "reread", "delete"} \cup Resting

ASSUME ContentAssumption == Named \in [Content -> SUBSET User]
ASSUME TicketAssumption  == Existing \subseteq Ticket
ASSUME IdsAssumption     == Request \cap Seeded = {} /\ NoId \notin Comment /\ Seed \notin Request
ASSUME NullsAssumption   == NoRow \notin Row /\ NoBody \notin Dto /\ Absent \notin Content \cup Nat
ASSUME BodyAssumption    == UpdateDtos \subseteq Dto
ASSUME SeedsAssumption   == InitContents \subseteq [Seeded -> Content]
ASSUME LimitAssumption   == MaxInFlight \in Nat /\ MaxCrashes \in Nat

VARIABLES
  comments,  \* table comments
  mentions,  \* table mentions
  crashes,   \* crashes so far
  pc,        \* where each handler is
  target,    \* the comment it works on
  body,      \* its DTO
  loaded,    \* the row loadOne returned
  held,      \* the mentions loadOne returned with it
  seen,      \* the row as save() reloaded it
  listed,    \* the mentions as save() reloaded them
  met        \* history: handlers that were on a comment together with another

tables == <<comments, mentions>>
locals == <<target, body, loaded, held, seen, listed>>
vars   == <<tables, crashes, pc, locals, met>>

MentionsOf(c) == {m \in mentions : m.comment = c}
Mentioned(c)  == {m.user : m \in MentionsOf(c)}

TypeOK ==
  /\ comments \in [Comment -> Row \cup {NoRow}]
  /\ mentions \in SUBSET Mention
  /\ crashes \in 0..MaxCrashes
  /\ pc \in [Request -> Phase]
  /\ target \in [Request -> Comment \cup {NoId}]
  /\ body \in [Request -> Dto \cup {NoBody}]
  /\ loaded \in [Request -> Row \cup {NoRow}]
  /\ held \in [Request -> SUBSET Mention]
  /\ seen \in [Request -> Row \cup {NoRow}]
  /\ listed \in [Request -> SUBSET Mention]
  /\ met \in SUBSET Request

\* The seeded comments and their mentions are as POST left them.
Init ==
  /\ \E content \in InitContents, t \in Existing :
       /\ comments = [c \in Comment |->
            IF c \in Seeded
            THEN [ticket |-> t, content |-> content[c], version |-> 1, updated |-> Seed]
            ELSE NoRow]
       /\ mentions = {m \in Mention : /\ m.comment \in Seeded /\ m.by = Seed
                                      /\ m.user \in Named[content[m.comment]]}
  /\ crashes = 0
  /\ pc = [r \in Request |-> "ready"]
  /\ target = [r \in Request |-> NoId]
  /\ body = [r \in Request |-> NoBody]
  /\ loaded = [r \in Request |-> NoRow]
  /\ held = [r \in Request |-> {}]
  /\ seen = [r \in Request |-> NoRow]
  /\ listed = [r \in Request |-> {}]
  /\ met = {}

-------------------------------------------------------------------------------
InFlight == {r \in Request : pc[r] \notin Resting}

Goto(r, phase) == pc' = [pc EXCEPT ![r] = phase]
Call(r)        == pc[r] = "ready" /\ Cardinality(InFlight) < MaxInFlight

Answer(r, reply) ==
  /\ Goto(r, reply)
  /\ target' = [target EXCEPT ![r] = NoId]
  /\ body'   = [body EXCEPT ![r] = NoBody]
  /\ loaded' = [loaded EXCEPT ![r] = NoRow]
  /\ held'   = [held EXCEPT ![r] = {}]
  /\ seen'   = [seen EXCEPT ![r] = NoRow]
  /\ listed' = [listed EXCEPT ![r] = {}]

-------------------------------------------------------------------------------
(* create                                                                  *)

\* The INSERT of the comment; a foreign key refuses a ticket that does not exist.
CreateComment(r) ==
  /\ Call(r)
  /\ \E t \in Ticket, content \in Content :
       \/ t \notin Existing /\ Answer(r, "500") /\ UNCHANGED comments
       \/ /\ t \in Existing
          /\ comments' = [comments EXCEPT ![r] =
               [ticket |-> t, content |-> content, version |-> 1, updated |-> r]]
          /\ target' = [target EXCEPT ![r] = r]
          /\ body' = [body EXCEPT ![r] = [content |-> content, version |-> Absent]]
          /\ Goto(r, "clear")
          /\ UNCHANGED <<loaded, held, seen, listed>>
  /\ UNCHANGED <<mentions, crashes>>

-------------------------------------------------------------------------------
(* syncMentions, and loadOne for the response                              *)

\* Mutant of ClearMentions: the old mentions are kept.
ClearNothing(r) ==
  /\ pc[r] = "clear"
  /\ Goto(r, IF Named[body[r].content] = {} THEN "reread" ELSE "insert")
  /\ UNCHANGED <<comments, mentions, crashes, locals>>

\* The DELETE; a content without existing users needs no INSERT.
ClearMentions(r) ==
  /\ pc[r] = "clear"
  /\ mentions' = mentions \ MentionsOf(target[r])
  /\ Goto(r, IF Named[body[r].content] = {} THEN "reread" ELSE "insert")
  /\ UNCHANGED <<comments, crashes, locals>>

NewMentions(r) ==
  {[comment |-> target[r], user |-> u, by |-> r] : u \in Named[body[r].content]}

\* Mutant of InsertMentions: the entity has no @Unique(['userId', 'commentId']).
InsertMentionsAgain(r) ==
  /\ pc[r] = "insert"
  /\ IF comments[target[r]] = NoRow
     THEN Answer(r, "500") /\ UNCHANGED mentions
     ELSE Goto(r, "reread") /\ mentions' = mentions \cup NewMentions(r) /\ UNCHANGED locals
  /\ UNCHANGED <<comments, crashes>>

\* One INSERT of all rows: refused by the foreign key when the comment is gone
\* and by the unique constraint when one of the users is mentioned already.
InsertMentions(r) ==
  /\ pc[r] = "insert"
  /\ IF comments[target[r]] = NoRow \/ Mentioned(target[r]) \cap Named[body[r].content] # {}
     THEN Answer(r, "500") /\ UNCHANGED mentions
     ELSE Goto(r, "reread") /\ mentions' = mentions \cup NewMentions(r) /\ UNCHANGED locals
  /\ UNCHANGED <<comments, crashes>>

Reread(r) ==
  /\ pc[r] = "reread"
  /\ Answer(r, IF comments[target[r]] = NoRow THEN "404" ELSE "200")
  /\ UNCHANGED <<tables, crashes>>

-------------------------------------------------------------------------------
(* update                                                                  *)

\* loadOne, and the check that the comment belongs to the ticket of the URL.
On(c, t) == comments[c] # NoRow /\ comments[c].ticket = t

LoadForUpdate(r) ==
  /\ Call(r)
  /\ \E c \in Comment, t \in Ticket, dto \in UpdateDtos :
       \/ ~On(c, t) /\ Answer(r, "404")
       \/ /\ On(c, t)
          /\ target' = [target EXCEPT ![r] = c]
          /\ body'   = [body EXCEPT ![r] = dto]
          /\ loaded' = [loaded EXCEPT ![r] = comments[c]]
          /\ held'   = [held EXCEPT ![r] = MentionsOf(c)]
          /\ Goto(r, "reload")
          /\ UNCHANGED <<seen, listed>>
  /\ UNCHANGED <<tables, crashes>>

\* Mutant of Given: a field is assigned although the body omits it.
GivenOrNot(value, default) == value

Given(value, default) == IF value = Absent THEN default ELSE value

\* The entity update hands to save(): the client's version goes into it.
Entity(r) == [loaded[r] EXCEPT !.content = Given(body[r].content, @),
                               !.version = Given(body[r].version, @)]

\* The SELECTs of save(): the row, and the ids of its mentions.
ReloadComment(r) ==
  /\ pc[r] = "reload"
  /\ seen' = [seen EXCEPT ![r] = comments[target[r]]]
  /\ Goto(r, IF comments[target[r]] = NoRow THEN "write" ELSE "relist")
  /\ UNCHANGED <<tables, crashes, target, body, loaded, held, listed>>

ReloadMentions(r) ==
  /\ pc[r] = "relist"
  /\ listed' = [listed EXCEPT ![r] = MentionsOf(target[r])]
  /\ Goto(r, "write")
  /\ UNCHANGED <<tables, crashes, target, body, loaded, held, seen>>

Column(entity, reloaded, current) == IF entity = reloaded THEN current ELSE entity

\* The UPDATE of save(): the columns that differ from the reloaded row, WHERE id;
\* version and updatedAt are set by TypeORM unless they are among them.
Merge(r, current) ==
  IF Entity(r) = seen[r] \/ current = NoRow THEN current
  ELSE [ticket  |-> current.ticket,
        content |-> Column(Entity(r).content, seen[r].content, current.content),
        version |-> Column(Entity(r).version, seen[r].version, current.version + 1),
        updated |-> Column(Entity(r).updated, seen[r].updated, r)]

\* Mentions that save() finds in the database but not in the entity: it sets their
\* commentId, which is NOT NULL, to null.
Orphans(r) == (listed[r] \ held[r]) \cap mentions

AfterSave(r) == Goto(r, IF body[r].content = Absent THEN "reread" ELSE "clear") /\ UNCHANGED locals

\* The transaction of save(): an INSERT under the old id when the row was not
\* found, an UPDATE otherwise.  TypeORM compares no versions, so the catch block
\* that answers 409 is not reached.
SaveComment(r) ==
  /\ pc[r] = "write"
  /\ LET c == target[r]
     IN  \/ /\ IF seen[r] = NoRow THEN comments[c] # NoRow ELSE Orphans(r) # {}
            /\ Answer(r, "500") /\ UNCHANGED comments
         \/ /\ seen[r] = NoRow /\ comments[c] = NoRow
            /\ comments' = [comments EXCEPT ![c] = [Entity(r) EXCEPT !.version = 1]]
            /\ AfterSave(r)
         \/ /\ seen[r] # NoRow /\ Orphans(r) = {}
            /\ comments' = [comments EXCEPT ![c] = Merge(r, @)]
            /\ AfterSave(r)
  /\ UNCHANGED <<mentions, crashes>>

-------------------------------------------------------------------------------
(* remove                                                                  *)

LoadForRemove(r) ==
  /\ Call(r)
  /\ \E c \in Comment, t \in Ticket :
       \/ ~On(c, t) /\ Answer(r, "404")
       \/ /\ On(c, t)
          /\ target' = [target EXCEPT ![r] = c]
          /\ Goto(r, "delete")
          /\ UNCHANGED <<body, loaded, held, seen, listed>>
  /\ UNCHANGED <<tables, crashes>>

\* The DELETE by id; ON DELETE CASCADE takes the mentions along.
DeleteComment(r) ==
  /\ pc[r] = "delete"
  /\ comments' = [comments EXCEPT ![target[r]] = NoRow]
  /\ mentions' = mentions \ MentionsOf(target[r])
  /\ Answer(r, "200")
  /\ UNCHANGED crashes

-------------------------------------------------------------------------------
\* The Node process dies: handlers are lost, committed statements stay.
Crash ==
  /\ crashes < MaxCrashes
  /\ crashes' = crashes + 1
  /\ pc' = [r \in Request |-> IF pc[r] \in Resting THEN pc[r] ELSE "lost"]
  /\ target' = [r \in Request |-> NoId]
  /\ body'   = [r \in Request |-> NoBody]
  /\ loaded' = [r \in Request |-> NoRow]
  /\ held'   = [r \in Request |-> {}]
  /\ seen'   = [r \in Request |-> NoRow]
  /\ listed' = [r \in Request |-> {}]
  /\ UNCHANGED tables

Sync(r)   == ClearMentions(r) \/ InsertMentions(r) \/ Reread(r)
Update(r) == LoadForUpdate(r) \/ ReloadComment(r) \/ ReloadMentions(r) \/ SaveComment(r)
Remove(r) == LoadForRemove(r) \/ DeleteComment(r)
Step(r)   == CreateComment(r) \/ Sync(r) \/ Update(r) \/ Remove(r)

\* Handlers that are on one comment with another one after the step.
Together == {r \in InFlight : \E q \in InFlight : q # r /\ target[q] = target[r]}

Next == (Crash \/ \E r \in Request : Step(r)) /\ met' = met \cup Together'

Spec == Init /\ [][Next]_vars

-------------------------------------------------------------------------------
(* Properties                                                              *)

\* No mention outlives its comment and no user is mentioned twice in one, also
\* when updates, a removal and an INSERT of mentions cross each other.
MentionsSound ==
  /\ \A m \in mentions : comments[m.comment] # NoRow
  /\ \A m, n \in mentions : m.comment = n.comment /\ m.user = n.user => m = n

\* A handler that is alone on its comment all the while never answers 404 or 500
\* once it has found the comment; its save() stores the content it was sent, but
\* nothing is said of an edit that names another version than the comment's (the
\* documents want it refused); and when its syncMentions is through, the mentions
\* are those of the content, whatever an earlier crash or overlap has left behind.
UpToDate(r) == body[r].version \in {Absent, loaded[r].version}

LoneHandlersConsistent ==
  [][\A r \in InFlight \ met : pc'[r] \notin {pc[r], "lost"} =>
       /\ pc'[r] \notin {"404", "500"}
       /\ pc[r] = "write" /\ UpToDate(r) =>
            comments'[target[r]].content = Given(body[r].content, loaded[r].content)
       /\ pc[r] \in {"clear", "insert"} /\ pc'[r] = "reread" =>
            Mentioned(target[r])' = Named[comments[target[r]].content]]_vars

-------------------------------------------------------------------------------
(* What the documents say and interleavings break.                         *)

\* TEST_PLAN: of two concurrent edits of a comment the second write is refused; so
\* the save() of an edit that names the version it was loaded with leaves the
\* row alone when that is no longer the version of the row.
SecondEditConflicts ==
  [][\A r \in Request :
       pc[r] = "write" /\ pc'[r] # pc[r] /\ body[r].version = loaded[r].version =>
         LET row == comments[target[r]]
         IN  row = NoRow \/ row.version = loaded[r].version \/ UNCHANGED comments]_vars
===============================================================================

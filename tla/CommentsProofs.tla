---------------------------- MODULE CommentsProofs -----------------------------
(***************************************************************************)
(* Type correctness of Comments, soundness of the mentions however         *)
(* handlers cross, and that a handler alone on its comment leaves the      *)
(* mentions of its content: for any number of requests, users and crashes. *)
(*                                                                         *)
(* The argument: a step of handler r touches one comment, the one r is on  *)
(* (Good).  A handler that has never met another on its comment is         *)
(* therefore undisturbed between its statements, and what it has read or   *)
(* written is still so at the next one (Alone).                            *)
(***************************************************************************)
EXTENDS Comments, TLAPS

\* What a handler in flight holds, alone or not.
Holds(r) ==
  /\ r \in InFlight => target[r] \in Comment
  /\ pc[r] \in {"reload", "relist", "write"} => loaded[r] \in Row /\ body[r] \in Dto
  /\ pc[r] \in {"clear", "insert"} => body[r] \in Dto /\ body[r].content \in Content

\* What is still so on the comment of a handler that is alone there.
Alone(r) ==
  /\ comments[target[r]] # NoRow
  /\ pc[r] \in {"reload", "relist", "write"} =>
       comments[target[r]] = loaded[r] /\ held[r] = MentionsOf(target[r])
  /\ pc[r] \in {"relist", "write"} => seen[r] = loaded[r]
  /\ pc[r] = "write" => listed[r] = held[r]
  /\ pc[r] \in {"clear", "insert"} => comments[target[r]].content = body[r].content
  /\ pc[r] = "insert" => MentionsOf(target[r]) = {}

CInv ==
  /\ TypeOK
  /\ MentionsSound
  /\ \A r \in Request : Holds(r)
  /\ Together \subseteq met
  /\ \A r \in InFlight \ met : Alone(r)

TablesTyped ==
  /\ comments \in [Comment -> Row \cup {NoRow}]
  /\ mentions \in SUBSET Mention
  /\ crashes \in 0..MaxCrashes

LocalsTyped ==
  /\ pc \in [Request -> Phase]
  /\ target \in [Request -> Comment \cup {NoId}]
  /\ body \in [Request -> Dto \cup {NoBody}]
  /\ loaded \in [Request -> Row \cup {NoRow}]
  /\ held \in [Request -> SUBSET Mention]
  /\ seen \in [Request -> Row \cup {NoRow}]
  /\ listed \in [Request -> SUBSET Mention]

\* A step leaves the locals of a handler that does not move alone.
Stays(q) ==
  /\ pc'[q] = pc[q] /\ target'[q] = target[q] /\ body'[q] = body[q]
  /\ loaded'[q] = loaded[q] /\ held'[q] = held[q] /\ seen'[q] = seen[q]
  /\ listed'[q] = listed[q]

-------------------------------------------------------------------------------
(* The operators the handlers are built from.                              *)

\* The entity of a PATCH is a row with the content it was sent.
LEMMA EntityRow ==
  ASSUME NEW r \in Request, loaded[r] \in Row, body[r] \in Dto
  PROVE  /\ Entity(r) \in Row
         /\ Entity(r).content = Given(body[r].content, loaded[r].content)
<1>1. /\ Given(body[r].content, loaded[r].content) \in Content
      /\ Given(body[r].version, loaded[r].version) \in Nat
  BY DEF Given, Row, Dto
<1>2. QED
  BY <1>1 DEF Entity, Row

\* The UPDATE of save() writes a row.
LEMMA MergeRow ==
  ASSUME NEW r \in Request, Entity(r) \in Row, seen[r] \in Row, NEW current \in Row
  PROVE  Merge(r, current) \in Row
<1> DEFINE e == Entity(r)
<1>1. /\ Column(e.content, seen[r].content, current.content) \in Content
      /\ Column(e.version, seen[r].version, current.version + 1) \in Nat
      /\ Column(e.updated, seen[r].updated, r) \in Request \cup {Seed}
      /\ current.ticket \in Existing
  BY DEF Column, Row
<1>2. QED
  BY <1>1 DEF Merge, Row

\* An UPDATE computed from the current row stores the entity's content.
LEMMA MergeFresh ==
  ASSUME NEW r \in Request, Entity(r) \in Row, seen[r] \in Row
  PROVE  Merge(r, seen[r]).content = Entity(r).content
BY NullsAssumption DEF Merge, Column, Row

\* An inserted comment and inserted mentions are rows.
LEMMA NewMentionRows ==
  ASSUME NEW r \in Request, target[r] \in Comment, body[r].content \in Content
  PROVE  NewMentions(r) \subseteq Mention
BY ContentAssumption DEF NewMentions, Mention

-------------------------------------------------------------------------------
(* Initial states.                                                         *)

LEMMA InitInv == Init => CInv
<1> SUFFICES ASSUME Init PROVE CInv
  OBVIOUS
<1>1. PICK content \in InitContents, t \in Existing :
        /\ comments = [c \in Comment |->
             IF c \in Seeded
             THEN [ticket |-> t, content |-> content[c], version |-> 1, updated |-> Seed]
             ELSE NoRow]
        /\ mentions = {m \in Mention : /\ m.comment \in Seeded /\ m.by = Seed
                                       /\ m.user \in Named[content[m.comment]]}
  BY DEF Init
<1>2. \A c \in Seeded :
        [ticket |-> t, content |-> content[c], version |-> 1, updated |-> Seed] \in Row
  BY SeedsAssumption DEF Row
<1>3. comments \in [Comment -> Row \cup {NoRow}]
  BY <1>1, <1>2
<1>4. mentions \in SUBSET Mention
  BY <1>1
<1>5. TypeOK
  BY <1>3, <1>4, LimitAssumption DEF TypeOK, Init, Phase, Resting
<1>6. MentionsSound
  <2>1. \A m \in mentions : comments[m.comment] # NoRow
    <3> SUFFICES ASSUME NEW m \in mentions PROVE comments[m.comment] # NoRow
      OBVIOUS
    <3>1. m.comment \in Seeded
      BY <1>1
    <3>2. comments[m.comment] \in Row
      BY <3>1, <1>1, <1>2 DEF Comment
    <3>3. QED
      BY <3>2, NullsAssumption
  <2>2. \A m, n \in mentions : m.comment = n.comment /\ m.user = n.user => m = n
    BY <1>1 DEF Mention
  <2>3. QED
    BY <2>1, <2>2 DEF MentionsSound
<1>7. InFlight = {}
  BY DEF Init, InFlight, Resting
<1>8. \A r \in Request : Holds(r)
  BY <1>7 DEF Holds, Init
<1>9. QED
  BY <1>5, <1>6, <1>7, <1>8 DEF CInv, Together

-------------------------------------------------------------------------------
(* The steps.  What an action of handler r has to show.                    *)

OthersStay(r) == \A q \in Request \ {r} : Stays(q)

TouchesOwn(r) ==
  \A c \in Comment : \/ comments'[c] = comments[c] /\ MentionsOf(c)' = MentionsOf(c)
                     \/ r \in InFlight /\ c = target[r]
                     \/ r \in InFlight' /\ c = target'[r]

Good(r) ==
  /\ OthersStay(r) /\ TouchesOwn(r)
  /\ TablesTyped' /\ LocalsTyped' /\ MentionsSound'
  /\ Holds(r)'
  /\ r \in InFlight' \ met => Alone(r)'

\* A handler that answers is out of flight, its locals are reset.
LEMMA AnswerGood ==
  ASSUME NEW r \in Request, NEW reply \in Reply, LocalsTyped, Answer(r, reply)
  PROVE  OthersStay(r) /\ LocalsTyped' /\ Holds(r)' /\ r \notin InFlight'
<1>1. OthersStay(r)
  BY DEF Answer, Goto, OthersStay, Stays, LocalsTyped
<1>2. LocalsTyped'
  BY DEF Answer, Goto, LocalsTyped, Phase, Resting
<1>3. pc'[r] = reply
  BY DEF Answer, Goto, LocalsTyped
<1>4. reply \in Resting
  BY DEF Resting
<1>5. r \notin InFlight'
  BY <1>3, <1>4 DEF InFlight
<1>6. reply \notin {"reload", "relist", "write", "clear", "insert"}
  BY DEF Reply
<1>7. Holds(r)'
  BY <1>3, <1>5, <1>6 DEF Holds
<1>8. QED
  BY <1>1, <1>2, <1>5, <1>7

\* A handler that goes on keeps its locals.
LEMMA GotoGood ==
  ASSUME NEW r \in Request, NEW phase \in Phase, LocalsTyped, Goto(r, phase), UNCHANGED locals
  PROVE  OthersStay(r) /\ LocalsTyped' /\ pc'[r] = phase
BY DEF Goto, OthersStay, Stays, LocalsTyped, locals

LEMMA SameTables ==
  ASSUME NEW r \in Request, TablesTyped, MentionsSound, UNCHANGED <<tables, crashes>>
  PROVE  TouchesOwn(r) /\ TablesTyped' /\ MentionsSound'
BY DEF TouchesOwn, TablesTyped, MentionsSound, MentionsOf, tables

LEMMA TypeParts == TypeOK <=> TablesTyped /\ LocalsTyped /\ met \in SUBSET Request
BY DEF TypeOK, TablesTyped, LocalsTyped

LEMMA CreateGood ==
  ASSUME CInv, NEW r \in Request, CreateComment(r)
  PROVE  Good(r)
<1> USE TypeParts DEF CInv
<1>1. PICK t \in Ticket, content \in Content :
        \/ t \notin Existing /\ Answer(r, "500") /\ UNCHANGED comments
        \/ /\ t \in Existing
           /\ comments' = [comments EXCEPT ![r] =
                [ticket |-> t, content |-> content, version |-> 1, updated |-> r]]
           /\ target' = [target EXCEPT ![r] = r]
           /\ body' = [body EXCEPT ![r] = [content |-> content, version |-> Absent]]
           /\ Goto(r, "clear")
           /\ UNCHANGED <<loaded, held, seen, listed>>
  BY DEF CreateComment
<1>2. UNCHANGED <<mentions, crashes>>
  BY DEF CreateComment
<1>3. CASE t \notin Existing
  BY <1>1, <1>2, <1>3, AnswerGood, SameTables DEF Reply, Good, tables
<1>4. CASE t \in Existing
  <2> DEFINE row == [ticket |-> t, content |-> content, version |-> 1, updated |-> r]
             dto == [content |-> content, version |-> Absent]
  <2>1. row \in Row /\ row # NoRow /\ row.content = content
    BY <1>4, NullsAssumption DEF Row
  <2>2. dto \in Dto /\ dto.content = content
    BY DEF Dto
  <2>3. r \in Comment
    BY DEF Comment
  <2>4. comments' = [comments EXCEPT ![r] = row] /\ body' = [body EXCEPT ![r] = dto]
        /\ target' = [target EXCEPT ![r] = r] /\ pc' = [pc EXCEPT ![r] = "clear"]
        /\ UNCHANGED <<loaded, held, seen, listed>>
    BY <1>1, <1>4 DEF Goto
  <2> HIDE DEF row, dto
  <2>5. comments'[r] = row /\ body'[r] = dto /\ target'[r] = r /\ pc'[r] = "clear"
    BY <2>3, <2>4 DEF TablesTyped, LocalsTyped
  <2>6. TablesTyped'
    BY <1>2, <2>1, <2>3, <2>4 DEF TablesTyped
  <2>7. LocalsTyped'
    BY <2>2, <2>3, <2>4 DEF LocalsTyped, Phase
  <2>8. OthersStay(r)
    BY <2>4 DEF OthersStay, Stays, LocalsTyped
  <2>9. r \in InFlight'
    BY <2>5 DEF InFlight, Resting, Reply
  <2>10. TouchesOwn(r)
    BY <1>2, <2>4, <2>5, <2>9 DEF TouchesOwn, TablesTyped, MentionsOf
  <2>11. \A c \in Comment : comments[c] # NoRow => comments'[c] # NoRow
    BY <2>1, <2>4 DEF TablesTyped
  <2>12. MentionsSound'
    BY <1>2, <2>11 DEF MentionsSound, TablesTyped, Mention
  <2>13. Holds(r)' /\ Alone(r)'
    BY <2>1, <2>2, <2>3, <2>5 DEF Holds, Alone
  <2>14. QED
    BY <2>6, <2>7, <2>8, <2>10, <2>12, <2>13 DEF Good
<1>5. QED
  BY <1>3, <1>4

LEMMA ClearGood ==
  ASSUME CInv, NEW r \in Request, ClearMentions(r)
  PROVE  Good(r)
<1> USE TypeParts DEF CInv
<1>1. /\ pc[r] = "clear" /\ UNCHANGED <<comments, crashes, locals>>
      /\ mentions' = mentions \ MentionsOf(target[r])
      /\ pc' = [pc EXCEPT ![r] = IF Named[body[r].content] = {} THEN "reread" ELSE "insert"]
  BY DEF ClearMentions, Goto
<1>2. r \in InFlight
  BY <1>1 DEF InFlight, Resting, Reply
<1>3. target[r] \in Comment /\ body[r] \in Dto /\ body[r].content \in Content
  BY <1>1, <1>2 DEF Holds
<1>4. PICK phase \in {"reread", "insert"} : Goto(r, phase)
  BY <1>1 DEF Goto
<1>5. OthersStay(r) /\ LocalsTyped' /\ pc'[r] = phase
  BY <1>1, <1>4, GotoGood DEF Phase
<1>6. TablesTyped' /\ MentionsSound'
  BY <1>1 DEF TablesTyped, MentionsSound, MentionsOf
<1>7. TouchesOwn(r)
  BY <1>1, <1>2 DEF TouchesOwn, MentionsOf
<1>8. Holds(r)'
  BY <1>1, <1>3, <1>5 DEF Holds, locals
<1>9. MentionsOf(target[r])' = {}
  BY <1>1 DEF MentionsOf, locals
<1>10. r \notin met => Alone(r)'
  BY <1>1, <1>2, <1>5, <1>9 DEF Alone, locals
<1>11. QED
  BY <1>5, <1>6, <1>7, <1>8, <1>10 DEF Good

LEMMA InsertGood ==
  ASSUME CInv, NEW r \in Request, InsertMentions(r)
  PROVE  Good(r) /\ (r \notin met => pc'[r] = "reread")
<1> USE TypeParts DEF CInv
<1> DEFINE c == target[r]
           refused == comments[c] = NoRow \/ Mentioned(c) \cap Named[body[r].content] # {}
<1>1. pc[r] = "insert" /\ UNCHANGED <<comments, crashes>>
  BY DEF InsertMentions
<1>2. r \in InFlight
  BY <1>1 DEF InFlight, Resting, Reply
<1>3. c \in Comment /\ body[r] \in Dto /\ body[r].content \in Content
  BY <1>1, <1>2 DEF Holds
<1>4. CASE refused
  <2>1. Answer(r, "500") /\ UNCHANGED mentions
    BY <1>4 DEF InsertMentions
  <2>2. r \in met
    <3> SUFFICES ASSUME r \notin met PROVE FALSE
      OBVIOUS
    <3>1. Alone(r)
      BY <1>2
    <3>2. comments[c] # NoRow /\ MentionsOf(c) = {}
      BY <1>1, <3>1 DEF Alone
    <3>3. Mentioned(c) = {}
      BY <3>2 DEF Mentioned
    <3>4. QED
      BY <1>4, <3>2, <3>3
  <2>3. QED
    BY <1>1, <2>1, <2>2, AnswerGood, SameTables DEF Reply, Good, tables
<1>5. CASE ~refused
  <2>1. /\ Goto(r, "reread") /\ mentions' = mentions \cup NewMentions(r) /\ UNCHANGED locals
    BY <1>5 DEF InsertMentions
  <2>2. OthersStay(r) /\ LocalsTyped' /\ pc'[r] = "reread"
    BY <2>1, GotoGood DEF Phase
  <2>3. NewMentions(r) \subseteq Mention
    BY <1>3, NewMentionRows
  <2>4. TablesTyped'
    BY <1>1, <2>1, <2>3 DEF TablesTyped
  <2>5. \A m \in NewMentions(r) : /\ m.comment = c /\ m.user \in Named[body[r].content]
                                  /\ m = [comment |-> c, user |-> m.user, by |-> r]
    BY DEF NewMentions
  <2>6. \A m \in mentions, n \in NewMentions(r) : ~(m.comment = n.comment /\ m.user = n.user)
    <3> SUFFICES ASSUME NEW m \in mentions, NEW n \in NewMentions(r), m.comment = n.comment
                 PROVE  m.user # n.user
      OBVIOUS
    <3>1. m.user \in Mentioned(c)
      BY <2>5 DEF Mentioned, MentionsOf
    <3>2. n.user \in Named[body[r].content]
      BY <2>5
    <3>3. QED
      BY <1>5, <3>1, <3>2
  <2>7. \A m \in mentions' : comments'[m.comment] # NoRow
    BY <1>1, <1>5, <2>1, <2>5 DEF MentionsSound
  <2>8. \A m, n \in mentions' : m.comment = n.comment /\ m.user = n.user => m = n
    BY <2>1, <2>5, <2>6 DEF MentionsSound
  <2>9. MentionsSound'
    BY <2>7, <2>8 DEF MentionsSound
  <2>10. TouchesOwn(r)
    BY <1>1, <1>2, <2>1, <2>5 DEF TouchesOwn, MentionsOf
  <2>11. Holds(r)'
    BY <1>3, <2>1, <2>2 DEF Holds, locals
  <2>12. r \notin met => Alone(r)'
    BY <1>1, <1>5, <2>1, <2>2 DEF Alone, locals
  <2>13. QED
    BY <2>2, <2>4, <2>9, <2>10, <2>11, <2>12 DEF Good
<1>6. QED
  BY <1>4, <1>5

LEMMA RereadGood ==
  ASSUME CInv, NEW r \in Request, Reread(r)
  PROVE  Good(r) /\ (r \notin met => pc'[r] = "200")
<1> USE TypeParts DEF CInv
<1>1. pc[r] = "reread" /\ UNCHANGED <<tables, crashes>>
  BY DEF Reread
<1>2. PICK reply \in {"200", "404"} :
        Answer(r, reply) /\ (comments[target[r]] # NoRow => reply = "200")
  BY DEF Reread
<1>3. OthersStay(r) /\ LocalsTyped' /\ Holds(r)' /\ r \notin InFlight'
  BY <1>2, AnswerGood DEF Reply
<1>4. r \in InFlight /\ pc'[r] = reply
  BY <1>1, <1>2 DEF InFlight, Resting, Reply, Answer, Goto, LocalsTyped
<1>5. r \notin met => comments[target[r]] # NoRow
  BY <1>4 DEF Alone
<1>6. QED
  BY <1>1, <1>2, <1>3, <1>4, <1>5, SameTables DEF Good

LEMMA LoadUpdateGood ==
  ASSUME CInv, NEW r \in Request, LoadForUpdate(r)
  PROVE  Good(r)
<1> USE TypeParts DEF CInv
<1>1. UNCHANGED <<tables, crashes>>
  BY DEF LoadForUpdate
<1>2. PICK c \in Comment, t \in Ticket, dto \in UpdateDtos :
        \/ ~On(c, t) /\ Answer(r, "404")
        \/ /\ On(c, t)
           /\ target' = [target EXCEPT ![r] = c]
           /\ body'   = [body EXCEPT ![r] = dto]
           /\ loaded' = [loaded EXCEPT ![r] = comments[c]]
           /\ held'   = [held EXCEPT ![r] = MentionsOf(c)]
           /\ Goto(r, "reload")
           /\ UNCHANGED <<seen, listed>>
  BY DEF LoadForUpdate
<1>3. CASE ~On(c, t)
  BY <1>1, <1>2, <1>3, AnswerGood, SameTables DEF Reply, Good
<1>4. CASE On(c, t)
  <2>1. /\ target' = [target EXCEPT ![r] = c] /\ body' = [body EXCEPT ![r] = dto]
        /\ loaded' = [loaded EXCEPT ![r] = comments[c]]
        /\ held' = [held EXCEPT ![r] = MentionsOf(c)]
        /\ pc' = [pc EXCEPT ![r] = "reload"] /\ UNCHANGED <<seen, listed>>
    BY <1>2, <1>4 DEF Goto
  <2>2. comments[c] \in Row /\ comments[c] # NoRow /\ dto \in Dto
    BY <1>4, BodyAssumption DEF On, TablesTyped
  <2>3. MentionsOf(c) \subseteq Mention
    BY DEF MentionsOf, TablesTyped
  <2>4. OthersStay(r)
    BY <2>1 DEF OthersStay, Stays, LocalsTyped
  <2>5. LocalsTyped'
    BY <2>1, <2>2, <2>3 DEF LocalsTyped, Phase
  <2>6. /\ pc'[r] = "reload" /\ target'[r] = c /\ loaded'[r] = comments[c]
        /\ body'[r] = dto /\ held'[r] = MentionsOf(c)
    BY <2>1 DEF LocalsTyped
  <2>7. Holds(r)'
    BY <2>2, <2>6 DEF Holds
  <2>8. MentionsOf(c)' = MentionsOf(c)
    BY <1>1 DEF MentionsOf, tables
  <2>9. Alone(r)'
    BY <1>1, <2>2, <2>6, <2>8 DEF Alone, tables, MentionsOf
  <2>10. QED
    BY <1>1, <2>4, <2>5, <2>7, <2>9, SameTables DEF Good
<1>5. QED
  BY <1>3, <1>4

LEMMA ReloadGood ==
  ASSUME CInv, NEW r \in Request, ReloadComment(r)
  PROVE  Good(r) /\ pc'[r] \in {"relist", "write"}
<1> USE TypeParts DEF CInv
<1>1. /\ pc[r] = "reload" /\ UNCHANGED <<tables, crashes, target, body, loaded, held, listed>>
      /\ seen' = [seen EXCEPT ![r] = comments[target[r]]]
  BY DEF ReloadComment
<1>2. pc' = [pc EXCEPT ![r] = IF comments[target[r]] = NoRow THEN "write" ELSE "relist"]
  BY DEF ReloadComment, Goto
<1>3. r \in InFlight
  BY <1>1 DEF InFlight, Resting, Reply
<1>4. target[r] \in Comment /\ loaded[r] \in Row /\ body[r] \in Dto
  BY <1>1, <1>3 DEF Holds
<1>5. comments[target[r]] \in Row \cup {NoRow}
  BY <1>4 DEF TablesTyped
<1>6. seen'[r] = comments[target[r]]
  BY <1>1 DEF LocalsTyped
<1>7. /\ pc'[r] \in {"relist", "write"}
      /\ comments[target[r]] # NoRow => pc'[r] = "relist"
  BY <1>2 DEF LocalsTyped
<1>8. OthersStay(r)
  BY <1>1, <1>2 DEF OthersStay, Stays, LocalsTyped
<1>9. LocalsTyped'
  BY <1>1, <1>2, <1>5 DEF LocalsTyped, Phase
<1>10. Holds(r)'
  BY <1>1, <1>4, <1>7 DEF Holds
<1>11. r \notin met => Alone(r)'
  BY <1>1, <1>3, <1>6, <1>7 DEF Alone, tables, MentionsOf
<1>12. QED
  BY <1>1, <1>7, <1>8, <1>9, <1>10, <1>11, SameTables DEF Good

LEMMA RelistGood ==
  ASSUME CInv, NEW r \in Request, ReloadMentions(r)
  PROVE  Good(r) /\ pc'[r] = "write"
<1> USE TypeParts DEF CInv
<1>1. /\ pc[r] = "relist" /\ UNCHANGED <<tables, crashes, target, body, loaded, held, seen>>
      /\ listed' = [listed EXCEPT ![r] = MentionsOf(target[r])]
      /\ pc' = [pc EXCEPT ![r] = "write"]
  BY DEF ReloadMentions, Goto
<1>2. r \in InFlight
  BY <1>1 DEF InFlight, Resting, Reply
<1>3. target[r] \in Comment /\ loaded[r] \in Row /\ body[r] \in Dto
  BY <1>1, <1>2 DEF Holds
<1>4. MentionsOf(target[r]) \subseteq Mention
  BY DEF MentionsOf, TablesTyped
<1>5. listed'[r] = MentionsOf(target[r]) /\ pc'[r] = "write"
  BY <1>1 DEF LocalsTyped
<1>6. OthersStay(r)
  BY <1>1 DEF OthersStay, Stays, LocalsTyped
<1>7. LocalsTyped'
  BY <1>1, <1>4 DEF LocalsTyped, Phase
<1>8. Holds(r)'
  BY <1>1, <1>3, <1>5 DEF Holds
<1>9. r \notin met => Alone(r)'
  BY <1>1, <1>2, <1>5 DEF Alone, tables, MentionsOf
<1>10. QED
  BY <1>1, <1>5, <1>6, <1>7, <1>8, <1>9, SameTables DEF Good

\* After save() the handler goes on, unless the database refuses.
LEMMA SaveGood ==
  ASSUME CInv, NEW r \in Request, SaveComment(r)
  PROVE  /\ Good(r)
         /\ r \notin met =>
              /\ pc'[r] \in {"reread", "clear"}
              /\ comments'[target[r]].content = Given(body[r].content, loaded[r].content)
<1> USE TypeParts DEF CInv
<1> DEFINE c == target[r]
<1>1. pc[r] = "write" /\ UNCHANGED <<mentions, crashes>>
  BY DEF SaveComment
<1>2. r \in InFlight
  BY <1>1 DEF InFlight, Resting, Reply
<1>3. c \in Comment /\ loaded[r] \in Row /\ body[r] \in Dto
  BY <1>1, <1>2 DEF Holds
<1>4. comments[c] \in Row \cup {NoRow} /\ seen[r] \in Row \cup {NoRow}
  BY <1>3 DEF TablesTyped, LocalsTyped
<1>5. Entity(r) \in Row /\ Entity(r).content = Given(body[r].content, loaded[r].content)
  BY <1>3, EntityRow
<1>6. r \notin met => /\ comments[c] = loaded[r] /\ seen[r] = loaded[r]
                      /\ loaded[r] # NoRow /\ Orphans(r) = {}
  BY <1>1, <1>2, <1>3, NullsAssumption DEF Alone, Orphans
<1>7. ASSUME Answer(r, "500"), UNCHANGED comments,
             IF seen[r] = NoRow THEN comments[c] # NoRow ELSE Orphans(r) # {}
      PROVE  Good(r) /\ r \in met
  BY <1>1, <1>6, <1>7, AnswerGood, SameTables DEF Reply, Good, tables
<1>8. ASSUME NEW row \in Row \cup {NoRow}, comments' = [comments EXCEPT ![c] = row],
             row = NoRow => comments[c] = NoRow, AfterSave(r),
             r \notin met => row # NoRow /\ row.content = Given(body[r].content, loaded[r].content)
      PROVE  /\ Good(r) /\ pc'[r] \in {"reread", "clear"}
             /\ comments'[c] = row
  <2>1. comments'[c] = row
    BY <1>3, <1>8 DEF TablesTyped
  <2>2. TablesTyped'
    BY <1>1, <1>3, <1>8 DEF TablesTyped
  <2>3. \A d \in Comment : comments[d] # NoRow => comments'[d] # NoRow
    BY <1>3, <1>8 DEF TablesTyped
  <2>4. MentionsSound'
    BY <1>1, <2>3 DEF MentionsSound, TablesTyped, Mention
  <2>5. TouchesOwn(r)
    BY <1>1, <1>2, <1>3, <1>8 DEF TouchesOwn, MentionsOf, TablesTyped
  <2>6. PICK phase \in {"reread", "clear"} :
          Goto(r, phase) /\ (phase = "clear" => body[r].content # Absent)
    BY <1>8 DEF AfterSave
  <2>7. UNCHANGED locals
    BY <1>8 DEF AfterSave
  <2>8. OthersStay(r) /\ LocalsTyped' /\ pc'[r] = phase
    BY <2>6, <2>7, GotoGood DEF Phase
  <2>9. phase = "clear" => body[r].content \in Content
    BY <1>3, <2>6 DEF Dto
  <2>10. Holds(r)'
    BY <1>3, <2>7, <2>8, <2>9 DEF Holds, locals
  <2>11. phase = "clear" => Given(body[r].content, loaded[r].content) = body[r].content
    BY <2>6 DEF Given
  <2>12. r \notin met => Alone(r)'
    BY <1>8, <2>1, <2>7, <2>8, <2>11 DEF Alone, locals
  <2>13. QED
    BY <2>1, <2>2, <2>4, <2>5, <2>8, <2>10, <2>12 DEF Good
<1>9. ASSUME seen[r] = NoRow, comments[c] = NoRow,
             comments' = [comments EXCEPT ![c] = [Entity(r) EXCEPT !.version = 1]], AfterSave(r)
      PROVE  Good(r) /\ r \in met
  <2>1. [Entity(r) EXCEPT !.version = 1] \in Row
    BY <1>5 DEF Row
  <2>2. r \in met
    BY <1>6, <1>9
  <2>3. QED
    BY <1>8, <1>9, <2>1, <2>2, NullsAssumption
<1>10. ASSUME seen[r] # NoRow, Orphans(r) = {},
              comments' = [comments EXCEPT ![c] = Merge(r, comments[c])], AfterSave(r)
       PROVE  /\ Good(r) /\ pc'[r] \in {"reread", "clear"}
              /\ comments'[c] = Merge(r, comments[c])
              /\ r \notin met => Merge(r, comments[c]).content = Entity(r).content
  <2>1. CASE comments[c] = NoRow
    <3>1. Merge(r, comments[c]) = NoRow /\ r \in met
      BY <1>6, <2>1 DEF Merge
    <3>2. QED
      BY <1>8, <1>10, <2>1, <3>1
  <2>2. CASE comments[c] # NoRow
    <3>1. Merge(r, comments[c]) \in Row
      BY <1>4, <1>5, <1>10, <2>2, MergeRow
    <3>2. r \notin met => Merge(r, comments[c]).content = Entity(r).content
      BY <1>4, <1>5, <1>6, <1>10, MergeFresh
    <3>3. Merge(r, comments[c]) # NoRow
      BY <3>1, NullsAssumption
    <3>4. QED
      BY <1>5, <1>8, <1>10, <3>1, <3>2, <3>3
  <2>3. QED
    BY <2>1, <2>2
<1>11. QED
  BY <1>5, <1>7, <1>9, <1>10 DEF SaveComment

LEMMA LoadRemoveGood ==
  ASSUME CInv, NEW r \in Request, LoadForRemove(r)
  PROVE  Good(r)
<1> USE TypeParts DEF CInv
<1>1. UNCHANGED <<tables, crashes>>
  BY DEF LoadForRemove
<1>2. PICK c \in Comment, t \in Ticket :
        \/ ~On(c, t) /\ Answer(r, "404")
        \/ /\ On(c, t)
           /\ target' = [target EXCEPT ![r] = c]
           /\ Goto(r, "delete")
           /\ UNCHANGED <<body, loaded, held, seen, listed>>
  BY DEF LoadForRemove
<1>3. CASE ~On(c, t)
  BY <1>1, <1>2, <1>3, AnswerGood, SameTables DEF Reply, Good
<1>4. CASE On(c, t)
  <2>1. /\ target' = [target EXCEPT ![r] = c] /\ pc' = [pc EXCEPT ![r] = "delete"]
        /\ UNCHANGED <<body, loaded, held, seen, listed>>
    BY <1>2, <1>4 DEF Goto
  <2>2. pc'[r] = "delete" /\ target'[r] = c
    BY <2>1 DEF LocalsTyped
  <2>3. OthersStay(r) /\ LocalsTyped'
    BY <2>1 DEF OthersStay, Stays, LocalsTyped, Phase
  <2>4. Holds(r)' /\ Alone(r)'
    BY <1>1, <1>4, <2>2 DEF Holds, Alone, On, tables
  <2>5. QED
    BY <1>1, <2>3, <2>4, SameTables DEF Good
<1>5. QED
  BY <1>3, <1>4

LEMMA DeleteGood ==
  ASSUME CInv, NEW r \in Request, DeleteComment(r)
  PROVE  Good(r) /\ pc'[r] = "200"
<1> USE TypeParts DEF CInv
<1>1. /\ pc[r] = "delete" /\ UNCHANGED crashes /\ Answer(r, "200")
      /\ comments' = [comments EXCEPT ![target[r]] = NoRow]
      /\ mentions' = mentions \ MentionsOf(target[r])
  BY DEF DeleteComment
<1>2. r \in InFlight
  BY <1>1 DEF InFlight, Resting, Reply
<1>3. target[r] \in Comment
  BY <1>2 DEF Holds
<1>4. OthersStay(r) /\ LocalsTyped' /\ Holds(r)' /\ r \notin InFlight'
  BY <1>1, AnswerGood DEF Reply
<1>5. TablesTyped'
  BY <1>1, <1>3 DEF TablesTyped
<1>6. \A m \in mentions' : m.comment # target[r] /\ m.comment \in Comment
  BY <1>1 DEF MentionsOf, TablesTyped, Mention
<1>7. MentionsSound'
  BY <1>1, <1>3, <1>6 DEF MentionsSound, TablesTyped
<1>8. TouchesOwn(r)
  BY <1>1, <1>2, <1>3 DEF TouchesOwn, MentionsOf, TablesTyped
<1>9. pc'[r] = "200"
  BY <1>1 DEF Answer, Goto, LocalsTyped
<1>10. QED
  BY <1>4, <1>5, <1>7, <1>8, <1>9 DEF Good

-------------------------------------------------------------------------------
(* The invariant.                                                          *)

LEMMA StepGood ==
  ASSUME CInv, NEW r \in Request, Step(r)
  PROVE  Good(r)
BY CreateGood, ClearGood, InsertGood, RereadGood, LoadUpdateGood, ReloadGood, RelistGood,
   SaveGood, LoadRemoveGood, DeleteGood DEF Step, Sync, Update, Remove

\* A handler that has met no other is as it was when another one moves.
LEMMA OthersAlone ==
  ASSUME CInv, NEW r \in Request, Good(r), met' = met \cup Together',
         NEW q \in InFlight' \ met', q # r
  PROVE  Alone(q)'
<1> USE TypeParts DEF CInv
<1>1. q \in Request /\ Stays(q)
  BY DEF InFlight, Good, OthersStay
<1>2. q \in InFlight \ met
  BY <1>1 DEF InFlight, Stays
<1>3. Alone(q) /\ target[q] \in Comment
  BY <1>1, <1>2 DEF Holds
<1>4. ~(r \in InFlight /\ target[q] = target[r])
  BY <1>2 DEF Together
<1>5. ~(r \in InFlight' /\ target[q] = target'[r])
  <2>1. q \notin Together'
    OBVIOUS
  <2>2. \A p \in InFlight' : p # q => target'[p] # target'[q]
    BY <2>1 DEF Together
  <2>3. QED
    BY <1>1, <2>2 DEF Stays
<1>6. PICK c \in Comment : c = target[q]
  BY <1>3
<1>7. comments'[c] = comments[c] /\ MentionsOf(c)' = MentionsOf(c)
  BY <1>4, <1>5, <1>6 DEF Good, TouchesOwn
<1>8. target'[q] = c
  BY <1>1, <1>6 DEF Stays
<1>9. QED
  BY <1>1, <1>3, <1>6, <1>7, <1>8 DEF Alone, Stays, MentionsOf

LEMMA CrashInv ==
  ASSUME CInv, Crash, met' = met \cup Together'
  PROVE  CInv'
<1> USE TypeParts DEF CInv
<1>1. \A r \in Request : pc'[r] \in Resting
  BY DEF Crash, Resting, Reply
<1>2. InFlight' = {}
  BY <1>1 DEF InFlight
<1>3. Together' = {}
  BY <1>2 DEF Together
<1>4. TablesTyped' /\ MentionsSound'
  BY LimitAssumption DEF Crash, TablesTyped, MentionsSound, tables
<1>5. LocalsTyped'
  BY DEF Crash, LocalsTyped, Phase, Resting, Reply
<1>6. \A r \in Request : Holds(r)'
  BY <1>1, <1>2 DEF Holds, Resting, Reply
<1>7. TypeOK'
  BY <1>3, <1>4, <1>5 DEF TypeOK, TablesTyped, LocalsTyped
<1>8. QED
  BY <1>2, <1>3, <1>4, <1>6, <1>7

LEMMA NextInv == CInv /\ [Next]_vars => CInv'
<1> SUFFICES ASSUME CInv, [Next]_vars PROVE CInv'
  OBVIOUS
<1> USE TypeParts DEF CInv
<1>1. CASE UNCHANGED vars
  BY <1>1 DEF vars, tables, locals, TypeOK, MentionsSound, Holds, Together, InFlight, Alone,
              MentionsOf
<1>2. CASE Crash /\ met' = met \cup Together'
  BY <1>2, CrashInv
<1>3. ASSUME NEW r \in Request, Step(r), met' = met \cup Together'
      PROVE  CInv'
  <2>1. Good(r)
    BY <1>3, StepGood
  <2>2. met' \in SUBSET Request /\ Together' \subseteq met'
    BY <1>3 DEF Together, InFlight
  <2>3. TypeOK'
    BY <2>1, <2>2 DEF Good, TypeOK, TablesTyped, LocalsTyped
  <2>4. \A q \in Request : Holds(q)'
    <3> SUFFICES ASSUME NEW q \in Request, q # r PROVE Holds(q)'
      BY <2>1 DEF Good
    <3>1. Stays(q)
      BY <2>1 DEF Good, OthersStay
    <3>2. QED
      BY <3>1 DEF Holds, Stays, InFlight
  <2>5. \A q \in InFlight' \ met' : Alone(q)'
    <3> SUFFICES ASSUME NEW q \in InFlight' \ met' PROVE Alone(q)'
      OBVIOUS
    <3>1. CASE q = r
      BY <1>3, <2>1, <3>1 DEF Good
    <3>2. CASE q # r
      BY <1>3, <2>1, <3>2, OthersAlone
    <3>3. QED
      BY <3>1, <3>2
  <2>6. QED
    BY <2>1, <2>2, <2>3, <2>4, <2>5 DEF Good
<1>4. QED
  BY <1>1, <1>2, <1>3 DEF Next

LEMMA CommentsInvariance == Spec => []CInv
<1>1. QED
  BY InitInv, NextInv, PTL DEF Spec

-------------------------------------------------------------------------------
(* Theorems.                                                               *)

\* Every variable keeps its type.
THEOREM CommentsTypeCorrect == Spec => []TypeOK
<1>1. CInv => TypeOK
  BY DEF CInv
<1>2. QED
  BY <1>1, CommentsInvariance, PTL

\* No mention outlives its comment, no user is mentioned twice in one comment,
\* however syncMentions, updates and removals of several handlers cross.
THEOREM MentionsAreSound == Spec => []MentionsSound
<1>1. CInv => MentionsSound
  BY DEF CInv
<1>2. QED
  BY <1>1, CommentsInvariance, PTL

\* What a step of r has to do when r is alone on its comment.
LoneStep(r) ==
  pc'[r] \notin {pc[r], "lost"} =>
    /\ pc'[r] \notin {"404", "500"}
    /\ pc[r] = "write" /\ UpToDate(r) =>
         comments'[target[r]].content = Given(body[r].content, loaded[r].content)
    /\ pc[r] \in {"clear", "insert"} /\ pc'[r] = "reread" =>
         Mentioned(target[r])' = Named[comments[target[r]].content]

LEMMA ClearLone ==
  ASSUME CInv, NEW r \in InFlight \ met, ClearMentions(r)
  PROVE  LoneStep(r)
<1> USE TypeParts DEF CInv
<1>1. r \in Request
  BY DEF InFlight
<1>2. /\ pc[r] = "clear" /\ UNCHANGED <<comments, crashes, locals>>
      /\ mentions' = mentions \ MentionsOf(target[r])
      /\ pc' = [pc EXCEPT ![r] = IF Named[body[r].content] = {} THEN "reread" ELSE "insert"]
  BY DEF ClearMentions, Goto
<1>3. /\ pc'[r] \in {"reread", "insert"}
      /\ pc'[r] = "reread" => Named[body[r].content] = {}
  BY <1>1, <1>2 DEF LocalsTyped
<1>4. comments[target[r]].content = body[r].content
  BY <1>2 DEF Alone
<1>5. Mentioned(target[r])' = {}
  BY <1>2 DEF Mentioned, MentionsOf, locals
<1>6. QED
  BY <1>2, <1>3, <1>4, <1>5 DEF LoneStep

LEMMA InsertLone ==
  ASSUME CInv, NEW r \in InFlight \ met, InsertMentions(r)
  PROVE  LoneStep(r)
<1> USE TypeParts DEF CInv
<1>1. r \in Request
  BY DEF InFlight
<1>2. pc[r] = "insert" /\ pc'[r] = "reread"
  BY <1>1, InsertGood DEF InsertMentions
<1>3. mentions' = mentions \cup NewMentions(r) /\ UNCHANGED locals
  <2>1. ~Answer(r, "500")
    BY <1>1, <1>2 DEF Answer, Goto, LocalsTyped
  <2>2. QED
    BY <2>1 DEF InsertMentions
<1>4. MentionsOf(target[r]) = {} /\ comments[target[r]].content = body[r].content
  BY <1>2 DEF Alone
<1>5. MentionsOf(target[r])' = NewMentions(r)
  BY <1>3, <1>4 DEF MentionsOf, NewMentions, locals
<1>6. Mentioned(target[r])' = Named[body[r].content]
  <2>1. Mentioned(target[r])' = {m.user : m \in NewMentions(r)}
    BY <1>5 DEF Mentioned
  <2>2. {m.user : m \in NewMentions(r)} = Named[body[r].content]
    <3>1. \A m \in NewMentions(r) : m.user \in Named[body[r].content]
      BY DEF NewMentions
    <3>2. \A u \in Named[body[r].content] : \E m \in NewMentions(r) : u = m.user
      <4> SUFFICES ASSUME NEW u \in Named[body[r].content]
                   PROVE  \E m \in NewMentions(r) : u = m.user
        OBVIOUS
      <4> DEFINE m == [comment |-> target[r], user |-> u, by |-> r]
      <4>1. m \in NewMentions(r) /\ u = m.user
        BY DEF NewMentions
      <4>2. QED
        BY <4>1
    <3>3. QED
      BY <3>1, <3>2
  <2>3. QED
    BY <2>1, <2>2
<1>7. QED
  BY <1>2, <1>4, <1>6 DEF LoneStep

LEMMA NextLone ==
  ASSUME CInv, Next, NEW r \in InFlight \ met
  PROVE  LoneStep(r)
<1> USE TypeParts DEF CInv
<1>1. r \in Request /\ pc[r] \notin Resting
  BY DEF InFlight
<1>2. CASE Crash
  BY <1>1, <1>2 DEF Crash, LoneStep
<1>3. ASSUME NEW q \in Request, Step(q), q # r
      PROVE  LoneStep(r)
  BY <1>1, <1>3, StepGood DEF Good, OthersStay, Stays, LoneStep
<1>4. CASE Step(r)
  <2>1. CASE ClearMentions(r)
    BY <2>1, ClearLone
  <2>2. CASE InsertMentions(r)
    BY <2>2, InsertLone
  <2>3. CASE Reread(r)
    <3>1. pc[r] = "reread" /\ pc'[r] = "200"
      BY <1>1, <2>3, RereadGood DEF Reread
    <3>2. QED
      BY <3>1 DEF LoneStep
  <2>4. CASE ReloadComment(r)
    <3>1. pc[r] = "reload" /\ pc'[r] \in {"relist", "write"}
      BY <1>1, <2>4, ReloadGood DEF ReloadComment
    <3>2. QED
      BY <3>1 DEF LoneStep
  <2>5. CASE ReloadMentions(r)
    <3>1. pc[r] = "relist" /\ pc'[r] = "write"
      BY <1>1, <2>5, RelistGood DEF ReloadMentions
    <3>2. QED
      BY <3>1 DEF LoneStep
  <2>6. CASE SaveComment(r)
    <3>1. /\ pc[r] = "write" /\ pc'[r] \in {"reread", "clear"}
          /\ comments'[target[r]].content = Given(body[r].content, loaded[r].content)
      BY <1>1, <2>6, SaveGood DEF SaveComment
    <3>2. QED
      BY <3>1 DEF LoneStep
  <2>7. CASE DeleteComment(r)
    <3>1. pc[r] = "delete" /\ pc'[r] = "200"
      BY <1>1, <2>7, DeleteGood DEF DeleteComment
    <3>2. QED
      BY <3>1 DEF LoneStep
  <2>8. ~(CreateComment(r) \/ LoadForUpdate(r) \/ LoadForRemove(r))
    BY <1>1 DEF CreateComment, LoadForUpdate, LoadForRemove, Call, Resting
  <2>9. QED
    BY <1>4, <2>1, <2>2, <2>3, <2>4, <2>5, <2>6, <2>7, <2>8 DEF Step, Sync, Update, Remove
<1>5. QED
  BY <1>2, <1>3, <1>4 DEF Next

\* A handler that has met no other on its comment does not fail any more, stores
\* the content it was sent unless it names another version than the comment's,
\* and leaves exactly the mentions of the content.
THEOREM LoneHandlersAreConsistent == Spec => LoneHandlersConsistent
<1>1. CInv /\ [Next]_vars =>
        [\A r \in InFlight \ met : pc'[r] \notin {pc[r], "lost"} =>
           /\ pc'[r] \notin {"404", "500"}
           /\ pc[r] = "write" /\ UpToDate(r) =>
                comments'[target[r]].content = Given(body[r].content, loaded[r].content)
           /\ pc[r] \in {"clear", "insert"} /\ pc'[r] = "reread" =>
                Mentioned(target[r])' = Named[comments[target[r]].content]]_vars
  BY NextLone DEF LoneStep
<1>2. QED
  BY <1>1, CommentsInvariance, PTL DEF Spec, LoneHandlersConsistent
===============================================================================

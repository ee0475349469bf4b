------------------------------ MODULE MCComments -------------------------------
(***************************************************************************)
(* Values of the constants of Comments for the runs: a content that        *)
(* mentions ann, one that mentions bob, and one that mentions nobody.      *)
(***************************************************************************)
EXTENDS Comments, TLC

RequestSymmetry == Permutations(Request)

NamedIn == [c \in Content |-> CASE c = "ann" -> {"ann"} [] c = "bob" -> {"bob"}
                                [] c = "both" -> {"ann", "bob"} [] OTHER -> {}]

\* An edit to another user, an edit with the version the comment starts with, and
\* one of the version alone.
Edits  == {[content |-> "bob", version |-> Absent], [content |-> "plain", version |-> 1],
           [content |-> Absent, version |-> 2]}

\* Two edits of the version the comment starts with.
RivalEdits == {[content |-> "bob", version |-> 1], [content |-> "plain", version |-> 1]}

SeedContents == [Seeded -> {"both"}]
===============================================================================

-------------------------------- MODULE MCServer -------------------------------
(***************************************************************************)
(* Values of the constants of Server for the runs: an administrator root   *)
(* and a developer dev, whose names and addresses others want to register. *)
(***************************************************************************)
EXTENDS Server, TLC

CONSTANTS root, dev

RequestSymmetry == Permutations(Request)

Account(name, mail, role) ==
  [username |-> name, email |-> mail, fullName |-> "old", role |-> role]

TwoUsers == { [u \in User |-> CASE u = root -> Account("root", "root@", "ADMIN")
                                [] u = dev  -> Account("dev", "dev@", "DEVELOPER")
                                [] OTHER    -> NoRow] }

OneUser == { [u \in User |-> IF u = root THEN Account("root", "root@", "ADMIN") ELSE NoRow] }

\* Somebody with dev's name, and somebody with dev's address.
Registrations == {Account("dev", "new@", "DEVELOPER"), Account("new", "dev@", "DEVELOPER")}
UserEdits     == {[fullName |-> "new", role |-> Absent], [fullName |-> Absent, role |-> "ADMIN"]}
Nothing       == {}
ProjectEdits  == {[name |-> "new"], [name |-> Absent]}
===============================================================================

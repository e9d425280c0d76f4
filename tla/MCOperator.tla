---------------------------- MODULE MCOperator ----------------------------
(* Operator for TLC: one SecretSync, which spells the secret in capitals, and *)
(* messages that announce its rotations.                                      *)
EXTENDS Operator

MCRank == [c \in Owners |-> 1]

MCNameOf == [c \in Controllers |-> c]

MCValueOf == [v \in Versions |-> IF v % 2 = 1 THEN "odd" ELSE "even"]

MCFold == [x \in Spellings |-> "db"]

MCSpellingOf == [c \in Owners |-> "DB"]

MCBodyOf == [m \in Messages |->
    [base64 |-> TRUE, envelope |-> TRUE, eventType |-> "SecretNewVersionCreated",
     type |-> "", data |-> "object", objectType |-> "Secret", name |-> "db"]]
=============================================================================

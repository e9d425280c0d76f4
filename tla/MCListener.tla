---------------------------- MODULE MCListener ----------------------------
(* Listener for TLC: a rotation announced in one delivery schema and again  *)
(* in the other or in capitals, and messages that Parse discards.           *)
EXTENDS Listener, TLC

CONSTANTS s1, s2

SyncSymmetry == Permutations({s1, s2})

MCFold == [x \in Spellings |-> IF x \in {"db", "DB"} THEN "db" ELSE x]

event(name, objectType) ==
    [base64 |-> TRUE, envelope |-> TRUE, eventType |-> "SecretNewVersionCreated",
     type |-> "", data |-> "object", objectType |-> objectType, name |-> name]

cloudEvent(name) ==
    [event(name, "Secret") EXCEPT !.eventType = "", !.type = "SecretNewVersionCreated"]

MCBodyOf == [m \in Messages |->
    CASE m = "rotated"   -> event("db", "Secret")
      [] m = "again"     -> cloudEvent("db")
      [] m = "capitals"  -> cloudEvent("DB")
      [] m = "malformed" -> [event("db", "Secret") EXCEPT !.data = "null"]
      [] m = "expired"   -> [event("db", "Secret") EXCEPT !.eventType = "other"]
      [] m = "key"       -> event("db", "key")]
=============================================================================

--------------------------- MODULE WriteContract ---------------------------
(***************************************************************************)
(* What SecretWriter.CreateOrUpdate promises its caller, with none of the  *)
(* API calls it takes: a request made by a SecretSync either changes the   *)
(* Secret at the target name in one atomic step, and only if that name is  *)
(* free or the occupant is one this SecretSync may claim and may rewrite,  *)
(* or it changes nothing and says why.  "error" alone leaves open which.   *)
(* SecretWriter implements this specification.                             *)
(***************************************************************************)
EXTENDS SecretObjects

VARIABLES
    slot,   \* the Secret at the target name, or Absent
    req     \* [Owners -> request and its answer]

Answers == {"ok", "TargetConflict", "TargetImmutable", "error"}

Begin(c, key, value, version) ==
    /\ req[c].answer # "pending"
    /\ req' = [req EXCEPT ![c] = [key |-> key, value |-> value,
                                  version |-> version, answer |-> "pending"]]
    /\ UNCHANGED slot

Commit(c) ==
    /\ req[c].answer = "pending"
    /\ MayCommit(slot, c, req[c].key, req[c].value)
    /\ slot' = Committed(slot, c, req[c].key, req[c].value, req[c].version)
    /\ \E answer \in {"ok", "error"} :
          req' = [req EXCEPT ![c].answer = answer]

Decline(c) ==
    /\ req[c].answer = "pending"
    /\ \E answer \in Answers \ {"ok"} :
          req' = [req EXCEPT ![c].answer = answer]
    /\ UNCHANGED slot

\* Users, other controllers and the garbage collector own the name too.
Others ==
    /\ slot' \in Secrets \cup {Absent}
    /\ UNCHANGED req

Init ==
    /\ slot = Absent
    /\ \E key \in Keys, value \in Values, version \in Versions :
          req = [c \in Owners |-> [key |-> key, value |-> value,
                                   version |-> version, answer |-> "none"]]

Next ==
    \/ \E c \in Owners :
          \/ \E key \in Keys, value \in Values, version \in Versions :
                Begin(c, key, value, version)
          \/ Commit(c)
          \/ Decline(c)
    \/ Others

Spec == Init /\ [][Next]_<<slot, req>>
=============================================================================

--------------------------- MODULE MCReconciler ---------------------------
(* Reconciler for TLC: up to two SecretSyncs over one vault secret, whose   *)
(* versions alternate between two values.                                   *)
EXTENDS Reconciler

CONSTANTS c1, c2

MCRank == [c \in Owners |-> IF c = c1 THEN 1 ELSE 2]

MCNameOf == [c \in Controllers |-> c]

MCValueOf == [v \in Versions |-> IF v % 2 = 1 THEN "odd" ELSE "even"]

\* The secret is deleted, the vault throttles.
Deleted   == [Served EXCEPT !.outcome = "refused", !.status = 404]
Throttled == [Deleted EXCEPT !.status = 429]

MCOutages == {Deleted, Throttled}

MCDeleted == {Deleted}

MCThrottled == {Throttled}
=============================================================================

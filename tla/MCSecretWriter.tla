-------------------------- MODULE MCSecretWriter --------------------------
(* SecretWriter for TLC: up to two SecretSyncs, an earlier incarnation of   *)
(* the first and, where Controllers has it, an unrelated controller.        *)
EXTENDS SecretWriter, TLC

CONSTANTS c1, c1old

MCNameOf == [u \in Controllers |-> IF u = c1old THEN c1 ELSE u]

ValueSymmetry == Permutations(Values)
=============================================================================

--------------------------- MODULE SecretObjects ---------------------------
(***************************************************************************)
(* Kubernetes Secrets as the operator sees them, and the pure predicates   *)
(* internal/sync builds on: who owns a Secret, whether it may be written,  *)
(* what a managed Secret looks like, and how a reader error is reported.   *)
(*                                                                         *)
(* A Secret keeps the fields the code reads back: the managed-by label,    *)
(* the UID of its controller ownerReference, the version annotation, the   *)
(* data map and the immutable flag.  Names, types and the vault and secret *)
(* annotations (written, never read) are left out.                         *)
(***************************************************************************)
EXTENDS Naturals

CONSTANTS
    Owners,        \* UIDs of SecretSync objects
    Controllers,   \* every UID a controller ownerReference may carry
    NoController,  \* GetControllerOf returned nil
    NameOf,        \* the object name behind a controller UID
    Keys,          \* data keys
    Values,        \* secret values
    Versions,      \* Key Vault version identifiers
    NoVersion,     \* no version annotation / an empty syncedVersion
    Absent         \* nothing exists at this name

ASSUME OwnersAssumption ==
    /\ Owners \subseteq Controllers
    /\ NoController \notin Controllers
    /\ DOMAIN NameOf = Controllers
    /\ NoVersion \notin Versions

\* The data map of a Secret: a partial function from keys to values.
DataMaps == UNION {[K -> Values] : K \in SUBSET Keys}

\* data = {dataKey: value}, the only shape a managed Secret is given.
DataOf(dataKey, value) == [k \in {dataKey} |-> value]

Secrets == [labelled   : BOOLEAN,
            controller : Controllers \cup {NoController},
            version    : Versions \cup {NoVersion},
            data       : DataMaps,
            immutable  : BOOLEAN]

ASSUME AbsentAssumption == Absent \notin Secrets

-----------------------------------------------------------------------------
(* Ownership and shape. *)

ControllerOwnedBy(secret, owner) == secret.controller = owner

writable(secret, owner) == secret.labelled \/ ControllerOwnedBy(secret, owner)

\* SetControllerReference fails with AlreadyOwnedError.  The library compares
\* the group, kind and NAME of the two references, not their UIDs: an earlier
\* incarnation of the same SecretSync does not count as another owner here.
AlreadyOwned(secret, owner) ==
    /\ secret.controller # NoController
    /\ NameOf[secret.controller] # NameOf[owner]

\* First writer wins: owner may write over this occupant.
Claimable(secret, owner) ==
    writable(secret, owner) /\ ~AlreadyOwned(secret, owner)

managedSecretDataMatches(secret, dataKey, value) ==
    secret.data = DataOf(dataKey, value)

immutableBlocksWrite(secret, dataKey, value) ==
    secret.immutable /\ ~managedSecretDataMatches(secret, dataKey, value)

\* populateManagedSecret followed by SetControllerReference.
populateManagedSecret(secret, owner, dataKey, value, version) ==
    [secret EXCEPT !.labelled = TRUE,
                   !.controller = owner,
                   !.version = version,
                   !.data = DataOf(dataKey, value)]

\* The object create builds from nothing.
newManagedSecret(owner, dataKey, value, version) ==
    [labelled |-> TRUE, controller |-> owner, version |-> version,
     data |-> DataOf(dataKey, value), immutable |-> FALSE]

\* ManagedSecretCacheOptions: the informer only holds labelled Secrets.
Cached(obj) == IF obj # Absent /\ obj.labelled THEN obj ELSE Absent

-----------------------------------------------------------------------------
(* The engine's decisions about the target Secret it was handed.  The other- *)
(* owner check compares UIDs, unlike AlreadyOwned.                           *)

EngineConflict(existing, owner) ==
    /\ existing # Absent
    /\ \/ ~existing.labelled
       \/ existing.controller \notin {owner, NoController}

\* Mutant of Managed: a labelled Secret counts as a prior write, whoever's.
Managed_LabelOnly(existing, owner) ==
    /\ existing # Absent
    /\ existing.labelled

\* "managed": verifiably a prior write of this very SecretSync.
Managed(existing, owner) ==
    /\ existing # Absent
    /\ existing.labelled
    /\ ControllerOwnedBy(existing, owner)

\* The engine's idempotent skip.
UpToDate(existing, owner, dataKey, value, version) ==
    /\ Managed(existing, owner)
    /\ existing.version = version
    /\ managedSecretDataMatches(existing, dataKey, value)

\* Mutant of WriteGate: an up-to-date Secret nobody owns is left alone.
WriteGate_NoOwner(existing, owner, dataKey, value, version) ==
    \/ existing = Absent
    \/ existing.version # version
    \/ existing.data # DataOf(dataKey, value)

\* Mutant of WriteGate: only the version annotation is compared.
WriteGate_VersionOnly(existing, owner, dataKey, value, version) ==
    \/ existing = Absent
    \/ ~ControllerOwnedBy(existing, owner)
    \/ existing.version # version

\* The reconciler's write gate, over the snapshot taken before Sync ran.
WriteGate(existing, owner, dataKey, value, version) ==
    \/ existing = Absent
    \/ ~ControllerOwnedBy(existing, owner)
    \/ existing.version # version
    \/ existing.data # DataOf(dataKey, value)

-----------------------------------------------------------------------------
(* The outcome of a whole SecretWriter.CreateOrUpdate call. *)

\* c's write of (key, value) may be applied to this occupant.
MayCommit(occupant, c, key, value) ==
    \/ occupant = Absent
    \/ Claimable(occupant, c) /\ ~immutableBlocksWrite(occupant, key, value)

\* The occupant after c's write.
Committed(occupant, c, key, value, version) ==
    IF occupant = Absent
    THEN newManagedSecret(c, key, value, version)
    ELSE populateManagedSecret(occupant, c, key, value, version)

\* The writer's answer about one copy of the target, cached or fresh.
CopyVerdict(copy, c, key, value) ==
    CASE copy = Absent                              -> "ok"
      [] copy # Absent /\ ~writable(copy, c)        -> "TargetConflict"
      [] copy # Absent /\ writable(copy, c)
            /\ immutableBlocksWrite(copy, key, value) -> "TargetImmutable"
      [] copy # Absent /\ writable(copy, c)
            /\ ~immutableBlocksWrite(copy, key, value)
            /\ AlreadyOwned(copy, c)                -> "TargetConflict"
      [] OTHER                                      -> "ok"

\* The answer of a call nobody disturbs, given the cached copy it starts from
\* and what the API server holds: the cached copy decides if it can, an Update
\* of a Secret that is already gone fails, and a fresh copy decides the rest.
WriteVerdict(cached, current, c, key, value) ==
    IF CopyVerdict(cached, c, key, value) # "ok"
    THEN CopyVerdict(cached, c, key, value)
    ELSE IF cached # Absent /\ current = Absent THEN "error"
    ELSE CopyVerdict(current, c, key, value)

-----------------------------------------------------------------------------
(* Reasons. *)

\* classifyReaderError: the reason for a failed vault read.
classifyReaderError(err, managed) ==
    CASE err = "NotFound" /\ managed  -> "SourceDeleted"
      [] err = "NotFound" /\ ~managed -> "SecretNotFound"
      [] err = "Disabled"             -> "SourceDisabled"
      [] err = "Denied"               -> "AccessDenied"
      [] err = "Auth"                 -> "AuthenticationFailed"
      [] OTHER                        -> "TransientError"
=============================================================================

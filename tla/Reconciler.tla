----------------------------- MODULE Reconciler -----------------------------
(***************************************************************************)
(* internal/controller: Reconcile, reconcileDelete, the sweep of renamed   *)
(* targets and the workqueue that drives them, with internal/sync's engine *)
(* in between.  One step per API call, vault read or cached read; the      *)
(* local computation between two of them belongs to the first.             *)
(*                                                                         *)
(* A SecretWriter.CreateOrUpdate call is one step here: SecretWriter shows *)
(* that it writes atomically or not at all, and what it answers.           *)
(*                                                                         *)
(* resourceVersions are not counted.  crFresh[c] says that the cached copy *)
(* of c is its latest revision, worker[c].fresh that the copy the worker   *)
(* holds is; a write of a copy that is not fresh is a Conflict or NotFound.*)
(*                                                                         *)
(*   pc         what the worker of c does next                             *)
(*   "pending"  persist Pending on a new CR                                *)
(*   "claim"    findConflictingOwner, off the cached list                  *)
(*   "read"     cached Get of the target, and the engine's conflict check  *)
(*   "vault"    GetLatest                                                  *)
(*   "finalize" add the finalizer                                          *)
(*   "write"    CreateOrUpdate                                             *)
(*   "status"   persist the outcome                                        *)
(*   "list"     list managed Secrets for the sweep                         *)
(*   "sweep"    delete those in worker[c].todo                             *)
(*   "lookup"   reconcileDelete's cached Get                               *)
(*   "remove"   reconcileDelete's Delete                                   *)
(*   "release"  remove the finalizer                                       *)
(***************************************************************************)
EXTENDS SecretObjects, KeyVaultReader, FiniteSets

CONSTANTS
    Names,         \* target Secret names in the namespace
    Rank,          \* (creationTimestamp, name) order of the SecretSyncs
    ValueOf,       \* the value each vault version carries
    MaxConcurrent, \* maxConcurrentReconciles
    QueueEnabled,  \* --queue-url is set, so the listener dispatches
    EditKinds,     \* what users do to Secrets in this instance
    Outages,       \* what else than Served becomes of GetSecret requests here
    MaxEdits,      \* bound on what users do to Secrets and SecretSyncs
    MaxFaults,     \* bound on failed calls and restarts
    MaxOutages     \* bound on changes of the vault's availability

\* A value that Key Vault serves comes with the ID that names its version.  The
\* code does not check this: GetLatest would succeed with an empty version.
ASSUME NamedAssumption == \A answer \in Outages : GetLatest(answer) = "ok" => answer.id

ASSUME ReconcilerAssumption ==
    /\ Versions \subseteq Nat /\ 1 \in Versions
    /\ Rank \in [Owners -> Nat]
    /\ \A c, d \in Owners : Rank[c] = Rank[d] => c = d
    /\ ValueOf \in [Versions -> Values]
    /\ MaxConcurrent \in Nat \ {0}
    /\ QueueEnabled \in BOOLEAN
    /\ Outages \subseteq Answers
    /\ EditKinds \subseteq {"create", "restore", "unlabel", "orphan", "drift",
                           "freeze", "delete"}
    /\ MaxEdits \in Nat /\ MaxFaults \in Nat /\ MaxOutages \in Nat

VARIABLES
    cr,       \* [Owners -> SecretSyncs], the API server's copy
    crCache,  \* the informer's copy of each
    crFresh,  \* [Owners -> BOOLEAN], that copy is the latest revision
    sec,      \* [Names -> Secrets], the API server's copy
    secCache, \* the label-filtered informer's copy
    vault,    \* its secret: the latest version, and how it answers requests
    queued,   \* SecretSyncs in the workqueue
    timers,   \* SecretSyncs with a RequeueAfter or backoff timer running
    worker,   \* [Owners -> Workers], the reconcile in flight for each
    written,  \* history: the <<name, version>>s each SecretSync has written
    budget    \* what is left of the bounds

cluster == <<cr, crCache, crFresh, sec, secCache>>
vars == <<cr, crCache, crFresh, sec, secCache, vault, queued, timers, worker,
          written, budget>>

-----------------------------------------------------------------------------
(* SecretSync objects. *)

Specs == [target : Names, key : Keys]

Reasons == {"", "TargetConflict", "TargetImmutable", "SecretWriteFailed",
            "SecretNotFound", "SourceDeleted", "SourceDisabled",
            "AccessDenied", "AuthenticationFailed", "TransientError"}

\* observed stands for observedGeneration: the spec that generation had.
SecretSyncs == [spec : Specs, deleting : BOOLEAN, finalizer : BOOLEAN,
                state : {"", "Pending", "InSync", "Failing"},
                reason : Reasons, synced : Versions \cup {NoVersion},
                observed : Specs \cup {Absent}]

ASSUME NoneAssumption == Absent \notin SecretSyncs

newSecretSync(spec) ==
    [spec |-> spec, deleting |-> FALSE, finalizer |-> FALSE, state |-> "",
     reason |-> "", synced |-> NoVersion, observed |-> Absent]

\* Mutant of WithStatus: syncedVersion is overwritten by every outcome.
WithStatus_Overwrite(ss, state, reason, version) ==
    [ss EXCEPT !.state = state, !.reason = reason, !.observed = ss.spec,
               !.synced = version]

\* The status a reconcile ends with.  Only a success moves syncedVersion.
WithStatus(ss, state, reason, version) ==
    [ss EXCEPT !.state = state, !.reason = reason, !.observed = ss.spec,
               !.synced = IF state = "InSync" THEN version ELSE @]

\* How a vault read ends now: "ok", or the error GetLatest returns.
Read == GetLatest(vault.answer)

\* The version it returns with the value.
ReadVersion == IF vault.answer.id THEN vault.version ELSE NoVersion

takesPrecedence(a, b) == Rank[a] < Rank[b]

\* Mutant of findConflictingOwner: a claimant already refused still counts.
findConflictingOwner_CountsLosers(c, ss) ==
    \E d \in Owners \ {c} :
       /\ crCache[d] # Absent
       /\ crCache[d].spec.target = ss.spec.target
       /\ takesPrecedence(d, c)

\* findConflictingOwner, off the cached list.
findConflictingOwner(c, ss) ==
    \E d \in Owners \ {c} :
       /\ crCache[d] # Absent
       /\ crCache[d].spec.target = ss.spec.target
       /\ ~(crCache[d].state = "Failing" /\ crCache[d].reason = "TargetConflict")
       /\ takesPrecedence(d, c)

-----------------------------------------------------------------------------
(* Workers and the workqueue. *)

PCs == {"idle", "pending", "claim", "read", "vault", "finalize", "write",
        "status", "list", "sweep", "lookup", "remove", "release"}

Workers == [pc : PCs, ss : SecretSyncs \cup {Absent}, fresh : BOOLEAN,
            existing : Secrets \cup {Absent}, version : Versions \cup {NoVersion},
            state : {"", "InSync", "Failing"}, reason : Reasons,
            todo : SUBSET Names]

Idle == [pc |-> "idle", ss |-> Absent, fresh |-> FALSE, existing |-> Absent,
         version |-> NoVersion, state |-> "", reason |-> "", todo |-> {}]

Running == {c \in Owners : worker[c].pc # "idle"}

target(c) == worker[c].ss.spec.target
key(c)    == worker[c].ss.spec.key

\* Reconcile returns: Result{} with neither error nor RequeueAfter, ...
Return(c) ==
    /\ worker' = [worker EXCEPT ![c] = Idle]
    /\ UNCHANGED timers

\* ... or an error (backoff) or RequeueAfter: either way a timer runs.
ReturnRequeue(c) ==
    /\ worker' = [worker EXCEPT ![c] = Idle]
    /\ timers' = timers \cup {c}

Goto(c, pc) ==
    /\ worker' = [worker EXCEPT ![c] = [@ EXCEPT !.pc = pc]]
    /\ UNCHANGED timers

\* The sweep starts: of all the locals only the SecretSync is used from here.
GotoSweep(c) ==
    /\ worker' = [worker EXCEPT ![c] = [Idle EXCEPT !.pc = "list",
                     !.ss = worker[c].ss]]
    /\ UNCHANGED timers

\* The outcome is known; all that is left is to persist it.
Report(c, state, reason, version) ==
    /\ worker' = [worker EXCEPT ![c] = [@ EXCEPT !.pc = "status",
                     !.existing = Absent, !.state = state, !.reason = reason,
                     !.version = version]]
    /\ UNCHANGED timers

\* The API server stores a new revision of c, from the worker's copy.
StoreOwn(c, obj, pc) ==
    /\ cr' = [cr EXCEPT ![c] = obj]
    /\ crFresh' = [crFresh EXCEPT ![c] = FALSE]
    /\ worker' = [worker EXCEPT ![c] = [@ EXCEPT !.ss = obj, !.pc = pc]]
    /\ UNCHANGED <<crCache, sec, secCache, timers>>

\* A write of c that the API server answers with Conflict or NotFound.
StaleWrite(c) ==
    /\ ~worker[c].fresh
    /\ ReturnRequeue(c)
    /\ UNCHANGED cluster

-----------------------------------------------------------------------------
(* Reconcile. *)

\* Mutant of Reconcile: a SecretSync that is gone is cleaned up after.
Reconcile_NotFoundIgnored(c) ==
    /\ c \in queued
    /\ worker[c].pc = "idle"
    /\ queued' = queued \ {c}
    /\ LET ss == crCache[c]
           go(pc) == worker' = [worker EXCEPT ![c] = [Idle EXCEPT
                                   !.pc = pc, !.ss = ss, !.fresh = crFresh[c]]]
       IN  \/ ss = Absent /\ go("lookup")
           \/ ss # Absent /\ ss.deleting /\ go("lookup")
           \/ ss # Absent /\ ~ss.deleting /\ ss.state = "" /\ go("pending")
           \/ ss # Absent /\ ~ss.deleting /\ ss.state # "" /\ go("claim")
    /\ UNCHANGED <<cluster, vault, timers, written, budget>>

\* A worker takes c off the queue and reads it from the cache.
Reconcile(c) ==
    /\ c \in queued
    /\ worker[c].pc = "idle"
    /\ Cardinality(Running) < MaxConcurrent
    /\ queued' = queued \ {c}
    /\ LET ss == crCache[c]
           go(pc) == worker' = [worker EXCEPT ![c] = [Idle EXCEPT
                                   !.pc = pc, !.ss = ss, !.fresh = crFresh[c]]]
       IN  \/ /\ \/ ss = Absent
                 \/ ss # Absent /\ ss.deleting /\ ~ss.finalizer
              /\ UNCHANGED worker
           \/ ss # Absent /\ ss.deleting /\ ss.finalizer /\ go("lookup")
           \/ ss # Absent /\ ~ss.deleting /\ ss.state = "" /\ go("pending")
           \/ ss # Absent /\ ~ss.deleting /\ ss.state # "" /\ go("claim")
    /\ UNCHANGED <<cluster, vault, timers, written, budget>>

setPending(c) ==
    /\ worker[c].pc = "pending"
    /\ \/ StaleWrite(c)
       \/ /\ worker[c].fresh
          /\ StoreOwn(c, [worker[c].ss EXCEPT !.state = "Pending"], "claim")
    /\ UNCHANGED <<vault, queued, written, budget>>

checkClaim(c) ==
    /\ worker[c].pc = "claim"
    /\ IF findConflictingOwner(c, worker[c].ss)
       THEN Report(c, "Failing", "TargetConflict", NoVersion)
       ELSE Goto(c, "read")
    /\ UNCHANGED <<cluster, vault, queued, written, budget>>

\* The cached Get of the target, and Engine.Sync up to the vault read.
readTarget(c) ==
    /\ worker[c].pc = "read"
    /\ LET existing == secCache[target(c)]
       IN  IF EngineConflict(existing, c)
           THEN Report(c, "Failing", "TargetConflict", NoVersion)
           ELSE /\ worker' = [worker EXCEPT ![c] = [@ EXCEPT
                                 !.pc = "vault", !.existing = existing]]
                /\ UNCHANGED timers
    /\ UNCHANGED <<cluster, vault, queued, written, budget>>

\* Where a successful Sync leads: the write gate over the earlier snapshot.
AfterSync(c, version) ==
    IF WriteGate(worker[c].existing, c, key(c), ValueOf[version], version)
    THEN "write" ELSE "status"

\* Mutant of syncFromVault: the finalizer is left for a later reconcile.
syncFromVault_NoFinalizer(c) ==
    /\ worker[c].pc = "vault"
    /\ Read = "ok"
    /\ worker' = [worker EXCEPT ![c] = [@ EXCEPT
           !.state = "InSync", !.version = ReadVersion,
           !.pc = AfterSync(c, ReadVersion)]]
    /\ UNCHANGED <<cluster, vault, timers, queued, written, budget>>

\* Mutant of syncFromVault: reads the version some event named, not the latest.
syncFromVault_AnyVersion(c) ==
    /\ worker[c].pc = "vault"
    /\ \E v \in 1 .. vault.version :
          worker' = [worker EXCEPT ![c] = [@ EXCEPT
              !.state = "InSync", !.version = v,
              !.pc = IF worker[c].ss.finalizer THEN AfterSync(c, v)
                     ELSE "finalize"]]
    /\ UNCHANGED <<cluster, vault, timers, queued, written, budget>>

\* GetLatest, and Engine.Sync from there on.
syncFromVault(c) ==
    /\ worker[c].pc = "vault"
    /\ \/ /\ Read # "ok"
          /\ Report(c, "Failing",
                classifyReaderError(Read, Managed(worker[c].existing, c)),
                NoVersion)
       \/ /\ Read = "ok"
          /\ worker' = [worker EXCEPT ![c] = [@ EXCEPT
                 !.state = "InSync", !.version = ReadVersion,
                 !.pc = IF worker[c].ss.finalizer THEN AfterSync(c, ReadVersion)
                        ELSE "finalize"]]
          /\ UNCHANGED timers
    /\ UNCHANGED <<cluster, vault, queued, written, budget>>

addFinalizer(c) ==
    /\ worker[c].pc = "finalize"
    /\ \/ StaleWrite(c)
       \/ /\ worker[c].fresh
          /\ StoreOwn(c, [worker[c].ss EXCEPT !.finalizer = TRUE],
                      AfterSync(c, worker[c].version))
    /\ UNCHANGED <<vault, queued, written, budget>>

\* CreateOrUpdate as one step, and Reconcile's classification of its answer.
\* A call that fails for reasons of its own may still have landed its write.
writeSecret(c) ==
    LET n       == target(c)
        value   == ValueOf[worker[c].version]
        verdict == WriteVerdict(secCache[n], sec[n], c, key(c), value)
        commit  == /\ sec' = [sec EXCEPT ![n] =
                         Committed(@, c, key(c), value, worker[c].version)]
                   /\ written' = [written EXCEPT ![c] = @ \cup
                         {<<n, worker[c].version>>}]
    IN  /\ worker[c].pc = "write"
        /\ \/ /\ verdict = "ok" /\ commit
              /\ Report(c, "InSync", "", worker[c].version)
              /\ UNCHANGED budget
           \/ /\ verdict \in {"TargetConflict", "TargetImmutable"}
              /\ Report(c, "Failing", verdict, NoVersion)
              /\ UNCHANGED <<sec, written, budget>>
           \/ /\ verdict = "error"
              /\ Report(c, "Failing", "SecretWriteFailed", NoVersion)
              /\ UNCHANGED <<sec, written, budget>>
           \/ /\ budget.faults > 0
              /\ budget' = [budget EXCEPT !.faults = @ - 1]
              /\ Report(c, "Failing", "SecretWriteFailed", NoVersion)
              /\ \/ verdict = "ok" /\ commit
                 \/ UNCHANGED <<sec, written>>
        /\ UNCHANGED <<cr, crCache, crFresh, secCache, vault, queued>>

\* Mutant of updateStatus: the sweep follows a failure too.
updateStatus_AlwaysSweeps(c) ==
    LET w   == worker[c]
        obj == WithStatus(w.ss, w.state, w.reason, w.version)
        done == GotoSweep(c)
    IN  /\ w.pc = "status"
        /\ \/ StaleWrite(c)
           \/ /\ w.fresh /\ obj = w.ss
              /\ done
              /\ UNCHANGED cluster
           \/ /\ w.fresh /\ (obj # w.ss \/ w.state = "InSync")
              /\ cr' = [cr EXCEPT ![c] = obj]
              /\ crFresh' = [crFresh EXCEPT ![c] = FALSE]
              /\ done
              /\ UNCHANGED <<crCache, sec, secCache>>
        /\ UNCHANGED <<vault, queued, written, budget>>

\* Mutant of updateStatus: a failure waits for the next event to come.
updateStatus_NoRequeue(c) ==
    LET w   == worker[c]
        obj == WithStatus(w.ss, w.state, w.reason, w.version)
        done == IF w.state = "InSync" THEN GotoSweep(c) ELSE Return(c)
    IN  /\ w.pc = "status"
        /\ \/ StaleWrite(c)
           \/ /\ w.fresh /\ obj = w.ss
              /\ done
              /\ UNCHANGED cluster
           \/ /\ w.fresh /\ (obj # w.ss \/ w.state = "InSync")
              /\ cr' = [cr EXCEPT ![c] = obj]
              /\ crFresh' = [crFresh EXCEPT ![c] = FALSE]
              /\ done
              /\ UNCHANGED <<crCache, sec, secCache>>
        /\ UNCHANGED <<vault, queued, written, budget>>

\* The final status write.  lastSyncTime makes an InSync status new again as
\* soon as the clock has moved a second; any other unchanged status is a no-op.
updateStatus(c) ==
    LET w   == worker[c]
        obj == WithStatus(w.ss, w.state, w.reason, w.version)
        done == IF w.state = "InSync" THEN GotoSweep(c) ELSE ReturnRequeue(c)
    IN  /\ w.pc = "status"
        /\ \/ StaleWrite(c)
           \/ /\ w.fresh /\ obj = w.ss
              /\ done
              /\ UNCHANGED cluster
           \/ /\ w.fresh /\ (obj # w.ss \/ w.state = "InSync")
              /\ cr' = [cr EXCEPT ![c] = obj]
              /\ crFresh' = [crFresh EXCEPT ![c] = FALSE]
              /\ done
              /\ UNCHANGED <<crCache, sec, secCache>>
        /\ UNCHANGED <<vault, queued, written, budget>>

\* Mutant of listStale: sweeps only in the reconcile that saw the rename.
listStale_OnlyOnRename(c) ==
    /\ worker[c].pc = "list"
    /\ LET todo == {n \in Names : /\ n # target(c)
                                  /\ worker[c].ss.observed # worker[c].ss.spec
                                  /\ secCache[n] # Absent
                                  /\ ControllerOwnedBy(secCache[n], c)}
       IN  IF todo = {} THEN ReturnRequeue(c)
           ELSE /\ worker' = [worker EXCEPT ![c] = [@ EXCEPT
                                 !.pc = "sweep", !.todo = todo]]
                /\ UNCHANGED timers
    /\ UNCHANGED <<cluster, vault, queued, written, budget>>

\* deleteStaleManagedSecrets: the cached list, ...
listStale(c) ==
    /\ worker[c].pc = "list"
    /\ LET todo == {n \in Names : /\ n # target(c)
                                  /\ secCache[n] # Absent
                                  /\ ControllerOwnedBy(secCache[n], c)}
       IN  IF todo = {} THEN ReturnRequeue(c)
           ELSE /\ worker' = [worker EXCEPT ![c] = [@ EXCEPT
                                 !.pc = "sweep", !.todo = todo]]
                /\ UNCHANGED timers
    /\ UNCHANGED <<cluster, vault, queued, written, budget>>

\* ... then one Delete by name after the other; NotFound is ignored.
deleteStale(c, n) ==
    /\ worker[c].pc = "sweep"
    /\ n \in worker[c].todo
    /\ sec' = [sec EXCEPT ![n] = Absent]
    /\ IF worker[c].todo = {n} THEN ReturnRequeue(c)
       ELSE /\ worker' = [worker EXCEPT ![c].todo = @ \ {n}]
            /\ UNCHANGED timers
    /\ UNCHANGED <<cr, crCache, crFresh, secCache, vault, queued, written, budget>>

-----------------------------------------------------------------------------
(* reconcileDelete. *)

\* Mutant of lookupOwned: whatever sits at the target is deleted.
lookupOwned_Unchecked(c) ==
    /\ worker[c].pc = "lookup"
    /\ IF secCache[target(c)] # Absent
       THEN Goto(c, "remove") ELSE Goto(c, "release")
    /\ UNCHANGED <<cluster, vault, queued, written, budget>>

\* Mutant of lookupOwned: a Secret that is gone is an error to retry.
lookupOwned_MustExist(c) ==
    /\ worker[c].pc = "lookup"
    /\ IF secCache[target(c)] # Absent
       THEN Goto(c, "remove") ELSE ReturnRequeue(c)
    /\ UNCHANGED <<cluster, vault, queued, written, budget>>

\* reconcileDelete's cached Get: is there a Secret of c's own at the target?
lookupOwned(c) ==
    /\ worker[c].pc = "lookup"
    /\ LET secret == secCache[target(c)]
       IN  IF secret # Absent /\ ControllerOwnedBy(secret, c)
           THEN Goto(c, "remove") ELSE Goto(c, "release")
    /\ UNCHANGED <<cluster, vault, queued, written, budget>>

removeSecret(c) ==
    /\ worker[c].pc = "remove"
    /\ sec' = [sec EXCEPT ![target(c)] = Absent]
    /\ Goto(c, "release")
    /\ UNCHANGED <<cr, crCache, crFresh, secCache, vault, queued, written, budget>>

\* Without its finalizer the API server drops the object for good.
removeFinalizer(c) ==
    /\ worker[c].pc = "release"
    /\ \/ StaleWrite(c)
       \/ /\ worker[c].fresh
          /\ cr' = [cr EXCEPT ![c] = Absent]
          /\ crFresh' = [crFresh EXCEPT ![c] = FALSE]
          /\ Return(c)
          /\ UNCHANGED <<crCache, sec, secCache>>
    /\ UNCHANGED <<vault, queued, written, budget>>

-----------------------------------------------------------------------------
(* Failures. *)

\* An API call other than the Secret write fails: backoff.
callFails(c) ==
    /\ worker[c].pc \in {"pending", "finalize", "status", "sweep", "remove",
                         "release"}
    /\ budget.faults > 0
    /\ budget' = [budget EXCEPT !.faults = @ - 1]
    /\ ReturnRequeue(c)
    /\ UNCHANGED <<cluster, vault, queued, written>>

\* The operator comes back: workers, queue and timers are gone, the informers
\* list everything afresh and report every object as created.
Startup ==
    /\ worker' = [c \in Owners |-> Idle]
    /\ timers' = {}
    /\ queued' = {c \in Owners : cr[c] # Absent}
    /\ crCache' = cr
    /\ crFresh' = [c \in Owners |-> TRUE]
    /\ secCache' = [n \in Names |-> Cached(sec[n])]
    /\ UNCHANGED <<cr, sec, vault, written>>

Restart ==
    /\ budget.faults > 0
    /\ budget' = [budget EXCEPT !.faults = @ - 1]
    /\ Startup

-----------------------------------------------------------------------------
(* Watches, timers and the queue listener: what puts c on the queue. *)

\* For(&SecretSync{}): the informer delivers c's latest revision.
crWatch(c) ==
    /\ ~crFresh[c]
    /\ crCache' = [crCache EXCEPT ![c] = cr[c]]
    /\ crFresh' = [crFresh EXCEPT ![c] = TRUE]
    /\ queued' = queued \cup {c}
    /\ UNCHANGED <<cr, sec, secCache, vault, timers, worker, written, budget>>

ControllersOf(obj) == IF obj = Absent THEN {} ELSE Owners \cap {obj.controller}

\* Owns(&Secret{}): old and new copy both map to their controllers.
secretWatch(n) ==
    /\ secCache[n] # Cached(sec[n])
    /\ secCache' = [secCache EXCEPT ![n] = Cached(sec[n])]
    /\ queued' = queued \cup ControllersOf(secCache[n])
                        \cup ControllersOf(Cached(sec[n]))
    /\ UNCHANGED <<cr, crCache, crFresh, sec, vault, timers, worker, written,
                   budget>>

timerFires(c) ==
    /\ c \in timers
    /\ timers' = timers \ {c}
    /\ queued' = queued \cup {c}
    /\ UNCHANGED <<cluster, vault, worker, written, budget>>

\* The queue listener dispatches c, for a new message or a duplicate, perhaps
\* after c is gone: the event has waited in the channel.
dispatch(c) ==
    /\ QueueEnabled
    /\ queued' = queued \cup {c}
    /\ UNCHANGED <<cluster, vault, timers, worker, written, budget>>

-----------------------------------------------------------------------------
(* Users, the garbage collector and the vault. *)

UserEdits == /\ budget.edits > 0
             /\ budget' = [budget EXCEPT !.edits = @ - 1]

\* A user's change of c outdates every copy of it.
StoreUser(c, obj) ==
    /\ cr' = [cr EXCEPT ![c] = obj]
    /\ crFresh' = [crFresh EXCEPT ![c] = FALSE]
    /\ worker' = [worker EXCEPT ![c] = [@ EXCEPT !.fresh = FALSE]]
    /\ UNCHANGED <<crCache, sec, secCache, vault, queued, timers, written>>

editSpec(c, spec) ==
    /\ UserEdits
    /\ cr[c] # Absent
    /\ ~cr[c].deleting
    /\ spec # cr[c].spec
    /\ StoreUser(c, [cr[c] EXCEPT !.spec = spec])

deleteSecretSync(c) ==
    /\ UserEdits
    /\ cr[c] # Absent
    /\ ~cr[c].deleting
    /\ StoreUser(c, IF cr[c].finalizer THEN [cr[c] EXCEPT !.deleting = TRUE]
                    ELSE Absent)

\* What an edit of each kind makes of the Secret at a name.
Edited(obj, kind) ==
    CASE kind = "unlabel" -> [obj EXCEPT !.labelled = FALSE]
      [] kind = "orphan"  -> [obj EXCEPT !.controller = NoController]
      [] kind = "drift"   -> [obj EXCEPT !.data = [k \in {} |-> 0]]
      [] kind = "freeze"  -> [obj EXCEPT !.immutable = TRUE]
      [] kind = "delete"  -> Absent

Foreign == [labelled |-> FALSE, controller |-> NoController,
            version |-> NoVersion, data |-> [k \in {} |-> 0],
            immutable |-> FALSE]

\* A backup of a managed Secret: the label, but no owner any more.
Restored == [Foreign EXCEPT !.labelled = TRUE]

editSecret(n, kind) ==
    /\ UserEdits
    /\ \/ kind = "create" /\ sec[n] = Absent /\ sec' = [sec EXCEPT ![n] = Foreign]
       \/ kind = "restore" /\ sec[n] = Absent /\ sec' = [sec EXCEPT ![n] = Restored]
       \/ /\ kind \notin {"create", "restore"} /\ sec[n] # Absent
          /\ ~(kind = "drift" /\ sec[n].immutable)
          /\ Edited(sec[n], kind) # sec[n]
          /\ sec' = [sec EXCEPT ![n] = Edited(@, kind)]
    /\ UNCHANGED <<cr, crCache, crFresh, secCache, vault, queued, timers, worker,
                   written>>

\* Kubernetes' garbage collector: the Secret's owner no longer exists.
collectGarbage(n) ==
    /\ sec[n] # Absent
    /\ \E c \in Owners : sec[n].controller = c /\ cr[c] = Absent
    /\ sec' = [sec EXCEPT ![n] = Absent]
    /\ UNCHANGED <<cr, crCache, crFresh, secCache, vault, queued, timers, worker,
                   written, budget>>

rotate ==
    /\ vault.version + 1 \in Versions
    /\ vault' = [vault EXCEPT !.version = @ + 1]
    /\ UNCHANGED <<cluster, queued, timers, worker, written, budget>>

\* Reads of the vault start or stop failing.
vaultChanges(answer) ==
    /\ budget.outages > 0
    /\ budget' = [budget EXCEPT !.outages = @ - 1]
    /\ answer # vault.answer
    /\ vault' = [vault EXCEPT !.answer = answer]
    /\ UNCHANGED <<cluster, queued, timers, worker, written>>

-----------------------------------------------------------------------------
\* Every SecretSync has just been created, and no informer has seen it.
Init ==
    /\ cr \in [Owners -> {newSecretSync(spec) : spec \in Specs}]
    /\ crCache = [c \in Owners |-> Absent]
    /\ crFresh = [c \in Owners |-> FALSE]
    /\ sec = [n \in Names |-> Absent]
    /\ secCache = [n \in Names |-> Absent]
    /\ vault = [version |-> 1, answer |-> Served]
    /\ queued = {}
    /\ timers = {}
    /\ worker = [c \in Owners |-> Idle]
    /\ written = [c \in Owners |-> {}]
    /\ budget = [edits |-> MaxEdits, faults |-> MaxFaults,
                 outages |-> MaxOutages]

\* What a worker does once it has started on c.
Work(c) ==
    \/ setPending(c)
    \/ checkClaim(c)
    \/ readTarget(c)
    \/ syncFromVault(c)
    \/ addFinalizer(c)
    \/ writeSecret(c)
    \/ updateStatus(c)
    \/ listStale(c)
    \/ \E n \in Names : deleteStale(c, n)
    \/ lookupOwned(c)
    \/ removeSecret(c)
    \/ removeFinalizer(c)

Users ==
    \/ \E c \in Owners : deleteSecretSync(c)
    \/ \E c \in Owners, spec \in Specs : editSpec(c, spec)
    \/ \E n \in Names, kind \in EditKinds : editSecret(n, kind)
    \/ rotate
    \/ \E answer \in {Served} \cup Outages : vaultChanges(answer)

Next ==
    \/ \E c \in Owners :
          \/ Reconcile(c)
          \/ Work(c)
          \/ callFails(c)
          \/ crWatch(c)
          \/ timerFires(c)
          \/ dispatch(c)
    \/ \E n \in Names : secretWatch(n) \/ collectGarbage(n)
    \/ Restart
    \/ Users

Spec == Init /\ [][Next]_vars

\* Workers run, informers catch up, timers fire and the garbage collector
\* collects.  Users, faults and the queue listener owe nothing.  The workqueue
\* is first in, first out; weak fairness of Reconcile says as much as long as
\* there are no more SecretSyncs than workers.
Fairness ==
    /\ \A c \in Owners :
          /\ WF_vars(Reconcile(c))
          /\ WF_vars(Work(c))
          /\ WF_vars(crWatch(c))
          /\ WF_vars(timerFires(c))
    /\ \A n \in Names : WF_vars(secretWatch(n)) /\ WF_vars(collectGarbage(n))

FairSpec == Spec /\ Fairness

-----------------------------------------------------------------------------
(* Properties. *)

\* Every variable has its type, and a worker that holds no SecretSync is idle.
TypeOK ==
    /\ cr \in [Owners -> SecretSyncs \cup {Absent}]
    /\ crCache \in [Owners -> SecretSyncs \cup {Absent}]
    /\ crFresh \in [Owners -> BOOLEAN]
    /\ sec \in [Names -> Secrets \cup {Absent}]
    /\ secCache \in [Names -> Secrets \cup {Absent}]
    /\ vault \in [version : Versions, answer : {Served} \cup Outages]
    /\ queued \subseteq Owners
    /\ timers \subseteq Owners
    /\ worker \in [Owners -> Workers]
    /\ \A c \in Owners : worker[c].ss = Absent <=> worker[c].pc = "idle"
    /\ written \in [Owners -> SUBSET (Names \X Versions)]
    /\ budget \in [edits : Nat, faults : Nat, outages : Nat]

\* A step of c's worker.
Acts(c) == worker'[c] # worker[c]

\* A Secret is never owned by a SecretSync that could vanish without running
\* reconcileDelete: whoever controls a Secret, and is not being deleted,
\* carries the finalizer.  The finalizer is written before the Secret, from a
\* copy of the SecretSync that may be stale by the time the Secret is written.
FinalizerBeforeSecret ==
    \A n \in Names, c \in Owners :
       sec[n] # Absent /\ sec[n].controller = c /\ cr[c] # Absent
          => cr[c].finalizer

\* FR-005, latest wins: duplicate, delayed and reordered triggers, retries and
\* restarts never put an older vault version back into a Secret.
NoRollback ==
    [][\A n \in Names, c \in Owners :
          /\ sec[n] # Absent /\ sec'[n] # Absent /\ sec'[n] # sec[n]
          /\ sec[n].controller = c /\ sec'[n].controller = c /\ Acts(c)
          => sec'[n].version >= sec[n].version]_vars

\* FR-013, keep last known good: the worker of a SecretSync takes its Secret
\* away only if the SecretSync is being deleted, or has reported InSync at
\* another target.  No failure ever costs a workload its Secret.
KeepLastKnownGood ==
    [][\A n \in Names, c \in Owners :
          /\ sec[n] # Absent /\ sec[n].controller = c /\ sec'[n] = Absent
          /\ Acts(c)
          => \/ cr[c] = Absent
             \/ cr[c].deleting
             \/ cr[c].state = "InSync" /\ cr[c].observed.target # n]_vars

\* reconcileDelete and the sweep delete at a name only if the SecretSync they
\* act for has itself written a Secret there: a conflict loser, or one refused
\* by an unmanaged Secret, deletes nothing, with or without a finalizer.
DeletesOnlyOwnWrites ==
    [][\A n \in Names, c \in Owners :
          sec[n] # Absent /\ sec'[n] = Absent /\ Acts(c)
             => \E v \in Versions : <<n, v>> \in written[c]]_vars

\* InSync is earned: the target of the spec that was observed has really been
\* given the reported version by this very SecretSync.  A conflict loser never
\* reports InSync over the winner's identical Secret.
InSyncEarned ==
    \A c \in Owners :
       cr[c] # Absent /\ cr[c].state = "InSync"
          => <<cr[c].observed.target, cr[c].synced>> \in written[c]

\* SourceDeleted promises that the last synced value is kept, so a SecretSync
\* reports it only if it has itself written the target it observed.  The code
\* infers this from a cached copy of whatever sits there, and a labelled Secret
\* may be a backup someone restored.  (Where several SecretSyncs claim a target
\* it may also be another's: that case is in the theorem, whose Owners are
\* arbitrary, and not in the run, which has one.)
SourceDeletedMeansSynced ==
    \A c \in Owners :
       cr[c] # Absent /\ cr[c].reason = "SourceDeleted"
          => \E v \in Versions : <<cr[c].observed.target, v>> \in written[c]

\* As long as Key Vault names the version of every value it serves
\* (NamedAssumption), status.syncedVersion never goes back or blank, through
\* failures, conflicts and retargeting.
SyncedNeverRegresses ==
    [][\A c \in Owners :
          /\ cr[c] # Absent /\ cr'[c] # Absent
          /\ cr[c].synced # NoVersion
          => cr'[c].synced # NoVersion /\ cr'[c].synced >= cr[c].synced]_vars

\* No SecretSync is forgotten: one that exists is being worked on, queued,
\* waiting for a timer, or about to be delivered by the informer; and so is one
\* being deleted until it is gone.
NeverForgotten ==
    \A c \in Owners :
       cr[c] # Absent
          => \/ worker[c].pc # "idle"
             \/ c \in queued \cup timers
             \/ ~crFresh[c]

\* Ownership is checked before anything is deleted: reconcileDelete says a
\* SecretSync "must never delete whatever object currently sits at that name",
\* and deleteStaleManagedSecrets that a Secret owned by another is "never
\* touched, no matter what".  The check is made on a cached copy, and the
\* Delete that follows carries neither a UID nor a resourceVersion.
DeletesOnlyOwned ==
    [][\A n \in Names, c \in Owners :
          sec[n] # Absent /\ sec'[n] = Absent /\ Acts(c)
             => ControllerOwnedBy(sec[n], c)]_vars

-----------------------------------------------------------------------------
(* Liveness. *)

Claims(c, n) == cr[c] # Absent /\ ~cr[c].deleting /\ cr[c].spec.target = n

\* Someone who declares n may write it.
Obtainable(n) ==
    /\ Read = "ok"
    /\ \E c \in Owners :
          /\ Claims(c, n)
          /\ MayCommit(sec[n], c, cr[c].spec.key, ValueOf[vault.version])

\* n holds the latest version for a SecretSync that declares it and says so.
Holds(n) ==
    \E c \in Owners :
       /\ Claims(c, n)
       /\ sec[n] # Absent
       /\ UpToDate(sec[n], c, cr[c].spec.key, ValueOf[vault.version],
                   vault.version)
       /\ cr[c].state = "InSync" /\ cr[c].synced = vault.version

\* Once users, faults and the vault come to rest, every declared target that
\* can be obtained is obtained: two claims never keep each other at
\* TargetConflict, drift and missed notifications are repaired.
Converges == <>[](\A n \in Names : Obtainable(n) => Holds(n))

\* Once they come to rest, whoever reports InSync tells the truth: its target
\* is its own and holds the latest version, so no two SecretSyncs both claim to
\* have the same target in sync.
StatusSettles ==
    <>[](\A c \in Owners :
            /\ cr[c] # Absent /\ ~cr[c].deleting
            /\ cr[c].state = "InSync" /\ Read = "ok"
            => /\ sec[cr[c].spec.target] # Absent
               /\ UpToDate(sec[cr[c].spec.target], c, cr[c].spec.key,
                           ValueOf[vault.version], vault.version))

\* A rename leaves nothing behind: once a SecretSync is InSync at its target
\* for good, no labelled Secret of its own is left at any other name, although
\* the sweep runs off a lagging cache and each of its Deletes may fail.
StaleSwept ==
    <>[](\A c \in Owners, n \in Names :
            /\ cr[c] # Absent /\ ~cr[c].deleting
            /\ cr[c].state = "InSync" /\ cr[c].spec.target # n
            /\ sec[n] # Absent /\ sec[n].labelled
            => ~ControllerOwnedBy(sec[n], c))

\* A deleted SecretSync eventually goes, whatever became of its Secret, and no
\* Secret it controls outlives it: the one that a lagging or filtered cache hid
\* from reconcileDelete is collected by its owner reference.
DeletionCompletes ==
    \A c \in Owners :
       cr[c] # Absent /\ cr[c].deleting
          ~> [](/\ cr[c] = Absent
               /\ \A n \in Names : sec[n] # Absent => ~ControllerOwnedBy(sec[n], c))
=============================================================================

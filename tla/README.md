# kvsynk8s in TLA+

kvsynk8s is a Kubernetes operator that copies Azure Key Vault secrets into
Kubernetes Secrets. A user declares a `SecretSync`: a vault secret, a target
Secret name and a data key. The operator writes the value into the target,
keeps it current (periodically, and at once when Event Grid announces a new
version on a Storage Queue), and removes it when the SecretSync is deleted.

This directory holds TLA+ modules translated from the operator's Go code, the
TLC configurations that model-check them, and TLAPS proofs. `PROJECT.json` maps
every definition to the lines it models and lists runs, mutants, findings,
hazards and theorems. Run a check with `tlc -config X.cfg M` and a proof with
`tlapm M.tla`, in this directory.

## 1. The system

| Component | State it keeps | Operations | Talks to |
|---|---|---|---|
| `internal/sync/writer.go` SecretWriter | none of its own; the Secret on the API server, the informer's copy of it | CreateOrUpdate, create, update/applyUpdate, recoverAlreadyExists, recoverConflict, classifyInvalid | API server, label-filtered cache, uncached reader |
| `internal/sync/engine.go` Engine | none | Sync: conflict check, vault read, write gate, status; classifyReaderError | reader, writer |
| `internal/controller` reconciler | workqueue, timers; SecretSync status and finalizer | Reconcile, findConflictingOwner, reconcileDelete, deleteStaleManagedSecrets | engine, API server, caches, Events channel |
| `internal/events/listener.go` Listener | the batch and message in hand, the Events channel | Start, pollOnce, handleMessage, matchingSecretSyncs, deleteMessage | queue, cache, reconciler (channel) |
| `internal/events/parser.go` | none | Parse | listener |
| `internal/azure` reader and queue | clients, credentials | GetLatest; Receive, Delete; RedactURL, redactURLError | Key Vault, Storage Queue |
| metrics (`internal/controller`, `internal/events`) | counters, gauges, the reader to list with | Collect, recordSyncResult, recordReceiveSuccess, recordReceiveFailure | Prometheus, SecretSync cache |
| `cmd/main.go` | flags and environment | resolve the interval and the queue URL, log them, start, shutdown, cache selector, capacity of the channel | all |

They interact in three ways. The listener sends SecretSync names over a bounded
channel to the controller, which puts them on the workqueue. Each reconcile
calls the engine, which reads the vault and calls the writer. Everything else
goes through the API server: the operator writes it directly, reads it through
informers that lag behind, and is woken by what those informers deliver. The
Secret informer sees only Secrets that carry the `managed-by` label.

What makes this hard:

- **Stale reads.** Nearly every decision is taken on a cached copy. The
  operator's own last write may be missing from it, and a Secret that lost its
  label is invisible for good.
- **Check, then act.** Ownership is checked in one call and the Secret written
  or deleted in a later one, while users, the garbage collector, other
  controllers and a second worker act in between.
- **Two claims on one name.** Two SecretSyncs may declare the same target;
  exactly one should get it, and the other must not harm it.
- **Failure at any point.** Calls fail, replies are lost after the effect, the
  process restarts: the workqueue, the timers and the channel are gone.
- **At-least-once delivery.** Messages are leased, redelivered, duplicated and
  reordered, and are discarded as poison after enough deliveries.
- **Calls that never return.** A vault, the API server or the queue may accept a
  request and not answer. There are two workers, one poll loop and one metrics
  endpoint, and what would report the outage may hang with the rest.
- **Something must eventually happen.** Nothing but a timer, an event or an
  error ever runs a reconcile again.

The code relies on a single instance. Leader election is always off
(`cmd/main.go:418`); what keeps two instances apart is the Deployment's
`replicas: 1` and `strategy: Recreate`.

What makes each part correct:

- *writer*: no Secret that belongs to somebody else is ever changed; a write
  happens entirely or not at all; each refusal has a cause; a call returns.
- *reconciler*: finalizer before Secret; no failure removes the last known good
  Secret; only own Secrets are deleted; InSync and `syncedVersion` tell the
  truth; nobody is forgotten; claims, drift, renames and deletions settle.
- *listener*: no announced version is lost; a message is deleted only after its
  SecretSyncs were accepted; the queue drains.
- *both together*: an announced version reaches the Secret.
- *process*: no configuration turns the periodic reconcile off; a hung call
  costs nobody else his sync and is visible; the SAS token in a queue URL is not
  logged.

## 2. Modules

```
SecretObjects ---- SecretWriter ---- MCSecretWriter
      |                 |  \-------- SecretWriterProofs
      |            WriteContract  (refined by SecretWriter)
      |
      +----------- Reconciler ------ MCReconciler
KeyVaultReader ---/     \----------- ReconcilerProofs

QueueMessages ---- Listener -------- MCListener
                        \----------- ListenerProofs

Reconciler, Listener ---- Operator ---- MCOperator
ReconcilerProofs --------------\------- OperatorProofs ---- RotationProofs

Configuration ---- Manager --------- MCManager
                        \----------- ManagerProofs
```

### SecretObjects

The operators shared by the writer, the engine and the reconciler, on one
managed Secret: `[labelled, controller, version, data, immutable]`.
`ControllerOwnedBy`, `writable`, `AlreadyOwned`, `immutableBlocksWrite` and
`populateManagedSecret` are writer.go's helpers; `EngineConflict`, `Managed` and
`WriteGate` are the decisions of `Engine.Sync`. `MayCommit`, `Committed` and
`WriteVerdict` summarise a whole CreateOrUpdate call, and are what WriteContract
and Reconciler use for it. A controller is a UID; `NameOf` gives its name, since
controller-runtime's AlreadyOwned compares names, so that a recreated SecretSync
(`c1old` and `c1` in MCSecretWriter) may take its predecessor's Secret.

### SecretWriter and WriteContract

Several CreateOrUpdate calls work on one Secret name, one API call per step:

| Step | Code |
|---|---|
| `CreateOrUpdate` | the cached Get that starts a call |
| `create`, `recoverAlreadyExists` | Create; the uncached re-read after AlreadyExists |
| `applyUpdateRefuses`, `applyUpdateWrites`, `applyUpdateRejected` | the local refusals of applyUpdate; an Update that succeeds; one the server answers with Conflict, Invalid or NotFound |
| `recoverConflict`, `classifyInvalid` | the uncached re-reads after Conflict and Invalid |
| `CallFails`, `WriteLandsReplyLost` | any call may fail; a write may land although the caller sees an error |
| `CacheSync`, `ForeignCreate`, `ForeignEdit`, `ForeignDelete` | the informer; users and other controllers |

The API server counts revisions. It compares resourceVersions before it
validates, keeps the revision on an Update that changes nothing, and rejects a
change of an immutable Secret's data. The informer jumps to the latest revision,
which loses nothing, because only the last copy is ever read. `hist` is a history
variable: whether a foreign or an immutable Secret ever held the name, whose
call was disturbed by another writer, and what each call should answer.

`WriteContract` is the abstract specification: a call is a `Begin` followed by
one atomic, permitted `Commit`, or by a `Decline`. The refinement mapping drops
revisions and caches, and keeps for each call what it was asked and answered.

### KeyVaultReader

`GetLatest` classifies one answer of Key Vault into ok, NotFound, Denied,
Disabled, Auth or Transient, in the order keyvault.go and autherr.go do. A bundle
with a value and without an ID is ok, as in the code, and its version is empty
(`ReadVersion` in Reconciler). That Key Vault does not serve such a bundle is the
assumption `NamedAssumption` of Reconciler, which the statements about versions
rest on.

### Reconciler

Reconcile, reconcileDelete, the sweep of renamed targets and the workqueue, one
step per API call, vault read or cached read; the pcs are listed at the head of
the module. State: SecretSyncs and Secrets on the API server and in the caches,
the vault, workqueue, timers, one worker record per SecretSync (the workqueue
never runs two reconciles of one object), and the history of who wrote what.

- `Reconcile`, `setPending`, `checkClaim`, `readTarget`, `syncFromVault`,
  `addFinalizer`, `writeSecret`, `updateStatus`, `listStale`, `deleteStale`
  follow a live SecretSync; `lookupOwned`, `removeSecret`, `removeFinalizer` one
  that is being deleted.
- `writeSecret` is a whole CreateOrUpdate in one step. The contract justifies
  it: what the API server sees of a call is one permitted write or none. The
  answer is `WriteVerdict` of the cached and the current copy;
  `UndisturbedVerdict` in SecretWriter shows that this is what a call answers
  when nobody else writes during it. When somebody does, or the call fails, the
  step may also fail and be retried, out of the fault budget.
- resourceVersions are not counted: a flag says whether a copy is the latest
  revision, and a write of a copy that is not is a Conflict.
- A returned error (backoff) and a RequeueAfter are both a timer.
- `crWatch`, `secretWatch`, `timerFires`, `dispatch` (the listener), users,
  `collectGarbage`, `rotate`, `vaultChanges`, `callFails` and `Restart` are the
  environment.

Each SecretSync is one UID: one that is deleted is not created again (the
writer's model has recreation). `Rank` is the order (creationTimestamp, name).
All of them read the same vault secret, which is the hardest case for conflicts:
the loser's value is identical to the winner's.

### QueueMessages and Listener

`Parse` classifies a body by what the parser branches on: Base64, envelope, the
event type under either of its two spellings, data, object type. `Listener` is
the poll loop (`receive`, `handleMessage`, `send`, `sendCancelled`,
`deleteMessage`), the queue (`publish`, `visibilityTimeout`), and as much of the
controller as propagation needs (`consume`, `Reconcile`, `GetLatest`), with
edits, rotations, `shutdown` and `Restart`. A Receive that fails or is empty
changes only a gauge and is a stutter. A batch is handled in any order. A Delete
on a cancelled context fails. DequeueCount stops counting once it is past the
poison threshold. There is one consumer (the single instance), so pop receipts
are not modelled; a lease may still run out while its message is being handled,
and the message be received again later.

### Operator

Listener and Reconciler in one process. Operator extends Reconciler and
instantiates Listener with the real controller in the place of Listener's sketch
of it: `matchingSecretSyncs` reads Reconciler's informer cache, `consume` fills
Reconciler's workqueue, and what a SecretSync "has read" is the version its
target Secret holds. `shutdown` stops both (a running reconcile may end),
`Restarted` loses the channel, workqueue, timers, workers and caches together.
`Deliver` announces the latest version: the code never looks at the version in
an event. In the run, users may delete the SecretSync and take the label off
the Secret; they do not delete the Secret, because the secret watch keeps only
the newest state, and a Secret created and deleted between two informer
deliveries, which happens on a relist, is repaired by the timer (`Converges`),
and here no timer is counted on.

### Configuration and Manager

`Configuration` holds the pure part: how flag and variable become an interval
(`durationFromEnv`, `configuredInterval`, `effectiveReconcileInterval`, and the
reconciler's own `reconcileInterval`) and a queue URL (`queueURLFromEnv`), and
what is printed of a URL (`RedactURL`, `redactURLError`). A URL is whether
net/url parses it, which parts it has, and which of them the cause of its parse
error quotes: pieces of the userinfo, host, path or fragment, never of the query,
which net/url cuts off before it looks at the rest. redactURLError replaces the
URL of an error and keeps the cause, so what the cause quotes is printed.

`Manager` is the process under calls that hang. Conflicts, caches and deletion
are left to Reconciler; here a reconcile is its sequence of calls.

| Action | Code |
|---|---|
| `usage`, `main` | flag errors and `--help`; main up to `mgr.Start` |
| `informerSyncs` | the first List, which queues every SecretSync |
| `cacheSyncTimeout` | the informer has not synced in time: `mgr.Start` fails, main exits, the Deployment starts it again with the same arguments |
| `Reconcile`, `setPending`, `syncFromVault`, `addFinalizer`, `writeSecret`, `updateStatus` | a reconcile whose calls are answered |
| `reconcileTimeout` | the minute's deadline passes on a hung call: a status outcome for the vault read and the Secret write, an error for the others |
| `statusPersistTimeout` | the terminal status write, on its detached context, times out |
| `receiveSucceeds`, `matchingSecretSyncs`, `deleteMessage` | the calls of the poll loop, one message at a time; the List has no deadline and waits for the informer |
| `callFails`, `queueCallTimeout` | a Receive or Delete that fails or hangs, with its log line, and for Receive the gauge |
| `scrapeStarts`, `collect`, `collectTimeout` | a scrape of the state collector |
| `goesDown`, `comesBack`, `isLost`, `rotate` | the peers; a call may be lost for good although its peer comes back |

The workqueue is a sequence without duplicates, with client-go's dirty set: a
SecretSync that comes in while it is being worked on is queued again when its
worker is done. controller-runtime's priorities are not modelled. The operator's
own writes come back through the watch and queue it once more.

## 3. Runs

Each takes at most three to four minutes with two TLC workers.

| Run | Instance | Shows |
|---|---|---|
| `writer` | 2 calls, 3 controllers, 2 values, 4 revisions | every write is first-writer-wins and atomic, verdicts are justified, every step brings a call nearer its return, the contract is implemented |
| `reconciler_pair` | 2 SecretSyncs, 1 name, 2 workers, no queue, 1 user action: a SecretSync is deleted or a Secret disowned | no Secret is owned without a finalizer; InSync is earned, and not kept by the loser; deletions only where one has written; the claims settle with one of them in sync |
| `reconciler_single` | 1 SecretSync, 2 names, 2 versions, 2 user actions, 1 fault | no rollback, last known good kept, `syncedVersion` never regresses, nobody forgotten |
| `reconciler_converges` | 1 SecretSync, 2 versions, 1 user action of any kind (a restored backup too), 1 fault, the vault secret deleted and restored, no queue | drift, edits and outages are repaired by the periodic reconcile alone, InSync becomes true, SourceDeleted is said only of what was synced |
| `reconciler_sweep` | 1 SecretSync, 2 names, 2 user actions, 1 fault, a throttled vault | renames leave nothing labelled behind and keep the old Secret until the new one is in sync; deletions complete whatever became of the Secret, and leave none that the SecretSync controls |
| `listener` | 2 messages, 2 SecretSyncs, channel of 1, threshold 2, 1 edit, 1 fault | no announced version is lost |
| `listener_drains` | 2 messages, 1 SecretSync, threshold 1, 1 edit, 2 faults | the queue drains, announced versions propagate |
| `operator` | 1 SecretSync that spells the secret differently, 1 message, 2 versions, 1 user action, 1 listener fault or crash, shutdowns, threshold 1 | an announced version reaches the Secret without any timer; a deleted SecretSync is not brought back by a late event |
| `manager` | 2 SecretSyncs, 1 worker, intervals unset, unparsable, negative, zero and positive, queue URLs absent, with a SAS token and unparseable, 1 outage of any peer, the informer possibly down from the start | nobody is starved or dropped from the schedule, outages show in status, gauge and metrics, scrapes are answered, the reported interval is the one used, the SAS token is not logged |
| `writer_immutable`, `reconciler_deletes_foreign`, `manager_unparseable` | small | refuted, see section 5 |

Each property has a mutant in `PROJECT.json`: a plausible error in the code,
written beside the definition it would replace, that makes TLC find the property
violated.

**Bounds.** Four revisions let a Secret be created, be changed twice under a
call that holds a stale copy, and be written by that call. Two user actions are
the least that combine (rename and rename back; unlabel and delete), and one
fault is enough for a failure or a restart between any two steps. Two
SecretSyncs are the least that conflict. In the vault, versions alternate
between two values, so that a version may be new although its value is known. A
channel of one slot is full after one send, and with two messages in a batch
the handler blocks in the middle. A threshold of one makes poison reachable with
two faults. User actions are budgeted, not ordered: they occur at any point. In
Manager one worker and two SecretSyncs are the least with which a hung call can
starve somebody, and one outage at a time is enough, since every property there
is about one peer; the outage may end, end for some calls only, or never end.
The failure count stops at one: the property asks only whether it is zero.
Intervals and queue URLs are varied one at a time (`MCArguments`), because
nothing in the process reads both.

`CHECK_DEADLOCK FALSE` is set except in `manager`, because the bounded models
may stop: all SecretSyncs are deleted, or the budgets are used up and everything
is at rest. The process in Manager never stops, and is checked not to.

**Fairness.** *Writer*: none is needed. That calls return is the action property
`NearsReturn`, a bound on the calls left that every step lowers. *Reconciler*: weak fairness for workers, the informers,
timers and the garbage collector; none for users, the vault, faults or the
listener. The workqueue is first in, first out, and weak fairness of starting a
queued reconcile stands for that as long as there are no more SecretSyncs than
workers, which is so in every liveness run. *Listener*: weak fairness for the
poll loop, the consumer of the channel, the reconciles, the visibility timeout,
and the replacement of a process that was told to stop (its Deployment restarts
it). *Operator*: what Listener and Reconciler assume, without the timers.
*Manager*: the process starts, a free worker takes the head of the queue, a
worker, the poll loop and a scrape take their next step (an answer, or the
deadline of a call that hangs), timers run out, Prometheus keeps scraping, and an
informer that stays down runs into CacheSyncTimeout.
The peers owe nothing: each property says itself which of them must answer. A
deadline passes only on a call that hangs, which is what the code says of its
minute ("hung, not slow", secretsync_controller.go:86). In the other modules
everything the operator itself retries is bounded by the fault budget: a
fault that persists for ever would rightly keep the target unsynced.

## 4. Proofs

**SecretWriterProofs** proves, for any number of SecretSyncs, controllers, keys,
values and revisions:

- `TypeCorrect`: every reachable state has its type;
- `FirstWriterWinsHolds`: a CreateOrUpdate call changes a Secret only if it was
  its caller's to write at that instant;
- `CopiesKnownHolds`: the invariant below;
- `VerdictsJustifiedHolds`: TargetConflict and TargetImmutable are answered only
  if such a Secret really held the name;
- `NearsReturnHolds`: every step of a call leaves it fewer API calls to make;
- `ImplementsContractHolds`: SecretWriter refines WriteContract, so a call is one
  permitted write or none;
- `UndisturbedVerdictHolds`: a call that nobody else's write comes between gives
  the answer `WriteVerdict` computes from the cached and the current copy, which
  is what lets Reconciler take the whole call in one step.

The writer checks a copy and writes later; what connects the two is the
resourceVersion. The invariant `CopiesKnown` says so: a copy in the cache or
held by a call that carries the server's current revision is the server's
current object, and a copy held by a call has passed the `writable` check. It
needs revisions never to be reused, which is why it also bounds every copy's
revision by the server's counter. From it, an
accepted Update was checked against the very object it replaces
(`AcceptedIsClaimable`). The other lemmas split a step into what the server does
(`ServerStill`, `ServerStores`) and what a call does (`CallStep`, `ReturnStep`,
`GotoStep`). The refinement then takes one step per action: Create and accepted
Update map to `Commit`, a return without a write to `Decline`, re-reads to
stutters. For `UndisturbedVerdict` the invariant also says what each call owes
from where it stands (`Due`, `UInv`): while the server's object and the cached
copy are the ones the call set out from, every path through the recoveries still
leads to the same verdict, and as soon as somebody else writes the call is
marked disturbed. Assumption: `NoController`, `Absent` and `NoVersion` differ from the
values they stand beside, and `NameOf` is a function.

**ListenerProofs** proves, for any messages, SecretSyncs, batch size, channel
capacity, poison threshold and bounds:

- `TypeCorrect`: every reachable state has its type;
- `NoLostTriggerHolds`: an announced version that a SecretSync has yet to read
  is still on the queue, or its reconcile is coming, or the message was poison;
- `AcceptedBeforeDeleteHolds`: while a message is in hand, every SecretSync it
  is news to is still to be sent or already on its way.

NoLostTrigger alone is not inductive: `deleteMessage` takes the message away,
and what makes this harmless was established by earlier sends.
AcceptedBeforeDelete carries it across the steps between, while declarations
change, reconciles start and finish, and versions rotate. Its last two conjuncts
(nothing read or announced is newer than the vault) say that a reconcile that
reads the vault makes every pending announcement old. There is one lemma per
action; `SendStep`, `DeleteMessageStep`, `ConsumeStep` and `GetLatestStep` carry
the argument.

**ManagerProofs** proves, for any finite set of SecretSyncs, any number of
workers, any intervals, any queue URLs and any outages:

- `TypeCorrect`: types, and that a SecretSync is queued once, never while it is
  being worked on, and no more reconciles run than there are workers;
- `ScheduledHolds`: every SecretSync is queued, being worked on, or has a timer
  running, once the informer has synced;
- `ReportedIsUsedHolds`: the interval reported is the one used, and is positive;
- `SASTokenNeverLoggedHolds`: the query of a queue URL, where a SAS token sits, is
  never printed, parseable or not, and of a URL that parses only the location is.

`Scheduled` is inductive only together with the type invariant's account of the
queue, and with `Waiting`, which keeps queue, workers and timers empty until the
informer has synced. That a success arms a timer needs the interval to be
positive, which `reconcileInterval` guarantees whatever main passes. One lemma
says what each way of touching the queue preserves (`StayStep` for a reconcile
that goes on, others for one that starts or returns, a timer that fires, and
steps outside the controller); each action cites one of them. `ReportedIsUsed`
needs no more than the definitions of Configuration; `SASTokenNeverLogged` is
inductive with `LogOK`, which says that nothing has been printed before main has
the URL.

**ReconcilerProofs** proves, for any number of SecretSyncs, target names, keys,
vault versions and workers, any way the vault may fail and any number of edits,
faults and restarts:

- `TypeCorrect`;
- `FinalizerBeforeSecretHolds`, `NeverForgottenHolds`, `InSyncEarnedHolds`,
  `SourceDeletedMeansSyncedHolds`: the four invariants of the runs;
- `NoRollbackHolds`, `KeepLastKnownGoodHolds`, `DeletesOnlyOwnWritesHolds`,
  `SyncedNeverRegressesHolds`: the four action properties.

None is inductive alone, because a reconcile acts on three copies of the
SecretSync (the server's, the cache's, its own) and two of each Secret. `Inv`
relates them, one SecretSync at a time:

| Part | Says | Needed for |
|---|---|---|
| `CopyOK` | a fresh copy equals the stored object; finalizer and deletion only ever come, and a copy is never ahead of the object; an object goes only before its finalizer is there or after every copy shows the deletion | the write at pc "write" is covered by a finalizer that is really stored; a Conflict protects every other write |
| `Origin`, `SecretsOK` | a Secret, cached or stored or in the worker's hands, that names c as controller carries a version c has written there | InSync without a write, SourceDeleted, the sweep, rollback |
| `SyncOK`, `VersionOK` | the version in a worker's hands was read after everything its SecretSync has written, and reported | latest wins, `syncedVersion` |
| `SweepOK` | during the sweep the stored status says InSync at the declared target, which is not among the names to delete | last known good |
| `DeleteOK` | only a copy that shows the deletion reaches reconcileDelete | last known good |
| `StatusOK` | a stored status was earned | InSyncEarned, SourceDeletedMeansSynced |

`Frame`, `OwnerChanges` and `WorkerMoves` say that a step of one SecretSync
leaves the others alone, so that each action's lemma is about one owner. What a
step may do to a Secret is collected in `SecretChanges` and `TakesOwn`, from
which the action properties follow. Assumptions, beside those on the writer's
constants: versions are natural numbers and 1 is one of them (the vault's
first), `Rank` orders the SecretSyncs strictly, `Absent` is not a SecretSync, and
an answer that GetLatest takes for a success names its version
(`NamedAssumption`, used through the lemma `ReadNamed`). Without the last,
`SyncedNeverRegresses` fails: see section 5.

**OperatorProofs** carries this over to the whole process, driven by the queue
and through shutdowns and crashes: a step of the operator is a step of the
reconciler, an event taken from the channel, or a new start (`ReconcilerStep`),
and the latter two keep `Inv` and do not touch the cluster.

- `NoResurrectionHolds`: an event for a SecretSync that is gone writes nothing;
  a worker at the write holds a copy with the finalizer and no deletion, and no
  such SecretSync can be gone;
- `OperatorSafe`, `OperatorNoRollback`, `OperatorKeepsLastKnownGood`,
  `OperatorSyncedNeverRegresses`: the reconciler's promises under `SpecAll`.

**RotationProofs** proves `NoLostRotationHolds`, FR-005 from the queue to the
Secret, for any messages, SecretSyncs, names, versions, channel, batch size and
threshold, any number of crashes, failed Lists and Deletes, edits and deletions
of SecretSyncs, and of labels removed and data overwritten. It is a statement
about behaviours in which

- the vault answers, no Secret write fails on its own, and users neither create,
  delete, freeze nor disown Secrets (`Calm`), and
- no two SecretSyncs ever declare the same target (`Undisputed(home)` always,
  for some assignment `home` of names to SecretSyncs).

Without these a reconcile may end in a reported failure, and what repairs it is
its timer, which the property does not count on. With two SecretSyncs on one
name, one failed write, an outage of the vault, or one Secret created, deleted
or frozen by a user, TLC finds the property violated on the instance of
`operator`; that instance itself satisfies both conditions.

The invariant has two halves. `Quiet`: every Secret is its home's and can be
written, and a worker either goes by the declaration and the Secret that the
caches show or its SecretSync is queued, or about to be (`InStep`, `Heard`).
`Posted`: a message is on the queue, or every SecretSync it concerns has been
sent to, unless it was poison; and whoever was sent to is `Provided`: it has the
version, is on its way to a reconcile, or its worker has yet to read the vault,
holds that version or a later one, or was misled by a copy of the Secret that
the informer is about to correct (`Ahead`). What every step must preserve of
this for one SecretSync is `Kept`; there is one lemma per action, and frames for
a step that leaves a SecretSync alone (`KeptAlone`), tells the workqueue of it
(`KeptHeard`) or concerns one that is going (`KeptGoing`).

**Only model-checked**: the liveness properties (`Converges`, `StatusSettles`,
`StaleSwept`, `DeletionCompletes`, `QueueDrains`, `Propagates`,
`RotationArrives`, `NotStarved`, `OutageReported`, `GaugeTellsTruth`,
`ScrapeAnswers`): fairness is outside the prover's reach. Every invariant and
every action property of a passing run is a theorem, `NoLostRotation` under the
two conditions above.

## 5. Where the code and its documentation differ

Each is a run that TLC refutes; `PROJECT.json` quotes the lines.

- `reconciler_deletes_foreign`: reconcileDelete and the sweep check ownership on
  a cached Secret and then delete by name, without a UID or resourceVersion
  precondition. A Secret that another SecretSync has created at that name since
  is deleted. (It is written again by its owner's next reconcile; what holds is
  `DeletesOnlyOwnWrites`.)
- `writer_immutable`: an immutable Secret that another SecretSync controls gets
  TargetImmutable, not TargetConflict, because the immutable check comes first.
  The log line that goes with it advises deleting the Secret, which is another's.
- `manager_unparseable`: of a queue URL that net/url cannot parse, "the raw value
  is never echoed back" (redact.go:11-14). redactURLError puts a marker in the
  place of the URL and keeps the cause of the error, which quotes the piece that
  did not parse, a port or an escape. The query is never among the pieces, so
  that what the comment fears most does not happen (`SASTokenNeverLogged`).

Observed while reading, without a run:

- a bundle with a value and no ID is a success with version "" (keyvault.go:185),
  and the status becomes InSync with an empty `syncedVersion`. Key Vault does not
  answer so, and the models assume it (`NamedAssumption`);
- the poll loop's List has no deadline (listener.go:362). With a message in hand
  and an informer that cannot sync, the loop stalls and the failure gauge with
  it, until CacheSyncTimeout ends the process; `GaugeTellsTruth` says what is left
  of the gauge's promise then: it moves again in every life of the process;
- the finalizer is dropped while the managed Secret still exists, when the cache
  has not seen it yet or its label was removed; the garbage collector removes it
  afterwards, by its owner reference (`DeletionCompletes` asks for that too);
- classifyReaderError chooses between SecretNotFound and SourceDeleted by whether
  a managed Secret is visible at the target, not by `syncedVersion`, so that
  SecretNotFound ("never synced", engine.go:237) may be reported for a SecretSync
  that has been in sync, after a rename or after its Secret was deleted. The
  opposite mistake does not happen (`SourceDeletedMeansSynced`);
- the data model says a Secret that lacks the label is never updated; `writable`
  accepts one whose controller reference is the caller's;
- each InSync status write changes LastSyncTime, and so triggers the SecretSync's
  own watch again;
- controller-runtime's AlreadyOwned compares names, not UIDs;
- an Update answered with NotFound, off a stale cached copy, surfaces as one
  SecretWriteFailed before the next reconcile creates the Secret;
- a message whose List keeps failing becomes poison and is discarded, though the
  comment on that branch speaks of a retry instead of a loss.

## 6. Plan

Done: SecretObjects, SecretWriter with WriteContract, KeyVaultReader, Reconciler,
QueueMessages, Listener, Operator, Configuration, Manager, and the proofs of
section 4.

Next, in this order:

1. Lemmas on SecretObjects: when the engine's gate lets a write through, the
   writer accepts the same copy, or refuses it for a reason the engine reports.
2. Lemmas on Parse over all abstract bodies against the message contract, and on
   GetLatest with classifyReaderError over all answers.
3. `NoLostRotation` for users who disown a labelled Secret: an orphan is adopted
   again, which `Plain` rules out at present.

## 7. Not modelled

- A write that lands after the process that sent it has been replaced. One that
  lands although its reply was lost is modelled in SecretWriter and Manager.
- Two instances at a time. Nothing in the code coordinates them; the Deployment
  rules them out.
- Deadlines other than as the end of a call that hangs: a call that is merely
  slow past its deadline is a failed call in SecretWriter and Reconciler. In
  Manager, one outage at a time.
- What a transport error that is not a parse error says besides the URL: its
  cause is taken to name the host at most. What net/url takes for the host or the
  path of a URL that parses counts as location, whatever the user meant by it.
- In Manager, batches of more than one message, which take the same steps again,
  and the Events channel; the restart after CacheSyncTimeout takes no time.
- Bundles without an ID (`NamedAssumption`).
- The text of Events, conditions and log lines; the timestamp gauges and the
  message counter, each a copy of one value that nothing reads back; scrapes
  before `SetupWithManager`, when the metrics server does not run yet.
- Exits of main on a construction that fails, TLS, webhook and probe options.
- controller-runtime's queue priorities and backoff durations.
- CRD validation, RBAC, Helm chart, release scripts, generated code.
- The client map and mutexes of the Azure readers, token acquisition.

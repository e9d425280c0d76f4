--------------------------- MODULE RotationProofs ---------------------------
(* FR-005 from end to end: no announced rotation is lost, for any number of *)
(* messages, SecretSyncs, names and versions, any channel and batch size,   *)
(* and any number of crashes, failed calls of the listener and edits.       *)
EXTENDS OperatorProofs

-----------------------------------------------------------------------------
(* What must hold for a rotation to arrive without a timer. *)

\* The reconciler's own calls and the vault answer, and users neither delete
\* nor replace Secrets.  Otherwise a reconcile may end in a failure, and what
\* repairs it is its timer.
Calm ==
    /\ MaxFaults = 0
    /\ Outages = {}
    /\ EditKinds \subseteq {"unlabel", "drift"}

\* No two SecretSyncs ever declare the same target: home says whose a name is.
Undisputed(home) ==
    \A c \in Owners : cr[c] # Absent => home[cr[c].spec.target] = c

-----------------------------------------------------------------------------
(* The inductive invariant. *)

\* Every Secret was written by the SecretSync its name belongs to.
Plain(obj, owner) ==
    obj # Absent => /\ obj.controller = owner /\ ~obj.immutable
                    /\ obj.version \in Versions

SecretsPlain(home) ==
    \A n \in Names :
       /\ Plain(sec[n], home[n])
       /\ Plain(secCache[n], home[n])
       /\ secCache[n] # Absent => secCache[n].labelled

AtHome(home, w, c) ==
    /\ w.ss # Absent => home[w.ss.spec.target] = c
    /\ \A n \in w.todo : home[n] = c

Homes(home, c) ==
    /\ crCache[c] # Absent => home[crCache[c].spec.target] = c
    /\ AtHome(home, worker[c], c)

\* The informer has told the workqueue of c, or is about to.
Heard(c) == c \in queued \/ ~crFresh[c]

InChannel(c) == \E i \in DOMAIN channel : channel[i] = c

\* The worker goes by the declaration and the Secret that the caches show.
InStep(w, c) ==
    w.pc # "idle" =>
       /\ w.pc \notin {"list", "sweep"} => w.fresh
       /\ crCache[c] # Absent => crCache[c].spec = w.ss.spec
       /\ w.pc \in {"vault", "finalize"} /\ w.existing # Absent
             => w.existing = secCache[w.ss.spec.target]

declared(c) == crCache[c].spec.target

\* The worker has yet to read the vault, holds v or a later version, or was
\* misled by a copy of the Secret that the informer is about to correct.
Ahead(w, c, v) ==
    \/ w.pc \in {"pending", "claim", "read", "vault"}
    \/ w.pc \in {"finalize", "write"} /\ w.version >= v
    \/ /\ w.pc \notin {"finalize", "write"}
       /\ secCache[declared(c)] # Absent
       /\ sec[declared(c)] = Absent \/ secCache[declared(c)].version >= v

Wants(c, v) ==
    /\ cr[c] # Absent /\ ~cr[c].deleting /\ crCache[c] # Absent
    /\ HeldBy(c) < v

\* c has version v or will be given it.
Provided(c, v) ==
    Wants(c, v) => Heard(c) \/ InChannel(c) \/ Ahead(worker[c], c, v)

Quiet(home) ==
    /\ vault.answer = Served /\ budget.faults = 0
    /\ SecretsPlain(home)
    /\ \A c \in Owners : Homes(home, c) /\ (Heard(c) \/ InStep(worker[c], c))

\* What a step must keep of it for c, and of what c has been promised.
Kept(home, c) ==
    /\ Homes(home, c)'
    /\ (Heard(c) \/ InStep(worker[c], c))'
    /\ \A v \in Nat : v <= vault.version /\ Provided(c, v) => Provided(c, v)'

-----------------------------------------------------------------------------
(* Frames. *)

\* What does not touch c keeps everything for c.
LEMMA KeptAlone ==
    ASSUME NEW home \in [Names -> Owners], InvAll, Quiet(home), NEW c \in Owners,
           cr'[c] = cr[c], crCache'[c] = crCache[c], crFresh'[c] = crFresh[c],
           worker'[c] = worker[c],
           c \in queued => c \in queued',
           InChannel(c) => InChannel(c)' \/ c \in queued',
           \A n \in Names : home[n] = c => sec'[n] = sec[n] /\ secCache'[n] = secCache[n]
    PROVE  Kept(home, c)
<1>1. TypeOK /\ Homes(home, c) /\ (Heard(c) \/ InStep(worker[c], c))
  BY DEF InvAll, Inv, Quiet
<1>2. Homes(home, c)'
  BY <1>1 DEF Homes, AtHome
<1>3. crCache[c] # Absent => declared(c) \in Names /\ home[declared(c)] = c
  BY <1>1, Held, SecretSyncFields DEF Homes, declared
<1>4. worker[c].pc # "idle" => /\ worker[c].ss.spec.target \in Names
                               /\ home[worker[c].ss.spec.target] = c
  BY <1>1, Held, SecretSyncFields DEF Homes, AtHome
<1>5. (Heard(c) \/ InStep(worker[c], c))'
  BY <1>1, <1>4 DEF Heard, InStep
<1>6. ASSUME NEW v \in Nat, Provided(c, v)
      PROVE  Provided(c, v)'
  BY <1>3, <1>6 DEF Provided, Wants, HeldBy, Heard, Ahead, declared
<1> QED
  BY <1>2, <1>5, <1>6 DEF Kept

\* Once the workqueue is told of c again, nothing else matters.
LEMMA KeptHeard ==
    ASSUME NEW home, NEW c \in Owners, Homes(home, c)', Heard(c)'
    PROVE  Kept(home, c)
BY DEF Kept, Provided

\* Nobody waits for a SecretSync that is going or gone.
LEMMA KeptGoing ==
    ASSUME NEW home, NEW c \in Owners, Homes(home, c)',
           (Heard(c) \/ InStep(worker[c], c))',
           cr'[c] = Absent \/ cr'[c].deleting
    PROVE  Kept(home, c)
BY DEF Kept, Provided, Wants

\* The worker of c moves on, and everything else stays.
LEMMA KeptMoves ==
    ASSUME NEW home \in [Names -> Owners], InvAll, Quiet(home), NEW c \in Owners,
           NEW w, worker' = [worker EXCEPT ![c] = w],
           UNCHANGED <<cr, crCache, crFresh, sec, secCache, vault, queued, channel>>,
           AtHome(home, w, c),
           Heard(c) \/ InStep(w, c),
           \A v \in Nat : /\ ~Heard(c) /\ v <= vault.version /\ Wants(c, v)
                          /\ Ahead(worker[c], c, v)
                          => Ahead(w, c, v)
    PROVE  SecretsPlain(home)' /\ \A d \in Owners : Kept(home, d)
<1>1. TypeOK /\ Homes(home, c)
  BY DEF InvAll, Inv, Quiet
<1>2. worker'[c] = w /\ \A d \in Owners \ {c} : worker'[d] = worker[d]
  BY <1>1 DEF TypeOK
<1>3. SecretsPlain(home)'
  BY DEF Quiet, SecretsPlain
<1>4. ASSUME NEW d \in Owners, d # c
      PROVE  Kept(home, d)
  BY <1>2, <1>4, KeptAlone DEF InChannel
<1>5. Kept(home, c)
  <2>1. Homes(home, c)'
    BY <1>1, <1>2 DEF Homes, AtHome
  <2>2. (Heard(c) \/ InStep(worker[c], c))'
    BY <1>2 DEF Heard, InStep
  <2>3. ASSUME NEW v \in Nat, v <= vault.version, Provided(c, v)
        PROVE  Provided(c, v)'
    <3>1. Wants(c, v)' <=> Wants(c, v)
      BY DEF Wants, HeldBy
    <3>2. (Heard(c)' <=> Heard(c)) /\ (InChannel(c)' <=> InChannel(c))
      BY DEF Heard, InChannel
    <3>3. Ahead(worker[c], c, v)' <=> Ahead(w, c, v)
      BY <1>2 DEF Ahead, declared
    <3> QED
      BY <2>3, <3>1, <3>2, <3>3 DEF Provided
  <2> QED
    BY <2>1, <2>2, <2>3 DEF Kept
<1> QED
  BY <1>3, <1>4, <1>5

-----------------------------------------------------------------------------
(* The steps of a reconcile. *)

\* What a worker at work is known to hold.
LEMMA Busy ==
    ASSUME NEW home \in [Names -> Owners], InvAll, Quiet(home), NEW c \in Owners,
           worker[c].pc # "idle"
    PROVE  /\ worker[c] \in Workers /\ worker[c].ss \in SecretSyncs
           /\ worker[c].ss # Absent
           /\ target(c) = worker[c].ss.spec.target
           /\ target(c) \in Names /\ key(c) \in Keys /\ home[target(c)] = c
           /\ AtHome(home, worker[c], c)
           /\ Heard(c) \/ InStep(worker[c], c)
<1>1. TypeOK /\ Homes(home, c)
  BY DEF InvAll, Inv, Quiet
<1>2. /\ worker[c] \in Workers /\ worker[c].ss \in SecretSyncs
      /\ target(c) \in Names /\ key(c) \in Keys /\ worker[c].ss # Absent
  BY <1>1, Held, SecretSyncFields
<1> QED
  BY <1>1, <1>2 DEF Homes, AtHome, target, Quiet

\* A reconcile returns when it is past the write, or will be called again.
LEMMA KeptReturns ==
    ASSUME NEW home \in [Names -> Owners], InvAll, Quiet(home), NEW c \in Owners,
           worker' = [worker EXCEPT ![c] = Idle],
           UNCHANGED <<cr, crCache, crFresh, sec, secCache, vault, queued, channel>>,
           Heard(c) \/ worker[c].pc \in {"status", "list", "sweep"}
    PROVE  SecretsPlain(home)' /\ \A d \in Owners : Kept(home, d)
<1>1. Idle.ss = Absent /\ Idle.todo = {} /\ Idle.pc = "idle"
  BY IdleFields
<1>2. AtHome(home, Idle, c) /\ InStep(Idle, c)
  BY <1>1 DEF AtHome, InStep
<1>3. ASSUME NEW v \in Nat, ~Heard(c), Ahead(worker[c], c, v)
      PROVE  Ahead(Idle, c, v)
  BY <1>1, <1>3 DEF Ahead
<1> QED
  BY <1>2, <1>3, KeptMoves

\* A write that the API server refuses as stale: the change that made it so
\* is on its way.
LEMMA KeptStale ==
    ASSUME NEW home \in [Names -> Owners], InvAll, Quiet(home), NEW c \in Owners,
           StaleWrite(c), UNCHANGED <<vault, queued, channel>>,
           worker[c].pc \notin {"idle", "list", "sweep"}
    PROVE  SecretsPlain(home)' /\ \A d \in Owners : Kept(home, d)
<1>1. Heard(c)
  BY Busy DEF StaleWrite, InStep
<1>2. /\ worker' = [worker EXCEPT ![c] = Idle]
      /\ UNCHANGED <<cr, crCache, crFresh, sec, secCache>>
  BY DEF StaleWrite, ReturnRequeue, cluster
<1> QED
  BY <1>1, <1>2, KeptReturns

\* The worker writes c itself, and the informer will tell.
LEMMA KeptStored ==
    ASSUME NEW home \in [Names -> Owners], InvAll, Quiet(home), NEW c \in Owners,
           NEW w, NEW obj, cr' = [cr EXCEPT ![c] = obj],
           crFresh' = [crFresh EXCEPT ![c] = FALSE],
           worker' = [worker EXCEPT ![c] = w],
           UNCHANGED <<crCache, sec, secCache, queued, channel>>,
           AtHome(home, w, c)
    PROVE  SecretsPlain(home)' /\ \A d \in Owners : Kept(home, d)
<1>1. TypeOK /\ Homes(home, c)
  BY DEF InvAll, Inv, Quiet
<1>2. /\ crFresh'[c] = FALSE /\ worker'[c] = w
      /\ \A d \in Owners \ {c} : /\ cr'[d] = cr[d] /\ crFresh'[d] = crFresh[d]
                                 /\ worker'[d] = worker[d]
  BY <1>1 DEF TypeOK
<1>3. SecretsPlain(home)'
  BY DEF Quiet, SecretsPlain
<1>4. ASSUME NEW d \in Owners, d # c
      PROVE  Kept(home, d)
  BY <1>2, <1>4, KeptAlone DEF InChannel
<1>5. Homes(home, c)' /\ Heard(c)'
  BY <1>1, <1>2 DEF Homes, AtHome, Heard
<1> QED
  BY <1>3, <1>4, <1>5, KeptHeard

LEMMA KeptSetPending ==
    ASSUME NEW home \in [Names -> Owners], InvAll, Quiet(home), NEW c \in Owners,
           setPending(c), UNCHANGED channel
    PROVE  SecretsPlain(home)' /\ \A d \in Owners : Kept(home, d)
<1> DEFINE obj == [worker[c].ss EXCEPT !.state = "Pending"]
           w == [worker[c] EXCEPT !.ss = obj, !.pc = "claim"]
<1>1. worker[c].pc = "pending" /\ UNCHANGED <<vault, queued>>
  BY DEF setPending
<1>2. CASE StaleWrite(c)
  BY <1>1, <1>2, KeptStale
<1>3. CASE StoreOwn(c, obj, "claim")
  <2>1. /\ worker[c] \in Workers /\ worker[c].ss \in SecretSyncs
        /\ AtHome(home, worker[c], c) /\ worker[c].ss # Absent
    BY <1>1, Busy
  <2>2. obj.spec = worker[c].ss.spec
    BY <2>1 DEF SecretSyncs
  <2>3. w.ss = obj /\ w.todo = worker[c].todo
    BY <2>1 DEF Workers
  <2>4. AtHome(home, w, c)
    BY <2>1, <2>2, <2>3 DEF AtHome
  <2>5. /\ cr' = [cr EXCEPT ![c] = obj]
        /\ crFresh' = [crFresh EXCEPT ![c] = FALSE]
        /\ worker' = [worker EXCEPT ![c] = w]
        /\ UNCHANGED <<crCache, sec, secCache>>
    BY <1>3 DEF StoreOwn
  <2> HIDE DEF obj, w
  <2> QED
    BY <1>1, <2>4, <2>5, KeptStored
<1> QED
  BY <1>2, <1>3 DEF setPending

LEMMA KeptCheckClaim ==
    ASSUME NEW home \in [Names -> Owners], InvAll, Quiet(home), NEW c \in Owners,
           checkClaim(c), UNCHANGED channel
    PROVE  SecretsPlain(home)' /\ \A d \in Owners : Kept(home, d)
<1> DEFINE w == [worker[c] EXCEPT !.pc = "read"]
<1>1. /\ worker[c].pc = "claim"
      /\ UNCHANGED <<cr, crCache, crFresh, sec, secCache, vault, queued>>
  BY DEF checkClaim, cluster
<1>2. /\ worker[c] \in Workers /\ worker[c].ss # Absent
      /\ home[worker[c].ss.spec.target] = c
      /\ AtHome(home, worker[c], c) /\ (Heard(c) \/ InStep(worker[c], c))
  BY <1>1, Busy DEF target
<1>3. ~findConflictingOwner(c, worker[c].ss)
  <2> SUFFICES ASSUME NEW d \in Owners \ {c}, crCache[d] # Absent,
                      crCache[d].spec.target = worker[c].ss.spec.target
               PROVE  FALSE
    BY DEF findConflictingOwner
  <2>1. home[crCache[d].spec.target] = d
    BY DEF Quiet, Homes
  <2> QED
    BY <1>2, <2>1
<1>4. worker' = [worker EXCEPT ![c] = w]
  BY <1>3 DEF checkClaim, Goto
<1>5. /\ w.pc = "read" /\ w.ss = worker[c].ss /\ w.todo = worker[c].todo
      /\ w.fresh = worker[c].fresh
  BY <1>2 DEF Workers
<1> HIDE DEF w
<1>6. AtHome(home, w, c) /\ (Heard(c) \/ InStep(w, c))
  BY <1>1, <1>2, <1>5 DEF AtHome, InStep
<1>7. \A v \in Nat : Ahead(w, c, v)
  BY <1>5 DEF Ahead
<1> QED
  BY <1>1, <1>4, <1>6, <1>7, KeptMoves

LEMMA KeptReadTarget ==
    ASSUME NEW home \in [Names -> Owners], InvAll, Quiet(home), NEW c \in Owners,
           readTarget(c), UNCHANGED channel
    PROVE  SecretsPlain(home)' /\ \A d \in Owners : Kept(home, d)
<1> DEFINE existing == secCache[target(c)]
           w == [worker[c] EXCEPT !.pc = "vault", !.existing = existing]
<1>1. /\ worker[c].pc = "read"
      /\ UNCHANGED <<cr, crCache, crFresh, sec, secCache, vault, queued>>
  BY DEF readTarget, cluster
<1>2. /\ worker[c] \in Workers /\ worker[c].ss # Absent /\ target(c) \in Names
      /\ home[target(c)] = c /\ target(c) = worker[c].ss.spec.target
      /\ AtHome(home, worker[c], c) /\ (Heard(c) \/ InStep(worker[c], c))
  BY <1>1, Busy
<1>3. ~EngineConflict(existing, c)
  BY <1>2 DEF EngineConflict, Quiet, SecretsPlain, Plain
<1>4. worker' = [worker EXCEPT ![c] = w]
  BY <1>3 DEF readTarget
<1>5. /\ w.pc = "vault" /\ w.ss = worker[c].ss /\ w.todo = worker[c].todo
      /\ w.fresh = worker[c].fresh /\ w.existing = secCache[target(c)]
  BY <1>2 DEF Workers
<1> HIDE DEF w
<1>6. AtHome(home, w, c) /\ (Heard(c) \/ InStep(w, c))
  BY <1>1, <1>2, <1>5 DEF AtHome, InStep
<1>7. \A v \in Nat : Ahead(w, c, v)
  BY <1>5 DEF Ahead
<1> QED
  BY <1>1, <1>4, <1>6, <1>7, KeptMoves

\* A served read succeeds.
LEMMA ReadsOk ==
    ASSUME NEW home, Quiet(home)
    PROVE  Read = "ok" /\ ReadVersion = vault.version
BY DEF Quiet, Read, ReadVersion, GetLatest, Served

\* Without a write, the Secret that the worker saw is up to date; if it is no
\* longer there, the informer is about to say so.
LEMMA Skipped ==
    ASSUME NEW home \in [Names -> Owners], InvAll, Quiet(home), NEW c \in Owners,
           worker[c].pc \in {"vault", "finalize"}, ~Heard(c), crCache[c] # Absent,
           NEW version \in Versions, AfterSync(c, version) = "status",
           NEW v \in Nat, v <= version
    PROVE  /\ secCache[declared(c)] # Absent
           /\ secCache[declared(c)].version >= v
<1>1. worker[c].existing # Absent /\ worker[c].existing.version = version
  BY DEF AfterSync, WriteGate
<1>2. /\ crCache[c].spec = worker[c].ss.spec
      /\ worker[c].existing = secCache[worker[c].ss.spec.target]
  BY <1>1, Busy DEF InStep
<1>3. version \in Nat
  BY ReconcilerAssumption
<1> QED
  BY <1>1, <1>2, <1>3 DEF declared

LEMMA KeptSyncFromVault ==
    ASSUME NEW home \in [Names -> Owners], InvAll, Quiet(home), NEW c \in Owners,
           syncFromVault(c), UNCHANGED channel
    PROVE  SecretsPlain(home)' /\ \A d \in Owners : Kept(home, d)
<1> DEFINE pc == IF worker[c].ss.finalizer THEN AfterSync(c, vault.version)
                 ELSE "finalize"
           w == [worker[c] EXCEPT !.state = "InSync", !.version = vault.version,
                                  !.pc = pc]
<1>1. /\ worker[c].pc = "vault"
      /\ UNCHANGED <<cr, crCache, crFresh, sec, secCache, vault, queued>>
  BY DEF syncFromVault, cluster
<1>2. /\ worker[c] \in Workers
      /\ AtHome(home, worker[c], c) /\ (Heard(c) \/ InStep(worker[c], c))
      /\ vault.version \in Versions /\ vault.version \in Nat
  BY <1>1, Busy, Held DEF InvAll, Inv
<1>3. worker' = [worker EXCEPT ![c] = w]
  BY ReadsOk DEF syncFromVault
<1>4. /\ pc \in {"finalize", "write", "status"}
      /\ pc = "status" => AfterSync(c, vault.version) = "status"
  BY DEF AfterSync
<1> HIDE DEF pc
<1>5. /\ w.pc = pc /\ w.ss = worker[c].ss /\ w.todo = worker[c].todo
      /\ w.fresh = worker[c].fresh /\ w.existing = worker[c].existing
      /\ w.version = vault.version
  BY <1>2 DEF Workers
<1> HIDE DEF w
<1>6. AtHome(home, w, c) /\ (Heard(c) \/ InStep(w, c))
  BY <1>1, <1>2, <1>4, <1>5 DEF AtHome, InStep
<1>7. ASSUME NEW v \in Nat, ~Heard(c), v <= vault.version, Wants(c, v)
      PROVE  Ahead(w, c, v)
  <2>1. CASE pc = "status"
    <3>1. crCache[c] # Absent
      BY <1>7 DEF Wants
    <3>2. /\ secCache[declared(c)] # Absent
          /\ secCache[declared(c)].version >= v
      BY <1>1, <1>2, <1>4, <1>7, <2>1, <3>1, Skipped
    <3> QED
      BY <1>5, <2>1, <3>2 DEF Ahead
  <2>2. CASE pc # "status"
    BY <1>2, <1>4, <1>5, <1>7, <2>2 DEF Ahead
  <2> QED
    BY <2>1, <2>2
<1> QED
  BY <1>1, <1>3, <1>6, <1>7, KeptMoves

LEMMA KeptAddFinalizer ==
    ASSUME NEW home \in [Names -> Owners], InvAll, Quiet(home), NEW c \in Owners,
           addFinalizer(c), UNCHANGED channel
    PROVE  SecretsPlain(home)' /\ \A d \in Owners : Kept(home, d)
<1> DEFINE obj == [worker[c].ss EXCEPT !.finalizer = TRUE]
           pc == AfterSync(c, worker[c].version)
           w == [worker[c] EXCEPT !.ss = obj, !.pc = pc]
<1>1. worker[c].pc = "finalize" /\ UNCHANGED <<vault, queued>>
  BY DEF addFinalizer
<1>2. CASE StaleWrite(c)
  BY <1>1, <1>2, KeptStale
<1>3. CASE StoreOwn(c, obj, pc)
  <2>1. /\ worker[c] \in Workers /\ worker[c].ss \in SecretSyncs
        /\ AtHome(home, worker[c], c) /\ worker[c].ss # Absent
    BY <1>1, Busy
  <2>2. obj.spec = worker[c].ss.spec
    BY <2>1 DEF SecretSyncs
  <2>3. w.ss = obj /\ w.todo = worker[c].todo
    BY <2>1 DEF Workers
  <2>4. AtHome(home, w, c)
    BY <2>1, <2>2, <2>3 DEF AtHome
  <2>5. /\ cr' = [cr EXCEPT ![c] = obj]
        /\ crFresh' = [crFresh EXCEPT ![c] = FALSE]
        /\ worker' = [worker EXCEPT ![c] = w]
        /\ UNCHANGED <<crCache, sec, secCache>>
    BY <1>3 DEF StoreOwn
  <2> HIDE DEF obj, w
  <2> QED
    BY <1>1, <2>4, <2>5, KeptStored
<1> QED
  BY <1>2, <1>3 DEF addFinalizer

LEMMA KeptUpdateStatus ==
    ASSUME NEW home \in [Names -> Owners], InvAll, Quiet(home), NEW c \in Owners,
           updateStatus(c), UNCHANGED channel
    PROVE  SecretsPlain(home)' /\ \A d \in Owners : Kept(home, d)
<1> DEFINE w == [Idle EXCEPT !.pc = "list", !.ss = worker[c].ss]
<1>1. worker[c].pc = "status" /\ UNCHANGED <<vault, queued>>
  BY DEF updateStatus
<1>2. /\ worker[c].ss \in SecretSyncs
      /\ AtHome(home, worker[c], c) /\ (Heard(c) \/ InStep(worker[c], c))
  BY <1>1, Busy
<1>3. w.pc = "list" /\ w.ss = worker[c].ss /\ w.todo = {}
  BY <1>2, SweepFields
<1>4. Idle.ss = Absent /\ Idle.todo = {}
  BY IdleFields
<1>5. AtHome(home, w, c) /\ AtHome(home, Idle, c) /\ (Heard(c) \/ InStep(w, c))
  BY <1>1, <1>2, <1>3, <1>4 DEF AtHome, InStep
<1>6. \/ StaleWrite(c)
      \/ /\ UNCHANGED <<cr, crCache, crFresh, sec, secCache>>
         /\ \/ worker' = [worker EXCEPT ![c] = w]
            \/ worker' = [worker EXCEPT ![c] = Idle]
      \/ /\ \E obj : cr' = [cr EXCEPT ![c] = obj]
         /\ crFresh' = [crFresh EXCEPT ![c] = FALSE]
         /\ UNCHANGED <<crCache, sec, secCache>>
         /\ \/ worker' = [worker EXCEPT ![c] = w]
            \/ worker' = [worker EXCEPT ![c] = Idle]
  BY DEF updateStatus, GotoSweep, ReturnRequeue, cluster
<1> HIDE DEF w
<1>7. CASE StaleWrite(c)
  BY <1>1, <1>7, KeptStale
<1>8. CASE /\ UNCHANGED <<cr, crCache, crFresh, sec, secCache>>
           /\ worker' = [worker EXCEPT ![c] = Idle]
  BY <1>1, <1>8, KeptReturns
<1>9. CASE /\ UNCHANGED <<cr, crCache, crFresh, sec, secCache>>
           /\ worker' = [worker EXCEPT ![c] = w]
  <2>1. ASSUME NEW v \in Nat, Ahead(worker[c], c, v)
        PROVE  Ahead(w, c, v)
    BY <1>1, <1>3, <2>1 DEF Ahead
  <2> QED
    BY <1>1, <1>5, <1>9, <2>1, KeptMoves
<1>10. CASE /\ \E obj : cr' = [cr EXCEPT ![c] = obj]
            /\ crFresh' = [crFresh EXCEPT ![c] = FALSE]
            /\ UNCHANGED <<crCache, sec, secCache>>
            /\ \/ worker' = [worker EXCEPT ![c] = w]
               \/ worker' = [worker EXCEPT ![c] = Idle]
  BY <1>1, <1>5, <1>10, KeptStored
<1> QED
  BY <1>6, <1>7, <1>8, <1>9, <1>10

LEMMA KeptListStale ==
    ASSUME NEW home \in [Names -> Owners], InvAll, Quiet(home), NEW c \in Owners,
           listStale(c), UNCHANGED channel
    PROVE  SecretsPlain(home)' /\ \A d \in Owners : Kept(home, d)
<1> DEFINE todo == {n \in Names : /\ n # target(c)
                                  /\ secCache[n] # Absent
                                  /\ ControllerOwnedBy(secCache[n], c)}
           w == [worker[c] EXCEPT !.pc = "sweep", !.todo = todo]
<1>1. /\ worker[c].pc = "list"
      /\ UNCHANGED <<cr, crCache, crFresh, sec, secCache, vault, queued>>
  BY DEF listStale, cluster
<1>2. /\ worker[c] \in Workers
      /\ AtHome(home, worker[c], c) /\ (Heard(c) \/ InStep(worker[c], c))
  BY <1>1, Busy
<1>3. \A n \in todo : home[n] = c
  BY DEF Quiet, SecretsPlain, Plain, ControllerOwnedBy
<1>4. \/ worker' = [worker EXCEPT ![c] = Idle]
      \/ worker' = [worker EXCEPT ![c] = w]
  BY DEF listStale, ReturnRequeue
<1> HIDE DEF todo
<1>5. /\ w.pc = "sweep" /\ w.ss = worker[c].ss /\ w.todo = todo
  BY <1>2 DEF Workers
<1> HIDE DEF w
<1>6. CASE worker' = [worker EXCEPT ![c] = Idle]
  BY <1>1, <1>6, KeptReturns
<1>7. CASE worker' = [worker EXCEPT ![c] = w]
  <2>1. AtHome(home, w, c) /\ (Heard(c) \/ InStep(w, c))
    BY <1>1, <1>2, <1>3, <1>5 DEF AtHome, InStep
  <2>2. ASSUME NEW v \in Nat, Ahead(worker[c], c, v)
        PROVE  Ahead(w, c, v)
    BY <1>1, <1>5, <2>2 DEF Ahead
  <2> QED
    BY <1>1, <1>7, <2>1, <2>2, KeptMoves
<1> QED
  BY <1>4, <1>6, <1>7

\* CreateOrUpdate over Secrets of c's own: done, unless the Secret that the
\* cache shows is gone.
LEMMA OwnVerdict ==
    ASSUME NEW home \in [Names -> Owners], Quiet(home), NEW c \in Owners,
           NEW n \in Names, home[n] = c, NEW k, NEW value
    PROVE  \/ WriteVerdict(secCache[n], sec[n], c, k, value) = "ok"
           \/ secCache[n] # Absent /\ sec[n] = Absent
<1>1. /\ Plain(sec[n], c) /\ Plain(secCache[n], c)
      /\ secCache[n] # Absent => secCache[n].labelled
  BY DEF Quiet, SecretsPlain
<1>2. ASSUME NEW obj, Plain(obj, c)
      PROVE  CopyVerdict(obj, c, k, value) = "ok"
  BY <1>2 DEF Plain, CopyVerdict, writable, ControllerOwnedBy,
     immutableBlocksWrite, AlreadyOwned
<1> QED
  BY <1>1, <1>2 DEF WriteVerdict

LEMMA CommittedStays ==
    ASSUME NEW occupant \in Secrets \cup {Absent}, NEW c \in Owners, NEW k \in Keys,
           NEW value \in Values, NEW version \in Versions
    PROVE  Committed(occupant, c, k, value, version) # Absent
BY CommittedFields

LEMMA CommittedPlain ==
    ASSUME NEW occupant \in Secrets \cup {Absent}, NEW c \in Owners, NEW k \in Keys,
           NEW value \in Values, NEW version \in Versions, Plain(occupant, c),
           NEW new, new = Committed(occupant, c, k, value, version)
    PROVE  Plain(new, c) /\ new # Absent /\ new.version = version
<1>1. new.controller = c /\ new.version = version /\ ~new.immutable
  <2>1. CASE occupant = Absent
    BY <2>1 DEF Committed, newManagedSecret
  <2>2. CASE occupant # Absent
    BY <2>2 DEF Committed, populateManagedSecret, Plain, Secrets
  <2> QED
    BY <2>1, <2>2
<1>2. new # Absent
  BY CommittedStays
<1> QED
  BY <1>1, <1>2 DEF Plain

LEMMA KeptWriteSecret ==
    ASSUME NEW home \in [Names -> Owners], InvAll, Quiet(home), NEW c \in Owners,
           writeSecret(c), UNCHANGED channel
    PROVE  SecretsPlain(home)' /\ \A d \in Owners : Kept(home, d)
<1> DEFINE n == target(c)
           k(state, reason, version) ==
              [worker[c] EXCEPT !.pc = "status", !.existing = Absent,
                 !.state = state, !.reason = reason, !.version = version]
<1>1. /\ worker[c].pc = "write"
      /\ UNCHANGED <<cr, crCache, crFresh, secCache, vault, queued>>
  BY DEF writeSecret
<1>2. /\ worker[c] \in Workers /\ worker[c].ss # Absent /\ n \in Names
      /\ home[n] = c /\ n = worker[c].ss.spec.target /\ key(c) \in Keys
      /\ AtHome(home, worker[c], c) /\ (Heard(c) \/ InStep(worker[c], c))
  BY <1>1, Busy
<1>3. Inv /\ TypeOK /\ OwnerOK(c)
  BY DEF InvAll, Inv
<1>4. \E state, reason, version :
         /\ worker' = [worker EXCEPT ![c] = k(state, reason, version)]
         /\ \/ Commits(c)
            \/ UNCHANGED sec /\ secCache[n] # Absent /\ sec[n] = Absent
  <2>1. ~(budget.faults > 0)
    BY DEF Quiet
  <2>2. \/ Commits(c)
        \/ /\ UNCHANGED sec
           /\ WriteVerdict(secCache[n], sec[n], c, key(c),
                           ValueOf[worker[c].version]) # "ok"
    BY <2>1, Zenon DEF writeSecret, Commits
  <2>3. \E state, reason, version : Report(c, state, reason, version)
    BY Zenon DEF writeSecret
  <2>4. Commits(c) \/ (UNCHANGED sec /\ secCache[n] # Absent /\ sec[n] = Absent)
    BY <1>2, <2>2, OwnVerdict
  <2> QED
    BY <2>3, <2>4 DEF Report
<1>5. PICK state, reason, version :
         /\ worker' = [worker EXCEPT ![c] = k(state, reason, version)]
         /\ \/ Commits(c)
            \/ UNCHANGED sec /\ secCache[n] # Absent /\ sec[n] = Absent
  BY <1>4
<1> DEFINE w == k(state, reason, version)
<1>6. /\ w.pc = "status" /\ w.ss = worker[c].ss /\ w.todo = worker[c].todo
      /\ w.fresh = worker[c].fresh
  BY <1>2 DEF Workers
<1>7. worker' = [worker EXCEPT ![c] = w]
  BY <1>5
<1> HIDE DEF k, w, n
<1>8. AtHome(home, w, c) /\ (Heard(c) \/ InStep(w, c))
  BY <1>1, <1>2, <1>6 DEF AtHome, InStep
<1>9. ~Heard(c) /\ crCache[c] # Absent => declared(c) = n
  BY <1>1, <1>2 DEF InStep, declared
<1>10. CASE UNCHANGED sec /\ secCache[n] # Absent /\ sec[n] = Absent
  <2>1. ASSUME NEW v \in Nat, ~Heard(c), Wants(c, v)
        PROVE  Ahead(w, c, v)
    BY <1>6, <1>9, <1>10, <2>1 DEF Wants, Ahead
  <2> QED
    BY <1>1, <1>7, <1>8, <1>10, <2>1, KeptMoves
<1>11. CASE Commits(c)
  <2> DEFINE new == Committed(sec[n], c, key(c), ValueOf[worker[c].version],
                              worker[c].version)
  <2>1. /\ worker[c].version \in Versions
        /\ \A p \in written[c] : p[2] <= worker[c].version
    BY <1>1, <1>3 DEF OwnerOK, SyncOK, VersionOK
  <2>2. /\ sec[n] \in Secrets \cup {Absent} /\ Plain(sec[n], c)
        /\ ValueOf[worker[c].version] \in Values
    BY <1>2, <1>3, <2>1, ReconcilerAssumption DEF TypeOK, Quiet, SecretsPlain
  <2>3. Plain(new, c) /\ new # Absent /\ new.version = worker[c].version
    BY <1>2, <2>1, <2>2, CommittedPlain
  <2>4. sec' = [sec EXCEPT ![n] = new]
    BY <1>11 DEF Commits, n
  <2> HIDE DEF new
  <2>5. sec'[n] = new /\ \A m \in Names \ {n} : sec'[m] = sec[m]
    BY <1>2, <1>3, <2>4 DEF TypeOK
  <2>6. worker'[c] = w /\ \A d \in Owners \ {c} : worker'[d] = worker[d]
    BY <1>3, <1>7 DEF TypeOK
  <2>7. SecretsPlain(home)'
    BY <1>1, <1>2, <2>3, <2>5 DEF Quiet, SecretsPlain
  <2>8. ASSUME NEW d \in Owners, d # c
        PROVE  Kept(home, d)
    BY <1>1, <1>2, <2>5, <2>6, <2>8, KeptAlone DEF InChannel
  <2>9. Homes(home, c)' /\ (Heard(c) \/ InStep(worker[c], c))'
    BY <1>1, <1>8, <2>6 DEF Quiet, Homes, AtHome, Heard, InStep
  <2>10. sec[n] # Absent => /\ sec[n].version \in Nat
                            /\ sec[n].version <= worker[c].version
    <3>1. SUFFICES ASSUME sec[n] # Absent
                   PROVE  /\ sec[n].version \in Nat
                          /\ sec[n].version <= worker[c].version
      OBVIOUS
    <3>2. sec[n].version \in Versions /\ <<n, sec[n].version>> \in written[c]
      BY <1>2, <1>3, <2>2, <3>1 DEF Plain, Inv, SecretsOK, Origin
    <3>3. <<n, sec[n].version>>[2] <= worker[c].version
      BY <2>1, <3>2
    <3> QED
      BY <3>2, <3>3, ReconcilerAssumption
  <2>11. ASSUME NEW v \in Nat, Provided(c, v), ~Heard(c), ~InChannel(c), Wants(c, v)'
         PROVE  FALSE
    <3>1. crCache[c] # Absent /\ cr[c] # Absent /\ ~cr[c].deleting
      BY <1>1, <2>11 DEF Wants
    <3>2. worker[c].version < v
      BY <1>1, <1>9, <2>3, <2>5, <2>11, <3>1 DEF Wants, HeldBy, declared
    <3>3. worker[c].version \in Nat
      BY <2>1, ReconcilerAssumption
    <3>4. HeldBy(c) < v
      BY <1>9, <2>10, <2>11, <3>1, <3>2, <3>3 DEF HeldBy, declared
    <3>5. Ahead(worker[c], c, v)
      BY <2>11, <3>1, <3>4 DEF Provided, Wants
    <3> QED
      BY <1>1, <3>2, <3>3, <3>5 DEF Ahead
  <2>12. (Heard(c)' <=> Heard(c)) /\ (InChannel(c)' <=> InChannel(c))
    BY <1>1 DEF Heard, InChannel
  <2> QED
    BY <2>7, <2>8, <2>9, <2>11, <2>12 DEF Kept, Provided
<1> QED
  BY <1>5, <1>10, <1>11

\* A step of c that takes away a Secret of c's, or c itself.
LEMMA KeptTakes ==
    ASSUME NEW home \in [Names -> Owners], InvAll, Quiet(home), NEW c \in Owners,
           NEW w, worker' = [worker EXCEPT ![c] = w],
           UNCHANGED <<crCache, secCache, queued, channel>>,
           \A d \in Owners \ {c} : cr'[d] = cr[d] /\ crFresh'[d] = crFresh[d],
           \A n \in Names : sec'[n] = sec[n] \/ (sec'[n] = Absent /\ home[n] = c),
           AtHome(home, w, c), Kept(home, c)
    PROVE  SecretsPlain(home)' /\ \A d \in Owners : Kept(home, d)
<1>1. \A d \in Owners \ {c} : worker'[d] = worker[d]
  BY DEF InvAll, Inv, TypeOK
<1>2. SecretsPlain(home)'
  BY DEF Quiet, SecretsPlain, Plain
<1>3. ASSUME NEW d \in Owners, d # c
      PROVE  Kept(home, d)
  BY <1>1, <1>3, KeptAlone DEF InChannel
<1> QED
  BY <1>2, <1>3

\* The Secret of a former target goes: c has declared another since, or is
\* about to be told that it declares this one again.
LEMMA KeptDeleteStale ==
    ASSUME NEW home \in [Names -> Owners], InvAll, Quiet(home), NEW c \in Owners,
           NEW n \in Names, deleteStale(c, n), UNCHANGED channel
    PROVE  SecretsPlain(home)' /\ \A d \in Owners : Kept(home, d)
<1> DEFINE k == [worker[c] EXCEPT !.todo = worker[c].todo \ {n}]
<1>1. /\ worker[c].pc = "sweep" /\ n \in worker[c].todo
      /\ sec' = [sec EXCEPT ![n] = Absent]
      /\ UNCHANGED <<cr, crCache, crFresh, secCache, vault, queued>>
  BY DEF deleteStale
<1>2. /\ worker[c] \in Workers /\ worker[c].ss # Absent
      /\ AtHome(home, worker[c], c) /\ (Heard(c) \/ InStep(worker[c], c))
  BY <1>1, Busy
<1>3. TypeOK /\ OwnerOK(c) /\ Homes(home, c)
  BY DEF InvAll, Inv, Quiet
<1>4. n # worker[c].ss.spec.target /\ home[n] = c
  BY <1>1, <1>2, <1>3 DEF OwnerOK, SweepOK, AtHome
<1>5. /\ k.pc = "sweep" /\ k.ss = worker[c].ss /\ k.todo = worker[c].todo \ {n}
  BY <1>1, <1>2 DEF Workers
<1>6. Idle.ss = Absent /\ Idle.todo = {} /\ Idle.pc = "idle"
  BY IdleFields
<1>7. \/ worker' = [worker EXCEPT ![c] = Idle]
      \/ worker' = [worker EXCEPT ![c] = k]
  BY DEF deleteStale, ReturnRequeue
<1> HIDE DEF k
<1>8. PICK w \in {Idle, k} : worker' = [worker EXCEPT ![c] = w]
  BY <1>7
<1>9. /\ AtHome(home, w, c) /\ (Heard(c) \/ InStep(w, c))
      /\ w.pc \in {"idle", "sweep"}
  BY <1>1, <1>2, <1>5, <1>6 DEF AtHome, InStep
<1>10. worker'[c] = w
  BY <1>3, <1>8 DEF TypeOK
<1>11. \A m \in Names : m # n => sec'[m] = sec[m]
  BY <1>1, <1>3 DEF TypeOK
<1>12. sec'[n] = Absent
  BY <1>1, <1>3 DEF TypeOK
<1>13. Kept(home, c)
  <2>1. Homes(home, c)' /\ (Heard(c) \/ InStep(worker[c], c))'
    BY <1>1, <1>3, <1>9, <1>10 DEF Homes, AtHome, Heard, InStep
  <2>2. ~Heard(c) /\ crCache[c] # Absent =>
           declared(c) \in Names /\ sec'[declared(c)] = sec[declared(c)]
    BY <1>1, <1>2, <1>3, <1>4, <1>11, Held, SecretSyncFields DEF InStep, declared
  <2>3. ASSUME NEW v \in Nat, Provided(c, v), ~Heard(c), Wants(c, v)', ~InChannel(c)
        PROVE  Ahead(worker[c], c, v)'
    <3>1. crCache[c] # Absent /\ cr[c] # Absent /\ ~cr[c].deleting
      BY <1>1, <2>3 DEF Wants
    <3>2. Wants(c, v)
      BY <1>1, <2>2, <2>3, <3>1 DEF Wants, HeldBy, declared
    <3>3. Ahead(worker[c], c, v)
      BY <2>3, <3>2 DEF Provided
    <3> QED
      BY <1>1, <1>9, <1>10, <2>2, <2>3, <3>1, <3>3 DEF Ahead, declared
  <2>4. (Heard(c)' <=> Heard(c)) /\ (InChannel(c)' <=> InChannel(c))
    BY <1>1 DEF Heard, InChannel
  <2> QED
    BY <2>1, <2>3, <2>4 DEF Kept, Provided
<1> QED
  BY <1>1, <1>4, <1>8, <1>9, <1>11, <1>12, <1>13, KeptTakes

\* The steps of reconcileDelete: nobody waits for c any more.
LEMMA KeptDeletion ==
    ASSUME NEW home \in [Names -> Owners], InvAll, Quiet(home), NEW c \in Owners,
           lookupOwned(c) \/ removeSecret(c) \/ removeFinalizer(c),
           UNCHANGED channel
    PROVE  SecretsPlain(home)' /\ \A d \in Owners : Kept(home, d)
<1> DEFINE k(pc) == [worker[c] EXCEPT !.pc = pc]
<1>1. /\ worker[c].pc \in {"lookup", "remove", "release"}
      /\ UNCHANGED <<crCache, secCache, vault, queued>>
  BY DEF lookupOwned, removeSecret, removeFinalizer, StaleWrite, cluster
<1>2. /\ worker[c] \in Workers /\ worker[c].ss # Absent
      /\ target(c) \in Names /\ home[target(c)] = c
      /\ AtHome(home, worker[c], c) /\ (Heard(c) \/ InStep(worker[c], c))
  BY <1>1, Busy
<1>3. TypeOK /\ OwnerOK(c) /\ Homes(home, c)
  BY DEF InvAll, Inv, Quiet
<1>4. worker[c].ss.deleting /\ (cr[c] = Absent \/ cr[c].deleting)
  BY <1>1, <1>2, <1>3 DEF OwnerOK, CopyOK, DeleteOK, Later
<1>5. CASE StaleWrite(c)
  BY <1>1, <1>5, KeptStale
<1>6. ASSUME NEW w, worker' = [worker EXCEPT ![c] = w], AtHome(home, w, c),
             Heard(c) \/ InStep(w, c),
             \/ UNCHANGED <<cr, crFresh>>
             \/ /\ cr' = [cr EXCEPT ![c] = Absent]
                /\ crFresh' = [crFresh EXCEPT ![c] = FALSE],
             UNCHANGED sec \/ sec' = [sec EXCEPT ![target(c)] = Absent]
      PROVE  SecretsPlain(home)' /\ \A d \in Owners : Kept(home, d)
  <2>1. /\ \A d \in Owners \ {c} : cr'[d] = cr[d] /\ crFresh'[d] = crFresh[d]
        /\ worker'[c] = w
        /\ \/ cr'[c] = cr[c] /\ crFresh'[c] = crFresh[c]
           \/ cr'[c] = Absent /\ crFresh'[c] = FALSE
    BY <1>3, <1>6 DEF TypeOK
  <2>2. \A n \in Names : sec'[n] = sec[n] \/ (sec'[n] = Absent /\ home[n] = c)
    BY <1>2, <1>3, <1>6 DEF TypeOK
  <2>3. Homes(home, c)' /\ (Heard(c) \/ InStep(worker[c], c))'
    BY <1>1, <1>3, <1>6, <2>1 DEF Homes, AtHome, Heard, InStep
  <2>4. Kept(home, c)
    BY <1>4, <2>1, <2>3, KeptGoing
  <2> QED
    BY <1>1, <1>6, <2>1, <2>2, <2>4, KeptTakes
<1>7. ASSUME NEW pc \in {"remove", "release"}
      PROVE  AtHome(home, k(pc), c) /\ (Heard(c) \/ InStep(k(pc), c))
  <2>1. /\ k(pc).pc = pc /\ k(pc).ss = worker[c].ss /\ k(pc).todo = worker[c].todo
        /\ k(pc).fresh = worker[c].fresh
    BY <1>2 DEF Workers
  <2> HIDE DEF k
  <2> QED
    BY <1>1, <1>2, <2>1 DEF AtHome, InStep
<1>8. AtHome(home, Idle, c) /\ InStep(Idle, c)
  <2>1. Idle.ss = Absent /\ Idle.todo = {} /\ Idle.pc = "idle"
    BY IdleFields
  <2> QED
    BY <2>1 DEF AtHome, InStep
<1>9. \/ StaleWrite(c)
      \/ /\ \E pc \in {"remove", "release"} : worker' = [worker EXCEPT ![c] = k(pc)]
         /\ UNCHANGED <<cr, crFresh>>
         /\ UNCHANGED sec \/ sec' = [sec EXCEPT ![target(c)] = Absent]
      \/ /\ worker' = [worker EXCEPT ![c] = Idle]
         /\ cr' = [cr EXCEPT ![c] = Absent]
         /\ crFresh' = [crFresh EXCEPT ![c] = FALSE]
         /\ UNCHANGED sec
  BY DEF lookupOwned, removeSecret, removeFinalizer, Goto, Return, cluster
<1> HIDE DEF k
<1> QED
  BY <1>5, <1>6, <1>7, <1>8, <1>9

-----------------------------------------------------------------------------
(* What starts a reconcile, and what others do. *)

\* A reconcile starts from the cached copy: c leaves the queue, and its worker
\* will read the vault unless c is going.
LEMMA KeptReconcile ==
    ASSUME NEW home \in [Names -> Owners], InvAll, Quiet(home), NEW c \in Owners,
           Reconcile(c), UNCHANGED channel
    PROVE  SecretsPlain(home)' /\ \A d \in Owners : Kept(home, d)
<1> DEFINE ss == crCache[c]
           k(pc) == [Idle EXCEPT !.pc = pc, !.ss = ss, !.fresh = crFresh[c]]
<1>1. /\ UNCHANGED <<cr, crFresh, crCache, sec, secCache, vault>>
      /\ queued' = queued \ {c} /\ worker[c].pc = "idle"
  BY DEF Reconcile, cluster
<1>2. TypeOK /\ OwnerOK(c) /\ Homes(home, c)
  BY DEF InvAll, Inv, Quiet
<1>3. ss # Absent /\ ss.deleting => cr[c] = Absent \/ cr[c].deleting
  BY <1>2 DEF OwnerOK, CopyOK, Later
<1>4. \/ UNCHANGED worker /\ (ss = Absent \/ ss.deleting)
      \/ ss # Absent /\ ss.deleting /\ worker' = [worker EXCEPT ![c] = k("lookup")]
      \/ ss # Absent /\ worker' = [worker EXCEPT ![c] = k("pending")]
      \/ ss # Absent /\ worker' = [worker EXCEPT ![c] = k("claim")]
  BY Zenon DEF Reconcile
<1>5. \A d \in Owners \ {c} : worker'[d] = worker[d]
  BY <1>2, <1>4 DEF TypeOK
<1>6. SecretsPlain(home)'
  BY <1>1 DEF Quiet, SecretsPlain
<1>7. ASSUME NEW d \in Owners, d # c
      PROVE  Kept(home, d)
  BY <1>1, <1>5, <1>7, KeptAlone DEF InChannel
<1>8. CASE UNCHANGED worker /\ (ss = Absent \/ ss.deleting)
  <2>1. Homes(home, c)' /\ InStep(worker[c], c)'
    BY <1>1, <1>2, <1>8 DEF Homes, AtHome, InStep
  <2>2. \A v \in Nat : ~Wants(c, v)'
    BY <1>1, <1>3, <1>8 DEF Wants
  <2> QED
    BY <1>6, <1>7, <2>1, <2>2 DEF Kept, Provided
<1>9. ASSUME NEW pc \in {"lookup", "pending", "claim"}, ss # Absent,
             pc = "lookup" => ss.deleting, worker' = [worker EXCEPT ![c] = k(pc)]
      PROVE  Kept(home, c)
  <2>1. ss \in SecretSyncs /\ crFresh[c] \in BOOLEAN
    BY <1>2, <1>9, Held
  <2>2. /\ k(pc).pc = pc /\ k(pc).ss = ss /\ k(pc).fresh = crFresh[c]
        /\ k(pc).todo = {}
    BY <2>1 DEF Idle
  <2> HIDE DEF k
  <2>3. worker'[c] = k(pc)
    BY <1>2, <1>9 DEF TypeOK
  <2>4. Homes(home, c)' /\ (Heard(c) \/ InStep(worker[c], c))'
    BY <1>1, <1>2, <1>9, <2>1, <2>2, <2>3 DEF Homes, AtHome, Heard, InStep
  <2>5. CASE pc = "lookup"
    BY <1>1, <1>3, <1>9, <2>4, <2>5, KeptGoing
  <2>6. CASE pc # "lookup"
    <3>1. \A v \in Nat : Ahead(worker[c], c, v)'
      BY <1>9, <2>2, <2>3, <2>6 DEF Ahead
    <3> QED
      BY <2>4, <3>1 DEF Kept, Provided
  <2> QED
    BY <2>5, <2>6
<1> HIDE DEF k
<1> QED
  BY <1>4, <1>6, <1>7, <1>8, <1>9

\* The informer delivers c.
LEMMA KeptCrWatch ==
    ASSUME NEW home \in [Names -> Owners], InvAll, Quiet(home), NEW c \in Owners,
           Undisputed(home), crWatch(c), UNCHANGED channel
    PROVE  SecretsPlain(home)' /\ \A d \in Owners : Kept(home, d)
<1>1. /\ crCache' = [crCache EXCEPT ![c] = cr[c]]
      /\ crFresh' = [crFresh EXCEPT ![c] = TRUE]
      /\ queued' = queued \cup {c}
      /\ UNCHANGED <<cr, sec, secCache, vault, worker>>
  BY DEF crWatch
<1>2. TypeOK /\ Homes(home, c)
  BY DEF InvAll, Inv, Quiet
<1>3. /\ crCache'[c] = cr[c]
      /\ \A d \in Owners \ {c} : crCache'[d] = crCache[d] /\ crFresh'[d] = crFresh[d]
  BY <1>1, <1>2 DEF TypeOK
<1>4. SecretsPlain(home)'
  BY <1>1 DEF Quiet, SecretsPlain
<1>5. ASSUME NEW d \in Owners, d # c
      PROVE  Kept(home, d)
  BY <1>1, <1>3, <1>5, KeptAlone DEF InChannel
<1>6. Homes(home, c)' /\ Heard(c)'
  BY <1>1, <1>2, <1>3 DEF Homes, AtHome, Heard, Undisputed
<1> QED
  BY <1>4, <1>5, <1>6, KeptHeard

\* SecretSyncs are queued, and those told of in the channel stay there or are
\* among them.
LEMMA KeptQueued ==
    ASSUME NEW home \in [Names -> Owners], InvAll, Quiet(home),
           UNCHANGED <<cluster, worker>>, queued \subseteq queued',
           \A c \in Owners : InChannel(c) => InChannel(c)' \/ c \in queued'
    PROVE  SecretsPlain(home)' /\ \A d \in Owners : Kept(home, d)
<1>1. SecretsPlain(home)'
  BY DEF Quiet, SecretsPlain, cluster
<1>2. ASSUME NEW d \in Owners
      PROVE  Kept(home, d)
  BY <1>2, KeptAlone DEF cluster
<1> QED
  BY <1>1, <1>2

\* The informer delivers the Secret at n, and c, whose it is, is queued.
LEMMA KeptSecretWatch ==
    ASSUME NEW home \in [Names -> Owners], InvAll, Quiet(home), NEW n \in Names,
           secretWatch(n), UNCHANGED channel
    PROVE  SecretsPlain(home)' /\ \A d \in Owners : Kept(home, d)
<1>1. /\ secCache[n] # Cached(sec[n])
      /\ secCache' = [secCache EXCEPT ![n] = Cached(sec[n])]
      /\ queued' = queued \cup ControllersOf(secCache[n])
                          \cup ControllersOf(Cached(sec[n]))
      /\ UNCHANGED <<cr, crCache, crFresh, sec, vault, worker>>
  BY DEF secretWatch
<1>2. TypeOK /\ SecretsPlain(home)
  BY DEF InvAll, Inv, Quiet
<1>3. /\ Plain(Cached(sec[n]), home[n])
      /\ Cached(sec[n]) # Absent => Cached(sec[n]).labelled
  BY <1>2 DEF Cached, SecretsPlain, Plain
<1>4. secCache'[n] = Cached(sec[n]) /\ \A m \in Names \ {n} : secCache'[m] = secCache[m]
  BY <1>1, <1>2 DEF TypeOK
<1>5. SecretsPlain(home)'
  BY <1>1, <1>2, <1>3, <1>4 DEF SecretsPlain
<1>6. home[n] \in queued'
  BY <1>1, <1>2, <1>3 DEF SecretsPlain, Plain, ControllersOf
<1>7. ASSUME NEW d \in Owners
      PROVE  Kept(home, d)
  <2>1. CASE d = home[n]
    <3>1. Homes(home, d)
      BY DEF Quiet
    <3>2. Homes(home, d)' /\ Heard(d)'
      BY <1>1, <1>6, <2>1, <3>1 DEF Homes, AtHome, Heard
    <3> QED
      BY <3>2, KeptHeard
  <2>2. CASE d # home[n]
    BY <1>1, <1>4, <2>2, KeptAlone DEF InChannel
  <2> QED
    BY <2>1, <2>2
<1> QED
  BY <1>5, <1>7

\* A Secret whose owner is gone is collected: nobody waits for it.
LEMMA KeptCollectGarbage ==
    ASSUME NEW home \in [Names -> Owners], InvAll, Quiet(home), NEW n \in Names,
           collectGarbage(n), UNCHANGED channel
    PROVE  SecretsPlain(home)' /\ \A d \in Owners : Kept(home, d)
<1>1. /\ sec[n] # Absent /\ sec' = [sec EXCEPT ![n] = Absent]
      /\ UNCHANGED <<cr, crCache, crFresh, secCache, vault, queued, worker>>
  BY DEF collectGarbage
<1>2. TypeOK /\ SecretsPlain(home)
  BY DEF InvAll, Inv, Quiet
<1>3. cr[home[n]] = Absent
  BY <1>1, <1>2 DEF collectGarbage, SecretsPlain, Plain
<1>4. sec'[n] = Absent /\ \A m \in Names \ {n} : sec'[m] = sec[m]
  BY <1>1, <1>2 DEF TypeOK
<1>5. SecretsPlain(home)'
  BY <1>1, <1>2, <1>4 DEF SecretsPlain, Plain
<1>6. ASSUME NEW d \in Owners
      PROVE  Kept(home, d)
  <2>1. CASE d = home[n]
    <3>1. Homes(home, d) /\ (Heard(d) \/ InStep(worker[d], d))
      BY DEF Quiet
    <3>2. Homes(home, d)' /\ (Heard(d) \/ InStep(worker[d], d))'
      BY <1>1, <3>1 DEF Homes, AtHome, Heard, InStep
    <3> QED
      BY <1>1, <1>3, <2>1, <3>2, KeptGoing
  <2>2. CASE d # home[n]
    BY <1>1, <1>4, <2>2, KeptAlone DEF InChannel
  <2> QED
    BY <2>1, <2>2
<1> QED
  BY <1>5, <1>6

\* The process starts again, and every SecretSync is queued.
LEMMA KeptRestarted ==
    ASSUME NEW home \in [Names -> Owners], InvAll, Quiet(home), Undisputed(home),
           Restarted
    PROVE  SecretsPlain(home)' /\ \A d \in Owners : Kept(home, d)
<1>1. /\ worker' = [c \in Owners |-> Idle]
      /\ queued' = {c \in Owners : cr[c] # Absent}
      /\ crCache' = cr
      /\ secCache' = [n \in Names |-> Cached(sec[n])]
      /\ UNCHANGED <<cr, sec, vault>>
  BY DEF Restarted, Startup
<1>2. Idle.ss = Absent /\ Idle.todo = {} /\ Idle.pc = "idle"
  BY IdleFields
<1>3. SecretsPlain(home)'
  BY <1>1 DEF Quiet, SecretsPlain, Plain, Cached
<1>4. ASSUME NEW d \in Owners
      PROVE  Kept(home, d)
  <2>1. worker'[d] = Idle
    BY <1>1
  <2>2. Homes(home, d)' /\ InStep(worker[d], d)'
    BY <1>1, <1>2, <2>1 DEF Homes, AtHome, InStep, Undisputed
  <2>3. CASE cr[d] = Absent
    BY <1>1, <2>2, <2>3, KeptGoing
  <2>4. CASE cr[d] # Absent
    <3>1. Heard(d)'
      BY <1>1, <2>4 DEF Heard
    <3> QED
      BY <2>2, <3>1, KeptHeard
  <2> QED
    BY <2>3, <2>4
<1> QED
  BY <1>3, <1>4

\* A user changes or deletes c, and the informer will tell.
LEMMA KeptStoreUser ==
    ASSUME NEW home \in [Names -> Owners], InvAll, Quiet(home), NEW c \in Owners,
           NEW obj, StoreUser(c, obj), UNCHANGED channel
    PROVE  SecretsPlain(home)' /\ \A d \in Owners : Kept(home, d)
<1> DEFINE k == [worker[c] EXCEPT !.fresh = FALSE]
<1>1. TypeOK /\ Homes(home, c) /\ worker[c] \in Workers
  BY Held DEF InvAll, Inv, Quiet
<1>2. k.ss = worker[c].ss /\ k.todo = worker[c].todo
  BY <1>1 DEF Workers
<1>3. AtHome(home, k, c)
  BY <1>1, <1>2 DEF Homes, AtHome
<1>4. /\ cr' = [cr EXCEPT ![c] = obj]
      /\ crFresh' = [crFresh EXCEPT ![c] = FALSE]
      /\ worker' = [worker EXCEPT ![c] = k]
      /\ UNCHANGED <<crCache, sec, secCache, queued>>
  BY DEF StoreUser
<1> HIDE DEF k
<1> QED
  BY <1>3, <1>4, KeptStored

\* A user strips the label off a Secret or overwrites its data.
LEMMA KeptEditSecret ==
    ASSUME NEW home \in [Names -> Owners], InvAll, Quiet(home), Calm,
           NEW n \in Names, NEW kind \in EditKinds, editSecret(n, kind),
           UNCHANGED channel
    PROVE  SecretsPlain(home)' /\ \A d \in Owners : Kept(home, d)
<1>1. kind \in {"unlabel", "drift"}
  BY DEF Calm
<1>2. /\ sec[n] # Absent
      /\ sec' = [sec EXCEPT ![n] = Edited(sec[n], kind)]
      /\ UNCHANGED <<cr, crCache, crFresh, secCache, queued, worker>>
  BY <1>1 DEF editSecret
<1>3. TypeOK /\ SecretsPlain(home)
  BY DEF InvAll, Inv, Quiet
<1>4. sec[n] \in Secrets
  BY <1>2, <1>3 DEF TypeOK
<1>5. LET obj == Edited(sec[n], kind)
      IN  /\ obj # Absent /\ obj.controller = sec[n].controller
          /\ obj.version = sec[n].version /\ obj.immutable = sec[n].immutable
  <2>1. CASE kind = "unlabel"
    <3>1. Edited(sec[n], kind) = [sec[n] EXCEPT !.labelled = FALSE]
      BY <2>1 DEF Edited
    <3>2. [sec[n] EXCEPT !.labelled = FALSE] \in Secrets
      BY <1>4 DEF Secrets
    <3> QED
      BY <1>4, <3>1, <3>2, AbsentAssumption DEF Secrets
  <2>2. CASE kind = "drift"
    <3>1. Edited(sec[n], kind) = [sec[n] EXCEPT !.data = [k \in {} |-> 0]]
      BY <2>2 DEF Edited
    <3>2. [k \in {} |-> 0] \in DataMaps
      <4>1. [k \in {} |-> 0] \in [{} -> Values] /\ {} \in SUBSET Keys
        OBVIOUS
      <4> QED
        BY <4>1 DEF DataMaps
    <3>3. [sec[n] EXCEPT !.data = [k \in {} |-> 0]] \in Secrets
      BY <1>4, <3>2 DEF Secrets
    <3> QED
      BY <1>4, <3>1, <3>3, AbsentAssumption DEF Secrets
  <2> QED
    BY <1>1, <2>1, <2>2
<1>6. /\ sec'[n] = Edited(sec[n], kind)
      /\ \A m \in Names \ {n} : sec'[m] = sec[m]
  BY <1>2, <1>3 DEF TypeOK
<1>7. \A m \in Names :
         /\ sec'[m] = Absent <=> sec[m] = Absent
         /\ sec[m] # Absent => /\ sec'[m].controller = sec[m].controller
                               /\ sec'[m].version = sec[m].version
                               /\ sec'[m].immutable = sec[m].immutable
  BY <1>2, <1>5, <1>6
<1>8. SecretsPlain(home)'
  BY <1>2, <1>3, <1>7 DEF SecretsPlain, Plain
<1>9. ASSUME NEW d \in Owners
      PROVE  Kept(home, d)
  <2>1. Homes(home, d) /\ (Heard(d) \/ InStep(worker[d], d))
    BY DEF Quiet
  <2>2. Homes(home, d)' /\ (Heard(d) \/ InStep(worker[d], d))'
    BY <1>2, <2>1 DEF Homes, AtHome, Heard, InStep
  <2>3. crCache[d] # Absent => declared(d) \in Names
    BY <1>3, Held, SecretSyncFields DEF declared
  <2>4. ASSUME NEW v \in Nat, Provided(d, v)
        PROVE  Provided(d, v)'
    <3>1. Wants(d, v)' => Wants(d, v)
      BY <1>2, <1>7, <2>3 DEF Wants, HeldBy, declared
    <3>2. Wants(d, v)' /\ Ahead(worker[d], d, v) => Ahead(worker[d], d, v)'
      BY <1>2, <1>7, <2>3 DEF Wants, Ahead, declared
    <3>3. (Heard(d)' <=> Heard(d)) /\ (InChannel(d)' <=> InChannel(d))
      BY <1>2 DEF Heard, InChannel
    <3> QED
      BY <2>4, <3>1, <3>2, <3>3 DEF Provided
  <2> QED
    BY <2>2, <2>4 DEF Kept
<1> QED
  BY <1>8, <1>9

-----------------------------------------------------------------------------
(* Every step. *)

LEMMA KeptWork ==
    ASSUME NEW home \in [Names -> Owners], InvAll, Quiet(home), NEW c \in Owners,
           Work(c), UNCHANGED channel
    PROVE  SecretsPlain(home)' /\ \A d \in Owners : Kept(home, d)
BY KeptSetPending, KeptCheckClaim, KeptReadTarget, KeptSyncFromVault,
   KeptAddFinalizer, KeptWriteSecret, KeptUpdateStatus, KeptListStale,
   KeptDeleteStale, KeptDeletion DEF Work

LEMMA KeptUsers ==
    ASSUME NEW home \in [Names -> Owners], InvAll, Quiet(home), Calm,
           Users, UNCHANGED channel
    PROVE  SecretsPlain(home)' /\ \A d \in Owners : Kept(home, d)
<1>1. ASSUME NEW c \in Owners, NEW spec, deleteSecretSync(c) \/ editSpec(c, spec)
      PROVE  SecretsPlain(home)' /\ \A d \in Owners : Kept(home, d)
  BY <1>1, KeptStoreUser DEF deleteSecretSync, editSpec
<1>2. ASSUME NEW n \in Names, NEW kind \in EditKinds, editSecret(n, kind)
      PROVE  SecretsPlain(home)' /\ \A d \in Owners : Kept(home, d)
  BY <1>2, KeptEditSecret
<1>3. ASSUME rotate \/ \E answer \in {Served} \cup Outages : vaultChanges(answer)
      PROVE  SecretsPlain(home)' /\ \A d \in Owners : Kept(home, d)
  <2>1. UNCHANGED <<cluster, worker, queued, channel>>
    BY <1>3 DEF rotate, vaultChanges
  <2> QED
    BY <2>1, KeptQueued DEF InChannel
<1> QED
  BY <1>1, <1>2, <1>3 DEF Users

\* What is in the channel stays there until it is queued.
LEMMA ChannelKeeps ==
    ASSUME channel \in Seq(Owners), NEW c \in Owners,
           Deliver \/ Poll \/ Handle \/ shutdown \/ consume, InChannel(c)
    PROVE  InChannel(c)' \/ c \in queued'
<1>1. PICK i \in DOMAIN channel : channel[i] = c
  BY DEF InChannel
<1>2. i \in 1 .. Len(channel) /\ Len(channel) \in Nat
  BY <1>1
<1>3. CASE UNCHANGED channel
  BY <1>1, <1>3 DEF InChannel
<1>4. ASSUME NEW s \in Owners, channel' = Append(channel, s)
      PROVE  InChannel(c)'
  <2>1. i \in DOMAIN channel' /\ channel'[i] = c
    BY <1>1, <1>2, <1>4
  <2> QED
    BY <2>1 DEF InChannel
<1>5. CASE consume
  <2>1. channel # <<>> /\ channel' = Tail(channel) /\ queued' = queued \cup {Head(channel)}
    BY <1>5, ConsumeStep DEF consume, L!consume
  <2>2. CASE i = 1
    BY <1>1, <2>1, <2>2
  <2>3. CASE i # 1
    <3>1. i - 1 \in DOMAIN channel' /\ channel'[i - 1] = channel[i]
      BY <1>2, <2>1, <2>3
    <3> QED
      BY <1>1, <3>1 DEF InChannel
  <2> QED
    BY <2>2, <2>3
<1>6. ASSUME Deliver \/ Poll \/ shutdown
      PROVE  UNCHANGED channel
  BY <1>6 DEF Deliver, Poll, shutdown, L!publish, L!visibilityTimeout, L!Poll,
     L!receive, L!shutdown
<1>7. ASSUME Handle
      PROVE  UNCHANGED channel \/ \E s \in Owners : channel' = Append(channel, s)
  <2>1. ASSUME NEW s \in Owners, L!send(s)
        PROVE  channel' = Append(channel, s)
    BY <2>1 DEF L!send
  <2>2. ASSUME NEW m \in Messages, L!handleMessage(m)
        PROVE  channel' = channel
    BY <2>2 DEF L!handleMessage
  <2>3. L!sendCancelled \/ L!deleteMessage => channel' = channel
    BY DEF L!sendCancelled, L!deleteMessage
  <2> QED
    BY <1>7, <2>1, <2>2, <2>3 DEF Handle, L!Handle
<1> QED
  BY <1>3, <1>4, <1>5, <1>6, <1>7

\* Every step keeps what it must for every SecretSync.
LEMMA KeptAll ==
    ASSUME NEW home \in [Names -> Owners], InvAll, Quiet(home), Calm,
           Undisputed(home), [NextAll]_allVars
    PROVE  SecretsPlain(home)' /\ \A d \in Owners : Kept(home, d)
<1>1. ASSUME NEW c \in Owners, Controller(c)
      PROVE  SecretsPlain(home)' /\ \A d \in Owners : Kept(home, d)
  <2>1. UNCHANGED channel
    BY <1>1 DEF Controller, Start, Working, Informed, listenerVars
  <2>2. CASE timerFires(c)
    <3>1. UNCHANGED <<cluster, worker>> /\ queued \subseteq queued'
      BY <2>2 DEF timerFires
    <3> QED
      BY <2>1, <3>1, KeptQueued DEF InChannel
  <2> QED
    BY <1>1, <2>1, <2>2, KeptReconcile, KeptWork, KeptCrWatch
    DEF Controller, Start, Working, Informed
<1>2. ASSUME Environment
      PROVE  SecretsPlain(home)' /\ \A d \in Owners : Kept(home, d)
  BY <1>2, KeptSecretWatch, KeptCollectGarbage, KeptUsers DEF Environment, listenerVars
<1>3. ASSUME Deliver \/ Poll \/ Handle \/ shutdown \/ consume
      PROVE  SecretsPlain(home)' /\ \A d \in Owners : Kept(home, d)
  <2>1. UNCHANGED <<cluster, worker>> /\ queued \subseteq queued'
    BY <1>3, ListenerStep, ConsumeStep DEF vars, cluster
  <2> QED
    BY <1>3, <2>1, ChannelKeeps, KeptQueued DEF InvAll
<1>4. ASSUME UNCHANGED allVars
      PROVE  SecretsPlain(home)' /\ \A d \in Owners : Kept(home, d)
  <2>1. UNCHANGED <<cluster, worker, queued, channel>>
    BY <1>4 DEF allVars, vars, listenerVars, cluster
  <2> QED
    BY <2>1, KeptQueued DEF InChannel
<1> QED
  BY <1>1, <1>2, <1>3, <1>4, KeptRestarted DEF NextAll

\* The vault keeps answering, and no call of the reconciler fails.
LEMMA StaysCalm ==
    ASSUME NEW home \in [Names -> Owners], InvAll, Quiet(home), Calm,
           [NextAll]_allVars
    PROVE  /\ vault'.answer = Served /\ budget'.faults = 0
           /\ vault.version <= vault'.version
<1>1. /\ vault \in [version : Versions, answer : {Served} \cup Outages]
      /\ budget \in [edits : Nat, faults : Nat, outages : Nat]
      /\ vault.answer = Served /\ budget.faults = 0
  BY DEF InvAll, Inv, TypeOK, Quiet
<1>2. vault.version \in Nat
  BY <1>1, ReconcilerAssumption
<1>3. CASE UNCHANGED <<vault, budget>>
  BY <1>1, <1>2, <1>3
<1>4. ASSUME NEW c \in Owners, Controller(c)
      PROVE  UNCHANGED <<vault, budget>>
  <2>1. Reconcile(c) \/ crWatch(c) \/ timerFires(c) => UNCHANGED <<vault, budget>>
    BY Zenon DEF Reconcile, crWatch, timerFires
  <2>2. writeSecret(c) => UNCHANGED <<vault, budget>>
    <3>1. ~(budget.faults > 0)
      BY <1>1
    <3> QED
      BY <3>1, Zenon DEF writeSecret
  <2>3. Work(c) /\ ~writeSecret(c) => UNCHANGED <<vault, budget>>
    BY DEF Work, setPending, checkClaim, readTarget, syncFromVault, addFinalizer,
       updateStatus, listStale, deleteStale, lookupOwned, removeSecret,
       removeFinalizer
  <2> QED
    BY <1>4, <2>1, <2>2, <2>3 DEF Controller, Start, Working, Informed
<1>5. ASSUME NEW n \in Names, secretWatch(n) \/ collectGarbage(n)
      PROVE  UNCHANGED <<vault, budget>>
  BY <1>5 DEF secretWatch, collectGarbage
<1>6. ASSUME UserEdits, UNCHANGED vault
      PROVE  vault'.answer = Served /\ budget'.faults = 0 /\ vault.version <= vault'.version
  BY <1>1, <1>2, <1>6 DEF UserEdits
<1>7. ASSUME \/ \E c \in Owners : deleteSecretSync(c)
             \/ \E c \in Owners, spec \in Specs : editSpec(c, spec)
             \/ \E n \in Names, kind \in EditKinds : editSecret(n, kind)
      PROVE  UserEdits /\ UNCHANGED vault
  BY <1>7 DEF deleteSecretSync, editSpec, editSecret, StoreUser
<1>8. ASSUME rotate
      PROVE  vault'.answer = Served /\ budget'.faults = 0 /\ vault.version <= vault'.version
  BY <1>1, <1>2, <1>8 DEF rotate
<1>9. ASSUME \E answer \in {Served} \cup Outages : vaultChanges(answer)
      PROVE  FALSE
  BY <1>1, <1>9 DEF vaultChanges, Calm
<1>10. ASSUME Environment
       PROVE  vault'.answer = Served /\ budget'.faults = 0 /\ vault.version <= vault'.version
  BY <1>3, <1>5, <1>6, <1>7, <1>8, <1>9, <1>10 DEF Environment, Users
<1>11. ASSUME Deliver \/ Poll \/ Handle \/ shutdown \/ consume \/ Restarted
              \/ UNCHANGED allVars
       PROVE  UNCHANGED <<vault, budget>>
  <2>1. Restarted => UNCHANGED <<vault, budget>>
    BY DEF Restarted, Startup
  <2>2. consume => UNCHANGED <<vault, budget>>
    BY ConsumeStep
  <2>3. UNCHANGED vars => UNCHANGED <<vault, budget>>
    BY DEF vars
  <2> QED
    BY <1>11, <2>1, <2>2, <2>3, ListenerStep
<1> QED
  BY <1>3, <1>4, <1>10, <1>11 DEF NextAll

LEMMA QuietStep ==
    ASSUME NEW home \in [Names -> Owners], InvAll, Quiet(home), Calm,
           Undisputed(home), [NextAll]_allVars
    PROVE  Quiet(home)'
<1>1. SecretsPlain(home)' /\ \A d \in Owners : Kept(home, d)
  BY KeptAll
<1>2. vault'.answer = Served /\ budget'.faults = 0
  BY StaysCalm
<1> QED
  BY <1>1, <1>2 DEF Quiet, Kept

-----------------------------------------------------------------------------
(* From the queue to the channel. *)

\* m announces a rotation of the secret that c names.
Told(m, c) == L!Parse(BodyOf[m]) = "event" /\ L!matches(SpellingOf[c], BodyOf[m])

OnQueue(m) == box[m].state \in {"visible", "leased"}

Settled(m, c) ==
    Told(m, c) /\ m \notin poisoned => Provided(c, box[m].version)

BoxOK ==
    /\ box \in [Messages -> [state : {"unsent", "visible", "leased", "deleted"},
                             version : Nat, count : Nat]]
    /\ \A m \in Messages : box[m].version <= vault.version

InHand ==
    /\ lis.batch \subseteq Messages
    /\ \A m \in lis.batch : OnQueue(m)
    /\ lis.pc \in {"send", "delete"} => lis.msg \in Messages \ lis.batch
    /\ \A m \in Messages : lis.pc \in {"send", "delete"} /\ lis.msg = m =>
          OnQueue(m) /\ \A c \in Owners : c \in lis.todo \/ Settled(m, c)
    /\ lis.pc = "delete" => lis.todo = {}

Answered ==
    \A m \in Messages, c \in Owners : box[m].state = "deleted" => Settled(m, c)

\* A message leaves the queue, or the hands of the poll loop, once every
\* SecretSync it is about has been provided for.
Posted == BoxOK /\ InHand /\ Answered

\* What is settled stays settled.
LEMMA SettledStays ==
    ASSUME NEW home, NEW m \in Messages, NEW c \in Owners, BoxOK, Kept(home, c),
           box'[m].version = box[m].version, poisoned \subseteq poisoned',
           Settled(m, c)
    PROVE  Settled(m, c)'
<1>1. box[m].version \in Nat /\ box[m].version <= vault.version
  BY DEF BoxOK
<1>2. Provided(c, box[m].version) => Provided(c, box[m].version)'
  BY <1>1 DEF Kept
<1>3. Told(m, c)' <=> Told(m, c)
  BY DEF Told
<1> QED
  BY <1>2, <1>3 DEF Settled

\* Steps that leave the queue alone, and a new start of the poll loop.
LEMMA PostedStays ==
    ASSUME NEW home, Posted, \A c \in Owners : Kept(home, c),
           vault.version \in Nat, vault'.version \in Nat,
           vault.version <= vault'.version, UNCHANGED <<box, poisoned>>,
           \/ lis' = lis
           \/ lis'.pc \in {"poll", "next"} /\ lis'.batch \subseteq lis.batch
    PROVE  Posted'
<1>1. \A m \in Messages, c \in Owners : Settled(m, c) => Settled(m, c)'
  BY SettledStays DEF Posted
<1>2. BoxOK'
  BY DEF Posted, BoxOK
<1>3. Answered'
  BY <1>1 DEF Posted, Answered
<1>4. \A m \in Messages : OnQueue(m)' <=> OnQueue(m)
  BY DEF OnQueue
<1>5. InHand'
  <2>1. CASE lis' = lis
    BY <1>1, <1>4, <2>1 DEF Posted, InHand
  <2>2. CASE lis'.pc \in {"poll", "next"} /\ lis'.batch \subseteq lis.batch
    BY <1>4, <2>2 DEF Posted, InHand
  <2> QED
    BY <2>1, <2>2
<1> QED
  BY <1>2, <1>3, <1>5 DEF Posted

\* A message is delivered, or becomes visible again.
LEMMA PostedDeliver ==
    ASSUME NEW home, Posted, \A c \in Owners : Kept(home, c), vault.version \in Nat,
           NEW m \in Messages,
           L!publish(m, vault.version) \/ L!visibilityTimeout(m), UNCHANGED vault
    PROVE  Posted'
<1>1. /\ box' = [box EXCEPT ![m] = [state |-> "visible", version |-> box'[m].version,
                                    count |-> box'[m].count]]
      /\ box'[m].version \in {vault.version, box[m].version}
      /\ box'[m].count \in {0, box[m].count}
      /\ box'[m].state = "visible"
      /\ box[m].state \in {"unsent", "leased"}
      /\ box[m].state = "leased" => box'[m].version = box[m].version
      /\ UNCHANGED <<lis, poisoned>>
  BY DEF L!publish, L!visibilityTimeout, L!Msg, Posted, BoxOK
<1>2. BoxOK'
  BY <1>1 DEF Posted, BoxOK
<1>3. \A n \in Messages : n # m => box'[n] = box[n]
  BY <1>1 DEF Posted, BoxOK
<1>4. \A n \in Messages : OnQueue(n) => OnQueue(n)' /\ box'[n].version = box[n].version
  BY <1>1, <1>3 DEF OnQueue
<1>5. ASSUME NEW n \in Messages, NEW c \in Owners, box'[n].version = box[n].version,
             Settled(n, c)
      PROVE  Settled(n, c)'
  BY <1>1, <1>5, SettledStays DEF Posted
<1>6. InHand'
  BY <1>1, <1>4, <1>5 DEF Posted, InHand
<1>7. Answered'
  <2> SUFFICES ASSUME NEW n \in Messages, NEW c \in Owners, box'[n].state = "deleted"
               PROVE  Settled(n, c)'
    BY DEF Answered
  <2>1. n # m
    BY <1>1
  <2> QED
    BY <1>3, <1>5, <2>1 DEF Posted, Answered
<1> QED
  BY <1>2, <1>6, <1>7 DEF Posted

LEMMA PostedReceive ==
    ASSUME NEW home, Posted, \A c \in Owners : Kept(home, c),
           NEW S \in SUBSET Messages, L!receive(S), UNCHANGED vault
    PROVE  Posted'
<1>1. /\ box' = [m \in Messages |->
                   IF m \in S
                   THEN [state |-> "leased", version |-> box[m].version,
                         count |-> IF box[m].count > PoisonThreshold
                                   THEN box[m].count ELSE box[m].count + 1]
                   ELSE box[m]]
      /\ lis'.pc = "next" /\ lis'.batch = S
      /\ UNCHANGED poisoned
  BY DEF L!receive, L!Msg, L!Loop
<1>2. /\ \A m \in S : box'[m].state = "leased"
      /\ \A m \in Messages : box'[m].version = box[m].version
      /\ \A m \in Messages \ S : box'[m] = box[m]
  BY <1>1
<1>3. BoxOK'
  BY <1>1, <1>2 DEF Posted, BoxOK
<1>4. InHand'
  BY <1>1, <1>2 DEF InHand, OnQueue
<1>5. Answered'
  <2> SUFFICES ASSUME NEW n \in Messages, NEW c \in Owners, box'[n].state = "deleted"
               PROVE  Settled(n, c)'
    BY DEF Answered
  <2>1. box[n].state = "deleted"
    BY <1>2
  <2> QED
    BY <1>1, <1>2, <2>1, SettledStays DEF Posted, Answered
<1> QED
  BY <1>3, <1>4, <1>5 DEF Posted

\* A SecretSync that the cached list does not show wants nothing yet: it will
\* be told of when the informer delivers it.
LEMMA Unmatched ==
    ASSUME NEW m \in Messages, NEW c \in Owners, Told(m, c),
           c \notin L!matchingSecretSyncs(m), NEW v
    PROVE  Provided(c, v)
<1>1. crCache[c] = Absent
  BY DEF L!matchingSecretSyncs, Told, L!matches
<1> QED
  BY <1>1 DEF Provided, Wants

LEMMA ContinueFields ==
    ASSUME NEW batch
    PROVE  L!Continue(batch).pc \in {"poll", "next"} /\ L!Continue(batch).batch = batch
BY DEF L!Continue, L!Loop

\* handleMessage takes a message in hand: whom it does not send to has been
\* provided for, is not told of, or the message is poison.
LEMMA PostedHandleMessage ==
    ASSUME NEW home, Posted, \A c \in Owners : Kept(home, c), vault.version \in Nat,
           NEW m \in Messages, L!handleMessage(m), UNCHANGED vault
    PROVE  Posted'
<1> DEFINE rest == lis.batch \ {m}
           all == L!matchingSecretSyncs(m)
<1>1. m \in lis.batch /\ UNCHANGED box
  BY DEF L!handleMessage
<1>2. \/ lis' = L!Continue(rest) /\ UNCHANGED poisoned
      \/ lis' = L!Loop("delete", rest, m, {}) /\ poisoned' = poisoned \cup {m}
      \/ /\ lis' = L!Loop("delete", rest, m, {}) /\ UNCHANGED poisoned
         /\ L!Parse(BodyOf[m]) # "event" \/ all = {}
      \/ lis' = L!Loop("send", rest, m, all) /\ UNCHANGED poisoned
  BY DEF L!handleMessage, L!Discard
<1> HIDE DEF all
<1>3. CASE lis' = L!Continue(rest) /\ UNCHANGED poisoned
  <2>1. lis'.pc \in {"poll", "next"} /\ lis'.batch \subseteq lis.batch
    BY <1>3, ContinueFields
  <2> QED
    BY <1>1, <1>3, <2>1, PostedStays
<1>4. CASE ~(lis' = L!Continue(rest) /\ UNCHANGED poisoned)
  <2>1. /\ lis'.pc \in {"send", "delete"} /\ lis'.batch = rest /\ lis'.msg = m
        /\ lis'.pc = "delete" => lis'.todo = {}
        /\ poisoned \subseteq poisoned'
        /\ \/ m \in poisoned'
           \/ L!Parse(BodyOf[m]) # "event"
           \/ lis'.todo = all
    BY <1>2, <1>4 DEF L!Loop
  <2>2. ASSUME NEW c \in Owners, c \notin lis'.todo
        PROVE  Settled(m, c)'
    <3> SUFFICES ASSUME Told(m, c), m \notin poisoned'
                 PROVE  Settled(m, c)'
      BY DEF Settled, Told
    <3>1. c \notin L!matchingSecretSyncs(m)
      BY <2>1, <2>2 DEF Told, all
    <3>2. Provided(c, box[m].version)
      BY <3>1, Unmatched
    <3>3. Settled(m, c)
      BY <3>2 DEF Settled
    <3> QED
      BY <1>1, <2>1, <3>3, SettledStays DEF Posted
  <2>3. BoxOK'
    BY <1>1 DEF Posted, BoxOK
  <2>4. \A n \in Messages : OnQueue(n)' <=> OnQueue(n)
    BY <1>1 DEF OnQueue
  <2>5. InHand'
    BY <1>1, <2>1, <2>2, <2>4 DEF Posted, InHand
  <2>6. Answered'
    BY <1>1, <2>1, SettledStays DEF Posted, Answered
  <2> QED
    BY <2>3, <2>5, <2>6 DEF Posted
<1> QED
  BY <1>3, <1>4

\* One more SecretSync is in the channel.
LEMMA PostedSend ==
    ASSUME NEW home, InvAll, Posted, \A c \in Owners : Kept(home, c),
           NEW s \in Owners, L!send(s), UNCHANGED vault
    PROVE  Posted'
<1>1. /\ lis.pc = "send" /\ s \in lis.todo /\ channel' = Append(channel, s)
      /\ lis'.batch = lis.batch /\ lis'.msg = lis.msg /\ lis'.todo = lis.todo \ {s}
      /\ lis'.pc = "delete" => lis'.todo = {}
      /\ lis'.pc \in {"send", "delete"}
      /\ UNCHANGED <<box, poisoned>>
  BY DEF L!send, L!Loop
<1>2. InChannel(s)'
  <2>1. channel \in Seq(Owners)
    BY DEF InvAll
  <2>2. Len(channel) + 1 \in DOMAIN channel' /\ channel'[Len(channel) + 1] = s
    BY <1>1, <2>1
  <2> QED
    BY <2>2 DEF InChannel
<1>3. \A m \in Messages : Settled(m, s)'
  BY <1>2 DEF Settled, Provided
<1>4. \A m \in Messages, c \in Owners : Settled(m, c) => Settled(m, c)'
  BY <1>1, SettledStays DEF Posted
<1>5. \A m \in Messages : OnQueue(m)' <=> OnQueue(m)
  BY <1>1 DEF OnQueue
<1>6. BoxOK' /\ Answered'
  BY <1>1, <1>4 DEF Posted, BoxOK, Answered
<1>7. InHand'
  BY <1>1, <1>3, <1>4, <1>5 DEF Posted, InHand
<1> QED
  BY <1>6, <1>7 DEF Posted

\* The message in hand leaves the queue.
LEMMA PostedDeleteMessage ==
    ASSUME NEW home, Posted, \A c \in Owners : Kept(home, c), vault.version \in Nat,
           L!deleteMessage, UNCHANGED vault
    PROVE  Posted'
<1>1. /\ lis.pc = "delete" /\ lis' = L!Continue(lis.batch) /\ UNCHANGED poisoned
  BY DEF L!deleteMessage
<1>2. lis'.pc \in {"poll", "next"} /\ lis'.batch = lis.batch
  BY <1>1, ContinueFields
<1>3. CASE UNCHANGED box
  BY <1>1, <1>2, <1>3, PostedStays
<1>4. CASE box' = [box EXCEPT ![lis.msg] =
                     [state |-> "deleted", version |-> box[lis.msg].version,
                      count |-> box[lis.msg].count]]
  <2>1. PICK m \in Messages : m = lis.msg
    BY <1>1 DEF Posted, InHand
  <2>2. m \notin lis.batch /\ \A c \in Owners : Settled(m, c)
    BY <1>1, <2>1 DEF Posted, InHand
  <2>3. /\ \A n \in Messages : box'[n].version = box[n].version
        /\ \A n \in Messages \ {m} : box'[n] = box[n]
    BY <1>4, <2>1 DEF Posted, BoxOK
  <2>4. BoxOK'
    BY <1>4, <2>1, <2>3 DEF Posted, BoxOK
  <2>5. \A n \in Messages, c \in Owners : Settled(n, c) => Settled(n, c)'
    BY <1>1, <2>3, SettledStays DEF Posted
  <2>6. Answered'
    BY <2>2, <2>3, <2>5 DEF Posted, Answered
  <2>7. InHand'
    BY <1>2, <2>2, <2>3 DEF Posted, InHand, OnQueue
  <2> QED
    BY <2>4, <2>6, <2>7 DEF Posted
<1> QED
  BY <1>3, <1>4 DEF L!deleteMessage, L!Msg

LEMMA PostedStep ==
    ASSUME NEW home \in [Names -> Owners], InvAll, Quiet(home), Posted, Calm,
           Undisputed(home), [NextAll]_allVars
    PROVE  Posted'
<1>1. \A c \in Owners : Kept(home, c)
  BY KeptAll
<1>2. /\ vault.version \in Nat /\ vault'.version \in Nat
      /\ vault.version <= vault'.version
  <2>1. InvAll'
    BY InvAllStep
  <2>2. vault.version \in Versions /\ vault'.version \in Versions
    BY <2>1 DEF InvAll, Inv, TypeOK
  <2> QED
    BY <2>2, StaysCalm, ReconcilerAssumption
<1>3. CASE UNCHANGED listenerVars
  BY <1>1, <1>2, <1>3, PostedStays DEF listenerVars
<1>4. ASSUME NEW c \in Owners, Controller(c)
      PROVE  UNCHANGED listenerVars
  BY <1>4 DEF Controller, Start, Working, Informed
<1>5. Environment \/ UNCHANGED allVars => UNCHANGED listenerVars
  BY DEF Environment, allVars
<1>6. Deliver \/ Poll \/ Handle => UNCHANGED vault
  BY ListenerStep DEF vars
<1>7. CASE Deliver
  BY <1>1, <1>2, <1>6, <1>7, PostedDeliver DEF Deliver
<1>8. CASE Poll
  BY <1>1, <1>6, <1>8, PostedReceive DEF Poll, L!Poll
<1>9. CASE Handle
  <2>1. ASSUME L!sendCancelled
        PROVE  Posted'
    <3>1. lis' = L!Continue(lis.batch) /\ UNCHANGED <<box, poisoned>>
      BY <2>1 DEF L!sendCancelled
    <3>2. lis'.pc \in {"poll", "next"} /\ lis'.batch \subseteq lis.batch
      BY <3>1, ContinueFields
    <3> QED
      BY <1>1, <1>2, <3>1, <3>2, PostedStays
  <2>2. ASSUME NEW m \in Messages, L!handleMessage(m)
        PROVE  Posted'
    BY <1>1, <1>2, <1>6, <1>9, <2>2, PostedHandleMessage
  <2>3. ASSUME NEW s \in Owners, L!send(s)
        PROVE  Posted'
    BY <1>1, <1>6, <1>9, <2>3, PostedSend
  <2>4. ASSUME L!deleteMessage
        PROVE  Posted'
    BY <1>1, <1>2, <1>6, <1>9, <2>4, PostedDeleteMessage
  <2> QED
    BY <1>9, <2>1, <2>2, <2>3, <2>4 DEF Handle, L!Handle
<1>10. CASE consume \/ shutdown
  <2>1. UNCHANGED <<box, lis, poisoned>>
    BY <1>10 DEF consume, shutdown, L!consume, L!shutdown
  <2> QED
    BY <1>1, <1>2, <2>1, PostedStays
<1>11. CASE Restarted
  <2>1. lis' = L!Continue({}) /\ UNCHANGED <<box, poisoned>>
    BY <1>11 DEF Restarted, L!StartOver
  <2>2. lis'.pc \in {"poll", "next"} /\ lis'.batch \subseteq lis.batch
    BY <2>1, ContinueFields
  <2> QED
    BY <1>1, <1>2, <2>1, <2>2, PostedStays
<1> QED
  BY <1>3, <1>4, <1>5, <1>7, <1>8, <1>9, <1>10, <1>11 DEF NextAll

-----------------------------------------------------------------------------
(* The theorem. *)

LEMMA RotationInit ==
    ASSUME NEW home \in [Names -> Owners], Calm, InitAll
    PROVE  Quiet(home) /\ Posted
<1>1. /\ crCache = [c \in Owners |-> Absent] /\ crFresh = [c \in Owners |-> FALSE]
      /\ sec = [n \in Names |-> Absent] /\ secCache = [n \in Names |-> Absent]
      /\ vault = [version |-> 1, answer |-> Served]
      /\ worker = [c \in Owners |-> Idle]
      /\ budget = [edits |-> MaxEdits, faults |-> MaxFaults, outages |-> MaxOutages]
  BY Zenon DEF InitAll, Init
<1>2. /\ box = [m \in Messages |-> L!Msg("unsent", 0, 0)]
      /\ lis = L!Continue({})
  BY Zenon DEF InitAll, L!Init
<1>3. Idle.ss = Absent /\ Idle.todo = {}
  BY IdleFields
<1>4. Quiet(home)
  <2>1. vault.answer = Served /\ budget.faults = 0
    BY <1>1 DEF Calm
  <2>2. SecretsPlain(home)
    BY <1>1 DEF SecretsPlain, Plain
  <2>3. \A c \in Owners : Homes(home, c) /\ Heard(c)
    BY <1>1, <1>3 DEF Homes, AtHome, Heard
  <2> QED
    BY <2>1, <2>2, <2>3 DEF Quiet
<1>5. \A m \in Messages : box[m] = [state |-> "unsent", version |-> 0, count |-> 0]
  BY <1>2 DEF L!Msg
<1>6. BoxOK /\ Answered
  BY <1>1, <1>2, <1>5 DEF BoxOK, Answered, L!Msg
<1>7. InHand
  BY <1>2, ContinueFields DEF InHand
<1> QED
  BY <1>4, <1>6, <1>7 DEF Posted

LEMMA RotationKept ==
    ASSUME NEW home \in [Names -> Owners], InvAll, Quiet(home), Posted
    PROVE  NoLostRotation
<1> SUFFICES ASSUME NEW m \in Messages, NEW c \in Owners, Awaits(m, c),
                    m \notin poisoned, ~OnQueue(m)
             PROVE  Coming(c, box[m].version)
  BY DEF NoLostRotation, OnQueue
<1> DEFINE v == box[m].version
           n == crCache[c].spec.target
<1>1. TypeOK
  BY DEF InvAll, Inv
<1>2. /\ cr[c] # Absent /\ ~cr[c].deleting /\ crCache[c] # Absent
      /\ L!Parse(BodyOf[m]) = "event" /\ box[m].state # "unsent"
      /\ SpellingOf[c] # None /\ Fold[SpellingOf[c]] = Fold[BodyOf[m].name]
      /\ HeldBy(c) < v
  <2>1. L!News(m, c) /\ cr[c] # Absent /\ ~cr[c].deleting
    BY DEF Awaits
  <2>2. /\ crCache[c] # Absent /\ L!Parse(BodyOf[m]) = "event"
        /\ box[m].state # "unsent" /\ SpellingOf[c] # None
        /\ Fold[SpellingOf[c]] = Fold[BodyOf[m].name]
        /\ [o \in Objects |-> HeldBy(c)][Fold[BodyOf[m].name]] < v
    BY <2>1 DEF L!News
  <2>3. Fold[BodyOf[m].name] \in Objects
    BY <2>2, OperatorAssumption
  <2> QED
    BY <2>1, <2>2, <2>3
<1>3. box[m].state = "deleted" /\ v \in Nat
  BY <1>2 DEF OnQueue, Posted, BoxOK
<1>4. Told(m, c)
  BY <1>2 DEF Told, L!matches
<1>5. Provided(c, v)
  BY <1>3, <1>4 DEF Posted, Answered, Settled
<1>6. Heard(c) \/ InChannel(c) \/ Ahead(worker[c], c, v)
  BY <1>2, <1>5 DEF Provided, Wants
<1>7. CASE Heard(c) \/ InChannel(c)
  BY <1>7 DEF Heard, InChannel, Coming, L!Coming
<1>8. CASE worker[c].pc \in {"pending", "claim", "read", "vault"}
  BY <1>2, <1>8 DEF Coming, L!Coming
<1>9. CASE worker[c].pc \in {"finalize", "write"} /\ worker[c].version >= v
  BY <1>9 DEF Coming
<1>10. CASE secCache[n] # Absent /\ (sec[n] = Absent \/ secCache[n].version >= v)
  <2>1. n \in Names
    BY <1>1, <1>2, Held, SecretSyncFields
  <2>2. secCache[n] # Cached(sec[n])
    <3>1. CASE sec[n] = Absent
      BY <1>10, <3>1 DEF Cached
    <3>2. CASE sec[n] # Absent
      <4>1. sec[n].version \in Nat /\ sec[n].version < v /\ secCache[n].version >= v
        BY <1>2, <1>10, <2>1, <3>2, ReconcilerAssumption
        DEF HeldBy, Quiet, SecretsPlain, Plain
      <4>2. secCache[n].version \in Nat
        BY <1>10, <2>1, ReconcilerAssumption DEF Quiet, SecretsPlain, Plain
      <4>3. secCache[n] # sec[n]
        BY <1>3, <4>1, <4>2
      <4> QED
        BY <1>10, <4>3 DEF Cached
    <3> QED
      BY <3>1, <3>2
  <2> QED
    BY <1>2, <2>2 DEF Coming
<1> QED
  BY <1>6, <1>7, <1>8, <1>9, <1>10 DEF Ahead, declared

\* FR-005 from end to end: as long as a Secret lacks a version that a message
\* has announced, the message is on the queue, or a reconcile that will deliver
\* the version is on its way, without a timer.  Failed Lists and Deletes of the
\* listener, a full channel, duplicates, shutdowns, crashes, edits and deletions
\* of SecretSyncs, stale caches, lost labels and overwritten data make no
\* difference.  Assumed are a vault that answers and calls that do not fail
\* (Calm), and SecretSyncs that do not compete for a name (Undisputed): what
\* these hold up is repaired by a timer.
THEOREM NoLostRotationHolds ==
    ASSUME NEW CONSTANT home \in [Names -> Owners], Calm
    PROVE  SpecAll /\ []Undisputed(home) => []NoLostRotation
<1>1. InitAll => Quiet(home) /\ Posted
  BY RotationInit
<1>2. /\ InvAll /\ Undisputed(home) /\ Quiet(home) /\ Posted
      /\ [NextAll]_allVars
      => Quiet(home)' /\ Posted'
  BY QuietStep, PostedStep
<1>3. InvAll /\ Quiet(home) /\ Posted => NoLostRotation
  BY RotationKept
<1> QED
  BY <1>1, <1>2, <1>3, InvarianceAll, PTL DEF SpecAll
=============================================================================

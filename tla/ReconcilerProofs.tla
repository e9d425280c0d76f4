-------------------------- MODULE ReconcilerProofs --------------------------
(* What Reconciler promises, for any number of SecretSyncs, target names,   *)
(* keys, vault versions and workers, any failures of the vault and any      *)
(* number of edits, faults and restarts.                                    *)
EXTENDS Reconciler, TLAPS

-----------------------------------------------------------------------------
(* The inductive invariant.  Its parts speak of one SecretSync each, and of *)
(* the state as arguments: obj is the API server's copy, cache and fresh    *)
(* the informer's, w the worker, pairs what has been written, latest the    *)
(* vault's version.                                                         *)

\* A copy is never ahead of what it is a copy of.
Later(old, new) ==
    old # Absent /\ new # Absent
       => /\ old.finalizer => new.finalizer
          /\ old.deleting => new.deleting

\* The cache, read before, has seen a deletion that the worker's copy shows.
Seen(copy, cache) ==
    copy # Absent /\ cache # Absent /\ copy.deleting => cache.deleting

\* An object goes for good before its finalizer is there, or once every copy
\* that carries the finalizer shows the deletion.
Gone(obj, copy) ==
    obj = Absent /\ copy # Absent => copy.deleting \/ ~copy.finalizer

Wrote(pairs, n) == \E v \in Versions : <<n, v>> \in pairs

CopyOK(obj, cache, fresh, w) ==
    /\ fresh => cache = obj
    /\ w.fresh => w.ss = obj
    /\ Later(cache, obj)
    /\ Later(w.ss, obj)
    /\ Seen(w.ss, cache)
    /\ Gone(obj, cache)
    /\ Gone(obj, w.ss)
    /\ obj # Absent /\ obj.deleting => obj.finalizer

\* A Secret controlled by c says what c has written there.
Origin(secret, c, n, pairs) ==
    secret # Absent /\ secret.controller = c => <<n, secret.version>> \in pairs

\* The version a worker holds was read from the vault, after all c has written
\* and, if its copy is fresh, after all c has reported.
VersionOK(w, latest) ==
    /\ w.version \in Versions
    /\ w.version <= latest
    /\ w.fresh /\ w.ss.synced # NoVersion => w.version >= w.ss.synced

SyncOK(w, pairs, latest) ==
    /\ w.pc \in {"finalize", "write"}
          => /\ w.state = "InSync"
             /\ VersionOK(w, latest)
             /\ \A p \in pairs : p[2] <= w.version
    /\ w.pc = "write" => w.ss.finalizer
    /\ w.pc = "status" /\ w.state = "InSync"
          => /\ VersionOK(w, latest)
             /\ <<w.ss.spec.target, w.version>> \in pairs
    /\ w.reason = "SourceDeleted" => Wrote(pairs, w.ss.spec.target)

SweepOK(obj, w, pairs) ==
    /\ w.pc \in {"list", "sweep"} /\ obj # Absent
          => obj.state = "InSync" /\ obj.observed = w.ss.spec
    /\ \A n \in w.todo : n # w.ss.spec.target /\ Wrote(pairs, n)

DeleteOK(w, pairs) ==
    /\ w.pc \in {"lookup", "remove", "release"} => w.ss.deleting
    /\ w.pc \notin {"idle", "lookup", "remove", "release"} => ~w.ss.deleting
    /\ w.pc = "remove" => Wrote(pairs, w.ss.spec.target)

StatusOK(obj, pairs, latest) ==
    /\ \A p \in pairs : p[2] <= latest
    /\ obj # Absent =>
          /\ obj.state = "InSync" => <<obj.observed.target, obj.synced>> \in pairs
          /\ obj.reason = "SourceDeleted" => Wrote(pairs, obj.observed.target)
          /\ obj.synced # NoVersion => obj.synced <= latest

OwnerOK(c) ==
    /\ CopyOK(cr[c], crCache[c], crFresh[c], worker[c])
    /\ Origin(worker[c].existing, c, worker[c].ss.spec.target, written[c])
    /\ SyncOK(worker[c], written[c], vault.version)
    /\ SweepOK(cr[c], worker[c], written[c])
    /\ DeleteOK(worker[c], written[c])
    /\ StatusOK(cr[c], written[c], vault.version)

SecretsOK ==
    \A n \in Names, c \in Owners :
       /\ Origin(sec[n], c, n, written[c])
       /\ Origin(secCache[n], c, n, written[c])

Inv ==
    /\ TypeOK
    /\ SecretsOK
    /\ FinalizerBeforeSecret
    /\ NeverForgotten
    /\ \A c \in Owners : OwnerOK(c)

-----------------------------------------------------------------------------
(* Records. *)

Outcomes == {"", "InSync", "Failing"}
States == {"", "Pending", "InSync", "Failing"}

LEMMA WorkerFields ==
    ASSUME NEW w \in Workers
    PROVE  /\ w.pc \in PCs /\ w.ss \in SecretSyncs \cup {Absent}
           /\ w.fresh \in BOOLEAN /\ w.existing \in Secrets \cup {Absent}
           /\ w.version \in Versions \cup {NoVersion}
           /\ w.state \in Outcomes
           /\ w.reason \in Reasons /\ w.todo \subseteq Names
BY DEF Workers, Outcomes

LEMMA IdleFields ==
    /\ Idle \in Workers
    /\ Idle.pc = "idle" /\ Idle.ss = Absent /\ Idle.fresh = FALSE
    /\ Idle.existing = Absent /\ Idle.version = NoVersion /\ Idle.state = ""
    /\ Idle.reason = "" /\ Idle.todo = {}
BY DEF Idle, Workers, PCs, Reasons

LEMMA SecretSyncFields ==
    ASSUME NEW ss \in SecretSyncs
    PROVE  /\ ss # Absent
           /\ ss.spec \in Specs /\ ss.spec.target \in Names /\ ss.spec.key \in Keys
           /\ ss.deleting \in BOOLEAN /\ ss.finalizer \in BOOLEAN
           /\ ss.state \in States
           /\ ss.reason \in Reasons /\ ss.synced \in Versions \cup {NoVersion}
           /\ ss.observed \in Specs \cup {Absent}
BY NoneAssumption DEF SecretSyncs, Specs, States

LEMMA SweepFields ==
    ASSUME NEW ss \in SecretSyncs
    PROVE  LET k == [Idle EXCEPT !.pc = "list", !.ss = ss]
           IN  /\ k \in Workers /\ k.pc = "list" /\ k.ss = ss /\ k.fresh = FALSE
               /\ k.existing = Absent /\ k.version = NoVersion
               /\ k.state = "" /\ k.reason = "" /\ k.todo = {}
BY DEF Idle, Workers, Reasons, PCs

\* What a worker holds: every field of every copy has its type.
LEMMA Held ==
    ASSUME TypeOK, NEW c \in Owners
    PROVE  /\ cr[c] \in SecretSyncs \cup {Absent}
           /\ crCache[c] \in SecretSyncs \cup {Absent}
           /\ crFresh[c] \in BOOLEAN
           /\ worker[c] \in Workers
           /\ worker[c].ss = Absent <=> worker[c].pc = "idle"
           /\ worker[c].pc # "idle" => worker[c].ss \in SecretSyncs
           /\ worker[c].pc # "idle" => target(c) \in Names /\ key(c) \in Keys
           /\ written[c] \subseteq Names \X Versions
           /\ vault.version \in Versions /\ vault.version \in Nat
<1>1. /\ cr[c] \in SecretSyncs \cup {Absent}
      /\ crCache[c] \in SecretSyncs \cup {Absent}
      /\ crFresh[c] \in BOOLEAN
      /\ worker[c] \in Workers
      /\ worker[c].ss = Absent <=> worker[c].pc = "idle"
      /\ written[c] \subseteq Names \X Versions
      /\ vault.version \in Versions
  BY DEF TypeOK
<1>2. worker[c].pc # "idle" => worker[c].ss \in SecretSyncs
  BY <1>1, WorkerFields
<1>3. worker[c].pc # "idle" => target(c) \in Names /\ key(c) \in Keys
  BY <1>2, SecretSyncFields DEF target, key
<1> QED
  BY <1>1, <1>2, <1>3, ReconcilerAssumption

-----------------------------------------------------------------------------
(* Steps of one SecretSync leave the others alone. *)

LEMMA Frame ==
    ASSUME NEW d \in Owners, OwnerOK(d),
           cr'[d] = cr[d], crCache'[d] = crCache[d], crFresh'[d] = crFresh[d],
           worker'[d] = worker[d], written'[d] = written[d],
           written[d] \subseteq Names \X Versions,
           vault.version \in Nat, vault'.version \in Nat,
           vault.version <= vault'.version,
           cr[d] \in SecretSyncs \cup {Absent}, worker[d] \in Workers
    PROVE  OwnerOK(d)'
<1>1. Versions \subseteq Nat
  BY ReconcilerAssumption
<1>2. /\ SyncOK(worker[d], written[d], vault.version)
      /\ StatusOK(cr[d], written[d], vault.version)
  BY DEF OwnerOK
<1>3. SyncOK(worker[d], written[d], vault'.version)
  <2>0. \A v \in Nat : v <= vault.version => v <= vault'.version
    OBVIOUS
  <2>1. worker[d].version \in Versions /\ worker[d].version <= vault.version
           => worker[d].version <= vault'.version
    BY <1>1, <2>0
  <2>2. VersionOK(worker[d], vault.version) => VersionOK(worker[d], vault'.version)
    BY <2>1 DEF VersionOK
  <2> QED
    BY <1>2, <2>2 DEF SyncOK
<1>4. StatusOK(cr[d], written[d], vault'.version)
  <2>1. \A p \in written[d] : p[2] \in Nat
    BY <1>1
  <2>2. cr[d] # Absent /\ cr[d].synced # NoVersion => cr[d].synced \in Nat
    BY <1>1, SecretSyncFields
  <2> QED
    BY <1>2, <2>1, <2>2 DEF StatusOK
<1> QED
  BY <1>3, <1>4 DEF OwnerOK

\* A step of c's worker, or of a user at c, that writes no Secret.
LEMMA OwnerChanges ==
    ASSUME Inv, NEW c \in Owners,
           NEW w \in Workers, w.ss = Absent <=> w.pc = "idle",
           NEW obj \in SecretSyncs \cup {Absent}, NEW fresh \in BOOLEAN,
           cr' = [cr EXCEPT ![c] = obj],
           crFresh' = [crFresh EXCEPT ![c] = fresh],
           worker' = [worker EXCEPT ![c] = w],
           UNCHANGED <<crCache, secCache, vault, written>>,
           sec' \in [Names -> Secrets \cup {Absent}],
           \A n \in Names : sec'[n] \in {sec[n], Absent},
           queued' \in {queued, queued \ {c}},
           timers' \in {timers, timers \cup {c}},
           budget' \in [edits : Nat, faults : Nat, outages : Nat],
           cr[c] = Absent => obj = Absent,
           Later(cr[c], obj),
           obj # Absent => \/ w.pc # "idle"
                           \/ c \in queued' \cup timers'
                           \/ ~fresh,
           CopyOK(obj, crCache[c], fresh, w),
           Origin(w.existing, c, w.ss.spec.target, written[c]),
           SyncOK(w, written[c], vault.version),
           SweepOK(obj, w, written[c]),
           DeleteOK(w, written[c]),
           StatusOK(obj, written[c], vault.version)
    PROVE  Inv'
<1>1. TypeOK /\ SecretsOK /\ FinalizerBeforeSecret /\ NeverForgotten
  BY DEF Inv
<1>2. /\ cr'[c] = obj /\ crFresh'[c] = fresh /\ worker'[c] = w
      /\ \A d \in Owners \ {c} : /\ cr'[d] = cr[d] /\ crFresh'[d] = crFresh[d]
                                 /\ worker'[d] = worker[d]
  BY <1>1 DEF TypeOK
<1>3. TypeOK'
  <2>1. /\ cr' \in [Owners -> SecretSyncs \cup {Absent}]
        /\ crFresh' \in [Owners -> BOOLEAN]
        /\ worker' \in [Owners -> Workers]
    BY <1>1 DEF TypeOK
  <2>2. \A d \in Owners : worker'[d].ss = Absent <=> worker'[d].pc = "idle"
    BY <1>1, <1>2 DEF TypeOK
  <2>3. queued' \subseteq Owners /\ timers' \subseteq Owners
    BY <1>1 DEF TypeOK
  <2> QED
    BY <1>1, <2>1, <2>2, <2>3 DEF TypeOK
<1>4. SecretsOK'
  BY <1>1 DEF SecretsOK, Origin
<1>5. FinalizerBeforeSecret'
  <2> SUFFICES ASSUME NEW n \in Names, NEW d \in Owners, sec'[n] # Absent,
                      sec'[n].controller = d, cr'[d] # Absent
               PROVE  cr'[d].finalizer
    BY DEF FinalizerBeforeSecret
  <2>1. sec[n] # Absent /\ sec[n].controller = d /\ cr[d] # Absent
    BY <1>2
  <2>2. cr[d].finalizer
    BY <1>1, <2>1 DEF FinalizerBeforeSecret
  <2> QED
    BY <1>2, <2>1, <2>2 DEF Later
<1>6. NeverForgotten'
  BY <1>1, <1>2 DEF NeverForgotten
<1>7. ASSUME NEW d \in Owners
      PROVE  OwnerOK(d)'
  <2>1. CASE d = c
    BY <1>2, <2>1 DEF OwnerOK
  <2>2. CASE d # c
    BY <1>1, <1>2, <2>2, Frame, Held DEF Inv
  <2> QED
    BY <2>1, <2>2
<1> QED
  BY <1>3, <1>4, <1>5, <1>6, <1>7 DEF Inv

\* The same, when the API server's copy of c stays as it is.
LEMMA WorkerMoves ==
    ASSUME Inv, NEW c \in Owners,
           NEW w \in Workers, w.ss = Absent <=> w.pc = "idle",
           worker' = [worker EXCEPT ![c] = w],
           UNCHANGED <<cr, crFresh, crCache, secCache, vault, written>>,
           sec' \in [Names -> Secrets \cup {Absent}],
           \A n \in Names : sec'[n] \in {sec[n], Absent},
           queued' \in {queued, queued \ {c}},
           timers' \in {timers, timers \cup {c}},
           w.pc = "idle" => c \in timers',
           budget' \in [edits : Nat, faults : Nat, outages : Nat],
           w.fresh => w.ss = cr[c],
           Later(w.ss, cr[c]), Seen(w.ss, crCache[c]), Gone(cr[c], w.ss),
           Origin(w.existing, c, w.ss.spec.target, written[c]),
           SyncOK(w, written[c], vault.version),
           SweepOK(cr[c], w, written[c]),
           DeleteOK(w, written[c])
    PROVE  Inv'
<1>1. TypeOK /\ OwnerOK(c)
  BY DEF Inv
<1>2. /\ cr[c] \in SecretSyncs \cup {Absent} /\ crFresh[c] \in BOOLEAN
      /\ cr' = [cr EXCEPT ![c] = cr[c]]
      /\ crFresh' = [crFresh EXCEPT ![c] = crFresh[c]]
  BY <1>1 DEF TypeOK
<1>3. Later(cr[c], cr[c])
  BY DEF Later
<1>4. /\ CopyOK(cr[c], crCache[c], crFresh[c], w)
      /\ StatusOK(cr[c], written[c], vault.version)
  BY <1>1 DEF OwnerOK, CopyOK
<1> QED
  BY <1>2, <1>3, <1>4, OwnerChanges

\* Reconcile returns, with a timer set.
LEMMA Requeued ==
    ASSUME Inv, NEW c \in Owners, ReturnRequeue(c),
           UNCHANGED <<cr, crFresh, crCache, secCache, vault, queued, written>>,
           sec' \in [Names -> Secrets \cup {Absent}],
           \A n \in Names : sec'[n] \in {sec[n], Absent},
           budget' \in [edits : Nat, faults : Nat, outages : Nat]
    PROVE  Inv'
<1>1. /\ Idle \in Workers /\ (Idle.ss = Absent <=> Idle.pc = "idle")
      /\ Idle.fresh => Idle.ss = cr[c]
      /\ Later(Idle.ss, cr[c]) /\ Seen(Idle.ss, crCache[c]) /\ Gone(cr[c], Idle.ss)
      /\ Origin(Idle.existing, c, Idle.ss.spec.target, written[c])
      /\ SyncOK(Idle, written[c], vault.version)
      /\ SweepOK(cr[c], Idle, written[c])
      /\ DeleteOK(Idle, written[c])
  BY IdleFields DEF Later, Seen, Gone, Origin, SyncOK, SweepOK, DeleteOK
<1>2. /\ worker' = [worker EXCEPT ![c] = Idle]
      /\ timers' \in {timers, timers \cup {c}} /\ c \in timers'
      /\ queued' \in {queued, queued \ {c}}
  BY DEF ReturnRequeue
<1> QED
  BY <1>1, <1>2, WorkerMoves

\* What OwnerChanges and its like ask of a step that leaves Secrets alone.
LEMMA SecretsStay ==
    ASSUME Inv, UNCHANGED sec
    PROVE  /\ sec' \in [Names -> Secrets \cup {Absent}]
           /\ \A n \in Names : sec'[n] \in {sec[n], Absent}
BY DEF Inv, TypeOK

LEMMA BudgetStays ==
    ASSUME Inv, UNCHANGED budget
    PROVE  budget' \in [edits : Nat, faults : Nat, outages : Nat]
BY DEF Inv, TypeOK

LEMMA FaultSpent ==
    ASSUME Inv, budget.faults > 0, budget' = [budget EXCEPT !.faults = @ - 1]
    PROVE  budget' \in [edits : Nat, faults : Nat, outages : Nat]
BY DEF Inv, TypeOK

LEMMA StaleStep ==
    ASSUME Inv, NEW c \in Owners, StaleWrite(c),
           UNCHANGED <<vault, queued, written, budget>>
    PROVE  Inv'
<1>1. /\ ReturnRequeue(c)
      /\ UNCHANGED <<cr, crFresh, crCache, sec, secCache, vault, queued, written>>
  BY DEF StaleWrite, cluster
<1> QED
  BY <1>1, SecretsStay, BudgetStays, Requeued

LEMMA CallFailsStep ==
    ASSUME Inv, NEW c \in Owners, callFails(c)
    PROVE  Inv'
<1>1. /\ ReturnRequeue(c) /\ budget.faults > 0
      /\ budget' = [budget EXCEPT !.faults = @ - 1]
      /\ UNCHANGED <<cr, crFresh, crCache, sec, secCache, vault, queued, written>>
  BY DEF callFails, cluster
<1> QED
  BY <1>1, SecretsStay, FaultSpent, Requeued

-----------------------------------------------------------------------------
(* The steps of a reconcile. *)

LEMMA ReconcileStep ==
    ASSUME Inv, NEW c \in Owners, Reconcile(c)
    PROVE  Inv'
<1>1. TypeOK /\ OwnerOK(c)
  BY DEF Inv
<1>2. /\ UNCHANGED <<cr, crFresh, crCache, sec, secCache, vault, timers, written>>
      /\ UNCHANGED budget /\ queued' = queued \ {c}
  BY DEF Reconcile, cluster
<1> DEFINE ss == crCache[c]
           k(pc) == [Idle EXCEPT !.pc = pc, !.ss = ss, !.fresh = crFresh[c]]
<1>3. CASE UNCHANGED worker /\ (ss = Absent \/ (ss.deleting /\ ~ss.finalizer))
  <2>1. crFresh[c] => cr[c] = Absent
    BY <1>1, <1>3 DEF OwnerOK, CopyOK
  <2>2. NeverForgotten'
    BY <1>2, <1>3, <2>1 DEF Inv, NeverForgotten
  <2>3. /\ TypeOK' /\ SecretsOK' /\ FinalizerBeforeSecret'
        /\ \A d \in Owners : OwnerOK(d)'
    BY <1>2, <1>3 DEF Inv, TypeOK, SecretsOK, FinalizerBeforeSecret, OwnerOK
  <2> QED
    BY <2>2, <2>3 DEF Inv
<1>4. ASSUME NEW pc \in {"lookup", "pending", "claim"}, ss # Absent,
             pc = "lookup" => ss.deleting, pc # "lookup" => ~ss.deleting,
             worker' = [worker EXCEPT ![c] = k(pc)]
      PROVE  Inv'
  <2>1. ss \in SecretSyncs /\ crFresh[c] \in BOOLEAN /\ pc \in PCs
    BY <1>1, <1>4, Held DEF PCs
  <2>2. /\ k(pc) \in Workers /\ k(pc).pc = pc /\ k(pc).ss = ss
        /\ k(pc).fresh = crFresh[c] /\ k(pc).existing = Absent
        /\ k(pc).version = NoVersion /\ k(pc).state = "" /\ k(pc).reason = ""
        /\ k(pc).todo = {}
    BY <2>1 DEF Idle, Workers, Reasons
  <2> HIDE DEF k
  <2>3. /\ k(pc).fresh => k(pc).ss = cr[c]
        /\ Later(k(pc).ss, cr[c]) /\ Seen(k(pc).ss, crCache[c]) /\ Gone(cr[c], k(pc).ss)
    BY <1>1, <2>2 DEF OwnerOK, CopyOK, Seen
  <2>4. /\ Origin(k(pc).existing, c, k(pc).ss.spec.target, written[c])
        /\ SyncOK(k(pc), written[c], vault.version)
        /\ SweepOK(cr[c], k(pc), written[c])
        /\ DeleteOK(k(pc), written[c])
    BY <1>4, <2>2 DEF Origin, SyncOK, SweepOK, DeleteOK
  <2>5. (k(pc).ss = Absent <=> k(pc).pc = "idle") /\ k(pc).pc # "idle"
    BY <1>4, <2>2
  <2> QED
    BY <1>2, <1>4, <2>2, <2>3, <2>4, <2>5, SecretsStay, BudgetStays, WorkerMoves
<1>5. \/ UNCHANGED worker /\ (ss = Absent \/ (ss.deleting /\ ~ss.finalizer))
      \/ ss # Absent /\ ss.deleting /\ worker' = [worker EXCEPT ![c] = k("lookup")]
      \/ ss # Absent /\ ~ss.deleting /\ worker' = [worker EXCEPT ![c] = k("pending")]
      \/ ss # Absent /\ ~ss.deleting /\ worker' = [worker EXCEPT ![c] = k("claim")]
  BY Zenon DEF Reconcile
<1> HIDE DEF k
<1> QED
  BY <1>3, <1>4, <1>5

\* c's new revision, as the worker stores it, is a later one.
LEMMA StoreStep ==
    ASSUME Inv, NEW c \in Owners, worker[c].pc \in {"pending", "finalize"},
           worker[c].fresh,
           NEW obj \in SecretSyncs, NEW pc \in PCs \ {"idle"},
           StoreOwn(c, obj, pc), UNCHANGED <<vault, queued, written, budget>>,
           obj.spec = worker[c].ss.spec, obj.deleting = worker[c].ss.deleting,
           worker[c].ss.finalizer => obj.finalizer,
           obj.synced = worker[c].ss.synced,
           obj.state = "InSync" => worker[c].ss.state = "InSync",
           obj.observed = worker[c].ss.observed,
           obj.reason = worker[c].ss.reason,
           pc \notin {"lookup", "remove", "release", "list", "sweep"},
           SyncOK([worker[c] EXCEPT !.ss = obj, !.pc = pc], written[c], vault.version)
    PROVE  Inv'
<1> DEFINE w == worker[c]
           k == [w EXCEPT !.ss = obj, !.pc = pc]
<1>1. TypeOK /\ OwnerOK(c)
  BY DEF Inv
<1>2. w \in Workers /\ w.ss = cr[c] /\ w.ss \in SecretSyncs /\ w.ss # Absent
  BY <1>1, Held, SecretSyncFields DEF OwnerOK, CopyOK
<1>3. /\ k \in Workers /\ k.pc = pc /\ k.ss = obj /\ k.fresh = w.fresh
      /\ k.existing = w.existing /\ k.todo = w.todo
  BY <1>2 DEF Workers
<1> HIDE DEF k
<1>4. obj # Absent
  BY NoneAssumption
<1>5. CopyOK(obj, crCache[c], FALSE, k) /\ Later(cr[c], obj)
  BY <1>1, <1>2, <1>3, <1>4 DEF OwnerOK, CopyOK, Later, Seen, Gone
<1>6. /\ Origin(k.existing, c, k.ss.spec.target, written[c])
      /\ SweepOK(obj, k, written[c])
      /\ DeleteOK(k, written[c])
      /\ StatusOK(obj, written[c], vault.version)
  BY <1>1, <1>2, <1>3 DEF OwnerOK, Origin, SweepOK, DeleteOK, StatusOK
<1>7. /\ cr' = [cr EXCEPT ![c] = obj]
      /\ crFresh' = [crFresh EXCEPT ![c] = FALSE]
      /\ worker' = [worker EXCEPT ![c] = k]
      /\ UNCHANGED <<crCache, sec, secCache, timers>>
  BY DEF StoreOwn, k
<1>8. SyncOK(k, written[c], vault.version)
  BY DEF k
<1>9. (k.ss = Absent <=> k.pc = "idle") /\ k.pc # "idle"
  BY <1>3, <1>4
<1> QED
  BY <1>2, <1>3, <1>5, <1>6, <1>7, <1>8, <1>9, SecretsStay, BudgetStays, OwnerChanges

LEMMA SetPendingStep ==
    ASSUME Inv, NEW c \in Owners, setPending(c)
    PROVE  Inv'
<1>1. TypeOK /\ OwnerOK(c) /\ worker[c].pc = "pending"
  BY DEF Inv, setPending
<1>2. worker[c].ss \in SecretSyncs /\ worker[c] \in Workers
  BY <1>1, Held
<1>3. UNCHANGED <<vault, queued, written, budget>>
  BY DEF setPending
<1>4. CASE StaleWrite(c)
  BY <1>3, <1>4, StaleStep
<1> DEFINE obj == [worker[c].ss EXCEPT !.state = "Pending"]
           k == [worker[c] EXCEPT !.ss = obj, !.pc = "claim"]
<1>5. CASE worker[c].fresh /\ StoreOwn(c, obj, "claim")
  <2>1. /\ obj \in SecretSyncs /\ obj.spec = worker[c].ss.spec
        /\ obj.deleting = worker[c].ss.deleting
        /\ obj.finalizer = worker[c].ss.finalizer
        /\ obj.synced = worker[c].ss.synced /\ obj.state = "Pending"
        /\ obj.observed = worker[c].ss.observed /\ obj.reason = worker[c].ss.reason
    BY <1>2 DEF SecretSyncs
  <2> HIDE DEF obj
  <2>2. k.pc = "claim" /\ k.ss = obj /\ k.reason = worker[c].reason
    BY <1>2 DEF Workers
  <2>3. SyncOK(k, written[c], vault.version)
    BY <1>1, <2>1, <2>2 DEF SyncOK, OwnerOK
  <2>4. "claim" \in PCs \ {"idle"}
    BY DEF PCs
  <2> QED
    BY <1>1, <1>3, <1>5, <2>1, <2>3, <2>4, StoreStep
<1> QED
  BY <1>4, <1>5 DEF setPending

\* A reconcile that fails, short of its write, has nothing left to do but say so.
LEMMA FailureStep ==
    ASSUME Inv, NEW c \in Owners,
           worker[c].pc \in {"claim", "read", "vault", "write"},
           NEW reason \in Reasons, Report(c, "Failing", reason, NoVersion),
           reason = "SourceDeleted" => Wrote(written[c], target(c)),
           UNCHANGED <<cr, crFresh, crCache, sec, secCache, vault, queued, written>>,
           budget' \in [edits : Nat, faults : Nat, outages : Nat]
    PROVE  Inv'
<1> DEFINE w == worker[c]
           k == [w EXCEPT !.pc = "status", !.existing = Absent,
                          !.state = "Failing", !.reason = reason,
                          !.version = NoVersion]
<1>1. TypeOK /\ OwnerOK(c)
  BY DEF Inv
<1>2. w \in Workers /\ w.ss \in SecretSyncs /\ w.ss # Absent
  BY <1>1, Held, SecretSyncFields
<1>3. /\ k \in Workers /\ k.pc = "status" /\ k.ss = w.ss /\ k.fresh = w.fresh
      /\ k.existing = Absent /\ k.state = "Failing" /\ k.reason = reason
      /\ k.todo = w.todo
  BY <1>2 DEF Workers, PCs
<1>4. worker' = [worker EXCEPT ![c] = k] /\ timers' = timers
  BY DEF Report
<1> HIDE DEF k
<1>5. /\ k.fresh => k.ss = cr[c]
      /\ Later(k.ss, cr[c]) /\ Seen(k.ss, crCache[c]) /\ Gone(cr[c], k.ss)
  BY <1>1, <1>3 DEF OwnerOK, CopyOK
<1>6. /\ Origin(k.existing, c, k.ss.spec.target, written[c])
      /\ SyncOK(k, written[c], vault.version)
      /\ SweepOK(cr[c], k, written[c])
      /\ DeleteOK(k, written[c])
  BY <1>1, <1>3 DEF OwnerOK, Origin, SyncOK, SweepOK, DeleteOK, target
<1>7. (k.ss = Absent <=> k.pc = "idle") /\ k.pc # "idle"
  BY <1>2, <1>3
<1> QED
  BY <1>3, <1>4, <1>5, <1>6, <1>7, SecretsStay, WorkerMoves

\* Going on with the same locals.
LEMMA GotoStep ==
    ASSUME Inv, NEW c \in Owners, worker[c].pc # "idle",
           NEW pc \in {"read", "remove", "release"}, Goto(c, pc),
           UNCHANGED <<cr, crFresh, crCache, secCache, vault, queued, written, budget>>,
           sec' \in [Names -> Secrets \cup {Absent}],
           \A n \in Names : sec'[n] \in {sec[n], Absent},
           pc # "read" => worker[c].ss.deleting,
           pc = "read" => ~worker[c].ss.deleting,
           pc = "remove" => Wrote(written[c], target(c))
    PROVE  Inv'
<1> DEFINE w == worker[c]
           k == [w EXCEPT !.pc = pc]
<1>1. TypeOK /\ OwnerOK(c)
  BY DEF Inv
<1>2. w \in Workers /\ w.ss \in SecretSyncs /\ w.ss # Absent /\ pc \in PCs
  BY <1>1, Held, SecretSyncFields DEF PCs
<1>3. /\ k \in Workers /\ k.pc = pc /\ k.ss = w.ss /\ k.fresh = w.fresh
      /\ k.existing = w.existing /\ k.reason = w.reason /\ k.todo = w.todo
  BY <1>2 DEF Workers
<1>4. worker' = [worker EXCEPT ![c] = k] /\ timers' = timers
  BY DEF Goto
<1> HIDE DEF k
<1>5. /\ k.fresh => k.ss = cr[c]
      /\ Later(k.ss, cr[c]) /\ Seen(k.ss, crCache[c]) /\ Gone(cr[c], k.ss)
  BY <1>1, <1>3 DEF OwnerOK, CopyOK
<1>6. /\ Origin(k.existing, c, k.ss.spec.target, written[c])
      /\ SyncOK(k, written[c], vault.version)
      /\ SweepOK(cr[c], k, written[c])
      /\ DeleteOK(k, written[c])
  BY <1>1, <1>3 DEF OwnerOK, Origin, SyncOK, SweepOK, DeleteOK, target
<1>7. (k.ss = Absent <=> k.pc = "idle") /\ k.pc # "idle"
  BY <1>2, <1>3
<1> QED
  BY <1>3, <1>4, <1>5, <1>6, <1>7, BudgetStays, WorkerMoves

LEMMA CheckClaimStep ==
    ASSUME Inv, NEW c \in Owners, checkClaim(c)
    PROVE  Inv'
<1>1. /\ UNCHANGED <<cr, crFresh, crCache, sec, secCache, vault, queued, written>>
      /\ UNCHANGED budget /\ worker[c].pc = "claim"
  BY DEF checkClaim, cluster
<1>2. CASE Report(c, "Failing", "TargetConflict", NoVersion)
  <2>1. "TargetConflict" \in Reasons /\ "TargetConflict" # "SourceDeleted"
    BY DEF Reasons
  <2> QED
    BY <1>1, <1>2, <2>1, BudgetStays, FailureStep
<1>3. CASE Goto(c, "read")
  <2>1. ~worker[c].ss.deleting
    BY <1>1 DEF Inv, OwnerOK, DeleteOK
  <2> QED
    BY <1>1, <1>3, <2>1, SecretsStay, GotoStep
<1> QED
  BY <1>2, <1>3 DEF checkClaim

LEMMA ReadTargetStep ==
    ASSUME Inv, NEW c \in Owners, readTarget(c)
    PROVE  Inv'
<1> DEFINE w == worker[c]
           existing == secCache[target(c)]
           k == [w EXCEPT !.pc = "vault", !.existing = existing]
<1>1. /\ UNCHANGED <<cr, crFresh, crCache, sec, secCache, vault, queued, written>>
      /\ UNCHANGED budget /\ worker[c].pc = "read"
  BY DEF readTarget, cluster
<1>2. TypeOK /\ SecretsOK /\ OwnerOK(c)
  BY DEF Inv
<1>3. CASE Report(c, "Failing", "TargetConflict", NoVersion)
  <2>1. "TargetConflict" \in Reasons /\ "TargetConflict" # "SourceDeleted"
    BY DEF Reasons
  <2> QED
    BY <1>1, <1>3, <2>1, BudgetStays, FailureStep
<1>4. CASE worker' = [worker EXCEPT ![c] = k] /\ timers' = timers
  <2>1. /\ w \in Workers /\ w.ss \in SecretSyncs /\ w.ss # Absent
        /\ target(c) \in Names
    BY <1>1, <1>2, Held, SecretSyncFields
  <2>2. existing \in Secrets \cup {Absent}
    BY <1>2, <2>1 DEF TypeOK
  <2>3. Origin(existing, c, target(c), written[c])
    BY <1>2, <2>1 DEF SecretsOK
  <2> HIDE DEF existing
  <2>4. /\ k \in Workers /\ k.pc = "vault" /\ k.ss = w.ss /\ k.fresh = w.fresh
        /\ k.existing = existing /\ k.reason = w.reason /\ k.todo = w.todo
    BY <2>1, <2>2 DEF Workers, PCs
  <2> HIDE DEF k
  <2>5. /\ k.fresh => k.ss = cr[c]
        /\ Later(k.ss, cr[c]) /\ Seen(k.ss, crCache[c]) /\ Gone(cr[c], k.ss)
    BY <1>2, <2>4 DEF OwnerOK, CopyOK
  <2>6. /\ Origin(k.existing, c, k.ss.spec.target, written[c])
        /\ SyncOK(k, written[c], vault.version)
        /\ SweepOK(cr[c], k, written[c])
        /\ DeleteOK(k, written[c])
    BY <1>1, <1>2, <2>3, <2>4 DEF OwnerOK, SyncOK, SweepOK, DeleteOK, target
  <2>7. (k.ss = Absent <=> k.pc = "idle") /\ k.pc # "idle"
    BY <2>1, <2>4
  <2> QED
    BY <1>1, <1>4, <2>4, <2>5, <2>6, <2>7, SecretsStay, BudgetStays, WorkerMoves
<1> QED
  BY <1>3, <1>4 DEF readTarget

\* Where Sync leads without a write, the Secret it saw is c's own and current.
LEMMA SkipEarned ==
    ASSUME Inv, NEW c \in Owners, NEW version
    PROVE  /\ AfterSync(c, version) \in {"write", "status"}
           /\ AfterSync(c, version) = "status"
                 => <<target(c), version>> \in written[c]
BY DEF Inv, OwnerOK, Origin, AfterSync, WriteGate, ControllerOwnedBy, target

\* What GetLatest returns with a value is the vault's latest version.
LEMMA ReadNamed ==
    ASSUME TypeOK, Read = "ok"
    PROVE  ReadVersion = vault.version
<1>1. vault.answer \in {Served} \cup Outages
  BY DEF TypeOK
<1>2. Served.id
  BY DEF Served
<1> QED
  BY <1>1, <1>2, NamedAssumption DEF Read, ReadVersion

LEMMA SyncFromVaultStep ==
    ASSUME Inv, NEW c \in Owners, syncFromVault(c)
    PROVE  Inv'
<1> DEFINE w == worker[c]
           pc == IF w.ss.finalizer THEN AfterSync(c, vault.version) ELSE "finalize"
           k == [w EXCEPT !.state = "InSync", !.version = vault.version, !.pc = pc]
<1>1. /\ UNCHANGED <<cr, crFresh, crCache, sec, secCache, vault, queued, written>>
      /\ UNCHANGED budget /\ worker[c].pc = "vault"
  BY DEF syncFromVault, cluster
<1>2. TypeOK /\ SecretsOK /\ OwnerOK(c)
  BY DEF Inv
<1>3. ASSUME NEW reason, reason = classifyReaderError(Read, Managed(w.existing, c)),
             Report(c, "Failing", reason, NoVersion)
      PROVE  Inv'
  <2>1. reason \in Reasons
    BY <1>3 DEF classifyReaderError, Reasons
  <2>2. reason = "SourceDeleted" => Managed(w.existing, c)
    BY <1>3 DEF classifyReaderError
  <2>3. Managed(w.existing, c) => Wrote(written[c], target(c))
    <3>1. Origin(w.existing, c, target(c), written[c])
      BY <1>2 DEF OwnerOK, target
    <3>2. written[c] \subseteq Names \X Versions
      BY <1>2, Held
    <3> QED
      BY <3>1, <3>2 DEF Managed, ControllerOwnedBy, Origin, Wrote
  <2> QED
    BY <1>1, <1>3, <2>1, <2>2, <2>3, BudgetStays, FailureStep
<1>4. CASE worker' = [worker EXCEPT ![c] = k] /\ timers' = timers
  <2>1. /\ w \in Workers /\ w.ss \in SecretSyncs /\ w.ss # Absent
        /\ vault.version \in Versions /\ vault.version \in Nat
        /\ cr[c] \in SecretSyncs \cup {Absent}
    BY <1>1, <1>2, Held, SecretSyncFields
  <2>2. /\ pc \in {"finalize", "write", "status"}
        /\ pc = "write" => w.ss.finalizer
        /\ pc = "status" => <<target(c), vault.version>> \in written[c]
    BY SkipEarned
  <2> HIDE DEF pc
  <2>3. /\ k \in Workers /\ k.pc = pc /\ k.ss = w.ss /\ k.fresh = w.fresh
        /\ k.version = vault.version /\ k.state = "InSync"
        /\ k.existing = w.existing /\ k.reason = w.reason /\ k.todo = w.todo
    BY <2>1, <2>2 DEF Workers, PCs
  <2> HIDE DEF k
  <2>4. /\ k.fresh => k.ss = cr[c]
        /\ Later(k.ss, cr[c]) /\ Seen(k.ss, crCache[c]) /\ Gone(cr[c], k.ss)
    BY <1>2, <2>3 DEF OwnerOK, CopyOK
  <2>5. VersionOK(k, vault.version) /\ \A p \in written[c] : p[2] <= k.version
    <3>1. StatusOK(cr[c], written[c], vault.version)
      BY <1>2 DEF OwnerOK
    <3>2. k.fresh /\ k.ss.synced # NoVersion => k.ss.synced <= vault.version
      BY <2>1, <2>3, <2>4, <3>1 DEF StatusOK
    <3>3. k.ss.synced \in Versions \cup {NoVersion}
      BY <2>1, <2>3, SecretSyncFields
    <3>4. k.fresh /\ k.ss.synced # NoVersion => k.version >= k.ss.synced
      BY <2>1, <2>3, <3>2, <3>3, ReconcilerAssumption
    <3> QED
      BY <2>1, <2>3, <3>1, <3>4 DEF VersionOK, StatusOK
  <2>6. SyncOK(k, written[c], vault.version)
    BY <1>2, <2>2, <2>3, <2>5 DEF OwnerOK, SyncOK, target
  <2>7. /\ Origin(k.existing, c, k.ss.spec.target, written[c])
        /\ SweepOK(cr[c], k, written[c])
        /\ DeleteOK(k, written[c])
    BY <1>1, <1>2, <2>2, <2>3 DEF OwnerOK, SweepOK, DeleteOK
  <2>8. (k.ss = Absent <=> k.pc = "idle") /\ k.pc # "idle"
    BY <2>1, <2>2, <2>3
  <2> QED
    BY <1>1, <1>4, <2>3, <2>4, <2>6, <2>7, <2>8, SecretsStay, BudgetStays, WorkerMoves
<1>5. CASE Read # "ok"
  BY <1>3, <1>5 DEF syncFromVault
<1>6. CASE Read = "ok"
  <2>1. ReadVersion = vault.version
    BY <1>2, <1>6, ReadNamed
  <2> QED
    BY <1>4, <1>6, <2>1 DEF syncFromVault
<1> QED
  BY <1>5, <1>6

LEMMA AddFinalizerStep ==
    ASSUME Inv, NEW c \in Owners, addFinalizer(c)
    PROVE  Inv'
<1>1. TypeOK /\ OwnerOK(c) /\ worker[c].pc = "finalize"
  BY DEF Inv, addFinalizer
<1>2. worker[c].ss \in SecretSyncs /\ worker[c] \in Workers
  BY <1>1, Held
<1>3. UNCHANGED <<vault, queued, written, budget>>
  BY DEF addFinalizer
<1>4. CASE StaleWrite(c)
  BY <1>3, <1>4, StaleStep
<1> DEFINE obj == [worker[c].ss EXCEPT !.finalizer = TRUE]
           pc == AfterSync(c, worker[c].version)
           k == [worker[c] EXCEPT !.ss = obj, !.pc = pc]
<1>5. CASE worker[c].fresh /\ StoreOwn(c, obj, pc)
  <2>1. /\ obj \in SecretSyncs /\ obj.spec = worker[c].ss.spec
        /\ obj.deleting = worker[c].ss.deleting /\ obj.finalizer = TRUE
        /\ obj.synced = worker[c].ss.synced /\ obj.state = worker[c].ss.state
        /\ obj.observed = worker[c].ss.observed /\ obj.reason = worker[c].ss.reason
    BY <1>2 DEF SecretSyncs
  <2>2. /\ pc \in {"write", "status"} /\ pc \in PCs \ {"idle"}
        /\ pc = "status" => <<target(c), worker[c].version>> \in written[c]
    BY SkipEarned DEF PCs
  <2> HIDE DEF obj, pc
  <2>3. /\ k.pc = pc /\ k.ss = obj /\ k.reason = worker[c].reason
        /\ k.version = worker[c].version /\ k.state = worker[c].state
        /\ k.fresh = worker[c].fresh
    BY <1>2 DEF Workers
  <2> HIDE DEF k
  <2>4. VersionOK(worker[c], vault.version) /\ \A p \in written[c] : p[2] <= k.version
    BY <1>1, <2>3 DEF OwnerOK, SyncOK
  <2>5. VersionOK(k, vault.version)
    BY <2>1, <2>3, <2>4 DEF VersionOK
  <2>6. SyncOK(k, written[c], vault.version)
    BY <1>1, <2>1, <2>2, <2>3, <2>4, <2>5 DEF SyncOK, OwnerOK, target
  <2>7. SyncOK([worker[c] EXCEPT !.ss = obj, !.pc = pc], written[c], vault.version)
    BY <2>6 DEF k
  <2> QED
    BY <1>1, <1>3, <1>5, <2>1, <2>2, <2>7, StoreStep
<1> QED
  BY <1>4, <1>5 DEF addFinalizer

LEMMA CommittedFields ==
    ASSUME NEW occupant \in Secrets \cup {Absent}, NEW c \in Owners, NEW k \in Keys,
           NEW value \in Values, NEW version \in Versions
    PROVE  /\ Committed(occupant, c, k, value, version) \in Secrets
           /\ Committed(occupant, c, k, value, version) # Absent
           /\ Committed(occupant, c, k, value, version).controller = c
           /\ Committed(occupant, c, k, value, version).version = version
<1>1. DataOf(k, value) \in DataMaps
  <2>1. DataOf(k, value) \in [{k} -> Values] /\ {k} \in SUBSET Keys
    BY DEF DataOf
  <2> QED
    BY <2>1 DEF DataMaps
<1>2. c \in Controllers
  BY OwnersAssumption
<1>3. CASE occupant = Absent
  <2>1. LET s == newManagedSecret(c, k, value, version)
        IN  s \in Secrets /\ s.controller = c /\ s.version = version
    BY <1>1, <1>2 DEF newManagedSecret, Secrets
  <2> QED
    BY <1>3, <2>1, AbsentAssumption DEF Committed
<1>4. CASE occupant # Absent
  <2>1. occupant \in Secrets
    BY <1>4
  <2>2. LET s == populateManagedSecret(occupant, c, k, value, version)
        IN  s \in Secrets /\ s.controller = c /\ s.version = version
    BY <1>1, <1>2, <2>1 DEF populateManagedSecret, Secrets
  <2> QED
    BY <1>4, <2>2, AbsentAssumption DEF Committed
<1> QED
  BY <1>3, <1>4

\* The write of c's worker is applied.
Commits(c) ==
    /\ sec' = [sec EXCEPT ![target(c)] = Committed(@, c, key(c),
                  ValueOf[worker[c].version], worker[c].version)]
    /\ written' = [written EXCEPT ![c] = @ \cup {<<target(c), worker[c].version>>}]

\* The Secret is written, whatever the answer that reaches the reconciler.
LEMMA CommitStep ==
    ASSUME Inv, NEW c \in Owners, worker[c].pc = "write",
           Commits(c),
           NEW reason \in Reasons \ {"SourceDeleted"},
           \/ Report(c, "InSync", reason, worker[c].version)
           \/ Report(c, "Failing", reason, NoVersion),
           UNCHANGED <<cr, crCache, crFresh, secCache, vault, queued>>,
           budget' \in [edits : Nat, faults : Nat, outages : Nat]
    PROVE  Inv'
<1> DEFINE w == worker[c]
           n0 == target(c)
           new == Committed(sec[n0], c, key(c), ValueOf[w.version], w.version)
<1>1. TypeOK /\ SecretsOK /\ FinalizerBeforeSecret /\ NeverForgotten /\ OwnerOK(c)
  BY DEF Inv
<1>2. /\ w \in Workers /\ w.ss \in SecretSyncs /\ w.ss # Absent
      /\ n0 \in Names /\ key(c) \in Keys /\ w.ss.spec.target = n0
      /\ written[c] \subseteq Names \X Versions
  BY <1>1, Held, SecretSyncFields DEF target
<1>3. /\ VersionOK(w, vault.version) /\ w.ss.finalizer
      /\ \A p \in written[c] : p[2] <= w.version
  BY <1>1 DEF OwnerOK, SyncOK
<1>4. w.version \in Versions /\ w.version <= vault.version
  BY <1>3 DEF VersionOK
<1>5. /\ new \in Secrets /\ new # Absent /\ new.controller = c
      /\ new.version = w.version
  <2>1. sec[n0] \in Secrets \cup {Absent} /\ ValueOf[w.version] \in Values
    BY <1>1, <1>2, <1>4, ReconcilerAssumption DEF TypeOK
  <2> QED
    BY <1>2, <1>4, <2>1, CommittedFields
<1> HIDE DEF new
<1>6. /\ sec' = [sec EXCEPT ![n0] = new]
      /\ written' = [written EXCEPT ![c] = written[c] \cup {<<n0, w.version>>}]
  BY DEF new, Commits
<1> HIDE DEF n0
<1>7. /\ sec'[n0] = new /\ \A n \in Names \ {n0} : sec'[n] = sec[n]
      /\ sec' \in [Names -> Secrets \cup {Absent}]
  <2>1. sec \in [Names -> Secrets \cup {Absent}]
    BY <1>1 DEF TypeOK
  <2> QED
    BY <1>2, <1>5, <1>6, <2>1
<1>8. /\ written'[c] = written[c] \cup {<<n0, w.version>>}
      /\ \A d \in Owners \ {c} : written'[d] = written[d]
      /\ \A d \in Owners : written[d] \subseteq written'[d]
      /\ written' \in [Owners -> SUBSET (Names \X Versions)]
  <2>1. written \in [Owners -> SUBSET (Names \X Versions)]
    BY <1>1 DEF TypeOK
  <2>2. written[c] \cup {<<n0, w.version>>} \in SUBSET (Names \X Versions)
    <3>1. <<n0, w.version>> \in Names \X Versions
      BY <1>2, <1>4
    <3> QED
      BY <1>2, <3>1
  <2> QED
    BY <1>6, <2>1, <2>2
<1>9. PICK k \in Workers :
         /\ worker' = [worker EXCEPT ![c] = k]
         /\ k.pc = "status" /\ k.ss = w.ss /\ k.fresh = w.fresh
         /\ k.existing = Absent /\ k.todo = w.todo
         /\ k.reason # "SourceDeleted"
         /\ k.state = "InSync" => k.version = w.version
  <2>1. CASE Report(c, "InSync", reason, w.version)
    <3> DEFINE k == [w EXCEPT !.pc = "status", !.existing = Absent,
                        !.state = "InSync", !.reason = reason, !.version = w.version]
    <3>1. /\ k \in Workers /\ k.pc = "status" /\ k.ss = w.ss /\ k.fresh = w.fresh
          /\ k.existing = Absent /\ k.todo = w.todo
          /\ k.reason # "SourceDeleted" /\ k.version = w.version
      BY <1>2, <1>4 DEF Workers, PCs
    <3>2. worker' = [worker EXCEPT ![c] = k]
      BY <2>1 DEF Report
    <3> HIDE DEF k
    <3> QED
      BY <3>1, <3>2
  <2>2. CASE Report(c, "Failing", reason, NoVersion)
    <3> DEFINE k == [w EXCEPT !.pc = "status", !.existing = Absent,
                        !.state = "Failing", !.reason = reason,
                        !.version = NoVersion]
    <3>1. /\ k \in Workers /\ k.pc = "status" /\ k.ss = w.ss /\ k.fresh = w.fresh
          /\ k.existing = Absent /\ k.todo = w.todo
          /\ k.reason # "SourceDeleted" /\ k.state = "Failing"
      BY <1>2, <1>4 DEF Workers, PCs
    <3>2. worker' = [worker EXCEPT ![c] = k]
      BY <2>2 DEF Report
    <3> HIDE DEF k
    <3> QED
      BY <3>1, <3>2
  <2> QED
    BY <2>1, <2>2
<1>10. timers' = timers
  BY DEF Report
<1>11. worker'[c] = k /\ \A d \in Owners \ {c} : worker'[d] = worker[d]
  BY <1>1, <1>9 DEF TypeOK
<1>12. TypeOK'
  <2>1. worker' \in [Owners -> Workers]
    BY <1>1, <1>9 DEF TypeOK
  <2>2. \A d \in Owners : worker'[d].ss = Absent <=> worker'[d].pc = "idle"
    BY <1>1, <1>2, <1>9, <1>11 DEF TypeOK
  <2> QED
    BY <1>1, <1>7, <1>8, <1>10, <2>1, <2>2 DEF TypeOK
<1>13. SecretsOK'
  <2> SUFFICES ASSUME NEW n \in Names, NEW d \in Owners
               PROVE  /\ Origin(sec'[n], d, n, written'[d])
                      /\ Origin(secCache[n], d, n, written'[d])
    BY DEF SecretsOK
  <2>1. /\ Origin(sec[n], d, n, written[d]) /\ Origin(secCache[n], d, n, written[d])
        /\ written[d] \subseteq written'[d]
    BY <1>1, <1>8 DEF SecretsOK
  <2>2. CASE n = n0
    BY <1>5, <1>7, <1>8, <2>1, <2>2 DEF Origin
  <2>3. CASE n # n0
    BY <1>7, <2>1, <2>3 DEF Origin
  <2> QED
    BY <2>2, <2>3
<1>14. FinalizerBeforeSecret'
  <2>1. Later(w.ss, cr[c])
    BY <1>1 DEF OwnerOK, CopyOK
  <2>2. cr[c] # Absent => cr[c].finalizer
    BY <1>2, <1>3, <2>1 DEF Later
  <2> QED
    BY <1>1, <1>5, <1>7, <2>2 DEF FinalizerBeforeSecret
<1>15. NeverForgotten'
  BY <1>1, <1>9, <1>10, <1>11 DEF NeverForgotten
<1>16. OwnerOK(c)'
  <2>1. CopyOK(cr[c], crCache[c], crFresh[c], k)
    BY <1>1, <1>9 DEF OwnerOK, CopyOK
  <2>2. Origin(k.existing, c, k.ss.spec.target, written'[c])
    BY <1>9 DEF Origin
  <2>3. SyncOK(k, written'[c], vault.version)
    BY <1>2, <1>3, <1>8, <1>9 DEF SyncOK, VersionOK
  <2>4. SweepOK(cr[c], k, written'[c]) /\ DeleteOK(k, written'[c])
    BY <1>1, <1>8, <1>9 DEF OwnerOK, SweepOK, DeleteOK, Wrote
  <2>5. StatusOK(cr[c], written'[c], vault.version)
    <3>1. StatusOK(cr[c], written[c], vault.version) /\ written[c] \subseteq written'[c]
      BY <1>1, <1>8 DEF OwnerOK
    <3>2. \A p \in written'[c] : p[2] <= vault.version
      <4>1. \A p \in written[c] : p[2] <= vault.version
        BY <3>1 DEF StatusOK
      <4>2. <<n0, w.version>>[2] <= vault.version
        BY <1>4
      <4> QED
        BY <1>8, <4>1, <4>2
    <3> QED
      BY <3>1, <3>2 DEF StatusOK, Wrote
  <2> QED
    BY <1>11, <2>1, <2>2, <2>3, <2>4, <2>5 DEF OwnerOK
<1>17. ASSUME NEW d \in Owners, d # c
       PROVE  OwnerOK(d)'
  <2>1. /\ OwnerOK(d) /\ written'[d] = written[d] /\ worker'[d] = worker[d]
        /\ cr'[d] = cr[d] /\ crCache'[d] = crCache[d] /\ crFresh'[d] = crFresh[d]
        /\ vault' = vault
    BY <1>8, <1>11, <1>17 DEF Inv
  <2>2. /\ written[d] \subseteq Names \X Versions /\ vault.version \in Nat
        /\ cr[d] \in SecretSyncs \cup {Absent} /\ worker[d] \in Workers
    BY <1>1, Held
  <2>3. vault'.version = vault.version /\ vault.version <= vault.version
    <3>1. \A v \in Nat : v <= v
      OBVIOUS
    <3> QED
      BY <2>1, <2>2, <3>1, Zenon
  <2> QED
    BY <2>1, <2>2, <2>3, Frame, Zenon
<1> QED
  BY <1>12, <1>13, <1>14, <1>15, <1>16, <1>17 DEF Inv

LEMMA WriteSecretStep ==
    ASSUME Inv, NEW c \in Owners, writeSecret(c)
    PROVE  Inv'
<1>1. /\ worker[c].pc = "write"
      /\ UNCHANGED <<cr, crCache, crFresh, secCache, vault, queued>>
  BY DEF writeSecret
<1>2. budget' \in [edits : Nat, faults : Nat, outages : Nat]
  <2>1. \/ UNCHANGED budget
        \/ budget.faults > 0 /\ budget' = [budget EXCEPT !.faults = @ - 1]
    BY Zenon DEF writeSecret
  <2> QED
    BY <2>1, BudgetStays, FaultSpent
<1>3. \/ /\ Commits(c)
         /\ \E reason \in Reasons \ {"SourceDeleted"} :
               \/ Report(c, "InSync", reason, worker[c].version)
               \/ Report(c, "Failing", reason, NoVersion)
      \/ /\ UNCHANGED <<sec, written>>
         /\ \E reason \in {"TargetConflict", "TargetImmutable", "SecretWriteFailed"} :
               Report(c, "Failing", reason, NoVersion)
  <2>1. /\ "" \in Reasons /\ "" # "SourceDeleted"
        /\ "SecretWriteFailed" \in Reasons /\ "SecretWriteFailed" # "SourceDeleted"
    BY Zenon DEF Reasons
  <2> QED
    BY <2>1, Zenon DEF writeSecret, Commits
<1>4. ASSUME Commits(c), NEW reason \in Reasons \ {"SourceDeleted"},
             \/ Report(c, "InSync", reason, worker[c].version)
             \/ Report(c, "Failing", reason, NoVersion)
      PROVE  Inv'
  BY <1>1, <1>2, <1>4, CommitStep
<1>5. ASSUME UNCHANGED <<sec, written>>,
             NEW reason \in {"TargetConflict", "TargetImmutable", "SecretWriteFailed"},
             Report(c, "Failing", reason, NoVersion)
      PROVE  Inv'
  <2>1. reason \in Reasons /\ reason # "SourceDeleted"
    BY DEF Reasons
  <2> QED
    BY <1>1, <1>2, <1>5, <2>1, FailureStep
<1> QED
  BY <1>3, <1>4, <1>5

LEMMA WithStatusFields ==
    ASSUME NEW ss \in SecretSyncs, NEW state \in Outcomes,
           NEW reason \in Reasons, NEW version \in Versions \cup {NoVersion}
    PROVE  LET obj == WithStatus(ss, state, reason, version)
           IN  /\ obj \in SecretSyncs /\ obj.spec = ss.spec
               /\ obj.deleting = ss.deleting /\ obj.finalizer = ss.finalizer
               /\ obj.state = state /\ obj.reason = reason /\ obj.observed = ss.spec
               /\ obj.synced \in Versions \cup {NoVersion}
               /\ state = "InSync" => obj.synced = version
               /\ state # "InSync" => obj.synced = ss.synced
<1> DEFINE synced == IF state = "InSync" THEN version ELSE ss.synced
<1>1. synced \in Versions \cup {NoVersion} /\ ss.spec \in Specs
  BY SecretSyncFields, Zenon
<1>2. WithStatus(ss, state, reason, version) =
         [ss EXCEPT !.state = state, !.reason = reason, !.observed = ss.spec,
                    !.synced = synced]
  BY DEF WithStatus
<1>3. state \in {"", "Pending", "InSync", "Failing"}
  BY Zenon DEF Outcomes
<1> HIDE DEF synced
<1>4. LET obj == [ss EXCEPT !.state = state, !.reason = reason,
                            !.observed = ss.spec, !.synced = synced]
      IN  /\ obj \in SecretSyncs /\ obj.spec = ss.spec
          /\ obj.deleting = ss.deleting /\ obj.finalizer = ss.finalizer
          /\ obj.state = state /\ obj.reason = reason /\ obj.observed = ss.spec
          /\ obj.synced = synced
  BY <1>1, <1>3, Zenon DEF SecretSyncs
<1>5. /\ state = "InSync" => synced = version
      /\ state # "InSync" => synced = ss.synced
  BY DEF synced
<1> QED
  BY <1>1, <1>2, <1>4, <1>5

LEMMA UpdateStatusStep ==
    ASSUME Inv, NEW c \in Owners, updateStatus(c)
    PROVE  Inv'
<1> DEFINE w == worker[c]
           obj == WithStatus(w.ss, w.state, w.reason, w.version)
           done == IF w.state = "InSync" THEN GotoSweep(c) ELSE ReturnRequeue(c)
<1>1. TypeOK /\ OwnerOK(c) /\ w.pc = "status"
  BY DEF Inv, updateStatus
<1>2. UNCHANGED <<vault, queued, written, budget>>
  BY DEF updateStatus
<1>3. /\ w \in Workers /\ w.ss \in SecretSyncs /\ w.ss # Absent
      /\ w.ss.synced \in Versions \cup {NoVersion}
  BY <1>1, Held, SecretSyncFields
<1>4. /\ obj \in SecretSyncs /\ obj.spec = w.ss.spec
      /\ obj.deleting = w.ss.deleting /\ obj.finalizer = w.ss.finalizer
      /\ obj.state = w.state /\ obj.reason = w.reason /\ obj.observed = w.ss.spec
      /\ w.state = "InSync" => obj.synced = w.version
      /\ w.state # "InSync" => obj.synced = w.ss.synced
  <2>1. /\ w.state \in Outcomes /\ w.reason \in Reasons
        /\ w.version \in Versions \cup {NoVersion}
    BY <1>3, WorkerFields
  <2> QED
    BY <1>3, <2>1, WithStatusFields
<1> HIDE DEF obj
<1>5. CASE StaleWrite(c)
  BY <1>2, <1>5, StaleStep
<1>6. ASSUME NEW fresh \in BOOLEAN, w.fresh, fresh => crCache[c] = obj,
             cr' = [cr EXCEPT ![c] = obj],
             crFresh' = [crFresh EXCEPT ![c] = fresh],
             UNCHANGED <<crCache, sec, secCache>>, done
      PROVE  Inv'
  <2>1. cr[c] = w.ss
    BY <1>1, <1>6 DEF OwnerOK, CopyOK
  <2>2. obj # Absent
    BY <1>4, NoneAssumption
  <2>3. /\ Later(cr[c], obj) /\ Later(crCache[c], obj) /\ Later(w.ss, obj)
        /\ Seen(w.ss, crCache[c]) /\ Gone(obj, crCache[c]) /\ Gone(obj, w.ss)
        /\ obj.deleting => obj.finalizer
    BY <1>1, <1>3, <1>4, <2>1, <2>2 DEF OwnerOK, CopyOK, Later, Gone
  <2>4. StatusOK(obj, written[c], vault.version)
    <3>1. /\ StatusOK(w.ss, written[c], vault.version)
          /\ SyncOK(w, written[c], vault.version)
      BY <1>1, <2>1 DEF OwnerOK
    <3>2. obj.synced # NoVersion => obj.synced <= vault.version
      BY <1>1, <1>3, <1>4, <3>1 DEF StatusOK, SyncOK, VersionOK
    <3>3. obj.state = "InSync" => <<obj.observed.target, obj.synced>> \in written[c]
      BY <1>1, <1>4, <3>1 DEF SyncOK
    <3>4. obj.reason = "SourceDeleted" => Wrote(written[c], obj.observed.target)
      BY <1>4, <3>1 DEF SyncOK
    <3> QED
      BY <3>1, <3>2, <3>3, <3>4 DEF StatusOK
  <2>5. CASE w.state = "InSync"
    <3> DEFINE k == [Idle EXCEPT !.pc = "list", !.ss = w.ss]
    <3>1. worker' = [worker EXCEPT ![c] = k] /\ timers' = timers
      BY <1>6, <2>5 DEF GotoSweep
    <3>2. /\ k \in Workers /\ k.pc = "list" /\ k.ss = w.ss /\ k.fresh = FALSE
          /\ k.existing = Absent /\ k.reason # "SourceDeleted" /\ k.todo = {}
      BY <1>3, SweepFields, Zenon
    <3> HIDE DEF k
    <3>3. CopyOK(obj, crCache[c], fresh, k)
      BY <1>6, <2>3, <3>2 DEF CopyOK
    <3>4. /\ Origin(k.existing, c, k.ss.spec.target, written[c])
          /\ SyncOK(k, written[c], vault.version)
          /\ SweepOK(obj, k, written[c])
          /\ DeleteOK(k, written[c])
      BY <1>1, <1>4, <2>5, <3>2 DEF OwnerOK, Origin, SyncOK, SweepOK, DeleteOK
    <3>5. (k.ss = Absent <=> k.pc = "idle") /\ k.pc # "idle"
      BY <1>3, <3>2
    <3> QED
      BY <1>2, <1>3, <1>4, <1>6, <2>1, <2>3, <2>4, <3>1, <3>2, <3>3, <3>4, <3>5,
         SecretsStay, BudgetStays, OwnerChanges
  <2>6. CASE w.state # "InSync"
    <3>1. worker' = [worker EXCEPT ![c] = Idle] /\ timers' = timers \cup {c}
      BY <1>6, <2>6 DEF ReturnRequeue
    <3>2. /\ Idle \in Workers /\ Idle.pc = "idle" /\ Idle.ss = Absent
          /\ Idle.fresh = FALSE /\ Idle.existing = Absent
          /\ Idle.reason # "SourceDeleted" /\ Idle.todo = {}
      BY IdleFields, Zenon
    <3>3. CopyOK(obj, crCache[c], fresh, Idle)
      BY <1>6, <2>3, <3>2 DEF CopyOK, Later, Seen, Gone
    <3>4. /\ Origin(Idle.existing, c, Idle.ss.spec.target, written[c])
          /\ SyncOK(Idle, written[c], vault.version)
          /\ SweepOK(obj, Idle, written[c])
          /\ DeleteOK(Idle, written[c])
      BY <3>2 DEF Origin, SyncOK, SweepOK, DeleteOK
    <3> QED
      BY <1>2, <1>3, <1>4, <1>6, <2>1, <2>3, <2>4, <3>1, <3>2, <3>3, <3>4,
         SecretsStay, BudgetStays, OwnerChanges
  <2> QED
    BY <2>5, <2>6
<1>7. CASE w.fresh /\ obj = w.ss /\ done /\ UNCHANGED cluster
  <2>1. cr[c] = obj /\ (crFresh[c] => crCache[c] = obj)
    BY <1>1, <1>7 DEF OwnerOK, CopyOK
  <2>2. UNCHANGED <<cr, crCache, crFresh, sec, secCache>>
    BY <1>7 DEF cluster
  <2>3. /\ cr' = [cr EXCEPT ![c] = obj] /\ crFresh[c] \in BOOLEAN
        /\ crFresh' = [crFresh EXCEPT ![c] = crFresh[c]]
    BY <1>1, <2>1, <2>2 DEF TypeOK
  <2> QED
    BY <1>6, <1>7, <2>1, <2>2, <2>3
<1>8. CASE /\ w.fresh /\ done
           /\ cr' = [cr EXCEPT ![c] = obj]
           /\ crFresh' = [crFresh EXCEPT ![c] = FALSE]
           /\ UNCHANGED <<crCache, sec, secCache>>
  BY <1>6, <1>8
<1> QED
  BY <1>5, <1>7, <1>8, Zenon DEF updateStatus, obj

\* The sweep, and reconcileDelete, act on what the cache says c controls.
LEMMA CachedOwn ==
    ASSUME Inv, NEW c \in Owners, NEW n \in Names, secCache[n] # Absent,
           ControllerOwnedBy(secCache[n], c)
    PROVE  Wrote(written[c], n)
<1>1. <<n, secCache[n].version>> \in written[c]
  BY DEF Inv, SecretsOK, Origin, ControllerOwnedBy
<1>2. written[c] \subseteq Names \X Versions
  BY Held DEF Inv
<1> QED
  BY <1>1, <1>2 DEF Wrote

LEMMA ListStaleStep ==
    ASSUME Inv, NEW c \in Owners, listStale(c)
    PROVE  Inv'
<1> DEFINE w == worker[c]
           todo == {n \in Names : /\ n # target(c)
                                  /\ secCache[n] # Absent
                                  /\ ControllerOwnedBy(secCache[n], c)}
           k == [w EXCEPT !.pc = "sweep", !.todo = todo]
<1>1. /\ UNCHANGED <<cr, crFresh, crCache, sec, secCache, vault, queued, written>>
      /\ UNCHANGED budget /\ w.pc = "list"
  BY DEF listStale, cluster
<1>2. TypeOK /\ OwnerOK(c)
  BY DEF Inv
<1>3. CASE ReturnRequeue(c)
  BY <1>1, <1>3, SecretsStay, BudgetStays, Requeued
<1>4. CASE worker' = [worker EXCEPT ![c] = k] /\ timers' = timers
  <2>1. w \in Workers /\ w.ss \in SecretSyncs /\ w.ss # Absent
    BY <1>1, <1>2, Held, SecretSyncFields
  <2>2. todo \subseteq Names /\ \A n \in todo : n # target(c) /\ Wrote(written[c], n)
    BY CachedOwn
  <2> HIDE DEF todo
  <2>3. /\ k \in Workers /\ k.pc = "sweep" /\ k.ss = w.ss /\ k.fresh = w.fresh
        /\ k.existing = w.existing /\ k.reason = w.reason /\ k.todo = todo
    BY <2>1, <2>2 DEF Workers, PCs
  <2> HIDE DEF k
  <2>4. /\ k.fresh => k.ss = cr[c]
        /\ Later(k.ss, cr[c]) /\ Seen(k.ss, crCache[c]) /\ Gone(cr[c], k.ss)
    BY <1>2, <2>3 DEF OwnerOK, CopyOK
  <2>5. /\ Origin(k.existing, c, k.ss.spec.target, written[c])
        /\ SyncOK(k, written[c], vault.version)
        /\ DeleteOK(k, written[c])
    BY <1>1, <1>2, <2>3 DEF OwnerOK, SyncOK, DeleteOK
  <2>6. SweepOK(cr[c], k, written[c])
    BY <1>1, <1>2, <2>2, <2>3 DEF OwnerOK, SweepOK, target
  <2>7. (k.ss = Absent <=> k.pc = "idle") /\ k.pc # "idle"
    BY <2>1, <2>3
  <2> QED
    BY <1>1, <1>4, <2>3, <2>4, <2>5, <2>6, <2>7, SecretsStay, BudgetStays, WorkerMoves
<1> QED
  BY <1>3, <1>4 DEF listStale

\* A Secret is deleted.
LEMMA SecretGoes ==
    ASSUME Inv, NEW n \in Names, sec' = [sec EXCEPT ![n] = Absent]
    PROVE  /\ sec' \in [Names -> Secrets \cup {Absent}]
           /\ \A m \in Names : sec'[m] \in {sec[m], Absent}
BY DEF Inv, TypeOK

LEMMA DeleteStaleStep ==
    ASSUME Inv, NEW c \in Owners, NEW n \in Names, deleteStale(c, n)
    PROVE  Inv'
<1> DEFINE w == worker[c]
           k == [w EXCEPT !.todo = w.todo \ {n}]
<1>1. /\ UNCHANGED <<cr, crFresh, crCache, secCache, vault, queued, written>>
      /\ UNCHANGED budget /\ w.pc = "sweep"
      /\ sec' = [sec EXCEPT ![n] = Absent]
  BY DEF deleteStale
<1>2. TypeOK /\ OwnerOK(c)
  BY DEF Inv
<1>3. CASE ReturnRequeue(c)
  BY <1>1, <1>3, SecretGoes, BudgetStays, Requeued
<1>4. CASE worker' = [worker EXCEPT ![c] = k] /\ timers' = timers
  <2>1. w \in Workers /\ w.ss \in SecretSyncs /\ w.ss # Absent
    BY <1>1, <1>2, Held, SecretSyncFields
  <2>2. w.todo \ {n} \subseteq Names
    BY <2>1, WorkerFields
  <2>3. /\ k \in Workers /\ k.pc = "sweep" /\ k.ss = w.ss /\ k.fresh = w.fresh
        /\ k.existing = w.existing /\ k.reason = w.reason /\ k.todo = w.todo \ {n}
    BY <1>1, <2>1, <2>2 DEF Workers
  <2> HIDE DEF k
  <2>4. /\ k.fresh => k.ss = cr[c]
        /\ Later(k.ss, cr[c]) /\ Seen(k.ss, crCache[c]) /\ Gone(cr[c], k.ss)
    BY <1>2, <2>3 DEF OwnerOK, CopyOK
  <2>5. /\ Origin(k.existing, c, k.ss.spec.target, written[c])
        /\ SyncOK(k, written[c], vault.version)
        /\ DeleteOK(k, written[c])
    BY <1>1, <1>2, <2>3 DEF OwnerOK, SyncOK, DeleteOK
  <2>6. SweepOK(cr[c], k, written[c])
    BY <1>1, <1>2, <2>3 DEF OwnerOK, SweepOK
  <2>7. (k.ss = Absent <=> k.pc = "idle") /\ k.pc # "idle"
    BY <2>1, <2>3
  <2> QED
    BY <1>1, <1>4, <2>3, <2>4, <2>5, <2>6, <2>7, SecretGoes, BudgetStays, WorkerMoves
<1> QED
  BY <1>3, <1>4 DEF deleteStale

LEMMA LookupOwnedStep ==
    ASSUME Inv, NEW c \in Owners, lookupOwned(c)
    PROVE  Inv'
<1>1. /\ UNCHANGED <<cr, crFresh, crCache, sec, secCache, vault, queued, written>>
      /\ UNCHANGED budget /\ worker[c].pc = "lookup"
  BY DEF lookupOwned, cluster
<1>2. worker[c].ss.deleting /\ target(c) \in Names
  BY <1>1, Held DEF Inv, OwnerOK, DeleteOK
<1>3. CASE /\ secCache[target(c)] # Absent
           /\ ControllerOwnedBy(secCache[target(c)], c)
           /\ Goto(c, "remove")
  BY <1>1, <1>2, <1>3, CachedOwn, SecretsStay, GotoStep
<1>4. CASE Goto(c, "release")
  BY <1>1, <1>2, <1>4, SecretsStay, GotoStep
<1> QED
  BY <1>3, <1>4 DEF lookupOwned

LEMMA RemoveSecretStep ==
    ASSUME Inv, NEW c \in Owners, removeSecret(c)
    PROVE  Inv'
<1>1. /\ UNCHANGED <<cr, crFresh, crCache, secCache, vault, queued, written, budget>>
      /\ worker[c].pc = "remove" /\ Goto(c, "release")
      /\ sec' = [sec EXCEPT ![target(c)] = Absent]
  BY DEF removeSecret
<1>2. worker[c].ss.deleting /\ target(c) \in Names
  BY <1>1, Held DEF Inv, OwnerOK, DeleteOK
<1> QED
  BY <1>1, <1>2, SecretGoes, GotoStep

LEMMA RemoveFinalizerStep ==
    ASSUME Inv, NEW c \in Owners, removeFinalizer(c)
    PROVE  Inv'
<1>1. UNCHANGED <<vault, queued, written, budget>>
  BY DEF removeFinalizer
<1>2. CASE StaleWrite(c)
  BY <1>1, <1>2, StaleStep
<1>3. CASE /\ cr' = [cr EXCEPT ![c] = Absent]
           /\ crFresh' = [crFresh EXCEPT ![c] = FALSE]
           /\ Return(c)
           /\ UNCHANGED <<crCache, sec, secCache>>
  <2>1. worker' = [worker EXCEPT ![c] = Idle] /\ timers' = timers
    BY <1>3 DEF Return
  <2>2. /\ Idle \in Workers /\ Idle.pc = "idle" /\ Idle.ss = Absent
        /\ Idle.fresh = FALSE /\ Idle.existing = Absent
        /\ Idle.reason # "SourceDeleted" /\ Idle.todo = {}
    BY IdleFields, Zenon
  <2>3. CopyOK(Absent, crCache[c], FALSE, Idle) /\ Later(cr[c], Absent)
    <3>1. worker[c].ss # Absent /\ worker[c].ss.deleting /\ Seen(worker[c].ss, crCache[c])
      BY Held, SecretSyncFields DEF removeFinalizer, Inv, OwnerOK, CopyOK, DeleteOK
    <3> QED
      BY <2>2, <3>1 DEF CopyOK, Later, Seen, Gone
  <2>4. /\ Origin(Idle.existing, c, Idle.ss.spec.target, written[c])
        /\ SyncOK(Idle, written[c], vault.version)
        /\ SweepOK(Absent, Idle, written[c])
        /\ DeleteOK(Idle, written[c])
    BY <2>2 DEF Origin, SyncOK, SweepOK, DeleteOK
  <2>5. StatusOK(Absent, written[c], vault.version)
    BY DEF Inv, OwnerOK, StatusOK
  <2> QED
    BY <1>1, <1>3, <2>1, <2>2, <2>3, <2>4, <2>5, SecretsStay, BudgetStays, OwnerChanges
<1> QED
  BY <1>2, <1>3 DEF removeFinalizer

-----------------------------------------------------------------------------
(* Restarts, watches, timers, users, the garbage collector and the vault. *)

\* A step that leaves every SecretSync and its worker alone, and gives no
\* Secret to a SecretSync.
LEMMA OwnersStay ==
    ASSUME Inv, UNCHANGED <<cr, crCache, crFresh, worker, written>>,
           sec' \in [Names -> Secrets \cup {Absent}],
           secCache' \in [Names -> Secrets \cup {Absent}],
           vault' \in [version : Versions, answer : {Served} \cup Outages],
           vault.version <= vault'.version,
           queued' \subseteq Owners, timers' \subseteq Owners,
           queued \cup timers \subseteq queued' \cup timers',
           budget' \in [edits : Nat, faults : Nat, outages : Nat],
           \A n \in Names :
              sec'[n] # Absent /\ sec'[n].controller \in Owners
                 => /\ sec[n] # Absent /\ sec[n].controller = sec'[n].controller
                    /\ sec[n].version = sec'[n].version,
           \A n \in Names : secCache'[n] \in {secCache[n], sec[n], Absent}
    PROVE  Inv'
<1>1. TypeOK /\ SecretsOK /\ FinalizerBeforeSecret /\ NeverForgotten
  BY DEF Inv
<1>2. TypeOK'
  BY <1>1 DEF TypeOK
<1>3. SecretsOK'
  <2> SUFFICES ASSUME NEW n \in Names, NEW c \in Owners
               PROVE  /\ Origin(sec'[n], c, n, written[c])
                      /\ Origin(secCache'[n], c, n, written[c])
    BY DEF SecretsOK
  <2>1. Origin(sec[n], c, n, written[c]) /\ Origin(secCache[n], c, n, written[c])
    BY <1>1 DEF SecretsOK
  <2> QED
    BY <2>1 DEF Origin
<1>4. FinalizerBeforeSecret' /\ NeverForgotten'
  BY <1>1 DEF FinalizerBeforeSecret, NeverForgotten
<1>5. ASSUME NEW d \in Owners
      PROVE  OwnerOK(d)'
  <2>1. OwnerOK(d)
    BY DEF Inv
  <2>2. /\ written[d] \subseteq Names \X Versions /\ vault.version \in Nat
        /\ cr[d] \in SecretSyncs \cup {Absent} /\ worker[d] \in Workers
    BY <1>1, Held
  <2>3. vault'.version \in Nat
    BY ReconcilerAssumption
  <2> QED
    BY <2>1, <2>2, <2>3, Frame
<1> QED
  BY <1>2, <1>3, <1>4, <1>5 DEF Inv

LEMMA VaultStays ==
    ASSUME Inv, UNCHANGED vault
    PROVE  /\ vault' \in [version : Versions, answer : {Served} \cup Outages]
           /\ vault.version <= vault'.version
<1>1. /\ vault \in [version : Versions, answer : {Served} \cup Outages]
      /\ Versions \subseteq Nat
  BY ReconcilerAssumption DEF Inv, TypeOK
<1>2. vault.version \in Nat
  BY <1>1
<1> QED
  BY <1>1, <1>2

\* What OwnersStay asks of the Secrets, where none changes.
LEMMA SecretsSame ==
    ASSUME Inv
    PROVE  /\ sec \in [Names -> Secrets \cup {Absent}]
           /\ secCache \in [Names -> Secrets \cup {Absent}]
           /\ queued \subseteq Owners /\ timers \subseteq Owners
           /\ vault \in [version : Versions, answer : {Served} \cup Outages]
BY DEF Inv, TypeOK

LEMMA SecretWatchStep ==
    ASSUME Inv, NEW n \in Names, secretWatch(n)
    PROVE  Inv'
<1>1. /\ UNCHANGED <<cr, crCache, crFresh, worker, written>>
      /\ UNCHANGED <<sec, vault, timers, budget>>
      /\ secCache' = [secCache EXCEPT ![n] = Cached(sec[n])]
      /\ queued' = queued \cup ControllersOf(secCache[n])
                          \cup ControllersOf(Cached(sec[n]))
  BY DEF secretWatch
<1>2. Cached(sec[n]) \in {sec[n], Absent}
  BY DEF Cached
<1>3. /\ secCache' \in [Names -> Secrets \cup {Absent}]
      /\ \A m \in Names : secCache'[m] \in {secCache[m], sec[m], Absent}
  BY <1>1, <1>2, SecretsSame
<1>4. queued \subseteq queued' /\ queued' \subseteq Owners
  BY <1>1, SecretsSame DEF ControllersOf
<1> QED
  BY <1>1, <1>3, <1>4, SecretsSame, VaultStays, BudgetStays, OwnersStay

LEMMA TimerFiresStep ==
    ASSUME Inv, NEW c \in Owners, timerFires(c)
    PROVE  Inv'
<1>1. /\ UNCHANGED <<cr, crCache, crFresh, worker, written>>
      /\ UNCHANGED <<sec, secCache, vault, budget>>
      /\ timers' = timers \ {c} /\ queued' = queued \cup {c}
  BY DEF timerFires, cluster
<1> QED
  BY <1>1, SecretsSame, VaultStays, BudgetStays, OwnersStay

\* An event brings c to the queue, whoever sent it.
LEMMA EnqueueStep ==
    ASSUME Inv, NEW S \in SUBSET Owners, queued' = queued \cup S,
           UNCHANGED <<cluster, vault, timers, worker, written, budget>>
    PROVE  Inv'
<1>1. /\ UNCHANGED <<cr, crCache, crFresh, worker, written>>
      /\ UNCHANGED <<sec, secCache, vault, budget, timers>>
  BY DEF cluster
<1> QED
  BY <1>1, SecretsSame, VaultStays, BudgetStays, OwnersStay

LEMMA UserSpent ==
    ASSUME Inv, UserEdits
    PROVE  budget' \in [edits : Nat, faults : Nat, outages : Nat]
BY DEF Inv, TypeOK, UserEdits

\* A user may take a Secret from a SecretSync, but never gives it one.
LEMMA EditSecretStep ==
    ASSUME Inv, NEW n \in Names, NEW kind \in EditKinds, editSecret(n, kind)
    PROVE  Inv'
<1>1. /\ UNCHANGED <<cr, crCache, crFresh, worker, written>>
      /\ UNCHANGED <<secCache, vault, queued, timers>> /\ UserEdits
  BY DEF editSecret
<1>2. [k \in {} |-> 0] \in DataMaps
  <2>1. [k \in {} |-> 0] \in [{} -> Values] /\ {} \in SUBSET Keys
    OBVIOUS
  <2> QED
    BY <2>1 DEF DataMaps
<1>3. /\ Foreign \in Secrets /\ Foreign.controller = NoController
      /\ Restored \in Secrets /\ Restored.controller = NoController
  BY <1>2 DEF Foreign, Restored, Secrets
<1>4. sec[n] \in Secrets \cup {Absent} /\ NoController \notin Owners
  BY SecretsSame, OwnersAssumption
<1>5. PICK new \in Secrets \cup {Absent} :
         /\ sec' = [sec EXCEPT ![n] = new]
         /\ new # Absent /\ new.controller \in Owners
               => /\ sec[n] # Absent /\ sec[n].controller = new.controller
                  /\ sec[n].version = new.version
  <2>1. CASE sec' = [sec EXCEPT ![n] = Foreign]
    BY <1>3, <1>4, <2>1
  <2>2. CASE sec' = [sec EXCEPT ![n] = Restored]
    BY <1>3, <1>4, <2>2
  <2>3. CASE /\ kind \notin {"create", "restore"} /\ sec[n] # Absent
             /\ sec' = [sec EXCEPT ![n] = Edited(sec[n], kind)]
    <3>1. sec[n] \in Secrets
      BY <1>4, <2>3
    <3>2. CASE kind = "unlabel"
      <4>1. LET new == [sec[n] EXCEPT !.labelled = FALSE]
            IN  /\ new \in Secrets /\ new.controller = sec[n].controller
                /\ new.version = sec[n].version
        BY <3>1 DEF Secrets
      <4> QED
        BY <2>3, <3>2, <4>1 DEF Edited
    <3>3. CASE kind = "orphan"
      <4>1. LET new == [sec[n] EXCEPT !.controller = NoController]
            IN  new \in Secrets /\ new.controller = NoController
        BY <3>1 DEF Secrets
      <4> QED
        BY <1>4, <2>3, <3>3, <4>1 DEF Edited
    <3>4. CASE kind = "drift"
      <4>1. LET new == [sec[n] EXCEPT !.data = [k \in {} |-> 0]]
            IN  /\ new \in Secrets /\ new.controller = sec[n].controller
                /\ new.version = sec[n].version
        BY <1>2, <3>1 DEF Secrets
      <4> QED
        BY <2>3, <3>4, <4>1 DEF Edited
    <3>5. CASE kind = "freeze"
      <4>1. LET new == [sec[n] EXCEPT !.immutable = TRUE]
            IN  /\ new \in Secrets /\ new.controller = sec[n].controller
                /\ new.version = sec[n].version
        BY <3>1 DEF Secrets
      <4> QED
        BY <2>3, <3>5, <4>1 DEF Edited
    <3>6. CASE kind = "delete"
      BY <2>3, <3>6 DEF Edited
    <3>7. kind \in {"unlabel", "orphan", "drift", "freeze", "delete"}
      BY <2>3, ReconcilerAssumption
    <3> QED
      BY <3>2, <3>3, <3>4, <3>5, <3>6, <3>7
  <2> QED
    BY <2>1, <2>2, <2>3 DEF editSecret
<1>6. /\ sec' \in [Names -> Secrets \cup {Absent}]
      /\ sec'[n] = new /\ \A m \in Names \ {n} : sec'[m] = sec[m]
  BY <1>5, SecretsSame
<1> QED
  BY <1>1, <1>5, <1>6, UserSpent, SecretsSame, VaultStays, OwnersStay

LEMMA CollectGarbageStep ==
    ASSUME Inv, NEW n \in Names, collectGarbage(n)
    PROVE  Inv'
<1>1. /\ UNCHANGED <<cr, crCache, crFresh, worker, written>>
      /\ UNCHANGED <<secCache, vault, queued, timers, budget>>
      /\ sec' = [sec EXCEPT ![n] = Absent]
  BY DEF collectGarbage
<1> QED
  BY <1>1, SecretGoes, SecretsSame, VaultStays, BudgetStays, OwnersStay

LEMMA RotateStep ==
    ASSUME Inv, rotate
    PROVE  Inv'
<1>1. /\ UNCHANGED <<cr, crCache, crFresh, worker, written>>
      /\ UNCHANGED <<sec, secCache, queued, timers, budget>>
      /\ vault.version + 1 \in Versions
      /\ vault' = [vault EXCEPT !.version = @ + 1]
  BY DEF rotate, cluster
<1>2. vault.version \in Nat
  BY SecretsSame, ReconcilerAssumption
<1>3. /\ vault' \in [version : Versions, answer : {Served} \cup Outages]
      /\ vault'.version = vault.version + 1
  BY <1>1, SecretsSame
<1>4. vault.version <= vault'.version
  BY <1>2, <1>3
<1> QED
  BY <1>1, <1>3, <1>4, SecretsSame, BudgetStays, OwnersStay

LEMMA VaultChangesStep ==
    ASSUME Inv, NEW answer \in {Served} \cup Outages, vaultChanges(answer)
    PROVE  Inv'
<1>1. /\ UNCHANGED <<cr, crCache, crFresh, worker, written>>
      /\ UNCHANGED <<sec, secCache, queued, timers>>
      /\ budget.outages > 0 /\ budget' = [budget EXCEPT !.outages = @ - 1]
      /\ vault' = [vault EXCEPT !.answer = answer]
  BY DEF vaultChanges, cluster
<1>3. /\ vault' \in [version : Versions, answer : {Served} \cup Outages]
      /\ vault'.version = vault.version
  BY <1>1, SecretsSame
<1>4. vault.version <= vault'.version
  <2>1. vault.version \in Nat
    BY SecretsSame, ReconcilerAssumption
  <2> QED
    BY <1>3, <2>1
<1>5. budget' \in [edits : Nat, faults : Nat, outages : Nat]
  BY <1>1 DEF Inv, TypeOK
<1> QED
  BY <1>1, <1>3, <1>4, <1>5, SecretsSame, OwnersStay

LEMMA CRWatchStep ==
    ASSUME Inv, NEW c \in Owners, crWatch(c)
    PROVE  Inv'
<1>1. /\ crCache' = [crCache EXCEPT ![c] = cr[c]]
      /\ crFresh' = [crFresh EXCEPT ![c] = TRUE]
      /\ queued' = queued \cup {c}
      /\ UNCHANGED <<cr, sec, secCache, vault, timers, worker, written, budget>>
  BY DEF crWatch
<1>2. TypeOK /\ SecretsOK /\ FinalizerBeforeSecret /\ NeverForgotten
  BY DEF Inv
<1>3. /\ crCache'[c] = cr[c]
      /\ \A d \in Owners \ {c} : crCache'[d] = crCache[d] /\ crFresh'[d] = crFresh[d]
  BY <1>1, <1>2 DEF TypeOK
<1>4. TypeOK'
  BY <1>1, <1>2 DEF TypeOK
<1>5. SecretsOK' /\ FinalizerBeforeSecret'
  BY <1>1, <1>2 DEF SecretsOK, FinalizerBeforeSecret
<1>6. NeverForgotten'
  BY <1>1, <1>2, <1>3 DEF NeverForgotten
<1>7. ASSUME NEW d \in Owners
      PROVE  OwnerOK(d)'
  <2>1. OwnerOK(d)
    BY DEF Inv
  <2>2. CopyOK(cr[d], crCache'[d], crFresh'[d], worker[d])
    <3>1. CASE d = c
      BY <1>3, <2>1, <3>1 DEF OwnerOK, CopyOK, Later, Seen, Gone
    <3>2. CASE d # c
      BY <1>3, <2>1, <3>2 DEF OwnerOK
    <3> QED
      BY <3>1, <3>2
  <2> QED
    BY <1>1, <2>1, <2>2 DEF OwnerOK
<1> QED
  BY <1>4, <1>5, <1>6, <1>7 DEF Inv

LEMMA StartupStep ==
    ASSUME Inv, Startup, budget' \in [edits : Nat, faults : Nat, outages : Nat]
    PROVE  Inv'
<1>1. /\ worker' = [c \in Owners |-> Idle] /\ timers' = {}
      /\ queued' = {c \in Owners : cr[c] # Absent}
      /\ crCache' = cr /\ crFresh' = [c \in Owners |-> TRUE]
      /\ secCache' = [n \in Names |-> Cached(sec[n])]
      /\ UNCHANGED <<cr, sec, vault, written>>
  BY DEF Startup
<1>2. TypeOK /\ SecretsOK /\ FinalizerBeforeSecret /\ NeverForgotten
  BY DEF Inv
<1>3. \A n \in Names : secCache'[n] \in {sec[n], Absent}
  BY <1>1 DEF Cached
<1>4. /\ Idle \in Workers /\ Idle.pc = "idle" /\ Idle.ss = Absent
      /\ Idle.fresh = FALSE /\ Idle.existing = Absent
      /\ Idle.reason # "SourceDeleted" /\ Idle.todo = {}
  BY IdleFields, Zenon
<1>5. TypeOK'
  <2>1. secCache' \in [Names -> Secrets \cup {Absent}]
    BY <1>1, <1>2, <1>3 DEF TypeOK
  <2> QED
    BY <1>1, <1>2, <1>4, <2>1 DEF TypeOK
<1>6. SecretsOK' /\ FinalizerBeforeSecret'
  BY <1>1, <1>2, <1>3 DEF SecretsOK, FinalizerBeforeSecret, Origin
<1>7. NeverForgotten'
  BY <1>1, <1>4 DEF NeverForgotten
<1>8. ASSUME NEW d \in Owners
      PROVE  OwnerOK(d)'
  <2>1. OwnerOK(d)
    BY DEF Inv
  <2>2. worker'[d] = Idle /\ crCache'[d] = cr[d]
    BY <1>1
  <2>3. CopyOK(cr[d], cr[d], crFresh'[d], Idle)
    BY <1>4, <2>1 DEF OwnerOK, CopyOK, Later, Seen, Gone
  <2>4. /\ Origin(Idle.existing, d, Idle.ss.spec.target, written[d])
        /\ SyncOK(Idle, written[d], vault.version)
        /\ SweepOK(cr[d], Idle, written[d])
        /\ DeleteOK(Idle, written[d])
    BY <1>4 DEF Origin, SyncOK, SweepOK, DeleteOK
  <2> QED
    BY <1>1, <2>1, <2>2, <2>3, <2>4 DEF OwnerOK
<1> QED
  BY <1>5, <1>6, <1>7, <1>8 DEF Inv

\* A user's change of c, of its spec or of its deletion.
LEMMA StoreUserStep ==
    ASSUME Inv, NEW c \in Owners, UserEdits, cr[c] # Absent,
           NEW obj \in SecretSyncs \cup {Absent}, StoreUser(c, obj),
           obj = Absent => ~cr[c].finalizer,
           obj # Absent =>
              /\ obj.finalizer = cr[c].finalizer
              /\ cr[c].deleting => obj.deleting
              /\ obj.deleting => obj.finalizer
              /\ obj.state = cr[c].state /\ obj.reason = cr[c].reason
              /\ obj.synced = cr[c].synced /\ obj.observed = cr[c].observed
    PROVE  Inv'
<1> DEFINE w == worker[c]
           k == [w EXCEPT !.fresh = FALSE]
<1>1. TypeOK /\ OwnerOK(c)
  BY DEF Inv
<1>2. /\ w \in Workers /\ (w.ss = Absent <=> w.pc = "idle")
      /\ w.pc # "idle" => w.ss \in SecretSyncs
  BY <1>1, Held
<1>3. /\ k \in Workers /\ k.pc = w.pc /\ k.ss = w.ss /\ k.fresh = FALSE
      /\ k.existing = w.existing /\ k.version = w.version /\ k.state = w.state
      /\ k.reason = w.reason /\ k.todo = w.todo
  BY <1>2 DEF Workers
<1>4. /\ cr' = [cr EXCEPT ![c] = obj]
      /\ crFresh' = [crFresh EXCEPT ![c] = FALSE]
      /\ worker' = [worker EXCEPT ![c] = k]
      /\ UNCHANGED <<crCache, sec, secCache, vault, queued, timers, written>>
  BY DEF StoreUser
<1> HIDE DEF k
<1>5. Later(cr[c], obj) /\ CopyOK(obj, crCache[c], FALSE, k)
  BY <1>1, <1>3 DEF OwnerOK, CopyOK, Later, Gone
<1>6. SyncOK(k, written[c], vault.version)
  <2>1. VersionOK(w, vault.version) => VersionOK(k, vault.version)
    BY <1>3 DEF VersionOK
  <2> QED
    BY <1>1, <1>3, <2>1 DEF OwnerOK, SyncOK
<1>7. /\ Origin(k.existing, c, k.ss.spec.target, written[c])
      /\ SweepOK(obj, k, written[c])
      /\ DeleteOK(k, written[c])
      /\ StatusOK(obj, written[c], vault.version)
  BY <1>1, <1>3 DEF OwnerOK, SweepOK, DeleteOK, StatusOK
<1> QED
  BY <1>2, <1>3, <1>4, <1>5, <1>6, <1>7, SecretsStay, UserSpent, OwnerChanges

LEMMA UserStep ==
    ASSUME Inv, NEW c \in Owners, NEW spec \in Specs,
           deleteSecretSync(c) \/ editSpec(c, spec)
    PROVE  Inv'
<1>1. /\ UserEdits /\ cr[c] # Absent /\ ~cr[c].deleting
  BY DEF deleteSecretSync, editSpec
<1>2. cr[c] \in SecretSyncs
  BY <1>1, Held DEF Inv
<1>3. CASE editSpec(c, spec)
  <2> DEFINE obj == [cr[c] EXCEPT !.spec = spec]
  <2>1. /\ obj \in SecretSyncs /\ obj.finalizer = cr[c].finalizer
        /\ obj.deleting = cr[c].deleting
        /\ obj.state = cr[c].state /\ obj.reason = cr[c].reason
        /\ obj.synced = cr[c].synced /\ obj.observed = cr[c].observed
    BY <1>2 DEF SecretSyncs
  <2>2. StoreUser(c, obj)
    BY <1>3 DEF editSpec
  <2> HIDE DEF obj
  <2>3. obj # Absent
    BY <2>1, NoneAssumption
  <2> QED
    BY <1>1, <2>1, <2>2, <2>3, StoreUserStep
<1>4. CASE deleteSecretSync(c) /\ cr[c].finalizer
  <2> DEFINE obj == [cr[c] EXCEPT !.deleting = TRUE]
  <2>1. /\ obj \in SecretSyncs /\ obj.finalizer = cr[c].finalizer
        /\ obj.deleting = TRUE
        /\ obj.state = cr[c].state /\ obj.reason = cr[c].reason
        /\ obj.synced = cr[c].synced /\ obj.observed = cr[c].observed
    BY <1>2 DEF SecretSyncs
  <2>2. StoreUser(c, obj)
    BY <1>4 DEF deleteSecretSync
  <2> HIDE DEF obj
  <2>3. obj # Absent
    BY <2>1, NoneAssumption
  <2> QED
    BY <1>1, <1>4, <2>1, <2>2, <2>3, StoreUserStep
<1>5. CASE deleteSecretSync(c) /\ ~cr[c].finalizer
  <2>1. StoreUser(c, Absent)
    BY <1>5 DEF deleteSecretSync
  <2> QED
    BY <1>1, <1>5, <2>1, StoreUserStep
<1> QED
  BY <1>3, <1>4, <1>5

-----------------------------------------------------------------------------
(* Every behaviour keeps the invariant. *)

LEMMA NewFields ==
    ASSUME NEW spec \in Specs
    PROVE  LET ss == newSecretSync(spec)
           IN  /\ ss \in SecretSyncs /\ ss # Absent /\ ss.deleting = FALSE
               /\ ss.state # "InSync" /\ ss.reason # "SourceDeleted"
               /\ ss.synced = NoVersion
<1>1. LET ss == newSecretSync(spec)
      IN  /\ ss \in SecretSyncs /\ ss.deleting = FALSE
          /\ ss.state # "InSync" /\ ss.reason # "SourceDeleted"
          /\ ss.synced = NoVersion
  BY Zenon DEF newSecretSync, SecretSyncs, Reasons
<1> QED
  BY <1>1, NoneAssumption

LEMMA InitInv ==
    ASSUME Init
    PROVE  Inv
<1>1. /\ crCache = [c \in Owners |-> Absent]
      /\ crFresh = [c \in Owners |-> FALSE]
      /\ sec = [n \in Names |-> Absent]
      /\ secCache = [n \in Names |-> Absent]
      /\ vault = [version |-> 1, answer |-> Served]
      /\ queued = {} /\ timers = {}
      /\ worker = [c \in Owners |-> Idle]
      /\ written = [c \in Owners |-> {}]
      /\ budget = [edits |-> MaxEdits, faults |-> MaxFaults, outages |-> MaxOutages]
  BY Zenon DEF Init
<1>2. cr \in [Owners -> SecretSyncs]
  <2>1. \A obj \in {newSecretSync(spec) : spec \in Specs} : obj \in SecretSyncs
    BY NewFields
  <2> QED
    BY <2>1, Zenon DEF Init
<1>3. ASSUME NEW c \in Owners
      PROVE  /\ cr[c] # Absent /\ cr[c].deleting = FALSE
             /\ cr[c].state # "InSync" /\ cr[c].reason # "SourceDeleted"
             /\ cr[c].synced = NoVersion
  <2>1. cr[c] \in {newSecretSync(spec) : spec \in Specs}
    BY <1>3, Zenon DEF Init
  <2>2. PICK spec \in Specs : cr[c] = newSecretSync(spec)
    BY <2>1
  <2> QED
    BY <2>2, NewFields
<1>4. /\ Idle \in Workers /\ Idle.pc = "idle" /\ Idle.ss = Absent
      /\ Idle.fresh = FALSE /\ Idle.existing = Absent
      /\ Idle.reason # "SourceDeleted" /\ Idle.todo = {}
  BY IdleFields, Zenon
<1>5. TypeOK
  <2>1. vault \in [version : Versions, answer : {Served} \cup Outages]
    BY <1>1, ReconcilerAssumption
  <2>2. budget \in [edits : Nat, faults : Nat, outages : Nat]
    BY <1>1, ReconcilerAssumption
  <2> QED
    BY <1>1, <1>2, <1>4, <2>1, <2>2 DEF TypeOK
<1>6. SecretsOK /\ FinalizerBeforeSecret /\ NeverForgotten
  BY <1>1 DEF SecretsOK, Origin, FinalizerBeforeSecret, NeverForgotten
<1>7. ASSUME NEW c \in Owners
      PROVE  OwnerOK(c)
  <2>1. /\ worker[c] = Idle /\ written[c] = {} /\ crCache[c] = Absent
        /\ crFresh[c] = FALSE
    BY <1>1
  <2>2. CopyOK(cr[c], crCache[c], crFresh[c], worker[c])
    BY <1>3, <1>4, <2>1 DEF CopyOK, Later, Seen, Gone
  <2>3. /\ Origin(Idle.existing, c, Idle.ss.spec.target, {})
        /\ SyncOK(Idle, {}, vault.version)
        /\ SweepOK(cr[c], Idle, {})
        /\ DeleteOK(Idle, {})
    BY <1>4 DEF Origin, SyncOK, SweepOK, DeleteOK
  <2>4. StatusOK(cr[c], {}, vault.version)
    BY <1>3 DEF StatusOK
  <2> QED
    BY <2>1, <2>2, <2>3, <2>4 DEF OwnerOK
<1> QED
  BY <1>5, <1>6, <1>7 DEF Inv

LEMMA WorkStep ==
    ASSUME Inv, NEW c \in Owners, Work(c)
    PROVE  Inv'
BY SetPendingStep, CheckClaimStep, ReadTargetStep, SyncFromVaultStep,
   AddFinalizerStep, WriteSecretStep, UpdateStatusStep, ListStaleStep,
   DeleteStaleStep, LookupOwnedStep, RemoveSecretStep, RemoveFinalizerStep DEF Work

LEMMA UsersStep ==
    ASSUME Inv, Users
    PROVE  Inv'
<1>1. ASSUME NEW c \in Owners, deleteSecretSync(c)
      PROVE  Inv'
  <2>1. cr[c] \in SecretSyncs
    BY <1>1, Held DEF Inv, deleteSecretSync
  <2>2. cr[c].spec \in Specs
    BY <2>1, SecretSyncFields
  <2> QED
    BY <1>1, <2>2, UserStep
<1> QED
  BY <1>1, UserStep, EditSecretStep, RotateStep, VaultChangesStep DEF Users

LEMMA StutterStep ==
    ASSUME Inv, UNCHANGED vars
    PROVE  Inv'
BY DEF vars, Inv, TypeOK, SecretsOK, FinalizerBeforeSecret, NeverForgotten, OwnerOK

LEMMA NextStep ==
    ASSUME Inv, [Next]_vars
    PROVE  Inv'
<1>1. ASSUME NEW c \in Owners, dispatch(c)
      PROVE  Inv'
  <2>1. /\ queued' = queued \cup {c} /\ {c} \in SUBSET Owners
        /\ UNCHANGED <<cluster, vault, timers, worker, written, budget>>
    BY <1>1 DEF dispatch
  <2> QED
    BY <2>1, EnqueueStep
<1>2. ASSUME Restart
      PROVE  Inv'
  BY <1>2, FaultSpent, StartupStep DEF Restart
<1>3. ASSUME NEW c \in Owners,
             \/ Reconcile(c) \/ Work(c) \/ callFails(c)
             \/ crWatch(c) \/ timerFires(c)
      PROVE  Inv'
  BY <1>3, ReconcileStep, WorkStep, CallFailsStep, CRWatchStep, TimerFiresStep
<1>4. ASSUME NEW n \in Names, secretWatch(n) \/ collectGarbage(n)
      PROVE  Inv'
  BY <1>4, SecretWatchStep, CollectGarbageStep
<1> QED
  BY <1>1, <1>2, <1>3, <1>4, UsersStep, StutterStep DEF Next

LEMMA Invariance == Spec => []Inv
<1>1. Init => Inv
  BY InitInv
<1>2. Inv /\ [Next]_vars => Inv'
  BY NextStep
<1> QED
  BY <1>1, <1>2, PTL DEF Spec

-----------------------------------------------------------------------------
(* What the invariant says. *)

\* Every step of every reconcile, user, informer and restart keeps the types
\* of the SecretSyncs, the Secrets, their cached copies, the workqueue and the
\* workers, and a worker that holds no SecretSync is idle.
THEOREM TypeCorrect == Spec => []TypeOK
BY Invariance, PTL DEF Inv

\* The finalizer is on a SecretSync before any Secret is its own: stale caches,
\* deletions that race a write and restarts never leave a Secret whose owner
\* could vanish without reconcileDelete.
THEOREM FinalizerBeforeSecretHolds == Spec => []FinalizerBeforeSecret
BY Invariance, PTL DEF Inv

\* No SecretSync is forgotten by workqueue, timers, workers and informer alike.
THEOREM NeverForgottenHolds == Spec => []NeverForgotten
BY Invariance, PTL DEF Inv

\* Whoever reports InSync has itself written the version it reports to the
\* target it observed.
THEOREM InSyncEarnedHolds == Spec => []InSyncEarned
<1>1. Inv => InSyncEarned
  BY DEF Inv, OwnerOK, StatusOK, InSyncEarned
<1> QED
  BY <1>1, Invariance, PTL

\* Whoever reports SourceDeleted has itself written the target it observed.
THEOREM SourceDeletedMeansSyncedHolds == Spec => []SourceDeletedMeansSynced
<1>1. Inv => SourceDeletedMeansSynced
  BY DEF Inv, OwnerOK, StatusOK, SourceDeletedMeansSynced, Wrote
<1> QED
  BY <1>1, Invariance, PTL

-----------------------------------------------------------------------------
(* What a step may do to a Secret. *)

\* A step of c's worker changes a Secret in three ways only.
LEMMA SecretChanges ==
    ASSUME Inv, [Next]_vars, NEW c \in Owners, NEW n \in Names,
           sec'[n] # sec[n], Acts(c)
    PROVE  \/ worker[c].pc = "write" /\ n = target(c) /\ Commits(c)
           \/ worker[c].pc = "remove" /\ n = target(c) /\ sec'[n] = Absent
           \/ worker[c].pc = "sweep" /\ n \in worker[c].todo /\ sec'[n] = Absent
<1>1. /\ sec \in [Names -> Secrets \cup {Absent}]
      /\ worker \in [Owners -> Workers]
  BY DEF Inv, TypeOK
<1>2. CASE UNCHANGED sec
  BY <1>2
<1>3. CASE UNCHANGED worker
  BY <1>3 DEF Acts
<1>4. ASSUME NEW d \in Owners, writeSecret(d)
      PROVE  /\ UNCHANGED sec \/ (worker[d].pc = "write" /\ Commits(d))
             /\ Acts(c) => c = d
  <2>1. UNCHANGED sec \/ (worker[d].pc = "write" /\ Commits(d))
    BY <1>4, Zenon DEF writeSecret, Commits
  <2>2. \E state, reason, version : Report(d, state, reason, version)
    BY <1>4, Zenon DEF writeSecret
  <2> QED
    BY <1>1, <2>1, <2>2 DEF Report, Acts
<1>5. ASSUME NEW d \in Owners, removeSecret(d)
      PROVE  /\ worker[d].pc = "remove" /\ sec' = [sec EXCEPT ![target(d)] = Absent]
             /\ Acts(c) => c = d
  BY <1>1, <1>5 DEF removeSecret, Goto, Acts
<1>6. ASSUME NEW d \in Owners, NEW m \in Names, deleteStale(d, m)
      PROVE  /\ worker[d].pc = "sweep" /\ m \in worker[d].todo
             /\ sec' = [sec EXCEPT ![m] = Absent]
             /\ Acts(c) => c = d
  BY <1>1, <1>6 DEF deleteStale, ReturnRequeue, Acts
<1>7. ASSUME NEW d \in Owners, Work(d)
      PROVE  \/ UNCHANGED sec
             \/ writeSecret(d) \/ removeSecret(d)
             \/ \E m \in Names : deleteStale(d, m)
  BY <1>7 DEF Work, setPending, checkClaim, readTarget, syncFromVault,
     addFinalizer, updateStatus, listStale, lookupOwned, removeFinalizer,
     StaleWrite, StoreOwn, cluster
<1>8. \/ UNCHANGED sec \/ UNCHANGED worker
      \/ \E d \in Owners : writeSecret(d)
      \/ \E d \in Owners : removeSecret(d)
      \/ \E d \in Owners : \E m \in Names : deleteStale(d, m)
  <2>1. ASSUME NEW d \in Owners,
               \/ Reconcile(d) \/ callFails(d) \/ crWatch(d)
               \/ timerFires(d) \/ dispatch(d)
        PROVE  UNCHANGED sec
    BY <2>1 DEF Reconcile, callFails, crWatch, timerFires, dispatch, cluster
  <2>2. ASSUME NEW m \in Names, secretWatch(m) \/ collectGarbage(m)
        PROVE  UNCHANGED worker
    BY <2>2 DEF secretWatch, collectGarbage
  <2>3. Restart => UNCHANGED sec
    BY DEF Restart, Startup
  <2>4. Users => UNCHANGED sec \/ UNCHANGED worker
    BY DEF Users, deleteSecretSync, editSpec, StoreUser, editSecret, rotate,
       vaultChanges, cluster
  <2>5. UNCHANGED vars => UNCHANGED sec
    BY DEF vars
  <2> QED
    BY <1>7, <2>1, <2>2, <2>3, <2>4, <2>5 DEF Next
<1>9. CASE \E d \in Owners : writeSecret(d)
  <2>1. writeSecret(c) /\ worker[c].pc = "write" /\ Commits(c)
    BY <1>4, <1>9
  <2>2. n = target(c)
    BY <1>1, <2>1 DEF Commits
  <2> QED
    BY <2>1, <2>2
<1>10. CASE \E d \in Owners : removeSecret(d)
  <2>1. worker[c].pc = "remove" /\ sec' = [sec EXCEPT ![target(c)] = Absent]
    BY <1>5, <1>10
  <2> QED
    BY <1>1, <2>1
<1>11. CASE \E d \in Owners : \E m \in Names : deleteStale(d, m)
  <2>1. PICK m \in Names : /\ worker[c].pc = "sweep" /\ m \in worker[c].todo
                           /\ sec' = [sec EXCEPT ![m] = Absent]
    BY <1>6, <1>11
  <2> QED
    BY <1>1, <2>1
<1> QED
  BY <1>2, <1>3, <1>8, <1>9, <1>10, <1>11

\* What c's worker takes away, c has written.
LEMMA TakesOwn ==
    ASSUME Inv, [Next]_vars, NEW c \in Owners, NEW n \in Names,
           sec[n] # Absent, sec'[n] = Absent, Acts(c)
    PROVE  /\ Wrote(written[c], n)
           /\ \/ cr[c] = Absent
              \/ cr[c].deleting
              \/ cr[c].state = "InSync" /\ cr[c].observed.target # n
<1>1. TypeOK /\ OwnerOK(c)
  BY DEF Inv
<1>2. CASE worker[c].pc = "write" /\ n = target(c) /\ Commits(c)
  <2>1. sec'[n] = Committed(sec[n], c, key(c), ValueOf[worker[c].version],
                            worker[c].version)
    BY <1>1, <1>2 DEF TypeOK, Commits
  <2>2. /\ worker[c].version \in Versions /\ key(c) \in Keys
        /\ sec[n] \in Secrets \cup {Absent}
    BY <1>1, <1>2, Held DEF OwnerOK, SyncOK, VersionOK, TypeOK
  <2>3. ValueOf[worker[c].version] \in Values
    BY <2>2, ReconcilerAssumption
  <2> QED
    BY <2>1, <2>2, <2>3, CommittedFields
<1>3. CASE worker[c].pc = "remove" /\ n = target(c)
  <2>1. Wrote(written[c], n) /\ worker[c].ss.deleting /\ Later(worker[c].ss, cr[c])
    BY <1>1, <1>3 DEF OwnerOK, DeleteOK, CopyOK, target
  <2>2. worker[c].ss # Absent
    BY <1>1, <1>3, Held
  <2> QED
    BY <2>1, <2>2 DEF Later
<1>4. CASE worker[c].pc = "sweep" /\ n \in worker[c].todo
  BY <1>1, <1>4 DEF OwnerOK, SweepOK
<1> QED
  BY <1>2, <1>3, <1>4, SecretChanges

\* What c writes over its own Secret is no older than what was there: c read
\* the vault after every one of its writes.
LEMMA LatestWins ==
    ASSUME Inv, [Next]_vars, NEW n \in Names, NEW c \in Owners,
           sec[n] # Absent, sec'[n] # Absent, sec'[n] # sec[n],
           sec[n].controller = c, Acts(c)
    PROVE  sec'[n].version >= sec[n].version
<1>1. TypeOK /\ OwnerOK(c)
  BY DEF Inv
<1>2. worker[c].pc = "write" /\ n = target(c) /\ Commits(c)
  BY SecretChanges
<1>3. /\ worker[c].version \in Versions
      /\ \A p \in written[c] : p[2] <= worker[c].version
  BY <1>1, <1>2 DEF OwnerOK, SyncOK, VersionOK
<1>4. sec'[n] = Committed(sec[n], c, key(c), ValueOf[worker[c].version],
                          worker[c].version)
  BY <1>1, <1>2 DEF TypeOK, Commits
<1>5. /\ key(c) \in Keys /\ sec[n] \in Secrets \cup {Absent}
      /\ ValueOf[worker[c].version] \in Values
  BY <1>1, <1>2, <1>3, Held, ReconcilerAssumption DEF TypeOK
<1>6. sec'[n].version = worker[c].version
  BY <1>3, <1>4, <1>5, CommittedFields
<1>7. <<n, sec[n].version>> \in written[c]
  BY DEF Inv, SecretsOK, Origin
<1>8. sec[n].version <= worker[c].version /\ sec[n].version \in Versions
  <2>1. <<n, sec[n].version>>[2] <= worker[c].version
    BY <1>3, <1>7
  <2>2. <<n, sec[n].version>> \in Names \X Versions
    BY <1>1, <1>7, Held
  <2> QED
    BY <2>1, <2>2
<1>9. \A u, v \in Versions : u <= v => v >= u
  BY ReconcilerAssumption
<1> QED
  BY <1>3, <1>6, <1>8, <1>9

\* FR-005 in the reconciler: no duplicate, delayed or reordered trigger, no
\* retry and no restart puts an older vault version back into a Secret.
THEOREM NoRollbackHolds == Spec => NoRollback
<1>1. Inv /\ [Next]_vars =>
         \A n \in Names, c \in Owners :
            /\ sec[n] # Absent /\ sec'[n] # Absent /\ sec'[n] # sec[n]
            /\ sec[n].controller = c /\ sec'[n].controller = c /\ Acts(c)
            => sec'[n].version >= sec[n].version
  BY LatestWins
<1> QED
  BY <1>1, Invariance, PTL DEF Spec, NoRollback

\* FR-013 in the reconciler: no failure, conflict or race costs a workload its
\* Secret, short of a deletion or a move that has already been made.
THEOREM KeepLastKnownGoodHolds == Spec => KeepLastKnownGood
<1>1. Inv /\ [Next]_vars =>
         \A n \in Names, c \in Owners :
            /\ sec[n] # Absent /\ sec[n].controller = c /\ sec'[n] = Absent
            /\ Acts(c)
            => \/ cr[c] = Absent
               \/ cr[c].deleting
               \/ cr[c].state = "InSync" /\ cr[c].observed.target # n
  BY TakesOwn
<1> QED
  BY <1>1, Invariance, PTL DEF Spec, KeepLastKnownGood

\* reconcileDelete and the sweep delete nothing at a name that their SecretSync
\* has never written.
THEOREM DeletesOnlyOwnWritesHolds == Spec => DeletesOnlyOwnWrites
<1>1. Inv /\ [Next]_vars =>
         \A n \in Names, c \in Owners :
            sec[n] # Absent /\ sec'[n] = Absent /\ Acts(c)
               => \E v \in Versions : <<n, v>> \in written[c]
  BY TakesOwn DEF Wrote
<1> QED
  BY <1>1, Invariance, PTL DEF Spec, DeletesOnlyOwnWrites

-----------------------------------------------------------------------------
(* What a step may do to a status. *)

\* Only the status write of a success moves syncedVersion.
LEMMA SyncedChanges ==
    ASSUME Inv, [Next]_vars, NEW c \in Owners, cr[c] # Absent, cr'[c] # Absent
    PROVE  \/ cr'[c].synced = cr[c].synced
           \/ /\ worker[c].pc = "status" /\ worker[c].state = "InSync"
              /\ worker[c].fresh /\ worker[c].ss = cr[c]
              /\ cr'[c].synced = worker[c].version
<1>1. TypeOK /\ OwnerOK(c) /\ cr \in [Owners -> SecretSyncs \cup {Absent}]
  BY DEF Inv, TypeOK
<1>2. ASSUME NEW d \in Owners, NEW obj, cr' = [cr EXCEPT ![d] = obj],
             d = c => obj.synced = cr[c].synced
      PROVE  cr'[c].synced = cr[c].synced
  BY <1>1, <1>2
<1>3. cr[c] \in SecretSyncs
  BY <1>1
<1>4. ASSUME NEW d \in Owners, setPending(d) \/ addFinalizer(d)
      PROVE  cr'[c].synced = cr[c].synced
  <2>1. CASE UNCHANGED cr
    BY <2>1
  <2>2. ASSUME worker[d].fresh, d = c,
               \/ cr'[c] = [worker[c].ss EXCEPT !.state = "Pending"]
               \/ cr'[c] = [worker[c].ss EXCEPT !.finalizer = TRUE]
        PROVE  cr'[c].synced = cr[c].synced
    <3>1. worker[c].ss = cr[c]
      BY <1>1, <2>2 DEF OwnerOK, CopyOK
    <3> QED
      BY <1>3, <2>2, <3>1 DEF SecretSyncs
  <2>3. \/ UNCHANGED cr
        \/ /\ worker[d].fresh
           /\ \/ cr' = [cr EXCEPT ![d] = [worker[d].ss EXCEPT !.state = "Pending"]]
              \/ cr' = [cr EXCEPT ![d] = [worker[d].ss EXCEPT !.finalizer = TRUE]]
    BY <1>4 DEF setPending, addFinalizer, StaleWrite, StoreOwn, cluster
  <2> QED
    BY <1>1, <2>1, <2>2, <2>3
<1>5. ASSUME NEW d \in Owners, updateStatus(d)
      PROVE  \/ cr'[c].synced = cr[c].synced
             \/ /\ worker[c].pc = "status" /\ worker[c].state = "InSync"
                /\ worker[c].fresh /\ worker[c].ss = cr[c]
                /\ cr'[c].synced = worker[c].version
  <2> DEFINE w == worker[d]
             obj == WithStatus(w.ss, w.state, w.reason, w.version)
  <2>1. \/ UNCHANGED cr
        \/ w.pc = "status" /\ w.fresh /\ cr' = [cr EXCEPT ![d] = obj]
    BY <1>5 DEF updateStatus, StaleWrite, cluster
  <2>2. CASE UNCHANGED cr \/ c # d
    BY <1>1, <2>1, <2>2
  <2>3. CASE w.pc = "status" /\ w.fresh /\ cr' = [cr EXCEPT ![d] = obj] /\ c = d
    <3>1. w.ss = cr[c] /\ w \in Workers
      BY <1>1, <2>3, Held DEF OwnerOK, CopyOK
    <3>2. /\ w.state \in Outcomes /\ w.reason \in Reasons
          /\ w.version \in Versions \cup {NoVersion}
      BY <3>1, WorkerFields
    <3>3. /\ w.state = "InSync" => obj.synced = w.version
          /\ w.state # "InSync" => obj.synced = w.ss.synced
      BY <1>3, <3>1, <3>2, WithStatusFields
    <3>4. cr'[c] = obj
      BY <1>1, <2>3
    <3> HIDE DEF obj
    <3> QED
      BY <2>3, <3>1, <3>3, <3>4
  <2> QED
    BY <2>1, <2>2, <2>3
<1>6. ASSUME NEW d \in Owners, removeFinalizer(d)
      PROVE  cr'[c].synced = cr[c].synced
  <2>1. UNCHANGED cr \/ cr' = [cr EXCEPT ![d] = Absent]
    BY <1>6 DEF removeFinalizer, StaleWrite, cluster
  <2> QED
    BY <1>1, <2>1
<1>7. ASSUME NEW d \in Owners, NEW spec \in Specs, deleteSecretSync(d) \/ editSpec(d, spec)
      PROVE  cr'[c].synced = cr[c].synced
  <2>1. \/ cr' = [cr EXCEPT ![d] = Absent]
        \/ cr' = [cr EXCEPT ![d] = [cr[d] EXCEPT !.deleting = TRUE]]
        \/ cr' = [cr EXCEPT ![d] = [cr[d] EXCEPT !.spec = spec]]
    BY <1>7 DEF deleteSecretSync, editSpec, StoreUser
  <2>2. /\ [cr[c] EXCEPT !.deleting = TRUE].synced = cr[c].synced
        /\ [cr[c] EXCEPT !.spec = spec].synced = cr[c].synced
    BY <1>3 DEF SecretSyncs
  <2> QED
    BY <1>1, <2>1, <2>2
<1>8. \/ UNCHANGED cr
      \/ \E d \in Owners : \/ setPending(d) \/ addFinalizer(d)
                           \/ updateStatus(d) \/ removeFinalizer(d)
      \/ \E d \in Owners, spec \in Specs : deleteSecretSync(d) \/ editSpec(d, spec)
  <2>1. ASSUME NEW d \in Owners,
               \/ Reconcile(d) \/ callFails(d) \/ crWatch(d)
               \/ timerFires(d) \/ dispatch(d)
        PROVE  UNCHANGED cr
    BY <2>1 DEF Reconcile, callFails, crWatch, timerFires, dispatch, cluster
  <2>2. ASSUME NEW m \in Names, secretWatch(m) \/ collectGarbage(m)
        PROVE  UNCHANGED cr
    BY <2>2 DEF secretWatch, collectGarbage
  <2>3. Restart \/ UNCHANGED vars => UNCHANGED cr
    BY DEF Restart, Startup, vars
  <2>4. ASSUME NEW d \in Owners, Work(d)
        PROVE  \/ UNCHANGED cr
               \/ setPending(d) \/ addFinalizer(d)
               \/ updateStatus(d) \/ removeFinalizer(d)
    <3>1. checkClaim(d) \/ readTarget(d) \/ syncFromVault(d) \/ listStale(d)
             \/ lookupOwned(d) => UNCHANGED cr
      BY DEF checkClaim, readTarget, syncFromVault, listStale, lookupOwned, cluster
    <3>2. writeSecret(d) \/ removeSecret(d) => UNCHANGED cr
      BY Zenon DEF writeSecret, removeSecret
    <3>3. \A m \in Names : deleteStale(d, m) => UNCHANGED cr
      BY DEF deleteStale
    <3> QED
      BY <2>4, <3>1, <3>2, <3>3 DEF Work
  <2>5. ASSUME Users
        PROVE  \/ UNCHANGED cr
               \/ \E d \in Owners, spec \in Specs :
                     deleteSecretSync(d) \/ editSpec(d, spec)
    <3>1. rotate \/ (\E a : vaultChanges(a)) \/ (\E n, k : editSecret(n, k))
             => UNCHANGED cr
      BY DEF rotate, vaultChanges, editSecret, cluster
    <3>2. ASSUME NEW d \in Owners, deleteSecretSync(d)
          PROVE  \E spec \in Specs : deleteSecretSync(d)
      BY <1>3, <3>2, SecretSyncFields
    <3> QED
      BY <2>5, <3>1, <3>2 DEF Users
  <2> QED
    BY <2>1, <2>2, <2>3, <2>4, <2>5 DEF Next
<1> QED
  BY <1>4, <1>5, <1>6, <1>7, <1>8

\* A status that is written from a fresh copy reports no less than the copy.
LEMMA SyncedRises ==
    ASSUME Inv, [Next]_vars, NEW c \in Owners,
           cr[c] # Absent, cr'[c] # Absent, cr[c].synced # NoVersion
    PROVE  cr'[c].synced # NoVersion /\ cr'[c].synced >= cr[c].synced
<1>1. cr[c].synced \in Versions /\ OwnerOK(c)
  BY Held, SecretSyncFields DEF Inv
<1>2. CASE cr'[c].synced = cr[c].synced
  <2>1. \A v \in Versions : v >= v
    BY ReconcilerAssumption
  <2> QED
    BY <1>1, <1>2, <2>1
<1>3. CASE /\ worker[c].pc = "status" /\ worker[c].state = "InSync"
           /\ worker[c].fresh /\ worker[c].ss = cr[c]
           /\ cr'[c].synced = worker[c].version
  BY <1>1, <1>3, OwnersAssumption DEF OwnerOK, SyncOK, VersionOK
<1> QED
  BY <1>2, <1>3, SyncedChanges

\* status.syncedVersion never goes back or blank, through failures, conflicts,
\* retargeting, restarts and reconciles of stale copies, if every value that Key
\* Vault serves names its version: that is NamedAssumption, by ReadNamed.
THEOREM SyncedNeverRegressesHolds == Spec => SyncedNeverRegresses
<1>1. Inv /\ [Next]_vars =>
         \A c \in Owners :
            /\ cr[c] # Absent /\ cr'[c] # Absent
            /\ cr[c].synced # NoVersion
            => cr'[c].synced # NoVersion /\ cr'[c].synced >= cr[c].synced
  BY SyncedRises
<1> QED
  BY <1>1, Invariance, PTL DEF Spec, SyncedNeverRegresses
=============================================================================

--------------------------- MODULE ManagerProofs ---------------------------
(* What Manager promises of configuration, redaction and the schedule, for  *)
(* any number of SecretSyncs and workers, any intervals and any queue URLs. *)
EXTENDS Manager, FiniteSetTheorems, TLAPS

-----------------------------------------------------------------------------
(* Configuration. *)

\* What main and the poll loop log of a URL is its location, and, if it does
\* not parse, what the cause quotes, which is never the query.
LEMMA Redacted ==
    ASSUME NEW url \in URLs
    PROVE  /\ RedactURL(url) \subseteq {"location"}
           /\ \A kind \in {"url", "response"} :
                 LET text == redactURLError([kind |-> kind, url |-> url])
                 IN  /\ text \subseteq Quotable
                     /\ url.parses => text \subseteq {"location"}
<1>1. url.quoted \subseteq Quotable /\ (url.parses => url.quoted = {})
  BY DEF URLs
<1>2. RedactURL(url) \subseteq {"location"} /\ {"location"} \subseteq Quotable
  BY DEF RedactURL, Quotable, Parts
<1> QED
  BY <1>1, <1>2 DEF redactURLError, ErrorText

\* Resolving an interval yields a cadence, and resolving it again changes it
\* no more: the reconciler runs at the interval that main has reported.
LEMMA Resolved ==
    ASSUME NEW configured
    PROVE  LET used == effectiveReconcileInterval(configured)
           IN  used > 0 /\ reconcileInterval(used) = used
BY ConfigurationAssumption DEF effectiveReconcileInterval, reconcileInterval

\* What a step may do to the configuration and to the log.
LEMMA ConfStep ==
    ASSUME [Next]_vars
    PROVE  \/ UNCHANGED <<args, conf, printed>>
           \/ usage
           \/ main
           \/ cacheSyncTimeout
           \/ Listening /\ \E kind \in {"url", "response"} : CallFails(kind)
<1> USE DEF Local
<1>1. CASE UNCHANGED vars
  BY <1>1 DEF vars
<1>2. CASE usage \/ main \/ cacheSyncTimeout
  BY <1>2
<1>3. ASSUME NEW order, informerSyncs(order)
      PROVE  UNCHANGED <<args, conf, printed>>
  BY <1>3 DEF informerSyncs
<1>4. CASE Reconcile
  BY <1>4 DEF Reconcile
<1>5. ASSUME NEW s \in Syncs, Work(s) \/ timerFires(s) \/ rotate(s)
      PROVE  UNCHANGED <<args, conf, printed>>
  BY <1>5 DEF Work, setPending, syncFromVault, addFinalizer, writeSecret,
     updateStatus, reconcileTimeout, statusPersistTimeout, timerFires, rotate
<1>6. CASE receiveSucceeds \/ matchingSecretSyncs \/ deleteMessage
  BY <1>6 DEF receiveSucceeds, matchingSecretSyncs, deleteMessage, Polled
<1>7. CASE callFails \/ queueCallTimeout
  BY <1>7 DEF callFails, queueCallTimeout
<1>8. CASE Scrape
  BY <1>8 DEF Scrape, scrapeStarts, collect, collectTimeout, Answer
<1>9. ASSUME NEW p, goesDown(p) \/ comesBack(p) \/ isLost(p)
      PROVE  UNCHANGED <<args, conf, printed>>
  BY <1>9 DEF goesDown, comesBack, isLost
<1>10. QED
  BY <1>1, <1>2, <1>3, <1>4, <1>5, <1>6, <1>7, <1>8, <1>9 DEF Next, Startup, Poll

\* The periodic reconcile runs at the interval the startup line reports, for
\* every flag and every value of the environment variable.
THEOREM ReportedIsUsedHolds == Spec => []ReportedIsUsed
<1>1. Init => ReportedIsUsed
  <2> SUFFICES ASSUME Init
               PROVE  ReportedIsUsed
    OBVIOUS
  <2>1. conf.reported = DefaultInterval /\ conf.interval = DefaultInterval
    BY Zenon DEF Init
  <2>2. QED
    BY <2>1, ConfigurationAssumption DEF ReportedIsUsed, reconcileInterval
<1>2. ReportedIsUsed /\ [Next]_vars => ReportedIsUsed'
  <2> SUFFICES ASSUME ReportedIsUsed, [Next]_vars
               PROVE  ReportedIsUsed'
    OBVIOUS
  <2> USE DEF ReportedIsUsed, Up
  <2>1. CASE UNCHANGED <<args, conf, printed>>
    BY <2>1
  <2>2. CASE usage
    BY <2>2 DEF usage
  <2>3. CASE main
    <3>1. PICK configured :
             LET used == effectiveReconcileInterval(configured)
             IN  conf'.reported = used /\ conf'.interval = used
      BY <2>3 DEF main
    <3>2. QED
      BY <3>1, Resolved
  <2>4. CASE cacheSyncTimeout
    BY <2>4 DEF cacheSyncTimeout
  <2>5. ASSUME NEW kind, CallFails(kind)
        PROVE  ReportedIsUsed'
    BY <2>5 DEF CallFails, Polled
  <2>6. QED
    BY <2>1, <2>2, <2>3, <2>4, <2>5, ConfStep
<1>3. QED
  BY <1>1, <1>2, PTL DEF Spec

-----------------------------------------------------------------------------
(* The schedule. *)

\* A queue without repetitions, and what Append and Tail make of it.
LEMMA AppendFacts ==
    ASSUME NEW S, NEW q \in Seq(S), NEW s \in S, IsInjective(q), ~Contains(q, s)
    PROVE  /\ Append(q, s) \in Seq(S)
           /\ IsInjective(Append(q, s))
           /\ \A e : Contains(Append(q, s), e) <=> Contains(q, e) \/ e = s
<1>1. /\ Append(q, s) \in Seq(S) /\ Len(Append(q, s)) = Len(q) + 1
      /\ Append(q, s)[Len(q) + 1] = s
      /\ \A i \in 1 .. Len(q) : Append(q, s)[i] = q[i]
      /\ Len(q) \in Nat
      /\ DOMAIN q = 1 .. Len(q) /\ DOMAIN Append(q, s) = 1 .. Len(q) + 1
  OBVIOUS
<1>2. \A i \in 1 .. Len(q) + 1 : i \in 1 .. Len(q) \/ i = Len(q) + 1
  BY <1>1
<1>3. \A i \in 1 .. Len(q) : i \in 1 .. Len(q) + 1 /\ i # Len(q) + 1
  BY <1>1
<1> DEFINE a == Append(q, s)  n == Len(q)
<1>4. IsInjective(a)
  <2> SUFFICES ASSUME NEW i \in 1 .. n + 1, NEW j \in 1 .. n + 1, a[i] = a[j]
               PROVE  i = j
    BY <1>1 DEF IsInjective
  <2> QED
    BY <1>1, <1>2 DEF IsInjective, Contains
<1>5. ASSUME NEW e
      PROVE  Contains(a, e) <=> Contains(q, e) \/ e = s
  <2>1. n + 1 \in 1 .. n + 1
    BY <1>1
  <2> QED
    BY <1>1, <1>2, <1>3, <2>1 DEF Contains
<1> QED
  BY <1>1, <1>4, <1>5

LEMMA TailFacts ==
    ASSUME NEW S, NEW q \in Seq(S), IsInjective(q), q # <<>>
    PROVE  /\ Tail(q) \in Seq(S) /\ Head(q) \in S
           /\ Contains(q, Head(q))
           /\ IsInjective(Tail(q))
           /\ \A e : Contains(Tail(q), e) <=> Contains(q, e) /\ e # Head(q)
<1> DEFINE t == Tail(q)  n == Len(q)
<1>1. /\ t \in Seq(S) /\ Head(q) \in S /\ Head(q) = q[1]
      /\ n \in Nat /\ n > 0 /\ Len(t) = n - 1
      /\ \A i \in 1 .. n - 1 : t[i] = q[i + 1]
      /\ DOMAIN q = 1 .. n /\ DOMAIN t = 1 .. n - 1
  OBVIOUS
<1>2. 1 \in 1 .. n /\ \A i \in 1 .. n - 1 : i + 1 \in 1 .. n /\ i + 1 # 1
  BY <1>1
<1>3. IsInjective(t)
  <2> SUFFICES ASSUME NEW i \in 1 .. n - 1, NEW j \in 1 .. n - 1, t[i] = t[j]
               PROVE  i = j
    BY <1>1 DEF IsInjective
  <2>1. i + 1 = j + 1
    BY <1>1, <1>2 DEF IsInjective
  <2> QED
    BY <2>1
<1>4. ASSUME NEW e
      PROVE  Contains(t, e) <=> Contains(q, e) /\ e # Head(q)
  <2>1. ASSUME Contains(t, e)
        PROVE  Contains(q, e) /\ e # Head(q)
    <3>1. PICK i \in 1 .. n - 1 : t[i] = e
      BY <1>1, <2>1 DEF Contains
    <3>2. q[i + 1] = e /\ i + 1 \in 1 .. n /\ i + 1 # 1
      BY <1>1, <1>2, <3>1
    <3> QED
      BY <1>1, <1>2, <3>2 DEF Contains, IsInjective
  <2>2. ASSUME Contains(q, e), e # Head(q)
        PROVE  Contains(t, e)
    <3>1. PICK i \in 1 .. n : q[i] = e
      BY <2>2 DEF Contains
    <3>2. i # 1 /\ i - 1 \in 1 .. n - 1 /\ (i - 1) + 1 = i
      BY <1>1, <2>2, <3>1
    <3>3. t[i - 1] = e
      BY <1>1, <3>1, <3>2
    <3> QED
      BY <1>1, <3>2, <3>3 DEF Contains
  <2> QED
    BY <2>1, <2>2
<1>5. Contains(q, Head(q))
  BY <1>1, <1>2 DEF Contains
<1> QED
  BY <1>1, <1>3, <1>4, <1>5

\* The first List queues every SecretSync once.
LEMMA OrderFacts ==
    ASSUME NEW order \in SetToSeqs(Syncs)
    PROVE  /\ order \in Seq(Syncs) /\ IsInjective(order)
           /\ \A s \in Syncs : Contains(order, s)
<1> DEFINE n == Cardinality(Syncs)  D == 1 .. n
<1>1. n \in Nat /\ IsFiniteSet(Syncs)
  BY FS_CardinalityType, ManagerAssumption
<1>2. /\ order \in [D -> Syncs]
      /\ \A i, j \in D : i # j => order[i] # order[j]
  BY DEF SetToSeqs
<1>3. order \in Seq(Syncs) /\ Len(order) = n
  BY <1>1, <1>2
<1>4. order \in Injection(D, Syncs)
  BY <1>2 DEF Injection, IsInjective
<1>5. Cardinality(D) = n
  BY <1>1, FS_Interval
<1>6. order \in Surjection(D, Syncs)
  BY <1>1, <1>4, <1>5, FS_Injection
<1>7. \A s \in Syncs : \E i \in D : order[i] = s
  BY <1>6 DEF Surjection
<1> QED
  BY <1>2, <1>3, <1>4, <1>7 DEF Contains, Injection, IsInjective

\* Nothing is reconciled before the informer has synced.
Waiting == ~synced => Running = {} /\ queue = <<>> /\ timers = {}

\* The inductive invariant: the type invariant, which says that a SecretSync is
\* in one place of the queue or with one worker, and the schedule itself, from
\* the first List on.
Inv == TypeOK /\ Scheduled /\ Waiting

\* The part of it that is about the workqueue and the workers, ...
QueueOK ==
    /\ job \in [Syncs -> Jobs]
    /\ Cardinality(Running) <= MaxConcurrent
    /\ queue \in Seq(Syncs) /\ IsInjective(queue)
    /\ \A s \in Running : ~Contains(queue, s)
    /\ dirty \subseteq Running
    /\ timers \subseteq Syncs
    /\ hung \subseteq Running \cup {"poll"}
    /\ Scheduled
    /\ Waiting

\* ... and the rest.
RestOK ==
    /\ args \in Arguments \cup {Absent}
    /\ conf \in [url : URLs, reported : Int, interval : Int]
    /\ printed \subseteq Parts
    /\ down \subseteq Peers
    /\ synced \in BOOLEAN
    /\ ss \in [Syncs -> SecretSyncs]
    /\ vault \in [Syncs -> 1 .. MaxVersion]
    /\ poll \in {"receive", "list", "delete"}
    /\ failures \in 0 .. MaxFailures
    /\ scrape.pc \in {"idle", "list"}
    /\ budget \in 0 .. MaxOutages

LEMMA InvParts == Inv <=> QueueOK /\ RestOK
BY DEF Inv, TypeOK, QueueOK, RestOK

LEMMA InvPartsNext == Inv' <=> QueueOK' /\ RestOK'
BY DEF Inv, TypeOK, QueueOK, RestOK

\* A reconcile goes on to its next call: s stays where it is.
LEMMA StayStep ==
    ASSUME QueueOK, NEW s \in Running, NEW j \in Jobs, j.pc # "idle",
           job' = [job EXCEPT ![s] = j], dirty' \in {dirty, dirty \cup {s}},
           hung' \in {hung, hung \ {s}}, UNCHANGED <<queue, timers, synced>>
    PROVE  QueueOK'
<1>1. job' \in [Syncs -> Jobs] /\ Running \subseteq Syncs
  BY DEF QueueOK, Running
<1>2. Running' = Running
  BY DEF QueueOK, Running
<1> QED
  BY <1>1, <1>2 DEF QueueOK, Waiting, Scheduled

\* A reconcile ends: s is on the queue again, or a timer runs.
LEMMA DoneStep ==
    ASSUME QueueOK, NEW s \in Running, NEW again \in BOOLEAN, Done(s, again),
           timers' = timers \cup {s}, hung' = hung \ {s}, UNCHANGED synced
    PROVE  QueueOK'
<1>1. s \in Syncs /\ Idle \in Jobs
  BY ManagerAssumption DEF Running, Idle, Jobs
<1>2. job' = [job EXCEPT ![s] = Idle] /\ job' \in [Syncs -> Jobs]
  BY <1>1 DEF Done, QueueOK
<1>3. Running' = Running \ {s}
  BY <1>1, <1>2 DEF QueueOK, Running, Idle
<1>4. IsFiniteSet(Running) /\ Cardinality(Running) \in Nat
  BY FS_Subset, FS_CardinalityType, ManagerAssumption DEF Running
<1>5. Cardinality(Running') <= MaxConcurrent
  <2>1. Cardinality(Running \ {s}) = Cardinality(Running) - 1
    BY <1>4, FS_RemoveElement
  <2>2. MaxConcurrent \in Nat /\ Cardinality(Running) <= MaxConcurrent
    BY ManagerAssumption DEF QueueOK
  <2> QED
    BY <1>3, <1>4, <2>1, <2>2
<1>6. ~Contains(queue, s)
  BY DEF QueueOK
<1>7. queue' \in {queue, Append(queue, s)}
  BY DEF Done
<1>8. /\ queue' \in Seq(Syncs) /\ IsInjective(queue')
      /\ \A e : Contains(queue', e) => Contains(queue, e) \/ e = s
      /\ \A e : Contains(queue, e) => Contains(queue', e)
  <2>1. queue \in Seq(Syncs) /\ IsInjective(queue)
    BY DEF QueueOK
  <2>2. /\ Append(queue, s) \in Seq(Syncs) /\ IsInjective(Append(queue, s))
        /\ \A e : Contains(Append(queue, s), e) <=> Contains(queue, e) \/ e = s
    BY <1>1, <1>6, <2>1, AppendFacts
  <2>3. CASE queue' = queue
    BY <2>1, <2>3
  <2>4. CASE queue' = Append(queue, s)
    BY <2>2, <2>4
  <2> QED
    BY <1>7, <2>3, <2>4
<1>9. dirty' = dirty \ {s}
  BY DEF Done
<1> QED
  BY <1>1, <1>2, <1>3, <1>5, <1>8, <1>9 DEF QueueOK, Waiting, Scheduled

\* The interval is never zero, so a success too leaves a timer behind.
LEMMA AlwaysRequeued ==
    ASSUME NEW s, NEW again, ReturnAfter(s, again) \/ ReturnError(s, again)
    PROVE  Done(s, again) /\ timers' = timers \cup {s}
<1>1. reconcileInterval(conf.interval) > 0
  BY ConfigurationAssumption DEF reconcileInterval
<1> QED
  BY <1>1 DEF ReturnAfter, ReturnError

LEMMA ReconcileStep ==
    ASSUME Inv, Reconcile
    PROVE  Inv'
<1> DEFINE s == Head(queue)
<1>0. QueueOK /\ RestOK
  BY InvParts
<1>1. /\ Tail(queue) \in Seq(Syncs) /\ s \in Syncs
      /\ Contains(queue, s) /\ IsInjective(Tail(queue))
      /\ \A e : Contains(Tail(queue), e) <=> Contains(queue, e) /\ e # s
  BY <1>0, TailFacts DEF Reconcile, QueueOK
<1>2. s \notin Running
  BY <1>0, <1>1 DEF QueueOK
<1>3. PICK pc \in {"pending", "vault"} :
         job' = [job EXCEPT ![s] = [Idle EXCEPT !.pc = pc]]
  BY DEF Reconcile
<1>4. [Idle EXCEPT !.pc = pc] \in Jobs /\ [Idle EXCEPT !.pc = pc].pc # "idle"
  <2>1. 0 \in 0 .. MaxVersion
    BY ManagerAssumption
  <2> QED
    BY <2>1 DEF Idle, Jobs
<1>5. job' \in [Syncs -> Jobs] /\ Running' = Running \cup {s}
  BY <1>0, <1>1, <1>3, <1>4 DEF QueueOK, Running
<1>6. IsFiniteSet(Running) /\ Cardinality(Running) \in Nat
  BY FS_Subset, FS_CardinalityType, ManagerAssumption DEF Running
<1>7. Cardinality(Running') <= MaxConcurrent
  <2>1. Cardinality(Running \cup {s}) = Cardinality(Running) + 1
    BY <1>2, <1>6, FS_AddElement
  <2>2. MaxConcurrent \in Nat /\ Cardinality(Running) < MaxConcurrent
    BY ManagerAssumption DEF Reconcile
  <2> QED
    BY <1>5, <1>6, <2>1, <2>2
<1>8. queue' = Tail(queue) /\ UNCHANGED <<hung, ss, dirty, timers>> /\ Local
  BY DEF Reconcile
<1>9. QueueOK'
  BY <1>0, <1>1, <1>5, <1>7, <1>8 DEF QueueOK, Waiting, Scheduled, Local
<1>10. RestOK'
  BY <1>0, <1>8 DEF RestOK, Local
<1> QED
  BY <1>9, <1>10, InvPartsNext

\* A step of the worker of s that leaves a well-typed SecretSync behind.
LEMMA LocalStep ==
    ASSUME Inv, QueueOK', ss' \in [Syncs -> SecretSyncs], Local
    PROVE  Inv'
<1>1. RestOK'
  BY InvParts DEF RestOK, Local
<1> QED
  BY <1>1, InvPartsNext

\* The worker of s, whose call was answered or has timed out, is running.
LEMMA Called ==
    ASSUME Inv, NEW s \in Syncs, NEW pc, pc # "idle",
           Answered(s, pc) \/ TimedOut(s, pc)
    PROVE  s \in Running /\ hung' = hung \ {s} /\ job[s].pc = pc
BY DEF Answered, TimedOut, Running, Hangs, Inv, TypeOK

\* Every field of a SecretSync may take any value of its type.
LEMMA SecretSyncUpdates ==
    ASSUME RestOK, NEW s \in Syncs
    PROVE  /\ ss[s] \in SecretSyncs
           /\ \A state \in {"", "Pending", "InSync"} \cup Failures :
                 [ss EXCEPT ![s].state = state] \in [Syncs -> SecretSyncs]
           /\ \A v \in 0 .. MaxVersion :
                 [ss EXCEPT ![s].version = v] \in [Syncs -> SecretSyncs]
           /\ [ss EXCEPT ![s].finalizer = TRUE] \in [Syncs -> SecretSyncs]
           /\ \A obj \in SecretSyncs :
                 [ss EXCEPT ![s] = obj] \in [Syncs -> SecretSyncs]
<1>1. ss \in [Syncs -> SecretSyncs] /\ ss[s] \in SecretSyncs
  BY DEF RestOK
<1>2. \A obj \in SecretSyncs : [ss EXCEPT ![s] = obj] \in [Syncs -> SecretSyncs]
  BY <1>1
<1>3. /\ \A state \in {"", "Pending", "InSync"} \cup Failures :
            [ss[s] EXCEPT !.state = state] \in SecretSyncs
      /\ \A v \in 0 .. MaxVersion : [ss[s] EXCEPT !.version = v] \in SecretSyncs
      /\ [ss[s] EXCEPT !.finalizer = TRUE] \in SecretSyncs
  BY <1>1 DEF SecretSyncs
<1> QED
  BY <1>1, <1>2, <1>3

LEMMA JobUpdates ==
    ASSUME NEW j \in Jobs, NEW pc \in {"vault", "finalize", "write", "status"}
    PROVE  /\ [j EXCEPT !.pc = pc] \in Jobs /\ [j EXCEPT !.pc = pc].pc # "idle"
           /\ \A v \in 0 .. MaxVersion :
                 LET k == [j EXCEPT !.outcome = "InSync", !.version = v, !.pc = pc]
                 IN  k \in Jobs /\ k.pc # "idle"
           /\ \A outcome \in Failures :
                 LET k == [j EXCEPT !.pc = pc, !.outcome = outcome, !.expired = TRUE]
                 IN  k \in Jobs /\ k.pc # "idle"
BY DEF Jobs

LEMMA WorkStep ==
    ASSUME Inv, NEW s \in Syncs, Work(s)
    PROVE  Inv'
<1>0. /\ QueueOK /\ RestOK /\ job[s] \in Jobs /\ ss[s] \in SecretSyncs
      /\ vault[s] \in 0 .. MaxVersion /\ job[s].version \in 0 .. MaxVersion
      /\ job[s].outcome \in {"", "InSync"} \cup Failures
  <2>1. QueueOK /\ RestOK
    BY InvParts
  <2>2. job[s] \in Jobs /\ ss[s] \in SecretSyncs /\ vault[s] \in 1 .. MaxVersion
    BY <2>1 DEF QueueOK, RestOK
  <2>3. vault[s] \in 0 .. MaxVersion
    BY <2>2, ManagerAssumption
  <2> QED
    BY <2>1, <2>2, <2>3 DEF Jobs
\* How a step of a reconcile may go on.
<1>1. ASSUME NEW j \in Jobs, j.pc # "idle", s \in Running, hung' = hung \ {s},
             job' = [job EXCEPT ![s] = j],
             dirty' \in {dirty, dirty \cup {s}}, UNCHANGED <<queue, timers>>, Local
      PROVE  QueueOK'
  BY <1>0, <1>1, StayStep DEF Local
<1>3. ASSUME NEW again \in BOOLEAN, ReturnAfter(s, again) \/ ReturnError(s, again),
             s \in Running, hung' = hung \ {s}, Local
      PROVE  QueueOK'
  BY <1>0, <1>3, AlwaysRequeued, DoneStep DEF Local
<1>4. CASE setPending(s)
  <2>1. s \in Running /\ hung' = hung \ {s}
    BY <1>4, Called DEF setPending
  <2>2. /\ job' = [job EXCEPT ![s] = [job[s] EXCEPT !.pc = "vault"]]
        /\ dirty' = dirty \cup {s} /\ UNCHANGED <<queue, timers>> /\ Local
    BY <1>4 DEF setPending, GoesOn
  <2>3. ss' \in [Syncs -> SecretSyncs]
    BY <1>0, <1>4, SecretSyncUpdates DEF setPending
  <2>4. QueueOK'
    BY <1>0, <1>1, JobUpdates, <2>1, <2>2
  <2> QED
    BY <2>2, <2>3, <2>4, LocalStep
<1>5. CASE syncFromVault(s)
  <2>1. s \in Running /\ hung' = hung \ {s}
    BY <1>5, Called DEF syncFromVault
  <2>2. PICK pc \in {"finalize", "write", "status"} :
           job' = [job EXCEPT ![s] = [job[s] EXCEPT !.outcome = "InSync",
                                         !.version = vault[s], !.pc = pc]]
    BY <1>5 DEF syncFromVault, AfterSync
  <2>3. dirty' = dirty /\ UNCHANGED <<queue, timers>> /\ Local /\ ss' = ss
    BY <1>5 DEF syncFromVault
  <2>4. QueueOK'
    BY <1>0, <1>1, JobUpdates, <2>1, <2>2, <2>3
  <2>5. ss' \in [Syncs -> SecretSyncs]
    BY <1>0, <2>3 DEF RestOK
  <2> QED
    BY <2>3, <2>4, <2>5, LocalStep
<1>6. CASE addFinalizer(s)
  <2>1. s \in Running /\ hung' = hung \ {s}
    BY <1>6, Called DEF addFinalizer
  <2>2. PICK pc \in {"write", "status"} :
           job' = [job EXCEPT ![s] = [job[s] EXCEPT !.pc = pc]]
    BY <1>6 DEF addFinalizer, AfterSync, GoesOn
  <2>3. dirty' = dirty \cup {s} /\ UNCHANGED <<queue, timers>> /\ Local
    BY <1>6 DEF addFinalizer, GoesOn
  <2>4. ss' \in [Syncs -> SecretSyncs]
    BY <1>0, <1>6, SecretSyncUpdates DEF addFinalizer
  <2>5. QueueOK'
    BY <1>0, <1>1, JobUpdates, <2>1, <2>2, <2>3
  <2> QED
    BY <2>3, <2>4, <2>5, LocalStep
<1>7. CASE writeSecret(s)
  <2>1. s \in Running /\ hung' = hung \ {s}
    BY <1>7, Called DEF writeSecret
  <2>2. /\ job' = [job EXCEPT ![s] = [job[s] EXCEPT !.pc = "status"]]
        /\ dirty' = dirty \cup {s} /\ UNCHANGED <<queue, timers>> /\ Local
    BY <1>7 DEF writeSecret, GoesOn
  <2>3. ss' \in [Syncs -> SecretSyncs]
    BY <1>0, <1>7, SecretSyncUpdates DEF writeSecret
  <2>4. QueueOK'
    BY <1>0, <1>1, JobUpdates, <2>1, <2>2
  <2> QED
    BY <2>2, <2>3, <2>4, LocalStep
<1>8. CASE updateStatus(s)
  <2>1. s \in Running /\ hung' = hung \ {s} /\ Local
    BY <1>8, Called DEF updateStatus
  <2>2. QueueOK'
    <3>1. PICK again \in BOOLEAN : ReturnAfter(s, again) \/ ReturnError(s, again)
      BY <1>8 DEF updateStatus
    <3> QED
      BY <1>3, <2>1, <3>1
  <2>3. [[ss[s] EXCEPT !.state = job[s].outcome] EXCEPT !.recorded = job[s].outcome]
           \in SecretSyncs
    BY <1>0 DEF SecretSyncs
  <2>4. ss' \in [Syncs -> SecretSyncs]
    BY <1>0, <1>8, <2>3, SecretSyncUpdates DEF updateStatus, recordSyncOutcome
  <2> QED
    BY <2>1, <2>2, <2>4, LocalStep
<1>9. CASE reconcileTimeout(s)
  <2>1. CASE TimedOut(s, "vault") /\ Expired(s, "TransientError") /\ ss' = ss
    <3>1. s \in Running /\ hung' = hung \ {s}
      BY <2>1, Called
    <3>2. /\ job' = [job EXCEPT ![s] = [job[s] EXCEPT !.pc = "status",
                         !.outcome = "TransientError", !.expired = TRUE]]
          /\ dirty' = dirty /\ UNCHANGED <<queue, timers>> /\ Local
      BY <1>9, <2>1 DEF reconcileTimeout, Expired
    <3>3. "TransientError" \in Failures
      BY DEF Failures
    <3>4. QueueOK'
      BY <1>0, <1>1, JobUpdates, <3>1, <3>2, <3>3
    <3>5. ss' \in [Syncs -> SecretSyncs]
      BY <1>0, <2>1 DEF RestOK
    <3> QED
      BY <3>2, <3>4, <3>5, LocalStep
  <2>2. CASE /\ TimedOut(s, "write") /\ Expired(s, "SecretWriteFailed")
             /\ \E v \in {ss[s].version, job[s].version} :
                   ss' = [ss EXCEPT ![s].version = v]
    <3>1. s \in Running /\ hung' = hung \ {s}
      BY <2>2, Called
    <3>2. /\ job' = [job EXCEPT ![s] = [job[s] EXCEPT !.pc = "status",
                         !.outcome = "SecretWriteFailed", !.expired = TRUE]]
          /\ dirty' = dirty /\ UNCHANGED <<queue, timers>> /\ Local
      BY <1>9, <2>2 DEF reconcileTimeout, Expired
    <3>3. ss[s].version \in 0 .. MaxVersion
      BY <1>0 DEF SecretSyncs
    <3>4. ss' \in [Syncs -> SecretSyncs]
      <4>1. PICK v \in 0 .. MaxVersion : ss' = [ss EXCEPT ![s].version = v]
        BY <1>0, <2>2, <3>3
      <4> QED
        BY <1>0, <4>1, SecretSyncUpdates
    <3>5. "SecretWriteFailed" \in Failures
      BY DEF Failures
    <3>6. QueueOK'
      BY <1>0, <1>1, JobUpdates, <3>1, <3>2, <3>5
    <3> QED
      BY <3>2, <3>4, <3>6, LocalStep
  <2>3. CASE /\ TimedOut(s, "pending") \/ TimedOut(s, "finalize")
             /\ ReturnError(s, FALSE) /\ ss' = ss
    <3>1. s \in Running /\ hung' = hung \ {s} /\ Local
      <4>1. Local
        BY <1>9 DEF reconcileTimeout
      <4> QED
        BY <2>3, <4>1, Called
    <3>2. QueueOK'
      BY <1>3, <2>3, <3>1
    <3>3. ss' \in [Syncs -> SecretSyncs]
      BY <1>0, <2>3 DEF RestOK
    <3> QED
      BY <3>1, <3>2, <3>3, LocalStep
  <2> QED
    BY <1>9, <2>1, <2>2, <2>3 DEF reconcileTimeout
<1>10. CASE statusPersistTimeout(s)
  <2>1. s \in Running /\ hung' = hung \ {s} /\ Local
    BY <1>10, Called DEF statusPersistTimeout, statusWriteContext
  <2>2. QueueOK'
    BY <1>3, <1>10, <2>1 DEF statusPersistTimeout
  <2>3. [ss[s] EXCEPT !.recorded = job[s].outcome] \in SecretSyncs
    BY <1>0 DEF SecretSyncs
  <2>4. ss' \in [Syncs -> SecretSyncs]
    BY <1>0, <1>10, <2>3, SecretSyncUpdates DEF statusPersistTimeout,
       recordSyncOutcome, RestOK
  <2> QED
    BY <2>1, <2>2, <2>4, LocalStep
<1> QED
  BY <1>4, <1>5, <1>6, <1>7, <1>8, <1>9, <1>10 DEF Work

\* A timer that fires puts its SecretSync on the queue, or leaves it to the
\* worker that has it.
LEMMA TimerStep ==
    ASSUME Inv, NEW s \in Syncs, timerFires(s)
    PROVE  Inv'
<1>0. QueueOK /\ RestOK
  BY InvParts
<1>1. /\ timers' = timers \ {s} /\ UNCHANGED <<hung, ss, job>> /\ Local
      /\ Running' = Running
  BY DEF timerFires, Running
<1>2. CASE s \in Running
  <2>1. dirty' = dirty \cup {s} /\ queue' = queue
    BY <1>2 DEF timerFires, Add, Running
  <2> QED
    BY <1>0, <1>1, <1>2, <2>1, LocalStep DEF QueueOK, Waiting, RestOK, Scheduled, Local
<1>3. CASE s \notin Running
  <2>1. /\ dirty' = dirty
        /\ queue' = IF Contains(queue, s) THEN queue ELSE Append(queue, s)
    BY <1>3 DEF timerFires, Add, Running
  <2>2. /\ queue' \in Seq(Syncs) /\ IsInjective(queue')
        /\ \A e : Contains(queue', e) <=> Contains(queue, e) \/ e = s
    <3>1. queue \in Seq(Syncs) /\ IsInjective(queue)
      BY <1>0 DEF QueueOK
    <3>2. CASE Contains(queue, s)
      BY <2>1, <3>1, <3>2
    <3>3. CASE ~Contains(queue, s)
      BY <2>1, <3>1, <3>3, AppendFacts
    <3> QED
      BY <3>2, <3>3
  <2>0. synced
    BY <1>0 DEF timerFires, QueueOK, Waiting
  <2>3. QueueOK'
    BY <1>0, <1>1, <1>3, <2>0, <2>1, <2>2 DEF QueueOK, Waiting, Scheduled, Local
  <2>4. ss' \in [Syncs -> SecretSyncs]
    BY <1>0, <1>1 DEF RestOK
  <2> QED
    BY <1>1, <2>3, <2>4, LocalStep
<1> QED
  BY <1>2, <1>3

\* The steps that leave workers and workqueue alone.
LEMMA OutsideStep ==
    ASSUME QueueOK, UNCHANGED <<job, queue, dirty, timers, synced>>,
           hung' \subseteq hung \cup Running \cup {"poll"}
    PROVE  QueueOK'
<1>1. Running' = Running
  BY DEF Running
<1> QED
  BY <1>1 DEF QueueOK, Waiting, Scheduled

LEMMA StartupStep ==
    ASSUME Inv, usage \/ Startup \/ cacheSyncTimeout
    PROVE  Inv'
<1>0. QueueOK /\ RestOK
  BY InvParts
<1>1. CASE usage
  <2>1. RestOK'
    BY <1>0, <1>1 DEF usage, RestOK, registerQueueURLFlag, NoURL, controller
  <2>2. QueueOK'
    BY <1>0, <1>1, OutsideStep DEF usage, controller
  <2> QED
    BY <2>1, <2>2, InvPartsNext
<1>2. CASE main
  <2>1. /\ args.env \in Int \cup {Unset, Unparsable} /\ args.flag \in Int \cup {Unset}
        /\ args.queueEnv \in URLs /\ args.queueFlag \in URLs \cup {Unset}
    BY <1>0, <1>2, ManagerAssumption DEF RestOK, main
  <2> DEFINE url == queueURLFromEnv(args.queueFlag, args.queueEnv)
             interval == effectiveReconcileInterval(
                            configuredInterval(args.env, args.flag))
  <2>2. url \in URLs
    BY <2>1 DEF queueURLFromEnv
  <2>3. configuredInterval(args.env, args.flag) \in Int
    BY <2>1, ConfigurationAssumption DEF configuredInterval,
       durationFromEnv
  <2>4. interval \in Int
    BY <2>3, ConfigurationAssumption DEF effectiveReconcileInterval
  <2>5. RedactURL(url) \subseteq Parts
    BY DEF RedactURL, Parts
  <2>6. /\ conf' = [url |-> url, reported |-> interval, interval |-> interval]
        /\ printed' = printed \cup RedactURL(url) /\ args' = Absent
        /\ UNCHANGED <<down, hung, synced, controller, poll, failures, scrape, budget>>
    BY <1>2 DEF main
  <2> HIDE DEF url, interval
  <2>7. RestOK'
    BY <1>0, <2>2, <2>4, <2>5, <2>6 DEF RestOK, controller
  <2>8. QueueOK'
    BY <1>0, <2>6, OutsideStep DEF controller
  <2> QED
    BY <2>7, <2>8, InvPartsNext
<1>3. ASSUME NEW order \in SetToSeqs(Syncs), informerSyncs(order)
      PROVE  Inv'
  <2>1. RestOK'
    BY <1>0, <1>3 DEF informerSyncs, RestOK
  <2>2. order \in Seq(Syncs) /\ IsInjective(order)
        /\ \A s \in Syncs : Contains(order, s)
    BY OrderFacts
  <2>3. QueueOK'
    BY <1>0, <1>3, <2>2 DEF informerSyncs, QueueOK, Waiting, Scheduled, Running
  <2> QED
    BY <2>1, <2>3, InvPartsNext
<1>4. CASE cacheSyncTimeout
  <2>1. RedactURL(conf.url) \subseteq Parts
    BY DEF RedactURL, Parts
  <2>2. 0 \in 0 .. MaxFailures
    BY ManagerAssumption
  <2>3. RestOK'
    BY <1>0, <1>4, <2>1, <2>2 DEF cacheSyncTimeout, RestOK, controller
  <2>4. QueueOK'
    BY <1>0, <1>4, OutsideStep DEF cacheSyncTimeout, controller
  <2> QED
    BY <2>3, <2>4, InvPartsNext
<1> QED
  BY <1>1, <1>2, <1>3, <1>4 DEF Startup

LEMMA PeerStep ==
    ASSUME Inv,
           \/ Poll \/ Scrape
           \/ \E s \in Syncs : rotate(s)
           \/ \E p \in Peers : goesDown(p) \/ comesBack(p)
           \/ \E x \in Syncs \cup {"poll"} : isLost(x)
    PROVE  Inv'
<1>0. QueueOK /\ RestOK
  BY InvParts
<1>1. CASE Poll
  <2>1. PICK next \in {"receive", "list", "delete"}, n \in 0 .. MaxFailures,
             text \in SUBSET Parts : Polled(next, n, text)
    <3>1. failures \in 0 .. MaxFailures /\ 0 \in 0 .. MaxFailures
      BY <1>0, ManagerAssumption DEF RestOK
    <3>2. CASE receiveSucceeds \/ matchingSecretSyncs \/ deleteMessage
      BY <3>1, <3>2 DEF receiveSucceeds, matchingSecretSyncs, deleteMessage
    <3>3. CASE callFails \/ queueCallTimeout
      <4>1. PICK kind \in {"url", "response"} : CallFails(kind)
        BY <3>3 DEF callFails, queueCallTimeout
      <4> DEFINE n == IF poll = "receive" /\ failures < MaxFailures
                      THEN failures + 1 ELSE failures
                 text == redactURLError([kind |-> kind, url |-> conf.url])
      <4>2. Polled("receive", n, text)
        BY <4>1 DEF CallFails
      <4>3. n \in 0 .. MaxFailures
        BY <3>1, ManagerAssumption
      <4>4. text \in SUBSET Parts
        <5>1. conf.url \in URLs
          BY <1>0 DEF RestOK
        <5>2. Quotable \subseteq Parts
          BY DEF Quotable
        <5> QED
          BY <5>1, <5>2, Redacted
      <4> HIDE DEF n, text
      <4> QED
        BY <4>2, <4>3, <4>4
    <3> QED
      BY <1>1, <3>2, <3>3 DEF Poll
  <2>2. RestOK'
    BY <1>0, <2>1 DEF Polled, RestOK, controller
  <2>3. QueueOK'
    BY <1>0, <2>1, OutsideStep DEF Polled, controller
  <2> QED
    BY <2>2, <2>3, InvPartsNext
<1>2. CASE Scrape
  <2>1. RestOK'
    BY <1>0, <1>2 DEF Scrape, scrapeStarts, collect, collectTimeout, Answer,
       RestOK, controller
  <2>2. QueueOK'
    BY <1>0, <1>2, OutsideStep DEF Scrape, scrapeStarts, collect, collectTimeout,
       Answer, controller
  <2> QED
    BY <2>1, <2>2, InvPartsNext
<1>3. ASSUME NEW s \in Syncs, rotate(s)
      PROVE  Inv'
  <2>1. vault' \in [Syncs -> 1 .. MaxVersion]
    <3>1. vault \in [Syncs -> 1 .. MaxVersion] /\ vault[s] < MaxVersion
      BY <1>0, <1>3 DEF rotate, RestOK
    <3>2. vault[s] + 1 \in 1 .. MaxVersion
      BY <3>1, ManagerAssumption
    <3> QED
      BY <1>3, <3>1, <3>2 DEF rotate
  <2>2. RestOK'
    BY <1>0, <1>3, <2>1 DEF rotate, RestOK
  <2>3. QueueOK'
    BY <1>0, <1>3, OutsideStep DEF rotate
  <2> QED
    BY <2>2, <2>3, InvPartsNext
<1>4. ASSUME NEW p \in Peers, goesDown(p) \/ comesBack(p)
      PROVE  Inv'
  <2>1. RestOK'
    BY <1>0, <1>4, ManagerAssumption DEF goesDown, comesBack, RestOK, controller
  <2>2. QueueOK'
    BY <1>0, <1>4, OutsideStep DEF goesDown, comesBack, controller
  <2> QED
    BY <2>1, <2>2, InvPartsNext
<1>5. ASSUME NEW x \in Syncs \cup {"poll"}, isLost(x)
      PROVE  Inv'
  <2>1. RestOK'
    BY <1>0, <1>5 DEF isLost, RestOK, controller
  <2>2. QueueOK'
    BY <1>0, <1>5, OutsideStep DEF isLost, controller
  <2> QED
    BY <2>1, <2>2, InvPartsNext
<1> QED
  BY <1>1, <1>2, <1>3, <1>4, <1>5

LEMMA InvInit == Init => Inv
<1> SUFFICES ASSUME Init
             PROVE  Inv
  OBVIOUS
<1>1. Running = {}
  BY DEF Init, Running, Idle
<1>2. Idle \in Jobs /\ 1 \in 1 .. MaxVersion /\ 0 \in 0 .. MaxVersion
  BY ManagerAssumption DEF Idle, Jobs
<1>3. QueueOK
  <2>1. job \in [Syncs -> Jobs]
    BY <1>2 DEF Init
  <2>2. Cardinality(Running) <= MaxConcurrent
    BY <1>1, FS_EmptySet, ManagerAssumption
  <2>3. /\ queue = <<>> /\ dirty = {} /\ timers = {} /\ hung = {} /\ ~synced
    BY DEF Init
  <2>4. queue \in Seq(Syncs) /\ IsInjective(queue)
    BY <2>3 DEF IsInjective
  <2> QED
    BY <1>1, <2>1, <2>2, <2>3, <2>4 DEF QueueOK, Waiting, Scheduled
<1>4. RestOK
  <2>1. NoURL \in URLs
    BY DEF NoURL, URLs
  <2>2. conf \in [url : URLs, reported : Int, interval : Int]
    BY <2>1, ConfigurationAssumption DEF Init
  <2>3. ss \in [Syncs -> SecretSyncs] /\ vault \in [Syncs -> 1 .. MaxVersion]
    BY <1>2 DEF Init, SecretSyncs
  <2>4. args \in Arguments
    BY Zenon DEF Init
  <2>5. scrape.pc = "idle"
    BY DEF Init
  <2>6. /\ printed = {} /\ down \in SUBSET {"informer"} /\ synced = FALSE
        /\ poll = "receive" /\ failures = 0 /\ budget = MaxOutages
    BY DEF Init
  <2>9. down \subseteq Peers
    BY <2>6 DEF Peers
  <2>7. failures \in 0 .. MaxFailures /\ budget \in 0 .. MaxOutages
    BY <2>6, ManagerAssumption
  <2>8. args \in Arguments \cup {Absent}
    BY <2>4, Zenon
  <2> QED
    BY <2>2, <2>3, <2>5, <2>6, <2>7, <2>8, <2>9, Zenon DEF RestOK
<1> QED
  BY <1>3, <1>4, InvParts

LEMMA InvNext == Inv /\ [Next]_vars => Inv'
<1> SUFFICES ASSUME Inv, [Next]_vars
             PROVE  Inv'
  OBVIOUS
<1>1. CASE Next
  BY <1>1, StartupStep, ReconcileStep, WorkStep, TimerStep, PeerStep DEF Next
<1>2. CASE UNCHANGED vars
  BY <1>2 DEF vars, Inv, TypeOK, Scheduled, Waiting, Running
<1> QED
  BY <1>1, <1>2

THEOREM InvHolds == Spec => []Inv
  BY InvInit, InvNext, PTL DEF Spec

\* A SecretSync is queued once and never while a worker has it, and no more
\* reconciles run than there are workers, whatever hangs.
THEOREM TypeCorrect == Spec => []TypeOK
<1>1. Inv => TypeOK
  BY DEF Inv
<1> QED
  BY <1>1, InvHolds, PTL

\* No SecretSync ever drops out of the schedule: not through a timeout, a failed
\* status write or a zero interval, for any number of SecretSyncs and workers.
THEOREM ScheduledHolds == Spec => []Scheduled
<1>1. Inv => Scheduled
  BY DEF Inv
<1> QED
  BY <1>1, InvHolds, PTL

-----------------------------------------------------------------------------
(* The log. *)

\* SASTokenNeverLogged with what it needs: nothing is printed before main has
\* settled which URL it is.
LogOK == SASTokenNeverLogged /\ (~Up => printed = {})

\* For every queue URL, however often and in whatever way the queue fails, its
\* query is not printed, and if the URL parses, nothing but its location is.
\* What is printed of an unparseable URL is what the cause of the parse error
\* quotes; that this is not the query is part of URLs.
THEOREM SASTokenNeverLoggedHolds == Spec => []SASTokenNeverLogged
<1>1. Init => LogOK
  <2> SUFFICES ASSUME Init
               PROVE  LogOK
    OBVIOUS
  <2>1. printed = {}
    BY DEF Init
  <2> QED
    BY <2>1 DEF LogOK, SASTokenNeverLogged
<1>2. Inv /\ LogOK /\ [Next]_vars => LogOK'
  <2> SUFFICES ASSUME Inv, LogOK, [Next]_vars
               PROVE  LogOK'
    OBVIOUS
  <2> USE DEF LogOK, SASTokenNeverLogged, Up
  <2>0. conf.url \in URLs /\ "query" \notin Quotable /\ "query" # "location"
    BY DEF Inv, TypeOK, Quotable
  <2>1. CASE UNCHANGED <<args, conf, printed>>
    BY <2>1
  <2>2. CASE usage
    BY <2>2 DEF usage, registerQueueURLFlag, NoURL
  <2>3. CASE main
    <3>1. printed = {} /\ \E url : printed' = RedactURL(url)
      BY <2>3 DEF main
    <3>2. printed' \subseteq {"location"} /\ args' = Absent
      BY <2>3, <3>1 DEF main, RedactURL
    <3> QED
      BY <2>0, <3>2
  <2>4. CASE cacheSyncTimeout
    <3>1. /\ printed' = printed \cup RedactURL(conf.url)
          /\ UNCHANGED <<args, conf>>
      BY <2>4 DEF cacheSyncTimeout
    <3>2. args = Absent
      BY <2>4 DEF cacheSyncTimeout
    <3> QED
      BY <2>0, <3>1, <3>2, Redacted
  <2>5. ASSUME NEW kind \in {"url", "response"}, CallFails(kind), Listening
        PROVE  LogOK'
    <3> DEFINE text == redactURLError([kind |-> kind, url |-> conf.url])
    <3>1. printed' = printed \cup text /\ UNCHANGED <<args, conf>>
      BY <2>5 DEF CallFails, Polled
    <3>2. text \subseteq Quotable /\ (conf.url.parses => text \subseteq {"location"})
      BY <2>0, Redacted
    <3>3. args = Absent
      BY <2>5 DEF Listening
    <3> HIDE DEF text
    <3> QED
      BY <2>0, <3>1, <3>2, <3>3
  <2>6. QED
    BY <2>1, <2>2, <2>3, <2>4, <2>5, ConfStep
<1>3. LogOK => SASTokenNeverLogged
  BY DEF LogOK
<1> QED
  BY <1>1, <1>2, <1>3, InvHolds, PTL DEF Spec
=============================================================================

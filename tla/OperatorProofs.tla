--------------------------- MODULE OperatorProofs ---------------------------
(* What Reconciler promises still holds when the queue listener drives it:  *)
(* for any number of messages, SecretSyncs, names and versions, any channel *)
(* and batch size, and any number of shutdowns and crashes.                 *)
EXTENDS Operator, ReconcilerProofs

-----------------------------------------------------------------------------
(* A step of the operator is a step of the reconciler, an event from the    *)
(* channel, or a new start of the process.                                  *)

LEMMA ListenerStep ==
    ASSUME Deliver \/ Poll \/ Handle \/ shutdown \/ UNCHANGED allVars
    PROVE  UNCHANGED vars
BY DEF Deliver, Poll, Handle, shutdown, allVars

LEMMA ReconcilerStep ==
    ASSUME [NextAll]_allVars
    PROVE  \/ [Next]_vars
           \/ consume
           \/ Restarted
<1>1. ASSUME NEW c \in Owners, Controller(c)
      PROVE  Next
  BY <1>1 DEF Controller, Start, Working, Informed, Next
<1>2. Environment => Next
  BY DEF Environment, Next
<1> QED
  BY <1>1, <1>2, ListenerStep DEF NextAll

LEMMA ConsumeStep ==
    ASSUME consume
    PROVE  /\ queued' = queued \cup {Head(channel)}
           /\ UNCHANGED <<cluster, vault, timers, worker, written, budget>>
BY DEF consume, L!consume

LEMMA ChannelStep ==
    ASSUME channel \in Seq(Owners), [NextAll]_allVars
    PROVE  channel' \in Seq(Owners)
<1>1. CASE UNCHANGED listenerVars
  BY <1>1 DEF listenerVars
<1>2. CASE Deliver \/ Poll \/ shutdown
  BY <1>2 DEF Deliver, Poll, shutdown, L!publish, L!visibilityTimeout, L!Poll,
     L!receive, L!shutdown
<1>3. CASE Handle
  <2>1. ASSUME NEW s \in Owners, L!send(s)
        PROVE  channel' = Append(channel, s)
    BY <2>1 DEF L!send
  <2>2. ASSUME NEW m \in Messages, L!handleMessage(m)
        PROVE  channel' = channel
    BY <2>2 DEF L!handleMessage
  <2>3. L!sendCancelled \/ L!deleteMessage => channel' = channel
    BY DEF L!sendCancelled, L!deleteMessage
  <2> QED
    BY <1>3, <2>1, <2>2, <2>3 DEF Handle, L!Handle
<1>4. CASE consume
  <2>1. channel # <<>> /\ channel' = Tail(channel)
    BY <1>4 DEF consume, L!consume
  <2> QED
    BY <2>1
<1>5. CASE Restarted
  BY <1>5 DEF Restarted, L!StartOver
<1>6. ASSUME NEW c \in Owners, Controller(c)
      PROVE  UNCHANGED listenerVars
  BY <1>6 DEF Controller, Start, Working, Informed
<1>7. Environment \/ UNCHANGED allVars => UNCHANGED listenerVars
  BY DEF Environment, allVars
<1> QED
  BY <1>1, <1>2, <1>3, <1>4, <1>5, <1>6, <1>7 DEF NextAll

InvAll == Inv /\ channel \in Seq(Owners)

LEMMA InvAllStep ==
    ASSUME InvAll, [NextAll]_allVars
    PROVE  InvAll'
<1>1. Inv /\ channel \in Seq(Owners)
  BY DEF InvAll
<1>2. ASSUME [Next]_vars
      PROVE  Inv'
  BY <1>1, <1>2, NextStep
<1>3. ASSUME consume
      PROVE  Inv'
  <2>1. channel # <<>>
    BY <1>3 DEF consume, L!consume
  <2>2. {Head(channel)} \in SUBSET Owners
    BY <1>1, <2>1
  <2> QED
    BY <1>1, <1>3, <2>2, ConsumeStep, EnqueueStep
<1>4. ASSUME Restarted
      PROVE  Inv'
  <2>1. Startup /\ UNCHANGED budget
    BY <1>4 DEF Restarted
  <2> QED
    BY <1>1, <2>1, BudgetStays, StartupStep
<1>5. Inv'
  BY <1>2, <1>3, <1>4, ReconcilerStep
<1>6. channel' \in Seq(Owners)
  BY <1>1, ChannelStep
<1> QED
  BY <1>5, <1>6 DEF InvAll

LEMMA InvarianceAll == SpecAll => []InvAll
<1>1. ASSUME InitAll
      PROVE  InvAll
  <2>1. Init
    BY <1>1 DEF InitAll
  <2>2. channel = <<>>
    BY <1>1, Zenon DEF InitAll, L!Init
  <2>3. channel \in Seq(Owners)
    BY <2>2
  <2> QED
    BY <2>1, <2>3, InitInv DEF InvAll
<1>2. ASSUME InvAll, [NextAll]_allVars
      PROVE  InvAll'
  BY <1>2, InvAllStep
<1> QED
  BY <1>1, <1>2, PTL DEF SpecAll

-----------------------------------------------------------------------------
(* Theorems. *)

\* An event from the channel and a new start leave the cluster as it is.
LEMMA ClusterStays ==
    ASSUME consume \/ Restarted
    PROVE  UNCHANGED <<cr, sec>>
BY DEF consume, Restarted, Startup, cluster

\* An event for a SecretSync that is gone, taken from the channel late, after a
\* crash or twice, writes nothing: a worker that got as far as the write holds
\* a copy with the finalizer and no deletion, and no such SecretSync goes away.
THEOREM NoResurrectionHolds == SpecAll => NoResurrection
<1>1. InvAll /\ [NextAll]_allVars =>
         \A c \in Owners, n \in Names :
            cr[c] = Absent /\ worker'[c] # worker[c]
               => sec'[n] \in {sec[n], Absent}
  <2> SUFFICES ASSUME InvAll, [NextAll]_allVars, NEW c \in Owners, NEW n \in Names,
                      cr[c] = Absent, Acts(c), sec'[n] # sec[n]
               PROVE  sec'[n] = Absent
    BY DEF Acts
  <2>1. Inv /\ OwnerOK(c) /\ TypeOK
    BY DEF InvAll, Inv
  <2>2. [Next]_vars
    BY ReconcilerStep, ClusterStays
  <2>3. worker[c].pc # "write"
    <3>1. SUFFICES ASSUME worker[c].pc = "write"
                   PROVE  FALSE
      OBVIOUS
    <3>2. worker[c].ss.finalizer /\ ~worker[c].ss.deleting
      BY <2>1, <3>1 DEF OwnerOK, SyncOK, DeleteOK
    <3>3. worker[c].ss # Absent
      BY <2>1, <3>1, Held
    <3> QED
      BY <2>1, <3>2, <3>3 DEF OwnerOK, CopyOK, Gone
  <2> QED
    BY <2>1, <2>2, <2>3, SecretChanges
<1> QED
  BY <1>1, InvarianceAll, PTL DEF SpecAll, NoResurrection

\* Driven by the queue, with shutdowns and crashes of the whole process: every
\* Secret's owner carries the finalizer, no SecretSync is forgotten, InSync and
\* SourceDeleted are earned.
THEOREM OperatorSafe ==
    SpecAll => [](/\ FinalizerBeforeSecret /\ NeverForgotten
                  /\ InSyncEarned /\ SourceDeletedMeansSynced)
<1>1. InvAll => /\ FinalizerBeforeSecret /\ NeverForgotten
                /\ InSyncEarned /\ SourceDeletedMeansSynced
  BY DEF InvAll, Inv, OwnerOK, StatusOK, InSyncEarned,
     SourceDeletedMeansSynced, Wrote
<1> QED
  BY <1>1, InvarianceAll, PTL

\* FR-005 from the queue to the Secret: whatever order and however often the
\* events arrive, before and after a crash, no older version is put back.
THEOREM OperatorNoRollback == SpecAll => NoRollback
<1>1. InvAll /\ [NextAll]_allVars =>
         \A n \in Names, c \in Owners :
            /\ sec[n] # Absent /\ sec'[n] # Absent /\ sec'[n] # sec[n]
            /\ sec[n].controller = c /\ sec'[n].controller = c /\ Acts(c)
            => sec'[n].version >= sec[n].version
  BY ReconcilerStep, ClusterStays, LatestWins DEF InvAll
<1> QED
  BY <1>1, InvarianceAll, PTL DEF SpecAll, NoRollback

\* FR-013 in the whole process: neither a shutdown nor a crash nor an event
\* costs a workload its Secret, short of a deletion or a completed move.
THEOREM OperatorKeepsLastKnownGood == SpecAll => KeepLastKnownGood
<1>1. InvAll /\ [NextAll]_allVars =>
         \A n \in Names, c \in Owners :
            /\ sec[n] # Absent /\ sec[n].controller = c /\ sec'[n] = Absent
            /\ Acts(c)
            => \/ cr[c] = Absent
               \/ cr[c].deleting
               \/ cr[c].state = "InSync" /\ cr[c].observed.target # n
  BY ReconcilerStep, ClusterStays, TakesOwn DEF InvAll
<1> QED
  BY <1>1, InvarianceAll, PTL DEF SpecAll, KeepLastKnownGood

\* Under NamedAssumption, status.syncedVersion never goes back or blank in the
\* whole process either.
THEOREM OperatorSyncedNeverRegresses == SpecAll => SyncedNeverRegresses
<1>1. InvAll /\ [NextAll]_allVars =>
         \A c \in Owners :
            /\ cr[c] # Absent /\ cr'[c] # Absent
            /\ cr[c].synced # NoVersion
            => cr'[c].synced # NoVersion /\ cr'[c].synced >= cr[c].synced
  <2> SUFFICES ASSUME InvAll, [NextAll]_allVars, NEW c \in Owners,
                      cr[c] # Absent, cr'[c] # Absent, cr[c].synced # NoVersion
               PROVE  cr'[c].synced # NoVersion /\ cr'[c].synced >= cr[c].synced
    OBVIOUS
  <2>1. Inv /\ TypeOK
    BY DEF InvAll, Inv
  <2>2. CASE [Next]_vars
    BY <2>1, <2>2, SyncedRises
  <2>3. CASE UNCHANGED cr
    <3>1. cr[c].synced \in Versions
      BY <2>1, Held, SecretSyncFields
    <3>2. \A v \in Versions : v >= v
      BY ReconcilerAssumption
    <3> QED
      BY <2>3, <3>1, <3>2
  <2> QED
    BY <2>2, <2>3, ReconcilerStep, ClusterStays
<1> QED
  BY <1>1, InvarianceAll, PTL DEF SpecAll, SyncedNeverRegresses
=============================================================================

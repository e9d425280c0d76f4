--------------------------- MODULE ListenerProofs ---------------------------
(* Listener keeps Inv, and with it NoLostTrigger, for any number of messages, *)
(* SecretSyncs and secrets and any batch size, threshold and channel size.    *)
EXTENDS Listener, TLAPS

USE FoldAssumption, ListenerAssumption

LEMMA InvInit == Init => Inv
<1> SUFFICES ASSUME Init PROVE Inv
  OBVIOUS
<1>1. TypeOK
  BY DEF Init, TypeOK, Continue, Loop, Msg
<1>2. NoLostTrigger
  BY DEF Init, NoLostTrigger, News, Msg
<1>3. AcceptedBeforeDelete
  BY DEF Init, AcceptedBeforeDelete, Continue, Loop, Msg, Bodies
<1> QED
  BY <1>1, <1>2, <1>3 DEF Inv

LEMMA PublishStep ==
  ASSUME Inv, NEW m \in Messages, NEW v \in 1 .. MaxVersion, publish(m, v)
  PROVE  Inv'
<1> USE DEF Inv
<1>1. TypeOK'
  BY DEF publish, Msg, TypeOK, controller
<1>2. NoLostTrigger'
  BY DEF publish, Msg, NoLostTrigger, News, Coming, controller, TypeOK
<1>3. AcceptedBeforeDelete'
  BY DEF publish, Msg, AcceptedBeforeDelete, News, Coming, controller, TypeOK, Bodies
<1> QED
  BY <1>1, <1>2, <1>3

LEMMA TimeoutStep ==
  ASSUME Inv, NEW m \in Messages, visibilityTimeout(m)
  PROVE  Inv'
<1> USE DEF Inv
<1>1. TypeOK'
  BY DEF visibilityTimeout, Msg, TypeOK, controller
<1>2. NoLostTrigger'
  BY DEF visibilityTimeout, Msg, NoLostTrigger, News, Coming, controller, TypeOK
<1>3. AcceptedBeforeDelete'
  BY DEF visibilityTimeout, Msg, AcceptedBeforeDelete, News, Coming, controller, TypeOK
<1> QED
  BY <1>1, <1>2, <1>3

LEMMA ReceiveStep ==
  ASSUME Inv, NEW S \in SUBSET Messages, receive(S)
  PROVE  Inv'
<1> USE DEF Inv
<1>1. TypeOK'
  BY DEF receive, Msg, Loop, TypeOK, controller, Continue
<1>2. NoLostTrigger'
  BY DEF receive, Msg, Loop, NoLostTrigger, News, Coming, controller, TypeOK
<1>3. AcceptedBeforeDelete'
  BY DEF receive, Msg, Loop, AcceptedBeforeDelete, News, Coming, controller, TypeOK, Continue
<1> QED
  BY <1>1, <1>2, <1>3

LEMMA HandleMessageStep ==
  ASSUME Inv, NEW m \in Messages, handleMessage(m)
  PROVE  Inv'
<1> USE DEF Inv
<1>1. TypeOK'
  BY DEF handleMessage, Loop, Continue, TypeOK, controller, Msg, Discard, Fault, matchingSecretSyncs
<1>2. NoLostTrigger'
  BY DEF handleMessage, Loop, Continue, NoLostTrigger, News, Coming, controller, TypeOK, Discard, Fault
<1>3. AcceptedBeforeDelete'
  BY DEF handleMessage, Loop, Continue, AcceptedBeforeDelete, News, Coming, controller, TypeOK, Msg, Discard, Fault, matchingSecretSyncs, matches
<1> QED
  BY <1>1, <1>2, <1>3

LEMMA SendStep ==
  ASSUME Inv, NEW s \in Syncs, send(s)
  PROVE  Inv'
<1> USE DEF Inv
<1>1. TypeOK'
  BY DEF send, Loop, TypeOK, controller
<1>2. Coming(s)' /\ \A t \in Syncs : Coming(t) => Coming(t)'
  <2>1. /\ channel \in Seq(Syncs)
        /\ channel' = Append(channel, s)
        /\ UNCHANGED <<workqueue, running, spec>>
    BY DEF TypeOK, send, controller
  <2>2. /\ Len(channel) + 1 \in DOMAIN channel'
        /\ channel'[Len(channel) + 1] = s
    BY <2>1
  <2>3. \A i \in DOMAIN channel : i \in DOMAIN channel' /\ channel'[i] = channel[i]
    BY <2>1
  <2> HIDE DEF Inv
  <2> QED
    BY <2>1, <2>2, <2>3 DEF Coming
<1>3. \A m \in Messages, t \in Syncs : News(m, t)' = News(m, t)
  BY DEF send, News, controller
<1>4. NoLostTrigger'
  BY <1>2, <1>3 DEF send, NoLostTrigger
<1>5. AcceptedBeforeDelete'
  <2>1. /\ lis'.batch = lis.batch /\ lis'.msg = lis.msg
        /\ lis'.todo = lis.todo \ {s}
        /\ lis.msg \in Messages
        /\ UNCHANGED <<box, vault, synced, poisoned>>
    BY DEF send, Loop, TypeOK, controller
  <2> QED
    BY <1>2, <1>3, <2>1 DEF AcceptedBeforeDelete
<1> QED
  BY <1>1, <1>4, <1>5

LEMMA SendCancelledStep ==
  ASSUME Inv, sendCancelled
  PROVE  Inv'
<1> USE DEF Inv
<1>1. TypeOK'
  BY DEF sendCancelled, TypeOK, controller, Continue, Loop, Msg
<1>2. NoLostTrigger'
  BY DEF sendCancelled, NoLostTrigger, News, Coming, controller, TypeOK
<1>3. AcceptedBeforeDelete'
  BY DEF sendCancelled, AcceptedBeforeDelete, News, Coming, controller, TypeOK, Continue, Loop, Msg
<1> QED
  BY <1>1, <1>2, <1>3

LEMMA DeleteMessageStep ==
  ASSUME Inv, deleteMessage
  PROVE  Inv'
<1> USE DEF Inv
<1>1. /\ lis.msg \in Messages /\ lis.todo = {}
      /\ lis' = Continue(lis.batch)
      /\ UNCHANGED <<vault, live, channel, spec, workqueue, running, synced, poisoned>>
  BY DEF deleteMessage, TypeOK, controller
<1>2. CASE UNCHANGED box
  <2>1. budget' \in [edits : Nat, faults : Nat]
    BY DEF deleteMessage, Fault, TypeOK
  <2>2. TypeOK'
    BY <1>1, <1>2, <2>1 DEF TypeOK, Continue, Loop
  <2>3. NoLostTrigger'
    BY <1>1, <1>2 DEF NoLostTrigger, News, Coming
  <2>4. AcceptedBeforeDelete'
    BY <1>1, <1>2 DEF AcceptedBeforeDelete, Continue, Loop
  <2> QED
    BY <2>2, <2>3, <2>4
<1>3. CASE /\ box' = [box EXCEPT ![lis.msg] =
                  Msg("deleted", box[lis.msg].version, box[lis.msg].count)]
           /\ UNCHANGED budget
  <2>1. box' \in [Messages -> [state : {"unsent", "visible", "leased", "deleted"},
                               version : 0 .. MaxVersion, count : Nat]]
    BY <1>1, <1>3 DEF TypeOK, Msg
  <2>2. TypeOK'
    BY <1>1, <1>3, <2>1 DEF TypeOK, Continue, Loop
  <2>3. /\ \A m \in Messages : box'[m].version = box[m].version
        /\ \A m \in Messages \ {lis.msg} : box'[m].state = box[m].state
    BY <1>1, <1>3 DEF TypeOK, Msg
  <2>4. box[lis.msg].state \in {"visible", "leased"}
    BY <1>1 DEF AcceptedBeforeDelete
  <2>5. \A m \in Messages, s \in Syncs : News(m, s)' => News(m, s)
    <3> SUFFICES ASSUME NEW m \in Messages, NEW s \in Syncs, News(m, s)'
                 PROVE  News(m, s)
      OBVIOUS
    <3>1. box[m].state # "unsent"
      <4>1. CASE m = lis.msg
        BY <2>4, <4>1
      <4>2. CASE m # lis.msg
        BY <2>3, <4>2 DEF News
      <4> QED
        BY <4>1, <4>2
    <3> QED
      BY <1>1, <2>3, <3>1 DEF News
  <2>6. \A s \in Syncs : Coming(s)' <=> Coming(s)
    BY <1>1 DEF Coming
  <2>7. NoLostTrigger'
    <3> SUFFICES ASSUME NEW m \in Messages, NEW s \in Syncs, News(m, s)',
                        m \notin poisoned'
                 PROVE  box'[m].state \in {"visible", "leased"} \/ Coming(s)'
      BY DEF NoLostTrigger
    <3>1. News(m, s) /\ m \notin poisoned
      BY <1>1, <2>5
    <3>2. CASE m = lis.msg
      <4>1. m # None
        BY <3>2, <1>1
      <4> QED
        BY <1>1, <2>6, <3>1, <3>2, <4>1 DEF AcceptedBeforeDelete
    <3>3. CASE m # lis.msg
      BY <2>3, <2>6, <3>1, <3>3 DEF NoLostTrigger
    <3> QED
      BY <3>2, <3>3
  <2>8. AcceptedBeforeDelete'
    <3>1. lis'.msg = None /\ lis'.batch = lis.batch
      BY <1>1 DEF Continue, Loop
    <3>2. lis.msg \notin lis.batch /\ lis.batch \subseteq Messages
      BY <1>1 DEF AcceptedBeforeDelete, TypeOK
    <3>3. \A m \in lis.batch : box'[m].state \in {"visible", "leased"}
      BY <2>3, <3>2 DEF AcceptedBeforeDelete
    <3>4. \A m \in Messages : box'[m].version <= vault'[Fold[BodyOf[m].name]]
      BY <1>1, <2>3 DEF AcceptedBeforeDelete
    <3> QED
      BY <1>1, <3>1, <3>3, <3>4 DEF AcceptedBeforeDelete
  <2> QED
    BY <2>2, <2>7, <2>8
<1> QED
  BY <1>2, <1>3 DEF deleteMessage

LEMMA ConsumeStep ==
  ASSUME Inv, consume
  PROVE  Inv'
<1> USE DEF Inv
<1>1. TypeOK'
  BY DEF consume, TypeOK
<1>2. \A s \in Syncs : Coming(s) => Coming(s)'
  <2> SUFFICES ASSUME NEW s \in Syncs, NEW i \in DOMAIN channel, channel[i] = s
               PROVE  Coming(s)'
    BY DEF Coming, consume
  <2>1. /\ channel \in Seq(Syncs) /\ channel # <<>>
        /\ channel' = Tail(channel)
        /\ workqueue' = workqueue \cup {Head(channel)}
    BY DEF consume, TypeOK
  <2>2. CASE i = 1
    BY <2>1, <2>2 DEF Coming
  <2>3. CASE i # 1
    <3>1. i - 1 \in DOMAIN channel' /\ channel'[i - 1] = s
      BY <2>1, <2>3
    <3> QED
      BY <3>1 DEF Coming
  <2> QED
    BY <2>2, <2>3
<1>3. \A m \in Messages, s \in Syncs : News(m, s)' = News(m, s)
  BY DEF consume, News
<1>4. NoLostTrigger'
  BY <1>2, <1>3 DEF consume, NoLostTrigger
<1>5. AcceptedBeforeDelete'
  <2>1. UNCHANGED <<lis, box, vault, synced, poisoned>> /\ lis.msg \in Messages \cup {None}
    BY DEF consume, TypeOK
  <2> QED
    BY <1>2, <1>3, <2>1 DEF AcceptedBeforeDelete
<1> QED
  BY <1>1, <1>4, <1>5

LEMMA ReconcileStep ==
  ASSUME Inv, NEW s \in Syncs, Reconcile(s)
  PROVE  Inv'
<1> USE DEF Inv
<1>1. TypeOK'
  BY DEF Reconcile, TypeOK
<1>2. NoLostTrigger'
  BY DEF Reconcile, NoLostTrigger, News, Coming, TypeOK
<1>3. AcceptedBeforeDelete'
  BY DEF Reconcile, AcceptedBeforeDelete, News, Coming, TypeOK
<1> QED
  BY <1>1, <1>2, <1>3

LEMMA GetLatestStep ==
  ASSUME Inv, NEW s \in Syncs, GetLatest(s)
  PROVE  Inv'
<1> USE DEF Inv
<1> DEFINE o == Fold[running[s]]
<1>1. /\ running[s] \in Spellings /\ o \in Objects
      /\ synced' = [synced EXCEPT ![s] = [synced[s] EXCEPT ![o] = vault[o]]]
      /\ running' = [running EXCEPT ![s] = None]
      /\ UNCHANGED <<vault, box, lis, live, channel, spec, workqueue, poisoned, budget>>
  BY DEF GetLatest, TypeOK
<1>2. TypeOK'
  BY <1>1 DEF TypeOK
<1>3. \A t \in Syncs, p \in Objects :
         /\ synced'[t][p] \in Nat /\ synced[t][p] \in Nat
         /\ synced'[t][p] >= synced[t][p] /\ synced'[t][p] <= vault[p]
         /\ t = s /\ p = o => synced'[t][p] = vault[o]
  BY <1>1 DEF TypeOK, AcceptedBeforeDelete
<1>4. \A m \in Messages : /\ BodyOf[m].name \in Spellings
                           /\ Fold[BodyOf[m].name] \in Objects
                           /\ box[m].version \in Nat
                           /\ box[m].version <= vault[Fold[BodyOf[m].name]]
  BY DEF Bodies, TypeOK, AcceptedBeforeDelete
<1>5. \A m \in Messages, t \in Syncs : News(m, t)' => News(m, t)
  BY <1>1, <1>3, <1>4 DEF News
<1>6. \A m \in Messages, t \in Syncs : News(m, t)' /\ Coming(t) => Coming(t)'
  <2> SUFFICES ASSUME NEW m \in Messages, NEW t \in Syncs,
                      News(m, t)', running[t] = spec[t]
               PROVE  Coming(t)'
    BY <1>1 DEF Coming
  <2>1. CASE t = s
    <3>1. Fold[BodyOf[m].name] = o
      BY <1>1, <2>1 DEF News
    <3>2. synced'[s][o] = vault[o] /\ vault[o] \in Nat
      BY <1>1, <1>3 DEF TypeOK
    <3> QED
      BY <1>1, <1>4, <2>1, <3>1, <3>2 DEF News
  <2>2. CASE t # s
    BY <1>1, <2>2 DEF Coming, TypeOK
  <2> QED
    BY <2>1, <2>2
<1>7. NoLostTrigger'
  BY <1>1, <1>5, <1>6 DEF NoLostTrigger
<1>8. AcceptedBeforeDelete'
  <2>1. lis.msg \in Messages \cup {None}
    BY DEF TypeOK
  <2> HIDE DEF o
  <2> QED
    BY <1>1, <1>3, <1>5, <1>6, <2>1 DEF AcceptedBeforeDelete
<1> QED
  BY <1>2, <1>7, <1>8

LEMMA EditSpecStep ==
  ASSUME Inv, NEW s \in Syncs, NEW spelling \in Spellings \cup {None},
         editSpec(s, spelling)
  PROVE  Inv'
<1> USE DEF Inv
<1>1. TypeOK'
  BY DEF editSpec, TypeOK
<1>2. NoLostTrigger'
  BY DEF editSpec, NoLostTrigger, News, Coming, TypeOK
<1>3. AcceptedBeforeDelete'
  BY DEF editSpec, AcceptedBeforeDelete, News, Coming, TypeOK
<1> QED
  BY <1>1, <1>2, <1>3

LEMMA RotateStep ==
  ASSUME Inv, NEW o \in Objects, rotate(o)
  PROVE  Inv'
<1> USE DEF Inv
<1>1. TypeOK'
  BY DEF rotate, TypeOK, controller
<1>2. NoLostTrigger'
  BY DEF rotate, NoLostTrigger, News, Coming, TypeOK, controller
<1>3. AcceptedBeforeDelete'
  BY DEF rotate, AcceptedBeforeDelete, News, Coming, TypeOK, controller, Bodies
<1> QED
  BY <1>1, <1>2, <1>3

LEMMA ShutdownStep ==
  ASSUME Inv, shutdown
  PROVE  Inv'
<1> USE DEF Inv
<1>1. TypeOK'
  <2>1. budget' \in [edits : Nat, faults : Nat]
    BY DEF shutdown, TypeOK, Fault
  <2>2. live' \in BOOLEAN
    BY DEF shutdown
  <2> QED
    BY <2>1, <2>2 DEF shutdown, TypeOK, controller
<1>2. NoLostTrigger'
  BY DEF shutdown, NoLostTrigger, News, Coming, TypeOK, controller
<1>3. AcceptedBeforeDelete'
  BY DEF shutdown, AcceptedBeforeDelete, News, Coming, TypeOK, controller
<1> QED
  BY <1>1, <1>2, <1>3

LEMMA RestartStep ==
  ASSUME Inv, Restart
  PROVE  Inv'
<1> USE DEF Inv
<1>1. TypeOK'
  BY DEF Restart, StartOver, TypeOK, Fault, Continue, Loop, Msg
<1>2. NoLostTrigger'
  BY DEF Restart, StartOver, NoLostTrigger, News, Coming, TypeOK
<1>3. AcceptedBeforeDelete'
  BY DEF Restart, StartOver, AcceptedBeforeDelete, News, Coming, TypeOK, Continue, Loop, Msg
<1> QED
  BY <1>1, <1>2, <1>3

LEMMA InvNext == Inv /\ [Next]_vars => Inv'
<1> SUFFICES ASSUME Inv, [Next]_vars PROVE Inv'
  OBVIOUS
<1>1. CASE Next
  BY <1>1, PublishStep, TimeoutStep, ReceiveStep, HandleMessageStep, SendStep,
     SendCancelledStep, DeleteMessageStep, ConsumeStep, ReconcileStep,
     GetLatestStep, EditSpecStep, RotateStep, ShutdownStep, RestartStep
     DEF Next, Poll, Handle
<1>2. CASE UNCHANGED vars
  BY <1>2 DEF vars, Inv, TypeOK, NoLostTrigger, AcceptedBeforeDelete, News, Coming
<1> QED
  BY <1>1, <1>2

\* Every reachable state satisfies the inductive invariant, of which the
\* listener's type invariant and AcceptedBeforeDelete are parts.
THEOREM InvHolds == Spec => []Inv
  BY InvInit, InvNext, PTL DEF Spec

\* The channel never overflows its buffer, and the poll loop has a message in
\* hand exactly while it sends or deletes it.
THEOREM TypeCorrect == Spec => []TypeOK
<1>1. Inv => TypeOK
  BY DEF Inv
<1> QED
  BY <1>1, InvHolds, PTL

\* No rotation announced on the queue is lost by handleMessage, whatever fails.
THEOREM NoLostTriggerHolds == Spec => []NoLostTrigger
<1>1. Inv => NoLostTrigger
  BY DEF Inv
<1> QED
  BY <1>1, InvHolds, PTL

\* handleMessage deletes a message only after every matching SecretSync that
\* has yet to read the announced version is on its way to a reconcile.
THEOREM AcceptedBeforeDeleteHolds == Spec => []AcceptedBeforeDelete
<1>1. Inv => AcceptedBeforeDelete
  BY DEF Inv
<1> QED
  BY <1>1, InvHolds, PTL
=============================================================================

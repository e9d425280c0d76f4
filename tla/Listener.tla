------------------------------ MODULE Listener ------------------------------
(***************************************************************************)
(* internal/events/listener.go between the Storage Queue and the           *)
(* controller: messages are leased, matched against the cached SecretSyncs *)
(* and turned into events on a bounded channel, from which the controller  *)
(* fills its workqueue; a reconcile then reads the vault's latest version. *)
(*                                                                         *)
(* The poll loop is one goroutine: a batch is handled message by message,  *)
(* in whatever order the queue returned it.  A Receive that fails or comes *)
(* back empty changes nothing but a gauge, so it is no action here; the    *)
(* poll intervals between two Receives are left to fairness.               *)
(*                                                                         *)
(*   lis.pc     "poll"    Receive, then sleep                              *)
(*              "next"    take the next message of lis.batch               *)
(*              "send"    send lis.todo to the Events channel              *)
(*              "delete"  deleteMessage(lis.msg)                           *)
(***************************************************************************)
EXTENDS QueueMessages, Sequences, FiniteSets

CONSTANTS
    Syncs,            \* SecretSyncs
    Messages,         \* messages Event Grid puts on the queue
    BodyOf,           \* [Messages -> Bodies]
    BatchSize,
    PoisonThreshold,
    ChannelCap,       \* eventsChannelBufferSize
    MaxVersion,       \* bound on rotations of each secret
    MaxEdits,         \* bound on SecretSync creations, edits and deletions
    MaxFaults         \* bound on failed calls, shutdowns and crashes

ASSUME ListenerAssumption ==
    /\ BodyOf \in [Messages -> Bodies]
    /\ IsFiniteSet(Messages)
    /\ BatchSize \in Nat \ {0}
    /\ PoisonThreshold \in Nat
    /\ ChannelCap \in Nat \ {0}
    /\ MaxVersion \in Nat \ {0} /\ MaxEdits \in Nat /\ MaxFaults \in Nat
    /\ None \notin Messages

VARIABLES
    vault,     \* [Objects -> Nat], the latest version of each secret
    box,       \* [Messages -> state of the message in the queue]
    lis,       \* the poll loop
    live,      \* the manager's context is not cancelled
    channel,   \* the Events channel
    spec,      \* [Syncs -> Spellings], the cached specs; None: no such object
    workqueue, \* SecretSyncs queued for a reconcile
    running,   \* [Syncs -> what its reconcile in flight is about to read]
    synced,    \* [Syncs -> [Objects -> Nat]], the versions it has read
    poisoned,  \* history: messages discarded unread
    budget

controller == <<spec, workqueue, running, synced>>
vars == <<vault, box, lis, live, channel, spec, workqueue, running, synced,
          poisoned, budget>>

\* A message on the queue, and the poll loop at work.
Msg(state, version, count) == [state |-> state, version |-> version,
                               count |-> count]

Loop(pc, batch, msg, todo) == [pc |-> pc, batch |-> batch, msg |-> msg,
                               todo |-> todo]

\* pollOnce goes on with the rest of its batch, or returns.
Continue(batch) == IF batch = {} THEN Loop("poll", {}, None, {})
                   ELSE Loop("next", batch, None, {})

Fault == /\ budget.faults > 0
         /\ budget' = [edits |-> budget.edits, faults |-> budget.faults - 1]

-----------------------------------------------------------------------------
(* The Storage Queue. *)

\* Event Grid delivers m, perhaps late: it announces some version up to the
\* latest.  Event Grid may also deliver nothing for a rotation, or two messages.
publish(m, version) ==
    /\ box[m].state = "unsent"
    /\ version <= vault[Fold[BodyOf[m].name]]
    /\ box' = [box EXCEPT ![m] = Msg("visible", version, 0)]
    /\ UNCHANGED <<vault, lis, live, channel, controller, poisoned, budget>>

\* The visibility timeout of a message that was not deleted passes.
visibilityTimeout(m) ==
    /\ box[m].state = "leased"
    /\ box' = [box EXCEPT ![m] = Msg("visible", box[m].version, box[m].count)]
    /\ UNCHANGED <<vault, lis, live, channel, controller, poisoned, budget>>

-----------------------------------------------------------------------------
(* The poll loop. *)

\* pollOnce: one batch off the queue; each message's DequeueCount goes up.  It
\* is counted no further than past the threshold: the code tells no more apart.
receive(S) ==
    /\ live
    /\ lis.pc = "poll"
    /\ S # {} /\ Cardinality(S) <= BatchSize
    /\ \A m \in S : box[m].state = "visible"
    /\ box' = [m \in Messages |->
                 IF m \in S
                 THEN Msg("leased", box[m].version,
                          IF box[m].count > PoisonThreshold THEN box[m].count
                          ELSE box[m].count + 1)
                 ELSE box[m]]
    /\ lis' = Loop("next", S, None, {})
    /\ UNCHANGED <<vault, live, channel, controller, poisoned, budget>>

\* handleMessage goes on to delete m.
Discard(m) ==
    /\ lis' = Loop("delete", lis.batch \ {m}, m, {})
    /\ UNCHANGED budget

\* Mutant of matchingSecretSyncs: one declaration per secret is enough.
matchingSecretSyncs_First(m) ==
    LET all == {s \in Syncs : matches(spec[s], BodyOf[m])}
    IN  IF all = {} THEN {} ELSE {CHOOSE s \in all : TRUE}

\* matchingSecretSyncs, off the cached list.
matchingSecretSyncs(m) == {s \in Syncs : matches(spec[s], BodyOf[m])}

\* Mutant of handleMessage: a failed List discards the message as unmatched.
handleMessage_ListErrorDiscards(m) ==
    /\ lis.pc = "next"
    /\ m \in lis.batch
    /\ \/ Fault /\ lis' = Loop("delete", lis.batch \ {m}, m, {})
       \/ /\ matchingSecretSyncs(m) # {}
          /\ lis' = Loop("send", lis.batch \ {m}, m, matchingSecretSyncs(m))
          /\ UNCHANGED budget
    /\ UNCHANGED <<vault, box, live, channel, controller, poisoned>>

\* Mutant of handleMessage: a poison message is skipped and never deleted.
handleMessage_PoisonSkipped(m) ==
    /\ lis.pc = "next"
    /\ m \in lis.batch
    /\ IF box[m].count > PoisonThreshold \/ matchingSecretSyncs(m) = {}
       THEN lis' = Continue(lis.batch \ {m})
       ELSE lis' = Loop("send", lis.batch \ {m}, m, matchingSecretSyncs(m))
    /\ UNCHANGED <<vault, box, live, channel, controller, poisoned, budget>>

\* handleMessage: poison check, parse, match.
handleMessage(m) ==
    /\ lis.pc = "next"
    /\ m \in lis.batch
    /\ IF box[m].count > PoisonThreshold
       THEN /\ Discard(m)
            /\ poisoned' = poisoned \cup {m}
       ELSE /\ \/ Parse(BodyOf[m]) \in {"malformed", "inactive"} /\ Discard(m)
               \/ /\ Parse(BodyOf[m]) = "event"
                  /\ matchingSecretSyncs(m) = {}
                  /\ Discard(m)
               \/ /\ Parse(BodyOf[m]) = "event"
                  /\ matchingSecretSyncs(m) # {}
                  /\ lis' = Loop("send", lis.batch \ {m}, m, matchingSecretSyncs(m))
                  /\ UNCHANGED budget
               \* listing fails: the message stays where it is
               \/ /\ Parse(BodyOf[m]) = "event"
                  /\ Fault
                  /\ lis' = Continue(lis.batch \ {m})
            /\ UNCHANGED poisoned
    /\ UNCHANGED <<vault, box, live, channel, controller>>

\* Mutant of send: an event that does not fit the channel is dropped.
send_NonBlocking(s) ==
    /\ lis.pc = "send"
    /\ s \in lis.todo
    /\ channel' = IF Len(channel) < ChannelCap THEN Append(channel, s) ELSE channel
    /\ lis' = Loop(IF lis.todo = {s} THEN "delete" ELSE "send",
                   lis.batch, lis.msg, lis.todo \ {s})
    /\ UNCHANGED <<vault, box, live, controller, poisoned, budget>>

\* The send blocks while the channel is full.
send(s) ==
    /\ lis.pc = "send"
    /\ s \in lis.todo
    /\ Len(channel) < ChannelCap
    /\ channel' = Append(channel, s)
    /\ lis' = Loop(IF lis.todo = {s} THEN "delete" ELSE "send",
                   lis.batch, lis.msg, lis.todo \ {s})
    /\ UNCHANGED <<vault, box, live, controller, poisoned, budget>>

\* Mutant of sendCancelled: the loop goes on with the message half sent.
sendCancelled_Continues ==
    /\ lis.pc = "send"
    /\ ~live
    /\ lis' = Loop("delete", lis.batch, lis.msg, lis.todo)
    /\ UNCHANGED <<vault, box, live, channel, controller, poisoned, budget>>

\* The other arm of the select: handleMessage returns without deleting.
sendCancelled ==
    /\ lis.pc = "send"
    /\ ~live
    /\ lis' = Continue(lis.batch)
    /\ UNCHANGED <<vault, box, live, channel, controller, poisoned, budget>>

\* A Delete that fails, as it must on a cancelled context, is only logged.
deleteMessage ==
    /\ lis.pc = "delete"
    /\ lis' = Continue(lis.batch)
    /\ \/ /\ live
          /\ box' = [box EXCEPT ![lis.msg] =
                       Msg("deleted", box[lis.msg].version, box[lis.msg].count)]
          /\ UNCHANGED budget
       \/ ~live /\ UNCHANGED <<box, budget>>
       \/ live /\ Fault /\ UNCHANGED box
    /\ UNCHANGED <<vault, live, channel, controller, poisoned>>

-----------------------------------------------------------------------------
(* The controller's end. *)

\* WatchesRawSource(source.Channel(...)).
consume ==
    /\ live
    /\ channel # <<>>
    /\ workqueue' = workqueue \cup {Head(channel)}
    /\ channel' = Tail(channel)
    /\ UNCHANGED <<vault, box, lis, live, spec, running, synced, poisoned, budget>>

\* A reconcile of s starts with the cached spec ...
Reconcile(s) ==
    /\ live
    /\ s \in workqueue
    /\ running[s] = None
    /\ workqueue' = workqueue \ {s}
    /\ running' = [running EXCEPT ![s] = spec[s]]
    /\ UNCHANGED <<vault, box, lis, live, channel, spec, synced, poisoned, budget>>

\* ... and reads the latest version; the one the event named is not used.
GetLatest(s) ==
    /\ running[s] # None
    /\ synced' = [synced EXCEPT ![s][Fold[running[s]]] = vault[Fold[running[s]]]]
    /\ running' = [running EXCEPT ![s] = None]
    /\ UNCHANGED <<vault, box, lis, live, channel, spec, workqueue, poisoned, budget>>

-----------------------------------------------------------------------------
(* Users, the vault and the process. *)

\* s is created, edited or deleted; the For watch queues it.
editSpec(s, spelling) ==
    /\ budget.edits > 0
    /\ budget' = [edits |-> budget.edits - 1, faults |-> budget.faults]
    /\ spec[s] # spelling
    /\ spec' = [spec EXCEPT ![s] = spelling]
    /\ workqueue' = workqueue \cup {s}
    /\ UNCHANGED <<vault, box, lis, live, channel, running, synced, poisoned>>

rotate(o) ==
    /\ vault[o] < MaxVersion
    /\ vault' = [vault EXCEPT ![o] = @ + 1]
    /\ UNCHANGED <<box, lis, live, channel, controller, poisoned, budget>>

\* SIGTERM: the manager's context is cancelled.
shutdown ==
    /\ live
    /\ Fault
    /\ live' = FALSE
    /\ UNCHANGED <<vault, box, lis, channel, controller, poisoned>>

\* The process ends, by crash or after a shutdown, and starts again with an
\* empty batch and an empty channel; the messages stay where they are.
StartOver ==
    /\ \/ live /\ Fault
       \/ ~live /\ UNCHANGED budget
    /\ live' = TRUE
    /\ lis' = Continue({})
    /\ channel' = <<>>
    /\ UNCHANGED <<box, poisoned>>

\* Every existing SecretSync is then delivered as created.
Restart ==
    /\ StartOver
    /\ workqueue' = {s \in Syncs : spec[s] # None}
    /\ running' = [s \in Syncs |-> None]
    /\ UNCHANGED <<vault, spec, synced>>

-----------------------------------------------------------------------------
Init ==
    /\ vault = [o \in Objects |-> 1]
    /\ box = [m \in Messages |-> Msg("unsent", 0, 0)]
    /\ lis = Continue({})
    /\ live = TRUE
    /\ channel = <<>>
    /\ spec \in [Syncs -> Spellings \cup {None}]
    /\ workqueue = {s \in Syncs : spec[s] # None}
    /\ running = [s \in Syncs |-> None]
    /\ synced = [s \in Syncs |-> [o \in Objects |-> 0]]
    /\ poisoned = {}
    /\ budget = [edits |-> MaxEdits, faults |-> MaxFaults]

Poll == \E S \in SUBSET Messages : receive(S)

Handle ==
    \/ \E m \in Messages : handleMessage(m)
    \/ \E s \in Syncs : send(s)
    \/ sendCancelled
    \/ deleteMessage

Next ==
    \/ \E m \in Messages, v \in 1 .. MaxVersion : publish(m, v)
    \/ \E m \in Messages : visibilityTimeout(m)
    \/ Poll
    \/ Handle
    \/ consume
    \/ \E s \in Syncs : Reconcile(s) \/ GetLatest(s)
    \/ \E s \in Syncs, spelling \in Spellings \cup {None} : editSpec(s, spelling)
    \/ \E o \in Objects : rotate(o)
    \/ shutdown
    \/ Restart

Spec == Init /\ [][Next]_vars

\* The loop polls and works its batch off, the controller drains the channel
\* and runs its reconciles, leases run out, and a process that was told to
\* stop is replaced.  Event Grid, users and faults owe nothing.
Fairness ==
    /\ WF_vars(Poll)
    /\ WF_vars(Handle)
    /\ WF_vars(consume)
    /\ WF_vars(~live /\ Restart)
    /\ \A m \in Messages : WF_vars(visibilityTimeout(m))
    /\ \A s \in Syncs : WF_vars(Reconcile(s)) /\ WF_vars(GetLatest(s))

FairSpec == Spec /\ Fairness

-----------------------------------------------------------------------------
(* Properties. *)

\* Every variable has its type; the channel never exceeds its buffer, and a
\* message is in hand exactly while it is being sent or deleted.
TypeOK ==
    /\ vault \in [Objects -> 1 .. MaxVersion]
    /\ box \in [Messages -> [state : {"unsent", "visible", "leased", "deleted"},
                             version : 0 .. MaxVersion, count : Nat]]
    /\ lis \in [pc : {"poll", "next", "send", "delete"},
                batch : SUBSET Messages, msg : Messages \cup {None},
                todo : SUBSET Syncs]
    /\ lis.msg # None <=> lis.pc \in {"send", "delete"}
    /\ lis.todo # {} <=> lis.pc = "send"
    /\ live \in BOOLEAN
    /\ channel \in Seq(Syncs) /\ Len(channel) <= ChannelCap
    /\ spec \in [Syncs -> Spellings \cup {None}]
    /\ workqueue \subseteq Syncs
    /\ running \in [Syncs -> Spellings \cup {None}]
    /\ synced \in [Syncs -> [Objects -> 0 .. MaxVersion]]
    /\ poisoned \subseteq Messages
    /\ budget \in [edits : Nat, faults : Nat]

\* m announces a version that s, as declared now, has yet to read.
News(m, s) ==
    /\ Parse(BodyOf[m]) = "event"
    /\ box[m].state # "unsent"
    /\ spec[s] # None /\ Fold[spec[s]] = Fold[BodyOf[m].name]
    /\ synced[s][Fold[BodyOf[m].name]] < box[m].version

\* A reconcile of s that reads the vault is on its way.
Coming(s) ==
    \/ s \in workqueue
    \/ \E i \in DOMAIN channel : channel[i] = s
    \/ running[s] = spec[s]

\* FR-005: no announced rotation is lost.  As long as a SecretSync has yet to
\* read a version that a delivered message announced, either the message is
\* still on the queue, or the SecretSync is in the channel, in the workqueue
\* or about to read the vault; poison messages are the documented exception.
\* Batches, a full channel, failed Lists and Deletes, edits of the
\* declaration, shutdowns and crashes make no difference.
NoLostTrigger ==
    \A m \in Messages, s \in Syncs :
       News(m, s) /\ m \notin poisoned
          => box[m].state \in {"visible", "leased"} \/ Coming(s)

\* Rule 5, accepted before deleted, which makes NoLostTrigger inductive: while
\* a message is in hand, every SecretSync it is news to is still to be sent or
\* already on its way, although declarations, versions and reconciles change
\* under the handler's feet; what the loop holds is still on the queue.
AcceptedBeforeDelete ==
    /\ lis.msg # None =>
          /\ lis.msg \notin lis.batch
          /\ box[lis.msg].state \in {"visible", "leased"}
          /\ \A s \in Syncs :
                News(lis.msg, s) /\ lis.msg \notin poisoned
                   => s \in lis.todo \/ Coming(s)
    /\ \A m \in lis.batch : box[m].state \in {"visible", "leased"}
    /\ \A s \in Syncs, o \in Objects : synced[s][o] <= vault[o]
    /\ \A m \in Messages : box[m].version <= vault[Fold[BodyOf[m].name]]

Inv == TypeOK /\ NoLostTrigger /\ AcceptedBeforeDelete

\* Nothing stays on the queue for ever: not the malformed, not the unmatched,
\* not the ones whose handling keeps failing.
QueueDrains ==
    \A m \in Messages : box[m].state = "visible" ~> box[m].state = "deleted"

\* An announced version reaches every SecretSync that still declares the
\* secret, without the periodic reconcile, unless the message was poison.
Propagates ==
    \A m \in Messages, s \in Syncs :
       News(m, s) ~> ~News(m, s) \/ m \in poisoned
=============================================================================

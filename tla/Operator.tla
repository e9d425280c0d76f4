------------------------------ MODULE Operator ------------------------------
(***************************************************************************)
(* The queue listener and the reconciler as one process, joined by the     *)
(* Events channel: Listener's poll loop finds SecretSyncs in the informer  *)
(* cache of Reconciler and, through source.Channel, fills its workqueue.   *)
(* A shutdown or a crash takes both at once.                               *)
(*                                                                         *)
(* Of Listener's own sketch of the controller only the interface is used:  *)
(* the cached specs it matches and the workqueue.  In its place stand the  *)
(* real reconciles, which end without reading the vault, read and fail to  *)
(* write, or act on copies that are out of date.                           *)
(***************************************************************************)
EXTENDS Reconciler, Sequences

CONSTANTS
    Spellings, Objects, Fold, None, \* see QueueMessages
    SpellingOf,      \* [Owners -> Spellings], how each spec names the secret
    Messages, BodyOf, BatchSize, PoisonThreshold, ChannelCap,
    MaxQueueFaults   \* bound on failed calls of the listener, and crashes

ASSUME OperatorAssumption ==
    /\ Fold \in [Spellings -> Objects]
    /\ SpellingOf \in [Owners -> Spellings]
    /\ MaxQueueFaults \in Nat

VARIABLES box, lis, live, channel, poisoned, queueBudget

listenerVars == <<box, lis, live, channel, poisoned, queueBudget>>
allVars == <<vars, listenerVars>>

\* The version of the vault secret that c's declared target holds; 0: none.
HeldBy(c) ==
    IF crCache[c] = Absent \/ sec[crCache[c].spec.target] = Absent THEN 0
    ELSE sec[crCache[c].spec.target].version

L == INSTANCE Listener WITH
        Syncs     <- Owners,
        vault     <- [o \in Objects |-> vault.version],
        spec      <- [c \in Owners |-> IF crCache[c] = Absent THEN None
                                       ELSE SpellingOf[c]],
        workqueue <- queued,
        running   <- [c \in Owners |->
                        IF worker[c].pc \in {"pending", "claim", "read", "vault"}
                        THEN SpellingOf[c] ELSE None],
        synced    <- [c \in Owners |-> [o \in Objects |-> HeldBy(c)]],
        budget    <- queueBudget,
        MaxVersion <- Cardinality(Versions),
        MaxEdits  <- 0,
        MaxFaults <- MaxQueueFaults

-----------------------------------------------------------------------------
\* Event Grid announces a rotation, and the Storage Queue delivers it.  The
\* code never looks at the version an event announces, so a late one, which
\* announces an older version than the latest, asks for less.
Deliver ==
    /\ UNCHANGED vars
    /\ \/ vault.version > 1 /\ \E m \in Messages : L!publish(m, vault.version)
       \/ \E m \in Messages : L!visibilityTimeout(m)

Poll == UNCHANGED vars /\ L!Poll

Handle == UNCHANGED vars /\ L!Handle

\* Mutant of consume: an event for a SecretSync that is being reconciled is
\* taken to be covered by that reconcile.
consume_InFlightCovers ==
    /\ UNCHANGED <<cluster, vault, timers, worker, written, budget>>
    /\ live /\ channel # <<>>
    /\ channel' = Tail(channel)
    /\ queued' = queued \cup {c \in Owners : c = Head(channel) /\ worker[c] = Idle}
    /\ UNCHANGED <<box, lis, live, poisoned, queueBudget>>

\* source.Channel hands an event to the workqueue; it takes dispatch's place.
consume ==
    /\ UNCHANGED <<cluster, vault, timers, worker, written, budget>>
    /\ L!consume

\* SIGTERM.  No reconcile starts from now on; one that is running may end.
shutdown == UNCHANGED vars /\ L!shutdown

\* The process ends, by crash or after a shutdown, and comes back.
Restarted ==
    /\ Startup
    /\ UNCHANGED budget
    /\ L!StartOver

Start(c) == live /\ Reconcile(c) /\ UNCHANGED listenerVars

Working(c) == Work(c) /\ UNCHANGED listenerVars

Informed(c) == crWatch(c) /\ UNCHANGED listenerVars

Controller(c) ==
    \/ Start(c) \/ Working(c) \/ Informed(c)
    \/ timerFires(c) /\ UNCHANGED listenerVars

Environment ==
    /\ UNCHANGED listenerVars
    /\ \/ \E n \in Names : secretWatch(n) \/ collectGarbage(n)
       \/ Users

InitAll == Init /\ L!Init

NextAll ==
    \/ Deliver
    \/ Poll
    \/ Handle
    \/ consume
    \/ shutdown
    \/ Restarted
    \/ \E c \in Owners : Controller(c)
    \/ Environment

SpecAll == InitAll /\ [][NextAll]_allVars

\* What Listener and Reconciler each assume, except that timers owe nothing:
\* propagation does not lean on the periodic reconcile.
FairnessAll ==
    /\ WF_allVars(Poll)
    /\ WF_allVars(Handle)
    /\ WF_allVars(consume)
    /\ WF_allVars(~live /\ Restarted)
    /\ \A m \in Messages : WF_allVars(UNCHANGED vars /\ L!visibilityTimeout(m))
    /\ \A c \in Owners :
          WF_allVars(Start(c)) /\ WF_allVars(Working(c)) /\ WF_allVars(Informed(c))
    /\ \A n \in Names :
          /\ WF_allVars(secretWatch(n) /\ UNCHANGED listenerVars)
          /\ WF_allVars(collectGarbage(n) /\ UNCHANGED listenerVars)

FairSpecAll == SpecAll /\ FairnessAll

-----------------------------------------------------------------------------
(* Properties. *)

\* c, which is there to stay, lacks the version that m announced.
Awaits(m, c) ==
    /\ cr[c] # Absent /\ ~cr[c].deleting
    /\ L!News(m, c)

\* A reconcile of c that will see version v is on its way, or has it in hand.
Coming(c, v) ==
    \/ L!Coming(c)
    \/ worker[c].pc \in {"finalize", "write"} /\ worker[c].version >= v
    \/ ~crFresh[c]
    \/ crCache[c] # Absent
       /\ LET n == crCache[c].spec.target IN secCache[n] # Cached(sec[n])

\* FR-005 from end to end: as long as the Secret of a SecretSync lacks a
\* version that a message has announced, the message is still on the queue, or
\* the SecretSync is in the channel, the workqueue or a reconcile that will
\* deliver it, or an informer is about to queue it.  No timer is counted on.
\* Crashes, edits and deletions of SecretSyncs, a Secret's label or data changed
\* behind the operator's back and reconciles that run on stale copies make no
\* difference.
NoLostRotation ==
    \A m \in Messages, c \in Owners :
       Awaits(m, c) /\ m \notin poisoned
          => box[m].state \in {"visible", "leased"} \/ Coming(c, box[m].version)

\* An announced version reaches the Secret, without the periodic reconcile.
RotationArrives ==
    \A m \in Messages, c \in Owners :
       Awaits(m, c) ~> ~Awaits(m, c) \/ m \in poisoned

\* An event that was still in the channel when its SecretSync was deleted
\* brings nothing back: nothing is written on behalf of one that is gone.
NoResurrection ==
    [][\A c \in Owners, n \in Names :
          cr[c] = Absent /\ worker'[c] # worker[c]
             => sec'[n] \in {sec[n], Absent}]_allVars
=============================================================================

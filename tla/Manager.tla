------------------------------ MODULE Manager ------------------------------
(***************************************************************************)
(* The operator as one process: main's wiring, the workers under their     *)
(* deadlines, the poll loop's health gauge and the metrics endpoint.       *)
(*                                                                         *)
(* What fails here is what a test hardly reaches: a peer that accepts a    *)
(* request and never answers.  `down` holds the peers that do so now: the  *)
(* vault of a SecretSync (named by the SecretSync), the API server, the    *)
(* queue, the List behind the informer; "denied" is a queue that answers   *)
(* with an HTTP error.  A call made of such a peer may be lost for good,   *)
(* also when the peer comes back (a half-open connection); `hung` holds    *)
(* these calls.  A deadline fires only on a call that hangs: a reconcile   *)
(* still running after its minute is "hung, not slow".                     *)
(*                                                                         *)
(*   job[s].pc   the call the worker of s has in flight                    *)
(*   "pending"   the Pending status of a new SecretSync                    *)
(*   "vault"     GetLatest                                                 *)
(*   "finalize"  the finalizer                                             *)
(*   "write"     CreateOrUpdate                                            *)
(*   "status"    the terminal status                                       *)
(*                                                                         *)
(* Conflicts, caches, renames and deletion are in Reconciler; informers    *)
(* do not lag here, and the sweep, with no rename, calls nobody.           *)
(***************************************************************************)
EXTENDS Configuration, SequencesExt

CONSTANTS
    Syncs,         \* SecretSyncs, each with a vault of its own
    MaxConcurrent, \* maxConcurrentReconciles
    Arguments,     \* what the process may be started with: RECONCILE_INTERVAL,
                   \* --reconcile-interval, QUEUE_URL and --queue-url
    Absent,        \* no arguments left, no answer
    Rotating,      \* those whose vault secret rotates
    MaxVersion,    \* bound on rotations
    MaxFailures,   \* the failure count is counted no further
    MaxOutages     \* bound on how often a peer goes down

ASSUME ManagerAssumption ==
    /\ IsFiniteSet(Syncs)
    /\ MaxConcurrent \in Nat \ {0}
    /\ Arguments \subseteq [env : Int \cup {Unset, Unparsable}, flag : Int \cup {Unset},
                             queueEnv : URLs, queueFlag : URLs \cup {Unset}]
    /\ Unset \notin URLs
    /\ MaxVersion \in Nat \ {0}
    /\ MaxFailures \in Nat \ {0}
    /\ MaxOutages \in Nat

VARIABLES
    args,    \* flags and environment; Absent once main has used them
    conf,    \* what main made of them
    printed, \* parts of the queue URL that have reached a log
    down,    \* peers that do not answer
    hung,    \* calls that will never return: those of a SecretSync's worker,
             \* and the "poll" loop's
    synced,  \* the SecretSync informer has listed
    ss,      \* [Syncs -> SecretSync, Secret and last recorded outcome]
    vault,   \* [Syncs -> latest version]
    job,     \* [Syncs -> the reconcile in flight]
    queue,   \* the workqueue
    dirty,   \* SecretSyncs queued again while being reconciled
    timers,  \* SecretSyncs whose RequeueAfter or backoff is running
    poll,    \* what the poll loop is at: "receive" a batch, "list" the
             \* SecretSyncs for its message, "delete" that
    failures, \* consecutiveReceiveFailures
    scrape,  \* the scrape in flight, or the number of failing SecretSyncs that
             \* the last one answered
    budget

controller == <<ss, vault, job, queue, dirty, timers>>
vars == <<args, conf, printed, down, hung, synced, ss, vault, job, queue, dirty,
          timers, poll, failures, scrape, budget>>

Peers == Syncs \cup {"api", "queue", "denied", "informer"}

Failures == {"TransientError", "SecretWriteFailed"}

SecretSyncs == [state : {"", "Pending", "InSync"} \cup Failures,
                finalizer : BOOLEAN, version : 0 .. MaxVersion,
                recorded : {"", "InSync"} \cup Failures]

\* expired: the reconcile's own deadline has passed.
Jobs == [pc : {"idle", "pending", "vault", "finalize", "write", "status"},
         outcome : {"", "InSync"} \cup Failures,
         version : 0 .. MaxVersion, expired : BOOLEAN]

Idle == [pc |-> "idle", outcome |-> "", version |-> 0, expired |-> FALSE]

Running == {s \in Syncs : job[s].pc # "idle"}

-----------------------------------------------------------------------------
(* main. *)

\* Flag parsing fails, or help is asked for: usage and exit.
usage ==
    /\ args # Absent
    /\ printed' = printed \cup registerQueueURLFlag.parts
    /\ UNCHANGED <<args, conf, down, hung, synced, controller, poll, failures, scrape, budget>>

\* main up to mgr.Start.  An unparseable queue URL is reported and kept.
main ==
    /\ args # Absent
    /\ LET url == queueURLFromEnv(args.queueFlag, args.queueEnv)
           interval == effectiveReconcileInterval(
                          configuredInterval(args.env, args.flag))
       IN  /\ conf' = [url |-> url, reported |-> interval, interval |-> interval]
           /\ printed' = printed \cup RedactURL(url)
    /\ args' = Absent
    /\ UNCHANGED <<down, hung, synced, controller, poll, failures, scrape, budget>>

Up == args = Absent

\* The informer's first List delivers every SecretSync as created.
informerSyncs(order) ==
    /\ Up
    /\ ~synced
    /\ "informer" \notin down
    /\ synced' = TRUE
    /\ queue' = order
    /\ UNCHANGED <<args, conf, printed, down, hung, ss, vault, job, dirty, timers, poll, failures,
                   scrape, budget>>

\* The informer has not synced within controller-runtime's CacheSyncTimeout:
\* mgr.Start fails, main exits, and the process is started anew as it was.  A
\* scrape that is cut off has got no answer: the next one takes its place.
cacheSyncTimeout ==
    /\ Up
    /\ ~synced
    /\ "informer" \in down
    /\ printed' = printed \cup RedactURL(conf.url)
    /\ hung' = hung \ {"poll"}
    /\ poll' = "receive"
    /\ failures' = 0
    /\ UNCHANGED <<args, conf, down, synced, controller, scrape, budget>>

-----------------------------------------------------------------------------
(* The workqueue. *)

\* s is put on the queue, once; later, if it is being worked on.
Add(s) ==
    IF job[s].pc # "idle"
    THEN dirty' = dirty \cup {s} /\ UNCHANGED queue
    ELSE /\ queue' = IF Contains(queue, s) THEN queue ELSE Append(queue, s)
         /\ UNCHANGED dirty

\* The worker is done with s; what came in meanwhile goes to the end.
Done(s, again) ==
    /\ job' = [job EXCEPT ![s] = Idle]
    /\ queue' = IF again \/ s \in dirty THEN Append(queue, s) ELSE queue
    /\ dirty' = dirty \ {s}

\* Reconcile returns an error: backoff ...
ReturnError(s, again) ==
    /\ Done(s, again)
    /\ timers' = timers \cup {s}

\* Mutant of ReturnAfter: Result{} on success, without RequeueAfter.
ReturnAfter_Never(s, again) ==
    /\ Done(s, again)
    /\ UNCHANGED timers

\* ... or RequeueAfter, which controller-runtime heeds if it is positive.
ReturnAfter(s, again) ==
    /\ Done(s, again)
    /\ timers' = IF reconcileInterval(conf.interval) > 0 THEN timers \cup {s}
                 ELSE timers

\* The reconcile goes on; its own write comes back through a watch.
GoesOn(s, j) ==
    /\ job' = [job EXCEPT ![s] = j]
    /\ dirty' = dirty \cup {s}
    /\ UNCHANGED <<queue, timers>>

\* A step of the controller changes nothing outside it.
Local == UNCHANGED <<args, conf, printed, down, synced, vault, poll, failures, scrape, budget>>

\* The call that the worker of s has in flight, and whether it hangs.
Peer(s) == IF job[s].pc = "vault" THEN s ELSE "api"

Hangs(s) == Peer(s) \in down \/ s \in hung

Answered(s, pc) == job[s].pc = pc /\ ~Hangs(s) /\ UNCHANGED hung

TimedOut(s, pc) == job[s].pc = pc /\ Hangs(s) /\ hung' = hung \ {s}

-----------------------------------------------------------------------------
(* Reconcile. *)

\* Mutant of Reconcile: as many reconciles at a time as are queued.
Reconcile_Unlimited ==
    /\ queue # <<>>
    /\ job' = [job EXCEPT ![Head(queue)] = [Idle EXCEPT !.pc = "vault"]]
    /\ queue' = Tail(queue)
    /\ UNCHANGED <<hung, ss, dirty, timers>>
    /\ Local

Reconcile ==
    /\ queue # <<>>
    /\ Cardinality(Running) < MaxConcurrent
    /\ LET s == Head(queue)
       IN  job' = [job EXCEPT ![s] = [Idle EXCEPT !.pc =
                      IF ss[s].state = "" THEN "pending" ELSE "vault"]]
    /\ queue' = Tail(queue)
    /\ UNCHANGED <<hung, ss, dirty, timers>>
    /\ Local

setPending(s) ==
    /\ Answered(s, "pending")
    /\ ss' = [ss EXCEPT ![s].state = "Pending"]
    /\ GoesOn(s, [job[s] EXCEPT !.pc = "vault"])
    /\ Local

\* Where a successful Sync leads: only a Secret that differs is written.
AfterSync(s, version) == IF ss[s].version # version THEN "write" ELSE "status"

syncFromVault(s) ==
    /\ Answered(s, "vault")
    /\ job' = [job EXCEPT ![s] = [@ EXCEPT !.outcome = "InSync", !.version = vault[s],
                  !.pc = IF ss[s].finalizer THEN AfterSync(s, vault[s])
                         ELSE "finalize"]]
    /\ UNCHANGED <<ss, queue, dirty, timers>>
    /\ Local

addFinalizer(s) ==
    /\ Answered(s, "finalize")
    /\ ss' = [ss EXCEPT ![s].finalizer = TRUE]
    /\ GoesOn(s, [job[s] EXCEPT !.pc = AfterSync(s, job[s].version)])
    /\ Local

writeSecret(s) ==
    /\ Answered(s, "write")
    /\ ss' = [ss EXCEPT ![s].version = job[s].version]
    /\ GoesOn(s, [job[s] EXCEPT !.pc = "status"])
    /\ Local

\* The outcome of a reconcile whose deadline has passed.
Expired(s, outcome) ==
    /\ job' = [job EXCEPT ![s] = [@ EXCEPT !.pc = "status", !.outcome = outcome,
                                          !.expired = TRUE]]
    /\ UNCHANGED <<queue, dirty, timers>>

\* Mutant of reconcileTimeout: only the vault read is bounded.
reconcileTimeout_VaultOnly(s) ==
    /\ TimedOut(s, "vault")
    /\ Expired(s, "TransientError")
    /\ UNCHANGED ss
    /\ Local

\* The reconcile's deadline passes on a call that hangs.  The vault read and
\* the Secret write become an outcome, anything else an error; a write that
\* was not answered may have been made.
reconcileTimeout(s) ==
    /\ \/ /\ TimedOut(s, "vault")
          /\ Expired(s, "TransientError")
          /\ UNCHANGED ss
       \/ /\ TimedOut(s, "write")
          /\ Expired(s, "SecretWriteFailed")
          /\ \E v \in {ss[s].version, job[s].version} :
                ss' = [ss EXCEPT ![s].version = v]
       \/ /\ TimedOut(s, "pending") \/ TimedOut(s, "finalize")
          /\ ReturnError(s, FALSE)
          /\ UNCHANGED ss
    /\ Local

\* Mutant of statusWriteContext: the reconcile's own context is used.
statusWriteContext_Attached(j) == j.expired

\* Whether the context of the status write has expired before it starts: it
\* is detached from the reconcile's deadline.
statusWriteContext(j) == FALSE

\* recordSyncOutcome: the Event, the counter, the log line.
recordSyncOutcome(s, obj) == ss' = [ss EXCEPT ![s] = [obj EXCEPT !.recorded = job[s].outcome]]

\* The outcome is persisted and recorded.  A success changes LastSyncTime, if
\* the second is another; a failure changes the object if it was not there.
updateStatus(s) ==
    LET outcome == job[s].outcome
    IN  /\ Answered(s, "status")
        /\ ~statusWriteContext(job[s])
        /\ recordSyncOutcome(s, [ss[s] EXCEPT !.state = outcome])
        /\ \/ outcome = "InSync" /\ \E again \in BOOLEAN : ReturnAfter(s, again)
           \/ outcome # "InSync" /\ ReturnError(s, ss[s].state # outcome)
        /\ Local

\* The status write times out, or fails at once on an expired context.  After a
\* failed Secret write the outcome is recorded all the same.
statusPersistTimeout(s) ==
    /\ \/ TimedOut(s, "status")
       \/ job[s].pc = "status" /\ statusWriteContext(job[s]) /\ UNCHANGED hung
    /\ IF job[s].outcome = "SecretWriteFailed" THEN recordSyncOutcome(s, ss[s])
       ELSE UNCHANGED ss
    /\ ReturnError(s, FALSE)
    /\ Local

timerFires(s) ==
    /\ s \in timers
    /\ timers' = timers \ {s}
    /\ Add(s)
    /\ UNCHANGED <<hung, ss, job>>
    /\ Local

-----------------------------------------------------------------------------
(* The poll loop.  A batch is one message here: more take the same steps again.
   The sleep between two Receives is left to fairness, the channel to Listener. *)

\* There is a listener.
Listening == Up /\ conf.url # NoURL

\* The queue accepts the loop's call in flight and does not answer it.
QueueHangs == "queue" \in down \/ "poll" \in hung

Polled(next, n, text) ==
    /\ poll' = next
    /\ failures' = n
    /\ printed' = printed \cup text
    /\ hung' = hung \ {"poll"}
    /\ UNCHANGED <<args, conf, down, synced, controller, scrape, budget>>

\* recordReceiveSuccess.  The batch is empty, or its message names a secret, or
\* is discarded for what it is.
receiveSucceeds ==
    /\ Listening /\ poll = "receive"
    /\ conf.url.parses
    /\ ~QueueHangs /\ "denied" \notin down
    /\ \E next \in {"receive", "list", "delete"} : Polled(next, 0, {})

\* matchingSecretSyncs.  This List has no deadline: it waits until the informer
\* has synced.  If it fails then, the message stays on the queue.
matchingSecretSyncs ==
    /\ Listening /\ poll = "list"
    /\ synced
    /\ \E next \in {"receive", "delete"} : Polled(next, failures, {})

deleteMessage ==
    /\ Listening /\ poll = "delete"
    /\ ~QueueHangs /\ "denied" \notin down
    /\ Polled("receive", failures, {})

\* What a failed call leaves in the log, and, if it is a Receive, in the gauge
\* (recordReceiveFailure).
CallFails(kind) ==
    Polled("receive",
           IF poll = "receive" /\ failures < MaxFailures THEN failures + 1 ELSE failures,
           redactURLError([kind |-> kind, url |-> conf.url]))

\* No request can be made of the URL, or the queue answers with an error.
callFails ==
    /\ Listening /\ poll # "list"
    /\ \/ ~conf.url.parses /\ CallFails("url")
       \/ /\ conf.url.parses
          /\ ~QueueHangs /\ "denied" \in down
          /\ CallFails("response")

\* Mutant of queueCallTimeout: the calls have no deadline of their own.
queueCallTimeout_None == FALSE /\ CallFails("url")

\* queueCallContext's deadline passes.
queueCallTimeout ==
    /\ Listening /\ poll # "list"
    /\ conf.url.parses
    /\ QueueHangs
    /\ CallFails("url")

-----------------------------------------------------------------------------
(* The metrics endpoint, which is up before the informer has synced. *)

\* stateCollector's counts, of the SecretSyncs in each state.
Counts ==
    LET count(states) == Cardinality({s \in Syncs : ss[s].state \in states})
    IN  [pending |-> count({"", "Pending"}), inSync |-> count({"InSync"}),
         failing |-> count(Failures)]

scrapeStarts ==
    /\ Up
    /\ scrape.pc = "idle"
    /\ scrape' = [pc |-> "list", answer |-> Absent]
    /\ UNCHANGED <<args, conf, printed, down, hung, synced, controller, poll, failures, budget>>

Answer(a) ==
    /\ scrape.pc = "list"
    /\ scrape' = [pc |-> "idle", answer |-> a]
    /\ UNCHANGED <<args, conf, printed, down, hung, synced, controller, poll, failures, budget>>

collect == synced /\ Answer(Counts.failing)

\* Mutant of collectTimeout: the List waits for the informer for ever.
collectTimeout_None == FALSE /\ Answer(Absent)

\* The List blocks on an informer that has not synced, up to its deadline.
collectTimeout == ~synced /\ Answer(Absent)

-----------------------------------------------------------------------------
(* The peers. *)

goesDown(p) ==
    /\ budget > 0
    /\ p \notin down
    /\ down' = down \cup {p}
    /\ budget' = budget - 1
    /\ UNCHANGED <<args, conf, printed, hung, synced, controller, poll, failures, scrape>>

comesBack(p) ==
    /\ p \in down
    /\ down' = down \ {p}
    /\ UNCHANGED <<args, conf, printed, hung, synced, controller, poll, failures, scrape, budget>>

\* A call in flight is lost: it will not return, whatever becomes of its peer.
isLost(x) ==
    /\ x \notin hung
    /\ \/ x \in Running /\ Peer(x) \in down
       \/ /\ x = "poll" /\ Listening /\ poll # "list"
          /\ conf.url.parses /\ "queue" \in down
    /\ hung' = hung \cup {x}
    /\ UNCHANGED <<args, conf, printed, down, synced, controller, poll, failures, scrape,
                   budget>>

\* A rotation nobody is told of: only the periodic reconcile will find it.
rotate(s) ==
    /\ s \in Rotating
    /\ vault[s] < MaxVersion
    /\ vault' = [vault EXCEPT ![s] = @ + 1]
    /\ UNCHANGED <<args, conf, printed, down, hung, synced, ss, job, queue, dirty, timers,
                   poll, failures, scrape, budget>>

-----------------------------------------------------------------------------
Init ==
    /\ args \in Arguments
    /\ conf = [url |-> NoURL, reported |-> DefaultInterval,
               interval |-> DefaultInterval]
    /\ printed = {}
    /\ down \in SUBSET {"informer"}
    /\ hung = {}
    /\ synced = FALSE
    /\ ss = [s \in Syncs |-> [state |-> "", finalizer |-> FALSE, version |-> 0,
                              recorded |-> ""]]
    /\ vault = [s \in Syncs |-> 1]
    /\ job = [s \in Syncs |-> Idle]
    /\ queue = <<>>
    /\ dirty = {}
    /\ timers = {}
    /\ poll = "receive"
    /\ failures = 0
    /\ scrape = [pc |-> "idle", answer |-> Absent]
    /\ budget = MaxOutages

Work(s) ==
    \/ setPending(s) \/ syncFromVault(s) \/ addFinalizer(s)
    \/ writeSecret(s) \/ updateStatus(s)
    \/ reconcileTimeout(s) \/ statusPersistTimeout(s)

Poll ==
    \/ receiveSucceeds \/ matchingSecretSyncs \/ deleteMessage
    \/ callFails \/ queueCallTimeout

Scrape == scrapeStarts \/ collect \/ collectTimeout

Startup == main \/ \E order \in SetToSeqs(Syncs) : informerSyncs(order)

Next ==
    \/ usage
    \/ Startup
    \/ cacheSyncTimeout
    \/ Reconcile
    \/ \E s \in Syncs : Work(s) \/ timerFires(s) \/ rotate(s)
    \/ Poll
    \/ Scrape
    \/ \E p \in Peers : goesDown(p) \/ comesBack(p)
    \/ \E x \in Syncs \cup {"poll"} : isLost(x)

Spec == Init /\ [][Next]_vars

\* The process starts, workers and loops run, deadlines and timers expire, and
\* Prometheus scrapes.  Peers owe nothing: one that is down may stay so.
Fairness ==
    /\ WF_vars(Startup)
    /\ WF_vars(cacheSyncTimeout)
    /\ WF_vars(Reconcile)
    /\ \A s \in Syncs : WF_vars(Work(s)) /\ WF_vars(timerFires(s))
    /\ WF_vars(Poll)
    /\ WF_vars(Scrape)

FairSpec == Spec /\ Fairness

-----------------------------------------------------------------------------
(* Properties. *)

\* Every variable has its type; a SecretSync is queued once, and not while a
\* worker has it, and there are no more reconciles than workers.
TypeOK ==
    /\ args \in Arguments \cup {Absent}
    /\ conf \in [url : URLs, reported : Int, interval : Int]
    /\ printed \subseteq Parts
    /\ down \subseteq Peers
    /\ hung \subseteq Running \cup {"poll"}
    /\ synced \in BOOLEAN
    /\ ss \in [Syncs -> SecretSyncs]
    /\ vault \in [Syncs -> 1 .. MaxVersion]
    /\ job \in [Syncs -> Jobs]
    /\ Cardinality(Running) <= MaxConcurrent
    /\ queue \in Seq(Syncs) /\ IsInjective(queue)
    /\ \A s \in Running : ~Contains(queue, s)
    /\ dirty \subseteq Running
    /\ timers \subseteq Syncs
    /\ poll \in {"receive", "list", "delete"}
    /\ failures \in 0 .. MaxFailures
    /\ scrape.pc \in {"idle", "list"}
    /\ budget \in 0 .. MaxOutages

\* The interval the startup line reports is the one the reconciler runs at,
\* and it is a cadence: no flag and no variable, zero, negative or unparsable,
\* turns the periodic reconcile off or makes main report another one.
ReportedIsUsed ==
    Up => conf.reported = reconcileInterval(conf.interval) /\ conf.reported > 0

\* The query of the queue URL, where a SAS token sits, is never printed: not by
\* usage, not at startup, not by the errors that a broken queue makes the poll
\* loop log for ever, parseable or not.  Of a URL that parses nothing is printed
\* but scheme, host and path.
SASTokenNeverLogged ==
    /\ "query" \notin printed
    /\ Up /\ conf.url.parses => printed \subseteq {"location"}

\* redact.go:11-14: of a URL that net/url cannot parse "the raw value is never
\* echoed back".  It is, in pieces: redactURLError keeps the cause.
RawValueNeverEchoed == Up /\ ~conf.url.parses => printed = {}

\* Whatever is configured and whatever hangs, no SecretSync drops out of the
\* schedule: it is queued, being worked on, or a timer will queue it.
Scheduled ==
    synced => \A s \in Syncs : Contains(queue, s) \/ s \in Running \cup timers

\* FR-008: a SecretSync whose own vault answers is synced, and rotations are
\* found without being announced, although calls on behalf of others hang for
\* ever and there are fewer workers than SecretSyncs.
NotStarved ==
    \A s \in Syncs :
       <>[]({s, "api", "informer"} \cap down = {})
          => <>[](/\ ss[s].state = "InSync" /\ ss[s].recorded = "InSync"
                 /\ ss[s].version = vault[s])

\* FR-009: a vault that hangs is an outage someone can see.  The status ends
\* up at TransientError, an outcome is recorded, and the metrics count it.
OutageReported ==
    \A s \in Syncs :
       <>[](s \in down /\ {"api", "informer"} \cap down = {})
          => <>[](/\ ss[s].state = "TransientError"
                 /\ ss[s].recorded = "TransientError"
                 /\ \/ scrape.pc = "list"
                    \/ scrape.answer # Absent /\ scrape.answer > 0)

\* kvsynk8s_queue_consecutive_receive_failures tells the truth: it moves when
\* the queue hangs, refuses or cannot be addressed, and returns to zero.  While
\* the informer cannot sync, a message in hand stalls the loop, and the gauge
\* moves only after CacheSyncTimeout, once in each life of the process.
GaugeTellsTruth ==
    LET Broken == Listening
                  /\ (~conf.url.parses \/ down \cap {"queue", "denied"} # {})
    IN  /\ <>[](Broken /\ "informer" \notin down) => <>[](failures > 0)
        /\ <>[]Broken => []<>(failures > 0)
        /\ <>[](Up /\ conf.url.parses /\ down \cap {"queue", "denied"} = {})
              => <>[](failures = 0)

\* Whoever scrapes gets an answer, also while the informer cannot sync; the exit
\* that ends such a life of the process is not one.
ScrapeAnswers == scrape.pc = "list" ~> scrape.pc = "idle"
=============================================================================

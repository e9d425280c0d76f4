--------------------------- MODULE Configuration ---------------------------
(***************************************************************************)
(* cmd/main.go's resolution of flags and environment, the reconciler's own *)
(* default interval, and internal/azure/redact.go.                         *)
(*                                                                         *)
(* Durations are integers.  A URL keeps whether net/url parses it, which   *)
(* of its parts are there, and which of them the cause of its parse error  *)
(* quotes.  "location" is scheme, host and path, all that may be shown; a  *)
(* credential may sit in any of the others, a SAS token in "query".        *)
(***************************************************************************)
EXTENDS Integers

CONSTANTS
    DefaultInterval, \* defaultReconcileInterval, the same in both packages
    Unset,           \* a flag or variable that was not given
    Unparsable       \* a variable time.ParseDuration rejects

ASSUME ConfigurationAssumption ==
    /\ DefaultInterval \in Int /\ DefaultInterval > 0
    /\ Unset \notin Int
    /\ Unparsable \notin Int

Parts == {"location", "userinfo", "query", "fragment"}

\* A parse error may quote the port or the escape it stumbled over, which are
\* pieces of any part but the query: net/url cuts that off unexamined.
Quotable == Parts \ {"query"}

URLs == {url \in [parses : BOOLEAN, parts : SUBSET Parts, quoted : SUBSET Quotable] :
            url.quoted \subseteq url.parts /\ (url.parses => url.quoted = {})}

\* The empty string: no queue.
NoURL == [parses |-> TRUE, parts |-> {}, quoted |-> {}]

\* An empty variable counts as unset.
durationFromEnv(env) ==
    IF env \in {Unset, Unparsable} THEN DefaultInterval ELSE env

\* flag.DurationVar: the environment supplies the flag's default.
configuredInterval(env, flag) ==
    IF flag = Unset THEN durationFromEnv(env) ELSE flag

\* Mutant of effectiveReconcileInterval: zero is left for the reconciler.
effectiveReconcileInterval_Passed(configured) == configured

effectiveReconcileInterval(configured) ==
    IF configured > 0 THEN configured ELSE DefaultInterval

\* The reconciler resolves its ReconcileInterval field once more.
reconcileInterval(field) == IF field > 0 THEN field ELSE DefaultInterval

\* --queue-url, when given at all, wins over QUEUE_URL, even if empty.
queueURLFromEnv(flag, env) == IF flag # Unset THEN flag ELSE env

\* What --help and a flag error print of the queue URL: the flag's default.
registerQueueURLFlag == NoURL

\* The parts of a URL that are printed; of an unparseable one, nothing is.
RedactURL(url) == IF url.parses THEN url.parts \cap {"location"} ELSE {}

\* A failed queue call is a *url.Error, which quotes its request's URL whole,
\* or an HTTP status, of which azcore prints no more than the location.
ErrorText(err) == IF err.kind = "url" THEN err.url.parts ELSE {"location"}

\* Mutant of redactURLError: only what looks like a query is cut.
redactURLError_QueryOnly(err) == ErrorText(err) \ {"query"}

\* The URL is replaced and the cause kept.  Of a network failure that names the
\* host at most, of a parse failure what it quotes.
redactURLError(err) ==
    IF err.kind = "url" THEN RedactURL(err.url) \cup err.url.quoted
    ELSE ErrorText(err)
=============================================================================

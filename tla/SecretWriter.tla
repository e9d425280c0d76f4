---------------------------- MODULE SecretWriter ----------------------------
(***************************************************************************)
(* internal/sync/writer.go: SecretWriter.CreateOrUpdate, one API call per  *)
(* step, for several SecretSyncs that target the same Secret name at once  *)
(* while users, other controllers and the garbage collector edit it.       *)
(*                                                                         *)
(* The API server's copy is `api`; `cache` is the label-filtered informer  *)
(* copy, which catches up only when CacheSync fires.  Writes are guarded   *)
(* by resourceVersion.  A call keeps the object it is working on in        *)
(* call[c].held, exactly as the code keeps `existing` or `current`.        *)
(*                                                                         *)
(*   pc         the next API call of CreateOrUpdate                        *)
(*   "create"   Client.Create                                              *)
(*   "exists"   recoverAlreadyExists' uncached Get                         *)
(*   "update"   applyUpdate called by update (a failure is recovered)      *)
(*   "recover"  recoverConflict's uncached Get                             *)
(*   "retry"    applyUpdate called by recoverConflict (a failure is final) *)
(*   "classify" classifyInvalid's uncached Get                             *)
(*   "done"     the call returned call[c].res                              *)
(***************************************************************************)
EXTENDS SecretObjects, FiniteSets

CONSTANT MaxRev    \* bound on the resourceVersions one behaviour may use

ASSUME MaxRevAssumption == MaxRev \in Nat

VARIABLES
    api,     \* the Secret at the target name in the API server, or Absent
    rev,     \* the last resourceVersion handed out
    cache,   \* the informer's copy of the target, or Absent
    call,    \* [Owners -> Calls], one CreateOrUpdate per SecretSync
    hist     \* history: what each owner's verdict may rest on

vars == <<api, rev, cache, call, hist>>

Objects == [labelled : BOOLEAN, controller : Controllers \cup {NoController},
            version : Versions \cup {NoVersion}, data : DataMaps,
            immutable : BOOLEAN, rv : Nat]

ASSUME AbsentObjectAssumption == Absent \notin Objects

PCs == {"idle", "create", "exists", "update", "recover", "retry",
        "classify", "done"}

Results == {"none", "ok", "TargetConflict", "TargetImmutable", "error"}

Calls == [pc : PCs, held : Objects \cup {Absent}, key : Keys, value : Values,
          version : Versions, res : Results]

Active(c) == call[c].pc \notin {"idle", "done"}

\* Every call in flight still has a resourceVersion to write with.
RoomFor(n) == rev + Cardinality({c \in Owners : Active(c)}) + n <= MaxRev

-----------------------------------------------------------------------------
(* The API server. *)

Body(obj) == [labelled |-> obj.labelled, controller |-> obj.controller,
              version |-> obj.version, data |-> obj.data,
              immutable |-> obj.immutable]

WithRev(body, r) == [labelled |-> body.labelled, controller |-> body.controller,
                     version |-> body.version, data |-> body.data,
                     immutable |-> body.immutable, rv |-> r]

\* Validation of an Update: immutable freezes the data and itself.
Invalid(old, new) ==
    old.immutable /\ (new.data # old.data \/ ~new.immutable)

\* Owners that a new occupant shuts out, for the history variable.
ShutOut(obj) == IF obj = Absent THEN {}
                ELSE {c \in Owners : ~Claimable(obj, c)}

\* The API server stores obj (or removes the Secret) on behalf of `actors`.
Store(obj, actors) ==
    /\ api' = obj
    /\ rev' = IF obj = Absent THEN rev ELSE obj.rv
    /\ hist' = [foreign   |-> hist.foreign \cup ShutOut(obj),
                frozen    |-> hist.frozen \/ (obj # Absent /\ obj.immutable),
                expected  |-> hist.expected,
                disturbed |-> hist.disturbed \cup
                              {c \in Owners \ actors : Active(c)}]

\* What an accepted Update leaves behind; a no-op keeps its resourceVersion.
Stored(old, new) ==
    IF new = Body(old) THEN old ELSE WithRev(new, rev + 1)

-----------------------------------------------------------------------------
(* CreateOrUpdate. *)

Return(c, res) ==
    call' = [call EXCEPT ![c] = [@ EXCEPT !.pc = "done", !.held = Absent,
                                          !.res = res]]

Goto(c, pc, held) ==
    call' = [call EXCEPT ![c] = [@ EXCEPT !.pc = pc, !.held = held]]

Wanted(c) == populateManagedSecret(Body(call[c].held), c, call[c].key,
                                   call[c].value, call[c].version)

\* CreateOrUpdate: the cached Get and where it leads.
CreateOrUpdate(c, key, value, version) ==
    /\ ~Active(c)
    /\ RoomFor(1)
    /\ LET refused == cache # Absent /\ ~writable(cache, c)
       IN  call' = [call EXCEPT ![c] =
               [pc      |-> IF refused THEN "done"
                            ELSE IF cache = Absent THEN "create" ELSE "update",
                held    |-> IF refused THEN Absent ELSE cache,
                key     |-> key, value |-> value, version |-> version,
                res     |-> IF refused THEN "TargetConflict" ELSE "none"]]
    /\ hist' = [hist EXCEPT
                  !.disturbed = @ \ {c},
                  !.expected = [@ EXCEPT ![c] =
                      WriteVerdict(cache, api, c, key, value)]]
    /\ UNCHANGED <<api, rev, cache>>

\* Mutant of create: AlreadyExists taken for a conflict, with no re-read.
create_NoReread(c) ==
    /\ call[c].pc = "create"
    /\ UNCHANGED cache
    /\ \/ /\ api = Absent
          /\ Store(WithRev(newManagedSecret(c, call[c].key, call[c].value,
                                            call[c].version), rev + 1), {c})
          /\ Return(c, "ok")
       \/ /\ api # Absent
          /\ Return(c, "TargetConflict")
          /\ UNCHANGED <<api, rev, hist>>

\* create: Client.Create, or on to recoverAlreadyExists.
create(c) ==
    /\ call[c].pc = "create"
    /\ UNCHANGED cache
    /\ \/ /\ api = Absent
          /\ Store(WithRev(newManagedSecret(c, call[c].key, call[c].value,
                                            call[c].version), rev + 1), {c})
          /\ Return(c, "ok")
       \/ /\ api # Absent
          /\ Goto(c, "exists", Absent)
          /\ UNCHANGED <<api, rev, hist>>

\* Mutant of recoverAlreadyExists: a NotFound re-read is not returned.
recoverAlreadyExists_NoNotFound(c) ==
    /\ call[c].pc = "exists"
    /\ UNCHANGED <<api, rev, cache, hist>>
    /\ IF api = Absent \/ writable(api, c) THEN Goto(c, "update", api)
                                           ELSE Return(c, "TargetConflict")

\* Mutant of recoverAlreadyExists: whatever occupies the name is updated.
recoverAlreadyExists_Unchecked(c) ==
    /\ call[c].pc = "exists"
    /\ UNCHANGED <<api, rev, cache, hist>>
    /\ \/ api = Absent /\ Return(c, "error")
       \/ api # Absent /\ Goto(c, "update", api)

\* recoverAlreadyExists: re-read uncached and decide whose Secret it is.
recoverAlreadyExists(c) ==
    /\ call[c].pc = "exists"
    /\ UNCHANGED <<api, rev, cache, hist>>
    /\ \/ api = Absent /\ Return(c, "error")
       \/ /\ api # Absent
          /\ IF writable(api, c) THEN Goto(c, "update", api)
                                 ELSE Return(c, "TargetConflict")

\* applyUpdate up to the Update call, over the held copy: its verdict.
Refusal(c) ==
    IF immutableBlocksWrite(call[c].held, call[c].key, call[c].value)
    THEN "TargetImmutable"
    ELSE IF AlreadyOwned(call[c].held, c) THEN "TargetConflict" ELSE "none"

\* applyUpdate's own return, before any API call was made.
applyUpdateRefuses(c) ==
    /\ call[c].pc \in {"update", "retry"}
    /\ Refusal(c) # "none"
    /\ Return(c, Refusal(c))
    /\ UNCHANGED <<api, rev, cache, hist>>

\* applyUpdate's Client.Update succeeds.
applyUpdateWrites(c) ==
    /\ call[c].pc \in {"update", "retry"}
    /\ Refusal(c) = "none"
    /\ api # Absent
    /\ api.rv = call[c].held.rv
    /\ ~Invalid(api, Wanted(c))
    /\ Store(Stored(api, Wanted(c)), {c})
    /\ Return(c, "ok")
    /\ UNCHANGED cache

\* Mutant of update: a Conflict is returned instead of recovered.
AfterUpdateError_NoRecovery(c, err) ==
    CASE call[c].pc = "update" /\ err = "Invalid"  -> Goto(c, "classify", Absent)
      [] OTHER                                     -> Return(c, "error")

\* update's switch over an Update error; recoverConflict has no such switch.
AfterUpdateError(c, err) ==
    CASE call[c].pc = "update" /\ err = "Conflict" -> Goto(c, "recover", Absent)
      [] call[c].pc = "update" /\ err = "Invalid"  -> Goto(c, "classify", Absent)
      [] OTHER                                     -> Return(c, "error")

\* applyUpdate's Client.Update is rejected.  Invalid is an admission policy, or
\* validation refusing a stale copy's change to a Secret frozen since; nothing
\* in the two copies says when it is answered, so it counts as a disturbance.
applyUpdateRejected(c) ==
    /\ call[c].pc \in {"update", "retry"}
    /\ Refusal(c) = "none"
    /\ \/ /\ api = Absent
          /\ AfterUpdateError(c, "NotFound")
          /\ UNCHANGED hist
       \/ /\ api # Absent /\ api.rv # call[c].held.rv
          /\ AfterUpdateError(c, "Conflict")
          /\ UNCHANGED hist
       \/ /\ api # Absent
          /\ AfterUpdateError(c, "Invalid")
          /\ hist' = [hist EXCEPT !.disturbed = @ \cup {c}]
    /\ UNCHANGED <<api, rev, cache>>

\* Mutant of recoverConflict: a fresh occupant is not checked again.
recoverConflict_Unchecked(c) ==
    /\ call[c].pc = "recover"
    /\ UNCHANGED <<api, rev, cache, hist>>
    /\ \/ api = Absent /\ Return(c, "error")
       \/ api # Absent /\ Goto(c, "retry", api)

\* Mutant of recoverConflict: re-reads the cache and calls update again.
recoverConflict_Cached(c) ==
    /\ call[c].pc = "recover"
    /\ UNCHANGED <<api, rev, cache, hist>>
    /\ \/ cache = Absent /\ Return(c, "error")
       \/ cache # Absent /\ Goto(c, "update", cache)

\* recoverConflict: one more applyUpdate over a fresh copy.
recoverConflict(c) ==
    /\ call[c].pc = "recover"
    /\ UNCHANGED <<api, rev, cache, hist>>
    /\ \/ api = Absent /\ Return(c, "error")
       \/ /\ api # Absent
          /\ IF writable(api, c) THEN Goto(c, "retry", api)
                                 ELSE Return(c, "TargetConflict")

\* classifyInvalid: was it the immutable flag?
classifyInvalid(c) ==
    /\ call[c].pc = "classify"
    /\ UNCHANGED <<api, rev, cache, hist>>
    /\ IF api # Absent /\ immutableBlocksWrite(api, call[c].key, call[c].value)
       THEN Return(c, "TargetImmutable")
       ELSE Return(c, "error")

-----------------------------------------------------------------------------
(* Failures of the API itself. *)

\* Any call may fail: a timeout, RBAC, a quota, a webhook.
CallFails(c) ==
    /\ Active(c)
    /\ Return(c, "error")
    /\ hist' = [hist EXCEPT !.disturbed = @ \cup {c}]
    /\ UNCHANGED <<api, rev, cache>>

\* The write lands but its answer is lost to the deadline.
WriteLandsReplyLost(c) ==
    /\ \/ /\ call[c].pc = "create" /\ api = Absent
          /\ Store(WithRev(newManagedSecret(c, call[c].key, call[c].value,
                                            call[c].version), rev + 1), {})
       \/ /\ call[c].pc \in {"update", "retry"}
          /\ Refusal(c) = "none"
          /\ api # Absent
          /\ api.rv = call[c].held.rv
          /\ ~Invalid(api, Wanted(c))
          /\ Store(Stored(api, Wanted(c)), {})
    /\ Return(c, "error")
    /\ UNCHANGED cache

-----------------------------------------------------------------------------
(* Everyone else. *)

\* The informer catches up with the API server.
CacheSync ==
    /\ cache # Cached(api)
    /\ cache' = Cached(api)
    /\ UNCHANGED <<api, rev, call, hist>>

\* Someone creates a Secret of their own at the target name.
ForeignCreate(data) ==
    /\ api = Absent
    /\ RoomFor(1)
    /\ Store([labelled |-> FALSE, controller |-> NoController,
              version |-> NoVersion, data |-> data, immutable |-> FALSE,
              rv |-> rev + 1], {})
    /\ UNCHANGED <<cache, call>>

\* Someone edits the Secret in place: label, owner, data or immutable flag.
ForeignEdit(new) ==
    /\ api # Absent
    /\ RoomFor(1)
    /\ new # Body(api)
    /\ ~Invalid(api, new)
    /\ Store(WithRev(new, rev + 1), {})
    /\ UNCHANGED <<cache, call>>

Edits ==
    {[Body(api) EXCEPT !.labelled = b]   : b \in BOOLEAN} \cup
    {[Body(api) EXCEPT !.controller = o] : o \in Controllers \cup {NoController}} \cup
    {[Body(api) EXCEPT !.data = d]       : d \in DataMaps} \cup
    {[Body(api) EXCEPT !.immutable = TRUE]}

\* The Secret is deleted by a user or by the garbage collector.
ForeignDelete ==
    /\ api # Absent
    /\ Store(Absent, {})
    /\ UNCHANGED <<cache, call>>

-----------------------------------------------------------------------------
Init ==
    /\ api = Absent
    /\ rev = 0
    /\ cache = Absent
    /\ \E key \in Keys, value \in Values, version \in Versions :
          call = [c \in Owners |-> [pc |-> "idle", held |-> Absent, key |-> key,
                                   value |-> value, version |-> version,
                                   res |-> "none"]]
    /\ hist = [foreign |-> {}, frozen |-> FALSE,
               expected |-> [c \in Owners |-> "none"], disturbed |-> {}]

\* The steps that carry a call to its end.
Step(c) ==
    \/ create(c)
    \/ recoverAlreadyExists(c)
    \/ applyUpdateRefuses(c)
    \/ applyUpdateWrites(c)
    \/ applyUpdateRejected(c)
    \/ recoverConflict(c)
    \/ classifyInvalid(c)

Environment ==
    \/ CacheSync
    \/ \E data \in DataMaps : ForeignCreate(data)
    \/ api # Absent /\ \E new \in Edits : ForeignEdit(new)
    \/ ForeignDelete

Next ==
    \/ \E c \in Owners :
          \/ \E key \in Keys, value \in Values, version \in Versions :
                CreateOrUpdate(c, key, value, version)
          \/ Step(c)
          \/ CallFails(c)
          \/ WriteLandsReplyLost(c)
    \/ Environment

Spec == Init /\ [][Next]_vars

-----------------------------------------------------------------------------
(* Properties. *)

\* The contract, over what a caller can see of this module's state.
Slot == IF api = Absent THEN Absent ELSE Body(api)

Answer(c) == CASE call[c].pc = "idle" -> "none"
               [] call[c].pc = "done" -> call[c].res
               [] OTHER               -> "pending"

Requests == [c \in Owners |->
    [key |-> call[c].key, value |-> call[c].value,
     version |-> call[c].version, answer |-> Answer(c)]]

Contract == INSTANCE WriteContract WITH slot <- Slot, req <- Requests

\* CreateOrUpdate, for all its re-reads and retries, is one atomic write or
\* none: every step of it is a step of WriteContract or invisible to it.
ImplementsContract == Contract!Spec

\* Every variable has its type; calls hold an object exactly while one is
\* waiting to be written.
TypeOK ==
    /\ api \in Objects \cup {Absent}
    /\ rev \in Nat
    /\ cache \in Objects \cup {Absent}
    /\ call \in [Owners -> Calls]
    /\ \A c \in Owners : (call[c].held # Absent) <=>
                          (call[c].pc \in {"update", "retry"})
    /\ hist \in [foreign : SUBSET Owners, frozen : BOOLEAN,
                 expected : [Owners -> Results],
                 disturbed : SUBSET Owners]

\* A copy of the Secret, however old, is no newer than the API server's last
\* resourceVersion, and one that still carries the current resourceVersion is
\* the current object.
Known(obj) ==
    obj # Absent => /\ obj.rv <= rev
                    /\ api # Absent /\ api.rv = obj.rv => obj = api

\* The inductive invariant behind FirstWriterWins: every copy a call is about
\* to write back passed the writable check and is Known, so an Update accepted
\* on its resourceVersion is applied to the very object that was checked.
CopiesKnown ==
    /\ api # Absent => api.rv = rev
    /\ Known(cache)
    /\ cache # Absent => cache.labelled
    /\ \A c \in Owners :
          /\ Known(call[c].held)
          /\ call[c].held # Absent => writable(call[c].held, c)

Inv == TypeOK /\ CopiesKnown

\* FR-012, first writer wins: a CreateOrUpdate call changes an existing Secret
\* only if, at that very instant in the API server, the Secret was labelled or
\* the caller's, and no other owner controlled it.  The check in the code is
\* made on a copy read earlier, cached or fresh.
FirstWriterWins ==
    [][\A c \in Owners :
          call'[c] # call[c] /\ api' # api /\ api # Absent
             => api' # Absent /\ Claimable(api, c)]_vars

\* A verdict is never invented: TargetConflict is returned only if a foreign
\* Secret really occupied the name at some time, TargetImmutable only if an
\* immutable one did.  The operator's own freshly created Secret, invisible in
\* a lagging or label-filtered cache, is never reported as a conflict.
VerdictsJustified ==
    \A c \in Owners :
       /\ call[c].res = "TargetConflict" => c \in hist.foreign
       /\ call[c].res = "TargetImmutable" => hist.frozen

\* A call that nobody disturbs answers what WriteVerdict says of the copies it
\* started from.  In particular recoverAlreadyExists and recoverConflict absorb
\* the operator's own informer lag: such a call fails only if the Secret it
\* found in the cache had already been deleted.
UndisturbedVerdict ==
    \A c \in Owners :
       call[c].pc = "done" /\ c \notin hist.disturbed
          => call[c].res = hist.expected[c]

\* The most API calls a call may still make, by the one it makes next.
CallsLeft(pc) ==
    CASE pc = "create"               -> 5
      [] pc = "exists"               -> 4
      [] pc = "update"               -> 3
      [] pc = "recover"              -> 2
      [] pc \in {"retry", "classify"} -> 1
      [] OTHER                       -> 0

\* recoverAlreadyExists, update, recoverConflict and classifyInvalid lead to
\* one another but in no cycle: whatever other writers and failures make of
\* the Secret in between, each step of a call takes it nearer its return, so
\* it returns within five API calls.
NearsReturn ==
    [][\A c \in Owners :
          Active(c) /\ call'[c] # call[c]
             => CallsLeft(call'[c].pc) < CallsLeft(call[c].pc)]_vars

\* A Secret another SecretSync controls is a conflict: the comment on
\* recoverAlreadyExists says ErrTargetConflict is returned for it "in update
\* (AlreadyOwnedError)".  applyUpdate asks about immutable first.
OtherOwnersSecretIsConflict ==
    [][\A c \in Owners :
          /\ call[c].pc \in {"update", "retry"}
          /\ AlreadyOwned(call[c].held, c)
          => call'[c].res # "TargetImmutable"]_vars
=============================================================================

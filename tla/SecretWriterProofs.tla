------------------------- MODULE SecretWriterProofs -------------------------
(* SecretWriter's types, first-writer-wins, termination, justified verdicts *)
(* and refinement of WriteContract, for any number of SecretSyncs,          *)
(* controllers, keys, values, versions and revisions.                       *)
EXTENDS SecretWriter, TLAPS

\* The one-entry data map of a managed Secret is a data map.
LEMMA DataOfType ==
    ASSUME NEW key \in Keys, NEW value \in Values
    PROVE  DataOf(key, value) \in DataMaps
<1>1. {key} \in SUBSET Keys
  OBVIOUS
<1>2. DataOf(key, value) \in [{key} -> Values]
  BY DEF DataOf
<1>3. QED
  BY <1>1, <1>2 DEF DataMaps

\* Stripping and stamping a resourceVersion keep an object well formed.
LEMMA BodyType ==
    ASSUME NEW obj \in Objects
    PROVE  Body(obj) \in Secrets
BY DEF Body, Objects, Secrets

LEMMA WithRevType ==
    ASSUME NEW body \in Secrets, NEW r \in Nat
    PROVE  /\ WithRev(body, r) \in Objects
           /\ WithRev(body, r).rv = r
           /\ WithRev(body, r) # Absent
BY AbsentObjectAssumption DEF WithRev, Objects, Secrets

\* What create and applyUpdate send to the API server is a managed Secret.
LEMMA DesiredType ==
    ASSUME NEW c \in Owners, NEW key \in Keys, NEW value \in Values,
           NEW version \in Versions
    PROVE  /\ newManagedSecret(c, key, value, version) \in Secrets
           /\ \A body \in Secrets :
                 populateManagedSecret(body, c, key, value, version) \in Secrets
<1>1. DataOf(key, value) \in DataMaps
  BY DataOfType
<1>2. c \in Controllers
  BY OwnersAssumption
<1>3. QED
  BY <1>1, <1>2 DEF newManagedSecret, populateManagedSecret, Secrets

\* The verdict a call is expected to return is one of its results.
LEMMA VerdictType ==
    ASSUME NEW cached, NEW current, NEW c, NEW key, NEW value
    PROVE  WriteVerdict(cached, current, c, key, value) \in Results
<1>1. \A copy : CopyVerdict(copy, c, key, value) \in Results
  BY DEF CopyVerdict, Results
<1>2. QED
  BY <1>1 DEF WriteVerdict, Results

\* The next-state relation changes a call in two ways only.
LEMMA ReturnType ==
    ASSUME TypeOK, NEW c \in Owners, NEW res \in Results, Return(c, res)
    PROVE  /\ call' \in [Owners -> Calls]
           /\ call'[c].held = Absent
           /\ call'[c].pc = "done"
           /\ \A d \in Owners \ {c} : call'[d] = call[d]
<1> DEFINE rec == [call[c] EXCEPT !.pc = "done", !.held = Absent, !.res = res]
<1>1. call \in [Owners -> Calls] /\ call[c] \in Calls
  BY DEF TypeOK
<1>2. rec \in Calls /\ rec.held = Absent /\ rec.pc = "done"
  BY <1>1 DEF Calls, PCs
<1>3. call' = [call EXCEPT ![c] = rec]
  BY DEF Return
<1> HIDE DEF rec
<1>4. QED
  BY <1>1, <1>2, <1>3

LEMMA GotoType ==
    ASSUME TypeOK, NEW c \in Owners, NEW pc \in PCs,
           NEW held \in Objects \cup {Absent}, Goto(c, pc, held)
    PROVE  /\ call' \in [Owners -> Calls]
           /\ call'[c].held = held
           /\ call'[c].pc = pc
           /\ \A d \in Owners \ {c} : call'[d] = call[d]
<1> DEFINE rec == [call[c] EXCEPT !.pc = pc, !.held = held]
<1>1. call \in [Owners -> Calls] /\ call[c] \in Calls
  BY DEF TypeOK
<1>2. rec \in Calls /\ rec.held = held /\ rec.pc = pc
  BY <1>1 DEF Calls
<1>3. call' = [call EXCEPT ![c] = rec]
  BY DEF Goto
<1> HIDE DEF rec
<1>4. QED
  BY <1>1, <1>2, <1>3

-----------------------------------------------------------------------------
(* How one step changes what the copies in flight know. *)

\* The API server's side of the next state: well typed, and every copy that
\* was Known still is.
ServerOK ==
    /\ api' \in Objects \cup {Absent}
    /\ rev' \in Nat
    /\ hist' \in [foreign : SUBSET Owners, frozen : BOOLEAN,
                 expected : [Owners -> Results], disturbed : SUBSET Owners]
    /\ api' # Absent => api'.rv = rev'
    /\ \A obj \in Objects \cup {Absent} : Known(obj) => Known(obj)'

LEMMA ServerStill ==
    ASSUME Inv, UNCHANGED <<api, rev>>,
           hist' \in [foreign : SUBSET Owners, frozen : BOOLEAN,
                     expected : [Owners -> Results], disturbed : SUBSET Owners]
    PROVE  ServerOK
BY DEF Inv, TypeOK, CopiesKnown, ServerOK, Known

\* Storing nothing, the same object, or one with a new resourceVersion.
LEMMA ServerStores ==
    ASSUME Inv, NEW obj \in Objects \cup {Absent}, NEW actors,
           obj = Absent \/ obj = api \/ obj.rv = rev + 1,
           Store(obj, actors)
    PROVE  ServerOK
<1>1. rev \in Nat /\ api \in Objects \cup {Absent}
  BY DEF Inv, TypeOK
<1>2. hist' \in [foreign : SUBSET Owners, frozen : BOOLEAN,
                expected : [Owners -> Results], disturbed : SUBSET Owners]
  <2>1. ShutOut(obj) \in SUBSET Owners
    BY DEF ShutOut
  <2>2. {c \in Owners \ actors : Active(c)} \in SUBSET Owners
    OBVIOUS
  <2>3. (obj # Absent /\ obj.immutable) \in BOOLEAN /\ (obj = Absent) \in BOOLEAN
    BY DEF Objects
  <2>4. QED
    BY <2>1, <2>2, <2>3 DEF Inv, TypeOK, Store
<1>3. CASE obj = Absent
  BY <1>1, <1>2, <1>3 DEF ServerOK, Store, Known
<1>4. CASE obj # Absent /\ obj = api
  BY <1>1, <1>2, <1>4 DEF ServerOK, Store, Known, Inv, CopiesKnown
<1>5. CASE obj # Absent /\ obj.rv = rev + 1
  <2>1. obj \in Objects /\ api' = obj /\ rev' = rev + 1
    BY <1>5 DEF Store
  <2>2. ASSUME NEW o \in Objects \cup {Absent}, Known(o)
        PROVE  Known(o)'
    <3>1. o # Absent => o.rv \in Nat /\ o.rv <= rev
      BY <2>2 DEF Known, Objects
    <3>2. QED
      BY <1>1, <1>5, <2>1, <3>1 DEF Known
  <2>3. QED
    BY <1>1, <1>2, <1>5, <2>1, <2>2 DEF ServerOK
<1>6. QED
  BY <1>3, <1>4, <1>5

\* A step of call c preserves the invariant if what c holds afterwards is
\* Known and writable.
LEMMA CallStep ==
    ASSUME Inv, NEW c \in Owners, ServerOK, UNCHANGED cache,
           call' \in [Owners -> Calls],
           \A d \in Owners \ {c} : call'[d] = call[d],
           (call'[c].held # Absent) <=> (call'[c].pc \in {"update", "retry"}),
           Known(call[c].held)',
           call'[c].held # Absent => writable(call'[c].held, c)
    PROVE  Inv'
<1>1. TypeOK'
  BY DEF Inv, TypeOK, ServerOK
<1>2. Known(cache)'
  BY DEF Inv, TypeOK, CopiesKnown, ServerOK, Known
<1>3. ASSUME NEW d \in Owners
      PROVE  /\ Known(call[d].held)'
             /\ call'[d].held # Absent => writable(call'[d].held, d)
  <2>1. CASE d = c
    BY <2>1 DEF Known
  <2>2. CASE d # c
    <3>1. call'[d] = call[d] /\ call[d].held \in Objects \cup {Absent}
      BY <2>2 DEF Inv, TypeOK, Calls
    <3>2. Known(call[d].held) /\ (call[d].held # Absent => writable(call[d].held, d))
      BY DEF Inv, CopiesKnown
    <3>3. QED
      BY <3>1, <3>2 DEF ServerOK, Known
  <2>3. QED
    BY <2>1, <2>2
<1>4. QED
  BY <1>1, <1>2, <1>3 DEF Inv, CopiesKnown, ServerOK, writable, ControllerOwnedBy

\* A step of nobody's call preserves it if the cache stays Known and labelled.
LEMMA OtherStep ==
    ASSUME Inv, ServerOK, UNCHANGED call,
           cache' \in Objects \cup {Absent}, Known(cache)',
           cache' # Absent => cache'.labelled
    PROVE  Inv'
<1>1. TypeOK'
  BY DEF Inv, TypeOK, ServerOK
<1>2. ASSUME NEW d \in Owners
      PROVE  Known(call[d].held)'
  <2>1. call'[d] = call[d] /\ call[d].held \in Objects \cup {Absent}
    BY DEF Inv, TypeOK, Calls
  <2>2. QED
    BY <2>1 DEF Inv, CopiesKnown, ServerOK, Known
<1>3. QED
  BY <1>1, <1>2 DEF Inv, CopiesKnown, ServerOK, writable, ControllerOwnedBy

-----------------------------------------------------------------------------
(* The invariant. *)

LEMMA InvInit == Init => Inv
<1> SUFFICES ASSUME Init PROVE Inv
  OBVIOUS
<1>1. PICK key \in Keys, value \in Values, version \in Versions :
         call = [c \in Owners |-> [pc |-> "idle", held |-> Absent, key |-> key,
                                  value |-> value, version |-> version,
                                  res |-> "none"]]
  BY DEF Init
<1>2. TypeOK
  BY <1>1 DEF Init, TypeOK, Calls, PCs, Results
<1>3. CopiesKnown
  BY <1>1 DEF Init, CopiesKnown, Known
<1>4. QED
  BY <1>2, <1>3 DEF Inv

\* A returning call holds nothing, so only the server's side matters.
LEMMA ReturnStep ==
    ASSUME Inv, NEW c \in Owners, NEW res \in Results, Return(c, res),
           ServerOK, UNCHANGED cache
    PROVE  Inv'
<1>1. TypeOK
  BY DEF Inv
<1>2. /\ call' \in [Owners -> Calls]
      /\ call'[c].held = Absent
      /\ call'[c].pc = "done"
      /\ \A d \in Owners \ {c} : call'[d] = call[d]
  BY <1>1, ReturnType
<1>3. Known(call[c].held)'
  BY <1>2 DEF Known
<1>4. QED
  BY <1>2, <1>3, CallStep

\* A call that goes on holds nothing, or the object it just read afresh.
LEMMA GotoStep ==
    ASSUME Inv, NEW c \in Owners, NEW pc \in PCs,
           NEW held \in Objects \cup {Absent}, Goto(c, pc, held),
           UNCHANGED <<api, rev, cache>>,
           hist' \in [foreign : SUBSET Owners, frozen : BOOLEAN,
                     expected : [Owners -> Results], disturbed : SUBSET Owners],
           \/ held = Absent /\ pc \notin {"update", "retry"}
           \/ /\ held = api /\ api # Absent /\ writable(api, c)
              /\ pc \in {"update", "retry"}
    PROVE  Inv'
<1>1. TypeOK
  BY DEF Inv
<1>2. /\ call' \in [Owners -> Calls]
      /\ call'[c].held = held
      /\ call'[c].pc = pc
      /\ \A d \in Owners \ {c} : call'[d] = call[d]
  BY <1>1, GotoType
<1>3. ServerOK
  BY ServerStill
<1>4. Known(call[c].held)'
  BY <1>1, <1>2 DEF Known, Inv, CopiesKnown, TypeOK
<1>5. QED
  BY <1>2, <1>3, <1>4, CallStep

\* A write is accepted on the held copy's resourceVersion: it is Known, so it
\* is the object in the API server, and what is stored is well formed.
LEMMA AcceptedUpdate ==
    ASSUME Inv, NEW c \in Owners, call[c].pc \in {"update", "retry"},
           api # Absent, api.rv = call[c].held.rv
    PROVE  /\ call[c].held = api
           /\ writable(api, c)
           /\ Wanted(c) \in Secrets
           /\ Stored(api, Wanted(c)) \in Objects
           /\ \/ Stored(api, Wanted(c)) = api
              \/ Stored(api, Wanted(c)).rv = rev + 1
<1>1. /\ call[c] \in Calls /\ call[c].held # Absent /\ rev \in Nat
      /\ api \in Objects
  BY DEF Inv, TypeOK
<1>2. call[c].held = api /\ writable(call[c].held, c)
  BY <1>1 DEF Inv, CopiesKnown, Known
<1>3. Wanted(c) \in Secrets
  <2>1. Body(api) \in Secrets
    BY <1>1, BodyType
  <2>2. /\ call[c].key \in Keys /\ call[c].value \in Values
        /\ call[c].version \in Versions
    BY <1>1 DEF Calls
  <2>3. QED
    BY <1>2, <2>1, <2>2, DesiredType DEF Wanted
<1>4. WithRev(Wanted(c), rev + 1) \in Objects
      /\ WithRev(Wanted(c), rev + 1).rv = rev + 1
  BY <1>1, <1>3, WithRevType
<1>5. QED
  BY <1>1, <1>2, <1>3, <1>4 DEF Stored

\* Every action preserves the invariant.
LEMMA InvNext == Inv /\ [Next]_vars => Inv'
<1> SUFFICES ASSUME Inv, [Next]_vars PROVE Inv'
  OBVIOUS
<1> USE DEF Results, PCs
<1>0. /\ TypeOK /\ api \in Objects \cup {Absent} /\ rev \in Nat
      /\ hist \in [foreign : SUBSET Owners, frozen : BOOLEAN,
                  expected : [Owners -> Results], disturbed : SUBSET Owners]
  BY DEF Inv, TypeOK
<1>1. ASSUME NEW c \in Owners, NEW key \in Keys, NEW value \in Values,
             NEW version \in Versions, CreateOrUpdate(c, key, value, version)
      PROVE  Inv'
  <2>1. cache = Absent \/ (cache \in Objects /\ cache # Absent /\ cache.labelled)
    BY DEF Inv, TypeOK, CopiesKnown
  <2>2. call' = [call EXCEPT ![c] =
                   [pc |-> IF cache = Absent THEN "create" ELSE "update",
                    held |-> cache, key |-> key, value |-> value,
                    version |-> version, res |-> "none"]]
    BY <1>1, <2>1 DEF CreateOrUpdate, writable
  <2>3. /\ call' \in [Owners -> Calls]
        /\ call'[c].held = cache
        /\ call'[c].pc = IF cache = Absent THEN "create" ELSE "update"
        /\ \A d \in Owners \ {c} : call'[d] = call[d]
    BY <1>0, <2>1, <2>2 DEF TypeOK, Calls
  <2>4. ServerOK
    <3>1. WriteVerdict(cache, api, c, key, value) \in Results
      BY VerdictType
    <3>2. hist' \in [foreign : SUBSET Owners, frozen : BOOLEAN,
                    expected : [Owners -> Results], disturbed : SUBSET Owners]
      BY <1>0, <1>1, <3>1 DEF CreateOrUpdate
    <3>3. QED
      BY <1>1, <3>2, ServerStill DEF CreateOrUpdate
  <2>5. Known(call[c].held)'
    BY <1>1, <2>3 DEF CreateOrUpdate, Inv, CopiesKnown, Known
  <2>6. cache # Absent => writable(cache, c)
    BY <2>1 DEF writable
  <2>7. cache' = cache
    BY <1>1 DEF CreateOrUpdate
  <2>8. QED
    BY <2>3, <2>4, <2>5, <2>6, <2>7, CallStep
<1>2. ASSUME NEW c \in Owners, create(c)
      PROVE  Inv'
  <2>1. CASE api = Absent
    <3> DEFINE new == WithRev(newManagedSecret(c, call[c].key, call[c].value,
                                               call[c].version), rev + 1)
    <3>1. new \in Objects /\ new.rv = rev + 1
      BY <1>0, DesiredType, WithRevType DEF TypeOK, Calls
    <3>2. Store(new, {c}) /\ Return(c, "ok") /\ cache' = cache
      BY <1>2, <2>1 DEF create
    <3> HIDE DEF new
    <3>3. ServerOK
      BY <3>1, <3>2, ServerStores
    <3>4. QED
      BY <3>2, <3>3, ReturnStep
  <2>2. CASE api # Absent
    BY <1>0, <1>2, <2>2, GotoStep DEF create
  <2>3. QED
    BY <2>1, <2>2
<1>3. ASSUME NEW c \in Owners, recoverAlreadyExists(c)
      PROVE  Inv'
  <2>1. ServerOK /\ cache' = cache
    BY <1>0, <1>3, ServerStill DEF recoverAlreadyExists
  <2>2. CASE api = Absent \/ ~writable(api, c)
    BY <1>3, <2>1, <2>2, ReturnStep DEF recoverAlreadyExists
  <2>3. CASE api # Absent /\ writable(api, c)
    BY <1>0, <1>3, <2>3, GotoStep DEF recoverAlreadyExists
  <2>4. QED
    BY <2>2, <2>3
<1>4. ASSUME NEW c \in Owners, applyUpdateRefuses(c)
      PROVE  Inv'
  <2>1. ServerOK /\ cache' = cache
    BY <1>0, <1>4, ServerStill DEF applyUpdateRefuses
  <2>2. QED
    BY <1>4, <2>1, ReturnStep DEF applyUpdateRefuses, Refusal
<1>5. ASSUME NEW c \in Owners, applyUpdateWrites(c)
      PROVE  Inv'
  <2>1. /\ Stored(api, Wanted(c)) \in Objects
        /\ \/ Stored(api, Wanted(c)) = api
           \/ Stored(api, Wanted(c)).rv = rev + 1
    BY <1>5, AcceptedUpdate DEF applyUpdateWrites
  <2>2. ServerOK
    BY <1>5, <2>1, ServerStores DEF applyUpdateWrites
  <2>3. QED
    BY <1>5, <2>2, ReturnStep DEF applyUpdateWrites
<1>6. ASSUME NEW c \in Owners, applyUpdateRejected(c)
      PROVE  Inv'
  <2>1. /\ UNCHANGED <<api, rev, cache>>
        /\ hist' \in [foreign : SUBSET Owners, frozen : BOOLEAN,
                     expected : [Owners -> Results], disturbed : SUBSET Owners]
    BY <1>0, <1>6 DEF applyUpdateRejected
  <2>2. PICK err \in {"NotFound", "Conflict", "Invalid"} : AfterUpdateError(c, err)
    BY <1>6 DEF applyUpdateRejected
  <2>3. \/ Goto(c, "recover", Absent)
        \/ Goto(c, "classify", Absent)
        \/ Return(c, "error")
    BY <2>2 DEF AfterUpdateError
  <2>4. ServerOK
    BY <2>1, ServerStill
  <2>5. QED
    BY <2>1, <2>3, <2>4, GotoStep, ReturnStep
<1>7. ASSUME NEW c \in Owners, recoverConflict(c)
      PROVE  Inv'
  <2>1. ServerOK /\ cache' = cache
    BY <1>0, <1>7, ServerStill DEF recoverConflict
  <2>2. CASE api = Absent \/ ~writable(api, c)
    BY <1>7, <2>1, <2>2, ReturnStep DEF recoverConflict
  <2>3. CASE api # Absent /\ writable(api, c)
    BY <1>0, <1>7, <2>3, GotoStep DEF recoverConflict
  <2>4. QED
    BY <2>2, <2>3
<1>8. ASSUME NEW c \in Owners, classifyInvalid(c)
      PROVE  Inv'
  <2>1. ServerOK /\ cache' = cache
    BY <1>0, <1>8, ServerStill DEF classifyInvalid
  <2>2. QED
    BY <1>8, <2>1, ReturnStep DEF classifyInvalid
<1>9. ASSUME NEW c \in Owners, CallFails(c)
      PROVE  Inv'
  <2>1. ServerOK /\ cache' = cache
    BY <1>0, <1>9, ServerStill DEF CallFails
  <2>2. QED
    BY <1>9, <2>1, ReturnStep DEF CallFails
<1>10. ASSUME NEW c \in Owners, WriteLandsReplyLost(c)
       PROVE  Inv'
  <2>1. CASE call[c].pc = "create"
    <3> DEFINE new == WithRev(newManagedSecret(c, call[c].key, call[c].value,
                                               call[c].version), rev + 1)
    <3>1. new \in Objects /\ new.rv = rev + 1
      BY <1>0, DesiredType, WithRevType DEF TypeOK, Calls
    <3>2. Store(new, {}) /\ Return(c, "error") /\ cache' = cache
      BY <1>10, <2>1 DEF WriteLandsReplyLost
    <3> HIDE DEF new
    <3>3. ServerOK
      BY <3>1, <3>2, ServerStores
    <3>4. QED
      BY <3>2, <3>3, ReturnStep
  <2>2. CASE call[c].pc \in {"update", "retry"}
    <3>1. /\ api # Absent /\ api.rv = call[c].held.rv
          /\ Store(Stored(api, Wanted(c)), {})
          /\ Return(c, "error") /\ cache' = cache
      BY <1>10, <2>2 DEF WriteLandsReplyLost
    <3>2. /\ Stored(api, Wanted(c)) \in Objects
          /\ \/ Stored(api, Wanted(c)) = api
             \/ Stored(api, Wanted(c)).rv = rev + 1
      BY <2>2, <3>1, AcceptedUpdate
    <3>3. ServerOK
      BY <3>1, <3>2, ServerStores
    <3>4. QED
      BY <3>1, <3>3, ReturnStep
  <2>3. QED
    BY <1>10, <2>1, <2>2 DEF WriteLandsReplyLost
<1>11. ASSUME CacheSync
       PROVE  Inv'
  <2>1. ServerOK
    BY <1>0, <1>11, ServerStill DEF CacheSync
  <2>2. /\ cache' = Absent \/ (cache' = api /\ api # Absent /\ api.labelled)
        /\ UNCHANGED <<api, rev, call>>
    BY <1>11 DEF CacheSync, Cached
  <2>3. Known(cache)'
    BY <1>0, <2>2 DEF Inv, CopiesKnown, Known
  <2>4. QED
    BY <1>0, <2>1, <2>2, <2>3, OtherStep
<1>12. ASSUME NEW obj \in Objects \cup {Absent}, Store(obj, {}),
              obj = Absent \/ obj.rv = rev + 1, UNCHANGED <<cache, call>>
       PROVE  Inv'
  <2>1. ServerOK
    BY <1>12, ServerStores
  <2>2. /\ cache' \in Objects \cup {Absent} /\ Known(cache)
        /\ cache' # Absent => cache'.labelled
    BY <1>12 DEF Inv, TypeOK, CopiesKnown
  <2>3. Known(cache)'
    BY <1>12, <2>1, <2>2 DEF ServerOK, Known
  <2>4. QED
    BY <1>12, <2>1, <2>2, <2>3, OtherStep
<1>13. ASSUME NEW data \in DataMaps, ForeignCreate(data)
       PROVE  Inv'
  <2> DEFINE new == [labelled |-> FALSE, controller |-> NoController,
                     version |-> NoVersion, data |-> data, immutable |-> FALSE,
                     rv |-> rev + 1]
  <2>1. new \in Objects /\ new.rv = rev + 1
    BY <1>0 DEF Objects
  <2>2. Store(new, {}) /\ UNCHANGED <<cache, call>>
    BY <1>13 DEF ForeignCreate
  <2> HIDE DEF new
  <2>3. QED
    BY <1>12, <2>1, <2>2
<1>14. ASSUME api # Absent, NEW new \in Edits, ForeignEdit(new)
       PROVE  Inv'
  <2>1. Body(api) \in Secrets
    BY <1>0, <1>14, BodyType
  <2>2. new \in Secrets
    BY <1>14, <2>1 DEF Edits, Secrets
  <2>3. WithRev(new, rev + 1) \in Objects /\ WithRev(new, rev + 1).rv = rev + 1
    BY <1>0, <2>2, WithRevType
  <2>4. QED
    BY <1>12, <1>14, <2>3 DEF ForeignEdit
<1>15. ASSUME ForeignDelete
       PROVE  Inv'
  BY <1>12, <1>15 DEF ForeignDelete
<1>16. CASE UNCHANGED vars
  BY <1>16 DEF vars, Inv, TypeOK, CopiesKnown, Known
<1>17. QED
  BY <1>1, <1>2, <1>3, <1>4, <1>5, <1>6, <1>7, <1>8, <1>9, <1>10, <1>11,
     <1>13, <1>14, <1>15, <1>16 DEF Next, Step, Environment

\* Type correctness, and with it the invariant that every copy of the Secret a
\* call in flight may write back was checked and is the object it will replace.
THEOREM InvHolds == Spec => []Inv
BY InvInit, InvNext, PTL DEF Spec

THEOREM TypeCorrect == Spec => []TypeOK
<1>1. Inv => TypeOK
  BY DEF Inv
<1>2. QED
  BY <1>1, InvHolds, PTL

\* Every copy a call is about to write back is one it was allowed to write when
\* it read it, and the current object if its resourceVersion still is.
THEOREM CopiesKnownHolds == Spec => []CopiesKnown
<1>1. Inv => CopiesKnown
  BY DEF Inv
<1>2. QED
  BY <1>1, InvHolds, PTL

-----------------------------------------------------------------------------
(* First writer wins. *)

\* Everything call c does.
Mine(c) ==
    \/ \E key \in Keys, value \in Values, version \in Versions :
          CreateOrUpdate(c, key, value, version)
    \/ Step(c)
    \/ CallFails(c)
    \/ WriteLandsReplyLost(c)

\* A call changes no other call.
LEMMA MineOnly ==
    ASSUME TypeOK, NEW c \in Owners, Mine(c), NEW d \in Owners, d # c
    PROVE  call'[d] = call[d]
<1> USE DEF TypeOK, Return, Goto
<1>1. CASE \E key \in Keys, value \in Values, version \in Versions :
              CreateOrUpdate(c, key, value, version)
  BY <1>1 DEF CreateOrUpdate
<1>2. CASE create(c) \/ recoverAlreadyExists(c)
  BY <1>2 DEF create, recoverAlreadyExists
<1>3. CASE applyUpdateRefuses(c) \/ applyUpdateWrites(c)
  BY <1>3 DEF applyUpdateRefuses, applyUpdateWrites
<1>4. CASE applyUpdateRejected(c)
  BY <1>4 DEF applyUpdateRejected, AfterUpdateError
<1>5. CASE recoverConflict(c) \/ classifyInvalid(c)
  BY <1>5 DEF recoverConflict, classifyInvalid
<1>6. CASE CallFails(c) \/ WriteLandsReplyLost(c)
  BY <1>6 DEF CallFails, WriteLandsReplyLost
<1>7. QED
  BY <1>1, <1>2, <1>3, <1>4, <1>5, <1>6 DEF Mine, Step

\* The accepted write of c replaces an object c may claim.
LEMMA AcceptedIsClaimable ==
    ASSUME Inv, NEW c \in Owners, call[c].pc \in {"update", "retry"},
           Refusal(c) = "none", api # Absent, api.rv = call[c].held.rv
    PROVE  /\ Claimable(api, c)
           /\ ~immutableBlocksWrite(api, call[c].key, call[c].value)
<1>1. call[c].held = api /\ writable(api, c)
  BY AcceptedUpdate
<1>2. QED
  BY <1>1 DEF Refusal, Claimable

\* Only an accepted Update changes an existing Secret.
LEMMA MineChanges ==
    ASSUME Inv, NEW c \in Owners, Mine(c), api' # api, api # Absent
    PROVE  api' # Absent /\ Claimable(api, c)
<1>1. /\ call[c].pc \in {"update", "retry"} /\ Refusal(c) = "none"
      /\ api.rv = call[c].held.rv
      /\ api' = Stored(api, Wanted(c))
  <2>1. CASE Step(c)
    BY <2>1 DEF Step, create, recoverAlreadyExists, applyUpdateRefuses,
       applyUpdateWrites, applyUpdateRejected, recoverConflict,
       classifyInvalid, Store
  <2>2. CASE WriteLandsReplyLost(c)
    BY <2>2 DEF WriteLandsReplyLost, Store
  <2>3. QED
    BY <2>1, <2>2 DEF Mine, CreateOrUpdate, CallFails
<1>2. api' \in Objects
  BY <1>1, AcceptedUpdate
<1>3. QED
  BY <1>1, <1>2, AcceptedIsClaimable, AbsentObjectAssumption

\* FR-012: no interleaving of callers, cache lag, edits, deletions, lost
\* replies and retries makes CreateOrUpdate change a Secret its caller may not
\* claim.
THEOREM FirstWriterWinsHolds == Spec => FirstWriterWins
<1> DEFINE Wins == \A c \in Owners :
                      call'[c] # call[c] /\ api' # api /\ api # Absent
                         => api' # Absent /\ Claimable(api, c)
<1>1. ASSUME Inv, [Next]_vars
      PROVE  [Wins]_vars
  <2> SUFFICES ASSUME Next, NEW c \in Owners,
                      call'[c] # call[c], api' # api, api # Absent
               PROVE  api' # Absent /\ Claimable(api, c)
    BY <1>1
  <2>1. ASSUME Environment
        PROVE  FALSE
    BY <2>1 DEF Environment, CacheSync, ForeignCreate, ForeignEdit, ForeignDelete
  <2>2. PICK d \in Owners : Mine(d)
    BY <2>1 DEF Next, Mine
  <2>3. d = c
    BY <1>1, <2>2, MineOnly DEF Inv
  <2>4. QED
    BY <1>1, <2>2, <2>3, MineChanges
<1>2. QED
  BY <1>1, InvHolds, PTL DEF Spec, FirstWriterWins

-----------------------------------------------------------------------------
(* Every call returns. *)

\* A step of c is its first, or goes on or returns nearer the end.
LEMMA MineNears ==
    ASSUME TypeOK, NEW c \in Owners, Mine(c), Active(c)
    PROVE  CallsLeft(call'[c].pc) < CallsLeft(call[c].pc)
<1> USE DEF CallsLeft, Active
<1>1. call[c].pc \in PCs \ {"idle", "done"}
  BY DEF TypeOK, Calls
<1>2. ASSUME NEW res \in Results, Return(c, res)
      PROVE  CallsLeft(call'[c].pc) < CallsLeft(call[c].pc)
  BY <1>1, <1>2, ReturnType DEF PCs
<1>3. ASSUME NEW pc, NEW held, Goto(c, pc, held), CallsLeft(pc) < CallsLeft(call[c].pc)
      PROVE  CallsLeft(call'[c].pc) < CallsLeft(call[c].pc)
  <2>1. call'[c].pc = pc
    BY <1>3 DEF Goto, TypeOK, Calls
  <2>2. QED
    BY <1>3, <2>1
<1>4. CASE create(c)
  BY <1>2, <1>3, <1>4 DEF create, Results
<1>5. CASE recoverAlreadyExists(c) \/ recoverConflict(c)
  BY <1>2, <1>3, <1>5 DEF recoverAlreadyExists, recoverConflict, Results
<1>6. CASE applyUpdateRefuses(c)
  <2>1. Refusal(c) \in Results
    BY DEF Refusal, Results
  <2>2. QED
    BY <1>2, <1>6, <2>1 DEF applyUpdateRefuses
<1>7. CASE applyUpdateRejected(c)
  <2>1. \/ Return(c, "error")
        \/ call[c].pc = "update" /\ Goto(c, "recover", Absent)
        \/ call[c].pc = "update" /\ Goto(c, "classify", Absent)
    BY <1>7 DEF applyUpdateRejected, AfterUpdateError
  <2>2. QED
    BY <1>2, <1>3, <2>1 DEF Results
<1>8. CASE applyUpdateWrites(c) \/ classifyInvalid(c) \/ CallFails(c)
           \/ WriteLandsReplyLost(c)
  BY <1>2, <1>8 DEF applyUpdateWrites, classifyInvalid, CallFails,
     WriteLandsReplyLost, Results
<1>9. QED
  BY <1>4, <1>5, <1>6, <1>7, <1>8 DEF Mine, Step, CreateOrUpdate

\* No call of CreateOrUpdate goes round in circles: for any number of
\* competing writers, each step of it is one of at most five API calls.
THEOREM NearsReturnHolds == Spec => NearsReturn
<1> DEFINE Nears == \A c \in Owners :
                       Active(c) /\ call'[c] # call[c]
                          => CallsLeft(call'[c].pc) < CallsLeft(call[c].pc)
<1>1. ASSUME Inv, [Next]_vars
      PROVE  [Nears]_vars
  <2> SUFFICES ASSUME Next, NEW c \in Owners, Active(c), call'[c] # call[c]
               PROVE  CallsLeft(call'[c].pc) < CallsLeft(call[c].pc)
    BY <1>1
  <2>1. ASSUME Environment
        PROVE  FALSE
    BY <2>1 DEF Environment, CacheSync, ForeignCreate, ForeignEdit, ForeignDelete
  <2>2. PICK d \in Owners : Mine(d)
    BY <2>1 DEF Next, Mine
  <2>3. d = c
    BY <1>1, <2>2, MineOnly DEF Inv
  <2>4. QED
    BY <1>1, <2>2, <2>3, MineNears DEF Inv
<1>2. QED
  BY <1>1, InvHolds, PTL DEF Spec, NearsReturn

-----------------------------------------------------------------------------
(* Verdicts are justified. *)

\* What a copy says of its time has gone into the history.
Remembered(obj) ==
    obj # Absent => /\ \A c \in Owners : ~Claimable(obj, c) => c \in hist.foreign
                    /\ obj.immutable => hist.frozen

\* The strengthening that makes VerdictsJustified inductive: every copy that a
\* verdict may still be drawn from is remembered.
AllRemembered ==
    /\ Remembered(api)
    /\ Remembered(cache)
    /\ \A c \in Owners : Remembered(call[c].held)

VInv == Inv /\ AllRemembered /\ VerdictsJustified

\* History only grows.
LEMMA Remembers ==
    ASSUME Inv, hist.foreign \subseteq hist'.foreign, hist.frozen => hist'.frozen,
           NEW obj, Remembered(obj)
    PROVE  Remembered(obj)'
BY DEF Remembered

LEMMA StoreRemembers ==
    ASSUME Inv, NEW obj, NEW actors, Store(obj, actors)
    PROVE  /\ hist.foreign \subseteq hist'.foreign
           /\ hist.frozen => hist'.frozen
           /\ Remembered(api)'
BY DEF Store, Remembered, ShutOut, Inv, TypeOK

\* A step that keeps or extends the history, leaves behind a server copy and a
\* cache that are remembered, and calls that hold or conclude no more than
\* what is, preserves the invariant.
LEMMA Justified ==
    ASSUME VInv, Inv', hist.foreign \subseteq hist'.foreign,
           hist.frozen => hist'.frozen,
           Remembered(api)', cache' \in {cache, api, Absent},
           \A c \in Owners :
              /\ call'[c].held \in {call[c].held, api, cache, Absent}
              /\ \/ call'[c].res \in {call[c].res, "none", "ok", "error"}
                 \/ call'[c].res = "TargetConflict" /\ c \in hist.foreign
                 \/ call'[c].res = "TargetImmutable" /\ hist.frozen
    PROVE  VInv'
<1>1. Remembered(cache)'
  BY Remembers DEF VInv, AllRemembered, Remembered
<1>2. \A c \in Owners : Remembered(call[c].held)'
  <2> SUFFICES ASSUME NEW c \in Owners
               PROVE  Remembered(call[c].held)'
    OBVIOUS
  <2>1. \A obj \in {call[c].held, api, cache, Absent} : Remembered(obj)
    BY DEF VInv, AllRemembered, Remembered
  <2>2. QED
    BY <2>1 DEF Remembered
<1>3. VerdictsJustified'
  BY DEF VInv, VerdictsJustified
<1>4. QED
  BY <1>1, <1>2, <1>3 DEF VInv, AllRemembered

\* A refusal of applyUpdate rests on the copy in hand.
LEMMA RefusalRemembered ==
    ASSUME VInv, NEW c \in Owners, call[c].pc \in {"update", "retry"}
    PROVE  /\ Refusal(c) = "TargetConflict" => c \in hist.foreign
           /\ Refusal(c) = "TargetImmutable" => hist.frozen
<1>1. call[c].held # Absent /\ Remembered(call[c].held)
  BY DEF VInv, Inv, TypeOK, AllRemembered
<1>2. QED
  BY <1>1 DEF Refusal, Remembered, Claimable, immutableBlocksWrite

LEMMA MineJustified ==
    ASSUME VInv, Inv', NEW c \in Owners, Mine(c)
    PROVE  VInv'
<1> DEFINE Concludes(held, res) ==
              /\ held \in {call[c].held, api, cache, Absent}
              /\ \/ res \in {call[c].res, "none", "ok", "error"}
                 \/ res = "TargetConflict" /\ c \in hist.foreign
                 \/ res = "TargetImmutable" /\ hist.frozen
<1>0. /\ TypeOK /\ Inv
      /\ Remembered(api) /\ Remembered(cache)
      /\ call[c] \in Calls
  BY DEF VInv, Inv, TypeOK, AllRemembered
<1>1. ASSUME NEW res \in Results, Return(c, res), Concludes(Absent, res)
      PROVE  Concludes(call'[c].held, call'[c].res)
  BY <1>0, <1>1 DEF Return, TypeOK, Calls
<1>2. ASSUME NEW pc, NEW held, Goto(c, pc, held), held \in {api, cache, Absent}
      PROVE  Concludes(call'[c].held, call'[c].res)
  BY <1>0, <1>2 DEF Goto, TypeOK, Calls
<1>3. ASSUME NEW key \in Keys, NEW value \in Values, NEW version \in Versions,
             CreateOrUpdate(c, key, value, version)
      PROVE  Concludes(call'[c].held, call'[c].res)
  <2>1. cache # Absent /\ ~writable(cache, c) => c \in hist.foreign
    BY <1>0 DEF Remembered, Claimable
  <2>2. QED
    BY <1>0, <1>3, <2>1 DEF CreateOrUpdate, TypeOK
<1>4. ASSUME Step(c)
      PROVE  Concludes(call'[c].held, call'[c].res)
  <2>1. CASE create(c)
    BY <1>1, <1>2, <2>1 DEF create, Results
  <2>2. CASE recoverAlreadyExists(c) \/ recoverConflict(c)
    <3>1. api # Absent /\ ~writable(api, c) => c \in hist.foreign
      BY <1>0 DEF Remembered, Claimable
    <3>2. QED
      BY <1>1, <1>2, <2>2, <3>1 DEF recoverAlreadyExists, recoverConflict, Results
  <2>3. CASE applyUpdateRefuses(c)
    <3>1. Refusal(c) \in {"TargetConflict", "TargetImmutable"}
      BY <2>3 DEF applyUpdateRefuses, Refusal
    <3>2. QED
      BY <1>1, <2>3, <3>1, RefusalRemembered DEF applyUpdateRefuses, Results
  <2>4. CASE applyUpdateWrites(c)
    BY <1>1, <2>4 DEF applyUpdateWrites, Results
  <2>5. CASE applyUpdateRejected(c)
    <3>1. Return(c, "error") \/ Goto(c, "recover", Absent) \/ Goto(c, "classify", Absent)
      BY <2>5 DEF applyUpdateRejected, AfterUpdateError
    <3>2. QED
      BY <1>1, <1>2, <3>1 DEF Results
  <2>6. CASE classifyInvalid(c)
    <3>1. api # Absent /\ immutableBlocksWrite(api, call[c].key, call[c].value)
             => hist.frozen
      BY <1>0 DEF Remembered, immutableBlocksWrite
    <3>2. QED
      BY <1>1, <2>6, <3>1 DEF classifyInvalid, Results
  <2>7. QED
    BY <1>4, <2>1, <2>2, <2>3, <2>4, <2>5, <2>6 DEF Step
<1>5. ASSUME CallFails(c) \/ WriteLandsReplyLost(c)
      PROVE  Concludes(call'[c].held, call'[c].res)
  BY <1>1, <1>5 DEF CallFails, WriteLandsReplyLost, Results
<1>6. Concludes(call'[c].held, call'[c].res)
  BY <1>3, <1>4, <1>5 DEF Mine
<1>7. cache' = cache
  BY DEF Mine, CreateOrUpdate, Step, create, recoverAlreadyExists,
     applyUpdateRefuses, applyUpdateWrites, applyUpdateRejected,
     recoverConflict, classifyInvalid, CallFails, WriteLandsReplyLost
<1>8. /\ hist.foreign \subseteq hist'.foreign
      /\ hist.frozen => hist'.frozen
      /\ Remembered(api)'
  <2>1. ASSUME NEW obj, NEW actors, Store(obj, actors)
        PROVE  <1>8
    BY <1>0, <2>1, StoreRemembers
  <2>2. ASSUME api' = api, hist'.foreign = hist.foreign, hist'.frozen = hist.frozen
        PROVE  <1>8
    BY <1>0, <2>2 DEF Remembered
  <2>3. CASE Step(c)
    BY <2>1, <2>2, <2>3, <1>0 DEF Step, create, recoverAlreadyExists,
       applyUpdateRefuses, applyUpdateWrites, applyUpdateRejected,
       recoverConflict, classifyInvalid, TypeOK
  <2>4. CASE CallFails(c) \/ WriteLandsReplyLost(c)
    BY <2>1, <2>2, <2>4, <1>0 DEF CallFails, WriteLandsReplyLost, TypeOK
  <2>5. CASE \E key \in Keys, value \in Values, version \in Versions :
                CreateOrUpdate(c, key, value, version)
    BY <2>2, <2>5, <1>0 DEF CreateOrUpdate, TypeOK
  <2>6. QED
    BY <2>3, <2>4, <2>5 DEF Mine
<1>9. \A d \in Owners \ {c} : call'[d] = call[d]
  BY <1>0, MineOnly
<1>10. QED
  BY <1>6, <1>7, <1>8, <1>9, Justified

\* A TargetConflict or TargetImmutable verdict always goes back to a Secret
\* that did occupy the name: never to the operator's own Secret that a lagging
\* or label-filtered cache does not show.
THEOREM VerdictsJustifiedHolds == Spec => []VerdictsJustified
<1>1. Init => VInv
  <2> SUFFICES ASSUME Init
               PROVE  VInv
    OBVIOUS
  <2>1. \A c \in Owners : call[c].held = Absent /\ call[c].res = "none"
    <3>1. PICK key \in Keys, value \in Values, version \in Versions :
             call = [c \in Owners |-> [pc |-> "idle", held |-> Absent, key |-> key,
                                      value |-> value, version |-> version,
                                      res |-> "none"]]
      BY DEF Init
    <3>2. QED
      BY <3>1
  <2>2. QED
    BY <2>1, InvInit DEF Init, VInv, AllRemembered, Remembered, VerdictsJustified
<1>2. VInv /\ [Next]_vars => VInv'
  <2> SUFFICES ASSUME VInv, [Next]_vars
               PROVE  VInv'
    OBVIOUS
  <2>1. Inv /\ Inv'
    BY InvNext DEF VInv
  <2>2. CASE UNCHANGED vars
    BY <2>1, <2>2, Justified DEF vars, VInv, AllRemembered, Remembered
  <2>3. CASE CacheSync
    BY <2>1, <2>3, Justified DEF CacheSync, Cached, VInv, AllRemembered, Remembered
  <2>4. ASSUME NEW obj, Store(obj, {}), UNCHANGED <<cache, call>>
        PROVE  VInv'
    BY <2>1, <2>4, StoreRemembers, Justified
  <2>5. CASE Environment
    BY <2>3, <2>4, <2>5 DEF Environment, ForeignCreate, ForeignEdit, ForeignDelete
  <2>6. ASSUME NEW c \in Owners, Mine(c)
        PROVE  VInv'
    BY <2>1, <2>6, MineJustified
  <2>7. QED
    BY <2>2, <2>5, <2>6 DEF Next, Mine
<1>3. VInv => VerdictsJustified
  BY DEF VInv
<1>4. QED
  BY <1>1, <1>2, <1>3, PTL DEF Spec

-----------------------------------------------------------------------------
(* Calls that nobody disturbs. *)

\* What call k of c owes, while obj is what the API server holds: the verdict
\* due is still to be drawn from obj and the copy in hand, or has been returned.
Due(k, c, obj, due) ==
    /\ k.pc \in {"create", "exists", "recover", "retry"}
          => due = CopyVerdict(obj, c, k.key, k.value)
    /\ k.pc \in {"exists", "recover", "retry"} => obj # Absent
    /\ k.pc = "update" => due = WriteVerdict(k.held, obj, c, k.key, k.value)
    /\ k.pc = "retry" => k.held = obj
    /\ k.pc # "classify"
    /\ k.pc = "done" => k.res = due

\* The strengthening that makes UndisturbedVerdict inductive.
UInv ==
    /\ Inv
    /\ \A c \in Owners :
          c \notin hist.disturbed => Due(call[c], c, api, hist.expected[c])

\* What a copy says, case by case; it takes no second opinion.
LEMMA Verdicts ==
    ASSUME NEW copy, NEW c, NEW key, NEW value
    PROVE  /\ copy = Absent => CopyVerdict(copy, c, key, value) = "ok"
           /\ copy # Absent /\ ~writable(copy, c)
                 => CopyVerdict(copy, c, key, value) = "TargetConflict"
           /\ copy # Absent /\ writable(copy, c)
                 => CopyVerdict(copy, c, key, value) =
                       IF immutableBlocksWrite(copy, key, value)
                       THEN "TargetImmutable"
                       ELSE IF AlreadyOwned(copy, c) THEN "TargetConflict" ELSE "ok"
           /\ copy # Absent => WriteVerdict(copy, copy, c, key, value) =
                                  CopyVerdict(copy, c, key, value)
BY DEF CopyVerdict, WriteVerdict

\* A call returns the verdict that is due, ...
LEMMA ReturnsDue ==
    ASSUME Inv, NEW c \in Owners, NEW res \in Results, Return(c, res), NEW obj
    PROVE  Due(call'[c], c, obj, res)
<1>1. call \in [Owners -> Calls] /\ call[c] \in Calls
  BY DEF Inv, TypeOK
<1>2. call'[c].pc = "done" /\ call'[c].res = res
  BY <1>1 DEF Return, Calls
<1>3. QED
  BY <1>2 DEF Due

\* ... or goes on with what it still owes.
LEMMA GoesOn ==
    ASSUME Inv, NEW c \in Owners, NEW pc, NEW held, Goto(c, pc, held)
    PROVE  /\ call'[c].pc = pc /\ call'[c].held = held
           /\ call'[c].key = call[c].key /\ call'[c].value = call[c].value
           /\ call'[c].res = call[c].res
<1>1. call \in [Owners -> Calls] /\ call[c] \in Calls
  BY DEF Inv, TypeOK
<1>2. QED
  BY <1>1 DEF Goto, Calls

\* The refusal of applyUpdate is what the copy in hand says.
LEMMA RefusalDue ==
    ASSUME Inv, NEW c \in Owners, call[c].pc \in {"update", "retry"}
    PROVE  /\ call[c].held # Absent
           /\ CopyVerdict(call[c].held, c, call[c].key, call[c].value) =
                 IF Refusal(c) = "none" THEN "ok" ELSE Refusal(c)
           /\ Refusal(c) \in {"none", "TargetImmutable", "TargetConflict"}
<1>1. call[c].held # Absent /\ writable(call[c].held, c)
  BY DEF Inv, TypeOK, CopiesKnown
<1>2. QED
  BY <1>1, Verdicts DEF Refusal

\* CreateOrUpdate owes what WriteVerdict says of the copies it starts from.
LEMMA StartOwes ==
    ASSUME Inv, NEW c \in Owners, NEW key \in Keys, NEW value \in Values,
           NEW version \in Versions, CreateOrUpdate(c, key, value, version)
    PROVE  Due(call'[c], c, api', hist'.expected[c])
<1>1. /\ call \in [Owners -> Calls]
      /\ hist.expected \in [Owners -> Results]
      /\ cache # Absent => cache.labelled
  BY DEF Inv, TypeOK, CopiesKnown
<1>2. hist'.expected[c] = WriteVerdict(cache, api, c, key, value)
  <2>1. hist'.expected = [hist.expected EXCEPT ![c] =
                             WriteVerdict(cache, api, c, key, value)]
    BY DEF CreateOrUpdate, Inv, TypeOK
  <2>2. QED
    BY <1>1, <2>1
<1>3. /\ call'[c].pc = IF cache = Absent THEN "create" ELSE "update"
      /\ call'[c].held = cache /\ call'[c].key = key /\ call'[c].value = value
      /\ api' = api
  BY <1>1 DEF CreateOrUpdate, writable
<1>4. cache = Absent => WriteVerdict(cache, api, c, key, value) =
                           CopyVerdict(api, c, key, value)
  BY Verdicts DEF WriteVerdict
<1>5. QED
  BY <1>2, <1>3, <1>4 DEF Due

\* Every step of an undisturbed call keeps what it owes.
LEMMA StepOwes ==
    ASSUME Inv, NEW c \in Owners, Step(c), c \notin hist'.disturbed,
           Due(call[c], c, api, hist.expected[c])
    PROVE  Due(call'[c], c, api', hist.expected[c])
<1> DEFINE due == hist.expected[c]
           Says(copy) == CopyVerdict(copy, c, call[c].key, call[c].value)
<1>0. call[c] \in Calls /\ hist.expected[c] \in Results
  BY DEF Inv, TypeOK
<1>1. ASSUME NEW res \in Results, Return(c, res), res = due
      PROVE  Due(call'[c], c, api', due)
  BY <1>1, ReturnsDue
<1>2. CASE create(c)
  <2>1. due = Says(api)
    BY <1>2 DEF create, Due
  <2>2. CASE api = Absent
    BY <1>1, <1>2, <2>1, <2>2, Verdicts DEF create, Results
  <2>3. CASE api # Absent
    <3>1. Goto(c, "exists", Absent) /\ api' = api
      BY <1>2, <2>3 DEF create
    <3>2. QED
      BY <2>1, <2>3, <3>1, GoesOn DEF Due
  <2>4. QED
    BY <2>2, <2>3
<1>3. CASE recoverAlreadyExists(c) \/ recoverConflict(c)
  <2>1. /\ due = Says(api) /\ api # Absent /\ api' = api
        /\ \/ ~writable(api, c) /\ Return(c, "TargetConflict")
           \/ writable(api, c) /\ Goto(c, "update", api)
           \/ writable(api, c) /\ Goto(c, "retry", api)
    BY <1>3 DEF recoverAlreadyExists, recoverConflict, Due
  <2>2. CASE ~writable(api, c) /\ Return(c, "TargetConflict")
    BY <1>1, <2>1, <2>2, Verdicts DEF Results
  <2>3. CASE Goto(c, "update", api)
    BY <2>1, <2>3, GoesOn, Verdicts DEF Due
  <2>4. CASE Goto(c, "retry", api)
    BY <2>1, <2>4, GoesOn DEF Due
  <2>5. QED
    BY <2>1, <2>2, <2>3, <2>4
<1>4. ASSUME call[c].pc \in {"update", "retry"}
      PROVE  /\ call[c].held # Absent
             /\ Refusal(c) # "none" => due = Refusal(c)
             /\ Refusal(c) = "none" /\ api = Absent
                   => call[c].pc = "update" /\ due = "error"
             /\ Refusal(c) = "none" /\ api # Absent => due = Says(api)
             /\ call[c].pc = "retry" => call[c].held = api
  <2>1. /\ call[c].held # Absent
        /\ Says(call[c].held) = IF Refusal(c) = "none" THEN "ok" ELSE Refusal(c)
        /\ Refusal(c) \in {"none", "TargetImmutable", "TargetConflict"}
    BY <1>4, RefusalDue
  <2>2. CASE call[c].pc = "update"
    BY <2>1, <2>2 DEF Due, WriteVerdict
  <2>3. CASE call[c].pc = "retry"
    BY <2>1, <2>3 DEF Due
  <2>4. QED
    BY <1>4, <2>1, <2>2, <2>3
<1>5. CASE applyUpdateRefuses(c)
  <2>1. Return(c, Refusal(c)) /\ Refusal(c) = due
    BY <1>4, <1>5 DEF applyUpdateRefuses
  <2>2. QED
    BY <1>0, <1>1, <2>1
<1>6. CASE applyUpdateWrites(c)
  <2>1. /\ Return(c, "ok") /\ Refusal(c) = "none" /\ api # Absent
        /\ call[c].pc \in {"update", "retry"} /\ api.rv = call[c].held.rv
    BY <1>6 DEF applyUpdateWrites
  <2>2. Says(api) = "ok"
    BY <2>1, AcceptedUpdate, RefusalDue
  <2>3. QED
    BY <1>1, <1>4, <2>1, <2>2 DEF Results
<1>7. CASE applyUpdateRejected(c)
  <2>1. /\ call[c].pc \in {"update", "retry"} /\ Refusal(c) = "none" /\ api' = api
        /\ \/ api = Absent /\ AfterUpdateError(c, "NotFound")
           \/ api # Absent /\ api.rv # call[c].held.rv /\ AfterUpdateError(c, "Conflict")
    BY <1>7 DEF applyUpdateRejected, Inv, TypeOK
  <2>2. CASE api = Absent /\ AfterUpdateError(c, "NotFound")
    <3>1. Return(c, "error") /\ due = "error"
      BY <1>4, <2>1, <2>2 DEF AfterUpdateError
    <3>2. QED
      BY <1>1, <3>1 DEF Results
  <2>3. CASE /\ api # Absent /\ api.rv # call[c].held.rv
             /\ AfterUpdateError(c, "Conflict")
    <3>1. call[c].pc = "update" /\ due = Says(api)
      BY <1>4, <2>1, <2>3
    <3>2. Goto(c, "recover", Absent)
      BY <2>3, <3>1 DEF AfterUpdateError
    <3>3. QED
      BY <2>1, <2>3, <3>1, <3>2, GoesOn DEF Due
  <2>4. QED
    BY <2>1, <2>2, <2>3
<1>8. CASE classifyInvalid(c)
  BY <1>8 DEF classifyInvalid, Due
<1>9. QED
  BY <1>2, <1>3, <1>5, <1>6, <1>7, <1>8 DEF Step

\* A step leaves the verdict a call d owes alone, unless d is the one that
\* starts; and it changes the Secret under d only if d is done, disturbed or
\* the writer.
LEMMA OthersWait ==
    ASSUME Inv, Next
    PROVE  \A d \in Owners :
              \/ \E key \in Keys, value \in Values, version \in Versions :
                    CreateOrUpdate(d, key, value, version)
              \/ /\ hist'.expected[d] = hist.expected[d]
                 /\ d \notin hist'.disturbed => d \notin hist.disturbed
                 /\ \/ Step(d)
                    \/ d \in hist'.disturbed
                    \/ call'[d] = call[d] /\ (api' = api \/ ~Active(d))
<1>0. /\ TypeOK /\ hist.expected \in [Owners -> Results]
      /\ hist.disturbed \subseteq Owners
      /\ hist \in [foreign : SUBSET Owners, frozen : BOOLEAN,
                   expected : [Owners -> Results], disturbed : SUBSET Owners]
  BY DEF Inv, TypeOK
<1>1. ASSUME NEW obj, NEW actors, Store(obj, actors)
      PROVE  /\ hist'.expected = hist.expected
             /\ hist'.disturbed = hist.disturbed \cup {c \in Owners \ actors : Active(c)}
  BY <1>1 DEF Store
<1> DEFINE Waits(d) ==
              /\ hist'.expected = hist.expected
              /\ hist.disturbed \subseteq hist'.disturbed
              /\ \/ Step(d)
                 \/ d \in hist'.disturbed
                 \/ call'[d] = call[d] /\ (api' = api \/ ~Active(d))
<1>2. ASSUME Environment, NEW d \in Owners
      PROVE  Waits(d)
  <2>1. CASE CacheSync
    BY <2>1 DEF CacheSync
  <2>2. ASSUME NEW obj, Store(obj, {}), UNCHANGED call
        PROVE  Waits(d)
    BY <1>1, <2>2
  <2>3. QED
    BY <1>2, <2>1, <2>2 DEF Environment, ForeignCreate, ForeignEdit, ForeignDelete
<1>3. ASSUME NEW c \in Owners, CallFails(c), NEW d \in Owners
      PROVE  Waits(d)
  <2>1. hist' = [hist EXCEPT !.disturbed = @ \cup {c}] /\ api' = api
    BY <1>3 DEF CallFails
  <2>2. d # c => call'[d] = call[d]
    BY <1>0, <1>3, MineOnly DEF Mine
  <2>3. QED
    BY <1>0, <2>1, <2>2
<1>4. ASSUME NEW c \in Owners, WriteLandsReplyLost(c), NEW d \in Owners
      PROVE  Waits(d)
  <2>1. (\E obj : Store(obj, {})) /\ Active(c)
    BY <1>4 DEF WriteLandsReplyLost, Active
  <2>2. d # c => call'[d] = call[d]
    BY <1>0, <1>4, MineOnly DEF Mine
  <2>3. QED
    BY <1>1, <2>1, <2>2
<1>5. ASSUME NEW c \in Owners, Step(c), NEW d \in Owners
      PROVE  Waits(d)
  <2>1. \/ \E obj : Store(obj, {c})
        \/ api' = api /\ hist' = hist
        \/ api' = api /\ hist' = [hist EXCEPT !.disturbed = @ \cup {c}]
    BY <1>5 DEF Step, create, recoverAlreadyExists, applyUpdateRefuses,
       applyUpdateWrites, applyUpdateRejected, recoverConflict, classifyInvalid
  <2>2. d # c => call'[d] = call[d]
    BY <1>0, <1>5, MineOnly DEF Mine
  <2>3. /\ hist'.expected = hist.expected
        /\ hist.disturbed \subseteq hist'.disturbed
        /\ \A e \in Owners \ {c} : api' = api \/ e \in hist'.disturbed \/ ~Active(e)
    BY <1>0, <1>1, <2>1
  <2>4. QED
    BY <1>5, <2>2, <2>3
<1>6. ASSUME NEW c \in Owners, NEW key \in Keys, NEW value \in Values,
             NEW version \in Versions, CreateOrUpdate(c, key, value, version),
             NEW d \in Owners, d # c
      PROVE  /\ hist'.expected[d] = hist.expected[d]
             /\ d \notin hist'.disturbed => d \notin hist.disturbed
             /\ call'[d] = call[d] /\ api' = api
  BY <1>0, <1>6 DEF CreateOrUpdate, TypeOK
<1>7. \/ \A d \in Owners : Waits(d)
      \/ \E c \in Owners, key \in Keys, value \in Values, version \in Versions :
            CreateOrUpdate(c, key, value, version)
  <2> HIDE DEF Waits
  <2>1. QED
    BY <1>2, <1>3, <1>4, <1>5 DEF Next
<1>8. CASE \A d \in Owners : Waits(d)
  BY <1>8
<1>9. CASE \E c \in Owners, key \in Keys, value \in Values, version \in Versions :
              CreateOrUpdate(c, key, value, version)
  BY <1>6, <1>9
<1>10. QED
  BY <1>7, <1>8, <1>9

\* A CreateOrUpdate that nobody disturbs answers what the copies it started
\* from say: recoverAlreadyExists and recoverConflict absorb the operator's own
\* informer lag, whatever the other calls and the cache do meanwhile.
THEOREM UndisturbedVerdictHolds == Spec => []UndisturbedVerdict
<1>1. Init => UInv
  <2> SUFFICES ASSUME Init
               PROVE  UInv
    OBVIOUS
  <2>1. \A c \in Owners : call[c].pc = "idle"
    <3>1. PICK key \in Keys, value \in Values, version \in Versions :
             call = [c \in Owners |-> [pc |-> "idle", held |-> Absent, key |-> key,
                                      value |-> value, version |-> version,
                                      res |-> "none"]]
      BY DEF Init
    <3>2. QED
      BY <3>1
  <2>2. QED
    BY <2>1, InvInit DEF UInv, Due
<1>2. UInv /\ [Next]_vars => UInv'
  <2> SUFFICES ASSUME UInv, [Next]_vars
               PROVE  UInv'
    OBVIOUS
  <2>1. Inv /\ Inv'
    BY InvNext DEF UInv
  <2>2. CASE UNCHANGED vars
    BY <2>1, <2>2 DEF vars, UInv
  <2>3. CASE Next
    <3> SUFFICES ASSUME NEW c \in Owners, c \notin hist'.disturbed
                 PROVE  Due(call'[c], c, api', hist'.expected[c])
      BY <2>1 DEF UInv
    <3>1. CASE \E key \in Keys, value \in Values, version \in Versions :
                  CreateOrUpdate(c, key, value, version)
      BY <2>1, <3>1, StartOwes
    <3>2. CASE /\ hist'.expected[c] = hist.expected[c]
               /\ c \notin hist.disturbed
               /\ \/ Step(c)
                  \/ call'[c] = call[c] /\ (api' = api \/ ~Active(c))
      <4>1. Due(call[c], c, api, hist.expected[c])
        BY <3>2 DEF UInv
      <4>2. CASE Step(c)
        BY <2>1, <3>2, <4>1, <4>2, StepOwes
      <4>3. CASE call'[c] = call[c] /\ api' = api
        BY <3>2, <4>1, <4>3
      <4>4. CASE call'[c] = call[c] /\ ~Active(c)
        BY <3>2, <4>1, <4>4 DEF Active, Due
      <4>5. QED
        BY <3>2, <4>2, <4>3, <4>4
    <3>3. QED
      BY <2>1, <2>3, <3>1, <3>2, OthersWait
  <2>4. QED
    BY <2>2, <2>3
<1>3. UInv => UndisturbedVerdict
  BY DEF UInv, UndisturbedVerdict, Due
<1>4. QED
  BY <1>1, <1>2, <1>3, PTL DEF Spec

-----------------------------------------------------------------------------
(* Refinement: CreateOrUpdate implements WriteContract. *)

\* WriteContract's copies of the SecretObjects operators are the same ones.
LEMMA SameObjects ==
    /\ Contract!Secrets = Secrets
    /\ \A obj, c : Contract!Claimable(obj, c) <=> Claimable(obj, c)
    /\ \A obj, key, value : Contract!immutableBlocksWrite(obj, key, value)
                            <=> immutableBlocksWrite(obj, key, value)
    /\ \A c, key, value, version :
          Contract!newManagedSecret(c, key, value, version)
             = newManagedSecret(c, key, value, version)
    /\ \A obj, c, key, value, version :
          Contract!populateManagedSecret(obj, c, key, value, version)
             = populateManagedSecret(obj, c, key, value, version)
BY Zenon DEF Contract!Secrets, Secrets, Contract!DataMaps, DataMaps,
   Contract!Claimable, Claimable, Contract!writable, writable,
   Contract!ControllerOwnedBy, ControllerOwnedBy, Contract!AlreadyOwned,
   AlreadyOwned, Contract!immutableBlocksWrite, immutableBlocksWrite,
   Contract!managedSecretDataMatches, managedSecretDataMatches,
   Contract!DataOf, DataOf, Contract!newManagedSecret, newManagedSecret,
   Contract!populateManagedSecret, populateManagedSecret

\* A call that goes on is invisible to its caller.
LEMMA GotoStutters ==
    ASSUME TypeOK, NEW c \in Owners, Active(c), NEW pc \in PCs,
           pc \notin {"idle", "done"}, NEW held, Goto(c, pc, held),
           UNCHANGED api
    PROVE  UNCHANGED <<Slot, Requests>>
<1>1. Slot' = Slot
  BY DEF Slot
<1>2. \A d \in Owners :
         /\ call'[d].key = call[d].key /\ call'[d].value = call[d].value
         /\ call'[d].version = call[d].version
         /\ Answer(d)' = Answer(d)
  <2> TAKE d \in Owners
  <2>1. CASE d = c
    BY <2>1 DEF TypeOK, Calls, Goto, Answer, Active
  <2>2. CASE d # c
    BY <2>2 DEF TypeOK, Goto, Answer
  <2>3. QED
    BY <2>1, <2>2
<1>3. QED
  BY <1>1, <1>2 DEF Requests

\* A return sets the answer of that one request.
LEMMA ReturnAnswers ==
    ASSUME TypeOK, NEW c \in Owners, Active(c), NEW res \in Results,
           Return(c, res)
    PROVE  /\ Requests[c].answer = "pending"
           /\ Requests' = [Requests EXCEPT ![c].answer = res]
<1>1. call[c] \in Calls /\ call \in [Owners -> Calls]
  BY DEF TypeOK
<1>2. Requests[c].answer = "pending"
  BY DEF Requests, Answer, Active
<1>3. /\ call'[c].key = call[c].key /\ call'[c].value = call[c].value
      /\ call'[c].version = call[c].version
      /\ Answer(c)' = res
  BY <1>1 DEF Return, Answer, Calls
<1>4. \A d \in Owners \ {c} : call'[d] = call[d] /\ Answer(d)' = Answer(d)
  BY <1>1 DEF Return, Answer
<1>5. QED
  BY <1>2, <1>3, <1>4 DEF Requests

\* A return with the Secret untouched declines the request.
LEMMA ReturnDeclines ==
    ASSUME TypeOK, NEW c \in Owners, Active(c),
           NEW res \in {"TargetConflict", "TargetImmutable", "error"},
           Return(c, res), UNCHANGED api
    PROVE  Contract!Decline(c)
<1>1. /\ Requests[c].answer = "pending"
      /\ Requests' = [Requests EXCEPT ![c].answer = res]
  BY ReturnAnswers DEF Results
<1>2. Slot' = Slot
  BY DEF Slot
<1>3. res \in Contract!Answers \ {"ok"}
  BY DEF Contract!Answers
<1>4. QED
  BY <1>1, <1>2, <1>3 DEF Contract!Decline

\* Stamping a resourceVersion does not change what a caller sees.
LEMMA BodyOfStored ==
    ASSUME NEW old \in Objects, NEW new \in Secrets, rev \in Nat
    PROVE  /\ Body(WithRev(new, rev + 1)) = new
           /\ Body(Stored(old, new)) = new
BY DEF Body, WithRev, Stored, Secrets

\* create's write commits the request.
LEMMA CreateCommits ==
    ASSUME Inv, NEW c \in Owners, call[c].pc = "create", api = Absent,
           NEW actors, NEW res \in {"ok", "error"},
           Store(WithRev(newManagedSecret(c, call[c].key, call[c].value,
                                          call[c].version), rev + 1), actors),
           Return(c, res)
    PROVE  Contract!Commit(c)
<1> DEFINE new == newManagedSecret(c, call[c].key, call[c].value, call[c].version)
<1>1. TypeOK /\ rev \in Nat /\ Active(c) /\ call[c] \in Calls
  BY DEF Inv, TypeOK, Active
<1>2. new \in Secrets
  BY <1>1, DesiredType DEF Calls
<1>3. WithRev(new, rev + 1) # Absent /\ WithRev(new, rev + 1) \in Objects
  BY <1>1, <1>2, WithRevType
<1>4. Body(WithRev(new, rev + 1)) = new
  BY <1>1, <1>2 DEF Body, WithRev, Secrets
<1>5. Slot = Absent /\ Slot' = new
  BY <1>3, <1>4 DEF Slot, Store
<1>6. /\ Requests[c].answer = "pending"
      /\ Requests' = [Requests EXCEPT ![c].answer = res]
  BY <1>1, ReturnAnswers DEF Results
<1>7. /\ Requests[c].key = call[c].key /\ Requests[c].value = call[c].value
      /\ Requests[c].version = call[c].version
  BY DEF Requests
<1>8. QED
  BY <1>5, <1>6, <1>7, SameObjects DEF Contract!Commit, Contract!MayCommit,
     Contract!Committed

\* An accepted Update commits the request.
LEMMA UpdateCommits ==
    ASSUME Inv, NEW c \in Owners, call[c].pc \in {"update", "retry"},
           Refusal(c) = "none", api # Absent, api.rv = call[c].held.rv,
           NEW actors, NEW res \in {"ok", "error"},
           Store(Stored(api, Wanted(c)), actors), Return(c, res)
    PROVE  Contract!Commit(c)
<1>1. /\ TypeOK /\ rev \in Nat /\ Active(c) /\ call[c] \in Calls
      /\ api \in Objects
  BY DEF Inv, TypeOK, Active
<1>2. /\ call[c].held = api /\ Wanted(c) \in Secrets
      /\ Stored(api, Wanted(c)) \in Objects
  BY AcceptedUpdate
<1>3. Slot = Body(api) /\ Slot' = Wanted(c)
  BY <1>1, <1>2, BodyOfStored, AbsentObjectAssumption DEF Slot, Store
<1>4. Wanted(c) = populateManagedSecret(Slot, c, call[c].key, call[c].value,
                                        call[c].version)
  BY <1>2, <1>3 DEF Wanted
<1>5. /\ Claimable(Slot, c)
      /\ ~immutableBlocksWrite(Slot, call[c].key, call[c].value)
  <2>1. /\ Claimable(api, c)
        /\ ~immutableBlocksWrite(api, call[c].key, call[c].value)
    BY AcceptedIsClaimable
  <2>2. QED
    BY <1>3, <2>1 DEF Body, Claimable, writable, ControllerOwnedBy,
       AlreadyOwned, immutableBlocksWrite, managedSecretDataMatches
<1>6. Slot # Absent
  BY <1>1, <1>3, BodyType, AbsentAssumption
<1>7. /\ Requests[c].answer = "pending"
      /\ Requests' = [Requests EXCEPT ![c].answer = res]
  BY <1>1, ReturnAnswers DEF Results
<1>8. /\ Requests[c].key = call[c].key /\ Requests[c].value = call[c].value
      /\ Requests[c].version = call[c].version
  BY DEF Requests
<1>9. QED
  BY <1>3, <1>4, <1>5, <1>6, <1>7, <1>8, SameObjects DEF Contract!Commit,
     Contract!MayCommit, Contract!Committed

\* The initial states map to initial states of the contract.
LEMMA ContractInit == Init => Contract!Init
<1> SUFFICES ASSUME Init PROVE Contract!Init
  OBVIOUS
<1>1. PICK key \in Keys, value \in Values, version \in Versions :
         call = [c \in Owners |-> [pc |-> "idle", held |-> Absent, key |-> key,
                                  value |-> value, version |-> version,
                                  res |-> "none"]]
  BY DEF Init
<1>2. Requests = [c \in Owners |-> [key |-> key, value |-> value,
                                   version |-> version, answer |-> "none"]]
  BY <1>1 DEF Requests, Answer
<1>3. Slot = Absent
  BY DEF Init, Slot
<1>4. QED
  BY <1>2, <1>3 DEF Contract!Init

\* Every step of a call is a step of the contract or a stutter.
LEMMA ContractStep ==
    ASSUME Inv, NEW c \in Owners, Mine(c)
    PROVE  \/ \E key \in Keys, value \in Values, version \in Versions :
                 Contract!Begin(c, key, value, version)
           \/ Contract!Commit(c)
           \/ Contract!Decline(c)
           \/ UNCHANGED <<Slot, Requests>>
<1>0. TypeOK
  BY DEF Inv
<1> USE DEF PCs
<1>1. ASSUME NEW key \in Keys, NEW value \in Values, NEW version \in Versions,
             CreateOrUpdate(c, key, value, version)
      PROVE  Contract!Begin(c, key, value, version)
  <2>1. cache = Absent \/ writable(cache, c)
    BY DEF Inv, CopiesKnown, writable
  <2>2. call' = [call EXCEPT ![c] =
                   [pc |-> IF cache = Absent THEN "create" ELSE "update",
                    held |-> cache, key |-> key, value |-> value,
                    version |-> version, res |-> "none"]]
    BY <1>1, <2>1 DEF CreateOrUpdate
  <2>3. Requests[c].answer # "pending"
    BY <1>0, <1>1 DEF CreateOrUpdate, Active, Requests, Answer, TypeOK, Calls,
       Results
  <2>4. /\ call'[c].key = key /\ call'[c].value = value
        /\ call'[c].version = version /\ Answer(c)' = "pending"
    BY <1>0, <2>2 DEF TypeOK, Answer
  <2>5. \A d \in Owners \ {c} : call'[d] = call[d] /\ Answer(d)' = Answer(d)
    BY <1>0, <2>2 DEF TypeOK, Answer
  <2>6. Requests' = [Requests EXCEPT ![c] = [key |-> key, value |-> value,
                                   version |-> version, answer |-> "pending"]]
    BY <2>4, <2>5 DEF Requests
  <2>7. Slot' = Slot
    BY <1>1 DEF CreateOrUpdate, Slot
  <2>8. QED
    BY <2>3, <2>6, <2>7 DEF Contract!Begin
<1>2. ASSUME create(c)
      PROVE  Contract!Commit(c) \/ UNCHANGED <<Slot, Requests>>
  <2>1. CASE api = Absent
    BY <1>2, <2>1, CreateCommits DEF create
  <2>2. CASE api # Absent
    BY <1>0, <1>2, <2>2, GotoStutters DEF create, Active
  <2>3. QED
    BY <2>1, <2>2
<1>3. ASSUME recoverAlreadyExists(c) \/ recoverConflict(c)
      PROVE  Contract!Decline(c) \/ UNCHANGED <<Slot, Requests>>
  <2>1. /\ Active(c) /\ api' = api
        /\ \/ \E res \in {"error", "TargetConflict"} : Return(c, res)
           \/ \E pc \in {"update", "retry"} : Goto(c, pc, api)
    BY <1>3 DEF recoverAlreadyExists, recoverConflict, Active
  <2>2. QED
    BY <1>0, <2>1, GotoStutters, ReturnDeclines
<1>4. ASSUME applyUpdateRefuses(c)
      PROVE  Contract!Decline(c)
  <2>1. Refusal(c) \in {"TargetConflict", "TargetImmutable"}
    BY <1>4 DEF applyUpdateRefuses, Refusal
  <2>2. QED
    BY <1>0, <1>4, <2>1, ReturnDeclines DEF applyUpdateRefuses, Active
<1>5. ASSUME applyUpdateWrites(c)
      PROVE  Contract!Commit(c)
  BY <1>5, UpdateCommits DEF applyUpdateWrites
<1>6. ASSUME applyUpdateRejected(c)
      PROVE  Contract!Decline(c) \/ UNCHANGED <<Slot, Requests>>
  <2>1. PICK err \in {"NotFound", "Conflict", "Invalid"} : AfterUpdateError(c, err)
    BY <1>6 DEF applyUpdateRejected
  <2>2. \/ \E pc \in {"recover", "classify"} : Goto(c, pc, Absent)
        \/ Return(c, "error")
    BY <2>1 DEF AfterUpdateError
  <2>3. Active(c) /\ api' = api
    BY <1>6 DEF applyUpdateRejected, Active
  <2>4. QED
    BY <1>0, <2>2, <2>3, GotoStutters, ReturnDeclines
<1>7. ASSUME classifyInvalid(c) \/ CallFails(c)
      PROVE  Contract!Decline(c)
  <2>1. /\ Active(c) /\ api' = api
        /\ \E res \in {"error", "TargetImmutable"} : Return(c, res)
    BY <1>7 DEF classifyInvalid, CallFails, Active
  <2>2. QED
    BY <1>0, <2>1, ReturnDeclines
<1>8. ASSUME WriteLandsReplyLost(c)
      PROVE  Contract!Commit(c)
  <2>1. CASE call[c].pc = "create"
    BY <1>8, <2>1, CreateCommits DEF WriteLandsReplyLost
  <2>2. CASE call[c].pc \in {"update", "retry"}
    BY <1>8, <2>2, UpdateCommits DEF WriteLandsReplyLost
  <2>3. QED
    BY <1>8, <2>1, <2>2 DEF WriteLandsReplyLost
<1>9. QED
  BY <1>1, <1>2, <1>3, <1>4, <1>5, <1>6, <1>7, <1>8 DEF Mine, Step

\* CreateOrUpdate implements its contract: whatever the cache shows and
\* whoever else edits the Secret, a call is one atomic write of the desired
\* Secret over an occupant its caller may claim and may rewrite, or no write.
THEOREM ImplementsContractHolds == Spec => ImplementsContract
<1>1. ASSUME Inv, [Next]_vars
      PROVE  [Contract!Next]_<<Slot, Requests>>
  <2>1. CASE UNCHANGED vars
    BY <2>1 DEF vars, Slot, Requests, Answer
  <2>2. CASE Environment
    <3>1. Requests' = Requests
      BY <2>2 DEF Environment, CacheSync, ForeignCreate, ForeignEdit,
         ForeignDelete, Requests, Answer
    <3>2. Inv'
      BY <1>1, InvNext
    <3>3. Slot' \in Secrets \cup {Absent}
      BY <3>2, BodyType DEF Inv, TypeOK, Slot
    <3>4. Contract!Others
      BY <3>1, <3>3, SameObjects DEF Contract!Others
    <3>5. QED
      BY <3>4 DEF Contract!Next
  <2>3. ASSUME NEW c \in Owners, Mine(c)
        PROVE  [Contract!Next]_<<Slot, Requests>>
    BY <1>1, <2>3, ContractStep DEF Contract!Next
  <2>4. QED
    BY <1>1, <2>1, <2>2, <2>3 DEF Next, Mine
<1>2. QED
  BY <1>1, ContractInit, InvHolds, PTL DEF Spec, ImplementsContract, Contract!Spec
=============================================================================

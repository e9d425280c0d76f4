--------------------------- MODULE QueueMessages ---------------------------
(***************************************************************************)
(* internal/events/parser.go: what Parse makes of one queue message, and   *)
(* which SecretSyncs the listener matches it to.                           *)
(*                                                                         *)
(* A body keeps what Parse branches on: whether the Base64 and the JSON    *)
(* envelope decode, the event type under its two spellings (Event Grid's   *)
(* eventType, CloudEvents' type), the data payload, and its object type.   *)
(* A Spelling is a vault and secret name as somebody typed it; Fold is the *)
(* Key Vault object it means, names being case-insensitive.                *)
(***************************************************************************)
EXTENDS Naturals

CONSTANTS
    Spellings,   \* vault and secret names, as written
    Objects,     \* Key Vault secrets
    Fold,        \* [Spellings -> Objects], strings.EqualFold on both names
    None         \* an absent field, event or SecretSync

ASSUME FoldAssumption ==
    /\ Fold \in [Spellings -> Objects]
    /\ None \notin Spellings

EventTypes == {"", "SecretNewVersionCreated", "other"}

ObjectTypes == {None, "secret", "Secret", "key"}

Bodies == [base64 : BOOLEAN, envelope : BOOLEAN,
           eventType : EventTypes, type : EventTypes,
           data : {"absent", "null", "invalid", "object"},
           objectType : ObjectTypes, name : Spellings]

\* The two delivery schemas: whichever spelling carries the type wins.
eventTypeOf(body) == IF body.eventType = "" THEN body.type ELSE body.eventType

\* Parse: "malformed" stands for ErrMalformedMessage, "inactive" for (nil, nil)
\* and "event" for a ParsedEvent, whose names are body.name.
Parse(body) ==
    CASE ~body.base64                                       -> "malformed"
      [] body.base64 /\ ~body.envelope                      -> "malformed"
      [] OTHER ->
         CASE eventTypeOf(body) = ""                        -> "malformed"
           [] eventTypeOf(body) = "other"                   -> "inactive"
           [] eventTypeOf(body) = "SecretNewVersionCreated" ->
              IF body.data # "object" THEN "malformed"
              ELSE IF body.objectType \in {"secret", "Secret"} THEN "event"
              ELSE "inactive"

\* Mutant of matches: names are compared as they are spelled.
matches_CaseSensitive(spelling, body) == spelling # None /\ spelling = body.name

\* matchingSecretSyncs' comparison, for a SecretSync that names `spelling`.
matches(spelling, body) ==
    spelling # None /\ Fold[spelling] = Fold[body.name]
=============================================================================

--------------------------- MODULE KeyVaultReader ---------------------------
(***************************************************************************)
(* internal/azure/keyvault.go and autherr.go: how GetLatest classifies     *)
(* what came of one GetSecret request.                                     *)
(*                                                                         *)
(*   outcome    "noClient"  the client could not be built                  *)
(*              "bundle"    Key Vault answered with a secret bundle        *)
(*              "refused"   Key Vault answered with an error               *)
(*              "noToken"   the credential chain produced no token         *)
(*              "noAnswer"  timeout, DNS, TLS, a broken connection         *)
(*   status     Key Vault's status if "refused", the token endpoint's (or  *)
(*              0) if "noToken"                                            *)
(*   disabled   the bundle's attributes, or the error's structured body,   *)
(*              say that the secret is disabled                            *)
(*   value      the bundle carries a value                                 *)
(*   id         the bundle carries its ID, which ends in the version       *)
(***************************************************************************)
EXTENDS Naturals

Answers == [outcome : {"noClient", "bundle", "refused", "noToken", "noAnswer"},
            status : Nat, disabled : BOOLEAN, value : BOOLEAN,
            id : BOOLEAN]

Served == [outcome |-> "bundle", status |-> 200, disabled |-> FALSE,
           value |-> TRUE, id |-> TRUE]

clearsOnItsOwn(status) == status = 429 \/ status >= 500

isAuthFailure(answer) ==
    answer.outcome = "noToken" /\ ~clearsOnItsOwn(answer.status)

\* classifySentinel: what Key Vault itself said wins over everything else.
classifySentinel(answer) ==
    IF answer.outcome = "refused"
    THEN CASE answer.disabled               -> "Disabled"
           [] ~answer.disabled /\ answer.status = 404          -> "NotFound"
           [] ~answer.disabled /\ answer.status \in {401, 403} -> "Denied"
           [] OTHER                         -> "Transient"
    ELSE IF isAuthFailure(answer) THEN "Auth" ELSE "Transient"

\* GetLatest: "ok", or the sentinel its error wraps.  A bundle with a value is
\* a success, also if nothing names its version, which is "" then.
GetLatest(answer) ==
    CASE answer.outcome = "noClient" -> "Transient"
      [] answer.outcome = "bundle"   -> IF answer.disabled THEN "Disabled"
                                        ELSE IF answer.value THEN "ok"
                                        ELSE "Transient"
      [] OTHER                       -> classifySentinel(answer)
=============================================================================

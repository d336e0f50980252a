--------------------------- MODULE FareCredentials ---------------------------
(***************************************************************************)
(* The fare-credential aggregate (crates/domain/src/credential.rs) and its *)
(* row in PostgreSQL (repositories/fare_credential.rs).  A method is the   *)
(* set of its results: {} when it returns an error, the unchanged          *)
(* aggregate when it is idempotent.  The credential's kind is not          *)
(* modelled: no operation reads it.                                        *)
(***************************************************************************)
EXTENDS Versions

CONSTANTS
    Credential,        \* credential identities
    Account,           \* transit-account identities
    RevocationReason   \* reasons for a revocation

FareCredentialStatus ==
    {"pending", "active", "suspended", "revoked", "expired", "replaced"}

Terminal == {"revoked", "expired", "replaced"}

FareCredential ==
    [account: Account, status: FareCredentialStatus,
     reason: RevocationReason \cup {NULL}, replacement: Credential \cup {NULL}]

NewPending(account) ==
    [account |-> account, status |-> "pending", reason |-> NULL, replacement |-> NULL]

-----------------------------------------------------------------------------
(* Methods of the aggregate *)

Activate(credential) ==
    IF credential.status \in {"pending", "suspended", "active"}
    THEN {[credential EXCEPT !.status = "active"]}
    ELSE {}

(* Plausible mistake in Suspend: any credential is suspended. *)
SuspendAny(credential) == {[credential EXCEPT !.status = "suspended"]}

Suspend(credential) ==
    IF credential.status \in {"active", "suspended"}
    THEN {[credential EXCEPT !.status = "suspended"]}
    ELSE {}

(* A repeated revocation keeps the first reason. *)
Revoke(credential, reason) ==
    CASE credential.status = "revoked" -> {credential}
      [] credential.status \in Terminal \ {"revoked"} -> {}
      [] OTHER -> {[credential EXCEPT !.status = "revoked", !.reason = reason,
                                      !.replacement = NULL]}

Expire(credential) ==
    CASE credential.status = "expired" -> {credential}
      [] credential.status \in Terminal \ {"expired"} -> {}
      [] OTHER -> {[credential EXCEPT !.status = "expired", !.reason = NULL,
                                      !.replacement = NULL]}

(* id is the credential itself, which cannot be its own successor. *)
ReplaceWith(id, credential, replacement) ==
    CASE replacement = id -> {}
      [] replacement # id /\ credential.status \in {"active", "suspended"} ->
           {[credential EXCEPT !.status = "replaced", !.reason = NULL,
                               !.replacement = replacement]}
      [] replacement # id /\ credential.status = "replaced" ->
           IF credential.replacement = replacement THEN {credential} ELSE {}
      [] OTHER -> {}

CredentialCalls(id, credential) ==
    Activate(credential) \cup Suspend(credential) \cup Expire(credential)
    \cup (UNION {Revoke(credential, reason) : reason \in RevocationReason})
    \cup (UNION {ReplaceWith(id, credential, r) : r \in Credential})

-----------------------------------------------------------------------------
(* The row *)

FareCredentialRow == [aggregate: FareCredential, version: 1..MaxVersion]

ValidLifecycleFields(credential) ==
    /\ (credential.reason # NULL) <=> (credential.status = "revoked")
    /\ (credential.replacement # NULL) <=> (credential.status = "replaced")

(* into_versioned: a stored row is rebuilt by the methods that lead from a new
   credential to the stored status; {} when the row is refused. *)
IntoVersioned(id, row) ==
    LET stored == row.aggregate
        new    == NewPending(stored.account)
        active == Activate(new)
        rebuilt ==
          CASE stored.status = "pending" -> {new}
            [] stored.status = "active" -> active
            [] stored.status = "suspended" -> UNION {Suspend(c) : c \in active}
            [] stored.status = "revoked" -> Revoke(new, stored.reason)
            [] stored.status = "expired" -> Expire(new)
            [] stored.status = "replaced" ->
                 UNION {ReplaceWith(id, c, stored.replacement) : c \in active}
    IN  IF ValidLifecycleFields(stored)
        THEN {[aggregate |-> c, version |-> row.version] : c \in rebuilt}
        ELSE {}

=============================================================================

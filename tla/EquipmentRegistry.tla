------------------------- MODULE EquipmentRegistry -------------------------
(***************************************************************************)
(* Reader equipment: the aggregate of crates/domain/src/equipment.rs and   *)
(* its PostgreSQL repository (repositories/reader_equipment.rs), used by   *)
(* concurrent sessions that load an aggregate, call it and save it if the  *)
(* stored version is still the one they loaded.                            *)
(*                                                                         *)
(* A call of the aggregate is the set of its results: {} when it returns   *)
(* an error, and the unchanged aggregate when it is idempotent.            *)
(***************************************************************************)
EXTENDS Versions

CONSTANTS
    Reader,             \* reader identities
    EquipmentKey,       \* public equipment-key identifiers
    DisablementReason,  \* the documented reasons to disable
    RevocationReason,   \* the documented reasons to revoke
    Session             \* callers that load, change and save aggregates

ASSUME RegistryAssumption ==
    /\ MaxVersion \in Nat
    /\ NULL \notin DisablementReason \cup RevocationReason

VARIABLES
    equipment,  \* the table reader_equipment, by reader
    session     \* the aggregate each session has created or loaded and changed, with
                \* the version it expects in the table: 0 for none

registryVars == <<equipment, session>>

-----------------------------------------------------------------------------
(* The aggregate *)

ReaderEquipmentStatus == {"pending_registration", "active", "offline",
                          "disabled", "revoked", "decommissioned"}

Terminal == {"revoked", "decommissioned"}

MayAuthenticateToBackend(e) == e.status \in {"active", "offline"}

ReaderEquipment ==
    [key: EquipmentKey, status: ReaderEquipmentStatus,
     disablement: DisablementReason \cup {NULL},
     revocation: RevocationReason \cup {NULL}]

NewPending(key) == [key |-> key, status |-> "pending_registration",
                    disablement |-> NULL, revocation |-> NULL]

Activate(e) ==
    IF e.status \in {"pending_registration", "active"}
    THEN {[e EXCEPT !.status = "active"]} ELSE {}

MarkOffline(e) ==
    IF e.status \in {"active", "offline"}
    THEN {[e EXCEPT !.status = "offline"]} ELSE {}

MarkOnline(e) ==
    IF e.status \in {"offline", "active"}
    THEN {[e EXCEPT !.status = "active"]} ELSE {}

(* A repeated call keeps the first reason. *)
Disable(e, reason) ==
    CASE e.status \in {"pending_registration", "active", "offline"} ->
           {[e EXCEPT !.status = "disabled", !.disablement = reason]}
      [] e.status = "disabled" -> {e}
      [] OTHER -> {}

Enable(e) ==
    CASE e.status = "disabled" ->
           {[e EXCEPT !.status = "active", !.disablement = NULL]}
      [] e.status = "active" -> {e}
      [] OTHER -> {}

(* A repeated call keeps the first reason. *)
Revoke(e, reason) ==
    CASE e.status \notin Terminal ->
           {[e EXCEPT !.status = "revoked", !.disablement = NULL,
                      !.revocation = reason]}
      [] e.status = "revoked" -> {e}
      [] OTHER -> {}

Decommission(e) ==
    CASE e.status \notin Terminal ->
           {[e EXCEPT !.status = "decommissioned", !.disablement = NULL,
                      !.revocation = NULL]}
      [] e.status = "decommissioned" -> {e}
      [] OTHER -> {}

RotateEquipmentKey(e, key) ==
    IF e.status \in Terminal THEN {} ELSE {[e EXCEPT !.key = key]}

Calls(e) ==
    Activate(e) \cup MarkOffline(e) \cup MarkOnline(e) \cup Enable(e)
    \cup Decommission(e)
    \cup (UNION {Disable(e, reason) : reason \in DisablementReason})
    \cup (UNION {Revoke(e, reason) : reason \in RevocationReason})
    \cup (UNION {RotateEquipmentKey(e, key) : key \in EquipmentKey})

-----------------------------------------------------------------------------
(* The repository *)

ReaderEquipmentRow == [aggregate: ReaderEquipment, version: Nat]

ASSUME RowAssumption == NULL \notin ReaderEquipmentRow

ValidLifecycleFields(e) ==
    /\ (e.disablement # NULL) <=> (e.status = "disabled")
    /\ (e.revocation # NULL) <=> (e.status = "revoked")

(* into_versioned: the stored row is rebuilt by calls of a new aggregate; {}
   when it cannot be. *)
IntoVersioned(row) ==
    LET e == row.aggregate
        new == NewPending(e.key)
    IN  IF ~ValidLifecycleFields(e) THEN {}
        ELSE CASE e.status = "pending_registration" -> {new}
               [] e.status = "active" -> Activate(new)
               [] e.status = "offline" -> UNION {MarkOffline(a) : a \in Activate(new)}
               [] e.status = "disabled" -> Disable(new, e.disablement)
               [] e.status = "revoked" -> Revoke(new, e.revocation)
               [] e.status = "decommissioned" -> Decommission(new)

KeyTaken(key, r) ==
    \E q \in Reader \ {r} : equipment[q] # NULL /\ equipment[q].aggregate.key = key

RegistryInit ==
    /\ equipment = [r \in Reader |-> NULL]
    /\ session = [s \in Session |-> NULL]

(* A new aggregate, which may be changed before it is saved. *)
NewReader(s, r, key) ==
    /\ session[s] = NULL
    /\ session' = [session EXCEPT ![s] =
                     [reader |-> r, aggregate |-> NewPending(key), version |-> 0]]
    /\ UNCHANGED equipment

(* save with MustNotExist: a taken identity or key is a unique violation. *)
InsertReader(s) ==
    /\ session[s] # NULL
    /\ session[s].version = 0
    /\ equipment[session[s].reader] = NULL
    /\ ~KeyTaken(session[s].aggregate.key, session[s].reader)
    /\ equipment' = [equipment EXCEPT ![session[s].reader] =
                       [aggregate |-> session[s].aggregate, version |-> 1]]
    /\ session' = [session EXCEPT ![s] = NULL]

FindReader(s, r) ==
    /\ session[s] = NULL
    /\ equipment[r] # NULL
    /\ \E e \in IntoVersioned(equipment[r]) :
         session' = [session EXCEPT ![s] =
                       [reader |-> r, aggregate |-> e,
                        version |-> equipment[r].version]]
    /\ UNCHANGED equipment

CallReader(s) ==
    /\ session[s] # NULL
    /\ \E e \in Calls(session[s].aggregate) :
         session' = [session EXCEPT ![s].aggregate = e]
    /\ UNCHANGED equipment

(* Plausible mistake in UpdateReader: the version is not compared. *)
UpdateAnyVersion(s) ==
    /\ session[s] # NULL
    /\ session[s].version # 0
    /\ LET r == session[s].reader IN
         /\ equipment[r].version < MaxVersion
         /\ ~KeyTaken(session[s].aggregate.key, r)
         /\ equipment' = [equipment EXCEPT ![r] =
              [aggregate |-> session[s].aggregate, version |-> session[s].version + 1]]
    /\ session' = [session EXCEPT ![s] = NULL]

(* save with IfVersion. *)
UpdateReader(s) ==
    /\ session[s] # NULL
    /\ session[s].version # 0
    /\ LET r == session[s].reader IN
         /\ session[s].version < MaxVersion
         /\ equipment[r].version = session[s].version
         /\ ~KeyTaken(session[s].aggregate.key, r)
         /\ equipment' = [equipment EXCEPT ![r] =
              [aggregate |-> session[s].aggregate, version |-> session[s].version + 1]]
    /\ session' = [session EXCEPT ![s] = NULL]

(* A session that ends without a save: the condition of the save failed, the
   database was unavailable, or the caller gave up. *)
DropSession(s) ==
    /\ session[s] # NULL
    /\ session' = [session EXCEPT ![s] = NULL]
    /\ UNCHANGED equipment

RegistryNext ==
    \E s \in Session :
      \/ \E r \in Reader, key \in EquipmentKey : NewReader(s, r, key)
      \/ InsertReader(s)
      \/ \E r \in Reader : FindReader(s, r)
      \/ CallReader(s)
      \/ UpdateReader(s)
      \/ DropSession(s)

RegistrySpec == RegistryInit /\ [][RegistryNext]_registryVars

-----------------------------------------------------------------------------
(* Properties *)

(* The table and the loaded aggregates have the type of the aggregate. *)
RegistryTypeOK ==
    /\ equipment \in [Reader -> ReaderEquipmentRow \cup {NULL}]
    /\ session \in [Session ->
         [reader: Reader, aggregate: ReaderEquipment, version: Nat] \cup {NULL}]

(* Whatever sequence of calls was saved, the stored row is rebuilt by
   into_versioned into exactly the aggregate that was saved: no status leaves
   a reason behind that makes the row unreadable. *)
StoredEquipmentLoads ==
    \A r \in Reader : equipment[r] # NULL =>
      IntoVersioned(equipment[r]) = {equipment[r].aggregate}

(* One row across a step. *)
LifecycleStep(old, new) ==
    /\ new.version = old.version + 1
    /\ old.aggregate.status \in Terminal =>
         new.aggregate = old.aggregate
    /\ new.aggregate.status = "pending_registration" =>
         old.aggregate.status = "pending_registration"

(* Revoked and decommissioned equipment stays so, with its key and reason, and
   no reader returns to registration, however many sessions save aggregates
   they loaded before: every save builds on the version it replaces. *)
TerminalForever ==
    [][\A r \in Reader :
         equipment[r] # NULL /\ equipment'[r] # equipment[r]
           => LifecycleStep(equipment[r], equipment'[r])]_registryVars

=============================================================================

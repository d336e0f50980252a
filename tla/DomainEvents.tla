---------------------------- MODULE DomainEvents ----------------------------
(***************************************************************************)
(* Domain events (crates/domain/src/event.rs) and the uniqueness of their  *)
(* rows in domain_events.  A payload is abstracted to its name, the        *)
(* aggregate it belongs to and the values before and after the change; an  *)
(* event that records no change has none before.                           *)
(***************************************************************************)
EXTENDS Naturals

(* The payloads of each kind of aggregate, by event name. *)
EventNames ==
    [transit_account |-> {"transit_account.created", "transit_account.status_changed",
                          "transit_account.stored_value_changed"},
     fare_credential |-> {"fare_credential.issued", "fare_credential.status_changed"},
     reader_equipment |-> {"reader_equipment.registered", "reader_equipment.status_changed",
                           "reader_equipment.key_rotated"},
     fare_transaction |-> {"fare_transaction.decided", "fare_transaction.reconciled"}]

AggregateKind(payload) == CHOOSE kind \in DOMAIN EventNames : payload.name \in EventNames[kind]

(* Events that record a change, which must be one. *)
Changes == {"transit_account.status_changed", "fare_credential.status_changed",
            "reader_equipment.status_changed", "reader_equipment.key_rotated",
            "transit_account.stored_value_changed"}

ValidPayload(payload) ==
    /\ payload.name \in Changes => payload.previous # payload.current
    /\ payload.name = "transit_account.stored_value_changed" =>
         payload.previous.currency = payload.current.currency

(* DomainEvent::new: the event, or {} for an invalid payload. *)
NewEvent(version, payload) ==
    IF ValidPayload(payload) THEN {[version |-> version, payload |-> payload]} ELSE {}

(* UNIQUE (aggregate_kind, aggregate_id, aggregate_version). *)
SameKey(e, f) ==
    /\ AggregateKind(e.payload) = AggregateKind(f.payload)
    /\ e.payload.aggregate = f.payload.aggregate
    /\ e.version = f.version

=============================================================================

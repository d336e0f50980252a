---------------------------- MODULE ReaderTables ----------------------------
(***************************************************************************)
(* The tables of the reader-local SQLite database and the row predicates   *)
(* that the SQL of crates/persistence/src/reader_*.rs has in common.       *)
(*                                                                         *)
(* A batch keeps the set of its entries: their order is the order of their *)
(* local sequence numbers, which fixes entry_position and the first and    *)
(* last sequence of the batch.  Failure categories, payloads and the       *)
(* identity of the one bound reader are left out.                          *)
(***************************************************************************)
EXTENDS Integers, FiniteSets, Absent

CONSTANTS
    Txn,          \* fare transaction identities
    Batch,        \* synchronization batch identities
    Time,         \* timestamps that callers pass
    Limits,       \* batch limits that callers pass
    MaxSequence,  \* the largest next_local_sequence (i64::MAX in the code)
    MaxAttempts   \* bound on attempt counters, to keep the model finite

ASSUME ConstantsAssumption ==
    /\ Time \subseteq Nat
    /\ Limits \subseteq Nat \ {0}
    /\ MaxSequence \in Nat
    /\ MaxAttempts \in Nat
    /\ NULL \notin Nat

VARIABLES
    nextLocalSequence,         \* reader_state.next_local_sequence
    lastAcknowledgedSequence,  \* reader_state.last_acknowledged_sequence
    txn,                       \* offline_transactions, by transaction
    batch,                     \* synchronization_batches and their entries
    ack                        \* synchronization_acknowledgements, by batch

storeVars == <<nextLocalSequence, lastAcknowledgedSequence, txn, batch, ack>>

readerState == <<nextLocalSequence, lastAcknowledgedSequence>>

-----------------------------------------------------------------------------
(* Rows *)

QueueState == {"pending", "in_flight", "acknowledged", "retryable_failure",
               "permanent_failure", "manual_review"}

BatchState == {"prepared", "in_flight", "acknowledged", "retryable_failure",
               "permanent_failure", "manual_review"}

FinalFailure == {"permanent_failure", "manual_review"}

OptionalTime == Time \cup {NULL}

TxnRow == [sequence: Nat, state: QueueState, attempts: Nat,
           retryAt: OptionalTime, updatedAt: Time]

BatchRow == [entries: SUBSET Txn, state: BatchState, attempts: Nat,
             submittedAt: OptionalTime, retryAt: OptionalTime,
             updatedAt: Time]

(* The outcome of one acknowledgement entry: only a retryable failure has a
   retry time. *)
Resolution ==
    [state: {"acknowledged", "permanent_failure", "manual_review"},
     retryAt: {NULL}]
    \cup [state: {"retryable_failure"}, retryAt: Time]

AckRow(entries) == [receivedAt: Time, outcome: [entries -> Resolution],
                    appliedAt: OptionalTime]

(* NULL is no row. *)
ASSUME NullAssumption ==
    /\ NULL \notin TxnRow
    /\ NULL \notin BatchRow
    /\ \A entries \in SUBSET Txn : NULL \notin AckRow(entries)

Stored(t) == txn[t] # NULL

ActiveStates == {"prepared", "in_flight", "retryable_failure"}

Active(b) == batch[b] # NULL /\ batch[b].state \in ActiveStates

InActiveBatch(t) == \E b \in Batch : Active(b) /\ t \in batch[b].entries

(* A row that was never tried (a pending transaction, a prepared batch), or a
   retryable row whose retry time has come. *)
IsReady(row, at) ==
    \/ row.state \in {"pending", "prepared"}
    \/ /\ row.state = "retryable_failure"
       /\ row.retryAt = NULL \/ row.retryAt <= at

(* The WHERE clause that every update of an in-flight row has in common. *)
InFlightBefore(row, at) ==
    row # NULL /\ row.state = "in_flight" /\ row.updatedAt <= at

SetState(row, state, retryAt, at) ==
    [row EXCEPT !.state = state, !.retryAt = retryAt, !.updatedAt = at]
Attempted(row, at) ==
    [row EXCEPT !.attempts = @ + 1, !.updatedAt = at]

(* COALESCE(value, default) *)
Coalesce(value, default) == IF value = NULL THEN default ELSE value

=============================================================================

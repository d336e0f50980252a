----------------------------- MODULE ReaderStore -----------------------------
(***************************************************************************)
(* The reader-local SQLite store of TransitGuard: the offline queue, the   *)
(* synchronization batches, the stored acknowledgements and the contiguous *)
(* high-water mark (crates/persistence/src/reader_*.rs).                   *)
(*                                                                         *)
(* Every operation of the store is one SQLite transaction on a pool of one *)
(* connection, so each is one atomic action here.  An operation that       *)
(* returns an error rolls its transaction back and changes nothing, so its *)
(* early returns are the guard of the action, and so are the idempotent    *)
(* replays, which read and change nothing.  The caller supplies every      *)
(* timestamp: the store has no clock, and nothing makes the timestamps of  *)
(* successive calls grow.                                                  *)
(***************************************************************************)
EXTENDS ReaderTables

-----------------------------------------------------------------------------
(* Plausible mistakes, kept to test the properties: each operator is a wrong
   version of the definition below that its comment names, and no
   specification uses it. *)

(* EnqueueOfflineTransaction: the row is inserted, the sequence not consumed. *)
EnqueueKeepsSequence(t, at) ==
    /\ ~Stored(t)
    /\ nextLocalSequence < MaxSequence
    /\ txn' = [txn EXCEPT ![t] =
                 [sequence |-> nextLocalSequence, state |-> "pending",
                  attempts |-> 0, retryAt |-> NULL, updatedAt |-> at]]
    /\ UNCHANGED <<readerState, batch, ack>>

(* MarkOfflineTransactionInFlight: the current state is not looked at. *)
MarkAnyRowInFlight(t, at) ==
    /\ Stored(t)
    /\ txn[t].updatedAt <= at
    /\ txn[t].attempts < MaxAttempts
    /\ txn' = [txn EXCEPT ![t] = Attempted(SetState(@, "in_flight", NULL, at), at)]
    /\ UNCHANGED <<readerState, batch, ack>>

(* Candidates: the entries of active batches are not excluded. *)
CandidatesOfAnyBatch(at) == {t \in Txn : Stored(t) /\ IsReady(txn[t], at)}

(* Submitted: a retry replaces the submission time. *)
SubmittedAnew(row, at) ==
    [Attempted(SetState(row, "in_flight", NULL, at), at)
       EXCEPT !.submittedAt = at]

(* Submitted: the submission time is not recorded. *)
SubmittedUntimed(row, at) == Attempted(SetState(row, "in_flight", NULL, at), at)

(* Submitted: the attempt of the batch is not counted. *)
SubmittedUncounted(row, at) ==
    [SetState(row, "in_flight", NULL, at) EXCEPT !.submittedAt = Coalesce(@, at)]

(* RecordFinalSynchronizationFailure: the entries keep their state. *)
FailBatchOnly(b, state, at) ==
    /\ InFlightBefore(batch[b], at)
    /\ \A t \in batch[b].entries : InFlightBefore(txn[t], at)
    /\ batch' = [batch EXCEPT ![b] = SetState(@, state, NULL, at)]
    /\ UNCHANGED <<readerState, txn, ack>>

(* StoreSynchronizationAcknowledgement: the batch state is not looked at. *)
StoreInAnyBatchState(b, receivedAt, outcome) ==
    /\ batch[b] # NULL
    /\ ack[b] = NULL
    /\ ack' = [ack EXCEPT ![b] = [receivedAt |-> receivedAt,
                                 outcome |-> outcome, appliedAt |-> NULL]]
    /\ UNCHANGED <<readerState, txn, batch>>

(* IsResolved: manual review counts as resolved. *)
IsAnyFinalState(row) ==
    row.state \in {"acknowledged", "permanent_failure", "manual_review"}

-----------------------------------------------------------------------------
(* Operations *)

(* bind_reader_database has inserted the singleton reader_state row. *)
StoreInit ==
    /\ nextLocalSequence = 1
    /\ lastAcknowledgedSequence = 0
    /\ txn = [t \in Txn |-> NULL]
    /\ batch = [b \in Batch |-> NULL]
    /\ ack = [b \in Batch |-> NULL]

(* The sequence is consumed and the row inserted in one transaction: a
   duplicate identity or an exhausted sequence changes neither. *)
EnqueueOfflineTransaction(t, at) ==
    /\ ~Stored(t)
    /\ nextLocalSequence < MaxSequence
    /\ nextLocalSequence' = nextLocalSequence + 1
    /\ txn' = [txn EXCEPT ![t] =
                 [sequence |-> nextLocalSequence, state |-> "pending",
                  attempts |-> 0, retryAt |-> NULL, updatedAt |-> at]]
    /\ UNCHANGED <<lastAcknowledgedSequence, batch, ack>>

-----------------------------------------------------------------------------
(* Transitions of one queue row that look at no batch *)

MarkOfflineTransactionInFlight(t, at) ==
    /\ Stored(t)
    /\ txn[t].updatedAt <= at
    /\ IsReady(txn[t], at)
    /\ txn[t].attempts < MaxAttempts
    /\ txn' = [txn EXCEPT ![t] = Attempted(SetState(@, "in_flight", NULL, at), at)]
    /\ UNCHANGED <<readerState, batch, ack>>

RecordRetryableQueueFailure(t, at, retryAt) ==
    /\ retryAt >= at
    /\ InFlightBefore(txn[t], at)
    /\ txn' = [txn EXCEPT ![t] = SetState(@, "retryable_failure", retryAt, at)]
    /\ UNCHANGED <<readerState, batch, ack>>

RecordFinalQueueFailure(t, state, at) ==
    /\ InFlightBefore(txn[t], at)
    /\ txn' = [txn EXCEPT ![t] = SetState(@, state, NULL, at)]
    /\ UNCHANGED <<readerState, batch, ack>>

(* Only rows outside every active batch are recovered. *)
RecoverInterruptedOfflineQueue(at) ==
    /\ txn' = [t \in Txn |->
                 IF InFlightBefore(txn[t], at) /\ ~InActiveBatch(t)
                 THEN SetState(txn[t], "retryable_failure", at, at)
                 ELSE txn[t]]
    /\ UNCHANGED <<readerState, batch, ack>>

-----------------------------------------------------------------------------
(* Synchronization batches *)

Candidates(at) ==
    {t \in Txn : Stored(t) /\ IsReady(txn[t], at) /\ ~InActiveBatch(t)}

(* ORDER BY local_sequence_number LIMIT limit *)
FirstBySequence(S, limit) ==
    {t \in S :
       Cardinality({u \in S : txn[u].sequence < txn[t].sequence}) < limit}

(* The selection does not look at updated_at but the reservation of each
   selected row does: one row from the future makes the whole call fail with
   QueueStateConflict.  Preparing a batch counts no attempt. *)
CreateSynchronizationBatch(b, limit, at) ==
    LET entries == FirstBySequence(Candidates(at), limit) IN
    /\ batch[b] = NULL
    /\ entries # {}
    /\ \A t \in entries : txn[t].updatedAt <= at
    /\ batch' = [batch EXCEPT ![b] =
                   [entries |-> entries, state |-> "prepared", attempts |-> 0,
                    submittedAt |-> NULL, retryAt |-> NULL, updatedAt |-> at]]
    /\ txn' = [t \in Txn |-> IF t \in entries
                             THEN SetState(txn[t], "in_flight", NULL, at)
                             ELSE txn[t]]
    /\ UNCHANGED <<readerState, ack>>

(* The first submission time is kept by every later submission. *)
Submitted(row, at) ==
    [Attempted(SetState(row, "in_flight", NULL, at), at)
       EXCEPT !.submittedAt = Coalesce(@, at)]

(* An entry that is not in flight makes the call fail with
   BatchEntryConflict. *)
MarkSynchronizationBatchInFlight(b, at) ==
    /\ batch[b] # NULL
    /\ batch[b].updatedAt <= at
    /\ IsReady(batch[b], at)
    /\ batch[b].attempts < MaxAttempts
    /\ \A t \in batch[b].entries : InFlightBefore(txn[t], at)
    /\ batch' = [batch EXCEPT ![b] = Submitted(@, at)]
    /\ txn' = [t \in Txn |-> IF t \in batch[b].entries
                             THEN Attempted(txn[t], at)
                             ELSE txn[t]]
    /\ UNCHANGED <<readerState, ack>>

(* The entries stay in flight, reserved for the next submission. *)
RecordSynchronizationRetryableFailure(b, at, retryAt) ==
    /\ retryAt >= at
    /\ InFlightBefore(batch[b], at)
    /\ batch' = [batch EXCEPT ![b] =
                   SetState(@, "retryable_failure", retryAt, at)]
    /\ UNCHANGED <<readerState, txn, ack>>

RecoverInterruptedSynchronizationBatches(at) ==
    /\ batch' = [b \in Batch |->
                   IF InFlightBefore(batch[b], at)
                   THEN SetState(batch[b], "retryable_failure", at, at)
                   ELSE batch[b]]
    /\ UNCHANGED <<readerState, txn, ack>>

(* permanent_failure or manual_review for the batch and for all its entries *)
RecordFinalSynchronizationFailure(b, state, at) ==
    /\ InFlightBefore(batch[b], at)
    /\ \A t \in batch[b].entries : InFlightBefore(txn[t], at)
    /\ batch' = [batch EXCEPT ![b] = SetState(@, state, NULL, at)]
    /\ txn' = [t \in Txn |-> IF t \in batch[b].entries
                             THEN SetState(txn[t], state, NULL, at)
                             ELSE txn[t]]
    /\ UNCHANGED <<readerState, ack>>
-----------------------------------------------------------------------------
(* Acknowledgements *)

(* validate_against_batch: one outcome for exactly the entries of the batch;
   validate_resolution: no retry before the receipt. *)
ValidAcknowledgement(b, receivedAt, outcome) ==
    /\ outcome \in [batch[b].entries -> Resolution]
    /\ \A t \in DOMAIN outcome :
         outcome[t].state = "retryable_failure" => outcome[t].retryAt >= receivedAt

(* A replay of the stored acknowledgement changes nothing, and a different one
   for the same batch is rejected. *)
StoreSynchronizationAcknowledgement(b, receivedAt, outcome) ==
    /\ batch[b] # NULL
    /\ ValidAcknowledgement(b, receivedAt, outcome)
    /\ ack[b] = NULL
    /\ batch[b].state = "in_flight"
    /\ ack' = [ack EXCEPT ![b] = [receivedAt |-> receivedAt,
                                 outcome |-> outcome, appliedAt |-> NULL]]
    /\ UNCHANGED <<readerState, txn, batch>>

ApplyOutcome(row, resolution, at) ==
    SetState(row, resolution.state, resolution.retryAt, at)

IsResolved(row) == row.state \in {"acknowledged", "permanent_failure"}

(* The loop of contiguous_resolved_sequence stops at n: the rows after `from'
   are consecutive and resolved up to n, and the row after n is not. *)
ContiguousResolved(rows, from, n) ==
    LET ResolvedAt(m) ==
          \E t \in Txn : /\ rows[t] # NULL
                         /\ rows[t].sequence = m
                         /\ IsResolved(rows[t])
    IN  /\ \A m \in (from + 1)..n : ResolvedAt(m)
        /\ ~ResolvedAt(n + 1)

(* The row of every entry takes its outcome; one row that is not in flight
   refuses them all. *)
ApplyEntries(b, at) ==
    /\ \A t \in DOMAIN ack[b].outcome : InFlightBefore(txn[t], at)
    /\ txn' = [t \in Txn |->
                 IF t \in DOMAIN ack[b].outcome
                 THEN ApplyOutcome(txn[t], ack[b].outcome[t], at)
                 ELSE txn[t]]

(* The high-water mark moves over the rows that are resolved without a gap. *)
AdvanceAcknowledgedSequence ==
    \E n \in lastAcknowledgedSequence..(nextLocalSequence - 1) :
      /\ ContiguousResolved(txn', lastAcknowledgedSequence, n)
      /\ lastAcknowledgedSequence' = n

(* Entry outcomes, completion of the batch, the high-water mark and the
   application mark commit together; any entry that is not in flight fails the
   call with EntryStateConflict and rolls everything back. *)
ApplySynchronizationAcknowledgement(b, at) ==
    /\ ack[b] # NULL
    /\ ack[b].appliedAt = NULL
    /\ ack[b].receivedAt <= at
    /\ InFlightBefore(batch[b], at)
    /\ ApplyEntries(b, at)
    /\ batch' = [batch EXCEPT ![b] = SetState(@, "acknowledged", NULL, at)]
    /\ AdvanceAcknowledgedSequence
    /\ ack' = [ack EXCEPT ![b].appliedAt = at]
    /\ UNCHANGED nextLocalSequence

-----------------------------------------------------------------------------
(* Specifications *)

(* The operations on batches, and the ones the reader runs at startup. *)
BatchNext ==
    \E at \in Time :
      \/ \E t \in Txn : EnqueueOfflineTransaction(t, at)
      \/ RecoverInterruptedSynchronizationBatches(at)
      \/ RecoverInterruptedOfflineQueue(at)
      \/ \E b \in Batch :
           \/ \E limit \in Limits : CreateSynchronizationBatch(b, limit, at)
           \/ MarkSynchronizationBatchInFlight(b, at)
           \/ \E retryAt \in Time :
                RecordSynchronizationRetryableFailure(b, at, retryAt)
           \/ \E state \in FinalFailure :
                RecordFinalSynchronizationFailure(b, state, at)
           \/ /\ batch[b] # NULL
              /\ \E outcome \in [batch[b].entries -> Resolution] :
                   StoreSynchronizationAcknowledgement(b, at, outcome)
           \/ ApplySynchronizationAcknowledgement(b, at)

(* The operations on one queue row. *)
RowNext(t) ==
    \E at \in Time :
      \/ MarkOfflineTransactionInFlight(t, at)
      \/ \E retryAt \in Time : RecordRetryableQueueFailure(t, at, retryAt)
      \/ \E state \in FinalFailure : RecordFinalQueueFailure(t, state, at)

(* What the reader application does: it never calls the row operations. *)
BatchSpec == StoreInit /\ [][BatchNext]_storeVars

(* The whole public interface, called in any order with any timestamps. *)
StoreNext == BatchNext \/ \E t \in Txn : RowNext(t)

StoreSpec == StoreInit /\ [][StoreNext]_storeVars

(* The row operations are kept away from the entries of active batches.  The
   store does not enforce this: it is what its callers owe it. *)
PipelineNext == BatchNext \/ \E t \in Txn : ~InActiveBatch(t) /\ RowNext(t)

PipelineSpec == StoreInit /\ [][PipelineNext]_storeVars
-----------------------------------------------------------------------------
(* Properties *)

(* Every row has its declared type; exactly the retryable rows carry a retry
   time, as the decoders of the stored rows demand; an acknowledgement has one
   outcome for each entry of its batch. *)
StoreTypeOK ==
    /\ nextLocalSequence \in Nat
    /\ lastAcknowledgedSequence \in Nat
    /\ txn \in [Txn -> TxnRow \cup {NULL}]
    /\ batch \in [Batch -> BatchRow \cup {NULL}]
    /\ DOMAIN ack = Batch
    /\ \A t \in Txn : txn[t] # NULL =>
         (txn[t].state = "retryable_failure" <=> txn[t].retryAt # NULL)
    /\ \A b \in Batch : batch[b] # NULL =>
         (batch[b].state = "retryable_failure" <=> batch[b].retryAt # NULL)
    /\ \A b \in Batch : ack[b] # NULL =>
         batch[b] # NULL /\ ack[b] \in AckRow(batch[b].entries)

(* The numbers below next_local_sequence are each assigned to exactly one
   durable transaction: enqueue neither reuses nor skips a number, whatever
   calls fail in between. *)
SequenceAllocation ==
    /\ \A n \in 1..(nextLocalSequence - 1) :
         \E t \in Txn : Stored(t) /\ txn[t].sequence = n
    /\ \A t, u \in Txn :
         /\ Stored(t) => txn[t].sequence \in 1..(nextLocalSequence - 1)
         /\ Stored(t) /\ Stored(u) /\ txn[t].sequence = txn[u].sequence => t = u

(* Everything at or below last_acknowledged_sequence is acknowledged or has
   failed permanently: neither out-of-order acknowledgement of batches nor
   partial outcomes move the mark over a transaction that still needs work. *)
HighWaterMarkSound ==
    /\ lastAcknowledgedSequence < nextLocalSequence
    /\ \A t \in Txn : Stored(t) /\ txn[t].sequence <= lastAcknowledgedSequence
         => txn[t].state \in {"acknowledged", "permanent_failure"}

(* No transaction is an entry of two batches that may still be submitted. *)
OneActiveBatch ==
    \A b, c \in Batch :
      Active(b) /\ Active(c) /\ b # c
        => batch[b].entries \cap batch[c].entries = {}

(* A transaction is acknowledged only by the applied acknowledgement of a batch
   it is an entry of, which reported that very outcome for it. *)
AcknowledgedHasEvidence ==
    \A t \in Txn : Stored(t) /\ txn[t].state = "acknowledged" =>
      \E b \in Batch : /\ ack[b] # NULL
                       /\ ack[b].appliedAt # NULL
                       /\ t \in DOMAIN ack[b].outcome
                       /\ ack[b].outcome[t].state = "acknowledged"

(* A batch is acknowledged exactly when its acknowledgement was applied, and a
   stored acknowledgement belongs to a batch that was submitted: storing and
   applying are two transactions, and whatever runs between them cannot
   separate the two marks. *)
AppliedMeansAcknowledged ==
    \A b \in Batch :
      /\ batch[b] # NULL /\ batch[b].state = "acknowledged"
           <=> ack[b] # NULL /\ ack[b].appliedAt # NULL
      /\ ack[b] # NULL => batch[b].state # "prepared"

(* One row across a step. *)
StaysFinal(t) ==
    Stored(t) =>
      /\ txn'[t] # NULL
      /\ txn'[t].sequence = txn[t].sequence
      /\ txn[t].state \in {"acknowledged", "permanent_failure", "manual_review"}
           => txn'[t] = txn[t]

(* A final state of a transaction is never left and its sequence number never
   changes, whatever late acknowledgement, retry or recovery comes. *)
FinalStatesStay == [][\A t \in Txn : StaysFinal(t)]_storeVars

(* A batch that left the prepared state carries its first submission time, so
   the request of a batch in flight can always be rebuilt. *)
SubmissionTimed ==
    \A b \in Batch : batch[b] # NULL /\ batch[b].state # "prepared"
      => batch[b].submittedAt # NULL

(* The request of one batch across a step. *)
KeepsRequest(b) ==
    batch[b] # NULL /\ batch[b].submittedAt # NULL =>
      /\ batch'[b].entries = batch[b].entries
      /\ batch'[b].submittedAt = batch[b].submittedAt

(* Once submitted, a batch is rebuilt into the same request by every retry:
   its entries and its first submission time are part of the fingerprint the
   backend compares. *)
RequestStable == [][\A b \in Batch : KeepsRequest(b)]_storeVars

(* The entries of a batch that may still be submitted are in flight, so
   neither submitting it nor applying its acknowledgement can fail with an
   entry conflict, even when queue recovery runs before batch recovery. *)
ActiveEntriesInFlight ==
    \A b \in Batch : Active(b) =>
      \A t \in batch[b].entries : Stored(t) /\ txn[t].state = "in_flight"

(* While only batches are used, the rows in flight are exactly the entries of
   the active batches: no failure, acknowledgement or recovery leaves a row in
   flight that no batch will ever resolve, so queue recovery has nothing to do. *)
InFlightIsReserved ==
    \A t \in Txn : InActiveBatch(t) <=> Stored(t) /\ txn[t].state = "in_flight"

=============================================================================

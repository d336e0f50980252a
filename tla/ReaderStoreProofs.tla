-------------------------- MODULE ReaderStoreProofs --------------------------
(***************************************************************************)
(* Proofs about ReaderStore, for every set of transactions, batches and    *)
(* timestamps and every bound.                                             *)
(***************************************************************************)
EXTENDS ReaderStore, TLAPS

(* Zenon proves the leaves that cite no other prover. *)
USE ZenonT(30)

(* SetState keeps the sequence, the entries and the counters of a row. *)
LEMMA SetStateTxn ==
    ASSUME NEW row \in TxnRow, NEW s \in QueueState,
           NEW r \in OptionalTime, NEW at \in Time
    PROVE  /\ SetState(row, s, r, at) \in TxnRow
           /\ SetState(row, s, r, at) # NULL
           /\ SetState(row, s, r, at).sequence = row.sequence
           /\ SetState(row, s, r, at).state = s
           /\ SetState(row, s, r, at).retryAt = r
           /\ SetState(row, s, r, at).attempts = row.attempts
           /\ SetState(row, s, r, at).updatedAt = at
  BY NullAssumption DEF SetState, TxnRow

LEMMA SetStateBatch ==
    ASSUME NEW row \in BatchRow, NEW s \in BatchState,
           NEW r \in OptionalTime, NEW at \in Time
    PROVE  /\ SetState(row, s, r, at) \in BatchRow
           /\ SetState(row, s, r, at) # NULL
           /\ SetState(row, s, r, at).entries = row.entries
           /\ SetState(row, s, r, at).state = s
           /\ SetState(row, s, r, at).retryAt = r
           /\ SetState(row, s, r, at).submittedAt = row.submittedAt
  BY NullAssumption DEF SetState, BatchRow

LEMMA AttemptedTxn ==
    ASSUME NEW row \in TxnRow, NEW at \in Time
    PROVE  /\ Attempted(row, at) \in TxnRow
           /\ Attempted(row, at) # NULL
           /\ Attempted(row, at).sequence = row.sequence
           /\ Attempted(row, at).state = row.state
           /\ Attempted(row, at).retryAt = row.retryAt
<1>1. Attempted(row, at) = [row EXCEPT !.attempts = row.attempts + 1,
                                     !.updatedAt = at]
  BY DEF Attempted
<1>2. row.attempts + 1 \in Nat
  BY SMTT(30) DEF TxnRow
<1>3. Attempted(row, at) \in TxnRow
  BY <1>1, <1>2 DEF TxnRow
<1>. QED
  BY <1>1, <1>3, NullAssumption DEF TxnRow

LEMMA SubmittedBatch ==
    ASSUME NEW row \in BatchRow, NEW at \in Time
    PROVE  /\ Submitted(row, at) \in BatchRow
           /\ Submitted(row, at) # NULL
           /\ Submitted(row, at).entries = row.entries
           /\ Submitted(row, at).state = "in_flight"
           /\ Submitted(row, at).retryAt = NULL
           /\ Submitted(row, at).submittedAt # NULL
           /\ row.submittedAt # NULL
                => Submitted(row, at).submittedAt = row.submittedAt
<1>1. Submitted(row, at) =
        [row EXCEPT !.state = "in_flight", !.retryAt = NULL, !.updatedAt = at,
                    !.attempts = row.attempts + 1,
                    !.submittedAt = Coalesce(row.submittedAt, at)]
  BY DEF Submitted, Attempted, SetState, BatchRow
<1>2. row.attempts + 1 \in Nat
  BY SMTT(30) DEF BatchRow
<1>3. /\ Coalesce(row.submittedAt, at) \in OptionalTime
      /\ Coalesce(row.submittedAt, at) # NULL
      /\ row.submittedAt # NULL => Coalesce(row.submittedAt, at) = row.submittedAt
  BY ConstantsAssumption DEF Coalesce, BatchRow, OptionalTime
<1>4. Submitted(row, at) \in BatchRow
  BY <1>1, <1>2, <1>3 DEF BatchRow, OptionalTime, BatchState
<1>. QED
  BY <1>1, <1>3, <1>4, NullAssumption DEF BatchRow

-----------------------------------------------------------------------------
(* What every step preserves, and what all steps but one kind preserve *)

FinalState == {"acknowledged", "permanent_failure", "manual_review"}

RowsStay ==
    \A t \in Txn : Stored(t) =>
      /\ txn'[t] # NULL
      /\ txn'[t].sequence = txn[t].sequence
      /\ txn[t].state \in FinalState => txn'[t] = txn[t]

NoNewRow ==
    /\ nextLocalSequence' = nextLocalSequence
    /\ \A t \in Txn : ~Stored(t) => txn'[t] = NULL

NoNewAcknowledged ==
    /\ lastAcknowledgedSequence' = lastAcknowledgedSequence
    /\ \A t \in Txn : txn'[t] # NULL /\ txn'[t].state = "acknowledged"
         => Stored(t) /\ txn[t].state = "acknowledged"

BatchesStay ==
    \A b \in Batch : batch[b] # NULL =>
      /\ batch'[b] # NULL
      /\ batch'[b].entries = batch[b].entries
      /\ batch[b].submittedAt # NULL => batch'[b].submittedAt = batch[b].submittedAt
      /\ batch[b].state \notin ActiveStates => batch'[b] = batch[b]
      /\ batch'[b].state # "prepared" =>
           batch[b].state # "prepared" \/ batch'[b].submittedAt # NULL
      /\ batch'[b].state = "prepared" => batch[b].state = "prepared"

NoNewBatch == \A b \in Batch : batch[b] = NULL => batch'[b] = NULL

NoCompletedBatch ==
    \A b \in Batch : batch'[b] # NULL /\ batch'[b].state = "acknowledged"
      => batch[b] # NULL /\ batch[b].state = "acknowledged"

LEMMA EnqueueStep ==
    ASSUME StoreTypeOK, NEW t \in Txn, NEW at \in Time,
           EnqueueOfflineTransaction(t, at)
    PROVE  StoreTypeOK' /\ RowsStay /\ NoNewAcknowledged
<1>. DEFINE new == [sequence |-> nextLocalSequence, state |-> "pending",
                    attempts |-> 0, retryAt |-> NULL, updatedAt |-> at]
<1>1. new \in TxnRow /\ new # NULL
  BY NullAssumption, SMTT(30) DEF TxnRow, QueueState, OptionalTime, StoreTypeOK
<1>2. /\ nextLocalSequence' = nextLocalSequence + 1
      /\ txn' = [txn EXCEPT ![t] = new]
      /\ txn[t] = NULL
      /\ UNCHANGED <<lastAcknowledgedSequence, batch, ack>>
  BY DEF EnqueueOfflineTransaction, Stored
<1>3. new.state = "pending" /\ new.retryAt = NULL
  OBVIOUS
<1>. HIDE DEF new
<1>4. StoreTypeOK'
  BY <1>1, <1>2, <1>3, SMTT(30) DEF StoreTypeOK
<1>5. RowsStay /\ NoNewAcknowledged
  BY <1>1, <1>2, <1>3 DEF StoreTypeOK, RowsStay, NoNewAcknowledged, Stored
<1>. QED
  BY <1>4, <1>5

(* The part of StoreTypeOK about transactions, batches and acknowledgements. *)
TxnsOK ==
    /\ txn \in [Txn -> TxnRow \cup {NULL}]
    /\ \A t \in Txn : txn[t] # NULL =>
         (txn[t].state = "retryable_failure" <=> txn[t].retryAt # NULL)

BatchesOK ==
    /\ batch \in [Batch -> BatchRow \cup {NULL}]
    /\ \A b \in Batch : batch[b] # NULL =>
         (batch[b].state = "retryable_failure" <=> batch[b].retryAt # NULL)

AcksOK ==
    /\ DOMAIN ack = Batch
    /\ \A b \in Batch : ack[b] # NULL =>
         batch[b] # NULL /\ ack[b] \in AckRow(batch[b].entries)

LEMMA TypeParts ==
    StoreTypeOK <=> /\ nextLocalSequence \in Nat
               /\ lastAcknowledgedSequence \in Nat
               /\ TxnsOK /\ BatchesOK /\ AcksOK
  BY DEF StoreTypeOK, TxnsOK, BatchesOK, AcksOK

(* A step that only rewrites unresolved rows, keeping their sequence. *)
RowRewritten(t) ==
    /\ Stored(t)
    /\ txn[t].state \notin FinalState
    /\ txn'[t] \in TxnRow
    /\ txn'[t].sequence = txn[t].sequence
    /\ txn'[t].state = "retryable_failure" <=> txn'[t].retryAt # NULL

LEMMA RowsRewritten ==
    ASSUME TxnsOK, txn' = [t \in Txn |-> txn'[t]],
           \A t \in Txn : txn'[t] = txn[t] \/ RowRewritten(t)
    PROVE  /\ TxnsOK' /\ RowsStay
           /\ \A t \in Txn : ~Stored(t) => txn'[t] = NULL
<1>1. \A t \in Txn : txn'[t] \in TxnRow \cup {NULL}
  BY DEF TxnsOK, RowRewritten
<1>2. TxnsOK'
  BY <1>1, NullAssumption DEF TxnsOK, RowRewritten
<1>3. RowsStay /\ \A t \in Txn : ~Stored(t) => txn'[t] = NULL
  BY NullAssumption DEF TxnsOK, RowsStay, RowRewritten, Stored
<1>. QED
  BY <1>2, <1>3

(* A step that only rewrites active batches, keeping their entries. *)
BatchRewritten(b) ==
    /\ Active(b)
    /\ batch'[b] \in BatchRow
    /\ batch'[b].entries = batch[b].entries
    /\ batch'[b].state = "retryable_failure" <=> batch'[b].retryAt # NULL
    /\ batch[b].submittedAt # NULL => batch'[b].submittedAt = batch[b].submittedAt
    /\ batch[b].state # "prepared" \/ batch'[b].submittedAt # NULL
    /\ batch'[b].state # "prepared"

LEMMA BatchesRewritten ==
    ASSUME BatchesOK, AcksOK, ack' = ack, batch' = [b \in Batch |-> batch'[b]],
           \A b \in Batch : batch'[b] = batch[b] \/ BatchRewritten(b)
    PROVE  BatchesOK' /\ AcksOK' /\ BatchesStay /\ NoNewBatch
<1>1. \A b \in Batch : batch'[b] \in BatchRow \cup {NULL}
  BY DEF BatchesOK, BatchRewritten
<1>2. BatchesOK'
  BY <1>1, NullAssumption DEF BatchesOK, BatchRewritten
<1>3. AcksOK'
  BY NullAssumption DEF AcksOK, BatchRewritten
<1>4. BatchesStay /\ NoNewBatch
  BY NullAssumption DEF BatchesOK, BatchesStay, NoNewBatch, BatchRewritten, Active
<1>. QED
  BY <1>2, <1>3, <1>4

-----------------------------------------------------------------------------
(* One lemma per operation *)

LEMMA RowOnlyStep ==
    ASSUME StoreTypeOK, UNCHANGED <<readerState, batch, ack>>,
           txn' = [t \in Txn |-> txn'[t]],
           \A t \in Txn : \/ txn'[t] = txn[t]
                          \/ RowRewritten(t) /\ txn'[t].state # "acknowledged"
    PROVE  StoreTypeOK' /\ RowsStay /\ NoNewRow /\ NoNewAcknowledged
<1>1. /\ TxnsOK' /\ RowsStay
      /\ \A t \in Txn : ~Stored(t) => txn'[t] = NULL
  BY RowsRewritten, TypeParts
<1>2. StoreTypeOK'
  BY <1>1, TypeParts DEF StoreTypeOK, TxnsOK, readerState
<1>3. NoNewRow /\ NoNewAcknowledged
  BY <1>1 DEF NoNewRow, NoNewAcknowledged, RowRewritten, Stored, readerState
<1>. QED
  BY <1>1, <1>2, <1>3

(* A row that InFlightBefore accepts, written by SetState. *)
LEMMA InFlightRewritten ==
    ASSUME StoreTypeOK, NEW t \in Txn, NEW at \in Time, InFlightBefore(txn[t], at),
           NEW s \in QueueState, NEW r \in OptionalTime,
           s = "retryable_failure" <=> r # NULL,
           txn'[t] = SetState(txn[t], s, r, at)
    PROVE  RowRewritten(t) /\ txn'[t].state = s
<1>1. txn[t] \in TxnRow /\ txn[t] # NULL /\ txn[t].state = "in_flight"
  BY DEF StoreTypeOK, InFlightBefore
<1>. QED
  BY <1>1, SetStateTxn, SMTT(30) DEF RowRewritten, Stored, FinalState

LEMMA MarkOfflineTransactionInFlightStep ==
    ASSUME StoreTypeOK, NEW t \in Txn, NEW at \in Time,
           MarkOfflineTransactionInFlight(t, at)
    PROVE  StoreTypeOK' /\ RowsStay /\ NoNewRow /\ NoNewAcknowledged
<1>. DEFINE row == SetState(txn[t], "in_flight", NULL, at)
<1>1. txn[t] \in TxnRow /\ txn[t].state \notin FinalState
  BY DEF StoreTypeOK, MarkOfflineTransactionInFlight, Stored, IsReady, FinalState
<1>2. /\ row \in TxnRow
      /\ row.sequence = txn[t].sequence
      /\ row.state = "in_flight"
      /\ row.retryAt = NULL
  <2>1. "in_flight" \in QueueState /\ NULL \in OptionalTime
    BY DEF QueueState, OptionalTime
  <2>. QED
    BY <1>1, <2>1, SetStateTxn, SMTT(30)
<1>. HIDE DEF row
<1>3. txn' = [txn EXCEPT ![t] = Attempted(row, at)]
  BY DEF MarkOfflineTransactionInFlight, row
<1>4. RowRewritten(t) /\ txn'[t].state # "acknowledged"
  BY <1>1, <1>2, <1>3, AttemptedTxn, SMTT(30)
     DEF RowRewritten, MarkOfflineTransactionInFlight, StoreTypeOK
<1>5. txn' = [u \in Txn |-> txn'[u]] /\ \A u \in Txn : u # t => txn'[u] = txn[u]
  BY <1>3 DEF StoreTypeOK
<1>. QED
  BY <1>4, <1>5, RowOnlyStep DEF MarkOfflineTransactionInFlight

LEMMA RecordRetryableQueueFailureStep ==
    ASSUME StoreTypeOK, NEW t \in Txn, NEW at \in Time, NEW retryAt \in Time,
           RecordRetryableQueueFailure(t, at, retryAt)
    PROVE  StoreTypeOK' /\ RowsStay /\ NoNewRow /\ NoNewAcknowledged
<1>1. /\ txn' = [u \in Txn |-> txn'[u]]
      /\ \A u \in Txn : u # t => txn'[u] = txn[u]
      /\ txn'[t] = SetState(txn[t], "retryable_failure", retryAt, at)
      /\ InFlightBefore(txn[t], at)
  BY DEF StoreTypeOK, RecordRetryableQueueFailure
<1>2. RowRewritten(t) /\ txn'[t].state # "acknowledged"
  BY <1>1, InFlightRewritten, ConstantsAssumption DEF QueueState, OptionalTime
<1>. QED
  BY <1>1, <1>2, RowOnlyStep DEF RecordRetryableQueueFailure

LEMMA RecordFinalQueueFailureStep ==
    ASSUME StoreTypeOK, NEW t \in Txn, NEW state \in FinalFailure, NEW at \in Time,
           RecordFinalQueueFailure(t, state, at)
    PROVE  StoreTypeOK' /\ RowsStay /\ NoNewRow /\ NoNewAcknowledged
<1>1. /\ txn' = [u \in Txn |-> txn'[u]]
      /\ \A u \in Txn : u # t => txn'[u] = txn[u]
      /\ txn'[t] = SetState(txn[t], state, NULL, at)
      /\ InFlightBefore(txn[t], at)
  BY DEF StoreTypeOK, RecordFinalQueueFailure
<1>2. RowRewritten(t) /\ txn'[t].state # "acknowledged"
  BY <1>1, InFlightRewritten DEF QueueState, OptionalTime, FinalFailure
<1>. QED
  BY <1>1, <1>2, RowOnlyStep DEF RecordFinalQueueFailure

LEMMA RecoverInterruptedOfflineQueueStep ==
    ASSUME StoreTypeOK, NEW at \in Time, RecoverInterruptedOfflineQueue(at)
    PROVE  StoreTypeOK' /\ RowsStay /\ NoNewRow /\ NoNewAcknowledged
<1>1. /\ txn' = [u \in Txn |-> txn'[u]]
      /\ \A u \in Txn :
           \/ txn'[u] = txn[u]
           \/ /\ InFlightBefore(txn[u], at)
              /\ txn'[u] = SetState(txn[u], "retryable_failure", at, at)
  BY DEF StoreTypeOK, RecoverInterruptedOfflineQueue
<1>2. \A u \in Txn : \/ txn'[u] = txn[u]
                     \/ RowRewritten(u) /\ txn'[u].state # "acknowledged"
  BY <1>1, InFlightRewritten, ConstantsAssumption DEF QueueState, OptionalTime
<1>. QED
  BY <1>1, <1>2, RowOnlyStep DEF RecoverInterruptedOfflineQueue

(* A row in flight of a batch, written by SetState. *)
LEMMA InFlightBatchRewritten ==
    ASSUME StoreTypeOK, NEW b \in Batch, NEW at \in Time, InFlightBefore(batch[b], at),
           batch[b].submittedAt # NULL,
           NEW s \in BatchState \ {"prepared"}, NEW r \in OptionalTime,
           s = "retryable_failure" <=> r # NULL,
           batch'[b] = SetState(batch[b], s, r, at)
    PROVE  BatchRewritten(b) /\ batch'[b].state = s
<1>1. batch[b] \in BatchRow /\ batch[b] # NULL /\ batch[b].state = "in_flight"
  BY DEF StoreTypeOK, InFlightBefore
<1>. QED
  BY <1>1, SetStateBatch, SMTT(30) DEF BatchRewritten, Active, ActiveStates

LEMMA CreateSynchronizationBatchStep ==
    ASSUME StoreTypeOK, NEW b \in Batch, NEW limit \in Limits, NEW at \in Time,
           CreateSynchronizationBatch(b, limit, at)
    PROVE  /\ StoreTypeOK' /\ RowsStay /\ NoNewRow /\ NoNewAcknowledged
           /\ BatchesStay /\ NoCompletedBatch
           /\ batch[b] = NULL /\ batch'[b] # NULL /\ batch'[b].state = "prepared"
           /\ \A t \in batch'[b].entries :
                t \in Txn /\ ~InActiveBatch(t) /\ txn'[t] # NULL /\ txn'[t].state = "in_flight"
           /\ \A t \in Txn : t \notin batch'[b].entries => txn'[t] = txn[t]
           /\ \A c \in Batch : c # b => batch'[c] = batch[c]
<1>. DEFINE entries == FirstBySequence(Candidates(at), limit)
            new == [entries |-> entries, state |-> "prepared", attempts |-> 0,
                    submittedAt |-> NULL, retryAt |-> NULL, updatedAt |-> at]
<1>1. /\ entries \subseteq Txn
      /\ \A t \in entries : Stored(t) /\ IsReady(txn[t], at) /\ ~InActiveBatch(t)
  BY DEF FirstBySequence, Candidates
<1>2. /\ batch[b] = NULL
      /\ batch' = [batch EXCEPT ![b] = new]
      /\ txn' = [t \in Txn |-> IF t \in entries
                               THEN SetState(txn[t], "in_flight", NULL, at)
                               ELSE txn[t]]
      /\ UNCHANGED <<readerState, ack>>
  BY DEF CreateSynchronizationBatch
<1>. HIDE DEF entries
<1>3. /\ new \in BatchRow /\ new # NULL /\ new.entries = entries
      /\ new.state = "prepared" /\ new.retryAt = NULL
  BY <1>1, NullAssumption, SMTT(30) DEF BatchRow, BatchState, OptionalTime
<1>. HIDE DEF new
<1>4. \A t \in entries : RowRewritten(t) /\ txn'[t].state = "in_flight"
  <2>1. "in_flight" \in QueueState /\ NULL \in OptionalTime
    BY DEF QueueState, OptionalTime
  <2>. SUFFICES ASSUME NEW t \in entries
                PROVE  RowRewritten(t) /\ txn'[t].state = "in_flight"
    OBVIOUS
  <2>2. txn[t] \in TxnRow /\ txn[t].state \notin FinalState /\ Stored(t)
    BY <1>1 DEF StoreTypeOK, Stored, IsReady, FinalState
  <2>. QED
    BY <1>1, <1>2, <2>1, <2>2, SetStateTxn, SMTT(30) DEF RowRewritten
<1>5. /\ TxnsOK' /\ RowsStay
      /\ \A t \in Txn : ~Stored(t) => txn'[t] = NULL
  <2>1. txn' = [t \in Txn |-> txn'[t]]
        /\ \A t \in Txn : txn'[t] = txn[t] \/ RowRewritten(t)
    BY <1>2, <1>4
  <2>. QED
    BY <2>1, RowsRewritten, TypeParts
<1>6. BatchesOK' /\ AcksOK'
  BY <1>2, <1>3, TypeParts DEF BatchesOK, AcksOK
<1>7. StoreTypeOK'
  BY <1>2, <1>5, <1>6, TypeParts DEF StoreTypeOK, TxnsOK, BatchesOK, AcksOK, readerState
<1>8. NoNewRow /\ NoNewAcknowledged
  BY <1>1, <1>2, <1>4, <1>5 DEF NoNewRow, NoNewAcknowledged, Stored, readerState
<1>9. BatchesStay /\ NoCompletedBatch
  BY <1>2, <1>3 DEF BatchesStay, NoCompletedBatch, StoreTypeOK
<1>10. batch'[b] = new /\ \A c \in Batch : c # b => batch'[c] = batch[c]
  BY <1>2 DEF StoreTypeOK
<1>11. \A t \in entries : txn'[t] # NULL
  BY <1>4, NullAssumption DEF RowRewritten
<1>. QED
  BY <1>1, <1>2, <1>3, <1>4, <1>5, <1>7, <1>8, <1>9, <1>10, <1>11

LEMMA MarkSynchronizationBatchInFlightStep ==
    ASSUME StoreTypeOK, NEW b \in Batch, NEW at \in Time,
           MarkSynchronizationBatchInFlight(b, at)
    PROVE  /\ StoreTypeOK' /\ RowsStay /\ NoNewRow /\ NoNewAcknowledged
           /\ BatchesStay /\ NoNewBatch /\ NoCompletedBatch
           /\ \A t \in Txn : Stored(t) => txn'[t].state = txn[t].state
<1>1. batch[b] \in BatchRow /\ Active(b)
  BY DEF MarkSynchronizationBatchInFlight, StoreTypeOK, IsReady, Active, ActiveStates,
         BatchRow, BatchState
<1>2. BatchRewritten(b) /\ batch'[b].state = "in_flight"
  BY <1>1, SubmittedBatch DEF MarkSynchronizationBatchInFlight, BatchRewritten, StoreTypeOK
<1>3. /\ batch' = [c \in Batch |-> batch'[c]]
      /\ \A c \in Batch : c # b => batch'[c] = batch[c]
  BY DEF MarkSynchronizationBatchInFlight, StoreTypeOK
<1>4. BatchesOK' /\ AcksOK' /\ BatchesStay /\ NoNewBatch
  BY <1>2, <1>3, BatchesRewritten, TypeParts DEF MarkSynchronizationBatchInFlight
<1>5. NoCompletedBatch
  BY <1>2, <1>3 DEF NoCompletedBatch
<1>6. \A t \in Txn : \/ txn'[t] = txn[t]
                     \/ RowRewritten(t) /\ txn'[t].state = "in_flight"
                        /\ txn[t].state = "in_flight"
  <2>. SUFFICES ASSUME NEW t \in Txn, t \in batch[b].entries
                PROVE  RowRewritten(t) /\ txn'[t].state = "in_flight"
                       /\ txn[t].state = "in_flight"
    BY DEF MarkSynchronizationBatchInFlight
  <2>1. txn[t] \in TxnRow /\ Stored(t) /\ txn[t].state = "in_flight"
        /\ txn[t].retryAt = NULL
    BY DEF MarkSynchronizationBatchInFlight, InFlightBefore, StoreTypeOK, Stored
  <2>2. txn'[t] = Attempted(txn[t], at)
    BY DEF MarkSynchronizationBatchInFlight
  <2>. QED
    BY <2>1, <2>2, AttemptedTxn, SMTT(30) DEF RowRewritten, FinalState
<1>7. /\ TxnsOK' /\ RowsStay
      /\ \A t \in Txn : ~Stored(t) => txn'[t] = NULL
  BY <1>6, RowsRewritten, TypeParts DEF MarkSynchronizationBatchInFlight
<1>8. StoreTypeOK'
  BY <1>4, <1>7, TypeParts
     DEF StoreTypeOK, TxnsOK, BatchesOK, AcksOK, readerState, MarkSynchronizationBatchInFlight
<1>9. NoNewRow /\ NoNewAcknowledged
  BY <1>6, <1>7
     DEF NoNewRow, NoNewAcknowledged, RowRewritten, Stored, readerState,
         MarkSynchronizationBatchInFlight
<1>. QED
  BY <1>4, <1>5, <1>6, <1>7, <1>8, <1>9

(* A step that rewrites batches only. *)
LEMMA BatchOnlyStep ==
    ASSUME StoreTypeOK, UNCHANGED <<readerState, txn, ack>>,
           batch' = [b \in Batch |-> batch'[b]],
           \A b \in Batch : \/ batch'[b] = batch[b]
                            \/ BatchRewritten(b) /\ batch'[b].state # "acknowledged"
    PROVE  StoreTypeOK' /\ BatchesStay /\ NoNewBatch /\ NoCompletedBatch
<1>1. BatchesOK' /\ AcksOK' /\ BatchesStay /\ NoNewBatch
  BY BatchesRewritten, TypeParts
<1>2. StoreTypeOK'
  BY <1>1 DEF StoreTypeOK, BatchesOK, AcksOK, readerState
<1>3. NoCompletedBatch
  BY DEF NoCompletedBatch, BatchRewritten
<1>. QED
  BY <1>1, <1>2, <1>3

LEMMA RecordSynchronizationRetryableFailureStep ==
    ASSUME StoreTypeOK, SubmissionTimed,
           NEW b \in Batch, NEW at \in Time, NEW retryAt \in Time,
           RecordSynchronizationRetryableFailure(b, at, retryAt)
    PROVE  StoreTypeOK' /\ BatchesStay /\ NoNewBatch /\ NoCompletedBatch
<1>1. /\ batch' = [c \in Batch |-> batch'[c]]
      /\ \A c \in Batch : c # b => batch'[c] = batch[c]
      /\ batch'[b] = SetState(batch[b], "retryable_failure", retryAt, at)
      /\ InFlightBefore(batch[b], at)
      /\ batch[b].submittedAt # NULL
  BY DEF StoreTypeOK, SubmissionTimed, RecordSynchronizationRetryableFailure, InFlightBefore
<1>2. BatchRewritten(b) /\ batch'[b].state # "acknowledged"
  BY <1>1, InFlightBatchRewritten, ConstantsAssumption, SMTT(30) DEF BatchState, OptionalTime
<1>. QED
  BY <1>1, <1>2, BatchOnlyStep DEF RecordSynchronizationRetryableFailure

LEMMA RecoverInterruptedSynchronizationBatchesStep ==
    ASSUME StoreTypeOK, SubmissionTimed, NEW at \in Time,
           RecoverInterruptedSynchronizationBatches(at)
    PROVE  StoreTypeOK' /\ BatchesStay /\ NoNewBatch /\ NoCompletedBatch
<1>1. /\ batch' = [c \in Batch |-> batch'[c]]
      /\ \A c \in Batch :
           \/ batch'[c] = batch[c]
           \/ /\ InFlightBefore(batch[c], at)
              /\ batch[c].submittedAt # NULL
              /\ batch'[c] = SetState(batch[c], "retryable_failure", at, at)
  BY DEF StoreTypeOK, SubmissionTimed, RecoverInterruptedSynchronizationBatches, InFlightBefore
<1>2. \A c \in Batch : \/ batch'[c] = batch[c]
                       \/ BatchRewritten(c) /\ batch'[c].state # "acknowledged"
  BY <1>1, InFlightBatchRewritten, ConstantsAssumption, SMTT(30) DEF BatchState, OptionalTime
<1>. QED
  BY <1>1, <1>2, BatchOnlyStep DEF RecoverInterruptedSynchronizationBatches

LEMMA RecordFinalSynchronizationFailureStep ==
    ASSUME StoreTypeOK, SubmissionTimed,
           NEW b \in Batch, NEW state \in FinalFailure, NEW at \in Time,
           RecordFinalSynchronizationFailure(b, state, at)
    PROVE  /\ StoreTypeOK' /\ RowsStay /\ NoNewRow /\ NoNewAcknowledged
           /\ BatchesStay /\ NoNewBatch /\ NoCompletedBatch
           /\ batch'[b].state = state
           /\ \A t \in Txn : t \notin batch[b].entries => txn'[t] = txn[t]
<1>1. /\ batch' = [c \in Batch |-> batch'[c]]
      /\ \A c \in Batch : c # b => batch'[c] = batch[c]
      /\ batch'[b] = SetState(batch[b], state, NULL, at)
      /\ InFlightBefore(batch[b], at)
      /\ batch[b].submittedAt # NULL
  BY DEF StoreTypeOK, SubmissionTimed, RecordFinalSynchronizationFailure, InFlightBefore
<1>2. BatchRewritten(b) /\ batch'[b].state = state /\ state # "acknowledged"
  BY <1>1, InFlightBatchRewritten, SMTT(30) DEF BatchState, OptionalTime, FinalFailure
<1>3. BatchesOK' /\ AcksOK' /\ BatchesStay /\ NoNewBatch /\ NoCompletedBatch
  <2>1. BatchesOK' /\ AcksOK' /\ BatchesStay /\ NoNewBatch
    BY <1>1, <1>2, BatchesRewritten, TypeParts DEF RecordFinalSynchronizationFailure
  <2>. QED
    BY <1>1, <1>2, <2>1 DEF NoCompletedBatch
<1>4. /\ txn' = [t \in Txn |-> txn'[t]]
      /\ \A t \in Txn :
           \/ t \notin batch[b].entries /\ txn'[t] = txn[t]
           \/ /\ InFlightBefore(txn[t], at)
              /\ txn'[t] = SetState(txn[t], state, NULL, at)
  BY DEF RecordFinalSynchronizationFailure
<1>5. \A t \in Txn : \/ txn'[t] = txn[t]
                     \/ RowRewritten(t) /\ txn'[t].state # "acknowledged"
  <2>1. state \in QueueState /\ NULL \in OptionalTime /\ state # "retryable_failure"
    BY DEF QueueState, OptionalTime, FinalFailure
  <2>. QED
    BY <1>2, <1>4, <2>1, InFlightRewritten, SMTT(30)
<1>6. /\ TxnsOK' /\ RowsStay
      /\ \A t \in Txn : ~Stored(t) => txn'[t] = NULL
  BY <1>4, <1>5, RowsRewritten, TypeParts
<1>7. StoreTypeOK'
  BY <1>3, <1>6
     DEF StoreTypeOK, TxnsOK, BatchesOK, AcksOK, readerState, RecordFinalSynchronizationFailure
<1>8. NoNewRow /\ NoNewAcknowledged
  BY <1>5, <1>6 DEF NoNewRow, NoNewAcknowledged, RowRewritten, Stored, readerState,
                    RecordFinalSynchronizationFailure
<1>9. \A t \in Txn : t \notin batch[b].entries => txn'[t] = txn[t]
  BY DEF RecordFinalSynchronizationFailure
<1>. QED
  BY <1>2, <1>3, <1>6, <1>7, <1>8, <1>9

LEMMA StoreSynchronizationAcknowledgementStep ==
    ASSUME StoreTypeOK, NEW b \in Batch, NEW receivedAt \in Time, NEW outcome,
           StoreSynchronizationAcknowledgement(b, receivedAt, outcome)
    PROVE  /\ StoreTypeOK'
           /\ UNCHANGED <<readerState, txn, batch>>
           /\ batch[b] # NULL /\ batch[b].state = "in_flight"
           /\ ack[b] = NULL /\ ack'[b] # NULL /\ ack'[b].appliedAt = NULL
           /\ \A c \in Batch : c # b => ack'[c] = ack[c]
<1>. DEFINE new == [receivedAt |-> receivedAt, outcome |-> outcome, appliedAt |-> NULL]
<1>1. /\ ack' = [ack EXCEPT ![b] = new]
      /\ outcome \in [batch[b].entries -> Resolution]
      /\ batch[b] # NULL /\ batch[b].state = "in_flight" /\ ack[b] = NULL
      /\ UNCHANGED <<readerState, txn, batch>>
  BY DEF StoreSynchronizationAcknowledgement, ValidAcknowledgement
<1>2. batch[b].entries \in SUBSET Txn
  BY <1>1 DEF StoreTypeOK, BatchRow
<1>3. new \in AckRow(batch[b].entries) /\ new # NULL /\ new.appliedAt = NULL
  BY <1>1, <1>2, NullAssumption, SMTT(30) DEF AckRow, OptionalTime
<1>. HIDE DEF new
<1>4. ack'[b] = new /\ DOMAIN ack' = Batch /\ \A c \in Batch : c # b => ack'[c] = ack[c]
  BY <1>1 DEF StoreTypeOK
<1>5. StoreTypeOK'
  BY <1>1, <1>3, <1>4 DEF StoreTypeOK, readerState
<1>. QED
  BY <1>1, <1>3, <1>4, <1>5

LEMMA ApplySynchronizationAcknowledgementStep ==
    ASSUME StoreTypeOK, SubmissionTimed, NEW b \in Batch, NEW at \in Time,
           ApplySynchronizationAcknowledgement(b, at)
    PROVE  /\ StoreTypeOK' /\ RowsStay /\ NoNewRow /\ BatchesStay /\ NoNewBatch
           /\ batch[b] # NULL /\ batch'[b].state = "acknowledged"
           /\ \A c \in Batch : c # b => batch'[c] = batch[c] /\ ack'[c] = ack[c]
           /\ ack[b] # NULL /\ ack'[b] # NULL /\ ack'[b].appliedAt # NULL
           /\ ack'[b].outcome = ack[b].outcome
           /\ DOMAIN ack[b].outcome = batch[b].entries
           /\ \A t \in Txn : \/ t \notin batch[b].entries /\ txn'[t] = txn[t]
                             \/ t \in batch[b].entries
                                /\ txn'[t].state = ack[b].outcome[t].state
           /\ \E n \in lastAcknowledgedSequence..(nextLocalSequence - 1) :
                /\ ContiguousResolved(txn', lastAcknowledgedSequence, n)
                /\ lastAcknowledgedSequence' = n
<1>. DEFINE E == batch[b].entries
<1>1. /\ ack[b] # NULL /\ batch[b] # NULL /\ batch[b].state = "in_flight"
      /\ ack[b] \in AckRow(E) /\ E \in SUBSET Txn /\ batch[b].submittedAt # NULL
  BY DEF ApplySynchronizationAcknowledgement, StoreTypeOK, BatchRow, InFlightBefore, SubmissionTimed
<1>2. ack[b].outcome \in [E -> Resolution] /\ DOMAIN ack[b].outcome = E
  BY <1>1 DEF AckRow
<1>3. \A t \in E : /\ ack[b].outcome[t].state \in QueueState
                   /\ ack[b].outcome[t].retryAt \in OptionalTime
                   /\ ack[b].outcome[t].state = "retryable_failure"
                        <=> ack[b].outcome[t].retryAt # NULL
  <2>. SUFFICES ASSUME NEW t \in E, NEW r, r = ack[b].outcome[t]
                PROVE  /\ r.state \in QueueState /\ r.retryAt \in OptionalTime
                       /\ r.state = "retryable_failure" <=> r.retryAt # NULL
    OBVIOUS
  <2>1. r \in Resolution
    BY <1>2
  <2>. QED
    BY <2>1, ConstantsAssumption DEF Resolution, QueueState, OptionalTime
<1>4. /\ txn' = [t \in Txn |-> txn'[t]]
      /\ \A t \in Txn : t \notin E => txn'[t] = txn[t]
      /\ \A t \in E : InFlightBefore(txn[t], at)
      /\ \A t \in E : txn'[t] = SetState(txn[t], ack[b].outcome[t].state,
                                         ack[b].outcome[t].retryAt, at)
  BY <1>1, <1>2 DEF ApplySynchronizationAcknowledgement, ApplyEntries, ApplyOutcome
<1>5. \A t \in E : RowRewritten(t) /\ txn'[t].state = ack[b].outcome[t].state
  BY <1>1, <1>3, <1>4, InFlightRewritten, SMTT(30)
<1>6. /\ TxnsOK' /\ RowsStay
      /\ \A t \in Txn : ~Stored(t) => txn'[t] = NULL
  BY <1>4, <1>5, RowsRewritten, TypeParts
<1>7. /\ batch' = [c \in Batch |-> batch'[c]]
      /\ \A c \in Batch : c # b => batch'[c] = batch[c]
      /\ batch'[b] = SetState(batch[b], "acknowledged", NULL, at)
      /\ InFlightBefore(batch[b], at)
  BY DEF ApplySynchronizationAcknowledgement, StoreTypeOK
<1>8. BatchRewritten(b) /\ batch'[b].state = "acknowledged"
  BY <1>1, <1>7, InFlightBatchRewritten, SMTT(30) DEF BatchState, OptionalTime
<1>9. BatchesOK' /\ BatchesStay /\ NoNewBatch
  <2>1. \A c \in Batch : batch'[c] \in BatchRow \cup {NULL}
    BY <1>7, <1>8, SMTT(30) DEF StoreTypeOK, BatchRewritten
  <2>2. BatchesOK'
    BY <1>7, <1>8, <2>1, SMTT(30) DEF StoreTypeOK, BatchesOK, BatchRewritten
  <2>3. BatchesStay /\ NoNewBatch
    BY <1>1, <1>7, <1>8, NullAssumption
       DEF BatchesStay, NoNewBatch, BatchRewritten, Active, ActiveStates
  <2>. QED
    BY <2>2, <2>3
<1>10. /\ DOMAIN ack' = Batch
       /\ \A c \in Batch : c # b => ack'[c] = ack[c]
       /\ ack'[b] = [ack[b] EXCEPT !.appliedAt = at]
  BY DEF ApplySynchronizationAcknowledgement, StoreTypeOK
<1>11. /\ ack'[b] \in AckRow(E) /\ ack'[b] # NULL
       /\ ack'[b].appliedAt # NULL /\ ack'[b].outcome = ack[b].outcome
  <2>1. ack'[b] \in AckRow(E) /\ ack'[b].outcome = ack[b].outcome /\ ack'[b].appliedAt = at
    BY <1>1, <1>10 DEF AckRow, OptionalTime
  <2>. QED
    BY <1>1, <2>1, NullAssumption, ConstantsAssumption
<1>12. AcksOK'
  <2>1. batch'[b] # NULL /\ batch'[b].entries = E
    BY <1>1, <1>9 DEF BatchesStay
  <2>2. \A c \in Batch : ack'[c] # NULL =>
          batch'[c] # NULL /\ ack'[c] \in AckRow(batch'[c].entries)
    <3>. SUFFICES ASSUME NEW c \in Batch, ack'[c] # NULL
                  PROVE  batch'[c] # NULL /\ ack'[c] \in AckRow(batch'[c].entries)
      OBVIOUS
    <3>1. CASE c = b
      BY <1>11, <2>1, <3>1
    <3>2. CASE c # b
      BY <1>7, <1>10, <3>2 DEF StoreTypeOK
    <3>. QED
      BY <3>1, <3>2
  <2>. QED
    BY <1>10, <2>2 DEF AcksOK
<1>13. \E n \in lastAcknowledgedSequence..(nextLocalSequence - 1) :
         /\ ContiguousResolved(txn', lastAcknowledgedSequence, n)
         /\ lastAcknowledgedSequence' = n
  BY DEF ApplySynchronizationAcknowledgement, AdvanceAcknowledgedSequence
<1>14. StoreTypeOK'
  <2>1. nextLocalSequence' \in Nat /\ lastAcknowledgedSequence' \in Nat
    BY <1>13, SMTT(30) DEF StoreTypeOK, ApplySynchronizationAcknowledgement
  <2>. QED
    BY <1>6, <1>9, <1>12, <2>1 DEF StoreTypeOK, TxnsOK, BatchesOK, AcksOK
<1>15. NoNewRow
  BY <1>6 DEF NoNewRow, ApplySynchronizationAcknowledgement
<1>. QED
  BY <1>1, <1>2, <1>4, <1>5, <1>6, <1>7, <1>8, <1>9, <1>10, <1>11, <1>13, <1>14, <1>15

-----------------------------------------------------------------------------
(* The steps of StoreNext by what they change *)

(* A step that inserts no row or batch, stores no acknowledgement and applies
   none. *)
OrdinaryStep ==
    /\ RowsStay /\ NoNewRow /\ NoNewAcknowledged
    /\ BatchesStay /\ NoNewBatch /\ NoCompletedBatch
    /\ UNCHANGED ack

LEMMA BatchesUnchanged ==
    ASSUME UNCHANGED batch
    PROVE  BatchesStay /\ NoNewBatch /\ NoCompletedBatch
  BY DEF BatchesStay, NoNewBatch, NoCompletedBatch

LEMMA RowsUnchanged ==
    ASSUME UNCHANGED <<readerState, txn>>
    PROVE  RowsStay /\ NoNewRow /\ NoNewAcknowledged
  BY DEF RowsStay, NoNewRow, NoNewAcknowledged, Stored, readerState

LEMMA RowStepKind ==
    ASSUME StoreTypeOK, NEW t \in Txn, RowNext(t)
    PROVE  StoreTypeOK' /\ OrdinaryStep
<1>. PICK at \in Time :
       \/ MarkOfflineTransactionInFlight(t, at)
       \/ \E retryAt \in Time : RecordRetryableQueueFailure(t, at, retryAt)
       \/ \E state \in FinalFailure : RecordFinalQueueFailure(t, state, at)
  BY DEF RowNext
<1>1. StoreTypeOK' /\ RowsStay /\ NoNewRow /\ NoNewAcknowledged
  BY MarkOfflineTransactionInFlightStep, RecordRetryableQueueFailureStep,
     RecordFinalQueueFailureStep
<1>2. UNCHANGED <<batch, ack>>
  BY DEF MarkOfflineTransactionInFlight, RecordRetryableQueueFailure,
         RecordFinalQueueFailure
<1>. QED
  BY <1>1, <1>2, BatchesUnchanged DEF OrdinaryStep

LEMMA BatchStepKinds ==
    ASSUME StoreTypeOK, SubmissionTimed, BatchNext
    PROVE  \/ StoreTypeOK' /\ OrdinaryStep
           \/ \E t \in Txn, at \in Time : EnqueueOfflineTransaction(t, at)
           \/ \E b \in Batch, limit \in Limits, at \in Time :
                CreateSynchronizationBatch(b, limit, at)
           \/ \E b \in Batch, at \in Time :
                \E outcome \in [batch[b].entries -> Resolution] :
                  StoreSynchronizationAcknowledgement(b, at, outcome)
           \/ \E b \in Batch, at \in Time : ApplySynchronizationAcknowledgement(b, at)
<1>. PICK at \in Time :
       \/ \E t \in Txn : EnqueueOfflineTransaction(t, at)
       \/ RecoverInterruptedSynchronizationBatches(at)
       \/ RecoverInterruptedOfflineQueue(at)
       \/ \E b \in Batch :
            \/ \E limit \in Limits : CreateSynchronizationBatch(b, limit, at)
            \/ MarkSynchronizationBatchInFlight(b, at)
            \/ \E retryAt \in Time :
                 RecordSynchronizationRetryableFailure(b, at, retryAt)
            \/ \E state \in FinalFailure :
                 RecordFinalSynchronizationFailure(b, state, at)
            \/ /\ batch[b] # NULL
               /\ \E outcome \in [batch[b].entries -> Resolution] :
                    StoreSynchronizationAcknowledgement(b, at, outcome)
            \/ ApplySynchronizationAcknowledgement(b, at)
  BY DEF BatchNext
<1>1. ASSUME RecoverInterruptedSynchronizationBatches(at)
      PROVE  StoreTypeOK' /\ OrdinaryStep
  BY <1>1, RecoverInterruptedSynchronizationBatchesStep, RowsUnchanged
     DEF RecoverInterruptedSynchronizationBatches, OrdinaryStep
<1>2. ASSUME RecoverInterruptedOfflineQueue(at)
      PROVE  StoreTypeOK' /\ OrdinaryStep
  BY <1>2, RecoverInterruptedOfflineQueueStep, BatchesUnchanged
     DEF RecoverInterruptedOfflineQueue, OrdinaryStep
<1>3. ASSUME NEW b \in Batch, MarkSynchronizationBatchInFlight(b, at)
      PROVE  StoreTypeOK' /\ OrdinaryStep
  BY <1>3, MarkSynchronizationBatchInFlightStep
     DEF MarkSynchronizationBatchInFlight, OrdinaryStep
<1>4. ASSUME NEW b \in Batch, NEW retryAt \in Time,
             RecordSynchronizationRetryableFailure(b, at, retryAt)
      PROVE  StoreTypeOK' /\ OrdinaryStep
  BY <1>4, RecordSynchronizationRetryableFailureStep, RowsUnchanged
     DEF RecordSynchronizationRetryableFailure, OrdinaryStep
<1>5. ASSUME NEW b \in Batch, NEW state \in FinalFailure,
             RecordFinalSynchronizationFailure(b, state, at)
      PROVE  StoreTypeOK' /\ OrdinaryStep
  BY <1>5, RecordFinalSynchronizationFailureStep
     DEF RecordFinalSynchronizationFailure, OrdinaryStep
<1>. QED
  BY <1>1, <1>2, <1>3, <1>4, <1>5

-----------------------------------------------------------------------------
(* The inductive invariant *)

StoreInd ==
    /\ StoreTypeOK
    /\ SubmissionTimed
    /\ SequenceAllocation
    /\ HighWaterMarkSound
    /\ OneActiveBatch
    /\ AcknowledgedHasEvidence
    /\ AppliedMeansAcknowledged

LEMMA InitInv == StoreInit => StoreInd
<1>. SUFFICES ASSUME StoreInit PROVE StoreInd
  OBVIOUS
<1>1. StoreTypeOK
  BY DEF StoreInit, StoreTypeOK
<1>2. SubmissionTimed /\ OneActiveBatch /\ AppliedMeansAcknowledged
  BY DEF StoreInit, SubmissionTimed, OneActiveBatch, AppliedMeansAcknowledged, Active
<1>3. SequenceAllocation /\ HighWaterMarkSound /\ AcknowledgedHasEvidence
  BY SMTT(30) DEF StoreInit, SequenceAllocation, HighWaterMarkSound, AcknowledgedHasEvidence, Stored
<1>. QED
  BY <1>1, <1>2, <1>3 DEF StoreInd

LEMMA SequenceAllocationKept ==
    ASSUME SequenceAllocation, RowsStay, NoNewRow
    PROVE  SequenceAllocation'
  BY SMTT(30) DEF SequenceAllocation, RowsStay, NoNewRow, Stored

LEMMA SubmissionTimedKept ==
    ASSUME SubmissionTimed, BatchesStay, NoNewBatch
    PROVE  SubmissionTimed'
  BY DEF SubmissionTimed, BatchesStay, NoNewBatch

LEMMA OneActiveBatchKept ==
    ASSUME OneActiveBatch, BatchesStay, NoNewBatch
    PROVE  OneActiveBatch'
  BY DEF OneActiveBatch, BatchesStay, NoNewBatch, Active

LEMMA HighWaterMarkKept ==
    ASSUME HighWaterMarkSound, RowsStay, NoNewRow, NoNewAcknowledged
    PROVE  HighWaterMarkSound'
  BY DEF HighWaterMarkSound, RowsStay, NoNewRow, NoNewAcknowledged, FinalState, Stored

LEMMA EvidenceKept ==
    ASSUME AcknowledgedHasEvidence, NoNewAcknowledged, UNCHANGED ack
    PROVE  AcknowledgedHasEvidence'
  BY DEF AcknowledgedHasEvidence, NoNewAcknowledged, Stored

LEMMA OrdinaryStepInv ==
    ASSUME StoreInd, StoreTypeOK', OrdinaryStep
    PROVE  StoreInd'
<1>1. AppliedMeansAcknowledged'
  BY SMTT(30) DEF StoreInd, OrdinaryStep, AppliedMeansAcknowledged, BatchesStay, NoNewBatch,
         NoCompletedBatch, ActiveStates, StoreTypeOK
<1>. QED
  BY <1>1, SequenceAllocationKept, SubmissionTimedKept, OneActiveBatchKept,
     HighWaterMarkKept, EvidenceKept DEF StoreInd, OrdinaryStep

LEMMA BatchNextInv ==
    ASSUME StoreInd, BatchNext
    PROVE  StoreInd'
<1>EnqueueInv. ASSUME StoreInd, NEW t \in Txn, NEW at \in Time, EnqueueOfflineTransaction(t, at)
               PROVE  StoreInd'
  <2>. USE <1>EnqueueInv
  <2>1. StoreTypeOK' /\ RowsStay /\ NoNewAcknowledged
    BY EnqueueStep DEF StoreInd
  <2>2. /\ txn[t] = NULL /\ txn'[t] # NULL /\ txn'[t].sequence = nextLocalSequence
        /\ \A u \in Txn : u # t => txn'[u] = txn[u]
        /\ nextLocalSequence' = nextLocalSequence + 1
        /\ UNCHANGED <<lastAcknowledgedSequence, batch, ack>>
        /\ nextLocalSequence \in Nat /\ lastAcknowledgedSequence \in Nat
    <3>1. [sequence |-> nextLocalSequence, state |-> "pending", attempts |-> 0,
           retryAt |-> NULL, updatedAt |-> at] # NULL
      BY NullAssumption, SMTT(30) DEF StoreInd, StoreTypeOK, TxnRow, QueueState, OptionalTime
    <3>. QED
      BY <3>1 DEF EnqueueOfflineTransaction, Stored, StoreInd, StoreTypeOK
  <2>3. SequenceAllocation'
    <3>1. \A n \in 1..(nextLocalSequence' - 1) :
            \E u \in Txn : txn'[u] # NULL /\ txn'[u].sequence = n
      <4>. SUFFICES ASSUME NEW n \in 1..nextLocalSequence
                    PROVE  \E u \in Txn : txn'[u] # NULL /\ txn'[u].sequence = n
        BY <2>2, SMTT(30)
      <4>1. CASE n = nextLocalSequence
        BY <2>2, <4>1
      <4>2. CASE n \in 1..(nextLocalSequence - 1)
        BY <2>1, <4>2 DEF StoreInd, SequenceAllocation, RowsStay
      <4>. QED
        BY <2>2, <4>1, <4>2, SMTT(30)
    <3>2. \A u \in Txn : txn'[u] # NULL =>
            \/ u = t /\ txn'[u].sequence = nextLocalSequence
            \/ /\ u # t /\ txn'[u] = txn[u]
               /\ txn[u].sequence \in 1..(nextLocalSequence - 1)
      BY <2>2 DEF StoreInd, SequenceAllocation, Stored
    <3>3. \A u \in Txn : txn'[u] # NULL => txn'[u].sequence \in 1..(nextLocalSequence' - 1)
      <4>1. nextLocalSequence > 0
        BY <2>2, SMTT(30) DEF StoreInd, HighWaterMarkSound
      <4>. QED
        BY <2>2, <3>2, <4>1, SMTT(30)
    <3>4. \A u, v \in Txn : /\ txn'[u] # NULL /\ txn'[v] # NULL
                            /\ txn'[u].sequence = txn'[v].sequence
                            => u = v
      BY <2>2, <3>2, SMTT(30) DEF StoreInd, SequenceAllocation, Stored
    <3>. QED
      BY <3>1, <3>3, <3>4 DEF SequenceAllocation, Stored
  <2>4. HighWaterMarkSound'
    BY <2>2, SMTT(30) DEF StoreInd, HighWaterMarkSound, Stored
  <2>5. SubmissionTimed' /\ OneActiveBatch' /\ AppliedMeansAcknowledged'
    BY <2>2 DEF StoreInd, SubmissionTimed, OneActiveBatch, AppliedMeansAcknowledged, Active
  <2>6. AcknowledgedHasEvidence'
    BY <2>1, <2>2, EvidenceKept DEF StoreInd
  <2>. QED
    BY <2>1, <2>3, <2>4, <2>5, <2>6 DEF StoreInd
<1>CreateInv. ASSUME StoreInd, NEW b \in Batch, NEW limit \in Limits, NEW at \in Time,
                     CreateSynchronizationBatch(b, limit, at)
              PROVE  StoreInd'
  <2>. USE <1>CreateInv
  <2>1. /\ StoreTypeOK' /\ RowsStay /\ NoNewRow /\ NoNewAcknowledged
        /\ BatchesStay /\ NoCompletedBatch
        /\ batch[b] = NULL /\ batch'[b] # NULL /\ batch'[b].state = "prepared"
        /\ \A t \in batch'[b].entries : t \in Txn /\ ~InActiveBatch(t)
        /\ \A c \in Batch : c # b => batch'[c] = batch[c]
        /\ ack' = ack
    <3>1. ack' = ack
      BY DEF CreateSynchronizationBatch
    <3>. QED
      BY <3>1, CreateSynchronizationBatchStep DEF StoreInd
  <2>2. OneActiveBatch'
    <3>. SUFFICES ASSUME NEW c \in Batch, NEW d \in Batch, c # d,
                         Active(c)', Active(d)'
                  PROVE  batch'[c].entries \cap batch'[d].entries = {}
      BY DEF OneActiveBatch
    <3>1. \A e \in Batch : e # b /\ Active(e)' =>
            batch'[e].entries \cap batch'[b].entries = {}
      BY <2>1 DEF Active, InActiveBatch
    <3>2. CASE c # b /\ d # b
      BY <2>1, <3>2 DEF StoreInd, OneActiveBatch, Active
    <3>. QED
      BY <3>1, <3>2
  <2>3. SubmissionTimed' /\ AppliedMeansAcknowledged'
    BY <2>1, SMTT(30) DEF StoreInd, SubmissionTimed, AppliedMeansAcknowledged, StoreTypeOK
  <2>. QED
    BY <2>1, <2>2, <2>3, SequenceAllocationKept, HighWaterMarkKept, EvidenceKept DEF StoreInd
<1>StoreInv. ASSUME StoreInd, NEW b \in Batch, NEW at \in Time, NEW outcome,
                    StoreSynchronizationAcknowledgement(b, at, outcome)
             PROVE  StoreInd'
  <2>. USE <1>StoreInv
  <2>1. /\ StoreTypeOK'
        /\ UNCHANGED <<readerState, txn, batch>>
        /\ batch[b] # NULL /\ batch[b].state = "in_flight"
        /\ ack[b] = NULL /\ ack'[b] # NULL /\ ack'[b].appliedAt = NULL
        /\ \A c \in Batch : c # b => ack'[c] = ack[c]
    BY StoreSynchronizationAcknowledgementStep DEF StoreInd
  <2>2. /\ SubmissionTimed' /\ SequenceAllocation' /\ HighWaterMarkSound'
        /\ OneActiveBatch'
    BY <2>1 DEF StoreInd, SubmissionTimed, SequenceAllocation, HighWaterMarkSound,
                OneActiveBatch, Active, Stored, readerState
  <2>3. AcknowledgedHasEvidence'
    <3>. SUFFICES ASSUME NEW t \in Txn, txn[t] # NULL, txn[t].state = "acknowledged"
                  PROVE  \E c \in Batch : /\ ack'[c] # NULL
                                          /\ ack'[c].appliedAt # NULL
                                          /\ t \in DOMAIN ack'[c].outcome
                                          /\ ack'[c].outcome[t].state = "acknowledged"
      BY <2>1 DEF AcknowledgedHasEvidence, Stored
    <3>1. PICK c \in Batch : /\ ack[c] # NULL
                             /\ ack[c].appliedAt # NULL
                             /\ t \in DOMAIN ack[c].outcome
                             /\ ack[c].outcome[t].state = "acknowledged"
      BY DEF StoreInd, AcknowledgedHasEvidence, Stored
    <3>2. ack'[c] = ack[c]
      BY <2>1, <3>1
    <3>. QED
      BY <3>1, <3>2
  <2>4. AppliedMeansAcknowledged'
    BY <2>1 DEF StoreInd, AppliedMeansAcknowledged
  <2>. QED
    BY <2>1, <2>2, <2>3, <2>4 DEF StoreInd
<1>ApplyInv. ASSUME StoreInd, NEW b \in Batch, NEW at \in Time,
                    ApplySynchronizationAcknowledgement(b, at)
             PROVE  StoreInd'
  <2>. USE <1>ApplyInv
  <2>1. /\ StoreTypeOK' /\ RowsStay /\ NoNewRow /\ BatchesStay /\ NoNewBatch
        /\ batch[b] # NULL /\ batch'[b].state = "acknowledged"
        /\ \A c \in Batch : c # b => batch'[c] = batch[c] /\ ack'[c] = ack[c]
        /\ ack[b] # NULL /\ ack'[b] # NULL /\ ack'[b].appliedAt # NULL
        /\ ack'[b].outcome = ack[b].outcome
        /\ DOMAIN ack[b].outcome = batch[b].entries
        /\ \A t \in Txn : \/ t \notin batch[b].entries /\ txn'[t] = txn[t]
                          \/ t \in batch[b].entries
                             /\ txn'[t].state = ack[b].outcome[t].state
    BY ApplySynchronizationAcknowledgementStep DEF StoreInd
  <2>2. PICK n \in lastAcknowledgedSequence..(nextLocalSequence - 1) :
          /\ ContiguousResolved(txn', lastAcknowledgedSequence, n)
          /\ lastAcknowledgedSequence' = n
    BY ApplySynchronizationAcknowledgementStep DEF StoreInd
  <2>3. HighWaterMarkSound'
    <3>1. lastAcknowledgedSequence' < nextLocalSequence'
      BY <2>1, <2>2, SMTT(30) DEF NoNewRow, StoreInd, StoreTypeOK
    <3>2. SequenceAllocation'
      BY <2>1, SequenceAllocationKept DEF StoreInd
    <3>3. \A m \in (lastAcknowledgedSequence + 1)..n :
            \E u \in Txn : /\ txn'[u] # NULL /\ txn'[u].sequence = m
                           /\ txn'[u].state \in {"acknowledged", "permanent_failure"}
      BY <2>2 DEF ContiguousResolved, IsResolved
    <3>4. ASSUME NEW t \in Txn, txn'[t] # NULL, txn'[t].sequence <= n
          PROVE  txn'[t].state \in {"acknowledged", "permanent_failure"}
      <4>1. Stored(t) /\ txn'[t].sequence = txn[t].sequence /\ txn[t].sequence \in Nat
        BY <2>1, <3>4, SMTT(30) DEF NoNewRow, RowsStay, StoreInd, StoreTypeOK, TxnRow, Stored
      <4>2. CASE txn[t].sequence <= lastAcknowledgedSequence
        BY <2>1, <4>1, <4>2 DEF StoreInd, HighWaterMarkSound, RowsStay, FinalState
      <4>3. CASE txn[t].sequence > lastAcknowledgedSequence
        <5>1. txn'[t].sequence \in (lastAcknowledgedSequence + 1)..n
          BY <2>2, <3>4, <4>1, <4>3, SMTT(30) DEF StoreInd, StoreTypeOK
        <5>. QED
          BY <3>2, <3>3, <3>4, <5>1 DEF SequenceAllocation, Stored
      <4>. QED
        BY <4>1, <4>2, <4>3, SMTT(30) DEF StoreInd, StoreTypeOK
    <3>. QED
      BY <2>2, <3>1, <3>4 DEF HighWaterMarkSound, Stored
  <2>4. AcknowledgedHasEvidence'
    <3>. SUFFICES ASSUME NEW t \in Txn, txn'[t] # NULL, txn'[t].state = "acknowledged"
                  PROVE  \E c \in Batch : /\ ack'[c] # NULL
                                          /\ ack'[c].appliedAt # NULL
                                          /\ t \in DOMAIN ack'[c].outcome
                                          /\ ack'[c].outcome[t].state = "acknowledged"
      BY DEF AcknowledgedHasEvidence, Stored
    <3>1. CASE t \in batch[b].entries
      BY <2>1, <3>1
    <3>2. CASE t \notin batch[b].entries
      <4>1. PICK c \in Batch : /\ ack[c] # NULL
                               /\ ack[c].appliedAt # NULL
                               /\ t \in DOMAIN ack[c].outcome
                               /\ ack[c].outcome[t].state = "acknowledged"
        BY <2>1, <3>2 DEF StoreInd, AcknowledgedHasEvidence, Stored
      <4>2. ack'[c] = ack[c]
        BY <2>1, <3>2, <4>1
      <4>. QED
        BY <4>1, <4>2
    <3>. QED
      BY <3>1, <3>2
  <2>5. AppliedMeansAcknowledged'
    BY <2>1, SMTT(30) DEF StoreInd, AppliedMeansAcknowledged, NoNewBatch, BatchesStay
  <2>. QED
    BY <2>1, <2>3, <2>4, <2>5, SequenceAllocationKept, SubmissionTimedKept,
       OneActiveBatchKept DEF StoreInd
<1>1. StoreTypeOK /\ SubmissionTimed
  BY DEF StoreInd
<1>. QED
  BY <1>1, BatchStepKinds, OrdinaryStepInv, <1>EnqueueInv, <1>CreateInv, <1>StoreInv, <1>ApplyInv

LEMMA NextInv == StoreInd /\ [StoreNext]_storeVars => StoreInd'
<1>. SUFFICES ASSUME StoreInd, [StoreNext]_storeVars PROVE StoreInd'
  OBVIOUS
<1>1. CASE BatchNext
  BY <1>1, BatchNextInv
<1>2. CASE \E t \in Txn : RowNext(t)
  <2>1. StoreTypeOK' /\ OrdinaryStep
    BY <1>2, RowStepKind DEF StoreInd
  <2>. QED
    BY <2>1, OrdinaryStepInv
<1>3. CASE UNCHANGED storeVars
  <2>1. /\ nextLocalSequence' = nextLocalSequence
        /\ lastAcknowledgedSequence' = lastAcknowledgedSequence
        /\ txn' = txn /\ batch' = batch /\ ack' = ack
    BY <1>3 DEF storeVars
  <2>2. StoreTypeOK' /\ SubmissionTimed'
    BY <2>1 DEF StoreInd, StoreTypeOK, SubmissionTimed
  <2>3. SequenceAllocation' /\ HighWaterMarkSound'
    BY <2>1 DEF StoreInd, SequenceAllocation, HighWaterMarkSound, Stored
  <2>4. OneActiveBatch'
    BY <2>1 DEF StoreInd, OneActiveBatch, Active
  <2>5. AcknowledgedHasEvidence'
    BY <2>1 DEF StoreInd, AcknowledgedHasEvidence, Stored
  <2>6. AppliedMeansAcknowledged'
    BY <2>1 DEF StoreInd, AppliedMeansAcknowledged
  <2>. QED
    BY <2>2, <2>3, <2>4, <2>5, <2>6 DEF StoreInd
<1>. QED
  BY <1>1, <1>2, <1>3 DEF StoreNext

(* The inductive invariant holds of every execution: no order of the calls of
   reader_queue*.rs, reader_sync*.rs and reader_acknowledgement*.rs, and no
   timestamps, break it. *)
THEOREM StoreInvariant == StoreSpec => []StoreInd
  BY InitInv, NextInv, PTL DEF StoreSpec

-----------------------------------------------------------------------------
(* The properties of the whole interface *)

(* Every row of the three tables keeps its declared shape, whatever calls of
   the store succeed: the decoders of stored rows never meet another. *)
THEOREM TypeCorrect == StoreSpec => []StoreTypeOK
  BY StoreInvariant, PTL DEF StoreInd

(* The mark never passes a transaction that is pending, in flight, waiting for
   a retry or under manual review: apply_synchronization_acknowledgement is the
   only writer of last_acknowledged_sequence, and no later call takes a
   transaction below the mark out of its final state. *)
THEOREM HighWaterMarkCorrect == StoreSpec => []HighWaterMarkSound
  BY StoreInvariant, PTL DEF StoreInd

(* Local sequence numbers are dense and unique: enqueue_offline_transaction. *)
THEOREM SequencesAllocated == StoreSpec => []SequenceAllocation
  BY StoreInvariant, PTL DEF StoreInd

(* No transaction is in two active batches: create_synchronization_batch. *)
THEOREM BatchesExclusive == StoreSpec => []OneActiveBatch
  BY StoreInvariant, PTL DEF StoreInd

(* Only an applied acknowledgement acknowledges a transaction:
   apply_synchronization_acknowledgement. *)
THEOREM AcknowledgementsCorrect == StoreSpec => []AcknowledgedHasEvidence
  BY StoreInvariant, PTL DEF StoreInd

(* A batch is acknowledged exactly when its acknowledgement is applied, whatever
   runs between storing and applying it. *)
THEOREM ApplicationsComplete == StoreSpec => []AppliedMeansAcknowledged
  BY StoreInvariant, PTL DEF StoreInd

(* A batch that was ever submitted has its first submission time, which
   load_synchronization_batch_request needs to rebuild the request. *)
THEOREM SubmissionsTimed == StoreSpec => []SubmissionTimed
  BY StoreInvariant, PTL DEF StoreInd

(* Every step keeps what RowsStay and BatchesStay say. *)
LEMMA StepStays ==
    ASSUME StoreInd, [StoreNext]_storeVars
    PROVE  RowsStay /\ BatchesStay
<1>1. CASE BatchNext
  <2>1. StoreTypeOK /\ SubmissionTimed
    BY DEF StoreInd
  <2>2. ASSUME NEW t \in Txn, NEW at \in Time, EnqueueOfflineTransaction(t, at)
        PROVE  RowsStay /\ BatchesStay
    <3>1. UNCHANGED batch
      BY <2>2 DEF EnqueueOfflineTransaction
    <3>. QED
      BY <2>1, <2>2, <3>1, EnqueueStep, BatchesUnchanged
  <2>3. ASSUME NEW b \in Batch, NEW at \in Time, NEW outcome,
               StoreSynchronizationAcknowledgement(b, at, outcome)
        PROVE  RowsStay /\ BatchesStay
    <3>1. UNCHANGED <<readerState, txn, batch>>
      BY <2>3 DEF StoreSynchronizationAcknowledgement
    <3>. QED
      BY <3>1, RowsUnchanged, BatchesUnchanged
  <2>4. ASSUME NEW b \in Batch, NEW limit \in Limits, NEW at \in Time,
               CreateSynchronizationBatch(b, limit, at)
        PROVE  RowsStay /\ BatchesStay
    BY <2>1, <2>4, CreateSynchronizationBatchStep
  <2>5. ASSUME NEW b \in Batch, NEW at \in Time,
               ApplySynchronizationAcknowledgement(b, at)
        PROVE  RowsStay /\ BatchesStay
    BY <2>1, <2>5, ApplySynchronizationAcknowledgementStep
  <2>. QED
    BY <1>1, <2>1, <2>2, <2>3, <2>4, <2>5, BatchStepKinds DEF OrdinaryStep
<1>2. CASE \E t \in Txn : RowNext(t)
  BY <1>2, RowStepKind DEF OrdinaryStep, StoreInd
<1>3. CASE UNCHANGED storeVars
  BY <1>3, RowsUnchanged, BatchesUnchanged DEF storeVars, readerState
<1>. QED
  BY <1>1, <1>2, <1>3 DEF StoreNext

(* No call takes a transaction out of acknowledged, permanent_failure or
   manual_review, or gives it another sequence number. *)
THEOREM FinalStatesPermanent == StoreSpec => FinalStatesStay
<1>1. StoreInd /\ [StoreNext]_storeVars => [\A t \in Txn : StaysFinal(t)]_storeVars
  BY StepStays DEF RowsStay, FinalState, StaysFinal
<1>. QED
  BY <1>1, StoreInvariant, PTL DEF StoreSpec, FinalStatesStay

(* Every submission of a batch carries the same entries and the same first
   submission time: mark_synchronization_batch_in_flight. *)
THEOREM RequestsStable == StoreSpec => RequestStable
<1>1. StoreInd /\ [StoreNext]_storeVars => [\A b \in Batch : KeepsRequest(b)]_storeVars
  BY StepStays DEF BatchesStay, KeepsRequest
<1>. QED
  BY <1>1, StoreInvariant, PTL DEF StoreSpec, RequestStable

-----------------------------------------------------------------------------
(* The reservation of the entries of active batches *)

(* The entries of a batch are transactions, and a batch that is active after an
   ordinary step was active before it, with the same entries. *)
LEMMA EntriesAreTxns ==
    ASSUME StoreTypeOK, NEW b \in Batch, batch[b] # NULL
    PROVE  batch[b].entries \subseteq Txn
  BY DEF StoreTypeOK, BatchRow

LEMMA ActiveBefore ==
    ASSUME BatchesStay, NoNewBatch, NEW b \in Batch, Active(b)'
    PROVE  Active(b) /\ batch'[b].entries = batch[b].entries
  BY DEF BatchesStay, NoNewBatch, Active

LEMMA ReservationKept ==
    ASSUME StoreTypeOK, ActiveEntriesInFlight, BatchesStay, NoNewBatch,
           \A t \in Txn : \/ txn'[t] = txn[t]
                          \/ txn'[t] # NULL /\ txn'[t].state = "in_flight"
                          \/ \A b \in Batch : Active(b)' => t \notin batch[b].entries
    PROVE  ActiveEntriesInFlight'
<1>. SUFFICES ASSUME NEW b \in Batch, Active(b)', NEW t \in batch'[b].entries
              PROVE  txn'[t] # NULL /\ txn'[t].state = "in_flight"
  BY DEF ActiveEntriesInFlight, Stored
<1>1. Active(b) /\ t \in batch[b].entries
  BY ActiveBefore
<1>2. t \in Txn /\ txn[t] # NULL /\ txn[t].state = "in_flight"
  BY <1>1, EntriesAreTxns DEF ActiveEntriesInFlight, Stored, Active
<1>. QED
  BY <1>1, <1>2

LEMMA BatchNextReserves ==
    ASSUME StoreInd, ActiveEntriesInFlight, BatchNext
    PROVE  ActiveEntriesInFlight'
(* A batch that leaves the active states gives up its entries alone. *)
<1>ClosingKeepsReservation. ASSUME StoreInd, ActiveEntriesInFlight, BatchesStay, NoNewBatch,
                                   NEW b \in Batch, Active(b), ~Active(b)',
                                   \A t \in Txn : t \notin batch[b].entries => txn'[t] = txn[t]
                            PROVE  ActiveEntriesInFlight'
  <2>. USE <1>ClosingKeepsReservation
  <2>1. \A t \in batch[b].entries : \A c \in Batch : Active(c)' => t \notin batch[c].entries
    BY ActiveBefore DEF StoreInd, OneActiveBatch
  <2>. QED
    BY <2>1, ReservationKept DEF StoreInd
<1>0. PICK at \in Time :
       \/ \E t \in Txn : EnqueueOfflineTransaction(t, at)
       \/ RecoverInterruptedSynchronizationBatches(at)
       \/ RecoverInterruptedOfflineQueue(at)
       \/ \E b \in Batch :
            \/ \E limit \in Limits : CreateSynchronizationBatch(b, limit, at)
            \/ MarkSynchronizationBatchInFlight(b, at)
            \/ \E retryAt \in Time :
                 RecordSynchronizationRetryableFailure(b, at, retryAt)
            \/ \E state \in FinalFailure :
                 RecordFinalSynchronizationFailure(b, state, at)
            \/ /\ batch[b] # NULL
               /\ \E outcome \in [batch[b].entries -> Resolution] :
                    StoreSynchronizationAcknowledgement(b, at, outcome)
            \/ ApplySynchronizationAcknowledgement(b, at)
  BY DEF BatchNext
<1>. StoreTypeOK /\ SubmissionTimed
  BY DEF StoreInd
<1>1. ASSUME NEW t \in Txn, EnqueueOfflineTransaction(t, at)
      PROVE  ActiveEntriesInFlight'
  <2>1. txn[t] = NULL /\ batch' = batch /\ \A u \in Txn : u # t => txn'[u] = txn[u]
    BY <1>1 DEF EnqueueOfflineTransaction, Stored, StoreTypeOK
  <2>2. \A b \in Batch : Active(b) => t \notin batch[b].entries
    BY <2>1 DEF ActiveEntriesInFlight, Stored
  <2>3. \A b \in Batch : Active(b)' => t \notin batch[b].entries
    BY <2>1, <2>2 DEF Active
  <2>. QED
    BY <2>1, <2>3, BatchesUnchanged, ReservationKept
<1>2. ASSUME RecoverInterruptedSynchronizationBatches(at)
      PROVE  ActiveEntriesInFlight'
  <2>1. txn' = txn
    BY <1>2 DEF RecoverInterruptedSynchronizationBatches
  <2>. QED
    BY <1>2, <2>1, RecoverInterruptedSynchronizationBatchesStep, ReservationKept
<1>3. ASSUME RecoverInterruptedOfflineQueue(at)
      PROVE  ActiveEntriesInFlight'
  <2>1. batch' = batch /\ \A t \in Txn : InActiveBatch(t) => txn'[t] = txn[t]
    BY <1>3 DEF RecoverInterruptedOfflineQueue
  <2>2. \A t \in Txn : \/ txn'[t] = txn[t]
                       \/ \A b \in Batch : Active(b)' => t \notin batch[b].entries
    BY <2>1 DEF InActiveBatch, Active
  <2>. QED
    BY <2>1, <2>2, BatchesUnchanged, ReservationKept
<1>4. ASSUME NEW b \in Batch, NEW limit \in Limits,
             CreateSynchronizationBatch(b, limit, at)
      PROVE  ActiveEntriesInFlight'
  <2>1. /\ \A t \in batch'[b].entries :
             t \in Txn /\ txn'[t] # NULL /\ txn'[t].state = "in_flight"
        /\ \A t \in Txn : t \notin batch'[b].entries => txn'[t] = txn[t]
        /\ \A c \in Batch : c # b => batch'[c] = batch[c]
    BY <1>4, CreateSynchronizationBatchStep
  <2>. SUFFICES ASSUME NEW c \in Batch, Active(c)', NEW t \in batch'[c].entries
                PROVE  txn'[t] # NULL /\ txn'[t].state = "in_flight"
    BY DEF ActiveEntriesInFlight, Stored
  <2>2. CASE t \in batch'[b].entries
    BY <2>1, <2>2
  <2>3. CASE t \notin batch'[b].entries
    <3>1. c # b /\ batch'[c] = batch[c] /\ Active(c) /\ t \in batch[c].entries
      BY <2>1, <2>3 DEF Active
    <3>2. t \in Txn /\ txn[t] # NULL /\ txn[t].state = "in_flight"
      BY <3>1, EntriesAreTxns DEF ActiveEntriesInFlight, Stored, Active
    <3>. QED
      BY <2>1, <2>3, <3>2
  <2>. QED
    BY <2>2, <2>3
<1>5. ASSUME NEW b \in Batch, MarkSynchronizationBatchInFlight(b, at)
      PROVE  ActiveEntriesInFlight'
  <2>1. \A t \in Txn : \/ txn'[t] = txn[t]
                       \/ txn'[t] # NULL /\ txn'[t].state = "in_flight"
    <3>1. ASSUME NEW t \in Txn, t \in batch[b].entries
          PROVE  txn'[t] # NULL /\ txn'[t].state = "in_flight"
      <4>1. Stored(t) /\ txn[t].state = "in_flight"
        BY <1>5, <3>1 DEF MarkSynchronizationBatchInFlight, InFlightBefore, Stored
      <4>. QED
        BY <1>5, <4>1, MarkSynchronizationBatchInFlightStep DEF RowsStay
    <3>. QED
      BY <1>5, <3>1 DEF MarkSynchronizationBatchInFlight
  <2>. QED
    BY <1>5, <2>1, MarkSynchronizationBatchInFlightStep, ReservationKept
<1>6. ASSUME NEW b \in Batch, NEW retryAt \in Time,
             RecordSynchronizationRetryableFailure(b, at, retryAt)
      PROVE  ActiveEntriesInFlight'
  <2>1. txn' = txn
    BY <1>6 DEF RecordSynchronizationRetryableFailure
  <2>. QED
    BY <1>6, <2>1, RecordSynchronizationRetryableFailureStep, ReservationKept
<1>7. ASSUME NEW b \in Batch, NEW state \in FinalFailure,
             RecordFinalSynchronizationFailure(b, state, at)
      PROVE  ActiveEntriesInFlight'
  <2>1. Active(b)
    BY <1>7 DEF RecordFinalSynchronizationFailure, InFlightBefore, Active, ActiveStates
  <2>2. ~Active(b)'
    BY <1>7, RecordFinalSynchronizationFailureStep DEF Active, ActiveStates, FinalFailure
  <2>. QED
    BY <1>7, <2>1, <2>2, RecordFinalSynchronizationFailureStep, <1>ClosingKeepsReservation
<1>8. ASSUME NEW b \in Batch, NEW outcome,
             StoreSynchronizationAcknowledgement(b, at, outcome)
      PROVE  ActiveEntriesInFlight'
  BY <1>8 DEF StoreSynchronizationAcknowledgement, ActiveEntriesInFlight, Active, Stored
<1>9. ASSUME NEW b \in Batch, ApplySynchronizationAcknowledgement(b, at)
      PROVE  ActiveEntriesInFlight'
  <2>1. Active(b)
    BY <1>9 DEF ApplySynchronizationAcknowledgement, InFlightBefore, Active, ActiveStates
  <2>2. ~Active(b)'
    BY <1>9, ApplySynchronizationAcknowledgementStep DEF Active, ActiveStates
  <2>. QED
    BY <1>9, <2>1, <2>2, ApplySynchronizationAcknowledgementStep, <1>ClosingKeepsReservation
<1>. QED
  BY <1>0, <1>1, <1>2, <1>3, <1>4, <1>5, <1>6, <1>7, <1>8, <1>9

(* While the row operations leave the entries of active batches alone, those
   entries stay in flight: mark_synchronization_batch_in_flight and
   apply_synchronization_acknowledgement never meet an entry in another state,
   even if queue recovery runs before batch recovery. *)
THEOREM ReservationCorrect == PipelineSpec => []ActiveEntriesInFlight
<1>1. StoreInit => StoreInd /\ ActiveEntriesInFlight
  BY InitInv DEF StoreInit, ActiveEntriesInFlight, Active
<1>2. StoreInd /\ ActiveEntriesInFlight /\ [PipelineNext]_storeVars => (StoreInd /\ ActiveEntriesInFlight)'
  <2>. SUFFICES ASSUME StoreInd, ActiveEntriesInFlight, [PipelineNext]_storeVars
                PROVE  StoreInd' /\ ActiveEntriesInFlight'
    OBVIOUS
  <2>1. StoreInd'
    <3>1. PipelineNext => StoreNext
      BY DEF PipelineNext, StoreNext
    <3>. QED
      BY <3>1, NextInv
  <2>2. CASE BatchNext
    BY <2>1, <2>2, BatchNextReserves
  <2>3. ASSUME NEW t \in Txn, ~InActiveBatch(t), RowNext(t)
        PROVE  ActiveEntriesInFlight'
    <3>1. batch' = batch /\ \A u \in Txn : u # t => txn'[u] = txn[u]
      BY <2>3 DEF RowNext, MarkOfflineTransactionInFlight, RecordRetryableQueueFailure,
                  RecordFinalQueueFailure, StoreInd, StoreTypeOK
    <3>2. \A b \in Batch : Active(b)' => t \notin batch[b].entries
      BY <2>3, <3>1 DEF InActiveBatch, Active
    <3>. QED
      BY <3>1, <3>2, BatchesUnchanged, ReservationKept DEF StoreInd
  <2>4. CASE UNCHANGED storeVars
    BY <2>1, <2>4 DEF storeVars, ActiveEntriesInFlight, Active, Stored
  <2>. QED
    BY <2>1, <2>2, <2>3, <2>4 DEF PipelineNext
<1>. QED
  BY <1>1, <1>2, PTL DEF PipelineSpec

(* The converse, for the batch operations alone: what is in flight is an entry
   of an active batch. *)
InFlightHasBatch ==
    \A t \in Txn : Stored(t) /\ txn[t].state = "in_flight" => InActiveBatch(t)

(* A batch in flight that SetState makes retryable stays active. *)
LEMMA RetryKeepsActive ==
    ASSUME StoreTypeOK, NEW b \in Batch, NEW at \in Time, NEW r \in Time,
           InFlightBefore(batch[b], at),
           batch'[b] = SetState(batch[b], "retryable_failure", r, at)
    PROVE  Active(b)' /\ batch'[b].entries = batch[b].entries
<1>1. batch[b] \in BatchRow
  BY DEF StoreTypeOK, InFlightBefore
<1>2. "retryable_failure" \in BatchState /\ r \in OptionalTime
  BY DEF BatchState, OptionalTime
<1>. QED
  BY <1>1, <1>2, SetStateBatch, SMTT(30) DEF Active, ActiveStates

(* So does a batch that is submitted. *)
LEMMA SubmittedIsActive ==
    ASSUME NEW b \in Batch, NEW at \in Time,
           batch[b] \in BatchRow,
           batch'[b] = Submitted(batch[b], at)
    PROVE  Active(b)' /\ batch'[b].entries = batch[b].entries
<1>1. /\ Submitted(batch[b], at) # NULL
      /\ Submitted(batch[b], at).entries = batch[b].entries
      /\ Submitted(batch[b], at).state = "in_flight"
  BY SubmittedBatch
<1>2. /\ batch'[b] # NULL
      /\ batch'[b].entries = batch[b].entries
      /\ batch'[b].state = "in_flight"
  BY <1>1
<1>. QED
  BY <1>2 DEF Active, ActiveStates

(* What is in flight is exactly what the active batches hold: no batch
   operation strands a transaction in flight. *)
THEOREM NothingStranded == BatchSpec => []InFlightIsReserved
<1>BatchNextKeepsBatches. ASSUME StoreInd, InFlightHasBatch, BatchNext
                          PROVE  InFlightHasBatch'
  <2>. USE <1>BatchNextKeepsBatches
  <2>InFlightHasBatchKept. ASSUME InFlightHasBatch,
                                  \A t \in Txn : txn'[t] # NULL /\ txn'[t].state = "in_flight" =>
                                    \/ InActiveBatch(t)'
                                    \/ /\ Stored(t) /\ txn[t].state = "in_flight"
                                       /\ \A b \in Batch : Active(b) /\ t \in batch[b].entries =>
                                            Active(b)' /\ batch'[b].entries = batch[b].entries
                           PROVE  InFlightHasBatch'
    BY <2>InFlightHasBatchKept DEF InFlightHasBatch, InActiveBatch, Stored
  <2>0. PICK at \in Time :
         \/ \E t \in Txn : EnqueueOfflineTransaction(t, at)
         \/ RecoverInterruptedSynchronizationBatches(at)
         \/ RecoverInterruptedOfflineQueue(at)
         \/ \E b \in Batch :
              \/ \E limit \in Limits : CreateSynchronizationBatch(b, limit, at)
              \/ MarkSynchronizationBatchInFlight(b, at)
              \/ \E retryAt \in Time :
                   RecordSynchronizationRetryableFailure(b, at, retryAt)
              \/ \E state \in FinalFailure :
                   RecordFinalSynchronizationFailure(b, state, at)
              \/ /\ batch[b] # NULL
                 /\ \E outcome \in [batch[b].entries -> Resolution] :
                      StoreSynchronizationAcknowledgement(b, at, outcome)
              \/ ApplySynchronizationAcknowledgement(b, at)
    BY DEF BatchNext
  <2>. StoreTypeOK /\ SubmissionTimed
    BY DEF StoreInd
  <2>1. ASSUME NEW t \in Txn, EnqueueOfflineTransaction(t, at)
        PROVE  InFlightHasBatch'
    <3>1. /\ batch' = batch
          /\ txn'[t].state = "pending"
          /\ \A u \in Txn : u # t => txn'[u] = txn[u]
      BY <2>1 DEF EnqueueOfflineTransaction, StoreTypeOK
    <3>. QED
      BY <3>1, <2>InFlightHasBatchKept DEF Active, Stored
  <2>2. ASSUME RecoverInterruptedSynchronizationBatches(at)
        PROVE  InFlightHasBatch'
    <3>1. /\ txn' = txn
          /\ \A b \in Batch :
               \/ batch'[b] = batch[b]
               \/ /\ InFlightBefore(batch[b], at)
                  /\ batch'[b] = SetState(batch[b], "retryable_failure", at, at)
      BY <2>2 DEF RecoverInterruptedSynchronizationBatches
    <3>2. \A b \in Batch : Active(b) => Active(b)' /\ batch'[b].entries = batch[b].entries
      BY <3>1, RetryKeepsActive DEF Active
    <3>. QED
      BY <3>1, <3>2, <2>InFlightHasBatchKept DEF Stored
  <2>3. ASSUME RecoverInterruptedOfflineQueue(at)
        PROVE  InFlightHasBatch'
    <3>1. batch' = batch
      BY <2>3 DEF RecoverInterruptedOfflineQueue
    <3>2. \A t \in Txn : txn'[t] # NULL /\ txn'[t].state = "in_flight" => txn'[t] = txn[t]
      <4>. SUFFICES ASSUME NEW t \in Txn, InFlightBefore(txn[t], at),
                           txn'[t] = SetState(txn[t], "retryable_failure", at, at)
                    PROVE  txn'[t].state = "retryable_failure"
        BY <2>3 DEF RecoverInterruptedOfflineQueue
      <4>. QED
        BY InFlightRewritten, ConstantsAssumption DEF QueueState, OptionalTime
    <3>. QED
      BY <3>1, <3>2, <2>InFlightHasBatchKept DEF Active, Stored
  <2>4. ASSUME NEW b \in Batch, NEW limit \in Limits,
               CreateSynchronizationBatch(b, limit, at)
        PROVE  InFlightHasBatch'
    <3>1. /\ batch[b] = NULL /\ batch'[b] # NULL /\ batch'[b].state = "prepared"
          /\ \A t \in Txn : t \notin batch'[b].entries => txn'[t] = txn[t]
          /\ \A c \in Batch : c # b => batch'[c] = batch[c]
      BY <2>4, CreateSynchronizationBatchStep
    <3>2. Active(b)'
      BY <3>1 DEF Active, ActiveStates
    <3>3. \A c \in Batch : Active(c) => Active(c)' /\ batch'[c].entries = batch[c].entries
      BY <3>1 DEF Active
    <3>4. \A t \in Txn : t \in batch'[b].entries => InActiveBatch(t)'
      BY <3>2 DEF InActiveBatch
    <3>. QED
      BY <3>1, <3>3, <3>4, <2>InFlightHasBatchKept DEF Stored
  <2>5. ASSUME NEW b \in Batch, MarkSynchronizationBatchInFlight(b, at)
        PROVE  InFlightHasBatch'
    <3>1. /\ batch[b] \in BatchRow
          /\ batch'[b] = Submitted(batch[b], at)
          /\ \A c \in Batch : c # b => batch'[c] = batch[c]
      BY <2>5 DEF MarkSynchronizationBatchInFlight, StoreTypeOK
    <3>2. Active(b)' /\ batch'[b].entries = batch[b].entries
      BY <3>1, SubmittedIsActive
    <3>3. \A c \in Batch : Active(c) => Active(c)' /\ batch'[c].entries = batch[c].entries
      BY <3>1, <3>2 DEF Active
    <3>. QED
      BY <2>5, <3>3, MarkSynchronizationBatchInFlightStep, <2>InFlightHasBatchKept
         DEF NoNewRow, Stored
  <2>6. ASSUME NEW b \in Batch, NEW retryAt \in Time,
               RecordSynchronizationRetryableFailure(b, at, retryAt)
        PROVE  InFlightHasBatch'
    <3>1. /\ txn' = txn
          /\ InFlightBefore(batch[b], at)
          /\ batch'[b] = SetState(batch[b], "retryable_failure", retryAt, at)
          /\ \A c \in Batch : c # b => batch'[c] = batch[c]
      BY <2>6 DEF RecordSynchronizationRetryableFailure, StoreTypeOK
    <3>2. \A c \in Batch : Active(c) => Active(c)' /\ batch'[c].entries = batch[c].entries
      BY <3>1, RetryKeepsActive DEF Active
    <3>. QED
      BY <3>1, <3>2, <2>InFlightHasBatchKept DEF Stored
  <2>7. ASSUME NEW b \in Batch, NEW state \in FinalFailure,
               RecordFinalSynchronizationFailure(b, state, at)
        PROVE  InFlightHasBatch'
    <3>1. /\ \A c \in Batch : c # b => batch'[c] = batch[c]
          /\ \A t \in Txn : t \notin batch[b].entries => txn'[t] = txn[t]
          /\ \A t \in batch[b].entries :
               InFlightBefore(txn[t], at)
          /\ \A t \in Txn : t \in batch[b].entries =>
               txn'[t] = SetState(txn[t], state, NULL, at)
      BY <2>7 DEF RecordFinalSynchronizationFailure, StoreTypeOK
    <3>2. \A t \in Txn : t \in batch[b].entries => txn'[t].state # "in_flight"
      <4>1. state \in QueueState /\ NULL \in OptionalTime /\ state # "retryable_failure"
            /\ state # "in_flight"
        BY DEF QueueState, OptionalTime, FinalFailure
      <4>2. ASSUME NEW t \in Txn, t \in batch[b].entries
            PROVE  txn'[t].state = state
        <5>1. InFlightBefore(txn[t], at) /\ txn'[t] = SetState(txn[t], state, NULL, at)
          BY <3>1, <4>2
        <5>. QED
          BY <4>1, <5>1, InFlightRewritten
      <4>. QED
        BY <4>1, <4>2
    <3>3. ASSUME NEW t \in Txn, txn'[t] # NULL, txn'[t].state = "in_flight"
          PROVE  /\ Stored(t) /\ txn[t].state = "in_flight"
                 /\ \A c \in Batch : Active(c) /\ t \in batch[c].entries =>
                      Active(c)' /\ batch'[c].entries = batch[c].entries
      <4>1. t \notin batch[b].entries
        BY <3>2, <3>3
      <4>2. txn'[t] = txn[t]
        BY <3>1, <4>1
      <4>. QED
        BY <3>1, <3>3, <4>1, <4>2 DEF Active, Stored
    <3>. QED
      BY <3>3, <2>InFlightHasBatchKept
  <2>8. ASSUME NEW b \in Batch, NEW outcome,
               StoreSynchronizationAcknowledgement(b, at, outcome)
        PROVE  InFlightHasBatch'
    <3>1. txn' = txn /\ batch' = batch
      BY <2>8 DEF StoreSynchronizationAcknowledgement
    <3>. QED
      BY <3>1, <2>InFlightHasBatchKept DEF Active, Stored
  <2>9. ASSUME NEW b \in Batch, ApplySynchronizationAcknowledgement(b, at)
        PROVE  InFlightHasBatch'
    <3>1. /\ \A c \in Batch : c # b => batch'[c] = batch[c]
          /\ ack[b] # NULL /\ batch[b] # NULL
          /\ \A t \in Txn : \/ t \notin batch[b].entries /\ txn'[t] = txn[t]
                            \/ t \in batch[b].entries
                               /\ txn'[t].state = ack[b].outcome[t].state
      BY <2>9, ApplySynchronizationAcknowledgementStep
    <3>2. \A t \in batch[b].entries : ack[b].outcome[t].state # "in_flight"
      <4>1. ack[b].outcome \in [batch[b].entries -> Resolution]
        BY <3>1 DEF StoreTypeOK, AckRow
      <4>. QED
        BY <4>1 DEF Resolution
    <3>. QED
      BY <3>1, <3>2, <2>InFlightHasBatchKept DEF Active, Stored
  <2>. QED
    BY <2>0, <2>1, <2>2, <2>3, <2>4, <2>5, <2>6, <2>7, <2>8, <2>9
<1>. DEFINE I == StoreInd /\ ActiveEntriesInFlight /\ InFlightHasBatch
<1>1. StoreInit => I
  BY InitInv DEF StoreInit, ActiveEntriesInFlight, InFlightHasBatch, Active, Stored
<1>2. I /\ [BatchNext]_storeVars => I'
  <2>. SUFFICES ASSUME I, [BatchNext]_storeVars PROVE I'
    OBVIOUS
  <2>1. CASE BatchNext
    BY <2>1, BatchNextInv, BatchNextReserves, <1>BatchNextKeepsBatches
  <2>2. CASE UNCHANGED storeVars
    <3>1. StoreInd'
      BY <2>2, NextInv
    <3>2. ActiveEntriesInFlight' /\ InFlightHasBatch'
      BY <2>2 DEF storeVars, ActiveEntriesInFlight, InFlightHasBatch, InActiveBatch, Active, Stored
    <3>. QED
      BY <3>1, <3>2
  <2>. QED
    BY <2>1, <2>2
<1>3. I => InFlightIsReserved
  BY DEF ActiveEntriesInFlight, InFlightHasBatch, InFlightIsReserved, InActiveBatch
<1>. QED
  BY <1>1, <1>2, <1>3, PTL DEF BatchSpec

=============================================================================

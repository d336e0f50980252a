------------------------- MODULE ReaderViewsProofs --------------------------
(***************************************************************************)
(* What the reader reads back from its database (ReaderViews): the         *)
(* invariant of the stored columns, that every row loads, that a batch     *)
(* that is offered can be submitted, and the steps of a reader at rest.    *)
(***************************************************************************)
EXTENDS ReaderViews, ReaderStoreProofs, Sequences, WellFoundedInduction, TLAPS

(* Zenon proves the leaves that cite no other prover. *)
USE ZenonT(30)

-----------------------------------------------------------------------------
(* What the reader reads back *)

(* The argument: the columns that only reads use are stamped from the store, so
   they keep an order with its times (ViewInd); then every decoder accepts what
   is stored. *)

(* A step only moves the update times of the stored rows forward, and keeps
   what an acknowledgement says. *)
RowsGrow == \A t \in Txn : Stored(t) => txn'[t].updatedAt >= txn[t].updatedAt

BatchesGrow == \A b \in Batch : batch[b] # NULL => batch'[b].updatedAt >= batch[b].updatedAt

AcksStay ==
    \A b \in Batch : ack[b] # NULL =>
      /\ ack'[b] # NULL
      /\ ack'[b].receivedAt = ack[b].receivedAt /\ ack'[b].outcome = ack[b].outcome

LEMMA BatchTimes ==
    ASSUME NEW row \in BatchRow, NEW at \in Time, row.updatedAt <= at,
           NEW s \in BatchState, NEW r \in OptionalTime
    PROVE  /\ row.updatedAt \in Nat /\ at \in Nat
           /\ SetState(row, s, r, at).updatedAt >= row.updatedAt
           /\ SetState(row, s, r, at).updatedAt = at
           /\ SetState(row, s, r, at).attempts = row.attempts
           /\ Submitted(row, at).updatedAt >= row.updatedAt
           /\ Submitted(row, at).updatedAt = at
           /\ Submitted(row, at).attempts = row.attempts + 1
<1>1. row.updatedAt \in Time /\ Time \subseteq Nat
  BY ConstantsAssumption DEF BatchRow
<1>2. SetState(row, s, r, at).updatedAt = at /\ SetState(row, s, r, at).attempts = row.attempts
  BY DEF SetState, BatchRow
<1>3. Submitted(row, at).updatedAt = at /\ Submitted(row, at).attempts = row.attempts + 1
  <2>1. PICK base \in BatchRow : base = SetState(row, "in_flight", NULL, at)
    BY SetStateBatch DEF OptionalTime, BatchState
  <2>2. base.attempts = row.attempts /\ base.attempts + 1 \in Nat
    BY <2>1, SMTT(30) DEF SetState, BatchRow
  <2>3. PICK n \in Nat : n = base.attempts + 1
    BY <2>2
  <2>4. PICK new \in BatchRow : new = [base EXCEPT !.attempts = n, !.updatedAt = at]
    BY DEF BatchRow
  <2>5. new.updatedAt = at /\ new.attempts = n
    BY <2>4 DEF BatchRow
  <2>6. Submitted(row, at) = [new EXCEPT !.submittedAt = Coalesce(@, at)]
    BY <2>1, <2>3, <2>4 DEF Submitted, Attempted
  <2>. QED
    BY <2>2, <2>3, <2>5, <2>6 DEF BatchRow
<1>. QED
  BY <1>1, <1>2, <1>3

LEMMA UnchangedRowsGrow ==
    ASSUME StoreTypeOK, NEW t \in Txn, Stored(t), txn'[t] = txn[t]
    PROVE  txn'[t].updatedAt >= txn[t].updatedAt
<1>1. txn[t].updatedAt \in Nat
  BY ConstantsAssumption DEF StoreTypeOK, Stored, TxnRow
<1>. QED
  BY <1>1, SMTT(30)

(* A step at a time: the rows it writes were not updated later, and carry it. *)
TouchedAt(at) ==
    /\ \A t \in Txn : Stored(t) /\ txn'[t] # txn[t] =>
         txn[t].updatedAt <= at /\ txn'[t].updatedAt = at
    /\ \A b \in Batch : batch[b] # NULL /\ batch'[b] # batch[b] =>
         batch[b].updatedAt <= at /\ batch'[b].updatedAt = at

(* No attempt is counted. *)
AttemptsStay ==
    /\ \A t \in Txn : Stored(t) => txn'[t].attempts = txn[t].attempts
    /\ \A b \in Batch : batch[b] # NULL => batch'[b].attempts = batch[b].attempts

LEMMA EnqueueTouches ==
    ASSUME StoreTypeOK, NEW t \in Txn, NEW at \in Time, EnqueueOfflineTransaction(t, at)
    PROVE  /\ TouchedAt(at) /\ AttemptsStay /\ AcksStay
           /\ txn[t] = NULL /\ txn'[t] # NULL /\ txn'[t].updatedAt = at /\ txn'[t].attempts = 0
           /\ \A u \in Txn : u # t => txn'[u] = txn[u]
           /\ UNCHANGED <<lastAcknowledgedSequence, batch, ack>>
<1>1. PICK row : row = [sequence |-> nextLocalSequence, state |-> "pending",
                        attempts |-> 0, retryAt |-> NULL, updatedAt |-> at]
  OBVIOUS
<1>2. row \in TxnRow /\ row.updatedAt = at /\ row.attempts = 0
  BY <1>1 DEF TxnRow, QueueState, OptionalTime, StoreTypeOK
<1>3. row # NULL
  BY <1>2, NullAssumption
<1>4. /\ txn[t] = NULL /\ txn' = [txn EXCEPT ![t] = row]
      /\ UNCHANGED <<lastAcknowledgedSequence, batch, ack>> /\ DOMAIN txn = Txn
  BY <1>1 DEF EnqueueOfflineTransaction, Stored, StoreTypeOK
<1>. QED
  BY <1>2, <1>3, <1>4 DEF TouchedAt, AttemptsStay, AcksStay, Stored

(* Rows in flight that take a state. *)
LEMMA InFlightTouched ==
    ASSUME StoreTypeOK, NEW t \in Txn, NEW at \in Time, InFlightBefore(txn[t], at),
           NEW s \in QueueState, NEW r \in OptionalTime,
           txn'[t] = SetState(txn[t], s, r, at)
    PROVE  /\ txn[t].updatedAt <= at /\ txn'[t].updatedAt = at
           /\ txn'[t].attempts = txn[t].attempts
<1>1. txn[t] \in TxnRow /\ txn[t].updatedAt <= at
  BY DEF InFlightBefore, StoreTypeOK
<1>. QED
  BY <1>1, SetStateTxn, SMTT(30)

LEMMA BatchTouched ==
    ASSUME StoreTypeOK, NEW b \in Batch, NEW at \in Time, InFlightBefore(batch[b], at),
           NEW s \in BatchState, NEW r \in OptionalTime,
           batch'[b] = SetState(batch[b], s, r, at)
    PROVE  /\ batch[b].updatedAt <= at /\ batch'[b].updatedAt = at
           /\ batch'[b].attempts = batch[b].attempts
<1>1. batch[b] \in BatchRow /\ batch[b].updatedAt <= at
  BY DEF InFlightBefore, StoreTypeOK
<1>. QED
  BY <1>1, BatchTimes, SMTT(30)

LEMMA RecoverQueueTouches ==
    ASSUME StoreTypeOK, NEW at \in Time, RecoverInterruptedOfflineQueue(at)
    PROVE  TouchedAt(at) /\ AttemptsStay /\ AcksStay
<1>1. UNCHANGED <<batch, ack>>
  BY DEF RecoverInterruptedOfflineQueue
<1>2. ASSUME NEW t \in Txn, Stored(t)
      PROVE  /\ txn'[t] # txn[t] => txn[t].updatedAt <= at /\ txn'[t].updatedAt = at
             /\ txn'[t].attempts = txn[t].attempts
  <2>1. \/ txn'[t] = txn[t]
        \/ InFlightBefore(txn[t], at) /\ txn'[t] = SetState(txn[t], "retryable_failure", at, at)
    BY DEF RecoverInterruptedOfflineQueue
  <2>. QED
    BY <2>1, InFlightTouched DEF QueueState, OptionalTime
<1>. QED
  BY <1>1, <1>2 DEF TouchedAt, AttemptsStay, AcksStay

LEMMA RecoverBatchesTouches ==
    ASSUME StoreTypeOK, NEW at \in Time, RecoverInterruptedSynchronizationBatches(at)
    PROVE  TouchedAt(at) /\ AttemptsStay /\ AcksStay
<1>1. UNCHANGED <<txn, ack>>
  BY DEF RecoverInterruptedSynchronizationBatches
<1>2. ASSUME NEW b \in Batch, batch[b] # NULL
      PROVE  /\ batch'[b] # batch[b] => batch[b].updatedAt <= at /\ batch'[b].updatedAt = at
             /\ batch'[b].attempts = batch[b].attempts
  <2>1. \/ batch'[b] = batch[b]
        \/ InFlightBefore(batch[b], at) /\ batch'[b] = SetState(batch[b], "retryable_failure", at, at)
    BY DEF RecoverInterruptedSynchronizationBatches
  <2>. QED
    BY <2>1, BatchTouched DEF BatchState, OptionalTime
<1>. QED
  BY <1>1, <1>2 DEF TouchedAt, AttemptsStay, AcksStay

LEMMA CreateTouches ==
    ASSUME StoreTypeOK, NEW b \in Batch, NEW limit \in Limits, NEW at \in Time,
           CreateSynchronizationBatch(b, limit, at)
    PROVE  /\ TouchedAt(at) /\ AttemptsStay /\ AcksStay
           /\ batch'[b].updatedAt = at /\ batch'[b].attempts = 0 /\ batch'[b].entries # {}
           /\ \A t \in batch'[b].entries : Stored(t) /\ txn'[t].updatedAt = at
<1>. DEFINE entries == FirstBySequence(Candidates(at), limit)
<1>1. PICK row : row = [entries |-> entries, state |-> "prepared", attempts |-> 0,
                        submittedAt |-> NULL, retryAt |-> NULL, updatedAt |-> at]
  OBVIOUS
<1>2. row.entries = entries /\ row.updatedAt = at /\ row.attempts = 0
  BY <1>1
<1>3. /\ batch[b] = NULL /\ batch' = [batch EXCEPT ![b] = row] /\ DOMAIN batch = Batch
      /\ entries # {} /\ ack' = ack
      /\ \A t \in entries : txn[t].updatedAt <= at
      /\ txn' = [t \in Txn |-> IF t \in entries
                               THEN SetState(txn[t], "in_flight", NULL, at)
                               ELSE txn[t]]
  BY <1>1 DEF CreateSynchronizationBatch, StoreTypeOK
<1>4. \A t \in entries : t \in Txn /\ Stored(t)
  BY DEF FirstBySequence, Candidates
<1>5. ASSUME NEW t \in entries
      PROVE  txn'[t].updatedAt = at /\ txn'[t].attempts = txn[t].attempts
  <2>1. txn[t] \in TxnRow
    BY <1>4 DEF StoreTypeOK, Stored
  <2>2. txn'[t] = SetState(txn[t], "in_flight", NULL, at)
    BY <1>3, <1>4
  <2>3. "in_flight" \in QueueState /\ NULL \in OptionalTime
    BY DEF QueueState, OptionalTime
  <2>. HIDE DEF entries
  <2>. QED
    BY <2>1, <2>2, <2>3, SetStateTxn, SMTT(30)
<1>6. \A t \in Txn : t \notin entries => txn'[t] = txn[t]
  BY <1>3
<1>7. batch'[b] = row /\ \A c \in Batch : c # b => batch'[c] = batch[c]
  BY <1>3
<1>. HIDE DEF entries
<1>8. TouchedAt(at)
  BY <1>3, <1>5, <1>6, <1>7 DEF TouchedAt
<1>9. AttemptsStay /\ AcksStay
  BY <1>3, <1>5, <1>6, <1>7 DEF AttemptsStay, AcksStay
<1>. QED
  BY <1>2, <1>3, <1>4, <1>5, <1>7, <1>8, <1>9

LEMMA MarkTouches ==
    ASSUME StoreTypeOK, NEW b \in Batch, NEW at \in Time,
           MarkSynchronizationBatchInFlight(b, at)
    PROVE  /\ TouchedAt(at) /\ AcksStay
           /\ batch[b] # NULL /\ batch'[b].updatedAt = at
           /\ batch'[b].attempts = batch[b].attempts + 1
           /\ \A c \in Batch : c # b => batch'[c] = batch[c]
           /\ \A t \in Txn : t \notin batch[b].entries => txn'[t] = txn[t]
           /\ \A t \in batch[b].entries :
                /\ t \in Txn /\ Stored(t) /\ txn'[t].updatedAt = at
                /\ txn'[t].attempts = txn[t].attempts + 1
<1>1. /\ batch[b] # NULL /\ batch[b].updatedAt <= at /\ batch' = [batch EXCEPT ![b] = Submitted(batch[b], at)]
      /\ DOMAIN batch = Batch /\ batch[b] \in BatchRow /\ ack' = ack
      /\ \A t \in batch[b].entries : InFlightBefore(txn[t], at)
      /\ txn' = [t \in Txn |-> IF t \in batch[b].entries THEN Attempted(txn[t], at) ELSE txn[t]]
  BY DEF MarkSynchronizationBatchInFlight, StoreTypeOK
<1>2. batch'[b].updatedAt = at /\ batch'[b].attempts = batch[b].attempts + 1
  BY <1>1, BatchTimes DEF BatchState, OptionalTime
<1>3. ASSUME NEW t \in batch[b].entries
      PROVE  /\ t \in Txn /\ Stored(t) /\ txn[t].updatedAt <= at /\ txn'[t].updatedAt = at
             /\ txn'[t].attempts = txn[t].attempts + 1
  <2>1. t \in Txn
    BY <1>1 DEF BatchRow
  <2>2. txn[t] # NULL /\ txn[t].updatedAt <= at /\ txn[t] \in TxnRow
    BY <1>1, <2>1 DEF InFlightBefore, StoreTypeOK
  <2>3. txn'[t] = Attempted(txn[t], at)
    BY <1>1, <2>1
  <2>4. txn'[t].updatedAt = at /\ txn'[t].attempts = txn[t].attempts + 1
    BY <2>2, <2>3 DEF Attempted, TxnRow
  <2>. QED
    BY <2>1, <2>2, <2>4 DEF Stored
<1>4. \A t \in Txn : t \notin batch[b].entries => txn'[t] = txn[t]
  BY <1>1
<1>5. \A c \in Batch : c # b => batch'[c] = batch[c]
  BY <1>1
<1>6. TouchedAt(at)
  BY <1>1, <1>2, <1>3, <1>4, <1>5 DEF TouchedAt
<1>7. AcksStay
  BY <1>1 DEF AcksStay
<1>. QED
  BY <1>1, <1>2, <1>3, <1>4, <1>5, <1>6, <1>7

LEMMA RecordRetryTouches ==
    ASSUME StoreTypeOK, NEW b \in Batch, NEW at \in Time, NEW retryAt \in Time,
           RecordSynchronizationRetryableFailure(b, at, retryAt)
    PROVE  TouchedAt(at) /\ AttemptsStay /\ AcksStay
<1>1. /\ InFlightBefore(batch[b], at) /\ UNCHANGED <<txn, ack>> /\ DOMAIN batch = Batch
      /\ batch' = [batch EXCEPT ![b] = SetState(batch[b], "retryable_failure", retryAt, at)]
  BY DEF RecordSynchronizationRetryableFailure, StoreTypeOK
<1>2. "retryable_failure" \in BatchState /\ retryAt \in OptionalTime
  BY DEF BatchState, OptionalTime
<1>3. /\ batch[b].updatedAt <= at /\ batch'[b].updatedAt = at
      /\ batch'[b].attempts = batch[b].attempts
  BY <1>1, <1>2, BatchTouched
<1>4. \A c \in Batch : c # b => batch'[c] = batch[c]
  BY <1>1
<1>. QED
  BY <1>1, <1>3, <1>4 DEF TouchedAt, AttemptsStay, AcksStay

LEMMA RecordFinalTouches ==
    ASSUME StoreTypeOK, NEW b \in Batch, NEW state \in FinalFailure, NEW at \in Time,
           RecordFinalSynchronizationFailure(b, state, at)
    PROVE  TouchedAt(at) /\ AttemptsStay /\ AcksStay
<1>1. /\ InFlightBefore(batch[b], at) /\ ack' = ack /\ DOMAIN batch = Batch
      /\ batch' = [batch EXCEPT ![b] = SetState(batch[b], state, NULL, at)]
      /\ \A t \in batch[b].entries : InFlightBefore(txn[t], at)
      /\ txn' = [t \in Txn |-> IF t \in batch[b].entries
                               THEN SetState(txn[t], state, NULL, at)
                               ELSE txn[t]]
  BY DEF RecordFinalSynchronizationFailure, StoreTypeOK
<1>2. state \in BatchState /\ state \in QueueState /\ NULL \in OptionalTime
  BY DEF BatchState, QueueState, OptionalTime, FinalFailure
<1>3. /\ batch[b].updatedAt <= at /\ batch'[b].updatedAt = at
      /\ batch'[b].attempts = batch[b].attempts
  BY <1>1, <1>2, BatchTouched
<1>4. \A c \in Batch : c # b => batch'[c] = batch[c]
  BY <1>1
<1>5. ASSUME NEW t \in Txn, Stored(t)
      PROVE  /\ txn'[t] # txn[t] => txn[t].updatedAt <= at /\ txn'[t].updatedAt = at
             /\ txn'[t].attempts = txn[t].attempts
  <2>1. CASE t \in batch[b].entries
    <3>1. txn'[t] = SetState(txn[t], state, NULL, at) /\ InFlightBefore(txn[t], at)
      BY <1>1, <2>1
    <3>. QED
      BY <1>2, <3>1, InFlightTouched, SMTT(30)
  <2>2. CASE t \notin batch[b].entries
    BY <1>1, <2>2
  <2>. QED
    BY <2>1, <2>2
<1>. QED
  BY <1>1, <1>3, <1>4, <1>5 DEF TouchedAt, AttemptsStay, AcksStay

LEMMA StoreTouches ==
    ASSUME StoreTypeOK, NEW b \in Batch, NEW at \in Time, NEW outcome,
           StoreSynchronizationAcknowledgement(b, at, outcome)
    PROVE  /\ TouchedAt(at) /\ AttemptsStay /\ AcksStay
           /\ ack'[b].receivedAt = at /\ ack'[b].outcome = outcome
           /\ ValidAcknowledgement(b, at, outcome)
<1>1. PICK row : row = [receivedAt |-> at, outcome |-> outcome, appliedAt |-> NULL]
  OBVIOUS
<1>2. row.receivedAt = at /\ row.outcome = outcome
  BY <1>1
<1>3. /\ UNCHANGED <<txn, batch>> /\ ack[b] = NULL /\ DOMAIN ack = Batch
      /\ ack' = [ack EXCEPT ![b] = row] /\ ValidAcknowledgement(b, at, outcome)
  BY <1>1 DEF StoreSynchronizationAcknowledgement, StoreTypeOK
<1>4. ack'[b] = row /\ \A c \in Batch : c # b => ack'[c] = ack[c]
  BY <1>3
<1>5. TouchedAt(at) /\ AttemptsStay
  BY <1>3 DEF TouchedAt, AttemptsStay
<1>. QED
  BY <1>2, <1>3, <1>4, <1>5 DEF AcksStay

LEMMA ApplyTouches ==
    ASSUME StoreTypeOK, NEW b \in Batch, NEW at \in Time,
           ApplySynchronizationAcknowledgement(b, at)
    PROVE  /\ TouchedAt(at) /\ AttemptsStay /\ AcksStay
           /\ ack[b] # NULL /\ ack[b].appliedAt = NULL /\ ack'[b].appliedAt = at
           /\ \A c \in Batch : c # b => ack'[c] = ack[c]
           /\ \A t \in batch[b].entries : t \in Txn /\ InFlightBefore(txn[t], at)
<1>1. /\ InFlightBefore(batch[b], at) /\ DOMAIN batch = Batch /\ DOMAIN ack = Batch
      /\ ack[b] # NULL /\ ack[b].appliedAt = NULL
      /\ batch' = [batch EXCEPT ![b] = SetState(batch[b], "acknowledged", NULL, at)]
      /\ ack' = [ack EXCEPT ![b].appliedAt = at]
      /\ \A t \in DOMAIN ack[b].outcome : InFlightBefore(txn[t], at)
      /\ txn' = [t \in Txn |->
                   IF t \in DOMAIN ack[b].outcome
                   THEN SetState(txn[t], ack[b].outcome[t].state, ack[b].outcome[t].retryAt, at)
                   ELSE txn[t]]
  BY DEF ApplySynchronizationAcknowledgement, ApplyEntries, ApplyOutcome, StoreTypeOK
<1>2. "acknowledged" \in BatchState /\ NULL \in OptionalTime
  BY DEF BatchState, OptionalTime
<1>3. /\ batch[b].updatedAt <= at /\ batch'[b].updatedAt = at
      /\ batch'[b].attempts = batch[b].attempts
  BY <1>1, <1>2, BatchTouched
<1>4. \A c \in Batch : c # b => batch'[c] = batch[c]
  BY <1>1
<1>5. ack[b].outcome \in [batch[b].entries -> Resolution] /\ ack[b] \in AckRow(batch[b].entries)
      /\ batch[b].entries \subseteq Txn
  BY <1>1 DEF StoreTypeOK, AckRow, BatchRow
<1>6. ASSUME NEW t \in Txn, Stored(t)
      PROVE  /\ txn'[t] # txn[t] => txn[t].updatedAt <= at /\ txn'[t].updatedAt = at
             /\ txn'[t].attempts = txn[t].attempts
  <2>1. CASE t \in DOMAIN ack[b].outcome
    <3>1. ack[b].outcome[t] \in Resolution
      BY <1>5, <2>1
    <3>2. PICK s \in QueueState, r \in OptionalTime : s = ack[b].outcome[t].state /\ r = ack[b].outcome[t].retryAt
      BY <3>1 DEF Resolution, QueueState, OptionalTime
    <3>3. txn'[t] = SetState(txn[t], s, r, at) /\ InFlightBefore(txn[t], at)
      BY <1>1, <2>1, <3>2
    <3>. QED
      BY <3>3, InFlightTouched, SMTT(30)
  <2>2. CASE t \notin DOMAIN ack[b].outcome
    BY <1>1, <2>2
  <2>. QED
    BY <2>1, <2>2
<1>7. /\ ack'[b] = [ack[b] EXCEPT !.appliedAt = at]
      /\ \A c \in Batch : c # b => ack'[c] = ack[c]
  BY <1>1
<1>8. PICK new : new = [ack[b] EXCEPT !.appliedAt = at]
  OBVIOUS
<1>9. /\ new.appliedAt = at /\ new.receivedAt = ack[b].receivedAt /\ new.outcome = ack[b].outcome
  BY <1>5, <1>8 DEF AckRow
<1>10. ack'[b] # NULL
  BY ApplySynchronizationAcknowledgementStep, <1>5, <1>7, <1>8, NullAssumption, SMTT(30) DEF AckRow, OptionalTime
<1>11. AcksStay
  BY <1>7, <1>8, <1>9, <1>10 DEF AcksStay
<1>12. TouchedAt(at) /\ AttemptsStay
  BY <1>3, <1>4, <1>6 DEF TouchedAt, AttemptsStay
<1>. QED
  BY <1>1, <1>5, <1>7, <1>8, <1>9, <1>11, <1>12

-----------------------------------------------------------------------------
(* The columns of the views *)

SequencesOf(b) == {txn[t].sequence : t \in batch[b].entries}

ReaderDated ==
    reader # NULL => /\ reader \in [createdAt: Time, updatedAt: Time]
                     /\ reader.createdAt <= reader.updatedAt

RowsDated ==
    /\ createdAt = [t \in Txn |-> createdAt[t]]
    /\ \A t \in Txn : Stored(t) => createdAt[t] \in Time /\ createdAt[t] <= txn[t].updatedAt

BatchesDated ==
    /\ batchStored = [b \in Batch |-> batchStored[b]]
    /\ \A b \in Batch : batch[b] # NULL =>
         /\ batch[b].entries # {} /\ \A t \in batch[b].entries : Stored(t)
         /\ batchStored[b].first = Min(SequencesOf(b))
         /\ batchStored[b].last = Max(SequencesOf(b))
         /\ batchStored[b].createdAt <= batch[b].updatedAt
         /\ batchStored[b].createdAt \in Time

AcksDated ==
    \A b \in Batch : ack[b] # NULL =>
      \A t \in DOMAIN ack[b].outcome : ack[b].outcome[t].state = "retryable_failure" =>
        ack[b].outcome[t].retryAt >= ack[b].receivedAt

FewBatches == IsFiniteSet({b \in Batch : batch[b] # NULL})

ViewInd == StoreInd /\ ReaderDated /\ RowsDated /\ BatchesDated /\ AcksDated /\ FewBatches

(* A set is finite when a finite set and one element more cover it. *)
LEMMA FiniteWithOne ==
    ASSUME NEW S, IsFiniteSet(S), NEW x, NEW T, T \subseteq S \cup {x}
    PROVE  IsFiniteSet(T)
<1>1. PICK s \in Seq(S) : \A y \in S : \E i \in 1..Len(s) : s[i] = y
  BY DEF IsFiniteSet
<1>2. CASE T = {}
  <2>1. <<>> \in Seq(T)
    BY SMTT(30)
  <2>. QED
    BY <1>2, <2>1 DEF IsFiniteSet
<1>3. CASE T # {}
  <2>1. PICK y \in T : x \in T => y = x
    BY <1>3
  <2>2. PICK n \in Nat : n = Len(s)
    BY <1>1, SMTT(30)
  <2>. DEFINE t == [i \in 1..(n + 1) |-> IF i <= n /\ s[i] \in T THEN s[i] ELSE y]
  <2>3. t \in Seq(T) /\ Len(t) = n + 1
    BY SMTT(30)
  <2>4. ASSUME NEW z \in T
        PROVE  \E i \in 1..(n + 1) : t[i] = z
    <3>1. CASE z = x
      <4>1. t[n + 1] = y /\ n + 1 \in 1..(n + 1)
        BY SMTT(30)
      <4>. QED
        BY <2>1, <3>1, <4>1
    <3>2. CASE z # x
      <4>1. PICK i \in 1..n : s[i] = z
        BY <1>1, <2>2, <3>2
      <4>2. i \in 1..(n + 1) /\ t[i] = z
        BY <2>4, <4>1, SMTT(30)
      <4>. QED
        BY <4>2
    <3>. QED
      BY <3>1, <3>2
  <2>. HIDE DEF t
  <2>. QED
    BY <2>3, <2>4 DEF IsFiniteSet
<1>. QED
  BY <1>2, <1>3

(* The steps that insert a row, or move the mark. *)
ViewKinds ==
    \/ NoNewRow /\ NoNewBatch /\ UNCHANGED <<lastAcknowledgedSequence, ack>>
    \/ \E t \in Txn, at \in Time : EnqueueOfflineTransaction(t, at)
    \/ \E b \in Batch, limit \in Limits, at \in Time : CreateSynchronizationBatch(b, limit, at)
    \/ \E b \in Batch, at \in Time : \E outcome : StoreSynchronizationAcknowledgement(b, at, outcome)
    \/ \E b \in Batch, at \in Time : ApplySynchronizationAcknowledgement(b, at)

LEMMA StepKind ==
    ASSUME StoreInd, StoreNext
    PROVE  ViewKinds
<1>1. ASSUME NEW t \in Txn, RowNext(t)
      PROVE  ViewKinds
  BY <1>1, RowStepKind DEF StoreInd, OrdinaryStep, NoNewAcknowledged, ViewKinds
<1>2. CASE BatchNext
  BY <1>2, BatchStepKinds DEF StoreInd, OrdinaryStep, NoNewAcknowledged, ViewKinds
<1>. QED
  BY <1>1, <1>2 DEF StoreNext

LEMMA TimesOrdered ==
    ASSUME NEW x \in Time, NEW y \in Time, NEW z \in Time, x <= y, z >= y
    PROVE  x <= z
  BY ConstantsAssumption, SMTT(30)

LEMMA TimeItself ==
    ASSUME NEW x \in Time
    PROVE  x <= x
  BY ConstantsAssumption, SMTT(30)

LEMMA MinFacts ==
    ASSUME NEW S, S \subseteq Nat, S # {}
    PROVE  Min(S) \in S /\ \A y \in S : Min(S) <= y
<1>1. PICK x \in S : \A y \in S : ~(<<y, x>> \in OpToRel(<, Nat))
  BY NatLessThanWellFounded, WFMin
<1>2. ASSUME NEW y \in S
      PROVE  x <= y
  <2>1. x \in Nat /\ y \in Nat
    OBVIOUS
  <2>2. ~(y < x)
    BY <1>1, <2>1 DEF OpToRel
  <2>. QED
    BY <2>1, <2>2, SMTT(30)
<1>. QED
  BY <1>2 DEF Min

LEMMA MaxFacts ==
    ASSUME NEW S, NEW n \in Nat, S \subseteq 0..n, S # {}
    PROVE  Max(S) \in S /\ \A y \in S : y <= Max(S)
<1>. DEFINE R == {n - y : y \in S}
<1>0. \A y \in S : y \in Nat /\ y <= n /\ n - y \in Nat
  BY SMTT(30)
<1>1. R \subseteq Nat /\ R # {}
  BY <1>0
<1>2. PICK m \in R : \A k \in R : m <= k
  <2>. HIDE DEF R
  <2>. QED
    BY <1>1, MinFacts
<1>3. PICK x \in S : m = n - x
  OBVIOUS
<1>4. ASSUME NEW y \in S
      PROVE  x >= y
  <2>1. n - y \in R
    OBVIOUS
  <2>2. n - x <= n - y
    BY <1>2, <1>3, <2>1
  <2>3. x \in Nat /\ y \in Nat
    BY <1>0
  <2>. QED
    BY <2>2, <2>3, SMTT(30)
<1>5. \A y \in S : Max(S) >= y /\ Max(S) \in S
  BY <1>4 DEF Max
<1>. QED
  BY <1>5

LEMMA ViewInvariant == ViewSpec => []ViewInd
<1>BindInv. ASSUME ViewInd, BindNext
            PROVE  ViewInd'
  <2>. USE <1>BindInv
  <2>1. PICK at \in Time : BindReaderDatabase(at)
    BY DEF BindNext
  <2>2. UNCHANGED storeVars /\ UNCHANGED <<createdAt, batchStored>>
        /\ reader' = [createdAt |-> at, updatedAt |-> at]
    BY <2>1 DEF BindReaderDatabase
  <2>3. StoreInd'
    BY <2>2, NextInv DEF ViewInd
  <2>4. UNCHANGED <<txn, batch, ack>>
    BY <2>2 DEF storeVars
  <2>5. ReaderDated'
    BY <2>2, TimeItself DEF ReaderDated
  <2>6. RowsDated'
    BY <2>2, <2>4 DEF ViewInd, RowsDated, Stored
  <2>7. BatchesDated'
    <3>1. ASSUME NEW b \in Batch
          PROVE  SequencesOf(b)' = SequencesOf(b)
      BY <2>4 DEF SequencesOf
    <3>2. ASSUME NEW t \in Txn
          PROVE  Stored(t)' <=> Stored(t)
      BY <2>4 DEF Stored
    <3>3. \A b \in Batch : batch[b] # NULL => \A t \in batch[b].entries : t \in Txn
      BY EntriesAreTxns DEF ViewInd, StoreInd
    <3>4. BatchesDated
      BY DEF ViewInd
    <3>. QED
      BY <2>2, <2>4, <3>1, <3>2, <3>3, <3>4 DEF BatchesDated
  <2>8. AcksDated' /\ FewBatches'
    BY <2>4 DEF ViewInd, AcksDated, FewBatches
  <2>. QED
    BY <2>3, <2>5, <2>6, <2>7, <2>8 DEF ViewInd
<1>RecordedInv. ASSUME ViewInd, Recorded(StoreNext)
                PROVE  ViewInd'
  <2>. USE <1>RecordedInv
  <2>StepTouches. ASSUME StoreTypeOK, StoreNext
                  PROVE  RowsGrow /\ BatchesGrow /\ AcksStay
    <3>. USE <2>StepTouches
    (* What the operations on one row, or on the rows, do to the times. *)
    <3>RowNextGrows. ASSUME StoreTypeOK, NEW t \in Txn, RowNext(t)
                     PROVE  RowsGrow /\ BatchesGrow /\ AcksStay
      <4>. USE <3>RowNextGrows
      <4>RowTimes. ASSUME NEW row \in TxnRow, NEW at \in Time, row.updatedAt <= at,
                          NEW s \in QueueState, NEW r \in OptionalTime
                   PROVE  /\ row.updatedAt \in Nat /\ at \in Nat
                          /\ SetState(row, s, r, at).updatedAt >= row.updatedAt
                          /\ Attempted(row, at).updatedAt >= row.updatedAt
                          /\ Attempted(SetState(row, s, r, at), at).updatedAt >= row.updatedAt
        <5>. USE <4>RowTimes
        <5>1. row.updatedAt \in Time /\ Time \subseteq Nat
          BY ConstantsAssumption DEF TxnRow
        <5>2. SetState(row, s, r, at).updatedAt = at /\ Attempted(row, at).updatedAt = at
          BY DEF SetState, Attempted, TxnRow
        <5>3. Attempted(SetState(row, s, r, at), at).updatedAt = at
          <6>1. SetState(row, s, r, at) \in TxnRow
            BY SetStateTxn
          <6>. QED
            BY <6>1 DEF Attempted, TxnRow
        <5>. QED
          BY <5>1, <5>2, <5>3
      <4>UnchangedBatchesGrow. ASSUME StoreTypeOK, NEW b \in Batch, batch[b] # NULL, batch'[b] = batch[b]
                               PROVE  batch'[b].updatedAt >= batch[b].updatedAt
        <5>. USE <4>UnchangedBatchesGrow
        <5>1. batch[b].updatedAt \in Nat
          BY ConstantsAssumption DEF StoreTypeOK, BatchRow
        <5>. QED
          BY <5>1, SMTT(30)
      <4>1. PICK at \in Time :
              \/ MarkOfflineTransactionInFlight(t, at)
              \/ \E retryAt \in Time : RecordRetryableQueueFailure(t, at, retryAt)
              \/ \E state \in FinalFailure : RecordFinalQueueFailure(t, state, at)
        BY DEF RowNext
      <4>2. UNCHANGED <<batch, ack>> /\ txn[t] # NULL /\ txn[t].updatedAt <= at
            /\ \E new : txn' = [txn EXCEPT ![t] = new] /\ new.updatedAt >= txn[t].updatedAt
        <5>0. txn[t] # NULL /\ txn[t].updatedAt <= at
          BY <4>1 DEF MarkOfflineTransactionInFlight, RecordRetryableQueueFailure,
                      RecordFinalQueueFailure, InFlightBefore, Stored
        <5>1. txn[t] \in TxnRow
          BY <5>0 DEF StoreTypeOK
        <5>2. CASE MarkOfflineTransactionInFlight(t, at)
          <6>1. txn' = [txn EXCEPT ![t] = Attempted(SetState(txn[t], "in_flight", NULL, at), at)]
                /\ UNCHANGED <<batch, ack>>
            BY <5>2 DEF MarkOfflineTransactionInFlight
          <6>2. Attempted(SetState(txn[t], "in_flight", NULL, at), at).updatedAt >= txn[t].updatedAt
            BY <5>0, <5>1, <4>RowTimes DEF QueueState, OptionalTime
          <6>. QED
            BY <5>0, <6>1, <6>2
        <5>3. ASSUME NEW retryAt \in Time, RecordRetryableQueueFailure(t, at, retryAt)
              PROVE  UNCHANGED <<batch, ack>> /\ \E new : txn' = [txn EXCEPT ![t] = new] /\ new.updatedAt >= txn[t].updatedAt
          <6>1. txn' = [txn EXCEPT ![t] = SetState(txn[t], "retryable_failure", retryAt, at)]
                /\ UNCHANGED <<batch, ack>>
            BY <5>3 DEF RecordRetryableQueueFailure
          <6>2. SetState(txn[t], "retryable_failure", retryAt, at).updatedAt >= txn[t].updatedAt
            BY <5>0, <5>1, <4>RowTimes DEF QueueState, OptionalTime
          <6>. QED
            BY <6>1, <6>2
        <5>4. ASSUME NEW state \in FinalFailure, RecordFinalQueueFailure(t, state, at)
              PROVE  UNCHANGED <<batch, ack>> /\ \E new : txn' = [txn EXCEPT ![t] = new] /\ new.updatedAt >= txn[t].updatedAt
          <6>1. txn' = [txn EXCEPT ![t] = SetState(txn[t], state, NULL, at)]
                /\ UNCHANGED <<batch, ack>>
            BY <5>4 DEF RecordFinalQueueFailure
          <6>2. SetState(txn[t], state, NULL, at).updatedAt >= txn[t].updatedAt
            BY <5>0, <5>1, <4>RowTimes DEF QueueState, OptionalTime, FinalFailure
          <6>. QED
            BY <6>1, <6>2
        <5>. QED
          BY <4>1, <5>0, <5>2, <5>3, <5>4
      <4>3. PICK new : txn' = [txn EXCEPT ![t] = new] /\ new.updatedAt >= txn[t].updatedAt
        BY <4>2
      <4>4. DOMAIN txn = Txn
        BY DEF StoreTypeOK
      <4>5. RowsGrow
        <5>1. ASSUME NEW u \in Txn, Stored(u)
              PROVE  txn'[u].updatedAt >= txn[u].updatedAt
          <6>1. CASE u = t
            BY <4>3, <4>4, <6>1
          <6>2. CASE u # t
            BY <4>3, <4>4, <5>1, <6>2, UnchangedRowsGrow
          <6>. QED
            BY <6>1, <6>2
        <5>. QED
          BY <5>1 DEF RowsGrow
      <4>. QED
        BY <4>2, <4>5, <4>UnchangedBatchesGrow DEF BatchesGrow, AcksStay
    <3>TouchedGrows. ASSUME StoreTypeOK, NEW at \in Time, TouchedAt(at)
                     PROVE  RowsGrow /\ BatchesGrow
      <4>. USE <3>TouchedGrows
      <4>1. at \in Nat
        BY ConstantsAssumption
      <4>2. ASSUME NEW t \in Txn, Stored(t)
            PROVE  txn'[t].updatedAt >= txn[t].updatedAt
        <5>1. txn[t].updatedAt \in Nat
          BY <4>2, ConstantsAssumption DEF StoreTypeOK, Stored, TxnRow
        <5>. QED
          BY <4>1, <4>2, <5>1, SMTT(30) DEF TouchedAt
      <4>3. ASSUME NEW b \in Batch, batch[b] # NULL
            PROVE  batch'[b].updatedAt >= batch[b].updatedAt
        <5>1. batch[b].updatedAt \in Nat
          BY <4>3, ConstantsAssumption DEF StoreTypeOK, BatchRow
        <5>. QED
          BY <4>1, <4>3, <5>1, SMTT(30) DEF TouchedAt
      <4>. QED
        BY <4>2, <4>3 DEF RowsGrow, BatchesGrow
    <3>1. CASE BatchNext
      <4>1. PICK at \in Time :
              \/ \E t \in Txn : EnqueueOfflineTransaction(t, at)
              \/ RecoverInterruptedSynchronizationBatches(at)
              \/ RecoverInterruptedOfflineQueue(at)
              \/ \E b \in Batch :
                   \/ \E limit \in Limits : CreateSynchronizationBatch(b, limit, at)
                   \/ MarkSynchronizationBatchInFlight(b, at)
                   \/ \E retryAt \in Time : RecordSynchronizationRetryableFailure(b, at, retryAt)
                   \/ \E state \in FinalFailure : RecordFinalSynchronizationFailure(b, state, at)
                   \/ \E outcome : StoreSynchronizationAcknowledgement(b, at, outcome)
                   \/ ApplySynchronizationAcknowledgement(b, at)
        BY <3>1 DEF BatchNext
      <4>2. TouchedAt(at) /\ AcksStay
        BY <4>1, EnqueueTouches, RecoverBatchesTouches, RecoverQueueTouches, CreateTouches, MarkTouches,
           RecordRetryTouches, RecordFinalTouches, StoreTouches, ApplyTouches
      <4>. QED
        BY <4>2, <3>TouchedGrows
    <3>2. ASSUME NEW t \in Txn, RowNext(t)
          PROVE  RowsGrow /\ BatchesGrow /\ AcksStay
      BY <3>2, <3>RowNextGrows
    <3>. QED
      BY <3>1, <3>2 DEF StoreNext
  <2>RowsDatedKept. ASSUME StoreTypeOK, StoreTypeOK', RowsDated, RowsGrow, RowsStay, StampTransactions
                    PROVE  RowsDated'
    <3>. USE <2>RowsDatedKept
    <3>1. createdAt' = [t \in Txn |-> createdAt'[t]]
      BY DEF StampTransactions
    <3>2. ASSUME NEW t \in Txn, txn'[t] # NULL
          PROVE  createdAt'[t] \in Time /\ createdAt'[t] <= txn'[t].updatedAt
      <4>0. txn'[t].updatedAt \in Time /\ Time \subseteq Nat
        BY <3>2, ConstantsAssumption DEF StoreTypeOK, TxnRow
      <4>1. CASE Stored(t)
        <5>1. createdAt'[t] = createdAt[t] /\ createdAt[t] \in Time /\ createdAt[t] <= txn[t].updatedAt
          BY <4>1 DEF StampTransactions, RowsDated
        <5>2. txn[t].updatedAt \in Time /\ txn'[t].updatedAt >= txn[t].updatedAt
          BY <4>1 DEF StoreTypeOK, TxnRow, Stored, RowsGrow
        <5>. QED
          BY <4>0, <5>1, <5>2, TimesOrdered
      <4>2. CASE ~Stored(t)
        <5>1. createdAt'[t] = txn'[t].updatedAt
          BY <3>2, <4>2 DEF StampTransactions
        <5>2. txn'[t].updatedAt <= txn'[t].updatedAt
          BY <4>0, TimeItself
        <5>. QED
          BY <4>0, <5>1, <5>2
      <4>. QED
        BY <4>1, <4>2
    <3>. QED
      BY <3>1, <3>2 DEF RowsDated, Stored
  <2>BatchesDatedKept. ASSUME StoreInd, StoreTypeOK', BatchesDated, BatchesGrow, BatchesStay, RowsStay, ViewKinds,
                              StampBatches
                       PROVE  BatchesDated'
    <3>. USE <2>BatchesDatedKept
    (* The sequences of an old batch, and of a new one. *)
    <3>SequencesStay. ASSUME NEW E, \A t \in E : t \in Txn /\ Stored(t), RowsStay
                      PROVE  {txn'[t].sequence : t \in E} = {txn[t].sequence : t \in E}
      BY <3>SequencesStay DEF RowsStay
    <3>NewBatchEntries. ASSUME StoreInd, ViewKinds, NEW b \in Batch, batch[b] = NULL, batch'[b] # NULL
                        PROVE  /\ batch'[b].entries # {}
                               /\ \A t \in batch'[b].entries : t \in Txn /\ Stored(t)
      <4>. USE <3>NewBatchEntries
      <4>1. ASSUME NoNewBatch
            PROVE  FALSE
        BY <4>1 DEF NoNewBatch
      <4>2. ASSUME batch' = batch
            PROVE  FALSE
        BY <4>2
      <4>3. ASSUME NEW c \in Batch, NEW limit \in Limits, NEW at \in Time,
                   CreateSynchronizationBatch(c, limit, at)
            PROVE  /\ batch'[b].entries # {}
                   /\ \A t \in batch'[b].entries : t \in Txn /\ Stored(t)
        <5>1. c = b
          BY <4>3, CreateSynchronizationBatchStep DEF StoreInd
        <5>2. batch'[b].entries # {} /\ \A t \in batch'[b].entries : Stored(t)
          BY <4>3, <5>1, CreateTouches DEF StoreInd
        <5>3. \A t \in batch'[b].entries : t \in Txn
          BY <4>3, <5>1, CreateSynchronizationBatchStep DEF StoreInd
        <5>. QED
          BY <5>2, <5>3
      <4>4. ASSUME NEW c \in Batch, NEW at \in Time, ApplySynchronizationAcknowledgement(c, at)
            PROVE  FALSE
        BY <4>1, <4>4, ApplySynchronizationAcknowledgementStep DEF StoreInd
      <4>. QED
        BY <4>1, <4>2, <4>3, <4>4 DEF ViewKinds, EnqueueOfflineTransaction, StoreSynchronizationAcknowledgement
    <3>1. batchStored' = [b \in Batch |-> batchStored'[b]]
      BY DEF StampBatches
    <3>2. ASSUME NEW b \in Batch, batch'[b] # NULL
          PROVE  /\ batch'[b].entries # {} /\ \A t \in batch'[b].entries : txn'[t] # NULL
                 /\ batchStored'[b].first = Min(SequencesOf(b)')
                 /\ batchStored'[b].last = Max(SequencesOf(b)')
                 /\ batchStored'[b].createdAt <= batch'[b].updatedAt
                 /\ batchStored'[b].createdAt \in Time
      <4>0. batch'[b].updatedAt \in Time /\ Time \subseteq Nat
        BY <3>2, ConstantsAssumption DEF StoreTypeOK, BatchRow
      <4>. DEFINE E == batch'[b].entries
      <4>1. CASE batch[b] # NULL
        <5>1. /\ E = batch[b].entries /\ E # {} /\ \A t \in E : t \in Txn /\ Stored(t)
              /\ batchStored[b].first = Min(SequencesOf(b)) /\ batchStored[b].last = Max(SequencesOf(b))
              /\ batchStored[b].createdAt <= batch[b].updatedAt /\ batchStored[b].createdAt \in Time
          BY <4>1, EntriesAreTxns DEF BatchesDated, BatchesStay, StoreInd
        <5>2. SequencesOf(b)' = SequencesOf(b)
          BY <5>1, <3>SequencesStay DEF SequencesOf
        <5>3. batchStored'[b] = batchStored[b]
          BY <4>1 DEF StampBatches
        <5>4. \A t \in E : txn'[t] # NULL
          BY <5>1 DEF RowsStay
        <5>5. batch[b].updatedAt \in Time /\ batch'[b].updatedAt >= batch[b].updatedAt
          BY <4>1 DEF StoreInd, StoreTypeOK, BatchRow, BatchesGrow
        <5>6. batchStored[b].createdAt <= batch'[b].updatedAt
          BY <4>0, <5>1, <5>5, TimesOrdered
        <5>. QED
          BY <5>1, <5>2, <5>3, <5>4, <5>6
      <4>2. CASE batch[b] = NULL
        <5>1. E # {} /\ \A t \in E : t \in Txn /\ Stored(t)
          BY <3>2, <4>2, <3>NewBatchEntries
        <5>2. PICK seqs : seqs = {txn[t].sequence : t \in E}
          OBVIOUS
        <5>3. SequencesOf(b)' = seqs
          BY <5>1, <5>2, <3>SequencesStay DEF SequencesOf
        <5>4. batchStored'[b] = [first |-> Min(seqs), last |-> Max(seqs), createdAt |-> batch'[b].updatedAt]
          BY <3>2, <4>2, <5>2 DEF StampBatches
        <5>5. \A t \in E : txn'[t] # NULL
          BY <5>1 DEF RowsStay
        <5>. HIDE DEF E
        <5>6. /\ batchStored'[b].first = Min(seqs) /\ batchStored'[b].last = Max(seqs)
              /\ batchStored'[b].createdAt = batch'[b].updatedAt
          BY <5>4, SMTT(30)
        <5>7. batch'[b].updatedAt <= batch'[b].updatedAt
          BY <4>0, TimeItself
        <5>. QED
          BY <4>0, <5>1, <5>3, <5>5, <5>6, <5>7 DEF E
      <4>. QED
        BY <4>1, <4>2
    <3>. QED
      BY <3>1, <3>2 DEF BatchesDated, Stored
  <2>AcksDatedKept. ASSUME StoreInd, AcksDated, AcksStay, ViewKinds
                    PROVE  AcksDated'
    <3>. USE <2>AcksDatedKept
    <3>1. ASSUME NEW b \in Batch, ack'[b] # NULL
          PROVE  \A t \in DOMAIN ack'[b].outcome : ack'[b].outcome[t].state = "retryable_failure" =>
                   ack'[b].outcome[t].retryAt >= ack'[b].receivedAt
      <4>1. CASE ack[b] # NULL
        BY <4>1 DEF AcksDated, AcksStay
      <4>2. CASE ack[b] = NULL
        <5>1. ack'[b] # ack[b]
          BY <3>1, <4>2
        <5>2. ASSUME NEW c \in Batch, NEW at \in Time, NEW outcome,
                     StoreSynchronizationAcknowledgement(c, at, outcome)
              PROVE  \A t \in DOMAIN ack'[b].outcome : ack'[b].outcome[t].state = "retryable_failure" =>
                       ack'[b].outcome[t].retryAt >= ack'[b].receivedAt
          <6>1. c = b
            BY <5>1, <5>2, StoreSynchronizationAcknowledgementStep DEF StoreInd
          <6>2. ack'[b].receivedAt = at /\ ack'[b].outcome = outcome /\ ValidAcknowledgement(b, at, outcome)
            BY <5>2, <6>1, StoreTouches, SMTT(30) DEF StoreInd
          <6>. QED
            BY <6>2 DEF ValidAcknowledgement
        <5>3. ASSUME NEW c \in Batch, NEW at \in Time, ApplySynchronizationAcknowledgement(c, at)
              PROVE  FALSE
          BY <4>2, <5>1, <5>3, ApplyTouches DEF StoreInd
        <5>. QED
          BY <5>1, <5>2, <5>3 DEF ViewKinds, EnqueueOfflineTransaction, CreateSynchronizationBatch
      <4>. QED
        BY <4>1, <4>2
    <3>. QED
      BY <3>1 DEF AcksDated
  <2>FewBatchesKept. ASSUME StoreInd, FewBatches, ViewKinds
                     PROVE  FewBatches'
    <3>. USE <2>FewBatchesKept
    <3>. DEFINE old == {b \in Batch : batch[b] # NULL}
                new == {b \in Batch : batch'[b] # NULL}
    <3>1. ASSUME NoNewBatch
          PROVE  IsFiniteSet(new)
      <4>1. new \subseteq old
        BY <3>1 DEF NoNewBatch
      <4>. QED
        BY <4>1, FiniteWithOne DEF FewBatches
    <3>2. ASSUME NEW c \in Batch, NEW limit \in Limits, NEW at \in Time,
                 CreateSynchronizationBatch(c, limit, at)
          PROVE  IsFiniteSet(new)
      <4>1. \A b \in Batch : b # c => batch'[b] = batch[b]
        BY <3>2, CreateSynchronizationBatchStep DEF StoreInd
      <4>2. new \subseteq old \cup {c}
        BY <4>1
      <4>. QED
        BY <4>2, FiniteWithOne DEF FewBatches
    <3>3. ASSUME batch' = batch
          PROVE  NoNewBatch
      BY <3>3 DEF NoNewBatch
    <3>4. ASSUME NEW c \in Batch, NEW at \in Time, ApplySynchronizationAcknowledgement(c, at)
          PROVE  NoNewBatch
      BY <3>4, ApplySynchronizationAcknowledgementStep DEF StoreInd
    <3>5. IsFiniteSet(new)
      <4>. HIDE DEF new
      <4>. QED
        BY <3>1, <3>2, <3>3, <3>4 DEF ViewKinds, EnqueueOfflineTransaction, StoreSynchronizationAcknowledgement
    <3>. QED
      BY <3>5 DEF FewBatches
  <2>ReaderDatedKept. ASSUME StoreInd, ReaderDated, reader # NULL, ViewKinds, TouchReader
                      PROVE  ReaderDated'
    <3>. USE <2>ReaderDatedKept
    <3>MaxOfOne. ASSUME NEW n \in Nat
                 PROVE  Max({n}) = n
      <4>. USE <3>MaxOfOne
      <4>1. {n} \subseteq 0..n /\ {n} # {}
        BY SMTT(30)
      <4>2. Max({n}) \in {n}
        BY <4>1, MaxFacts
      <4>. QED
        BY <4>2
    <3>MaxOfTwo. ASSUME NEW m \in Nat, NEW n \in Nat
                 PROVE  Max({m} \cup {n}) \in {m, n} /\ m <= Max({m} \cup {n})
      <4>. USE <3>MaxOfTwo
      <4>1. {m} \cup {n} \subseteq 0..(m + n) /\ {m} \cup {n} # {} /\ m + n \in Nat
        BY SMTT(30)
      <4>2. Max({m} \cup {n}) \in {m} \cup {n} /\ \A y \in {m} \cup {n} : y <= Max({m} \cup {n})
        BY <4>1, MaxFacts
      <4>. QED
        BY <4>2
    <3>. DEFINE enqueued == {t \in Txn : ~Stored(t) /\ txn'[t] # NULL}
                applied == {b \in Batch : /\ ack'[b] # NULL /\ ack'[b] # ack[b]
                                          /\ ack'[b].appliedAt # NULL}
    <3>0. reader.createdAt \in Nat /\ reader.updatedAt \in Nat /\ Time \subseteq Nat
      BY ConstantsAssumption DEF ReaderDated
    <3>1. ASSUME reader' = reader
          PROVE  ReaderDated'
      BY <3>1 DEF ReaderDated
    <3>2. ASSUME NEW at \in Time, reader' = [reader EXCEPT !.updatedAt = at], reader.createdAt <= at
          PROVE  ReaderDated'
      BY <3>2 DEF ReaderDated
    <3>3. ASSUME NEW t \in Txn, NEW at \in Time, EnqueueOfflineTransaction(t, at)
          PROVE  ReaderDated'
      <4>1. /\ txn[t] = NULL /\ txn'[t] # NULL /\ txn'[t].updatedAt = at
            /\ \A u \in Txn : u # t => txn'[u] = txn[u]
        BY <3>3, EnqueueTouches DEF StoreInd
      <4>2. enqueued = {t}
        BY <4>1 DEF Stored
      <4>3. {txn'[u].updatedAt : u \in enqueued} = {at}
        BY <4>1, <4>2
      <4>4. Max({txn'[u].updatedAt : u \in enqueued}) = at
        BY <3>0, <4>3, <3>MaxOfOne
      <4>5. /\ txn'[t].updatedAt >= reader.createdAt
            /\ reader' = [reader EXCEPT !.updatedAt = Max({txn'[u].updatedAt : u \in enqueued})]
        BY <4>2 DEF TouchReader
      <4>6. reader.createdAt <= at
        BY <3>0, <4>1, <4>5
      <4>. QED
        BY <3>2, <4>4, <4>5, <4>6
    <3>4. ASSUME enqueued = {}, lastAcknowledgedSequence' = lastAcknowledgedSequence
          PROVE  ReaderDated'
      <4>1. ~(lastAcknowledgedSequence' > lastAcknowledgedSequence)
        BY <3>4, SMTT(30) DEF StoreInd, StoreTypeOK
      <4>. QED
        BY <3>1, <3>4, <4>1 DEF TouchReader
    <3>5. ASSUME NEW b \in Batch, NEW at \in Time, ApplySynchronizationAcknowledgement(b, at)
          PROVE  ReaderDated'
      <4>1. enqueued = {}
        BY <3>5, ApplySynchronizationAcknowledgementStep DEF StoreInd, NoNewRow
      <4>2. /\ ack[b].appliedAt = NULL /\ ack'[b].appliedAt = at /\ ack'[b] # NULL
            /\ \A c \in Batch : c # b => ack'[c] = ack[c]
        BY <3>5, ApplyTouches, ApplySynchronizationAcknowledgementStep DEF StoreInd
      <4>3. at # NULL
        BY ConstantsAssumption
      <4>4. applied = {b}
        BY <4>2, <4>3
      <4>5. {ack'[c].appliedAt : c \in applied} = {at}
        BY <4>2, <4>4
      <4>6. PICK m : m = Max({reader.updatedAt} \cup {at})
        OBVIOUS
      <4>7. m \in {reader.updatedAt, at} /\ reader.updatedAt <= m
        BY <3>0, <4>6, <3>MaxOfTwo
      <4>8. m \in Time /\ reader.createdAt <= m
        <5>1. m \in Time /\ m \in Nat
          BY <3>0, <4>7 DEF ReaderDated
        <5>2. reader.createdAt <= reader.updatedAt
          BY DEF ReaderDated
        <5>. QED
          BY <3>0, <4>7, <5>1, <5>2, SMTT(30)
      <4>9. reader' = reader \/ reader' = [reader EXCEPT !.updatedAt = m]
        BY <4>1, <4>5, <4>6 DEF TouchReader
      <4>. QED
        BY <3>1, <3>2, <4>8, <4>9
    <3>6. ASSUME NoNewRow
          PROVE  enqueued = {}
      BY <3>6 DEF NoNewRow
    <3>7. ASSUME txn' = txn
          PROVE  enqueued = {}
      BY <3>7 DEF Stored
    <3>8. ASSUME NEW b \in Batch, NEW limit \in Limits, NEW at \in Time,
                 CreateSynchronizationBatch(b, limit, at)
          PROVE  NoNewRow /\ lastAcknowledgedSequence' = lastAcknowledgedSequence
      BY <3>8, CreateSynchronizationBatchStep DEF StoreInd, NoNewAcknowledged
    <3>9. ASSUME NEW b \in Batch, NEW at \in Time, NEW outcome,
                 StoreSynchronizationAcknowledgement(b, at, outcome)
          PROVE  txn' = txn /\ lastAcknowledgedSequence' = lastAcknowledgedSequence
      BY <3>9 DEF StoreSynchronizationAcknowledgement, readerState
    <3>. HIDE DEF enqueued
    <3>. QED
      BY <3>3, <3>4, <3>5, <3>6, <3>7, <3>8, <3>9 DEF ViewKinds
  <2>1. reader # NULL /\ StoreNext /\ TouchReader /\ StampTransactions /\ StampBatches
    BY DEF Recorded
  <2>2. StoreInd' /\ RowsStay /\ BatchesStay
    BY <2>1, NextInv, StepStays DEF ViewInd
  <2>3. StoreTypeOK /\ StoreTypeOK'
    BY <2>2 DEF ViewInd, StoreInd
  <2>4. ViewKinds /\ RowsGrow /\ BatchesGrow /\ AcksStay
    BY <2>1, <2>3, StepKind, <2>StepTouches DEF ViewInd
  <2>. QED
    BY <2>1, <2>2, <2>3, <2>4, <2>ReaderDatedKept, <2>RowsDatedKept, <2>BatchesDatedKept, <2>AcksDatedKept,
       <2>FewBatchesKept
       DEF ViewInd
<1>ViewStart. ASSUME ViewInit
              PROVE  ViewInd
  <2>. USE <1>ViewStart
  <2>1. StoreInd
    BY InitInv DEF ViewInit
  <2>2. /\ reader = NULL /\ \A t \in Txn : txn[t] = NULL
        /\ \A b \in Batch : batch[b] = NULL /\ ack[b] = NULL
        /\ createdAt = [t \in Txn |-> createdAt[t]]
        /\ batchStored = [b \in Batch |-> batchStored[b]]
    BY DEF ViewInit, StoreInit
  <2>3. FewBatches
    <3>1. {b \in Batch : batch[b] # NULL} = {}
      BY <2>2
    <3>. QED
      <4>1. <<>> \in Seq({})
        BY SMTT(30)
      <4>. QED
        BY <3>1, <4>1 DEF FewBatches, IsFiniteSet
  <2>. QED
    BY <2>1, <2>2, <2>3 DEF ViewInd, ReaderDated, RowsDated, BatchesDated, AcksDated, Stored
<1>ViewUnchanged. ASSUME ViewInd, UNCHANGED viewVars
                  PROVE  ViewInd'
  <2>. USE <1>ViewUnchanged
  <2>1. UNCHANGED storeVars /\ UNCHANGED <<reader, createdAt, batchStored>>
    BY DEF viewVars
  <2>2. StoreInd'
    BY <2>1, NextInv DEF ViewInd
  <2>3. UNCHANGED <<txn, batch, ack>>
    BY <2>1 DEF storeVars
  <2>4. ReaderDated' /\ RowsDated'
    BY <2>1, <2>3 DEF ViewInd, ReaderDated, RowsDated, Stored
  <2>5. BatchesDated'
    BY <2>1, <2>3, SMTT(30) DEF ViewInd, BatchesDated, Stored, SequencesOf
  <2>6. AcksDated' /\ FewBatches'
    BY <2>3 DEF ViewInd, AcksDated, FewBatches
  <2>. QED
    BY <2>2, <2>4, <2>5, <2>6 DEF ViewInd
<1>1. ViewInd /\ [ViewNext]_viewVars => ViewInd'
  BY <1>BindInv, <1>RecordedInv, <1>ViewUnchanged DEF ViewNext
<1>. QED
  BY <1>1, <1>ViewStart, PTL DEF ViewSpec

(* What the reader reads back is the store of ReaderStore: binding it changes
   none of its tables, so every theorem about the store holds of the views. *)
THEOREM ViewsRefineStore == ViewSpec => StoreSpec
<1>1. ViewInit => StoreInit
  BY DEF ViewInit
<1>2. [ViewNext]_viewVars => [StoreNext]_storeVars
  BY DEF ViewNext, BindNext, BindReaderDatabase, Recorded, viewVars
<1>. QED
  BY <1>1, <1>2, PTL DEF ViewSpec, StoreSpec

(* The same for a reader that only uses batches. *)
THEOREM BatchViewsRefineStore == BatchViewSpec => BatchSpec /\ ViewSpec
<1>1. ViewInit => StoreInit
  BY DEF ViewInit
<1>2. [BatchViewNext]_viewVars => [BatchNext]_storeVars
  BY DEF BatchViewNext, BindNext, BindReaderDatabase, Recorded, viewVars
<1>3. [BatchViewNext]_viewVars => [ViewNext]_viewVars
  BY DEF BatchViewNext, ViewNext, Recorded, StoreNext
<1>. QED
  BY <1>1, <1>2, <1>3, PTL DEF BatchViewSpec, ViewSpec, BatchSpec

-----------------------------------------------------------------------------
(* Reading back *)

LEMMA EntriesLoad ==
    ASSUME ViewInd, NEW b \in Batch, ack[b] # NULL
    PROVE  DecodeEntries(b) = {ack[b].outcome}
<1>1. batch[b] # NULL /\ ack[b].outcome \in [batch[b].entries -> Resolution]
  BY DEF ViewInd, StoreInd, StoreTypeOK, AckRow
<1>2. DOMAIN ack[b].outcome # {}
  BY <1>1 DEF ViewInd, BatchesDated
<1>3. ASSUME NEW t \in DOMAIN ack[b].outcome
      PROVE  DecodeResolution(ack[b].outcome[t], ack[b].receivedAt) # {}
  <2>1. PICK r \in Resolution : r = ack[b].outcome[t]
    BY <1>1
  <2>2. r.state = "retryable_failure" => r.retryAt >= ack[b].receivedAt
    BY <2>1 DEF ViewInd, AcksDated
  <2>3. IF r.state = "retryable_failure" THEN r.retryAt # NULL ELSE r.retryAt = NULL
    BY ConstantsAssumption DEF Resolution
  <2>. QED
    BY <2>1, <2>2, <2>3 DEF DecodeResolution
<1>. QED
  BY <1>2, <1>3 DEF DecodeEntries

(* Whatever calls were made in whatever order, with whatever timestamps, the
   decoders accept the state of the reader, the queue, every batch and every
   acknowledgement that the store wrote. *)
THEOREM StoredRowsAlwaysLoad == ViewSpec => []StoredRowsLoad
<1>BatchLoads. ASSUME ViewInd, NEW b \in Batch, batch[b] # NULL
               PROVE  LoadSynchronizationBatch(b) # {}
  <2>. USE <1>BatchLoads
  <2>. DEFINE row == SynchronizationBatch(b)
              E == batch[b].entries
  <2>1. /\ E # {} /\ \A t \in E : t \in Txn /\ Stored(t)
        /\ batchStored[b].first = Min(SequencesOf(b)) /\ batchStored[b].last = Max(SequencesOf(b))
        /\ batchStored[b].createdAt <= batch[b].updatedAt /\ batchStored[b].createdAt \in Time
    BY EntriesAreTxns DEF ViewInd, StoreInd, BatchesDated
  <2>2. /\ row.first = Min(SequencesOf(b)) /\ row.last = Max(SequencesOf(b))
        /\ row.createdAt = batchStored[b].createdAt /\ row.updatedAt = batch[b].updatedAt
        /\ row.entries = {[transaction |-> t, sequence |-> txn[t].sequence] : t \in E}
    BY <2>1 DEF SynchronizationBatch
  <2>3. {entry.sequence : entry \in row.entries} = SequencesOf(b)
    <3>1. {entry.sequence : entry \in {[transaction |-> t, sequence |-> txn[t].sequence] : t \in E}}
            = {txn[t].sequence : t \in E}
      <4>1. ASSUME NEW t \in E
            PROVE  [transaction |-> t, sequence |-> txn[t].sequence].sequence = txn[t].sequence
        OBVIOUS
      <4>. QED
        BY <4>1
    <3>. QED
      BY <2>2, <3>1 DEF SequencesOf
  <2>4. SequencesOf(b) # {}
    BY <2>1 DEF SequencesOf
  <2>5. PICK n \in Nat : n = nextLocalSequence
    BY DEF ViewInd, StoreInd, StoreTypeOK
  <2>6. SequencesOf(b) \subseteq 0..n
    BY <2>1, <2>5, SMTT(30) DEF ViewInd, StoreInd, SequenceAllocation, SequencesOf
  <2>7. SequencesOf(b) \subseteq Nat
    BY <2>6, SMTT(30)
  <2>8. PICK low \in Nat, high \in Nat : /\ low = Min(SequencesOf(b)) /\ high = Max(SequencesOf(b))
                                         /\ low <= high
    <3>1. Min(SequencesOf(b)) \in SequencesOf(b) /\ \A y \in SequencesOf(b) : Min(SequencesOf(b)) <= y
      BY <2>4, <2>7, MinFacts
    <3>2. Max(SequencesOf(b)) \in SequencesOf(b)
      BY <2>4, <2>6, MaxFacts
    <3>. QED
      BY <2>7, <3>1, <3>2
  <2>9. row.first <= row.last
    BY <2>2, <2>8
  <2>10. row.updatedAt >= row.createdAt
    <3>1. batch[b].updatedAt \in Nat /\ batchStored[b].createdAt \in Nat
      BY <2>1, ConstantsAssumption DEF ViewInd, StoreInd, StoreTypeOK, BatchRow
    <3>. QED
      BY <2>1, <2>2, <3>1
  <2>. HIDE DEF row
  <2>11. row \in DecodeStoredBatch(b)
    BY <2>2, <2>3, <2>4, <2>9, <2>10 DEF DecodeStoredBatch, row
  <2>. QED
    BY <2>11 DEF LoadSynchronizationBatch
<1>1. ViewInd => StoredRowsLoad
  <2>. SUFFICES ASSUME ViewInd, reader # NULL
                PROVE  /\ DecodeStoredState # {}
                       /\ LoadOfflineQueue # {}
                       /\ \A b \in Batch : /\ batch[b] # NULL => LoadSynchronizationBatch(b) # {}
                                           /\ ack[b] # NULL => DecodeEntries(b) # {}
    BY DEF StoredRowsLoad
  <2>1. DecodeStoredState # {}
    <3>. DEFINE s == ReaderDatabaseState
    <3>1. /\ s.nextLocalSequence = nextLocalSequence
          /\ s.lastAcknowledgedSequence = lastAcknowledgedSequence
          /\ s.createdAt = reader.createdAt /\ s.updatedAt = reader.updatedAt
      BY DEF ReaderDatabaseState
    <3>2. /\ reader.createdAt \in Nat /\ reader.updatedAt \in Nat
          /\ reader.createdAt <= reader.updatedAt
      BY ConstantsAssumption DEF ViewInd, ReaderDated
    <3>3. /\ nextLocalSequence \in Nat /\ lastAcknowledgedSequence \in Nat
          /\ lastAcknowledgedSequence < nextLocalSequence
      BY DEF ViewInd, StoreInd, StoreTypeOK, HighWaterMarkSound
    <3>. HIDE DEF s
    <3>4. s.nextLocalSequence > 0 /\ s.lastAcknowledgedSequence < s.nextLocalSequence
          /\ s.updatedAt >= s.createdAt
      BY <3>1, <3>2, <3>3, SMTT(30)
    <3>5. s \in DecodeStoredState
      BY <3>4 DEF DecodeStoredState, s
    <3>. QED
      BY <3>5
  <2>2. ASSUME NEW t \in Txn, Stored(t)
        PROVE  DecodeStoredTransaction(t) # {}
    <3>. DEFINE row == QueuedOfflineTransaction(t)
    <3>1. row.sequence = txn[t].sequence /\ row.createdAt = createdAt[t]
          /\ row.updatedAt = txn[t].updatedAt
      BY DEF QueuedOfflineTransaction
    <3>2. txn[t].updatedAt \in Nat /\ createdAt[t] \in Nat /\ createdAt[t] <= txn[t].updatedAt
      BY <2>2, ConstantsAssumption DEF ViewInd, StoreInd, StoreTypeOK, Stored, TxnRow, RowsDated
    <3>3. txn[t].sequence \in 1..(nextLocalSequence - 1) /\ nextLocalSequence \in Nat
      BY <2>2 DEF ViewInd, StoreInd, SequenceAllocation, StoreTypeOK
    <3>. HIDE DEF row
    <3>4. row.sequence > 0 /\ row.updatedAt >= row.createdAt
      BY <3>1, <3>2, <3>3, SMTT(30)
    <3>5. row \in DecodeStoredTransaction(t)
      BY <3>4 DEF DecodeStoredTransaction, row
    <3>. QED
      BY <3>5
  <2>3. LoadOfflineQueue # {}
    BY <2>2 DEF LoadOfflineQueue
  <2>. QED
    BY <2>1, <2>3, <1>BatchLoads, EntriesLoad
<1>. QED
  BY <1>1, ViewInvariant, PTL

-----------------------------------------------------------------------------
(* Every acknowledged transaction is reported once *)

(* The transactions that the acknowledgement of a batch acknowledges. *)
AckedBy(b) == {t \in DOMAIN ack[b].outcome : ack[b].outcome[t].state = "acknowledged"}

CreditedOnce ==
    \A b \in AppliedBatches :
      /\ \A t \in AckedBy(b) : t \in Txn /\ Stored(t) /\ txn[t].state = "acknowledged"
      /\ \A c \in AppliedBatches : b # c => AckedBy(b) \cap AckedBy(c) = {}

LEMMA CreditsInvariant == ViewSpec => []CreditedOnce
<1>StepCredits. ASSUME StoreInd, CreditedOnce, [StoreNext]_storeVars
                PROVE  CreditedOnce'
  <2>. USE <1>StepCredits
  <2>CreditsKept. ASSUME CreditedOnce, RowsStay,
                         AppliedBatches' = AppliedBatches,
                         \A b \in AppliedBatches : AckedBy(b)' = AckedBy(b)
                  PROVE  CreditedOnce'
    <3>. USE <2>CreditsKept
    <3>1. \A t \in Txn : Stored(t) /\ txn[t].state = "acknowledged"
            => txn'[t] # NULL /\ txn'[t].state = "acknowledged"
      BY DEF RowsStay, FinalState
    <3>. QED
      BY <3>1 DEF CreditedOnce, Stored
  <2>ApplyCredits. ASSUME StoreInd, CreditedOnce, NEW b \in Batch, NEW at \in Time,
                          ApplySynchronizationAcknowledgement(b, at)
                   PROVE  CreditedOnce'
    <3>. USE <2>ApplyCredits
    <3>0. StoreTypeOK /\ SubmissionTimed
      BY DEF StoreInd
    <3>1. /\ RowsStay
          /\ AcksStay
          /\ ack[b] # NULL /\ ack[b].appliedAt = NULL /\ ack'[b].appliedAt = at
          /\ \A c \in Batch : c # b => ack'[c] = ack[c]
          /\ \A t \in batch[b].entries : t \in Txn /\ InFlightBefore(txn[t], at)
      BY <3>0, ApplyTouches, ApplySynchronizationAcknowledgementStep
    <3>2. at # NULL
      BY ConstantsAssumption
    <3>3. AppliedBatches' = AppliedBatches \cup {b} /\ b \notin AppliedBatches
      BY <3>1, <3>2 DEF AppliedBatches, AcksStay
    <3>4. \A c \in AppliedBatches' : AckedBy(c)' = AckedBy(c)
      BY <3>1, <3>3 DEF AckedBy, AcksStay, AppliedBatches
    <3>5. DOMAIN ack[b].outcome = batch[b].entries
      BY <3>0, <3>1 DEF StoreTypeOK, AckRow
    <3>6. \A t \in AckedBy(b) : /\ t \in Txn /\ txn[t].state = "in_flight"
                                /\ txn'[t] # NULL /\ txn'[t].state = "acknowledged"
      <4>. TAKE t \in AckedBy(b)
      <4>1. t \in batch[b].entries /\ t \in Txn /\ InFlightBefore(txn[t], at)
        BY <3>1, <3>5 DEF AckedBy
      <4>2. txn'[t] = SetState(txn[t], "acknowledged", ack[b].outcome[t].retryAt, at)
        BY <4>1, <3>5 DEF ApplySynchronizationAcknowledgement, ApplyEntries, ApplyOutcome, AckedBy
      <4>3. txn[t] \in TxnRow /\ txn[t].state = "in_flight" /\ Stored(t)
        BY <4>1, <3>0 DEF InFlightBefore, StoreTypeOK, Stored
      <4>4. txn'[t].state = "acknowledged"
        BY <4>2, <4>3 DEF SetState, TxnRow
      <4>. QED
        BY <3>1, <4>1, <4>3, <4>4 DEF RowsStay
    <3>7. \A c \in AppliedBatches : AckedBy(b) \cap AckedBy(c) = {}
      BY <3>6 DEF CreditedOnce
    <3>8. \A t \in Txn : Stored(t) /\ txn[t].state = "acknowledged"
            => txn'[t] # NULL /\ txn'[t].state = "acknowledged"
      BY <3>1 DEF RowsStay, FinalState
    <3>9. ASSUME NEW c \in AppliedBatches', NEW t \in AckedBy(c)
          PROVE  t \in Txn /\ txn'[t] # NULL /\ txn'[t].state = "acknowledged"
      BY <3>3, <3>6, <3>8, <3>9 DEF CreditedOnce
    <3>10. ASSUME NEW c \in AppliedBatches', NEW d \in AppliedBatches', c # d
           PROVE  AckedBy(c) \cap AckedBy(d) = {}
      BY <3>3, <3>7, <3>10 DEF CreditedOnce
    <3>. QED
      BY <3>4, <3>9, <3>10 DEF CreditedOnce, Stored
  <2>0. RowsStay
    BY StepStays
  <2>1. ASSUME UNCHANGED ack
        PROVE  CreditedOnce'
    BY <2>0, <2>1, <2>CreditsKept DEF AppliedBatches, AckedBy
  <2>2. ASSUME NEW b \in Batch, NEW at \in Time, NEW outcome,
               StoreSynchronizationAcknowledgement(b, at, outcome)
        PROVE  CreditedOnce'
    <3>1. PICK row : row = [receivedAt |-> at, outcome |-> outcome, appliedAt |-> NULL]
      OBVIOUS
    <3>2. ack[b] = NULL /\ ack' = [ack EXCEPT ![b] = row] /\ DOMAIN ack = Batch
      BY <2>2, <3>1 DEF StoreSynchronizationAcknowledgement, StoreInd, StoreTypeOK
    <3>3. row.appliedAt = NULL
      BY <3>1
    <3>4. AppliedBatches' = AppliedBatches
      BY <3>2, <3>3 DEF AppliedBatches
    <3>5. \A c \in AppliedBatches : ack'[c] = ack[c]
      BY <3>2 DEF AppliedBatches
    <3>. QED
      BY <2>0, <3>4, <3>5, <2>CreditsKept DEF AckedBy
  <2>3. CASE StoreNext
    <3>1. ViewKinds
      BY <2>3, StepKind
    <3>2. ASSUME NEW t \in Txn, NEW at \in Time, EnqueueOfflineTransaction(t, at)
          PROVE  UNCHANGED ack
      BY <3>2 DEF EnqueueOfflineTransaction
    <3>3. ASSUME NEW b \in Batch, NEW limit \in Limits, NEW at \in Time,
                 CreateSynchronizationBatch(b, limit, at)
          PROVE  UNCHANGED ack
      BY <3>3 DEF CreateSynchronizationBatch
    <3>. QED
      BY <2>1, <2>2, <3>1, <3>2, <3>3, <2>ApplyCredits DEF ViewKinds
  <2>4. CASE UNCHANGED storeVars
    BY <2>1, <2>4 DEF storeVars
  <2>. QED
    BY <2>3, <2>4
<1>1. StoreInit => CreditedOnce
  BY DEF StoreInit, CreditedOnce, AppliedBatches
<1>2. StoreInd /\ CreditedOnce /\ [StoreNext]_storeVars => CreditedOnce'
  BY <1>StepCredits
<1>. QED
  BY <1>1, <1>2, ViewsRefineStore, StoreInvariant, PTL DEF StoreSpec

-----------------------------------------------------------------------------
(* Rest *)

Unresolved == {t \in Txn : Stored(t) /\ txn[t].state \in UnresolvedStates}

(* No operation has anything left to work on. *)
AtRest ==
    /\ Unresolved = {}
    /\ \A b \in Batch : batch[b] # NULL => batch[b].state \notin ActiveStates
    /\ \A b \in Batch : ack[b] # NULL => ack[b].appliedAt # NULL

LEMMA RestingStep ==
    ASSUME StoreTypeOK, AtRest, StoreNext
    PROVE  nextLocalSequence' # nextLocalSequence \/ UNCHANGED storeVars
<1>RestingRows. ASSUME StoreTypeOK, AtRest, NEW t \in Txn, NEW at
                PROVE  ~InFlightBefore(txn[t], at) /\ (Stored(t) => ~IsReady(txn[t], at))
  <2>. USE <1>RestingRows
  <2>1. Stored(t) => txn[t].state \in QueueState
    BY DEF StoreTypeOK, TxnRow, Stored
  <2>2. Stored(t) => txn[t].state \notin UnresolvedStates
    BY DEF AtRest, Unresolved
  <2>. QED
    BY <2>1, <2>2 DEF InFlightBefore, IsReady, Stored, QueueState, UnresolvedStates
<1>RestingBatches. ASSUME StoreTypeOK, AtRest, NEW b \in Batch, NEW at
                   PROVE  ~InFlightBefore(batch[b], at) /\ (batch[b] # NULL => ~IsReady(batch[b], at))
  <2>. USE <1>RestingBatches
  <2>1. batch[b] # NULL => batch[b].state \in BatchState
    BY DEF StoreTypeOK, BatchRow
  <2>2. batch[b] # NULL => batch[b].state \notin ActiveStates
    BY DEF AtRest
  <2>. QED
    BY <2>1, <2>2 DEF InFlightBefore, IsReady, BatchState, ActiveStates
<1>0. ASSUME NEW t \in Txn, RowNext(t)
      PROVE  FALSE
  BY <1>0, <1>RestingRows DEF RowNext, MarkOfflineTransactionInFlight, RecordRetryableQueueFailure,
                           RecordFinalQueueFailure
<1>1. ASSUME NEW t \in Txn, NEW at \in Time, EnqueueOfflineTransaction(t, at)
      PROVE  nextLocalSequence' # nextLocalSequence
  <2>1. nextLocalSequence \in Nat /\ nextLocalSequence' = nextLocalSequence + 1
    BY <1>1 DEF EnqueueOfflineTransaction, StoreTypeOK
  <2>. QED
    BY <2>1, SMTT(30)
<1>2. ASSUME NEW at \in Time, RecoverInterruptedSynchronizationBatches(at)
      PROVE  UNCHANGED storeVars
  <2>1. batch' = [b \in Batch |-> batch[b]] /\ batch = [b \in Batch |-> batch[b]]
    BY <1>2, <1>RestingBatches DEF RecoverInterruptedSynchronizationBatches, StoreTypeOK
  <2>. QED
    BY <1>2, <2>1 DEF RecoverInterruptedSynchronizationBatches, storeVars, readerState
<1>3. ASSUME NEW at \in Time, RecoverInterruptedOfflineQueue(at)
      PROVE  UNCHANGED storeVars
  <2>1. txn' = [t \in Txn |-> txn[t]] /\ txn = [t \in Txn |-> txn[t]]
    BY <1>3, <1>RestingRows DEF RecoverInterruptedOfflineQueue, StoreTypeOK
  <2>. QED
    BY <1>3, <2>1 DEF RecoverInterruptedOfflineQueue, storeVars, readerState
<1>4. ASSUME NEW b \in Batch, NEW limit \in Limits, NEW at \in Time,
             CreateSynchronizationBatch(b, limit, at)
      PROVE  FALSE
  <2>1. Candidates(at) = {}
    BY <1>RestingRows DEF Candidates
  <2>. QED
    BY <1>4, <2>1 DEF CreateSynchronizationBatch, FirstBySequence
<1>5. ASSUME NEW b \in Batch, NEW at \in Time, MarkSynchronizationBatchInFlight(b, at)
      PROVE  FALSE
  BY <1>5, <1>RestingBatches DEF MarkSynchronizationBatchInFlight
<1>6. ASSUME NEW b \in Batch, NEW at \in Time, NEW retryAt \in Time,
             RecordSynchronizationRetryableFailure(b, at, retryAt)
      PROVE  FALSE
  BY <1>6, <1>RestingBatches DEF RecordSynchronizationRetryableFailure
<1>7. ASSUME NEW b \in Batch, NEW at \in Time, NEW state \in FinalFailure,
             RecordFinalSynchronizationFailure(b, state, at)
      PROVE  FALSE
  BY <1>7, <1>RestingBatches DEF RecordFinalSynchronizationFailure
<1>8. ASSUME NEW b \in Batch, NEW at \in Time, NEW outcome,
             StoreSynchronizationAcknowledgement(b, at, outcome)
      PROVE  FALSE
  BY <1>8 DEF StoreSynchronizationAcknowledgement, AtRest, ActiveStates
<1>9. ASSUME NEW b \in Batch, NEW at \in Time, ApplySynchronizationAcknowledgement(b, at)
      PROVE  FALSE
  BY <1>9, <1>RestingBatches DEF ApplySynchronizationAcknowledgement
<1>. QED
  BY <1>0, <1>1, <1>2, <1>3, <1>4, <1>5, <1>6, <1>7, <1>8, <1>9 DEF StoreNext, BatchNext

LEMMA RestingColumns ==
    ASSUME ViewInd, UNCHANGED storeVars, TouchReader, StampTransactions, StampBatches
    PROVE  UNCHANGED viewVars
<1>1. /\ UNCHANGED <<txn, batch, ack>> /\ lastAcknowledgedSequence' = lastAcknowledgedSequence
      /\ lastAcknowledgedSequence \in Nat
  BY DEF storeVars, ViewInd, StoreInd, StoreTypeOK
<1>2. reader' = reader
  <2>1. {t \in Txn : ~Stored(t) /\ txn'[t] # NULL} = {}
    BY <1>1 DEF Stored
  <2>2. ~(lastAcknowledgedSequence' > lastAcknowledgedSequence)
    BY <1>1, SMTT(30)
  <2>. QED
    BY <2>1, <2>2 DEF TouchReader
<1>3. createdAt' = createdAt
  BY <1>1 DEF StampTransactions, Stored, ViewInd, RowsDated
<1>4. batchStored' = batchStored
  BY <1>1 DEF StampBatches, ViewInd, BatchesDated
<1>. QED
  BY <1>2, <1>3, <1>4 DEF viewVars

-----------------------------------------------------------------------------
(* Ready batches *)

(* No entry of an active batch was updated after the batch. *)
EntriesNotLater ==
    \A b \in Batch : Active(b) =>
      \A t \in batch[b].entries : txn[t].updatedAt <= batch[b].updatedAt

LEMMA ReservedViews == BatchViewSpec => []ActiveEntriesInFlight
<1>1. BatchSpec => PipelineSpec
  <2>1. [BatchNext]_storeVars => [PipelineNext]_storeVars
    BY DEF PipelineNext
  <2>. QED
    BY <2>1, PTL DEF BatchSpec, PipelineSpec
<1>. QED
  BY <1>1, BatchViewsRefineStore, ReservationCorrect, PTL

(* While the reader uses only batches, what load_ready_synchronization_batches
   lists can be submitted unless the caller's clock went back behind the batch,
   and what load_ready_offline_transactions lists is what the next batch takes. *)
THEOREM ReadyAlwaysUsable == BatchViewSpec => []ReadyIsUsable
<1>NotLaterInvariant. BatchViewSpec => []EntriesNotLater
  <2>BatchNextNotLater. ASSUME StoreInd, StoreTypeOK', ActiveEntriesInFlight, EntriesNotLater, BatchNext
                        PROVE  EntriesNotLater'
    <3>. USE <2>BatchNextNotLater
    <3>NotLaterKept. ASSUME StoreTypeOK, StoreTypeOK', ActiveEntriesInFlight, EntriesNotLater,
                            NEW at \in Time, TouchedAt(at), BatchesStay, NoNewBatch,
                            \A b \in Batch : Active(b) /\ Active(b)' /\ batch'[b] = batch[b] =>
                              \A t \in batch[b].entries : txn'[t] = txn[t]
                     PROVE  EntriesNotLater'
      <4>. USE <3>NotLaterKept
      <4>. SUFFICES ASSUME NEW b \in Batch, Active(b)', NEW t \in batch'[b].entries
                    PROVE  txn'[t].updatedAt <= batch'[b].updatedAt
        BY DEF EntriesNotLater
      <4>1. Active(b) /\ batch[b] # NULL /\ t \in batch[b].entries
        BY ActiveBefore DEF Active
      <4>2. t \in Txn /\ Stored(t)
        BY <4>1, EntriesAreTxns DEF ActiveEntriesInFlight
      <4>3. PICK row \in Time : row = txn[t].updatedAt
        BY <4>2 DEF StoreTypeOK, TxnRow, Stored
      <4>4. PICK own \in Time : own = batch[b].updatedAt
        BY <4>1 DEF StoreTypeOK, BatchRow
      <4>5. row <= own
        BY <4>1, <4>3, <4>4 DEF EntriesNotLater
      <4>6. CASE batch'[b] = batch[b]
        <5>1. txn'[t] = txn[t]
          BY <4>1, <4>6
        <5>. QED
          BY <4>3, <4>4, <4>5, <4>6, <5>1
      <4>7. CASE batch'[b] # batch[b]
        <5>1. own <= at /\ batch'[b].updatedAt = at
          BY <4>1, <4>4, <4>7 DEF TouchedAt
        <5>2. txn'[t].updatedAt \in {row, at}
          BY <4>2, <4>3 DEF TouchedAt
        <5>3. row <= at /\ at <= at
          BY <4>5, <5>1, TimesOrdered, TimeItself, SMTT(30)
        <5>. QED
          BY <5>1, <5>2, <5>3
      <4>. QED
        BY <4>6, <4>7
    <3>0. PICK at \in Time :
           \/ \E t \in Txn : EnqueueOfflineTransaction(t, at)
           \/ RecoverInterruptedSynchronizationBatches(at)
           \/ RecoverInterruptedOfflineQueue(at)
           \/ \E b \in Batch :
                \/ \E limit \in Limits : CreateSynchronizationBatch(b, limit, at)
                \/ MarkSynchronizationBatchInFlight(b, at)
                \/ \E retryAt \in Time : RecordSynchronizationRetryableFailure(b, at, retryAt)
                \/ \E state \in FinalFailure : RecordFinalSynchronizationFailure(b, state, at)
                \/ \E outcome : StoreSynchronizationAcknowledgement(b, at, outcome)
                \/ ApplySynchronizationAcknowledgement(b, at)
      BY DEF BatchNext
    <3>. StoreTypeOK /\ SubmissionTimed
      BY DEF StoreInd
    <3>1. ASSUME NEW t \in Txn, EnqueueOfflineTransaction(t, at)
          PROVE  EntriesNotLater'
      <4>1. TouchedAt(at) /\ txn[t] = NULL /\ batch' = batch /\ \A u \in Txn : u # t => txn'[u] = txn[u]
        BY <3>1, EnqueueTouches
      <4>2. \A b \in Batch : Active(b) => \A u \in batch[b].entries : u \in Txn /\ u # t
        BY <4>1, EntriesAreTxns DEF ActiveEntriesInFlight, Active, Stored
      <4>. QED
        BY <4>1, <4>2, BatchesUnchanged, <3>NotLaterKept
    <3>2. ASSUME RecoverInterruptedSynchronizationBatches(at)
          PROVE  EntriesNotLater'
      <4>1. txn' = txn
        BY <3>2 DEF RecoverInterruptedSynchronizationBatches
      <4>. QED
        BY <3>2, <4>1, RecoverInterruptedSynchronizationBatchesStep, RecoverBatchesTouches, <3>NotLaterKept
    <3>3. ASSUME RecoverInterruptedOfflineQueue(at)
          PROVE  EntriesNotLater'
      <4>1. batch' = batch /\ \A t \in Txn : InActiveBatch(t) => txn'[t] = txn[t]
        BY <3>3 DEF RecoverInterruptedOfflineQueue
      <4>2. \A b \in Batch : Active(b) => \A t \in batch[b].entries : txn'[t] = txn[t]
        BY <4>1, EntriesAreTxns DEF InActiveBatch, Active
      <4>. QED
        BY <3>3, <4>1, <4>2, BatchesUnchanged, RecoverQueueTouches, <3>NotLaterKept
    <3>4. ASSUME NEW b \in Batch, NEW limit \in Limits, CreateSynchronizationBatch(b, limit, at)
          PROVE  EntriesNotLater'
      <4>1. /\ \A t \in batch'[b].entries : t \in Txn /\ ~InActiveBatch(t)
            /\ \A t \in Txn : t \notin batch'[b].entries => txn'[t] = txn[t]
            /\ \A c \in Batch : c # b => batch'[c] = batch[c]
        BY <3>4, CreateSynchronizationBatchStep
      <4>2. batch'[b].updatedAt = at /\ \A t \in batch'[b].entries : txn'[t].updatedAt = at
        BY <3>4, CreateTouches
      <4>3. ASSUME NEW c \in Batch, Active(c)', NEW t \in batch'[c].entries
            PROVE  txn'[t].updatedAt <= batch'[c].updatedAt
        <5>1. CASE c = b
          BY <4>2, <4>3, <5>1, TimeItself
        <5>2. CASE c # b
          <6>1. batch'[c] = batch[c] /\ Active(c) /\ t \in batch[c].entries
            BY <4>1, <4>3, <5>2 DEF Active
          <6>2. t \in Txn /\ InActiveBatch(t)
            BY <6>1, EntriesAreTxns DEF InActiveBatch, Active
          <6>3. txn'[t] = txn[t]
            BY <4>1, <6>2
          <6>. QED
            BY <6>1, <6>3 DEF EntriesNotLater
        <5>. QED
          BY <5>1, <5>2
      <4>. QED
        BY <4>3 DEF EntriesNotLater
    <3>5. ASSUME NEW b \in Batch, MarkSynchronizationBatchInFlight(b, at)
          PROVE  EntriesNotLater'
      <4>1. /\ TouchedAt(at) /\ batch'[b].attempts = batch[b].attempts + 1 /\ batch[b] # NULL
            /\ \A t \in Txn : t \notin batch[b].entries => txn'[t] = txn[t]
        BY <3>5, MarkTouches
      <4>2. Active(b)
        BY <3>5 DEF MarkSynchronizationBatchInFlight, StoreTypeOK, IsReady, Active, ActiveStates,
                    BatchRow, BatchState
      <4>3. batch'[b] # batch[b]
        <5>1. batch[b].attempts \in Nat
          BY <4>1 DEF StoreTypeOK, BatchRow
        <5>. QED
          BY <4>1, <5>1, SMTT(30)
      <4>4. \A c \in Batch : Active(c) /\ batch'[c] = batch[c] =>
              \A t \in batch[c].entries : t \in Txn /\ t \notin batch[b].entries
        BY <4>2, <4>3, EntriesAreTxns DEF StoreInd, OneActiveBatch, Active
      <4>. QED
        BY <3>5, <4>1, <4>4, MarkSynchronizationBatchInFlightStep, <3>NotLaterKept
    <3>6. ASSUME NEW b \in Batch, NEW retryAt \in Time,
                 RecordSynchronizationRetryableFailure(b, at, retryAt)
          PROVE  EntriesNotLater'
      <4>1. txn' = txn
        BY <3>6 DEF RecordSynchronizationRetryableFailure
      <4>. QED
        BY <3>6, <4>1, RecordSynchronizationRetryableFailureStep, RecordRetryTouches, <3>NotLaterKept
    <3>7. ASSUME NEW b \in Batch, Active(b), ~Active(b)', TouchedAt(at), BatchesStay, NoNewBatch,
                 \A t \in Txn : t \notin batch[b].entries => txn'[t] = txn[t]
          PROVE  EntriesNotLater'
      <4>1. \A c \in Batch : Active(c) /\ Active(c)' =>
              \A t \in batch[c].entries : t \in Txn /\ t \notin batch[b].entries
        BY <3>7, EntriesAreTxns DEF StoreInd, OneActiveBatch, Active
      <4>. QED
        BY <3>7, <4>1, <3>NotLaterKept
    <3>8. ASSUME NEW b \in Batch, NEW state \in FinalFailure,
                 RecordFinalSynchronizationFailure(b, state, at)
          PROVE  EntriesNotLater'
      <4>1. Active(b)
        BY <3>8 DEF RecordFinalSynchronizationFailure, InFlightBefore, Active, ActiveStates
      <4>2. ~Active(b)'
        BY <3>8, RecordFinalSynchronizationFailureStep DEF Active, ActiveStates, FinalFailure
      <4>. QED
        BY <3>7, <3>8, <4>1, <4>2, RecordFinalSynchronizationFailureStep, RecordFinalTouches
    <3>9. ASSUME NEW b \in Batch, NEW outcome, StoreSynchronizationAcknowledgement(b, at, outcome)
          PROVE  EntriesNotLater'
      BY <3>9 DEF StoreSynchronizationAcknowledgement, EntriesNotLater, Active
    <3>10. ASSUME NEW b \in Batch, ApplySynchronizationAcknowledgement(b, at)
           PROVE  EntriesNotLater'
      <4>1. Active(b)
        BY <3>10 DEF ApplySynchronizationAcknowledgement, InFlightBefore, Active, ActiveStates
      <4>2. ~Active(b)'
        BY <3>10, ApplySynchronizationAcknowledgementStep DEF Active, ActiveStates
      <4>3. \A t \in Txn : t \notin batch[b].entries => txn'[t] = txn[t]
        BY <3>10, ApplySynchronizationAcknowledgementStep
      <4>. QED
        BY <3>7, <3>10, <4>1, <4>2, <4>3, ApplySynchronizationAcknowledgementStep, ApplyTouches
    <3>. QED
      BY <3>0, <3>1, <3>2, <3>3, <3>4, <3>5, <3>6, <3>8, <3>9, <3>10
  <2>1. StoreInit => EntriesNotLater
    BY DEF StoreInit, EntriesNotLater, Active
  <2>2. StoreInd /\ StoreInd' /\ ActiveEntriesInFlight /\ EntriesNotLater /\ [BatchNext]_storeVars
          => EntriesNotLater'
    <3>1. UNCHANGED storeVars /\ EntriesNotLater => EntriesNotLater'
      BY DEF storeVars, EntriesNotLater, Active
    <3>2. StoreInd' => StoreTypeOK'
      BY DEF StoreInd
    <3>. QED
      BY <3>1, <3>2, <2>BatchNextNotLater
  <2>3. BatchViewSpec => []StoreInd
    BY BatchViewsRefineStore, ViewsRefineStore, StoreInvariant, PTL
  <2>. QED
    BY <2>1, <2>2, <2>3, ReservedViews, BatchViewsRefineStore, PTL DEF BatchSpec
<1>ReadyBatch. ASSUME StoreTypeOK, ActiveEntriesInFlight, EntriesNotLater,
                      NEW b \in Batch, batch[b] # NULL, NEW at \in Time, IsReady(batch[b], at),
                      batch[b].updatedAt <= at, NEW t \in batch[b].entries
               PROVE  InFlightBefore(txn[t], at)
  <2>. USE <1>ReadyBatch
  <2>1. Active(b)
    BY DEF StoreTypeOK, IsReady, Active, ActiveStates, BatchRow, BatchState
  <2>2. t \in Txn /\ Stored(t) /\ txn[t].state = "in_flight" /\ txn[t].updatedAt <= batch[b].updatedAt
    BY <2>1, EntriesAreTxns DEF ActiveEntriesInFlight, EntriesNotLater
  <2>3. PICK row \in Time : row = txn[t].updatedAt
    BY <2>2 DEF StoreTypeOK, TxnRow, Stored
  <2>4. PICK own \in Time : own = batch[b].updatedAt
    BY DEF StoreTypeOK, BatchRow
  <2>5. row <= at
    BY <2>2, <2>3, <2>4, TimesOrdered
  <2>. QED
    BY <2>2, <2>3, <2>5 DEF InFlightBefore, Stored
<1>ReadyRows. ASSUME ActiveEntriesInFlight, NEW at
              PROVE  {t \in Txn : Stored(t) /\ IsReady(txn[t], at)} = Candidates(at)
  <2>. USE <1>ReadyRows
  <2>1. ASSUME NEW t \in Txn, InActiveBatch(t)
        PROVE  ~IsReady(txn[t], at)
    <3>1. txn[t].state = "in_flight"
      BY <2>1 DEF InActiveBatch, ActiveEntriesInFlight
    <3>. QED
      BY <3>1 DEF IsReady
  <2>. QED
    BY <2>1 DEF Candidates
<1>1. StoreTypeOK /\ ActiveEntriesInFlight /\ EntriesNotLater => ReadyIsUsable
  <2>. SUFFICES ASSUME StoreTypeOK, ActiveEntriesInFlight, EntriesNotLater,
                       NEW at \in Time, NEW limit \in Limits
                PROVE  /\ \A ready \in LoadReadySynchronizationBatches(at, limit) :
                            \A b \in ready : batch[b].updatedAt <= at =>
                              \A t \in batch[b].entries : InFlightBefore(txn[t], at)
                       /\ \A ready \in LoadReadyOfflineTransactions(at, limit) :
                            ready = FirstBySequence(Candidates(at), limit)
    BY DEF ReadyIsUsable
  <2>1. ASSUME NEW ready \in LoadReadySynchronizationBatches(at, limit), NEW b \in ready
        PROVE  b \in Batch /\ batch[b] # NULL /\ IsReady(batch[b], at)
    BY <2>1 DEF LoadReadySynchronizationBatches
  <2>2. ASSUME NEW ready \in LoadReadyOfflineTransactions(at, limit)
        PROVE  ready = FirstBySequence(Candidates(at), limit)
    <3>1. PICK queue \in LoadOfflineQueue :
            ready = FirstBySequence({t \in queue : IsReady(txn[t], at)}, limit)
      BY DEF LoadReadyOfflineTransactions
    <3>2. queue = {t \in Txn : Stored(t)}
      BY DEF LoadOfflineQueue
    <3>3. {t \in queue : IsReady(txn[t], at)} = {t \in Txn : Stored(t) /\ IsReady(txn[t], at)}
      BY <3>2
    <3>. QED
      BY <3>1, <3>3, <1>ReadyRows
  <2>. QED
    BY <2>1, <2>2, <1>ReadyBatch
<1>2. BatchViewSpec => []StoreTypeOK
  BY BatchViewsRefineStore, ViewsRefineStore, TypeCorrect, PTL
<1>. QED
  BY <1>1, <1>2, ReservedViews, <1>NotLaterInvariant, PTL

=============================================================================

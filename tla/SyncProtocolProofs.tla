------------------------- MODULE SyncProtocolProofs -------------------------
(***************************************************************************)
(* Proofs about SyncProtocol, for every set of transactions, batches,      *)
(* submissions, identities and timestamps and every bound.                 *)
(*                                                                         *)
(* The argument: a batch that was submitted is built into the same request *)
(* ever after, so every request on the wire, every row of the backend and  *)
(* every fingerprint of a batch stem from one request, and every answer    *)
(* from the acknowledgement that was committed with it (SyncInd).  Here    *)
(* are the lemmas about requests and about the queue, and one lemma per    *)
(* action; SyncProtocolTheorems has the invariant and the theorems.        *)
(***************************************************************************)
EXTENDS SyncProtocol, ReaderStoreProofs, TLAPS

(* Zenon proves the leaves that cite no other prover. *)
USE ZenonT(30)

-----------------------------------------------------------------------------
(* The inductive invariant: the store *)

(* The entries of every batch are stored; those of a batch that has come to its
   end share its state. *)
EntriesSettled ==
    \A b \in Batch : batch[b] # NULL =>
      /\ batch[b].entries # {}
      /\ \A t \in batch[b].entries :
           /\ Stored(t)
           /\ batch[b].state \in FinalState => txn[t].state = batch[b].state

(* The backend accepts every entry of a batch, so that none comes back for a
   second batch. *)
DisjointBatches ==
    \A b, c \in Batch : batch[b] # NULL /\ batch[c] # NULL /\ b # c =>
      batch[b].entries \cap batch[c].entries = {}

FailedHasBatch ==
    \A t \in Txn : Stored(t) /\ txn[t].state = "permanent_failure" =>
      \E b \in Batch : /\ batch[b] # NULL
                       /\ batch[b].state = "permanent_failure"
                       /\ t \in batch[b].entries

QueueInd ==
    /\ StoreInd
    /\ ActiveEntriesInFlight
    /\ EntriesSettled
    /\ DisjointBatches
    /\ FailedHasBatch
    /\ \A t \in Txn : Stored(t) => txn[t].sequence < MaxSequence

-----------------------------------------------------------------------------
(* The inductive invariant: requests *)

TooLarge(request) == Backend!EncodedBytes(request) > MaxRequestBytes

(* The request of a batch that was submitted once is fixed. *)
Fixed(b) ==
    /\ binding \in Identity
    /\ batch[b] # NULL
    /\ batch[b].submittedAt # NULL

(* A request that the reader has built from its database. *)
IsBuilt(request) ==
    /\ request.batch \in Batch
    /\ Fixed(request.batch)
    /\ request = LoadSynchronizationBatchRequest(request.batch)
    /\ Backend!ValidFields(request)
    /\ Backend!ValidRequest(request)

(* The categories that fail for good, and the requests that have them: those
   that never leave the reader, and those that a gateway refused. *)
Refusals == {"payload_too_large", "unsupported_protocol", "backend_validation_failure"}

Refused(request) == TooLarge(request) \/ request.batch \in intercepted

SameAcknowledgement(a, c) == a.receivedAt = c.receivedAt /\ a.entries = c.entries

TaskOK(task) ==
    /\ DOMAIN task = {"batch", "request", "completedAt", "retryAt", "pc", "category", "ack"}
    /\ IsBuilt(task.request)
    /\ task.batch = task.request.batch
    /\ task.completedAt \in Time
    /\ task.retryAt \in Time
    /\ task.category \in Refusals => Refused(task.request)
    /\ task.pc \in {"store", "apply"} =>
         /\ batches[task.batch] # NULL
         /\ SameAcknowledgement(task.ack, batches[task.batch].acknowledgement)

TasksOK ==
    /\ DOMAIN submission = Submission
    /\ \A s \in Submission : submission[s] # NULL => TaskOK(submission[s])

(* A request on its way, and the task that waits for its answer. *)
MessageOK(m) ==
    /\ m = [request |-> m.request, from |-> m.from]
    /\ IsBuilt(m.request)
    /\ ~TooLarge(m.request)
    /\ m.from # NULL =>
         /\ m.from \in Submission
         /\ submission[m.from] # NULL
         /\ submission[m.from].pc = "waiting"
         /\ submission[m.from].request = m.request

WireOK == \A m \in wire : MessageOK(m)

(* The row of a batch at the backend, and the rows of its entries. *)
BatchStored(b) ==
    LET request == batches[b].fingerprint IN
    /\ IsBuilt(request)
    /\ ~TooLarge(request)
    /\ request.batch = b
    /\ request.reader = Reader
    /\ \E at \in Time :
         batches[b] = Backend!BatchRow(request, Backend!BuildAcknowledgement(request, at))
    /\ \A t \in batch[b].entries : transactions[t] # NULL

TransactionStored(t) ==
    /\ Stored(t)
    /\ transactions[t].reader = Reader
    /\ transactions[t].sequence = txn[t].sequence
    /\ transactions[t].fingerprint = Envelope(t)
    /\ \E b \in Batch : batches[b] # NULL /\ t \in batch[b].entries

BackendOK ==
    /\ DOMAIN batches = Batch
    /\ DOMAIN transactions = Txn
    /\ \A b \in Batch : batches[b] # NULL => BatchStored(b)
    /\ \A t \in Txn : transactions[t] # NULL => TransactionStored(t)

(* Only those requests fail for good; only a batch of the reader is refused by a
   gateway. *)
FailuresExplained ==
    /\ \A b \in Batch : batch[b] # NULL /\ batch[b].state = "permanent_failure" =>
         Fixed(b) /\ Refused(LoadSynchronizationBatchRequest(b))
    /\ \A b \in intercepted : b \in Batch /\ batch[b] # NULL

BindingOK ==
    /\ binding \in Identity \cup {NULL}
    /\ running => binding # NULL
    /\ \A b \in Batch : batch[b] # NULL => binding # NULL

SyncInd ==
    /\ QueueInd
    /\ BindingOK
    /\ TasksOK
    /\ WireOK
    /\ BackendOK
    /\ AcknowledgementIsCommitted
    /\ FailuresExplained

-----------------------------------------------------------------------------
(* The store operations by what they do to batches and their entries *)

(* No batch is created or comes to its end. *)
Keeps ==
    /\ RowsStay /\ BatchesStay /\ NoNewBatch
    /\ \A b \in Batch : Active(b) => Active(b)'
    /\ \A t \in Txn : txn'[t] # NULL /\ txn'[t].state \in FinalState =>
         txn'[t] = txn[t]

(* A batch is created from rows that belong to no other. *)
Opens(b) ==
    /\ RowsStay /\ BatchesStay
    /\ batch[b] = NULL
    /\ batch'[b] # NULL /\ batch'[b].state = "prepared" /\ batch'[b].entries # {}
    /\ \A t \in batch'[b].entries :
         /\ t \in Txn /\ Stored(t) /\ txn[t].state \notin FinalState /\ ~InActiveBatch(t)
         /\ txn'[t] # NULL /\ txn'[t].state = "in_flight"
    /\ \A t \in Txn : t \notin batch'[b].entries => txn'[t] = txn[t]
    /\ \A c \in Batch : c # b => batch'[c] = batch[c]

(* A batch comes to its end, and its entries with it. *)
Closes(b, state) ==
    /\ RowsStay /\ BatchesStay /\ NoNewBatch
    /\ Active(b)
    /\ batch'[b].state = state
    /\ \A t \in batch[b].entries :
         /\ t \in Txn /\ Stored(t) /\ txn[t].state = "in_flight"
         /\ txn'[t] # NULL /\ txn'[t].state = state
    /\ \A t \in Txn : t \notin batch[b].entries => txn'[t] = txn[t]
    /\ \A c \in Batch : c # b => batch'[c] = batch[c]

LEMMA EnqueueKeeps ==
    ASSUME StoreInd, NEW t \in Txn, NEW at \in Time, EnqueueOfflineTransaction(t, at)
    PROVE  Keeps
<1>1. RowsStay
  BY EnqueueStep DEF StoreInd
<1>2. /\ UNCHANGED batch
      /\ \A u \in Txn : u # t => txn'[u] = txn[u]
      /\ txn'[t].state = "pending"
  BY DEF EnqueueOfflineTransaction, StoreInd, StoreTypeOK
<1>. QED
  BY <1>1, <1>2, BatchesUnchanged DEF Keeps, Active, FinalState

(* The operations that make a batch retryable. *)
LEMMA RetryKeeps ==
    ASSUME StoreInd, BatchesStay, NoNewBatch, UNCHANGED txn,
           \A b \in Batch :
             \/ batch'[b] = batch[b]
             \/ \E at \in Time, r \in Time :
                  /\ InFlightBefore(batch[b], at)
                  /\ batch'[b] = SetState(batch[b], "retryable_failure", r, at)
    PROVE  Keeps
<1>1. \A b \in Batch : Active(b) => Active(b)'
  <2>. SUFFICES ASSUME NEW b \in Batch, Active(b)
                PROVE  Active(b)'
    OBVIOUS
  <2>1. CASE batch'[b] = batch[b]
    BY <2>1 DEF Active
  <2>2. CASE \E at \in Time, r \in Time :
               /\ InFlightBefore(batch[b], at)
               /\ batch'[b] = SetState(batch[b], "retryable_failure", r, at)
    BY <2>2, RetryKeepsActive DEF StoreInd
  <2>. QED
    BY <2>1, <2>2
<1>2. RowsStay
  BY DEF RowsStay, Stored
<1>. QED
  BY <1>1, <1>2 DEF Keeps

LEMMA RetryableFailureKeeps ==
    ASSUME StoreInd, NEW b \in Batch, NEW at \in Time, NEW retryAt \in Time,
           RecordSynchronizationRetryableFailure(b, at, retryAt)
    PROVE  Keeps
<1>1. BatchesStay /\ NoNewBatch
  BY RecordSynchronizationRetryableFailureStep DEF StoreInd
<1>2. /\ UNCHANGED txn
      /\ InFlightBefore(batch[b], at)
      /\ batch'[b] = SetState(batch[b], "retryable_failure", retryAt, at)
      /\ \A c \in Batch : c # b => batch'[c] = batch[c]
  BY DEF RecordSynchronizationRetryableFailure, StoreInd, StoreTypeOK
<1>. QED
  BY <1>1, <1>2, RetryKeeps

LEMMA RecoveryKeeps ==
    ASSUME StoreInd, NEW at \in Time, RecoverInterruptedSynchronizationBatches(at)
    PROVE  Keeps
<1>1. BatchesStay /\ NoNewBatch
  BY RecoverInterruptedSynchronizationBatchesStep DEF StoreInd
<1>2. /\ UNCHANGED txn
      /\ \A c \in Batch :
           \/ batch'[c] = batch[c]
           \/ /\ InFlightBefore(batch[c], at)
              /\ batch'[c] = SetState(batch[c], "retryable_failure", at, at)
  BY DEF RecoverInterruptedSynchronizationBatches
<1>. QED
  BY <1>1, <1>2, RetryKeeps

LEMMA MarkKeeps ==
    ASSUME StoreInd, NEW b \in Batch, NEW at \in Time,
           MarkSynchronizationBatchInFlight(b, at)
    PROVE  Keeps
<1>1. /\ RowsStay /\ NoNewRow /\ BatchesStay /\ NoNewBatch
      /\ \A t \in Txn : Stored(t) => txn'[t].state = txn[t].state
  BY MarkSynchronizationBatchInFlightStep DEF StoreInd
<1>2. /\ batch[b] \in BatchRow
      /\ batch'[b] = Submitted(batch[b], at)
      /\ \A c \in Batch : c # b => batch'[c] = batch[c]
  BY DEF MarkSynchronizationBatchInFlight, StoreInd, StoreTypeOK
<1>3. \A c \in Batch : Active(c) => Active(c)'
  BY <1>2, SubmittedIsActive DEF Active
<1>4. \A t \in Txn : txn'[t] # NULL /\ txn'[t].state \in FinalState => txn'[t] = txn[t]
  BY <1>1 DEF RowsStay, NoNewRow, Stored
<1>. QED
  BY <1>1, <1>3, <1>4 DEF Keeps

LEMMA CreateOpens ==
    ASSUME StoreInd, NEW b \in Batch, NEW limit \in Limits, NEW at \in Time,
           CreateSynchronizationBatch(b, limit, at)
    PROVE  /\ Opens(b)
           /\ batch'[b].entries = FirstBySequence(Candidates(at), limit)
<1>1. /\ RowsStay /\ BatchesStay
      /\ batch[b] = NULL /\ batch'[b] # NULL /\ batch'[b].state = "prepared"
      /\ \A t \in batch'[b].entries :
           t \in Txn /\ ~InActiveBatch(t) /\ txn'[t] # NULL /\ txn'[t].state = "in_flight"
      /\ \A t \in Txn : t \notin batch'[b].entries => txn'[t] = txn[t]
      /\ \A c \in Batch : c # b => batch'[c] = batch[c]
  BY CreateSynchronizationBatchStep DEF StoreInd
<1>2. /\ batch'[b].entries = FirstBySequence(Candidates(at), limit)
      /\ FirstBySequence(Candidates(at), limit) # {}
  BY DEF CreateSynchronizationBatch, StoreInd, StoreTypeOK
<1>3. \A t \in batch'[b].entries : Stored(t) /\ txn[t].state \notin FinalState
  <2>1. \A t \in Candidates(at) : Stored(t) /\ IsReady(txn[t], at)
    BY DEF Candidates
  <2>2. \A t \in batch'[b].entries : t \in Candidates(at)
    BY <1>2 DEF FirstBySequence
  <2>. QED
    BY <2>1, <2>2 DEF IsReady, FinalState
<1>. QED
  BY <1>1, <1>2, <1>3 DEF Opens

LEMMA FailureCloses ==
    ASSUME StoreInd, ActiveEntriesInFlight, NEW b \in Batch, NEW state \in FinalFailure,
           NEW at \in Time, RecordFinalSynchronizationFailure(b, state, at)
    PROVE  Closes(b, state)
<1>1. /\ RowsStay /\ BatchesStay /\ NoNewBatch
      /\ batch'[b].state = state
      /\ \A t \in Txn : t \notin batch[b].entries => txn'[t] = txn[t]
  BY RecordFinalSynchronizationFailureStep DEF StoreInd
<1>2. /\ \A c \in Batch : c # b => batch'[c] = batch[c]
      /\ batch[b] # NULL /\ batch[b].state = "in_flight"
      /\ \A t \in Txn : t \in batch[b].entries =>
           txn'[t] = SetState(txn[t], state, NULL, at)
  BY DEF RecordFinalSynchronizationFailure, InFlightBefore, StoreInd, StoreTypeOK
<1>3. Active(b) /\ \A t \in batch[b].entries : t \in Txn /\ Stored(t) /\ txn[t].state = "in_flight"
  BY <1>2, EntriesAreTxns DEF ActiveEntriesInFlight, Active, ActiveStates, StoreInd
<1>4. \A t \in batch[b].entries : txn'[t] # NULL /\ txn'[t].state = state
  <2>1. \A t \in batch[b].entries : txn[t] \in TxnRow
    BY <1>3 DEF StoreInd, StoreTypeOK, Stored
  <2>2. state \in QueueState /\ NULL \in OptionalTime
    BY DEF FinalFailure, QueueState, OptionalTime
  <2>. QED
    BY <1>2, <1>3, <2>1, <2>2, SetStateTxn, SMTT(30)
<1>. QED
  BY <1>1, <1>2, <1>3, <1>4 DEF Closes

(* The outcomes the backend of this system sends. *)
AllAccepted(b) == \A t \in batch[b].entries : ack[b].outcome[t].state = "acknowledged"

LEMMA ApplyCloses ==
    ASSUME StoreInd, ActiveEntriesInFlight, NEW b \in Batch, NEW at \in Time,
           AllAccepted(b), ApplySynchronizationAcknowledgement(b, at)
    PROVE  Closes(b, "acknowledged")
<1>1. /\ RowsStay /\ BatchesStay /\ NoNewBatch
      /\ batch'[b].state = "acknowledged"
      /\ \A c \in Batch : c # b => batch'[c] = batch[c]
      /\ \A t \in Txn : \/ t \notin batch[b].entries /\ txn'[t] = txn[t]
                        \/ t \in batch[b].entries
                           /\ txn'[t].state = ack[b].outcome[t].state
  BY ApplySynchronizationAcknowledgementStep DEF StoreInd
<1>2. batch[b] # NULL /\ batch[b].state = "in_flight"
  BY DEF ApplySynchronizationAcknowledgement, InFlightBefore
<1>3. Active(b) /\ \A t \in batch[b].entries : t \in Txn /\ Stored(t) /\ txn[t].state = "in_flight"
  BY <1>2, EntriesAreTxns DEF ActiveEntriesInFlight, Active, ActiveStates, StoreInd
<1>4. \A t \in batch[b].entries : txn'[t] # NULL /\ txn'[t].state = "acknowledged"
  BY <1>1, <1>3 DEF RowsStay, AllAccepted
<1>. QED
  BY <1>1, <1>3, <1>4 DEF Closes

-----------------------------------------------------------------------------
(* The queue across a step *)

SequencesBounded == \A t \in Txn : Stored(t) => txn[t].sequence < MaxSequence

LEMMA KeepsQueue ==
    ASSUME QueueInd, StoreInd', ActiveEntriesInFlight', SequencesBounded', Keeps
    PROVE  QueueInd'
<1>1. ASSUME NEW b \in Batch, batch'[b] # NULL
      PROVE  /\ batch[b] # NULL /\ batch'[b].entries = batch[b].entries
             /\ batch[b].entries \subseteq Txn
             /\ batch'[b].state \in FinalState => batch'[b] = batch[b]
  <2>1. batch[b] # NULL /\ batch'[b].entries = batch[b].entries
    BY <1>1 DEF Keeps, NoNewBatch, BatchesStay
  <2>2. batch[b].entries \subseteq Txn
    BY <2>1, EntriesAreTxns DEF QueueInd, StoreInd
  <2>3. batch'[b].state \in FinalState => ~Active(b)
    BY DEF Keeps, Active, ActiveStates, FinalState
  <2>4. batch'[b].state \in FinalState => batch'[b] = batch[b]
    BY <2>1, <2>3 DEF Keeps, BatchesStay, Active
  <2>. QED
    BY <2>1, <2>2, <2>4
<1>2. EntriesSettled'
  <2>. SUFFICES ASSUME NEW b \in Batch, batch'[b] # NULL, NEW t \in batch'[b].entries
                PROVE  /\ txn'[t] # NULL
                       /\ batch'[b].state \in FinalState => txn'[t].state = batch'[b].state
    BY <1>1 DEF EntriesSettled, QueueInd, Stored
  <2>1. /\ batch[b] # NULL /\ t \in batch[b].entries /\ t \in Txn
        /\ batch'[b].state \in FinalState => batch'[b] = batch[b]
    BY <1>1
  <2>2. Stored(t) /\ (batch[b].state \in FinalState => txn[t].state = batch[b].state)
    BY <2>1 DEF QueueInd, EntriesSettled
  <2>. QED
    BY <2>1, <2>2 DEF Keeps, RowsStay, Stored
<1>3. DisjointBatches'
  BY <1>1 DEF QueueInd, DisjointBatches
<1>4. FailedHasBatch'
  <2>. SUFFICES ASSUME NEW t \in Txn, txn'[t] # NULL, txn'[t].state = "permanent_failure"
                PROVE  \E b \in Batch : /\ batch'[b] # NULL
                                        /\ batch'[b].state = "permanent_failure"
                                        /\ t \in batch'[b].entries
    BY DEF FailedHasBatch, Stored
  <2>1. txn[t] # NULL /\ txn[t].state = "permanent_failure"
    BY DEF Keeps, FinalState
  <2>2. PICK b \in Batch : /\ batch[b] # NULL
                           /\ batch[b].state = "permanent_failure"
                           /\ t \in batch[b].entries
    BY <2>1 DEF QueueInd, FailedHasBatch, Stored
  <2>. QED
    BY <2>2 DEF Keeps, BatchesStay, ActiveStates
<1>. QED
  BY <1>2, <1>3, <1>4 DEF QueueInd, SequencesBounded

(* Every operation that the reader calls is a step of BatchNext. *)
LEMMA BatchNextQueue ==
    ASSUME QueueInd, BatchNext, SequencesBounded',
           \/ Keeps
           \/ \E b \in Batch : Opens(b)
           \/ \E b \in Batch, state \in FinalState : Closes(b, state)
    PROVE  QueueInd'
<1>OpensQueue. ASSUME QueueInd, StoreInd', ActiveEntriesInFlight', SequencesBounded',
                      NEW b \in Batch, Opens(b)
               PROVE  QueueInd'
  <2>. USE <1>OpensQueue
  <2>1. ASSUME NEW c \in Batch, c # b, batch[c] # NULL
        PROVE  batch'[b].entries \cap batch[c].entries = {}
    <3>. SUFFICES ASSUME NEW t \in batch'[b].entries, t \in batch[c].entries
                  PROVE  FALSE
      OBVIOUS
    <3>1. Stored(t) /\ txn[t].state \notin FinalState /\ ~InActiveBatch(t)
      BY DEF Opens
    <3>2. ~Active(c)
      BY <3>1 DEF InActiveBatch
    <3>3. batch[c].state \in BatchState
      BY <2>1 DEF QueueInd, StoreInd, StoreTypeOK, BatchRow
    <3>4. batch[c].state \in FinalState
      BY <2>1, <3>2, <3>3 DEF Active, ActiveStates, BatchState, FinalState
    <3>. QED
      BY <2>1, <3>1, <3>4 DEF QueueInd, EntriesSettled
  <2>2. EntriesSettled'
    <3>. SUFFICES ASSUME NEW c \in Batch, batch'[c] # NULL
                  PROVE  /\ batch'[c].entries # {}
                         /\ \A t \in batch'[c].entries :
                              /\ txn'[t] # NULL
                              /\ batch'[c].state \in FinalState => txn'[t].state = batch'[c].state
      BY DEF EntriesSettled, Stored
    <3>1. CASE c = b
      BY <3>1 DEF Opens, FinalState
    <3>2. CASE c # b
      <4>1. batch'[c] = batch[c] /\ batch[c].entries \subseteq Txn
        BY <3>2, EntriesAreTxns DEF Opens, QueueInd, StoreInd
      <4>2. \A t \in batch[c].entries : txn'[t] = txn[t]
        BY <2>1, <3>2, <4>1 DEF Opens
      <4>. QED
        BY <4>1, <4>2, SMTT(30) DEF QueueInd, EntriesSettled, Stored
    <3>. QED
      BY <3>1, <3>2
  <2>3. DisjointBatches'
    BY <2>1, SMTT(30) DEF QueueInd, DisjointBatches, Opens
  <2>4. FailedHasBatch'
    <3>. SUFFICES ASSUME NEW t \in Txn, txn'[t] # NULL, txn'[t].state = "permanent_failure"
                  PROVE  \E c \in Batch : /\ batch'[c] # NULL
                                          /\ batch'[c].state = "permanent_failure"
                                          /\ t \in batch'[c].entries
      BY DEF FailedHasBatch, Stored
    <3>1. txn[t] # NULL /\ txn[t].state = "permanent_failure"
      BY DEF Opens
    <3>2. PICK c \in Batch : /\ batch[c] # NULL
                             /\ batch[c].state = "permanent_failure"
                             /\ t \in batch[c].entries
      BY <3>1 DEF QueueInd, FailedHasBatch, Stored
    <3>. QED
      BY <3>2 DEF Opens
  <2>. QED
    BY <2>2, <2>3, <2>4 DEF QueueInd, SequencesBounded
<1>ClosesQueue. ASSUME QueueInd, StoreInd', ActiveEntriesInFlight', SequencesBounded',
                       NEW b \in Batch, NEW state \in FinalState, Closes(b, state)
                PROVE  QueueInd'
  <2>. USE <1>ClosesQueue
  <2>1. \A c \in Batch : /\ batch'[c] # NULL <=> batch[c] # NULL
                         /\ batch[c] # NULL => batch'[c].entries = batch[c].entries
    BY DEF Closes, BatchesStay, NoNewBatch
  <2>2. batch[b] # NULL
    BY DEF Closes, Active
  <2>3. EntriesSettled'
    <3>. SUFFICES ASSUME NEW c \in Batch, batch'[c] # NULL
                  PROVE  /\ batch'[c].entries # {}
                         /\ \A t \in batch'[c].entries :
                              /\ txn'[t] # NULL
                              /\ batch'[c].state \in FinalState => txn'[t].state = batch'[c].state
      BY DEF EntriesSettled, Stored
    <3>1. batch'[c].entries # {}
      BY <2>1 DEF QueueInd, EntriesSettled
    <3>2. CASE c = b
      BY <2>1, <3>1, <3>2 DEF Closes
    <3>3. CASE c # b
      <4>1. batch'[c] = batch[c] /\ batch[c].entries \subseteq Txn
        BY <3>3, EntriesAreTxns DEF Closes, QueueInd, StoreInd
      <4>2. batch[c].entries \cap batch[b].entries = {}
        BY <2>1, <2>2, <3>3 DEF QueueInd, DisjointBatches
      <4>3. \A t \in batch[c].entries : txn'[t] = txn[t]
        BY <4>1, <4>2 DEF Closes
      <4>. QED
        BY <4>1, <4>3, SMTT(30) DEF QueueInd, EntriesSettled, Stored
    <3>. QED
      BY <3>2, <3>3
  <2>4. DisjointBatches'
    BY <2>1 DEF QueueInd, DisjointBatches
  <2>5. FailedHasBatch'
    <3>. SUFFICES ASSUME NEW t \in Txn, txn'[t] # NULL, txn'[t].state = "permanent_failure"
                  PROVE  \E c \in Batch : /\ batch'[c] # NULL
                                          /\ batch'[c].state = "permanent_failure"
                                          /\ t \in batch'[c].entries
      BY DEF FailedHasBatch, Stored
    <3>1. CASE t \in batch[b].entries
      BY <2>1, <2>2, <3>1 DEF Closes
    <3>2. CASE t \notin batch[b].entries
      <4>1. txn[t] # NULL /\ txn[t].state = "permanent_failure"
        BY <3>2 DEF Closes
      <4>2. PICK c \in Batch : /\ batch[c] # NULL
                               /\ batch[c].state = "permanent_failure"
                               /\ t \in batch[c].entries
        BY <4>1 DEF QueueInd, FailedHasBatch, Stored
      <4>3. c # b
        BY <3>2, <4>2
      <4>. QED
        BY <4>2, <4>3 DEF Closes
    <3>. QED
      BY <3>1, <3>2
  <2>. QED
    BY <2>3, <2>4, <2>5 DEF QueueInd, SequencesBounded
<1>1. StoreInd' /\ ActiveEntriesInFlight'
  BY BatchNextInv, BatchNextReserves DEF QueueInd
<1>. QED
  BY <1>1, KeepsQueue, <1>OpensQueue, <1>ClosesQueue

LEMMA BoundKept ==
    ASSUME QueueInd, RowsStay, \A t \in Txn : ~Stored(t) => txn'[t] = NULL
    PROVE  SequencesBounded'
  BY DEF QueueInd, SequencesBounded, RowsStay, Stored

LEMMA EnqueueQueue ==
    ASSUME QueueInd, NEW t \in Txn, NEW at \in Time, EnqueueOfflineTransaction(t, at)
    PROVE  QueueInd' /\ Keeps
<1>1. Keeps
  BY EnqueueKeeps DEF QueueInd
<1>2. BatchNext
  BY DEF BatchNext
<1>3. SequencesBounded'
  <2>1. /\ \A u \in Txn : u # t => txn'[u] = txn[u]
        /\ txn'[t].sequence = nextLocalSequence
        /\ nextLocalSequence < MaxSequence
    BY DEF EnqueueOfflineTransaction, QueueInd, StoreInd, StoreTypeOK
  <2>. QED
    BY <2>1 DEF QueueInd, SequencesBounded, Stored
<1>. QED
  BY <1>1, <1>2, <1>3, BatchNextQueue

LEMMA RecoveryQueue ==
    ASSUME QueueInd, NEW at \in Time, RecoverInterruptedSynchronizationBatches(at)
    PROVE  QueueInd' /\ Keeps /\ UNCHANGED <<txn, ack>>
<1>1. Keeps
  BY RecoveryKeeps DEF QueueInd
<1>2. BatchNext
  BY DEF BatchNext
<1>3. UNCHANGED <<txn, ack>>
  BY DEF RecoverInterruptedSynchronizationBatches
<1>4. SequencesBounded'
  BY <1>3 DEF QueueInd, SequencesBounded, Stored
<1>. QED
  BY <1>1, <1>2, <1>3, <1>4, BatchNextQueue

LEMMA CreateQueue ==
    ASSUME QueueInd, NEW b \in Batch, NEW limit \in Limits, NEW at \in Time,
           CreateSynchronizationBatch(b, limit, at)
    PROVE  QueueInd' /\ Opens(b) /\ UNCHANGED ack
<1>1. Opens(b)
  BY CreateOpens DEF QueueInd
<1>2. BatchNext
  BY DEF BatchNext
<1>3. SequencesBounded'
  BY BoundKept, CreateSynchronizationBatchStep DEF QueueInd, StoreInd, NoNewRow
<1>4. UNCHANGED ack
  BY DEF CreateSynchronizationBatch
<1>. QED
  BY <1>1, <1>2, <1>3, <1>4, BatchNextQueue

LEMMA MarkQueue ==
    ASSUME QueueInd, NEW b \in Batch, NEW at \in Time,
           MarkSynchronizationBatchInFlight(b, at)
    PROVE  QueueInd' /\ Keeps /\ UNCHANGED ack
<1>1. Keeps
  BY MarkKeeps DEF QueueInd
<1>2. BatchNext
  BY DEF BatchNext
<1>3. SequencesBounded'
  BY BoundKept, MarkSynchronizationBatchInFlightStep DEF QueueInd, StoreInd, NoNewRow
<1>4. UNCHANGED ack
  BY DEF MarkSynchronizationBatchInFlight
<1>. QED
  BY <1>1, <1>2, <1>3, <1>4, BatchNextQueue

LEMMA RetryableFailureQueue ==
    ASSUME QueueInd, NEW b \in Batch, NEW at \in Time, NEW retryAt \in Time,
           RecordSynchronizationRetryableFailure(b, at, retryAt)
    PROVE  QueueInd' /\ Keeps /\ UNCHANGED <<txn, ack>>
<1>1. Keeps
  BY RetryableFailureKeeps DEF QueueInd
<1>2. BatchNext
  BY DEF BatchNext
<1>3. UNCHANGED <<txn, ack>>
  BY DEF RecordSynchronizationRetryableFailure
<1>4. SequencesBounded'
  BY <1>3 DEF QueueInd, SequencesBounded, Stored
<1>. QED
  BY <1>1, <1>2, <1>3, <1>4, BatchNextQueue

LEMMA FailureQueue ==
    ASSUME QueueInd, NEW b \in Batch, NEW state \in FinalFailure, NEW at \in Time,
           RecordFinalSynchronizationFailure(b, state, at)
    PROVE  QueueInd' /\ Closes(b, state) /\ UNCHANGED ack
<1>1. Closes(b, state) /\ state \in FinalState
  BY FailureCloses DEF QueueInd, FinalFailure, FinalState
<1>2. BatchNext
  BY DEF BatchNext
<1>3. SequencesBounded'
  BY BoundKept, RecordFinalSynchronizationFailureStep DEF QueueInd, StoreInd, NoNewRow
<1>4. UNCHANGED ack
  BY DEF RecordFinalSynchronizationFailure
<1>. QED
  BY <1>1, <1>2, <1>3, <1>4, BatchNextQueue

LEMMA ApplyQueue ==
    ASSUME QueueInd, NEW b \in Batch, NEW at \in Time,
           AllAccepted(b), ApplySynchronizationAcknowledgement(b, at)
    PROVE  QueueInd' /\ Closes(b, "acknowledged")
<1>1. Closes(b, "acknowledged") /\ "acknowledged" \in FinalState
  BY ApplyCloses DEF QueueInd, FinalState
<1>2. BatchNext
  BY DEF BatchNext
<1>3. SequencesBounded'
  BY BoundKept, ApplySynchronizationAcknowledgementStep DEF QueueInd, StoreInd, NoNewRow
<1>. QED
  BY <1>1, <1>2, <1>3, BatchNextQueue

LEMMA NothingQueue ==
    ASSUME QueueInd, UNCHANGED storeVars
    PROVE  QueueInd' /\ Keeps
<1>1. UNCHANGED <<nextLocalSequence, lastAcknowledgedSequence, txn, batch, ack>>
  BY DEF storeVars
<1>2. StoreInd'
  BY NextInv DEF QueueInd
<1>3. ActiveEntriesInFlight' /\ SequencesBounded'
  BY <1>1 DEF QueueInd, ActiveEntriesInFlight, SequencesBounded, Stored, Active
<1>4. Keeps
  BY <1>1 DEF Keeps, RowsStay, BatchesStay, NoNewBatch, Active, Stored
<1>. QED
  BY <1>2, <1>3, <1>4, KeepsQueue

-----------------------------------------------------------------------------
(* Requests *)

(* What a gateway may add to the batches it refused. *)
Intercepts ==
    /\ intercepted \subseteq intercepted'
    /\ \A b \in intercepted' : b \in intercepted \/ (b \in Batch /\ batch[b] # NULL)

(* Nothing that a request is built from changes. *)
Grows ==
    /\ RowsStay /\ BatchesStay
    /\ binding \in Identity => binding' = binding
    /\ Intercepts

(* The reader rebuilds the same request after any step. *)
LEMMA SameRequest ==
    ASSUME QueueInd, Grows, NEW b \in Batch, Fixed(b)
    PROVE  /\ Fixed(b)'
           /\ LoadSynchronizationBatchRequest(b)' = LoadSynchronizationBatchRequest(b)
<1>1. /\ batch'[b] # NULL
      /\ batch'[b].entries = batch[b].entries
      /\ batch'[b].submittedAt = batch[b].submittedAt
      /\ binding' = binding
  BY DEF Grows, BatchesStay, Fixed
<1>2. \A t \in batch[b].entries : txn'[t].sequence = txn[t].sequence
  <2>1. batch[b].entries \subseteq Txn
    BY DEF QueueInd, StoreInd, StoreTypeOK, BatchRow, Fixed
  <2>. QED
    BY <2>1 DEF QueueInd, EntriesSettled, Grows, RowsStay, Fixed
<1>. DEFINE sequence == [t \in batch[b].entries |-> txn[t].sequence]
            sequenceAfter == [t \in batch'[b].entries |-> txn'[t].sequence]
<1>3. sequenceAfter = sequence
  BY <1>1, <1>2
<1>4. /\ LoadSynchronizationBatchRequest(b)
           = RequestOf(binding, b, batch[b].submittedAt, sequence)
      /\ LoadSynchronizationBatchRequest(b)'
           = RequestOf(binding', b, batch'[b].submittedAt, sequenceAfter)
  BY DEF LoadSynchronizationBatchRequest
<1>. HIDE DEF sequence, sequenceAfter
<1>5. LoadSynchronizationBatchRequest(b)' = LoadSynchronizationBatchRequest(b)
  BY <1>1, <1>3, <1>4
<1>. QED
  BY <1>1, <1>5 DEF Fixed

LEMMA BuiltStays ==
    ASSUME QueueInd, Grows, NEW request, IsBuilt(request)
    PROVE  IsBuilt(request)'
  BY SameRequest DEF IsBuilt

(* The sequences of the entries of a batch. *)
LEMMA EntrySequences ==
    ASSUME QueueInd, NEW b \in Batch, batch[b] # NULL
    PROVE  LET S == batch[b].entries
               sequence == [t \in S |-> txn[t].sequence]
           IN  /\ S \subseteq Txn /\ S # {}
               /\ sequence \in Injection(S, Nat)
               /\ sequence \in Injection(S, 1..MaxSequence)
<1>. DEFINE S == batch[b].entries
            sequence == [t \in S |-> txn[t].sequence]
<1>1. S \subseteq Txn /\ S # {} /\ \A t \in S : Stored(t)
  BY DEF QueueInd, EntriesSettled, StoreInd, StoreTypeOK, BatchRow
<1>2. \A t \in S : txn[t].sequence \in 1..MaxSequence
  BY <1>1, ConstantsAssumption, SMTT(30)
     DEF QueueInd, SequencesBounded, StoreInd, SequenceAllocation, StoreTypeOK
<1>3. \A t, u \in S : txn[t].sequence = txn[u].sequence => t = u
  BY <1>1 DEF QueueInd, StoreInd, SequenceAllocation
<1>4. sequence \in Injection(S, 1..MaxSequence) /\ sequence \in Injection(S, Nat)
  BY <1>2, <1>3, ConstantsAssumption, SMTT(30) DEF Injection, IsInjective
<1>. QED
  BY <1>1, <1>4

(* InOrder lists the entries of every batch.  It does for finitely many entries,
   so in every state (RequestsAreListed in SyncProtocolTheorems). *)
RequestsListed ==
    \A b \in Batch : batch[b] # NULL =>
      LET S == batch[b].entries
          order == InOrder([t \in S |-> txn[t].sequence])
      IN  /\ \A i \in DOMAIN order : order[i] \in S
          /\ \A t \in S : \E i \in DOMAIN order : order[i] = t

(* A request holds exactly the entries of its batch, each with its sequence and
   its envelope. *)
LEMMA RequestFacts ==
    ASSUME QueueInd, RequestsListed, NEW request, IsBuilt(request)
    PROVE  /\ request.batch \in Batch /\ batch[request.batch] # NULL
           /\ request \in PossibleRequest
           /\ request.version = CurrentVersion
           /\ \A i \in DOMAIN request.entries :
                /\ request.entries[i].txn \in batch[request.batch].entries
                /\ request.entries[i].sequence = txn[request.entries[i].txn].sequence
                /\ request.entries[i].envelope = Envelope(request.entries[i].txn)
           /\ \A t \in batch[request.batch].entries :
                \E i \in DOMAIN request.entries : request.entries[i].txn = t
<1>. DEFINE b == request.batch
            S == batch[b].entries
            sequence == [t \in S |-> txn[t].sequence]
            order == InOrder(sequence)
            loaded == [i \in DOMAIN order |->
                         Backend!RequestEntry(order[i], sequence[order[i]], Envelope(order[i]))]
<1>1. /\ b \in Batch /\ batch[b] # NULL /\ batch[b].submittedAt # NULL
      /\ binding \in Identity
      /\ request = LoadSynchronizationBatchRequest(b)
  BY DEF IsBuilt, Fixed
<1>2. request = RequestOf(binding, b, batch[b].submittedAt, sequence)
  BY <1>1 DEF LoadSynchronizationBatchRequest
<1>3. /\ S \subseteq Txn /\ S # {}
      /\ sequence \in Injection(S, Nat)
      /\ sequence \in Injection(S, 1..MaxSequence)
  BY <1>1, EntrySequences
<1>4. /\ \A i \in DOMAIN order : order[i] \in S
      /\ \A t \in S : \E i \in DOMAIN order : order[i] = t
  BY <1>1 DEF RequestsListed
<1>5. request \in PossibleRequest
  <2>1. batch[b].submittedAt \in Time
    BY <1>1 DEF QueueInd, StoreInd, StoreTypeOK, BatchRow, OptionalTime
  <2>2. sequence \in UNION {Injection(U, 1..MaxSequence) : U \in (SUBSET Txn) \ {{}}}
    <3>. HIDE DEF S, sequence
    <3>. QED
      BY <1>3
  <2>. HIDE DEF S, sequence, b
  <2>3. \E identity \in Identity, c \in Batch, at \in Time :
          \E q \in UNION {Injection(U, 1..MaxSequence) : U \in (SUBSET Txn) \ {{}}} :
            request = RequestOf(identity, c, at, q)
    BY <1>1, <1>2, <2>1, <2>2
  <2>. QED
    BY <2>3, SMTT(30) DEF PossibleRequest
<1>6. request.version = CurrentVersion /\ request.entries = loaded
  <2>. HIDE DEF sequence, b
  <2>. QED
    BY <1>2 DEF RequestOf, Backend!SynchronizationBatchRequest
<1>7. /\ DOMAIN loaded = DOMAIN order
      /\ \A i \in DOMAIN order : /\ loaded[i].txn = order[i]
                                 /\ loaded[i].sequence = sequence[order[i]]
                                 /\ loaded[i].envelope = Envelope(order[i])
  <2>. HIDE DEF sequence, order
  <2>. QED
    BY DEF Backend!RequestEntry
<1>8. \A t \in S : sequence[t] = txn[t].sequence
  OBVIOUS
<1>. HIDE DEF S, sequence, order, loaded
<1>9. \A i \in DOMAIN request.entries :
        /\ request.entries[i].txn \in S
        /\ request.entries[i].sequence = txn[request.entries[i].txn].sequence
        /\ request.entries[i].envelope = Envelope(request.entries[i].txn)
  BY <1>4, <1>6, <1>7, <1>8, SMTT(30)
<1>10. \A t \in S : \E i \in DOMAIN request.entries : request.entries[i].txn = t
  BY <1>4, <1>6, <1>7, SMTT(30)
<1>. QED
  BY <1>1, <1>5, <1>6, <1>9, <1>10 DEF S

LEMMA LoadedBatch ==
    ASSUME NEW b
    PROVE  LoadSynchronizationBatchRequest(b).batch = b
  BY DEF LoadSynchronizationBatchRequest, RequestOf, Backend!SynchronizationBatchRequest

(* There is one request for a batch. *)
LEMMA OneRequest ==
    ASSUME NEW request, NEW other, IsBuilt(request), IsBuilt(other),
           request.batch = other.batch
    PROVE  request = other
  BY DEF IsBuilt

-----------------------------------------------------------------------------
(* Acknowledgements *)

(* A replay carries the time and the entries of the acknowledgement. *)
LEMMA ReplaySame ==
    ASSUME NEW request, NEW at
    PROVE  /\ Backend!BuildAcknowledgement(request, at).receivedAt = at
           /\ SameAcknowledgement(
                Backend!WithReplayed(Backend!BuildAcknowledgement(request, at), TRUE),
                Backend!BuildAcknowledgement(request, at))
  BY DEF Backend!BuildAcknowledgement, Backend!AcknowledgementWith,
         Backend!SynchronizationBatchAcknowledgement, Backend!WithReplayed,
         SameAcknowledgement

(* So the acknowledgement of a batch that the reader has stored accepts all. *)
LEMMA StoredAccepts ==
    ASSUME SyncInd, RequestsListed, NEW b \in Batch, ack[b] # NULL
    PROVE  AllAccepted(b)
(* The backend accepts every entry of a request. *)
<1>TranslateAccepts. ASSUME NEW request, NEW at, NEW i \in DOMAIN request.entries
                     PROVE  Translate(Backend!BuildAcknowledgement(request, at))[request.entries[i].txn].state
                              = "acknowledged"
  <2>. USE <1>TranslateAccepts
  <2>. DEFINE acknowledgement == Backend!BuildAcknowledgement(request, at)
              results == Range(acknowledgement.entries)
              t == request.entries[i].txn
              entry == CHOOSE e \in results : e.txn = t
  <2>1. /\ DOMAIN acknowledgement.entries = DOMAIN request.entries
        /\ \A j \in DOMAIN request.entries :
             /\ acknowledgement.entries[j].txn = request.entries[j].txn
             /\ acknowledgement.entries[j].outcome = "acknowledged"
    BY DEF Backend!BuildAcknowledgement, Backend!AcknowledgementWith, Backend!Accepted,
           Backend!SynchronizationBatchAcknowledgement, Backend!AcknowledgementEntry
  <2>. HIDE DEF acknowledgement
  <2>2. \A e \in results : e.outcome = "acknowledged"
    BY <2>1 DEF Range
  <2>3. \E e \in results : e.txn = t
    BY <2>1 DEF Range
  <2>4. entry \in results /\ t \in {e.txn : e \in results}
    BY <2>3
  <2>5. Translate(acknowledgement)[t].state = entry.outcome
    <3>. HIDE DEF t
    <3>1. Translate(acknowledgement)
            = [u \in {e.txn : e \in results} |->
                 [state |-> (CHOOSE e \in results : e.txn = u).outcome,
                  retryAt |-> (CHOOSE e \in results : e.txn = u).retryAt]]
      BY DEF Translate
    <3>. HIDE DEF results
    <3>. QED
      BY <2>4, <3>1, SMTT(30)
  <2>. QED
    BY <2>2, <2>4, <2>5 DEF acknowledgement
<1>1. /\ batches[b] # NULL /\ BatchStored(b)
      /\ ack[b].outcome = Translate(batches[b].acknowledgement)
  BY DEF SyncInd, AcknowledgementIsCommitted, BackendOK
<1>. DEFINE request == batches[b].fingerprint
<1>2. PICK at \in Time :
        batches[b] = Backend!BatchRow(request, Backend!BuildAcknowledgement(request, at))
  BY <1>1 DEF BatchStored
<1>3. IsBuilt(request) /\ request.batch = b
  BY <1>1 DEF BatchStored
<1>. HIDE DEF request
<1>4. batches[b].acknowledgement = Backend!BuildAcknowledgement(request, at)
  BY <1>2, SMTT(30) DEF Backend!BatchRow
<1>5. \A t \in batch[b].entries :
        \E i \in DOMAIN request.entries : request.entries[i].txn = t
  BY <1>3, RequestFacts DEF SyncInd
<1>. QED
  BY <1>1, <1>4, <1>5, <1>TranslateAccepts, SMTT(30) DEF AllAccepted

-----------------------------------------------------------------------------
(* What the steps of the reader leave alone *)

(* The rows of the backend stay. *)
LEMMA BackendStays ==
    ASSUME QueueInd, BackendOK, Grows, UNCHANGED backendVars
    PROVE  BackendOK'
<1>1. UNCHANGED <<batches, transactions>>
  BY DEF backendVars
<1>2. \A b \in Batch : batches[b] # NULL =>
        /\ IsBuilt(batches[b].fingerprint)'
        /\ batch[b] # NULL
        /\ batch'[b].entries = batch[b].entries
  <2>. SUFFICES ASSUME NEW b \in Batch, batches[b] # NULL
                PROVE  /\ IsBuilt(batches[b].fingerprint)'
                       /\ batch[b] # NULL
                       /\ batch'[b].entries = batch[b].entries
    OBVIOUS
  <2>1. PICK request : request = batches[b].fingerprint
    OBVIOUS
  <2>2. IsBuilt(request) /\ request.batch = b
    BY <2>1 DEF BackendOK, BatchStored
  <2>3. batch[b] # NULL
    BY <2>2 DEF IsBuilt, Fixed
  <2>4. IsBuilt(request)'
    BY <2>2, BuiltStays
  <2>5. request = batches'[b].fingerprint
    BY <1>1, <2>1
  <2>6. IsBuilt(batches[b].fingerprint)'
    BY <2>4, <2>5 DEF IsBuilt
  <2>. QED
    BY <2>3, <2>6 DEF Grows, BatchesStay
<1>3. \A b \in Batch : batches[b] # NULL => BatchStored(b)'
  BY <1>1, <1>2 DEF BackendOK, BatchStored
<1>4. \A t \in Txn : transactions[t] # NULL => TransactionStored(t)'
  BY <1>1, <1>2, SMTT(30) DEF BackendOK, TransactionStored, Grows, RowsStay, Stored
<1>. QED
  BY <1>1, <1>3, <1>4 DEF BackendOK

(* Only a batch that is closed as failed permanently is new in its claim. *)
LEMMA FailedStays ==
    ASSUME QueueInd, FailuresExplained, Grows,
           \A b \in Batch : batch'[b] # NULL /\ batch'[b].state = "permanent_failure" =>
             \/ batch[b] # NULL /\ batch[b].state = "permanent_failure"
             \/ Fixed(b) /\ Refused(LoadSynchronizationBatchRequest(b))
    PROVE  FailuresExplained'
<1>1. ASSUME NEW b \in Batch, batch'[b] # NULL, batch'[b].state = "permanent_failure"
      PROVE  Fixed(b)' /\ Refused(LoadSynchronizationBatchRequest(b))'
  <2>1. PICK request : request = LoadSynchronizationBatchRequest(b)
    OBVIOUS
  <2>2. Fixed(b) /\ Refused(request)
    BY <1>1, <2>1 DEF FailuresExplained
  <2>3. Fixed(b)' /\ LoadSynchronizationBatchRequest(b)' = request
    BY <2>1, <2>2, SameRequest
  <2>4. TooLarge(request) \/ request.batch \in intercepted'
    BY <2>2 DEF Refused, Grows, Intercepts
  <2>. QED
    BY <2>3, <2>4 DEF Refused, TooLarge
<1>2. \A b \in intercepted' : b \in Batch /\ batch'[b] # NULL
  BY DEF FailuresExplained, Grows, Intercepts, BatchesStay
<1>. QED
  BY <1>1, <1>2 DEF FailuresExplained

LEMMA KeepsFailed ==
    ASSUME QueueInd, FailuresExplained, Grows, Keeps
    PROVE  FailuresExplained'
<1>1. \A b \in Batch : batch'[b] # NULL /\ batch'[b].state = "permanent_failure" =>
        batch[b] # NULL /\ batch[b].state = "permanent_failure"
  BY DEF Keeps, Active, ActiveStates, BatchesStay, NoNewBatch
<1>. QED
  BY <1>1, FailedStays

(* Tasks and messages that a step leaves alone. *)
LEMMA TaskStays ==
    ASSUME QueueInd, Grows, \A b \in Batch : batches[b] # NULL => batches'[b] = batches[b],
           NEW task, TaskOK(task)
    PROVE  TaskOK(task)'
<1>1. IsBuilt(task.request) /\ task.batch = task.request.batch
  BY DEF TaskOK
<1>2. IsBuilt(task.request)'
  BY <1>1, BuiltStays
<1>3. task.batch \in Batch
  BY <1>1 DEF IsBuilt
<1>4. Refused(task.request) => Refused(task.request)'
  BY DEF Refused, TooLarge, Grows, Intercepts
<1>. QED
  BY <1>2, <1>3, <1>4 DEF TaskOK

BatchRowsStay == \A b \in Batch : batches[b] # NULL => batches'[b] = batches[b]

LEMMA TasksStay ==
    ASSUME SyncInd, Grows, BatchRowsStay,
           DOMAIN submission' = Submission,
           \A s \in Submission : submission'[s] # NULL =>
             submission'[s] = submission[s] \/ TaskOK(submission[s])'
    PROVE  TasksOK'
<1>. SUFFICES ASSUME NEW s \in Submission, submission'[s] # NULL,
                     submission'[s] = submission[s]
              PROVE  TaskOK(submission[s])'
  BY DEF TasksOK
<1>1. PICK task : task = submission'[s]
  OBVIOUS
<1>2. TaskOK(task)
  BY <1>1 DEF SyncInd, TasksOK
<1>3. TaskOK(task)'
  BY <1>2, TaskStays DEF SyncInd, BatchRowsStay
<1>. QED
  BY <1>1, <1>3 DEF TaskOK, IsBuilt

LEMMA WireStays ==
    ASSUME SyncInd, Grows,
           NEW m, MessageOK(m),
           m.from # NULL => submission'[m.from] = submission[m.from]
    PROVE  MessageOK(m)'
<1>1. IsBuilt(m.request) /\ ~TooLarge(m.request)
  BY DEF MessageOK
<1>2. IsBuilt(m.request)'
  BY <1>1, BuiltStays DEF SyncInd
<1>. QED
  BY <1>1, <1>2 DEF MessageOK, TooLarge

LEMMA CommittedStays ==
    ASSUME AcknowledgementIsCommitted, BatchRowsStay,
           \A b \in Batch : ack'[b] # NULL =>
             /\ ack[b] # NULL
             /\ ack'[b].receivedAt = ack[b].receivedAt
             /\ ack'[b].outcome = ack[b].outcome
    PROVE  AcknowledgementIsCommitted'
<1>. SUFFICES ASSUME NEW b \in Batch, ack'[b] # NULL
              PROVE  /\ batches'[b] # NULL
                     /\ ack'[b].receivedAt = batches'[b].acknowledgement.receivedAt
                     /\ ack'[b].outcome = Translate(batches'[b].acknowledgement)
  BY DEF AcknowledgementIsCommitted, Translate
<1>. QED
  BY DEF AcknowledgementIsCommitted, BatchRowsStay

(* A step that changes the store and neither tasks, messages nor the backend. *)
LEMMA StoreOnly ==
    ASSUME SyncInd, QueueInd', Grows, BindingOK', FailuresExplained',
           UNCHANGED <<ack, submission, wire, backendVars>>
    PROVE  SyncInd'
<1>1. BatchRowsStay
  BY DEF BatchRowsStay, backendVars
<1>2. TasksOK'
  BY <1>1, TasksStay DEF SyncInd, TasksOK
<1>3. WireOK'
  BY WireStays DEF SyncInd, WireOK
<1>4. BackendOK'
  BY BackendStays DEF SyncInd
<1>5. AcknowledgementIsCommitted'
  BY <1>1, CommittedStays DEF SyncInd
<1>. QED
  BY <1>2, <1>3, <1>4, <1>5 DEF SyncInd

-----------------------------------------------------------------------------
(* The actions of the reader process *)

-----------------------------------------------------------------------------
(* The steps of a submission *)

(* Steps that leave the store and the binding alone. *)
LEMMA SameStore ==
    ASSUME SyncInd, UNCHANGED storeVars, UNCHANGED binding, running' => running, Intercepts
    PROVE  QueueInd' /\ Grows /\ BindingOK' /\ FailuresExplained'
<1>1. QueueInd' /\ Keeps
  BY NothingQueue DEF SyncInd
<1>2. Grows
  BY <1>1 DEF Keeps, Grows
<1>3. BindingOK'
  BY DEF BindingOK, SyncInd, storeVars
<1>4. FailuresExplained'
  BY <1>1, <1>2, KeepsFailed DEF SyncInd
<1>. QED
  BY <1>1, <1>2, <1>3, <1>4

(* They keep the invariant if they keep what it says of tasks and messages. *)
LEMMA SubmissionOnly ==
    ASSUME SyncInd, UNCHANGED <<storeVars, binding, backendVars>>, running' => running,
           Intercepts, TasksOK', WireOK'
    PROVE  SyncInd'
<1>1. QueueInd' /\ Grows /\ BindingOK' /\ FailuresExplained'
  BY SameStore
<1>2. BackendOK'
  BY <1>1, BackendStays DEF SyncInd
<1>3. AcknowledgementIsCommitted'
  <2>1. BatchRowsStay /\ UNCHANGED ack
    BY DEF BatchRowsStay, backendVars, storeVars
  <2>. QED
    BY <2>1, CommittedStays DEF SyncInd
<1>. QED
  BY <1>1, <1>2, <1>3 DEF SyncInd

(* A message that has lost its client. *)
LEMMA AbandonedOK ==
    ASSUME SyncInd, Grows, NEW S \in SUBSET Submission,
           \A s \in Submission \ S : submission'[s] = submission[s],
           wire' = Abandoned(S)
    PROVE  WireOK'
<1>. SUFFICES ASSUME NEW m \in wire
              PROVE  MessageOK([m EXCEPT !.from = IF @ \in S THEN NULL ELSE @])'
  BY DEF WireOK, Abandoned
<1>1. MessageOK(m) /\ m = [request |-> m.request, from |-> m.from]
  BY DEF SyncInd, WireOK, MessageOK
<1>2. CASE m.from \in S
  <2>1. [m EXCEPT !.from = IF @ \in S THEN NULL ELSE @] = [request |-> m.request, from |-> NULL]
    BY <1>1, <1>2, SMTT(30)
  <2>2. IsBuilt(m.request) /\ ~TooLarge(m.request)
    BY <1>1 DEF MessageOK
  <2>3. IsBuilt(m.request)'
    BY <2>2, BuiltStays DEF SyncInd
  <2>. QED
    BY <2>1, <2>2, <2>3 DEF MessageOK, TooLarge
<1>3. CASE m.from \notin S
  <2>1. [m EXCEPT !.from = IF @ \in S THEN NULL ELSE @] = m
    BY <1>1, <1>3
  <2>2. MessageOK(m)'
    BY <1>1, <1>3, WireStays DEF MessageOK
  <2>. QED
    BY <2>1, <2>2
<1>. QED
  BY <1>2, <1>3

(* The messages of the other submissions. *)
LEMMA OtherMessages ==
    ASSUME SyncInd, Grows, NEW s \in Submission,
           submission[s] = NULL \/ submission[s].pc # "waiting",
           \A o \in Submission : o # s => submission'[o] = submission[o]
    PROVE  \A m \in wire : MessageOK(m)'
<1>. SUFFICES ASSUME NEW m \in wire
              PROVE  MessageOK(m)'
  OBVIOUS
<1>1. MessageOK(m)
  BY DEF SyncInd, WireOK
<1>2. m.from # NULL => m.from \in Submission /\ m.from # s
  BY <1>1 DEF MessageOK
<1>. QED
  BY <1>1, <1>2, WireStays

(* A task that fails for a reason that the system has. *)
LEMMA FailedTask ==
    ASSUME NEW task, TaskOK(task), NEW category, category \notin Refusals
    PROVE  TaskOK(Failed(task, category))
<1>. DEFINE failed == [task EXCEPT !.pc = "failed", !.category = category]
<1>1. /\ DOMAIN failed = DOMAIN task
      /\ failed.request = task.request /\ failed.batch = task.batch
      /\ failed.completedAt = task.completedAt /\ failed.retryAt = task.retryAt
      /\ failed.pc = "failed" /\ failed.category = category
  BY DEF TaskOK
<1>. HIDE DEF failed
<1>2. TaskOK(failed)
  BY <1>1 DEF TaskOK
<1>. QED
  BY <1>2 DEF Failed, failed

LEMMA GiveUpInv ==
    ASSUME SyncInd, NEW s \in Submission, NEW category,
           category \in {"network_timeout", "connection_failure", "response_decode_failure"},
           GiveUp(s, category)
    PROVE  SyncInd'
<1>1. /\ submission[s] # NULL
      /\ submission' = [submission EXCEPT ![s] = Failed(submission[s], category)]
      /\ wire' = Abandoned({s})
      /\ UNCHANGED <<storeVars, binding, running, backendVars>> /\ Intercepts
  BY DEF GiveUp, Intercepts
<1>2. Grows
  BY <1>1, SameStore
<1>3. DOMAIN submission = Submission /\ TaskOK(submission[s])
  BY <1>1 DEF SyncInd, TasksOK
<1>4. PICK task : task = Failed(submission[s], category)
  OBVIOUS
<1>5. TaskOK(task)
  BY <1>3, <1>4, FailedTask DEF Refusals
<1>6. BatchRowsStay
  BY <1>1 DEF BatchRowsStay, backendVars
<1>7. TaskOK(task)'
  BY <1>2, <1>5, <1>6, TaskStays DEF SyncInd, BatchRowsStay
<1>8. submission'[s] = task /\ \A o \in Submission : o # s => submission'[o] = submission[o]
  BY <1>1, <1>3, <1>4
<1>9. TaskOK(submission[s])'
  BY <1>7, <1>8 DEF TaskOK, IsBuilt
<1>10. TasksOK'
  BY <1>1, <1>2, <1>3, <1>6, <1>8, <1>9, TasksStay
<1>11. WireOK'
  BY <1>1, <1>2, <1>8, AbandonedOK
<1>. QED
  BY <1>1, <1>10, <1>11, SubmissionOnly

(* A gateway answers: the batch is noted when the task fails for good. *)
LEMMA GatewayInv ==
    ASSUME SyncInd, NEW s \in Submission, NEW category \in ForeignCategory,
           AnsweredInBetween(s, category)
    PROVE  SyncInd'
<1>1. PICK task : task = submission[s]
  OBVIOUS
<1>2. /\ task # NULL
      /\ submission' = [submission EXCEPT ![s] = Failed(task, category)]
      /\ wire' = Abandoned({s})
      /\ intercepted' = IF category \in {"payload_too_large", "backend_validation_failure"}
                        THEN intercepted \cup {task.batch} ELSE intercepted
      /\ UNCHANGED <<storeVars, binding, running, backendVars>>
  BY <1>1 DEF AnsweredInBetween
<1>3. DOMAIN submission = Submission /\ TaskOK(task)
  BY <1>1, <1>2 DEF SyncInd, TasksOK
<1>4. task.batch \in Batch /\ batch[task.batch] # NULL /\ task.request.batch = task.batch
  BY <1>3 DEF TaskOK, IsBuilt, Fixed
<1>5. Intercepts
  BY <1>2, <1>4 DEF Intercepts
<1>6. Grows /\ BatchRowsStay
  BY <1>2, <1>5, SameStore DEF BatchRowsStay, backendVars
<1>7. TaskOK(task)'
  BY <1>3, <1>6, TaskStays DEF SyncInd, BatchRowsStay
<1>8. category # "unsupported_protocol"
  <2>1. \A status : FallbackStatusCategory(status) # "unsupported_protocol"
    BY SMTT(30) DEF FallbackStatusCategory
  <2>. QED
    BY <2>1 DEF ForeignCategory
<1>9. category \in Refusals => Refused(task.request)'
  BY <1>2, <1>4, <1>8 DEF Refusals, Refused
<1>10. PICK new : new = Failed(task, category)
  OBVIOUS
<1>11. /\ DOMAIN new = DOMAIN task
       /\ new.request = task.request /\ new.batch = task.batch
       /\ new.completedAt = task.completedAt /\ new.retryAt = task.retryAt
       /\ new.pc = "failed" /\ new.category = category
  BY <1>3, <1>10 DEF TaskOK, Failed
<1>12. TaskOK(new)'
  BY <1>7, <1>9, <1>11 DEF TaskOK
<1>13. submission'[s] = new /\ \A o \in Submission : o # s => submission'[o] = submission[o]
  BY <1>2, <1>3, <1>10
<1>14. TaskOK(submission[s])'
  BY <1>12, <1>13 DEF TaskOK, IsBuilt, Refused
<1>15. TasksOK'
  BY <1>2, <1>3, <1>6, <1>13, <1>14, TasksStay
<1>16. WireOK'
  BY <1>2, <1>6, <1>13, AbandonedOK
<1>. QED
  BY <1>2, <1>5, <1>15, <1>16, SubmissionOnly

(* The end of a submission. *)
LEMMA EndsOK ==
    ASSUME SyncInd, Grows, BatchRowsStay, NEW s \in Submission,
           submission[s] # NULL, submission[s].pc # "waiting", Ends(s), UNCHANGED wire
    PROVE  TasksOK' /\ WireOK'
<1>1. /\ DOMAIN submission' = Submission
      /\ submission'[s] = NULL
      /\ \A o \in Submission : o # s => submission'[o] = submission[o]
  BY DEF Ends, SyncInd, TasksOK
<1>2. TasksOK'
  BY <1>1, TasksStay
<1>3. WireOK'
  BY <1>1, OtherMessages DEF WireOK
<1>. QED
  BY <1>2, <1>3

LEMMA SubmissionErrorInv ==
    ASSUME SyncInd, NEW s \in Submission, SubmissionError(s)
    PROVE  SyncInd'
<1>1. Grows /\ BatchRowsStay
  BY SameStore DEF SubmissionError, BatchRowsStay, backendVars, Intercepts
<1>2. TasksOK' /\ WireOK'
  BY <1>1, EndsOK DEF SubmissionError
<1>. QED
  BY <1>2, SubmissionOnly DEF SubmissionError, Intercepts

(* A closed batch that has failed permanently has a request that was refused. *)
LEMMA ClosesFailed ==
    ASSUME QueueInd, FailuresExplained, Grows, NEW b \in Batch, NEW state \in FinalState,
           Closes(b, state),
           state = "permanent_failure" => Fixed(b) /\ Refused(LoadSynchronizationBatchRequest(b))
    PROVE  FailuresExplained'
<1>1. \A c \in Batch : batch'[c] # NULL /\ batch'[c].state = "permanent_failure" =>
        \/ batch[c] # NULL /\ batch[c].state = "permanent_failure"
        \/ Fixed(c) /\ Refused(LoadSynchronizationBatchRequest(c))
  <2>. SUFFICES ASSUME NEW c \in Batch, batch'[c] # NULL,
                       batch'[c].state = "permanent_failure"
                PROVE  \/ batch[c] # NULL /\ batch[c].state = "permanent_failure"
                       \/ Fixed(c) /\ Refused(LoadSynchronizationBatchRequest(c))
    OBVIOUS
  <2>1. CASE c = b
    BY <2>1 DEF Closes
  <2>2. CASE c # b
    BY <2>2 DEF Closes
  <2>. QED
    BY <2>1, <2>2
<1>. QED
  BY <1>1, FailedStays

LEMMA RecordFailureInv ==
    ASSUME SyncInd, NEW s \in Submission, RecordFailure(s)
    PROVE  SyncInd'
<1>1. PICK task : task = submission[s]
  OBVIOUS
<1>. DEFINE state == FailureDisposition(task.category)
<1>2. /\ task # NULL /\ task.pc = "failed" /\ Ends(s)
      /\ UNCHANGED <<binding, running, wire, backendVars>> /\ Intercepts
      /\ IF state = "retryable_failure"
         THEN RecordSynchronizationRetryableFailure(task.batch, task.completedAt, task.retryAt)
         ELSE RecordFinalSynchronizationFailure(task.batch, state, task.completedAt)
  BY <1>1 DEF RecordFailure, Intercepts
<1>3. TaskOK(task) /\ task.batch \in Batch
  BY <1>1, <1>2 DEF SyncInd, TasksOK, TaskOK, IsBuilt
<1>4. BatchRowsStay
  BY <1>2 DEF BatchRowsStay, backendVars
<1>5. ASSUME QueueInd', Grows, FailuresExplained', UNCHANGED ack,
             \A b \in Batch : batch'[b] # NULL => batch[b] # NULL
      PROVE  SyncInd'
  <2>1. TasksOK' /\ WireOK'
    BY <1>1, <1>2, <1>4, <1>5, EndsOK
  <2>2. BindingOK'
    BY <1>2, <1>5 DEF SyncInd, BindingOK
  <2>3. BackendOK'
    BY <1>2, <1>5, BackendStays DEF SyncInd
  <2>4. AcknowledgementIsCommitted'
    BY <1>4, <1>5, CommittedStays DEF SyncInd
  <2>. QED
    BY <1>5, <2>1, <2>2, <2>3, <2>4 DEF SyncInd
<1>6. CASE state = "retryable_failure"
  <2>1. QueueInd' /\ Keeps /\ UNCHANGED <<txn, ack>>
    BY <1>2, <1>3, <1>6, RetryableFailureQueue DEF SyncInd, TaskOK
  <2>2. Grows
    BY <1>2, <2>1 DEF Grows, Keeps
  <2>3. FailuresExplained'
    BY <2>1, <2>2, KeepsFailed DEF SyncInd
  <2>. QED
    BY <1>5, <2>1, <2>2, <2>3 DEF Keeps, NoNewBatch
<1>7. CASE state # "retryable_failure"
  <2>1. /\ state \in FinalFailure
        /\ state = "permanent_failure" => task.category \in Refusals
    BY <1>3, <1>7 DEF FailureDisposition, FinalFailure, Refusals
  <2>. HIDE DEF state
  <2>2. QueueInd' /\ Closes(task.batch, state) /\ UNCHANGED ack
    BY <1>2, <1>3, <1>7, <2>1, FailureQueue DEF SyncInd, TaskOK
  <2>3. Grows
    BY <1>2, <2>2 DEF Grows, Closes
  <2>4. state = "permanent_failure" =>
          Fixed(task.batch) /\ Refused(LoadSynchronizationBatchRequest(task.batch))
    BY <1>3, <2>1 DEF TaskOK, IsBuilt
  <2>5. state \in FinalState
    BY <2>1 DEF FinalFailure, FinalState
  <2>6. FailuresExplained'
    BY <1>3, <2>2, <2>3, <2>4, <2>5, ClosesFailed DEF SyncInd
  <2>. QED
    BY <1>5, <2>2, <2>3, <2>6 DEF Closes, NoNewBatch
<1>. QED
  BY <1>6, <1>7

(* What a task knows of the acknowledgement it received. *)
LEMMA TaskAcknowledgement ==
    ASSUME SyncInd, NEW task, TaskOK(task), task.pc \in {"store", "apply"}
    PROVE  /\ task.batch \in Batch /\ batches[task.batch] # NULL
           /\ task.ack.receivedAt \in Time
           /\ task.ack.receivedAt = batches[task.batch].acknowledgement.receivedAt
           /\ Translate(task.ack) = Translate(batches[task.batch].acknowledgement)
<1>TranslateSame. ASSUME NEW a, NEW c, SameAcknowledgement(a, c)
                  PROVE  Translate(a) = Translate(c)
  BY <1>TranslateSame DEF SameAcknowledgement, Translate
<1>1. /\ task.batch \in Batch /\ batches[task.batch] # NULL
      /\ SameAcknowledgement(task.ack, batches[task.batch].acknowledgement)
  BY DEF TaskOK, IsBuilt
<1>2. BatchStored(task.batch)
  BY <1>1 DEF SyncInd, BackendOK
<1>. DEFINE request == batches[task.batch].fingerprint
<1>3. PICK at \in Time :
        batches[task.batch] = Backend!BatchRow(request, Backend!BuildAcknowledgement(request, at))
  BY <1>2 DEF BatchStored
<1>. HIDE DEF request
<1>4. batches[task.batch].acknowledgement.receivedAt = at
  <2>1. batches[task.batch].acknowledgement = Backend!BuildAcknowledgement(request, at)
    BY <1>3, SMTT(30) DEF Backend!BatchRow
  <2>. QED
    BY <2>1, ReplaySame
<1>5. Translate(task.ack) = Translate(batches[task.batch].acknowledgement)
  BY <1>1, <1>TranslateSame
<1>. QED
  BY <1>1, <1>4, <1>5 DEF SameAcknowledgement

LEMMA StoreAcknowledgementInv ==
    ASSUME SyncInd, NEW s \in Submission, StoreAcknowledgement(s)
    PROVE  SyncInd'
<1>StoreQueue. ASSUME QueueInd, NEW b \in Batch, NEW at \in Time, NEW outcome,
                      StoreSynchronizationAcknowledgement(b, at, outcome)
               PROVE  QueueInd' /\ Keeps /\ UNCHANGED <<txn, batch>>
  <2>. USE <1>StoreQueue
  <2>1. UNCHANGED <<txn, batch>>
    BY DEF StoreSynchronizationAcknowledgement
  <2>2. Keeps
    BY <2>1 DEF Keeps, RowsStay, BatchesStay, NoNewBatch, Active, Stored
  <2>3. BatchNext
    <3>1. batch[b] # NULL /\ outcome \in [batch[b].entries -> Resolution]
      BY DEF StoreSynchronizationAcknowledgement, ValidAcknowledgement
    <3>. QED
      BY <3>1 DEF BatchNext
  <2>4. SequencesBounded'
    BY <2>1 DEF QueueInd, SequencesBounded, Stored
  <2>. QED
    BY <2>1, <2>2, <2>3, <2>4, BatchNextQueue
<1>1. PICK task : task = submission[s]
  OBVIOUS
<1>. DEFINE b == task.batch
            outcome == Translate(task.ack)
<1>2. /\ task # NULL /\ task.pc = "store"
      /\ submission' = [submission EXCEPT ![s].pc = "apply"]
      /\ UNCHANGED <<binding, running, wire, backendVars>> /\ Intercepts
      /\ \/ StoreSynchronizationAcknowledgement(b, task.ack.receivedAt, outcome)
         \/ UNCHANGED storeVars
  BY <1>1 DEF StoreAcknowledgement, Intercepts
<1>3. TaskOK(task) /\ DOMAIN submission = Submission
  BY <1>1, <1>2 DEF SyncInd, TasksOK
<1>4. /\ b \in Batch /\ batches[b] # NULL
      /\ task.ack.receivedAt \in Time
      /\ task.ack.receivedAt = batches[b].acknowledgement.receivedAt
      /\ outcome = Translate(batches[b].acknowledgement)
  BY <1>2, <1>3, TaskAcknowledgement
<1>. HIDE DEF outcome
<1>5. BatchRowsStay
  BY <1>2 DEF BatchRowsStay, backendVars
<1>6. QueueInd' /\ Keeps /\ UNCHANGED batch
  BY <1>2, <1>4, <1>StoreQueue, NothingQueue DEF SyncInd, storeVars
<1>7. Grows
  BY <1>2, <1>6 DEF Grows, Keeps
<1>8. FailuresExplained' /\ BindingOK' /\ BackendOK'
  BY <1>2, <1>6, <1>7, KeepsFailed, BackendStays DEF SyncInd, BindingOK
<1>9. AcknowledgementIsCommitted'
  <2>1. CASE UNCHANGED storeVars
    BY <1>5, <2>1, CommittedStays DEF SyncInd, storeVars
  <2>2. CASE StoreSynchronizationAcknowledgement(b, task.ack.receivedAt, outcome)
    <3>1. /\ ack'[b].receivedAt = task.ack.receivedAt
          /\ ack'[b].outcome = outcome
          /\ \A c \in Batch : c # b => ack'[c] = ack[c]
      BY <1>4, <2>2 DEF StoreSynchronizationAcknowledgement, SyncInd, QueueInd, StoreInd,
         StoreTypeOK
    <3>. SUFFICES ASSUME NEW c \in Batch, ack'[c] # NULL
                  PROVE  /\ batches'[c] # NULL
                         /\ ack'[c].receivedAt = batches'[c].acknowledgement.receivedAt
                         /\ ack'[c].outcome = Translate(batches'[c].acknowledgement)
      BY DEF AcknowledgementIsCommitted, Translate
    <3>2. CASE c = b
      BY <1>4, <1>5, <3>1, <3>2 DEF BatchRowsStay
    <3>3. CASE c # b
      BY <1>5, <3>1, <3>3 DEF BatchRowsStay, SyncInd, AcknowledgementIsCommitted
    <3>. QED
      BY <3>2, <3>3
  <2>. QED
    BY <1>2, <2>1, <2>2
<1>10. PICK new : new = [task EXCEPT !.pc = "apply"]
  OBVIOUS
<1>11. TaskOK(new)
  <2>1. /\ DOMAIN new = DOMAIN task
        /\ new.request = task.request /\ new.batch = task.batch
        /\ new.completedAt = task.completedAt /\ new.retryAt = task.retryAt
        /\ new.pc = "apply" /\ new.category = task.category /\ new.ack = task.ack
    BY <1>3, <1>10 DEF TaskOK
  <2>. QED
    BY <1>2, <1>3, <2>1 DEF TaskOK
<1>12. TaskOK(new)'
  BY <1>5, <1>7, <1>11, TaskStays DEF SyncInd, BatchRowsStay
<1>13. submission'[s] = new /\ \A o \in Submission : o # s => submission'[o] = submission[o]
  BY <1>1, <1>2, <1>3, <1>10
<1>14. TaskOK(submission[s])'
  BY <1>12, <1>13 DEF TaskOK, IsBuilt
<1>15. TasksOK'
  BY <1>2, <1>3, <1>5, <1>7, <1>13, <1>14, TasksStay
<1>16. WireOK'
  BY <1>1, <1>2, <1>7, <1>13, OtherMessages DEF WireOK
<1>. QED
  BY <1>6, <1>8, <1>9, <1>15, <1>16 DEF SyncInd

LEMMA ApplyAcknowledgementInv ==
    ASSUME SyncInd, RequestsListed, NEW s \in Submission, ApplyAcknowledgement(s)
    PROVE  SyncInd'
<1>1. PICK task : task = submission[s]
  OBVIOUS
<1>2. PICK appliedAt :
        appliedAt = IF task.completedAt > task.ack.receivedAt
                    THEN task.completedAt ELSE task.ack.receivedAt
  OBVIOUS
<1>. DEFINE b == task.batch
<1>3. /\ task # NULL /\ task.pc = "apply" /\ Ends(s)
      /\ UNCHANGED <<binding, running, wire, backendVars>> /\ Intercepts
      /\ \/ ApplySynchronizationAcknowledgement(b, appliedAt)
         \/ UNCHANGED storeVars
  BY <1>1, <1>2 DEF ApplyAcknowledgement, Intercepts
<1>4. TaskOK(task)
  BY <1>1, <1>3 DEF SyncInd, TasksOK
<1>5. b \in Batch /\ appliedAt \in Time
  BY <1>2, <1>3, <1>4, TaskAcknowledgement DEF TaskOK
<1>6. BatchRowsStay
  BY <1>3 DEF BatchRowsStay, backendVars
<1>7. CASE UNCHANGED storeVars
  <2>1. Grows
    BY <1>3, <1>7, SameStore
  <2>2. TasksOK' /\ WireOK'
    BY <1>1, <1>3, <1>6, <2>1, EndsOK
  <2>. QED
    BY <1>3, <1>7, <2>2, SubmissionOnly
<1>8. CASE ApplySynchronizationAcknowledgement(b, appliedAt)
  <2>1. ack[b] # NULL
    BY <1>8 DEF ApplySynchronizationAcknowledgement
  <2>2. AllAccepted(b)
    BY <1>5, <2>1, StoredAccepts
  <2>3. QueueInd' /\ Closes(b, "acknowledged")
    BY <1>5, <1>8, <2>2, ApplyQueue DEF SyncInd
  <2>4. Grows
    BY <1>3, <2>3 DEF Grows, Closes
  <2>5. FailuresExplained'
    BY <1>5, <2>3, <2>4, ClosesFailed DEF SyncInd, FinalState
  <2>6. BindingOK'
    BY <1>3, <2>3 DEF SyncInd, BindingOK, Closes, NoNewBatch
  <2>7. BackendOK'
    BY <1>3, <2>4, BackendStays DEF SyncInd
  <2>8. AcknowledgementIsCommitted'
    <3>1. ack' = [ack EXCEPT ![b].appliedAt = appliedAt]
      BY <1>8 DEF ApplySynchronizationAcknowledgement
    <3>2. DOMAIN ack = Batch /\ ack[b] \in AckRow(batch[b].entries)
      BY <1>5, <2>1 DEF SyncInd, QueueInd, StoreInd, StoreTypeOK
    <3>3. /\ ack'[b].receivedAt = ack[b].receivedAt
          /\ ack'[b].outcome = ack[b].outcome
          /\ \A c \in Batch : c # b => ack'[c] = ack[c]
      BY <1>5, <3>1, <3>2 DEF AckRow
    <3>4. \A c \in Batch : ack'[c] # NULL =>
            /\ ack[c] # NULL
            /\ ack'[c].receivedAt = ack[c].receivedAt
            /\ ack'[c].outcome = ack[c].outcome
      BY <2>1, <3>3
    <3>. QED
      BY <1>6, <3>4, CommittedStays DEF SyncInd
  <2>9. TasksOK' /\ WireOK'
    BY <1>1, <1>3, <1>6, <2>4, EndsOK
  <2>. QED
    BY <2>3, <2>5, <2>6, <2>7, <2>8, <2>9 DEF SyncInd
<1>. QED
  BY <1>3, <1>7, <1>8

-----------------------------------------------------------------------------
(* The backend *)

(* The answer to one message changes the task that waits for it. *)
LEMMA AnswerOK ==
    ASSUME SyncInd, Grows, BatchRowsStay, NEW m \in wire, wire' = wire \ {m},
           NEW new,
           \/ UNCHANGED submission
           \/ /\ m.from # NULL
              /\ submission' = [submission EXCEPT ![m.from] = new]
              /\ TaskOK(new)'
    PROVE  TasksOK' /\ WireOK'
<1>1. DOMAIN submission = Submission /\ MessageOK(m)
  BY DEF SyncInd, TasksOK, WireOK
<1>2. CASE UNCHANGED submission
  <2>1. TasksOK'
    BY <1>1, <1>2, TasksStay
  <2>2. \A o \in wire : MessageOK(o)'
    BY <1>2, WireStays DEF SyncInd, WireOK
  <2>. QED
    BY <2>1, <2>2 DEF WireOK
<1>3. CASE /\ m.from # NULL
           /\ submission' = [submission EXCEPT ![m.from] = new]
           /\ TaskOK(new)'
  <2>1. m.from \in Submission
    BY <1>1, <1>3 DEF MessageOK
  <2>2. /\ DOMAIN submission' = Submission
        /\ submission'[m.from] = new
        /\ \A s \in Submission : s # m.from => submission'[s] = submission[s]
    BY <1>1, <1>3, <2>1
  <2>3. TaskOK(submission[m.from])'
    BY <1>3, <2>2 DEF TaskOK, IsBuilt
  <2>4. TasksOK'
    BY <2>1, <2>2, <2>3, TasksStay
  <2>5. ASSUME NEW o \in wire, o # m
        PROVE  MessageOK(o)'
    <3>1. MessageOK(o)
      BY DEF SyncInd, WireOK
    <3>2. o.from # NULL => o.from # m.from
      BY <1>1, <1>3, <2>5, <3>1 DEF MessageOK
    <3>3. o.from # NULL => submission'[o.from] = submission[o.from]
      BY <2>2, <3>1, <3>2 DEF MessageOK
    <3>. QED
      BY <3>1, <3>3, WireStays
  <2>6. WireOK'
    BY <2>5 DEF WireOK
  <2>. QED
    BY <2>4, <2>6
<1>. QED
  BY <1>2, <1>3

LEMMA AnswerFailureInv ==
    ASSUME SyncInd, NEW m \in wire, NEW category, category \notin Refusals,
           AnswerFailure(m, category), UNCHANGED backendVars
    PROVE  SyncInd'
<1>1. /\ wire' = wire \ {m}
      /\ \/ UNCHANGED submission
         \/ /\ m.from # NULL
            /\ submission' = [submission EXCEPT ![m.from] = Failed(submission[m.from], category)]
      /\ UNCHANGED <<storeVars, binding, running>> /\ Intercepts
  BY DEF AnswerFailure, Answer, Intercepts
<1>2. Grows /\ BatchRowsStay
  BY <1>1, SameStore DEF BatchRowsStay, backendVars
<1>3. PICK new : new = Failed(submission[m.from], category)
  OBVIOUS
<1>4. m.from # NULL => TaskOK(submission[m.from])
  BY DEF SyncInd, TasksOK, WireOK, MessageOK
<1>5. m.from # NULL => TaskOK(new)
  BY <1>3, <1>4, FailedTask
<1>6. m.from # NULL => TaskOK(new)'
  BY <1>2, <1>5, TaskStays DEF SyncInd, BatchRowsStay
<1>7. TasksOK' /\ WireOK'
  BY <1>1, <1>2, <1>3, <1>6, AnswerOK
<1>. QED
  BY <1>1, <1>7, SubmissionOnly

(* The answer is the acknowledgement that is committed with the batch. *)
LEMMA AcknowledgeOK ==
    ASSUME SyncInd, Grows, BatchRowsStay, NEW m \in wire, NEW a, Acknowledge(m, a),
           batches'[m.request.batch] # NULL,
           SameAcknowledgement(a, batches'[m.request.batch].acknowledgement)
    PROVE  TasksOK' /\ WireOK'
<1>1. /\ wire' = wire \ {m}
      /\ \/ UNCHANGED submission
         \/ /\ m.from # NULL
            /\ submission' = [submission EXCEPT ![m.from] = Received(submission[m.from], a)]
  BY DEF Acknowledge, Answer
<1>2. PICK task : task = submission[m.from]
  OBVIOUS
<1>3. PICK new : new = Received(task, a)
  OBVIOUS
<1>4. m.from # NULL => TaskOK(task) /\ task.request = m.request
  BY <1>2 DEF SyncInd, TasksOK, WireOK, MessageOK
<1>5. ASSUME m.from # NULL
      PROVE  TaskOK(new)'
  <2>1. TaskOK(task) /\ task.batch = m.request.batch
    BY <1>4, <1>5 DEF TaskOK
  <2>2. CASE new = Failed(task, "response_decode_failure")
    <3>1. TaskOK(new)
      BY <2>1, <2>2, FailedTask DEF Refusals
    <3>. QED
      BY <3>1, TaskStays DEF SyncInd, BatchRowsStay
  <2>3. CASE new = [task EXCEPT !.pc = "store", !.ack = a]
    <3>1. TaskOK(task)'
      BY <2>1, TaskStays DEF SyncInd, BatchRowsStay
    <3>2. /\ DOMAIN new = DOMAIN task
          /\ new.request = task.request /\ new.batch = task.batch
          /\ new.completedAt = task.completedAt /\ new.retryAt = task.retryAt
          /\ new.pc = "store" /\ new.category = task.category /\ new.ack = a
      BY <2>1, <2>3 DEF TaskOK
    <3>. QED
      BY <2>1, <3>1, <3>2 DEF TaskOK
  <2>. QED
    BY <1>3, <2>2, <2>3 DEF Received
<1>. QED
  BY <1>1, <1>2, <1>3, <1>5, AnswerOK

(* A replay always matches the batch. *)
LEMMA ReplayMatches ==
    ASSUME SyncInd, NEW request, IsBuilt(request), batches[request.batch] # NULL
    PROVE  /\ Backend!BatchMatches(batches[request.batch], request)
           /\ SameAcknowledgement(
                Backend!WithReplayed(batches[request.batch].acknowledgement, TRUE),
                batches[request.batch].acknowledgement)
<1>. DEFINE b == request.batch
<1>1. b \in Batch
  BY DEF IsBuilt
<1>2. BatchStored(b)
  BY <1>1 DEF SyncInd, BackendOK
<1>3. PICK stored : stored = batches[b].fingerprint
  OBVIOUS
<1>4. PICK at \in Time :
        batches[b] = Backend!BatchRow(stored, Backend!BuildAcknowledgement(stored, at))
  BY <1>2, <1>3 DEF BatchStored
<1>5. stored = request
  BY <1>2, <1>3, OneRequest DEF BatchStored
<1>6. /\ batches[b].reader = request.reader
      /\ batches[b].fingerprint = request
      /\ batches[b].acknowledgement = Backend!BuildAcknowledgement(request, at)
  BY <1>3, <1>4, <1>5, SMTT(30) DEF Backend!BatchRow
<1>7. Backend!BatchMatches(batches[b], request)
  BY <1>6 DEF Backend!BatchMatches, Backend!RequestFingerprint
<1>8. SameAcknowledgement(
        Backend!WithReplayed(batches[b].acknowledgement, TRUE), batches[b].acknowledgement)
  <2>1. SameAcknowledgement(
          Backend!WithReplayed(Backend!BuildAcknowledgement(request, at), TRUE),
          Backend!BuildAcknowledgement(request, at))
    BY ReplaySame
  <2>. QED
    BY <1>6, <2>1
<1>. QED
  BY <1>7, <1>8

(* The prepared rows of a request of the reader. *)
LEMMA PreparedFacts ==
    ASSUME QueueInd, RequestsListed, NEW request, IsBuilt(request), NEW at,
           NEW prepared, prepared = Backend!Prepared(request, Backend!BuildAcknowledgement(request, at))
    PROVE  /\ \A entry \in prepared :
                /\ entry.txn \in batch[request.batch].entries
                /\ entry.sequence = txn[entry.txn].sequence
                /\ entry.fingerprint = Envelope(entry.txn)
           /\ \A t \in batch[request.batch].entries : \E entry \in prepared : entry.txn = t
<1>1. /\ \A i \in DOMAIN request.entries :
           /\ request.entries[i].txn \in batch[request.batch].entries
           /\ request.entries[i].sequence = txn[request.entries[i].txn].sequence
           /\ request.entries[i].envelope = Envelope(request.entries[i].txn)
      /\ \A t \in batch[request.batch].entries :
           \E i \in DOMAIN request.entries : request.entries[i].txn = t
  BY RequestFacts
<1>. DEFINE Row(i) == Backend!PreparedEntry(request, Backend!BuildAcknowledgement(request, at), i)
<1>2. prepared = {Row(i) : i \in DOMAIN request.entries}
  BY DEF Backend!Prepared
<1>3. \A i \in DOMAIN request.entries :
        /\ Row(i).txn = request.entries[i].txn
        /\ Row(i).sequence = request.entries[i].sequence
        /\ Row(i).fingerprint = request.entries[i].envelope
  BY DEF Backend!PreparedEntry, Backend!TransactionFingerprint
<1>. HIDE DEF Row
<1>. QED
  BY <1>1, <1>2, <1>3, SMTT(30)

(* No identity in the tables contradicts one of a new batch of the reader. *)
LEMMA ConsistentEntries ==
    ASSUME SyncInd, RequestsListed, NEW request, IsBuilt(request), request.reader = Reader, NEW at,
           NEW entry \in Backend!Prepared(request, Backend!BuildAcknowledgement(request, at))
    PROVE  Backend!ConsistentIdentity(request, entry)
<1>1. /\ entry.txn \in batch[request.batch].entries
      /\ entry.sequence = txn[entry.txn].sequence
      /\ entry.fingerprint = Envelope(entry.txn)
  BY PreparedFacts, SMTT(30) DEF SyncInd
<1>2. entry.txn \in Txn /\ Stored(entry.txn)
  <2>1. request.batch \in Batch /\ batch[request.batch] # NULL
    BY DEF IsBuilt, Fixed
  <2>. QED
    BY <1>1, <2>1, EntrySequences DEF SyncInd, QueueInd, EntriesSettled
<1>. SUFFICES ASSUME NEW t \in Backend!SameIdentity(transactions, request, entry)
              PROVE  Backend!TransactionIdentityMatches(transactions, t, request, entry)
  BY DEF Backend!ConsistentIdentity
<1>3. /\ t \in Txn /\ transactions[t] # NULL
      /\ t = entry.txn \/ transactions[t].sequence = entry.sequence
  BY DEF Backend!SameIdentity
<1>4. /\ Stored(t)
      /\ transactions[t].reader = Reader
      /\ transactions[t].sequence = txn[t].sequence
      /\ transactions[t].fingerprint = Envelope(t)
  BY <1>3 DEF SyncInd, BackendOK, TransactionStored
<1>5. t = entry.txn
  BY <1>1, <1>2, <1>3, <1>4, SMTT(30) DEF SyncInd, QueueInd, StoreInd, SequenceAllocation
<1>. QED
  BY <1>1, <1>4, <1>5 DEF Backend!TransactionIdentityMatches

(* A new batch enters the tables with all its entries. *)
LEMMA IngestOK ==
    ASSUME SyncInd, RequestsListed, Grows, UNCHANGED storeVars,
           NEW request, IsBuilt(request), ~TooLarge(request), request.reader = Reader,
           NEW at \in Time,
           Backend!Ingest(request, Backend!BuildAcknowledgement(request, at))
    PROVE  /\ BackendOK' /\ BatchRowsStay
           /\ batches'[request.batch] # NULL
           /\ batches'[request.batch].acknowledgement = Backend!BuildAcknowledgement(request, at)
           /\ \A t \in batch[request.batch].entries :
                transactions[t] = NULL /\ transactions'[t] # NULL
           /\ \A t \in Txn \ batch[request.batch].entries : transactions'[t] = transactions[t]
<1>. DEFINE b == request.batch
<1>1. PICK a : a = Backend!BuildAcknowledgement(request, at)
  OBVIOUS
<1>2. PICK prepared : prepared = Backend!Prepared(request, a)
  OBVIOUS
<1>3. PICK row : row = Backend!BatchRow(request, a)
  OBVIOUS
<1>4. /\ batches[b] = NULL
      /\ batches' = [batches EXCEPT ![b] = row]
      /\ transactions' = [t \in Txn |->
           IF \E entry \in prepared : entry.txn = t
           THEN Backend!TransactionAfter(request, CHOOSE entry \in prepared : entry.txn = t)
           ELSE transactions[t]]
  BY <1>1, <1>2, <1>3 DEF Backend!Ingest
<1>5. /\ b \in Batch /\ batch[b] # NULL
      /\ request \in PossibleRequest
      /\ batch[b].entries \subseteq Txn
  BY RequestFacts, EntrySequences DEF SyncInd
<1>6. row # NULL /\ \A entry \in prepared : Backend!NewTransaction(request, entry) # NULL
  BY <1>1, <1>2, <1>3, <1>5, SyncAssumption
<1>7. row.fingerprint = request /\ row.acknowledgement = a
  BY <1>3 DEF Backend!BatchRow, Backend!RequestFingerprint
<1>8. /\ DOMAIN batches' = Batch
      /\ batches'[b] = row
      /\ \A c \in Batch : c # b => batches'[c] = batches[c]
  BY <1>4, <1>5 DEF SyncInd, BackendOK
<1>9. /\ \A entry \in prepared :
           /\ entry.txn \in batch[b].entries
           /\ entry.sequence = txn[entry.txn].sequence
           /\ entry.fingerprint = Envelope(entry.txn)
      /\ \A t \in batch[b].entries : \E entry \in prepared : entry.txn = t
  BY <1>1, <1>2, PreparedFacts, SMTT(30) DEF SyncInd
<1>10. \A t \in batch[b].entries : transactions[t] = NULL
  <2>. SUFFICES ASSUME NEW t \in batch[b].entries, transactions[t] # NULL
                PROVE  FALSE
    OBVIOUS
  <2>1. PICK c \in Batch : batches[c] # NULL /\ t \in batch[c].entries
    BY <1>5 DEF SyncInd, BackendOK, TransactionStored
  <2>2. batch[c] # NULL
    BY <2>1 DEF SyncInd, BackendOK, BatchStored, IsBuilt, Fixed
  <2>. QED
    BY <1>4, <1>5, <2>1, <2>2 DEF SyncInd, QueueInd, DisjointBatches
<1>11. \A t \in batch[b].entries :
         /\ transactions'[t] # NULL
         /\ transactions'[t].reader = request.reader
         /\ transactions'[t].sequence = txn[t].sequence
         /\ transactions'[t].fingerprint = Envelope(t)
  <2>. SUFFICES ASSUME NEW t \in batch[b].entries
                PROVE  /\ transactions'[t] # NULL
                       /\ transactions'[t].reader = request.reader
                       /\ transactions'[t].sequence = txn[t].sequence
                       /\ transactions'[t].fingerprint = Envelope(t)
    OBVIOUS
  <2>. DEFINE entry == CHOOSE e \in prepared : e.txn = t
  <2>1. entry \in prepared /\ entry.txn = t
    BY <1>9
  <2>2. transactions'[t] = Backend!TransactionAfter(request, entry)
    BY <1>4, <1>5, <1>9
  <2>. HIDE DEF entry
  <2>3. transactions'[t] = Backend!NewTransaction(request, entry)
    BY <1>10, <2>1, <2>2 DEF Backend!TransactionAfter
  <2>4. /\ Backend!NewTransaction(request, entry).reader = request.reader
        /\ Backend!NewTransaction(request, entry).sequence = entry.sequence
        /\ Backend!NewTransaction(request, entry).fingerprint = entry.fingerprint
    BY DEF Backend!NewTransaction
  <2>. QED
    BY <1>6, <1>9, <2>1, <2>3, <2>4
<1>12. \A t \in Txn \ batch[b].entries : transactions'[t] = transactions[t]
  BY <1>4, <1>9
<1>13. BatchRowsStay
  BY <1>4, <1>8 DEF BatchRowsStay
<1>14. UNCHANGED <<txn, batch>>
  BY DEF storeVars
<1>15. ASSUME NEW c \in Batch, batches'[c] # NULL
       PROVE  BatchStored(c)'
  <2>1. PICK stored : stored = batches'[c].fingerprint
    OBVIOUS
  <2>2. /\ IsBuilt(stored) /\ ~TooLarge(stored) /\ stored.batch = c /\ stored.reader = Reader
        /\ \E at2 \in Time :
             batches'[c] = Backend!BatchRow(stored, Backend!BuildAcknowledgement(stored, at2))
        /\ \A t \in batch[c].entries : transactions'[t] # NULL
    <3>1. CASE c = b
      BY <1>1, <1>3, <1>7, <1>8, <1>11, <2>1, <3>1
    <3>2. CASE c # b
      <4>1. BatchStored(c) /\ batches'[c] = batches[c]
        BY <1>8, <1>15, <3>2 DEF SyncInd, BackendOK
      <4>2. \A t \in batch[c].entries : transactions'[t] # NULL
        <5>1. \A t \in batch[c].entries : transactions[t] # NULL
          BY <4>1 DEF BatchStored
        <5>2. batch[c] # NULL
          BY <4>1 DEF BatchStored, IsBuilt, Fixed
        <5>3. \A t \in batch[c].entries : t \in Txn
          BY <5>2, EntrySequences DEF SyncInd
        <5>. QED
          BY <1>10, <1>12, <5>1, <5>3
      <4>. QED
        BY <2>1, <4>1, <4>2 DEF BatchStored
    <3>. QED
      BY <3>1, <3>2
  <2>3. IsBuilt(stored)'
    BY <2>2, BuiltStays DEF SyncInd
  <2>4. ~TooLarge(stored)'
    BY <2>2 DEF TooLarge
  <2>. QED
    BY <1>14, <2>1, <2>2, <2>3, <2>4 DEF BatchStored, IsBuilt, TooLarge
<1>16. ASSUME NEW t \in Txn, transactions'[t] # NULL
       PROVE  TransactionStored(t)'
  <2>1. CASE t \in batch[b].entries
    <3>1. Stored(t)
      BY <1>5, <2>1 DEF SyncInd, QueueInd, EntriesSettled
    <3>. QED
      BY <1>5, <1>6, <1>8, <1>11, <1>14, <2>1, <3>1 DEF TransactionStored, Stored
  <2>2. CASE t \notin batch[b].entries
    <3>1. transactions'[t] = transactions[t] /\ TransactionStored(t)
      BY <1>12, <1>16, <2>2 DEF SyncInd, BackendOK
    <3>2. PICK c \in Batch : batches[c] # NULL /\ t \in batch[c].entries
      BY <3>1 DEF TransactionStored
    <3>3. batches'[c] # NULL
      BY <1>13, <3>2 DEF BatchRowsStay
    <3>. QED
      BY <1>14, <3>1, <3>2, <3>3 DEF TransactionStored, Stored
  <2>. QED
    BY <2>1, <2>2
<1>17. DOMAIN transactions' = Txn
  BY <1>4
<1>18. BackendOK'
  BY <1>8, <1>15, <1>16, <1>17 DEF BackendOK
<1>. QED
  BY <1>1, <1>6, <1>7, <1>8, <1>10, <1>11, <1>12, <1>13, <1>18

(* The three outcomes of a request that is not refused, of which the conflicts
   never happen. *)
LEMMA ProcessCases ==
    ASSUME SyncInd, RequestsListed, NEW m \in wire, NEW at \in Time, Process(m, at)
    PROVE  LET request == m.request
               acknowledgement == Backend!BuildAcknowledgement(request, at)
           IN  /\ IsBuilt(request) /\ ~TooLarge(request) /\ request.reader = Reader
               /\ \/ /\ batches[request.batch] # NULL
                     /\ Acknowledge(m, Backend!WithReplayed(
                                         batches[request.batch].acknowledgement, TRUE))
                     /\ UNCHANGED backendVars
                  \/ /\ Backend!Ingest(request, acknowledgement)
                     /\ \/ Acknowledge(m, acknowledgement)
                        \/ AnswerFailure(m, "backend_temporarily_unavailable")
(* What the backend knows of a request that it does not refuse. *)
<1>Admitted. ASSUME NEW request, BackendRefusal(request) = NULL
             PROVE  request.reader = Reader
  BY <1>Admitted, SyncAssumption DEF BackendRefusal, Backend!SynchronizationFailureCategory
<1>. DEFINE request == m.request
            acknowledgement == Backend!BuildAcknowledgement(request, at)
            row == batches[request.batch]
            consistent == \A entry \in Backend!Prepared(request, acknowledgement) :
                            Backend!ConsistentIdentity(request, entry)
<1>1. /\ BackendRefusal(request) = NULL
      /\ IF row # NULL
         THEN /\ IF Backend!BatchMatches(row, request)
                 THEN Acknowledge(m, Backend!WithReplayed(row.acknowledgement, TRUE))
                 ELSE AnswerFailure(m, "batch_identity_conflict")
              /\ UNCHANGED backendVars
         ELSE IF consistent
         THEN /\ Backend!Ingest(request, acknowledgement)
              /\ \/ Acknowledge(m, acknowledgement)
                 \/ AnswerFailure(m, "backend_temporarily_unavailable")
         ELSE /\ AnswerFailure(m, "transaction_identity_conflict")
              /\ UNCHANGED backendVars
  BY DEF Process
<1>2. IsBuilt(request) /\ ~TooLarge(request)
  BY DEF SyncInd, WireOK, MessageOK
<1>3. request.reader = Reader
  BY <1>1, <1>Admitted
<1>4. row # NULL => Backend!BatchMatches(row, request)
  BY <1>2, ReplayMatches
<1>5. consistent
  BY <1>2, <1>3, ConsistentEntries
<1>. HIDE DEF request, acknowledgement, row, consistent
<1>6. \/ /\ row # NULL
         /\ Acknowledge(m, Backend!WithReplayed(row.acknowledgement, TRUE))
         /\ UNCHANGED backendVars
      \/ /\ Backend!Ingest(request, acknowledgement)
         /\ \/ Acknowledge(m, acknowledgement)
            \/ AnswerFailure(m, "backend_temporarily_unavailable")
  BY <1>1, <1>4, <1>5
<1>. QED
  BY <1>2, <1>3, <1>6 DEF request, acknowledgement, row

-----------------------------------------------------------------------------
(* The invariant *)

LEMMA SyncInitInv == Init => SyncInd
<1>. SUFFICES ASSUME Init PROVE SyncInd
  OBVIOUS
<1>1. QueueInd
  <2>1. StoreInd
    BY InitInv DEF Init
  <2>. QED
    BY <2>1 DEF Init, StoreInit, QueueInd, ActiveEntriesInFlight, EntriesSettled,
                DisjointBatches, FailedHasBatch, Active, Stored
<1>2. BindingOK /\ TasksOK /\ WireOK
  BY DEF Init, StoreInit, BindingOK, TasksOK, WireOK
<1>3. BackendOK
  BY DEF Init, Backend!IngestInit, BackendOK
<1>4. AcknowledgementIsCommitted /\ FailuresExplained
  BY DEF Init, StoreInit, AcknowledgementIsCommitted, FailuresExplained
<1>. QED
  BY <1>1, <1>2, <1>3, <1>4 DEF SyncInd

LEMMA ReaderStepInv ==
    ASSUME SyncInd, RequestsListed, ReaderStep
    PROVE  SyncInd'
<1>BindInv. ASSUME SyncInd, NEW identity \in Identity, NEW at \in Time,
                   BindReaderDatabase(identity, at)
            PROVE  SyncInd'
  <2>. USE <1>BindInv
  <2>1. QueueInd' /\ Keeps /\ UNCHANGED <<txn, ack>>
    BY RecoveryQueue DEF BindReaderDatabase, SyncInd
  <2>2. binding' = IF binding = NULL THEN identity ELSE binding
    BY DEF BindReaderDatabase
  <2>3. Grows
    BY <2>1, <2>2, SyncAssumption DEF Keeps, Grows, Intercepts, BindReaderDatabase
  <2>4. BindingOK'
    BY <2>2, SyncAssumption DEF BindingOK, SyncInd
  <2>5. FailuresExplained'
    BY <2>1, <2>3, KeepsFailed DEF SyncInd
  <2>. QED
    BY <2>1, <2>3, <2>4, <2>5, StoreOnly DEF BindReaderDatabase
<1>EnqueueInvariant. ASSUME SyncInd, NEW t \in Txn, NEW at \in Time, Enqueue(t, at)
                     PROVE  SyncInd'
  <2>. USE <1>EnqueueInvariant
  <2>1. QueueInd' /\ Keeps
    BY EnqueueQueue DEF Enqueue, SyncInd
  <2>2. UNCHANGED <<binding, running, ack, batch, intercepted>>
    BY DEF Enqueue, EnqueueOfflineTransaction
  <2>3. Grows
    BY <2>1, <2>2 DEF Keeps, Grows, Intercepts
  <2>4. BindingOK'
    BY <2>2 DEF BindingOK, SyncInd
  <2>5. FailuresExplained'
    BY <2>1, <2>3, KeepsFailed DEF SyncInd
  <2>. QED
    BY <2>1, <2>2, <2>3, <2>4, <2>5, StoreOnly DEF Enqueue
<1>CreateBatchInv. ASSUME SyncInd, NEW b \in Batch, NEW limit \in Limits, NEW at \in Time,
                          CreateBatch(b, limit, at)
                   PROVE  SyncInd'
  <2>. USE <1>CreateBatchInv
  <2>1. QueueInd' /\ Opens(b) /\ UNCHANGED ack
    BY CreateQueue DEF CreateBatch, SyncInd
  <2>2. running /\ UNCHANGED <<binding, running, intercepted>>
    BY DEF CreateBatch
  <2>3. Grows
    BY <2>1, <2>2 DEF Opens, Grows, Intercepts
  <2>4. BindingOK'
    BY <2>2 DEF BindingOK, SyncInd
  <2>5. FailuresExplained'
    <3>1. \A c \in Batch : batch'[c] # NULL /\ batch'[c].state = "permanent_failure" =>
            batch[c] # NULL /\ batch[c].state = "permanent_failure"
      BY <2>1 DEF Opens
    <3>. QED
      BY <2>3, <3>1, FailedStays DEF SyncInd
  <2>. QED
    BY <2>1, <2>3, <2>4, <2>5, StoreOnly DEF CreateBatch
<1>MarkInFlightInv. ASSUME SyncInd, NEW b \in Batch, NEW at \in Time, MarkInFlight(b, at)
                    PROVE  SyncInd'
  <2>. USE <1>MarkInFlightInv
  <2>1. QueueInd' /\ Keeps /\ UNCHANGED ack
    BY MarkQueue DEF MarkInFlight, SyncInd
  <2>2. running /\ UNCHANGED <<binding, running, intercepted>>
    BY DEF MarkInFlight
  <2>3. Grows
    BY <2>1, <2>2 DEF Keeps, Grows, Intercepts
  <2>4. BindingOK'
    BY <2>2 DEF BindingOK, SyncInd
  <2>5. FailuresExplained'
    BY <2>1, <2>3, KeepsFailed DEF SyncInd
  <2>. QED
    BY <2>1, <2>3, <2>4, <2>5, StoreOnly DEF MarkInFlight
<1>CrashInv. ASSUME SyncInd, Crash
             PROVE  SyncInd'
  <2>. USE <1>CrashInv
  <2>1. Grows
    BY SameStore DEF Crash, Intercepts
  <2>2. TasksOK'
    BY DEF Crash, TasksOK
  <2>3. WireOK'
    BY <2>1, AbandonedOK DEF Crash
  <2>. QED
    BY <2>2, <2>3, SubmissionOnly DEF Crash, Intercepts
<1>SubmitInv. ASSUME SyncInd, NEW s \in Submission, NEW b \in Batch,
                     NEW completedAt \in Time, NEW retryAt \in Time,
                     Submit(s, b, completedAt, retryAt)
              PROVE  SyncInd'
  <2>. USE <1>SubmitInv
  <2>. DEFINE request == LoadSynchronizationBatchRequest(b)
              new == Task(request, completedAt, retryAt)
              tooLarge == Backend!EncodedBytes(request) > MaxRequestBytes
  <2>1. /\ running /\ submission[s] = NULL /\ RequestLoads(b)
        /\ submission' = [submission EXCEPT ![s] =
             IF tooLarge THEN Failed(new, "payload_too_large") ELSE new]
        /\ wire' = IF tooLarge THEN wire
                   ELSE wire \cup {[request |-> request, from |-> s]}
        /\ UNCHANGED <<storeVars, binding, running, backendVars>> /\ Intercepts
    BY DEF Submit, Intercepts
  <2>2. Grows
    BY <2>1, SameStore
  <2>3. PICK r : r = request
    OBVIOUS
  <2>4. IsBuilt(r) /\ r.batch = b
    <3>1. request.batch = b
      BY LoadedBatch
    <3>2. binding \in Identity
      BY <2>1 DEF SyncInd, BindingOK
    <3>. HIDE DEF request
    <3>. QED
      BY <2>1, <2>3, <3>1, <3>2 DEF IsBuilt, Fixed, RequestLoads, request
  <2>5. IsBuilt(r)'
    BY <2>2, <2>4, BuiltStays DEF SyncInd
  <2>6. new # NULL
    <3>1. r \in PossibleRequest
      BY <2>4, RequestFacts DEF SyncInd
    <3>. QED
      BY <2>3, <3>1, SyncAssumption
  <2>7. new = [batch |-> b, request |-> r, completedAt |-> completedAt,
                retryAt |-> retryAt, pc |-> "waiting", category |-> NULL, ack |-> NULL]
    BY <2>3, <2>4 DEF Task
  <2>8. tooLarge = TooLarge(r)
    BY <2>3 DEF TooLarge
  <2>. HIDE DEF request, new, tooLarge
  <2>9. DOMAIN submission = Submission
    BY DEF SyncInd, TasksOK
  <2>10. \A o \in Submission : o # s => submission'[o] = submission[o]
    BY <2>1, <2>9
  <2>11. NULL \notin Refusals
    BY SyncAssumption DEF Refusals, Backend!SynchronizationFailureCategory
  <2>12. CASE tooLarge
    <3>1. submission'[s] = [batch |-> b, request |-> r, completedAt |-> completedAt,
                            retryAt |-> retryAt, pc |-> "failed",
                            category |-> "payload_too_large", ack |-> NULL]
      BY <2>1, <2>7, <2>9, <2>12 DEF Failed
    <3>2. TaskOK(submission[s])'
      <4>1. PICK task : task = submission'[s]
        OBVIOUS
      <4>2. /\ DOMAIN task = {"batch", "request", "completedAt", "retryAt", "pc", "category", "ack"}
            /\ task.request = r /\ task.batch = b /\ task.pc = "failed"
            /\ task.completedAt = completedAt /\ task.retryAt = retryAt
            /\ task.category = "payload_too_large"
        BY <3>1, <4>1, SMTT(30)
      <4>3. Refused(r)'
        BY <2>8, <2>12 DEF TooLarge, Refused
      <4>4. TaskOK(task)'
        BY <2>4, <2>5, <4>2, <4>3 DEF TaskOK
      <4>. QED
        BY <4>1, <4>4 DEF TaskOK, IsBuilt, Refused, TooLarge
    <3>3. TasksOK'
      BY <2>1, <2>2, <2>9, <2>10, <3>2, TasksStay DEF BatchRowsStay, backendVars
    <3>4. WireOK'
      BY <2>1, <2>2, <2>10, <2>12, OtherMessages DEF WireOK
    <3>. QED
      BY <2>1, <3>3, <3>4, SubmissionOnly
  <2>13. CASE ~tooLarge
    <3>1. submission'[s] = new
      BY <2>1, <2>9, <2>13
    <3>2. TaskOK(submission[s])'
      BY <2>4, <2>5, <2>7, <2>11, <3>1, SMTT(30) DEF TaskOK, IsBuilt
    <3>3. TasksOK'
      BY <2>1, <2>2, <2>9, <2>10, <3>2, TasksStay DEF BatchRowsStay, backendVars
    <3>4. wire' = wire \cup {[request |-> r, from |-> s]}
      BY <2>1, <2>3, <2>13
    <3>5. MessageOK([request |-> r, from |-> s])'
      <4>1. PICK m : m = [request |-> r, from |-> s]
        OBVIOUS
      <4>2. /\ submission'[m.from] # NULL
            /\ submission'[m.from].pc = "waiting"
            /\ submission'[m.from].request = m.request
        BY <2>6, <2>7, <3>1, <4>1, SMTT(30)
      <4>3. ~TooLarge(r)'
        BY <2>8, <2>13 DEF TooLarge
      <4>4. MessageOK(m)'
        BY <2>5, <4>1, <4>2, <4>3 DEF MessageOK
      <4>. QED
        BY <4>1, <4>4
    <3>6. WireOK'
      BY <2>1, <2>2, <2>10, <3>4, <3>5, OtherMessages DEF WireOK
    <3>. QED
      BY <2>1, <3>3, <3>6, SubmissionOnly
  <2>. QED
    BY <2>12, <2>13
<1> QED
  BY <1>BindInv, <1>EnqueueInvariant, <1>CreateBatchInv, <1>MarkInFlightInv, <1>SubmitInv, <1>CrashInv
     DEF ReaderStep

LEMMA ProgressInv ==
    ASSUME SyncInd, RequestsListed, NEW s \in Submission, Progress(s)
    PROVE  SyncInd'
  BY GiveUpInv, RecordFailureInv, StoreAcknowledgementInv, ApplyAcknowledgementInv,
     SubmissionErrorInv DEF Progress

LEMMA BackendStepInv ==
    ASSUME SyncInd, RequestsListed, BackendStep
    PROVE  SyncInd'
<1>RefuseInv. ASSUME SyncInd, NEW m \in wire, Refuse(m)
              PROVE  SyncInd'
  <2>. USE <1>RefuseInv
  <2>1. IsBuilt(m.request)
    BY DEF SyncInd, WireOK, MessageOK
  <2>2. /\ Backend!ValidFields(m.request) /\ Backend!ValidRequest(m.request)
        /\ m.request.version = CurrentVersion
    BY <2>1, RequestFacts DEF SyncInd, IsBuilt
  <2>3. BackendRefusal(m.request) \notin Refusals
    BY <2>2 DEF BackendRefusal, Refusals, Refuse
  <2>. QED
    BY <2>3, AnswerFailureInv DEF Refuse
<1>UnavailableInv. ASSUME SyncInd, NEW m \in wire, Unavailable(m)
                   PROVE  SyncInd'
  <2>. USE <1>UnavailableInv
  <2>1. "backend_temporarily_unavailable" \notin Refusals
    BY DEF Refusals
  <2>. QED
    BY <2>1, AnswerFailureInv DEF Unavailable
<1>ProcessInv. ASSUME SyncInd, NEW m \in wire, NEW at \in Time, Process(m, at)
               PROVE  SyncInd'
  <2>. USE <1>ProcessInv
  <2>1. PICK request : request = m.request
    OBVIOUS
  <2>2. PICK a : a = Backend!BuildAcknowledgement(request, at)
    OBVIOUS
  <2>3. /\ IsBuilt(request) /\ ~TooLarge(request) /\ request.reader = Reader
        /\ \/ /\ batches[request.batch] # NULL
              /\ Acknowledge(m, Backend!WithReplayed(
                                  batches[request.batch].acknowledgement, TRUE))
              /\ UNCHANGED backendVars
           \/ /\ Backend!Ingest(request, a)
              /\ \/ Acknowledge(m, a)
                 \/ AnswerFailure(m, "backend_temporarily_unavailable")
    BY <2>1, <2>2, ProcessCases
  <2>4. UNCHANGED <<storeVars, binding, running>> /\ Intercepts
    BY <2>3 DEF Acknowledge, AnswerFailure, Answer, Intercepts
  <2>5. QueueInd' /\ Grows /\ BindingOK' /\ FailuresExplained'
    BY <2>4, SameStore
  <2>6. CASE /\ batches[request.batch] # NULL
             /\ Acknowledge(m, Backend!WithReplayed(
                                 batches[request.batch].acknowledgement, TRUE))
             /\ UNCHANGED backendVars
    <3>1. BatchRowsStay /\ batches' = batches
      BY <2>6 DEF BatchRowsStay, backendVars
    <3>2. PICK replay : replay = Backend!WithReplayed(batches[request.batch].acknowledgement, TRUE)
      OBVIOUS
    <3>3. SameAcknowledgement(replay, batches[request.batch].acknowledgement)
      BY <2>3, <2>6, <3>2, ReplayMatches
    <3>4. TasksOK' /\ WireOK'
      BY <2>1, <2>5, <2>6, <3>1, <3>2, <3>3, AcknowledgeOK
    <3>. QED
      BY <2>4, <2>6, <3>4, SubmissionOnly
  <2>7. CASE /\ Backend!Ingest(request, a)
             /\ \/ Acknowledge(m, a)
                \/ AnswerFailure(m, "backend_temporarily_unavailable")
    <3>1. /\ BackendOK' /\ BatchRowsStay
          /\ batches'[request.batch] # NULL
          /\ batches'[request.batch].acknowledgement = a
      BY <2>2, <2>3, <2>4, <2>5, <2>7, IngestOK
    <3>2. AcknowledgementIsCommitted'
      BY <2>4, <3>1, CommittedStays DEF SyncInd, storeVars
    <3>3. TasksOK' /\ WireOK'
      <4>1. CASE Acknowledge(m, a)
        <5>1. SameAcknowledgement(a, a)
          BY DEF SameAcknowledgement
        <5>. QED
          BY <2>1, <2>5, <3>1, <4>1, <5>1, AcknowledgeOK
      <4>2. CASE AnswerFailure(m, "backend_temporarily_unavailable")
        <5>1. /\ wire' = wire \ {m}
              /\ \/ UNCHANGED submission
                 \/ /\ m.from # NULL
                    /\ submission' = [submission EXCEPT ![m.from] =
                         Failed(submission[m.from], "backend_temporarily_unavailable")]
          BY <4>2 DEF AnswerFailure, Answer
        <5>2. PICK new : new = Failed(submission[m.from], "backend_temporarily_unavailable")
          OBVIOUS
        <5>3. m.from # NULL => TaskOK(submission[m.from])
          BY DEF SyncInd, TasksOK, WireOK, MessageOK
        <5>4. m.from # NULL => TaskOK(new)
          BY <5>2, <5>3, FailedTask DEF Refusals
        <5>5. m.from # NULL => TaskOK(new)'
          BY <2>5, <3>1, <5>4, TaskStays DEF SyncInd, BatchRowsStay
        <5>. QED
          BY <2>5, <3>1, <5>1, <5>2, <5>5, AnswerOK
      <4>. QED
        BY <2>7, <4>1, <4>2
    <3>. QED
      BY <2>5, <3>1, <3>2, <3>3 DEF SyncInd
  <2>. QED
    BY <2>3, <2>6, <2>7
<1> QED
  BY <1>RefuseInv, <1>UnavailableInv, <1>ProcessInv DEF BackendStep

LEMMA NothingInv ==
    ASSUME SyncInd,
           UNCHANGED <<storeVars, binding, running, submission, wire, backendVars, intercepted>>
    PROVE  SyncInd'
<1>0. Intercepts
  BY DEF Intercepts
<1>1. Grows /\ BatchRowsStay
  BY <1>0, SameStore DEF BatchRowsStay, backendVars
<1>2. TasksOK'
  BY <1>1, TasksStay DEF SyncInd, TasksOK
<1>3. WireOK'
  BY <1>1, WireStays DEF SyncInd, WireOK
<1>. QED
  BY <1>0, <1>2, <1>3, SubmissionOnly

=============================================================================

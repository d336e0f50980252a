----------------------------- MODULE ReaderViews -----------------------------
(***************************************************************************)
(* What the reader reads back from its database: the stored reader state,  *)
(* the offline queue, the batches, the stored acknowledgements, the report *)
(* of an applied acknowledgement and the health snapshot.  The store is    *)
(* ReaderStore; this module adds the columns only these reads use (when    *)
(* the reader was bound, when a row was created, the sequence range of a   *)
(* batch) and the decoders that check the columns against each other.      *)
(*                                                                         *)
(* A read that can fail is the set of its results: {} is its error.        *)
(* Parsing of identifiers and JSON, and the sign of stored integers, which *)
(* the CHECK constraints of the tables repeat, are left out.               *)
(***************************************************************************)
EXTENDS ReaderStore, FiniteSetsExt, Functions

VARIABLES
    reader,      \* the times of the reader_state row, NULL before it is bound
    createdAt,   \* offline_transactions.created_at_unix_milliseconds
    batchStored  \* created_at and the sequence range of synchronization_batches

viewVars == <<storeVars, reader, createdAt, batchStored>>

-----------------------------------------------------------------------------
(* Plausible mistakes, kept to test the properties: each operator is a wrong
   version of the definition below that its comment names, and no
   specification uses it. *)

(* DecodeResolution: a retry at the time of receipt is refused. *)
DecodeResolutionLater(resolution, receivedAt) ==
    {r \in {resolution} :
       IF r.state = "retryable_failure"
       THEN r.retryAt # NULL /\ r.retryAt > receivedAt
       ELSE r.retryAt = NULL}

(* UnresolvedStates: rows in manual review do not count as unresolved. *)
UnresolvedStatesAutomated == {"pending", "in_flight", "retryable_failure"}

(* HasPendingWork: rows waiting for their retry are not counted. *)
HasUnfinishedRows(s) ==
    \/ s.queue.pending + s.queue.inFlight + s.queue.manual > 0
    \/ s.synchronization.prepared + s.synchronization.inFlight > 0
    \/ s.synchronization.unapplied > 0

(* LoadReadyOfflineTransactions: the limit is taken before the filter. *)
LoadReadyOfFirst(at, limit) ==
    {{t \in FirstBySequence({u \in Txn : Stored(u)}, limit) : IsReady(txn[t], at)}}

-----------------------------------------------------------------------------
(* The columns that only reads use *)

ViewInit ==
    /\ StoreInit
    /\ reader = NULL
    /\ createdAt = [t \in Txn |-> NULL]
    /\ batchStored = [b \in Batch |-> NULL]

(* bind_reader_database: INSERT ... ON CONFLICT DO NOTHING.  Binding again
   reads the row that is there (DecodeStoredState) and changes nothing. *)
BindReaderDatabase(at) ==
    /\ reader = NULL
    /\ reader' = [createdAt |-> at, updatedAt |-> at]
    /\ UNCHANGED <<storeVars, createdAt, batchStored>>

(* Enqueuing stamps reader_state with the creation time of the row, which the
   CHECK of the table refuses before the reader was bound; an application that
   moves the mark keeps the later of the two times. *)
TouchReader ==
    LET enqueued == {t \in Txn : ~Stored(t) /\ txn'[t] # NULL}
        applied  == {b \in Batch : ack'[b] # NULL /\ ack'[b] # ack[b]
                                     /\ ack'[b].appliedAt # NULL}
    IN  IF enqueued # {}
        THEN /\ \A t \in enqueued : txn'[t].updatedAt >= reader.createdAt
             /\ reader' = [reader EXCEPT !.updatedAt =
                             Max({txn'[t].updatedAt : t \in enqueued})]
        ELSE IF lastAcknowledgedSequence' > lastAcknowledgedSequence
        THEN reader' = [reader EXCEPT !.updatedAt =
                          Max({@} \cup {ack'[b].appliedAt : b \in applied})]
        ELSE UNCHANGED reader

(* The insert of a transaction: created_at is the time of the draft. *)
StampTransactions ==
    createdAt' = [t \in Txn |-> IF ~Stored(t) /\ txn'[t] # NULL
                                THEN txn'[t].updatedAt
                                ELSE createdAt[t]]

(* The insert of a batch: the range is that of the candidates as selected. *)
StampBatches ==
    batchStored' =
      [b \in Batch |->
         IF batch[b] = NULL /\ batch'[b] # NULL
         THEN LET sequences == {txn[t].sequence : t \in batch'[b].entries}
              IN  [first |-> Min(sequences), last |-> Max(sequences),
                   createdAt |-> batch'[b].updatedAt]
         ELSE batchStored[b]]

(* A step of the store, with the columns it writes besides. *)
Recorded(A) ==
    /\ reader # NULL
    /\ A
    /\ TouchReader
    /\ StampTransactions
    /\ StampBatches

-----------------------------------------------------------------------------
(* Decoders *)

ReaderDatabaseState ==
    [nextLocalSequence |-> nextLocalSequence,
     lastAcknowledgedSequence |-> lastAcknowledgedSequence,
     createdAt |-> reader.createdAt, updatedAt |-> reader.updatedAt]

DecodeStoredState ==
    {s \in {ReaderDatabaseState} :
       /\ s.nextLocalSequence > 0
       /\ s.lastAcknowledgedSequence < s.nextLocalSequence
       /\ s.updatedAt >= s.createdAt}

QueuedOfflineTransaction(t) ==
    [transaction |-> t, sequence |-> txn[t].sequence, state |-> txn[t].state,
     attempts |-> txn[t].attempts, retryAt |-> txn[t].retryAt,
     createdAt |-> createdAt[t], updatedAt |-> txn[t].updatedAt]

DecodeStoredTransaction(t) ==
    {row \in {QueuedOfflineTransaction(t)} :
       row.sequence > 0 /\ row.updatedAt >= row.createdAt}

(* One row that cannot be decoded fails the read of the whole queue. *)
LoadOfflineQueue ==
    {queue \in {{t \in Txn : Stored(t)}} :
       \A t \in queue : DecodeStoredTransaction(t) # {}}

LoadReadyOfflineTransactions(at, limit) ==
    {FirstBySequence({t \in queue : IsReady(txn[t], at)}, limit) :
       queue \in LoadOfflineQueue}

(* The entries are read in the order of their positions, which is the order
   of their sequence numbers. *)
SynchronizationBatch(b) ==
    [first |-> batchStored[b].first, last |-> batchStored[b].last,
     state |-> batch[b].state, attempts |-> batch[b].attempts,
     submittedAt |-> batch[b].submittedAt, retryAt |-> batch[b].retryAt,
     createdAt |-> batchStored[b].createdAt, updatedAt |-> batch[b].updatedAt,
     entries |-> {[transaction |-> t, sequence |-> txn[t].sequence] :
                    t \in batch[b].entries}]

(* The ends of the entries must be the range of the batch. *)
DecodeStoredBatch(b) ==
    {row \in {SynchronizationBatch(b)} :
       LET sequences == {entry.sequence : entry \in row.entries} IN
       /\ row.first <= row.last
       /\ row.updatedAt >= row.createdAt
       /\ sequences # {}
       /\ Min(sequences) = row.first
       /\ Max(sequences) = row.last}

LoadSynchronizationBatch(b) == IF batch[b] = NULL THEN {} ELSE DecodeStoredBatch(b)

(* ORDER BY first_local_sequence_number LIMIT limit.  Ready batches are
   active, so they share no entry and the further keys decide nothing. *)
LoadReadySynchronizationBatches(at, limit) ==
    LET ready == {b \in Batch : batch[b] # NULL /\ IsReady(batch[b], at)}
        read  == {b \in ready :
                    Cardinality({c \in ready :
                      batchStored[c].first < batchStored[b].first}) < limit}
    IN  {bs \in {read} : \A b \in bs : LoadSynchronizationBatch(b) # {}}

(* Only a retryable failure has a retry time, and none before the receipt. *)
DecodeResolution(resolution, receivedAt) ==
    {r \in {resolution} :
       IF r.state = "retryable_failure"
       THEN r.retryAt # NULL /\ r.retryAt >= receivedAt
       ELSE r.retryAt = NULL}

DecodeEntries(b) ==
    {outcome \in {ack[b].outcome} :
       /\ DOMAIN outcome # {}
       /\ \A t \in DOMAIN outcome :
            DecodeResolution(outcome[t], ack[b].receivedAt) # {}}

-----------------------------------------------------------------------------
(* The report of apply_synchronization_acknowledgement *)

ResolutionCounts(outcome) ==
    LET Count(state) == Cardinality({t \in DOMAIN outcome : outcome[t].state = state})
    IN  [acknowledged |-> Count("acknowledged"),
         retryable |-> Count("retryable_failure"),
         permanent |-> Count("permanent_failure"),
         manual |-> Count("manual_review")]

(* The report of a replay: the counts are those of the stored entries, the
   mark is the one the reader has reached since. *)
ApplicationReport(b) ==
    {[appliedAt |-> ack[b].appliedAt, counts |-> ResolutionCounts(outcome),
      lastAcknowledgedSequence |-> lastAcknowledgedSequence] :
       outcome \in DecodeEntries(b)}

-----------------------------------------------------------------------------
(* The health snapshot *)

QueueCounts ==
    LET Count(state) == Cardinality({t \in Txn : Stored(t) /\ txn[t].state = state})
    IN  [pending |-> Count("pending"), inFlight |-> Count("in_flight"),
         acknowledged |-> Count("acknowledged"),
         retryable |-> Count("retryable_failure"),
         permanent |-> Count("permanent_failure"),
         manual |-> Count("manual_review")]

Total(q) ==
    q.pending + q.inFlight + q.acknowledged + q.retryable + q.permanent + q.manual

UnresolvedCount(q) == q.pending + q.inFlight + q.retryable + q.manual

SynchronizationCounts ==
    LET Count(state) ==
          Cardinality({b \in Batch : batch[b] # NULL /\ batch[b].state = state})
    IN  [prepared |-> Count("prepared"), inFlight |-> Count("in_flight"),
         retryable |-> Count("retryable_failure"),
         unapplied |-> Cardinality({b \in Batch : ack[b] # NULL
                                                    /\ ack[b].appliedAt = NULL})]

ActiveBatches(c) == c.prepared + c.inFlight + c.retryable

UnresolvedStates == {"pending", "in_flight", "retryable_failure", "manual_review"}

(* MIN over an SQL selection: NULL when nothing is selected. *)
SqlMin(S) == IF S = {} THEN NULL ELSE Min(S)

(* The one SELECT of load_reader_queue_health. *)
StoredHealth ==
    LET unresolved == {t \in Txn : Stored(t) /\ txn[t].state \in UnresolvedStates}
        retryable  == {t \in Txn : Stored(t) /\ txn[t].state = "retryable_failure"}
    IN  [nextLocalSequence |-> nextLocalSequence,
         lastAcknowledgedSequence |-> lastAcknowledgedSequence,
         queue |-> QueueCounts,
         synchronization |-> SynchronizationCounts,
         lowestUnresolved |-> SqlMin({txn[t].sequence : t \in unresolved}),
         oldestCreatedAt |-> SqlMin({createdAt[t] : t \in unresolved}),
         nextRetryAt |-> SqlMin({txn[t].retryAt : t \in retryable})]

(* decode_health_snapshot: an observation before the creation of the oldest
   unresolved row fails. *)
DecodeHealthSnapshot(stored, observedAt) ==
    IF /\ stored.lastAcknowledgedSequence < stored.nextLocalSequence
       /\ stored.lowestUnresolved = NULL <=> stored.oldestCreatedAt = NULL
       /\ stored.oldestCreatedAt # NULL => stored.oldestCreatedAt <= observedAt
    THEN {[stored |-> stored, observedAt |-> observedAt,
           oldestAge |-> IF stored.oldestCreatedAt = NULL
                         THEN NULL
                         ELSE observedAt - stored.oldestCreatedAt]}
    ELSE {}

LoadReaderQueueHealth(observedAt) ==
    IF reader = NULL THEN {} ELSE DecodeHealthSnapshot(StoredHealth, observedAt)

HasPendingWork(s) ==
    \/ UnresolvedCount(s.queue) > 0
    \/ ActiveBatches(s.synchronization) > 0
    \/ s.synchronization.unapplied > 0

RequiresOperatorAttention(s) == s.queue.permanent > 0 \/ s.queue.manual > 0

-----------------------------------------------------------------------------
(* Specifications *)

BindNext == \E at \in Time : BindReaderDatabase(at)

(* Any call of the public interface, with any timestamp. *)
ViewNext == BindNext \/ Recorded(StoreNext)

ViewSpec == ViewInit /\ [][ViewNext]_viewVars

(* What the reader application does: it never calls the row operations. *)
BatchViewNext == BindNext \/ Recorded(BatchNext)

BatchViewSpec == ViewInit /\ [][BatchViewNext]_viewVars

-----------------------------------------------------------------------------
(* Properties *)

(* Whatever calls were made, with whatever clock, every row that the store
   wrote can be read back: no decoder of the reader state, the queue, a batch
   or an acknowledgement meets a combination of columns it refuses. *)
StoredRowsLoad ==
    reader # NULL =>
      /\ DecodeStoredState # {}
      /\ LoadOfflineQueue # {}
      /\ \A b \in Batch : /\ batch[b] # NULL => LoadSynchronizationBatch(b) # {}
                          /\ ack[b] # NULL => DecodeEntries(b) # {}

(* The batches whose acknowledgement was applied, and how many transactions the
   report of each counts as acknowledged. *)
AppliedBatches == {b \in Batch : ack[b] # NULL /\ ack[b].appliedAt # NULL}

CountReported ==
    [b \in AppliedBatches |->
       LET report == CHOOSE r \in ApplicationReport(b) : TRUE
       IN  report.counts.acknowledged]

(* A snapshot accounts for the database: the counts add up to the sequence
   numbers handed out, the lowest unresolved sequence lies above the mark and
   exists exactly when something is unresolved, a next retry exists exactly
   when something is retryable, what is neither acknowledged nor pending work
   asks for an operator, and every acknowledged transaction is counted by the
   report of exactly one applied acknowledgement, even when two batches carried
   it. *)
HealthAddsUp ==
    \A at \in Time : \A snapshot \in LoadReaderQueueHealth(at) :
      LET s == snapshot.stored IN
      /\ Total(s.queue) = s.nextLocalSequence - 1
      /\ s.lowestUnresolved = NULL <=> UnresolvedCount(s.queue) = 0
      /\ s.lowestUnresolved # NULL =>
           s.lowestUnresolved \in (s.lastAcknowledgedSequence + 1)..(s.nextLocalSequence - 1)
      /\ s.nextRetryAt = NULL <=> s.queue.retryable = 0
      /\ ~HasPendingWork(s) /\ ~RequiresOperatorAttention(s) =>
           s.queue.acknowledged = s.nextLocalSequence - 1
      /\ s.queue.acknowledged = SumFunctionOnSet(CountReported, AppliedBatches)

(* When a snapshot reports no pending work, the store is at rest: of all its
   operations only the enqueuing of a new transaction can change it. *)
NoPendingWorkIsRest ==
    [][(reader # NULL /\ ~HasPendingWork(StoredHealth))
         => nextLocalSequence' # nextLocalSequence]_viewVars

(* What is listed as ready can be used: the entries of a ready batch are in
   flight and none was updated after the batch, so it can be submitted by a
   caller whose clock has not gone back behind it; and the ready transactions
   are those the next batch would take, none of an active batch among them. *)
ReadyIsUsable ==
    \A at \in Time, limit \in Limits :
      /\ \A ready \in LoadReadySynchronizationBatches(at, limit) :
           \A b \in ready : batch[b].updatedAt <= at =>
             \A t \in batch[b].entries : InFlightBefore(txn[t], at)
      /\ \A ready \in LoadReadyOfflineTransactions(at, limit) :
           ready = FirstBySequence(Candidates(at), limit)

(* The batches a transaction was ever an entry of. *)
Carriers(t) == {b \in Batch : batch[b] # NULL /\ t \in batch[b].entries}

(* The attempts counted for a transaction are the submissions of the batches it
   was an entry of: preparing, recovering or acknowledging a batch counts none,
   and the two counters of one submission never drift apart. *)
AttemptsAccounted ==
    \A t \in Txn : Stored(t) =>
      txn[t].attempts =
        SumFunctionOnSet([b \in Carriers(t) |-> batch[b].attempts], Carriers(t))

=============================================================================

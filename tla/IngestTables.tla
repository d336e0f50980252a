---------------------------- MODULE IngestTables ----------------------------
(***************************************************************************)
(* The PostgreSQL tables of the synchronization ingest and the rows that   *)
(* one request and its acknowledgement prepare for them                    *)
(* (synchronization_ingest_record.rs, repositories/synchronization_ingest  *)
(* .rs).                                                                   *)
(***************************************************************************)
EXTENDS SyncMessages

CONSTANTS
    Batch,    \* synchronization batch identities
    Txn,      \* fare transaction identities
    Request,  \* the requests that are submitted
    Time,     \* receipt times
    Result    \* per-entry results other callers of the repository store

VARIABLES
    batches,       \* synchronization_ingest_batches, by batch
    transactions,  \* synchronization_ingest_transactions, by transaction
    entries        \* synchronization_ingest_entries

tables == <<batches, transactions, entries>>

-----------------------------------------------------------------------------
(* Acknowledgements that the repository may be handed with a request *)

AcknowledgementWith(request, receivedAt, result) ==
    SynchronizationBatchAcknowledgement(request, receivedAt, FALSE,
      [i \in DOMAIN request.entries |->
         AcknowledgementEntry(request.entries[i].txn, request.entries[i].sequence,
                              result[i].outcome, result[i].category,
                              result[i].retryAt)])

Accepted == [outcome |-> "acknowledged", category |-> NULL, retryAt |-> NULL]

(* build_acknowledgement: the service accepts every entry. *)
BuildAcknowledgement(request, receivedAt) ==
    AcknowledgementWith(request, receivedAt,
                        [i \in DOMAIN request.entries |-> Accepted])

-----------------------------------------------------------------------------
(* Rows *)

(* PreparedSynchronizationIngest::prepare zips the entries of the request and
   of its acknowledgement, which it has validated against each other. *)
PreparedEntry(request, ack, i) ==
    [position |-> i, txn |-> request.entries[i].txn,
     sequence |-> request.entries[i].sequence,
     fingerprint |-> TransactionFingerprint(request.entries[i]),
     outcome |-> ack.entries[i].outcome,
     retryAt |-> ack.entries[i].retryAt, resolvedAt |-> ack.receivedAt]

BatchRow(request, ack) ==
    [reader |-> request.reader, fingerprint |-> RequestFingerprint(request),
     acknowledgement |-> ack]

NewTransaction(request, entry) ==
    [reader |-> request.reader, sequence |-> entry.sequence,
     fingerprint |-> entry.fingerprint, firstBatch |-> request.batch,
     resolution |-> entry.outcome, resolvedAt |-> entry.resolvedAt]

(* Plausible mistakes in ResolvedTransaction. *)
ResolvedWhenever(row, entry) ==
    [row EXCEPT !.resolution = entry.outcome, !.resolvedAt = entry.resolvedAt]

(* UPDATE_TRANSACTION_SQL: an older resolution does not replace a newer one. *)
ResolvedTransaction(row, entry) ==
    IF entry.resolvedAt >= row.resolvedAt
    THEN [row EXCEPT !.resolution = entry.outcome,
                     !.resolvedAt = entry.resolvedAt]
    ELSE row

EntryRow(request, entry) ==
    [batch |-> request.batch, reader |-> request.reader,
     position |-> entry.position, txn |-> entry.txn,
     sequence |-> entry.sequence, outcome |-> entry.outcome,
     retryAt |-> entry.retryAt, resolvedAt |-> entry.resolvedAt]

-----------------------------------------------------------------------------
(* Identities *)

(* FIND_TRANSACTION_SQL: the rows with the same transaction identity or the
   same sequence of the same reader. *)
SameIdentity(rows, request, entry) ==
    {t \in Txn :
       /\ rows[t] # NULL
       /\ \/ t = entry.txn
          \/ /\ rows[t].reader = request.reader
             /\ rows[t].sequence = entry.sequence}

TransactionIdentityMatches(rows, t, request, entry) ==
    /\ t = entry.txn
    /\ rows[t].reader = request.reader
    /\ rows[t].sequence = entry.sequence
    /\ rows[t].fingerprint = entry.fingerprint

(* validate_existing_batch *)
BatchMatches(row, request) ==
    /\ row.reader = request.reader
    /\ row.fingerprint = RequestFingerprint(request)

=============================================================================

-------------------------- MODULE IdempotentIngest --------------------------
(***************************************************************************)
(* What the ingest promises, with none of the statements, locks and        *)
(* failures of its implementation: a batch enters the tables in one step   *)
(* with all its entries, once, and only when no identity in it is already  *)
(* in use for something else.                                              *)
(***************************************************************************)
EXTENDS IngestTables

IngestInit ==
    /\ batches = [b \in Batch |-> NULL]
    /\ transactions = [t \in Txn |-> NULL]
    /\ entries = {}

Prepared(request, ack) ==
    {PreparedEntry(request, ack, i) : i \in DOMAIN request.entries}

ConsistentIdentity(request, entry) ==
    \A t \in SameIdentity(transactions, request, entry) :
      TransactionIdentityMatches(transactions, t, request, entry)

TransactionAfter(request, entry) ==
    IF transactions[entry.txn] = NULL
    THEN NewTransaction(request, entry)
    ELSE ResolvedTransaction(transactions[entry.txn], entry)

Ingest(request, ack) ==
    LET prepared == Prepared(request, ack) IN
    /\ batches[request.batch] = NULL
    /\ batches' = [batches EXCEPT ![request.batch] = BatchRow(request, ack)]
    /\ ValidRequest(request)
    /\ ValidAgainstRequest(ack, request)
    /\ \A entry \in prepared : ConsistentIdentity(request, entry)
    /\ transactions' = [t \in Txn |->
         IF \E entry \in prepared : entry.txn = t
         THEN TransactionAfter(request, CHOOSE entry \in prepared : entry.txn = t)
         ELSE transactions[t]]
    /\ entries' = entries \cup {EntryRow(request, entry) : entry \in prepared}

IngestNext ==
    \E request \in Request, receivedAt \in Time :
      \E result \in [DOMAIN request.entries -> Result \cup {Accepted}] :
        Ingest(request, AcknowledgementWith(request, receivedAt, result))

IngestSpec == IngestInit /\ [][IngestNext]_tables

=============================================================================

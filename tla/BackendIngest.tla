---------------------------- MODULE BackendIngest ----------------------------
(***************************************************************************)
(* The backend side of reader synchronization: concurrent HTTP handlers    *)
(* (apps/api/src/lib.rs, synchronization_service.rs) that store batches in *)
(* PostgreSQL (repositories/synchronization_ingest.rs), while sessions of  *)
(* EquipmentRegistry change the readers.                                   *)
(*                                                                         *)
(* A handler takes one step per SQL statement.  Statements see committed   *)
(* rows and the handler's own (READ COMMITTED); what a handler has written *)
(* stays in its record until it commits.  Locks follow from where a        *)
(* handler is: FOR SHARE on its reader from validate_reader to the end,    *)
(* the unique keys it has inserted, and the transaction rows it has        *)
(* selected FOR UPDATE.                                                    *)
(***************************************************************************)
EXTENDS IngestTables, FiniteSets

CONSTANTS
    Handler,            \* concurrent request handlers
    ApiEnvironment,     \* the environment the service is configured with
    Registered,         \* readers that are registered and active at the start
    Headers,            \* header pairs that arrive: records [key, version]
    Reader, EquipmentKey, DisablementReason, RevocationReason, Session,
    MaxVersion          \* see EquipmentRegistry

VARIABLES
    handler,    \* the state of each handler, NULL when it is idle
    reply,      \* the response the last step sent, NULL when it sent none
    equipment,  \* see EquipmentRegistry
    session     \* see EquipmentRegistry

Registry == INSTANCE EquipmentRegistry

vars == <<tables, handler, reply, equipment, session>>

(* The acknowledgements a request may be stored with. *)
Acknowledgements(request) ==
    {AcknowledgementWith(request, receivedAt, result) :
       receivedAt \in Time, result \in [DOMAIN request.entries -> Result \cup {Accepted}]}

(* The columns of a transaction row. *)
TransactionRow ==
    [reader: Reader, sequence: UNION {{e.sequence : e \in Range(p.entries)} : p \in Request},
     fingerprint: UNION {{TransactionFingerprint(e) : e \in Range(p.entries)} : p \in Request},
     firstBatch: Batch, resolution: {r.outcome : r \in Result \cup {Accepted}},
     resolvedAt: Time]

(* Requests are about known readers, batches and transactions, times are
   comparable, and no row is NULL. *)
ASSUME IngestAssumption ==
    /\ \A p \in Request :
         /\ p.reader \in Reader
         /\ p.batch \in Batch
         /\ Len(p.entries) \in Nat /\ DOMAIN p.entries = 1..Len(p.entries)
         /\ \A i \in DOMAIN p.entries : p.entries[i].txn \in Txn
         /\ \A ack \in Acknowledgements(p) : BatchRow(p, ack) # NULL
    /\ Time \subseteq Int
    /\ NULL \notin TransactionRow

ASSUME CategoryAssumption == NULL \notin SynchronizationFailureCategory

(* Sequences are integers, and finitely many requests are handled at a time. *)
ASSUME OrderAssumption ==
    /\ \A p \in Request : \A i \in DOMAIN p.entries : p.entries[i].sequence \in Int
    /\ IsFiniteSet(Handler)

-----------------------------------------------------------------------------
(* What a handler has done so far *)

pc(h) == IF handler[h] = NULL THEN "idle" ELSE handler[h].pc

Own(h) == handler[h].request

Entry(h) == PreparedEntry(Own(h), handler[h].ack, handler[h].position)

Storing == {"find_transaction", "write_transaction", "commit"}

OwnsBatchKey(h, b) == pc(h) \in Storing /\ Own(h).batch = b

SharesReader(h, r) ==
    /\ pc(h) \in {"find_existing_batch", "insert_batch"} \cup Storing
    /\ Own(h).reader = r

(* The rows as the handler sees them: its own over the committed ones. *)
View(h) == [t \in Txn |-> IF t \in handler[h].locked THEN handler[h].rows[t]
                                                     ELSE transactions[t]]

Inserted(h) == {t \in handler[h].locked : transactions[t] = NULL}

(* An uncommitted insert of a handler that takes a key of this entry. *)
OwnsIdentity(h, request, entry) ==
    /\ pc(h) \in Storing
    /\ SameIdentity(handler[h].rows, request, entry) \cap Inserted(h) # {}

WaitsForBatch(h, g) == pc(h) = "insert_batch" /\ OwnsBatchKey(g, Own(h).batch)

WaitsForRow(h, g) ==
    /\ pc(h) = "find_transaction"
    /\ pc(g) \in Storing
    /\ SameIdentity(transactions, Own(h), Entry(h)) \cap handler[g].locked # {}

WaitsForInsert(h, g) ==
    /\ pc(h) = "write_transaction"
    /\ ~handler[h].found
    /\ OwnsIdentity(g, Own(h), Entry(h))

WaitsFor(h, g) ==
    /\ h # g
    /\ WaitsForBatch(h, g) \/ WaitsForRow(h, g) \/ WaitsForInsert(h, g)

Waiting(h) == \E g \in Handler : WaitsFor(h, g)

-----------------------------------------------------------------------------
(* Responses *)

(* Sending a response ends the handler; dropping a transaction that was not
   committed rolls it back. *)
Respond(h, request, category, ack) ==
    /\ handler' = [handler EXCEPT ![h] = NULL]
    /\ reply' = [request |-> request, category |-> category, ack |-> ack]

Finish(h, category) ==
    Respond(h, Own(h), category, NULL) /\ UNCHANGED <<tables, equipment, session>>

Continue(h, state) ==
    /\ handler' = [handler EXCEPT ![h] = state]
    /\ reply' = NULL
    /\ UNCHANGED <<tables, equipment, session>>

(* map_ingest_error: every persistence error, a unique violation included. *)
PersistenceFailure == "backend_temporarily_unavailable"

-----------------------------------------------------------------------------
(* submit_synchronization_batch up to the repository *)

ValidateTransportHeaders(headers, request) ==
    CASE headers.key # request.batch -> "backend_validation_failure"
      [] headers.version # request.version -> "backend_validation_failure"
      [] headers.version # CurrentVersion -> "unsupported_protocol"
      [] OTHER -> NULL

ValidateRequestContext(request) ==
    CASE request.version # CurrentVersion -> "unsupported_protocol"
      [] request.environment # ApiEnvironment -> "environment_mismatch"
      [] OTHER -> NULL

(* The checks before the clock is read. *)
DecodingRefusal(headers, request) ==
    CASE EncodedBytes(request) > MaxRequestBytes -> "payload_too_large"
      [] ~(ValidFields(request) /\ ValidRequest(request)) -> "backend_validation_failure"
      [] OTHER -> ValidateTransportHeaders(headers, request)

(* The category of the first check that refuses the request, NULL if none. *)
Refusal(headers, request) ==
    IF DecodingRefusal(headers, request) # NULL THEN DecodingRefusal(headers, request)
    ELSE ValidateRequestContext(request)

Begun(call, request, ack) ==
    [call |-> call, pc |-> "validate_reader", request |-> request, ack |-> ack,
     position |-> 1, found |-> FALSE, locked |-> {},
     rows |-> [t \in Txn |-> NULL]]

Refuse(h, request, headers) ==
    /\ handler[h] = NULL
    /\ Refusal(headers, request) # NULL
    /\ Respond(h, request, Refusal(headers, request), NULL)
    /\ UNCHANGED <<tables, equipment, session>>

(* current_unix_milliseconds reads a wall clock: any time, or none at all. *)
Process(h, request, headers, receivedAt) ==
    /\ handler[h] = NULL
    /\ Refusal(headers, request) = NULL
    /\ Continue(h, Begun("process", request,
                         BuildAcknowledgement(request, receivedAt)))

ClockUnavailable(h, request, headers) ==
    /\ handler[h] = NULL
    /\ DecodingRefusal(headers, request) = NULL
    /\ Respond(h, request, PersistenceFailure, NULL)
    /\ UNCHANGED <<tables, equipment, session>>

(* Another caller of the repository, with any acknowledgement that prepare
   accepts for the request. *)
Store(h, request, receivedAt, result) ==
    LET ack == AcknowledgementWith(request, receivedAt, result) IN
    /\ handler[h] = NULL
    /\ ValidFields(request) /\ ValidRequest(request)
    /\ ValidAcknowledgement(ack)
    /\ ValidAgainstRequest(ack, request)
    /\ Continue(h, Begun("store", request, ack))

-----------------------------------------------------------------------------
(* Plausible mistakes in the statements below, kept to test the properties. *)

(* FindExistingBatch: the fingerprint is not compared. *)
FindAnyBatch(h) ==
    /\ pc(h) = "find_existing_batch"
    /\ Continue(h, [handler[h] EXCEPT !.pc =
         IF batches[Own(h).batch] = NULL THEN "insert_batch"
                                         ELSE "load_acknowledgement"])

(* InsertBatch: a key that was taken meanwhile is reported as a conflict. *)
InsertBatchOrConflict(h) ==
    /\ pc(h) = "insert_batch" /\ ~Waiting(h)
    /\ IF batches[Own(h).batch] # NULL THEN Finish(h, "batch_identity_conflict")
       ELSE Continue(h, [handler[h] EXCEPT !.pc = "find_transaction"])

(* InsertBatch: a key that was taken meanwhile is tried again. *)
InsertBatchAgain(h) ==
    /\ pc(h) = "insert_batch" /\ ~Waiting(h)
    /\ Continue(h, IF batches[Own(h).batch] # NULL THEN handler[h]
                   ELSE [handler[h] EXCEPT !.pc = "find_transaction"])

(* InsertBatch: ON CONFLICT DO UPDATE. *)
InsertBatchOver(h) ==
    /\ pc(h) = "insert_batch" /\ ~Waiting(h)
    /\ Continue(h, [handler[h] EXCEPT !.pc = "find_transaction"])

-----------------------------------------------------------------------------
(* PostgresSynchronizationIngestRepository::store, one statement at a time *)

ValidateReader(h) ==
    LET row == equipment[Own(h).reader] IN
    /\ pc(h) = "validate_reader"
    /\ CASE row = NULL -> Finish(h, "reader_not_registered")
         [] row # NULL /\ ~Registry!MayAuthenticateToBackend(row.aggregate) ->
              Finish(h, "reader_not_operational")
         [] OTHER -> Continue(h, [handler[h] EXCEPT !.pc = "find_existing_batch"])

(* find_existing_batch and validate_existing_batch; a replay ends the
   transaction. *)
FindExistingBatch(h) ==
    LET row == batches[Own(h).batch] IN
    /\ pc(h) = "find_existing_batch"
    /\ CASE row = NULL -> Continue(h, [handler[h] EXCEPT !.pc = "insert_batch"])
         [] row # NULL /\ ~BatchMatches(row, Own(h)) ->
              Finish(h, "batch_identity_conflict")
         [] OTHER ->
              IF handler[h].call = "process"
              THEN Continue(h, [handler[h] EXCEPT !.pc = "load_acknowledgement"])
              ELSE Finish(h, NULL)

InsertBatch(h) ==
    /\ pc(h) = "insert_batch" /\ ~Waiting(h)
    /\ IF batches[Own(h).batch] # NULL
       THEN Finish(h, PersistenceFailure)
       ELSE Continue(h, [handler[h] EXCEPT !.pc = "find_transaction"])

(* store_transaction up to the match on the rows it found. *)
FindTransaction(h) ==
    LET entry == Entry(h)
        found == SameIdentity(View(h), Own(h), entry)
    IN  /\ pc(h) = "find_transaction" /\ ~Waiting(h)
        /\ IF \A t \in found : TransactionIdentityMatches(View(h), t, Own(h), entry)
           THEN Continue(h, [handler[h] EXCEPT
                  !.pc = "write_transaction", !.found = found # {},
                  !.locked = @ \cup found,
                  !.rows = [t \in Txn |-> IF t \in found THEN View(h)[t] ELSE @[t]]])
           ELSE Finish(h, "transaction_identity_conflict")

(* insert_transaction or update_transaction, then insert_entry. *)
WriteTransaction(h) ==
    LET entry == Entry(h)
        row == IF handler[h].found
               THEN ResolvedTransaction(handler[h].rows[entry.txn], entry)
               ELSE NewTransaction(Own(h), entry)
        duplicate == ~handler[h].found /\ SameIdentity(View(h), Own(h), entry) # {}
        last == entry.position = Len(Own(h).entries)
    IN  /\ pc(h) = "write_transaction" /\ ~Waiting(h)
        /\ IF duplicate THEN Finish(h, PersistenceFailure)
           ELSE Continue(h, [handler[h] EXCEPT
                  !.pc = IF last THEN "commit" ELSE "find_transaction",
                  !.position = IF last THEN @ ELSE @ + 1,
                  !.locked = @ \cup {entry.txn}, !.rows[entry.txn] = row])

Publish(h) ==
    LET request == Own(h) ack == handler[h].ack IN
    /\ batches' = [batches EXCEPT ![request.batch] = BatchRow(request, ack)]
    /\ transactions' = View(h)
    /\ entries' = entries \cup
         {EntryRow(request, PreparedEntry(request, ack, i)) :
            i \in DOMAIN request.entries}
    /\ UNCHANGED <<equipment, session>>

Commit(h) ==
    /\ pc(h) = "commit"
    /\ Publish(h)
    /\ Respond(h, Own(h), NULL, handler[h].ack)

LoadAcknowledgement(h) ==
    LET row == batches[Own(h).batch] IN
    /\ pc(h) = "load_acknowledgement"
    /\ IF row = NULL THEN Finish(h, PersistenceFailure)
       ELSE /\ Respond(h, Own(h), NULL, WithReplayed(row.acknowledgement, TRUE))
            /\ UNCHANGED <<tables, equipment, session>>

-----------------------------------------------------------------------------
(* Faults *)

(* The database refuses a statement, or ends the transaction to break a
   deadlock. *)
DatabaseFailure(h) == handler[h] # NULL /\ Finish(h, PersistenceFailure)

(* The connection is lost after the commit was carried out. *)
CommitUnconfirmed(h) ==
    /\ pc(h) = "commit"
    /\ Publish(h)
    /\ Respond(h, Own(h), PersistenceFailure, NULL)

(* The client disconnects or the process stops: the handler is dropped. *)
Abandon(h) == handler[h] # NULL /\ Continue(h, NULL)

-----------------------------------------------------------------------------
(* Changes of the readers, which wait for the FOR SHARE locks *)

(* Plausible mistake: SELECT without FOR SHARE. *)
RegistryStepAnytime ==
    Registry!RegistryNext /\ reply' = NULL /\ UNCHANGED <<tables, handler>>

RegistryStep ==
    /\ Registry!RegistryNext
    /\ \A r \in Reader, h \in Handler :
         SharesReader(h, r) => equipment'[r] = equipment[r]
    /\ reply' = NULL
    /\ UNCHANGED <<tables, handler>>

-----------------------------------------------------------------------------
(* The specification *)

(* A row that InsertReader and a saved Activate lead to. *)
ActiveReader ==
    [aggregate |-> [Registry!NewPending(CHOOSE key \in EquipmentKey : TRUE)
                      EXCEPT !.status = "active"],
     version |-> 2]

Init ==
    /\ batches = [b \in Batch |-> NULL]
    /\ transactions = [t \in Txn |-> NULL]
    /\ entries = {}
    /\ handler = [h \in Handler |-> NULL]
    /\ reply = NULL
    /\ equipment = [r \in Reader |-> IF r \in Registered THEN ActiveReader ELSE NULL]
    /\ session = [s \in Session |-> NULL]

Arrive(h) ==
    \E request \in Request :
      \/ \E headers \in Headers :
           \/ Refuse(h, request, headers)
           \/ ClockUnavailable(h, request, headers)
           \/ \E receivedAt \in Time : Process(h, request, headers, receivedAt)
      \/ \E receivedAt \in Time, result \in [DOMAIN request.entries -> Result] :
           Store(h, request, receivedAt, result)

Statement(h) ==
    \/ ValidateReader(h)
    \/ FindExistingBatch(h)
    \/ InsertBatch(h)
    \/ FindTransaction(h)
    \/ WriteTransaction(h)
    \/ Commit(h)
    \/ LoadAcknowledgement(h)

Fault(h) == DatabaseFailure(h) \/ CommitUnconfirmed(h) \/ Abandon(h)

Next ==
    \/ \E h \in Handler : Arrive(h) \/ Statement(h) \/ Fault(h)
    \/ RegistryStep

Spec == Init /\ [][Next]_vars

(* A handler that has a statement to run runs it; no fault, no request and no
   change of a reader has to happen.  Strong fairness because a statement that
   waits for a lock is next in line for it: PostgreSQL grants a lock in the
   order of the requests. *)
FairSpec == Spec /\ \A h \in Handler : SF_vars(Statement(h))

-----------------------------------------------------------------------------
(* Properties *)

(* A handler holds one request, and the rows it holds are rows of it. *)
TypeOK ==
    /\ \A h \in Handler : handler[h] # NULL =>
         /\ Own(h) \in Request
         /\ ValidRequest(Own(h))
         /\ ValidAgainstRequest(handler[h].ack, Own(h))
         /\ handler[h].position \in DOMAIN Own(h).entries
         /\ \A t \in Txn : (handler[h].rows[t] # NULL) <=> (t \in handler[h].locked)
    /\ reply # NULL =>
         reply.category \in SynchronizationFailureCategory \cup {NULL}

(* The statements, the locks and the faults implement IdempotentIngest: the
   tables change only by a whole batch that is new and whose identities are
   consistent with everything committed, however the handlers interleave and
   wherever one is cut off (store, synchronization_ingest.rs). *)
Abstract == INSTANCE IdempotentIngest

ImplementsIngest == Abstract!IngestSpec

(* A success is sent only for what is committed: the batch with this very
   request, the acknowledgement that was stored with it, marked as a replay or
   not, and a row for each of its entries. *)
AcknowledgedIsStored ==
    reply # NULL /\ reply.category = NULL /\ reply.ack # NULL =>
      LET row == batches[reply.request.batch] IN
      /\ row # NULL
      /\ row.fingerprint = RequestFingerprint(reply.request)
      /\ AcknowledgementFingerprint(reply.ack)
           = AcknowledgementFingerprint(row.acknowledgement)
      /\ \A i \in DOMAIN reply.request.entries :
           EntryRow(reply.request,
                    PreparedEntry(reply.request, row.acknowledgement, i)) \in entries

(* A conflict, which the reader treats as final, is reported only for content
   that differs from what is committed, never because two copies of the same
   request raced or because of rows that were rolled back. *)
ConflictsAreReal ==
    reply # NULL =>
      /\ reply.category = "batch_identity_conflict" =>
           /\ batches[reply.request.batch] # NULL
           /\ batches[reply.request.batch].fingerprint
                # RequestFingerprint(reply.request)
      /\ reply.category = "transaction_identity_conflict" =>
           \E i \in DOMAIN reply.request.entries :
             LET entry == PreparedEntry(reply.request,
                            BuildAcknowledgement(reply.request, 0), i)
             IN  \E t \in SameIdentity(transactions, reply.request, entry) :
                   ~TransactionIdentityMatches(transactions, t, reply.request, entry)

(* The current resolution of a transaction is the one of the newest receipt
   time among all the batches that carried it, although batches are received
   and committed in different orders (UPDATE_TRANSACTION_SQL). *)
NewestResolution ==
    \A t \in Txn : transactions[t] # NULL =>
      LET history == {row \in entries : row.txn = t} IN
      /\ \A row \in history : row.resolvedAt <= transactions[t].resolvedAt
      /\ \E row \in history :
           /\ row.resolvedAt = transactions[t].resolvedAt
           /\ row.outcome = transactions[t].resolution

(* A batch enters the tables only while its reader may authenticate: the row
   that was checked stays locked until the commit. *)
StoredWhileOperational ==
    [][\A b \in Batch : batches'[b] # batches[b] =>
         LET row == equipment[batches'[b].reader] IN
         /\ row # NULL
         /\ Registry!MayAuthenticateToBackend(row.aggregate)]_vars

(* Requests that name the same transactions by the same sequences. *)
Agree(p, q) ==
    \A i \in DOMAIN p.entries, j \in DOMAIN q.entries :
      (p.entries[i].txn = q.entries[j].txn)
        <=> (p.reader = q.reader /\ p.entries[i].sequence = q.entries[j].sequence)

(* Handlers never wait for one another in a circle when their requests agree
   on the identities: every request takes its rows in the order of their
   sequences (validate_increasing_sequences). *)
NoWaitCycle ==
    \A H \in (SUBSET Handler) \ {{}} :
      (\A h \in H : handler[h] # NULL /\ \E g \in H : WaitsFor(h, g))
        => \E h, g \in H : ~Agree(Own(h), Own(g))

(* Every request that the API takes up is answered or abandoned: no handler
   waits forever for a lock. *)
EveryRequestAnswered ==
    \A h \in Handler : handler[h] # NULL ~> handler[h] = NULL

=============================================================================

---------------------------- MODULE SyncProtocol ----------------------------
(***************************************************************************)
(* The whole synchronization: a reader process with its SQLite store       *)
(* (ReaderStore), submissions over HTTP (synchronization_submission.rs,    *)
(* synchronization_transport.rs), and the backend, whose ingest is one     *)
(* step here because BackendIngest implements IdempotentIngest.            *)
(*                                                                         *)
(* A submission is a task of the reader with one HTTP request.  The wire   *)
(* holds the requests that were sent and not yet handled; the request of a *)
(* client that gave up stays there and may be handled at any later time,   *)
(* and its answer goes nowhere.  Something between the reader and the      *)
(* backend may answer in the place of the backend, which may handle the    *)
(* request all the same.  The reader process may stop at any step and      *)
(* keeps its database.                                                     *)
(***************************************************************************)
EXTENDS ReaderStore, Sequences, Functions

CONSTANTS
    MaxEntries, MaxRequestBytes, MaxEnvelopeBytes, ProtocolText, CurrentVersion,
                     \* see SyncMessages
    Submission,      \* concurrent submissions of the reader process
    Reader,          \* the identity of the reader
    Environment,     \* the environment of the backend
    Identity,        \* what reader processes bind the database to
    EnvelopeBytes,   \* the size of the envelope of each transaction
    JsonObject,      \* the transactions whose envelope is a JSON object
    ForeignStatus    \* HTTP statuses answered in the place of the backend

VARIABLES
    binding,     \* the identity in reader_state, NULL before the first binding
    running,     \* whether the reader process has been started and has recovered
    submission,  \* the state of each submission, NULL when there is none
    wire,        \* requests on their way: [request, from]
    batches, transactions, entries,  \* see IngestTables
    operational, \* whether the backend lets the reader authenticate
    intercepted  \* history: the batches that something other than the backend
                 \* answered with what reads as a final refusal

backendVars == <<batches, transactions, entries>>
vars == <<storeVars, binding, running, submission, wire, backendVars, operational, intercepted>>

Backend == INSTANCE IdempotentIngest WITH
    Request <- {}, Result <- {}

-----------------------------------------------------------------------------
(* Plausible mistakes, kept to test the properties. *)

(* BindReaderDatabase: ON CONFLICT DO UPDATE of the software version. *)
BindNewest(identity, at) ==
    /\ ~running
    /\ binding # NULL => binding.reader = identity.reader
    /\ binding' = identity
    /\ running' = TRUE
    /\ RecoverInterruptedSynchronizationBatches(at)
    /\ UNCHANGED <<submission, wire, backendVars, operational, intercepted>>

(* FailureDisposition: a timeout is taken to mean that nothing was stored. *)
TimeoutIsFinal(category) ==
    CASE category \in {"connection_failure", "response_decode_failure",
                       "backend_temporarily_unavailable"} -> "retryable_failure"
      [] category \in {"payload_too_large", "unsupported_protocol",
                       "backend_validation_failure", "network_timeout"} ->
           "permanent_failure"
      [] OTHER -> "manual_review"

-----------------------------------------------------------------------------
(* load_synchronization_batch_request *)

(* The queue stores any JSON value as an envelope. *)
Envelope(t) == [content |-> t, bytes |-> EnvelopeBytes[t], object |-> t \in JsonObject]

(* ORDER BY entry_position, which is the order of the local sequences. *)
InOrder(sequence) ==
    LET S == DOMAIN sequence IN
    [i \in 1..Cardinality(S) |->
       CHOOSE t \in S : Cardinality({u \in S : sequence[u] < sequence[t]}) = i - 1]

RequestOf(identity, b, submittedAt, sequence) ==
    LET order == InOrder(sequence)
        loaded == [i \in DOMAIN order |->
                     Backend!RequestEntry(order[i], sequence[order[i]], Envelope(order[i]))]
    IN  Backend!SynchronizationBatchRequest(
          CurrentVersion, identity.environment, identity.reader, identity.software,
          b, loaded[1].sequence, loaded[Len(loaded)].sequence, submittedAt, loaded)

LoadSynchronizationBatchRequest(b) ==
    RequestOf(binding, b, batch[b].submittedAt,
              [t \in batch[b].entries |-> txn[t].sequence])

(* The early returns of the same function. *)
RequestLoads(b) ==
    /\ batch[b] # NULL
    /\ batch[b].state = "in_flight"
    /\ batch[b].submittedAt # NULL
    /\ Backend!ValidFields(LoadSynchronizationBatchRequest(b))
    /\ Backend!ValidRequest(LoadSynchronizationBatchRequest(b))

(* The requests that can be built at all: distinct sequences for the entries. *)
PossibleRequest ==
    {RequestOf(identity, b, submittedAt, sequence) :
       identity \in Identity, b \in Batch, submittedAt \in Time,
       sequence \in UNION {Injection(S, 1..MaxSequence) : S \in (SUBSET Txn) \ {{}}}}

(* A submission that has just started. *)
Task(request, completedAt, retryAt) ==
    [batch |-> request.batch, request |-> request, completedAt |-> completedAt,
     retryAt |-> retryAt, pc |-> "waiting", category |-> NULL, ack |-> NULL]

(* The bound is a number; NULL is no identity, submission or failure and no row
   of the backend. *)
ASSUME SyncAssumption ==
    /\ MaxEntries \in Nat
    /\ NULL \notin Identity
    /\ NULL \notin Submission
    /\ NULL \notin Backend!SynchronizationFailureCategory
    /\ \A request \in PossibleRequest, at \in Time :
         LET acknowledgement == Backend!BuildAcknowledgement(request, at) IN
         /\ \A retryAt \in Time : Task(request, at, retryAt) # NULL
         /\ Backend!BatchRow(request, acknowledgement) # NULL
         /\ \A entry \in Backend!Prepared(request, acknowledgement) :
              Backend!NewTransaction(request, entry) # NULL

-----------------------------------------------------------------------------
(* The reader process between submissions *)

(* bind_reader_database and the recovery at startup.  The identity that was
   stored first is kept; another reader or environment is refused, and a new
   software version is ignored. *)
BindReaderDatabase(identity, at) ==
    /\ ~running
    /\ binding # NULL => /\ binding.reader = identity.reader
                         /\ binding.environment = identity.environment
    /\ binding' = IF binding = NULL THEN identity ELSE binding
    /\ running' = TRUE
    /\ RecoverInterruptedSynchronizationBatches(at)
    /\ UNCHANGED <<submission, wire, backendVars, operational, intercepted>>

Enqueue(t, at) ==
    /\ running
    /\ EnqueueOfflineTransaction(t, at)
    /\ UNCHANGED <<binding, running, submission, wire, backendVars, operational, intercepted>>

CreateBatch(b, limit, at) ==
    /\ running
    /\ CreateSynchronizationBatch(b, limit, at)
    /\ UNCHANGED <<binding, running, submission, wire, backendVars, operational, intercepted>>

MarkInFlight(b, at) ==
    /\ running
    /\ MarkSynchronizationBatchInFlight(b, at)
    /\ UNCHANGED <<binding, running, submission, wire, backendVars, operational, intercepted>>

(* The requests of these submissions lose their client. *)
Abandoned(S) ==
    {[m EXCEPT !.from = IF @ \in S THEN NULL ELSE @] : m \in wire}

Crash ==
    /\ running
    /\ running' = FALSE
    /\ submission' = [s \in Submission |-> NULL]
    /\ wire' = Abandoned(Submission)
    /\ UNCHANGED <<storeVars, binding, backendVars, operational, intercepted>>

-----------------------------------------------------------------------------
(* submit_in_flight_synchronization_batch *)

Failed(task, category) == [task EXCEPT !.pc = "failed", !.category = category]

(* Both times are fixed when the submission starts.  A request that is too
   large never leaves the reader. *)
Submit(s, b, completedAt, retryAt) ==
    LET request == LoadSynchronizationBatchRequest(b)
        tooLarge == Backend!EncodedBytes(request) > MaxRequestBytes
        task == Task(request, completedAt, retryAt)
    IN  /\ running
        /\ submission[s] = NULL
        /\ RequestLoads(b)
        /\ submission' = [submission EXCEPT ![s] =
             IF tooLarge THEN Failed(task, "payload_too_large") ELSE task]
        /\ wire' = IF tooLarge THEN wire
                   ELSE wire \cup {[request |-> request, from |-> s]}
        /\ UNCHANGED <<storeVars, binding, running, backendVars, operational, intercepted>>

(* Plausible mistake in GiveUp: no timeout, so only a request that was not
   handled yet can fail. *)
GiveUpWithoutTimeout(s, category) ==
    /\ \E m \in wire : m.from = s
    /\ submission' = [submission EXCEPT ![s] = Failed(@, category)]
    /\ wire' = Abandoned({s})
    /\ UNCHANGED <<storeVars, binding, running, backendVars, operational, intercepted>>

(* The request timeout, a broken connection, or an answer that cannot be
   read: whether the backend handles the request stays open. *)
GiveUp(s, category) ==
    /\ submission[s] # NULL
    /\ submission[s].pc = "waiting"
    /\ submission' = [submission EXCEPT ![s] = Failed(@, category)]
    /\ wire' = Abandoned({s})
    /\ UNCHANGED <<storeVars, binding, running, backendVars, operational, intercepted>>

(* fallback_status_category, for an answer without the envelope of the API *)
FallbackStatusCategory(status) ==
    CASE status \in {408, 504} -> "network_timeout"
      [] status \in {429} \cup ((500..599) \ {504}) -> "backend_temporarily_unavailable"
      [] status = 409 -> "batch_identity_conflict"
      [] status = 413 -> "payload_too_large"
      [] OTHER -> "backend_validation_failure"

(* A body that is larger than any acknowledgement counts as payload_too_large
   whatever its status. *)
ForeignCategory ==
    {FallbackStatusCategory(status) : status \in ForeignStatus} \cup {"payload_too_large"}

(* A gateway answers; whether the backend handles the request stays open. *)
AnsweredInBetween(s, category) ==
    /\ submission[s] # NULL
    /\ submission[s].pc = "waiting"
    /\ submission' = [submission EXCEPT ![s] = Failed(@, category)]
    /\ wire' = Abandoned({s})
    /\ intercepted' = IF category \in {"payload_too_large", "backend_validation_failure"}
                      THEN intercepted \cup {submission[s].batch} ELSE intercepted
    /\ UNCHANGED <<storeVars, binding, running, backendVars, operational>>

(* synchronization_failure_disposition *)
FailureDisposition(category) ==
    CASE category \in {"network_timeout", "connection_failure",
                       "response_decode_failure",
                       "backend_temporarily_unavailable"} -> "retryable_failure"
      [] category \in {"payload_too_large", "unsupported_protocol",
                       "backend_validation_failure"} -> "permanent_failure"
      [] OTHER -> "manual_review"

Ends(s) == submission' = [submission EXCEPT ![s] = NULL]

RecordFailure(s) ==
    LET task == submission[s]
        state == FailureDisposition(task.category)
    IN  /\ task # NULL
        /\ task.pc = "failed"
        /\ IF state = "retryable_failure"
           THEN RecordSynchronizationRetryableFailure(
                  task.batch, task.completedAt, task.retryAt)
           ELSE RecordFinalSynchronizationFailure(
                  task.batch, state, task.completedAt)
        /\ Ends(s)
        /\ UNCHANGED <<binding, running, wire, backendVars, operational, intercepted>>

(* translate_protocol_synchronization_acknowledgement *)
Translate(acknowledgement) ==
    LET results == Range(acknowledgement.entries) IN
    [t \in {entry.txn : entry \in results} |->
       LET entry == CHOOSE e \in results : e.txn = t
       IN  [state |-> entry.outcome, retryAt |-> entry.retryAt]]

(* The first transaction: a replay of the stored acknowledgement is accepted,
   a different one is not. *)
StoreAcknowledgement(s) ==
    LET task == submission[s] outcome == Translate(task.ack) IN
    /\ task # NULL
    /\ task.pc = "store"
    /\ \/ StoreSynchronizationAcknowledgement(
            task.batch, task.ack.receivedAt, outcome)
       \/ /\ ack[task.batch] # NULL
          /\ ack[task.batch].receivedAt = task.ack.receivedAt
          /\ ack[task.batch].outcome = outcome
          /\ UNCHANGED storeVars
    /\ submission' = [submission EXCEPT ![s].pc = "apply"]
    /\ UNCHANGED <<binding, running, wire, backendVars, operational, intercepted>>

(* The second transaction; an acknowledgement that is applied already is
   reported as such. *)
ApplyAcknowledgement(s) ==
    LET task == submission[s]
        received == task.ack.receivedAt
        appliedAt == IF task.completedAt > received THEN task.completedAt ELSE received
    IN  /\ task # NULL
        /\ task.pc = "apply"
        /\ \/ ApplySynchronizationAcknowledgement(task.batch, appliedAt)
           \/ ack[task.batch].appliedAt # NULL /\ UNCHANGED storeVars
        /\ Ends(s)
        /\ UNCHANGED <<binding, running, wire, backendVars, operational, intercepted>>

(* Any of the three transactions returns an error and changes nothing. *)
SubmissionError(s) ==
    /\ submission[s] # NULL
    /\ submission[s].pc \in {"failed", "store", "apply"}
    /\ Ends(s)
    /\ UNCHANGED <<storeVars, binding, running, wire, backendVars, operational, intercepted>>

-----------------------------------------------------------------------------
(* The backend *)

(* The rest of SynchronizationHttpClient::submit: an acknowledgement is checked
   against the request. *)
Received(task, acknowledgement) ==
    IF Backend!ValidAcknowledgement(acknowledgement)
       /\ Backend!ValidAgainstRequest(acknowledgement, task.request)
    THEN [task EXCEPT !.pc = "store", !.ack = acknowledgement]
    ELSE Failed(task, "response_decode_failure")

(* The request leaves the wire; its answer reaches the client, if there still
   is one, or is lost. *)
Answer(m, state(_)) ==
    /\ wire' = wire \ {m}
    /\ \/ UNCHANGED submission
       \/ /\ m.from # NULL
          /\ submission' = [submission EXCEPT ![m.from] = state(@)]
    /\ UNCHANGED <<storeVars, binding, running, operational, intercepted>>

AnswerFailure(m, category) == Answer(m, LAMBDA task : Failed(task, category))

Acknowledge(m, acknowledgement) ==
    Answer(m, LAMBDA task : Received(task, acknowledgement))

(* The checks before the repository looks at the batch. *)
BackendRefusal(request) ==
    CASE ~(Backend!ValidFields(request) /\ Backend!ValidRequest(request)) ->
           "backend_validation_failure"
      [] request.version # CurrentVersion -> "unsupported_protocol"
      [] request.environment # Environment -> "environment_mismatch"
      [] request.reader # Reader -> "reader_not_registered"
      [] ~operational -> "reader_not_operational"
      [] OTHER -> NULL

Refuse(m) ==
    /\ BackendRefusal(m.request) # NULL
    /\ AnswerFailure(m, BackendRefusal(m.request))
    /\ UNCHANGED backendVars

Unavailable(m) ==
    AnswerFailure(m, "backend_temporarily_unavailable") /\ UNCHANGED backendVars

(* Plausible mistake in Process: a replay is answered with a new
   acknowledgement instead of the stored one. *)
ProcessAnew(m, receivedAt) ==
    LET row == batches[m.request.batch]
        acknowledgement == Backend!BuildAcknowledgement(m.request, receivedAt)
    IN  /\ BackendRefusal(m.request) = NULL
        /\ IF row # NULL THEN Acknowledge(m, acknowledgement) /\ UNCHANGED backendVars
           ELSE Backend!Ingest(m.request, acknowledgement) /\ Acknowledge(m, acknowledgement)

(* process: a replay, a conflict, or a new batch, whose commit may be carried
   out while its confirmation is lost. *)
Process(m, receivedAt) ==
    LET request == m.request
        row == batches[request.batch]
        acknowledgement == Backend!BuildAcknowledgement(request, receivedAt)
    IN  /\ BackendRefusal(request) = NULL
        /\ IF row # NULL
           THEN /\ IF Backend!BatchMatches(row, request)
                   THEN Acknowledge(m, Backend!WithReplayed(row.acknowledgement, TRUE))
                   ELSE AnswerFailure(m, "batch_identity_conflict")
                /\ UNCHANGED backendVars
           ELSE IF \A entry \in Backend!Prepared(request, acknowledgement) :
                     Backend!ConsistentIdentity(request, entry)
           THEN /\ Backend!Ingest(request, acknowledgement)
                /\ \/ Acknowledge(m, acknowledgement)
                   \/ AnswerFailure(m, "backend_temporarily_unavailable")
           ELSE /\ AnswerFailure(m, "transaction_identity_conflict")
                /\ UNCHANGED backendVars

(* The equipment registry disables or enables the reader. *)
ChangeReader ==
    /\ operational' = ~operational
    /\ UNCHANGED <<storeVars, binding, running, submission, wire, backendVars, intercepted>>

-----------------------------------------------------------------------------
(* The specification *)

Init ==
    /\ StoreInit
    /\ Backend!IngestInit
    /\ binding = NULL
    /\ running = FALSE
    /\ submission = [s \in Submission |-> NULL]
    /\ wire = {}
    /\ operational = TRUE
    /\ intercepted = {}

ReaderStep ==
    \/ \E at \in Time :
         \/ \E identity \in Identity : BindReaderDatabase(identity, at)
         \/ \E t \in Txn : Enqueue(t, at)
         \/ \E b \in Batch, limit \in Limits : CreateBatch(b, limit, at)
         \/ \E b \in Batch : MarkInFlight(b, at)
         \/ \E s \in Submission, b \in Batch, retryAt \in Time :
              Submit(s, b, at, retryAt)
    \/ Crash

(* What ends a submission that is on its way. *)
Progress(s) ==
    \/ \E category \in {"network_timeout", "connection_failure",
                         "response_decode_failure"} : GiveUp(s, category)
    \/ RecordFailure(s)
    \/ StoreAcknowledgement(s)
    \/ ApplyAcknowledgement(s)
    \/ SubmissionError(s)

BackendStep ==
    \E m \in wire :
      \/ Refuse(m)
      \/ Unavailable(m)
      \/ \E receivedAt \in Time : Process(m, receivedAt)

GatewayStep ==
    \E s \in Submission, category \in ForeignCategory : AnsweredInBetween(s, category)

Next == ReaderStep \/ (\E s \in Submission : Progress(s)) \/ BackendStep
        \/ GatewayStep \/ ChangeReader

Spec == Init /\ [][Next]_vars

(* The request timeout of the HTTP client fires, and the tasks of the running
   process run. *)
FairSpec == Spec /\ \A s \in Submission : WF_vars(Progress(s))

-----------------------------------------------------------------------------
(* Properties *)

Delivery == INSTANCE TransactionDelivery WITH
    recorded <- [t \in Txn |-> IF txn[t] = NULL THEN 0 ELSE txn[t].sequence],
    delivered <- [t \in Txn |-> IF transactions[t] = NULL THEN 0
                                ELSE transactions[t].sequence],
    confirmed <- {t \in Txn : txn[t] # NULL /\ txn[t].state = "acknowledged"},
    discarded <- {t \in Txn : txn[t] # NULL /\ txn[t].state = "permanent_failure"},
    misled <- {t \in Txn : \E b \in intercepted : batch[b] # NULL /\ t \in batch[b].entries}

(* Batches, retries, lost answers, late requests and restarts implement
   TransactionDelivery: a transaction is acknowledged at the reader only when
   the backend has it under the same sequence, and has failed permanently only
   when the backend does not have it and never will, or when something between
   the two answered one of its batches with a refusal of its own. *)
ImplementsDelivery == Delivery!DeliverySpec

(* What process compares: a request contradicts the tables when its batch is
   stored with another content, or one of its transactions with another
   identity. *)
Contradicts(request) ==
    IF batches[request.batch] # NULL
    THEN ~Backend!BatchMatches(batches[request.batch], request)
    ELSE \E at \in Time :
           \E entry \in Backend!Prepared(request, Backend!BuildAcknowledgement(request, at)) :
             ~Backend!ConsistentIdentity(request, entry)

(* The backend has no reason to call a request of the reader invalid or a
   conflict, however late it arrives: the reader rebuilds the same request
   from its database after any crash, upgrade, lost answer or answer of a
   gateway, and no two of its batches carry contradicting identities. *)
NoFalseConflict ==
    \A m \in wire :
      /\ Backend!ValidFields(m.request) /\ Backend!ValidRequest(m.request)
      /\ m.request.reader = Reader => ~Contradicts(m.request)

(* The acknowledgement stored at the reader is the one the backend committed
   with the batch, so a later replay can never conflict with it. *)
AcknowledgementIsCommitted ==
    \A b \in Batch : ack[b] # NULL =>
      /\ batches[b] # NULL
      /\ ack[b].receivedAt = batches[b].acknowledgement.receivedAt
      /\ ack[b].outcome = Translate(batches[b].acknowledgement)

(* What create, enqueue and bind do not check and a request needs: at most
   MaxEntries entries, envelopes and identity texts within the protocol. *)
FitsProtocol(b) ==
    /\ Cardinality(batch[b].entries) <= MaxEntries
    /\ \A t \in batch[b].entries : Backend!ValidEnvelope(Envelope(t))
    /\ {binding.environment, binding.software} \subseteq ProtocolText

(* Whatever was retried, recovered or reapplied, a batch in flight can be turned
   into a valid request unless it was beyond the protocol from the start: too
   many entries for one request, an envelope that is too large or no JSON
   object, or an identity text that the protocol refuses.  Such a batch can
   never be submitted. *)
InFlightBatchLoads ==
    \A b \in Batch : batch[b] # NULL /\ batch[b].state = "in_flight" =>
      (RequestLoads(b) <=> FitsProtocol(b))

(* What the documentation says of an interrupted application: a stored
   acknowledgement that is not applied yet can still be applied. *)
StoredAcknowledgementApplicable ==
    \A b \in Batch : ack[b] # NULL /\ ack[b].appliedAt = NULL =>
      batch[b].state \in {"in_flight", "retryable_failure"}

(* Every submission comes to an end: with the timeout of the client no lost
   request or answer keeps a task waiting. *)
SubmissionsEnd ==
    \A s \in Submission : submission[s] # NULL ~> submission[s] = NULL

=============================================================================

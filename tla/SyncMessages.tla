---------------------------- MODULE SyncMessages ----------------------------
(***************************************************************************)
(* The messages of the reader synchronization protocol and their           *)
(* validation (crates/device-protocol/src/synchronization.rs), and what    *)
(* their fingerprints tell apart (fingerprint.rs, payload_fingerprint.rs). *)
(*                                                                         *)
(* A message is a record with the fields of the Rust type.  Constructors   *)
(* and deserializers refuse a message that fails validation, so a message  *)
(* that exists satisfies its predicate below.  SHA-256 over the length-    *)
(* prefixed fields is taken as injective: a fingerprint is the record of   *)
(* exactly the fields that are hashed.                                     *)
(***************************************************************************)
EXTENDS Integers, Sequences, Functions, Absent

CONSTANTS
    MaxEntries,       \* MAX_SYNCHRONIZATION_BATCH_ENTRIES (256 in the code)
    MaxRequestBytes,  \* MAX_SYNCHRONIZATION_REQUEST_BYTES (1 MiB in the code)
    MaxEnvelopeBytes, \* MAX_TRANSACTION_ENVELOPE_BYTES (64 KiB in the code)
    ProtocolText,     \* the texts that validate_text accepts: not empty, at most
                      \* 128 bytes, no control character
    CurrentVersion    \* DeviceProtocolVersion::CURRENT

-----------------------------------------------------------------------------
(* Plausible mistake in ValidEntries, kept to test the properties: the order
   of the sequences is not checked. *)
ValidEntriesInAnyOrder(first, last, entries) ==
    /\ Len(entries) \in 1..MaxEntries
    /\ IsInjective([i \in DOMAIN entries |-> entries[i].txn])

-----------------------------------------------------------------------------
(* Stable failure categories *)

SynchronizationFailureCategory ==
    {"network_timeout", "connection_failure", "response_decode_failure",
     "payload_too_large", "unsupported_protocol", "reader_not_registered",
     "reader_not_operational", "environment_mismatch",
     "batch_identity_conflict", "batch_range_mismatch",
     "entry_order_mismatch", "transaction_identity_conflict",
     "backend_temporarily_unavailable", "backend_validation_failure",
     "manual_review_required"}

SynchronizationEntryOutcome ==
    {"acknowledged", "retryable_failure", "permanent_failure", "manual_review"}

-----------------------------------------------------------------------------
(* Entries *)

ValidEntryCount(n) == n \in 1..MaxEntries

ValidBoundarySequences(first, last, entries) ==
    /\ first <= last
    /\ first = Head(entries).sequence
    /\ last = entries[Len(entries)].sequence

IncreasingSequences(entries) ==
    \A i \in 2..Len(entries) : entries[i - 1].sequence < entries[i].sequence

(* validate_request_entries and validate_acknowledgement_entries *)
ValidEntries(first, last, entries) ==
    /\ ValidEntryCount(Len(entries))
    /\ ValidBoundarySequences(first, last, entries)
    /\ IsInjective([i \in DOMAIN entries |-> entries[i].txn])
    /\ IncreasingSequences(entries)

(* CanonicalTransactionEnvelope::from_json: a JSON object of bounded size *)
ValidEnvelope(envelope) == envelope.object /\ envelope.bytes <= MaxEnvelopeBytes

RequestEntry(txn, sequence, envelope) ==
    [txn |-> txn, sequence |-> sequence, envelope |-> envelope]

(* Only a failure has a category and only a retryable one a retry time. *)
ValidOutcomeMetadata(entry) ==
    /\ entry.retryAt # NULL => entry.retryAt >= 0
    /\ (entry.category # NULL) <=> (entry.outcome # "acknowledged")
    /\ (entry.retryAt # NULL) <=> (entry.outcome = "retryable_failure")

AcknowledgementEntry(txn, sequence, outcome, category, retryAt) ==
    [txn |-> txn, sequence |-> sequence, outcome |-> outcome,
     category |-> category, retryAt |-> retryAt]

-----------------------------------------------------------------------------
(* Requests and acknowledgements *)

SynchronizationBatchRequest(version, env, reader, software, b, first, last, at, entries) ==
    [version |-> version, environment |-> env, reader |-> reader,
     software |-> software, batch |-> b, first |-> first, last |-> last,
     submittedAt |-> at, entries |-> entries]

(* The fields whose types have a validating constructor of their own. *)
ValidFields(request) ==
    /\ {request.environment, request.software} \subseteq ProtocolText
    /\ \A i \in DOMAIN request.entries : ValidEnvelope(request.entries[i].envelope)

(* SynchronizationBatchRequest::new *)
ValidRequest(request) ==
    /\ request.submittedAt >= 0
    /\ ValidEntries(request.first, request.last, request.entries)

SynchronizationBatchAcknowledgement(request, receivedAt, replayed, entries) ==
    [version |-> request.version, environment |-> request.environment,
     reader |-> request.reader, batch |-> request.batch,
     first |-> request.first, last |-> request.last,
     receivedAt |-> receivedAt, replayed |-> replayed, entries |-> entries]

ValidAcknowledgement(ack) ==
    /\ ack.receivedAt >= 0
    /\ ValidEntries(ack.first, ack.last, ack.entries)
    /\ \A i \in DOMAIN ack.entries : ValidOutcomeMetadata(ack.entries[i])

(* validate_against_request: the identity of the batch, and entry by entry the
   same transaction and sequence. *)
ValidAgainstRequest(ack, request) ==
    /\ \A field \in {"version", "environment", "reader", "batch", "first", "last"} :
         ack[field] = request[field]
    /\ Len(ack.entries) = Len(request.entries)
    /\ \A i \in DOMAIN ack.entries :
         /\ ack.entries[i].txn = request.entries[i].txn
         /\ ack.entries[i].sequence = request.entries[i].sequence

WithReplayed(ack, replayed) == [ack EXCEPT !.replayed = replayed]

(* The size of the encoded request, up to the fields of bounded length: the
   envelopes decide it. *)
EncodedBytes(request) ==
    FoldFunction(LAMBDA entry, sum : sum + entry.envelope.bytes, 0, request.entries)

-----------------------------------------------------------------------------
(* Fingerprints *)

(* Every field of a request is hashed. *)
RequestFingerprint(request) == request

(* for_transaction_envelope: the canonical envelope alone *)
TransactionFingerprint(entry) == entry.envelope

(* for_acknowledgement: everything but the transport-only replay marker *)
AcknowledgementFingerprint(ack) == WithReplayed(ack, FALSE)

=============================================================================

---------------------------- MODULE Fingerprints ----------------------------
(***************************************************************************)
(* The fingerprints of requests, acknowledgements and envelopes            *)
(* (device-protocol/src/fingerprint.rs, payload_fingerprint.rs): the bytes *)
(* that are hashed, in order, and the hexadecimal text that is stored and  *)
(* compared.  SyncMessages abstracts a fingerprint to the fields it covers;*)
(* this module checks that abstraction against the encoding.               *)
(*                                                                         *)
(* A text is a sequence of bytes.  An integer is written big-endian in two *)
(* bytes instead of eight.  SHA-256 is external and taken to be injective. *)
(***************************************************************************)
EXTENDS SyncMessages, FiniteSets, SequencesExt

CONSTANTS
    Request,         \* the requests that are compared
    Acknowledgement  \* the acknowledgements that are compared

VARIABLES
    kind,     \* what is compared: "request" or "acknowledgement"
    stored,   \* the message whose fingerprint was stored; NULL before
    arriving  \* the message that arrives under the same identity; NULL before

fingerprintVars == <<kind, stored, arriving>>

-----------------------------------------------------------------------------
(* Plausible mistakes, kept to test the properties: each operator is a wrong
   version of the definition below that its comment names, and no
   specification uses it. *)

(* UpdateBytes: the length is left out. *)
UpdateBytesBare(value) == value

-----------------------------------------------------------------------------
(* Hashed bytes *)

UpdateU64(n) == <<n \div 256, n % 256>>

UpdateBytes(value) == UpdateU64(Len(value)) \o value

RequestDomain == <<82>>

AcknowledgementDomain == <<65>>

(* SynchronizationRequestFingerprint::calculate *)
RequestStream(request) ==
    UpdateBytes(RequestDomain) \o UpdateU64(request.version)
      \o UpdateBytes(request.environment) \o UpdateBytes(request.reader)
      \o UpdateBytes(request.software) \o UpdateBytes(request.batch)
      \o UpdateU64(request.first) \o UpdateU64(request.last)
      \o UpdateU64(request.submittedAt) \o UpdateU64(Len(request.entries))
      \o FlattenSeq([i \in DOMAIN request.entries |->
           LET entry == request.entries[i]
           IN  UpdateBytes(entry.txn) \o UpdateU64(entry.sequence)
                 \o UpdateBytes(entry.envelope)])

EncodeOutcome(outcome) ==
    CASE outcome = "acknowledged"      -> 1
      [] outcome = "retryable_failure" -> 2
      [] outcome = "permanent_failure" -> 3
      [] outcome = "manual_review"     -> 4

(* for_acknowledgement: a presence byte before each optional field *)
AcknowledgementStream(ack) ==
    UpdateBytes(AcknowledgementDomain) \o UpdateU64(ack.version)
      \o UpdateBytes(ack.environment) \o UpdateBytes(ack.reader)
      \o UpdateBytes(ack.batch) \o UpdateU64(ack.first) \o UpdateU64(ack.last)
      \o UpdateU64(ack.receivedAt) \o UpdateU64(Len(ack.entries))
      \o FlattenSeq([i \in DOMAIN ack.entries |->
           LET entry == ack.entries[i]
           IN  UpdateBytes(entry.txn) \o UpdateU64(entry.sequence)
                 \o <<EncodeOutcome(entry.outcome)>>
                 \o (IF entry.category = NULL THEN <<0>>
                     ELSE <<1>> \o UpdateBytes(entry.category))
                 \o (IF entry.retryAt = NULL THEN <<0>>
                     ELSE <<1>> \o UpdateU64(entry.retryAt))])

Sha256(stream) == stream

-----------------------------------------------------------------------------
(* Hexadecimal text: the digits 0..9 and a..f are 0..15, A..F are 26..31. *)

ToHex(digest) ==
    FlattenSeq([i \in DOMAIN digest |-> <<digest[i] \div 16, digest[i] % 16>>])

DecodeHexadecimalDigit(digit) ==
    IF digit \in 0..15 THEN {digit}
    ELSE IF digit \in 26..31 THEN {digit - 16}
    ELSE {}

(* from_str for a digest of n bytes; {} is a parse error. *)
FromHex(text, n) ==
    LET decoded == [i \in DOMAIN text |-> DecodeHexadecimalDigit(text[i])]
    IN  IF Len(text) # 2 * n \/ {} \in Range(decoded) THEN {}
        ELSE {[i \in 1..n |->
                 16 * (CHOOSE d \in decoded[2 * i - 1] : TRUE)
                   + (CHOOSE d \in decoded[2 * i] : TRUE)]}

RequestText(request) == ToHex(Sha256(RequestStream(request)))

AcknowledgementText(ack) == ToHex(Sha256(AcknowledgementStream(ack)))

(* validate_existing_batch: the batch of the same reader and the same text is a
   replay. *)
Replays(existing, request) ==
    /\ existing.reader = request.reader
    /\ RequestText(existing) = RequestText(request)

-----------------------------------------------------------------------------
(* Some message was stored, and one arrives under the same identity. *)

Messages(k) == IF k = "request" THEN Request ELSE Acknowledgement

FingerprintsInit == kind = NULL /\ stored = NULL /\ arriving = NULL

StoreMessage ==
    /\ stored = NULL
    /\ kind' \in {"request", "acknowledgement"}
    /\ stored' \in Messages(kind')
    /\ UNCHANGED arriving

Arrive ==
    /\ stored # NULL
    /\ arriving = NULL
    /\ arriving' \in Messages(kind)
    /\ UNCHANGED <<kind, stored>>

FingerprintsNext == StoreMessage \/ Arrive

FingerprintsSpec == FingerprintsInit /\ [][FingerprintsNext]_fingerprintVars

-----------------------------------------------------------------------------
(* Properties *)

(* The backend takes a request for a replay of the stored one exactly when every
   field is equal: neighbouring texts of different lengths, another
   number of entries or another submission time are told apart, so a replay is
   never confused with a conflicting request.  The text of an acknowledgement
   tells apart everything but the replay marker: the acknowledgement of a
   replayed batch keeps its fingerprint.  A text parses back to the same bytes,
   in lower and in upper case. *)
TextExact ==
    LET digest == IF kind = "request"
                  THEN Sha256(RequestStream(stored))
                  ELSE Sha256(AcknowledgementStream(stored))
        text   == ToHex(digest)
        upper  == [i \in DOMAIN text |-> IF text[i] > 9 THEN text[i] + 16 ELSE text[i]]
    IN  stored # NULL =>
        /\ kind = "request" /\ arriving # NULL =>
             (Replays(stored, arriving)
                <=> RequestFingerprint(stored) = RequestFingerprint(arriving))
        /\ kind = "acknowledgement" /\ arriving # NULL =>
             (AcknowledgementText(stored) = AcknowledgementText(arriving)
                <=> AcknowledgementFingerprint(stored) = AcknowledgementFingerprint(arriving))
        /\ FromHex(text, Len(digest)) = {digest}
        /\ FromHex(upper, Len(digest)) = {digest}

=============================================================================

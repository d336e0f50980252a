------------------------- MODULE BackendIngestProofs -------------------------
(***************************************************************************)
(* Proofs about BackendIngest, for any number of handlers, readers,        *)
(* batches and transactions, any requests and any interleaving.            *)
(*                                                                         *)
(* The argument: from validate_reader to the end a handler holds its       *)
(* reader, from insert_batch on the key of its batch, and each transaction *)
(* row it has written or selected is its own.  So what it has written is   *)
(* still what the committed rows call for when it commits: the invariant   *)
(* IngestInv, from which the theorems follow: batches are stored while     *)
(* their reader is operational, an acknowledgement that is sent is the one *)
(* that is stored, a commit is one step of IdempotentIngest, a conflict    *)
(* that is reported is real, the resolution of a transaction is the newest *)
(* one, and handlers do not wait for one another in a circle.              *)
(*                                                                         *)
(* The operators below take the tables as parameters: T the transactions,  *)
(* B the batches, M the readers.                                           *)
(***************************************************************************)
EXTENDS BackendIngest, WellFoundedInduction, TLAPS

(* Zenon proves the leaves that cite no other prover. *)
USE ZenonT(30)

-----------------------------------------------------------------------------
(* Types *)

BatchRows == UNION {{BatchRow(p, ack) : ack \in Acknowledgements(p)} : p \in Request}

Rows == [Txn -> TransactionRow \cup {NULL}]

Sharing == {"find_existing_batch", "insert_batch"} \cup Storing

HandlerState ==
    [call: {"process", "store"},
     pc: {"validate_reader", "load_acknowledgement"} \cup Sharing,
     request: Request, ack: UNION {Acknowledgements(p) : p \in Request},
     position: Nat, found: BOOLEAN, locked: SUBSET Txn, rows: Rows]

IngestType ==
    /\ batches \in [Batch -> BatchRows \cup {NULL}]
    /\ transactions \in Rows
    /\ handler \in [Handler -> HandlerState \cup {NULL}]

-----------------------------------------------------------------------------
(* What a handler relies on *)

Prepare(s, i) == PreparedEntry(s.request, s.ack, i)

ViewOf(s, T) == [t \in Txn |-> IF t \in s.locked THEN s.rows[t] ELSE T[t]]

(* The unique key on reader and sequence. *)
SameKey(row, other) == row.reader = other.reader /\ row.sequence = other.sequence

UniqueSequences(T) ==
    \A t, u \in Txn : T[t] # NULL /\ T[u] # NULL /\ SameKey(T[t], T[u]) => t = u

Operational(r, M) == M[r] # NULL /\ Registry!MayAuthenticateToBackend(M[r].aggregate)

(* The checks that the handler has passed still hold. *)
ChecksHold(s, B, M) ==
    /\ ValidRequest(s.request)
    /\ s.ack \in Acknowledgements(s.request)
    /\ s.pc \in Sharing => Operational(s.request.reader, M)
    /\ s.pc \in Storing => B[s.request.batch] = NULL
    /\ s.pc = "load_acknowledgement" =>
         /\ B[s.request.batch] # NULL
         /\ B[s.request.batch].fingerprint = RequestFingerprint(s.request)

(* The positions whose entries are written. *)
Done(s) == {i \in DOMAIN s.request.entries : i < s.position \/ s.pc = "commit"}

Selected(s) == s.pc = "write_transaction" /\ s.found

(* The row written for the entry at position i. *)
IsWritten(s, i, T) ==
    LET entry == Prepare(s, i)
        t == entry.txn
    IN  /\ t \in s.locked
        /\ T[t] = NULL => s.rows[t] = NewTransaction(s.request, entry)
        /\ T[t] # NULL => /\ TransactionIdentityMatches(T, t, s.request, entry)
                          /\ s.rows[t] = ResolvedTransaction(T[t], entry)

(* The row selected FOR UPDATE for the entry at the current position. *)
IsSelected(s, T) ==
    LET entry == Prepare(s, s.position)
        t == entry.txn
    IN  /\ t \in s.locked
        /\ T[t] # NULL
        /\ TransactionIdentityMatches(T, t, s.request, entry)
        /\ s.rows[t] = T[t]

(* What the handler has written is what the committed rows call for. *)
WritesHold(s, T) ==
    /\ s.position \in DOMAIN s.request.entries
    /\ s.pc \notin Storing => s.position = 1 /\ s.locked = {}
    /\ \A t \in s.locked :
         \/ \E i \in Done(s) : t = s.request.entries[i].txn
         \/ Selected(s) /\ t = s.request.entries[s.position].txn
    /\ \A i \in Done(s) : IsWritten(s, i, T)
    /\ Selected(s) => IsSelected(s, T)
    /\ UniqueSequences(ViewOf(s, T))

(* Two handlers that are storing. *)
Separate(s, q, T) ==
    s.pc \in Storing /\ q.pc \in Storing =>
      /\ s.request.batch # q.request.batch
      /\ s.locked \cap q.locked = {}
      /\ \A t \in s.locked, u \in q.locked :
           T[t] = NULL /\ T[u] = NULL => ~SameKey(s.rows[t], q.rows[u])

(* A stored batch has its entry rows. *)
HasEntries(row, E) ==
    \A i \in DOMAIN row.fingerprint.entries :
      EntryRow(row.fingerprint, PreparedEntry(row.fingerprint, row.acknowledgement, i)) \in E

-----------------------------------------------------------------------------
(* The inductive invariant *)

IngestInv ==
    /\ IngestType
    /\ UniqueSequences(transactions)
    /\ \A b \in Batch : batches[b] # NULL => HasEntries(batches[b], entries)
    /\ \A h \in Handler : handler[h] # NULL =>
         /\ ChecksHold(handler[h], batches, equipment)
         /\ WritesHold(handler[h], transactions)
    /\ \A h, g \in Handler : h # g /\ handler[h] # NULL /\ handler[g] # NULL =>
         Separate(handler[h], handler[g], transactions)

-----------------------------------------------------------------------------
(* What a handler has written *)

(* An entry stays written when the handler keeps its request and its row. *)
LEMMA WrittenKept ==
    ASSUME NEW s, NEW q, NEW i, NEW T, IsWritten(s, i, T),
           q.request = s.request, Prepare(q, i) = Prepare(s, i),
           Prepare(s, i).txn \in q.locked,
           q.rows[Prepare(s, i).txn] = s.rows[Prepare(s, i).txn]
    PROVE  IsWritten(q, i, T)
  BY DEF IsWritten

(* A row in a table under keys of its own keeps the keys unique. *)
LEMMA UniqueSequencesKept ==
    ASSUME NEW V, NEW N, NEW t \in Txn, NEW row, UniqueSequences(V),
           \A u \in Txn : N[u] = IF u = t THEN row ELSE V[u],
           \A u \in Txn : V[u] # NULL /\ SameKey(V[u], row) => u = t
    PROVE  UniqueSequences(N)
<1>. SUFFICES ASSUME NEW u \in Txn, NEW v \in Txn, N[u] # NULL, N[v] # NULL,
                     SameKey(N[u], N[v]), u # v
              PROVE  FALSE
  BY DEF UniqueSequences
<1>1. CASE u = t
  BY <1>1 DEF SameKey
<1>2. CASE v = t
  BY <1>2
<1>3. CASE u # t /\ v # t
  BY <1>3 DEF UniqueSequences
<1>. QED
  BY <1>1, <1>2, <1>3

-----------------------------------------------------------------------------
(* Rows and acknowledgements *)

LEMMA RequestFacts ==
    ASSUME NEW p \in Request
    PROVE  /\ p.reader \in Reader
           /\ p.batch \in Batch
           /\ Len(p.entries) \in Nat /\ DOMAIN p.entries = 1..Len(p.entries)
           /\ \A i \in DOMAIN p.entries : p.entries[i].txn \in Txn
           /\ \A ack \in Acknowledgements(p) : BatchRow(p, ack) # NULL
  BY IngestAssumption

LEMMA PreparedFacts ==
    ASSUME NEW p \in Request, NEW ack \in Acknowledgements(p), NEW i \in DOMAIN p.entries
    PROVE  LET entry == PreparedEntry(p, ack, i) IN
           /\ entry.txn = p.entries[i].txn
           /\ entry.position = i
           /\ entry.txn \in Txn
           /\ entry.sequence = p.entries[i].sequence
           /\ entry.outcome \in {r.outcome : r \in Result \cup {Accepted}}
           /\ entry.resolvedAt \in Time
           /\ NewTransaction(p, entry) \in TransactionRow
           /\ NewTransaction(p, entry).reader = p.reader
           /\ NewTransaction(p, entry).sequence = entry.sequence
<1>. DEFINE entry == PreparedEntry(p, ack, i)
<1>1. PICK receivedAt \in Time, result \in [DOMAIN p.entries -> Result \cup {Accepted}] :
        ack = AcknowledgementWith(p, receivedAt, result)
  BY SMTT(30) DEF Acknowledgements
<1>2. ack.receivedAt = receivedAt /\ ack.entries[i].outcome = result[i].outcome
  BY <1>1 DEF AcknowledgementWith, SynchronizationBatchAcknowledgement, AcknowledgementEntry
<1>3. /\ entry.txn = p.entries[i].txn
      /\ entry.position = i
      /\ entry.sequence = p.entries[i].sequence
      /\ entry.fingerprint = TransactionFingerprint(p.entries[i])
      /\ entry.outcome = result[i].outcome
      /\ entry.resolvedAt = receivedAt
  BY <1>2 DEF PreparedEntry
<1>4. /\ p.entries[i].txn \in Txn
      /\ result[i] \in Result \cup {Accepted}
      /\ p.entries[i] \in Range(p.entries)
  BY RequestFacts DEF Range
<1>. HIDE DEF entry
<1>5. /\ entry.sequence \in UNION {{e.sequence : e \in Range(q.entries)} : q \in Request}
      /\ entry.fingerprint \in
           UNION {{TransactionFingerprint(e) : e \in Range(q.entries)} : q \in Request}
      /\ entry.outcome \in {r.outcome : r \in Result \cup {Accepted}}
  BY <1>3, <1>4, SMTT(30)
<1>6. /\ NewTransaction(p, entry) \in TransactionRow
      /\ NewTransaction(p, entry).reader = p.reader
      /\ NewTransaction(p, entry).sequence = entry.sequence
  BY <1>3, <1>5, RequestFacts DEF NewTransaction, TransactionRow
<1>. QED
  BY <1>3, <1>4, <1>5, <1>6 DEF entry

(* A resolution keeps the identity of a row. *)
LEMMA ResolvedFacts ==
    ASSUME NEW row \in TransactionRow, NEW p \in Request, NEW ack \in Acknowledgements(p),
           NEW i \in DOMAIN p.entries
    PROVE  LET new == ResolvedTransaction(row, PreparedEntry(p, ack, i)) IN
           /\ new \in TransactionRow
           /\ new.reader = row.reader
           /\ new.sequence = row.sequence
           /\ new.fingerprint = row.fingerprint
<1>. DEFINE entry == PreparedEntry(p, ack, i)
<1>1. /\ entry.outcome \in {r.outcome : r \in Result \cup {Accepted}}
      /\ entry.resolvedAt \in Time
  BY PreparedFacts
<1>. HIDE DEF entry
<1>. DEFINE new == ResolvedTransaction(row, entry)
<1>2. new = row \/ new = [row EXCEPT !.resolution = entry.outcome, !.resolvedAt = entry.resolvedAt]
  BY DEF ResolvedTransaction
<1>. HIDE DEF new
<1>3. /\ new \in TransactionRow
      /\ new.reader = row.reader
      /\ new.sequence = row.sequence
      /\ new.fingerprint = row.fingerprint
  BY <1>1, <1>2 DEF TransactionRow
<1>. QED
  BY <1>3 DEF new, entry

(* Every acknowledgement that can be stored fits its request. *)
LEMMA AcknowledgementFits ==
    ASSUME NEW p \in Request, NEW ack \in Acknowledgements(p)
    PROVE  ValidAgainstRequest(ack, p)
<1>1. PICK receivedAt \in Time, result \in [DOMAIN p.entries -> Result \cup {Accepted}] :
        ack = AcknowledgementWith(p, receivedAt, result)
  BY SMTT(30) DEF Acknowledgements
<1>. DEFINE list == [i \in DOMAIN p.entries |->
                       AcknowledgementEntry(p.entries[i].txn, p.entries[i].sequence,
                         result[i].outcome, result[i].category, result[i].retryAt)]
<1>2. /\ ack.version = p.version /\ ack.environment = p.environment /\ ack.reader = p.reader
      /\ ack.batch = p.batch /\ ack.first = p.first /\ ack.last = p.last
      /\ ack.entries = list
  BY <1>1 DEF AcknowledgementWith, SynchronizationBatchAcknowledgement
<1>3. /\ DOMAIN list = 1..Len(p.entries)
      /\ Len(p.entries) \in Nat
      /\ \A i \in DOMAIN list : list[i].txn = p.entries[i].txn
                                /\ list[i].sequence = p.entries[i].sequence
  BY RequestFacts DEF AcknowledgementEntry
<1>4. Len(list) = Len(p.entries)
  BY <1>3, SMTT(30)
<1>. HIDE DEF list
<1>. QED
  BY <1>2, <1>3, <1>4 DEF ValidAgainstRequest

-----------------------------------------------------------------------------
(* Steps that change one handler and no table *)

(* What the invariant says of a handler. *)
LEMMA InvHandler ==
    ASSUME IngestInv, NEW h \in Handler, handler[h] # NULL
    PROVE  /\ handler[h] \in HandlerState
           /\ ChecksHold(handler[h], batches, equipment)
           /\ WritesHold(handler[h], transactions)
           /\ \A g \in Handler \ {h} : handler[g] # NULL =>
                Separate(handler[h], handler[g], transactions)
  BY DEF IngestInv, IngestType

LEMMA HandlerChangeKept ==
    ASSUME IngestInv, NEW h \in Handler, NEW state,
           handler' = [handler EXCEPT ![h] = state],
           UNCHANGED <<tables, equipment>>,
           state # NULL =>
             /\ state \in HandlerState
             /\ ChecksHold(state, batches, equipment)
             /\ WritesHold(state, transactions)
             /\ \A g \in Handler \ {h} : handler[g] # NULL =>
                  Separate(state, handler[g], transactions)
    PROVE  IngestInv'
<1>SeparateSymmetric. ASSUME NEW s, NEW q, NEW T, Separate(s, q, T)
                      PROVE  Separate(q, s, T)
  BY <1>SeparateSymmetric DEF Separate, SameKey
<1>1. /\ handler'[h] = state
      /\ \A g \in Handler \ {h} : handler'[g] = handler[g]
      /\ handler' \in [Handler -> HandlerState \cup {NULL}]
  BY DEF IngestInv, IngestType
<1>2. batches' = batches /\ transactions' = transactions /\ entries' = entries
      /\ equipment' = equipment
  BY DEF tables
<1>3. IngestType'
  BY <1>1, <1>2 DEF IngestInv, IngestType
<1>4. \A g \in Handler : handler'[g] # NULL =>
        /\ ChecksHold(handler'[g], batches', equipment')
        /\ WritesHold(handler'[g], transactions')
  BY <1>1, <1>2 DEF IngestInv
<1>5. \A f, g \in Handler : f # g /\ handler'[f] # NULL /\ handler'[g] # NULL =>
        Separate(handler'[f], handler'[g], transactions')
  BY <1>1, <1>2, <1>SeparateSymmetric DEF IngestInv
<1>. QED
  BY <1>2, <1>3, <1>4, <1>5 DEF IngestInv

LEMMA RespondKept ==
    ASSUME IngestInv, NEW h \in Handler, NEW request, NEW category, NEW ack,
           Respond(h, request, category, ack), UNCHANGED <<tables, equipment>>
    PROVE  IngestInv'
  BY HandlerChangeKept DEF Respond

(* A handler before its first statement. *)
LEMMA BegunKept ==
    ASSUME IngestInv, NEW h \in Handler, NEW call \in {"process", "store"},
           NEW p \in Request, NEW ack \in Acknowledgements(p), ValidRequest(p),
           Continue(h, Begun(call, p, ack))
    PROVE  IngestInv'
<1>. DEFINE state == Begun(call, p, ack)
<1>1. /\ state \in HandlerState
      /\ state.request = p /\ state.ack = ack /\ state.pc = "validate_reader"
      /\ state.position = 1 /\ state.locked = {}
  BY DEF Begun, HandlerState, Rows
<1>. HIDE DEF state
<1>2. state.pc \notin Sharing /\ state.pc \notin Storing /\ state.pc # "commit"
  BY <1>1 DEF Sharing, Storing
<1>3. ChecksHold(state, batches, equipment)
  BY <1>1, <1>2 DEF ChecksHold
<1>4. 1 \in DOMAIN p.entries /\ Done(state) = {}
  BY <1>1, <1>2, RequestFacts, SMTT(30) DEF Done, ValidRequest, ValidEntries, ValidEntryCount
<1>5. UniqueSequences(ViewOf(state, transactions))
  BY <1>1 DEF ViewOf, IngestInv, IngestType, Rows, UniqueSequences
<1>6. WritesHold(state, transactions)
  BY <1>1, <1>2, <1>4, <1>5 DEF WritesHold, Selected
<1>7. \A g \in Handler \ {h} : Separate(state, handler[g], transactions)
  BY <1>2 DEF Separate
<1>. QED
  BY <1>1, <1>3, <1>6, <1>7, HandlerChangeKept DEF Continue, state

(* A handler that moves to another statement keeps the rest of its state. *)
LEMMA MovedFacts ==
    ASSUME NEW s \in HandlerState,
           NEW x \in {"validate_reader", "load_acknowledgement"} \cup Sharing
    PROVE  LET new == [s EXCEPT !.pc = x] IN
           /\ new \in HandlerState
           /\ new.pc = x
           /\ new.request = s.request /\ new.ack = s.ack /\ new.position = s.position
           /\ new.found = s.found /\ new.locked = s.locked /\ new.rows = s.rows
  BY DEF HandlerState

-----------------------------------------------------------------------------
(* store_transaction *)

(* The rows that a handler has locked, as it and the table have them. *)
LEMMA LockedFacts ==
    ASSUME NEW s \in HandlerState, NEW T \in Rows, s.ack \in Acknowledgements(s.request),
           WritesHold(s, T), NEW t \in s.locked
    PROVE  /\ s.rows[t] \in TransactionRow
           /\ s.rows[t] # NULL
           /\ T[t] # NULL => SameKey(T[t], s.rows[t])
           /\ ViewOf(s, T)[t] = s.rows[t]
<1>1. s.request \in Request /\ t \in Txn /\ s.position \in DOMAIN s.request.entries
  BY DEF HandlerState, WritesHold
<1>2. ASSUME NEW i \in Done(s), t = s.request.entries[i].txn
      PROVE  s.rows[t] \in TransactionRow /\ (T[t] # NULL => SameKey(T[t], s.rows[t]))
  <2>1. i \in DOMAIN s.request.entries
    BY DEF Done
  <2>2. Prepare(s, i).txn = t
    BY <1>1, <1>2, <2>1, PreparedFacts DEF Prepare
  <2>3. /\ T[t] = NULL => s.rows[t] = NewTransaction(s.request, Prepare(s, i))
        /\ T[t] # NULL => s.rows[t] = ResolvedTransaction(T[t], Prepare(s, i))
    BY <2>2 DEF WritesHold, IsWritten
  <2>4. CASE T[t] = NULL
    BY <1>1, <2>1, <2>3, <2>4, PreparedFacts, SMTT(30) DEF Prepare
  <2>5. CASE T[t] # NULL
    <3>1. T[t] \in TransactionRow
      BY <1>1, <2>5 DEF Rows
    <3>. QED
      BY <1>1, <2>1, <2>3, <2>5, <3>1, ResolvedFacts, SMTT(30) DEF Prepare, SameKey
  <2>. QED
    BY <2>4, <2>5
<1>3. ASSUME Selected(s), t = s.request.entries[s.position].txn
      PROVE  s.rows[t] \in TransactionRow /\ (T[t] # NULL => SameKey(T[t], s.rows[t]))
  <2>1. Prepare(s, s.position).txn = t
    BY <1>1, <1>3, PreparedFacts DEF Prepare
  <2>2. T[t] # NULL /\ s.rows[t] = T[t]
    BY <1>3, <2>1 DEF WritesHold, IsSelected
  <2>. QED
    BY <1>1, <2>2 DEF Rows, SameKey
<1>4. s.rows[t] \in TransactionRow /\ (T[t] # NULL => SameKey(T[t], s.rows[t]))
  BY <1>2, <1>3 DEF WritesHold
<1>5. s.rows[t] # NULL
  BY <1>4, IngestAssumption
<1>6. ViewOf(s, T)[t] = s.rows[t]
  BY <1>1 DEF ViewOf
<1>. QED
  BY <1>4, <1>5, <1>6

(* The transactions of a request differ, so the one at the current position is
   not among those that are written. *)
LEMMA CurrentIsNew ==
    ASSUME NEW s \in HandlerState, NEW T \in Rows, ValidRequest(s.request),
           WritesHold(s, T), s.pc # "commit", ~Selected(s)
    PROVE  s.request.entries[s.position].txn \notin s.locked
<1>1. \A i, j \in DOMAIN s.request.entries :
        s.request.entries[i].txn = s.request.entries[j].txn => i = j
  BY DEF ValidRequest, ValidEntries, IsInjective
<1>2. s.position \in DOMAIN s.request.entries /\ s.position \in Nat
  BY DEF WritesHold, HandlerState
<1>3. s.position \notin Done(s)
  BY <1>2, SMTT(30) DEF Done
<1>4. Done(s) \subseteq DOMAIN s.request.entries
  BY DEF Done
<1>. QED
  BY <1>1, <1>2, <1>3, <1>4, SMTT(30) DEF WritesHold

(* The state of a handler that has written the row of the current entry. *)
Wrote(s, row) ==
    LET entry == Prepare(s, s.position)
        last == entry.position = Len(s.request.entries)
    IN  [s EXCEPT !.pc = IF last THEN "commit" ELSE "find_transaction",
                  !.position = IF last THEN @ ELSE @ + 1,
                  !.locked = @ \cup {entry.txn}, !.rows[entry.txn] = row]

(* The row that the current entry calls for, given the committed rows. *)
CalledFor(s, row, T) ==
    LET entry == Prepare(s, s.position)
        t == entry.txn
    IN  \/ /\ T[t] = NULL
           /\ row = NewTransaction(s.request, entry)
        \/ /\ T[t] # NULL
           /\ TransactionIdentityMatches(T, t, s.request, entry)
           /\ row = ResolvedTransaction(T[t], entry)

LEMMA WroteFacts ==
    ASSUME NEW s \in HandlerState, NEW row \in TransactionRow, ValidRequest(s.request),
           s.ack \in Acknowledgements(s.request), s.pc = "write_transaction",
           s.position \in DOMAIN s.request.entries
    PROVE  LET new == Wrote(s, row)
               t == s.request.entries[s.position].txn
           IN  /\ new \in HandlerState
               /\ new.pc \in {"commit", "find_transaction"}
               /\ new.request = s.request /\ new.ack = s.ack
               /\ new.position \in DOMAIN s.request.entries
               /\ new.locked = s.locked \cup {t}
               /\ new.rows = [s.rows EXCEPT ![t] = row]
               /\ Done(new) = Done(s) \cup {s.position}
<1>. DEFINE entry == Prepare(s, s.position)
            t == s.request.entries[s.position].txn
            new == Wrote(s, row)
            n == Len(s.request.entries)
<1>1. /\ s.request \in Request /\ s.rows \in Rows /\ s.locked \subseteq Txn
      /\ s.position \in Nat
  BY DEF HandlerState
<1>2. entry.txn = t /\ entry.position = s.position /\ t \in Txn
  BY <1>1, PreparedFacts, SMTT(30) DEF Prepare
<1>3. n \in Nat /\ DOMAIN s.request.entries = 1..n
  BY <1>1, RequestFacts
<1>4. [s.rows EXCEPT ![t] = row] \in Rows
  BY <1>1 DEF Rows
<1>. HIDE DEF t, n
<1>5. CASE s.position = n
  <2>1. new = [s EXCEPT !.pc = "commit", !.position = s.position,
                        !.locked = s.locked \cup {t}, !.rows = [s.rows EXCEPT ![t] = row]]
    BY <1>2, <1>5 DEF Wrote, n
  <2>2. /\ new \in HandlerState /\ new.pc = "commit"
        /\ new.request = s.request /\ new.ack = s.ack /\ new.position = s.position
        /\ new.locked = s.locked \cup {t} /\ new.rows = [s.rows EXCEPT ![t] = row]
    <3>. DEFINE L == s.locked \cup {t}
                R == [s.rows EXCEPT ![t] = row]
    <3>1. L \in SUBSET Txn /\ R \in Rows /\ "commit" \in Storing /\ s.position \in Nat
      BY <1>1, <1>2, <1>4 DEF Storing, t
    <3>2. new = [s EXCEPT !.pc = "commit", !.position = s.position, !.locked = L, !.rows = R]
      BY <2>1
    <3>. HIDE DEF new, L, R
    <3>3. /\ new \in HandlerState
          /\ new.pc = "commit" /\ new.request = s.request /\ new.ack = s.ack
          /\ new.position = s.position /\ new.locked = L /\ new.rows = R
      BY <3>1, <3>2 DEF HandlerState, Sharing
    <3>. QED
      BY <3>3 DEF L, R
  <2>. HIDE DEF new
  <2>3. Done(new) = Done(s) \cup {s.position}
    BY <1>1, <1>3, <1>5, <2>2, SMTT(30) DEF Done
  <2>. QED
    BY <2>2, <2>3 DEF new, t
<1>6. CASE s.position # n
  <2>1. new = [s EXCEPT !.pc = "find_transaction", !.position = s.position + 1,
                        !.locked = s.locked \cup {t}, !.rows = [s.rows EXCEPT ![t] = row]]
    BY <1>2, <1>6 DEF Wrote, n
  <2>2. /\ new \in HandlerState /\ new.pc = "find_transaction"
        /\ new.request = s.request /\ new.ack = s.ack /\ new.position = s.position + 1
        /\ new.locked = s.locked \cup {t} /\ new.rows = [s.rows EXCEPT ![t] = row]
    <3>. DEFINE L == s.locked \cup {t}
                R == [s.rows EXCEPT ![t] = row]
    <3>1. L \in SUBSET Txn /\ R \in Rows /\ "find_transaction" \in Storing /\ s.position + 1 \in Nat
      BY <1>1, <1>2, <1>4, SMTT(30) DEF Storing, t
    <3>2. new = [s EXCEPT !.pc = "find_transaction", !.position = s.position + 1, !.locked = L, !.rows = R]
      BY <2>1
    <3>. HIDE DEF new, L, R
    <3>3. /\ new \in HandlerState
          /\ new.pc = "find_transaction" /\ new.request = s.request /\ new.ack = s.ack
          /\ new.position = s.position + 1 /\ new.locked = L /\ new.rows = R
      BY <3>1, <3>2 DEF HandlerState, Sharing
    <3>. QED
      BY <3>3 DEF L, R
  <2>. HIDE DEF new
  <2>3. Done(new) = Done(s) \cup {s.position}
    BY <1>1, <1>3, <1>6, <2>2, SMTT(30) DEF Done
  <2>4. s.position + 1 \in DOMAIN s.request.entries
    BY <1>1, <1>3, <1>6, SMTT(30)
  <2>. QED
    BY <2>2, <2>3, <2>4 DEF new, t
<1>. QED
  BY <1>5, <1>6

-----------------------------------------------------------------------------
(* The commit *)

(* The rows of two handlers that are storing do not share a key, whether they
   are new or replace committed ones. *)
LEMMA KeysApart ==
    ASSUME NEW s \in HandlerState, NEW q \in HandlerState, NEW T \in Rows,
           s.ack \in Acknowledgements(s.request), q.ack \in Acknowledgements(q.request),
           WritesHold(s, T), WritesHold(q, T), s.pc \in Storing, q.pc \in Storing,
           Separate(s, q, T),
           NEW t \in s.locked, NEW u \in q.locked
    PROVE  ~SameKey(s.rows[t], q.rows[u])
<1>1. t \notin q.locked /\ u \notin s.locked /\ t # u /\ t \in Txn /\ u \in Txn
  BY DEF Separate, HandlerState
<1>2. /\ s.rows[t] # NULL /\ (T[t] # NULL => SameKey(T[t], s.rows[t]))
      /\ ViewOf(s, T)[t] = s.rows[t]
      /\ q.rows[u] # NULL /\ (T[u] # NULL => SameKey(T[u], q.rows[u]))
      /\ ViewOf(q, T)[u] = q.rows[u]
  BY LockedFacts
<1>3. ViewOf(s, T)[u] = T[u] /\ ViewOf(q, T)[t] = T[t]
  BY <1>1 DEF ViewOf
<1>4. UniqueSequences(ViewOf(s, T)) /\ UniqueSequences(ViewOf(q, T))
  BY DEF WritesHold
<1>5. CASE T[t] = NULL /\ T[u] = NULL
  BY <1>5 DEF Separate
<1>6. CASE T[t] # NULL
  BY <1>1, <1>2, <1>3, <1>4, <1>6 DEF UniqueSequences, SameKey
<1>7. CASE T[u] # NULL
  BY <1>1, <1>2, <1>3, <1>4, <1>7 DEF UniqueSequences, SameKey
<1>. QED
  BY <1>5, <1>6, <1>7

-----------------------------------------------------------------------------
(* The invariant *)

LEMMA IngestInvariant == Spec => []IngestInv
<1>NextKept. ASSUME IngestInv, [Next]_vars
             PROVE  IngestInv'
  <2>. USE <1>NextKept
  <2>ArriveKept. ASSUME IngestInv, NEW h \in Handler, Arrive(h)
                 PROVE  IngestInv'
    <3>. USE <2>ArriveKept
    <3>1. PICK p \in Request :
            \/ \E headers \in Headers :
                 \/ Refuse(h, p, headers)
                 \/ ClockUnavailable(h, p, headers)
                 \/ \E receivedAt \in Time : Process(h, p, headers, receivedAt)
            \/ \E receivedAt \in Time, result \in [DOMAIN p.entries -> Result] :
                 Store(h, p, receivedAt, result)
      BY DEF Arrive
    <3>2. ASSUME NEW headers \in Headers,
                 Refuse(h, p, headers) \/ ClockUnavailable(h, p, headers)
          PROVE  IngestInv'
      BY <3>2, RespondKept DEF Refuse, ClockUnavailable
    <3>3. ASSUME NEW headers \in Headers, NEW receivedAt \in Time,
                 Process(h, p, headers, receivedAt)
          PROVE  IngestInv'
      <4>1. ValidRequest(p)
        <5>1. DecodingRefusal(headers, p) = NULL
          BY <3>3 DEF Process, Refusal
        <5>2. CASE EncodedBytes(p) > MaxRequestBytes
          BY <5>1, <5>2, CategoryAssumption DEF DecodingRefusal, SynchronizationFailureCategory
        <5>3. CASE ~(EncodedBytes(p) > MaxRequestBytes)
          BY <5>1, <5>3, CategoryAssumption DEF DecodingRefusal, SynchronizationFailureCategory
        <5>. QED
          BY <5>2, <5>3
      <4>2. BuildAcknowledgement(p, receivedAt) \in Acknowledgements(p)
        BY SMTT(30) DEF BuildAcknowledgement, Acknowledgements
      <4>. QED
        BY <3>3, <4>1, <4>2, BegunKept DEF Process
    <3>4. ASSUME NEW receivedAt \in Time, NEW result \in [DOMAIN p.entries -> Result],
                 Store(h, p, receivedAt, result)
          PROVE  IngestInv'
      <4>1. AcknowledgementWith(p, receivedAt, result) \in Acknowledgements(p)
        <5>1. result \in [DOMAIN p.entries -> Result \cup {Accepted}]
          OBVIOUS
        <5>. QED
          BY <5>1, SMTT(30) DEF Acknowledgements
      <4>. QED
        BY <3>4, <4>1, BegunKept DEF Store
    <3>. QED
      BY <3>1, <3>2, <3>3, <3>4
  <2>ValidateReaderKept. ASSUME IngestInv, NEW h \in Handler, ValidateReader(h)
                         PROVE  IngestInv'
    <3>. USE <2>ValidateReaderKept
    <3>. DEFINE s == handler[h]
                state == [s EXCEPT !.pc = "find_existing_batch"]
    <3>1. s # NULL /\ s.pc = "validate_reader"
      BY DEF ValidateReader, pc
    <3>2. CASE \E category : Finish(h, category)
      BY <3>2, RespondKept DEF Finish
    <3>3. CASE Operational(s.request.reader, equipment) /\ Continue(h, state)
      <4>1. s \in HandlerState /\ ChecksHold(s, batches, equipment) /\ WritesHold(s, transactions)
        BY <3>1, InvHandler
      <4>2. /\ state \in HandlerState /\ state.pc = "find_existing_batch"
            /\ state.request = s.request /\ state.ack = s.ack /\ state.position = s.position
            /\ state.found = s.found /\ state.locked = s.locked /\ state.rows = s.rows
        BY <4>1, MovedFacts DEF Sharing
      <4>3. s.pc \notin Storing /\ state.pc \notin Storing
        BY <3>1, <4>2 DEF Storing
      <4>. HIDE DEF state, s
      <4>4. ChecksHold(state, batches, equipment)
        BY <3>3, <4>1, <4>2, <4>3 DEF ChecksHold
      <4>5. WritesHold(state, transactions)
        BY <3>1, <4>1, <4>2, <4>3 DEF WritesHold, Done, Selected, ViewOf, IsWritten, Storing
      <4>6. \A g \in Handler \ {h} : Separate(state, handler[g], transactions)
        BY <4>3 DEF Separate
      <4>. QED
        BY <3>3, <4>2, <4>4, <4>5, <4>6, HandlerChangeKept DEF Continue
    <3>. QED
      BY <3>2, <3>3 DEF ValidateReader, Own, Operational
  <2>FindExistingBatchKept. ASSUME IngestInv, NEW h \in Handler, FindExistingBatch(h)
                            PROVE  IngestInv'
    <3>. USE <2>FindExistingBatchKept
    <3>. DEFINE s == handler[h]
    <3>1. s # NULL /\ s.pc = "find_existing_batch"
      BY DEF FindExistingBatch, pc
    <3>2. CASE \E category : Finish(h, category)
      BY <3>2, RespondKept DEF Finish
    <3>3. ASSUME NEW x, Continue(h, [s EXCEPT !.pc = x]),
                 \/ x = "insert_batch"
                 \/ /\ x = "load_acknowledgement"
                    /\ batches[s.request.batch] # NULL
                    /\ BatchMatches(batches[s.request.batch], s.request)
          PROVE  IngestInv'
      <4>. DEFINE state == [s EXCEPT !.pc = x]
      <4>1. s \in HandlerState /\ ChecksHold(s, batches, equipment) /\ WritesHold(s, transactions)
        BY <3>1, InvHandler
      <4>2. /\ state \in HandlerState /\ state.pc = x
            /\ state.request = s.request /\ state.ack = s.ack /\ state.position = s.position
            /\ state.found = s.found /\ state.locked = s.locked /\ state.rows = s.rows
        BY <3>3, <4>1, MovedFacts, SMTT(30) DEF Sharing
      <4>3. s.pc \notin Storing /\ s.pc \in Sharing /\ state.pc \notin Storing
        BY <3>1, <3>3, <4>2 DEF Storing, Sharing
      <4>4. handler' = [handler EXCEPT ![h] = state] /\ UNCHANGED <<tables, equipment>>
        BY <3>3 DEF Continue
      <4>. HIDE DEF state, s
      <4>5. ChecksHold(state, batches, equipment)
        BY <3>3, <4>1, <4>2, <4>3 DEF ChecksHold, BatchMatches
      <4>6. WritesHold(state, transactions)
        BY <3>1, <3>3, <4>1, <4>2, <4>3 DEF WritesHold, Done, Selected, ViewOf, IsWritten, Storing
      <4>7. \A g \in Handler \ {h} : Separate(state, handler[g], transactions)
        BY <4>3 DEF Separate
      <4>. QED
        BY <4>2, <4>4, <4>5, <4>6, <4>7, HandlerChangeKept
    <3>. QED
      BY <3>2, <3>3 DEF FindExistingBatch, Own
  (* The handler takes the key of its batch: no one else has it. *)
  <2>InsertBatchKept. ASSUME IngestInv, NEW h \in Handler, InsertBatch(h)
                      PROVE  IngestInv'
    <3>. USE <2>InsertBatchKept
    <3>. DEFINE s == handler[h]
                state == [s EXCEPT !.pc = "find_transaction"]
    <3>1. s # NULL /\ s.pc = "insert_batch" /\ ~Waiting(h)
      BY DEF InsertBatch, pc
    <3>2. CASE \E category : Finish(h, category)
      BY <3>2, RespondKept DEF Finish
    <3>3. CASE batches[s.request.batch] = NULL /\ Continue(h, state)
      <4>1. s \in HandlerState /\ ChecksHold(s, batches, equipment) /\ WritesHold(s, transactions)
        BY <3>1, InvHandler
      <4>2. /\ state \in HandlerState /\ state.pc = "find_transaction"
            /\ state.request = s.request /\ state.ack = s.ack /\ state.position = s.position
            /\ state.found = s.found /\ state.locked = s.locked /\ state.rows = s.rows
        BY <4>1, MovedFacts DEF Sharing, Storing
      <4>3. s.pc \notin Storing /\ s.pc \in Sharing
        BY <3>1 DEF Storing, Sharing
      <4>4. handler' = [handler EXCEPT ![h] = state] /\ UNCHANGED <<tables, equipment>>
        BY <3>3 DEF Continue
      <4>5. \A g \in Handler \ {h} : handler[g] # NULL /\ handler[g].pc \in Storing =>
              handler[g].request.batch # s.request.batch
        BY <3>1 DEF Waiting, WaitsFor, WaitsForBatch, OwnsBatchKey, pc, Own
      <4>. HIDE DEF state, s
      <4>6. ChecksHold(state, batches, equipment)
        BY <3>3, <4>1, <4>2, <4>3 DEF ChecksHold
      <4>7. WritesHold(state, transactions)
        BY <3>1, <4>1, <4>2, <4>3 DEF WritesHold, Done, Selected, ViewOf, IsWritten
      <4>8. s.locked = {}
        BY <4>1, <4>3 DEF WritesHold
      <4>9. \A g \in Handler \ {h} : handler[g] # NULL => Separate(state, handler[g], transactions)
        BY <4>2, <4>5, <4>8 DEF Separate
      <4>. QED
        BY <4>2, <4>4, <4>6, <4>7, <4>9, HandlerChangeKept
    <3>. QED
      BY <3>2, <3>3 DEF InsertBatch, Own
  (* The steps that only end a handler. *)
  <2>EndKept. ASSUME IngestInv, NEW h \in Handler,
                     LoadAcknowledgement(h) \/ DatabaseFailure(h) \/ Abandon(h)
              PROVE  IngestInv'
    <3>. USE <2>EndKept
    <3>1. CASE LoadAcknowledgement(h)
      BY <3>1, RespondKept DEF LoadAcknowledgement, Finish
    <3>2. CASE DatabaseFailure(h)
      BY <3>2, RespondKept DEF DatabaseFailure, Finish
    <3>3. CASE Abandon(h)
      BY <3>3, HandlerChangeKept DEF Abandon, Continue
    <3>. QED
      BY <3>1, <3>2, <3>3
  <2>FindTransactionKept. ASSUME IngestInv, NEW h \in Handler, FindTransaction(h)
                          PROVE  IngestInv'
    <3>. USE <2>FindTransactionKept
    <3>. DEFINE s == handler[h]
                entry == Prepare(s, s.position)
                t == entry.txn
                view == ViewOf(s, transactions)
                found == SameIdentity(view, s.request, entry)
                state == [s EXCEPT !.pc = "write_transaction", !.found = found # {},
                                   !.locked = @ \cup found,
                                   !.rows = [u \in Txn |-> IF u \in found THEN view[u] ELSE @[u]]]
    <3>1. s # NULL /\ s.pc = "find_transaction" /\ ~Waiting(h)
      BY DEF FindTransaction, pc
    <3>2. View(h) = view /\ Entry(h) = entry /\ Own(h) = s.request
      BY DEF View, ViewOf, Entry, Own, Prepare
    <3>3. CASE \E category : Finish(h, category)
      BY <3>3, RespondKept DEF Finish
    <3>4. CASE /\ \A u \in found : TransactionIdentityMatches(view, u, s.request, entry)
               /\ Continue(h, state)
      <4>1. /\ s \in HandlerState
            /\ ChecksHold(s, batches, equipment)
            /\ WritesHold(s, transactions)
            /\ \A g \in Handler \ {h} : handler[g] # NULL =>
                 Separate(s, handler[g], transactions)
        BY <3>1, InvHandler
      <4>2. /\ s.request \in Request /\ s.ack \in Acknowledgements(s.request)
            /\ ValidRequest(s.request) /\ s.position \in DOMAIN s.request.entries
            /\ transactions \in Rows /\ s.rows \in Rows /\ s.locked \subseteq Txn
            /\ s.pc \in Storing
        BY <3>1, <4>1 DEF HandlerState, ChecksHold, WritesHold, IngestInv, IngestType, Storing
      <4>3. t = s.request.entries[s.position].txn /\ t \in Txn
        BY <4>2, PreparedFacts DEF Prepare
      <4>4. t \notin s.locked
        BY <3>1, <4>1, <4>2, <4>3, CurrentIsNew DEF Selected
      <4>5. view \in Rows /\ view[t] = transactions[t]
        BY <4>2, <4>3, <4>4 DEF ViewOf, Rows
      <4>6. found \subseteq {t} /\ (t \in found => view[t] # NULL)
        BY <3>4 DEF SameIdentity, TransactionIdentityMatches
      <4>7. /\ state \in HandlerState
            /\ state.pc = "write_transaction" /\ state.found = (found # {})
            /\ state.request = s.request /\ state.ack = s.ack /\ state.position = s.position
            /\ state.locked = s.locked \cup found
            /\ state.rows = [u \in Txn |-> IF u \in found THEN view[u] ELSE s.rows[u]]
        <5>1. found \subseteq Txn
          BY <4>3, <4>6
        <5>2. [u \in Txn |-> IF u \in found THEN view[u] ELSE s.rows[u]] \in Rows
          BY <4>2, <4>5 DEF Rows
        <5>. HIDE DEF s, view, found, entry
        <5>. QED
          BY <4>1, <4>2, <5>1, <5>2 DEF HandlerState, Sharing, Storing
      <4>8. handler' = [handler EXCEPT ![h] = state] /\ UNCHANGED <<tables, equipment>>
        BY <3>4 DEF Continue
      <4>9. t \in found => \A g \in Handler \ {h} : handler[g] # NULL /\ handler[g].pc \in Storing =>
                             t \notin handler[g].locked
        <5>1. t \in found => t \in SameIdentity(transactions, s.request, entry)
          BY <4>3, <4>5, <4>6 DEF SameIdentity
        <5>2. \A g \in Handler \ {h} : handler[g] # NULL /\ handler[g].pc \in Storing =>
                SameIdentity(transactions, s.request, entry) \cap handler[g].locked = {}
          BY <3>1, <3>2 DEF Waiting, WaitsFor, WaitsForRow, pc
        <5>. QED
          BY <5>1, <5>2
      <4>10. t \in found => TransactionIdentityMatches(transactions, t, s.request, entry)
        BY <3>4, <4>5 DEF TransactionIdentityMatches
      <4>. HIDE DEF s, view, found, entry, state, t
      <4>11. ChecksHold(state, batches, equipment)
        BY <4>1, <4>2, <4>7 DEF ChecksHold, Storing, Sharing
      <4>12. WritesHold(state, transactions)
        <5>1. Done(state) = Done(s)
          BY <3>1, <4>7 DEF Done
        <5>2. Prepare(state, state.position) = entry /\ \A i : Prepare(state, i) = Prepare(s, i)
          BY <4>7 DEF Prepare, entry
        <5>3. ViewOf(state, transactions) = view
          BY <4>2, <4>3, <4>4, <4>5, <4>6, <4>7 DEF ViewOf, view
        <5>4. \A i \in Done(s) : IsWritten(state, i, transactions)
          <6>1. \A i \in Done(s) : IsWritten(s, i, transactions)
            BY <4>1 DEF WritesHold
          <6>2. ASSUME NEW i \in Done(s)
                PROVE  /\ Prepare(s, i).txn \in state.locked
                       /\ state.rows[Prepare(s, i).txn] = s.rows[Prepare(s, i).txn]
            <7>1. Prepare(s, i).txn \in s.locked
              BY <6>1 DEF IsWritten
            <7>2. Prepare(s, i).txn \in Txn /\ Prepare(s, i).txn \notin found
              BY <4>2, <4>4, <4>6, <7>1
            <7>. QED
              BY <4>7, <7>1, <7>2
          <6>. QED
            BY <4>7, <5>2, <6>1, <6>2, WrittenKept
        <5>5. Selected(state) <=> found = {t}
          <6>1. state.pc = "write_transaction" /\ state.found = (found # {})
            BY <4>7
          <6>2. Selected(state) <=> found # {}
            BY <6>1 DEF Selected
          <6>. QED
            BY <4>6, <6>2
        <5>6. Selected(state) => IsSelected(state, transactions)
          BY <4>3, <4>5, <4>6, <4>7, <4>10, <5>2, <5>5 DEF IsSelected, t
        <5>7. UniqueSequences(view)
          BY <4>1 DEF WritesHold, view
        <5>8. \A u \in state.locked :
                \/ \E i \in Done(state) : u = state.request.entries[i].txn
                \/ Selected(state) /\ u = state.request.entries[state.position].txn
          <6>1. \A u \in s.locked : \E i \in Done(s) : u = s.request.entries[i].txn
            BY <3>1, <4>1 DEF WritesHold, Selected
          <6>2. \A u \in found : Selected(state) /\ u = s.request.entries[s.position].txn
            BY <4>3, <4>6, <5>5
          <6>. QED
            BY <4>7, <5>1, <6>1, <6>2, SMTT(30)
        <5>. QED
          BY <4>2, <4>7, <5>1, <5>3, <5>4, <5>6, <5>7, <5>8 DEF WritesHold, Storing
      <4>13. ASSUME NEW g \in Handler \ {h}, handler[g] # NULL
             PROVE  Separate(state, handler[g], transactions)
        <5>1. Separate(s, handler[g], transactions)
          BY <4>1, <4>13
        <5>2. \A u \in found : transactions[u] # NULL
          BY <4>5, <4>6
        <5>3. \A u \in s.locked : state.rows[u] = s.rows[u]
          BY <4>2, <4>4, <4>6, <4>7
        <5>. QED
          BY <4>2, <4>6, <4>7, <4>9, <4>13, <5>1, <5>2, <5>3, SMTT(30) DEF Separate
      <4>. QED
        BY <4>7, <4>8, <4>11, <4>12, <4>13, HandlerChangeKept
    <3>. QED
      BY <3>2, <3>3, <3>4 DEF FindTransaction
  (* Either the row was selected FOR UPDATE and keeps its key, or it is new and
     its keys are neither in the table nor taken by another handler. *)
  <2>WriteTransactionKept. ASSUME IngestInv, NEW h \in Handler, WriteTransaction(h)
                           PROVE  IngestInv'
    <3>. USE <2>WriteTransactionKept
    (* Writing the row that is called for, under keys that no other visible row
       has, keeps the handler consistent with the table. *)
    <3>WroteHolds. ASSUME NEW s \in HandlerState, NEW T \in Rows, NEW row \in TransactionRow,
                          ValidRequest(s.request), s.ack \in Acknowledgements(s.request),
                          s.pc = "write_transaction", WritesHold(s, T), CalledFor(s, row, T),
                          \A u \in Txn : ViewOf(s, T)[u] # NULL /\ SameKey(ViewOf(s, T)[u], row)
                                           => u = s.request.entries[s.position].txn
                   PROVE  WritesHold(Wrote(s, row), T)
      <4>. USE <3>WroteHolds
      <4>. DEFINE t == s.request.entries[s.position].txn
                  new == Wrote(s, row)
      <4>1. s.position \in DOMAIN s.request.entries
        BY DEF WritesHold
      <4>2. /\ new \in HandlerState
            /\ new.pc \in {"commit", "find_transaction"}
            /\ new.request = s.request /\ new.ack = s.ack
            /\ new.position \in DOMAIN s.request.entries
            /\ new.locked = s.locked \cup {t}
            /\ new.rows = [s.rows EXCEPT ![t] = row]
            /\ Done(new) = Done(s) \cup {s.position}
        BY <4>1, WroteFacts
      <4>3. /\ s.request \in Request /\ s.rows \in Rows /\ s.locked \subseteq Txn
            /\ s.position \in Nat
        BY DEF HandlerState
      <4>4. t \in Txn /\ Prepare(s, s.position).txn = t
        BY <4>1, <4>3, PreparedFacts DEF Prepare
      <4>5. \A i \in Done(s) : /\ i \in DOMAIN s.request.entries
                               /\ s.request.entries[i].txn # t
        <5>1. \A i, j \in DOMAIN s.request.entries :
                s.request.entries[i].txn = s.request.entries[j].txn => i = j
          BY DEF ValidRequest, ValidEntries, IsInjective
        <5>. QED
          BY <4>1, <4>3, <5>1, SMTT(30) DEF Done
      <4>6. \A i : Prepare(new, i) = Prepare(s, i)
        BY <4>2 DEF Prepare
      <4>. HIDE DEF t, new
      <4>7. \A i \in Done(s) : IsWritten(new, i, T)
        <5>. SUFFICES ASSUME NEW i \in Done(s)
                      PROVE  IsWritten(new, i, T)
          OBVIOUS
        <5>1. IsWritten(s, i, T)
          BY DEF WritesHold
        <5>2. Prepare(s, i).txn # t /\ Prepare(s, i).txn \in Txn
          BY <4>3, <4>5, PreparedFacts DEF Prepare
        <5>3. new.rows[Prepare(s, i).txn] = s.rows[Prepare(s, i).txn]
          BY <4>2, <4>3, <5>2 DEF Rows
        <5>4. Prepare(s, i).txn \in new.locked
          BY <4>2, <5>1 DEF IsWritten
        <5>5. new.request = s.request /\ Prepare(new, i) = Prepare(s, i)
          BY <4>2, <4>6
        <5>. QED
          BY <5>1, <5>3, <5>4, <5>5, WrittenKept
      <4>8. IsWritten(new, s.position, T)
        <5>1. new.rows[t] = row /\ t \in new.locked
          BY <4>2, <4>3, <4>4 DEF Rows
        <5>2. new.request = s.request /\ Prepare(new, s.position) = Prepare(s, s.position)
          BY <4>2, <4>6
        <5>. HIDE DEF Prepare
        <5>. QED
          BY <4>4, <5>1, <5>2 DEF IsWritten, CalledFor
      <4>9. \A u \in new.locked : \E i \in Done(new) : u = new.request.entries[i].txn
        <5>1. \A u \in s.locked : u = t \/ \E i \in Done(s) : u = s.request.entries[i].txn
          BY DEF WritesHold, t
        <5>2. t = s.request.entries[s.position].txn
          BY DEF t
        <5>3. new.locked = s.locked \cup {t} /\ Done(new) = Done(s) \cup {s.position}
          BY <4>2
        <5>4. ASSUME NEW u \in new.locked
              PROVE  \E i \in Done(new) : u = s.request.entries[i].txn
          <6>1. CASE u = t
            BY <5>2, <5>3, <6>1
          <6>2. CASE u # t
            BY <5>1, <5>3, <6>2
          <6>. QED
            BY <6>1, <6>2
        <5>5. new.request = s.request
          BY <4>2
        <5>. QED
          BY <5>4, <5>5
      <4>10. UniqueSequences(ViewOf(new, T))
        <5>1. /\ ViewOf(s, T) \in Rows
              /\ ViewOf(new, T) = [ViewOf(s, T) EXCEPT ![t] = row]
          BY <4>2, <4>3, <4>4 DEF ViewOf, Rows
        <5>2. UniqueSequences(ViewOf(s, T))
          BY DEF WritesHold
        <5>3. \A u \in Txn : ViewOf(s, T)[u] # NULL /\ SameKey(ViewOf(s, T)[u], row) => u = t
          BY DEF t
        <5>4. \A u \in Txn : ViewOf(new, T)[u] = IF u = t THEN row ELSE ViewOf(s, T)[u]
          BY <5>1 DEF Rows
        <5>. QED
          BY <4>4, <5>2, <5>3, <5>4, UniqueSequencesKept
      <4>11. ~Selected(new) /\ new.pc \in Storing
        BY <4>2 DEF Selected, Storing
      <4>. QED
        BY <4>2, <4>7, <4>8, <4>9, <4>10, <4>11 DEF WritesHold, new
    <3>. DEFINE s == handler[h]
                entry == Prepare(s, s.position)
                t == entry.txn
                view == ViewOf(s, transactions)
                row == IF s.found THEN ResolvedTransaction(s.rows[t], entry)
                                  ELSE NewTransaction(s.request, entry)
                state == Wrote(s, row)
    <3>1. s # NULL /\ s.pc = "write_transaction" /\ ~Waiting(h)
      BY DEF WriteTransaction, pc
    <3>2. View(h) = view /\ Entry(h) = entry /\ Own(h) = s.request
      BY DEF View, ViewOf, Entry, Own, Prepare
    <3>3. CASE \E category : Finish(h, category)
      BY <3>3, RespondKept DEF Finish
    <3>4. CASE /\ ~s.found => SameIdentity(view, s.request, entry) = {}
               /\ Continue(h, state)
      <4>1. /\ s \in HandlerState
            /\ ChecksHold(s, batches, equipment)
            /\ WritesHold(s, transactions)
            /\ \A g \in Handler \ {h} : handler[g] # NULL =>
                 Separate(s, handler[g], transactions)
        BY <3>1, InvHandler
      <4>2. /\ s.request \in Request /\ s.ack \in Acknowledgements(s.request)
            /\ ValidRequest(s.request) /\ s.position \in DOMAIN s.request.entries
            /\ transactions \in Rows /\ s.rows \in Rows /\ s.locked \subseteq Txn
            /\ s.pc \in Storing /\ s.position \in Nat
        BY <3>1, <4>1 DEF HandlerState, ChecksHold, WritesHold, IngestInv, IngestType, Storing
      <4>3. /\ t = s.request.entries[s.position].txn /\ t \in Txn
            /\ NewTransaction(s.request, entry) \in TransactionRow
            /\ NewTransaction(s.request, entry).reader = s.request.reader
            /\ NewTransaction(s.request, entry).sequence = entry.sequence
        BY <4>2, PreparedFacts DEF Prepare
      <4>4. handler' = [handler EXCEPT ![h] = state] /\ UNCHANGED <<tables, equipment>>
        BY <3>4 DEF Continue
      <4>5. /\ row \in TransactionRow
            /\ CalledFor(s, row, transactions)
            /\ \A u \in Txn : view[u] # NULL /\ SameKey(view[u], row) => u = t
            /\ \A g \in Handler \ {h} : handler[g] # NULL /\ handler[g].pc \in Storing =>
                 /\ t \notin handler[g].locked
                 /\ transactions[t] = NULL => \A u \in handler[g].locked :
                      transactions[u] = NULL => ~SameKey(row, handler[g].rows[u])
        <5>1. CASE s.found
          <6>1. /\ t \in s.locked /\ transactions[t] # NULL /\ s.rows[t] = transactions[t]
                /\ TransactionIdentityMatches(transactions, t, s.request, entry)
            BY <3>1, <4>1, <5>1 DEF WritesHold, Selected, IsSelected
          <6>2. transactions[t] \in TransactionRow
            BY <4>2, <4>3, <6>1 DEF Rows
          <6>3. row = ResolvedTransaction(transactions[t], entry)
            BY <5>1, <6>1
          <6>4. row \in TransactionRow /\ SameKey(row, transactions[t])
            <7>. DEFINE old == transactions[t]
                        p == s.request
                        ack == s.ack
                        i == s.position
            <7>1. row = ResolvedTransaction(old, PreparedEntry(p, ack, i)) /\ old \in TransactionRow
              BY <6>2, <6>3 DEF Prepare
            <7>2. p \in Request /\ ack \in Acknowledgements(p) /\ i \in DOMAIN p.entries
              BY <4>2
            <7>. HIDE DEF old, row, p, ack, i
            <7>3. row \in TransactionRow /\ SameKey(row, old)
              BY <7>1, <7>2, ResolvedFacts DEF SameKey
            <7>. QED
              BY <7>3 DEF old
          <6>5. view[t] = transactions[t] /\ UniqueSequences(view)
            BY <4>1, <4>3, <6>1 DEF ViewOf, WritesHold
          <6>6. \A u \in Txn : view[u] # NULL /\ SameKey(view[u], row) => u = t
            BY <4>3, <6>1, <6>4, <6>5 DEF UniqueSequences, SameKey
          <6>7. CalledFor(s, row, transactions)
            BY <6>1, <6>3 DEF CalledFor
          <6>8. \A g \in Handler \ {h} : handler[g] # NULL /\ handler[g].pc \in Storing =>
                  t \notin handler[g].locked
            BY <4>1, <4>2, <6>1 DEF Separate
          <6>. QED
            BY <6>1, <6>4, <6>6, <6>7, <6>8
        <5>2. CASE ~s.found
          <6>1. row = NewTransaction(s.request, entry) /\ SameIdentity(view, s.request, entry) = {}
            BY <3>4, <5>2
          <6>2. t \notin s.locked
            BY <3>1, <4>1, <4>2, <4>3, <5>2, CurrentIsNew DEF Selected
          <6>3. view[t] = transactions[t]
            BY <4>3, <6>2 DEF ViewOf
          <6>. HIDE DEF view, entry, s, row
          <6>4. transactions[t] = NULL
            BY <4>3, <6>1, <6>3 DEF SameIdentity
          <6>5. \A u \in Txn : view[u] # NULL => ~SameKey(view[u], row)
            BY <4>3, <6>1 DEF SameIdentity, SameKey
          <6>6. CalledFor(s, row, transactions)
            BY <6>1, <6>4 DEF CalledFor, entry
          <6>7. ASSUME NEW g \in Handler \ {h}, handler[g] # NULL, handler[g].pc \in Storing
                PROVE  /\ t \notin handler[g].locked
                       /\ \A u \in handler[g].locked :
                            transactions[u] = NULL => ~SameKey(row, handler[g].rows[u])
            <7>1. SameIdentity(handler[g].rows, s.request, entry)
                    \cap {u \in handler[g].locked : transactions[u] = NULL} = {}
              BY <3>1, <3>2, <5>2, <6>7
                 DEF Waiting, WaitsFor, WaitsForInsert, OwnsIdentity, Inserted, pc, s
            <7>2. \A u \in handler[g].locked : handler[g].rows[u] # NULL /\ u \in Txn
              <8>1. /\ handler[g] \in HandlerState /\ WritesHold(handler[g], transactions)
                    /\ handler[g].ack \in Acknowledgements(handler[g].request)
                BY <6>7, InvHandler DEF ChecksHold
              <8>. QED
                BY <4>2, <8>1, LockedFacts DEF HandlerState
            <7>. QED
              BY <4>3, <6>1, <6>4, <7>1, <7>2 DEF SameIdentity, SameKey
          <6>. QED
            BY <4>3, <6>1, <6>5, <6>6, <6>7
        <5>. QED
          BY <5>1, <5>2
      <4>. HIDE DEF s, view, entry, row, t
      <4>6. /\ state \in HandlerState
            /\ state.pc \in {"commit", "find_transaction"}
            /\ state.request = s.request /\ state.ack = s.ack
            /\ state.locked = s.locked \cup {t}
            /\ state.rows = [s.rows EXCEPT ![t] = row]
        BY <3>1, <4>1, <4>2, <4>3, <4>5, WroteFacts
      <4>7. WritesHold(state, transactions)
        BY <3>1, <4>1, <4>2, <4>3, <4>5, <3>WroteHolds DEF view
      <4>. HIDE DEF state
      <4>8. ChecksHold(state, batches, equipment)
        BY <4>1, <4>2, <4>6 DEF ChecksHold, Storing, Sharing
      <4>9. ASSUME NEW g \in Handler \ {h}, handler[g] # NULL
            PROVE  Separate(state, handler[g], transactions)
        <5>1. Separate(s, handler[g], transactions)
          BY <4>1, <4>9
        <5>2. state.rows[t] = row /\ \A u \in s.locked \ {t} : state.rows[u] = s.rows[u]
          BY <4>2, <4>3, <4>6 DEF Rows
        <5>. QED
          BY <4>2, <4>5, <4>6, <4>9, <5>1, <5>2 DEF Separate
      <4>. QED
        BY <4>4, <4>6, <4>7, <4>8, <4>9, HandlerChangeKept
    <3>5. \/ \E category : Finish(h, category)
          \/ /\ ~s.found => SameIdentity(view, s.request, entry) = {}
             /\ Continue(h, state)
      <4>. HIDE DEF view, entry
      <4>1. Prepare(s, s.position) = entry
        BY DEF entry
      <4>. QED
        BY <3>2, <4>1 DEF WriteTransaction, Wrote
    <3>. QED
      BY <3>3, <3>4, <3>5
  <2>PublishKept. ASSUME IngestInv, NEW h \in Handler, pc(h) = "commit", Publish(h),
                         handler' = [handler EXCEPT ![h] = NULL]
                  PROVE  IngestInv'
    <3>. USE <2>PublishKept
    (* A handler that is storing is not disturbed by the commit of another one. *)
    <3>CommitOfOther. ASSUME NEW s \in HandlerState, NEW q \in HandlerState, NEW T \in Rows,
                             s.ack \in Acknowledgements(s.request), q.ack \in Acknowledgements(q.request),
                             WritesHold(s, T), WritesHold(q, T), s.pc \in Storing, q.pc \in Storing,
                             Separate(s, q, T)
                      PROVE  WritesHold(q, ViewOf(s, T))
      <4>. USE <3>CommitOfOther
      <4>. DEFINE N == ViewOf(s, T)
      <4>1. \A u \in q.locked : u \in Txn /\ N[u] = T[u]
        BY DEF Separate, ViewOf, HandlerState
      <4>2. \A u \in Txn : /\ u \in s.locked => N[u] = s.rows[u]
                           /\ u \notin s.locked => N[u] = T[u]
        BY DEF ViewOf
      <4>3. UniqueSequences(N) /\ UniqueSequences(ViewOf(q, T))
        BY DEF WritesHold
      <4>. HIDE DEF N
      <4>4. \A i \in Done(q) : IsWritten(q, i, N)
        BY <4>1 DEF WritesHold, IsWritten, TransactionIdentityMatches
      <4>5. Selected(q) => IsSelected(q, N)
        BY <4>1 DEF WritesHold, IsSelected, TransactionIdentityMatches
      <4>6. UniqueSequences(ViewOf(q, N))
        <5>. DEFINE V == ViewOf(q, N)
                    W == ViewOf(q, T)
        <5>1. \A v \in Txn : /\ v \in q.locked => V[v] = q.rows[v] /\ W[v] = q.rows[v]
                             /\ v \notin q.locked => V[v] = N[v] /\ W[v] = T[v]
          BY DEF ViewOf
        <5>2. \A v \in s.locked, w \in q.locked : ~SameKey(s.rows[v], q.rows[w])
          BY KeysApart
        <5>3. \A v, w \in Txn : W[v] # NULL /\ W[w] # NULL /\ SameKey(W[v], W[w]) => v = w
          BY <4>3 DEF UniqueSequences
        <5>4. \A v, w \in Txn : N[v] # NULL /\ N[w] # NULL /\ SameKey(N[v], N[w]) => v = w
          BY <4>3 DEF UniqueSequences
        <5>. HIDE DEF V, W
        <5>5. \A v, w \in Txn : SameKey(V[v], V[w]) => SameKey(V[w], V[v])
          BY DEF SameKey
        <5>6. ASSUME NEW v \in Txn, NEW w \in Txn, V[v] # NULL, V[w] # NULL, SameKey(V[v], V[w]),
                     v \notin q.locked
              PROVE  v = w
          <6>1. V[v] = N[v] /\ W[v] = T[v]
            BY <5>1, <5>6
          <6>2. CASE w \notin q.locked
            BY <5>1, <5>4, <5>6, <6>1, <6>2
          <6>3. CASE w \in q.locked
            <7>1. V[w] = q.rows[w] /\ W[w] = q.rows[w]
              BY <5>1, <6>3
            <7>2. v \notin s.locked
              BY <4>2, <5>2, <5>6, <6>1, <6>3, <7>1
            <7>3. N[v] = T[v]
              BY <4>2, <7>2
            <7>. QED
              BY <5>3, <5>6, <6>1, <7>1, <7>3
          <6>. QED
            BY <6>2, <6>3
        <5>7. ASSUME NEW v \in Txn, NEW w \in Txn, V[v] # NULL, V[w] # NULL, SameKey(V[v], V[w])
              PROVE  v = w
          <6>1. CASE v \notin q.locked
            BY <5>6, <5>7, <6>1
          <6>2. CASE w \notin q.locked
            BY <5>5, <5>6, <5>7, <6>2
          <6>3. CASE v \in q.locked /\ w \in q.locked
            BY <5>1, <5>3, <5>7, <6>3
          <6>. QED
            BY <6>1, <6>2, <6>3
        <5>. QED
          BY <5>7 DEF UniqueSequences, V
      <4>. QED
        BY <4>4, <4>5, <4>6 DEF WritesHold, N
    (* A handler that is not storing has no rows of its own. *)
    <3>CommitOfAny. ASSUME NEW q \in HandlerState, NEW T \in Rows, NEW N \in Rows,
                           WritesHold(q, T), q.pc \notin Storing, UniqueSequences(N)
                    PROVE  WritesHold(q, N)
      <4>. USE <3>CommitOfAny
      <4>1. q.position = 1 /\ q.locked = {} /\ q.pc # "commit" /\ ~Selected(q)
        BY DEF WritesHold, Storing, Selected
      <4>2. ViewOf(q, N) = N
        BY <4>1 DEF ViewOf, Rows
      <4>3. \A i \in Done(q) : FALSE
        BY <4>1 DEF WritesHold, IsWritten
      <4>. QED
        BY <4>1, <4>2, <4>3 DEF WritesHold
    <3>. DEFINE s == handler[h]
                b == s.request.batch
                N == ViewOf(s, transactions)
                row == BatchRow(s.request, s.ack)
    <3>1. s # NULL /\ s.pc = "commit" /\ s.pc \in Storing
      BY DEF pc, Storing
    <3>2. /\ s \in HandlerState
          /\ ChecksHold(s, batches, equipment)
          /\ WritesHold(s, transactions)
          /\ \A g \in Handler \ {h} : handler[g] # NULL => Separate(s, handler[g], transactions)
      BY <3>1, InvHandler
    <3>3. /\ s.request \in Request /\ s.ack \in Acknowledgements(s.request)
          /\ transactions \in Rows /\ s.rows \in Rows /\ batches[b] = NULL
          /\ b \in Batch
      BY <3>1, <3>2, RequestFacts DEF HandlerState, ChecksHold, IngestInv, IngestType
    <3>4. /\ batches' = [batches EXCEPT ![b] = row]
          /\ transactions' = N
          /\ entries' = entries \cup {EntryRow(s.request, PreparedEntry(s.request, s.ack, i)) :
                                        i \in DOMAIN s.request.entries}
          /\ equipment' = equipment
      BY DEF Publish, Own, View, ViewOf
    <3>5. N \in Rows /\ UniqueSequences(N)
      BY <3>2, <3>3 DEF ViewOf, Rows, WritesHold
    <3>6. row \in BatchRows /\ row.fingerprint = s.request /\ row.acknowledgement = s.ack
      <4>1. row.fingerprint = s.request /\ row.acknowledgement = s.ack
        BY DEF BatchRow, RequestFingerprint
      <4>2. row \in {BatchRow(s.request, ack) : ack \in Acknowledgements(s.request)}
        BY <3>3
      <4>. QED
        BY <3>3, <4>1, <4>2 DEF BatchRows
    <3>7. /\ handler'[h] = NULL
          /\ \A g \in Handler \ {h} : handler'[g] = handler[g]
          /\ handler' \in [Handler -> HandlerState \cup {NULL}]
      BY DEF IngestInv, IngestType
    <3>8. batches' \in [Batch -> BatchRows \cup {NULL}]
          /\ batches'[b] = row /\ \A c \in Batch \ {b} : batches'[c] = batches[c]
      BY <3>3, <3>4, <3>6 DEF IngestInv, IngestType
    <3>9. IngestType'
      BY <3>4, <3>5, <3>7, <3>8 DEF IngestType
    <3>. HIDE DEF row, N
    <3>10. ASSUME NEW c \in Batch, batches'[c] # NULL
           PROVE  HasEntries(batches'[c], entries')
      <4>1. CASE c = b
        BY <3>4, <3>6, <3>8, <4>1 DEF HasEntries
      <4>2. CASE c # b
        <5>1. HasEntries(batches[c], entries) /\ batches'[c] = batches[c] /\ entries \subseteq entries'
          BY <3>4, <3>8, <3>10, <4>2 DEF IngestInv
        <5>. QED
          BY <5>1 DEF HasEntries
      <4>. QED
        BY <4>1, <4>2
    <3>11. ASSUME NEW g \in Handler, handler'[g] # NULL
           PROVE  /\ ChecksHold(handler'[g], batches', equipment')
                  /\ WritesHold(handler'[g], transactions')
      <4>. DEFINE q == handler[g]
      <4>1. g # h /\ handler'[g] = q /\ q # NULL
        BY <3>7, <3>11
      <4>2. /\ q \in HandlerState
            /\ ChecksHold(q, batches, equipment)
            /\ WritesHold(q, transactions)
            /\ Separate(s, q, transactions)
        BY <3>2, <4>1, InvHandler
      <4>3. q.request.batch \in Batch /\ q.ack \in Acknowledgements(q.request)
        BY <4>2, RequestFacts DEF HandlerState, ChecksHold
      <4>. HIDE DEF q, s
      <4>4. ChecksHold(q, batches', equipment')
        <5>1. CASE q.pc \in Storing
          <6>1. q.request.batch # b /\ q.pc # "load_acknowledgement"
            BY <3>1, <4>2, <5>1 DEF Separate, Storing
          <6>. QED
            BY <3>4, <3>8, <4>2, <4>3, <6>1 DEF ChecksHold
        <5>2. CASE q.pc = "load_acknowledgement"
          <6>1. q.request.batch # b /\ q.pc \notin Storing /\ q.pc \notin Sharing
            BY <3>3, <4>2, <5>2 DEF ChecksHold, Storing, Sharing
          <6>. QED
            BY <3>4, <3>8, <4>2, <4>3, <6>1 DEF ChecksHold
        <5>3. CASE q.pc \notin Storing /\ q.pc # "load_acknowledgement"
          BY <3>4, <4>2, <5>3 DEF ChecksHold
        <5>. QED
          BY <5>1, <5>2, <5>3
      <4>5. WritesHold(q, N)
        <5>1. CASE q.pc \in Storing
          BY <3>1, <3>2, <3>3, <4>2, <4>3, <5>1, <3>CommitOfOther DEF N
        <5>2. CASE q.pc \notin Storing
          BY <3>3, <3>5, <4>2, <5>2, <3>CommitOfAny
        <5>. QED
          BY <5>1, <5>2
      <4>. QED
        BY <3>4, <4>1, <4>4, <4>5
    <3>12. ASSUME NEW f \in Handler, NEW g \in Handler, f # g, handler'[f] # NULL, handler'[g] # NULL
           PROVE  Separate(handler'[f], handler'[g], transactions')
      <4>1. /\ f # h /\ g # h /\ handler'[f] = handler[f] /\ handler'[g] = handler[g]
            /\ handler[f] # NULL /\ handler[g] # NULL
        BY <3>7, <3>12
      <4>2. /\ Separate(handler[f], handler[g], transactions)
            /\ Separate(s, handler[f], transactions)
            /\ Separate(s, handler[g], transactions)
            /\ handler[f].locked \subseteq Txn /\ handler[g].locked \subseteq Txn
        BY <3>2, <3>12, <4>1, InvHandler DEF HandlerState
      <4>3. \A t \in Txn \ s.locked : N[t] = transactions[t]
        BY DEF N, ViewOf
      <4>4. CASE handler[f].pc \in Storing /\ handler[g].pc \in Storing
        <5>1. handler[f].locked \cap s.locked = {} /\ handler[g].locked \cap s.locked = {}
          BY <3>1, <4>2, <4>4 DEF Separate
        <5>2. /\ \A t \in handler[f].locked : N[t] = transactions[t]
              /\ \A t \in handler[g].locked : N[t] = transactions[t]
          BY <4>2, <4>3, <5>1
        <5>. HIDE DEF N
        <5>3. Separate(handler[f], handler[g], N)
          BY <4>2, <5>2 DEF Separate
        <5>. QED
          BY <3>4, <4>1, <5>3
      <4>5. CASE ~(handler[f].pc \in Storing /\ handler[g].pc \in Storing)
        BY <4>1, <4>5 DEF Separate
      <4>. QED
        BY <4>4, <4>5
    <3>13. UniqueSequences(transactions')
      BY <3>4, <3>5
    <3>. QED
      BY <3>9, <3>10, <3>11, <3>12, <3>13 DEF IngestInv
  (* The shared lock keeps the readers of the handlers as they were checked. *)
  <2>RegistryStepKept. ASSUME IngestInv, RegistryStep
                       PROVE  IngestInv'
    <3>. USE <2>RegistryStepKept
    <3>1. /\ batches' = batches /\ transactions' = transactions /\ entries' = entries
          /\ handler' = handler
          /\ \A r \in Reader, h \in Handler : SharesReader(h, r) => equipment'[r] = equipment[r]
      BY DEF RegistryStep, tables
    <3>2. ASSUME NEW h \in Handler, handler[h] # NULL
          PROVE  ChecksHold(handler[h], batches, equipment')
      <4>. DEFINE s == handler[h]
      <4>1. ChecksHold(s, batches, equipment) /\ s.request.reader \in Reader
        BY <3>2, InvHandler, RequestFacts DEF HandlerState
      <4>2. s.pc \in Sharing => SharesReader(h, s.request.reader)
        BY <3>2 DEF Sharing, SharesReader, pc, Own
      <4>3. s.pc \in Sharing => equipment'[s.request.reader] = equipment[s.request.reader]
        BY <3>1, <4>1, <4>2
      <4>. HIDE DEF s
      <4>4. s.pc \in Sharing => Operational(s.request.reader, equipment')
        <5>1. s.pc \in Sharing => Operational(s.request.reader, equipment)
          BY <4>1 DEF ChecksHold
        <5>. QED
          BY <4>3, <5>1 DEF Operational
      <4>5. ChecksHold(s, batches, equipment')
        BY <4>1, <4>4 DEF ChecksHold
      <4>. QED
        BY <4>5 DEF s
    <3>3. IngestType'
      BY <3>1 DEF IngestInv, IngestType
    <3>. QED
      BY <3>1, <3>2, <3>3 DEF IngestInv
  <2>1. ASSUME NEW h \in Handler, Arrive(h) \/ Statement(h) \/ Fault(h)
        PROVE  IngestInv'
    <3>1. CASE Commit(h) \/ CommitUnconfirmed(h)
      BY <3>1, <2>PublishKept DEF Commit, CommitUnconfirmed, Respond
    <3>2. CASE LoadAcknowledgement(h) \/ DatabaseFailure(h) \/ Abandon(h)
      BY <3>2, <2>EndKept
    <3>. QED
      BY <2>1, <3>1, <3>2, <2>ArriveKept, <2>ValidateReaderKept, <2>FindExistingBatchKept, <2>InsertBatchKept,
         <2>FindTransactionKept, <2>WriteTransactionKept DEF Statement, Fault
  <2>2. CASE UNCHANGED vars
    <3>1. /\ batches' = batches /\ transactions' = transactions /\ entries' = entries
          /\ handler' = handler /\ equipment' = equipment
      BY <2>2 DEF vars, tables
    <3>. QED
      BY <3>1 DEF IngestInv, IngestType
  <2>. QED
    BY <2>1, <2>2, <2>RegistryStepKept DEF Next
<1>InitHolds. Init => IngestInv
  <2>. SUFFICES ASSUME Init PROVE IngestInv
    OBVIOUS
  <2>1. IngestType
    BY DEF Init, IngestType, Rows
  <2>2. UniqueSequences(transactions)
    BY DEF Init, UniqueSequences
  <2>. QED
    BY <2>1, <2>2 DEF Init, IngestInv
<1>1. IngestInv /\ [Next]_vars => IngestInv'
  BY <1>NextKept
<1>. QED
  BY <1>InitHolds, <1>1, PTL DEF Spec

(* Only a commit changes the tables. *)
LEMMA OnlyCommitPublishes ==
    ASSUME [Next]_vars
    PROVE  \/ UNCHANGED tables
           \/ \E h \in Handler : pc(h) = "commit" /\ Publish(h)
<1>1. ASSUME NEW h \in Handler, Arrive(h) \/ Statement(h) \/ Fault(h)
      PROVE  UNCHANGED tables \/ (pc(h) = "commit" /\ Publish(h))
  <2>1. Arrive(h) => UNCHANGED tables
    BY DEF Arrive, Refuse, ClockUnavailable, Process, Store, Continue
  <2>2. ValidateReader(h) \/ FindExistingBatch(h) \/ InsertBatch(h) => UNCHANGED tables
    BY DEF ValidateReader, FindExistingBatch, InsertBatch, Continue, Finish
  <2>3. FindTransaction(h) => UNCHANGED tables
    BY DEF FindTransaction, Continue, Finish
  <2>4. WriteTransaction(h) => UNCHANGED tables
    BY DEF WriteTransaction, Continue, Finish
  <2>5. LoadAcknowledgement(h) \/ DatabaseFailure(h) \/ Abandon(h) => UNCHANGED tables
    BY DEF LoadAcknowledgement, DatabaseFailure, Abandon, Continue, Finish
  <2>6. Commit(h) \/ CommitUnconfirmed(h) => pc(h) = "commit" /\ Publish(h)
    BY DEF Commit, CommitUnconfirmed
  <2>. QED
    BY <1>1, <2>1, <2>2, <2>3, <2>4, <2>5, <2>6 DEF Statement, Fault
<1>2. RegistryStep => UNCHANGED tables
  BY DEF RegistryStep
<1>3. UNCHANGED vars => UNCHANGED tables
  BY DEF vars
<1>. QED
  BY <1>1, <1>2, <1>3 DEF Next

-----------------------------------------------------------------------------
(* The theorems *)

(* A batch enters the tables only while its reader may authenticate: the
   reader that validate_reader checked is locked until the commit. *)
THEOREM BatchesStoredWhileOperational == Spec => StoredWhileOperational
<1>. DEFINE Stored(b) ==
       batches'[b] # batches[b] =>
         LET row == equipment[batches'[b].reader] IN
         /\ row # NULL
         /\ Registry!MayAuthenticateToBackend(row.aggregate)
<1>1. IngestInv /\ [Next]_vars => [\A b \in Batch : Stored(b)]_vars
  <2>. SUFFICES ASSUME IngestInv, [Next]_vars, NEW b \in Batch, batches'[b] # batches[b]
                PROVE  Operational(batches'[b].reader, equipment)
    BY DEF Operational
  <2>1. PICK h \in Handler : pc(h) = "commit" /\ Publish(h)
    BY OnlyCommitPublishes DEF tables
  <2>. DEFINE s == handler[h]
  <2>2. s # NULL /\ s.pc = "commit"
    BY <2>1 DEF pc
  <2>3. Operational(s.request.reader, equipment)
    BY <2>2, InvHandler DEF ChecksHold, Sharing, Storing
  <2>4. batches' = [batches EXCEPT ![s.request.batch] = BatchRow(s.request, s.ack)]
    BY <2>1 DEF Publish, Own
  <2>5. batches'[b] = BatchRow(s.request, s.ack)
    BY <2>4 DEF IngestInv, IngestType
  <2>. QED
    BY <2>3, <2>5, SMTT(30) DEF BatchRow
<1>. QED
  BY <1>1, IngestInvariant, PTL DEF Spec, StoredWhileOperational

(* The body of AcknowledgedIsStored, for one answer. *)
AnswerStored(request, ack, B, E) ==
    /\ B[request.batch] # NULL
    /\ B[request.batch].fingerprint = RequestFingerprint(request)
    /\ AcknowledgementFingerprint(ack)
         = AcknowledgementFingerprint(B[request.batch].acknowledgement)
    /\ \A i \in DOMAIN request.entries :
         EntryRow(request, PreparedEntry(request, B[request.batch].acknowledgement, i)) \in E

(* A success is sent only for what is committed: this very request, with the
   acknowledgement that was stored and all its entry rows. *)
THEOREM AcknowledgedAlwaysStored == Spec => []AcknowledgedIsStored
(* Every step but a commit and a load sends nothing or no acknowledgement. *)
<1>OnlyStoredIsAcknowledged. ASSUME Next
                             PROVE  \/ reply' = NULL
                                    \/ reply'.ack = NULL
                                    \/ \E h \in Handler : Commit(h) \/ LoadAcknowledgement(h)
  <2>. USE <1>OnlyStoredIsAcknowledged
  <2>1. ASSUME NEW h \in Handler, Arrive(h)
        PROVE  reply' = NULL \/ reply'.ack = NULL
    <3>1. ASSUME NEW request, NEW category, Respond(h, request, category, NULL)
          PROVE  reply'.ack = NULL
      BY <3>1 DEF Respond
    <3>2. ASSUME NEW state, Continue(h, state)
          PROVE  reply' = NULL
      BY <3>2 DEF Continue
    <3>3. ASSUME NEW request, NEW headers,
                 Refuse(h, request, headers) \/ ClockUnavailable(h, request, headers)
          PROVE  reply'.ack = NULL
      BY <3>1, <3>3 DEF Refuse, ClockUnavailable
    <3>4. ASSUME NEW request, NEW headers, NEW receivedAt, NEW result,
                 \/ Process(h, request, headers, receivedAt)
                 \/ Store(h, request, receivedAt, result)
          PROVE  reply' = NULL
      BY <3>2, <3>4 DEF Process, Store
    <3>. QED
      BY <2>1, <3>3, <3>4 DEF Arrive
  <2>2. ASSUME NEW h \in Handler, NEW category, Finish(h, category)
        PROVE  reply'.ack = NULL
    BY <2>2 DEF Finish, Respond
  <2>3. ASSUME NEW h \in Handler, NEW state, Continue(h, state)
        PROVE  reply' = NULL
    BY <2>3 DEF Continue
  <2>4. ASSUME NEW h \in Handler, Statement(h)
        PROVE  reply' = NULL \/ reply'.ack = NULL \/ Commit(h) \/ LoadAcknowledgement(h)
    <3>1. ValidateReader(h) \/ FindExistingBatch(h) \/ InsertBatch(h)
            => reply' = NULL \/ reply'.ack = NULL
      BY <2>2, <2>3 DEF ValidateReader, FindExistingBatch, InsertBatch
    <3>2. FindTransaction(h) => reply' = NULL \/ reply'.ack = NULL
      BY <2>2, <2>3 DEF FindTransaction
    <3>3. WriteTransaction(h) => reply' = NULL \/ reply'.ack = NULL
      BY <2>2, <2>3 DEF WriteTransaction
    <3>. QED
      BY <2>4, <3>1, <3>2, <3>3 DEF Statement
  <2>5. ASSUME NEW h \in Handler, Fault(h)
        PROVE  reply' = NULL \/ reply'.ack = NULL
    BY <2>2, <2>3, <2>5, SMTT(30) DEF Fault, DatabaseFailure, Abandon, CommitUnconfirmed, Respond
  <2>6. RegistryStep => reply' = NULL
    BY DEF RegistryStep
  <2>. QED
    BY <2>1, <2>4, <2>5, <2>6 DEF Next
<1>CommitAnswers. ASSUME IngestInv, NEW h \in Handler, Commit(h)
                  PROVE  AnswerStored(reply'.request, reply'.ack, batches', entries')
  <2>. USE <1>CommitAnswers
  <2>. DEFINE s == handler[h]
              row == BatchRow(s.request, s.ack)
  <2>1. s # NULL /\ s.pc = "commit"
    BY DEF Commit, pc
  <2>2. s.request \in Request /\ s.ack \in Acknowledgements(s.request) /\ s.request.batch \in Batch
    BY <2>1, InvHandler, RequestFacts DEF HandlerState, ChecksHold
  <2>3. row # NULL /\ row.fingerprint = RequestFingerprint(s.request) /\ row.acknowledgement = s.ack
    BY <2>2, RequestFacts DEF BatchRow
  <2>4. /\ reply'.request = s.request /\ reply'.ack = s.ack
        /\ batches' = [batches EXCEPT ![s.request.batch] = row]
        /\ entries' = entries \cup {EntryRow(s.request, PreparedEntry(s.request, s.ack, i)) :
                                      i \in DOMAIN s.request.entries}
    BY DEF Commit, Publish, Respond, Own
  <2>5. batches'[s.request.batch] = row
    BY <2>2, <2>4 DEF IngestInv, IngestType
  <2>. HIDE DEF row, s
  <2>. QED
    BY <2>3, <2>4, <2>5, SMTT(30) DEF AnswerStored
<1>ReplayAnswers. ASSUME IngestInv, NEW h \in Handler, LoadAcknowledgement(h), reply'.ack # NULL
                  PROVE  AnswerStored(reply'.request, reply'.ack, batches', entries')
  <2>. USE <1>ReplayAnswers
  (* Marking a replay does not change what the fingerprint covers. *)
  <2>ReplayFingerprint. ASSUME NEW ack
                        PROVE  AcknowledgementFingerprint(WithReplayed(ack, TRUE)) = AcknowledgementFingerprint(ack)
    BY <2>ReplayFingerprint DEF AcknowledgementFingerprint, WithReplayed
  <2>. DEFINE s == handler[h]
              row == batches[s.request.batch]
  <2>1. s # NULL /\ s.pc = "load_acknowledgement"
    BY DEF LoadAcknowledgement, pc
  <2>2. /\ row # NULL /\ row.fingerprint = RequestFingerprint(s.request)
        /\ s.request.batch \in Batch
    BY <2>1, InvHandler, RequestFacts DEF HandlerState, ChecksHold
  <2>3. /\ reply'.request = s.request /\ reply'.ack = WithReplayed(row.acknowledgement, TRUE)
        /\ batches' = batches /\ entries' = entries
    <3>1. /\ Respond(h, s.request, NULL, WithReplayed(row.acknowledgement, TRUE))
          /\ UNCHANGED tables
      BY <2>2 DEF LoadAcknowledgement, Own
    <3>. QED
      BY <3>1 DEF Respond, tables
  <2>4. HasEntries(row, entries)
    BY <2>2 DEF IngestInv
  <2>5. \A i \in DOMAIN s.request.entries :
          EntryRow(s.request, PreparedEntry(s.request, row.acknowledgement, i)) \in entries
    BY <2>2, <2>4 DEF HasEntries, RequestFingerprint
  <2>6. batches'[s.request.batch] = row
    BY <2>3
  <2>. HIDE DEF row, s
  <2>. QED
    BY <2>2, <2>3, <2>5, <2>6, <2>ReplayFingerprint DEF AnswerStored
<1>1. Init => AcknowledgedIsStored
  BY DEF Init, AcknowledgedIsStored
<1>2. IngestInv /\ AcknowledgedIsStored /\ [Next]_vars => AcknowledgedIsStored'
  <2>1. ASSUME IngestInv, Next, reply' # NULL, reply'.category = NULL, reply'.ack # NULL
        PROVE  AnswerStored(reply'.request, reply'.ack, batches', entries')
    BY <2>1, <1>OnlyStoredIsAcknowledged, <1>CommitAnswers, <1>ReplayAnswers
  <2>2. ASSUME IngestInv, Next
        PROVE  AcknowledgedIsStored'
    BY <2>1, <2>2 DEF AcknowledgedIsStored, AnswerStored
  <2>3. ASSUME AcknowledgedIsStored, UNCHANGED vars
        PROVE  AcknowledgedIsStored'
    BY <2>3 DEF AcknowledgedIsStored, vars, tables
  <2>. QED
    BY <2>2, <2>3
<1>. QED
  BY <1>1, <1>2, IngestInvariant, PTL DEF Spec

-----------------------------------------------------------------------------
(* The refinement: what the abstract ingest asks for holds at the commit, and
   what it writes is what the handler has written. *)

LEMMA CommittedRows ==
    ASSUME NEW s \in HandlerState, NEW T \in Rows, s.ack \in Acknowledgements(s.request),
           WritesHold(s, T), s.pc = "commit"
    PROVE  /\ \A i \in DOMAIN s.request.entries :
                LET entry == Prepare(s, i) IN
                /\ entry.txn = s.request.entries[i].txn
                /\ ViewOf(s, T)[entry.txn] =
                     IF T[entry.txn] = NULL THEN NewTransaction(s.request, entry)
                     ELSE ResolvedTransaction(T[entry.txn], entry)
           /\ \A t \in Txn :
                (\A i \in DOMAIN s.request.entries : Prepare(s, i).txn # t)
                  => ViewOf(s, T)[t] = T[t]
<1>1. s.request \in Request
  BY DEF HandlerState
<1>2. \A i \in DOMAIN s.request.entries :
        Prepare(s, i).txn \in Txn /\ Prepare(s, i).txn = s.request.entries[i].txn
  BY <1>1, PreparedFacts DEF Prepare
<1>3. Done(s) = DOMAIN s.request.entries
  BY DEF Done
<1>4. ASSUME NEW i \in DOMAIN s.request.entries
      PROVE  LET entry == Prepare(s, i) IN
             ViewOf(s, T)[entry.txn] =
               IF T[entry.txn] = NULL THEN NewTransaction(s.request, entry)
               ELSE ResolvedTransaction(T[entry.txn], entry)
  <2>1. IsWritten(s, i, T)
    BY <1>3 DEF WritesHold
  <2>. QED
    BY <1>2, <2>1 DEF IsWritten, ViewOf
<1>5. ASSUME NEW t \in Txn, \A i \in DOMAIN s.request.entries : Prepare(s, i).txn # t
      PROVE  ViewOf(s, T)[t] = T[t]
  <2>1. t \notin s.locked
    BY <1>2, <1>3, <1>5, SMTT(30) DEF WritesHold, Selected
  <2>. QED
    BY <2>1 DEF ViewOf
<1>. QED
  BY <1>2, <1>4, <1>5

(* The instance has its own copies of the operators of IngestTables. *)
LEMMA SameMessages ==
    ASSUME NEW p, NEW ack
    PROVE  /\ Abstract!ValidRequest(p) = ValidRequest(p)
           /\ Abstract!ValidAgainstRequest(ack, p) = ValidAgainstRequest(ack, p)
<1>1. ASSUME NEW first, NEW last, NEW list
      PROVE  Abstract!ValidEntries(first, last, list) = ValidEntries(first, last, list)
  BY DEF Abstract!ValidEntries, Abstract!ValidEntryCount, Abstract!ValidBoundarySequences,
         Abstract!IncreasingSequences, Abstract!IsInjective, ValidEntries, ValidEntryCount,
         ValidBoundarySequences, IncreasingSequences, IsInjective
<1>2. Abstract!ValidRequest(p) = ValidRequest(p)
  BY <1>1 DEF Abstract!ValidRequest, ValidRequest
<1>3. Abstract!ValidAgainstRequest(ack, p) = ValidAgainstRequest(ack, p)
  BY DEF Abstract!ValidAgainstRequest, ValidAgainstRequest
<1>. QED
  BY <1>2, <1>3

LEMMA SameRows ==
    ASSUME NEW p, NEW ack, NEW entry, NEW row, NEW i
    PROVE  /\ Abstract!PreparedEntry(p, ack, i) = PreparedEntry(p, ack, i)
           /\ Abstract!BatchRow(p, ack) = BatchRow(p, ack)
           /\ Abstract!NewTransaction(p, entry) = NewTransaction(p, entry)
           /\ Abstract!ResolvedTransaction(row, entry) = ResolvedTransaction(row, entry)
           /\ Abstract!EntryRow(p, entry) = EntryRow(p, entry)
<1>1. Abstract!PreparedEntry(p, ack, i) = PreparedEntry(p, ack, i)
  BY DEF Abstract!PreparedEntry, PreparedEntry, Abstract!TransactionFingerprint,
         TransactionFingerprint
<1>2. Abstract!BatchRow(p, ack) = BatchRow(p, ack)
  BY DEF Abstract!BatchRow, BatchRow, Abstract!RequestFingerprint, RequestFingerprint
<1>3. Abstract!NewTransaction(p, entry) = NewTransaction(p, entry)
  BY DEF Abstract!NewTransaction, NewTransaction
<1>4. Abstract!ResolvedTransaction(row, entry) = ResolvedTransaction(row, entry)
  BY DEF Abstract!ResolvedTransaction, ResolvedTransaction
<1>5. Abstract!EntryRow(p, entry) = EntryRow(p, entry)
  BY DEF Abstract!EntryRow, EntryRow
<1>. QED
  BY <1>1, <1>2, <1>3, <1>4, <1>5

(* The statements, locks and faults of the handlers implement the ingest that
   stores a whole batch in one step. *)
THEOREM IngestImplemented == Spec => ImplementsIngest
<1>PublishIsIngest. ASSUME IngestInv, NEW h \in Handler, pc(h) = "commit", Publish(h)
                    PROVE  Abstract!IngestNext
  <2>. USE <1>PublishIsIngest
  <2>CommittedIsConsistent. ASSUME NEW s \in HandlerState, NEW T \in Rows, s.ack \in Acknowledgements(s.request),
                                   WritesHold(s, T), s.pc = "commit", UniqueSequences(T),
                                   NEW i \in DOMAIN s.request.entries,
                                   NEW u \in SameIdentity(T, s.request, Prepare(s, i))
                            PROVE  TransactionIdentityMatches(T, u, s.request, Prepare(s, i))
    <3>. USE <2>CommittedIsConsistent
    <3>. DEFINE entry == Prepare(s, i)
                t == entry.txn
                view == ViewOf(s, T)
    <3>1. s.request \in Request
      BY DEF HandlerState
    <3>2. /\ t \in Txn
          /\ NewTransaction(s.request, entry) \in TransactionRow
          /\ NewTransaction(s.request, entry).reader = s.request.reader
          /\ NewTransaction(s.request, entry).sequence = entry.sequence
      BY <3>1, PreparedFacts DEF Prepare
    <3>3. i \in Done(s)
      BY DEF Done
    <3>4. IsWritten(s, i, T)
      BY <3>3 DEF WritesHold
    <3>5. /\ t \in s.locked
          /\ T[t] = NULL => s.rows[t] = NewTransaction(s.request, entry)
          /\ T[t] # NULL => TransactionIdentityMatches(T, t, s.request, entry)
      BY <3>4 DEF IsWritten
    <3>. HIDE DEF entry
    <3>6. /\ u \in Txn /\ T[u] # NULL
          /\ u = t \/ (T[u].reader = s.request.reader /\ T[u].sequence = entry.sequence)
      BY DEF SameIdentity, entry
    <3>7. CASE T[t] # NULL
      <4>1. u = t
        BY <3>2, <3>5, <3>6, <3>7 DEF UniqueSequences, SameKey, TransactionIdentityMatches
      <4>. QED
        BY <3>5, <3>7, <4>1 DEF entry
    <3>8. CASE T[t] = NULL
      <4>1. /\ u # t
            /\ T[u].reader = s.request.reader /\ T[u].sequence = entry.sequence
        BY <3>6, <3>8
      <4>2. /\ view[t] = s.rows[t] /\ view[t] # NULL
            /\ view[t].reader = s.request.reader /\ view[t].sequence = entry.sequence
        BY <3>2, <3>5, <3>8, LockedFacts
      <4>3. view[u] # NULL /\ SameKey(T[u], view[u])
        <5>1. CASE u \in s.locked
          BY <3>6, <5>1, LockedFacts
        <5>2. CASE u \notin s.locked
          BY <3>6, <5>2 DEF ViewOf, SameKey
        <5>. QED
          BY <5>1, <5>2
      <4>4. UniqueSequences(view)
        BY DEF WritesHold
      <4>. HIDE DEF view
      <4>. QED
        BY <3>2, <3>6, <4>1, <4>2, <4>3, <4>4 DEF UniqueSequences, SameKey
    <3>. QED
      BY <3>7, <3>8
  (* The abstract ingest, in the words of this module. *)
  <2>AbstractIngest. ASSUME NEW request \in Request, NEW ack \in Acknowledgements(request),
                            ValidRequest(request),
                            batches[request.batch] = NULL,
                            \A i \in DOMAIN request.entries :
                              \A t \in SameIdentity(transactions, request, PreparedEntry(request, ack, i)) :
                                TransactionIdentityMatches(transactions, t, request, PreparedEntry(request, ack, i)),
                            batches' = [batches EXCEPT ![request.batch] = BatchRow(request, ack)],
                            transactions' = [t \in Txn |->
                              IF \E entry \in Abstract!Prepared(request, ack) : entry.txn = t
                              THEN Abstract!TransactionAfter(request,
                                     CHOOSE entry \in Abstract!Prepared(request, ack) : entry.txn = t)
                              ELSE transactions[t]],
                            entries' = entries \cup {EntryRow(request, PreparedEntry(request, ack, i)) :
                                                       i \in DOMAIN request.entries}
                     PROVE  Abstract!IngestNext
    <3>. USE <2>AbstractIngest
    <3>SameAcknowledgements. ASSUME NEW p, NEW receivedAt, NEW result
                             PROVE  /\ Abstract!Accepted = Accepted
                                    /\ Abstract!AcknowledgementWith(p, receivedAt, result)
                                         = AcknowledgementWith(p, receivedAt, result)
      <4>. USE <3>SameAcknowledgements
      <4>1. Abstract!Accepted = Accepted
        BY DEF Abstract!Accepted, Accepted
      <4>2. Abstract!AcknowledgementWith(p, receivedAt, result)
              = AcknowledgementWith(p, receivedAt, result)
        BY DEF Abstract!AcknowledgementWith, Abstract!SynchronizationBatchAcknowledgement,
               Abstract!AcknowledgementEntry, AcknowledgementWith,
               SynchronizationBatchAcknowledgement, AcknowledgementEntry
      <4>. QED
        BY <4>1, <4>2
    <3>SameIdentities. ASSUME NEW T, NEW p, NEW entry, NEW t
                       PROVE  /\ Abstract!SameIdentity(T, p, entry) = SameIdentity(T, p, entry)
                              /\ Abstract!TransactionIdentityMatches(T, t, p, entry)
                                   = TransactionIdentityMatches(T, t, p, entry)
      <4>. USE <3>SameIdentities
      <4>1. Abstract!SameIdentity(T, p, entry) = SameIdentity(T, p, entry)
        BY DEF Abstract!SameIdentity, SameIdentity
      <4>2. Abstract!TransactionIdentityMatches(T, t, p, entry)
              = TransactionIdentityMatches(T, t, p, entry)
        BY DEF Abstract!TransactionIdentityMatches, TransactionIdentityMatches
      <4>. QED
        BY <4>1, <4>2
    <3>. DEFINE prepared == Abstract!Prepared(request, ack)
    <3>1. PICK receivedAt \in Time, result \in [DOMAIN request.entries -> Result \cup {Accepted}] :
            ack = AcknowledgementWith(request, receivedAt, result)
      BY SMTT(30) DEF Acknowledgements
    <3>2. prepared = {PreparedEntry(request, ack, i) : i \in DOMAIN request.entries}
      BY SameRows DEF Abstract!Prepared
    <3>. HIDE DEF prepared
    <3>3. \A entry \in prepared : Abstract!ConsistentIdentity(request, entry)
      BY <3>2, <3>SameIdentities, SMTT(30) DEF Abstract!ConsistentIdentity
    <3>4. entries' = entries \cup {Abstract!EntryRow(request, entry) : entry \in prepared}
      <4>1. entries' = entries \cup {EntryRow(request, entry) : entry \in prepared}
        BY <3>2
      <4>2. {Abstract!EntryRow(request, entry) : entry \in prepared}
              = {EntryRow(request, entry) : entry \in prepared}
        BY SameRows
      <4>. QED
        BY <4>1, <4>2
    <3>5. /\ Abstract!ValidRequest(request)
          /\ Abstract!ValidAgainstRequest(ack, request)
          /\ batches' = [batches EXCEPT ![request.batch] = Abstract!BatchRow(request, ack)]
      BY SameMessages, SameRows, AcknowledgementFits
    <3>6. Abstract!Ingest(request, ack)
      BY <3>3, <3>4, <3>5 DEF Abstract!Ingest, prepared
    <3>. QED
      BY <3>1, <3>6, <3>SameAcknowledgements DEF Abstract!IngestNext
  <2>. DEFINE s == handler[h]
              T == transactions
              prepared == Abstract!Prepared(s.request, s.ack)
              after(t) == IF \E entry \in prepared : entry.txn = t
                          THEN Abstract!TransactionAfter(s.request,
                                 CHOOSE entry \in prepared : entry.txn = t)
                          ELSE T[t]
  <2>1. s # NULL /\ s.pc = "commit" /\ s.pc \in Storing
    BY DEF pc, Storing
  <2>2. /\ s \in HandlerState
        /\ ChecksHold(s, batches, equipment)
        /\ WritesHold(s, T)
        /\ T \in Rows /\ UniqueSequences(T)
    BY <2>1, InvHandler DEF IngestInv, IngestType
  <2>3. /\ s.request \in Request /\ s.ack \in Acknowledgements(s.request)
        /\ ValidRequest(s.request)
        /\ batches[s.request.batch] = NULL
    BY <2>1, <2>2 DEF HandlerState, ChecksHold
  <2>4. /\ batches' = [batches EXCEPT ![s.request.batch] = BatchRow(s.request, s.ack)]
        /\ transactions' = ViewOf(s, T)
        /\ entries' = entries \cup {EntryRow(s.request, PreparedEntry(s.request, s.ack, i)) :
                                      i \in DOMAIN s.request.entries}
    BY DEF Publish, View, ViewOf, Own
  <2>5. \A i \in DOMAIN s.request.entries :
          \A t \in SameIdentity(T, s.request, PreparedEntry(s.request, s.ack, i)) :
            TransactionIdentityMatches(T, t, s.request, PreparedEntry(s.request, s.ack, i))
    BY <2>1, <2>2, <2>3, <2>CommittedIsConsistent DEF Prepare
  <2>6. prepared = {Prepare(s, i) : i \in DOMAIN s.request.entries}
    BY SameRows DEF Abstract!Prepared, Prepare
  <2>7. ASSUME NEW t \in Txn
        PROVE  ViewOf(s, T)[t] = after(t)
    <3>. HIDE DEF s, T, prepared
    <3>1. CASE \E entry \in prepared : entry.txn = t
      <4>. DEFINE e == CHOOSE entry \in prepared : entry.txn = t
      <4>1. e \in prepared /\ e.txn = t
        BY <3>1
      <4>. HIDE DEF e
      <4>2. PICK i \in DOMAIN s.request.entries : e = Prepare(s, i)
        BY <2>6, <4>1
      <4>3. ViewOf(s, T)[t] = IF T[t] = NULL THEN NewTransaction(s.request, e)
                              ELSE ResolvedTransaction(T[t], e)
        BY <2>1, <2>2, <2>3, <4>1, <4>2, CommittedRows
      <4>4. ViewOf(s, T)[t] = Abstract!TransactionAfter(s.request, e)
        BY <4>1, <4>3, SameRows DEF Abstract!TransactionAfter, T
      <4>. QED
        BY <3>1, <4>4 DEF e
    <3>2. CASE ~\E entry \in prepared : entry.txn = t
      <4>1. \A i \in DOMAIN s.request.entries : Prepare(s, i).txn # t
        BY <2>6, <3>2
      <4>2. ViewOf(s, T)[t] = T[t]
        BY <2>1, <2>2, <2>3, <4>1, CommittedRows
      <4>. QED
        BY <3>2, <4>2
    <3>. QED
      BY <3>1, <3>2
  <2>8. transactions' = [t \in Txn |-> after(t)]
    BY <2>4, <2>7 DEF ViewOf
  <2>. HIDE DEF s
  <2>. QED
    BY <2>3, <2>4, <2>5, <2>8, <2>AbstractIngest
<1>1. Init => Abstract!IngestInit
  BY DEF Init, Abstract!IngestInit
<1>2. IngestInv /\ [Next]_vars => [Abstract!IngestNext]_(Abstract!tables)
  <2>1. IngestInv /\ [Next]_vars => Abstract!IngestNext \/ UNCHANGED tables
    BY OnlyCommitPublishes, <1>PublishIsIngest
  <2>. QED
    BY <2>1 DEF Abstract!tables, tables
<1>. QED
  BY <1>1, <1>2, IngestInvariant, PTL DEF Spec, ImplementsIngest, Abstract!IngestSpec

-----------------------------------------------------------------------------
(* Answers *)

Conflict == {"batch_identity_conflict", "transaction_identity_conflict"}

OtherCategory == (SynchronizationFailureCategory \cup {NULL}) \ Conflict

(* The handler finds other content under its identities. *)
ReportsBatch(h) ==
    LET row == batches[Own(h).batch] IN
    pc(h) = "find_existing_batch" /\ row # NULL /\ ~BatchMatches(row, Own(h))

ReportsTransaction(h) ==
    /\ pc(h) = "find_transaction"
    /\ \E t \in SameIdentity(View(h), Own(h), Entry(h)) :
         ~TransactionIdentityMatches(View(h), t, Own(h), Entry(h))

(* The answers of a step: a conflict is reported only where the statement finds
   one, and changes nothing. *)
LEMMA Answers ==
    ASSUME Next
    PROVE  \/ reply' = NULL
           \/ reply'.category \in OtherCategory
           \/ \E h \in Handler :
                /\ reply'.request = Own(h)
                /\ UNCHANGED tables
                /\ \/ reply'.category = "batch_identity_conflict" /\ ReportsBatch(h)
                   \/ reply'.category = "transaction_identity_conflict" /\ ReportsTransaction(h)
<1>. DEFINE Plain == reply' = NULL \/ reply'.category \in OtherCategory
<1>1. ASSUME NEW h, NEW category, Finish(h, category)
      PROVE  /\ reply'.category = category /\ reply'.request = Own(h)
             /\ UNCHANGED tables
  BY <1>1 DEF Finish, Respond
<1>2. ASSUME NEW h, NEW state, Continue(h, state)
      PROVE  Plain
  BY <1>2 DEF Continue
<1>3. /\ NULL \in OtherCategory /\ PersistenceFailure \in OtherCategory
      /\ "reader_not_registered" \in OtherCategory /\ "reader_not_operational" \in OtherCategory
  BY CategoryAssumption DEF OtherCategory, Conflict, PersistenceFailure,
     SynchronizationFailureCategory
<1>4. ASSUME NEW h \in Handler, Arrive(h)
      PROVE  Plain
  <2>1. ASSUME NEW request, NEW headers
        PROVE  Refusal(headers, request) \in OtherCategory
    <3>1. ValidateTransportHeaders(headers, request) \in OtherCategory
      BY <1>3 DEF ValidateTransportHeaders, OtherCategory, Conflict, SynchronizationFailureCategory
    <3>2. ValidateRequestContext(request) \in OtherCategory
      BY <1>3 DEF ValidateRequestContext, OtherCategory, Conflict, SynchronizationFailureCategory
    <3>3. "payload_too_large" \in OtherCategory /\ "backend_validation_failure" \in OtherCategory
      BY CategoryAssumption DEF OtherCategory, Conflict, SynchronizationFailureCategory
    <3>. QED
      BY <3>1, <3>2, <3>3 DEF Refusal, DecodingRefusal
  <2>2. ASSUME NEW request, NEW headers,
               Refuse(h, request, headers) \/ ClockUnavailable(h, request, headers)
        PROVE  Plain
    BY <1>3, <2>1, <2>2, SMTT(30) DEF Refuse, ClockUnavailable, Respond
  <2>3. ASSUME NEW request, NEW headers, NEW receivedAt, NEW result,
               \/ Process(h, request, headers, receivedAt)
               \/ Store(h, request, receivedAt, result)
        PROVE  Plain
    BY <1>2, <2>3 DEF Process, Store
  <2>. HIDE DEF Plain
  <2>. QED
    BY <1>4, <2>2, <2>3 DEF Arrive
<1>5. ASSUME NEW h \in Handler, ValidateReader(h) \/ InsertBatch(h) \/ WriteTransaction(h)
      PROVE  Plain
  <2>. HIDE DEF Plain
  <2>1. ASSUME NEW category \in OtherCategory, Finish(h, category)
        PROVE  Plain
    BY <1>1, <2>1 DEF Plain
  <2>. QED
    BY <1>2, <1>3, <1>5, <2>1 DEF ValidateReader, InsertBatch, WriteTransaction
<1>6. ASSUME NEW h \in Handler, FindExistingBatch(h)
      PROVE  \/ Plain
             \/ /\ reply'.request = Own(h) /\ UNCHANGED tables
                /\ reply'.category = "batch_identity_conflict" /\ ReportsBatch(h)
  BY <1>1, <1>2, <1>3, <1>6 DEF FindExistingBatch, ReportsBatch
<1>7. ASSUME NEW h \in Handler, FindTransaction(h)
      PROVE  \/ Plain
             \/ /\ reply'.request = Own(h) /\ UNCHANGED tables
                /\ reply'.category = "transaction_identity_conflict" /\ ReportsTransaction(h)
  <2>. HIDE DEF Plain
  <2>1. \/ ReportsTransaction(h) /\ Finish(h, "transaction_identity_conflict")
        \/ \E state : Continue(h, state)
    BY <1>7 DEF FindTransaction, ReportsTransaction
  <2>. QED
    BY <1>1, <1>2, <2>1
<1>8. ASSUME NEW h \in Handler, Commit(h) \/ LoadAcknowledgement(h) \/ Fault(h)
      PROVE  Plain
  <2>. HIDE DEF Plain
  <2>1. ASSUME NEW category \in OtherCategory, NEW request, NEW ack,
               Respond(h, request, category, ack)
        PROVE  Plain
    BY <2>1 DEF Respond, Plain
  <2>2. CASE Commit(h) \/ CommitUnconfirmed(h)
    BY <1>3, <2>1, <2>2 DEF Commit, CommitUnconfirmed
  <2>3. CASE LoadAcknowledgement(h)
    BY <1>3, <2>1, <2>3 DEF LoadAcknowledgement, Finish
  <2>4. CASE DatabaseFailure(h) \/ Abandon(h)
    BY <1>2, <1>3, <2>1, <2>4 DEF DatabaseFailure, Abandon, Finish
  <2>. QED
    BY <1>8, <2>2, <2>3, <2>4 DEF Fault
<1>9. RegistryStep => Plain
  BY DEF RegistryStep
<1>. HIDE DEF Plain
<1>10. ASSUME NEW h \in Handler, Statement(h)
       PROVE  \/ Plain
              \/ /\ reply'.request = Own(h) /\ UNCHANGED tables
                 /\ \/ reply'.category = "batch_identity_conflict" /\ ReportsBatch(h)
                    \/ reply'.category = "transaction_identity_conflict" /\ ReportsTransaction(h)
  BY <1>5, <1>6, <1>7, <1>8, <1>10 DEF Statement
<1>. QED
  BY <1>4, <1>8, <1>9, <1>10 DEF Next, Plain

-----------------------------------------------------------------------------
(* The order of the sequences *)

LEMMA SmallestMember ==
    ASSUME NEW S, S \subseteq Nat, S # {}
    PROVE  \E x \in S : \A y \in S : x <= y
<1>1. PICK x \in S : \A y \in S : ~(<<y, x>> \in OpToRel(<, Nat))
  BY NatLessThanWellFounded, WFMin
<1>2. \A y \in S : ~(y < x)
  BY <1>1 DEF OpToRel
<1>. QED
  BY <1>2, SMTT(30)

(* validate_increasing_sequences compares neighbours; the sequences increase
   over any distance. *)
LEMMA SequencesIncrease ==
    ASSUME NEW p \in Request, ValidRequest(p), NEW i \in DOMAIN p.entries,
           NEW j \in DOMAIN p.entries,
           i < j
    PROVE  p.entries[i].sequence < p.entries[j].sequence
<1>. DEFINE seq(k) == p.entries[k].sequence
            S == {k \in i + 1..Len(p.entries) : ~(seq(i) < seq(k))}
<1>1. /\ Len(p.entries) \in Nat /\ DOMAIN p.entries = 1..Len(p.entries)
      /\ \A k \in 1..Len(p.entries) : seq(k) \in Int
      /\ \A k \in 2..Len(p.entries) : seq(k - 1) < seq(k)
  BY RequestFacts, OrderAssumption DEF ValidRequest, ValidEntries, IncreasingSequences
<1>. HIDE DEF seq
<1>2. ASSUME S # {}
      PROVE  FALSE
  <2>1. S \subseteq Nat
    BY <1>1, SMTT(30)
  <2>2. PICK k \in S : \A l \in S : k <= l
    BY <1>2, <2>1, SmallestMember
  <2>3. /\ k \in 2..Len(p.entries) /\ k - 1 \in 1..Len(p.entries) /\ i \in 1..Len(p.entries)
        /\ ~(seq(i) < seq(k)) /\ k - 1 >= i
    BY <1>1, <2>2, SMTT(30)
  <2>4. k - 1 \notin S
    BY <1>1, <2>2, <2>3, SMTT(30)
  <2>5. k - 1 = i \/ seq(i) < seq(k - 1)
    BY <1>1, <2>3, <2>4, SMTT(30)
  <2>6. seq(k - 1) < seq(k) /\ seq(k - 1) \in Int /\ seq(k) \in Int /\ seq(i) \in Int
    BY <1>1, <2>3, SMTT(30)
  <2>. QED
    BY <2>3, <2>5, <2>6, SMTT(30)
<1>3. seq(i) < seq(j)
  BY <1>1, <1>2, SMTT(30)
<1>. QED
  BY <1>3 DEF seq

(* What a handler that is not at its commit has written comes before its
   current entry. *)
LEMMA WrittenComesBefore ==
    ASSUME NEW s \in HandlerState, ValidRequest(s.request), s.position \in DOMAIN s.request.entries,
           s.pc # "commit", NEW i \in Done(s)
    PROVE  /\ i \in DOMAIN s.request.entries
           /\ s.request.entries[i].sequence < s.request.entries[s.position].sequence
  BY SequencesIncrease DEF Done, HandlerState

-----------------------------------------------------------------------------
(* Conflicts *)

(* A conflict, which the reader treats as final, is reported only for content
   that differs from what is committed: never because copies of a request
   raced, and never because of rows that are rolled back. *)
THEOREM ConflictsAlwaysReal == Spec => []ConflictsAreReal
<1>BatchConflictIsReal. ASSUME IngestInv, NEW h \in Handler, ReportsBatch(h)
                        PROVE  /\ batches[Own(h).batch] # NULL
                               /\ batches[Own(h).batch].fingerprint # RequestFingerprint(Own(h))
  <2>. USE <1>BatchConflictIsReal
  <2>. DEFINE p == Own(h)
              row == batches[p.batch]
  <2>1. handler[h] # NULL /\ row # NULL /\ ~BatchMatches(row, p)
    BY DEF ReportsBatch, pc
  <2>2. p \in Request /\ p.batch \in Batch
    BY <2>1, InvHandler, RequestFacts DEF HandlerState, Own
  <2>3. row \in BatchRows
    BY <2>1, <2>2 DEF IngestInv, IngestType
  <2>4. PICK q \in Request : \E ack \in Acknowledgements(q) : row = BatchRow(q, ack)
    BY <2>3 DEF BatchRows
  <2>5. row.reader = q.reader /\ row.fingerprint = q
    BY <2>4, SMTT(30) DEF BatchRow, RequestFingerprint
  <2>. QED
    BY <2>1, <2>5 DEF BatchMatches, RequestFingerprint
(* A conflict that the handler sees in its own view is one with a committed
   row: its own rows have other keys. *)
<1>TransactionConflictIsReal. ASSUME IngestInv, NEW h \in Handler, ReportsTransaction(h)
                              PROVE  LET p == Own(h)
                                         entry == PreparedEntry(p, BuildAcknowledgement(p, 0), handler[h].position)
                                     IN  /\ handler[h].position \in DOMAIN p.entries
                                         /\ \E t \in SameIdentity(transactions, p, entry) :
                                              ~TransactionIdentityMatches(transactions, t, p, entry)
  <2>. USE <1>TransactionConflictIsReal
  <2>1. PICK s : s = handler[h]
    OBVIOUS
  <2>2. PICK T : T = transactions
    OBVIOUS
  <2>3. PICK p : p = s.request
    OBVIOUS
  <2>4. PICK entry : entry = Prepare(s, s.position)
    OBVIOUS
  <2>5. PICK t \in SameIdentity(ViewOf(s, T), p, entry) :
          ~TransactionIdentityMatches(ViewOf(s, T), t, p, entry)
    BY <2>1, <2>2, <2>3, <2>4 DEF ReportsTransaction, View, ViewOf, Entry, Own, Prepare
  <2>6. s # NULL /\ s.pc = "find_transaction"
    BY <2>1 DEF ReportsTransaction, pc
  <2>7. /\ s \in HandlerState /\ T \in Rows /\ p \in Request /\ ValidRequest(p)
        /\ s.ack \in Acknowledgements(p) /\ WritesHold(s, T)
        /\ s.position \in DOMAIN p.entries
    <3>1. s \in HandlerState /\ ChecksHold(s, batches, equipment) /\ WritesHold(s, T)
      BY <2>1, <2>2, <2>6, InvHandler
    <3>2. T \in Rows
      BY <2>2 DEF IngestInv, IngestType
    <3>. QED
      BY <2>3, <3>1, <3>2 DEF HandlerState, ChecksHold, WritesHold
  <2>8. /\ entry.txn = p.entries[s.position].txn
        /\ entry.sequence = p.entries[s.position].sequence
    BY <2>3, <2>4, <2>7, PreparedFacts DEF Prepare
  <2>9. entry.txn \notin s.locked
    BY <2>3, <2>6, <2>7, <2>8, CurrentIsNew DEF Selected
  <2>10. t \in SameIdentity(T, p, entry) /\ ~TransactionIdentityMatches(T, t, p, entry)
    <3>1. CASE t \notin s.locked
      BY <2>5, <3>1 DEF SameIdentity, TransactionIdentityMatches, ViewOf
    <3>2. CASE t \in s.locked
      <4>1. t \in Txn /\ t # entry.txn /\ ViewOf(s, T)[t] = s.rows[t] /\ s.rows[t].reader = p.reader
            /\ s.rows[t].sequence = entry.sequence
        BY <2>3, <2>5, <2>7, <2>9, <3>2, LockedFacts DEF SameIdentity
      <4>2. CASE T[t] # NULL
        <5>1. T[t].reader = p.reader /\ T[t].sequence = entry.sequence
          BY <2>3, <2>7, <3>2, <4>1, <4>2, LockedFacts DEF SameKey
        <5>. QED
          BY <4>1, <4>2, <5>1 DEF SameIdentity, TransactionIdentityMatches
      <4>3. CASE T[t] = NULL
        <5>1. PICK i \in Done(s) : t = p.entries[i].txn
          BY <2>3, <2>6, <2>7, <3>2 DEF WritesHold, Selected
        <5>2. i \in DOMAIN p.entries /\ p.entries[i].sequence < entry.sequence
          BY <2>3, <2>6, <2>7, <2>8, WrittenComesBefore
        <5>3. /\ Prepare(s, i).txn = t
              /\ NewTransaction(p, Prepare(s, i)).sequence = p.entries[i].sequence
          BY <2>3, <2>7, <5>1, <5>2, PreparedFacts, SMTT(30) DEF Prepare
        <5>4. s.rows[t] = NewTransaction(p, Prepare(s, i))
          BY <2>3, <2>7, <4>3, <5>3 DEF WritesHold, IsWritten
        <5>5. p.entries[i].sequence \in Int
          BY <2>7, <5>2, OrderAssumption
        <5>. QED
          BY <4>1, <5>2, <5>3, <5>4, <5>5, SMTT(30)
      <4>. QED
        BY <4>2, <4>3
    <3>. QED
      BY <3>1, <3>2
  <2>11. PICK other : other = PreparedEntry(p, BuildAcknowledgement(p, 0), s.position)
    OBVIOUS
  <2>12. other.txn = entry.txn /\ other.sequence = entry.sequence /\ other.fingerprint = entry.fingerprint
    BY <2>3, <2>4, <2>11 DEF Prepare, PreparedEntry
  <2>13. /\ t \in SameIdentity(T, p, other)
         /\ ~TransactionIdentityMatches(T, t, p, other)
    BY <2>10, <2>12 DEF SameIdentity, TransactionIdentityMatches
  <2>. QED
    BY <2>1, <2>2, <2>3, <2>7, <2>11, <2>13 DEF Own
<1>1. Init => ConflictsAreReal
  BY DEF Init, ConflictsAreReal
<1>2. ASSUME IngestInv, Next
      PROVE  ConflictsAreReal'
  <2>1. CASE reply' = NULL
    BY <2>1 DEF ConflictsAreReal
  <2>2. CASE reply'.category \in OtherCategory
    BY <2>2 DEF ConflictsAreReal, OtherCategory, Conflict
  <2>3. ASSUME NEW h \in Handler, reply'.request = Own(h), UNCHANGED tables,
               reply'.category = "batch_identity_conflict", ReportsBatch(h)
        PROVE  ConflictsAreReal'
    <3>1. batches' = batches
      BY <2>3 DEF tables
    <3>2. PICK p : p = Own(h)
      OBVIOUS
    <3>3. batches'[p.batch] # NULL /\ batches'[p.batch].fingerprint # RequestFingerprint(p)
      BY <1>2, <2>3, <3>1, <3>2, <1>BatchConflictIsReal
    <3>4. reply'.request = p
      BY <2>3, <3>2
    <3>. QED
      BY <2>3, <3>3, <3>4 DEF ConflictsAreReal
  <2>4. ASSUME NEW h \in Handler, reply'.request = Own(h), UNCHANGED tables,
               reply'.category = "transaction_identity_conflict", ReportsTransaction(h)
        PROVE  ConflictsAreReal'
    <3>1. transactions' = transactions
      BY <2>4 DEF tables
    <3>2. PICK p : p = Own(h)
      OBVIOUS
    <3>3. PICK i : i = handler[h].position
      OBVIOUS
    <3>4. PICK entry : entry = PreparedEntry(p, BuildAcknowledgement(p, 0), i)
      OBVIOUS
    <3>5. /\ i \in DOMAIN p.entries
          /\ \E t \in SameIdentity(transactions, p, entry) :
               ~TransactionIdentityMatches(transactions, t, p, entry)
      BY <1>2, <2>4, <3>2, <3>3, <3>4, <1>TransactionConflictIsReal
    <3>6. \E t \in SameIdentity(transactions', p, entry) :
            ~TransactionIdentityMatches(transactions', t, p, entry)
      BY <3>1, <3>5
    <3>7. reply'.request = p
      BY <2>4, <3>2
    <3>. QED
      BY <2>4, <3>4, <3>5, <3>6, <3>7 DEF ConflictsAreReal
  <2>. QED
    BY <1>2, <2>1, <2>2, <2>3, <2>4, Answers
<1>3. ConflictsAreReal /\ UNCHANGED vars => ConflictsAreReal'
  BY DEF ConflictsAreReal, vars, tables
<1>. QED
  BY <1>1, <1>2, <1>3, IngestInvariant, PTL DEF Spec

-----------------------------------------------------------------------------
(* The newest resolution *)

(* Every entry row is of a stored transaction. *)
HistoryStored(E, T) ==
    \A row \in E : row.txn \in Txn /\ T[row.txn] # NULL /\ row.resolvedAt \in Int

NewestOf(row, t, E) ==
    /\ \A old \in E : old.txn = t => old.resolvedAt <= row.resolvedAt
    /\ \E old \in E : /\ old.txn = t
                      /\ old.resolvedAt = row.resolvedAt
                      /\ old.outcome = row.resolution

Newest(E, T) == \A t \in Txn : T[t] # NULL => NewestOf(T[t], t, E)

(* A new entry that is at least as late as all others gives the newest row. *)
LEMMA NewestAdded ==
    ASSUME NEW E, NEW F, NEW t, NEW a \in F, NEW row, a.txn = t, a.resolvedAt \in Int,
           \A e \in F : e.txn = t => e \in E \/ e = a,
           \A old \in E : old.txn = t => old.resolvedAt <= a.resolvedAt,
           row.resolvedAt = a.resolvedAt, row.resolution = a.outcome
    PROVE  NewestOf(row, t, F)
<1>1. ASSUME NEW e \in F, e.txn = t
      PROVE  e.resolvedAt <= row.resolvedAt
  <2>1. CASE e = a
    BY <2>1, SMTT(30)
  <2>2. CASE e \in E
    BY <1>1, <2>2
  <2>. QED
    BY <1>1, <2>1, <2>2
<1>. QED
  BY <1>1 DEF NewestOf

(* An earlier entry leaves the newest row as it is. *)
LEMMA NewestKept ==
    ASSUME NEW E, NEW F, NEW t, NEW a, NEW row, E \subseteq F, NewestOf(row, t, E),
           a.resolvedAt <= row.resolvedAt,
           \A e \in F : e.txn = t => e \in E \/ e = a
    PROVE  NewestOf(row, t, F)
  BY DEF NewestOf

(* The current resolution of a transaction is the one of the newest receipt
   time among all batches that carried it, in whatever order the handlers
   received and committed them. *)
THEOREM ResolutionAlwaysNewest == Spec => []NewestResolution
<1>NewestInvariant. Spec => [](HistoryStored(entries, transactions) /\ Newest(entries, transactions))
  <2>CommitNewest. ASSUME NEW s \in HandlerState, NEW T \in Rows, s.ack \in Acknowledgements(s.request),
                          ValidRequest(s.request), WritesHold(s, T), s.pc = "commit",
                          NEW E, HistoryStored(E, T), Newest(E, T),
                          NEW F, F = E \cup {EntryRow(s.request, Prepare(s, i)) : i \in DOMAIN s.request.entries}
                   PROVE  HistoryStored(F, ViewOf(s, T)) /\ Newest(F, ViewOf(s, T))
    <3>. USE <2>CommitNewest
    <3>1. PICK p : p = s.request
      OBVIOUS
    <3>2. PICK V : V = ViewOf(s, T)
      OBVIOUS
    <3>. DEFINE entry(i) == Prepare(s, i)
                added(i) == EntryRow(p, entry(i))
    <3>3. p \in Request
      BY <3>1 DEF HandlerState
    <3>4. ASSUME NEW i \in DOMAIN p.entries
          PROVE  /\ entry(i).txn = p.entries[i].txn /\ entry(i).txn \in Txn
                 /\ entry(i).resolvedAt \in Int
                 /\ added(i).txn = entry(i).txn
                 /\ added(i).resolvedAt = entry(i).resolvedAt
                 /\ added(i).outcome = entry(i).outcome
      <4>1. /\ entry(i).txn = p.entries[i].txn /\ entry(i).txn \in Txn
            /\ entry(i).resolvedAt \in Time
        BY <3>1, <3>3, <3>4, PreparedFacts DEF Prepare
      <4>2. entry(i).resolvedAt \in Int
        BY <4>1, IngestAssumption
      <4>. HIDE DEF entry
      <4>3. /\ added(i).txn = entry(i).txn
            /\ added(i).resolvedAt = entry(i).resolvedAt
            /\ added(i).outcome = entry(i).outcome
        BY DEF EntryRow
      <4>. QED
        BY <4>1, <4>2, <4>3
    <3>5. ASSUME NEW i \in DOMAIN p.entries
          PROVE  V[entry(i).txn] = IF T[entry(i).txn] = NULL THEN NewTransaction(p, entry(i))
                                   ELSE ResolvedTransaction(T[entry(i).txn], entry(i))
      BY <3>1, <3>2, CommittedRows
    <3>6. ASSUME NEW t \in Txn, \A i \in DOMAIN p.entries : entry(i).txn # t
          PROVE  V[t] = T[t]
      BY <3>1, <3>2, <3>6, CommittedRows
    <3>7. \A i, j \in DOMAIN p.entries : entry(i).txn = entry(j).txn => i = j
      <4>1. \A i, j \in DOMAIN p.entries : p.entries[i].txn = p.entries[j].txn => i = j
        BY <3>1 DEF ValidRequest, ValidEntries, IsInjective
      <4>. HIDE DEF entry
      <4>. QED
        BY <3>4, <4>1
    <3>8. F = E \cup {added(i) : i \in DOMAIN p.entries}
      BY <3>1
    <3>. HIDE DEF entry, added
    <3>9. ASSUME NEW i \in DOMAIN p.entries
          PROVE  LET t == entry(i).txn IN
                 /\ V[t] # NULL
                 /\ V[t].resolvedAt \in Int
                 /\ T[t] # NULL => T[t].resolvedAt \in Int
                 /\ T[t] = NULL \/ entry(i).resolvedAt >= T[t].resolvedAt
                      => V[t].resolvedAt = entry(i).resolvedAt /\ V[t].resolution = entry(i).outcome
                 /\ T[t] # NULL /\ ~(entry(i).resolvedAt >= T[t].resolvedAt) => V[t] = T[t]
      <4>1. PICK t \in Txn : t = entry(i).txn
        BY <3>4
      <4>2. T[t] # NULL => T[t] \in TransactionRow /\ T[t].resolvedAt \in Int
        BY IngestAssumption DEF Rows, TransactionRow
      <4>3. CASE T[t] = NULL
        <5>1. V[t] = NewTransaction(p, entry(i))
          BY <3>5, <4>1, <4>3
        <5>2. NewTransaction(p, entry(i)) \in TransactionRow
          BY <3>1, <3>3, PreparedFacts DEF entry, Prepare
        <5>3. V[t] # NULL
          BY <5>1, <5>2, IngestAssumption
        <5>4. PICK e : e = entry(i)
          OBVIOUS
        <5>5. V[t].resolvedAt = e.resolvedAt /\ V[t].resolution = e.outcome
          BY <5>1, <5>4, SMTT(30) DEF NewTransaction
        <5>6. e.resolvedAt \in Int
          BY <3>4, <5>4
        <5>. QED
          BY <4>1, <4>3, <5>3, <5>4, <5>5, <5>6
      <4>4. CASE T[t] # NULL
        <5>1. V[t] = ResolvedTransaction(T[t], entry(i))
          BY <3>5, <4>1, <4>4
        <5>2. ResolvedTransaction(T[t], entry(i)) \in TransactionRow
          BY <3>1, <3>3, <4>2, <4>4, ResolvedFacts DEF entry, Prepare
        <5>3. CASE entry(i).resolvedAt >= T[t].resolvedAt
          <6>1. V[t] = [T[t] EXCEPT !.resolution = entry(i).outcome, !.resolvedAt = entry(i).resolvedAt]
            BY <5>1, <5>3 DEF ResolvedTransaction
          <6>. QED
            BY <3>4, <4>1, <4>2, <4>4, <5>1, <5>2, <5>3, <6>1, IngestAssumption DEF TransactionRow
        <5>4. CASE ~(entry(i).resolvedAt >= T[t].resolvedAt)
          BY <4>1, <4>2, <4>4, <5>1, <5>4 DEF ResolvedTransaction
        <5>. QED
          BY <5>3, <5>4
      <4>. QED
        BY <4>3, <4>4
    <3>10. HistoryStored(F, V)
      <4>1. ASSUME NEW row \in E
            PROVE  row.txn \in Txn /\ V[row.txn] # NULL /\ row.resolvedAt \in Int
        <5>1. row.txn \in Txn /\ T[row.txn] # NULL /\ row.resolvedAt \in Int
          BY DEF HistoryStored
        <5>2. CASE \E i \in DOMAIN p.entries : entry(i).txn = row.txn
          BY <3>9, <5>1, <5>2
        <5>3. CASE \A i \in DOMAIN p.entries : entry(i).txn # row.txn
          BY <3>6, <5>1, <5>3
        <5>. QED
          BY <5>1, <5>2, <5>3
      <4>2. ASSUME NEW i \in DOMAIN p.entries
            PROVE  added(i).txn \in Txn /\ V[added(i).txn] # NULL /\ added(i).resolvedAt \in Int
        BY <3>4, <3>9
      <4>. QED
        BY <3>8, <4>1, <4>2 DEF HistoryStored
    <3>11. ASSUME NEW t \in Txn, V[t] # NULL
           PROVE  NewestOf(V[t], t, F)
      <4>1. CASE \A i \in DOMAIN p.entries : entry(i).txn # t
        <5>1. V[t] = T[t] /\ NewestOf(T[t], t, E)
          BY <3>6, <3>11, <4>1 DEF Newest
        <5>2. \A i \in DOMAIN p.entries : added(i).txn # t
          BY <3>4, <4>1
        <5>. QED
          BY <3>8, <5>1, <5>2 DEF NewestOf
      <4>2. ASSUME NEW i \in DOMAIN p.entries, entry(i).txn = t
            PROVE  NewestOf(V[t], t, F)
        <5>1. \A row \in F : row.txn = t => row \in E \/ row = added(i)
          BY <3>4, <3>7, <3>8, <4>2, SMTT(30)
        <5>2. /\ added(i) \in F /\ added(i).txn = t /\ E \subseteq F
              /\ added(i).resolvedAt = entry(i).resolvedAt /\ added(i).outcome = entry(i).outcome
              /\ entry(i).resolvedAt \in Int
          BY <3>4, <3>8, <4>2
        <5>3. \A old \in E : old.resolvedAt \in Int
          BY DEF HistoryStored
        <5>4. CASE T[t] = NULL
          <6>1. \A old \in E : old.txn # t
            BY <5>4 DEF HistoryStored
          <6>2. V[t].resolvedAt = entry(i).resolvedAt /\ V[t].resolution = entry(i).outcome
            BY <3>9, <4>2, <5>4
          <6>. QED
            BY <5>1, <5>2, <6>1, <6>2, NewestAdded
        <5>5. CASE T[t] # NULL /\ entry(i).resolvedAt >= T[t].resolvedAt
          <6>1. /\ V[t].resolvedAt = entry(i).resolvedAt /\ V[t].resolution = entry(i).outcome
                /\ T[t].resolvedAt \in Int
            BY <3>9, <4>2, <5>5
          <6>2. \A old \in E : old.txn = t => old.resolvedAt <= T[t].resolvedAt
            BY <5>5 DEF Newest, NewestOf
          <6>3. \A old \in E : old.txn = t => old.resolvedAt <= added(i).resolvedAt
            BY <5>2, <5>3, <5>5, <6>1, <6>2, SMTT(30)
          <6>4. V[t].resolvedAt = added(i).resolvedAt /\ V[t].resolution = added(i).outcome
            BY <5>2, <6>1
          <6>. QED
            BY <5>1, <5>2, <6>3, <6>4, NewestAdded
        <5>6. CASE T[t] # NULL /\ ~(entry(i).resolvedAt >= T[t].resolvedAt)
          <6>1. V[t] = T[t] /\ T[t].resolvedAt \in Int /\ NewestOf(T[t], t, E)
            BY <3>9, <4>2, <5>6 DEF Newest
          <6>2. added(i).resolvedAt <= V[t].resolvedAt
            BY <5>2, <5>6, <6>1, SMTT(30)
          <6>. QED
            BY <5>1, <5>2, <6>1, <6>2, NewestKept
        <5>. QED
          BY <5>4, <5>5, <5>6
      <4>. QED
        BY <4>1, <4>2
    <3>. QED
      BY <3>2, <3>10, <3>11 DEF Newest
  <2>. DEFINE Inv == HistoryStored(entries, transactions) /\ Newest(entries, transactions)
  <2>1. Init => Inv
    BY DEF Init, HistoryStored, Newest
  <2>2. ASSUME IngestInv, Inv, [Next]_vars
        PROVE  Inv'
    <3>1. CASE UNCHANGED tables
      BY <2>2, <3>1 DEF tables, HistoryStored, Newest, NewestOf
    <3>2. ASSUME NEW h \in Handler, pc(h) = "commit", Publish(h)
          PROVE  Inv'
      <4>1. PICK s : s = handler[h]
        OBVIOUS
      <4>2. PICK T : T = transactions
        OBVIOUS
      <4>3. s # NULL /\ s.pc = "commit"
        BY <3>2, <4>1 DEF pc
      <4>4. s \in HandlerState /\ ChecksHold(s, batches, equipment) /\ WritesHold(s, T)
        BY <2>2, <4>1, <4>2, <4>3, InvHandler
      <4>5. T \in Rows /\ s.ack \in Acknowledgements(s.request) /\ ValidRequest(s.request)
        BY <2>2, <4>2, <4>4 DEF IngestInv, IngestType, ChecksHold
      <4>6. transactions' = ViewOf(s, T)
        BY <3>2, <4>1, <4>2 DEF Publish, View, ViewOf
      <4>7. entries' = entries \cup {EntryRow(s.request, Prepare(s, i)) : i \in DOMAIN s.request.entries}
        BY <3>2, <4>1 DEF Publish, Own, Prepare
      <4>8. HistoryStored(entries, T) /\ Newest(entries, T)
        BY <2>2, <4>2
      <4>9. HistoryStored(entries', ViewOf(s, T)) /\ Newest(entries', ViewOf(s, T))
        BY <4>3, <4>4, <4>5, <4>7, <4>8, <2>CommitNewest
      <4>. QED
        BY <4>6, <4>9
    <3>. QED
      BY <2>2, <3>1, <3>2, OnlyCommitPublishes
  <2>. QED
    BY <2>1, <2>2, IngestInvariant, PTL DEF Spec
<1>1. Newest(entries, transactions) => NewestResolution
  BY DEF Newest, NewestOf, NewestResolution
<1>. QED
  BY <1>1, <1>NewestInvariant, PTL

-----------------------------------------------------------------------------
(* Waiting *)

(* The sequence of the entry that a handler is at. *)
Current(h) == Own(h).entries[handler[h].position].sequence

(* The handler is at a statement of store_transaction that may wait. *)
AtStatement(s) == s.pc = "find_transaction" \/ (s.pc = "write_transaction" /\ ~s.found)

(* Handlers whose requests agree on the identities never wait for one another
   in a circle: each takes its rows in the order of their sequences. *)
THEOREM WaitsAlwaysEnd == Spec => []NoWaitCycle
(* A handler waits for one that holds a row of the same sequence, and that has
   gone on to a later one. *)
<1>WaitsForLater. ASSUME IngestInv, NEW h \in Handler, NEW g \in Handler, handler[h] # NULL, handler[g] # NULL,
                         WaitsForRow(h, g) \/ WaitsForInsert(h, g), AtStatement(handler[g]),
                         Agree(Own(h), Own(g))
                  PROVE  Current(h) < Current(g)
  <2>. USE <1>WaitsForLater
  <2>1. PICK s : s = handler[h]
    OBVIOUS
  <2>2. PICK q : q = handler[g]
    OBVIOUS
  <2>3. PICK T : T = transactions
    OBVIOUS
  <2>4. /\ s \in HandlerState /\ ChecksHold(s, batches, equipment) /\ WritesHold(s, T)
        /\ q \in HandlerState /\ ChecksHold(q, batches, equipment) /\ WritesHold(q, T)
    BY <2>1, <2>2, <2>3, InvHandler
  <2>5. /\ s.request \in Request /\ s.position \in DOMAIN s.request.entries
        /\ s.ack \in Acknowledgements(s.request)
        /\ q.request \in Request /\ ValidRequest(q.request) /\ q.position \in DOMAIN q.request.entries
        /\ q.ack \in Acknowledgements(q.request)
        /\ T \in Rows
    BY <2>3, <2>4 DEF HandlerState, ChecksHold, WritesHold, IngestInv, IngestType
  <2>6. PICK entry : entry = Prepare(s, s.position)
    OBVIOUS
  <2>7. /\ entry.txn = s.request.entries[s.position].txn
        /\ entry.sequence = s.request.entries[s.position].sequence
    BY <2>5, <2>6, PreparedFacts DEF Prepare
  <2>8. q.pc \in {"find_transaction", "write_transaction"} /\ ~Selected(q)
    BY <2>2 DEF AtStatement, Selected
  <2>9. PICK t \in q.locked :
          \/ t = entry.txn
          \/ T[t] # NULL /\ T[t].reader = s.request.reader /\ T[t].sequence = entry.sequence
          \/ T[t] = NULL /\ q.rows[t].reader = s.request.reader /\ q.rows[t].sequence = entry.sequence
    <3>1. Entry(h) = entry /\ Own(h) = s.request
      BY <2>1, <2>6 DEF Entry, Own, Prepare
    <3>2. CASE WaitsForRow(h, g)
      BY <2>2, <2>3, <3>1, <3>2 DEF WaitsForRow, SameIdentity
    <3>3. CASE WaitsForInsert(h, g)
      BY <2>2, <2>3, <3>1, <3>3 DEF WaitsForInsert, OwnsIdentity, Inserted, SameIdentity
    <3>. QED
      BY <3>2, <3>3
  <2>10. PICK i \in Done(q) : t = q.request.entries[i].txn
    BY <2>4, <2>8 DEF WritesHold
  <2>11. /\ i \in DOMAIN q.request.entries
         /\ q.request.entries[i].sequence < q.request.entries[q.position].sequence
    BY <2>4, <2>5, <2>8, WrittenComesBefore
  <2>12. /\ Prepare(q, i).txn = t
         /\ Prepare(q, i).sequence = q.request.entries[i].sequence
         /\ NewTransaction(q.request, Prepare(q, i)).reader = q.request.reader
         /\ NewTransaction(q.request, Prepare(q, i)).sequence = q.request.entries[i].sequence
    <3>1. PICK e : e = Prepare(q, i)
      OBVIOUS
    <3>2. e.txn = q.request.entries[i].txn /\ e.sequence = q.request.entries[i].sequence
      BY <2>5, <2>11, <3>1, PreparedFacts DEF Prepare
    <3>3. NewTransaction(q.request, e).reader = q.request.reader
          /\ NewTransaction(q.request, e).sequence = e.sequence
      BY DEF NewTransaction
    <3>. QED
      BY <2>10, <3>1, <3>2, <3>3
  <2>13. IsWritten(q, i, T)
    BY <2>4 DEF WritesHold
  <2>14. q.request.entries[i].sequence = entry.sequence
    <3>1. CASE t = entry.txn
      BY <2>1, <2>2, <2>5, <2>7, <2>10, <2>11, <3>1 DEF Agree, Own
    <3>2. CASE T[t] # NULL /\ T[t].sequence = entry.sequence
      BY <2>12, <2>13, <3>2 DEF IsWritten, TransactionIdentityMatches
    <3>3. CASE T[t] = NULL /\ q.rows[t].sequence = entry.sequence
      BY <2>12, <2>13, <3>3 DEF IsWritten
    <3>. QED
      BY <2>9, <3>1, <3>2, <3>3
  <2>. QED
    BY <2>1, <2>2, <2>7, <2>11, <2>14 DEF Current, Own
(* In a finite set, a relation along which a number grows ends. *)
<1>NoEndlessGrowth. ASSUME NEW All, IsFiniteSet(All), NEW K \in SUBSET All, K # {}, NEW f \in [K -> Int]
                    PROVE  \E h \in K : \A g \in K : ~(f[h] < f[g])
  <2>. USE <1>NoEndlessGrowth
  <2>1. PICK s \in Seq(All) : \A g \in All : \E i \in 1..Len(s) : s[i] = g
    BY DEF IsFiniteSet
  <2>2. PICK n \in Nat : n = Len(s)
    BY <2>1, SMTT(30)
  <2>. DEFINE Tops(m, h) == \A i \in (m + 1)..n : s[i] \in K => ~(f[h] < f[s[i]])
              depths == {m \in 0..n : \E h \in K : Tops(m, h)}
  <2>3. depths \subseteq Nat /\ n \in depths
    BY <2>2, SMTT(30)
  <2>4. PICK m \in 0..n : m \in depths /\ \A k \in depths : m <= k
    <3>1. \E m \in depths : \A k \in depths : m <= k
      BY <2>3, SmallestMember
    <3>. QED
      BY <3>1
  <2>5. PICK h \in K : Tops(m, h)
    BY <2>4
  <2>6. m = 0
    <3>. SUFFICES ASSUME m # 0
                  PROVE  FALSE
      OBVIOUS
    <3>1. m \in 1..n /\ m - 1 \in 0..n /\ (\A i \in ((m - 1) + 1)..n : i = m \/ i \in (m + 1)..n)
      BY SMTT(30)
    <3>2. m - 1 \notin depths
      <4>. HIDE DEF depths
      <4>. QED
        BY <2>4, <3>1, SMTT(30)
    <3>3. CASE s[m] \in K /\ f[h] < f[s[m]]
      <4>1. Tops(m - 1, s[m])
        BY <2>5, <3>1, <3>3, SMTT(30)
      <4>. QED
        BY <3>1, <3>2, <3>3, <4>1
    <3>4. CASE ~(s[m] \in K /\ f[h] < f[s[m]])
      <4>1. Tops(m - 1, h)
        BY <2>5, <3>1, <3>4
      <4>. QED
        BY <2>5, <3>1, <3>2, <4>1
    <3>. QED
      BY <3>3, <3>4
  <2>. QED
    BY <2>1, <2>2, <2>5, <2>6, SMTT(30)
<1>1. ASSUME IngestInv, NEW H \in SUBSET Handler, H # {},
             \A h \in H : handler[h] # NULL /\ \E g \in H : WaitsFor(h, g),
             \A h, g \in H : Agree(Own(h), Own(g))
      PROVE  FALSE
  <2>. DEFINE K == {h \in H : pc(h) \in Storing}
              f == [h \in K |-> Current(h)]
  <2>1. \A h \in H : \E g \in K : WaitsFor(h, g)
    BY <1>1 DEF WaitsFor, WaitsForBatch, WaitsForRow, WaitsForInsert, OwnsBatchKey, OwnsIdentity
  <2>2. K # {}
    BY <1>1, <2>1
  <2>3. IsFiniteSet(Handler) /\ K \in SUBSET Handler
    BY <1>1, OrderAssumption
  <2>4. ASSUME NEW h \in K
        PROVE  /\ AtStatement(handler[h])
               /\ \E g \in K : WaitsForRow(h, g) \/ WaitsForInsert(h, g)
    <3>1. PICK g \in K : WaitsFor(h, g)
      BY <2>1
    <3>2. pc(h) # "insert_batch"
      BY DEF Storing
    <3>3. WaitsForRow(h, g) \/ WaitsForInsert(h, g)
      BY <3>1, <3>2 DEF WaitsFor, WaitsForBatch
    <3>4. handler[h] # NULL
      BY <1>1
    <3>. QED
      BY <3>3, <3>4 DEF WaitsForRow, WaitsForInsert, AtStatement, pc
  <2>5. \A h \in K : Current(h) \in Int
    <3>. TAKE h \in K
    <3>1. handler[h] \in HandlerState /\ WritesHold(handler[h], transactions)
      BY <1>1, InvHandler
    <3>2. Own(h) \in Request /\ handler[h].position \in DOMAIN Own(h).entries
      BY <3>1 DEF Own, HandlerState, WritesHold
    <3>. QED
      BY <3>2, OrderAssumption DEF Current
  <2>6. f \in [K -> Int]
    BY <2>5
  <2>7. PICK h \in K : \A g \in K : ~(f[h] < f[g])
    BY <2>2, <2>3, <2>6, <1>NoEndlessGrowth
  <2>8. PICK g \in K : WaitsForRow(h, g) \/ WaitsForInsert(h, g)
    BY <2>4
  <2>9. Current(h) < Current(g)
    BY <1>1, <2>4, <2>8, <1>WaitsForLater
  <2>. QED
    BY <2>7, <2>9
<1>2. IngestInv => NoWaitCycle
  <2>. HIDE DEF IngestInv
  <2>. QED
    BY <1>1 DEF NoWaitCycle
<1>. QED
  BY <1>2, IngestInvariant, PTL

-----------------------------------------------------------------------------
(* Types *)

(* A handler has no row but those it has locked. *)
OnlyLocked(s) == \A t \in Txn : t \notin s.locked => s.rows[t] = NULL

(* The requests, the acknowledgements and the answers of the handlers are what
   their types say, and a handler has a row for just what it has locked. *)
THEOREM HandlersTyped == Spec => []TypeOK
<1>OnlyLockedKept. ASSUME IngestInv, \A h \in Handler : handler[h] # NULL => OnlyLocked(handler[h]), [Next]_vars
                   PROVE  \A h \in Handler : handler'[h] # NULL => OnlyLocked(handler'[h])
  <2>. USE <1>OnlyLockedKept
  <2>. DEFINE Goal == \A h \in Handler : handler'[h] # NULL => OnlyLocked(handler'[h])
  <2>0. DOMAIN handler = Handler
    BY DEF IngestInv, IngestType
  <2>1. ASSUME NEW h \in Handler, NEW state, handler' = [handler EXCEPT ![h] = state],
               state # NULL => OnlyLocked(state)
        PROVE  Goal
    BY <2>0, <2>1
  <2>2. ASSUME NEW h \in Handler, NEW request, NEW category, NEW ack,
               Respond(h, request, category, ack)
        PROVE  Goal
    BY <2>1, <2>2 DEF Respond
  <2>3. ASSUME NEW h \in Handler, NEW state, Continue(h, state), state # NULL => OnlyLocked(state)
        PROVE  Goal
    BY <2>1, <2>3 DEF Continue
  <2>4. ASSUME NEW h \in Handler, Arrive(h)
        PROVE  Goal
    <3>1. \A call, request, ack : OnlyLocked(Begun(call, request, ack))
      BY DEF OnlyLocked, Begun
    <3>. HIDE DEF Goal
    <3>2. ASSUME NEW request, NEW headers,
                 Refuse(h, request, headers) \/ ClockUnavailable(h, request, headers)
          PROVE  Goal
      BY <2>2, <3>2 DEF Refuse, ClockUnavailable
    <3>3. ASSUME NEW request, NEW headers, NEW receivedAt, NEW result,
                 \/ Process(h, request, headers, receivedAt)
                 \/ Store(h, request, receivedAt, result)
          PROVE  Goal
      BY <2>3, <3>1, <3>3 DEF Process, Store
    <3>. QED
      BY <2>4, <3>2, <3>3 DEF Arrive
  <2>5. ASSUME NEW h \in Handler, handler[h] # NULL, NEW new,
               Continue(h, [handler[h] EXCEPT !.pc = new])
        PROVE  Goal
    <3>1. PICK s : s = handler[h]
      OBVIOUS
    <3>2. s \in HandlerState /\ OnlyLocked(s)
      BY <2>5, <3>1, InvHandler
    <3>3. OnlyLocked([s EXCEPT !.pc = new])
      BY <3>2 DEF OnlyLocked, HandlerState
    <3>. QED
      BY <2>3, <2>5, <3>1, <3>3
  <2>6. ASSUME NEW h \in Handler, ValidateReader(h) \/ FindExistingBatch(h) \/ InsertBatch(h)
        PROVE  Goal
    <3>. HIDE DEF Goal
    <3>1. handler[h] # NULL
      BY <2>6 DEF ValidateReader, FindExistingBatch, InsertBatch, pc
    <3>. QED
      BY <2>2, <2>5, <2>6, <3>1 DEF ValidateReader, FindExistingBatch, InsertBatch, Finish
  <2>7. ASSUME NEW h \in Handler, FindTransaction(h)
        PROVE  Goal
    <3>1. PICK s : s = handler[h]
      OBVIOUS
    <3>2. s # NULL /\ s \in HandlerState /\ OnlyLocked(s)
      BY <2>7, <3>1, InvHandler DEF FindTransaction, pc
    <3>3. PICK view : view = View(h)
      OBVIOUS
    <3>4. PICK found : found = SameIdentity(View(h), Own(h), Entry(h))
      OBVIOUS
    <3>5. PICK new : new = [s EXCEPT !.pc = "write_transaction", !.found = found # {},
                               !.locked = @ \cup found,
                               !.rows = [t \in Txn |-> IF t \in found THEN view[t] ELSE @[t]]]
      OBVIOUS
    <3>6. /\ new.locked = s.locked \cup found
          /\ new.rows = [t \in Txn |-> IF t \in found THEN view[t] ELSE s.rows[t]]
      BY <3>2, <3>5 DEF HandlerState
    <3>7. OnlyLocked(new)
      BY <3>2, <3>6 DEF OnlyLocked
    <3>8. Continue(h, new) \/ Finish(h, "transaction_identity_conflict")
      BY <2>7, <3>1, <3>3, <3>4, <3>5 DEF FindTransaction
    <3>. HIDE DEF Goal
    <3>. QED
      BY <2>2, <2>3, <3>7, <3>8 DEF Finish
  <2>8. ASSUME NEW h \in Handler, WriteTransaction(h)
        PROVE  Goal
    <3>1. PICK s : s = handler[h]
      OBVIOUS
    <3>2. s # NULL /\ s \in HandlerState /\ OnlyLocked(s)
      BY <2>8, <3>1, InvHandler DEF WriteTransaction, pc
    <3>3. ASSUME NEW next, NEW position, NEW t, NEW row
          PROVE  OnlyLocked([s EXCEPT !.pc = next, !.position = position,
                               !.locked = @ \cup {t}, !.rows[t] = row])
      <4>1. PICK new : new = [s EXCEPT !.pc = next, !.position = position,
                               !.locked = @ \cup {t}, !.rows[t] = row]
        OBVIOUS
      <4>2. new.locked = s.locked \cup {t} /\ new.rows = [s.rows EXCEPT ![t] = row]
        BY <3>2, <4>1 DEF HandlerState
      <4>3. OnlyLocked(new)
        BY <3>2, <4>2 DEF OnlyLocked, HandlerState, Rows
      <4>. QED
        BY <4>1, <4>3
    <3>. HIDE DEF Goal
    <3>. QED
      BY <2>2, <2>3, <2>8, <3>1, <3>3 DEF WriteTransaction, Finish
  <2>9. ASSUME NEW h \in Handler, Commit(h) \/ LoadAcknowledgement(h) \/ Fault(h)
        PROVE  Goal
    <3>. HIDE DEF Goal
    <3>. QED
      BY <2>2, <2>3, <2>9 DEF Commit, LoadAcknowledgement, Fault, DatabaseFailure,
                              CommitUnconfirmed, Abandon, Finish
  <2>10. ASSUME RegistryStep \/ UNCHANGED vars
         PROVE  Goal
    <3>1. handler' = handler
      BY <2>10 DEF RegistryStep, vars
    <3>. QED
      BY <3>1
  <2>. HIDE DEF Goal
  <2>11. Goal
    BY <2>4, <2>6, <2>7, <2>8, <2>9, <2>10 DEF Next, Statement
  <2>. QED
    BY <2>11 DEF Goal
<1>. DEFINE Lock == \A h \in Handler : handler[h] # NULL => OnlyLocked(handler[h])
            Answered == reply # NULL => reply.category \in SynchronizationFailureCategory \cup {NULL}
<1>1. Init => Lock /\ Answered
  BY DEF Init
<1>2. IngestInv /\ Lock /\ [Next]_vars => Lock'
  BY <1>OnlyLockedKept
<1>3. Answered /\ [Next]_vars => Answered'
  <2>1. Next => Answered'
    BY Answers DEF OtherCategory, SynchronizationFailureCategory
  <2>. QED
    BY <2>1 DEF vars
<1>4. ASSUME IngestInv, Lock, Answered
      PROVE  TypeOK
  <2>1. ASSUME NEW h \in Handler, handler[h] # NULL
        PROVE  /\ Own(h) \in Request /\ ValidRequest(Own(h))
               /\ ValidAgainstRequest(handler[h].ack, Own(h))
               /\ handler[h].position \in DOMAIN Own(h).entries
               /\ \A t \in Txn : (handler[h].rows[t] # NULL) <=> (t \in handler[h].locked)
    <3>1. PICK s : s = handler[h]
      OBVIOUS
    <3>2. /\ s \in HandlerState /\ ChecksHold(s, batches, equipment)
          /\ WritesHold(s, transactions) /\ OnlyLocked(s)
      BY <1>4, <2>1, <3>1, InvHandler
    <3>3. /\ s.request \in Request /\ ValidRequest(s.request)
          /\ s.ack \in Acknowledgements(s.request) /\ transactions \in Rows
          /\ s.position \in DOMAIN s.request.entries
      BY <1>4, <3>2 DEF HandlerState, ChecksHold, WritesHold, IngestInv, IngestType
    <3>4. ValidAgainstRequest(s.ack, s.request)
      BY <3>3, AcknowledgementFits
    <3>5. \A t \in Txn : (s.rows[t] # NULL) <=> (t \in s.locked)
      BY <3>2, <3>3, LockedFacts DEF OnlyLocked
    <3>. QED
      BY <3>1, <3>3, <3>4, <3>5 DEF Own
  <2>. QED
    BY <1>4, <2>1 DEF TypeOK
<1>. HIDE DEF Lock, Answered
<1>. QED
  BY <1>1, <1>2, <1>3, <1>4, IngestInvariant, PTL DEF Spec

=============================================================================

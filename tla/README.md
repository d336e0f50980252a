# TransitGuard: TLA+ specifications and proofs

TransitGuard takes fares on transit readers that may be offline. A reader
writes each fare transaction to a local SQLite database, groups transactions
into batches, submits the batches over HTTP to the API, and applies the
acknowledgement it gets back. The API stores each batch in PostgreSQL so that
a repeated submission has no further effect. Around this there are the
registry of readers, accounts, fare credentials with their event log, a fare
engine, and telemetry.

This directory holds the specifications of that system, the TLC models that
check them on small instances, and TLAPS proofs for every instance.

## The parts of the system

Files without a directory are under `src/crates/persistence/src`.

| Part | Source | Modules |
| --- | --- | --- |
| Reader queue, batches, acknowledgements | `reader_queue*.rs`, `reader_sync.rs`, `reader_sync_state.rs`, `reader_sync_failure.rs`, `reader_acknowledgement*.rs` | ReaderTables, ReaderStore, ReaderStoreProofs |
| Reader reads and health | `reader_health.rs`, the loaders of the files above | ReaderViews, ReaderViewsProofs, ReportingProofs |
| Reader database binding | `reader_sqlite.rs`, `reader_migrations/` | SyncProtocol (binding and recovery; not the file handling) |
| Request building, submission, transport | `reader_sync_request.rs`, `reader_protocol_acknowledgement.rs`, `apps/reader-simulator/src/synchronization_*.rs` | SyncProtocol, TransactionDelivery, SyncProtocolProofs, SyncProtocolTheorems |
| Messages and fingerprints | `crates/device-protocol/src` | SyncMessages, Fingerprints |
| API endpoint and service, PostgreSQL ingest | `apps/api/src`, `repositories/synchronization_ingest.rs`, `synchronization_ingest_record.rs` | IngestTables, BackendIngest, IdempotentIngest, BackendIngestProofs |
| Reader equipment | `crates/domain/src/equipment.rs`, `repositories/reader_equipment.rs` | EquipmentRegistry, ComponentsProofs |
| Transit accounts, money | `crates/domain/src/account.rs`, `money.rs`, `repositories/transit_account.rs` | Money, TransitAccounts, ComponentsProofs |
| Fare credentials, use cases, events | `crates/application/src`, `crates/domain/src/credential.rs`, `event.rs`, `repositories/fare_credential.rs`, `domain_event.rs`, `transaction.rs` | FareCredentials, DomainEvents, CredentialLifecycle, CredentialLifecycleProofs |
| Fare transactions | `crates/domain/src/transaction.rs` | FareTransactions, ComponentsProofs |
| Fare engine | `crates/fare-engine/src` | FareEngine, FareRules, ComponentsProofs |
| Simulated reader | `apps/reader-simulator/src/lib.rs`, `scenario.rs`, `fare_processing.rs` | ReaderSimulator |
| Telemetry | `crates/telemetry/src/lib.rs` | Telemetry, ReportingProofs |

`PROJECT.json` maps each definition to its source lines. A module `MCx` gives
TLC the values of constants that a `.cfg` file cannot write. `Absent`,
`Versions` and `Eligibilities` declare the constants `NULL`, `MaxVersion` and
`Eligibility` that several modules share.

A module that has a property may open with wrong versions of some of its
definitions: a dropped guard, a missing reset, a swapped order. They serve to
confirm that each property can fail. No specification uses them.

## How the modules correspond to the code

### The reader store: ReaderTables, ReaderStore

The SQLite pool has one connection and every store operation is one
transaction. So an operation is one atomic action named after the Rust
function, and an operation that returns an error changes nothing. The store
has no clock: the caller supplies every timestamp, and nothing makes the
timestamps of successive calls grow. Every update of a row demands
`updated_at <= now`, so time is part of the guards.

- A batch is a set of entries. The code orders them by local sequence number,
  so the set determines `entry_position` and the sequence range.
- Payloads and failure categories are left out: no decision of the store
  depends on them.
- Replays of a stored or an applied acknowledgement return early, so they
  are steps that leave the state alone.
- The mark that `contiguous_resolved_sequence` computes in a loop is stated
  as the unique number where the run of resolved rows ends.

Three specifications share the actions. `StoreSpec` is the whole public interface,
called in any order. `BatchSpec` has the batch operations and the two
recoveries, which are the ones the reader application uses. `PipelineSpec`
adds the single-row operations for transactions outside every active batch,
a restriction the store does not enforce.

### Reading back: ReaderViews

ReaderViews extends ReaderStore with the columns that only reads use, the
decoders that check columns against each other, the reports, the loaders of
ready work and the health snapshot. A read that can fail is the set of its
results; the empty set is its error. The same convention serves for fallible
methods in the domain modules.

### The ingest: IngestTables, BackendIngest, IdempotentIngest

A handler checks headers, size and content of a request, then runs the
transaction of `synchronization_ingest.rs` with one step per SQL statement.
Statements see committed rows and the handler's own (READ COMMITTED). What a
handler has written stays in its record until it commits. Locks follow from
where a handler is: FOR SHARE on its reader, the unique keys it has inserted,
and the rows it has selected FOR UPDATE. A database failure, a commit whose
confirmation is lost, and an abandoned request may happen at any statement.
EquipmentRegistry is composed in: its sessions change readers meanwhile, and
wait for the FOR SHARE locks of handlers.

IdempotentIngest is the abstract specification: a batch enters the tables in
one step with all its entries, once, and only when no identity in it is in use
for something else.

### The whole synchronization: SyncProtocol, TransactionDelivery

The reader process runs submissions over ReaderStore, with one step per
transaction of the store. The wire holds requests not yet handled. The request
of a client that timed out stays on the wire and may be handled at any later
time; its answer goes nowhere. The process may stop at any step and restarts
with its database, possibly under another software version. The backend is
one step per request, because BackendIngest implements IdempotentIngest.

Something between the two may answer in the place of the backend: a proxy, a
load balancer, or the router of the API before its handler runs. Such an answer
has no envelope of the API, and `FallbackStatusCategory` takes its category from the
HTTP status alone (`AnsweredInBetween`). The backend may handle the request all the
same, before or after. A status like 404 or 413, or a body that is too large,
counts as a final refusal; the history variable `intercepted` remembers the batches
that got one.

A request is built from what the database holds, and the constructors of the
protocol check it then: the number of entries, the size and the JSON type of each
envelope, and the identity texts. The queue and the binding accept more than
the protocol does. Texts are taken as trimmed.

TransactionDelivery is the abstract specification, with no batches, messages,
retries or crashes: the backend takes each recorded transaction at most once
under the reader's sequence, and the reader closes a transaction only in
accordance with what the backend has. The exception is a transaction in `misled`,
whose batch was refused by something other than the backend: it may be given up
although it is delivered, or delivered after it was given up.

### Messages: SyncMessages, Fingerprints

A message is a record with the fields of the Rust type, and its validation is
a predicate. SyncMessages takes a fingerprint as the record of the hashed
fields. Fingerprints checks that abstraction: it builds the bytes that are
hashed, length prefixes included, and their hexadecimal text. SHA-256 is
external and taken to be injective. Integers take two bytes instead of eight.

### Aggregates and repositories

EquipmentRegistry, TransitAccounts and CredentialLifecycle share one shape.
Callers load an aggregate, call its methods, and save it if the stored version
is still the loaded one. CredentialLifecycle models the use cases as units of
work. The reads of a unit are one action, since no read follows the first
write. Each writing statement and the commit are steps of their own, and a
write waits for a unit that holds the same key. A unit may fail at any
statement, and PostgreSQL's deadlock detector ends one unit of a cycle.
`DirectCredential` names the credentials that callers of the bare repository
save too, and `ChangingAccount` the accounts that other callers change.

### Fares: FareEngine, FareRules, ReaderSimulator, FareTransactions

FareEngine holds the rules as pure operators. FareRules evaluates one input
online and offline and compares the result with a reference formula.
ReaderSimulator is the reader's lifecycle with taps, connectivity changes and
scenarios of several actions. The histories a tap is evaluated with belong to
the caller in the code; the model's caller is one rider who records what was
charged, and `reached` keeps the approved fares of the day that reported the daily
cap as reached. FareTransactions is the record of a tap with its one authoritative
decision. No code connects a tap to a FareTransaction, so they are separate
modules.

### Telemetry

Each increment and each load of a counter is one step, because they are
separate relaxed atomic operations. Any number of health requests load at once.

## Runs

Every run is TLC on one `.cfg`. The number of distinct states is given with each.

### Reader store

- **`StoreAnyCall.cfg`** (`ViewSpec`, 223,319 states): whatever is called in
  whatever order. `SequenceAllocation`, `HighWaterMarkSound`, `OneActiveBatch`,
  `AppliedMeansAcknowledged`, `FinalStatesStay`; `StoredRowsLoad` (what is stored
  can be read back), `HealthAddsUp` (the snapshot accounts for every sequence, the
  reports for every acknowledged transaction once), `NoPendingWorkIsRest`.
- **`StoreBatches.cfg`** (`BatchViewSpec`, 410,101 states): the operations that the
  reader application uses, with two times. `InFlightIsReserved`,
  `AttemptsAccounted` and `RequestStable`: nothing is stranded, the attempt
  counters agree, a retry rebuilds the same request. `ReadyIsUsable`: what is
  listed as ready can be submitted or put into a batch.

Two transactions and two batches let a transaction be in a finished batch and
in an active one, let batches finish out of order, and give mixed outcomes. Two
attempts are one retry. Two times let a timestamp go backwards and a retry be
not yet due. `StoreAnyCall` has one time because the wider interface has many
more states; the proofs cover its properties for any set of times.
`MaxSequence` stands for the largest 64-bit integer; two transactions do not
reach it, so what happens at the end of the sequence space is covered by
`SequencesAllocated` alone. Transactions and batches are symmetric.

### Ingest

- **`Ingest.cfg`** (142,681 states): two handlers, each with any request of a set
  that retries, overlaps and contradicts, two receipt times and faults at every
  statement. `ImplementsIngest`, `AcknowledgedIsStored`, `ConflictsAreReal`,
  `NewestResolution`, `NoWaitCycle`.
- **`IngestReaders.cfg`** (90,690 states): a registry session inserts a reader in
  any state and changes it while its batches are stored, with every kind of refusal.
  `StoredWhileOperational`, `EveryRequestAnswered`.

Two handlers are enough for every race of two statements; each may carry any
request, so retries and overlaps occur in both orders. Requests with two
entries let two handlers want two rows in opposite orders, which the code
avoids by sorting. Bounds that stand for the code's limits: `MaxEntries` 2 for
256 entries, `MaxRequestBytes` for the body limit, `MaxVersion` for the versions
a session reaches. With `MaxVersion` 2 a reader changes once in `IngestReaders`: it
is not disabled and enabled again. The theorem has no such bound.

### Synchronization

- **`SyncDelivery.cfg`** (1,059,210 states): two batches, restarts under another
  software version, lost answers, late requests, answers of a gateway; both
  transactions together exceed the size limit. `ImplementsDelivery`, and
  `NoFalseConflict`: the backend has no reason to refuse what arrives as invalid or
  as a conflict. The reader can still record a conflict when a gateway answers 409.
- **`SyncClocks.cfg`** (1,030,090 states): two submissions of one batch in one process
  (the case the API allows and no code prevents), with clocks of reader and
  backend that differ. `AcknowledgementIsCommitted`: a replay never contradicts
  the acknowledgement that is stored.
- **`SyncLoading.cfg`** (105,370 states): limits above the entries of a request, an
  envelope that is no JSON object, and a software version that the protocol
  refuses. `InFlightBatchLoads`: a batch in flight can be turned into a request
  exactly if it is within the protocol, so a batch beyond it stays in flight
  until the next recovery and can never be submitted, and nothing else makes a
  batch unreadable. `SubmissionsEnd`.
- **`SyncInterrupted.cfg`**: the finding below.

The bound on attempts gives a retry after each kind of failure. `Statuses` has one
HTTP status for each category that a gateway's answer can get.

### Credentials

- **`Credentials.cfg`** (221,725 states): two units of work on two credentials, one of
  which is also saved through the bare repository, while the account changes.
  `EventLogExact`, `StoredCredentialLoads`, `TerminalCredentialForever`. Units are
  symmetric.
- **`CredentialUnits.cfg`** (69,178 states): two accounts and colliding identities.
  `SuccessorRecorded`, `UnitsEnd`.

`MaxVersion` 3 lets a credential be issued, activated and replaced or revoked.
Deadlock is not checked: when every credential is in a terminal state nothing
is left to do.

### Other components

- **`Components.cfg`** (1,369,576 states): EquipmentRegistry, TransitAccounts,
  FareTransactions and Telemetry. They share no variable, so the run follows each
  one alone. `TerminalForever`, `BalanceConserved`, `DecisionFinal`,
  `QuietIsConsistent`, `SnapshotsAreCurrent`. Two sessions load, change and save one
  reader or one account, with balances at the limit (`MaxUnits` 3 for the largest
  i64). There are two account identities and two currencies, but one rider, who has
  one account at a time. Two handlers increment the counters of two requests while
  one health request loads them. Further invariants of these components are
  proved without a run.
- **`Algorithms.cfg`** (859,150 states): FareRules, ReaderSimulator and Fingerprints,
  likewise one at a time. `ChargeIsReference`, `EvidenceAddsUp` and
  `OfflineIsStricter`, for each policy and input of a set that reaches caps,
  transfers, products, other currencies, stale policies and revocation data, and the
  largest amount (`MaxUnits` 8). `ReportFaithful` and `CapsHold`, over several days,
  up to the end of the sequence space (`MaxSequence` 4). `TextExact`: the fingerprints
  tell apart exactly what SyncMessages says, and their texts parse back. Deadlock is
  not checked, since one evaluation is the whole behaviour.

## Fairness

- **BackendIngest**: strong fairness of each handler's statements. The runtime
  polls the handler. A statement that waits for a lock is enabled again and
  again while others take and release it; PostgreSQL queues requests in
  order, so it is served. Faults and arrivals are not fair.
- **SyncProtocol**: weak fairness of each submission's progress. The HTTP client has
  a request timeout, so giving up is always possible. The backend, the network and
  new calls are not fair.
- **CredentialLifecycle**: strong fairness of statements for the same reason, weak
  fairness of commits and of the deadlock detector.

There is no end-to-end liveness ("each transaction is delivered at some
time"). No code in the repository drives retries: nothing calls the
submission in a loop, so no fairness of the code would justify it.

## Finding

**`StoredAcknowledgementApplicable`** (`SyncInterrupted.cfg`).
`docs/development/backend-synchronization.md:55` says a stored acknowledgement
can be applied after a restart. When the retry in between is refused, the batch
moves to manual review, and the application is refused.

## Observations

The model also shows these behaviours, which differ from the wording of a
comment or a document. No run is kept for them.

- `docs/development/reader-offline-storage.md:317` describes
  `last_acknowledged_sequence` as the highest contiguous final sequence and counts
  `permanent_failure` as final. The failure operations make rows final without
  moving the mark, so it can lag. It is never too high (`HighWaterMarkSound`).
- `synchronization_service.rs:105` says identical retries return the original
  acknowledgement. The reader is validated first, so the retry of a stored batch
  is refused once the reader was disabled.
- `issue_fare_credential.rs:86` says credentials are issued for an active account.
  The account is read without a lock, so it can be suspended before the commit.
- `telemetry/src/lib.rs:195` promises a consistent snapshot. Counters are
  incremented and loaded one at a time, so totals can disagree with their details.
  Health requests overlap, so an answer that arrives later can show smaller values.
  What holds is `SnapshotsAreCurrent`.
- `docs/development/reader-offline-storage.md:186` says a permanent failure means that
  the backend returned a final outcome. The status of a gateway's answer is enough:
  after a 404 in between, a transaction that the backend has stored, or is about to
  store, is recorded as failed for good.
- `evaluation.rs:238` says `daily_cap_reached` tells whether the daily cap has been
  reached. It is computed before a product is applied. A fare that a product covers
  can report it with nothing charged, and the policy charges the next fare.
  `CapsHold` therefore speaks of fares paid from stored value.
- `reader_health.rs:194` says `has_pending_work` tells whether durable work remains.
  A batch that fails finally after its acknowledgement was stored keeps it true
  for ever.

## Theorems

The proofs assume only what the named assumptions of the modules say:

- the typing of constants (`ConstantsAssumption`, `IngestAssumption`,
  `RegistryAssumption`, `AccountsAssumption`, `TransactionsAssumption`,
  `FareEngineAssumption`);
- NULL is no row, request, identity or category (`NullAssumption`,
  `RowAssumption`, `AccountRowAssumption`, `FareTransactionAssumption`,
  `CategoryAssumption`, `CredentialAssumption`, `SyncAssumption`);
- sequences in requests are integers, and finitely many requests are handled at
  a time (`OrderAssumption`);
- outcomes, categories and handlers are finitely many, and no outcome is also a
  category or a total, since each has a counter of its own (`TelemetryAssumption`).

TLC evaluates each of them in a run. The theorems hold for any sets of
transactions, batches, handlers, sessions and readers, any times and any limits.

### ReaderStoreProofs

| Theorem | Statement |
| --- | --- |
| `TypeCorrect` | `StoreSpec => []StoreTypeOK` |
| `HighWaterMarkCorrect` | `StoreSpec => []HighWaterMarkSound` |
| `SequencesAllocated` | `StoreSpec => []SequenceAllocation` |
| `BatchesExclusive` | `StoreSpec => []OneActiveBatch` |
| `AcknowledgementsCorrect` | `StoreSpec => []AcknowledgedHasEvidence` |
| `ApplicationsComplete` | `StoreSpec => []AppliedMeansAcknowledged` |
| `SubmissionsTimed` | `StoreSpec => []SubmissionTimed` |
| `FinalStatesPermanent` | `StoreSpec => FinalStatesStay` |
| `RequestsStable` | `StoreSpec => RequestStable` |
| `ReservationCorrect` | `PipelineSpec => []ActiveEntriesInFlight` |
| `NothingStranded` | `BatchSpec => []InFlightIsReserved` |

All but the last two rest on one inductive invariant, `StoreInd`: the type
invariant, `SubmissionTimed` and the five safety invariants. They need each
other. For example, an acknowledged row keeps its evidence only because an
applied acknowledgement is never replaced, which is part of
`AppliedMeansAcknowledged`. Each operation has a lemma that says what it does
to rows, batches and acknowledgements. Most operations are then one kind of
step for which `StoreInd` is proved once; enqueue, batch creation, and storing and
applying an acknowledgement have an argument of their own.
`ReservationCorrect` adds `ActiveEntriesInFlight` to `StoreInd`, and `OneActiveBatch`
makes it inductive: closing one batch cannot disturb the entries of another.
`NothingStranded` adds the converse.

### BackendIngestProofs

| Theorem | Statement |
| --- | --- |
| `IngestImplemented` | `Spec => ImplementsIngest`: BackendIngest refines IdempotentIngest |
| `AcknowledgedAlwaysStored` | `Spec => []AcknowledgedIsStored` |
| `BatchesStoredWhileOperational` | `Spec => StoredWhileOperational` |
| `ConflictsAlwaysReal` | `Spec => []ConflictsAreReal` |
| `ResolutionAlwaysNewest` | `Spec => []NewestResolution` |
| `WaitsAlwaysEnd` | `Spec => []NoWaitCycle` |
| `HandlersTyped` | `Spec => []TypeOK` |

The inductive invariant `IngestInv` says what a handler relies on between two
of its statements:

- the checks it passed still hold (`ChecksHold`): its reader is operational
  because it is locked, and its batch is not stored because it holds the key;
- what it has written is what the committed rows still call for
  (`WritesHold`), because each row it selected or wrote is its own;
- two handlers that are storing have different batches, disjoint rows and
  different sequences (`Separate`);
- each stored batch has all its entry rows (`HasEntries`), and no two
  transactions share a sequence.

From this a commit is one step of IdempotentIngest, and every other step
leaves the tables alone.

The later theorems add to this invariant:

- `ConflictsAlwaysReal`: a handler compares with committed rows and its own, and
  its own rows agree with its request because the entries of a valid request
  have different identities.
- `ResolutionAlwaysNewest` (`Newest`): a committed row carries the outcome of the
  latest receipt among its entry rows. A commit writes at most one entry row of
  a transaction, and the row it locked is compared with that entry alone.
- `WaitsAlwaysEnd`: a handler that waits is at the sequence of an entry that the
  other has already written, and the other is at a later sequence
  (`WaitsForLater`). Since handlers are finitely many, some waiting handler is at
  the largest sequence, and the one it waits for does not wait in the circle.
- `HandlersTyped`: a handler holds rows of exactly the transactions it has locked.

### SyncProtocolProofs, SyncProtocolTheorems

| Theorem | Statement |
| --- | --- |
| `AcknowledgementIsCommittedHolds` | `Spec => []AcknowledgementIsCommitted` |
| `NoFalseConflictHolds` | `Spec => []NoFalseConflict` |
| `ImplementsDeliveryHolds` | `Spec => ImplementsDelivery`: SyncProtocol refines TransactionDelivery |
| `InFlightBatchLoadsHolds` | `Spec => []InFlightBatchLoads` |

The idea is that a batch stands for one request from its first submission on.
The inductive invariant `SyncInd` has these parts:

- the store is as `StoreInd` and `ActiveEntriesInFlight` say, no two batches
  share a transaction, since the backend accepts every entry, and a transaction
  fails for good only with its batch (`QueueInd`);
- a running reader is bound to an identity, and no batch exists before that
  (`BindingOK`);
- each submission and each request on the wire, late ones included, carries
  the request that its batch is built into now (`TasksOK`, `WireOK`);
- each row of the backend stems from that request, and an answer on its way to
  the store is the acknowledgement committed with it (`BackendOK`);
- a stored acknowledgement is the committed one (`AcknowledgementIsCommitted`);
- a batch that failed for good was too large to leave the reader, so its
  transactions are not at the backend, or it is one of the `intercepted`
  (`FailuresExplained`); these only grow (`Intercepts`).

SyncProtocolProofs has the lemmas about requests and the queue, and one lemma per
action. They take for granted that `InOrder` lists the entries of a batch
(`RequestsListed`). SyncProtocolTheorems shows this first, since entries are
finitely many and have different sequences. It then has the invariant, the
refinement step by step, and the theorems. An answer of a gateway is a step of
TransactionDelivery of its own (`Mislead`). `NoFalseConflictHolds` follows from the
parts about the wire and the rows of the backend: a request that arrives is the one
the rows stem from. `InFlightBatchLoadsHolds` shows that in flight the checks of
the constructors come down to the three that the store does not make; any batch
limit of the callers is allowed.

### CredentialLifecycleProofs

| Theorem | Statement |
| --- | --- |
| `StoredCredentialLoadsHolds` | `Spec => []StoredCredentialLoads` |
| `EventLogExactHolds` | `Spec => []EventLogExact` |
| `SuccessorRecordedHolds` | `Spec => []SuccessorRecorded` |
| `TerminalCredentialForeverHolds` | `Spec => TerminalCredentialForever` |
| `CredentialTypesHold` | `Spec => []TypeOK` |

The inductive invariant `CredentialInd` describes a unit of work by the rows and
events it writes in all, executed or still planned (`IntentOK`): each row has its
event, a replaced row has its new successor, and each row follows from the
stored one if that still has the version the unit read. What is already written
holds its keys (`WrittenOK`), so the version is still that one, and two open
units hold no common key (`Apart`). A commit therefore extends the event log by the
next version, and adds to the successors a credential that did not exist
before, so they form no circle.

### ComponentsProofs

| Theorem | Statement |
| --- | --- |
| `RegistryTypesHold` | `RegistrySpec => []RegistryTypeOK` |
| `StoredEquipmentAlwaysLoads` | `RegistrySpec => []StoredEquipmentLoads` |
| `TerminalEquipmentForever` | `RegistrySpec => TerminalForever` |
| `StoredAccountAlwaysLoads` | `AccountsSpec => []StoredAccountLoads` |
| `BalanceAlwaysConserved` | `AccountsSpec => BalanceConserved` |
| `ClosedAccountForever` | `AccountsSpec => ClosedForever` |
| `AcceptedAlwaysStored` | `TransactionsSpec => []AcceptedIsStored` |
| `StatusAlwaysMatches` | `TransactionsSpec => []StatusMatchesDecision` |
| `DecisionsFinal` | `TransactionsSpec => DecisionFinal` |
| `ChargeAlwaysReference` | `RulesSpec => []ChargeIsReference` |
| `EvidenceAlwaysAddsUp` | `RulesSpec => []EvidenceAddsUp` |
| `OfflineAlwaysStricter` | `RulesSpec => []OfflineIsStricter` |

`RegistryInv` and `AccountsInv` relate a session to the row it loaded: while the
stored version is still the loaded one, the aggregate of the session follows
from the stored aggregate by calls of its methods. A save under another
version is refused, so a stale copy never replaces a row. `TransactionsInv`
joins the two invariants of FareTransactions with its types.

The fare theorems hold for every policy and input that the types admit, with
the real range of amounts. Each stage of an evaluation is given a closed form
in units (`DiscountedFareIs`, `ApplyTransferIs`, `ApplyFareCapsIs`,
`ApplyTransitProductIs`, `OutcomesIs`): on a valid input it yields exactly one
result, with no subtraction out of range. `EvaluateFareIs` composes them, so the
result is one record (`EvidenceOf`) or, on the documented inputs, an error. The three
theorems read their statements off this record; the products and quotients
of the discount are bounded by `NatProduct` and `QuotientBound`.

### ReaderViewsProofs

| Theorem | Statement |
| --- | --- |
| `ViewsRefineStore` | `ViewSpec => StoreSpec` |
| `BatchViewsRefineStore` | `BatchViewSpec => BatchSpec /\ ViewSpec` |
| `StoredRowsAlwaysLoad` | `ViewSpec => []StoredRowsLoad` |
| `ReadyAlwaysUsable` | `BatchViewSpec => []ReadyIsUsable` |

By `ViewsRefineStore` the theorems of the store hold of the views. `ViewInd` adds what
the decoders check of columns that only reads use: the reader's row, a queue row and
a batch were not created after they were updated, a batch names the least and the
greatest sequence of its entries, and no retry precedes the receipt of its
acknowledgement. Finitely many batches are stored, so they can be counted.
`ReadyAlwaysUsable` needs besides that a row of an active batch was not updated later
than the batch (`EntriesNotLater`).

### ReportingProofs

| Theorem | Statement |
| --- | --- |
| `SnapshotsAlwaysCurrent` | `TelemetrySpec => []SnapshotsAreCurrent` |
| `QuietAlwaysConsistent` | `TelemetrySpec => []QuietIsConsistent` |
| `HealthAlwaysAddsUp` | `ViewSpec => []HealthAddsUp` |
| `NoPendingWorkRests` | `ViewSpec => NoPendingWorkIsRest` |
| `AttemptsAlwaysAccounted` | `BatchViewSpec => []AttemptsAccounted` |

These are the theorems that count and add. The module opens with sums over finite
sets: a sum exists, and changes by the difference when one summand changes. There is
no induction rule the provers can apply, so a counterexample of least cardinality is
taken instead (`LeastSet`).

- `TelemetryInv` orders three values of each counter for each health request under
  way: at its beginning, as loaded by it, and now. If the first is already all that
  was ever recorded, the three are equal.
- `QuietAlwaysConsistent` needs to know what is still missing: a counter and the
  increments that handlers have still to make come to a value whose totals are the
  sums of their details (`RecordingInv`).
- `HealthAlwaysAddsUp`: the states part the queue, and sequence numbers count it.
  An acknowledged transaction is counted by the report of exactly one applied
  batch (`CreditedOnce`), so the sum of the reports is the size of a disjoint union.
- `NoPendingWorkRests`: without pending work no row and no batch is in a state that
  any operation but an enqueue accepts.
- `AttemptsAlwaysAccounted`: the batches that ever carried a transaction only grow, and
  a submission raises the counters of one batch and of its entries together.

### Only model-checked

- Liveness (`EveryRequestAnswered`, `SubmissionsEnd`, `UnitsEnd`): it needs fairness
  and `ENABLED`, which the provers do not handle.
- `ReportFaithful` and `CapsHold` of ReaderSimulator: they sum over the report of
  a scenario, a sequence of any length, and need induction over it.
- `TextExact`: the byte strings of Fingerprints are built by recursion over
  their fields.

## Not modelled

- `codec.rs`: tables between enumeration values and column texts. JSON
  encoding, identifiers and their parsing. They are taken as exact.
- `config.rs`, `error.rs`, `postgres.rs`: connection setup and error types.
- Opening the SQLite file, pragmas, and running migrations: I/O. The tables
  the migrations create are the row types of ReaderTables.
- HTTP routing, server start, health endpoints, reading a body in chunks.
- The demo scenario and its printing; the presentation types of the device
  protocol.
- The worker and the reconciliation, security and config crates: nothing is
  implemented there.
- Two error paths that no input reaches: a response too large for a valid
  acknowledgement within the entry limit, and a failed zone translation.

When a clock goes back, a row updated later blocks batch creation, and
recovery skips a batch updated later. The model has both guards. No code or
document promises progress in that case, so there is no property for it.

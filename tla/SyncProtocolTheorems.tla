------------------------ MODULE SyncProtocolTheorems ------------------------
(***************************************************************************)
(* Every step keeps the inductive invariant SyncInd of SyncProtocolProofs; *)
(* and what follows from it: the stored acknowledgements are the committed *)
(* ones, no retry is answered with a conflict, batches can be loaded, and  *)
(* the protocol implements TransactionDelivery.                            *)
(***************************************************************************)
EXTENDS SyncProtocolProofs, FiniteSetTheorems

(* Zenon proves the leaves that cite no other prover. *)
USE ZenonT(30)

-----------------------------------------------------------------------------
(* Elements in the order of their sequences *)

(* How many elements of S come before t. *)
Rank(S, sequence, t) == Cardinality({u \in S : sequence[u] < sequence[t]})

(* The rank is a number below the size of the set, and grows with the sequence. *)
LEMMA RankGrows ==
    ASSUME NEW S, IsFiniteSet(S), NEW sequence \in [S -> Nat],
           NEW t \in S
    PROVE  /\ Rank(S, sequence, t) \in 0..(Cardinality(S) - 1)
           /\ \A u \in S : sequence[u] < sequence[t] =>
                Rank(S, sequence, u) < Rank(S, sequence, t)
<1>. DEFINE Before(x) == {u \in S : sequence[u] < sequence[x]}
<1>1. \A x \in S : IsFiniteSet(Before(x)) /\ Cardinality(Before(x)) \in Nat
  BY FS_Subset, FS_CardinalityType
<1>2. Cardinality(Before(t)) < Cardinality(S)
  <2>1. Before(t) \in SUBSET S /\ Before(t) # S
    <3>1. t \notin Before(t)
      BY SMTT(30)
    <3>. QED
      BY <3>1
  <2>2. /\ Cardinality(Before(t)) <= Cardinality(S)
        /\ Cardinality(S) = Cardinality(Before(t)) => S = Before(t)
    BY <2>1, FS_Subset
  <2>. HIDE DEF Before
  <2>. QED
    BY <1>1, <2>1, <2>2, FS_CardinalityType, SMTT(30)
<1>3. ASSUME NEW u \in S, sequence[u] < sequence[t]
      PROVE  Cardinality(Before(u)) < Cardinality(Before(t))
  <2>1. Before(u) \in SUBSET Before(t)
    BY <1>3, SMTT(30)
  <2>2. u \in Before(t) /\ u \notin Before(u)
    BY <1>3, SMTT(30)
  <2>3. Before(u) # Before(t)
    BY <2>2
  <2>. HIDE DEF Before
  <2>4. /\ Cardinality(Before(u)) <= Cardinality(Before(t))
        /\ Cardinality(Before(t)) = Cardinality(Before(u)) => Before(t) = Before(u)
    BY <1>1, <2>1, FS_Subset
  <2>. QED
    BY <1>1, <2>3, <2>4, SMTT(30)
<1>. QED
  BY <1>1, <1>2, <1>3, FS_CardinalityType, SMTT(30) DEF Rank

(* With distinct sequences every position is taken by exactly one element. *)
LEMMA RankIsPosition ==
    ASSUME NEW S, IsFiniteSet(S), NEW sequence \in Injection(S, Nat)
    PROVE  /\ \A t, u \in S :
                Rank(S, sequence, t) = Rank(S, sequence, u) => t = u
           /\ \A i \in 0..(Cardinality(S) - 1) :
                \E t \in S : Rank(S, sequence, t) = i
<1>1. /\ sequence \in [S -> Nat]
      /\ \A t, u \in S : sequence[t] = sequence[u] => t = u
  BY DEF Injection, IsInjective
<1>2. \A t \in S :
        /\ Rank(S, sequence, t) \in 0..(Cardinality(S) - 1)
        /\ \A u \in S : sequence[u] < sequence[t] =>
             Rank(S, sequence, u) < Rank(S, sequence, t)
  BY <1>1, RankGrows
<1>3. ASSUME NEW t \in S, NEW u \in S, Rank(S, sequence, t) = Rank(S, sequence, u)
      PROVE  t = u
  <2>1. ~(sequence[t] < sequence[u]) /\ ~(sequence[u] < sequence[t])
    BY <1>2, <1>3, SMTT(30)
  <2>2. sequence[t] \in Nat /\ sequence[u] \in Nat
    BY <1>1
  <2>. QED
    BY <1>1, <2>1, <2>2, SMTT(30)
<1>. DEFINE n == Cardinality(S)
            rank == [t \in S |-> Rank(S, sequence, t)]
<1>4. n \in Nat
  BY FS_CardinalityType
<1>5. rank \in Injection(S, 0..(n - 1))
  BY <1>2, <1>3 DEF Injection, IsInjective
<1>6. IsFiniteSet(0..(n - 1)) /\ Cardinality(0..(n - 1)) = n
  BY <1>4, FS_Interval, SMTT(30)
<1>7. rank \in Surjection(S, 0..(n - 1))
  <2>. HIDE DEF rank, n
  <2>. QED
    BY <1>5, <1>6, FS_Injection DEF n
<1>8. \A i \in 0..(n - 1) : \E t \in S : Rank(S, sequence, t) = i
  BY <1>7 DEF Surjection
<1>. QED
  BY <1>3, <1>8

(* InOrder lists the set by its sequences. *)
LEMMA InOrderLists ==
    ASSUME NEW S, IsFiniteSet(S), NEW sequence \in Injection(S, Nat)
    PROVE  LET order == InOrder(sequence) IN
           /\ order \in [1..Cardinality(S) -> S]
           /\ \A t \in S : \E i \in 1..Cardinality(S) : order[i] = t
           /\ \A i, j \in 1..Cardinality(S) :
                i < j => sequence[order[i]] < sequence[order[j]]
<1>. DEFINE n == Cardinality(S)
            order == [i \in 1..n |-> CHOOSE t \in S : Rank(S, sequence, t) = i - 1]
<1>1. InOrder(sequence) = order
  <2>1. DOMAIN sequence = S
    BY DEF Injection
  <2>. QED
    BY <2>1, SMTT(30) DEF InOrder, Rank
<1>2. n \in Nat
  BY FS_CardinalityType
<1>3. \A i \in 1..n : order[i] \in S /\ Rank(S, sequence, order[i]) = i - 1
  <2>. SUFFICES ASSUME NEW i \in 1..n
                PROVE  order[i] \in S /\ Rank(S, sequence, order[i]) = i - 1
    OBVIOUS
  <2>1. \E t \in S : Rank(S, sequence, t) = i - 1
    BY <1>2, RankIsPosition, SMTT(30)
  <2>. QED
    BY <2>1
<1>4. order \in [1..n -> S]
  BY <1>3
<1>5. \A t \in S : \E i \in 1..n : order[i] = t
  <2>. SUFFICES ASSUME NEW t \in S
                PROVE  \E i \in 1..n : order[i] = t
    OBVIOUS
  <2>1. Rank(S, sequence, t) \in 0..(n - 1)
    BY RankGrows DEF Injection
  <2>. DEFINE i == Rank(S, sequence, t) + 1
  <2>2. i \in 1..n /\ i - 1 = Rank(S, sequence, t)
    BY <1>2, <2>1, SMTT(30)
  <2>. HIDE DEF i, order, n
  <2>3. order[i] \in S /\ Rank(S, sequence, order[i]) = Rank(S, sequence, t)
    BY <1>3, <2>2
  <2>4. order[i] = t
    BY <2>3, RankIsPosition
  <2>. QED
    BY <2>2, <2>4
<1>6. ASSUME NEW i \in 1..n, NEW j \in 1..n, i < j
      PROVE  sequence[order[i]] < sequence[order[j]]
  <2>. HIDE DEF order, n
  <2>1. /\ order[i] \in S /\ Rank(S, sequence, order[i]) = i - 1
        /\ order[j] \in S /\ Rank(S, sequence, order[j]) = j - 1
    BY <1>3
  <2>2. sequence \in [S -> Nat]
    BY DEF Injection
  <2>3. ~(sequence[order[j]] < sequence[order[i]])
    BY <1>2, <1>6, <2>1, <2>2, RankGrows, SMTT(30)
  <2>4. order[i] # order[j]
    BY <1>2, <1>6, <2>1, SMTT(30)
  <2>5. sequence[order[i]] # sequence[order[j]]
    BY <2>1, <2>4 DEF Injection, IsInjective
  <2>. QED
    BY <2>1, <2>2, <2>3, <2>5, SMTT(30)
<1>. QED
  BY <1>1, <1>4, <1>5, <1>6

LEMMA EntriesFinite ==
    ASSUME QueueInd, NEW b \in Batch, batch[b] # NULL
    PROVE  IsFiniteSet(batch[b].entries)
<1>. DEFINE S == batch[b].entries
            sequence == [t \in S |-> txn[t].sequence]
<1>1. sequence \in Injection(S, 1..MaxSequence)
  BY EntrySequences
<1>2. IsFiniteSet(1..MaxSequence)
  BY ConstantsAssumption, FS_Interval, SMTT(30)
<1>. HIDE DEF S, sequence
<1>3. IsFiniteSet(S)
  BY <1>1, <1>2, FS_Injection
<1>. QED
  BY <1>3 DEF S

LEMMA RequestsAreListed ==
    ASSUME QueueInd
    PROVE  RequestsListed
<1>. SUFFICES ASSUME NEW b \in Batch, batch[b] # NULL
              PROVE  LET S == batch[b].entries
                         order == InOrder([t \in S |-> txn[t].sequence])
                     IN  /\ \A i \in DOMAIN order : order[i] \in S
                         /\ \A t \in S : \E i \in DOMAIN order : order[i] = t
  BY DEF RequestsListed
<1>. DEFINE S == batch[b].entries
            sequence == [t \in S |-> txn[t].sequence]
            order == InOrder(sequence)
<1>1. IsFiniteSet(S) /\ sequence \in Injection(S, Nat)
  BY EntriesFinite, EntrySequences
<1>. HIDE DEF S, sequence
<1>2. /\ order \in [1..Cardinality(S) -> S]
      /\ \A t \in S : \E i \in 1..Cardinality(S) : order[i] = t
  BY <1>1, InOrderLists
<1>. HIDE DEF order
<1>3. /\ \A i \in DOMAIN order : order[i] \in S
      /\ \A t \in S : \E i \in DOMAIN order : order[i] = t
  BY <1>2
<1>. QED
  BY <1>3 DEF order, sequence, S

-----------------------------------------------------------------------------
(* The invariant *)

LEMMA SyncNextInv == SyncInd /\ [Next]_vars => SyncInd'
<1>. SUFFICES ASSUME SyncInd, [Next]_vars
              PROVE  SyncInd'
  OBVIOUS
<1>0. RequestsListed
  BY RequestsAreListed DEF SyncInd
<1>1. CASE ReaderStep
  BY <1>0, <1>1, ReaderStepInv
<1>2. CASE \E s \in Submission : Progress(s)
  BY <1>0, <1>2, ProgressInv
<1>3. CASE BackendStep
  BY <1>0, <1>3, BackendStepInv
<1>4. CASE GatewayStep
  BY <1>4, GatewayInv DEF GatewayStep
<1>5. CASE ChangeReader
  BY <1>5, NothingInv DEF ChangeReader
<1>6. CASE UNCHANGED vars
  BY <1>6, NothingInv DEF vars
<1>. QED
  BY <1>1, <1>2, <1>3, <1>4, <1>5, <1>6 DEF Next

LEMMA SyncInvariant == Spec => []SyncInd
  BY SyncInitInv, SyncNextInv, PTL DEF Spec

(* The acknowledgement that the reader has stored is the one that the backend
   committed with the batch, for any number of batches, retries, crashes, lost
   answers and late requests. *)
THEOREM AcknowledgementIsCommittedHolds == Spec => []AcknowledgementIsCommitted
<1>1. SyncInd => AcknowledgementIsCommitted
  BY DEF SyncInd
<1>. QED
  BY <1>1, SyncInvariant, PTL

(* No request of the reader contradicts what the backend has stored or is invalid
   to it, for any number of batches, retries, crashes, software versions and
   answers of gateways. *)
THEOREM NoFalseConflictHolds == Spec => []NoFalseConflict
<1>1. ASSUME SyncInd
      PROVE  NoFalseConflict
  <2>. USE <1>1
  <2>. SUFFICES ASSUME NEW m \in wire
                PROVE  /\ Backend!ValidFields(m.request) /\ Backend!ValidRequest(m.request)
                       /\ m.request.reader = Reader => ~Contradicts(m.request)
    BY DEF NoFalseConflict
  <2>. PICK request : request = m.request
    OBVIOUS
  <2>1. IsBuilt(request)
    BY DEF SyncInd, WireOK, MessageOK
  <2>2. RequestsListed
    BY RequestsAreListed DEF SyncInd
  <2>3. CASE batches[request.batch] # NULL
    BY <2>1, <2>3, ReplayMatches DEF Contradicts, IsBuilt
  <2>4. CASE batches[request.batch] = NULL
    BY <2>1, <2>2, <2>4, ConsistentEntries DEF Contradicts, IsBuilt
  <2>. QED
    BY <2>3, <2>4
<1>. QED
  BY <1>1, SyncInvariant, PTL

-----------------------------------------------------------------------------
(* The steps of the system by what they do to the transactions *)

NoNewTransaction == \A t \in Txn : ~Stored(t) => txn'[t] = NULL

(* No transaction is recorded, delivered, confirmed or discarded. *)
Quiet ==
    /\ RowsStay /\ NoNewTransaction /\ UNCHANGED transactions
    /\ \A t \in Txn : txn'[t] # NULL /\ txn'[t].state \in {"acknowledged", "permanent_failure"}
         => txn'[t] = txn[t]

Delivers(b) ==
    /\ b \in Batch /\ batch[b] # NULL /\ Fixed(b)
    /\ ~TooLarge(LoadSynchronizationBatchRequest(b))
    /\ UNCHANGED txn
    /\ \A t \in batch[b].entries :
         transactions'[t] # NULL /\ transactions'[t].sequence = txn[t].sequence
    /\ \A t \in Txn \ batch[b].entries : transactions'[t] = transactions[t]

Confirms(b) ==
    /\ b \in Batch /\ Closes(b, "acknowledged") /\ NoNewTransaction /\ UNCHANGED transactions
    /\ \A t \in batch[b].entries : transactions[t] # NULL

Discards(b) ==
    /\ b \in Batch /\ Closes(b, "permanent_failure") /\ NoNewTransaction
    /\ UNCHANGED transactions
    /\ Fixed(b) /\ Refused(LoadSynchronizationBatchRequest(b))

LEMMA UnchangedQuiet ==
    ASSUME UNCHANGED <<txn, transactions>>
    PROVE  Quiet
  BY DEF Quiet, RowsStay, NoNewTransaction, Stored

(* Every step of the system. *)
LEMMA NextKinds ==
    ASSUME SyncInd, [Next]_vars
    PROVE  \/ \E t \in Txn, at \in Time :
                EnqueueOfflineTransaction(t, at) /\ UNCHANGED transactions
           \/ Quiet
           \/ \E b \in Batch : Delivers(b) \/ Confirms(b) \/ Discards(b)
<1>ReaderStepKinds. ASSUME SyncInd, ReaderStep
                    PROVE  \/ \E t \in Txn, at \in Time :
                                EnqueueOfflineTransaction(t, at) /\ UNCHANGED transactions
                           \/ Quiet
  <2>. USE <1>ReaderStepKinds
  <2>KeepsQuiet. ASSUME Keeps, NoNewTransaction, UNCHANGED transactions
                 PROVE  Quiet
    BY <2>KeepsQuiet DEF Keeps, Quiet, FinalState
  <2>1. ASSUME NEW identity \in Identity, NEW at \in Time, BindReaderDatabase(identity, at)
        PROVE  Quiet
    BY <2>1, UnchangedQuiet
       DEF BindReaderDatabase, RecoverInterruptedSynchronizationBatches, backendVars
  <2>2. ASSUME NEW b \in Batch, NEW limit \in Limits, NEW at \in Time, CreateBatch(b, limit, at)
        PROVE  Quiet
    <3>1. Opens(b) /\ UNCHANGED transactions
      BY <2>2, CreateOpens DEF CreateBatch, backendVars, SyncInd, QueueInd
    <3>2. NoNewTransaction
      BY <3>1 DEF Opens, NoNewTransaction, Stored
    <3>. QED
      BY <3>1, <3>2 DEF Opens, Quiet
  <2>3. ASSUME NEW b \in Batch, NEW at \in Time, MarkInFlight(b, at)
        PROVE  Quiet
    <3>1. Keeps /\ UNCHANGED transactions
      BY <2>3, MarkQueue DEF MarkInFlight, backendVars, SyncInd
    <3>2. NoNewTransaction
      BY <2>3, MarkSynchronizationBatchInFlightStep
         DEF MarkInFlight, SyncInd, QueueInd, StoreInd, NoNewRow, NoNewTransaction
    <3>. QED
      BY <3>1, <3>2, <2>KeepsQuiet
  <2>4. ASSUME NEW s \in Submission, NEW b \in Batch, NEW at \in Time, NEW retryAt \in Time,
               Submit(s, b, at, retryAt)
        PROVE  Quiet
    BY <2>4, UnchangedQuiet DEF Submit, storeVars, backendVars
  <2>5. ASSUME Crash
        PROVE  Quiet
    BY <2>5, UnchangedQuiet DEF Crash, storeVars, backendVars
  <2>6. ASSUME NEW t \in Txn, NEW at \in Time, Enqueue(t, at)
        PROVE  EnqueueOfflineTransaction(t, at) /\ UNCHANGED transactions
    BY <2>6 DEF Enqueue, backendVars
  <2>. QED
    BY <2>1, <2>2, <2>3, <2>4, <2>5, <2>6 DEF ReaderStep
<1>RecordFailureKinds. ASSUME SyncInd, NEW s \in Submission, RecordFailure(s)
                       PROVE  Quiet \/ \E b \in Batch : Discards(b)
  <2>. USE <1>RecordFailureKinds
  <2>1. PICK task : task = submission[s]
    OBVIOUS
  <2>. DEFINE state == FailureDisposition(task.category)
  <2>2. /\ task # NULL /\ UNCHANGED transactions
        /\ IF state = "retryable_failure"
           THEN RecordSynchronizationRetryableFailure(task.batch, task.completedAt, task.retryAt)
           ELSE RecordFinalSynchronizationFailure(task.batch, state, task.completedAt)
    BY <2>1 DEF RecordFailure, backendVars
  <2>3. TaskOK(task) /\ task.batch \in Batch
    BY <2>1, <2>2 DEF SyncInd, TasksOK, TaskOK, IsBuilt
  <2>4. CASE state = "retryable_failure"
    BY <2>2, <2>4, UnchangedQuiet DEF RecordSynchronizationRetryableFailure
  <2>5. CASE state # "retryable_failure"
    <3>1. /\ state \in FinalFailure
          /\ state = "permanent_failure" => task.category \in Refusals
      BY <2>3, <2>5 DEF FailureDisposition, FinalFailure, Refusals
    <3>. HIDE DEF state
    <3>2. Closes(task.batch, state)
      BY <2>2, <2>3, <2>5, <3>1, FailureQueue DEF SyncInd, TaskOK
    <3>3. NoNewTransaction
      BY <3>2 DEF Closes, NoNewTransaction, Stored
    <3>4. CASE state = "permanent_failure"
      <4>1. Fixed(task.batch) /\ Refused(LoadSynchronizationBatchRequest(task.batch))
        BY <2>3, <3>1, <3>4 DEF TaskOK, IsBuilt
      <4>2. Discards(task.batch)
        BY <2>2, <2>3, <3>2, <3>3, <3>4, <4>1 DEF Discards
      <4>. QED
        BY <2>3, <4>2
    <3>5. CASE state = "manual_review"
      BY <2>2, <3>2, <3>3, <3>5 DEF Quiet, Closes
    <3>. QED
      BY <3>1, <3>4, <3>5 DEF FinalFailure
  <2>. QED
    BY <2>4, <2>5
<1>ApplyAcknowledgementKinds. ASSUME SyncInd, NEW s \in Submission, ApplyAcknowledgement(s)
                              PROVE  Quiet \/ \E b \in Batch : Confirms(b)
  <2>. USE <1>ApplyAcknowledgementKinds
  <2>1. PICK task : task = submission[s]
    OBVIOUS
  <2>2. PICK appliedAt :
          appliedAt = IF task.completedAt > task.ack.receivedAt
                      THEN task.completedAt ELSE task.ack.receivedAt
    OBVIOUS
  <2>. DEFINE b == task.batch
  <2>3. /\ task # NULL /\ task.pc = "apply" /\ UNCHANGED transactions
        /\ \/ ApplySynchronizationAcknowledgement(b, appliedAt)
           \/ UNCHANGED storeVars
    BY <2>1, <2>2 DEF ApplyAcknowledgement, backendVars
  <2>4. TaskOK(task)
    BY <2>1, <2>3 DEF SyncInd, TasksOK
  <2>5. b \in Batch /\ appliedAt \in Time
    BY <2>2, <2>3, <2>4, TaskAcknowledgement DEF TaskOK
  <2>6. CASE UNCHANGED storeVars
    BY <2>3, <2>6, UnchangedQuiet DEF storeVars
  <2>7. CASE ApplySynchronizationAcknowledgement(b, appliedAt)
    <3>1. ack[b] # NULL
      BY <2>7 DEF ApplySynchronizationAcknowledgement
    <3>2. AllAccepted(b) /\ batches[b] # NULL
      BY <2>5, <3>1, StoredAccepts, RequestsAreListed DEF SyncInd, AcknowledgementIsCommitted
    <3>3. Closes(b, "acknowledged")
      BY <2>5, <2>7, <3>2, ApplyQueue DEF SyncInd
    <3>4. NoNewTransaction
      BY <3>3 DEF Closes, NoNewTransaction, Stored
    <3>5. \A t \in batch[b].entries : transactions[t] # NULL
      BY <2>5, <3>2 DEF SyncInd, BackendOK, BatchStored
    <3>6. Confirms(b)
      BY <2>3, <2>5, <3>3, <3>4, <3>5 DEF Confirms
    <3>. QED
      BY <2>5, <3>6
  <2>. QED
    BY <2>3, <2>6, <2>7
<1>ProcessKinds. ASSUME SyncInd, NEW m \in wire, NEW at \in Time, Process(m, at)
                 PROVE  Quiet \/ \E b \in Batch : Delivers(b)
  <2>. USE <1>ProcessKinds
  <2>0. RequestsListed
    BY RequestsAreListed DEF SyncInd
  <2>1. PICK request : request = m.request
    OBVIOUS
  <2>2. PICK a : a = Backend!BuildAcknowledgement(request, at)
    OBVIOUS
  <2>3. /\ IsBuilt(request) /\ ~TooLarge(request) /\ request.reader = Reader
        /\ \/ /\ batches[request.batch] # NULL
              /\ Acknowledge(m, Backend!WithReplayed(
                                  batches[request.batch].acknowledgement, TRUE))
              /\ UNCHANGED backendVars
           \/ /\ Backend!Ingest(request, a)
              /\ \/ Acknowledge(m, a)
                 \/ AnswerFailure(m, "backend_temporarily_unavailable")
    BY <2>0, <2>1, <2>2, ProcessCases
  <2>4. UNCHANGED <<storeVars, binding, running, intercepted>>
    BY <2>3 DEF Acknowledge, AnswerFailure, Answer
  <2>5. UNCHANGED txn
    BY <2>4 DEF storeVars
  <2>6. CASE UNCHANGED backendVars
    BY <2>5, <2>6, UnchangedQuiet DEF backendVars
  <2>7. CASE Backend!Ingest(request, a)
    <3>0. Intercepts
      BY <2>4 DEF Intercepts
    <3>1. Grows
      BY <2>4, <3>0, SameStore
    <3>2. /\ BackendOK'
          /\ \A t \in batch[request.batch].entries : transactions'[t] # NULL
          /\ \A t \in Txn \ batch[request.batch].entries : transactions'[t] = transactions[t]
      BY <2>0, <2>2, <2>3, <2>4, <2>7, <3>1, IngestOK
    <3>3. /\ request.batch \in Batch /\ batch[request.batch] # NULL /\ Fixed(request.batch)
          /\ ~TooLarge(LoadSynchronizationBatchRequest(request.batch))
      BY <2>3 DEF IsBuilt, Fixed
    <3>4. batch[request.batch].entries \subseteq Txn
      BY <3>3, EntrySequences DEF SyncInd
    <3>5. \A t \in batch[request.batch].entries : transactions'[t].sequence = txn[t].sequence
      BY <2>5, <3>2, <3>4 DEF BackendOK, TransactionStored
    <3>6. Delivers(request.batch)
      BY <2>5, <3>2, <3>3, <3>5 DEF Delivers
    <3>. QED
      BY <3>3, <3>6
  <2>. QED
    BY <2>3, <2>6, <2>7
<1>1. CASE ReaderStep
  BY <1>1, <1>ReaderStepKinds
<1>2. ASSUME NEW s \in Submission, Progress(s)
      PROVE  Quiet \/ \E b \in Batch : Confirms(b) \/ Discards(b)
  <2>1. ASSUME NEW category, GiveUp(s, category)
        PROVE  Quiet
    BY <2>1, UnchangedQuiet DEF GiveUp, storeVars, backendVars
  <2>2. CASE StoreAcknowledgement(s)
    <3>1. UNCHANGED <<txn, transactions>>
      BY <2>2 DEF StoreAcknowledgement, StoreSynchronizationAcknowledgement,
                  storeVars, backendVars
    <3>. QED
      BY <3>1, UnchangedQuiet
  <2>3. CASE SubmissionError(s)
    BY <2>3, UnchangedQuiet DEF SubmissionError, storeVars, backendVars
  <2>. QED
    BY <1>2, <2>1, <2>2, <2>3, <1>RecordFailureKinds, <1>ApplyAcknowledgementKinds DEF Progress
<1>3. ASSUME NEW m \in wire, Refuse(m) \/ Unavailable(m)
      PROVE  Quiet
  BY <1>3, UnchangedQuiet
     DEF Refuse, Unavailable, AnswerFailure, Answer, storeVars, backendVars
<1>4. CASE BackendStep
  BY <1>3, <1>4, <1>ProcessKinds DEF BackendStep
<1>5. CASE ChangeReader
  BY <1>5, UnchangedQuiet DEF ChangeReader, storeVars, backendVars
<1>6. CASE GatewayStep
  BY <1>6, UnchangedQuiet DEF GatewayStep, AnsweredInBetween, storeVars, backendVars
<1>7. CASE UNCHANGED vars
  BY <1>7, UnchangedQuiet DEF vars, storeVars, backendVars
<1>. QED
  BY <1>1, <1>2, <1>4, <1>5, <1>6, <1>7 DEF Next

-----------------------------------------------------------------------------
(* The refinement of TransactionDelivery *)

recorded == [t \in Txn |-> IF txn[t] = NULL THEN 0 ELSE txn[t].sequence]
delivered == [t \in Txn |-> IF transactions[t] = NULL THEN 0 ELSE transactions[t].sequence]
confirmed == {t \in Txn : txn[t] # NULL /\ txn[t].state = "acknowledged"}
discarded == {t \in Txn : txn[t] # NULL /\ txn[t].state = "permanent_failure"}

(* No step takes a batch away or changes its entries. *)
LEMMA NextBatchesStay ==
    ASSUME SyncInd, [Next]_vars
    PROVE  BatchesStay
<1>1. ASSUME UNCHANGED batch
      PROVE  BatchesStay
  BY <1>1, BatchesUnchanged
<1>2. CASE ReaderStep
  <2>1. ASSUME NEW identity \in Identity, NEW at \in Time, BindReaderDatabase(identity, at)
        PROVE  BatchesStay
    BY <2>1, RecoveryQueue DEF BindReaderDatabase, SyncInd, Keeps
  <2>2. ASSUME NEW t \in Txn, NEW at \in Time, Enqueue(t, at)
        PROVE  BatchesStay
    BY <1>1, <2>2 DEF Enqueue, EnqueueOfflineTransaction
  <2>3. ASSUME NEW b \in Batch, NEW at \in Time, MarkInFlight(b, at)
        PROVE  BatchesStay
    BY <2>3, MarkQueue DEF MarkInFlight, SyncInd, Keeps
  <2>4. ASSUME NEW s \in Submission, NEW b \in Batch, NEW at \in Time, NEW retryAt \in Time,
               Submit(s, b, at, retryAt)
        PROVE  BatchesStay
    BY <1>1, <2>4 DEF Submit, storeVars
  <2>5. ASSUME Crash
        PROVE  BatchesStay
    BY <1>1, <2>5 DEF Crash, storeVars
  <2>6. ASSUME NEW b \in Batch, NEW limit \in Limits, NEW at \in Time, CreateBatch(b, limit, at)
        PROVE  BatchesStay
    BY <2>6, CreateOpens DEF CreateBatch, Opens, SyncInd, QueueInd
  <2>. QED
    BY <1>2, <2>1, <2>2, <2>3, <2>4, <2>5, <2>6 DEF ReaderStep
<1>3. ASSUME NEW s \in Submission, Progress(s)
      PROVE  BatchesStay
  <2>1. ASSUME NEW category, GiveUp(s, category)
        PROVE  BatchesStay
    BY <1>1, <2>1 DEF GiveUp, storeVars
  <2>2. CASE RecordFailure(s)
    <3>1. submission[s] # NULL /\ submission[s].batch \in Batch
      BY <2>2 DEF RecordFailure, SyncInd, TasksOK, TaskOK, IsBuilt
    <3>. PICK task : task = submission[s]
      OBVIOUS
    <3>2. TaskOK(task) /\ task.batch \in Batch /\ task.completedAt \in Time /\ task.retryAt \in Time
      BY <3>1 DEF SyncInd, TasksOK, TaskOK
    <3>3. \/ RecordSynchronizationRetryableFailure(task.batch, task.completedAt, task.retryAt)
          \/ \E state \in FinalFailure :
               RecordFinalSynchronizationFailure(task.batch, state, task.completedAt)
      BY <2>2 DEF RecordFailure, FailureDisposition, FinalFailure
    <3>. QED
      BY <3>2, <3>3, RetryableFailureQueue, FailureQueue DEF SyncInd, Keeps, Closes
  <2>3. CASE StoreAcknowledgement(s)
    BY <1>1, <2>3 DEF StoreAcknowledgement, StoreSynchronizationAcknowledgement, storeVars
  <2>4. CASE ApplyAcknowledgement(s)
    <3>1. PICK b \in Batch, appliedAt \in Time :
            ApplySynchronizationAcknowledgement(b, appliedAt) \/ UNCHANGED storeVars
      <4>1. PICK task : task = submission[s]
        OBVIOUS
      <4>2. PICK at : at = IF task.completedAt > task.ack.receivedAt
                           THEN task.completedAt ELSE task.ack.receivedAt
        OBVIOUS
      <4>3. /\ task # NULL /\ task.pc = "apply"
            /\ ApplySynchronizationAcknowledgement(task.batch, at) \/ UNCHANGED storeVars
        BY <2>4, <4>1, <4>2 DEF ApplyAcknowledgement
      <4>4. TaskOK(task)
        BY <4>1, <4>3 DEF SyncInd, TasksOK
      <4>5. task.batch \in Batch /\ at \in Time
        BY <4>2, <4>3, <4>4, TaskAcknowledgement DEF TaskOK
      <4>. QED
        BY <4>3, <4>5
    <3>2. CASE UNCHANGED storeVars
      BY <1>1, <3>2 DEF storeVars
    <3>3. CASE ApplySynchronizationAcknowledgement(b, appliedAt)
      BY <3>3, ApplySynchronizationAcknowledgementStep DEF SyncInd, QueueInd, StoreInd
    <3>. QED
      BY <3>1, <3>2, <3>3
  <2>5. CASE SubmissionError(s)
    BY <1>1, <2>5 DEF SubmissionError, storeVars
  <2>. QED
    BY <1>3, <2>1, <2>2, <2>3, <2>4, <2>5 DEF Progress
<1>4. CASE BackendStep
  <2>1. UNCHANGED storeVars
    BY <1>4 DEF BackendStep, Refuse, Unavailable, Process, Acknowledge, AnswerFailure, Answer
  <2>. QED
    BY <1>1, <2>1 DEF storeVars
<1>5. CASE GatewayStep \/ ChangeReader \/ UNCHANGED vars
  BY <1>1, <1>5 DEF GatewayStep, AnsweredInBetween, ChangeReader, vars, storeVars
<1>. QED
  BY <1>2, <1>3, <1>4, <1>5 DEF Next

misled == {t \in Txn : \E b \in intercepted : batch[b] # NULL /\ t \in batch[b].entries}

(* Only the answer of a gateway adds to the refused batches. *)
LEMMA InterceptedStays ==
    ASSUME [Next]_vars, ~GatewayStep
    PROVE  UNCHANGED intercepted
<1>1. CASE ReaderStep
  BY <1>1 DEF ReaderStep, BindReaderDatabase, Enqueue, CreateBatch, MarkInFlight, Submit, Crash
<1>2. ASSUME NEW s \in Submission, Progress(s)
      PROVE  UNCHANGED intercepted
  BY <1>2 DEF Progress, GiveUp, RecordFailure, StoreAcknowledgement, ApplyAcknowledgement,
              SubmissionError
<1>3. CASE BackendStep
  BY <1>3 DEF BackendStep, Refuse, Unavailable, Process, Acknowledge, AnswerFailure, Answer
<1>4. CASE ChangeReader \/ UNCHANGED vars
  BY <1>4 DEF ChangeReader, vars
<1>. QED
  BY <1>1, <1>2, <1>3, <1>4 DEF Next

LEMMA MisledStays ==
    ASSUME SyncInd, [Next]_vars, UNCHANGED intercepted
    PROVE  misled' = misled
<1>1. BatchesStay
  BY NextBatchesStay
<1>2. \A b \in intercepted : b \in Batch /\ batch[b] # NULL
  BY DEF SyncInd, FailuresExplained
<1>3. \A b \in intercepted : batch'[b] # NULL /\ batch'[b].entries = batch[b].entries
  BY <1>1, <1>2 DEF BatchesStay
<1>. QED
  BY <1>2, <1>3 DEF misled

(* The answer of a gateway. *)
LEMMA GatewayMisleads ==
    ASSUME SyncInd, GatewayStep
    PROVE  /\ UNCHANGED <<txn, transactions>>
           /\ \/ misled' = misled
              \/ \E b \in Batch : batch[b] # NULL /\ misled' = misled \cup batch[b].entries
<1>1. PICK s \in Submission, category \in ForeignCategory : AnsweredInBetween(s, category)
  BY DEF GatewayStep
<1>2. PICK task : task = submission[s]
  OBVIOUS
<1>3. /\ task # NULL
      /\ intercepted' = intercepted \/ intercepted' = intercepted \cup {task.batch}
      /\ UNCHANGED <<txn, batch, transactions>>
  BY <1>1, <1>2 DEF AnsweredInBetween, storeVars, backendVars
<1>4. task.batch \in Batch /\ batch[task.batch] # NULL
  BY <1>2, <1>3 DEF SyncInd, TasksOK, TaskOK, IsBuilt, Fixed
<1>5. batch[task.batch].entries \subseteq Txn
  BY <1>4, EntrySequences DEF SyncInd
<1>6. CASE intercepted' = intercepted
  BY <1>3, <1>6 DEF misled
<1>7. CASE intercepted' = intercepted \cup {task.batch}
  <2>1. misled' = misled \cup batch[task.batch].entries
    BY <1>3, <1>4, <1>5, <1>7 DEF misled
  <2>. QED
    BY <1>3, <1>4, <2>1
<1>. QED
  BY <1>3, <1>6, <1>7

(* The sequences that are given out are as many as the stored transactions. *)
LEMMA StoredCount ==
    ASSUME StoreInd
    PROVE  /\ Cardinality({t \in Txn : recorded[t] # 0}) + 1 = nextLocalSequence
           /\ \A t \in Txn : recorded[t] # 0 <=> Stored(t)
<1>. DEFINE S == {t \in Txn : recorded[t] # 0}
            f == [t \in S |-> txn[t].sequence]
            n == nextLocalSequence - 1
<1>1. \A t \in Txn : Stored(t) => txn[t].sequence \in 1..n
  BY DEF StoreInd, SequenceAllocation
<1>2. \A t \in Txn : recorded[t] # 0 <=> Stored(t)
  BY <1>1, SMTT(30) DEF recorded, Stored
<1>3. nextLocalSequence \in Nat /\ nextLocalSequence # 0
  BY SMTT(30) DEF StoreInd, StoreTypeOK, HighWaterMarkSound
<1>4. f \in Bijection(S, 1..n)
  <2>1. f \in [S -> 1..n]
    BY <1>1, <1>2
  <2>2. \A t, u \in S : f[t] = f[u] => t = u
    BY <1>2 DEF StoreInd, SequenceAllocation
  <2>3. \A i \in 1..n : \E t \in S : f[t] = i
    BY <1>2 DEF StoreInd, SequenceAllocation
  <2>. HIDE DEF f, S, n
  <2>. QED
    BY <2>1, <2>2, <2>3 DEF Bijection, Injection, Surjection, IsInjective
<1>5. IsFiniteSet(1..n) /\ Cardinality(1..n) = n
  BY <1>3, FS_Interval, SMTT(30)
<1>6. Cardinality(S) = n
  <2>. HIDE DEF f, S, n
  <2>1. f \in Injection(S, 1..n) /\ f \in Surjection(S, 1..n)
    BY <1>4 DEF Bijection
  <2>. QED
    BY <1>5, <2>1, FS_Injection
<1>. QED
  BY <1>2, <1>3, <1>6, SMTT(30)

(* The entries of a batch. *)
LEMMA BatchEntries ==
    ASSUME SyncInd, NEW b \in Batch, batch[b] # NULL
    PROVE  /\ batch[b].entries \subseteq Txn
           /\ \A t \in batch[b].entries : Stored(t) /\ recorded[t] # 0
<1>1. batch[b].entries \subseteq Txn /\ \A t \in batch[b].entries : Stored(t)
  BY EntrySequences DEF SyncInd, QueueInd, EntriesSettled
<1>2. \A t \in Txn : recorded[t] # 0 <=> Stored(t)
  BY StoredCount DEF SyncInd, QueueInd
<1>. QED
  BY <1>1, <1>2

(* The rows of a batch that comes to its end, and all the others. *)
LEMMA ClosesRows ==
    ASSUME NEW b \in Batch, NEW state, Closes(b, state), NoNewTransaction
    PROVE  /\ recorded' = recorded
           /\ \A t \in batch[b].entries : t \notin confirmed \cup discarded
           /\ state = "acknowledged" =>
                confirmed' = confirmed \cup batch[b].entries /\ discarded' = discarded
           /\ state = "permanent_failure" =>
                discarded' = discarded \cup batch[b].entries /\ confirmed' = confirmed
<1>. DEFINE S == batch[b].entries
<1>1. /\ \A t \in S : /\ t \in Txn /\ txn[t] # NULL /\ txn[t].state = "in_flight"
                      /\ txn'[t] # NULL /\ txn'[t].state = state
                      /\ txn'[t].sequence = txn[t].sequence
      /\ \A t \in Txn : t \notin S => txn'[t] = txn[t]
  BY DEF Closes, RowsStay, Stored
<1>. HIDE DEF S
<1>2. recorded' = recorded
  BY <1>1 DEF recorded
<1>3. \A t \in S : t \notin confirmed \cup discarded
  BY <1>1 DEF confirmed, discarded
<1>4. state = "acknowledged" => confirmed' = confirmed \cup S /\ discarded' = discarded
  BY <1>1 DEF confirmed, discarded
<1>5. state = "permanent_failure" => discarded' = discarded \cup S /\ confirmed' = confirmed
  BY <1>1 DEF confirmed, discarded
<1>. QED
  BY <1>2, <1>3, <1>4, <1>5 DEF S

LEMMA DeliveryStep == SyncInd /\ [Next]_vars => [Delivery!DeliveryNext]_(Delivery!deliveryVars)
<1>RecordRefines. ASSUME SyncInd, NEW t \in Txn, NEW at \in Time,
                         EnqueueOfflineTransaction(t, at), UNCHANGED transactions,
                         misled' = misled
                  PROVE  Delivery!Record(t)
  <2>. USE <1>RecordRefines
  (* TransactionDelivery counts as this module does. *)
  <2>SameCardinality. ASSUME NEW S
                      PROVE  Delivery!Cardinality(S) = Cardinality(S)
    BY <2>SameCardinality DEF Delivery!Cardinality, Cardinality
  <2>1. /\ ~Stored(t)
        /\ txn'[t].sequence = nextLocalSequence /\ txn'[t].state = "pending"
        /\ \A u \in Txn : u # t => txn'[u] = txn[u]
    BY DEF EnqueueOfflineTransaction, SyncInd, QueueInd, StoreInd, StoreTypeOK
  <2>2. txn'[t] # NULL
    <3>1. StoreTypeOK'
      BY EnqueueStep DEF SyncInd, QueueInd, StoreInd
    <3>2. txn'[t] = [sequence |-> nextLocalSequence, state |-> "pending",
                     attempts |-> 0, retryAt |-> NULL, updatedAt |-> at]
      BY DEF EnqueueOfflineTransaction, SyncInd, QueueInd, StoreInd, StoreTypeOK
    <3>3. nextLocalSequence \in Nat
      BY DEF SyncInd, QueueInd, StoreInd, StoreTypeOK
    <3>4. txn'[t] \in TxnRow
      BY <3>2, <3>3, SMTT(30) DEF TxnRow, QueueState, OptionalTime
    <3>. QED
      BY <3>4, NullAssumption
  <2>3. /\ Cardinality({u \in Txn : recorded[u] # 0}) + 1 = nextLocalSequence
        /\ recorded[t] = 0
    BY <2>1, StoredCount DEF SyncInd, QueueInd
  <2>4. recorded' = [recorded EXCEPT ![t] = Cardinality({u \in Txn : recorded[u] # 0}) + 1]
    <3>1. recorded' = [recorded EXCEPT ![t] = nextLocalSequence]
      BY <2>1, <2>2 DEF recorded
    <3>. QED
      BY <2>3, <3>1
  <2>5. confirmed' = confirmed /\ discarded' = discarded
    BY <2>1 DEF confirmed, discarded, Stored
  <2>6. delivered' = delivered
    BY DEF delivered
  <2>. QED
    BY <2>3, <2>4, <2>5, <2>6, <2>SameCardinality
       DEF Delivery!Record, recorded, delivered, confirmed, discarded, misled
<1>QuietKeeps. ASSUME Quiet
               PROVE  /\ recorded' = recorded /\ delivered' = delivered
                      /\ confirmed' = confirmed /\ discarded' = discarded
  <2>. USE <1>QuietKeeps
  <2>1. recorded' = recorded
    BY DEF Quiet, RowsStay, NoNewTransaction, Stored, recorded
  <2>2. delivered' = delivered
    BY DEF Quiet, delivered
  <2>3. confirmed' = confirmed /\ discarded' = discarded
    BY DEF Quiet, RowsStay, NoNewTransaction, Stored, confirmed, discarded, FinalState
  <2>. QED
    BY <2>1, <2>2, <2>3
<1>QuietRefines. ASSUME Quiet, misled' = misled
                 PROVE  UNCHANGED Delivery!deliveryVars
  BY <1>QuietRefines, <1>QuietKeeps
     DEF Delivery!deliveryVars, recorded, delivered, confirmed, discarded, misled
<1>MisleadRefines. ASSUME SyncInd, Quiet, NEW b \in Batch, batch[b] # NULL,
                          NEW S, S = batch[b].entries, misled' = misled \cup S
                   PROVE  Delivery!Mislead(S)
  <2>. USE <1>MisleadRefines
  <2>1. \A t \in S : recorded[t] # 0
    BY BatchEntries
  <2>. QED
    BY <1>QuietKeeps, <2>1
       DEF Delivery!Mislead, recorded, delivered, confirmed, discarded, misled
<1>DeliverRefines. ASSUME SyncInd, NEW b \in Batch, Delivers(b), NEW S, S = batch[b].entries,
                          misled' = misled
                   PROVE  Delivery!Deliver(S)
  <2>. USE <1>DeliverRefines
  <2>1. S \subseteq Txn /\ \A t \in S : Stored(t) /\ recorded[t] # 0
    BY BatchEntries DEF Delivers
  <2>2. \A t \in S : t \notin discarded \ misled
    <3>. SUFFICES ASSUME NEW t \in S, t \in discarded
                  PROVE  t \in misled
      OBVIOUS
    <3>1. PICK c \in Batch : /\ batch[c] # NULL
                             /\ batch[c].state = "permanent_failure"
                             /\ t \in batch[c].entries
      BY DEF discarded, SyncInd, QueueInd, FailedHasBatch, Stored
    <3>2. c = b
      BY <3>1 DEF SyncInd, QueueInd, DisjointBatches, Delivers
    <3>3. b \in intercepted
      BY <3>1, <3>2, LoadedBatch DEF SyncInd, FailuresExplained, Delivers, Refused
    <3>. QED
      BY <2>1, <3>1, <3>2, <3>3 DEF misled
  <2>3. delivered' = [t \in Txn |-> IF t \in S THEN recorded[t] ELSE delivered[t]]
    <3>1. \A t \in S : transactions'[t] # NULL /\ transactions'[t].sequence = txn[t].sequence
      BY DEF Delivers
    <3>2. \A t \in Txn : t \notin S => transactions'[t] = transactions[t]
      BY DEF Delivers
    <3>. QED
      BY <2>1, <3>1, <3>2 DEF delivered, recorded, Stored
  <2>4. recorded' = recorded /\ confirmed' = confirmed /\ discarded' = discarded
    BY DEF Delivers, recorded, confirmed, discarded
  <2>. QED
    BY <2>1, <2>2, <2>3, <2>4 DEF Delivery!Deliver, recorded, delivered, confirmed, discarded, misled
<1>ConfirmRefines. ASSUME SyncInd, NEW b \in Batch, Confirms(b), NEW S, S = batch[b].entries,
                          misled' = misled
                   PROVE  Delivery!Confirm(S)
  <2>. USE <1>ConfirmRefines
  <2>1. batch[b] # NULL
    BY DEF Confirms, Closes, Active
  <2>2. /\ recorded' = recorded
        /\ \A t \in batch[b].entries : t \notin confirmed \cup discarded
        /\ confirmed' = confirmed \cup batch[b].entries /\ discarded' = discarded
    BY ClosesRows DEF Confirms
  <2>3. delivered' = delivered
    BY DEF Confirms, delivered
  <2>4. \A t \in batch[b].entries : delivered[t] # 0
    <3>. SUFFICES ASSUME NEW t \in batch[b].entries
                  PROVE  delivered[t] # 0
      OBVIOUS
    <3>1. t \in Txn /\ Stored(t) /\ recorded[t] # 0
      BY <2>1, BatchEntries
    <3>2. transactions[t] # NULL /\ transactions[t].sequence = txn[t].sequence
      BY <3>1 DEF Confirms, SyncInd, BackendOK, TransactionStored
    <3>. QED
      BY <3>1, <3>2 DEF delivered, recorded, Stored
  <2>. QED
    BY <2>2, <2>3, <2>4 DEF Delivery!Confirm, recorded, delivered, confirmed, discarded, misled
<1>DiscardRefines. ASSUME SyncInd, NEW b \in Batch, Discards(b), NEW S, S = batch[b].entries,
                          misled' = misled
                   PROVE  Delivery!Discard(S)
  <2>. USE <1>DiscardRefines
  <2>1. batch[b] # NULL
    BY DEF Discards, Closes, Active
  <2>2. /\ recorded' = recorded
        /\ discarded' = discarded \cup batch[b].entries /\ confirmed' = confirmed
    BY ClosesRows DEF Discards
  <2>3. delivered' = delivered
    BY DEF Discards, delivered
  <2>4. \A t \in batch[b].entries : recorded[t] # 0 /\ (delivered[t] = 0 \/ t \in misled)
    <3>. SUFFICES ASSUME NEW t \in batch[b].entries
                  PROVE  recorded[t] # 0 /\ (delivered[t] = 0 \/ t \in misled)
      OBVIOUS
    <3>1. t \in Txn /\ recorded[t] # 0
      BY <2>1, BatchEntries
    <3>2. ASSUME transactions[t] # NULL
          PROVE  t \in misled
      <4>1. PICK c \in Batch : batches[c] # NULL /\ t \in batch[c].entries
        BY <3>1, <3>2 DEF SyncInd, BackendOK, TransactionStored
      <4>2. PICK request : request = batches[c].fingerprint
        OBVIOUS
      <4>3. IsBuilt(request) /\ ~TooLarge(request) /\ request.batch = c
        BY <4>1, <4>2 DEF SyncInd, BackendOK, BatchStored
      <4>4. c = b
        BY <2>1, <4>1, <4>3 DEF IsBuilt, Fixed, SyncInd, QueueInd, DisjointBatches
      <4>5. b \in intercepted
        BY <4>3, <4>4, LoadedBatch DEF IsBuilt, Discards, Refused
      <4>. QED
        BY <2>1, <3>1, <4>5 DEF misled
    <3>. QED
      BY <3>1, <3>2 DEF delivered
  <2>. QED
    BY <2>2, <2>3, <2>4 DEF Delivery!Discard, recorded, delivered, confirmed, discarded, misled
<1>. SUFFICES ASSUME SyncInd, [Next]_vars
              PROVE  Delivery!DeliveryNext \/ UNCHANGED Delivery!deliveryVars
  OBVIOUS
<1>1. \A b \in Batch : batch[b] # NULL => batch[b].entries \in SUBSET Txn
  BY BatchEntries
<1>2. ASSUME UNCHANGED intercepted
      PROVE  Delivery!DeliveryNext \/ UNCHANGED Delivery!deliveryVars
  <2>0. misled' = misled
    BY <1>2, MisledStays
  <2>1. ASSUME NEW b \in Batch, Delivers(b) \/ Confirms(b) \/ Discards(b)
        PROVE  Delivery!DeliveryNext
    <3>1. batch[b] # NULL
      BY <2>1 DEF Delivers, Confirms, Discards, Closes, Active
    <3>2. PICK S \in SUBSET Txn : S = batch[b].entries
      BY <1>1, <3>1
    <3>3. Delivery!Deliver(S) \/ Delivery!Confirm(S) \/ Delivery!Discard(S)
      BY <2>0, <2>1, <3>2, <1>DeliverRefines, <1>ConfirmRefines, <1>DiscardRefines
    <3>. QED
      BY <3>3 DEF Delivery!DeliveryNext
  <2>2. ASSUME NEW t \in Txn, NEW at \in Time,
               EnqueueOfflineTransaction(t, at), UNCHANGED transactions
        PROVE  Delivery!DeliveryNext
    <3>1. Delivery!Record(t)
      BY <2>0, <2>2, <1>RecordRefines
    <3>. QED
      BY <3>1 DEF Delivery!DeliveryNext
  <2>3. CASE Quiet
    BY <2>0, <2>3, <1>QuietRefines
  <2>. QED
    BY <2>1, <2>2, <2>3, NextKinds
<1>3. ASSUME GatewayStep
      PROVE  Delivery!DeliveryNext \/ UNCHANGED Delivery!deliveryVars
  <2>1. Quiet
    BY <1>3, GatewayMisleads, UnchangedQuiet
  <2>2. CASE misled' = misled
    BY <2>1, <2>2, <1>QuietRefines
  <2>3. ASSUME NEW b \in Batch, batch[b] # NULL, misled' = misled \cup batch[b].entries
        PROVE  Delivery!DeliveryNext
    <3>1. PICK S \in SUBSET Txn : S = batch[b].entries
      BY <1>1, <2>3
    <3>2. Delivery!Mislead(S)
      BY <2>1, <2>3, <3>1, <1>MisleadRefines
    <3>. QED
      BY <3>2 DEF Delivery!DeliveryNext
  <2>. QED
    BY <1>3, <2>2, <2>3, GatewayMisleads
<1>. QED
  BY <1>2, <1>3, InterceptedStays

(* Batches, retries, lost answers, late requests, restarts and the answers of
   gateways implement the delivery of transactions. *)
THEOREM ImplementsDeliveryHolds == Spec => ImplementsDelivery
<1>DeliveryInitial. Init => Delivery!DeliveryInit
  BY DEF Init, StoreInit, Backend!IngestInit, Delivery!DeliveryInit
<1>1. Init => Delivery!DeliveryInit
  BY <1>DeliveryInitial
<1>2. SyncInd /\ [Next]_vars => [Delivery!DeliveryNext]_(Delivery!deliveryVars)
  BY DeliveryStep
<1>. QED
  BY <1>1, <1>2, SyncInvariant, PTL DEF Spec, ImplementsDelivery, Delivery!DeliverySpec

-----------------------------------------------------------------------------
(* Batches that can be loaded *)

(* A batch in flight can be turned into a request exactly when it has no more
   entries than a request may hold, its envelopes are JSON objects within their
   size and the texts of the binding are within the protocol: nothing that was
   retried, recovered or reapplied makes a batch unreadable. *)
THEOREM InFlightBatchLoadsHolds == Spec => []InFlightBatchLoads
<1>LoadsValid. ASSUME SyncInd, NEW b \in Batch, batch[b] # NULL, batch[b].submittedAt # NULL
               PROVE  LET request == LoadSynchronizationBatchRequest(b) IN
                      Backend!ValidFields(request) /\ Backend!ValidRequest(request)
                        <=> FitsProtocol(b)
  <2>. USE <1>LoadsValid
  <2>. DEFINE S == batch[b].entries
              n == Cardinality(S)
              sequence == [t \in S |-> txn[t].sequence]
              order == InOrder(sequence)
              loaded == [i \in DOMAIN order |->
                           Backend!RequestEntry(order[i], sequence[order[i]], Envelope(order[i]))]
              request == LoadSynchronizationBatchRequest(b)
  <2>1. /\ S # {} /\ IsFiniteSet(S)
        /\ sequence \in Injection(S, Nat)
    BY EntrySequences, EntriesFinite DEF SyncInd
  <2>2. n \in Nat /\ n >= 1
    <3>1. n \in Nat /\ n # 0
      BY <2>1, FS_CardinalityType, FS_EmptySet
    <3>. QED
      BY <3>1, SMTT(30)
  <2>3. \A t \in S : sequence[t] \in Nat
    <3>. HIDE DEF S, sequence
    <3>. QED
      BY <2>1 DEF Injection
  <2>4. /\ order \in [1..n -> S]
        /\ \A t \in S : \E i \in 1..n : order[i] = t
        /\ \A i, j \in 1..n : i < j => sequence[order[i]] < sequence[order[j]]
    <3>. HIDE DEF S, sequence
    <3>. QED
      BY <2>1, InOrderLists
  <2>. HIDE DEF S, n, sequence, order
  <2>5. /\ DOMAIN loaded = 1..n
        /\ \A i \in 1..n : /\ loaded[i].txn = order[i]
                           /\ loaded[i].sequence = sequence[order[i]]
                           /\ loaded[i].envelope = Envelope(order[i])
    BY <2>4 DEF Backend!RequestEntry
  <2>6. /\ request.entries = loaded
        /\ request.first = loaded[1].sequence
        /\ request.last = loaded[Len(loaded)].sequence
        /\ request.submittedAt = batch[b].submittedAt
        /\ request.environment = binding.environment
        /\ request.software = binding.software
    BY DEF LoadSynchronizationBatchRequest, RequestOf, Backend!SynchronizationBatchRequest,
           S, sequence, order
  <2>7. loaded \in Seq({loaded[i] : i \in 1..n}) /\ Len(loaded) = n
    <3>1. loaded \in [1..n -> {loaded[i] : i \in 1..n}]
      BY <2>5
    <3>. HIDE DEF loaded
    <3>. QED
      BY <2>2, <3>1, SMTT(30)
  <2>8. request.submittedAt >= 0
    <3>1. batch[b].submittedAt \in Time
      BY DEF SyncInd, QueueInd, StoreInd, StoreTypeOK, BatchRow, OptionalTime
    <3>2. Time \subseteq Nat
      BY ConstantsAssumption
    <3>. HIDE DEF loaded, request
    <3>3. request.submittedAt \in Nat
      BY <2>6, <3>1, <3>2
    <3>. QED
      BY <3>3, SMTT(30)
  <2>. HIDE DEF loaded, request
  <2>9. \A i \in 1..n : order[i] \in S /\ sequence[order[i]] \in Nat
    BY <2>3, <2>4
  <2>10. Backend!ValidEntryCount(Len(loaded)) <=> Cardinality(batch[b].entries) <= MaxEntries
    <3>1. MaxEntries \in Nat
      BY SyncAssumption
    <3>2. n \in 1..MaxEntries <=> n <= MaxEntries
      BY <2>2, <3>1, SMTT(30)
    <3>. QED
      BY <2>7, <3>2 DEF Backend!ValidEntryCount, n, S
  <2>11. Backend!ValidBoundarySequences(request.first, request.last, loaded)
    <3>1. request.first <= request.last
      <4>1. CASE n = 1
        BY <2>2, <2>5, <2>6, <2>7, <2>9, <4>1, SMTT(30)
      <4>2. CASE n > 1
        BY <2>2, <2>4, <2>5, <2>6, <2>7, <2>9, <4>2, SMTT(30)
      <4>. QED
        BY <2>2, <4>1, <4>2, SMTT(30)
    <3>2. Head(loaded) = loaded[1]
      BY <2>2, <2>7, SMTT(30)
    <3>. QED
      BY <2>6, <3>1, <3>2 DEF Backend!ValidBoundarySequences
  <2>12. Backend!IsInjective([i \in DOMAIN loaded |-> loaded[i].txn])
    <3>1. \A i, j \in 1..n : order[i] = order[j] => i = j
      BY <2>2, <2>4, <2>9, SMTT(30)
    <3>. QED
      BY <2>5, <3>1, SMTT(30) DEF Backend!IsInjective
  <2>13. Backend!IncreasingSequences(loaded)
    BY <2>2, <2>4, <2>5, <2>7, SMTT(30) DEF Backend!IncreasingSequences
  <2>14. Backend!ValidRequest(request) <=> Cardinality(batch[b].entries) <= MaxEntries
    BY <2>6, <2>8, <2>10, <2>11, <2>12, <2>13 DEF Backend!ValidRequest, Backend!ValidEntries
  <2>15. Backend!ValidFields(request) <=>
           /\ \A t \in batch[b].entries : Backend!ValidEnvelope(Envelope(t))
           /\ {binding.environment, binding.software} \subseteq ProtocolText
    <3>1. (\A i \in 1..n : Backend!ValidEnvelope(loaded[i].envelope)) <=>
            \A t \in S : Backend!ValidEnvelope(Envelope(t))
      <4>1. \A i \in 1..n : loaded[i].envelope = Envelope(order[i])
        BY <2>5
      <4>2. /\ \A i \in 1..n : order[i] \in S
            /\ \A t \in S : \E i \in 1..n : order[i] = t
        BY <2>4, <2>9
      <4>3. (\A i \in 1..n : Backend!ValidEnvelope(Envelope(order[i]))) <=>
              \A t \in S : Backend!ValidEnvelope(Envelope(t))
        BY <4>2
      <4>. QED
        BY <4>1, <4>3
    <3>. QED
      BY <2>5, <2>6, <3>1 DEF Backend!ValidFields, S
  <2>. QED
    BY <2>14, <2>15 DEF FitsProtocol, request
<1>1. ASSUME SyncInd
      PROVE  InFlightBatchLoads
  <2>. SUFFICES ASSUME NEW b \in Batch, batch[b] # NULL, batch[b].state = "in_flight"
                PROVE  RequestLoads(b) <=> FitsProtocol(b)
    BY DEF InFlightBatchLoads
  <2>1. batch[b].submittedAt # NULL
    BY <1>1 DEF SyncInd, QueueInd, StoreInd, SubmissionTimed
  <2>. QED
    BY <1>1, <2>1, <1>LoadsValid DEF RequestLoads
<1>. QED
  BY <1>1, SyncInvariant, PTL

=============================================================================

------------------------- MODULE CredentialLifecycle -------------------------
(***************************************************************************)
(* The credential use cases (crates/application/src/use_cases) over the    *)
(* PostgreSQL unit of work (crates/persistence/src/transaction.rs).        *)
(*                                                                         *)
(* A unit of work reads what it needs in one action, which also computes   *)
(* what the use case will write (there is no read after the first write).  *)
(* Every statement that writes is then a step of its own, as is the        *)
(* commit, so the steps of concurrent units interleave.  The database runs *)
(* at READ COMMITTED: a read sees committed rows only, and a write waits   *)
(* for another unit that holds the same key until that unit ends.          *)
(***************************************************************************)
EXTENDS FareCredentials, DomainEvents, Sequences, Functions

CONSTANTS
    Unit,              \* units of work that may be open at once
    DirectCredential,  \* credentials that callers of the bare repository save
    ChangingAccount,   \* accounts that other callers change
    (* the constants of TransitAccounts *)
    Currency, MaxUnits, Rider, Eligibility, Amount

VARIABLES
    credentials,    \* the table fare_credentials, by credential
    events,         \* the credential events of the table domain_events
    unit,           \* the open units of work
    accounts        \* the table transit_accounts

tables == <<credentials, events>>
vars == <<credentials, events, unit, accounts>>

Accounts == INSTANCE TransitAccounts WITH
    AccountSession <- {}, accountSession <- <<>>

(* NULL is no credential, reason or row. *)
ASSUME CredentialAssumption ==
    /\ MaxVersion \in Nat \ {0}
    /\ NULL \notin Credential /\ NULL \notin RevocationReason
    /\ NULL \notin FareCredentialRow

-----------------------------------------------------------------------------
(* The events of credentials: an issue names the owner, and is taken for the
   change from no status to pending. *)

CredentialEvent ==
    [version: 1..MaxVersion,
     payload: [name: EventNames.fare_credential, aggregate: Credential,
               previous: FareCredentialStatus \cup {NULL}, current: FareCredentialStatus,
               account: Account \cup {NULL}]]

Issued(id, account) ==
    NewEvent(1, [name |-> "fare_credential.issued", aggregate |-> id, previous |-> NULL,
                 current |-> "pending", account |-> account])

StatusChanged(id, version, previous, current) ==
    NewEvent(version, [name |-> "fare_credential.status_changed", aggregate |-> id,
                       previous |-> previous, current |-> current, account |-> NULL])

-----------------------------------------------------------------------------
(* Statements and units of work *)

MustNotExist == 0  \* any other condition is IfVersion(expected)

Save(id, aggregate, expected) ==
    [op |-> "save", id |-> id, expected |-> expected,
     row |-> [aggregate |-> aggregate, version |-> expected + 1]]

AppendEvent(event) == [op |-> "append", event |-> event]

Begun(plan) == [plan |-> plan, rows |-> <<>>, events |-> {}]

(* The unit v has written, and not committed, a key that the statement writes. *)
ConflictsWith(v, statement) ==
    unit[v] # NULL /\
    IF statement.op = "save"
    THEN \/ statement.id \in DOMAIN unit[v].rows
         \/ /\ statement.row.aggregate.replacement # NULL
            /\ \E id \in DOMAIN unit[v].rows :
                 unit[v].rows[id].aggregate.replacement = statement.row.aggregate.replacement
    ELSE \E e \in unit[v].events : SameKey(e, statement.event)

WaitsFor(u, v) ==
    u # v /\ unit[u] # NULL /\ unit[u].plan # <<>> /\ ConflictsWith(v, Head(unit[u].plan))

Blocked(u) == \E v \in Unit : WaitsFor(u, v)

-----------------------------------------------------------------------------
(* The writing statements *)

ReplacementTaken(id, aggregate) ==
    /\ aggregate.replacement # NULL
    /\ \E other \in Credential \ {id} :
         credentials[other] # NULL /\
         credentials[other].aggregate.replacement = aggregate.replacement

InsertAccepted(statement) ==
    /\ credentials[statement.id] = NULL
    /\ accounts[statement.row.aggregate.account] # NULL

(* Plausible mistake in UpdateAccepted: the version is not compared. *)
UpdateAnyAccepted(statement) ==
    /\ credentials[statement.id] # NULL
    /\ statement.expected < MaxVersion

UpdateAccepted(statement) ==
    /\ statement.expected < MaxVersion
    /\ credentials[statement.id] # NULL
    /\ credentials[statement.id].version = statement.expected

(* save: exactly one row is written, and no unique constraint is violated. *)
SaveAccepted(statement) ==
    /\ IF statement.expected = MustNotExist
       THEN InsertAccepted(statement) ELSE UpdateAccepted(statement)
    /\ ~ReplacementTaken(statement.id, statement.row.aggregate)

AppendAccepted(statement) ==
    \A e \in events : ~SameKey(e, statement.event)

StatementAccepted(statement) ==
    IF statement.op = "save" THEN SaveAccepted(statement) ELSE AppendAccepted(statement)

End(u) == unit' = [unit EXCEPT ![u] = NULL]

(* The next statement of the plan succeeds. *)
Execute(u) ==
    /\ unit[u] # NULL /\ unit[u].plan # <<>> /\ ~Blocked(u)
    /\ LET statement == Head(unit[u].plan) IN
         /\ StatementAccepted(statement)
         /\ unit' = [unit EXCEPT ![u] =
              [plan |-> Tail(unit[u].plan),
               rows |-> IF statement.op = "save"
                        THEN [id \in DOMAIN unit[u].rows \cup {statement.id} |->
                                IF id = statement.id THEN statement.row
                                ELSE unit[u].rows[id]]
                        ELSE unit[u].rows,
               events |-> IF statement.op = "append"
                          THEN unit[u].events \cup {statement.event}
                          ELSE unit[u].events]]
    /\ UNCHANGED <<tables, accounts>>

(* Plausible mistake in Refuse: a lost race is tried again, for ever. *)
RefuseAndRetry(u) ==
    /\ unit[u] # NULL /\ unit[u].plan # <<>> /\ ~Blocked(u)
    /\ ~StatementAccepted(Head(unit[u].plan))
    /\ UNCHANGED <<unit, tables, accounts>>

(* The next statement fails, and rollback_with ends the unit. *)
Refuse(u) ==
    /\ unit[u] # NULL /\ unit[u].plan # <<>> /\ ~Blocked(u)
    /\ ~StatementAccepted(Head(unit[u].plan))
    /\ End(u)
    /\ UNCHANGED <<tables, accounts>>

CommittedRows(u) ==
    [id \in Credential |-> IF id \in DOMAIN unit[u].rows THEN unit[u].rows[id]
                           ELSE credentials[id]]

(* The foreign key of replacement_id is checked when the unit commits. *)
ReplacementsExist(rows) ==
    \A id \in Credential :
      rows[id] # NULL /\ rows[id].aggregate.replacement # NULL =>
        rows[rows[id].aggregate.replacement] # NULL

Commit(u) ==
    /\ unit[u] # NULL /\ unit[u].plan = <<>>
    /\ IF ReplacementsExist(CommittedRows(u))
       THEN /\ credentials' = CommittedRows(u)
            /\ events' = events \cup unit[u].events
       ELSE UNCHANGED tables
    /\ End(u)
    /\ UNCHANGED accounts

(* The clock, the connection or the process fails, or the client goes away:
   the open transaction is rolled back. *)
Fail(u) ==
    /\ unit[u] # NULL
    /\ End(u)
    /\ UNCHANGED <<tables, accounts>>

(* PostgreSQL cancels a statement that waits in a cycle. *)
DetectDeadlock(u) ==
    /\ \E cycle \in SUBSET Unit :
         u \in cycle /\ \A v \in cycle : \E w \in cycle : WaitsFor(v, w)
    /\ End(u)
    /\ UNCHANGED <<tables, accounts>>

-----------------------------------------------------------------------------
(* The use cases, up to their first write *)

Start(u, plan) ==
    /\ unit[u] = NULL
    /\ unit' = [unit EXCEPT ![u] = Begun(plan)]
    /\ UNCHANGED <<tables, accounts>>

(* find_transit_account *)
LoadedAccount(a) ==
    IF accounts[a] = NULL THEN {} ELSE Accounts!AccountIntoVersioned(accounts[a])

(* find_fare_credential *)
Loaded(id) == IF credentials[id] = NULL THEN {} ELSE IntoVersioned(id, credentials[id])

IssueFareCredential(u, a, id) ==
    /\ \E account \in LoadedAccount(a) : account.status = "active"
    /\ \E event \in Issued(id, a) :
         Start(u, << Save(id, NewPending(a), MustNotExist), AppendEvent(event) >>)

(* Plausible mistake in ChangeStatus: the event is not appended. *)
ChangeStatusOnly(u, id, row, changed) ==
    Start(u, << Save(id, changed, row.version) >>)

(* What activate, suspend and revoke share: the changed aggregate is saved with
   the event of the next version. *)
ChangeStatus(u, id, row, changed) ==
    \E event \in StatusChanged(id, row.version + 1, row.aggregate.status, changed.status) :
      Start(u, << Save(id, changed, row.version), AppendEvent(event) >>)

(* A credential that already has the target status is answered as unchanged,
   and nothing is written. *)
ActivateFareCredential(u, id) ==
    \E row \in Loaded(id) : \E changed \in Activate(row.aggregate) :
      row.aggregate.status # "active" /\ ChangeStatus(u, id, row, changed)

SuspendFareCredential(u, id) ==
    \E row \in Loaded(id) : \E changed \in Suspend(row.aggregate) :
      row.aggregate.status # "suspended" /\ ChangeStatus(u, id, row, changed)

RevokeFareCredential(u, id, reason) ==
    \E row \in Loaded(id) : \E changed \in Revoke(row.aggregate, reason) :
      row.aggregate.status # "revoked" /\ ChangeStatus(u, id, row, changed)

(* Plausible mistake in ReplaceFareCredential: the successor is given to the
   account that asks, not to the owner of the original. *)
ReplaceForAnyAccount(u, id, successor) ==
    \E row \in Loaded(id) : \E replaced \in ReplaceWith(id, row.aggregate, successor) :
    \E a \in Account :
      /\ row.aggregate.status # "replaced"
      /\ \E event \in StatusChanged(id, row.version + 1, row.aggregate.status, "replaced"),
            issued \in Issued(successor, a) :
           Start(u, << Save(id, replaced, row.version),
                       Save(successor, NewPending(a), MustNotExist),
                       AppendEvent(event), AppendEvent(issued) >>)

(* What a replacement of a credential that is already replaced answers: the
   recorded successor, or {} for one of its three conflicts. *)
RecordedSuccessor(id) ==
    {successor \in Credential :
       \E row \in Loaded(id) :
         /\ row.aggregate.status = "replaced"
         /\ row.aggregate.replacement = successor
         /\ \E recorded \in Loaded(successor) :
              recorded.aggregate.account = row.aggregate.account}

ReplaceFareCredential(u, id, successor) ==
    \E row \in Loaded(id) : \E replaced \in ReplaceWith(id, row.aggregate, successor) :
      /\ row.aggregate.status # "replaced"
      /\ \E event \in StatusChanged(id, row.version + 1, row.aggregate.status, "replaced"),
            issued \in Issued(successor, row.aggregate.account) :
           Start(u, << Save(id, replaced, row.version),
                       Save(successor, NewPending(row.aggregate.account), MustNotExist),
                       AppendEvent(event), AppendEvent(issued) >>)

(* A caller of FareCredentialRepository that loads a credential, calls it and
   saves it, without an event. *)
SaveFareCredential(u, id) ==
    /\ id \in DirectCredential
    /\ \E row \in Loaded(id) : \E changed \in CredentialCalls(id, row.aggregate) :
         Start(u, << Save(id, changed, row.version) >>)

-----------------------------------------------------------------------------
(* The specification *)

(* The accounts exist before the first credential is issued. *)
Init ==
    /\ credentials = [id \in Credential |-> NULL]
    /\ events = {}
    /\ unit = [u \in Unit |-> NULL]
    /\ \E rider \in Bijection(Account, Rider), e \in Eligibility, c \in Currency :
         accounts = [a \in Account |->
           [version |-> 1,
            aggregate |-> CHOOSE n \in Accounts!NewAccount(rider[a], e, Accounts!Zero(c)) : TRUE]]

UseCase(u) ==
    \/ \E a \in Account, id \in Credential : IssueFareCredential(u, a, id)
    \/ \E id \in Credential :
         \/ ActivateFareCredential(u, id)
         \/ SuspendFareCredential(u, id)
         \/ \E reason \in RevocationReason : RevokeFareCredential(u, id, reason)
         \/ \E successor \in Credential : ReplaceFareCredential(u, id, successor)
         \/ SaveFareCredential(u, id)

(* Another caller loads an account, calls it and saves it.  A save succeeds only
   on the version that was loaded, so the three happen as one step. *)
ChangeAccount(a) ==
    /\ accounts[a].version < MaxVersion
    /\ \E account \in LoadedAccount(a) : \E changed \in Accounts!AccountCalls(account) :
         accounts' = [accounts EXCEPT ![a] =
                        [aggregate |-> changed, version |-> @.version + 1]]
    /\ UNCHANGED <<tables, unit>>

Next ==
    \/ \E u \in Unit : UseCase(u) \/ Execute(u) \/ Refuse(u) \/ Commit(u) \/ Fail(u)
                       \/ DetectDeadlock(u)
    \/ \E a \in ChangingAccount : ChangeAccount(a)

Spec == Init /\ [][Next]_vars

(* A unit's task is polled until it ends, PostgreSQL grants locks in the order
   of their requests (hence strong fairness), and its deadlock detector runs. *)
Fairness ==
    \A u \in Unit : /\ SF_vars(Execute(u) \/ Refuse(u))
                    /\ WF_vars(Commit(u))
                    /\ WF_vars(DetectDeadlock(u))

FairSpec == Spec /\ Fairness

-----------------------------------------------------------------------------
(* Properties *)

TypeOK ==
    /\ credentials \in [Credential -> FareCredentialRow \cup {NULL}]
    /\ events \subseteq CredentialEvent
    /\ DOMAIN unit = Unit
    /\ \A u \in Unit : unit[u] # NULL =>
         /\ Len(unit[u].plan) <= 4
         /\ unit[u].events \subseteq CredentialEvent
         /\ \A id \in DOMAIN unit[u].rows : unit[u].rows[id] \in FareCredentialRow

(* Every stored credential can be loaded again, as it was saved: whatever chain
   of calls led to it, into_versioned rebuilds the same aggregate. *)
StoredCredentialLoads ==
    \A id \in Credential : credentials[id] # NULL => Loaded(id) = {credentials[id]}

(* The event log of a credential that only the use cases change is exact: one
   event for every version up to the stored one and none beyond, the first an
   issue for the owning account, each one continuing from the status the
   previous one left, and the last one leaving the stored status. *)
EventLogExact ==
    \A id \in Credential \ DirectCredential :
      LET log == {e \in events : e.payload.aggregate = id}
          last == IF credentials[id] = NULL THEN 0 ELSE credentials[id].version
      IN  /\ {e.version : e \in log} = 1..last
          /\ \A e, f \in log : e.version = f.version => e = f
          /\ \A e \in log :
               /\ e.version = 1 =>
                    /\ e.payload.name = "fare_credential.issued"
                    /\ e.payload.account = credentials[id].aggregate.account
               /\ e.version = last => e.payload.current = credentials[id].aggregate.status
               /\ \A f \in log : f.version = e.version + 1 =>
                    f.payload.previous = e.payload.current

(* A credential that the use case replaced always has its one successor, a
   credential of the same account that succeeds no other, and following the
   successors never returns to where it began: a repeated replacement always
   finds the recorded successor. *)
SuccessorRecorded ==
    LET replaced == {id \in Credential : credentials[id] # NULL
                                         /\ credentials[id].aggregate.status = "replaced"}
        next(id) == credentials[id].aggregate.replacement
    IN  /\ \A id \in replaced \ DirectCredential :
             /\ RecordedSuccessor(id) = {next(id)}
             /\ \A other \in replaced \ {id} : next(other) # next(id)
        /\ \A set \in SUBSET (replaced \ DirectCredential) :
             set # {} => \E id \in set : next(id) \notin set

(* A revoked, expired or replaced credential is never changed again (a repeated
   call through the repository advances its version only), versions never go
   back, and no credential changes its account. *)
TerminalCredentialForever ==
    [][\A id \in Credential : credentials[id] # NULL =>
         LET old == credentials[id] new == credentials'[id] IN
           /\ new.version >= old.version
           /\ new.aggregate.account = old.aggregate.account
           /\ old.aggregate.status \in Terminal => new.aggregate = old.aggregate]_vars

(* Every unit of work ends, although units wait for each other's rows. *)
UnitsEnd == \A u \in Unit : unit[u] # NULL ~> unit[u] = NULL

=============================================================================

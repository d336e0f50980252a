-------------------------- MODULE TransitAccounts --------------------------
(***************************************************************************)
(* Transit accounts: the aggregate of crates/domain/src/account.rs and its *)
(* PostgreSQL repository (repositories/transit_account.rs).  As in         *)
(* EquipmentRegistry, sessions load an aggregate, call it and save it if   *)
(* the stored version is still the one they loaded, and a call is the set  *)
(* of its results.                                                         *)
(***************************************************************************)
EXTENDS Money, Versions, Eligibilities

CONSTANTS
    Account,         \* account identities
    Rider,           \* rider identities
    Amount,          \* amounts that are credited and debited
    AccountSession   \* callers that load, change and save accounts

ASSUME AccountsAssumption ==
    /\ MaxUnits \in Nat
    /\ MaxVersion \in Nat \ {0}
    /\ Amount \subseteq Money

VARIABLES
    accounts,       \* the table transit_accounts, by account
    accountSession  \* what each session has loaded and changed

accountVars == <<accounts, accountSession>>

-----------------------------------------------------------------------------
(* The stored-value balance *)

ValidBalance(amount) == amount.units >= 0

Credit(balance, amount) ==
    IF amount.units > 0 THEN CheckedAdd(balance, amount) ELSE {}

Debit(balance, amount) ==
    IF amount.units > 0
    THEN {updated \in CheckedSubtract(balance, amount) : updated.units >= 0}
    ELSE {}

-----------------------------------------------------------------------------
(* The aggregate *)

TransitAccountStatus == {"active", "suspended", "closed"}

TransitAccount ==
    [rider: Rider, status: TransitAccountStatus, eligibility: Eligibility,
     balance: {amount \in Money : ValidBalance(amount)}]

NewAccount(rider, eligibility, balance) ==
    IF ValidBalance(balance)
    THEN {[rider |-> rider, status |-> "active", eligibility |-> eligibility,
           balance |-> balance]}
    ELSE {}

(* Suspended accounts may receive funds, closed ones may not. *)
CreditStoredValue(account, amount) ==
    {[account EXCEPT !.balance = balance] :
       balance \in IF account.status = "closed" THEN {}
                   ELSE Credit(account.balance, amount)}

DebitStoredValue(account, amount) ==
    {[account EXCEPT !.balance = balance] :
       balance \in IF account.status = "active"
                   THEN Debit(account.balance, amount) ELSE {}}

SuspendAccount(account) ==
    IF account.status = "closed" THEN {} ELSE {[account EXCEPT !.status = "suspended"]}

ReactivateAccount(account) ==
    IF account.status = "closed" THEN {} ELSE {[account EXCEPT !.status = "active"]}

CloseAccount(account) == {[account EXCEPT !.status = "closed"]}

ChangeEligibility(account, eligibility) ==
    IF account.status = "closed" THEN {}
    ELSE {[account EXCEPT !.eligibility = eligibility]}

AccountCalls(account) ==
    SuspendAccount(account) \cup ReactivateAccount(account) \cup CloseAccount(account)
    \cup (UNION {ChangeEligibility(account, e) : e \in Eligibility})
    \cup (UNION {CreditStoredValue(account, amount) \cup DebitStoredValue(account, amount) :
                   amount \in Amount})

-----------------------------------------------------------------------------
(* The repository *)

TransitAccountRow == [aggregate: TransitAccount, version: 1..MaxVersion]

ASSUME AccountRowAssumption == NULL \notin TransitAccountRow

(* into_versioned: the row is rebuilt as a new account that is then suspended
   or closed; {} when it cannot be. *)
AccountIntoVersioned(row) ==
    LET a == row.aggregate
        new == NewAccount(a.rider, a.eligibility, a.balance)
    IN  CASE a.status = "active" -> new
          [] a.status = "suspended" -> UNION {SuspendAccount(n) : n \in new}
          [] a.status = "closed" -> UNION {CloseAccount(n) : n \in new}

RiderTaken(rider, a) ==
    \E b \in Account \ {a} : accounts[b] # NULL /\ accounts[b].aggregate.rider = rider

AccountsInit ==
    /\ accounts = [a \in Account |-> NULL]
    /\ accountSession = [s \in AccountSession |-> NULL]

(* save with MustNotExist: a taken identity or rider is a unique violation. *)
InsertAccount(a, rider, eligibility, balance) ==
    /\ accounts[a] = NULL
    /\ ~RiderTaken(rider, a)
    /\ \E account \in NewAccount(rider, eligibility, balance) :
         accounts' = [accounts EXCEPT ![a] = [aggregate |-> account, version |-> 1]]
    /\ UNCHANGED accountSession

FindAccount(s, a) ==
    /\ accountSession[s] = NULL
    /\ accounts[a] # NULL
    /\ \E account \in AccountIntoVersioned(accounts[a]) :
         accountSession' = [accountSession EXCEPT ![s] =
           [account |-> a, aggregate |-> account, loaded |-> account,
            version |-> accounts[a].version]]
    /\ UNCHANGED accounts

CallAccount(s) ==
    /\ accountSession[s] # NULL
    /\ \E account \in AccountCalls(accountSession[s].aggregate) :
         accountSession' = [accountSession EXCEPT ![s].aggregate = account]
    /\ UNCHANGED accounts

(* Plausible mistake in UpdateAccount: the status is compared, not the version. *)
UpdateSameStatus(s) ==
    /\ accountSession[s] # NULL
    /\ LET a == accountSession[s].account IN
         /\ accounts[a].version < MaxVersion
         /\ accounts[a].aggregate.status = accountSession[s].loaded.status
         /\ accounts' = [accounts EXCEPT ![a] =
              [aggregate |-> accountSession[s].aggregate,
               version |-> accounts[a].version + 1]]
    /\ accountSession' = [accountSession EXCEPT ![s] = NULL]

(* save with IfVersion. *)
UpdateAccount(s) ==
    /\ accountSession[s] # NULL
    /\ LET a == accountSession[s].account IN
         /\ accountSession[s].version < MaxVersion
         /\ accounts[a].version = accountSession[s].version
         /\ accounts' = [accounts EXCEPT ![a] =
              [aggregate |-> accountSession[s].aggregate,
               version |-> accountSession[s].version + 1]]
    /\ accountSession' = [accountSession EXCEPT ![s] = NULL]

(* A session that ends without a save. *)
DropAccount(s) ==
    /\ accountSession[s] # NULL
    /\ accountSession' = [accountSession EXCEPT ![s] = NULL]
    /\ UNCHANGED accounts

AccountsNext ==
    \/ \E a \in Account, rider \in Rider, eligibility \in Eligibility,
          currency \in Currency : InsertAccount(a, rider, eligibility, Zero(currency))
    \/ \E a \in Account, rider \in Rider, eligibility \in Eligibility,
          balance \in Amount : InsertAccount(a, rider, eligibility, balance)
    \/ \E s \in AccountSession :
         \/ \E a \in Account : FindAccount(s, a)
         \/ CallAccount(s)
         \/ UpdateAccount(s)
         \/ DropAccount(s)

AccountsSpec == AccountsInit /\ [][AccountsNext]_accountVars

-----------------------------------------------------------------------------
(* Properties *)

(* Stored balances are never negative and fit an i64, and every stored account
   is rebuilt by into_versioned into the aggregate that was saved. *)
StoredAccountLoads ==
    \A a \in Account : accounts[a] # NULL =>
      /\ accounts[a] \in TransitAccountRow
      /\ AccountIntoVersioned(accounts[a]) = {accounts[a].aggregate}

(* No credit or debit is lost: a save changes the stored balance by exactly
   what its own session credited and debited, however many sessions loaded the
   same account. *)
BalanceConserved ==
    [][\A s \in AccountSession :
         accountSession[s] # NULL /\ accounts' # accounts /\ accountSession'[s] = NULL =>
           LET a == accountSession[s].account IN
           accounts'[a].aggregate.balance.units - accounts[a].aggregate.balance.units
             = accountSession[s].aggregate.balance.units
                 - accountSession[s].loaded.balance.units]_accountVars

(* A closed account is never changed again, and no account changes its rider
   or its currency. *)
ClosedForever ==
    [][\A a \in Account : accounts[a] # NULL =>
         LET old == accounts[a].aggregate
             new == accounts'[a].aggregate
         IN  /\ old.status = "closed" => new = old
             /\ new.rider = old.rider
             /\ new.balance.currency = old.balance.currency]_accountVars

=============================================================================

-------------------------- MODULE FareTransactions --------------------------
(***************************************************************************)
(* Fare transactions (crates/domain/src/transaction.rs): the record of a   *)
(* tap, its one authoritative decision and its reconciliation.  Callers    *)
(* may repeat or reorder the calls, and may bring different decisions for  *)
(* one transaction (a reader's offline one and a later one, say).          *)
(***************************************************************************)
EXTENDS Integers, Absent

CONSTANTS
    Transaction,      \* identities of transactions
    ApprovalReason,   \* FareApprovalReason
    RejectionReason,  \* FareRejectionReason
    Charge            \* minor units a caller may ask to charge, negative ones included

ASSUME TransactionsAssumption == Charge \subseteq Int /\ NULL \notin [approved : BOOLEAN,
                                     charged : Int, reason : ApprovalReason \cup RejectionReason]

VARIABLES
    transactions,  \* the transaction of each identity, NULL before it is created
    accepted       \* the decisions whose recording was answered with Ok

transactionVars == <<transactions, accepted>>

-----------------------------------------------------------------------------
(* Decisions *)

FareProcessingMode == {"online", "offline"}

FareTransactionStatus == {"pending_decision", "decided", "reconciled"}

(* FareDecision::approved refuses a negative charge; {} is its error. *)
ApprovedDecision(charged, reason) ==
    IF charged < 0 THEN {} ELSE {[approved |-> TRUE, charged |-> charged, reason |-> reason]}

RejectedDecision(reason) == [approved |-> FALSE, charged |-> 0, reason |-> reason]

(* The decisions that can be constructed or deserialized. *)
FareDecision ==
    (UNION {ApprovedDecision(c, r) : c \in Charge, r \in ApprovalReason})
    \cup {RejectedDecision(r) : r \in RejectionReason}

FareTransaction ==
    [mode : FareProcessingMode, status : FareTransactionStatus, decision : FareDecision \cup {NULL}]

ASSUME FareTransactionAssumption == NULL \notin FareTransaction

(* Types of the variables. *)
TransactionsTypeOK ==
    /\ transactions \in [Transaction -> FareTransaction \cup {NULL}]
    /\ accepted \subseteq Transaction \X FareDecision

-----------------------------------------------------------------------------
(* Operations *)

TransactionsInit ==
    /\ transactions = [t \in Transaction |-> NULL]
    /\ accepted = {}

NewPendingTransaction(t, mode) ==
    /\ transactions[t] = NULL
    /\ transactions' = [transactions EXCEPT
         ![t] = [mode |-> mode, status |-> "pending_decision", decision |-> NULL]]
    /\ UNCHANGED accepted

(* The first decision is stored, an equal one is accepted without a change, a
   different one is refused. *)
RecordDecision(t, decision) ==
    /\ transactions[t] # NULL
    /\ \/ /\ transactions[t].decision = NULL
          /\ transactions' = [transactions EXCEPT
               ![t].decision = decision, ![t].status = "decided"]
          /\ accepted' = accepted \cup {<<t, decision>>}
       \/ /\ transactions[t].decision = decision
          /\ accepted' = accepted \cup {<<t, decision>>}
          /\ UNCHANGED transactions
       \/ /\ transactions[t].decision \notin {NULL, decision}
          /\ UNCHANGED transactionVars

(* Plausible mistake in MarkReconciled: a second call takes the mark back. *)
MarkDecidedAgain(t) ==
    /\ transactions[t] # NULL
    /\ transactions[t].decision # NULL
    /\ transactions' = [transactions EXCEPT
         ![t].status = IF @ = "decided" THEN "reconciled" ELSE "decided"]
    /\ UNCHANGED accepted

MarkReconciled(t) ==
    /\ transactions[t] # NULL
    /\ \/ /\ transactions[t].status = "decided"
          /\ transactions' = [transactions EXCEPT ![t].status = "reconciled"]
          /\ UNCHANGED accepted
       \/ /\ transactions[t].status \in {"pending_decision", "reconciled"}
          /\ UNCHANGED transactionVars

TransactionsNext ==
    \E t \in Transaction :
      \/ \E mode \in FareProcessingMode : NewPendingTransaction(t, mode)
      \/ \E decision \in FareDecision : RecordDecision(t, decision)
      \/ MarkReconciled(t)

TransactionsSpec == TransactionsInit /\ [][TransactionsNext]_transactionVars

-----------------------------------------------------------------------------
(* Properties *)

(* All the callers whose decision was accepted by record_decision agree, and
   with the decision that is stored: duplicate processing cannot silently
   change a result. *)
AcceptedIsStored ==
    \A a \in accepted : transactions[a[1]] # NULL /\ transactions[a[1]].decision = a[2]

(* The status of a transaction tells whether it has a decision, and a decision
   that is stored never charges a negative amount: nothing undecided is
   reconciled. *)
StatusMatchesDecision ==
    \A t \in Transaction : transactions[t] # NULL =>
      /\ (transactions[t].status = "pending_decision") <=> (transactions[t].decision = NULL)
      /\ transactions[t].decision # NULL => transactions[t].decision.charged >= 0

(* A decision is final and a reconciliation is never undone, whatever calls
   record_decision and mark_reconciled receive later. *)
DecisionFinal ==
    [][\A t \in Transaction : transactions[t] # NULL =>
         /\ transactions'[t] # NULL
         /\ transactions[t].decision # NULL =>
              transactions'[t].decision = transactions[t].decision
         /\ transactions[t].status = "reconciled" =>
              transactions'[t].status = "reconciled"]_transactionVars

=============================================================================

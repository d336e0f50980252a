------------------------- MODULE TransactionDelivery -------------------------
(***************************************************************************)
(* What the synchronization promises for fare transactions, with no        *)
(* batches, messages, retries or crashes: the backend takes each recorded  *)
(* transaction at most once and under the sequence the reader gave it, and *)
(* the reader forgets about a transaction, as acknowledged or as failed    *)
(* permanently, only in accordance with what the backend has.  The one     *)
(* exception is a transaction about which something between the two has    *)
(* answered the reader in the place of the backend.                        *)
(***************************************************************************)
EXTENDS Naturals, FiniteSets

CONSTANT Txn

VARIABLES
    recorded,   \* the sequence of each transaction at the reader, 0 if none
    delivered,  \* the sequence of each transaction at the backend, 0 if none
    confirmed,  \* transactions the reader knows to be delivered
    discarded,  \* transactions the reader has given up for good
    misled      \* transactions refused by something other than the backend

deliveryVars == <<recorded, delivered, confirmed, discarded, misled>>

DeliveryInit ==
    /\ recorded = [t \in Txn |-> 0]
    /\ delivered = [t \in Txn |-> 0]
    /\ confirmed = {}
    /\ discarded = {}
    /\ misled = {}

(* Sequences are given out without a gap. *)
Record(t) ==
    /\ recorded[t] = 0
    /\ recorded' = [recorded EXCEPT ![t] =
                      Cardinality({u \in Txn : recorded[u] # 0}) + 1]
    /\ UNCHANGED <<delivered, confirmed, discarded, misled>>

(* Nothing that was given up on the word of the backend, or never sent, is
   delivered later. *)
Deliver(S) ==
    /\ \A t \in S : recorded[t] # 0 /\ t \notin discarded \ misled
    /\ delivered' = [t \in Txn |-> IF t \in S THEN recorded[t] ELSE delivered[t]]
    /\ UNCHANGED <<recorded, confirmed, discarded, misled>>

Confirm(S) ==
    /\ \A t \in S : delivered[t] # 0 /\ t \notin confirmed \cup discarded
    /\ confirmed' = confirmed \cup S
    /\ UNCHANGED <<recorded, delivered, discarded, misled>>

Discard(S) ==
    /\ \A t \in S : recorded[t] # 0 /\ (delivered[t] = 0 \/ t \in misled)
    /\ discarded' = discarded \cup S
    /\ UNCHANGED <<recorded, delivered, confirmed, misled>>

(* An answer that looks like a final refusal and is not the backend's. *)
Mislead(S) ==
    /\ \A t \in S : recorded[t] # 0
    /\ misled' = misled \cup S
    /\ UNCHANGED <<recorded, delivered, confirmed, discarded>>

DeliveryNext ==
    \/ \E t \in Txn : Record(t)
    \/ \E S \in SUBSET Txn : Deliver(S) \/ Confirm(S) \/ Discard(S) \/ Mislead(S)

DeliverySpec == DeliveryInit /\ [][DeliveryNext]_deliveryVars

=============================================================================

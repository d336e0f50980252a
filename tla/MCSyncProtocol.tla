--------------------------- MODULE MCSyncProtocol ---------------------------
(* Small instances of SyncProtocol for TLC. *)
EXTENDS SyncProtocol

CONSTANTS t1, t2, t3, r1, env

MCIdentity == [reader: {r1}, environment: {env}, software: {"1.0", "1.1"}]

(* A software version that the database accepts and the protocol does not. *)
AnyIdentity == [reader: {r1}, environment: {env}, software: {"1.0", "long"}]

MCProtocolText == {env, "1.0", "1.1"}

(* t3 is no JSON object; a batch of t1 and t2 has too many entries. *)
PlainObjects == Txn \ {t3}

(* One status for each category, and one that falls through. *)
Statuses == {404, 408, 409, 413, 503}

(* A batch of both transactions exceeds MaxRequestBytes = 2, each alone does
   not. *)
LargeTogether == [t \in Txn |-> IF t = t1 THEN 1 ELSE 2]

SmallTogether == [t \in Txn |-> 1]
=============================================================================

------------------------------ MODULE Versions ------------------------------
(* The versions of stored aggregates: 1 when a row is inserted, one more at
   every update. *)
EXTENDS Integers, Absent

CONSTANT MaxVersion  \* the largest aggregate_version (i64::MAX in the code)

=============================================================================

-------------------------------- MODULE Money --------------------------------
(***************************************************************************)
(* Monetary values (crates/domain/src/money.rs): signed minor units of one *)
(* currency, in the range of an i64.  An operation is the set of its       *)
(* results: {} when it returns an error (a currency mismatch or an         *)
(* overflow), so a chain of fallible operations is a union.                *)
(***************************************************************************)
EXTENDS Integers

CONSTANTS
    Currency,  \* supported currencies
    MaxUnits   \* i64::MAX; the smallest value is -MaxUnits - 1

Units == (-MaxUnits - 1)..MaxUnits

Money == [units: Units, currency: Currency]

FromMinorUnits(units, currency) == [units |-> units, currency |-> currency]

Zero(currency) == FromMinorUnits(0, currency)

(* A result in the range of the representation, or an overflow. *)
Checked(units, currency) ==
    IF units \in Units THEN {FromMinorUnits(units, currency)} ELSE {}

CheckedAdd(a, b) ==
    IF a.currency = b.currency THEN Checked(a.units + b.units, a.currency) ELSE {}

CheckedSubtract(a, b) ==
    IF a.currency = b.currency THEN Checked(a.units - b.units, a.currency) ELSE {}

(* The comparisons of values of one currency. *)
Comparable(a, b) == a.currency = b.currency

=============================================================================

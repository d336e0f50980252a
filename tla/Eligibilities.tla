---------------------------- MODULE Eligibilities ----------------------------
(* The eligibility classifications of riders (crates/domain/src/account.rs),
   which accounts hold and fare policies give discounts to. *)
CONSTANT Eligibility

=============================================================================

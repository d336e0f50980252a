------------------------ MODULE MCCredentialLifecycle ------------------------
(* CredentialLifecycle for TLC. *)
EXTENDS CredentialLifecycle, TLC

(* Accounts are changed in status only. *)
MCAmount == {}

(* Units of work are interchangeable. *)
Symmetry == Permutations(Unit)

=============================================================================

------------------------------- MODULE Absent -------------------------------
(* The value that stands for None in the code, and for an absent row. *)
CONSTANT NULL

=============================================================================

------------------------------- MODULE MCSort -------------------------------
(* Finite values for the constants of Sort. *)
EXTENDS Sort

MCValues == 1 .. 3
MCSizes == 0 .. 6
=============================================================================

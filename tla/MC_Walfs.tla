------------------------------ MODULE MC_Walfs ------------------------------
(* An instance of Walfs for TLC. *)
EXTENDS Walfs
=============================================================================

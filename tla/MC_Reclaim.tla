----------------------------- MODULE MC_Reclaim -----------------------------
(* An instance of Reclaim for TLC. *)
EXTENDS Reclaim
=============================================================================

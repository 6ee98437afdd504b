------------------------------- MODULE MC_Wal -------------------------------
(* Instances of Wal for TLC: the kinds of fault are chosen in the cfg.         *)
EXTENDS Wal
=============================================================================

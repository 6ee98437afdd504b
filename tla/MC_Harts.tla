------------------------------ MODULE MC_Harts ------------------------------
(* Instances of Harts for TLC. *)
EXTENDS Harts, TLC

Sym == Permutations(Harts) \cup Permutations(Pids) \cup Permutations(Frames)
=============================================================================

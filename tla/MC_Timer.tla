------------------------------ MODULE MC_Timer ------------------------------
(* An instance of Timer for TLC: a user's budget and the root's, with one       *)
(* thread each, whose timeouts may fall together.                               *)
EXTENDS Timer, TLC

CONSTANTS u, t1, t2

UserBudgetOf == t1 :> u @@ t2 :> Root
UserParent   == u :> Root

Sym == Permutations(Harts)
=============================================================================

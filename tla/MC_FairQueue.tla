---------------------------- MODULE MC_FairQueue ----------------------------
(* Instances of FairQueue for TLC. *)
EXTENDS FairQueue, TLC

CONSTANTS t1, t2, t3, u, v   \* threads: t1, t2, t3 of one group, u and v each of its own

MCGroupOf == [t \in Senders |-> CASE t \in {t1, t2, t3} -> 1 [] t = u -> 2 [] t = v -> 3]
Sym == Permutations({t1, t2, t3})
=============================================================================

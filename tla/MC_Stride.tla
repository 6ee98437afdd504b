------------------------------- MODULE MC_Stride -------------------------------
(* The stride queue: a root and the budgets boot makes under it.              *)
EXTENDS Stride

\* A budget of weight 1 carved from the first leaves weights 2, 4 and 1: on three harts the heaviest is over its share,
\* and the next is once that one's hart and weight are set aside.
BootOf == (1 :> 3) @@ (2 :> 4)
ParentsOf == (1 :> 0) @@ (2 :> 1)
================================================================================

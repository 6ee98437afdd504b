------------------------------- MODULE MC_Ipc -------------------------------
(* Instances of Ipc for TLC.  README.md explains the choices.                *)
EXTENDS Ipc, TLC

CONSTANTS ta, tb, ts, tr, ti,  \* threads: of clients, of server PS (two), of PI
          PA, PB, PS, PI,      \* processes; PI is told of exits
          BA, BB, BS, BI,      \* their budgets
          E, X,                \* endpoints: the server's, and PI's
          g,                   \* a page of PA's
          f1, f2               \* frames of open calls

\* Each client in a process of its own; or ta and tb the two threads of PA.
MCProcOf == [t \in Threads |->
               CASE t = ta -> PA [] t = tb -> PB [] t \in {ts, tr} -> PS [] t = ti -> PI]
JointProcOf == [t \in Threads |->
                  CASE t \in {ta, tb} -> PA [] t \in {ts, tr} -> PS [] t = ti -> PI]
MCBudgetOf == [p \in Pids |-> CASE p = PA -> BA [] p = PB -> BB [] p = PS -> BS [] p = PI -> BI]
MCGroupOf == [x \in Budgets |-> x]
\* X is of a budget without a process, which may end before those who use X.
MCOwnerOf == [e \in Endpoints |-> IF e = E THEN BS ELSE BB]
MCReceives == {<<PS, E>>, <<PI, X>>} \cap (Pids \X Endpoints)
MCFlows == Budgets \X Budgets
MCFirstOwner == [x \in Pages |-> PA]

\* Nobody is told of an exit; or PI is, on X.
NoExitTo == [p \in Pids |-> None]
MCExitTo == [p \in Pids |-> IF p = PI THEN None ELSE X]

\* Handles on E: PA's stamped with its own budget, PB's with the server's.
MCHandles == {[pid |-> PA, to |-> E, stamp |-> BA], [pid |-> PB, to |-> E, stamp |-> BS]}
\* Handles on E stamped with another's budget, which may go first.
EndHandles == {[pid |-> PA, to |-> E, stamp |-> BS], [pid |-> PI, to |-> E, stamp |-> BA]}

MCLimit == [x \in Budgets |-> IF x = BS THEN 2 ELSE 1]

\* No budget is below another; or PA's is below the server's.
Flat == [x \in Budgets |-> {x}]
Nested == [x \in Budgets |-> IF x = BS THEN {BS, BA} ELSE {x}]
=============================================================================

------------------------------ MODULE StrideMath ------------------------------
(***************************************************************************)
(* The arithmetic of the stride queue, libs/stride/src/lib.rs 77-165: what *)
(* a charge, a weight change, a creation and a destruction do to a         *)
(* budget's pass and exact remainder.  Every operator here is a pure       *)
(* function of the states it is given; Stride.tla builds the queue on them.*)
(*                                                                         *)
(* A pass is a u128 that is only added to and compared and a remainder is  *)
(* below a 32-bit weight, so both are unbounded naturals here (the code's  *)
(* saturating operations are out of any run's reach).                      *)
(***************************************************************************)
EXTENDS Integers

CONSTANTS STRIDE,        \* the stride numerator, 2^20 in the code
          RUNTIME_CAP    \* the most runtime one charge counts, 2^40

ASSUME StrideAssumption == STRIDE \in Nat \ {0} /\ RUNTIME_CAP \in Nat \ {0}

\* State's default: where a budget stands before it has entered.
NewState == [pass |-> 0, entry |-> 0, rem |-> 0, tie |-> 0, queued |-> FALSE]

Max2(a, b) == IF a >= b THEN a ELSE b
Min2(a, b) == IF a <= b THEN a ELSE b

\* saturating_sub
Above(a, b) == Max2(a - b, 0)

charge(s, weight, runtime) ==
    LET t == s.rem + Min2(runtime, RUNTIME_CAP) * STRIDE
    IN  IF weight = 0 THEN s
        ELSE [s EXCEPT !.pass = @ + t \div weight, !.rem = t % weight]

\* What the budget owes is kept and restated at the new weight; at weight 0 it
\* is stated at weight 1.
rescale(s, old, new, floor) ==
    LET owed == Above(s.pass, floor) * Max2(old, 1) + s.rem
    IN  [s EXCEPT !.pass = floor + owed \div Max2(new, 1),
                  !.rem = owed % Max2(new, 1)]

\* A new budget enters at the floor, or at its parent's pass if that is above.
entry(floor, parent_pass) == Max2(floor, parent_pass)

\* The two remainders' carry is dropped.
lift_uncarried(parent, child, w_child, w_parent, f) ==
    LET work == Above(child.pass, Max2(child.entry, f)) * w_child + child.rem
    IN  IF w_parent = 0 THEN parent
        ELSE [parent EXCEPT !.pass = Max2(@, f) + work \div w_parent,
                            !.rem = (@ + work) % w_parent]

\* A destroyed child's work since its entry joins its parent's lead.
lift(parent, child, w_child, w_parent, f) ==
    LET work == Above(child.pass, Max2(child.entry, f)) * w_child + child.rem
        base == IF parent.pass >= f THEN parent.pass ELSE f
        rem  == (IF parent.pass >= f THEN parent.rem ELSE 0) + (work % w_parent)
    IN  IF w_parent = 0 THEN parent
        ELSE [parent EXCEPT !.pass = base + work \div w_parent + rem \div w_parent,
                            !.rem = rem % w_parent]

\* What a budget owes above a level, weighted; at weight 0 as at 1.
Owes(s, weight, level) == Above(s.pass, level) * Max2(weight, 1) + s.rem
================================================================================

------------------------------ MODULE FifoLock ------------------------------
(***************************************************************************)
(* What the kernel lock promises the rest of the kernel                     *)
(* (kernel/src/cell.rs, TicketLock; kernel/scheduling.md, R78): harts are   *)
(* served one at a time, in the order they came, and everyone is served.    *)
(***************************************************************************)
EXTENDS Integers, Sequences

CONSTANT Harts

VARIABLES queue,    \* the harts that came, in order, the served one first
          inside    \* the hart in a kernel section, if any: a set of at most one

vars == <<queue, inside>>

Queued == {queue[i] : i \in 1 .. Len(queue)}

Init == queue = <<>> /\ inside = {}

\* acquire: come last.
Come(h) == /\ h \notin Queued
           /\ queue' = Append(queue, h)
           /\ UNCHANGED inside

\* acquire returns: the first in the queue enters.
Enter(h) == /\ queue # <<>> /\ Head(queue) = h
            /\ inside = {}
            /\ inside' = {h}
            /\ UNCHANGED queue

\* release.
Leave(h) == /\ inside = {h}
            /\ queue # <<>> /\ Head(queue) = h
            /\ inside' = {}
            /\ queue' = Tail(queue)

Next == \E h \in Harts : Come(h) \/ Enter(h) \/ Leave(h)

Fairness == \A h \in Harts : WF_vars(Enter(h)) /\ WF_vars(Leave(h))

Safety == Init /\ [][Next]_vars

Spec == Safety /\ Fairness
=============================================================================

------------------------------ MODULE FairLine ------------------------------
(***************************************************************************)
(* The order of turns an endpoint's queue promises (kernel/ipc.md, R2): one *)
(* line of tokens, the messages in the order they arrived and, for each     *)
(* group with a message queued, its last take among them, at the place      *)
(* next_seq gave it.  A group's turn is due from its oldest message's       *)
(* arrival, or from its last take if that came later.                       *)
(***************************************************************************)
EXTENDS Integers, Sequences, FiniteSets

CONSTANT None

\* The members of s at the places in P, in order.
Kept(s, P) ==
  [n \in 1 .. Cardinality(P) |-> s[CHOOSE i \in P : Cardinality({j \in P : j <= i}) = n]]

\* The members of s outside S, in order.
Without(s, S) == Kept(s, {i \in DOMAIN s : s[i] \notin S})

\* A message that arrived, and its group's last take.
Arrival(g, t) == [group |-> g, thread |-> t]
TakeOf(g)     == [group |-> g, thread |-> None]

\* The places in line l of the messages of threads T.
Places(l, T) == {i \in DOMAIN l : l[i].thread # None /\ l[i].thread \in T}

\* key and send_key: when the turn of the group of the message at i falls due.
Due(l, i) ==
  LET takes == {j \in DOMAIN l : l[j] = TakeOf(l[i].group)}
  IN  IF \E j \in takes : j > i THEN CHOOSE j \in takes : TRUE ELSE i

\* pick: of the messages of threads T, the oldest of the group whose turn has been
\* due longest.
PickFrom(l, T) ==
  LET W == Places(l, T)
      heads == {i \in W : \A j \in W : l[j].group = l[i].group => i <= j}
  IN  l[CHOOSE i \in heads : \A j \in heads : Due(l, i) <= Due(l, j)].thread

\* dequeue: threads T leave the line; a group left with nothing keeps no take.
Dequeue(l, T) ==
  LET left == {i \in DOMAIN l : l[i].thread \notin T}
  IN  Kept(l, {i \in left : \E j \in left : l[j].group = l[i].group /\ l[j].thread # None})

\* served: group g has had its turn, due again from now.
Served(l, g) == Append(Without(l, {TakeOf(g)}), TakeOf(g))
=============================================================================

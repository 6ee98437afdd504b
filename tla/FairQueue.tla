----------------------------- MODULE FairQueue ------------------------------
(***************************************************************************)
(* An endpoint's queue as the kernel keeps it (libs/ipclist/src/lib.rs,      *)
(* "R2's groups"; called from kernel/src/message.rs).  The groups with a     *)
(* message queued are on one list in the order their turns fall due; those   *)
(* with a send queued are on another, for a receiver that takes no calls     *)
(* (R4a).  A group's node lives in its oldest message's thread, and moves    *)
(* when that one leaves.  A list is a sequence here: its links are left out. *)
(***************************************************************************)
EXTENDS Integers, Sequences, FiniteSets

CONSTANTS Senders,    \* threads that send on the endpoint
          GroupOf,    \* each one's group (Group::of)
          None,
          WaitCap,    \* WAIT_CAP
          MaxClock    \* bound: values of the one counter (next_seq)

ASSUME SendersAssumption == IsFiniteSet(Senders) /\ None \notin Senders /\ DOMAIN GroupOf = Senders
ASSUME GroupsAssumption == None \notin {GroupOf[t] : t \in Senders}
ASSUME CapAssumption == WaitCap \in Nat \ {0} /\ MaxClock \in Nat

Groups == {GroupOf[t] : t \in Senders}

VARIABLES
  queue,    \* the lists and the threads' words, see Queues
  clock,    \* Objects.next_seq
  sending,  \* the queued threads whose message is a send (W_KIND)
  passed    \* ghost: how often each group was taken while another's oldest waited

vars == <<queue, clock, sending, passed>>

\* A group's node: its two chains, G_COUNT and G_TAKEN.
NoNode == [sends |-> <<>>, calls |-> <<>>, count |-> 0, taken |-> 0]
Nodes  == [sends : Seq(Senders), calls : Seq(Senders), count : 0..WaitCap, taken : Nat]

\* E_GROUPS, E_SENDS; and each thread's node, T_GROUP and T_SEQ.
Queues == [groups : Seq(Senders), sends : Seq(Senders), node : [Senders -> Nodes],
           group : [Senders -> Senders \cup {None}], seq : [Senders -> Nat]]

QueueTypeOK ==
  /\ queue \in Queues /\ clock \in 0..MaxClock /\ sending \subseteq Senders
  /\ passed \in [BOOLEAN -> [Groups -> [Groups -> Nat]]]

-----------------------------------------------------------------------------
(* Lists.                                                                   *)

Members(s) == {s[i] : i \in DOMAIN s}
Larger(a, b) == IF a < b THEN b ELSE a
PlaceOf(s, x) == CHOOSE i \in DOMAIN s : s[i] = x

\* remove: x is unlinked, if it is on the list.
Without(s, x) ==
  IF x \notin Members(s) THEN s
  ELSE [i \in 1 .. Len(s) - 1 |-> IF i < PlaceOf(s, x) THEN s[i] ELSE s[i + 1]]

\* replace: y takes x's place.
Replaced(s, x, y) == [i \in DOMAIN s |-> IF s[i] = x THEN y ELSE s[i]]

\* moved_back: x's key rose, and it moves toward the tail, past every lower key.
MovedBack(s, x, key) ==
  LET at == PlaceOf(s, x)
      to == CHOOSE j \in at .. Len(s) :
              /\ \A i \in at + 1 .. j : key[s[i]] <= key[x]
              /\ j = Len(s) \/ key[s[j + 1]] > key[x]
  IN  [i \in DOMAIN s |-> IF i < at \/ i > to THEN s[i] ELSE IF i = to THEN x ELSE s[i + 1]]

-----------------------------------------------------------------------------
(* R2's groups.                                                             *)

\* oldest: the older of the group's two chains' heads.
Oldest(q, n) ==
  LET s == q.node[n].sends
      c == q.node[n].calls
  IN  IF s = <<>> THEN Head(c)
      ELSE IF c = <<>> \/ q.seq[Head(s)] < q.seq[Head(c)] THEN Head(s) ELSE Head(c)

\* key, send_key: when the group's turn, or its oldest send, falls due.
DueOf(q, n)     == Larger(q.seq[Oldest(q, n)], q.node[n].taken)
SendDueOf(q, n) == Larger(q.seq[Head(q.node[n].sends)], q.node[n].taken)

\* find: the nodes of the group of t, one or none.
Find(t) == {n \in Members(queue.groups) : GroupOf[n] = GroupOf[t]}

\* enqueue: t's message joins its group, or a new one, last.
Enqueue(q, t, send, now) ==
  LET new == Find(t) = {}
      n   == IF new THEN t ELSE CHOOSE n \in Find(t) : TRUE
      old == IF new THEN NoNode ELSE q.node[n]
  IN  [groups |-> IF new THEN Append(q.groups, t) ELSE q.groups,
       sends  |-> IF send /\ old.sends = <<>> THEN Append(q.sends, n) ELSE q.sends,
       node   |-> [q.node EXCEPT ![n] =
                     [old EXCEPT !.sends = IF send THEN Append(@, t) ELSE @,
                                 !.calls = IF send THEN @ ELSE Append(@, t),
                                 !.count = @ + 1]],
       group  |-> [q.group EXCEPT ![t] = n],
       seq    |-> [q.seq EXCEPT ![t] = now]]

\* pick: the message the next receiver takes.
PickOf(q, calls) == IF calls THEN Oldest(q, Head(q.groups)) ELSE Head(q.node[Head(q.sends)].sends)

\* Mutant: a take moves its group on the list it was picked from alone.
ServedGroups(q, t, now) ==
  LET n == q.group[t]
  IN  [q EXCEPT !.node[n].taken = now, !.groups = Append(Without(@, n), n)]

\* Mutant: a take changes no order, so the oldest message goes first.
ServedNobody(q, t, now) == q

\* served: t's group is due again from now, behind the others on both lists.
Served(q, t, now) ==
  LET n == q.group[t]
      Back(s) == IF n \in Members(s) THEN Append(Without(s, n), n) ELSE s
  IN  [q EXCEPT !.node[n].taken = now, !.groups = Back(@), !.sends = Back(@)]

\* Mutant: the members that stay keep naming the old node.
MoveNodeAlone(q, old, new) ==
  [q EXCEPT !.groups = Replaced(@, old, new), !.sends = Replaced(@, old, new),
            !.node = [@ EXCEPT ![new] = q.node[old], ![old] = NoNode]]

\* move_node: the node moves to another member, which all of them then name.
MoveNode(q, old, new) ==
  LET kin == Members(q.node[old].sends) \cup Members(q.node[old].calls)
  IN  [groups |-> Replaced(q.groups, old, new), sends |-> Replaced(q.sends, old, new),
       node   |-> [q.node EXCEPT ![new] = q.node[old], ![old] = NoNode],
       group  |-> [m \in Senders |-> IF m \in kin THEN new ELSE q.group[m]],
       seq    |-> q.seq]

\* dequeue: t's message leaves, taken or not.
Dequeue(q, t, send) ==
  LET n == q.group[t]
      firstSend == send /\ Head(q.node[n].sends) = t
      left == [sends |-> Without(q.node[n].sends, t), calls |-> Without(q.node[n].calls, t),
               count |-> q.node[n].count - 1, taken |-> q.node[n].taken]
      cut == [q EXCEPT !.group[t] = None, !.node[n] = left]
      m == IF t = n THEN Oldest(cut, t) ELSE n
      moved == IF t = n THEN MoveNode(cut, t, m) ELSE cut
      key == [x \in Members(moved.groups) |-> DueOf(moved, x)]
      sendKey == [x \in Members(moved.sends) |-> SendDueOf(moved, x)]
  IN  IF left.count = 0
      THEN [cut EXCEPT !.groups = Without(@, n), !.sends = Without(@, n), !.node[n] = NoNode]
      ELSE [groups |-> IF t = n THEN MovedBack(moved.groups, m, key) ELSE moved.groups,
            sends  |-> IF ~firstSend THEN moved.sends
                       ELSE IF left.sends = <<>> THEN Without(moved.sends, m)
                       ELSE MovedBack(moved.sends, m, sendKey),
            node   |-> moved.node, group |-> moved.group, seq |-> moved.seq]

-----------------------------------------------------------------------------
(* What the kernel does with the queue.                                     *)

Queued == {t \in Senders : queue.group[t] # None}

\* Ghost: the oldest message of group g a receiver of this kind could take.
OldestFor(q, calls, g) ==
  LET n == {n \in Members(IF calls THEN q.groups ELSE q.sends) : GroupOf[n] = g}
  IN  {IF calls THEN Oldest(q, x) ELSE Head(q.node[x].sends) : x \in n}

\* Ghost: after a take of group h by a receiver of this kind, or none.
Passing(q, h, kind) ==
  passed' = [calls \in BOOLEAN |-> [g \in Groups |-> [x \in Groups |->
     IF g = h \/ OldestFor(q, calls, g) # OldestFor(queue, calls, g) \/ OldestFor(q, calls, g) = {}
     THEN 0
     ELSE passed[calls][g][x] + (IF x = h /\ calls = kind THEN 1 ELSE 0)]]]

\* permit_send: the group has WAIT_CAP messages queued.
Full(t) == \E n \in Find(t) : queue.node[n].count >= WaitCap

\* permit_send, queue_send.
Send(t, send) ==
  /\ t \notin Queued /\ ~Full(t) /\ clock < MaxClock
  /\ clock' = clock + 1
  /\ queue' = Enqueue(queue, t, send, clock')
  /\ sending' = IF send THEN sending \cup {t} ELSE sending
  /\ Passing(queue', None, FALSE)

\* pick and deliver: the message is taken or refused, and its group had its turn.
Deliver(calls) ==
  /\ (IF calls THEN queue.groups ELSE queue.sends) # <<>> /\ clock < MaxClock
  /\ clock' = clock + 1
  /\ LET t == PickOf(queue, calls)
     IN  /\ queue' = Dequeue(Served(queue, t, clock'), t, t \in sending)
         /\ sending' = sending \ {t}
         /\ Passing(queue', GroupOf[t], calls)

\* unqueue without a take: a timeout, an end, a destruction.
Withdraw(t) ==
  /\ t \in Queued
  /\ queue' = Dequeue(queue, t, t \in sending)
  /\ sending' = sending \ {t}
  /\ Passing(queue', None, FALSE)
  /\ UNCHANGED clock

QueueInit ==
  /\ queue = [groups |-> <<>>, sends |-> <<>>, node |-> [t \in Senders |-> NoNode],
              group |-> [t \in Senders |-> None], seq |-> [t \in Senders |-> 0]]
  /\ clock = 0 /\ sending = {}
  /\ passed = [calls \in BOOLEAN |-> [g \in Groups |-> [x \in Groups |-> 0]]]

QueueNext ==
  \/ \E t \in Senders : Withdraw(t) \/ \E send \in BOOLEAN : Send(t, send)
  \/ \E calls \in BOOLEAN : Deliver(calls)

QueueSpec == QueueInit /\ [][QueueNext]_vars

-----------------------------------------------------------------------------
(* Properties.                                                              *)

\* The checked build's audit_groups: both lists are in the order their groups fall due,
\* each node is its group's oldest message's, every member names it, its count is its
\* members', and a group is on the send list exactly when it has a send.
AuditHolds ==
  LET Sorted(s, Key(_)) == \A i \in 1 .. Len(s) - 1 : Key(s[i]) < Key(s[i + 1])
      Key(n) == DueOf(queue, n)
      SendKey(n) == SendDueOf(queue, n)
      Kin(n) == Members(queue.node[n].sends) \cup Members(queue.node[n].calls)
  IN  /\ Sorted(queue.groups, Key) /\ Sorted(queue.sends, SendKey)
      /\ \A n \in Members(queue.groups) :
           /\ Oldest(queue, n) = n
           /\ Kin(n) = {m \in Senders : queue.group[m] = n}
           /\ queue.node[n].count = Cardinality(Kin(n))
           /\ \A m \in Kin(n) : GroupOf[m] = GroupOf[n]
           /\ queue.node[n].sends = <<>> <=> n \notin Members(queue.sends)
      /\ Members(queue.sends) \subseteq Members(queue.groups)
      /\ \A t \in Queued : queue.group[t] \in Members(queue.groups)

\* I11, fair turns: while a group's oldest message waits, untaken and its group too, no
\* other group is taken twice by receivers that could take it; of the sends alone, so
\* too for receivers that take no calls (R4a).
FairTurns ==
  \A calls \in BOOLEAN, g \in Groups, h \in Groups : passed[calls][g][h] <= 1

\* The queue as one line: what happened at each value of the counter and still counts.
TokenAt(i) ==
  LET arrived == {t \in Queued : queue.seq[t] = i}
      taken   == {n \in Members(queue.groups) : queue.node[n].taken = i}
  IN  IF arrived # {} THEN LET t == CHOOSE t \in arrived : TRUE
                           IN  [group |-> GroupOf[t], thread |-> t]
      ELSE IF taken # {} THEN [group |-> GroupOf[CHOOSE n \in taken : TRUE], thread |-> None]
      ELSE [group |-> None, thread |-> None]
Line == INSTANCE FairLine
LineOf ==
  LET at == [i \in 1 .. clock |-> TokenAt(i)]
  IN  Line!Kept(at, {i \in 1 .. clock : at[i].group # None})

Order == INSTANCE FairOrder WITH line <- LineOf

\* R2: the lists do what the one line of arrivals and takes says, for receivers that take
\* calls and for those that do not (enqueue, pick, served, dequeue).
ImplementsOrder == Order!OrderSpec
=============================================================================

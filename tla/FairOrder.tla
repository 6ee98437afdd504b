----------------------------- MODULE FairOrder ------------------------------
(***************************************************************************)
(* What an endpoint's queue promises (kernel/ipc.md, R2), as one line of     *)
(* arrivals and takes: FairQueue, the kernel's lists, implements it.         *)
(***************************************************************************)
EXTENDS FairLine

CONSTANTS Senders,   \* threads that send on the endpoint
          GroupOf    \* each one's group

VARIABLES line,      \* the queue
          sending    \* the threads whose queued message is a send, not a call

Queued == {line[i].thread : i \in DOMAIN line} \ {None}

OrderInit == line = <<>> /\ sending = {}

\* A message arrives, last.
Arrive(t, send) ==
  /\ t \notin Queued
  /\ line' = Append(line, Arrival(GroupOf[t], t))
  /\ sending' = IF send THEN sending \cup {t} ELSE sending

\* A receiver takes (or refuses) the message whose turn it is, of all, or of the sends.
Take(calls) ==
  LET T == IF calls THEN Queued ELSE sending
      t == PickFrom(line, T)
  IN  /\ T # {}
      /\ line' = Dequeue(Served(line, GroupOf[t]), {t})
      /\ sending' = sending \ {t}

\* A message is withdrawn: its sender timed out, ended, or was failed.
Leave(t) ==
  /\ t \in Queued
  /\ line' = Dequeue(line, {t})
  /\ sending' = sending \ {t}

OrderNext ==
  \/ \E t \in Senders : Leave(t) \/ \E send \in BOOLEAN : Arrive(t, send)
  \/ \E calls \in BOOLEAN : Take(calls)

OrderSpec == OrderInit /\ [][OrderNext]_<<line, sending>>
=============================================================================

----------------------------- MODULE LossyFifo -----------------------------
(***************************************************************************)
(* What one channel of winvhci promises its two ends, with no lock, thread *)
(* or request in sight: items leave in the order in which they entered,    *)
(* each at most once, and an item is lost only when everything that waits  *)
(* is thrown away together.  The three rendezvous of the driver (events    *)
(* and ACL data towards the Bluetooth stack, packets towards the client)   *)
(* are each shown to implement it.                                         *)
(***************************************************************************)
EXTENDS Sequences

CONSTANT Items

VARIABLES
  queue,   \* items that entered and have not been handed over
  out      \* items handed over to a read, in the order they were

vars == <<queue, out>>

Init ==
  /\ queue = <<>>
  /\ out = <<>>

\* An item enters and waits.
Put(i) ==
  /\ queue' = Append(queue, i)
  /\ UNCHANGED out

\* The item that has waited longest is handed over.
Get ==
  /\ queue # <<>>
  /\ out' = Append(out, Head(queue))
  /\ queue' = Tail(queue)

\* An item is handed over at once; nothing may be waiting ahead of it.
Pass(i) ==
  /\ queue = <<>>
  /\ out' = Append(out, i)
  /\ UNCHANGED queue

\* Everything that waits is dropped.
Flush ==
  /\ queue' = <<>>
  /\ UNCHANGED out

Next ==
  \/ \E i \in Items : Put(i) \/ Pass(i)
  \/ Get
  \/ Flush

Spec == Init /\ [][Next]_vars
=============================================================================

-------------------------- MODULE StackRendezvous --------------------------
(***************************************************************************)
(* The controller-to-host half of winvhci: packets a client writes to      *)
(* \\.\WinVhci meet the IOCTL_BTHX_READ_HCI requests of the Windows        *)
(* Bluetooth stack.  There is one rendezvous per channel (events, ACL      *)
(* data), each a backlog of packets and a WDF manual queue of waiting      *)
(* reads.                                                                  *)
(*                                                                         *)
(* An action is one region under the FDO's spinlock, or one step outside   *)
(* it: a write that has retrieved a waiting read completes it after the    *)
(* lock is released, and so does a read that took a queued packet.  A      *)
(* packet of the model is written once, so it also names the write request *)
(* that carries it; a read is reused, as BthPort posts the next one when   *)
(* the last completes.                                                     *)
(*                                                                         *)
(* The module is open: when the admission check passes, when the backlogs  *)
(* are purged and when the queues are purged and restarted is up to the    *)
(* environment here.  WinVhci.tla closes it.                               *)
(***************************************************************************)
EXTENDS Naturals, Sequences, FiniteSets, SequencesExt

CONSTANTS
  Channels,       \* the read channels of the BTHX interface
  Packets,        \* well-formed H4 event and ACL packets, one write each
  Reads,          \* READ_HCI requests of the Bluetooth stack
  PacketChannel,  \* the channel a packet's H4 type selects
  ReadChannel,    \* the channel a read asked for
  None            \* no packet

ASSUME ChannelAssumption ==
  /\ PacketChannel \in [Packets -> Channels]
  /\ ReadChannel \in [Reads -> Channels]
  /\ None \notin Packets

VARIABLES
  pending,      \* PendingEventList / PendingDataList
  count,        \* PendingEventCount / PendingDataCount, kept beside the lists
  peak,         \* PendingEventPeak / PendingDataPeak
  accepting,    \* does the manual queue accept reads (FALSE between purge and start)
  read,         \* where each READ_HCI request is
  carry,        \* the packet a request that is being completed is filled with
  write,        \* where each client write is
  result,       \* the status each write completes with
  writesTotal,  \* WINVHCI_STATS.WritesTotal
  writesNoRadio, \* WINVHCI_STATS.WritesNoRadio
  allocDrops,   \* this half's share of WINVHCI_STATS.DropsAllocFailed
  matched,      \* ghost: packets handed to a read, in the order decided under the lock
  received,     \* ghost: packets the stack got, in the order its reads completed
  flushed       \* ghost: packets freed by a purge of the backlogs

lists == <<pending, count, peak>>
ghosts == <<matched, received, flushed>>
stats == <<writesTotal, writesNoRadio, allocDrops>>
vars == <<lists, accepting, read, carry, write, result, stats, ghosts>>

ReadStates == {"idle", "sent", "parked", "filling"}
WriteStates == {"unsent", "admit", "deliver", "hand", "complete", "done"}
Results == {"none", "success", "not_ready", "no_memory"}

\* The requests that wait on the manual queue of channel c.  Which of them a
\* retrieval returns is left open: reads of one channel are interchangeable.
Parked(c) == {r \in Reads : read[r] = "parked" /\ ReadChannel[r] = c}

Init ==
  /\ pending = [c \in Channels |-> <<>>]
  /\ count = [c \in Channels |-> 0]
  /\ peak = [c \in Channels |-> 0]
  /\ accepting = [c \in Channels |-> TRUE]
  /\ read = [r \in Reads |-> "idle"]
  /\ carry = [r \in Reads |-> None]
  /\ write = [p \in Packets |-> "unsent"]
  /\ result = [p \in Packets |-> "none"]
  /\ writesTotal = 0
  /\ writesNoRadio = 0
  /\ allocDrops = 0
  /\ matched = [c \in Channels |-> <<>>]
  /\ received = [c \in Channels |-> <<>>]
  /\ flushed = {}
-----------------------------------------------------------------------------
(* Client writes: WinVhciDispatchWrite and WinVhciDeliverToStack.          *)

\* The client's write reaches the driver and passes the checks on its size and
\* type (PacketRules.tla); the admission check is next.
Write(p) ==
  /\ write[p] = "unsent"
  /\ write' = [write EXCEPT ![p] = "admit"]
  /\ UNCHANGED <<lists, accepting, read, carry, result, stats, ghosts>>

\* The admission check, a locked region of its own.  ready is what it reads,
\* RadioPresent && RadioStarted.
Admit(p, ready) ==
  /\ write[p] = "admit"
  /\ IF ready
     THEN /\ write' = [write EXCEPT ![p] = "deliver"]
          /\ UNCHANGED <<result, writesNoRadio>>
     ELSE /\ write' = [write EXCEPT ![p] = "complete"]
          /\ result' = [result EXCEPT ![p] = "not_ready"]
          /\ writesNoRadio' = writesNoRadio + 1
  /\ UNCHANGED <<lists, accepting, read, carry, writesTotal, allocDrops, ghosts>>

\* Nothing is queued ahead and a read waits: retrieve it.
CanHand(c) == count[c] = 0 /\ Parked(c) # {}

HandToRead(p) ==
  LET c == PacketChannel[p] IN
  /\ write[p] = "deliver"
  /\ count[c] = 0
  /\ \E r \in Parked(c) :
       /\ read' = [read EXCEPT ![r] = "filling"]
       /\ carry' = [carry EXCEPT ![r] = p]
  /\ write' = [write EXCEPT ![p] = "hand"]
  /\ writesTotal' = writesTotal + 1
  /\ matched' = [matched EXCEPT ![c] = Append(@, p)]
  /\ UNCHANGED <<lists, accepting, result, writesNoRadio, allocDrops, received, flushed>>

\* Mutants of QueueForStack: InsertHeadList for InsertTailList; the peak compared
\* before the count is incremented.
QueueAtHead(p) ==
  LET c == PacketChannel[p] IN
  /\ write[p] = "deliver"
  /\ ~CanHand(c)
  /\ pending' = [pending EXCEPT ![c] = <<p>> \o @]
  /\ count' = [count EXCEPT ![c] = @ + 1]
  /\ peak' = [peak EXCEPT ![c] = IF count[c] + 1 > @ THEN count[c] + 1 ELSE @]
  /\ writesTotal' = writesTotal + 1
  /\ write' = [write EXCEPT ![p] = "complete"]
  /\ result' = [result EXCEPT ![p] = "success"]
  /\ UNCHANGED <<accepting, read, carry, writesNoRadio, allocDrops, ghosts>>

\* Otherwise the packet joins the backlog, whatever its depth.
QueueForStack(p) ==
  LET c == PacketChannel[p] IN
  /\ write[p] = "deliver"
  /\ ~CanHand(c)
  /\ pending' = [pending EXCEPT ![c] = Append(@, p)]
  /\ count' = [count EXCEPT ![c] = @ + 1]
  /\ peak' = [peak EXCEPT ![c] = IF count[c] + 1 > @ THEN count[c] + 1 ELSE @]
  /\ writesTotal' = writesTotal + 1
  /\ write' = [write EXCEPT ![p] = "complete"]
  /\ result' = [result EXCEPT ![p] = "success"]
  /\ UNCHANGED <<accepting, read, carry, writesNoRadio, allocDrops, ghosts>>

\* ... unless there is no memory for it (or WvFailAllocOneIn says so): the
\* client is told.
FailToQueue(p) ==
  LET c == PacketChannel[p] IN
  /\ write[p] = "deliver"
  /\ ~CanHand(c)
  /\ allocDrops' = allocDrops + 1
  /\ write' = [write EXCEPT ![p] = "complete"]
  /\ result' = [result EXCEPT ![p] = "no_memory"]
  /\ UNCHANGED <<lists, accepting, read, carry, writesTotal, writesNoRadio, ghosts>>

DeliverToStack(p) == HandToRead(p) \/ QueueForStack(p) \/ FailToQueue(p)

\* Mutant of CompleteRead: the write that handed its packet over never completes.
CompleteReadOnly(r) ==
  /\ read[r] = "filling"
  /\ read' = [read EXCEPT ![r] = "idle"]
  /\ carry' = [carry EXCEPT ![r] = None]
  /\ received' = [received EXCEPT ![ReadChannel[r]] = Append(@, carry[r])]
  /\ UNCHANGED <<lists, accepting, write, result, stats, matched, flushed>>

\* Outside the lock: the read completes with its packet, and a write that was
\* handing the packet over goes on to its own completion.
CompleteRead(r) ==
  LET p == carry[r] IN
  /\ read[r] = "filling"
  /\ read' = [read EXCEPT ![r] = "idle"]
  /\ carry' = [carry EXCEPT ![r] = None]
  /\ received' = [received EXCEPT ![ReadChannel[r]] = Append(@, p)]
  /\ IF write[p] = "hand"
     THEN /\ write' = [write EXCEPT ![p] = "complete"]
          /\ result' = [result EXCEPT ![p] = "success"]
     ELSE UNCHANGED <<write, result>>
  /\ UNCHANGED <<lists, accepting, stats, matched, flushed>>

CompleteWrite(p) ==
  /\ write[p] = "complete"
  /\ write' = [write EXCEPT ![p] = "done"]
  /\ UNCHANGED <<lists, accepting, read, carry, result, stats, ghosts>>
-----------------------------------------------------------------------------
(* Stack reads: the READ_HCI case of WinVhciBthxDispatch.                  *)

\* BthMini issues the request and the PDO forwards it to the FDO's queue.
SendRead(r) ==
  /\ read[r] = "idle"
  /\ read' = [read EXCEPT ![r] = "sent"]
  /\ UNCHANGED <<lists, accepting, carry, write, result, stats, ghosts>>

\* Mutant of TakeQueued: the packet is read but not removed from the list.
TakeQueuedCopy(r) ==
  LET c == ReadChannel[r] IN
  /\ read[r] = "sent"
  /\ pending[c] # <<>>
  /\ read' = [read EXCEPT ![r] = "filling"]
  /\ carry' = [carry EXCEPT ![r] = Head(pending[c])]
  /\ matched' = [matched EXCEPT ![c] = Append(@, Head(pending[c]))]
  /\ UNCHANGED <<lists, accepting, write, result, stats, received, flushed>>

\* WinVhciTakeOrParkForStack, one locked region with three outcomes: take the
\* oldest queued packet; park; or fail because the queue is being purged.
TakeQueued(r) ==
  LET c == ReadChannel[r] IN
  /\ read[r] = "sent"
  /\ pending[c] # <<>>
  /\ read' = [read EXCEPT ![r] = "filling"]
  /\ carry' = [carry EXCEPT ![r] = Head(pending[c])]
  /\ pending' = [pending EXCEPT ![c] = Tail(@)]
  /\ count' = [count EXCEPT ![c] = @ - 1]
  /\ matched' = [matched EXCEPT ![c] = Append(@, Head(pending[c]))]
  /\ UNCHANGED <<peak, accepting, write, result, stats, received, flushed>>

\* Mutant of ParkRead: parks without looking at the list under the lock.
ParkReadBlindly(r) ==
  /\ read[r] = "sent"
  /\ read' = [read EXCEPT ![r] = IF accepting[ReadChannel[r]] THEN "parked" ELSE "idle"]
  /\ UNCHANGED <<lists, accepting, carry, write, result, stats, ghosts>>

ParkRead(r) ==
  LET c == ReadChannel[r] IN
  /\ read[r] = "sent"
  /\ pending[c] = <<>>
  /\ read' = [read EXCEPT ![r] = IF accepting[c] THEN "parked" ELSE "idle"]
  /\ UNCHANGED <<lists, accepting, carry, write, result, stats, ghosts>>

TakeOrParkForStack(r) == TakeQueued(r) \/ ParkRead(r)

\* Mutant of CancelParked: a request that has been retrieved is still cancelable.
CancelRetrieved(r) ==
  /\ read[r] \in {"parked", "filling"}
  /\ read' = [read EXCEPT ![r] = "idle"]
  /\ UNCHANGED <<lists, accepting, carry, write, result, stats, ghosts>>

\* A waiting request is cancelled: by BthPort when it gives up on the radio, or
\* by the framework while it purges the queue.
CancelParked(r) ==
  /\ read[r] = "parked"
  /\ read' = [read EXCEPT ![r] = "idle"]
  /\ UNCHANGED <<lists, accepting, carry, write, result, stats, ghosts>>
-----------------------------------------------------------------------------
(* Teardown.                                                               *)

\* WdfIoQueuePurgeSynchronously begins: from here on the queue refuses reads.
PurgeQueue(c) ==
  /\ accepting' = [accepting EXCEPT ![c] = FALSE]
  /\ UNCHANGED <<lists, read, carry, write, result, stats, ghosts>>

\* It returns when nothing waits on the queue and every request retrieved from
\* it has been completed.
Drained(c) ==
  /\ Parked(c) = {}
  /\ \A p \in Packets : PacketChannel[p] = c => write[p] # "hand"

StartQueue(c) ==
  /\ ~accepting[c]
  /\ Drained(c)
  /\ accepting' = [accepting EXCEPT ![c] = TRUE]
  /\ UNCHANGED <<lists, read, carry, write, result, stats, ghosts>>

Queued == UNION {ToSet(pending[c]) : c \in Channels}

\* Mutants of FreeBacklogs: the lists are emptied without their counts; the counts
\* without the lists.
FreeListsOnly ==
  /\ pending' = [c \in Channels |-> <<>>]
  /\ flushed' = flushed \cup Queued
  /\ UNCHANGED <<count, peak, accepting, read, carry, write, result, stats, matched, received>>

FreeCountsOnly ==
  /\ count' = [c \in Channels |-> 0]
  /\ UNCHANGED <<pending, peak, accepting, read, carry, write, result, stats, ghosts>>

\* Both backlogs are freed in one locked region.
FreeBacklogs ==
  /\ pending' = [c \in Channels |-> <<>>]
  /\ count' = [c \in Channels |-> 0]
  /\ flushed' = flushed \cup Queued
  /\ UNCHANGED <<peak, accepting, read, carry, write, result, stats, matched, received>>

\* WinVhciEvtSelfManagedIoCleanup, on the way out: both queues are purged for
\* good, then the backlogs are freed.
SelfManagedIoCleanup ==
  /\ \A c \in Channels : Drained(c)
  /\ accepting' = [c \in Channels |-> FALSE]
  /\ pending' = [c \in Channels |-> <<>>]
  /\ count' = [c \in Channels |-> 0]
  /\ flushed' = flushed \cup Queued
  /\ UNCHANGED <<peak, read, carry, write, result, stats, matched, received>>
-----------------------------------------------------------------------------
Next ==
  \/ \E p \in Packets :
       \/ Write(p)
       \/ \E ready \in BOOLEAN : Admit(p, ready)
       \/ DeliverToStack(p)
       \/ CompleteWrite(p)
  \/ \E r \in Reads :
       \/ SendRead(r)
       \/ TakeOrParkForStack(r)
       \/ CompleteRead(r)
       \/ CancelParked(r)
  \/ \E c \in Channels : PurgeQueue(c) \/ StartQueue(c)
  \/ FreeBacklogs
  \/ SelfManagedIoCleanup

Spec == Init /\ [][Next]_vars
-----------------------------------------------------------------------------
(* Properties.                                                             *)

\* The shape of the state; a request is filled with a packet exactly between
\* its retrieval under the lock and its completion outside it.
TypeOK ==
  /\ pending \in [Channels -> Seq(Packets)]
  /\ count \in [Channels -> Nat]
  /\ peak \in [Channels -> Nat]
  /\ accepting \in [Channels -> BOOLEAN]
  /\ read \in [Reads -> ReadStates]
  /\ carry \in [Reads -> Packets \cup {None}]
  /\ \A r \in Reads : read[r] = "filling" <=> carry[r] # None
  /\ write \in [Packets -> WriteStates]
  /\ result \in [Packets -> Results]
  /\ writesTotal \in Nat
  /\ writesNoRadio \in Nat
  /\ allocDrops \in Nat
  /\ matched \in [Channels -> Seq(Packets)]
  /\ received \in [Channels -> Seq(Packets)]
  /\ flushed \subseteq Packets

\* The rendezvous rule (user.c, head comment): a backlog and a queue of waiting
\* reads are never both non-empty, because both halves decide under one lock.
\* Were they, nothing but a further read or packet would bring them together.
Rendezvous == \A c \in Channels : pending[c] = <<>> \/ Parked(c) = {}

\* DeliverToStack decides on the count and TakeOrParkForStack on the list; the
\* driver keeps them apart, so every locked region must leave them in step.
CountIsLength == \A c \in Channels : count[c] = Len(pending[c])

\* The packets the driver has answered for: retrieved a read for, or accepted.
Accepted(p) == write[p] = "hand" \/ result[p] = "success"

\* The places an accepted packet can be.
InBacklog(p) == \E c \in Channels : p \in ToSet(pending[c])
InRead(p) == \E r \in Reads : carry[r] = p
AtStack(p) == \E c \in Channels : p \in ToSet(received[c])

InOnePlace(p) ==
  /\ Accepted(p) <=> (InBacklog(p) \/ InRead(p) \/ AtStack(p) \/ p \in flushed)
  /\ ~(InBacklog(p) /\ (InRead(p) \/ AtStack(p) \/ p \in flushed))
  /\ ~(InRead(p) /\ (AtStack(p) \/ p \in flushed))
  /\ ~(AtStack(p) /\ p \in flushed)
  /\ \A r1, r2 \in Reads : carry[r1] = p /\ carry[r2] = p => r1 = r2

CountedOnce ==
  /\ writesTotal = Cardinality({p \in Packets : Accepted(p)})
  /\ writesNoRadio = Cardinality({p \in Packets : result[p] = "not_ready"})
  /\ allocDrops = Cardinality({p \in Packets : result[p] = "no_memory"})

\* No packet is lost, duplicated or resurrected: one the client was told is
\* accepted is in exactly one place - waiting, on its way into a read, with the
\* stack, or freed by a purge - and one it was told is not is nowhere.  GET_STATS
\* counts every packet once under what became of it.
Conservation == (\A p \in Packets : InOnePlace(p)) /\ CountedOnce

OneRead(c) == \A r1, r2 \in Reads : ReadChannel[r1] = c /\ ReadChannel[r2] = c => r1 = r2

\* The stack's reads complete in the order in which the lock decided they should
\* (fdo.c:253 "or packets would be delivered out of order") on a channel with one
\* read outstanding, as events have, whatever reads of the other channel do.  The
\* completions are outside the lock, so with two it does not hold.
InOrderWithOneRead ==
  \A c \in Channels : OneRead(c) => IsPrefix(received[c], matched[c])

\* Each channel is a FIFO whose waiting packets are only ever lost together.
Fifo(c) == INSTANCE LossyFifo WITH Items <- Packets, queue <- pending[c], out <- matched[c]
IsLossyFifo ==
  /\ \A c \in Channels : Fifo(c)!Init
  /\ [][\A c \in Channels : [Fifo(c)!Next]_(Fifo(c)!vars)]_vars
=============================================================================

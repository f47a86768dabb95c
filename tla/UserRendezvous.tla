--------------------------- MODULE UserRendezvous ---------------------------
(***************************************************************************)
(* The host-to-controller half of winvhci: HCI commands and ACL data the   *)
(* Bluetooth stack writes with IOCTL_BTHX_WRITE_HCI, and the reply to the  *)
(* client's own control packet, meet the ReadFile requests of the one      *)
(* client of \\.\WinVhci.                                                  *)
(*                                                                         *)
(* As in StackRendezvous, an action is one region under the FDO's spinlock *)
(* or one step outside it.  A host packet is produced once; a read is      *)
(* reused.  session is the open handle as the framework sees it, owner the *)
(* driver's own record of it (FDO context, Owner # NULL): they differ      *)
(* while the handle is being closed, and that window is what this module   *)
(* is about.                                                               *)
(***************************************************************************)
EXTENDS Naturals, Sequences, FiniteSets, SequencesExt

CONSTANTS
  HostPackets,  \* packets for the client
  UserReads,    \* ReadFile requests of the client, long enough for any packet
  MaxSessions,  \* bound: how often the device is opened
  None          \* no packet

ASSUME UserAssumption ==
  /\ None \notin HostPackets
  /\ MaxSessions \in Nat

VARIABLES
  session,      \* the handle: closed, open, cleanup (CloseHandle called), closing (in
                \* EvtFileClose), removed (the device is gone)
  owner,        \* Owner # NULL
  toUser,       \* HostToCtrlList
  toUserCount,  \* HostToCtrlCount
  toUserPeak,   \* HostToCtrlPeak
  userRead,     \* where each ReadFile request is
  userCarry,    \* the packet a request that is being completed is filled with
  hostWrite,    \* where each producer of a packet (WRITE_HCI, control write) is
  fate,         \* what QueueToUser did with each packet
  queuedTotal,  \* WINVHCI_STATS.QueuedToUserTotal
  dropsNoClient,\* WINVHCI_STATS.DropsNoClient
  userAllocDrops, \* this half's share of WINVHCI_STATS.DropsAllocFailed
  opened,       \* ghost: how often the device has been opened
  takenIn,      \* ghost: the session in which the driver took charge of each packet
  userMatched,  \* ghost: packets handed to a read, in the order decided under the lock
  userReceived, \* ghost: packets the client got, in the order its reads completed
  userFlushed   \* ghost: packets freed by a purge of the backlog

list == <<toUser, toUserCount, toUserPeak>>
drops == <<dropsNoClient, userAllocDrops>>
handleVars == <<session, owner, opened>>
userGhosts == <<takenIn, userMatched, userReceived, userFlushed>>
vars == <<handleVars, list, userRead, userCarry, hostWrite, fate, queuedTotal, drops, userGhosts>>

Sessions == {"closed", "open", "cleanup", "closing", "removed"}
ReadStates == {"idle", "sent", "parked", "filling"}
HostStates == {"unsent", "sent", "hand", "complete", "done"}
Fates == {"none", "accepted", "no_client", "no_memory"}

\* The requests that wait on UserReadQueue; which one a retrieval returns is
\* left open.
UserParked == {u \in UserReads : userRead[u] = "parked"}

Init ==
  /\ session = "closed"
  /\ owner = FALSE
  /\ opened = 0
  /\ toUser = <<>>
  /\ toUserCount = 0
  /\ toUserPeak = 0
  /\ userRead = [u \in UserReads |-> "idle"]
  /\ userCarry = [u \in UserReads |-> None]
  /\ hostWrite = [h \in HostPackets |-> "unsent"]
  /\ fate = [h \in HostPackets |-> "none"]
  /\ queuedTotal = 0
  /\ dropsNoClient = 0
  /\ userAllocDrops = 0
  /\ takenIn = [h \in HostPackets |-> 0]
  /\ userMatched = <<>>
  /\ userReceived = <<>>
  /\ userFlushed = {}
-----------------------------------------------------------------------------
(* Producers: the WRITE_HCI case of WinVhciBthxDispatch and the end of       *)
(* WinVhciHandleControl, both through WinVhciQueueToUser.                    *)

\* A packet for the client reaches the driver.
SendHost(h) ==
  /\ hostWrite[h] = "unsent"
  /\ hostWrite' = [hostWrite EXCEPT ![h] = "sent"]
  /\ UNCHANGED <<handleVars, list, userRead, userCarry, fate, queuedTotal, drops, userGhosts>>

\* With no client there is nobody to read it: dropped, and counted.
DropNoClient(h) ==
  /\ hostWrite[h] = "sent"
  /\ ~owner
  /\ dropsNoClient' = dropsNoClient + 1
  /\ hostWrite' = [hostWrite EXCEPT ![h] = "complete"]
  /\ fate' = [fate EXCEPT ![h] = "no_client"]
  /\ UNCHANGED <<handleVars, list, userRead, userCarry, queuedTotal, userAllocDrops, userGhosts>>

CanHandToUser == toUserCount = 0 /\ UserParked # {}

HandToUser(h) ==
  /\ hostWrite[h] = "sent"
  /\ owner
  /\ toUserCount = 0
  /\ \E u \in UserParked :
       /\ userRead' = [userRead EXCEPT ![u] = "filling"]
       /\ userCarry' = [userCarry EXCEPT ![u] = h]
  /\ hostWrite' = [hostWrite EXCEPT ![h] = "hand"]
  /\ fate' = [fate EXCEPT ![h] = "accepted"]
  /\ takenIn' = [takenIn EXCEPT ![h] = opened]
  /\ userMatched' = Append(userMatched, h)
  /\ UNCHANGED <<handleVars, list, queuedTotal, drops, userReceived, userFlushed>>

\* Mutant of QueueForUser: it does not ask whether there is a client.
QueueForAnyone(h) ==
  /\ hostWrite[h] = "sent"
  /\ ~CanHandToUser
  /\ toUser' = Append(toUser, h)
  /\ toUserCount' = toUserCount + 1
  /\ toUserPeak' = IF toUserCount + 1 > toUserPeak THEN toUserCount + 1 ELSE toUserPeak
  /\ queuedTotal' = queuedTotal + 1
  /\ hostWrite' = [hostWrite EXCEPT ![h] = "complete"]
  /\ fate' = [fate EXCEPT ![h] = "accepted"]
  /\ takenIn' = [takenIn EXCEPT ![h] = opened]
  /\ UNCHANGED <<handleVars, userRead, userCarry, drops, userMatched, userReceived, userFlushed>>

QueueForUser(h) ==
  /\ hostWrite[h] = "sent"
  /\ owner
  /\ ~CanHandToUser
  /\ toUser' = Append(toUser, h)
  /\ toUserCount' = toUserCount + 1
  /\ toUserPeak' = IF toUserCount + 1 > toUserPeak THEN toUserCount + 1 ELSE toUserPeak
  /\ queuedTotal' = queuedTotal + 1
  /\ hostWrite' = [hostWrite EXCEPT ![h] = "complete"]
  /\ fate' = [fate EXCEPT ![h] = "accepted"]
  /\ takenIn' = [takenIn EXCEPT ![h] = opened]
  /\ UNCHANGED <<handleVars, userRead, userCarry, drops, userMatched, userReceived, userFlushed>>

\* Mutant of LoseForUser: the loss is not counted.
LoseSilently(h) ==
  /\ hostWrite[h] = "sent"
  /\ owner
  /\ ~CanHandToUser
  /\ hostWrite' = [hostWrite EXCEPT ![h] = "complete"]
  /\ fate' = [fate EXCEPT ![h] = "no_memory"]
  /\ UNCHANGED <<handleVars, list, userRead, userCarry, queuedTotal, drops, userGhosts>>

\* No memory for it: lost, the producer succeeds all the same, and only the
\* counter tells.
LoseForUser(h) ==
  /\ hostWrite[h] = "sent"
  /\ owner
  /\ ~CanHandToUser
  /\ userAllocDrops' = userAllocDrops + 1
  /\ hostWrite' = [hostWrite EXCEPT ![h] = "complete"]
  /\ fate' = [fate EXCEPT ![h] = "no_memory"]
  /\ UNCHANGED <<handleVars, list, userRead, userCarry, queuedTotal, dropsNoClient, userGhosts>>

QueueToUser(h) == DropNoClient(h) \/ HandToUser(h) \/ QueueForUser(h) \/ LoseForUser(h)

\* Outside the lock: the read completes; a producer that was handing the packet
\* over goes on.
CompleteUserRead(u) ==
  LET h == userCarry[u] IN
  /\ userRead[u] = "filling"
  /\ userRead' = [userRead EXCEPT ![u] = "idle"]
  /\ userCarry' = [userCarry EXCEPT ![u] = None]
  /\ userReceived' = Append(userReceived, h)
  /\ hostWrite' = [hostWrite EXCEPT ![h] = IF @ = "hand" THEN "complete" ELSE @]
  /\ UNCHANGED <<handleVars, list, fate, queuedTotal, drops, takenIn, userMatched, userFlushed>>

\* The producer's own request completes, with success whatever the fate.
CompleteHost(h) ==
  /\ hostWrite[h] = "complete"
  /\ hostWrite' = [hostWrite EXCEPT ![h] = "done"]
  /\ UNCHANGED <<handleVars, list, userRead, userCarry, fate, queuedTotal, drops, userGhosts>>
-----------------------------------------------------------------------------
(* The client's reads: WinVhciEvtIoRead.                                     *)

SendUserRead(u) ==
  /\ session = "open"
  /\ userRead[u] = "idle"
  /\ userRead' = [userRead EXCEPT ![u] = "sent"]
  /\ UNCHANGED <<handleVars, list, userCarry, hostWrite, fate, queuedTotal, drops, userGhosts>>

\* Mutants of TakeForUser: the packet is not removed from the list; RemoveTailList
\* for RemoveHeadList.
TakeCopyForUser(u) ==
  /\ userRead[u] = "sent"
  /\ toUser # <<>>
  /\ userRead' = [userRead EXCEPT ![u] = "filling"]
  /\ userCarry' = [userCarry EXCEPT ![u] = Head(toUser)]
  /\ userMatched' = Append(userMatched, Head(toUser))
  /\ UNCHANGED <<handleVars, list, hostWrite, fate, queuedTotal, drops, takenIn, userReceived, userFlushed>>

TakeNewestForUser(u) ==
  /\ userRead[u] = "sent"
  /\ toUser # <<>>
  /\ userRead' = [userRead EXCEPT ![u] = "filling"]
  /\ userCarry' = [userCarry EXCEPT ![u] = Last(toUser)]
  /\ toUser' = Front(toUser)
  /\ toUserCount' = toUserCount - 1
  /\ userMatched' = Append(userMatched, Last(toUser))
  /\ UNCHANGED <<handleVars, toUserPeak, hostWrite, fate, queuedTotal, drops, takenIn, userReceived, userFlushed>>

TakeForUser(u) ==
  /\ userRead[u] = "sent"
  /\ toUser # <<>>
  /\ userRead' = [userRead EXCEPT ![u] = "filling"]
  /\ userCarry' = [userCarry EXCEPT ![u] = Head(toUser)]
  /\ toUser' = Tail(toUser)
  /\ toUserCount' = toUserCount - 1
  /\ userMatched' = Append(userMatched, Head(toUser))
  /\ UNCHANGED <<handleVars, toUserPeak, hostWrite, fate, queuedTotal, drops, takenIn, userReceived, userFlushed>>

\* Mutant of ParkUserRead: parks without looking at the list under the lock.
ParkUserReadBlindly(u) ==
  /\ userRead[u] = "sent"
  /\ userRead' = [userRead EXCEPT ![u] = "parked"]
  /\ UNCHANGED <<handleVars, list, userCarry, hostWrite, fate, queuedTotal, drops, userGhosts>>

ParkUserRead(u) ==
  /\ userRead[u] = "sent"
  /\ toUser = <<>>
  /\ userRead' = [userRead EXCEPT ![u] = "parked"]
  /\ UNCHANGED <<handleVars, list, userCarry, hostWrite, fate, queuedTotal, drops, userGhosts>>

\* The framework does not take the read on the manual queue: it fails.
RefuseUserRead(u) ==
  /\ userRead[u] = "sent"
  /\ toUser = <<>>
  /\ userRead' = [userRead EXCEPT ![u] = "idle"]
  /\ UNCHANGED <<handleVars, list, userCarry, hostWrite, fate, queuedTotal, drops, userGhosts>>

EvtIoRead(u) == TakeForUser(u) \/ ParkUserRead(u) \/ RefuseUserRead(u)

\* Mutant of CancelUserRead: a request that has been retrieved is still cancelable.
CancelRetrievedRead(u) ==
  /\ userRead[u] \in {"parked", "filling"}
  /\ userRead' = [userRead EXCEPT ![u] = "idle"]
  /\ UNCHANGED <<handleVars, list, userCarry, hostWrite, fate, queuedTotal, drops, userGhosts>>

\* A waiting read is cancelled, by the client or by the framework's cleanup of
\* a handle that is being closed.
CancelUserRead(u) ==
  /\ userRead[u] = "parked"
  /\ userRead' = [userRead EXCEPT ![u] = "idle"]
  /\ UNCHANGED <<handleVars, list, userCarry, hostWrite, fate, queuedTotal, drops, userGhosts>>
-----------------------------------------------------------------------------
(* The handle.                                                               *)

\* WinVhciEvtDeviceFileCreate.  The device is exclusive: nobody else has it.
Open ==
  /\ session = "closed"
  /\ opened < MaxSessions
  /\ session' = "open"
  /\ owner' = TRUE
  /\ opened' = opened + 1
  /\ UNCHANGED <<list, userRead, userCarry, hostWrite, fate, queuedTotal, drops, userGhosts>>

\* The client closes its handle, or dies: no further reads.
CloseHandle ==
  /\ session = "open"
  /\ session' = "cleanup"
  /\ UNCHANGED <<owner, opened, list, userRead, userCarry, hostWrite, fate, queuedTotal, drops, userGhosts>>

\* The framework calls WinVhciEvtFileClose when every request of the handle has
\* completed; its first locked region.
Detach ==
  /\ session = "cleanup"
  /\ \A u \in UserReads : userRead[u] = "idle"
  /\ session' = "closing"
  /\ owner' = FALSE
  /\ UNCHANGED <<opened, list, userRead, userCarry, hostWrite, fate, queuedTotal, drops, userGhosts>>

\* Mutant of FreeToUser: the list is emptied without its count.
FreeListOnly ==
  /\ session = "closing"
  /\ session' = "closed"
  /\ toUser' = <<>>
  /\ userFlushed' = userFlushed \cup ToSet(toUser)
  /\ UNCHANGED <<owner, opened, toUserCount, toUserPeak, userRead, userCarry, hostWrite, fate,
                 queuedTotal, drops, takenIn, userMatched, userReceived>>

\* WinVhciPurgeBacklogs at its end; when it returns the device can be opened again.
FreeToUser ==
  /\ session = "closing"
  /\ session' = "closed"
  /\ toUser' = <<>>
  /\ toUserCount' = 0
  /\ userFlushed' = userFlushed \cup ToSet(toUser)
  /\ UNCHANGED <<owner, opened, toUserPeak, userRead, userCarry, hostWrite, fate, queuedTotal, drops,
                 takenIn, userMatched, userReceived>>

\* WinVhciEvtSelfManagedIoCleanup purges the backlogs once more, whoever had or
\* had not the device open before.
RemoveDevice ==
  /\ session = "closed"
  /\ session' = "removed"
  /\ toUser' = <<>>
  /\ toUserCount' = 0
  /\ userFlushed' = userFlushed \cup ToSet(toUser)
  /\ UNCHANGED <<owner, opened, toUserPeak, userRead, userCarry, hostWrite, fate, queuedTotal, drops,
                 takenIn, userMatched, userReceived>>
-----------------------------------------------------------------------------
Next ==
  \/ \E h \in HostPackets : SendHost(h) \/ QueueToUser(h) \/ CompleteHost(h)
  \/ \E u \in UserReads :
       \/ SendUserRead(u)
       \/ EvtIoRead(u)
       \/ CompleteUserRead(u)
       \/ CancelUserRead(u)
  \/ Open
  \/ CloseHandle
  \/ Detach
  \/ FreeToUser
  \/ RemoveDevice

Spec == Init /\ [][Next]_vars

\* Threads inside the driver keep running and the framework cancels the waiting
\* reads of a handle that is being closed.  The client need never read or close.
Fairness ==
  /\ \A h \in HostPackets : WF_vars(QueueToUser(h)) /\ WF_vars(CompleteHost(h))
  /\ \A u \in UserReads :
       /\ WF_vars(EvtIoRead(u))
       /\ WF_vars(CompleteUserRead(u))
       /\ WF_vars(session = "cleanup" /\ CancelUserRead(u))
  /\ WF_vars(Detach)
  /\ WF_vars(FreeToUser)

FairSpec == Spec /\ Fairness
-----------------------------------------------------------------------------
(* Properties.                                                               *)

\* The shape of the state; a read is filled with a packet exactly between its
\* retrieval under the lock and its completion outside it.
TypeOK ==
  /\ session \in Sessions
  /\ owner \in BOOLEAN
  /\ opened \in 0..MaxSessions
  /\ toUser \in Seq(HostPackets)
  /\ toUserCount \in Nat
  /\ toUserPeak \in Nat
  /\ userRead \in [UserReads -> ReadStates]
  /\ userCarry \in [UserReads -> HostPackets \cup {None}]
  /\ \A u \in UserReads : userRead[u] = "filling" <=> userCarry[u] # None
  /\ hostWrite \in [HostPackets -> HostStates]
  /\ fate \in [HostPackets -> Fates]
  /\ queuedTotal \in Nat
  /\ dropsNoClient \in Nat
  /\ userAllocDrops \in Nat
  /\ takenIn \in [HostPackets -> 0..MaxSessions]
  /\ userMatched \in Seq(HostPackets)
  /\ userReceived \in Seq(HostPackets)
  /\ userFlushed \subseteq HostPackets

\* The rendezvous rule for the client's channel: a packet and a read never both
\* wait (user.c, head comment).
UserRendezvousRule == toUser = <<>> \/ UserParked = {}

UserCountIsLength == toUserCount = Len(toUser)

\* No allocation outlives the client it was made for (user.c:190, BugCheck 0xC4
\* / 0x62): with the handle closed the list is empty and stays empty, although
\* the stack goes on writing for as long as the radio takes to disappear.
NothingForNobody ==
  session \in {"closed", "removed"} => toUser = <<>> /\ \A u \in UserReads : userCarry[u] = None

\* A client never reads what the stack sent to an earlier client.
NoStaleRead == \A u \in UserReads : userCarry[u] # None => takenIn[userCarry[u]] = opened

Accepted(h) == fate[h] = "accepted"
ReadsBusy == {u \in UserReads : userCarry[u] # None}

\* Where an accepted packet can be.
Kept(h) ==
  \/ h \in ToSet(toUser)
  \/ \E u \in UserReads : userCarry[u] = h
  \/ h \in ToSet(userReceived)
  \/ h \in userFlushed

\* Every packet the driver was handed is accounted for: accepted ones wait, are on
\* their way, were read or were freed by a close, each in exactly one of these
\* ways; the others are in the drop counter of their cause.
UserConservation ==
  /\ \A h \in HostPackets : Accepted(h) <=> Kept(h)
  /\ Len(toUser) + Cardinality(ReadsBusy) + Len(userReceived) + Cardinality(userFlushed)
       = Cardinality({h \in HostPackets : Accepted(h)})
  /\ dropsNoClient = Cardinality({h \in HostPackets : fate[h] = "no_client"})
  /\ userAllocDrops = Cardinality({h \in HostPackets : fate[h] = "no_memory"})

\* The packets that the i-th one the client got has overtaken: matched to a read
\* before it, and not received by then.
Overtaken(i) ==
  {h \in HostPackets :
     /\ \E k, j \in 1..Len(userMatched) :
          k < j /\ userMatched[k] = h /\ userMatched[j] = userReceived[i]
     /\ \A m \in 1..(i - 1) : userReceived[m] # h}

\* The client gets packets in the order in which the driver took them, but for
\* what its own reads may do: a packet overtakes fewer packets than the client has
\* reads, those that the other reads still carry (user.c:264).  With one read, as
\* both clients of the repository keep, none overtakes any.  How often a packet is
\* overtaken is not bounded: its read may be completed late, while another goes on.
ReadInOrder ==
  \A i \in 1..Len(userReceived) :
    /\ userReceived[i] \in ToSet(userMatched)
    /\ Cardinality(Overtaken(i)) < Cardinality(UserReads)

UserFifo == INSTANCE LossyFifo WITH Items <- HostPackets, queue <- toUser, out <- userMatched
UserIsLossyFifo == UserFifo!Spec

\* A read and a packet do meet: once a read is in the driver while a packet is the
\* next in line, the client gets that packet.
UserNotStranded ==
  \A h \in HostPackets :
    (toUser # <<>> /\ Head(toUser) = h /\ \E u \in UserReads : userRead[u] = "sent")
      ~> h \in ToSet(userReceived)
=============================================================================

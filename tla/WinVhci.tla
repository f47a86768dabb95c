------------------------------ MODULE WinVhci ------------------------------
(***************************************************************************)
(* The driver: the two rendezvous and the radio's lifetime put together.   *)
(* The components share the FDO context and its one spinlock, so a locked  *)
(* region that touches two of them is one joint action here, and what is   *)
(* open in a component is closed:                                          *)
(*                                                                         *)
(*   - the admission check reads RadioPresent and RadioStarted;            *)
(*   - the stack's requests come from a radio PDO that is in D0;           *)
(*   - D0Exit of the current radio purges the stack's backlogs;            *)
(*   - a control packet that created a radio sends its reply to the client;*)
(*   - EvtFileClose runs through its steps, on the whole driver.           *)
(*                                                                         *)
(* Every step of the composition is a step or a stutter of each component, *)
(* which the runs check; what is proved of a component then holds here.    *)
(***************************************************************************)
EXTENDS Naturals, Sequences, FiniteSets, SequencesExt

CONSTANTS
  Channels, Packets, Reads, PacketChannel, ReadChannel,  \* as in StackRendezvous
  HostPackets, UserReads,                                \* as in UserRendezvous
  Controls, MaxRadios, MaxOpens,                         \* as in RadioLifetime
  None,
  ChannelOrder,  \* the channels in the order in which EvtFileClose purges them
  ReplyOf        \* the host packet that is the reply to each radio's control packet

ASSUME CompositionAssumption ==
  /\ ToSet(ChannelOrder) = Channels
  /\ Len(ChannelOrder) = Cardinality(Channels)
  /\ ReplyOf \in [1..MaxRadios -> HostPackets]
  /\ \A i, j \in 1..MaxRadios : ReplyOf[i] = ReplyOf[j] => i = j

\* What the parts assume of their constants.
ASSUME PartsAssumption ==
  /\ PacketChannel \in [Packets -> Channels]
  /\ ReadChannel \in [Reads -> Channels]
  /\ None \notin Packets
  /\ None \notin HostPackets
  /\ MaxRadios \in Nat
  /\ MaxOpens \in Nat

VARIABLES
  pending, count, peak, accepting, read, carry, write, result,
  writesTotal, writesNoRadio, allocDrops, matched, received, flushed,
  owner, toUser, toUserCount, toUserPeak, userRead, userCarry, hostWrite, fate,
  queuedTotal, dropsNoClient, userAllocDrops, takenIn, userMatched, userReceived, userFlushed,
  handle, opens, radioPresent, radioStarted, currentRadioId, nextRadioId,
  control, controlId, pdo, missing, radiosAlive,
  closeStep,   \* how far EvtFileClose has got in its queue and backlog steps
  readRadio,   \* the radio whose PDO forwarded each READ_HCI, 0 before any
  hostRadio,   \* the radio whose PDO forwarded each WRITE_HCI, 0 for a control reply
  survivors,   \* ghost: stack reads outstanding since EvtFileClose last began
  writtenIn,   \* ghost: the open in which each packet was written, 0 before
  bornIn       \* ghost: the open in which each radio was asked for, 0 before

\* The framework's view of the handle, as UserRendezvous has it.
Session == IF handle \in {"remove", "teardown"} THEN "closing" ELSE handle

Stack == INSTANCE StackRendezvous
User == INSTANCE UserRendezvous WITH session <- Session, opened <- opens, MaxSessions <- MaxOpens
Radio == INSTANCE RadioLifetime

stackVars == <<pending, count, peak, accepting, read, carry, write, result,
               writesTotal, writesNoRadio, allocDrops, matched, received, flushed>>
userVars == <<owner, toUser, toUserCount, toUserPeak, userRead, userCarry, hostWrite, fate,
              queuedTotal, dropsNoClient, userAllocDrops, takenIn, userMatched, userReceived,
              userFlushed>>
radioVars == <<handle, opens, radioPresent, radioStarted, currentRadioId, nextRadioId,
               control, controlId, pdo, missing, radiosAlive>>
origins == <<writtenIn, bornIn>>
ownVars == <<closeStep, readRadio, hostRadio, survivors, origins>>
vars == <<stackVars, userVars, radioVars, ownVars>>

RadioIds == 1..MaxRadios
Replies == {ReplyOf[id] : id \in RadioIds}

Init ==
  /\ Radio!Init
  /\ Stack!Init
  /\ User!Init
  /\ closeStep = 0
  /\ readRadio = [r \in Reads |-> 0]
  /\ hostRadio = [h \in HostPackets |-> 0]
  /\ survivors = {}
  /\ writtenIn = [p \in Packets |-> 0]
  /\ bornIn = [id \in RadioIds |-> 0]
-----------------------------------------------------------------------------
(* One component moves.                                                    *)

StackStep(action) == action /\ UNCHANGED <<userVars, radioVars, ownVars>>
RadioStep(action) == action /\ UNCHANGED <<stackVars, userVars, ownVars>>

\* The client writes an event or ACL packet, through an open handle.
Write(p) ==
  /\ handle = "open"
  /\ Stack!Write(p)
  /\ writtenIn' = [writtenIn EXCEPT ![p] = opens]
  /\ UNCHANGED <<userVars, radioVars, closeStep, readRadio, hostRadio, survivors, bornIn>>

\* The admission check of WinVhciDispatchWrite.
Ready == radioPresent /\ radioStarted
Admit(p) == StackStep(Stack!Admit(p, Ready))

DeliverToStack(p) == StackStep(Stack!DeliverToStack(p))
CompleteWrite(p) == StackStep(Stack!CompleteWrite(p))

\* A stack read that completes is no longer outstanding.
ReadStep(r, action) ==
  /\ action
  /\ survivors' = IF read'[r] = "idle" THEN survivors \ {r} ELSE survivors
  /\ UNCHANGED <<userVars, radioVars, closeStep, readRadio, hostRadio, origins>>

TakeOrParkForStack(r) == ReadStep(r, Stack!TakeOrParkForStack(r))
CompleteRead(r) == ReadStep(r, Stack!CompleteRead(r))
CancelParked(r) == ReadStep(r, Stack!CancelParked(r))

\* The user module's handle state is a function of the radio module's, so the
\* latter is fixed first.
UserStep(action) == UNCHANGED <<stackVars, radioVars, ownVars>> /\ action

SendUserRead(u) == UNCHANGED radioVars /\ UserStep(User!SendUserRead(u))
EvtIoRead(u) == UNCHANGED radioVars /\ UserStep(User!EvtIoRead(u))
CompleteUserRead(u) == UNCHANGED radioVars /\ UserStep(User!CompleteUserRead(u))
CancelUserRead(u) == UNCHANGED radioVars /\ UserStep(User!CancelUserRead(u))
QueueToUser(h) == UNCHANGED radioVars /\ UserStep(User!QueueToUser(h))

\* A WRITE_HCI completes; a control reply does so with its control write, below.
CompleteHost(h) ==
  /\ h \notin Replies
  /\ UNCHANGED radioVars
  /\ UserStep(User!CompleteHost(h))

CloseHandle ==
  /\ Radio!CloseHandle
  /\ User!CloseHandle
  /\ UNCHANGED <<stackVars, ownVars>>

SendControl(w) == RadioStep(Radio!SendControl(w))
RefuseControl(w) == RadioStep(Radio!RefuseControl(w))
ClaimRadio(w) ==
  /\ Radio!ClaimRadio(w)
  /\ bornIn' = [bornIn EXCEPT ![nextRadioId] = opens]
  /\ UNCHANGED <<stackVars, userVars, closeStep, readRadio, hostRadio, survivors, writtenIn>>

AddRadioFails(w) == RadioStep(Radio!AddRadioFails(w))
UnclaimRadio(w) == RadioStep(Radio!UnclaimRadio(w))
CreatePdo(id) == RadioStep(Radio!CreatePdo(id))
CreatePdoFails(id) == RadioStep(Radio!CreatePdoFails(id))
D0Entry(id) == RadioStep(Radio!D0Entry(id))
-----------------------------------------------------------------------------
(* The stack's requests pass through a radio's PDO: WinVhciPdoForwardToParent. *)

\* The PDO's queue is not power-managed: a radio that has been up forwards in D3, too.
Forwards(id) == pdo[id] \in {"d0", "d3"}

SendRead(r, id) ==
  /\ Forwards(id)
  /\ Stack!SendRead(r)
  /\ readRadio' = [readRadio EXCEPT ![r] = id]
  /\ UNCHANGED <<userVars, radioVars, closeStep, hostRadio, survivors, origins>>

SendHost(h, id) ==
  /\ h \notin Replies
  /\ Forwards(id)
  /\ UNCHANGED radioVars
  /\ User!SendHost(h)
  /\ hostRadio' = [hostRadio EXCEPT ![h] = id]
  /\ UNCHANGED <<stackVars, closeStep, readRadio, survivors, origins>>

\* A PDO outlives the requests that came through it.
PdoCleanup(id) ==
  /\ \A r \in Reads : readRadio[r] = id => read[r] = "idle"
  /\ \A h \in HostPackets : hostRadio[h] = id => hostWrite[h] = "done"
  /\ RadioStep(Radio!PdoCleanup(id))
-----------------------------------------------------------------------------
(* Joint steps.                                                            *)

Open ==
  /\ Radio!Open
  /\ User!Open
  /\ UNCHANGED <<stackVars, ownVars>>

\* AddRadio succeeded; the reply is on its way to WinVhciQueueToUser.
AddRadio(w) ==
  /\ Radio!AddRadio(w)
  /\ User!SendHost(ReplyOf[controlId[w]])
  /\ UNCHANGED <<stackVars, ownVars>>

\* The reply has been handed over, queued or lost; the control write completes.
FinishControl(w) ==
  /\ Radio!FinishControl(w)
  /\ User!CompleteHost(ReplyOf[controlId[w]])
  /\ UNCHANGED <<stackVars, ownVars>>

\* WinVhciPdoEvtD0Exit with WinVhciRadioStackDown: one locked region clears
\* RadioStarted and frees the stack's backlogs, or, for an earlier radio, neither.
D0Exit(id) ==
  /\ Radio!D0Exit(id)
  /\ IF id = currentRadioId THEN Stack!FreeBacklogs ELSE UNCHANGED stackVars
  /\ UNCHANGED <<userVars, ownVars>>

\* WinVhciEvtFileClose starts when no request of the handle is outstanding.
NoWriteOutstanding == \A p \in Packets : write[p] \in {"unsent", "done"}

\* Mutant of FileClose: Owner is not cleared.
FileCloseKeepsOwner ==
  /\ NoWriteOutstanding
  /\ Radio!FileClose
  /\ \A u \in UserReads : userRead[u] = "idle"
  /\ closeStep' = 1
  /\ survivors' = {r \in Reads : read[r] # "idle"}
  /\ UNCHANGED <<stackVars, userVars, readRadio, hostRadio, origins>>

FileClose ==
  /\ NoWriteOutstanding
  /\ Radio!FileClose
  /\ User!Detach
  /\ closeStep' = 1
  /\ survivors' = {r \in Reads : read[r] # "idle"}
  /\ UNCHANGED <<stackVars, readRadio, hostRadio, origins>>

RemoveRadios ==
  /\ Radio!RemoveRadios
  /\ UNCHANGED <<stackVars, userVars, ownVars>>

\* Then, in this order: purge each queue and wait for it, start each queue
\* again, and free all three backlogs in one locked region.
Purges == 2 * Len(ChannelOrder)
Starts == 3 * Len(ChannelOrder)

ClosePurge(i) ==
  /\ closeStep = 2 * i - 1
  /\ Stack!PurgeQueue(ChannelOrder[i])

\* Mutant of CloseWait: the close waits until PnP has destroyed the radio.
CloseWaitForRadio(i) ==
  /\ closeStep = 2 * i
  /\ radiosAlive = 0
  /\ UNCHANGED stackVars

CloseWait(i) ==
  /\ closeStep = 2 * i
  /\ Stack!Drained(ChannelOrder[i])
  /\ UNCHANGED stackVars

CloseStart(i) ==
  /\ closeStep = Purges + i
  /\ Stack!StartQueue(ChannelOrder[i])

CloseQueues ==
  /\ handle = "teardown"
  /\ \E i \in 1..Len(ChannelOrder) : ClosePurge(i) \/ CloseWait(i) \/ CloseStart(i)
  /\ closeStep' = closeStep + 1
  /\ UNCHANGED <<userVars, radioVars, readRadio, hostRadio, survivors, origins>>

\* Mutant of PurgeBacklogs: the stack's two backlogs are forgotten.
PurgeUserBacklog ==
  /\ closeStep = Starts + 1
  /\ Radio!FinishClose
  /\ User!FreeToUser
  /\ closeStep' = 0
  /\ UNCHANGED <<stackVars, readRadio, hostRadio, survivors, origins>>

PurgeBacklogs ==
  /\ closeStep = Starts + 1
  /\ Radio!FinishClose
  /\ User!FreeToUser
  /\ Stack!FreeBacklogs
  /\ closeStep' = 0
  /\ UNCHANGED <<readRadio, hostRadio, survivors, origins>>

\* WinVhciEvtSelfManagedIoCleanup of the FDO.
RemoveDevice ==
  /\ Radio!RemoveDevice
  /\ User!RemoveDevice
  /\ Stack!SelfManagedIoCleanup
  /\ UNCHANGED ownVars
-----------------------------------------------------------------------------
ClientNext ==
  \/ Open
  \/ CloseHandle
  \/ \E p \in Packets : Write(p) \/ Admit(p) \/ DeliverToStack(p) \/ CompleteWrite(p)
  \/ \E u \in UserReads : SendUserRead(u) \/ EvtIoRead(u) \/ CompleteUserRead(u) \/ CancelUserRead(u)
  \/ \E w \in Controls :
       \/ SendControl(w)
       \/ RefuseControl(w)
       \/ ClaimRadio(w)
       \/ AddRadio(w)
       \/ AddRadioFails(w)
       \/ UnclaimRadio(w)
       \/ FinishControl(w)

StackNext ==
  \/ \E r \in Reads :
       \/ \E id \in RadioIds : SendRead(r, id)
       \/ TakeOrParkForStack(r)
       \/ CompleteRead(r)
       \/ CancelParked(r)
  \/ \E h \in HostPackets :
       \/ \E id \in RadioIds : SendHost(h, id)
       \/ QueueToUser(h)
       \/ CompleteHost(h)

PnpNext ==
  \E id \in RadioIds :
    CreatePdo(id) \/ CreatePdoFails(id) \/ D0Entry(id) \/ D0Exit(id) \/ PdoCleanup(id)

CloseNext == FileClose \/ RemoveRadios \/ CloseQueues \/ PurgeBacklogs

Next == ClientNext \/ StackNext \/ PnpNext \/ CloseNext \/ RemoveDevice

Spec == Init /\ [][Next]_vars

\* The driver's own threads keep running; the framework cancels the waiting
\* reads of a closing handle and of a queue being purged, and calls EvtFileClose
\* when nothing is outstanding; PnP removes a missing radio, whose stack cancels
\* its reads.  The client, the stack and power management need do nothing.
Fairness ==
  /\ \A p \in Packets : WF_vars(Admit(p)) /\ WF_vars(DeliverToStack(p)) /\ WF_vars(CompleteWrite(p))
  /\ \A r \in Reads :
       /\ WF_vars(TakeOrParkForStack(r))
       /\ WF_vars(CompleteRead(r))
       /\ WF_vars((~accepting[ReadChannel[r]] \/ readRadio[r] \in missing) /\ CancelParked(r))
  /\ \A h \in HostPackets : WF_vars(QueueToUser(h)) /\ WF_vars(CompleteHost(h))
  /\ \A u \in UserReads :
       /\ WF_vars(EvtIoRead(u))
       /\ WF_vars(CompleteUserRead(u))
       /\ WF_vars(handle = "cleanup" /\ CancelUserRead(u))
  /\ \A w \in Controls :
       /\ WF_vars(RefuseControl(w))
       /\ WF_vars(ClaimRadio(w))
       /\ WF_vars(AddRadio(w) \/ AddRadioFails(w))
       /\ WF_vars(UnclaimRadio(w))
       /\ WF_vars(FinishControl(w))
  /\ WF_vars(CloseNext)

FairSpec == Spec /\ Fairness

\* What IOCTL_WINVHCI_GET_STATS returns, a snapshot under the lock.  (RadiosAlive
\* is read just after it; no property relates it to the other fields.)
Stats ==
  [DropsNoClient     |-> dropsNoClient,
   DropsAllocFailed  |-> allocDrops + userAllocDrops,
   HostToCtrl        |-> [Count |-> toUserCount, Peak |-> toUserPeak],
   Pending           |-> [c \in Channels |-> [Count |-> count[c], Peak |-> peak[c]]],
   WritesTotal       |-> writesTotal,
   QueuedToUserTotal |-> queuedTotal,
   WritesNoRadio     |-> writesNoRadio,
   RadiosAlive       |-> radiosAlive]
-----------------------------------------------------------------------------
(* Properties.                                                             *)

\* Every behaviour of the driver is one of each of its parts.
Components == Stack!Spec /\ User!Spec /\ Radio!Spec

\* No allocation outlives the client it was made for: with the device closed, all
\* three backlogs are empty and no write or read of the client is outstanding,
\* whatever the radio that is still going away does (user.c:190, fdo.c:825).
ClosedMeansEmpty ==
  handle \in {"closed", "removed"} =>
    /\ \A c \in Channels : pending[c] = <<>>
    /\ toUser = <<>>
    /\ NoWriteOutstanding
    /\ \A u \in UserReads : userRead[u] = "idle"

\* No packet of one client reaches the radio of a later one: what is left on the
\* backlogs by a client that closed is not replayed into the next client's bring-up
\* (user.c:601).  The other way round it does happen: reads are not tied to the radio
\* they came through, and one of the earlier radio may take the later client's packet.
NeverToALaterRadio ==
  \A r \in Reads : read[r] = "filling" => bornIn[readRadio[r]] <= writtenIn[carry[r]]

\* A client can tell from GET_STATS what the driver did not pass on: no depth
\* exceeds its peak, and the totals account for every client write that has been
\* decided on and for every packet for the client that was lost, once each.
StatsAddUp ==
  /\ Stats.HostToCtrl.Count <= Stats.HostToCtrl.Peak
  /\ Stats.HostToCtrl.Peak <= Stats.QueuedToUserTotal
  /\ \A c \in Channels : Stats.Pending[c].Count <= Stats.Pending[c].Peak
  /\ Stats.WritesTotal + Stats.WritesNoRadio + Stats.DropsAllocFailed + Stats.DropsNoClient
     = Cardinality({p \in Packets : write[p] \in {"hand", "complete", "done"}})
         + Cardinality({h \in HostPackets : fate[h] \in {"no_client", "no_memory"}})

\* Closing always finishes, whatever the stack does meanwhile (user.c:852).
CloseFinishes == handle = "cleanup" ~> handle = "closed"

\* "Every path through here completes the request before returning - writes are
\* never pended" (user.c:520): a write that reached the driver completes, whatever
\* radio, stack and close do meanwhile.
WriteCompletes == \A p \in Packets : write[p] = "admit" ~> write[p] = "done"

\* A packet accepted onto a backlog is not stranded there: if the stack keeps a
\* read posted on each channel, it is delivered, unless a purge drops it.
KeepsReading ==
  \A c \in Channels : []<>(\E r \in Reads : ReadChannel[r] = c /\ read[r] # "idle")
NotStranded ==
  KeepsReading => \A p \in Packets : Stack!InBacklog(p) ~> Stack!AtStack(p) \/ p \in flushed

\* "Either deliverable and queued without limit, or refused immediately"
\* (winvhci.h:143): with the radio's stack down, nothing is queued for it.
QueuedMeansStarted == ~radioStarted => \A c \in Channels : pending[c] = <<>>

\* "Outstanding BTHX reads must not survive the client that was supposed to answer
\* them" (user.c:839): of the reads that were outstanding when the close began, none
\* is left waiting on its queue when the close has ended.
NoReadSurvivesClose == handle = "closed" => \A r \in survivors : read[r] # "parked"
=============================================================================

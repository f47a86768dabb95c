---------------------------- MODULE WinVhciProofs ----------------------------
(***************************************************************************)
(* Proofs about WinVhci, for any channels, packets, reads, control writes, *)
(* radios and opens: that every behaviour of the driver is one of each of  *)
(* its parts, so that what is proved of a part holds of the driver; and    *)
(* what only the parts together guarantee, that a close leaves nothing     *)
(* behind, that no packet reaches a later client's radio, and that the     *)
(* counters of GET_STATS add up.                                           *)
(***************************************************************************)
EXTENDS WinVhci, SequenceTheorems, FiniteSetTheorems, TLAPS

\* The parts with their proofs.  StackP!Next and Stack!Next are the same formula
\* under two names; the first lemmas say so.
StackP == INSTANCE StackRendezvousProofs
UserP == INSTANCE UserRendezvousProofs
           WITH session <- Session, opened <- opens, MaxSessions <- MaxOpens
RadioP == INSTANCE RadioLifetimeProofs

\* The two instances of StackRendezvous have the same steps.
LEMMA SameStackStep == (Stack!Next <=> StackP!Next) /\ (UNCHANGED Stack!vars <=> UNCHANGED StackP!vars)
  <1> USE DEF Stack!lists, StackP!lists, Stack!ghosts, StackP!ghosts, Stack!stats, StackP!stats
  <1>1. \A p \in Packets :
        /\ (Stack!Write(p) <=> StackP!Write(p))
        /\ (Stack!CompleteWrite(p) <=> StackP!CompleteWrite(p))
        /\ (Stack!HandToRead(p) <=> StackP!HandToRead(p))
        /\ (Stack!QueueForStack(p) <=> StackP!QueueForStack(p))
        /\ (Stack!FailToQueue(p) <=> StackP!FailToQueue(p))
    BY DEF Stack!Write, StackP!Write, Stack!CompleteWrite, StackP!CompleteWrite, Stack!HandToRead,
           StackP!HandToRead, Stack!QueueForStack, StackP!QueueForStack, Stack!FailToQueue,
           StackP!FailToQueue, Stack!CanHand, StackP!CanHand, Stack!Parked, StackP!Parked
  <1>2. \A p \in Packets, ready \in BOOLEAN : (Stack!Admit(p, ready) <=> StackP!Admit(p, ready))
    BY DEF Stack!Admit, StackP!Admit
  <1>3. \A r \in Reads :
        /\ (Stack!SendRead(r) <=> StackP!SendRead(r))
        /\ (Stack!TakeQueued(r) <=> StackP!TakeQueued(r))
        /\ (Stack!ParkRead(r) <=> StackP!ParkRead(r))
        /\ (Stack!CompleteRead(r) <=> StackP!CompleteRead(r))
        /\ (Stack!CancelParked(r) <=> StackP!CancelParked(r))
    BY DEF Stack!SendRead, StackP!SendRead, Stack!TakeQueued, StackP!TakeQueued, Stack!ParkRead,
           StackP!ParkRead, Stack!CompleteRead, StackP!CompleteRead, Stack!CancelParked,
           StackP!CancelParked
  <1>4. \A c \in Channels :
        /\ (Stack!PurgeQueue(c) <=> StackP!PurgeQueue(c))
        /\ (Stack!StartQueue(c) <=> StackP!StartQueue(c))
    BY DEF Stack!PurgeQueue, StackP!PurgeQueue, Stack!StartQueue, StackP!StartQueue, Stack!Drained,
           StackP!Drained, Stack!Parked, StackP!Parked
  <1>5. /\ (Stack!FreeBacklogs <=> StackP!FreeBacklogs)
        /\ (Stack!SelfManagedIoCleanup <=> StackP!SelfManagedIoCleanup)
    BY DEF Stack!FreeBacklogs, StackP!FreeBacklogs, Stack!SelfManagedIoCleanup,
           StackP!SelfManagedIoCleanup, Stack!Queued, StackP!Queued, Stack!ToSet, StackP!ToSet,
           Stack!Drained, StackP!Drained, Stack!Parked, StackP!Parked
  <1>6. (UNCHANGED Stack!vars <=> UNCHANGED StackP!vars)
    BY DEF Stack!vars, StackP!vars
  <1> HIDE DEF Stack!lists, StackP!lists, Stack!ghosts, StackP!ghosts, Stack!stats, StackP!stats
  <1> QED
    BY <1>1, <1>2, <1>3, <1>4, <1>5, <1>6, Zenon
       DEF Stack!Next, StackP!Next, Stack!DeliverToStack, StackP!DeliverToStack,
           Stack!TakeOrParkForStack, StackP!TakeOrParkForStack

\* The two instances of UserRendezvous have the same steps.
LEMMA SameUserStep == (User!Next <=> UserP!Next) /\ (UNCHANGED User!vars <=> UNCHANGED UserP!vars)
  <1> USE DEF User!list, UserP!list, User!drops, UserP!drops, User!handleVars, UserP!handleVars,
              User!userGhosts, UserP!userGhosts
  <1>1. \A h \in HostPackets :
        /\ (User!SendHost(h) <=> UserP!SendHost(h))
        /\ (User!DropNoClient(h) <=> UserP!DropNoClient(h))
        /\ (User!HandToUser(h) <=> UserP!HandToUser(h))
        /\ (User!QueueForUser(h) <=> UserP!QueueForUser(h))
        /\ (User!LoseForUser(h) <=> UserP!LoseForUser(h))
        /\ (User!CompleteHost(h) <=> UserP!CompleteHost(h))
    BY DEF User!SendHost, UserP!SendHost, User!DropNoClient, UserP!DropNoClient, User!HandToUser,
           UserP!HandToUser, User!QueueForUser, UserP!QueueForUser, User!LoseForUser,
           UserP!LoseForUser, User!CompleteHost, UserP!CompleteHost, User!CanHandToUser,
           UserP!CanHandToUser, User!UserParked, UserP!UserParked
  <1>2. \A u \in UserReads :
        /\ (User!SendUserRead(u) <=> UserP!SendUserRead(u))
        /\ (User!TakeForUser(u) <=> UserP!TakeForUser(u))
        /\ (User!ParkUserRead(u) <=> UserP!ParkUserRead(u))
        /\ (User!RefuseUserRead(u) <=> UserP!RefuseUserRead(u))
        /\ (User!CompleteUserRead(u) <=> UserP!CompleteUserRead(u))
        /\ (User!CancelUserRead(u) <=> UserP!CancelUserRead(u))
    BY DEF User!SendUserRead, UserP!SendUserRead, User!TakeForUser, UserP!TakeForUser,
           User!ParkUserRead, UserP!ParkUserRead, User!RefuseUserRead, UserP!RefuseUserRead,
           User!CompleteUserRead, UserP!CompleteUserRead, User!CancelUserRead, UserP!CancelUserRead
  <1>3. /\ (User!Open <=> UserP!Open)
        /\ (User!CloseHandle <=> UserP!CloseHandle)
        /\ (User!Detach <=> UserP!Detach)
        /\ (User!FreeToUser <=> UserP!FreeToUser)
        /\ (User!RemoveDevice <=> UserP!RemoveDevice)
    BY DEF User!Open, UserP!Open, User!CloseHandle, UserP!CloseHandle, User!Detach, UserP!Detach,
           User!FreeToUser, UserP!FreeToUser, User!RemoveDevice, UserP!RemoveDevice, User!ToSet,
           UserP!ToSet
  <1>4. (UNCHANGED User!vars <=> UNCHANGED UserP!vars)
    BY DEF User!vars, UserP!vars
  <1> HIDE DEF User!list, UserP!list, User!drops, UserP!drops, User!handleVars, UserP!handleVars,
               User!userGhosts, UserP!userGhosts
  <1> QED
    BY <1>1, <1>2, <1>3, <1>4, Zenon
       DEF User!Next, UserP!Next, User!QueueToUser, UserP!QueueToUser, User!EvtIoRead,
           UserP!EvtIoRead

\* The two instances of RadioLifetime have the same steps.
LEMMA SameRadioStep == (Radio!Next <=> RadioP!Next) /\ (UNCHANGED Radio!vars <=> UNCHANGED RadioP!vars)
  <1> USE DEF Radio!handleVars, RadioP!handleVars, Radio!fdoVars, RadioP!fdoVars,
              Radio!controlVars, RadioP!controlVars, Radio!pnpVars, RadioP!pnpVars, RadioIds
  <1>1. /\ (Radio!Open <=> RadioP!Open)
        /\ (Radio!CloseHandle <=> RadioP!CloseHandle)
        /\ (Radio!FileClose <=> RadioP!FileClose)
        /\ (Radio!RemoveRadios <=> RadioP!RemoveRadios)
        /\ (Radio!FinishClose <=> RadioP!FinishClose)
        /\ (Radio!RemoveDevice <=> RadioP!RemoveDevice)
    BY DEF Radio!Open, RadioP!Open, Radio!CloseHandle, RadioP!CloseHandle, Radio!FileClose,
           RadioP!FileClose, Radio!RemoveRadios, RadioP!RemoveRadios, Radio!FinishClose,
           RadioP!FinishClose, Radio!RemoveDevice, RadioP!RemoveDevice, Radio!Present,
           RadioP!Present, Radio!Alive, RadioP!Alive, Radio!RadioIds, RadioP!RadioIds
  <1>2. \A w \in Controls : (Radio!SendControl(w) <=> RadioP!SendControl(w))
    BY DEF Radio!SendControl, RadioP!SendControl, Radio!Cardinality, RadioP!Cardinality,
           Radio!IsFiniteSet, RadioP!IsFiniteSet
  <1>3. \A w \in Controls :
        /\ (Radio!RefuseControl(w) <=> RadioP!RefuseControl(w))
        /\ (Radio!ClaimRadio(w) <=> RadioP!ClaimRadio(w))
        /\ (Radio!AddRadio(w) <=> RadioP!AddRadio(w))
        /\ (Radio!AddRadioFails(w) <=> RadioP!AddRadioFails(w))
        /\ (Radio!UnclaimRadio(w) <=> RadioP!UnclaimRadio(w))
        /\ (Radio!FinishControl(w) <=> RadioP!FinishControl(w))
    BY DEF Radio!RefuseControl, RadioP!RefuseControl, Radio!ClaimRadio, RadioP!ClaimRadio,
           Radio!AddRadio, RadioP!AddRadio, Radio!AddRadioFails, RadioP!AddRadioFails,
           Radio!UnclaimRadio, RadioP!UnclaimRadio, Radio!FinishControl, RadioP!FinishControl
  <1>4. \A id \in RadioIds :
        /\ (Radio!CreatePdo(id) <=> RadioP!CreatePdo(id))
        /\ (Radio!CreatePdoFails(id) <=> RadioP!CreatePdoFails(id))
        /\ (Radio!D0Entry(id) <=> RadioP!D0Entry(id))
        /\ (Radio!D0Exit(id) <=> RadioP!D0Exit(id))
        /\ (Radio!PdoCleanup(id) <=> RadioP!PdoCleanup(id))
    BY DEF Radio!CreatePdo, RadioP!CreatePdo, Radio!CreatePdoFails, RadioP!CreatePdoFails,
           Radio!D0Entry, RadioP!D0Entry, Radio!D0Exit, RadioP!D0Exit, Radio!PdoCleanup,
           RadioP!PdoCleanup
  <1>5. (UNCHANGED Radio!vars <=> UNCHANGED RadioP!vars)
    BY DEF Radio!vars, RadioP!vars
  <1> HIDE DEF Radio!handleVars, RadioP!handleVars, Radio!fdoVars, RadioP!fdoVars,
               Radio!controlVars, RadioP!controlVars, Radio!pnpVars, RadioP!pnpVars
  <1> QED
    BY <1>1, <1>2, <1>3, <1>4, <1>5, Zenon
       DEF Radio!Next, RadioP!Next, Radio!RadioIds, RadioP!RadioIds

-----------------------------------------------------------------------------
(* The parts.                                                              *)

LEMMA Assumptions == StackP!ChannelAssumption /\ UserP!UserAssumption /\ RadioP!RadioAssumption
  BY PartsAssumption
     DEF StackP!ChannelAssumption, UserP!UserAssumption, RadioP!RadioAssumption

\* A step that leaves a part's variables alone is a stutter of it.
LEMMA Stutters ==
  /\ UNCHANGED stackVars => UNCHANGED Stack!vars
  /\ UNCHANGED <<userVars, handle, opens>> => UNCHANGED User!vars
  /\ UNCHANGED radioVars => UNCHANGED Radio!vars
  <1>1. UNCHANGED stackVars => UNCHANGED Stack!vars
    BY DEF stackVars, Stack!vars, Stack!lists, Stack!ghosts, Stack!stats
  <1>2. UNCHANGED <<userVars, handle, opens>> => UNCHANGED User!vars
    BY DEF userVars, User!vars, User!list, User!drops, User!handleVars, User!userGhosts, Session
  <1>3. UNCHANGED radioVars => UNCHANGED Radio!vars
    BY DEF radioVars, Radio!vars, Radio!handleVars, Radio!fdoVars, Radio!controlVars, Radio!pnpVars
  <1> QED BY <1>1, <1>2, <1>3

\* Every step of the driver is one of the radio's, or a stutter.
LEMMA RadioMoves == [Next]_vars => [Radio!Next]_(Radio!vars)
  <1> SUFFICES ASSUME [Next]_vars PROVE Radio!Next \/ UNCHANGED radioVars
    BY Stutters
  <1>1. CASE Open \/ CloseHandle \/ FileClose \/ RemoveRadios \/ PurgeBacklogs \/ RemoveDevice
    BY <1>1 DEF Open, CloseHandle, FileClose, RemoveRadios, PurgeBacklogs, RemoveDevice, Radio!Next
  <1>2. ASSUME NEW p \in Packets,
               Write(p) \/ Admit(p) \/ DeliverToStack(p) \/ CompleteWrite(p)
        PROVE  UNCHANGED radioVars
    BY <1>2 DEF Write, Admit, DeliverToStack, CompleteWrite, StackStep
  <1>3. ASSUME NEW u \in UserReads,
               SendUserRead(u) \/ EvtIoRead(u) \/ CompleteUserRead(u) \/ CancelUserRead(u)
        PROVE  UNCHANGED radioVars
    BY <1>3 DEF SendUserRead, EvtIoRead, CompleteUserRead, CancelUserRead
  <1>4. ASSUME NEW w \in Controls,
               \/ SendControl(w) \/ RefuseControl(w) \/ ClaimRadio(w) \/ AddRadio(w)
               \/ AddRadioFails(w) \/ UnclaimRadio(w) \/ FinishControl(w)
        PROVE  Radio!Next
    BY <1>4 DEF SendControl, RefuseControl, ClaimRadio, AddRadio, AddRadioFails, UnclaimRadio,
                FinishControl, RadioStep, Radio!Next
  <1>5. ASSUME NEW r \in Reads,
               \/ \E id \in RadioIds : SendRead(r, id)
               \/ TakeOrParkForStack(r) \/ CompleteRead(r) \/ CancelParked(r)
        PROVE  UNCHANGED radioVars
    BY <1>5 DEF SendRead, TakeOrParkForStack, CompleteRead, CancelParked, ReadStep
  <1>6. ASSUME NEW h \in HostPackets,
               (\E id \in RadioIds : SendHost(h, id)) \/ QueueToUser(h) \/ CompleteHost(h)
        PROVE  UNCHANGED radioVars
    BY <1>6 DEF SendHost, QueueToUser, CompleteHost
  <1>7. ASSUME NEW id \in RadioIds,
               CreatePdo(id) \/ CreatePdoFails(id) \/ D0Entry(id) \/ D0Exit(id) \/ PdoCleanup(id)
        PROVE  Radio!Next
    BY <1>7 DEF CreatePdo, CreatePdoFails, D0Entry, D0Exit, PdoCleanup, RadioStep, Radio!Next,
                RadioIds, Radio!RadioIds
  <1>8. CASE CloseQueues
    BY <1>8 DEF CloseQueues
  <1>9. CASE UNCHANGED vars
    BY <1>9 DEF vars
  <1> QED
    BY <1>1, <1>2, <1>3, <1>4, <1>5, <1>6, <1>7, <1>8, <1>9
       DEF Next, ClientNext, StackNext, PnpNext, CloseNext

\* The steps of the stack's half that begin neither a write nor a read.
StackGoesOn ==
  \/ \E p \in Packets :
       \/ \E ready \in BOOLEAN : Stack!Admit(p, ready)
       \/ Stack!DeliverToStack(p)
       \/ Stack!CompleteWrite(p)
  \/ \E r \in Reads :
       Stack!TakeOrParkForStack(r) \/ Stack!CompleteRead(r) \/ Stack!CancelParked(r)
  \/ \E c \in Channels : Stack!PurgeQueue(c) \/ Stack!StartQueue(c)
  \/ Stack!FreeBacklogs
  \/ Stack!SelfManagedIoCleanup
  \/ UNCHANGED stackVars

\* As to the channel to the stack, a step writes, sends a read, or goes on with what is there.
LEMMA StackSteps ==
  [Next]_vars =>
    \/ \E p \in Packets : Write(p)
    \/ \E r \in Reads, id \in RadioIds : SendRead(r, id)
    \/ StackGoesOn
  <1> SUFFICES ASSUME [Next]_vars
               PROVE  \/ \E p \in Packets : Write(p)
                      \/ \E r \in Reads, id \in RadioIds : SendRead(r, id)
                      \/ StackGoesOn
    OBVIOUS
  <1>1. ASSUME NEW p \in Packets, Admit(p) \/ DeliverToStack(p) \/ CompleteWrite(p)
        PROVE  StackGoesOn
    <2>1. Stack!Admit(p, Ready) => \E ready \in BOOLEAN : Stack!Admit(p, ready)
      BY DEF Stack!Admit
    <2> QED BY <1>1, <2>1 DEF Admit, DeliverToStack, CompleteWrite, StackStep, StackGoesOn
  <1>2. ASSUME NEW r \in Reads, TakeOrParkForStack(r) \/ CompleteRead(r) \/ CancelParked(r)
        PROVE  StackGoesOn
    BY <1>2 DEF TakeOrParkForStack, CompleteRead, CancelParked, ReadStep, StackGoesOn
  <1>3. CASE CloseQueues
    <2>1. PICK i \in 1..Len(ChannelOrder) : ClosePurge(i) \/ CloseWait(i) \/ CloseStart(i)
      BY <1>3 DEF CloseQueues
    <2>2. ChannelOrder[i] \in Channels
      BY CompositionAssumption DEF ToSet
    <2> QED BY <2>1, <2>2 DEF ClosePurge, CloseWait, CloseStart, StackGoesOn
  <1>4. ASSUME NEW id \in RadioIds, D0Exit(id) PROVE StackGoesOn
    BY <1>4 DEF D0Exit, StackGoesOn
  <1>5. CASE PurgeBacklogs \/ RemoveDevice
    BY <1>5 DEF PurgeBacklogs, RemoveDevice, StackGoesOn
  <1>6. ASSUME UNCHANGED stackVars PROVE StackGoesOn
    BY <1>6 DEF StackGoesOn
  <1>7. CASE Open \/ CloseHandle \/ FileClose \/ RemoveRadios \/ UNCHANGED vars
    BY <1>6, <1>7 DEF Open, CloseHandle, FileClose, RemoveRadios, vars
  <1>8. ASSUME NEW u \in UserReads,
               SendUserRead(u) \/ EvtIoRead(u) \/ CompleteUserRead(u) \/ CancelUserRead(u)
        PROVE  StackGoesOn
    BY <1>6, <1>8 DEF SendUserRead, EvtIoRead, CompleteUserRead, CancelUserRead, UserStep
  <1>9. ASSUME NEW w \in Controls,
               \/ SendControl(w) \/ RefuseControl(w) \/ ClaimRadio(w) \/ AddRadio(w)
               \/ AddRadioFails(w) \/ UnclaimRadio(w) \/ FinishControl(w)
        PROVE  StackGoesOn
    BY <1>6, <1>9 DEF SendControl, RefuseControl, ClaimRadio, AddRadio, AddRadioFails, UnclaimRadio,
                      FinishControl, RadioStep
  <1>10. ASSUME NEW h \in HostPackets,
                (\E id \in RadioIds : SendHost(h, id)) \/ QueueToUser(h) \/ CompleteHost(h)
         PROVE  StackGoesOn
    BY <1>6, <1>10 DEF SendHost, QueueToUser, CompleteHost, UserStep
  <1>11. ASSUME NEW id \in RadioIds,
                CreatePdo(id) \/ CreatePdoFails(id) \/ D0Entry(id) \/ PdoCleanup(id)
         PROVE  StackGoesOn
    BY <1>6, <1>11 DEF CreatePdo, CreatePdoFails, D0Entry, PdoCleanup, RadioStep
  <1> QED
    BY <1>1, <1>2, <1>3, <1>4, <1>5, <1>7, <1>8, <1>9, <1>10, <1>11
       DEF Next, ClientNext, StackNext, PnpNext, CloseNext

\* Every step of the driver is one of the channel to the stack, or a stutter.
LEMMA StackMoves == [Next]_vars => [Stack!Next]_(Stack!vars)
  <1>1. StackGoesOn => [Stack!Next]_(Stack!vars)
    BY Stutters DEF StackGoesOn, Stack!Next
  <1>2. (\E p \in Packets : Write(p)) => Stack!Next
    BY DEF Write, Stack!Next
  <1>3. (\E r \in Reads, id \in RadioIds : SendRead(r, id)) => Stack!Next
    BY DEF SendRead, Stack!Next
  <1> QED BY <1>1, <1>2, <1>3, StackSteps

\* The control packet's reply is a host packet only because a control write that has
\* got so far holds the id of a radio.
LEMMA UserMoves == RadioP!IInv /\ [Next]_vars => [User!Next]_(User!vars)
  <1> SUFFICES ASSUME RadioP!IInv, [Next]_vars
               PROVE  User!Next \/ UNCHANGED <<userVars, handle, opens>> \/ UNCHANGED User!vars
    BY Stutters
  <1>1. ASSUME NEW u \in UserReads,
               SendUserRead(u) \/ EvtIoRead(u) \/ CompleteUserRead(u) \/ CancelUserRead(u)
        PROVE  User!Next
    BY <1>1 DEF SendUserRead, EvtIoRead, CompleteUserRead, CancelUserRead, UserStep, User!Next
  <1>2. ASSUME NEW h \in HostPackets,
               (\E id \in RadioIds : SendHost(h, id)) \/ QueueToUser(h) \/ CompleteHost(h)
        PROVE  User!Next
    BY <1>2 DEF SendHost, QueueToUser, CompleteHost, UserStep, User!Next
  <1>3. CASE Open \/ CloseHandle \/ FileClose \/ PurgeBacklogs \/ RemoveDevice
    BY <1>3 DEF Open, CloseHandle, FileClose, PurgeBacklogs, RemoveDevice, User!Next
  <1>4. ASSUME NEW w \in Controls, AddRadio(w) \/ FinishControl(w) PROVE User!Next
    <2>1. controlId[w] \in RadioIds
      BY <1>4 DEF AddRadio, FinishControl, Radio!AddRadio, Radio!FinishControl, RadioP!IInv,
                  RadioP!TypeOK, RadioP!RadioIds, RadioIds
    <2>2. ReplyOf[controlId[w]] \in HostPackets
      BY <2>1, CompositionAssumption DEF RadioIds
    <2> QED BY <1>4, <2>2 DEF AddRadio, FinishControl, User!Next
  <1>5. CASE RemoveRadios
    <2>1. Session' = Session
      BY <1>5 DEF RemoveRadios, Radio!RemoveRadios, Session
    <2>2. UNCHANGED <<userVars, opens>>
      BY <1>5 DEF RemoveRadios, Radio!RemoveRadios
    <2> QED
      BY <2>1, <2>2
         DEF userVars, User!vars, User!list, User!drops, User!handleVars, User!userGhosts
  <1>6. ASSUME NEW p \in Packets,
               Write(p) \/ Admit(p) \/ DeliverToStack(p) \/ CompleteWrite(p)
        PROVE  UNCHANGED <<userVars, handle, opens>>
    BY <1>6 DEF Write, Admit, DeliverToStack, CompleteWrite, StackStep, radioVars
  <1>7. ASSUME NEW r \in Reads,
               \/ \E id \in RadioIds : SendRead(r, id)
               \/ TakeOrParkForStack(r) \/ CompleteRead(r) \/ CancelParked(r)
        PROVE  UNCHANGED <<userVars, handle, opens>>
    BY <1>7 DEF SendRead, TakeOrParkForStack, CompleteRead, CancelParked, ReadStep, radioVars
  <1>8. ASSUME NEW w \in Controls,
               \/ SendControl(w) \/ RefuseControl(w) \/ ClaimRadio(w) \/ AddRadioFails(w)
               \/ UnclaimRadio(w)
        PROVE  UNCHANGED <<userVars, handle, opens>>
    BY <1>8 DEF SendControl, RefuseControl, ClaimRadio, AddRadioFails, UnclaimRadio, RadioStep,
                Radio!SendControl, Radio!RefuseControl, Radio!ClaimRadio, Radio!AddRadioFails,
                Radio!UnclaimRadio, Radio!handleVars
  <1>9. ASSUME NEW id \in RadioIds,
               CreatePdo(id) \/ CreatePdoFails(id) \/ D0Entry(id) \/ D0Exit(id) \/ PdoCleanup(id)
        PROVE  UNCHANGED <<userVars, handle, opens>>
    BY <1>9 DEF CreatePdo, CreatePdoFails, D0Entry, D0Exit, PdoCleanup, RadioStep, Radio!CreatePdo,
                Radio!CreatePdoFails, Radio!D0Entry, Radio!D0Exit, Radio!PdoCleanup,
                Radio!handleVars
  <1>10. CASE CloseQueues \/ UNCHANGED vars
    BY <1>10 DEF CloseQueues, vars, radioVars
  <1> QED
    BY <1>1, <1>2, <1>3, <1>4, <1>5, <1>6, <1>7, <1>8, <1>9, <1>10
       DEF Next, ClientNext, StackNext, PnpNext, CloseNext

\* The invariants of the parts, in one.
PartsInv ==
  /\ RadioP!IInv
  /\ UserP!IInv /\ UserP!CInv /\ UserP!PeakInv
  /\ StackP!IInv /\ StackP!CInv /\ StackP!PeakInv

\* The driver starts with its components at their start.
LEMMA PartsStart == Init => StackP!Init /\ UserP!Init /\ RadioP!Init
  <1>1. Init => RadioP!Init
    BY DEF Init, Radio!Init, RadioP!Init, Radio!RadioIds, RadioP!RadioIds
  <1>2. Init => UserP!Init
    BY DEF Init, User!Init, UserP!Init
  <1>3. Init => StackP!Init
    BY DEF Init, Stack!Init, StackP!Init
  <1> QED BY <1>1, <1>2, <1>3

\* The components' invariants hold at the start.
LEMMA InitParts == Init => PartsInv
  <1> SUFFICES ASSUME Init PROVE PartsInv
    OBVIOUS
  <1>1. UserP!PeakInv
    BY PartsStart DEF UserP!Init, UserP!PeakInv
  <1>2. StackP!PeakInv
    BY PartsStart DEF StackP!Init, StackP!PeakInv
  <1> QED
    BY <1>1, <1>2, PartsStart, Assumptions, RadioP!InitIInv, UserP!InitIInv, UserP!InitCInv,
       StackP!InitIInv, StackP!InitCInv
       DEF PartsInv

\* Every step of the driver keeps the components' invariants.
LEMMA NextParts == PartsInv /\ [Next]_vars => PartsInv'
  <1> SUFFICES ASSUME PartsInv, [Next]_vars PROVE PartsInv'
    OBVIOUS
  <1>1. [RadioP!Next]_(RadioP!vars)
    BY RadioMoves, SameRadioStep
  <1>2. [UserP!Next]_(UserP!vars)
    BY UserMoves, SameUserStep DEF PartsInv
  <1>3. [StackP!Next]_(StackP!vars)
    BY StackMoves, SameStackStep
  <1>4. RadioP!IInv'
    BY <1>1, Assumptions, RadioP!NextIInv DEF PartsInv
  <1>5. UserP!IInv' /\ UserP!CInv' /\ UserP!PeakInv'
    <2>1. UserP!IInv /\ [UserP!Next]_(UserP!vars) => UserP!IInv'
      BY Assumptions, UserP!NextTypeOK, UserP!NextRendezvous, UserP!NextSession DEF UserP!IInv
    <2> QED BY <1>2, <2>1, Assumptions, UserP!NextCInv, UserP!NextPeak DEF PartsInv
  <1>6. StackP!IInv' /\ StackP!CInv' /\ StackP!PeakInv'
    BY <1>3, Assumptions, StackP!NextIInv, StackP!NextCInv, StackP!NextPeak DEF PartsInv
  <1> QED BY <1>4, <1>5, <1>6 DEF PartsInv

\* The components' invariants hold in every behaviour of the driver.
LEMMA Parts == Spec => []PartsInv
  BY InitParts, NextParts, PTL DEF Spec

\* Every behaviour of the driver is one of each of its parts: no joint step does to
\* a part what its module does not allow.
THEOREM ImplementsComponents == Spec => Components
  <1>1. Init => Stack!Init /\ User!Init /\ Radio!Init
    BY DEF Init
  <1>2. PartsInv /\ [Next]_vars => [User!Next]_(User!vars)
    BY UserMoves DEF PartsInv
  <1> QED
    BY <1>1, <1>2, StackMoves, RadioMoves, Parts, PTL
       DEF Spec, Components, Stack!Spec, User!Spec, Radio!Spec

\* What the proofs about the parts establish, under the names this module uses.
Promises ==
  /\ Stack!Rendezvous /\ Stack!Conservation /\ Stack!InOrderWithOneRead
  /\ User!UserRendezvousRule /\ User!NoStaleRead /\ User!UserConservation
  /\ Radio!RadioIsHandle /\ Radio!PresentAgrees /\ Radio!StartedWhileInD0

\* The parts' guarantees hold of the driver, where the environment each part was
\* proved against is the other parts.
THEOREM PartsKeepTheirPromises == Spec => []Promises
  <1>1. PartsInv /\ [Next]_vars =>
          [StackP!Next]_(StackP!vars) /\ [UserP!Next]_(UserP!vars) /\ [RadioP!Next]_(RadioP!vars)
    BY StackMoves, SameStackStep, UserMoves, SameUserStep, RadioMoves, SameRadioStep DEF PartsInv
  <1>2. Spec => StackP!Spec /\ UserP!Spec /\ RadioP!Spec
    BY <1>1, PartsStart, Parts, PTL DEF Spec, StackP!Spec, UserP!Spec, RadioP!Spec
  <1>3. /\ StackP!Spec => [](StackP!Rendezvous /\ StackP!Conservation /\ StackP!InOrderWithOneRead)
        /\ UserP!Spec => [](UserP!UserRendezvousRule /\ UserP!NoStaleRead /\ UserP!UserConservation)
        /\ RadioP!Spec => [](RadioP!RadioIsHandle /\ RadioP!PresentAgrees /\ RadioP!StartedWhileInD0)
    BY Assumptions, StackP!RendezvousRule, StackP!ConservationHolds, StackP!InOrder,
       UserP!RendezvousRule, UserP!NoStaleReads, UserP!ConservationHolds,
       RadioP!LifetimeIsHandle, RadioP!PresenceAgrees, RadioP!CurrentRadioStaysStarted, PTL
  <1>4. /\ StackP!Rendezvous => Stack!Rendezvous
        /\ StackP!InOrderWithOneRead => Stack!InOrderWithOneRead
    BY DEF StackP!Rendezvous, Stack!Rendezvous, StackP!Parked, Stack!Parked,
           StackP!InOrderWithOneRead, Stack!InOrderWithOneRead, StackP!OneRead, Stack!OneRead,
           StackP!IsPrefix, Stack!IsPrefix
  <1>5. StackP!Conservation => Stack!Conservation
    BY DEF StackP!Conservation, Stack!Conservation, StackP!InOnePlace, Stack!InOnePlace,
           StackP!CountedOnce, Stack!CountedOnce, StackP!Accepted, Stack!Accepted,
           StackP!InBacklog, Stack!InBacklog, StackP!InRead, Stack!InRead, StackP!AtStack,
           Stack!AtStack, StackP!ToSet, Stack!ToSet, StackP!Cardinality, Stack!Cardinality,
           StackP!IsFiniteSet, Stack!IsFiniteSet
  <1>6. /\ UserP!UserRendezvousRule => User!UserRendezvousRule
        /\ UserP!NoStaleRead => User!NoStaleRead
    BY DEF UserP!UserRendezvousRule, User!UserRendezvousRule, UserP!UserParked, User!UserParked,
           UserP!NoStaleRead, User!NoStaleRead
  <1>7. UserP!UserConservation => User!UserConservation
    BY DEF UserP!UserConservation, User!UserConservation, UserP!Accepted, User!Accepted,
           UserP!Kept, User!Kept, UserP!ReadsBusy, User!ReadsBusy, UserP!ToSet, User!ToSet,
           UserP!Cardinality, User!Cardinality, UserP!IsFiniteSet, User!IsFiniteSet
  <1>8. /\ RadioP!RadioIsHandle => Radio!RadioIsHandle
        /\ RadioP!PresentAgrees => Radio!PresentAgrees
        /\ RadioP!StartedWhileInD0 => Radio!StartedWhileInD0
    BY DEF RadioP!RadioIsHandle, Radio!RadioIsHandle, RadioP!PresentAgrees, Radio!PresentAgrees,
           RadioP!StartedWhileInD0, Radio!StartedWhileInD0, RadioP!Present, Radio!Present,
           RadioP!RadioIds, Radio!RadioIds, RadioP!Cardinality, Radio!Cardinality,
           RadioP!IsFiniteSet, Radio!IsFiniteSet
  <1> QED BY <1>2, <1>3, <1>4, <1>5, <1>6, <1>7, <1>8, PTL DEF Promises
-----------------------------------------------------------------------------
(* What the driver's own variables follow.                                 *)

\* Which steps change the open count, the current radio, and what is remembered of
\* both.
LEMMA OwnSteps ==
  [Next]_vars =>
    /\ opens' = opens \/ Open
    /\ currentRadioId' = currentRadioId \/ \E w \in Controls : ClaimRadio(w)
    /\ bornIn' = bornIn \/ \E w \in Controls : ClaimRadio(w)
    /\ writtenIn' = writtenIn \/ \E p \in Packets : Write(p)
    /\ readRadio' = readRadio \/ \E r \in Reads, id \in RadioIds : SendRead(r, id)
  <1> SUFFICES ASSUME [Next]_vars
               PROVE  \/ Open
                      \/ \E w \in Controls : ClaimRadio(w)
                      \/ \E p \in Packets : Write(p)
                      \/ \E r \in Reads, id \in RadioIds : SendRead(r, id)
                      \/ UNCHANGED <<opens, currentRadioId, bornIn, writtenIn, readRadio>>
    <2>1. Open => UNCHANGED <<currentRadioId, bornIn, writtenIn, readRadio>>
      BY DEF Open, Radio!Open, Radio!fdoVars, ownVars, origins
    <2>2. \A w \in Controls : ClaimRadio(w) => UNCHANGED <<opens, writtenIn, readRadio>>
      BY DEF ClaimRadio, Radio!ClaimRadio, Radio!handleVars
    <2>3. \A p \in Packets : Write(p) => UNCHANGED <<opens, currentRadioId, bornIn, readRadio>>
      BY DEF Write, radioVars
    <2>4. \A r \in Reads, id \in RadioIds :
            SendRead(r, id) => UNCHANGED <<opens, currentRadioId, bornIn, writtenIn>>
      BY DEF SendRead, radioVars, origins
    <2> QED BY <2>1, <2>2, <2>3, <2>4
  <1> USE DEF radioVars, ownVars, origins
  <1>1. ASSUME NEW p \in Packets, Admit(p) \/ DeliverToStack(p) \/ CompleteWrite(p)
        PROVE  UNCHANGED <<opens, currentRadioId, bornIn, writtenIn, readRadio>>
    BY <1>1 DEF Admit, DeliverToStack, CompleteWrite, StackStep
  <1>2. ASSUME NEW u \in UserReads,
               SendUserRead(u) \/ EvtIoRead(u) \/ CompleteUserRead(u) \/ CancelUserRead(u)
        PROVE  UNCHANGED <<opens, currentRadioId, bornIn, writtenIn, readRadio>>
    BY <1>2 DEF SendUserRead, EvtIoRead, CompleteUserRead, CancelUserRead, UserStep
  <1>3. ASSUME NEW w \in Controls,
               \/ SendControl(w) \/ RefuseControl(w) \/ AddRadio(w)
               \/ AddRadioFails(w) \/ UnclaimRadio(w) \/ FinishControl(w)
        PROVE  UNCHANGED <<opens, currentRadioId, bornIn, writtenIn, readRadio>>
    BY <1>3 DEF SendControl, RefuseControl, AddRadio, AddRadioFails, UnclaimRadio, FinishControl,
                RadioStep, Radio!SendControl, Radio!RefuseControl, Radio!AddRadio,
                Radio!AddRadioFails, Radio!UnclaimRadio, Radio!FinishControl, Radio!handleVars,
                Radio!fdoVars
  <1>4. ASSUME NEW r \in Reads, TakeOrParkForStack(r) \/ CompleteRead(r) \/ CancelParked(r)
        PROVE  UNCHANGED <<opens, currentRadioId, bornIn, writtenIn, readRadio>>
    BY <1>4 DEF TakeOrParkForStack, CompleteRead, CancelParked, ReadStep
  <1>5. ASSUME NEW h \in HostPackets,
               (\E id \in RadioIds : SendHost(h, id)) \/ QueueToUser(h) \/ CompleteHost(h)
        PROVE  UNCHANGED <<opens, currentRadioId, bornIn, writtenIn, readRadio>>
    BY <1>5 DEF SendHost, QueueToUser, CompleteHost, UserStep
  <1>6. ASSUME NEW id \in RadioIds,
               CreatePdo(id) \/ CreatePdoFails(id) \/ D0Entry(id) \/ D0Exit(id) \/ PdoCleanup(id)
        PROVE  UNCHANGED <<opens, currentRadioId, bornIn, writtenIn, readRadio>>
    BY <1>6 DEF CreatePdo, CreatePdoFails, D0Entry, D0Exit, PdoCleanup, RadioStep, Radio!CreatePdo,
                Radio!CreatePdoFails, Radio!D0Entry, Radio!D0Exit, Radio!PdoCleanup,
                Radio!handleVars, Radio!fdoVars
  <1>7. CASE CloseHandle \/ FileClose \/ RemoveRadios \/ CloseQueues \/ PurgeBacklogs
    BY <1>7 DEF CloseHandle, FileClose, RemoveRadios, CloseQueues, PurgeBacklogs, Radio!CloseHandle,
                Radio!FileClose, Radio!RemoveRadios, Radio!FinishClose, Radio!fdoVars
  <1>8. CASE RemoveDevice \/ UNCHANGED vars
    BY <1>8 DEF RemoveDevice, Radio!RemoveDevice, Radio!fdoVars, vars
  <1> QED
    BY <1>1, <1>2, <1>3, <1>4, <1>5, <1>6, <1>7, <1>8
       DEF Next, ClientNext, StackNext, PnpNext, CloseNext

\* How the handle gets past its requests, and past its backlogs.
LEMMA HandleSteps ==
  [Next]_vars =>
    /\ handle' \in {"remove", "teardown", "closed", "removed"} =>
         handle \in {"remove", "teardown", "closed", "removed"} \/ FileClose
    /\ handle' \in {"closed", "removed"} => handle \in {"closed", "removed"} \/ PurgeBacklogs
  <1> SUFFICES ASSUME [Next]_vars
               PROVE  \/ UNCHANGED handle
                      \/ handle' \in {"open", "cleanup"}
                      \/ FileClose /\ handle' \in {"remove", "teardown"}
                      \/ handle = "remove" /\ handle' = "teardown"
                      \/ handle = "teardown" /\ PurgeBacklogs
                      \/ handle = "closed"
    OBVIOUS
  <1> USE DEF radioVars
  <1>1. CASE Open \/ CloseHandle \/ FileClose \/ RemoveRadios \/ PurgeBacklogs \/ RemoveDevice
    BY <1>1 DEF Open, CloseHandle, FileClose, RemoveRadios, PurgeBacklogs, RemoveDevice, Radio!Open,
                Radio!CloseHandle, Radio!FileClose, Radio!RemoveRadios, Radio!FinishClose,
                Radio!RemoveDevice
  <1>2. CASE CloseQueues \/ UNCHANGED vars
    BY <1>2 DEF CloseQueues, vars
  <1>3. ASSUME NEW p \in Packets,
               Write(p) \/ Admit(p) \/ DeliverToStack(p) \/ CompleteWrite(p)
        PROVE  UNCHANGED handle
    BY <1>3 DEF Write, Admit, DeliverToStack, CompleteWrite, StackStep
  <1>4. ASSUME NEW u \in UserReads,
               SendUserRead(u) \/ EvtIoRead(u) \/ CompleteUserRead(u) \/ CancelUserRead(u)
        PROVE  UNCHANGED handle
    BY <1>4 DEF SendUserRead, EvtIoRead, CompleteUserRead, CancelUserRead, UserStep
  <1>5. ASSUME NEW w \in Controls,
               \/ SendControl(w) \/ RefuseControl(w) \/ ClaimRadio(w) \/ AddRadio(w)
               \/ AddRadioFails(w) \/ UnclaimRadio(w) \/ FinishControl(w)
        PROVE  UNCHANGED handle
    BY <1>5 DEF SendControl, RefuseControl, ClaimRadio, AddRadio, AddRadioFails, UnclaimRadio,
                FinishControl, RadioStep, Radio!SendControl, Radio!RefuseControl, Radio!ClaimRadio,
                Radio!AddRadio, Radio!AddRadioFails, Radio!UnclaimRadio, Radio!FinishControl,
                Radio!handleVars
  <1>6. ASSUME NEW r \in Reads,
               \/ \E id \in RadioIds : SendRead(r, id)
               \/ TakeOrParkForStack(r) \/ CompleteRead(r) \/ CancelParked(r)
        PROVE  UNCHANGED handle
    BY <1>6 DEF SendRead, TakeOrParkForStack, CompleteRead, CancelParked, ReadStep
  <1>7. ASSUME NEW h \in HostPackets,
               (\E id \in RadioIds : SendHost(h, id)) \/ QueueToUser(h) \/ CompleteHost(h)
        PROVE  UNCHANGED handle
    BY <1>7 DEF SendHost, QueueToUser, CompleteHost, UserStep
  <1>8. ASSUME NEW id \in RadioIds,
               CreatePdo(id) \/ CreatePdoFails(id) \/ D0Entry(id) \/ D0Exit(id) \/ PdoCleanup(id)
        PROVE  UNCHANGED handle
    BY <1>8 DEF CreatePdo, CreatePdoFails, D0Entry, D0Exit, PdoCleanup, RadioStep, Radio!CreatePdo,
                Radio!CreatePdoFails, Radio!D0Entry, Radio!D0Exit, Radio!PdoCleanup,
                Radio!handleVars
  <1> QED
    BY <1>1, <1>2, <1>3, <1>4, <1>5, <1>6, <1>7, <1>8
       DEF Next, ClientNext, StackNext, PnpNext, CloseNext
-----------------------------------------------------------------------------
(* A close leaves nothing behind.                                          *)

\* Past EvtFileClose's start no write of the client is outstanding, so past its end,
\* with the backlogs freed, nothing can fill them again.
CloseInv ==
  /\ handle \in {"remove", "teardown", "closed", "removed"} => NoWriteOutstanding
  /\ handle \in {"closed", "removed"} => \A c \in Channels : pending[c] = <<>>

\* With no write outstanding the stack's half begins none and queues nothing.
LEMMA NothingNew ==
  ASSUME StackP!IInv, NoWriteOutstanding,
         StackGoesOn \/ \E r \in Reads : Stack!SendRead(r)
  PROVE  /\ NoWriteOutstanding'
         /\ \A c \in Channels : pending[c] = <<>> => pending'[c] = <<>>
  <1> USE DEF Stack!lists, Stack!ghosts, Stack!stats
  <1>t. /\ write \in [Packets -> StackP!WriteStates]
        /\ \A p \in Packets : write[p] \in {"unsent", "done"}
    BY DEF StackP!IInv, StackP!TypeOK, NoWriteOutstanding
  <1>1. ASSUME UNCHANGED write, pending' = pending \/ pending' = [c \in Channels |-> <<>>]
        PROVE  /\ NoWriteOutstanding'
               /\ \A c \in Channels : pending[c] = <<>> => pending'[c] = <<>>
    BY <1>1, <1>t DEF NoWriteOutstanding
  <1>2. ASSUME NEW p \in Packets PROVE ~Stack!DeliverToStack(p) /\ ~Stack!CompleteWrite(p)
    BY <1>t DEF Stack!DeliverToStack, Stack!HandToRead, Stack!QueueForStack, Stack!FailToQueue,
                Stack!CompleteWrite
  <1>3. ASSUME NEW p \in Packets, NEW ready \in BOOLEAN PROVE ~Stack!Admit(p, ready)
    BY <1>t DEF Stack!Admit
  <1>4. ASSUME NEW r \in Reads, Stack!CompleteRead(r)
        PROVE  UNCHANGED <<write, pending>>
    <2>1. carry[r] \in Packets
      BY <1>4 DEF Stack!CompleteRead, StackP!IInv, StackP!TypeOK
    <2> QED BY <1>4, <1>t, <2>1 DEF Stack!CompleteRead
  <1>5. ASSUME NEW r \in Reads, Stack!TakeQueued(r)
        PROVE  /\ NoWriteOutstanding'
               /\ \A c \in Channels : pending[c] = <<>> => pending'[c] = <<>>
    <2>1. /\ UNCHANGED write
          /\ pending[ReadChannel[r]] # <<>>
          /\ pending' = [pending EXCEPT ![ReadChannel[r]] = Tail(@)]
      BY <1>5 DEF Stack!TakeQueued
    <2>2. pending \in [Channels -> Seq(Packets)]
      BY DEF StackP!IInv, StackP!TypeOK
    <2> QED BY <1>t, <2>1, <2>2 DEF NoWriteOutstanding
  <1>6. ASSUME NEW r \in Reads, Stack!SendRead(r) \/ Stack!ParkRead(r) \/ Stack!CancelParked(r)
        PROVE  UNCHANGED <<write, pending>>
    BY <1>6 DEF Stack!SendRead, Stack!ParkRead, Stack!CancelParked
  <1>7. ASSUME NEW c \in Channels, Stack!PurgeQueue(c) \/ Stack!StartQueue(c)
        PROVE  UNCHANGED <<write, pending>>
    BY <1>7 DEF Stack!PurgeQueue, Stack!StartQueue
  <1>8. CASE Stack!FreeBacklogs \/ Stack!SelfManagedIoCleanup
    BY <1>8, <1>1 DEF Stack!FreeBacklogs, Stack!SelfManagedIoCleanup
  <1>9. CASE UNCHANGED stackVars
    BY <1>9, <1>1 DEF stackVars
  <1> QED
    BY <1>1, <1>2, <1>3, <1>4, <1>5, <1>6, <1>7, <1>8, <1>9
       DEF StackGoesOn, Stack!TakeOrParkForStack

\* Every step keeps what is known at each place of EvtFileClose.
LEMMA NextClose == StackP!IInv /\ CloseInv /\ [Next]_vars => CloseInv'
  <1> SUFFICES ASSUME StackP!IInv, CloseInv, [Next]_vars PROVE CloseInv'
    OBVIOUS
  <1>1. CASE \E p \in Packets : Write(p)
    <2>1. handle' = "open"
      BY <1>1 DEF Write, radioVars
    <2> QED BY <2>1 DEF CloseInv
  <1>2. CASE StackGoesOn \/ \E r \in Reads, id \in RadioIds : SendRead(r, id)
    <2>0. StackGoesOn \/ \E r \in Reads : Stack!SendRead(r)
      BY <1>2 DEF SendRead
    <2>1. ASSUME handle' \in {"remove", "teardown", "closed", "removed"} PROVE NoWriteOutstanding
      BY <2>1, HandleSteps DEF CloseInv, FileClose
    <2>2. ASSUME handle' \in {"closed", "removed"} PROVE \A c \in Channels : pending'[c] = <<>>
      <3>1. PurgeBacklogs => \A c \in Channels : pending'[c] = <<>>
        BY DEF PurgeBacklogs, Stack!FreeBacklogs
      <3>2. handle \in {"closed", "removed"} => \A c \in Channels : pending'[c] = <<>>
        BY <2>0, NothingNew DEF CloseInv
      <3> QED BY <2>2, <3>1, <3>2, HandleSteps
    <2>3. ASSUME handle' \in {"remove", "teardown", "closed", "removed"} PROVE NoWriteOutstanding'
      BY <2>0, <2>1, <2>3, NothingNew
    <2> QED BY <2>2, <2>3 DEF CloseInv
  <1> QED BY <1>1, <1>2, StackSteps

\* What is known of EvtFileClose holds in every behaviour.
LEMMA Closes == Spec => []CloseInv
  <1>1. Init => CloseInv
    BY DEF Init, Stack!Init, CloseInv, NoWriteOutstanding
  <1>2. PartsInv => StackP!IInv
    BY DEF PartsInv
  <1> QED BY <1>1, <1>2, NextClose, Parts, PTL DEF Spec

\* With the device closed nothing of the client's is left, neither a packet on any
\* backlog nor a request, whatever the radio that is still going away sends and reads.
THEOREM CloseLeavesNothing == Spec => []ClosedMeansEmpty
  <1>1. PartsInv /\ CloseInv => ClosedMeansEmpty
    <2> SUFFICES ASSUME PartsInv, CloseInv, handle \in {"closed", "removed"}
                 PROVE  /\ \A c \in Channels : pending[c] = <<>>
                        /\ toUser = <<>>
                        /\ NoWriteOutstanding
                        /\ \A u \in UserReads : userRead[u] = "idle"
      BY DEF ClosedMeansEmpty
    <2>1. Session = handle
      BY DEF Session
    <2>2. toUser = <<>> /\ \A u \in UserReads : userRead[u] = "idle"
      BY <2>1 DEF PartsInv, UserP!IInv, UserP!SessionInv
    <2> QED BY <2>2 DEF CloseInv
  <1> QED BY <1>1, Parts, Closes, PTL
-----------------------------------------------------------------------------
(* No packet reaches a later client's radio.                               *)

\* What a write or a backlog still holds was written in the current open; every read
\* came through a radio of the current open or an earlier one.
OriginInv ==
  /\ bornIn \in [RadioIds -> Nat]
  /\ writtenIn \in [Packets -> Nat]
  /\ readRadio \in [Reads -> Nat]
  /\ \A id \in RadioIds : bornIn[id] <= opens
  /\ \A r \in Reads : readRadio[r] <= currentRadioId
  /\ \A r \in Reads : read[r] # "idle" => readRadio[r] \in RadioIds
  /\ \A p \in Packets : write[p] \in {"admit", "deliver"} => writtenIn[p] = opens
  /\ \A c \in Channels : \A i \in 1..Len(pending[c]) : writtenIn[pending[c][i]] = opens
  /\ NeverToALaterRadio

\* The steps of the stack's half, between which opens, radios and writes stay.
LEMMA StackKeepsOrigins ==
  ASSUME StackP!IInv, OriginInv, StackGoesOn, opens \in Nat,
         UNCHANGED <<opens, currentRadioId, bornIn, writtenIn, readRadio>>
  PROVE  OriginInv'
  <1> USE PartsAssumption DEF Stack!lists, Stack!ghosts, Stack!stats
  <1>t. /\ write \in [Packets -> StackP!WriteStates]
        /\ read \in [Reads -> StackP!ReadStates]
        /\ carry \in [Reads -> Packets \cup {None}]
        /\ \A r \in Reads : read[r] = "filling" <=> carry[r] # None
        /\ pending \in [Channels -> Seq(Packets)]
    BY DEF StackP!IInv, StackP!TypeOK
  <1>q. ASSUME \A p \in Packets :
                 write'[p] \in {"admit", "deliver"} => write[p] \in {"admit", "deliver"},
               \A c \in Channels : \A i \in 1..Len(pending'[c]) : writtenIn[pending'[c][i]] = opens,
               \A r \in Reads : read'[r] # "idle" => read[r] # "idle",
               \A r \in Reads : read'[r] = "filling" =>
                 \/ read[r] = "filling" /\ carry'[r] = carry[r]
                 \/ carry'[r] \in Packets /\ writtenIn[carry'[r]] = opens
        PROVE  OriginInv'
    <2>1. NeverToALaterRadio'
      <3> SUFFICES ASSUME NEW r \in Reads, read'[r] = "filling"
                   PROVE  bornIn[readRadio[r]] <= writtenIn[carry'[r]]
        BY DEF NeverToALaterRadio
      <3>1. CASE read[r] = "filling" /\ carry'[r] = carry[r]
        BY <3>1 DEF OriginInv, NeverToALaterRadio
      <3>2. CASE writtenIn[carry'[r]] = opens
        <4>1. readRadio[r] \in RadioIds
          BY <1>q DEF OriginInv
        <4> QED BY <3>2, <4>1 DEF OriginInv
      <3> QED BY <1>q, <3>1, <3>2
    <2>2. \A r \in Reads : read'[r] # "idle" => readRadio[r] \in RadioIds
      BY <1>q DEF OriginInv
    <2>3. \A p \in Packets : write'[p] \in {"admit", "deliver"} => writtenIn[p] = opens
      BY <1>q DEF OriginInv
    <2> QED BY <1>q, <2>1, <2>2, <2>3 DEF OriginInv
  <1>p. ASSUME UNCHANGED pending \/ pending' = [c \in Channels |-> <<>>]
        PROVE  \A c \in Channels : \A i \in 1..Len(pending'[c]) : writtenIn[pending'[c][i]] = opens
    BY <1>p DEF OriginInv
  <1>1. ASSUME NEW p \in Packets,
               \/ \E ready \in BOOLEAN : Stack!Admit(p, ready)
               \/ Stack!FailToQueue(p)
               \/ Stack!CompleteWrite(p)
        PROVE  OriginInv'
    <2>1. UNCHANGED <<pending, read, carry>>
      BY <1>1 DEF Stack!Admit, Stack!FailToQueue, Stack!CompleteWrite
    <2>2. \A q \in Packets : write'[q] \in {"admit", "deliver"} => write[q] \in {"admit", "deliver"}
      BY <1>1, <1>t DEF Stack!Admit, Stack!FailToQueue, Stack!CompleteWrite
    <2> QED BY <1>p, <1>q, <2>1, <2>2
  <1>2. ASSUME NEW p \in Packets, Stack!HandToRead(p) PROVE OriginInv'
    <2>1. PICK r \in Stack!Parked(PacketChannel[p]) :
            /\ read' = [read EXCEPT ![r] = "filling"]
            /\ carry' = [carry EXCEPT ![r] = p]
      BY <1>2 DEF Stack!HandToRead
    <2>2. r \in Reads /\ read[r] = "parked"
      BY DEF Stack!Parked
    <2>3. /\ UNCHANGED pending
          /\ writtenIn[p] = opens
          /\ write' = [write EXCEPT ![p] = "hand"]
      BY <1>2 DEF Stack!HandToRead, OriginInv
    <2>4. \A q \in Packets : write'[q] \in {"admit", "deliver"} => write[q] \in {"admit", "deliver"}
      BY <1>t, <2>3
    <2>5. \A s \in Reads :
            /\ read'[s] # "idle" => read[s] # "idle"
            /\ s # r => read'[s] = read[s] /\ carry'[s] = carry[s]
      BY <1>t, <2>1, <2>2
    <2>6. carry'[r] = p
      BY <1>t, <2>1, <2>2
    <2>7. \A s \in Reads : read'[s] = "filling" =>
            \/ read[s] = "filling" /\ carry'[s] = carry[s]
            \/ carry'[s] \in Packets /\ writtenIn[carry'[s]] = opens
      BY <2>3, <2>5, <2>6
    <2> QED BY <1>p, <1>q, <2>3, <2>4, <2>5, <2>7
  <1>3. ASSUME NEW p \in Packets, Stack!QueueForStack(p) PROVE OriginInv'
    <2> DEFINE c == PacketChannel[p]
    <2>1. /\ c \in Channels
          /\ UNCHANGED <<read, carry>>
          /\ pending' = [pending EXCEPT ![c] = Append(@, p)]
          /\ write' = [write EXCEPT ![p] = "complete"]
          /\ writtenIn[p] = opens
      BY <1>3 DEF Stack!QueueForStack, OriginInv
    <2>2. \A q \in Packets : write'[q] \in {"admit", "deliver"} => write[q] \in {"admit", "deliver"}
      BY <1>t, <2>1
    <2> HIDE DEF c
    <2>3. ASSUME NEW d \in Channels, NEW i \in 1..Len(pending'[d])
          PROVE  writtenIn[pending'[d][i]] = opens
      <3>1. CASE d = c
        <4>1. pending'[c] = Append(pending[c], p) /\ pending[c] \in Seq(Packets)
          BY <1>t, <2>1
        <4>2. pending'[c][i] = p \/ (i \in 1..Len(pending[c]) /\ pending'[c][i] = pending[c][i])
          BY <3>1, <4>1
        <4> QED BY <2>1, <3>1, <4>2 DEF OriginInv
      <3>2. CASE d # c
        <4>1. pending'[d] = pending[d]
          BY <1>t, <2>1, <3>2
        <4> QED BY <4>1 DEF OriginInv
      <3> QED BY <3>1, <3>2
    <2> QED BY <1>q, <2>1, <2>2, <2>3
  <1>4. ASSUME NEW r \in Reads, Stack!TakeQueued(r) PROVE OriginInv'
    <2> DEFINE c == ReadChannel[r]
    <2>1. /\ c \in Channels
          /\ UNCHANGED write
          /\ pending[c] # <<>>
          /\ read[r] = "sent"
          /\ read' = [read EXCEPT ![r] = "filling"]
          /\ carry' = [carry EXCEPT ![r] = Head(pending[c])]
          /\ pending' = [pending EXCEPT ![c] = Tail(@)]
      BY <1>4 DEF Stack!TakeQueued
    <2> HIDE DEF c
    <2>2. /\ Len(pending[c]) \in Nat \ {0}
          /\ Head(pending[c]) \in Packets
          /\ Head(pending[c]) = pending[c][1]
          /\ Len(Tail(pending[c])) = Len(pending[c]) - 1
          /\ \A i \in 1..Len(Tail(pending[c])) : Tail(pending[c])[i] = pending[c][i + 1]
      <3>1. pending[c] \in Seq(Packets)
        BY <1>t, <2>1
      <3> QED BY <2>1, <3>1, HeadTailProperties, EmptySeq
    <2>3. writtenIn[Head(pending[c])] = opens
      BY <2>1, <2>2 DEF OriginInv
    <2>4. ASSUME NEW d \in Channels, NEW i \in 1..Len(pending'[d])
          PROVE  writtenIn[pending'[d][i]] = opens
      <3>1. CASE d = c
        <4>1. pending'[c] = Tail(pending[c])
          BY <1>t, <2>1
        <4>2. i + 1 \in 1..Len(pending[c]) /\ pending'[c][i] = pending[c][i + 1]
          BY <2>2, <3>1, <4>1
        <4> QED BY <2>1, <3>1, <4>2 DEF OriginInv
      <3>2. CASE d # c
        <4>1. pending'[d] = pending[d]
          BY <1>t, <2>1, <3>2
        <4> QED BY <4>1 DEF OriginInv
      <3> QED BY <3>1, <3>2
    <2>5. \A s \in Reads :
            /\ read'[s] # "idle" => read[s] # "idle"
            /\ s # r => read'[s] = read[s] /\ carry'[s] = carry[s]
      BY <1>t, <2>1
    <2>6. carry'[r] = Head(pending[c])
      BY <1>t, <2>1
    <2>7. \A s \in Reads : read'[s] = "filling" =>
            \/ read[s] = "filling" /\ carry'[s] = carry[s]
            \/ carry'[s] \in Packets /\ writtenIn[carry'[s]] = opens
      BY <2>2, <2>3, <2>5, <2>6
    <2> QED BY <1>q, <2>1, <2>4, <2>5, <2>7
  <1>5. ASSUME NEW r \in Reads, Stack!CompleteRead(r) PROVE OriginInv'
    <2>1. /\ read' = [read EXCEPT ![r] = "idle"]
          /\ carry' = [carry EXCEPT ![r] = None]
          /\ UNCHANGED pending
          /\ carry[r] \in Packets
          /\ write' = write \/ write' = [write EXCEPT ![carry[r]] = "complete"]
      BY <1>5, <1>t DEF Stack!CompleteRead
    <2>2. \A q \in Packets : write'[q] \in {"admit", "deliver"} => write[q] \in {"admit", "deliver"}
      BY <1>t, <2>1
    <2>3. \A s \in Reads :
            /\ read'[s] # "idle" => read[s] # "idle"
            /\ read'[s] = "filling" => read[s] = "filling" /\ carry'[s] = carry[s]
      BY <1>t, <2>1
    <2> QED BY <1>p, <1>q, <2>1, <2>2, <2>3
  <1>6. ASSUME NEW r \in Reads, Stack!ParkRead(r) \/ Stack!CancelParked(r) PROVE OriginInv'
    <2>1. /\ UNCHANGED <<pending, carry, write>>
          /\ read[r] \in {"sent", "parked"}
          /\ read' = [read EXCEPT ![r] = read'[r]] /\ read'[r] \in {"parked", "idle"}
      BY <1>6, <1>t DEF Stack!ParkRead, Stack!CancelParked
    <2>2. \A s \in Reads :
            /\ read'[s] # "idle" => read[s] # "idle"
            /\ read'[s] = "filling" => read[s] = "filling" /\ carry'[s] = carry[s]
      BY <1>t, <2>1
    <2> QED BY <1>p, <1>q, <2>1, <2>2
  <1>7. ASSUME UNCHANGED <<write, read, carry>>,
               UNCHANGED pending \/ pending' = [c \in Channels |-> <<>>]
        PROVE  OriginInv'
    BY <1>7, <1>p, <1>q
  <1>8. ASSUME NEW c \in Channels, Stack!PurgeQueue(c) \/ Stack!StartQueue(c) PROVE OriginInv'
    BY <1>7, <1>8 DEF Stack!PurgeQueue, Stack!StartQueue
  <1>9. CASE Stack!FreeBacklogs \/ Stack!SelfManagedIoCleanup \/ UNCHANGED stackVars
    BY <1>7, <1>9 DEF Stack!FreeBacklogs, Stack!SelfManagedIoCleanup, stackVars
  <1> QED
    BY <1>1, <1>2, <1>3, <1>4, <1>5, <1>6, <1>8, <1>9
       DEF StackGoesOn, Stack!DeliverToStack, Stack!TakeOrParkForStack

\* Every step keeps in which open a packet and a radio began.
LEMMA NextOrigin ==
  ASSUME PartsInv, CloseInv, OriginInv, [Next]_vars
  PROVE  OriginInv'
  <1>r. /\ opens \in 0..MaxOpens /\ MaxOpens \in Nat
        /\ currentRadioId \in Nat /\ nextRadioId = currentRadioId + 1
        /\ \A id \in RadioIds : id \in Nat /\ (id > currentRadioId => pdo[id] = "none")
    BY PartsAssumption
       DEF PartsInv, RadioP!IInv, RadioP!TypeOK, RadioP!IdsInv, RadioP!RadioIds, RadioIds
  <1>s. /\ write \in [Packets -> StackP!WriteStates]
        /\ read \in [Reads -> StackP!ReadStates]
        /\ \A r \in Reads : read[r] = "filling" => carry[r] \in Packets
    BY DEF PartsInv, StackP!IInv, StackP!TypeOK
  <1>1. CASE Open
    <2>1. /\ handle = "closed"
          /\ opens' = opens + 1
          /\ UNCHANGED <<currentRadioId, stackVars, bornIn, writtenIn, readRadio>>
      BY <1>1 DEF Open, Radio!Open, Radio!fdoVars, ownVars, origins
    <2>2. NoWriteOutstanding /\ \A c \in Channels : pending[c] = <<>>
      BY <2>1 DEF CloseInv
    <2>3. UNCHANGED <<write, read, pending, carry>>
      BY <2>1 DEF stackVars
    <2>4. NeverToALaterRadio'
      BY <2>1, <2>3 DEF OriginInv, NeverToALaterRadio
    <2>5. \A id \in RadioIds : bornIn'[id] <= opens'
      BY <1>r, <2>1 DEF OriginInv
    <2> QED BY <2>1, <2>2, <2>3, <2>4, <2>5 DEF OriginInv, NoWriteOutstanding
  <1>2. ASSUME NEW w \in Controls, ClaimRadio(w) PROVE OriginInv'
    <2>1. /\ currentRadioId' = currentRadioId + 1
          /\ bornIn' = [bornIn EXCEPT ![currentRadioId + 1] = opens]
          /\ UNCHANGED <<opens, stackVars, writtenIn, readRadio>>
      BY <1>2, <1>r DEF ClaimRadio, Radio!ClaimRadio, Radio!handleVars
    <2>2. UNCHANGED <<write, read, pending, carry>>
      BY <2>1 DEF stackVars
    <2>3. /\ bornIn' \in [RadioIds -> Nat]
          /\ \A id \in RadioIds : bornIn'[id] <= opens
      <3>1. opens \in Nat
        BY <1>r
      <3>2. \A id \in RadioIds : bornIn'[id] = opens \/ bornIn'[id] = bornIn[id]
        BY <2>1 DEF OriginInv
      <3>3. bornIn' \in [RadioIds -> Nat]
        BY <2>1, <3>1 DEF OriginInv
      <3>4. \A id \in RadioIds : bornIn'[id] <= opens
        BY <3>1, <3>2 DEF OriginInv
      <3> QED BY <3>3, <3>4
    <2>4. \A r \in Reads : readRadio[r] <= currentRadioId /\ readRadio[r] \in Nat
      BY DEF OriginInv
    <2>5. NeverToALaterRadio'
      <3> SUFFICES ASSUME NEW r \in Reads, read[r] = "filling"
                   PROVE  bornIn'[readRadio[r]] <= writtenIn[carry[r]]
        BY <2>1, <2>2 DEF NeverToALaterRadio
      <3>1. readRadio[r] # currentRadioId + 1
        BY <1>r, <2>4
      <3>2. bornIn'[readRadio[r]] = bornIn[readRadio[r]]
        BY <2>1, <3>1 DEF OriginInv
      <3> QED BY <3>2 DEF OriginInv, NeverToALaterRadio
    <2>6. \A r \in Reads : readRadio'[r] <= currentRadioId'
      BY <1>r, <2>1, <2>4
    <2> QED BY <2>1, <2>2, <2>3, <2>5, <2>6 DEF OriginInv
  <1>3. ASSUME NEW p \in Packets, Write(p) PROVE OriginInv'
    <2>1. /\ write' = [write EXCEPT ![p] = "admit"]
          /\ writtenIn' = [writtenIn EXCEPT ![p] = opens]
          /\ UNCHANGED <<opens, currentRadioId, bornIn, readRadio, pending, read, carry>>
      BY <1>3 DEF Write, Stack!Write, Stack!lists, radioVars
    <2>2. writtenIn' \in [Packets -> Nat]
      BY <1>r, <2>1 DEF OriginInv
    <2>3. \A q \in Packets : write'[q] \in {"admit", "deliver"} => writtenIn'[q] = opens
      BY <1>s, <2>1 DEF OriginInv
    <2>4. \A q \in Packets : writtenIn'[q] = opens \/ writtenIn'[q] = writtenIn[q]
      BY <2>1 DEF OriginInv
    <2>5. ASSUME NEW c \in Channels, NEW i \in 1..Len(pending[c]) PROVE writtenIn'[pending[c][i]] = opens
      <3>1. pending[c][i] \in Packets
        BY DEF PartsInv, StackP!IInv, StackP!TypeOK
      <3> QED BY <2>4, <3>1 DEF OriginInv
    <2>6. NeverToALaterRadio'
      <3> SUFFICES ASSUME NEW r \in Reads, read[r] = "filling"
                   PROVE  bornIn[readRadio[r]] <= writtenIn'[carry[r]]
        BY <2>1 DEF NeverToALaterRadio
      <3>1. bornIn[readRadio[r]] <= opens /\ bornIn[readRadio[r]] <= writtenIn[carry[r]]
        BY DEF OriginInv, NeverToALaterRadio
      <3> QED BY <1>s, <2>4, <3>1
    <2> QED BY <2>1, <2>2, <2>3, <2>5, <2>6 DEF OriginInv
  <1>4. ASSUME NEW r \in Reads, NEW id \in RadioIds, SendRead(r, id) PROVE OriginInv'
    <2>1. /\ pdo[id] \in {"d0", "d3"}
          /\ read' = [read EXCEPT ![r] = "sent"]
          /\ readRadio' = [readRadio EXCEPT ![r] = id]
          /\ UNCHANGED <<opens, currentRadioId, bornIn, writtenIn, pending, write, carry>>
      BY <1>4 DEF SendRead, Forwards, Stack!SendRead, Stack!lists, radioVars, origins
    <2>2. id <= currentRadioId /\ id \in Nat
      BY <1>r, <2>1
    <2>3. \A q \in Reads :
            \/ q = r /\ readRadio'[q] = id /\ read'[q] = "sent"
            \/ readRadio'[q] = readRadio[q] /\ read'[q] = read[q]
      BY <1>s, <2>1 DEF OriginInv
    <2>4. readRadio' \in [Reads -> Nat]
      BY <2>1, <2>2 DEF OriginInv
    <2>5. NeverToALaterRadio'
      BY <2>1, <2>3 DEF OriginInv, NeverToALaterRadio
    <2> QED BY <2>1, <2>2, <2>3, <2>4, <2>5 DEF OriginInv
  <1>5. CASE StackGoesOn /\ UNCHANGED <<opens, currentRadioId, bornIn, writtenIn, readRadio>>
    BY <1>5, <1>r, StackKeepsOrigins DEF PartsInv
  <1> QED BY <1>1, <1>2, <1>3, <1>4, <1>5, OwnSteps, StackSteps

\* Reads are not tied to the radio they came through, yet none of a later client's
\* radio is filled with a packet of an earlier client.
THEOREM NotToALaterRadio == Spec => []NeverToALaterRadio
  <1>1. Init => OriginInv
    <2> SUFFICES ASSUME Init PROVE OriginInv
      OBVIOUS
    <2>1. /\ bornIn \in [RadioIds -> Nat]
          /\ writtenIn \in [Packets -> Nat]
          /\ readRadio \in [Reads -> Nat]
          /\ opens = 0 /\ currentRadioId = 0
          /\ \A id \in RadioIds : bornIn[id] = 0
          /\ \A r \in Reads : readRadio[r] = 0
      BY DEF Init, Radio!Init
    <2>2. /\ \A r \in Reads : read[r] = "idle"
          /\ \A p \in Packets : write[p] = "unsent"
          /\ \A c \in Channels : Len(pending[c]) = 0
      BY EmptySeq DEF Init, Stack!Init
    <2> QED BY <2>1, <2>2 DEF OriginInv, NeverToALaterRadio
  <1>2. OriginInv => NeverToALaterRadio
    BY DEF OriginInv
  <1> QED BY <1>1, <1>2, NextOrigin, Parts, Closes, PTL DEF Spec
-----------------------------------------------------------------------------
(* GET_STATS adds up.                                                      *)

\* The counters and the peaks of GET_STATS are consistent in every snapshot: a
\* client can tell from them what the driver did not pass on.
THEOREM Accounts == Spec => []StatsAddUp
  <1>1. PartsInv => StatsAddUp
    <2> SUFFICES ASSUME PartsInv PROVE StatsAddUp
      OBVIOUS
    <2> DEFINE D == {p \in Packets : write[p] \in {"hand", "complete", "done"}}
               L == {h \in HostPackets : fate[h] \in {"no_client", "no_memory"}}
    <2>1. /\ toUserCount <= toUserPeak
          /\ toUserPeak <= queuedTotal
          /\ \A c \in Channels : count[c] <= peak[c]
      BY DEF PartsInv, UserP!PeakInv, StackP!PeakInv
    <2>2. writesTotal + writesNoRadio + allocDrops = Cardinality(D)
      <3>1. writesTotal + writesNoRadio + allocDrops = StackP!Cardinality(D)
        BY Assumptions, StackP!WritesAddUp DEF PartsInv
      <3>2. StackP!Cardinality(D) = Cardinality(D)
        BY DEF StackP!Cardinality, Cardinality, StackP!IsFiniteSet, IsFiniteSet
      <3> QED BY <3>1, <3>2
    <2>3. dropsNoClient + userAllocDrops = Cardinality(L)
      <3>1. dropsNoClient + userAllocDrops = UserP!Cardinality(L)
        BY Assumptions, UserP!DropsAddUp DEF PartsInv
      <3>2. UserP!Cardinality(L) = Cardinality(L)
        BY DEF UserP!Cardinality, Cardinality, UserP!IsFiniteSet, IsFiniteSet
      <3> QED BY <3>1, <3>2
    <2>4. /\ writesTotal \in Nat /\ writesNoRadio \in Nat /\ allocDrops \in Nat
          /\ dropsNoClient \in Nat /\ userAllocDrops \in Nat
      BY DEF PartsInv, StackP!IInv, StackP!TypeOK, UserP!IInv, UserP!TypeOK
    <2> HIDE DEF D, L
    <2>5. writesTotal + writesNoRadio + (allocDrops + userAllocDrops) + dropsNoClient
            = Cardinality(D) + Cardinality(L)
      BY <2>2, <2>3, <2>4
    <2> QED BY <2>1, <2>5 DEF StatsAddUp, Stats, D, L
  <1> QED BY <1>1, Parts, PTL
=============================================================================

------------------------ MODULE UserRendezvousProofs ------------------------
(***************************************************************************)
(* Proofs about UserRendezvous, for any packets, reads and number of       *)
(* sessions: the rendezvous rule, that nothing is kept for a client that   *)
(* has gone, that no client reads what was meant for an earlier one, the   *)
(* conservation of packets and the order in which the client gets them.    *)
(***************************************************************************)
EXTENDS UserRendezvous, ListLemmas, SequenceTheorems, FiniteSetTheorems, TLAPS

\* The driver's Owner follows the handle; a session that is over has no reads; and
\* what is kept was kept for the session that is open.
SessionInv ==
  /\ owner <=> session \in {"open", "cleanup"}
  /\ session \in {"closing", "closed", "removed"} => \A u \in UserReads : userRead[u] = "idle"
  /\ session \in {"closed", "removed"} => toUser = <<>>
  /\ \A i \in 1..Len(toUser) : takenIn[toUser[i]] = opened
  /\ NoStaleRead

IInv == TypeOK /\ UserCountIsLength /\ UserRendezvousRule /\ SessionInv

\* The invariant holds at the start.
LEMMA InitIInv == Init => IInv
  <1> SUFFICES ASSUME Init PROVE IInv
    OBVIOUS
  <1>1. TypeOK
    <2>1. owner \in BOOLEAN
      BY Zenon DEF Init
    <2> QED BY <2>1, UserAssumption DEF Init, TypeOK, Sessions, ReadStates, HostStates, Fates
  <1>2. UserCountIsLength
    BY DEF Init, UserCountIsLength
  <1>3. UserRendezvousRule
    BY DEF Init, UserRendezvousRule
  <1>4. SessionInv
    BY DEF Init, SessionInv, NoStaleRead
  <1> QED BY <1>1, <1>2, <1>3, <1>4 DEF IInv

\* What TakeForUser takes and leaves behind.
LEMMA TakeFromList ==
  ASSUME IInv, toUser # <<>>
  PROVE  /\ Head(toUser) \in HostPackets
         /\ Head(toUser) = toUser[1]
         /\ 1 \in 1..Len(toUser)
         /\ Tail(toUser) \in Seq(HostPackets)
         /\ Len(Tail(toUser)) = toUserCount - 1
         /\ toUserCount - 1 \in Nat
         /\ \A i \in 1..Len(Tail(toUser)) : i + 1 \in 1..Len(toUser) /\ Tail(toUser)[i] = toUser[i + 1]
  <1>1. toUser \in Seq(HostPackets) /\ toUserCount = Len(toUser)
    BY DEF IInv, TypeOK, UserCountIsLength
  <1>2. /\ Head(toUser) \in HostPackets
        /\ Tail(toUser) \in Seq(HostPackets)
        /\ Len(Tail(toUser)) = Len(toUser) - 1
        /\ \A i \in 1..Len(Tail(toUser)) : Tail(toUser)[i] = toUser[i + 1]
        /\ Len(toUser) \in Nat \ {0}
    BY <1>1, HeadTailProperties, EmptySeq
  <1>3. Head(toUser) = toUser[1]
    BY <1>1
  <1> QED BY <1>1, <1>2, <1>3

\* Every step keeps the type.
LEMMA NextTypeOK == IInv /\ [Next]_vars => TypeOK'
  <1> SUFFICES ASSUME IInv, [Next]_vars PROVE TypeOK'
    OBVIOUS
  <1> USE UserAssumption DEF list, drops, handleVars, userGhosts
  <1>t. TypeOK
    BY DEF IInv
  <1>1. ASSUME NEW h \in HostPackets, SendHost(h) \/ CompleteHost(h) PROVE TypeOK'
    BY <1>1, <1>t DEF SendHost, CompleteHost, TypeOK, HostStates
  <1>2. ASSUME NEW h \in HostPackets, DropNoClient(h) \/ LoseForUser(h) PROVE TypeOK'
    <2>1. hostWrite' \in [HostPackets -> HostStates] /\ fate' \in [HostPackets -> Fates]
      BY <1>2, <1>t DEF DropNoClient, LoseForUser, TypeOK, HostStates, Fates
    <2>2. dropsNoClient' \in Nat /\ userAllocDrops' \in Nat
      BY <1>2, <1>t DEF DropNoClient, LoseForUser, TypeOK
    <2> QED BY <1>2, <1>t, <2>1, <2>2 DEF DropNoClient, LoseForUser, TypeOK
  <1>3. ASSUME NEW h \in HostPackets, HandToUser(h) PROVE TypeOK'
    <2>1. PICK u \in UserParked :
            /\ userRead' = [userRead EXCEPT ![u] = "filling"]
            /\ userCarry' = [userCarry EXCEPT ![u] = h]
      BY <1>3 DEF HandToUser
    <2>2. /\ userRead' \in [UserReads -> ReadStates]
          /\ userCarry' \in [UserReads -> HostPackets \cup {None}]
          /\ \A v \in UserReads : userRead'[v] = "filling" <=> userCarry'[v] # None
      BY <1>t, <2>1 DEF TypeOK, UserParked, ReadStates
    <2>3. hostWrite' \in [HostPackets -> HostStates] /\ fate' \in [HostPackets -> Fates]
      BY <1>3, <1>t DEF HandToUser, TypeOK, HostStates, Fates
    <2>4. takenIn' \in [HostPackets -> 0..MaxSessions] /\ userMatched' \in Seq(HostPackets)
      BY <1>3, <1>t DEF HandToUser, TypeOK
    <2> QED BY <1>3, <1>t, <2>2, <2>3, <2>4 DEF HandToUser, TypeOK
  <1>4. ASSUME NEW h \in HostPackets, QueueForUser(h) PROVE TypeOK'
    <2>1. hostWrite' \in [HostPackets -> HostStates] /\ fate' \in [HostPackets -> Fates]
      BY <1>4, <1>t DEF QueueForUser, TypeOK, HostStates, Fates
    <2>2. /\ toUser' \in Seq(HostPackets)
          /\ toUserCount' \in Nat /\ toUserPeak' \in Nat /\ queuedTotal' \in Nat
          /\ takenIn' \in [HostPackets -> 0..MaxSessions]
      BY <1>4, <1>t DEF QueueForUser, TypeOK
    <2> QED BY <1>4, <1>t, <2>1, <2>2 DEF QueueForUser, TypeOK
  <1>5. ASSUME NEW u \in UserReads,
               SendUserRead(u) \/ ParkUserRead(u) \/ RefuseUserRead(u) \/ CancelUserRead(u)
        PROVE  TypeOK'
    BY <1>5, <1>t DEF SendUserRead, ParkUserRead, RefuseUserRead, CancelUserRead, TypeOK, ReadStates
  <1>6. ASSUME NEW u \in UserReads, TakeForUser(u) PROVE TypeOK'
    <2>1. /\ Head(toUser) \in HostPackets
          /\ Tail(toUser) \in Seq(HostPackets)
          /\ toUserCount - 1 \in Nat
      BY <1>6, TakeFromList DEF TakeForUser
    <2>2. /\ userRead' \in [UserReads -> ReadStates]
          /\ userCarry' \in [UserReads -> HostPackets \cup {None}]
          /\ \A v \in UserReads : userRead'[v] = "filling" <=> userCarry'[v] # None
      BY <1>6, <1>t, <2>1 DEF TakeForUser, TypeOK, ReadStates
    <2>3. userMatched' \in Seq(HostPackets)
      BY <1>6, <1>t, <2>1 DEF TakeForUser, TypeOK
    <2> QED BY <1>6, <1>t, <2>1, <2>2, <2>3 DEF TakeForUser, TypeOK
  <1>7. ASSUME NEW u \in UserReads, CompleteUserRead(u) PROVE TypeOK'
    <2>1. userCarry[u] \in HostPackets
      BY <1>7, <1>t DEF CompleteUserRead, TypeOK
    <2>2. /\ userRead' \in [UserReads -> ReadStates]
          /\ userCarry' \in [UserReads -> HostPackets \cup {None}]
          /\ \A v \in UserReads : userRead'[v] = "filling" <=> userCarry'[v] # None
      BY <1>7, <1>t DEF CompleteUserRead, TypeOK, ReadStates
    <2>3. hostWrite' \in [HostPackets -> HostStates] /\ userReceived' \in Seq(HostPackets)
      BY <1>7, <1>t, <2>1 DEF CompleteUserRead, TypeOK, HostStates
    <2> QED BY <1>7, <1>t, <2>2, <2>3 DEF CompleteUserRead, TypeOK
  <1>8. CASE Open \/ CloseHandle \/ Detach
    <2>1. session' \in Sessions /\ opened' \in 0..MaxSessions
      BY <1>8, <1>t DEF Open, CloseHandle, Detach, TypeOK, Sessions
    <2>2. owner' \in BOOLEAN
      BY <1>8, <1>t, Zenon DEF Open, CloseHandle, Detach, TypeOK
    <2> QED BY <1>8, <1>t, <2>1, <2>2 DEF Open, CloseHandle, Detach, TypeOK
  <1>9. CASE FreeToUser \/ RemoveDevice
    <2>1. session' \in Sessions
      BY <1>9 DEF FreeToUser, RemoveDevice, Sessions
    <2>2. toUser' = <<>> /\ toUserCount' = 0
      BY <1>9 DEF FreeToUser, RemoveDevice
    <2>3. userFlushed' \subseteq HostPackets
      BY <1>9, <1>t DEF FreeToUser, RemoveDevice, TypeOK, ToSet
    <2> QED BY <1>9, <1>t, <2>1, <2>2, <2>3 DEF FreeToUser, RemoveDevice, TypeOK
  <1>10. CASE UNCHANGED vars
    BY <1>10, <1>t DEF vars, TypeOK
  <1> QED
    BY <1>1, <1>2, <1>3, <1>4, <1>5, <1>6, <1>7, <1>8, <1>9, <1>10 DEF Next, QueueToUser, EvtIoRead

\* The count and the list stay in step, and a read parks only where the list is
\* empty, a packet joins the list only where no read waits.
LEMMA NextRendezvous == IInv /\ [Next]_vars => UserCountIsLength' /\ UserRendezvousRule'
  <1> SUFFICES ASSUME IInv, [Next]_vars PROVE UserCountIsLength' /\ UserRendezvousRule'
    OBVIOUS
  <1> USE DEF list, drops, handleVars, userGhosts
  <1>t. /\ toUser \in Seq(HostPackets) /\ toUserCount = Len(toUser)
        /\ toUser = <<>> \/ UserParked = {}
        /\ userRead \in [UserReads -> ReadStates]
    BY DEF IInv, TypeOK, UserCountIsLength, UserRendezvousRule
  <1>q. ASSUME UNCHANGED <<toUser, toUserCount>>, toUser = <<>> \/ UserParked' \subseteq UserParked
        PROVE  UserCountIsLength' /\ UserRendezvousRule'
    BY <1>q, <1>t DEF UserCountIsLength, UserRendezvousRule
  <1>1. ASSUME NEW h \in HostPackets,
               SendHost(h) \/ CompleteHost(h) \/ DropNoClient(h) \/ LoseForUser(h)
        PROVE  UserCountIsLength' /\ UserRendezvousRule'
    BY <1>1, <1>q DEF SendHost, CompleteHost, DropNoClient, LoseForUser, UserParked
  <1>2. ASSUME NEW h \in HostPackets, HandToUser(h)
        PROVE  UserCountIsLength' /\ UserRendezvousRule'
    <2>1. UserParked' \subseteq UserParked
      BY <1>2, <1>t DEF HandToUser, UserParked
    <2>2. UNCHANGED <<toUser, toUserCount>>
      BY <1>2 DEF HandToUser
    <2> QED BY <2>1, <2>2, <1>q
  <1>3. ASSUME NEW h \in HostPackets, QueueForUser(h)
        PROVE  UserCountIsLength' /\ UserRendezvousRule'
    <2>1. UserCountIsLength'
      BY <1>3, <1>t DEF QueueForUser, UserCountIsLength
    <2>2. UserParked = {}
      <3>1. toUserCount = 0 => toUser = <<>>
        BY <1>t, EmptySeq
      <3>2. toUserCount # 0 => toUser # <<>>
        BY <1>t
      <3> QED BY <1>3, <1>t, <3>1, <3>2 DEF QueueForUser, CanHandToUser
    <2>3. UserParked' = UserParked
      BY <1>3 DEF QueueForUser, UserParked
    <2> QED BY <2>1, <2>2, <2>3 DEF UserRendezvousRule
  <1>4. ASSUME NEW u \in UserReads,
               SendUserRead(u) \/ RefuseUserRead(u) \/ CancelUserRead(u) \/ CompleteUserRead(u)
        PROVE  UserCountIsLength' /\ UserRendezvousRule'
    <2>1. UserParked' \subseteq UserParked
      BY <1>4, <1>t DEF SendUserRead, RefuseUserRead, CancelUserRead, CompleteUserRead, UserParked
    <2>2. UNCHANGED <<toUser, toUserCount>>
      BY <1>4 DEF SendUserRead, RefuseUserRead, CancelUserRead, CompleteUserRead
    <2> QED BY <2>1, <2>2, <1>q
  <1>5. ASSUME NEW u \in UserReads, ParkUserRead(u)
        PROVE  UserCountIsLength' /\ UserRendezvousRule'
    BY <1>5, <1>q DEF ParkUserRead
  <1>6. ASSUME NEW u \in UserReads, TakeForUser(u)
        PROVE  UserCountIsLength' /\ UserRendezvousRule'
    <2>1. UserCountIsLength'
      BY <1>6, TakeFromList DEF TakeForUser, UserCountIsLength
    <2>2. UserParked' \subseteq UserParked
      BY <1>6, <1>t DEF TakeForUser, UserParked
    <2>3. UserParked = {}
      BY <1>6, <1>t DEF TakeForUser
    <2> QED BY <2>1, <2>2, <2>3 DEF UserRendezvousRule
  <1>7. CASE Open \/ CloseHandle \/ Detach
    BY <1>7, <1>q DEF Open, CloseHandle, Detach, UserParked
  <1>8. CASE FreeToUser \/ RemoveDevice
    BY <1>8 DEF FreeToUser, RemoveDevice, UserCountIsLength, UserRendezvousRule
  <1>9. CASE UNCHANGED vars
    BY <1>9, <1>q DEF vars, UserParked
  <1> QED
    BY <1>1, <1>2, <1>3, <1>4, <1>5, <1>6, <1>7, <1>8, <1>9 DEF Next, QueueToUser, EvtIoRead

\* What was kept for a session is gone when the next one opens: the reads because
\* Detach waits for them, the list because QueueToUser looks at Owner and
\* FreeToUser comes last.
LEMMA NextSession == IInv /\ [Next]_vars => SessionInv'
  <1> SUFFICES ASSUME IInv, [Next]_vars PROVE SessionInv'
    OBVIOUS
  <1> USE DEF list, drops, handleVars, userGhosts
  <1>t. TypeOK /\ SessionInv
    BY DEF IInv
  <1>i. \A i \in 1..Len(toUser) : toUser[i] \in HostPackets
    BY <1>t DEF TypeOK
  <1>1. ASSUME NEW h \in HostPackets,
               SendHost(h) \/ CompleteHost(h) \/ DropNoClient(h) \/ LoseForUser(h)
        PROVE  SessionInv'
    BY <1>1, <1>t DEF SendHost, CompleteHost, DropNoClient, LoseForUser, SessionInv, NoStaleRead
  <1>2. ASSUME NEW h \in HostPackets, HandToUser(h) PROVE SessionInv'
    <2>1. /\ takenIn' = [takenIn EXCEPT ![h] = opened]
          /\ session \in {"open", "cleanup"}
          /\ UNCHANGED <<session, owner, opened, toUser>>
      BY <1>2, <1>t DEF HandToUser, SessionInv
    <2>2. \A i \in 1..Len(toUser) : takenIn'[toUser[i]] = opened
      BY <1>t, <1>i, <2>1 DEF TypeOK, SessionInv
    <2>3. \A u \in UserReads : userCarry'[u] # None => userCarry'[u] = h \/ userCarry'[u] = userCarry[u]
      BY <1>2, <1>t DEF HandToUser, TypeOK, UserParked
    <2>4. NoStaleRead'
      BY <1>t, <2>1, <2>3 DEF TypeOK, SessionInv, NoStaleRead
    <2> QED BY <1>t, <2>1, <2>2, <2>4 DEF SessionInv
  <1>3. ASSUME NEW h \in HostPackets, QueueForUser(h) PROVE SessionInv'
    <2>1. /\ takenIn' = [takenIn EXCEPT ![h] = opened]
          /\ session \in {"open", "cleanup"}
          /\ toUser' = Append(toUser, h)
          /\ UNCHANGED <<session, owner, opened, userRead, userCarry>>
      BY <1>3, <1>t DEF QueueForUser, SessionInv
    <2>2. \A i \in 1..Len(toUser') : toUser'[i] = h \/ (i \in 1..Len(toUser) /\ toUser'[i] = toUser[i])
      BY <1>t, <2>1 DEF TypeOK
    <2>3. \A i \in 1..Len(toUser') : takenIn'[toUser'[i]] = opened
      BY <1>t, <1>i, <2>1, <2>2 DEF TypeOK, SessionInv
    <2>4. NoStaleRead'
      BY <1>t, <2>1 DEF TypeOK, SessionInv, NoStaleRead
    <2> QED BY <1>t, <2>1, <2>3, <2>4 DEF SessionInv
  <1>4. ASSUME NEW u \in UserReads,
               SendUserRead(u) \/ ParkUserRead(u) \/ RefuseUserRead(u) \/ CancelUserRead(u)
        PROVE  SessionInv'
    BY <1>4, <1>t DEF SendUserRead, ParkUserRead, RefuseUserRead, CancelUserRead, TypeOK, SessionInv, NoStaleRead
  <1>5. ASSUME NEW u \in UserReads, TakeForUser(u) PROVE SessionInv'
    <2>1. /\ session \notin {"closing", "closed", "removed"}
          /\ userCarry' = [userCarry EXCEPT ![u] = toUser[1]]
          /\ takenIn[toUser[1]] = opened
          /\ UNCHANGED <<session, owner, opened, takenIn>>
      BY <1>5, <1>t, TakeFromList DEF TakeForUser, SessionInv
    <2>2. \A i \in 1..Len(toUser') : takenIn'[toUser'[i]] = opened
      BY <1>5, <1>t, TakeFromList DEF TakeForUser, SessionInv
    <2>3. NoStaleRead'
      BY <1>t, <2>1 DEF TypeOK, SessionInv, NoStaleRead
    <2> QED BY <1>t, <2>1, <2>2, <2>3 DEF SessionInv
  <1>6. ASSUME NEW u \in UserReads, CompleteUserRead(u) PROVE SessionInv'
    <2>1. /\ userRead' = [userRead EXCEPT ![u] = "idle"]
          /\ userCarry' = [userCarry EXCEPT ![u] = None]
          /\ UNCHANGED <<session, owner, opened, toUser, takenIn>>
      BY <1>6 DEF CompleteUserRead
    <2> QED BY <1>t, <2>1 DEF TypeOK, SessionInv, NoStaleRead
  <1>7. CASE Open
    <2>1. /\ session' = "open" /\ owner'
          /\ toUser' = <<>>
          /\ UNCHANGED userCarry
      BY <1>7, <1>t DEF Open, SessionInv
    <2>2. \A u \in UserReads : userCarry[u] = None
      BY <1>7, <1>t DEF Open, TypeOK, SessionInv
    <2> QED BY <2>1, <2>2 DEF SessionInv, NoStaleRead
  <1>8. CASE CloseHandle
    BY <1>8, <1>t DEF CloseHandle, SessionInv, NoStaleRead
  <1>9. CASE Detach
    BY <1>9, <1>t DEF Detach, SessionInv, NoStaleRead
  <1>10. CASE FreeToUser \/ RemoveDevice
    <2>1. /\ session \in {"closing", "closed"}
          /\ session' \in {"closed", "removed"}
          /\ toUser' = <<>>
          /\ UNCHANGED <<owner, opened, userRead, userCarry, takenIn>>
      BY <1>10 DEF FreeToUser, RemoveDevice
    <2> QED BY <1>t, <2>1 DEF SessionInv, NoStaleRead
  <1>11. CASE UNCHANGED vars
    BY <1>11, <1>t DEF vars, SessionInv, NoStaleRead
  <1> QED
    BY <1>1, <1>2, <1>3, <1>4, <1>5, <1>6, <1>7, <1>8, <1>9, <1>10, <1>11
       DEF Next, QueueToUser, EvtIoRead

\* The invariant holds in every behaviour.
LEMMA Inductive == Spec => []IInv
  <1>1. IInv /\ [Next]_vars => IInv'
    BY NextTypeOK, NextRendezvous, NextSession DEF IInv
  <1> QED BY InitIInv, <1>1, PTL DEF Spec

\* Every variable keeps its type in every behaviour.
THEOREM TypeCorrect == Spec => []TypeOK
  <1>1. IInv => TypeOK
    BY DEF IInv
  <1> QED BY <1>1, Inductive, PTL

\* QueueToUser decides on the count and EvtIoRead on the list: they agree.
THEOREM CountCorrect == Spec => []UserCountIsLength
  <1>1. IInv => UserCountIsLength
    BY DEF IInv
  <1> QED BY <1>1, Inductive, PTL

\* A packet for the client and a read of the client never both wait.
THEOREM RendezvousRule == Spec => []UserRendezvousRule
  <1>1. IInv => UserRendezvousRule
    BY DEF IInv
  <1> QED BY <1>1, Inductive, PTL

\* Once the handle is closed nothing is kept for it, however long the stack goes
\* on writing (the BugCheck 0xC4 / 0x62 of user.c:190).
THEOREM NothingKept == Spec => []NothingForNobody
  <1>1. IInv => NothingForNobody
    BY DEF IInv, TypeOK, SessionInv, NothingForNobody
  <1> QED BY <1>1, Inductive, PTL

\* A client reads only what the driver took in for that client.
THEOREM NoStaleReads == Spec => []NoStaleRead
  <1>1. IInv => NoStaleRead
    BY DEF IInv, SessionInv
  <1> QED BY <1>1, Inductive, PTL

\* Every step is one of the abstract channel, or a stutter.
LEMMA FifoStep == IInv /\ [Next]_vars => [UserFifo!Next]_(UserFifo!vars)
  <1> SUFFICES ASSUME IInv, [Next]_vars PROVE [UserFifo!Next]_(UserFifo!vars)
    OBVIOUS
  <1> USE DEF list, drops, handleVars, userGhosts
  <1>1. ASSUME NEW h \in HostPackets, HandToUser(h) PROVE UserFifo!Next
    <2>1. toUser = <<>>
      BY <1>1, EmptySeq DEF HandToUser, IInv, TypeOK, UserCountIsLength
    <2> QED BY <1>1, <2>1 DEF HandToUser, UserFifo!Next, UserFifo!Pass
  <1>2. ASSUME NEW h \in HostPackets, QueueForUser(h) PROVE UserFifo!Next
    BY <1>2 DEF QueueForUser, UserFifo!Next, UserFifo!Put
  <1>3. ASSUME NEW u \in UserReads, TakeForUser(u) PROVE UserFifo!Next
    BY <1>3 DEF TakeForUser, UserFifo!Next, UserFifo!Get
  <1>4. CASE FreeToUser \/ RemoveDevice
    BY <1>4 DEF FreeToUser, RemoveDevice, UserFifo!Next, UserFifo!Flush
  <1>5. ASSUME UNCHANGED <<toUser, userMatched>> PROVE UNCHANGED (UserFifo!vars)
    BY <1>5 DEF UserFifo!vars
  <1>6. ASSUME NEW h \in HostPackets,
               SendHost(h) \/ CompleteHost(h) \/ DropNoClient(h) \/ LoseForUser(h)
        PROVE  UNCHANGED <<toUser, userMatched>>
    BY <1>6 DEF SendHost, CompleteHost, DropNoClient, LoseForUser
  <1>7. ASSUME NEW u \in UserReads,
               \/ SendUserRead(u) \/ ParkUserRead(u) \/ RefuseUserRead(u)
               \/ CancelUserRead(u) \/ CompleteUserRead(u)
        PROVE  UNCHANGED <<toUser, userMatched>>
    BY <1>7 DEF SendUserRead, ParkUserRead, RefuseUserRead, CancelUserRead, CompleteUserRead
  <1>8. CASE Open \/ CloseHandle \/ Detach \/ UNCHANGED vars
    BY <1>5, <1>8 DEF Open, CloseHandle, Detach, vars
  <1> QED
    BY <1>1, <1>2, <1>3, <1>4, <1>5, <1>6, <1>7, <1>8 DEF Next, QueueToUser, EvtIoRead

\* Towards the client the driver implements the lossy FIFO.
THEOREM ImplementsLossyFifo == Spec => UserIsLossyFifo
  <1>1. Init => UserFifo!Init
    BY DEF Init, UserFifo!Init
  <1> QED BY <1>1, FifoStep, Inductive, PTL DEF Spec, UserIsLossyFifo, UserFifo!Spec
-----------------------------------------------------------------------------
(* Conservation.                                                           *)

\* A packet has a fate once QueueToUser has decided on it, and not before.
Decided == \A h \in HostPackets : (fate[h] = "none") <=> hostWrite[h] \in {"unsent", "sent"}

\* The backlog holds each packet once, and none that an earlier close has freed:
\* the sums of UserConservation would count such a packet twice.
KeptOnce == IsInjective(toUser) /\ ToSet(toUser) \cap userFlushed = {}

\* Only finitely many packets and reads are in use in any state.
Countable ==
  /\ IsFiniteSet(ReadsBusy)
  /\ IsFiniteSet(userFlushed)
  /\ IsFiniteSet({h \in HostPackets : Accepted(h)})
  /\ IsFiniteSet({h \in HostPackets : fate[h] = "no_client"})
  /\ IsFiniteSet({h \in HostPackets : fate[h] = "no_memory"})

\* The inductive invariant of UserConservation.
CInv == Decided /\ KeptOnce /\ Countable /\ UserConservation

\* At the start nothing is taken in, and nothing is counted.
LEMMA InitCInv == Init => CInv
  <1> SUFFICES ASSUME Init PROVE CInv
    OBVIOUS
  <1> USE UserAssumption
  <1>1. Decided
    BY DEF Init, Decided
  <1>2. KeptOnce
    BY EmptyList DEF Init, KeptOnce
  <1>3. /\ ReadsBusy = {}
        /\ {h \in HostPackets : Accepted(h)} = {}
        /\ {h \in HostPackets : fate[h] = "no_client"} = {}
        /\ {h \in HostPackets : fate[h] = "no_memory"} = {}
    BY DEF Init, ReadsBusy, Accepted
  <1>4. Countable
    BY <1>3, FS_EmptySet DEF Init, Countable
  <1>5. \A h \in HostPackets : Accepted(h) <=> Kept(h)
    BY EmptyList DEF Init, Accepted, Kept
  <1>6. UserConservation
    <2>1. /\ Len(toUser) = 0 /\ Len(userReceived) = 0
          /\ Cardinality(ReadsBusy) = 0 /\ Cardinality(userFlushed) = 0
      BY <1>3, FS_EmptySet, EmptySeq DEF Init
    <2>2. /\ Cardinality({h \in HostPackets : Accepted(h)}) = 0
          /\ Cardinality({h \in HostPackets : fate[h] = "no_client"}) = 0
          /\ Cardinality({h \in HostPackets : fate[h] = "no_memory"}) = 0
      BY <1>3, FS_EmptySet
    <2>3. dropsNoClient = 0 /\ userAllocDrops = 0
      BY DEF Init
    <2> QED BY <1>5, <2>1, <2>2, <2>3 DEF UserConservation
  <1> QED BY <1>1, <1>2, <1>4, <1>6 DEF CInv

\* The cardinalities of the invariant are numbers.
LEMMA Numbers ==
  ASSUME TypeOK, Countable
  PROVE  /\ Cardinality(ReadsBusy) \in Nat
         /\ Cardinality(userFlushed) \in Nat
         /\ Cardinality({h \in HostPackets : Accepted(h)}) \in Nat
         /\ Len(toUser) \in Nat
         /\ Len(userReceived) \in Nat
  BY FS_CardinalityType, LenProperties DEF TypeOK, Countable

\* A step that moves no packet and decides on none.
LEMMA NoMove ==
  ASSUME CInv,
         UNCHANGED <<toUser, userCarry, fate, drops, userReceived, userFlushed>>,
         \A h \in HostPackets : hostWrite'[h] \in {"unsent", "sent"} <=> hostWrite[h] \in {"unsent", "sent"}
  PROVE  CInv'
  <1>1. ReadsBusy' = ReadsBusy
    BY DEF ReadsBusy
  <1>2. \A h \in HostPackets : (Accepted(h)' <=> Accepted(h)) /\ (Kept(h)' <=> Kept(h))
    BY DEF Accepted, Kept
  <1>3. /\ {h \in HostPackets : Accepted(h)}' = {h \in HostPackets : Accepted(h)}
        /\ {h \in HostPackets : fate[h] = "no_client"}' = {h \in HostPackets : fate[h] = "no_client"}
        /\ {h \in HostPackets : fate[h] = "no_memory"}' = {h \in HostPackets : fate[h] = "no_memory"}
    BY <1>2
  <1>4. Decided' /\ KeptOnce'
    BY DEF CInv, Decided, KeptOnce
  <1>5. Countable'
    BY <1>1, <1>3 DEF CInv, Countable
  <1>6. UserConservation'
    BY <1>1, <1>2, <1>3 DEF CInv, UserConservation, drops
  <1> QED BY <1>4, <1>5, <1>6 DEF CInv

\* What deciding on a packet does to the sets that are counted.
LEMMA Decide ==
  ASSUME TypeOK, CInv, NEW h \in HostPackets, hostWrite[h] = "sent",
         NEW f \in {"accepted", "no_client", "no_memory"},
         fate' = [fate EXCEPT ![h] = f]
  PROVE  /\ fate[h] = "none" /\ ~Kept(h)
         /\ \A q \in HostPackets : Accepted(q)' <=> Accepted(q) \/ (q = h /\ f = "accepted")
         /\ \A g \in {"accepted", "no_client", "no_memory"} :
              /\ IsFiniteSet({q \in HostPackets : fate'[q] = g})
              /\ Cardinality({q \in HostPackets : fate'[q] = g})
                   = Cardinality({q \in HostPackets : fate[q] = g}) + (IF g = f THEN 1 ELSE 0)
              /\ Cardinality({q \in HostPackets : fate[q] = g}) \in Nat
  <1>1. fate[h] = "none" /\ fate \in [HostPackets -> Fates]
    BY DEF CInv, Decided, TypeOK
  <1>2. ~Kept(h)
    BY <1>1 DEF CInv, UserConservation, Accepted
  <1>3. \A q \in HostPackets : Accepted(q)' <=> Accepted(q) \/ (q = h /\ f = "accepted")
    BY <1>1 DEF Accepted
  <1>4. ASSUME NEW g \in {"accepted", "no_client", "no_memory"}
        PROVE  /\ IsFiniteSet({q \in HostPackets : fate'[q] = g})
               /\ Cardinality({q \in HostPackets : fate'[q] = g})
                    = Cardinality({q \in HostPackets : fate[q] = g}) + (IF g = f THEN 1 ELSE 0)
               /\ Cardinality({q \in HostPackets : fate[q] = g}) \in Nat
    <2> DEFINE A == {q \in HostPackets : fate[q] = g}
               B == {q \in HostPackets : fate'[q] = g}
    <2>1. IsFiniteSet(A)
      BY DEF CInv, Countable, Accepted
    <2>2. CASE g = f
      <3>1. B = A \cup {h} /\ h \notin A
        BY <1>1, <2>2
      <3> HIDE DEF A, B
      <3>2. IsFiniteSet(A \cup {h}) /\ Cardinality(A \cup {h}) = Cardinality(A) + 1
        BY <2>1, <3>1, FS_AddElement
      <3>3. Cardinality(A) \in Nat
        BY <2>1, FS_CardinalityType
      <3>4. IsFiniteSet(B) /\ Cardinality(B) = Cardinality(A) + 1
        BY <3>1, <3>2
      <3> QED BY <2>2, <3>3, <3>4 DEF A, B
    <2>3. CASE g # f
      <3>1. B = A
        BY <1>1, <2>3
      <3> HIDE DEF A, B
      <3>2. Cardinality(A) \in Nat
        BY <2>1, FS_CardinalityType
      <3>3. IsFiniteSet(B) /\ Cardinality(B) = Cardinality(A) + 0
        BY <2>1, <3>1, <3>2
      <3> QED BY <2>3, <3>2, <3>3 DEF A, B
    <2> QED BY <2>2, <2>3
  <1> QED BY <1>1, <1>2, <1>3, <1>4

\* Dropping a packet keeps the account.
LEMMA DropCInv ==
  ASSUME IInv, CInv, NEW h \in HostPackets, DropNoClient(h) \/ LoseForUser(h)
  PROVE  CInv'
  <1>t. TypeOK
    BY DEF IInv
  <1>1. PICK f \in {"no_client", "no_memory"} :
          /\ hostWrite[h] = "sent"
          /\ hostWrite' = [hostWrite EXCEPT ![h] = "complete"]
          /\ fate' = [fate EXCEPT ![h] = f]
          /\ dropsNoClient' = dropsNoClient + (IF f = "no_client" THEN 1 ELSE 0)
          /\ userAllocDrops' = userAllocDrops + (IF f = "no_memory" THEN 1 ELSE 0)
          /\ UNCHANGED <<toUser, userCarry, userReceived, userFlushed>>
    <2>1. CASE DropNoClient(h)
      BY <1>t, <2>1 DEF DropNoClient, TypeOK, list, userGhosts
    <2>2. CASE LoseForUser(h)
      BY <1>t, <2>2 DEF LoseForUser, TypeOK, list, userGhosts
    <2> QED BY <2>1, <2>2
  <1>2. /\ fate[h] = "none" /\ ~Kept(h)
        /\ \A q \in HostPackets : Accepted(q)' <=> Accepted(q)
        /\ \A g \in {"accepted", "no_client", "no_memory"} :
              /\ IsFiniteSet({q \in HostPackets : fate'[q] = g})
              /\ Cardinality({q \in HostPackets : fate'[q] = g})
                   = Cardinality({q \in HostPackets : fate[q] = g}) + (IF g = f THEN 1 ELSE 0)
              /\ Cardinality({q \in HostPackets : fate[q] = g}) \in Nat
    BY <1>t, <1>1, Decide
  <1>3. Decided'
    BY <1>t, <1>1 DEF CInv, Decided, TypeOK
  <1>4. KeptOnce' /\ ReadsBusy' = ReadsBusy
    BY <1>1 DEF CInv, KeptOnce, ReadsBusy
  <1>5. Countable'
    BY <1>1, <1>2, <1>4 DEF CInv, Countable, Accepted
  <1>6. \A q \in HostPackets : Accepted(q)' <=> Kept(q)'
    BY <1>1, <1>2 DEF CInv, UserConservation, Kept
  <1>7. {q \in HostPackets : Accepted(q)}' = {q \in HostPackets : Accepted(q)}
    BY <1>2
  <1>8. UserConservation'
    BY <1>1, <1>2, <1>4, <1>6, <1>7 DEF CInv, UserConservation
  <1> QED BY <1>3, <1>4, <1>5, <1>8 DEF CInv

\* A read that is filled is one busy read more.
LEMMA FillUserRead ==
  ASSUME TypeOK, Countable, NEW u \in UserReads, userRead[u] # "filling",
         NEW h \in HostPackets, userCarry' = [userCarry EXCEPT ![u] = h]
  PROVE  /\ ReadsBusy' = ReadsBusy \cup {u}
         /\ IsFiniteSet(ReadsBusy')
         /\ Cardinality(ReadsBusy') = Cardinality(ReadsBusy) + 1
         /\ \A q \in HostPackets :
              (\E v \in UserReads : userCarry'[v] = q)
                <=> q = h \/ \E v \in UserReads : userCarry[v] = q
  <1>1. /\ userCarry \in [UserReads -> HostPackets \cup {None}]
        /\ userCarry[u] = None /\ h # None
    BY UserAssumption DEF TypeOK
  <1>2. ReadsBusy' = ReadsBusy \cup {u} /\ u \notin ReadsBusy
    BY <1>1 DEF ReadsBusy
  <1>3. IsFiniteSet(ReadsBusy')
    BY <1>2, FS_AddElement DEF Countable
  <1>4. Cardinality(ReadsBusy') = Cardinality(ReadsBusy) + 1
    BY <1>2, FS_AddElement DEF Countable
  <1>5. \A q \in HostPackets :
              (\E v \in UserReads : userCarry'[v] = q)
                <=> q = h \/ \E v \in UserReads : userCarry[v] = q
    BY <1>1, UserAssumption
  <1> QED BY <1>2, <1>3, <1>4, <1>5

\* Matching a packet to a waiting read keeps the account.
LEMMA HandToUserCInv ==
  ASSUME IInv, CInv, NEW h \in HostPackets, HandToUser(h)
  PROVE  CInv'
  <1>t. TypeOK
    BY DEF IInv
  <1>1. PICK u \in UserParked : userCarry' = [userCarry EXCEPT ![u] = h]
    BY DEF HandToUser
  <1>2. /\ hostWrite[h] = "sent"
        /\ hostWrite' = [hostWrite EXCEPT ![h] = "hand"]
        /\ fate' = [fate EXCEPT ![h] = "accepted"]
        /\ UNCHANGED <<toUser, drops, userReceived, userFlushed>>
    BY DEF HandToUser, list
  <1>3. /\ fate[h] = "none" /\ ~Kept(h)
        /\ \A q \in HostPackets : Accepted(q)' <=> Accepted(q) \/ q = h
        /\ \A g \in {"accepted", "no_client", "no_memory"} :
              /\ IsFiniteSet({q \in HostPackets : fate'[q] = g})
              /\ Cardinality({q \in HostPackets : fate'[q] = g})
                   = Cardinality({q \in HostPackets : fate[q] = g}) + (IF g = "accepted" THEN 1 ELSE 0)
              /\ Cardinality({q \in HostPackets : fate[q] = g}) \in Nat
    BY <1>t, <1>2, Decide
  <1>4. /\ IsFiniteSet(ReadsBusy')
        /\ Cardinality(ReadsBusy') = Cardinality(ReadsBusy) + 1
        /\ \A q \in HostPackets :
              (\E v \in UserReads : userCarry'[v] = q)
                <=> q = h \/ \E v \in UserReads : userCarry[v] = q
    BY <1>t, <1>1, FillUserRead DEF UserParked, CInv
  <1>5. Decided'
    BY <1>t, <1>2 DEF CInv, Decided, TypeOK
  <1>6. KeptOnce'
    BY <1>2 DEF CInv, KeptOnce
  <1>7. Countable'
    BY <1>2, <1>3, <1>4 DEF CInv, Countable, Accepted
  <1>8. \A q \in HostPackets : Accepted(q)' <=> Kept(q)'
    BY <1>2, <1>3, <1>4 DEF CInv, UserConservation, Kept
  <1>9. UserConservation'
    <2>1. Cardinality({q \in HostPackets : Accepted(q)})' = Cardinality({q \in HostPackets : Accepted(q)}) + 1
      BY <1>3 DEF Accepted
    <2>2. /\ dropsNoClient' = Cardinality({q \in HostPackets : fate[q] = "no_client"})'
          /\ userAllocDrops' = Cardinality({q \in HostPackets : fate[q] = "no_memory"})'
      BY <1>2, <1>3 DEF CInv, UserConservation, drops
    <2>3. /\ Cardinality(ReadsBusy) \in Nat /\ Cardinality(userFlushed) \in Nat
          /\ Len(toUser) \in Nat /\ Len(userReceived) \in Nat
      BY <1>t, Numbers DEF CInv
    <2>4. (Len(toUser) + Cardinality(ReadsBusy) + Len(userReceived) + Cardinality(userFlushed))'
            = Cardinality({q \in HostPackets : Accepted(q)}) + 1
      BY <1>2, <1>4, <2>3 DEF CInv, UserConservation
    <2> QED BY <1>8, <2>1, <2>2, <2>4 DEF UserConservation
  <1> QED BY <1>5, <1>6, <1>7, <1>9 DEF CInv

\* Putting a packet on the list keeps the account.
LEMMA QueueForUserCInv ==
  ASSUME IInv, CInv, NEW h \in HostPackets, QueueForUser(h)
  PROVE  CInv'
  <1>t. TypeOK
    BY DEF IInv
  <1>2. /\ hostWrite[h] = "sent"
        /\ hostWrite' = [hostWrite EXCEPT ![h] = "complete"]
        /\ fate' = [fate EXCEPT ![h] = "accepted"]
        /\ toUser' = Append(toUser, h)
        /\ UNCHANGED <<userCarry, drops, userReceived, userFlushed>>
    BY DEF QueueForUser
  <1>3. /\ fate[h] = "none" /\ ~Kept(h)
        /\ \A q \in HostPackets : Accepted(q)' <=> Accepted(q) \/ q = h
        /\ \A g \in {"accepted", "no_client", "no_memory"} :
              /\ IsFiniteSet({q \in HostPackets : fate'[q] = g})
              /\ Cardinality({q \in HostPackets : fate'[q] = g})
                   = Cardinality({q \in HostPackets : fate[q] = g}) + (IF g = "accepted" THEN 1 ELSE 0)
              /\ Cardinality({q \in HostPackets : fate[q] = g}) \in Nat
    BY <1>t, <1>2, Decide
  <1>4. /\ toUser \in Seq(HostPackets)
        /\ h \notin ToSet(toUser) /\ h \notin userFlushed
    BY <1>t, <1>3 DEF TypeOK, Kept
  <1>5. /\ ToSet(toUser') = ToSet(toUser) \cup {h}
        /\ IsInjective(toUser')
        /\ Len(toUser') = Len(toUser) + 1
    BY <1>2, <1>4, PutAtTail, AppendProperties DEF CInv, KeptOnce
  <1>6. Decided'
    BY <1>t, <1>2 DEF CInv, Decided, TypeOK
  <1>7. KeptOnce'
    BY <1>2, <1>4, <1>5 DEF CInv, KeptOnce
  <1>8. ReadsBusy' = ReadsBusy
    BY <1>2 DEF ReadsBusy
  <1>9. Countable'
    BY <1>2, <1>3, <1>8 DEF CInv, Countable, Accepted
  <1>10. \A q \in HostPackets : Accepted(q)' <=> Kept(q)'
    BY <1>2, <1>3, <1>5 DEF CInv, UserConservation, Kept
  <1>11. UserConservation'
    <2>1. Cardinality({q \in HostPackets : Accepted(q)})' = Cardinality({q \in HostPackets : Accepted(q)}) + 1
      BY <1>3 DEF Accepted
    <2>2. /\ dropsNoClient' = Cardinality({q \in HostPackets : fate[q] = "no_client"})'
          /\ userAllocDrops' = Cardinality({q \in HostPackets : fate[q] = "no_memory"})'
      BY <1>2, <1>3 DEF CInv, UserConservation, drops
    <2>3. /\ Cardinality(ReadsBusy) \in Nat /\ Cardinality(userFlushed) \in Nat
          /\ Len(toUser) \in Nat /\ Len(userReceived) \in Nat
      BY <1>t, Numbers DEF CInv
    <2>4. (Len(toUser) + Cardinality(ReadsBusy) + Len(userReceived) + Cardinality(userFlushed))'
            = Cardinality({q \in HostPackets : Accepted(q)}) + 1
      BY <1>2, <1>5, <1>8, <2>3 DEF CInv, UserConservation
    <2> QED BY <1>10, <2>1, <2>2, <2>4 DEF UserConservation
  <1> QED BY <1>6, <1>7, <1>9, <1>11 DEF CInv

\* A read that takes a packet off the list keeps the account.
LEMMA TakeForUserCInv ==
  ASSUME IInv, CInv, NEW u \in UserReads, TakeForUser(u)
  PROVE  CInv'
  <1> DEFINE h == Head(toUser)
  <1>t. TypeOK
    BY DEF IInv
  <1>1. /\ userRead[u] # "filling" /\ toUser # <<>>
        /\ userCarry' = [userCarry EXCEPT ![u] = h]
        /\ toUser' = Tail(toUser)
        /\ UNCHANGED <<hostWrite, fate, drops, userReceived, userFlushed>>
    BY DEF TakeForUser
  <1>2. /\ h \in HostPackets
        /\ h \in ToSet(toUser)
        /\ ToSet(toUser') = ToSet(toUser) \ {h}
        /\ IsInjective(toUser')
        /\ Len(toUser) \in Nat \ {0}
        /\ Len(toUser') = Len(toUser) - 1
    BY <1>t, <1>1, TakeHead DEF TypeOK, CInv, KeptOnce
  <1> HIDE DEF h
  <1>3. /\ IsFiniteSet(ReadsBusy')
        /\ Cardinality(ReadsBusy') = Cardinality(ReadsBusy) + 1
        /\ \A q \in HostPackets :
              (\E v \in UserReads : userCarry'[v] = q)
                <=> q = h \/ \E v \in UserReads : userCarry[v] = q
    BY <1>t, <1>1, <1>2, FillUserRead DEF CInv
  <1>4. Decided'
    BY <1>1 DEF CInv, Decided
  <1>5. KeptOnce'
    BY <1>1, <1>2 DEF CInv, KeptOnce
  <1>6. Countable'
    BY <1>1, <1>3 DEF CInv, Countable, Accepted
  <1>7. \A q \in HostPackets : (Accepted(q)' <=> Accepted(q)) /\ (Kept(q)' <=> Kept(q))
    BY <1>1, <1>2, <1>3 DEF Accepted, Kept
  <1>8. UserConservation'
    <2>1. /\ Cardinality(ReadsBusy) \in Nat /\ Cardinality(userFlushed) \in Nat
          /\ Len(userReceived) \in Nat
      BY <1>t, Numbers DEF CInv
    <2>2. (Len(toUser) + Cardinality(ReadsBusy) + Len(userReceived) + Cardinality(userFlushed))'
            = Len(toUser) + Cardinality(ReadsBusy) + Len(userReceived) + Cardinality(userFlushed)
      BY <1>1, <1>2, <1>3, <2>1
    <2>3. {q \in HostPackets : Accepted(q)}' = {q \in HostPackets : Accepted(q)}
      BY <1>7
    <2> QED BY <1>1, <1>7, <2>2, <2>3 DEF CInv, UserConservation, drops
  <1> QED BY <1>4, <1>5, <1>6, <1>8 DEF CInv

\* Completing a read keeps the account.
LEMMA CompleteUserReadCInv ==
  ASSUME IInv, CInv, NEW u \in UserReads, CompleteUserRead(u)
  PROVE  CInv'
  <1> DEFINE h == userCarry[u]
  <1>t. TypeOK
    BY DEF IInv
  <1>1. /\ userRead[u] = "filling"
        /\ userCarry' = [userCarry EXCEPT ![u] = None]
        /\ userReceived' = Append(userReceived, h)
        /\ hostWrite' = [hostWrite EXCEPT ![h] = IF @ = "hand" THEN "complete" ELSE @]
        /\ UNCHANGED <<toUser, fate, drops, userFlushed>>
    BY DEF CompleteUserRead, list
  <1>2. /\ h \in HostPackets /\ h # None
        /\ userCarry \in [UserReads -> HostPackets \cup {None}]
    BY <1>t, <1>1, UserAssumption DEF TypeOK
  <1>3. ReadsBusy' = ReadsBusy \ {u} /\ u \in ReadsBusy
    BY <1>1, <1>2 DEF ReadsBusy
  <1>4. /\ IsFiniteSet(ReadsBusy')
        /\ Cardinality(ReadsBusy') = Cardinality(ReadsBusy) - 1
    BY <1>3, FS_RemoveElement DEF CInv, Countable
  <1>5. /\ ToSet(userReceived') = ToSet(userReceived) \cup {h}
        /\ Len(userReceived') = Len(userReceived) + 1
    BY <1>t, <1>1, <1>2, PutAtTail, AppendProperties DEF TypeOK
  <1>6. \A q \in HostPackets : (Accepted(q)' <=> Accepted(q)) /\ (Kept(q)' <=> Kept(q))
    <2>1. \A q \in HostPackets : Accepted(q)' <=> Accepted(q)
      BY <1>1 DEF Accepted
    <2>2. \A q \in HostPackets :
            (\E v \in UserReads : userCarry[v] = q) \/ q = h
              <=> (\E v \in UserReads : userCarry'[v] = q) \/ q = h
      BY <1>1, <1>2, UserAssumption
    <2>3. Kept(h)
      BY <1>2 DEF Kept
    <2> HIDE DEF h
    <2> QED BY <1>1, <1>5, <2>1, <2>2, <2>3 DEF Kept
  <1>7. Decided'
    <2> HIDE DEF h
    <2> QED BY <1>t, <1>1, <1>2 DEF CInv, Decided, TypeOK, HostStates
  <1>8. KeptOnce'
    BY <1>1 DEF CInv, KeptOnce
  <1>9. Countable'
    BY <1>1, <1>4 DEF CInv, Countable, Accepted
  <1>10. UserConservation'
    <2>1. /\ Cardinality(ReadsBusy) \in Nat /\ Cardinality(userFlushed) \in Nat
          /\ Len(toUser) \in Nat /\ Len(userReceived) \in Nat
      BY <1>t, Numbers DEF CInv
    <2>2. (Len(toUser) + Cardinality(ReadsBusy) + Len(userReceived) + Cardinality(userFlushed))'
            = Len(toUser) + Cardinality(ReadsBusy) + Len(userReceived) + Cardinality(userFlushed)
      <3>1. Len(toUser') = Len(toUser) /\ Cardinality(userFlushed') = Cardinality(userFlushed)
        BY <1>1
      <3> QED BY <1>4, <1>5, <2>1, <3>1
    <2>3. {q \in HostPackets : Accepted(q)}' = {q \in HostPackets : Accepted(q)}
      BY <1>6
    <2> QED BY <1>1, <1>6, <2>2, <2>3 DEF CInv, UserConservation, drops
  <1> QED BY <1>7, <1>8, <1>9, <1>10 DEF CInv

\* Freeing the list keeps the account.
LEMMA FreeCInv ==
  ASSUME IInv, CInv, FreeToUser \/ RemoveDevice
  PROVE  CInv'
  <1>t. TypeOK
    BY DEF IInv
  <1>1. /\ toUser' = <<>>
        /\ userFlushed' = userFlushed \cup ToSet(toUser)
        /\ UNCHANGED <<userCarry, hostWrite, fate, drops, userReceived>>
    BY DEF FreeToUser, RemoveDevice
  <1>2. /\ IsFiniteSet(ToSet(toUser)) /\ Cardinality(ToSet(toUser)) = Len(toUser)
    BY <1>t, HeldCount DEF TypeOK, CInv, KeptOnce
  <1>3. ToSet(toUser) \cap userFlushed = {} /\ IsFiniteSet(userFlushed)
    BY DEF CInv, KeptOnce, Countable
  <1>4. /\ IsFiniteSet(userFlushed')
        /\ Cardinality(userFlushed')
             = Cardinality(userFlushed) + Cardinality(ToSet(toUser)) - Cardinality(userFlushed \cap ToSet(toUser))
    BY <1>1, <1>2, <1>3, FS_Union
  <1>5. userFlushed \cap ToSet(toUser) = {}
    BY <1>3
  <1>6. Cardinality(userFlushed \cap ToSet(toUser)) = 0
    BY <1>5, FS_EmptySet
  <1>7. ToSet(toUser') = {} /\ IsInjective(toUser') /\ Len(toUser') = 0
    BY <1>1, EmptyList, EmptySeq
  <1>8. ReadsBusy' = ReadsBusy
    BY <1>1 DEF ReadsBusy
  <1>9. \A q \in HostPackets : (Accepted(q)' <=> Accepted(q)) /\ (Kept(q)' <=> Kept(q))
    BY <1>1, <1>7 DEF Accepted, Kept
  <1>10. Decided' /\ KeptOnce'
    BY <1>1, <1>7 DEF CInv, Decided, KeptOnce
  <1>11. Countable'
    BY <1>1, <1>4, <1>8 DEF CInv, Countable, Accepted
  <1>12. UserConservation'
    <2>1. /\ Cardinality(ReadsBusy) \in Nat /\ Cardinality(userFlushed) \in Nat
          /\ Len(toUser) \in Nat /\ Len(userReceived) \in Nat
      BY <1>t, Numbers DEF CInv
    <2>2. (Len(toUser) + Cardinality(ReadsBusy) + Len(userReceived) + Cardinality(userFlushed))'
            = Len(toUser) + Cardinality(ReadsBusy) + Len(userReceived) + Cardinality(userFlushed)
      <3>1. /\ Len(toUser') = 0 /\ Len(userReceived') = Len(userReceived)
            /\ Cardinality(ReadsBusy') = Cardinality(ReadsBusy)
            /\ Cardinality(userFlushed') = Cardinality(userFlushed) + Len(toUser)
        BY <1>1, <1>2, <1>4, <1>6, <1>7, <1>8, <2>1
      <3> QED BY <2>1, <3>1
    <2>3. {q \in HostPackets : Accepted(q)}' = {q \in HostPackets : Accepted(q)}
      BY <1>9
    <2> QED BY <1>1, <1>9, <2>2, <2>3 DEF CInv, UserConservation, drops
  <1> QED BY <1>10, <1>11, <1>12 DEF CInv

\* Every step keeps the account of the packets.
LEMMA NextCInv == IInv /\ CInv /\ [Next]_vars => CInv'
  <1> SUFFICES ASSUME IInv, CInv, [Next]_vars PROVE CInv'
    OBVIOUS
  <1> USE DEF list, drops, handleVars, userGhosts
  <1>1. ASSUME NEW h \in HostPackets, SendHost(h) \/ CompleteHost(h) PROVE CInv'
    <2>1. /\ UNCHANGED <<toUser, userCarry, fate, drops, userReceived, userFlushed>>
          /\ \A q \in HostPackets :
               hostWrite'[q] \in {"unsent", "sent"} <=> hostWrite[q] \in {"unsent", "sent"}
      BY <1>1 DEF SendHost, CompleteHost, IInv, TypeOK
    <2> QED BY <2>1, NoMove
  <1>2. ASSUME UNCHANGED <<toUser, userCarry, hostWrite, fate, drops, userReceived, userFlushed>>
        PROVE  CInv'
    BY <1>2, NoMove
  <1>3. ASSUME NEW u \in UserReads,
               SendUserRead(u) \/ ParkUserRead(u) \/ RefuseUserRead(u) \/ CancelUserRead(u)
        PROVE  CInv'
    BY <1>2, <1>3 DEF SendUserRead, ParkUserRead, RefuseUserRead, CancelUserRead
  <1>4. CASE Open \/ CloseHandle \/ Detach \/ UNCHANGED vars
    BY <1>2, <1>4 DEF Open, CloseHandle, Detach, vars
  <1> QED
    BY <1>1, <1>3, <1>4, DropCInv, HandToUserCInv, QueueForUserCInv, TakeForUserCInv,
       CompleteUserReadCInv, FreeCInv
       DEF Next, QueueToUser, EvtIoRead

\* Every packet the driver took for the client waits, is on its way into a read, was
\* read or was freed by a close, each in exactly one of these ways, and every other
\* one is counted under what became of it.
THEOREM ConservationHolds == Spec => []UserConservation
  <1>1. CInv => UserConservation
    BY DEF CInv
  <1> QED BY <1>1, InitCInv, NextCInv, Inductive, PTL DEF Spec
-----------------------------------------------------------------------------
(* Order.                                                                  *)

\* Each packet is matched once, to a read that carries it until the client has it,
\* and the list holds none that was matched: so the packets matched earlier and not
\* yet received are those that other reads carry.
OrderInv ==
  /\ IsInjective(userMatched)
  /\ \A h \in ToSet(userMatched) : h \in ToSet(userReceived) \/ \E u \in UserReads : userCarry[u] = h
  /\ \A u \in ReadsBusy : userCarry[u] \in ToSet(userMatched)
  /\ ToSet(toUser) \cap ToSet(userMatched) = {}
  /\ ReadInOrder

\* A request that is filled with the packet just matched: it comes after all that
\* were, and overtakes none of them yet.
LEMMA MatchOrder ==
  ASSUME TypeOK, OrderInv, NEW u \in UserReads, NEW h \in HostPackets,
         h \notin ToSet(userMatched),
         userRead[u] # "filling",
         userCarry' = [userCarry EXCEPT ![u] = h],
         userMatched' = Append(userMatched, h),
         userReceived' = userReceived,
         ToSet(toUser') \subseteq ToSet(toUser) \ {h}
  PROVE  OrderInv'
  <1>1. /\ userMatched \in Seq(HostPackets) /\ userReceived \in Seq(HostPackets)
        /\ userCarry \in [UserReads -> HostPackets \cup {None}]
        /\ userCarry[u] = None
    BY DEF TypeOK
  <1>2. /\ ToSet(userMatched') = ToSet(userMatched) \cup {h}
        /\ IsInjective(userMatched')
    BY <1>1, PutAtTail DEF OrderInv
  <1>3. ASSUME NEW q \in ToSet(userMatched')
        PROVE  q \in ToSet(userReceived') \/ \E v \in UserReads : userCarry'[v] = q
    <2>1. CASE q = h
      BY <1>1, <2>1
    <2>2. CASE q # h /\ q \notin ToSet(userReceived)
      <3>1. PICK v \in UserReads : userCarry[v] = q
        BY <1>2, <1>3, <2>2 DEF OrderInv
      <3>2. q # None
        BY <1>1, <1>2, <1>3, <2>2, HeldType, UserAssumption
      <3>3. userCarry'[v] = q
        BY <1>1, <3>1, <3>2
      <3> QED BY <3>3
    <2> QED BY <2>1, <2>2
  <1>4. ASSUME NEW v \in ReadsBusy' PROVE userCarry'[v] \in ToSet(userMatched')
    BY <1>1, <1>2, <1>4 DEF OrderInv, ReadsBusy
  <1>5. ASSUME NEW i \in 1..Len(userReceived')
        PROVE  /\ userReceived'[i] \in ToSet(userMatched')
               /\ Overtaken(i)' = Overtaken(i)
    <2>1. userReceived[i] \in ToSet(userMatched) /\ userReceived[i] # h
      BY <1>5 DEF OrderInv, ReadInOrder
    <2>2. /\ Len(userMatched) \in Nat
          /\ Len(userMatched') = Len(userMatched) + 1
          /\ \A j \in 1..Len(userMatched) : userMatched'[j] = userMatched[j]
          /\ userMatched'[Len(userMatched) + 1] = h
      BY <1>1, LenProperties, AppendProperties
    <2>3. ASSUME NEW q \in HostPackets
          PROVE  (\E k, j \in 1..Len(userMatched') :
                    k < j /\ userMatched'[k] = q /\ userMatched'[j] = userReceived[i])
                 <=> (\E k, j \in 1..Len(userMatched) :
                        k < j /\ userMatched[k] = q /\ userMatched[j] = userReceived[i])
      <3>1. ASSUME NEW k \in 1..Len(userMatched'), NEW j \in 1..Len(userMatched'),
                   k < j, userMatched'[k] = q, userMatched'[j] = userReceived[i]
            PROVE  /\ k \in 1..Len(userMatched) /\ j \in 1..Len(userMatched)
                   /\ userMatched[k] = q /\ userMatched[j] = userReceived[i]
        <4>1. j # Len(userMatched) + 1
          BY <2>1, <2>2, <3>1
        <4>2. k \in 1..Len(userMatched) /\ j \in 1..Len(userMatched)
          BY <2>2, <3>1, <4>1
        <4> QED BY <2>2, <3>1, <4>2
      <3>2. \A j \in 1..Len(userMatched) : j \in 1..Len(userMatched')
        BY <2>2
      <3> QED BY <2>2, <3>1, <3>2
    <2> QED BY <1>2, <2>1, <2>3 DEF Overtaken
  <1>6. ReadInOrder'
    BY <1>5 DEF OrderInv, ReadInOrder
  <1>7. ToSet(toUser') \cap ToSet(userMatched') = {}
    BY <1>2 DEF OrderInv
  <1> QED BY <1>2, <1>3, <1>4, <1>6, <1>7 DEF OrderInv

\* The next packet received has overtaken only what the other reads carry.
LEMMA ReceiveOrder ==
  ASSUME TypeOK, OrderInv, IsFiniteSet(UserReads), NEW u \in UserReads, CompleteUserRead(u)
  PROVE  OrderInv'
  <1> DEFINE h == userCarry[u]
             Others == UserReads \ {u}
             Carried == {userCarry[v] : v \in Others}
  <1>1. /\ userRead[u] = "filling"
        /\ userCarry' = [userCarry EXCEPT ![u] = None]
        /\ userReceived' = Append(userReceived, h)
        /\ UNCHANGED <<userMatched, toUser>>
    BY DEF CompleteUserRead, list
  <1>2. /\ h \in HostPackets /\ h # None
        /\ userCarry \in [UserReads -> HostPackets \cup {None}]
        /\ userReceived \in Seq(HostPackets)
        /\ userMatched \in Seq(HostPackets)
    BY <1>1, UserAssumption DEF TypeOK
  <1>3. h \in ToSet(userMatched)
    BY <1>2 DEF OrderInv, ReadsBusy
  <1>n. PICK n \in Nat : n = Len(userReceived) + 1
    BY <1>2, LenProperties
  <1>4. /\ Len(userReceived) \in Nat
        /\ Len(userReceived') = n
        /\ \A i \in 1..Len(userReceived) : userReceived'[i] = userReceived[i]
        /\ userReceived'[n] = h
        /\ ToSet(userReceived') = ToSet(userReceived) \cup {h}
    BY <1>1, <1>2, <1>n, LenProperties, AppendProperties, PutAtTail
  <1>5. ASSUME NEW q \in ToSet(userMatched)
        PROVE  q \in ToSet(userReceived') \/ \E v \in UserReads : userCarry'[v] = q
    <2>1. CASE q \in ToSet(userReceived) \/ q = h
      BY <1>4, <2>1
    <2>2. CASE q \notin ToSet(userReceived) /\ q # h
      <3>1. PICK v \in UserReads : userCarry[v] = q
        BY <1>5, <2>2 DEF OrderInv
      <3>2. userCarry'[v] = q
        BY <1>1, <1>2, <2>2, <3>1
      <3> QED BY <3>2
    <2> QED BY <2>1, <2>2
  <1>6. \A v \in ReadsBusy' : userCarry'[v] = userCarry[v] /\ v \in ReadsBusy
    BY <1>1, <1>2 DEF ReadsBusy
  <1>7. ASSUME NEW i \in 1..Len(userReceived) PROVE Overtaken(i)' = Overtaken(i)
    <2>1. \A m \in 1..(i - 1) : userReceived'[m] = userReceived[m]
      BY <1>4
    <2> QED BY <1>1, <1>4, <2>1 DEF Overtaken
  <1>8. Overtaken(n)' \subseteq Carried
    <2> SUFFICES ASSUME NEW q \in Overtaken(n)' PROVE q \in Carried
      OBVIOUS
    <2>1. PICK k, j \in 1..Len(userMatched) : k < j /\ userMatched[k] = q /\ userMatched[j] = h
      BY <1>1, <1>4 DEF Overtaken
    <2>2. q \in ToSet(userMatched) /\ q # h
      <3>1. k \in DOMAIN userMatched /\ j \in DOMAIN userMatched /\ k # j
        BY <1>2, <2>1, LenProperties
      <3>2. userMatched[k] # userMatched[j]
        BY <3>1 DEF OrderInv, IsInjective
      <3> QED BY <2>1, <3>1, <3>2 DEF ToSet
    <2>3. q \notin ToSet(userReceived)
      <3>1. \A m \in 1..Len(userReceived) : userReceived[m] # q
        BY <1>n, <1>4 DEF Overtaken
      <3>2. DOMAIN userReceived = 1..Len(userReceived)
        BY <1>2, LenProperties
      <3> QED BY <3>1, <3>2 DEF ToSet
    <2>4. PICK v \in UserReads : userCarry[v] = q
      BY <2>2, <2>3 DEF OrderInv
    <2> QED BY <2>2, <2>4
  <1>9. Cardinality(Overtaken(n)') < Cardinality(UserReads)
    <2>1. /\ IsFiniteSet(Others)
          /\ Cardinality(Others) = Cardinality(UserReads) - 1
          /\ Cardinality(UserReads) \in Nat
      BY FS_RemoveElement, FS_CardinalityType
    <2>2. [v \in Others |-> userCarry[v]] \in Surjection(Others, Carried)
      BY DEF Surjection
    <2>3. IsFiniteSet(Carried) /\ Cardinality(Carried) <= Cardinality(Others)
      BY <2>1, <2>2, FS_Surjection
    <2>4. Cardinality(Overtaken(n)') <= Cardinality(Carried)
      BY <1>8, <2>3, FS_Subset
    <2>5. /\ IsFiniteSet(Overtaken(n)')
          /\ Cardinality(Overtaken(n)') \in Nat /\ Cardinality(Carried) \in Nat
      BY <1>8, <2>3, FS_Subset, FS_CardinalityType
    <2> QED BY <2>1, <2>3, <2>4, <2>5
  <1>10. ReadInOrder'
    <2>1. ASSUME NEW i \in 1..Len(userReceived')
          PROVE  /\ userReceived'[i] \in ToSet(userMatched')
                 /\ Cardinality(Overtaken(i)') < Cardinality(UserReads)
      <3>1. CASE i = n
        BY <1>1, <1>3, <1>4, <1>9, <3>1
      <3>2. CASE i # n
        <4>1. i \in 1..Len(userReceived)
          BY <1>n, <1>4, <3>2
        <4> QED BY <1>1, <1>4, <1>7, <4>1 DEF OrderInv, ReadInOrder
      <3> QED BY <3>1, <3>2
    <2> QED BY <2>1 DEF ReadInOrder
  <1> QED BY <1>1, <1>5, <1>6, <1>10 DEF OrderInv

\* Every step keeps the order, whatever the client's reads do.
LEMMA NextOrder ==
  ASSUME IsFiniteSet(UserReads)
  PROVE  IInv /\ CInv /\ OrderInv /\ [Next]_vars => OrderInv'
  <1> SUFFICES ASSUME IInv, CInv, OrderInv, [Next]_vars PROVE OrderInv'
    OBVIOUS
  <1> USE DEF list, drops, handleVars, userGhosts
  <1>t. TypeOK
    BY DEF IInv
  <1>s. toUser \in Seq(HostPackets) /\ userMatched \in Seq(HostPackets)
    BY <1>t DEF TypeOK
  <1>n. ASSUME NEW h \in HostPackets, HandToUser(h) \/ QueueForUser(h)
        PROVE  h \notin ToSet(userMatched) /\ h \notin ToSet(toUser)
    <2>1. hostWrite[h] = "sent" /\ fate' = [fate EXCEPT ![h] = "accepted"]
      BY <1>n DEF HandToUser, QueueForUser
    <2>2. ~Kept(h)
      BY <1>t, <2>1, Decide
    <2> QED BY <2>2 DEF Kept, OrderInv
  <1>1. ASSUME UNCHANGED <<userCarry, userMatched, userReceived>>,
               ToSet(toUser') \cap ToSet(userMatched) = {}
        PROVE  OrderInv'
    <2>1. ReadsBusy' = ReadsBusy /\ \A i \in 1..Len(userReceived) : Overtaken(i)' = Overtaken(i)
      BY <1>1 DEF ReadsBusy, Overtaken
    <2>2. ReadInOrder'
      BY <1>1, <2>1 DEF OrderInv, ReadInOrder
    <2> QED BY <1>1, <2>1, <2>2 DEF OrderInv
  <1>u. ASSUME UNCHANGED <<userCarry, userMatched, userReceived, toUser>> PROVE OrderInv'
    BY <1>1, <1>u DEF OrderInv
  <1>2. ASSUME NEW h \in HostPackets, HandToUser(h) PROVE OrderInv'
    <2>1. PICK u \in UserParked : userCarry' = [userCarry EXCEPT ![u] = h]
      BY <1>2 DEF HandToUser
    <2>2. u \in UserReads /\ userRead[u] # "filling"
      BY DEF UserParked
    <2>3. h \notin ToSet(userMatched) /\ h \notin ToSet(toUser)
      BY <1>2, <1>n
    <2>4. /\ userMatched' = Append(userMatched, h) /\ userReceived' = userReceived
          /\ ToSet(toUser') \subseteq ToSet(toUser) \ {h}
      BY <1>2, <2>3 DEF HandToUser
    <2> QED BY <1>t, <2>1, <2>2, <2>3, <2>4, MatchOrder
  <1>3. ASSUME NEW u \in UserReads, TakeForUser(u) PROVE OrderInv'
    <2> DEFINE h == Head(toUser)
    <2>1. h \in HostPackets /\ h \in ToSet(toUser) /\ ToSet(Tail(toUser)) = ToSet(toUser) \ {h}
      BY <1>3, <1>s, TakeHead DEF TakeForUser, CInv, KeptOnce
    <2>2. h \notin ToSet(userMatched)
      BY <2>1 DEF OrderInv
    <2>3. /\ userRead[u] # "filling"
          /\ userCarry' = [userCarry EXCEPT ![u] = h]
          /\ userMatched' = Append(userMatched, h) /\ userReceived' = userReceived
          /\ toUser' = Tail(toUser)
      BY <1>3 DEF TakeForUser
    <2> QED BY <1>t, <2>1, <2>2, <2>3, MatchOrder
  <1>4. ASSUME NEW u \in UserReads, CompleteUserRead(u) PROVE OrderInv'
    BY <1>4, <1>t, ReceiveOrder
  <1>5. ASSUME NEW h \in HostPackets, QueueForUser(h) PROVE OrderInv'
    <2>1. ToSet(toUser') = ToSet(toUser) \cup {h}
      BY <1>5, <1>s, PutAtTail DEF QueueForUser
    <2>2. ToSet(toUser') \cap ToSet(userMatched) = {}
      BY <1>5, <1>n, <2>1 DEF OrderInv
    <2> QED BY <1>1, <1>5, <2>2 DEF QueueForUser
  <1>6. CASE FreeToUser \/ RemoveDevice
    BY <1>1, <1>6, EmptyList DEF FreeToUser, RemoveDevice
  <1>7. ASSUME NEW h \in HostPackets,
               SendHost(h) \/ CompleteHost(h) \/ DropNoClient(h) \/ LoseForUser(h)
        PROVE  OrderInv'
    BY <1>u, <1>7 DEF SendHost, CompleteHost, DropNoClient, LoseForUser
  <1>8. ASSUME NEW u \in UserReads,
               SendUserRead(u) \/ ParkUserRead(u) \/ RefuseUserRead(u) \/ CancelUserRead(u)
        PROVE  OrderInv'
    BY <1>u, <1>8 DEF SendUserRead, ParkUserRead, RefuseUserRead, CancelUserRead
  <1>9. CASE Open \/ CloseHandle \/ Detach \/ UNCHANGED vars
    BY <1>u, <1>9 DEF Open, CloseHandle, Detach, vars
  <1> QED
    BY <1>2, <1>3, <1>4, <1>5, <1>6, <1>7, <1>8, <1>9 DEF Next, QueueToUser, EvtIoRead

\* The client gets the packets in the order in which the driver took them, except
\* that a packet overtakes fewer packets than the client has reads: none, for a
\* client with one.
THEOREM InOrder ==
  ASSUME IsFiniteSet(UserReads)
  PROVE  Spec => []ReadInOrder
  <1>1. Init => OrderInv
    <2> SUFFICES ASSUME Init PROVE OrderInv
      OBVIOUS
    <2>1. ReadsBusy = {}
      BY DEF Init, ReadsBusy
    <2>2. ToSet(userMatched) = {} /\ IsInjective(userMatched)
      BY EmptyList DEF Init
    <2>3. Len(userReceived) = 0
      BY EmptySeq DEF Init
    <2> QED BY <2>1, <2>2, <2>3 DEF OrderInv, ReadInOrder
  <1>2. IInv /\ CInv /\ OrderInv /\ [Next]_vars => OrderInv'
    BY NextOrder
  <1>3. OrderInv => ReadInOrder
    BY DEF OrderInv
  <1> QED BY <1>1, <1>2, <1>3, InitCInv, NextCInv, Inductive, PTL DEF Spec
-----------------------------------------------------------------------------
(* Counters, for GET_STATS (WinVhciProofs).                                *)

PeakInv == toUserCount <= toUserPeak /\ toUserPeak <= queuedTotal

\* Every step keeps the peak between the count and what was ever queued.
LEMMA NextPeak == IInv /\ PeakInv /\ [Next]_vars => PeakInv'
  <1> SUFFICES ASSUME IInv, PeakInv, [Next]_vars PROVE PeakInv'
    OBVIOUS
  <1> USE DEF list, drops, handleVars, userGhosts
  <1>t. toUserCount \in Nat /\ toUserPeak \in Nat /\ queuedTotal \in Nat
    BY DEF IInv, TypeOK
  <1>1. ASSUME UNCHANGED <<list, queuedTotal>> PROVE PeakInv'
    BY <1>1 DEF PeakInv
  <1>2. ASSUME NEW h \in HostPackets, QueueForUser(h) PROVE PeakInv'
    BY <1>t, <1>2 DEF QueueForUser, PeakInv
  <1>3. ASSUME NEW u \in UserReads, TakeForUser(u) PROVE PeakInv'
    BY <1>t, <1>3 DEF TakeForUser, PeakInv
  <1>4. CASE FreeToUser \/ RemoveDevice
    BY <1>t, <1>4 DEF FreeToUser, RemoveDevice, PeakInv
  <1>5. ASSUME NEW h \in HostPackets,
               SendHost(h) \/ CompleteHost(h) \/ DropNoClient(h) \/ HandToUser(h) \/ LoseForUser(h)
        PROVE  PeakInv'
    BY <1>1, <1>5 DEF SendHost, CompleteHost, DropNoClient, HandToUser, LoseForUser
  <1>6. ASSUME NEW u \in UserReads,
               \/ SendUserRead(u) \/ ParkUserRead(u) \/ RefuseUserRead(u)
               \/ CompleteUserRead(u) \/ CancelUserRead(u)
        PROVE  PeakInv'
    BY <1>1, <1>6 DEF SendUserRead, ParkUserRead, RefuseUserRead, CompleteUserRead, CancelUserRead
  <1>7. CASE Open \/ CloseHandle \/ Detach \/ UNCHANGED vars
    BY <1>1, <1>7 DEF Open, CloseHandle, Detach, vars
  <1> QED
    BY <1>2, <1>3, <1>4, <1>5, <1>6, <1>7 DEF Next, QueueToUser, EvtIoRead

\* The two counters of losses add up to the packets that were lost.
LEMMA DropsAddUp ==
  ASSUME IInv, CInv
  PROVE  LET L == {h \in HostPackets : fate[h] \in {"no_client", "no_memory"}} IN
         /\ IsFiniteSet(L)
         /\ dropsNoClient + userAllocDrops = Cardinality(L)
  <1> DEFINE L == {h \in HostPackets : fate[h] \in {"no_client", "no_memory"}}
             A == {h \in HostPackets : fate[h] = "no_client"}
             B == {h \in HostPackets : fate[h] = "no_memory"}
  <1>1. L = A \cup B /\ A \cap B = {}
    OBVIOUS
  <1>2. IsFiniteSet(A) /\ IsFiniteSet(B)
    BY DEF CInv, Countable
  <1>3. dropsNoClient = Cardinality(A) /\ userAllocDrops = Cardinality(B)
    BY DEF CInv, UserConservation
  <1> HIDE DEF A, B, L
  <1>4. IsFiniteSet(L) /\ Cardinality(L) = Cardinality(A) + Cardinality(B) - Cardinality({})
    BY <1>1, <1>2, FS_Union
  <1>5. Cardinality({}) = 0 /\ Cardinality(A) \in Nat /\ Cardinality(B) \in Nat
    BY <1>2, FS_EmptySet, FS_CardinalityType
  <1>6. IsFiniteSet(L) /\ dropsNoClient + userAllocDrops = Cardinality(L)
    BY <1>3, <1>4, <1>5
  <1> QED BY <1>6 DEF L
=============================================================================

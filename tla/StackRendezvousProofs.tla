----------------------- MODULE StackRendezvousProofs -----------------------
(***************************************************************************)
(* Proofs about StackRendezvous, for any channels, packets and reads: the  *)
(* types, that the counts are the lengths of the lists, the rendezvous     *)
(* rule, that every channel is a lossy FIFO, the conservation of packets   *)
(* and the order of delivery.                                              *)
(***************************************************************************)
EXTENDS StackRendezvous, ListLemmas, SequenceTheorems, FiniteSetTheorems, TLAPS

\* The inductive invariant.  DeliverToStack tests the count and not the list, so
\* the rendezvous rule is preserved only where the two agree; and the counts stay
\* in Nat only because a packet is taken from a list that is not empty.
IInv == TypeOK /\ CountIsLength /\ Rendezvous

\* The invariant holds at the start.
LEMMA InitIInv == Init => IInv
  <1> SUFFICES ASSUME Init PROVE IInv
    OBVIOUS
  <1>1. TypeOK
    BY ChannelAssumption DEF Init, TypeOK, ReadStates, WriteStates, Results
  <1>2. CountIsLength
    BY DEF Init, CountIsLength
  <1>3. Rendezvous
    BY DEF Init, Rendezvous
  <1> QED BY <1>1, <1>2, <1>3 DEF IInv

\* A step that leaves the lists, their counts and the reads alone preserves all
\* of the invariant but the types.
LEMMA QuietStep ==
  ASSUME IInv, UNCHANGED <<lists, read>>, TypeOK'
  PROVE  IInv'
  BY DEF IInv, lists, CountIsLength, Rendezvous, Parked

\* What TakeQueued takes and leaves behind.
LEMMA TakeFromBacklog ==
  ASSUME IInv, NEW r \in Reads, pending[ReadChannel[r]] # <<>>
  PROVE  /\ ReadChannel[r] \in Channels
         /\ Head(pending[ReadChannel[r]]) \in Packets
         /\ Tail(pending[ReadChannel[r]]) \in Seq(Packets)
         /\ Len(Tail(pending[ReadChannel[r]])) = count[ReadChannel[r]] - 1
         /\ count[ReadChannel[r]] - 1 \in Nat
  <1> DEFINE c == ReadChannel[r]
  <1>1. c \in Channels
    BY ChannelAssumption
  <1>2. pending[c] \in Seq(Packets) /\ count[c] = Len(pending[c])
    BY <1>1 DEF IInv, TypeOK, CountIsLength
  <1>3. /\ Head(pending[c]) \in Packets
        /\ Tail(pending[c]) \in Seq(Packets)
        /\ Len(Tail(pending[c])) = Len(pending[c]) - 1
        /\ Len(pending[c]) \in Nat \ {0}
    BY <1>2, HeadTailProperties, EmptySeq
  <1> QED BY <1>1, <1>2, <1>3

\* Every step keeps the invariant.
LEMMA NextIInv == IInv /\ [Next]_vars => IInv'
  <1> SUFFICES ASSUME IInv, [Next]_vars PROVE IInv'
    OBVIOUS
  <1> USE ChannelAssumption DEF lists, ghosts, stats
  <1>1. ASSUME NEW p \in Packets, Write(p) PROVE IInv'
    BY <1>1, QuietStep DEF Write, IInv, TypeOK, WriteStates
  <1>2. ASSUME NEW p \in Packets, NEW ready \in BOOLEAN, Admit(p, ready) PROVE IInv'
    <2>1. write' \in [Packets -> WriteStates] /\ result' \in [Packets -> Results]
      BY <1>2 DEF Admit, IInv, TypeOK, WriteStates, Results
    <2>2. writesNoRadio' \in Nat
      BY <1>2 DEF Admit, IInv, TypeOK
    <2>3. UNCHANGED <<lists, accepting, read, carry, writesTotal, allocDrops, ghosts>>
      BY <1>2 DEF Admit
    <2>4. TypeOK'
      BY <2>1, <2>2, <2>3 DEF IInv, TypeOK
    <2> QED BY <2>3, <2>4, QuietStep
  <1>3. ASSUME NEW p \in Packets, HandToRead(p) PROVE IInv'
    <2>1. TypeOK'
      <3>1. PICK r \in Parked(PacketChannel[p]) :
              /\ read' = [read EXCEPT ![r] = "filling"]
              /\ carry' = [carry EXCEPT ![r] = p]
        BY <1>3 DEF HandToRead
      <3>2. /\ read' \in [Reads -> ReadStates]
            /\ carry' \in [Reads -> Packets \cup {None}]
            /\ \A q \in Reads : read'[q] = "filling" <=> carry'[q] # None
        BY <3>1 DEF IInv, TypeOK, Parked, ReadStates
      <3>3. write' \in [Packets -> WriteStates] /\ writesTotal' \in Nat
        BY <1>3 DEF HandToRead, IInv, TypeOK, WriteStates
      <3>4. matched' \in [Channels -> Seq(Packets)]
        BY <1>3 DEF HandToRead, IInv, TypeOK
      <3> QED BY <1>3, <3>2, <3>3, <3>4 DEF HandToRead, IInv, TypeOK
    <2>2. CountIsLength'
      BY <1>3 DEF HandToRead, IInv, CountIsLength
    <2>3. Rendezvous'
      BY <1>3 DEF HandToRead, IInv, TypeOK, Rendezvous, Parked
    <2> QED BY <2>1, <2>2, <2>3 DEF IInv
  <1>4. ASSUME NEW p \in Packets, QueueForStack(p) PROVE IInv'
    <2>1. TypeOK'
      <3>1. write' \in [Packets -> WriteStates] /\ result' \in [Packets -> Results]
        BY <1>4 DEF QueueForStack, IInv, TypeOK, WriteStates, Results
      <3>2. pending' \in [Channels -> Seq(Packets)]
        BY <1>4 DEF QueueForStack, IInv, TypeOK
      <3>3. count' \in [Channels -> Nat] /\ peak' \in [Channels -> Nat] /\ writesTotal' \in Nat
        BY <1>4 DEF QueueForStack, IInv, TypeOK
      <3> QED BY <1>4, <3>1, <3>2, <3>3 DEF QueueForStack, IInv, TypeOK
    <2>2. CountIsLength'
      BY <1>4 DEF QueueForStack, IInv, TypeOK, CountIsLength
    <2>3. Rendezvous'
      BY <1>4 DEF QueueForStack, CanHand, IInv, TypeOK, CountIsLength, Rendezvous, Parked
    <2> QED BY <2>1, <2>2, <2>3 DEF IInv
  <1>5. ASSUME NEW p \in Packets, FailToQueue(p) PROVE IInv'
    BY <1>5, QuietStep DEF FailToQueue, IInv, TypeOK, WriteStates, Results
  <1>6. ASSUME NEW p \in Packets, CompleteWrite(p) PROVE IInv'
    BY <1>6, QuietStep DEF CompleteWrite, IInv, TypeOK, WriteStates
  <1>7. ASSUME NEW r \in Reads, SendRead(r) PROVE IInv'
    BY <1>7 DEF SendRead, IInv, TypeOK, CountIsLength, Rendezvous, Parked, ReadStates
  <1>8. ASSUME NEW r \in Reads, TakeQueued(r) PROVE IInv'
    <2> DEFINE c == ReadChannel[r]
    <2>1. /\ c \in Channels
          /\ Head(pending[c]) \in Packets
          /\ Tail(pending[c]) \in Seq(Packets)
          /\ Len(Tail(pending[c])) = count[c] - 1
          /\ count[c] - 1 \in Nat
      BY <1>8, TakeFromBacklog DEF TakeQueued
    <2>2. TypeOK'
      <3>1. /\ read' \in [Reads -> ReadStates]
            /\ carry' \in [Reads -> Packets \cup {None}]
            /\ \A q \in Reads : read'[q] = "filling" <=> carry'[q] # None
        BY <1>8, <2>1 DEF TakeQueued, IInv, TypeOK, ReadStates
      <3>2. /\ pending \in [Channels -> Seq(Packets)]
            /\ count \in [Channels -> Nat]
            /\ matched \in [Channels -> Seq(Packets)]
        BY DEF IInv, TypeOK
      <3>3. /\ pending' = [pending EXCEPT ![c] = Tail(pending[c])]
            /\ count' = [count EXCEPT ![c] = count[c] - 1]
            /\ matched' = [matched EXCEPT ![c] = Append(matched[c], Head(pending[c]))]
        BY <1>8 DEF TakeQueued
      <3>4. pending' \in [Channels -> Seq(Packets)]
        BY <2>1, <3>2, <3>3
      <3>5. count' \in [Channels -> Nat]
        BY <2>1, <3>2, <3>3
      <3>6. Append(matched[c], Head(pending[c])) \in Seq(Packets)
        BY <2>1, <3>2, AppendProperties
      <3>7. matched' \in [Channels -> Seq(Packets)]
        BY <2>1, <3>2, <3>3, <3>6
      <3> QED BY <1>8, <3>1, <3>4, <3>5, <3>7 DEF TakeQueued, IInv, TypeOK
    <2>3. CountIsLength'
      BY <1>8, <2>1 DEF TakeQueued, IInv, TypeOK, CountIsLength
    <2>4. \A d \in Channels : pending'[d] # <<>> => pending[d] # <<>>
      BY <1>8 DEF TakeQueued, IInv, TypeOK
    <2>5. \A d \in Channels : Parked(d)' \subseteq Parked(d)
      BY <1>8 DEF TakeQueued, IInv, TypeOK, Parked
    <2>6. Rendezvous'
      BY <2>4, <2>5 DEF IInv, Rendezvous
    <2> QED BY <2>2, <2>3, <2>6 DEF IInv
  <1>9. ASSUME NEW r \in Reads, ParkRead(r) PROVE IInv'
    BY <1>9 DEF ParkRead, IInv, TypeOK, CountIsLength, Rendezvous, Parked, ReadStates
  <1>10. ASSUME NEW r \in Reads, CompleteRead(r) PROVE IInv'
    <2> DEFINE p == carry[r]
    <2>1. p \in Packets /\ ReadChannel[r] \in Channels
      BY <1>10 DEF CompleteRead, IInv, TypeOK
    <2>2. /\ read' \in [Reads -> ReadStates]
          /\ carry' \in [Reads -> Packets \cup {None}]
          /\ \A q \in Reads : read'[q] = "filling" <=> carry'[q] # None
          /\ received' \in [Channels -> Seq(Packets)]
      BY <1>10, <2>1 DEF CompleteRead, IInv, TypeOK, ReadStates
    <2>3. write' \in [Packets -> WriteStates] /\ result' \in [Packets -> Results]
      BY <1>10, <2>1 DEF CompleteRead, IInv, TypeOK, WriteStates, Results
    <2>4. TypeOK'
      BY <1>10, <2>2, <2>3 DEF CompleteRead, IInv, TypeOK
    <2>5. CountIsLength' /\ Rendezvous'
      BY <1>10 DEF CompleteRead, IInv, TypeOK, CountIsLength, Rendezvous, Parked
    <2> QED BY <2>4, <2>5 DEF IInv
  <1>11. ASSUME NEW r \in Reads, CancelParked(r) PROVE IInv'
    BY <1>11 DEF CancelParked, IInv, TypeOK, CountIsLength, Rendezvous, Parked, ReadStates
  <1>12. ASSUME NEW c \in Channels, PurgeQueue(c) PROVE IInv'
    BY <1>12, QuietStep DEF PurgeQueue, IInv, TypeOK
  <1>13. ASSUME NEW c \in Channels, StartQueue(c) PROVE IInv'
    BY <1>13, QuietStep DEF StartQueue, IInv, TypeOK
  <1>14. CASE FreeBacklogs
    BY <1>14 DEF FreeBacklogs, IInv, TypeOK, CountIsLength, Rendezvous, Parked, Queued, ToSet
  <1>15. CASE SelfManagedIoCleanup
    BY <1>15 DEF SelfManagedIoCleanup, IInv, TypeOK, CountIsLength, Rendezvous, Parked, Queued, ToSet
  <1>16. CASE UNCHANGED vars
    BY <1>16, QuietStep DEF vars, IInv, TypeOK
  <1> QED
    BY <1>1, <1>2, <1>3, <1>4, <1>5, <1>6, <1>7, <1>8, <1>9, <1>10, <1>11, <1>12, <1>13,
       <1>14, <1>15, <1>16 DEF Next, DeliverToStack, TakeOrParkForStack

\* The invariant holds in every behaviour.
LEMMA Inductive == Spec => []IInv
  BY InitIInv, NextIInv, PTL DEF Spec

\* Every variable keeps its type in every behaviour (FDO context, fdo.c).
THEOREM TypeCorrect == Spec => []TypeOK
  <1>1. IInv => TypeOK
    BY DEF IInv
  <1> QED BY <1>1, Inductive, PTL

\* The counts DeliverToStack decides on are the lengths of the lists.
THEOREM CountsCorrect == Spec => []CountIsLength
  <1>1. IInv => CountIsLength
    BY DEF IInv
  <1> QED BY <1>1, Inductive, PTL

\* The rule the driver's rendezvous rest on (user.c, head comment): a packet and
\* a read of one channel never both wait, for any number of packets, reads and
\* channels and however their threads interleave.
THEOREM RendezvousRule == Spec => []Rendezvous
  <1>1. IInv => Rendezvous
    BY DEF IInv
  <1> QED BY <1>1, Inductive, PTL

\* A step that touches a channel's list or its matched packets is one of the FIFO's.
LEMMA FifoStep == IInv /\ [Next]_vars => \A c \in Channels : [Fifo(c)!Next]_(Fifo(c)!vars)
  <1> SUFFICES ASSUME IInv, [Next]_vars, NEW c \in Channels
               PROVE  [Fifo(c)!Next]_(Fifo(c)!vars)
    OBVIOUS
  <1> USE ChannelAssumption
  <1>1. /\ pending \in [Channels -> Seq(Packets)]
        /\ matched \in [Channels -> Seq(Packets)]
        /\ count \in [Channels -> Nat]
        /\ \A d \in Channels : count[d] = 0 => pending[d] = <<>>
    BY EmptySeq DEF IInv, TypeOK, CountIsLength
  <1>2. ASSUME NEW p \in Packets, HandToRead(p) PROVE [Fifo(c)!Next]_(Fifo(c)!vars)
    <2>1. CASE PacketChannel[p] = c
      <3>1. /\ pending[c] = <<>>
            /\ pending'[c] = pending[c]
            /\ matched'[c] = Append(matched[c], p)
        BY <1>1, <1>2, <2>1 DEF HandToRead, lists
      <3> QED BY <3>1 DEF Fifo!Next, Fifo!Pass
    <2>2. CASE PacketChannel[p] # c
      BY <1>1, <1>2, <2>2 DEF HandToRead, lists, Fifo!vars
    <2> QED BY <2>1, <2>2
  <1>3. ASSUME NEW p \in Packets, QueueForStack(p) PROVE [Fifo(c)!Next]_(Fifo(c)!vars)
    <2>1. CASE PacketChannel[p] = c
      <3>1. /\ pending'[c] = Append(pending[c], p)
            /\ matched'[c] = matched[c]
        BY <1>1, <1>3, <2>1 DEF QueueForStack, ghosts
      <3> QED BY <3>1 DEF Fifo!Next, Fifo!Put
    <2>2. CASE PacketChannel[p] # c
      BY <1>1, <1>3, <2>2 DEF QueueForStack, ghosts, Fifo!vars
    <2> QED BY <2>1, <2>2
  <1>4. ASSUME NEW r \in Reads, TakeQueued(r) PROVE [Fifo(c)!Next]_(Fifo(c)!vars)
    <2>1. CASE ReadChannel[r] = c
      <3>1. /\ pending[c] # <<>>
            /\ pending'[c] = Tail(pending[c])
            /\ matched'[c] = Append(matched[c], Head(pending[c]))
        BY <1>1, <1>4, <2>1 DEF TakeQueued
      <3> QED BY <3>1 DEF Fifo!Next, Fifo!Get
    <2>2. CASE ReadChannel[r] # c
      BY <1>1, <1>4, <2>2 DEF TakeQueued, Fifo!vars
    <2> QED BY <2>1, <2>2
  <1>5. CASE FreeBacklogs \/ SelfManagedIoCleanup
    <2>1. pending'[c] = <<>> /\ matched'[c] = matched[c]
      BY <1>5 DEF FreeBacklogs, SelfManagedIoCleanup
    <2> QED BY <2>1 DEF Fifo!Next, Fifo!Flush
  <1>6. ASSUME UNCHANGED <<pending, matched>> PROVE [Fifo(c)!Next]_(Fifo(c)!vars)
    BY <1>6 DEF Fifo!vars
  <1>7. ASSUME NEW p \in Packets,
               Write(p) \/ (\E ready \in BOOLEAN : Admit(p, ready)) \/ FailToQueue(p) \/ CompleteWrite(p)
        PROVE  UNCHANGED <<pending, matched>>
    BY <1>7 DEF Write, Admit, FailToQueue, CompleteWrite, lists, ghosts
  <1>8. ASSUME NEW r \in Reads, SendRead(r) \/ ParkRead(r) \/ CompleteRead(r) \/ CancelParked(r)
        PROVE  UNCHANGED <<pending, matched>>
    BY <1>8 DEF SendRead, ParkRead, CompleteRead, CancelParked, lists, ghosts
  <1>9. ASSUME NEW d \in Channels, PurgeQueue(d) \/ StartQueue(d)
        PROVE  UNCHANGED <<pending, matched>>
    BY <1>9 DEF PurgeQueue, StartQueue, lists, ghosts
  <1>10. CASE UNCHANGED vars
    BY <1>6, <1>10 DEF vars, lists, ghosts
  <1> QED
    BY <1>2, <1>3, <1>4, <1>5, <1>6, <1>7, <1>8, <1>9, <1>10
       DEF Next, DeliverToStack, TakeOrParkForStack

\* Each channel implements the lossy FIFO: packets reach the stack's reads in the
\* order in which DeliverToStack took them, once each, and are lost only when a
\* teardown throws away the whole backlog.
THEOREM ImplementsLossyFifo == Spec => IsLossyFifo
  <1>1. Init => \A c \in Channels : Fifo(c)!Init
    BY DEF Init, Fifo!Init
  <1>2. IInv /\ [Next]_vars => [\A c \in Channels : [Fifo(c)!Next]_(Fifo(c)!vars)]_vars
    BY FifoStep
  <1> QED BY <1>1, <1>2, Inductive, PTL DEF Spec, IsLossyFifo
-----------------------------------------------------------------------------
(* Conservation.                                                           *)

\* A backlog holds each packet once, and only packets of its channel: a packet
\* taken from one list is on no other.
Channelled ==
  /\ \A c \in Channels : IsInjective(pending[c])
  /\ \A c \in Channels : \A p \in ToSet(pending[c]) : PacketChannel[p] = c

\* A write has a status exactly when it is decided and not handing over.
Decided ==
  \A p \in Packets :
    (result[p] = "none") <=> write[p] \in {"unsent", "admit", "deliver", "hand"}

\* There may be infinitely many packets, of which only finitely many have been
\* decided on in any state; without this the counts of CountedOnce mean nothing.
Countable ==
  /\ IsFiniteSet({p \in Packets : Accepted(p)})
  /\ IsFiniteSet({p \in Packets : result[p] = "not_ready"})
  /\ IsFiniteSet({p \in Packets : result[p] = "no_memory"})

\* The inductive invariant of Conservation.
Placed == \A p \in Packets : InOnePlace(p)
CInv == Channelled /\ Decided /\ Placed /\ CountedOnce /\ Countable

\* At the start every packet is with its writer, and nothing is counted.
LEMMA InitCInv == Init => CInv
  <1> SUFFICES ASSUME Init PROVE CInv
    OBVIOUS
  <1> USE ChannelAssumption
  <1>1. Channelled
    BY EmptyList DEF Init, Channelled
  <1>2. Decided
    BY DEF Init, Decided
  <1>3. Placed
    BY EmptyList DEF Init, Placed, InOnePlace, Accepted, InBacklog, InRead, AtStack
  <1>4. CountedOnce /\ Countable
    <2>1. /\ {p \in Packets : Accepted(p)} = {}
          /\ {p \in Packets : result[p] = "not_ready"} = {}
          /\ {p \in Packets : result[p] = "no_memory"} = {}
      BY DEF Init, Accepted
    <2> QED BY <2>1, FS_EmptySet DEF Init, CountedOnce, Countable
  <1> QED BY <1>1, <1>2, <1>3, <1>4 DEF CInv

\* A step that moves no packet and answers for none keeps every packet where it is.
LEMMA NoMove ==
  ASSUME Placed,
         UNCHANGED <<pending, carry, received, flushed>>,
         \A p \in Packets : Accepted(p)' <=> Accepted(p)
  PROVE  Placed'
  BY DEF Placed, InOnePlace, InBacklog, InRead, AtStack

\* A step that decides on no packet keeps the counters.
LEMMA NoCount ==
  ASSUME CountedOnce, Countable, UNCHANGED stats,
         \A p \in Packets :
           /\ Accepted(p)' <=> Accepted(p)
           /\ (result[p] = "not_ready")' <=> result[p] = "not_ready"
           /\ (result[p] = "no_memory")' <=> result[p] = "no_memory"
  PROVE  CountedOnce' /\ Countable'
  <1>1. /\ {p \in Packets : Accepted(p)}' = {p \in Packets : Accepted(p)}
        /\ {p \in Packets : result[p] = "not_ready"}' = {p \in Packets : result[p] = "not_ready"}
        /\ {p \in Packets : result[p] = "no_memory"}' = {p \in Packets : result[p] = "no_memory"}
    OBVIOUS
  <1> QED BY <1>1 DEF CountedOnce, Countable, stats

\* A packet that is accepted is counted once more.
LEMMA CountAccepted ==
  ASSUME CountedOnce, Countable, NEW p \in Packets, ~Accepted(p),
         writesTotal' = writesTotal + 1,
         UNCHANGED <<writesNoRadio, allocDrops>>,
         \A q \in Packets :
           /\ Accepted(q)' <=> Accepted(q) \/ q = p
           /\ (result[q] = "not_ready")' <=> result[q] = "not_ready"
           /\ (result[q] = "no_memory")' <=> result[q] = "no_memory"
  PROVE  CountedOnce' /\ Countable'
  <1>1. /\ {q \in Packets : Accepted(q)}' = {q \in Packets : Accepted(q)} \cup {p}
        /\ p \notin {q \in Packets : Accepted(q)}
        /\ {q \in Packets : result[q] = "not_ready"}' = {q \in Packets : result[q] = "not_ready"}
        /\ {q \in Packets : result[q] = "no_memory"}' = {q \in Packets : result[q] = "no_memory"}
    OBVIOUS
  <1>2. /\ IsFiniteSet({q \in Packets : Accepted(q)} \cup {p})
        /\ Cardinality({q \in Packets : Accepted(q)} \cup {p})
             = Cardinality({q \in Packets : Accepted(q)}) + 1
    BY <1>1, FS_AddElement DEF Countable
  <1> QED BY <1>1, <1>2 DEF CountedOnce, Countable

\* So is one that is refused, or lost, under the status its write gets.
LEMMA CountRefused ==
  ASSUME CountedOnce, Countable, NEW p \in Packets, NEW s \in {"not_ready", "no_memory"},
         result[p] = "none",
         result' = [result EXCEPT ![p] = s],
         result \in [Packets -> Results],
         writesTotal' = writesTotal,
         writesNoRadio' = (IF s = "not_ready" THEN writesNoRadio + 1 ELSE writesNoRadio),
         allocDrops' = (IF s = "no_memory" THEN allocDrops + 1 ELSE allocDrops),
         \A q \in Packets : Accepted(q)' <=> Accepted(q)
  PROVE  CountedOnce' /\ Countable'
  <1> DEFINE A == {q \in Packets : result[q] = s}
  <1>1. {q \in Packets : result[q] = s}' = A \cup {p} /\ p \notin A
    OBVIOUS
  <1>2. /\ IsFiniteSet(A \cup {p})
        /\ Cardinality(A \cup {p}) = Cardinality(A) + 1
    <2>1. IsFiniteSet(A)
      BY DEF Countable
    <2> QED BY <1>1, <2>1, FS_AddElement
  <1>3. \A z \in {"not_ready", "no_memory"} : z # s =>
          {q \in Packets : result[q] = z}' = {q \in Packets : result[q] = z}
    OBVIOUS
  <1>4. {q \in Packets : Accepted(q)}' = {q \in Packets : Accepted(q)}
    OBVIOUS
  <1>5. CASE s = "not_ready"
    BY <1>1, <1>2, <1>3, <1>4, <1>5 DEF CountedOnce, Countable
  <1>6. CASE s = "no_memory"
    BY <1>1, <1>2, <1>3, <1>4, <1>6 DEF CountedOnce, Countable
  <1> QED BY <1>5, <1>6

\* A request that is filled holds its packet and no other request does.
LEMMA FillRead ==
  ASSUME TypeOK, NEW r \in Reads, NEW p \in Packets, read[r] # "filling",
         carry' = [carry EXCEPT ![r] = p]
  PROVE  /\ \A q \in Packets : InRead(q)' <=> InRead(q) \/ q = p
         /\ \A q \in Packets :
              /\ q = p => ~InRead(p)
              /\ \A r1, r2 \in Reads : carry[r1] = q /\ carry[r2] = q => r1 = r2
              => \A r1, r2 \in Reads : carry'[r1] = q /\ carry'[r2] = q => r1 = r2
  <1>1. carry[r] = None /\ carry \in [Reads -> Packets \cup {None}]
    BY DEF TypeOK
  <1> QED BY <1>1, ChannelAssumption DEF InRead

\* Matching a packet to a waiting read keeps the account.
LEMMA HandToReadCInv ==
  ASSUME IInv, CInv, NEW p \in Packets, HandToRead(p)
  PROVE  CInv'
  <1> USE ChannelAssumption
  <1>1. PICK r \in Parked(PacketChannel[p]) : carry' = [carry EXCEPT ![r] = p]
    BY DEF HandToRead
  <1>2. /\ r \in Reads /\ read[r] # "filling"
        /\ write[p] = "deliver"
        /\ write' = [write EXCEPT ![p] = "hand"]
        /\ writesTotal' = writesTotal + 1
        /\ UNCHANGED <<pending, result, writesNoRadio, allocDrops, received, flushed>>
    BY DEF HandToRead, Parked, lists
  <1>3. TypeOK
    BY DEF IInv
  <1>4. result[p] = "none" /\ ~Accepted(p)
    BY <1>2 DEF CInv, Decided, Accepted
  <1>5. \A q \in Packets : Accepted(q)' <=> Accepted(q) \/ q = p
    BY <1>2, <1>3 DEF Accepted, TypeOK
  <1>6. Channelled'
    BY <1>2 DEF CInv, Channelled
  <1>7. Decided'
    BY <1>2, <1>3, <1>4 DEF CInv, Decided, TypeOK
  <1>8. Placed'
    <2>1. /\ ~InBacklog(p) /\ ~InRead(p) /\ ~AtStack(p) /\ p \notin flushed
      BY <1>4 DEF CInv, Placed, InOnePlace
    <2>2. \A q \in Packets : InRead(q)' <=> InRead(q) \/ q = p
      BY <1>1, <1>2, <1>3, FillRead
    <2>3. \A q \in Packets : \A r1, r2 \in Reads : carry'[r1] = q /\ carry'[r2] = q => r1 = r2
      <3>1. \A q \in Packets : \A r1, r2 \in Reads : carry[r1] = q /\ carry[r2] = q => r1 = r2
        BY DEF CInv, Placed, InOnePlace
      <3> QED BY <1>1, <1>2, <1>3, <2>1, <3>1, FillRead
    <2>4. \A q \in Packets : (InBacklog(q)' <=> InBacklog(q)) /\ (AtStack(q)' <=> AtStack(q))
      BY <1>2 DEF InBacklog, AtStack
    <2> QED BY <1>2, <1>5, <2>1, <2>2, <2>3, <2>4 DEF CInv, Placed, InOnePlace
  <1>9. CountedOnce' /\ Countable'
    BY <1>2, <1>4, <1>5, CountAccepted DEF CInv
  <1> QED BY <1>6, <1>7, <1>8, <1>9 DEF CInv

\* Putting a packet on the list keeps the account.
LEMMA QueueForStackCInv ==
  ASSUME IInv, CInv, NEW p \in Packets, QueueForStack(p)
  PROVE  CInv'
  <1> USE ChannelAssumption
  <1> DEFINE c == PacketChannel[p]
  <1>2. /\ write[p] = "deliver"
        /\ write' = [write EXCEPT ![p] = "complete"]
        /\ result' = [result EXCEPT ![p] = "success"]
        /\ pending' = [pending EXCEPT ![c] = Append(@, p)]
        /\ writesTotal' = writesTotal + 1
        /\ UNCHANGED <<carry, writesNoRadio, allocDrops, received, flushed>>
    BY DEF QueueForStack, ghosts
  <1>3. TypeOK
    BY DEF IInv
  <1>4. result[p] = "none" /\ ~Accepted(p)
    BY <1>2 DEF CInv, Decided, Accepted
  <1>5. \A q \in Packets : Accepted(q)' <=> Accepted(q) \/ q = p
    BY <1>2, <1>3, <1>4 DEF Accepted, TypeOK
  <1>6. /\ ~InBacklog(p) /\ ~InRead(p) /\ ~AtStack(p) /\ p \notin flushed
    BY <1>4 DEF CInv, Placed, InOnePlace
  <1>7. /\ c \in Channels
        /\ pending[c] \in Seq(Packets)
        /\ p \notin ToSet(pending[c])
        /\ pending'[c] = Append(pending[c], p)
        /\ \A d \in Channels : d # c => pending'[d] = pending[d]
    BY <1>2, <1>3, <1>6 DEF TypeOK, InBacklog
  <1>8. ToSet(pending'[c]) = ToSet(pending[c]) \cup {p} /\ IsInjective(pending'[c])
    <2>1. IsInjective(pending[c])
      BY <1>7 DEF CInv, Channelled
    <2> QED BY <1>7, <2>1, PutAtTail
  <1>9. Channelled'
    BY <1>7, <1>8 DEF CInv, Channelled
  <1>10. Decided'
    BY <1>2, <1>3, <1>4 DEF CInv, Decided, TypeOK
  <1>11. Placed'
    <2>1. \A q \in Packets : InBacklog(q)' <=> InBacklog(q) \/ q = p
      BY <1>7, <1>8 DEF InBacklog
    <2>2. \A q \in Packets : (InRead(q)' <=> InRead(q)) /\ (AtStack(q)' <=> AtStack(q))
      BY <1>2 DEF InRead, AtStack
    <2> QED BY <1>2, <1>5, <1>6, <2>1, <2>2 DEF CInv, Placed, InOnePlace
  <1>12. CountedOnce' /\ Countable'
    <2>1. \A q \in Packets :
           /\ (result[q] = "not_ready")' <=> result[q] = "not_ready"
           /\ (result[q] = "no_memory")' <=> result[q] = "no_memory"
      BY <1>2, <1>3, <1>4 DEF TypeOK
    <2> QED BY <1>2, <1>4, <1>5, <2>1, CountAccepted DEF CInv
  <1> QED BY <1>9, <1>10, <1>11, <1>12 DEF CInv

\* A read that takes a packet off the list keeps the account.
LEMMA TakeQueuedCInv ==
  ASSUME IInv, CInv, NEW r \in Reads, TakeQueued(r)
  PROVE  CInv'
  <1> USE ChannelAssumption
  <1> DEFINE c == ReadChannel[r]
  <1> DEFINE p == Head(pending[c])
  <1>1. /\ read[r] # "filling" /\ pending[c] # <<>>
        /\ carry' = [carry EXCEPT ![r] = p]
        /\ pending' = [pending EXCEPT ![c] = Tail(@)]
        /\ UNCHANGED <<write, result, stats, received, flushed>>
    BY DEF TakeQueued
  <1>2. TypeOK
    BY DEF IInv
  <1>3. /\ c \in Channels
        /\ pending[c] \in Seq(Packets)
        /\ IsInjective(pending[c])
        /\ pending'[c] = Tail(pending[c])
        /\ \A d \in Channels : d # c => pending'[d] = pending[d]
    BY <1>1, <1>2 DEF TypeOK, CInv, Channelled
  <1>4. /\ p \in Packets
        /\ p \in ToSet(pending[c])
        /\ IsInjective(pending'[c])
        /\ ToSet(pending'[c]) = ToSet(pending[c]) \ {p}
    BY <1>1, <1>3, TakeHead
  <1>5. InBacklog(p) /\ ~InRead(p) /\ ~AtStack(p) /\ p \notin flushed
    BY <1>3, <1>4 DEF CInv, Placed, InOnePlace, InBacklog
  <1>6. Channelled'
    BY <1>3, <1>4 DEF CInv, Channelled
  <1>7. Decided'
    BY <1>1 DEF CInv, Decided
  <1>8. \A q \in Packets : Accepted(q)' <=> Accepted(q)
    BY <1>1 DEF Accepted
  <1> HIDE DEF p
  <1>9. Placed'
    <2>1. \A q \in Packets : InBacklog(q)' <=> InBacklog(q) /\ q # p
      <3>1. \A d \in Channels : d # c => p \notin ToSet(pending[d])
        BY <1>3, <1>4 DEF CInv, Channelled
      <3> QED BY <1>3, <1>4, <3>1 DEF InBacklog
    <2>2. \A q \in Packets : InRead(q)' <=> InRead(q) \/ q = p
      BY <1>1, <1>2, <1>4, FillRead
    <2>3. \A q \in Packets : \A r1, r2 \in Reads : carry'[r1] = q /\ carry'[r2] = q => r1 = r2
      <3>1. \A q \in Packets : \A r1, r2 \in Reads : carry[r1] = q /\ carry[r2] = q => r1 = r2
        BY DEF CInv, Placed, InOnePlace
      <3> QED BY <1>1, <1>2, <1>4, <1>5, <3>1, FillRead
    <2>4. \A q \in Packets : AtStack(q)' <=> AtStack(q)
      BY <1>1 DEF AtStack
    <2> QED BY <1>1, <1>5, <1>8, <2>1, <2>2, <2>3, <2>4 DEF CInv, Placed, InOnePlace
  <1>10. CountedOnce' /\ Countable'
    BY <1>1, <1>8, NoCount DEF CInv
  <1> QED BY <1>6, <1>7, <1>9, <1>10 DEF CInv

\* Completing a read keeps the account.
LEMMA CompleteReadCInv ==
  ASSUME IInv, CInv, NEW r \in Reads, CompleteRead(r)
  PROVE  CInv'
  <1> USE ChannelAssumption
  <1> DEFINE p == carry[r]
  <1> DEFINE c == ReadChannel[r]
  <1>1. /\ read[r] = "filling"
        /\ carry' = [carry EXCEPT ![r] = None]
        /\ received' = [received EXCEPT ![c] = Append(@, p)]
        /\ IF write[p] = "hand"
           THEN /\ write' = [write EXCEPT ![p] = "complete"]
                /\ result' = [result EXCEPT ![p] = "success"]
           ELSE UNCHANGED <<write, result>>
        /\ UNCHANGED <<pending, stats, flushed>>
    BY DEF CompleteRead, lists
  <1>2. TypeOK
    BY DEF IInv
  <1>3. /\ p \in Packets /\ c \in Channels
        /\ received[c] \in Seq(Packets)
        /\ carry \in [Reads -> Packets \cup {None}]
        /\ carry' \in [Reads -> Packets \cup {None}]
        /\ received'[c] = Append(received[c], p)
        /\ \A d \in Channels : d # c => received'[d] = received[d]
    BY <1>1, <1>2 DEF TypeOK
  <1>4. InRead(p) /\ Accepted(p) /\ ~InBacklog(p) /\ ~AtStack(p) /\ p \notin flushed
    BY <1>3 DEF CInv, Placed, InOnePlace, InRead
  <1>5. write[p] = "hand" => result[p] = "none"
    BY <1>3 DEF CInv, Decided
  <1>6. \A q \in Packets :
          /\ Accepted(q)' <=> Accepted(q)
          /\ (result[q] = "not_ready")' <=> result[q] = "not_ready"
          /\ (result[q] = "no_memory")' <=> result[q] = "no_memory"
    <2>1. CASE write[p] = "hand"
      BY <1>1, <1>2, <1>3, <1>5, <2>1 DEF Accepted, TypeOK
    <2>2. CASE write[p] # "hand"
      BY <1>1, <2>2 DEF Accepted
    <2> QED BY <2>1, <2>2
  <1>7. Channelled'
    BY <1>1 DEF CInv, Channelled
  <1>8. Decided'
    <2>1. CASE write[p] = "hand"
      <3>1. /\ write' = [write EXCEPT ![p] = "complete"]
            /\ result' = [result EXCEPT ![p] = "success"]
        BY <1>1, <2>1
      <3>2. write'[p] = "complete" /\ result'[p] = "success"
        BY <1>2, <1>3, <3>1 DEF TypeOK
      <3>3. \A q \in Packets \ {p} : write'[q] = write[q] /\ result'[q] = result[q]
        BY <1>2, <3>1 DEF TypeOK
      <3> HIDE DEF p
      <3> QED BY <3>2, <3>3 DEF CInv, Decided
    <2>2. CASE write[p] # "hand"
      <3>1. UNCHANGED <<write, result>>
        BY <1>1, <2>2
      <3> QED BY <3>1 DEF CInv, Decided
    <2> QED BY <2>1, <2>2
  <1>9. Placed'
    <2>1. \A q \in Packets : AtStack(q)' <=> AtStack(q) \/ q = p
      <3>1. ToSet(received'[c]) = ToSet(received[c]) \cup {p}
        BY <1>3, PutAtTail
      <3> QED BY <1>3, <3>1 DEF AtStack
    <2>2. \A q \in Packets : \A r1, r2 \in Reads : carry[r1] = q /\ carry[r2] = q => r1 = r2
      BY DEF CInv, Placed, InOnePlace
    <2>3. \A q \in Packets : InRead(q)' <=> InRead(q) /\ q # p
      BY <1>1, <1>3, <2>2 DEF InRead
    <2>4. \A q \in Packets : \A r1, r2 \in Reads : carry'[r1] = q /\ carry'[r2] = q => r1 = r2
      BY <1>1, <1>3, <2>2
    <2>5. \A q \in Packets : InBacklog(q)' <=> InBacklog(q)
      BY <1>1 DEF InBacklog
    <2> HIDE DEF p
    <2> QED BY <1>1, <1>4, <1>6, <2>1, <2>3, <2>4, <2>5 DEF CInv, Placed, InOnePlace
  <1>10. CountedOnce' /\ Countable'
    BY <1>1, <1>6, NoCount DEF CInv
  <1> QED BY <1>7, <1>8, <1>9, <1>10 DEF CInv

\* What either purge of the backlogs does to them.
LEMMA PurgeCInv ==
  ASSUME IInv, CInv,
         pending' = [c \in Channels |-> <<>>],
         flushed' = flushed \cup Queued,
         UNCHANGED <<carry, write, result, stats, received>>
  PROVE  CInv'
  <1>1. Channelled'
    BY EmptyList DEF Channelled
  <1>2. Decided'
    BY DEF CInv, Decided
  <1>3. \A q \in Packets : Accepted(q)' <=> Accepted(q)
    BY DEF Accepted
  <1>4. Placed'
    <2>1. \A q \in Packets : ~InBacklog(q)'
      BY EmptyList DEF InBacklog
    <2>2. \A q \in Packets : q \in flushed' <=> q \in flushed \/ InBacklog(q)
      BY DEF Queued, InBacklog
    <2>3. \A q \in Packets : (InRead(q)' <=> InRead(q)) /\ (AtStack(q)' <=> AtStack(q))
      BY DEF InRead, AtStack
    <2> QED BY <1>3, <2>1, <2>2, <2>3 DEF CInv, Placed, InOnePlace
  <1>5. CountedOnce' /\ Countable'
    BY <1>3, NoCount DEF CInv
  <1> QED BY <1>1, <1>2, <1>4, <1>5 DEF CInv

\* The admission check keeps the account.
LEMMA AdmitCInv ==
  ASSUME IInv, CInv, NEW p \in Packets, NEW ready \in BOOLEAN, Admit(p, ready)
  PROVE  CInv'
  <1>1. /\ write[p] = "admit"
        /\ UNCHANGED <<pending, carry, writesTotal, allocDrops, received, flushed>>
    BY DEF Admit, lists, ghosts
  <1>2. TypeOK
    BY DEF IInv
  <1>3. result[p] = "none"
    BY <1>1 DEF CInv, Decided
  <1>4. Channelled'
    BY <1>1 DEF CInv, Channelled
  <1>5. CASE ready
    <2>1. /\ write' = [write EXCEPT ![p] = "deliver"]
          /\ UNCHANGED <<result, writesNoRadio>>
      BY <1>5 DEF Admit
    <2>2. \A q \in Packets : Accepted(q)' <=> Accepted(q)
      BY <1>1, <1>2, <2>1 DEF Accepted, TypeOK
    <2>3. Decided'
      BY <1>1, <1>2, <2>1 DEF CInv, Decided, TypeOK
    <2>4. Placed'
      BY <1>1, <2>2, NoMove DEF CInv
    <2>5. CountedOnce' /\ Countable'
      BY <1>1, <2>1, <2>2, NoCount DEF CInv, stats
    <2> QED BY <1>4, <2>3, <2>4, <2>5 DEF CInv
  <1>6. CASE ~ready
    <2>1. /\ write' = [write EXCEPT ![p] = "complete"]
          /\ result' = [result EXCEPT ![p] = "not_ready"]
          /\ writesNoRadio' = writesNoRadio + 1
      BY <1>6 DEF Admit
    <2>2. \A q \in Packets : Accepted(q)' <=> Accepted(q)
      BY <1>1, <1>2, <1>3, <2>1 DEF Accepted, TypeOK
    <2>3. Decided'
      BY <1>1, <1>2, <2>1 DEF CInv, Decided, TypeOK
    <2>4. Placed'
      BY <1>1, <2>2, NoMove DEF CInv
    <2>5. CountedOnce' /\ Countable'
      BY <1>1, <1>2, <1>3, <2>1, <2>2, CountRefused DEF CInv, TypeOK
    <2> QED BY <1>4, <2>3, <2>4, <2>5 DEF CInv
  <1> QED BY <1>5, <1>6

\* Having no memory for a packet keeps the account.
LEMMA FailToQueueCInv ==
  ASSUME IInv, CInv, NEW p \in Packets, FailToQueue(p)
  PROVE  CInv'
  <1>1. /\ write[p] = "deliver"
        /\ write' = [write EXCEPT ![p] = "complete"]
        /\ result' = [result EXCEPT ![p] = "no_memory"]
        /\ allocDrops' = allocDrops + 1
        /\ UNCHANGED <<pending, carry, writesTotal, writesNoRadio, received, flushed>>
    BY DEF FailToQueue, lists, ghosts
  <1>2. TypeOK
    BY DEF IInv
  <1>3. result[p] = "none"
    BY <1>1 DEF CInv, Decided
  <1>4. \A q \in Packets : Accepted(q)' <=> Accepted(q)
    BY <1>1, <1>2, <1>3 DEF Accepted, TypeOK
  <1>5. Channelled'
    BY <1>1 DEF CInv, Channelled
  <1>6. Decided'
    BY <1>1, <1>2 DEF CInv, Decided, TypeOK
  <1>7. Placed'
    BY <1>1, <1>4, NoMove DEF CInv
  <1>8. CountedOnce' /\ Countable'
    BY <1>1, <1>2, <1>3, <1>4, CountRefused DEF CInv, TypeOK
  <1> QED BY <1>5, <1>6, <1>7, <1>8 DEF CInv

\* Every other step moves no packet and decides on none.
LEMMA OtherCInv ==
  ASSUME IInv, CInv,
         UNCHANGED <<pending, carry, result, stats, received, flushed>>,
         Decided',
         \A q \in Packets : (write[q] = "hand")' <=> write[q] = "hand"
  PROVE  CInv'
  <1>1. \A q \in Packets : Accepted(q)' <=> Accepted(q)
    BY DEF Accepted
  <1>2. Channelled'
    BY DEF CInv, Channelled
  <1>3. Placed'
    BY <1>1, NoMove DEF CInv
  <1>4. CountedOnce' /\ Countable'
    BY <1>1, NoCount DEF CInv
  <1> QED BY <1>2, <1>3, <1>4 DEF CInv

\* Every step keeps the account of the packets.
LEMMA NextCInv == IInv /\ CInv /\ [Next]_vars => CInv'
  <1> SUFFICES ASSUME IInv, CInv, [Next]_vars PROVE CInv'
    OBVIOUS
  <1> USE DEF lists, ghosts
  <1>1. ASSUME NEW p \in Packets, Write(p) \/ CompleteWrite(p) PROVE CInv'
    <2>1. /\ UNCHANGED <<pending, carry, result, stats, received, flushed>>
          /\ \A q \in Packets : (write[q] = "hand")' <=> write[q] = "hand"
      BY <1>1 DEF Write, CompleteWrite, IInv, TypeOK
    <2>2. Decided'
      BY <1>1 DEF Write, CompleteWrite, IInv, TypeOK, CInv, Decided
    <2> QED BY <2>1, <2>2, OtherCInv
  <1>2. ASSUME UNCHANGED <<pending, carry, write, result, stats, received, flushed>> PROVE CInv'
    <2>1. Decided'
      BY <1>2 DEF CInv, Decided
    <2> QED BY <1>2, <2>1, OtherCInv
  <1>3. ASSUME NEW r \in Reads, SendRead(r) \/ ParkRead(r) \/ CancelParked(r) PROVE CInv'
    BY <1>2, <1>3 DEF SendRead, ParkRead, CancelParked
  <1>4. ASSUME NEW c \in Channels, PurgeQueue(c) \/ StartQueue(c) PROVE CInv'
    BY <1>2, <1>4 DEF PurgeQueue, StartQueue
  <1>5. CASE UNCHANGED vars
    BY <1>2, <1>5 DEF vars
  <1>6. CASE FreeBacklogs \/ SelfManagedIoCleanup
    BY <1>6, PurgeCInv DEF FreeBacklogs, SelfManagedIoCleanup
  <1> QED
    BY <1>1, <1>3, <1>4, <1>5, <1>6, AdmitCInv, HandToReadCInv, QueueForStackCInv, FailToQueueCInv,
       TakeQueuedCInv, CompleteReadCInv
       DEF Next, DeliverToStack, TakeOrParkForStack

\* However the threads of any number of writes, reads and teardowns interleave, a
\* packet the client was told is accepted is in exactly one place, and GET_STATS
\* counts every write once.
THEOREM ConservationHolds == Spec => []Conservation
  <1>1. Init => CInv
    BY InitCInv
  <1>2. CInv => Conservation
    BY DEF CInv, Placed, Conservation
  <1> QED BY <1>1, <1>2, NextCInv, Inductive, PTL DEF Spec
-----------------------------------------------------------------------------
(* Order.                                                                  *)

\* What is matched and not yet received on a channel with one read is what that
\* read is being filled with.
InFlight(c) ==
  /\ (\A r \in Reads : ReadChannel[r] = c => carry[r] = None) => matched[c] = received[c]
  /\ \A r \in Reads :
       ReadChannel[r] = c /\ carry[r] # None => matched[c] = Append(received[c], carry[r])

\* The inductive invariant of InOrderWithOneRead.
OrderInv == \A c \in Channels : OneRead(c) => InFlight(c)

\* A request that is filled with the packet just matched.
LEMMA MatchOrder ==
  ASSUME IInv, OrderInv, NEW r \in Reads, NEW p \in Packets, read[r] # "filling",
         carry' = [carry EXCEPT ![r] = p],
         matched' = [matched EXCEPT ![ReadChannel[r]] = Append(@, p)],
         received' = received
  PROVE  OrderInv'
  <1> USE ChannelAssumption
  <1> DEFINE c == ReadChannel[r]
  <1>1. /\ c \in Channels
        /\ carry \in [Reads -> Packets \cup {None}]
        /\ carry[r] = None
        /\ matched \in [Channels -> Seq(Packets)]
    BY DEF IInv, TypeOK
  <1>2. ASSUME NEW d \in Channels, OneRead(d), d # c PROVE InFlight(d)'
    <2>1. InFlight(d)
      BY <1>2 DEF OrderInv
    <2>2. \A q \in Reads : ReadChannel[q] = d => carry'[q] = carry[q]
      BY <1>1, <1>2
    <2>3. matched'[d] = matched[d]
      BY <1>1, <1>2
    <2> QED BY <2>1, <2>2, <2>3 DEF InFlight
  <1>3. ASSUME OneRead(c) PROVE InFlight(c)'
    <2>1. \A q \in Reads : ReadChannel[q] = c => q = r
      BY <1>3 DEF OneRead
    <2>2. matched[c] = received[c]
      BY <1>1, <1>3, <2>1 DEF OrderInv, InFlight
    <2>3. matched'[c] = Append(received[c], p) /\ carry'[r] = p /\ p # None
      BY <1>1, <2>2
    <2> HIDE DEF c
    <2> QED BY <1>1, <2>1, <2>3 DEF c, InFlight
  <1>4. \A d \in Channels : OneRead(d)' <=> OneRead(d)
    BY DEF OneRead
  <1> QED BY <1>2, <1>3, <1>4 DEF OrderInv

\* Every step keeps the order of matched and received packets.
LEMMA NextOrder == IInv /\ OrderInv /\ [Next]_vars => OrderInv'
  <1> SUFFICES ASSUME IInv, OrderInv, [Next]_vars PROVE OrderInv'
    OBVIOUS
  <1> USE ChannelAssumption DEF lists, ghosts
  <1>1. ASSUME UNCHANGED <<carry, matched, received>> PROVE OrderInv'
    BY <1>1 DEF OrderInv, OneRead, InFlight
  <1>2. ASSUME NEW p \in Packets, HandToRead(p) PROVE OrderInv'
    <2>1. PICK r \in Parked(PacketChannel[p]) : carry' = [carry EXCEPT ![r] = p]
      BY <1>2 DEF HandToRead
    <2>2. r \in Reads /\ read[r] # "filling" /\ ReadChannel[r] = PacketChannel[p]
      BY DEF Parked
    <2>3. /\ matched' = [matched EXCEPT ![PacketChannel[p]] = Append(@, p)]
          /\ received' = received
      BY <1>2 DEF HandToRead
    <2> QED BY <2>1, <2>2, <2>3, MatchOrder
  <1>3. ASSUME NEW r \in Reads, TakeQueued(r) PROVE OrderInv'
    <2>1. Head(pending[ReadChannel[r]]) \in Packets
      BY <1>3, TakeFromBacklog DEF TakeQueued
    <2> QED BY <1>3, <2>1, MatchOrder DEF TakeQueued
  <1>4. ASSUME NEW r \in Reads, CompleteRead(r) PROVE OrderInv'
    <2> DEFINE c == ReadChannel[r]
    <2>1. /\ carry' = [carry EXCEPT ![r] = None]
          /\ received' = [received EXCEPT ![c] = Append(@, carry[r])]
          /\ matched' = matched
          /\ carry[r] # None
          /\ carry \in [Reads -> Packets \cup {None}]
          /\ received \in [Channels -> Seq(Packets)]
          /\ c \in Channels
      BY <1>4 DEF CompleteRead, IInv, TypeOK
    <2>2. ASSUME NEW d \in Channels, OneRead(d), d # c PROVE InFlight(d)'
      <3>1. InFlight(d)
        BY <2>2 DEF OrderInv
      <3>2. \A q \in Reads : ReadChannel[q] = d => carry'[q] = carry[q]
        BY <2>1, <2>2
      <3>3. received'[d] = received[d]
        BY <2>1, <2>2
      <3> QED BY <2>1, <3>1, <3>2, <3>3 DEF InFlight
    <2>3. ASSUME OneRead(c) PROVE InFlight(c)'
      <3>1. \A q \in Reads : ReadChannel[q] = c => q = r
        BY <2>3 DEF OneRead
      <3>2. matched[c] = Append(received[c], carry[r])
        BY <2>1, <2>3 DEF OrderInv, InFlight
      <3>3. matched'[c] = received'[c] /\ carry'[r] = None
        BY <2>1, <3>2
      <3> QED BY <3>1, <3>3 DEF InFlight
    <2>4. \A d \in Channels : OneRead(d)' <=> OneRead(d)
      BY DEF OneRead
    <2> QED BY <2>2, <2>3, <2>4 DEF OrderInv
  <1>5. ASSUME NEW p \in Packets,
               Write(p) \/ (\E ready \in BOOLEAN : Admit(p, ready)) \/ QueueForStack(p)
                 \/ FailToQueue(p) \/ CompleteWrite(p)
        PROVE  OrderInv'
    BY <1>1, <1>5 DEF Write, Admit, QueueForStack, FailToQueue, CompleteWrite
  <1>6. ASSUME NEW r \in Reads, SendRead(r) \/ ParkRead(r) \/ CancelParked(r) PROVE OrderInv'
    BY <1>1, <1>6 DEF SendRead, ParkRead, CancelParked
  <1>7. ASSUME NEW c \in Channels, PurgeQueue(c) \/ StartQueue(c) PROVE OrderInv'
    BY <1>1, <1>7 DEF PurgeQueue, StartQueue
  <1>8. CASE FreeBacklogs \/ SelfManagedIoCleanup \/ UNCHANGED vars
    BY <1>1, <1>8 DEF FreeBacklogs, SelfManagedIoCleanup, vars
  <1> QED
    BY <1>2, <1>3, <1>4, <1>5, <1>6, <1>7, <1>8 DEF Next, DeliverToStack, TakeOrParkForStack

\* On a channel with one read, as events have, the stack gets the packets in the
\* order in which the lock decided, although the reads complete outside it.
THEOREM InOrder == Spec => []InOrderWithOneRead
  <1>1. Init => OrderInv
    BY DEF Init, OrderInv, InFlight
  <1>2. IInv /\ OrderInv => InOrderWithOneRead
    <2> SUFFICES ASSUME IInv, OrderInv, NEW c \in Channels, OneRead(c)
                 PROVE  IsPrefix(received[c], matched[c])
      BY DEF InOrderWithOneRead
    <2>1. received[c] \in Seq(Packets) /\ carry \in [Reads -> Packets \cup {None}]
      BY DEF IInv, TypeOK
    <2>2. matched[c] = received[c] \/ \E p \in Packets : matched[c] = Append(received[c], p)
      BY <2>1 DEF OrderInv, InFlight
    <2> QED BY <2>1, <2>2, PrefixOfAppend
  <1> QED BY <1>1, <1>2, NextOrder, Inductive, PTL DEF Spec
-----------------------------------------------------------------------------
(* Counters, for GET_STATS (WinVhciProofs).                                *)

PeakInv == \A c \in Channels : count[c] <= peak[c]

\* Every step keeps the peak above the count.
LEMMA NextPeak == IInv /\ PeakInv /\ [Next]_vars => PeakInv'
  <1> SUFFICES ASSUME IInv, PeakInv, [Next]_vars PROVE PeakInv'
    OBVIOUS
  <1> USE ChannelAssumption DEF lists, ghosts, stats
  <1>t. count \in [Channels -> Nat] /\ peak \in [Channels -> Nat]
    BY DEF IInv, TypeOK
  <1>1. ASSUME UNCHANGED peak, \A c \in Channels : count'[c] <= count[c], count' \in [Channels -> Nat]
        PROVE  PeakInv'
    BY <1>t, <1>1 DEF PeakInv
  <1>2. ASSUME UNCHANGED <<count, peak>> PROVE PeakInv'
    BY <1>2 DEF PeakInv
  <1>3. ASSUME NEW p \in Packets, QueueForStack(p) PROVE PeakInv'
    <2> DEFINE c == PacketChannel[p]
    <2>1. /\ count' = [count EXCEPT ![c] = @ + 1]
          /\ peak' = [peak EXCEPT ![c] = IF count[c] + 1 > @ THEN count[c] + 1 ELSE @]
      BY <1>3 DEF QueueForStack
    <2>2. c \in Channels
      OBVIOUS
    <2> HIDE DEF c
    <2>3. ASSUME NEW d \in Channels PROVE count'[d] <= peak'[d]
      BY <1>t, <2>1, <2>2 DEF PeakInv
    <2> QED BY <2>3 DEF PeakInv
  <1>4. ASSUME NEW r \in Reads, TakeQueued(r) PROVE PeakInv'
    <2> DEFINE c == ReadChannel[r]
    <2>1. c \in Channels /\ count[c] - 1 \in Nat
      BY <1>4, TakeFromBacklog DEF TakeQueued
    <2>2. count' = [count EXCEPT ![c] = @ - 1] /\ UNCHANGED peak
      BY <1>4 DEF TakeQueued
    <2> HIDE DEF c
    <2>3. count' \in [Channels -> Nat] /\ \A d \in Channels : count'[d] <= count[d]
      BY <1>t, <2>1, <2>2
    <2> QED BY <1>1, <2>2, <2>3
  <1>5. CASE FreeBacklogs \/ SelfManagedIoCleanup
    <2>1. count' = [c \in Channels |-> 0] /\ UNCHANGED peak
      BY <1>5 DEF FreeBacklogs, SelfManagedIoCleanup
    <2> QED BY <1>t, <1>1, <2>1
  <1>6. ASSUME NEW p \in Packets,
               \/ Write(p) \/ (\E ready \in BOOLEAN : Admit(p, ready)) \/ HandToRead(p)
               \/ FailToQueue(p) \/ CompleteWrite(p)
        PROVE  PeakInv'
    BY <1>2, <1>6 DEF Write, Admit, HandToRead, FailToQueue, CompleteWrite
  <1>7. ASSUME NEW r \in Reads, SendRead(r) \/ ParkRead(r) \/ CompleteRead(r) \/ CancelParked(r)
        PROVE  PeakInv'
    BY <1>2, <1>7 DEF SendRead, ParkRead, CompleteRead, CancelParked
  <1>8. ASSUME NEW c \in Channels, PurgeQueue(c) \/ StartQueue(c) PROVE PeakInv'
    BY <1>2, <1>8 DEF PurgeQueue, StartQueue
  <1>9. CASE UNCHANGED vars
    BY <1>2, <1>9 DEF vars
  <1> QED
    BY <1>3, <1>4, <1>5, <1>6, <1>7, <1>8, <1>9 DEF Next, DeliverToStack, TakeOrParkForStack

\* The three counters add up to the writes that have been decided on.
LEMMA WritesAddUp ==
  ASSUME IInv, CInv
  PROVE  LET D == {p \in Packets : write[p] \in {"hand", "complete", "done"}} IN
         /\ IsFiniteSet(D)
         /\ writesTotal + writesNoRadio + allocDrops = Cardinality(D)
  <1> DEFINE D == {p \in Packets : write[p] \in {"hand", "complete", "done"}}
             A == {p \in Packets : Accepted(p)}
             B == {p \in Packets : result[p] = "not_ready"}
             C == {p \in Packets : result[p] = "no_memory"}
  <1>1. D = (A \cup B) \cup C /\ A \cap B = {} /\ (A \cup B) \cap C = {}
    BY DEF IInv, TypeOK, CInv, Decided, Accepted, WriteStates, Results
  <1>2. IsFiniteSet(A) /\ IsFiniteSet(B) /\ IsFiniteSet(C)
    BY DEF CInv, Countable
  <1>3. /\ writesTotal = Cardinality(A)
        /\ writesNoRadio = Cardinality(B)
        /\ allocDrops = Cardinality(C)
    BY DEF CInv, CountedOnce
  <1> HIDE DEF A, B, C, D
  <1>4. IsFiniteSet(A \cup B) /\ Cardinality(A \cup B) = Cardinality(A) + Cardinality(B) - Cardinality({})
    BY <1>1, <1>2, FS_Union
  <1>5. IsFiniteSet(D) /\ Cardinality(D) = Cardinality(A \cup B) + Cardinality(C) - Cardinality({})
    BY <1>1, <1>2, <1>4, FS_Union
  <1>6. /\ Cardinality({}) = 0
        /\ Cardinality(A) \in Nat /\ Cardinality(B) \in Nat /\ Cardinality(C) \in Nat
    BY <1>2, FS_EmptySet, FS_CardinalityType
  <1>7. IsFiniteSet(D) /\ writesTotal + writesNoRadio + allocDrops = Cardinality(D)
    BY <1>3, <1>4, <1>5, <1>6
  <1> QED BY <1>7 DEF D
=============================================================================

-------------------------- MODULE PacketRulesProofs --------------------------
(***************************************************************************)
(* PacketRules, for every set of lengths and every word size.  The         *)
(* invariant says what the two dispatches can have made of a packet and a  *)
(* read: each is as its own check left it, or they have met, and then both *)
(* had passed their checks.  The rest is arithmetic about two requests     *)
(* that passed.                                                            *)
(***************************************************************************)
EXTENDS PacketRules, TLAPS

\* The three kinds of behaviour.
ToTheStack == packet \in ClientWrites /\ read \in StackReads
ToTheClient == packet \in StackWrites /\ read \in ClientReads
Alone == packet \in ConfigRequests \cup ControlRequests /\ read = NoRead

\* A packet and a read that passed their checks, for the same queue.
Met == PacketFate = "queued" /\ ReadAnswer = "parked" /\ PacketQueue = ReadQueue

Outcome ==
  \/ fate \in {"sent", PacketFate} /\ answer \in {"sent", ReadAnswer}
  \/ Met /\ Fits /\ fate = "delivered" /\ answer = "success"
  \/ Met /\ ~Fits /\ fate \in {"lost", "buffer_too_small"} /\ answer = "buffer_too_small"

IInv == (ToTheStack \/ ToTheClient \/ Alone) /\ Outcome

\* The verdicts are functions of the two requests, which do not change.
LEMMA VerdictsStay ==
  ASSUME UNCHANGED <<packet, read>>
  PROVE  /\ PacketFate' = PacketFate /\ ReadAnswer' = ReadAnswer
         /\ (PacketQueue = ReadQueue)' = (PacketQueue = ReadQueue) /\ Fits' = Fits
<1>1. packet' = packet /\ read' = read
  OBVIOUS
<1>2. BodyLength' = BodyLength /\ Capacity' = Capacity
  BY <1>1 DEF BodyLength, Capacity, Minus
<1>3. WriteFate' = WriteFate
  BY <1>1, <1>2 DEF WriteFate, ControlFate, SizeLimit
<1>4. WriteHciFate' = WriteHciFate
  BY <1>1 DEF WriteHciFate, Minus, HasInput
<1>5. ConfigFate' = ConfigFate /\ StatsFate' = StatsFate
  BY <1>1 DEF ConfigFate, StatsFate, HasInput, HasOutput
<1>6. PacketFate' = PacketFate
  BY <1>1, <1>3, <1>4, <1>5 DEF PacketFate
<1>7. ReadAnswer' = ReadAnswer
  BY <1>1 DEF ReadAnswer, ReadHciAnswer, HasInput, HasOutput
<1>8. PacketQueue' = PacketQueue /\ ReadQueue' = ReadQueue
  BY <1>1, <1>2 DEF PacketQueue, ReadQueue, WantsData
<1>9. Fits' = Fits
  BY <1>1, <1>2 DEF Fits
<1> QED
  BY <1>6, <1>7, <1>8, <1>9

\* At first packet and read are as their own checks left them.
LEMMA InvariantInit == Init => IInv
BY DEF Init, IInv, ToTheStack, ToTheClient, Alone, Outcome

\* A meeting keeps the invariant.
LEMMA InvariantStep == IInv /\ [Next]_vars => IInv'
<1> SUFFICES ASSUME IInv, [Next]_vars PROVE IInv'
  OBVIOUS
<1>1. packet' = packet /\ read' = read
  BY DEF Next, DispatchPacket, DispatchRead, vars
<1>2. PacketFate' = PacketFate /\ ReadAnswer' = ReadAnswer /\ Met' = Met /\ Fits' = Fits
  BY <1>1, VerdictsStay DEF Met
<1>3. (ToTheStack \/ ToTheClient \/ Alone)'
  BY <1>1 DEF IInv, ToTheStack, ToTheClient, Alone, ClientWrites, StackReads, StackWrites,
              ClientReads, ConfigRequests, ControlRequests, NoRead, H4Types, Shapes
<1>4. Outcome'
  <2>1. CASE DispatchPacket
    BY <2>1, <1>2 DEF IInv, Outcome, Met, DispatchPacket
  <2>2. CASE DispatchRead
    BY <2>2, <1>2 DEF IInv, Outcome, Met, DispatchRead
  <2>3. CASE UNCHANGED vars
    BY <2>3, <1>2 DEF IInv, Outcome, vars
  <2> QED
    BY <2>1, <2>2, <2>3 DEF Next
<1> QED
  BY <1>3, <1>4 DEF IInv

\* The invariant holds in every behaviour.
LEMMA Invariant == Spec => []IInv
BY InvariantInit, InvariantStep, PTL DEF Spec
-----------------------------------------------------------------------------
(* Two requests that passed their checks.                                  *)

\* What WriteFile accepts has a body, within the limit of its type.
LEMMA AcceptedWrite ==
  ASSUME ToTheStack, PacketFate = "queued"
  PROVE  /\ packet.type \in {EVENT, ACL}
         /\ packet.Length \in Nat /\ packet.Length >= 2
         /\ BodyLength = packet.Length - 1
         /\ BodyLength <= SizeLimit
<1>1. packet.via = "WriteFile" /\ packet.Length \in Nat
  BY RulesAssumption DEF ToTheStack, ClientWrites
<1>2. ControlFate # "queued"
  BY DEF ControlFate
<1> QED
  BY <1>1, <1>2 DEF PacketFate, WriteFate, BodyLength

\* What WRITE_HCI accepts has a body within the limits, inside its buffer.
LEMMA AcceptedWriteHci ==
  ASSUME ToTheClient, PacketFate = "queued"
  PROVE  /\ packet.shape \notin {"user_mode", "no_input"}
         /\ packet.DataLen \in Nat /\ packet.InputBufferLength \in Nat
         /\ WINVHCI_HCI_CONTEXT_HEADER_SIZE + packet.DataLen <= packet.InputBufferLength
         /\ packet.DataLen <= WINVHCI_MAX_BODY
         /\ BodyLength = packet.DataLen
<1>1. packet.via = "WRITE_HCI" /\ packet.DataLen \in Nat /\ packet.InputBufferLength \in Nat
  BY RulesAssumption DEF ToTheClient, StackWrites
<1>2. WriteHciFate = "queued"
  BY <1>1 DEF PacketFate
<1>3. BodyLength = packet.DataLen
  BY <1>1 DEF BodyLength
<1> QED
  BY <1>1, <1>2, <1>3 DEF WriteHciFate, HasInput, Minus, WINVHCI_HCI_CONTEXT_HEADER_SIZE,
                         WINVHCI_MAX_BODY, WINVHCI_MAX_ACL_TRANSFER_IN

\* A READ_HCI that passed its checks has room for the header, and its capacity does not wrap.
LEMMA ParkedReadHci ==
  ASSUME ToTheStack, ReadAnswer = "parked"
  PROVE  /\ read.shape = "plain"
         /\ read.InputBufferLength >= WINVHCI_READ_TYPE_WORD_SIZE
         /\ read.OutputBufferLength \in Nat
         /\ read.OutputBufferLength >= WINVHCI_HCI_CONTEXT_HEADER_SIZE
         /\ Capacity = read.OutputBufferLength - WINVHCI_HCI_CONTEXT_HEADER_SIZE
<1>1. /\ read.via = "READ_HCI" /\ read.shape \in Shapes
      /\ read.InputBufferLength \in Nat /\ read.OutputBufferLength \in Nat
  BY RulesAssumption DEF ToTheStack, StackReads
<1>2. ReadHciAnswer = "parked"
  BY <1>1 DEF ReadAnswer
<1>3. /\ read.shape = "plain"
      /\ read.InputBufferLength >= WINVHCI_READ_TYPE_WORD_SIZE
      /\ read.OutputBufferLength >= WINVHCI_HCI_CONTEXT_HEADER_SIZE
  BY <1>1, <1>2 DEF ReadHciAnswer, HasInput, HasOutput, Shapes, WINVHCI_READ_TYPE_WORD_SIZE,
                    WINVHCI_HCI_CONTEXT_HEADER_SIZE
<1> QED
  BY <1>1, <1>3 DEF Capacity, Minus, WINVHCI_HCI_CONTEXT_HEADER_SIZE

\* A ReadFile that passed its checks has room for the largest packet.
LEMMA ParkedReadFile ==
  ASSUME ToTheClient, ReadAnswer = "parked"
  PROVE  read.via = "ReadFile" /\ read.Length \in Nat /\ read.Length >= WINVHCI_MAX_H4_PACKET
<1>1. read.via = "ReadFile" /\ read.Length \in Nat
  BY RulesAssumption DEF ToTheClient, ClientReads
<1> QED
  BY <1>1 DEF ReadAnswer, WINVHCI_MAX_H4_PACKET, WINVHCI_MAX_BODY, WINVHCI_MAX_ACL_TRANSFER_IN

\* A request of its own is never queued.
LEMMA AloneNotQueued ==
  ASSUME Alone
  PROVE  /\ PacketFate \notin {"queued", "lost", "delivered"}
         /\ read.via = "none"
<1>1. packet.via \in {"GET_VERSION", "SET_VERSION", "QUERY_CAPABILITIES", "unknown",
                      "GET_STATS", "unknown_control"}
  BY DEF Alone, ConfigRequests, ControlRequests
<1> QED
  BY <1>1 DEF Alone, NoRead, PacketFate, ConfigFate, StatsFate

\* When a packet and a read have met, the one fits the other.
LEMMA MetFits ==
  ASSUME ToTheStack \/ ToTheClient, RoomyRead, Met
  PROVE  Fits
<1>1. CASE ToTheStack
  <2>1. read.via = "READ_HCI" /\ packet.via = "WriteFile"
    BY <1>1 DEF ToTheStack, StackReads, ClientWrites
  <2>2. BodyLength <= SizeLimit /\ packet.type \in {EVENT, ACL} /\ BodyLength \in Nat
    BY <1>1, AcceptedWrite DEF Met
  <2>3. Capacity \in Nat
    BY <1>1, ParkedReadHci DEF Met, WINVHCI_HCI_CONTEXT_HEADER_SIZE
  <2>4. packet.type = ACL <=> WantsData
    BY <2>1, <2>2 DEF Met, PacketQueue, ReadQueue, ACL, EVENT
  <2>5. BodyLength <= Capacity
    BY <2>1, <2>2, <2>3, <2>4 DEF RoomyRead, WantsData, SizeLimit, MaxAclTransferInSize, ACL, EVENT,
                              WINVHCI_MAX_ACL_TRANSFER_IN, WINVHCI_MAX_EVENT_SIZE
  <2> QED
    BY <2>1, <2>5 DEF Fits
<1>2. CASE ToTheClient
  <2>1. read.via = "ReadFile" /\ read.Length \in Nat /\ read.Length >= WINVHCI_MAX_H4_PACKET
    BY <1>2, ParkedReadFile DEF Met
  <2>2. BodyLength \in Nat /\ BodyLength <= WINVHCI_MAX_BODY
    BY <1>2, AcceptedWriteHci DEF Met
  <2> QED
    BY <2>1, <2>2 DEF Fits, WINVHCI_MAX_H4_PACKET, WINVHCI_MAX_BODY, WINVHCI_MAX_ACL_TRANSFER_IN
<1> QED
  BY <1>1, <1>2
-----------------------------------------------------------------------------
\* For every length of a packet, of a read and of their buffers: what the driver
\* accepts fits the read of the stack or of the client that it meets.
THEOREM AcceptedAlwaysFits == Spec => []AcceptedFits
<1>1. IInv => AcceptedFits
  <2> SUFFICES ASSUME IInv, RoomyRead, ReadAnswer = "parked"
               PROVE  fate \notin {"lost", "buffer_too_small"} /\ answer # "buffer_too_small"
    BY DEF AcceptedFits
  <2>1. ~Alone
    BY AloneNotQueued DEF RoomyRead
  <2>2. Met => Fits
    BY <2>1, MetFits DEF IInv
  <2>3. PacketFate \notin {"lost", "buffer_too_small"}
    <3>1. packet.via \in {"WriteFile", "WRITE_HCI"}
      BY <2>1 DEF IInv, ToTheStack, ToTheClient, ClientWrites, StackWrites
    <3> QED
      BY <3>1 DEF PacketFate, WriteFate, ControlFate, WriteHciFate
  <2> QED
    BY <2>2, <2>3 DEF IInv, Outcome
<1> QED
  BY <1>1, Invariant, PTL

\* For every length and every word size: no byte outside a request's buffers is
\* read or written, also where the unsigned subtraction could wrap.
THEOREM AlwaysInBounds == Spec => []InBounds
<1>1. IInv => InBounds
  <2> SUFFICES ASSUME IInv PROVE InBounds
    OBVIOUS
  <2>1. CASE ToTheStack
    <3>1. packet.via = "WriteFile" /\ read.via = "READ_HCI"
      BY <2>1 DEF ToTheStack, ClientWrites, StackReads
    <3>2. answer \in {"parked", "success"} => ReadAnswer = "parked"
      BY <3>1 DEF IInv, Outcome, Met, ReadAnswer, ReadHciAnswer
    <3>3. answer = "success" => Met /\ Fits
      BY <3>1 DEF IInv, Outcome, ReadAnswer, ReadHciAnswer
    <3>4. ReadAnswer = "parked" =>
            /\ InputRoom(read) >= WINVHCI_READ_TYPE_WORD_SIZE
            /\ OutputRoom(read) = read.OutputBufferLength
            /\ OutputRoom(read) >= WINVHCI_HCI_CONTEXT_HEADER_SIZE
      BY <2>1, ParkedReadHci DEF InputRoom, OutputRoom
    <3>5. Met /\ Fits => WINVHCI_HCI_CONTEXT_HEADER_SIZE + BodyLength <= OutputRoom(read)
      <4> SUFFICES ASSUME Met, Fits
                   PROVE  WINVHCI_HCI_CONTEXT_HEADER_SIZE + BodyLength <= OutputRoom(read)
        OBVIOUS
      <4>1. BodyLength \in Nat
        BY <2>1, AcceptedWrite DEF Met
      <4>2. /\ read.OutputBufferLength \in Nat
            /\ Capacity = read.OutputBufferLength - WINVHCI_HCI_CONTEXT_HEADER_SIZE
        BY <2>1, ParkedReadHci DEF Met
      <4>3. BodyLength <= Capacity
        BY <3>1 DEF Fits
      <4> QED
        BY <3>4, <4>1, <4>2, <4>3 DEF Met, WINVHCI_HCI_CONTEXT_HEADER_SIZE
    <3>6. /\ WINVHCI_READ_TYPE_WORD_SIZE \in Nat /\ WINVHCI_HCI_CONTEXT_HEADER_SIZE \in Nat
      BY DEF WINVHCI_READ_TYPE_WORD_SIZE, WINVHCI_HCI_CONTEXT_HEADER_SIZE
    <3> QED
      BY <3>1, <3>2, <3>3, <3>4, <3>5, <3>6 DEF InBounds
  <2>2. CASE ToTheClient
    <3>1. packet.via = "WRITE_HCI" /\ read.via = "ReadFile"
      BY <2>2 DEF ToTheClient, StackWrites, ClientReads
    <3>2. fate \in {"queued", "delivered", "lost"} => PacketFate = "queued"
      BY <3>1 DEF IInv, Outcome, Met, PacketFate, WriteHciFate
    <3>3. PacketFate = "queued" =>
            WINVHCI_HCI_CONTEXT_HEADER_SIZE + packet.DataLen <= InputRoom(packet)
      BY <2>2, AcceptedWriteHci DEF InputRoom
    <3>4. answer = "success" => BodyLength + 1 <= read.Length
      BY <3>1 DEF IInv, Outcome, Fits, ReadAnswer
    <3> QED
      BY <3>1, <3>2, <3>3, <3>4 DEF InBounds
  <2>3. CASE Alone
    <3>1. packet.via \in {"GET_VERSION", "SET_VERSION", "QUERY_CAPABILITIES", "unknown",
                          "GET_STATS", "unknown_control"} /\ read.via = "none"
      BY <2>3 DEF Alone, ConfigRequests, ControlRequests, NoRead
    <3>2. fate = "success" => PacketFate = "success"
      BY DEF IInv, Outcome
    <3>3. packet.via \in {"GET_STATS", "unknown_control"} =>
            packet.OutputBufferLength \in Nat
      BY <2>3, RulesAssumption DEF Alone, ConfigRequests, ControlRequests
    <3>4. packet.via = "GET_STATS" /\ PacketFate = "success" =>
            WINVHCI_STATS_SIZE <= packet.OutputBufferLength
      BY <3>3 DEF PacketFate, StatsFate, WINVHCI_STATS_SIZE
    <3>5. packet.via \notin {"GET_STATS", "unknown_control"} =>
            packet.InputBufferLength \in Nat /\ packet.OutputBufferLength \in Nat
      BY <2>3, RulesAssumption DEF Alone, ConfigRequests, ControlRequests
    <3>6. packet.via = "SET_VERSION" /\ PacketFate = "success" => VersionSize <= InputRoom(packet)
      BY <3>5, RulesAssumption DEF PacketFate, ConfigFate, InputRoom, HasInput
    <3>7. packet.via = "GET_VERSION" /\ PacketFate = "success" => VersionSize <= OutputRoom(packet)
      BY <3>5, RulesAssumption DEF PacketFate, ConfigFate, OutputRoom, HasOutput
    <3>8. packet.via = "QUERY_CAPABILITIES" /\ PacketFate = "success" =>
            CapabilitiesSize <= OutputRoom(packet)
      BY <3>5, RulesAssumption DEF PacketFate, ConfigFate, OutputRoom, HasOutput
    <3> QED
      BY <3>1, <3>2, <3>4, <3>6, <3>7, <3>8 DEF InBounds
  <2> QED
    BY <2>1, <2>2, <2>3 DEF IInv
<1> QED
  BY <1>1, Invariant, PTL
=============================================================================

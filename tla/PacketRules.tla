----------------------------- MODULE PacketRules -----------------------------
(***************************************************************************)
(* What winvhci checks of a request before it acts on it: callers, buffers,*)
(* sizes, H4 types and directions, at their boundaries.  The rendezvous    *)
(* modules leave these out; they may, because a packet that passes the     *)
(* checks fits the read it is given to, which is what is shown here.       *)
(*                                                                         *)
(* A behaviour is the encounter of one packet and one read of the same     *)
(* direction, in either order, with a radio up and a client there; or one  *)
(* request that is answered on the spot: the stack's configuration         *)
(* requests, and the client's GET_STATS.                                   *)
(***************************************************************************)
EXTENDS Naturals

CONSTANTS
  WriteLengths,   \* lengths of a client's WriteFile
  Opcodes,        \* opcode bytes of a control packet
  InputLengths,   \* InputBufferLength of a WRITE_HCI
  DataLens,       \* the DataLen it claims
  TypeLengths,    \* InputBufferLength of a READ_HCI
  OutputLengths,  \* OutputBufferLength of a READ_HCI
  RequestedTypes, \* the type word of a READ_HCI
  ReadLengths,    \* lengths of a client's ReadFile
  ConfigLengths,  \* buffer lengths of the other requests
  VersionSize, CapabilitiesSize, \* sizes of the BTHX DDI's two structures
  WordSize        \* bound: 2^w for ULONG, above every length (TLC has no 2^32)

ASSUME RulesAssumption ==
  /\ WriteLengths \cup InputLengths \cup DataLens \cup TypeLengths \cup OutputLengths
       \cup ReadLengths \cup ConfigLengths \subseteq 0..(WordSize - 1)
  /\ Opcodes \subseteq 0..255
  /\ WordSize \in Nat /\ WordSize > 255
  /\ VersionSize \in Nat /\ CapabilitiesSize \in Nat

WINVHCI_MAX_ACL_TRANSFER_IN == 1021
WINVHCI_MAX_EVENT_SIZE == 257
WINVHCI_HCI_CONTEXT_HEADER_SIZE == 5
WINVHCI_READ_TYPE_WORD_SIZE == 4
WINVHCI_MAX_BODY == 4 + WINVHCI_MAX_ACL_TRANSFER_IN
WINVHCI_MAX_H4_PACKET == 1 + WINVHCI_MAX_BODY

\* sizeof(WINVHCI_STATS): thirteen ULONGs.
WINVHCI_STATS_SIZE == 13 * 4

\* H4 type bytes; the BTHX DDI uses the same values.  0 is no type at all.
COMMAND == 1
ACL == 2
SCO == 3
EVENT == 4
ISO == 5
VENDOR == 255
H4Types == {0, COMMAND, ACL, SCO, EVENT, ISO, VENDOR}

VARIABLES
  packet,  \* a WriteFile of the client, a WRITE_HCI of the stack, or a request of its own
  read,    \* a READ_HCI of the stack or a ReadFile of the client; none beside a request
  fate,    \* what has become of the packet, or of the request
  answer   \* what has become of the read

vars == <<packet, read, fate, answer>>

\* Who sent a BTHX request, and where its buffers are: as the stack sends it, from
\* user mode, with a NULL pointer, or with the two not in one allocation.
Shapes == {"plain", "user_mode", "no_input", "no_output", "apart"}

\* The opcode is the body's first byte, which matters for control packets.
ClientWrites ==
  [via : {"WriteFile"}, Length : WriteLengths, type : H4Types \ {VENDOR}, opcode : {0}]
    \cup [via : {"WriteFile"}, Length : WriteLengths, type : {VENDOR}, opcode : Opcodes]
StackWrites ==
  [via : {"WRITE_HCI"}, shape : Shapes, InputBufferLength : InputLengths, DataLen : DataLens]
StackReads ==
  [via : {"READ_HCI"}, shape : Shapes, InputBufferLength : TypeLengths,
   OutputBufferLength : OutputLengths, requested : RequestedTypes]
ClientReads == [via : {"ReadFile"}, Length : ReadLengths]
ConfigRequests ==
  [via : {"GET_VERSION", "SET_VERSION", "QUERY_CAPABILITIES", "unknown"}, shape : Shapes,
   InputBufferLength : ConfigLengths, OutputBufferLength : ConfigLengths]
ControlRequests == [via : {"GET_STATS", "unknown_control"}, OutputBufferLength : ConfigLengths]
NoRead == [via |-> "none"]

Init ==
  /\ \/ packet \in ClientWrites /\ read \in StackReads
     \/ packet \in StackWrites /\ read \in ClientReads
     \/ packet \in ConfigRequests \cup ControlRequests /\ read = NoRead
  /\ fate = "sent"
  /\ answer = "sent"
-----------------------------------------------------------------------------
(* Which channel, and how long.                                            *)

\* Unsigned subtraction: it wraps.
Minus(a, b) == IF a >= b THEN a - b ELSE (a + WordSize) - b

\* The packet's H4 type selects a read queue of the stack.
PacketQueue ==
  IF packet.via = "WRITE_HCI" THEN "UserReadQueue"
  ELSE IF packet.type = ACL THEN "ReadDataQueue" ELSE "ReadEventQueue"

\* The room a READ_HCI has for a packet.
Capacity == Minus(read.OutputBufferLength, WINVHCI_HCI_CONTEXT_HEADER_SIZE)

\* The requested type selects the queue, the capacity if it is neither of the two
\* there are.
WantsData ==
  \/ read.requested = ACL
  \/ read.requested # EVENT /\ Capacity >= WINVHCI_MAX_ACL_TRANSFER_IN
ReadQueue ==
  IF read.via = "ReadFile" THEN "UserReadQueue"
  ELSE IF WantsData THEN "ReadDataQueue" ELSE "ReadEventQueue"

\* The packet without its H4 type byte.
BodyLength == IF packet.via = "WriteFile" THEN packet.Length - 1 ELSE packet.DataLen

\* The last check, when the two have met.
Fits == IF read.via = "READ_HCI" THEN BodyLength <= Capacity ELSE BodyLength + 1 <= read.Length
-----------------------------------------------------------------------------
(* The checks.                                                             *)

\* WinVhciHandleControl: one body byte, reserved bits 2-5 clear, quirk bits 6-7
\* not asked for.
ControlFate ==
  IF BodyLength # 1 \/ (packet.opcode \div 4) % 16 # 0 THEN "invalid_parameter"
  ELSE IF packet.opcode \div 64 # 0 THEN "not_supported"
  ELSE "control"

\* Mutant of SizeLimit: an event may be as long as an ACL packet.
OneLimit == WINVHCI_MAX_ACL_TRANSFER_IN

SizeLimit == IF packet.type = ACL THEN WINVHCI_MAX_ACL_TRANSFER_IN ELSE WINVHCI_MAX_EVENT_SIZE

\* WinVhciDispatchWrite up to the admission check; "queued" passes on.
WriteFate ==
  IF packet.Length < 2 \/ packet.Length > WINVHCI_MAX_H4_PACKET THEN "invalid_parameter"
  ELSE IF packet.type = VENDOR THEN ControlFate
  ELSE IF packet.type \in {SCO, ISO} THEN "not_supported"
  ELSE IF packet.type \in {EVENT, ACL} /\ BodyLength <= SizeLimit THEN "queued"
  ELSE "invalid_parameter"

\* The pointers a BTHX request gives the driver.
HasInput(request) == request.shape # "no_input"
HasOutput(request) == request.shape # "no_output"

\* Mutant of WriteHciFate: the buffer is not held to its header first, so the
\* subtraction wraps.
WriteHciUnguarded ==
  IF packet.shape = "user_mode" THEN "access_denied"
  ELSE IF \/ ~HasInput(packet)
          \/ packet.DataLen > Minus(packet.InputBufferLength, WINVHCI_HCI_CONTEXT_HEADER_SIZE)
          \/ packet.DataLen > WINVHCI_MAX_BODY
       THEN "invalid_parameter"
  ELSE "queued"

\* The WRITE_HCI case of WinVhciBthxDispatch.
WriteHciFate ==
  IF packet.shape = "user_mode" THEN "access_denied"
  ELSE IF \/ ~HasInput(packet) \/ packet.InputBufferLength < WINVHCI_HCI_CONTEXT_HEADER_SIZE
          \/ packet.DataLen > Minus(packet.InputBufferLength, WINVHCI_HCI_CONTEXT_HEADER_SIZE)
          \/ packet.DataLen > WINVHCI_MAX_BODY
       THEN "invalid_parameter"
  ELSE "queued"

\* The configuration requests: fixed answers, but for the version that is stored.
ConfigFate ==
  IF packet.shape = "user_mode" THEN "access_denied"
  ELSE IF packet.via = "GET_VERSION"
    THEN IF HasOutput(packet) /\ packet.OutputBufferLength >= VersionSize
         THEN "success" ELSE "buffer_too_small"
  ELSE IF packet.via = "SET_VERSION"
    THEN IF HasInput(packet) /\ packet.InputBufferLength >= VersionSize
         THEN "success" ELSE "invalid_parameter"
  ELSE IF packet.via = "QUERY_CAPABILITIES"
    THEN IF HasOutput(packet) /\ packet.OutputBufferLength >= CapabilitiesSize
         THEN "success" ELSE "buffer_too_small"
  ELSE "invalid_device_request"

\* What QUERY_CAPABILITIES promises: the stack sizes its ACL reads by it.
MaxAclTransferInSize == WINVHCI_MAX_ACL_TRANSFER_IN

\* WinVhciEvtIoDeviceControl, on the client's side.
StatsFate ==
  IF packet.via # "GET_STATS" THEN "invalid_device_request"
  ELSE IF packet.OutputBufferLength < WINVHCI_STATS_SIZE THEN "buffer_too_small"
  ELSE "success"

PacketFate ==
  IF packet.via = "WriteFile" THEN WriteFate
  ELSE IF packet.via = "WRITE_HCI" THEN WriteHciFate
  ELSE IF packet.via \in {"GET_STATS", "unknown_control"} THEN StatsFate
  ELSE ConfigFate

\* The READ_HCI case of WinVhciBthxDispatch.
ReadHciAnswer ==
  IF read.shape = "user_mode" THEN "access_denied"
  ELSE IF \/ ~HasInput(read) \/ read.InputBufferLength < WINVHCI_READ_TYPE_WORD_SIZE
          \/ ~HasOutput(read) \/ read.OutputBufferLength < WINVHCI_HCI_CONTEXT_HEADER_SIZE
       THEN "invalid_parameter"
  ELSE IF read.shape = "apart" THEN "invalid_device_request"
  ELSE "parked"

\* ... and the head of WinVhciEvtIoRead.
ReadAnswer ==
  IF read.via = "READ_HCI" THEN ReadHciAnswer
  ELSE IF read.Length < WINVHCI_MAX_H4_PACKET THEN "buffer_too_small"
  ELSE "parked"
-----------------------------------------------------------------------------
\* The packet is checked, and given to the read if that one waits for it.  A
\* client whose write is handed over is told how the read completed; the stack
\* is not.
DispatchPacket ==
  /\ fate = "sent"
  /\ IF PacketFate = "queued" /\ answer = "parked" /\ PacketQueue = ReadQueue
     THEN /\ answer' = IF Fits THEN "success" ELSE "buffer_too_small"
          /\ fate' = IF Fits THEN "delivered"
                     ELSE IF packet.via = "WriteFile" THEN "buffer_too_small" ELSE "lost"
     ELSE /\ fate' = PacketFate
          /\ UNCHANGED answer
  /\ UNCHANGED <<packet, read>>

\* The read is checked, and takes the packet if that one is queued for it; a
\* packet that does not fit has left the list by then and is freed.
DispatchRead ==
  /\ answer = "sent" /\ read # NoRead
  /\ IF ReadAnswer = "parked" /\ fate = "queued" /\ PacketQueue = ReadQueue
     THEN /\ answer' = IF Fits THEN "success" ELSE "buffer_too_small"
          /\ fate' = IF Fits THEN "delivered" ELSE "lost"
     ELSE /\ answer' = ReadAnswer
          /\ UNCHANGED fate
  /\ UNCHANGED <<packet, read>>

Next == DispatchPacket \/ DispatchRead

Spec == Init /\ [][Next]_vars
-----------------------------------------------------------------------------
(* Properties.                                                             *)

\* The reads of the Bluetooth stack, as measured (fdo.c:571), and reads of an
\* unknown type with room for an event.
RoomyRead ==
  \/ read.via = "ReadFile"
  \/ /\ read.via = "READ_HCI"
     /\ \/ read.requested = EVENT /\ Capacity = WINVHCI_MAX_EVENT_SIZE
        \/ read.requested = ACL /\ Capacity = MaxAclTransferInSize
        \/ read.requested \notin {EVENT, ACL} /\ Capacity >= WINVHCI_MAX_EVENT_SIZE

\* What the driver accepts fits the read it meets, in both directions and in
\* either order: no read is failed for a packet's size, no packet accepted and
\* then thrown away (the two defects told of at user.c:566 and fdo.c:496).
AcceptedFits ==
  RoomyRead /\ ReadAnswer = "parked" =>
    fate \notin {"lost", "buffer_too_small"} /\ answer # "buffer_too_small"

\* The bytes a request lets the driver touch: none of a user-mode caller's or of a
\* NULL pointer, and none of a READ_HCI's context that is not where it is measured
\* to be.
InputRoom(request) ==
  IF request.shape \in {"user_mode", "no_input"} THEN 0 ELSE request.InputBufferLength
OutputRoom(request) ==
  IF request.shape \in {"user_mode", "no_output"} \/ (request.via = "READ_HCI" /\ request.shape = "apart")
  THEN 0 ELSE request.OutputBufferLength

\* Every byte the driver reads or writes through a request's pointers is in the
\* request's buffers, whoever sent it, whatever it claims of its data and in
\* whatever order packet and read came (fdo.c:378, fdo.c:501, fdo.c:562, user.c:727).
InBounds ==
  /\ packet.via = "WRITE_HCI" /\ fate \in {"queued", "delivered", "lost"} =>
       WINVHCI_HCI_CONTEXT_HEADER_SIZE + packet.DataLen <= InputRoom(packet)
  /\ packet.via = "SET_VERSION" /\ fate = "success" => VersionSize <= InputRoom(packet)
  /\ packet.via = "GET_VERSION" /\ fate = "success" => VersionSize <= OutputRoom(packet)
  /\ packet.via = "QUERY_CAPABILITIES" /\ fate = "success" => CapabilitiesSize <= OutputRoom(packet)
  /\ packet.via = "GET_STATS" /\ fate = "success" => WINVHCI_STATS_SIZE <= packet.OutputBufferLength
  /\ read.via = "READ_HCI" /\ answer \in {"parked", "success"} =>
       /\ WINVHCI_READ_TYPE_WORD_SIZE <= InputRoom(read)
       /\ WINVHCI_HCI_CONTEXT_HEADER_SIZE <= OutputRoom(read)
  /\ read.via = "READ_HCI" /\ answer = "success" =>
       WINVHCI_HCI_CONTEXT_HEADER_SIZE + BodyLength <= OutputRoom(read)
  /\ read.via = "ReadFile" /\ answer = "success" => BodyLength + 1 <= read.Length
=============================================================================

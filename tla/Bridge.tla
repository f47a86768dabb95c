------------------------------- MODULE Bridge -------------------------------
(***************************************************************************)
(* vhcibridge.ps1: the client that joins the driver to a controller behind *)
(* a TCP socket, with the overlapped read of vhci-io.ps1.  Towards the     *)
(* driver it cuts a byte stream into H4 frames, one write each; towards    *)
(* the controller it passes on what a read with a time limit returns.      *)
(*                                                                         *)
(* The script is one thread; the controller, the network and the driver    *)
(* go on between any two of its steps.  Bytes are numbers, since framing   *)
(* reads them; packets of the stack are only control packets or not.       *)
(***************************************************************************)
EXTENDS Naturals, SequencesExt

CONSTANTS
  Scripts,         \* what a controller may send: sequences of frames, as bytes
  Offers,          \* what the driver has for the client: a sequence of packets
  ControlPackets,  \* those with type 0xFF, the driver's replies
  NoPacket,
  DeviceBuffer,    \* length of $devBuf, the longest frame the driver takes
  NetBuffer,       \* length of $netBuf
  Accumulator      \* length of $acc

ASSUME BridgeAssumption ==
  /\ Scripts \subseteq Seq(Seq(0..255))
  /\ Offers \in Seq(ToSet(Offers)) /\ NoPacket \notin ToSet(Offers)
  /\ ControlPackets \subseteq ToSet(Offers)
  /\ DeviceBuffer \in Nat /\ NetBuffer \in Nat \ {0} /\ Accumulator \in Nat

H4_COMMAND == 1
H4_ACL == 2
H4_SCO == 3
H4_EVENT == 4
H4_ISO == 5

\* What a frame is to the controller, whatever the script makes of it: its header, up to
\* and including the length field, and the body the header states.
Header(frame) ==
  CASE frame[1] = H4_EVENT -> 3
    [] frame[1] \in {H4_COMMAND, H4_SCO} -> 4
    [] frame[1] \in {H4_ACL, H4_ISO} -> 5
Stated(frame) ==
  CASE frame[1] = H4_EVENT -> frame[3]
    [] frame[1] \in {H4_COMMAND, H4_SCO} -> frame[4]
    [] frame[1] = H4_ACL -> frame[4] + 256 * frame[5]
    [] frame[1] = H4_ISO -> (frame[4] + 256 * frame[5]) % 16384
Whole(frame) == Len(frame) >= Header(frame) /\ Len(frame) = Header(frame) + Stated(frame)
Begun(frame) == Len(frame) < Header(frame) \/ Len(frame) < Header(frame) + Stated(frame)

\* Every stream of bytes is such a script: cut where H4 ends its frames, but for what
\* comes last and from the first byte on that is no type.
ASSUME ScriptAssumption ==
  \A frames \in Scripts : \A i \in 1..Len(frames) :
    /\ frames[i] # <<>>
    /\ frames[i][1] \in H4_COMMAND..H4_ISO =>
         Whole(frames[i]) \/ (i = Len(frames) /\ Begun(frames[i]))

VARIABLES
  script,        \* the frames the controller sends in this behaviour
  unsent,        \* bytes it has not sent yet
  socket,        \* bytes that have arrived and were not read
  peer,          \* "up" or "gone"
  offers,        \* packets the stack has not written yet
  queued,        \* packets that wait in the driver
  request,       \* the overlapped read: none, pending, taken by the driver, done, aborted
  devBuf,        \* the packet the driver put in it
  at,            \* the place in the loop
  acc,           \* the bytes of the accumulator
  progress,      \* $progress
  handed,        \* frames written to the driver, accepted or not
  toController,  \* packets sent on the socket
  ended          \* why the loop ended, or "no"

network == <<script, unsent, socket, peer>>
driver == <<offers, queued, request, devBuf>>
framing == <<acc, progress, handed>>
vars == <<network, driver, framing, at, toController, ended>>

\* After the connect, the open and the request for a radio.
Init ==
  /\ script \in Scripts
  /\ unsent = FlattenSeq(script)
  /\ socket = <<>> /\ peer = "up"
  /\ offers = Offers /\ queued = <<>>
  /\ request = "none" /\ devBuf = NoPacket
  /\ at = "poll"
  /\ acc = <<>> /\ progress = FALSE /\ handed = <<>>
  /\ toController = <<>>
  /\ ended = "no"
-----------------------------------------------------------------------------
(* Get-H4FrameLength.                                                      *)

Known(bytes) == bytes[1] \in {H4_COMMAND, H4_ACL, H4_SCO, H4_EVENT, H4_ISO}

\* Mutant of HeaderLength: an event's header is taken for a command's.
EventAsCommand(type) == IF type \in {H4_ACL, H4_ISO} THEN 5 ELSE 4

\* Up to and including the length field.
HeaderLength(type) ==
  IF type \in {H4_ACL, H4_ISO} THEN 5 ELSE IF type = H4_EVENT THEN 3 ELSE 4

\* The length field: two bytes, of which ISO uses 14 bits, or one.
BodyLength(bytes) ==
  LET word == bytes[4] + 256 * bytes[5] IN
  IF bytes[1] = H4_ACL THEN word
  ELSE IF bytes[1] = H4_ISO THEN word % 16384
  ELSE bytes[HeaderLength(bytes[1])]

\* The length of the frame at the start, 0 if more bytes are needed.
H4FrameLength(bytes) ==
  IF bytes = <<>> \/ Len(bytes) < HeaderLength(bytes[1]) THEN 0
  ELSE LET need == HeaderLength(bytes[1]) + BodyLength(bytes) IN
       IF Len(bytes) < need THEN 0 ELSE need
-----------------------------------------------------------------------------
(* The controller, and the driver.                                         *)

\* TCP delivers as many bytes at a time as it likes.
PeerSends ==
  /\ peer = "up"
  /\ \E n \in 1..Len(unsent) :
       /\ socket' = socket \o SubSeq(unsent, 1, n)
       /\ unsent' = SubSeq(unsent, n + 1, Len(unsent))
  /\ UNCHANGED <<script, peer, driver, framing, at, toController, ended>>

PeerCloses ==
  /\ peer = "up"
  /\ peer' = "gone"
  /\ UNCHANGED <<script, unsent, socket, driver, framing, at, toController, ended>>

\* A packet of the stack takes the waiting read, or waits.
StackSends ==
  /\ offers # <<>> /\ ended = "no"
  /\ offers' = Tail(offers)
  /\ IF request = "pending"
     THEN request' = "taken" /\ devBuf' = Head(offers) /\ UNCHANGED queued
     ELSE queued' = Append(queued, Head(offers)) /\ UNCHANGED <<request, devBuf>>
  /\ UNCHANGED <<network, framing, at, toController, ended>>

\* Outside the driver's lock.
DriverCompletes ==
  /\ request = "taken"
  /\ request' = "done"
  /\ UNCHANGED <<network, framing, offers, queued, devBuf, at, toController, ended>>
-----------------------------------------------------------------------------
(* The loop.                                                               *)

End(why) == ended' = why /\ at' = "closed"
GoTo(place) == at' = place /\ UNCHANGED ended

\* The deadline, or a dead link: readable with nothing available.
Poll ==
  /\ at = "poll"
  /\ \/ End("stopped")
     \/ peer = "gone" /\ socket = <<>> /\ End("disconnected")
     \/ ~(peer = "gone" /\ socket = <<>>) /\ GoTo("read")
  /\ UNCHANGED <<network, driver, framing, toController>>

\* A packet that waits completes the read at once.
ReadFile ==
  /\ at = "read"
  /\ IF queued # <<>>
     THEN /\ devBuf' = Head(queued) /\ queued' = Tail(queued)
          /\ request' = "done" /\ GoTo("forward")
     ELSE request' = "pending" /\ GoTo("wait") /\ UNCHANGED <<queued, devBuf>>
  /\ UNCHANGED <<network, framing, offers, toController>>

WaitSucceeds ==
  /\ at = "wait" /\ request = "done"
  /\ GoTo("forward")
  /\ UNCHANGED <<network, driver, framing, toController>>

\* The wait's time is up, and CancelIoEx comes too late for a read that was taken.
TimeOut ==
  /\ at = "wait"
  /\ request' = IF request = "pending" THEN "aborted" ELSE request
  /\ GoTo("reap")
  /\ UNCHANGED <<network, framing, offers, queued, devBuf, toController>>

\* Mutant of Reap: a read that timed out returns nothing, whatever it collected.
ReapNothing ==
  /\ at = "reap" /\ request \in {"done", "aborted"}
  /\ request' = "none" /\ devBuf' = NoPacket /\ GoTo("fill")
  /\ UNCHANGED <<network, framing, offers, queued, toController>>

\* GetOverlappedResult waits for the cancelled read, which may have completed with data.
Reap ==
  /\ at = "reap"
  /\ \/ request = "done" /\ GoTo("forward") /\ UNCHANGED request
     \/ request = "aborted" /\ GoTo("fill") /\ request' = "none"
  /\ UNCHANGED <<network, framing, offers, queued, devBuf, toController>>

\* The driver's own replies are not for the controller.
Forward ==
  /\ at = "forward"
  /\ toController' = IF devBuf \in ControlPackets THEN toController ELSE Append(toController, devBuf)
  /\ devBuf' = NoPacket
  /\ request' = "none"
  /\ GoTo("fill")
  /\ UNCHANGED <<network, framing, offers, queued>>

\* The device or the socket fails, which ends the script.
DeviceFails ==
  /\ at \in {"read", "wait", "reap", "write"}
  /\ End("device")
  /\ UNCHANGED <<network, driver, framing, toController>>

SocketFails ==
  /\ at = "forward" /\ peer = "gone" /\ devBuf \notin ControlPackets
  /\ End("socket")
  /\ UNCHANGED <<network, driver, framing, toController>>

\* One $stream.Read, capped at the free space; then on to the frames.
Fill ==
  LET n == Min({Len(socket), Accumulator - Len(acc), NetBuffer}) IN
  /\ at = "fill"
  /\ IF n > 0
     THEN /\ acc' = acc \o SubSeq(socket, 1, n)
          /\ socket' = SubSeq(socket, n + 1, Len(socket))
          /\ progress' = TRUE
          /\ UNCHANGED <<at, ended>>
     ELSE GoTo("parse") /\ UNCHANGED <<acc, socket, progress>>
  /\ UNCHANGED <<script, unsent, peer, driver, handed, toController>>

\* Mutant of NotH4: a full accumulator is an error whatever is in it.
FullIsNotH4 == Len(acc) = Accumulator

\* A full accumulator without a complete frame.
NotH4 == Len(acc) = Accumulator /\ H4FrameLength(acc) = 0

\* The accumulator starts with no frame for the driver: the script gives up, or
\* goes for more bytes.
Parse ==
  /\ at = "parse"
  /\ IF acc # <<>> /\ ~Known(acc) THEN End("unknown type") /\ UNCHANGED progress
     ELSE IF NotH4 THEN End("not H4") /\ UNCHANGED progress
     ELSE IF H4FrameLength(acc) > DeviceBuffer THEN End("too long") /\ UNCHANGED progress
     ELSE IF H4FrameLength(acc) > 0 THEN GoTo("write") /\ UNCHANGED progress
     ELSE progress' = FALSE /\ GoTo(IF progress THEN "fill" ELSE "poll")
  /\ UNCHANGED <<network, driver, acc, handed, toController>>

\* One frame, one write.  A frame refused because the radio is not ready is
\* dropped.
WriteFrame ==
  LET n == H4FrameLength(acc) IN
  /\ at = "write"
  /\ handed' = Append(handed, SubSeq(acc, 1, n))
  /\ acc' = SubSeq(acc, n + 1, Len(acc))
  /\ progress' = TRUE
  /\ GoTo("parse")
  /\ UNCHANGED <<network, driver, toController>>

Loop ==
  \/ Poll \/ ReadFile \/ WaitSucceeds \/ TimeOut \/ Reap \/ Forward \/ SocketFails
  \/ DeviceFails \/ Fill \/ Parse \/ WriteFrame
Next == PeerSends \/ PeerCloses \/ StackSends \/ DriverCompletes \/ Loop

Spec == Init /\ [][Next]_vars

\* The script runs, its wait has a limit, and the driver completes what it took.
Fairness == WF_vars(Loop) /\ WF_vars(DriverCompletes)
FairSpec == Spec /\ Fairness
-----------------------------------------------------------------------------
(* Properties.                                                             *)

Bytes == 0..255
Packets == ToSet(Offers)

\* The shape of the state: bytes in the stream, packets at every place of the other way.
TypeOK ==
  /\ script \in Scripts
  /\ unsent \in Seq(Bytes) /\ socket \in Seq(Bytes) /\ acc \in Seq(Bytes)
  /\ handed \in Seq(Seq(Bytes))
  /\ offers \in Seq(Packets) /\ queued \in Seq(Packets) /\ toController \in Seq(Packets)
  /\ devBuf \in Packets \cup {NoPacket}
  /\ request \in {"none", "pending", "taken", "done", "aborted"}
  /\ at \in {"poll", "read", "wait", "reap", "forward", "fill", "parse", "write", "closed"}
  /\ peer \in {"up", "gone"} /\ progress \in BOOLEAN

\* What the driver is given are the controller's frames, whole, in order and once,
\* however the network cut the stream; and what was not given yet is still there
\* (vhcibridge.ps1:143).
FramesAreTheStream ==
  /\ IsPrefix(handed, script)
  /\ FlattenSeq(handed) \o acc \o socket \o unsent = FlattenSeq(script)

\* The packets of a sequence that are for the controller.
Hci(packets) ==
  FlattenSeq([i \in 1..Len(packets) |->
                IF packets[i] \in ControlPackets \cup {NoPacket} THEN <<>> ELSE <<packets[i]>>])

\* No packet of the stack vanishes between the wait that expired and the cancel that
\* followed (vhci-io.ps1:146), and none of the driver's own replies gets through.
NothingVanishes ==
  toController \o Hci(<<devBuf>> \o queued \o offers) = Hci(Offers)

\* A burst, however long, gets through: when the controller has sent its frames, the
\* driver gets every one it can take, unless the link or the device fails or the
\* script is stopped.  A longer accumulator is never needed (vhcibridge.ps1:146).
Takeable(frame) == Known(frame) /\ Whole(frame) /\ Len(frame) <= DeviceBuffer
BurstsGetThrough ==
  (unsent = <<>> /\ \A i \in 1..Len(script) : Takeable(script[i]))
    ~> (handed = script \/ ended \in {"stopped", "device", "socket"})
=============================================================================

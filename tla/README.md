# A formal model of winvhci

winvhci is a Windows driver that gives Windows a virtual Bluetooth radio.  A
*client* (a simulated controller) opens `\\.\WinVhci`, asks for a radio, and then
exchanges H4 packets with the Windows Bluetooth stack through `ReadFile` and
`WriteFile`.  This directory holds TLA+ modules that model the driver, TLC
configurations that check them on small instances, and proofs checked by TLAPS.
Source references are to `src/winvhci/` unless they say otherwise.

## The system

| Component | State | Operations | Talks to |
|---|---|---|---|
| **Controller to host** (`user.c`, `fdo.c`) | `PendingEventList`, `PendingDataList`, a count and a peak beside each; the manual queues `ReadEventQueue`, `ReadDataQueue`; `WritesTotal`, `WritesNoRadio`, `DropsAllocFailed` | client write with its admission check, delivery, `READ_HCI`, completion of a read, purges | client, Bluetooth stack, radio lifetime (is the radio up?) |
| **Host to controller** (`user.c`, `fdo.c`) | `HostToCtrlList`, count, peak; `UserReadQueue`; `Owner`; `QueuedToUserTotal`, `DropsNoClient`, `DropsAllocFailed` | `WRITE_HCI`, the reply to a control packet, `ReadFile`, open, close | client, Bluetooth stack |
| **Radio lifetime** (`user.c`, `pdo.c`) | `RadioPresent`, `RadioStarted`, `CurrentRadioId`, `NextRadioId`, `RadiosAlive`; PnP's child list; the PDOs | control packet `FF <opcode>`, close, PDO creation and destruction, `D0Entry`, `D0Exit` | PnP (on its own threads), both rendezvous |
| **Packet rules** (`user.c`, `fdo.c`, `winvhci.h`) | none | checks of caller, buffers, size, type and direction | |
| BTHX configuration requests, logging (`fdo.c`) | `BthxVersion`, diagnostic counters | `GET_VERSION`, `SET_VERSION`, `QUERY_CAPABILITIES` | Bluetooth stack |
| Driver entry, device add (`driver.c`) | creates the above | | framework |
| PowerShell bridge (`src/tools/vhcibridge.ps1`, `vhci-io.ps1`) | accumulator, one overlapped read, a socket | read with a time limit, forward, cut the stream into frames, write | the driver; a controller behind TCP |
| Python client (`src/python/winvhci/device.py`) | handle, events, one OVERLAPPED per direction, `_closing` | open, read, write, close from another thread | the driver |
| Bumble transport and compatibility (`src/python/winvhci`) | queues of Bumble | pump packets; answer HCI commands | Python client |
| PowerShell control tool, tests, build, CI (`src/tools`, `src/build`) | | | the driver |

All of the driver's state is in one FDO context under one spinlock.  Its callbacks
run on many threads: the default queue and the BTHX queue are parallel, PnP and power
callbacks come on PnP's own threads, and file callbacks on the client's.

What is hard about it:

- **The rendezvous.**  Whichever of a packet and a read comes first has to wait for
  the other, on a list or on a WDF manual queue.  Both deciding at once, in separate
  locked regions, would leave them waiting beside each other.
- **Completion outside the lock.**  A read is taken under the lock and completed
  after it; other packets, purges and a closing handle come in between.
- **Three clocks.**  The handle closes at once, the radio's stack stops in its own
  time, and its PDO disappears up to half a minute later - when the next client
  may have its own radio.  A callback of the earlier radio must not be taken for one
  of the current radio.
- **The handle's end.**  The stack writes on after the client is gone; whatever is
  allocated then outlives the driver (BugCheck 0xC4/0x62).
- **Failure half way.**  No memory for a packet; `AddRadio` or PDO creation failing.
- **Raw pointers.**  BTHX requests are METHOD_NEITHER: what a caller claims of its
  buffers is checked case by case.
- **Time limits.**  Both clients cancel requests the driver may be completing.

## Modules

| Module | What it models |
|---|---|
| `LossyFifo` | the abstract promise of one channel: items leave in order, once, and are lost only all together |
| `StackRendezvous` | controller to host: both channels |
| `UserRendezvous` | host to controller, with the handle's sessions |
| `RadioLifetime` | control packet, child list, PDO, D0, close |
| `WinVhci` | the three composed on the FDO context, with `EvtFileClose` step by step |
| `VhciDevice` | the Python client: one device object, an owner, a pump and writers |
| `Bridge` | the PowerShell bridge: H4 frames out of a TCP stream, and a read that is cancelled when its time is up |
| `PacketRules` | the checks on callers, buffers, lengths and types, where packet and read meet; the requests answered on the spot |
| `MC*` | instances for TLC |
| `ListLemmas` | lemmas on lists and counts the proofs of the rendezvous share |
| `StackRendezvousProofs`, `UserRendezvousProofs`, `RadioLifetimeProofs`, `WinVhciProofs`, `VhciDeviceProofs`, `BridgeProofs`, `PacketRulesProofs` | theorems |

**Grain.**  An action is one region under the FDO's spinlock, or one step outside it.
So `WinVhciDispatchWrite` is `Write`, `Admit` (one locked region), `DeliverToStack`
(another), and the completion of the read and of the write; `WinVhciEvtIoRead` is
`SendUserRead`, `EvtIoRead` (one locked region) and `CompleteUserRead`.  Function
names are kept where TLA+ allows it.

**StackRendezvous.**  `pending[c]` and `count[c]` are the list and the count of channel
`c`.  `read[r]` says where a `READ_HCI` is: with BthPort (`idle`), on its way
(`sent`), on the manual queue (`parked`), or retrieved and about to complete
(`filling`).  `write[p]` is the program counter of the write that carries packet `p`.
`matched`, `received` and `flushed` are ghosts: packets matched to a read under the
lock, packets the stack got, packets freed.  The module is open: any value of the
admission check and any purge may happen.  `WinVhci` closes it.

**UserRendezvous.**  The same for the client's channel.  `session` is the framework's
view of the handle, `owner` is the driver's (`Owner # NULL`).  `takenIn` records the
session in which the driver took charge of a packet.  A read that finds the list empty is parked, or fails
if the framework does not take it on the manual queue (`RefuseUserRead`).

**RadioLifetime.**  `pdo[id]` goes from `none` to `reported` (`AddRadio`), `created`,
`d0`, `d3`, `gone`.  `missing` holds the radios reported as gone.

**WinVhci.**  Locked regions that touch two components are joint actions: `D0Exit`
clears `RadioStarted` and frees the stack's backlogs; `FileClose` clears
`RadioPresent` and `Owner`; a successful `AddRadio` starts the control reply.
`EvtFileClose` is `FileClose`, `RemoveRadios`, then for each queue a purge and the wait
for it, then the restarts, then `PurgeBacklogs`; `closeStep` counts them.  Requests of
the stack come through the PDO of a radio that has been up (`Forwards`): its queue is not power-managed
(`pdo.c:388`), so it forwards in D3, too.  The ghosts `writtenIn` and `bornIn` record the open
in which a packet was written and a radio was asked for.  Each component is an `INSTANCE`, and
`Components` checks that every step of the composition is a step or a stutter of each.

**VhciDevice.**  An action is one Win32 call or one access to a shared attribute, so another
thread can come between any two.  `owner` is the place in `open` or `close`; `call[c]` that of
the reader in `read` and of each writer in `write`, with their locals, and the actions are shared where
the two functions do the same.  `ov` holds the two OVERLAPPEDs, `requests` what the kernel has outstanding.
Handles and events are named by the `open` that made them.  The pump is that of `transport.py`: it
stops at an empty read or an error, and a new one starts when the device has been opened again.
`open` may come while an earlier read is still on its way out.

**PacketRules.**  A behaviour is one encounter of a packet and a read, in either order,
with lengths on both sides of every limit, or one configuration or statistics request.  A BTHX request
has a `shape`: as the stack sends it, from user mode, with a NULL pointer, or with its two buffers
apart.  Unsigned subtraction wraps (`Minus`).

**Bridge.**  `at` is the place in the loop; `request` is the one overlapped read, which the driver takes
under its lock and completes later.  `script` is the controller's sequence of frames, of which
`unsent`, `socket`, `acc` and `handed` hold the bytes, from the controller's side to the driver's.
A frame the driver refuses because the radio is not ready is dropped, and counts as handed.
What a frame is to the *controller* is stated apart from the script's own parsing, in `Header`, `Stated`,
`Whole` and `Begun`; `ScriptAssumption` says that the scripts are cut there.  It leaves no stream out: any
sequence of bytes can be so cut, up to a last frame that is not complete or a first byte that is no H4 type,
from where on the cuts are free.

### What is assumed of Windows

These are the `external` entries of the map: the device is exclusive until `EvtFileClose` has
returned; `EvtFileClose` comes only after every request of the handle has completed
(the framework cancels waiting reads at cleanup); a synchronous purge makes the queue
refuse requests, cancels what waits on it and returns when what was retrieved has been
completed; a file is opened again only when the requests on its earlier handle have completed, and closing it
cancels them, in their own time, one that is being filled perhaps with its data; a handle value is not
used again; PnP's callbacks come at any time, and an old PDO may stay in D0 long after
the close; a child description that is withdrawn before its PDO was created is
forgotten; a PDO is destroyed only after the requests that came through it.

## Runs

| Run | Configuration | Shows |
|---|---|---|
| `stack` | both channels, 2+2 packets, 1 read for events and 2 for ACL; symmetry of packets and of reads | the rendezvous rule, counts, conservation with the statistics, order on a channel with one read, refinement of `LossyFifo` |
| `user` | 3 packets, 2 reads, 2 sessions, fair | the same for the client's channel; a packet overtakes fewer packets than the client has reads; nothing kept for nobody, no stale read; nothing stranded |
| `radio` | 3 radios, 3 opens, 2 control writes, fair | one radio per handle, late `D0Entry` and `D0Exit` of an earlier radio, counting, fresh ids, a closed handle's radio goes away |
| `driver` | 1 channel, 1 packet, 1 read each way, 2 radios, 2 opens | the composition implements its components; nothing outlives the client across two radios; no packet reaches the radio of a later client; statistics add up |
| `driver_close` | the same with 1 radio, 1 open and a command of the stack, fair | in the whole driver closing finishes, every write completes, and a packet on a backlog is delivered or purged if the stack keeps reading |
| `device` | 3 opens, and 3 reads or 2 writes, fair | reads end only by a close, and quietly once pending; one read on the OVERLAPPED; no buffer is left to a request nobody cancelled; a write that returned was taken; every call ends |
| `packets` | 0, 1, and each limit -1, +0, +1; 2^30 for 2^32; every shape of a BTHX request | an accepted packet fits its read; no byte outside a request's buffers is touched |
| `bridge` | 7 streams of frames, 3 packets of the stack; buffers of 6, 7 and 9 bytes for 1026, 4096 and 8192; fair | frames come whole and in order however the stream is cut; no packet is lost in a cancelled read; a burst longer than the accumulator gets through |

Four runs end in a counterexample.  Each states what a comment of the code says and
shows how the code departs from it:

| Run | The comment | What happens |
|---|---|---|
| `radio_stale` | `winvhci.h:336`, `RadioStarted` is true while the radio is started and in D0 | a new client asks for its radio while the last one's PDO is in D0; the flag is still set, the old radio's `D0Exit` is ignored, and packets are queued for a radio that has no PDO |
| `driver_queued` | `winvhci.h:143`, a packet is deliverable and queued, or refused immediately | `D0Exit` comes between the admission check and the delivery; the packet is queued for a stack that is down |
| `driver_survive` | `user.c:839`, outstanding reads must not survive the client | a read not yet parked when the queue is purged is parked after the restart, and still waits when the close has returned |
| `device_quiet` | `device.py:590`, `read()` returns `b''` once the device is closed | a close between taking the handle and `ReadFile` makes `ResetEvent` or `ReadFile` raise, and `read()` with it |

Beside these, one thing the code does not promise in general: with two ACL reads outstanding both are
retrieved in order under the lock and completed outside it, where the second can overtake the first.
`InOrderWithOneRead` therefore speaks of channels with one read.  Towards the client `ReadInOrder` says
how far this goes: a packet overtakes at most what the client's other reads carry at that moment.  How
often one packet is overtaken has no bound, since its read may be the last to complete.

**Bounds.**  `Packets`, `Reads`, `HostPackets`, `UserReads`, `Controls` are finite sets; a packet is
written once, a read is reused.  Two packets and a read of a channel, with a third for the client's, suffice to have one packet
matched and one queued or in flight, and two reads to reorder completions; two sessions and
two radios to have a late callback of one meet the other; three radios to have two late
ones.  `MaxSessions`, `MaxOpens` and `MaxRadios` bound counters that are unbounded in the code, and
the bound is a guard on opening or on sending, so no operation is left hanging half way
because of it.  Counters do not wrap (ULONG).  `WordSize` is 2^30 because TLC
has no 2^32; every length is far below it except the largest `DataLen`.  `VersionSize` and
`CapabilitiesSize` stand for structures of the BTHX DDI, whose sizes are not in the repository; any would
do.  In `WinVhci` one channel is checked: the two are independent in `StackRendezvous` and are purged in one
region, except by the close, where they are purged one after the other.  The host packets of `driver` are
control replies only: a write of the stack that comes late, after the close, is in the runs `user` and
`driver_close` and in the theorems.  `Bridge` keeps its three limits in their
order of size; its streams hold a burst longer
than the accumulator, frames whose bodies look like types, a frame too long for the driver, one too long for the
accumulator, and one of no type.

The type invariants of `UserRendezvous`, `RadioLifetime` and `Bridge` are theorems and are left out of the runs.

`MCVhciDevice` lets a behaviour have reads or writes beside the owner, not both: the reader and the
writers touch nothing of each other's, and what they share only the owner changes.  Three opens are
one more than a late reader of the first needs to meet the second.

Deadlock is checked where the model cannot stop (`StackRendezvous`).  It is switched off
where the bounds let it: a removed device, or no opens left, or the encounter of one packet and one read
is over, or the bridge has ended.

**Fairness.**  Weak fairness only, on the driver's own steps (a thread inside the driver
keeps running), on a client thread inside `read` or `write` (its waits are bounded slices), on the framework's cancellation of reads of a closing handle or of a purged
queue, on `EvtFileClose` once the handle is idle, and on PnP's removal of a missing
radio.  Nothing is assumed of the stack: that BthPort posts the next read when the last one completes is an
antecedent of `WinVhci`'s `NotStranded` (`KeepsReading`), not a fairness condition.  Nothing is assumed
of the client: it may stop reading, writing or never close; and in `VhciDevice` nothing of the driver.
In `Bridge` the script keeps running, its wait has a limit, and the driver completes a read it
took; the controller may send slowly or close at any time.  That the script keeps running includes that
`$stream.Write` (`vhcibridge.ps1:129`) returns: a controller that stops reading could block it, and then
nothing is promised.

**Every property can fail.**  For every property of every passing run `PROJECT.json` names a
mutant: a changed definition, such as a dropped guard or a missing reset, for which
TLC finds that property violated.  `D0ExitOfAny`, for one, is the defect
of `CHANGELOG.md:48-51`, and `ParkReadBlindly` the separated check and park of `fdo.c:621`.

## Proofs

Every safety invariant and every action property of the passing runs is also a theorem, for any values of the
constants: any number of packets, reads, radios, opens, calls and frames, and buffers of any size.

**Assumptions.**  `ChannelAssumption`, `UserAssumption`, `RadioAssumption`, `RulesAssumption` and
`DeviceAssumption` type the constants; in `WinVhci` `PartsAssumption` repeats what its parts assume and
`CompositionAssumption` orders the channels of the close and tells the replies apart; in `Bridge`
`BridgeAssumption` types the constants and `ScriptAssumption` cuts the streams (above).  TLC evaluates all
of them in the runs.  No set need be finite, but the channels the close goes through: where packets are counted, that only finitely many have been
decided on in any state is part of the invariant (`Countable`), and the radios are an interval.  The one
exception is a hypothesis of the theorem on the order of a client's reads, below.

**StackRendezvousProofs.**  `IInv` is `TypeOK /\ CountIsLength /\ Rendezvous`.  `Rendezvous`
is not inductive alone: a write queues when the *count* is not zero or no read waits, and a read
parks when the *list* is empty, so the two views have to be known to agree.  With `IInv`,
each locked region is shown to be a step of `LossyFifo` on its channel: `HandToRead` is
`Pass` (the count is zero, hence the list empty), `QueueForStack` is `Put`, `TakeQueued` is
`Get` and the purges are `Flush`.  `CInv` is the account of the packets: each list holds a packet
once and of its own channel (`Channelled`), a write has a status exactly when it is decided (`Decided`), an
accepted packet is in one place (`Placed`), and the counters are the counts of those sets.  There is
a lemma for each locked region, and `Conservation` follows.  `OrderInv` says of a channel with one read that what was
matched is what was received and then what that read carries, whence
`InOrderWithOneRead`.  `PeakInv` keeps the peak above the count.

**UserRendezvousProofs.**  `SessionInv` relates the handle to the rest: the owner is
recorded exactly while the handle is open or in cleanup; outside these no read of the
client is in the driver; and in an open session whatever waits was taken in that session.
With count and rendezvous rule it is inductive, and `NothingForNobody`, `NoStaleRead` and the refinement
of `LossyFifo` follow.  `UserConservation` needs `KeptOnce` (no packet twice on the list, none on it that a close has freed)
beside it.  For `ReadInOrder`, `OrderInv` follows a packet: it is matched once, what was matched has been received or
is carried by a read, and the list holds none of it.  So what a packet overtakes is carried by the reads other than
its own, which are one fewer than the client has.  `InOrder` assumes `IsFiniteSet(UserReads)`, since `ReadInOrder` itself takes the
cardinality of that set, which means nothing otherwise.

**RadioLifetimeProofs.**  `IdsInv`: ids from `NextRadioId` on are unused, the current id is the
last one given out, and a control write that is adding a radio holds the current
id, which PnP has not been told of.  `HandleInv`: what is present belongs to a claim, a
claim to an open handle, and at most one control write is past its claim.  A claim thus makes a radio current
that has no PDO yet, and `StartedWhileInD0` and `StoppedIsRefused` hold until its own `D0Entry` and `D0Exit`.

**WinVhciProofs.**  A component was proved against an environment that may do more than the others do.
Here every step of the driver is shown to be a step, or a stutter, of each of them, the joint actions
included (`StackMoves`, `UserMoves`, `RadioMoves`); so `Components`, and everything proved of a component holds in the driver
(`PartsKeepTheirPromises`).  `UserMoves` needs an invariant of the radio's: a reply is
begun only in an open session.  The module has two instances of each component, that of `WinVhci` and
that of its proofs, which the provers take for different formulas; `SameStackStep` and its like say that they agree.  `CloseInv` says that from
`RemoveRadios` on no write of the client is outstanding, so that a list that `PurgeBacklogs` has emptied stays
empty: `ClosedMeansEmpty`.  `OriginInv` says that what a write or a list holds was written in
the current open, and that a read came through a radio no later than the current one: `NeverToALaterRadio`.
`StatsAddUp` follows from the accounts and peaks of the two rendezvous.

**VhciDeviceProofs.**  Since the device is exclusive, the file, the two events and the requests of one
`open()` all bear its number.  `RequestInv` says so of the kernel's requests, `OwnerInv` and `EventInv`
say which file and events exist at each place of `open` and `close`, `CallInv` what a call under
way knows of the `open` it began with, and `LockInv` who holds the write lock.  `ReaderInv` with `ReadRequestInv` says what the reader finds in
its OVERLAPPED until the device is closed: its own request, pending or with its data; `WriteInv` with `WriteRequestInv` says the
same of the writers, as long as none has timed out.  Two parts of it are easily missed: that `_closing` is clear while
`open` fills in events and OVERLAPPEDs, without which a reader of the next session could take
the close of the last one for its own; and that a request left behind by a writer whose event
was closed bars every other writer until the next `open`.

**BridgeProofs.**  `StreamInv`: the frames handed to the driver are the script's first ones, and flattened and followed by
accumulator, socket and what is unsent they are the whole stream; where a frame is
written the accumulator begins with a complete one.  `ReadInv`: the state of the one overlapped
read at each place of the loop.  The step that matters is `NextFrame`: when the accumulator holds `H4FrameLength` bytes, these are the
next frame of the script, which needs that the length the script computes is the length H4 states
(`FrameLengthIsH4`, for every frame and every beginning of one).  `NothingVanishes` is inductive with `ReadInv`: the cancel that
lost its race leaves the packet in `devBuf`, where `Reap` collects it.  Both properties speak of `FlattenSeq`, whose definition is a recursive function; what it
computes is proved by induction, over a set of numbers instead of a predicate (`NumberInduction`, from the
library's theorem that a well-founded set has minimal elements).

**PacketRulesProofs.**  `IInv` says that packet and read are as their own checks left them, or that they have
met, and then both had passed their checks and were for the same queue; the verdicts depend on the two requests
only, which do not change.  That a packet which passed fits (`AcceptedAlwaysFits`) and that no byte outside a buffer is
touched (`AlwaysInBounds`) are then arithmetic, for every length and every word size: the subtraction that could
wrap is guarded by the comparison before it.

**Only model-checked**: what must happen eventually, under fairness (`UserNotStranded`, `RadioVanishes`, `CloseFinishes`,
`WriteCompletes`, `NotStranded`, `ReadEnds`, `WriteEnds`, `BurstsGetThrough`), since liveness and `ENABLED` are outside what the provers used here
do; and the four counterexamples.

## Not modelled

- The version `SET_VERSION` stores, which nothing reads; packet logging and the registry values that turn it on.
- Diagnostic counters (`IoctlCount`, `WriteHciCount`, `PendedEventReads`, `PendedDataReads`, `PdoRequestCount`).
- The order of reads within a manual queue: they are a set here, since reads of a channel are interchangeable.
- Sizes in the rendezvous modules: reads are large enough there, so the two completions with
  `STATUS_BUFFER_TOO_SMALL` (`fdo.c:199`, `user.c:272`), which lose the packet, are not taken.  `PacketRules` shows
  that an accepted packet fits every read of the size both sides post (`RoomyRead`).
- The split of `DropsAllocFailed` in two shares is the model's; `Stats` adds them.
- The 16-bit radio id of the control reply.
- In `VhciDevice`: `stats()`, which only reads; reuse of a handle's value by Windows; what becomes of a
  pending read's error when the device is opened again before the reader noticed the close (it may
  raise then).
- In `Bridge`: counters and statistics lines; a connection that is reset, which may drop bytes that had arrived; a
  severed link, which the code says it does not notice (`vhcibridge.ps1:104`); Ctrl+C elsewhere than at the top of the loop.
- The setup, teardown and queue of the Bumble transport: what matters of them (who closes the handle when a step
  fails) is the order of one coroutine's statements, and the queue and its tasks are Bumble's.
- Driver entry and device add: their effect is `Init`; when a create call of the framework fails the device
  does not come up, and there is no later state.
- The Bumble compatibility layer, the control tool, tests, build and installation: protocol data or
  sequential scripts, without state the other parts share.

## Plan

Written, in this order: `LossyFifo`, `StackRendezvous`, `UserRendezvous`, `RadioLifetime`, `WinVhci`,
`PacketRules`, `VhciDevice`, `Bridge`; the proofs of the rendezvous, the radio's lifetime and the packet rules; then
those of the accounts and the order of packets, of the composition, of the Python client and of the bridge.

Next proofs: the three comments that have counterexamples in the driver, in the form in which they do hold (a packet queued behind
`RadioStarted` is freed by the next `D0Exit` or close; a read that survives a purge is cancelled with its
file); the safety half of the liveness properties, such as that a place from which nothing moves is one
where the environment has to.

Next models: the Bumble transport's start and close as a client of `VhciDevice`, if an abstract specification
of what a client promises its controller is wanted; `WinVhci` with reads tied to the radio they came through.

--------------------------- MODULE RadioLifetime ---------------------------
(***************************************************************************)
(* The radio's lifetime is the handle's lifetime (user.c:47).  A client    *)
(* opens \\.\WinVhci, asks for a radio with a control packet, and closing  *)
(* the handle takes it away.  PnP follows in its own time, on its own      *)
(* threads: it creates the radio's PDO, moves it in and out of D0, and     *)
(* destroys it seconds after the close, when the next client may have its  *)
(* own radio already.                                                      *)
(*                                                                         *)
(* Radios are numbered from 1; number 0 is CurrentRadioId before any radio *)
(* was asked for.  An action is one region under the FDO's spinlock, one   *)
(* call into the framework's child list, or one PnP callback.              *)
(***************************************************************************)
EXTENDS Naturals, FiniteSets

CONSTANTS
  Controls,   \* control writes (FF 00) a client may have outstanding
  MaxRadios,  \* bound: radios ever asked for
  MaxOpens    \* bound: how often the device is opened

ASSUME RadioAssumption == MaxRadios \in Nat /\ MaxOpens \in Nat

RadioIds == 1..MaxRadios

VARIABLES
  handle,          \* closed, open, cleanup (CloseHandle called), remove and teardown (in
                   \* EvtFileClose), removed (the device is gone)
  opens,           \* how often the device has been opened
  radioPresent,    \* RadioPresent: the client has asked for a radio
  radioStarted,    \* RadioStarted: the radio's stack is consuming
  currentRadioId,  \* CurrentRadioId
  nextRadioId,     \* NextRadioId
  control,         \* where each control write is
  controlId,       \* the radio id a control write has been given, 0 before
  pdo,             \* each radio: not reported, reported to PnP, or the state of its PDO
  missing,         \* radios reported as gone
  radiosAlive      \* RadiosAlive, interlocked

handleVars == <<handle, opens>>
fdoVars == <<radioPresent, radioStarted, currentRadioId, nextRadioId>>
controlVars == <<control, controlId>>
pnpVars == <<pdo, missing, radiosAlive>>
vars == <<handleVars, fdoVars, controlVars, pnpVars>>

Handles == {"closed", "open", "cleanup", "remove", "teardown", "removed"}
ControlStates == {"idle", "sent", "adding", "failed", "reply"}
PdoStates == {"none", "reported", "created", "d0", "d3", "gone"}

\* The radios that have a PDO, a framework device object.
Alive == {id \in RadioIds : pdo[id] \in {"created", "d0", "d3"}}

\* The radios the child list holds as present.
Present == {id \in RadioIds : pdo[id] \in {"reported", "created", "d0", "d3"} /\ id \notin missing}

Init ==
  /\ handle = "closed"
  /\ opens = 0
  /\ radioPresent = FALSE
  /\ radioStarted = FALSE
  /\ currentRadioId = 0
  /\ nextRadioId = 1
  /\ control = [w \in Controls |-> "idle"]
  /\ controlId = [w \in Controls |-> 0]
  /\ pdo = [id \in RadioIds |-> "none"]
  /\ missing = {}
  /\ radiosAlive = 0
-----------------------------------------------------------------------------
(* The handle.                                                             *)

\* WinVhciEvtDeviceFileCreate; the device is exclusive.
Open ==
  /\ handle = "closed"
  /\ opens < MaxOpens
  /\ handle' = "open"
  /\ opens' = opens + 1
  /\ UNCHANGED <<fdoVars, controlVars, pnpVars>>

CloseHandle ==
  /\ handle = "open"
  /\ handle' = "cleanup"
  /\ UNCHANGED <<opens, fdoVars, controlVars, pnpVars>>

\* WinVhciEvtFileClose, its locked region; the framework calls it once no
\* request of the handle is outstanding.  RadioStarted is left as it is.
FileClose ==
  /\ handle = "cleanup"
  /\ \A w \in Controls : control[w] = "idle"
  /\ handle' = IF radioPresent THEN "remove" ELSE "teardown"
  /\ radioPresent' = FALSE
  /\ UNCHANGED <<opens, radioStarted, currentRadioId, nextRadioId, controlVars, pnpVars>>

\* Mutant of RemoveRadios: a radio PnP has not created yet is left in the list.
RemoveCreatedRadios ==
  /\ handle = "remove"
  /\ handle' = "teardown"
  /\ missing' = missing \cup Alive
  /\ UNCHANGED <<opens, fdoVars, controlVars, pdo, radiosAlive>>

\* WinVhciRemoveRadios: everything reported so far becomes missing; a radio PnP
\* has not created yet is simply forgotten.
RemoveRadios ==
  /\ handle = "remove"
  /\ handle' = "teardown"
  /\ pdo' = [id \in RadioIds |-> IF pdo[id] = "reported" THEN "gone" ELSE pdo[id]]
  /\ missing' = missing \cup Present
  /\ UNCHANGED <<opens, fdoVars, controlVars, radiosAlive>>

\* The rest of WinVhciEvtFileClose: queues and backlogs (WinVhci.tla).
FinishClose ==
  /\ handle = "teardown"
  /\ handle' = "closed"
  /\ UNCHANGED <<opens, fdoVars, controlVars, pnpVars>>

\* The FDO itself is removed: the handle is closed and PnP has removed the radios
\* below it first.
RemoveDevice ==
  /\ handle = "closed"
  /\ Alive = {}
  /\ handle' = "removed"
  /\ UNCHANGED <<opens, fdoVars, controlVars, pnpVars>>
-----------------------------------------------------------------------------
(* WinVhciHandleControl, step by step.                                     *)

\* A control write that passed the checks on its length and opcode (PacketRules).
\* The bound on ids is taken here, so that no write is left hanging by it.
SendControl(w) ==
  /\ handle = "open"
  /\ control[w] = "idle"
  /\ nextRadioId + Cardinality({v \in Controls : control[v] = "sent"}) <= MaxRadios
  /\ control' = [control EXCEPT ![w] = "sent"]
  /\ UNCHANGED <<handleVars, fdoVars, controlId, pnpVars>>

\* The locked region: one radio at a time, and a new id for it.
RefuseControl(w) ==
  /\ control[w] = "sent"
  /\ radioPresent
  /\ control' = [control EXCEPT ![w] = "idle"]
  /\ UNCHANGED <<handleVars, fdoVars, controlId, pnpVars>>

\* Mutants of ClaimRadio: RadioPresent is not tested; NextRadioId not incremented.
ClaimUnchecked(w) ==
  /\ control[w] = "sent"
  /\ nextRadioId <= MaxRadios
  /\ nextRadioId' = nextRadioId + 1
  /\ radioPresent' = TRUE
  /\ currentRadioId' = nextRadioId
  /\ control' = [control EXCEPT ![w] = "adding"]
  /\ controlId' = [controlId EXCEPT ![w] = nextRadioId]
  /\ UNCHANGED <<handleVars, radioStarted, pnpVars>>

ClaimSameId(w) ==
  /\ control[w] = "sent"
  /\ ~radioPresent
  /\ nextRadioId <= MaxRadios
  /\ radioPresent' = TRUE
  /\ currentRadioId' = nextRadioId
  /\ control' = [control EXCEPT ![w] = "adding"]
  /\ controlId' = [controlId EXCEPT ![w] = nextRadioId]
  /\ UNCHANGED <<handleVars, radioStarted, nextRadioId, pnpVars>>

ClaimRadio(w) ==
  /\ control[w] = "sent"
  /\ ~radioPresent
  /\ nextRadioId <= MaxRadios
  /\ nextRadioId' = nextRadioId + 1
  /\ radioPresent' = TRUE
  /\ currentRadioId' = nextRadioId
  /\ control' = [control EXCEPT ![w] = "adding"]
  /\ controlId' = [controlId EXCEPT ![w] = nextRadioId]
  /\ UNCHANGED <<handleVars, radioStarted, pnpVars>>

\* WinVhciAddRadio reports the radio to PnP, or fails.
AddRadio(w) ==
  /\ control[w] = "adding"
  /\ control' = [control EXCEPT ![w] = "reply"]
  /\ pdo' = [pdo EXCEPT ![controlId[w]] = "reported"]
  /\ UNCHANGED <<handleVars, fdoVars, controlId, missing, radiosAlive>>

AddRadioFails(w) ==
  /\ control[w] = "adding"
  /\ control' = [control EXCEPT ![w] = "failed"]
  /\ UNCHANGED <<handleVars, fdoVars, controlId, pnpVars>>

\* The second locked region of the failure path; the write then fails.
UnclaimRadio(w) ==
  /\ control[w] = "failed"
  /\ radioPresent' = FALSE
  /\ control' = [control EXCEPT ![w] = "idle"]
  /\ controlId' = [controlId EXCEPT ![w] = 0]
  /\ UNCHANGED <<handleVars, radioStarted, currentRadioId, nextRadioId, pnpVars>>

\* The reply has been queued for the client (UserRendezvous) and the write
\* completes.
FinishControl(w) ==
  /\ control[w] = "reply"
  /\ control' = [control EXCEPT ![w] = "idle"]
  /\ controlId' = [controlId EXCEPT ![w] = 0]
  /\ UNCHANGED <<handleVars, fdoVars, pnpVars>>
-----------------------------------------------------------------------------
(* PnP and power callbacks of the radio's PDO.                             *)

\* WinVhciEvtChildListCreateDevice succeeds as far as WdfDeviceCreate.
CreatePdo(id) ==
  /\ pdo[id] = "reported"
  /\ pdo' = [pdo EXCEPT ![id] = "created"]
  /\ radiosAlive' = radiosAlive + 1
  /\ UNCHANGED <<handleVars, fdoVars, controlVars, missing>>

\* Mutant of CreatePdoFails: counted before WdfDeviceCreate is known to succeed.
CreateFailsCounted(id) ==
  /\ pdo[id] = "reported"
  /\ pdo' = [pdo EXCEPT ![id] = "gone"]
  /\ radiosAlive' = radiosAlive + 1
  /\ UNCHANGED <<handleVars, fdoVars, controlVars, missing>>

\* ... or fails before it.
CreatePdoFails(id) ==
  /\ pdo[id] = "reported"
  /\ pdo' = [pdo EXCEPT ![id] = "gone"]
  /\ UNCHANGED <<handleVars, fdoVars, controlVars, missing, radiosAlive>>

\* Mutant of D0Entry: any radio sets RadioStarted.
D0EntryOfAny(id) ==
  /\ pdo[id] = "created" \/ (pdo[id] = "d3" /\ id \notin missing)
  /\ pdo' = [pdo EXCEPT ![id] = "d0"]
  /\ radioStarted' = TRUE
  /\ UNCHANGED <<handleVars, radioPresent, currentRadioId, nextRadioId, controlVars, missing, radiosAlive>>

\* WinVhciPdoEvtD0Entry, at start and at every resume.  A radio that is already
\* missing may still be starting.
D0Entry(id) ==
  /\ pdo[id] = "created" \/ (pdo[id] = "d3" /\ id \notin missing)
  /\ pdo' = [pdo EXCEPT ![id] = "d0"]
  /\ radioStarted' = IF id = currentRadioId THEN TRUE ELSE radioStarted
  /\ UNCHANGED <<handleVars, radioPresent, currentRadioId, nextRadioId, controlVars, missing, radiosAlive>>

\* Mutant of D0Exit, the bug of CHANGELOG.md:49: any radio clears RadioStarted.
D0ExitOfAny(id) ==
  /\ pdo[id] = "d0"
  /\ pdo' = [pdo EXCEPT ![id] = "d3"]
  /\ radioStarted' = FALSE
  /\ UNCHANGED <<handleVars, radioPresent, currentRadioId, nextRadioId, controlVars, missing, radiosAlive>>

\* WinVhciPdoEvtD0Exit and the RadioStarted half of WinVhciRadioStackDown: sleep,
\* a failed bring-up, or removal.
D0Exit(id) ==
  /\ pdo[id] = "d0"
  /\ pdo' = [pdo EXCEPT ![id] = "d3"]
  /\ radioStarted' = IF id # currentRadioId THEN radioStarted ELSE FALSE
  /\ UNCHANGED <<handleVars, radioPresent, currentRadioId, nextRadioId, controlVars, missing, radiosAlive>>

\* WinVhciPdoEvtCleanup: the framework destroys the PDO of a missing radio, or
\* one whose creation failed half way.
PdoCleanup(id) ==
  /\ pdo[id] = "created" \/ (pdo[id] = "d3" /\ id \in missing)
  /\ pdo' = [pdo EXCEPT ![id] = "gone"]
  /\ radiosAlive' = radiosAlive - 1
  /\ UNCHANGED <<handleVars, fdoVars, controlVars, missing>>
-----------------------------------------------------------------------------
Next ==
  \/ Open
  \/ CloseHandle
  \/ FileClose
  \/ RemoveRadios
  \/ FinishClose
  \/ RemoveDevice
  \/ \E w \in Controls :
       \/ SendControl(w)
       \/ RefuseControl(w)
       \/ ClaimRadio(w)
       \/ AddRadio(w)
       \/ AddRadioFails(w)
       \/ UnclaimRadio(w)
       \/ FinishControl(w)
  \/ \E id \in RadioIds :
       \/ CreatePdo(id)
       \/ CreatePdoFails(id)
       \/ D0Entry(id)
       \/ D0Exit(id)
       \/ PdoCleanup(id)

Spec == Init /\ [][Next]_vars

\* The driver's threads keep running, the framework calls EvtFileClose once the
\* handle is idle, and PnP removes what is missing - in whatever time it takes.
Fairness ==
  /\ WF_vars(FileClose)
  /\ WF_vars(RemoveRadios)
  /\ WF_vars(FinishClose)
  /\ \A w \in Controls :
       /\ WF_vars(RefuseControl(w))
       /\ WF_vars(ClaimRadio(w))
       /\ WF_vars(AddRadio(w) \/ AddRadioFails(w))
       /\ WF_vars(UnclaimRadio(w))
       /\ WF_vars(FinishControl(w))
  /\ \A id \in RadioIds :
       /\ WF_vars(id \in missing /\ D0Exit(id))
       /\ WF_vars(id \in missing /\ PdoCleanup(id))

FairSpec == Spec /\ Fairness
-----------------------------------------------------------------------------
(* Properties.                                                             *)

TypeOK ==
  /\ handle \in Handles
  /\ opens \in 0..MaxOpens
  /\ radioPresent \in BOOLEAN
  /\ radioStarted \in BOOLEAN
  /\ currentRadioId \in 0..MaxRadios
  /\ nextRadioId \in 1..(MaxRadios + 1)
  /\ control \in [Controls -> ControlStates]
  /\ controlId \in [Controls -> 0..MaxRadios]
  /\ \A w \in Controls : control[w] \in {"adding", "failed", "reply"} => controlId[w] \in RadioIds
  /\ pdo \in [RadioIds -> PdoStates]
  /\ missing \subseteq RadioIds
  /\ radiosAlive \in Nat

\* The radio's lifetime is the handle's: a radio is present to PnP only while the
\* client that asked for it has the device open, and never two at a time.
RadioIsHandle ==
  /\ handle \in {"closed", "teardown", "removed"} => Present = {}
  /\ Cardinality(Present) <= 1

\* RadioPresent and the child list agree, whatever control packets and a failing
\* AddRadio do at the same time.
PresentAgrees ==
  /\ radioPresent => handle \in {"open", "cleanup"}
  /\ Present # {} /\ handle # "remove" => radioPresent /\ currentRadioId \in Present

\* The bug of CHANGELOG.md:49, gone: while the current radio's stack is up, no
\* D0Exit of an earlier radio has made the driver refuse its packets.
StartedWhileInD0 ==
  currentRadioId \in RadioIds /\ pdo[currentRadioId] = "d0" => radioStarted

\* The other way round: once the current radio has left D0 no packet is admitted for it
\* until it is back, though an earlier radio, still being torn down, "can pass through
\* D0 as well, and must not speak for the new one" (pdo.c:72).  Of a radio that
\* has not been up yet this is not so: StartedMeansUp, next.
StoppedIsRefused ==
  currentRadioId \in RadioIds /\ pdo[currentRadioId] = "d3" => ~radioStarted

\* "TRUE while the radio PDO is started and in D0" (winvhci.h:336), of the radio the
\* most recent control packet asked for (winvhci.h:355): with a radio present, the
\* flag that admits packets says that this radio's stack is up.
StartedMeansUp == radioPresent /\ radioStarted => pdo[currentRadioId] = "d0"

\* WINVHCI_STATS.RadiosAlive counts the PDOs that exist.
AliveIsCounted == radiosAlive = Cardinality(Alive)

\* An id is never given out twice: PnP is told of each radio once, and of a new
\* one only while it knows of no device with that id.
FreshIds == [][\A id \in RadioIds : pdo[id] # "none" /\ pdo'[id] = "reported" =>
                                      pdo[id] = "reported"]_vars

\* A closed handle's radio disappears, if no client opens the device again.
RadioVanishes == handle = "closed" ~> (radiosAlive = 0 \/ handle # "closed")
=============================================================================

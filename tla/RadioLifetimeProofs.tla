------------------------- MODULE RadioLifetimeProofs -------------------------
(***************************************************************************)
(* Proofs about RadioLifetime, for any number of control writes, radios    *)
(* and opens: that ids are fresh, that the late end of an earlier radio    *)
(* does not touch the current one, and that a radio lives no longer than   *)
(* the handle it was made for.                                             *)
(***************************************************************************)
EXTENDS RadioLifetime, FiniteSetTheorems, TLAPS

Creating(w) == control[w] \in {"adding", "failed"}

\* Ids count up: the current radio was the last to be named, no later one exists,
\* and a control write between its claim and AddRadio holds the current id.
IdsInv ==
  /\ nextRadioId = currentRadioId + 1
  /\ \A id \in RadioIds : id > currentRadioId => pdo[id] = "none"
  /\ missing \subseteq 1..currentRadioId
  /\ \A w \in Controls : Creating(w) => controlId[w] = currentRadioId /\ pdo[currentRadioId] = "none"
  /\ \A w \in Controls : control[w] = "reply" => controlId[w] <= currentRadioId
  /\ \A v, w \in Controls : Creating(v) /\ Creating(w) => v = w

\* Who may hold RadioPresent, and what it stands for.
HandleInv ==
  /\ \A w \in Controls : control[w] # "idle" => handle \in {"open", "cleanup"}
  /\ \A w \in Controls : Creating(w) => radioPresent
  /\ radioPresent => handle \in {"open", "cleanup"}
  /\ Present \subseteq {currentRadioId}
  /\ Present # {} => radioPresent \/ handle = "remove"

IInv == TypeOK /\ IdsInv /\ HandleInv /\ StartedWhileInD0 /\ StoppedIsRefused /\ AliveIsCounted

\* The PDOs that exist are finitely many, so that they can be counted.
LEMMA AliveIsFinite == IsFiniteSet(Alive)
  <1>1. IsFiniteSet(RadioIds)
    BY RadioAssumption, FS_Interval DEF RadioIds
  <1>2. Alive \in SUBSET RadioIds
    BY DEF Alive
  <1> QED BY <1>1, <1>2, FS_Subset

\* The invariant holds at the start.
LEMMA InitIInv == Init => IInv
  <1> SUFFICES ASSUME Init PROVE IInv
    OBVIOUS
  <1> USE RadioAssumption DEF Init, RadioIds
  <1>1. TypeOK
    <2>1. /\ handle \in Handles
          /\ opens \in 0..MaxOpens
          /\ currentRadioId \in 0..MaxRadios
          /\ nextRadioId \in 1..(MaxRadios + 1)
          /\ missing \subseteq RadioIds
          /\ radiosAlive \in Nat
      BY DEF Handles
    <2>2. /\ control \in [Controls -> ControlStates]
          /\ controlId \in [Controls -> 0..MaxRadios]
          /\ \A w \in Controls : control[w] = "idle"
      BY DEF ControlStates
    <2>3. pdo \in [RadioIds -> PdoStates]
      BY DEF PdoStates
    <2>4. radioPresent \in BOOLEAN /\ radioStarted \in BOOLEAN
      BY Zenon
    <2> QED BY <2>1, <2>2, <2>3, <2>4 DEF TypeOK
  <1>2. IdsInv
    BY DEF IdsInv, Creating
  <1>3. HandleInv
    BY DEF HandleInv, Creating, Present
  <1>4. StartedWhileInD0 /\ StoppedIsRefused
    BY DEF StartedWhileInD0, StoppedIsRefused
  <1>5. AliveIsCounted
    <2>1. Alive = {}
      BY DEF Alive
    <2> QED BY <2>1, FS_EmptySet DEF AliveIsCounted
  <1> QED BY <1>1, <1>2, <1>3, <1>4, <1>5 DEF IInv

\* Only CreatePdo and PdoCleanup change the set of PDOs, and they count.
LEMMA NextAlive == IInv /\ [Next]_vars => AliveIsCounted' /\ radiosAlive' \in Nat
  <1> SUFFICES ASSUME IInv, [Next]_vars PROVE AliveIsCounted' /\ radiosAlive' \in Nat
    OBVIOUS
  <1> USE DEF handleVars, fdoVars, controlVars, pnpVars
  <1>1. /\ pdo \in [RadioIds -> PdoStates]
        /\ \A w \in Controls : control[w] = "adding" => controlId[w] \in RadioIds /\ pdo[controlId[w]] = "none"
        /\ radiosAlive \in Nat
        /\ radiosAlive = Cardinality(Alive)
    BY DEF IInv, TypeOK, IdsInv, Creating, AliveIsCounted
  <1>2. ASSUME NEW id \in RadioIds, CreatePdo(id) PROVE AliveIsCounted' /\ radiosAlive' \in Nat
    <2>1. Alive' = Alive \cup {id} /\ id \notin Alive
      BY <1>1, <1>2 DEF CreatePdo, Alive
    <2>2. Cardinality(Alive') = Cardinality(Alive) + 1
      BY <2>1, AliveIsFinite, FS_AddElement
    <2> QED BY <1>1, <1>2, <2>2 DEF CreatePdo, AliveIsCounted
  <1>3. ASSUME NEW id \in RadioIds, PdoCleanup(id) PROVE AliveIsCounted' /\ radiosAlive' \in Nat
    <2>1. Alive' = Alive \ {id} /\ id \in Alive
      BY <1>1, <1>3 DEF PdoCleanup, Alive
    <2>2. Cardinality(Alive') = Cardinality(Alive) - 1
      BY <2>1, AliveIsFinite, FS_RemoveElement
    <2>3. Cardinality(Alive') \in Nat
      BY <2>1, AliveIsFinite, FS_RemoveElement, FS_CardinalityType
    <2> QED BY <1>1, <1>3, <2>2, <2>3 DEF PdoCleanup, AliveIsCounted
  <1>4. ASSUME Alive' = Alive, radiosAlive' = radiosAlive
        PROVE  AliveIsCounted' /\ radiosAlive' \in Nat
    BY <1>1, <1>4 DEF AliveIsCounted
  <1>5. CASE Open \/ CloseHandle \/ FileClose \/ FinishClose \/ RemoveDevice
    BY <1>4, <1>5 DEF Open, CloseHandle, FileClose, FinishClose, RemoveDevice, Alive
  <1>6. CASE RemoveRadios
    BY <1>1, <1>4, <1>6 DEF RemoveRadios, Alive
  <1>7. ASSUME NEW w \in Controls,
               \/ SendControl(w) \/ RefuseControl(w) \/ ClaimRadio(w)
               \/ AddRadioFails(w) \/ UnclaimRadio(w) \/ FinishControl(w)
        PROVE  AliveIsCounted' /\ radiosAlive' \in Nat
    BY <1>4, <1>7 DEF SendControl, RefuseControl, ClaimRadio, AddRadioFails, UnclaimRadio,
                      FinishControl, Alive
  <1>8. ASSUME NEW w \in Controls, AddRadio(w) PROVE AliveIsCounted' /\ radiosAlive' \in Nat
    BY <1>1, <1>4, <1>8 DEF AddRadio, Alive
  <1>9. ASSUME NEW id \in RadioIds, CreatePdoFails(id) \/ D0Entry(id) \/ D0Exit(id)
        PROVE  AliveIsCounted' /\ radiosAlive' \in Nat
    BY <1>1, <1>4, <1>9 DEF CreatePdoFails, D0Entry, D0Exit, Alive
  <1>10. CASE UNCHANGED vars
    BY <1>4, <1>10 DEF vars, Alive
  <1> QED BY <1>2, <1>3, <1>5, <1>6, <1>7, <1>8, <1>9, <1>10 DEF Next

\* Every step keeps the type.
LEMMA NextTypeOK == IInv /\ [Next]_vars => TypeOK'
  <1> SUFFICES ASSUME IInv, [Next]_vars PROVE TypeOK'
    OBVIOUS
  <1>a. radiosAlive' \in Nat
    BY NextAlive
  <1> USE <1>a, RadioAssumption DEF IInv, TypeOK, RadioIds, handleVars, fdoVars, controlVars, pnpVars
  <1>1. CASE Open \/ CloseHandle \/ FileClose \/ FinishClose \/ RemoveDevice
    <2>1. handle' \in Handles
      BY <1>1 DEF Open, CloseHandle, FileClose, FinishClose, RemoveDevice, Handles
    <2>2. opens' \in 0..MaxOpens
      BY <1>1 DEF Open, CloseHandle, FileClose, FinishClose, RemoveDevice
    <2>3. radioPresent' \in BOOLEAN
      BY <1>1, Zenon DEF Open, CloseHandle, FileClose, FinishClose, RemoveDevice
    <2>4. UNCHANGED <<radioStarted, currentRadioId, nextRadioId, controlVars, pnpVars>>
      BY <1>1 DEF Open, CloseHandle, FileClose, FinishClose, RemoveDevice
    <2> QED BY <2>1, <2>2, <2>3, <2>4
  <1>2. CASE RemoveRadios
    BY <1>2 DEF RemoveRadios, Handles, PdoStates, Present
  <1>3. ASSUME NEW w \in Controls, SendControl(w) \/ RefuseControl(w) \/ AddRadioFails(w)
        PROVE  TypeOK'
    BY <1>3 DEF SendControl, RefuseControl, AddRadioFails, ControlStates
  <1>4. ASSUME NEW w \in Controls, ClaimRadio(w) PROVE TypeOK'
    BY <1>4 DEF ClaimRadio, ControlStates
  <1>5. ASSUME NEW w \in Controls, AddRadio(w) PROVE TypeOK'
    BY <1>5 DEF AddRadio, ControlStates, PdoStates
  <1>6. ASSUME NEW w \in Controls, UnclaimRadio(w) \/ FinishControl(w) PROVE TypeOK'
    <2>1. /\ control' = [control EXCEPT ![w] = "idle"]
          /\ controlId' = [controlId EXCEPT ![w] = 0]
          /\ radioPresent' \in BOOLEAN
          /\ UNCHANGED <<handleVars, radioStarted, currentRadioId, nextRadioId, pnpVars>>
      BY <1>6 DEF UnclaimRadio, FinishControl
    <2> QED BY <2>1 DEF ControlStates
  <1>7. ASSUME NEW id \in RadioIds,
               CreatePdo(id) \/ CreatePdoFails(id) \/ D0Entry(id) \/ D0Exit(id) \/ PdoCleanup(id)
        PROVE  TypeOK'
    BY <1>7 DEF CreatePdo, CreatePdoFails, D0Entry, D0Exit, PdoCleanup, PdoStates
  <1>8. CASE UNCHANGED vars
    BY <1>8 DEF vars
  <1> QED BY <1>1, <1>2, <1>3, <1>4, <1>5, <1>6, <1>7, <1>8 DEF Next

\* Every step keeps the rules of the ids.
LEMMA NextIds == IInv /\ [Next]_vars => IdsInv'
  <1> SUFFICES ASSUME IInv, [Next]_vars PROVE IdsInv'
    OBVIOUS
  <1> USE RadioAssumption DEF IInv, TypeOK, IdsInv, Creating, RadioIds, handleVars, fdoVars,
                              controlVars, pnpVars
  <1>1. CASE Open \/ CloseHandle \/ FileClose \/ FinishClose \/ RemoveDevice
    BY <1>1 DEF Open, CloseHandle, FileClose, FinishClose, RemoveDevice
  <1>2. CASE RemoveRadios
    <2>1. \A id \in RadioIds : pdo'[id] = "none" <=> pdo[id] = "none"
      BY <1>2 DEF RemoveRadios
    <2>2. missing' \subseteq 1..currentRadioId
      <3>1. ASSUME NEW id \in Present PROVE id \in 1..currentRadioId
        <4>1. id \in 1..MaxRadios /\ pdo[id] # "none"
          BY DEF Present
        <4> QED BY <4>1
      <3> QED BY <1>2, <3>1 DEF RemoveRadios
    <2>3. \A w \in Controls : Creating(w) => currentRadioId \in RadioIds
      OBVIOUS
    <2> QED BY <1>2, <2>1, <2>2, <2>3 DEF RemoveRadios
  <1>3. ASSUME NEW w \in Controls, SendControl(w) \/ RefuseControl(w) \/ AddRadioFails(w)
        PROVE  IdsInv'
    BY <1>3 DEF SendControl, RefuseControl, AddRadioFails
  <1>4. ASSUME NEW w \in Controls, ClaimRadio(w) PROVE IdsInv'
    BY <1>4 DEF ClaimRadio, HandleInv
  <1>5. ASSUME NEW w \in Controls, AddRadio(w) PROVE IdsInv'
    BY <1>5 DEF AddRadio
  <1>6. ASSUME NEW w \in Controls, UnclaimRadio(w) \/ FinishControl(w) PROVE IdsInv'
    BY <1>6 DEF UnclaimRadio, FinishControl
  <1>7. ASSUME NEW id \in RadioIds,
               CreatePdo(id) \/ CreatePdoFails(id) \/ D0Entry(id) \/ D0Exit(id) \/ PdoCleanup(id)
        PROVE  IdsInv'
    <2>1. \A i \in RadioIds : pdo'[i] = "none" <=> pdo[i] = "none"
      BY <1>7 DEF CreatePdo, CreatePdoFails, D0Entry, D0Exit, PdoCleanup
    <2>2. UNCHANGED <<currentRadioId, nextRadioId, controlVars, missing>>
      BY <1>7 DEF CreatePdo, CreatePdoFails, D0Entry, D0Exit, PdoCleanup
    <2>3. \A w \in Controls : Creating(w) => currentRadioId \in RadioIds
      OBVIOUS
    <2> QED BY <2>1, <2>2, <2>3
  <1>8. CASE UNCHANGED vars
    BY <1>8 DEF vars
  <1> QED BY <1>1, <1>2, <1>3, <1>4, <1>5, <1>6, <1>7, <1>8 DEF Next

\* Every step keeps the relation of radio, claim and handle.
LEMMA NextHandle == IInv /\ [Next]_vars => HandleInv'
  <1> SUFFICES ASSUME IInv, [Next]_vars PROVE HandleInv'
    OBVIOUS
  <1> USE RadioAssumption DEF IInv, TypeOK, HandleInv, Creating, Present, RadioIds, handleVars,
                              fdoVars, controlVars, pnpVars
  <1>1. CASE Open \/ CloseHandle \/ FileClose \/ FinishClose \/ RemoveDevice
    BY <1>1 DEF Open, CloseHandle, FileClose, FinishClose, RemoveDevice
  <1>2. CASE RemoveRadios
    BY <1>2 DEF RemoveRadios
  <1>3. ASSUME NEW w \in Controls, SendControl(w) \/ RefuseControl(w) \/ AddRadioFails(w)
        PROVE  HandleInv'
    BY <1>3 DEF SendControl, RefuseControl, AddRadioFails
  <1>4. ASSUME NEW w \in Controls, ClaimRadio(w) PROVE HandleInv'
    BY <1>4 DEF ClaimRadio
  <1>5. ASSUME NEW w \in Controls, AddRadio(w) PROVE HandleInv'
    BY <1>5 DEF AddRadio, IdsInv
  <1>6. ASSUME NEW w \in Controls, UnclaimRadio(w) \/ FinishControl(w) PROVE HandleInv'
    BY <1>6 DEF UnclaimRadio, FinishControl, IdsInv
  <1>7. ASSUME NEW id \in RadioIds,
               CreatePdo(id) \/ CreatePdoFails(id) \/ D0Entry(id) \/ D0Exit(id) \/ PdoCleanup(id)
        PROVE  HandleInv'
    <2>1. Present' \subseteq Present
      BY <1>7 DEF CreatePdo, CreatePdoFails, D0Entry, D0Exit, PdoCleanup
    <2>2. UNCHANGED <<handle, radioPresent, currentRadioId, controlVars>>
      BY <1>7 DEF CreatePdo, CreatePdoFails, D0Entry, D0Exit, PdoCleanup
    <2> QED BY <2>1, <2>2
  <1>8. CASE UNCHANGED vars
    BY <1>8 DEF vars
  <1> QED BY <1>1, <1>2, <1>3, <1>4, <1>5, <1>6, <1>7, <1>8 DEF Next

\* A claim makes a radio current that PnP does not know yet; until then, and from
\* then on, what any other radio enters and leaves is none of RadioStarted's
\* business.
LEMMA NextStarted == IInv /\ [Next]_vars => StartedWhileInD0' /\ StoppedIsRefused'
  <1> DEFINE Both == StartedWhileInD0 /\ StoppedIsRefused
  <1> SUFFICES ASSUME IInv, [Next]_vars PROVE Both'
    OBVIOUS
  <1> USE RadioAssumption DEF IInv, TypeOK, StartedWhileInD0, StoppedIsRefused, RadioIds, handleVars,
                              fdoVars, controlVars, pnpVars
  <1>1. CASE Open \/ CloseHandle \/ FileClose \/ FinishClose \/ RemoveDevice
    BY <1>1 DEF Open, CloseHandle, FileClose, FinishClose, RemoveDevice
  <1>2. CASE RemoveRadios
    BY <1>2 DEF RemoveRadios
  <1>3. ASSUME NEW w \in Controls,
               \/ SendControl(w) \/ RefuseControl(w) \/ AddRadioFails(w)
               \/ UnclaimRadio(w) \/ FinishControl(w)
        PROVE  Both'
    BY <1>3 DEF SendControl, RefuseControl, AddRadioFails, UnclaimRadio, FinishControl
  <1>4. ASSUME NEW w \in Controls, ClaimRadio(w) PROVE Both'
    <2>1. currentRadioId' \in RadioIds /\ pdo'[currentRadioId'] = "none"
      BY <1>4 DEF ClaimRadio, IdsInv
    <2> QED BY <2>1
  <1>5. ASSUME NEW w \in Controls, AddRadio(w) PROVE Both'
    BY <1>5 DEF AddRadio
  <1>6. ASSUME NEW id \in RadioIds, CreatePdo(id) \/ CreatePdoFails(id) \/ PdoCleanup(id)
        PROVE  Both'
    BY <1>6 DEF CreatePdo, CreatePdoFails, PdoCleanup
  <1>7. ASSUME NEW id \in RadioIds, D0Entry(id) \/ D0Exit(id) PROVE Both'
    BY <1>7 DEF D0Entry, D0Exit
  <1>8. CASE UNCHANGED vars
    BY <1>8 DEF vars
  <1> QED BY <1>1, <1>2, <1>3, <1>4, <1>5, <1>6, <1>7, <1>8 DEF Next

\* Every step keeps the invariant.
LEMMA NextIInv == IInv /\ [Next]_vars => IInv'
  BY NextTypeOK, NextIds, NextHandle, NextStarted, NextAlive DEF IInv

\* The invariant holds in every behaviour.
LEMMA Inductive == Spec => []IInv
  BY InitIInv, NextIInv, PTL DEF Spec

\* Every variable keeps its type in every behaviour.
THEOREM TypeCorrect == Spec => []TypeOK
  <1>1. IInv => TypeOK
    BY DEF IInv
  <1> QED BY <1>1, Inductive, PTL

\* The defect of CHANGELOG.md:49 cannot recur: while the current radio is in D0,
\* no other radio's end makes the driver refuse its packets (pdo.c, user.c).
THEOREM CurrentRadioStaysStarted == Spec => []StartedWhileInD0
  <1>1. IInv => StartedWhileInD0
    BY DEF IInv
  <1> QED BY <1>1, Inductive, PTL

\* An earlier radio that passes through D0 while it is torn down does not make the
\* driver admit packets for the current one while that one is out of D0 (pdo.c).
THEOREM StoppedRadioIsRefused == Spec => []StoppedIsRefused
  <1>1. IInv => StoppedIsRefused
    BY DEF IInv
  <1> QED BY <1>1, Inductive, PTL

\* PnP is told of each radio id once.
THEOREM IdsAreFresh == Spec => FreshIds
  <1>1. IInv /\ [Next]_vars =>
          [\A id \in RadioIds : pdo[id] # "none" /\ pdo'[id] = "reported" =>
                                  pdo[id] = "reported"]_vars
    <2> SUFFICES ASSUME IInv, [Next]_vars, NEW id \in RadioIds, pdo[id] # "none",
                        pdo'[id] = "reported"
                 PROVE  pdo[id] = "reported"
      OBVIOUS
    <2> USE DEF pnpVars
    <2>1. pdo \in [RadioIds -> PdoStates]
      BY DEF IInv, TypeOK
    <2>2. ASSUME NEW w \in Controls, AddRadio(w) PROVE pdo[id] = "reported"
      BY <2>1, <2>2 DEF AddRadio, IInv, IdsInv, Creating, TypeOK
    <2>3. ASSUME NEW i \in RadioIds,
                 CreatePdo(i) \/ CreatePdoFails(i) \/ D0Entry(i) \/ D0Exit(i) \/ PdoCleanup(i)
          PROVE  pdo[id] = "reported"
      BY <2>1, <2>3 DEF CreatePdo, CreatePdoFails, D0Entry, D0Exit, PdoCleanup
    <2>4. CASE RemoveRadios
      BY <2>4 DEF RemoveRadios
    <2>5. CASE UNCHANGED pdo
      BY <2>5
    <2> QED
      BY <2>2, <2>3, <2>4, <2>5
         DEF Next, Open, CloseHandle, FileClose, FinishClose, RemoveDevice, SendControl,
             RefuseControl, ClaimRadio, AddRadioFails, UnclaimRadio, FinishControl, vars
  <1> QED BY <1>1, Inductive, PTL DEF Spec, FreshIds

\* The radio's lifetime is the handle's lifetime (user.c:47): PnP holds at most one
\* radio as present, and none once EvtFileClose has told it so.
THEOREM LifetimeIsHandle == Spec => []RadioIsHandle
  <1>1. IInv => RadioIsHandle
    <2> SUFFICES ASSUME IInv PROVE RadioIsHandle
      OBVIOUS
    <2>1. handle \in {"closed", "teardown", "removed"} => Present = {}
      BY DEF IInv, HandleInv
    <2>2. Present = {} \/ Present = {currentRadioId}
      BY DEF IInv, HandleInv
    <2>3. Cardinality(Present) <= 1
      <3>1. CASE Present = {}
        BY <3>1, FS_EmptySet
      <3>2. CASE Present = {currentRadioId}
        <4>1. Cardinality({currentRadioId}) = 1
          BY FS_Singleton, Zenon
        <4> QED BY <3>2, <4>1
      <3> QED BY <2>2, <3>1, <3>2
    <2> QED BY <2>1, <2>3 DEF RadioIsHandle
  <1> QED BY <1>1, Inductive, PTL

\* RadioPresent and the child list agree.
THEOREM PresenceAgrees == Spec => []PresentAgrees
  <1>1. IInv => PresentAgrees
    BY DEF IInv, HandleInv, PresentAgrees
  <1> QED BY <1>1, Inductive, PTL

\* RadiosAlive counts the framework device objects that exist.
THEOREM AliveCounted == Spec => []AliveIsCounted
  <1>1. IInv => AliveIsCounted
    BY DEF IInv
  <1> QED BY <1>1, Inductive, PTL
=============================================================================

-------------------------- MODULE VhciDeviceProofs --------------------------
(***************************************************************************)
(* What TLAPS proves of VhciDevice, for any number of writes, opens and    *)
(* reads.                                                                  *)
(*                                                                         *)
(* The argument goes through what Windows says of one open(): a file,      *)
(* a pair of events and the requests all bear the number of the last       *)
(* open(), because the device is exclusive (RequestInv), and the owner's   *)
(* place in open() or close() tells which of them still exist (OwnerInv,   *)
(* EventInv).  A call that is under way knows the number it began with     *)
(* (CallInv), so it can tell its own file and event from later ones.  The  *)
(* reader's properties follow from what its OVERLAPPED holds until the     *)
(* device is closed (ReaderInv), the writers' from the lock (LockInv,      *)
(* WriteInv).                                                              *)
(***************************************************************************)
EXTENDS VhciDevice, FiniteSetTheorems, TLAPS

Steps == {"idle", "event", "lock", "reset", "issue", "check", "reap", "poll", "wait", "result"}
OwnerSteps == {"idle", "create", "read", "write", "overlapped", "take", "cancel", "file",
               "close_read", "close_write"}
Outcomes == {"none", "ok", "empty", "error"}
Overlapped == [event : Nat, status : {"none", "pending", "data", "aborted"}]
Request == [by : Calls, nr : Nat, dir : Dirs, file : Nat, event : Nat, cancelled : BOOLEAN]
Thread == [at : Steps, handle : Nat, event : Nat, session : Nat, pended : BOOLEAN,
           reopened : BOOLEAN, timedOut : BOOLEAN, outcome : Outcomes]

TypeOK ==
  /\ handle \in Nat
  /\ event \in [Dirs -> Nat]
  /\ closing \in BOOLEAN
  /\ ov \in [Dirs -> Overlapped]
  /\ lock \in Writes \union {NoCall}
  /\ files \subseteq Nat
  /\ events \subseteq Dirs \X Nat
  /\ signalled \subseteq Dirs \X Nat
  /\ requests \subseteq Request
  /\ \A r \in requests : r.dir = Dir(r.by)
  /\ owner \in [at : OwnerSteps, handle : Nat, opening : BOOLEAN]
  /\ call \in [Calls -> Thread]
  /\ opened \in Nat /\ closes \in Nat /\ reads \in Nat
  /\ written \subseteq Writes

-----------------------------------------------------------------------------
(* Types.                                                                  *)

\* CancelIoEx marks requests, and neither makes nor ends one.
LEMMA CancelledType ==
  ASSUME TypeOK, NEW f, NEW dirs
  PROVE  /\ Cancelled(f, dirs) \subseteq Request
         /\ \A s \in Cancelled(f, dirs) : s.dir = Dir(s.by)
<1>1. ASSUME NEW r \in requests
      PROVE  /\ [r EXCEPT !.cancelled = TRUE] \in Request
             /\ [r EXCEPT !.cancelled = TRUE].by = r.by
             /\ [r EXCEPT !.cancelled = TRUE].dir = r.dir
  BY DEF TypeOK, Request
<1>2. ASSUME NEW s \in Cancelled(f, dirs)
      PROVE  s \in Request /\ s.dir = Dir(s.by)
  <2>1. PICK r \in requests : s \in {r, [r EXCEPT !.cancelled = TRUE]}
    BY <1>2 DEF Cancelled
  <2>. QED
    BY <1>1, <2>1 DEF TypeOK
<1>. QED
  BY <1>2

\* The end of a call, in the terms of the thread that ends.
LEMMA EndsType ==
  ASSUME TypeOK, NEW c \in Calls, NEW result \in Outcomes, Ends(c, result)
  PROVE  /\ call' \in [Calls -> Thread]
         /\ \A x \in Calls : x # c => call'[x] = call[x]
         /\ call'[c] = [call[c] EXCEPT !.at = "idle", !.handle = 0, !.event = 0, !.outcome = result]
         /\ lock' \in Writes \union {NoCall}
<1>1. call[c] \in Thread
  BY DEF TypeOK
<1>2. [call[c] EXCEPT !.at = "idle", !.handle = 0, !.event = 0, !.outcome = result] \in Thread
  BY <1>1 DEF Thread, Steps
<1>3. call' = [call EXCEPT ![c] = [call[c] EXCEPT !.at = "idle", !.handle = 0, !.event = 0,
                                                 !.outcome = result]]
  BY DEF Ends, TypeOK
<1>. QED
  BY <1>2, <1>3 DEF TypeOK, Ends

\* A step within a call.
LEMMA CallToType ==
  ASSUME TypeOK, NEW c \in Calls, NEW step \in Steps, CallTo(c, step)
  PROVE  /\ call' \in [Calls -> Thread]
         /\ \A x \in Calls : x # c => call'[x] = call[x]
         /\ call'[c] = [call[c] EXCEPT !.at = step]
         /\ lock' \in Writes \union {NoCall}
BY DEF TypeOK, CallTo, Thread

\* The initial state is of the type.
LEMMA InitType == Init => TypeOK
<1>1. /\ Quiet \in Thread
      /\ AtRest \in [at : OwnerSteps, handle : Nat, opening : BOOLEAN]
      /\ [event |-> 0, status |-> "none"] \in Overlapped
  BY DEF Quiet, AtRest, Thread, Overlapped, Steps, OwnerSteps, Outcomes
<1>2. ASSUME Init
      PROVE  /\ closing \in BOOLEAN
             /\ event \in [Dirs -> Nat]
             /\ ov \in [Dirs -> Overlapped]
             /\ owner \in [at : OwnerSteps, handle : Nat, opening : BOOLEAN]
             /\ call \in [Calls -> Thread]
  <2>1. closing \in BOOLEAN
    BY <1>2, Zenon DEF Init
  <2>2. event \in [Dirs -> Nat] /\ ov \in [Dirs -> Overlapped]
    BY <1>1, <1>2 DEF Init
  <2>3. call \in [Calls -> Thread]
    BY <1>1, <1>2 DEF Init
  <2>. QED
    BY <1>1, <1>2, <2>1, <2>2, <2>3 DEF Init
<1>3. ASSUME Init
      PROVE  /\ handle \in Nat /\ opened \in Nat /\ closes \in Nat /\ reads \in Nat
             /\ lock \in Writes \union {NoCall}
             /\ files \subseteq Nat /\ events \subseteq Dirs \X Nat /\ signalled \subseteq Dirs \X Nat
             /\ requests = {} /\ written \subseteq Writes
  BY <1>3 DEF Init
<1>. QED
  BY <1>2, <1>3 DEF TypeOK

\* The owner's steps keep the types.
LEMMA OwnerType ==
  ASSUME TypeOK, OwnerNext
  PROVE  TypeOK'
<1> USE DEF device, kernel, calls, counts, At, OwnerTo, OwnerSteps, AtRest
<1>1. CASE StartOpen
  <2>1. [call[Reader] EXCEPT !.reopened = TRUE] \in Thread
    BY DEF TypeOK, Thread, Calls
  <2>2. call' \in [Calls -> Thread]
    BY <1>1, <2>1 DEF TypeOK, StartOpen
  <2>. QED
    BY <1>1, <2>2 DEF TypeOK, StartOpen, Opening
<1>2. CASE CreateFile
  BY <1>2 DEF TypeOK, CreateFile
<1>3. CASE CreateFileFails
  BY <1>3 DEF TypeOK, CreateFileFails
<1>4. CASE SetOverlapped
  <2>1. \A d \in Dirs : [ov[d] EXCEPT !.event = event[d]] \in Overlapped
    BY DEF TypeOK, Overlapped
  <2>. QED
    BY <1>4, <2>1 DEF TypeOK, SetOverlapped
<1>5. CASE StartClose
  BY <1>5 DEF TypeOK, StartClose
<1>6. CASE CloseClosed
  BY <1>6 DEF TypeOK, CloseClosed
<1>7. CASE TakeHandle
  BY <1>7 DEF TypeOK, TakeHandle
<1>8. CASE CloseCancels
  BY <1>8, CancelledType DEF TypeOK, CloseCancels
<1>9. CASE CloseFile
  BY <1>9, CancelledType DEF TypeOK, CloseFile
<1>10. ASSUME NEW d \in Dirs, CreateEvent(d)
       PROVE  TypeOK'
  BY <1>10 DEF TypeOK, CreateEvent
<1>11. ASSUME NEW d \in Dirs, CloseEvent(d)
       PROVE  TypeOK'
  <2>1. owner' \in [at : OwnerSteps, handle : Nat, opening : BOOLEAN]
    <3>1. [owner EXCEPT !.at = "close_write"] \in [at : OwnerSteps, handle : Nat, opening : BOOLEAN]
      BY DEF TypeOK
    <3>2. owner' \in {AtRest, [owner EXCEPT !.at = "close_write"]}
      BY <1>11 DEF CloseEvent
    <3>3. AtRest \in [at : OwnerSteps, handle : Nat, opening : BOOLEAN]
      OBVIOUS
    <3>. QED
      BY <3>1, <3>2, <3>3, Zenon
  <2>2. event' \in [Dirs -> Nat] /\ events' \subseteq Dirs \X Nat
    BY <1>11 DEF TypeOK, CloseEvent
  <2>. QED
    BY <1>11, <2>1, <2>2 DEF TypeOK, CloseEvent
<1>. QED
  BY <1>1, <1>2, <1>3, <1>4, <1>5, <1>6, <1>7, <1>8, <1>9, <1>10, <1>11 DEF OwnerNext

\* The calls' steps keep the types.
LEMMA CallType ==
  ASSUME TypeOK, NEW c \in Calls, CallNext(c)
  PROVE  TypeOK'
<1> USE DEF device, kernel, counts, Calls, Dir, Event
<1>1. CASE StartCall(c)
  <2>1. [Quiet EXCEPT !.at = "event", !.handle = handle, !.session = opened] \in Thread
    BY DEF TypeOK, Quiet, Thread, Steps, Outcomes
  <2>2. call' \in [Calls -> Thread] /\ reads' \in Nat
    BY <1>1, <2>1 DEF TypeOK, StartCall
  <2>. QED
    BY <1>1, <2>2 DEF TypeOK, StartCall
<1>2. CASE LoadEvent(c)
  <2>1. CASE call[c].handle = 0 \/ event[Dir(c)] = 0
    BY <1>2, <2>1, EndsType DEF TypeOK, LoadEvent, Outcomes
  <2>2. CASE ~(call[c].handle = 0 \/ event[Dir(c)] = 0)
    BY <1>2, <2>2 DEF TypeOK, LoadEvent, Thread, Steps, Dirs
  <2>. QED
    BY <2>1, <2>2
<1>3. CASE c # Reader /\ TakeLock(c)
  BY <1>3 DEF TypeOK, TakeLock, Thread, Steps
<1>4. CASE ResetEvent(c)
  <2>1. signalled' \subseteq Dirs \X Nat
    BY <1>4 DEF TypeOK, ResetEvent
  <2>2. call' \in [Calls -> Thread] /\ lock' \in Writes \union {NoCall}
    BY <1>4, CallToType, EndsType DEF ResetEvent, Steps, Outcomes
  <2>. QED
    BY <1>4, <2>1, <2>2 DEF TypeOK, ResetEvent
<1>5. CASE Pends(c)
  <2>1. requests' \subseteq Request /\ \A r \in requests' : r.dir = Dir(r.by)
    <3>1. /\ call[c].handle \in Nat
          /\ Dir(c) \in Dirs
          /\ ov[Dir(c)].event \in Nat
      BY DEF TypeOK, Thread, Overlapped, Dirs
    <3>2. [by |-> c, nr |-> reads, dir |-> Dir(c), file |-> call[c].handle,
           event |-> ov[Dir(c)].event, cancelled |-> FALSE] \in Request
      BY <3>1 DEF TypeOK, Request
    <3>. DEFINE new == [by |-> c, nr |-> reads, dir |-> Dir(c), file |-> call[c].handle,
                        event |-> ov[Dir(c)].event, cancelled |-> FALSE]
    <3>3. requests' = requests \union {new}
      BY <1>5 DEF Pends
    <3>4. new \in Request /\ new.dir = Dir(new.by)
      BY <3>2
    <3>. HIDE DEF new
    <3>. QED
      BY <3>3, <3>4 DEF TypeOK
  <2>2. ov' \in [Dirs -> Overlapped]
    <3>1. ov[Dir(c)] \in Overlapped
      BY DEF TypeOK, Dirs
    <3>2. [ov[Dir(c)] EXCEPT !.status = "pending"] \in Overlapped
      BY <3>1 DEF Overlapped
    <3>3. ov' = [ov EXCEPT ![Dir(c)] = [ov[Dir(c)] EXCEPT !.status = "pending"]]
      BY <1>5 DEF TypeOK, Pends
    <3>. QED
      BY <3>2, <3>3 DEF TypeOK
  <2>3. call' \in [Calls -> Thread]
    <3> DEFINE step == IF c = Reader THEN "check" ELSE "poll"
    <3>1. call[c] \in Thread /\ step \in Steps
      BY DEF TypeOK, Steps
    <3>2. [call[c] EXCEPT !.at = step, !.pended = TRUE] \in Thread
      <4> HIDE DEF step
      <4>. QED
        BY <3>1 DEF Thread
    <3>3. call' = [call EXCEPT ![c] = [call[c] EXCEPT !.at = step, !.pended = TRUE]]
      BY <1>5 DEF TypeOK, Pends
    <3>. QED
      BY <3>2, <3>3 DEF TypeOK
  <2>. QED
    BY <1>5, <2>1, <2>2, <2>3 DEF TypeOK, Pends
<1>6. CASE CompletesAtOnce(c)
  <2>1. ov' \in [Dirs -> Overlapped]
    <3>1. ov[Dir(c)] \in Overlapped
      BY DEF TypeOK, Dirs
    <3>2. [ov[Dir(c)] EXCEPT !.status = "data"] \in Overlapped
      BY <3>1 DEF Overlapped
    <3>3. ov' = [ov EXCEPT ![Dir(c)] = [ov[Dir(c)] EXCEPT !.status = "data"]]
      BY <1>6 DEF TypeOK, CompletesAtOnce
    <3>. QED
      BY <3>2, <3>3 DEF TypeOK
  <2>2. call' \in [Calls -> Thread] /\ lock' \in Writes \union {NoCall}
    BY <1>6, CallToType DEF CompletesAtOnce, Steps
  <2>3. signalled' \subseteq Dirs \X Nat /\ written' \subseteq Writes
    BY <1>6 DEF TypeOK, CompletesAtOnce, CanIssue, Dirs, Overlapped
  <2>. QED
    BY <1>6, <2>1, <2>2, <2>3 DEF TypeOK, CompletesAtOnce
<1>7. CASE IssueFails(c)
  BY <1>7, EndsType DEF TypeOK, IssueFails, Outcomes
<1>8. CASE Check
  <2>1. call' \in [Calls -> Thread] /\ lock' \in Writes \union {NoCall}
    BY <1>8, CallToType DEF Check, Steps
  <2>. QED
    BY <1>8, <2>1, CancelledType DEF TypeOK, Check
<1>9. CASE Reap
  BY <1>9, EndsType DEF TypeOK, Reap, Outcomes
<1>10. CASE EnterWait(c)
  <2>1. call' \in [Calls -> Thread] /\ lock' \in Writes \union {NoCall}
    BY <1>10, CallToType, EndsType DEF EnterWait, Steps, Failed, Outcomes
  <2>. QED
    BY <1>10, <2>1 DEF TypeOK, EnterWait
<1>11. CASE Signalled(c)
  BY <1>11, CallToType DEF TypeOK, Signalled, Steps
<1>12. CASE TimesOut(c)
  <2>1. call' \in [Calls -> Thread] /\ lock' \in Writes \union {NoCall}
    <3>1. [Quiet EXCEPT !.timedOut = TRUE, !.outcome = "error"] \in Thread
      BY DEF Quiet, Thread, Steps, Outcomes
    <3>. QED
      BY <1>12, <3>1, CallToType DEF TypeOK, TimesOut, Steps
  <2>. QED
    BY <1>12, <2>1, CancelledType DEF TypeOK, TimesOut
<1>13. CASE Result(c)
  BY <1>13, EndsType DEF TypeOK, Result, Failed, Outcomes
<1>14. ASSUME NEW r \in requests, r.by = c, Complete(r)
       PROVE  TypeOK'
  BY <1>14 DEF TypeOK, Complete, Overlapped, Request
<1>. QED
  BY <1>1, <1>2, <1>3, <1>4, <1>5, <1>6, <1>7, <1>8, <1>9, <1>10, <1>11, <1>12, <1>13, <1>14
  DEF CallNext, Step

\* Every step keeps the type.
LEMMA NextType == TypeOK /\ [Next]_vars => TypeOK'
<1>1. ASSUME TypeOK, UNCHANGED vars
      PROVE  TypeOK'
  BY <1>1 DEF TypeOK, vars, device, kernel, calls, counts
<1>. QED
  BY <1>1, OwnerType, CallType DEF Next
-----------------------------------------------------------------------------
(* Who changes what.                                                       *)

\* A step of a call leaves the owner's side alone, the events of the OVERLAPPEDs
\* and the other calls.
LEMMA CallFrame ==
  ASSUME TypeOK, NEW c \in Calls, CallNext(c)
  PROVE  /\ UNCHANGED <<handle, event, closing, files, events, owner, opened, closes>>
         /\ \A d \in Dirs : ov'[d].event = ov[d].event
         /\ \A d \in Dirs : d # Dir(c) => ov'[d] = ov[d]
         /\ \A x \in Calls : x # c => call'[x] = call[x]
<1> USE DEF device, kernel, counts
<1>1. CASE StartCall(c)
  BY <1>1 DEF TypeOK, StartCall
<1>2. CASE LoadEvent(c) \/ IssueFails(c) \/ EnterWait(c) \/ Signalled(c) \/ Result(c)
  BY <1>2 DEF TypeOK, LoadEvent, IssueFails, EnterWait, Signalled, Result, CallTo, Ends
<1>3. CASE c # Reader /\ TakeLock(c)
  BY <1>3 DEF TypeOK, TakeLock
<1>4. CASE ResetEvent(c)
  BY <1>4 DEF TypeOK, ResetEvent, CallTo, Ends
<1>5. CASE Pends(c) \/ CompletesAtOnce(c)
  BY <1>5 DEF TypeOK, Overlapped, Pends, CompletesAtOnce, CallTo
<1>6. CASE c = Reader /\ (Check \/ Reap)
  BY <1>6 DEF TypeOK, Check, Reap, CallTo, Ends
<1>7. CASE TimesOut(c)
  BY <1>7 DEF TypeOK, TimesOut, CallTo
<1>8. ASSUME NEW r \in requests, r.by = c, Complete(r)
      PROVE  /\ UNCHANGED <<handle, event, closing, files, events, owner, opened, closes, call>>
             /\ \A d \in Dirs : ov'[d].event = ov[d].event
             /\ \A d \in Dirs : d # r.dir => ov'[d] = ov[d]
  BY <1>8 DEF TypeOK, Overlapped, Complete
<1>9. ASSUME NEW r \in requests, r.by = c, Complete(r)
      PROVE  r.dir = Dir(c)
  BY <1>9 DEF TypeOK
<1>. QED
  BY <1>1, <1>2, <1>3, <1>4, <1>5, <1>6, <1>7, <1>8, <1>9 DEF CallNext, Step

\* A step of the owner leaves the calls alone, but for what StartOpen notes.
LEMMA OwnerFrame ==
  ASSUME TypeOK, OwnerNext
  PROVE  /\ UNCHANGED <<signalled, lock, reads, written>>
         /\ \A d \in Dirs : ov'[d].status = ov[d].status
         /\ \A c \in Calls : c # Reader => call'[c] = call[c]
         /\ \/ call' = call
            \/ StartOpen /\ call'[Reader] = [call[Reader] EXCEPT !.reopened = TRUE]
<1> USE DEF device, kernel, calls, counts
<1>1. CASE StartOpen
  BY <1>1 DEF TypeOK, StartOpen, Calls
<1>2. CASE SetOverlapped
  BY <1>2 DEF TypeOK, Overlapped, SetOverlapped
<1>3. CASE CreateFile \/ CreateFileFails \/ StartClose \/ CloseClosed \/ TakeHandle
           \/ CloseCancels \/ CloseFile \/ \E d \in Dirs : CreateEvent(d) \/ CloseEvent(d)
  BY <1>3 DEF CreateFile, CreateFileFails, StartClose, CloseClosed, TakeHandle, CloseCancels,
    CloseFile, CreateEvent, CloseEvent
<1>. QED
  BY <1>1, <1>2, <1>3 DEF OwnerNext
-----------------------------------------------------------------------------
(* The owner.                                                              *)

\* The owner's place in open() and close() determines the handle, the open file
\* and the number of closes.
OwnerInv ==
  /\ At("idle") => ~owner.opening /\ handle \in {0, opened}
  /\ owner.at \in {"create", "read", "write", "overlapped"} => owner.opening /\ ~closing
  /\ owner.at \in {"read", "write", "overlapped", "take"} => handle = opened /\ opened # 0
  /\ owner.at \in {"create", "cancel", "file", "close_read", "close_write"} => handle = 0
  /\ owner.at \in {"cancel", "file", "close_read", "close_write"} => owner.handle = opened /\ opened # 0
  /\ files = IF handle # 0 \/ owner.at \in {"cancel", "file"} THEN {opened} ELSE {}
  /\ closes = IF handle # 0 /\ ~At("take") THEN opened - 1 ELSE opened
  /\ closing => closes = opened
  /\ owner.at \in {"take", "cancel", "file", "close_read", "close_write"} => closing

\* Every step keeps what is known at the owner's places.
LEMMA NextOwner ==
  ASSUME TypeOK, OwnerInv, [Next]_vars
  PROVE  OwnerInv'
<1> USE DEF At, OwnerTo, OwnerSteps, AtRest, TypeOK, device, kernel, calls, counts
<1>1. CASE StartOpen
  BY <1>1 DEF OwnerInv, StartOpen, Opening
<1>2. CASE CreateFile
  <2>1. files = {} /\ handle = 0 /\ closes = opened
    BY <1>2 DEF OwnerInv, CreateFile
  <2>2. files' = {opened'} /\ handle' = opened' /\ opened' # 0 /\ closes' = opened' - 1
    BY <1>2, <2>1 DEF CreateFile
  <2>. QED
    BY <1>2, <2>1, <2>2 DEF OwnerInv, CreateFile
<1>3. CASE CreateFileFails
  BY <1>3 DEF OwnerInv, CreateFileFails
<1>4. CASE SetOverlapped
  BY <1>4 DEF OwnerInv, SetOverlapped
<1>5. CASE StartClose
  BY <1>5 DEF OwnerInv, StartClose
<1>6. CASE CloseClosed
  BY <1>6 DEF OwnerInv, CloseClosed
<1>7. CASE TakeHandle
  BY <1>7 DEF OwnerInv, TakeHandle
<1>8. CASE CloseCancels
  BY <1>8 DEF OwnerInv, CloseCancels
<1>9. CASE CloseFile
  BY <1>9 DEF OwnerInv, CloseFile
<1>10. ASSUME NEW d \in Dirs, CreateEvent(d)
       PROVE  OwnerInv'
  BY <1>10 DEF OwnerInv, CreateEvent, Dirs
<1>11. ASSUME NEW d \in Dirs, CloseEvent(d)
       PROVE  OwnerInv'
  BY <1>11 DEF OwnerInv, CloseEvent, Dirs
<1>12. CASE UNCHANGED <<handle, closing, files, owner, opened, closes>>
  BY <1>12 DEF OwnerInv
<1>13. ASSUME NEW c \in Calls, CallNext(c)
       PROVE  OwnerInv'
  BY <1>12, <1>13, CallFrame
<1>14. CASE UNCHANGED vars
  BY <1>12, <1>14 DEF vars
<1>. QED
  BY <1>1, <1>2, <1>3, <1>4, <1>5, <1>6, <1>7, <1>8, <1>9, <1>10, <1>11, <1>13, <1>14
  DEF Next, OwnerNext

\* The events of a direction: none, or the one of the last open().
EventInv ==
  /\ \A d \in Dirs : event[d] \in {0, opened}
  /\ \A d \in Dirs, n \in Nat : <<d, n>> \in events <=> n # 0 /\ event[d] = n
  /\ ~owner.opening /\ files # {} => \A d \in Dirs : event[d] = opened /\ ov[d].event = opened
  /\ (handle = 0 /\ owner.at \in {"idle", "create"}) \/ At("read") => \A d \in Dirs : event[d] = 0
  /\ At("write") \/ At("overlapped") => event["read"] = opened
  /\ At("write") => event["write"] = 0
  /\ At("overlapped") => event["write"] = opened
  /\ At("close_write") => event["read"] = 0

\* Every step keeps what is known of the events.
LEMMA NextEvent ==
  ASSUME TypeOK, OwnerInv, EventInv, [Next]_vars
  PROVE  EventInv'
<1> USE DEF At, OwnerTo, OwnerSteps, AtRest, TypeOK, device, kernel, calls, counts, Dirs
<1>1. CASE StartOpen
  BY <1>1 DEF OwnerInv, EventInv, StartOpen
<1>2. CASE CreateFile
  BY <1>2 DEF OwnerInv, EventInv, CreateFile
<1>3. CASE CreateFileFails
  BY <1>3 DEF OwnerInv, EventInv, CreateFileFails
<1>4. CASE SetOverlapped
  BY <1>4 DEF OwnerInv, EventInv, SetOverlapped, Overlapped
<1>5. CASE StartClose
  BY <1>5 DEF OwnerInv, EventInv, StartClose
<1>6. CASE CloseClosed
  BY <1>6 DEF OwnerInv, EventInv, CloseClosed
<1>7. CASE TakeHandle
  BY <1>7 DEF OwnerInv, EventInv, TakeHandle
<1>8. CASE CloseCancels
  BY <1>8 DEF OwnerInv, EventInv, CloseCancels
<1>9. CASE CloseFile
  BY <1>9 DEF OwnerInv, EventInv, CloseFile
<1>10. ASSUME NEW d \in Dirs, CreateEvent(d)
       PROVE  EventInv'
  BY <1>10 DEF OwnerInv, EventInv, CreateEvent
<1>11. ASSUME NEW d \in Dirs, CloseEvent(d)
       PROVE  EventInv'
  BY <1>11 DEF OwnerInv, EventInv, CloseEvent
<1>12. CASE /\ UNCHANGED <<handle, event, files, events, owner, opened>>
            /\ \A d \in Dirs : ov'[d].event = ov[d].event
  BY <1>12 DEF EventInv
<1>13. ASSUME NEW c \in Calls, CallNext(c)
       PROVE  EventInv'
  BY <1>12, <1>13, CallFrame
<1>14. CASE UNCHANGED vars
  BY <1>12, <1>14 DEF vars
<1>. QED
  BY <1>1, <1>2, <1>3, <1>4, <1>5, <1>6, <1>7, <1>8, <1>9, <1>10, <1>11, <1>13, <1>14
  DEF Next, OwnerNext
-----------------------------------------------------------------------------
(* The calls.                                                              *)

\* A call knows the open() it began on: its handle and its event are of that one, or
\* of none, and nothing of its own is newer than the device.
Pending == {"check", "reap", "poll", "wait"}
ThreadInv(c) ==
  LET k == call[c] IN
  /\ k.session <= opened
  /\ owner.opening /\ ~At("create") => k.session < opened
  /\ k.handle \in {0, k.session}
  /\ k.at \notin {"idle", "event"} => k.handle # 0 /\ k.session <= k.event /\ k.event <= opened
  /\ k.handle # 0 /\ k.session = opened => \A d \in Dirs : ov[d].event = opened
  /\ k.at = "event" /\ k.handle = 0 => closes >= k.session
  /\ k.at # "idle" => k.outcome = "none"
  /\ k.at = "idle" => k.handle = 0
  /\ k.at \in {"event", "lock", "reset", "issue"} => ~k.pended
  /\ k.at \in Pending => k.pended
  /\ k.at \in {"check", "reap"} => c = Reader
  /\ k.at = "lock" => c # Reader
  /\ k.timedOut => c # Reader /\ k.at = "idle" /\ k.outcome = "error"

CallInv == \A c \in Calls : ThreadInv(c)

\* The lock is held from the ResetEvent to the end of the call.
LockInv ==
  \A w \in Writes : call[w].at \in {"reset", "issue", "poll", "wait", "result"} <=> lock = w

\* What the owner does leaves every call as it was.
LEMMA OwnerCall ==
  ASSUME TypeOK, OwnerInv, EventInv, CallInv, OwnerNext
  PROVE  CallInv'
<1> SUFFICES ASSUME NEW c \in Calls
             PROVE  ThreadInv(c)'
  BY DEF CallInv
<1> USE DEF At, OwnerTo, OwnerSteps, AtRest, device, kernel, calls, counts
<1>1. ThreadInv(c) /\ call[c] \in Thread /\ opened \in Nat /\ closes \in Nat /\ Reader \in Calls
  BY DEF TypeOK, CallInv, Calls
<1>2. /\ call'[c].at = call[c].at
      /\ call'[c].handle = call[c].handle
      /\ call'[c].event = call[c].event
      /\ call'[c].session = call[c].session
      /\ call'[c].pended = call[c].pended
      /\ call'[c].timedOut = call[c].timedOut
      /\ call'[c].outcome = call[c].outcome
  BY <1>1, OwnerFrame DEF Thread
<1>3. CASE StartOpen
  BY <1>1, <1>2, <1>3 DEF ThreadInv, StartOpen, Thread
<1>4. CASE CreateFile
  <2>1. closes = opened /\ closes' = closes /\ opened' = opened + 1 /\ ov' = ov
    BY <1>4 DEF OwnerInv, CreateFile
  <2>. QED
    BY <1>1, <1>2, <1>4, <2>1 DEF ThreadInv, CreateFile, Thread
<1>5. CASE CreateFileFails
  BY <1>1, <1>2, <1>5 DEF ThreadInv, CreateFileFails, Thread
<1>6. CASE SetOverlapped
  <2>1. owner.opening /\ opened' = opened /\ closes' = closes
    BY <1>6 DEF OwnerInv, SetOverlapped
  <2>2. call[c].session < opened
    BY <1>1, <1>6, <2>1 DEF ThreadInv, SetOverlapped
  <2>. QED
    BY <1>1, <1>2, <1>6, <2>1, <2>2 DEF ThreadInv, SetOverlapped, Thread
<1>7. CASE StartClose
  <2>1. closes' = closes + 1 /\ opened' = opened /\ ov' = ov /\ owner'.opening = owner.opening
    BY <1>7 DEF StartClose, TypeOK
  <2>2. owner.opening => ~At("create")
    BY <1>7 DEF StartClose, OwnerInv
  <2>. QED
    BY <1>1, <1>2, <1>7, <2>1, <2>2 DEF ThreadInv, Thread
<1>8. CASE CloseClosed
  BY <1>1, <1>2, <1>8 DEF ThreadInv, CloseClosed, Thread
<1>9. CASE TakeHandle \/ CloseCancels \/ CloseFile \/ \E d \in Dirs : CreateEvent(d) \/ CloseEvent(d)
  <2>1. closes' = closes /\ opened' = opened /\ ov' = ov
    BY <1>9 DEF TakeHandle, CloseCancels, CloseFile, CreateEvent, CloseEvent
  <2>2. owner'.opening => owner.opening
    <3>1. CASE TakeHandle \/ CloseCancels \/ CloseFile \/ \E d \in Dirs : CreateEvent(d)
      BY <3>1 DEF TakeHandle, CloseCancels, CloseFile, CreateEvent, TypeOK
    <3>2. CASE \E d \in Dirs : CloseEvent(d)
      BY <3>2 DEF CloseEvent, TypeOK
    <3>. QED
      BY <1>9, <3>1, <3>2
  <2>3. ~At("create")
    BY <1>9 DEF TakeHandle, CloseCancels, CloseFile, CreateEvent, CloseEvent, Dirs
  <2>. QED
    BY <1>1, <1>2, <1>9, <2>1, <2>2, <2>3 DEF ThreadInv, Thread
<1>. QED
  BY <1>3, <1>4, <1>5, <1>6, <1>7, <1>8, <1>9 DEF OwnerNext

\* Neither does another call.
LEMMA OtherCalls ==
  ASSUME TypeOK, CallInv, NEW c \in Calls, CallNext(c), NEW x \in Calls, x # c
  PROVE  ThreadInv(x)'
BY CallFrame DEF CallInv, ThreadInv, At

\* What a call does.
LEMMA CallCall ==
  ASSUME TypeOK, OwnerInv, EventInv, CallInv, NEW c \in Calls, CallNext(c)
  PROVE  CallInv'
<1> SUFFICES ThreadInv(c)'
  BY OtherCalls DEF CallInv
<1>1. /\ ThreadInv(c) /\ call[c] \in Thread
      /\ opened \in Nat /\ closes \in Nat /\ handle \in Nat /\ Dir(c) \in Dirs /\ event \in [Dirs -> Nat]
  BY DEF TypeOK, CallInv, Dir, Dirs
<1>2. /\ UNCHANGED <<handle, event, closing, files, events, owner, opened, closes>>
      /\ \A d \in Dirs : ov'[d].event = ov[d].event
  BY CallFrame
<1>3. ASSUME NEW result \in Outcomes, Ends(c, result), call[c].at # "idle"
      PROVE  ThreadInv(c)'
  <2>1. call'[c] = [call[c] EXCEPT !.at = "idle", !.handle = 0, !.event = 0, !.outcome = result]
    BY <1>3, EndsType
  <2>2. ~call[c].timedOut
    BY <1>1, <1>3 DEF ThreadInv
  <2>. QED
    BY <1>1, <1>2, <2>1, <2>2 DEF ThreadInv, Thread, At, Pending
<1>4. ASSUME NEW step \in {"reset", "issue", "check", "reap", "poll", "wait", "result"},
             call'[c] = [call[c] EXCEPT !.at = step],
             call[c].at \notin {"idle", "event"},
             step \in {"reset", "issue"} => call[c].at \in {"lock", "reset"},
             step \in Pending => call[c].at \in Pending,
             step \in {"check", "reap"} => c = Reader
      PROVE  ThreadInv(c)'
  BY <1>1, <1>2, <1>4 DEF ThreadInv, Thread, At, Pending
<1>5. CASE StartCall(c)
  <2>1. call'[c] = [Quiet EXCEPT !.at = "event", !.handle = handle, !.session = opened]
    BY <1>5 DEF StartCall, TypeOK
  <2>2. ~owner.opening /\ handle \in {0, opened}
    BY <1>5 DEF StartCall, OwnerInv, At, TypeOK, OwnerSteps
  <2>3. handle # 0 => \A d \in Dirs : ov[d].event = opened
    BY <2>2 DEF OwnerInv, EventInv
  <2>4. handle = 0 => closes = opened
    BY DEF OwnerInv
  <2>. QED
    BY <1>1, <1>2, <2>1, <2>2, <2>3, <2>4 DEF ThreadInv, Quiet, At, Pending
<1>6. CASE LoadEvent(c)
  <2>1. CASE call[c].handle = 0 \/ event[Dir(c)] = 0
    BY <1>3, <1>6, <2>1 DEF LoadEvent, Outcomes
  <2>2. CASE ~(call[c].handle = 0 \/ event[Dir(c)] = 0)
    <3>1. event[Dir(c)] = opened
      BY <1>1, <2>2 DEF EventInv
    <3>2. call'[c] = [call[c] EXCEPT !.at = IF c = Reader THEN "reset" ELSE "lock", !.event = opened]
      BY <1>6, <2>2, <3>1 DEF LoadEvent, TypeOK
    <3>. QED
      BY <1>1, <1>2, <1>6, <2>2, <3>2 DEF ThreadInv, Thread, At, Pending, LoadEvent
  <2>. QED
    BY <2>1, <2>2
<1>7. CASE c # Reader /\ TakeLock(c)
  BY <1>1, <1>4, <1>7 DEF TakeLock, TypeOK, Pending
<1>8. CASE ResetEvent(c)
  BY <1>3, <1>4, <1>8, CallToType DEF ResetEvent, Outcomes, Steps, Pending
<1>9. CASE Pends(c)
  <2>1. call'[c] = [call[c] EXCEPT !.at = IF c = Reader THEN "check" ELSE "poll", !.pended = TRUE]
    BY <1>9 DEF Pends, TypeOK
  <2>2. /\ call'[c].at = IF c = Reader THEN "check" ELSE "poll"
        /\ call'[c].handle = call[c].handle
        /\ call'[c].event = call[c].event
        /\ call'[c].session = call[c].session
        /\ call'[c].timedOut = call[c].timedOut
        /\ call'[c].outcome = call[c].outcome
    BY <1>1, <2>1 DEF Thread
  <2>3. call'[c].pended
    BY <1>1, <2>1 DEF Thread
  <2>4. call[c].at = "issue"
    BY <1>9 DEF Pends, CanIssue
  <2>. QED
    BY <1>1, <1>2, <2>2, <2>3, <2>4 DEF ThreadInv, At, Pending
<1>10. CASE CompletesAtOnce(c)
  BY <1>4, <1>10, CallToType DEF CompletesAtOnce, CanIssue, Steps, Pending
<1>11. CASE IssueFails(c)
  BY <1>3, <1>11 DEF IssueFails, Outcomes
<1>12. CASE c = Reader /\ Check
  BY <1>4, <1>12, CallToType DEF Check, Steps, Pending
<1>13. CASE c = Reader /\ Reap
  BY <1>3, <1>13 DEF Reap, Outcomes
<1>14. CASE EnterWait(c)
  BY <1>3, <1>4, <1>14, CallToType DEF EnterWait, Failed, Outcomes, Steps, Pending
<1>15. CASE Signalled(c)
  BY <1>4, <1>15, CallToType DEF Signalled, Steps, Pending
<1>16. CASE TimesOut(c)
  <2>1. CASE c = Reader
    BY <1>4, <1>16, <2>1, CallToType DEF TimesOut, Steps, Pending
  <2>2. CASE c # Reader
    <3>1. call'[c] = [Quiet EXCEPT !.timedOut = TRUE, !.outcome = "error"]
      BY <1>16, <2>2 DEF TimesOut, TypeOK
    <3>2. /\ call'[c].at = "idle" /\ call'[c].outcome = "error"
          /\ call'[c].handle = 0 /\ call'[c].session = 0
      BY <3>1 DEF Quiet
    <3>3. owner.opening /\ ~At("create") => 0 < opened
      BY <1>1 DEF ThreadInv, Thread
    <3>. QED
      BY <1>1, <1>2, <2>2, <3>2, <3>3 DEF ThreadInv, At, Pending
  <2>. QED
    BY <2>1, <2>2
<1>17. CASE Result(c)
  BY <1>3, <1>17 DEF Result, Failed, Outcomes
<1>18. ASSUME NEW r \in requests, Complete(r)
       PROVE  ThreadInv(c)'
  <2>1. call' = call
    BY <1>18 DEF Complete
  <2>. QED
    BY <1>1, <1>2, <2>1 DEF ThreadInv, At
<1>. QED
  BY <1>5, <1>6, <1>7, <1>8, <1>9, <1>10, <1>11, <1>12, <1>13, <1>14, <1>15, <1>16, <1>17, <1>18
  DEF CallNext, Step

\* Every step keeps what is known at the places of a read or a write.
LEMMA NextCall ==
  ASSUME TypeOK, OwnerInv, EventInv, CallInv, [Next]_vars
  PROVE  CallInv'
<1>1. CASE UNCHANGED vars
  BY <1>1 DEF CallInv, ThreadInv, At, vars, device, calls, counts
<1>. QED
  BY <1>1, OwnerCall, CallCall DEF Next

\* Every step keeps the locks with those who hold them.
LEMMA NextLock ==
  ASSUME TypeOK, CallInv, LockInv, [Next]_vars
  PROVE  LockInv'
<1>1. CASE OwnerNext
  <2>1. \A w \in Writes : w \in Calls /\ w # Reader
    BY DeviceAssumption DEF Calls
  <2>. QED
    BY <1>1, <2>1, OwnerFrame DEF LockInv
<1>2. ASSUME NEW c \in Calls, CallNext(c)
      PROVE  LockInv'
  <2>1. /\ call[c] \in Thread /\ ThreadInv(c)
        /\ \A w \in Writes : w \in Calls /\ w # Reader /\ w # NoCall
        /\ lock # Reader
        /\ c # Reader => c \in Writes
    BY DeviceAssumption DEF TypeOK, CallInv, Calls
  <2>2. \A x \in Calls : x # c => call'[x] = call[x]
    BY <1>2, CallFrame
  <2>3. ASSUME NEW result \in Outcomes, Ends(c, result)
        PROVE  LockInv'
    <3>1. call'[c].at = "idle"
      BY <2>1, <2>3, EndsType DEF Thread
    <3>2. lock' = IF lock = c THEN NoCall ELSE lock
      BY <2>3 DEF Ends
    <3>. QED
      BY <2>1, <2>2, <3>1, <3>2 DEF LockInv
  <2>4. ASSUME call'[c].at \in {"reset", "issue", "poll", "wait", "result"}, lock' = lock,
               call[c].at \in {"reset", "issue", "poll", "wait", "result"} \/ c = Reader
        PROVE  LockInv'
    BY <2>1, <2>2, <2>4 DEF LockInv
  <2>5. ASSUME call'[c].at \in {"idle", "event", "lock", "check", "reap"}, lock' = lock,
               call[c].at \in {"idle", "event"} \/ c = Reader
        PROVE  LockInv'
    BY <2>1, <2>2, <2>5 DEF LockInv
  <2>6. ASSUME NEW step \in Steps, CallTo(c, step)
        PROVE  call'[c].at = step /\ lock' = lock
    BY <2>1, <2>6, CallToType DEF CallTo, Thread
  <2>7. CASE StartCall(c)
    <3>1. call'[c].at = "event" /\ call[c].at = "idle" /\ lock' = lock
      BY <2>7 DEF StartCall, TypeOK, Quiet
    <3>. QED
      BY <2>5, <3>1
  <2>8. CASE LoadEvent(c)
    <3>1. CASE call[c].handle = 0 \/ event[Dir(c)] = 0
      BY <2>3, <2>8, <3>1 DEF LoadEvent, Outcomes
    <3>2. CASE ~(call[c].handle = 0 \/ event[Dir(c)] = 0)
      <4>1. /\ call'[c].at = (IF c = Reader THEN "reset" ELSE "lock")
            /\ call[c].at = "event" /\ lock' = lock
        BY <2>1, <2>8, <3>2 DEF LoadEvent, TypeOK, Thread
      <4>. QED
        BY <2>4, <2>5, <4>1
    <3>. QED
      BY <3>1, <3>2
  <2>9. CASE c # Reader /\ TakeLock(c)
    <3>1. call'[c].at = "reset" /\ lock' = c /\ lock = NoCall
      BY <2>9 DEF TakeLock, TypeOK, Thread
    <3>. QED
      BY <2>1, <2>2, <2>9, <3>1 DEF LockInv
  <2>10. CASE ResetEvent(c)
    BY <2>3, <2>4, <2>6, <2>10 DEF ResetEvent, Outcomes, Steps
  <2>11. CASE Pends(c)
    <3>1. /\ call'[c].at = (IF c = Reader THEN "check" ELSE "poll")
          /\ call[c].at = "issue" /\ lock' = lock
      BY <2>1, <2>11 DEF Pends, CanIssue, TypeOK, Thread
    <3>. QED
      BY <2>4, <2>5, <3>1
  <2>12. CASE CompletesAtOnce(c)
    BY <2>4, <2>6, <2>12 DEF CompletesAtOnce, CanIssue, Steps
  <2>13. CASE IssueFails(c) \/ (c = Reader /\ Reap)
    BY <2>3, <2>13 DEF IssueFails, Reap, Outcomes
  <2>14. CASE c = Reader /\ Check
    BY <2>4, <2>5, <2>6, <2>14 DEF Check, Steps
  <2>15. CASE EnterWait(c)
    BY <2>3, <2>4, <2>6, <2>15 DEF EnterWait, Failed, Outcomes, Steps
  <2>16. CASE Signalled(c)
    BY <2>4, <2>6, <2>16 DEF Signalled, Steps
  <2>17. CASE TimesOut(c)
    <3>1. CASE c = Reader
      BY <2>5, <2>6, <2>17, <3>1 DEF TimesOut, Steps
    <3>2. CASE c # Reader
      <4>1. call'[c].at = "idle" /\ lock' = NoCall /\ call[c].at = "wait"
        <5>1. call'[c] = [Quiet EXCEPT !.timedOut = TRUE, !.outcome = "error"]
          BY <2>17, <3>2 DEF TimesOut, TypeOK
        <5>2. lock' = NoCall /\ call[c].at = "wait"
          BY <2>17, <3>2 DEF TimesOut
        <5>. QED
          BY <5>1, <5>2 DEF Quiet
      <4>. QED
        BY <2>1, <2>2, <3>2, <4>1 DEF LockInv
    <3>. QED
      BY <3>1, <3>2
  <2>18. CASE Result(c)
    BY <2>3, <2>18 DEF Result, Failed, Outcomes
  <2>19. ASSUME NEW r \in requests, Complete(r)
         PROVE  LockInv'
    BY <2>19 DEF Complete, LockInv
  <2>. QED
    BY <1>2, <2>7, <2>8, <2>9, <2>10, <2>11, <2>12, <2>13, <2>14, <2>15, <2>16, <2>17, <2>18, <2>19
    DEF CallNext, Step
<1>3. CASE UNCHANGED vars
  BY <1>3 DEF LockInv, vars, calls
<1>. QED
  BY <1>1, <1>2, <1>3 DEF Next
-----------------------------------------------------------------------------
(* The requests.                                                           *)

\* A request after CancelIoEx.
Marked(r, f, dirs) == IF r.file = f /\ r.dir \in dirs THEN [r EXCEPT !.cancelled = TRUE] ELSE r

\* Cancelling a file's requests marks those of its directions, and changes nothing else.
LEMMA CancelledIsMarked ==
  ASSUME TypeOK, NEW f, NEW dirs, NEW s \in Cancelled(f, dirs)
  PROVE  \E r \in requests :
           /\ s = Marked(r, f, dirs)
           /\ s.by = r.by /\ s.nr = r.nr /\ s.dir = r.dir /\ s.file = r.file /\ s.event = r.event
           /\ r.cancelled => s.cancelled
           /\ r.file = f /\ r.dir \in dirs => s.cancelled
           /\ s.cancelled => r.cancelled \/ (r.file = f /\ r.dir \in dirs)
<1>1. PICK r \in requests : s = Marked(r, f, dirs)
  BY DEF Cancelled, Marked
<1>2. r \in Request
  BY DEF TypeOK
<1>3. CASE r.file = f /\ r.dir \in dirs
  <2>1. s = [r EXCEPT !.cancelled = TRUE]
    BY <1>1, <1>3 DEF Marked
  <2>2. /\ s.by = r.by /\ s.nr = r.nr /\ s.dir = r.dir /\ s.file = r.file /\ s.event = r.event
        /\ s.cancelled
    BY <1>2, <2>1 DEF Request
  <2>. QED
    BY <1>1, <1>3, <2>2
<1>4. CASE ~(r.file = f /\ r.dir \in dirs)
  <2>1. s = r
    BY <1>1, <1>4 DEF Marked
  <2>. QED
    BY <1>4, <2>1, <1>1
<1>. QED
  BY <1>3, <1>4

\* The reader and the writers do not meet: a call leaves the other direction's
\* OVERLAPPED, events and requests alone.
LEMMA OtherSide ==
  ASSUME TypeOK, NEW c \in Calls, CallNext(c)
  PROVE  /\ \A d, n : d # Dir(c) => (<<d, n>> \in signalled' <=> <<d, n>> \in signalled)
         /\ \A r \in requests' : r.dir # Dir(c) => r \in requests
         /\ c = Reader => UNCHANGED <<lock, written>>
         /\ c # Reader => reads' = reads
<1> USE DEF device, kernel, counts
<1>1. lock # Reader
  BY DeviceAssumption DEF TypeOK
<1>2. CASE StartCall(c) \/ LoadEvent(c) \/ (c # Reader /\ TakeLock(c)) \/ IssueFails(c)
           \/ (c = Reader /\ Reap) \/ EnterWait(c) \/ Signalled(c) \/ Result(c)
  <2>1. signalled' = signalled /\ requests' = requests /\ written' = written
    BY <1>2 DEF StartCall, LoadEvent, TakeLock, IssueFails, Reap, EnterWait, Signalled, Result
  <2>2. c # Reader => reads' = reads
    BY <1>2 DEF StartCall, LoadEvent, TakeLock, IssueFails, Reap, EnterWait, Signalled, Result
  <2>3. CASE StartCall(c) \/ LoadEvent(c) \/ (c # Reader /\ TakeLock(c))
    BY <1>1, <2>1, <2>2, <2>3 DEF StartCall, LoadEvent, TakeLock, Ends
  <2>4. CASE IssueFails(c) \/ (c = Reader /\ Reap) \/ EnterWait(c) \/ Signalled(c) \/ Result(c)
    BY <1>1, <2>1, <2>2, <2>4 DEF IssueFails, Reap, EnterWait, Signalled, Result, CallTo, Ends
  <2>. QED
    BY <1>2, <2>3, <2>4
<1>3. CASE ResetEvent(c)
  BY <1>1, <1>3 DEF ResetEvent, Event, CallTo, Ends
<1>4. CASE Pends(c)
  BY <1>1, <1>4 DEF Pends
<1>5. CASE CompletesAtOnce(c)
  BY <1>1, <1>5 DEF CompletesAtOnce, CallTo
<1>6. ASSUME NEW f, NEW s \in Cancelled(f, {Dir(c)}), s.dir # Dir(c)
      PROVE  s \in requests
  BY <1>6, CancelledIsMarked DEF Marked
<1>7. CASE c = Reader /\ Check
  BY <1>1, <1>6, <1>7 DEF Check, CallTo, Dir
<1>8. CASE TimesOut(c)
  BY <1>1, <1>6, <1>8 DEF TimesOut, CallTo, Dir
<1>9. ASSUME NEW r \in requests, r.by = c, Complete(r)
      PROVE  /\ \A d, n : d # Dir(c) => (<<d, n>> \in signalled' <=> <<d, n>> \in signalled)
             /\ \A s \in requests' : s.dir # Dir(c) => s \in requests
             /\ c = Reader => UNCHANGED <<lock, written>>
             /\ reads' = reads
  <2>1. r.dir = Dir(c)
    BY <1>9 DEF TypeOK
  <2>2. c = Reader => written' = written
    BY <1>9 DEF Complete
  <2>. QED
    BY <1>9, <2>1, <2>2 DEF Complete
<1>. QED
  BY <1>2, <1>3, <1>4, <1>5, <1>7, <1>8, <1>9 DEF CallNext, Step

\* Every request is one on the last file, and is cancelled when that one is closed.
RequestInv ==
  \A r \in requests : r.file = opened /\ r.event = opened /\ (r.cancelled \/ files # {})

\* A file that is open is the last one, with both of its events, for a call that
\* began on it.
LEMMA OnItsFile ==
  ASSUME TypeOK, OwnerInv, EventInv, CallInv, NEW c \in Calls, files # {}, call[c].session = opened
  PROVE  /\ files = {opened} /\ opened # 0
         /\ \A d \in Dirs : event[d] = opened /\ ov[d].event = opened /\ <<d, opened>> \in events
<1>1. /\ owner.opening /\ ~At("create") => call[c].session < opened
      /\ opened \in Nat /\ handle \in Nat
  BY DEF TypeOK, CallInv, ThreadInv
<1>2. files = {opened} /\ (handle # 0 \/ owner.at \in {"cancel", "file"})
  BY DEF OwnerInv
<1>3. ~At("create")
  BY <1>2 DEF OwnerInv, At
<1>4. ~owner.opening /\ opened # 0
  <2>1. ~owner.opening
    BY <1>1, <1>3
  <2>2. handle # 0 => handle = opened
    BY <1>3, <2>1 DEF OwnerInv, At, TypeOK, OwnerSteps
  <2>. QED
    BY <1>2, <2>1, <2>2 DEF OwnerInv
<1>5. \A d \in Dirs : event[d] = opened /\ ov[d].event = opened
  BY <1>2, <1>4 DEF EventInv
<1>. QED
  BY <1>1, <1>2, <1>4, <1>5 DEF EventInv

\* Every step keeps what is known of a request in the kernel.
LEMMA NextRequest ==
  ASSUME TypeOK, OwnerInv, EventInv, CallInv, RequestInv, [Next]_vars
  PROVE  RequestInv'
<1> USE DEF device, kernel, calls, counts
<1>1. CASE OwnerNext
  <2>1. CASE CreateFile
    BY <2>1 DEF CreateFile, RequestInv
  <2>2. CASE CloseCancels
    BY <2>2, CancelledIsMarked DEF CloseCancels, RequestInv
  <2>3. CASE CloseFile
    <3>1. owner.handle = opened
      BY <2>3 DEF CloseFile, OwnerInv, At
    <3>2. ASSUME NEW s \in requests'
          PROVE  s.file = opened /\ s.event = opened /\ s.cancelled
      <4>1. PICK r \in requests :
              /\ s.file = r.file /\ s.event = r.event
              /\ r.file = opened /\ r.dir \in Dirs => s.cancelled
        BY <2>3, <3>1, <3>2, CancelledIsMarked DEF CloseFile
      <4>2. r.dir \in Dirs
        BY DEF TypeOK, Request
      <4>. QED
        BY <4>1, <4>2 DEF RequestInv
    <3>. QED
      BY <2>3, <3>2 DEF CloseFile, RequestInv
  <2>4. CASE StartOpen \/ CreateFileFails \/ SetOverlapped \/ StartClose \/ CloseClosed \/ TakeHandle
             \/ \E d \in Dirs : CreateEvent(d) \/ CloseEvent(d)
    BY <2>4 DEF StartOpen, CreateFileFails, SetOverlapped, StartClose, CloseClosed, TakeHandle,
      CreateEvent, CloseEvent, RequestInv
  <2>. QED
    BY <1>1, <2>1, <2>2, <2>3, <2>4 DEF OwnerNext
<1>2. ASSUME NEW c \in Calls, CallNext(c)
      PROVE  RequestInv'
  <2>1. opened' = opened /\ files' = files
    BY <1>2, CallFrame
  <2>2. CASE Pends(c)
    <3>1. /\ call[c].handle \in files
          /\ <<Dir(c), ov[Dir(c)].event>> \in events
          /\ Dir(c) \in Dirs /\ ov[Dir(c)].event \in Nat
      BY <2>2 DEF Pends, CanIssue, TypeOK, Overlapped, Dir, Dirs
    <3>2. files = {opened} /\ event[Dir(c)] = ov[Dir(c)].event /\ event[Dir(c)] \in {0, opened}
          /\ ov[Dir(c)].event # 0
      BY <3>1 DEF OwnerInv, EventInv
    <3>3. call[c].handle = opened /\ ov[Dir(c)].event = opened
      BY <3>1, <3>2
    <3>. QED
      BY <2>1, <2>2, <3>2, <3>3 DEF Pends, RequestInv
  <2>3. ASSUME NEW f, NEW dirs, requests' = Cancelled(f, dirs)
        PROVE  RequestInv'
    BY <2>1, <2>3, CancelledIsMarked DEF RequestInv
  <2>4. CASE requests' \subseteq requests
    BY <2>1, <2>4 DEF RequestInv
  <2>5. CASE c = Reader /\ Check
    BY <2>3, <2>4, <2>5 DEF Check
  <2>6. CASE TimesOut(c)
    BY <2>3, <2>4, <2>6 DEF TimesOut
  <2>7. CASE StartCall(c) \/ LoadEvent(c) \/ (c # Reader /\ TakeLock(c)) \/ ResetEvent(c)
             \/ CompletesAtOnce(c) \/ IssueFails(c) \/ (c = Reader /\ Reap) \/ EnterWait(c) \/ Signalled(c) \/ Result(c)
    BY <2>4, <2>7 DEF StartCall, LoadEvent, TakeLock, ResetEvent, CompletesAtOnce, IssueFails, Reap,
      EnterWait, Signalled, Result
  <2>8. ASSUME NEW r \in requests, Complete(r)
        PROVE  RequestInv'
    BY <2>4, <2>8 DEF Complete
  <2>. QED
    BY <1>2, <2>2, <2>5, <2>6, <2>7, <2>8 DEF CallNext, Step
<1>3. CASE UNCHANGED vars
  BY <1>3 DEF RequestInv, vars
<1>. QED
  BY <1>1, <1>2, <1>3 DEF Next
-----------------------------------------------------------------------------
(* The reader.                                                             *)

\* How far the owner gets in a step.
LEMMA OwnerProgress ==
  ASSUME TypeOK, OwnerInv, OwnerNext
  PROVE  /\ closes' >= closes
         /\ closes' # closes => closing'
         /\ opened' = opened \/ (opened' = opened + 1 /\ closes = opened /\ closes' = closes /\ owner.opening
                                   /\ requests' = {})
         /\ owner'.opening => owner.opening \/ StartOpen
         /\ closing => closing' \/ StartOpen
<1> DEFINE Progress ==
      /\ closes' >= closes
      /\ closes' # closes => closing'
      /\ opened' = opened \/ (opened' = opened + 1 /\ closes = opened /\ closes' = closes /\ owner.opening
                                /\ requests' = {})
      /\ owner'.opening => owner.opening \/ StartOpen
      /\ closing => closing' \/ StartOpen
<1> SUFFICES Progress
  OBVIOUS
<1> USE DEF At, OwnerTo, AtRest, TypeOK
<1>1. CASE StartOpen
  BY <1>1 DEF StartOpen, counts
<1>2. CASE CreateFile
  BY <1>2 DEF CreateFile, OwnerInv
<1>3. CASE CreateFileFails \/ SetOverlapped \/ CloseClosed
  BY <1>3 DEF CreateFileFails, SetOverlapped, CloseClosed, device, counts
<1>4. CASE StartClose
  BY <1>4 DEF StartClose
<1>5. CASE TakeHandle \/ CloseCancels \/ CloseFile
  <2>1. closes' = closes /\ opened' = opened /\ closing' = closing
    BY <1>5 DEF TakeHandle, CloseCancels, CloseFile, device, counts
  <2>2. owner'.opening => owner.opening
    BY <1>5 DEF TakeHandle, CloseCancels, CloseFile
  <2>. QED
    BY <2>1, <2>2
<1>6. ASSUME NEW d \in Dirs, CreateEvent(d)
      PROVE  Progress
  <2>1. closes' = closes /\ opened' = opened /\ closing' = closing
    BY <1>6 DEF CreateEvent, counts
  <2>2. owner'.opening => owner.opening
    BY <1>6 DEF CreateEvent
  <2>. QED
    BY <2>1, <2>2
<1>7. ASSUME NEW d \in Dirs, CloseEvent(d)
      PROVE  Progress
  <2>1. closes' = closes /\ opened' = opened /\ closing' = closing
    BY <1>7 DEF CloseEvent, counts
  <2>2. owner'.opening => owner.opening
    BY <1>7 DEF CloseEvent
  <2>. QED
    BY <2>1, <2>2
<1> HIDE DEF Progress
<1>. QED
  BY <1>1, <1>2, <1>3, <1>4, <1>5, <1>6, <1>7 DEF OwnerNext

\* Where the reader is with the request it issued.
ReadRequest(r) ==
  /\ r.nr = reads
  /\ call[Reader].session = opened
  /\ <<"read", opened>> \notin signalled
  /\ r.cancelled => closes = opened
  /\ \/ call[Reader].at \in {"check", "poll", "wait"}
     \/ call[Reader].at = "reap" /\ r.cancelled
     \/ call[Reader].at = "idle" /\ r.cancelled /\ call[Reader].outcome \in {"empty", "error"}

ReadRequestInv ==
  /\ \A r \in requests : r.by = Reader => ReadRequest(r)
  /\ \A r, s \in requests : r.by = Reader /\ s.by = Reader => r = s

\* What the reader finds in its OVERLAPPED as long as the device it began on is open:
\* its own request, until that completes with data.
ReaderInv ==
  LET k == call[Reader] IN
  /\ owner.opening => k.reopened
  /\ k.handle # 0 /\ ~k.reopened => k.session = opened /\ (closes < opened \/ closing)
  /\ k.at \in {"check", "poll", "wait"} /\ closes < k.session =>
       \/ ov["read"].status = "data"
       \/ ov["read"].status = "pending" /\ <<"read", opened>> \notin signalled
  /\ k.at = "result" /\ closes < k.session => ov["read"].status = "data"
  /\ k.at = "issue" => <<"read", k.event>> \notin signalled
  /\ k.at = "reap" => closes >= k.session
  /\ EndMeansClosed
  /\ QuietOncePending

\* The owner's steps.
LEMMA OwnerReader ==
  ASSUME TypeOK, OwnerInv, CallInv, ReaderInv, OwnerNext
  PROVE  ReaderInv'
<1>1. /\ call[Reader] \in Thread /\ ThreadInv(Reader) /\ Reader \in Calls
      /\ opened \in Nat /\ closes \in Nat /\ closes' \in Nat /\ opened' \in Nat
  BY OwnerType DEF TypeOK, CallInv, Calls
<1>2. /\ call'[Reader].at = call[Reader].at
      /\ call'[Reader].handle = call[Reader].handle
      /\ call'[Reader].event = call[Reader].event
      /\ call'[Reader].session = call[Reader].session
      /\ call'[Reader].pended = call[Reader].pended
      /\ call'[Reader].outcome = call[Reader].outcome
  BY <1>1, OwnerFrame DEF Thread
<1>3. /\ StartOpen => call'[Reader].reopened
      /\ call[Reader].reopened => call'[Reader].reopened
      /\ ~StartOpen => call'[Reader].reopened = call[Reader].reopened
  BY <1>1, OwnerFrame DEF Thread, StartOpen, TypeOK
<1>4. signalled' = signalled /\ ov'["read"].status = ov["read"].status
  BY OwnerFrame DEF Dirs
<1>5. /\ closes' >= closes
      /\ closes' # closes => closing'
      /\ opened' = opened \/ (opened' = opened + 1 /\ closes = opened /\ closes' = closes /\ owner.opening)
      /\ owner'.opening => owner.opening \/ StartOpen
      /\ closing => closing' \/ StartOpen
  BY OwnerProgress
<1>6. call[Reader].session <= opened
  BY <1>1 DEF ThreadInv
<1>7. EndMeansClosed'
  BY <1>1, <1>2, <1>5 DEF ReaderInv, EndMeansClosed, Thread
<1>8. QuietOncePending'
  BY <1>2, <1>3 DEF ReaderInv, QuietOncePending
<1>9. owner'.opening => call'[Reader].reopened
  BY <1>3, <1>5 DEF ReaderInv
<1>10. call'[Reader].handle # 0 /\ ~call'[Reader].reopened =>
         call'[Reader].session = opened' /\ (closes' < opened' \/ closing')
  BY <1>1, <1>2, <1>3, <1>5 DEF ReaderInv
<1>. QED
  BY <1>1, <1>2, <1>4, <1>5, <1>6, <1>7, <1>8, <1>9, <1>10 DEF ReaderInv, Thread

\* The owner's steps keep what is known of the pending read.
LEMMA OwnerReadRequest ==
  ASSUME TypeOK, OwnerInv, CallInv, RequestInv, ReadRequestInv, OwnerNext
  PROVE  ReadRequestInv'
<1>1. /\ call[Reader] \in Thread /\ Reader \in Calls
      /\ opened \in Nat /\ closes \in Nat /\ closes' \in Nat /\ opened' \in Nat
  BY OwnerType DEF TypeOK, Calls
<1>2. /\ call'[Reader].at = call[Reader].at
      /\ call'[Reader].session = call[Reader].session
      /\ call'[Reader].outcome = call[Reader].outcome
      /\ signalled' = signalled /\ reads' = reads
  BY <1>1, OwnerFrame DEF Thread
<1>3. CASE CreateFile
  <2>1. requests' = {}
    BY <1>3 DEF CreateFile, kernel
  <2>. QED
    BY <2>1 DEF ReadRequestInv
<1>4. CASE ~CreateFile
  <2>1. opened' = opened /\ (closes' = closes \/ StartClose)
    BY <1>4 DEF OwnerNext, StartOpen, CreateFileFails, SetOverlapped, StartClose, CloseClosed,
      TakeHandle, CloseCancels, CloseFile, CreateEvent, CloseEvent, counts
  <2>2. closes = opened => closes' = opened
    BY <1>1, <2>1 DEF StartClose, OwnerInv, At
  <2>3. CASE requests' = requests
    BY <1>2, <2>1, <2>2, <2>3 DEF ReadRequestInv, ReadRequest
  <2>4. CASE CloseCancels \/ CloseFile
    <3>1. closes = opened
      BY <2>4 DEF CloseCancels, CloseFile, OwnerInv, At
    <3>2. PICK f, dirs : requests' = Cancelled(f, dirs)
      BY <2>4 DEF CloseCancels, CloseFile
    <3>. QED
      BY <1>2, <2>1, <2>2, <3>1, <3>2, CancelledIsMarked DEF ReadRequestInv, ReadRequest
  <2>. QED
    BY <1>4, <2>3, <2>4 DEF OwnerNext, StartOpen, CreateFileFails, SetOverlapped, StartClose, CloseClosed,
      TakeHandle, CreateEvent, CloseEvent, kernel
<1>. QED
  BY <1>3, <1>4

\* As long as the device a call began on has not been closed, everything of that
\* open() is there.
LEMMA StillOpen ==
  ASSUME TypeOK, OwnerInv, EventInv, CallInv, NEW c \in Calls, closes < call[c].session
  PROVE  /\ call[c].session = opened /\ ~closing
         /\ files = {opened} /\ opened # 0
         /\ \A d \in Dirs : event[d] = opened /\ ov[d].event = opened /\ <<d, opened>> \in events
         /\ call[c].at \notin {"idle", "event"} => call[c].handle = opened /\ call[c].event = opened
<1>1. ThreadInv(c) /\ call[c] \in Thread /\ opened \in Nat /\ closes \in Nat
  BY DEF TypeOK, CallInv
<1>2. closes < opened
  BY <1>1 DEF ThreadInv, Thread
<1>3. handle # 0 /\ closes = opened - 1 /\ ~closing
  BY <1>1, <1>2 DEF OwnerInv
<1>4. call[c].session = opened
  BY <1>1, <1>3 DEF ThreadInv, Thread
<1>5. files # {}
  BY <1>3 DEF OwnerInv
<1>6. call[c].at \notin {"idle", "event"} => call[c].handle = opened /\ call[c].event = opened
  BY <1>1, <1>4 DEF ThreadInv, Thread
<1>. QED
  BY <1>3, <1>4, <1>5, <1>6, OnItsFile

\* The reader's own steps.
LEMMA ReaderReader ==
  ASSUME TypeOK, OwnerInv, EventInv, CallInv, ReaderInv, ReadRequestInv, CallNext(Reader)
  PROVE  ReaderInv'
<1> DEFINE k == call[Reader]
<1>1. /\ k \in Thread /\ ThreadInv(Reader) /\ Reader \in Calls /\ Dir(Reader) = "read"
      /\ opened \in Nat /\ closes \in Nat /\ "read" \in Dirs
  BY DEF TypeOK, CallInv, Calls, Dir, Dirs
<1>2. UNCHANGED <<handle, event, closing, files, events, owner, opened, closes>>
  BY <1>1, CallFrame
<1>3. closes < k.session =>
        /\ k.session = opened /\ ~closing /\ files = {opened} /\ opened # 0
        /\ event["read"] = opened /\ ov["read"].event = opened /\ <<"read", opened>> \in events
        /\ k.at \notin {"idle", "event"} => k.handle = opened /\ k.event = opened
  BY <1>1, StillOpen
<1>4. ASSUME NEW result \in Outcomes, Ends(Reader, result), k.at # "idle",
             result \in {"empty", "error"} => closes >= k.session,
             result = "error" => ~k.pended \/ k.reopened
      PROVE  ReaderInv'
  <2>1. call'[Reader] = [k EXCEPT !.at = "idle", !.handle = 0, !.event = 0, !.outcome = result]
    BY <1>1, <1>4, EndsType
  <2>2. /\ call'[Reader].at = "idle" /\ call'[Reader].handle = 0 /\ call'[Reader].outcome = result
        /\ call'[Reader].session = k.session
        /\ call'[Reader].pended = k.pended /\ call'[Reader].reopened = k.reopened
    BY <1>1, <2>1 DEF Thread
  <2>. QED
    BY <1>2, <1>4, <2>2 DEF ReaderInv, EndMeansClosed, QuietOncePending
<1>5. ASSUME NEW step \in {"issue", "check", "reap", "poll", "wait", "result"}, CallTo(Reader, step),
             k.at \notin {"idle", "event"},
             step \in {"check", "poll", "wait"} /\ closes < k.session =>
               \/ ov'["read"].status = "data"
               \/ ov'["read"].status = "pending" /\ <<"read", opened>> \notin signalled',
             step = "result" /\ closes < k.session => ov'["read"].status = "data",
             step = "issue" => <<"read", k.event>> \notin signalled',
             step = "reap" => closes >= k.session
      PROVE  ReaderInv'
  <2>1. call'[Reader] = [k EXCEPT !.at = step]
    <3>1. step \in Steps /\ CallTo(Reader, step)
      BY <1>5 DEF Steps
    <3>. QED
      BY <1>1, <3>1, CallToType
  <2>2. /\ call'[Reader].at = step /\ call'[Reader].handle = k.handle /\ call'[Reader].outcome = k.outcome
        /\ call'[Reader].session = k.session /\ call'[Reader].event = k.event
        /\ call'[Reader].pended = k.pended /\ call'[Reader].reopened = k.reopened
    <3>1. k \in Thread
      BY <1>1
    <3> HIDE DEF k
    <3>. QED
      BY <2>1, <3>1 DEF Thread
  <2>. QED
    BY <1>2, <1>5, <2>2 DEF ReaderInv, EndMeansClosed, QuietOncePending
<1>6. k.handle # 0 /\ closes >= k.session => closing \/ k.reopened
  BY <1>1 DEF ReaderInv, Thread
<1>7. k.at \notin {"idle", "event"} => k.handle # 0
  BY <1>1 DEF ThreadInv
<1> USE DEF device, kernel, counts
<1>8. CASE StartCall(Reader)
  <2>1. call'[Reader] = [Quiet EXCEPT !.at = "event", !.handle = handle, !.session = opened]
    BY <1>1, <1>8 DEF StartCall, TypeOK
  <2>2. /\ call'[Reader].at = "event" /\ call'[Reader].handle = handle /\ call'[Reader].outcome = "none"
        /\ call'[Reader].session = opened /\ call'[Reader].reopened = FALSE
    BY <2>1 DEF Quiet
  <2>3. ~owner.opening
    BY <1>8 DEF StartCall
  <2>4. handle # 0 => closes < opened \/ closing
    BY <1>1 DEF OwnerInv, At
  <2>. QED
    BY <1>2, <2>2, <2>3, <2>4 DEF ReaderInv, EndMeansClosed, QuietOncePending
<1>9. CASE LoadEvent(Reader)
  <2>1. ~k.pended /\ (k.handle = 0 => closes >= k.session) /\ k.at = "event"
    BY <1>1, <1>9 DEF LoadEvent, ThreadInv
  <2>2. CASE k.handle = 0 \/ event["read"] = 0
    <3>1. closes >= k.session
      BY <1>1, <1>3, <2>1, <2>2 DEF Thread
    <3>. QED
      BY <1>1, <1>4, <1>9, <2>1, <2>2, <3>1 DEF LoadEvent, Outcomes
  <2>3. CASE ~(k.handle = 0 \/ event["read"] = 0)
    <3>1. call'[Reader] = [k EXCEPT !.at = "reset", !.event = event["read"]]
      BY <1>1, <1>9, <2>3 DEF LoadEvent, TypeOK
    <3>2. /\ call'[Reader].at = "reset" /\ call'[Reader].handle = k.handle /\ call'[Reader].outcome = k.outcome
          /\ call'[Reader].session = k.session
          /\ call'[Reader].pended = k.pended /\ call'[Reader].reopened = k.reopened
      BY <1>1, <3>1 DEF Thread
    <3>. QED
      BY <1>2, <3>2 DEF ReaderInv, EndMeansClosed, QuietOncePending
  <2>. QED
    BY <2>2, <2>3
<1>10. CASE ResetEvent(Reader)
  <2>1. /\ k.at = "reset" /\ ~k.pended
        /\ signalled' = signalled \ {<<"read", k.event>>}
    BY <1>1, <1>10 DEF ResetEvent, ThreadInv, Event
  <2>2. CASE <<"read", k.event>> \in events
    BY <1>1, <1>5, <1>10, <2>1, <2>2 DEF ResetEvent, Event
  <2>3. CASE <<"read", k.event>> \notin events
    <3>1. closes >= k.session
      BY <1>1, <1>3, <2>1, <2>3 DEF Thread
    <3>. QED
      BY <1>1, <1>4, <1>10, <2>1, <2>3, <3>1 DEF ResetEvent, Event, Outcomes
  <2>. QED
    BY <2>2, <2>3
<1>11. CASE Pends(Reader)
  <2>1. /\ k.at = "issue" /\ signalled' = signalled
        /\ ov'["read"].status = "pending"
    BY <1>1, <1>11 DEF Pends, CanIssue, TypeOK, Overlapped
  <2>2. call'[Reader] = [k EXCEPT !.at = "check", !.pended = TRUE]
    BY <1>1, <1>11 DEF Pends, TypeOK
  <2>3. /\ call'[Reader].at = "check" /\ call'[Reader].handle = k.handle /\ call'[Reader].outcome = k.outcome
        /\ call'[Reader].session = k.session /\ call'[Reader].reopened = k.reopened
    BY <1>1, <2>2 DEF Thread
  <2>4. k.outcome = "none"
    BY <1>1, <2>1 DEF ThreadInv
  <2>5. closes < k.session => <<"read", opened>> \notin signalled
    BY <1>3, <2>1 DEF ReaderInv
  <2>. QED
    BY <1>2, <2>1, <2>3, <2>4, <2>5 DEF ReaderInv, EndMeansClosed, QuietOncePending
<1>12. CASE CompletesAtOnce(Reader)
  <2>1. k.at = "issue" /\ ov'["read"].status = "data"
    BY <1>1, <1>12 DEF CompletesAtOnce, CanIssue, TypeOK, Overlapped
  <2>. QED
    BY <1>5, <1>12, <2>1 DEF CompletesAtOnce
<1>13. CASE IssueFails(Reader)
  <2>1. k.at = "issue" /\ ~k.pended
    BY <1>1, <1>13 DEF IssueFails, ThreadInv
  <2>2. CASE ~CanIssue(Reader) /\ Ends(Reader, "error")
    <3>1. closes >= k.session
      BY <1>1, <1>3, <2>1, <2>2 DEF CanIssue, Thread
    <3>. QED
      BY <1>4, <2>1, <2>2, <3>1 DEF Outcomes
  <2>3. CASE At("file") /\ Ends(Reader, "empty")
    <3>1. closes >= k.session
      BY <1>1, <2>3 DEF OwnerInv, At, ThreadInv
    <3>. QED
      BY <1>4, <2>1, <2>3, <3>1 DEF Outcomes
  <2>. QED
    BY <1>13, <2>2, <2>3 DEF IssueFails
<1>14. CASE Check
  <2>1. k.at = "check" /\ ov' = ov /\ signalled' = signalled
    BY <1>14 DEF Check
  <2>2. closing => closes >= k.session
    BY <1>1 DEF OwnerInv, ThreadInv
  <2>. QED
    BY <1>5, <1>14, <2>1, <2>2 DEF Check, ReaderInv
<1>15. CASE Reap
  BY <1>4, <1>15 DEF Reap, Outcomes, ReaderInv
<1>16. CASE EnterWait(Reader)
  <2>1. k.at = "poll" /\ ov' = ov /\ signalled' = signalled
    BY <1>16 DEF EnterWait
  <2>2. CASE <<"read", k.event>> \in events
    BY <1>1, <1>5, <1>16, <2>1, <2>2 DEF EnterWait, Event, ReaderInv
  <2>3. CASE <<"read", k.event>> \notin events
    <3>1. closes >= k.session
      BY <1>1, <1>3, <2>1, <2>3 DEF Thread
    <3>. QED
      BY <1>1, <1>4, <1>6, <1>7, <1>16, <2>1, <2>3, <3>1 DEF EnterWait, Event, Failed, Outcomes
  <2>. QED
    BY <2>2, <2>3
<1>17. CASE Signalled(Reader)
  <2>1. k.at = "wait" /\ <<"read", k.event>> \in signalled /\ ov' = ov
    BY <1>1, <1>17 DEF Signalled, Event
  <2>2. closes < k.session => ov["read"].status = "data"
    BY <1>3, <2>1 DEF ReaderInv
  <2>. QED
    BY <1>5, <1>17, <2>1, <2>2 DEF Signalled
<1>18. CASE TimesOut(Reader)
  <2>1. k.at = "wait" /\ ov' = ov /\ signalled' = signalled
    BY <1>18 DEF TimesOut
  <2>. QED
    BY <1>5, <1>18, <2>1 DEF TimesOut, ReaderInv
<1>19. CASE Result(Reader)
  <2>1. k.at = "result" /\ (closes < k.session => ov["read"].status = "data")
    BY <1>19 DEF Result, ReaderInv
  <2>2. CASE Ends(Reader, "ok")
    BY <1>4, <2>1, <2>2 DEF Outcomes
  <2>3. CASE ov["read"].status = "aborted" /\ Ends(Reader, "empty")
    <3>1. closes >= k.session
      BY <1>1, <2>1, <2>3 DEF Thread
    <3>. QED
      BY <1>4, <2>1, <2>3, <3>1 DEF Outcomes
  <2>4. CASE (ov["read"].status = "pending" \/ k.handle \notin files) /\ Ends(Reader, Failed(Reader))
    <3>1. closes >= k.session
      BY <1>1, <1>3, <2>1, <2>4 DEF Thread
    <3>. QED
      BY <1>4, <1>6, <1>7, <2>1, <2>4, <3>1 DEF Failed, Outcomes
  <2>. QED
    BY <1>1, <1>19, <2>2, <2>3, <2>4 DEF Result
<1>20. ASSUME NEW r \in requests, r.by = Reader, Complete(r)
       PROVE  ReaderInv'
  <2>1. call' = call
    BY <1>20 DEF Complete
  <2>2. r.dir = "read" /\ (r.cancelled => closes = opened) /\ k.session = opened
        /\ k.at \in {"check", "poll", "wait", "reap", "idle"}
    BY <1>1, <1>20 DEF ReadRequestInv, ReadRequest, TypeOK
  <2>3. ov'["read"].status = "data" \/ r.cancelled
    BY <1>1, <1>20, <2>2 DEF Complete, TypeOK, Overlapped
  <2>4. closes < k.session => ov'["read"].status = "data"
    BY <1>1, <2>2, <2>3
  <2>. QED
    BY <1>2, <2>1, <2>2, <2>4 DEF ReaderInv, EndMeansClosed, QuietOncePending
<1>. QED
  BY <1>8, <1>9, <1>10, <1>11, <1>12, <1>13, <1>14, <1>15, <1>16, <1>17, <1>18, <1>19, <1>20
  DEF CallNext, Step

\* The reader's steps keep what is known of the pending read.
LEMMA ReaderReadRequest ==
  ASSUME TypeOK, OwnerInv, EventInv, CallInv, RequestInv, ReaderInv, ReadRequestInv, CallNext(Reader)
  PROVE  ReadRequestInv'
<1> DEFINE k == call[Reader]
           Mine == \E r \in requests : r.by = Reader
<1>1. /\ k \in Thread /\ ThreadInv(Reader) /\ Reader \in Calls /\ Dir(Reader) = "read"
      /\ opened \in Nat /\ closes \in Nat /\ "read" \in Dirs
  BY DEF TypeOK, CallInv, Calls, Dir, Dirs
<1>2. UNCHANGED <<handle, event, closing, files, events, owner, opened, closes>>
  BY <1>1, CallFrame
<1>3. Mine => /\ k.session = opened
              /\ <<"read", opened>> \notin signalled
              /\ k.at \in {"check", "poll", "wait", "reap", "idle"}
  BY DEF ReadRequestInv, ReadRequest
<1>4. ASSUME ~Mine, requests' = requests
      PROVE  ReadRequestInv'
  BY <1>4 DEF ReadRequestInv
<1> USE DEF device, kernel, counts
<1>5. ASSUME NEW step \in Steps, CallTo(Reader, step), reads' = reads, signalled' = signalled,
             k.at \in {"check", "poll", "wait"},
             step \in {"check", "poll", "wait"} \/ (step = "reap" /\ \A r \in requests' : r.by = Reader => r.cancelled),
             requests' = requests \/ (closes = opened /\ \E f, dirs : requests' = Cancelled(f, dirs))
      PROVE  ReadRequestInv'
  <2>1. call'[Reader].at = step /\ call'[Reader].session = k.session
    <3>1. call'[Reader] = [k EXCEPT !.at = step]
      BY <1>1, <1>5, CallToType
    <3>. QED
      BY <1>1, <3>1 DEF Thread
  <2>2. CASE requests' = requests
    BY <1>2, <1>5, <2>1, <2>2 DEF ReadRequestInv, ReadRequest
  <2>3. ASSUME closes = opened, NEW f, NEW dirs, requests' = Cancelled(f, dirs)
        PROVE  ReadRequestInv'
    <3>1. \A s \in requests' : \E r \in requests :
            s = Marked(r, f, dirs) /\ s.by = r.by /\ s.nr = r.nr
      BY <2>3, CancelledIsMarked
    <3>. QED
      BY <1>2, <1>5, <2>1, <2>3, <3>1 DEF ReadRequestInv, ReadRequest
  <2>. QED
    BY <1>5, <2>2, <2>3
<1>6. ASSUME NEW result \in {"empty", "error"}, Ends(Reader, result), requests' = requests,
             reads' = reads, signalled' = signalled,
             \A r \in requests : r.by = Reader => r.cancelled
      PROVE  ReadRequestInv'
  <2>1. call'[Reader] = [k EXCEPT !.at = "idle", !.handle = 0, !.event = 0, !.outcome = result]
    BY <1>1, <1>6, EndsType DEF Outcomes
  <2>2. call'[Reader].at = "idle" /\ call'[Reader].session = k.session /\ call'[Reader].outcome = result
    BY <1>1, <2>1 DEF Thread
  <2>. QED
    BY <1>2, <1>6, <2>2 DEF ReadRequestInv, ReadRequest
<1>7. CASE StartCall(Reader)
  <2>1. ~Mine
    <3>1. k.at = "idle" /\ (k.outcome \in {"none", "ok"} \/ opened > k.session)
      BY <1>7 DEF StartCall, MayCall
    <3>2. Mine => k.outcome \in {"empty", "error"}
      BY <3>1 DEF ReadRequestInv, ReadRequest
    <3>. QED
      BY <1>1, <1>3, <3>1, <3>2 DEF Thread
  <2>. QED
    BY <1>4, <1>7, <2>1 DEF StartCall
<1>8. CASE LoadEvent(Reader) \/ ResetEvent(Reader) \/ CompletesAtOnce(Reader) \/ IssueFails(Reader)
           \/ Result(Reader)
  <2>1. k.at \in {"event", "reset", "issue", "result"} /\ requests' = requests
    BY <1>8 DEF LoadEvent, ResetEvent, CompletesAtOnce, CanIssue, IssueFails, Result
  <2>. QED
    BY <1>3, <1>4, <2>1
<1>9. CASE Pends(Reader)
  <2> DEFINE new == [by |-> Reader, nr |-> reads, dir |-> "read", file |-> k.handle,
                     event |-> ov["read"].event, cancelled |-> FALSE]
  <2>1. requests' = requests \union {new} /\ reads' = reads /\ signalled' = signalled
    BY <1>1, <1>9 DEF Pends
  <2>2. k.at = "issue" /\ k.handle \in files
    BY <1>9 DEF Pends, CanIssue
  <2>3. ~Mine
    BY <1>3, <2>2
  <2>4. k.session = opened /\ k.event = opened
    BY <1>1, <2>2 DEF OwnerInv, ThreadInv, Thread
  <2>5. <<"read", opened>> \notin signalled
    BY <2>2, <2>4 DEF ReaderInv
  <2>6. call'[Reader] = [k EXCEPT !.at = "check", !.pended = TRUE]
    BY <1>1, <1>9 DEF Pends, TypeOK
  <2>7. call'[Reader].at = "check" /\ call'[Reader].session = k.session
    BY <1>1, <2>6 DEF Thread
  <2>8. new.nr = reads /\ new.cancelled = FALSE
    OBVIOUS
  <2>9. \A r \in requests' : r.by = Reader => r = new
    BY <2>1, <2>3
  <2> HIDE DEF new
  <2>. QED
    BY <1>2, <2>1, <2>4, <2>5, <2>7, <2>8, <2>9 DEF ReadRequestInv, ReadRequest
<1>10. CASE Check
  <2>1. k.at = "check" /\ reads' = reads /\ signalled' = signalled
    BY <1>10 DEF Check
  <2>2. CASE closing
    <3>1. closes = opened /\ CallTo(Reader, "reap")
      BY <1>10, <2>2 DEF Check, OwnerInv
    <3>2. CASE k.handle \in files
      <4>1. requests' = Cancelled(k.handle, {"read"}) /\ k.handle = opened
        BY <1>10, <2>2, <3>2 DEF Check, OwnerInv
      <4>2. \A s \in requests' : s.by = Reader => s.cancelled
        <5>1. \A r \in requests : r.file = opened /\ (r.by = Reader => r.dir = "read")
          BY <1>1 DEF RequestInv, TypeOK
        <5>. QED
          BY <4>1, <5>1, CancelledIsMarked
      <4>. QED
        BY <1>5, <2>1, <3>1, <4>1, <4>2 DEF Steps
    <3>3. CASE k.handle \notin files
      <4>1. requests' = requests
        BY <1>10, <2>2, <3>3 DEF Check
      <4>2. Mine => files = {}
        BY <1>1, <1>3, <2>1, <3>3 DEF ThreadInv, OwnerInv
      <4>3. \A r \in requests : r.by = Reader => r.cancelled
        BY <4>2 DEF RequestInv
      <4>. QED
        BY <1>5, <2>1, <3>1, <4>1, <4>3 DEF Steps
    <3>. QED
      BY <3>2, <3>3
  <2>3. CASE ~closing
    BY <1>5, <1>10, <2>1, <2>3 DEF Check, Steps
  <2>. QED
    BY <2>2, <2>3
<1>11. CASE Reap
  <2>1. \A r \in requests : r.by = Reader => r.cancelled
    BY <1>11 DEF Reap, ReadRequestInv, ReadRequest
  <2>. QED
    BY <1>6, <1>11, <2>1 DEF Reap
<1>12. CASE EnterWait(Reader)
  <2>1. k.at = "poll" /\ reads' = reads /\ signalled' = signalled /\ requests' = requests
    BY <1>12 DEF EnterWait
  <2>2. CASE <<"read", k.event>> \in events
    BY <1>1, <1>5, <1>12, <2>1, <2>2 DEF EnterWait, Event, Steps
  <2>3. CASE <<"read", k.event>> \notin events
    <3>1. Mine => k.event = opened
      BY <1>1, <1>3, <2>1 DEF ThreadInv, Thread
    <3>2. Mine => files = {}
      BY <1>1, <1>3, <2>3, <3>1, OnItsFile
    <3>3. \A r \in requests : r.by = Reader => r.cancelled
      BY <3>2 DEF RequestInv
    <3>. QED
      BY <1>1, <1>6, <1>12, <2>1, <2>3, <3>3 DEF EnterWait, Event, Failed
  <2>. QED
    BY <2>2, <2>3
<1>13. CASE Signalled(Reader)
  <2>1. k.at = "wait" /\ <<"read", k.event>> \in signalled /\ requests' = requests
    BY <1>1, <1>13 DEF Signalled, Event
  <2>2. Mine => k.event = opened
    BY <1>1, <1>3, <2>1 DEF ThreadInv, Thread
  <2>. QED
    BY <1>3, <1>4, <2>1, <2>2
<1>14. CASE TimesOut(Reader)
  BY <1>5, <1>14 DEF TimesOut, Steps
<1>15. ASSUME NEW r \in requests, r.by = Reader, Complete(r)
       PROVE  ReadRequestInv'
  <2>1. requests' = requests \ {r}
    BY <1>15 DEF Complete
  <2>2. \A s \in requests' : s.by # Reader
    BY <1>15, <2>1 DEF ReadRequestInv
  <2>. QED
    BY <2>2 DEF ReadRequestInv
<1>. QED
  BY <1>7, <1>8, <1>9, <1>10, <1>11, <1>12, <1>13, <1>14, <1>15 DEF CallNext, Step

\* The writers' steps.
LEMMA WriterReader ==
  ASSUME TypeOK, ReaderInv, ReadRequestInv, NEW w \in Calls, w # Reader, CallNext(w)
  PROVE  ReaderInv' /\ ReadRequestInv'
<1>1. Reader \in Calls /\ Dir(w) = "write" /\ "read" \in Dirs
  BY DEF Calls, Dir, Dirs
<1>2. /\ UNCHANGED <<handle, event, closing, files, events, owner, opened, closes>>
      /\ call'[Reader] = call[Reader]
      /\ ov'["read"] = ov["read"]
  BY <1>1, CallFrame
<1>3. /\ \A n : <<"read", n>> \in signalled' <=> <<"read", n>> \in signalled
      /\ \A r \in requests' : r.dir # "write" => r \in requests
      /\ reads' = reads
  BY <1>1, OtherSide
<1>4. \A r \in requests' : r.by = Reader => r \in requests
  <2>1. TypeOK'
    BY CallType
  <2>. QED
    BY <1>3, <2>1 DEF TypeOK, Dir
<1>5. ReaderInv'
  BY <1>2, <1>3 DEF ReaderInv, EndMeansClosed, QuietOncePending
<1>6. ReadRequestInv'
  BY <1>2, <1>3, <1>4 DEF ReadRequestInv, ReadRequest
<1>. QED
  BY <1>5, <1>6

\* Every step keeps what is known at the reader's places.
LEMMA NextReader ==
  ASSUME TypeOK, OwnerInv, EventInv, CallInv, RequestInv, ReaderInv, ReadRequestInv, [Next]_vars
  PROVE  ReaderInv' /\ ReadRequestInv'
<1>1. CASE UNCHANGED vars
  BY <1>1 DEF ReaderInv, EndMeansClosed, QuietOncePending, ReadRequestInv, ReadRequest,
    vars, device, kernel, calls, counts
<1>. QED
  BY <1>1, OwnerReader, OwnerReadRequest, ReaderReader, ReaderReadRequest, WriterReader DEF Next
-----------------------------------------------------------------------------
(* The writers.  A write that timed out stays so, and the OVERLAPPED of the *)
(* writes then tells nobody anything; until that happens, it is the lock    *)
(* holder's.                                                                *)

NoTimeout == \A w \in Writes : ~call[w].timedOut

\* Where the writer is with the request it issued; one left behind is by a writer
\* that found its event closed, and no other can issue before the next open().
WriteRequest(r) ==
  /\ call[r.by].session = opened
  /\ \/ call[r.by].at \in {"poll", "wait"} /\ <<"write", opened>> \notin signalled
     \/ /\ call[r.by].at = "idle" /\ r.cancelled /\ event["write"] = 0 /\ call[r.by].outcome # "none"
        /\ \A w \in Writes : call[w].at \notin {"issue", "poll", "wait", "result"}

WriteRequestInv ==
  NoTimeout =>
    /\ \A r \in requests : r.by # Reader => WriteRequest(r)
    /\ \A r, s \in requests : r.by # Reader /\ r.by = s.by => r = s

\* What the writer finds in the OVERLAPPED of the writes is its own.
WriterInv(w) ==
  LET k == call[w] IN
  /\ k.at = "issue" => <<"write", k.event>> \notin signalled
  /\ k.at \in {"poll", "wait"} =>
       \/ ov["write"].status = "pending" /\ <<"write", k.event>> \notin signalled
       \/ ov["write"].status = "data" => w \in written
  /\ k.at = "result" => (ov["write"].status = "data" => w \in written)
  /\ k.outcome = "ok" => w \in written

WriteInv == NoTimeout => \A w \in Writes : WriterInv(w)

\* The writers are the calls other than the reader's.
LEMMA WritersAreCalls ==
  /\ \A w \in Writes : w \in Calls /\ w # Reader /\ w # NoCall /\ Dir(w) = "write"
  /\ \A c \in Calls : c # Reader => c \in Writes
BY DeviceAssumption DEF Calls, Dir

\* Once a write has timed out it stays on record.
LEMMA TimeoutsStay ==
  ASSUME TypeOK, CallInv, [Next]_vars, NoTimeout'
  PROVE  NoTimeout
<1> SUFFICES ASSUME NEW w \in Writes, call[w].timedOut
             PROVE  call'[w].timedOut
  BY DEF NoTimeout
<1>1. w \in Calls /\ w # Reader /\ call[w] \in Thread /\ call[w].at = "idle" /\ call[w].outcome = "error"
  BY WritersAreCalls DEF TypeOK, CallInv, ThreadInv
<1>2. CASE OwnerNext
  BY <1>1, <1>2, OwnerFrame
<1>3. ASSUME NEW c \in Calls, c # w, CallNext(c)
      PROVE  call'[w].timedOut
  BY <1>1, <1>3, CallFrame
<1>4. CASE CallNext(w)
  <2>1. ~StartCall(w)
    BY <1>1 DEF StartCall, MayCall
  <2>2. ~Step(w)
    BY <1>1 DEF Step, LoadEvent, TakeLock, ResetEvent, Pends, CompletesAtOnce, CanIssue, IssueFails,
      EnterWait, Signalled, TimesOut, Result
  <2>3. call' = call
    BY <1>4, <2>1, <2>2 DEF CallNext, Complete
  <2>. QED
    BY <2>3
<1>5. CASE UNCHANGED vars
  BY <1>5 DEF vars, calls
<1>. QED
  BY <1>2, <1>3, <1>4, <1>5 DEF Next

\* The owner's steps keep what is known of a writer.
LEMMA OwnerWrite ==
  ASSUME TypeOK, OwnerInv, CallInv, WriteRequestInv, WriteInv, NoTimeout, OwnerNext
  PROVE  WriteRequestInv' /\ WriteInv'
<1> USE DEF device, kernel, calls, counts, At, OwnerTo, AtRest
<1>1. /\ UNCHANGED <<signalled, written>>
      /\ ov'["write"].status = ov["write"].status
      /\ \A w \in Writes : call'[w] = call[w]
  BY OwnerFrame, WritersAreCalls DEF Dirs
<1>2. WriteInv'
  BY <1>1 DEF WriteInv, WriterInv
<1> SUFFICES WriteRequestInv'
  BY <1>2
<1>3. \A r \in requests : r.by # Reader => r.by \in Writes /\ WriteRequest(r)
  BY WritersAreCalls DEF WriteRequestInv, TypeOK, Request
<1>4. CASE CreateFile
  <2>1. requests' = {}
    BY <1>4 DEF CreateFile
  <2>. QED
    BY <2>1 DEF WriteRequestInv
<1>5. ASSUME NEW d \in Dirs, CreateEvent(d)
      PROVE  WriteRequestInv'
  <2>1. ASSUME NEW r \in requests, r.by # Reader
        PROVE  FALSE
    <3>1. call[r.by].session = opened /\ r.by \in Calls
      BY <1>3, <2>1, WritersAreCalls DEF WriteRequest
    <3>2. owner.opening /\ owner.at # "create"
      BY <1>5 DEF CreateEvent, OwnerInv, Dirs
    <3>3. call[r.by].session < opened
      BY <3>1, <3>2 DEF CallInv, ThreadInv
    <3>. QED
      BY <3>1, <3>3 DEF TypeOK
  <2>2. requests' = requests
    BY <1>5 DEF CreateEvent
  <2>. QED
    BY <2>1, <2>2 DEF WriteRequestInv
<1> DEFINE Marks == \E f, dirs : requests' = Cancelled(f, dirs)
<1>6. ASSUME opened' = opened, event["write"] = 0 => event'["write"] = 0,
             requests' = requests \/ Marks
      PROVE  WriteRequestInv'
  <2>1. \A s \in requests' : \E r \in requests : s.by = r.by /\ (r.cancelled => s.cancelled)
    BY <1>6, CancelledIsMarked
  <2>2. ASSUME NEW s \in requests', s.by # Reader
        PROVE  WriteRequest(s)'
    <3>1. PICK r \in requests : s.by = r.by /\ (r.cancelled => s.cancelled)
      BY <2>1
    <3>. QED
      BY <1>1, <1>3, <1>6, <2>2, <3>1 DEF WriteRequest
  <2>3. ASSUME NEW r \in requests', NEW s \in requests', r.by # Reader, r.by = s.by
        PROVE  r = s
    <3>1. CASE requests' = requests
      BY <2>3, <3>1 DEF WriteRequestInv
    <3>2. ASSUME NEW f, NEW dirs, requests' = Cancelled(f, dirs)
          PROVE  r = s
      <4>1. PICK r0 \in requests : r = Marked(r0, f, dirs) /\ r.by = r0.by
        BY <3>2, CancelledIsMarked
      <4>2. PICK s0 \in requests : s = Marked(s0, f, dirs) /\ s.by = s0.by
        BY <3>2, CancelledIsMarked
      <4>3. r0 = s0
        BY <2>3, <4>1, <4>2 DEF WriteRequestInv
      <4>. QED
        BY <4>1, <4>2, <4>3
    <3>. QED
      BY <1>6, <3>1, <3>2
  <2>. QED
    BY <2>2, <2>3 DEF WriteRequestInv
<1>7. CASE StartOpen \/ CreateFileFails \/ SetOverlapped \/ StartClose \/ CloseClosed \/ TakeHandle
  <2>1. opened' = opened /\ event' = event /\ requests' = requests
    BY <1>7 DEF StartOpen, CreateFileFails, SetOverlapped, StartClose, CloseClosed, TakeHandle
  <2> HIDE DEF Marks
  <2>. QED
    BY <1>6, <2>1
<1>8. CASE CloseCancels \/ CloseFile
  <2>1. opened' = opened /\ event' = event
    BY <1>8 DEF CloseCancels, CloseFile
  <2>2. Marks
    BY <1>8 DEF CloseCancels, CloseFile
  <2> HIDE DEF Marks
  <2>. QED
    BY <1>6, <2>1, <2>2
<1>9. ASSUME NEW d \in Dirs, CloseEvent(d)
      PROVE  WriteRequestInv'
  BY <1>6, <1>9 DEF CloseEvent, TypeOK, Dirs
<1>. QED
  BY <1>4, <1>5, <1>7, <1>8, <1>9 DEF OwnerNext

\* The reader's steps keep what is known of a writer.
LEMMA ReaderWrite ==
  ASSUME TypeOK, WriteRequestInv, WriteInv, NoTimeout, CallNext(Reader)
  PROVE  WriteRequestInv' /\ WriteInv'
<1>1. Reader \in Calls /\ Dir(Reader) = "read" /\ "write" \in Dirs
  BY DEF Calls, Dir, Dirs
<1>2. /\ UNCHANGED <<event, opened, lock, written>>
      /\ ov'["write"] = ov["write"]
      /\ \A w \in Writes : call'[w] = call[w]
  BY <1>1, CallFrame, OtherSide, WritersAreCalls
<1>3. /\ \A n : <<"write", n>> \in signalled' <=> <<"write", n>> \in signalled
      /\ \A r \in requests' : r.dir # "read" => r \in requests
  BY <1>1, OtherSide
<1>4. \A r \in requests' : r.by # Reader => r \in requests /\ r.by \in Writes
  <2>1. TypeOK'
    BY <1>1, CallType
  <2>. QED
    BY <1>3, <2>1, WritersAreCalls DEF TypeOK, Request, Dir
<1>5. WriteInv'
  BY <1>2, <1>3 DEF WriteInv, WriterInv
<1>6. WriteRequestInv'
  BY <1>2, <1>3, <1>4 DEF WriteRequestInv, WriteRequest
<1>. QED
  BY <1>5, <1>6

\* A writer's steps keep what is known of every writer.
LEMMA WriterWrite ==
  ASSUME TypeOK, OwnerInv, EventInv, CallInv, LockInv, RequestInv, WriteRequestInv, WriteInv,
         NoTimeout, NoTimeout', NEW w \in Writes, CallNext(w)
  PROVE  WriteRequestInv' /\ WriteInv'
<1> DEFINE k == call[w]
           Busy == {"reset", "issue", "poll", "wait", "result"}
<1>1. /\ k \in Thread /\ ThreadInv(w) /\ w \in Calls /\ w # Reader /\ Dir(w) = "write"
      /\ opened \in Nat /\ closes \in Nat /\ "write" \in Dirs
  BY WritersAreCalls DEF TypeOK, CallInv, Dirs
<1>2. /\ UNCHANGED <<handle, event, closing, files, events, owner, opened, closes>>
      /\ \A x \in Writes : x # w => call'[x] = call[x]
  BY <1>1, CallFrame, WritersAreCalls
<1>3. k.at \in Busy => \A x \in Writes : x # w => call[x].at \notin Busy
  BY DEF LockInv
<1>4. \A r \in requests : r.by # Reader => r.by \in Writes /\ WriteRequest(r)
  BY WritersAreCalls DEF WriteRequestInv, TypeOK, Request
<1>5. \A x \in Writes : WriterInv(x)
  BY DEF WriteInv
  \* No writer's request is outstanding.
<1> DEFINE None == \A r \in requests : r.by = Reader
           NotMine == \A r \in requests : r.by # w
<1>6. k.at \in {"event", "lock", "reset", "issue", "result"} \/ (k.outcome = "none" /\ k.at = "idle")
        => NotMine
  BY <1>1, <1>4 DEF WriteRequest
<1>7. k.at \in {"issue", "result"} => None
  BY <1>3, <1>4, <1>6 DEF WriteRequest
<1>8. ASSUME requests' = requests, None
      PROVE  WriteRequestInv'
  BY <1>8 DEF WriteRequestInv
  \* Steps that end the call.
<1>9. ASSUME NEW result \in Outcomes \ {"none"}, Ends(w, result), k.at # "idle", requests' = requests,
             \A n : <<"write", n>> \in signalled' => <<"write", n>> \in signalled,
             \A r \in requests : r.by = w => r.cancelled /\ event["write"] = 0
      PROVE  WriteRequestInv'
  <2>1. call'[w] = [k EXCEPT !.at = "idle", !.handle = 0, !.event = 0, !.outcome = result]
    BY <1>1, <1>9, EndsType
  <2>2. call'[w].at = "idle" /\ call'[w].outcome = result /\ call'[w].session = k.session
    BY <1>1, <2>1 DEF Thread
  <2>3. ASSUME NEW r \in requests, r.by = w
        PROVE  WriteRequest(r)'
    <3>1. k.at \in {"poll", "wait"} /\ k.session = opened
      BY <1>1, <1>4, <1>9, <2>3 DEF WriteRequest
    <3>2. \A x \in Writes : call'[x].at \notin {"issue", "poll", "wait", "result"}
      BY <1>2, <1>3, <2>2, <3>1
    <3>. QED
      BY <1>2, <1>9, <2>2, <2>3, <3>1, <3>2 DEF WriteRequest
  <2>4. ASSUME NEW r \in requests, r.by # w, r.by # Reader
        PROVE  WriteRequest(r)'
    BY <1>2, <1>4, <1>9, <2>2, <2>4 DEF WriteRequest
  <2>. QED
    BY <1>9, <2>3, <2>4 DEF WriteRequestInv
<1>10. ASSUME NEW result \in Outcomes \ {"none"}, Ends(w, result), UNCHANGED <<ov, written>>,
              \A n : <<"write", n>> \in signalled' => <<"write", n>> \in signalled,
              result = "ok" => w \in written
       PROVE  WriteInv'
  <2>1. call'[w] = [k EXCEPT !.at = "idle", !.handle = 0, !.event = 0, !.outcome = result]
    BY <1>1, <1>10, EndsType
  <2>2. call'[w].at = "idle" /\ call'[w].outcome = result
    BY <1>1, <2>1 DEF Thread
  <2>. QED
    BY <1>2, <1>5, <1>10, <2>2 DEF WriteInv, WriterInv
  \* Steps to a place where nothing is said of the OVERLAPPED.
<1>11. ASSUME NotMine, requests' = requests, UNCHANGED <<ov, signalled, written>>,
              call'[w].at \in {"event", "lock", "reset"}, call'[w].outcome = "none"
       PROVE  WriteRequestInv' /\ WriteInv'
  <2>1. WriteInv'
    BY <1>2, <1>5, <1>11 DEF WriteInv, WriterInv
  <2>2. WriteRequestInv'
    BY <1>2, <1>4, <1>11 DEF WriteRequestInv, WriteRequest
  <2>. QED
    BY <2>1, <2>2
<1> USE DEF device, kernel, counts
<1>12. CASE StartCall(w)
  <2>1. call'[w] = [Quiet EXCEPT !.at = "event", !.handle = handle, !.session = opened]
    BY <1>1, <1>12 DEF StartCall, TypeOK
  <2>2. call'[w].at = "event" /\ call'[w].outcome = "none"
    BY <2>1 DEF Quiet
  <2>3. NotMine
    BY <1>1, <1>6, <1>12 DEF StartCall, MayCall
  <2>. QED
    BY <1>11, <1>12, <2>2, <2>3 DEF StartCall
<1>13. CASE LoadEvent(w)
  <2>1. k.at = "event" /\ NotMine
    BY <1>6, <1>13 DEF LoadEvent
  <2>2. CASE k.handle = 0 \/ event["write"] = 0
    <3>1. Ends(w, "error") /\ UNCHANGED <<requests, signalled, ov, written>>
      BY <1>1, <1>13, <2>2 DEF LoadEvent
    <3>. QED
      BY <1>9, <1>10, <2>1, <3>1 DEF Outcomes
  <2>3. CASE ~(k.handle = 0 \/ event["write"] = 0)
    <3>1. call'[w] = [k EXCEPT !.at = "lock", !.event = event["write"]]
      BY <1>1, <1>13, <2>3 DEF LoadEvent, TypeOK
    <3>2. call'[w].at = "lock" /\ call'[w].outcome = "none"
      BY <1>1, <2>1, <3>1 DEF Thread, ThreadInv
    <3>. QED
      BY <1>11, <1>13, <2>1, <3>2 DEF LoadEvent
  <2>. QED
    BY <2>2, <2>3
<1>14. CASE TakeLock(w)
  <2>1. call'[w] = [k EXCEPT !.at = "reset"] /\ k.at = "lock"
    BY <1>1, <1>14 DEF TakeLock, TypeOK
  <2>2. call'[w].at = "reset" /\ call'[w].outcome = "none"
    BY <1>1, <2>1 DEF Thread, ThreadInv
  <2>. QED
    BY <1>6, <1>11, <1>14, <2>1, <2>2 DEF TakeLock
<1>15. CASE ResetEvent(w)
  <2>1. /\ k.at = "reset" /\ NotMine
        /\ signalled' = signalled \ {<<"write", k.event>>}
        /\ UNCHANGED <<requests, ov, written>>
    BY <1>1, <1>6, <1>15 DEF ResetEvent, Event
  <2>2. CASE <<"write", k.event>> \notin events
    <3>1. Ends(w, "error")
      BY <1>1, <1>15, <2>2 DEF ResetEvent, Event
    <3>. QED
      BY <1>9, <1>10, <2>1, <3>1 DEF Outcomes
  <2>3. CASE <<"write", k.event>> \in events
    <3>1. CallTo(w, "issue")
      BY <1>1, <1>15, <2>3 DEF ResetEvent, Event
    <3>2. call'[w] = [k EXCEPT !.at = "issue"]
      BY <1>1, <3>1, CallToType DEF Steps
    <3>3. call'[w].at = "issue" /\ call'[w].event = k.event /\ call'[w].outcome = "none"
      BY <1>1, <2>1, <3>2 DEF Thread, ThreadInv
    <3>4. event["write"] # 0
      BY <1>1, <2>3 DEF EventInv, Thread
    <3>5. None
      BY <1>3, <1>4, <2>1, <3>4 DEF WriteRequest
    <3>6. WriteInv'
      BY <1>2, <1>5, <2>1, <3>3 DEF WriteInv, WriterInv
    <3>. QED
      BY <1>8, <2>1, <3>5, <3>6
  <2>. QED
    BY <2>2, <2>3
<1>16. CASE Pends(w)
  <2> DEFINE new == [by |-> w, nr |-> reads, dir |-> "write", file |-> k.handle,
                     event |-> ov["write"].event, cancelled |-> FALSE]
  <2>1. /\ requests' = requests \union {new} /\ signalled' = signalled /\ written' = written
        /\ k.at = "issue" /\ k.handle \in files
    BY <1>1, <1>16 DEF Pends, CanIssue
  <2>2. ov'["write"].status = "pending"
    BY <1>1, <1>16 DEF Pends, TypeOK, Overlapped
  <2>3. k.session = opened /\ k.event = opened
    BY <1>1, <2>1 DEF OwnerInv, ThreadInv, Thread
  <2>4. <<"write", opened>> \notin signalled
    BY <1>5, <2>1, <2>3 DEF WriterInv
  <2>5. call'[w] = [k EXCEPT !.at = "poll", !.pended = TRUE]
    BY <1>1, <1>16 DEF Pends, TypeOK
  <2>6. /\ call'[w].at = "poll" /\ call'[w].session = opened /\ call'[w].event = opened
        /\ call'[w].outcome = "none"
    BY <1>1, <2>1, <2>3, <2>5 DEF Thread, ThreadInv
  <2>7. None
    BY <1>7, <2>1
  <2>8. new.by = w
    OBVIOUS
  <2>9. \A r \in requests' : r.by # Reader => r = new
    BY <2>1, <2>7
  <2> HIDE DEF new
  <2>10. WriteRequestInv'
    BY <1>2, <2>1, <2>4, <2>6, <2>8, <2>9 DEF WriteRequestInv, WriteRequest
  <2>11. WriteInv'
    BY <1>2, <1>3, <1>5, <2>1, <2>2, <2>4, <2>6 DEF WriteInv, WriterInv
  <2>. QED
    BY <2>10, <2>11
<1>17. CASE CompletesAtOnce(w)
  <2>1. k.at = "issue" /\ w \in written' /\ written \subseteq written' /\ requests' = requests
    BY <1>1, <1>17 DEF CompletesAtOnce, CanIssue
  <2>2. call'[w] = [k EXCEPT !.at = "result"]
    BY <1>1, <1>17, CallToType DEF CompletesAtOnce, Steps
  <2>3. call'[w].at = "result" /\ call'[w].outcome = "none"
    BY <1>1, <2>1, <2>2 DEF Thread, ThreadInv
  <2>4. WriteInv'
    BY <1>2, <1>3, <1>5, <2>1, <2>3 DEF WriteInv, WriterInv
  <2>. QED
    BY <1>7, <1>8, <2>1, <2>4
<1>18. CASE IssueFails(w)
  <2>1. k.at = "issue" /\ Ends(w, "error") /\ UNCHANGED <<requests, signalled, ov, written>>
    BY <1>1, <1>18 DEF IssueFails
  <2>. QED
    BY <1>7, <1>8, <1>10, <2>1 DEF Outcomes
<1>19. CASE EnterWait(w)
  <2>1. k.at = "poll" /\ UNCHANGED <<requests, signalled, ov, written>>
    BY <1>19 DEF EnterWait
  <2>2. CASE <<"write", k.event>> \notin events
    <3>1. Ends(w, "error")
      BY <1>1, <1>19, <2>2 DEF EnterWait, Event, Failed
    <3>2. ASSUME NEW r \in requests, r.by = w
          PROVE  r.cancelled /\ event["write"] = 0
      <4>1. k.session = opened
        BY <1>1, <1>4, <3>2 DEF WriteRequest
      <4>2. k.event = opened
        BY <1>1, <2>1, <4>1 DEF ThreadInv, Thread
      <4>3. files = {}
        BY <1>1, <2>2, <4>1, <4>2, OnItsFile
      <4>4. event["write"] # opened \/ event["write"] = 0
        BY <1>1, <2>2, <4>2 DEF EventInv
      <4>. QED
        BY <1>1, <4>3, <4>4 DEF RequestInv, EventInv
    <3>. QED
      BY <1>9, <1>10, <2>1, <3>1, <3>2 DEF Outcomes
  <2>3. CASE <<"write", k.event>> \in events
    <3>1. CallTo(w, "wait")
      BY <1>1, <1>19, <2>3 DEF EnterWait, Event
    <3>2. call'[w] = [k EXCEPT !.at = "wait"]
      BY <1>1, <3>1, CallToType DEF Steps
    <3>3. /\ call'[w].at = "wait" /\ call'[w].event = k.event /\ call'[w].session = k.session
          /\ call'[w].outcome = "none"
      BY <1>1, <2>1, <3>2 DEF Thread, ThreadInv
    <3>4. WriteInv'
      BY <1>2, <1>5, <2>1, <3>3 DEF WriteInv, WriterInv
    <3>5. \A r \in requests : r.by # Reader => r.by = w
      BY <1>3, <1>4, <2>1 DEF WriteRequest
    <3>6. WriteRequestInv'
      BY <1>2, <1>4, <2>1, <3>3, <3>5 DEF WriteRequestInv, WriteRequest
    <3>. QED
      BY <3>4, <3>6
  <2>. QED
    BY <2>2, <2>3
<1>20. CASE Signalled(w)
  <2>1. /\ k.at = "wait" /\ <<"write", k.event>> \in signalled
        /\ UNCHANGED <<requests, signalled, ov, written>>
    BY <1>1, <1>20 DEF Signalled, Event
  <2>2. call'[w] = [k EXCEPT !.at = "result"]
    BY <1>1, <1>20, CallToType DEF Signalled, Steps
  <2>3. call'[w].at = "result" /\ call'[w].outcome = "none"
    BY <1>1, <2>1, <2>2 DEF Thread, ThreadInv
  <2>4. WriteInv'
    BY <1>2, <1>5, <2>1, <2>3 DEF WriteInv, WriterInv
  <2>5. None
    <3>1. ASSUME NEW r \in requests, r.by # Reader
          PROVE  FALSE
      <4>1. r.by = w /\ k.session = opened /\ <<"write", opened>> \notin signalled
        BY <1>3, <1>4, <2>1, <3>1 DEF WriteRequest
      <4>2. k.event = opened
        BY <1>1, <2>1, <4>1 DEF ThreadInv, Thread
      <4>. QED
        BY <2>1, <4>1, <4>2
    <3>. QED
      BY <3>1
  <2>. QED
    BY <1>8, <2>1, <2>4, <2>5
<1>21. CASE TimesOut(w)
  <2>1. call'[w] = [Quiet EXCEPT !.timedOut = TRUE, !.outcome = "error"]
    BY <1>1, <1>21 DEF TimesOut, TypeOK
  <2>2. call'[w].timedOut
    BY <2>1 DEF Quiet
  <2>. QED
    BY <2>2 DEF NoTimeout
<1>22. CASE Result(w)
  <2>1. k.at = "result" /\ UNCHANGED <<requests, signalled, ov, written>>
    BY <1>22 DEF Result
  <2>2. CASE ov["write"].status = "data" /\ Ends(w, "ok")
    <3>1. w \in written
      BY <1>5, <2>1, <2>2 DEF WriterInv
    <3>. QED
      BY <1>7, <1>8, <1>10, <2>1, <2>2, <3>1 DEF Outcomes
  <2>3. CASE Ends(w, "error")
    BY <1>7, <1>8, <1>10, <2>1, <2>3 DEF Outcomes
  <2>. QED
    BY <1>1, <1>22, <2>2, <2>3 DEF Result, Failed
<1>23. ASSUME NEW r \in requests, r.by = w, Complete(r)
       PROVE  WriteRequestInv' /\ WriteInv'
  <2>1. call' = call /\ requests' = requests \ {r} /\ written \subseteq written'
    BY <1>23 DEF Complete
  <2>2. r.dir = "write"
    BY <1>1, <1>23 DEF TypeOK
  <2>3. ov'["write"].status = "data" => w \in written'
    BY <1>1, <1>23, <2>2 DEF Complete, TypeOK, Overlapped
  <2>4. ov'["write"].status \in {"data", "aborted"}
    BY <1>1, <1>23, <2>2 DEF Complete, TypeOK, Overlapped
  <2>5. WriteRequest(r) /\ \A s \in requests' : s.by # w
    BY <1>4, <1>23, <2>1, WritersAreCalls DEF WriteRequestInv
  <2>6. \A x \in Writes : x # w => call[x].at \notin {"issue", "poll", "wait", "result"}
    BY <1>3, <1>23, <2>5 DEF WriteRequest
  <2>7. k.at \notin {"issue", "result"}
    BY <1>23, <2>5 DEF WriteRequest
  <2>8. WriteInv'
    BY <1>5, <2>1, <2>3, <2>4, <2>6, <2>7 DEF WriteInv, WriterInv
  <2>9. \A s \in requests' : s.by # Reader =>
          call[s.by].at = "idle" /\ WriteRequest(s)
    BY <1>4, <2>1, <2>5, <2>6 DEF WriteRequest
  <2>10. WriteRequestInv'
    BY <1>2, <2>1, <2>9 DEF WriteRequestInv, WriteRequest
  <2>. QED
    BY <2>8, <2>10
<1>. QED
  BY <1>1, <1>12, <1>13, <1>14, <1>15, <1>16, <1>17, <1>18, <1>19, <1>20, <1>21, <1>22, <1>23
  DEF CallNext, Step

\* Every step keeps what is known of a writer.
LEMMA NextWrite ==
  ASSUME TypeOK, OwnerInv, EventInv, CallInv, LockInv, RequestInv, WriteRequestInv, WriteInv, [Next]_vars
  PROVE  WriteRequestInv' /\ WriteInv'
<1>1. CASE ~NoTimeout'
  BY <1>1 DEF WriteRequestInv, WriteInv
<1>2. CASE NoTimeout'
  <2>1. NoTimeout
    BY <1>2, TimeoutsStay
  <2>2. CASE UNCHANGED vars
    BY <2>2 DEF WriteRequestInv, WriteRequest, WriteInv, WriterInv, NoTimeout,
      vars, device, kernel, calls, counts
  <2>. QED
    BY <1>2, <2>1, <2>2, OwnerWrite, ReaderWrite, WriterWrite, WritersAreCalls DEF Next
<1>. QED
  BY <1>1, <1>2
-----------------------------------------------------------------------------
(* The theorems.                                                           *)

IInv ==
  /\ TypeOK /\ OwnerInv /\ EventInv /\ CallInv /\ LockInv /\ RequestInv
  /\ ReaderInv /\ ReadRequestInv /\ WriteRequestInv /\ WriteInv

\* The invariant holds at the start.
LEMMA InitIInv == Init => IInv
<1> SUFFICES ASSUME Init
             PROVE  IInv
  OBVIOUS
<1>1. TypeOK
  BY InitType
<1>2. \A c \in Calls : call[c] = Quiet
  BY DEF Init
<1>3. requests = {} /\ handle = 0 /\ opened = 0 /\ closes = 0 /\ files = {} /\ events = {} /\ lock = NoCall
      /\ ~closing /\ owner = AtRest
  BY DEF Init
<1>4. OwnerInv
  BY <1>3 DEF OwnerInv, At, AtRest
<1>5. EventInv
  BY <1>3 DEF Init, EventInv, At, AtRest
<1>6. CallInv
  BY <1>2, <1>3 DEF CallInv, ThreadInv, Quiet, Pending, At, AtRest
<1>7. LockInv
  BY <1>2, <1>3, WritersAreCalls DEF LockInv, Quiet
<1>8. RequestInv /\ ReadRequestInv /\ WriteRequestInv
  BY <1>3 DEF RequestInv, ReadRequestInv, WriteRequestInv
<1>9. ReaderInv
  BY <1>2, <1>3 DEF ReaderInv, Quiet, AtRest, Calls, EndMeansClosed, QuietOncePending
<1>10. WriteInv
  BY <1>2, WritersAreCalls DEF WriteInv, WriterInv, Quiet
<1>. QED
  BY <1>1, <1>4, <1>5, <1>6, <1>7, <1>8, <1>9, <1>10 DEF IInv

\* Every step keeps the invariant.
LEMMA NextIInv == IInv /\ [Next]_vars => IInv'
BY NextType, NextOwner, NextEvent, NextCall, NextLock, NextRequest, NextReader, NextWrite DEF IInv

\* In every reachable state the calls, the owner and Windows agree on which open()
\* each handle, event and request is of.
THEOREM Invariance == Spec => []IInv
BY InitIInv, NextIInv, PTL DEF Spec

\* A read comes back empty or raises only when the device it began on is being, or has
\* been, closed: neither a _closing left over from the last close() nor an event
\* that has been replaced ends a pump.
THEOREM EndsOnlyWhenClosed == Spec => []EndMeansClosed
<1>1. IInv => EndMeansClosed
  BY DEF IInv, ReaderInv
<1>. QED
  BY <1>1, Invariance, PTL

\* A read that had its request pending when the device was closed does not raise,
\* whichever of its steps the close() met.
THEOREM EndsQuietly == Spec => []QuietOncePending
<1>1. IInv => QuietOncePending
  BY DEF IInv, ReaderInv
<1>. QED
  BY <1>1, Invariance, PTL

\* Two reads never wait on the one _read_ov, though a cancelled read is waited for
\* only for a time, and the next read may begin while it is outstanding.
THEOREM OneReadPending == Spec => []ReadOverlappedNotShared
<1>1. ASSUME IInv
      PROVE  ReadOverlappedNotShared
  <2> DEFINE R == {r \in requests : r.dir = "read"}
  <2>1. \A r \in R : r.by = Reader
    BY <1>1 DEF IInv, TypeOK, Dir
  <2>2. \A r, s \in R : r = s
    BY <1>1, <2>1 DEF IInv, ReadRequestInv
  <2>3. CASE R = {}
    BY <2>3, FS_EmptySet DEF ReadOverlappedNotShared
  <2>4. ASSUME NEW r \in R
        PROVE  ReadOverlappedNotShared
    <3>1. R = {r}
      BY <2>2, <2>4
    <3>. QED
      BY <3>1, FS_Singleton DEF ReadOverlappedNotShared
  <2>. QED
    BY <2>3, <2>4
<1>. QED
  BY <1>1, Invariance, PTL

\* What is outstanding when its call has returned or raised is cancelled: Windows
\* will not fill or read a buffer nobody holds for longer than its cancelling
\* takes.
THEOREM AbandonedOnTheWayOut == Spec => []AbandonedIsCancelled
<1>1. ASSUME IInv
      PROVE  AbandonedIsCancelled
  <2> SUFFICES ASSUME NEW r \in requests, Abandoned(r), ~r.cancelled
               PROVE  r.by # Reader /\ \E w \in Writes : call[w].timedOut
    BY DEF AbandonedIsCancelled
  <2>1. r.by # Reader
    BY <1>1 DEF IInv, ReadRequestInv, ReadRequest, Abandoned
  <2>2. call[r.by].at = "idle"
    BY <2>1 DEF Abandoned
  <2>3. NoTimeout => WriteRequest(r)
    BY <1>1, <2>1 DEF IInv, WriteRequestInv
  <2>4. ~NoTimeout
    BY <2>2, <2>3 DEF WriteRequest
  <2>. QED
    BY <2>1, <2>4 DEF NoTimeout
<1>. QED
  BY <1>1, Invariance, PTL

\* As long as no write has timed out, a write() that returned was taken by the
\* driver: the lock keeps the OVERLAPPED to the writer that issued on it.
THEOREM WritesAreTaken == Spec => []WriteMeansTaken
<1>1. IInv => WriteMeansTaken
  BY DEF IInv, WriteInv, WriterInv, NoTimeout, WriteMeansTaken
<1>. QED
  BY <1>1, Invariance, PTL
=============================================================================

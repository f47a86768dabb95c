----------------------------- MODULE VhciDevice -----------------------------
(***************************************************************************)
(* The Python client, python/winvhci/device.py: one VhciDevice object used *)
(* by several threads.  Its owner opens and closes it, the pump of         *)
(* transport.py calls read() until a read comes back empty or raises, and  *)
(* every write() has a thread of its own.  They share the object's         *)
(* attributes and one OVERLAPPED for each direction.                       *)
(*                                                                         *)
(* An action is one Win32 call, or one access to a shared attribute.       *)
(* Handles are named by the open() that made them (0 is None), so a        *)
(* handle's value is not used again.  What becomes of a request is         *)
(* external: it completes in its own time, a cancelled one too, perhaps    *)
(* with data that was on its way.                                          *)
(***************************************************************************)
EXTENDS Integers, FiniteSets

CONSTANTS
  Reader,    \* the pump's thread
  Writes,    \* calls of write(), one thread each
  NoCall,    \* none of them
  MaxOpens,  \* bound: how often the device is opened
  MaxReads   \* bound: how often read() is called

ASSUME DeviceAssumption ==
  /\ Reader \notin Writes
  /\ NoCall \notin Writes \union {Reader}
  /\ MaxOpens \in Nat
  /\ MaxReads \in Nat

VARIABLES
  handle, event, closing, \* _handle; _read_event, _write_event; _closing
  ov,        \* _read_ov and _write_ov: event and status
  lock,      \* the holder of _write_lock
  files, events, signalled, \* Windows: open files, open events, signalled events
  requests,  \* Windows: outstanding requests
  owner,     \* the owner's place in open() or close(), with close()'s local handle
  call,      \* the place in read() or write(), the locals, how the last call ended
  opened, closes, reads, \* ghosts: open files so far, close() of an open device, read() calls
  written    \* ghost: writes the driver took

device == <<handle, event, closing>>
kernel == <<files, events, signalled, requests>>
calls == <<ov, lock, call, reads, written>>
counts == <<opened, closes>>
vars == <<device, kernel, calls, owner, counts>>

Calls == Writes \union {Reader}
Dirs == {"read", "write"}
Dir(c) == IF c = Reader THEN "read" ELSE "write"

\* CancelIoEx on, or the closing of, file f: requests are marked.
Cancelled(f, dirs) ==
  {IF r.file = f /\ r.dir \in dirs THEN [r EXCEPT !.cancelled = TRUE] ELSE r : r \in requests}

Quiet == [at |-> "idle", handle |-> 0, event |-> 0, session |-> 0, pended |-> FALSE,
          reopened |-> FALSE, timedOut |-> FALSE, outcome |-> "none"]
AtRest == [at |-> "idle", handle |-> 0, opening |-> FALSE]

Init ==
  /\ handle = 0 /\ event = [d \in Dirs |-> 0] /\ closing = FALSE
  /\ ov = [d \in Dirs |-> [event |-> 0, status |-> "none"]]
  /\ lock = NoCall
  /\ files = {} /\ events = {} /\ signalled = {} /\ requests = {}
  /\ owner = AtRest
  /\ call = [c \in Calls |-> Quiet]
  /\ opened = 0 /\ closes = 0 /\ reads = 0
  /\ written = {}
-----------------------------------------------------------------------------
(* open() and close(): the owner's thread.                                 *)

At(step) == owner.at = step
OwnerTo(step) == owner' = [owner EXCEPT !.at = step]

\* Mutant of Opening: what close() set stays set.
StillClosing == closing

Opening == FALSE

StartOpen ==
  /\ At("idle") /\ handle = 0 /\ opened < MaxOpens
  /\ closing' = Opening
  /\ owner' = [owner EXCEPT !.at = "create", !.opening = TRUE]
  /\ call' = [call EXCEPT ![Reader].reopened = TRUE]
  /\ UNCHANGED <<handle, event, kernel, ov, lock, reads, written, counts>>

\* The device is exclusive, and gives up an earlier handle only when every
\* request on it has completed.
CreateFile ==
  /\ At("create") /\ requests = {}
  /\ opened' = opened + 1
  /\ handle' = opened'
  /\ files' = files \union {opened'}
  /\ OwnerTo("read")
  /\ UNCHANGED <<event, closing, events, signalled, requests, calls, closes>>

CreateFileFails ==
  /\ At("create")
  /\ owner' = AtRest
  /\ UNCHANGED <<device, kernel, calls, counts>>

CreateEvent(d) ==
  /\ At(d)
  /\ event' = [event EXCEPT ![d] = opened]
  /\ events' = events \union {<<d, opened>>}
  /\ OwnerTo(IF d = "read" THEN "write" ELSE "overlapped")
  /\ UNCHANGED <<handle, closing, files, signalled, requests, calls, counts>>

SetOverlapped ==
  /\ At("overlapped")
  /\ ov' = [d \in Dirs |-> [ov[d] EXCEPT !.event = event[d]]]
  /\ owner' = AtRest
  /\ UNCHANGED <<device, kernel, lock, call, reads, written, counts>>

\* close() is called, or a CreateEvent of open() failed and open() calls it.
StartClose ==
  /\ (At("idle") /\ handle # 0) \/ At("read") \/ At("write")
  /\ closing' = TRUE
  /\ closes' = closes + 1
  /\ OwnerTo("take")
  /\ UNCHANGED <<handle, event, kernel, calls, opened>>

CloseClosed ==
  /\ At("idle") /\ handle = 0
  /\ closing' = TRUE
  /\ UNCHANGED <<handle, event, kernel, calls, owner, counts>>

TakeHandle ==
  /\ At("take")
  /\ owner' = [owner EXCEPT !.at = "cancel", !.handle = handle]
  /\ handle' = 0
  /\ UNCHANGED <<event, closing, kernel, calls, counts>>

CloseCancels ==
  /\ At("cancel")
  /\ requests' = Cancelled(owner.handle, {"read"})
  /\ OwnerTo("file")
  /\ UNCHANGED <<device, files, events, signalled, calls, counts>>

CloseFile ==
  /\ At("file")
  /\ files' = files \ {owner.handle}
  /\ requests' = Cancelled(owner.handle, Dirs)
  /\ OwnerTo("close_read")
  /\ UNCHANGED <<device, events, signalled, calls, counts>>

CloseEvent(d) ==
  /\ At(IF d = "read" THEN "close_read" ELSE "close_write")
  /\ events' = events \ {<<d, event[d]>>}
  /\ event' = [event EXCEPT ![d] = 0]
  /\ IF d = "read" THEN OwnerTo("close_write") ELSE owner' = AtRest
  /\ UNCHANGED <<handle, closing, files, signalled, requests, calls, counts>>
-----------------------------------------------------------------------------
(* read() and write(): the same overlapped call, where they are the same.  *)

CallTo(c, step) == call' = [call EXCEPT ![c].at = step] /\ UNCHANGED lock

\* Mutant of Ends: an error does not give the lock back.
EndsLocked(c, result) ==
  /\ call' = [call EXCEPT ![c].at = "idle", ![c].handle = 0, ![c].event = 0, ![c].outcome = result]
  /\ lock' = IF lock = c /\ result = "ok" THEN NoCall ELSE lock

\* The call returns or raises; a lock it holds is free.
Ends(c, result) ==
  /\ call' = [call EXCEPT ![c].at = "idle", ![c].handle = 0, ![c].event = 0, ![c].outcome = result]
  /\ lock' = IF lock = c THEN NoCall ELSE lock

\* Mutant of Failed: it does not look at _closing.
FailedLoudly(c) == "error"

\* What a Win32 failure means once the request is pending.
Failed(c) == IF c = Reader /\ closing THEN "empty" ELSE "error"

\* Mutant of MayCall: the pump goes on after an empty read.
ReadsOn(c) == c = Reader /\ reads < MaxReads

\* The pump stops at an empty read or an error; a new one starts when the
\* device has been opened again.
MayCall(c) ==
  IF c = Reader
  THEN reads < MaxReads /\ (call[c].outcome \in {"none", "ok"} \/ opened > call[c].session)
  ELSE call[c].outcome = "none"

StartCall(c) ==
  /\ call[c].at = "idle" /\ MayCall(c)
  /\ opened > 0 /\ ~owner.opening
  /\ call' = [call EXCEPT ![c] = [Quiet EXCEPT !.at = "event", !.handle = handle, !.session = opened]]
  /\ reads' = IF c = Reader THEN reads + 1 ELSE reads
  /\ UNCHANGED <<device, kernel, ov, lock, written, owner, counts>>

LoadEvent(c) ==
  /\ call[c].at = "event"
  /\ IF call[c].handle = 0 \/ event[Dir(c)] = 0
       THEN Ends(c, IF c = Reader THEN "empty" ELSE "error")
       ELSE /\ call' = [call EXCEPT ![c].at = IF c = Reader THEN "reset" ELSE "lock",
                                    ![c].event = event[Dir(c)]]
            /\ UNCHANGED lock
  /\ UNCHANGED <<device, kernel, ov, reads, written, owner, counts>>

\* Mutant of TakeLock: nobody is waited for.
TakeLockAnyway(w) ==
  /\ call[w].at = "lock"
  /\ lock' = w
  /\ call' = [call EXCEPT ![w].at = "reset"]
  /\ UNCHANGED <<device, kernel, ov, reads, written, owner, counts>>

TakeLock(w) ==
  /\ call[w].at = "lock" /\ lock = NoCall
  /\ lock' = w
  /\ call' = [call EXCEPT ![w].at = "reset"]
  /\ UNCHANGED <<device, kernel, ov, reads, written, owner, counts>>

Event(c) == <<Dir(c), call[c].event>>

ResetEvent(c) ==
  /\ call[c].at = "reset"
  /\ signalled' = signalled \ {Event(c)}
  /\ IF Event(c) \in events THEN CallTo(c, "issue") ELSE Ends(c, "error")
  /\ UNCHANGED <<device, files, events, requests, ov, reads, written, owner, counts>>

CanIssue(c) ==
  /\ call[c].at = "issue"
  /\ call[c].handle \in files
  /\ <<Dir(c), ov[Dir(c)].event>> \in events

\* ReadFile or WriteFile: the request is outstanding.
Pends(c) ==
  /\ CanIssue(c)
  /\ requests' = requests \union {[by |-> c, nr |-> reads, dir |-> Dir(c), file |-> call[c].handle,
                                  event |-> ov[Dir(c)].event, cancelled |-> FALSE]}
  /\ ov' = [ov EXCEPT ![Dir(c)].status = "pending"]
  /\ call' = [call EXCEPT ![c].at = IF c = Reader THEN "check" ELSE "poll", ![c].pended = TRUE]
  /\ UNCHANGED <<device, files, events, signalled, lock, reads, written, owner, counts>>

CompletesAtOnce(c) ==
  /\ CanIssue(c)
  /\ ov' = [ov EXCEPT ![Dir(c)].status = "data"]
  /\ signalled' = signalled \union {<<Dir(c), ov[Dir(c)].event>>}
  /\ written' = written \union ({c} \ {Reader})
  /\ CallTo(c, "result")
  /\ UNCHANGED <<device, files, events, requests, reads, owner, counts>>

\* A handle is closed; a write may be refused by the driver besides, and
\* a read meet close()'s CancelIoEx.
IssueFails(c) ==
  /\ call[c].at = "issue"
  /\ \/ (~CanIssue(c) \/ c # Reader) /\ Ends(c, "error")
     \/ CanIssue(c) /\ c = Reader /\ At("file") /\ owner.handle = call[c].handle /\ Ends(c, "empty")
  /\ UNCHANGED <<device, kernel, ov, reads, written, owner, counts>>

\* Mutant of Check: the read ends and leaves the cancelling to close().
CheckOnly ==
  /\ call[Reader].at = "check"
  /\ CallTo(Reader, IF closing THEN "reap" ELSE "poll")
  /\ UNCHANGED <<device, kernel, ov, reads, written, owner, counts>>

\* The reader looks at _closing before every slice of its wait, and cancels
\* its own request if it is set.
Check ==
  /\ call[Reader].at = "check"
  /\ IF closing
       THEN /\ requests' = IF call[Reader].handle \in files
                            THEN Cancelled(call[Reader].handle, {"read"}) ELSE requests
            /\ CallTo(Reader, "reap")
       ELSE CallTo(Reader, "poll") /\ UNCHANGED requests
  /\ UNCHANGED <<device, files, events, signalled, ov, reads, written, owner, counts>>

\* The wait for the cancelled request is bounded, and what it finds is not
\* looked at: it may be outstanding still.
Reap ==
  /\ call[Reader].at = "reap"
  /\ Ends(Reader, "empty")
  /\ UNCHANGED <<device, kernel, ov, reads, written, owner, counts>>

\* Mutant of EnterWait: the reader's loop goes on when the wait fails.
WaitsAgain(c) ==
  /\ call[c].at = "poll"
  /\ IF Event(c) \in events THEN CallTo(c, "wait") ELSE CallTo(c, "check")
  /\ UNCHANGED <<device, kernel, ov, reads, written, owner, counts>>

EnterWait(c) ==
  /\ call[c].at = "poll"
  /\ IF Event(c) \in events THEN CallTo(c, "wait") ELSE Ends(c, Failed(c))
  /\ UNCHANGED <<device, kernel, ov, reads, written, owner, counts>>

\* A wait under way keeps its event, closed or not.
Signalled(c) ==
  /\ call[c].at = "wait" /\ Event(c) \in signalled
  /\ CallTo(c, "result")
  /\ UNCHANGED <<device, kernel, ov, reads, written, owner, counts>>

\* A read goes on; a write is cancelled, and not waited for.
TimesOut(c) ==
  /\ call[c].at = "wait"
  /\ IF c = Reader
       THEN CallTo(c, "check") /\ UNCHANGED requests
       ELSE /\ requests' = IF call[c].handle \in files
                            THEN Cancelled(call[c].handle, {"write"}) ELSE requests
            /\ call' = [call EXCEPT ![c] = [Quiet EXCEPT !.timedOut = TRUE, !.outcome = "error"]]
            /\ lock' = NoCall
  /\ UNCHANGED <<device, files, events, signalled, ov, reads, written, owner, counts>>

\* GetOverlappedResult: what the OVERLAPPED holds, or a failure when the file is
\* closed.  A write that was taken transferred the whole packet.
Result(c) ==
  /\ call[c].at = "result"
  /\ \/ ov[Dir(c)].status = "data" /\ Ends(c, "ok")
     \/ ov[Dir(c)].status = "aborted" /\ Ends(c, IF c = Reader THEN "empty" ELSE "error")
     \/ (ov[Dir(c)].status = "pending" \/ call[c].handle \notin files) /\ Ends(c, Failed(c))
  /\ UNCHANGED <<device, kernel, ov, reads, written, owner, counts>>

\* Windows completes a request: with data, or without when it was cancelled or
\* is a write the driver refuses.
Complete(r) ==
  /\ requests' = requests \ {r}
  /\ \E status \in {"data"} \union (IF r.cancelled \/ r.by # Reader THEN {"aborted"} ELSE {}) :
       /\ ov' = [ov EXCEPT ![r.dir].status = status]
       /\ written' = IF status = "data" THEN written \union ({r.by} \ {Reader}) ELSE written
  /\ signalled' = signalled \union {<<r.dir, r.event>>}
  /\ UNCHANGED <<device, files, events, lock, call, reads, owner, counts>>
-----------------------------------------------------------------------------
OwnerNext ==
  \/ StartOpen \/ CreateFile \/ CreateFileFails \/ SetOverlapped
  \/ StartClose \/ CloseClosed \/ TakeHandle \/ CloseCancels \/ CloseFile
  \/ \E d \in Dirs : CreateEvent(d) \/ CloseEvent(d)

Step(c) ==
  \/ LoadEvent(c) \/ (c # Reader /\ TakeLock(c)) \/ ResetEvent(c)
  \/ Pends(c) \/ CompletesAtOnce(c) \/ IssueFails(c)
  \/ (c = Reader /\ (Check \/ Reap))
  \/ EnterWait(c) \/ Signalled(c) \/ TimesOut(c) \/ Result(c)

CallNext(c) == StartCall(c) \/ Step(c) \/ \E r \in requests : r.by = c /\ Complete(r)

Next == OwnerNext \/ \E c \in Calls : CallNext(c)

Spec == Init /\ [][Next]_vars

\* A thread inside read() or write() keeps running.  Nothing is assumed of
\* the driver, nor that anybody reads, writes or closes.
Fairness == \A c \in Calls : WF_vars(Step(c))

FairSpec == Spec /\ Fairness
-----------------------------------------------------------------------------
\* A read comes back empty, or raises, only when the device it began on is being
\* or has been closed: no stale _closing and no stale event ends a pump (the
\* defect of test_a_reopened_device_still_reads).
EndMeansClosed ==
  call[Reader].outcome \in {"empty", "error"} => closes >= call[Reader].session

\* A read that was waiting when the device was closed, from any thread and at
\* any of its steps, ends quietly: with a packet or b'', and no error (device.py:614-619,
\* and test_close_from_another_thread_ends_a_read_quietly); unless the
\* device has been opened again before it noticed.
QuietOncePending ==
  call[Reader].pended /\ ~call[Reader].reopened => call[Reader].outcome # "error"

\* What read() says of every read, "or b'' once the device is closed": the code
\* does not keep it for a read that has not reached its ReadFile.
QuietAlways == ~call[Reader].reopened => call[Reader].outcome # "error"

\* Two reads never wait on the one _read_ov, in whatever order a close, an open
\* and a cancelled read's bounded wait come.
ReadOverlappedNotShared == Cardinality({r \in requests : r.dir = "read"}) <= 1

\* A call does not leave its buffer to a request that nobody has cancelled: what is
\* still outstanding when read() or write() has returned or raised - a reap that ran
\* out of time, a write that timed out, an event closed under the wait - is on its
\* way out (device.py:649-655).  A write that timed out leaves its request on the
\* OVERLAPPED of the writes, and for them this ends.
Abandoned(r) == call[r.by].at = "idle" \/ (r.by = Reader /\ r.nr # reads)
AbandonedIsCancelled ==
  \A r \in requests :
    Abandoned(r) => r.cancelled \/ (r.by # Reader /\ \E w \in Writes : call[w].timedOut)

\* A write() that returns was taken by the driver: it is its own request's result
\* that it found in the OVERLAPPED all writes share.  A write that timed out
\* leaves its request on it, and this ends.
WriteMeansTaken ==
  (\A w \in Writes : ~call[w].timedOut) => \A w \in Writes : call[w].outcome = "ok" => w \in written

\* A read under way when the device is closed ends: by its request's
\* completion, by the flag, or by the closed event, also when the flag has been
\* cleared by the next open().
ReadEnds ==
  (call[Reader].at # "idle" /\ closes >= call[Reader].session) ~> call[Reader].at = "idle"

\* Every write ends, whatever the driver does and whoever has the lock.
WriteEnds == \A w \in Writes : call[w].at # "idle" ~> call[w].at = "idle"
=============================================================================

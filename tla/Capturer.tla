------------------------------ MODULE Capturer ------------------------------
(***************************************************************************)
(* The microphone, internal/audio/capture.go: Start, Stop and Close, each  *)
(* on a goroutine of its own, and the callback onRecv on the thread of the *)
(* device that Start opened.                                               *)
(*                                                                         *)
(* Capturer.mu is explicit, because what is called with it held matters:   *)
(* Uninit returns only when the device's callback does (the audio library, *)
(* external), and the callback needs the lock.  A device is named by the   *)
(* number of the capture that opened it; a buffer, by its device.  Which   *)
(* microphone that is, DeviceChoice decides.                               *)
(***************************************************************************)
EXTENDS DeviceChoice

CONSTANTS
  Callers,      \* goroutines that call Start, Stop and Close
  None,         \* no goroutine, no device
  MaxCaptures,  \* bound: captures started
  MaxBuffers,   \* bound: buffers one device delivers
  Overlap       \* may a Start begin before the Stop before it has returned?

Devices == 1 .. MaxCaptures

ASSUME CapturerAssumption ==
  /\ MaxCaptures \in Nat /\ MaxBuffers \in Nat /\ MaxMics \in Nat
  /\ Overlap \in BOOLEAN
  /\ None \notin Callers \cup Devices

VARIABLES
  mu,        \* who holds Capturer.mu
  active,    \* Capturer.active
  device,    \* Capturer.device
  samples,   \* Capturer.samples
  pc,        \* where each caller is
  stopping,  \* stopping[g]: the local dev of a Stop
  taken,     \* taken[g]: the samples it took
  dev,       \* dev[d]: off, on, ending (Uninit was called)
  onRecv,    \* onRecv[d]: a callback waits for mu
  buffers,   \* buffers[d]: how many d has delivered
  opened,    \* how many captures were started
  closed     \* Close has been called

captureVars == <<active, device, samples>>
callerVars  == <<pc, stopping, taken>>
deviceVars  == <<dev, onRecv, buffers>>
vars == <<mu, captureVars, callerVars, deviceVars, opened, closed, choiceVars>>

Init ==
  /\ mu = None
  /\ active = FALSE /\ device = None /\ samples = <<>>
  /\ pc = [g \in Callers |-> "ready"]
  /\ stopping = [g \in Callers |-> None]
  /\ taken = [g \in Callers |-> <<>>]
  /\ dev = [d \in Devices |-> "off"]
  /\ onRecv = [d \in Devices |-> FALSE]
  /\ buffers = [d \in Devices |-> 0]
  /\ opened = 0 /\ closed = FALSE
  /\ NoChoice

Goto(g, to) == pc' = [pc EXCEPT ![g] = to]
-----------------------------------------------------------------------------
(* The daemon's core is idle, so that it starts a capture, only when the   *)
(* Stop before it has returned; a press that passed the idle test together *)
(* with another one's may still come late.                                 *)
Idle == Overlap \/ \A g \in Callers : pc[g] # "stop" /\ pc[g] # "wait"

(* c.samples = c.samples[:0].                                              *)
Cleared_Not == samples
Cleared == <<>>

(* Start, with no capture active: the lock is held until it returns.  The  *)
(* returns before this step's Cleared change nothing.                      *)
StartBegins(g) ==
  /\ pc[g] = "ready" /\ Idle
  /\ mu = None /\ ~active /\ ~closed
  /\ mu' = g
  /\ Enumerate
  /\ samples' = Cleared
  /\ Goto(g, "open")
  /\ UNCHANGED <<active, device, stopping, taken, deviceVars, opened, closed>>

TryFails(g) ==
  /\ pc[g] = "open" /\ Left
  /\ TryNext
  /\ UNCHANGED <<mu, captureVars, callerVars, deviceVars, opened, closed>>

StartOpens(g) ==
  /\ pc[g] = "open" /\ Left /\ opened < MaxCaptures
  /\ opened' = opened + 1
  /\ dev' = [dev EXCEPT ![opened'] = "on"]
  /\ device' = opened' /\ active' = TRUE
  /\ mu' = None
  /\ Forget
  /\ Goto(g, "ready")
  /\ UNCHANGED <<samples, stopping, taken, onRecv, buffers, closed>>

StartFails(g) ==
  /\ pc[g] = "open" /\ ~Left
  /\ mu' = None
  /\ Forget
  /\ Goto(g, "ready")
  /\ UNCHANGED <<captureVars, stopping, taken, deviceVars, opened, closed>>

(* Closing the hotkeys does not wait for a handler that runs: after Close  *)
(* there is no context, and the goroutine panics.                          *)
StartPanics(g) ==
  /\ pc[g] = "ready" /\ mu = None /\ ~active /\ closed
  /\ Goto(g, "panic")
  /\ UNCHANGED <<mu, captureVars, stopping, taken, deviceVars, opened, closed, choiceVars>>
-----------------------------------------------------------------------------
(* The device's thread calls onRecv ...                                    *)
BufferArrives(d) ==
  /\ dev[d] = "on" /\ ~onRecv[d] /\ buffers[d] < MaxBuffers
  /\ onRecv'  = [onRecv EXCEPT ![d] = TRUE]
  /\ buffers' = [buffers EXCEPT ![d] = @ + 1]
  /\ UNCHANGED <<mu, captureVars, callerVars, dev, opened, closed, choiceVars>>

(* ... which appends under the lock.                                       *)
BufferAppended(d) ==
  /\ onRecv[d] /\ mu = None
  /\ samples' = Append(samples, d)
  /\ onRecv'  = [onRecv EXCEPT ![d] = FALSE]
  /\ UNCHANGED <<mu, active, device, callerVars, dev, buffers, opened, closed, choiceVars>>
-----------------------------------------------------------------------------
(* Stop takes device and samples under the lock ...                        *)
Remaining == <<>>

AfterTake_Ready == "ready"
AfterTake == IF device = None THEN "ready" ELSE "stop"

LockAfterTake_Held(g) == g
LockAfterTake(g) == None

StopTakes(g) ==
  /\ pc[g] = "ready" /\ mu = None /\ active
  /\ active' = FALSE /\ device' = None
  /\ stopping' = [stopping EXCEPT ![g] = device]
  /\ taken'    = [taken EXCEPT ![g] = samples]
  /\ samples'  = Remaining
  /\ mu' = LockAfterTake(g)
  /\ Goto(g, AfterTake)
  /\ UNCHANGED <<deviceVars, opened, closed, choiceVars>>

(* ... and calls Uninit without it.                                        *)
Uninit(d) == dev' = [dev EXCEPT ![d] = "ending"]

(* Uninit waits for a callback that has begun.                             *)
Ended(d) ==
  /\ dev[d] = "ending" /\ ~onRecv[d]
  /\ dev' = [dev EXCEPT ![d] = "off"]

StopUninits(g) ==
  /\ pc[g] = "stop"
  /\ Uninit(stopping[g])
  /\ Goto(g, "wait")
  /\ UNCHANGED <<mu, captureVars, stopping, taken, onRecv, buffers, opened, closed, choiceVars>>

StopReturns(g) ==
  /\ pc[g] = "wait"
  /\ Ended(stopping[g])
  /\ stopping' = [stopping EXCEPT ![g] = None]
  /\ Goto(g, "ready")
  /\ UNCHANGED <<mu, captureVars, taken, onRecv, buffers, opened, closed, choiceVars>>
-----------------------------------------------------------------------------
(* Close calls Uninit with the lock held.                                  *)
CloseLocks(g) ==
  /\ pc[g] = "ready" /\ mu = None /\ ~closed
  /\ closed' = TRUE
  /\ IF device = None
       THEN /\ Goto(g, "closed")
            /\ UNCHANGED <<mu, dev>>
       ELSE /\ mu' = g
            /\ Uninit(device)
            /\ Goto(g, "close")
  /\ UNCHANGED <<captureVars, stopping, taken, onRecv, buffers, opened, choiceVars>>

CloseReturns(g) ==
  /\ pc[g] = "close"
  /\ Ended(device)
  /\ device' = None
  /\ mu' = None
  /\ Goto(g, "closed")
  /\ UNCHANGED <<active, samples, stopping, taken, onRecv, buffers, opened, closed, choiceVars>>
-----------------------------------------------------------------------------
(* What a goroutine does once it was called.                               *)
Continue(g) ==
  \/ TryFails(g) \/ StartOpens(g) \/ StartFails(g)
  \/ StopUninits(g) \/ StopReturns(g) \/ CloseReturns(g)

Call(g) == StartBegins(g) \/ StartPanics(g) \/ StopTakes(g) \/ CloseLocks(g)

DeviceStep(d) == BufferArrives(d) \/ BufferAppended(d)

Next ==
  \/ \E g \in Callers : Call(g) \/ Continue(g)
  \/ \E d \in Devices : DeviceStep(d)

Spec == Init /\ [][Next]_vars

(* Goroutines and callbacks that can run do.                               *)
FairSpec ==
  /\ Spec
  /\ \A g \in Callers : WF_vars(Continue(g))
  /\ \A d \in Devices : SF_vars(BufferAppended(d))
-----------------------------------------------------------------------------
CaptureTypeOK ==
  /\ mu \in Callers \cup {None}
  /\ active \in BOOLEAN /\ device \in Devices \cup {None}
  /\ samples \in Seq(Devices)
  /\ pc \in [Callers -> {"ready", "open", "stop", "wait", "close", "closed", "panic"}]
  /\ stopping \in [Callers -> Devices \cup {None}]
  /\ taken \in [Callers -> Seq(Devices)]
  /\ dev \in [Devices -> {"off", "on", "ending"}]
  /\ onRecv \in [Devices -> BOOLEAN]
  /\ buffers \in [Devices -> 0 .. MaxBuffers]
  /\ opened \in 0 .. MaxCaptures /\ closed \in BOOLEAN

TypeOK == CaptureTypeOK /\ ChoiceTypeOK

(* A recording holds nothing that was said in an earlier one: the buffers  *)
(* that arrive between Stop's unlock and the end of Uninit are dropped by  *)
(* the next Start.                                                         *)
RecordingIsFresh ==
  /\ active /\ device # None => \A i \in 1 .. Len(samples) : samples[i] = device
  /\ \A g \in Callers : stopping[g] # None =>
       \A i \in 1 .. Len(taken[g]) : taken[g][i] = stopping[g]

(* A device runs only for the active capture, or for a Stop or Close that  *)
(* is about to end it: no microphone is left open.                         *)
NoMicrophoneLeft ==
  \A d \in Devices : dev[d] # "off" =>
    \/ d = device
    \/ \E g \in Callers : stopping[g] = d /\ pc[g] \in {"stop", "wait"}

(* Start opens the best microphone that can be opened: every better one    *)
(* was tried, and failed.                                                  *)
BestDeviceOpened ==
  [][opened' # opened => \A i \in Indices : Better(i, Current) => i \in Failed]_vars

(* Stop always returns: it calls Uninit without the lock, so the callback  *)
(* that Uninit waits for can finish.                                       *)
StopAlwaysReturns == \A g \in Callers : pc[g] = "stop" ~> pc[g] = "ready"

(* "Close releases the audio backend".                                     *)
CloseAlwaysReturns == \A g \in Callers : pc[g] = "close" ~> pc[g] = "closed"
=============================================================================

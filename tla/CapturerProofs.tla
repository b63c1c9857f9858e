--------------------------- MODULE CapturerProofs ---------------------------
(***************************************************************************)
(* Proofs about Capturer, for any number of goroutines, captures, buffers  *)
(* and microphones.                                                        *)
(***************************************************************************)
EXTENDS Capturer, FiniteSetTheorems, WellFoundedInduction, TLAPS

(* Capturer.mu is held by a Start that looks for a device and by a Close   *)
(* that waits for one, and by nobody else.                                 *)
LockHeld == \A g \in Callers : pc[g] \in {"open", "close"} <=> mu = g

(* Who ends a device: the Stop that took it.                               *)
InStop(g) == pc[g] \in {"stop", "wait"}

StopsOwnDevice ==
  /\ \A g \in Callers : stopping[g] # None <=> InStop(g)
  /\ \A g \in Callers : pc[g] = "stop" => dev[stopping[g]] = "on"
  /\ \A g \in Callers : pc[g] = "wait" => dev[stopping[g]] = "ending"
  /\ \A g \in Callers : InStop(g) => stopping[g] # device /\ stopping[g] <= opened
  /\ \A g, h \in Callers : InStop(g) /\ stopping[g] = stopping[h] => g = h

(* The device of the active capture runs until a Close ends it.            *)
Closing == \E g \in Callers : pc[g] = "close"

DeviceRuns ==
  /\ device # None => device <= opened
  /\ device # None => dev[device] = IF Closing THEN "ending" ELSE "on"
  /\ Closing => device # None /\ closed
  /\ closed /\ device # None => Closing
  /\ ~closed => (active <=> device # None)
  /\ \A g \in Callers : pc[g] = "open" => ~closed /\ ~active /\ device = None

(* A device that is off delivers nothing, and those to come are off.       *)
OffIsSilent ==
  \A d \in Devices : (d > opened => dev[d] = "off") /\ (dev[d] = "off" => ~onRecv[d])

(* What is known whether or not captures overlap.                          *)
DeviceInv ==
  CaptureTypeOK /\ LockHeld /\ StopsOwnDevice /\ DeviceRuns /\ OffIsSilent /\ NoMicrophoneLeft

(* When a Start waits for the Stop before it, a device that may still      *)
(* append to the samples is the active one, and an open search found       *)
(* nothing to keep.                                                        *)
StartsClean ==
  /\ device # None \/ (\E g \in Callers : pc[g] = "open") => \A g \in Callers : ~InStop(g)
  /\ \A g \in Callers : pc[g] = "open" => samples = <<>>

FreshInv == StartsClean /\ RecordingIsFresh
-----------------------------------------------------------------------------
(* The steps of Start.                                                     *)
LEMMA DeviceStartStep ==
  ASSUME DeviceInv, NEW g \in Callers,
         StartBegins(g) \/ TryFails(g) \/ StartOpens(g) \/ StartFails(g) \/ StartPanics(g)
  PROVE  DeviceInv'
<1> USE CapturerAssumption
   
    DEF DeviceInv, CaptureTypeOK, Devices, InStop, Closing, Goto,
        captureVars, callerVars, deviceVars
<1>1. CASE StartBegins(g)
  <2>1. CaptureTypeOK'
    BY <1>1 DEF StartBegins, Cleared
  <2>2. LockHeld'
    BY <1>1 DEF StartBegins, Cleared, LockHeld
  <2>3. StopsOwnDevice'
    BY <1>1 DEF StartBegins, Cleared, StopsOwnDevice, DeviceRuns
  <2>4. DeviceRuns'
    BY <1>1 DEF StartBegins, Cleared, DeviceRuns, LockHeld
  <2>5. OffIsSilent'
    BY <1>1 DEF StartBegins, Cleared, OffIsSilent
  <2>6. NoMicrophoneLeft'
    BY <1>1 DEF StartBegins, Cleared, NoMicrophoneLeft, StopsOwnDevice
  <2> QED
    BY <2>1, <2>2, <2>3, <2>4, <2>5, <2>6
<1>2. CASE TryFails(g)
  <2>1. CaptureTypeOK'
    BY <1>2 DEF TryFails
  <2>2. LockHeld'
    BY <1>2 DEF TryFails, LockHeld
  <2>3. StopsOwnDevice'
    BY <1>2 DEF TryFails, StopsOwnDevice, DeviceRuns
  <2>4. DeviceRuns'
    BY <1>2 DEF TryFails, DeviceRuns, LockHeld
  <2>5. OffIsSilent'
    BY <1>2 DEF TryFails, OffIsSilent
  <2>6. NoMicrophoneLeft'
    BY <1>2 DEF TryFails, NoMicrophoneLeft, StopsOwnDevice
  <2> QED
    BY <2>1, <2>2, <2>3, <2>4, <2>5, <2>6
<1>3. CASE StartOpens(g)
  <2>1. opened' \in Devices /\ opened' = opened + 1 /\ device = None /\ dev[opened'] = "off"
    BY <1>3 DEF StartOpens, DeviceRuns, OffIsSilent
  <2>2. \A h \in Callers : stopping[h] # None => pc'[h] = pc[h] /\ h # g
    BY <1>3 DEF StartOpens, StopsOwnDevice
  <2>3. \A d \in Devices : d # opened' => dev'[d] = dev[d]
    BY <1>3 DEF StartOpens
  <2>4. CaptureTypeOK'
    BY <1>3, <2>1, <2>2, <2>3 DEF StartOpens
  <2>5. LockHeld'
    BY <1>3, <2>1, <2>2, <2>3 DEF StartOpens, LockHeld
  <2>6. StopsOwnDevice'
    BY <1>3, <2>1, <2>2, <2>3 DEF StartOpens, StopsOwnDevice, DeviceRuns
  <2>7. DeviceRuns'
    BY <1>3, <2>1, <2>2, <2>3 DEF StartOpens, DeviceRuns, LockHeld
  <2>8. OffIsSilent'
    BY <1>3, <2>1, <2>2, <2>3 DEF StartOpens, OffIsSilent
  <2>9. NoMicrophoneLeft'
    BY <1>3, <2>1, <2>2, <2>3 DEF StartOpens, NoMicrophoneLeft, StopsOwnDevice
  <2> QED
    BY <2>4, <2>5, <2>6, <2>7, <2>8, <2>9
<1>4. CASE StartFails(g)
  <2>1. CaptureTypeOK'
    BY <1>4 DEF StartFails
  <2>2. LockHeld'
    BY <1>4 DEF StartFails, LockHeld
  <2>3. StopsOwnDevice'
    BY <1>4 DEF StartFails, StopsOwnDevice, DeviceRuns
  <2>4. DeviceRuns'
    BY <1>4 DEF StartFails, DeviceRuns, LockHeld
  <2>5. OffIsSilent'
    BY <1>4 DEF StartFails, OffIsSilent
  <2>6. NoMicrophoneLeft'
    BY <1>4 DEF StartFails, NoMicrophoneLeft, StopsOwnDevice
  <2> QED
    BY <2>1, <2>2, <2>3, <2>4, <2>5, <2>6
<1>5. CASE StartPanics(g)
  <2>1. CaptureTypeOK'
    BY <1>5 DEF StartPanics
  <2>2. LockHeld'
    BY <1>5 DEF StartPanics, LockHeld
  <2>3. StopsOwnDevice'
    BY <1>5 DEF StartPanics, StopsOwnDevice, DeviceRuns
  <2>4. DeviceRuns'
    BY <1>5 DEF StartPanics, DeviceRuns, LockHeld
  <2>5. OffIsSilent'
    BY <1>5 DEF StartPanics, OffIsSilent
  <2>6. NoMicrophoneLeft'
    BY <1>5 DEF StartPanics, NoMicrophoneLeft, StopsOwnDevice
  <2> QED
    BY <2>1, <2>2, <2>3, <2>4, <2>5, <2>6
<1> QED
  BY <1>1, <1>2, <1>3, <1>4, <1>5

(* The steps of Stop and Close.                                            *)
LEMMA DeviceStopStep ==
  ASSUME DeviceInv, NEW g \in Callers,
         StopTakes(g) \/ StopUninits(g) \/ StopReturns(g) \/ CloseLocks(g) \/ CloseReturns(g)
  PROVE  DeviceInv'
<1> USE CapturerAssumption
   
    DEF DeviceInv, CaptureTypeOK, Devices, InStop, Closing, Goto,
        captureVars, callerVars, deviceVars
<1>1. CASE StopTakes(g)
  <2>1. ~Closing
    BY <1>1 DEF StopTakes, AfterTake, LockAfterTake, Remaining, LockHeld
  <2>2. device # None => device <= opened /\ dev[device] = "on"
    BY <2>1 DEF DeviceRuns
  <2>3. stopping[g] = None
    BY <1>1 DEF StopTakes, AfterTake, LockAfterTake, Remaining, StopsOwnDevice
  <2>4. /\ pc'[g] = IF device = None THEN "ready" ELSE "stop"
        /\ \A h \in Callers : h # g => pc'[h] = pc[h]
    BY <1>1 DEF StopTakes, AfterTake, LockAfterTake, Remaining
  <2>5. stopping'[g] = device /\ \A h \in Callers : h # g => stopping'[h] = stopping[h]
    BY <1>1 DEF StopTakes, AfterTake, LockAfterTake, Remaining
  <2>6. CaptureTypeOK'
    <3>1. AfterTake \in {"ready", "stop"}
      BY DEF AfterTake
    <3>2. samples' \in Seq(Devices) /\ mu' = None
      BY <1>1 DEF StopTakes, LockAfterTake, Remaining
    <3> QED
      BY <1>1, <3>1, <3>2 DEF StopTakes
  <2>7. LockHeld'
    BY <1>1, <2>1, <2>2, <2>3, <2>4, <2>5
    DEF StopTakes, AfterTake, LockAfterTake, Remaining, LockHeld
  <2>8. StopsOwnDevice'
    BY <1>1, <2>1, <2>2, <2>3, <2>4, <2>5
    DEF StopTakes, AfterTake, LockAfterTake, Remaining, StopsOwnDevice, DeviceRuns
  <2>9. DeviceRuns'
    BY <1>1, <2>1, <2>2, <2>3, <2>4, <2>5
    DEF StopTakes, AfterTake, LockAfterTake, Remaining, DeviceRuns, LockHeld
  <2>10. OffIsSilent'
    BY <1>1, <2>1, <2>2, <2>3, <2>4, <2>5
    DEF StopTakes, AfterTake, LockAfterTake, Remaining, OffIsSilent
  <2>11. NoMicrophoneLeft'
    BY <1>1, <2>1, <2>2, <2>3, <2>4, <2>5
    DEF StopTakes, AfterTake, LockAfterTake, Remaining, NoMicrophoneLeft, StopsOwnDevice
  <2> QED
    BY <2>6, <2>7, <2>8, <2>9, <2>10, <2>11
<1>2. CASE StopUninits(g)
  <2>1. /\ stopping[g] \in Devices /\ stopping[g] # device /\ stopping[g] <= opened
        /\ dev[stopping[g]] = "on"
    BY <1>2 DEF StopUninits, Uninit, StopsOwnDevice
  <2>2. Closing' <=> Closing
    BY <1>2 DEF StopUninits, Uninit
  <2>3. CaptureTypeOK'
    BY <1>2, <2>1, <2>2 DEF StopUninits, Uninit
  <2>4. LockHeld'
    BY <1>2, <2>1, <2>2 DEF StopUninits, Uninit, LockHeld
  <2>5. StopsOwnDevice'
    BY <1>2, <2>1, <2>2 DEF StopUninits, Uninit, StopsOwnDevice, DeviceRuns
  <2>6. DeviceRuns'
    BY <1>2, <2>1, <2>2 DEF StopUninits, Uninit, DeviceRuns, LockHeld
  <2>7. OffIsSilent'
    BY <1>2, <2>1, <2>2 DEF StopUninits, Uninit, OffIsSilent
  <2>8. NoMicrophoneLeft'
    BY <1>2, <2>1, <2>2 DEF StopUninits, Uninit, NoMicrophoneLeft, StopsOwnDevice
  <2> QED
    BY <2>3, <2>4, <2>5, <2>6, <2>7, <2>8
<1>3. CASE StopReturns(g)
  <2>1. stopping[g] \in Devices /\ stopping[g] # device /\ stopping[g] <= opened
    BY <1>3 DEF StopReturns, Ended, StopsOwnDevice
  <2>2. Closing' <=> Closing
    BY <1>3 DEF StopReturns, Ended
  <2>3. CaptureTypeOK'
    BY <1>3, <2>1, <2>2 DEF StopReturns, Ended
  <2>4. LockHeld'
    BY <1>3, <2>1, <2>2 DEF StopReturns, Ended, LockHeld
  <2>5. StopsOwnDevice'
    BY <1>3, <2>1, <2>2 DEF StopReturns, Ended, StopsOwnDevice, DeviceRuns
  <2>6. DeviceRuns'
    BY <1>3, <2>1, <2>2 DEF StopReturns, Ended, DeviceRuns, LockHeld
  <2>7. OffIsSilent'
    BY <1>3, <2>1, <2>2 DEF StopReturns, Ended, OffIsSilent
  <2>8. NoMicrophoneLeft'
    BY <1>3, <2>1, <2>2 DEF StopReturns, Ended, NoMicrophoneLeft, StopsOwnDevice
  <2> QED
    BY <2>3, <2>4, <2>5, <2>6, <2>7, <2>8
<1>4. CASE CloseLocks(g)
  <2>1. device # None => device <= opened /\ dev[device] = "on"
    BY <1>4 DEF CloseLocks, Uninit, DeviceRuns, LockHeld
  <2>2. pc'[g] \in {"closed", "close"} /\ \A h \in Callers : h # g => pc'[h] = pc[h]
    BY <1>4 DEF CloseLocks, Uninit
  <2>3. \A d \in Devices : d # device => dev'[d] = dev[d]
    BY <1>4 DEF CloseLocks, Uninit
  <2>4. device # None => dev'[device] = "ending"
    BY <1>4 DEF CloseLocks, Uninit
  <2>5. stopping[g] = None
    BY <1>4 DEF CloseLocks, Uninit, StopsOwnDevice
  <2>6. UNCHANGED <<stopping, device, opened>>
    BY <1>4 DEF CloseLocks
  <2>7. \A h \in Callers : InStop(h)' <=> InStop(h)
    BY <1>4, <2>2 DEF CloseLocks
  <2>8. \A h \in Callers : InStop(h) => /\ pc'[h] = pc[h] /\ stopping[h] \in Devices
                                          /\ dev'[stopping[h]] = dev[stopping[h]]
    BY <1>4, <2>2, <2>3 DEF CloseLocks, StopsOwnDevice
  <2>9. CaptureTypeOK'
    BY <1>4, <2>1, <2>2, <2>3, <2>4, <2>5 DEF CloseLocks, Uninit
  <2>10. LockHeld'
    BY <1>4, <2>1, <2>2, <2>3, <2>4, <2>5 DEF CloseLocks, Uninit, LockHeld
  <2>11. StopsOwnDevice'
    BY <2>6, <2>7, <2>8 DEF StopsOwnDevice
  <2>12. DeviceRuns'
    BY <1>4, <2>1, <2>2, <2>3, <2>4, <2>5 DEF CloseLocks, Uninit, DeviceRuns, LockHeld
  <2>13. OffIsSilent'
    BY <1>4, <2>1, <2>2, <2>3, <2>4, <2>5 DEF CloseLocks, Uninit, OffIsSilent
  <2>14. NoMicrophoneLeft'
    BY <2>3, <2>6, <2>7 DEF NoMicrophoneLeft
  <2> QED
    BY <2>9, <2>10, <2>11, <2>12, <2>13, <2>14
<1>5. CASE CloseReturns(g)
  <2>1. device \in Devices /\ device <= opened
    BY <1>5 DEF CloseReturns, Ended, DeviceRuns
  <2>2. \A d \in Devices : d # device => dev'[d] = dev[d]
    BY <1>5 DEF CloseReturns, Ended
  <2>3. dev'[device] = "off" /\ ~onRecv[device]
    BY <1>5, <2>1 DEF CloseReturns, Ended
  <2>4. stopping[g] = None /\ \A h \in Callers : h # g => pc'[h] = pc[h]
    BY <1>5 DEF CloseReturns, Ended, StopsOwnDevice
  <2>5. CaptureTypeOK'
    BY <1>5, <2>1, <2>2, <2>3, <2>4 DEF CloseReturns, Ended
  <2>6. LockHeld'
    BY <1>5, <2>1, <2>2, <2>3, <2>4 DEF CloseReturns, Ended, LockHeld
  <2>7. StopsOwnDevice'
    BY <1>5, <2>1, <2>2, <2>3, <2>4 DEF CloseReturns, Ended, StopsOwnDevice, DeviceRuns
  <2>8. DeviceRuns'
    BY <1>5, <2>1, <2>2, <2>3, <2>4 DEF CloseReturns, Ended, DeviceRuns, LockHeld
  <2>9. OffIsSilent'
    BY <1>5, <2>1, <2>2, <2>3, <2>4 DEF CloseReturns, Ended, OffIsSilent
  <2>10. NoMicrophoneLeft'
    BY <1>5, <2>1, <2>2, <2>3, <2>4 DEF CloseReturns, Ended, NoMicrophoneLeft, StopsOwnDevice
  <2> QED
    BY <2>5, <2>6, <2>7, <2>8, <2>9, <2>10
<1> QED
  BY <1>1, <1>2, <1>3, <1>4, <1>5

(* The steps of a device's thread.                                         *)
LEMMA DeviceThreadStep ==
  ASSUME DeviceInv, NEW d \in Devices, BufferArrives(d) \/ BufferAppended(d)
  PROVE  DeviceInv'
<1> USE CapturerAssumption
   
    DEF DeviceInv, CaptureTypeOK, Devices, InStop, Closing, Goto,
        captureVars, callerVars, deviceVars
<1>1. CASE BufferArrives(d)
  <2>1. CaptureTypeOK'
    BY <1>1 DEF BufferArrives
  <2>2. LockHeld'
    BY <1>1 DEF BufferArrives, LockHeld
  <2>3. StopsOwnDevice'
    BY <1>1 DEF BufferArrives, StopsOwnDevice, DeviceRuns
  <2>4. DeviceRuns'
    BY <1>1 DEF BufferArrives, DeviceRuns, LockHeld
  <2>5. OffIsSilent'
    BY <1>1 DEF BufferArrives, OffIsSilent
  <2>6. NoMicrophoneLeft'
    BY <1>1 DEF BufferArrives, NoMicrophoneLeft, StopsOwnDevice
  <2> QED
    BY <2>1, <2>2, <2>3, <2>4, <2>5, <2>6
<1>2. CASE BufferAppended(d)
  <2>1. CaptureTypeOK'
    BY <1>2 DEF BufferAppended
  <2>2. LockHeld'
    BY <1>2 DEF BufferAppended, LockHeld
  <2>3. StopsOwnDevice'
    BY <1>2 DEF BufferAppended, StopsOwnDevice, DeviceRuns
  <2>4. DeviceRuns'
    BY <1>2 DEF BufferAppended, DeviceRuns, LockHeld
  <2>5. OffIsSilent'
    BY <1>2 DEF BufferAppended, OffIsSilent
  <2>6. NoMicrophoneLeft'
    BY <1>2 DEF BufferAppended, NoMicrophoneLeft, StopsOwnDevice
  <2> QED
    BY <2>1, <2>2, <2>3, <2>4, <2>5, <2>6
<1> QED
  BY <1>1, <1>2

(* The devices' invariant is inductive, with or without overlaps.          *)
LEMMA DeviceInvStep == DeviceInv /\ [Next]_vars => DeviceInv'
<1> SUFFICES ASSUME DeviceInv, [Next]_vars PROVE DeviceInv'
  OBVIOUS
<1>1. CASE UNCHANGED vars
  BY <1>1 DEF vars, captureVars, callerVars, deviceVars, DeviceInv, CaptureTypeOK, LockHeld,
     StopsOwnDevice, InStop, DeviceRuns, Closing, OffIsSilent, NoMicrophoneLeft
<1>2. CASE Next
  BY <1>2, DeviceStartStep, DeviceStopStep, DeviceThreadStep
  DEF Next, Call, Continue, DeviceStep
<1> QED
  BY <1>1, <1>2

(* ... and holds from the start.                                           *)
LEMMA DeviceInvariant == Spec => []DeviceInv
<1>1. Init => DeviceInv
  <2> SUFFICES ASSUME Init PROVE DeviceInv
    OBVIOUS
  <2>1. CaptureTypeOK
    <3>1. samples \in Seq(Devices) /\ taken \in [Callers -> Seq(Devices)]
      BY DEF Init
    <3>2. /\ mu \in Callers \cup {None} /\ active \in BOOLEAN
          /\ device \in Devices \cup {None} /\ closed \in BOOLEAN
          /\ stopping \in [Callers -> Devices \cup {None}]
      BY DEF Init
    <3>3. pc \in [Callers -> {"ready", "open", "stop", "wait", "close", "closed", "panic"}]
      BY DEF Init
    <3>4. /\ dev \in [Devices -> {"off", "on", "ending"}]
          /\ onRecv \in [Devices -> BOOLEAN]
          /\ buffers \in [Devices -> 0 .. MaxBuffers] /\ opened \in 0 .. MaxCaptures
      BY CapturerAssumption DEF Init
    <3> QED
      BY <3>1, <3>2, <3>3, <3>4 DEF CaptureTypeOK
  <2>2. LockHeld /\ StopsOwnDevice /\ DeviceRuns
    BY CapturerAssumption DEF Init, LockHeld, StopsOwnDevice, InStop, DeviceRuns, Closing
  <2>3. OffIsSilent /\ NoMicrophoneLeft
    BY DEF Init, OffIsSilent, NoMicrophoneLeft
  <2> QED
    BY <2>1, <2>2, <2>3 DEF DeviceInv
<1> QED
  BY <1>1, DeviceInvStep, PTL DEF Spec

(* No microphone is left open, however Starts, Stops and Close overlap.    *)
THEOREM MicrophonesAreClosed == Spec => []NoMicrophoneLeft
<1>1. DeviceInv => NoMicrophoneLeft
  BY DEF DeviceInv
<1> QED
  BY <1>1, DeviceInvariant, PTL
-----------------------------------------------------------------------------
(* A device that may still append is the active one, or one that a Stop    *)
(* has yet to end.                                                         *)
LEMMA WhoAppends ==
  ASSUME DeviceInv, StartsClean, NEW d \in Devices, onRecv[d]
  PROVE  d = device \/ (device = None /\ \A g \in Callers : pc[g] # "open")
<1>1. dev[d] # "off"
  BY DEF DeviceInv, OffIsSilent
<1>2. d = device \/ \E g \in Callers : InStop(g)
  BY <1>1 DEF DeviceInv, NoMicrophoneLeft, InStop
<1> QED
  BY <1>2 DEF StartsClean

(* A Start clears what the last device still appended, and begins only     *)
(* when that one has ended.                                                *)
LEMMA FreshCallerStep ==
  ASSUME ~Overlap, DeviceInv, FreshInv, NEW g \in Callers, Call(g) \/ Continue(g)
  PROVE  FreshInv'
<1> USE CapturerAssumption
    DEF DeviceInv, CaptureTypeOK, Devices, InStop, Goto, captureVars, callerVars, deviceVars,
        FreshInv
<1>1. CASE StartBegins(g)
  <2>1. StartsClean'
    BY <1>1 DEF StartBegins, Idle, Cleared, StartsClean
  <2>2. RecordingIsFresh'
    BY <1>1 DEF StartBegins, Cleared, RecordingIsFresh
  <2> QED
    BY <2>1, <2>2
<1>2. CASE StartOpens(g)
  <2>1. samples = <<>>
    BY <1>2 DEF StartOpens, StartsClean
  <2>2. StartsClean'
    BY <1>2, <2>1 DEF StartOpens, StartsClean
  <2>3. RecordingIsFresh'
    BY <1>2, <2>1 DEF StartOpens, RecordingIsFresh
  <2> QED
    BY <2>2, <2>3
<1>3. CASE StopTakes(g)
  <2>1. StartsClean'
    BY <1>3 DEF StopTakes, AfterTake, LockAfterTake, StartsClean, LockHeld
  <2>2. RecordingIsFresh'
    BY <1>3 DEF StopTakes, RecordingIsFresh
  <2> QED
    BY <2>1, <2>2
<1>4. CASE TryFails(g)
  <2>1. StartsClean'
    BY <1>4 DEF TryFails, StartsClean
  <2>2. RecordingIsFresh'
    BY <1>4 DEF TryFails, RecordingIsFresh
  <2> QED
    BY <2>1, <2>2
<1>5. CASE StartFails(g)
  <2>1. StartsClean'
    BY <1>5 DEF StartFails, StartsClean
  <2>2. RecordingIsFresh'
    BY <1>5 DEF StartFails, RecordingIsFresh
  <2> QED
    BY <2>1, <2>2
<1>6. CASE StartPanics(g)
  <2>1. StartsClean'
    BY <1>6 DEF StartPanics, StartsClean
  <2>2. RecordingIsFresh'
    BY <1>6 DEF StartPanics, RecordingIsFresh
  <2> QED
    BY <2>1, <2>2
<1>7. CASE StopUninits(g)
  <2>1. StartsClean'
    BY <1>7 DEF StopUninits, StartsClean
  <2>2. RecordingIsFresh'
    BY <1>7 DEF StopUninits, RecordingIsFresh
  <2> QED
    BY <2>1, <2>2
<1>8. CASE StopReturns(g)
  <2>1. StartsClean'
    BY <1>8 DEF StopReturns, StartsClean
  <2>2. RecordingIsFresh'
    BY <1>8 DEF StopReturns, RecordingIsFresh
  <2> QED
    BY <2>1, <2>2
<1>9. CASE CloseLocks(g)
  <2>1. StartsClean'
    BY <1>9 DEF CloseLocks, StartsClean, LockHeld
  <2>2. RecordingIsFresh'
    BY <1>9 DEF CloseLocks, RecordingIsFresh
  <2> QED
    BY <2>1, <2>2
<1>10. CASE CloseReturns(g)
  <2>1. StartsClean'
    BY <1>10 DEF CloseReturns, StartsClean
  <2>2. RecordingIsFresh'
    BY <1>10 DEF CloseReturns, RecordingIsFresh
  <2> QED
    BY <2>1, <2>2
<1> QED
  BY <1>1, <1>2, <1>3, <1>4, <1>5, <1>6, <1>7, <1>8, <1>9, <1>10 DEF Call, Continue

(* An append to an active recording is its own device's.                   *)
LEMMA FreshThreadStep ==
  ASSUME DeviceInv, FreshInv, NEW d \in Devices, DeviceStep(d)
  PROVE  FreshInv'
<1> USE DEF FreshInv, callerVars, captureVars
<1>1. CASE BufferArrives(d)
  BY <1>1 DEF BufferArrives, StartsClean, InStop, RecordingIsFresh
<1>2. CASE BufferAppended(d)
  <2>1. d = device \/ (device = None /\ \A g \in Callers : pc[g] # "open")
    BY <1>2, WhoAppends DEF BufferAppended
  <2>2. \A g \in Callers : pc[g] # "open"
    BY <1>2, CapturerAssumption DEF BufferAppended, DeviceInv, LockHeld
  <2>3. StartsClean'
    BY <1>2, <2>2 DEF BufferAppended, StartsClean, InStop
  <2>4. RecordingIsFresh'
    BY <1>2, <2>1 DEF BufferAppended, RecordingIsFresh, DeviceInv, CaptureTypeOK
  <2> QED
    BY <2>3, <2>4
<1> QED
  BY <1>1, <1>2 DEF DeviceStep

(* With one capture after the other, a recording holds only what was said  *)
(* in it: what arrives after Stop's unlock is cleared by the next Start.   *)
THEOREM RecordingsAreFresh ==
  ASSUME ~Overlap PROVE Spec => []RecordingIsFresh
<1>1. Init => FreshInv
  BY CapturerAssumption DEF Init, FreshInv, StartsClean, InStop, RecordingIsFresh
<1>2. DeviceInv /\ FreshInv /\ [Next]_vars => FreshInv'
  <2> SUFFICES ASSUME DeviceInv, FreshInv, [Next]_vars PROVE FreshInv'
    OBVIOUS
  <2>1. CASE UNCHANGED vars
    BY <2>1 DEF vars, captureVars, callerVars, FreshInv, StartsClean, InStop, RecordingIsFresh
  <2> QED
    BY <2>1, FreshCallerStep, FreshThreadStep DEF Next
<1>3. FreshInv => RecordingIsFresh
  BY DEF FreshInv
<1> QED
  BY <1>1, <1>2, <1>3, DeviceInvariant, PTL DEF Spec
-----------------------------------------------------------------------------
(* The order in which microphones are tried.                               *)

(* A set of numbers has a least one.                                       *)
LEMMA LeastNumber ==
  ASSUME NEW S, S \subseteq Nat, S # {}
  PROVE  \E m \in S : \A k \in S : m <= k
<1> DEFINE Below == {0 .. m : m \in S}
           Order == StrictSubsetOrdering(Nat)
<1>1. Below \subseteq FiniteSubsetsOf(Nat) /\ Below # {}
  <2>1. \A m \in S : 0 .. m \in SUBSET Nat /\ IsFiniteSet(0 .. m)
    BY FS_Interval
  <2> QED
    BY <2>1 DEF FiniteSubsetsOf
<1>2. IsWellFoundedOn(Order, FiniteSubsetsOf(Nat))
  BY FS_StrictSubsetOrderingWellFounded
<1>3. PICK b \in Below : \A c \in Below : <<c, b>> \notin Order
  <2> HIDE DEF Below, Order
  <2> QED
    BY <1>1, <1>2, WFMin
<1>4. PICK m \in S : b = 0 .. m
  BY <1>3
<1>5. ASSUME NEW k \in S, k < m
      PROVE  FALSE
  <2>1. 0 .. k \subseteq b /\ 0 .. k # b
    BY <1>4, <1>5
  <2>2. <<0 .. k, b>> \in Order
    BY <2>1, <1>4 DEF StrictSubsetOrdering
  <2> QED
    BY <1>3, <2>2
<1> QED
  BY <1>5

(* The orders that pick has made when it has looked at no microphone, at   *)
(* one, ..., at n; R are those that it takes.                              *)
Orders(R, f, n) ==
  f = [i \in 0 .. n |-> IF i = 0 THEN <<>>
                        ELSE IF i \in R THEN Append(f[i - 1], i) ELSE f[i - 1]]

(* There are such orders, however many microphones there are.              *)
LEMMA OrdersExist ==
  ASSUME NEW R, NEW n \in Nat
  PROVE  \E f : Orders(R, f, n)
<1> DEFINE Bad == {k \in Nat : ~\E f : Orders(R, f, k)}
<1>1. Bad = {}
  <2>1. SUFFICES ASSUME Bad # {} PROVE FALSE
    OBVIOUS
  <2>2. PICK k \in Bad : \A j \in Bad : k <= j
    <3>1. Bad \subseteq Nat
      OBVIOUS
    <3> HIDE DEF Bad
    <3> QED
      BY <2>1, <3>1, LeastNumber
  <2>3. k \in Nat /\ ~\E f : Orders(R, f, k)
    BY <2>2
  <2>4. CASE k = 0
    <3>1. PICK g : g = [i \in 0 .. 0 |-> <<>>]
      OBVIOUS
    <3>2. Orders(R, g, 0)
      BY <3>1 DEF Orders
    <3> QED
      BY <2>3, <2>4, <3>2
  <2>5. CASE k > 0
    <3>1. k - 1 \in Nat /\ ~(k <= k - 1)
      BY <2>3, <2>5
    <3>2. PICK f : Orders(R, f, k - 1)
      BY <2>2, <3>1
    <3>3. PICK last : last = IF k \in R THEN Append(f[k - 1], k) ELSE f[k - 1]
      OBVIOUS
    <3>4. PICK g : g = [i \in 0 .. k |-> IF i = k THEN last ELSE f[i]]
      OBVIOUS
    <3>5. ASSUME NEW i \in 0 .. k
          PROVE  g[i] = IF i = 0 THEN <<>> ELSE IF i \in R THEN Append(g[i - 1], i) ELSE g[i - 1]
      <4>1. CASE i = k
        <5>1. g[k] = last /\ g[k - 1] = f[k - 1]
          BY <2>3, <2>5, <3>1, <3>4
        <5> QED
          BY <2>5, <3>3, <4>1, <5>1
      <4>2. CASE i # k
        <5>1. i \in 0 .. k - 1 /\ g[i] = f[i]
          BY <2>3, <3>4, <4>2
        <5>2. f[i] = IF i = 0 THEN <<>> ELSE IF i \in R THEN Append(f[i - 1], i) ELSE f[i - 1]
          BY <3>2, <5>1 DEF Orders
        <5>3. i # 0 => g[i - 1] = f[i - 1]
          BY <2>3, <3>4, <4>2
        <5> QED
          BY <5>1, <5>2, <5>3
      <4> QED
        BY <4>1, <4>2
    <3>6. g = [i \in 0 .. k |-> g[i]]
      BY <3>4
    <3>7. Orders(R, g, k)
      BY <3>5, <3>6 DEF Orders
    <3> QED
      BY <2>3, <3>7
  <2> QED
    BY <2>3, <2>4, <2>5
<1> QED
  BY <1>1

(* A sequence of the numbers in T, each once and in order.                 *)
Ascending(s, T) ==
  /\ s \in Seq(Nat)
  /\ \A i \in 1 .. Len(s) : s[i] \in T
  /\ \A x \in T : \E i \in 1 .. Len(s) : s[i] = x
  /\ \A i, j \in 1 .. Len(s) : i < j => s[i] < s[j]

(* Each of the orders has the microphones looked at so far that it takes.  *)
LEMMA OrdersAscend ==
  ASSUME NEW R, NEW n \in Nat, NEW f, Orders(R, f, n)
  PROVE  \A k \in 0 .. n : Ascending(f[k], R \cap 1 .. k)
<1> DEFINE Bad == {k \in 0 .. n : ~Ascending(f[k], R \cap 1 .. k)}
<1>1. Bad = {}
  <2>1. SUFFICES ASSUME Bad # {} PROVE FALSE
    OBVIOUS
  <2>2. PICK k \in Bad : \A j \in Bad : k <= j
    <3>1. Bad \subseteq Nat
      OBVIOUS
    <3> HIDE DEF Bad
    <3> QED
      BY <2>1, <3>1, LeastNumber
  <2>3. k \in 0 .. n /\ ~Ascending(f[k], R \cap 1 .. k)
    BY <2>2
  <2>4. CASE k = 0
    <3>1. f[0] = <<>>
      BY <2>3, <2>4 DEF Orders
    <3>2. R \cap 1 .. 0 = {}
      OBVIOUS
    <3>3. Ascending(<<>>, {})
      BY DEF Ascending
    <3> QED
      BY <2>3, <2>4, <3>1, <3>2, <3>3
  <2>5. CASE k > 0
    <3>1. k - 1 \in 0 .. n /\ ~(k <= k - 1) /\ k \in Nat
      BY <2>3, <2>5
    <3>2. PICK s, T : s = f[k - 1] /\ T = R \cap 1 .. k - 1
      OBVIOUS
    <3>3. Ascending(s, T)
      BY <2>2, <3>1, <3>2
    <3>4. f[k] = IF k \in R THEN Append(s, k) ELSE s
      <4>1. \A i \in 0 .. n : f[i] = IF i = 0 THEN <<>>
                                     ELSE IF i \in R THEN Append(f[i - 1], i) ELSE f[i - 1]
        BY DEF Orders
      <4>2. k \in 0 .. n /\ k # 0
        BY <2>3, <2>5
      <4> QED
        BY <3>2, <4>1, <4>2
    <3>5. CASE k \in R
      <4>1. PICK r : r = Append(s, k)
        OBVIOUS
      <4>2. s \in Seq(Nat) /\ Len(s) \in Nat
        BY <3>3 DEF Ascending
      <4>3. /\ r \in Seq(Nat) /\ Len(r) = Len(s) + 1 /\ r[Len(s) + 1] = k
            /\ \A i \in 1 .. Len(s) : r[i] = s[i]
        BY <3>1, <4>1, <4>2
      <4>4. PICK U : U = R \cap 1 .. k
        OBVIOUS
      <4>5. U = T \cup {k} /\ \A x \in T : x \in Nat /\ x < k
        BY <3>1, <3>2, <3>5, <4>4
      <4>6. \A i \in 1 .. Len(s) : s[i] \in T
        BY <3>3 DEF Ascending
      <4>7. \A i \in 1 .. Len(r) : i \in 1 .. Len(s) \/ i = Len(s) + 1
        BY <4>2, <4>3
      <4>8. \A i \in 1 .. Len(r) : r[i] \in U
        BY <4>3, <4>5, <4>6, <4>7
      <4>9. \A x \in U : \E i \in 1 .. Len(r) : r[i] = x
        <5>1. \A x \in T : \E i \in 1 .. Len(s) : s[i] = x
          BY <3>3 DEF Ascending
        <5>2. 1 .. Len(s) \subseteq 1 .. Len(r) /\ Len(s) + 1 \in 1 .. Len(r)
          BY <4>2, <4>3
        <5> QED
          BY <4>3, <4>5, <5>1, <5>2
      <4>10. ASSUME NEW i \in 1 .. Len(r), NEW j \in 1 .. Len(r), i < j
             PROVE  r[i] < r[j]
        <5>1. i \in 1 .. Len(s)
          BY <4>2, <4>3, <4>10
        <5>2. CASE j \in 1 .. Len(s)
          <6>1. s[i] < s[j]
            BY <3>3, <4>10, <5>1, <5>2 DEF Ascending
          <6> QED
            BY <4>3, <5>1, <5>2, <6>1
        <5>3. CASE j = Len(s) + 1
          BY <4>3, <4>5, <4>6, <5>1, <5>3
        <5> QED
          BY <4>7, <5>2, <5>3
      <4>11. Ascending(r, U)
        BY <4>3, <4>8, <4>9, <4>10 DEF Ascending
      <4> QED
        BY <2>3, <3>4, <3>5, <4>1, <4>4, <4>11
    <3>6. CASE k \notin R
      <4>1. R \cap 1 .. k = T
        BY <3>1, <3>2, <3>6
      <4> QED
        BY <2>3, <3>3, <3>4, <3>6, <4>1
    <3> QED
      BY <3>5, <3>6
  <2> QED
    BY <2>3, <2>4, <2>5
<1> QED
  BY <1>1

(* So pick appends the microphones it takes in the order of enumeration.   *)
LEMMA PickAscends ==
  ASSUME count \in Nat, NEW S, NEW T
  PROVE  Ascending(Pick(S, T), (S \ T) \cap Indices)
<1> DEFINE order == CHOOSE f : Orders(S \ T, f, count)
<1>1. Pick(S, T) = order[count]
  BY DEF Pick, Orders
<1>2. Orders(S \ T, order, count)
  BY OrdersExist
<1> HIDE DEF order
<1>3. count \in 0 .. count
  OBVIOUS
<1>4. Ascending(order[count], (S \ T) \cap 1 .. count)
  BY <1>2, <1>3, OrdersAscend
<1> QED
  BY <1>1, <1>4 DEF Indices

ChoiceInv ==
  count \in Nat /\ matches \subseteq Indices /\ default \subseteq Indices /\ tried \in Nat

(* The items of two sequences behind one another.                          *)
LEMMA Joins ==
  ASSUME NEW p \in Seq(Nat), NEW q \in Seq(Nat), NEW r, r = p \o q
  PROVE  /\ r \in Seq(Nat) /\ Len(r) = Len(p) + Len(q)
         /\ \A i \in 1 .. Len(p) : r[i] = p[i]
         /\ \A i \in 1 .. Len(q) : r[Len(p) + i] = q[i]
OBVIOUS

(* Every microphone is tried, and a better one before a worse one.         *)
LEMMA BetterFirst ==
  ASSUME ChoiceInv, NEW s, s = OrderPreference
  PROVE  /\ Len(s) \in Nat
         /\ \A i \in 1 .. Len(s) : s[i] \in Indices
         /\ \A x \in Indices : \E i \in 1 .. Len(s) : s[i] = x
         /\ \A i, j \in 1 .. Len(s) : i < j => Better(s[i], s[j])
<1>1. PICK a, b, c : /\ a = Pick(matches, {}) /\ b = Pick(default, matches)
                     /\ c = Pick(Indices, matches \cup default)
  OBVIOUS
<1>2. PICK A, B, C : /\ A = matches /\ B = default \ matches
                     /\ C = Indices \ (matches \cup default)
  OBVIOUS
<1>3. Ascending(a, A) /\ Ascending(b, B) /\ Ascending(c, C)
  <2>1. /\ (matches \ {}) \cap Indices = A /\ (default \ matches) \cap Indices = B
        /\ (Indices \ (matches \cup default)) \cap Indices = C
    BY <1>2 DEF ChoiceInv
  <2>2. count \in Nat
    BY DEF ChoiceInv
  <2>3. /\ Ascending(a, (matches \ {}) \cap Indices)
        /\ Ascending(b, (default \ matches) \cap Indices)
        /\ Ascending(c, (Indices \ (matches \cup default)) \cap Indices)
    BY <1>1, <2>2, PickAscends
  <2> QED
    BY <2>1, <2>3
<1>4. /\ \A i \in 1 .. Len(a) : a[i] \in A
      /\ \A i \in 1 .. Len(b) : b[i] \in B
      /\ \A i \in 1 .. Len(c) : c[i] \in C
  BY <1>3 DEF Ascending
<1>5. /\ a \in Seq(Nat) /\ b \in Seq(Nat) /\ c \in Seq(Nat) /\ s = a \o b \o c
      /\ Len(a) \in Nat /\ Len(b) \in Nat /\ Len(c) \in Nat
  BY <1>1, <1>3 DEF Ascending, OrderPreference
<1>6. /\ Len(s) = Len(a) + Len(b) + Len(c)
      /\ \A i \in 1 .. Len(a) : s[i] = a[i]
      /\ \A i \in 1 .. Len(b) : s[Len(a) + i] = b[i]
      /\ \A i \in 1 .. Len(c) : s[Len(a) + Len(b) + i] = c[i]
  <2>1. PICK ab : ab = a \o b
    OBVIOUS
  <2>2. /\ ab \in Seq(Nat) /\ Len(ab) = Len(a) + Len(b)
        /\ \A i \in 1 .. Len(a) : ab[i] = a[i]
        /\ \A i \in 1 .. Len(b) : ab[Len(a) + i] = b[i]
    BY <1>5, <2>1, Joins
  <2>3. s = ab \o c
    BY <1>5, <2>1
  <2>a. ab \in Seq(Nat) /\ c \in Seq(Nat)
    BY <1>5, <2>2
  <2>4. /\ Len(s) = Len(ab) + Len(c)
        /\ \A i \in 1 .. Len(ab) : s[i] = ab[i]
        /\ \A i \in 1 .. Len(c) : s[Len(ab) + i] = c[i]
    <3>1. PICK r : r = ab \o c
      OBVIOUS
    <3>2. /\ Len(r) = Len(ab) + Len(c)
          /\ \A i \in 1 .. Len(ab) : r[i] = ab[i]
          /\ \A i \in 1 .. Len(c) : r[Len(ab) + i] = c[i]
      BY <2>a, <3>1, Joins
    <3>3. r = s
      BY <2>3, <3>1
    <3> QED
      BY <3>2, <3>3
  <2>5. /\ \A i \in 1 .. Len(a) : i \in 1 .. Len(ab)
        /\ \A i \in 1 .. Len(b) : Len(a) + i \in 1 .. Len(ab)
    BY <1>5, <2>2
  <2> QED
    BY <2>2, <2>4, <2>5
<1>7. ASSUME NEW i \in 1 .. Len(s)
      PROVE  \/ i \in 1 .. Len(a)
             \/ \E k \in 1 .. Len(b) : i = Len(a) + k
             \/ \E k \in 1 .. Len(c) : i = Len(a) + Len(b) + k
  <2>1. CASE i <= Len(a)
    BY <2>1
  <2>2. CASE i > Len(a) /\ i <= Len(a) + Len(b)
    <3>1. i - Len(a) \in 1 .. Len(b) /\ i = Len(a) + (i - Len(a))
      BY <1>5, <2>2
    <3> QED
      BY <3>1
  <2>3. CASE i > Len(a) + Len(b)
    <3>1. i - (Len(a) + Len(b)) \in 1 .. Len(c) /\ i = Len(a) + Len(b) + (i - (Len(a) + Len(b)))
      BY <1>5, <1>6, <2>3
    <3> QED
      BY <3>1
  <2> QED
    BY <1>5, <2>1, <2>2, <2>3
<1>8. A \subseteq Indices /\ B \subseteq Indices /\ C \subseteq Indices /\ Indices = A \cup B \cup C
  BY <1>2 DEF ChoiceInv
<1>9. \A i \in 1 .. Len(s) : s[i] \in Indices
  <2> TAKE i \in 1 .. Len(s)
  <2>1. CASE i \in 1 .. Len(a)
    BY <1>4, <1>6, <1>8, <2>1
  <2>2. ASSUME NEW k \in 1 .. Len(b), i = Len(a) + k PROVE s[i] \in Indices
    BY <1>4, <1>6, <1>8, <2>2
  <2>3. ASSUME NEW k \in 1 .. Len(c), i = Len(a) + Len(b) + k PROVE s[i] \in Indices
    BY <1>4, <1>6, <1>8, <2>3
  <2> QED
    BY <1>7, <2>1, <2>2, <2>3
<1>10. \A x \in Indices : \E i \in 1 .. Len(s) : s[i] = x
  <2>1. /\ \A i \in 1 .. Len(a) : i \in 1 .. Len(s)
        /\ \A i \in 1 .. Len(b) : Len(a) + i \in 1 .. Len(s)
        /\ \A i \in 1 .. Len(c) : Len(a) + Len(b) + i \in 1 .. Len(s)
    BY <1>5, <1>6
  <2>2. /\ \A x \in A : \E i \in 1 .. Len(a) : a[i] = x
        /\ \A x \in B : \E i \in 1 .. Len(b) : b[i] = x
        /\ \A x \in C : \E i \in 1 .. Len(c) : c[i] = x
    BY <1>3 DEF Ascending
  <2>3. ASSUME NEW x \in A PROVE \E i \in 1 .. Len(s) : s[i] = x
    BY <1>6, <2>1, <2>2
  <2>4. ASSUME NEW x \in B PROVE \E i \in 1 .. Len(s) : s[i] = x
    BY <1>6, <2>1, <2>2
  <2>5. ASSUME NEW x \in C PROVE \E i \in 1 .. Len(s) : s[i] = x
    BY <1>6, <2>1, <2>2
  <2> QED
    BY <1>8, <2>3, <2>4, <2>5
<1>11. ASSUME NEW x \in Indices, NEW y \in Indices
       PROVE  /\ x \in A /\ (y \in B \/ y \in C) => Better(x, y)
              /\ x \in B /\ y \in C => Better(x, y)
              /\ (x \in A /\ y \in A) \/ (x \in B /\ y \in B) \/ (x \in C /\ y \in C) => (x < y => Better(x, y))
  BY <1>2 DEF Better
<1>12. ASSUME NEW i \in 1 .. Len(s), NEW j \in 1 .. Len(s), i < j
       PROVE  Better(s[i], s[j])
  <2>0. s[i] \in Indices /\ s[j] \in Indices
    BY <1>9
  <2>1. CASE i \in 1 .. Len(a)
    <3>1. s[i] \in A /\ s[i] = a[i]
      BY <1>3, <1>6, <2>1 DEF Ascending
    <3>2. CASE j \in 1 .. Len(a)
      <4>1. s[j] \in A /\ s[i] < s[j]
        BY <1>3, <1>6, <1>12, <2>1, <3>2 DEF Ascending
      <4> QED
        BY <1>11, <2>0, <3>1, <4>1
    <3>3. CASE j \notin 1 .. Len(a)
      <4>1. s[j] \in B \/ s[j] \in C
        <5>1. ASSUME NEW k \in 1 .. Len(b), j = Len(a) + k PROVE s[j] \in B
          BY <1>4, <1>6, <5>1
        <5>2. ASSUME NEW k \in 1 .. Len(c), j = Len(a) + Len(b) + k PROVE s[j] \in C
          BY <1>4, <1>6, <5>2
        <5> QED
          BY <1>7, <3>3, <5>1, <5>2
      <4> QED
        BY <1>11, <2>0, <3>1, <4>1
    <3> QED
      BY <3>2, <3>3
  <2>2. ASSUME NEW k \in 1 .. Len(b), i = Len(a) + k
        PROVE  Better(s[i], s[j])
    <3>1. s[i] \in B /\ s[i] = b[k]
      BY <1>3, <1>6, <2>2 DEF Ascending
    <3>2. ASSUME NEW m \in 1 .. Len(b), j = Len(a) + m
          PROVE  Better(s[i], s[j])
      <4>1. k < m
        BY <1>5, <1>12, <2>2, <3>2
      <4>2. s[j] \in B /\ s[i] < s[j]
        BY <1>3, <1>6, <2>2, <3>2, <4>1 DEF Ascending
      <4> QED
        BY <1>11, <2>0, <3>1, <4>2
    <3>3. ASSUME NEW m \in 1 .. Len(c), j = Len(a) + Len(b) + m
          PROVE  Better(s[i], s[j])
      <4>1. s[j] \in C
        BY <1>3, <1>6, <3>3 DEF Ascending
      <4> QED
        BY <1>11, <2>0, <3>1, <4>1
    <3>4. j \notin 1 .. Len(a)
      BY <1>5, <1>12, <2>2
    <3> QED
      BY <1>7, <3>2, <3>3, <3>4
  <2>3. ASSUME NEW k \in 1 .. Len(c), i = Len(a) + Len(b) + k
        PROVE  Better(s[i], s[j])
    <3>1. s[i] \in C /\ s[i] = c[k]
      BY <1>3, <1>6, <2>3 DEF Ascending
    <3>2. PICK m \in 1 .. Len(c) : j = Len(a) + Len(b) + m
      <4>1. j \notin 1 .. Len(a) /\ \A m \in 1 .. Len(b) : j # Len(a) + m
        BY <1>5, <1>12, <2>3
      <4> QED
        BY <1>7, <4>1
    <3>3. k < m
      BY <1>5, <1>12, <2>3, <3>2
    <3>4. s[j] \in C /\ s[i] < s[j]
      BY <1>3, <1>6, <2>3, <3>2, <3>3 DEF Ascending
    <3> QED
      BY <1>11, <2>0, <3>1, <3>4
  <2> QED
    BY <1>7, <2>1, <2>2, <2>3
<1>13. Len(s) \in Nat
  BY <1>5, <1>6
<1>14. \A i, j \in 1 .. Len(s) : i < j => Better(s[i], s[j])
  BY <1>12
<1> QED
  BY <1>9, <1>10, <1>13, <1>14

(* Start opens the best microphone that can be opened: all that are better *)
(* have been tried before, and none of those could be opened.              *)
THEOREM BestIsOpened == Spec => BestDeviceOpened
<1>1. Init => ChoiceInv
  BY DEF Init, NoChoice, ChoiceInv
<1>2. ASSUME ChoiceInv, [Next]_vars PROVE ChoiceInv'
  <2>1. CASE \E g \in Callers : StartBegins(g)
    BY <2>1, CapturerAssumption DEF StartBegins, Enumerate, ChoiceInv, Indices
  <2>2. CASE \E g \in Callers : TryFails(g)
    BY <1>2, <2>2 DEF TryFails, TryNext, ChoiceInv, Indices
  <2>3. CASE \E g \in Callers : StartOpens(g) \/ StartFails(g)
    BY <2>3 DEF StartOpens, StartFails, Forget, ChoiceInv, Indices
  <2>4. CASE UNCHANGED choiceVars
    BY <1>2, <2>4 DEF choiceVars, ChoiceInv, Indices
  <2> QED
    BY <1>2, <2>1, <2>2, <2>3, <2>4
    DEF Next, Call, Continue, DeviceStep, StartPanics, StopTakes, StopUninits, StopReturns,
        CloseLocks, CloseReturns, BufferArrives, BufferAppended, vars
<1>3. ASSUME ChoiceInv, [Next]_vars, opened' # opened, NEW x \in Indices, Better(x, Current)
      PROVE  x \in Failed
  <2>1. Left
    BY <1>3
    DEF Next, Call, Continue, DeviceStep, StartBegins, TryFails, StartOpens, StartFails, StartPanics,
        StopTakes, StopUninits, StopReturns, CloseLocks, CloseReturns, BufferArrives, BufferAppended, vars
  <2>2. PICK s, n : s = OrderPreference /\ n = tried + 1
    OBVIOUS
  <2>3. tried \in Nat /\ n \in Nat /\ tried < n
    BY <1>3, <2>2 DEF ChoiceInv
  <2>4. /\ Len(s) \in Nat /\ \A i \in 1 .. Len(s) : s[i] \in Indices
        /\ \A i, j \in 1 .. Len(s) : i < j => Better(s[i], s[j])
    BY <1>3, <2>2, BetterFirst
  <2>5. PICK k \in 1 .. Len(s) : s[k] = x
    BY <1>3, <2>2, BetterFirst
  <2>6. n \in 1 .. Len(s) /\ Current = s[n]
    BY <2>1, <2>2, <2>3, <2>4 DEF Left, Current
  <2>7. s[n] \in Nat /\ x \in Nat
    BY <1>3, <2>4, <2>6 DEF Indices, ChoiceInv
  <2>8. ~Better(s[n], x) /\ x # s[n]
    BY <1>3, <2>6, <2>7 DEF Better
  <2>9. k < n
    BY <2>3, <2>4, <2>5, <2>6, <2>8
  <2>10. k \in 1 .. tried
    BY <2>2, <2>3, <2>5, <2>9
  <2> QED
    BY <2>2, <2>5, <2>10 DEF Failed
<1>4. ChoiceInv /\ [Next]_vars => [opened' # opened => \A i \in Indices : Better(i, Current) => i \in Failed]_vars
  BY <1>3
<1> QED
  BY <1>1, <1>2, <1>4, PTL DEF Spec, BestDeviceOpened
=============================================================================

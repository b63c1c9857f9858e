-------------------------- MODULE DictationProofs ---------------------------
(***************************************************************************)
(* Proofs about Dictation.  Unless a theorem says otherwise it is for any  *)
(* number of hotkeys in either mode, with or without a compose stage, and  *)
(* any number of timers, probes, pipelines and recoveries.                 *)
(***************************************************************************)
EXTENDS Dictation, TLAPS

(* Where a dispatcher can be depends on its hotkey's mode.                 *)
Places(a) ==
  IF a \in HoldKeys THEN PcOf(a) \ {"arm", "drain", "swap"}
  ELSE IF a \in ToggleKeys THEN PcOf(a) \ {"held"}
  ELSE PcOf(a)

(* A goroutine that was started knows its hotkey; a cap, a toggle hotkey.  *)
KeysKnown ==
  /\ \A c \in Caps : pc[c] # "free" => key[c] \in ToggleKeys
  /\ \A s \in Probes : pc[s] \notin {"free", "sent"} => key[s] \in Keys
  /\ \A p \in Pipes : pc[p] # "free" => key[p] \in Keys

ActorTypes ==
  /\ DOMAIN pc = Callers /\ \A a \in Callers : pc[a] \in Places(a)
  /\ key \in [Caps \cup Probes \cup Pipes -> Keys \cup {None}]
  /\ KeysKnown

DataTypes ==
  /\ pressed   \in [ToggleKeys -> BOOLEAN]
  /\ stopTimer \in [ToggleKeys -> Caps \cup {None}]
  /\ live      \in [Keys -> BOOLEAN]
  /\ selCh     \in [Keys -> Probes \cup {None}]
  /\ capture   \in Keys \cup {None}
  /\ found     \in [Probes -> {"none", "text", "nothing", "err"}]
  /\ chan      \in [Pipes -> Probes \cup {None}]
  /\ audio     \in [Pipes -> Keys \cup {None}]
  /\ injection \in {"none", "attempt", "ok", "failed"}

(* TypeOK, and that keys are known.                                        *)
TypeInv == CoreTypeOK /\ ActorTypes /\ DataTypes

(* Who will stop a capture, or is about to let others stop it.             *)
Stopper(a) == pc[a] \in {"live", "spawn", "halt", "take"}

(* The right to stop the capture is handed on, never copied: it is the     *)
(* live flag of the hotkey, or one goroutine's that acts for it.           *)
OneStopper ==
  /\ \A k \in Keys : live[k] => capture = k
  /\ \A a \in Callers : Stopper(a) => capture = KeyOf(a) /\ ~live[KeyOf(a)]
  /\ \A a, b \in Callers : Stopper(a) /\ Stopper(b) => a = b

TakenIsOwn == \A p \in Pipes : pc[p] \in {"begin", "transcribe"} => audio[p] = key[p]

(* BusyIsAccountedFor without what it says of the capture.                 *)
BusyHasCause ==
  CASE core = "idle"         -> TRUE
    [] core = "recording"    -> \/ capture # None
                                \/ \E k \in Keys : pc[k] = "start"
                                \/ \E s \in Probes : pc[s] = "fail"
                                \/ Working({"begin"})
    [] core = "transcribing" -> Working({"transcribe"})
    [] core = "processing"   -> Working({"reshape"})
    [] core = "injecting"    -> Working({"record", "paste", "ok", "failed"})
    [] core = "error"        -> \/ \E g \in Speakers : note[g] = "error"
                                \/ \E r \in Recoveries : recovery[r] # "free"

(* What holds with any hotkeys.                                            *)
StopInv == OneStopper /\ TakenIsOwn
BusyInv == BusyHasCause /\ AttemptIsSettled
-----------------------------------------------------------------------------
(* What holds of hold hotkeys, whatever others there are.  The live flag   *)
(* is up only between a press and its release, so a press never clears it. *)
LiveInPress ==
  \A k \in HoldKeys : live[k] => pc[k] \in {"probe", "held", "stop"}

CaptureIsCovered ==
  capture \in HoldKeys => live[capture] \/ \E a \in Callers : Stopper(a)

(* A press that records has started its probe before its release stops it. *)
PressHasProbe ==
  \A k \in HoldKeys \cap ComposeKeys :
    /\ pc[k] \in {"held", "stop"} /\ live[k] => selCh[k] # None
    /\ pc[k] = "spawn" => selCh[k] # None

PipeHasProbe ==
  \A p \in Pipes : pc[p] = "take" /\ key[p] \in HoldKeys \cap ComposeKeys => chan[p] # None

HoldInv == LiveInPress /\ CaptureIsCovered /\ PressHasProbe /\ PipeHasProbe
-----------------------------------------------------------------------------
(* With one hold hotkey.  Who is busy with the cycle, but for the live     *)
(* flag and the recoveries, and the state the daemon is in meanwhile.      *)
StateOf(a) ==
  CASE pc[a] = "claim" -> "idle"
    [] pc[a] \in {"start", "live", "spawn", "halt", "take", "fail", "begin"} -> "recording"
    [] pc[a] = "transcribe" -> "transcribing"
    [] pc[a] = "reshape" -> "processing"
    [] pc[a] \in {"record", "paste", "ok", "failed"} -> "injecting"
    [] OTHER -> "none"

Active(a) == StateOf(a) # "none"
Erring(g) == note[g] = "error"

OneCycle ==
  /\ \A a, b \in Callers : Active(a) /\ Active(b) => a = b
  /\ \A a \in Callers : Active(a) =>
       /\ core = StateOf(a)
       /\ \A k \in Keys : ~live[k]
  /\ \A k \in Keys : live[k] => core = "recording"
  /\ (\E g \in Speakers : Erring(g)) \/ (\E r \in Recoveries : recovery[r] # "free") => core = "error"
  /\ \A g, h \in Speakers : Erring(g) /\ Erring(h) => g = h
  /\ \A r \in Recoveries, g \in Speakers : ~(recovery[r] # "free" /\ Erring(g))
  /\ \A r, q \in Recoveries : recovery[r] # "free" /\ recovery[q] # "free" => r = q
-----------------------------------------------------------------------------
(* The two ways a goroutine moves on keep its place and its hotkey typed.  *)
LEMMA GotoTypes ==
  ASSUME ActorTypes, NEW a \in Callers, NEW to \in Places(a), pc[a] \notin {"free", "sent"},
         Goto(a, to)
  PROVE  ActorTypes'
<1> USE KeysAssumption, CallersAssumption, GoroutinesAssumption DEF ActorTypes, Goto
<1>1. DOMAIN pc' = Callers /\ \A b \in Callers : pc'[b] \in Places(b)
  OBVIOUS
<1>2. key' \in [Caps \cup Probes \cup Pipes -> Keys \cup {None}]
  OBVIOUS
<1>3. KeysKnown'
  BY DEF KeysKnown, Places, PcOf
<1> QED
  BY <1>1, <1>2, <1>3

(* A goroutine that starts another one keeps both at places of their own.  *)
LEMMA StartTypes ==
  ASSUME ActorTypes, NEW a \in Keys \cup Caps, NEW to \in Places(a), pc[a] # "free",
         NEW b \in Caps \cup Pipes, NEW start \in Places(b) \ {"free"},
         b \in Caps => a \in ToggleKeys,
         Start(a, to, b, start)
  PROVE  ActorTypes'
<1> USE KeysAssumption, CallersAssumption, GoroutinesAssumption
    DEF ActorTypes, Start, At, KeysKnown, Keys
<1>1. a # b /\ KeyOf(a) \in Keys
  BY DEF KeyOf
<1>2. DOMAIN pc' = Callers /\ \A c \in Callers : pc'[c] \in Places(c)
  BY <1>1
<1>3. key' \in [Caps \cup Probes \cup Pipes -> Keys \cup {None}]
  BY <1>1
<1>4. KeysKnown'
  BY <1>1 DEF KeyOf
<1> QED
  BY <1>2, <1>3, <1>4

(* The core's operators.                                                   *)
LEMMA CoreTypes ==
  ASSUME CoreTypeOK, NEW g \in Speakers,
         (\E s \in States : Transition(g, s)) \/ Publish(g) \/ (g \in Recoveries /\ Recover(g))
  PROVE  CoreTypeOK'
<1> USE DEF CoreTypeOK, States
<1>1. ASSUME NEW s \in States, Transition(g, s) PROVE CoreTypeOK'
  BY <1>1 DEF Transition
<1>2. CASE Publish(g)
  BY <1>2 DEF Publish, Schedule
<1>3. CASE g \in Recoveries /\ Recover(g)
  BY <1>3 DEF Recover, RecoveryChecks, RecoveryActs
<1> QED
  BY <1>1, <1>2, <1>3
-----------------------------------------------------------------------------
(* A dispatcher and what it calls.                                         *)
LEMMA TypeKeyStep ==
  ASSUME TypeInv, NEW k \in Keys, PressStep(k) \/ KeyStep(k)
  PROVE  TypeInv'
<1> USE KeysAssumption, CallersAssumption, GoroutinesAssumption
    DEF TypeInv, coreVars, dispatchVars, handlerVars, pipeVars
<1>1. k \in Callers /\ k \in Speakers /\ pc[k] \in Places(k) /\ KeyOf(k) = k
      /\ pc[k] \notin {"free", "sent"}
  BY DEF Keys, Speakers, ActorTypes, Places, PcOf, KeyOf
<1>2. CoreTypeOK'
  <2>1. "recording" \in States /\ "error" \in States
    BY DEF States
  <2>2. CASE TryClaim(k) \/ StartFails(k)
    BY <1>1, <2>1, <2>2, CoreTypes DEF TryClaim, StartFails
  <2>3. CASE ~TryClaim(k) /\ ~StartFails(k)
    <3>1. UNCHANGED coreVars
      BY <2>3 DEF PressStep, KeyStep, HoldDown, ToggleOn, ToggleOff, ArmCap, KeyUp, Swap, Trigger,
         TryCheck, StartCapture, GoLive, StartProbe, StopSwap, StartPipe
    <3> QED
      BY <3>1 DEF CoreTypeOK
  <2> QED
    BY <2>2, <2>3
<1>3. ActorTypes'
  <2>1. CASE ToggleOff(k)
    BY <1>1, <2>1 DEF ToggleOff, ActorTypes, KeysKnown, Places, PcOf, Keys
  <2>2. CASE ArmCap(k)
    <3>1. k \in ToggleKeys
      BY <2>2 DEF ArmCap, At, ActorTypes, Places, Keys
    <3>2. "drain" \in Places(k) /\ \A c \in Caps : "armed" \in Places(c)
      BY <3>1 DEF Places, PcOf, Keys
    <3> QED
      BY <1>1, <2>2, <3>1, <3>2, StartTypes DEF ArmCap
  <2>3. CASE StartProbe(k)
    BY <1>1, <2>3 DEF StartProbe, Reusable, AfterTrigger, ActorTypes, KeysKnown, Places, PcOf, Keys
  <2>4. CASE StartPipe(k)
    BY <1>1, <2>4, StartTypes DEF StartPipe, At, Finished, Places, PcOf, Keys
  <2>5. CASE ~ToggleOff(k) /\ ~ArmCap(k) /\ ~StartProbe(k) /\ ~StartPipe(k)
    <3>1. \E to \in Places(k) : Goto(k, to)
      BY <1>1, <2>5 DEF PressStep, KeyStep, HoldDown, ToggleOn, KeyUp, Swap, Trigger, TryCheck,
         TryClaim, StartFails, StartCapture, GoLive, StopSwap, AfterTrigger, Finished, Places, PcOf, Keys
    <3> QED
      BY <1>1, <3>1, GotoTypes
  <2> QED
    BY <2>1, <2>2, <2>3, <2>4, <2>5
<1>4. DataTypes'
  <2> USE DEF DataTypes
  <2>1. CASE PressStep(k)
    BY <2>1 DEF PressStep, HoldDown, ToggleOn, ToggleOff
  <2>2. CASE ArmCap(k)
    <3>1. PICK c \in Caps : stopTimer' = [stopTimer EXCEPT ![k] = c]
      BY <2>2 DEF ArmCap
    <3> QED
      BY <2>2, <3>1 DEF ArmCap
  <2>7. CASE KeyUp(k) \/ Swap(k)
    BY <1>1, <2>7 DEF KeyUp, Swap
  <2>3. CASE Trigger(k) \/ TryCheck(k) \/ TryClaim(k) \/ StartFails(k) \/ StartCapture(k) \/ GoLive(k)
    BY <2>3 DEF Trigger, TryCheck, TryClaim, StartFails, StartCapture, GoLive
  <2>4. CASE StartProbe(k)
    BY <2>4 DEF StartProbe
  <2>5. CASE StopSwap(k)
    BY <2>5 DEF StopSwap, LiveAfterSwap
  <2>6. CASE StartPipe(k)
    BY <1>1, <2>6 DEF StartPipe, ChannelOf
  <2> QED
    BY <2>1, <2>2, <2>3, <2>4, <2>5, <2>6, <2>7 DEF KeyStep
<1> QED
  BY <1>2, <1>3, <1>4

(* The callback of a cap timer.                                            *)
LEMMA TypeCapStep ==
  ASSUME TypeInv, NEW c \in Caps, CapStep(c)
  PROVE  TypeInv'
<1> USE KeysAssumption, CallersAssumption, GoroutinesAssumption
    DEF TypeInv, coreVars, dispatchVars, handlerVars, pipeVars
<1>1. c \in Callers /\ c \notin Keys /\ pc[c] \notin {"free", "sent"}
      /\ KeyOf(c) \in ToggleKeys /\ KeyOf(c) \in Keys
  BY DEF Keys, ActorTypes, KeysKnown, Places, PcOf, KeyOf, CapStep, CapFires, Swap, StopSwap, StartPipe, At
<1>2. CoreTypeOK'
  BY DEF CapStep, CapFires, Swap, StopSwap, StartPipe, CoreTypeOK
<1>3. ActorTypes'
  <2>1. CASE StartPipe(c)
    BY <1>1, <2>1, StartTypes DEF StartPipe, Finished, Places, PcOf, Keys
  <2>2. CASE ~StartPipe(c)
    <3>1. \E to \in Places(c) : Goto(c, to)
      BY <1>1, <2>2 DEF CapStep, CapFires, Swap, StopSwap, Finished, Places, PcOf, Keys
    <3> QED
      BY <1>1, <3>1, GotoTypes
  <2> QED
    BY <2>1, <2>2
<1>4. DataTypes'
  BY <1>1 DEF DataTypes, CapStep, CapFires, Swap, StopSwap, LiveAfterSwap, StartPipe, ChannelOf
<1> QED
  BY <1>2, <1>3, <1>4

(* A selection probe.                                                      *)
LEMMA TypeProbeStep ==
  ASSUME TypeInv, NEW a \in Probes, ProbeStep(a)
  PROVE  TypeInv'
<1> USE KeysAssumption, CallersAssumption, GoroutinesAssumption
    DEF TypeInv, coreVars, dispatchVars, handlerVars, pipeVars
<1>1. a \in Callers /\ a \in Speakers /\ pc[a] \notin {"free", "sent"} /\ key[a] \in Keys
  BY DEF Speakers, ActorTypes, KeysKnown, ProbeStep, ProbeReads, ProbeAborts, ProbeHalts,
     ProbeFails, ProbeSends, At
<1>2. CoreTypeOK'
  <2>1. CASE ProbeFails(a)
    BY <1>1, <2>1, CoreTypes DEF ProbeFails, States
  <2>2. CASE ~ProbeFails(a)
    BY <2>2 DEF ProbeStep, ProbeReads, ProbeAborts, ProbeHalts, ProbeSends, CoreTypeOK
  <2> QED
    BY <2>1, <2>2
<1>3. ActorTypes'
  <2>1. \E to \in Places(a) : Goto(a, to)
    BY DEF ProbeStep, ProbeReads, ProbeAborts, ProbeHalts, ProbeFails, ProbeSends, Places, PcOf, Keys
  <2> QED
    BY <1>1, <2>1, GotoTypes
<1>4. DataTypes'
  BY <1>1 DEF DataTypes, ProbeStep, ProbeReads, ProbeAborts, ProbeHalts, ProbeFails, ProbeSends,
     LiveAfterSwap, CaptureAfterHalt
<1> QED
  BY <1>2, <1>3, <1>4

(* A pipeline run.                                                         *)
LEMMA TypePipeStep ==
  ASSUME TypeInv, NEW p \in Pipes, PipeStep(p)
  PROVE  TypeInv'
<1> USE KeysAssumption, CallersAssumption, GoroutinesAssumption
    DEF TypeInv, coreVars, dispatchVars, handlerVars, pipeVars
<1>1. p \in Callers /\ p \in Speakers /\ pc[p] \notin {"free", "sent"}
  BY DEF Speakers, PipeStep, Take, Begin, Heard, Silence, TranscribeFails, Reshaped, NothingLeft,
     ReshapeFails, RecordAttempt, Paste, Pasted, PasteFails, Advance, At
<1>2. CASE \E state \in {"idle", "error"} : Return(p, state)
  <2>1. CoreTypeOK'
    BY <1>1, <1>2, CoreTypes DEF Return, States
  <2>2. ActorTypes'
    BY <1>1, <1>2, GotoTypes DEF Return, Places, PcOf, Keys
  <2>3. DataTypes'
    BY <1>2 DEF Return, DataTypes
  <2> QED
    BY <2>1, <2>2, <2>3
<1>3. CASE Begin(p) \/ Heard(p) \/ Reshaped(p)
  <2>1. CoreTypeOK'
    BY <1>1, <1>3, CoreTypes DEF Begin, Heard, Reshaped, Advance, States
  <2>2. ActorTypes'
    BY <1>1, <1>3, GotoTypes DEF Begin, Heard, Reshaped, Advance, Places, PcOf, Keys
  <2>3. DataTypes'
    BY <1>3 DEF Begin, Heard, Reshaped, Advance, DataTypes
  <2> QED
    BY <2>1, <2>2, <2>3
<1>4. CASE RecordAttempt(p) \/ Paste(p) \/ (Take(p) /\ capture # None)
  <2>1. CoreTypeOK'
    BY <1>4 DEF RecordAttempt, Paste, Take, CoreTypeOK
  <2>2. ActorTypes'
    BY <1>1, <1>4, GotoTypes DEF RecordAttempt, Paste, Take, Places, PcOf, Keys
  <2>3. DataTypes'
    BY <1>4 DEF RecordAttempt, Paste, Take, DataTypes, Recorded
  <2> QED
    BY <2>1, <2>2, <2>3
<1> QED
  BY <1>2, <1>3, <1>4 DEF PipeStep, Take, Silence, TranscribeFails, NothingLeft, ReshapeFails,
     Pasted, PasteFails

(* Types are kept, and goroutines know their hotkeys.                      *)
LEMMA TypeStep == TypeInv /\ [Next]_vars => TypeInv'
<1> SUFFICES ASSUME TypeInv, [Next]_vars PROVE TypeInv'
  OBVIOUS
<1>1. CASE UNCHANGED vars
  BY <1>1 DEF vars, coreVars, dispatchVars, handlerVars, pipeVars, TypeInv, CoreTypeOK,
     ActorTypes, KeysKnown, DataTypes
<1>2. ASSUME NEW g \in Speakers, PublishStep(g) \/ (g \in Recoveries /\ RecoverStep(g))
      PROVE  TypeInv'
  <2>1. CoreTypeOK'
    BY <1>2, CoreTypes DEF PublishStep, RecoverStep, TypeInv
  <2>2. ActorTypes' /\ DataTypes'
    BY <1>2 DEF PublishStep, RecoverStep, OutsideCore, dispatchVars, handlerVars, pipeVars,
       TypeInv, ActorTypes, KeysKnown, DataTypes
  <2> QED
    BY <2>1, <2>2 DEF TypeInv
<1> QED
  BY <1>1, <1>2, TypeKeyStep, TypeCapStep, TypeProbeStep, TypePipeStep DEF Next, Speakers

(* ... from the start.                                                     *)
LEMMA TypeInvariant == Spec => []TypeInv
<1>1. Init => TypeInv
  BY KeysAssumption, CallersAssumption, GoroutinesAssumption
  DEF Init, CoreInit, TypeInv, CoreTypeOK, States, ActorTypes, KeysKnown, DataTypes, Places, PcOf, Keys
<1> QED
  BY <1>1, TypeStep, PTL DEF Spec

(* Type correctness.                                                       *)
THEOREM TypeCorrect == Spec => []TypeOK
<1>1. TypeInv => TypeOK
  BY DEF TypeInv, ActorTypes, DataTypes, TypeOK, Places
<1> QED
  BY <1>1, TypeInvariant, PTL
-----------------------------------------------------------------------------
(* Who moves, and whose hotkey, when goroutine a moves on.                 *)
LEMMA GotoFacts ==
  ASSUME ActorTypes, NEW a \in Callers, NEW to, Goto(a, to)
  PROVE  /\ pc'[a] = to
         /\ \A b \in Callers : b # a => pc'[b] = pc[b] /\ KeyOf(b)' = KeyOf(b)
         /\ to \notin {"free", "sent"} => KeyOf(a)' = KeyOf(a)
BY CallersAssumption DEF ActorTypes, Goto, KeyOf

(* What starting goroutine b does to the places and hotkeys of all.        *)
LEMMA StartFacts ==
  ASSUME ActorTypes, NEW a \in Callers, NEW to, NEW b \in Callers \ Keys, NEW start, pc[a] # "free",
         Start(a, to, b, start)
  PROVE  /\ a # b /\ pc[b] = "free"
         /\ pc'[a] = to /\ pc'[b] = start /\ KeyOf(b)' = KeyOf(a)
         /\ to # "free" => KeyOf(a)' = KeyOf(a)
         /\ \A c \in Callers : c # a /\ c # b => pc'[c] = pc[c] /\ KeyOf(c)' = KeyOf(c)
BY CallersAssumption DEF ActorTypes, Start, At, KeyOf

(* The hotkey of a goroutine at work.                                      *)
LEMMA KeyOfStopper ==
  ASSUME ActorTypes, NEW a \in Callers, Stopper(a)
  PROVE  KeyOf(a) \in Keys
BY CallersAssumption DEF ActorTypes, KeysKnown, Stopper, KeyOf, Keys, Places, PcOf

(* A step that gives nobody the right to stop the capture.                 *)
LEMMA NoNewStopper ==
  ASSUME TypeInv, OneStopper, capture' = capture,
         \A k \in Keys : live'[k] => live[k],
         \A a \in Callers : Stopper(a)' => Stopper(a) /\ KeyOf(a)' = KeyOf(a)
  PROVE  OneStopper'
BY KeyOfStopper DEF OneStopper, TypeInv, DataTypes

(* The dispatchers' steps that only move them.                             *)
LEMMA StopQuietKeyStep ==
  ASSUME TypeInv, OneStopper, NEW k \in Keys,
         PressStep(k) \/ ArmCap(k) \/ KeyUp(k) \/ Swap(k) \/ Trigger(k) \/ TryCheck(k)
           \/ TryClaim(k) \/ StartFails(k) \/ StartProbe(k)
  PROVE  OneStopper'
<1> USE CallersAssumption, KeysAssumption, GoroutinesAssumption
    DEF handlerVars, dispatchVars, pipeVars, Stopper, TypeInv
<1>1. k \in Callers /\ KeyOf(k) = k /\ KeyOf(k)' = k
  BY DEF KeyOf
<1>2. CASE ToggleOff(k)
  <2>1. \A a \in Callers : Stopper(a)' => Stopper(a) /\ KeyOf(a)' = KeyOf(a)
    BY <1>1, <1>2 DEF ToggleOff, KeyOf, ActorTypes
  <2> QED
    BY <1>2, <2>1, NoNewStopper DEF ToggleOff
<1>3. CASE ArmCap(k)
  <2>1. PICK c \in Caps : Start(k, "drain", c, "armed")
    BY <1>3 DEF ArmCap
  <2>2. \A a \in Callers : Stopper(a)' => Stopper(a) /\ KeyOf(a)' = KeyOf(a)
    BY <1>1, <1>3, <2>1, StartFacts DEF ArmCap, At
  <2> QED
    BY <1>3, <2>2, NoNewStopper DEF ArmCap
<1>4. CASE StartProbe(k)
  <2>1. \A a \in Callers : Stopper(a)' => Stopper(a) /\ KeyOf(a)' = KeyOf(a)
    BY <1>1, <1>4 DEF StartProbe, Reusable, KeyOf, ActorTypes, AfterTrigger
  <2> QED
    BY <1>4, <2>1, NoNewStopper DEF StartProbe
<1>5. CASE HoldDown(k) \/ ToggleOn(k) \/ KeyUp(k) \/ Swap(k) \/ Trigger(k) \/ TryCheck(k)
             \/ TryClaim(k) \/ StartFails(k)
  <2>1. PICK to : Goto(k, to) /\ to \notin {"live", "spawn", "halt", "take"}
    BY <1>5 DEF HoldDown, ToggleOn, KeyUp, Swap, Trigger, TryCheck, TryClaim, StartFails,
       AfterTrigger, Finished
  <2>2. \A a \in Callers : Stopper(a)' => Stopper(a) /\ KeyOf(a)' = KeyOf(a)
    BY <1>1, <2>1, GotoFacts
  <2>3. capture' = capture /\ \A j \in Keys : live'[j] => live[j]
    BY <1>5 DEF HoldDown, ToggleOn, KeyUp, Swap, Trigger, TryCheck, TryClaim, StartFails, DataTypes
  <2> QED
    BY <2>2, <2>3, NoNewStopper
<1> QED
  BY <1>2, <1>3, <1>4, <1>5 DEF PressStep

(* A press that starts a capture is the only stopper, and raises the flag. *)
LEMMA StopStartStep ==
  ASSUME TypeInv, OneStopper, NEW k \in Keys, StartCapture(k) \/ GoLive(k)
  PROVE  OneStopper'
<1> USE DEF handlerVars, Stopper, TypeInv, DataTypes
<1>1. k \in Callers /\ KeyOf(k) = k /\ KeyOf(k)' = k
  BY CallersAssumption DEF KeyOf
<1>2. CASE StartCapture(k)
  <2>1. \A a \in Callers : ~Stopper(a)
    BY <1>2, KeyOfStopper, KeysAssumption DEF StartCapture, OneStopper
  <2>2. \A j \in Keys : ~live[j]
    BY <1>2, KeysAssumption DEF StartCapture, OneStopper
  <2>3. pc'[k] = "live" /\ \A b \in Callers : b # k => pc'[b] = pc[b]
    BY <1>1, <1>2, GotoFacts DEF StartCapture
  <2> QED
    BY <1>1, <1>2, <2>1, <2>2, <2>3 DEF StartCapture, OneStopper
<1>3. CASE GoLive(k)
  <2>1. Stopper(k) /\ capture = k /\ \A b \in Callers : b # k => ~Stopper(b)
    BY <1>1, <1>3 DEF GoLive, At, OneStopper
  <2>2. pc'[k] \in {"probe", "held", "arm"} /\ \A b \in Callers : b # k => pc'[b] = pc[b]
    BY <1>1, <1>3, GotoFacts DEF GoLive, AfterTrigger
  <2> QED
    BY <1>1, <1>3, <2>1, <2>2 DEF GoLive, OneStopper
<1> QED
  BY <1>2, <1>3

(* Whoever swaps the flag first takes it with it: OnStop, and a probe ...  *)
LEMMA StopSwapStep ==
  ASSUME TypeInv, OneStopper, NEW a \in Callers, StopSwap(a) \/ (a \in Probes /\ ProbeAborts(a))
  PROVE  OneStopper'
<1> USE CallersAssumption, KeysAssumption, GoroutinesAssumption
    DEF handlerVars, Stopper, TypeInv, DataTypes
<1>1. KeyOf(a) \in Keys /\ ~Stopper(a)
  BY DEF StopSwap, ProbeAborts, At, KeyOf, ActorTypes, KeysKnown, Keys
<1>2. live' = [live EXCEPT ![KeyOf(a)] = FALSE] /\ capture' = capture
  BY DEF StopSwap, ProbeAborts, LiveAfterSwap, KeyOf
<1>3. PICK to : Goto(a, to) /\ to \notin {"live", "take"}
                /\ (to \in {"spawn", "halt"} <=> live[KeyOf(a)])
  BY DEF StopSwap, ProbeAborts, WinsSwap, Finished, KeyOf
<1>4. pc'[a] = to /\ \A b \in Callers : b # a => pc'[b] = pc[b] /\ KeyOf(b)' = KeyOf(b)
  BY <1>3, GotoFacts
<1>5. CASE live[KeyOf(a)]
  <2>1. \A b \in Callers : ~Stopper(b)
    BY <1>1, <1>5 DEF OneStopper
  <2>2. KeyOf(a)' = KeyOf(a) /\ capture = KeyOf(a)
    BY <1>1, <1>3, <1>5, GotoFacts DEF OneStopper
  <2> QED
    BY <1>1, <1>2, <1>4, <2>1, <2>2 DEF OneStopper
<1>6. CASE ~live[KeyOf(a)]
  BY <1>1, <1>2, <1>3, <1>4, <1>6, NoNewStopper
<1> QED
  BY <1>5, <1>6

(* ... and hands it to the pipeline it starts, or stops the capture.       *)
LEMMA StopHandOverStep ==
  ASSUME TypeInv, OneStopper, NEW a \in Callers, StartPipe(a) \/ (a \in Probes /\ ProbeHalts(a))
  PROVE  OneStopper'
<1> USE CallersAssumption, KeysAssumption, GoroutinesAssumption
    DEF handlerVars, Stopper, TypeInv, DataTypes
<1>1. Stopper(a) /\ capture = KeyOf(a) /\ \A b \in Callers : b # a => ~Stopper(b)
  BY DEF StartPipe, ProbeHalts, At, OneStopper
<1>2. \A k \in Keys : ~live[k]
  BY <1>1 DEF OneStopper
<1>3. CASE StartPipe(a)
  <2>1. PICK p \in Pipes, to \in {"ready", "drain", "free"} : Start(a, to, p, "take")
    BY <1>3 DEF StartPipe, Finished
  <2>2. /\ pc'[a] = to /\ pc'[p] = "take" /\ KeyOf(p)' = KeyOf(a) /\ a # p
        /\ \A c \in Callers : c # a /\ c # p => pc'[c] = pc[c]
    <3>1. pc[a] # "free" /\ p \in Callers \ Keys
      BY <1>3 DEF StartPipe, At
    <3> QED
      BY <2>1, <3>1 DEF Start, At, KeyOf, ActorTypes
  <2>3. \A b \in Callers : Stopper(b)' => b = p
    BY <1>1, <2>1, <2>2
  <2>4. capture' = capture /\ live' = live
    BY <1>3 DEF StartPipe
  <2> QED
    BY <1>1, <1>2, <2>2, <2>3, <2>4, KeyOfStopper DEF OneStopper
<1>4. CASE a \in Probes /\ ProbeHalts(a)
  <2>1. \A b \in Callers : ~Stopper(b)'
    BY <1>1, <1>4, GotoFacts DEF ProbeHalts
  <2> QED
    BY <1>2, <1>4, <2>1 DEF ProbeHalts, OneStopper
<1> QED
  BY <1>3, <1>4

(* The pipeline takes the samples; afterwards nobody can.                  *)
LEMMA StopPipeStep ==
  ASSUME TypeInv, StopInv, NEW p \in Pipes, PipeStep(p)
  PROVE  StopInv'
<1> USE CallersAssumption, KeysAssumption, GoroutinesAssumption
    DEF handlerVars, pipeVars, Stopper, TypeInv, DataTypes, StopInv
<1>1. p \in Callers /\ KeyOf(p) = key[p] /\ KeyOf(p)' = key'[p]
  BY DEF KeyOf
<1>2. CASE Take(p)
  <2>1. Stopper(p) /\ capture = key[p] /\ \A b \in Callers : b # p => ~Stopper(b)
    BY <1>1, <1>2 DEF Take, At, OneStopper
  <2>2. capture # None /\ \A k \in Keys : ~live[k]
    BY <1>1, <2>1, KeyOfStopper DEF OneStopper
  <2>3. /\ Goto(p, "begin") /\ audio' = [audio EXCEPT ![p] = capture] /\ live' = live
    BY <1>2, <2>2 DEF Take
  <2>4. \A b \in Callers : ~Stopper(b)'
    BY <1>1, <2>1, <2>3, GotoFacts
  <2>5. OneStopper'
    BY <2>2, <2>3, <2>4 DEF OneStopper
  <2>6. key' = key
    BY <2>3 DEF Goto
  <2>7. TakenIsOwn'
    BY <1>1, <2>1, <2>3, <2>6, GotoFacts DEF TakenIsOwn
  <2> QED
    BY <2>5, <2>7
<1>3. CASE ~Take(p)
  <2>1. PICK to : /\ Goto(p, to) /\ to \notin {"live", "spawn", "halt", "take", "begin"}
                  /\ to = "transcribe" => pc[p] = "begin"
                  /\ to # "free" => audio' = audio
                  /\ to = "free" => audio' = [audio EXCEPT ![p] = None]
    BY <1>3 DEF PipeStep, Begin, Heard, Silence, TranscribeFails, Reshaped, NothingLeft,
       ReshapeFails, RecordAttempt, Paste, Pasted, PasteFails, Advance, Return, At
  <2>2. capture' = capture /\ live' = live
    BY <1>3 DEF PipeStep, Begin, Heard, Silence, TranscribeFails, Reshaped, NothingLeft,
       ReshapeFails, RecordAttempt, Paste, Pasted, PasteFails, Advance, Return
  <2>3. \A a \in Callers : Stopper(a)' => Stopper(a) /\ KeyOf(a)' = KeyOf(a)
    BY <1>1, <2>1, GotoFacts
  <2>4. OneStopper'
    BY <2>2, <2>3, NoNewStopper
  <2>5. TakenIsOwn'
    BY <1>1, <2>1, GotoFacts DEF TakenIsOwn, KeyOf
  <2> QED
    BY <2>4, <2>5
<1> QED
  BY <1>2, <1>3

(* Nothing else concerns the right to stop.                                *)
LEMMA StopInvStep == TypeInv /\ StopInv /\ [Next]_vars => StopInv'
<1> SUFFICES ASSUME TypeInv, StopInv, [Next]_vars PROVE StopInv'
  OBVIOUS
<1> USE CallersAssumption, KeysAssumption, GoroutinesAssumption
    DEF StopInv, dispatchVars, handlerVars, pipeVars
<1>1. CASE UNCHANGED vars
  BY <1>1 DEF vars, OneStopper, TakenIsOwn, Stopper, KeyOf
<1>2. CASE (\E g \in Speakers : PublishStep(g)) \/ (\E r \in Recoveries : RecoverStep(r))
  BY <1>2 DEF PublishStep, RecoverStep, OutsideCore, OneStopper, TakenIsOwn, Stopper, KeyOf
<1>3. ASSUME NEW p \in Pipes, PipeStep(p) PROVE StopInv'
  BY <1>3, StopPipeStep
<1>4. ASSUME NEW k \in Keys, PressStep(k) \/ KeyStep(k) PROVE StopInv'
  <2>1. OneStopper'
    BY <1>4, StopQuietKeyStep, StopStartStep, StopSwapStep, StopHandOverStep DEF KeyStep
  <2>2. TakenIsOwn'
    <3>1. \A p \in Pipes : pc'[p] \in {"begin", "transcribe"} => pc'[p] = pc[p] /\ key'[p] = key[p]
      BY <1>4 DEF TypeInv, ActorTypes, PressStep, KeyStep, HoldDown, ToggleOn, ToggleOff, ArmCap,
         KeyUp, Swap, Trigger, TryCheck, TryClaim, StartFails, StartCapture, GoLive, StartProbe,
         StopSwap, StartPipe, Goto, Start
    <3>2. audio' = audio
      BY <1>4 DEF PressStep, KeyStep, HoldDown, ToggleOn, ToggleOff, ArmCap,
         KeyUp, Swap, Trigger, TryCheck, TryClaim, StartFails, StartCapture, GoLive, StartProbe,
         StopSwap, StartPipe
    <3> QED
      BY <3>1, <3>2 DEF TakenIsOwn
  <2> QED
    BY <2>1, <2>2
<1>5. ASSUME NEW c \in Caps, CapStep(c) PROVE StopInv'
  <2>1. OneStopper'
    <3>1. CASE CapFires(c) \/ Swap(c)
      <4>1. PICK to : Goto(c, to) /\ to \notin {"live", "spawn", "halt", "take"}
        BY <3>1 DEF CapFires, Swap, Finished
      <4>2. \A a \in Callers : Stopper(a)' => Stopper(a) /\ KeyOf(a)' = KeyOf(a)
        BY <4>1, GotoFacts DEF Stopper, TypeInv
      <4> QED
        BY <3>1, <4>2, NoNewStopper DEF CapFires, Swap
    <3> QED
      BY <1>5, <3>1, StopSwapStep, StopHandOverStep DEF CapStep
  <2>2. TakenIsOwn'
    <3>1. \A p \in Pipes : pc'[p] \in {"begin", "transcribe"} => pc'[p] = pc[p] /\ key'[p] = key[p]
      BY <1>5 DEF TypeInv, ActorTypes, CapStep, CapFires, Swap, StopSwap, StartPipe, Goto, Start
    <3>2. audio' = audio
      BY <1>5 DEF CapStep, CapFires, Swap, StopSwap, StartPipe
    <3> QED
      BY <3>1, <3>2 DEF TakenIsOwn
  <2> QED
    BY <2>1, <2>2
<1>6. ASSUME NEW a \in Probes, ProbeStep(a) PROVE StopInv'
  <2>1. OneStopper'
    <3>1. CASE ProbeReads(a) \/ ProbeFails(a) \/ ProbeSends(a)
      <4>1. PICK to : Goto(a, to) /\ to \notin {"live", "spawn", "halt", "take"}
        BY <3>1 DEF ProbeReads, ProbeFails, ProbeSends
      <4>2. \A b \in Callers : Stopper(b)' => Stopper(b) /\ KeyOf(b)' = KeyOf(b)
        BY <4>1, GotoFacts DEF Stopper, TypeInv
      <4> QED
        BY <3>1, <4>2, NoNewStopper DEF ProbeReads, ProbeFails, ProbeSends
    <3> QED
      BY <1>6, <3>1, StopSwapStep, StopHandOverStep DEF ProbeStep
  <2>2. TakenIsOwn'
    <3>1. \A p \in Pipes : pc'[p] = pc[p] /\ key'[p] = key[p]
      BY <1>6 DEF TypeInv, ActorTypes, ProbeStep, ProbeReads, ProbeAborts, ProbeHalts, ProbeFails,
         ProbeSends, Goto
    <3>2. audio' = audio
      BY <1>6 DEF ProbeStep, ProbeReads, ProbeAborts, ProbeHalts, ProbeFails, ProbeSends
    <3> QED
      BY <3>1, <3>2 DEF TakenIsOwn
  <2> QED
    BY <2>1, <2>2
<1> QED
  BY <1>1, <1>2, <1>3, <1>4, <1>5, <1>6 DEF Next

(* ... so it is never doubled.                                             *)
LEMMA StopInvariant == Spec => []StopInv
<1>1. Init => StopInv
  BY CallersAssumption, KeysAssumption, GoroutinesAssumption
  DEF Init, StopInv, OneStopper, TakenIsOwn, Stopper
<1> QED
  BY <1>1, StopInvStep, TypeInvariant, PTL DEF Spec

(* Whatever the hotkeys and their modes, a pipeline that is about to take  *)
(* the samples finds its own hotkey's capture, and transcribes that.       *)
THEOREM PipelinesTakeOwnAudio == Spec => []PipelineTakesOwnAudio
<1>1. StopInv => PipelineTakesOwnAudio
  BY CallersAssumption, GoroutinesAssumption
  DEF StopInv, OneStopper, TakenIsOwn, Stopper, KeyOf, PipelineTakesOwnAudio
<1> QED
  BY <1>1, StopInvariant, PTL

(* Whatever the hotkeys and their modes, release, second press, cap and    *)
(* probe error, of this cycle or of an earlier one, never both set out to  *)
(* stop a capture.                                                         *)
THEOREM StoppersAreAlone == Spec => []NoRivalStoppers
<1>1. StopInv => NoRivalStoppers
  BY DEF StopInv, OneStopper, Stopper, Stoppers, NoRivalStoppers
<1> QED
  BY <1>1, StopInvariant, PTL
-----------------------------------------------------------------------------
(* A goroutine whose work a busy state, or a record, stands for.           *)
Works(a) == pc[a] \in {"start", "fail", "begin", "transcribe", "reshape", "record", "paste", "ok",
                       "failed"}

(* Steps of others leave it accounted for.                                 *)
LEMMA BusyQuietStep ==
  ASSUME TypeInv, BusyInv, UNCHANGED <<coreVars, injection>>,
         capture # None => capture' # None,
         \A a \in Callers : Works(a) => pc'[a] = pc[a]
  PROVE  BusyInv'
BY CallersAssumption
DEF BusyInv, BusyHasCause, AttemptIsSettled, Working, Works, coreVars, TypeInv, CoreTypeOK,
    States

(* A change to "error" has still to be published, unless it is none.       *)
LEMMA ErrorIsTold ==
  ASSUME TypeInv, BusyInv, NEW g \in Speakers, Transition(g, "error"), Quiet(g)
  PROVE  (\E h \in Speakers : note'[h] = "error") \/ (\E r \in Recoveries : recovery'[r] # "free")
<1> USE DEF TypeInv, CoreTypeOK, Transition
<1>1. CASE core = "error"
  BY <1>1, KeysAssumption DEF BusyInv, BusyHasCause, Quiet
<1>2. CASE core # "error"
  BY <1>2
<1> QED
  BY <1>1, <1>2

(* A failure of a press or of its probe.                                   *)
LEMMA BusyFailStep ==
  ASSUME TypeInv, BusyInv, NEW a \in Callers, Transition(a, "error"), Quiet(a),
         pc[a] # "paste", NEW to, Goto(a, to), injection' = injection
  PROVE  BusyInv'
<1>1. core' = "error" /\ a \in Speakers
  BY DEF Transition, Speakers
<1>2. BusyHasCause'
  BY <1>1, ErrorIsTold DEF BusyHasCause, States
<1>3. AttemptIsSettled'
  BY GotoFacts, CallersAssumption DEF BusyInv, AttemptIsSettled, Working, TypeInv
<1> QED
  BY <1>2, <1>3 DEF BusyInv

(* A dispatcher or a cap.                                                  *)
LEMMA BusyKeyStep ==
  ASSUME TypeInv, BusyInv, NEW a \in Keys \cup Caps,
         \/ a \in Keys /\ (PressStep(a) \/ KeyStep(a))
         \/ a \in Caps /\ CapStep(a)
  PROVE  BusyInv'
<1> USE CallersAssumption, KeysAssumption, GoroutinesAssumption
    DEF dispatchVars, handlerVars, pipeVars
<1>1. a \in Callers
  OBVIOUS
<1>2. CASE a \in Keys /\ TryClaim(a)
  <2>1. core' = "recording" /\ pc'[a] = "start" /\ \A b \in Callers : b # a => pc'[b] = pc[b]
    BY <1>1, <1>2, GotoFacts DEF TryClaim, Transition, TypeInv
  <2>2. pc[a] = "claim" /\ injection' = injection
    BY <1>2 DEF TryClaim, At
  <2> QED
    BY <1>2, <2>1, <2>2 DEF BusyInv, BusyHasCause, AttemptIsSettled, Working
<1>3. CASE a \in Keys /\ StartFails(a)
  BY <1>1, <1>3, BusyFailStep DEF StartFails, At
<1>4. CASE a \in Keys /\ StartCapture(a)
  <2>1. capture' # None /\ UNCHANGED <<coreVars, injection>>
    BY <1>4 DEF StartCapture
  <2>2. pc[a] = "start" /\ \A b \in Callers : b # a => pc'[b] = pc[b]
    BY <1>1, <1>4, GotoFacts DEF StartCapture, At, TypeInv
  <2> QED
    BY <1>4, <2>1, <2>2
    DEF BusyInv, BusyHasCause, AttemptIsSettled, Working, coreVars, TypeInv, CoreTypeOK, States
<1>5. CASE ~(a \in Keys /\ (TryClaim(a) \/ StartFails(a) \/ StartCapture(a)))
  <2>1. UNCHANGED <<coreVars, injection, capture>>
    BY <1>5 DEF PressStep, KeyStep, HoldDown, ToggleOn, ToggleOff, ArmCap, KeyUp, Swap, Trigger,
       TryCheck, GoLive, StartProbe, StopSwap, StartPipe, CapStep, CapFires
  <2>2. \A b \in Callers : Works(b) => pc'[b] = pc[b]
    BY <1>1, <1>5 DEF Works, TypeInv, ActorTypes, At, Goto, Start, Reusable, PressStep, KeyStep,
       HoldDown, ToggleOn, ToggleOff, ArmCap, KeyUp, Swap, Trigger, TryCheck, GoLive, StartProbe,
       StopSwap, StartPipe, CapStep, CapFires
  <2> QED
    BY <2>1, <2>2, BusyQuietStep
<1> QED
  BY <1>2, <1>3, <1>4, <1>5

(* A probe.                                                                *)
LEMMA BusyProbeStep ==
  ASSUME TypeInv, BusyInv, NEW a \in Probes, ProbeStep(a)
  PROVE  BusyInv'
<1> USE CallersAssumption, KeysAssumption, GoroutinesAssumption
    DEF dispatchVars, handlerVars, pipeVars
<1>1. a \in Callers
  OBVIOUS
<1>2. CASE ProbeFails(a)
  BY <1>1, <1>2, BusyFailStep DEF ProbeFails, At
<1>3. CASE ProbeHalts(a)
  <2>1. /\ pc'[a] = "fail" /\ pc[a] = "halt" /\ UNCHANGED <<coreVars, injection>>
        /\ \A b \in Callers : b # a => pc'[b] = pc[b]
    BY <1>1, <1>3, GotoFacts DEF ProbeHalts, At, TypeInv
  <2> QED
    BY <2>1
    DEF BusyInv, BusyHasCause, AttemptIsSettled, Working, coreVars, TypeInv, CoreTypeOK, States
<1>4. CASE ProbeReads(a) \/ ProbeAborts(a) \/ ProbeSends(a)
  <2>1. UNCHANGED <<coreVars, injection, capture>>
    BY <1>4 DEF ProbeReads, ProbeAborts, ProbeSends
  <2>2. \A b \in Callers : Works(b) => pc'[b] = pc[b]
    BY <1>1, <1>4, GotoFacts DEF Works, TypeInv, At, ProbeReads, ProbeAborts, ProbeSends
  <2> QED
    BY <2>1, <2>2, BusyQuietStep
<1> QED
  BY <1>2, <1>3, <1>4 DEF ProbeStep

(* A pipeline says with every transition what it does next.                *)
LEMMA BusyPipeStep ==
  ASSUME TypeInv, StopInv, BusyInv, NEW p \in Pipes, PipeStep(p)
  PROVE  BusyInv'
<1> USE CallersAssumption, KeysAssumption, GoroutinesAssumption
    DEF dispatchVars, handlerVars, pipeVars
<1>1. p \in Callers /\ p \in Speakers
  BY DEF Speakers
<1>2. CASE Take(p)
  <2>1. capture = key[p] /\ key[p] \in Keys
    BY <1>1, <1>2, KeyOfStopper DEF Take, At, StopInv, OneStopper, Stopper, KeyOf, TypeInv
  <2>2. Goto(p, "begin") /\ pc[p] = "take" /\ UNCHANGED <<coreVars, injection>>
    BY <1>2, <2>1 DEF Take, At
  <2>3. pc'[p] = "begin" /\ \A b \in Callers : b # p => pc'[b] = pc[b]
    BY <1>1, <2>2, GotoFacts DEF TypeInv
  <2> QED
    BY <2>2, <2>3
    DEF BusyInv, BusyHasCause, AttemptIsSettled, Working, coreVars, TypeInv, CoreTypeOK, States
<1>3. CASE Begin(p) \/ Heard(p) \/ Reshaped(p)
  <2>1. /\ core' \in {"transcribing", "processing", "injecting"} /\ injection' = injection
        /\ pc'[p] = CASE core' = "transcribing" -> "transcribe"
                      [] core' = "processing" -> "reshape"
                      [] core' = "injecting" -> "record"
        /\ pc[p] # "paste" /\ \A b \in Callers : b # p => pc'[b] = pc[b]
    BY <1>1, <1>3, GotoFacts DEF Begin, Heard, Reshaped, Advance, At, Transition, TypeInv
  <2> QED
    BY <1>1, <2>1 DEF BusyInv, BusyHasCause, AttemptIsSettled, Working
<1>4. CASE RecordAttempt(p) \/ Paste(p)
  <2>1. /\ UNCHANGED <<coreVars, capture>> /\ \A b \in Callers : b # p => pc'[b] = pc[b]
        /\ pc[p] \in {"record", "paste"} /\ pc'[p] \in {"paste", "ok", "failed"}
        /\ injection' = "attempt" => pc'[p] = "paste"
    BY <1>1, <1>4, GotoFacts DEF RecordAttempt, Paste, Recorded, At, TypeInv
  <2> QED
    BY <1>1, <2>1
    DEF BusyInv, BusyHasCause, AttemptIsSettled, Working, coreVars, TypeInv, CoreTypeOK, States
<1>5. CASE At(p, pc[p]) /\ pc[p] # "paste" /\ Return(p, "error")
  BY <1>1, <1>5, BusyFailStep DEF Return, At
<1>6. CASE pc[p] # "paste" /\ Return(p, "idle")
  <2>1. core' = "idle" /\ injection' = injection /\ \A b \in Callers : b # p => pc'[b] = pc[b]
    BY <1>1, <1>6, GotoFacts DEF Return, Transition, TypeInv
  <2> QED
    BY <1>1, <1>6, <2>1 DEF BusyInv, BusyHasCause, AttemptIsSettled, Working
<1> QED
  BY <1>2, <1>3, <1>4, <1>5, <1>6
  DEF PipeStep, Silence, TranscribeFails, NothingLeft, ReshapeFails, Pasted, PasteFails, At

(* The publication of an error schedules the recovery that ends it.        *)
LEMMA BusyCoreStep ==
  ASSUME TypeInv, BusyInv, NEW g \in Speakers, PublishStep(g) \/ (g \in Recoveries /\ RecoverStep(g))
  PROVE  BusyInv'
<1> USE DEF TypeInv, CoreTypeOK, OutsideCore, pipeVars, handlerVars
<1>1. AttemptIsSettled'
  BY DEF PublishStep, RecoverStep, BusyInv, AttemptIsSettled, Working
<1>2. pc' = pc /\ capture' = capture /\ core' \in {core, "idle"}
  BY DEF PublishStep, RecoverStep, Publish, Recover, RecoveryChecks, RecoveryActs
<1>3. core' = "error" => \/ \E h \in Speakers : note'[h] = "error"
                         \/ \E r \in Recoveries : recovery'[r] # "free"
  <2> SUFFICES ASSUME core' = "error"
               PROVE  \/ \E h \in Speakers : note'[h] = "error"
                      \/ \E r \in Recoveries : recovery'[r] # "free"
    OBVIOUS
  <2>1. core = "error"
    BY <1>2
  <2>2. CASE PublishStep(g)
    BY <2>1, <2>2 DEF PublishStep, Publish, Schedule, BusyInv, BusyHasCause
  <2>3. CASE g \in Recoveries /\ RecoverStep(g)
    BY <2>1, <2>3 DEF RecoverStep, Recover, RecoveryChecks, RecoveryActs, BusyInv, BusyHasCause
  <2> QED
    BY <2>2, <2>3
<1>4. BusyHasCause'
  BY <1>2, <1>3 DEF BusyInv, BusyHasCause, Working, States
<1> QED
  BY <1>1, <1>4 DEF BusyInv

(* A busy state is always somebody's, who will change it ...               *)
LEMMA BusyInvariant == Spec => []BusyInv
<1>1. Init => BusyInv
  BY DEF Init, CoreInit, BusyInv, BusyHasCause, AttemptIsSettled
<1>2. TypeInv /\ StopInv /\ BusyInv /\ [Next]_vars => BusyInv'
  <2> SUFFICES ASSUME TypeInv, StopInv, BusyInv, [Next]_vars PROVE BusyInv'
    OBVIOUS
  <2>1. CASE UNCHANGED vars
    BY <2>1 DEF vars, coreVars, handlerVars, pipeVars, BusyInv, BusyHasCause,
       AttemptIsSettled, Working
  <2>2. ASSUME NEW a \in Keys \cup Caps,
               \/ a \in Keys /\ (PressStep(a) \/ KeyStep(a))
               \/ a \in Caps /\ CapStep(a)
        PROVE  BusyInv'
    BY <2>2, BusyKeyStep
  <2>3. ASSUME NEW s \in Probes, ProbeStep(s) PROVE BusyInv'
    BY <2>3, BusyProbeStep
  <2>4. ASSUME NEW p \in Pipes, PipeStep(p) PROVE BusyInv'
    BY <2>4, BusyPipeStep
  <2>5. ASSUME NEW g \in Speakers, PublishStep(g) \/ (g \in Recoveries /\ RecoverStep(g))
        PROVE  BusyInv'
    BY <2>5, BusyCoreStep
  <2> QED
    BY <2>1, <2>2, <2>3, <2>4, <2>5 DEF Next, Speakers
<1> QED
  BY <1>1, <1>2, TypeInvariant, StopInvariant, PTL DEF Spec

(* The record of an attempt is that of a paste that is going on.           *)
THEOREM AttemptsAreSettled == Spec => []AttemptIsSettled
<1>1. BusyInv => AttemptIsSettled
  BY DEF BusyInv
<1> QED
  BY <1>1, BusyInvariant, PTL
-----------------------------------------------------------------------------
(* Of a hold hotkey's part in a cycle: a step of another goroutine ...     *)
LEMMA HoldOthersStep ==
  ASSUME LiveInPress, PressHasProbe, selCh' = selCh,
         \A k \in Keys : pc'[k] = pc[k] /\ (live'[k] => live[k])
  PROVE  LiveInPress' /\ PressHasProbe'
BY DEF LiveInPress, PressHasProbe, Keys

(* ... and of dispatcher k.                                                *)
LEMMA HoldPressStep ==
  ASSUME TypeInv, LiveInPress, PressHasProbe, NEW k \in Keys, PressStep(k) \/ KeyStep(k)
  PROVE  LiveInPress' /\ PressHasProbe'
<1> USE CallersAssumption, KeysAssumption, GoroutinesAssumption
    DEF dispatchVars, handlerVars, pipeVars, TypeInv, DataTypes
<1>1. k \in Callers
  OBVIOUS
<1>2. \A j \in Keys : j # k => pc'[j] = pc[j] /\ live'[j] = live[j] /\ selCh'[j] = selCh[j]
  BY DEF ActorTypes, PressStep, KeyStep, HoldDown, ToggleOn, ToggleOff, ArmCap, KeyUp, Swap, Trigger,
     TryCheck, TryClaim, StartFails, StartCapture, GoLive, StartProbe, StopSwap, StartPipe,
     LiveAfterSwap, KeyOf, Goto, Start, At, Reusable
<1>3. CASE k \notin HoldKeys
  BY <1>2, <1>3 DEF LiveInPress, PressHasProbe, Keys
<1>4. CASE k \in HoldKeys
  <2>1. /\ live'[k] => pc'[k] \in {"probe", "held", "stop"}
        /\ k \in ComposeKeys => /\ pc'[k] \in {"held", "stop"} /\ live'[k] => selCh'[k] # None
                                /\ pc'[k] = "spawn" => selCh'[k] # None
    <3>1. CASE ArmCap(k) \/ StartPipe(k) \/ StartProbe(k)
      BY <1>1, <1>4, <3>1 DEF ActorTypes, Places, ArmCap, StartPipe, StartProbe, Start, At, Reusable,
         AfterTrigger, Finished, LiveInPress, PressHasProbe
    <3>2. CASE PressStep(k) \/ KeyUp(k) \/ Swap(k)
      BY <1>1, <1>4, <3>2 DEF ActorTypes, Places, PressStep, HoldDown, ToggleOn, ToggleOff, KeyUp, Swap,
         Goto, At, LiveInPress, PressHasProbe
    <3>3. CASE Trigger(k) \/ TryCheck(k) \/ TryClaim(k) \/ StartFails(k) \/ StartCapture(k)
               \/ GoLive(k) \/ StopSwap(k)
      BY <1>1, <1>4, <3>3 DEF ActorTypes, Trigger, TryCheck, TryClaim, StartFails, StartCapture, GoLive,
         StopSwap, AfterTrigger, Finished, WinsSwap, LiveAfterSwap, KeyOf, Goto, At, LiveInPress,
         PressHasProbe
    <3> QED
      BY <3>1, <3>2, <3>3 DEF KeyStep
  <2> QED
    BY <1>2, <2>1 DEF LiveInPress, PressHasProbe, Keys
<1> QED
  BY <1>3, <1>4

(* Those who may stop the capture keep the right.                          *)
LEMMA CoverStays ==
  ASSUME CaptureIsCovered, capture' = capture, capture \in HoldKeys => live'[capture] = live[capture],
         \A a \in Callers : Stopper(a) => pc'[a] = pc[a]
  PROVE  CaptureIsCovered'
BY DEF CaptureIsCovered, Stopper

(* The swap of the flag gives the right to whoever makes it.               *)
LEMMA CoverSwapStep ==
  ASSUME TypeInv, StopInv, CaptureIsCovered, NEW a \in Callers,
         StopSwap(a) \/ (a \in Probes /\ ProbeAborts(a))
  PROVE  CaptureIsCovered'
<1> USE CallersAssumption, KeysAssumption, GoroutinesAssumption DEF handlerVars
<1>1. live' = [live EXCEPT ![KeyOf(a)] = FALSE] /\ capture' = capture /\ ~Stopper(a)
  BY DEF StopSwap, ProbeAborts, LiveAfterSwap, KeyOf, At, Stopper
<1>2. PICK to : Goto(a, to) /\ (live[KeyOf(a)] => to \in {"spawn", "halt"})
  BY DEF StopSwap, ProbeAborts, WinsSwap, KeyOf
<1>3. pc'[a] = to /\ \A b \in Callers : b # a => pc'[b] = pc[b]
  BY <1>2, GotoFacts DEF TypeInv
<1>4. CASE KeyOf(a) = capture
  <2>1. CASE live[capture]
    BY <1>2, <1>3, <1>4, <2>1 DEF CaptureIsCovered, Stopper
  <2>2. CASE ~live[capture]
    BY <1>1, <1>3, <2>2 DEF CaptureIsCovered, Stopper
  <2> QED
    BY <2>1, <2>2
<1>5. CASE KeyOf(a) # capture
  <2>1. capture \in HoldKeys => live'[capture] = live[capture]
    BY <1>1, <1>5 DEF TypeInv, DataTypes, Keys
  <2> QED
    BY <1>1, <1>3, <2>1, CoverStays
<1> QED
  BY <1>4, <1>5

(* A dispatcher or a cap.                                                  *)
LEMMA CoverKeyStep ==
  ASSUME TypeInv, StopInv, LiveInPress, CaptureIsCovered, NEW a \in Keys \cup Caps,
         \/ a \in Keys /\ (PressStep(a) \/ KeyStep(a))
         \/ a \in Caps /\ CapStep(a)
  PROVE  CaptureIsCovered'
<1> USE CallersAssumption, KeysAssumption, GoroutinesAssumption
    DEF dispatchVars, handlerVars, pipeVars
<1>1. a \in Callers
  OBVIOUS
<1>2. CASE StopSwap(a)
  BY <1>1, <1>2, CoverSwapStep
<1>3. CASE StartPipe(a)
  <2>1. \E p \in Pipes : Stopper(p)'
    BY <1>3 DEF TypeInv, ActorTypes, StartPipe, Start, Stopper
  <2> QED
    BY <2>1 DEF CaptureIsCovered
<1>4. CASE a \in Keys /\ StartCapture(a)
  BY <1>1, <1>4, GotoFacts DEF TypeInv, StartCapture, CaptureIsCovered, Stopper
<1>5. CASE a \in Keys /\ GoLive(a)
  BY <1>1, <1>5 DEF TypeInv, DataTypes, StopInv, OneStopper, Stopper, KeyOf, GoLive, At, CaptureIsCovered
<1>6. CASE /\ ~StopSwap(a) /\ ~StartPipe(a)
           /\ ~(a \in Keys /\ (StartCapture(a) \/ GoLive(a)))
  <2>1. capture' = capture
    BY <1>6 DEF PressStep, KeyStep, HoldDown, ToggleOn, ToggleOff, ArmCap, KeyUp, Swap, Trigger,
       TryCheck, TryClaim, StartFails, StartProbe, CapStep, CapFires
  <2>2. \A b \in Callers : Stopper(b) => pc'[b] = pc[b]
    BY <1>1, <1>6 DEF Stopper, TypeInv, ActorTypes, At, Goto, Start, Reusable, PressStep, KeyStep,
       HoldDown, ToggleOn, ToggleOff, ArmCap, KeyUp, Swap, Trigger, TryCheck, TryClaim, StartFails,
       StartProbe, CapStep, CapFires
  <2>3. capture \in HoldKeys => live'[capture] = live[capture]
    <3>1. CASE Trigger(a)
      BY <3>1 DEF Trigger, At, TypeInv, DataTypes, LiveInPress, Keys
    <3>2. CASE ~Trigger(a)
      BY <1>6, <3>2 DEF PressStep, KeyStep, HoldDown, ToggleOn, ToggleOff, ArmCap, KeyUp, Swap,
         TryCheck, TryClaim, StartFails, StartProbe, CapStep, CapFires
    <3> QED
      BY <3>1, <3>2
  <2> QED
    BY <2>1, <2>2, <2>3, CoverStays
<1> QED
  BY <1>2, <1>3, <1>4, <1>5, <1>6

(* The probe of a pipeline is that of the press it was started for.        *)
LEMMA PipeProbeStays ==
  ASSUME PipeHasProbe,
         \A p \in Pipes : pc'[p] = "take" => pc[p] = "take" /\ key'[p] = key[p] /\ chan'[p] = chan[p]
  PROVE  PipeHasProbe'
BY DEF PipeHasProbe

(* A pipeline started by a press, release or cap finds its probe's channel. *)
LEMMA PipeProbeKeyStep ==
  ASSUME TypeInv, PressHasProbe, PipeHasProbe, NEW a \in Keys \cup Caps,
         \/ a \in Keys /\ (PressStep(a) \/ KeyStep(a))
         \/ a \in Caps /\ CapStep(a)
  PROVE  PipeHasProbe'
<1> USE CallersAssumption, KeysAssumption, GoroutinesAssumption
    DEF dispatchVars, handlerVars, pipeVars, TypeInv
<1>1. CASE StartPipe(a)
  <2>1. PICK p \in Pipes : /\ Start(a, Finished(a), p, "take")
                           /\ chan' = [chan EXCEPT ![p] = ChannelOf(KeyOf(a))]
    BY <1>1 DEF StartPipe
  <2>2. KeyOf(a) \in HoldKeys => a \in HoldKeys /\ KeyOf(a) = a
    BY <1>1 DEF StartPipe, At, KeyOf, ActorTypes, KeysKnown, Keys
  <2>3. key'[p] = KeyOf(a) /\ \A q \in Pipes : q # p => pc'[q] = pc[q] /\ key'[q] = key[q]
    BY <1>1, <2>1 DEF Start, ActorTypes
  <2>4. KeyOf(a) \in HoldKeys \cap ComposeKeys => selCh[KeyOf(a)] # None
    BY <1>1, <2>2 DEF StartPipe, At, PressHasProbe
  <2> QED
    BY <2>1, <2>3, <2>4 DEF PipeHasProbe, DataTypes, ChannelOf
<1>2. CASE ~StartPipe(a)
  <2>1. \A p \in Pipes : pc'[p] = "take" => pc[p] = "take" /\ key'[p] = key[p] /\ chan'[p] = chan[p]
    BY <1>2 DEF ActorTypes, At, Goto, Start, Reusable, PressStep, KeyStep,
       HoldDown, ToggleOn, ToggleOff, ArmCap, KeyUp, Swap, Trigger, TryCheck, TryClaim, StartFails,
       StartCapture, GoLive, StartProbe, StopSwap, CapStep, CapFires
  <2> QED
    BY <2>1, PipeProbeStays
<1> QED
  BY <1>1, <1>2

(* Probes and pipelines.                                                   *)
LEMMA HoldWorkerStep ==
  ASSUME TypeInv, StopInv, HoldInv, NEW a \in Probes \cup Pipes,
         \/ a \in Probes /\ ProbeStep(a)
         \/ a \in Pipes /\ PipeStep(a)
  PROVE  HoldInv'
<1> USE CallersAssumption, KeysAssumption, GoroutinesAssumption
    DEF dispatchVars, handlerVars, pipeVars, TypeInv
<1>1. a \in Callers /\ a \notin Keys
  OBVIOUS
<1>2. selCh' = selCh /\ \A k \in Keys : pc'[k] = pc[k] /\ (live'[k] => live[k])
  BY <1>1 DEF ActorTypes, DataTypes, Goto, LiveAfterSwap,
     ProbeStep, ProbeReads, ProbeAborts, ProbeHalts, ProbeFails, ProbeSends,
     PipeStep, Take, Begin, Heard, Silence, TranscribeFails, Reshaped, NothingLeft,
     ReshapeFails, RecordAttempt, Paste, Pasted, PasteFails, Advance, Return
<1>3. LiveInPress' /\ PressHasProbe'
  BY <1>2, HoldOthersStep DEF HoldInv
<1>4. CaptureIsCovered'
  <2>1. CASE (a \in Probes /\ ProbeHalts(a)) \/ (a \in Pipes /\ Take(a) /\ capture # None)
    BY <2>1 DEF ProbeHalts, Take, CaptureAfterHalt, CaptureIsCovered, Keys
  <2>2. CASE a \in Probes /\ ProbeAborts(a)
    BY <1>1, <2>2, CoverSwapStep DEF HoldInv
  <2>3. CASE \/ a \in Probes /\ ~ProbeHalts(a) /\ ~ProbeAborts(a)
             \/ a \in Pipes /\ ~Take(a)
    <3>1. capture' = capture /\ live' = live
      BY <2>3 DEF ProbeStep, ProbeReads, ProbeFails, ProbeSends,
         PipeStep, Begin, Heard, Silence, TranscribeFails, Reshaped, NothingLeft,
         ReshapeFails, RecordAttempt, Paste, Pasted, PasteFails, Advance, Return
    <3>2. \A b \in Callers : Stopper(b) => pc'[b] = pc[b]
      BY <1>1, <2>3 DEF Stopper, ActorTypes, At, Goto,
         ProbeStep, ProbeReads, ProbeFails, ProbeSends,
         PipeStep, Begin, Heard, Silence, TranscribeFails, Reshaped, NothingLeft,
         ReshapeFails, RecordAttempt, Paste, Pasted, PasteFails, Advance, Return
    <3> QED
      BY <3>1, <3>2, CoverStays DEF HoldInv
  <2>4. CASE a \in Pipes /\ Take(a) /\ capture = None
    BY <2>4 DEF Take, At, CaptureIsCovered, Keys, Return
  <2> QED
    BY <2>1, <2>2, <2>3, <2>4
<1>5. PipeHasProbe'
  <2>1. \A p \in Pipes : pc'[p] = "take" => pc[p] = "take" /\ key'[p] = key[p] /\ chan'[p] = chan[p]
    BY <1>1 DEF ActorTypes, DataTypes, At, Goto,
       ProbeStep, ProbeReads, ProbeAborts, ProbeHalts, ProbeFails, ProbeSends,
       PipeStep, Take, Begin, Heard, Silence, TranscribeFails, Reshaped, NothingLeft,
       ReshapeFails, RecordAttempt, Paste, Pasted, PasteFails, Advance, Return
  <2> QED
    BY <2>1, PipeProbeStays DEF HoldInv
<1> QED
  BY <1>3, <1>4, <1>5 DEF HoldInv

(* A hold hotkey's capture, and its probe, are looked after.               *)
LEMMA HoldInvariant == Spec => []HoldInv
<1>1. Init => HoldInv
  BY CallersAssumption, KeysAssumption, GoroutinesAssumption
  DEF Init, HoldInv, LiveInPress, CaptureIsCovered, PressHasProbe, PipeHasProbe, Keys
<1>2. TypeInv /\ StopInv /\ HoldInv /\ [Next]_vars => HoldInv'
  <2> SUFFICES ASSUME TypeInv, StopInv, HoldInv, [Next]_vars PROVE HoldInv'
    OBVIOUS
  <2>1. CASE \/ UNCHANGED vars
             \/ \E g \in Speakers : PublishStep(g)
             \/ \E r \in Recoveries : RecoverStep(r)
    BY <2>1 DEF vars, OutsideCore, PublishStep, RecoverStep, dispatchVars, handlerVars, pipeVars,
       HoldInv, LiveInPress, CaptureIsCovered, PressHasProbe, PipeHasProbe, Stopper
  <2>2. ASSUME NEW k \in Keys, PressStep(k) \/ KeyStep(k) PROVE HoldInv'
    BY <2>2, HoldPressStep, CoverKeyStep, PipeProbeKeyStep DEF HoldInv
  <2>3. ASSUME NEW c \in Caps, CapStep(c) PROVE HoldInv'
    <3>1. selCh' = selCh /\ \A k \in Keys : pc'[k] = pc[k] /\ (live'[k] => live[k])
      BY <2>3, CallersAssumption, GoroutinesAssumption
      DEF CapStep, CapFires, Swap, StopSwap, StartPipe, LiveAfterSwap, KeyOf, Goto, Start, At,
          dispatchVars, handlerVars, pipeVars, TypeInv, ActorTypes, DataTypes
    <3> QED
      BY <2>3, <3>1, HoldOthersStep, CoverKeyStep, PipeProbeKeyStep DEF HoldInv
  <2>4. ASSUME NEW a \in Probes \cup Pipes,
               \/ a \in Probes /\ ProbeStep(a)
               \/ a \in Pipes /\ PipeStep(a)
        PROVE  HoldInv'
    BY <2>4, HoldWorkerStep
  <2> QED
    BY <2>1, <2>2, <2>3, <2>4 DEF Next
<1> QED
  BY <1>1, <1>2, TypeInvariant, StopInvariant, PTL DEF Spec

(* A hold hotkey's capture has exactly one goroutine that will stop it, or *)
(* is live and waits for its release.  With a toggle hotkey, whose second  *)
(* press may clear the live flag before the cap has looked at it, it is    *)
(* not so: the run of the finding shows one that nobody stops.             *)
THEOREM CapturesHaveOneStopper ==
  ASSUME ToggleKeys = {} PROVE Spec => []CaptureHasOneStopper
<1>1. TypeInv /\ StopInv /\ HoldInv => CaptureHasOneStopper
  <2> SUFFICES ASSUME TypeInv, StopInv, HoldInv, capture # None
               PROVE  IF live[capture] THEN Stoppers(capture) = {}
                                       ELSE \E a \in Callers : Stoppers(capture) = {a}
    BY DEF CaptureHasOneStopper
  <2>1. capture \in Keys /\ capture \in HoldKeys
    BY DEF TypeInv, DataTypes, Keys
  <2>2. CASE live[capture]
    BY <2>1, <2>2 DEF StopInv, OneStopper, Stopper, Stoppers
  <2>3. CASE ~live[capture]
    <3>1. PICK a \in Callers : Stopper(a)
      BY <2>1, <2>3 DEF HoldInv, CaptureIsCovered
    <3>2. Stoppers(capture) = {a}
      BY <3>1 DEF StopInv, OneStopper, Stopper, Stoppers
    <3> QED
      BY <2>3, <3>2
  <2> QED
    BY <2>2, <2>3
<1> QED
  BY <1>1, TypeInvariant, StopInvariant, HoldInvariant, PTL

(* A busy state has a cause, whatever the hotkeys and their modes.  Where  *)
(* that is the capture of a hold hotkey, its press is still to be released *)
(* or a goroutine will stop it; a toggle hotkey's may be nobody's.         *)
THEOREM BusyHasAWorker == Spec => []BusyIsAccountedFor
<1>1. TypeInv /\ StopInv /\ BusyInv /\ HoldInv => BusyIsAccountedFor
  <2> SUFFICES ASSUME TypeInv, StopInv, BusyInv, HoldInv PROVE BusyIsAccountedFor
    OBVIOUS
  <2>1. ASSUME capture \in HoldKeys PROVE AwaitsRelease(capture) \/ Stoppers(capture) # {}
    <3>1. CASE live[capture]
      BY <2>1, <3>1 DEF HoldInv, LiveInPress, AwaitsRelease
    <3>2. CASE ~live[capture]
      <4>1. PICK a \in Callers : Stopper(a)
        BY <2>1, <3>2 DEF HoldInv, CaptureIsCovered
      <4>2. a \in Stoppers(capture)
        BY <4>1 DEF StopInv, OneStopper, Stopper, Stoppers
      <4> QED
        BY <4>2
    <3> QED
      BY <3>1, <3>2
  <2>2. BusyHasCause
    BY DEF BusyInv
  <2> QED
    BY <2>1, <2>2 DEF BusyHasCause, BusyIsAccountedFor, TypeInv, CoreTypeOK, States
<1> QED
  BY <1>1, TypeInvariant, StopInvariant, BusyInvariant, HoldInvariant, PTL

(* A compose pipeline in hold mode has the channel of its cycle's probe.   *)
THEOREM ComposeHasProbe ==
  ASSUME ComposeKeys \subseteq HoldKeys PROVE Spec => []ComposeHasItsProbe
<1>1. HoldInv => ComposeHasItsProbe
  BY DEF HoldInv, PipeHasProbe, ComposeHasItsProbe
<1> QED
  BY <1>1, HoldInvariant, PTL
-----------------------------------------------------------------------------
(* One at a time: who is at work knows the state of the daemon.            *)
LEMMA CycleActive ==
  ASSUME OneCycle, NEW a \in Callers, Active(a)
  PROVE  /\ core = StateOf(a)
         /\ core # "error"
         /\ \A b \in Callers : b # a => ~Active(b)
         /\ \A k \in Keys : ~live[k]
         /\ \A g \in Speakers : ~Erring(g)
         /\ \A r \in Recoveries : recovery[r] = "free"
<1>1. StateOf(a) # "error"
  BY DEF StateOf
<1> QED
  BY <1>1 DEF OneCycle

(* Steps that start nobody.                                                *)
LEMMA CycleStays ==
  ASSUME OneCycle, UNCHANGED coreVars, \A k \in Keys : live'[k] => live[k],
         \A a \in Callers : Active(a)' => Active(a) /\ StateOf(a)' = StateOf(a)
  PROVE  OneCycle'
BY DEF OneCycle, coreVars, Erring

(* Steps that leave at most c at work.                                     *)
LEMMA CycleMoves ==
  ASSUME OneCycle, NEW c \in Callers, \A b \in Callers : b # c => ~Active(b)',
         StateOf(c)' \in {"none", core'}, \A k \in Keys : ~live'[k],
         \/ UNCHANGED coreVars
         \/ /\ Active(c) /\ core' # "error" /\ recovery' = recovery
            /\ \A g \in Speakers : ~Erring(g)'
  PROVE  OneCycle'
<1>1. CASE UNCHANGED coreVars
  BY <1>1 DEF OneCycle, coreVars, Erring, Active
<1>2. CASE /\ Active(c) /\ core' # "error" /\ recovery' = recovery
           /\ \A g \in Speakers : ~Erring(g)'
  BY <1>2, CycleActive DEF OneCycle, Active
<1> QED
  BY <1>1, <1>2

(* A transition of the one at work, c: to the state of what it does next,  *)
(* or to idle or the error, when it ends.                                  *)
LEMMA CycleTransition ==
  ASSUME TypeInv, OneCycle, NEW c \in Callers, Active(c), NEW s \in States, Transition(c, s),
         NEW to, Goto(c, to), StateOf(c)' \in {"none", s}, s = "error" => StateOf(c)' = "none",
         live' = live
  PROVE  OneCycle'
<1>1. \A b \in Callers : b # c => ~Active(b)'
  BY CycleActive, GotoFacts DEF TypeInv, Active, StateOf
<1>2. \A k \in Keys : ~live'[k]
  BY CycleActive
<1>3. CASE s # "error"
  <2>1. core' = s /\ recovery' = recovery /\ \A g \in Speakers : ~Erring(g)'
    BY <1>3, CycleActive, NoneAssumption DEF Transition, Erring, TypeInv, CoreTypeOK, States
  <2> QED
    BY <1>1, <1>2, <1>3, <2>1, CycleMoves
<1>4. CASE s = "error"
  <2>1. /\ core' = "error" /\ recovery' = recovery
        /\ \A g \in Speakers : g # c => ~Erring(g)'
    BY <1>4, CycleActive DEF Transition, Erring, TypeInv, CoreTypeOK
  <2>2. \A b \in Callers : ~Active(b)'
    BY <1>1, <1>4 DEF Active
  <2> QED
    BY <1>2, <2>1, <2>2, CycleActive DEF OneCycle
<1> QED
  BY <1>3, <1>4

(* One hotkey, in hold mode.                                               *)
OneHoldKey == ToggleKeys = {} /\ \A j, k \in HoldKeys : j = k

(* The dispatcher.                                                         *)
LEMMA CycleKeyStep ==
  ASSUME OneHoldKey, TypeInv, OneCycle, NEW k \in Keys, PressStep(k) \/ KeyStep(k)
  PROVE  OneCycle'
<1> USE CallersAssumption, KeysAssumption, GoroutinesAssumption
    DEF dispatchVars, handlerVars, pipeVars, TypeInv
<1>1. k \in Callers /\ k \in HoldKeys /\ KeyOf(k) = k /\ \A j \in Keys : j = k
  BY DEF OneHoldKey, Keys, KeyOf
<1>2. CASE HoldDown(k) \/ KeyUp(k) \/ Trigger(k) \/ (TryCheck(k) /\ ~MayStart) \/ StartCapture(k)
  <2>1. UNCHANGED coreVars /\ (live'[k] => live[k])
    BY <1>2 DEF HoldDown, KeyUp, Trigger, TryCheck, StartCapture, DataTypes
  <2>2. PICK to : /\ Goto(k, to)
                  /\ \/ to \in {"trigger", "stop", "ready", "check", "held"}
                     \/ to = "live" /\ pc[k] = "start"
    BY <1>1, <1>2 DEF HoldDown, KeyUp, Trigger, TryCheck, StartCapture, At, AfterTrigger
  <2>3. pc'[k] = to /\ \A a \in Callers : a # k => pc'[a] = pc[a]
    BY <1>1, <2>2, GotoFacts
  <2>4. \A a \in Callers : Active(a)' => Active(a) /\ StateOf(a)' = StateOf(a)
    BY <2>2, <2>3 DEF Active, StateOf
  <2> QED
    BY <1>1, <2>1, <2>4, CycleStays
<1>3. CASE TryCheck(k) /\ MayStart
  <2>1. core = "idle" /\ UNCHANGED <<coreVars, live>> /\ pc[k] = "check" /\ Goto(k, "claim")
    BY <1>3 DEF TryCheck, MayStart, At
  <2>2. \A b \in Callers : b # k => ~Active(b)'
    <3>1. \A b \in Callers : Active(b) => pc[b] = "claim"
      BY <2>1 DEF OneCycle, StateOf
    <3>2. \A b \in Callers : pc[b] = "claim" => b \in Keys
      BY DEF ActorTypes, Places, PcOf
    <3> QED
      BY <1>1, <2>1, <3>1, <3>2, GotoFacts DEF Active, StateOf
  <2>3. StateOf(k)' = "idle" /\ \A j \in Keys : ~live'[j]
    BY <1>1, <2>1, GotoFacts DEF OneCycle, StateOf
  <2>4. core' = "idle"
    BY <2>1 DEF coreVars
  <2> QED
    BY <1>1, <2>1, <2>2, <2>3, <2>4, CycleMoves
<1>4. CASE TryClaim(k)
  <2>1. Active(k) /\ Goto(k, "start") /\ Transition(k, "recording") /\ live' = live
    BY <1>4 DEF TryClaim, At, Active, StateOf
  <2>2. StateOf(k)' = "recording"
    BY <1>1, <2>1, GotoFacts DEF StateOf
  <2> QED
    BY <1>1, <2>1, <2>2, CycleTransition DEF States
<1>5. CASE StartFails(k)
  <2>1. Active(k) /\ Goto(k, "held") /\ Transition(k, "error") /\ live' = live
    BY <1>1, <1>5 DEF StartFails, At, Active, StateOf, AfterTrigger
  <2>2. StateOf(k)' = "none"
    BY <1>1, <2>1, GotoFacts DEF StateOf
  <2> QED
    BY <1>1, <2>1, <2>2, CycleTransition DEF States
<1>6. CASE GoLive(k)
  <2>1. Active(k) /\ StateOf(k) = "recording" /\ UNCHANGED coreVars
    BY <1>6 DEF GoLive, At, Active, StateOf
  <2>2. \A b \in Callers : ~Active(b)'
    BY <1>1, <1>6, <2>1, CycleActive, GotoFacts DEF GoLive, Active, StateOf, AfterTrigger
  <2> QED
    BY <1>1, <2>1, <2>2, CycleActive DEF OneCycle, coreVars, Erring
<1>7. CASE StartProbe(k)
  <2>1. \A a \in Callers : Active(a)' => Active(a) /\ StateOf(a)' = StateOf(a)
    BY <1>1, <1>7 DEF StartProbe, Reusable, AfterTrigger, Active, StateOf, ActorTypes
  <2> QED
    BY <1>7, <2>1, CycleStays DEF StartProbe
<1>8. CASE StopSwap(k)
  <2>1. UNCHANGED coreVars /\ live' = [live EXCEPT ![k] = FALSE]
    BY <1>1, <1>8 DEF StopSwap, LiveAfterSwap
  <2>2. Goto(k, IF live[k] THEN "spawn" ELSE "ready")
    BY <1>1, <1>8 DEF StopSwap, WinsSwap, Finished
  <2>3. CASE live[k]
    <3>1. core' = "recording" /\ \A b \in Callers : ~Active(b)
      BY <1>1, <2>1, <2>3 DEF OneCycle, coreVars
    <3>2. StateOf(k)' = "recording" /\ \A b \in Callers : b # k => ~Active(b)'
      BY <1>1, <2>2, <2>3, <3>1, GotoFacts DEF Active, StateOf
    <3> QED
      BY <1>1, <2>1, <3>1, <3>2, CycleMoves DEF DataTypes
  <2>4. CASE ~live[k]
    <3>1. \A a \in Callers : Active(a)' => Active(a) /\ StateOf(a)' = StateOf(a)
      BY <1>1, <2>2, <2>4, GotoFacts DEF Active, StateOf
    <3> QED
      BY <1>1, <2>1, <2>4, <3>1, CycleStays DEF DataTypes
  <2> QED
    BY <2>3, <2>4
<1>9. CASE StartPipe(k)
  <2>1. PICK p \in Pipes : Start(k, "ready", p, "take")
    BY <1>1, <1>9 DEF StartPipe, Finished
  <2>2. Active(k) /\ StateOf(k) = "recording" /\ UNCHANGED <<coreVars, live>>
    BY <1>9 DEF StartPipe, At, Active, StateOf
  <2>3. pc'[k] = "ready" /\ pc'[p] = "take" /\ \A b \in Callers : b # k /\ b # p => pc'[b] = pc[b]
    BY <1>1, <2>1 DEF Start, ActorTypes
  <2>4. StateOf(p)' = "recording" /\ \A b \in Callers : b # p => ~Active(b)'
    BY <1>1, <2>2, <2>3, CycleActive DEF Active, StateOf
  <2> QED
    BY <1>1, <2>2, <2>4, CycleActive, CycleMoves DEF coreVars
<1> QED
  BY <1>1, <1>2, <1>3, <1>4, <1>5, <1>6, <1>7, <1>8, <1>9
  DEF PressStep, KeyStep, ToggleOn, ToggleOff, ArmCap, Swap, At, ActorTypes, Places, OneHoldKey, Keys

(* The probe, which acts on the capture only if it has won it.             *)
LEMMA CycleProbeStep ==
  ASSUME OneHoldKey, TypeInv, OneCycle, NEW a \in Probes, ProbeStep(a)
  PROVE  OneCycle'
<1> USE CallersAssumption, KeysAssumption, GoroutinesAssumption
    DEF dispatchVars, handlerVars, pipeVars, TypeInv
<1>1. a \in Callers
  OBVIOUS
<1>2. CASE ProbeReads(a) \/ ProbeSends(a) \/ ProbeHalts(a) \/ (ProbeAborts(a) /\ ~live[key[a]])
  <2>1. UNCHANGED coreVars /\ \A k \in Keys : (live'[k] => live[k])
    BY <1>2 DEF ProbeReads, ProbeSends, ProbeHalts, ProbeAborts, LiveAfterSwap, DataTypes
  <2>2. PICK to : /\ Goto(a, to)
                  /\ \/ to \in {"abort", "send", "sent"}
                     \/ to = "fail" /\ pc[a] = "halt"
    BY <1>2 DEF ProbeReads, ProbeSends, ProbeHalts, ProbeAborts, WinsSwap, At
  <2>3. pc'[a] = to /\ \A b \in Callers : b # a => pc'[b] = pc[b]
    BY <1>1, <2>2, GotoFacts
  <2>4. \A b \in Callers : Active(b)' => Active(b) /\ StateOf(b)' = StateOf(b)
    BY <2>2, <2>3 DEF Active, StateOf
  <2> QED
    BY <2>1, <2>4, CycleStays
<1>3. CASE ProbeAborts(a) /\ live[key[a]]
  <2>1. key[a] \in Keys /\ Goto(a, "halt") /\ UNCHANGED coreVars /\ live' = [live EXCEPT ![key[a]] = FALSE]
    BY <1>3 DEF ProbeAborts, WinsSwap, LiveAfterSwap, At, ActorTypes, KeysKnown
  <2>2. core' = "recording" /\ \A b \in Callers : ~Active(b)
    BY <1>3, <2>1 DEF OneCycle, coreVars
  <2>3. StateOf(a)' = "recording" /\ \A b \in Callers : b # a => ~Active(b)'
    BY <1>1, <2>1, <2>2, GotoFacts DEF Active, StateOf
  <2>4. \A k \in Keys : ~live'[k]
    BY <2>1 DEF DataTypes, OneHoldKey, Keys
  <2> QED
    BY <1>1, <2>1, <2>2, <2>3, <2>4, CycleMoves
<1>4. CASE ProbeFails(a)
  <2>1. Active(a) /\ Goto(a, "send") /\ Transition(a, "error") /\ live' = live
    BY <1>4 DEF ProbeFails, At, Active, StateOf
  <2>2. StateOf(a)' = "none"
    BY <1>1, <2>1, GotoFacts DEF StateOf
  <2> QED
    BY <1>1, <2>1, <2>2, CycleTransition DEF States
<1> QED
  BY <1>2, <1>3, <1>4 DEF ProbeStep

(* The pipeline, which finds a capture to take.                            *)
LEMMA CyclePipeStep ==
  ASSUME TypeInv, StopInv, OneCycle, NEW p \in Pipes, PipeStep(p)
  PROVE  OneCycle'
<1> USE CallersAssumption, KeysAssumption, GoroutinesAssumption
    DEF dispatchVars, handlerVars, pipeVars, TypeInv
<1>1. p \in Callers /\ Active(p)
  BY DEF PipeStep, Take, Begin, Heard, Silence, TranscribeFails, Reshaped, NothingLeft,
     ReshapeFails, RecordAttempt, Paste, Pasted, PasteFails, Advance, At, Active, StateOf
<1>2. CASE Take(p) \/ RecordAttempt(p) \/ Paste(p)
  <2>1. Take(p) => capture # None
    BY <1>1, KeyOfStopper DEF Take, At, StopInv, OneStopper, Stopper
  <2>2. UNCHANGED <<coreVars, live>>
    BY <1>2, <2>1 DEF Take, RecordAttempt, Paste
  <2>3. PICK to : Goto(p, to) /\ \/ pc[p] = "take" /\ to = "begin"
                                 \/ pc[p] = "record" /\ to = "paste"
                                 \/ pc[p] = "paste" /\ to \in {"ok", "failed"}
    BY <1>2, <2>1 DEF Take, RecordAttempt, Paste, At
  <2>4. pc'[p] = to /\ \A b \in Callers : b # p => pc'[b] = pc[b]
    BY <1>1, <2>3, GotoFacts
  <2>5. \A b \in Callers : Active(b)' => Active(b) /\ StateOf(b)' = StateOf(b)
    BY <2>3, <2>4 DEF Active, StateOf
  <2> QED
    BY <2>2, <2>5, CycleStays
<1>3. CASE Begin(p) \/ Heard(p) \/ Reshaped(p)
  <2>1. PICK s \in {"transcribing", "processing", "injecting"} :
          /\ Transition(p, s) /\ live' = live
          /\ Goto(p, CASE s = "transcribing" -> "transcribe"
                       [] s = "processing" -> "reshape"
                       [] s = "injecting" -> "record")
    BY <1>3 DEF Begin, Heard, Reshaped, Advance
  <2>2. StateOf(p)' = s /\ s # "error"
    BY <1>1, <2>1, GotoFacts DEF StateOf
  <2> QED
    BY <1>1, <2>1, <2>2, CycleTransition DEF States
<1>4. CASE Return(p, "idle") \/ Return(p, "error")
  <2>1. PICK s \in {"idle", "error"} : Goto(p, "free") /\ Transition(p, s) /\ live' = live
    BY <1>4 DEF Return
  <2>2. StateOf(p)' = "none"
    BY <1>1, <2>1, GotoFacts DEF StateOf
  <2> QED
    BY <1>1, <2>1, <2>2, CycleTransition DEF States
<1> QED
  BY <1>2, <1>3, <1>4
  DEF PipeStep, Silence, TranscribeFails, NothingLeft, ReshapeFails, Pasted, PasteFails

(* The error, its publication and its recovery: one, too, and nobody works *)
(* meanwhile.                                                              *)
LEMMA CycleCoreStep ==
  ASSUME TypeInv, OneCycle, NEW g \in Speakers, PublishStep(g) \/ (g \in Recoveries /\ RecoverStep(g))
  PROVE  OneCycle'
<1> USE NoneAssumption
    DEF TypeInv, CoreTypeOK, OutsideCore, handlerVars, Erring
<1>1. pc' = pc /\ live' = live
  BY DEF PublishStep, RecoverStep
<1>2. \A a \in Callers : (Active(a)' <=> Active(a)) /\ StateOf(a)' = StateOf(a)
  BY <1>1 DEF Active, StateOf
<1>3. CASE PublishStep(g) /\ ~Erring(g)
  <2>1. core' = core /\ recovery' = recovery /\ \A h \in Speakers : Erring(h)' => Erring(h)
    BY <1>3 DEF PublishStep, Publish, Schedule, States
  <2> QED
    BY <1>1, <1>2, <2>1 DEF OneCycle
<1>4. CASE PublishStep(g) /\ Erring(g)
  <2>1. \A h \in Speakers : ~Erring(h)'
    BY <1>4 DEF PublishStep, Publish, OneCycle, States
  <2>2. \A r \in Recoveries : recovery[r] = "free"
    BY <1>4 DEF OneCycle
  <2>3. PICK r \in Recoveries : recovery' = [recovery EXCEPT ![r] = "armed"]
    BY <1>4 DEF PublishStep, Publish, Schedule
  <2>4. core' = "error" /\ core = "error"
    BY <1>4 DEF PublishStep, Publish, OneCycle
  <2> QED
    BY <1>1, <1>2, <2>1, <2>2, <2>3, <2>4 DEF OneCycle
<1>5. CASE g \in Recoveries /\ RecoverStep(g)
  <2>1. core = "error" /\ \A r \in Recoveries : r # g => recovery[r] = "free"
    BY <1>5 DEF RecoverStep, Recover, RecoveryChecks, RecoveryActs, OneCycle
  <2>2. \A h \in Speakers : ~Erring(h)
    BY <1>5 DEF RecoverStep, Recover, RecoveryChecks, RecoveryActs, OneCycle
  <2>3. \A a \in Callers : ~Active(a)
    BY <2>1, CycleActive
  <2>4. \A k \in Keys : ~live[k]
    BY <2>1 DEF OneCycle
  <2>5. (core' = "error" \/ recovery'[g] = "free") /\ \A r \in Recoveries : r # g => recovery'[r] = "free"
    BY <1>5, <2>1 DEF RecoverStep, Recover, RecoveryChecks, RecoveryActs
  <2>6. \A h \in Speakers : ~Erring(h)'
    BY <1>5, <2>2 DEF RecoverStep, Recover, RecoveryChecks, RecoveryActs, States
  <2> QED
    BY <1>1, <1>2, <1>5, <2>3, <2>4, <2>5, <2>6 DEF OneCycle
<1> QED
  BY <1>3, <1>4, <1>5

(* With one hold hotkey there is one cycle at a time: a claim, a capture,  *)
(* a pipeline, or an error and its recovery.                               *)
LEMMA CycleInvariant ==
  ASSUME OneHoldKey PROVE Spec => []OneCycle
<1>1. Init => OneCycle
  BY CallersAssumption, NoneAssumption
  DEF Init, CoreInit, OneCycle, Active, StateOf, Erring, States
<1>2. TypeInv /\ StopInv /\ OneCycle /\ [Next]_vars => OneCycle'
  <2> SUFFICES ASSUME TypeInv, StopInv, OneCycle, [Next]_vars PROVE OneCycle'
    OBVIOUS
  <2>1. CASE UNCHANGED vars
    BY <2>1 DEF vars, coreVars, handlerVars, OneCycle, Active, StateOf, Erring
  <2>2. ASSUME NEW k \in Keys, PressStep(k) \/ KeyStep(k) PROVE OneCycle'
    BY <2>2, CycleKeyStep
  <2>3. ASSUME NEW c \in Caps, CapStep(c) PROVE OneCycle'
    BY <2>3 DEF OneHoldKey, TypeInv, ActorTypes, KeysKnown, CapStep, CapFires, Swap, StopSwap, StartPipe, At
  <2>4. ASSUME NEW s \in Probes, ProbeStep(s) PROVE OneCycle'
    BY <2>4, CycleProbeStep
  <2>5. ASSUME NEW p \in Pipes, PipeStep(p) PROVE OneCycle'
    BY <2>5, CyclePipeStep
  <2>6. ASSUME NEW g \in Speakers, PublishStep(g) \/ (g \in Recoveries /\ RecoverStep(g))
        PROVE  OneCycle'
    BY <2>6, CycleCoreStep
  <2> QED
    BY <2>1, <2>2, <2>3, <2>4, <2>5, <2>6 DEF Next, Speakers
<1> QED
  BY <1>1, <1>2, TypeInvariant, StopInvariant, PTL DEF Spec

(* With one hold hotkey, an idle daemon records and processes nothing.     *)
THEOREM IdleMeansQuiet ==
  ASSUME OneHoldKey PROVE Spec => []IdleIsQuiet
<1>1. TypeInv /\ StopInv /\ HoldInv /\ OneCycle => IdleIsQuiet
  <2> SUFFICES ASSUME TypeInv, StopInv, HoldInv, OneCycle, core = "idle"
               PROVE  /\ capture = None
                      /\ ~Working({"take", "begin", "transcribe", "reshape", "record", "paste", "ok",
                                   "failed"})
    BY DEF IdleIsQuiet
  <2>1. \A a \in Callers : Active(a) => pc[a] = "claim"
    BY DEF OneCycle, StateOf
  <2>2. capture = None
    <3>1. \A a \in Callers : ~Stopper(a)
      BY <2>1 DEF Stopper, Active, StateOf
    <3>2. \A k \in Keys : ~live[k]
      BY DEF OneCycle
    <3> QED
      BY <3>1, <3>2 DEF HoldInv, CaptureIsCovered, TypeInv, DataTypes, OneHoldKey, Keys
  <2>3. \A p \in Pipes : pc[p] \notin {"take", "begin", "transcribe", "reshape", "record", "paste",
                                       "ok", "failed"}
    BY <2>1, CallersAssumption DEF Active, StateOf
  <2> QED
    BY <2>2, <2>3 DEF Working
<1> QED
  BY <1>1, TypeInvariant, StopInvariant, HoldInvariant, CycleInvariant, PTL
=============================================================================

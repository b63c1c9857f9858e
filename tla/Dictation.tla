----------------------------- MODULE Dictation ------------------------------
(***************************************************************************)
(* A dictation cycle, from the key press to the injected text: the hotkey  *)
(* dispatchers (internal/hotkey/manager.go), the handlers the daemon gives *)
(* them (internal/daemon/daemon.go), the capturer's lock-protected state   *)
(* (internal/audio/capture.go), the selection probe, and Pipeline.Run      *)
(* (internal/daemon/pipeline.go), composed with DaemonCore.                *)
(*                                                                         *)
(* The actors are the goroutines: one dispatcher per hotkey, the callbacks *)
(* of the toggle cap timers, the selection probes and the pipeline runs.   *)
(* A step is what a goroutine does between two accesses to state that      *)
(* another goroutine reads or writes.                                      *)
(***************************************************************************)
EXTENDS DaemonCore

CONSTANTS
  HoldKeys,     \* hotkeys in hold mode
  ToggleKeys,   \* hotkeys in toggle mode
  ComposeKeys,  \* the hotkeys whose compose stage is enabled
  Caps,         \* toggle cap timers (toggle_max_seconds) and their callbacks
  Probes,       \* selection probe goroutines, each with its result channel
  Pipes         \* Pipeline.Run goroutines

Keys == HoldKeys \cup ToggleKeys

ASSUME KeysAssumption ==
  /\ HoldKeys \cap ToggleKeys = {}
  /\ ComposeKeys \subseteq Keys
  /\ None \notin Keys \cup Caps \cup Probes \cup Pipes
ASSUME CallersAssumption == Callers = Keys \cup Caps \cup Probes \cup Pipes
ASSUME GoroutinesAssumption ==
  /\ Keys \cap Caps = {} /\ Keys \cap Probes = {} /\ Keys \cap Pipes = {}
  /\ Caps \cap Probes = {} /\ Caps \cap Pipes = {} /\ Probes \cap Pipes = {}
  /\ Callers \cap Recoveries = {}

VARIABLES
  pc,         \* where each goroutine is; "free": a goroutine not started
  key,        \* key[a]: the hotkey a cap, probe or pipeline belongs to
  pressed,    \* runToggle's `recording` flag
  stopTimer,  \* runToggle's `stopTimer`
  live,       \* captureLive, one flag per hotkey
  selCh,      \* selCh, one pointer per hotkey: the probe that will answer
  capture,    \* Capturer.active, and the hotkey whose press started it
  found,      \* what a probe puts on its channel
  chan,       \* the channel a pipeline was started with
  audio,      \* the hotkey whose recording a pipeline took
  injection   \* last_injection of state.json: none, attempt, ok or failed

dispatchVars == <<pressed, stopTimer>>
handlerVars  == <<live, selCh, capture, found>>
pipeVars     == <<chan, audio, injection>>
vars == <<coreVars, pc, key, dispatchVars, handlerVars, pipeVars>>

KeyOf(a) == IF a \in Keys THEN a ELSE key[a]

(* a is at `from` and has published its last transition.                   *)
At(a, from) == pc[a] = from /\ Quiet(a)

(* a moves on; a goroutine that ends belongs to no hotkey any more.        *)
Goto(a, to) ==
  /\ pc'  = [pc EXCEPT ![a] = to]
  /\ key' = IF to \in {"free", "sent"} THEN [key EXCEPT ![a] = None] ELSE key

(* Actor a moves on and starts actor b, at `start`, for the same hotkey.   *)
Start(a, to, b, start) ==
  /\ At(b, "free")
  /\ pc'  = [pc EXCEPT ![a] = to, ![b] = start]
  /\ key' = [x \in DOMAIN key |-> IF x = b THEN KeyOf(a)
                                  ELSE IF x = a /\ to = "free" THEN None ELSE key[x]]
-----------------------------------------------------------------------------
Init ==
  /\ CoreInit
  /\ pc        = [a \in Callers |-> IF a \in Keys THEN "ready" ELSE "free"]
  /\ key       = [a \in Caps \cup Probes \cup Pipes |-> None]
  /\ pressed   = [k \in ToggleKeys |-> FALSE]
  /\ stopTimer = [k \in ToggleKeys |-> None]
  /\ live      = [k \in Keys |-> FALSE]
  /\ selCh     = [k \in Keys |-> None]
  /\ capture   = None
  /\ found     = [s \in Probes |-> "none"]
  /\ chan      = [p \in Pipes |-> None]
  /\ audio     = [p \in Pipes |-> None]
  /\ injection = "none"
-----------------------------------------------------------------------------
(* The dispatchers.                                                        *)

(* runHold receives the key-down event.                                    *)
HoldDown(k) ==
  /\ k \in HoldKeys /\ At(k, "ready")
  /\ Goto(k, "trigger")
  /\ UNCHANGED <<coreVars, dispatchVars, handlerVars, pipeVars>>

(* runToggle receives an odd press: recording.Store(true), then OnTrigger. *)
ToggleOn(k) ==
  /\ k \in ToggleKeys /\ At(k, "ready")
  /\ ~pressed[k]
  /\ pressed' = [pressed EXCEPT ![k] = TRUE]
  /\ Goto(k, "trigger")
  /\ UNCHANGED <<coreVars, stopTimer, handlerVars, pipeVars>>

(* runToggle receives an even press: Stop keeps a timer that has not fired *)
(* from ever running, and does nothing to one that has.                    *)
ToggleOff(k) ==
  /\ k \in ToggleKeys /\ At(k, "ready")
  /\ pressed[k]
  /\ stopTimer' = [stopTimer EXCEPT ![k] = None]
  /\ pc' = [a \in Callers |-> IF a = k THEN "swap"
                              ELSE IF a = stopTimer[k] /\ pc[a] = "armed" THEN "free"
                              ELSE pc[a]]
  /\ key' = [x \in DOMAIN key |-> IF x = stopTimer[k] /\ pc[x] = "armed" THEN None ELSE key[x]]
  /\ UNCHANGED <<coreVars, pressed, handlerVars, pipeVars>>

(* After OnTrigger a hold key waits for its release; a toggle key arms the *)
(* cap.                                                                    *)
AfterTrigger(k) == IF k \in HoldKeys THEN "held" ELSE "arm"

ArmCap(k) ==
  /\ At(k, "arm")
  /\ \E c \in Caps :
       /\ Start(k, "drain", c, "armed")
       /\ stopTimer' = [stopTimer EXCEPT ![k] = c]
  /\ UNCHANGED <<coreVars, pressed, handlerVars, pipeVars>>

(* The cap expires: the runtime starts the callback.                       *)
CapFires(c) ==
  /\ At(c, "armed")
  /\ Goto(c, "swap")
  /\ UNCHANGED <<coreVars, dispatchVars, handlerVars, pipeVars>>

(* Key-up: OnStop in hold mode; in toggle mode it (or 5 s) ends the drain. *)
KeyUp(k) ==
  /\ \/ At(k, "held")  /\ Goto(k, "stop")
     \/ At(k, "drain") /\ Goto(k, "ready")
  /\ UNCHANGED <<coreVars, dispatchVars, handlerVars, pipeVars>>

(* recording.CompareAndSwap(true, false): of an even press and the cap,    *)
(* the one that flips the flag calls OnStop.                               *)
Finished(a) == IF a \in HoldKeys THEN "ready" ELSE IF a \in ToggleKeys THEN "drain" ELSE "free"

Swap(a) ==
  /\ a \in ToggleKeys \cup Caps /\ At(a, "swap")
  /\ pressed' = [pressed EXCEPT ![KeyOf(a)] = FALSE]
  /\ Goto(a, IF pressed[KeyOf(a)] THEN "stop" ELSE Finished(a))
  /\ UNCHANGED <<coreVars, stopTimer, handlerVars, pipeVars>>
-----------------------------------------------------------------------------
(* OnTrigger.                                                              *)

(* captureLive.Store(false); selCh.Store(nil).                             *)
Trigger(k) ==
  /\ At(k, "trigger")
  /\ live'  = [live EXCEPT ![k] = FALSE]
  /\ selCh' = [selCh EXCEPT ![k] = None]
  /\ Goto(k, "check")
  /\ UNCHANGED <<coreVars, dispatchVars, capture, found, pipeVars>>

(* TryStartRecording tests the state and unlocks ...                       *)
MayStart_AlsoInError == core \in {"idle", "error"}
MayStart == core = "idle"

TryCheck(k) ==
  /\ At(k, "check")
  /\ Goto(k, IF MayStart THEN "claim" ELSE AfterTrigger(k))
  /\ UNCHANGED <<coreVars, dispatchVars, handlerVars, pipeVars>>

(* ... then calls Transition, and returns true whatever that did.          *)
TryClaim(k) ==
  /\ At(k, "claim")
  /\ Transition(k, "recording")
  /\ Goto(k, "start")
  /\ UNCHANGED <<dispatchVars, handlerVars, pipeVars>>

(* capturer.Start: an active capture, or no device that opens, is an error.*)
StartFails(k) ==
  /\ At(k, "start")
  /\ Transition(k, "error")
  /\ Goto(k, AfterTrigger(k))
  /\ UNCHANGED <<dispatchVars, handlerVars, pipeVars>>

StartCapture(k) ==
  /\ At(k, "start")
  /\ capture = None
  /\ capture' = k
  /\ Goto(k, "live")
  /\ UNCHANGED <<coreVars, dispatchVars, live, selCh, found, pipeVars>>

(* captureLive.Store(true).                                                *)
GoLive(k) ==
  /\ At(k, "live")
  /\ live' = [live EXCEPT ![k] = TRUE]
  /\ Goto(k, IF k \in ComposeKeys THEN "probe" ELSE AfterTrigger(k))
  /\ UNCHANGED <<coreVars, dispatchVars, selCh, capture, found, pipeVars>>

(* A probe whose channel nobody holds any more is as good as free.         *)
Reusable(s) ==
  /\ pc[s] \in {"free", "sent"} /\ Quiet(s)
  /\ \A k \in Keys  : selCh[k] # s
  /\ \A p \in Pipes : chan[p] # s

(* A channel for the result, and the goroutine that will fill it.          *)
StartProbe(k) ==
  /\ At(k, "probe")
  /\ \E s \in Probes :
       /\ Reusable(s)
       /\ pc'    = [pc EXCEPT ![k] = AfterTrigger(k), ![s] = "read"]
       /\ key'   = [key EXCEPT ![s] = k]
       /\ selCh' = [selCh EXCEPT ![k] = s]
  /\ UNCHANGED <<coreVars, dispatchVars, live, capture, found, pipeVars>>
-----------------------------------------------------------------------------
(* The selection probe.                                                    *)

(* GetSelection returns a text, nothing, or a copy-synthesis error.        *)
ProbeReads(s) ==
  /\ At(s, "read")
  /\ \E r \in {"text", "nothing", "err"} :
       /\ found' = [found EXCEPT ![s] = r]
       /\ Goto(s, IF r = "err" THEN "abort" ELSE "send")
  /\ UNCHANGED <<coreVars, dispatchVars, live, selCh, capture, pipeVars>>

(* captureLive.Swap(false): its new value, and who wins the capture.       *)
LiveAfterSwap_OnlyRead(k) == live
LiveAfterSwap(k) == [live EXCEPT ![k] = FALSE]
WinsSwap_Always(k) == TRUE
WinsSwap(k) == live[k]

(* The probe that wins the swap owns the capture ...                       *)
ProbeAborts(s) ==
  /\ At(s, "abort")
  /\ live' = LiveAfterSwap(key[s])
  /\ Goto(s, IF WinsSwap(key[s]) THEN "halt" ELSE "send")
  /\ UNCHANGED <<coreVars, dispatchVars, selCh, capture, found, pipeVars>>

(* ... stops it, the samples and any error dropped ...                     *)
CaptureAfterHalt == None

ProbeHalts(s) ==
  /\ At(s, "halt")
  /\ capture' = CaptureAfterHalt
  /\ Goto(s, "fail")
  /\ UNCHANGED <<coreVars, dispatchVars, live, selCh, found, pipeVars>>

(* ... and reports the error.                                              *)
ProbeFails(s) ==
  /\ At(s, "fail")
  /\ Transition(s, "error")
  /\ Goto(s, "send")
  /\ UNCHANGED <<dispatchVars, handlerVars, pipeVars>>

(* ch <- res never blocks: the channel has room for one.                   *)
ProbeSends(s) ==
  /\ At(s, "send")
  /\ Goto(s, "sent")
  /\ UNCHANGED <<coreVars, dispatchVars, handlerVars, pipeVars>>
-----------------------------------------------------------------------------
(* OnStop, called by a dispatcher or by a cap's callback.                  *)

(* captureLive.Swap(false).                                                *)
StopSwap(a) ==
  /\ a \in Keys \cup Caps /\ At(a, "stop")
  /\ live' = LiveAfterSwap(KeyOf(a))
  /\ Goto(a, IF WinsSwap(KeyOf(a)) THEN "spawn" ELSE Finished(a))
  /\ UNCHANGED <<coreVars, dispatchVars, selCh, capture, found, pipeVars>>

(* Load selCh and start the pipeline.                                      *)
ChannelOf_Dropped(k) == None
ChannelOf(k) == selCh[k]

StartPipe(a) ==
  /\ a \in Keys \cup Caps /\ At(a, "spawn")
  /\ \E p \in Pipes :
       /\ Start(a, Finished(a), p, "take")
       /\ chan' = [chan EXCEPT ![p] = ChannelOf(KeyOf(a))]
  /\ UNCHANGED <<coreVars, dispatchVars, handlerVars, audio, injection>>
-----------------------------------------------------------------------------
(* Pipeline.Run.                                                           *)

(* Every return: the goroutine ends after its last transition.             *)
Return(p, state) ==
  /\ Transition(p, state)
  /\ Goto(p, "free")
  /\ chan'  = [chan EXCEPT ![p] = None]
  /\ audio' = [audio EXCEPT ![p] = None]
  /\ UNCHANGED <<dispatchVars, handlerVars, injection>>

(* Capturer.Stop takes the samples, whoever recorded them, or returns an   *)
(* error when no capture is active.                                        *)
Take(p) ==
  /\ At(p, "take")
  /\ IF capture = None
       THEN Return(p, "error")
       ELSE /\ audio'   = [audio EXCEPT ![p] = capture]
            /\ capture' = None
            /\ Goto(p, "begin")
            /\ UNCHANGED <<coreVars, dispatchVars, live, selCh, found, chan, injection>>

Advance(p, from, state, to) ==
  /\ At(p, from)
  /\ Transition(p, state)
  /\ Goto(p, to)
  /\ UNCHANGED <<dispatchVars, handlerVars, pipeVars>>

Begin(p) == Advance(p, "begin", "transcribing", "transcribe")

(* Speech to text yields words, silence (no LLM stage runs) or an error.   *)
Heard(p)           == Advance(p, "transcribe", "processing", "reshape")
Silence(p)         == At(p, "transcribe") /\ Return(p, "idle")
TranscribeFails(p) == At(p, "transcribe") /\ Return(p, "error")

(* A compose hotkey waits for its probe's answer; an error ends the run.   *)
Answered(p) == chan[p] # None => pc[chan[p]] = "sent" /\ found[chan[p]] # "err"

(* The enhance, compose or transform stage and then translate give a text, *)
(* an empty text or an error.  The 90 s deadline may pass in any of them,  *)
(* and while waiting for the probe.                                        *)
Reshaped(p)     == At(p, "reshape") /\ Answered(p) /\ Advance(p, "reshape", "injecting", "record")
NothingLeft(p)  == At(p, "reshape") /\ Answered(p) /\ Return(p, "idle")
ReshapeFails(p) == At(p, "reshape") /\ Return(p, "error")

(* RecordInjection(final, false, "") before the paste ...                  *)
RecordAttempt(p) ==
  /\ At(p, "record")
  /\ injection' = "attempt"
  /\ Goto(p, "paste")
  /\ UNCHANGED <<coreVars, dispatchVars, handlerVars, chan, audio>>

(* ... and again, with the outcome, after it.                              *)
Recorded_IfPasted(outcome) == IF outcome = "ok" THEN "ok" ELSE injection
Recorded(outcome) == outcome

Paste(p) ==
  /\ At(p, "paste")
  /\ \E outcome \in {"ok", "failed"} :
       /\ injection' = Recorded(outcome)
       /\ Goto(p, outcome)
  /\ UNCHANGED <<coreVars, dispatchVars, handlerVars, chan, audio>>

Pasted(p)     == At(p, "ok")     /\ Return(p, "idle")
PasteFails(p) == At(p, "failed") /\ Return(p, "error")
-----------------------------------------------------------------------------
PressStep(k) == HoldDown(k) \/ ToggleOn(k) \/ ToggleOff(k)

KeyStep(k) ==
  \/ ArmCap(k) \/ KeyUp(k) \/ Swap(k)
  \/ Trigger(k) \/ TryCheck(k) \/ TryClaim(k)
  \/ StartFails(k) \/ StartCapture(k) \/ GoLive(k) \/ StartProbe(k)
  \/ StopSwap(k) \/ StartPipe(k)

CapStep(c) == CapFires(c) \/ Swap(c) \/ StopSwap(c) \/ StartPipe(c)

ProbeStep(s) ==
  ProbeReads(s) \/ ProbeAborts(s) \/ ProbeHalts(s) \/ ProbeFails(s) \/ ProbeSends(s)

PipeStep(p) ==
  \/ Take(p) \/ Begin(p)
  \/ Heard(p) \/ Silence(p) \/ TranscribeFails(p)
  \/ Reshaped(p) \/ NothingLeft(p) \/ ReshapeFails(p)
  \/ RecordAttempt(p) \/ Paste(p) \/ Pasted(p) \/ PasteFails(p)

OutsideCore == <<pc, key, dispatchVars, handlerVars, pipeVars>>
PublishStep(g) == Publish(g) /\ UNCHANGED OutsideCore
RecoverStep(r) == Recover(r) /\ UNCHANGED OutsideCore

Next ==
  \/ \E k \in Keys : PressStep(k) \/ KeyStep(k)
  \/ \E c \in Caps : CapStep(c)
  \/ \E s \in Probes : ProbeStep(s)
  \/ \E p \in Pipes : PipeStep(p)
  \/ \E g \in Speakers : PublishStep(g)
  \/ \E r \in Recoveries : RecoverStep(r)

Spec == Init /\ [][Next]_vars

(* Every goroutine that can run does, the cap and the recovery delay run   *)
(* out, and a key that is down comes up.  Nobody has to press a key.  In   *)
(* the code no step waits for a free goroutine or timer, as starting one   *)
(* does here: fairness is strong where the bounded pools make steps wait.  *)
Fairness ==
  /\ \A k \in Keys : SF_vars(KeyStep(k))
  /\ \A c \in Caps : SF_vars(CapStep(c))
  /\ \A s \in Probes : WF_vars(ProbeStep(s))
  /\ \A p \in Pipes : WF_vars(PipeStep(p))
  /\ \A g \in Speakers : SF_vars(PublishStep(g))
  /\ \A r \in Recoveries : WF_vars(RecoverStep(r))

FairSpec == Spec /\ Fairness

(* A user who presses whenever the dispatcher listens.                     *)
EagerSpec == FairSpec /\ \A k \in Keys : WF_vars(PressStep(k))
-----------------------------------------------------------------------------
PcOf(a) ==
  IF a \in Keys THEN
    {"ready", "trigger", "check", "claim", "start", "live", "probe",
     "held", "arm", "drain", "swap", "stop", "spawn"}
  ELSE IF a \in Caps   THEN {"free", "armed", "swap", "stop", "spawn"}
  ELSE IF a \in Probes THEN {"free", "read", "abort", "halt", "fail", "send", "sent"}
  ELSE {"free", "take", "begin", "transcribe", "reshape", "record", "paste", "ok", "failed"}

TypeOK ==
  /\ CoreTypeOK
  /\ DOMAIN pc = Callers /\ \A a \in Callers : pc[a] \in PcOf(a)
  /\ key       \in [Caps \cup Probes \cup Pipes -> Keys \cup {None}]
  /\ pressed   \in [ToggleKeys -> BOOLEAN]
  /\ stopTimer \in [ToggleKeys -> Caps \cup {None}]
  /\ live      \in [Keys -> BOOLEAN]
  /\ selCh     \in [Keys -> Probes \cup {None}]
  /\ capture   \in Keys \cup {None}
  /\ found     \in [Probes -> {"none", "text", "nothing", "err"}]
  /\ chan      \in [Pipes -> Probes \cup {None}]
  /\ audio     \in [Pipes -> Keys \cup {None}]
  /\ injection \in {"none", "attempt", "ok", "failed"}

(* A pipeline that is about to take the samples finds its own hotkey's     *)
(* capture active: of release, cap, probe error and other hotkeys, exactly *)
(* one stops a capture, and nobody else's.                                 *)
PipelineTakesOwnAudio ==
  \A p \in Pipes :
    /\ pc[p] = "take" => capture = key[p]
    /\ pc[p] \in {"begin", "transcribe"} => audio[p] = key[p]

(* Who will stop the capture that hotkey k started.                        *)
Stoppers(k) ==
  {a \in Callers : KeyOf(a) = k /\ pc[a] \in {"live", "spawn", "halt", "take"}}

(* An active capture has one goroutine that will stop it, or is live and   *)
(* waits for its release or cap; never both, never neither.                *)
CaptureHasOneStopper ==
  capture # None =>
    IF live[capture] THEN Stoppers(capture) = {}
                     ELSE \E a \in Callers : Stoppers(capture) = {a}

(* Release, cap and probe error never both set out to stop a capture.      *)
NoRivalStoppers == capture # None => \A a, b \in Stoppers(capture) : a = b

(* A compose pipeline always has the channel of its cycle's probe: without *)
(* it the dictated instruction would be taken for a text to compose, and   *)
(* typed over the selection it was meant to change.                        *)
ComposeHasItsProbe ==
  \A p \in Pipes : pc[p] = "take" /\ key[p] \in ComposeKeys => chan[p] # None

(* The press of hotkey k is still to be released, and will stop the        *)
(* capture.                                                                *)
AwaitsRelease(k) == live[k] /\ pc[k] \in {"probe", "held", "stop"}

(* A state that is not idle has its cause: the goroutine whose work it     *)
(* stands for, a note or a recovery that ends an error, or a capture.  A   *)
(* hold hotkey's capture has somebody who will stop it, so the daemon is   *)
(* never left recording.  Of a toggle hotkey's this cannot be said: a      *)
(* press between its cap's compare-and-swap and its OnStop leaves it to    *)
(* nobody (see CaptureEnds).                                               *)
Working(states) == \E p \in Pipes : pc[p] \in states
BusyIsAccountedFor ==
  CASE core = "idle"         -> TRUE
    [] core = "recording"    -> \/ /\ capture # None
                                   /\ capture \in HoldKeys =>
                                        AwaitsRelease(capture) \/ Stoppers(capture) # {}
                                \/ \E k \in Keys : pc[k] = "start"
                                \/ \E s \in Probes : pc[s] = "fail"
                                \/ Working({"begin"})
    [] core = "transcribing" -> Working({"transcribe"})
    [] core = "processing"   -> Working({"reshape"})
    [] core = "injecting"    -> Working({"record", "paste", "ok", "failed"})
    [] core = "error"        -> \/ \E g \in Speakers : note[g] = "error"
                                \/ \E r \in Recoveries : recovery[r] # "free"

(* With one hotkey: when the daemon says idle, nothing is being recorded   *)
(* or processed, so the next cycle starts on a clean slate.                *)
IdleIsQuiet ==
  core = "idle" =>
    /\ capture = None
    /\ ~Working({"take", "begin", "transcribe", "reshape", "record", "paste", "ok", "failed"})

(* The outcome of a paste replaces the record of its attempt.              *)
AttemptIsSettled == injection = "attempt" => Working({"paste"})

(* The daemon always returns to idle.                                      *)
ReturnsToIdle == core # "idle" ~> core = "idle"

(* A capture always ends.                                                  *)
CaptureEnds == capture # None ~> capture = None

(* What the comment on TryStartRecording says: true only for a transition  *)
(* from idle.                                                              *)
TryStartMeansIdle ==
  [][\A k \in Keys : pc[k] = "claim" /\ pc'[k] = "start" => core = "idle"]_vars

(* "Mirror every transition into state.json": with no transition being     *)
(* published, the file has the state.                                      *)
MirrorIsCurrent == (\A g \in Speakers : Quiet(g)) => mirror = core
=============================================================================

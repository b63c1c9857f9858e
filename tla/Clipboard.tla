----------------------------- MODULE Clipboard ------------------------------
(***************************************************************************)
(* How the daemon borrows the clipboard: injectPaste (internal/inject/     *)
(* paste.go) and captureSelection (internal/inject/selection.go), among a  *)
(* user who copies and an application that handles the synthesized keys    *)
(* from its event queue, in its own time.                                  *)
(*                                                                         *)
(* A step is one access to the clipboard or to the queue.  The texts are   *)
(* abstract: what the user copied last, the sentinel, the selection, the   *)
(* text a paste was called with.                                           *)
(***************************************************************************)
EXTENDS Naturals, Sequences, FiniteSets

CONSTANTS
  Pastes,      \* calls of injectPaste
  Probes,      \* calls of captureSelection
  MaxRunning,  \* how many of them run at a time
  MaxCopies,   \* bound: copies the user makes
  Slow         \* may the application handle a key after the daemon's wait, or
               \* after the next call has begun?

Calls == Pastes \cup Probes

ASSUME ClipboardAssumption ==
  /\ Pastes \cap Probes = {}
  /\ MaxRunning \in Nat \ {0} /\ MaxCopies \in Nat
  /\ Slow \in BOOLEAN

UserText(n)  == <<"text", n>>
UserImage(n) == <<"image", n>>
Generated(p) == <<"generated", p>>
Sentinel     == <<"sentinel", 0>>
Selection    == <<"selection", 0>>
Empty        == <<"empty", 0>>
None         == <<"none", 0>>       \* nil: nothing read, no answer yet

VARIABLES
  clip,       \* the clipboard
  pc,         \* where each call is
  saved,      \* prev of a paste; prevText or prevImage of a probe
  answer,     \* the SelectionResult of a probe: a text, None or the error
  keys,       \* keystrokes the application has not handled: <<kind, call>>
  inserted,   \* what the application pasted for a paste
  ctxDone,    \* the daemon's context is cancelled: it shuts down
  mine,       \* ghost: what the user copied last
  copies,     \* ghost: how often
  meanwhile   \* ghost: calls during which, or before whose key was handled,
              \* the user copied something

callVars == <<pc, saved, answer>>
appVars  == <<keys, inserted>>
userVars == <<mine, copies, meanwhile>>
vars == <<clip, callVars, appVars, ctxDone, userVars>>

Running == {o \in Calls : pc[o] \notin {"new", "done", "failed", "cancelled"}}

Goto(o, to) == pc' = [pc EXCEPT ![o] = to]
Keep(o, c)  == saved' = [saved EXCEPT ![o] = c]

(* ReadText and ReadImage: nil when the clipboard holds something else.    *)
ReadText  == IF clip[1] \in {"image", "empty"} THEN None ELSE clip
ReadImage == IF clip[1] = "image" THEN clip ELSE None

(* The keystroke of o is still in the application's queue.                 *)
Pending(o) == \E i \in 1 .. Len(keys) : keys[i][2] = o

Init ==
  /\ mine \in {UserText(0), UserImage(0), Empty}
  /\ clip = mine
  /\ pc = [o \in Calls |-> "new"]
  /\ saved = [o \in Calls |-> None]
  /\ answer = [s \in Probes |-> None]
  /\ keys = <<>>
  /\ inserted = [p \in Pastes |-> None]
  /\ ctxDone = FALSE
  /\ copies = 0
  /\ meanwhile = {}
-----------------------------------------------------------------------------
(* synthesizePaste and synthesizeCopy queue a keystroke, or fail.          *)
Synthesize(o, kind, to) ==
  /\ keys' = Append(keys, <<kind, o>>)
  /\ Goto(o, to)
  /\ UNCHANGED <<clip, saved, answer, inserted, ctxDone, userVars>>

MayBegin(o) ==
  /\ pc[o] = "new" /\ ~ctxDone
  /\ Cardinality(Running) < MaxRunning
  /\ Slow \/ keys = <<>>

(* injectPaste.                                                            *)

PasteSaves(p) ==
  /\ MayBegin(p)
  /\ Keep(p, ReadText)
  /\ Goto(p, "write")
  /\ UNCHANGED <<clip, answer, appVars, ctxDone, userVars>>

PasteWrites(p) ==
  /\ pc[p] = "write"
  /\ clip' = Generated(p)
  /\ Goto(p, "synth")
  /\ UNCHANGED <<saved, answer, appVars, ctxDone, userVars>>

PasteSynthesizes(p) == pc[p] = "synth" /\ Synthesize(p, "paste", "wait")

(* The text stays in the clipboard for a manual paste ...                  *)
PasteFails(p) ==
  /\ pc[p] = "synth"
  /\ Goto(p, "failed")
  /\ UNCHANGED <<clip, saved, answer, appVars, ctxDone, userVars>>

(* ... and for a late one when the pipeline's deadline or a shutdown ends  *)
(* the wait.                                                               *)
PasteCancelled(p) ==
  /\ pc[p] = "wait"
  /\ Goto(p, "cancelled")
  /\ UNCHANGED <<clip, saved, answer, appVars, ctxDone, userVars>>

(* restoreDelay is over: the generated text is replaced, but not a text    *)
(* copied since.                                                           *)
Restorable(p) == saved[p] # None /\ ReadText = Generated(p)

DelayOver_AtOnce(p) == TRUE
DelayOver(p) == Slow \/ ~Pending(p)

PasteCompares(p) ==
  /\ pc[p] = "wait"
  /\ DelayOver(p)
  /\ Goto(p, IF Restorable(p) THEN "restore" ELSE "done")
  /\ UNCHANGED <<clip, saved, answer, appVars, ctxDone, userVars>>

PasteRestores(p) ==
  /\ p \in Pastes /\ pc[p] = "restore"
  /\ clip' = saved[p]
  /\ Goto(p, "done")
  /\ UNCHANGED <<saved, answer, appVars, ctxDone, userVars>>
-----------------------------------------------------------------------------
(* captureSelection.                                                       *)

AfterText_NoImage == "mark"
AfterText == IF ReadText = None THEN "image" ELSE "mark"

ProbeSavesText(s) ==
  /\ MayBegin(s)
  /\ Keep(s, ReadText)
  /\ Goto(s, AfterText)
  /\ UNCHANGED <<clip, answer, appVars, ctxDone, userVars>>

ProbeSavesImage(s) ==
  /\ pc[s] = "image"
  /\ Keep(s, ReadImage)
  /\ Goto(s, "mark")
  /\ UNCHANGED <<clip, answer, appVars, ctxDone, userVars>>

ProbeMarks(s) ==
  /\ pc[s] = "mark"
  /\ clip' = Sentinel
  /\ Goto(s, "synth")
  /\ UNCHANGED <<saved, answer, appVars, ctxDone, userVars>>

ProbeSynthesizes(s) == pc[s] = "synth" /\ Synthesize(s, "copy", "poll")

Answer(s, result) ==
  /\ answer' = [answer EXCEPT ![s] = result]
  /\ Goto(s, "restore")
  /\ UNCHANGED <<clip, saved, appVars, ctxDone, userVars>>

ProbeFails(s) == pc[s] = "synth" /\ Answer(s, <<"err", s>>)

(* A poll finds a text that is not the sentinel.                           *)
Landed_Any == ReadText # None
Landed == ReadText \notin {None, Sentinel}

ProbePolls(s) ==
  /\ pc[s] = "poll"
  /\ Landed
  /\ Answer(s, ReadText)

(* The deadline; a shutdown does not wait for the application.             *)
ProbeGivesUp(s) ==
  /\ pc[s] = "poll"
  /\ Slow \/ ctxDone \/ ~Pending(s)
  /\ Answer(s, None)

(* restore(): the text, the image, or an empty text.                       *)
Restored(s) == IF saved[s] = None THEN Empty ELSE saved[s]

ProbeRestores(s) ==
  /\ s \in Probes /\ pc[s] = "restore"
  /\ clip' = Restored(s)
  /\ Goto(s, IF Pending(s) /\ ctxDone THEN "cancelled" ELSE "done")
  /\ UNCHANGED <<saved, answer, appVars, ctxDone, userVars>>
-----------------------------------------------------------------------------
(* The application handles its next key: it pastes the clipboard, copies   *)
(* the selection over it, or has no selection and ignores the copy.        *)
AppPastes ==
  /\ keys # <<>> /\ Head(keys)[1] = "paste"
  /\ inserted' = [inserted EXCEPT ![Head(keys)[2]] = clip]
  /\ keys' = Tail(keys)
  /\ UNCHANGED <<clip, callVars, ctxDone, userVars>>

AppCopies ==
  /\ keys # <<>> /\ Head(keys)[1] = "copy"
  /\ clip' \in {clip, Selection}
  /\ keys' = Tail(keys)
  /\ UNCHANGED <<callVars, inserted, ctxDone, userVars>>

UserCopies ==
  /\ copies < MaxCopies
  /\ copies' = copies + 1
  /\ mine' \in {UserText(copies'), UserImage(copies')}
  /\ clip' = mine'
  /\ meanwhile' = meanwhile \cup {o \in Calls : o \in Running \/ Pending(o)}
  /\ UNCHANGED <<callVars, appVars, ctxDone>>

Shutdown ==
  /\ ~ctxDone
  /\ ctxDone' = TRUE
  /\ UNCHANGED <<clip, callVars, appVars, userVars>>

PasteStep(p) ==
  \/ PasteSaves(p) \/ PasteWrites(p) \/ PasteSynthesizes(p) \/ PasteFails(p)
  \/ PasteCancelled(p) \/ PasteCompares(p) \/ PasteRestores(p)

ProbeStep(s) ==
  \/ ProbeSavesText(s) \/ ProbeSavesImage(s) \/ ProbeMarks(s)
  \/ ProbeSynthesizes(s) \/ ProbeFails(s) \/ ProbePolls(s)
  \/ ProbeGivesUp(s) \/ ProbeRestores(s)

Next ==
  \/ \E p \in Pastes : PasteStep(p)
  \/ \E s \in Probes : ProbeStep(s)
  \/ AppPastes \/ AppCopies \/ UserCopies \/ Shutdown

Spec == Init /\ [][Next]_vars
-----------------------------------------------------------------------------
Users == {UserText(n) : n \in 0 .. MaxCopies} \cup {UserImage(n) : n \in 0 .. MaxCopies} \cup {Empty}
Contents == Users \cup {Generated(p) : p \in Pastes} \cup {Sentinel, Selection}

TypeOK ==
  /\ clip \in Contents
  /\ pc \in [Calls -> {"new", "image", "mark", "write", "synth", "wait", "poll",
                       "restore", "done", "failed", "cancelled"}]
  /\ saved \in [Calls -> Contents \cup {None}]
  /\ answer \in [Probes -> Contents \cup {None} \cup {<<"err", s>> : s \in Probes}]
  /\ keys \in Seq({"paste", "copy"} \X Calls)
  /\ inserted \in [Pastes -> Contents \cup {None}]
  /\ ctxDone \in BOOLEAN /\ copies \in 0 .. MaxCopies
  /\ mine \in Users /\ meanwhile \subseteq Calls

AtRest == Running = {} /\ keys = <<>>

(* The generated text of p may stay in the clipboard: the paste failed or  *)
(* was cut short, or what was there before it was not a text.              *)
LeftBehind(p) == pc[p] \in {"failed", "cancelled"} \/ saved[p] = None

(* When the daemon has finished, a user who copied nothing during its work *)
(* has back what was copied last, text or image, but for a generated text  *)
(* that was left on purpose, and for a copy keystroke that a shutdown did  *)
(* not wait for.                                                           *)
UserGetsClipboardBack ==
  AtRest /\ meanwhile = {} /\ (\A s \in Probes : pc[s] # "cancelled") =>
    clip \in {mine} \cup {Generated(p) : p \in {q \in Pastes : LeftBehind(q)}}

(* The application pastes the text it was meant to, or a text that the     *)
(* user copied in the meantime; never the contents the daemon put aside,   *)
(* a selection or the sentinel.                                            *)
PasteInsertsText ==
  \A p \in Pastes :
    inserted[p] # None =>
      \/ inserted[p] = Generated(p)
      \/ p \in meanwhile /\ inserted[p] \in Users \ {saved[p]}

(* What a probe reports as the selection is the selection, or what the     *)
(* user copied while it ran; never an older content of the clipboard.      *)
AnswerIsSelection ==
  \A s \in Probes :
    answer[s] \notin {None, <<"err", s>>} =>
      \/ answer[s] = Selection
      \/ s \in meanwhile /\ answer[s] \in Users \ {saved[s]}

(* "Do not overwrite a copy made by the user": a paste never replaces a    *)
(* copy that the user made during it.                                      *)
NewerCopySurvives ==
  [][\A p \in Pastes : pc[p] # "write" /\ PasteStep(p) /\ clip' # clip => clip # mine]_vars
=============================================================================

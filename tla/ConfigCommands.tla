--------------------------- MODULE ConfigCommands ---------------------------
(***************************************************************************)
(* The commands that change config.json, in one or several terminals:      *)
(* gosaid model download (internal/models), gosaid setup (internal/setup), *)
(* gosaid driver (internal/cli/driver.go) and gosaid mic.  Each loads the  *)
(* file, works on its copy while it asks the user or downloads, and        *)
(* replaces the whole file by a rename.  ModelInstall adds the downloads   *)
(* to the commands, and has the specification.                             *)
(***************************************************************************)
EXTENDS ConfigRules

CONSTANTS
  Terminals,     \* where commands run
  MaxCommands    \* bound: commands started, and changes the driver manager saves

VARIABLES
  file,      \* config.json
  disk,      \* model files on the disk
  pc,        \* the step of the command a terminal runs
  cfg,       \* its copy of the config
  dirty,     \* Session.Dirty
  fresh,     \* chooseEntry's fresh
  args,      \* what a download was called with: <<endpoint, model>>
  answers,   \* HotkeyAnswers: combo, the transcription and the chat references
  commands   \* how many of them there were

sessionVars == <<dirty, fresh, answers>>
vars == <<file, disk, pc, cfg, sessionVars, args, commands>>

NoAnswers == [combo |-> {}, stt |-> {}, chat |-> {}]

Init ==
  /\ file = Example
  /\ disk \in SUBSET Models
  /\ pc = [t \in Terminals |-> "shell"]
  /\ cfg = [t \in Terminals |-> Example]
  /\ dirty = [t \in Terminals |-> FALSE]
  /\ fresh = [t \in Terminals |-> FALSE]
  /\ args = [t \in Terminals |-> <<>>]
  /\ answers = [t \in Terminals |-> NoAnswers]
  /\ commands = 0

At(t, step)   == pc[t] = step
Goto(t, step) == pc' = [pc EXCEPT ![t] = step]
Edit(t, c)    == cfg' = [cfg EXCEPT ![t] = c]

(* The copies of a terminal are dropped with its command.                  *)
Exit(t) ==
  /\ Goto(t, "shell")
  /\ Edit(t, Example)
  /\ dirty' = [dirty EXCEPT ![t] = FALSE]
  /\ fresh' = [fresh EXCEPT ![t] = FALSE]
  /\ args' = [args EXCEPT ![t] = <<>>]
  /\ answers' = [answers EXCEPT ![t] = NoAnswers]
  /\ UNCHANGED commands

(* config.Load, and the command's first step.                              *)
Load(t, command) ==
  /\ At(t, "shell") /\ commands < MaxCommands
  /\ commands' = commands + 1
  /\ Edit(t, file)
  /\ Goto(t, command)
  /\ UNCHANGED <<file, disk, sessionVars, args>>
-----------------------------------------------------------------------------
(* gosaid model download: refused for an id of another driver, and, but    *)
(* for --force, for a name or a file that exists.                          *)
DownloadChecks(t, id, model, force) ==
  LET e == <<DriverOf(model), id>>
  IN  /\ At(t, "download")
      /\ ~OtherDriver(cfg[t], e)
      /\ force \/ (e \in Endpoints(cfg[t]) => model \notin cfg[t].endpoints[e])
      /\ force \/ model \notin disk
      /\ args' = [args EXCEPT ![t] = <<e, model>>]
      /\ Goto(t, "fetch")
      /\ UNCHANGED <<file, disk, cfg, sessionVars, commands>>

DownloadFetched(t) ==
  /\ At(t, "fetch")
  /\ disk' = disk \cup {args[t][2]}
  /\ Goto(t, "register")
  /\ UNCHANGED <<file, cfg, sessionVars, args, commands>>

AfterFailure_Ignored(t) ==
  /\ Goto(t, "register")
  /\ UNCHANGED <<cfg, sessionVars, args, commands>>
AfterFailure(t) == Exit(t)

DownloadFails(t) ==
  /\ At(t, "fetch")
  /\ AfterFailure(t)
  /\ UNCHANGED <<file, disk>>

DownloadRegisters(t) ==
  /\ At(t, "register")
  /\ file' = RegisterFor(cfg[t], args[t][1], args[t][2])
  /\ Exit(t)
  /\ UNCHANGED disk

(* gosaid mic saves without validation.                                    *)
MicSaves(t, mic) ==
  /\ At(t, "mic_only") /\ mic # cfg[t].mic
  /\ file' = [cfg[t] EXCEPT !.mic = mic]
  /\ Exit(t)
  /\ UNCHANGED disk
-----------------------------------------------------------------------------
(* gosaid driver: saveDriverConfig after every change, until the user is   *)
(* done; a topology error ends the command.                                *)
SaveDriverConfig(t, new) ==
  /\ UNCHANGED disk
  /\ commands < MaxCommands
  /\ IF Topology(new)
       THEN /\ file' = new
            /\ Edit(t, new)
            /\ commands' = commands + 1
            /\ UNCHANGED <<pc, sessionVars, args>>
       ELSE Exit(t) /\ UNCHANGED file

(* Added or configured once its models have answered a live request.       *)
Answering(roles) == roles \cup {"key"}

IdTaken(c, id) == \E e \in Endpoints(c) : e[2] = id

DriverAdds(t, id, roles) ==
  /\ At(t, "driver")
  /\ ~IdTaken(cfg[t], id)
  /\ SaveDriverConfig(t,
       [cfg[t] EXCEPT !.endpoints = With(@, <<Hosted, id>>, Answering(roles))])

DriverConfigures(t, id, roles) ==
  /\ At(t, "driver")
  /\ <<Hosted, id>> \in Endpoints(cfg[t])
  /\ SaveDriverConfig(t,
       [cfg[t] EXCEPT !.endpoints[<<Hosted, id>>] = Answering(roles)])

DriverDeletes(t, e) ==
  /\ At(t, "driver")
  /\ e \in Endpoints(cfg[t])
  /\ SaveDriverConfig(t,
       [cfg[t] EXCEPT !.endpoints = Restrict(@, Endpoints(cfg[t]) \ {e})])
-----------------------------------------------------------------------------
(* gosaid setup.  chooseEntry: start from scratch, because nothing is      *)
(* configured or the user says so ...                                      *)
SetupResets(t) ==
  /\ At(t, "setup")
  /\ Edit(t, ResetConfig(cfg[t]))
  /\ dirty' = [dirty EXCEPT ![t] = TRUE]
  /\ fresh' = [fresh EXCEPT ![t] = TRUE]
  /\ Goto(t, "microphone")
  /\ UNCHANGED <<file, disk, args, answers, commands>>

(* ... or add a hotkey, or edit one: its combo is fixed and its references *)
(* are the wizard's defaults.                                              *)
SetupKeeps(t) ==
  /\ At(t, "setup") /\ ~IsUnconfigured(cfg[t], disk)
  /\ answers' \in
       {[answers EXCEPT ![t] = NoAnswers]} \cup
       {[answers EXCEPT ![t] = [combo |-> {c}, stt |-> {cfg[t].hotkeys[c].stt},
                                chat |-> cfg[t].hotkeys[c].chat]] : c \in Hotkeys(cfg[t])}
  /\ Goto(t, "stt")
  /\ UNCHANGED <<file, disk, cfg, dirty, fresh, args, commands>>

AskGlobalMicrophone(t, mic) ==
  /\ At(t, "microphone")
  /\ Edit(t, [cfg[t] EXCEPT !.mic = mic])
  /\ Goto(t, "stt")
  /\ UNCHANGED <<file, disk, sessionVars, args, commands>>

AfterRole(role) == IF role = "stt" THEN "combo" ELSE "upsert"

(* installWhisperModel and installChatModel: an available model ...        *)
SetupSelects(t, role) ==
  /\ At(t, role)
  /\ \E ref \in Selectable(cfg[t], disk, role, answers[t][role]) :
       answers' = [answers EXCEPT ![t][role] = {ref}]
  /\ Goto(t, AfterRole(role))
  /\ UNCHANGED <<file, disk, cfg, dirty, fresh, args, commands>>

(* ... or, with no source, one of the catalog, downloaded unless its file  *)
(* exists.                                                                 *)
MayInstall(t, role, model) ==
  /\ At(t, role) /\ Sources(cfg[t], disk, role) = {}
  /\ model \in Catalog(role)

SetupInstalls(t, role, model) ==
  /\ MayInstall(t, role, model)
  /\ disk' = disk \cup {model}
  /\ Edit(t, RegisterFor(cfg[t], Default(role), model))
  /\ answers' = [answers EXCEPT ![t][role] = {<<Default(role)[2], model>>}]
  /\ dirty' = [dirty EXCEPT ![t] = TRUE]
  /\ Goto(t, AfterRole(role))
  /\ UNCHANGED <<file, fresh, args, commands>>

(* askCombo offers the combos that are not bound; the stages, if any,      *)
(* need a chat model.                                                      *)
SetupAsksCombo(t) ==
  /\ At(t, "combo")
  /\ \E c \in Combos :
       /\ answers[t].combo = {} => c \notin Hotkeys(cfg[t])
       /\ answers[t].combo # {} => c \in answers[t].combo
       /\ \/ /\ Goto(t, "chat")
             /\ answers' = [answers EXCEPT ![t].combo = {c}]
          \/ /\ Goto(t, "upsert")
             /\ answers' = [answers EXCEPT ![t].combo = {c}, ![t].chat = {}]
  /\ UNCHANGED <<file, disk, cfg, dirty, fresh, args, commands>>

Chosen(S) == CHOOSE x \in S : TRUE

UpsertHotkey(t) ==
  /\ At(t, "upsert")
  /\ Edit(t, [cfg[t] EXCEPT !.hotkeys =
       With(@, Chosen(answers[t].combo),
            [stt |-> Chosen(answers[t].stt), chat |-> answers[t].chat])])
  /\ dirty' = [dirty EXCEPT ![t] = TRUE]
  /\ Goto(t, "finish")
  /\ UNCHANGED <<file, disk, fresh, args, answers, commands>>

(* The user backs out, or a download fails: what was changed so far is     *)
(* dropped, or saved on request.                                           *)
InWizard(t) == pc[t] \in {"microphone", "stt", "combo", "chat"}

SetupKeepsPart(t) ==
  /\ InWizard(t) /\ dirty[t]
  /\ Goto(t, "save_part")
  /\ UNCHANGED <<file, disk, cfg, sessionVars, args, commands>>

(* finish: an invalid config is never written.                             *)
SaveAccepts_Always(t) == TRUE
SaveAccepts(t) == Valid(cfg[t], disk)

Finish(t) ==
  /\ At(t, "finish") \/ At(t, "save_part")
  /\ file' = IF SaveAccepts(t) THEN cfg[t] ELSE file
  /\ Exit(t)
  /\ UNCHANGED disk

(* Esc, Done, a refusal, or a failure.                                     *)
Leave(t) ==
  /\ InWizard(t) \/ pc[t] \in {"download", "mic_only", "driver", "setup"}
  /\ Exit(t)
  /\ UNCHANGED <<file, disk>>
-----------------------------------------------------------------------------
DriverStep(t) ==
  \/ \E id \in Ids, roles \in SUBSET Roles \ {{}} :
       DriverAdds(t, id, roles) \/ DriverConfigures(t, id, roles)
  \/ \E e \in (Local \cup {Hosted}) \X Ids : DriverDeletes(t, e)

SetupStep(t) ==
  \/ SetupResets(t) \/ SetupKeeps(t)
  \/ \E mic \in Mics : AskGlobalMicrophone(t, mic)
  \/ \E role \in Roles : SetupSelects(t, role)
  \/ SetupAsksCombo(t) \/ UpsertHotkey(t) \/ SetupKeepsPart(t) \/ Finish(t)

(* Everything but the downloads.                                           *)
CommandStep(t) ==
  \/ \E command \in {"download", "mic_only", "driver", "setup"} : Load(t, command)
  \/ \E id \in Ids, model \in Models, force \in BOOLEAN : DownloadChecks(t, id, model, force)
  \/ DownloadRegisters(t) \/ DriverStep(t) \/ SetupStep(t) \/ Leave(t)
  \/ \E mic \in Mics : MicSaves(t, mic)
-----------------------------------------------------------------------------
TypeOK ==
  /\ disk \subseteq Models
  /\ \A t \in Terminals :
       /\ pc[t] \in {"shell", "download", "fetch", "register", "mic_only", "driver", "setup",
                    "microphone", "stt", "combo", "chat", "upsert", "finish", "save_part"}
       /\ Endpoints(cfg[t]) \subseteq (Local \cup {Hosted}) \X Ids
       /\ Hotkeys(cfg[t]) \subseteq Combos /\ cfg[t].mic \in Mics
       /\ answers[t].combo \subseteq Combos
  /\ commands \in 0 .. MaxCommands

Uses(c, id) ==
  \E k \in Hotkeys(c) : id \in {ref[1] : ref \in {c.hotkeys[k].stt} \cup c.hotkeys[k].chat}

(* A config that the daemon accepts stays acceptable, unless the driver    *)
(* manager deleted an endpoint that a hotkey uses.                         *)
ValidStaysValid ==
  [][Valid(file, disk) =>
       \/ Valid(file', disk')
       \/ \E e \in Endpoints(file) \ Endpoints(file') : Uses(file', e[2])]_file

(* Outside the driver manager and a start from scratch, a save loses no    *)
(* endpoint, no model and no other hotkey.                                 *)
NothingLost ==
  [][\A t \in Terminals :
       pc'[t] = "shell" /\ pc[t] \in {"register", "mic_only", "finish"} /\ ~fresh[t] =>
         /\ \A e \in Endpoints(file) :
              e \in Endpoints(file') /\ file.endpoints[e] \subseteq file'.endpoints[e]
         /\ \A c \in Hotkeys(file) :
              c \in Hotkeys(file') /\ (file'.hotkeys[c] = file.hotkeys[c] \/ c \in answers[t].combo)
    ]_file

(* "Save validation failure - should be unreachable (the wizard only       *)
(* produces valid hotkeys)".                                               *)
WizardResultSaves == \A t \in Terminals : At(t, "finish") => Valid(cfg[t], disk)

(* "A user with a cloud endpoint keeps it; running setup adds a new local  *)
(* hotkey alongside their existing ones", when it is not asked to start    *)
(* from scratch.                                                           *)
SetupKeepsEndpoints ==
  [][\A t \in Terminals :
       At(t, "finish") /\ pc'[t] = "shell" /\ ~fresh[t] => Endpoints(file) \subseteq Endpoints(file')]_file
=============================================================================

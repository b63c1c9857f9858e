------------------------- MODULE ModelInstallProofs -------------------------
(***************************************************************************)
(* Proofs about ModelInstall: the commands that change config.json, with   *)
(* the download of one model, for any models, endpoints, hotkeys, files    *)
(* and sizes.                                                              *)
(***************************************************************************)
EXTENDS ModelInstall, TLAPS

(* What the files, the configs and the answers are made of.                *)
IsArray(f)   == f = [t \in Terminals |-> f[t]]
IsConfig(c)  == c = [endpoints |-> c.endpoints, hotkeys |-> c.hotkeys, mic |-> c.mic]
IsAnswers(a) == a = [field \in {"combo", "stt", "chat"} |-> a[field]]

Shapes ==
  /\ IsArray(pc) /\ IsArray(cfg) /\ IsArray(fresh) /\ IsArray(args) /\ IsArray(answers)
  /\ IsConfig(file)
  /\ \A t \in Terminals : IsConfig(cfg[t]) /\ IsAnswers(answers[t])

(* The local models of c are on the disk, but for the shipped example's.   *)
Backed(c, onDisk) ==
  \A e \in Endpoints(c) : e[1] \in Local => c.endpoints[e] \subseteq onDisk \cup {Shipped}

(* Of the file, of the copies, and of a model about to be registered.      *)
DiskInv ==
  /\ Backed(file, disk)
  /\ \A t \in Terminals :
       /\ Backed(cfg[t], disk)
       /\ pc[t] = "register" => args[t][2] \in disk

ConfigInv == Shapes /\ DiskInv

(* The model that is followed is on the disk if its path names a file, and *)
(* who downloads it is waiting for it.                                     *)
FetchInv ==
  /\ F!TypeOK
  /\ dest # None <=> Tracked \in disk
  /\ \A t \in Terminals : fetch[t] # "idle" =>
       /\ pc[t] \in {"fetch"} \cup Roles
       /\ pc[t] = "fetch" => args[t][2] = Tracked

(* With one terminal: what the path names is whole, or was cut short for   *)
(* want of a length, the part is another file, and the only one that is    *)
(* written.                                                                *)
FileInv ==
  /\ dest # None => contents[dest] = F!Whole \/ dest \in cut
  /\ part # None => part # dest
  /\ \A t \in Terminals :
       /\ fetch[t] \in {"copy", "rename"} => part # None /\ handle[t] = part
       /\ fetch[t] \in {"idle", "get"} => written[t] = 0
       /\ fetch[t] = "copy" => contents[part] = 1 .. written[t]
       /\ fetch[t] = "rename" => contents[part] = F!Whole \/ part \in cut

(* With one terminal: a copy has all that is in the file, but for the      *)
(* hotkey that is being set up, unless setup has started from scratch.     *)
Extends(c, edited) ==
  /\ \A e \in Endpoints(file) : e \in Endpoints(c) /\ file.endpoints[e] \subseteq c.endpoints[e]
  /\ \A k \in Hotkeys(file) :
       k \in Hotkeys(c) /\ (c.hotkeys[k] = file.hotkeys[k] \/ k \in edited)

Edited(t) == IF pc[t] = "finish" THEN answers[t].combo ELSE {}

CopyInv ==
  \A t \in Terminals :
    /\ pc[t] \in {"download", "fetch", "register", "mic_only", "driver", "setup"} =>
         cfg[t] = file /\ ~fresh[t]
    /\ pc[t] \in {"fetch", "register"} => ~OtherDriver(cfg[t], args[t][1])
    /\ pc[t] # "shell" /\ ~fresh[t] => Extends(cfg[t], Edited(t))
    /\ pc[t] = "shell" => ~fresh[t]
    /\ pc[t] \in {"chat", "upsert"} => answers[t].combo # {}
-----------------------------------------------------------------------------
(* What the steps of terminal t do to the configs and the models on the    *)
(* disk, whatever the download does meanwhile.                             *)
ConfigStep(t) ==
  \/ UNCHANGED vars
  \/ CommandStep(t)
  \/ DownloadFetched(t) \/ DownloadFails(t)
  \/ \E role \in Roles, model \in Models : SetupInstalls(t, role, model)
  \/ Exit(t) /\ UNCHANGED <<file, disk>>

(* A step of terminal t.                                                   *)
TerminalStep(t) ==
  \/ TrackedStep(t)
  \/ F!Idle(t) /\ (CommandStep(t) \/ OtherDownload(t)) /\ UNCHANGED fetchVars

(* Every step of the system is a step of some terminal.                    *)
LEMMA StepsOfTerminals ==
  ASSUME [InstallNext]_allVars
  PROVE  UNCHANGED allVars \/ \E t \in Terminals : TerminalStep(t)
BY DEF InstallNext, TerminalStep

(* Every step of a terminal is one of those that matter to the configs.    *)
LEMMA StepsOfConfig ==
  ASSUME NEW t \in Terminals, TerminalStep(t)
  PROVE  ConfigStep(t)
<1>1. Tracked \in Models
  BY InstallAssumption
<1>2. SetupKeepsPart(t) \/ Leave(t) => CommandStep(t)
  BY DEF CommandStep, SetupStep
<1>3. CASE TrackedStep(t)
  <2>1. CASE FetchBegins(t) \/ Fetching(t)
    BY <2>1 DEF FetchBegins, Fetching, ConfigStep
  <2>2. CASE FetchReturns(t)
    BY <1>1, <2>2 DEF FetchReturns, Installs, ConfigStep
  <2>3. CASE FetchFails(t)
    BY <1>2, <2>3 DEF FetchFails, ConfigStep
  <2>4. CASE Interrupted(t)
    BY <2>4 DEF Interrupted, ConfigStep
  <2> QED
    BY <1>3, <2>1, <2>2, <2>3, <2>4 DEF TrackedStep
<1>4. CASE CommandStep(t)
  BY <1>4 DEF ConfigStep
<1>5. CASE OtherDownload(t)
  BY <1>5 DEF OtherDownload, ConfigStep
<1> QED
  BY <1>3, <1>4, <1>5 DEF TerminalStep
-----------------------------------------------------------------------------
(* What the commands write.                                                *)
LEMMA RegisterForFacts ==
  ASSUME NEW c, IsConfig(c), NEW e, NEW model
  PROVE  LET r == RegisterFor(c, e, model)
         IN  /\ IsConfig(r) /\ r.hotkeys = c.hotkeys /\ r.mic = c.mic
             /\ Endpoints(r) = Endpoints(c) \cup {e}
             /\ \A f \in Endpoints(c) : f # e => r.endpoints[f] = c.endpoints[f]
             /\ r.endpoints[e] = {model} \cup IF e \in Endpoints(c) THEN c.endpoints[e] ELSE {}
BY DEF RegisterFor, With, IsConfig, Endpoints

(* Registering a model that is on the disk leaves a config backed.         *)
LEMMA RegisterForBacked ==
  ASSUME NEW c, IsConfig(c), NEW e, NEW onDisk, NEW model \in onDisk, Backed(c, onDisk)
  PROVE  Backed(RegisterFor(c, e, model), onDisk)
BY RegisterForFacts DEF Backed, Endpoints

(* The shipped example is a config, and backed on any disk.                *)
LEMMA ExampleFacts ==
  ASSUME NEW onDisk PROVE IsConfig(Example) /\ Backed(Example, onDisk)
BY DEF Example, IsConfig, Backed, With, Endpoints, Local, Hosted, Whisper, Llama

(* A config stays backed while models arrive on the disk.                  *)
LEMMA BackedGrows ==
  ASSUME NEW c, NEW old, NEW new, old \subseteq new, Backed(c, old)
  PROVE  Backed(c, new)
BY DEF Backed
-----------------------------------------------------------------------------
(* A command ends, whatever it has written to the file.                    *)
LEMMA ConfigExit ==
  ASSUME ConfigInv, NEW t \in Terminals, Exit(t), UNCHANGED disk,
         IsConfig(file'), Backed(file', disk)
  PROVE  ConfigInv'
<1> USE DEF Exit, Goto, Edit, ConfigInv
<1>1. Shapes'
  BY ExampleFacts DEF Shapes, IsArray, IsAnswers, IsConfig, NoAnswers
<1>2. DiskInv'
  BY ExampleFacts DEF Shapes, IsArray, DiskInv
<1> QED
  BY <1>1, <1>2

(* An answer replaces an answer.                                           *)
LEMMA AnswersEdit ==
  ASSUME NEW a, IsAnswers(a), NEW field \in {"combo", "stt", "chat"}, NEW x
  PROVE  IsAnswers([a EXCEPT ![field] = x])
BY DEF IsAnswers

(* A command works on its copy, and leaves the file.                       *)
LEMMA ConfigEdit ==
  ASSUME ConfigInv, NEW t \in Terminals, UNCHANGED file, disk \subseteq disk',
         IsArray(answers'), \A u \in Terminals : IsAnswers(answers'[u]),
         IsArray(fresh'), IsArray(args'),
         NEW step, Goto(t, step), step = "register" => args'[t][2] \in disk',
         \A u \in Terminals : u # t => args'[u] = args[u],
         NEW c, cfg' = [cfg EXCEPT ![t] = c], IsConfig(c), Backed(c, disk')
  PROVE  ConfigInv'
<1> USE DEF Goto, ConfigInv
<1>1. Shapes'
  BY DEF Shapes, IsArray
<1>2. DiskInv'
  BY BackedGrows DEF Shapes, IsArray, DiskInv
<1> QED
  BY <1>1, <1>2

(* The steps that only read what they need and go on.                      *)
LEMMA ConfigReads ==
  ASSUME ConfigInv, NEW t \in Terminals,
         \/ \E id \in Ids, model \in Models, force \in BOOLEAN : DownloadChecks(t, id, model, force)
         \/ SetupKeeps(t) \/ SetupAsksCombo(t) \/ SetupKeepsPart(t)
         \/ \E role \in Roles : SetupSelects(t, role)
         \/ DownloadFetched(t)
  PROVE  ConfigInv'
<1> USE DEF sessionVars
<1>1. UNCHANGED file /\ UNCHANGED cfg /\ UNCHANGED fresh
  BY DEF DownloadChecks, SetupKeeps, SetupAsksCombo, SetupKeepsPart, SetupSelects, DownloadFetched
<1>2. disk \subseteq disk' /\ \A u \in Terminals : u # t => args'[u] = args[u]
  BY DEF DownloadChecks, SetupKeeps, SetupAsksCombo, SetupKeepsPart, SetupSelects, DownloadFetched,
     ConfigInv, Shapes, IsArray
<1>3. IsArray(args')
  BY DEF DownloadChecks, SetupKeeps, SetupAsksCombo, SetupKeepsPart, SetupSelects, DownloadFetched,
     ConfigInv, Shapes, IsArray
<1>4. IsArray(answers') /\ \A u \in Terminals : IsAnswers(answers'[u])
  <2>1. PICK a : answers' = [answers EXCEPT ![t] = a] /\ IsAnswers(a)
    <3>0. IsArray(answers) /\ IsAnswers(answers[t])
      BY DEF ConfigInv, Shapes
    <3>1. CASE UNCHANGED answers
      BY <3>1 DEF ConfigInv, Shapes, IsArray
    <3>2. CASE SetupKeeps(t)
      BY <3>2 DEF SetupKeeps, IsAnswers, NoAnswers
    <3>3. CASE SetupAsksCombo(t)
      <4>1. PICK c \in Combos : \/ answers' = [answers EXCEPT ![t].combo = {c}]
                                \/ answers' = [answers EXCEPT ![t].combo = {c}, ![t].chat = {}]
        BY <3>3 DEF SetupAsksCombo
      <4> DEFINE a == [answers[t] EXCEPT !.combo = {c}]
                 b == [a EXCEPT !.chat = {}]
      <4>2. IsAnswers(a)
        BY <3>0, AnswersEdit
      <4>3. IsAnswers(b)
        BY <4>2, AnswersEdit
      <4>4. answers' = [answers EXCEPT ![t] = a] \/ answers' = [answers EXCEPT ![t] = b]
        BY <4>1, <3>0 DEF IsArray
      <4> QED
        BY <4>2, <4>3, <4>4
    <3>4. CASE \E role \in Roles : SetupSelects(t, role)
      <4>1. PICK role \in Roles : \E ref : answers' = [answers EXCEPT ![t][role] = {ref}]
        BY <3>4 DEF SetupSelects
      <4>2. PICK ref : answers' = [answers EXCEPT ![t] = [@ EXCEPT ![role] = {ref}]]
        BY <4>1
      <4>3. IsAnswers([answers[t] EXCEPT ![role] = {ref}])
        BY <3>0, AnswersEdit DEF Roles
      <4> QED
        BY <4>2, <4>3
    <3> QED
      BY <3>1, <3>2, <3>3, <3>4
      DEF DownloadChecks, SetupKeepsPart, DownloadFetched, sessionVars
  <2> QED
    BY <2>1 DEF ConfigInv, Shapes, IsArray
<1>5. PICK step : Goto(t, step) /\ (step = "register" => args'[t][2] \in disk')
  <2>1. CASE DownloadFetched(t)
    BY <2>1 DEF DownloadFetched
  <2>2. CASE ~DownloadFetched(t)
    <3>1. PICK step \in {"fetch", "stt", "chat", "upsert", "save_part", "combo"} : Goto(t, step)
      <4>1. CASE SetupKeeps(t) \/ SetupAsksCombo(t) \/ SetupKeepsPart(t)
        BY <4>1 DEF SetupKeeps, SetupAsksCombo, SetupKeepsPart
      <4>2. CASE \E role \in Roles : SetupSelects(t, role)
        BY <4>2 DEF SetupSelects, AfterRole
      <4> QED
        BY <2>2, <4>1, <4>2 DEF DownloadChecks
    <3> QED
      BY <3>1
  <2> QED
    BY <2>1, <2>2
<1>6. cfg' = [cfg EXCEPT ![t] = cfg[t]] /\ IsConfig(cfg[t]) /\ Backed(cfg[t], disk')
  BY <1>1, <1>2, BackedGrows DEF ConfigInv, Shapes, IsArray, DiskInv
<1>7. IsArray(fresh')
  BY <1>1 DEF ConfigInv, Shapes
<1> QED
  BY <1>1, <1>2, <1>3, <1>4, <1>5, <1>6, <1>7, ConfigEdit

(* Backed configs are loaded, changed and saved.                           *)
LEMMA ConfigCommandStep ==
  ASSUME ConfigInv, NEW t \in Terminals, ConfigStep(t)
  PROVE  ConfigInv'
<1> USE DEF sessionVars
<1>1. IsConfig(file) /\ IsConfig(cfg[t]) /\ Backed(file, disk) /\ Backed(cfg[t], disk)
  BY DEF ConfigInv, Shapes, DiskInv
<1>2. CASE UNCHANGED vars
  BY <1>2 DEF vars, ConfigInv, Shapes, IsArray, DiskInv
<1>3. CASE /\ UNCHANGED <<answers, args, disk, file>> /\ IsArray(fresh')
           /\ \E step, c : /\ Goto(t, step) /\ step # "register"
                           /\ Edit(t, c) /\ IsConfig(c) /\ Backed(c, disk)
  BY <1>3, ConfigEdit DEF Edit, ConfigInv, Shapes
<1>4. ASSUME NEW command \in {"download", "mic_only", "driver", "setup"}, Load(t, command)
      PROVE  ConfigInv'
  BY <1>1, <1>3, <1>4 DEF Load, ConfigInv, Shapes, IsArray
<1>5. CASE DownloadFails(t) \/ Leave(t) \/ (Exit(t) /\ UNCHANGED <<file, disk>>)
  BY <1>1, <1>5, ConfigExit DEF DownloadFails, AfterFailure, Leave
<1>6. CASE DownloadRegisters(t)
  <2>1. args[t][2] \in disk
    BY <1>6 DEF DownloadRegisters, At, ConfigInv, DiskInv
  <2> QED
    BY <1>1, <1>6, <2>1, RegisterForFacts, RegisterForBacked, ConfigExit DEF DownloadRegisters
<1>7. ASSUME NEW mic \in Mics, MicSaves(t, mic) PROVE ConfigInv'
  BY <1>1, <1>7, ConfigExit DEF MicSaves, IsConfig, Backed, Endpoints
<1>8. CASE SetupResets(t)
  <2>1. IsConfig(ResetConfig(cfg[t])) /\ Backed(ResetConfig(cfg[t]), disk)
    <3> DEFINE r == ResetConfig(cfg[t])
    <3> DEFINE c == [cfg[t] EXCEPT !.endpoints = Restrict(cfg[t].endpoints, {})]
    <3>1. IsConfig(c) /\ DOMAIN c.endpoints = {}
      BY <1>1 DEF IsConfig, Restrict
    <3>2. r = [c EXCEPT !.hotkeys = Restrict(cfg[t].hotkeys, {})]
      BY DEF ResetConfig
    <3>3. IsConfig(r) /\ r.endpoints = c.endpoints
      BY <3>1, <3>2 DEF IsConfig
    <3> QED
      BY <3>1, <3>3 DEF Backed, Endpoints
  <2> QED
    BY <1>3, <1>8, <2>1 DEF SetupResets, ConfigInv, Shapes, IsArray
<1>9. ASSUME NEW mic \in Mics, AskGlobalMicrophone(t, mic) PROVE ConfigInv'
  <2>1. IsConfig([cfg[t] EXCEPT !.mic = mic]) /\ Backed([cfg[t] EXCEPT !.mic = mic], disk)
    BY <1>1 DEF IsConfig, Backed, Endpoints
  <2> QED
    BY <1>3, <1>9, <2>1 DEF AskGlobalMicrophone, ConfigInv, Shapes, IsArray
<1>10. CASE UpsertHotkey(t)
  <2>1. PICK hotkeys : Edit(t, [cfg[t] EXCEPT !.hotkeys = hotkeys])
    BY <1>10 DEF UpsertHotkey
  <2>2. IsConfig([cfg[t] EXCEPT !.hotkeys = hotkeys]) /\ Backed([cfg[t] EXCEPT !.hotkeys = hotkeys], disk)
    BY <1>1 DEF IsConfig, Backed, Endpoints
  <2> QED
    BY <1>3, <1>10, <2>1, <2>2 DEF UpsertHotkey, ConfigInv, Shapes, IsArray
<1>11. CASE Finish(t)
  BY <1>1, <1>11, ConfigExit DEF Finish
<1>12. ASSUME NEW role \in Roles, NEW model \in Models, SetupInstalls(t, role, model) PROVE ConfigInv'
  <2>1. IsAnswers([answers[t] EXCEPT ![role] = {<<Default(role)[2], model>>}])
    BY AnswersEdit DEF Roles, ConfigInv, Shapes
  <2>2. IsArray(answers') /\ \A u \in Terminals : IsAnswers(answers'[u])
    BY <1>12, <2>1 DEF SetupInstalls, ConfigInv, Shapes, IsArray
  <2>3. LET c == RegisterFor(cfg[t], Default(role), model) IN IsConfig(c) /\ Backed(c, disk')
    BY <1>1, <1>12, RegisterForFacts, RegisterForBacked, BackedGrows DEF SetupInstalls
  <2>4. AfterRole(role) # "register" /\ IsArray(fresh') /\ IsArray(args')
    BY <1>12 DEF AfterRole, SetupInstalls, ConfigInv, Shapes
  <2> QED
    BY <1>12, <2>2, <2>3, <2>4, ConfigEdit DEF SetupInstalls, Edit
<1>13. CASE DriverStep(t)
  <2>1. PICK new : SaveDriverConfig(t, new) /\ IsConfig(new) /\ Backed(new, disk)
    <3>1. ASSUME NEW id \in Ids, NEW roles, DriverAdds(t, id, roles) \/ DriverConfigures(t, id, roles)
          PROVE  \E new : SaveDriverConfig(t, new) /\ IsConfig(new) /\ Backed(new, disk)
      BY <1>1, <3>1 DEF DriverAdds, DriverConfigures, With, IsConfig, Backed, Endpoints, Hosted, Local,
         Whisper, Llama
    <3>2. ASSUME NEW e, DriverDeletes(t, e)
          PROVE  \E new : SaveDriverConfig(t, new) /\ IsConfig(new) /\ Backed(new, disk)
      BY <1>1, <3>2 DEF DriverDeletes, Restrict, IsConfig, Backed, Endpoints
    <3> QED
      BY <1>13, <3>1, <3>2 DEF DriverStep
  <2>2. CASE Topology(new)
    <3>1. file' = new /\ cfg' = [cfg EXCEPT ![t] = new] /\ UNCHANGED <<disk, pc, sessionVars, args>>
      BY <2>1, <2>2 DEF SaveDriverConfig, Edit
    <3> QED
      BY <2>1, <3>1 DEF ConfigInv, Shapes, IsArray, DiskInv
  <2>3. CASE ~Topology(new)
    BY <1>1, <2>1, <2>3, ConfigExit DEF SaveDriverConfig
  <2> QED
    BY <2>2, <2>3
<1> QED
  BY <1>2, <1>4, <1>5, <1>6, <1>7, <1>8, <1>9, <1>10, <1>11, <1>12, <1>13, ConfigReads
  DEF ConfigStep, CommandStep, SetupStep
-----------------------------------------------------------------------------
(* The commands of the other terminals wait while one takes a step.        *)
LEMMA OthersWait ==
  ASSUME IsArray(pc), IsArray(args), NEW t \in Terminals, ConfigStep(t)
  PROVE  \A u \in Terminals \ {t} : pc'[u] = pc[u] /\ args'[u] = args[u]
<1> USE DEF Goto, Exit, sessionVars, IsArray
<1>1. CASE UNCHANGED vars
  BY <1>1 DEF vars
<1>2. CASE CommandStep(t)
  <2>1. CASE SetupStep(t)
    BY <2>1 DEF SetupStep, SetupResets, SetupKeeps, AskGlobalMicrophone, SetupSelects,
       SetupAsksCombo, UpsertHotkey, SetupKeepsPart, Finish
  <2>2. CASE DriverStep(t)
    BY <2>2 DEF DriverStep, DriverAdds, DriverConfigures, DriverDeletes, SaveDriverConfig
  <2>3. CASE DownloadRegisters(t) \/ Leave(t) \/ \E mic \in Mics : MicSaves(t, mic)
    BY <2>3 DEF DownloadRegisters, Leave, MicSaves
  <2>4. CASE \/ \E command \in {"download", "mic_only", "driver", "setup"} : Load(t, command)
             \/ \E id \in Ids, model \in Models, force \in BOOLEAN :
                  DownloadChecks(t, id, model, force)
    BY <2>4 DEF Load, DownloadChecks
  <2> QED
    BY <1>2, <2>1, <2>2, <2>3, <2>4 DEF CommandStep
<1>3. CASE \/ DownloadFetched(t) \/ DownloadFails(t)
           \/ \E role \in Roles, model \in Models : SetupInstalls(t, role, model)
           \/ Exit(t) /\ UNCHANGED <<file, disk>>
  BY <1>3 DEF DownloadFetched, DownloadFails, AfterFailure, SetupInstalls
<1> QED
  BY <1>1, <1>2, <1>3 DEF ConfigStep

(* Only a download puts a model on the disk.                               *)
LEMMA CommandsKeepDisk ==
  ASSUME NEW t \in Terminals, CommandStep(t)
  PROVE  UNCHANGED disk
<1>1. CASE SetupStep(t)
  BY <1>1 DEF SetupStep, SetupResets, SetupKeeps, AskGlobalMicrophone, SetupSelects,
     SetupAsksCombo, UpsertHotkey, SetupKeepsPart, Finish
<1>2. CASE DriverStep(t)
  BY <1>2 DEF DriverStep, DriverAdds, DriverConfigures, DriverDeletes, SaveDriverConfig
<1>3. CASE DownloadRegisters(t) \/ Leave(t) \/ \E mic \in Mics : MicSaves(t, mic)
  BY <1>3 DEF DownloadRegisters, Leave, MicSaves
<1>4. CASE \/ \E command \in {"download", "mic_only", "driver", "setup"} : Load(t, command)
           \/ \E id \in Ids, model \in Models, force \in BOOLEAN :
                DownloadChecks(t, id, model, force)
  BY <1>4 DEF Load, DownloadChecks
<1> QED
  BY <1>1, <1>2, <1>3, <1>4 DEF CommandStep
-----------------------------------------------------------------------------
(* The configs keep their shape, and name local models that are on the     *)
(* disk, but for the shipped example's.                                    *)
THEOREM ConfigsAreBacked == InstallSpec => []ConfigInv
<1>1. InstallInit => ConfigInv
  BY ExampleFacts
  DEF InstallInit, Init, ConfigInv, Shapes, DiskInv, IsArray, IsAnswers, NoAnswers
<1>2. ConfigInv /\ [InstallNext]_allVars => ConfigInv'
  <2> SUFFICES ASSUME ConfigInv, [InstallNext]_allVars PROVE ConfigInv'
    OBVIOUS
  <2>1. CASE UNCHANGED allVars
    BY <2>1 DEF allVars, vars, sessionVars, ConfigInv, Shapes, DiskInv, IsArray, IsConfig, IsAnswers
  <2> QED
    BY <2>1, StepsOfTerminals, StepsOfConfig, ConfigCommandStep
<1> QED
  BY <1>1, <1>2, PTL DEF InstallSpec
-----------------------------------------------------------------------------
(* The steps of the download, by itself: the types, and with one terminal  *)
(* the files.                                                              *)
FetchStep(t) ==
  \/ F!Requests(t) \/ F!RequestFails(t) \/ F!Creates(t) \/ F!Copies(t) \/ F!Closes(t)
  \/ F!Renames(t) \/ F!Removes(t) \/ F!Kill(t)
  \/ UNCHANGED fetchVars

(* The download's variables keep their types.                              *)
LEMMA FetchTypes ==
  ASSUME F!TypeOK, NEW t \in Terminals, FetchStep(t)
  PROVE  F!TypeOK'
<1> USE DEF F!TypeOK, F!Goto, F!Ends, F!Idle
<1>1. CASE F!Requests(t) \/ F!RequestFails(t) \/ F!Kill(t)
  <2>1. sized' \in [Terminals -> BOOLEAN]
    BY <1>1 DEF F!Requests, F!RequestFails, F!Kill
  <2> QED
    BY <1>1, <2>1, InstallAssumption DEF F!Requests, F!RequestFails, F!Kill
<1>2. CASE F!Creates(t)
  <2>1. part' \in Files
    BY <1>2 DEF F!Creates, F!Unused
  <2>2. contents' = [contents EXCEPT ![part'] = {}] /\ handle' = [handle EXCEPT ![t] = part']
    BY <1>2 DEF F!Creates
  <2>3. contents' \in [Files -> SUBSET F!Whole] /\ handle' \in [Terminals -> Files \cup {None}]
    BY <2>1, <2>2
  <2>4. sized' \in [Terminals -> BOOLEAN]
    BY <1>2 DEF F!Creates
  <2>5. \A u \in Terminals : fetch'[u] = "copy" => handle'[u] \in Files
    BY <1>2, <2>1, <2>2 DEF F!Creates
  <2> QED
    BY <1>2, <2>1, <2>3, <2>4, <2>5 DEF F!Creates
<1>3. CASE F!Copies(t)
  <2>1. written'[t] \in F!Whole /\ written' \in [Terminals -> 0 .. Size]
    BY <1>3, InstallAssumption DEF F!Copies, F!Whole
  <2>2. contents' \in [Files -> SUBSET F!Whole]
    BY <1>3, <2>1 DEF F!Copies
  <2> QED
    BY <1>3, <2>1, <2>2 DEF F!Copies
<1>4. CASE F!Closes(t)
  <2>1. PICK to \in F!CopyEnds(t) : fetch' = [fetch EXCEPT ![t] = to]
    BY <1>4 DEF F!Closes
  <2>2. to \in {"remove", "rename"}
    BY DEF F!CopyEnds
  <2>3. fetch[t] = "copy" /\ cut' \subseteq Files
    BY <1>4 DEF F!Closes
  <2> QED
    BY <1>4, <2>1, <2>2, <2>3 DEF F!Closes
<1>5. CASE F!Renames(t) \/ F!Removes(t)
  <2>1. sized' \in [Terminals -> BOOLEAN] /\ cut' \subseteq Files
    BY <1>5 DEF F!Renames, F!Removes
  <2>2. contents' \in [Files -> SUBSET F!Whole]
    BY <1>5 DEF F!Renames, F!Removes
  <2>3. fetch' = [fetch EXCEPT ![t] = "idle"] /\ handle' = [handle EXCEPT ![t] = None]
    BY <1>5 DEF F!Renames, F!Removes
  <2> QED
    BY <1>5, <2>1, <2>2, <2>3, InstallAssumption DEF F!Renames, F!Removes
<1>6. CASE UNCHANGED fetchVars
  BY <1>6 DEF fetchVars
<1> QED
  BY <1>1, <1>2, <1>3, <1>4, <1>5, <1>6 DEF FetchStep

OneTerminal == \A t, u \in Terminals : t = u

(* With one terminal, an open part file is the terminal's own.             *)
LEMMA FileStep ==
  ASSUME OneTerminal, F!TypeOK, FileInv, NEW t \in Terminals, FetchStep(t)
  PROVE  FileInv'
<1> USE DEF F!TypeOK, F!Goto, F!Ends, F!Idle, FileInv
<1>0. \A u \in Terminals : u = t
  BY DEF OneTerminal
<1>1. CASE F!Requests(t) \/ F!RequestFails(t) \/ F!Kill(t)
  BY <1>0, <1>1 DEF F!Requests, F!RequestFails, F!Kill
<1>2. CASE F!Creates(t)
  <2>1. part' \in Files /\ part' # None /\ part' # dest
    BY <1>2, InstallAssumption DEF F!Creates, F!Unused
  <2>2. contents' = [contents EXCEPT ![part'] = {}] /\ handle' = [handle EXCEPT ![t] = part']
    BY <1>2 DEF F!Creates
  <2>3. written'[t] = 0 /\ fetch'[t] = "copy" /\ UNCHANGED dest /\ cut' = cut \ {part'}
    BY <1>2 DEF F!Creates
  <2> QED
    BY <1>0, <2>1, <2>2, <2>3
<1>3. CASE F!Copies(t)
  <2>1. written'[t] = written[t] + 1 /\ UNCHANGED <<fetch, handle, part, dest, cut>>
    BY <1>3 DEF F!Copies
  <2>2. contents' = [contents EXCEPT ![part] = @ \cup {written[t] + 1}]
    BY <1>3 DEF F!Copies
  <2>3. fetch[t] = "copy" /\ contents[part] = 1 .. written[t] /\ written[t] \in Nat
    BY <1>3, InstallAssumption DEF F!Copies
  <2>4. contents'[part] = 1 .. written'[t]
    <3>1. part \in Files
      BY <2>3
    <3>2. contents'[part] = (1 .. written[t]) \cup {written[t] + 1}
      BY <2>2, <2>3, <3>1
    <3> QED
      BY <2>1, <2>3, <3>2
  <2> QED
    BY <1>0, <2>1, <2>2, <2>3, <2>4
<1>4. CASE F!Closes(t)
  <2>1. PICK to \in F!CopyEnds(t) : fetch' = [fetch EXCEPT ![t] = to]
    BY <1>4 DEF F!Closes
  <2>2. /\ fetch[t] = "copy" /\ UNCHANGED <<handle, written, contents, part, dest>>
        /\ cut \subseteq cut'
        /\ written[t] < Size /\ ~sized[t] => part \in cut'
    BY <1>4 DEF F!Closes
  <2>3. to = "remove" \/ (to = "rename" /\ (written[t] = Size \/ ~sized[t]))
    BY DEF F!CopyEnds
  <2>4. written[t] = Size \/ written[t] < Size
    BY InstallAssumption
  <2>5. to = "rename" => contents'[part] = F!Whole \/ part \in cut'
    BY <2>2, <2>3, <2>4 DEF F!Whole
  <2> QED
    BY <1>0, <2>1, <2>2, <2>3, <2>5
<1>5. CASE F!Renames(t)
  BY <1>0, <1>5 DEF F!Renames
<1>6. CASE F!Removes(t)
  BY <1>0, <1>6 DEF F!Removes
<1>7. CASE UNCHANGED fetchVars
  BY <1>7 DEF fetchVars, F!Whole
<1> QED
  BY <1>1, <1>2, <1>3, <1>4, <1>5, <1>6, <1>7 DEF FetchStep

(* Every step of a terminal is a step of the download or leaves it alone.  *)
LEMMA StepsFetch ==
  ASSUME NEW t \in Terminals, TerminalStep(t)
  PROVE  FetchStep(t)
<1>1. F!Reuses(t) => UNCHANGED fetchVars
  BY DEF F!Reuses, fetchVars
<1> QED
  BY <1>1
  DEF TerminalStep, TrackedStep, FetchBegins, Fetching, FetchReturns, FetchFails, Interrupted,
      FetchStep
-----------------------------------------------------------------------------
(* The path of the model that is followed names a file if and only if the  *)
(* commands find the model there, and a download has a command that waits. *)
LEMMA FetchInvStep ==
  ASSUME ConfigInv, FetchInv, [InstallNext]_allVars
  PROVE  FetchInv'
<1>1. CASE UNCHANGED allVars
  BY <1>1 DEF allVars, vars, fetchVars, FetchInv, F!TypeOK, F!Whole
<1>2. ASSUME NEW t \in Terminals, TerminalStep(t) PROVE FetchInv'
  <2> USE <1>2
  <2>1. F!TypeOK' /\ FetchStep(t) /\ ConfigStep(t)
    BY StepsFetch, FetchTypes, StepsOfConfig DEF FetchInv
  <2>2. \A u \in Terminals \ {t} : pc'[u] = pc[u] /\ args'[u] = args[u]
    BY <2>1, OthersWait DEF ConfigInv, Shapes
  <2>3. \A u \in Terminals \ {t} : fetch'[u] = fetch[u]
    BY <2>1 DEF FetchStep, F!Requests, F!RequestFails, F!Creates, F!Copies, F!Closes, F!Renames,
       F!Removes, F!Kill, F!Goto, F!Ends, fetchVars, FetchInv, F!TypeOK
  <2>4. CASE FetchBegins(t)
    <3>1. /\ pc[t] \in {"fetch"} \cup Roles
          /\ pc[t] = "fetch" => args[t][2] = Tracked
      BY <2>4 DEF FetchBegins, Calls, MayInstall, At, Roles
    <3>2. UNCHANGED <<disk, dest, pc, args>>
      BY <2>4 DEF FetchBegins, F!Requests, vars
    <3> QED
      BY <2>1, <2>2, <2>3, <3>1, <3>2 DEF FetchInv
  <2>5. CASE Fetching(t)
    <3>1. UNCHANGED <<disk, dest, pc, args>> /\ fetch[t] # "idle"
      BY <2>5 DEF Fetching, F!Creates, F!Copies, F!Closes, vars
    <3> QED
      BY <2>1, <2>2, <2>3, <3>1 DEF FetchInv
  <2>6. CASE FetchReturns(t)
    <3>1. CASE F!Renames(t)
      <4>1. fetch[t] = "rename" /\ fetch'[t] = "idle" /\ dest' # None
        BY <3>1 DEF F!Renames, F!Ends, F!Goto, FetchInv, F!TypeOK
      <4>2. Tracked \in disk'
        BY <2>6, <4>1 DEF FetchReturns, F!Reuses, F!Idle, DownloadFetched, At, Installs, SetupInstalls,
           FetchInv
      <4> QED
        BY <2>1, <2>2, <2>3, <4>1, <4>2 DEF FetchInv
    <3>2. CASE F!Reuses(t)
      <4>1. UNCHANGED <<fetch, dest>> /\ fetch[t] = "idle" /\ dest # None
        BY <3>2 DEF F!Reuses, F!Idle
      <4>2. disk \subseteq disk'
        BY <2>6 DEF FetchReturns, DownloadFetched, Installs, SetupInstalls
      <4> QED
        BY <2>1, <2>2, <2>3, <4>1, <4>2 DEF FetchInv
    <3> QED
      BY <2>6, <3>1, <3>2 DEF FetchReturns
  <2>7. CASE FetchFails(t) \/ Interrupted(t)
    <3>1. fetch'[t] = "idle" /\ UNCHANGED dest
      BY <2>7 DEF FetchFails, Interrupted, F!RequestFails, F!Removes, F!Kill, F!Ends, F!Goto, FetchInv,
         F!TypeOK
    <3>2. UNCHANGED disk
      BY <2>7 DEF FetchFails, Interrupted, DownloadFails, Leave, SetupKeepsPart
    <3> QED
      BY <2>1, <2>2, <2>3, <3>1, <3>2 DEF FetchInv
  <2>8. CASE F!Idle(t) /\ (CommandStep(t) \/ OtherDownload(t)) /\ UNCHANGED fetchVars
    <3>1. fetch'[t] = "idle" /\ UNCHANGED dest
      BY <2>8 DEF F!Idle, fetchVars
    <3>2. Tracked \in disk' <=> Tracked \in disk
      BY <2>8, CommandsKeepDisk DEF OtherDownload, DownloadFetched, DownloadFails, SetupInstalls
    <3> QED
      BY <2>1, <2>2, <2>3, <3>1, <3>2 DEF FetchInv
  <2> QED
    BY <2>4, <2>5, <2>6, <2>7, <2>8 DEF TerminalStep, TrackedStep
<1> QED
  BY <1>1, <1>2, StepsOfTerminals

(* What is registered is on the disk, and the model that is followed is    *)
(* there whole, unless it came without a length and was cut short, if one  *)
(* terminal is used: two downloads of one model share a part file.         *)
THEOREM RegisteredFilesAreWhole ==
  ASSUME OneTerminal PROVE InstallSpec => []RegisteredIsComplete
<1>1. InstallInit => FetchInv /\ FileInv
  BY InstallAssumption
  DEF InstallInit, F!Init, FetchInv, FileInv, F!TypeOK, F!Whole
<1>2. ConfigInv /\ FetchInv /\ FileInv /\ [InstallNext]_allVars => FetchInv' /\ FileInv'
  <2> SUFFICES ASSUME ConfigInv, FetchInv, FileInv, [InstallNext]_allVars PROVE FetchInv' /\ FileInv'
    OBVIOUS
  <2>1. CASE UNCHANGED allVars
    BY <2>1, FetchInvStep DEF allVars, vars, fetchVars, FileInv, F!Whole
  <2> QED
    BY <2>1, StepsOfTerminals, StepsFetch, FetchInvStep, FileStep DEF FetchInv
<1>3. ConfigInv /\ FetchInv /\ FileInv => RegisteredIsComplete
  BY InstallAssumption, ConfigAssumption
  DEF ConfigInv, DiskInv, Backed, FetchInv, FileInv, RegisteredIsComplete, F!DestIsWhole
<1> QED
  BY <1>1, <1>2, <1>3, ConfigsAreBacked, PTL DEF InstallSpec
-----------------------------------------------------------------------------
(* Extends holds of the file itself, and of a copy that adds a model, sets *)
(* the microphone, or binds the hotkey that is being set up.               *)
LEMMA ExtendsFile ==
  ASSUME NEW edited PROVE Extends(file, edited)
BY DEF Extends

(* A copy that extends the file still does with a model registered.        *)
LEMMA ExtendsRegistered ==
  ASSUME NEW c, IsConfig(c), NEW edited, Extends(c, edited), NEW e, NEW model
  PROVE  Extends(RegisterFor(c, e, model), edited)
BY RegisterForFacts DEF Extends, Hotkeys, Endpoints

(* A copy that extends the file still does with an edited hotkey bound.    *)
LEMMA ExtendsBound ==
  ASSUME NEW c, IsConfig(c), Extends(c, {}), NEW edited, NEW k \in edited, NEW hk
  PROVE  Extends([c EXCEPT !.hotkeys = With(@, k, hk)], edited)
<1> DEFINE d == [c EXCEPT !.hotkeys = With(@, k, hk)]
<1>1. d.endpoints = c.endpoints /\ d.hotkeys = With(c.hotkeys, k, hk)
  BY DEF IsConfig
<1> QED
  BY <1>1 DEF Extends, Endpoints, Hotkeys, With

(* Where the wizard goes on, with the file left alone.                     *)
InWizardSteps == {"microphone", "combo", "chat", "upsert", "finish", "save_part", "stt"}

(* A step of the wizard that changes its copy and leaves the file.         *)
LEMMA CopyGoesOn ==
  ASSUME OneTerminal, CopyInv, NEW t \in Terminals, UNCHANGED file,
         IsArray(pc), IsArray(cfg), IsArray(fresh),
         NEW step, Goto(t, step),
         step \in InWizardSteps,
         NEW c, Edit(t, c),
         fresh'[t] \/ Extends(c, IF step = "finish" THEN answers'[t].combo ELSE {}),
         step \in {"chat", "upsert"} => answers'[t].combo # {}
  PROVE  CopyInv'
<1>1. \A u \in Terminals : u = t
  BY DEF OneTerminal
<1>2. pc'[t] = step /\ cfg'[t] = c
  BY DEF Goto, Edit, IsArray
<1> QED
  BY <1>1, <1>2 DEF InWizardSteps, CopyInv, Edited, Extends, Endpoints, Hotkeys

(* A command that ends, whatever it has saved.                             *)
LEMMA CopyEnds ==
  ASSUME OneTerminal, NEW t \in Terminals, Exit(t), ConfigInv
  PROVE  CopyInv'
<1>1. \A u \in Terminals : u = t
  BY DEF OneTerminal
<1>2. pc'[t] = "shell" /\ ~fresh'[t]
  BY DEF Exit, Goto, ConfigInv, Shapes, IsArray
<1> QED
  BY <1>1, <1>2 DEF CopyInv

(* With one terminal, a copy stays an extension of the file.               *)
LEMMA CopyInvStep ==
  ASSUME OneTerminal, ConfigInv, CopyInv, NEW t \in Terminals, ConfigStep(t)
  PROVE  CopyInv'
<1> USE DEF sessionVars
<1>0. /\ \A u \in Terminals : u = t
      /\ IsArray(pc) /\ IsArray(cfg) /\ IsArray(fresh) /\ IsArray(args) /\ IsArray(answers)
      /\ IsConfig(cfg[t]) /\ IsAnswers(answers[t])
      /\ cfg' = cfg => Edit(t, cfg[t])
  BY DEF OneTerminal, ConfigInv, Shapes, IsArray, Edit
<1>1. CASE UNCHANGED vars
  BY <1>1 DEF vars, CopyInv, Extends, Edited, Endpoints, Hotkeys, OtherDriver
<1>2. CASE Exit(t)
  BY <1>2, CopyEnds
<1>3. ASSUME NEW command \in {"download", "mic_only", "driver", "setup"}, Load(t, command)
      PROVE  CopyInv'
  <2>1. pc'[t] = command /\ cfg'[t] = file /\ file' = file /\ ~fresh'[t]
    BY <1>0, <1>3 DEF Load, At, Goto, Edit, IsArray, CopyInv
  <2> QED
    BY <1>0, <2>1 DEF CopyInv, Extends, Edited, Endpoints, Hotkeys
<1>4. ASSUME NEW id \in Ids, NEW model \in Models, NEW force \in BOOLEAN,
             DownloadChecks(t, id, model, force)
      PROVE  CopyInv'
  <2>1. /\ pc[t] = "download" /\ pc'[t] = "fetch"
        /\ UNCHANGED <<file, cfg, fresh, answers>>
        /\ ~OtherDriver(cfg'[t], args'[t][1])
    BY <1>0, <1>4 DEF DownloadChecks, At, Goto, IsArray, OtherDriver, Endpoints
  <2> QED
    BY <1>0, <2>1 DEF CopyInv, Extends, Edited, Endpoints, Hotkeys
<1>5. CASE DownloadFetched(t)
  <2>1. /\ pc[t] = "fetch" /\ pc'[t] = "register"
        /\ UNCHANGED <<file, cfg, fresh, answers, args>>
    BY <1>0, <1>5 DEF DownloadFetched, At, Goto, IsArray
  <2> QED
    BY <1>0, <2>1 DEF CopyInv, Extends, Edited, Endpoints, Hotkeys, OtherDriver
<1>6. ASSUME NEW role \in Roles, NEW model \in Models, SetupInstalls(t, role, model)
      PROVE  CopyInv'
  <2> DEFINE c == RegisterFor(cfg[t], Default(role), model)
  <2>1. pc[t] = role /\ role \in {"stt", "chat"} /\ AfterRole(role) \in {"combo", "upsert"}
    BY <1>6 DEF SetupInstalls, MayInstall, At, AfterRole, Roles
  <2>2. fresh'[t] \/ Extends(c, {})
    BY <1>0, <1>6, <2>1, ExtendsRegistered DEF SetupInstalls, CopyInv, Edited
  <2>3. AfterRole(role) = "upsert" => answers'[t].combo # {}
    BY <1>0, <1>6, <2>1 DEF SetupInstalls, AfterRole, CopyInv, IsArray, IsAnswers
  <2> QED
    BY <1>0, <1>6, <2>1, <2>2, <2>3, CopyGoesOn DEF SetupInstalls, InWizardSteps
<1>7. CASE DriverStep(t)
  <2>1. PICK new : pc[t] = "driver" /\ SaveDriverConfig(t, new)
    BY <1>7 DEF DriverStep, DriverAdds, DriverConfigures, DriverDeletes, At
  <2>2. CASE Topology(new)
    <3>1. file' = new /\ cfg'[t] = new /\ pc'[t] = "driver" /\ ~fresh'[t]
      BY <1>0, <2>1, <2>2 DEF SaveDriverConfig, Edit, IsArray, CopyInv
    <3> QED
      BY <1>0, <3>1 DEF CopyInv, Extends, Edited, Endpoints, Hotkeys
  <2> QED
    BY <1>2, <2>1, <2>2 DEF SaveDriverConfig
<1>8. CASE SetupStep(t)
  <2>1. CASE SetupResets(t)
    <3>1. fresh'[t]
      BY <1>0, <2>1 DEF SetupResets, IsArray
    <3>2. UNCHANGED file /\ Goto(t, "microphone") /\ Edit(t, ResetConfig(cfg[t]))
      BY <2>1 DEF SetupResets
    <3> DEFINE c == ResetConfig(cfg[t])
    <3> HIDE DEF c
    <3>3. Edit(t, c) 
      BY <3>2 DEF c
    <3> QED
      BY <1>0, <3>1, <3>2, <3>3, CopyGoesOn DEF InWizardSteps
  <2>2. CASE SetupKeeps(t)
    <3>1. Extends(cfg[t], {})
      BY <2>2, ExtendsFile DEF SetupKeeps, At, CopyInv
    <3>2. UNCHANGED file /\ Goto(t, "stt") /\ Edit(t, cfg[t])
      BY <1>0, <2>2 DEF SetupKeeps
    <3> QED
      BY <1>0, <3>1, <3>2, CopyGoesOn DEF InWizardSteps
  <2>3. ASSUME NEW mic \in Mics, AskGlobalMicrophone(t, mic) PROVE CopyInv'
    <3>1. fresh'[t] \/ Extends([cfg[t] EXCEPT !.mic = mic], {})
      BY <1>0, <2>3 DEF AskGlobalMicrophone, At, CopyInv, Edited, IsConfig, Extends, Endpoints, Hotkeys
    <3> QED
      BY <1>0, <2>3, <3>1, CopyGoesOn DEF InWizardSteps, AskGlobalMicrophone
  <2>4. ASSUME NEW role \in Roles, SetupSelects(t, role) PROVE CopyInv'
    <3>1. pc[t] = role /\ role \in {"stt", "chat"} /\ AfterRole(role) \in {"combo", "upsert"}
      BY <2>4 DEF SetupSelects, At, AfterRole, Roles
    <3>2. fresh'[t] \/ Extends(cfg[t], {})
      BY <2>4, <3>1 DEF SetupSelects, CopyInv, Edited
    <3>3. AfterRole(role) = "upsert" => answers'[t].combo # {}
      <4>1. PICK ref : answers' = [answers EXCEPT ![t] = [@ EXCEPT ![role] = {ref}]]
        BY <2>4 DEF SetupSelects
      <4> QED
        BY <1>0, <4>1, <3>1 DEF AfterRole, CopyInv, IsArray, IsAnswers
    <3> QED
      BY <1>0, <2>4, <3>1, <3>2, <3>3, CopyGoesOn DEF InWizardSteps, SetupSelects
  <2>5. CASE SetupAsksCombo(t)
    <3>1. PICK step \in {"chat", "upsert"} : Goto(t, step)
      BY <2>5 DEF SetupAsksCombo
    <3>2. answers'[t].combo # {}
      BY <1>0, <2>5 DEF SetupAsksCombo, IsArray, IsAnswers
    <3>3. UNCHANGED <<file, cfg, fresh>> /\ (fresh'[t] \/ Extends(cfg[t], {}))
      BY <2>5 DEF SetupAsksCombo, At, CopyInv, Edited
    <3> QED
      BY <1>0, <3>1, <3>2, <3>3, CopyGoesOn DEF InWizardSteps
  <2>6. CASE UpsertHotkey(t)
    <3>1. Chosen(answers[t].combo) \in answers[t].combo
      BY <2>6 DEF UpsertHotkey, At, CopyInv, Chosen
    <3>2. PICK hk : Edit(t, [cfg[t] EXCEPT !.hotkeys = With(@, Chosen(answers[t].combo), hk)])
      BY <2>6 DEF UpsertHotkey
    <3>3. \/ fresh'[t]
          \/ Extends([cfg[t] EXCEPT !.hotkeys = With(@, Chosen(answers[t].combo), hk)],
                     answers'[t].combo)
      BY <1>0, <2>6, <3>1, ExtendsBound DEF UpsertHotkey, At, CopyInv, Edited
    <3>4. UNCHANGED file /\ Goto(t, "finish")
      BY <2>6 DEF UpsertHotkey
    <3> DEFINE c == [cfg[t] EXCEPT !.hotkeys = With(@, Chosen(answers[t].combo), hk)]
    <3> HIDE DEF c
    <3>5. Edit(t, c) /\ (fresh'[t] \/ Extends(c, answers'[t].combo))
      BY <3>2, <3>3 DEF c
    <3> QED
      BY <1>0, <3>4, <3>5, CopyGoesOn DEF InWizardSteps
  <2>7. CASE SetupKeepsPart(t)
    <3>1. fresh'[t] \/ Extends(cfg[t], {})
      BY <2>7 DEF SetupKeepsPart, InWizard, CopyInv, Edited
    <3> QED
      BY <1>0, <2>7, <3>1, CopyGoesOn DEF InWizardSteps, SetupKeepsPart
  <2> QED
    BY <1>2, <1>8, <2>1, <2>2, <2>3, <2>4, <2>5, <2>6, <2>7 DEF SetupStep, Finish
<1>9. CASE DownloadFails(t) \/ DownloadRegisters(t) \/ Leave(t) \/ \E mic \in Mics : MicSaves(t, mic)
  BY <1>2, <1>9 DEF DownloadFails, AfterFailure, DownloadRegisters, Leave, MicSaves
<1> QED
  BY <1>1, <1>2, <1>3, <1>4, <1>5, <1>6, <1>7, <1>8, <1>9 DEF ConfigStep, CommandStep
-----------------------------------------------------------------------------
(* With one terminal, the copies extend the file, always.                  *)
LEMMA CopyInvariant ==
  ASSUME OneTerminal PROVE InstallSpec => []CopyInv
<1>1. InstallInit => CopyInv
  BY DEF InstallInit, Init, CopyInv
<1>2. ConfigInv /\ CopyInv /\ [InstallNext]_allVars => CopyInv'
  <2> SUFFICES ASSUME ConfigInv, CopyInv, [InstallNext]_allVars PROVE CopyInv'
    OBVIOUS
  <2>1. CASE UNCHANGED allVars
    BY <2>1 DEF allVars, vars, sessionVars, CopyInv, Extends, Edited, Endpoints, Hotkeys, OtherDriver
  <2> QED
    BY <2>1, StepsOfTerminals, StepsOfConfig, CopyInvStep
<1> QED
  BY <1>1, <1>2, ConfigsAreBacked, PTL DEF InstallSpec
-----------------------------------------------------------------------------
(* The steps that replace the file, with one terminal.                     *)
LEMMA Replacements ==
  ASSUME OneTerminal, ConfigInv, CopyInv, NEW t \in Terminals, ConfigStep(t), file' # file
  PROVE  \/ /\ pc[t] = "register" /\ pc'[t] = "shell" /\ args[t][2] \in disk
            /\ file' = RegisterFor(file, args[t][1], args[t][2])
            /\ ~OtherDriver(file, args[t][1])
         \/ /\ pc[t] = "mic_only" /\ pc'[t] = "shell"
            /\ \E mic \in Mics : file' = [file EXCEPT !.mic = mic]
         \/ /\ pc[t] \in {"finish", "save_part"} /\ pc'[t] = "shell"
            /\ file' = cfg[t] /\ Valid(cfg[t], disk)
         \/ /\ pc[t] = "driver" /\ pc'[t] = "driver" /\ cfg[t] = file
            /\ DriverStep(t) /\ UniqueIds(file')
<1> USE DEF At
<1>1. \A step : Goto(t, step) => pc'[t] = step
  BY DEF Goto, ConfigInv, Shapes, IsArray
<1>2. CASE DownloadRegisters(t)
  BY <1>1, <1>2 DEF DownloadRegisters, Exit, CopyInv, ConfigInv, DiskInv
<1>3. ASSUME NEW mic \in Mics, MicSaves(t, mic)
      PROVE  /\ pc[t] = "mic_only" /\ pc'[t] = "shell"
             /\ file' = [file EXCEPT !.mic = mic]
  BY <1>1, <1>3 DEF MicSaves, Exit, CopyInv
<1>4. CASE Finish(t)
  BY <1>1, <1>4 DEF Finish, SaveAccepts, Exit
<1>5. CASE DriverStep(t)
  <2>1. PICK new : pc[t] = "driver" /\ SaveDriverConfig(t, new)
    BY <1>5 DEF DriverStep, DriverAdds, DriverConfigures, DriverDeletes
  <2>2. Topology(new) /\ file' = new /\ UNCHANGED pc
    BY <2>1 DEF SaveDriverConfig
  <2> QED
    BY <1>5, <2>1, <2>2 DEF Topology, CopyInv
<1>6. CASE SetupStep(t) /\ ~Finish(t)
  BY <1>6 DEF SetupStep, SetupResets, SetupKeeps, AskGlobalMicrophone, SetupSelects, SetupAsksCombo,
     UpsertHotkey, SetupKeepsPart
<1>7. ~UNCHANGED vars /\ ~Leave(t) /\ ~DownloadFails(t) /\ ~DownloadFetched(t)
  BY DEF vars, Leave, DownloadFails, DownloadFetched
<1>8. /\ ~\E command \in {"download", "mic_only", "driver", "setup"} : Load(t, command)
      /\ ~\E id \in Ids, model \in Models, force \in BOOLEAN : DownloadChecks(t, id, model, force)
      /\ ~\E role \in Roles, model \in Models : SetupInstalls(t, role, model)
  BY DEF Load, DownloadChecks, SetupInstalls
<1> QED
  BY <1>2, <1>3, <1>4, <1>5, <1>6, <1>7, <1>8 DEF ConfigStep, CommandStep

(* No step replaces the file and puts a model on the disk.                 *)
LEMMA FileOrDisk ==
  ASSUME NEW t \in Terminals, ConfigStep(t), file' # file
  PROVE  UNCHANGED disk
BY CommandsKeepDisk DEF ConfigStep, vars, DownloadFetched, DownloadFails, SetupInstalls

(* A save by the download, gosaid mic or the wizard loses no endpoint, no  *)
(* model and no other hotkey, if one terminal is used.                     *)
THEOREM SavesLoseNothing ==
  ASSUME OneTerminal PROVE InstallSpec => NothingLost
<1>1. ConfigInv /\ CopyInv /\ [InstallNext]_allVars =>
        [\A t \in Terminals :
           pc'[t] = "shell" /\ pc[t] \in {"register", "mic_only", "finish"} /\ ~fresh[t] =>
             /\ \A e \in Endpoints(file) :
                  e \in Endpoints(file') /\ file.endpoints[e] \subseteq file'.endpoints[e]
             /\ \A c \in Hotkeys(file) :
                  c \in Hotkeys(file') /\ (file'.hotkeys[c] = file.hotkeys[c] \/ c \in answers[t].combo)
        ]_file
  <2> SUFFICES ASSUME ConfigInv, CopyInv, [InstallNext]_allVars, file' # file,
                      NEW t \in Terminals, ~fresh[t],
                      pc'[t] = "shell", pc[t] \in {"register", "mic_only", "finish"}
               PROVE  /\ \A e \in Endpoints(file) :
                           e \in Endpoints(file') /\ file.endpoints[e] \subseteq file'.endpoints[e]
                      /\ \A c \in Hotkeys(file) :
                           /\ c \in Hotkeys(file')
                           /\ file'.hotkeys[c] = file.hotkeys[c] \/ c \in answers[t].combo
    OBVIOUS
  <2>1. ConfigStep(t)
    BY StepsOfTerminals, StepsOfConfig DEF OneTerminal, allVars, vars
  <2>2. IsConfig(file)
    BY DEF ConfigInv, Shapes
  <2>3. CASE pc[t] = "register"
    <3>1. file' = RegisterFor(file, args[t][1], args[t][2])
      BY <2>1, <2>3, Replacements
    <3> QED
      BY <2>2, <3>1, RegisterForFacts DEF Endpoints, Hotkeys
  <2>4. CASE pc[t] = "mic_only"
    <3>1. PICK mic : file' = [file EXCEPT !.mic = mic]
      BY <2>1, <2>4, Replacements
    <3> QED
      BY <2>2, <3>1 DEF IsConfig, Endpoints, Hotkeys
  <2>5. CASE pc[t] = "finish"
    <3>1. file' = cfg[t]
      BY <2>1, <2>5, Replacements
    <3> QED
      BY <2>5, <3>1 DEF CopyInv, Extends, Edited
  <2> QED
    BY <2>3, <2>4, <2>5
<1> QED
  BY <1>1, ConfigsAreBacked, CopyInvariant, PTL DEF InstallSpec, NothingLost
-----------------------------------------------------------------------------
(* The endpoints of the file, of the copies, and of a download.            *)
Names == (Local \cup {Hosted}) \X Ids

NamesInv ==
  /\ Endpoints(file) \subseteq Names
  /\ \A t \in Terminals :
       /\ Endpoints(cfg[t]) \subseteq Names
       /\ pc[t] \in {"fetch", "register"} => args[t][1] \in Names

(* The endpoints of the shipped example have names.                        *)
LEMMA ExampleNames == Endpoints(Example) \subseteq Names
BY ConfigAssumption DEF Example, Endpoints, With, Names, Local

(* One command's edit of its copy, when the file's endpoints have names.   *)
LEMMA NamesEdit ==
  ASSUME ConfigInv, NamesInv, NEW t \in Terminals, ConfigStep(t),
         Endpoints(file') \subseteq Names,
         NEW c, Edit(t, c), Endpoints(c) \subseteq Names,
         pc'[t] \in {"fetch", "register"} => args'[t][1] \in Names
  PROVE  NamesInv'
<1>1. \A u \in Terminals \ {t} : pc'[u] = pc[u] /\ args'[u] = args[u] /\ cfg'[u] = cfg[u]
  BY OthersWait DEF Edit, ConfigInv, Shapes, IsArray
<1>2. cfg'[t] = c
  BY DEF Edit, ConfigInv, Shapes, IsArray
<1> QED
  BY <1>1, <1>2 DEF NamesInv, Endpoints

(* No step adds an endpoint without a name.                                *)
LEMMA NamesStep ==
  ASSUME ConfigInv, NamesInv, NEW t \in Terminals, ConfigStep(t)
  PROVE  NamesInv'
<1> USE DEF sessionVars
<1>0. /\ IsConfig(file) /\ IsConfig(cfg[t])
      /\ Endpoints(file) \subseteq Names /\ Endpoints(cfg[t]) \subseteq Names
      /\ cfg' = cfg => Edit(t, cfg[t])
      /\ \A step : Goto(t, step) => pc'[t] = step
  BY DEF ConfigInv, Shapes, IsArray, NamesInv, Edit, Goto
<1>1. CASE Exit(t) /\ Endpoints(file') \subseteq Names
  BY <1>0, <1>1, NamesEdit, ExampleNames DEF Exit
<1>2. CASE /\ UNCHANGED file /\ pc'[t] \notin {"fetch", "register"}
           /\ \E c : Edit(t, c) /\ Endpoints(c) \subseteq Names
  BY <1>0, <1>2, NamesEdit
<1>3. CASE UNCHANGED vars
  BY <1>3 DEF vars, NamesInv, Endpoints
<1>4. ASSUME NEW command \in {"download", "mic_only", "driver", "setup"}, Load(t, command)
      PROVE  NamesInv'
  BY <1>0, <1>2, <1>4 DEF Load
<1>5. ASSUME NEW id \in Ids, NEW model \in Models, NEW force \in BOOLEAN,
             DownloadChecks(t, id, model, force)
      PROVE  NamesInv'
  <2>1. args'[t][1] = <<DriverOf(model), id>>
    BY <1>5 DEF DownloadChecks, ConfigInv, Shapes, IsArray
  <2>2. args'[t][1] \in Names
    BY <2>1 DEF DriverOf, Names, Local
  <2>3. UNCHANGED file /\ Edit(t, cfg[t])
    BY <1>0, <1>5 DEF DownloadChecks
  <2> QED
    BY <1>0, <2>2, <2>3, NamesEdit
<1>6. CASE DownloadFetched(t)
  BY <1>0, <1>6, NamesEdit DEF DownloadFetched, At, NamesInv
<1>7. CASE DownloadRegisters(t)
  <2>1. args[t][1] \in Names
    BY <1>7 DEF DownloadRegisters, At, NamesInv
  <2> QED
    BY <1>0, <1>1, <1>7, <2>1, RegisterForFacts DEF DownloadRegisters
<1>8. CASE DownloadFails(t) \/ Leave(t) \/ (Exit(t) /\ UNCHANGED <<file, disk>>)
  BY <1>0, <1>1, <1>8 DEF DownloadFails, AfterFailure, Leave
<1>9. ASSUME NEW mic \in Mics, MicSaves(t, mic) PROVE NamesInv'
  BY <1>0, <1>1, <1>9 DEF MicSaves, IsConfig, Endpoints
<1>10. ASSUME NEW role \in Roles, NEW model \in Models, SetupInstalls(t, role, model)
       PROVE  NamesInv'
  <2>1. Default(role) \in Names /\ AfterRole(role) \notin {"fetch", "register"}
    BY ConfigAssumption DEF Default, AfterRole, Names, Local
  <2> QED
    BY <1>0, <1>2, <1>10, <2>1, RegisterForFacts DEF SetupInstalls
<1>11. CASE SetupStep(t) /\ ~Finish(t)
  <2>1. pc'[t] \notin {"fetch", "register"} /\ UNCHANGED file
    BY <1>0, <1>11 DEF SetupStep, SetupResets, SetupKeeps, AskGlobalMicrophone, SetupSelects,
       AfterRole, SetupAsksCombo, UpsertHotkey, SetupKeepsPart
  <2>2. CASE UNCHANGED cfg
    BY <1>0, <1>2, <2>1, <2>2
  <2>3. CASE SetupResets(t)
    <3>1. Endpoints(ResetConfig(cfg[t])) = {}
      BY <1>0 DEF ResetConfig, IsConfig, Endpoints, Restrict
    <3> QED
      BY <1>2, <2>1, <2>3, <3>1 DEF SetupResets
  <2>4. ASSUME NEW mic \in Mics, AskGlobalMicrophone(t, mic) PROVE NamesInv'
    BY <1>0, <1>2, <2>1, <2>4 DEF AskGlobalMicrophone, IsConfig, Endpoints
  <2>5. CASE UpsertHotkey(t)
    <3>1. PICK hotkeys : Edit(t, [cfg[t] EXCEPT !.hotkeys = hotkeys])
      BY <2>5 DEF UpsertHotkey
    <3> QED
      BY <1>0, <1>2, <2>1, <3>1 DEF IsConfig, Endpoints
  <2> QED
    BY <1>11, <2>2, <2>3, <2>4, <2>5 DEF SetupStep, SetupKeeps, SetupSelects, SetupAsksCombo,
       SetupKeepsPart
<1>12. CASE Finish(t)
  BY <1>0, <1>1, <1>12 DEF Finish
<1>13. CASE DriverStep(t)
  <2>1. PICK new : pc[t] = "driver" /\ SaveDriverConfig(t, new) /\ Endpoints(new) \subseteq Names
    <3>1. ASSUME NEW id \in Ids, NEW roles, DriverAdds(t, id, roles) \/ DriverConfigures(t, id, roles)
          PROVE  \E new : /\ pc[t] = "driver" /\ SaveDriverConfig(t, new)
                          /\ Endpoints(new) \subseteq Names
      BY <1>0, <3>1 DEF DriverAdds, DriverConfigures, At, With, IsConfig, Endpoints, Names
    <3>2. ASSUME NEW e, DriverDeletes(t, e)
          PROVE  \E new : /\ pc[t] = "driver" /\ SaveDriverConfig(t, new)
                          /\ Endpoints(new) \subseteq Names
      BY <1>0, <3>2 DEF DriverDeletes, At, Restrict, IsConfig, Endpoints
    <3> QED
      BY <1>13, <3>1, <3>2 DEF DriverStep
  <2>2. CASE Topology(new)
    BY <1>0, <2>1, <2>2, NamesEdit DEF SaveDriverConfig
  <2> QED
    BY <1>0, <1>1, <2>1, <2>2 DEF SaveDriverConfig
<1> QED
  BY <1>3, <1>4, <1>5, <1>6, <1>7, <1>8, <1>9, <1>10, <1>11, <1>12, <1>13
  DEF ConfigStep, CommandStep

(* The endpoints of the file and of every copy always have names.          *)
LEMMA NamesInvariant == InstallSpec => []NamesInv
<1>1. InstallInit => NamesInv
  BY ExampleNames DEF InstallInit, Init, NamesInv
<1>2. ConfigInv /\ NamesInv /\ [InstallNext]_allVars => NamesInv'
  <2> SUFFICES ASSUME ConfigInv, NamesInv, [InstallNext]_allVars PROVE NamesInv'
    OBVIOUS
  <2>1. CASE UNCHANGED allVars
    BY <2>1 DEF allVars, vars, NamesInv, Endpoints
  <2> QED
    BY <2>1, StepsOfTerminals, StepsOfConfig, NamesStep
<1> QED
  BY <1>1, <1>2, ConfigsAreBacked, PTL DEF InstallSpec
-----------------------------------------------------------------------------
(* The references of the hotkeys hold on when an endpoint gains words.     *)
LEMMA HotkeysHoldOn ==
  ASSUME NEW c, NEW d, d.hotkeys = c.hotkeys,
         \A e \in Endpoints(c) : e \in Endpoints(d) /\ (e[1] = Hosted \/ c.endpoints[e] \subseteq d.endpoints[e]),
         \A k \in Hotkeys(c) : HotkeyOK(c, c.hotkeys[k])
  PROVE  \A k \in Hotkeys(d) : HotkeyOK(d, d.hotkeys[k])
<1>1. ASSUME NEW ref, NEW role \in Roles, RefExists(c, ref, role) PROVE RefExists(d, ref, role)
  BY <1>1 DEF RefExists
<1> QED
  BY <1>1 DEF HotkeyOK, Hotkeys, Roles

(* Registering a model that is on the disk, under an id that no other      *)
(* driver has, keeps a config valid.                                       *)
LEMMA RegisteredStaysValid ==
  ASSUME NEW c, IsConfig(c), Endpoints(c) \subseteq Names, NEW e \in Names, ~OtherDriver(c, e),
         NEW onDisk, NEW model \in onDisk, Valid(c, onDisk)
  PROVE  Valid(RegisterFor(c, e, model), onDisk)
<1> DEFINE r == RegisterFor(c, e, model)
<1>1. /\ r.hotkeys = c.hotkeys
      /\ Endpoints(r) = Endpoints(c) \cup {e}
      /\ \A f \in Endpoints(c) : f # e => r.endpoints[f] = c.endpoints[f]
      /\ r.endpoints[e] = {model} \cup IF e \in Endpoints(c) THEN c.endpoints[e] ELSE {}
  BY RegisterForFacts
<1> HIDE DEF r
<1>2. UniqueIds(r)
  <2>1. \A f \in Endpoints(c) : f[2] = e[2] => f = e
    BY DEF OtherDriver, Names
  <2> QED
    BY <1>1, <2>1 DEF UniqueIds, Valid
<1>3. \A f \in Endpoints(r) :
        f[1] \in Local => r.endpoints[f] # {} /\ r.endpoints[f] \subseteq onDisk
  BY <1>1 DEF Valid
<1>4. \A k \in Hotkeys(r) : HotkeyOK(r, r.hotkeys[k])
  BY <1>1, HotkeysHoldOn DEF Valid
<1> QED
  BY <1>1, <1>2, <1>3, <1>4 DEF Valid, Hotkeys, r

(* The driver manager writes configs without checking the hotkeys: what    *)
(* it adds or configures breaks none, and what it deletes, only those that *)
(* use it.                                                                 *)
LEMMA DriverStaysValid ==
  ASSUME NEW t \in Terminals, IsConfig(file), cfg[t] = file, Endpoints(file) \subseteq Names,
         Valid(file, disk), DriverStep(t), UniqueIds(file'), file' # file
  PROVE  \/ Valid(file', disk)
         \/ \E e \in Endpoints(file) \ Endpoints(file') : Uses(file', e[2])
<1>1. ASSUME NEW id, NEW roles, DriverAdds(t, id, roles) \/ DriverConfigures(t, id, roles)
      PROVE  Valid(file', disk)
  <2>1. /\ file'.hotkeys = file.hotkeys
        /\ Endpoints(file') = Endpoints(file) \cup {<<Hosted, id>>}
        /\ \A e \in Endpoints(file) : e # <<Hosted, id>> => file'.endpoints[e] = file.endpoints[e]
    BY <1>1 DEF DriverAdds, DriverConfigures, SaveDriverConfig, With, IsConfig, Endpoints
  <2>2. Hosted \notin Local
    BY DEF Hosted, Local, Whisper, Llama
  <2>3. \A k \in Hotkeys(file') : HotkeyOK(file', file'.hotkeys[k])
    BY <2>1, HotkeysHoldOn DEF Valid
  <2> QED
    BY <2>1, <2>2, <2>3 DEF Valid, Hotkeys
<1>2. ASSUME NEW e, DriverDeletes(t, e), ~Uses(file', e[2])
      PROVE  Valid(file', disk)
  <2>1. /\ file'.hotkeys = file.hotkeys
        /\ Endpoints(file') = Endpoints(file) \ {e}
        /\ \A f \in Endpoints(file') : file'.endpoints[f] = file.endpoints[f]
    BY <1>2 DEF DriverDeletes, SaveDriverConfig, Restrict, IsConfig, Endpoints
  <2>2. ASSUME NEW k \in Hotkeys(file), NEW ref \in {file.hotkeys[k].stt} \cup file.hotkeys[k].chat,
               NEW role \in Roles, RefExists(file, ref, role)
        PROVE  RefExists(file', ref, role)
    <3>1. ref[1] # e[2]
      BY <1>2, <2>1, <2>2 DEF Uses, Hotkeys
    <3> QED
      BY <2>1, <2>2, <3>1 DEF RefExists
  <2>3. \A k \in Hotkeys(file') : HotkeyOK(file', file'.hotkeys[k])
    BY <2>1, <2>2 DEF Valid, HotkeyOK, Hotkeys, Roles
  <2>4. Endpoints(file') # {}
    <3>1. PICK k \in Hotkeys(file') : HotkeyOK(file', file'.hotkeys[k])
      BY <2>1, <2>3 DEF Valid, Hotkeys
    <3> QED
      BY <3>1 DEF HotkeyOK, RefExists
  <2>5. \A f \in Endpoints(file') :
          f[1] \in Local => file'.endpoints[f] # {} /\ file'.endpoints[f] \subseteq disk
    BY <2>1 DEF Valid
  <2> QED
    BY <2>1, <2>3, <2>4, <2>5 DEF Valid, Hotkeys
<1>3. ASSUME NEW e, DriverDeletes(t, e), Uses(file', e[2])
      PROVE  \E f \in Endpoints(file) \ Endpoints(file') : Uses(file', f[2])
  <2>1. e \in Endpoints(file) /\ Endpoints(file') = Endpoints(file) \ {e}
    BY <1>3 DEF DriverDeletes, SaveDriverConfig, Restrict, IsConfig, Endpoints
  <2> QED
    BY <1>3, <2>1
<1> QED
  BY <1>1, <1>2, <1>3 DEF DriverStep

(* A config that the daemon accepts stays acceptable, unless the driver    *)
(* manager deleted an endpoint that a hotkey uses, if one terminal is used.*)
THEOREM AcceptedStaysAccepted ==
  ASSUME OneTerminal PROVE InstallSpec => ValidStaysValid
<1>1. ConfigInv /\ NamesInv /\ CopyInv /\ [InstallNext]_allVars =>
        [Valid(file, disk) =>
           \/ Valid(file', disk')
           \/ \E e \in Endpoints(file) \ Endpoints(file') : Uses(file', e[2])]_file
  <2> SUFFICES ASSUME ConfigInv, NamesInv, CopyInv, [InstallNext]_allVars, file' # file,
                      Valid(file, disk)
               PROVE  \/ Valid(file', disk')
                      \/ \E e \in Endpoints(file) \ Endpoints(file') : Uses(file', e[2])
    OBVIOUS
  <2>1. PICK t \in Terminals : ConfigStep(t)
    BY StepsOfTerminals, StepsOfConfig DEF allVars, vars
  <2>2. IsConfig(file) /\ Endpoints(file) \subseteq Names
    BY DEF ConfigInv, Shapes, NamesInv
  <2>3. UNCHANGED disk
    BY <2>1, FileOrDisk
  <2>4. CASE pc[t] = "register"
    <3>1. /\ args[t][2] \in disk /\ ~OtherDriver(file, args[t][1])
          /\ file' = RegisterFor(file, args[t][1], args[t][2])
      BY <2>1, <2>4, Replacements
    <3>2. args[t][1] \in Names
      BY <2>4 DEF NamesInv
    <3> QED
      BY <2>2, <2>3, <3>1, <3>2, RegisteredStaysValid
  <2>5. CASE pc[t] = "mic_only"
    <3>1. PICK mic : file' = [file EXCEPT !.mic = mic]
      BY <2>1, <2>5, Replacements
    <3>2. file'.endpoints = file.endpoints /\ file'.hotkeys = file.hotkeys
      BY <2>2, <3>1 DEF IsConfig
    <3> QED
      BY <2>3, <3>2 DEF Valid, UniqueIds, HotkeyOK, RefExists, Endpoints, Hotkeys
  <2>6. CASE pc[t] \in {"finish", "save_part"}
    BY <2>1, <2>3, <2>6, Replacements
  <2>7. CASE pc[t] = "driver"
    <3>1. cfg[t] = file /\ DriverStep(t) /\ UniqueIds(file')
      BY <2>1, <2>7, Replacements
    <3> QED
      BY <2>2, <2>3, <3>1, DriverStaysValid
  <2> QED
    BY <2>1, <2>4, <2>5, <2>6, <2>7, Replacements
<1> QED
  BY <1>1, ConfigsAreBacked, NamesInvariant, CopyInvariant, PTL DEF InstallSpec, ValidStaysValid
=============================================================================

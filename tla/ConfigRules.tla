---------------------------- MODULE ConfigRules -----------------------------
(***************************************************************************)
(* config.json as a value, and what the commands compute from it: what     *)
(* config.Validate accepts, which model sources setup offers, what         *)
(* registering a model and resetting the config change.                    *)
(*                                                                         *)
(* The driver blocks are flattened: an endpoint is a pair <<kind, id>>, so *)
(* that one id may be claimed by two drivers.  Its contents are a set of   *)
(* words: a local endpoint's, its registered models, each standing for its *)
(* file; a hosted endpoint's, "key" once it has an API key other than the  *)
(* shipped placeholder, and the roles that setup finds a model of it for.  *)
(* A hotkey is its transcription reference and the references of its       *)
(* enabled text stages.                                                    *)
(***************************************************************************)
EXTENDS Naturals, FiniteSets, Functions

CONSTANTS
  Ids,             \* endpoint ids a user may choose
  SpeechModels,    \* models of whisper_cpp
  ChatModels,      \* models of llama_cpp
  Shipped,         \* the shipped example's model, which is not on the disk
  Combos,          \* hotkey combinations
  Mics             \* values of the microphone setting

Hosted  == "openai_compatible"
Whisper == "whisper_cpp"
Llama   == "llama_cpp"
Local   == {Whisper, Llama}
Roles   == {"stt", "chat"}
Models  == SpeechModels \cup ChatModels

ASSUME ConfigAssumption ==
  /\ Shipped \notin Models
  /\ Models \cap (Roles \cup {"key"}) = {}
  /\ {"openai", "local-llm", "speech", "text"} \subseteq Ids

(* The endpoint that setup installs a model under, and its driver.         *)
Default(role) == IF role = "stt" THEN <<Whisper, "speech">> ELSE <<Llama, "text">>
DriverOf(model) == IF model \in SpeechModels THEN Whisper ELSE Llama
Catalog(role) == IF role = "stt" THEN SpeechModels ELSE ChatModels

Endpoints(cfg) == DOMAIN cfg.endpoints
Hotkeys(cfg)   == DOMAIN cfg.hotkeys

(* f with y at x, whether x is in its domain or not.                       *)
With(f, x, y) == [z \in DOMAIN f \cup {x} |-> IF z = x THEN y ELSE f[z]]

(* What Load writes when there is no file: a hosted endpoint without a     *)
(* key, a local one whose model was never downloaded, and hotkeys.         *)
Example ==
  [ endpoints |-> With([e \in {<<Hosted, "openai">>} |-> Roles],
                       <<Llama, "local-llm">>, {Shipped}),
    hotkeys   |-> [c \in {CHOOSE c \in Combos : TRUE} |->
                     [stt |-> <<"openai", "stt">>, chat |-> {<<"openai", "chat">>}]],
    mic       |-> CHOOSE m \in Mics : TRUE ]
-----------------------------------------------------------------------------
UniqueIds(cfg) == \A e, f \in Endpoints(cfg) : e[2] = f[2] => e = f

(* checkModelRef: a hosted endpoint takes any model, a local one takes     *)
(* what is registered, for the stages its driver supports.                 *)
RefExists(cfg, ref, role) ==
  \E e \in Endpoints(cfg) :
    /\ e[2] = ref[1]
    /\ \/ e[1] = Hosted
       \/ e[1] = Default(role)[1] /\ ref[2] \in cfg.endpoints[e]

HotkeyOK(cfg, hk) ==
  /\ RefExists(cfg, hk.stt, "stt")
  /\ \A ref \in hk.chat : RefExists(cfg, ref, "chat")

(* Validate, with the model files that are on the disk.                    *)
Valid(cfg, disk) ==
  /\ Endpoints(cfg) # {} /\ UniqueIds(cfg)
  /\ \A e \in Endpoints(cfg) :
       e[1] \in Local => cfg.endpoints[e] # {} /\ cfg.endpoints[e] \subseteq disk
  /\ Hotkeys(cfg) # {}
  /\ \A c \in Hotkeys(cfg) : HotkeyOK(cfg, cfg.hotkeys[c])

(* IsUnconfigured: no API key, and no local model whose file exists.       *)
IsUnconfigured(cfg, disk) ==
  \A e \in Endpoints(cfg) : cfg.endpoints[e] \cap (disk \cup {"key"}) = {}

ResetConfig(cfg) ==
  [cfg EXCEPT !.endpoints = Restrict(cfg.endpoints, {}),
              !.hotkeys = Restrict(cfg.hotkeys, {})]

(* RegisterFor: the endpoint is created if it is missing.                  *)
RegisterFor_Replacing(cfg, e, model) ==
  [cfg EXCEPT !.endpoints = With(@, e, {model})]
RegisterFor(cfg, e, model) ==
  [cfg EXCEPT !.endpoints =
     With(@, e, {model} \cup IF e \in Endpoints(cfg) THEN @[e] ELSE {})]

(* otherDriverForEndpoint finds the id of e under another driver.          *)
OtherDriver_Unchecked(cfg, e) == FALSE
OtherDriver(cfg, e) == \E f \in Endpoints(cfg) : f[2] = e[2] /\ f[1] # e[1]

(* availableModelSources: one set of references per usable endpoint.       *)
SourceRefs(cfg, disk, role, e) ==
  {e[2]} \X (cfg.endpoints[e] \cap CASE e[1] = Default(role)[1] -> disk
    [] e[1] = Hosted /\ "key" \in cfg.endpoints[e] -> {role}
    [] OTHER -> {})
Sources(cfg, disk, role) ==
  {SourceRefs(cfg, disk, role, e) : e \in Endpoints(cfg)} \ {{}}

(* selectAvailableModel: with a single source the current model, or else   *)
(* its first in the order of names, which is abstracted; with several, the *)
(* user's choice.                                                          *)
Selectable(cfg, disk, role, current) ==
  LET sources == Sources(cfg, disk, role)
      refs == UNION sources
  IN  IF Cardinality(sources) = 1 /\ current \cap refs # {}
        THEN current \cap refs
        ELSE refs

(* validateDriverTopology: unique ids are all that is left to check.       *)
Topology(cfg) == UniqueIds(cfg)
=============================================================================

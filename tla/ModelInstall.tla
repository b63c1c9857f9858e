---------------------------- MODULE ModelInstall ----------------------------
(***************************************************************************)
(* The commands of ConfigCommands with the download of one of their models *)
(* followed block by block (ModelFetch): gosaid model download and the     *)
(* wizard call fetchToFile and register what it leaves on the disk.  The   *)
(* other models arrive, or do not, in one step.                            *)
(***************************************************************************)
EXTENDS ConfigCommands

CONSTANTS
  Tracked,   \* the model that is followed
  Files,     \* the files its download may create
  None,
  Size       \* its blocks

ASSUME InstallAssumption ==
  /\ Tracked \in Models
  /\ None \notin Files /\ Size \in Nat \ {0}

VARIABLES
  fetch, handle, written, contents, part, dest, sized, cut   \* the state of ModelFetch

F == INSTANCE ModelFetch WITH Fetchers <- Terminals, pc <- fetch

fetchVars == <<fetch, handle, written, contents, part, dest, sized, cut>>
allVars   == <<vars, fetchVars>>

InstallInit ==
  /\ Init /\ F!Init
  /\ dest # None <=> Tracked \in disk

(* fetchToFile for the tracked model, called by gosaid model download or,  *)
(* where the file is missing, by the wizard.                               *)
Calls(t) ==
  \/ At(t, "fetch") /\ args[t][2] = Tracked
  \/ dest = None /\ \E role \in Roles : MayInstall(t, role, Tracked)

FetchBegins(t) == Calls(t) /\ F!Requests(t) /\ UNCHANGED vars

Fetching(t) == (F!Creates(t) \/ F!Copies(t) \/ F!Closes(t)) /\ UNCHANGED vars

(* It returns nil: the model is on the disk, or was already.               *)
Installs(t) == \E role \in Roles : SetupInstalls(t, role, Tracked)

FetchReturns(t) ==
  \/ F!Renames(t) /\ (DownloadFetched(t) \/ Installs(t))
  \/ F!Reuses(t) /\ Installs(t)

(* It returns an error: the command fails, or the wizard offers to save    *)
(* what it has.                                                            *)
FetchFails(t) ==
  /\ F!RequestFails(t) \/ F!Removes(t)
  /\ DownloadFails(t) \/ Leave(t) \/ SetupKeepsPart(t)

(* The user interrupts the command, and no deferred call runs.             *)
Interrupted(t) == F!Kill(t) /\ Exit(t) /\ UNCHANGED <<file, disk>>

TrackedStep(t) ==
  FetchBegins(t) \/ Fetching(t) \/ FetchReturns(t) \/ FetchFails(t) \/ Interrupted(t)

(* The download of another model, in one step.                             *)
OtherDownload(t) ==
  \/ args[t] # <<>> /\ args[t][2] # Tracked /\ (DownloadFetched(t) \/ DownloadFails(t))
  \/ \E role \in Roles, model \in Models \ {Tracked} : SetupInstalls(t, role, model)

InstallNext ==
  \E t \in Terminals :
    \/ TrackedStep(t)
    \/ F!Idle(t) /\ (CommandStep(t) \/ OtherDownload(t)) /\ UNCHANGED fetchVars

InstallSpec == InstallInit /\ [][InstallNext]_allVars
-----------------------------------------------------------------------------
InstallTypeOK == TypeOK /\ F!TypeOK /\ (dest # None <=> Tracked \in disk)

(* A model is registered in the file only once its file is on the disk,    *)
(* but for the shipped example's, and from then on that file is whole if   *)
(* the response it came from declared a length: whatever failed or was     *)
(* interrupted, the daemon then never loads a part of a model, not even    *)
(* while --force downloads it again.  What comes without a length may be   *)
(* cut short and is registered all the same, for no size is compared.      *)
RegisteredIsComplete ==
  \A e \in Endpoints(file) : e[1] \in Local =>
    /\ file.endpoints[e] \subseteq disk \cup {Shipped}
    /\ Tracked \in file.endpoints[e] => F!DestIsWhole
=============================================================================

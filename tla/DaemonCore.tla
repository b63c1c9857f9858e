----------------------------- MODULE DaemonCore -----------------------------
(***************************************************************************)
(* The daemon's state machine, internal/daemon/core.go, and its mirror in  *)
(* state.json, internal/daemon/statefile.go, as operators that any         *)
(* goroutine of the daemon may call; Dictation composes them with the      *)
(* callers.                                                                *)
(*                                                                         *)
(* Core.Transition changes the state under Core.mu and only then, with the *)
(* lock released, runs the subscribers on the calling goroutine: the two   *)
(* halves are separate steps here (Transition, Publish), and a goroutine   *)
(* with a pending note does nothing else until it has published it.  Of    *)
(* the subscribers (log, sound cue, UpdateState) only the last changes     *)
(* state that is modelled.  Publish of "error" also schedules the recovery.*)
(***************************************************************************)
EXTENDS Naturals

CONSTANTS
  Callers,      \* goroutines that call Transition, but for the recoveries
  Recoveries,   \* timers of the error recovery, and their goroutines
  None          \* no pending note

VARIABLES
  core,      \* Core.state
  note,      \* note[g]: the new state g has still to tell the subscribers
  mirror,    \* the "state" field of state.json
  recovery   \* recovery[r]: free, armed (2 s running) or checked

coreVars == <<core, note, mirror, recovery>>

States == {"idle", "recording", "transcribing", "processing", "injecting", "error"}
Speakers == Callers \cup Recoveries

ASSUME NoneAssumption == None \notin States

CoreTypeOK ==
  /\ core     \in States
  /\ note     \in [Speakers -> States \cup {None}]
  /\ mirror   \in States
  /\ recovery \in [Recoveries -> {"free", "armed", "checked"}]

CoreInit ==
  /\ core     = "idle"
  /\ note     = [g \in Speakers |-> None]
  /\ mirror   = "idle"
  /\ recovery = [r \in Recoveries |-> "free"]

Quiet(g) == note[g] = None

(* Transition, the locked half: nothing happens if the state is the same.  *)
Transition(g, next) ==
  /\ core' = next
  /\ note' = [note EXCEPT ![g] = IF core = next THEN None ELSE next]
  /\ UNCHANGED <<mirror, recovery>>

(* afterFunc(ErrorRecoveryDelay, recoverFromError), once the subscribers   *)
(* have run.                                                               *)
Schedule_Never(s) == UNCHANGED recovery
Schedule(s) ==
  \/ /\ s = "error"
     /\ \E r \in Recoveries :
          /\ recovery[r] = "free" /\ Quiet(r)
          /\ recovery' = [recovery EXCEPT ![r] = "armed"]
  \/ /\ s # "error"
     /\ UNCHANGED recovery

(* Transition, the second half: the subscribers run, unlocked.             *)
Publish(g) ==
  /\ note[g] # None
  /\ mirror' = note[g]
  /\ note'   = [note EXCEPT ![g] = None]
  /\ Schedule(note[g])
  /\ UNCHANGED core

(* recoverFromError looks at the state, releases the lock ...              *)
RecoveryChecks(r) ==
  /\ recovery[r] = "armed"
  /\ recovery' = [recovery EXCEPT ![r] = IF core = "error" THEN "checked" ELSE "free"]
  /\ UNCHANGED <<core, note, mirror>>

(* ... and calls Transition.                                               *)
RecoveryActs(r) ==
  /\ recovery[r] = "checked" /\ Quiet(r)
  /\ core' = "idle"
  /\ note' = [note EXCEPT ![r] = IF core = "idle" THEN None ELSE "idle"]
  /\ recovery' = [recovery EXCEPT ![r] = "free"]
  /\ UNCHANGED mirror

(* The end of ErrorRecoveryDelay.                                          *)
Recover(r) == RecoveryChecks(r) \/ RecoveryActs(r)
=============================================================================

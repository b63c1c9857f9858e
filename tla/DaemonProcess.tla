--------------------------- MODULE DaemonProcess ----------------------------
(***************************************************************************)
(* Daemon processes that come and go: daemon.Run from Acquire to the last  *)
(* deferred call (internal/daemon/daemon.go), the PID file (pidfile.go)    *)
(* and the life of state.json (statefile.go), under crashes and restarts.  *)
(*                                                                         *)
(* A daemon is a launch; its PID is the operating system's choice.  The    *)
(* PID file is truncated and then written.  state.json is replaced by a    *)
(* rename, so its writes are single steps; what a dictation writes there   *)
(* is reduced to the fact that it was written, by whom.                    *)
(*                                                                         *)
(* File operations fail.  A failed Acquire ends the process; every failure *)
(* to write or remove state.json, and to remove the PID file, is logged or *)
(* dropped and the daemon goes on (daemon.go:69-82, 121-125).  One failure *)
(* is left out: a PID file that is there and cannot be read, which Acquire *)
(* takes for none.                                                         *)
(***************************************************************************)
EXTENDS Naturals, FiniteSets

CONSTANTS
  Daemons,     \* launches of gosaid
  Pids,        \* process ids
  None,        \* no file
  Empty,       \* a PID file without a number in it
  TwoAtOnce,   \* may a daemon be launched while another one starts?
  Reuse        \* may a dead daemon's PID be given again?

ASSUME DaemonProcessAssumption ==
  /\ None \notin Pids /\ Empty \notin Pids /\ None # Empty
  /\ TwoAtOnce \in BOOLEAN /\ Reuse \in BOOLEAN

VARIABLES
  pc,         \* where each daemon is
  pid,        \* os.Getpid() of a daemon
  alive,      \* PIDs of live processes
  used,       \* PIDs that were given once
  pidFile,    \* contents of the PID file
  stateFile,  \* pid field of state.json
  statePath,  \* statePath of a daemon is set
  wrote,      \* ghost: a daemon's write of state.json went through
  left        \* ghost: something was left behind: a daemon was killed, or could
              \* not write its PID or not remove a file

files == <<pidFile, stateFile>>
ghosts == <<wrote, left>>
vars == <<pc, pid, alive, used, pidFile, stateFile, statePath, wrote, left>>

Init ==
  /\ pc = [d \in Daemons |-> "new"]
  /\ pid = [d \in Daemons |-> None]
  /\ alive = {} /\ used = {}
  /\ pidFile = None /\ stateFile = None
  /\ statePath = [d \in Daemons |-> FALSE]
  /\ wrote = [d \in Daemons |-> FALSE] /\ left = FALSE

Up(d)    == pc[d] \notin {"new", "refused", "gone"}
Starting == {d \in Daemons : pc[d] \in {"acquire", "write", "fill"}}

Goto(d, to) == pc' = [pc EXCEPT ![d] = to]
-----------------------------------------------------------------------------
Launch(d) ==
  /\ pc[d] = "new"
  /\ TwoAtOnce \/ Starting = {}
  /\ \E p \in Pids \ (IF Reuse THEN alive ELSE used) :
       /\ pid'   = [pid EXCEPT ![d] = p]
       /\ alive' = alive \cup {p}
       /\ used'  = used \cup {p}
  /\ Goto(d, "acquire")
  /\ UNCHANGED <<files, statePath, ghosts>>

(* Acquire reads the file: a live PID in it means another instance ...     *)
Held_Never == FALSE
Held_Always == pidFile \in Pids
Held == pidFile \in alive

AcquireReads(d) ==
  /\ pc[d] = "acquire"
  /\ Goto(d, IF Held THEN "refused" ELSE "write")
  /\ alive' = IF Held THEN alive \ {pid[d]} ELSE alive
  /\ UNCHANGED <<pid, used, files, statePath, ghosts>>

(* ... otherwise os.WriteFile truncates it ...                             *)
AcquireTruncates(d) ==
  /\ pc[d] = "write"
  /\ pidFile' = Empty
  /\ Goto(d, "fill")
  /\ UNCHANGED <<pid, alive, used, stateFile, statePath, ghosts>>

(* ... and writes the PID.                                                 *)
AcquireWrites(d) ==
  /\ pc[d] = "fill"
  /\ pidFile' = pid[d]
  /\ Goto(d, "init")
  /\ UNCHANGED <<pid, alive, used, stateFile, statePath, ghosts>>

(* writeStateFileLocked: MkdirAll, CreateTemp, Write, Close and Rename; one *)
(* that fails leaves the file that was there.                              *)
WriteStateFile(d) ==
  \/ stateFile' = pid[d] /\ wrote' = [wrote EXCEPT ![d] = TRUE]
  \/ UNCHANGED <<stateFile, wrote>>

(* Without a config directory there is no path; the daemon serves anyway.  *)
InitStateFile(d) ==
  /\ pc[d] = "init"
  /\ \/ UNCHANGED <<statePath, stateFile, wrote>>
     \/ statePath' = [statePath EXCEPT ![d] = TRUE] /\ WriteStateFile(d)
  /\ Goto(d, "serve")
  /\ UNCHANGED <<pid, alive, used, pidFile, left>>

(* UpdateState or RecordInjection, on any goroutine the process still has. *)
UpdateState(d) ==
  /\ Up(d) /\ statePath[d]
  /\ WriteStateFile(d)
  /\ UNCHANGED <<pc, pid, alive, used, pidFile, statePath, left>>

(* SIGINT or SIGTERM, or an error in the rest of the start-up: Run returns *)
(* and its deferred calls run, the last one first.                         *)
Returns(d) ==
  /\ pc[d] = "serve"
  /\ Goto(d, "clear")
  /\ UNCHANGED <<pid, alive, used, files, statePath, ghosts>>

PathCleared_Kept(d) == statePath
PathCleared(d) == [statePath EXCEPT ![d] = FALSE]

(* os.Remove may fail; the path is forgotten all the same.                 *)
ClearStateFile(d) ==
  /\ pc[d] = "clear"
  /\ \/ ~statePath[d] /\ UNCHANGED <<stateFile, left>>
     \/ statePath[d] /\ stateFile' = None /\ UNCHANGED left
     \/ statePath[d] /\ UNCHANGED stateFile /\ left' = TRUE
  /\ statePath' = PathCleared(d)
  /\ Goto(d, "release")
  /\ UNCHANGED <<pid, alive, used, pidFile, wrote>>

(* Release removes the file if it belongs to this process.                 *)
Owned(d) == pidFile = pid[d]

ReleaseReads(d) ==
  /\ pc[d] = "release"
  /\ Goto(d, IF Owned(d) THEN "remove" ELSE "exit")
  /\ UNCHANGED <<pid, alive, used, files, statePath, ghosts>>

ReleaseRemoves(d) ==
  /\ pc[d] = "remove"
  /\ pidFile' = None
  /\ Goto(d, "exit")
  /\ UNCHANGED <<pid, alive, used, stateFile, statePath, ghosts>>

(* The read or the Remove fails; its error is dropped.                     *)
ReleaseFails(d) ==
  /\ pc[d] \in {"release", "remove"}
  /\ Goto(d, "exit")
  /\ left' = TRUE
  /\ UNCHANGED <<pid, alive, used, files, statePath, wrote>>

Ends(d) ==
  /\ Goto(d, "gone")
  /\ alive' = alive \ {pid[d]}
  /\ statePath' = [statePath EXCEPT ![d] = FALSE]
  /\ UNCHANGED <<pid, used, files, wrote>>

Exit(d) == pc[d] = "exit" /\ Ends(d) /\ UNCHANGED left

(* MkdirAll or WriteFile fails, the latter perhaps after it truncated the  *)
(* file: Run returns before it defers anything.                            *)
AcquireFails(d) ==
  /\ pc[d] \in {"acquire", "write", "fill"}
  /\ Ends(d)
  /\ left' = (left \/ pc[d] = "fill")

(* Killed, or crashed, at any point: no deferred call runs.                *)
Crash(d) == Up(d) /\ Ends(d) /\ left' = TRUE

DaemonStep(d) ==
  \/ Launch(d) \/ AcquireReads(d) \/ AcquireTruncates(d) \/ AcquireWrites(d)
  \/ AcquireFails(d) \/ InitStateFile(d) \/ UpdateState(d) \/ Returns(d)
  \/ ClearStateFile(d) \/ ReleaseReads(d) \/ ReleaseRemoves(d) \/ ReleaseFails(d)
  \/ Exit(d) \/ Crash(d)

Next == \E d \in Daemons : DaemonStep(d)

Spec == Init /\ [][Next]_vars
-----------------------------------------------------------------------------
TypeOK ==
  /\ pc \in [Daemons -> {"new", "acquire", "refused", "write", "fill", "init", "serve",
                         "clear", "release", "remove", "exit", "gone"}]
  /\ pid \in [Daemons -> Pids \cup {None}]
  /\ alive \subseteq used /\ used \subseteq Pids
  /\ pidFile \in Pids \cup {None, Empty}
  /\ stateFile \in Pids \cup {None}
  /\ statePath \in [Daemons -> BOOLEAN]
  /\ wrote \in [Daemons -> BOOLEAN] /\ left \in BOOLEAN

(* At most one daemon listens to the hotkeys and the microphone.           *)
OneDaemon == \A d, e \in Daemons : pc[d] = "serve" /\ pc[e] = "serve" => d = e

(* What a reader of the files may conclude, whatever failed or was killed  *)
(* before, and whatever a predecessor's last goroutines still wrote.  A    *)
(* daemon that serves is in the PID file, and in state.json from its first *)
(* write that goes through: until then, and that may be for ever, a stale  *)
(* file or none.  A daemon that has yet to start is not in state.json, so  *)
(* a PID there that lives is that of the file's writer ("dead pid: treat   *)
(* as idle").  With all daemons ended and nothing left behind both are     *)
(* gone, even if writes of state.json failed ("a missing file is the       *)
(* agreed daemon-not-running signal to readers").                          *)
FilesTellWhoServes ==
  /\ \A d \in Daemons : pc[d] = "serve" =>
       pidFile = pid[d] /\ (wrote[d] => stateFile = pid[d])
  /\ ~Reuse => \A d \in Daemons :
       pc[d] \in {"acquire", "write", "fill", "init"} => stateFile # pid[d]
  /\ (~left /\ \A d \in Daemons : ~Up(d)) => pidFile = None /\ stateFile = None

(* A start is refused only while another daemon is up.                     *)
RefusalMeansDaemon ==
  [][\A d \in Daemons : pc[d] = "acquire" /\ pc'[d] = "refused" =>
       \E e \in Daemons \ {d} : Up(e)]_vars
=============================================================================

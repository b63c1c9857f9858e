------------------------ MODULE DaemonProcessProofs -------------------------
(***************************************************************************)
(* Proofs about DaemonProcess, for any number of launches and process ids, *)
(* whatever crashes when, when no daemon is launched while another starts. *)
(***************************************************************************)
EXTENDS DaemonProcess, TLAPS

(* A daemon that is about to start.                                        *)
Before(d) == pc[d] \in {"new", "acquire", "write", "fill", "init"}

(* Processes that are up have ids of their own, and only they are alive.   *)
PidsApart ==
  /\ \A d \in Daemons : Up(d) => pid[d] \in alive
  /\ \A d, e \in Daemons : Up(d) /\ Up(e) /\ pid[d] = pid[e] => d = e
  /\ \A p \in alive : \E d \in Daemons : Up(d) /\ pid[d] = p

(* Between its WriteFile and its Remove a daemon owns the PID file.        *)
Owner(d) == pc[d] \in {"init", "serve", "clear", "release", "remove"}

OwnersFile == \A d \in Daemons : Owner(d) => pidFile = pid[d]

(* The reader of a PID file acts on what it read before another starts:    *)
(* one that decided to write found no owner, and none comes.               *)
StartsAlone ==
  /\ \A d, e \in Starting : d = e
  /\ \A d \in Daemons : pc[d] \in {"write", "fill"} => \A e \in Daemons : ~Owner(e)

(* What a daemon wrote to state.json stays until it clears it or ends.     *)
WritersState ==
  /\ \A d \in Daemons : wrote[d] => ~Before(d)
  /\ \A d \in Daemons : wrote[d] /\ pc[d] \in {"serve", "clear"} => stateFile = pid[d]

(* Until something is left behind every file has somebody who will remove  *)
(* it.                                                                     *)
FilesHaveOwners ==
  ~left =>
    /\ pidFile \in Pids => \E d \in Daemons : Owner(d)
    /\ pidFile = Empty => \E d \in Daemons : pc[d] = "fill"
    /\ stateFile # None => \E d \in Daemons : statePath[d]

(* A PID that is not given twice is not the one an earlier daemon wrote.   *)
FilesAreOlder ==
  /\ pidFile \in used \cup {None, Empty}
  /\ stateFile \in used \cup {None}
  /\ ~Reuse => \A d \in Daemons : pc[d] = "acquire" => pidFile # pid[d]
  /\ ~Reuse => \A d \in Daemons :
       pc[d] \in {"acquire", "write", "fill", "init"} => stateFile # pid[d]

(* state.json is written between InitStateFile and ClearStateFile only.    *)
PathIsServers == \A d \in Daemons : statePath[d] => pc[d] \in {"serve", "clear"}

(* What holds of any launches: OneDaemon is no part of it.                 *)
PidInv == TypeOK /\ PidsApart /\ FilesAreOlder /\ PathIsServers

(* OneDaemon alone is not inductive: two daemons are kept apart by the PID *)
(* file, which works only if the file is its owner's, PIDs are distinct    *)
(* and nobody starts between another one's reading and writing.            *)
FileInv == OwnersFile /\ StartsAlone /\ WritersState /\ FilesHaveOwners
-----------------------------------------------------------------------------
(* The steps that start or end a process ...                               *)
LEMMA PidLaunchStep ==
  ASSUME PidInv, NEW d \in Daemons, Launch(d)
  PROVE  PidInv'
<1> USE DEF PidInv, TypeOK, Launch, Goto, files
<1>1. PICK p \in Pids \ (IF Reuse THEN alive ELSE used) :
        /\ pid'   = [pid EXCEPT ![d] = p]
        /\ alive' = alive \cup {p}
        /\ used'  = used \cup {p}
  OBVIOUS
<1>2. TypeOK'
  BY <1>1 DEF ghosts
<1>3. p \notin alive
  BY <1>1
<1>4. PidsApart'
  BY <1>1, <1>3 DEF PidsApart, Up
<1>5. FilesAreOlder'
  BY <1>1, DaemonProcessAssumption DEF FilesAreOlder
<1>6. PathIsServers'
  BY DEF PathIsServers
<1> QED
  BY <1>2, <1>4, <1>5, <1>6

(* A process that ends takes its PID with it.                              *)
LEMMA PidEndStep ==
  ASSUME PidInv, NEW d \in Daemons, Up(d), pid' = pid, UNCHANGED <<used, files>>,
         pc' = [pc EXCEPT ![d] = "gone"] \/ pc' = [pc EXCEPT ![d] = "refused"],
         alive' = alive \ {pid[d]}, statePath' \in [Daemons -> BOOLEAN],
         \A e \in Daemons : statePath'[e] => statePath[e] /\ e # d,
         wrote' = wrote, left' \in BOOLEAN
  PROVE  PidInv'
<1> USE DEF PidInv, TypeOK, files
<1>1. TypeOK'
  OBVIOUS
<1>2. PidsApart'
  BY DEF PidsApart, Up
<1>3. FilesAreOlder'
  BY DEF FilesAreOlder
<1>4. PathIsServers'
  BY DEF PathIsServers
<1> QED
  BY <1>1, <1>2, <1>3, <1>4

(* ... and the others, which leave the process ids alone.                  *)
LEMMA PidQuietStep ==
  ASSUME PidInv, NEW d \in Daemons, Up(d), UNCHANGED <<pid, alive, used>>,
         NEW to \in {"write", "fill", "init", "serve", "clear", "release", "remove", "exit"},
         pc' = [pc EXCEPT ![d] = to],
         to \in {"write", "fill", "init"} => pc[d] \in {"acquire", "write", "fill"},
         pidFile' \in {pidFile, Empty, None} \/ (to = "init" /\ pidFile' = pid[d]),
         stateFile' \in {stateFile, None} \/ (to = "serve" /\ stateFile' = pid[d]),
         statePath' \in [Daemons -> BOOLEAN], wrote' \in [Daemons -> BOOLEAN],
         left' \in BOOLEAN,
         \A e \in Daemons : statePath'[e] =>
           (statePath[e] /\ e # d) \/ (e = d /\ to \in {"serve", "clear"})
  PROVE  PidInv'
<1> USE DEF PidInv, TypeOK
<1>1. pid[d] \in alive
  BY DEF PidsApart
<1>2. TypeOK'
  BY <1>1
<1>3. PidsApart'
  BY DEF PidsApart, Up
<1>4. FilesAreOlder'
  <2>1. pidFile' \in used' \cup {None, Empty} /\ stateFile' \in used' \cup {None}
    BY <1>1 DEF FilesAreOlder
  <2>2. ASSUME ~Reuse, NEW e \in Daemons, pc'[e] = "acquire" PROVE pidFile' # pid'[e]
    <3>1. e # d /\ pc[e] = "acquire"
      BY <2>2
    <3>2. pid[e] # pid[d] /\ pid[e] \in Pids
      BY <3>1 DEF PidsApart, Up
    <3> QED
      BY <2>2, <3>1, <3>2, DaemonProcessAssumption DEF FilesAreOlder
  <2>3. ASSUME ~Reuse, NEW e \in Daemons, pc'[e] \in {"acquire", "write", "fill", "init"}
        PROVE  stateFile' # pid'[e]
    <3>1. CASE e = d
      BY <2>3, <3>1, <1>1, DaemonProcessAssumption DEF FilesAreOlder
    <3>2. CASE e # d
      <4>1. pid[e] # pid[d] /\ pid[e] \in Pids /\ pc[e] = pc'[e]
        BY <2>3, <3>2 DEF PidsApart, Up
      <4> QED
        BY <2>3, <4>1, DaemonProcessAssumption DEF FilesAreOlder
    <3> QED
      BY <3>1, <3>2
  <2> QED
    BY <2>1, <2>2, <2>3 DEF FilesAreOlder
<1>5. PathIsServers'
  BY DEF PathIsServers
<1> QED
  BY <1>2, <1>3, <1>4, <1>5

(* Distinct processes keep distinct PIDs, and a PID that is used once is   *)
(* in no file that is older than its process.                              *)
LEMMA PidStep == PidInv /\ [Next]_vars => PidInv'
<1> SUFFICES ASSUME PidInv, [Next]_vars PROVE PidInv'
  OBVIOUS
<1> USE DEF Goto, Up, files, ghosts
<1>1. CASE UNCHANGED vars
  BY <1>1 DEF vars, PidInv, TypeOK, PidsApart, FilesAreOlder, PathIsServers
<1>2. ASSUME NEW d \in Daemons, DaemonStep(d) PROVE PidInv'
  <2> USE DEF PidInv, TypeOK, PathIsServers
  <2>1. CASE Launch(d)
    BY <2>1, PidLaunchStep
  <2>2. CASE AcquireReads(d)
    <3>1. CASE Held
      BY <2>2, <3>1, PidEndStep DEF AcquireReads
    <3>2. CASE ~Held
      BY <2>2, <3>2, PidQuietStep DEF AcquireReads
    <3> QED
      BY <3>1, <3>2
  <2>3. CASE AcquireTruncates(d)
    BY <2>3, PidQuietStep DEF AcquireTruncates
  <2>4. CASE AcquireWrites(d)
    BY <2>4, PidQuietStep DEF AcquireWrites
  <2>5. CASE InitStateFile(d)
    <3>1. /\ statePath' \in [Daemons -> BOOLEAN] /\ wrote' \in [Daemons -> BOOLEAN]
          /\ \A e \in Daemons : statePath'[e] => e = d
               \/ (statePath[e] /\ e # d)
      BY <2>5 DEF InitStateFile, WriteStateFile
    <3>2. stateFile' = stateFile \/ stateFile' = pid[d]
      BY <2>5 DEF InitStateFile, WriteStateFile
    <3> QED
      BY <2>5, <3>1, <3>2, PidQuietStep DEF InitStateFile
  <2>6. CASE UpdateState(d)
    <3>1. /\ pc[d] \in {"serve", "clear"} /\ pid[d] \in alive
          /\ stateFile' = stateFile \/ stateFile' = pid[d]
      BY <2>6 DEF UpdateState, WriteStateFile, PidsApart
    <3>2. wrote' \in [Daemons -> BOOLEAN]
      BY <2>6 DEF UpdateState, WriteStateFile
    <3>3. TypeOK' /\ PidsApart' /\ PathIsServers'
      BY <2>6, <3>1, <3>2 DEF UpdateState, PidsApart
    <3>4. FilesAreOlder'
      BY <2>6, <3>1 DEF UpdateState, FilesAreOlder, PidsApart
    <3> QED
      BY <3>3, <3>4
  <2>7. CASE Returns(d)
    BY <2>7, PidQuietStep DEF Returns
  <2>8. CASE ClearStateFile(d)
    <3>1. /\ statePath' \in [Daemons -> BOOLEAN]
          /\ \A e \in Daemons : statePath'[e] => statePath[e] /\ e # d
      BY <2>8 DEF ClearStateFile, PathCleared
    <3>2. stateFile' \in {stateFile, None} /\ left' \in BOOLEAN
      BY <2>8 DEF ClearStateFile
    <3> QED
      BY <2>8, <3>1, <3>2, PidQuietStep DEF ClearStateFile
  <2>9. CASE ReleaseReads(d)
    BY <2>9, PidQuietStep DEF ReleaseReads
  <2>10. CASE ReleaseRemoves(d)
    BY <2>10, PidQuietStep DEF ReleaseRemoves
  <2>11. CASE ReleaseFails(d)
    BY <2>11, PidQuietStep DEF ReleaseFails
  <2>12. CASE Exit(d)
    BY <2>12, PidEndStep DEF Exit, Ends
  <2>13. CASE Crash(d)
    BY <2>13, PidEndStep DEF Crash, Ends
  <2>14. CASE AcquireFails(d)
    BY <2>14, PidEndStep DEF AcquireFails, Ends
  <2> QED
    BY <1>2, <2>1, <2>2, <2>3, <2>4, <2>5, <2>6, <2>7, <2>8, <2>9, <2>10, <2>11, <2>12,
       <2>13, <2>14
    DEF DaemonStep
<1> QED
  BY <1>1, <1>2 DEF Next

(* ... from the start.                                                     *)
LEMMA PidInvariant == Spec => []PidInv
<1>1. Init => PidInv
  BY DEF Init, PidInv, TypeOK, PidsApart, FilesAreOlder, PathIsServers, Up
<1> QED
  BY <1>1, PidStep, PTL DEF Spec

(* Type correctness, of any launches.                                      *)
THEOREM TypeCorrect == Spec => []TypeOK
<1>1. PidInv => TypeOK
  BY DEF PidInv
<1> QED
  BY <1>1, PidInvariant, PTL

(* A start is refused only while another daemon is up, if the operating    *)
(* system does not give a dead daemon's PID to the one that starts.        *)
THEOREM RefusalsAreJustified ==
  ASSUME ~Reuse PROVE Spec => RefusalMeansDaemon
<1>1. ASSUME PidInv, [Next]_vars, NEW d \in Daemons, pc[d] = "acquire", pc'[d] = "refused"
      PROVE  \E e \in Daemons \ {d} : Up(e)
  <2>1. AcquireReads(d)
    BY <1>1 DEF PidInv, TypeOK, Next, DaemonStep, vars, Launch, AcquireReads, AcquireTruncates,
       AcquireWrites, InitStateFile, UpdateState, Returns, ClearStateFile, ReleaseReads,
       ReleaseRemoves, ReleaseFails, AcquireFails, Exit, Crash, Ends, Goto
  <2>2. pidFile \in alive
    BY <1>1, <2>1 DEF AcquireReads, Goto, Held, PidInv, TypeOK
  <2>3. PICK e \in Daemons : Up(e) /\ pid[e] = pidFile
    BY <1>1, <2>2 DEF PidInv, PidsApart
  <2>4. e # d
    BY <1>1, <2>3 DEF PidInv, FilesAreOlder
  <2> QED
    BY <2>3, <2>4
<1>2. PidInv /\ [Next]_vars =>
        [\A d \in Daemons : pc[d] = "acquire" /\ pc'[d] = "refused" =>
           \E e \in Daemons \ {d} : Up(e)]_vars
  BY <1>1
<1> QED
  BY <1>2, PidInvariant, PTL DEF Spec, RefusalMeansDaemon
-----------------------------------------------------------------------------
(* From here on nobody launches a daemon while another one starts.         *)
(* Acquire finds no owner, or refuses; one that writes becomes the owner.  *)
LEMMA FileStartStep ==
  ASSUME ~TwoAtOnce, PidInv, PidInv', FileInv, NEW d \in Daemons,
         Launch(d) \/ AcquireReads(d) \/ AcquireTruncates(d) \/ AcquireWrites(d)
  PROVE  FileInv'
<1> USE DEF PidInv, TypeOK, FileInv, Goto, files, ghosts
<1>1. CASE Launch(d)
  <2>1. Starting = {}
    BY <1>1 DEF Launch
  <2>2. \A e \in Daemons : e # d => pc'[e] = pc[e] /\ pid'[e] = pid[e]
    BY <1>1 DEF Launch
  <2>3. pc[d] = "new" /\ pc'[d] = "acquire"
    BY <1>1 DEF Launch
  <2>4. StartsAlone'
    BY <2>1, <2>2, <2>3 DEF StartsAlone, Starting, Owner
  <2>5. OwnersFile'
    BY <1>1, <2>2, <2>3 DEF Launch, OwnersFile, Owner
  <2>6. WritersState'
    BY <1>1, <2>2, <2>3 DEF Launch, WritersState, Before
  <2>7. FilesHaveOwners'
    BY <1>1, <2>2, <2>3 DEF Launch, FilesHaveOwners, Owner
  <2> QED
    BY <2>4, <2>5, <2>6, <2>7
<1>2. CASE AcquireReads(d)
  <2>1. ~Held => \A e \in Daemons : ~Owner(e)
    BY DEF Held, OwnersFile, PidsApart, Owner, Up
  <2>2. StartsAlone'
    BY <1>2, <2>1 DEF AcquireReads, StartsAlone, Starting, Owner
  <2>3. OwnersFile'
    BY <1>2 DEF AcquireReads, OwnersFile, Owner
  <2>4. WritersState'
    BY <1>2 DEF AcquireReads, WritersState, Before
  <2>5. FilesHaveOwners'
    BY <1>2 DEF AcquireReads, FilesHaveOwners, Owner
  <2> QED
    BY <2>2, <2>3, <2>4, <2>5
<1>3. CASE AcquireTruncates(d)
  <2>1. StartsAlone'
    BY <1>3 DEF AcquireTruncates, StartsAlone, Starting, Owner
  <2>2. OwnersFile'
    BY <1>3 DEF AcquireTruncates, OwnersFile, StartsAlone, Owner
  <2>3. WritersState'
    BY <1>3 DEF AcquireTruncates, WritersState, Before
  <2>4. FilesHaveOwners'
    BY <1>3, DaemonProcessAssumption DEF AcquireTruncates, FilesHaveOwners
  <2> QED
    BY <2>1, <2>2, <2>3, <2>4
<1>4. CASE AcquireWrites(d)
  <2>1. StartsAlone'
    BY <1>4 DEF AcquireWrites, StartsAlone, Starting, Owner
  <2>2. OwnersFile'
    BY <1>4 DEF AcquireWrites, OwnersFile, StartsAlone, Owner
  <2>3. WritersState'
    BY <1>4 DEF AcquireWrites, WritersState, Before
  <2>4. pid[d] \in Pids
    BY <1>4 DEF AcquireWrites, PidsApart, Up
  <2>5. FilesHaveOwners'
    BY <1>4, <2>4, DaemonProcessAssumption DEF AcquireWrites, FilesHaveOwners, Owner
  <2> QED
    BY <2>1, <2>2, <2>3, <2>5
<1> QED
  BY <1>1, <1>2, <1>3, <1>4

(* An owner is the only one, because the file has one PID in it.           *)
LEMMA OneOwner ==
  ASSUME PidInv, OwnersFile, NEW d \in Daemons, NEW e \in Daemons, Owner(d), Owner(e)
  PROVE  d = e
BY DEF PidInv, PidsApart, OwnersFile, Owner, Up

(* While a daemon serves nobody else writes a file.                        *)
LEMMA FileServeStep ==
  ASSUME PidInv, FileInv, NEW d \in Daemons,
         InitStateFile(d) \/ UpdateState(d) \/ Returns(d) \/ ClearStateFile(d)
  PROVE  FileInv'
<1> USE DEF PidInv, TypeOK, FileInv, Goto, files, ghosts
<1>1. Owner(d)
  BY DEF InitStateFile, UpdateState, Returns, ClearStateFile, PathIsServers, Owner
<1>2. \A e \in Daemons : Owner(e) => e = d
  BY <1>1, OneOwner
<1>3. UNCHANGED <<pid, pidFile>> /\ \A e \in Daemons : e # d => pc'[e] = pc[e]
  BY DEF InitStateFile, UpdateState, Returns, ClearStateFile
<1>4. Owner(d)'
  BY <1>1 DEF InitStateFile, UpdateState, Returns, ClearStateFile, Owner
<1>5. OwnersFile'
  BY <1>1, <1>3 DEF OwnersFile, Owner
<1>6. StartsAlone'
  BY <1>1, <1>3, <1>4 DEF StartsAlone, Starting, Owner
<1>7. \A e \in Daemons : e # d => ~statePath[e] /\ pc[e] \notin {"serve", "clear"}
  BY <1>2 DEF PathIsServers, Owner
<1>8. WritersState'
  <2>1. CASE InitStateFile(d)
    BY <1>3, <1>7, <2>1 DEF WritersState, Before, InitStateFile, WriteStateFile
  <2>2. CASE UpdateState(d)
    BY <1>3, <1>7, <2>2 DEF WritersState, Before, UpdateState, WriteStateFile, PathIsServers
  <2>3. CASE Returns(d)
    BY <1>3, <1>7, <2>3 DEF WritersState, Before, Returns
  <2>4. CASE ClearStateFile(d)
    BY <1>3, <1>7, <2>4 DEF WritersState, Before, ClearStateFile
  <2> QED
    BY <2>1, <2>2, <2>3, <2>4
<1>9. FilesHaveOwners'
  <2>1. \/ left
        \/ (pidFile \in Pids => \E e \in Daemons : Owner(e)) /\ pidFile # Empty
    BY <1>1, <1>3, DaemonProcessAssumption DEF FilesHaveOwners, OwnersFile, PidsApart, Owner, Up
  <2>2. stateFile' # None => left' \/ \E e \in Daemons : statePath'[e]
    BY DaemonProcessAssumption
    DEF FilesHaveOwners, InitStateFile, UpdateState, Returns, ClearStateFile, WriteStateFile,
        PathCleared
  <2>3. left => left'
    BY DEF InitStateFile, UpdateState, Returns, ClearStateFile
  <2> QED
    BY <1>3, <1>4, <2>1, <2>2, <2>3 DEF FilesHaveOwners
<1> QED
  BY <1>5, <1>6, <1>8, <1>9

(* Release removes its own file; one that fails, or a process that ends in *)
(* any other way, leaves it to be found stale.                             *)
LEMMA FileEndStep ==
  ASSUME PidInv, FileInv, NEW d \in Daemons,
         \/ ReleaseReads(d) \/ ReleaseRemoves(d) \/ ReleaseFails(d)
         \/ Exit(d) \/ AcquireFails(d) \/ Crash(d)
  PROVE  FileInv'
<1> USE DEF PidInv, TypeOK, FileInv, Goto, files, ghosts, Ends
<1>1. \A e \in Daemons : Owner(e) /\ Owner(d) => e = d
  BY OneOwner
<1>2. pc[d] \in {"release", "remove"} => Owner(d)
  BY DEF Owner
<1>3. UNCHANGED <<pid, stateFile, wrote>> /\ \A e \in Daemons : e # d => pc'[e] = pc[e]
  BY DEF ReleaseReads, ReleaseRemoves, ReleaseFails, Exit, AcquireFails, Crash
<1>4. pc'[d] \in {"remove", "exit", "gone"}
  BY DEF ReleaseReads, ReleaseRemoves, ReleaseFails, Exit, AcquireFails, Crash
<1>5. pidFile' = pidFile \/ (pidFile' = None /\ Owner(d) /\ pc'[d] = "exit")
  BY <1>2 DEF ReleaseReads, ReleaseRemoves, ReleaseFails, Exit, AcquireFails, Crash
<1>6. OwnersFile'
  BY <1>1, <1>2, <1>3, <1>5
  DEF OwnersFile, Owner, ReleaseReads, ReleaseRemoves, ReleaseFails, Exit, AcquireFails, Crash
<1>7. StartsAlone'
  <2>1. \A e \in Daemons : Owner(e)' => Owner(e)
    BY <1>2, <1>3, <1>4
    DEF Owner, ReleaseReads, ReleaseRemoves, ReleaseFails, Exit, AcquireFails, Crash
  <2>2. \A e \in Daemons : pc'[e] \in {"acquire", "write", "fill"} => pc'[e] = pc[e]
    BY <1>3, <1>4
  <2> QED
    BY <2>1, <2>2 DEF StartsAlone, Starting
<1>8. WritersState'
  BY <1>3, <1>4 DEF WritersState, Before
<1>9. FilesHaveOwners'
  <2>1. CASE left'
    BY <2>1 DEF FilesHaveOwners
  <2>2. CASE ReleaseReads(d) \/ ReleaseRemoves(d)
    BY <1>1, <1>2, <1>3, <2>2, DaemonProcessAssumption
    DEF FilesHaveOwners, Owner, Owned, OwnersFile, ReleaseReads, ReleaseRemoves
  <2>3. CASE ~left' /\ (Exit(d) \/ AcquireFails(d))
    <3>1. /\ pc[d] \in {"exit", "acquire", "write", "fill"} /\ UNCHANGED pidFile
          /\ pc[d] # "fill" /\ ~left
      <4>1. CASE Exit(d)
        BY <2>3, <4>1 DEF Exit
      <4>2. CASE AcquireFails(d)
        <5>1. left' <=> left \/ pc[d] = "fill"
          BY <4>2, Zenon DEF AcquireFails
        <5> QED
          BY <2>3, <4>2, <5>1 DEF AcquireFails
      <4> QED
        BY <2>3, <4>1, <4>2
    <3>2. \A e \in Daemons : e # d => statePath'[e] = statePath[e]
      BY <2>3 DEF Exit, AcquireFails
    <3>3. ~Owner(d) /\ ~statePath[d]
      BY <3>1 DEF Owner, PathIsServers
    <3> QED
      BY <1>3, <3>1, <3>2, <3>3 DEF FilesHaveOwners, Owner
  <2> QED
    BY <2>1, <2>2, <2>3 DEF ReleaseFails, Crash
<1> QED
  BY <1>6, <1>7, <1>8, <1>9

(* The invariant about the files is inductive.                             *)
LEMMA FileStep ==
  ASSUME ~TwoAtOnce PROVE PidInv /\ FileInv /\ [Next]_vars => FileInv'
<1> SUFFICES ASSUME PidInv, FileInv, [Next]_vars PROVE FileInv'
  OBVIOUS
<1>1. PidInv'
  BY PidStep
<1>2. CASE UNCHANGED vars
  BY <1>2 DEF vars, files, ghosts, FileInv, OwnersFile, Owner, StartsAlone, Starting,
     WritersState, Before, FilesHaveOwners
<1>3. CASE Next
  BY <1>1, <1>3, FileStartStep, FileServeStep, FileEndStep DEF Next, DaemonStep
<1> QED
  BY <1>2, <1>3

(* ... and holds from the start.                                           *)
LEMMA FileInvariant ==
  ASSUME ~TwoAtOnce PROVE Spec => []FileInv
<1>1. Init => FileInv
  BY DaemonProcessAssumption
  DEF Init, FileInv, OwnersFile, Owner, StartsAlone, Starting, WritersState, FilesHaveOwners
<1> QED
  BY <1>1, FileStep, PidInvariant, PTL DEF Spec

(* At most one daemon serves, however many are launched one after the      *)
(* other and crash, and even if PIDs are given again.                      *)
THEOREM OneDaemonServes ==
  ASSUME ~TwoAtOnce PROVE Spec => []OneDaemon
<1>1. PidInv /\ FileInv => OneDaemon
  BY OneOwner DEF FileInv, OneDaemon, Owner
<1> QED
  BY <1>1, PidInvariant, FileInvariant, PTL

(* The PID file names the daemon that serves, state.json does as soon as   *)
(* one of its writes went through and names no daemon that has yet to      *)
(* start, and daemons that end in order leave neither, whatever writes of  *)
(* state.json failed.                                                      *)
THEOREM FilesAreReliable ==
  ASSUME ~TwoAtOnce PROVE Spec => []FilesTellWhoServes
<1>1. PidInv /\ FileInv => FilesTellWhoServes
  BY DEF PidInv, TypeOK, FileInv, FilesTellWhoServes, OwnersFile, Owner, WritersState,
     FilesAreOlder, PathIsServers, FilesHaveOwners, Up
<1> QED
  BY <1>1, PidInvariant, FileInvariant, PTL
=============================================================================

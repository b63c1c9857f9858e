-------------------------- MODULE ClipboardProofs --------------------------
(***************************************************************************)
(* Proofs about Clipboard, for any calls and any number of copies by the   *)
(* user, when the calls run one at a time and the application handles a    *)
(* key within the daemon's wait.                                           *)
(***************************************************************************)
EXTENDS Clipboard, FiniteSetTheorems, TLAPS

(* The daemon's handlers take turns, and the application is in time.       *)
OneAtATime == MaxRunning = 1 /\ ~Slow

Ended == {"done", "failed", "cancelled"}

PastePlaces == {"new", "write", "synth", "wait", "restore"} \cup Ended
ProbePlaces == {"new", "image", "mark", "synth", "poll", "restore", "done", "cancelled"}

(* What the user has copied so far, and all that may be in the clipboard.  *)
Copied == {UserText(n) : n \in 0 .. copies} \cup {UserImage(n) : n \in 0 .. copies} \cup {Empty}
Seen   == Copied \cup {Generated(p) : p \in Pastes} \cup {Sentinel, Selection}

TypeInv ==
  /\ clip \in Seen /\ mine \in Copied
  /\ copies \in 0 .. MaxCopies /\ meanwhile \in SUBSET Calls /\ ctxDone \in BOOLEAN
  /\ pc \in [Calls -> PastePlaces \cup ProbePlaces]
  /\ \A p \in Pastes : pc[p] \in PastePlaces
  /\ \A s \in Probes : pc[s] \in ProbePlaces
  /\ saved \in [Calls -> Seen \cup {None}]
  /\ \A p \in Pastes : pc[p] = "restore" => saved[p] # None
  /\ answer \in [Probes -> Seen \cup {None} \cup {<<"err", s>> : s \in Probes}]
  /\ inserted \in [Pastes -> Seen \cup {None}]

(* One call runs, or none, and the application's queue holds its key, or   *)
(* that of a call that has just ended.                                     *)
Key(o) == << <<IF o \in Pastes THEN "paste" ELSE "copy", o>> >>

KeyPlaces(o) ==
  IF o \in Pastes THEN {"wait", "cancelled"} ELSE {"poll", "restore", "done", "cancelled"}

TurnInv ==
  /\ Running = {} \/ \E o \in Calls : Running = {o}
  /\ \/ keys = <<>>
     \/ \E o \in Calls : keys = Key(o) /\ Running \subseteq {o} /\ pc[o] \in KeyPlaces(o)

(* The user has copied something since o saved the clipboard, and it is    *)
(* still there.                                                            *)
NewCopy(o) == o \in meanwhile /\ clip = mine /\ mine # saved[o]

(* A call that has written the clipboard finds there what it, the          *)
(* application or the user have put there since.                           *)
OwnInv ==
  /\ \A p \in Pastes :
       pc[p] \in {"synth", "wait", "restore"} \/ (pc[p] = "cancelled" /\ Pending(p)) =>
         clip = Generated(p) \/ NewCopy(p)
  /\ \A s \in Probes :
       pc[s] \in {"synth", "poll"} => clip \in {Sentinel, Selection} \/ NewCopy(s)

(* Nothing is inserted or answered before a call, and then it is right.    *)
ResultInv ==
  /\ \A p \in Pastes : pc[p] = "new" => inserted[p] = None
  /\ \A s \in Probes : pc[s] \in {"new", "image", "mark", "synth", "poll"} => answer[s] = None
  /\ PasteInsertsText /\ AnswerIsSelection

(* What the daemon may leave in the clipboard when the user copies nothing *)
(* meanwhile.                                                              *)
OwedThen(c, user, place, kept) ==
  \/ c = user
  \/ \E p \in Pastes :
       /\ c = Generated(p) /\ place[p] \in Ended
       /\ place[p] \in {"failed", "cancelled"} \/ kept[p] = None

Owed(c) == OwedThen(c, mine, pc, saved)

Undisturbed == meanwhile = {} /\ \A s \in Probes : pc[s] # "cancelled"

(* It is there, or is what the call that runs will restore.                *)
BackInv ==
  Undisturbed =>
    /\ Running = {} => Owed(clip)
    /\ \A p \in Pastes :
         /\ pc[p] = "write" => Owed(clip) /\ saved[p] = ReadText
         /\ pc[p] \in {"synth", "wait"} /\ saved[p] # None => Owed(saved[p])
         /\ pc[p] = "restore" => saved[p] # None /\ Owed(saved[p])
    /\ \A s \in Probes :
         /\ pc[s] = "image" => Owed(clip) /\ ReadText = None
         /\ pc[s] = "mark" => Owed(clip) /\ Restored(s) = clip
         /\ pc[s] \in {"synth", "poll", "restore"} => Owed(Restored(s))
         /\ pc[s] = "synth" => clip = Sentinel
         /\ Pending(s) => /\ pc[s] = "poll" => clip = Sentinel
                          /\ pc[s] = "restore" => ctxDone
                          /\ pc[s] # "done"
-----------------------------------------------------------------------------
(* Texts of different kinds are different.                                 *)
LEMMA Kinds ==
  /\ \A p, q : Generated(p) = Generated(q) => p = q
  /\ \A p : /\ Generated(p) \notin Copied \cup {Sentinel, Selection, None}
            /\ Generated(p)[1] \notin {"image", "empty"}
  /\ Sentinel # Selection /\ None \notin Copied \cup {Sentinel, Selection}
  /\ Copied \cap {Sentinel, Selection} = {}
  /\ Sentinel[1] = "sentinel" /\ Selection[1] = "selection"
  /\ \A s, n : <<"err", s>> \notin Copied \cup {Sentinel, Selection, None, Generated(n)}
  /\ \A x \in Copied : x[1] \in {"text", "image", "empty"} /\ (x[1] = "empty" => x = Empty)
<1> USE DEF Generated, UserText, UserImage, Empty, Sentinel, Selection, None
<1>1. \A x \in Copied : x = Empty \/ \E n : x = UserText(n) \/ x = UserImage(n)
  BY DEF Copied
<1>2. \A x \in Copied : x[1] \in {"text", "image", "empty"} /\ (x[1] = "empty" => x = Empty)
  BY <1>1
<1>3. Copied \cap {Sentinel, Selection, None} = {}
  BY <1>2
<1>4. \A p : Generated(p) \notin Copied
  BY <1>2
<1>5. \A s, n : <<"err", s>> \notin Copied \cup {Sentinel, Selection, None, Generated(n)}
  BY <1>2
<1> QED
  BY <1>2, <1>3, <1>4, <1>5

(* What the user copies is new.                                            *)
LEMMA CopyIsNew ==
  ASSUME TypeInv, UserCopies
  PROVE  /\ Copied \subseteq Copied' /\ mine' \in Copied' /\ mine' \notin Seen \cup {None}
         /\ copies' \in 0 .. MaxCopies /\ mine' \in Users /\ clip' = mine'
<1>1. /\ copies < MaxCopies /\ copies' = copies + 1 /\ clip' = mine'
      /\ mine' = UserText(copies + 1) \/ mine' = UserImage(copies + 1)
  BY DEF UserCopies
<1>2. copies \in Nat /\ MaxCopies \in Nat /\ copies + 1 \in 0 .. MaxCopies /\ copies' \in Nat
  BY <1>1, ClipboardAssumption DEF TypeInv
<1>3. \A n \in 0 .. copies : n \in 0 .. copies'
  BY <1>1, <1>2
<1>4. Copied \subseteq Copied'
  BY <1>3 DEF Copied
<1>5. copies + 1 \in 0 .. copies' /\ copies + 1 \notin 0 .. copies
  BY <1>1, <1>2
<1>6. mine' \in Copied' /\ mine' \in Users
  <2>1. \A n \in 0 .. copies' : UserText(n) \in Copied' /\ UserImage(n) \in Copied'
    BY DEF Copied
  <2>2. \A n \in 0 .. MaxCopies : UserText(n) \in Users /\ UserImage(n) \in Users
    BY DEF Users
  <2> QED
    BY <1>1, <1>2, <1>5, <2>1, <2>2
<1>7. mine' \notin Seen \cup {None}
  <2>1. mine' \notin Copied
    <3>1. \A x \in Copied : x = Empty \/ \E n \in 0 .. copies : x = UserText(n) \/ x = UserImage(n)
      BY DEF Copied
    <3> QED
      BY <1>1, <1>5, <3>1 DEF UserText, UserImage, Empty
  <2> QED
    BY <1>1, <2>1 DEF Seen, UserText, UserImage, Generated, Sentinel, Selection, None
<1> QED
  BY <1>1, <1>2, <1>4, <1>6, <1>7

(* What has been copied so far is among what the user can ever copy.       *)
LEMMA CopiedIsUsers ==
  ASSUME TypeInv PROVE Copied \subseteq Users
<1>1. \A n \in 0 .. copies : n \in 0 .. MaxCopies
  BY ClipboardAssumption DEF TypeInv
<1> QED
  BY <1>1 DEF Copied, Users
-----------------------------------------------------------------------------
(* A step of one call.                                                     *)
CallStep(o) == (o \in Pastes /\ PasteStep(o)) \/ (o \in Probes /\ ProbeStep(o))

(* Every step is a call's, the application's, the user's or the shutdown.  *)
LEMMA StepsOfCalls ==
  ASSUME Next
  PROVE  (\E o \in Calls : CallStep(o)) \/ AppPastes \/ AppCopies \/ UserCopies \/ Shutdown
BY DEF Next, CallStep, Calls

(* What a call may do to the clipboard, its place and what it keeps.       *)
LEMMA CallStepFacts ==
  ASSUME TypeInv, NEW o \in Calls, CallStep(o)
  PROVE  /\ pc[o] \notin Ended /\ pc'[o] # "new"
         /\ \A u \in Calls \ {o} : pc'[u] = pc[u] /\ saved'[u] = saved[u]
         /\ \A s \in Probes \ {o} : answer'[s] = answer[s]
         /\ pc[o] \notin {"new", "image"} => UNCHANGED saved
         /\ pc[o] \in {"new", "image"} => UNCHANGED <<clip, answer>>
         /\ UNCHANGED <<inserted, ctxDone, mine, copies, meanwhile>>
         /\ pc[o] = "new" => ~ctxDone /\ Cardinality(Running) < MaxRunning /\ (Slow \/ keys = <<>>)
         /\ keys' = keys \/ (keys' = Append(keys, Key(o)[1]) /\ pc[o] = "synth")
<1> USE DEF Goto, Keep, MayBegin, Ended, appVars, userVars
<1>0. /\ pc \in [Calls -> PastePlaces \cup ProbePlaces] /\ saved \in [Calls -> Seen \cup {None}]
      /\ answer \in [Probes -> Seen \cup {None} \cup {<<"err", s>> : s \in Probes}]
  BY DEF TypeInv
<1>1. CASE o \in Pastes /\ PasteStep(o)
  <2>1. CASE PasteSaves(o) \/ PasteWrites(o) \/ PasteFails(o) \/ PasteCancelled(o)
    BY <1>0, <1>1, <2>1, ClipboardAssumption DEF PasteSaves, PasteWrites, PasteFails, PasteCancelled
  <2>2. CASE PasteSynthesizes(o)
    BY <1>0, <1>1, <2>2 DEF PasteSynthesizes, Synthesize, Key
  <2>3. CASE PasteCompares(o) \/ PasteRestores(o)
    BY <1>0, <1>1, <2>3 DEF PasteCompares, PasteRestores
  <2> QED
    BY <1>1, <2>1, <2>2, <2>3 DEF PasteStep
<1>2. CASE o \in Probes /\ ProbeStep(o)
  <2>0. o \notin Pastes
    BY <1>2, ClipboardAssumption
  <2>1. CASE ProbeSavesText(o) \/ ProbeSavesImage(o) \/ ProbeMarks(o)
    BY <1>0, <1>2, <2>1 DEF ProbeSavesText, ProbeSavesImage, ProbeMarks, AfterText
  <2>2. CASE ProbeSynthesizes(o)
    BY <1>0, <2>0, <1>2, <2>2 DEF ProbeSynthesizes, Synthesize, Key
  <2>3. CASE ProbeFails(o) \/ ProbePolls(o) \/ ProbeGivesUp(o)
    BY <1>0, <1>2, <2>3 DEF ProbeFails, ProbePolls, ProbeGivesUp, Answer
  <2>4. CASE ProbeRestores(o)
    BY <1>0, <1>2, <2>4 DEF ProbeRestores
  <2> QED
    BY <1>2, <2>1, <2>2, <2>3, <2>4 DEF ProbeStep
<1> QED
  BY <1>1, <1>2 DEF CallStep
-----------------------------------------------------------------------------
(* The types are kept.                                                     *)
LEMMA TypeStep ==
  ASSUME TypeInv, TurnInv, [Next]_vars
  PROVE  TypeInv'
<1>0. Pastes \cap Probes = {} /\ Calls = Pastes \cup Probes
  BY ClipboardAssumption DEF Calls
<1>1. ASSUME UNCHANGED <<copies, mine, meanwhile>>, ctxDone' \in BOOLEAN,
             clip' \in Seen,
             pc' \in [Calls -> PastePlaces \cup ProbePlaces],
             \A p \in Pastes : pc'[p] \in PastePlaces,
             \A s \in Probes : pc'[s] \in ProbePlaces,
             saved' \in [Calls -> Seen \cup {None}],
             \A p \in Pastes : pc'[p] = "restore" => saved'[p] # None,
             answer' \in [Probes -> Seen \cup {None} \cup {<<"err", s>> : s \in Probes}],
             inserted' \in [Pastes -> Seen \cup {None}]
      PROVE  TypeInv'
  <2>1. Copied' = Copied /\ Seen' = Seen
    BY <1>1 DEF Copied, Seen
  <2> QED
    BY <1>1, <2>1 DEF TypeInv
<1>2. ASSUME NEW o \in Calls, CallStep(o) PROVE TypeInv'
  <2> USE DEF TypeInv, Goto, Keep, appVars, userVars, Ended, PastePlaces, ProbePlaces
  <2>1. Seen \cup {None} # {} /\ ReadText \in Seen \cup {None} /\ ReadImage \in Seen \cup {None}
    BY DEF ReadText, ReadImage
  <2>2. Generated(o) \in Seen \/ o \notin Pastes
    BY DEF Seen
  <2>3. Sentinel \in Seen /\ Empty \in Seen
    BY DEF Seen, Copied
  <2>4. CASE o \in Pastes /\ PasteStep(o)
    <3>1. CASE PasteSaves(o) \/ PasteWrites(o)
      BY <1>0, <1>1, <2>1, <2>2, <2>4, <3>1 DEF PasteSaves, PasteWrites
    <3>2. CASE PasteSynthesizes(o) \/ PasteFails(o) \/ PasteCancelled(o) \/ PasteCompares(o)
      BY <1>0, <1>1, <2>4, <3>2
      DEF PasteSynthesizes, PasteFails, PasteCancelled, PasteCompares, Restorable, Synthesize
    <3>3. CASE PasteRestores(o)
      BY <1>0, <1>1, <2>4, <3>3 DEF PasteRestores
    <3> QED
      BY <2>4, <3>1, <3>2, <3>3 DEF PasteStep
  <2>5. CASE o \in Probes /\ ProbeStep(o)
    <3>1. CASE ProbeSavesText(o) \/ ProbeSavesImage(o) \/ ProbeMarks(o)
      BY <1>0, <1>1, <2>1, <2>3, <2>5, <3>1 DEF ProbeSavesText, ProbeSavesImage, ProbeMarks, AfterText
    <3>2. CASE ProbeSynthesizes(o) \/ ProbeFails(o)
      BY <1>0, <1>1, <2>5, <3>2 DEF ProbeSynthesizes, ProbeFails, Synthesize, Answer
    <3>3. CASE ProbePolls(o) \/ ProbeGivesUp(o)
      BY <1>0, <1>1, <2>1, <2>5, <3>3 DEF ProbePolls, ProbeGivesUp, Answer
    <3>4. CASE ProbeRestores(o)
      BY <1>0, <1>1, <2>3, <2>5, <3>4 DEF ProbeRestores, Restored
    <3> QED
      BY <2>5, <3>1, <3>2, <3>3, <3>4 DEF ProbeStep
  <2> QED
    BY <1>2, <2>4, <2>5 DEF CallStep
<1>3. CASE AppPastes
  <2>1. PICK p \in Calls : keys = Key(p)
    BY <1>3 DEF AppPastes, TurnInv
  <2>2. inserted' = [inserted EXCEPT ![p] = clip]
    <3>1. Head(keys)[2] = p
      BY <2>1 DEF Key
    <3> QED
      BY <1>3, <3>1 DEF AppPastes
  <2> QED
    BY <1>1, <1>3, <2>2 DEF AppPastes, TypeInv, callVars, userVars
<1>4. CASE AppCopies
  BY <1>1, <1>4 DEF AppCopies, TypeInv, callVars, userVars, Seen
<1>5. CASE UserCopies
  <2>1. Copied \subseteq Copied' /\ mine' \in Copied' /\ clip' = mine' /\ copies' \in 0 .. MaxCopies
    BY <1>5, CopyIsNew
  <2>2. Seen \subseteq Seen' /\ clip' \in Seen'
    BY <2>1 DEF Seen
  <2>3. meanwhile' \subseteq Calls
    BY <1>5 DEF UserCopies, TypeInv
  <2>4. UNCHANGED <<pc, saved, answer, inserted, ctxDone>>
    BY <1>5 DEF UserCopies, callVars, appVars
  <2>5. saved \in [Calls -> Seen' \cup {None}] /\ inserted \in [Pastes -> Seen' \cup {None}]
    BY <2>2 DEF TypeInv
  <2>6. answer \in [Probes -> Seen' \cup {None} \cup {<<"err", s>> : s \in Probes}]
    BY <2>2 DEF TypeInv
  <2> QED
    BY <2>1, <2>2, <2>3, <2>4, <2>5, <2>6 DEF TypeInv
<1>6. CASE Shutdown \/ UNCHANGED vars
  BY <1>1, <1>6 DEF Shutdown, vars, TypeInv, callVars, appVars, userVars
<1> QED
  BY <1>2, <1>3, <1>4, <1>5, <1>6, StepsOfCalls
-----------------------------------------------------------------------------
(* Whose key is in the queue.                                              *)
LEMMA PendingKey ==
  ASSUME TurnInv, NEW o \in Calls
  PROVE  Pending(o) <=> keys = Key(o)
<1>1. CASE keys = <<>>
  BY <1>1 DEF Pending, Key
<1>2. ASSUME NEW u \in Calls, keys = Key(u) PROVE Pending(o) <=> keys = Key(o)
  <2>1. Len(keys) = 1 /\ keys[1][2] = u
    BY <1>2 DEF Key
  <2>2. Pending(o) <=> u = o
    BY <2>1 DEF Pending
  <2> QED
    BY <1>2, <2>2 DEF Key
<1> QED
  BY <1>1, <1>2 DEF TurnInv

(* A call that takes a step has the turn.                                  *)
LEMMA HasTurn ==
  ASSUME TypeInv, TurnInv, OneAtATime, NEW o \in Calls, CallStep(o)
  PROVE  /\ pc[o] = "new" => Running = {} /\ keys = <<>>
         /\ pc[o] # "new" => Running = {o}
         /\ Running' = IF pc'[o] \in Ended THEN {} ELSE {o}
         /\ keys # <<>> => keys = Key(o)
<1>1. CASE pc[o] = "new"
  <2>1. Cardinality(Running) < 1 /\ keys = <<>>
    BY <1>1, CallStepFacts DEF OneAtATime
  <2>2. Running = {}
    <3>1. ASSUME NEW u, Running = {u} PROVE FALSE
      <4>1. Cardinality(Running) = 1
        BY <3>1, FS_Singleton
      <4> QED
        BY <2>1, <4>1
    <3> QED
      BY <3>1 DEF TurnInv
  <2> QED
    BY <1>1, <2>1, <2>2, CallStepFacts DEF Running, Ended
<1>2. CASE pc[o] # "new"
  <2>1. o \in Running
    BY <1>2, CallStepFacts DEF Running, Ended
  <2>2. Running = {o}
    BY <2>1 DEF TurnInv
  <2>3. Running' = IF pc'[o] \in Ended THEN {} ELSE {o}
    BY <2>2, CallStepFacts DEF Running, Ended
  <2> QED
    BY <1>2, <2>2, <2>3 DEF TurnInv
<1> QED
  BY <1>1, <1>2

(* Calls take turns: one starts when no other runs and no key is left.     *)
LEMMA TurnStep ==
  ASSUME TypeInv, TurnInv, OneAtATime, [Next]_vars
  PROVE  TurnInv'
<1>0. Pastes \cap Probes = {} /\ Calls = Pastes \cup Probes
  BY ClipboardAssumption DEF Calls
<1>1. ASSUME NEW o \in Calls, CallStep(o) PROVE TurnInv'
  <2>1. Running' = {} \/ Running' = {o}
    BY <1>1, HasTurn
  <2>2. CASE keys' = <<>>
    BY <2>1, <2>2 DEF TurnInv
  <2>3. keys' # <<>> => keys' = Key(o) /\ pc'[o] \in KeyPlaces(o)
    <3> USE DEF Goto, KeyPlaces, Key
    <3>0. keys # <<>> => keys = Key(o) /\ pc[o] \in KeyPlaces(o)
      BY <1>1, HasTurn DEF TurnInv
    <3>00. pc \in [Calls -> PastePlaces \cup ProbePlaces] /\ (Pending(o) <=> keys = Key(o))
      BY PendingKey DEF TypeInv
    <3>1. CASE o \in Pastes /\ PasteStep(o)
      <4>1. CASE PasteSynthesizes(o)
        <5>1. keys = <<>>
          BY <3>0, <3>1, <4>1 DEF PasteSynthesizes
        <5> QED
          BY <5>1, <3>00, <3>1, <4>1 DEF PasteSynthesizes, Synthesize
      <4>2. CASE PasteSaves(o) \/ PasteWrites(o) \/ PasteFails(o) \/ PasteCancelled(o) \/ PasteRestores(o)
        <5>1. CASE PasteSaves(o)
          BY <5>1 DEF PasteSaves, MayBegin, OneAtATime, appVars
        <5>2. CASE ~PasteSaves(o)
          BY <3>0, <3>00, <3>1, <4>2, <5>2
          DEF PasteWrites, PasteFails, PasteCancelled, PasteRestores, appVars
        <5> QED
          BY <5>1, <5>2
      <4>3. CASE PasteCompares(o)
        BY <3>0, <3>00, <3>1, <4>3 DEF PasteCompares, DelayOver, OneAtATime, appVars, userVars
      <4> QED
        BY <3>1, <4>1, <4>2, <4>3 DEF PasteStep
    <3>2. CASE o \in Probes /\ ProbeStep(o)
      <4>0. o \notin Pastes
        BY <1>0, <3>2
      <4>1. CASE ProbeSynthesizes(o)
        <5>1. keys = <<>>
          BY <3>0, <4>0, <4>1 DEF ProbeSynthesizes
        <5> QED
          BY <5>1, <3>00, <4>0, <4>1 DEF ProbeSynthesizes, Synthesize
      <4>2. CASE ProbeSavesText(o) \/ ProbeSavesImage(o) \/ ProbeMarks(o)
        <5>1. CASE ProbeSavesText(o)
          BY <5>1 DEF ProbeSavesText, MayBegin, OneAtATime, appVars
        <5>2. CASE ~ProbeSavesText(o)
          BY <3>0, <3>00, <4>0, <4>2, <5>2 DEF ProbeSavesImage, ProbeMarks, appVars
        <5> QED
          BY <5>1, <5>2
      <4>3. CASE ProbeFails(o) \/ ProbePolls(o) \/ ProbeGivesUp(o)
        BY <3>0, <3>00, <4>0, <4>3 DEF ProbeFails, ProbePolls, ProbeGivesUp, Answer, appVars, userVars
      <4>4. CASE ProbeRestores(o)
        BY <3>0, <3>00, <4>0, <4>4 DEF ProbeRestores, appVars, userVars
      <4> QED
        BY <3>2, <4>1, <4>2, <4>3, <4>4 DEF ProbeStep
    <3> QED
      BY <1>1, <3>1, <3>2 DEF CallStep
  <2> QED
    BY <2>1, <2>2, <2>3 DEF TurnInv, KeyPlaces, Key
<1>2. CASE AppPastes \/ AppCopies
  <2>1. keys' = <<>> /\ UNCHANGED pc
    BY <1>2 DEF AppPastes, AppCopies, callVars, TurnInv, Key
  <2> QED
    BY <2>1 DEF TurnInv, Running
<1>3. CASE UserCopies \/ Shutdown \/ UNCHANGED vars
  <2>1. UNCHANGED <<pc, keys>>
    BY <1>3 DEF UserCopies, Shutdown, vars, callVars, appVars
  <2> QED
    BY <2>1 DEF TurnInv, Running, Key, KeyPlaces
<1> QED
  BY <1>1, <1>2, <1>3, StepsOfCalls
-----------------------------------------------------------------------------
(* The key in the queue is of the call that steps, or there is none, and   *)
(* the others neither run nor have a key.                                  *)
LEMMA OthersRest ==
  ASSUME TypeInv, TurnInv, TurnInv', OneAtATime, NEW o \in Calls, CallStep(o),
         NEW u \in Calls \ {o}
  PROVE  pc'[u] \in Ended \cup {"new"} /\ ~Pending(u)'
<1>1. u \notin Running' /\ pc'[u] \in Ended \cup {"new"}
  BY HasTurn DEF Running, Ended
<1>2. Key(o) # <<>>
  BY DEF Key
<1>3. keys' = <<>> \/ keys' = Key(o)
  <2>1. keys = <<>> \/ keys = Key(o)
    BY HasTurn
  <2>2. CASE keys' = keys
    BY <2>1, <2>2
  <2>3. CASE keys' = Append(keys, Key(o)[1])
    <3>1. PICK v \in Calls : keys' = Key(v)
      BY <2>1, <2>3 DEF TurnInv, Key
    <3>2. Len(keys') = 1 /\ Len(keys') = Len(keys) + 1
      BY <2>1, <2>3, <3>1 DEF Key
    <3>3. keys = <<>>
      BY <2>1, <3>2 DEF Key
    <3> QED
      BY <2>3, <3>3 DEF Key
  <2> QED
    BY <2>2, <2>3, CallStepFacts
<1>4. CASE keys' = <<>>
  BY <1>1, <1>4 DEF Pending
<1>5. CASE keys' = Key(o)
  <2>1. Len(keys') = 1 /\ keys'[1][2] = o
    BY <1>5 DEF Key
  <2> QED
    BY <1>1, <2>1 DEF Pending
<1> QED
  BY <1>3, <1>4, <1>5

(* What a call finds in the clipboard.                                     *)
LEMMA OwnStep ==
  ASSUME TypeInv, TurnInv, TurnInv', OneAtATime, OwnInv, [Next]_vars
  PROVE  OwnInv'
<1>0. Pastes \cap Probes = {} /\ Calls = Pastes \cup Probes
  BY ClipboardAssumption DEF Calls
<1>1. ASSUME NEW o \in Calls, CallStep(o) PROVE OwnInv'
  <2>1. \A u \in Calls \ {o} : pc'[u] \in Ended \cup {"new"} /\ ~Pending(u)'
    BY <1>1, OthersRest
  <2>2. UNCHANGED <<mine, meanwhile>> /\ (pc[o] \notin {"new", "image"} => UNCHANGED saved)
    BY <1>1, CallStepFacts
  <2>3. pc \in [Calls -> PastePlaces \cup ProbePlaces]
    BY DEF TypeInv
  <2> USE DEF Goto, appVars
  <2>4. CASE o \in Pastes /\ PasteStep(o)
    <3>1. pc'[o] \in {"synth", "wait", "restore", "cancelled"} => clip' = Generated(o) \/ NewCopy(o)'
      <4>1. CASE PasteWrites(o)
        BY <4>1 DEF PasteWrites
      <4>2. CASE PasteSaves(o) \/ PasteFails(o) \/ PasteRestores(o)
        BY <2>3, <2>4, <4>2, <1>0 DEF PasteSaves, PasteFails, PasteRestores
      <4>3. CASE PasteSynthesizes(o) \/ PasteCancelled(o) \/ PasteCompares(o)
        BY <2>2, <2>3, <2>4, <4>3
        DEF PasteSynthesizes, PasteCancelled, PasteCompares, Synthesize, OwnInv, NewCopy
      <4> QED
        BY <2>4, <4>1, <4>2, <4>3 DEF PasteStep
    <3> QED
      BY <1>0, <2>1, <2>4, <3>1 DEF OwnInv, Ended
  <2>5. CASE o \in Probes /\ ProbeStep(o)
    <3>1. pc'[o] \in {"synth", "poll"} => clip' \in {Sentinel, Selection} \/ NewCopy(o)'
      <4>1. CASE ProbeMarks(o)
        BY <4>1 DEF ProbeMarks
      <4>2. CASE ProbeSavesText(o) \/ ProbeSavesImage(o) \/ ProbeRestores(o)
        BY <2>3, <2>5, <4>2, <1>0 DEF ProbeSavesText, ProbeSavesImage, ProbeRestores, AfterText
      <4>3. CASE ProbeSynthesizes(o)
        BY <2>2, <2>3, <2>5, <4>3 DEF ProbeSynthesizes, Synthesize, OwnInv, NewCopy
      <4>4. CASE ProbeFails(o) \/ ProbePolls(o) \/ ProbeGivesUp(o)
        BY <2>3, <4>4, <1>0, <2>5 DEF ProbeFails, ProbePolls, ProbeGivesUp, Answer
      <4> QED
        BY <2>5, <4>1, <4>2, <4>3, <4>4 DEF ProbeStep
    <3> QED
      BY <1>0, <2>1, <2>5, <3>1 DEF OwnInv, Ended
  <2> QED
    BY <1>1, <2>4, <2>5 DEF CallStep
<1>2. CASE AppPastes \/ AppCopies
  <2>1. PICK o \in Calls : keys = Key(o) /\ Running \subseteq {o} /\ pc[o] \in KeyPlaces(o)
    BY <1>2 DEF AppPastes, AppCopies, TurnInv
  <2>2. keys' = <<>> /\ UNCHANGED <<pc, saved, mine, meanwhile>>
    BY <1>2, <2>1 DEF AppPastes, AppCopies, callVars, userVars, Key
  <2>3. \A u \in Calls : ~Pending(u)'
    BY <2>2 DEF Pending
  <2>4. CASE clip' = clip
    BY <1>0, <2>2, <2>3, <2>4 DEF OwnInv, NewCopy
  <2>5. CASE clip' # clip
    <3>1. clip' = Selection /\ Head(keys)[1] = "copy"
      BY <1>2, <2>5 DEF AppPastes, AppCopies
    <3>2. o \notin Pastes
      BY <2>1, <3>1 DEF Key
    <3>3. \A p \in Pastes : pc[p] \notin {"synth", "wait", "restore"}
      BY <1>0, <2>1, <3>2 DEF Running
    <3> QED
      BY <1>0, <2>2, <2>3, <3>1, <3>3 DEF OwnInv
  <2> QED
    BY <2>4, <2>5
<1>3. CASE UserCopies
  <2>1. mine' \notin Seen \cup {None} /\ clip' = mine'
    BY <1>3, CopyIsNew
  <2>2. /\ UNCHANGED <<pc, saved, keys>>
        /\ meanwhile' = meanwhile \cup {o \in Calls : o \in Running \/ Pending(o)}
    BY <1>3 DEF UserCopies, callVars, appVars
  <2>3. \A o \in Calls : saved[o] \in Seen \cup {None} /\ (Pending(o)' <=> Pending(o))
    BY <2>2 DEF TypeInv, Pending
  <2>4. ASSUME NEW o \in Calls, o \in Running \/ Pending(o) PROVE NewCopy(o)'
    BY <2>1, <2>2, <2>3, <2>4 DEF NewCopy
  <2>5. \A o \in Calls : pc[o] \in {"synth", "wait", "restore", "poll"} => o \in Running
    BY DEF Running
  <2> QED
    BY <1>0, <2>2, <2>3, <2>4, <2>5 DEF OwnInv
<1>4. CASE Shutdown \/ UNCHANGED vars
  BY <1>4 DEF Shutdown, vars, callVars, appVars, userVars, OwnInv, NewCopy, Pending
<1> QED
  BY <1>1, <1>2, <1>3, <1>4, StepsOfCalls
-----------------------------------------------------------------------------
(* What is pasted and answered.                                            *)
LEMMA ResultStep ==
  ASSUME TypeInv, TurnInv, OneAtATime, OwnInv, ResultInv, [Next]_vars
  PROVE  ResultInv'
<1>0. Pastes \cap Probes = {} /\ Calls = Pastes \cup Probes /\ Copied \subseteq Users
  BY ClipboardAssumption, CopiedIsUsers DEF Calls
<1>1. ASSUME NEW o \in Calls, CallStep(o) PROVE ResultInv'
  <2>1. /\ pc'[o] # "new" /\ \A u \in Calls \ {o} : pc'[u] = pc[u] /\ saved'[u] = saved[u]
        /\ \A s \in Probes \ {o} : answer'[s] = answer[s]
        /\ UNCHANGED <<inserted, meanwhile>>
    BY <1>1, CallStepFacts
  <2>2. pc[o] \notin {"new", "image"} => UNCHANGED saved
    BY <1>1, CallStepFacts
  <2>3. /\ pc \in [Calls -> PastePlaces \cup ProbePlaces]
        /\ answer \in [Probes -> Seen \cup {None} \cup {<<"err", s>> : s \in Probes}]
        /\ \A p \in Pastes : pc[p] # "image"
    BY DEF TypeInv, PastePlaces, Ended
  <2>4. CASE o \in Pastes
    <3>1. inserted'[o] = None \/ saved'[o] = saved[o]
      BY <2>1, <2>2, <2>3, <2>4 DEF ResultInv
    <3> QED
      BY <1>0, <2>1, <2>4, <3>1 DEF ResultInv, PasteInsertsText, AnswerIsSelection
  <2>5. CASE o \in Probes
    <3> USE DEF Goto
    <3>1. /\ pc'[o] \in {"new", "image", "mark", "synth", "poll"} => answer'[o] = None
          /\ answer'[o] \notin {None, <<"err", o>>} =>
               answer'[o] = Selection \/ (o \in meanwhile' /\ answer'[o] \in Users \ {saved'[o]})
      <4>0. ProbeStep(o)
        BY <1>0, <1>1, <2>5 DEF CallStep
      <4>1. CASE ProbeSavesText(o) \/ ProbeSavesImage(o)
        BY <2>3, <2>5, <4>1 DEF ProbeSavesText, ProbeSavesImage, MayBegin, ResultInv
      <4>2. CASE ProbeMarks(o) \/ ProbeSynthesizes(o)
        BY <2>3, <2>5, <4>2 DEF ProbeMarks, ProbeSynthesizes, Synthesize, ResultInv
      <4>3. CASE ProbeFails(o) \/ ProbeGivesUp(o)
        BY <2>3, <2>5, <4>3 DEF ProbeFails, ProbeGivesUp, Answer
      <4>4. CASE ProbePolls(o)
        <5>1. pc[o] = "poll" /\ ReadText \notin {None, Sentinel} /\ answer'[o] = ReadText
          BY <2>3, <2>5, <4>4 DEF ProbePolls, Landed, Answer
        <5>2. ReadText = clip /\ clip # Sentinel
          BY <5>1 DEF ReadText
        <5>3. clip = Selection \/ NewCopy(o)
          BY <2>5, <5>1, <5>2 DEF OwnInv
        <5>4. UNCHANGED <<saved, meanwhile>> /\ pc'[o] = "restore"
          BY <2>1, <2>3, <2>5, <4>4 DEF ProbePolls, Answer
        <5> QED
          BY <1>0, <5>1, <5>2, <5>3, <5>4 DEF NewCopy, TypeInv
      <4>5. CASE ProbeRestores(o)
        <5>1. pc'[o] \in {"done", "cancelled"} /\ UNCHANGED <<answer, saved, meanwhile>>
          BY <2>3, <2>5, <4>5, <1>0 DEF ProbeRestores, userVars
        <5> QED
          BY <2>5, <5>1 DEF ResultInv, AnswerIsSelection
      <4> QED
        BY <4>0, <4>1, <4>2, <4>3, <4>4, <4>5 DEF ProbeStep
    <3> QED
      BY <1>0, <2>1, <2>5, <3>1 DEF ResultInv, PasteInsertsText, AnswerIsSelection
  <2> QED
    BY <1>0, <2>4, <2>5
<1>2. CASE AppPastes
  <2>1. PICK p \in Calls : keys = Key(p) /\ pc[p] \in KeyPlaces(p)
    BY <1>2 DEF AppPastes, TurnInv
  <2>2. Head(keys)[1] = "paste" /\ Head(keys)[2] = p /\ p \in Pastes
    BY <1>2, <2>1 DEF AppPastes, Key
  <2>3. Pending(p) /\ pc[p] \in {"wait", "cancelled"}
    BY <2>1, <2>2, PendingKey DEF KeyPlaces
  <2>4. inserted' = [inserted EXCEPT ![p] = clip] /\ UNCHANGED <<pc, saved, answer, meanwhile>>
    BY <1>2, <2>2 DEF AppPastes, callVars, userVars
  <2>5. clip = Generated(p) \/ (p \in meanwhile /\ clip \in Users \ {saved[p]})
    BY <1>0, <2>2, <2>3 DEF OwnInv, NewCopy, TypeInv
  <2>6. inserted'[p] = clip /\ \A q \in Pastes \ {p} : inserted'[q] = inserted[q]
    BY <2>2, <2>4 DEF TypeInv
  <2> QED
    BY <2>2, <2>3, <2>4, <2>5, <2>6 DEF ResultInv, PasteInsertsText, AnswerIsSelection
<1>3. CASE AppCopies \/ UserCopies \/ Shutdown \/ UNCHANGED vars
  <2>1. UNCHANGED <<pc, saved, answer, inserted>> /\ meanwhile \subseteq meanwhile'
    BY <1>3 DEF AppCopies, UserCopies, Shutdown, vars, callVars, appVars, userVars
  <2> QED
    BY <2>1 DEF ResultInv, PasteInsertsText, AnswerIsSelection
<1> QED
  BY <1>1, <1>2, <1>3, StepsOfCalls
-----------------------------------------------------------------------------
(* What the daemon owes the user stays so while another call runs.         *)
LEMMA OwedStays ==
  ASSUME TypeInv, NEW o \in Calls, CallStep(o), NEW c, OwedThen(c, mine, pc, saved)
  PROVE  OwedThen(c, mine', pc', saved')
<1>1. UNCHANGED mine /\ pc[o] \notin Ended
  BY CallStepFacts
<1>2. \A p \in Pastes : pc[p] \in Ended => pc'[p] = pc[p] /\ saved'[p] = saved[p]
  BY <1>1, CallStepFacts DEF Calls
<1> QED
  BY <1>1, <1>2 DEF OwedThen

(* A step of a call keeps what is owed, or gives it back.                  *)
LEMMA BackCall ==
  ASSUME TypeInv, TurnInv, TurnInv', OneAtATime, OwnInv, BackInv, NEW o \in Calls, CallStep(o)
  PROVE  BackInv'
<1> USE DEF Goto, Keep, appVars, userVars
<1>0. Pastes \cap Probes = {} /\ Calls = Pastes \cup Probes
  BY ClipboardAssumption DEF Calls
<1>1. \A u \in Calls \ {o} : pc'[u] \in Ended \cup {"new"} /\ ~Pending(u)' /\ pc'[u] = pc[u]
  BY OthersRest, CallStepFacts
<1>2. /\ UNCHANGED <<mine, meanwhile, ctxDone>> /\ pc[o] \notin Ended /\ pc'[o] # "new"
      /\ pc[o] \notin {"new", "image"} => UNCHANGED saved
  BY CallStepFacts
<1>3. SUFFICES ASSUME Undisturbed' PROVE BackInv'
  BY DEF BackInv
<1>4. Undisturbed /\ meanwhile = {}
  BY <1>0, <1>1, <1>2, <1>3 DEF Undisturbed, Ended
<1>5. /\ pc \in [Calls -> PastePlaces \cup ProbePlaces] /\ saved \in [Calls -> Seen \cup {None}]
      /\ clip \in Seen
  BY DEF TypeInv
<1>6. Running' = IF pc'[o] \in Ended THEN {} ELSE {o}
  BY HasTurn
<1>7. pc[o] = "new" => Owed(clip)
  BY <1>4, HasTurn DEF BackInv
<1>8. \A c : OwedThen(c, mine, pc, saved) => OwedThen(c, mine', pc', saved')
  BY OwedStays
<1>9. CASE o \in Pastes /\ PasteStep(o)
  <2>1. SUFFICES /\ pc'[o] \in Ended => OwedThen(clip', mine', pc', saved')
                 /\ pc'[o] = "write" => OwedThen(clip', mine', pc', saved') /\ saved'[o] = ReadText'
                 /\ pc'[o] \in {"synth", "wait"} /\ saved'[o] # None =>
                      OwedThen(saved'[o], mine', pc', saved')
                 /\ pc'[o] = "restore" => saved'[o] # None /\ OwedThen(saved'[o], mine', pc', saved')
    BY <1>0, <1>1, <1>6, <1>9 DEF BackInv, Owed, Ended
  <2>2. pc[o] \in {"synth", "wait", "restore"} => clip = Generated(o)
    BY <1>4, <1>9 DEF OwnInv, NewCopy
  <2>3. /\ pc[o] = "write" => OwedThen(clip, mine, pc, saved) /\ saved[o] = ReadText
        /\ pc[o] \in {"synth", "wait"} /\ saved[o] # None => OwedThen(saved[o], mine, pc, saved)
        /\ pc[o] = "restore" => saved[o] # None /\ OwedThen(saved[o], mine, pc, saved)
    BY <1>4, <1>9 DEF BackInv, Owed
  <2>4. CASE PasteSaves(o)
    <3>1. /\ pc[o] = "new" /\ pc'[o] = "write" /\ saved'[o] = ReadText /\ clip' = clip
      BY <1>0, <1>5, <1>9, <2>4 DEF PasteSaves, MayBegin
    <3> QED
      BY <1>7, <1>8, <3>1 DEF Owed, ReadText, Ended
  <2>5. CASE PasteWrites(o)
    <3>1. pc[o] = "write" /\ pc'[o] = "synth" /\ saved' = saved
      BY <1>0, <1>5, <1>9, <2>5 DEF PasteWrites
    <3>2. saved[o] # None => saved[o] = clip
      BY <2>3, <3>1 DEF ReadText
    <3> QED
      BY <1>8, <2>3, <3>1, <3>2 DEF Ended
  <2>6. CASE PasteSynthesizes(o)
    <3>1. pc[o] = "synth" /\ pc'[o] = "wait" /\ saved' = saved
      BY <1>0, <1>5, <1>9, <2>6 DEF PasteSynthesizes, Synthesize
    <3> QED
      BY <1>8, <2>3, <3>1 DEF Ended
  <2>7. CASE PasteFails(o) \/ PasteCancelled(o)
    <3>1. /\ pc[o] \in {"synth", "wait"} /\ pc'[o] \in {"failed", "cancelled"} /\ UNCHANGED <<clip, saved>>
      BY <1>0, <1>5, <1>9, <2>7 DEF PasteFails, PasteCancelled
    <3> QED
      BY <1>9, <2>2, <3>1 DEF OwedThen, Ended
  <2>8. CASE PasteCompares(o)
    <3>1. /\ pc[o] = "wait" /\ UNCHANGED <<clip, saved>>
          /\ pc'[o] = IF Restorable(o) THEN "restore" ELSE "done"
      BY <1>0, <1>5, <1>9, <2>8 DEF PasteCompares
    <3>2. ReadText = Generated(o)
      BY <2>2, <3>1, Kinds DEF ReadText
    <3>3. CASE saved[o] # None
      BY <1>8, <2>3, <3>1, <3>2, <3>3 DEF Restorable, Ended
    <3>4. CASE saved[o] = None
      BY <1>9, <2>2, <3>1, <3>4 DEF Restorable, OwedThen, Ended
    <3> QED
      BY <3>3, <3>4
  <2>9. CASE PasteRestores(o)
    <3>1. pc[o] = "restore" /\ pc'[o] = "done" /\ clip' = saved[o] /\ saved' = saved
      BY <1>0, <1>5, <1>9, <2>9 DEF PasteRestores
    <3> QED
      BY <1>8, <2>3, <3>1 DEF Ended
  <2> QED
    BY <1>9, <2>4, <2>5, <2>6, <2>7, <2>8, <2>9 DEF PasteStep
<1>10. CASE o \in Probes /\ ProbeStep(o)
  <2> DEFINE back == IF saved[o] = None THEN Empty ELSE saved[o]
             then == IF saved'[o] = None THEN Empty ELSE saved'[o]
  <2>1. SUFFICES /\ pc'[o] \in Ended => OwedThen(clip', mine', pc', saved')
                 /\ pc'[o] = "image" => OwedThen(clip', mine', pc', saved') /\ ReadText' = None
                 /\ pc'[o] = "mark" => OwedThen(clip', mine', pc', saved') /\ then = clip'
                 /\ pc'[o] \in {"synth", "poll", "restore"} => OwedThen(then, mine', pc', saved')
                 /\ pc'[o] = "synth" => clip' = Sentinel
                 /\ Pending(o)' => /\ pc'[o] = "poll" => clip' = Sentinel
                                   /\ pc'[o] = "restore" => ctxDone'
                                   /\ pc'[o] # "done"
    BY <1>0, <1>1, <1>6, <1>10 DEF BackInv, Owed, Restored, Ended
  <2>2. /\ pc[o] = "image" => OwedThen(clip, mine, pc, saved) /\ ReadText = None
        /\ pc[o] = "mark" => OwedThen(clip, mine, pc, saved) /\ back = clip
        /\ pc[o] \in {"synth", "poll", "restore"} => OwedThen(back, mine, pc, saved)
        /\ pc[o] = "synth" => clip = Sentinel
        /\ Pending(o) => /\ pc[o] = "poll" => clip = Sentinel
                         /\ pc[o] = "restore" => ctxDone
    BY <1>4, <1>10 DEF BackInv, Owed, Restored
  <2>3. o \notin Pastes /\ (Pending(o) => pc[o] \in {"poll", "restore", "done", "cancelled"})
    <3>1. Pending(o) => keys = Key(o)
      BY PendingKey
    <3> QED
      BY <1>0, <1>10, <3>1, HasTurn DEF TurnInv, Key, KeyPlaces
  <2>4. pc'[o] # "cancelled"
    BY <1>3, <1>10 DEF Undisturbed
  <2>5. CASE ProbeSavesText(o)
    <3>1. /\ pc[o] = "new" /\ pc'[o] = AfterText /\ saved'[o] = ReadText /\ clip' = clip
      BY <1>0, <1>5, <1>10, <2>5 DEF ProbeSavesText, MayBegin
    <3>2. ReadText' = ReadText /\ ReadText # None => ReadText = clip
      BY <3>1 DEF ReadText
    <3> QED
      BY <1>7, <1>8, <3>1, <3>2 DEF Owed, ReadText, AfterText, Ended
  <2>6. CASE ProbeSavesImage(o)
    <3>1. pc[o] = "image" /\ pc'[o] = "mark" /\ saved'[o] = ReadImage /\ clip' = clip
      BY <1>0, <1>5, <1>10, <2>6 DEF ProbeSavesImage
    <3>2. clip[1] \in {"image", "empty"} /\ clip # None
      BY <1>5, <2>2, <3>1, Kinds DEF ReadText, Seen
    <3>3. clip[1] = "empty" => clip = Empty
      BY <1>5, Kinds DEF Seen
    <3>4. then = clip
      BY <3>1, <3>2, <3>3 DEF ReadImage
    <3> QED
      BY <1>8, <2>2, <3>1, <3>4 DEF Ended
  <2>7. CASE ProbeMarks(o)
    <3>1. pc[o] = "mark" /\ pc'[o] = "synth" /\ clip' = Sentinel /\ saved' = saved
      BY <1>0, <1>5, <1>10, <2>7 DEF ProbeMarks
    <3> QED
      BY <1>8, <2>2, <3>1 DEF Ended
  <2>8. CASE ProbeSynthesizes(o)
    <3>1. pc[o] = "synth" /\ pc'[o] = "poll" /\ UNCHANGED <<clip, saved>>
      BY <1>0, <1>5, <1>10, <2>8 DEF ProbeSynthesizes, Synthesize
    <3> QED
      BY <1>8, <2>2, <3>1 DEF Ended
  <2>9. CASE ProbeFails(o) \/ ProbePolls(o) \/ ProbeGivesUp(o)
    <3>1. /\ pc[o] \in {"synth", "poll"} /\ pc'[o] = "restore" /\ UNCHANGED <<clip, saved, keys, ctxDone>>
      BY <1>0, <1>5, <1>10, <2>9 DEF ProbeFails, ProbePolls, ProbeGivesUp, Answer
    <3>2. Pending(o)' => Pending(o)
      BY <3>1 DEF Pending
    <3>3. Pending(o) => pc[o] = "poll" /\ clip = Sentinel /\ ~ProbeFails(o)
      BY <2>2, <2>3, <3>1 DEF ProbeFails
    <3>4. Pending(o) => ~ProbePolls(o)
      BY <3>3, Kinds DEF ProbePolls, Landed, ReadText
    <3>5. Pending(o) => ctxDone
      BY <2>9, <3>3, <3>4 DEF ProbeGivesUp, OneAtATime
    <3> QED
      BY <1>2, <1>8, <2>2, <3>1, <3>2, <3>5 DEF Ended
  <2>10. CASE ProbeRestores(o)
    <3>1. /\ pc[o] = "restore" /\ pc'[o] = "done" /\ clip' = back /\ UNCHANGED <<saved, keys>>
          /\ ~(Pending(o) /\ ctxDone)
      BY <1>0, <1>5, <1>10, <2>4, <2>10 DEF ProbeRestores, Restored
    <3>2. Pending(o)' => Pending(o)
      BY <3>1 DEF Pending
    <3> QED
      BY <1>8, <2>2, <3>1, <3>2 DEF Ended
  <2> QED
    BY <1>10, <2>5, <2>6, <2>7, <2>8, <2>9, <2>10 DEF ProbeStep
<1> QED
  BY <1>9, <1>10 DEF CallStep

(* Who still owes the user the clipboard holds what was copied last.       *)
LEMMA BackStep ==
  ASSUME TypeInv, TurnInv, TurnInv', OneAtATime, OwnInv, BackInv, [Next]_vars
  PROVE  BackInv'
<1>0. Pastes \cap Probes = {} /\ Calls = Pastes \cup Probes
  BY ClipboardAssumption DEF Calls
<1>1. CASE AppPastes \/ AppCopies
  <2>1. PICK o \in Calls : keys = Key(o) /\ Running \subseteq {o} /\ pc[o] \in KeyPlaces(o)
    BY <1>1 DEF AppPastes, AppCopies, TurnInv
  <2>2. keys' = <<>> /\ UNCHANGED <<pc, saved, mine, meanwhile, ctxDone>>
    BY <1>1, <2>1 DEF AppPastes, AppCopies, callVars, userVars, Key
  <2>3. \A u \in Calls : ~Pending(u)'
    BY <2>2 DEF Pending
  <2>4. CASE clip' = clip
    BY <1>0, <2>2, <2>3, <2>4
    DEF BackInv, Undisturbed, Owed, OwedThen, Running, ReadText, Restored
  <2>5. CASE clip' # clip
    <3>1. Head(keys)[1] = "copy"
      BY <1>1, <2>5 DEF AppPastes, AppCopies
    <3>2. o \in Probes /\ Pending(o)
      BY <1>0, <2>1, <3>1, PendingKey DEF Key
    <3>3. SUFFICES ASSUME Undisturbed' PROVE BackInv'
      BY DEF BackInv
    <3>4. Undisturbed
      BY <2>2, <3>3 DEF Undisturbed
    <3>5. pc[o] \in {"poll", "restore"} /\ Running = {o}
      <4>1. pc[o] \notin {"done", "cancelled"}
        BY <3>2, <3>4 DEF BackInv, Undisturbed
      <4>2. pc[o] \in {"poll", "restore"}
        BY <1>0, <2>1, <3>2, <4>1 DEF KeyPlaces
      <4> QED
        BY <2>1, <4>2 DEF Running
    <3>6. Running' = {o}
      BY <2>2, <3>5 DEF Running
    <3>7. \A u \in Calls \ {o} : pc[u] \notin {"write", "synth", "wait", "restore", "image", "mark", "poll"}
      BY <3>5 DEF Running
    <3>8. OwedThen(Restored(o), mine, pc, saved)
      BY <3>2, <3>4, <3>5 DEF BackInv, Owed
    <3> QED
      BY <1>0, <2>2, <2>3, <3>2, <3>5, <3>6, <3>7, <3>8 DEF BackInv, Owed, OwedThen, Restored
  <2> QED
    BY <2>4, <2>5
<1>2. CASE UserCopies
  <2>1. /\ UNCHANGED <<pc, saved, keys>> /\ clip' = mine'
        /\ meanwhile' = meanwhile \cup {o \in Calls : o \in Running \/ Pending(o)}
    BY <1>2 DEF UserCopies, callVars, appVars
  <2>2. SUFFICES ASSUME Undisturbed' PROVE BackInv'
    BY DEF BackInv
  <2>3. \A o \in Calls : o \notin Running /\ ~Pending(o)
    BY <2>1, <2>2 DEF Undisturbed
  <2>4. \A o \in Calls : pc'[o] \in Ended \cup {"new"} /\ ~Pending(o)'
    BY <2>1, <2>3 DEF Running, Pending, Ended
  <2> QED
    BY <1>0, <2>1, <2>4 DEF BackInv, Owed, OwedThen, Ended
<1>3. CASE Shutdown \/ UNCHANGED vars
  <2>1. UNCHANGED <<clip, pc, saved, keys, mine, meanwhile>> /\ (ctxDone => ctxDone')
    BY <1>3 DEF Shutdown, vars, callVars, appVars, userVars
  <2> QED
    BY <2>1 DEF BackInv, Undisturbed, Owed, OwedThen, Running, ReadText, Restored, Pending
<1> QED
  BY <1>1, <1>2, <1>3, BackCall, StepsOfCalls
-----------------------------------------------------------------------------
ClipInv == TypeInv /\ TurnInv /\ OwnInv /\ ResultInv /\ BackInv

(* The inductive invariant.                                                *)
LEMMA ClipInvariant ==
  ASSUME OneAtATime PROVE Spec => []ClipInv
<1>0. Pastes \cap Probes = {} /\ Calls = Pastes \cup Probes
  BY ClipboardAssumption DEF Calls
<1>1. Init => ClipInv
  <2> SUFFICES ASSUME Init PROVE ClipInv
    OBVIOUS
  <2>1. clip = mine /\ mine \in Copied /\ copies = 0 /\ 0 \in 0 .. MaxCopies
    BY ClipboardAssumption DEF Init, Copied
  <2>2. \A o \in Calls : pc[o] = "new" /\ saved[o] = None /\ ~Pending(o)
    BY DEF Init, Pending
  <2>3. TypeInv
    BY <1>0, <2>1, <2>2 DEF Init, TypeInv, Seen, PastePlaces, ProbePlaces
  <2>4. TurnInv
    BY DEF Init, TurnInv, Running
  <2>5. OwnInv /\ BackInv
    BY <1>0, <2>1, <2>2 DEF OwnInv, BackInv, Owed, OwedThen
  <2>6. ResultInv
    BY DEF Init, ResultInv, PasteInsertsText, AnswerIsSelection
  <2> QED
    BY <2>3, <2>4, <2>5, <2>6 DEF ClipInv
<1>2. ClipInv /\ [Next]_vars => ClipInv'
  BY TypeStep, TurnStep, OwnStep, ResultStep, BackStep DEF ClipInv
<1> QED
  BY <1>1, <1>2, PTL DEF Spec

(* The application pastes the text it was meant to, or what the user has   *)
(* copied in the meantime.                                                 *)
THEOREM PastesInsertTheirText ==
  ASSUME OneAtATime PROVE Spec => []PasteInsertsText
<1>1. ClipInv => PasteInsertsText
  BY DEF ClipInv, ResultInv
<1> QED
  BY <1>1, ClipInvariant, PTL

(* A probe reports the selection, or what the user has copied in the       *)
(* meantime, never an older content of the clipboard.                      *)
THEOREM AnswersAreSelections ==
  ASSUME OneAtATime PROVE Spec => []AnswerIsSelection
<1>1. ClipInv => AnswerIsSelection
  BY DEF ClipInv, ResultInv
<1> QED
  BY <1>1, ClipInvariant, PTL

(* A user who copies nothing while the daemon works has back what was      *)
(* copied last, or a generated text that was left on purpose.              *)
THEOREM ClipboardComesBack ==
  ASSUME OneAtATime PROVE Spec => []UserGetsClipboardBack
<1>1. ClipInv => UserGetsClipboardBack
  BY DEF ClipInv, BackInv, Undisturbed, Owed, OwedThen, UserGetsClipboardBack, AtRest, LeftBehind
<1> QED
  BY <1>1, ClipInvariant, PTL
=============================================================================

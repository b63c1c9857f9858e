-------------------------- MODULE LocalModelProofs --------------------------
(***************************************************************************)
(* Proofs about the local models: the cache that holds them (ModelCache),  *)
(* for any number of users, names, instances and callbacks and any         *)
(* UnloadAfter, and what a model that is held does with a recording        *)
(* (Transcription), for any size of model and cache, any number of         *)
(* decoders and temperatures and any recordings.                           *)
(***************************************************************************)
EXTENDS ModelCache, Transcription, FiniteSetTheorems, WellFoundedInduction, TLAPS

(***************************************************************************)
(* Part 1.  The cache.                                                     *)
(***************************************************************************)

(* A goroutine past the lookup remembers a configured name.                *)
NamesKnown ==
  /\ \A u \in Users : upc[u] # "idle" => want[u] \in Names
  /\ \A g \in Callbacks : cpc[g] = "fired" => target[g] \in Names
  /\ \A e \in Instances : timer[e] = "armed" => label[e] \in Names

(* A cached model is allocated and cached under one name.                  *)
EntriesApart ==
  /\ \A n \in Names : loaded[n] # NoInstance => alive[loaded[n]]
  /\ \A n, m \in Names : loaded[n] # NoInstance /\ loaded[n] = loaded[m] => n = m

(* A model just loaded belongs to its loader alone.                        *)
LoadersApart ==
  \A u \in Users : upc[u] = "loaded" =>
    /\ have[u] \in Instances
    /\ alive[have[u]]
    /\ \A n \in Names : loaded[n] # have[u]
    /\ \A v \in Users : upc[v] = "loaded" /\ have[v] = have[u] => v = u

(* A model just removed belongs to the callback that will close it.        *)
ClosersApart ==
  \A g \in Callbacks : cpc[g] = "closing" =>
    /\ victim[g] \in Instances
    /\ alive[victim[g]]
    /\ \A n \in Names : loaded[n] # victim[g]
    /\ \A u \in Users : upc[u] = "loaded" => have[u] # victim[g]
    /\ \A h \in Callbacks : cpc[h] = "closing" /\ victim[h] = victim[g] => h = g

(* The part of the invariant that does not count.                          *)
Apart == NamesKnown /\ EntriesApart /\ LoadersApart /\ ClosersApart

(* HeldIsResident is not inductive by itself: an unload is safe because    *)
(* the count is exact, and the count is of use only while entries, fresh   *)
(* loads and victims are different instances.                              *)
SafeInv == TypeOK /\ Apart /\ HeldIsResident /\ InflightCountsHolders

(* The timer of a cached entry calls maybeUnload with the entry's name.    *)
TimersMatch ==
  \A n \in Names : loaded[n] # NoInstance /\ timer[loaded[n]] # "nil"
                    => label[loaded[n]] = n

(* The inductive invariant: a callback that postpones an unload needs the  *)
(* timer of an idle entry, so the two parts are proved together.           *)
IInv == SafeInv /\ TimersMatch /\ IdleIsScheduled
-----------------------------------------------------------------------------
(* Users are finite, so the holders of an entry can be counted.            *)
LEMMA HoldersFinite ==
  ASSUME NEW e
  PROVE  /\ IsFiniteSet(Holders(e))
         /\ Cardinality(Holders(e)) \in Nat
<1>1. Holders(e) \subseteq Users
  BY DEF Holders
<1>2. IsFiniteSet(Holders(e))
  BY <1>1, UsersAssumption, FS_Subset
<1> QED
  BY <1>2, FS_CardinalityType

(* An entry that counts no use has no holder.                              *)
LEMMA UnusedHasNoHolder ==
  ASSUME TypeOK, InflightCountsHolders,
         NEW n \in Names, loaded[n] # NoInstance, inflight[loaded[n]] = 0
  PROVE  \A u \in Users : ~(upc[u] \in Holding /\ have[u] = loaded[n])
<1>1. Cardinality(Holders(loaded[n])) = 0
  BY DEF InflightCountsHolders
<1>2. Holders(loaded[n]) = {}
  BY <1>1, HoldersFinite, FS_EmptySet
<1> QED
  BY <1>2 DEF Holders

(* Nothing is loaded at first.                                             *)
THEOREM InitSafeInv == Init => SafeInv
<1> SUFFICES ASSUME Init PROVE SafeInv
  OBVIOUS
<1> USE DEF Init
<1>1. TypeOK
  BY UnloadAssumption DEF TypeOK
<1>2. Apart
  BY DEF Apart, NamesKnown, EntriesApart, LoadersApart, ClosersApart
<1>3. HeldIsResident /\ InflightCountsHolders
  BY DEF HeldIsResident, InflightCountsHolders, Holding
<1> QED
  BY <1>1, <1>2, <1>3 DEF SafeInv
-----------------------------------------------------------------------------
(* Steps that touch neither an entry nor the set of its holders keep the   *)
(* last two conjuncts.                                                     *)
LEMMA QuietStep ==
  ASSUME SafeInv, UNCHANGED <<loaded, alive, inflight, want, have>>,
         \A u \in Users : upc'[u] \in Holding <=> upc[u] \in Holding
  PROVE  HeldIsResident' /\ InflightCountsHolders'
<1>1. \A e : Holders(e)' = Holders(e)
  BY DEF Holders
<1>2. HeldIsResident'
  BY DEF SafeInv, HeldIsResident
<1>3. InflightCountsHolders'
  BY <1>1 DEF SafeInv, InflightCountsHolders
<1> QED
  BY <1>2, <1>3

(* A user joins the holders of the entry cached under n, and is counted.   *)
LEMMA JoinStep ==
  ASSUME SafeInv,
         NEW u \in Users, NEW n \in Names, upc[u] \notin Holding,
         loaded[n] # NoInstance,
         upc'  = [upc EXCEPT ![u] = "held"],
         want' = [want EXCEPT ![u] = n],
         have' = [have EXCEPT ![u] = loaded[n]],
         inflight' = WithUse(loaded[n]),
         UNCHANGED loaded,
         \A m \in Names : loaded[m] # NoInstance => alive'[loaded[m]]
  PROVE  HeldIsResident' /\ InflightCountsHolders'
<1> USE DEF SafeInv, TypeOK
<1>1. HeldIsResident'
  BY DEF HeldIsResident, Apart, NamesKnown, Holding
<1>2. ASSUME NEW m \in Names, loaded[m] # NoInstance
      PROVE  inflight'[loaded[m]] = Cardinality(Holders(loaded[m])')
  <2>1. CASE loaded[m] = loaded[n]
    <3>1. Holders(loaded[m])' = Holders(loaded[m]) \cup {u}
      BY <2>1 DEF Holders, Holding
    <3>2. u \notin Holders(loaded[m])
      BY DEF Holders
    <3>3. Cardinality(Holders(loaded[m]) \cup {u}) = Cardinality(Holders(loaded[m])) + 1
      BY <3>2, HoldersFinite, FS_AddElement
    <3>4. inflight'[loaded[m]] = inflight[loaded[m]] + 1
      BY <1>2, <2>1 DEF WithUse
    <3> QED
      BY <1>2, <3>1, <3>3, <3>4 DEF InflightCountsHolders
  <2>2. CASE loaded[m] # loaded[n]
    <3>1. Holders(loaded[m])' = Holders(loaded[m])
      BY <2>2 DEF Holders
    <3>2. inflight'[loaded[m]] = inflight[loaded[m]]
      BY <1>2, <2>2 DEF WithUse
    <3> QED
      BY <1>2, <3>1, <3>2 DEF InflightCountsHolders
  <2> QED
    BY <2>1, <2>2
<1>3. InflightCountsHolders'
  BY <1>2 DEF InflightCountsHolders
<1> QED
  BY <1>1, <1>3

(* acquire keeps the invariant.                                            *)
LEMMA AcquireHitStep ==
  ASSUME SafeInv, NEW u \in Users, NEW n \in Names, AcquireHit(u, n)
  PROVE  SafeInv'
<1> USE DEF AcquireHit, SafeInv, callVars
<1>1. TypeOK'
  BY DEF TypeOK, Holding, WithUse
<1>2. Apart'
  BY DEF TypeOK, Apart, NamesKnown, EntriesApart, LoadersApart, ClosersApart
<1>3. HeldIsResident' /\ InflightCountsHolders'
  <2>1. upc[u] \notin Holding
    BY DEF Holding
  <2>2. \A m \in Names : loaded[m] # NoInstance => alive'[loaded[m]]
    BY DEF Apart, EntriesApart
  <2> QED
    BY <2>1, <2>2, JoinStep
<1> QED
  BY <1>1, <1>2, <1>3

(* A miss and a failed load change no entry and no holder.                 *)
LEMMA AcquireMissStep ==
  ASSUME SafeInv, NEW u \in Users, NEW n \in Names, AcquireMiss(u, n)
  PROVE  SafeInv'
<1> USE DEF AcquireMiss, SafeInv, callVars, entryVars
<1>1. TypeOK'
  BY DEF TypeOK, Holding
<1>2. Apart'
  BY DEF TypeOK, Apart, NamesKnown, EntriesApart, LoadersApart, ClosersApart
<1>3. HeldIsResident'
  BY DEF TypeOK, HeldIsResident, Holding
<1>4. \A e : Holders(e)' = Holders(e)
  BY DEF TypeOK, Holders, Holding
<1>5. InflightCountsHolders'
  BY <1>4 DEF InflightCountsHolders
<1> QED
  BY <1>1, <1>2, <1>3, <1>5

(* A failed load is not cached.                                            *)
LEMMA LoadFailsStep ==
  ASSUME SafeInv, NEW u \in Users, LoadFails(u)
  PROVE  SafeInv'
<1> USE DEF LoadFails, SafeInv, callVars, entryVars
<1>1. TypeOK'
  BY DEF TypeOK, Holding
<1>2. Apart'
  BY DEF TypeOK, Apart, NamesKnown, EntriesApart, LoadersApart, ClosersApart
<1>3. HeldIsResident'
  BY DEF TypeOK, HeldIsResident, Holding
<1>4. \A e : Holders(e)' = Holders(e)
  BY DEF TypeOK, Holders, Holding
<1>5. InflightCountsHolders'
  BY <1>4 DEF InflightCountsHolders
<1> QED
  BY <1>1, <1>2, <1>3, <1>5

(* The slot a load returns is vacant, so it is nobody else's.              *)
LEMMA LoadReturnsStep ==
  ASSUME SafeInv, NEW u \in Users, NEW e \in Instances, LoadReturns(u, e)
  PROVE  SafeInv'
<1> USE DEF LoadReturns, Vacant, SafeInv, callVars
<1>1. TypeOK'
  BY DEF TypeOK, Holding
<1>2. NamesKnown' /\ EntriesApart'
  BY InstanceAssumption DEF TypeOK, Apart, NamesKnown, EntriesApart
<1>3. LoadersApart' /\ ClosersApart'
  BY InstanceAssumption DEF TypeOK, Apart, EntriesApart, LoadersApart, ClosersApart
<1>4. HeldIsResident'
  BY DEF TypeOK, HeldIsResident, Holding
<1>5. \A j : Holders(j)' = Holders(j)
  BY DEF TypeOK, Holders, Holding
<1>6. InflightCountsHolders'
  BY <1>5 DEF InflightCountsHolders
<1> QED
  BY <1>1, <1>2, <1>3, <1>4, <1>6 DEF Apart

(* The first insertion makes the loader the one holder of a new entry.     *)
LEMMA InsertFirstStep ==
  ASSUME SafeInv, NEW u \in Users, InsertFirst(u)
  PROVE  SafeInv'
<1> USE DEF InsertFirst, RaceLost, SafeInv, callVars
<1>0. PICK n \in Names, e \in Instances :
        want[u] = n /\ have[u] = e /\ loaded[n] = NoInstance
  BY DEF TypeOK, Apart, NamesKnown, LoadersApart
<1>1. TypeOK'
  BY <1>0, UnloadAssumption DEF TypeOK, Holding, NewEntry
<1>2. NamesKnown' /\ EntriesApart'
  BY <1>0, InstanceAssumption DEF TypeOK, Apart, NamesKnown, EntriesApart, LoadersApart
<1>3. LoadersApart' /\ ClosersApart'
  BY <1>0, InstanceAssumption DEF TypeOK, Apart, LoadersApart, ClosersApart
<1>4. HeldIsResident'
  BY <1>0, InstanceAssumption DEF TypeOK, HeldIsResident, Holding, Apart, LoadersApart
<1>5. ASSUME NEW m \in Names, loaded'[m] # NoInstance
      PROVE  (inflight[loaded[m]] = Cardinality(Holders(loaded[m])))'
  <2>1. CASE m = n
    <3>1. loaded'[m] = e
      BY <2>1, <1>0 DEF TypeOK
    <3>2. \A v \in Users : upc[v] \in Holding => have[v] # e
      BY <1>0 DEF HeldIsResident, Apart, LoadersApart, NamesKnown, Holding
    <3>3. Holders(e)' = {u}
      BY <1>0, <3>2 DEF TypeOK, Holders, Holding
    <3>4. Cardinality({u}) = 1
      BY FS_Singleton
    <3>5. inflight'[e] = 1
      BY <1>0 DEF TypeOK, NewEntry
    <3> QED
      BY <3>1, <3>3, <3>4, <3>5
  <2>2. CASE m # n
    <3>1. loaded'[m] = loaded[m] /\ loaded[m] # e
      BY <2>2, <1>0 DEF TypeOK, Apart, LoadersApart
    <3>2. Holders(loaded[m])' = Holders(loaded[m])
      BY <1>0, <3>1 DEF TypeOK, Holders, Holding
    <3>3. inflight'[loaded[m]] = inflight[loaded[m]]
      BY <3>1, <1>0, <1>5 DEF TypeOK, NewEntry
    <3> QED
      BY <1>5, <3>1, <3>2, <3>3 DEF InflightCountsHolders
  <2> QED
    BY <2>1, <2>2
<1>6. InflightCountsHolders'
  BY <1>5 DEF InflightCountsHolders
<1> QED
  BY <1>1, <1>2, <1>3, <1>4, <1>6 DEF Apart

(* The loser of the race frees its own model, which nobody else knows.     *)
LEMMA InsertSecondStep ==
  ASSUME SafeInv, NEW u \in Users, InsertSecond(u)
  PROVE  SafeInv'
<1> USE DEF InsertSecond, RaceLost, SafeInv, callVars
<1> DEFINE n == want[u]
<1>0. n \in Names /\ have[u] \in Instances /\ loaded[n] \in Instances
  BY DEF TypeOK, Apart, NamesKnown, LoadersApart
<1>1. TypeOK'
  BY <1>0 DEF TypeOK, Holding, WithUse
<1>2. NamesKnown' /\ EntriesApart'
  BY <1>0 DEF TypeOK, Apart, NamesKnown, EntriesApart, LoadersApart
<1>3. LoadersApart' /\ ClosersApart'
  BY <1>0 DEF TypeOK, Apart, LoadersApart, ClosersApart
<1>4. HeldIsResident' /\ InflightCountsHolders'
  <2>1. upc[u] \notin Holding
    BY DEF Holding
  <2>2. \A m \in Names : loaded[m] # NoInstance => alive'[loaded[m]]
    BY <1>0 DEF TypeOK, Apart, EntriesApart, LoadersApart
  <2>3. want' = [want EXCEPT ![u] = n]
    BY <1>0 DEF TypeOK
  <2> QED
    BY <1>0, <2>1, <2>2, <2>3, JoinStep
<1> QED
  BY <1>1, <1>2, <1>3, <1>4 DEF Apart

(* Inference happens within a lease.                                       *)
LEMMA InferenceStep ==
  ASSUME SafeInv, NEW u \in Users, StartInference(u) \/ EndInference(u)
  PROVE  SafeInv'
<1> USE DEF StartInference, EndInference, callVars, entryVars
<1>1. TypeOK'
  BY DEF SafeInv, TypeOK, Holding
<1>2. Apart'
  BY DEF SafeInv, TypeOK, Apart, NamesKnown, EntriesApart, LoadersApart, ClosersApart
<1>3. HeldIsResident' /\ InflightCountsHolders'
  <2>1. \A v \in Users : upc'[v] \in Holding <=> upc[v] \in Holding
    BY DEF SafeInv, TypeOK, Holding
  <2>2. UNCHANGED <<loaded, alive, inflight, want, have>>
    OBVIOUS
  <2> QED
    BY <2>1, <2>2, QuietStep
<1> QED
  BY <1>1, <1>2, <1>3 DEF SafeInv

(* release takes its caller out of the holders and out of the count.       *)
LEMMA ReleaseStep ==
  ASSUME SafeInv, NEW u \in Users, Release(u)
  PROVE  SafeInv'
<1> USE DEF Release, SafeInv, callVars
<1>0. PICK e \in Instances : /\ have[u] = e /\ loaded[want[u]] = e
                            /\ upc[u] \in Holding /\ want[u] \in Names
  BY DEF TypeOK, HeldIsResident, Holding, Apart, NamesKnown
<1>1. u \in Holders(e) /\ Cardinality(Holders(e)) = inflight[e]
  BY <1>0, InstanceAssumption DEF Holders, InflightCountsHolders
<1>2. inflight[e] - 1 = Cardinality(Holders(e) \ {u})
  BY <1>1, HoldersFinite, FS_RemoveElement
<1>3. inflight[e] - 1 \in Nat
  <2>1. IsFiniteSet(Holders(e) \ {u})
    BY HoldersFinite, FS_RemoveElement
  <2> QED
    BY <2>1, <1>2, FS_CardinalityType
<1>4. TypeOK'
  BY <1>0, <1>3, UnloadAssumption DEF TypeOK, Holding
<1>5. Apart'
  <2>1. NamesKnown'
    BY <1>0 DEF TypeOK, Apart, NamesKnown
  <2>2. EntriesApart'
    BY DEF Apart, EntriesApart
  <2>3. LoadersApart' /\ ClosersApart'
    BY DEF TypeOK, Apart, LoadersApart, ClosersApart
  <2> QED
    BY <2>1, <2>2, <2>3 DEF Apart
<1>6. HeldIsResident'
  BY DEF TypeOK, HeldIsResident, Holding
<1>7. ASSUME NEW m \in Names, loaded[m] # NoInstance
      PROVE  inflight'[loaded[m]] = Cardinality(Holders(loaded[m])')
  <2>1. CASE loaded[m] = e
    <3>1. Holders(e)' = Holders(e) \ {u}
      BY <1>0 DEF TypeOK, Holders, Holding
    <3> QED
      BY <2>1, <3>1, <1>0, <1>2 DEF TypeOK
  <2>2. CASE loaded[m] # e
    <3>1. Holders(loaded[m])' = Holders(loaded[m])
      BY <1>0, <2>2, <1>7 DEF TypeOK, Holders, Holding
    <3>2. inflight'[loaded[m]] = inflight[loaded[m]]
      BY <1>0, <2>2, <1>7 DEF TypeOK
    <3> QED
      BY <1>7, <3>1, <3>2 DEF InflightCountsHolders
  <2> QED
    BY <2>1, <2>2
<1>8. InflightCountsHolders'
  BY <1>7 DEF InflightCountsHolders
<1> QED
  BY <1>4, <1>5, <1>6, <1>8

-----------------------------------------------------------------------------
(* A due timer only starts a goroutine.                                    *)
LEMMA TimerFiresStep ==
  ASSUME SafeInv, NEW e \in Instances, NEW g \in Callbacks, TimerFires(e, g)
  PROVE  SafeInv'
<1> USE DEF TimerFires, userVars
<1>1. TypeOK'
  BY DEF SafeInv, TypeOK
<1>2. Apart'
  BY DEF SafeInv, TypeOK, Apart, NamesKnown, EntriesApart, LoadersApart, ClosersApart
<1>3. HeldIsResident' /\ InflightCountsHolders'
  BY QuietStep
<1> QED
  BY <1>1, <1>2, <1>3 DEF SafeInv

(* A callback that finds the entry gone or in use changes nothing else.    *)
LEMMA UnloadSkippedStep ==
  ASSUME SafeInv, NEW g \in Callbacks, UnloadSkipped(g)
  PROVE  SafeInv'
<1> USE DEF UnloadSkipped, userVars, entryVars
<1>1. TypeOK'
  BY DEF SafeInv, TypeOK
<1>2. Apart'
  BY DEF SafeInv, TypeOK, Apart, NamesKnown, EntriesApart, LoadersApart, ClosersApart
<1>3. HeldIsResident' /\ InflightCountsHolders'
  BY QuietStep
<1> QED
  BY <1>1, <1>2, <1>3 DEF SafeInv

(* The timer that is reset exists, and its closure has a configured name.  *)
LEMMA UnloadPostponedStep ==
  ASSUME IInv, NEW g \in Callbacks, UnloadPostponed(g)
  PROVE  SafeInv'
<1> USE DEF UnloadPostponed, userVars
<1>0. target[g] \in Names
  BY DEF IInv, SafeInv, Apart, NamesKnown
<1>1. TypeOK'
  BY <1>0, UnloadAssumption DEF IInv, SafeInv, TypeOK
<1>2. label[loaded[target[g]]] \in Names
  BY <1>0, UnloadAssumption DEF IInv, SafeInv, TypeOK, TimersMatch, IdleIsScheduled, Unused
<1>3. Apart'
  BY <1>2 DEF IInv, SafeInv, TypeOK, Apart, NamesKnown, EntriesApart, LoadersApart, ClosersApart
<1>4. HeldIsResident' /\ InflightCountsHolders'
  BY QuietStep DEF IInv
<1> QED
  BY <1>1, <1>3, <1>4 DEF SafeInv

(* The count is exact, so what maybeUnload removes has no holder.          *)
LEMMA UnloadRemovesStep ==
  ASSUME SafeInv, NEW g \in Callbacks, UnloadRemoves(g)
  PROVE  SafeInv'
<1> USE DEF UnloadRemoves, userVars
<1>0. PICK n \in Names : n = target[g]
  BY DEF SafeInv, Apart, NamesKnown
<1>1. TypeOK'
  BY <1>0 DEF SafeInv, TypeOK
<1>2. NamesKnown' /\ EntriesApart'
  BY <1>0 DEF SafeInv, TypeOK, Apart, NamesKnown, EntriesApart
<1>3. LoadersApart' /\ ClosersApart'
  BY <1>0, InstanceAssumption
  DEF SafeInv, TypeOK, Apart, EntriesApart, LoadersApart, ClosersApart
<1>4. HeldIsResident'
  <2>1. \A u \in Users : ~(upc[u] \in Holding /\ have[u] = loaded[n])
    BY <1>0, UnusedHasNoHolder DEF SafeInv, Unused
  <2> QED
    BY <1>0, <2>1 DEF SafeInv, TypeOK, HeldIsResident
<1>5. InflightCountsHolders'
  <2>1. \A e : Holders(e)' = Holders(e)
    BY DEF Holders
  <2> QED
    BY <1>0, <2>1 DEF SafeInv, TypeOK, InflightCountsHolders
<1> QED
  BY <1>1, <1>2, <1>3, <1>4, <1>5 DEF SafeInv, Apart

(* The victim is nobody's any more, so closing it disturbs no holder.      *)
LEMMA CloseVictimStep ==
  ASSUME SafeInv, NEW g \in Callbacks, CloseVictim(g)
  PROVE  SafeInv'
<1> USE DEF CloseVictim, userVars
<1>0. victim[g] \in Instances
  BY DEF SafeInv, Apart, ClosersApart
<1>1. TypeOK'
  BY <1>0 DEF SafeInv, TypeOK
<1>2. NamesKnown' /\ EntriesApart'
  BY <1>0 DEF SafeInv, TypeOK, Apart, NamesKnown, EntriesApart, ClosersApart
<1>3. LoadersApart' /\ ClosersApart'
  BY <1>0 DEF SafeInv, TypeOK, Apart, LoadersApart, ClosersApart
<1>4. HeldIsResident'
  BY <1>0 DEF SafeInv, TypeOK, HeldIsResident, Apart, ClosersApart, NamesKnown, Holding
<1>5. InflightCountsHolders'
  <2>1. \A e : Holders(e)' = Holders(e)
    BY DEF Holders
  <2> QED
    BY <2>1 DEF SafeInv, InflightCountsHolders
<1> QED
  BY <1>1, <1>2, <1>3, <1>4, <1>5 DEF SafeInv, Apart

(* Time moves only ages and timers.                                        *)
LEMMA TickStep ==
  ASSUME SafeInv, Tick
  PROVE  SafeInv'
<1> USE DEF Tick, userVars, callVars
<1>1. TypeOK'
  BY UnloadAssumption DEF SafeInv, TypeOK, Min2
<1>2. Apart'
  BY DEF SafeInv, Apart, NamesKnown, EntriesApart, LoadersApart, ClosersApart
<1>3. HeldIsResident' /\ InflightCountsHolders'
  BY QuietStep
<1> QED
  BY <1>1, <1>2, <1>3 DEF SafeInv

(* Every step keeps the safety part.                                       *)
THEOREM SafeStep == IInv /\ [Next]_vars => SafeInv'
<1> SUFFICES ASSUME IInv, [Next]_vars PROVE SafeInv'
  OBVIOUS
<1>0. SafeInv
  BY DEF IInv
<1>1. ASSUME NEW u \in Users, UserStep(u) PROVE SafeInv'
  BY <1>0, <1>1, AcquireHitStep, AcquireMissStep, LoadFailsStep, LoadReturnsStep,
     InsertFirstStep, InsertSecondStep, InferenceStep, ReleaseStep
  DEF UserStep
<1>2. ASSUME NEW g \in Callbacks, CallbackStep(g) PROVE SafeInv'
  BY <1>0, <1>2, UnloadSkippedStep, UnloadPostponedStep, UnloadRemovesStep, CloseVictimStep
  DEF CallbackStep
<1>3. ASSUME NEW e \in Instances, NEW g \in Callbacks, TimerFires(e, g) PROVE SafeInv'
  BY <1>0, <1>3, TimerFiresStep
<1>4. CASE Tick
  BY <1>0, <1>4, TickStep
<1>5. CASE UNCHANGED vars
  <2>1. UNCHANGED <<loaded, alive, inflight, age, timer, left, label>>
    BY <1>5 DEF vars, entryVars
  <2>2. UNCHANGED <<upc, want, have>> /\ UNCHANGED <<cpc, target, victim>>
    BY <1>5 DEF vars, userVars, callVars
  <2>3. TypeOK'
    BY <1>0, <2>1, <2>2 DEF SafeInv, TypeOK
  <2>4. Apart'
    BY <1>0, <2>1, <2>2 DEF SafeInv, Apart, NamesKnown, EntriesApart, LoadersApart, ClosersApart
  <2>5. HeldIsResident' /\ InflightCountsHolders'
    BY <1>0, <2>1, <2>2, QuietStep
  <2> QED
    BY <2>3, <2>4, <2>5 DEF SafeInv
<1> QED
  BY <1>1, <1>2, <1>3, <1>4, <1>5 DEF Next
-----------------------------------------------------------------------------
(* The timers' part of the invariant.                                      *)
Scheduled(n) ==
  LET e == loaded[n] IN
  UnloadAfter > 0 /\ e # NoInstance /\ inflight[e] = 0 =>
    /\ timer[e] # "nil"
    /\ \/ timer[e] = "armed" /\ left[e] + age[e] <= UnloadAfter
       \/ \E g \in Callbacks : cpc[g] = "fired" /\ target[g] = n

Matched(n) == loaded[n] # NoInstance /\ timer[loaded[n]] # "nil" => label[loaded[n]] = n

(* A step that leaves the entry of n and the callbacks alone.              *)
LEMMA ScheduleQuiet ==
  ASSUME IInv, NEW n \in Names,
         loaded'[n] = loaded[n],
         loaded[n] # NoInstance =>
           /\ inflight'[loaded[n]] = inflight[loaded[n]] \/ inflight'[loaded[n]] > 0
           /\ age'[loaded[n]] = age[loaded[n]]
           /\ timer'[loaded[n]] = timer[loaded[n]]
           /\ left'[loaded[n]] = left[loaded[n]]
           /\ label'[loaded[n]] = label[loaded[n]],
         UNCHANGED <<cpc, target>>
  PROVE  Scheduled(n)' /\ Matched(n)'
BY DEF IInv, SafeInv, TypeOK, IdleIsScheduled, TimersMatch, Scheduled, Matched

(* Users move timers only when they release.                               *)
LEMMA ScheduleUserStep ==
  ASSUME IInv, NEW u \in Users, UserStep(u), NEW n \in Names
  PROVE  Scheduled(n)' /\ Matched(n)'
<1> USE DEF callVars, entryVars
<1>t. /\ TypeOK
      /\ \A v \in Users : upc[v] # "idle" => want[v] \in Names
      /\ upc[u] = "loaded" => have[u] \in Instances /\ loaded[n] # have[u]
  BY DEF IInv, SafeInv, Apart, NamesKnown, LoadersApart
<1>1. ASSUME NEW m \in Names, AcquireHit(u, m) PROVE Scheduled(n)' /\ Matched(n)'
  BY <1>1, <1>t, ScheduleQuiet DEF AcquireHit, WithUse, TypeOK
<1>2. ASSUME NEW m \in Names, AcquireMiss(u, m) PROVE Scheduled(n)' /\ Matched(n)'
  BY <1>2, ScheduleQuiet DEF AcquireMiss
<1>3. CASE LoadFails(u)
  BY <1>3, ScheduleQuiet DEF LoadFails
<1>4. ASSUME NEW e \in Instances, LoadReturns(u, e) PROVE Scheduled(n)' /\ Matched(n)'
  BY <1>4, ScheduleQuiet DEF LoadReturns
<1>5. CASE InsertFirst(u)
  <2>1. CASE n = want[u]
    BY <1>5, <1>t, <2>1 DEF InsertFirst, NewEntry, TypeOK, Scheduled, Matched
  <2>2. CASE n # want[u]
    BY <1>5, <1>t, <2>2, ScheduleQuiet DEF InsertFirst, NewEntry, TypeOK
  <2> QED
    BY <2>1, <2>2
<1>6. CASE InsertSecond(u)
  BY <1>6, <1>t, ScheduleQuiet DEF InsertSecond, RaceLost, WithUse, TypeOK
<1>7. CASE StartInference(u) \/ EndInference(u)
  BY <1>7, ScheduleQuiet DEF StartInference, EndInference
<1>8. CASE Release(u)
  <2>1. have[u] \in Instances /\ want[u] \in Names /\ loaded[want[u]] = have[u]
    BY <1>8, <1>t DEF Release, IInv, SafeInv, HeldIsResident, TypeOK, Holding
  <2>2. CASE n = want[u]
    <3>1. CASE ArmsTimer(have[u])
      BY <1>8, <1>t, <2>1, <2>2, <3>1, UnloadAssumption DEF Release, TypeOK, Scheduled, Matched
    <3>2. CASE ~ArmsTimer(have[u])
      BY <1>8, <1>t, <2>1, <2>2, <3>2
      DEF Release, ArmsTimer, TypeOK, IInv, TimersMatch, Scheduled, Matched
    <3> QED
      BY <3>1, <3>2
  <2>3. CASE n # want[u]
    <3>1. loaded[n] # NoInstance => loaded[n] # have[u]
      BY <2>1, <2>3 DEF IInv, SafeInv, Apart, EntriesApart
    <3> QED
      BY <1>8, <1>t, <2>1, <3>1, ScheduleQuiet DEF Release, TypeOK
  <2> QED
    BY <2>2, <2>3
<1> QED
  BY <1>1, <1>2, <1>3, <1>4, <1>5, <1>6, <1>7, <1>8 DEF UserStep

(* A due timer of a cached entry starts a callback for that entry's name.  *)
LEMMA ScheduleTimerStep ==
  ASSUME IInv, NEW e \in Instances, NEW g \in Callbacks, TimerFires(e, g), NEW n \in Names
  PROVE  Scheduled(n)' /\ Matched(n)'
<1> USE DEF TimerFires, userVars, IInv, SafeInv, TypeOK
<1>1. CASE loaded[n] = e
  BY <1>1 DEF IdleIsScheduled, TimersMatch, Scheduled, Matched
<1>2. CASE loaded[n] # e
  BY <1>2 DEF IdleIsScheduled, TimersMatch, Scheduled, Matched
<1> QED
  BY <1>1, <1>2

(* A callback for n either finds n in use or gone, or resets its timer, or *)
(* removes it.                                                             *)
LEMMA ScheduleCallbackStep ==
  ASSUME IInv, NEW g \in Callbacks, CallbackStep(g), NEW n \in Names
  PROVE  Scheduled(n)' /\ Matched(n)'
<1> USE DEF userVars, entryVars, IInv, SafeInv, TypeOK
<1>0. cpc[g] = "fired" => target[g] \in Names
  BY DEF Apart, NamesKnown
<1>1. CASE UnloadSkipped(g)
  BY <1>1 DEF UnloadSkipped, Unused, IdleIsScheduled, TimersMatch, Scheduled, Matched
<1>2. CASE UnloadPostponed(g)
  <2>1. CASE n = target[g]
    BY <1>2, <2>1, UnloadAssumption
    DEF UnloadPostponed, IdleIsScheduled, TimersMatch, Scheduled, Matched, Unused
  <2>2. CASE n # target[g]
    <3>1. loaded[n] # NoInstance => loaded[n] # loaded[target[g]]
      BY <1>0, <1>2, <2>2 DEF UnloadPostponed, Apart, EntriesApart
    <3> QED
      BY <1>2, <2>2, <3>1
      DEF UnloadPostponed, IdleIsScheduled, TimersMatch, Scheduled, Matched
  <2> QED
    BY <2>1, <2>2
<1>3. CASE UnloadRemoves(g)
  BY <1>0, <1>3 DEF UnloadRemoves, IdleIsScheduled, TimersMatch, Scheduled, Matched
<1>4. CASE CloseVictim(g)
  BY <1>4 DEF CloseVictim, IdleIsScheduled, TimersMatch, Scheduled, Matched
<1> QED
  BY <1>1, <1>2, <1>3, <1>4 DEF CallbackStep

(* The clock keeps time left plus age within the delay.                    *)
LEMMA ScheduleTickStep ==
  ASSUME IInv, Tick, NEW n \in Names
  PROVE  Scheduled(n)' /\ Matched(n)'
<1> USE DEF Tick, userVars, callVars, IInv, SafeInv, TypeOK
<1>1. Matched(n)'
  BY DEF TimersMatch, Matched
<1>2. ASSUME NEW e \in Instances, left[e] + age[e] <= UnloadAfter
      PROVE  left'[e] + age'[e] <= UnloadAfter
  BY <1>2, UnloadAssumption DEF Min2
<1>3. Scheduled(n)'
  BY <1>2 DEF IdleIsScheduled, Scheduled
<1> QED
  BY <1>1, <1>3

(* Every step keeps the whole invariant.                                   *)
THEOREM IInvStep == IInv /\ [Next]_vars => IInv'
<1> SUFFICES ASSUME IInv, [Next]_vars PROVE IInv'
  OBVIOUS
<1>1. ASSUME NEW n \in Names PROVE Scheduled(n)' /\ Matched(n)'
  <2>1. CASE UNCHANGED vars
    BY <2>1 DEF vars, entryVars, callVars, userVars, IInv, IdleIsScheduled, TimersMatch,
       Scheduled, Matched
  <2>2. CASE Next
    BY <2>2, ScheduleUserStep, ScheduleTimerStep, ScheduleCallbackStep, ScheduleTickStep
    DEF Next
  <2> QED
    BY <2>1, <2>2
<1>2. TimersMatch' /\ IdleIsScheduled'
  BY <1>1 DEF TimersMatch, IdleIsScheduled, Scheduled, Matched
<1> QED
  BY <1>2, SafeStep DEF IInv

(* ... which holds initially ...                                           *)
THEOREM InitIInv == Init => IInv
BY InitSafeInv DEF Init, IInv, TimersMatch, IdleIsScheduled

(* ... and therefore always.                                               *)
LEMMA InvariantHolds == Spec => []IInv
BY InitIInv, IInvStep, PTL DEF Spec

(* Type correctness.                                                       *)
THEOREM TypeCorrect == Spec => []TypeOK
<1>1. IInv => TypeOK
  BY DEF IInv, SafeInv
<1> QED
  BY <1>1, InvariantHolds, PTL

(* The promise of the comment on cacheEntry: a model is never freed under  *)
(* a holder, whatever the number of users, timers and names.               *)
THEOREM NeverFreedUnderHolder == Spec => []HeldIsResident
<1>1. IInv => HeldIsResident
  BY DEF IInv, SafeInv
<1> QED
  BY <1>1, InvariantHolds, PTL

(* The in-flight count of a resident entry is exact.                       *)
THEOREM InflightIsExact == Spec => []InflightCountsHolders
<1>1. IInv => InflightCountsHolders
  BY DEF IInv, SafeInv
<1> QED
  BY <1>1, InvariantHolds, PTL

(* An idle resident model always has its unload scheduled in time.         *)
THEOREM UnloadIsScheduled == Spec => []IdleIsScheduled
<1>1. IInv => IdleIsScheduled
  BY DEF IInv
<1> QED
  BY <1>1, InvariantHolds, PTL
-----------------------------------------------------------------------------
(* Memory is never lost: Apart says that nothing is owned twice, this that *)
(* what is allocated is owned.                                             *)
Owned(e) ==
  \/ \E u \in Users : upc[u] = "loaded" /\ have[u] = e
  \/ \E g \in Callbacks : cpc[g] = "closing" /\ victim[g] = e
  \/ \E n \in Names : loaded[n] = e

NoneLost == \A e \in Instances : alive[e] => Owned(e)

(* A user hands its model over to the cache, or closes it itself.          *)
LEMMA NoneLostUserStep ==
  ASSUME IInv, NoneLost, NEW u \in Users, UserStep(u)
  PROVE  NoneLost'
<1> USE DEF IInv, SafeInv, TypeOK, NoneLost, Owned
<1>1. ASSUME NEW e \in Instances, LoadReturns(u, e) PROVE NoneLost'
  BY <1>1 DEF LoadReturns, callVars
<1>2. CASE InsertFirst(u)
  <2>1. want[u] \in Names /\ loaded[want[u]] = NoInstance
    BY <1>2 DEF InsertFirst, RaceLost, Apart, NamesKnown
  <2>2. ASSUME NEW j \in Instances, alive[j] PROVE Owned(j)'
    <3>1. CASE j = have[u]
      BY <1>2, <2>1, <3>1 DEF InsertFirst
    <3>2. CASE j # have[u]
      BY <1>2, <2>1, <2>2, <3>2, InstanceAssumption DEF InsertFirst, callVars
    <3> QED
      BY <3>1, <3>2
  <2> QED
    BY <1>2, <2>2 DEF InsertFirst
<1>3. CASE InsertSecond(u)
  BY <1>3 DEF InsertSecond, callVars, Apart, LoadersApart
<1>4. ASSUME NEW n \in Names, AcquireHit(u, n) \/ AcquireMiss(u, n) PROVE NoneLost'
  BY <1>4 DEF AcquireHit, AcquireMiss, callVars, entryVars
<1>5. CASE LoadFails(u) \/ StartInference(u) \/ EndInference(u) \/ Release(u)
  BY <1>5 DEF LoadFails, StartInference, EndInference, Release, callVars, entryVars
<1> QED
  BY <1>1, <1>2, <1>3, <1>4, <1>5 DEF UserStep

(* A callback takes the entry it removes with it until it has closed it.   *)
LEMMA NoneLostCallbackStep ==
  ASSUME IInv, NoneLost, NEW g \in Callbacks, CallbackStep(g)
  PROVE  NoneLost'
<1> USE DEF IInv, SafeInv, TypeOK, NoneLost, Owned
<1>1. CASE UnloadRemoves(g)
  <2>1. ASSUME NEW j \in Instances, alive[j] PROVE Owned(j)'
    <3>1. CASE j = loaded[target[g]]
      BY <1>1, <3>1 DEF UnloadRemoves
    <3>2. CASE j # loaded[target[g]]
      BY <1>1, <2>1, <3>2 DEF UnloadRemoves, userVars
    <3> QED
      BY <3>1, <3>2
  <2> QED
    BY <1>1, <2>1 DEF UnloadRemoves
<1>2. CASE CloseVictim(g)
  BY <1>2 DEF CloseVictim, userVars, Apart, ClosersApart
<1>3. CASE UnloadSkipped(g) \/ UnloadPostponed(g)
  BY <1>3 DEF UnloadSkipped, UnloadPostponed, userVars, entryVars
<1> QED
  BY <1>1, <1>2, <1>3 DEF CallbackStep

(* So no step loses a model.                                               *)
LEMMA NoneLostStep == IInv /\ NoneLost /\ [Next]_vars => NoneLost'
<1> SUFFICES ASSUME IInv, NoneLost, [Next]_vars PROVE NoneLost'
  OBVIOUS
<1> USE DEF IInv, SafeInv, TypeOK, NoneLost, Owned
<1>1. CASE UNCHANGED vars
  BY <1>1 DEF vars, entryVars, userVars, callVars
<1>2. CASE Tick
  BY <1>2 DEF Tick, userVars, callVars
<1>3. ASSUME NEW e \in Instances, NEW g \in Callbacks, TimerFires(e, g) PROVE NoneLost'
  BY <1>3 DEF TimerFires, userVars
<1> QED
  BY <1>1, <1>2, <1>3, NoneLostUserStep, NoneLostCallbackStep DEF Next

(* A set with at most one member, and the number of its members.           *)
LEMMA OneMember ==
  ASSUME NEW S, NEW x, x \in S, \A y \in S : y = x
  PROVE  Cardinality(S) = 1
<1>1. S = {x}
  OBVIOUS
<1> QED
  BY <1>1, FS_Singleton

(* Exactly one owner of an allocated model, none of any other.             *)
LEMMA OwnedOnce == IInv /\ NoneLost => ModelsAreOwned
<1> SUFFICES ASSUME IInv, NoneLost, NEW e \in Instances
             PROVE  Cardinality(Loaders(e)) + Cardinality(Closers(e))
                      + Cardinality(Entries(e)) = IF alive[e] THEN 1 ELSE 0
  BY DEF ModelsAreOwned
<1> USE DEF IInv, SafeInv, TypeOK, Apart, EntriesApart, LoadersApart, ClosersApart,
            Loaders, Closers, Entries
<1>1. e # NoInstance
  BY InstanceAssumption
<1>2. Cardinality({}) = 0
  BY FS_EmptySet
<1>3. ASSUME NEW u \in Loaders(e)
      PROVE  alive[e] /\ Cardinality(Loaders(e)) = 1 /\ Closers(e) = {} /\ Entries(e) = {}
  <2>1. \A v \in Loaders(e) : v = u
    OBVIOUS
  <2>2. Cardinality(Loaders(e)) = 1
    BY <2>1, OneMember
  <2>3. alive[e] /\ Closers(e) = {} /\ Entries(e) = {}
    OBVIOUS
  <2> QED
    BY <2>2, <2>3
<1>4. ASSUME NEW g \in Closers(e)
      PROVE  alive[e] /\ Cardinality(Closers(e)) = 1 /\ Loaders(e) = {} /\ Entries(e) = {}
  <2>1. \A h \in Closers(e) : h = g
    OBVIOUS
  <2>2. Cardinality(Closers(e)) = 1
    BY <2>1, OneMember
  <2>3. alive[e] /\ Loaders(e) = {} /\ Entries(e) = {}
    OBVIOUS
  <2> QED
    BY <2>2, <2>3
<1>5. ASSUME NEW n \in Entries(e)
      PROVE  alive[e] /\ Cardinality(Entries(e)) = 1 /\ Loaders(e) = {} /\ Closers(e) = {}
  <2>1. \A m \in Entries(e) : m = n
    BY <1>1
  <2>2. Cardinality(Entries(e)) = 1
    BY <2>1, OneMember
  <2>3. alive[e] /\ Loaders(e) = {} /\ Closers(e) = {}
    BY <1>1
  <2> QED
    BY <2>2, <2>3
<1>6. alive[e] => Loaders(e) # {} \/ Closers(e) # {} \/ Entries(e) # {}
  BY DEF NoneLost, Owned
<1> HIDE DEF IInv, Loaders, Closers, Entries
<1>7. CASE Loaders(e) # {}
  BY <1>2, <1>3, <1>7
<1>8. CASE Closers(e) # {}
  BY <1>2, <1>4, <1>8
<1>9. CASE Entries(e) # {}
  BY <1>2, <1>5, <1>9
<1>10. CASE Loaders(e) = {} /\ Closers(e) = {} /\ Entries(e) = {}
  BY <1>2, <1>6, <1>10
<1> QED
  BY <1>7, <1>8, <1>9, <1>10

(* Every allocated model has exactly one owner: the cache, the user that   *)
(* has just loaded it or the callback that is closing it.                  *)
THEOREM ModelsHaveOneOwner == Spec => []ModelsAreOwned
<1>1. Init => NoneLost
  BY DEF Init, NoneLost
<1>2. Spec => []NoneLost
  BY <1>1, NoneLostStep, InvariantHolds, PTL DEF Spec
<1> QED
  BY <1>2, InvariantHolds, OwnedOnce, PTL
-----------------------------------------------------------------------------
(* The refinement, step by step.                                           *)
LEMMA LeaseUserStep ==
  ASSUME IInv, NEW u \in Users, UserStep(u)
  PROVE  Lease!Next \/ UNCHANGED Lease!vars
<1> USE DEF IInv, SafeInv, TypeOK, residentNames, leasesOf
<1>1. ASSUME NEW n \in Names, upc[u] \notin Holding,
             upc' = [upc EXCEPT ![u] = "held"], want' = [want EXCEPT ![u] = n],
             residentNames' = residentNames \cup {n}
      PROVE  Lease!Next
  <2>1. leasesOf' = [leasesOf EXCEPT ![n] = @ \cup {u}]
    <3>1. ASSUME NEW m \in Names
          PROVE  {v \in Users : upc'[v] \in Holding /\ want'[v] = m}
                   = IF m = n THEN leasesOf[m] \cup {u} ELSE leasesOf[m]
      BY <1>1 DEF Holding
    <3> QED
      BY <3>1
  <2>2. \A m \in Names : u \notin leasesOf[m]
    BY <1>1
  <2> QED
    BY <1>1, <2>1, <2>2 DEF Lease!Next, Lease!Lease
<1>2. ASSUME UNCHANGED <<loaded, want>>, \A v \in Users : upc'[v] \in Holding <=> upc[v] \in Holding
      PROVE  UNCHANGED Lease!vars
  BY <1>2 DEF Lease!vars
<1>3. ASSUME NEW n \in Names, AcquireHit(u, n) PROVE Lease!Next
  <2>1. residentNames' = residentNames \cup {n}
    BY <1>3 DEF AcquireHit
  <2>2. /\ upc[u] \notin Holding
        /\ upc' = [upc EXCEPT ![u] = "held"]
        /\ want' = [want EXCEPT ![u] = n]
    BY ONLY <1>3 DEF AcquireHit, Holding
  <2> QED
    BY ONLY <1>1, <2>1, <2>2
<1>4. ASSUME NEW n \in Names, AcquireMiss(u, n) PROVE UNCHANGED Lease!vars
  BY <1>4 DEF AcquireMiss, entryVars, Lease!vars, Holding
<1>5. CASE LoadFails(u)
  BY <1>5 DEF LoadFails, entryVars, Lease!vars, Holding
<1>6. ASSUME NEW e \in Instances, LoadReturns(u, e) PROVE UNCHANGED Lease!vars
  BY <1>2, <1>6 DEF LoadReturns, Holding
<1>7. CASE InsertFirst(u)
  <2>1. PICK n \in Names : n = want[u] /\ have[u] \in Instances
    BY <1>7 DEF InsertFirst, Apart, NamesKnown, LoadersApart
  <2>2. residentNames' = residentNames \cup {n}
    BY <1>7, <2>1, InstanceAssumption DEF InsertFirst
  <2>3. want' = [want EXCEPT ![u] = n]
    BY <1>7, <2>1 DEF InsertFirst
  <2> QED
    BY <1>1, <1>7, <2>2, <2>3 DEF InsertFirst, Holding
<1>8. CASE InsertSecond(u)
  <2>1. PICK n \in Names : n = want[u] /\ loaded[n] # NoInstance
    BY <1>8 DEF InsertSecond, RaceLost, Apart, NamesKnown
  <2>2. residentNames' = residentNames \cup {n}
    BY <1>8, <2>1 DEF InsertSecond
  <2>3. want' = [want EXCEPT ![u] = n]
    BY <1>8, <2>1 DEF InsertSecond
  <2> QED
    BY <1>1, <1>8, <2>2, <2>3 DEF InsertSecond, Holding
<1>9. CASE StartInference(u) \/ EndInference(u)
  BY <1>2, <1>9 DEF StartInference, EndInference, entryVars, Holding
<1>10. CASE Release(u)
  <2>1. PICK n \in Names : n = want[u]
    BY <1>10 DEF Release, Apart, NamesKnown
  <2>2. u \in leasesOf[n]
    BY <1>10, <2>1 DEF Release, Holding
  <2>3. leasesOf' = [leasesOf EXCEPT ![n] = @ \ {u}]
    <3>1. ASSUME NEW m \in Names
          PROVE  {v \in Users : upc'[v] \in Holding /\ want'[v] = m}
                   = IF m = n THEN leasesOf[m] \ {u} ELSE leasesOf[m]
      BY <1>10, <2>1, NameAssumption DEF Release, Holding
    <3> QED
      BY <3>1
  <2>4. UNCHANGED residentNames
    BY <1>10 DEF Release
  <2> QED
    BY <2>2, <2>3, <2>4 DEF Lease!Next, Lease!Return
<1> QED
  BY <1>3, <1>4, <1>5, <1>6, <1>7, <1>8, <1>9, <1>10 DEF UserStep

(* An eviction finds no lease because the count is exact.                  *)
LEMMA LeaseCallbackStep ==
  ASSUME IInv, NEW g \in Callbacks, CallbackStep(g)
  PROVE  Lease!Next \/ UNCHANGED Lease!vars
<1> USE DEF IInv, SafeInv, TypeOK, residentNames, leasesOf, userVars, entryVars
<1>1. CASE UnloadRemoves(g)
  <2>1. PICK n \in Names : n = target[g]
    BY <1>1 DEF UnloadRemoves, Apart, NamesKnown
  <2>2. \A u \in Users : ~(upc[u] \in Holding /\ have[u] = loaded[n])
    BY <1>1, <2>1, UnusedHasNoHolder DEF UnloadRemoves, Unused
  <2>3. n \in residentNames /\ leasesOf[n] = {}
    BY <1>1, <2>1, <2>2 DEF UnloadRemoves, HeldIsResident
  <2>4. residentNames' = residentNames \ {n} /\ UNCHANGED leasesOf
    BY <1>1, <2>1 DEF UnloadRemoves
  <2> QED
    BY <2>3, <2>4 DEF Lease!Next, Lease!Evict
<1>2. CASE UnloadSkipped(g) \/ UnloadPostponed(g) \/ CloseVictim(g)
  BY <1>2 DEF UnloadSkipped, UnloadPostponed, CloseVictim, Lease!vars
<1> QED
  BY <1>1, <1>2 DEF CallbackStep

(* Each step of the cache is a step of the leases or a stutter ...         *)
LEMMA LeaseStep == IInv /\ [Next]_vars => [Lease!Next]_Lease!vars
<1> SUFFICES ASSUME IInv, [Next]_vars PROVE Lease!Next \/ UNCHANGED Lease!vars
  OBVIOUS
<1>1. CASE UNCHANGED vars
  BY <1>1 DEF vars, entryVars, userVars, Lease!vars, residentNames, leasesOf
<1>2. CASE Tick
  BY <1>2 DEF Tick, userVars, Lease!vars, residentNames, leasesOf
<1>3. ASSUME NEW e \in Instances, NEW g \in Callbacks, TimerFires(e, g)
      PROVE  UNCHANGED Lease!vars
  BY <1>3 DEF TimerFires, userVars, Lease!vars, residentNames, leasesOf
<1> QED
  BY <1>1, <1>2, <1>3, LeaseUserStep, LeaseCallbackStep DEF Next

(* ... so the cache implements the lease specification.                    *)
THEOREM CacheImplementsLease == Spec => ImplementsModelLease
<1>1. Init => Lease!Init
  BY DEF Init, Lease!Init, residentNames, leasesOf, Holding
<1> QED
  BY <1>1, InvariantHolds, LeaseStep, PTL DEF Spec, ImplementsModelLease, Lease!Spec
-----------------------------------------------------------------------------
(***************************************************************************)
(* Part 2.  The transcription.                                             *)
(***************************************************************************)

(* What a cache, a token and a decoder are.                                *)
IsCache(cache) ==
  /\ cache = [size |-> cache.size, head |-> cache.head, cells |-> cache.cells]
  /\ cache.size \in Nat /\ cache.head \in Nat
  /\ Used(cache) \subseteq Nat
  /\ \A c \in Used(cache) : cache.cells[c] \in [pos : Nat, seq_id : SUBSET Decoders]

Tokens == Nat \X Int
DecoderState == [tokens : Nat, result_len : Nat, failed : BOOLEAN, completed : BOOLEAN]
InWindow == {"window", "attempt", "sample", "decode", "rank"}
Decoding == {"sample", "decode", "rank"}

CallTypes ==
  /\ pc \in {"idle", "detect", "prepare", "freed"} \cup InWindow
  /\ calls \in Nat /\ args \in [n_len : Nat, prompt : Nat, auto : BOOLEAN]
  /\ seek \in Nat /\ it \in Nat /\ i \in Nat
  /\ best \in Decoders
  /\ decoders \in [Decoders -> DecoderState]
  /\ prompt_past1 \in Seq(Tokens) /\ prompt \in Seq(Tokens)
  /\ batch \in Seq([pos : Nat, seq_id : Decoders])
  /\ result_all \in Seq(Nat)
  /\ pc \in {"attempt"} \cup Decoding => it \in 1 .. NTemperatures
  /\ pc = "detect" => args.auto

(* The cache has the size for as many decoders as it was asked for.        *)
SizeInv ==
  /\ IsCache(kv_self) /\ kv_self_n_dec \in Nat \ {0}
  /\ kv_self.size = CacheSize(kv_self_n_dec)
  /\ pc \in Decoding => Cardinality(Current(it)) <= kv_self_n_dec

(* The prompt of an attempt: a part of what was said, and the task.        *)
Copied(first, m) == \A k \in 1 .. m : prompt[k + 1] = prompt_past1[first + k]

PromptInv ==
  pc \in Decoding =>
    /\ Len(prompt) \in NInit .. MaxPrompt + NInit
    /\ prompt[1] \in {Prev, Task}
    /\ prompt[1] = Prev => /\ Len(prompt) > NInit
                           /\ \E first \in Nat : /\ first + Len(prompt) - NInit - 1 <= Len(prompt_past1)
                                                 /\ Copied(first, Len(prompt) - NInit - 1)

(* The cells in use are the first ones, and the search begins among them.  *)
Dense(cache, n) == Used(cache) = 0 .. n - 1 /\ cache.head <= n

(* Sequence s has one token at each position below n, and no other token.  *)
Has(cache, s, c) == c \in Used(cache) /\ s \in cache.cells[c].seq_id
Once(cache, s, n) ==
  /\ \A c \in Used(cache) : s \in cache.cells[c].seq_id => cache.cells[c].pos < n
  /\ \A p \in 0 .. n - 1 : \E c \in Used(cache) : s \in cache.cells[c].seq_id /\ cache.cells[c].pos = p
  /\ \A c, d \in Used(cache) :
       s \in cache.cells[c].seq_id \cap cache.cells[d].seq_id /\ cache.cells[c].pos = cache.cells[d].pos => c = d

CellsInv ==
  /\ pc \in {"sample", "decode"} =>
       /\ i < NMax
       /\ \E n \in Nat : /\ Dense(kv_self, n)
                         /\ n <= Len(prompt) + i * Cardinality(Current(it))
       /\ \A s \in Active : Once(kv_self, s, Len(prompt) + i)
  /\ pc = "decode" => Active # {}
  /\ pc = "prepare" /\ args.auto => Once(kv_self, 0, 1)

BatchInv ==
  /\ \A k \in DOMAIN batch : batch[k].pos < n_text_ctx
  /\ pc = "sample" => \A k \in DOMAIN batch : batch[k].seq_id \in Active /\ batch[k].pos < Len(prompt) + i
  /\ pc = "prepare" /\ args.auto => \A k \in DOMAIN batch : batch[k].seq_id = 0 /\ batch[k].pos = 0

(* What was said is of this call, window after window.                     *)
WasSaid(token) == token = Given \/ \E k \in DOMAIN result_all : token = <<calls, result_all[k]>>

SaidInv ==
  /\ pc \in InWindow =>
       /\ \A k \in DOMAIN prompt_past1 : WasSaid(prompt_past1[k])
       /\ \A k, l \in DOMAIN prompt_past1 : k < l => prompt_past1[k][2] <= prompt_past1[l][2]
       /\ \A k \in DOMAIN result_all : result_all[k] < seek
  /\ pc \in {"detect", "prepare"} => result_all = <<>>

WhisperInv == CallTypes /\ SizeInv /\ PromptInv /\ CellsInv /\ BatchInv /\ SaidInv
-----------------------------------------------------------------------------
(* Every set of natural numbers that is not empty has a least one.         *)
LEMMA LeastNumber ==
  ASSUME NEW S, S \subseteq Nat, S # {}
  PROVE  \E m \in S : \A k \in S : m <= k
<1> DEFINE Below == {0 .. m : m \in S}
<1> DEFINE Order == StrictSubsetOrdering(Nat)
<1>1. Below \subseteq FiniteSubsetsOf(Nat) /\ Below # {}
  <2>1. \A m \in S : 0 .. m \in SUBSET Nat /\ IsFiniteSet(0 .. m)
    BY FS_Interval
  <2> QED
    BY <2>1 DEF FiniteSubsetsOf
<1>2. IsWellFoundedOn(Order, FiniteSubsetsOf(Nat))
  BY FS_StrictSubsetOrderingWellFounded
<1>3. PICK b \in Below : \A c \in Below : <<c, b>> \notin Order
  <2> HIDE DEF Below, Order
  <2> QED
    BY <1>1, <1>2, WFMin
<1>4. PICK m \in S : b = 0 .. m
  BY <1>3
<1>5. ASSUME NEW k \in S, k < m
      PROVE  FALSE
  <2>1. 0 .. k \subseteq b /\ 0 .. k # b
    BY <1>4, <1>5
  <2>2. <<0 .. k, b>> \in Order
    BY <2>1, <1>4 DEF StrictSubsetOrdering
  <2> QED
    BY <1>3, <2>2
<1> QED
  BY <1>5

(* The cells in use are the first ones: the next tokens come behind them.  *)
LEMMA FindsTheEnd ==
  ASSUME NEW cache, IsCache(cache), NEW u \in Nat, NEW n \in Nat \ {0},
         Dense(cache, u), u + n <= cache.size
  PROVE  FindSlot(cache, n) = {u}
<1> DEFINE slots == Slots(Used(cache), cache.size, n)
<1>0. cache.size \in Nat /\ cache.head \in Nat /\ cache.head <= u
  BY DEF IsCache, Dense
<1>1. slots = u .. cache.size - n
  <2>1. ASSUME NEW h \in 0 .. cache.size - n, \A c \in 0 .. u - 1 : c < h \/ c >= h + n
        PROVE  h >= u
    BY <1>0, <2>1
  <2> QED
    BY <1>0, <2>1 DEF Slots, Dense
<1>2. FindSlot(cache, n) = {First(slots, cache.head)}
  <2>1. u \in u .. cache.size - n
    BY <1>0
  <2>2. slots # {}
    BY <1>1, <2>1
  <2> HIDE DEF slots
  <2> QED
    BY <2>2 DEF FindSlot, slots
<1>3. {h \in slots : h >= cache.head} = u .. cache.size - n
  BY <1>0, <1>1
<1>4. Min(u .. cache.size - n) = u
  BY <1>0 DEF Min
<1>5. First(slots, cache.head) = u
  <2> HIDE DEF slots
  <2>1. {h \in slots : h >= cache.head} # {}
    BY <1>0, <1>3
  <2> QED
    BY <1>3, <1>4, <2>1 DEF First
<1> QED
  BY <1>2, <1>5

(* The elements of a sequence.                                             *)
LEMMA ElementsOf ==
  ASSUME NEW S, NEW q \in Seq(S)
  PROVE  \A k \in 1 .. Len(q) : q[k] \in S
  OBVIOUS

(* What placing a batch does to a cache.                                   *)
Placed(cache, b, h, new) ==
  /\ IsCache(new) /\ new.size = cache.size /\ new.head = h
  /\ Used(new) = Used(cache) \cup (h .. h + Len(b) - 1)
  /\ \A c \in Used(cache) \ (h .. h + Len(b) - 1) : new.cells[c] = cache.cells[c]
  /\ \A k \in 1 .. Len(b) : /\ new.cells[h + k - 1].pos = b[k].pos
                            /\ new.cells[h + k - 1].seq_id = {b[k].seq_id}

(* What placing a batch does.                                              *)
LEMMA PlaceFacts ==
  ASSUME NEW cache, IsCache(cache), NEW b \in Seq([pos : Nat, seq_id : Decoders]), NEW h \in Nat
  PROVE  Placed(cache, b, h, Place(cache, b, h))
<1> DEFINE taken == h .. h + Len(b) - 1
           new == Place(cache, b, h)
<1>1. /\ new = [size |-> new.size, head |-> new.head, cells |-> new.cells]
      /\ new.size = cache.size /\ new.head = h /\ Used(new) = Used(cache) \cup taken
  BY DEF Place, Used
<1>2. \A c \in Used(cache) \ taken : new.cells[c] = cache.cells[c]
  BY DEF Place, Used
<1>3. \A c \in taken : new.cells[c] = [pos |-> b[c - h + 1].pos, seq_id |-> {b[c - h + 1].seq_id}]
  BY DEF Place, Used
<1>4. \A k \in 1 .. Len(b) : h + k - 1 \in taken /\ (h + k - 1) - h + 1 = k
  OBVIOUS
<1>5. \A k \in 1 .. Len(b) : b[k].pos \in Nat /\ b[k].seq_id \in Decoders
  <2>1. \A k \in 1 .. Len(b) : b[k] \in [pos : Nat, seq_id : Decoders]
    BY ElementsOf
  <2> QED
    BY <2>1
<1>6. \A c \in Used(new) : new.cells[c] \in [pos : Nat, seq_id : SUBSET Decoders]
  <2>1. ASSUME NEW c \in taken PROVE new.cells[c] \in [pos : Nat, seq_id : SUBSET Decoders]
    <3>1. c - h + 1 \in 1 .. Len(b)
      OBVIOUS
    <3>2. {b[c - h + 1].seq_id} \in SUBSET Decoders /\ b[c - h + 1].pos \in Nat
      BY <1>5, <3>1
    <3>3. new.cells[c] = [pos |-> b[c - h + 1].pos, seq_id |-> {b[c - h + 1].seq_id}]
      BY <1>3
    <3> QED
      BY <3>2, <3>3
  <2> HIDE DEF taken, new
  <2> QED
    BY <1>1, <1>2, <2>1 DEF IsCache
<1>7. IsCache(new)
  BY <1>1, <1>6 DEF IsCache
<1>8. ASSUME NEW k \in 1 .. Len(b)
      PROVE  new.cells[h + k - 1].pos = b[k].pos /\ new.cells[h + k - 1].seq_id = {b[k].seq_id}
  <2> DEFINE c == h + k - 1
  <2>1. new.cells[c] = [pos |-> b[c - h + 1].pos, seq_id |-> {b[c - h + 1].seq_id}] /\ c - h + 1 = k
    BY <1>3, <1>4
  <2> HIDE DEF c
  <2>2. new.cells[c].pos = b[k].pos /\ new.cells[c].seq_id = {b[k].seq_id}
    BY <2>1
  <2> QED
    BY <2>2 DEF c
<1>9. Placed(cache, b, h, new)
  <2> HIDE DEF new
  <2> QED
    BY <1>1, <1>2, <1>7, <1>8 DEF Placed
<1> QED
  BY <1>9

(* What sharing a sequence does to a cache.                                *)
SharedWith(cache, s, dsts, new) ==
  /\ IsCache(new) /\ new.size = cache.size /\ new.head = 0 /\ Used(new) = Used(cache)
  /\ \A c \in Used(cache) :
       /\ new.cells[c].pos = cache.cells[c].pos
       /\ s \in cache.cells[c].seq_id => new.cells[c].seq_id = cache.cells[c].seq_id \cup dsts

(* What sharing a sequence's cells does.                                   *)
LEMMA SeqCpFacts ==
  ASSUME NEW cache, IsCache(cache), NEW s \in Decoders, NEW dsts \in SUBSET Decoders
  PROVE  SharedWith(cache, s, dsts, SeqCp(cache, s, dsts))
<1> DEFINE new == SeqCp(cache, s, dsts)
<1>1. /\ new = [size |-> new.size, head |-> new.head, cells |-> new.cells]
      /\ new.size = cache.size /\ new.head = 0 /\ Used(new) = Used(cache)
  BY DEF SeqCp, Used
<1>2. \A c \in Used(cache) :
        new.cells[c] = [pos |-> cache.cells[c].pos,
                        seq_id |-> cache.cells[c].seq_id \cup
                                     IF s \in cache.cells[c].seq_id THEN dsts ELSE {}]
  BY DEF SeqCp, Used
<1>3. \A c \in Used(cache) : cache.cells[c] \in [pos : Nat, seq_id : SUBSET Decoders]
  BY DEF IsCache
<1>4. ASSUME NEW c \in Used(cache)
      PROVE  /\ new.cells[c] \in [pos : Nat, seq_id : SUBSET Decoders]
             /\ new.cells[c].pos = cache.cells[c].pos
             /\ s \in cache.cells[c].seq_id => new.cells[c].seq_id = cache.cells[c].seq_id \cup dsts
  <2>1. cache.cells[c].pos \in Nat /\ cache.cells[c].seq_id \in SUBSET Decoders
    BY <1>3
  <2>2. CASE s \in cache.cells[c].seq_id
    <3>1. new.cells[c] = [pos |-> cache.cells[c].pos, seq_id |-> cache.cells[c].seq_id \cup dsts]
      BY <1>2, <2>2
    <3> QED
      BY <2>1, <3>1
  <2>3. CASE s \notin cache.cells[c].seq_id
    <3>1. new.cells[c] = [pos |-> cache.cells[c].pos, seq_id |-> cache.cells[c].seq_id \cup {}]
      BY <1>2, <2>3
    <3> QED
      BY <2>1, <2>3, <3>1
  <2> QED
    BY <2>2, <2>3
<1>5. IsCache(new)
  <2> HIDE DEF new
  <2> QED
    BY <1>1, <1>4 DEF IsCache
<1>6. SharedWith(cache, s, dsts, new)
  <2> HIDE DEF new
  <2> QED
    BY <1>1, <1>4, <1>5 DEF SharedWith
<1> QED
  BY <1>6

(* After the removal of a whole sequence no cell has it.                   *)
Without(cache, s, new) ==
  /\ IsCache(new) /\ new.size = cache.size
  /\ \A c \in Used(new) : s \notin new.cells[c].seq_id

(* What taking a sequence out does.                                        *)
LEMMA SeqRmFacts ==
  ASSUME NEW cache, IsCache(cache), NEW s \in Decoders
  PROVE  Without(cache, s, SeqRm(cache, s, 0))
<1> DEFINE new == SeqRm(cache, s, 0)
           hit(c) == cache.cells[c].pos >= 0 /\ s \in cache.cells[c].seq_id
           freed == {c \in Used(cache) : hit(c) /\ cache.cells[c].seq_id = {s}}
<1>1. /\ new = [size |-> new.size, head |-> new.head, cells |-> new.cells]
      /\ new.size = cache.size /\ Used(new) = Used(cache) \ freed
      /\ new.head = IF freed = {} THEN cache.head ELSE Min(freed)
  BY DEF SeqRm, Used
<1>2. \A c \in Used(new) :
        new.cells[c] = [pos |-> cache.cells[c].pos,
                        seq_id |-> cache.cells[c].seq_id \ (IF hit(c) THEN {s} ELSE {})]
  BY DEF SeqRm, Used
<1>3. \A c \in Used(cache) : cache.cells[c] \in [pos : Nat, seq_id : SUBSET Decoders]
  BY DEF IsCache
<1>4. \A c \in Used(new) : /\ new.cells[c] \in [pos : Nat, seq_id : SUBSET Decoders]
                           /\ s \notin new.cells[c].seq_id
  <2> SUFFICES ASSUME NEW c \in Used(new)
               PROVE  /\ new.cells[c] \in [pos : Nat, seq_id : SUBSET Decoders]
                      /\ s \notin new.cells[c].seq_id
    OBVIOUS
  <2>1. cache.cells[c].pos \in Nat /\ cache.cells[c].seq_id \in SUBSET Decoders
    BY <1>1, <1>3
  <2> DEFINE gone == IF hit(c) THEN {s} ELSE {}
  <2>2. s \notin cache.cells[c].seq_id \ gone
    BY <2>1
  <2>3. new.cells[c] = [pos |-> cache.cells[c].pos, seq_id |-> cache.cells[c].seq_id \ gone]
    BY <1>2
  <2> HIDE DEF gone
  <2> QED
    BY <2>1, <2>2, <2>3
<1>5. new.head \in Nat
  <2>1. freed \subseteq Nat
    BY DEF IsCache
  <2>2. CASE freed # {}
    <3>1. \E m \in freed : \A k \in freed : m <= k
      <4> HIDE DEF freed
      <4> QED
        BY <2>1, <2>2, LeastNumber
    <3> QED
      BY <1>1, <2>1, <2>2, <3>1 DEF Min
  <2>3. CASE freed = {}
    BY <1>1, <2>3 DEF IsCache
  <2> QED
    BY <2>2, <2>3
<1>6. IsCache(new)
  <2> HIDE DEF new
  <2> QED
    BY <1>1, <1>4, <1>5 DEF IsCache
<1>7. Without(cache, s, new)
  <2> HIDE DEF new
  <2> QED
    BY <1>1, <1>4, <1>6 DEF Without
<1> QED
  BY <1>7
-----------------------------------------------------------------------------
(* Arithmetic: a cache has room for a prompt and, for each decoder, for as *)
(* many tokens as an attempt decodes.                                      *)
LEMMA Products ==
  ASSUME NEW a \in Nat, NEW b \in Nat, NEW c \in Nat, a <= b
  PROVE  a * c \in Nat /\ a * c <= b * c /\ c * a <= c * b
  OBVIOUS

(* Padding makes a context no smaller.                                     *)
LEMMA PaddedSuffices ==
  Padded(n_text_ctx) \in Nat /\ n_text_ctx <= Padded(n_text_ctx)
<1> DEFINE n == n_text_ctx
           q == (n + Pad - 1) \div Pad
           r == (n + Pad - 1) % Pad
<1>0. n \in Nat /\ Pad \in Nat /\ Pad > 0
  BY TranscriptionAssumption
<1>1. q \in Nat /\ r \in Nat /\ r < Pad /\ n + Pad - 1 = Pad * q + r
  BY <1>0
<1>2. Pad * q \in Nat /\ Pad * q = q * Pad
  BY <1>0, <1>1
<1> HIDE DEF n, q, r
<1>3. n <= q * Pad
  BY <1>0, <1>1, <1>2
<1> QED
  BY <1>2, <1>3 DEF Padded, n, q

(* A cache for m decoders has room for each step of d of them.             *)
LEMMA CacheHasRoom ==
  ASSUME NEW m \in Nat \ {0}, NEW d \in 1 .. m, NEW l \in 0 .. MaxPrompt + NInit,
         NEW k \in Nat, k < NMax
  PROVE  /\ CacheSize(m) \in Nat
         /\ l <= CacheSize(m)
         /\ k * d \in Nat
         /\ l + k * d + d <= CacheSize(m)
<1> DEFINE n == n_text_ctx
           half == n \div 2
           size == Padded(n_text_ctx)
<1>0. n \in Nat /\ half \in Nat /\ 2 * half <= n /\ half > 4 /\ NInit \in 1 .. 4
  BY TranscriptionAssumption
<1>1. size \in Nat /\ n <= size
  BY PaddedSuffices
<1>2. l \in Nat /\ l <= half + 4 /\ k + 1 <= half - 4 /\ k + 1 + l <= n /\ l <= n
  BY <1>0 DEF MaxPrompt, NMax
<1>3. k * d \in Nat /\ k * d + d = (k + 1) * d
  OBVIOUS
<1>4. CASE m = 1
  <2>1. d = 1 /\ CacheSize(m) = size
    BY <1>1, <1>4 DEF CacheSize
  <2>2. k * d = k
    BY <2>1
  <2> HIDE DEF n, half, size
  <2> QED
    BY <1>0, <1>1, <1>2, <2>1, <2>2
<1>5. CASE m > 1
  <2>1. CacheSize(m) = size * (m + 2) /\ size * (m + 2) = size * m + 2 * size /\ size * m \in Nat
    BY <1>1, <1>5 DEF CacheSize
  <2>2. (k + 1) * d <= size * d /\ size * d <= size * m
    <3>1. k + 1 <= size
      BY <1>0, <1>1, <1>2
    <3> QED
      BY <1>1, <3>1, Products
  <2> HIDE DEF n, half, size
  <2>3. (k + 1) * d \in Nat /\ size * d \in Nat
    BY <1>1
  <2>4. k * d + d <= size * m
    BY <1>3, <2>1, <2>2, <2>3
  <2> QED
    BY <1>0, <1>1, <1>2, <1>3, <2>1, <2>4
<1> QED
  BY <1>4, <1>5
-----------------------------------------------------------------------------
(* Some elements of a finite set of numbers have one less than them, two   *)
(* less than them, and so on: exactly one has each number.                 *)
LEMMA RanksCover ==
  ASSUME NEW S, S \subseteq Nat, IsFiniteSet(S),
         NEW rank, rank = [j \in S |-> Cardinality({l \in S : l < j})]
  PROVE  /\ \A r \in 0 .. Cardinality(S) - 1 : \E j \in S : rank[j] = r
         /\ \A j, l \in S : rank[j] = rank[l] => j = l
         /\ \A j \in S : rank[j] \in 0 .. Cardinality(S) - 1
<1> DEFINE Less(j) == {l \in S : l < j}
           T == 0 .. Cardinality(S) - 1
<1>0. Cardinality(S) \in Nat
  BY FS_CardinalityType
<1>1. ASSUME NEW j \in S
      PROVE  IsFiniteSet(Less(j)) /\ Cardinality(Less(j)) \in Nat /\ Cardinality(Less(j)) < Cardinality(S)
  <2>1. Less(j) \in SUBSET S /\ j \notin Less(j)
    OBVIOUS
  <2> HIDE DEF Less
  <2> QED
    BY <1>0, <2>1, FS_Subset, FS_CardinalityType
<1>2. ASSUME NEW j \in S, NEW l \in S, j < l
      PROVE  Cardinality(Less(j)) < Cardinality(Less(l))
  <2>1. Less(j) \in SUBSET Less(l) /\ j \in Less(l) /\ j \notin Less(j)
    <3>1. \A x \in S : x < j => x < l
      BY <1>2
    <3>2. ~(j < j)
      OBVIOUS
    <3> QED
      BY <1>2, <3>1, <3>2
  <2> HIDE DEF Less
  <2> QED
    BY <1>1, <2>1, FS_Subset
<1>3. \A j \in S : rank[j] = Cardinality(Less(j)) /\ rank[j] \in T
  BY <1>0, <1>1
<1>4. \A j, l \in S : rank[j] = rank[l] => j = l
  <2> SUFFICES ASSUME NEW j \in S, NEW l \in S, rank[j] = rank[l], j # l PROVE FALSE
    OBVIOUS
  <2>1. j < l \/ l < j
    OBVIOUS
  <2> HIDE DEF Less
  <2> QED
    BY <1>1, <1>2, <1>3, <2>1
<1>5. rank \in Injection(S, T)
  <2>1. rank \in [S -> T]
    BY <1>3
  <2> QED
    BY <1>4, <2>1 DEF Injection, IsInjective
<1>6. IsFiniteSet(T) /\ Cardinality(T) = Cardinality(S)
  <2>1. \A k \in Nat : IsFiniteSet(0 .. k - 1) /\ Cardinality(0 .. k - 1) = k
    BY FS_Interval
  <2> QED
    BY <1>0, <2>1
<1>7. rank \in Surjection(S, T)
  <2> HIDE DEF T
  <2> QED
    BY <1>5, <1>6, FS_Injection
<1> QED
  BY <1>3, <1>4, <1>7 DEF Surjection

(* The decoders that are still active are the decoders of a batch, each    *)
(* with one token.                                                         *)
LEMMA ActiveDecoders ==
  /\ Current(it) \subseteq Decoders /\ 0 \in Current(it)
  /\ Cardinality(Current(it)) \in Nat \ {0}
  /\ Active \subseteq Current(it) /\ Active \subseteq Nat /\ IsFiniteSet(Active)
  /\ Cardinality(Active) \in 0 .. Cardinality(Current(it))
  /\ Active # {} => Cardinality(Active) # 0
<1>1. Decoders \subseteq Nat /\ 0 \in Decoders /\ IsFiniteSet(Decoders)
  BY TranscriptionAssumption, FS_Interval DEF Decoders
<1>2. Current(it) \in SUBSET Decoders /\ 0 \in Current(it)
  BY <1>1 DEF Current
<1>3. IsFiniteSet(Current(it)) /\ Cardinality(Current(it)) \in Nat /\ Cardinality(Current(it)) # 0
  <2>1. IsFiniteSet(Current(it))
    BY <1>1, <1>2, FS_Subset
  <2> QED
    BY <1>2, <2>1, FS_CardinalityType, FS_EmptySet
<1>4. Active \in SUBSET Current(it)
  BY DEF Active
<1>5. IsFiniteSet(Active) /\ Cardinality(Active) \in Nat /\ Cardinality(Active) <= Cardinality(Current(it))
  BY <1>3, <1>4, FS_Subset, FS_CardinalityType
<1>6. Active # {} => Cardinality(Active) # 0
  BY <1>5, FS_EmptySet
<1>7. Active \subseteq Nat
  BY <1>1, <1>2, <1>4
<1> QED
  BY <1>2, <1>3, <1>4, <1>5, <1>6, <1>7

(* Numbering the active decoders leaves none out.                          *)
LEMMA ActiveEnumerated ==
  /\ \A k \in 1 .. Cardinality(Active) : ActiveAt(k) \in Active
  /\ \A j \in Active : \E k \in 1 .. Cardinality(Active) : ActiveAt(k) = j
  /\ \A k, m \in 1 .. Cardinality(Active) : ActiveAt(k) = ActiveAt(m) => k = m
<1> DEFINE rank == [j \in Active |-> Cardinality({l \in Active : l < j})]
           n == Cardinality(Active)
<1>1. Active \subseteq Nat /\ IsFiniteSet(Active) /\ n \in Nat
  BY ActiveDecoders, FS_CardinalityType
<1>2. /\ \A r \in 0 .. n - 1 : \E j \in Active : rank[j] = r
      /\ \A j, l \in Active : rank[j] = rank[l] => j = l
      /\ \A j \in Active : rank[j] \in 0 .. n - 1
  BY <1>1, RanksCover
<1>3. ASSUME NEW k \in 1 .. n
      PROVE  ActiveAt(k) \in Active /\ rank[ActiveAt(k)] = k - 1
  <2>1. k - 1 \in 0 .. n - 1
    BY <1>1
  <2>2. PICK j \in Active : rank[j] = k - 1
    BY <1>2, <2>1
  <2>3. \E l \in Active : Cardinality({x \in Active : x < l}) = k - 1
    BY <2>2
  <2>4. ActiveAt(k) \in Active /\ Cardinality({x \in Active : x < ActiveAt(k)}) = k - 1
    BY <2>3 DEF ActiveAt
  <2> QED
    BY <2>4
<1>4. ASSUME NEW j \in Active PROVE \E k \in 1 .. n : ActiveAt(k) = j
  <2>1. rank[j] + 1 \in 1 .. n
    BY <1>1, <1>2
  <2>2. rank[ActiveAt(rank[j] + 1)] = rank[j]
    <3> HIDE DEF rank, n
    <3>1. rank[j] \in Nat
      BY <1>1, <1>2
    <3> QED
      BY <1>3, <2>1, <3>1
  <2> HIDE DEF rank, n
  <2> QED
    BY <1>2, <1>3, <2>1, <2>2
<1> HIDE DEF rank, n
<1>5. \A k, m \in 1 .. n : ActiveAt(k) = ActiveAt(m) => k = m
  BY <1>1, <1>3
<1> QED
  BY <1>3, <1>4, <1>5 DEF n
-----------------------------------------------------------------------------
(* A batch with one token of sequence s, at the next position: what the    *)
(* sequence has goes on by one.                                            *)
LEMMA OnceGoesOn ==
  ASSUME NEW cache, IsCache(cache), NEW u \in Nat, Dense(cache, u),
         NEW b \in Seq([pos : Nat, seq_id : Decoders]),
         NEW s, NEW n \in Nat, Once(cache, s, n),
         NEW k \in 1 .. Len(b), b[k].seq_id = s, b[k].pos = n,
         \A m \in 1 .. Len(b) : b[m].seq_id = s => m = k,
         NEW new, new = Place(cache, b, u)
  PROVE  Once(new, s, n + 1)
<1> DEFINE taken == u .. u + Len(b) - 1
           it1 == u + k - 1
<1>00. Placed(cache, b, u, new)
  BY PlaceFacts
<1>0. /\ Used(new) = Used(cache) \cup taken
      /\ \A c \in Used(cache) \ taken : new.cells[c] = cache.cells[c]
      /\ \A m \in 1 .. Len(b) : /\ new.cells[u + m - 1].pos = b[m].pos
                                /\ new.cells[u + m - 1].seq_id = {b[m].seq_id}
  BY <1>00 DEF Placed
<1>1. /\ Used(cache) = 0 .. u - 1 /\ Used(new) = Used(cache) \cup taken
      /\ Used(cache) \cap taken = {}
  BY <1>0 DEF Dense
<1>2. \A c \in Used(cache) : new.cells[c] = cache.cells[c] /\ cache.cells[c].pos \in Nat
  <2>1. \A c \in Used(cache) \ taken : new.cells[c] = cache.cells[c]
    BY <1>0
  <2> QED
    BY <1>1, <2>1 DEF IsCache
<1>3. it1 \in taken /\ s \in new.cells[it1].seq_id /\ new.cells[it1].pos = n
  BY <1>0
<1>4. ASSUME NEW c \in taken, s \in new.cells[c].seq_id PROVE c = it1
  <2> DEFINE m == c - u + 1
  <2>1. m \in 1 .. Len(b) /\ u + m - 1 = c
    <3>1. Len(b) \in Nat /\ c \in Int /\ u <= c /\ c <= u + Len(b) - 1
      OBVIOUS
    <3> QED
      BY <3>1
  <2>2. new.cells[c].seq_id = {b[m].seq_id}
    <3> HIDE DEF m
    <3>1. new.cells[u + m - 1].seq_id = {b[m].seq_id}
      BY <1>0, <2>1
    <3> QED
      BY <2>1, <3>1
  <2>3. m = k
    BY <1>4, <2>1, <2>2
  <2> QED
    BY <2>1, <2>3
<1> HIDE DEF taken, it1
<1>5. \A c \in Used(new) : s \in new.cells[c].seq_id =>
        \/ c \in Used(cache) /\ s \in cache.cells[c].seq_id /\ new.cells[c].pos = cache.cells[c].pos
           /\ cache.cells[c].pos \in Nat /\ cache.cells[c].pos < n
        \/ c = it1
  BY <1>1, <1>2, <1>4 DEF Once
<1>6. \A p \in 0 .. n : \E c \in Used(new) : s \in new.cells[c].seq_id /\ new.cells[c].pos = p
  <2> SUFFICES ASSUME NEW p \in 0 .. n
               PROVE  \E c \in Used(new) : s \in new.cells[c].seq_id /\ new.cells[c].pos = p
    OBVIOUS
  <2>1. CASE p = n
    BY <1>1, <1>3, <2>1
  <2>2. CASE p # n
    <3>1. PICK c \in Used(cache) : s \in cache.cells[c].seq_id /\ cache.cells[c].pos = p
      BY <2>2 DEF Once
    <3> QED
      BY <1>1, <1>2, <3>1
  <2> QED
    BY <2>1, <2>2
<1>7. ASSUME NEW c \in Used(new), NEW d \in Used(new),
             s \in new.cells[c].seq_id \cap new.cells[d].seq_id, new.cells[c].pos = new.cells[d].pos
      PROVE  c = d
  <2>1. CASE c = it1 \/ d = it1
    BY <1>3, <1>5, <1>7, <2>1
  <2>2. CASE c # it1 /\ d # it1
    BY <1>5, <1>7, <2>2 DEF Once
  <2> QED
    BY <2>1, <2>2
<1>8. ASSUME NEW c \in Used(new), s \in new.cells[c].seq_id PROVE new.cells[c].pos < n + 1
  <2>1. CASE c = it1
    BY <1>3, <2>1
  <2>2. CASE c # it1
    BY <1>5, <1>8, <2>2
  <2> QED
    BY <2>1, <2>2
<1>9. 0 .. (n + 1) - 1 = 0 .. n
  OBVIOUS
<1> QED
  BY <1>6, <1>7, <1>8, <1>9 DEF Once

(* The tokens of one sequence, at the positions below p + 1, are what is   *)
(* attended to from position p.                                            *)
LEMMA AttendsOnce ==
  ASSUME NEW cache, IsCache(cache), NEW s, NEW n \in Nat, Once(cache, s, n),
         NEW p \in Nat, p < n
  PROVE  LET seen == Attended(cache, s, p)
         IN  {cache.cells[c].pos : c \in seen} = 0 .. p /\ Cardinality(seen) = p + 1
<1> DEFINE seen == Attended(cache, s, p)
           place == [c \in seen |-> cache.cells[c].pos]
<1>1. \A c \in seen : /\ c \in Used(cache) /\ s \in cache.cells[c].seq_id
                      /\ cache.cells[c].pos \in Nat /\ cache.cells[c].pos <= p
  BY DEF Attended, IsCache
<1>2. \A q \in 0 .. p : \E c \in seen : cache.cells[c].pos = q
  <2> SUFFICES ASSUME NEW q \in 0 .. p PROVE \E c \in seen : cache.cells[c].pos = q
    OBVIOUS
  <2>1. PICK c \in Used(cache) : s \in cache.cells[c].seq_id /\ cache.cells[c].pos = q
    BY DEF Once
  <2> QED
    BY <2>1 DEF Attended
<1>3. place \in [seen -> 0 .. p]
  BY <1>1
<1>4. \A c, d \in seen : place[c] = place[d] => c = d
  BY <1>1 DEF Once
<1>5. place \in Injection(seen, 0 .. p)
  <2> HIDE DEF seen, place
  <2> QED
    BY <1>3, <1>4 DEF Injection, IsInjective
<1>6. place \in Surjection(seen, 0 .. p)
  <2>1. \A q \in 0 .. p : \E c \in seen : place[c] = q
    BY <1>2
  <2> HIDE DEF seen, place
  <2> QED
    BY <1>3, <2>1 DEF Surjection
<1>7. IsFiniteSet(0 .. p) /\ Cardinality(0 .. p) = p + 1
  BY FS_Interval
<1>8. Cardinality(seen) = p + 1
  <2> HIDE DEF seen, place
  <2> QED
    BY <1>5, <1>6, <1>7, FS_Injection
<1>9. {cache.cells[c].pos : c \in seen} = 0 .. p
  BY <1>1, <1>2
<1> QED
  BY <1>8, <1>9
-----------------------------------------------------------------------------
(* A cache with nothing in it.                                             *)
LEMMA NewCacheFacts ==
  ASSUME NEW size \in Nat
  PROVE  /\ IsCache(NewCache(size)) /\ NewCache(size).size = size
         /\ Used(NewCache(size)) = {} /\ NewCache(size).head = 0
BY DEF NewCache, IsCache, Used

(* The sizes of caches are numbers.                                        *)
LEMMA CacheSizeIsNat ==
  ASSUME NEW n \in Nat \ {0} PROVE CacheSize(n) \in Nat
<1>1. n + 2 \in Nat
  OBVIOUS
<1> QED
  BY <1>1, PaddedSuffices, Products DEF CacheSize

(* All of it holds at the start.                                           *)
LEMMA WhisperStarts == WhisperInit => WhisperInv
<1> SUFFICES ASSUME WhisperInit PROVE WhisperInv
  OBVIOUS
<1> USE TranscriptionAssumption DEF WhisperInit
<1>1. CallTypes
  BY DEF CallTypes, Decoders, DecoderState, Fresh, NoArgs, InWindow, Decoding
<1>2. SizeInv
  <2>1. CacheSize(1) = Padded(n_text_ctx)
    BY PaddedSuffices DEF CacheSize
  <2> QED
    BY <2>1, PaddedSuffices, NewCacheFacts DEF SizeInv, Decoding
<1> QED
  BY <1>1, <1>2
  DEF WhisperInv, PromptInv, CellsInv, BatchInv, SaidInv, Decoding, InWindow

(* A call begins, or ends.                                                 *)
LEMMA TranscribeStep ==
  ASSUME WhisperInv, NEW n \in Lengths, NEW p \in PromptLengths, NEW auto \in BOOLEAN,
         Transcribe(n, p, auto)
  PROVE  WhisperInv'
<1> USE TranscriptionAssumption DEF WhisperInv, Transcribe, Goto, stateVars
<1>1. pc' \in {"detect", "prepare"} /\ (pc' = "detect" <=> args'.auto)
  OBVIOUS
<1>2. CallTypes'
  BY <1>1 DEF CallTypes, InWindow, Decoding
<1> QED
  BY <1>1, <1>2
  DEF SizeInv, PromptInv, CellsInv, BatchInv, SaidInv, Decoding, InWindow

(* A call that returns leaves nothing to keep.                             *)
LEMMA ReturnedStep ==
  ASSUME WhisperInv, Returned
  PROVE  WhisperInv'
<1> USE TranscriptionAssumption DEF WhisperInv, Returned, Goto, stateVars
<1>1. CallTypes'
  BY DEF CallTypes, InWindow, Decoding, NoArgs, Decoders
<1> QED
  BY <1>1
  DEF SizeInv, PromptInv, CellsInv, BatchInv, SaidInv, Decoding, InWindow, NoArgs

(* A cache that cannot grow leaves the call's state as it was.             *)
LEMMA CacheFailsStep ==
  ASSUME WhisperInv, CacheFails
  PROVE  WhisperInv'
<1> USE TranscriptionAssumption DEF WhisperInv, CacheFails, Goto, stateVars
<1>1. CallTypes'
  BY DEF CallTypes, InWindow, Decoding
<1> QED
  BY <1>1
  DEF SizeInv, PromptInv, CellsInv, BatchInv, SaidInv, Decoding, InWindow

(* The language is detected in a cache from which sequence 0 is removed.   *)
LEMMA DetectStep ==
  ASSUME WhisperInv, DetectLanguage
  PROVE  WhisperInv'
<1> USE TranscriptionAssumption DEF WhisperInv, DetectLanguage, Goto
<1> DEFINE room == SeqRm(kv_self, 0, 0)
<1>0. 0 \in Decoders
  BY DEF Decoders
<1>1. Without(kv_self, 0, room)
  BY <1>0, SeqRmFacts DEF SizeInv
<1>2. PICK h \in FindSlot(room, 1) : kv_self' = Place(room, batch', h)
  OBVIOUS
<1> HIDE DEF room
<1>3. h \in Nat /\ h \notin Used(room)
  <2>1. PICK slots : /\ slots = Slots(Used(room), room.size, 1) /\ slots # {}
                     /\ h = First(slots, room.head)
    BY <1>2 DEF FindSlot
  <2>2. slots \subseteq Nat /\ room.head \in Nat
    BY <1>1, <2>1 DEF Slots, Without, IsCache
  <2>3. h \in slots
    <3>1. ASSUME NEW S, S \subseteq slots, S # {} PROVE Min(S) \in S
      <4>1. \E m \in S : \A k \in S : m <= k
        BY <2>2, <3>1, LeastNumber
      <4> QED
        BY <4>1 DEF Min
    <3>2. h = IF {x \in slots : x >= room.head} # {} THEN Min({x \in slots : x >= room.head}) ELSE Min(slots)
      BY <2>1 DEF First
    <3> QED
      BY <2>1, <3>1, <3>2
  <2> QED
    BY <1>1, <2>1, <2>2, <2>3 DEF Slots, Without, IsCache
<1>4. batch' = << [pos |-> 0, seq_id |-> 0] >> /\ batch' \in Seq([pos : Nat, seq_id : Decoders])
      /\ Len(batch') = 1 /\ batch'[1].pos = 0 /\ batch'[1].seq_id = 0
  BY <1>0
<1>5. Placed(room, batch', h, kv_self')
  BY <1>1, <1>2, <1>3, <1>4, PlaceFacts DEF Without
<1>6. SizeInv'
  BY <1>1, <1>5 DEF SizeInv, Placed, Without, Decoding
<1>7. Once(kv_self', 0, 1)
  <2>1. /\ Used(kv_self') = Used(room) \cup {h}
        /\ kv_self'.cells[h].pos = 0 /\ kv_self'.cells[h].seq_id = {0}
        /\ \A c \in Used(room) : kv_self'.cells[c] = room.cells[c]
    BY <1>3, <1>4, <1>5 DEF Placed
  <2>2. \A c \in Used(kv_self') : 0 \in kv_self'.cells[c].seq_id => c = h
    BY <1>1, <2>1 DEF Without
  <2>3. 0 .. 1 - 1 = {0}
    OBVIOUS
  <2> QED
    BY <2>1, <2>2, <2>3 DEF Once
<1>8. CallTypes'
  BY <1>4 DEF CallTypes, InWindow, Decoding
<1>9. BatchInv'
  <2>1. \A k \in DOMAIN batch' : k = 1
    BY <1>4
  <2> QED
    BY <1>4, <2>1 DEF BatchInv
<1> QED
  BY <1>6, <1>7, <1>8, <1>9 DEF PromptInv, CellsInv, SaidInv, Decoding, InWindow

(* The same token over and over.                                           *)
LEMMA Repeated ==
  ASSUME NEW S, NEW x \in S, NEW n \in Nat
  PROVE  /\ [k \in 1 .. n |-> x] \in Seq(S) /\ Len([k \in 1 .. n |-> x]) = n
         /\ DOMAIN [k \in 1 .. n |-> x] = 1 .. n
         /\ \A k \in 1 .. n : [l \in 1 .. n |-> x][k] = x
OBVIOUS

(* Tokens that were given, and not said in a window, are in order.         *)
LEMMA AllGiven ==
  ASSUME NEW q, \A k \in DOMAIN q : q[k][2] = -1
  PROVE  \A k, l \in DOMAIN q : k < l => q[k][2] <= q[l][2]
OBVIOUS

(* A recording's history begins with its prompt, and a window is tried.    *)
LEMMA PrepareStep ==
  ASSUME WhisperInv, Prepare
  PROVE  WhisperInv'
<1> USE TranscriptionAssumption DEF WhisperInv, Prepare, Goto
<1>0. args.prompt \in Nat /\ Given \in Tokens /\ Given[2] = -1
  BY DEF CallTypes, Given, Tokens
<1>1. /\ [k \in 1 .. args.prompt |-> Given] \in Seq(Tokens)
      /\ DOMAIN [k \in 1 .. args.prompt |-> Given] = 1 .. args.prompt
      /\ \A k \in 1 .. args.prompt : [l \in 1 .. args.prompt |-> Given][k] = Given
  BY <1>0, Repeated
<1> DEFINE given == [k \in 1 .. args.prompt |-> Given]
<1>2. prompt_past1' \in Seq(Tokens) /\ \A k \in DOMAIN prompt_past1' : prompt_past1'[k] = Given
  <2>1. prompt_past1' = given \o <<>>
    BY DEF Forgotten
  <2>2. given \in Seq(Tokens) /\ DOMAIN given = 1 .. args.prompt
    BY <1>1
  <2>3. \A k \in 1 .. args.prompt : given[k] = Given
    BY <1>1
  <2> HIDE DEF given
  <2>4. given \o <<>> = given
    BY <2>2
  <2> QED
    BY <2>1, <2>2, <2>3, <2>4
<1>3. CallTypes'
  BY <1>2 DEF CallTypes, InWindow, Decoding
<1>4. SaidInv'
  <2>1. result_all' = <<>> /\ Given' = Given
    BY DEF SaidInv, Given
  <2>2. \A k \in DOMAIN prompt_past1' : prompt_past1'[k] = Given' /\ prompt_past1'[k][2] = -1
    <3> HIDE DEF given
    <3> QED
      BY <1>0, <1>2, <2>1
  <2>3. \A k \in DOMAIN prompt_past1' : WasSaid(prompt_past1[k])'
    BY <2>2 DEF WasSaid
  <2>4. \A k \in DOMAIN result_all' : FALSE
    BY <2>1
  <2>5. \A k, l \in DOMAIN prompt_past1' : k < l => prompt_past1'[k][2] <= prompt_past1'[l][2]
    BY <2>2, AllGiven
  <2> QED
    BY <2>1, <2>3, <2>4, <2>5 DEF SaidInv, InWindow
<1> QED
  BY <1>3, <1>4 DEF SizeInv, PromptInv, CellsInv, BatchInv, Decoding, InWindow

(* A window that is encoded goes on with its history or drops it.          *)
LEMMA EncodeStep ==
  ASSUME WhisperInv, Encode
  PROVE  WhisperInv'
<1> USE TranscriptionAssumption DEF WhisperInv, Encode, Goto
<1>1. prompt_past1' = <<>> \/ prompt_past1' = prompt_past1
  OBVIOUS
<1>2. CallTypes'
  BY <1>1 DEF CallTypes, InWindow, Decoding, Decoders
<1>3. SaidInv'
  <2>1. \A token : WasSaid(token)' <=> WasSaid(token)
    BY DEF WasSaid, Given
  <2> QED
    BY <1>1, <2>1 DEF SaidInv, InWindow
<1> QED
  BY <1>2, <1>3 DEF SizeInv, PromptInv, CellsInv, BatchInv, Decoding, InWindow

(* One more in front of a sequence.                                        *)
LEMMA InFront ==
  ASSUME NEW S, NEW x \in S, NEW q \in Seq(S)
  PROVE  /\ <<x>> \o q \in Seq(S) /\ Len(<<x>> \o q) = Len(q) + 1
         /\ (<<x>> \o q)[1] = x
         /\ \A k \in 1 .. Len(q) : (<<x>> \o q)[k + 1] = q[k]
OBVIOUS

(* What is taken of the history, and the prompt made of it.                *)
LEMMA HistoryFacts ==
  ASSUME CallTypes
  PROVE  /\ History \in Seq(Tokens) /\ Len(History) \in 0 .. MaxPrompt
         /\ History # <<>> =>
              /\ History[1] = Prev
              /\ \E first \in Nat : /\ first + Len(History) - 1 <= Len(prompt_past1)
                                    /\ \A k \in 1 .. Len(History) - 1 :
                                         History[k + 1] = prompt_past1[first + k]
<1> DEFINE n == Min({MaxPrompt - 1, Len(prompt_past1)})
           first == Len(prompt_past1) - n
<1>0. MaxPrompt \in Nat /\ MaxPrompt > 4 /\ Prev \in Tokens
  BY TranscriptionAssumption DEF MaxPrompt, Prev, Tokens
<1>1. prompt_past1 \in Seq(Tokens) /\ Len(prompt_past1) \in Nat
  BY DEF CallTypes
<1>2. n \in Nat /\ n <= MaxPrompt - 1 /\ n <= Len(prompt_past1)
  <2>1. \E m \in {MaxPrompt - 1, Len(prompt_past1)} :
           \A k \in {MaxPrompt - 1, Len(prompt_past1)} : m <= k
    BY <1>0, <1>1
  <2> QED
    BY <1>0, <1>1, <2>1 DEF Min
<1> HIDE DEF n
<1>3. first \in Nat /\ first + n = Len(prompt_past1)
  BY <1>1, <1>2
<1>4. /\ Taken(prompt_past1) = SubSeq(prompt_past1, first + 1, Len(prompt_past1))
      /\ Taken(prompt_past1) \in Seq(Tokens) /\ Len(Taken(prompt_past1)) = n
      /\ \A k \in 1 .. n : Taken(prompt_past1)[k] = prompt_past1[first + k]
  <2>1. Taken(prompt_past1) = SubSeq(prompt_past1, first + 1, Len(prompt_past1))
    BY DEF Taken, n
  <2> HIDE DEF first
  <2> QED
    BY <1>1, <1>2, <1>3, <2>1
<1>5. CASE History = <<>>
  BY <1>0, <1>5
<1>6. CASE History # <<>>
  <2>1. History = <<Prev>> \o Taken(prompt_past1)
    BY <1>6 DEF History
  <2>2. /\ History \in Seq(Tokens) /\ Len(History) = n + 1 /\ History[1] = Prev
        /\ \A k \in 1 .. n : History[k + 1] = Taken(prompt_past1)[k]
    <3>1. Taken(prompt_past1) \in Seq(Tokens) /\ Len(Taken(prompt_past1)) = n
      BY <1>4
    <3> QED
      BY <1>0, <2>1, <3>1, InFront
  <2> HIDE DEF first
  <2>3. first + Len(History) - 1 <= Len(prompt_past1)
    BY <1>1, <1>2, <1>3, <2>2
  <2>4. \A k \in 1 .. Len(History) - 1 : History[k + 1] = prompt_past1[first + k]
    BY <1>2, <1>4, <2>2
  <2> QED
    <3>1. Len(History) \in 0 .. MaxPrompt /\ History # <<>>
      BY <1>0, <1>2, <1>6, <2>2
    <3> QED
      BY <1>3, <2>2, <2>3, <2>4, <3>1
<1> QED
  BY <1>5, <1>6

(* What was said is not touched: it is of the call still.                  *)
LEMMA SaidStays ==
  ASSUME SaidInv, pc \in InWindow, pc' \in InWindow,
         UNCHANGED <<calls, prompt_past1, result_all, seek>>
  PROVE  SaidInv'
<1>1. \A token : WasSaid(token)' <=> WasSaid(token)
  BY DEF WasSaid, Given
<1> QED
  BY <1>1 DEF SaidInv, InWindow

(* The prompt of an attempt.                                               *)
LEMMA PromptFacts ==
  ASSUME CallTypes, Attempt
  PROVE  /\ prompt' \in Seq(Tokens) /\ Len(prompt') \in NInit .. MaxPrompt + NInit
         /\ prompt'[1] \in {Prev, Task}
         /\ prompt'[1] = Prev =>
              /\ Len(prompt') > NInit
              /\ \E first \in Nat : /\ first + Len(prompt') - NInit - 1 <= Len(prompt_past1)
                                    /\ \A k \in 1 .. Len(prompt') - NInit - 1 :
                                         prompt'[k + 1] = prompt_past1[first + k]
<1> DEFINE past == History
           task == [k \in 1 .. NInit |-> Task]
<1>0. NInit \in Nat /\ NInit >= 1 /\ MaxPrompt \in Nat /\ Task \in Tokens /\ Task # Prev
  BY TranscriptionAssumption DEF MaxPrompt, Task, Prev, Tokens
<1>1. prompt' = past \o task
  BY DEF Attempt
<1>2. task \in Seq(Tokens) /\ Len(task) = NInit /\ task[1] = Task
  BY <1>0, Repeated
<1>3. /\ past \in Seq(Tokens) /\ Len(past) \in 0 .. MaxPrompt
      /\ past # <<>> =>
           /\ past[1] = Prev
           /\ \E first \in Nat : /\ first + Len(past) - 1 <= Len(prompt_past1)
                                 /\ \A k \in 1 .. Len(past) - 1 : past[k + 1] = prompt_past1[first + k]
  BY HistoryFacts
<1> HIDE DEF past, task
<1>4. /\ prompt' \in Seq(Tokens) /\ Len(prompt') = Len(past) + NInit /\ Len(past) \in Nat
      /\ \A k \in 1 .. Len(past) : prompt'[k] = past[k]
      /\ past = <<>> => prompt'[1] = Task
  <2>1. /\ past \o task \in Seq(Tokens) /\ Len(past \o task) = Len(past) + NInit
        /\ \A k \in 1 .. Len(past) : (past \o task)[k] = past[k]
    BY <1>0, <1>2, <1>3
  <2>2. past = <<>> => (past \o task)[1] = Task
    BY <1>0, <1>2
  <2> DEFINE both == past \o task
  <2>3. prompt' = both /\ Len(past) \in Nat
    BY <1>1, <1>3
  <2>4. /\ both \in Seq(Tokens) /\ Len(both) = Len(past) + NInit
        /\ \A k \in 1 .. Len(past) : both[k] = past[k]
        /\ past = <<>> => both[1] = Task
    BY <2>1, <2>2
  <2> HIDE DEF both
  <2> QED
    BY <2>3, <2>4
<1>5. CASE past = <<>>
  <2>1. Len(past) = 0
    BY <1>5
  <2> QED
    BY <1>0, <1>4, <1>5, <2>1
<1>6. CASE past # <<>>
  <2>1. Len(past) > 0
    BY <1>3, <1>6
  <2>2. prompt'[1] = Prev
    BY <1>3, <1>4, <1>6, <2>1
  <2>3. PICK first \in Nat : /\ first + Len(past) - 1 <= Len(prompt_past1)
                             /\ \A k \in 1 .. Len(past) - 1 : past[k + 1] = prompt_past1[first + k]
    BY <1>3, <1>6
  <2>4. Len(prompt') - NInit - 1 = Len(past) - 1
    BY <1>0, <1>4
  <2>5. \A k \in 1 .. Len(past) - 1 : prompt'[k + 1] = prompt_past1[first + k]
    BY <1>4, <2>3
  <2>6. first + Len(prompt') - NInit - 1 <= Len(prompt_past1)
    <3>1. Len(prompt_past1) \in Nat
      BY DEF CallTypes
    <3> QED
      BY <1>0, <1>4, <2>3, <3>1
  <2>7. Len(prompt') > NInit /\ Len(prompt') \in NInit .. MaxPrompt + NInit
    BY <1>0, <1>3, <1>4, <2>1
  <2> QED
    BY <1>4, <2>2, <2>4, <2>5, <2>6, <2>7
<1> QED
  BY <1>5, <1>6

(* The cache of an attempt: cleared, the prompt in its first cells, and    *)
(* every decoder with all of it.                                           *)
LEMMA AttemptCache ==
  ASSUME CallTypes, SizeInv, Attempt
  PROVE  /\ IsCache(kv_self') /\ kv_self_n_dec' \in Nat \ {0}
         /\ kv_self'.size = CacheSize(kv_self_n_dec')
         /\ Cardinality(Current(it)) <= kv_self_n_dec'
         /\ Dense(kv_self', Len(prompt'))
         /\ \A s \in Current(it) : Once(kv_self', s, Len(prompt'))
         /\ batch' \in Seq([pos : Nat, seq_id : Decoders]) /\ DOMAIN batch' = 1 .. Len(prompt')
         /\ \A k \in 1 .. Len(prompt') : batch'[k].pos = k - 1 /\ batch'[k].seq_id = 0
<1> DEFINE l == Len(prompt')
           m == kv_self_n_dec'
           d == Cardinality(Current(it))
<1>0. /\ 0 \in Decoders /\ 0 \in Current(it) /\ Current(it) \subseteq Decoders /\ d \in Nat \ {0}
      /\ NInit \in Nat /\ NInit >= 1 /\ MaxPrompt \in Nat /\ NMax > 0
  BY ActiveDecoders, TranscriptionAssumption DEF MaxPrompt, NMax
<1>1. l \in Nat \ {0} /\ l \in 0 .. MaxPrompt + NInit
  <2>1. Len(prompt') \in NInit .. MaxPrompt + NInit
    BY PromptFacts
  <2> QED
    BY <1>0, <2>1
<1>2. m \in Nat \ {0} /\ d <= m /\ d \in 1 .. m
  <2>1. m = Max({kv_self_n_dec, d}) /\ kv_self_n_dec \in Nat \ {0}
    BY DEF Attempt, SizeInv
  <2>2. \E a \in {kv_self_n_dec, d} : \A b \in {kv_self_n_dec, d} : a >= b
    BY <1>0, <2>1
  <2> HIDE DEF d, m
  <2> QED
    BY <1>0, <2>1, <2>2 DEF Max
<1>3. l <= CacheSize(m) /\ CacheSize(m) \in Nat
  <2> HIDE DEF l, m, d
  <2> QED
    BY <1>0, <1>1, <1>2, CacheHasRoom
<1> DEFINE clear == Cleared(Resized(m))
<1>4. /\ IsCache(clear) /\ clear.size = CacheSize(m) /\ Dense(clear, 0) /\ Used(clear) = {}
  <2>1. Resized(m).size = CacheSize(m)
    <3>1. CASE kv_self_n_dec # m
      BY <1>3, <3>1, NewCacheFacts DEF Resized
    <3>2. CASE kv_self_n_dec = m
      BY <3>2 DEF Resized, SizeInv
    <3> QED
      BY <3>1, <3>2
  <2>2. clear = NewCache(CacheSize(m))
    BY <2>1 DEF Cleared
  <2>3. 0 .. 0 - 1 = {}
    OBVIOUS
  <2> HIDE DEF clear, m
  <2> QED
    BY <1>3, <2>2, <2>3, NewCacheFacts DEF Dense
<1>5. PICK h \in FindSlot(clear, l) : kv_self' = SeqCp(Place(clear, batch', h), 0, Current(it) \ {0})
  BY DEF Attempt, Shared
<1>6. h = 0
  <2>1. FindSlot(clear, l) = {0}
    <3> HIDE DEF clear, l, m, d
    <3> QED
      BY <1>1, <1>3, <1>4, FindsTheEnd
  <2> QED
    BY <1>5, <2>1
<1>7. /\ batch' \in Seq([pos : Nat, seq_id : Decoders]) /\ Len(batch') = l /\ DOMAIN batch' = 1 .. l
      /\ \A k \in 1 .. l : batch'[k].pos = k - 1 /\ batch'[k].seq_id = 0
  <2>1. batch' = [k \in 1 .. l |-> [pos |-> k - 1, seq_id |-> 0]]
    <3>1. DOMAIN prompt' = 1 .. l
      BY PromptFacts
    <3> QED
      BY <3>1 DEF Attempt
  <2> HIDE DEF l
  <2> QED
    BY <1>0, <1>1, <2>1
<1> DEFINE placed == Place(clear, batch', 0)
<1>8. Placed(clear, batch', 0, placed)
  <2> HIDE DEF clear
  <2> QED
    BY <1>4, <1>7, PlaceFacts
<1>9. /\ IsCache(placed) /\ placed.size = CacheSize(m) /\ Used(placed) = 0 .. l - 1
      /\ \A c \in 0 .. l - 1 : placed.cells[c].pos = c /\ placed.cells[c].seq_id = {0}
  <2> HIDE DEF clear, placed, l, m, d
  <2>1. /\ IsCache(placed) /\ placed.size = CacheSize(m) /\ Used(placed) = 0 .. 0 + l - 1
        /\ \A k \in 1 .. l : /\ placed.cells[0 + k - 1].pos = batch'[k].pos
                             /\ placed.cells[0 + k - 1].seq_id = {batch'[k].seq_id}
    BY <1>4, <1>7, <1>8 DEF Placed
  <2>2. ASSUME NEW c \in 0 .. l - 1
        PROVE  placed.cells[c].pos = c /\ placed.cells[c].seq_id = {0}
    <3>1. c + 1 \in 1 .. l /\ 0 + (c + 1) - 1 = c
      BY <1>1
    <3>2. batch'[c + 1].pos = c /\ batch'[c + 1].seq_id = 0
      BY <1>7, <3>1
    <3>3. /\ placed.cells[0 + (c + 1) - 1].pos = batch'[c + 1].pos
          /\ placed.cells[0 + (c + 1) - 1].seq_id = {batch'[c + 1].seq_id}
      BY <2>1, <3>1
    <3> QED
      BY <3>1, <3>2, <3>3
  <2>3. 0 + l - 1 = l - 1
    BY <1>1
  <2> QED
    BY <2>1, <2>2, <2>3
<1>10. SharedWith(placed, 0, Current(it) \ {0}, kv_self')
  <2>1. kv_self' = SeqCp(placed, 0, Current(it) \ {0})
    BY <1>5, <1>6
  <2> HIDE DEF placed
  <2> QED
    BY <1>0, <1>9, <2>1, SeqCpFacts
<1>11. /\ IsCache(kv_self') /\ kv_self'.size = CacheSize(m) /\ kv_self'.head = 0
       /\ Used(kv_self') = 0 .. l - 1
       /\ \A c \in 0 .. l - 1 : kv_self'.cells[c].pos = c /\ kv_self'.cells[c].seq_id = Current(it)
  <2> HIDE DEF placed, l, m, d
  <2>1. {0} \cup (Current(it) \ {0}) = Current(it)
    BY <1>0
  <2> QED
    BY <1>9, <1>10, <2>1 DEF SharedWith
<1>12. ASSUME NEW s \in Current(it)
       PROVE  Once(kv_self', s, l)
  <2> HIDE DEF l
  <2>1. \A p \in 0 .. l - 1 : p \in Used(kv_self') /\ s \in kv_self'.cells[p].seq_id /\ kv_self'.cells[p].pos = p
    BY <1>11
  <2>2. \A c \in Used(kv_self') : c < l /\ kv_self'.cells[c].pos = c
    BY <1>1, <1>11
  <2> QED
    BY <2>1, <2>2 DEF Once
<1>13. Dense(kv_self', l)
  <2> HIDE DEF l
  <2> QED
    BY <1>1, <1>11 DEF Dense
<1> QED
  BY <1>2, <1>7, <1>11, <1>12, <1>13

(* An attempt begins.                                                      *)
LEMMA AttemptStep ==
  ASSUME WhisperInv, Attempt
  PROVE  WhisperInv'
<1> DEFINE l == Len(prompt')
<1>0. /\ CallTypes /\ SizeInv /\ SaidInv
      /\ pc = "attempt" /\ pc' = "sample" /\ i' = 0
      /\ UNCHANGED <<calls, args, seek, it, best, prompt_past1, result_all>>
      /\ decoders' = [j \in Decoders |-> IF j \in Current(it) THEN Fresh ELSE decoders[j]]
      /\ Current(it)' = Current(it)
  BY DEF WhisperInv, Attempt, Goto, Current
<1>1. /\ prompt' \in Seq(Tokens) /\ l \in NInit .. MaxPrompt + NInit
      /\ prompt'[1] \in {Prev, Task}
      /\ prompt'[1] = Prev =>
           /\ l > NInit
           /\ \E first \in Nat : /\ first + l - NInit - 1 <= Len(prompt_past1)
                                 /\ \A k \in 1 .. l - NInit - 1 :
                                      prompt'[k + 1] = prompt_past1[first + k]
  BY <1>0, PromptFacts
<1>2. /\ IsCache(kv_self') /\ kv_self_n_dec' \in Nat \ {0}
      /\ kv_self'.size = CacheSize(kv_self_n_dec')
      /\ Cardinality(Current(it)) <= kv_self_n_dec'
      /\ Dense(kv_self', l)
      /\ \A s \in Current(it) : Once(kv_self', s, l)
      /\ batch' \in Seq([pos : Nat, seq_id : Decoders]) /\ DOMAIN batch' = 1 .. l
      /\ \A k \in 1 .. l : batch'[k].pos = k - 1 /\ batch'[k].seq_id = 0
  BY <1>0, AttemptCache
<1>3. /\ 0 \in Current(it) /\ Current(it) \subseteq Decoders
      /\ Cardinality(Current(it)) \in Nat
  BY ActiveDecoders
<1>4. /\ l \in Nat /\ l + 0 = l /\ NMax > 0 /\ NMax \in Int
      /\ MaxPrompt + NInit < n_text_ctx /\ MaxPrompt + NInit \in Nat /\ n_text_ctx \in Nat
  BY <1>1, TranscriptionAssumption DEF MaxPrompt, NMax
<1> HIDE DEF l
<1>5. Active' = Current(it)
  <2>1. \A j \in Current(it) : ~decoders'[j].failed /\ ~decoders'[j].completed
    BY <1>0, <1>3 DEF Fresh
  <2> QED
    BY <1>0, <2>1 DEF Active
<1>6. CallTypes'
  <2>1. decoders' \in [Decoders -> DecoderState]
    <3>1. Fresh \in DecoderState /\ decoders \in [Decoders -> DecoderState]
      BY <1>0 DEF Fresh, DecoderState, CallTypes
    <3> QED
      BY <1>0, <3>1
  <2> QED
    BY <1>0, <1>1, <1>2, <2>1 DEF CallTypes, InWindow, Decoding
<1>7. SizeInv'
  BY <1>0, <1>2 DEF SizeInv
<1>8. PromptInv'
  BY <1>0, <1>1 DEF PromptInv, Copied, l
<1>9. CellsInv'
  <2>1. l <= l + 0 * Cardinality(Current(it))
    BY <1>3, <1>4
  <2> QED
    BY <1>0, <1>2, <1>4, <1>5, <2>1 DEF CellsInv, l
<1>10. BatchInv'
  <2>1. \A k \in 1 .. l : k - 1 < l /\ k - 1 < n_text_ctx
    BY <1>1, <1>4
  <2> QED
    BY <1>0, <1>2, <1>3, <1>4, <1>5, <2>1 DEF BatchInv, l
<1>11. SaidInv'
  BY <1>0, SaidStays DEF InWindow
<1> QED
  BY <1>6, <1>7, <1>8, <1>9, <1>10, <1>11 DEF WhisperInv

(* A decoder samples: it is a decoder still, and none becomes active.      *)
LEMMA SampleStep ==
  ASSUME WhisperInv, Sample
  PROVE  WhisperInv'
<1>0. /\ CallTypes /\ SizeInv /\ PromptInv /\ CellsInv /\ BatchInv /\ SaidInv
      /\ pc = "sample"
      /\ UNCHANGED <<calls, args, seek, it, i, best, no_speech, prompt, batch, result_all,
                     prompt_past1, kv_self, kv_self_n_dec>>
      /\ Current(it)' = Current(it)
  BY DEF WhisperInv, Sample, stateVars, Current
<1>1. PICK ends \in SUBSET (IF i = 0 THEN {} ELSE Active) :
        decoders' = [j \in Decoders |-> IF j \in Active THEN Sampled(decoders[j], j \in ends)
                                        ELSE decoders[j]]
  BY DEF Sample
<1>2. Active \subseteq Current(it) /\ Current(it) \subseteq Decoders
  BY ActiveDecoders
<1>3. ASSUME NEW d \in DecoderState, NEW end \in BOOLEAN
      PROVE  Sampled(d, end) \in DecoderState
  <2>2. d.tokens + 1 \in Nat /\ (IF end THEN i + 1 ELSE d.result_len) \in Nat
    BY <1>0, <1>3 DEF CallTypes, DecoderState
  <2>3. (~end /\ i = NMax - 1) \in BOOLEAN
    OBVIOUS
  <2> QED
    BY <2>2, <2>3 DEF Sampled, DecoderState
<1>4. decoders' \in [Decoders -> DecoderState]
  <2>1. \A j \in Decoders : decoders[j] \in DecoderState /\ (j \in ends) \in BOOLEAN
    BY <1>0 DEF CallTypes
  <2>2. \A j \in Decoders : Sampled(decoders[j], j \in ends) \in DecoderState
    BY <1>3, <2>1
  <2> QED
    BY <1>1, <2>1, <2>2
<1>5. Active' \subseteq Active
  <2>1. \A j \in Current(it) \ Active : decoders'[j] = decoders[j]
    BY <1>1, <1>2
  <2> QED
    BY <1>0, <2>1 DEF Active
<1>6. pc' \in {"rank", "decode"} /\ (pc' = "decode" => Active' # {})
  <2>1. pc' = IF \A j \in Active : decoders'[j].completed \/ decoders'[j].failed THEN "rank" ELSE "decode"
    BY DEF Sample, Goto
  <2> QED
    BY <1>0, <1>2, <2>1 DEF Active
<1>7. CallTypes'
  BY <1>0, <1>4, <1>6 DEF CallTypes, InWindow, Decoding
<1>8. SizeInv' /\ PromptInv' /\ BatchInv'
  BY <1>0, <1>6 DEF SizeInv, PromptInv, BatchInv, Copied, Decoding
<1>9. CellsInv'
  BY <1>0, <1>5, <1>6 DEF CellsInv
<1>10. SaidInv'
  BY <1>0, <1>6, SaidStays DEF InWindow
<1> QED
  BY <1>7, <1>8, <1>9, <1>10 DEF WhisperInv

(* The place of the next batch: behind all that is in use.                 *)
Behind(n) ==
  /\ Dense(kv_self, n) /\ FindSlot(kv_self, Cardinality(Active)) = {n}
  /\ n + Cardinality(Active) <= Len(prompt) + (i + 1) * Cardinality(Current(it))

(* While tokens are decoded, the next ones go behind those in the cache.   *)
LEMMA DecodeFinds ==
  ASSUME WhisperInv, pc = "decode"
  PROVE  \E n \in Nat : Behind(n)
<1> DEFINE d == Cardinality(Current(it))
           a == Cardinality(Active)
           l == Len(prompt)
           m == kv_self_n_dec
<1>0. /\ i \in Nat /\ i < NMax /\ Active # {} /\ d <= m /\ m \in Nat \ {0}
      /\ IsCache(kv_self) /\ kv_self.size = CacheSize(m)
      /\ l \in NInit .. MaxPrompt + NInit
  BY DEF WhisperInv, CallTypes, CellsInv, SizeInv, PromptInv, Decoding
<1>1. PICK n \in Nat : Dense(kv_self, n) /\ n <= l + i * d
  BY DEF WhisperInv, CellsInv
<1>2. a \in Nat \ {0} /\ d \in Nat \ {0} /\ a <= d
  BY <1>0, ActiveDecoders
<1> HIDE DEF d, a, l, m
<1>3. /\ CacheSize(m) \in Nat /\ i * d \in Nat /\ l + i * d + d <= CacheSize(m) /\ l \in Nat
  <2>1. l \in 0 .. MaxPrompt + NInit /\ d \in 1 .. m
    BY <1>0, <1>2, TranscriptionAssumption
  <2>2. CacheSize(m) \in Nat /\ i * d \in Nat /\ l + i * d + d <= CacheSize(m)
    BY <1>0, <2>1, CacheHasRoom
  <2>3. l \in Nat
    BY <1>0, TranscriptionAssumption DEF MaxPrompt
  <2> QED
    BY <2>2, <2>3
<1>4. (i + 1) * d = i * d + d
  BY <1>0, <1>2
<1>5. n + a <= kv_self.size /\ n + a <= l + (i + 1) * d
  BY <1>0, <1>1, <1>2, <1>3, <1>4
<1>6. FindSlot(kv_self, a) = {n}
  BY <1>0, <1>1, <1>2, <1>5, FindsTheEnd
<1> QED
  BY <1>1, <1>5, <1>6 DEF Behind, d, a, l

(* The active decoders go on by a token each.                              *)
LEMMA DecodeStep ==
  ASSUME WhisperInv, Decode
  PROVE  WhisperInv'
<1> DEFINE a == Cardinality(Active)
           l == Len(prompt)
<1>0. /\ CallTypes /\ SizeInv /\ PromptInv /\ CellsInv /\ BatchInv /\ SaidInv
      /\ pc = "decode" /\ i' = i + 1
      /\ UNCHANGED <<calls, args, seek, it, decoders, best, no_speech, prompt_past1, prompt,
                     kv_self_n_dec, result_all>>
      /\ Current(it)' = Current(it) /\ Active' = Active
      /\ pc' = IF i + 1 < NMax THEN "sample" ELSE "rank"
  BY DEF WhisperInv, Decode, Goto, Current, Active
<1>1. PICK n \in Nat : Behind(n)
  BY <1>0, DecodeFinds
<1>2. /\ Dense(kv_self, n) /\ FindSlot(kv_self, a) = {n}
      /\ n + a <= l + (i + 1) * Cardinality(Current(it))
  BY <1>1 DEF Behind
<1>3. /\ a \in Nat \ {0} /\ Active \subseteq Decoders /\ Cardinality(Current(it)) \in Nat
      /\ i \in Nat /\ i < NMax /\ l \in Nat /\ l <= MaxPrompt + NInit
      /\ \A s \in Active : Once(kv_self, s, l + i)
      /\ IsCache(kv_self)
  <2>1. a \in Nat \ {0} /\ Active \subseteq Decoders /\ Cardinality(Current(it)) \in Nat
    BY <1>0, ActiveDecoders DEF CellsInv
  <2>2. l \in NInit .. MaxPrompt + NInit
    BY <1>0 DEF PromptInv, Decoding
  <2> QED
    <3>1. i \in Nat /\ i < NMax /\ IsCache(kv_self) /\ \A s \in Active : Once(kv_self, s, l + i)
      BY <1>0 DEF CallTypes, CellsInv, SizeInv
    <3>2. NInit \in Nat /\ MaxPrompt \in Nat
      BY TranscriptionAssumption DEF MaxPrompt
    <3> HIDE DEF l, a
    <3> QED
      BY <2>1, <2>2, <3>1, <3>2
<1>4. /\ l + i < n_text_ctx /\ l + i \in Nat /\ n_text_ctx \in Nat
  BY <1>3, TranscriptionAssumption DEF MaxPrompt, NMax
<1>5. /\ batch' \in Seq([pos : Nat, seq_id : Decoders]) /\ Len(batch') = a /\ DOMAIN batch' = 1 .. a
      /\ \A k \in 1 .. a : batch'[k].pos = l + i /\ batch'[k].seq_id = ActiveAt(k)
                           /\ ActiveAt(k) \in Active
  <2>1. batch' = [k \in 1 .. a |-> [pos |-> l + i, seq_id |-> ActiveAt(k)]]
    BY DEF Decode
  <2>2. \A k \in 1 .. a : ActiveAt(k) \in Active
    BY ActiveEnumerated
  <2> HIDE DEF l, a
  <2> QED
    BY <1>3, <1>4, <2>1, <2>2
<1>6. kv_self' = Place(kv_self, batch', n)
  BY <1>2, <1>5 DEF Decode
<1>7. Placed(kv_self, batch', n, kv_self')
  <2> HIDE DEF l, a
  <2> QED
    BY <1>3, <1>5, <1>6, PlaceFacts
<1>8. SizeInv'
  BY <1>0, <1>7 DEF SizeInv, Placed, Decoding
<1>9. Dense(kv_self', n + a)
  <2>1. Used(kv_self') = 0 .. (n + a) - 1
    <3>1. Used(kv_self') = (0 .. n - 1) \cup (n .. n + a - 1)
      BY <1>2, <1>5, <1>7 DEF Placed, Dense
    <3> HIDE DEF a
    <3> QED
      BY <1>3, <3>1
  <2>2. kv_self'.head = n
    BY <1>7 DEF Placed
  <2> HIDE DEF a
  <2> QED
    BY <1>3, <2>1, <2>2 DEF Dense
<1>10. ASSUME NEW s \in Active
       PROVE  Once(kv_self', s, l + (i + 1))
  <2>1. PICK k \in 1 .. a : ActiveAt(k) = s
    BY ActiveEnumerated
  <2>2. \A j \in 1 .. a : ActiveAt(j) = s => j = k
    BY <2>1, ActiveEnumerated
  <2> HIDE DEF l, a
  <2>3. k \in 1 .. Len(batch') /\ batch'[k].seq_id = s /\ batch'[k].pos = l + i
    BY <1>5, <2>1
  <2>4. \A j \in 1 .. Len(batch') : batch'[j].seq_id = s => j = k
    BY <1>5, <2>2
  <2>5. Once(kv_self', s, (l + i) + 1)
    BY <1>2, <1>3, <1>4, <1>5, <1>6, <2>3, <2>4, OnceGoesOn
  <2>6. (l + i) + 1 = l + (i + 1)
    BY <1>3
  <2> QED
    BY <2>5, <2>6
<1>11. CallTypes'
  BY <1>0, <1>5 DEF CallTypes, InWindow, Decoding
<1>12. PromptInv'
  BY <1>0 DEF PromptInv, Copied, Decoding
<1>13. CellsInv'
  <2>1. n + a \in Nat
    BY <1>3
  <2> HIDE DEF a
  <2> QED
    BY <1>0, <1>2, <1>9, <1>10, <2>1 DEF CellsInv
<1>14. BatchInv'
  <2>1. \A k \in DOMAIN batch' : /\ batch'[k].pos < n_text_ctx /\ batch'[k].seq_id \in Active
                                 /\ batch'[k].pos < l + (i + 1)
    <3> HIDE DEF l, a
    <3> QED
      BY <1>3, <1>4, <1>5
  <2> QED
    BY <1>0, <2>1 DEF BatchInv
<1>15. SaidInv'
  BY <1>0, SaidStays DEF InWindow
<1> QED
  BY <1>8, <1>11, <1>12, <1>13, <1>14, <1>15 DEF WhisperInv

(* What is remembered of a history and of a window.                        *)
InOrder(q) == \A k, l \in DOMAIN q : k < l => q[k][2] <= q[l][2]

(* What is remembered of two, one behind the other.                        *)
LEMMA Joined ==
  ASSUME NEW q \in Seq(Tokens), NEW r \in Seq(Tokens), InOrder(q), InOrder(r),
         \A k \in DOMAIN q, l \in DOMAIN r : q[k][2] <= r[l][2]
  PROVE  /\ q \o r \in Seq(Tokens) /\ InOrder(q \o r)
         /\ \A k \in DOMAIN (q \o r) : \/ \E l \in DOMAIN q : (q \o r)[k] = q[l]
                                       \/ \E l \in DOMAIN r : (q \o r)[k] = r[l]
<1> DEFINE both == q \o r
<1>1. /\ both \in Seq(Tokens) /\ DOMAIN both = 1 .. Len(q) + Len(r)
      /\ \A k \in 1 .. Len(q) : both[k] = q[k]
      /\ \A k \in Len(q) + 1 .. Len(q) + Len(r) : both[k] = r[k - Len(q)]
  OBVIOUS
<1>2. DOMAIN q = 1 .. Len(q) /\ DOMAIN r = 1 .. Len(r) /\ Len(q) \in Nat /\ Len(r) \in Nat
  OBVIOUS
<1> HIDE DEF both
<1>3. \A k \in DOMAIN both :
        \/ k \in DOMAIN q /\ both[k] = q[k]
        \/ k > Len(q) /\ k - Len(q) \in DOMAIN r /\ both[k] = r[k - Len(q)]
  BY <1>1, <1>2
<1>4. ASSUME NEW k \in DOMAIN both, NEW l \in DOMAIN both, k < l
      PROVE  both[k][2] <= both[l][2]
  <2>1. k \in Nat /\ l \in Nat
    BY <1>1, <1>2
  <2>2. CASE k \in DOMAIN q /\ both[k] = q[k] /\ l \in DOMAIN q /\ both[l] = q[l]
    BY <1>4, <2>2 DEF InOrder
  <2>3. CASE k \in DOMAIN q /\ both[k] = q[k] /\ l - Len(q) \in DOMAIN r /\ both[l] = r[l - Len(q)]
    BY <2>3
  <2>4. CASE /\ k - Len(q) \in DOMAIN r /\ both[k] = r[k - Len(q)]
             /\ l - Len(q) \in DOMAIN r /\ both[l] = r[l - Len(q)]
    <3>1. k - Len(q) < l - Len(q)
      BY <1>2, <1>4, <2>1
    <3> QED
      BY <2>4, <3>1 DEF InOrder
  <2>5. l \in DOMAIN q => k \in DOMAIN q
    BY <1>2, <1>4, <2>1, <1>1
  <2> QED
    BY <1>2, <1>3, <2>1, <2>2, <2>3, <2>4, <2>5
<1>5. InOrder(both)
  BY <1>4 DEF InOrder
<1> QED
  BY <1>1, <1>3, <1>5 DEF both

(* What is kept of the history a window was decoded after.                 *)
Kept == IF Head(prompt) = Prev THEN SubSeq(prompt, 2, Len(prompt) - NInit) ELSE <<>>

(* It is a run of that history.                                            *)
LEMMA KeptFacts ==
  ASSUME CallTypes, PromptInv, pc \in Decoding
  PROVE  /\ Kept \in Seq(Tokens)
         /\ \E first \in Nat : \A k \in DOMAIN Kept : /\ first + k \in DOMAIN prompt_past1
                                                      /\ Kept[k] = prompt_past1[first + k]
<1>0. /\ prompt \in Seq(Tokens) /\ Len(prompt) \in Nat /\ NInit \in Nat /\ NInit >= 1
      /\ Len(prompt) >= NInit /\ Head(prompt) = prompt[1]
      /\ prompt_past1 \in Seq(Tokens) /\ DOMAIN prompt_past1 = 1 .. Len(prompt_past1)
      /\ Len(prompt_past1) \in Nat
  <2>1. Len(prompt) \in NInit .. MaxPrompt + NInit
    BY DEF PromptInv
  <2>2. NInit \in Nat /\ NInit >= 1 /\ MaxPrompt \in Nat
    BY TranscriptionAssumption DEF MaxPrompt
  <2>3. prompt \in Seq(Tokens) /\ prompt_past1 \in Seq(Tokens)
    BY DEF CallTypes
  <2> QED
    BY <2>1, <2>2, <2>3
<1>1. CASE Head(prompt) # Prev
  <2>1. Kept = <<>>
    BY <1>1 DEF Kept
  <2> QED
    BY <2>1
<1>2. CASE Head(prompt) = Prev
  <2> DEFINE m == Len(prompt) - NInit - 1
  <2>1. PICK first \in Nat : /\ Len(prompt) > NInit /\ first + m <= Len(prompt_past1)
                             /\ \A k \in 1 .. m : prompt[k + 1] = prompt_past1[first + k]
    BY <1>0, <1>2 DEF PromptInv, Copied
  <2>2. Kept = SubSeq(prompt, 2, Len(prompt) - NInit)
    BY <1>2 DEF Kept
  <2>3. /\ Kept \in Seq(Tokens) /\ DOMAIN Kept = 1 .. m
        /\ \A k \in 1 .. m : Kept[k] = prompt[k + 1]
    BY <1>0, <2>1, <2>2
  <2>4. m \in Nat
    BY <1>0, <2>1
  <2> HIDE DEF m
  <2>5. \A k \in 1 .. m : first + k \in 1 .. Len(prompt_past1)
    BY <1>0, <2>1, <2>4
  <2>6. \A k \in DOMAIN Kept : first + k \in DOMAIN prompt_past1 /\ Kept[k] = prompt_past1[first + k]
    BY <1>0, <2>1, <2>3, <2>5
  <2> QED
    BY <2>1, <2>3, <2>6
<1> QED
  BY <1>1, <1>2

(* The text of a window is taken: its history, and the next window.        *)
LEMMA EmitSaid ==
  ASSUME CallTypes, PromptInv, SaidInv, pc \in Decoding, calls' = calls,
         NEW silent \in BOOLEAN, NEW d \in DecoderState, Emit(silent, d)
  PROVE  prompt_past1' \in Seq(Tokens) /\ SaidInv'
<1> DEFINE said == Remembered(silent, d.result_len)
<1>0. /\ seek \in Nat /\ Said \in Tokens /\ d.result_len \in Nat /\ Said[2] = seek
      /\ result_all \in Seq(Nat) /\ calls \in Nat
  BY DEF CallTypes, DecoderState, Said, Tokens
<1>1. /\ \A k \in DOMAIN prompt_past1 : WasSaid(prompt_past1[k])
      /\ InOrder(prompt_past1)
      /\ \A k \in DOMAIN result_all : result_all[k] < seek
  BY DEF SaidInv, InOrder, InWindow, Decoding
<1>2. /\ said \in Seq(Tokens)
      /\ \A k \in DOMAIN said : ~silent /\ said[k] = Said
  <2>1. CASE silent
    BY <2>1 DEF Remembered
  <2>2. CASE ~silent
    <3>1. said = [k \in 1 .. d.result_len |-> Said]
      BY <2>2 DEF Remembered
    <3> HIDE DEF said
    <3> QED
      BY <1>0, <2>2, <3>1, Repeated
  <2> QED
    BY <2>1, <2>2
<1> HIDE DEF said
<1>3. PICK first \in Nat : \A k \in DOMAIN Kept : /\ first + k \in DOMAIN prompt_past1
                                                  /\ Kept[k] = prompt_past1[first + k]
  BY KeptFacts
<1>4. Kept \in Seq(Tokens)
  BY KeptFacts
<1>5. InOrder(Kept) /\ InOrder(said)
  <2>1. ASSUME NEW k \in DOMAIN Kept, NEW l \in DOMAIN Kept, k < l
        PROVE  Kept[k][2] <= Kept[l][2]
    <3>1. k \in Nat /\ l \in Nat
      BY <1>4
    <3>2. first + k < first + l
      BY <2>1, <3>1
    <3> QED
      BY <1>1, <1>3, <3>2 DEF InOrder
  <2>2. ASSUME NEW k \in DOMAIN said, NEW l \in DOMAIN said
        PROVE  said[k][2] <= said[l][2]
    <3>1. said[k] = Said /\ said[l] = Said
      BY <1>2
    <3> QED
      BY <1>0, <3>1
  <2> QED
    BY <2>1, <2>2 DEF InOrder
<1>6. \A k \in DOMAIN Kept, l \in DOMAIN said : Kept[k][2] <= said[l][2]
  <2> SUFFICES ASSUME NEW k \in DOMAIN Kept, NEW l \in DOMAIN said
               PROVE  Kept[k][2] <= said[l][2]
    OBVIOUS
  <2>1. said[l][2] = seek
    BY <1>0, <1>2
  <2>2. WasSaid(Kept[k])
    BY <1>1, <1>3
  <2>3. CASE Kept[k] = Given
    <3>1. Kept[k][2] = -1
      BY <2>3 DEF Given
    <3> QED
      BY <1>0, <2>1, <3>1
  <2>4. CASE Kept[k] # Given
    <3>1. PICK m \in DOMAIN result_all : Kept[k] = <<calls, result_all[m]>>
      BY <2>2, <2>4 DEF WasSaid
    <3>2. result_all[m] \in Nat /\ result_all[m] < seek /\ Kept[k][2] = result_all[m]
      BY <1>0, <1>1, <3>1
    <3> QED
      BY <1>0, <2>1, <3>2
  <2> QED
    BY <2>3, <2>4
<1>7. prompt_past1' = Kept \o said
  BY DEF Emit, Kept, said
<1>8. /\ prompt_past1' \in Seq(Tokens) /\ InOrder(prompt_past1')
      /\ \A k \in DOMAIN prompt_past1' : \/ \E l \in DOMAIN Kept : prompt_past1'[k] = Kept[l]
                                         \/ \E l \in DOMAIN said : prompt_past1'[k] = said[l]
  BY <1>2, <1>4, <1>5, <1>6, <1>7, Joined
<1>9. /\ \A k \in DOMAIN result_all : k \in DOMAIN result_all' /\ result_all'[k] = result_all[k]
      /\ ~silent => \E k \in DOMAIN result_all' : result_all'[k] = seek
      /\ \A k \in DOMAIN result_all' : result_all'[k] < seek'
  <2>1. seek' = seek + 3000
    BY DEF Emit, Advance, Window
  <2>2. CASE silent
    <3>1. result_all' = result_all
      BY <2>2 DEF Emit
    <3>2. \A k \in DOMAIN result_all : result_all[k] \in Nat
      BY <1>0
    <3> QED
      BY <1>0, <1>1, <2>1, <2>2, <3>1, <3>2
  <2>3. CASE ~silent
    <3>1. result_all' = Append(result_all, seek)
      BY <2>3 DEF Emit
    <3> DEFINE n == Len(result_all)
    <3>2. /\ n \in Nat /\ DOMAIN result_all = 1 .. n /\ DOMAIN result_all' = 1 .. n + 1
          /\ \A k \in 1 .. n : result_all'[k] = result_all[k] /\ result_all[k] \in Nat
          /\ result_all'[n + 1] = seek
      BY <1>0, <3>1
    <3> HIDE DEF n
    <3> QED
      BY <1>0, <1>1, <2>1, <3>2
  <2> QED
    BY <2>2, <2>3
<1>10. \A k \in DOMAIN prompt_past1' : WasSaid(prompt_past1[k])'
  <2>1. ASSUME NEW token, WasSaid(token) PROVE WasSaid(token)'
    <3>1. Given' = Given
      BY DEF Given
    <3> QED
      BY <1>9, <2>1, <3>1 DEF WasSaid
  <2>2. \A token : ~silent /\ token = Said => WasSaid(token)'
    BY <1>9 DEF WasSaid, Said
  <2>3. \A token : (\E l \in DOMAIN Kept : token = Kept[l]) => WasSaid(token)'
    BY <1>1, <1>3, <2>1
  <2>4. ASSUME NEW k \in DOMAIN prompt_past1'
        PROVE  \A token : token = prompt_past1'[k] => WasSaid(token)'
    BY <1>2, <1>8, <2>2, <2>3
  <2> QED
    BY <2>4 DEF WasSaid
<1>11. pc' = "window"
  BY DEF Emit, Goto
<1> QED
  BY <1>8, <1>9, <1>10, <1>11 DEF SaidInv, InOrder, InWindow

(* What an attempt comes to: the best decoder is one that did not fail,    *)
(* if there is one, and then the text is taken or the window tried again.  *)
LEMMA RankDecides ==
  ASSUME CallTypes, Rank
  PROVE  /\ decoders' \in [Decoders -> DecoderState] /\ best' \in Decoders
         /\ decoders'[best'].failed => \A j \in Current(it) : decoders'[j].failed
         /\ \/ Retry /\ it < NTemperatures
            \/ /\ it < NTemperatures => ~decoders'[best'].failed
               /\ \E silent \in BOOLEAN : Emit(silent, decoders'[best'])
<1>0. Current(it) \subseteq Decoders /\ best \in Decoders /\ decoders \in [Decoders -> DecoderState]
  BY ActiveDecoders DEF CallTypes
<1>1. PICK repeating \in SUBSET MayRepeat :
        decoders' = [j \in Decoders |-> [decoders[j] EXCEPT !.failed = @ \/ j \in repeating]]
  BY DEF Rank
<1>2. decoders' \in [Decoders -> DecoderState]
  <2>1. ASSUME NEW d \in DecoderState, NEW more \in BOOLEAN
        PROVE  [d EXCEPT !.failed = @ \/ more] \in DecoderState
    BY <2>1 DEF DecoderState
  <2>2. \A j \in Decoders : [decoders[j] EXCEPT !.failed = @ \/ j \in repeating] \in DecoderState
    BY <1>0, <2>1
  <2> QED
    BY <1>1, <2>2
<1>3. best' \in Ranked({j \in Current(it) : ~decoders'[j].failed})
  BY DEF Rank
<1>4. best' \in Decoders /\ (decoders'[best'].failed => \A j \in Current(it) : decoders'[j].failed)
  BY <1>0, <1>3 DEF Ranked
<1>5. PICK unlikely \in BOOLEAN :
        IF it < NTemperatures /\ (decoders'[best'].failed \/ (unlikely /\ ~no_speech))
        THEN Retry
        ELSE Emit(unlikely /\ no_speech, decoders'[best'])
  BY DEF Rank
<1>6. (unlikely /\ no_speech) \in BOOLEAN
  OBVIOUS
<1>7. CASE it < NTemperatures /\ (decoders'[best'].failed \/ (unlikely /\ ~no_speech))
  BY <1>2, <1>4, <1>5, <1>7
<1>8. CASE ~(it < NTemperatures /\ (decoders'[best'].failed \/ (unlikely /\ ~no_speech)))
  <2>1. Emit(unlikely /\ no_speech, decoders'[best'])
    BY <1>5, <1>8
  <2>2. \E silent \in BOOLEAN : Emit(silent, decoders'[best'])
    BY <1>6, <2>1
  <2> QED
    BY <1>2, <1>4, <1>8, <2>2
<1> QED
  BY <1>7, <1>8

(* Ranking keeps the invariant, whether the text is taken or tried again.  *)
LEMMA RankStep ==
  ASSUME WhisperInv, Rank
  PROVE  WhisperInv'
<1>0. /\ CallTypes /\ SizeInv /\ PromptInv /\ CellsInv /\ BatchInv /\ SaidInv
      /\ pc = "rank"
      /\ UNCHANGED <<calls, args, i, no_speech, prompt, batch, kv_self, kv_self_n_dec>>
  BY DEF WhisperInv, Rank
<1>1. decoders' \in [Decoders -> DecoderState] /\ best' \in Decoders
  BY <1>0, RankDecides
<1>2. CASE Retry /\ it < NTemperatures
  <2>1. /\ pc' = "attempt" /\ it' = it + 1 /\ it' \in 1 .. NTemperatures
        /\ UNCHANGED <<prompt_past1, result_all, seek>>
    BY <1>0, <1>2, TranscriptionAssumption DEF Retry, Goto, CallTypes, Decoding
  <2>2. CallTypes'
    BY <1>0, <1>1, <2>1 DEF CallTypes, InWindow, Decoding
  <2>3. SaidInv'
    BY <1>0, <2>1, SaidStays DEF InWindow
  <2> QED
    BY <1>0, <2>1, <2>2, <2>3
    DEF WhisperInv, SizeInv, PromptInv, CellsInv, BatchInv, Decoding
<1>3. ASSUME NEW silent \in BOOLEAN, Emit(silent, decoders'[best'])
      PROVE  WhisperInv'
  <2>1. prompt_past1' \in Seq(Tokens) /\ SaidInv'
    <3>1. decoders'[best'] \in DecoderState
      BY <1>1
    <3> QED
      BY <1>0, <1>3, <3>1, EmitSaid DEF Decoding
  <2>2. /\ pc' = "window" /\ it' = it /\ seek' = seek + Window
        /\ result_all' = IF silent THEN result_all ELSE Append(result_all, seek)
    BY <1>3 DEF Emit, Goto, Advance
  <2>3. seek' \in Nat /\ result_all' \in Seq(Nat)
    BY <1>0, <2>2 DEF CallTypes, Window
  <2>4. CallTypes'
    BY <1>0, <1>1, <2>1, <2>2, <2>3 DEF CallTypes, InWindow, Decoding
  <2> QED
    BY <1>0, <2>1, <2>2, <2>4
    DEF WhisperInv, SizeInv, PromptInv, CellsInv, BatchInv, Decoding
<1> QED
  BY <1>0, <1>2, <1>3, RankDecides

(* Every step keeps it.                                                    *)
LEMMA WhisperSteps == WhisperInv /\ [WhisperNext]_whisperVars => WhisperInv'
<1> SUFFICES ASSUME WhisperInv, [WhisperNext]_whisperVars PROVE WhisperInv'
  OBVIOUS
<1>1. CASE Start
  BY <1>1, TranscribeStep DEF Start
<1>2. CASE DetectLanguage
  BY <1>2, DetectStep
<1>3. CASE TooShort \/ Return \/ Fails
  BY <1>3, ReturnedStep DEF TooShort, Return, Fails
<1>4. CASE Prepare
  BY <1>4, PrepareStep
<1>5. CASE Encode
  BY <1>5, EncodeStep
<1>6. CASE Attempt
  BY <1>6, AttemptStep
<1>7. CASE CacheFails
  BY <1>7, CacheFailsStep
<1>8. CASE Sample
  BY <1>8, SampleStep
<1>9. CASE Decode
  BY <1>9, DecodeStep
<1>10. CASE Rank
  BY <1>10, RankStep
<1>11. CASE UNCHANGED whisperVars
  <2>1. CallTypes' /\ SizeInv'
    BY <1>11 DEF WhisperInv, whisperVars, stateVars, CallTypes, SizeInv, Current
  <2>2. PromptInv' /\ CellsInv' /\ BatchInv' /\ SaidInv'
    BY <1>11
    DEF WhisperInv, whisperVars, stateVars, PromptInv, Copied, CellsInv, BatchInv, SaidInv, WasSaid,
        Given, Active, Current
  <2> QED
    BY <2>1, <2>2 DEF WhisperInv
<1> QED
  BY <1>1, <1>2, <1>3, <1>4, <1>5, <1>6, <1>7, <1>8, <1>9, <1>10, <1>11 DEF WhisperNext, Proceed

(* The invariant holds whatever the sizes, the lengths of the recordings   *)
(* and the number of decoders: what the three theorems below rest on.      *)
THEOREM TranscriptionInvariant == WhisperSpec => []WhisperInv
<1> QED
  BY WhisperStarts, WhisperSteps, PTL DEF WhisperSpec

(* However long prompt, history and transcript are, no token gets a        *)
(* position the model has no embedding for, and no batch of the decoding   *)
(* loop is without cells: the cache has room for all decoders to the end.  *)
THEOREM PositionsAlwaysFit == WhisperSpec => []PositionsFit
<1>1. WhisperInv => PositionsFit
  <2> SUFFICES ASSUME WhisperInv PROVE PositionsFit
    OBVIOUS
  <2>1. \A k \in DOMAIN batch : batch[k].pos < n_text_ctx
    BY DEF WhisperInv, BatchInv
  <2>2. pc = "decode" => FindSlot(kv_self, Cardinality(Active)) # {}
    <3>1. ASSUME pc = "decode" PROVE \E n \in Nat : FindSlot(kv_self, Cardinality(Active)) = {n}
      BY <3>1, DecodeFinds DEF Behind
    <3> QED
      BY <3>1
  <2> QED
    BY <2>1, <2>2 DEF PositionsFit
<1> QED
  BY <1>1, TranscriptionInvariant, PTL

(* A token attends to exactly one token of its own sequence at each        *)
(* position up to its own: nothing an attempt or a call before has left,   *)
(* and nothing of another decoder.                                         *)
THEOREM TokensAttendTheirPast == WhisperSpec => []EachPositionOnce
<1>1. WhisperInv => EachPositionOnce
  <2> SUFFICES ASSUME WhisperInv, pc \in {"prepare", "sample"}, pc = "prepare" => args.auto,
                      NEW k \in DOMAIN batch
               PROVE  LET seen == Attended(kv_self, batch[k].seq_id, batch[k].pos)
                      IN  /\ {kv_self.cells[c].pos : c \in seen} = 0 .. batch[k].pos
                          /\ Cardinality(seen) = batch[k].pos + 1
    BY DEF EachPositionOnce
  <2>1. IsCache(kv_self)
    BY DEF WhisperInv, SizeInv
  <2>2. batch[k].pos \in Nat
    <3>1. batch \in Seq([pos : Nat, seq_id : Decoders])
      BY DEF WhisperInv, CallTypes
    <3>2. k \in 1 .. Len(batch)
      BY <3>1
    <3>3. batch[k] \in [pos : Nat, seq_id : Decoders]
      BY <3>1, <3>2, ElementsOf
    <3> QED
      BY <3>3
  <2>3. \E n \in Nat : batch[k].pos < n /\ Once(kv_self, batch[k].seq_id, n)
    <3>1. CASE pc = "sample"
      <4>1. Len(prompt) + i \in Nat
        BY DEF WhisperInv, CallTypes
      <4> QED
        BY <3>1, <4>1 DEF WhisperInv, BatchInv, CellsInv
    <3>2. CASE pc = "prepare"
      BY <3>2 DEF WhisperInv, BatchInv, CellsInv
    <3> QED
      BY <3>1, <3>2
  <2> QED
    BY <2>1, <2>2, <2>3, AttendsOnce
<1> QED
  BY <1>1, TranscriptionInvariant, PTL

(* What a window is conditioned on was given with this recording or said   *)
(* in an earlier window of it, in that order.                              *)
THEOREM HistoryIsOfThisCall == WhisperSpec => []HistoryWasSaid
<1>1. WhisperInv => HistoryWasSaid
  <2> SUFFICES ASSUME WhisperInv, pc \in InWindow PROVE HistoryWasSaid
    BY DEF HistoryWasSaid, InWindow
  <2>1. \A k, l \in DOMAIN prompt_past1 : k < l => prompt_past1[k][2] <= prompt_past1[l][2]
    BY DEF WhisperInv, SaidInv
  <2>2. ASSUME NEW token \in ToSet(prompt_past1)
        PROVE  token \in {Given} \cup {<<calls, s>> : s \in ToSet(result_all)}
    <3>1. PICK k \in DOMAIN prompt_past1 : token = prompt_past1[k]
      BY DEF ToSet
    <3>2. WasSaid(token)
      BY <3>1 DEF WhisperInv, SaidInv
    <3> QED
      BY <3>2 DEF WasSaid, ToSet
  <2> QED
    BY <2>1, <2>2 DEF HistoryWasSaid
<1> QED
  BY <1>1, TranscriptionInvariant, PTL

(* The text of a decoder that failed is taken only at the last temperature *)
(* and only when every decoder has failed there.                           *)
THEOREM FailedTextComesLast == WhisperSpec => FailedTextIsLastResort
<1> DEFINE TakenLast == Len(result_all') > Len(result_all) /\ decoders'[best'].failed =>
                     it = NTemperatures /\ \A j \in Current(it) : decoders'[j].failed
<1>1. WhisperInv /\ [WhisperNext]_whisperVars => [TakenLast]_whisperVars
  <2> SUFFICES ASSUME WhisperInv, WhisperNext, Len(result_all') > Len(result_all), decoders'[best'].failed
               PROVE  it = NTemperatures /\ \A j \in Current(it) : decoders'[j].failed
    OBVIOUS
  <2>1. CallTypes /\ Len(result_all) \in Nat
    BY DEF WhisperInv, CallTypes
  <2>2. CASE Rank
    <3>1. pc = "rank" /\ it \in 1 .. NTemperatures
      BY <2>1, <2>2 DEF Rank, CallTypes, Decoding
    <3>2. ~Retry
      BY <2>1 DEF Retry
    <3> QED
      BY <2>1, <2>2, <3>1, <3>2, RankDecides, TranscriptionAssumption
  <2>3. CASE ~Rank
    <3>1. result_all' = result_all \/ result_all' = <<>>
      BY <2>3
      DEF WhisperNext, Proceed, Start, Transcribe, Fails, TooShort, Return, Returned, DetectLanguage,
          Prepare, Encode, Attempt, Sample, Decode, CacheFails
    <3>2. Len(<<>>) = 0
      OBVIOUS
    <3> QED
      BY <2>1, <3>1, <3>2
  <2> QED
    BY <2>2, <2>3
<1>2. FailedTextIsLastResort <=> [][TakenLast]_whisperVars
  BY DEF FailedTextIsLastResort
<1> QED
  BY <1>1, <1>2, TranscriptionInvariant, PTL DEF WhisperSpec
=============================================================================

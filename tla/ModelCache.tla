----------------------------- MODULE ModelCache -----------------------------
(***************************************************************************)
(* The lazily loading, idle-unloading cache of whisper.cpp and llama.cpp   *)
(* models: internal/drivers/modelcache.go, with its only callers, the run, *)
(* Chat and Preload methods of whisper_cpp.go and llama_cpp.go.            *)
(*                                                                         *)
(* A step is what one goroutine does between two acquisitions of           *)
(* modelCache.mu.  A load and the close of an unloaded model run outside   *)
(* the lock and are steps of their own.  A cacheEntry and the model it     *)
(* points to are one Instance: an entry is made for exactly one model and  *)
(* dies with it.  A name that is not in `paths` is answered with an error  *)
(* before anything changes, so Names holds the configured names only.      *)
(***************************************************************************)
EXTENDS Integers, FiniteSets

CONSTANTS
  Users,        \* goroutines that call Chat, Transcribe or Preload
  Names,        \* configured model names, the domain of `paths`
  Instances,    \* slots for loaded models; a freed slot may be used again
  Callbacks,    \* goroutines that timers start to run maybeUnload
  UnloadAfter,  \* idle time before an unload, in ticks; 0 disables it
  NoInstance,   \* the entry of a name that is not loaded
  NoName        \* the target of a callback that is not running

ASSUME UsersAssumption     == IsFiniteSet(Users)
ASSUME UnloadAssumption    == UnloadAfter \in Nat
ASSUME InstanceAssumption  == NoInstance \notin Instances
ASSUME NameAssumption      == NoName \notin Names

VARIABLES
  loaded,    \* modelCache.loaded: Names -> entry
  alive,     \* the instance's C memory is allocated
  inflight,  \* cacheEntry.inflight
  age,       \* ticks since cacheEntry.lastUse, saturated at UnloadAfter
  timer,     \* cacheEntry.timer: nil, armed or fired ("spent")
  left,      \* ticks until an armed timer is due
  label,     \* the name the timer's closure passes to maybeUnload
  upc,       \* where each user is
  want,      \* the name a user asked for
  have,      \* the instance a user has loaded or acquired
  cpc,       \* where each timer callback is
  target,    \* the name the callback was started for
  victim     \* the instance a callback has removed and must close

entryVars == <<loaded, alive, inflight, age, timer, left, label>>
userVars  == <<upc, want, have>>
callVars  == <<cpc, target, victim>>
vars      == <<entryVars, userVars, callVars>>

Min2(a, b) == IF a < b THEN a ELSE b

(* Between acquire and release: the user holds a cacheEntry.               *)
Holding == {"held", "inferring", "done"}
Holders(i) == {u \in Users : upc[u] \in Holding /\ have[u] = i}
-----------------------------------------------------------------------------
Init ==
  /\ loaded   = [n \in Names |-> NoInstance]
  /\ alive    = [i \in Instances |-> FALSE]
  /\ inflight = [i \in Instances |-> 0]
  /\ age      = [i \in Instances |-> UnloadAfter]
  /\ timer    = [i \in Instances |-> "nil"]
  /\ left     = [i \in Instances |-> 0]
  /\ label    = [i \in Instances |-> NoName]
  /\ upc      = [u \in Users |-> "idle"]
  /\ want     = [u \in Users |-> NoName]
  /\ have     = [u \in Users |-> NoInstance]
  /\ cpc      = [g \in Callbacks |-> "idle"]
  /\ target   = [g \in Callbacks |-> NoName]
  /\ victim   = [g \in Callbacks |-> NoInstance]

(* existing.inflight++ : one more use of a cached entry.                   *)
WithUse(i) == [inflight EXCEPT ![i] = @ + 1]

(* acquire, first critical section, the name is resident.                  *)
AcquireHit(u, n) ==
  /\ upc[u] = "idle"
  /\ loaded[n] # NoInstance
  /\ inflight' = WithUse(loaded[n])
  /\ upc'  = [upc EXCEPT ![u] = "held"]
  /\ want' = [want EXCEPT ![u] = n]
  /\ have' = [have EXCEPT ![u] = loaded[n]]
  /\ UNCHANGED <<loaded, alive, age, timer, left, label, callVars>>

(* acquire, first critical section, the name is not resident: unlock and   *)
(* start the load.                                                         *)
AcquireMiss(u, n) ==
  /\ upc[u] = "idle"
  /\ loaded[n] = NoInstance
  /\ upc'  = [upc EXCEPT ![u] = "loading"]
  /\ want' = [want EXCEPT ![u] = n]
  /\ UNCHANGED <<entryVars, have, callVars>>

(* The load (or the path expansion before it) fails; nothing is cached.    *)
LoadFails(u) ==
  /\ upc[u] = "loading"
  /\ upc'  = [upc EXCEPT ![u] = "idle"]
  /\ want' = [want EXCEPT ![u] = NoName]
  /\ UNCHANGED <<entryVars, have, callVars>>

(* A slot no model occupies and no armed timer of an old entry refers to.  *)
Vacant(i) == ~alive[i] /\ timer[i] # "armed"

(* The load returns a fresh model, still known to this goroutine only.     *)
LoadReturns(u, i) ==
  /\ upc[u] = "loading"
  /\ Vacant(i)
  /\ alive'    = [alive EXCEPT ![i] = TRUE]
  /\ upc'      = [upc EXCEPT ![u] = "loaded"]
  /\ have'     = [have EXCEPT ![u] = i]
  /\ UNCHANGED <<loaded, inflight, age, timer, left, label, want, callVars>>

(* The re-check after the load: another goroutine cached the name first.   *)
RaceLost_Unchecked(u) == FALSE
RaceLost(u) == loaded[want[u]] # NoInstance

(* A new entry starts with its creator's use in flight.                    *)
NewEntry(i) == [inflight EXCEPT ![i] = 1]

(* acquire, second critical section: cache our entry with inflight = 1...  *)
InsertFirst(u) ==
  /\ upc[u] = "loaded"
  /\ ~RaceLost(u)
  /\ loaded'   = [loaded EXCEPT ![want[u]] = have[u]]
  /\ inflight' = NewEntry(have[u])
  /\ age'      = [age EXCEPT ![have[u]] = UnloadAfter]  \* lastUse is the zero time
  /\ timer'    = [timer EXCEPT ![have[u]] = "nil"]
  /\ upc'      = [upc EXCEPT ![u] = "held"]
  /\ UNCHANGED <<alive, left, label, want, have, callVars>>

(* ... or, another goroutine won the race: close ours and use theirs.      *)
InsertSecond(u) ==
  /\ upc[u] = "loaded"
  /\ RaceLost(u)
  /\ alive'    = [alive EXCEPT ![have[u]] = FALSE]
  /\ inflight' = WithUse(loaded[want[u]])
  /\ have'     = [have EXCEPT ![u] = loaded[want[u]]]
  /\ upc'      = [upc EXCEPT ![u] = "held"]
  /\ UNCHANGED <<loaded, age, timer, left, label, want, callVars>>

(* Model.Chat / Model.Transcribe runs with the model's own mutex held.     *)
StartInference(u) ==
  /\ upc[u] = "held"
  /\ \A v \in Users : upc[v] = "inferring" => have[v] # have[u]
  /\ upc' = [upc EXCEPT ![u] = "inferring"]
  /\ UNCHANGED <<entryVars, want, have, callVars>>

EndInference(u) ==
  /\ upc[u] = "inferring"
  /\ upc' = [upc EXCEPT ![u] = "done"]
  /\ UNCHANGED <<entryVars, want, have, callVars>>

(* The last use ends and unloading is enabled.                             *)
ArmsTimer_OnlyOnce(i) == UnloadAfter > 0 /\ inflight[i] = 1 /\ timer[i] = "nil"
ArmsTimer(i) == UnloadAfter > 0 /\ inflight[i] = 1

(* release: at once for a preload or a cancelled call, else after the run. *)
(* The last holder arms the timer, or resets the one the entry has.        *)
Release(u) ==
  LET i == have[u] IN
  /\ upc[u] \in {"held", "done"}
  /\ inflight' = [inflight EXCEPT ![i] = @ - 1]
  /\ age'      = [age EXCEPT ![i] = 0]
  /\ \/ /\ ArmsTimer(i)
        /\ timer' = [timer EXCEPT ![i] = "armed"]
        /\ left'  = [left EXCEPT ![i] = UnloadAfter]
        /\ label' = [label EXCEPT ![i] = want[u]]
     \/ /\ ~ArmsTimer(i)
        /\ UNCHANGED <<timer, left, label>>
  /\ upc'  = [upc EXCEPT ![u] = "idle"]
  /\ want' = [want EXCEPT ![u] = NoName]
  /\ have' = [have EXCEPT ![u] = NoInstance]
  /\ UNCHANGED <<loaded, alive, callVars>>
-----------------------------------------------------------------------------
(* An armed timer is due: the runtime starts a goroutine that will call    *)
(* maybeUnload with the entry's name, not with the entry.  The goroutine   *)
(* may run much later, and a timer of an entry that is gone still fires.   *)
TimerFires(i, g) ==
  /\ timer[i] = "armed" /\ left[i] = 0
  /\ cpc[g] = "idle"
  /\ timer'  = [timer EXCEPT ![i] = "spent"]
  /\ cpc'    = [cpc EXCEPT ![g] = "fired"]
  /\ target' = [target EXCEPT ![g] = label[i]]
  /\ UNCHANGED <<loaded, alive, inflight, age, left, label, userVars, victim>>

(* No use of the entry is in flight.                                       *)
Unused_Assumed(i) == TRUE
Unused(i) == inflight[i] = 0

(* maybeUnload finds nothing under the name, or a use in flight.           *)
UnloadSkipped(g) ==
  /\ cpc[g] = "fired"
  /\ \/ loaded[target[g]] = NoInstance
     \/ loaded[target[g]] # NoInstance /\ ~Unused(loaded[target[g]])
  /\ cpc'    = [cpc EXCEPT ![g] = "idle"]
  /\ target' = [target EXCEPT ![g] = NoName]
  /\ UNCHANGED <<entryVars, userVars, victim>>

(* maybeUnload finds an idle entry, used since this timer was armed.       *)
UnloadPostponed(g) ==
  LET i == loaded[target[g]] IN
  /\ cpc[g] = "fired"
  /\ i # NoInstance /\ Unused(i)
  /\ age[i] < UnloadAfter
  /\ timer'  = [timer EXCEPT ![i] = "armed"]
  /\ left'   = [left EXCEPT ![i] = UnloadAfter - age[i]]
  /\ cpc'    = [cpc EXCEPT ![g] = "idle"]
  /\ target' = [target EXCEPT ![g] = NoName]
  /\ UNCHANGED <<loaded, alive, inflight, age, label, userVars, victim>>

(* maybeUnload removes the entry and gives the lock up...                  *)
UnloadRemoves(g) ==
  LET i == loaded[target[g]] IN
  /\ cpc[g] = "fired"
  /\ i # NoInstance /\ Unused(i)
  /\ age[i] = UnloadAfter
  /\ loaded' = [loaded EXCEPT ![target[g]] = NoInstance]
  /\ cpc'    = [cpc EXCEPT ![g] = "closing"]
  /\ target' = [target EXCEPT ![g] = NoName]
  /\ victim' = [victim EXCEPT ![g] = i]
  /\ UNCHANGED <<alive, inflight, age, timer, left, label, userVars>>

(* ... and then closes the model, which waits for the model's own mutex.   *)
CloseVictim(g) ==
  /\ cpc[g] = "closing"
  /\ \A u \in Users : upc[u] = "inferring" => have[u] # victim[g]
  /\ alive'  = [alive EXCEPT ![victim[g]] = FALSE]
  /\ cpc'    = [cpc EXCEPT ![g] = "idle"]
  /\ victim' = [victim EXCEPT ![g] = NoInstance]
  /\ UNCHANGED <<loaded, inflight, age, timer, left, label, userVars, target>>

(* The monotonic clock.                                                    *)
Tick ==
  /\ age'  = [i \in Instances |-> Min2(age[i] + 1, UnloadAfter)]
  /\ left' = [i \in Instances |-> IF left[i] = 0 THEN 0 ELSE left[i] - 1]
  /\ UNCHANGED <<loaded, alive, inflight, timer, label, userVars, callVars>>
-----------------------------------------------------------------------------
UserStep(u) ==
  \/ \E n \in Names : AcquireHit(u, n) \/ AcquireMiss(u, n)
  \/ LoadFails(u)
  \/ \E i \in Instances : LoadReturns(u, i)
  \/ InsertFirst(u) \/ InsertSecond(u)
  \/ StartInference(u) \/ EndInference(u)
  \/ Release(u)

CallbackStep(g) ==
  \/ UnloadSkipped(g) \/ UnloadPostponed(g)
  \/ UnloadRemoves(g) \/ CloseVictim(g)

Next ==
  \/ \E u \in Users : UserStep(u)
  \/ \E i \in Instances, g \in Callbacks : TimerFires(i, g)
  \/ \E g \in Callbacks : CallbackStep(g)
  \/ Tick

Spec == Init /\ [][Next]_vars

(* The clock runs, the runtime starts the callback of a due timer and runs *)
(* it to its end.  Nothing is assumed of the users.                        *)
Fairness ==
  /\ WF_vars(Tick)
  /\ \A i \in Instances : WF_vars(\E g \in Callbacks : TimerFires(i, g))
  /\ \A g \in Callbacks : WF_vars(CallbackStep(g))

FairSpec == Spec /\ Fairness
-----------------------------------------------------------------------------
TypeOK ==
  /\ loaded   \in [Names -> Instances \cup {NoInstance}]
  /\ alive    \in [Instances -> BOOLEAN]
  /\ inflight \in [Instances -> Nat]
  /\ age      \in [Instances -> 0..UnloadAfter]
  /\ timer    \in [Instances -> {"nil", "armed", "spent"}]
  /\ left     \in [Instances -> 0..UnloadAfter]
  /\ label    \in [Instances -> Names \cup {NoName}]
  /\ upc      \in [Users -> {"idle", "loading", "loaded"} \cup Holding]
  /\ want     \in [Users -> Names \cup {NoName}]
  /\ have     \in [Users -> Instances \cup {NoInstance}]
  /\ cpc      \in [Callbacks -> {"idle", "fired", "closing"}]
  /\ target   \in [Callbacks -> Names \cup {NoName}]
  /\ victim   \in [Callbacks -> Instances \cup {NoInstance}]

(* What the comment on cacheEntry promises: a holder returned by acquire   *)
(* never has the model freed under it, nor its entry taken out of the      *)
(* cache, whatever timers and other users do between acquire and release.  *)
HeldIsResident ==
  \A u \in Users : upc[u] \in Holding =>
    /\ have[u] # NoInstance
    /\ loaded[want[u]] = have[u]
    /\ alive[have[u]]

(* The in-flight count of a resident entry is the number of its holders:   *)
(* too high and the model is never unloaded, too low and it is freed early.*)
InflightCountsHolders ==
  \A n \in Names : loaded[n] # NoInstance =>
    inflight[loaded[n]] = Cardinality(Holders(loaded[n]))

(* A resident entry without holders has a timer object, so the Reset in    *)
(* maybeUnload never meets nil; and the timer is due no later than         *)
(* UnloadAfter past the last use, or a callback for the name is on its     *)
(* way.  Else the model would stay in memory for good.                     *)
IdleIsScheduled ==
  \A n \in Names :
    LET i == loaded[n] IN
    UnloadAfter > 0 /\ i # NoInstance /\ inflight[i] = 0 =>
      /\ timer[i] # "nil"
      /\ \/ timer[i] = "armed" /\ left[i] + age[i] <= UnloadAfter
         \/ \E g \in Callbacks : cpc[g] = "fired" /\ target[g] = n

(* Every allocated model is cached, or in the hands of exactly one         *)
(* goroutine that will cache or close it: two racing loads of one name     *)
(* leave no second copy of the model behind, and none is closed twice.     *)
Loaders(i)  == {u \in Users : upc[u] = "loaded" /\ have[u] = i}
Closers(i)  == {g \in Callbacks : cpc[g] = "closing" /\ victim[g] = i}
Entries(i)  == {n \in Names : loaded[n] = i}
ModelsAreOwned ==
  \A i \in Instances :
    Cardinality(Loaders(i)) + Cardinality(Closers(i)) + Cardinality(Entries(i))
      = IF alive[i] THEN 1 ELSE 0

(* An idle model is unloaded, or used again, in the end.                   *)
IdleModelsGo ==
  \A n \in Names, i \in Instances :
    loaded[n] = i /\ inflight[i] = 0 ~> loaded[n] # i \/ inflight[i] > 0

(* What callers see of the cache: names with a model, and who leases them. *)
residentNames == {n \in Names : loaded[n] # NoInstance}
leasesOf      == [n \in Names |-> {u \in Users : upc[u] \in Holding /\ want[u] = n}]

Lease == INSTANCE ModelLease WITH resident <- residentNames, leases <- leasesOf

(* Every step of the cache is a lease, a return or an eviction of an       *)
(* unleased model, or changes nothing a caller can see.                    *)
ImplementsModelLease == Lease!Spec
=============================================================================

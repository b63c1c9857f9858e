----------------------------- MODULE ModelLease -----------------------------
(***************************************************************************)
(* What the model cache promises its callers, without entries, counters or *)
(* timers: models are leased by name; a model that is resident stays so    *)
(* while anybody leases it, and only an unleased one may be evicted.       *)
(* ModelCache implements this specification (MCModelCache).                *)
(***************************************************************************)
CONSTANTS Users, Names

VARIABLES
  resident,  \* names whose model is in the cache
  leases     \* leases[n]: the users between acquire(n) and release(n)

vars == <<resident, leases>>

Init == resident = {} /\ leases = [n \in Names |-> {}]

(* acquire succeeds: the model is resident from here on.                   *)
Lease(u, n) ==
  /\ \A m \in Names : u \notin leases[m]
  /\ leases'   = [leases EXCEPT ![n] = @ \cup {u}]
  /\ resident' = resident \cup {n}

(* release.                                                                *)
Return(u, n) ==
  /\ u \in leases[n]
  /\ leases' = [leases EXCEPT ![n] = @ \ {u}]
  /\ UNCHANGED resident

(* maybeUnload.                                                            *)
Evict(n) ==
  /\ n \in resident
  /\ leases[n] = {}
  /\ resident' = resident \ {n}
  /\ UNCHANGED leases

Next ==
  \/ \E u \in Users, n \in Names : Lease(u, n) \/ Return(u, n)
  \/ \E n \in Names : Evict(n)

Spec == Init /\ [][Next]_vars
=============================================================================

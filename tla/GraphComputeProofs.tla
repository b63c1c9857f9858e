------------------------- MODULE GraphComputeProofs -------------------------
(***************************************************************************)
(* Proofs about Threadpool, for any number of threads and any program: the *)
(* barrier keeps all threads on the same node, and no chunk of a product   *)
(* is computed twice.  Then that GraphCompute implements Threadpool:       *)
(* computing a graph whose tensors lie where the allocator has put them is *)
(* a behaviour of the thread pool on the program that the graph stands     *)
(* for, so what is proved of the pool holds of every graph.                *)
(*                                                                         *)
(* And about GraphAlloc, for any graphs, batches and sizes: while a plan   *)
(* is made, tensors that are still needed share no memory, and the free    *)
(* lists are exactly what they leave.                                      *)
(*                                                                         *)
(* From both, and from the plan that is kept for smaller batches: nobody   *)
(* reads what has not been computed yet, or is overwritten already.        *)
(***************************************************************************)
EXTENDS GraphCompute, FiniteSetTheorems, SequenceTheorems, TLAPS

\* The pool: its barrier.
InBarrier(t) == pc[t] \in {"enter", "add", "reset", "pass", "spin"}

Pcs == {"new", "kickoff", "done", "join", "returned",
        "none", "idle", "poll", "lock", "check", "exited",
        "rows", "matmul", "chunk", "fetch", "enter", "add", "reset", "pass", "spin"}

PlacesOK ==
  /\ pc \in [Threads -> Pcs]
  /\ node_n \in [Threads -> Nat] /\ n_passed \in [Threads -> Nat]
  /\ after \in [Threads -> {"next", "chunk", "done"}]
  /\ last_graph \in [Threads -> {0, 1}]

TPTypeOK ==
  /\ cgraph \in Seq(ProgramNode)
  /\ n_graph \in {0, 1}
  /\ n_barrier \in Nat /\ n_barrier_passed \in Nat
  /\ PlacesOK

\* Threads work on nodes of the program.
NodesExist ==
  \A t \in Threads :
    AtWork(t) \/ (InBarrier(t) /\ after[t] = "chunk") => node_n[t] \in DOMAIN cgraph

\* Before the kickoff nobody is in the graph, and who is has begun it.
Begun ==
  /\ n_graph = 0 <=> pc[0] \in {"new", "kickoff"}
  /\ \A w \in Workers :
       /\ n_graph = 0 => last_graph[w] = 0 /\ ~AtWork(w) /\ ~InBarrier(w)
       /\ AtWork(w) \/ InBarrier(w) => last_graph[w] = n_graph
----
\* The barrier: who waits in it has been counted, and not been let go yet.
Waits(t) == pc[t] \in {"reset", "pass"} \/ (pc[t] = "spin" /\ n_passed[t] = n_barrier_passed)
Waiters == {t \in Threads : Waits(t)}
Ends(t) == pc[t] \in {"reset", "pass"}

\* Nobody passes the barrier between the two accesses of one who enters.
EntersNow == \A t \in Threads : pc[t] = "add" => n_passed[t] = n_barrier_passed

\* The thread that ends the barrier is alone in that, and all others wait.
LastEnds ==
  \A t \in Threads : Ends(t) => \A u \in Threads : Waits(u) /\ (Ends(u) => u = t)

CountIsExact ==
  /\ (\A t \in Threads : pc[t] # "pass") => n_barrier = Cardinality(Waiters)
  /\ \A t \in Threads : pc[t] = "pass" => n_barrier = 0

BarrierInv == EntersNow /\ LastEnds /\ CountIsExact
----
\* Stages of a program p: work on a node, or the barrier after it.
Remaining(p, n) == {m \in n .. Len(p) : p[m].op # "nop"}
Soonest(p, n) == CHOOSE m \in Remaining(p, n) : \A k \in Remaining(p, n) : m <= k

End == <<"end", 0>>
Gate(a, n) == IF a = "done" THEN <<"done", 0>> ELSE <<a, n>>
Work(kind, n) == <<kind, n>>
WorkStages == {"rows", "matmul", "product"} \X Nat

From(p, n) == IF Remaining(p, n) = {} THEN Gate("done", 0)
              ELSE Work(p[Soonest(p, n)].op, Soonest(p, n))

\* The stage behind a barrier, and the barrier behind a stage.
Beyond(p, g) ==
  IF g[1] = "next" THEN From(p, g[2] + 1)
  ELSE IF g[1] = "chunk" THEN Work("product", g[2]) ELSE End

Exit(p, s) ==
  IF s \notin WorkStages THEN s
  ELSE IF s[1] = "matmul" THEN Gate("chunk", s[2])
  ELSE LET n == s[2] + p[s[2]].fused IN IF n < Len(p) THEN Gate("next", n) ELSE Gate("done", 0)

\* A thread that was let go, or kicked off, and has not seen it yet,
\* counts as being where that will take it.
LetGo(t) == pc[t] = "spin" /\ n_passed[t] # n_barrier_passed
Here(t) == Gate(after[t], node_n[t])
Stage(t) ==
  IF AtWork(t) THEN Work(IF pc[t] \in {"chunk", "fetch"} THEN "product" ELSE pc[t], node_n[t])
  ELSE IF LetGo(t) THEN Beyond(cgraph, Here(t))
  ELSE IF InBarrier(t) THEN Here(t)
  ELSE IF t \in Workers /\ NewGraph(t) THEN From(cgraph, 1)
  ELSE End

\* All threads are in one stage, or in the barrier that ends it.
SameStage(p, s, r) == s = r \/ Exit(p, s) = r \/ s = Exit(p, r)
InStep == \A t, u \in Threads : SameStage(cgraph, Stage(t), Stage(u))

\* NodesInStep is not inductive by itself: that nobody is ahead rests on
\* the barrier's count, and on where the threads inside of it go on.
IInv == TPTypeOK /\ NodesExist /\ Begun /\ BarrierInv /\ InStep
----
\* Every set of natural numbers that is not empty has a least one.
LEMMA LeastNumber ==
  ASSUME NEW S, S \subseteq Nat, S # {}
  PROVE  \E m \in S : \A k \in S : m <= k
<1> DEFINE Below == {0 .. m : m \in S}
<1> DEFINE Order == StrictSubsetOrdering(Nat)
<1>1. Below \subseteq FiniteSubsetsOf(Nat) /\ Below # {}
  <2>1. \A m \in S : 0 .. m \in SUBSET Nat /\ IsFiniteSet(0 .. m) BY FS_Interval
  <2> QED BY <2>1 DEF FiniteSubsetsOf
<1>2. IsWellFoundedOn(Order, FiniteSubsetsOf(Nat)) BY FS_StrictSubsetOrderingWellFounded
<1>3. PICK b \in Below : \A c \in Below : <<c, b>> \notin Order
  <2> HIDE DEF Below, Order
  <2> QED BY <1>1, <1>2, WFMin
<1>4. PICK m \in S : b = 0 .. m BY <1>3
<1>5. ASSUME NEW k \in S, k < m
      PROVE  FALSE
  <2>1. 0 .. k \subseteq b /\ 0 .. k # b BY <1>4, <1>5
  <2>2. <<0 .. k, b>> \in Order BY <2>1, <1>4 DEF StrictSubsetOrdering
  <2> QED BY <1>3, <2>2
<1> QED BY <1>5

\* The next node with work is a node of the program, and work for threads.
LEMMA SoonestExists ==
  ASSUME NEW p \in Seq(ProgramNode), NEW n \in Nat, n > 0, Remaining(p, n) # {}
  PROVE  /\ Soonest(p, n) \in DOMAIN p
         /\ p[Soonest(p, n)].op \in {"rows", "matmul"}
<1>1. Remaining(p, n) \subseteq Nat BY DEF Remaining
<1>2. Soonest(p, n) \in Remaining(p, n) BY <1>1, LeastNumber DEF Soonest
<1>3. Soonest(p, n) \in DOMAIN p /\ p[Soonest(p, n)].op # "nop" BY <1>2 DEF Remaining
<1>4. p[Soonest(p, n)] \in ProgramNode BY <1>3
<1> QED BY <1>3, <1>4 DEF ProgramNode

\* What a thread does that arrives at stage s.
Arrives(t, s) ==
  \/ /\ s = Gate("done", 0)
     /\ pc' = [pc EXCEPT ![t] = "enter"]
     /\ after' = [after EXCEPT ![t] = "done"]
     /\ node_n' = node_n
  \/ \E m \in DOMAIN cgraph :
       /\ cgraph[m].op \in {"rows", "matmul"}
       /\ s = Work(cgraph[m].op, m)
       /\ pc' = [pc EXCEPT ![t] = cgraph[m].op]
       /\ node_n' = [node_n EXCEPT ![t] = m]
       /\ after' = after

\* A thread that arrives at node n arrives at the stage found from there.
LEMMA ArriveFrom ==
  ASSUME cgraph \in Seq(ProgramNode), NEW t \in Threads, NEW n \in Nat, n > 0, Arrive(t, n)
  PROVE  Arrives(t, From(cgraph, n))
<1>1. Upcoming(n) = Remaining(cgraph, n) BY DEF Upcoming, HasWork, Remaining
<1>2. CASE Remaining(cgraph, n) = {} BY <1>1, <1>2 DEF Arrive, Arrives, From, Go
<1>3. CASE Remaining(cgraph, n) # {}
  <2>1. /\ node_n' = [node_n EXCEPT ![t] = Soonest(cgraph, n)]
        /\ Go(t, cgraph[Soonest(cgraph, n)].op)
        /\ after' = after BY <1>1, <1>3 DEF Arrive, Soonest
  <2> QED BY <2>1, <1>3, SoonestExists DEF Arrives, From, Go
<1> QED BY <1>2, <1>3

\* What a thread does that leaves the barrier for stage s.
Departs(t, s) ==
  \/ Arrives(t, s)
  \/ /\ node_n[t] \in DOMAIN cgraph /\ s = Work("product", node_n[t])
     /\ pc' = [pc EXCEPT ![t] = "chunk"]
     /\ UNCHANGED <<node_n, after>>
  \/ /\ s = End
     /\ pc' = [pc EXCEPT ![t] = IF t = 0 THEN "done" ELSE "idle"]
     /\ UNCHANGED <<node_n, after>>

\* A thread that leaves a barrier arrives at the stage beyond it.
LEMMA DepartBeyond ==
  ASSUME TPTypeOK, NodesExist, NEW t \in Threads, InBarrier(t), Depart(t)
  PROVE  Departs(t, Beyond(cgraph, Here(t)))
<1> USE DEF TPTypeOK, PlacesOK
<1>1. CASE after[t] = "next"
  <2>1. Arrive(t, node_n[t] + 1) BY <1>1 DEF Depart
  <2>2. Arrives(t, From(cgraph, node_n[t] + 1)) BY <2>1, ArriveFrom
  <2> QED BY <1>1, <2>2 DEF Departs, Beyond, Here, Gate
<1>2. CASE after[t] = "chunk" BY <1>2 DEF Depart, Departs, Beyond, Here, Gate, Go, NodesExist
<1>3. CASE after[t] = "done" BY <1>3 DEF Depart, Departs, Beyond, Here, Gate, Go
<1> QED BY <1>1, <1>2, <1>3

\* A thread that ends its share of a node enters the barrier after it.
LEMMA LeaveExits ==
  ASSUME TPTypeOK, NEW t \in Threads, node_n[t] \in DOMAIN cgraph, Leave(t),
         NEW kind \in {"rows", "product"}
  PROVE  \E a \in {"next", "done"}, n \in Nat :
           /\ pc' = [pc EXCEPT ![t] = "enter"]
           /\ after' = [after EXCEPT ![t] = a]
           /\ node_n' = [node_n EXCEPT ![t] = n]
           /\ Gate(a, n) = Exit(cgraph, Work(kind, node_n[t]))
<1> USE DEF TPTypeOK, PlacesOK
<1> DEFINE k == node_n[t] + cgraph[node_n[t]].fused
<1>1. k \in Nat
  <2>1. cgraph[node_n[t]] \in ProgramNode OBVIOUS
  <2> QED BY <2>1 DEF ProgramNode
<1>2. Work(kind, node_n[t]) \in WorkStages BY DEF Work, WorkStages
<1>3. CASE k < Len(cgraph)
  <2>1. Exit(cgraph, Work(kind, node_n[t])) = Gate("next", k) BY <1>2, <1>3 DEF Exit, Work
  <2> QED BY <2>1, <1>1, <1>3 DEF Leave, Go
<1>4. CASE ~(k < Len(cgraph))
  <2>1. Exit(cgraph, Work(kind, node_n[t])) = Gate("done", 0) BY <1>2, <1>4 DEF Exit, Work
  <2>2. Arrive(t, k + 1) BY <1>4 DEF Leave
  <2>3. Arrives(t, From(cgraph, k + 1)) BY <1>1, <2>2, ArriveFrom
  <2>4. From(cgraph, k + 1) = Gate("done", 0) BY <1>1, <1>4 DEF From, Remaining
  <2>5. /\ pc' = [pc EXCEPT ![t] = "enter"]
        /\ after' = [after EXCEPT ![t] = "done"]
        /\ node_n' = node_n BY <2>3, <2>4 DEF Arrives, Gate, Work
  <2>6. node_n' = [node_n EXCEPT ![t] = node_n[t]] BY <2>5
  <2> QED BY <2>1, <2>5, <2>6 DEF Gate
<1> QED BY <1>3, <1>4
----
\* Steps of one thread that leave the barrier and the others alone.
OnlyMoves(t) ==
  /\ UNCHANGED <<cgraph, n_graph, n_barrier_passed>>
  /\ \A u \in Threads \ {t} :
       /\ pc'[u] = pc[u] /\ node_n'[u] = node_n[u] /\ n_passed'[u] = n_passed[u]
       /\ after'[u] = after[u] /\ last_graph'[u] = last_graph[u]
  /\ PlacesOK'

NodeExists(t) ==
  AtWork(t) \/ (InBarrier(t) /\ after[t] = "chunk") => node_n[t] \in DOMAIN cgraph

HasBegun(t) ==
  /\ t = 0 => pc[t] \notin {"new", "kickoff"} /\ n_graph # 0
  /\ t \in Workers /\ n_graph = 0 => last_graph[t] = 0
  /\ t \in Workers /\ (AtWork(t) \/ InBarrier(t)) => last_graph[t] = n_graph /\ n_graph # 0

Aside(t) ==
  /\ ~Waits(t) /\ pc[t] # "add"
  /\ pc'[t] \notin {"reset", "pass", "spin"}
  /\ pc'[t] = "add" => n_passed'[t] = n_barrier_passed

Local(t) ==
  /\ OnlyMoves(t) /\ Aside(t) /\ n_barrier' = n_barrier
  /\ pc[0] \in {"new", "kickoff"} => t # 0
  /\ NodeExists(t)' /\ HasBegun(t)'
  /\ Stage(t)' \in {Stage(t), Exit(cgraph, Stage(t))}

\* The step of one thread keeps the types when it keeps those of places.
LEMMA OnlyMovesTypes ==
  ASSUME TPTypeOK, NEW t \in Threads, OnlyMoves(t), n_barrier' \in Nat
  PROVE  TPTypeOK'
BY DEF TPTypeOK, PlacesOK, OnlyMoves

\* The step of one thread leaves the places and stages of the others.
LEMMA OthersStay ==
  ASSUME TPTypeOK, NEW t \in Threads, OnlyMoves(t), NEW u \in Threads, u # t
  PROVE  /\ pc'[u] = pc[u] /\ node_n'[u] = node_n[u] /\ n_passed'[u] = n_passed[u]
         /\ after'[u] = after[u] /\ last_graph'[u] = last_graph[u]
         /\ Stage(u)' = Stage(u)
<1>1. /\ pc'[u] = pc[u] /\ node_n'[u] = node_n[u] /\ n_passed'[u] = n_passed[u]
      /\ after'[u] = after[u] /\ last_graph'[u] = last_graph[u] BY DEF TPTypeOK, PlacesOK, OnlyMoves
<1>2. Stage(u)' = Stage(u) BY <1>1 DEF OnlyMoves, Stage, AtWork, LetGo, InBarrier, NewGraph, Here
<1> QED BY <1>1, <1>2

\* A step of one thread keeps the others in existing nodes, and begun.
LEMMA OthersNodes ==
  ASSUME TPTypeOK, NodesExist, Begun, NEW t \in Threads, OnlyMoves(t),
         NodeExists(t)', HasBegun(t)',
         pc[0] \in {"new", "kickoff"} => t # 0
  PROVE  NodesExist' /\ Begun'
<1>1. NodesExist'
  <2> SUFFICES ASSUME NEW u \in Threads PROVE NodeExists(u)' BY DEF NodesExist, NodeExists
  <2>1. CASE u = t BY <2>1
  <2>2. CASE u # t BY <2>2, OthersStay DEF NodesExist, NodeExists, OnlyMoves, AtWork, InBarrier
  <2> QED BY <2>1, <2>2
<1>2. 0 \in Threads /\ Workers \subseteq Threads BY ThreadAssumption DEF Threads, Workers
<1>3. (n_graph = 0 <=> pc[0] \in {"new", "kickoff"})'
  <2>1. CASE t = 0 BY <2>1 DEF HasBegun, Begun, OnlyMoves
  <2>2. CASE t # 0 BY <2>2, <1>2, OthersStay DEF Begun, OnlyMoves
  <2> QED BY <2>1, <2>2
<1>4. ASSUME NEW w \in Workers
      PROVE  (/\ n_graph = 0 => last_graph[w] = 0 /\ ~AtWork(w) /\ ~InBarrier(w)
              /\ AtWork(w) \/ InBarrier(w) => last_graph[w] = n_graph)'
  <2>1. CASE w = t BY <2>1, <1>2 DEF HasBegun, Begun, OnlyMoves
  <2>2. CASE w # t BY <2>2, <1>2, OthersStay DEF Begun, OnlyMoves, AtWork, InBarrier
  <2> QED BY <2>1, <2>2
<1> QED BY <1>1, <1>3, <1>4 DEF Begun

\* A step outside of the barrier keeps the barrier in order.
LEMMA OthersBarrier ==
  ASSUME TPTypeOK, BarrierInv, NEW t \in Threads, OnlyMoves(t), Aside(t),
         n_barrier' = n_barrier
  PROVE  BarrierInv'
<1>1. pc'[t] \in {"reset", "pass", "spin"} <=> FALSE BY DEF Aside
<1>2. \A u \in Threads : Waits(u)' <=> Waits(u)
  <2> SUFFICES ASSUME NEW u \in Threads PROVE Waits(u)' <=> Waits(u) OBVIOUS
  <2>1. CASE u = t BY <2>1, <1>1 DEF Waits, Aside
  <2>2. CASE u # t BY <2>2, OthersStay DEF Waits, OnlyMoves
  <2> QED BY <2>1, <2>2
<1>3. Waiters' = Waiters BY <1>2 DEF Waiters
<1>4. \A u \in Threads : /\ Ends(u)' <=> Ends(u)
                         /\ pc'[u] = "pass" <=> pc[u] = "pass"
  <2> SUFFICES ASSUME NEW u \in Threads
               PROVE  (Ends(u)' <=> Ends(u)) /\ (pc'[u] = "pass" <=> pc[u] = "pass")
    OBVIOUS
  <2>1. CASE u = t BY <2>1, <1>1 DEF Waits, Ends, Aside
  <2>2. CASE u # t BY <2>2, OthersStay DEF Ends
  <2> QED BY <2>1, <2>2
<1>5. EntersNow'
  <2> SUFFICES ASSUME NEW u \in Threads, pc'[u] = "add"
               PROVE  n_passed'[u] = n_barrier_passed'
    BY DEF EntersNow
  <2>1. CASE u = t BY <2>1 DEF Aside, OnlyMoves
  <2>2. CASE u # t BY <2>2, OthersStay DEF BarrierInv, EntersNow, OnlyMoves
  <2> QED BY <2>1, <2>2
<1>6. LastEnds' BY <1>2, <1>4 DEF BarrierInv, LastEnds
<1>7. CountIsExact' BY <1>3, <1>4 DEF BarrierInv, CountIsExact
<1> QED BY <1>5, <1>6, <1>7 DEF BarrierInv

\* The barrier behind a stage is a stage of its own.
LEMMA ExitIsGate ==
  ASSUME NEW p, NEW s
  PROVE  Exit(p, Exit(p, s)) = Exit(p, s)
<1>1. CASE s \notin WorkStages BY <1>1 DEF Exit
<1>2. CASE s \in WorkStages
  <2>1. \A n : Gate("chunk", n) \notin WorkStages /\ Gate("next", n) \notin WorkStages
               /\ Gate("done", n) \notin WorkStages BY DEF Gate, WorkStages
  <2>2. Exit(p, s) \notin WorkStages BY <1>2, <2>1 DEF Exit
  <2> QED BY <2>2 DEF Exit
<1> QED BY <1>1, <1>2

\* A thread that stays in its stage, or exits to its gate, stays in step.
LEMMA OthersInStep ==
  ASSUME TPTypeOK, InStep, NEW t \in Threads, OnlyMoves(t),
         Stage(t)' \in {Stage(t), Exit(cgraph, Stage(t))}
  PROVE  InStep'
<1> SUFFICES ASSUME NEW u \in Threads, NEW v \in Threads
             PROVE  SameStage(cgraph, Stage(u)', Stage(v)')
  BY DEF InStep, OnlyMoves
<1>1. SameStage(cgraph, Stage(u), Stage(v)) BY DEF InStep
<1>2. \A x \in Threads : x = t \/ Stage(x)' = Stage(x) BY OthersStay
<1>3. Stage(u)' \in {Stage(u), Exit(cgraph, Stage(u))} BY <1>2
<1>4. Stage(v)' \in {Stage(v), Exit(cgraph, Stage(v))} BY <1>2
<1>5. ASSUME NEW s, NEW r, SameStage(cgraph, s, r),
             NEW s1 \in {s, Exit(cgraph, s)}, NEW r1 \in {r, Exit(cgraph, r)}
      PROVE  SameStage(cgraph, s1, r1)
  BY <1>5, ExitIsGate DEF SameStage
<1> QED BY <1>1, <1>3, <1>4, <1>5

\* A local step keeps the whole invariant.
LEMMA LocalKeeps ==
  ASSUME IInv, NEW t \in Threads, Local(t)
  PROVE  IInv'
<1>1. TPTypeOK'
  <2>1. n_barrier' \in Nat BY DEF IInv, Local, TPTypeOK
  <2> QED BY <2>1, OnlyMovesTypes DEF IInv, Local
<1>2. NodesExist' /\ Begun' BY OthersNodes DEF IInv, Local
<1>3. BarrierInv' BY OthersBarrier DEF IInv, Local
<1>4. InStep' BY OthersInStep DEF IInv, Local
<1> QED BY <1>1, <1>2, <1>3, <1>4 DEF IInv
----
\* Who is in the graph has been kicked off.
LEMMA InGraph ==
  ASSUME Begun, NEW t \in Threads, AtWork(t) \/ InBarrier(t)
  PROVE  /\ n_graph # 0 /\ pc[0] \notin {"new", "kickoff"}
         /\ t \in Workers => last_graph[t] = n_graph
<1>1. CASE t = 0 BY <1>1 DEF Begun, AtWork, InBarrier, Workers
<1>2. CASE t # 0
  <2>1. t \in Workers BY <1>2, ThreadAssumption DEF Threads, Workers
  <2> QED BY <2>1 DEF Begun
<1> QED BY <1>1, <1>2

WaitPcs == {"idle", "poll", "lock", "check"}

\* A worker that goes on waiting makes a local step.
LEMMA WaitIsLocal ==
  ASSUME IInv, NEW w \in Workers, pc[w] \in WaitPcs, NEW where \in WaitPcs \cup {"exited"},
         Go(w, where), UNCHANGED <<waitVars, node_n, after, last_graph>>
  PROVE  Local(w) /\ Stage(w)' = Stage(w)
<1> USE DEF IInv, TPTypeOK, PlacesOK, waitVars, WaitPcs, Go
<1>1. w \in Threads /\ w # 0 BY ThreadAssumption DEF Threads, Workers
<1>2. OnlyMoves(w) BY <1>1 DEF OnlyMoves, Pcs
<1>3. Aside(w) BY <1>1 DEF Aside, Waits
<1>4. NodeExists(w)' /\ HasBegun(w)' BY <1>1 DEF NodeExists, HasBegun, AtWork, InBarrier, Begun
<1>5. Stage(w)' = Stage(w) BY <1>1 DEF Stage, AtWork, LetGo, InBarrier, NewGraph
<1> QED BY <1>1, <1>2, <1>3, <1>4, <1>5 DEF Local

\* A worker that finds the graph is where the kickoff has put it.
LEMMA BeginIsLocal ==
  ASSUME IInv, NEW w \in Workers, pc[w] \in WaitPcs, NewGraph(w), Begin(w), UNCHANGED waitVars
  PROVE  Local(w) /\ Stage(w)' = Stage(w)
<1> USE DEF IInv, TPTypeOK, PlacesOK, waitVars, WaitPcs
<1>1. w \in Threads /\ w # 0 BY ThreadAssumption DEF Threads, Workers
<1>2. Arrives(w, From(cgraph, 1)) /\ last_graph' = [last_graph EXCEPT ![w] = n_graph]
  BY <1>1, ArriveFrom DEF Begin
<1>3. Stage(w) = From(cgraph, 1) BY <1>1 DEF Stage, AtWork, LetGo, InBarrier
<1>4. n_graph # 0 BY DEF Begun, NewGraph
<1>5. CASE /\ From(cgraph, 1) = Gate("done", 0)
           /\ pc' = [pc EXCEPT ![w] = "enter"]
           /\ after' = [after EXCEPT ![w] = "done"]
           /\ node_n' = node_n
  <2>1. OnlyMoves(w) BY <1>1, <1>2, <1>5 DEF OnlyMoves, Pcs
  <2>2. Aside(w) BY <1>1, <1>5 DEF Aside, Waits
  <2>3. NodeExists(w)' /\ HasBegun(w)' BY <1>1, <1>2, <1>4, <1>5 DEF NodeExists, HasBegun, AtWork, InBarrier
  <2>4. Stage(w)' = From(cgraph, 1) BY <1>1, <1>5 DEF Stage, AtWork, LetGo, InBarrier, Here, Gate
  <2> QED BY <1>1, <1>3, <2>1, <2>2, <2>3, <2>4 DEF Local
<1>6. ASSUME NEW m \in DOMAIN cgraph,
             cgraph[m].op \in {"rows", "matmul"},
             From(cgraph, 1) = Work(cgraph[m].op, m),
             pc' = [pc EXCEPT ![w] = cgraph[m].op],
             node_n' = [node_n EXCEPT ![w] = m],
             after' = after
      PROVE  Local(w) /\ Stage(w)' = Stage(w)
  <2>1. OnlyMoves(w) BY <1>1, <1>2, <1>6 DEF OnlyMoves, Pcs
  <2>2. Aside(w) BY <1>1, <1>6 DEF Aside, Waits
  <2>3. NodeExists(w)' /\ HasBegun(w)' BY <1>1, <1>2, <1>4, <1>6 DEF NodeExists, HasBegun, AtWork, InBarrier
  <2>4. Stage(w)' = From(cgraph, 1) BY <1>1, <1>6 DEF Stage, AtWork
  <2> QED BY <1>1, <1>3, <2>1, <2>2, <2>3, <2>4 DEF Local
<1> QED BY <1>2, <1>5, <1>6 DEF Arrives

\* All steps of a waiting worker are local.
LEMMA WaitingIsLocal ==
  ASSUME IInv, NEW w \in Workers, Waiting(w)
  PROVE  Local(w) /\ Stage(w)' = Stage(w)
<1>1. CASE CheckStop(w) BY <1>1, WaitIsLocal DEF CheckStop, WaitPcs
<1>2. CASE PollFinds(w) BY <1>2, BeginIsLocal DEF PollFinds, WaitPcs
<1>3. CASE PollEnds(w) BY <1>3, WaitIsLocal DEF PollEnds, WaitPcs
<1>4. CASE Lock(w) BY <1>4, WaitIsLocal DEF Lock, WaitPcs
<1>5. CASE CheckForWork(w) BY <1>5, WaitIsLocal, BeginIsLocal DEF CheckForWork, WaitPcs
<1> QED BY <1>1, <1>2, <1>3, <1>4, <1>5 DEF Waiting
----
\* A thread at work that stays on its node, or goes on to the barrier.
LEMMA WorkIsLocal ==
  ASSUME IInv, NEW t \in Threads, AtWork(t),
         UNCHANGED <<walkVars, n_barrier, n_barrier_passed, n_passed>>,
         NEW where \in {"rows", "matmul", "chunk", "fetch", "enter"},
         NEW n \in Nat, NEW a \in {"next", "chunk", "done"},
         pc' = [pc EXCEPT ![t] = where],
         node_n' = [node_n EXCEPT ![t] = n],
         after' = [after EXCEPT ![t] = a],
         where # "enter" \/ a = "chunk" => n \in DOMAIN cgraph,
         Stage(t)' \in {Stage(t), Exit(cgraph, Stage(t))}
  PROVE  Local(t)
<1> USE DEF IInv, TPTypeOK, PlacesOK, walkVars
<1>1. /\ n_graph # 0 /\ pc[0] \notin {"new", "kickoff"}
      /\ t \in Workers => last_graph[t] = n_graph BY InGraph
<1>2. OnlyMoves(t) BY DEF OnlyMoves, Pcs
<1>3. Aside(t) BY DEF Aside, Waits, AtWork
<1>4. NodeExists(t)' /\ HasBegun(t)' BY <1>1 DEF NodeExists, HasBegun, AtWork, InBarrier
<1> QED BY <1>1, <1>2, <1>3, <1>4 DEF Local

\* Leaving a node for its barrier is a local step.
LEMMA LeaveIsLocal ==
  ASSUME IInv, NEW t \in Threads, pc[t] \in {"rows", "chunk"}, Leave(t),
         UNCHANGED <<walkVars, n_barrier, n_barrier_passed, n_passed>>
  PROVE  Local(t) /\ Stage(t)' = Exit(cgraph, Stage(t))
<1> USE DEF IInv
<1> DEFINE kind == IF pc[t] = "rows" THEN "rows" ELSE "product"
<1>1. AtWork(t) /\ node_n[t] \in DOMAIN cgraph BY DEF NodesExist, AtWork
<1>2. Stage(t) = Work(kind, node_n[t]) BY <1>1 DEF Stage, AtWork
<1>3. PICK a \in {"next", "done"}, n \in Nat :
        /\ pc' = [pc EXCEPT ![t] = "enter"]
        /\ after' = [after EXCEPT ![t] = a]
        /\ node_n' = [node_n EXCEPT ![t] = n]
        /\ Gate(a, n) = Exit(cgraph, Work(kind, node_n[t])) BY <1>1, LeaveExits
<1>4. Stage(t)' = Gate(a, n) BY <1>3 DEF Stage, AtWork, LetGo, InBarrier, Here, TPTypeOK, PlacesOK
<1> QED BY <1>1, <1>2, <1>3, <1>4, WorkIsLocal

\* All steps of the work on a node are local.
LEMMA WorkingIsLocal ==
  ASSUME IInv, NEW t \in Threads,
         Rows(t) \/ Convert(t) \/ Chunk(t) \/ NextChunk(t) \/ NoMoreChunks(t)
  PROVE  Local(t)
<1> USE DEF IInv, TPTypeOK, PlacesOK
<1>1. node_n' = node_n => node_n' = [node_n EXCEPT ![t] = node_n[t]] OBVIOUS
<1>2. after' = after => after' = [after EXCEPT ![t] = after[t]] OBVIOUS
<1>3. AtWork(t) => node_n[t] \in DOMAIN cgraph BY DEF NodesExist
<1>4. CASE Rows(t) BY <1>4, LeaveIsLocal DEF Rows
<1>5. CASE Convert(t)
  <2>1. AtWork(t) /\ Stage(t) = Work("matmul", node_n[t]) BY <1>5 DEF Convert, Stage, AtWork
  <2>2. Work("matmul", node_n[t]) \in WorkStages BY DEF Work, WorkStages
  <2>3. Exit(cgraph, Stage(t)) = Gate("chunk", node_n[t]) BY <2>1, <2>2 DEF Exit, Work
  <2>4. Stage(t)' = Gate("chunk", node_n[t]) BY <1>5 DEF Convert, Go, Stage, AtWork, LetGo, InBarrier, Here
  <2> QED BY <1>1, <1>3, <1>5, <2>1, <2>3, <2>4, WorkIsLocal DEF Convert, Go
<1>6. CASE Chunk(t)
  <2>1. CASE NThreads >= Chunks(t) BY <1>6, <2>1, LeaveIsLocal DEF Chunk
  <2>2. CASE ~(NThreads >= Chunks(t))
    <3>1. /\ pc[t] = "chunk" /\ pc' = [pc EXCEPT ![t] = "fetch"]
          /\ UNCHANGED <<node_n, after>> BY <1>6, <2>2 DEF Chunk, Go
    <3>2. AtWork(t) /\ Stage(t)' = Stage(t) BY <3>1 DEF Stage, AtWork
    <3> QED BY <1>1, <1>2, <1>3, <1>6, <3>1, <3>2, WorkIsLocal DEF Chunk
  <2> QED BY <2>1, <2>2
<1>7. CASE NextChunk(t)
  <2>1. AtWork(t) /\ Stage(t)' = Stage(t) BY <1>7 DEF NextChunk, Go, Stage, AtWork
  <2> QED BY <1>1, <1>2, <1>3, <1>7, <2>1, WorkIsLocal DEF NextChunk, Go
<1>8. CASE NoMoreChunks(t) BY <1>8, LeaveIsLocal DEF NoMoreChunks
<1> QED BY <1>4, <1>5, <1>6, <1>7, <1>8
----
\* The barrier.  A thread that leaves it is in the stage beyond.
LEMMA DepartLands ==
  ASSUME IInv, NEW t \in Threads, InBarrier(t), Depart(t),
         UNCHANGED <<cgraph, n_graph, last_graph, n_passed>>
  PROVE  /\ PlacesOK'
         /\ \A u \in Threads \ {t} :
              pc'[u] = pc[u] /\ node_n'[u] = node_n[u] /\ after'[u] = after[u]
         /\ pc'[t] \notin {"add", "reset", "pass", "spin"}
         /\ NodeExists(t)' /\ HasBegun(t)'
         /\ Stage(t)' = Beyond(cgraph, Here(t))
<1> USE DEF IInv, TPTypeOK, PlacesOK
<1> DEFINE s == Beyond(cgraph, Here(t))
<1>1. /\ n_graph # 0 /\ pc[0] \notin {"new", "kickoff"}
      /\ t \in Workers => last_graph[t] = n_graph BY InGraph
<1>2. Departs(t, s) BY DepartBeyond
<1>3. ASSUME s = Gate("done", 0),
             pc' = [pc EXCEPT ![t] = "enter"],
             after' = [after EXCEPT ![t] = "done"],
             node_n' = node_n
      PROVE  /\ PlacesOK' /\ pc'[t] = "enter" /\ NodeExists(t)' /\ HasBegun(t)'
             /\ Stage(t)' = s
             /\ \A u \in Threads \ {t} :
                  pc'[u] = pc[u] /\ node_n'[u] = node_n[u] /\ after'[u] = after[u]
  BY <1>1, <1>3 DEF Pcs, NodeExists, HasBegun, AtWork, InBarrier, Stage, LetGo, Here, Gate
<1>4. ASSUME NEW m \in DOMAIN cgraph,
             cgraph[m].op \in {"rows", "matmul"},
             s = Work(cgraph[m].op, m),
             pc' = [pc EXCEPT ![t] = cgraph[m].op],
             node_n' = [node_n EXCEPT ![t] = m],
             after' = after
      PROVE  /\ PlacesOK' /\ pc'[t] \in {"rows", "matmul"} /\ NodeExists(t)' /\ HasBegun(t)'
             /\ Stage(t)' = s
             /\ \A u \in Threads \ {t} :
                  pc'[u] = pc[u] /\ node_n'[u] = node_n[u] /\ after'[u] = after[u]
  BY <1>1, <1>4 DEF Pcs, NodeExists, HasBegun, AtWork, Stage
<1>5. ASSUME node_n[t] \in DOMAIN cgraph, s = Work("product", node_n[t]),
             pc' = [pc EXCEPT ![t] = "chunk"],
             UNCHANGED <<node_n, after>>
      PROVE  /\ PlacesOK' /\ pc'[t] = "chunk" /\ NodeExists(t)' /\ HasBegun(t)'
             /\ Stage(t)' = s
             /\ \A u \in Threads \ {t} :
                  pc'[u] = pc[u] /\ node_n'[u] = node_n[u] /\ after'[u] = after[u]
  BY <1>1, <1>5 DEF Pcs, NodeExists, HasBegun, AtWork, Stage
<1>6. ASSUME s = End,
             pc' = [pc EXCEPT ![t] = IF t = 0 THEN "done" ELSE "idle"],
             UNCHANGED <<node_n, after>>
      PROVE  /\ PlacesOK' /\ pc'[t] \in {"done", "idle"} /\ NodeExists(t)' /\ HasBegun(t)'
             /\ Stage(t)' = s
             /\ \A u \in Threads \ {t} :
                  pc'[u] = pc[u] /\ node_n'[u] = node_n[u] /\ after'[u] = after[u]
  BY <1>1, <1>6 DEF Pcs, NodeExists, HasBegun, AtWork, InBarrier, Stage, LetGo, NewGraph
<1> HIDE DEF s
<1>7. CASE Arrives(t, s) BY <1>3, <1>4, <1>7 DEF Arrives, s
<1>8. CASE ~Arrives(t, s) BY <1>2, <1>5, <1>6, <1>8 DEF Departs, s
<1> QED BY <1>7, <1>8

\* Reading the count before entering is local: nobody passes before it.
LEMMA ReadPassedIsLocal ==
  ASSUME IInv, NEW t \in Threads, ReadPassed(t)
  PROVE  Local(t) /\ Stage(t)' = Stage(t)
<1> USE DEF IInv, TPTypeOK, PlacesOK, ReadPassed, walkVars, Go
<1>1. /\ n_graph # 0 /\ pc[0] \notin {"new", "kickoff"}
      /\ t \in Workers => last_graph[t] = n_graph BY InGraph DEF InBarrier
<1>2. OnlyMoves(t) BY DEF OnlyMoves, Pcs
<1>3. Aside(t) BY DEF Aside, Waits
<1>4. NodeExists(t)' /\ HasBegun(t)' BY <1>1 DEF NodeExists, HasBegun, AtWork, InBarrier, NodesExist
<1>5. Stage(t)' = Stage(t) BY DEF Stage, AtWork, LetGo, InBarrier, Here
<1> QED BY <1>1, <1>2, <1>3, <1>4, <1>5 DEF Local

\* A thread that sees it was let go is where passing has put it.
LEMMA SpinEndsIsLocal ==
  ASSUME IInv, NEW t \in Threads, SpinEnds(t)
  PROVE  Local(t) /\ Stage(t)' = Stage(t)
<1> USE DEF IInv, SpinEnds, walkVars
<1>1. /\ n_graph # 0 /\ pc[0] \notin {"new", "kickoff"}
      /\ t \in Workers => last_graph[t] = n_graph BY InGraph DEF InBarrier
<1>2. /\ PlacesOK'
      /\ \A u \in Threads \ {t} :
           pc'[u] = pc[u] /\ node_n'[u] = node_n[u] /\ after'[u] = after[u]
      /\ pc'[t] \notin {"add", "reset", "pass", "spin"}
      /\ NodeExists(t)' /\ HasBegun(t)'
      /\ Stage(t)' = Beyond(cgraph, Here(t)) BY DepartLands DEF InBarrier
<1>3. OnlyMoves(t) BY <1>2 DEF OnlyMoves
<1>4. Aside(t) BY <1>2 DEF Aside, Waits
<1>5. Stage(t)' = Stage(t) BY <1>2 DEF Stage, AtWork, LetGo
<1> QED BY <1>1, <1>2, <1>3, <1>4, <1>5 DEF Local

\* A thread that enters is counted; the last of all ends the barrier.
LEMMA AddSelfKeeps ==
  ASSUME IInv, NEW t \in Threads, AddSelf(t)
  PROVE  IInv'
<1> USE DEF IInv, BarrierInv, AddSelf, walkVars, chunkVars, Go
<1>1. /\ n_graph # 0 /\ pc[0] \notin {"new", "kickoff"}
      /\ t \in Workers => last_graph[t] = n_graph BY InGraph DEF InBarrier
<1>2. OnlyMoves(t) /\ pc'[t] \in {"reset", "spin"} BY DEF TPTypeOK, PlacesOK, OnlyMoves, Pcs
<1>3. \A u \in Threads : u # t => pc'[u] = pc[u] BY <1>2 DEF OnlyMoves
<1>4. n_passed[t] = n_barrier_passed BY DEF EntersNow
<1>5. ~Waits(t) /\ Waits(t)' BY <1>2, <1>4 DEF Waits
<1>6. \A u \in Threads : u # t => (Waits(u)' <=> Waits(u)) BY <1>3 DEF Waits
<1>7. \A u \in Threads : ~Ends(u) BY <1>5 DEF LastEnds
<1>8. IsFiniteSet(Threads) /\ Cardinality(Threads) = NThreads BY FS_Interval, ThreadAssumption DEF Threads
<1>9. Waiters \subseteq Threads /\ Waiters' \subseteq Threads BY DEF Waiters
<1>10. Waiters' = Waiters \cup {t} /\ t \notin Waiters BY <1>5, <1>6 DEF Waiters
<1>11. /\ IsFiniteSet(Waiters) /\ IsFiniteSet(Waiters')
       /\ Cardinality(Waiters') = Cardinality(Waiters) + 1 BY <1>8, <1>9, <1>10, FS_Subset, FS_AddElement
<1>12. n_barrier = Cardinality(Waiters) BY <1>7 DEF CountIsExact, Ends
<1>13. n_barrier' = Cardinality(Waiters') BY <1>11, <1>12
<1>14. pc'[t] = "reset" => Waiters' = Threads
  <2> SUFFICES ASSUME pc'[t] = "reset" PROVE Waiters' = Threads OBVIOUS
  <2>1. n_barrier = NThreads - 1 BY DEF TPTypeOK, PlacesOK
  <2>2. Cardinality(Waiters') = Cardinality(Threads) BY <2>1, <1>13, <1>8, ThreadAssumption
  <2> QED BY <2>2, <1>8, <1>9, FS_Subset
<1>15. EntersNow' BY <1>2, <1>3 DEF EntersNow
<1>16. LastEnds'
  <2>1. \A u \in Threads : Ends(u)' => u = t /\ pc'[t] = "reset" BY <1>2, <1>3, <1>7 DEF Ends
  <2> QED BY <2>1, <1>14 DEF LastEnds, Waiters
<1>17. CountIsExact'
  <2>1. \A u \in Threads : pc'[u] # "pass" BY <1>2, <1>3, <1>7 DEF Ends
  <2> QED BY <2>1, <1>13 DEF CountIsExact
<1>18. TPTypeOK' BY <1>2, OnlyMovesTypes DEF TPTypeOK
<1>19. NodesExist' /\ Begun'
  <2>1. NodeExists(t)' /\ HasBegun(t)' BY <1>1, <1>2 DEF NodeExists, HasBegun, NodesExist, AtWork, InBarrier
  <2> QED BY <1>1, <1>2, <2>1, OthersNodes
<1>20. InStep'
  <2>1. Stage(t)' = Stage(t) BY <1>2, <1>4 DEF Stage, AtWork, LetGo, InBarrier, Here
  <2> QED BY <1>2, <2>1, OthersInStep
<1> QED BY <1>15, <1>16, <1>17, <1>18, <1>19, <1>20

\* The thread that ends the barrier resets the count, while all wait.
LEMMA ResetBarrierKeeps ==
  ASSUME IInv, NEW t \in Threads, ResetBarrier(t)
  PROVE  IInv'
<1> USE DEF IInv, BarrierInv, ResetBarrier, walkVars, chunkVars, Go
<1>1. /\ n_graph # 0 /\ pc[0] \notin {"new", "kickoff"}
      /\ t \in Workers => last_graph[t] = n_graph BY InGraph DEF InBarrier
<1>2. OnlyMoves(t) /\ pc'[t] = "pass" BY DEF TPTypeOK, PlacesOK, OnlyMoves, Pcs
<1>3. \A u \in Threads : u # t => pc'[u] = pc[u] BY <1>2 DEF OnlyMoves
<1>4. \A u \in Threads : (Waits(u)' <=> Waits(u)) /\ (Ends(u)' <=> Ends(u)) BY <1>2, <1>3 DEF Waits, Ends
<1>5. EntersNow' /\ LastEnds' BY <1>2, <1>3, <1>4 DEF EntersNow, LastEnds
<1>6. CountIsExact' BY <1>2 DEF CountIsExact
<1>7. TPTypeOK' BY <1>2, OnlyMovesTypes
<1>8. NodesExist' /\ Begun'
  <2>1. NodeExists(t)' /\ HasBegun(t)' BY <1>1, <1>2 DEF NodeExists, HasBegun, NodesExist, AtWork, InBarrier
  <2> QED BY <1>1, <1>2, <2>1, OthersNodes
<1>9. InStep'
  <2>1. Stage(t)' = Stage(t) BY <1>2 DEF Stage, AtWork, LetGo, InBarrier, Here
  <2> QED BY <1>2, <2>1, OthersInStep
<1> QED BY <1>5, <1>6, <1>7, <1>8, <1>9

\* Passing the barrier lets all others go at once: all waited at the same
\* gate, so all are in the stage beyond it.
LEMMA PassTogether ==
  ASSUME IInv, NEW t \in Threads, PassBarrier(t)
  PROVE  \A u \in Threads :
           /\ u # t => pc[u] = "spin" /\ n_passed[u] = n_barrier_passed
           /\ Stage(u) = Here(u) /\ Here(u) = Here(t)
           /\ Stage(u)' = Beyond(cgraph, Here(t))
<1> USE DEF IInv, BarrierInv, PassBarrier, walkVars
<1>1. /\ \A u \in Threads \ {t} :
           pc'[u] = pc[u] /\ node_n'[u] = node_n[u] /\ after'[u] = after[u]
      /\ Stage(t)' = Beyond(cgraph, Here(t)) BY DepartLands DEF InBarrier
<1>2. \A u \in Threads \ {t} : pc[u] = "spin" /\ n_passed[u] = n_barrier_passed BY DEF LastEnds, Ends, Waits
<1>3. n_barrier_passed' # n_barrier_passed BY DEF TPTypeOK
<1>4. \A u \in Threads : Stage(u) = Here(u) BY <1>2 DEF Stage, AtWork, LetGo, InBarrier
<1>5. \A u \in Threads : Exit(cgraph, Here(u)) = Here(u)
  <2>1. \A a, n : a \in {"next", "chunk", "done"} => Gate(a, n) \notin WorkStages BY DEF Gate, WorkStages
  <2> QED BY <2>1 DEF Exit, Here, TPTypeOK, PlacesOK
<1>6. \A u \in Threads : Here(u) = Here(t) BY <1>4, <1>5 DEF InStep, SameStage
<1>7. ASSUME NEW u \in Threads, u # t PROVE Stage(u)' = Beyond(cgraph, Here(t))
  <2>1. Stage(u)' = Beyond(cgraph, Here(u)) BY <1>1, <1>2, <1>3, <1>7 DEF Stage, AtWork, LetGo, Here
  <2> QED BY <2>1, <1>6
<1> QED BY <1>1, <1>2, <1>4, <1>6, <1>7

\* That keeps the invariant: nobody is in the barrier now.
LEMMA PassBarrierKeeps ==
  ASSUME IInv, NEW t \in Threads, PassBarrier(t)
  PROVE  IInv'
<1> USE DEF IInv, BarrierInv, PassBarrier, walkVars
<1>1. /\ n_graph # 0 /\ pc[0] \notin {"new", "kickoff"}
      /\ t \in Workers => last_graph[t] = n_graph BY InGraph DEF InBarrier
<1>2. /\ PlacesOK'
      /\ \A u \in Threads \ {t} :
           pc'[u] = pc[u] /\ node_n'[u] = node_n[u] /\ after'[u] = after[u]
      /\ pc'[t] \notin {"add", "reset", "pass", "spin"}
      /\ NodeExists(t)' /\ HasBegun(t)' BY DepartLands DEF InBarrier
<1>3. \A u \in Threads \ {t} : pc[u] = "spin" /\ n_passed[u] = n_barrier_passed BY PassTogether
<1>4. n_barrier_passed' # n_barrier_passed BY DEF TPTypeOK
<1>5. InStep' BY PassTogether DEF InStep, SameStage
<1>6. \A u \in Threads : ~Waits(u)' /\ ~Ends(u)' /\ pc'[u] # "add" BY <1>2, <1>3, <1>4 DEF Waits, Ends
<1>7. EntersNow' /\ LastEnds' BY <1>6 DEF EntersNow, LastEnds
<1>8. CountIsExact'
  <2>1. Waiters' = {} BY <1>6 DEF Waiters
  <2>2. n_barrier' = 0 BY DEF CountIsExact
  <2> QED BY <1>6, <2>1, <2>2, FS_EmptySet DEF CountIsExact, Ends
<1>9. TPTypeOK' BY <1>2 DEF TPTypeOK
<1>10. NodesExist' BY <1>2, <1>3 DEF NodesExist, NodeExists, AtWork, InBarrier
<1>11. Begun'
  <2>1. 0 \in Threads /\ Workers \subseteq Threads BY ThreadAssumption DEF Threads, Workers
  <2>2. (n_graph = 0 <=> pc[0] \in {"new", "kickoff"})' BY <1>1, <1>2, <2>1 DEF HasBegun
  <2>3. ASSUME NEW w \in Workers
        PROVE  (AtWork(w) \/ InBarrier(w) => last_graph[w] = n_graph)'
    BY <1>2, <2>1 DEF Begun, HasBegun, AtWork, InBarrier
  <2> QED BY <1>1, <2>2, <2>3 DEF Begun
<1> QED BY <1>5, <1>7, <1>8, <1>9, <1>10, <1>11
----
\* The life of the pool.  Before the kickoff nobody is in the graph.
LEMMA NobodyInGraph ==
  ASSUME IInv, n_graph = 0
  PROVE  /\ \A t \in Threads : ~AtWork(t) /\ ~InBarrier(t)
         /\ \A w \in Workers : last_graph[w] = 0
         /\ n_barrier = 0
<1> USE DEF IInv
<1>1. \A w \in Workers : ~AtWork(w) /\ ~InBarrier(w) /\ last_graph[w] = 0 BY DEF Begun
<1>2. ~AtWork(0) /\ ~InBarrier(0) BY DEF Begun, AtWork, InBarrier
<1>3. \A t \in Threads : t = 0 \/ t \in Workers BY ThreadAssumption DEF Threads, Workers
<1>4. \A t \in Threads : ~AtWork(t) /\ ~InBarrier(t) BY <1>1, <1>2, <1>3
<1>5. Waiters = {} /\ \A t \in Threads : pc[t] # "pass" BY <1>4 DEF Waiters, Waits, InBarrier
<1>6. n_barrier = 0 BY <1>5, FS_EmptySet DEF BarrierInv, CountIsExact
<1> QED BY <1>1, <1>4, <1>6

\* A step after which nobody is in the barrier leaves it in order.
LEMMA BarrierEmpty ==
  ASSUME n_barrier' = 0, \A t \in Threads : pc'[t] \notin {"add", "reset", "pass", "spin"}
  PROVE  BarrierInv'
<1>1. Waiters' = {} BY DEF Waiters, Waits
<1> QED BY <1>1, FS_EmptySet DEF BarrierInv, EntersNow, LastEnds, Ends, CountIsExact

\* The pool is made: all threads are outside of the graph.
LEMMA NewPoolKeeps ==
  ASSUME IInv, NEW p \in Seq(ProgramNode), NewPool(p)
  PROVE  IInv'
<1> USE DEF IInv, NewPool, TPTypeOK, PlacesOK
<1>1. n_graph = 0 /\ 0 \in Threads /\ Workers \subseteq Threads BY ThreadAssumption DEF Begun, Threads, Workers
<1>2. /\ \A w \in Workers : last_graph[w] = 0
      /\ n_barrier = 0 BY <1>1, NobodyInGraph
<1>3. \A t \in Threads : pc'[t] \in {"kickoff", "idle"} OBVIOUS
<1>4. TPTypeOK'
  <2>1. cgraph' \in Seq(ProgramNode) OBVIOUS
  <2>2. pc' \in [Threads -> Pcs] BY DEF Pcs
  <2> QED BY <2>1, <2>2
<1>5. NodesExist' BY <1>3 DEF NodesExist, AtWork, InBarrier
<1>6. Begun'
  <2>1. (n_graph = 0 <=> pc[0] \in {"new", "kickoff"})' BY <1>1
  <2>2. \A w \in Workers : ~AtWork(w)' /\ ~InBarrier(w)' /\ last_graph'[w] = 0
    BY <1>1, <1>2, <1>3 DEF AtWork, InBarrier
  <2> QED BY <2>1, <2>2 DEF Begun
<1>7. BarrierInv' BY <1>2, <1>3, BarrierEmpty
<1>8. InStep'
  <2>1. \A t \in Threads : Stage(t)' = End BY <1>1, <1>2, <1>3 DEF Stage, AtWork, LetGo, InBarrier, NewGraph
  <2> QED BY <2>1 DEF InStep, SameStage
<1> QED BY <1>4, <1>5, <1>6, <1>7, <1>8

\* The kickoff takes all threads to the first stage at once.
LEMMA KickoffTogether ==
  ASSUME IInv, Kickoff
  PROVE  /\ PlacesOK' /\ pc'[0] \in {"enter", "rows", "matmul"} /\ NodeExists(0)'
         /\ pc'[0] = "enter" => after'[0] = "done"
         /\ \A w \in Workers : ~AtWork(w)' /\ ~InBarrier(w)'
         /\ \A t \in Threads : Stage(t)' = From(cgraph, 1)
<1> USE DEF IInv, Kickoff, TPTypeOK, PlacesOK
<1>1. n_graph = 0 /\ 0 \in Threads /\ 0 \notin Workers /\ Workers \subseteq Threads
      /\ \A t \in Threads : t = 0 \/ t \in Workers BY ThreadAssumption DEF Begun, Threads, Workers
<1>2. /\ \A t \in Threads : ~AtWork(t) /\ ~InBarrier(t)
      /\ \A w \in Workers : last_graph[w] = 0
      /\ n_barrier = 0 BY <1>1, NobodyInGraph
<1>3. Arrives(0, From(cgraph, 1)) BY <1>1, ArriveFrom
<1>4. ASSUME From(cgraph, 1) = Gate("done", 0),
             pc' = [pc EXCEPT ![0] = "enter"],
             after' = [after EXCEPT ![0] = "done"],
             node_n' = node_n
      PROVE  /\ PlacesOK' /\ pc'[0] = "enter" /\ after'[0] = "done" /\ NodeExists(0)'
             /\ Stage(0)' = From(cgraph, 1)
             /\ \A u \in Workers : pc'[u] = pc[u]
  BY <1>1, <1>4 DEF Pcs, NodeExists, AtWork, InBarrier, Stage, LetGo, Here, Gate
<1>5. ASSUME NEW m \in DOMAIN cgraph,
             cgraph[m].op \in {"rows", "matmul"},
             From(cgraph, 1) = Work(cgraph[m].op, m),
             pc' = [pc EXCEPT ![0] = cgraph[m].op],
             node_n' = [node_n EXCEPT ![0] = m],
             after' = after
      PROVE  /\ PlacesOK' /\ pc'[0] \in {"rows", "matmul"} /\ NodeExists(0)'
             /\ Stage(0)' = From(cgraph, 1)
             /\ \A u \in Workers : pc'[u] = pc[u] BY <1>1, <1>5 DEF Pcs, NodeExists, AtWork, Stage
<1>6. /\ PlacesOK' /\ pc'[0] \in {"enter", "rows", "matmul"} /\ NodeExists(0)'
      /\ pc'[0] = "enter" => after'[0] = "done"
      /\ Stage(0)' = From(cgraph, 1)
      /\ \A u \in Workers : pc'[u] = pc[u] BY <1>3, <1>4, <1>5 DEF Arrives
<1>7. \A w \in Workers : ~AtWork(w)' /\ ~InBarrier(w)' BY <1>1, <1>2, <1>6 DEF AtWork, InBarrier
<1>8. \A w \in Workers : Stage(w)' = From(cgraph, 1) BY <1>2, <1>7 DEF Stage, LetGo, InBarrier, NewGraph
<1> QED BY <1>1, <1>6, <1>7, <1>8

\* That keeps the invariant: nobody was in the graph before.
LEMMA KickoffKeeps ==
  ASSUME IInv, Kickoff
  PROVE  IInv'
<1> USE DEF IInv, Kickoff, TPTypeOK, PlacesOK
<1>1. n_graph = 0 /\ 0 \in Threads /\ 0 \notin Workers /\ Workers \subseteq Threads
      /\ \A t \in Threads : t = 0 \/ t \in Workers BY ThreadAssumption DEF Begun, Threads, Workers
<1>2. (\A w \in Workers : last_graph[w] = 0) /\ n_barrier = 0 BY <1>1, NobodyInGraph
<1>3. /\ PlacesOK' /\ pc'[0] \in {"enter", "rows", "matmul"} /\ NodeExists(0)'
      /\ \A w \in Workers : ~AtWork(w)' /\ ~InBarrier(w)'
      /\ \A t \in Threads : Stage(t)' = From(cgraph, 1) BY KickoffTogether
<1>4. TPTypeOK' BY <1>3
<1>5. NodesExist' BY <1>1, <1>3 DEF NodesExist, NodeExists
<1>6. Begun' BY <1>3 DEF Begun
<1>7. BarrierInv'
  <2>1. \A t \in Threads : pc'[t] \notin {"add", "reset", "pass", "spin"} BY <1>1, <1>3 DEF InBarrier
  <2> QED BY <1>2, <2>1, BarrierEmpty
<1>8. InStep' BY <1>3 DEF InStep, SameStage
<1> QED BY <1>4, <1>5, <1>6, <1>7, <1>8

\* Freeing the pool moves the caller alone, outside of the graph.
LEMMA FreeIsLocal ==
  ASSUME IInv, FreePool \/ Joined
  PROVE  Local(0) /\ Stage(0)' = Stage(0)
<1> USE DEF IInv, TPTypeOK, PlacesOK
<1>1. 0 \in Threads /\ 0 \notin Workers BY ThreadAssumption DEF Threads, Workers
<1>2. /\ \/ pc' = [pc EXCEPT ![0] = "join"]
         \/ pc' = [pc EXCEPT ![0] = "returned"]
      /\ pc[0] \in {"done", "join"}
      /\ UNCHANGED <<cgraph, n_graph, n_barrier, n_barrier_passed, node_n, n_passed,
                     after, last_graph>> BY DEF FreePool, Joined, Go
<1>3. pc'[0] \in {"join", "returned"} BY <1>1, <1>2
<1>4. OnlyMoves(0) BY <1>1, <1>2 DEF OnlyMoves, Pcs
<1>5. Aside(0) BY <1>2, <1>3 DEF Aside, Waits
<1>6. NodeExists(0)' /\ HasBegun(0)' BY <1>1, <1>2, <1>3 DEF NodeExists, HasBegun, AtWork, InBarrier, Begun
<1>7. Stage(0)' = Stage(0) BY <1>1, <1>2, <1>3 DEF Stage, AtWork, LetGo, InBarrier
<1> QED BY <1>2, <1>4, <1>5, <1>6, <1>7 DEF Local
----
\* The invariant holds before the pool is made.
LEMMA InitIInv ==
  ASSUME TPInit
  PROVE  IInv
<1> USE DEF TPInit
<1>1. \A t \in Threads : pc[t] \in {"new", "none"} OBVIOUS
<1>2. TPTypeOK BY DEF TPTypeOK, PlacesOK, Pcs
<1>3. NodesExist BY <1>1 DEF NodesExist, AtWork, InBarrier
<1>4. Workers \subseteq Threads /\ 0 \in Threads BY ThreadAssumption DEF Threads, Workers
<1>5. Begun BY <1>1, <1>4 DEF Begun, AtWork, InBarrier
<1>6. BarrierInv
  <2>1. Waiters = {} BY <1>1 DEF Waiters, Waits
  <2> QED BY <1>1, <2>1, FS_EmptySet DEF BarrierInv, EntersNow, LastEnds, Ends, CountIsExact
<1>7. InStep
  <2>1. \A t \in Threads : Stage(t) = End BY <1>1, <1>4 DEF Stage, AtWork, LetGo, InBarrier, NewGraph
  <2> QED BY <2>1 DEF InStep, SameStage
<1> QED BY <1>2, <1>3, <1>5, <1>6, <1>7 DEF IInv

\* Every step keeps the invariant.
LEMMA NextIInv ==
  ASSUME IInv, [TPNext]_poolVars
  PROVE  IInv'
<1>1. ASSUME NEW p \in Seq(ProgramNode), NewPool(p) PROVE IInv' BY <1>1, NewPoolKeeps
<1>2. CASE Kickoff BY <1>2, KickoffKeeps
<1>3. CASE FreePool \/ Joined
  <2>1. 0 \in Threads BY ThreadAssumption DEF Threads
  <2> QED BY <1>3, <2>1, FreeIsLocal, LocalKeeps
<1>4. ASSUME NEW w \in Workers, Waiting(w) PROVE IInv'
  <2>1. w \in Threads BY DEF Threads, Workers
  <2> QED BY <1>4, <2>1, WaitingIsLocal, LocalKeeps
<1>5. ASSUME NEW t \in Threads, Working(t) PROVE IInv'
  <2>1. CASE Rows(t) \/ Convert(t) \/ Chunk(t) \/ NextChunk(t) \/ NoMoreChunks(t)
    BY <2>1, WorkingIsLocal, LocalKeeps
  <2>2. CASE ReadPassed(t) BY <2>2, ReadPassedIsLocal, LocalKeeps
  <2>3. CASE AddSelf(t) BY <2>3, AddSelfKeeps
  <2>4. CASE ResetBarrier(t) BY <2>4, ResetBarrierKeeps
  <2>5. CASE PassBarrier(t) BY <2>5, PassBarrierKeeps
  <2>6. CASE SpinEnds(t) BY <2>6, SpinEndsIsLocal, LocalKeeps
  <2> QED BY <1>5, <2>1, <2>2, <2>3, <2>4, <2>5, <2>6 DEF Working, Barrier
<1>6. CASE UNCHANGED poolVars
  BY <1>6 DEF poolVars, IInv, TPTypeOK, PlacesOK, NodesExist, Begun, BarrierInv, EntersNow,
              LastEnds, CountIsExact, InStep, AtWork, InBarrier, Waits, Waiters, Ends, Stage,
              LetGo, Here, NewGraph
<1> QED BY <1>1, <1>2, <1>3, <1>4, <1>5, <1>6 DEF TPNext

\* Threads in one stage are on one node, and in one phase of it.
LEMMA StagesAgree ==
  ASSUME IInv
  PROVE  NodesInStep
<1> SUFFICES ASSUME NEW t \in Threads, NEW u \in Threads, AtWork(t), AtWork(u)
             PROVE  /\ node_n[t] = node_n[u]
                    /\ pc[t] = "matmul" <=> pc[u] = "matmul" BY DEF NodesInStep
<1> DEFINE kind(x) == IF pc[x] \in {"chunk", "fetch"} THEN "product" ELSE pc[x]
<1>1. Stage(t) = <<kind(t), node_n[t]>> /\ Stage(u) = <<kind(u), node_n[u]>> BY DEF Stage, Work
<1>2. Stage(t) \in WorkStages /\ Stage(u) \in WorkStages
  BY <1>1 DEF IInv, TPTypeOK, PlacesOK, WorkStages, AtWork
<1>3. \A s \in WorkStages : Exit(cgraph, s) \notin WorkStages
  <2>1. \A n : Gate("chunk", n) \notin WorkStages /\ Gate("next", n) \notin WorkStages
               /\ Gate("done", n) \notin WorkStages BY DEF Gate, WorkStages
  <2> QED BY <2>1 DEF Exit
<1>4. Stage(t) = Stage(u) BY <1>2, <1>3 DEF IInv, InStep, SameStage
<1>5. node_n[t] = node_n[u] /\ kind(t) = kind(u) BY <1>1, <1>4
<1> QED BY <1>5

\* All accesses of the threads keep their types, whatever the programs.
THEOREM PoolTypes == TPSpec => []TPTypeOK
<1>1. TPInit => IInv BY InitIInv
<1>2. IInv /\ [TPNext]_poolVars => IInv' BY NextIInv
<1>3. IInv => TPTypeOK BY DEF IInv
<1> QED BY <1>1, <1>2, <1>3, PTL DEF TPSpec

\* For any number of threads and any programs: no thread begins a node, or
\* the chunks of a product, before all have done their share of what comes
\* before it.  This is what ggml_barrier is for.
THEOREM NeverOutOfStep == TPSpec => []NodesInStep
<1>1. TPInit => IInv BY InitIInv
<1>2. IInv /\ [TPNext]_poolVars => IInv' BY NextIInv
<1>3. IInv => NodesInStep BY StagesAgree
<1> QED BY <1>1, <1>2, <1>3, PTL DEF TPSpec
----
\* The pool: its chunks.

\* A thread holds a chunk from its conversion on until it has computed it.
Holding(t) == pc[t] = "chunk" \/ (InBarrier(t) /\ after[t] = "chunk")

\* Chunk e was computed before a thread in stage s can get to it.
Behind(e, s, given) ==
  /\ s[1] \in {"rows", "matmul", "chunk"} => e[1] < s[2]
  /\ s[1] = "product" => e[1] < s[2] \/ (e[1] = s[2] /\ e[2] < given)
  /\ s[1] = "next" => e[1] <= s[2]

ChunkTypes ==
  /\ current_chunk \in Nat
  /\ chunk \in [Threads -> Nat]
  /\ taken \in SUBSET (Nat \X Nat)

NothingYet == n_graph = 0 => taken = {}

\* Thread 0 has reset the chunks before anybody fetches one.
ChunksReset ==
  \A t \in Threads :
    Stage(t)[1] = "product" \/ (t = 0 /\ Stage(t)[1] = "chunk") => current_chunk >= NThreads

\* A thread holds the chunk of its number, or one that was given out.
ChunksGiven ==
  \A t \in Threads : Holding(t) =>
    /\ Stage(t)[1] = "chunk" => chunk[t] = t
    /\ Stage(t)[1] = "product" => chunk[t] < current_chunk

Disjoint == \A t, u \in Threads : Holding(t) /\ Holding(u) /\ t # u => chunk[t] # chunk[u]

TakenBehind == \A e \in taken, t \in Threads : Behind(e, Stage(t), current_chunk)

NotTaken ==
  \A t \in Threads : Holding(t) /\ Stage(t)[1] = "product" => <<node_n[t], chunk[t]>> \notin taken

ChunkInv == /\ ChunkTypes /\ NothingYet /\ ChunksReset /\ ChunksGiven
            /\ Disjoint /\ TakenBehind /\ NotTaken
----
\* Stages, by their kind.
Kinds == {"rows", "matmul", "product", "chunk", "next", "done", "end"}

\* The stage found from a node is one of work, beyond it, or the last gate.
LEMMA FromType ==
  ASSUME cgraph \in Seq(ProgramNode), NEW n \in Nat, n > 0
  PROVE  \/ From(cgraph, n) = <<"done", 0>>
         \/ \E kind \in {"rows", "matmul"}, m \in DOMAIN cgraph :
              From(cgraph, n) = <<kind, m>> /\ n <= m
<1>1. CASE Remaining(cgraph, n) = {} BY <1>1 DEF From, Gate
<1>2. CASE Remaining(cgraph, n) # {}
  <2> DEFINE m == Soonest(cgraph, n)
  <2>1. m \in DOMAIN cgraph /\ cgraph[m].op \in {"rows", "matmul"} BY <1>2, SoonestExists
  <2>2. Remaining(cgraph, n) \subseteq Nat BY DEF Remaining
  <2>3. m \in Remaining(cgraph, n) BY <1>2, <2>2, LeastNumber DEF Soonest
  <2>4. n <= m BY <2>3 DEF Remaining
  <2>5. From(cgraph, n) = <<cgraph[m].op, m>> BY <1>2 DEF From, Work
  <2> QED BY <2>1, <2>4, <2>5
<1> QED BY <1>1, <1>2

\* A stage of work is one on a node of the program.
IsStage(s) ==
  /\ s \in Kinds \X Nat
  /\ s[1] \in {"rows", "matmul", "product"} => s[2] \in DOMAIN cgraph

\* It is a stage of the program.
LEMMA FromIsStage ==
  ASSUME cgraph \in Seq(ProgramNode), NEW n \in Nat, n > 0
  PROVE  IsStage(From(cgraph, n))
<1>1. CASE From(cgraph, n) = <<"done", 0>> BY <1>1 DEF IsStage, Kinds
<1>2. ASSUME NEW kind \in {"rows", "matmul"}, NEW m \in DOMAIN cgraph, From(cgraph, n) = <<kind, m>>
      PROVE  IsStage(From(cgraph, n))
  BY <1>2 DEF IsStage, Kinds
<1> QED BY <1>1, <1>2, FromType

\* Every thread is in a stage of the program.
LEMMA StageType ==
  ASSUME IInv, NEW t \in Threads
  PROVE  IsStage(Stage(t))
<1> USE DEF IInv, TPTypeOK, PlacesOK
<1>1. CASE AtWork(t)
  <2>1. node_n[t] \in DOMAIN cgraph BY <1>1 DEF NodesExist
  <2> QED BY <1>1, <2>1 DEF Stage, Work, AtWork, IsStage, Kinds
<1>2. CASE ~AtWork(t) /\ LetGo(t)
  <2>1. Stage(t) = Beyond(cgraph, Here(t)) /\ InBarrier(t) BY <1>2 DEF Stage, LetGo, InBarrier
  <2>2. CASE after[t] = "next"
    <3>1. Stage(t) = From(cgraph, node_n[t] + 1) BY <2>1, <2>2 DEF Beyond, Here, Gate
    <3>2. node_n[t] + 1 \in Nat /\ node_n[t] + 1 > 0 OBVIOUS
    <3> QED BY <3>1, <3>2, FromIsStage
  <2>3. CASE after[t] = "chunk" BY <2>1, <2>3 DEF Beyond, Here, Gate, Work, NodesExist, IsStage, Kinds
  <2>4. CASE after[t] = "done" BY <2>1, <2>4 DEF Beyond, Here, Gate, End, IsStage, Kinds
  <2> QED BY <2>2, <2>3, <2>4
<1>3. CASE ~AtWork(t) /\ ~LetGo(t) /\ InBarrier(t) BY <1>3 DEF Stage, Here, Gate, IsStage, Kinds
<1>4. CASE ~AtWork(t) /\ ~LetGo(t) /\ ~InBarrier(t)
  <2>1. Stage(t) = From(cgraph, 1) \/ Stage(t) = End BY <1>4 DEF Stage
  <2>2. IsStage(From(cgraph, 1)) BY FromIsStage
  <2>3. IsStage(End) BY DEF End, IsStage, Kinds
  <2> QED BY <2>1, <2>2, <2>3
<1> QED BY <1>1, <1>2, <1>3, <1>4

\* Who holds a chunk is in the product, or before the barrier to it.
LEMMA HoldingStage ==
  ASSUME IInv, NEW t \in Threads, Holding(t)
  PROVE  Stage(t) \in {<<"product", node_n[t]>>, <<"chunk", node_n[t]>>}
BY DEF Holding, Stage, AtWork, InBarrier, LetGo, Beyond, Here, Gate, Work

\* The gate behind a stage lies behind all that the stage has behind it.
LEMMA ExitOnward ==
  ASSUME cgraph \in Seq(ProgramNode), NEW s, IsStage(s)
  PROVE  /\ Exit(cgraph, s)[1] \notin {"rows", "matmul", "product"}
         /\ Exit(cgraph, s)[1] = "chunk" => s[1] \in {"matmul", "chunk"}
         /\ s[1] = "matmul" => Exit(cgraph, s) = <<"chunk", s[2]>>
         /\ s[1] \in {"rows", "product"} =>
              \/ Exit(cgraph, s) = <<"done", 0>>
              \/ \E n \in Nat : Exit(cgraph, s) = <<"next", n>> /\ s[2] <= n
         /\ s \notin WorkStages => Exit(cgraph, s) = s
<1>1. CASE s \notin WorkStages BY <1>1 DEF Exit, IsStage, WorkStages, Kinds
<1>2. CASE s \in WorkStages /\ s[1] = "matmul" BY <1>2 DEF Exit, Gate
<1>3. CASE s \in WorkStages /\ s[1] # "matmul"
  <2> DEFINE n == s[2] + cgraph[s[2]].fused
  <2>1. s[2] \in DOMAIN cgraph /\ s[1] \in {"rows", "product"} BY <1>3 DEF IsStage, WorkStages
  <2>2. cgraph[s[2]] \in ProgramNode BY <2>1
  <2>3. n \in Nat /\ s[2] <= n BY <2>1, <2>2 DEF ProgramNode
  <2>4. Exit(cgraph, s) = <<"next", n>> \/ Exit(cgraph, s) = <<"done", 0>> BY <1>3 DEF Exit, Gate
  <2> HIDE DEF n
  <2> QED BY <1>3, <2>1, <2>3, <2>4
<1> QED BY <1>1, <1>2, <1>3

\* So what lies behind a stage lies behind its gate.
LEMMA ExitBehind ==
  ASSUME cgraph \in Seq(ProgramNode), NEW s, IsStage(s), NEW given \in Nat,
         NEW e \in Nat \X Nat, Behind(e, s, given)
  PROVE  Behind(e, Exit(cgraph, s), given)
<1>1. CASE s \notin WorkStages BY <1>1, ExitOnward
<1>2. CASE s \in WorkStages /\ s[1] = "matmul" BY <1>2, ExitOnward DEF Behind
<1>3. CASE s \in WorkStages /\ s[1] # "matmul"
  <2>1. s[1] \in {"rows", "product"} /\ s[2] \in Nat BY <1>3 DEF WorkStages
  <2>2. e[1] <= s[2] BY <2>1 DEF Behind
  <2> QED BY <2>1, <2>2, ExitOnward DEF Behind
<1> QED BY <1>1, <1>2, <1>3

\* While one thread is at work on a stage, others are there or behind it.
LEMMA Companions ==
  ASSUME IInv, NEW t \in Threads, NEW u \in Threads, Stage(t) \in WorkStages
  PROVE  Stage(u) \in {Stage(t), Exit(cgraph, Stage(t))}
<1>1. SameStage(cgraph, Stage(t), Stage(u)) BY DEF IInv, InStep
<1>2. IsStage(Stage(u)) /\ cgraph \in Seq(ProgramNode) BY StageType DEF IInv, TPTypeOK
<1>3. Exit(cgraph, Stage(u)) # Stage(t) BY <1>2, ExitOnward DEF WorkStages
<1> QED BY <1>1, <1>3 DEF SameStage
----
\* A step that computes and gives out nothing: who holds a chunk after it
\* has held it before, in the same stage.
Quiet(t) ==
  /\ OnlyMoves(t)
  /\ UNCHANGED <<current_chunk, chunk, taken>>
  /\ Stage(t)' \in {Stage(t), Exit(cgraph, Stage(t))}
  /\ Stage(t)[1] = "matmul" => Stage(t)' = Stage(t)
  /\ Holding(t)' => Holding(t) /\ Stage(t)' = Stage(t) /\ node_n'[t] = node_n[t]

\* The step of one thread leaves what the others hold.
LEMMA OthersHold ==
  ASSUME IInv, NEW t \in Threads, OnlyMoves(t), NEW u \in Threads, u # t
  PROVE  /\ Holding(u)' <=> Holding(u)
         /\ Stage(u)' = Stage(u) /\ node_n'[u] = node_n[u] BY OthersStay DEF IInv, Holding, InBarrier

\* A quiet step keeps the invariant of the chunks.
LEMMA QuietKeeps ==
  ASSUME IInv, ChunkInv, NEW t \in Threads, Quiet(t)
  PROVE  ChunkInv'
<1> USE DEF ChunkInv, Quiet
<1>1. cgraph \in Seq(ProgramNode) /\ cgraph' = cgraph /\ n_graph' = n_graph BY DEF IInv, TPTypeOK, OnlyMoves
<1>2. \A u \in Threads :
        Holding(u)' => Holding(u) /\ Stage(u)' = Stage(u) /\ node_n'[u] = node_n[u] BY OthersHold
<1>3. \A u \in Threads : Stage(u)' = Stage(u) \/ (u = t /\ Stage(t)' = Exit(cgraph, Stage(t))) BY OthersHold
<1>4. ChunkTypes' /\ NothingYet' BY <1>1 DEF ChunkTypes, NothingYet
<1>5. \A u \in Threads :
        Stage(u)'[1] \in {"product", "chunk"} => Stage(u)' = Stage(u)
  <2>1. IsStage(Stage(t)) BY StageType
  <2>2. Exit(cgraph, Stage(t))[1] # "product" BY <1>1, <2>1, ExitOnward
  <2>3. Exit(cgraph, Stage(t))[1] = "chunk" => Stage(t)[1] \in {"matmul", "chunk"} BY <1>1, <2>1, ExitOnward
  <2>4. Stage(t)[1] = "chunk" => Exit(cgraph, Stage(t)) = Stage(t) BY <1>1, <2>1, ExitOnward DEF WorkStages
  <2> QED BY <1>3, <2>2, <2>3, <2>4
<1>6. ChunksReset'
  <2> SUFFICES ASSUME NEW u \in Threads,
                      Stage(u)'[1] = "product" \/ (u = 0 /\ Stage(u)'[1] = "chunk")
               PROVE  current_chunk >= NThreads
    BY DEF ChunksReset
  <2>1. Stage(u)' = Stage(u) BY <1>5
  <2> QED BY <2>1 DEF ChunksReset
<1>7. ChunksGiven' /\ Disjoint' /\ NotTaken' BY <1>2 DEF ChunksGiven, Disjoint, NotTaken
<1>8. TakenBehind'
  <2> SUFFICES ASSUME NEW e \in taken, NEW u \in Threads
               PROVE  Behind(e, Stage(u)', current_chunk)
    BY DEF TakenBehind
  <2>1. Behind(e, Stage(u), current_chunk) /\ e \in Nat \X Nat /\ current_chunk \in Nat
    BY DEF TakenBehind, ChunkTypes
  <2>2. CASE Stage(u)' = Stage(u) BY <2>1, <2>2
  <2>3. CASE Stage(u)' = Exit(cgraph, Stage(u))
    <3>1. IsStage(Stage(u)) BY StageType
    <3> QED BY <1>1, <2>1, <2>3, <3>1, ExitBehind
  <2> QED BY <1>3, <2>2, <2>3
<1> QED BY <1>4, <1>6, <1>7, <1>8

\* A worker that waits, or begins, holds nothing.
LEMMA WaitingIsQuiet ==
  ASSUME IInv, NEW w \in Workers, Waiting(w)
  PROVE  Quiet(w)
<1> USE DEF IInv, TPTypeOK, PlacesOK
<1>1. w \in Threads BY DEF Threads, Workers
<1>2. Local(w) /\ Stage(w)' = Stage(w) BY WaitingIsLocal
<1>3. UNCHANGED <<current_chunk, chunk, taken>> /\ pc[w] \in WaitPcs
  BY DEF Waiting, CheckStop, PollFinds, PollEnds, Lock, CheckForWork, waitVars, WaitPcs
<1>4. ~Holding(w)'
  <2>1. \/ \E where \in WaitPcs \cup {"exited"} : pc' = [pc EXCEPT ![w] = where]
        \/ Begin(w) BY DEF Waiting, CheckStop, PollFinds, PollEnds, Lock, CheckForWork, WaitPcs, Go
  <2>2. CASE \E where \in WaitPcs \cup {"exited"} : pc' = [pc EXCEPT ![w] = where]
    BY <1>1, <2>2 DEF Holding, InBarrier, WaitPcs
  <2>3. CASE Begin(w)
    <3>1. Arrives(w, From(cgraph, 1)) BY <1>1, <2>3, ArriveFrom DEF Begin
    <3> QED BY <1>1, <3>1 DEF Arrives, Holding, InBarrier
  <2> QED BY <2>1, <2>2, <2>3
<1> QED BY <1>2, <1>3, <1>4 DEF Quiet, Local

\* Leaving a node, whoever does, ends in a barrier without a chunk.
LEMMA LeaveHoldsNot ==
  ASSUME IInv, NEW t \in Threads, pc[t] \in {"rows", "chunk"}, Leave(t)
  PROVE  ~Holding(t)'
<1>1. node_n[t] \in DOMAIN cgraph BY DEF IInv, NodesExist, AtWork
<1>2. PICK a \in {"next", "done"}, n \in Nat :
        /\ pc' = [pc EXCEPT ![t] = "enter"]
        /\ after' = [after EXCEPT ![t] = a]
        /\ node_n' = [node_n EXCEPT ![t] = n]
        /\ Gate(a, n) = Exit(cgraph, Work("rows", node_n[t])) BY <1>1, LeaveExits DEF IInv
<1> QED BY <1>2 DEF IInv, TPTypeOK, PlacesOK, Holding, InBarrier

\* Who leaves a barrier holds a chunk when the barrier was a product's.
LEMMA DepartHolds ==
  ASSUME IInv, NEW t \in Threads, InBarrier(t), Depart(t)
  PROVE  Holding(t)' => after[t] = "chunk" /\ node_n'[t] = node_n[t]
<1> USE DEF IInv, TPTypeOK, PlacesOK
<1>1. CASE after[t] = "next"
  <2>1. Arrive(t, node_n[t] + 1) BY <1>1 DEF Depart
  <2>2. Arrives(t, From(cgraph, node_n[t] + 1)) BY <2>1, ArriveFrom
  <2> QED BY <2>2 DEF Arrives, Holding, InBarrier
<1>2. CASE after[t] = "chunk" BY <1>2 DEF Depart
<1>3. CASE after[t] = "done" BY <1>3 DEF Depart, Go, Holding, InBarrier
<1> QED BY <1>1, <1>2, <1>3

\* The work on rows, and the end of a product, compute no chunk.
LEMMA LeavingIsQuiet ==
  ASSUME IInv, NEW t \in Threads, Rows(t) \/ NoMoreChunks(t)
  PROVE  Quiet(t)
<1>1. Local(t) BY WorkingIsLocal
<1>2. ~Holding(t)' BY LeaveHoldsNot DEF Rows, NoMoreChunks
<1>3. Stage(t)[1] # "matmul" BY DEF Rows, NoMoreChunks, Stage, AtWork, Work
<1> QED BY <1>1, <1>2, <1>3 DEF Quiet, Local, Rows, NoMoreChunks

\* Entering the barrier leaves a thread in its stage.
LEMMA EnteringStays ==
  ASSUME IInv, NEW t \in Threads, ReadPassed(t) \/ AddSelf(t) \/ ResetBarrier(t)
  PROVE  Stage(t)' = Stage(t)
BY DEF IInv, TPTypeOK, PlacesOK, ReadPassed, AddSelf, ResetBarrier, Go, walkVars, chunkVars,
       BarrierInv, EntersNow, Stage, AtWork, LetGo, InBarrier, Here

\* Nor does entering the barrier.
LEMMA EnteringIsQuiet ==
  ASSUME IInv, NEW t \in Threads, ReadPassed(t) \/ AddSelf(t) \/ ResetBarrier(t)
  PROVE  Quiet(t)
<1> USE DEF IInv, TPTypeOK, PlacesOK, ReadPassed, AddSelf, ResetBarrier, Go, walkVars, chunkVars
<1>1. OnlyMoves(t)
  <2>1. UNCHANGED <<cgraph, n_graph, n_barrier_passed>> OBVIOUS
  <2>2. \A u \in Threads \ {t} :
          /\ pc'[u] = pc[u] /\ node_n'[u] = node_n[u] /\ n_passed'[u] = n_passed[u]
          /\ after'[u] = after[u] /\ last_graph'[u] = last_graph[u] OBVIOUS
  <2>3. PlacesOK' BY DEF Pcs
  <2> QED BY <2>1, <2>2, <2>3 DEF OnlyMoves
<1>2. Stage(t)' = Stage(t) BY EnteringStays
<1>3. Holding(t)' => Holding(t) BY DEF Holding, InBarrier
<1> QED BY <1>1, <1>2, <1>3 DEF Quiet

\* Nor does a thread that sees it was let go.
LEMMA SpinEndsIsQuiet ==
  ASSUME IInv, NEW t \in Threads, SpinEnds(t)
  PROVE  Quiet(t)
<1>1. Local(t) /\ Stage(t)' = Stage(t) BY SpinEndsIsLocal
<1>2. Holding(t)' => Holding(t) /\ node_n'[t] = node_n[t] BY DepartHolds DEF SpinEnds, InBarrier, Holding
<1> QED BY <1>1, <1>2 DEF Quiet, Local, SpinEnds, chunkVars

\* Nor does the end of the pool.
LEMMA FreeIsQuiet ==
  ASSUME IInv, FreePool \/ Joined
  PROVE  Quiet(0)
<1>1. Local(0) /\ 0 \in Threads BY FreeIsLocal, ThreadAssumption DEF Threads
<1>2. ~Holding(0)' BY <1>1 DEF IInv, TPTypeOK, PlacesOK, FreePool, Joined, Go, Holding, InBarrier
<1>3. Stage(0) = End BY DEF FreePool, Joined, Stage, AtWork, LetGo, InBarrier, Workers
<1>4. Stage(0)[1] # "matmul" BY <1>3 DEF End
<1> QED BY <1>1, <1>2, <1>4 DEF Quiet, Local, FreePool, Joined
----
\* Converting: all are before the product, and whoever is done holds the
\* chunk of its number.
LEMMA ConvertKeeps ==
  ASSUME IInv, ChunkInv, NEW t \in Threads, Convert(t)
  PROVE  ChunkInv'
<1> USE DEF ChunkInv, ChunkTypes
<1> DEFINE n == node_n[t]
<1>1. Stage(t) = <<"matmul", n>> /\ n \in Nat BY DEF Convert, Stage, AtWork, Work, IInv, TPTypeOK, PlacesOK
<1>2. cgraph \in Seq(ProgramNode) /\ IsStage(Stage(t)) /\ Stage(t) \in WorkStages
  BY <1>1, StageType, SMTT(30) DEF IInv, TPTypeOK, WorkStages
<1>3. Exit(cgraph, Stage(t)) = <<"chunk", n>> BY <1>1, <1>2, ExitOnward
<1>4. \A u \in Threads : Stage(u) \in {<<"matmul", n>>, <<"chunk", n>>} BY <1>1, <1>2, <1>3, Companions
<1>5. Local(t) BY WorkingIsLocal
<1>6. /\ pc' = [pc EXCEPT ![t] = "enter"] /\ after' = [after EXCEPT ![t] = "chunk"]
      /\ node_n' = node_n /\ chunk' = [chunk EXCEPT ![t] = t] /\ taken' = taken
      /\ current_chunk' = IF t = 0 THEN NThreads ELSE current_chunk
      /\ n_graph' = n_graph BY DEF Convert, Go, walkVars
<1>7. Stage(t)' = <<"chunk", n>> /\ Holding(t)'
  BY <1>6 DEF Stage, AtWork, LetGo, InBarrier, Here, Gate, Holding, IInv, TPTypeOK, PlacesOK
<1>8. \A u \in Threads \ {t} :
        (Holding(u)' <=> Holding(u)) /\ Stage(u)' = Stage(u) /\ chunk'[u] = chunk[u]
  BY <1>5, <1>6, OthersHold DEF Local
<1>9. \A u \in Threads : Stage(u)'[1] # "product" BY <1>4, <1>7, <1>8
<1>10. \A u \in Threads : Holding(u)' => chunk'[u] = u
  <2> SUFFICES ASSUME NEW u \in Threads, Holding(u)' PROVE chunk'[u] = u OBVIOUS
  <2>1. CASE u = t BY <1>6, <2>1
  <2>2. CASE u # t
    <3>1. Holding(u) /\ chunk'[u] = chunk[u] BY <1>8, <2>2
    <3>2. Stage(u)[1] = "chunk" BY <1>4, <3>1, HoldingStage
    <3> QED BY <3>1, <3>2 DEF ChunksGiven
  <2> QED BY <2>1, <2>2
<1>11. ChunkTypes' /\ NothingYet'
  <2>1. t \in Nat BY ThreadAssumption DEF Threads
  <2> QED BY <1>6, <2>1, ThreadAssumption DEF NothingYet
<1>12. ChunksReset'
  <2> SUFFICES ASSUME Stage(0)'[1] = "chunk", 0 \in Threads PROVE current_chunk' >= NThreads
    BY <1>9 DEF ChunksReset
  <2>1. CASE t = 0 BY <1>6, <2>1, ThreadAssumption
  <2>2. CASE t # 0 BY <1>6, <1>8, <2>2 DEF ChunksReset
  <2> QED BY <2>1, <2>2
<1>13. ChunksGiven' /\ NotTaken' /\ Disjoint' BY <1>9, <1>10 DEF ChunksGiven, NotTaken, Disjoint
<1>14. TakenBehind'
  <2> SUFFICES ASSUME NEW e \in taken, NEW u \in Threads
               PROVE  Behind(e, Stage(u)', current_chunk')
    BY <1>6 DEF TakenBehind
  <2>1. e[1] < n BY <1>1 DEF TakenBehind, Behind
  <2>2. Stage(u)' \in {<<"matmul", n>>, <<"chunk", n>>} BY <1>4, <1>7, <1>8
  <2> QED BY <2>1, <2>2 DEF Behind
<1> QED BY <1>11, <1>12, <1>13, <1>14

\* In a product all are at it, or beyond: nobody is before it any more.
LEMMA InProduct ==
  ASSUME IInv, NEW t \in Threads, pc[t] \in {"chunk", "fetch"}
  PROVE  /\ Stage(t) = <<"product", node_n[t]>> /\ node_n[t] \in Nat /\ IsStage(Stage(t))
         /\ \A u \in Threads :
              \/ Stage(u) = <<"product", node_n[t]>>
              \/ Stage(u) = <<"done", 0>>
              \/ \E n \in Nat : Stage(u) = <<"next", n>> /\ node_n[t] <= n
         /\ \A u \in Threads : Holding(u) => Stage(u) = <<"product", node_n[t]>> /\ node_n[u] = node_n[t]
<1>1. Stage(t) = <<"product", node_n[t]>> /\ node_n[t] \in Nat
  BY DEF Stage, AtWork, Work, IInv, TPTypeOK, PlacesOK
<1>2. cgraph \in Seq(ProgramNode) /\ IsStage(Stage(t)) /\ Stage(t) \in WorkStages
  BY <1>1, StageType DEF IInv, TPTypeOK, WorkStages
<1>3. ASSUME NEW u \in Threads
      PROVE  \/ Stage(u) = <<"product", node_n[t]>>
             \/ Stage(u) = <<"done", 0>>
             \/ \E n \in Nat : Stage(u) = <<"next", n>> /\ node_n[t] <= n
  <2>1. Stage(u) \in {Stage(t), Exit(cgraph, Stage(t))} BY <1>2, Companions
  <2>2. \/ Exit(cgraph, Stage(t)) = <<"done", 0>>
        \/ \E n \in Nat : Exit(cgraph, Stage(t)) = <<"next", n>> /\ node_n[t] <= n
    BY <1>1, <1>2, ExitOnward, SMTT(30)
  <2> QED BY <1>1, <2>1, <2>2
<1>4. ASSUME NEW u \in Threads, Holding(u)
      PROVE  Stage(u) = <<"product", node_n[t]>> /\ node_n[u] = node_n[t]
  <2>1. Stage(u) \in {<<"product", node_n[u]>>, <<"chunk", node_n[u]>>} BY <1>4, HoldingStage
  <2>2. Stage(u) = <<"product", node_n[t]>> BY <1>3, <2>1
  <2> QED BY <2>1, <2>2
<1> QED BY <1>1, <1>2, <1>3, <1>4

\* Computing a chunk: it was held by this thread alone, and is not any more.
LEMMA ChunkKeeps ==
  ASSUME IInv, ChunkInv, NEW t \in Threads, Chunk(t)
  PROVE  ChunkInv'
<1> USE DEF ChunkInv
<1> DEFINE n == node_n[t]
           c == chunk[t]
<1>1. pc[t] = "chunk" /\ Holding(t) BY DEF Chunk, Holding
<1>2. /\ Stage(t) = <<"product", n>> /\ n \in Nat /\ IsStage(Stage(t))
      /\ \A u \in Threads :
           \/ Stage(u) = <<"product", n>>
           \/ Stage(u) = <<"done", 0>>
           \/ \E k \in Nat : Stage(u) = <<"next", k>> /\ n <= k
      /\ \A u \in Threads : Holding(u) => Stage(u) = <<"product", n>> /\ node_n[u] = n BY <1>1, InProduct
<1>3. c < current_chunk /\ c \in Nat /\ current_chunk \in Nat BY <1>1, <1>2 DEF ChunksGiven, ChunkTypes
<1>4. Local(t) BY WorkingIsLocal
<1>5. /\ UNCHANGED <<chunk, current_chunk, n_graph>>
      /\ taken' = taken \cup {<<n, c>>} BY DEF Chunk, walkVars
<1>6. ~Holding(t)'
  <2>1. CASE Leave(t) BY <1>1, <2>1, LeaveHoldsNot
  <2>2. CASE ~Leave(t) BY <2>2 DEF Chunk, Go, Holding, InBarrier, IInv, TPTypeOK, PlacesOK
  <2> QED BY <2>1, <2>2
<1>7. \A u \in Threads : Holding(u)' =>
        u # t /\ Holding(u) /\ Stage(u)' = <<"product", n>> /\ node_n'[u] = n
  BY <1>2, <1>4, <1>6, OthersHold DEF Local
<1>8. cgraph \in Seq(ProgramNode) BY DEF IInv, TPTypeOK
<1>9. \A u \in Threads : Stage(u)' \in {Stage(u), Exit(cgraph, Stage(u))} BY <1>4, OthersHold DEF Local
<1>10. ChunkTypes' BY <1>2, <1>3, <1>5 DEF ChunkTypes
<1>11. NothingYet' BY <1>1, <1>5, InGraph DEF NothingYet, IInv, AtWork
<1>12. ChunksReset' BY <1>2, <1>5 DEF ChunksReset
<1>13. ChunksGiven' /\ Disjoint'
  <2>1. \A u \in Threads : Holding(u)' => chunk[u] < current_chunk BY <1>2, <1>7 DEF ChunksGiven
  <2> QED BY <1>5, <1>7, <2>1 DEF ChunksGiven, Disjoint
<1>14. NotTaken'
  <2> SUFFICES ASSUME NEW u \in Threads, Holding(u)'
               PROVE  <<node_n'[u], chunk'[u]>> \notin taken'
    BY DEF NotTaken
  <2>1. Holding(u) /\ u # t /\ node_n'[u] = n /\ node_n[u] = n /\ Stage(u)[1] = "product" BY <1>2, <1>7
  <2>2. chunk[u] # c BY <1>1, <2>1 DEF Disjoint
  <2>3. <<node_n[u], chunk[u]>> \notin taken BY <2>1 DEF NotTaken
  <2> QED BY <1>5, <2>1, <2>2, <2>3
<1>15. TakenBehind'
  <2> SUFFICES ASSUME NEW e \in taken', NEW u \in Threads
               PROVE  Behind(e, Stage(u)', current_chunk)
    BY <1>5 DEF TakenBehind
  <2>1. e \in Nat \X Nat BY <1>10 DEF ChunkTypes
  <2>2. Behind(e, Stage(u), current_chunk)
    <3>1. CASE e \in taken BY <3>1 DEF TakenBehind
    <3>2. CASE e = <<n, c>> BY <1>2, <1>3, <3>2 DEF Behind
    <3> QED BY <1>5, <3>1, <3>2
  <2>3. IsStage(Stage(u)) BY StageType
  <2> QED BY <1>3, <1>8, <1>9, <2>1, <2>2, <2>3, ExitBehind
<1> QED BY <1>10, <1>11, <1>12, <1>13, <1>14, <1>15

\* Fetching a chunk: all chunks held or computed have smaller numbers.
LEMMA NextChunkKeeps ==
  ASSUME IInv, ChunkInv, NEW t \in Threads, NextChunk(t)
  PROVE  ChunkInv'
<1> USE DEF ChunkInv
<1> DEFINE n == node_n[t]
<1>1. /\ Stage(t) = <<"product", n>> /\ n \in Nat
      /\ \A u \in Threads :
           \/ Stage(u) = <<"product", n>>
           \/ Stage(u) = <<"done", 0>>
           \/ \E k \in Nat : Stage(u) = <<"next", k>> /\ n <= k
      /\ \A u \in Threads : Holding(u) => Stage(u) = <<"product", n>> /\ node_n[u] = n
  BY InProduct DEF NextChunk
<1>2. Local(t) BY WorkingIsLocal
<1>3. /\ chunk' = [chunk EXCEPT ![t] = current_chunk]
      /\ current_chunk' = current_chunk + 1
      /\ UNCHANGED <<n_graph, taken, node_n>>
      /\ current_chunk \in Nat /\ taken \in SUBSET (Nat \X Nat)
      /\ chunk \in [Threads -> Nat] BY DEF NextChunk, walkVars, ChunkTypes
<1>4. Stage(t)' = Stage(t) /\ ~Holding(t)
  BY DEF NextChunk, Go, Stage, AtWork, Holding, InBarrier, IInv, TPTypeOK, PlacesOK
<1>5. \A u \in Threads : Stage(u)' = Stage(u) /\ (Holding(u)' => u = t \/ Holding(u))
  BY <1>2, <1>4, OthersHold DEF Local
<1>6. \A u \in Threads : Holding(u) => chunk[u] < current_chunk /\ u # t BY <1>1, <1>4 DEF ChunksGiven
<1>7. ChunkTypes' /\ NothingYet' BY <1>3 DEF ChunkTypes, NothingYet
<1>8. ChunksReset'
  <2>1. current_chunk >= NThreads BY <1>1 DEF ChunksReset
  <2>2. current_chunk' >= NThreads BY <1>3, <2>1, ThreadAssumption
  <2> QED BY <2>2 DEF ChunksReset
<1>9. ChunksGiven'
  <2> SUFFICES ASSUME NEW u \in Threads, Holding(u)'
               PROVE  Stage(u)'[1] # "chunk" /\ chunk'[u] < current_chunk'
    BY DEF ChunksGiven
  <2>1. Stage(u)' = <<"product", n>> BY <1>1, <1>5
  <2>2. chunk'[u] < current_chunk' BY <1>3, <1>5, <1>6
  <2> QED BY <2>1, <2>2
<1>10. Disjoint'
  <2> SUFFICES ASSUME NEW u \in Threads, NEW v \in Threads, Holding(u)', Holding(v)', u # v
               PROVE  chunk'[u] # chunk'[v]
    BY DEF Disjoint
  <2> QED BY <1>3, <1>5, <1>6 DEF Disjoint
<1>11. TakenBehind'
  <2> SUFFICES ASSUME NEW e \in taken, NEW u \in Threads
               PROVE  Behind(e, Stage(u), current_chunk + 1)
    BY <1>3, <1>5 DEF TakenBehind
  <2>1. Behind(e, Stage(u), current_chunk) /\ e \in Nat \X Nat BY <1>3 DEF TakenBehind
  <2> QED BY <1>3, <2>1 DEF Behind
<1>12. NotTaken'
  <2> SUFFICES ASSUME NEW u \in Threads, Holding(u)'
               PROVE  <<node_n[u], chunk'[u]>> \notin taken
    BY <1>3 DEF NotTaken
  <2>1. CASE u = t
    <3>1. chunk'[u] = current_chunk BY <1>3, <2>1
    <3>2. \A e \in taken : e[1] # n \/ e[2] # current_chunk
      <4> SUFFICES ASSUME NEW e \in taken PROVE e[1] # n \/ e[2] # current_chunk OBVIOUS
      <4>1. Behind(e, <<"product", n>>, current_chunk) /\ e \in Nat \X Nat BY <1>1, <1>3 DEF TakenBehind
      <4> QED BY <1>1, <1>3, <4>1 DEF Behind
    <3> QED BY <2>1, <3>1, <3>2
  <2>2. CASE u # t BY <1>1, <1>3, <1>5, <2>2 DEF NotTaken
  <2> QED BY <2>1, <2>2
<1> QED BY <1>7, <1>8, <1>9, <1>10, <1>11, <1>12
----
\* The barrier before the chunks lets all go with the chunk of their
\* number; those after a node let nobody hold one.
LEMMA PassKeepsChunks ==
  ASSUME IInv, ChunkInv, NEW t \in Threads, PassBarrier(t)
  PROVE  ChunkInv'
<1> USE DEF ChunkInv
<1> DEFINE n == node_n[t]
<1>1. /\ UNCHANGED <<n_graph, current_chunk, chunk, taken>>
      /\ InBarrier(t) /\ Depart(t) /\ n \in Nat
      /\ cgraph \in Seq(ProgramNode)
      /\ 0 \in Threads /\ Threads \subseteq Nat
      /\ after[t] \in {"next", "chunk", "done"}
  BY ThreadAssumption DEF PassBarrier, walkVars, chunkVars, InBarrier, Threads,
     IInv, TPTypeOK, PlacesOK
<1>2. \A u \in Threads :
        /\ u # t => pc[u] = "spin"
        /\ Stage(u) = Here(t) /\ Here(u) = Here(t)
        /\ Stage(u)' = Beyond(cgraph, Here(t)) BY PassTogether
<1>3. \A u \in Threads : Holding(u)' => after[u] = "chunk" /\ node_n'[u] = node_n[u] /\ Holding(u)
  <2> SUFFICES ASSUME NEW u \in Threads, Holding(u)'
               PROVE  after[u] = "chunk" /\ node_n'[u] = node_n[u] /\ Holding(u)
    OBVIOUS
  <2>1. CASE u = t BY <1>1, <2>1, DepartHolds DEF Holding
  <2>2. CASE u # t
    <3>1. pc'[u] = pc[u] /\ node_n'[u] = node_n[u] /\ after'[u] = after[u]
      BY <1>1, <2>2, DepartLands DEF PassBarrier, walkVars
    <3> QED BY <1>2, <2>2, <3>1 DEF Holding, InBarrier
  <2> QED BY <2>1, <2>2
<1>4. \A u \in Threads : after[u] = "chunk" => Here(t) = <<"chunk", node_n[u]>> BY <1>2 DEF Here, Gate
<1>5. ChunkTypes' /\ NothingYet' /\ Disjoint' BY <1>1, <1>3 DEF ChunkTypes, NothingYet, Disjoint
<1>6. CASE after[t] = "chunk"
  <2>1. Here(t) = <<"chunk", n>> /\ Beyond(cgraph, Here(t)) = <<"product", n>>
    BY <1>6 DEF Here, Gate, Beyond, Work
  <2>2. current_chunk >= NThreads BY <1>1, <1>2, <2>1 DEF ChunksReset
  <2>3. \A e \in taken : e[1] < n BY <1>2, <2>1 DEF TakenBehind, Behind
  <2>4. ChunksReset' BY <1>1, <2>2 DEF ChunksReset
  <2>5. ChunksGiven'
    <3> SUFFICES ASSUME NEW u \in Threads, Holding(u)'
                 PROVE  Stage(u)'[1] # "chunk" /\ chunk[u] < current_chunk
      BY <1>1 DEF ChunksGiven
    <3>1. chunk[u] = u BY <1>2, <1>3, <2>1 DEF ChunksGiven
    <3>2. u < NThreads BY ThreadAssumption DEF Threads
    <3> QED BY <1>1, <1>2, <2>1, <2>2, <3>1, <3>2, ThreadAssumption DEF ChunkTypes
  <2>6. NotTaken'
    <3> SUFFICES ASSUME NEW u \in Threads, Holding(u)'
                 PROVE  <<node_n[u], chunk[u]>> \notin taken
      BY <1>1, <1>3 DEF NotTaken
    <3>1. node_n[u] = n BY <1>3, <1>4, <2>1
    <3> QED BY <1>1, <2>3, <3>1
  <2>7. TakenBehind' BY <1>1, <1>2, <2>1, <2>3 DEF TakenBehind, Behind
  <2> QED BY <1>5, <2>4, <2>5, <2>6, <2>7
<1>7. CASE after[t] # "chunk"
  <2>1. \A u \in Threads : ~Holding(u)' BY <1>3, <1>4, <1>7 DEF Here, Gate
  <2>2. ChunksGiven' /\ NotTaken' BY <2>1 DEF ChunksGiven, NotTaken
  <2>3. CASE after[t] = "done"
    <3>1. Beyond(cgraph, Here(t)) = <<"end", 0>> BY <2>3 DEF Here, Gate, Beyond, End
    <3> QED BY <1>2, <1>5, <2>2, <3>1 DEF ChunksReset, TakenBehind, Behind
  <2>4. CASE after[t] = "next"
    <3>1. Here(t) = <<"next", n>> /\ Beyond(cgraph, Here(t)) = From(cgraph, n + 1)
      BY <2>4 DEF Here, Gate, Beyond
    <3>2. n + 1 \in Nat /\ n + 1 > 0 BY <1>1
    <3>3. \/ From(cgraph, n + 1) = <<"done", 0>>
          \/ \E kind \in {"rows", "matmul"}, m \in DOMAIN cgraph :
               From(cgraph, n + 1) = <<kind, m>> /\ n + 1 <= m BY <1>1, <3>2, FromType
    <3>4. ChunksReset' BY <1>2, <3>1, <3>3 DEF ChunksReset
    <3>5. TakenBehind'
      <4> SUFFICES ASSUME NEW e \in taken, NEW u \in Threads
                   PROVE  Behind(e, From(cgraph, n + 1), current_chunk)
        BY <1>1, <1>2, <3>1 DEF TakenBehind
      <4>1. e[1] <= n /\ e[1] \in Nat BY <1>2, <3>1 DEF TakenBehind, Behind, ChunkTypes
      <4> QED BY <1>1, <3>3, <4>1 DEF Behind
    <3> QED BY <1>5, <2>2, <3>4, <3>5
  <2> QED BY <1>1, <1>7, <2>3, <2>4
<1> QED BY <1>6, <1>7

\* Before the kickoff, and right behind it, nothing is held or computed.
LEMMA NothingHeld ==
  ASSUME IInv, ChunkInv, (\E p \in Seq(ProgramNode) : NewPool(p)) \/ Kickoff
  PROVE  ChunkInv'
<1> USE DEF ChunkInv
<1>1. n_graph = 0 /\ taken' = {} /\ UNCHANGED <<chunk, current_chunk>>
  BY DEF IInv, Begun, NothingYet, NewPool, Kickoff
<1>2. \A t \in Threads : t = 0 \/ t \in Workers BY ThreadAssumption DEF Threads, Workers
<1>3. /\ \A t \in Threads : ~Holding(t)'
      /\ \A t \in Threads : Stage(t)'[1] \notin {"product", "chunk"}
  <2>1. CASE Kickoff
    <3>1. /\ pc'[0] \in {"enter", "rows", "matmul"}
          /\ pc'[0] = "enter" => after'[0] = "done"
          /\ \A w \in Workers : ~AtWork(w)' /\ ~InBarrier(w)'
          /\ \A t \in Threads : Stage(t)' = From(cgraph, 1) BY <2>1, KickoffTogether
    <3>2. From(cgraph, 1)[1] \notin {"product", "chunk"}
      <4>1. cgraph \in Seq(ProgramNode) BY DEF IInv, TPTypeOK
      <4> QED BY <4>1, FromType
    <3> QED BY <1>2, <3>1, <3>2 DEF Holding, InBarrier, AtWork
  <2>2. ASSUME NEW p \in Seq(ProgramNode), NewPool(p)
        PROVE  \A t \in Threads : ~Holding(t)' /\ Stage(t)'[1] \notin {"product", "chunk"}
    <3>1. \A t \in Threads : pc'[t] \in {"kickoff", "idle"} BY <2>2 DEF NewPool
    <3>2. \A w \in Workers : last_graph'[w] = 0 BY <1>1, <2>2, NobodyInGraph DEF NewPool
    <3>3. n_graph' = 0 BY <1>1, <2>2 DEF NewPool
    <3>4. \A t \in Threads : Stage(t)' = End BY <3>1, <3>2, <3>3 DEF Stage, AtWork, LetGo, InBarrier, NewGraph
    <3> QED BY <3>1, <3>4 DEF End, Holding, InBarrier
  <2> QED BY <2>1, <2>2
<1>4. ChunkTypes' /\ NothingYet' /\ TakenBehind' BY <1>1 DEF ChunkTypes, NothingYet, TakenBehind
<1>5. ChunksReset' /\ ChunksGiven' /\ Disjoint' /\ NotTaken'
  BY <1>3 DEF ChunksReset, ChunksGiven, Disjoint, NotTaken
<1> QED BY <1>4, <1>5

\* Every step keeps the invariant of the chunks.
LEMMA NextChunkInv ==
  ASSUME IInv, ChunkInv, [TPNext]_poolVars
  PROVE  ChunkInv'
<1>1. CASE (\E p \in Seq(ProgramNode) : NewPool(p)) \/ Kickoff BY <1>1, NothingHeld
<1>2. CASE FreePool \/ Joined
  <2>1. 0 \in Threads BY ThreadAssumption DEF Threads
  <2> QED BY <1>2, <2>1, FreeIsQuiet, QuietKeeps
<1>3. ASSUME NEW w \in Workers, Waiting(w) PROVE ChunkInv'
  <2>1. w \in Threads BY DEF Threads, Workers
  <2> QED BY <1>3, <2>1, WaitingIsQuiet, QuietKeeps
<1>4. ASSUME NEW t \in Threads, Working(t) PROVE ChunkInv'
  <2>1. CASE Rows(t) \/ NoMoreChunks(t) BY <2>1, LeavingIsQuiet, QuietKeeps
  <2>2. CASE Convert(t) BY <2>2, ConvertKeeps
  <2>3. CASE Chunk(t) BY <2>3, ChunkKeeps
  <2>4. CASE NextChunk(t) BY <2>4, NextChunkKeeps
  <2>5. CASE ReadPassed(t) \/ AddSelf(t) \/ ResetBarrier(t) BY <2>5, EnteringIsQuiet, QuietKeeps
  <2>6. CASE PassBarrier(t) BY <2>6, PassKeepsChunks
  <2>7. CASE SpinEnds(t) BY <2>7, SpinEndsIsQuiet, QuietKeeps
  <2> QED BY <1>4, <2>1, <2>2, <2>3, <2>4, <2>5, <2>6, <2>7 DEF Working, Barrier
<1>5. CASE UNCHANGED poolVars
  BY <1>5 DEF poolVars, ChunkInv, ChunkTypes, NothingYet, ChunksReset, ChunksGiven, Disjoint,
              TakenBehind, NotTaken, Holding, Stage, AtWork, InBarrier, LetGo, Here, NewGraph
<1> QED BY <1>1, <1>2, <1>3, <1>4, <1>5 DEF TPNext

\* Before the pool is made nobody holds anything.
LEMMA InitChunks ==
  ASSUME TPInit
  PROVE  ChunkInv /\ \A t \in Threads : Stage(t) = End
<1>1. \A t \in Threads : ~Holding(t) BY DEF TPInit, Holding, InBarrier
<1>2. \A t \in Threads : Stage(t) = End
  <2>1. Workers \subseteq Threads BY DEF Threads, Workers
  <2> QED BY <2>1 DEF TPInit, Stage, AtWork, LetGo, InBarrier, NewGraph
<1>3. ChunkTypes /\ NothingYet /\ TakenBehind BY DEF TPInit, ChunkTypes, NothingYet, TakenBehind
<1>4. ChunksReset /\ ChunksGiven /\ Disjoint /\ NotTaken
  BY <1>1, <1>2 DEF ChunksReset, ChunksGiven, Disjoint, NotTaken, End
<1> QED BY <1>2, <1>3, <1>4 DEF ChunkInv

\* For any number of threads and any program: the chunk a thread holds has
\* not been computed and is nobody else's, so none is computed twice.  The
\* reset of current_chunk by thread 0 alone, before the barrier, is enough.
THEOREM NoChunkTwice == TPSpec => []ChunksOnce
<1>1. TPInit => IInv /\ ChunkInv BY InitIInv, InitChunks
<1>2. IInv /\ ChunkInv /\ [TPNext]_poolVars => IInv' /\ ChunkInv' BY NextIInv, NextChunkInv
<1>3. IInv /\ ChunkInv => ChunksOnce
  <2> SUFFICES ASSUME IInv, ChunkInv, NEW t \in Threads, pc[t] = "chunk"
               PROVE  /\ <<node_n[t], chunk[t]>> \notin taken
                      /\ \A u \in Threads \ {t} : pc[u] = "chunk" => chunk[u] # chunk[t] BY DEF ChunksOnce
  <2>1. Stage(t)[1] = "product" BY InProduct
  <2> QED BY <2>1 DEF ChunkInv, NotTaken, Disjoint, Holding
<1> QED BY <1>1, <1>2, <1>3, PTL DEF TPSpec
----
\* The allocator: finite sets and sequences of blocks.

\* Every finite set of integers has a greatest and a least one.
LEMMA GreatestOf ==
  ASSUME NEW S, S \subseteq Int, IsFiniteSet(S), S # {}
  PROVE  Max(S) \in S /\ \A k \in S : k <= Max(S)
<1> DEFINE UpFrom(y) == {x \in S : x >= y}
<1> DEFINE Ups == {UpFrom(y) : y \in S}
<1> DEFINE Order == StrictSubsetOrdering(S)
<1>1. Ups \subseteq FiniteSubsetsOf(S) /\ Ups # {}
  <2>1. \A y \in S : UpFrom(y) \in SUBSET S /\ IsFiniteSet(UpFrom(y)) BY FS_Subset
  <2> QED BY <2>1 DEF FiniteSubsetsOf
<1>2. IsWellFoundedOn(Order, FiniteSubsetsOf(S)) BY FS_StrictSubsetOrderingWellFounded
<1>3. PICK b \in Ups : \A c \in Ups : <<c, b>> \notin Order
  <2> HIDE DEF Ups, Order
  <2> QED BY <1>1, <1>2, WFMin
<1>4. PICK m \in S : b = UpFrom(m) BY <1>3
<1>5. ASSUME NEW k \in S, k > m
      PROVE  FALSE
  <2>0. k \in Int /\ m \in Int /\ \A x \in S : x \in Int OBVIOUS
  <2>1. UpFrom(k) \subseteq b
    <3>1. \A x \in S : x >= k => x >= m BY <2>0, <1>5
    <3> QED BY <3>1, <1>4
  <2>3. m \in b /\ m \notin UpFrom(k) BY <2>0, <1>4, <1>5
  <2>2. <<UpFrom(k), b>> \in Order BY <2>1, <2>3, <1>4 DEF StrictSubsetOrdering
  <2> QED BY <1>3, <2>2
<1>6. \E x \in S : \A y \in S : x >= y BY <1>5
<1>7. Max(S) \in S /\ \A k \in S : Max(S) >= k BY <1>6 DEF Max
<1> QED BY <1>7

\* And a least one.
LEMMA LeastOf ==
  ASSUME NEW S, S \subseteq Int, IsFiniteSet(S), S # {}
  PROVE  Min(S) \in S /\ \A k \in S : Min(S) <= k
<1> DEFINE DownFrom(y) == {x \in S : x <= y}
<1> DEFINE Downs == {DownFrom(y) : y \in S}
<1> DEFINE Order == StrictSubsetOrdering(S)
<1>1. Downs \subseteq FiniteSubsetsOf(S) /\ Downs # {}
  <2>1. \A y \in S : DownFrom(y) \in SUBSET S /\ IsFiniteSet(DownFrom(y)) BY FS_Subset
  <2> QED BY <2>1 DEF FiniteSubsetsOf
<1>2. IsWellFoundedOn(Order, FiniteSubsetsOf(S)) BY FS_StrictSubsetOrderingWellFounded
<1>3. PICK b \in Downs : \A c \in Downs : <<c, b>> \notin Order
  <2> HIDE DEF Downs, Order
  <2> QED BY <1>1, <1>2, WFMin
<1>4. PICK m \in S : b = DownFrom(m) BY <1>3
<1>5. ASSUME NEW k \in S, k < m
      PROVE  FALSE
  <2>0. k \in Int /\ m \in Int /\ \A x \in S : x \in Int OBVIOUS
  <2>1. DownFrom(k) \subseteq b
    <3>1. \A x \in S : x <= k => x <= m BY <2>0, <1>5
    <3> QED BY <3>1, <1>4
  <2>3. m \in b /\ m \notin DownFrom(k) BY <2>0, <1>4, <1>5
  <2>2. <<DownFrom(k), b>> \in Order BY <2>1, <2>3, <1>4 DEF StrictSubsetOrdering
  <2> QED BY <1>3, <2>2
<1>6. \E x \in S : \A y \in S : x =< y BY <1>5
<1>7. Min(S) \in S /\ \A k \in S : Min(S) =< k BY <1>6 DEF Min
<1> QED BY <1>7
----
\* Lists of blocks.
Block == [offset : Nat, size : Nat]

\* What a sequence of blocks is once one is put into it at i.
LEMMA Inserted ==
  ASSUME NEW s \in Seq(Block), NEW i \in 1 .. Len(s) + 1, NEW b \in Block
  PROVE  /\ InsertAt(s, i, b) \in Seq(Block) /\ Len(InsertAt(s, i, b)) = Len(s) + 1
         /\ InsertAt(s, i, b)[i] = b
         /\ \A j \in 1 .. Len(s) : j < i => InsertAt(s, i, b)[j] = s[j]
         /\ \A j \in 1 .. Len(s) : j >= i => InsertAt(s, i, b)[j + 1] = s[j]
<1> DEFINE a == SubSeq(s, 1, i - 1)
<1> DEFINE d == SubSeq(s, i, Len(s))
<1>1. a \in Seq(Block) /\ Len(a) = i - 1 /\ \A j \in 1 .. i - 1 : a[j] = s[j] OBVIOUS
<1>2. d \in Seq(Block) /\ Len(d) = Len(s) - i + 1 /\ \A j \in 1 .. Len(s) - i + 1 : d[j] = s[i + j - 1]
  OBVIOUS
<1> HIDE DEF a, d
<1>3. <<b>> \in Seq(Block) /\ Len(<<b>>) = 1 /\ <<b>>[1] = b OBVIOUS
<1> DEFINE e == a \o <<b>>
<1>4. e \in Seq(Block) /\ Len(e) = i /\ \A j \in 1 .. i : e[j] = IF j < i THEN s[j] ELSE b BY <1>1, <1>3
<1> HIDE DEF e
<1>5. /\ e \o d \in Seq(Block) /\ Len(e \o d) = Len(s) + 1
      /\ \A j \in 1 .. Len(s) + 1 : (e \o d)[j] = IF j <= i THEN e[j] ELSE d[j - i]
  <2>1. /\ e \o d \in Seq(Block) /\ Len(e \o d) = Len(e) + Len(d)
        /\ \A j \in 1 .. Len(e) + Len(d) : (e \o d)[j] = IF j <= Len(e) THEN e[j] ELSE d[j - Len(e)]
    BY <1>2, <1>4, ConcatProperties
  <2>2. Len(e) + Len(d) = Len(s) + 1 /\ Len(e) = i BY <1>2, <1>4
  <2> QED BY <2>1, <2>2
<1>6. InsertAt(s, i, b) = e \o d BY DEF InsertAt, a, d, e
<1>7. (e \o d)[i] = b BY <1>4, <1>5
<1>8. ASSUME NEW j \in 1 .. Len(s), j < i
      PROVE  (e \o d)[j] = s[j]
  BY <1>4, <1>5, <1>8
<1>9. ASSUME NEW j \in 1 .. Len(s), j >= i
      PROVE  (e \o d)[j + 1] = s[j]
  <2>1. j + 1 \in 1 .. Len(s) + 1 /\ ~(j + 1 <= i) /\ (j + 1) - i \in 1 .. Len(s) - i + 1
        /\ i + ((j + 1) - i) - 1 = j BY <1>9
  <2> QED BY <2>1, <1>2, <1>5
<1> QED BY <1>5, <1>6, <1>7, <1>8, <1>9

\* What it is once the one at i is taken out.
LEMMA Removed ==
  ASSUME NEW s \in Seq(Block), NEW i \in 1 .. Len(s)
  PROVE  /\ RemoveAt(s, i) \in Seq(Block) /\ Len(RemoveAt(s, i)) = Len(s) - 1
         /\ \A j \in 1 .. Len(s) - 1 : j < i => RemoveAt(s, i)[j] = s[j]
         /\ \A j \in 1 .. Len(s) - 1 : j >= i => RemoveAt(s, i)[j] = s[j + 1]
<1> DEFINE a == SubSeq(s, 1, i - 1)
<1> DEFINE d == SubSeq(s, i + 1, Len(s))
<1>1. a \in Seq(Block) /\ Len(a) = i - 1 /\ \A j \in 1 .. i - 1 : a[j] = s[j] OBVIOUS
<1>2. d \in Seq(Block) /\ Len(d) = Len(s) - i /\ \A j \in 1 .. Len(s) - i : d[j] = s[i + j] OBVIOUS
<1> HIDE DEF a, d
<1>5. /\ a \o d \in Seq(Block) /\ Len(a \o d) = Len(s) - 1
      /\ \A j \in 1 .. Len(s) - 1 : (a \o d)[j] = IF j < i THEN a[j] ELSE d[j - i + 1]
  <2>1. /\ a \o d \in Seq(Block) /\ Len(a \o d) = Len(a) + Len(d)
        /\ \A j \in 1 .. Len(a) + Len(d) : (a \o d)[j] = IF j <= Len(a) THEN a[j] ELSE d[j - Len(a)]
    BY <1>1, <1>2, ConcatProperties
  <2>2. Len(a) + Len(d) = Len(s) - 1 /\ Len(a) = i - 1 BY <1>1, <1>2
  <2> QED BY <2>1, <2>2
<1>6. RemoveAt(s, i) = a \o d BY DEF RemoveAt, a, d
<1>7. ASSUME NEW j \in 1 .. Len(s) - 1, j >= i
      PROVE  d[j - i + 1] = s[j + 1]
  <2>1. j - i + 1 \in 1 .. Len(s) - i /\ i + (j - i + 1) = j + 1 BY <1>7
  <2> QED BY <1>2, <2>1
<1> QED BY <1>1, <1>5, <1>6, <1>7

\* What it is once the one at i is exchanged.
LEMMA Replaced ==
  ASSUME NEW s \in Seq(Block), NEW i \in 1 .. Len(s), NEW b \in Block
  PROVE  /\ ReplaceAt(s, i, b) \in Seq(Block) /\ Len(ReplaceAt(s, i, b)) = Len(s)
         /\ ReplaceAt(s, i, b)[i] = b
         /\ \A j \in 1 .. Len(s) : j # i => ReplaceAt(s, i, b)[j] = s[j] BY DEF ReplaceAt

----
\* A free list: the runs of rows that its blocks cover.

\* n runs of rows, the i-th from lo[i] up to hi[i], sorted, a gap between any two.
Gapped(n, lo, hi) ==
  /\ \A j \in 1 .. n : lo[j] < hi[j]
  /\ \A j, k \in 1 .. n : j < k => hi[j] < lo[k]
Covers(n, lo, hi, x) == \E j \in 1 .. n : lo[j] <= x /\ x < hi[j]

\* A run that begins later covers less, by what lies before.
LEMMA RaiseLow ==
  ASSUME NEW n \in Nat, NEW lo \in [1 .. n -> Nat], NEW hi \in [1 .. n -> Nat],
         NEW lo2 \in [1 .. n -> Nat], Gapped(n, lo, hi), NEW i \in 1 .. n,
         lo[i] < lo2[i], lo2[i] < hi[i], \A j \in 1 .. n : j # i => lo2[j] = lo[j]
  PROVE  /\ Gapped(n, lo2, hi)
         /\ \A x \in Nat : Covers(n, lo2, hi, x) <=> Covers(n, lo, hi, x) /\ ~(lo[i] <= x /\ x < lo2[i])
<1>1. ASSUME NEW j \in 1 .. n PROVE lo2[j] < hi[j] BY DEF Gapped
<1>2. ASSUME NEW j \in 1 .. n, NEW k \in 1 .. n, j < k PROVE hi[j] < lo2[k] BY <1>2, SMTT(30) DEF Gapped
<1>3. ASSUME NEW x \in Nat, NEW j \in 1 .. n, lo2[j] <= x, x < hi[j]
      PROVE  lo[j] <= x
  BY <1>3, SMTT(30)
<1>4. ASSUME NEW x \in Nat, NEW j \in 1 .. n, lo2[j] <= x, x < hi[j]
      PROVE  ~(lo[i] <= x /\ x < lo2[i])
  <2>1. CASE j = i BY <1>4, <2>1
  <2>2. CASE j < i
    <3>1. hi[j] < lo[i] BY <2>2 DEF Gapped
    <3> QED BY <1>4, <3>1
  <2>3. CASE i < j
    <3>1. hi[i] < lo[j] /\ lo2[j] = lo[j] BY <2>3 DEF Gapped
    <3> QED BY <1>4, <3>1
  <2> QED BY <2>1, <2>2, <2>3
<1>5. ASSUME NEW x \in Nat, NEW j \in 1 .. n, lo[j] <= x, x < hi[j], ~(lo[i] <= x /\ x < lo2[i])
      PROVE  lo2[j] <= x
  <2>1. CASE j = i
    <3>1. ~(lo[i] <= x /\ x < lo2[i]) /\ lo[i] <= x /\ lo2[i] \in Nat BY <1>5, <2>1
    <3> QED BY <2>1, <3>1
  <2>2. CASE j # i
    <3>1. lo2[j] = lo[j] /\ lo[j] <= x BY <1>5, <2>2
    <3> QED BY <3>1
  <2> QED BY <2>1, <2>2
<1> QED BY <1>1, <1>2, <1>3, <1>4, <1>5 DEF Gapped, Covers

\* A run that is dropped covers nothing any more.
LEMMA DropRun ==
  ASSUME NEW n \in Nat, NEW lo \in [1 .. n -> Nat], NEW hi \in [1 .. n -> Nat], Gapped(n, lo, hi),
         NEW i \in 1 .. n,
         NEW lo2 \in [1 .. n - 1 -> Nat], NEW hi2 \in [1 .. n - 1 -> Nat],
         \A j \in 1 .. n - 1 : j < i => lo2[j] = lo[j] /\ hi2[j] = hi[j],
         \A j \in 1 .. n - 1 : j >= i => lo2[j] = lo[j + 1] /\ hi2[j] = hi[j + 1]
  PROVE  /\ Gapped(n - 1, lo2, hi2)
         /\ \A x \in Nat : Covers(n - 1, lo2, hi2, x) <=> Covers(n, lo, hi, x) /\ ~(lo[i] <= x /\ x < hi[i])
<1>0. \A j \in 1 .. n - 1 : \E k \in 1 .. n : /\ k # i /\ lo2[j] = lo[k] /\ hi2[j] = hi[k]
  <2> TAKE j \in 1 .. n - 1
  <2>1. CASE j < i BY <2>1, SMTT(30)
  <2>2. CASE j >= i
    <3>1. j + 1 \in 1 .. n /\ j + 1 # i BY <2>2
    <3> QED BY <2>2, <3>1
  <2> QED BY <2>1, <2>2
<1>1. ASSUME NEW j \in 1 .. n - 1 PROVE lo2[j] < hi2[j] BY <1>0 DEF Gapped
<1>2. ASSUME NEW j \in 1 .. n - 1, NEW k \in 1 .. n - 1, j < k PROVE hi2[j] < lo2[k]
  <2>1. CASE k < i
    <3>1. j \in 1 .. n /\ k \in 1 .. n /\ hi2[j] = hi[j] /\ lo2[k] = lo[k] BY <1>2, <2>1
    <3> QED BY <1>2, <3>1 DEF Gapped
  <2>2. CASE j < i /\ k >= i
    <3>1. j \in 1 .. n /\ k + 1 \in 1 .. n /\ j < k + 1 /\ hi2[j] = hi[j] /\ lo2[k] = lo[k + 1] BY <1>2, <2>2
    <3> QED BY <1>2, <3>1 DEF Gapped
  <2>3. CASE j >= i
    <3>1. j + 1 \in 1 .. n /\ k + 1 \in 1 .. n /\ j + 1 < k + 1 /\ hi2[j] = hi[j + 1] /\ lo2[k] = lo[k + 1]
      BY <1>2, <2>3
    <3> QED BY <1>2, <3>1 DEF Gapped
  <2> QED BY <1>2, <2>1, <2>2, <2>3
<1>3. ASSUME NEW x \in Nat, NEW j \in 1 .. n - 1, lo2[j] <= x, x < hi2[j]
      PROVE  Covers(n, lo, hi, x) /\ ~(lo[i] <= x /\ x < hi[i])
  <2>1. PICK k \in 1 .. n : /\ k # i /\ lo2[j] = lo[k] /\ hi2[j] = hi[k] BY <1>0
  <2>2. (k < i => hi[k] < lo[i]) /\ (i < k => hi[i] < lo[k]) BY DEF Gapped
  <2>3. lo[k] <= x /\ x < hi[k] BY <1>3, <2>1
  <2>4. Covers(n, lo, hi, x) BY <2>3 DEF Covers
  <2>5. CASE k < i
    <3>1. hi[k] < lo[i] BY <2>2, <2>5
    <3> QED BY <2>3, <2>4, <3>1
  <2>6. CASE i < k
    <3>1. hi[i] < lo[k] BY <2>2, <2>6
    <3> QED BY <2>3, <2>4, <3>1
  <2> QED BY <2>1, <2>5, <2>6
<1>4. ASSUME NEW x \in Nat, NEW j \in 1 .. n, lo[j] <= x, x < hi[j], ~(lo[i] <= x /\ x < hi[i])
      PROVE  Covers(n - 1, lo2, hi2, x)
  <2>1. j # i BY <1>4
  <2>2. CASE j < i
    <3>1. j \in 1 .. n - 1 /\ lo2[j] = lo[j] /\ hi2[j] = hi[j] BY <2>2
    <3> QED BY <1>4, <3>1 DEF Covers
  <2>3. CASE j > i
    <3>1. j - 1 \in 1 .. n - 1 /\ j - 1 >= i /\ (j - 1) + 1 = j BY <2>3
    <3>2. lo2[j - 1] = lo[j] /\ hi2[j - 1] = hi[j] BY <3>1
    <3> QED BY <1>4, <3>1, <3>2 DEF Covers
  <2> QED BY <2>1, <2>2, <2>3
<1>5. Gapped(n - 1, lo2, hi2) BY <1>1, <1>2 DEF Gapped
<1> QED BY <1>5, <1>3, <1>4 DEF Covers


\* A run from a up to b comes between two others.
LEMMA InsertRun ==
  ASSUME NEW n \in Nat, NEW lo \in [1 .. n -> Nat], NEW hi \in [1 .. n -> Nat], Gapped(n, lo, hi),
         NEW i \in 1 .. n + 1, NEW a \in Nat, NEW b \in Nat, a < b,
         \A j \in 1 .. n : (j < i => hi[j] < a) /\ (j >= i => b < lo[j]),
         NEW lo2 \in [1 .. n + 1 -> Nat], NEW hi2 \in [1 .. n + 1 -> Nat], lo2[i] = a, hi2[i] = b,
         \A j \in 1 .. n : j < i => lo2[j] = lo[j] /\ hi2[j] = hi[j],
         \A j \in 1 .. n : j >= i => lo2[j + 1] = lo[j] /\ hi2[j + 1] = hi[j]
  PROVE  /\ Gapped(n + 1, lo2, hi2)
         /\ \A x \in Nat : Covers(n + 1, lo2, hi2, x) <=> Covers(n, lo, hi, x) \/ (a <= x /\ x < b)
<1>a. ASSUME NEW k \in 1 .. n + 1, k < i
      PROVE  k \in 1 .. n /\ lo2[k] = lo[k] /\ hi2[k] = hi[k]
  <2>1. k \in 1 .. n BY <1>a
  <2> QED BY <2>1, <1>a
<1>b. ASSUME NEW k \in 1 .. n + 1, i < k
      PROVE  k - 1 \in 1 .. n /\ k - 1 >= i /\ lo2[k] = lo[k - 1] /\ hi2[k] = hi[k - 1]
  <2>1. k - 1 \in 1 .. n /\ k - 1 >= i /\ k = (k - 1) + 1 BY <1>b
  <2> QED BY <2>1
<1>1. ASSUME NEW k \in 1 .. n + 1 PROVE lo2[k] < hi2[k]
  <2>1. CASE k = i BY <2>1
  <2>2. CASE k < i BY <1>a, <2>2 DEF Gapped
  <2>3. CASE i < k
    <3>1. k - 1 \in 1 .. n /\ lo2[k] = lo[k - 1] /\ hi2[k] = hi[k - 1] BY <1>b, <2>3
    <3> QED BY <3>1 DEF Gapped
  <2> QED BY <2>1, <2>2, <2>3
<1>2. ASSUME NEW k \in 1 .. n + 1, NEW l \in 1 .. n + 1, k < l PROVE hi2[k] < lo2[l]
  <2>1. CASE k = i
    <3>1. l - 1 \in 1 .. n /\ l - 1 >= i /\ lo2[l] = lo[l - 1] BY <1>b, <1>2, <2>1
    <3> QED BY <2>1, <3>1
  <2>2. CASE l = i
    <3>1. k \in 1 .. n /\ hi2[k] = hi[k] /\ k < i BY <1>a, <1>2, <2>2
    <3> QED BY <2>2, <3>1
  <2>3. CASE l < i
    <3>1. k \in 1 .. n /\ l \in 1 .. n /\ k < l /\ l < i /\ k < i BY <1>2, <2>3
    <3>2. hi2[k] = hi[k] /\ lo2[l] = lo[l] BY <1>a, <3>1
    <3> QED BY <3>1, <3>2 DEF Gapped
  <2>4. CASE k < i /\ i < l
    <3>1. k \in 1 .. n /\ hi2[k] = hi[k] /\ l - 1 \in 1 .. n /\ lo2[l] = lo[l - 1] /\ l - 1 >= i
      BY <1>a, <1>b, <2>4
    <3>2. k < l - 1 BY <2>4, <3>1
    <3> QED BY <3>2, <3>1 DEF Gapped
  <2>5. CASE i < k
    <3>1. k - 1 \in 1 .. n /\ hi2[k] = hi[k - 1] /\ l - 1 \in 1 .. n /\ lo2[l] = lo[l - 1] BY <1>b, <1>2, <2>5
    <3>2. k - 1 < l - 1 BY <1>2
    <3> QED BY <3>2, <3>1 DEF Gapped
  <2> QED BY <1>2, <2>1, <2>2, <2>3, <2>4, <2>5
<1>3. ASSUME NEW x \in Nat, NEW k \in 1 .. n + 1, lo2[k] <= x, x < hi2[k]
      PROVE  Covers(n, lo, hi, x) \/ (a <= x /\ x < b)
  <2>1. CASE k = i BY <1>3, <2>1
  <2>2. CASE k < i
    <3>1. k \in 1 .. n /\ lo2[k] = lo[k] /\ hi2[k] = hi[k] BY <1>a, <2>2
    <3> QED BY <1>3, <3>1 DEF Covers
  <2>3. CASE i < k
    <3>1. k - 1 \in 1 .. n /\ lo2[k] = lo[k - 1] /\ hi2[k] = hi[k - 1] BY <1>b, <2>3
    <3> QED BY <1>3, <3>1 DEF Covers
  <2> QED BY <2>1, <2>2, <2>3
<1>4. ASSUME NEW x \in Nat, NEW j \in 1 .. n, lo[j] <= x, x < hi[j]
      PROVE  Covers(n + 1, lo2, hi2, x)
  <2>1. CASE j < i
    <3>1. j \in 1 .. n + 1 /\ lo2[j] = lo[j] /\ hi2[j] = hi[j] BY <2>1
    <3> QED BY <1>4, <3>1 DEF Covers
  <2>2. CASE j >= i
    <3>1. j + 1 \in 1 .. n + 1 /\ lo2[j + 1] = lo[j] /\ hi2[j + 1] = hi[j] BY <2>2
    <3> QED BY <1>4, <3>1 DEF Covers
  <2> QED BY <2>1, <2>2
<1>5. Gapped(n + 1, lo2, hi2) BY <1>1, <1>2 DEF Gapped
<1>6. \A x \in Nat : (a <= x /\ x < b) => Covers(n + 1, lo2, hi2, x) BY DEF Covers
<1> QED BY <1>5, <1>3, <1>4, <1>6 DEF Covers

\* A run ends later, but before the next one starts.
LEMMA RaiseHigh ==
  ASSUME NEW n \in Nat, NEW lo \in [1 .. n -> Nat], NEW hi \in [1 .. n -> Nat], Gapped(n, lo, hi),
         NEW i \in 1 .. n, NEW hi2 \in [1 .. n -> Nat], hi[i] <= hi2[i],
         \A j \in 1 .. n : i < j => hi2[i] < lo[j], \A j \in 1 .. n : j # i => hi2[j] = hi[j]
  PROVE  /\ Gapped(n, lo, hi2)
         /\ \A x \in Nat : Covers(n, lo, hi2, x) <=> Covers(n, lo, hi, x) \/ (hi[i] <= x /\ x < hi2[i])
<1>1. ASSUME NEW j \in 1 .. n PROVE lo[j] < hi2[j]
  <2>1. lo[j] < hi[j] BY DEF Gapped
  <2>2. hi[j] <= hi2[j] BY <2>1, SMTT(30)
  <2> QED BY <2>1, <2>2
<1>2. ASSUME NEW j \in 1 .. n, NEW k \in 1 .. n, j < k PROVE hi2[j] < lo[k] BY <1>2 DEF Gapped
<1>3. ASSUME NEW x \in Nat, NEW j \in 1 .. n, lo[j] <= x, x < hi2[j]
      PROVE  Covers(n, lo, hi, x) \/ (hi[i] <= x /\ x < hi2[i])
  <2>1. CASE j = i
    <3>1. x < hi[i] \/ hi[i] <= x OBVIOUS
    <3> QED BY <1>3, <2>1, <3>1 DEF Covers
  <2>2. CASE j # i BY <1>3, <2>2 DEF Covers
  <2> QED BY <2>1, <2>2
<1>4. ASSUME NEW x \in Nat, NEW j \in 1 .. n, lo[j] <= x, x < hi[j]
      PROVE  x < hi2[j]
  BY <1>4
<1>5. ASSUME NEW x \in Nat, hi[i] <= x
      PROVE  lo[i] <= x
  <2>1. lo[i] < hi[i] BY DEF Gapped
  <2> QED BY <1>5, <2>1
<1> QED BY <1>1, <1>2, <1>3, <1>4, <1>5 DEF Gapped, Covers

\* A run starts earlier, but grown the one before it has ended.
LEMMA LowerLow ==
  ASSUME NEW n \in Nat, NEW lo \in [1 .. n -> Nat], NEW hi \in [1 .. n -> Nat], Gapped(n, lo, hi),
         NEW i \in 1 .. n, NEW lo2 \in [1 .. n -> Nat], lo2[i] <= lo[i],
         \A j \in 1 .. n : j < i => hi[j] < lo2[i], \A j \in 1 .. n : j # i => lo2[j] = lo[j]
  PROVE  /\ Gapped(n, lo2, hi)
         /\ \A x \in Nat : Covers(n, lo2, hi, x) <=> Covers(n, lo, hi, x) \/ (lo2[i] <= x /\ x < lo[i])
<1>1. ASSUME NEW j \in 1 .. n PROVE lo2[j] < hi[j]
  <2>1. lo[j] < hi[j] BY DEF Gapped
  <2>2. lo2[j] <= lo[j]
    <3>1. CASE j = i BY <3>1
    <3>2. CASE j # i
      <4>1. lo2[j] = lo[j] /\ lo[j] \in Nat BY <3>2
      <4> QED BY <4>1
    <3> QED BY <3>1, <3>2
  <2> QED BY <2>1, <2>2
<1>2. ASSUME NEW j \in 1 .. n, NEW k \in 1 .. n, j < k PROVE hi[j] < lo2[k] BY <1>2 DEF Gapped
<1>3. ASSUME NEW x \in Nat, NEW j \in 1 .. n, lo2[j] <= x, x < hi[j]
      PROVE  Covers(n, lo, hi, x) \/ (lo2[i] <= x /\ x < lo[i])
  <2>1. CASE j = i
    <3>1. x < lo[i] \/ lo[i] <= x OBVIOUS
    <3> QED BY <1>3, <2>1, <3>1 DEF Covers
  <2>2. CASE j # i BY <1>3, <2>2 DEF Covers
  <2> QED BY <2>1, <2>2
<1>4. ASSUME NEW x \in Nat, NEW j \in 1 .. n, lo[j] <= x, x < hi[j]
      PROVE  lo2[j] <= x
  BY <1>4, SMTT(30)
<1>5. ASSUME NEW x \in Nat, x < lo[i]
      PROVE  x < hi[i]
  <2>1. lo[i] < hi[i] BY DEF Gapped
  <2> QED BY <1>5, <2>1
<1> QED BY <1>1, <1>2, <1>3, <1>4, <1>5 DEF Gapped, Covers


\* Two neighbours and the gap between them become one run.
LEMMA JoinRuns ==
  ASSUME NEW n \in Nat, NEW lo \in [1 .. n -> Nat], NEW hi \in [1 .. n -> Nat], Gapped(n, lo, hi),
         NEW i \in 1 .. n, i < n,
         NEW lo2 \in [1 .. n - 1 -> Nat], NEW hi2 \in [1 .. n - 1 -> Nat],
         \A j \in 1 .. n - 1 : j <= i => lo2[j] = lo[j],
         \A j \in 1 .. n - 1 : j < i => hi2[j] = hi[j],
         \A j \in 1 .. n - 1 : j > i => lo2[j] = lo[j + 1],
         \A j \in 1 .. n - 1 : j >= i => hi2[j] = hi[j + 1]
  PROVE  /\ Gapped(n - 1, lo2, hi2)
         /\ \A x \in Nat : Covers(n - 1, lo2, hi2, x) <=> Covers(n, lo, hi, x) \/ (hi[i] <= x /\ x < lo[i + 1])
<1> DEFINE mid == [j \in 1 .. n - 1 |-> IF j = i THEN hi[i] ELSE hi2[j]]
<1>1. mid \in [1 .. n - 1 -> Nat] /\ mid[i] = hi[i] /\ \A j \in 1 .. n - 1 : j # i => mid[j] = hi2[j]
  OBVIOUS
<1> HIDE DEF mid
<1>2. i + 1 \in 1 .. n /\ i \in 1 .. n - 1 /\ n - 1 \in Nat OBVIOUS
<1>3. ASSUME NEW j \in 1 .. n - 1, j < i + 1
      PROVE  lo2[j] = lo[j] /\ mid[j] = hi[j]
  <2>1. j < i \/ j = i BY <1>3
  <2>2. CASE j < i BY <2>2, <1>1, SMTT(30)
  <2>3. CASE j = i BY <2>3, <1>1
  <2> QED BY <2>1, <2>2, <2>3
<1>4. ASSUME NEW j \in 1 .. n - 1, j >= i + 1
      PROVE  lo2[j] = lo[j + 1] /\ mid[j] = hi[j + 1]
  <2>1. j > i BY <1>4
  <2> QED BY <2>1, <1>1
<1>5. /\ Gapped(n - 1, lo2, mid)
      /\ \A x \in Nat : Covers(n - 1, lo2, mid, x) <=> Covers(n, lo, hi, x) /\ ~(lo[i + 1] <= x /\ x < hi[i + 1])
  BY <1>1, <1>2, <1>3, <1>4, DropRun
<1>6. hi2[i] = hi[i + 1] /\ hi[i] < lo[i + 1] /\ lo[i + 1] < hi[i + 1] BY <1>2 DEF Gapped
<1>7. mid[i] <= hi2[i] BY <1>1, <1>2, <1>6
<1>8. \A j \in 1 .. n - 1 : i < j => hi2[i] < lo2[j]
  <2> TAKE j \in 1 .. n - 1
  <2> HAVE i < j
  <2>1. j + 1 \in 1 .. n /\ i + 1 < j + 1 /\ lo2[j] = lo[j + 1] OBVIOUS
  <2> QED BY <2>1, <1>2, <1>6 DEF Gapped
<1>9. /\ Gapped(n - 1, lo2, hi2)
      /\ \A x \in Nat : Covers(n - 1, lo2, hi2, x) <=> Covers(n - 1, lo2, mid, x) \/ (mid[i] <= x /\ x < hi2[i])
  BY <1>1, <1>2, <1>5, <1>7, <1>8, RaiseHigh
<1>10. ASSUME NEW x \in Nat
       PROVE  Covers(n - 1, lo2, hi2, x) <=> Covers(n, lo, hi, x) \/ (hi[i] <= x /\ x < lo[i + 1])
  <2>1. Covers(n - 1, lo2, hi2, x)
        <=> (Covers(n, lo, hi, x) /\ ~(lo[i + 1] <= x /\ x < hi[i + 1])) \/ (hi[i] <= x /\ x < hi[i + 1])
    BY <1>1, <1>5, <1>6, <1>9
  <2>2. (lo[i + 1] <= x /\ x < hi[i + 1]) => Covers(n, lo, hi, x) BY <1>2 DEF Covers
  <2>3. lo[i + 1] \in Nat /\ hi[i + 1] \in Nat /\ hi[i] \in Nat BY <1>2
  <2>4. (hi[i] <= x /\ x < hi[i + 1]) <=> (hi[i] <= x /\ x < lo[i + 1]) \/ (lo[i + 1] <= x /\ x < hi[i + 1])
    BY <1>6, <2>3
  <2> QED BY <2>1, <2>2, <2>4
<1> QED BY <1>9, <1>10
----
\* The same of lists of blocks.
Lo(s) == [j \in 1 .. Len(s) |-> s[j].offset]
Hi(s) == [j \in 1 .. Len(s) |-> s[j].offset + s[j].size]
IsFreeList(s) == s \in Seq(Block) /\ Gapped(Len(s), Lo(s), Hi(s))
Has(s, x) == Covers(Len(s), Lo(s), Hi(s), x)
In(b, x) == b.offset <= x /\ x < b.offset + b.size

\* Where the blocks of a list begin and end.
LEMMA LoHi ==
  ASSUME NEW s \in Seq(Block)
  PROVE  /\ Len(s) \in Nat /\ Lo(s) \in [1 .. Len(s) -> Nat] /\ Hi(s) \in [1 .. Len(s) -> Nat]
         /\ \A j \in 1 .. Len(s) : /\ s[j] \in Block /\ s[j].offset \in Nat /\ s[j].size \in Nat
                                  /\ Lo(s)[j] = s[j].offset /\ Hi(s)[j] = s[j].offset + s[j].size
<1>1. \A j \in 1 .. Len(s) : s[j] \in Block BY ElementOfSeq
<1>2. \A j \in 1 .. Len(s) : s[j].offset \in Nat /\ s[j].size \in Nat BY <1>1 DEF Block
<1> QED BY <1>1, <1>2 DEF Lo, Hi

\* A part of a block is taken, from its start.
LEMMA TakeSome ==
  ASSUME NEW s, IsFreeList(s), NEW i \in 1 .. Len(s), NEW n \in Nat, n > 0, n < s[i].size,
         NEW b \in Block, b.offset = s[i].offset + n, b.size = s[i].size - n
  PROVE  /\ IsFreeList(ReplaceAt(s, i, b))
         /\ \A x \in Nat : Has(ReplaceAt(s, i, b), x)
                          <=> Has(s, x) /\ ~(s[i].offset <= x /\ x < s[i].offset + n)
<1>1. s \in Seq(Block) /\ Gapped(Len(s), Lo(s), Hi(s)) BY DEF IsFreeList
<1>2. PICK r : r = ReplaceAt(s, i, b) OBVIOUS
<1>3. /\ r \in Seq(Block) /\ Len(r) = Len(s) /\ r[i] = b
      /\ \A j \in 1 .. Len(s) : j # i => r[j] = s[j] BY <1>1, <1>2, Replaced
<1>4. s[i].offset \in Nat /\ s[i].size \in Nat /\ b.offset \in Nat /\ b.size \in Nat BY <1>1, LoHi DEF Block
<1>5. Lo(r)[i] = Lo(s)[i] + n /\ Lo(s)[i] < Lo(r)[i] /\ Lo(r)[i] < Hi(s)[i] /\ Hi(r)[i] = Hi(s)[i]
  <2>1. Lo(r)[i] = b.offset /\ Hi(r)[i] = b.offset + b.size BY <1>3, LoHi
  <2>2. Lo(s)[i] = s[i].offset /\ Hi(s)[i] = s[i].offset + s[i].size BY <1>1, LoHi
  <2>3. PICK o \in Nat, z \in Nat : o = s[i].offset /\ z = s[i].size BY <1>4
  <2>4. n < z /\ b.offset = o + n /\ b.size = z - n BY <2>3
  <2>5. Lo(r)[i] = o + n /\ Hi(r)[i] = (o + n) + (z - n) /\ Lo(s)[i] = o /\ Hi(s)[i] = o + z
    BY <2>1, <2>2, <2>3, <2>4
  <2> HIDE <2>3
  <2> QED BY <2>4, <2>5
<1>6. Hi(r) = Hi(s)
  <2>1. \A j \in 1 .. Len(s) : Hi(r)[j] = Hi(s)[j]
    <3> TAKE j \in 1 .. Len(s)
    <3>1. CASE j = i BY <1>5, <3>1
    <3>2. CASE j # i BY <1>1, <1>3, <3>2, LoHi, ZenonT(30)
    <3> QED BY <3>1, <3>2
  <2>2. Hi(r) \in [1 .. Len(s) -> Nat] /\ Hi(s) \in [1 .. Len(s) -> Nat] BY <1>1, <1>3, LoHi
  <2> QED BY <2>1, <2>2
<1>7. /\ Lo(s) \in [1 .. Len(s) -> Nat] /\ Hi(s) \in [1 .. Len(s) -> Nat] /\ Lo(r) \in [1 .. Len(s) -> Nat]
      /\ Len(s) \in Nat /\ \A j \in 1 .. Len(s) : j # i => Lo(r)[j] = Lo(s)[j]
  BY <1>1, <1>3, LoHi, ZenonT(30)
<1>8. /\ Gapped(Len(s), Lo(r), Hi(s))
      /\ \A x \in Nat : Covers(Len(s), Lo(r), Hi(s), x)
                       <=> Covers(Len(s), Lo(s), Hi(s), x) /\ ~(Lo(s)[i] <= x /\ x < Lo(r)[i])
  BY <1>1, <1>5, <1>7, RaiseLow
<1>9. Lo(s)[i] = s[i].offset /\ Lo(r)[i] = s[i].offset + n BY <1>1, <1>5, LoHi
<1> QED BY <1>2, <1>3, <1>6, <1>8, <1>9 DEF IsFreeList, Has

\* A block is taken whole.
LEMMA TakeAll ==
  ASSUME NEW s, IsFreeList(s), NEW i \in 1 .. Len(s)
  PROVE  /\ IsFreeList(RemoveAt(s, i))
         /\ \A x \in Nat : Has(RemoveAt(s, i), x) <=> Has(s, x) /\ ~In(s[i], x)
<1>1. s \in Seq(Block) /\ Gapped(Len(s), Lo(s), Hi(s)) BY DEF IsFreeList
<1>2. PICK r : r = RemoveAt(s, i) OBVIOUS
<1>3. /\ r \in Seq(Block) /\ Len(r) = Len(s) - 1
      /\ \A j \in 1 .. Len(s) - 1 : j < i => r[j] = s[j]
      /\ \A j \in 1 .. Len(s) - 1 : j >= i => r[j] = s[j + 1] BY <1>1, <1>2, Removed
<1>4. /\ Len(s) \in Nat /\ Lo(s) \in [1 .. Len(s) -> Nat] /\ Hi(s) \in [1 .. Len(s) -> Nat]
      /\ Lo(r) \in [1 .. Len(s) - 1 -> Nat] /\ Hi(r) \in [1 .. Len(s) - 1 -> Nat] BY <1>1, <1>3, LoHi
<1>5. ASSUME NEW j \in 1 .. Len(s) - 1, j < i
      PROVE  Lo(r)[j] = Lo(s)[j] /\ Hi(r)[j] = Hi(s)[j]
  <2>1. j \in 1 .. Len(s) /\ j \in 1 .. Len(r) /\ r[j] = s[j] BY <1>3, <1>4, <1>5
  <2> QED BY <2>1, <1>1, <1>3, LoHi, ZenonT(30)
<1>6. ASSUME NEW j \in 1 .. Len(s) - 1, j >= i
      PROVE  Lo(r)[j] = Lo(s)[j + 1] /\ Hi(r)[j] = Hi(s)[j + 1]
  <2>1. j + 1 \in 1 .. Len(s) /\ j \in 1 .. Len(r) /\ r[j] = s[j + 1] BY <1>3, <1>4, <1>6
  <2>2. Lo(r)[j] = r[j].offset /\ Hi(r)[j] = r[j].offset + r[j].size BY <2>1, <1>3, LoHi
  <2>3. Lo(s)[j + 1] = s[j + 1].offset /\ Hi(s)[j + 1] = s[j + 1].offset + s[j + 1].size BY <2>1, <1>1, LoHi
  <2> QED BY <2>1, <2>2, <2>3
<1>7. /\ Gapped(Len(s) - 1, Lo(r), Hi(r))
      /\ \A x \in Nat : Covers(Len(s) - 1, Lo(r), Hi(r), x)
                       <=> Covers(Len(s), Lo(s), Hi(s), x) /\ ~(Lo(s)[i] <= x /\ x < Hi(s)[i])
  BY <1>1, <1>4, <1>5, <1>6, DropRun
<1>8. \A x \in Nat : In(s[i], x) <=> (Lo(s)[i] <= x /\ x < Hi(s)[i]) BY <1>1, LoHi DEF In
<1> QED BY <1>2, <1>3, <1>7, <1>8 DEF IsFreeList, Has

\* Where a block goes: grown those that start before it.
LEMMA Place ==
  ASSUME NEW n \in Nat, NEW lo \in [1 .. n -> Nat], NEW a \in Nat,
         \A j, k \in 1 .. n : j < k => lo[j] < lo[k]
  PROVE  LET p == Cardinality({j \in 1 .. n : lo[j] < a}) + 1
         IN  p \in 1 .. n + 1 /\ \A j \in 1 .. n : (j < p => lo[j] < a) /\ (j >= p => lo[j] >= a)
<1> DEFINE S == {j \in 1 .. n : lo[j] < a}
<1>1. IsFiniteSet(S) BY FS_Interval, FS_Subset
<1>2. PICK k \in 0 .. n : S = 1 .. k
  <2>1. CASE S = {}
    <3>1. 1 .. 0 = {} OBVIOUS
    <3> QED BY <2>1, <3>1
  <2>2. CASE S # {}
    <3>1. Max(S) \in S /\ \A j \in S : j <= Max(S)
      <4>1. S \subseteq Int OBVIOUS
      <4> HIDE DEF S
      <4> QED BY <4>1, <1>1, <2>2, GreatestOf
    <3>2. PICK m \in 1 .. n : m \in S /\ \A j \in S : j <= m BY <3>1
    <3>3. \A j \in 1 .. m : j \in S
      <4> TAKE j \in 1 .. m
      <4>1. j \in 1 .. n /\ (j = m \/ j < m) OBVIOUS
      <4>2. lo[m] < a BY <3>2
      <4>3. j < m => lo[j] < lo[m] BY <4>1
      <4>4. lo[j] \in Nat /\ lo[m] \in Nat BY <4>1
      <4>5. lo[j] < a
        <5>1. CASE j = m BY <5>1, <4>2
        <5>2. CASE j < m BY <5>2, <4>2, <4>3, <4>4
        <5> QED BY <4>1, <5>1, <5>2
      <4> QED BY <4>1, <4>5
    <3>4. S \subseteq 1 .. m BY <3>2
    <3>5. S = 1 .. m
      <4> HIDE DEF S
      <4> QED BY <3>3, <3>4
    <3>6. m \in 0 .. n OBVIOUS
    <3> QED BY <3>5, <3>6
  <2> QED BY <2>1, <2>2
<1>3. Cardinality(S) = k
  <2>1. Cardinality(1 .. k) = k
    <3>1. 1 \in Int /\ k \in Int OBVIOUS
    <3>2. Cardinality(1 .. k) = IF 1 > k THEN 0 ELSE k - 1 + 1 BY <3>1, FS_Interval
    <3>3. CASE k = 0 BY <3>2, <3>3
    <3>4. CASE k # 0
      <4>1. ~(1 > k) /\ k - 1 + 1 = k BY <3>4
      <4> QED BY <3>2, <4>1
    <3> QED BY <3>3, <3>4
  <2> HIDE DEF S
  <2> QED BY <1>2, <2>1
<1>4. \A j \in 1 .. n : (j < k + 1 => j \in S) /\ (j >= k + 1 => j \notin S) BY <1>2, SMTT(30)
<1>5. \A j \in 1 .. n : (j < k + 1 => lo[j] < a) /\ (j >= k + 1 => lo[j] >= a)
  <2> TAKE j \in 1 .. n
  <2>1. lo[j] \in Nat OBVIOUS
  <2> QED BY <1>4, <2>1
<1>6. k + 1 \in 1 .. n + 1 OBVIOUS
<1>7. Cardinality(S) + 1 = k + 1 BY <1>3
<1> HIDE DEF S
<1>8. Cardinality(S) + 1 \in 1 .. n + 1 /\ \A j \in 1 .. n : (j < Cardinality(S) + 1 => lo[j] < a) /\ (j >= Cardinality(S) + 1 => lo[j] >= a)
  BY <1>5, <1>6, <1>7
<1> QED BY <1>8 DEF S

----
\* What is freed joins what it touches.

\* A block without a common row lies before or behind each of the list.
LEMMA ListAside ==
  ASSUME NEW n \in Nat, NEW lo \in [1 .. n -> Nat], NEW hi \in [1 .. n -> Nat], Gapped(n, lo, hi),
         NEW a \in Nat, NEW z \in Nat, a < z,
         \A x \in Nat : a <= x /\ x < z => ~Covers(n, lo, hi, x),
         NEW j \in 1 .. n
  PROVE  hi[j] <= a \/ z <= lo[j]
<1>1. SUFFICES ASSUME hi[j] > a, z > lo[j] PROVE FALSE OBVIOUS
<1>2. lo[j] < hi[j] BY DEF Gapped
<1>3. CASE lo[j] <= a
  <2>1. Covers(n, lo, hi, a) BY <1>1, <1>3 DEF Covers
  <2> QED BY <2>1
<1>4. CASE a < lo[j]
  <2>1. Covers(n, lo, hi, lo[j]) BY <1>2 DEF Covers
  <2> QED BY <2>1, <1>1, <1>4
<1> QED BY <1>3, <1>4

\* A freed block that touches none gets a place of its own.
LEMMA PutAside ==
  ASSUME NEW s, IsFreeList(s), NEW b \in Block, b.size > 0,
         \A x \in Nat : In(b, x) => ~Has(s, x),
         \A j \in 1 .. Len(s) : BlockEnd(s[j]) # b.offset /\ BlockEnd(b) # s[j].offset
  PROVE  /\ IsFreeList(InsertBlock(s, b))
         /\ \A x \in Nat : Has(InsertBlock(s, b), x) <=> Has(s, x) \/ In(b, x)
<1> DEFINE n == Len(s)
<1>1. s \in Seq(Block) /\ Gapped(n, Lo(s), Hi(s)) BY DEF IsFreeList
<1>2. n \in Nat /\ Lo(s) \in [1 .. n -> Nat] /\ Hi(s) \in [1 .. n -> Nat] BY <1>1, LoHi
<1>3. PICK a \in Nat, z \in Nat : a = b.offset /\ z = b.offset + b.size /\ a < z
  <2>1. b.offset \in Nat /\ b.size \in Nat BY DEF Block
  <2> QED BY <2>1
<1>4. \A x \in Nat : a <= x /\ x < z => ~Covers(n, Lo(s), Hi(s), x) BY <1>3 DEF In, Has
<1>5. \A j \in 1 .. n : Hi(s)[j] # a /\ z # Lo(s)[j] BY <1>1, <1>3, LoHi DEF BlockEnd
<1> DEFINE p == Cardinality({j \in 1 .. n : Lo(s)[j] < a}) + 1
<1>6. p \in 1 .. n + 1 /\ \A j \in 1 .. n : (j < p => Lo(s)[j] < a) /\ (j >= p => Lo(s)[j] >= a)
  <2>1. \A j, k \in 1 .. n : j < k => Lo(s)[j] < Lo(s)[k]
    <3> TAKE j, k \in 1 .. n
    <3> HAVE j < k
    <3>1. Lo(s)[j] < Hi(s)[j] /\ Hi(s)[j] < Lo(s)[k] BY <1>1 DEF Gapped
    <3> QED BY <3>1, <1>2
  <2> HIDE DEF n
  <2> QED BY <1>2, <2>1, Place
<1>7. InsertBlock(s, b) = InsertAt(s, p, b)
  <2>1. DOMAIN s = 1 .. n BY <1>1
  <2>2. {j \in DOMAIN s : s[j].offset < b.offset} = {j \in 1 .. n : Lo(s)[j] < a}
    <3>1. \A j \in 1 .. n : Lo(s)[j] = s[j].offset BY <1>1, LoHi
    <3> QED BY <1>3, <2>1, <3>1
  <2> HIDE DEF n
  <2> QED BY <2>2 DEF InsertBlock
<1>8. PICK r : r = InsertAt(s, p, b) OBVIOUS
<1> HIDE DEF p
<1>9. /\ r \in Seq(Block) /\ Len(r) = n + 1 /\ r[p] = b
      /\ \A j \in 1 .. n : j < p => r[j] = s[j]
      /\ \A j \in 1 .. n : j >= p => r[j + 1] = s[j] BY <1>1, <1>6, <1>8, Inserted
<1>10. Lo(r) \in [1 .. n + 1 -> Nat] /\ Hi(r) \in [1 .. n + 1 -> Nat] /\ Lo(r)[p] = a /\ Hi(r)[p] = z
  BY <1>3, <1>6, <1>9, LoHi
<1>11. ASSUME NEW j \in 1 .. n, j < p
       PROVE  Lo(r)[j] = Lo(s)[j] /\ Hi(r)[j] = Hi(s)[j]
  <2>1. j \in 1 .. Len(r) /\ r[j] = s[j] BY <1>2, <1>9, <1>11
  <2>2. Lo(r)[j] = r[j].offset /\ Hi(r)[j] = r[j].offset + r[j].size BY <2>1, <1>9, LoHi
  <2>3. j \in 1 .. Len(s) BY <1>1
  <2>4. Lo(s)[j] = s[j].offset /\ Hi(s)[j] = s[j].offset + s[j].size BY <1>1, <2>3, LoHi
  <2> QED BY <2>1, <2>2, <2>4
<1>12. ASSUME NEW j \in 1 .. n, j >= p
       PROVE  Lo(r)[j + 1] = Lo(s)[j] /\ Hi(r)[j + 1] = Hi(s)[j]
  <2>1. j + 1 \in 1 .. Len(r) /\ r[j + 1] = s[j] BY <1>2, <1>9, <1>12
  <2>2. Lo(r)[j + 1] = r[j + 1].offset /\ Hi(r)[j + 1] = r[j + 1].offset + r[j + 1].size BY <2>1, <1>9, LoHi
  <2>3. Lo(s)[j] = s[j].offset /\ Hi(s)[j] = s[j].offset + s[j].size BY <1>1, LoHi
  <2> QED BY <2>1, <2>2, <2>3
<1>13. \A j \in 1 .. n : (j < p => Hi(s)[j] < a) /\ (j >= p => z < Lo(s)[j])
  <2> TAKE j \in 1 .. n
  <2>0. PICK l \in Nat, h \in Nat : l = Lo(s)[j] /\ h = Hi(s)[j] BY <1>2
  <2>1. h <= a \/ z <= l BY <1>1, <1>2, <1>3, <1>4, <2>0, ListAside
  <2>2. h # a /\ z # l /\ l < h BY <1>1, <1>5, <2>0 DEF Gapped
  <2>3. (j < p => l < a) /\ (j >= p => l >= a) BY <1>6, <2>0
  <2>4. j < p \/ j >= p BY <1>6
  <2>5. (j < p => h < a) /\ (j >= p => z < l) BY <1>3, <2>1, <2>2, <2>3
  <2> QED BY <2>0, <2>5
<1> HIDE DEF n
<1>14. /\ Gapped(n + 1, Lo(r), Hi(r))
       /\ \A x \in Nat : Covers(n + 1, Lo(r), Hi(r), x) <=> Covers(n, Lo(s), Hi(s), x) \/ (a <= x /\ x < z)
  BY <1>1, <1>2, <1>3, <1>6, <1>10, <1>11, <1>12, <1>13, InsertRun
<1>15. \A x \in Nat : In(b, x) <=> (a <= x /\ x < z) BY <1>3 DEF In
<1> QED BY <1>7, <1>8, <1>9, <1>14, <1>15 DEF IsFreeList, Has, n

\* Runs that meet a block are made longer by it.
LEMMA GrowUp ==
  ASSUME NEW s, IsFreeList(s), NEW b \in Block, b.size > 0,
         \A x \in Nat : In(b, x) => ~Has(s, x),
         NEW i \in 1 .. Len(s), BlockEnd(s[i]) = b.offset,
         ~(i < Len(s) /\ BlockEnd(b) = s[i + 1].offset)
  PROVE  LET r == [s EXCEPT ![i].size = @ + b.size]
         IN  IsFreeList(r) /\ \A x \in Nat : Has(r, x) <=> Has(s, x) \/ In(b, x)
<1> DEFINE n == Len(s)
<1>1. s \in Seq(Block) /\ Gapped(n, Lo(s), Hi(s)) BY DEF IsFreeList
<1>2. n \in Nat /\ Lo(s) \in [1 .. n -> Nat] /\ Hi(s) \in [1 .. n -> Nat] BY <1>1, LoHi
<1>3. PICK a \in Nat, z \in Nat : a = b.offset /\ z = b.offset + b.size /\ a < z
  <2>1. b.offset \in Nat /\ b.size \in Nat BY DEF Block
  <2> QED BY <2>1
<1>4. \A x \in Nat : a <= x /\ x < z => ~Covers(n, Lo(s), Hi(s), x) BY <1>3 DEF In, Has
<1> DEFINE r == [s EXCEPT ![i].size = @ + b.size]
<1>5. /\ r \in Seq(Block) /\ Len(r) = n /\ \A j \in 1 .. n : j # i => r[j] = s[j]
      /\ r[i].offset = s[i].offset /\ r[i].size = s[i].size + b.size
  <2>1. s[i] \in Block /\ s[i].size \in Nat /\ b.size \in Nat BY <1>1, LoHi DEF Block
  <2>2. [s[i] EXCEPT !.size = s[i].size + b.size] \in Block BY <2>1 DEF Block
  <2> QED BY <1>1, <2>1, <2>2, SMTT(30) DEF Block
<1> HIDE DEF r
<1>6. Lo(r) \in [1 .. n -> Nat] /\ Hi(r) \in [1 .. n -> Nat] BY <1>5, LoHi
<1>7. ASSUME NEW j \in 1 .. n, j # i PROVE Lo(r)[j] = Lo(s)[j] /\ Hi(r)[j] = Hi(s)[j]
  <2>1. r[j] = s[j] BY <1>5, <1>7
  <2>2. Lo(s)[j] = s[j].offset /\ Hi(s)[j] = s[j].offset + s[j].size BY <1>1, LoHi
  <2>3. Lo(r)[j] = r[j].offset /\ Hi(r)[j] = r[j].offset + r[j].size BY <1>5, LoHi
  <2> QED BY <2>1, <2>2, <2>3
<1>8. Lo(r)[i] = Lo(s)[i] /\ Hi(s)[i] = a /\ Hi(r)[i] = z
  <2>1. Lo(r)[i] = r[i].offset /\ Hi(r)[i] = r[i].offset + r[i].size BY <1>5, LoHi
  <2>2. Lo(s)[i] = s[i].offset /\ Hi(s)[i] = s[i].offset + s[i].size BY <1>1, LoHi
  <2>0. s[i].offset \in Nat /\ s[i].size \in Nat /\ b.size \in Nat BY <1>1, LoHi DEF Block
  <2>3. PICK o \in Nat, c \in Nat, d \in Nat : o = s[i].offset /\ c = s[i].size /\ d = b.size BY <2>0
  <2>4. o + c = a /\ z = a + d
    <3>1. BlockEnd(s[i]) = s[i].offset + s[i].size BY DEF BlockEnd
    <3>2. o + c = b.offset BY <2>3, <3>1
    <3> QED BY <1>3, <2>3, <3>2
  <2>5. Lo(r)[i] = o /\ Hi(r)[i] = o + (c + d) /\ Lo(s)[i] = o /\ Hi(s)[i] = o + c BY <1>5, <2>1, <2>2, <2>3
  <2> HIDE <2>3
  <2> QED BY <2>4, <2>5, SMTT(30)
<1>9. Lo(r) = Lo(s)
  <2>1. \A j \in 1 .. n : Lo(r)[j] = Lo(s)[j] BY <1>7, <1>8
  <2> QED BY <1>2, <1>6, <2>1
<1>10. ASSUME NEW j \in 1 .. n, i < j
       PROVE  z < Lo(s)[j]
  <2>1. Hi(s)[i] < Lo(s)[j] /\ Lo(s)[j] < Hi(s)[j] BY <1>1, <1>10 DEF Gapped
  <2>2. Hi(s)[j] <= a \/ z <= Lo(s)[j] BY <1>1, <1>2, <1>3, <1>4, ListAside
  <2>3. z <= Lo(s)[j] BY <1>2, <1>8, <2>1, <2>2
  <2>4. i + 1 \in 1 .. n /\ i < n BY <1>2, <1>10
  <2>5. z # Lo(s)[i + 1]
    <3>1. Lo(s)[i + 1] = s[i + 1].offset BY <1>1, <2>4, LoHi
    <3> QED BY <1>3, <2>4, <3>1 DEF BlockEnd
  <2>6. CASE j = i + 1 BY <1>2, <2>3, <2>5, <2>6
  <2>7. CASE i + 1 < j
    <3>1. Hi(s)[i] < Lo(s)[i + 1] /\ Lo(s)[i + 1] < Hi(s)[i + 1] /\ Hi(s)[i + 1] < Lo(s)[j]
      BY <1>1, <2>4, <2>7 DEF Gapped
    <3>2. Hi(s)[i + 1] <= a \/ z <= Lo(s)[i + 1] BY <1>1, <1>2, <1>3, <1>4, <2>4, ListAside
    <3>3. /\ Lo(s)[i + 1] \in Nat /\ Hi(s)[i + 1] \in Nat /\ Lo(s)[j] \in Nat BY <1>2, <2>4
    <3>4. z <= Lo(s)[i + 1] BY <1>3, <1>8, <3>1, <3>2, <3>3
    <3> QED BY <1>3, <3>1, <3>3, <3>4
  <2> QED BY <1>10, <2>6, <2>7
<1> HIDE DEF n
<1>11. i \in 1 .. n BY DEF n
<1>a. Hi(s)[i] <= Hi(r)[i] BY <1>3, <1>8
<1>b. \A j \in 1 .. n : i < j => Hi(r)[i] < Lo(s)[j] BY <1>8, <1>10
<1>c. \A j \in 1 .. n : j # i => Hi(r)[j] = Hi(s)[j] BY <1>7
<1>12. /\ Gapped(n, Lo(s), Hi(r))
       /\ \A x \in Nat : Covers(n, Lo(s), Hi(r), x) <=> Covers(n, Lo(s), Hi(s), x) \/ (a <= x /\ x < z)
  <2>1. /\ Gapped(n, Lo(s), Hi(r))
       /\ \A x \in Nat : Covers(n, Lo(s), Hi(r), x) <=> Covers(n, Lo(s), Hi(s), x) \/ (Hi(s)[i] <= x /\ x < Hi(r)[i])
    BY <1>1, <1>2, <1>6, <1>a, <1>b, <1>c, <1>11, RaiseHigh
  <2> QED BY <2>1, <1>8
<1>13. \A x \in Nat : In(b, x) <=> (a <= x /\ x < z) BY <1>3 DEF In
<1> QED BY <1>5, <1>9, <1>12, <1>13 DEF IsFreeList, Has, n, r


\* A freed block grows the one it precedes.
LEMMA GrowDown ==
  ASSUME NEW s, IsFreeList(s), NEW b \in Block, b.size > 0,
         \A x \in Nat : In(b, x) => ~Has(s, x),
         NEW i \in 1 .. Len(s), BlockEnd(b) = s[i].offset,
         \A j \in 1 .. Len(s) : j < i => BlockEnd(s[j]) # b.offset
  PROVE  LET r == [s EXCEPT ![i] = [offset |-> b.offset, size |-> @.size + b.size]]
         IN  IsFreeList(r) /\ \A x \in Nat : Has(r, x) <=> Has(s, x) \/ In(b, x)
<1> DEFINE n == Len(s)
<1>1. s \in Seq(Block) /\ Gapped(n, Lo(s), Hi(s)) BY DEF IsFreeList
<1>2. n \in Nat /\ Lo(s) \in [1 .. n -> Nat] /\ Hi(s) \in [1 .. n -> Nat] BY <1>1, LoHi
<1>3. PICK a \in Nat, z \in Nat : a = b.offset /\ z = b.offset + b.size /\ a < z
  <2>1. b.offset \in Nat /\ b.size \in Nat BY DEF Block
  <2> QED BY <2>1
<1>4. \A x \in Nat : a <= x /\ x < z => ~Covers(n, Lo(s), Hi(s), x) BY <1>3 DEF In, Has
<1> DEFINE r == [s EXCEPT ![i] = [offset |-> b.offset, size |-> @.size + b.size]]
<1>5. /\ r \in Seq(Block) /\ Len(r) = n /\ \A j \in 1 .. n : j # i => r[j] = s[j]
      /\ r[i].offset = b.offset /\ r[i].size = s[i].size + b.size
  <2>1. s[i] \in Block /\ s[i].size \in Nat /\ b.size \in Nat /\ b.offset \in Nat BY <1>1, LoHi DEF Block
  <2>2. [offset |-> b.offset, size |-> s[i].size + b.size] \in Block BY <2>1 DEF Block
  <2> QED BY <1>1, <2>1, <2>2 DEF Block
<1> HIDE DEF r
<1>6. Lo(r) \in [1 .. n -> Nat] /\ Hi(r) \in [1 .. n -> Nat] BY <1>5, LoHi
<1>7. ASSUME NEW j \in 1 .. n, j # i PROVE Lo(r)[j] = Lo(s)[j] /\ Hi(r)[j] = Hi(s)[j]
  <2>1. r[j] = s[j] BY <1>5, <1>7
  <2>2. Lo(s)[j] = s[j].offset /\ Hi(s)[j] = s[j].offset + s[j].size BY <1>1, LoHi
  <2>3. Lo(r)[j] = r[j].offset /\ Hi(r)[j] = r[j].offset + r[j].size BY <1>5, LoHi
  <2> QED BY <2>1, <2>2, <2>3
<1>8. Lo(r)[i] = a /\ Lo(s)[i] = z /\ Hi(r)[i] = Hi(s)[i]
  <2>1. Lo(r)[i] = r[i].offset /\ Hi(r)[i] = r[i].offset + r[i].size BY <1>5, LoHi
  <2>2. Lo(s)[i] = s[i].offset /\ Hi(s)[i] = s[i].offset + s[i].size BY <1>1, LoHi
  <2>0. s[i].size \in Nat /\ b.size \in Nat BY <1>1, LoHi DEF Block
  <2>3. PICK c \in Nat, d \in Nat : c = s[i].size /\ d = b.size BY <2>0
  <2>4. z = a + d /\ s[i].offset = z
    <3>1. BlockEnd(b) = b.offset + b.size BY DEF BlockEnd
    <3> QED BY <1>3, <2>3, <3>1
  <2>5. Lo(r)[i] = a /\ Hi(r)[i] = a + (c + d) /\ Lo(s)[i] = z /\ Hi(s)[i] = z + c
    BY <1>3, <1>5, <2>1, <2>2, <2>3, <2>4
  <2> HIDE <2>3
  <2> QED BY <2>4, <2>5
<1>9. Hi(r) = Hi(s)
  <2>1. \A j \in 1 .. n : Hi(r)[j] = Hi(s)[j] BY <1>7, <1>8
  <2> QED BY <1>2, <1>6, <2>1
<1>10. ASSUME NEW j \in 1 .. n, j < i
       PROVE  Hi(s)[j] < a
  <2>1. Hi(s)[j] < Lo(s)[i] /\ Lo(s)[j] < Hi(s)[j] BY <1>1, <1>10 DEF Gapped
  <2>2. Hi(s)[j] <= a \/ z <= Lo(s)[j] BY <1>1, <1>2, <1>3, <1>4, ListAside
  <2>3. Hi(s)[j] <= a BY <1>2, <1>8, <2>1, <2>2
  <2>4. Hi(s)[j] # a
    <3>1. Hi(s)[j] = BlockEnd(s[j]) BY <1>1, LoHi DEF BlockEnd
    <3> QED BY <1>3, <1>10, <3>1
  <2> QED BY <1>2, <2>3, <2>4
<1> HIDE DEF n
<1>11. i \in 1 .. n BY DEF n
<1>a. Lo(r)[i] <= Lo(s)[i] BY <1>3, <1>8
<1>b. \A j \in 1 .. n : j < i => Hi(s)[j] < Lo(r)[i] BY <1>8, <1>10
<1>c. \A j \in 1 .. n : j # i => Lo(r)[j] = Lo(s)[j] BY <1>7
<1>12. /\ Gapped(n, Lo(r), Hi(s))
       /\ \A x \in Nat : Covers(n, Lo(r), Hi(s), x) <=> Covers(n, Lo(s), Hi(s), x) \/ (a <= x /\ x < z)
  <2>1. /\ Gapped(n, Lo(r), Hi(s))
        /\ \A x \in Nat : Covers(n, Lo(r), Hi(s), x) <=> Covers(n, Lo(s), Hi(s), x) \/ (Lo(r)[i] <= x /\ x < Lo(s)[i])
    BY <1>1, <1>2, <1>6, <1>a, <1>b, <1>c, <1>11, LowerLow
  <2> QED BY <2>1, <1>8
<1>13. \A x \in Nat : In(b, x) <=> (a <= x /\ x < z) BY <1>3 DEF In
<1> QED BY <1>5, <1>9, <1>12, <1>13 DEF IsFreeList, Has, n, r

\* A block that fills a gap exactly joins the runs on both sides.
LEMMA CloseGap ==
  ASSUME NEW s, IsFreeList(s), NEW b \in Block, b.size > 0,
         NEW i \in 1 .. Len(s), i < Len(s), BlockEnd(s[i]) = b.offset, BlockEnd(b) = s[i + 1].offset
  PROVE  LET r == RemoveAt(ReplaceAt(s, i, [offset |-> s[i].offset,
                       size |-> s[i].size + b.size + s[i + 1].size]), i + 1)
         IN  IsFreeList(r) /\ \A x \in Nat : Has(r, x) <=> Has(s, x) \/ In(b, x)
<1> DEFINE n == Len(s)
<1> DEFINE d == [offset |-> s[i].offset, size |-> s[i].size + b.size + s[i + 1].size]
<1>1. s \in Seq(Block) /\ Gapped(n, Lo(s), Hi(s)) BY DEF IsFreeList
<1>2. n \in Nat /\ Lo(s) \in [1 .. n -> Nat] /\ Hi(s) \in [1 .. n -> Nat] BY <1>1, LoHi
<1>3. PICK a \in Nat, z \in Nat : a = b.offset /\ z = b.offset + b.size /\ a < z
  <2>1. b.offset \in Nat /\ b.size \in Nat BY DEF Block
  <2> QED BY <2>1
<1>4. i + 1 \in 1 .. n /\ i \in 1 .. n /\ i \in 1 .. n - 1 BY <1>2
<1>5. /\ s[i].offset \in Nat /\ s[i].size \in Nat /\ s[i + 1].offset \in Nat /\ s[i + 1].size \in Nat /\ b.size \in Nat
  <2>1. s[i].offset \in Nat /\ s[i].size \in Nat BY <1>1, LoHi
  <2>2. s[i + 1].offset \in Nat /\ s[i + 1].size \in Nat BY <1>1, <1>4, LoHi
  <2> QED BY <2>1, <2>2 DEF Block
<1>6. d \in Block /\ d.offset = s[i].offset /\ d.size = s[i].size + b.size + s[i + 1].size
  BY <1>5, SMTT(30) DEF Block
<1> HIDE DEF d
<1>7. PICK q : q = ReplaceAt(s, i, d) OBVIOUS
<1>8. q \in Seq(Block) /\ Len(q) = n /\ q[i] = d /\ \A j \in 1 .. n : j # i => q[j] = s[j]
  BY <1>1, <1>6, <1>7, Replaced
<1>9. PICK r : r = RemoveAt(q, i + 1) OBVIOUS
<1>10. /\ r \in Seq(Block) /\ Len(r) = n - 1
       /\ \A j \in 1 .. n - 1 : j < i + 1 => r[j] = q[j]
       /\ \A j \in 1 .. n - 1 : j >= i + 1 => r[j] = q[j + 1]
  <2>1. i + 1 \in 1 .. Len(q) /\ q \in Seq(Block) BY <1>4, <1>8
  <2> HIDE DEF n
  <2> QED BY <2>1, <1>8, <1>9, Removed
<1>11. Lo(r) \in [1 .. n - 1 -> Nat] /\ Hi(r) \in [1 .. n - 1 -> Nat] BY <1>10, LoHi
<1>12. ASSUME NEW j \in 1 .. n - 1, j < i
       PROVE  Lo(r)[j] = Lo(s)[j] /\ Hi(r)[j] = Hi(s)[j]
  <2>1. j \in 1 .. n /\ j \in 1 .. Len(r) /\ j < i + 1 /\ j # i BY <1>2, <1>10, <1>12
  <2>2. r[j] = s[j] BY <2>1, <1>8, <1>10
  <2>3. Lo(s)[j] = s[j].offset /\ Hi(s)[j] = s[j].offset + s[j].size BY <1>1, <2>1, LoHi
  <2>4. Lo(r)[j] = r[j].offset /\ Hi(r)[j] = r[j].offset + r[j].size BY <1>10, <2>1, LoHi
  <2> QED BY <2>2, <2>3, <2>4
<1>13. ASSUME NEW j \in 1 .. n - 1, j > i
       PROVE  Lo(r)[j] = Lo(s)[j + 1] /\ Hi(r)[j] = Hi(s)[j + 1]
  <2>1. j + 1 \in 1 .. n /\ j \in 1 .. Len(r) /\ j >= i + 1 /\ j + 1 # i BY <1>2, <1>10, <1>13
  <2>2. r[j] = s[j + 1] BY <2>1, <1>8, <1>10
  <2>3. Lo(s)[j + 1] = s[j + 1].offset /\ Hi(s)[j + 1] = s[j + 1].offset + s[j + 1].size BY <1>1, <2>1, LoHi
  <2>4. Lo(r)[j] = r[j].offset /\ Hi(r)[j] = r[j].offset + r[j].size BY <1>10, <2>1, LoHi
  <2> QED BY <2>2, <2>3, <2>4
<1>14. Lo(r)[i] = Lo(s)[i] /\ Hi(r)[i] = Hi(s)[i + 1] /\ Hi(s)[i] = a /\ Lo(s)[i + 1] = z
  <2>1. i < i + 1 /\ i \in 1 .. n - 1 /\ i \in 1 .. Len(r) BY <1>4, <1>10
  <2>2. r[i] = d BY <1>8, <1>10, <2>1
  <2>3. Lo(r)[i] = d.offset /\ Hi(r)[i] = d.offset + d.size BY <1>10, <2>1, <2>2, LoHi
  <2>4. Lo(s)[i] = s[i].offset /\ Hi(s)[i] = s[i].offset + s[i].size BY <1>1, LoHi
  <2>5. Lo(s)[i + 1] = s[i + 1].offset /\ Hi(s)[i + 1] = s[i + 1].offset + s[i + 1].size BY <1>1, <1>4, LoHi
  <2>6. PICK o1 \in Nat, c1 \in Nat, o2 \in Nat, c2 \in Nat, e \in Nat :
          o1 = s[i].offset /\ c1 = s[i].size /\ o2 = s[i + 1].offset /\ c2 = s[i + 1].size /\ e = b.size
    BY <1>5
  <2>7. o1 + c1 = a /\ a + e = z /\ o2 = z
    <3>1. BlockEnd(s[i]) = s[i].offset + s[i].size /\ BlockEnd(b) = b.offset + b.size BY DEF BlockEnd
    <3>2. o1 + c1 = b.offset BY <2>6, <3>1
    <3> QED BY <1>3, <2>6, <3>1, <3>2
  <2>8. /\ Lo(r)[i] = o1 /\ Hi(r)[i] = o1 + (c1 + e + c2) /\ Lo(s)[i] = o1 /\ Hi(s)[i] = o1 + c1
        /\ Lo(s)[i + 1] = o2 /\ Hi(s)[i + 1] = o2 + c2 BY <1>6, <2>3, <2>4, <2>5, <2>6
  <2> HIDE <2>6
  <2> QED BY <2>7, <2>8
<1>15. ASSUME NEW j \in 1 .. n - 1, j <= i
       PROVE  Lo(r)[j] = Lo(s)[j]
  <2>1. j < i \/ j = i BY <1>15
  <2> QED BY <2>1, <1>12, <1>14
<1>16. ASSUME NEW j \in 1 .. n - 1, j >= i
       PROVE  Hi(r)[j] = Hi(s)[j + 1]
  <2>1. j > i \/ j = i BY <1>16
  <2> QED BY <2>1, <1>13, <1>14
<1>17. /\ Gapped(n - 1, Lo(r), Hi(r))
       /\ \A x \in Nat : Covers(n - 1, Lo(r), Hi(r), x)
                        <=> Covers(n, Lo(s), Hi(s), x) \/ (Hi(s)[i] <= x /\ x < Lo(s)[i + 1])
  <2> HIDE DEF n
  <2>1. i \in 1 .. n /\ i < n BY DEF n
  <2> QED BY <1>1, <1>2, <2>1, <1>11, <1>12, <1>13, <1>15, <1>16, JoinRuns
<1>18. \A x \in Nat : In(b, x) <=> (a <= x /\ x < z) BY <1>3 DEF In
<1>19. IsFreeList(r) /\ \A x \in Nat : Has(r, x) <=> Has(s, x) \/ In(b, x)
  BY <1>10, <1>14, <1>17, <1>18 DEF IsFreeList, Has
<1>20. r = RemoveAt(ReplaceAt(s, i, [offset |-> s[i].offset, size |-> s[i].size + b.size + s[i + 1].size]), i + 1)
  BY <1>7, <1>9 DEF d
<1> QED BY <1>19, <1>20


\* Freed: the rows of the list and those of the block, and nothing else.
LEMMA FreedExact ==
  ASSUME NEW s, IsFreeList(s), NEW b \in Block, b.size > 0,
         \A x \in Nat : In(b, x) => ~Has(s, x)
  PROVE  /\ IsFreeList(Freed(s, b))
         /\ \A x \in Nat : Has(Freed(s, b), x) <=> Has(s, x) \/ In(b, x)
<1> DEFINE touching == {i \in DOMAIN s : BlockEnd(s[i]) = b.offset \/ BlockEnd(b) = s[i].offset}
<1>1. s \in Seq(Block) /\ DOMAIN s = 1 .. Len(s) /\ Len(s) \in Nat BY DEF IsFreeList
<1>2. CASE touching = {}
  <2>1. \A j \in 1 .. Len(s) : BlockEnd(s[j]) # b.offset /\ BlockEnd(b) # s[j].offset BY <1>1, <1>2
  <2>2. Freed(s, b) = InsertBlock(s, b) BY <1>2 DEF Freed
  <2> QED BY <2>1, <2>2, PutAside
<1>3. CASE touching # {}
  <2>1. touching \subseteq Int /\ IsFiniteSet(touching)
    <3>1. touching \subseteq 1 .. Len(s) BY <1>1
    <3>2. IsFiniteSet(1 .. Len(s)) BY <1>1, FS_Interval
    <3>3. 1 .. Len(s) \subseteq Int OBVIOUS
    <3> HIDE DEF touching
    <3>4. IsFiniteSet(touching) BY <3>1, <3>2, FS_Subset
    <3> QED BY <3>1, <3>3, <3>4
  <2>2. PICK i : i = Min(touching) OBVIOUS
  <2>3. i \in touching /\ \A k \in touching : i <= k
    <3> HIDE DEF touching
    <3> QED BY <1>3, <2>1, <2>2, LeastOf
  <2>4. i \in 1 .. Len(s) BY <1>1, <2>3
  <2>5. Freed(s, b) =
          IF BlockEnd(s[i]) = b.offset
          THEN IF i < Len(s) /\ BlockEnd(b) = s[i + 1].offset
               THEN RemoveAt(ReplaceAt(s, i, [offset |-> s[i].offset,
                       size |-> s[i].size + b.size + s[i + 1].size]), i + 1)
               ELSE [s EXCEPT ![i].size = @ + b.size]
          ELSE IF i > 1 /\ BlockEnd(s[i - 1]) = b.offset
          THEN RemoveAt(ReplaceAt(s, i - 1, [offset |-> s[i - 1].offset,
                       size |-> s[i - 1].size + b.size + s[i].size]), i)
          ELSE [s EXCEPT ![i] = [offset |-> b.offset, size |-> @.size + b.size]]
    <3>1. i - 1 + 1 = i BY <2>4
    <3> QED BY <1>3, <2>2, <3>1 DEF Freed
  <2> DEFINE Merged == RemoveAt(ReplaceAt(s, i, [offset |-> s[i].offset,
                       size |-> s[i].size + b.size + s[i + 1].size]), i + 1)
  <2> DEFINE Up == [s EXCEPT ![i].size = @ + b.size]
  <2> DEFINE Down == [s EXCEPT ![i] = [offset |-> b.offset, size |-> @.size + b.size]]
  <2>6. CASE BlockEnd(s[i]) = b.offset /\ i < Len(s) /\ BlockEnd(b) = s[i + 1].offset
    <3>1. Freed(s, b) = Merged BY <2>5, <2>6
    <3>2. IsFreeList(Merged) /\ \A x \in Nat : Has(Merged, x) <=> Has(s, x) \/ In(b, x) BY <2>4, <2>6, CloseGap
    <3> HIDE DEF Merged
    <3> QED BY <3>1, <3>2
  <2>7. CASE BlockEnd(s[i]) = b.offset /\ ~(i < Len(s) /\ BlockEnd(b) = s[i + 1].offset)
    <3>1. Freed(s, b) = Up BY <2>5, <2>7
    <3>2. IsFreeList(Up) /\ \A x \in Nat : Has(Up, x) <=> Has(s, x) \/ In(b, x) BY <2>4, <2>7, GrowUp
    <3> HIDE DEF Up
    <3> QED BY <3>1, <3>2
  <2>8. CASE BlockEnd(s[i]) # b.offset
    <3>1. BlockEnd(b) = s[i].offset BY <2>3, <2>8
    <3>2. \A j \in 1 .. Len(s) : j < i => BlockEnd(s[j]) # b.offset
      <4> TAKE j \in 1 .. Len(s)
      <4> HAVE j < i
      <4>1. j \notin touching
        <5> HIDE DEF touching
        <5>1. ~(i <= j) BY <2>4
        <5> QED BY <2>3, <5>1
      <4> QED BY <4>1, <1>1
    <3>3. ~(i > 1 /\ BlockEnd(s[i - 1]) = b.offset)
      <4>1. i > 1 => i - 1 \in 1 .. Len(s) /\ i - 1 < i BY <2>4
      <4> QED BY <4>1, <3>2
    <3>4. Freed(s, b) = Down BY <2>5, <2>8, <3>3
    <3>5. IsFreeList(Down) /\ \A x \in Nat : Has(Down, x) <=> Has(s, x) \/ In(b, x)
      BY <2>4, <3>1, <3>2, GrowDown
    <3> HIDE DEF Down
    <3> QED BY <3>4, <3>5
  <2> QED BY <2>6, <2>7, <2>8
<1> QED BY <1>2, <1>3

----
\* The chunks of the buffer, and the blocks that fit.

ChunkRec == [free_blocks : Seq(Block), max_size : Nat]
ChunksOK(chunks) == /\ chunks \in Seq(ChunkRec) /\ Len(chunks) <= MaxChunks
                    /\ \A c \in 1 .. Len(chunks) : IsFreeList(chunks[c].free_blocks)
FreeRow(chunks, c, x) == c \in 1 .. Len(chunks) /\ Has(chunks[c].free_blocks, x)

\* What a function takes a finite set to is finite.
LEMMA ImageOfFinite ==
  ASSUME NEW S, IsFiniteSet(S), NEW f, f = [x \in S |-> f[x]]
  PROVE  IsFiniteSet({f[x] : x \in S})
<1> DEFINE T == {f[x] : x \in S}
<1>1. f \in [S -> T] /\ \A t \in T : \E x \in S : f[x] = t OBVIOUS
<1>2. f \in Surjection(S, T) BY <1>1 DEF Surjection
<1> HIDE DEF T
<1>3. IsFiniteSet(T) BY <1>2, FS_Surjection
<1> QED BY <1>3 DEF T

\* The greater of two numbers.
LEMMA MaxOfTwo ==
  ASSUME NEW a \in Nat, NEW b \in Nat
  PROVE  Max({a, b}) \in Nat /\ Max({a, b}) >= a /\ Max({a, b}) >= b /\ Max({a, b}) \in {a, b}
<1>1. {a, b} \subseteq Int /\ {a, b} # {} /\ IsFiniteSet({a, b})
  <2>1. IsFiniteSet({a}) BY FS_Singleton
  <2>2. IsFiniteSet({a} \cup {b}) BY <2>1, FS_AddElement
  <2>3. {a} \cup {b} = {a, b} OBVIOUS
  <2> QED BY <2>2, <2>3
<1> DEFINE S == {a, b}
<1>2. Max(S) \in S /\ \A k \in S : k <= Max(S)
  <2> HIDE DEF S
  <2>1. S \subseteq Int /\ S # {} /\ IsFiniteSet(S) BY <1>1 DEF S
  <2> QED BY <2>1, GreatestOf
<1>3. PICK m \in {a, b} : m = Max(S) BY <1>2
<1>4. a <= m /\ b <= m BY <1>2, <1>3
<1> QED BY <1>3, <1>4

\* What a chunk is.
LEMMA ChunkFacts ==
  ASSUME NEW chunks, ChunksOK(chunks), NEW c \in 1 .. Len(chunks)
  PROVE  /\ chunks[c] \in ChunkRec /\ chunks[c].free_blocks \in Seq(Block) /\ chunks[c].max_size \in Nat
         /\ IsFreeList(chunks[c].free_blocks) /\ Len(chunks[c].free_blocks) \in Nat /\ c \in Nat
<1>1. chunks[c] \in ChunkRec /\ Len(chunks) \in Nat BY ElementOfSeq DEF ChunksOK
<1> QED BY <1>1 DEF ChunkRec, ChunksOK

\* Where a block is looked for, and that one that fits is found.
Fits(chunks, pos, size) ==
  /\ pos[1] \in 1 .. Len(chunks) /\ pos[2] \in 1 .. Len(chunks[pos[1]].free_blocks)
  /\ chunks[pos[1]].free_blocks[pos[2]].size >= size

\* The block chosen among the fitting ones fits.
LEMMA BestFitFits ==
  ASSUME NEW chunks, ChunksOK(chunks), NEW size \in Nat, BestFits(chunks, size) # {}
  PROVE  Fits(chunks, BestFit(chunks, size), size)
<1> DEFINE fits == BestFits(chunks, size)
<1> DEFINE firsts == {f[1] : f \in fits}
<1>0. DOMAIN chunks = 1 .. Len(chunks) /\ Len(chunks) \in Nat BY DEF ChunksOK
<1>1. \A f \in fits : /\ f[1] \in 1 .. Len(chunks) /\ f[2] \in 1 .. Len(chunks[f[1]].free_blocks) - 1
                      /\ chunks[f[1]].free_blocks[f[2]].size >= size BY <1>0 DEF BestFits
<1>2. firsts \subseteq 1 .. Len(chunks) /\ firsts # {} BY <1>1
<1>3. firsts \subseteq Int /\ IsFiniteSet(firsts)
  <2>1. 1 .. Len(chunks) \subseteq Int /\ IsFiniteSet(1 .. Len(chunks)) BY <1>0, FS_Interval
  <2> HIDE DEF firsts
  <2> QED BY <1>2, <2>1, FS_Subset
<1>4. PICK c : c = Max(firsts) OBVIOUS
<1>5. c \in firsts
  <2> HIDE DEF firsts
  <2> QED BY <1>2, <1>3, <1>4, GreatestOf
<1> DEFINE in == {f[2] : f \in {g \in fits : g[1] = c}}
<1>6. c \in 1 .. Len(chunks) /\ in # {} BY <1>1, <1>5
<1> DEFINE n == Len(chunks[c].free_blocks)
<1> DEFINE Of(i) == chunks[c].free_blocks[i].size
<1>7. n \in Nat /\ \A i \in 1 .. n : Of(i) \in Nat
  <2>1. chunks[c].free_blocks \in Seq(Block) BY <1>6, ChunkFacts
  <2> QED BY <2>1, LoHi
<1>8. \A i \in in : i \in 1 .. n /\ i \in 1 .. n - 1 /\ Of(i) >= size
  <2> TAKE i \in in
  <2>1. PICK f \in fits : f[1] = c /\ f[2] = i OBVIOUS
  <2>2. i \in 1 .. n - 1 /\ Of(i) >= size BY <1>1, <2>1
  <2> QED BY <2>2, <1>7
<1> DEFINE sizes == {Of(i) : i \in in}
<1>9. IsFiniteSet(in) /\ in \subseteq Int
  <2>1. in \subseteq 1 .. n BY <1>8
  <2>2. 1 .. n \subseteq Int /\ IsFiniteSet(1 .. n) BY <1>7, FS_Interval
  <2> HIDE DEF in, n
  <2> QED BY <2>1, <2>2, FS_Subset
<1>10. IsFiniteSet(sizes) /\ sizes # {} /\ sizes \subseteq Int
  <2>1. sizes \subseteq Int BY <1>7, <1>8
  <2>2. sizes # {} BY <1>6
  <2>3. IsFiniteSet(sizes)
    <3> DEFINE f == [i \in in |-> Of(i)]
    <3>1. f = [i \in in |-> f[i]] /\ sizes = {f[i] : i \in in} OBVIOUS
    <3> HIDE DEF in, f, sizes
    <3> QED BY <1>9, <3>1, ImageOfFinite
  <2> QED BY <2>1, <2>2, <2>3
<1>11. PICK least : least = Min(sizes) OBVIOUS
<1>12. least \in sizes
  <2> HIDE DEF sizes
  <2> QED BY <1>10, <1>11, LeastOf
<1> DEFINE smallest == {i \in in : Of(i) = least}
<1>13. smallest # {} /\ smallest \subseteq in BY <1>12
<1>14. Max(smallest) \in smallest
  <2>1. smallest \subseteq Int /\ IsFiniteSet(smallest)
    <3> HIDE DEF smallest
    <3> QED BY <1>9, <1>13, FS_Subset
  <2> HIDE DEF smallest
  <2> QED BY <1>13, <2>1, GreatestOf
<1>15. BestFit(chunks, size) = <<c, Max(smallest)>> BY <1>4, <1>11 DEF BestFit
<1>16. PICK i : i = Max(smallest) OBVIOUS
<1>17. i \in 1 .. n /\ Of(i) >= size
  <2>1. i \in in BY <1>13, <1>14, <1>16
  <2> QED BY <1>8, <2>1
<1>18. BestFit(chunks, size) = <<c, i>> BY <1>15, <1>16
<1> QED BY <1>6, <1>17, <1>18 DEF Fits


\* So does the last block chosen when no other fits.
LEMMA LastFitFits ==
  ASSUME NEW chunks, ChunksOK(chunks), NEW size \in Nat, LastFits(chunks, size) # {}
  PROVE  Fits(chunks, LastFit(chunks, size), size)
<1> DEFINE fits == LastFits(chunks, size)
<1> DEFINE Factor(c) == ReuseFactor(chunks[c], size)
<1>0. DOMAIN chunks = 1 .. Len(chunks) /\ Len(chunks) \in Nat BY DEF ChunksOK
<1>1. ASSUME NEW c \in fits
      PROVE  /\ c \in 1 .. Len(chunks) /\ Factor(c) \in Int
             /\ Len(chunks[c].free_blocks) \in 1 .. Len(chunks[c].free_blocks)
             /\ chunks[c].free_blocks[Len(chunks[c].free_blocks)].size >= size
  <2> DEFINE list == chunks[c].free_blocks
  <2>1. c \in 1 .. Len(chunks) /\ list # <<>> /\ Last(list).size >= size BY <1>0 DEF LastFits
  <2>2. list \in Seq(Block) /\ chunks[c].max_size \in Nat BY <2>1, ChunkFacts
  <2>3. Len(list) \in 1 .. Len(list)
    <3> HIDE DEF list
    <3>1. Len(list) \in Nat /\ Len(list) # 0 BY <2>1, <2>2, EmptySeq
    <3> QED BY <3>1
  <2>4. Last(list) = list[Len(list)] BY DEF Last
  <2>5. list[Len(list)].offset \in Nat
    <3> HIDE DEF list
    <3> QED BY <2>2, <2>3, LoHi
  <2>6. Factor(c) \in Int
    <3>1. PICK o \in Nat, m \in Nat : o = Last(list).offset /\ m = chunks[c].max_size BY <2>2, <2>4, <2>5
    <3>2. Factor(c) = m - o - size BY <3>1 DEF ReuseFactor
    <3> HIDE DEF Factor
    <3> QED BY <3>2
  <2> QED BY <2>1, <2>3, <2>4, <2>6
<1> HIDE DEF Factor, fits
<1>2. IsFiniteSet(fits)
  <2>1. fits \subseteq 1 .. Len(chunks) BY <1>1
  <2>2. IsFiniteSet(1 .. Len(chunks)) BY <1>0, FS_Interval
  <2> QED BY <2>1, <2>2, FS_Subset
<1> DEFINE enough == {c \in fits : Factor(c) >= 0}
<1> DEFINE best == IF enough # {} THEN Min({Factor(c) : c \in enough}) ELSE Max({Factor(c) : c \in fits})
<1>3. \E d \in fits : Factor(d) = best
  <2>1. \A T \in SUBSET fits : /\ {Factor(c) : c \in T} \subseteq Int /\ IsFiniteSet({Factor(c) : c \in T})
    <3> TAKE T \in SUBSET fits
    <3>1. {Factor(c) : c \in T} \subseteq Int BY <1>1
    <3>2. IsFiniteSet(T) BY <1>2, FS_Subset
    <3> DEFINE f == [c \in T |-> Factor(c)]
    <3>3. f = [c \in T |-> f[c]] /\ {Factor(c) : c \in T} = {f[c] : c \in T} OBVIOUS
    <3> HIDE DEF f
    <3>5. IsFiniteSet({f[c] : c \in T}) BY <3>2, <3>3, ImageOfFinite
    <3>4. IsFiniteSet({Factor(c) : c \in T}) BY <3>5, <3>3
    <3> QED BY <3>1, <3>4
  <2>2. CASE enough # {}
    <3> DEFINE values == {Factor(c) : c \in enough}
    <3>1. values \subseteq Int /\ IsFiniteSet(values) /\ values # {} BY <2>1, <2>2
    <3>2. Min(values) \in values
      <4> HIDE DEF values
      <4> QED BY <3>1, LeastOf
    <3>3. best = Min(values) BY <2>2
    <3> HIDE DEF best
    <3> QED BY <3>2, <3>3
  <2>3. CASE enough = {}
    <3> DEFINE values == {Factor(c) : c \in fits}
    <3>0. fits # {} BY DEF fits
    <3>1. values \subseteq Int /\ IsFiniteSet(values) /\ values # {} BY <2>1, <3>0
    <3>2. Max(values) \in values
      <4> HIDE DEF values
      <4> QED BY <3>1, GreatestOf
    <3>3. best = Max(values) BY <2>3
    <3> HIDE DEF best
    <3> QED BY <3>2, <3>3
  <2> QED BY <2>2, <2>3
<1>4. PICK b : b = best OBVIOUS
<1> DEFINE picks == {d \in fits : Factor(d) = b}
<1>5. picks # {} /\ picks \subseteq fits BY <1>3, <1>4
<1>6. picks \subseteq Int /\ IsFiniteSet(picks)
  <2>1. fits \subseteq Int BY <1>1
  <2> HIDE DEF picks
  <2> QED BY <1>2, <1>5, <2>1, FS_Subset
<1>7. Min(picks) \in picks
  <2> HIDE DEF picks
  <2> QED BY <1>5, <1>6, LeastOf
<1>8. LastFit(chunks, size) = <<Min(picks), Len(chunks[Min(picks)].free_blocks)>>
  BY <1>4 DEF LastFit, fits, Factor
<1>9. PICK c \in fits : c = Min(picks) BY <1>7
<1>10. LastFit(chunks, size) = <<c, Len(chunks[c].free_blocks)>> BY <1>8, <1>9
<1> QED BY <1>1, <1>10 DEF Fits

\* A chunk that is new is one free block.
LEMMA NewChunkFree ==
  ASSUME NEW chunks, ChunksOK(chunks), NEW size \in Nat, size > 0, size <= Endless, Len(chunks) < MaxChunks
  PROVE  LET m == NewChunk(chunks, size)
         IN  /\ ChunksOK(m) /\ Len(m) = Len(chunks) + 1 /\ \A c \in 1 .. Len(chunks) : m[c] = chunks[c]
             /\ Fits(m, <<Len(m), 1>>, size)
             /\ \E e \in Nat : /\ e >= MaxChunkSize /\ (Len(m) = MaxChunks => e = Endless)
                               /\ \A x \in Nat : FreeRow(m, Len(m), x) <=> x < e
<1> DEFINE n == Len(chunks)
<1>0. chunks \in Seq(ChunkRec) /\ n \in Nat /\ MaxChunks \in Nat /\ MaxChunkSize \in Nat /\ MaxChunkSize > 0
  BY ChunkAssumption DEF ChunksOK
<1>1. PICK e : e = IF n = MaxChunks - 1 THEN Endless ELSE Max({size, MaxChunkSize}) OBVIOUS
<1>2. e \in Nat /\ e >= size /\ e >= MaxChunkSize /\ (n + 1 = MaxChunks => e = Endless)
  <2>1. CASE n = MaxChunks - 1 BY <1>0, <1>1, <2>1, ChunkAssumption
  <2>2. CASE n # MaxChunks - 1
    <3>1. e = Max({size, MaxChunkSize}) /\ n + 1 # MaxChunks BY <1>0, <1>1, <2>2
    <3> QED BY <1>0, <3>1, MaxOfTwo
  <2> QED BY <2>1, <2>2
<1> DEFINE b == [offset |-> 0, size |-> e]
<1> DEFINE new == [free_blocks |-> <<b>>, max_size |-> 0]
<1>3. b \in Block /\ b.offset = 0 /\ b.size = e BY <1>2 DEF Block
<1> HIDE DEF b
<1>4. <<b>> \in Seq(Block) /\ Len(<<b>>) = 1 /\ <<b>>[1] = b BY <1>3
<1>5. new \in ChunkRec /\ new.free_blocks = <<b>> BY <1>4 DEF ChunkRec
<1>6. PICK s : s = <<b>> OBVIOUS
<1>7. Lo(s)[1] = 0 /\ Hi(s)[1] = e /\ s \in Seq(Block) /\ Len(s) = 1
  <2>0. s \in Seq(Block) /\ Len(s) = 1 /\ s[1] = b /\ 1 \in 1 .. Len(s) BY <1>4, <1>6
  <2>1. Lo(s)[1] = b.offset /\ Hi(s)[1] = b.offset + b.size BY <2>0, LoHi
  <2> QED BY <1>2, <1>3, <1>4, <1>6, <2>1
<1>8. IsFreeList(s)
  <2>1. \A j \in 1 .. 1 : j = 1 OBVIOUS
  <2>2. \A j \in 1 .. 1 : Lo(s)[j] < Hi(s)[j] BY <1>2, <1>7, <2>1, <1>0
  <2> QED BY <1>7, <2>1, <2>2 DEF IsFreeList, Gapped
<1>9. \A x \in Nat : Has(s, x) <=> x < e
  <2>1. \A j \in 1 .. 1 : j = 1 OBVIOUS
  <2>2. 1 \in 1 .. 1 OBVIOUS
  <2> TAKE x \in Nat
  <2>3. Has(s, x) <=> (0 <= x /\ x < e) BY <1>7, <2>1, <2>2 DEF Has, Covers
  <2> QED BY <2>3, <1>2
<1>10. PICK m : m = NewChunk(chunks, size) OBVIOUS
<1>11. m = Append(chunks, new) BY <1>1, <1>10 DEF NewChunk, b
<1> HIDE DEF new
<1>12. m \in Seq(ChunkRec) /\ Len(m) = n + 1 /\ m[n + 1] = new /\ \A c \in 1 .. n : m[c] = chunks[c]
  BY <1>0, <1>5, <1>11, AppendProperties
<1>13. \A c \in 1 .. n + 1 : IsFreeList(m[c].free_blocks)
  <2> TAKE c \in 1 .. n + 1
  <2>1. CASE c = n + 1 BY <2>1, <1>5, <1>6, <1>8, <1>12
  <2>2. CASE c # n + 1
    <3>1. c \in 1 .. n BY <2>2, <1>0
    <3> QED BY <3>1, <1>12 DEF ChunksOK
  <2> QED BY <2>1, <2>2
<1>14. ChunksOK(m)
  <2>1. n + 1 <= MaxChunks BY <1>0
  <2> QED BY <1>12, <1>13, <2>1 DEF ChunksOK
<1>15. m[Len(m)].free_blocks = s BY <1>5, <1>6, <1>12
<1>16. \A x \in Nat : FreeRow(m, Len(m), x) <=> x < e
  <2>1. Len(m) \in 1 .. Len(m) BY <1>0, <1>12
  <2> QED BY <1>9, <1>15, <2>1 DEF FreeRow
<1>17. Fits(m, <<Len(m), 1>>, size)
  <2>1. Len(m) \in 1 .. Len(m) BY <1>0, <1>12
  <2>2. s[1] = b /\ Len(s) = 1 BY <1>4, <1>6
  <2>3. m[Len(m)].free_blocks[1].size >= size BY <1>2, <1>3, <1>15, <2>2
  <2>4. <<Len(m), 1>>[1] = Len(m) /\ <<Len(m), 1>>[2] = 1 OBVIOUS
  <2>5. 1 \in 1 .. Len(m[Len(m)].free_blocks) BY <1>15, <2>2
  <2> QED BY <2>1, <2>3, <2>4, <2>5 DEF Fits
<1>18. m[Len(m)] = new /\ Len(m) = n + 1 BY <1>12
<1> QED BY <1>2, <1>10, <1>12, <1>14, <1>16, <1>17

\* A block that fits gives its first rows.
LEMMA TakeRows ==
  ASSUME NEW s, IsFreeList(s), NEW i \in 1 .. Len(s), NEW size \in Nat, size > 0, s[i].size >= size
  PROVE  LET rest == [offset |-> s[i].offset + size, size |-> s[i].size - size]
             r == IF rest.size = 0 THEN RemoveAt(s, i) ELSE ReplaceAt(s, i, rest)
         IN  /\ IsFreeList(r) /\ s[i].offset \in Nat /\ rest.offset = s[i].offset + size
             /\ \A x \in Nat : Has(r, x) <=> Has(s, x) /\ ~(s[i].offset <= x /\ x < s[i].offset + size)
             /\ \A x \in Nat : s[i].offset <= x /\ x < s[i].offset + size => Has(s, x)
             /\ s[i].offset = 0 \/ ~Has(s, s[i].offset - 1)
<1>1. s \in Seq(Block) /\ Gapped(Len(s), Lo(s), Hi(s)) /\ Len(s) \in Nat BY DEF IsFreeList
<1>2. s[i].offset \in Nat /\ s[i].size \in Nat BY <1>1, LoHi
<1>3. PICK o \in Nat, z \in Nat : o = s[i].offset /\ z = s[i].size BY <1>2
<1> DEFINE rest == [offset |-> o + size, size |-> z - size]
<1>4. z >= size BY <1>3
<1>5. rest \in Block /\ rest.offset = o + size /\ rest.size = z - size BY <1>3, <1>4 DEF Block
<1> DEFINE r == IF rest.size = 0 THEN RemoveAt(s, i) ELSE ReplaceAt(s, i, rest)
<1>6. IsFreeList(r) /\ \A x \in Nat : Has(r, x) <=> Has(s, x) /\ ~(o <= x /\ x < o + size)
  <2> HIDE DEF rest
  <2>1. CASE rest.size = 0
    <3>1. z = size BY <1>3, <1>5, <2>1
    <3>2. IsFreeList(RemoveAt(s, i)) /\ \A x \in Nat : Has(RemoveAt(s, i), x) <=> Has(s, x) /\ ~In(s[i], x)
      BY TakeAll
    <3>3. \A x \in Nat : In(s[i], x) <=> (o <= x /\ x < o + size) BY <1>3, <3>1 DEF In
    <3> QED BY <2>1, <3>2, <3>3
  <2>2. CASE rest.size # 0
    <3>1. size < z BY <1>3, <1>4, <1>5, <2>2
    <3>2. /\ IsFreeList(ReplaceAt(s, i, rest))
          /\ \A x \in Nat : Has(ReplaceAt(s, i, rest), x)
                          <=> Has(s, x) /\ ~(s[i].offset <= x /\ x < s[i].offset + size)
      <4>1. rest.offset = s[i].offset + size /\ rest.size = s[i].size - size /\ size < s[i].size
        BY <1>3, <1>5, <3>1
      <4> QED BY <1>5, <4>1, TakeSome
    <3> QED BY <1>3, <2>2, <3>2
  <2> QED BY <2>1, <2>2
<1>7. Lo(s)[i] = o /\ Hi(s)[i] = o + z BY <1>1, <1>3, LoHi
<1>8. \A x \in Nat : o <= x /\ x < o + size => Has(s, x)
  <2> TAKE x \in Nat
  <2>1. o <= x /\ x < o + size => x < o + z BY <1>4
  <2> QED BY <1>7, <2>1 DEF Has, Covers
<1>9. o = 0 \/ ~Has(s, o - 1)
  <2>1. SUFFICES ASSUME o > 0, NEW j \in 1 .. Len(s), Lo(s)[j] <= o - 1, o - 1 < Hi(s)[j]
                 PROVE  FALSE
    BY DEF Has, Covers
  <2>2. PICK l \in Nat, h \in Nat : l = Lo(s)[j] /\ h = Hi(s)[j] BY <1>1, LoHi
  <2>3. l < o /\ o <= h BY <2>1, <2>2
  <2>4. (j < i => h < o) /\ (i < j => o + z < l) BY <1>1, <1>7, <2>2 DEF Gapped
  <2>5. j = i => l = o BY <1>7, <2>2
  <2>6. j < i \/ j = i \/ i < j BY <1>1
  <2> QED BY <2>3, <2>4, <2>5, <2>6
<1>10. rest = [offset |-> s[i].offset + size, size |-> s[i].size - size] BY <1>3
<1> HIDE DEF rest
<1> QED BY <1>3, <1>5, <1>6, <1>8, <1>9, <1>10


\* What Alloc hands out: rows that were free, from a place where free rows
\* start, and it takes no other.
Based(chunks, size) ==
  IF BestFits(chunks, size) = {} /\ LastFits(chunks, size) = {} THEN NewChunk(chunks, size) ELSE chunks

HandsOut(before, size, addr, grown) ==
  LET m == Based(before, size)  c == addr.chunk  o == addr.offset
  IN  /\ ChunksOK(m) /\ ChunksOK(grown) /\ Len(grown) = Len(m)
      /\ c \in 1 .. Len(m) /\ o \in Nat /\ addr \in [chunk : Nat, offset : Nat]
      /\ \A x \in Nat : o <= x /\ x < o + size => FreeRow(m, c, x)
      /\ \A d \in 1 .. Len(m), x \in Nat :
           FreeRow(grown, d, x) <=> FreeRow(m, d, x) /\ ~(d = c /\ o <= x /\ x < o + size)
      /\ o = 0 \/ ~FreeRow(m, c, o - 1)
      /\ \A d \in 1 .. Len(m) : grown[d].max_size >= m[d].max_size
      /\ grown[c].max_size >= o + size

\* ggml_dyn_tallocr_alloc hands out rows that were free, and no other.
LEMMA AllocHandsOut ==
  ASSUME NEW before, ChunksOK(before), NEW size \in Nat, size > 0, size <= Endless,
         BestFits(before, size) = {} /\ LastFits(before, size) = {} => Len(before) < MaxChunks
  PROVE  HandsOut(before, size, Alloc(before, size).addr, Alloc(before, size).chunks)
<1>1. PICK m : m = Based(before, size) OBVIOUS
<1> DEFINE found == IF BestFits(before, size) # {} THEN BestFit(before, size)
                    ELSE IF LastFits(before, size) # {} THEN LastFit(before, size)
                    ELSE <<Len(m), 1>>
<1>2. PICK pos : pos = found OBVIOUS
<1>3. ChunksOK(m) /\ Fits(m, pos, size)
  <2>1. CASE BestFits(before, size) # {} BY <1>1, <1>2, <2>1, BestFitFits DEF Based
  <2>2. CASE BestFits(before, size) = {} /\ LastFits(before, size) # {}
    BY <1>1, <1>2, <2>2, LastFitFits DEF Based
  <2>3. CASE BestFits(before, size) = {} /\ LastFits(before, size) = {}
    <3>1. m = NewChunk(before, size) /\ pos = <<Len(m), 1>> BY <1>1, <1>2, <2>3 DEF Based
    <3>2. Len(before) < MaxChunks BY <2>3
    <3> QED BY <3>1, <3>2, NewChunkFree
  <2> QED BY <2>1, <2>2, <2>3
<1>4. PICK c, i : c = pos[1] /\ i = pos[2] OBVIOUS
<1> DEFINE blocks == m[c].free_blocks
<1>5. c \in 1 .. Len(m) /\ i \in 1 .. Len(blocks) /\ blocks[i].size >= size BY <1>3, <1>4 DEF Fits
<1>6. /\ m \in Seq(ChunkRec) /\ m[c] \in ChunkRec /\ IsFreeList(blocks) /\ blocks \in Seq(Block)
      /\ m[c].max_size \in Nat /\ c \in Nat /\ Len(m) \in Nat BY <1>3, <1>5, ChunkFacts DEF ChunksOK
<1> DEFINE rest == [offset |-> blocks[i].offset + size, size |-> blocks[i].size - size]
<1> DEFINE list == IF rest.size = 0 THEN RemoveAt(blocks, i) ELSE ReplaceAt(blocks, i, rest)
<1> DEFINE new == [free_blocks |-> list, max_size |-> Max({m[c].max_size, rest.offset})]
<1> DEFINE grown == [m EXCEPT ![c] = new]
<1>7. Alloc(before, size) = [addr |-> [chunk |-> c, offset |-> blocks[i].offset], chunks |-> grown]
  BY <1>1, <1>2, <1>4 DEF Alloc, Based
<1>8. /\ IsFreeList(list) /\ blocks[i].offset \in Nat /\ rest.offset = blocks[i].offset + size
      /\ \A x \in Nat : Has(list, x) <=> Has(blocks, x) /\ ~(blocks[i].offset <= x /\ x < blocks[i].offset + size)
      /\ \A x \in Nat : blocks[i].offset <= x /\ x < blocks[i].offset + size => Has(blocks, x)
      /\ blocks[i].offset = 0 \/ ~Has(blocks, blocks[i].offset - 1)
  <2> HIDE DEF blocks
  <2> QED BY <1>5, <1>6, TakeRows
<1>9. PICK o \in Nat : o = blocks[i].offset BY <1>8
<1>10. PICK l : l = list OBVIOUS
<1>11. PICK top \in Nat : top = Max({m[c].max_size, rest.offset}) /\ top >= m[c].max_size /\ top >= o + size
  <2>1. o + size \in Nat /\ rest.offset = o + size BY <1>8, <1>9
  <2>2. Max({m[c].max_size, o + size}) \in Nat /\ Max({m[c].max_size, o + size}) >= m[c].max_size
        /\ Max({m[c].max_size, o + size}) >= o + size BY <1>6, <2>1, MaxOfTwo
  <2> HIDE DEF rest
  <2> QED BY <2>1, <2>2
<1>12. PICK r : r = [m EXCEPT ![c] = [free_blocks |-> l, max_size |-> top]] OBVIOUS
<1>13. grown = r BY <1>10, <1>11, <1>12
<1>14. IsFreeList(l) /\ l \in Seq(Block) BY <1>8, <1>10 DEF IsFreeList
<1>15. \A x \in Nat : Has(l, x) <=> Has(m[c].free_blocks, x) /\ ~(o <= x /\ x < o + size) BY <1>8, <1>9, <1>10
<1>16. \A x \in Nat : o <= x /\ x < o + size => Has(m[c].free_blocks, x) BY <1>8, <1>9
<1>17. o = 0 \/ ~Has(m[c].free_blocks, o - 1) BY <1>8, <1>9
<1>18. Alloc(before, size).addr = [chunk |-> c, offset |-> o] /\ Alloc(before, size).chunks = r
  BY <1>7, <1>9, <1>13
<1> HIDE DEF blocks, rest, list, new, grown
<1>19. [free_blocks |-> l, max_size |-> top] \in ChunkRec BY <1>14 DEF ChunkRec
<1>20. /\ r \in Seq(ChunkRec) /\ Len(r) = Len(m) /\ r[c].free_blocks = l /\ r[c].max_size = top
       /\ \A d \in 1 .. Len(m) : d # c => r[d] = m[d] BY <1>5, <1>6, <1>12, <1>19
<1>21. ChunksOK(r)
  <2>1. \A d \in 1 .. Len(r) : IsFreeList(r[d].free_blocks) BY <1>3, <1>14, <1>20 DEF ChunksOK
  <2> QED BY <1>3, <1>20, <2>1 DEF ChunksOK
<1>22. \A d \in 1 .. Len(m), x \in Nat :
         FreeRow(r, d, x) <=> FreeRow(m, d, x) /\ ~(d = c /\ o <= x /\ x < o + size)
  <2> TAKE d \in 1 .. Len(m), x \in Nat
  <2>1. CASE d = c BY <1>15, <1>20, <2>1 DEF FreeRow
  <2>2. CASE d # c BY <1>20, <2>2 DEF FreeRow
  <2> QED BY <2>1, <2>2
<1>23. \A x \in Nat : o <= x /\ x < o + size => FreeRow(m, c, x) BY <1>5, <1>16 DEF FreeRow
<1>24. o = 0 \/ ~FreeRow(m, c, o - 1) BY <1>17 DEF FreeRow
<1>25. \A d \in 1 .. Len(m) : r[d].max_size >= m[d].max_size
  <2> TAKE d \in 1 .. Len(m)
  <2>1. m[d].max_size \in Nat BY <1>3, ChunkFacts
  <2>2. CASE d = c BY <1>11, <1>20, <2>2
  <2>3. CASE d # c BY <1>20, <2>1, <2>3
  <2> QED BY <2>2, <2>3
<1>26. r[c].max_size >= o + size BY <1>11, <1>20
<1>27. HandsOut(before, size, [chunk |-> c, offset |-> o], r)
  <2>1. [chunk |-> c, offset |-> o] \in [chunk : Nat, offset : Nat] BY <1>6
  <2> QED BY <1>1, <1>3, <1>5, <1>20, <1>21, <1>22, <1>23, <1>24, <1>25, <1>26, <2>1 DEF HandsOut
<1> QED BY <1>18, <1>27

----
\* Tensors and the rows they hold.

\* The graph that is planned, and the batch it is planned for.
Planned == /\ graph \in Seq(GraphTensor) /\ WellFormed(graph)
           /\ batch \in Nat /\ batch > 0

HnRec == [n_children : Int, n_views : Int, allocated : BOOLEAN, addr : [chunk : Nat, offset : Nat]]
Galloc == [chunks : Seq(ChunkRec), hn : [Tensors -> HnRec]]

\* Row x of chunk c is tensor t's.
Owns(ga, t, c, x) ==
  /\ ga.hn[t].allocated /\ ga.hn[t].addr.chunk = c
  /\ ga.hn[t].addr.offset <= x /\ x < ga.hn[t].addr.offset + Size(t)

\* A row is free or one tensor's, up to the end of the chunk; the last
\* chunk is untouched from row k on.
Whole(ga, c) ==
  \E e \in Nat : /\ e >= MaxChunkSize /\ (c = MaxChunks => e = Endless)
                 /\ \A x \in Nat : x < e <=> FreeRow(ga.chunks, c, x) \/ \E t \in Tensors : Owns(ga, t, c, x)

Placed(ga, k) ==
  /\ ga \in Galloc /\ ChunksOK(ga.chunks)
  /\ \A t \in Tensors : ga.hn[t].allocated => t \in Owning /\ ga.hn[t].addr.chunk \in 1 .. Len(ga.chunks)
  /\ \A t, u \in Tensors : \A c, x \in Nat : Owns(ga, t, c, x) /\ Owns(ga, u, c, x) => t = u
  /\ \A t \in Tensors : \A c, x \in Nat : Owns(ga, t, c, x) => ~FreeRow(ga.chunks, c, x)
  /\ \A c \in 1 .. Len(ga.chunks) : Whole(ga, c)
  /\ Len(ga.chunks) = MaxChunks =>
       \A x \in Nat : k <= x /\ x < Endless => FreeRow(ga.chunks, MaxChunks, x)

\* A graph's tensors, and their sizes.
LEMMA GraphFacts ==
  ASSUME Planned, NEW t \in Tensors
  PROVE  /\ Tensors = 1 .. Len(graph) /\ Len(graph) \in Nat /\ graph[t] \in GraphTensor
         /\ Size(t) \in Nat /\ Size(t) > 0 /\ Size(t) <= batch
<1>1. Tensors = 1 .. Len(graph) /\ Len(graph) \in Nat BY DEF Planned, Tensors
<1>2. graph[t] \in GraphTensor BY <1>1, ElementOfSeq DEF Planned
<1> QED BY <1>1, <1>2 DEF Planned, Size

\* What is known of a tensor, by type.
LEMMA HnFacts ==
  ASSUME NEW ga \in Galloc, NEW t \in Tensors
  PROVE  /\ ga.hn[t] \in HnRec /\ ga.hn[t].allocated \in BOOLEAN /\ ga.hn[t].addr \in [chunk : Nat, offset : Nat]
         /\ ga.hn[t].addr.chunk \in Nat /\ ga.hn[t].addr.offset \in Nat
         /\ ga.hn[t].n_children \in Int /\ ga.hn[t].n_views \in Int
         /\ ga.hn \in [Tensors -> HnRec] /\ ga.chunks \in Seq(ChunkRec)
         /\ ga = [chunks |-> ga.chunks, hn |-> ga.hn]
<1>1. ga.hn \in [Tensors -> HnRec] /\ ga.chunks \in Seq(ChunkRec) /\ ga = [chunks |-> ga.chunks, hn |-> ga.hn]
  BY DEF Galloc
<1>2. ga.hn[t] \in HnRec BY <1>1
<1> QED BY <1>1, <1>2 DEF HnRec

\* While few rows are asked of it, the last chunk has a block for more.
LEMMA LastChunkFits ==
  ASSUME Planned, NEW ga, NEW k \in Nat, Placed(ga, k), NEW size \in Nat, size > 0, k + size <= Endless,
         Len(ga.chunks) = MaxChunks
  PROVE  LastFits(ga.chunks, size) # {}
<1>1. /\ MaxChunks \in Nat /\ MaxChunks > 0 /\ Endless \in Nat BY ChunkAssumption
<1>2. /\ MaxChunks \in 1 .. Len(ga.chunks) /\ ChunksOK(ga.chunks) BY <1>1 DEF Placed
<1> DEFINE s == ga.chunks[MaxChunks].free_blocks
<1>3. IsFreeList(s) /\ s \in Seq(Block) /\ Gapped(Len(s), Lo(s), Hi(s)) BY <1>2, ChunkFacts DEF IsFreeList
<1>4. /\ Len(s) \in Nat /\ Lo(s) \in [1 .. Len(s) -> Nat] /\ Hi(s) \in [1 .. Len(s) -> Nat] BY <1>3, LoHi
<1>5. \A x \in Nat : k <= x /\ x < Endless => Has(s, x) BY DEF Placed, FreeRow
<1>6. \A x \in Nat : Has(s, x) => x < Endless
  <2>1. PICK e \in Nat : e = Endless /\ \A x \in Nat : FreeRow(ga.chunks, MaxChunks, x) => x < e
    BY <1>2 DEF Placed, Whole
  <2> QED BY <1>2, <2>1 DEF FreeRow
<1> HIDE DEF s
<1>7. PICK j \in 1 .. Len(s) : Lo(s)[j] <= Endless - 1 /\ Endless - 1 < Hi(s)[j]
  <2>1. Endless - 1 \in Nat /\ k <= Endless - 1 /\ Endless - 1 < Endless BY <1>1
  <2>2. Has(s, Endless - 1) BY <1>5, <2>1
  <2> QED BY <2>2 DEF Has, Covers
<1> DEFINE L == Len(s)
<1>8. L \in 1 .. Len(s) /\ L \in Nat BY <1>4, <1>7
<1>9. Lo(s)[L] < Hi(s)[L] /\ Lo(s)[L] \in Nat /\ Hi(s)[L] \in Nat /\ Lo(s)[j] \in Nat /\ Hi(s)[j] \in Nat
  BY <1>3, <1>4, <1>8 DEF Gapped
<1>10. Lo(s)[L] < Endless
  <2>1. Has(s, Lo(s)[L]) BY <1>8, <1>9 DEF Has, Covers
  <2> QED BY <1>6, <1>9, <2>1
<1>11. j = L
  <2>1. SUFFICES ASSUME j < L PROVE FALSE BY <1>4, <1>7
  <2>2. Hi(s)[j] < Lo(s)[L] BY <1>3, <1>7, <1>8, <2>1 DEF Gapped
  <2> QED BY <1>1, <1>7, <1>9, <1>10, <2>2
<1>12. Lo(s)[L] <= k
  <2>1. SUFFICES ASSUME Lo(s)[L] > k PROVE FALSE BY <1>9
  <2>2. Lo(s)[L] - 1 \in Nat /\ k <= Lo(s)[L] - 1 /\ Lo(s)[L] - 1 < Endless BY <1>1, <1>9, <1>10, <2>1
  <2>3. Has(s, Lo(s)[L] - 1) BY <1>5, <2>2
  <2>4. PICK i \in 1 .. L : Lo(s)[i] <= Lo(s)[L] - 1 /\ Lo(s)[L] - 1 < Hi(s)[i] BY <2>3 DEF Has, Covers
  <2>5. Lo(s)[i] \in Nat /\ Hi(s)[i] \in Nat BY <1>4
  <2>6. i # L BY <1>9, <2>4
  <2>7. i < L BY <1>8, <2>6
  <2>8. Hi(s)[i] < Lo(s)[L] BY <1>3, <1>8, <2>7 DEF Gapped
  <2> QED BY <1>9, <2>4, <2>5, <2>8
<1>13. s[L].size >= size
  <2>1. Lo(s)[L] = s[L].offset /\ Hi(s)[L] = s[L].offset + s[L].size /\ s[L].offset \in Nat /\ s[L].size \in Nat
    BY <1>3, <1>8, LoHi
  <2>2. PICK o \in Nat, z \in Nat : o = s[L].offset /\ z = s[L].size BY <2>1
  <2>3. o <= k /\ Endless - 1 < o + z BY <1>7, <1>11, <1>12, <2>1, <2>2
  <2>4. z >= size BY <1>1, <2>3
  <2> QED BY <2>2, <2>4
<1>14. s # <<>> /\ Last(s) = s[L]
  <2>1. Len(s) # 0 BY <1>8
  <2> QED BY <2>1 DEF Last
<1>15. MaxChunks \in DOMAIN ga.chunks BY <1>2 DEF ChunksOK
<1>16. MaxChunks \in LastFits(ga.chunks, size) BY <1>13, <1>14, <1>15 DEF LastFits, s
<1> QED BY <1>16

\* A new chunk, when there is one, changes nothing else.
LEMMA BasedPlaced ==
  ASSUME Planned, NEW ga, NEW k \in Nat, Placed(ga, k), NEW size \in Nat, size > 0, k + size <= Endless
  PROVE  /\ BestFits(ga.chunks, size) = {} /\ LastFits(ga.chunks, size) = {} => Len(ga.chunks) < MaxChunks
         /\ Placed([chunks |-> Based(ga.chunks, size), hn |-> ga.hn], k)
         /\ Len(Based(ga.chunks, size)) >= Len(ga.chunks)
         /\ \A c \in 1 .. Len(ga.chunks) : Based(ga.chunks, size)[c] = ga.chunks[c]
<1> DEFINE m == Based(ga.chunks, size)
<1> DEFINE n == Len(ga.chunks)
<1>0. n \in Nat /\ n <= MaxChunks /\ MaxChunks \in Nat /\ Endless \in Nat /\ ChunksOK(ga.chunks) /\ ga \in Galloc
  BY ChunkAssumption DEF Placed, ChunksOK
<1>1. BestFits(ga.chunks, size) = {} /\ LastFits(ga.chunks, size) = {} => n < MaxChunks
  <2>1. n = MaxChunks => LastFits(ga.chunks, size) # {} BY LastChunkFits
  <2> QED BY <1>0, <2>1
<1>2. CASE ~(BestFits(ga.chunks, size) = {} /\ LastFits(ga.chunks, size) = {})
  <2>1. m = ga.chunks BY <1>2 DEF Based
  <2>2. [chunks |-> ga.chunks, hn |-> ga.hn] = ga BY <1>0 DEF Galloc
  <2> QED BY <1>0, <1>1, <2>1, <2>2
<1>3. CASE BestFits(ga.chunks, size) = {} /\ LastFits(ga.chunks, size) = {}
  <2>1. m = NewChunk(ga.chunks, size) BY <1>3 DEF Based
  <2>2. size <= Endless /\ n < MaxChunks BY <1>0, <1>1, <1>3
  <2> DEFINE new == NewChunk(ga.chunks, size)
  <2>a. /\ ChunksOK(new) /\ Len(new) = Len(ga.chunks) + 1 /\ \A c \in 1 .. Len(ga.chunks) : new[c] = ga.chunks[c]
        /\ \E e \in Nat : /\ e >= MaxChunkSize /\ (Len(new) = MaxChunks => e = Endless)
                          /\ \A x \in Nat : FreeRow(new, Len(new), x) <=> x < e
    <3>1. ChunksOK(ga.chunks) /\ Len(ga.chunks) < MaxChunks /\ size <= Endless BY <1>0, <2>2
    <3> HIDE DEF m, n
    <3> QED BY <3>1, NewChunkFree
  <2> HIDE DEF new
  <2>3. ChunksOK(m) /\ Len(m) = n + 1 /\ \A c \in 1 .. n : m[c] = ga.chunks[c] BY <2>1, <2>a DEF new
  <2>4. PICK e \in Nat : /\ e >= MaxChunkSize /\ (n + 1 = MaxChunks => e = Endless)
                         /\ \A x \in Nat : FreeRow(m, n + 1, x) <=> x < e BY <2>1, <2>a, <2>3 DEF new
  <2>5. PICK b : b = [chunks |-> m, hn |-> ga.hn] OBVIOUS
  <2>6. b.chunks = m /\ b.hn = ga.hn BY <2>5
  <2>7. PICK q : q = m OBVIOUS
  <2> HIDE DEF m
  <2>8. b \in Galloc BY <1>0, <2>3, <2>5 DEF Galloc, ChunksOK
  <2>9. \A t \in Tensors : \A c, x \in Nat : Owns(b, t, c, x) <=> Owns(ga, t, c, x) BY <2>6 DEF Owns
  <2>10. \A t \in Tensors : \A c, x \in Nat : Owns(ga, t, c, x) => c \in 1 .. n BY DEF Owns, Placed
  <2>11. \A c \in 1 .. n : \A x \in Nat : FreeRow(m, c, x) <=> FreeRow(ga.chunks, c, x)
    <3> TAKE c \in 1 .. n
    <3>1. c \in 1 .. Len(m) BY <1>0, <2>3
    <3> QED BY <2>3, <3>1 DEF FreeRow
  <2>12. \A t \in Tensors : b.hn[t].allocated => t \in Owning /\ b.hn[t].addr.chunk \in 1 .. n + 1
    BY <1>0, <2>6 DEF Placed
  <2>13. \A t \in Tensors : \A c, x \in Nat : Owns(b, t, c, x) => ~FreeRow(m, c, x)
    BY <2>9, <2>10, <2>11 DEF Placed
  <2>14. \A c \in 1 .. n + 1 : Whole(b, c)
    <3> TAKE c \in 1 .. n + 1
    <3>1. CASE c = n + 1
      <4>1. \A t \in Tensors, x \in Nat : ~Owns(b, t, n + 1, x)
        <5>1. n + 1 \in Nat /\ n + 1 \notin 1 .. n BY <1>0
        <5> QED BY <5>1, <2>9, <2>10
      <4>2. \A x \in Nat : x < e <=> FreeRow(m, n + 1, x) \/ \E t \in Tensors : Owns(b, t, n + 1, x)
        BY <2>4, <4>1
      <4> QED BY <2>4, <2>6, <3>1, <4>2 DEF Whole
    <3>2. CASE c # n + 1
      <4>1. c \in 1 .. n /\ c \in Nat BY <1>0, <3>2
      <4>2. PICK f \in Nat : /\ f >= MaxChunkSize /\ (c = MaxChunks => f = Endless)
              /\ \A x \in Nat : x < f <=> FreeRow(ga.chunks, c, x) \/ \E t \in Tensors : Owns(ga, t, c, x)
        BY <4>1 DEF Placed, Whole
      <4>3. \A x \in Nat : x < f <=> FreeRow(m, c, x) \/ \E t \in Tensors : Owns(b, t, c, x)
        BY <2>9, <2>11, <4>1, <4>2
      <4> QED BY <2>6, <4>2, <4>3 DEF Whole
    <3> QED BY <3>1, <3>2
  <2>15. n + 1 = MaxChunks => \A x \in Nat : k <= x /\ x < Endless => FreeRow(m, MaxChunks, x) BY <2>4
  <2>16. \A t, u \in Tensors : \A c, x \in Nat : Owns(b, t, c, x) /\ Owns(b, u, c, x) => t = u
    BY <2>9 DEF Placed
  <2>17. Placed(b, k) BY <2>3, <2>6, <2>8, <2>12, <2>13, <2>14, <2>15, <2>16 DEF Placed
  <2>18. Placed([chunks |-> m, hn |-> ga.hn], k) BY <2>5, <2>17
  <2>19. Len(m) >= Len(ga.chunks) BY <1>0, <2>3
  <2> QED BY <1>1, <2>3, <2>18, <2>19 DEF m
<1> QED BY <1>2, <1>3

\* What FromBuffer leaves: t has rows that were free.
LEMMA FromBufferPlaced ==
  ASSUME Planned, NEW ga, NEW k \in Nat, Placed(ga, k), NEW t \in Owning, ~ga.hn[t].allocated,
         k + batch <= Endless
  PROVE  LET b == FromBuffer(ga, t)
             c == b.hn[t].addr.chunk
             o == b.hn[t].addr.offset
         IN  /\ Placed(b, k + batch)
             /\ b.hn[t].allocated /\ b.hn[t].n_children = ga.hn[t].n_children /\ b.hn[t].n_views = ga.hn[t].n_views
             /\ \A u \in Tensors : u # t => b.hn[u] = ga.hn[u]
             /\ \A u \in Tensors : \A x \in Nat : Owns(ga, u, c, x) => ~(o <= x /\ x < o + Size(t))
             /\ Len(b.chunks) >= Len(ga.chunks)
             /\ \A d \in 1 .. Len(ga.chunks) : b.chunks[d].max_size >= ga.chunks[d].max_size
             /\ b.chunks[c].max_size >= o + Size(t)
<1> DEFINE size == Size(t)
<1> DEFINE m == Based(ga.chunks, size)
<1> DEFINE g == [chunks |-> m, hn |-> ga.hn]
<1> DEFINE a == Alloc(ga.chunks, size)
<1>0. t \in Tensors /\ ga \in Galloc /\ ChunksOK(ga.chunks) /\ batch \in Nat BY DEF Owning, Placed, Planned
<1>1. size \in Nat /\ size > 0 /\ size <= batch BY <1>0, GraphFacts
<1>2. k + size <= Endless /\ size <= Endless /\ Endless \in Nat BY <1>0, <1>1, ChunkAssumption
<1> HIDE DEF size
<1>3. /\ BestFits(ga.chunks, size) = {} /\ LastFits(ga.chunks, size) = {} => Len(ga.chunks) < MaxChunks
      /\ Placed(g, k) /\ Len(m) >= Len(ga.chunks)
      /\ \A c \in 1 .. Len(ga.chunks) : m[c] = ga.chunks[c] BY <1>1, <1>2, BasedPlaced
<1>4. HandsOut(ga.chunks, size, a.addr, a.chunks) BY <1>0, <1>1, <1>2, <1>3, AllocHandsOut
<1>5. PICK c, o : c = a.addr.chunk /\ o = a.addr.offset OBVIOUS
<1>6. PICK grown : grown = a.chunks OBVIOUS
<1>7. PICK q : q = m OBVIOUS
<1>8. /\ ChunksOK(q) /\ ChunksOK(grown) /\ Len(grown) = Len(q)
      /\ c \in 1 .. Len(q) /\ o \in Nat /\ a.addr \in [chunk : Nat, offset : Nat]
      /\ \A x \in Nat : o <= x /\ x < o + size => FreeRow(q, c, x)
      /\ \A d \in 1 .. Len(q), x \in Nat :
           FreeRow(grown, d, x) <=> FreeRow(q, d, x) /\ ~(d = c /\ o <= x /\ x < o + size)
      /\ o = 0 \/ ~FreeRow(q, c, o - 1)
      /\ \A d \in 1 .. Len(q) : grown[d].max_size >= q[d].max_size
      /\ grown[c].max_size >= o + size BY <1>4, <1>5, <1>6, <1>7 DEF HandsOut
<1>9. PICK b : b = FromBuffer(ga, t) OBVIOUS
<1>10. b = [chunks |-> grown, hn |-> [ga.hn EXCEPT ![t].allocated = TRUE, ![t].addr = a.addr]]
  BY <1>6, <1>9 DEF FromBuffer, size
<1>11. PICK addr \in [chunk : Nat, offset : Nat] : addr = a.addr BY <1>8
<1>12. PICK h : h = g OBVIOUS
<1>13. h.chunks = q /\ h.hn = ga.hn /\ Placed(h, k) BY <1>3, <1>7, <1>12
<1>14. Len(q) >= Len(ga.chunks) /\ \A d \in 1 .. Len(ga.chunks) : q[d] = ga.chunks[d] BY <1>3, <1>7
<1>15. addr.chunk = c /\ addr.offset = o BY <1>5, <1>11
<1>16. b = [chunks |-> grown, hn |-> [ga.hn EXCEPT ![t].allocated = TRUE, ![t].addr = addr]] BY <1>10, <1>11
<1> HIDE DEF a, m, g
<1>17. /\ b.chunks = grown /\ b.hn[t].allocated /\ b.hn[t].addr = addr
       /\ b.hn[t].n_children = ga.hn[t].n_children /\ b.hn[t].n_views = ga.hn[t].n_views
       /\ \A u \in Tensors : u # t => b.hn[u] = ga.hn[u]
       /\ b.hn \in [Tensors -> HnRec]
  <2>1. ga.hn \in [Tensors -> HnRec] /\ ga.hn[t] \in HnRec BY <1>0, HnFacts
  <2>2. [[ga.hn[t] EXCEPT !.allocated = TRUE] EXCEPT !.addr = addr] \in HnRec BY <2>1 DEF HnRec
  <2> QED BY <1>0, <1>16, <2>1, <2>2 DEF HnRec
<1>18. b \in Galloc
  <2>1. grown \in Seq(ChunkRec) BY <1>8 DEF ChunksOK
  <2>2. b = [chunks |-> grown, hn |-> b.hn] BY <1>16
  <2> QED BY <1>17, <2>1, <2>2 DEF Galloc
<1>19. \A d, x \in Nat : Owns(b, t, d, x) <=> d = c /\ o <= x /\ x < o + size BY <1>15, <1>17 DEF Owns, size
<1>20. \A u \in Tensors : \A d, x \in Nat : Owns(b, u, d, x) /\ u # t <=> Owns(h, u, d, x)
  <2>1. \A d, x \in Nat : ~Owns(h, t, d, x) BY <1>13 DEF Owns
  <2>2. \A u \in Tensors : u # t => \A d, x \in Nat : Owns(b, u, d, x) <=> Owns(h, u, d, x)
    BY <1>13, <1>17 DEF Owns
  <2> QED BY <2>1, <2>2
<1>21. \A u \in Tensors : \A d, x \in Nat : Owns(h, u, d, x) => ~FreeRow(q, d, x) BY <1>13 DEF Placed
<1>22. c \in Nat /\ Len(q) \in Nat BY <1>8 DEF ChunksOK
<1>23. \A u \in Tensors : \A x \in Nat : Owns(h, u, c, x) => ~(o <= x /\ x < o + size) BY <1>8, <1>21, <1>22
<1>24. \A u, v \in Tensors : \A d, x \in Nat : Owns(b, u, d, x) /\ Owns(b, v, d, x) => u = v
  <2> TAKE u, v \in Tensors
  <2> TAKE d, x \in Nat
  <2> HAVE Owns(b, u, d, x) /\ Owns(b, v, d, x)
  <2>1. CASE u # t /\ v # t BY <1>13, <1>20, <2>1 DEF Placed
  <2>2. CASE u = t /\ v # t BY <1>19, <1>20, <1>23, <2>2
  <2>3. CASE u # t /\ v = t BY <1>19, <1>20, <1>23, <2>3
  <2> QED BY <2>1, <2>2, <2>3
<1>25. \A d \in Nat : \A x \in Nat : FreeRow(grown, d, x) <=> FreeRow(q, d, x) /\ ~(d = c /\ o <= x /\ x < o + size)
  <2> TAKE d \in Nat
  <2>1. CASE d \in 1 .. Len(q) BY <1>8, <2>1
  <2>2. CASE d \notin 1 .. Len(q) BY <1>8, <2>2 DEF FreeRow
  <2> QED BY <2>1, <2>2
<1>26. \A u \in Tensors : \A d, x \in Nat : Owns(b, u, d, x) => ~FreeRow(grown, d, x)
  <2> TAKE u \in Tensors
  <2> TAKE d, x \in Nat
  <2> HAVE Owns(b, u, d, x)
  <2>1. CASE u = t BY <1>19, <1>25, <2>1
  <2>2. CASE u # t BY <1>20, <1>21, <1>25, <2>2
  <2> QED BY <2>1, <2>2
<1>27. \A d \in 1 .. Len(grown) : Whole(b, d)
  <2> TAKE d \in 1 .. Len(grown)
  <2>0. d \in Nat /\ d \in 1 .. Len(q) BY <1>8
  <2>1. PICK e \in Nat : /\ e >= MaxChunkSize /\ (d = MaxChunks => e = Endless)
          /\ \A x \in Nat : x < e <=> FreeRow(q, d, x) \/ \E u \in Tensors : Owns(h, u, d, x)
    BY <1>13, <2>0 DEF Placed, Whole
  <2>2. ASSUME NEW x \in Nat
        PROVE  x < e <=> FreeRow(grown, d, x) \/ \E u \in Tensors : Owns(b, u, d, x)
    <3>1. (\E u \in Tensors : Owns(b, u, d, x))
            <=> (\E u \in Tensors : Owns(h, u, d, x)) \/ (d = c /\ o <= x /\ x < o + size)
      BY <1>0, <1>19, <1>20, <2>0
    <3>2. FreeRow(grown, d, x) <=> FreeRow(q, d, x) /\ ~(d = c /\ o <= x /\ x < o + size) BY <1>25, <2>0
    <3>3. (d = c /\ o <= x /\ x < o + size) => FreeRow(q, d, x) BY <1>8
    <3> QED BY <2>1, <3>1, <3>2, <3>3
  <2> QED BY <1>17, <2>1, <2>2 DEF Whole
<1>28. Len(grown) = MaxChunks => \A x \in Nat : k + batch <= x /\ x < Endless => FreeRow(grown, MaxChunks, x)
  <2> HAVE Len(grown) = MaxChunks
  <2> TAKE x \in Nat
  <2> HAVE k + batch <= x /\ x < Endless
  <2>1. MaxChunks \in Nat BY ChunkAssumption
  <2>2. \A y \in Nat : k <= y /\ y < Endless => FreeRow(q, MaxChunks, y) BY <1>8, <1>13 DEF Placed
  <2>3. FreeRow(q, MaxChunks, x) BY <1>0, <2>2
  <2>4. CASE c # MaxChunks BY <1>25, <2>1, <2>3, <2>4
  <2>5. CASE c = MaxChunks
    <3>1. o < Endless
      <4>0. o <= o /\ o < o + size BY <1>1, <1>8
      <4>a. FreeRow(q, c, o) BY <1>8, <4>0
      <4>1. FreeRow(q, MaxChunks, o) BY <2>5, <4>a
      <4>2. c \in 1 .. Len(h.chunks) BY <1>8, <1>13
      <4>3. PICK e \in Nat : e = Endless /\ \A y \in Nat : FreeRow(q, MaxChunks, y) => y < e
        BY <1>13, <2>5, <4>2 DEF Placed, Whole
      <4> QED BY <1>8, <4>1, <4>3
    <3>2. o <= k
      <4>1. SUFFICES ASSUME o > k PROVE FALSE BY <1>8
      <4>2. o - 1 \in Nat /\ k <= o - 1 /\ o - 1 < Endless BY <1>2, <1>8, <3>1, <4>1
      <4>3. o # 0 BY <4>1
      <4> QED BY <1>8, <2>2, <2>5, <4>2, <4>3
    <3>3. ~(o <= x /\ x < o + size) BY <1>0, <1>1, <1>8, <3>2
    <3> QED BY <1>25, <2>1, <2>3, <3>3
  <2> QED BY <2>4, <2>5
<1>29. \A u \in Tensors : b.hn[u].allocated => u \in Owning /\ b.hn[u].addr.chunk \in 1 .. Len(grown)
  <2> TAKE u \in Tensors
  <2>1. CASE u = t BY <1>8, <1>15, <1>17, <2>1
  <2>2. CASE u # t BY <1>8, <1>13, <1>17, <2>2 DEF Placed
  <2> QED BY <2>1, <2>2
<1>30. Placed(b, k + batch) BY <1>8, <1>17, <1>18, <1>24, <1>26, <1>27, <1>28, <1>29 DEF Placed
<1>31. \A u \in Tensors : \A x \in Nat : Owns(ga, u, c, x) => ~(o <= x /\ x < o + size)
  <2>1. \A u \in Tensors : \A x \in Nat : Owns(ga, u, c, x) <=> Owns(h, u, c, x) BY <1>13 DEF Owns
  <2> QED BY <1>23, <2>1
<1>32. \A d \in 1 .. Len(ga.chunks) : grown[d].max_size >= ga.chunks[d].max_size
  <2> TAKE d \in 1 .. Len(ga.chunks)
  <2>1. d \in 1 .. Len(q) BY <1>0, <1>14, <1>22 DEF ChunksOK
  <2> QED BY <1>8, <1>14, <2>1
<1> QED BY <1>8, <1>9, <1>14, <1>15, <1>17, <1>30, <1>31, <1>32 DEF size


\* Counting readers changes no place.
LEMMA CountsPlaced ==
  ASSUME Planned, NEW ga, NEW k \in Nat, Placed(ga, k), NEW b \in Galloc, b.chunks = ga.chunks,
         \A u \in Tensors : b.hn[u].allocated = ga.hn[u].allocated /\ b.hn[u].addr = ga.hn[u].addr
  PROVE  Placed(b, k)
<1>1. \A u \in Tensors : \A c, x \in Nat : Owns(b, u, c, x) <=> Owns(ga, u, c, x) BY DEF Owns
<1>2. \A c \in 1 .. Len(b.chunks) : Whole(b, c)
  <2> TAKE c \in 1 .. Len(b.chunks)
  <2>0. c \in Nat BY DEF Galloc
  <2>1. PICK e \in Nat : /\ e >= MaxChunkSize /\ (c = MaxChunks => e = Endless)
          /\ \A x \in Nat : x < e <=> FreeRow(ga.chunks, c, x) \/ \E u \in Tensors : Owns(ga, u, c, x)
    BY DEF Placed, Whole
  <2>2. \A x \in Nat : x < e <=> FreeRow(b.chunks, c, x) \/ \E u \in Tensors : Owns(b, u, c, x)
    BY <1>1, <2>0, <2>1
  <2> QED BY <2>1, <2>2 DEF Whole
<1>3. \A t, u \in Tensors : \A c, x \in Nat : Owns(b, t, c, x) /\ Owns(b, u, c, x) => t = u BY <1>1 DEF Placed
<1>4. \A t \in Tensors : \A c, x \in Nat : Owns(b, t, c, x) => ~FreeRow(b.chunks, c, x) BY <1>1 DEF Placed
<1>5. \A t \in Tensors : b.hn[t].allocated => t \in Owning /\ b.hn[t].addr.chunk \in 1 .. Len(b.chunks)
  BY DEF Placed
<1>6. ChunksOK(b.chunks) /\ (Len(b.chunks) = MaxChunks =>
        \A x \in Nat : k <= x /\ x < Endless => FreeRow(b.chunks, MaxChunks, x)) BY DEF Placed
<1> QED BY <1>2, <1>3, <1>4, <1>5, <1>6 DEF Placed

\* More rows asked of the last chunk.
LEMMA PlacedLater ==
  ASSUME NEW ga, NEW k \in Nat, NEW l \in Nat, k <= l, Placed(ga, k)
  PROVE  Placed(ga, l)
<1>1. \A x \in Nat : l <= x => k <= x OBVIOUS
<1> QED BY <1>1 DEF Placed

\* t takes over the rows of p.
LEMMA InPlacePlaced ==
  ASSUME Planned, NEW ga, NEW k \in Nat, Placed(ga, k), NEW t \in Owning, ~ga.hn[t].allocated,
         NEW p \in Tensors, ga.hn[p].allocated, Size(t) = Size(p)
  PROVE  LET b == InPlace(ga, t, p)
         IN  /\ Placed(b, k) /\ b.chunks = ga.chunks
             /\ b.hn[t].allocated /\ b.hn[t].addr = ga.hn[p].addr /\ ~b.hn[p].allocated /\ b.hn[p].addr = ga.hn[p].addr
             /\ \A u \in Tensors : u # t /\ u # p => b.hn[u] = ga.hn[u]
             /\ \A u \in Tensors : /\ b.hn[u].n_children = ga.hn[u].n_children
                                  /\ b.hn[u].n_views = ga.hn[u].n_views
<1>0. t \in Tensors /\ ga \in Galloc /\ ChunksOK(ga.chunks) /\ t # p BY DEF Owning, Placed
<1>1. PICK b : b = InPlace(ga, t, p) OBVIOUS
<1>2. ga.hn \in [Tensors -> HnRec] /\ ga.hn[t] \in HnRec /\ ga.hn[p] \in HnRec
      /\ ga.hn[p].addr \in [chunk : Nat, offset : Nat] BY <1>0, HnFacts
<1>3. PICK addr \in [chunk : Nat, offset : Nat] : addr = ga.hn[p].addr BY <1>2
<1>4. b = [ga EXCEPT !.hn[t].allocated = TRUE, !.hn[t].addr = addr, !.hn[p].allocated = FALSE]
  BY <1>1, <1>3 DEF InPlace
<1>5. b = [chunks |-> ga.chunks, hn |-> [ga.hn EXCEPT ![t].allocated = TRUE, ![t].addr = addr, ![p].allocated = FALSE]]
  BY <1>0, <1>4, HnFacts DEF Galloc
<1>6. /\ b.chunks = ga.chunks /\ b.hn[t].allocated /\ b.hn[t].addr = addr
      /\ ~b.hn[p].allocated /\ b.hn[p].addr = ga.hn[p].addr
      /\ \A u \in Tensors : u # t /\ u # p => b.hn[u] = ga.hn[u] BY <1>0, <1>2, <1>5 DEF HnRec
<1>7. \A u \in Tensors : b.hn[u].n_children = ga.hn[u].n_children /\ b.hn[u].n_views = ga.hn[u].n_views
  BY <1>0, <1>2, <1>5 DEF HnRec
<1>8. b \in Galloc
  <2>1. /\ [[ga.hn[t] EXCEPT !.allocated = TRUE] EXCEPT !.addr = addr] \in HnRec
        /\ [ga.hn[p] EXCEPT !.allocated = FALSE] \in HnRec BY <1>2 DEF HnRec
  <2>2. b.hn \in [Tensors -> HnRec] BY <1>0, <1>2, <1>5, <2>1
  <2>3. ga.chunks \in Seq(ChunkRec) BY <1>0, HnFacts
  <2>4. b = [chunks |-> ga.chunks, hn |-> b.hn] BY <1>5
  <2> QED BY <2>2, <2>3, <2>4 DEF Galloc
<1> DEFINE Before(u) == IF u = t THEN p ELSE u
<1>9. \A u \in Tensors : \A c, x \in Nat : Owns(b, u, c, x) <=> u # p /\ Owns(ga, Before(u), c, x)
  <2> TAKE u \in Tensors
  <2>1. CASE u = t BY <1>0, <1>3, <1>6, <2>1 DEF Owns
  <2>2. CASE u = p BY <1>6, <2>2 DEF Owns
  <2>3. CASE u # t /\ u # p BY <1>6, <2>3 DEF Owns
  <2> QED BY <2>1, <2>2, <2>3
<1>10. \A c, x \in Nat : ~Owns(ga, t, c, x) BY DEF Owns
<1>11. \A u, v \in Tensors : \A c, x \in Nat : Owns(b, u, c, x) /\ Owns(b, v, c, x) => u = v
  <2> TAKE u, v \in Tensors
  <2> TAKE c, x \in Nat
  <2> HAVE Owns(b, u, c, x) /\ Owns(b, v, c, x)
  <2>1. u # p /\ v # p /\ Owns(ga, Before(u), c, x) /\ Owns(ga, Before(v), c, x) BY <1>9
  <2>2. Before(u) \in Tensors /\ Before(v) \in Tensors OBVIOUS
  <2>3. Before(u) = Before(v)
    <3> HIDE DEF Before
    <3> QED BY <2>1, <2>2 DEF Placed
  <2> QED BY <2>1, <2>3
<1>12. \A u \in Tensors : \A c, x \in Nat : Owns(b, u, c, x) => ~FreeRow(b.chunks, c, x)
  <2> TAKE u \in Tensors
  <2> TAKE c, x \in Nat
  <2> HAVE Owns(b, u, c, x)
  <2>1. Owns(ga, Before(u), c, x) /\ Before(u) \in Tensors BY <1>9
  <2> HIDE DEF Before
  <2> QED BY <1>6, <2>1 DEF Placed
<1>13. \A c \in 1 .. Len(b.chunks) : Whole(b, c)
  <2> TAKE c \in 1 .. Len(b.chunks)
  <2>0. c \in Nat /\ c \in 1 .. Len(ga.chunks) BY <1>6, <1>0 DEF ChunksOK
  <2>1. PICK e \in Nat : /\ e >= MaxChunkSize /\ (c = MaxChunks => e = Endless)
          /\ \A x \in Nat : x < e <=> FreeRow(ga.chunks, c, x) \/ \E u \in Tensors : Owns(ga, u, c, x)
    BY <2>0 DEF Placed, Whole
  <2>2. ASSUME NEW x \in Nat
        PROVE  (\E u \in Tensors : Owns(b, u, c, x)) <=> (\E u \in Tensors : Owns(ga, u, c, x))
    <3>1. ASSUME NEW u \in Tensors, Owns(b, u, c, x) PROVE \E v \in Tensors : Owns(ga, v, c, x)
      <4>1. Owns(ga, Before(u), c, x) /\ Before(u) \in Tensors BY <1>9, <2>0, <3>1
      <4> QED BY <4>1
    <3>2. ASSUME NEW u \in Tensors, Owns(ga, u, c, x) PROVE \E v \in Tensors : Owns(b, v, c, x)
      <4>1. CASE u = p
        <5>1. Owns(b, t, c, x) BY <1>0, <1>9, <2>0, <3>2, <4>1
        <5> QED BY <1>0, <5>1
      <4>2. CASE u # p
        <5>1. u # t BY <1>10, <2>0, <3>2
        <5>2. Owns(b, u, c, x) BY <1>9, <2>0, <3>2, <4>2, <5>1
        <5> QED BY <5>2
      <4> QED BY <4>1, <4>2
    <3> QED BY <3>1, <3>2
  <2>3. \A x \in Nat : x < e <=> FreeRow(b.chunks, c, x) \/ \E u \in Tensors : Owns(b, u, c, x)
    BY <1>6, <2>1, <2>2
  <2> QED BY <2>1, <2>3 DEF Whole
<1>14. \A u \in Tensors : b.hn[u].allocated => u \in Owning /\ b.hn[u].addr.chunk \in 1 .. Len(b.chunks)
  <2> TAKE u \in Tensors
  <2>1. CASE u = t BY <1>3, <1>6, <2>1 DEF Placed
  <2>2. CASE u = p BY <1>6, <2>2
  <2>3. CASE u # t /\ u # p BY <1>6, <2>3 DEF Placed
  <2> QED BY <2>1, <2>2, <2>3
<1>15. ChunksOK(b.chunks) /\ (Len(b.chunks) = MaxChunks =>
        \A x \in Nat : k <= x /\ x < Endless => FreeRow(b.chunks, MaxChunks, x)) BY <1>6 DEF Placed
<1>16. Placed(b, k) BY <1>8, <1>11, <1>12, <1>13, <1>14, <1>15 DEF Placed
<1> QED BY <1>1, <1>3, <1>6, <1>7, <1>16

LEMMA InPlaceOf ==
  ASSUME Planned, NEW ga, NEW k \in Nat, Placed(ga, k), NEW t \in Owning, ~ga.hn[t].allocated,
         NEW p \in Tensors, ga.hn[p].allocated, Size(t) = Size(p), NEW b, b = InPlace(ga, t, p)
  PROVE  /\ Placed(b, k) /\ b.chunks = ga.chunks
         /\ b.hn[t].allocated /\ b.hn[t].addr = ga.hn[p].addr /\ ~b.hn[p].allocated /\ b.hn[p].addr = ga.hn[p].addr
         /\ \A u \in Tensors : u # t /\ u # p => b.hn[u] = ga.hn[u]
         /\ \A u \in Tensors : b.hn[u].n_children = ga.hn[u].n_children /\ b.hn[u].n_views = ga.hn[u].n_views
<1> QED BY InPlacePlaced

\* The rows of t become free.
LEMMA FreeNodePlaced ==
  ASSUME Planned, NEW ga, NEW k \in Nat, Placed(ga, k), NEW t \in Tensors, ga.hn[t].allocated
  PROVE  LET b == FreeNode(ga, t)
         IN  /\ Placed(b, k)
             /\ b.hn[t].allocated = graph[t].output
             /\ \A u \in Tensors : u # t => b.hn[u] = ga.hn[u]
             /\ \A u \in Tensors : /\ b.hn[u].n_children = ga.hn[u].n_children
                                  /\ b.hn[u].n_views = ga.hn[u].n_views
                                  /\ b.hn[u].addr = ga.hn[u].addr
             /\ Len(b.chunks) = Len(ga.chunks)
             /\ \A d \in 1 .. Len(ga.chunks) : b.chunks[d].max_size = ga.chunks[d].max_size
<1>0. ga \in Galloc /\ ChunksOK(ga.chunks) /\ Len(ga.chunks) \in Nat /\ graph[t].output \in BOOLEAN
  BY GraphFacts DEF Placed, ChunksOK, GraphTensor
<1>1. CASE graph[t].output
  <2>1. FreeNode(ga, t) = ga BY <1>1 DEF FreeNode
  <2>2. ga.hn[t].allocated = TRUE /\ graph[t].output = TRUE BY <1>0, <1>1, HnFacts
  <2> QED BY <2>1, <2>2
<1>2. CASE ~graph[t].output
  <2>1. PICK c \in Nat, o \in Nat : c = ga.hn[t].addr.chunk /\ o = ga.hn[t].addr.offset BY <1>0, HnFacts
  <2>2. c \in 1 .. Len(ga.chunks) BY <2>1 DEF Placed
  <2>3. PICK size \in Nat : size = Size(t) /\ size > 0 BY GraphFacts
  <2> DEFINE s == ga.chunks[c].free_blocks
  <2>4. IsFreeList(s) /\ ga.chunks[c] \in ChunkRec /\ ga.chunks \in Seq(ChunkRec) /\ s \in Seq(Block)
    BY <1>0, <2>2, ChunkFacts DEF ChunksOK
  <2> DEFINE d == [offset |-> o, size |-> size]
  <2>5. d \in Block /\ d.offset = o /\ d.size = size BY DEF Block
  <2> HIDE DEF d
  <2>6. \A x \in Nat : In(d, x) <=> (o <= x /\ x < o + size) BY <2>5 DEF In
  <2>7. \A x \in Nat : In(d, x) <=> Owns(ga, t, c, x) BY <2>1, <2>3, <2>6 DEF Owns
  <2>8. \A x \in Nat : In(d, x) => ~Has(s, x) BY <2>2, <2>7 DEF Placed, FreeRow
  <2>9. PICK l : l = Freed(s, d) OBVIOUS
  <2> HIDE DEF s
  <2>10. IsFreeList(l) /\ l \in Seq(Block) /\ \A x \in Nat : Has(l, x) <=> Has(s, x) \/ In(d, x)
    <3>1. d.size > 0 BY <2>3, <2>5
    <3> QED BY <2>4, <2>5, <2>8, <2>9, <3>1, FreedExact DEF IsFreeList
  <2>11. PICK grown : grown = [ga.chunks EXCEPT ![c].free_blocks = l] OBVIOUS
  <2>12. FreeBytes(ga.chunks, ga.hn[t].addr, Size(t)) = grown BY <2>1, <2>3, <2>9, <2>11 DEF FreeBytes, s, d
  <2>13. PICK b : b = FreeNode(ga, t) OBVIOUS
  <2>14. b = [chunks |-> grown, hn |-> [ga.hn EXCEPT ![t].allocated = FALSE]] BY <1>2, <2>12, <2>13 DEF FreeNode
  <2>15. /\ grown \in Seq(ChunkRec) /\ Len(grown) = Len(ga.chunks)
         /\ grown[c].free_blocks = l /\ grown[c].max_size = ga.chunks[c].max_size
         /\ \A e \in 1 .. Len(ga.chunks) : e # c => grown[e] = ga.chunks[e]
    <3>1. PICK r : r = [free_blocks |-> l, max_size |-> ga.chunks[c].max_size] OBVIOUS
    <3>2. r \in ChunkRec /\ r.free_blocks = l /\ r.max_size = ga.chunks[c].max_size
      BY <2>4, <2>10, <3>1 DEF ChunkRec
    <3>3. [ga.chunks[c] EXCEPT !.free_blocks = l] = r
      <4>1. PICK p : p = ga.chunks[c] OBVIOUS
      <4>2. p \in ChunkRec BY <2>4, <4>1
      <4>3. DOMAIN p = {"free_blocks", "max_size"} BY <4>2 DEF ChunkRec
      <4>4. [p EXCEPT !.free_blocks = l] = [x \in DOMAIN p |-> IF x = "free_blocks" THEN l ELSE p[x]] BY <4>3
      <4>5. r = [x \in {"free_blocks", "max_size"} |-> IF x = "free_blocks" THEN l ELSE p[x]] BY <3>1, <4>1
      <4> QED BY <4>1, <4>3, <4>4, <4>5
    <3>4. grown = [ga.chunks EXCEPT ![c] = r] BY <2>11, <3>3
    <3>5. c \in DOMAIN ga.chunks /\ DOMAIN ga.chunks = 1 .. Len(ga.chunks) BY <2>2, <2>4
    <3>6. grown \in Seq(ChunkRec) /\ Len(grown) = Len(ga.chunks) BY <2>2, <2>4, <3>2, <3>4
    <3>7. grown[c] = r /\ \A e \in 1 .. Len(ga.chunks) : e # c => grown[e] = ga.chunks[e] BY <3>4, <3>5
    <3> QED BY <3>2, <3>6, <3>7
  <2>16. ChunksOK(grown)
    <3>1. \A e \in 1 .. Len(grown) : IsFreeList(grown[e].free_blocks) BY <1>0, <2>10, <2>15 DEF ChunksOK
    <3> QED BY <1>0, <2>15, <3>1 DEF ChunksOK
  <2>17. /\ b.chunks = grown /\ b.hn \in [Tensors -> HnRec] /\ ~b.hn[t].allocated
         /\ \A u \in Tensors : u # t => b.hn[u] = ga.hn[u]
         /\ \A u \in Tensors : /\ b.hn[u].n_children = ga.hn[u].n_children
                               /\ b.hn[u].n_views = ga.hn[u].n_views
                               /\ b.hn[u].addr = ga.hn[u].addr
    <3>1. ga.hn \in [Tensors -> HnRec] /\ ga.hn[t] \in HnRec BY <1>0, HnFacts
    <3>2. [ga.hn[t] EXCEPT !.allocated = FALSE] \in HnRec BY <3>1 DEF HnRec
    <3> QED BY <2>14, <3>1, <3>2 DEF HnRec
  <2>18. b \in Galloc
    <3>1. b = [chunks |-> grown, hn |-> b.hn] BY <2>14
    <3> QED BY <2>15, <2>17, <3>1 DEF Galloc
  <2>19. \A u \in Tensors : \A e, x \in Nat : Owns(b, u, e, x) <=> u # t /\ Owns(ga, u, e, x)
    <3> TAKE u \in Tensors
    <3>1. CASE u = t BY <2>17, <3>1 DEF Owns
    <3>2. CASE u # t BY <2>17, <3>2 DEF Owns
    <3> QED BY <3>1, <3>2
  <2>20. \A e, x \in Nat : Owns(ga, t, e, x) <=> e = c /\ In(d, x)
    <3> TAKE e, x \in Nat
    <3>1. CASE e = c BY <2>7, <3>1
    <3>2. CASE e # c BY <2>1, <3>2 DEF Owns
    <3> QED BY <3>1, <3>2
  <2>21. \A e, x \in Nat : FreeRow(grown, e, x) <=> FreeRow(ga.chunks, e, x) \/ Owns(ga, t, e, x)
    <3> TAKE e, x \in Nat
    <3>1. CASE e = c BY <2>2, <2>10, <2>15, <2>20, <3>1 DEF FreeRow, s
    <3>2. CASE e # c BY <2>15, <2>20, <3>2 DEF FreeRow
    <3> QED BY <3>1, <3>2
  <2>22. \A u, v \in Tensors : \A e, x \in Nat : Owns(b, u, e, x) /\ Owns(b, v, e, x) => u = v
    BY <2>19 DEF Placed
  <2>23. \A u \in Tensors : \A e, x \in Nat : Owns(b, u, e, x) => ~FreeRow(grown, e, x)
    BY <2>19, <2>21 DEF Placed
  <2>24. \A e \in 1 .. Len(grown) : Whole(b, e)
    <3> TAKE e \in 1 .. Len(grown)
    <3>0. e \in Nat /\ e \in 1 .. Len(ga.chunks) BY <1>0, <2>15
    <3>1. PICK f \in Nat : /\ f >= MaxChunkSize /\ (e = MaxChunks => f = Endless)
            /\ \A x \in Nat : x < f <=> FreeRow(ga.chunks, e, x) \/ \E u \in Tensors : Owns(ga, u, e, x)
      BY <3>0 DEF Placed, Whole
    <3>2. ASSUME NEW x \in Nat
          PROVE  x < f <=> FreeRow(grown, e, x) \/ \E u \in Tensors : Owns(b, u, e, x)
      <4>1. (\E u \in Tensors : Owns(ga, u, e, x)) <=> Owns(ga, t, e, x) \/ (\E u \in Tensors : Owns(b, u, e, x))
        BY <2>19, <3>0
      <4> QED BY <2>21, <3>0, <3>1, <4>1
    <3> QED BY <2>17, <3>1, <3>2 DEF Whole
  <2>25. Len(grown) = MaxChunks => \A x \in Nat : k <= x /\ x < Endless => FreeRow(grown, MaxChunks, x)
    <3>1. MaxChunks \in Nat BY ChunkAssumption
    <3> QED BY <2>15, <2>21, <3>1 DEF Placed
  <2>26. \A u \in Tensors : b.hn[u].allocated => u \in Owning /\ b.hn[u].addr.chunk \in 1 .. Len(grown)
    <3> TAKE u \in Tensors
    <3>1. CASE u = t BY <2>17, <3>1
    <3>2. CASE u # t BY <2>15, <2>17, <3>2 DEF Placed
    <3> QED BY <3>1, <3>2
  <2>27. Placed(b, k) BY <2>16, <2>17, <2>18, <2>22, <2>23, <2>24, <2>25, <2>26 DEF Placed
  <2>28. \A e \in 1 .. Len(ga.chunks) : grown[e].max_size = ga.chunks[e].max_size BY <2>15
  <2>29. b.hn[t].allocated = FALSE /\ graph[t].output = FALSE BY <1>0, <1>2, <2>17, <2>18, HnFacts
  <2> QED BY <2>13, <2>15, <2>17, <2>27, <2>28, <2>29
<1> QED BY <1>1, <1>2

----
\* Folds over the sources of a tensor.

\* What the planner does with a tensor as it goes over a sequence of them:
\* a parent has been read, or a tensor is to have memory.
Visit(kind, ga, t) == IF kind = "parent" THEN UpdateParent(ga, t) ELSE AllocateNode(ga, t)

\* H folds over the items of s of each set of numbers, the greatest one last.
FoldsUpTo(kind, base, s, H, k) ==
  H = [u \in SUBSET (1 .. k) |-> IF u = {} THEN base ELSE Visit(kind, H[u \ {Max(u)}], s[Max(u)])]

\* The greatest of some numbers is one of them.
LEMMA MaxOfSome ==
  ASSUME NEW k \in Nat, NEW u \in SUBSET (1 .. k), u # {}
  PROVE  Max(u) \in u /\ \A x \in u : x <= Max(u)
<1>1. IsFiniteSet(1 .. k) /\ u \subseteq Int BY FS_Interval
<1>2. IsFiniteSet(u) BY <1>1, FS_Subset
<1> QED BY <1>1, <1>2, GreatestOf

\* There is such a function: the library's fold is defined by choosing it.
LEMMA FoldExists ==
  ASSUME NEW kind, NEW base, NEW s, NEW n \in Nat
  PROVE  \E H : FoldsUpTo(kind, base, s, H, n)
<1> USE DEF FoldsUpTo
<1> DEFINE Bad == {k \in Nat : k <= n /\ ~\E H : FoldsUpTo(kind, base, s, H, k)}
<1>1. Bad = {}
  <2>1. SUFFICES ASSUME Bad # {} PROVE FALSE OBVIOUS
  <2>2. PICK k \in Bad : \A j \in Bad : k <= j
    <3>1. Bad \subseteq Nat OBVIOUS
    <3> HIDE DEF Bad
    <3> QED BY <2>1, <3>1, LeastNumber
  <2>3. k \in Nat /\ k <= n /\ ~\E H : FoldsUpTo(kind, base, s, H, k) BY <2>2
  <2>4. CASE k = 0
    <3> DEFINE H == [u \in SUBSET (1 .. 0) |-> base]
    <3>1. SUBSET (1 .. 0) = {{}} OBVIOUS
    <3>2. FoldsUpTo(kind, base, s, H, 0) BY <3>1
    <3> QED BY <2>3, <2>4, <3>2
  <2>5. CASE k > 0
    <3>1. k - 1 \in Nat /\ k - 1 <= n /\ ~(k <= k - 1) BY <2>3, <2>5
    <3>a. k - 1 \notin Bad
      <4> HIDE DEF Bad
      <4> QED BY <2>2, <3>1
    <3>2. PICK H : FoldsUpTo(kind, base, s, H, k - 1)
      <4> HIDE DEF FoldsUpTo
      <4> QED BY <3>1, <3>a
    <3> DEFINE G == [u \in SUBSET (1 .. k) |-> IF k \in u THEN Visit(kind, H[u \ {k}], s[k]) ELSE H[u]]
    <3>3. ASSUME NEW u \in SUBSET (1 .. k)
          PROVE  G[u] = IF u = {} THEN base ELSE Visit(kind, G[u \ {Max(u)}], s[Max(u)])
      <4>1. CASE k \in u
        <5>1. Max(u) = k
          <6>1. Max(u) \in u /\ \A x \in u : x <= Max(u) BY <2>3, <4>1, MaxOfSome
          <6>2. PICK m \in 1 .. k : m = Max(u) BY <6>1
          <6>3. k <= m /\ m <= k BY <2>3, <4>1, <6>1, <6>2
          <6> QED BY <2>3, <6>2, <6>3
        <5>2. u \ {k} \in SUBSET (1 .. k) /\ k \notin u \ {k} OBVIOUS
        <5>3. G[u \ {k}] = H[u \ {k}] BY <5>2
        <5> QED BY <4>1, <5>1, <5>3
      <4>2. CASE k \notin u
        <5>1. u \in SUBSET (1 .. (k - 1)) BY <2>3, <4>2
        <5>2. G[u] = H[u] BY <4>2
        <5>3. H[u] = IF u = {} THEN base ELSE Visit(kind, H[u \ {Max(u)}], s[Max(u)]) BY <3>2, <5>1
        <5>4. u \ {Max(u)} \in SUBSET (1 .. k) /\ k \notin u \ {Max(u)} BY <4>2
        <5>5. G[u \ {Max(u)}] = H[u \ {Max(u)}] BY <5>4
        <5> QED BY <5>2, <5>3, <5>5
      <4> QED BY <4>1, <4>2
    <3>4. FoldsUpTo(kind, base, s, G, k)
      <4>1. G = [u \in SUBSET (1 .. k) |-> G[u]] OBVIOUS
      <4>2. PICK g : g = G OBVIOUS
      <4>3. \A u \in SUBSET (1 .. k) : g[u] = IF u = {} THEN base ELSE Visit(kind, g[u \ {Max(u)}], s[Max(u)])
        BY <3>3, <4>2
      <4>4. g = [u \in SUBSET (1 .. k) |-> g[u]] BY <4>1, <4>2
      <4> HIDE DEF G
      <4>5. FoldsUpTo(kind, base, s, g, k) BY <4>3, <4>4
      <4> QED BY <4>2, <4>5
    <3> QED BY <2>3, <3>4
  <2> QED BY <2>3, <2>4, <2>5
<1>2. n \notin Bad BY <1>1
<1>3. n <= n OBVIOUS
<1> HIDE DEF FoldsUpTo
<1> QED BY <1>2, <1>3

\* A fold is reached by steps, one for each item.
LEMMA FoldSteps ==
  ASSUME NEW kind, NEW base, NEW s, NEW n \in Nat, NEW H, FoldsUpTo(kind, base, s, H, n)
  PROVE  \E h : /\ h[0] = base
                /\ \A i \in 1 .. n : h[i] = Visit(kind, h[i - 1], s[i])
                /\ H[1 .. n] = h[n]
<1>1. H = [u \in SUBSET (1 .. n) |-> IF u = {} THEN base ELSE Visit(kind, H[u \ {Max(u)}], s[Max(u)])]
  BY DEF FoldsUpTo
<1> DEFINE h == [i \in 0 .. n |-> H[1 .. i]]
<1>2. h[0] = base
  <2>1. 1 .. 0 = {} /\ {} \in SUBSET (1 .. n) OBVIOUS
  <2>2. H[{}] = base BY <1>1, <2>1
  <2> QED BY <2>1, <2>2
<1>3. ASSUME NEW i \in 1 .. n
      PROVE  h[i] = Visit(kind, h[i - 1], s[i])
  <2>1. 1 .. i \in SUBSET (1 .. n) /\ 1 .. i # {} /\ i \in Nat OBVIOUS
  <2>2. Max(1 .. i) = i
    <3>1. Max(1 .. i) \in 1 .. i /\ \A x \in 1 .. i : x <= Max(1 .. i) BY <2>1, MaxOfSome
    <3>2. i \in 1 .. i OBVIOUS
    <3> QED BY <2>1, <3>1, <3>2
  <2>3. (1 .. i) \ {i} = 1 .. (i - 1) BY <2>1
  <2>4. H[1 .. i] = Visit(kind, H[1 .. (i - 1)], s[i]) BY <1>1, <2>1, <2>2, <2>3
  <2> QED BY <2>4
<1>4. H[1 .. n] = h[n] OBVIOUS
<1> HIDE DEF h
<1> QED BY <1>2, <1>3, <1>4

\* A fold of AllocateNode over a sequence, seen as the steps it takes.
LEMMA FoldAllocateNode ==
  ASSUME NEW base, NEW s, Len(s) \in Nat, DOMAIN s = 1 .. Len(s)
  PROVE  \E h : /\ h[0] = base
                /\ \A i \in 1 .. Len(s) : h[i] = AllocateNode(h[i - 1], s[i])
                /\ FoldLeft(AllocateNode, base, s) = h[Len(s)]
<1> DEFINE Folds(H) ==
      H = [u \in SUBSET (DOMAIN s) |-> IF u = {} THEN base ELSE AllocateNode(H[u \ {Max(u)}], s[Max(u)])]
<1>1. \A H : Folds(H) <=> FoldsUpTo("tensor", base, s, H, Len(s)) BY DEF FoldsUpTo, Visit
<1> DEFINE It == CHOOSE H : Folds(H)
<1>2. FoldLeft(AllocateNode, base, s) = It[DOMAIN s] BY DEF FoldLeft, MapThenFoldSet
<1> HIDE DEF Folds
<1>3. FoldsUpTo("tensor", base, s, It, Len(s)) BY <1>1, FoldExists
<1> HIDE DEF It
<1>4. PICK h : /\ h[0] = base
               /\ \A i \in 1 .. Len(s) : h[i] = Visit("tensor", h[i - 1], s[i])
               /\ It[1 .. Len(s)] = h[Len(s)] BY <1>3, FoldSteps
<1>5. \A i \in 1 .. Len(s) : h[i] = AllocateNode(h[i - 1], s[i]) BY <1>4 DEF Visit
<1> QED BY <1>2, <1>4, <1>5

\* A fold of UpdateParent over a sequence, seen as the steps it takes.
LEMMA FoldUpdateParent ==
  ASSUME NEW base, NEW s, Len(s) \in Nat, DOMAIN s = 1 .. Len(s)
  PROVE  \E h : /\ h[0] = base
                /\ \A i \in 1 .. Len(s) : h[i] = UpdateParent(h[i - 1], s[i])
                /\ FoldLeft(UpdateParent, base, s) = h[Len(s)]
<1> DEFINE Folds(H) ==
      H = [u \in SUBSET (DOMAIN s) |-> IF u = {} THEN base ELSE UpdateParent(H[u \ {Max(u)}], s[Max(u)])]
<1>1. \A H : Folds(H) <=> FoldsUpTo("parent", base, s, H, Len(s)) BY DEF FoldsUpTo, Visit
<1> DEFINE It == CHOOSE H : Folds(H)
<1>2. FoldLeft(UpdateParent, base, s) = It[DOMAIN s] BY DEF FoldLeft, MapThenFoldSet
<1> HIDE DEF Folds
<1>3. FoldsUpTo("parent", base, s, It, Len(s)) BY <1>1, FoldExists
<1> HIDE DEF It
<1>4. PICK h : /\ h[0] = base
               /\ \A i \in 1 .. Len(s) : h[i] = Visit("parent", h[i - 1], s[i])
               /\ It[1 .. Len(s)] = h[Len(s)] BY <1>3, FoldSteps
<1>5. \A i \in 1 .. Len(s) : h[i] = UpdateParent(h[i - 1], s[i]) BY <1>4 DEF Visit
<1> QED BY <1>2, <1>4, <1>5

----
\* The graph: what reads what, and when.

\* The reads still to come when j sources of node n have been let go.
Left(n, j) == {r \in Slots : r[1] > n \/ (r[1] = n /\ r[2] > j)}
Reads(L, t) == {r \in L : Source(r) = t}

\* The views of t that keep it: those that nobody reads, or not yet.
Pending(L, t) == {v \in Nodes : graph[v].view_src = t /\ (Reads(Slots, v) = {} \/ Reads(L, v) # {})}

\* The leafs are the first tensors, the nodes the others.
LEMMA LeafsFirst ==
  ASSUME Planned
  PROVE  /\ FirstNode \in Nat /\ FirstNode >= 1 /\ FirstNode <= Len(graph) + 1 /\ Len(graph) \in Nat
         /\ \A t \in Tensors : IsLeaf(t) <=> t < FirstNode
         /\ Nodes = {t \in Tensors : ~IsLeaf(t)}
<1>1. Len(graph) \in Nat /\ Tensors = 1 .. Len(graph) BY DEF Planned, Tensors
<1> DEFINE S == {t \in Tensors : IsLeaf(t)}
<1>2. \A t \in S : \A u \in 1 .. t - 1 : u \in S
  <2> TAKE t \in S
  <2> TAKE u \in 1 .. t - 1
  <2>1. t \in DOMAIN graph /\ graph[t].op \in {"input", "weight"} BY DEF Tensors, IsLeaf
  <2>2. graph[u].op \in {"input", "weight"} BY <2>1 DEF Planned, WellFormed
  <2>3. u \in Tensors BY <1>1
  <2> QED BY <2>2, <2>3 DEF IsLeaf
<1>3. IsFiniteSet(S) /\ S \subseteq Tensors
  <2>1. IsFiniteSet(1 .. Len(graph)) BY <1>1, FS_Interval
  <2> QED BY <1>1, <2>1, FS_Subset
<1>4. \E m \in 0 .. Len(graph) : S = 1 .. m
  <2>1. CASE S = {}
    <3>1. S = 1 .. 0 /\ 0 \in 0 .. Len(graph) BY <1>1, <2>1
    <3> QED BY <3>1
  <2>2. CASE S # {}
    <3> HIDE DEF S
    <3>1. Max(S) \in S /\ \A k \in S : k <= Max(S)
      <4>1. S \subseteq Int BY <1>1, <1>3
      <4> QED BY <1>3, <2>2, <4>1, GreatestOf
    <3>2. PICK m \in 1 .. Len(graph) : m = Max(S) BY <1>1, <1>3, <3>1
    <3>3. m \in S /\ \A k \in S : k <= m BY <3>1, <3>2
    <3>4. \A x : x \in S => x \in 1 .. m BY <1>1, <1>3, <3>3
    <3>5. \A x \in 1 .. m : x \in S
      <4> TAKE x \in 1 .. m
      <4>1. x = m \/ x \in 1 .. m - 1 BY <3>2
      <4> QED BY <1>2, <3>3, <4>1
    <3>6. S = 1 .. m BY <3>4, <3>5
    <3>7. m \in 0 .. Len(graph) BY <1>1, <3>2
    <3> QED BY <3>6, <3>7
  <2> QED BY <2>1, <2>2
<1>5. PICK m \in 0 .. Len(graph) : S = 1 .. m BY <1>4
<1>6. m \in Nat /\ m <= Len(graph) /\ FirstNode = m + 1
  <2>1. m \in Nat /\ Cardinality(1 .. m) = m
    <3>1. m \in Nat BY <1>1
    <3>2. Cardinality(1 .. m) = IF 1 > m THEN 0 ELSE m - 1 + 1 BY <3>1, FS_Interval
    <3> QED BY <3>1, <3>2
  <2>2. FirstNode = Cardinality(S) + 1 BY DEF FirstNode
  <2> HIDE DEF S
  <2> QED BY <1>1, <1>5, <2>1, <2>2
<1>7. \A t \in Tensors : IsLeaf(t) <=> t < FirstNode
  <2> TAKE t \in Tensors
  <2>1. t \in Nat /\ t >= 1 BY <1>1
  <2>2. IsLeaf(t) <=> t \in 1 .. m BY <1>5
  <2> QED BY <1>6, <2>1, <2>2
<1>8. Nodes = {t \in Tensors : ~IsLeaf(t)}
  <2>1. ASSUME NEW t PROVE t \in Nodes <=> t \in Tensors /\ ~IsLeaf(t)
    <3>1. CASE t \in Tensors
      <4>1. t \in Nat /\ t <= Len(graph) BY <1>1, <3>1
      <4> QED BY <1>1, <1>6, <1>7, <3>1, <4>1 DEF Nodes
    <3>2. CASE t \notin Tensors BY <1>1, <1>6, <3>2 DEF Nodes
    <3> QED BY <3>1, <3>2
  <2> QED BY <2>1
<1> QED BY <1>1, <1>6, <1>7, <1>8

\* A tensor's sources come before it; a view reads its root or another view.
LEMMA TensorFacts ==
  ASSUME Planned, NEW t \in Tensors
  PROVE  /\ t \in Nat /\ t >= 1 /\ t <= Len(graph) /\ Len(graph) \in Nat /\ Tensors = 1 .. Len(graph)
         /\ graph[t].src \in Seq(Nat) /\ Len(graph[t].src) \in Nat /\ Len(graph[t].src) <= GGML_MAX_SRC
         /\ DOMAIN graph[t].src = 1 .. Len(graph[t].src)
         /\ \A j \in 1 .. Len(graph[t].src) : /\ graph[t].src[j] \in Tensors /\ ~Stored(graph[t].src[j])
                                              /\ graph[t].src[j] < t \/ (graph[t].src[j] = t /\ graph[t].op = "cast")
         /\ graph[t].output \in BOOLEAN
         /\ IsView(t) => /\ graph[t].view_src \in Owning \/ External(graph[t].view_src)
                         /\ graph[t].view_src \in Tensors /\ graph[t].view_src < t /\ ~IsView(graph[t].view_src)
                         /\ graph[t].op \in {"view", "store"}
                         /\ \E p \in ToSet(graph[t].src) : p = graph[t].view_src \/ graph[p].view_src = graph[t].view_src
         /\ Root(t) \in Tensors /\ ~IsView(Root(t)) /\ Root(t) <= t
         /\ graph[t].op \in {"view", "store"} => IsView(t)
         /\ Stored(t) => External(Root(t))
<1>1. Tensors = 1 .. Len(graph) /\ Len(graph) \in Nat /\ graph[t] \in GraphTensor BY GraphFacts
<1>2. t \in Nat /\ t >= 1 /\ t <= Len(graph) /\ t \in DOMAIN graph BY <1>1 DEF Tensors
<1>3. graph[t].src \in Seq(Nat) /\ graph[t].output \in BOOLEAN /\ graph[t].view_src \in Nat
  BY <1>1 DEF GraphTensor
<1>4. /\ Len(graph[t].src) <= GGML_MAX_SRC
      /\ \A p \in ToSet(graph[t].src) : (p \in 1 .. t - 1 /\ graph[p].op # "store") \/ (p = t /\ graph[t].op = "cast")
      /\ graph[t].op \in {"view", "store"} <=> graph[t].view_src # 0
      /\ graph[t].view_src # 0 =>
           /\ graph[t].view_src \in 1 .. t - 1 /\ graph[graph[t].view_src].view_src = 0
           /\ \E p \in ToSet(graph[t].src) : p = graph[t].view_src \/ graph[p].view_src = graph[t].view_src
  BY <1>2 DEF Planned, WellFormed
<1>5. Len(graph[t].src) \in Nat /\ DOMAIN graph[t].src = 1 .. Len(graph[t].src) BY <1>3
<1>6. ASSUME NEW j \in 1 .. Len(graph[t].src)
      PROVE  /\ graph[t].src[j] \in Tensors /\ ~Stored(graph[t].src[j])
             /\ graph[t].src[j] < t \/ (graph[t].src[j] = t /\ graph[t].op = "cast")
  <2>1. PICK p : p = graph[t].src[j] OBVIOUS
  <2>2. p \in ToSet(graph[t].src) BY <1>5, <2>1 DEF ToSet
  <2>3. (p \in 1 .. t - 1 /\ graph[p].op # "store") \/ (p = t /\ graph[t].op = "cast") BY <1>4, <2>2
  <2> QED BY <1>1, <1>2, <2>1, <2>3 DEF Stored
<1>7. IsView(t) => /\ graph[t].view_src \in Tensors /\ graph[t].view_src < t /\ ~IsView(graph[t].view_src)
                   /\ graph[t].op \in {"view", "store"}
                   /\ \E p \in ToSet(graph[t].src) : p = graph[t].view_src \/ graph[p].view_src = graph[t].view_src
  <2>1. SUFFICES ASSUME IsView(t) PROVE /\ graph[t].view_src \in Tensors /\ graph[t].view_src < t /\ ~IsView(graph[t].view_src)
                   /\ graph[t].op \in {"view", "store"}
                   /\ \E p \in ToSet(graph[t].src) : p = graph[t].view_src \/ graph[p].view_src = graph[t].view_src
    OBVIOUS
  <2>2. graph[t].op \in {"view", "store"} /\ graph[t].view_src \in 1 .. t - 1 /\ graph[graph[t].view_src].view_src = 0
    BY <1>4, <2>1 DEF IsView
  <2> QED BY <1>1, <1>2, <1>4, <2>2 DEF IsView
<1>8. IsView(t) => graph[t].view_src \in Owning \/ External(graph[t].view_src) BY <1>7 DEF Owning
<1>9. Root(t) \in Tensors /\ ~IsView(Root(t)) /\ Root(t) <= t
  <2>1. CASE IsView(t)
    <3>1. Root(t) = graph[t].view_src BY <2>1 DEF Root
    <3>2. graph[t].view_src \in Nat BY <1>3
    <3> QED BY <1>2, <1>7, <2>1, <3>1, <3>2
  <2>2. CASE ~IsView(t) BY <1>2, <2>2 DEF Root
  <2> QED BY <2>1, <2>2
<1>10. ASSUME Stored(t)
       PROVE  External(Root(t))
  <2>1. graph[t].op = "store" BY <1>10 DEF Stored
  <2>2. graph[t].view_src # 0 BY <1>4, <2>1
  <2>3. graph[graph[t].view_src].op = "weight" BY <1>2, <2>1 DEF Planned, WellFormed
  <2> QED BY <2>2, <2>3 DEF IsView, Root, External
<1>11. graph[t].op \in {"view", "store"} => IsView(t) BY <1>4 DEF IsView
<1> QED BY <1>1, <1>2, <1>3, <1>4, <1>5, <1>6, <1>7, <1>8, <1>9, <1>10, <1>11

\* A read is a node's of an earlier tensor.
LEMMA SlotFacts ==
  ASSUME Planned
  PROVE  /\ IsFiniteSet(Slots) /\ IsFiniteSet(Nodes) /\ Nodes \subseteq Tensors
         /\ \A r \in Slots : /\ r[1] \in Nodes /\ r[1] \in Tensors /\ r[1] \in Nat
                             /\ r[2] \in 1 .. Len(graph[r[1]].src) /\ r[2] \in Nat /\ r = <<r[1], r[2]>>
                             /\ Source(r) \in Tensors /\ ~Stored(Source(r)) /\ Source(r) <= r[1]
                             /\ Source(r) = r[1] => graph[r[1]].op = "cast"
         /\ \A n \in Nodes : \A j \in 1 .. Len(graph[n].src) : <<n, j>> \in Slots /\ Source(<<n, j>>) = graph[n].src[j]
<1>1. Nodes \subseteq Tensors /\ FirstNode \in Nat /\ Len(graph) \in Nat BY LeafsFirst
<1>2. IsFiniteSet(Nodes) BY <1>1, FS_Interval DEF Nodes
<1>3. IsFiniteSet(Slots)
  <2>1. IsFiniteSet(1 .. GGML_MAX_SRC)
    <3>1. 1 \in Int /\ 10 \in Int OBVIOUS
    <3>2. IsFiniteSet(1 .. 10) BY <3>1, FS_Interval
    <3> QED BY <3>2 DEF GGML_MAX_SRC
  <2>2. IsFiniteSet(Nodes \X (1 .. GGML_MAX_SRC)) BY <1>2, <2>1, FS_Product
  <2>3. Slots \subseteq Nodes \X (1 .. GGML_MAX_SRC) BY DEF Slots
  <2> QED BY <2>2, <2>3, FS_Subset
<1>4. ASSUME NEW r \in Slots
      PROVE  /\ r[1] \in Nodes /\ r[1] \in Tensors /\ r[1] \in Nat
             /\ r[2] \in 1 .. Len(graph[r[1]].src) /\ r[2] \in Nat /\ r = <<r[1], r[2]>>
             /\ Source(r) \in Tensors /\ ~Stored(Source(r)) /\ Source(r) <= r[1]
             /\ Source(r) = r[1] => graph[r[1]].op = "cast"
  <2>1. r \in Nodes \X (1 .. GGML_MAX_SRC) /\ r[2] \in DOMAIN graph[r[1]].src BY DEF Slots
  <2>2. r[1] \in Nodes /\ r[1] \in Tensors /\ r[2] \in 1 .. GGML_MAX_SRC /\ r = <<r[1], r[2]>> BY <1>1, <2>1
  <2>3. r[1] \in Nat /\ r[2] \in Nat BY <2>2, TensorFacts
  <2>4. r[2] \in 1 .. Len(graph[r[1]].src) BY <2>1, <2>2, TensorFacts
  <2>5. PICK p : p = graph[r[1]].src[r[2]] OBVIOUS
  <2>6. /\ p \in Tensors /\ ~Stored(p)
        /\ p < r[1] \/ (p = r[1] /\ graph[r[1]].op = "cast")
    BY <2>2, <2>4, <2>5, TensorFacts
  <2>7. p \in Nat /\ Source(r) = p BY <2>5, <2>6, TensorFacts DEF Source
  <2>8. p <= r[1] /\ (p = r[1] => graph[r[1]].op = "cast") BY <2>3, <2>6, <2>7
  <2> QED BY <2>2, <2>3, <2>4, <2>6, <2>7, <2>8
<1>5. ASSUME NEW n \in Nodes, NEW j \in 1 .. Len(graph[n].src)
      PROVE  <<n, j>> \in Slots /\ Source(<<n, j>>) = graph[n].src[j]
  <2>1. /\ n \in Tensors /\ Len(graph[n].src) \in Nat /\ Len(graph[n].src) <= 10
        /\ DOMAIN graph[n].src = 1 .. Len(graph[n].src) BY <1>1, TensorFacts DEF GGML_MAX_SRC
  <2>2. j \in 1 .. 10 /\ j \in DOMAIN graph[n].src BY <2>1
  <2> QED BY <2>2 DEF Slots, Source, GGML_MAX_SRC
<1> QED BY <1>1, <1>2, <1>3, <1>4, <1>5

----
\* The plan: a source is let go.

\* The reads and the views that are counted are those still to come.
Counts(ga, L) ==
  \A t \in Tensors : /\ ga.hn[t].n_children = Cardinality(Reads(L, t))
                     /\ ga.hn[t].n_views = Cardinality(Pending(L, t))

\* A tensor up to n has no memory of its own only once nothing reads it
\* any more but, where n has taken its place, n itself.
Kept(ga, n, L) ==
  \A t \in Owning :
    /\ t > n => ~ga.hn[t].allocated
    /\ t <= n /\ ~ga.hn[t].allocated =>
         ~graph[t].output /\ Pending(L, t) = {} /\ \A r \in Reads(L, t) : r[1] <= n

SamePlan(ga, b) ==
  /\ \A t \in Tensors : b.hn[t].addr = ga.hn[t].addr
  /\ Len(b.chunks) = Len(ga.chunks)
  /\ \A c \in 1 .. Len(ga.chunks) : b.chunks[c].max_size = ga.chunks[c].max_size

\* A count is nought when there is nothing to count.
LEMMA CountZero ==
  ASSUME Planned, NEW L, L \subseteq Slots, NEW t
  PROVE  /\ IsFiniteSet(Reads(L, t)) /\ IsFiniteSet(Pending(L, t))
         /\ Cardinality(Reads(L, t)) \in Nat /\ Cardinality(Pending(L, t)) \in Nat
         /\ Cardinality(Reads(L, t)) = 0 <=> Reads(L, t) = {}
         /\ Cardinality(Pending(L, t)) = 0 <=> Pending(L, t) = {}
<1>1. IsFiniteSet(Slots) /\ IsFiniteSet(Nodes) BY SlotFacts
<1>2. Reads(L, t) \subseteq Slots /\ Pending(L, t) \subseteq Nodes BY DEF Reads, Pending
<1>3. IsFiniteSet(Reads(L, t)) /\ IsFiniteSet(Pending(L, t)) BY <1>1, <1>2, FS_Subset
<1> QED BY <1>3, FS_CardinalityType, FS_EmptySet

\* Freeing what is not needed any more leaves the plan as it should be.
LEMMA FreeIfOwnedPlan ==
  ASSUME Planned, NEW ga, NEW k \in Nat, Placed(ga, k), NEW q \in Tensors, NEW n \in Nat,
         NEW L, L \subseteq Slots, Counts(ga, L), Kept(ga, n, L)
  PROVE  LET b == FreeIfOwned(ga, q)
         IN  Placed(b, k) /\ Counts(b, L) /\ Kept(b, n, L) /\ SamePlan(ga, b)
<1>1. CASE ~(Unused(ga, q) /\ ga.hn[q].allocated)
  <2>1. FreeIfOwned(ga, q) = ga BY <1>1 DEF FreeIfOwned
  <2> QED BY <2>1 DEF SamePlan
<1>2. CASE Unused(ga, q) /\ ga.hn[q].allocated
  <2>1. PICK b : b = FreeNode(ga, q) OBVIOUS
  <2>2. FreeIfOwned(ga, q) = b BY <1>2, <2>1 DEF FreeIfOwned
  <2>3. /\ Placed(b, k)
        /\ b.hn[q].allocated = graph[q].output
        /\ \A u \in Tensors : u # q => b.hn[u] = ga.hn[u]
        /\ \A u \in Tensors : /\ b.hn[u].n_children = ga.hn[u].n_children
                              /\ b.hn[u].n_views = ga.hn[u].n_views
                              /\ b.hn[u].addr = ga.hn[u].addr
        /\ Len(b.chunks) = Len(ga.chunks)
        /\ \A d \in 1 .. Len(ga.chunks) : b.chunks[d].max_size = ga.chunks[d].max_size
    BY <1>2, <2>1, FreeNodePlaced
  <2>4. Counts(b, L) BY <2>3 DEF Counts
  <2>5. SamePlan(ga, b) BY <2>3 DEF SamePlan
  <2>6. Reads(L, q) = {} /\ Pending(L, q) = {} BY <1>2, CountZero DEF Unused, Counts
  <2>7. Kept(b, n, L)
    <3> SUFFICES ASSUME NEW t \in Owning
                 PROVE  /\ t > n => ~b.hn[t].allocated
                        /\ t <= n /\ ~b.hn[t].allocated =>
                             ~graph[t].output /\ Pending(L, t) = {} /\ \A r \in Reads(L, t) : r[1] <= n
      BY DEF Kept
    <3>1. t \in Tensors BY DEF Owning
    <3>2. CASE t # q BY <2>3, <3>1, <3>2 DEF Kept
    <3>3. CASE t = q
      <4>1. ~(t > n) BY <1>2, <3>3 DEF Kept
      <4>2. ~b.hn[t].allocated => ~graph[t].output BY <2>3, <3>3
      <4> QED BY <2>6, <3>3, <4>1, <4>2
    <3> QED BY <3>2, <3>3
  <2> QED BY <2>2, <2>3, <2>4, <2>5, <2>7
<1> QED BY <1>1, <1>2

\* A read less.
Less(L, p, M) ==
  /\ Cardinality(Reads(M, p)) = Cardinality(Reads(L, p)) - 1
  /\ \A t : t # p => Reads(M, t) = Reads(L, t)
  /\ \A t : Pending(M, t) \subseteq Pending(L, t)
  /\ \A t \in Tensors : ~(IsView(p) /\ t = Root(p)) => Pending(M, t) = Pending(L, t)
  /\ IsView(p) => /\ Pending(L, p) = {} /\ Pending(L, Root(p)) # {}
                  /\ Reads(M, p) # {} => Pending(M, Root(p)) = Pending(L, Root(p))
                  /\ Reads(M, p) = {} =>
                       Cardinality(Pending(M, Root(p))) = Cardinality(Pending(L, Root(p))) - 1

LEMMA ReadLess ==
  ASSUME Planned, NEW L, L \subseteq Slots, NEW s \in L, NEW M, M = L \ {s}
  PROVE  Less(L, Source(s), M)
<1> DEFINE p == Source(s)
<1>0. s \in Slots /\ p \in Tensors /\ graph[p].op # "store" BY SlotFacts DEF Stored
<1>1. Reads(M, p) = Reads(L, p) \ {s} /\ s \in Reads(L, p) BY DEF Reads
<1>2. Cardinality(Reads(M, p)) = Cardinality(Reads(L, p)) - 1 BY <1>1, CountZero, FS_RemoveElement, ZenonT(30)
<1>3. \A t : t # p => Reads(M, t) = Reads(L, t) BY DEF Reads
<1>4. \A t : Reads(M, t) \subseteq Reads(L, t) BY DEF Reads
<1>5. \A t : Pending(M, t) \subseteq Pending(L, t)
  <2>1. \A v : Reads(M, v) # {} => Reads(L, v) # {} BY <1>4
  <2> QED BY <2>1 DEF Pending
<1>6. Reads(Slots, p) # {} /\ Reads(L, p) # {} BY <1>0, <1>1 DEF Reads
<1>7. \A t, v : v # p => (v \in Pending(M, t) <=> v \in Pending(L, t)) BY <1>3 DEF Pending
<1>8. \A t : p \in Pending(L, t) <=> p \in Nodes /\ graph[p].view_src = t BY <1>6 DEF Pending
<1>9. \A t : p \in Pending(M, t) <=> p \in Nodes /\ graph[p].view_src = t /\ Reads(M, p) # {}
  BY <1>6 DEF Pending
<1>10. ASSUME NEW t \in Tensors, ~(IsView(p) /\ t = Root(p))
       PROVE  Pending(M, t) = Pending(L, t)
  <2>1. t # 0 BY TensorFacts
  <2>2. graph[p].view_src # t BY <1>10, <2>1 DEF Root, IsView
  <2>3. p \notin Pending(M, t) /\ p \notin Pending(L, t) BY <1>8, <1>9, <2>2
  <2> QED BY <1>7, <2>3
<1>11. ASSUME IsView(p)
       PROVE  /\ Pending(L, p) = {} /\ Pending(L, Root(p)) # {}
              /\ Reads(M, p) # {} => Pending(M, Root(p)) = Pending(L, Root(p))
              /\ Reads(M, p) = {} => Cardinality(Pending(M, Root(p))) = Cardinality(Pending(L, Root(p))) - 1
  <2>1. Root(p) = graph[p].view_src /\ graph[p].op = "view" /\ ~IsView(Root(p))
    BY <1>0, <1>11, TensorFacts DEF Root
  <2>2. p \in Nodes BY <1>0, <2>1, LeafsFirst DEF IsLeaf
  <2>3. Pending(L, p) = {}
    <3>1. SUFFICES ASSUME NEW v \in Nodes, graph[v].view_src = p PROVE FALSE BY DEF Pending
    <3>2. v \in Tensors /\ p # 0 BY <1>0, SlotFacts, TensorFacts
    <3>3. IsView(v) BY <3>1, <3>2 DEF IsView
    <3>4. ~IsView(graph[v].view_src) BY <3>2, <3>3, TensorFacts
    <3> QED BY <1>11, <3>1, <3>4
  <2>4. p \in Pending(L, Root(p)) BY <1>8, <2>1, <2>2
  <2>5. Reads(M, p) # {} => Pending(M, Root(p)) = Pending(L, Root(p))
    <3>1. Reads(M, p) # {} => p \in Pending(M, Root(p)) BY <1>9, <2>1, <2>2
    <3> QED BY <1>7, <2>4, <3>1
  <2>6. Reads(M, p) = {} => Cardinality(Pending(M, Root(p))) = Cardinality(Pending(L, Root(p))) - 1
    <3>1. SUFFICES ASSUME Reads(M, p) = {}
                   PROVE  Cardinality(Pending(M, Root(p))) = Cardinality(Pending(L, Root(p))) - 1
      OBVIOUS
    <3>2. p \notin Pending(M, Root(p)) BY <1>9, <3>1
    <3>3. Pending(M, Root(p)) = Pending(L, Root(p)) \ {p} BY <1>7, <2>4, <3>2
    <3> QED BY <2>4, <3>3, CountZero, FS_RemoveElement, ZenonT(30)
  <2> QED BY <2>3, <2>4, <2>5, <2>6
<1> QED BY <1>2, <1>3, <1>5, <1>10, <1>11 DEF Less

\* A source is let go: its count, its root's and its memory follow.
LEMMA UpdateParentPlan ==
  ASSUME Planned, NEW ga, NEW k \in Nat, Placed(ga, k), NEW n \in Nat,
         NEW L, L \subseteq Slots, Counts(ga, L), Kept(ga, n, L), NEW s \in L, NEW M, M = L \ {s}
  PROVE  LET b == UpdateParent(ga, Source(s))
         IN  Placed(b, k) /\ Counts(b, M) /\ Kept(b, n, M) /\ SamePlan(ga, b)
<1>1. PICK p : p = Source(s) OBVIOUS
<1>2. p \in Tensors /\ Root(p) \in Tensors
  <2>1. p \in Tensors BY <1>1, SlotFacts
  <2> QED BY <2>1, TensorFacts
<1>3. ga \in Galloc BY DEF Placed
<1>4. Less(L, p, M) BY <1>1, ReadLess
<1>5. M \subseteq Slots /\ \A t : Reads(M, t) \subseteq Reads(L, t) BY DEF Reads
<1> DEFINE less == [ga EXCEPT !.hn[p].n_children = @ - 1]
<1>6. PICK a : a = less OBVIOUS
<1>7. /\ a \in Galloc /\ a.chunks = ga.chunks
      /\ a.hn[p].n_children = ga.hn[p].n_children - 1
      /\ \A t \in Tensors : t # p => a.hn[t].n_children = ga.hn[t].n_children
      /\ \A t \in Tensors : /\ a.hn[t].n_views = ga.hn[t].n_views
                            /\ a.hn[t].allocated = ga.hn[t].allocated /\ a.hn[t].addr = ga.hn[t].addr
  <2>1. PICK h \in HnRec : h = [ga.hn[p] EXCEPT !.n_children = @ - 1]
    <3>1. PICK r \in HnRec : r = ga.hn[p] BY <1>2, <1>3, HnFacts
    <3>2. r.n_children - 1 \in Int BY DEF HnRec
    <3>3. [r EXCEPT !.n_children = r.n_children - 1] \in HnRec BY <3>2 DEF HnRec
    <3> QED BY <3>1, <3>3
  <2>2. /\ h.n_children = ga.hn[p].n_children - 1 /\ h.n_views = ga.hn[p].n_views
        /\ h.allocated = ga.hn[p].allocated /\ h.addr = ga.hn[p].addr
    <3>1. ga.hn[p] \in HnRec BY <1>2, <1>3, HnFacts
    <3> QED BY <2>1, <3>1 DEF HnRec
  <2>3. /\ ga.hn \in [Tensors -> HnRec] /\ ga.chunks \in Seq(ChunkRec)
        /\ ga = [chunks |-> ga.chunks, hn |-> ga.hn] BY <1>2, <1>3, HnFacts
  <2>4. a = [chunks |-> ga.chunks, hn |-> [ga.hn EXCEPT ![p] = h]] BY <1>6, <2>1, <2>3
  <2>5. [ga.hn EXCEPT ![p] = h] \in [Tensors -> HnRec] BY <2>3
  <2>6. a \in Galloc BY <2>3, <2>4, <2>5 DEF Galloc
  <2>7. a.hn[p] = h /\ \A t \in Tensors : t # p => a.hn[t] = ga.hn[t] BY <1>2, <2>3, <2>4
  <2> QED BY <2>2, <2>4, <2>6, <2>7
<1>8. Placed(a, k) BY <1>7, CountsPlaced
<1>9. \A t \in Tensors : a.hn[t].n_children = Cardinality(Reads(M, t))
  <2> TAKE t \in Tensors
  <2>1. CASE t = p BY <1>2, <1>4, <1>7, <2>1 DEF Counts, Less
  <2>2. CASE t # p BY <1>4, <1>7, <2>2 DEF Counts, Less
  <2> QED BY <2>1, <2>2
<1>10. Kept(a, n, M)
  <2> SUFFICES ASSUME NEW t \in Owning
               PROVE  /\ t > n => ~a.hn[t].allocated
                      /\ t <= n /\ ~a.hn[t].allocated =>
                           ~graph[t].output /\ Pending(M, t) = {} /\ \A r \in Reads(M, t) : r[1] <= n
    BY DEF Kept
  <2>1. t \in Tensors /\ a.hn[t].allocated = ga.hn[t].allocated BY <1>7 DEF Owning
  <2> QED BY <1>4, <1>5, <2>1 DEF Kept, Less
<1>11. SamePlan(ga, a) BY <1>7 DEF SamePlan
<1>12. Unused(a, p) /\ IsView(p) <=> Reads(M, p) = {} /\ IsView(p)
  <2>1. IsView(p) => a.hn[p].n_views = 0 BY <1>2, <1>4, <1>7, CountZero DEF Counts, Less
  <2>2. a.hn[p].n_children = 0 <=> Reads(M, p) = {} BY <1>2, <1>5, <1>9, CountZero
  <2> QED BY <2>1, <2>2 DEF Unused
<1>13. UpdateParent(ga, p) = IF IsView(p) /\ Unused(a, p)
                             THEN FreeIfOwned([a EXCEPT !.hn[Root(p)].n_views = @ - 1], Root(p))
                             ELSE IF IsView(p) THEN a ELSE FreeIfOwned(a, p) BY <1>6 DEF UpdateParent
<1>14. ~(IsView(p) /\ Reads(M, p) = {}) => Counts(a, M)
  <2>1. SUFFICES ASSUME ~(IsView(p) /\ Reads(M, p) = {}), NEW t \in Tensors PROVE a.hn[t].n_views = Cardinality(Pending(M, t))
    BY <1>9 DEF Counts
  <2>2. Pending(M, t) = Pending(L, t) BY <1>4, <2>1 DEF Less
  <2> QED BY <1>7, <2>2 DEF Counts
<1>15. CASE ~IsView(p)
  <2>1. UpdateParent(ga, p) = FreeIfOwned(a, p) BY <1>13, <1>15
  <2>2. PICK b : b = FreeIfOwned(a, p) OBVIOUS
  <2>3. Placed(b, k) /\ Counts(b, M) /\ Kept(b, n, M) /\ SamePlan(a, b)
    BY <1>2, <1>5, <1>8, <1>10, <1>14, <1>15, <2>2, FreeIfOwnedPlan
  <2>4. SamePlan(ga, b) BY <1>11, <2>3 DEF SamePlan
  <2> QED BY <1>1, <2>1, <2>2, <2>3, <2>4
<1>16. CASE IsView(p) /\ Reads(M, p) # {}
  <2>1. UpdateParent(ga, p) = a BY <1>12, <1>13, <1>16
  <2> QED BY <1>1, <1>8, <1>10, <1>11, <1>14, <1>16, <2>1
<1>17. CASE IsView(p) /\ Reads(M, p) = {}
  <2>1. PICK q \in Tensors : q = Root(p) BY <1>2
  <2>2. PICK d : d = [a EXCEPT !.hn[q].n_views = @ - 1] OBVIOUS
  <2>3. UpdateParent(ga, p) = FreeIfOwned(d, q) BY <1>12, <1>13, <1>17, <2>1, <2>2
  <2>4. /\ d \in Galloc /\ d.chunks = a.chunks
        /\ d.hn[q].n_views = a.hn[q].n_views - 1
        /\ \A t \in Tensors : t # q => d.hn[t].n_views = a.hn[t].n_views
        /\ \A t \in Tensors : /\ d.hn[t].n_children = a.hn[t].n_children
                              /\ d.hn[t].allocated = a.hn[t].allocated /\ d.hn[t].addr = a.hn[t].addr
    <3>0. a.hn[q] \in HnRec BY <1>7, HnFacts
    <3>1. PICK h \in HnRec : h = [a.hn[q] EXCEPT !.n_views = @ - 1]
      <4>1. PICK r \in HnRec : r = a.hn[q] BY <3>0
      <4>2. r.n_views - 1 \in Int BY DEF HnRec
      <4>3. [r EXCEPT !.n_views = r.n_views - 1] \in HnRec BY <4>2 DEF HnRec
      <4> QED BY <4>1, <4>3
    <3>2. /\ h.n_views = a.hn[q].n_views - 1 /\ h.n_children = a.hn[q].n_children
          /\ h.allocated = a.hn[q].allocated /\ h.addr = a.hn[q].addr BY <3>0, <3>1 DEF HnRec
    <3>3. /\ a.hn \in [Tensors -> HnRec] /\ a.chunks \in Seq(ChunkRec)
          /\ a = [chunks |-> a.chunks, hn |-> a.hn] BY <1>7, HnFacts
    <3>4. d = [chunks |-> a.chunks, hn |-> [a.hn EXCEPT ![q] = h]] BY <2>2, <3>1, <3>3
    <3>5. [a.hn EXCEPT ![q] = h] \in [Tensors -> HnRec] BY <3>3
    <3>6. d \in Galloc BY <3>3, <3>4, <3>5 DEF Galloc
    <3>7. d.hn[q] = h /\ \A t \in Tensors : t # q => d.hn[t] = a.hn[t] BY <3>3, <3>4
    <3> QED BY <3>2, <3>4, <3>6, <3>7
  <2>5. Placed(d, k) BY <1>8, <2>4, CountsPlaced
  <2>6. Counts(d, M)
    <3>1. \A t \in Tensors : d.hn[t].n_children = Cardinality(Reads(M, t)) BY <1>9, <2>4
    <3>2. \A t \in Tensors : d.hn[t].n_views = Cardinality(Pending(M, t))
      <4> TAKE t \in Tensors
      <4>1. CASE t = q BY <1>4, <1>7, <1>17, <2>1, <2>4, <4>1 DEF Counts, Less
      <4>2. CASE t # q
        <5>1. Pending(M, t) = Pending(L, t) BY <1>4, <2>1, <4>2 DEF Less
        <5>2. d.hn[t].n_views = ga.hn[t].n_views BY <1>7, <2>4, <4>2
        <5> QED BY <5>1, <5>2 DEF Counts
      <4> QED BY <4>1, <4>2
    <3> QED BY <3>1, <3>2 DEF Counts
  <2>7. Kept(d, n, M)
    <3>1. \A t \in Owning : t \in Tensors BY DEF Owning
    <3> QED BY <1>10, <2>4, <3>1 DEF Kept
  <2>8. SamePlan(ga, d) BY <1>7, <2>4 DEF SamePlan
  <2>9. PICK b : b = FreeIfOwned(d, q) OBVIOUS
  <2>10. Placed(b, k) /\ Counts(b, M) /\ Kept(b, n, M) /\ SamePlan(d, b)
    BY <1>5, <2>5, <2>6, <2>7, <2>9, FreeIfOwnedPlan
  <2>11. SamePlan(ga, b) BY <2>8, <2>10 DEF SamePlan
  <2> QED BY <1>1, <2>3, <2>9, <2>10, <2>11
<1> QED BY <1>15, <1>16, <1>17

----
\* The plan: a node is given its place.

\* Row x of chunk c is one that t was given, and may have lost again.
Spans(ga, t, c, x) ==
  ga.hn[t].addr.chunk = c /\ ga.hn[t].addr.offset <= x /\ x < ga.hn[t].addr.offset + Size(t)

\* u is computed on top of t, row for row.
OnTop(ga, t, u) == CanInplace(graph[u].op) /\ Size(t) = Size(u) /\ ga.hn[t].addr = ga.hn[u].addr

\* Every block is inside of its chunk.
Within(ga, n) ==
  \A t \in Owning : t <= n =>
    /\ ga.hn[t].addr.chunk \in 1 .. Len(ga.chunks)
    /\ ga.hn[t].addr.offset + Size(t) <= ga.chunks[ga.hn[t].addr.chunk].max_size

\* Whoever gets rows that were t's comes grown all of t's readers, or is
\* the last of them and computed on top of it.
Overlaps(ga, n) ==
  \A t, u \in Owning : t < u /\ u <= n /\ (\E c, x \in Nat : Spans(ga, t, c, x) /\ Spans(ga, u, c, x)) =>
    /\ ~IsLeaf(u) /\ ~graph[t].output
    /\ \A r \in Slots : Root(Source(r)) = t => r[1] < u \/ (r[1] = u /\ Source(r) = t /\ OnTop(ga, t, u))

\* The product of a norm and what it is multiplied by.
PairAt(u) ==
  /\ u \in Tensors /\ u - 1 \in Tensors /\ graph[u - 1].op = "norm" /\ graph[u].op = "mul"
  /\ Children(u - 1) = 1 /\ ~graph[u - 1].output /\ Contains(graph[u].src, u - 1) /\ Size(u) = Size(u - 1)

\* A pair that may be fused ends on top of one of the product's sources.
PairsOnTop(ga, n) ==
  \A u \in Tensors : u <= n /\ PairAt(u) =>
    \E q \in Owning : q < u /\ Contains(graph[u].src, q) /\ OnTop(ga, q, u)

PlanOK(ga, n) == Within(ga, n) /\ Overlaps(ga, n) /\ PairsOnTop(ga, n)

\* The reads to come, a source and a node at a time.
LEMMA LeftFacts ==
  ASSUME Planned, NEW n \in Nodes, NEW j \in Nat
  PROVE  /\ Left(n, j) \subseteq Slots
         /\ j \in 1 .. Len(graph[n].src) =>
              /\ <<n, j>> \in Left(n, j - 1) /\ Left(n, j) = Left(n, j - 1) \ {<<n, j>>}
              /\ Source(<<n, j>>) = graph[n].src[j]
         /\ Left(n, Len(graph[n].src)) = Left(n + 1, 0)
         /\ \A r \in Slots : r \in Left(n, 0) <=> r[1] >= n
<1>1. n \in Nat /\ n \in Tensors /\ Len(graph[n].src) \in Nat BY SlotFacts, TensorFacts
<1>2. Left(n, j) \subseteq Slots BY DEF Left
<1>3. ASSUME j \in 1 .. Len(graph[n].src)
      PROVE  /\ <<n, j>> \in Left(n, j - 1) /\ Left(n, j) = Left(n, j - 1) \ {<<n, j>>}
             /\ Source(<<n, j>>) = graph[n].src[j]
  <2>1. <<n, j>> \in Slots /\ Source(<<n, j>>) = graph[n].src[j] BY <1>3, SlotFacts
  <2>2. <<n, j>> \in Left(n, j - 1) BY <2>1 DEF Left
  <2>3. ASSUME NEW r \in Slots
        PROVE  r \in Left(n, j) <=> r \in Left(n, j - 1) /\ r # <<n, j>>
    <3>1. PICK a \in Nat, b \in Nat : r = <<a, b>> /\ r[1] = a /\ r[2] = b BY SlotFacts
    <3>2. r = <<n, j>> <=> a = n /\ b = j BY <3>1
    <3>3. r \in Left(n, j) <=> a > n \/ (a = n /\ b > j) BY <3>1 DEF Left
    <3>4. r \in Left(n, j - 1) <=> a > n \/ (a = n /\ b > j - 1) BY <3>1 DEF Left
    <3> QED BY <1>1, <3>2, <3>3, <3>4
  <2>4. Left(n, j - 1) \subseteq Slots BY DEF Left
  <2> QED BY <1>2, <2>1, <2>2, <2>3, <2>4
<1>4. Left(n, Len(graph[n].src)) = Left(n + 1, 0)
  <2>1. ASSUME NEW r \in Slots
        PROVE  r \in Left(n, Len(graph[n].src)) <=> r \in Left(n + 1, 0)
    <3>1. PICK a \in Nat, b \in Nat : r[1] = a /\ r[2] = b /\ b >= 1 /\ (a = n => b <= Len(graph[n].src))
      BY SlotFacts
    <3>2. r \in Left(n, Len(graph[n].src)) <=> a > n \/ (a = n /\ b > Len(graph[n].src)) BY <3>1 DEF Left
    <3>3. r \in Left(n + 1, 0) <=> a > n + 1 \/ (a = n + 1 /\ b > 0) BY <3>1 DEF Left
    <3> QED BY <1>1, <3>1, <3>2, <3>3
  <2>2. Left(n, Len(graph[n].src)) \subseteq Slots /\ Left(n + 1, 0) \subseteq Slots BY DEF Left
  <2> QED BY <2>1, <2>2
<1>5. ASSUME NEW r \in Slots
      PROVE  r \in Left(n, 0) <=> r[1] >= n
  <2>1. PICK a \in Nat, b \in Nat : r[1] = a /\ r[2] = b /\ b >= 1 BY SlotFacts
  <2>2. r \in Left(n, 0) <=> a > n \/ (a = n /\ b > 0) BY <2>1 DEF Left
  <2> QED BY <1>1, <2>1, <2>2
<1> QED BY <1>2, <1>3, <1>4, <1>5

\* A read of t's memory that is still to come is a read of t, once no view
\* of t is pending.
LEMMA ReadsOfRoot ==
  ASSUME Planned, NEW n \in Nodes, NEW t \in Tensors, Pending(Left(n, 0), t) = {},
         NEW r \in Slots, Root(Source(r)) = t, ~(r[1] < n)
  PROVE  r \in Reads(Left(n, 0), t)
<1>1. r[1] \in Nat /\ n \in Nat /\ Source(r) \in Tensors BY SlotFacts, TensorFacts
<1>2. r \in Left(n, 0)
  <2>1. \A x \in Slots : x \in Left(n, 0) <=> x[1] >= n BY LeftFacts, 0 \in Nat
  <2>2. r[1] >= n BY <1>1
  <2> QED BY <2>1, <2>2
<1>3. CASE IsView(Source(r))
  <2>1. graph[Source(r)].view_src = t /\ ~IsLeaf(Source(r)) BY <1>1, <1>3, TensorFacts DEF Root, IsLeaf
  <2>2. Source(r) \in Nodes BY <1>1, <2>1, LeafsFirst
  <2>3. Reads(Left(n, 0), Source(r)) # {} BY <1>2 DEF Reads
  <2>4. Source(r) \in Pending(Left(n, 0), t) BY <2>1, <2>2, <2>3 DEF Pending
  <2> QED BY <2>4
<1>4. CASE ~IsView(Source(r)) BY <1>2, <1>4 DEF Root, Reads
<1> QED BY <1>3, <1>4

\* The first of a pair is read by the second alone, and has no views.
LEMMA PairRead ==
  ASSUME Planned, NEW n \in Nodes, PairAt(n)
  PROVE  /\ n - 1 \in Owning /\ ~IsView(n - 1)
         /\ \A w \in Nodes : graph[w].view_src # n - 1
         /\ \E j \in 1 .. Len(graph[n].src) : Reads(Slots, n - 1) = {<<n, j>>} /\ Source(<<n, j>>) = n - 1
<1> DEFINE p == n - 1
<1>1. n \in Nat /\ n \in Tensors /\ p \in Tensors /\ p \in Nat BY SlotFacts, TensorFacts DEF PairAt
<1>2. graph[p].op = "norm" /\ Children(p) = 1 BY DEF PairAt
<1>3. PICK j \in 1 .. Len(graph[n].src) : graph[n].src[j] = p BY DEF PairAt, Contains
<1>4. <<n, j>> \in Slots /\ Source(<<n, j>>) = p BY <1>3, SlotFacts
<1>5. PICK s : Reads(Slots, p) = {s}
  <2>1. Children(p) = Cardinality(Reads(Slots, p)) BY DEF Children, Reads
  <2>2. IsFiniteSet(Reads(Slots, p)) /\ Cardinality(Reads(Slots, p)) = 1 BY <1>2, <2>1, CountZero
  <2> QED BY <2>2, FS_Singleton
<1>6. Reads(Slots, p) = {<<n, j>>} BY <1>4, <1>5 DEF Reads
<1>8. ~IsView(p) /\ p \in Owning
  <2>1. ~IsView(p)
    <3>1. IsView(p) => graph[p].op \in {"view", "store"} BY <1>1, TensorFacts
    <3> QED BY <1>2, <3>1
  <2> QED BY <1>1, <1>2, <2>1 DEF Owning, External
<1>9. \A w \in Nodes : graph[w].view_src # p
  <2>1. SUFFICES ASSUME NEW w \in Nodes, graph[w].view_src = p PROVE FALSE OBVIOUS
  <2> DEFINE V == {v \in Nodes : graph[v].view_src = p}
  <2>2. V \subseteq Nat /\ V # {} BY <2>1, SlotFacts, TensorFacts
  <2>3. PICK v \in V : \A x \in V : v <= x
    <3> HIDE DEF V
    <3> QED BY <2>2, LeastNumber
  <2>4. v \in Nodes /\ v \in Tensors /\ graph[v].view_src = p /\ p # 0 /\ v \in Nat
    BY <1>1, <2>3, SlotFacts, TensorFacts
  <2>5. IsView(v) BY <2>4 DEF IsView
  <2>6. PICK i \in 1 .. Len(graph[v].src) : graph[v].src[i] = p \/ graph[graph[v].src[i]].view_src = p
    <3>1. PICK x \in ToSet(graph[v].src) : x = p \/ graph[x].view_src = p BY <2>4, <2>5, TensorFacts
    <3>2. DOMAIN graph[v].src = 1 .. Len(graph[v].src) BY <2>4, TensorFacts
    <3> QED BY <3>1, <3>2 DEF ToSet
  <2>7. graph[v].src[i] \in Tensors /\ graph[v].src[i] < v /\ graph[v].src[i] \in Nat
    <3>1. graph[v].op # "cast" BY <2>4, <2>5, TensorFacts
    <3>2. graph[v].src[i] \in Tensors /\ graph[v].src[i] < v BY <2>4, <3>1, TensorFacts
    <3> QED BY <3>2, TensorFacts
  <2>8. graph[v].src[i] = p
    <3>1. SUFFICES ASSUME graph[graph[v].src[i]].view_src = p PROVE FALSE BY <2>6
    <3>2. IsView(graph[v].src[i]) BY <2>4, <3>1 DEF IsView
    <3>3. ~IsLeaf(graph[v].src[i]) BY <2>7, <3>2, TensorFacts DEF IsLeaf
    <3>4. graph[v].src[i] \in V BY <2>7, <3>1, <3>3, LeafsFirst
    <3> QED BY <2>3, <2>4, <2>7, <3>4
  <2>9. <<v, i>> \in Reads(Slots, p) BY <2>4, <2>8, SlotFacts DEF Reads
  <2>10. v = n BY <1>6, <2>9
  <2>11. graph[n].op \in {"view", "store"} BY <2>4, <2>5, <2>10, TensorFacts
  <2> QED BY <2>11 DEF PairAt
<1> QED BY <1>4, <1>6, <1>8, <1>9

\* A norm that is to be fused is free to be taken over.
LEMMA PairReusable ==
  ASSUME Planned, NEW n \in Nodes, PairAt(n), NEW ga, NEW k \in Nat, Placed(ga, k),
         Counts(ga, Left(n, 0)), Kept(ga, n - 1, Left(n, 0))
  PROVE  Reusable(ga, n, n - 1)
<1> DEFINE p == n - 1
<1> DEFINE L == Left(n, 0)
<1>1. n \in Nat /\ n \in Tensors /\ p \in Tensors /\ p \in Nat /\ L \subseteq Slots
  BY SlotFacts, TensorFacts, LeftFacts DEF PairAt
<1>2. graph[p].op = "norm" /\ ~graph[p].output /\ Children(p) = 1 /\ Size(n) = Size(p) BY DEF PairAt
<1>3. /\ p \in Owning /\ ~IsView(p)
      /\ \A w \in Nodes : graph[w].view_src # p
      /\ \E j \in 1 .. Len(graph[n].src) : Reads(Slots, p) = {<<n, j>>} /\ Source(<<n, j>>) = p BY PairRead
<1>4. PICK j \in 1 .. Len(graph[n].src) : Reads(Slots, p) = {<<n, j>>} /\ Source(<<n, j>>) = p BY <1>3
<1>5. <<n, j>> \in L
  <2>1. <<n, j>> \in Slots BY SlotFacts
  <2>2. <<n, j>>[1] >= n BY <1>1
  <2> QED BY <2>1, <2>2, LeftFacts
<1>6. Reads(L, p) = {<<n, j>>} BY <1>1, <1>4, <1>5 DEF Reads
<1>7. ga.hn[p].n_children = 1 BY <1>1, <1>6, FS_Singleton DEF Counts
<1>9. Pending(L, p) = {} BY <1>3 DEF Pending
<1>10. ga.hn[p].n_views = 0 BY <1>1, <1>9, CountZero DEF Counts
<1>11. ga.hn[p].allocated
  <2>1. SUFFICES ASSUME ~ga.hn[p].allocated PROVE FALSE OBVIOUS
  <2>2. <<n, j>> \in Reads(L, p) BY <1>6
  <2>3. p <= n - 1 BY <1>1
  <2>4. <<n, j>>[1] <= n - 1 BY <1>3, <2>1, <2>2, <2>3 DEF Kept
  <2> QED BY <1>1, <2>4
<1> QED BY <1>2, <1>3, <1>7, <1>10, <1>11 DEF Reusable, SameLayout

\* What there was to say of the plan up to m is kept by later steps.
LEMMA PlanStays ==
  ASSUME Planned, NEW ga, NEW b, NEW m \in Nat,
         \A t \in Tensors : t <= m => b.hn[t].addr = ga.hn[t].addr,
         Len(ga.chunks) \in Nat, Len(b.chunks) \in Nat, Len(b.chunks) >= Len(ga.chunks),
         \A c \in 1 .. Len(ga.chunks) : /\ b.chunks[c].max_size \in Nat /\ ga.chunks[c].max_size \in Nat
                                        /\ b.chunks[c].max_size >= ga.chunks[c].max_size,
         \A t \in Tensors : ga.hn[t].addr.offset \in Nat,
         PlanOK(ga, m)
  PROVE  PlanOK(b, m)
<1>0. \A t \in Owning : t \in Tensors /\ t \in Nat /\ Size(t) \in Nat BY TensorFacts, GraphFacts DEF Owning
<1>1. Within(b, m)
  <2> SUFFICES ASSUME NEW t \in Owning, t <= m
               PROVE  /\ b.hn[t].addr.chunk \in 1 .. Len(b.chunks)
                      /\ b.hn[t].addr.offset + Size(t) <= b.chunks[b.hn[t].addr.chunk].max_size
    BY DEF Within
  <2>1. PICK a : a = ga.hn[t].addr OBVIOUS
  <2>2. b.hn[t].addr = a BY <1>0, <2>1
  <2>3. a.chunk \in 1 .. Len(ga.chunks) /\ a.offset + Size(t) <= ga.chunks[a.chunk].max_size
    BY <2>1 DEF PlanOK, Within
  <2>4. a.offset \in Nat /\ Size(t) \in Nat BY <1>0, <2>1
  <2>5. PICK x \in Nat, y \in Nat : x = ga.chunks[a.chunk].max_size /\ y = b.chunks[a.chunk].max_size /\ y >= x
    BY <2>3
  <2>6. a.offset + Size(t) <= y
    <3>1. PICK o \in Nat, z \in Nat : o = a.offset /\ z = Size(t) BY <2>4
    <3>2. o + z <= x BY <2>3, <2>5, <3>1
    <3>3. o + z <= y BY <2>5, <3>2
    <3> QED BY <3>1, <3>3
  <2>7. a.chunk \in 1 .. Len(b.chunks) BY <2>3
  <2> QED BY <2>2, <2>5, <2>6, <2>7
<1>2. Overlaps(b, m)
  <2> SUFFICES ASSUME NEW t \in Owning, NEW u \in Owning, t < u, u <= m,
                      NEW c \in Nat, NEW x \in Nat, Spans(b, t, c, x), Spans(b, u, c, x)
               PROVE  /\ ~IsLeaf(u) /\ ~graph[t].output
                      /\ \A r \in Slots : Root(Source(r)) = t =>
                           r[1] < u \/ (r[1] = u /\ Source(r) = t /\ OnTop(b, t, u)) BY DEF Overlaps
  <2>1. t <= m BY <1>0
  <2>2. b.hn[t].addr = ga.hn[t].addr /\ b.hn[u].addr = ga.hn[u].addr BY <1>0, <2>1
  <2>3. Spans(ga, t, c, x) /\ Spans(ga, u, c, x) BY <2>2 DEF Spans
  <2>4. OnTop(ga, t, u) <=> OnTop(b, t, u) BY <2>2 DEF OnTop
  <2> QED BY <2>3, <2>4 DEF PlanOK, Overlaps
<1>3. PairsOnTop(b, m)
  <2> SUFFICES ASSUME NEW u \in Tensors, u <= m, PairAt(u)
               PROVE  \E q \in Owning : q < u /\ Contains(graph[u].src, q) /\ OnTop(b, q, u)
    BY DEF PairsOnTop
  <2>1. PICK q \in Owning : q < u /\ Contains(graph[u].src, q) /\ OnTop(ga, q, u) BY DEF PlanOK, PairsOnTop
  <2>2. u \in Nat /\ q <= m BY <1>0, <2>1, TensorFacts
  <2>3. b.hn[q].addr = ga.hn[q].addr /\ b.hn[u].addr = ga.hn[u].addr BY <1>0, <2>2
  <2> QED BY <2>1, <2>3 DEF OnTop
<1> QED BY <1>1, <1>2, <1>3 DEF PlanOK

\* The first source that can be taken over.
LEMMA TakeoverFound ==
  ASSUME Planned, NEW n \in Tensors, NEW ga
  PROVE  LET j == SelectInSeq(graph[n].src, LAMBDA p : Reusable(ga, n, p))
         IN  /\ j # 0 => j \in 1 .. Len(graph[n].src) /\ Reusable(ga, n, graph[n].src[j])
             /\ j = 0 => \A i \in 1 .. Len(graph[n].src) : ~Reusable(ga, n, graph[n].src[i])
<1> DEFINE I == {i \in 1 .. Len(graph[n].src) : Reusable(ga, n, graph[n].src[i])}
<1>1. SelectInSeq(graph[n].src, LAMBDA p : Reusable(ga, n, p)) = IF I # {} THEN Min(I) ELSE 0 BY DEF SelectInSeq
<1>2. I # {} => Min(I) \in I
  <2>1. Len(graph[n].src) \in Nat BY TensorFacts
  <2>2. IsFiniteSet(1 .. Len(graph[n].src)) /\ 1 .. Len(graph[n].src) \subseteq Int BY <2>1, FS_Interval
  <2>3. I \subseteq 1 .. Len(graph[n].src) OBVIOUS
  <2>4. IsFiniteSet(I) /\ I \subseteq Int BY <2>2, <2>3, FS_Subset
  <2> HIDE DEF I
  <2> QED BY <2>4, LeastOf
<1>3. I # {} => Min(I) # 0
  <2>1. 0 \notin I BY TensorFacts
  <2> QED BY <1>2, <2>1
<1> QED BY <1>1, <1>2, <1>3

\* The places a node can take, and what they leave of the plan.
LEMMA NodeOverlaps ==
  ASSUME Planned, NEW n \in Nodes, NEW ga, NEW k \in Nat, Placed(ga, k),
         Counts(ga, Left(n, 0)), Kept(ga, n - 1, Left(n, 0)), NEW t \in Owning, t < n, ~ga.hn[t].allocated
  PROVE  /\ ~graph[t].output
         /\ \A r \in Slots : Root(Source(r)) = t => r[1] < n
<1>1. t \in Tensors /\ t \in Nat /\ n \in Nat /\ n \in Tensors BY TensorFacts, SlotFacts DEF Owning
<1>2. t <= n - 1 BY <1>1
<1>3. ~graph[t].output /\ Pending(Left(n, 0), t) = {} /\ \A r \in Reads(Left(n, 0), t) : r[1] <= n - 1
  BY <1>2 DEF Kept
<1>4. ASSUME NEW r \in Slots, Root(Source(r)) = t, ~(r[1] < n)
      PROVE  FALSE
  <2>1. r \in Reads(Left(n, 0), t) BY <1>1, <1>3, <1>4, ReadsOfRoot
  <2>2. r[1] <= n - 1 /\ r[1] \in Nat BY <1>3, <2>1, SlotFacts
  <2> QED BY <1>1, <1>4, <2>2
<1> QED BY <1>3, <1>4

\* How large the chunks have grown.
LEMMA ChunkSizes ==
  ASSUME NEW ga, NEW k \in Nat, Placed(ga, k)
  PROVE  Len(ga.chunks) \in Nat /\ \A c \in 1 .. Len(ga.chunks) : ga.chunks[c].max_size \in Nat
<1>1. ga.chunks \in Seq(ChunkRec) /\ Len(ga.chunks) \in Nat BY DEF Placed, Galloc
<1>2. \A c \in 1 .. Len(ga.chunks) : ga.chunks[c] \in ChunkRec BY <1>1
<1> QED BY <1>1, <1>2 DEF ChunkRec

\* A node takes over the memory of one of its sources.
LEMMA InPlacePlan ==
  ASSUME Planned, NEW n \in Nodes, NEW ga, NEW k \in Nat, Placed(ga, k),
         Counts(ga, Left(n, 0)), Kept(ga, n - 1, Left(n, 0)), PlanOK(ga, n - 1),
         n \in Owning, CanInplace(graph[n].op),
         NEW j \in 1 .. Len(graph[n].src), Reusable(ga, n, graph[n].src[j])
  PROVE  LET b == InPlace(ga, n, graph[n].src[j])
         IN  Placed(b, k) /\ Counts(b, Left(n, 0)) /\ Kept(b, n, Left(n, 0)) /\ PlanOK(b, n)
<1> DEFINE L == Left(n, 0)
<1>1. PICK p : p = graph[n].src[j] OBVIOUS
<1>2. n \in Tensors /\ n \in Nat /\ n >= 1 /\ n - 1 \in Nat
  <2>1. n \in Tensors BY SlotFacts
  <2>2. n \in Nat /\ n >= 1 BY <2>1, TensorFacts
  <2> QED BY <2>1, <2>2
<1>3. p \in Tensors /\ p < n /\ p \in Nat
  <2>1. p \in Tensors /\ p < n BY <1>1, <1>2, TensorFacts DEF CanInplace
  <2> QED BY <2>1, TensorFacts
<1>4. /\ ga.hn[p].allocated /\ ~graph[p].output /\ Size(n) = Size(p)
      /\ ga.hn[p].n_children = 1 /\ ga.hn[p].n_views = 0 BY <1>1 DEF Reusable, SameLayout
<1>5. p \in Owning BY <1>3, <1>4 DEF Placed
<1>6. ~ga.hn[n].allocated
  <2>1. n > n - 1 BY <1>2
  <2> QED BY <2>1 DEF Kept
<1>7. PICK b : b = InPlace(ga, n, p) OBVIOUS
<1>8. /\ Placed(b, k) /\ b.chunks = ga.chunks
      /\ b.hn[n].allocated /\ b.hn[n].addr = ga.hn[p].addr /\ ~b.hn[p].allocated /\ b.hn[p].addr = ga.hn[p].addr
      /\ \A u \in Tensors : u # n /\ u # p => b.hn[u] = ga.hn[u]
      /\ \A u \in Tensors : b.hn[u].n_children = ga.hn[u].n_children /\ b.hn[u].n_views = ga.hn[u].n_views
  BY <1>3, <1>4, <1>6, <1>7, InPlaceOf
<1>9. L \subseteq Slots /\ <<n, j>> \in L /\ Source(<<n, j>>) = p
  <2>1. <<n, j>> \in Slots /\ Source(<<n, j>>) = p BY <1>1, SlotFacts
  <2>2. <<n, j>>[1] >= n BY <1>2
  <2>3. \A r \in Slots : r \in Left(n, 0) <=> r[1] >= n BY LeftFacts, 0 \in Nat
  <2>4. L \subseteq Slots BY DEF Left
  <2> QED BY <2>1, <2>2, <2>3, <2>4
<1> HIDE DEF L
<1>a. Counts(ga, L) /\ Kept(ga, n - 1, L) BY DEF L
<1>10. Pending(L, p) = {} BY <1>3, <1>4, <1>9, <1>a, CountZero DEF Counts
<1>11. Reads(L, p) = {<<n, j>>}
  <2>1. IsFiniteSet(Reads(L, p)) /\ Cardinality(Reads(L, p)) = 1 BY <1>3, <1>4, <1>9, <1>a, CountZero DEF Counts
  <2>2. PICK s : Reads(L, p) = {s} BY <2>1, FS_Singleton
  <2>3. <<n, j>> \in Reads(L, p) BY <1>9 DEF Reads
  <2> QED BY <2>2, <2>3
<1>12. Counts(b, L) BY <1>8, <1>a DEF Counts
<1>13. Kept(b, n, L)
  <2> SUFFICES ASSUME NEW t \in Owning
               PROVE  /\ t > n => ~b.hn[t].allocated
                      /\ t <= n /\ ~b.hn[t].allocated =>
                           ~graph[t].output /\ Pending(L, t) = {} /\ \A r \in Reads(L, t) : r[1] <= n
    BY DEF Kept
  <2>1. t \in Tensors /\ t \in Nat BY TensorFacts DEF Owning
  <2>2. CASE t = n BY <1>2, <1>8, <2>2
  <2>3. CASE t = p
    <3>1. ~(t > n) BY <1>2, <1>3, <2>3
    <3>2. \A r \in Reads(L, t) : r[1] <= n BY <1>2, <1>11, <2>3
    <3> QED BY <1>4, <1>10, <2>3, <3>1, <3>2
  <2>4. CASE t # n /\ t # p
    <3>1. b.hn[t] = ga.hn[t] BY <1>8, <2>1, <2>4
    <3>2. t > n => t > n - 1 BY <1>2, <2>1
    <3>3. t <= n => t <= n - 1 BY <1>2, <2>1, <2>4
    <3>4. \A r \in Reads(L, t) : r[1] <= n - 1 => r[1] <= n
      <4> TAKE r \in Reads(L, t)
      <4>1. r[1] \in Nat BY <1>9, SlotFacts DEF Reads
      <4> QED BY <1>2, <4>1
    <3> QED BY <1>a, <3>1, <3>2, <3>3, <3>4 DEF Kept
  <2> QED BY <2>2, <2>3, <2>4
<1>14. PlanOK(b, n - 1)
  <2>1. \A t \in Tensors : t <= n - 1 => b.hn[t].addr = ga.hn[t].addr
    <3> TAKE t \in Tensors
    <3> HAVE t <= n - 1
    <3>1. t # n BY <1>2
    <3>2. CASE t = p BY <1>8, <3>2
    <3>3. CASE t # p BY <1>8, <3>1, <3>3
    <3> QED BY <3>2, <3>3
  <2>2. Len(ga.chunks) \in Nat /\ \A c \in 1 .. Len(ga.chunks) : ga.chunks[c].max_size \in Nat BY ChunkSizes
  <2>3. \A t \in Tensors : ga.hn[t].addr.offset \in Nat BY HnFacts DEF Placed
  <2>4. Len(b.chunks) \in Nat /\ Len(b.chunks) >= Len(ga.chunks) BY <1>8, <2>2
  <2>5. \A c \in 1 .. Len(ga.chunks) : /\ b.chunks[c].max_size \in Nat /\ ga.chunks[c].max_size \in Nat
                                       /\ b.chunks[c].max_size >= ga.chunks[c].max_size BY <1>8, <2>2
  <2> HIDE DEF L
  <2> QED BY <1>2, <2>1, <2>2, <2>3, <2>4, <2>5, PlanStays
<1>15. OnTop(b, p, n) BY <1>4, <1>8 DEF OnTop
<1>16. Within(b, n)
  <2> SUFFICES ASSUME NEW t \in Owning, t <= n
               PROVE  /\ b.hn[t].addr.chunk \in 1 .. Len(b.chunks)
                      /\ b.hn[t].addr.offset + Size(t) <= b.chunks[b.hn[t].addr.chunk].max_size
    BY DEF Within
  <2>0. t \in Tensors /\ t \in Nat BY TensorFacts DEF Owning
  <2>1. CASE t = n
    <3>1. p <= n - 1 BY <1>2, <1>3
    <3>2. /\ b.hn[p].addr.chunk \in 1 .. Len(b.chunks)
          /\ b.hn[p].addr.offset + Size(p) <= b.chunks[b.hn[p].addr.chunk].max_size
      BY <1>5, <1>14, <3>1 DEF PlanOK, Within
    <3> QED BY <1>4, <1>8, <2>1, <3>2
  <2>2. CASE t # n
    <3>1. t <= n - 1 BY <1>2, <2>0, <2>2
    <3> QED BY <1>14, <3>1 DEF PlanOK, Within
  <2> QED BY <2>1, <2>2
<1>19. ~IsLeaf(n) BY LeafsFirst
<1>17. Overlaps(b, n)
  <2> SUFFICES ASSUME NEW t \in Owning, NEW u \in Owning, t < u, u <= n,
                      NEW c \in Nat, NEW x \in Nat, Spans(b, t, c, x), Spans(b, u, c, x)
               PROVE  /\ ~IsLeaf(u) /\ ~graph[t].output
                      /\ \A r \in Slots : Root(Source(r)) = t =>
                           r[1] < u \/ (r[1] = u /\ Source(r) = t /\ OnTop(b, t, u)) BY DEF Overlaps
  <2>0. t \in Tensors /\ t \in Nat /\ u \in Tensors /\ u \in Nat BY TensorFacts DEF Owning
  <2>1. CASE u # n
    <3>1. u <= n - 1 BY <1>2, <2>0, <2>1
    <3> QED BY <1>14, <3>1 DEF PlanOK, Overlaps
  <2>2. CASE u = n /\ t = p
    <3>1. ASSUME NEW r \in Slots, Root(Source(r)) = t, ~(r[1] < n)
          PROVE  r[1] = n /\ Source(r) = p
      <4>1. r \in Reads(L, t) BY <1>3, <1>10, <2>2, <3>1, ReadsOfRoot DEF L
      <4> QED BY <1>9, <1>11, <2>2, <4>1
    <3> QED BY <1>4, <1>15, <1>19, <2>2, <3>1
  <2>3. CASE u = n /\ t # p
    <3>1. ~ga.hn[t].allocated
      <4>1. SUFFICES ASSUME ga.hn[t].allocated PROVE FALSE OBVIOUS
      <4>2. t # n BY <2>0, <2>3
      <4>3. b.hn[t].addr = ga.hn[t].addr BY <1>8, <2>0, <2>3, <4>2
      <4>4. Owns(ga, t, c, x) BY <4>1, <4>3 DEF Owns, Spans
      <4>5. Owns(ga, p, c, x) BY <1>4, <1>8, <2>3 DEF Owns, Spans
      <4> QED BY <1>3, <2>0, <2>3, <4>4, <4>5 DEF Placed
    <3>2. ~graph[t].output /\ \A r \in Slots : Root(Source(r)) = t => r[1] < n BY <2>3, <3>1, NodeOverlaps
    <3> QED BY <1>19, <2>3, <3>2
  <2> QED BY <2>1, <2>2, <2>3
<1>18. PairsOnTop(b, n)
  <2> SUFFICES ASSUME NEW u \in Tensors, u <= n, PairAt(u)
               PROVE  \E q \in Owning : q < u /\ Contains(graph[u].src, q) /\ OnTop(b, q, u)
    BY DEF PairsOnTop
  <2>0. u \in Nat BY TensorFacts
  <2>1. CASE u = n BY <1>1, <1>3, <1>5, <1>15, <2>1 DEF Contains
  <2>2. CASE u # n
    <3>1. u <= n - 1 BY <1>2, <2>0, <2>2
    <3> QED BY <1>14, <3>1 DEF PlanOK, PairsOnTop
  <2> QED BY <2>1, <2>2
<1> QED BY <1>1, <1>7, <1>8, <1>12, <1>13, <1>16, <1>17, <1>18 DEF L, PlanOK

\* A node gets rows that were free.
LEMMA FromBufferPlan ==
  ASSUME Planned, NEW n \in Nodes, NEW ga, NEW k \in Nat, Placed(ga, k), k + batch <= Endless,
         Counts(ga, Left(n, 0)), Kept(ga, n - 1, Left(n, 0)), PlanOK(ga, n - 1),
         n \in Owning, ~PairAt(n)
  PROVE  LET b == FromBuffer(ga, n)
         IN  Placed(b, k + batch) /\ Counts(b, Left(n, 0)) /\ Kept(b, n, Left(n, 0)) /\ PlanOK(b, n)
<1> DEFINE L == Left(n, 0)
<1>2. n \in Tensors /\ n \in Nat /\ n >= 1 /\ n - 1 \in Nat
  <2>1. n \in Tensors BY SlotFacts
  <2>2. n \in Nat /\ n >= 1 BY <2>1, TensorFacts
  <2> QED BY <2>1, <2>2
<1>6. ~ga.hn[n].allocated
  <2>1. n > n - 1 BY <1>2
  <2> QED BY <2>1 DEF Kept
<1>7. PICK b : b = FromBuffer(ga, n) OBVIOUS
<1> DEFINE c0 == b.hn[n].addr.chunk
<1> DEFINE o0 == b.hn[n].addr.offset
<1>8. /\ Placed(b, k + batch)
      /\ b.hn[n].allocated /\ b.hn[n].n_children = ga.hn[n].n_children /\ b.hn[n].n_views = ga.hn[n].n_views
      /\ \A u \in Tensors : u # n => b.hn[u] = ga.hn[u]
      /\ \A u \in Tensors : \A x \in Nat : Owns(ga, u, c0, x) => ~(o0 <= x /\ x < o0 + Size(n))
      /\ Len(b.chunks) >= Len(ga.chunks)
      /\ \A d \in 1 .. Len(ga.chunks) : b.chunks[d].max_size >= ga.chunks[d].max_size
      /\ b.chunks[c0].max_size >= o0 + Size(n) BY <1>6, <1>7, FromBufferPlaced
<1>9. L \subseteq Slots BY DEF Left
<1> HIDE DEF L
<1>a. Counts(ga, L) /\ Kept(ga, n - 1, L) BY DEF L
<1>12. Counts(b, L)
  <2> SUFFICES ASSUME NEW t \in Tensors
               PROVE  /\ b.hn[t].n_children = Cardinality(Reads(L, t))
                      /\ b.hn[t].n_views = Cardinality(Pending(L, t)) BY DEF Counts
  <2>1. b.hn[t].n_children = ga.hn[t].n_children /\ b.hn[t].n_views = ga.hn[t].n_views
    <3>1. CASE t = n BY <1>8, <3>1
    <3>2. CASE t # n BY <1>8, <3>2
    <3> QED BY <3>1, <3>2
  <2> QED BY <1>a, <2>1 DEF Counts
<1>13. Kept(b, n, L)
  <2> SUFFICES ASSUME NEW t \in Owning
               PROVE  /\ t > n => ~b.hn[t].allocated
                      /\ t <= n /\ ~b.hn[t].allocated =>
                           ~graph[t].output /\ Pending(L, t) = {} /\ \A r \in Reads(L, t) : r[1] <= n
    BY DEF Kept
  <2>1. t \in Tensors /\ t \in Nat BY TensorFacts DEF Owning
  <2>2. CASE t = n BY <1>2, <1>8, <2>2
  <2>4. CASE t # n
    <3>1. b.hn[t] = ga.hn[t] BY <1>8, <2>1, <2>4
    <3>2. t > n => t > n - 1 BY <1>2, <2>1
    <3>3. t <= n => t <= n - 1 BY <1>2, <2>1, <2>4
    <3>4. \A r \in Reads(L, t) : r[1] <= n - 1 => r[1] <= n
      <4> TAKE r \in Reads(L, t)
      <4>1. r[1] \in Nat BY <1>9, SlotFacts DEF Reads
      <4> QED BY <1>2, <4>1
    <3> QED BY <1>a, <3>1, <3>2, <3>3, <3>4 DEF Kept
  <2> QED BY <2>2, <2>4
<1>b. k + batch \in Nat BY DEF Planned
<1>14. PlanOK(b, n - 1)
  <2>1. \A t \in Tensors : t <= n - 1 => b.hn[t].addr = ga.hn[t].addr
    <3> TAKE t \in Tensors
    <3> HAVE t <= n - 1
    <3>1. t # n BY <1>2
    <3> QED BY <1>8, <3>1
  <2>2. Len(ga.chunks) \in Nat /\ \A c \in 1 .. Len(ga.chunks) : ga.chunks[c].max_size \in Nat BY ChunkSizes
  <2>3. \A t \in Tensors : ga.hn[t].addr.offset \in Nat BY HnFacts DEF Placed
  <2>4. Len(b.chunks) \in Nat /\ \A c \in 1 .. Len(b.chunks) : b.chunks[c].max_size \in Nat
    BY <1>8, <1>b, ChunkSizes
  <2>5. \A c \in 1 .. Len(ga.chunks) : /\ b.chunks[c].max_size \in Nat /\ ga.chunks[c].max_size \in Nat
                                       /\ b.chunks[c].max_size >= ga.chunks[c].max_size
    <3> TAKE c \in 1 .. Len(ga.chunks)
    <3>1. c \in 1 .. Len(b.chunks) BY <1>8, <2>2, <2>4
    <3> QED BY <1>8, <2>2, <2>4, <3>1
  <2> HIDE DEF L
  <2> QED BY <1>2, <1>8, <2>1, <2>2, <2>3, <2>4, <2>5, PlanStays
<1>16. Within(b, n)
  <2> SUFFICES ASSUME NEW t \in Owning, t <= n
               PROVE  /\ b.hn[t].addr.chunk \in 1 .. Len(b.chunks)
                      /\ b.hn[t].addr.offset + Size(t) <= b.chunks[b.hn[t].addr.chunk].max_size
    BY DEF Within
  <2>0. t \in Tensors /\ t \in Nat BY TensorFacts DEF Owning
  <2>1. CASE t = n
    <3>1. c0 \in 1 .. Len(b.chunks) BY <1>2, <1>8 DEF Placed
    <3>2. c0 \in Nat /\ o0 \in Nat /\ Size(n) \in Nat
      <4>1. b \in Galloc BY <1>8 DEF Placed
      <4> QED BY <1>2, <4>1, HnFacts, GraphFacts
    <3>3. b.chunks[c0].max_size \in Nat BY <1>8, <1>b, <3>1, ChunkSizes
    <3>4. o0 + Size(n) <= b.chunks[c0].max_size BY <1>8, <3>2, <3>3
    <3> QED BY <2>1, <3>1, <3>4
  <2>2. CASE t # n
    <3>1. t <= n - 1 BY <1>2, <2>0, <2>2
    <3> QED BY <1>14, <3>1 DEF PlanOK, Within
  <2> QED BY <2>1, <2>2
<1>19. ~IsLeaf(n) BY LeafsFirst
<1>17. Overlaps(b, n)
  <2> SUFFICES ASSUME NEW t \in Owning, NEW u \in Owning, t < u, u <= n,
                      NEW c \in Nat, NEW x \in Nat, Spans(b, t, c, x), Spans(b, u, c, x)
               PROVE  /\ ~IsLeaf(u) /\ ~graph[t].output
                      /\ \A r \in Slots : Root(Source(r)) = t =>
                           r[1] < u \/ (r[1] = u /\ Source(r) = t /\ OnTop(b, t, u)) BY DEF Overlaps
  <2>0. t \in Tensors /\ t \in Nat /\ u \in Tensors /\ u \in Nat BY TensorFacts DEF Owning
  <2>1. CASE u # n
    <3>1. u <= n - 1 BY <1>2, <2>0, <2>1
    <3> QED BY <1>14, <3>1 DEF PlanOK, Overlaps
  <2>3. CASE u = n
    <3>1. ~ga.hn[t].allocated
      <4>1. SUFFICES ASSUME ga.hn[t].allocated PROVE FALSE OBVIOUS
      <4>2. t # n BY <2>0, <2>3
      <4>3. b.hn[t].addr = ga.hn[t].addr BY <1>8, <2>0, <4>2
      <4>4. Owns(ga, t, c, x) BY <4>1, <4>3 DEF Owns, Spans
      <4>5. c = c0 /\ o0 <= x /\ x < o0 + Size(n) BY <2>3 DEF Spans
      <4> QED BY <1>8, <2>0, <4>4, <4>5
    <3>2. ~graph[t].output /\ \A r \in Slots : Root(Source(r)) = t => r[1] < n BY <2>3, <3>1, NodeOverlaps
    <3> QED BY <1>19, <2>3, <3>2
  <2> QED BY <2>1, <2>3
<1>18. PairsOnTop(b, n)
  <2> SUFFICES ASSUME NEW u \in Tensors, u <= n, PairAt(u)
               PROVE  \E q \in Owning : q < u /\ Contains(graph[u].src, q) /\ OnTop(b, q, u)
    BY DEF PairsOnTop
  <2>0. u \in Nat BY TensorFacts
  <2>1. u # n OBVIOUS
  <2>2. u <= n - 1 BY <1>2, <2>0, <2>1
  <2> QED BY <1>14, <2>2 DEF PlanOK, PairsOnTop
<1> QED BY <1>7, <1>8, <1>12, <1>13, <1>16, <1>17, <1>18 DEF L, PlanOK

\* A node that is not given memory leaves the plan as it is.
LEMMA ViewPlan ==
  ASSUME Planned, NEW n \in Nodes, NEW ga, Kept(ga, n - 1, Left(n, 0)), PlanOK(ga, n - 1), IsView(n)
  PROVE  Kept(ga, n, Left(n, 0)) /\ PlanOK(ga, n)
<1>1. n \in Tensors /\ n \in Nat /\ n >= 1 /\ n \notin Owning /\ graph[n].op \in {"view", "store"}
  <2>1. n \in Tensors BY SlotFacts
  <2> QED BY <2>1, TensorFacts DEF Owning
<1>2. \A t \in Owning : t \in Nat /\ t # n BY <1>1, TensorFacts DEF Owning
<1>3. \A t \in Owning : (t <= n => t <= n - 1) /\ (t > n => t > n - 1) BY <1>1, <1>2
<1>4. Kept(ga, n, Left(n, 0))
  <2> SUFFICES ASSUME NEW t \in Owning
               PROVE  /\ t > n => ~ga.hn[t].allocated
                      /\ t <= n /\ ~ga.hn[t].allocated =>
                           ~graph[t].output /\ Pending(Left(n, 0), t) = {} /\ \A r \in Reads(Left(n, 0), t) : r[1] <= n
    BY DEF Kept
  <2>1. \A r \in Reads(Left(n, 0), t) : r[1] \in Nat BY SlotFacts DEF Reads, Left
  <2>2. \A r \in Reads(Left(n, 0), t) : r[1] <= n - 1 => r[1] <= n BY <1>1, <2>1
  <2> QED BY <1>3, <2>2 DEF Kept
<1>5. Within(ga, n) /\ Overlaps(ga, n) BY <1>3 DEF PlanOK, Within, Overlaps
<1>6. PairsOnTop(ga, n)
  <2> SUFFICES ASSUME NEW u \in Tensors, u <= n, PairAt(u)
               PROVE  \E q \in Owning : q < u /\ Contains(graph[u].src, q) /\ OnTop(ga, q, u)
    BY DEF PairsOnTop
  <2>0. u \in Nat BY TensorFacts
  <2>1. u # n BY <1>1 DEF PairAt
  <2>2. u <= n - 1 BY <1>1, <2>0, <2>1
  <2> QED BY <2>2 DEF PlanOK, PairsOnTop
<1> QED BY <1>4, <1>5, <1>6 DEF PlanOK

\* Whatever a node needs, the plan stays right.
LEMMA AllocateNodePlan ==
  ASSUME Planned, NEW n \in Nodes, NEW ga, NEW k \in Nat, Placed(ga, k), k + batch <= Endless,
         Counts(ga, Left(n, 0)), Kept(ga, n - 1, Left(n, 0)), PlanOK(ga, n - 1)
  PROVE  LET b == AllocateNode(ga, n)
         IN  Placed(b, k + batch) /\ Counts(b, Left(n, 0)) /\ Kept(b, n, Left(n, 0)) /\ PlanOK(b, n)
<1> DEFINE j == SelectInSeq(graph[n].src, LAMBDA p : Reusable(ga, n, p))
<1>1. n \in Tensors /\ n \in Nat /\ ~IsLeaf(n) /\ k + batch \in Nat /\ k <= k + batch
  <2>1. n \in Tensors /\ ~IsLeaf(n) BY LeafsFirst
  <2>2. batch \in Nat BY DEF Planned
  <2> QED BY <2>1, <2>2, TensorFacts
<1>2. /\ j # 0 => j \in 1 .. Len(graph[n].src) /\ Reusable(ga, n, graph[n].src[j])
      /\ j = 0 => \A i \in 1 .. Len(graph[n].src) : ~Reusable(ga, n, graph[n].src[i]) BY <1>1, TakeoverFound
<1>3. AllocateNode(ga, n) =
        IF External(n) \/ IsView(n) \/ ga.hn[n].allocated THEN ga
        ELSE IF CanInplace(graph[n].op) /\ j # 0 THEN InPlace(ga, n, graph[n].src[j])
        ELSE FromBuffer(ga, n) BY DEF AllocateNode
<1> HIDE DEF j
<1>4. CASE IsView(n)
  <2>1. AllocateNode(ga, n) = ga BY <1>3, <1>4
  <2>2. Placed(ga, k + batch) BY <1>1, PlacedLater
  <2> QED BY <1>4, <2>1, <2>2, ViewPlan
<1>5. CASE ~IsView(n)
  <2>1. n \in Owning BY <1>1, <1>5 DEF Owning, External, IsLeaf
  <2>2. ~ga.hn[n].allocated
    <3>1. n > n - 1 BY <1>1
    <3> QED BY <2>1, <3>1 DEF Kept
  <2>3. CASE CanInplace(graph[n].op) /\ j # 0
    <3>1. PICK b : b = InPlace(ga, n, graph[n].src[j]) OBVIOUS
    <3>2. AllocateNode(ga, n) = b BY <1>3, <1>5, <2>1, <2>2, <2>3, <3>1 DEF Owning
    <3>3. Placed(b, k) /\ Counts(b, Left(n, 0)) /\ Kept(b, n, Left(n, 0)) /\ PlanOK(b, n)
      BY <1>2, <2>1, <2>3, <3>1, InPlacePlan
    <3>4. Placed(b, k + batch) BY <1>1, <3>3, PlacedLater
    <3> QED BY <3>2, <3>3, <3>4
  <2>4. CASE ~(CanInplace(graph[n].op) /\ j # 0)
    <3>1. AllocateNode(ga, n) = FromBuffer(ga, n) BY <1>3, <1>5, <2>1, <2>2, <2>4 DEF Owning
    <3>2. ~PairAt(n)
      <4>1. SUFFICES ASSUME PairAt(n) PROVE FALSE OBVIOUS
      <4>2. Reusable(ga, n, n - 1) BY <4>1, PairReusable
      <4>3. CanInplace(graph[n].op) BY <4>1 DEF PairAt, CanInplace
      <4>4. PICK i \in 1 .. Len(graph[n].src) : graph[n].src[i] = n - 1 BY <4>1 DEF PairAt, Contains
      <4> QED BY <1>2, <2>4, <4>2, <4>3, <4>4
    <3> QED BY <2>1, <3>1, <3>2, FromBufferPlan
  <2> QED BY <2>3, <2>4
<1> QED BY <1>4, <1>5

----
\* The plan: a node, and the leafs.

\* Sources are planned before what reads them, but for a cast that is one of
\* its own and is planned as such.
LEMMA SourcesPlanned ==
  ASSUME Planned, NEW n \in Nodes, NEW ga, NEW k \in Nat, Placed(ga, k), Kept(ga, n - 1, Left(n, 0))
  PROVE  AllocateNode(FoldLeft(AllocateNode, ga, graph[n].src), n) = AllocateNode(ga, n)
<1> DEFINE s == graph[n].src
<1>1. n \in Tensors /\ n \in Nat BY SlotFacts, TensorFacts
<1>2. Len(s) \in Nat /\ DOMAIN s = 1 .. Len(s) BY <1>1, TensorFacts
<1>0. PICK b : b = AllocateNode(ga, n) OBVIOUS
<1>a. ASSUME graph[n].op = "cast"
      PROVE  /\ b.hn[n].allocated /\ \A p \in Tensors : p # n => b.hn[p] = ga.hn[p]
             /\ AllocateNode(b, n) = b
  <2>1. n \in Owning
    <3>1. ~IsView(n) BY <1>1, <1>a, TensorFacts
    <3> QED BY <1>1, <1>a, <3>1 DEF Owning, External
  <2>2. ~ga.hn[n].allocated
    <3>1. n > n - 1 BY <1>1
    <3> QED BY <2>1, <3>1 DEF Kept
  <2>3. b = FromBuffer(ga, n) BY <1>0, <1>a, <2>1, <2>2 DEF AllocateNode, CanInplace, Owning
  <2>4. ga.hn \in [Tensors -> HnRec] /\ ga.hn[n] \in HnRec BY <1>1, HnFacts DEF Placed
  <2>5. PICK t \in HnRec : t = ga.hn[n] BY <2>4
  <2>6. PICK q : q = Alloc(ga.chunks, Size(n)) OBVIOUS
  <2>7. b.hn = [ga.hn EXCEPT ![n].allocated = TRUE, ![n].addr = q.addr] BY <2>3, <2>6 DEF FromBuffer
  <2>8. b.hn[n].allocated /\ \A p \in Tensors : p # n => b.hn[p] = ga.hn[p] BY <1>1, <2>4, <2>5, <2>7 DEF HnRec
  <2> QED BY <2>8 DEF AllocateNode
<1> DEFINE T == {a \in {ga, b} : a = ga \/ graph[n].op = "cast"}
<1>3. ASSUME NEW i \in 1 .. Len(s), NEW a \in T
      PROVE  AllocateNode(a, s[i]) \in T
  <2>1. PICK p \in Tensors : p = s[i] /\ (p < n \/ (p = n /\ graph[n].op = "cast")) BY <1>1, TensorFacts
  <2>2. CASE p < n
    <3>0. External(p) \/ IsView(p) \/ ga.hn[p].allocated
      <4>1. SUFFICES ASSUME p \in Owning, ~ga.hn[p].allocated PROVE FALSE BY <2>1 DEF Owning
      <4>2. p \in Nat BY <2>1, TensorFacts
      <4>3. p <= n - 1 BY <1>1, <2>2, <4>2
      <4>4. <<n, i>> \in Slots /\ Source(<<n, i>>) = p BY <2>1, SlotFacts
      <4>5. <<n, i>> \in Left(n, 0)
        <5>1. \A r \in Slots : r \in Left(n, 0) <=> r[1] >= n BY LeftFacts, 0 \in Nat
        <5>2. <<n, i>>[1] >= n BY <1>1
        <5> QED BY <4>4, <5>1, <5>2
      <4>6. <<n, i>> \in Reads(Left(n, 0), p) BY <4>4, <4>5 DEF Reads
      <4>7. <<n, i>>[1] <= n - 1 BY <4>1, <4>3, <4>6 DEF Kept
      <4> QED BY <1>1, <4>7
    <3>1. p # n BY <1>1, <2>2
    <3>2. a.hn[p] = ga.hn[p] BY <1>a, <3>1
    <3> QED BY <2>1, <3>0, <3>2 DEF AllocateNode
  <2>3. CASE p = n /\ graph[n].op = "cast" BY <1>0, <1>a, <2>1, <2>3
  <2> QED BY <2>1, <2>2, <2>3
<1>b. ga \in T /\ \A a \in T : AllocateNode(a, n) = b BY <1>0, <1>a
<1> HIDE DEF s, T
<1>4. PICK h : /\ h[0] = ga
               /\ \A i \in 1 .. Len(s) : h[i] = AllocateNode(h[i - 1], s[i])
               /\ FoldLeft(AllocateNode, ga, s) = h[Len(s)] BY <1>2, FoldAllocateNode, ZenonT(100)
<1> DEFINE Bad == {i \in Nat : i <= Len(s) /\ h[i] \notin T}
<1>5. Bad = {}
  <2>1. SUFFICES ASSUME Bad # {} PROVE FALSE OBVIOUS
  <2>2. PICK i \in Bad : \A m \in Bad : i <= m
    <3>1. Bad \subseteq Nat OBVIOUS
    <3> HIDE DEF Bad
    <3> QED BY <2>1, <3>1, LeastNumber
  <2>3. i \in Nat /\ i <= Len(s) /\ h[i] \notin T BY <2>2
  <2>4. i # 0 BY <1>4, <1>b, <2>3
  <2>5. i - 1 \in Nat /\ i - 1 <= Len(s) /\ i \in 1 .. Len(s) /\ ~(i <= i - 1) BY <1>2, <2>3, <2>4
  <2>6. i - 1 \notin Bad
    <3> HIDE DEF Bad
    <3> QED BY <2>2, <2>5
  <2>7. h[i - 1] \in T BY <2>5, <2>6
  <2>8. h[i] = AllocateNode(h[i - 1], s[i]) BY <1>4, <2>5
  <2> QED BY <1>3, <2>3, <2>5, <2>7, <2>8
<1>6. h[Len(s)] \in T
  <2>1. Len(s) \notin Bad /\ Len(s) <= Len(s) BY <1>2, <1>5
  <2> QED BY <1>2, <2>1
<1> QED BY <1>0, <1>4, <1>6, <1>b DEF s

\* One node is planned.
LEMMA PlanTensorPlan ==
  ASSUME Planned, NEW n \in Nodes, NEW ga, NEW k \in Nat, Placed(ga, k), k + batch <= Endless,
         Counts(ga, Left(n, 0)), Kept(ga, n - 1, Left(n, 0)), PlanOK(ga, n - 1)
  PROVE  LET b == PlanTensor(ga, n)
         IN  Placed(b, k + batch) /\ Counts(b, Left(n + 1, 0)) /\ Kept(b, n, Left(n + 1, 0)) /\ PlanOK(b, n)
<1> DEFINE s == graph[n].src
<1>1. n \in Tensors /\ n \in Nat /\ k + batch \in Nat
  <2>1. n \in Tensors /\ n \in Nat BY SlotFacts, TensorFacts
  <2>2. batch \in Nat BY DEF Planned
  <2> QED BY <2>1, <2>2
<1>2. Len(s) \in Nat /\ DOMAIN s = 1 .. Len(s) BY <1>1, TensorFacts
<1>3. PICK a : a = AllocateNode(ga, n) OBVIOUS
<1>4. Placed(a, k + batch) /\ Counts(a, Left(n, 0)) /\ Kept(a, n, Left(n, 0)) /\ PlanOK(a, n)
  BY <1>3, AllocateNodePlan
<1>5. PICK h : /\ h[0] = a
               /\ \A i \in 1 .. Len(s) : h[i] = UpdateParent(h[i - 1], s[i])
               /\ FoldLeft(UpdateParent, a, s) = h[Len(s)]
  <2> HIDE DEF s
  <2> QED BY <1>2, FoldUpdateParent, ZenonT(100)
<1> DEFINE Good(i) == Placed(h[i], k + batch) /\ Counts(h[i], Left(n, i)) /\ Kept(h[i], n, Left(n, i)) /\ PlanOK(h[i], n)
<1>6. ASSUME NEW i \in 1 .. Len(s), Good(i - 1)
      PROVE  Good(i)
  <2>1. i \in Nat /\ i - 1 \in Nat OBVIOUS
  <2>2. /\ <<n, i>> \in Left(n, i - 1) /\ Left(n, i) = Left(n, i - 1) \ {<<n, i>>}
        /\ Source(<<n, i>>) = s[i] BY <2>1, LeftFacts
  <2>3. Left(n, i - 1) \subseteq Slots BY DEF Left
  <2>4. PICK b : b = h[i - 1] OBVIOUS
  <2>5. PICK c : c = h[i] OBVIOUS
  <2>6. c = UpdateParent(b, Source(<<n, i>>)) BY <1>5, <2>2, <2>4, <2>5
  <2>7. Placed(b, k + batch) /\ Counts(b, Left(n, i - 1)) /\ Kept(b, n, Left(n, i - 1)) /\ PlanOK(b, n)
    BY <1>6, <2>4
  <2>8. Placed(c, k + batch) /\ Counts(c, Left(n, i)) /\ Kept(c, n, Left(n, i)) /\ SamePlan(b, c)
    BY <1>1, <2>2, <2>3, <2>6, <2>7, UpdateParentPlan
  <2>9. Len(b.chunks) \in Nat /\ \A d \in 1 .. Len(b.chunks) : b.chunks[d].max_size \in Nat
    BY <1>1, <2>7, ChunkSizes
  <2>10. \A t \in Tensors : b.hn[t].addr.offset \in Nat BY <2>7, HnFacts DEF Placed
  <2>11. PlanOK(c, n)
    <3>1. \A t \in Tensors : t <= n => c.hn[t].addr = b.hn[t].addr BY <2>8 DEF SamePlan
    <3>2. Len(c.chunks) \in Nat /\ Len(c.chunks) >= Len(b.chunks) BY <2>8, <2>9 DEF SamePlan
    <3>3. \A d \in 1 .. Len(b.chunks) : /\ c.chunks[d].max_size \in Nat /\ b.chunks[d].max_size \in Nat
                                        /\ c.chunks[d].max_size >= b.chunks[d].max_size
      BY <2>8, <2>9 DEF SamePlan
    <3> QED BY <1>1, <2>7, <2>9, <2>10, <3>1, <3>2, <3>3, PlanStays
  <2> QED BY <2>5, <2>8, <2>11
<1>7. Good(0) BY <1>4, <1>5
<1> DEFINE Bad == {i \in Nat : i <= Len(s) /\ ~Good(i)}
<1> HIDE DEF Good
<1>8. Bad = {}
  <2>1. SUFFICES ASSUME Bad # {} PROVE FALSE OBVIOUS
  <2>2. PICK i \in Bad : \A m \in Bad : i <= m
    <3>1. Bad \subseteq Nat OBVIOUS
    <3> HIDE DEF Bad
    <3> QED BY <2>1, <3>1, LeastNumber
  <2>3. i \in Nat /\ i <= Len(s) /\ ~Good(i) BY <2>2
  <2>4. i # 0 BY <1>7, <2>3
  <2> HIDE DEF s
  <2>5. i - 1 \in Nat /\ i - 1 <= Len(s) /\ i \in 1 .. Len(s) /\ ~(i <= i - 1) BY <1>2, <2>3, <2>4
  <2>6. i - 1 \notin Bad
    <3> HIDE DEF Bad
    <3> QED BY <2>2, <2>5
  <2>7. Good(i - 1) BY <2>5, <2>6
  <2> QED BY <1>6, <2>3, <2>5, <2>7
<1>9. Good(Len(s))
  <2> HIDE DEF s
  <2>1. Len(s) \notin Bad /\ Len(s) <= Len(s) BY <1>2, <1>8
  <2> QED BY <1>2, <2>1
<1>10. PICK b : b = PlanTensor(ga, n) OBVIOUS
<1>11. b = h[Len(s)] BY <1>3, <1>5, <1>10, SourcesPlanned DEF PlanTensor
<1>12. Left(n, Len(s)) = Left(n + 1, 0) BY LeftFacts, 0 \in Nat
<1>13. Placed(b, k + batch) /\ Counts(b, Left(n + 1, 0)) /\ Kept(b, n, Left(n + 1, 0)) /\ PlanOK(b, n)
  BY <1>9, <1>11, <1>12 DEF Good
<1> QED BY <1>10, <1>13

\* What is so when the leafs up to i have been placed.
LeafsPlaced(a, i) ==
  /\ Placed(a, i * batch) /\ PlanOK(a, i)
  /\ \A t \in Owning : a.hn[t].allocated <=> t <= i

\* No graph asks for more than the last chunk has.
LEMMA Budget ==
  ASSUME Planned, Len(graph) * batch < Endless, NEW i \in 1 .. Len(graph)
  PROVE  /\ (i - 1) * batch \in Nat /\ (i - 1) * batch + batch = i * batch
         /\ (i - 1) * batch + batch <= Endless
<1>1. batch \in Nat /\ i \in Nat /\ i - 1 \in Nat /\ Len(graph) \in Nat /\ i <= Len(graph) /\ Endless \in Nat
  BY ChunkAssumption DEF Planned
<1>2. PICK b \in Nat, l \in Nat : b = batch /\ l = Len(graph) BY <1>1
<1>3. (i - 1) * b \in Nat /\ (i - 1) * b + b = i * b BY <1>1
<1>4. i * b <= l * b
  <2>1. (l - i) \in Nat /\ (l - i) * b \in Nat BY <1>1, <1>2
  <2>2. l * b = i * b + (l - i) * b BY <1>1
  <2> QED BY <1>1, <2>1, <2>2
<1>5. i * b \in Nat /\ l * b \in Nat BY <1>1
<1> QED BY <1>1, <1>2, <1>3, <1>4, <1>5

\* A leaf is placed.
LEMMA LeafPlan ==
  ASSUME Planned, Len(graph) * batch < Endless, NEW i \in 1 .. FirstNode - 1, NEW a, LeafsPlaced(a, i - 1)
  PROVE  LeafsPlaced(AllocateNode(a, i), i)
<1>1. /\ i \in Tensors /\ i \in Nat /\ i - 1 \in Nat /\ i \in 1 .. Len(graph) /\ IsLeaf(i)
  <2>1. i \in 1 .. Len(graph) /\ i < FirstNode /\ i \in Nat /\ i - 1 \in Nat BY LeafsFirst
  <2>2. i \in Tensors BY <2>1 DEF Planned, Tensors
  <2> QED BY <2>1, <2>2, LeafsFirst
<1>2. (i - 1) * batch \in Nat /\ (i - 1) * batch + batch = i * batch /\ (i - 1) * batch + batch <= Endless
  BY <1>1, Budget
<1>3. PICK k \in Nat : k = (i - 1) * batch BY <1>2
<1>4. Placed(a, k) /\ PlanOK(a, i - 1) /\ \A t \in Owning : a.hn[t].allocated <=> t <= i - 1
  BY <1>3 DEF LeafsPlaced
<1>5. ~IsView(i)
  <2>1. IsView(i) => graph[i].op \in {"view", "store"} BY <1>1, TensorFacts
  <2> QED BY <1>1, <2>1 DEF IsLeaf
<1>6. \A t \in Owning : t \in Tensors /\ t \in Nat BY TensorFacts DEF Owning
<1>7. \A u \in Tensors : u <= i => ~PairAt(u)
  <2>1. SUFFICES ASSUME NEW u \in Tensors, u <= i, PairAt(u) PROVE FALSE OBVIOUS
  <2>2. IsLeaf(u)
    <3>1. u \in Nat /\ u < FirstNode BY <1>1, <2>1, TensorFacts, LeafsFirst
    <3> QED BY <3>1, LeafsFirst
  <2> QED BY <2>1, <2>2 DEF IsLeaf, PairAt
<1>8. k + batch \in Nat /\ batch \in Nat BY DEF Planned
<1>9. CASE i \notin Owning
  <2>1. AllocateNode(a, i) = a BY <1>1, <1>5, <1>9 DEF AllocateNode, Owning
  <2>2. Placed(a, k + batch) BY <1>4, <1>8, PlacedLater
  <2>3. \A t \in Owning : t <= i <=> t <= i - 1
    <3> TAKE t \in Owning
    <3>1. t \in Nat /\ t # i BY <1>6, <1>9
    <3> QED BY <1>1, <3>1
  <2>4. Within(a, i) BY <1>4, <2>3 DEF PlanOK, Within
  <2>5. Overlaps(a, i) BY <1>4, <2>3 DEF PlanOK, Overlaps
  <2>6. PairsOnTop(a, i) BY <1>7 DEF PairsOnTop
  <2> QED BY <1>2, <1>3, <1>4, <2>1, <2>2, <2>3, <2>4, <2>5, <2>6 DEF LeafsPlaced, PlanOK
<1>10. CASE i \in Owning
  <2>1. ~a.hn[i].allocated
    <3>1. ~(i <= i - 1) BY <1>1
    <3> QED BY <1>4, <1>10, <3>1
  <2>2. ~CanInplace(graph[i].op) BY <1>1 DEF IsLeaf, CanInplace
  <2>3. PICK b : b = FromBuffer(a, i) OBVIOUS
  <2>4. AllocateNode(a, i) = b BY <1>5, <1>10, <2>1, <2>2, <2>3 DEF AllocateNode, Owning
  <2> DEFINE c0 == b.hn[i].addr.chunk
  <2> DEFINE o0 == b.hn[i].addr.offset
  <2>5. /\ Placed(b, k + batch)
        /\ b.hn[i].allocated
        /\ \A u \in Tensors : u # i => b.hn[u] = a.hn[u]
        /\ \A u \in Tensors : \A x \in Nat : Owns(a, u, c0, x) => ~(o0 <= x /\ x < o0 + Size(i))
        /\ Len(b.chunks) >= Len(a.chunks)
        /\ \A d \in 1 .. Len(a.chunks) : b.chunks[d].max_size >= a.chunks[d].max_size
        /\ b.chunks[c0].max_size >= o0 + Size(i) BY <1>2, <1>3, <1>4, <1>10, <2>1, <2>3, FromBufferPlaced
  <2>6. \A t \in Owning : b.hn[t].allocated <=> t <= i
    <3> TAKE t \in Owning
    <3>1. CASE t = i BY <1>1, <2>5, <3>1
    <3>2. CASE t # i
      <4>1. t <= i <=> t <= i - 1 BY <1>1, <1>6, <3>2
      <4> QED BY <1>4, <1>6, <2>5, <3>2, <4>1
    <3> QED BY <3>1, <3>2
  <2>7. PlanOK(b, i - 1)
    <3>1. \A t \in Tensors : t <= i - 1 => b.hn[t].addr = a.hn[t].addr
      <4> TAKE t \in Tensors
      <4> HAVE t <= i - 1
      <4>1. t # i BY <1>1
      <4> QED BY <2>5, <4>1
    <3>2. Len(a.chunks) \in Nat /\ \A c \in 1 .. Len(a.chunks) : a.chunks[c].max_size \in Nat
      BY <1>4, ChunkSizes
    <3>3. \A t \in Tensors : a.hn[t].addr.offset \in Nat BY <1>4, HnFacts DEF Placed
    <3>4. Len(b.chunks) \in Nat /\ \A c \in 1 .. Len(b.chunks) : b.chunks[c].max_size \in Nat
      BY <1>8, <2>5, ChunkSizes
    <3>5. \A c \in 1 .. Len(a.chunks) : /\ b.chunks[c].max_size \in Nat /\ a.chunks[c].max_size \in Nat
                                        /\ b.chunks[c].max_size >= a.chunks[c].max_size
      <4> TAKE c \in 1 .. Len(a.chunks)
      <4>1. c \in 1 .. Len(b.chunks) BY <2>5, <3>2, <3>4
      <4> QED BY <2>5, <3>2, <3>4, <4>1
    <3> QED BY <1>1, <1>4, <2>5, <3>1, <3>2, <3>3, <3>4, <3>5, PlanStays
  <2>8. Within(b, i)
    <3> SUFFICES ASSUME NEW t \in Owning, t <= i
                 PROVE  /\ b.hn[t].addr.chunk \in 1 .. Len(b.chunks)
                        /\ b.hn[t].addr.offset + Size(t) <= b.chunks[b.hn[t].addr.chunk].max_size
      BY DEF Within
    <3>1. CASE t = i
      <4>1. c0 \in 1 .. Len(b.chunks) BY <1>1, <2>5 DEF Placed
      <4>2. c0 \in Nat /\ o0 \in Nat /\ Size(i) \in Nat
        <5>1. b \in Galloc BY <2>5 DEF Placed
        <5> QED BY <1>1, <5>1, HnFacts, GraphFacts
      <4>3. b.chunks[c0].max_size \in Nat BY <1>8, <2>5, <4>1, ChunkSizes
      <4>4. o0 + Size(i) <= b.chunks[c0].max_size BY <2>5, <4>2, <4>3
      <4> QED BY <3>1, <4>1, <4>4
    <3>2. CASE t # i
      <4>1. t <= i - 1 BY <1>1, <1>6, <3>2
      <4> QED BY <2>7, <4>1 DEF PlanOK, Within
    <3> QED BY <3>1, <3>2
  <2>9. Overlaps(b, i)
    <3> SUFFICES ASSUME NEW t \in Owning, NEW u \in Owning, t < u, u <= i,
                        NEW c \in Nat, NEW x \in Nat, Spans(b, t, c, x), Spans(b, u, c, x)
                 PROVE  /\ ~IsLeaf(u) /\ ~graph[t].output
                        /\ \A r \in Slots : Root(Source(r)) = t =>
                             r[1] < u \/ (r[1] = u /\ Source(r) = t /\ OnTop(b, t, u)) BY DEF Overlaps
    <3>0. t \in Tensors /\ t \in Nat /\ u \in Tensors /\ u \in Nat BY <1>6
    <3>1. CASE u # i
      <4>1. u <= i - 1 BY <1>1, <3>0, <3>1
      <4> QED BY <2>7, <4>1 DEF PlanOK, Overlaps
    <3>2. CASE u = i
      <4>1. t # i /\ t <= i - 1 BY <1>1, <3>0, <3>2
      <4>2. a.hn[t].allocated /\ b.hn[t].addr = a.hn[t].addr BY <1>4, <2>5, <3>0, <4>1
      <4>3. Owns(a, t, c, x) BY <4>2 DEF Owns, Spans
      <4>4. c = c0 /\ o0 <= x /\ x < o0 + Size(i) BY <3>2 DEF Spans
      <4> QED BY <2>5, <3>0, <4>3, <4>4
    <3> QED BY <3>1, <3>2
  <2>10. PairsOnTop(b, i) BY <1>7 DEF PairsOnTop
  <2> QED BY <1>2, <1>3, <2>4, <2>5, <2>6, <2>8, <2>9, <2>10 DEF LeafsPlaced, PlanOK
<1> QED BY <1>9, <1>10

\* The plan as it is begun.
LEMMA CountedPlan ==
  ASSUME Planned, Len(graph) * batch < Endless
  PROVE  LET f == FirstNode
         IN  /\ Placed(Counted, (f - 1) * batch) /\ PlanOK(Counted, f - 1)
             /\ Counts(Counted, Left(f, 0)) /\ Kept(Counted, f - 1, Left(f, 0))
<1> DEFINE clear == [chunks |-> <<>>,
                     hn |-> [t \in Tensors |-> [n_children |-> 0, n_views |-> 0,
                                                allocated |-> FALSE, addr |-> NoAddress]]]
<1> DEFINE m == FirstNode - 1
<1> DEFINE s == [t \in 1 .. FirstNode - 1 |-> t]
<1>1. m \in Nat /\ FirstNode \in Nat /\ FirstNode = m + 1 /\ Len(s) = m /\ DOMAIN s = 1 .. Len(s)
  <2>1. m \in Nat /\ FirstNode \in Nat /\ FirstNode = m + 1 BY LeafsFirst
  <2>2. Len(s) = m BY <2>1
  <2> QED BY <2>1, <2>2
<1>2. \A t \in Tensors : /\ clear.hn[t].n_children = 0 /\ clear.hn[t].n_views = 0
                         /\ clear.hn[t].allocated = FALSE /\ clear.hn[t].addr = NoAddress OBVIOUS
<1>3. \A t \in Owning : t \in Tensors /\ t \in Nat /\ t >= 1 BY TensorFacts DEF Owning
<1>4. LeafsPlaced(clear, 0)
  <2>1. clear.hn \in [Tensors -> HnRec] /\ clear.chunks = <<>> BY DEF HnRec, NoAddress
  <2>2. <<>> \in Seq(ChunkRec) /\ Len(<<>>) = 0 OBVIOUS
  <2>3. clear \in Galloc BY <2>1, <2>2 DEF Galloc
  <2>4. ChunksOK(clear.chunks) BY <2>1, <2>2, ChunkAssumption DEF ChunksOK
  <2>5. 0 # MaxChunks BY ChunkAssumption
  <2>6. \A t \in Tensors : ~clear.hn[t].allocated BY <1>2
  <2> HIDE DEF clear
  <2>7. Placed(clear, 0) BY <2>1, <2>2, <2>3, <2>4, <2>5, <2>6 DEF Placed, Owns
  <2>8. \A t \in Owning : ~(t <= 0) BY <1>3
  <2>9. Within(clear, 0) BY <2>8 DEF Within
  <2>10. Overlaps(clear, 0) BY <2>8 DEF Overlaps
  <2>11. PairsOnTop(clear, 0)
    <3>1. \A u \in Tensors : ~(u <= 0)
      <4> TAKE u \in Tensors
      <4>1. u \in Nat /\ u >= 1 BY TensorFacts
      <4> QED BY <4>1
    <3> QED BY <3>1 DEF PairsOnTop
  <2>12. 0 * batch = 0 BY DEF Planned
  <2> QED BY <1>3, <2>6, <2>7, <2>8, <2>9, <2>10, <2>11, <2>12 DEF LeafsPlaced, PlanOK
<1> HIDE DEF clear
<1>5. PICK h : /\ h[0] = clear
               /\ \A i \in 1 .. Len(s) : h[i] = AllocateNode(h[i - 1], s[i])
               /\ FoldLeft(AllocateNode, clear, s) = h[Len(s)]
  <2> HIDE DEF s
  <2> QED BY <1>1, FoldAllocateNode, ZenonT(30)
<1>6. \A i \in 1 .. m : h[i] = AllocateNode(h[i - 1], i)
  <2> TAKE i \in 1 .. m
  <2>1. s[i] = i /\ i \in 1 .. Len(s) BY <1>1
  <2> QED BY <1>5, <2>1
<1> DEFINE Bad == {i \in Nat : i <= m /\ ~LeafsPlaced(h[i], i)}
<1> HIDE DEF m
<1>8. Bad = {}
  <2>1. SUFFICES ASSUME Bad # {} PROVE FALSE OBVIOUS
  <2>2. PICK i \in Bad : \A x \in Bad : i <= x
    <3>1. Bad \subseteq Nat OBVIOUS
    <3> HIDE DEF Bad
    <3> QED BY <2>1, <3>1, LeastNumber
  <2>3. i \in Nat /\ i <= m /\ ~LeafsPlaced(h[i], i) BY <2>2
  <2>4. i # 0 BY <1>4, <1>5, <2>3
  <2>5. i - 1 \in Nat /\ i - 1 <= m /\ i \in 1 .. m /\ ~(i <= i - 1) BY <1>1, <2>3, <2>4
  <2>6. i - 1 \notin Bad
    <3> HIDE DEF Bad
    <3> QED BY <2>2, <2>5
  <2>7. LeafsPlaced(h[i - 1], i - 1) BY <2>5, <2>6
  <2>8. i \in 1 .. FirstNode - 1 BY <2>5 DEF m
  <2> QED BY <1>6, <2>3, <2>5, <2>7, <2>8, LeafPlan
<1>9. LeafsPlaced(h[m], m)
  <2>1. m \notin Bad /\ m <= m BY <1>1, <1>8
  <2> QED BY <1>1, <2>1
<1>10. PICK a : a = h[m] OBVIOUS
<1>11. Placed(a, m * batch) /\ PlanOK(a, m) /\ \A t \in Owning : a.hn[t].allocated <=> t <= m
  BY <1>9, <1>10 DEF LeafsPlaced
<1>12. FoldLeft(AllocateNode, clear, s) = a BY <1>1, <1>5, <1>10
<1>13. PICK b : b = Counted OBVIOUS
<1>14. b = [a EXCEPT !.hn = [t \in Tensors |-> [@[t] EXCEPT !.n_children = Children(t), !.n_views = Views(t)]]]
  BY <1>12, <1>13 DEF Counted, clear
<1>15. a \in Galloc /\ a.hn \in [Tensors -> HnRec] /\ a = [chunks |-> a.chunks, hn |-> a.hn] /\ a.chunks \in Seq(ChunkRec)
  BY <1>11 DEF Placed, Galloc
<1> DEFINE hn == [t \in Tensors |-> [a.hn[t] EXCEPT !.n_children = Children(t), !.n_views = Views(t)]]
<1>16. b = [chunks |-> a.chunks, hn |-> hn] BY <1>14, <1>15
<1>17. \A t \in Tensors : /\ hn[t] \in HnRec /\ hn[t].n_children = Children(t) /\ hn[t].n_views = Views(t)
                          /\ hn[t].allocated = a.hn[t].allocated /\ hn[t].addr = a.hn[t].addr
  <2> TAKE t \in Tensors
  <2>1. PICK r \in HnRec : r = a.hn[t] BY <1>15
  <2>2. Children(t) \in Int /\ Views(t) \in Int
    <3>1. IsFiniteSet(Slots) /\ IsFiniteSet(Nodes) BY SlotFacts
    <3>2. IsFiniteSet({x \in Slots : Source(x) = t}) /\ IsFiniteSet({n \in Nodes : graph[n].view_src = t})
      BY <3>1, FS_Subset
    <3>3. Children(t) \in Nat /\ Views(t) \in Nat BY <3>2, FS_CardinalityType DEF Children, Views
    <3> QED BY <3>3
  <2>3. PICK d \in Int, v \in Int : d = Children(t) /\ v = Views(t) BY <2>2
  <2>4. PICK q : q = [r EXCEPT !.n_children = d, !.n_views = v] OBVIOUS
  <2>5. q \in HnRec /\ q.n_children = d /\ q.n_views = v /\ q.allocated = r.allocated /\ q.addr = r.addr
    BY <2>4 DEF HnRec
  <2>6. hn[t] = q BY <2>1, <2>3, <2>4
  <2> QED BY <2>1, <2>3, <2>5, <2>6
<1>18. \A t \in Tensors : /\ b.hn[t] \in HnRec /\ b.hn[t].n_children = Children(t) /\ b.hn[t].n_views = Views(t)
                          /\ b.hn[t].allocated = a.hn[t].allocated /\ b.hn[t].addr = a.hn[t].addr
  BY <1>16, <1>17
<1>19. b \in Galloc /\ b.chunks = a.chunks
  <2>1. hn \in [Tensors -> HnRec] BY <1>17
  <2> HIDE DEF hn
  <2> QED BY <1>15, <1>16, <2>1 DEF Galloc
<1> HIDE DEF hn
<1>20. m * batch \in Nat BY <1>1 DEF Planned
<1>21. Placed(b, m * batch) BY <1>11, <1>18, <1>19, <1>20, CountsPlaced
<1>22. Len(a.chunks) \in Nat /\ \A c \in 1 .. Len(a.chunks) : a.chunks[c].max_size \in Nat
  BY <1>11, <1>20, ChunkSizes
<1>23. PlanOK(b, m)
  <2>1. \A t \in Tensors : a.hn[t].addr.offset \in Nat BY <1>15, HnFacts
  <2>2. \A t \in Tensors : t <= m => b.hn[t].addr = a.hn[t].addr BY <1>18
  <2>3. Len(b.chunks) \in Nat /\ Len(b.chunks) >= Len(a.chunks) BY <1>19, <1>22
  <2>4. \A c \in 1 .. Len(a.chunks) : /\ b.chunks[c].max_size \in Nat /\ a.chunks[c].max_size \in Nat
                                      /\ b.chunks[c].max_size >= a.chunks[c].max_size BY <1>19, <1>22
  <2> QED BY <1>1, <1>11, <1>22, <2>1, <2>2, <2>3, <2>4, PlanStays
<1>24. Left(FirstNode, 0) = Slots
  <2>1. ASSUME NEW r \in Slots PROVE r \in Left(FirstNode, 0)
    <3>1. r[1] \in Nodes /\ r[1] \in Nat /\ r[2] \in 1 .. Len(graph[r[1]].src) /\ r[2] \in Nat BY SlotFacts
    <3>2. r[1] >= FirstNode /\ r[2] > 0 BY <1>1, <3>1 DEF Nodes
    <3> QED BY <1>1, <3>1, <3>2 DEF Left
  <2> QED BY <2>1 DEF Left
<1>25. Counts(b, Slots)
  <2>1. \A t \in Tensors : Children(t) = Cardinality(Reads(Slots, t)) BY DEF Children, Reads
  <2>2. \A t \in Tensors : Views(t) = Cardinality(Pending(Slots, t))
    <3> TAKE t \in Tensors
    <3>1. Pending(Slots, t) = {n \in Nodes : graph[n].view_src = t} BY DEF Pending
    <3> QED BY <3>1 DEF Views
  <2> QED BY <1>18, <2>1, <2>2 DEF Counts
<1>26. Kept(b, m, Slots)
  <2> SUFFICES ASSUME NEW t \in Owning
               PROVE  /\ t > m => ~b.hn[t].allocated
                      /\ t <= m /\ ~b.hn[t].allocated =>
                           ~graph[t].output /\ Pending(Slots, t) = {} /\ \A r \in Reads(Slots, t) : r[1] <= m
    BY DEF Kept
  <2>1. b.hn[t].allocated = a.hn[t].allocated /\ (a.hn[t].allocated <=> t <= m) /\ t \in Nat
    BY <1>3, <1>11, <1>18
  <2>2. t > m => ~(t <= m) BY <1>1, <2>1
  <2> QED BY <2>1, <2>2
<1> QED BY <1>13, <1>21, <1>23, <1>24, <1>25, <1>26 DEF m

----
\* The allocator, step by step.

\* A plan with the nodes before n in it.
PlanSound(ga, n) ==
  /\ Placed(ga, (n - 1) * batch) /\ PlanOK(ga, n - 1)
  /\ Counts(ga, Left(n, 0)) /\ Kept(ga, n - 1, Left(n, 0))

PlanInv ==
  /\ graph \in Shapes /\ batch \in Batches /\ at \in Nat
  /\ at = 0 => galloc = NoGalloc
  /\ at # 0 => at >= FirstNode /\ at <= Len(graph) + 1 /\ PlanSound(galloc, at)

\* What is assumed of the graphs that are built.
LEMMA ShapeFacts ==
  ASSUME graph \in Shapes, batch \in Batches
  PROVE  Planned /\ Len(graph) * batch < Endless
<1>1. graph \in Seq(GraphTensor) /\ WellFormed(graph) /\ batch \in Nat \ {0} BY ShapeAssumption
<1>2. Len(graph) * batch < Endless BY EndlessAssumption
<1>3. batch \in Nat /\ batch > 0 BY <1>1
<1> QED BY <1>1, <1>2, <1>3 DEF Planned

\* What is said of a plan depends on the graph and the batch alone.
LEMMA SameGraph ==
  ASSUME graph' = graph, batch' = batch, NEW ga, NEW n
  PROVE  /\ FirstNode' = FirstNode
         /\ PlanSound(ga, n)' <=> PlanSound(ga, n)
<1>1. Tensors' = Tensors /\ \A t : IsLeaf(t)' = IsLeaf(t) /\ IsView(t)' = IsView(t) /\ External(t)' = External(t) /\ Size(t)' = Size(t)
  BY DEF Tensors, IsLeaf, IsView, External, Size
<1>2. Owning' = Owning /\ FirstNode' = FirstNode /\ (\A t : Root(t)' = Root(t)) /\ \A r : Source(r)' = Source(r)
  BY <1>1 DEF Owning, FirstNode, Root, Source
<1>3. Nodes' = Nodes /\ Slots' = Slots BY <1>2 DEF Nodes, Slots
<1>4. \A t, c, x : Owns(ga, t, c, x)' <=> Owns(ga, t, c, x) BY <1>1 DEF Owns
<1>5. \A c : Whole(ga, c)' <=> Whole(ga, c) BY <1>1, <1>4 DEF Whole
<1>6. Galloc' = Galloc BY <1>1 DEF Galloc
<1>7. \A k : Placed(ga, k)' <=> Placed(ga, k) BY <1>1, <1>2, <1>4, <1>5, <1>6 DEF Placed
<1>8. (\A t, c, x : Spans(ga, t, c, x)' <=> Spans(ga, t, c, x)) /\ (\A t, u : OnTop(ga, t, u)' <=> OnTop(ga, t, u))
  BY <1>1 DEF Spans, OnTop
<1>9. (\A t : Children(t)' = Children(t)) /\ \A L, t : Reads(L, t)' = Reads(L, t)
  BY <1>2, <1>3 DEF Children, Reads
<1>10. (\A L, t : Pending(L, t)' = Pending(L, t)) /\ \A m, j : Left(m, j)' = Left(m, j)
  BY <1>3, <1>9 DEF Pending, Left
<1>11. \A m : Within(ga, m)' <=> Within(ga, m) BY <1>1, <1>2 DEF Within
<1>12. \A m : Overlaps(ga, m)' <=> Overlaps(ga, m) BY <1>1, <1>2, <1>3, <1>8 DEF Overlaps
<1>13. \A u : PairAt(u)' <=> PairAt(u) BY <1>1, <1>9 DEF PairAt
<1>14. \A m : PairsOnTop(ga, m)' <=> PairsOnTop(ga, m) BY <1>1, <1>2, <1>8, <1>13 DEF PairsOnTop
<1>15. \A L : Counts(ga, L)' <=> Counts(ga, L) BY <1>1, <1>9, <1>10 DEF Counts
<1>16. \A m, L : Kept(ga, m, L)' <=> Kept(ga, m, L) BY <1>2, <1>9, <1>10 DEF Kept
<1> QED BY <1>2, <1>7, <1>10, <1>11, <1>12, <1>14, <1>15, <1>16 DEF PlanSound, PlanOK
\* A plan is begun: the leafs are placed and the readers counted.
LEMMA StartPlanKeeps ==
  ASSUME PlanInv, StartPlan
  PROVE  PlanInv'
<1>1. Planned /\ Len(graph) * batch < Endless BY ShapeFacts DEF PlanInv
<1>2. FirstNode \in Nat /\ FirstNode >= 1 /\ FirstNode <= Len(graph) + 1 BY <1>1, LeafsFirst
<1>3. PICK b : b = Counted OBVIOUS
<1>a. PICK n \in Nat : n = FirstNode BY <1>2
<1>4. PlanSound(b, n) BY <1>1, <1>3, <1>a, CountedPlan DEF PlanSound
<1>5. graph' = graph /\ batch' = batch /\ at' = n /\ galloc' = b BY <1>3, <1>a DEF StartPlan
<1>6. PlanSound(b, n)' /\ FirstNode' = FirstNode BY <1>4, <1>5, SameGraph
<1>7. PlanSound(galloc, at)' BY <1>5, <1>6
<1>8. graph' \in Shapes /\ batch' \in Batches BY <1>5 DEF PlanInv
<1> QED BY <1>2, <1>a, <1>5, <1>6, <1>7, <1>8 DEF PlanInv

\* A node is planned.
LEMMA PlanNodeKeeps ==
  ASSUME PlanInv, PlanNode
  PROVE  PlanInv'
<1>1. Planned /\ Len(graph) * batch < Endless /\ at \in Nodes BY ShapeFacts DEF PlanInv, PlanNode
<1>2. /\ FirstNode \in Nat /\ FirstNode >= 1 /\ at \in 1 .. Len(graph) /\ at \in Nat /\ at # 0
      /\ Len(graph) \in Nat /\ at >= FirstNode BY <1>1, LeafsFirst DEF Nodes
<1>3. PlanSound(galloc, at) BY <1>2 DEF PlanInv
<1>4. PICK k \in Nat : k = (at - 1) * batch /\ k + batch = at * batch /\ k + batch <= Endless
  BY <1>1, <1>2, Budget
<1>5. PICK b : b = PlanTensor(galloc, at) OBVIOUS
<1>6. Placed(b, k + batch) /\ Counts(b, Left(at + 1, 0)) /\ Kept(b, at, Left(at + 1, 0)) /\ PlanOK(b, at)
  BY <1>1, <1>3, <1>4, <1>5, PlanTensorPlan DEF PlanSound
<1>7. PICK n \in Nat : n = at + 1 /\ n - 1 = at BY <1>2
<1>8. PlanSound(b, n) BY <1>4, <1>6, <1>7 DEF PlanSound
<1>9. graph' = graph /\ batch' = batch /\ at' = n /\ galloc' = b BY <1>5, <1>7 DEF PlanNode
<1>10. PlanSound(b, n)' /\ FirstNode' = FirstNode BY <1>8, <1>9, SameGraph
<1>11. PlanSound(galloc, at)' BY <1>9, <1>10
<1>12. at' \in Nat /\ at' # 0 /\ at' >= FirstNode /\ at' <= Len(graph) + 1 BY <1>2, <1>7, <1>9
<1>13. graph' \in Shapes /\ batch' \in Batches BY <1>9 DEF PlanInv
<1> QED BY <1>9, <1>10, <1>11, <1>12, <1>13 DEF PlanInv

\* Every step of the allocator keeps the plan sound.
LEMMA PlanKeeps ==
  ASSUME PlanInv, AllocNext
  PROVE  PlanInv'
<1>1. CASE Reserve BY <1>1, StartPlanKeeps DEF Reserve
<1>2. CASE Replan BY <1>2, StartPlanKeeps DEF Replan
<1>3. CASE PlanNode BY <1>3, PlanNodeKeeps
<1>4. CASE KeepPlan BY <1>4 DEF KeepPlan, PlanInv
<1>5. CASE NewBatch BY <1>5 DEF NewBatch, PlanInv
<1>6. CASE AllocGraph BY <1>6 DEF AllocGraph, PlanInv
<1> QED BY <1>1, <1>2, <1>3, <1>4, <1>5, <1>6 DEF AllocNext

\* A step that is none of the allocator's keeps it, too.
LEMMA AllocUnchanged ==
  ASSUME PlanInv, UNCHANGED allocVars
  PROVE  PlanInv'
<1>1. graph' = graph /\ batch' = batch /\ at' = at /\ galloc' = galloc BY DEF allocVars
<1>2. PICK b, n : b = galloc /\ n = at OBVIOUS
<1>3. at # 0 => PlanSound(b, n) BY <1>2 DEF PlanInv
<1>4. at # 0 => PlanSound(b, n)' BY <1>1, <1>3, SameGraph
<1>5. FirstNode' = FirstNode BY <1>1, SameGraph
<1>6. at # 0 => PlanSound(galloc, at)' BY <1>1, <1>2, <1>4
<1> QED BY <1>1, <1>5, <1>6 DEF PlanInv

\* What two tensors hold at a time is apart.
LEMMA PlanInvApart ==
  ASSUME PlanInv
  PROVE  LiveApart
<1> SUFFICES ASSUME NEW c \in DOMAIN galloc.chunks, NEW t \in LiveIn(c), NEW u \in LiveIn(c), t # u
             PROVE  Apart(LiveBlock(t), LiveBlock(u))
  BY DEF LiveApart
<1>1. CASE at = 0 BY <1>1 DEF PlanInv, NoGalloc
<1>2. CASE at # 0
  <2>1. Planned /\ \E k : Placed(galloc, k) BY <1>2, ShapeFacts DEF PlanInv, PlanSound
  <2>2. PICK k : Placed(galloc, k) BY <2>1
  <2>3. galloc \in Galloc /\ DOMAIN galloc.hn = Tensors BY <2>2 DEF Placed, Galloc
  <2>4. /\ t \in Tensors /\ u \in Tensors /\ galloc.hn[t].allocated /\ galloc.hn[u].allocated
        /\ galloc.hn[t].addr.chunk = c /\ galloc.hn[u].addr.chunk = c BY <2>3 DEF LiveIn, Live
  <2>5. PICK a \in Nat, b \in Nat : a = galloc.hn[t].addr.offset /\ b = galloc.hn[u].addr.offset
    BY <2>3, <2>4, HnFacts
  <2>6. PICK x \in Nat, y \in Nat : x = Size(t) /\ y = Size(u) /\ x > 0 /\ y > 0 BY <2>1, <2>4, GraphFacts
  <2>7. Apart(LiveBlock(t), LiveBlock(u)) <=> a + x <= b \/ b + y <= a
    BY <2>5, <2>6 DEF Apart, BlockEnd, LiveBlock
  <2>8. c \in Nat BY <2>3, <2>4, HnFacts
  <2>9. ASSUME NEW z \in Nat, a <= z, z < a + x, b <= z, z < b + y PROVE FALSE
    <3>1. Owns(galloc, t, c, z) /\ Owns(galloc, u, c, z) BY <2>4, <2>5, <2>6, <2>9 DEF Owns
    <3> QED BY <2>2, <2>4, <2>8, <3>1 DEF Placed
  <2>10. CASE a <= b
    <3>1. ~(b < a + x) BY <2>6, <2>9, <2>10
    <3> QED BY <2>7, <3>1
  <2>11. CASE b <= a
    <3>1. ~(a < b + y) BY <2>6, <2>9, <2>11
    <3> QED BY <2>7, <3>1
  <2> QED BY <2>10, <2>11
<1> QED BY <1>1, <1>2

\* What nobody holds is free, once, and nothing else is.
LEMMA PlanInvExact ==
  ASSUME PlanInv
  PROVE  FreeListIsExact
<1> SUFFICES ASSUME NEW c \in DOMAIN galloc.chunks
             PROVE  LET free == galloc.chunks[c].free_blocks
                        rows == UNION ({BlockRows(free[i]) : i \in DOMAIN free}
                                       \cup {BlockRows(LiveBlock(t)) : t \in LiveIn(c)})
                    IN  /\ \A i \in 1 .. Len(free) - 1 : BlockEnd(free[i]) < free[i + 1].offset
                        /\ \A i \in DOMAIN free, t \in LiveIn(c) : Apart(free[i], LiveBlock(t))
                        /\ rows = 0 .. Cardinality(rows) - 1 /\ Cardinality(rows) >= MaxChunkSize
  BY DEF FreeListIsExact
<1>1. CASE at = 0 BY <1>1 DEF PlanInv, NoGalloc
<1>2. CASE at # 0
  <2> DEFINE free == galloc.chunks[c].free_blocks
  <2> DEFINE rows == UNION ({BlockRows(free[i]) : i \in DOMAIN free}
                            \cup {BlockRows(LiveBlock(t)) : t \in LiveIn(c)})
  <2>1. Planned /\ \E k : Placed(galloc, k) BY <1>2, ShapeFacts DEF PlanInv, PlanSound
  <2>2. PICK k : Placed(galloc, k) BY <2>1
  <2>3. galloc \in Galloc /\ DOMAIN galloc.hn = Tensors /\ ChunksOK(galloc.chunks) BY <2>2 DEF Placed, Galloc
  <2>4. c \in 1 .. Len(galloc.chunks) /\ c \in Nat BY <2>3 DEF ChunksOK
  <2>5. IsFreeList(free) /\ free \in Seq(Block) BY <2>3, <2>4 DEF ChunksOK, IsFreeList
  <2>6. /\ Len(free) \in Nat /\ DOMAIN free = 1 .. Len(free)
        /\ \A j \in 1 .. Len(free) : /\ free[j].offset \in Nat /\ free[j].size \in Nat
                                      /\ Lo(free)[j] = free[j].offset /\ Hi(free)[j] = BlockEnd(free[j])
    BY <2>5, LoHi DEF BlockEnd
  <2>7. \A t \in LiveIn(c) : /\ t \in Tensors /\ galloc.hn[t].allocated /\ galloc.hn[t].addr.chunk = c
                             /\ galloc.hn[t].addr.offset \in Nat /\ Size(t) \in Nat /\ Size(t) > 0
    <3> TAKE t \in LiveIn(c)
    <3>1. t \in Tensors /\ galloc.hn[t].allocated /\ galloc.hn[t].addr.chunk = c BY <2>3 DEF LiveIn, Live
    <3> QED BY <2>1, <2>3, <3>1, GraphFacts, HnFacts
  <2>8. \A i \in 1 .. Len(free), x \in Nat : x \in BlockRows(free[i]) <=> Lo(free)[i] <= x /\ x < Hi(free)[i]
    <3> TAKE i \in 1 .. Len(free), x \in Nat
    <3>1. PICK o \in Nat, z \in Nat : o = free[i].offset /\ z = free[i].size BY <2>6
    <3>2. x \in o .. (o + z) - 1 <=> o <= x /\ x < o + z OBVIOUS
    <3> QED BY <2>6, <3>1, <3>2 DEF BlockRows, BlockEnd
  <2>9. \A t \in LiveIn(c), x \in Nat : x \in BlockRows(LiveBlock(t)) <=> Owns(galloc, t, c, x)
    <3> TAKE t \in LiveIn(c), x \in Nat
    <3>1. PICK o \in Nat, z \in Nat : o = galloc.hn[t].addr.offset /\ z = Size(t) BY <2>7
    <3>2. x \in o .. (o + z) - 1 <=> o <= x /\ x < o + z OBVIOUS
    <3> QED BY <2>7, <3>1, <3>2 DEF BlockRows, BlockEnd, LiveBlock, Owns
  <2>10. \A i \in 1 .. Len(free) : BlockRows(free[i]) \subseteq Nat
    <3> TAKE i \in 1 .. Len(free)
    <3>1. PICK o \in Nat, z \in Nat : o = free[i].offset /\ z = free[i].size BY <2>6
    <3>2. o .. (o + z) - 1 \subseteq Nat OBVIOUS
    <3> QED BY <3>1, <3>2 DEF BlockRows, BlockEnd
  <2>11. \A t \in LiveIn(c) : BlockRows(LiveBlock(t)) \subseteq Nat
    <3> TAKE t \in LiveIn(c)
    <3>1. PICK o \in Nat, z \in Nat : o = galloc.hn[t].addr.offset /\ z = Size(t) BY <2>7
    <3>2. o .. (o + z) - 1 \subseteq Nat OBVIOUS
    <3> QED BY <3>1, <3>2 DEF BlockRows, BlockEnd, LiveBlock
  <2> HIDE DEF free
  <2>12. \A i \in 1 .. Len(free) - 1 : BlockEnd(free[i]) < free[i + 1].offset
    <3> TAKE i \in 1 .. Len(free) - 1
    <3>1. i \in 1 .. Len(free) /\ i + 1 \in 1 .. Len(free) /\ i < i + 1 BY <2>6
    <3>2. Hi(free)[i] < Lo(free)[i + 1] BY <2>5, <3>1 DEF IsFreeList, Gapped
    <3> QED BY <2>6, <3>1, <3>2
  <2>13. \A x \in Nat : FreeRow(galloc.chunks, c, x) <=> \E i \in 1 .. Len(free) : x \in BlockRows(free[i])
    BY <2>4, <2>8 DEF FreeRow, Has, Covers, free
  <2>14. \A i \in DOMAIN free, t \in LiveIn(c) : Apart(free[i], LiveBlock(t))
    <3> TAKE i \in DOMAIN free, t \in LiveIn(c)
    <3>0. i \in 1 .. Len(free) BY <2>6
    <3>1. PICK a \in Nat, x \in Nat : a = free[i].offset /\ x = free[i].size BY <2>6, <3>0
    <3>2. PICK b \in Nat, y \in Nat : b = galloc.hn[t].addr.offset /\ y = Size(t) /\ y > 0 BY <2>7
    <3>3. Apart(free[i], LiveBlock(t)) <=> a + x <= b \/ b + y <= a BY <3>1, <3>2 DEF Apart, BlockEnd, LiveBlock
    <3>4. x > 0
      <4>1. Lo(free)[i] < Hi(free)[i] BY <2>5, <3>0 DEF IsFreeList, Gapped
      <4>2. a < a + x BY <2>6, <3>0, <3>1, <4>1 DEF BlockEnd
      <4> QED BY <4>2
    <3>5. ASSUME NEW z \in Nat, a <= z, z < a + x, b <= z, z < b + y PROVE FALSE
      <4>1. z \in BlockRows(free[i]) BY <2>6, <2>8, <3>0, <3>1, <3>5 DEF BlockEnd
      <4>2. Owns(galloc, t, c, z) BY <2>7, <3>2, <3>5 DEF Owns
      <4>3. FreeRow(galloc.chunks, c, z) BY <2>13, <3>0, <4>1
      <4> QED BY <2>2, <2>4, <2>7, <4>2, <4>3 DEF Placed
    <3>6. CASE a <= b
      <4>1. ~(b < a + x) BY <3>2, <3>5, <3>6
      <4> QED BY <3>3, <4>1
    <3>7. CASE b <= a
      <4>1. ~(a < b + y) BY <3>4, <3>5, <3>7
      <4> QED BY <3>3, <4>1
    <3> QED BY <3>6, <3>7
  <2>15. PICK e \in Nat : /\ e >= MaxChunkSize
           /\ \A x \in Nat : x < e <=> FreeRow(galloc.chunks, c, x) \/ \E t \in Tensors : Owns(galloc, t, c, x)
    BY <2>2, <2>4 DEF Placed, Whole
  <2>16. \A t \in Tensors, x \in Nat : Owns(galloc, t, c, x) => t \in LiveIn(c) BY <2>3 DEF Owns, LiveIn, Live
  <2>17. \A x : x \in rows <=> x \in Nat /\ x < e
    <3> TAKE x
    <3>1. ASSUME x \in rows PROVE x \in Nat /\ x < e
      <4>1. CASE \E i \in DOMAIN free : x \in BlockRows(free[i]) BY <2>6, <2>10, <2>13, <2>15, <4>1
      <4>2. CASE \E t \in LiveIn(c) : x \in BlockRows(LiveBlock(t)) BY <2>7, <2>9, <2>11, <2>15, <4>2
      <4> QED BY <3>1, <4>1, <4>2
    <3>2. ASSUME x \in Nat, x < e PROVE x \in rows
      <4>1. CASE FreeRow(galloc.chunks, c, x)
        <5>1. PICK i \in DOMAIN free : x \in BlockRows(free[i]) BY <2>6, <2>13, <3>2, <4>1
        <5> QED BY <5>1
      <4>2. CASE \E t \in Tensors : Owns(galloc, t, c, x)
        <5>1. PICK t \in LiveIn(c) : x \in BlockRows(LiveBlock(t)) BY <2>9, <2>16, <3>2, <4>2
        <5> QED BY <5>1
      <4> QED BY <2>15, <3>2, <4>1, <4>2
    <3> QED BY <3>1, <3>2
  <2> HIDE DEF rows
  <2>18. rows = 0 .. e - 1
    <3>1. \A x : x \in 0 .. e - 1 <=> x \in Nat /\ x < e OBVIOUS
    <3> QED BY <2>17, <3>1
  <2>19. Cardinality(0 .. e - 1) = e
    <3>1. 0 \in Int /\ e - 1 \in Int BY <2>15
    <3>2. Cardinality(0 .. e - 1) = IF 0 > e - 1 THEN 0 ELSE (e - 1) - 0 + 1 BY <3>1, FS_Interval
    <3> QED BY <3>2
  <2>20. rows = 0 .. Cardinality(rows) - 1 /\ Cardinality(rows) >= MaxChunkSize BY <2>15, <2>18, <2>19
  <2> QED BY <2>12, <2>14, <2>20 DEF free, rows
<1> QED BY <1>1, <1>2
----
\* The pool computes a graph.

GraphOK == graph \in Seq(GraphTensor) /\ batch \in Nat

\* A graph keeps its form, its batch a size, and its plan is sound.
LEMMA PlanStaysSound == Spec => []PlanInv
<1>1. Init => PlanInv BY DEF Init, AllocInit, PlanInv
<1>2. PlanInv /\ [Next]_vars => PlanInv'
  <2> SUFFICES ASSUME PlanInv, [Next]_vars PROVE PlanInv' OBVIOUS
  <2>1. CASE AllocNext BY <2>1, PlanKeeps
  <2>2. CASE UNCHANGED allocVars BY <2>2, AllocUnchanged
  <2>3. AllocNext \/ UNCHANGED allocVars
    BY DEF Next, Plan, Start, Step, ComputeRows, ConvertShare, ComputeChunk, Coordinate, Stay, vars
  <2> QED BY <2>1, <2>2, <2>3
<1> QED BY <1>1, <1>2, PTL DEF Spec

\* The graph that is computed is one of those the allocator is for.
LEMMA GraphStaysOK == Spec => []GraphOK
<1>1. PlanInv => GraphOK BY ShapeAssumption DEF PlanInv, GraphOK
<1> QED BY <1>1, PlanStaysSound, PTL

\* What the threads see of a graph is a program.
LEMMA ProgramOfGraph ==
  ASSUME GraphOK
  PROVE  Program \in Seq(ProgramNode)
<1> DEFINE L == Len(graph) - FirstNode + 1
<1>1. FirstNode \in Nat
  <2> DEFINE leafs == {t \in Tensors : IsLeaf(t)}
  <2>1. Tensors = 1 .. Len(graph) /\ Len(graph) \in Nat BY DEF GraphOK, Tensors
  <2>2. IsFiniteSet(Tensors) BY <2>1, FS_Interval
  <2>3. IsFiniteSet(leafs) BY <2>2, FS_Subset
  <2>4. Cardinality(leafs) \in Nat BY <2>3, FS_CardinalityType
  <2> QED BY <2>4 DEF FirstNode
<1>2. L \in Int /\ Len(graph) \in Nat BY <1>1 DEF GraphOK
<1>3. ASSUME NEW n \in 1 .. L
      PROVE  Program[n] \in ProgramNode
  <2>1. ChunksOf(Tensor(n)) \in Nat BY ThreadAssumption DEF GraphOK, ChunksOf, Size
  <2> QED BY <2>1 DEF Program, ProgramNode
<1>4. Program = [n \in 1 .. L |-> Program[n]] BY DEF Program
<1> HIDE DEF L
<1>5. CASE L >= 0
  <2>1. L \in Nat BY <1>2, <1>5
  <2>2. Program \in [1 .. L -> ProgramNode] BY <1>3, <1>4
  <2> QED BY <2>1, <2>2
<1>6. CASE L < 0
  <2>1. 1 .. L = 1 .. 0 BY <1>2, <1>6
  <2>2. Program \in [1 .. 0 -> ProgramNode] BY <1>3, <1>4, <2>1
  <2> QED BY <2>2
<1> QED BY <1>2, <1>5, <1>6

\* Planning leaves the pool alone, a computation starts one for the graph's
\* program, and every step of a thread is a step of the pool's.
LEMMA StepsOfPool ==
  ASSUME GraphOK, [Next]_vars
  PROVE  [TPNext]_poolVars
<1>1. CASE Plan BY <1>1 DEF Plan
<1>2. CASE Start BY <1>2, ProgramOfGraph DEF Start, TPNext
<1>3. ASSUME NEW t \in Threads, Step(t) PROVE TPNext
  <2>1. CASE ComputeRows(t) BY <2>1 DEF ComputeRows, TPNext, Working
  <2>2. CASE ConvertShare(t) BY <2>2 DEF ConvertShare, TPNext, Working
  <2>3. CASE ComputeChunk(t) BY <2>3 DEF ComputeChunk, TPNext, Working
  <2>4. CASE Coordinate(t)
    <3>1. t # 0 => t \in Workers BY ThreadAssumption DEF Threads, Workers
    <3> QED BY <2>4, <3>1 DEF Coordinate, TPNext, Working
  <2> QED BY <1>3, <2>1, <2>2, <2>3, <2>4 DEF Step
<1>4. CASE UNCHANGED vars BY <1>4 DEF vars
<1> QED BY <1>1, <1>2, <1>3, <1>4 DEF Next, Stay

\* Computing a graph is a behaviour of the thread pool.
THEOREM ComputeImplementsPool == Spec => TPSpec
<1>1. Init => TPInit BY DEF Init
<1>2. GraphOK /\ [Next]_vars => [TPNext]_poolVars BY StepsOfPool
<1> QED BY <1>1, <1>2, GraphStaysOK, PTL DEF Spec, TPSpec

\* For any graphs, any batches and any number of threads: ggml_barrier
\* keeps all threads of a computation on the same node.
THEOREM GraphInStep == Spec => []NodesInStep BY ComputeImplementsPool, NeverOutOfStep, PTL

\* And no thread computes a chunk that was computed, or is another's.
THEOREM GraphChunksOnce == Spec => []ChunksOnce BY ComputeImplementsPool, NoChunkTwice, PTL

\* For any graphs, batches and buffers: ggml_gallocr_alloc_graph_impl never
\* lets two tensors that are still needed share a row.
THEOREM TensorsApart == Spec => []LiveApart
<1>1. PlanInv => LiveApart BY PlanInvApart
<1> QED BY <1>1, PlanStaysSound, PTL

\* And its free list is exactly what they leave: sorted, in as few blocks
\* as there can be, with no row lost or had twice.
THEOREM FreeListExact == Spec => []FreeListIsExact
<1>1. PlanInv => FreeListIsExact BY PlanInvExact
<1> QED BY <1>1, PlanStaysSound, PTL
----
\* The pool: all of its chunks.

\* When thread 0 has reset the chunks, none has been given out yet.
ResetExactly == \A t \in Threads : t = 0 /\ Stage(t)[1] = "chunk" => current_chunk = NThreads

\* A chunk of the product at node n is computed, or held, or yet to be
\* given out.
Accounts(n) ==
  \A c \in 0 .. cgraph[n].chunks - 1 :
    \/ <<n, c>> \in taken
    \/ c >= current_chunk
    \/ \E u \in Threads : Holding(u) /\ Stage(u) = <<"product", n>> /\ chunk[u] = c

Accounted == \A t \in Threads : Stage(t)[1] = "product" => Accounts(Stage(t)[2])

AccountInv == ResetExactly /\ Accounted

\* A node has a number of chunks.
LEMMA CountsChunks ==
  ASSUME cgraph \in Seq(ProgramNode), NEW n \in DOMAIN cgraph
  PROVE  cgraph[n].chunks \in Nat
<1>1. cgraph[n] \in ProgramNode OBVIOUS
<1> QED BY <1>1 DEF ProgramNode

\* Who holds a chunk of the product goes on to hold it, unless it is none.
KeepsHold(t) ==
  Holding(t) /\ Stage(t)[1] = "product" =>
    (Holding(t)' /\ Stage(t)' = Stage(t)) \/ chunk[t] >= cgraph[Stage(t)[2]].chunks

\* Every chunk stays accounted for in a quiet step.
LEMMA QuietAccounts ==
  ASSUME IInv, ChunkInv, AccountInv, NEW t \in Threads, Quiet(t), KeepsHold(t)
  PROVE  AccountInv'
<1> USE DEF Quiet
<1>1. cgraph \in Seq(ProgramNode) /\ cgraph' = cgraph /\ chunk' = chunk /\ current_chunk' = current_chunk /\ taken' = taken
      /\ OnlyMoves(t) /\ chunk \in [Threads -> Nat] BY DEF IInv, TPTypeOK, OnlyMoves, ChunkInv, ChunkTypes
<1>2. \A u \in Threads : u # t => (Holding(u)' <=> Holding(u)) /\ Stage(u)' = Stage(u) BY <1>1, OthersHold
<1>3. \A u \in Threads : Stage(u)'[1] \in {"product", "chunk"} => Stage(u)' = Stage(u)
  <2>1. IsStage(Stage(t)) BY StageType
  <2>2. Exit(cgraph, Stage(t))[1] # "product" BY <1>1, <2>1, ExitOnward
  <2>3. Exit(cgraph, Stage(t))[1] = "chunk" => Stage(t)[1] \in {"matmul", "chunk"} BY <1>1, <2>1, ExitOnward
  <2>4. Stage(t)[1] = "chunk" => Exit(cgraph, Stage(t)) = Stage(t) BY <1>1, <2>1, ExitOnward DEF WorkStages
  <2> QED BY <1>2, <2>2, <2>3, <2>4
<1>4. ResetExactly'
  <2> SUFFICES ASSUME NEW u \in Threads, u = 0, Stage(u)'[1] = "chunk" PROVE current_chunk' = NThreads
    BY DEF ResetExactly
  <2>1. Stage(u)' = Stage(u) BY <1>3
  <2> QED BY <1>1, <2>1 DEF AccountInv, ResetExactly
<1>5. ASSUME NEW u \in Threads, Stage(u)'[1] = "product" PROVE Accounts(Stage(u)[2])'
  <2>1. Stage(u)' = Stage(u) BY <1>3, <1>5
  <2>2. PICK n : n = Stage(u)[2] OBVIOUS
  <2>3. Accounts(n) BY <1>5, <2>1, <2>2 DEF AccountInv, Accounted
  <2>4. Accounts(n)'
    <3> SUFFICES ASSUME NEW c \in 0 .. cgraph[n].chunks - 1, <<n, c>> \notin taken, ~(c >= current_chunk)
                 PROVE  \E v \in Threads : Holding(v)' /\ Stage(v)' = <<"product", n>> /\ chunk'[v] = c
      BY <1>1 DEF Accounts
    <3>1. PICK v \in Threads : Holding(v) /\ Stage(v) = <<"product", n>> /\ chunk[v] = c BY <2>3 DEF Accounts
    <3>2. cgraph[n].chunks \in Nat
      <4>1. IsStage(Stage(v)) BY StageType
      <4>2. n \in DOMAIN cgraph BY <3>1, <4>1 DEF IsStage
      <4> QED BY <1>1, <4>2, CountsChunks
    <3>3. ~(chunk[v] >= cgraph[n].chunks) BY <1>1, <3>1, <3>2
    <3>4. Holding(v)' /\ Stage(v)' = Stage(v) BY <1>2, <3>1, <3>3 DEF KeepsHold
    <3> QED BY <1>1, <3>1, <3>4
  <2> QED BY <2>1, <2>2, <2>4
<1> QED BY <1>4, <1>5 DEF AccountInv, Accounted

\* Waiting, working through rows, the barrier and the end keep hold.
LEMMA WaitingHolds ==
  ASSUME IInv, NEW w \in Workers, Waiting(w)
  PROVE  KeepsHold(w)
<1>1. pc[w] \in WaitPcs BY DEF Waiting, CheckStop, PollFinds, PollEnds, Lock, CheckForWork, WaitPcs
<1> QED BY <1>1 DEF KeepsHold, Holding, InBarrier, WaitPcs

\* Who leaves its work holds no chunk that is still to be computed.
LEMMA LeavingHolds ==
  ASSUME IInv, NEW t \in Threads, Rows(t) \/ NoMoreChunks(t)
  PROVE  KeepsHold(t)
<1>1. CASE Rows(t) BY <1>1 DEF Rows, KeepsHold, Holding, InBarrier
<1>2. CASE NoMoreChunks(t)
  <2>1. Stage(t)[2] = node_n[t] BY <1>2, InProduct DEF NoMoreChunks
  <2> QED BY <1>2, <2>1 DEF NoMoreChunks, Chunks, KeepsHold
<1> QED BY <1>1, <1>2

\* Who goes into the barrier keeps the chunk it holds.
LEMMA EnteringHolds ==
  ASSUME IInv, NEW t \in Threads, ReadPassed(t) \/ AddSelf(t) \/ ResetBarrier(t)
  PROVE  KeepsHold(t)
<1> USE DEF IInv, TPTypeOK, PlacesOK, ReadPassed, AddSelf, ResetBarrier, Go, walkVars, chunkVars
<1>1. Stage(t)' = Stage(t) BY EnteringStays
<1>2. Holding(t) => Holding(t)' BY DEF Holding, InBarrier
<1> QED BY <1>1, <1>2 DEF KeepsHold

\* Who comes out of the barrier keeps it, too.
LEMMA DepartingHolds ==
  ASSUME IInv, NEW t \in Threads, InBarrier(t), Depart(t), Holding(t)
  PROVE  Holding(t)' /\ node_n'[t] = node_n[t]
<1>1. after[t] = "chunk" BY DEF Holding, InBarrier
<1> QED BY <1>1 DEF Depart, Go, Holding, IInv, TPTypeOK, PlacesOK

\* So does one that sees it was let go.
LEMMA SpinEndsHolds ==
  ASSUME IInv, NEW t \in Threads, SpinEnds(t)
  PROVE  KeepsHold(t)
<1>1. Stage(t)' = Stage(t) BY SpinEndsIsLocal
<1>2. Holding(t) => Holding(t)' BY DepartingHolds DEF SpinEnds, InBarrier
<1> QED BY <1>1, <1>2 DEF KeepsHold

\* Thread 0 holds no chunk when it frees the pool.
LEMMA FreeHolds ==
  ASSUME IInv, FreePool \/ Joined
  PROVE  KeepsHold(0)
BY DEF FreePool, Joined, KeepsHold, Holding, InBarrier

\* Converting: nobody is in the product yet.
LEMMA ConvertAccounts ==
  ASSUME IInv, ChunkInv, AccountInv, NEW t \in Threads, Convert(t)
  PROVE  AccountInv'
<1> DEFINE n == node_n[t]
<1>1. Stage(t) = <<"matmul", n>> /\ n \in Nat BY DEF Convert, Stage, AtWork, Work, IInv, TPTypeOK, PlacesOK
<1>2. cgraph \in Seq(ProgramNode) /\ IsStage(Stage(t)) /\ Stage(t) \in WorkStages
  BY <1>1, StageType, SMTT(30) DEF IInv, TPTypeOK, WorkStages
<1>3. Exit(cgraph, Stage(t)) = <<"chunk", n>> BY <1>1, <1>2, ExitOnward
<1>4. \A u \in Threads : Stage(u) \in {<<"matmul", n>>, <<"chunk", n>>} BY <1>1, <1>2, <1>3, Companions
<1>5. Local(t) BY WorkingIsLocal
<1>6. \A u \in Threads \ {t} : Stage(u)' = Stage(u) BY <1>5, OthersHold DEF Local
<1>7. \A u \in Threads : Stage(u)'[1] # "product" BY <1>1, <1>3, <1>4, <1>5, <1>6 DEF Local
<1>8. ResetExactly'
  <2> SUFFICES ASSUME NEW u \in Threads, u = 0, Stage(u)'[1] = "chunk" PROVE current_chunk' = NThreads
    BY DEF ResetExactly
  <2>1. CASE t = 0 BY <2>1 DEF Convert
  <2>2. CASE t # 0
    <3>1. Stage(u) = Stage(u)' /\ current_chunk' = current_chunk BY <1>6, <2>2 DEF Convert
    <3> QED BY <3>1 DEF AccountInv, ResetExactly
  <2> QED BY <2>1, <2>2
<1> QED BY <1>7, <1>8 DEF AccountInv, Accounted

\* A chunk that was held is computed.
LEMMA ChunkAccounts ==
  ASSUME IInv, ChunkInv, AccountInv, NEW t \in Threads, Chunk(t)
  PROVE  AccountInv'
<1>n. PICK n : n = node_n[t] OBVIOUS
<1>1. pc[t] = "chunk" /\ Holding(t) BY DEF Chunk, Holding
<1>2. /\ Stage(t) = <<"product", n>> /\ n \in Nat /\ IsStage(Stage(t))
      /\ \A u \in Threads :
           \/ Stage(u) = <<"product", n>>
           \/ Stage(u) = <<"done", 0>>
           \/ \E k \in Nat : Stage(u) = <<"next", k>> /\ n <= k
      /\ \A u \in Threads : Holding(u) => Stage(u) = <<"product", n>> /\ node_n[u] = n
  BY <1>1, <1>n, InProduct
<1>4. Local(t) BY WorkingIsLocal
<1>5. /\ UNCHANGED <<chunk, current_chunk, cgraph>>
      /\ taken' = taken \cup {<<n, chunk[t]>>} BY <1>n DEF Chunk, walkVars
<1>6. \A u \in Threads \ {t} : (Holding(u)' <=> Holding(u)) /\ Stage(u)' = Stage(u)
  BY <1>4, OthersHold DEF Local
<1>7. cgraph \in Seq(ProgramNode) BY DEF IInv, TPTypeOK
<1>8. Exit(cgraph, Stage(t))[1] \notin {"product", "chunk"} BY <1>2, <1>7, ExitOnward
<1>9. \A u \in Threads : Stage(u)'[1] # "chunk" /\ (Stage(u)'[1] = "product" => Stage(u)' = <<"product", n>>)
  BY <1>2, <1>4, <1>6, <1>8 DEF Local
<1>10. Accounts(n)'
  <2> SUFFICES ASSUME NEW c \in 0 .. cgraph[n].chunks - 1, <<n, c>> \notin taken', ~(c >= current_chunk)
               PROVE  \E v \in Threads : Holding(v)' /\ Stage(v)' = <<"product", n>> /\ chunk'[v] = c
    BY <1>5 DEF Accounts
  <2>1. <<n, c>> \notin taken /\ c # chunk[t] BY <1>5
  <2>2. Accounts(n) BY <1>2 DEF AccountInv, Accounted
  <2>3. PICK v \in Threads : Holding(v) /\ Stage(v) = <<"product", n>> /\ chunk[v] = c
    BY <2>1, <2>2 DEF Accounts
  <2> QED BY <1>5, <1>6, <2>1, <2>3
<1> QED BY <1>9, <1>10 DEF AccountInv, Accounted, ResetExactly

\* The next chunk is given out.
LEMMA NextChunkAccounts ==
  ASSUME IInv, ChunkInv, AccountInv, NEW t \in Threads, NextChunk(t)
  PROVE  AccountInv'
<1>n. PICK n : n = node_n[t] OBVIOUS
<1>1. /\ Stage(t) = <<"product", n>> /\ n \in Nat /\ IsStage(Stage(t))
      /\ \A u \in Threads :
           \/ Stage(u) = <<"product", n>>
           \/ Stage(u) = <<"done", 0>>
           \/ \E k \in Nat : Stage(u) = <<"next", k>> /\ n <= k BY <1>n, InProduct DEF NextChunk
<1>2. Local(t) BY WorkingIsLocal
<1>3. /\ chunk' = [chunk EXCEPT ![t] = current_chunk]
      /\ current_chunk' = current_chunk + 1
      /\ UNCHANGED <<cgraph, taken>>
      /\ current_chunk \in Nat
      /\ chunk \in [Threads -> Nat] BY DEF NextChunk, walkVars, ChunkInv, ChunkTypes
<1>4. Stage(t)' = Stage(t) /\ ~Holding(t) /\ Holding(t)'
  BY DEF NextChunk, Go, Stage, AtWork, Holding, InBarrier, IInv, TPTypeOK, PlacesOK
<1>5. \A u \in Threads \ {t} : (Holding(u)' <=> Holding(u)) /\ Stage(u)' = Stage(u)
  BY <1>2, OthersHold DEF Local
<1>6. \A u \in Threads : Stage(u)'[1] # "chunk" /\ (Stage(u)'[1] = "product" => Stage(u)' = <<"product", n>>)
  BY <1>1, <1>4, <1>5
<1>7. cgraph[n].chunks \in Nat
  <2>1. n \in DOMAIN cgraph BY <1>1 DEF IsStage
  <2> QED BY <2>1, CountsChunks DEF IInv, TPTypeOK
<1>8. Accounts(n)'
  <2> SUFFICES ASSUME NEW c \in 0 .. cgraph[n].chunks - 1, <<n, c>> \notin taken, ~(c >= current_chunk + 1)
               PROVE  \E v \in Threads : Holding(v)' /\ Stage(v)' = <<"product", n>> /\ chunk'[v] = c
    BY <1>3 DEF Accounts
  <2>1. CASE c = current_chunk BY <1>1, <1>3, <1>4, <2>1
  <2>2. CASE c # current_chunk
    <3>1. ~(c >= current_chunk) BY <1>3, <1>7, <2>2
    <3>2. Accounts(n) BY <1>1 DEF AccountInv, Accounted
    <3>3. PICK v \in Threads : Holding(v) /\ Stage(v) = <<"product", n>> /\ chunk[v] = c
      BY <3>1, <3>2 DEF Accounts
    <3> QED BY <1>3, <1>4, <1>5, <3>3
  <2> QED BY <2>1, <2>2
<1> QED BY <1>6, <1>8 DEF AccountInv, Accounted, ResetExactly

\* Behind the barrier before the chunks each thread holds that of its
\* number, and the others are yet to be given out.
LEMMA PassAccounts ==
  ASSUME IInv, ChunkInv, AccountInv, NEW t \in Threads, PassBarrier(t)
  PROVE  AccountInv'
<1>n. PICK n : n = node_n[t] OBVIOUS
<1>1. /\ UNCHANGED <<current_chunk, chunk, taken, cgraph>>
      /\ InBarrier(t) /\ Depart(t) /\ n \in Nat
      /\ cgraph \in Seq(ProgramNode)
      /\ 0 \in Threads /\ Threads \subseteq Nat
      /\ after[t] \in {"next", "chunk", "done"}
  BY <1>n, ThreadAssumption DEF PassBarrier, walkVars, chunkVars, InBarrier, Threads,
     IInv, TPTypeOK, PlacesOK
<1>2. \A u \in Threads :
        /\ u # t => pc[u] = "spin"
        /\ Stage(u) = Here(t) /\ Here(u) = Here(t)
        /\ Stage(u)' = Beyond(cgraph, Here(t)) BY PassTogether
<1>3. CASE after[t] = "chunk"
  <2>1. Here(t) = <<"chunk", n>> /\ Beyond(cgraph, Here(t)) = <<"product", n>>
    BY <1>3, <1>n DEF Here, Gate, Beyond, Work
  <2>2. current_chunk = NThreads BY <1>1, <1>2, <2>1 DEF AccountInv, ResetExactly
  <2>3. \A u \in Threads : Holding(u) /\ InBarrier(u) BY <1>1, <1>2, <2>1 DEF Here, Gate, Holding, InBarrier
  <2>4. \A u \in Threads : chunk[u] = u BY <1>2, <2>1, <2>3 DEF ChunkInv, ChunksGiven
  <2>5. \A u \in Threads : Holding(u)'
    <3> SUFFICES ASSUME NEW u \in Threads PROVE Holding(u)' OBVIOUS
    <3>1. CASE u = t BY <1>1, <2>3, <3>1, DepartingHolds
    <3>2. CASE u # t
      <4>1. pc'[u] = pc[u] /\ node_n'[u] = node_n[u] /\ after'[u] = after[u]
        BY <1>1, <3>2, DepartLands DEF PassBarrier, walkVars
      <4> QED BY <2>3, <4>1 DEF Holding, InBarrier
    <3> QED BY <3>1, <3>2
  <2>6. Accounts(n)'
    <3> SUFFICES ASSUME NEW c \in 0 .. cgraph[n].chunks - 1, ~(c >= current_chunk)
                 PROVE  \E v \in Threads : Holding(v)' /\ Stage(v)' = <<"product", n>> /\ chunk'[v] = c
      BY <1>1 DEF Accounts
    <3>1. c \in Threads BY <2>2, ThreadAssumption DEF Threads
    <3> QED BY <1>1, <1>2, <2>1, <2>4, <2>5, <3>1
  <2> QED BY <1>2, <2>1, <2>6 DEF AccountInv, Accounted, ResetExactly
<1>4. CASE after[t] = "done"
  <2>1. Beyond(cgraph, Here(t)) = <<"end", 0>> BY <1>4 DEF Here, Gate, Beyond, End
  <2> QED BY <1>2, <2>1 DEF AccountInv, Accounted, ResetExactly
<1>5. CASE after[t] = "next"
  <2>1. Beyond(cgraph, Here(t)) = From(cgraph, n + 1) BY <1>5, <1>n DEF Here, Gate, Beyond
  <2>2. n + 1 \in Nat /\ n + 1 > 0 BY <1>1
  <2>3. From(cgraph, n + 1)[1] \notin {"product", "chunk"} BY <1>1, <2>2, FromType
  <2> QED BY <1>2, <2>1, <2>3 DEF AccountInv, Accounted, ResetExactly
<1> QED BY <1>1, <1>3, <1>4, <1>5

\* A pool that is made has nobody in the graph.
LEMMA NewStages ==
  ASSUME IInv, NEW p, NewPool(p)
  PROVE  n_graph' = 0 /\ \A t \in Threads : Stage(t)' = End
<1>1. \A t \in Threads : pc'[t] \in {"kickoff", "idle"} BY DEF NewPool
<1>2. n_graph = 0 BY DEF NewPool, IInv, Begun
<1>3. n_graph' = 0 /\ \A w \in Workers : last_graph'[w] = 0 BY <1>2, NobodyInGraph DEF NewPool
<1>4. \A t \in Threads : Stage(t)' = End BY <1>1, <1>3 DEF Stage, AtWork, LetGo, InBarrier, NewGraph
<1> QED BY <1>3, <1>4

\* Nobody is in a product when the pool is made or kicked off.
LEMMA NothingAccounts ==
  ASSUME IInv, (\E p \in Seq(ProgramNode) : NewPool(p)) \/ Kickoff
  PROVE  AccountInv'
<1>1. \A t \in Threads : Stage(t)'[1] \notin {"product", "chunk"}
  <2>1. CASE Kickoff
    <3>1. \A t \in Threads : Stage(t)' = From(cgraph, 1) BY <2>1, KickoffTogether
    <3>2. From(cgraph, 1)[1] \notin {"product", "chunk"}
      <4>1. cgraph \in Seq(ProgramNode) BY DEF IInv, TPTypeOK
      <4> QED BY <4>1, FromType
    <3> QED BY <3>1, <3>2
  <2>2. ASSUME NEW p \in Seq(ProgramNode), NewPool(p)
        PROVE  \A t \in Threads : Stage(t)'[1] \notin {"product", "chunk"}
    <3>1. \A t \in Threads : Stage(t)' = End BY <2>2, NewStages
    <3> QED BY <3>1 DEF End
  <2> QED BY <2>1, <2>2
<1> QED BY <1>1 DEF AccountInv, Accounted, ResetExactly

\* Every step keeps account.
LEMMA NextAccounts ==
  ASSUME IInv, ChunkInv, AccountInv, [TPNext]_poolVars
  PROVE  AccountInv'
<1>1. CASE (\E p \in Seq(ProgramNode) : NewPool(p)) \/ Kickoff BY <1>1, NothingAccounts
<1>2. CASE FreePool \/ Joined
  <2>1. 0 \in Threads BY ThreadAssumption DEF Threads
  <2> QED BY <1>2, <2>1, FreeIsQuiet, FreeHolds, QuietAccounts
<1>3. ASSUME NEW w \in Workers, Waiting(w) PROVE AccountInv'
  <2>1. w \in Threads BY DEF Threads, Workers
  <2> QED BY <1>3, <2>1, WaitingIsQuiet, WaitingHolds, QuietAccounts
<1>4. ASSUME NEW t \in Threads, Working(t) PROVE AccountInv'
  <2>1. CASE Rows(t) \/ NoMoreChunks(t) BY <2>1, LeavingIsQuiet, LeavingHolds, QuietAccounts
  <2>2. CASE Convert(t) BY <2>2, ConvertAccounts
  <2>3. CASE Chunk(t) BY <2>3, ChunkAccounts
  <2>4. CASE NextChunk(t) BY <2>4, NextChunkAccounts
  <2>5. CASE ReadPassed(t) \/ AddSelf(t) \/ ResetBarrier(t)
    BY <2>5, EnteringIsQuiet, EnteringHolds, QuietAccounts
  <2>6. CASE PassBarrier(t) BY <2>6, PassAccounts
  <2>7. CASE SpinEnds(t) BY <2>7, SpinEndsIsQuiet, SpinEndsHolds, QuietAccounts
  <2> QED BY <1>4, <2>1, <2>2, <2>3, <2>4, <2>5, <2>6, <2>7 DEF Working, Barrier
<1>5. CASE UNCHANGED poolVars
  BY <1>5 DEF poolVars, AccountInv, Accounted, Accounts, ResetExactly, Holding, Stage, AtWork,
              InBarrier, LetGo, Here, NewGraph
<1> QED BY <1>1, <1>2, <1>3, <1>4, <1>5 DEF TPNext
----
\* The plan that is kept, for the batch it was made for and for others.

SizeAt(b, t) == IF graph[t].rows = "tokens" THEN b ELSE 1

\* Row x of chunk c is t's, in the plan al made for batches of b.
KeptRow(al, b, t, c, x) ==
  al[t].addr.chunk = c /\ al[t].addr.offset <= x /\ x < al[t].addr.offset + SizeAt(b, t)

KeptOnTop(al, b, t, u) ==
  CanInplace(graph[u].op) /\ SizeAt(b, t) = SizeAt(b, u) /\ al[t].addr = al[u].addr

KeptWithin(al, bf, b) ==
  \A t \in Owning :
    /\ al[t].addr \in [chunk : Nat, offset : Nat]
    /\ al[t].size_max = SizeAt(b, t)
    /\ al[t].addr.chunk \in 1 .. Len(bf)
    /\ al[t].addr.offset + SizeAt(b, t) <= bf[al[t].addr.chunk]

KeptOverlaps(al, b) ==
  \A t, u \in Owning : t < u /\ (\E c, x \in Nat : KeptRow(al, b, t, c, x) /\ KeptRow(al, b, u, c, x)) =>
    /\ ~IsLeaf(u) /\ ~graph[t].output
    /\ \A r \in Slots : Root(Source(r)) = t =>
         r[1] < u \/ (r[1] = u /\ Source(r) = t /\ KeptOnTop(al, b, t, u))

KeptPairs(al, b) ==
  \A u \in Tensors :
    /\ u - 1 \in Tensors /\ graph[u - 1].op = "norm" /\ graph[u].op = "mul"
    /\ Children(u - 1) = 1 /\ ~graph[u - 1].output /\ Contains(graph[u].src, u - 1)
    /\ SizeAt(b, u) = SizeAt(b, u - 1)
    => \E q \in Owning : q < u /\ Contains(graph[u].src, q) /\ KeptOnTop(al, b, q, u)

\* al is what is kept of a sound plan for batches of b in buffer bf.
KeptFor(al, bf, b) ==
  /\ DOMAIN al = Owning
  /\ KeptWithin(al, bf, b) /\ KeptOverlaps(al, b) /\ KeptPairs(al, b)

\* Memory is only given out according to such a plan, and only when its
\* places are large enough for the batch.
UseInv ==
  /\ buffer \in Seq(Nat)
  /\ asked \/ allocs # <<>> => \E b \in Nat \ {0} : KeptFor(allocs, buffer, b)
  /\ data # <<>> => /\ at = 0 /\ asked /\ ~NeedsRealloc /\ allocs # <<>>
                    /\ data = [t \in Owning |-> allocs[t].addr]

\* What is said of the graph depends on the graph alone.
LEMMA SameShape ==
  ASSUME graph' = graph
  PROVE  /\ Tensors' = Tensors /\ Owning' = Owning /\ FirstNode' = FirstNode /\ Nodes' = Nodes /\ Slots' = Slots
         /\ \A t : IsLeaf(t)' = IsLeaf(t) /\ IsView(t)' = IsView(t) /\ External(t)' = External(t)
         /\ \A t : Stored(t)' = Stored(t) /\ Home(t)' = Home(t)
         /\ (\A t : Root(t)' = Root(t)) /\ (\A r : Source(r)' = Source(r)) /\ \A t : Children(t)' = Children(t)
<1>1. Tensors' = Tensors /\ \A t : IsLeaf(t)' = IsLeaf(t) /\ IsView(t)' = IsView(t) /\ External(t)' = External(t)
  BY DEF Tensors, IsLeaf, IsView, External
<1>2. Owning' = Owning /\ FirstNode' = FirstNode /\ (\A t : Root(t)' = Root(t)) /\ \A r : Source(r)' = Source(r)
  BY <1>1 DEF Owning, FirstNode, Root, Source
<1>3. Nodes' = Nodes /\ Slots' = Slots BY <1>2 DEF Nodes, Slots
<1>4. \A t : Stored(t)' = Stored(t) /\ Home(t)' = Home(t) BY <1>2 DEF Stored, Home
<1> QED BY <1>1, <1>2, <1>3, <1>4 DEF Children

\* What a kept plan is sound for is a matter of the graph and its places.
LEMMA SameKept ==
  ASSUME graph' = graph, NEW al, NEW bf, NEW b
  PROVE  KeptFor(al, bf, b)' <=> KeptFor(al, bf, b)
<1>1. \A t : SizeAt(b, t)' = SizeAt(b, t) BY DEF SizeAt
<1>2. (\A t, c, x : KeptRow(al, b, t, c, x)' <=> KeptRow(al, b, t, c, x)) /\ \A t, u : KeptOnTop(al, b, t, u)' <=> KeptOnTop(al, b, t, u)
  BY <1>1 DEF KeptRow, KeptOnTop
<1>3. KeptWithin(al, bf, b)' <=> KeptWithin(al, bf, b) BY <1>1, SameShape DEF KeptWithin
<1>4. KeptOverlaps(al, b)' <=> KeptOverlaps(al, b) BY <1>2, SameShape DEF KeptOverlaps
<1>5. KeptPairs(al, b)' <=> KeptPairs(al, b) BY <1>1, <1>2, SameShape DEF KeptPairs
<1> QED BY <1>3, <1>4, <1>5, SameShape DEF KeptFor

\* A plan that is finished is kept.
LEMMA FinishedKept ==
  ASSUME PlanInv, at = Len(graph) + 1, NEW al, NEW bf,
         al = [t \in Owning |-> [addr |-> galloc.hn[t].addr, size_max |-> Size(t)]],
         \A c \in 1 .. Len(galloc.chunks) : c \in 1 .. Len(bf) /\ bf[c] \in Nat /\ galloc.chunks[c].max_size <= bf[c]
  PROVE  KeptFor(al, bf, batch)
<1>1. Planned /\ Len(graph) * batch < Endless BY ShapeFacts DEF PlanInv
<1>2. Len(graph) \in Nat /\ Tensors = 1 .. Len(graph) BY <1>1 DEF Planned, Tensors
<1>3. PlanSound(galloc, Len(graph) + 1) /\ Len(graph) + 1 - 1 = Len(graph)
  <2>1. at # 0 BY <1>2
  <2> QED BY <1>2, <2>1 DEF PlanInv
<1>a. PICK g, n : g = galloc /\ n = Len(graph) OBVIOUS
<1>4. PlanOK(g, n) /\ g \in Galloc /\ \E k \in Nat : Placed(g, k)
  <2>1. n * batch \in Nat BY <1>1, <1>2, <1>a DEF Planned
  <2>2. PICK m : m = n + 1 OBVIOUS
  <2>3. PlanSound(g, m) BY <1>3, <1>a, <2>2
  <2>4. m - 1 = n BY <1>2, <1>a, <2>2
  <2>5. Placed(g, n * batch) /\ PlanOK(g, n) BY <2>3, <2>4 DEF PlanSound
  <2> QED BY <2>1, <2>5 DEF Placed
<1>5. \A t \in Owning : t \in Tensors /\ t \in Nat /\ t <= n BY <1>1, <1>2, <1>a, TensorFacts DEF Owning
<1>6. \A t : SizeAt(batch, t) = Size(t) BY DEF SizeAt, Size
<1>7. \A t \in Owning : al[t].addr = g.hn[t].addr /\ al[t].size_max = Size(t) BY <1>a
<1>8. KeptWithin(al, bf, batch)
  <2> SUFFICES ASSUME NEW t \in Owning
               PROVE  /\ al[t].addr \in [chunk : Nat, offset : Nat]
                      /\ al[t].size_max = SizeAt(batch, t)
                      /\ al[t].addr.chunk \in 1 .. Len(bf)
                      /\ al[t].addr.offset + SizeAt(batch, t) <= bf[al[t].addr.chunk] BY DEF KeptWithin
  <2>1. PICK a : a = g.hn[t].addr OBVIOUS
  <2>2. a \in [chunk : Nat, offset : Nat] /\ Size(t) \in Nat BY <1>1, <1>4, <1>5, <2>1, HnFacts, GraphFacts
  <2>3. a.chunk \in 1 .. Len(g.chunks) /\ a.offset + Size(t) <= g.chunks[a.chunk].max_size
    BY <1>4, <1>5, <2>1 DEF PlanOK, Within
  <2>4. g.chunks[a.chunk].max_size \in Nat BY <1>4, <2>3, ChunkSizes
  <2>5. a.chunk \in 1 .. Len(bf) /\ bf[a.chunk] \in Nat /\ g.chunks[a.chunk].max_size <= bf[a.chunk]
    BY <1>a, <2>3
  <2>6. PICK o \in Nat, s \in Nat, x \in Nat, y \in Nat :
          o = a.offset /\ s = Size(t) /\ x = g.chunks[a.chunk].max_size /\ y = bf[a.chunk]
    BY <2>2, <2>4, <2>5
  <2>7. o + s <= y BY <2>3, <2>5, <2>6
  <2> QED BY <1>6, <1>7, <2>1, <2>2, <2>5, <2>6, <2>7
<1>9. KeptOverlaps(al, batch)
  <2> SUFFICES ASSUME NEW t \in Owning, NEW u \in Owning, t < u, NEW c \in Nat, NEW x \in Nat,
                      KeptRow(al, batch, t, c, x), KeptRow(al, batch, u, c, x)
               PROVE  /\ ~IsLeaf(u) /\ ~graph[t].output
                      /\ \A r \in Slots : Root(Source(r)) = t =>
                           r[1] < u \/ (r[1] = u /\ Source(r) = t /\ KeptOnTop(al, batch, t, u))
    BY DEF KeptOverlaps
  <2>1. Spans(g, t, c, x) /\ Spans(g, u, c, x) BY <1>6, <1>7 DEF KeptRow, Spans
  <2>2. OnTop(g, t, u) <=> KeptOnTop(al, batch, t, u) BY <1>6, <1>7 DEF KeptOnTop, OnTop
  <2> QED BY <1>4, <1>5, <2>1, <2>2 DEF PlanOK, Overlaps
<1>10. KeptPairs(al, batch)
  <2> SUFFICES ASSUME NEW u \in Tensors,
                      u - 1 \in Tensors /\ graph[u - 1].op = "norm" /\ graph[u].op = "mul",
                      Children(u - 1) = 1 /\ ~graph[u - 1].output /\ Contains(graph[u].src, u - 1),
                      SizeAt(batch, u) = SizeAt(batch, u - 1)
               PROVE  \E q \in Owning : q < u /\ Contains(graph[u].src, q) /\ KeptOnTop(al, batch, q, u)
    BY DEF KeptPairs
  <2>1. PairAt(u) BY <1>6 DEF PairAt
  <2>2. u <= n BY <1>2, <1>a
  <2>3. PICK q \in Owning : q < u /\ Contains(graph[u].src, q) /\ OnTop(g, q, u)
    BY <1>4, <2>1, <2>2 DEF PlanOK, PairsOnTop
  <2>4. u \in Owning BY <1>1, TensorFacts DEF Owning, External
  <2> QED BY <1>6, <1>7, <2>3, <2>4 DEF KeptOnTop, OnTop
<1> QED BY <1>8, <1>9, <1>10 DEF KeptFor

\* Every step of the allocator keeps to that.
LEMMA UseKeeps ==
  ASSUME PlanInv, UseInv, AllocNext
  PROVE  UseInv'
<1>1. graph' = graph /\ Owning' = Owning
  BY SameShape DEF AllocNext, Reserve, Replan, StartPlan, PlanNode, KeepPlan, NewBatch, AllocGraph
<1>2. FirstNode \in Nat /\ FirstNode >= 1 /\ Len(graph) \in Nat BY ShapeFacts, LeafsFirst DEF PlanInv
<1>3. CASE Reserve \/ Replan \/ PlanNode
  <2>1. /\ UNCHANGED <<buffer, asked, allocs, data>>
        /\ data = <<>>
    <3>1. CASE Reserve BY <3>1 DEF Reserve, StartPlan, UseInv
    <3>2. CASE Replan BY <3>2 DEF Replan, StartPlan, UseInv
    <3>3. CASE PlanNode
      <4>1. at # 0 BY <1>2, <3>3 DEF PlanNode, Nodes
      <4> QED BY <3>3, <4>1 DEF PlanNode, UseInv
    <3> QED BY <1>3, <3>1, <3>2, <3>3
  <2>2. \A b : KeptFor(allocs, buffer, b)' <=> KeptFor(allocs, buffer, b)
    <3> TAKE b
    <3>1. PICK al, bf : al = allocs /\ bf = buffer OBVIOUS
    <3>2. KeptFor(al, bf, b)' <=> KeptFor(al, bf, b) BY <1>1, SameKept
    <3> QED BY <2>1, <3>1, <3>2
  <2> QED BY <2>1, <2>2 DEF UseInv
<1>4. CASE KeepPlan
  <2>1. data = <<>> /\ UNCHANGED <<asked, data, graph, batch>> BY <1>2, <1>4 DEF KeepPlan, UseInv
  <2>2. PICK al, bf : al = allocs' /\ bf = buffer' OBVIOUS
  <2> DEFINE need == [c \in DOMAIN galloc.chunks |-> galloc.chunks[c].max_size]
  <2>3. PlanInv /\ at = Len(graph) + 1 /\ at # 0 BY <1>2, <1>4 DEF KeepPlan
  <2>4. galloc.chunks \in Seq(ChunkRec) /\ Len(galloc.chunks) \in Nat
        /\ DOMAIN galloc.chunks = 1 .. Len(galloc.chunks)
        /\ \A c \in 1 .. Len(galloc.chunks) : galloc.chunks[c].max_size \in Nat
    <3>1. galloc.chunks \in Seq(ChunkRec) BY <2>3 DEF PlanInv, PlanSound, Placed, ChunksOK
    <3>2. \A c \in 1 .. Len(galloc.chunks) : galloc.chunks[c] \in ChunkRec BY <3>1
    <3> QED BY <3>1, <3>2 DEF ChunkRec
  <2>5. need \in Seq(Nat) /\ Len(need) = Len(galloc.chunks) /\ DOMAIN need = 1 .. Len(galloc.chunks) BY <2>4
  <2>6. bf \in Seq(Nat) /\ \A c \in 1 .. Len(galloc.chunks) : c \in 1 .. Len(bf) /\ bf[c] \in Nat /\ galloc.chunks[c].max_size <= bf[c]
    <3>1. CASE bf = need BY <2>4, <2>5, <3>1
    <3>2. CASE bf # need
      <4>1. bf = buffer /\ \A c \in 1 .. Len(galloc.chunks) : ~(c > Len(buffer)) /\ ~(need[c] > buffer[c])
        <5>1. bf = IF \/ buffer = <<>> \/ \E c \in DOMAIN need : c > Len(buffer) \/ need[c] > buffer[c]
                   THEN need ELSE buffer BY <1>4, <2>2 DEF KeepPlan
        <5> HIDE DEF need
        <5> QED BY <2>5, <3>2, <5>1
      <4>2. buffer \in Seq(Nat) /\ Len(buffer) \in Nat BY DEF UseInv
      <4> SUFFICES ASSUME NEW c \in 1 .. Len(galloc.chunks)
                   PROVE  c \in 1 .. Len(bf) /\ bf[c] \in Nat /\ galloc.chunks[c].max_size <= bf[c]
        BY <4>1, <4>2
      <4>3. c \in 1 .. Len(bf)
        <5>1. PICK k \in Nat, l \in Nat : k = Len(galloc.chunks) /\ l = Len(bf) BY <2>4, <4>1, <4>2
        <5>2. c \in 1 .. k /\ ~(c > l) BY <4>1, <5>1
        <5>3. c \in 1 .. l BY <5>1, <5>2
        <5> QED BY <5>1, <5>3
      <4>4. bf[c] \in Nat /\ need[c] = galloc.chunks[c].max_size /\ need[c] \in Nat BY <2>4, <4>1, <4>2, <4>3
      <4>5. ~(need[c] > bf[c]) BY <4>1
      <4> QED BY <4>3, <4>4, <4>5
    <3> QED BY <3>1, <3>2
  <2>7. al = [t \in Owning |-> [addr |-> galloc.hn[t].addr, size_max |-> Size(t)]] BY <1>4, <2>2 DEF KeepPlan
  <2>8. KeptFor(al, bf, batch) BY <2>3, <2>6, <2>7, FinishedKept
  <2>9. PICK b : b = batch OBVIOUS
  <2>10. KeptFor(al, bf, b)' /\ b \in Nat \ {0} BY <1>1, <2>8, <2>9, SameKept, ShapeAssumption DEF PlanInv
  <2>11. KeptFor(allocs, buffer, b)' BY <2>2, <2>10
  <2> QED BY <2>1, <2>2, <2>6, <2>10, <2>11 DEF UseInv
<1>5. CASE NewBatch
  <2>1. /\ UNCHANGED <<buffer, allocs, data>> /\ data = <<>> /\ allocs # <<>> BY <1>5 DEF NewBatch, UseInv
  <2>2. \A b : KeptFor(allocs, buffer, b)' <=> KeptFor(allocs, buffer, b)
    <3> TAKE b
    <3>1. PICK al, bf : al = allocs /\ bf = buffer OBVIOUS
    <3>2. KeptFor(al, bf, b)' <=> KeptFor(al, bf, b) BY <1>1, SameKept
    <3> QED BY <2>1, <3>1, <3>2
  <2> QED BY <2>1, <2>2 DEF UseInv
<1>6. CASE AllocGraph
  <2>1. /\ UNCHANGED <<buffer, allocs, asked, at, batch, graph>> /\ at = 0 /\ asked /\ ~NeedsRealloc
        /\ data' = [t \in Owning |-> allocs[t].addr] BY <1>6 DEF AllocGraph
  <2>2. \A b : KeptFor(allocs, buffer, b)' <=> KeptFor(allocs, buffer, b)
    <3> TAKE b
    <3>1. PICK al, bf : al = allocs /\ bf = buffer OBVIOUS
    <3>2. KeptFor(al, bf, b)' <=> KeptFor(al, bf, b) BY <1>1, SameKept
    <3> QED BY <2>1, <3>1, <3>2
  <2>3. NeedsRealloc' <=> NeedsRealloc BY <2>1 DEF NeedsRealloc, Size
  <2>4. data' # <<>> => allocs # <<>>
    <3> SUFFICES ASSUME allocs = <<>> PROVE data' = <<>> OBVIOUS
    <3>1. Owning = {} BY <2>1 DEF UseInv, KeptFor
    <3>2. data' = [t \in {} |-> allocs[t].addr] BY <2>1, <3>1
    <3> QED BY <3>2
  <2> QED BY <1>1, <2>1, <2>2, <2>3, <2>4 DEF UseInv
<1> QED BY <1>3, <1>4, <1>5, <1>6 DEF AllocNext
----
\* Where a batch is computed.

BufferRows == UNION {{c} \X (0 .. buffer[c] - 1) : c \in DOMAIN buffer}

ShareRow(t, u) == \E j \in AllRows(t), k \in AllRows(u) : Row(t, j) = Row(u, k)
TakesOver(u, t) == Size(t) = Size(u) /\ data[t] = data[u]

LaidWithin ==
  \A t \in Owning : /\ data[t] \in [chunk : Nat, offset : Nat]
                    /\ \A k \in AllRows(t) : Row(t, k) \in BufferRows

LaidOverlaps ==
  \A t, u \in Owning : t < u /\ ShareRow(t, u) =>
    /\ ~IsLeaf(u) /\ ~graph[t].output
    /\ \A r \in Slots : Root(Source(r)) = t =>
         r[1] < u \/ (r[1] = u /\ Source(r) = t /\ CanInplace(graph[u].op) /\ TakesOver(u, t))

\* What is fused ends on top of one of its sources, unless it is a single row.
LaidPairs ==
  \A t, u \in Tensors : Fusible(t) /\ u = t + 1 =>
    \/ Size(u) = 1
    \/ \E q \in Owning : q < u /\ Contains(graph[u].src, q) /\ TakesOver(u, q)

\* A plan made for one batch serves another that it is large enough for.
Laid == LaidWithin /\ LaidOverlaps /\ LaidPairs

\* Tensors that have as many rows in one batch have so in a smaller one.
LEMMA SizesAgree ==
  ASSUME Planned, NEW b \in Nat, b > 0, NEW t \in Tensors, NEW u \in Tensors,
         Size(t) <= SizeAt(b, t), Size(u) <= SizeAt(b, u), SizeAt(b, t) = SizeAt(b, u)
  PROVE  Size(t) = Size(u)
<1>1. batch \in Nat /\ batch > 0 BY DEF Planned
<1> QED BY <1>1 DEF Size, SizeAt

\* What is computed in one pass is a norm and the product behind it.
LEMMA FusiblePair ==
  ASSUME Planned, NEW t \in Tensors, Fusible(t), NEW u, u = t + 1
  PROVE  /\ u \in Tensors /\ u \in Nodes /\ u \in Owning /\ t \in Owning /\ t \in Nodes /\ PairAt(u)
         /\ graph[t].op = "norm" /\ graph[u].op = "mul" /\ Size(u) = Size(t) /\ u - 1 = t
<1>1. t \in Nat /\ t >= 1 /\ Len(graph) \in Nat /\ Tensors = 1 .. Len(graph) BY TensorFacts
<1>2. u \in Tensors /\ u - 1 = t BY <1>1 DEF Fusible
<1>3. graph[t].op = "norm" /\ graph[u].op = "mul" /\ Size(u) = Size(t)
      /\ Children(t) = 1 /\ ~graph[t].output /\ Contains(graph[u].src, t) BY DEF Fusible
<1>4. ~IsLeaf(t) /\ ~IsLeaf(u) /\ ~IsView(t) /\ ~IsView(u) BY <1>2, <1>3, TensorFacts DEF IsLeaf
<1>5. t \in Nodes /\ u \in Nodes BY <1>2, <1>4, LeafsFirst
<1>6. t \in Owning /\ u \in Owning BY <1>2, <1>3, <1>4 DEF Owning, External
<1>7. PairAt(u) BY <1>2, <1>3 DEF PairAt
<1> QED BY <1>2, <1>3, <1>5, <1>6, <1>7

\* The places that are used now suffice for the batch at hand.
LEMMA LaidOut ==
  ASSUME PlanInv, UseInv, data # <<>>
  PROVE  Laid
<1>1. Planned BY ShapeFacts DEF PlanInv
<1>2. PICK b \in Nat \ {0} : KeptFor(allocs, buffer, b) BY DEF UseInv
<1>3. b \in Nat /\ b > 0 BY <1>2
<1>4. ~NeedsRealloc /\ data = [t \in Owning |-> allocs[t].addr] /\ buffer \in Seq(Nat) BY DEF UseInv
<1>5. \A t \in Owning : /\ t \in Tensors /\ t \in Nat /\ Root(t) = t /\ Size(t) \in Nat /\ ~Stored(t)
                        /\ data[t] = allocs[t].addr
                        /\ data[t] \in [chunk : Nat, offset : Nat]
                        /\ Size(t) <= SizeAt(b, t)
                        /\ SizeAt(b, t) \in Nat
  <2> TAKE t \in Owning
  <2>1. t \in Tensors /\ ~IsView(t) BY DEF Owning
  <2>2. t \in Nat /\ Size(t) \in Nat /\ Root(t) = t /\ ~Stored(t) BY <1>1, <2>1, TensorFacts, GraphFacts DEF Root, Stored
  <2>3. allocs[t].addr \in [chunk : Nat, offset : Nat] /\ allocs[t].size_max = SizeAt(b, t)
    BY <1>2 DEF KeptFor, KeptWithin
  <2>4. SizeAt(b, t) \in Nat BY <1>3 DEF SizeAt
  <2>5. ~(Size(t) > allocs[t].size_max) BY <1>2, <1>4 DEF NeedsRealloc, KeptFor
  <2> QED BY <1>4, <2>1, <2>2, <2>3, <2>4, <2>5
<1>6. \A t \in Owning : \A k \in AllRows(t) :
        /\ data[t].chunk \in Nat /\ data[t].offset + k \in Nat
        /\ Row(t, k) = <<data[t].chunk, data[t].offset + k>>
        /\ KeptRow(allocs, b, t, data[t].chunk, data[t].offset + k)
  <2> TAKE t \in Owning
  <2> TAKE k \in AllRows(t)
  <2>1. PICK c \in Nat, o \in Nat, s \in Nat, z \in Nat :
          c = data[t].chunk /\ o = data[t].offset /\ s = Size(t) /\ z = SizeAt(b, t) /\ s <= z BY <1>5
  <2>2. k \in Nat /\ k < s BY <2>1 DEF AllRows
  <2>3. o + k \in Nat /\ o <= o + k /\ o + k < o + z BY <2>1, <2>2
  <2> QED BY <1>5, <2>1, <2>3 DEF Row, KeptRow
<1>7. LaidWithin
  <2> SUFFICES ASSUME NEW t \in Owning, NEW k \in AllRows(t)
               PROVE  Row(t, k) \in BufferRows
    BY <1>5 DEF LaidWithin
  <2>1. PICK c \in Nat, x \in Nat : c = data[t].chunk /\ x = data[t].offset + k BY <1>6
  <2>2. c \in 1 .. Len(buffer) /\ allocs[t].addr.offset + SizeAt(b, t) <= buffer[c]
    <3>1. c = allocs[t].addr.chunk BY <1>5, <2>1
    <3> QED BY <1>2, <1>5, <3>1 DEF KeptFor, KeptWithin
  <2>3. x < allocs[t].addr.offset + SizeAt(b, t) BY <1>6, <2>1 DEF KeptRow
  <2>4. PICK y \in Nat : y = buffer[c] BY <1>4, <2>2
  <2>5. PICK o \in Nat, z \in Nat : o = allocs[t].addr.offset /\ z = SizeAt(b, t) BY <1>5
  <2>6. x < y
    <3>1. allocs[t].addr.chunk = c BY <1>6, <2>1 DEF KeptRow
    <3>2. o + z <= y /\ x < o + z BY <2>2, <2>3, <2>4, <2>5, <3>1
    <3> QED BY <3>2
  <2>7. c \in DOMAIN buffer /\ <<c, x>> \in {c} \X (0 .. buffer[c] - 1) BY <1>4, <2>1, <2>2, <2>4, <2>6
  <2>8. Row(t, k) = <<c, x>> BY <1>6, <2>1
  <2> QED BY <2>7, <2>8 DEF BufferRows
<1>8. LaidOverlaps
  <2> SUFFICES ASSUME NEW t \in Owning, NEW u \in Owning, t < u,
                      NEW j \in AllRows(t), NEW k \in AllRows(u), Row(t, j) = Row(u, k)
               PROVE  /\ ~IsLeaf(u) /\ ~graph[t].output
                      /\ \A r \in Slots : Root(Source(r)) = t =>
                           r[1] < u \/ (r[1] = u /\ Source(r) = t /\ CanInplace(graph[u].op) /\ TakesOver(u, t))
    BY DEF LaidOverlaps, ShareRow
  <2>1. data[t].chunk = data[u].chunk /\ data[t].offset + j = data[u].offset + k BY <1>6
  <2>2. \E c, x \in Nat : KeptRow(allocs, b, t, c, x) /\ KeptRow(allocs, b, u, c, x) BY <1>6, <2>1
  <2>3. /\ ~IsLeaf(u) /\ ~graph[t].output
        /\ \A r \in Slots : Root(Source(r)) = t =>
             r[1] < u \/ (r[1] = u /\ Source(r) = t /\ KeptOnTop(allocs, b, t, u))
    BY <1>2, <2>2 DEF KeptFor, KeptOverlaps
  <2>4. KeptOnTop(allocs, b, t, u) => CanInplace(graph[u].op) /\ TakesOver(u, t)
    BY <1>1, <1>3, <1>5, SizesAgree DEF KeptOnTop, TakesOver
  <2> QED BY <2>3, <2>4
<1>9. LaidPairs
  <2> SUFFICES ASSUME NEW t \in Tensors, NEW u \in Tensors, Fusible(t), u = t + 1, Size(u) # 1
               PROVE  \E q \in Owning : q < u /\ Contains(graph[u].src, q) /\ TakesOver(u, q)
    BY DEF LaidPairs
  <2>2. u \in Tensors /\ u \in Owning /\ t \in Owning /\ PairAt(u) /\ u - 1 = t /\ Size(u) = Size(t)
    BY <1>1, FusiblePair
  <2>3. SizeAt(b, u) = SizeAt(b, t) BY <2>2 DEF Size, SizeAt
  <2>4. PICK q \in Owning : q < u /\ Contains(graph[u].src, q) /\ KeptOnTop(allocs, b, q, u)
    BY <1>2, <2>2, <2>3 DEF KeptFor, KeptPairs, PairAt
  <2>5. TakesOver(u, q) BY <1>1, <1>3, <1>5, <2>2, <2>4, SizesAgree DEF KeptOnTop, TakesOver
  <2> QED BY <2>4, <2>5
<1> QED BY <1>7, <1>8, <1>9 DEF Laid
----
\* The rows of a tensor, dealt out.

\* Parts of that size are enough for all rows.
LEMMA CeilCovers ==
  ASSUME NEW s \in Nat, s > 0, NEW n \in Nat, n > 0
  PROVE  /\ Ceil(s, n) \in Nat /\ Ceil(s, n) > 0
         /\ s <= Ceil(s, n) * n
<1>1. PICK a \in Nat : a = s + n - 1 /\ a >= n OBVIOUS
<1>2. PICK d : d = a \div n OBVIOUS
<1>3. d \in Int /\ n * d <= a /\ a < n * d + n BY <1>1, <1>2, SMTT(30)
<1>4. d > 0
  <2>1. SUFFICES ASSUME ~(d > 0) PROVE FALSE BY <1>3
  <2>2. n * d <= 0 BY <1>3, <2>1
  <2> QED BY <1>1, <1>3, <2>2
<1>5. s <= n * d
  <2>1. PICK x \in Int : x = n * d BY <1>3
  <2> QED BY <1>1, <1>3, <2>1
<1>6. Ceil(s, n) = d BY <1>1, <1>2 DEF Ceil
<1>7. n * d = d * n BY <1>3
<1> QED BY <1>3, <1>4, <1>5, <1>6, <1>7

\* Slices of as many rows are apart, and cover the tensor together.
LEMMA SliceFound ==
  ASSUME Planned, NEW t \in Tensors, NEW n \in Nat, n > 0, NEW k \in AllRows(t)
  PROVE  \E i \in 0 .. n - 1 : k \in Slice(t, Ceil(Size(t), n), i)
<1>1. PICK s \in Nat : s = Size(t) /\ s > 0 BY GraphFacts
<1>2. PICK d \in Nat : d = Ceil(s, n) /\ d > 0 /\ s <= d * n BY <1>1, CeilCovers
<1>3. k \in Nat /\ k < s BY <1>1 DEF AllRows
<1>4. PICK i : i = k \div d OBVIOUS
<1>5. i \in Int /\ d * i <= k /\ k < d * i + d BY <1>2, <1>3, <1>4, SMTT(30)
<1>6. i >= 0
  <2>1. SUFFICES ASSUME i <= -1 PROVE FALSE BY <1>5
  <2>2. d * i <= -d BY <1>2, <1>5, <2>1
  <2>3. PICK x \in Int : x = d * i BY <1>5
  <2> QED BY <1>2, <1>3, <1>5, <2>2, <2>3
<1>7. i < n
  <2>1. SUFFICES ASSUME i >= n PROVE FALSE BY <1>5
  <2>2. d * n <= d * i BY <1>2, <1>5, <2>1
  <2>3. PICK x \in Int, y \in Int : x = d * i /\ y = d * n BY <1>2, <1>5
  <2> QED BY <1>2, <1>3, <1>5, <2>2, <2>3
<1>8. d * (i + 1) = d * i + d BY <1>2, <1>5
<1>9. k \in Slice(t, d, i) BY <1>5, <1>8 DEF Slice
<1>10. i \in 0 .. n - 1 BY <1>5, <1>6, <1>7
<1> QED BY <1>1, <1>2, <1>9, <1>10

\* No row is in two slices.
LEMMA SlicesApart ==
  ASSUME NEW t, NEW d \in Nat, NEW i \in Nat, NEW j \in Nat, NEW k \in Nat,
         k \in Slice(t, d, i), k \in Slice(t, d, j)
  PROVE  i = j
<1>1. \A x, y \in Nat : x < y => d * (x + 1) <= d * y
  <2> SUFFICES ASSUME NEW x \in Nat, NEW y \in Nat, x < y PROVE d * (x + 1) <= d * y OBVIOUS
  <2>1. PICK z \in Nat : y = (x + 1) + z
    <3>1. y - (x + 1) \in Nat /\ y = (x + 1) + (y - (x + 1)) OBVIOUS
    <3> QED BY <3>1
  <2>2. d * y = d * (x + 1) + d * z /\ d * z \in Nat /\ d * (x + 1) \in Nat BY <2>1
  <2> QED BY <2>2
<1>2. d * i <= k /\ k < d * (i + 1) /\ d * j <= k /\ k < d * (j + 1) BY DEF Slice
<1>3. d * i \in Nat /\ d * j \in Nat /\ d * (i + 1) \in Nat /\ d * (j + 1) \in Nat OBVIOUS
<1>4. ~(i < j)
  <2>1. SUFFICES ASSUME i < j PROVE FALSE OBVIOUS
  <2>2. d * (i + 1) <= d * j BY <1>1, <2>1
  <2>3. PICK x \in Nat, y \in Nat : x = d * (i + 1) /\ y = d * j BY <1>3
  <2> QED BY <1>2, <2>2, <2>3
<1>5. ~(j < i)
  <2>1. SUFFICES ASSUME j < i PROVE FALSE OBVIOUS
  <2>2. d * (j + 1) <= d * i BY <1>1, <2>1
  <2>3. PICK x \in Nat, y \in Nat : x = d * (j + 1) /\ y = d * i BY <1>3
  <2> QED BY <1>2, <2>2, <2>3
<1> QED BY <1>4, <1>5
----
\* What memory holds.

InMem(m, s, k) == External(Home(s)) \/ (Row(s, k) \in DOMAIN m /\ m[Row(s, k)] = Home(s))

\* The tensors that have rows of their own, and the rows there are.
Keepers == Owning \cup {t \in Tensors : Stored(t)}
MemRows == BufferRows \cup (UNION {{-t} \X AllRows(t) : t \in {u \in Tensors : Stored(u)}})

\* Tensor s is read at tensor p or later, or by the caller in the end; what
\* is stored may always be.
Needed(s, p) == Stored(s) \/ graph[s].output \/ \E r \in Slots : r[1] >= p /\ Root(Source(r)) = s

\* Of the tensors before p, memory m holds all that are still needed.
Settled(m, p) == \A s \in Keepers : s < p /\ Needed(s, p) => \A k \in AllRows(s) : InMem(m, s, k)

\* While node n is computed and the rows done are, they are there, and all
\* else that was needed before it but is overwritten by those.
Underway(m, n, done) ==
  /\ \A s \in Keepers : s < Tensor(n) /\ Needed(s, Tensor(n)) =>
       \A k \in AllRows(s) : InMem(m, s, k) \/ \E j \in done : Row(s, k) = Row(Result(n), j)
  /\ \A k \in done : InMem(m, Result(n), k)

Laying == Planned /\ Laid /\ cgraph = Program

\* A node with work is a tensor with memory, and so is one fused with it.
LEMMA NodeFacts ==
  ASSUME Planned, cgraph = Program, NEW n \in DOMAIN cgraph, cgraph[n].op # "nop"
  PROVE  /\ n \in Nat /\ Tensor(n) \in Nat /\ Tensor(n) \in Nodes /\ Tensor(n) \in Keepers
         /\ Result(n) \in Nat /\ Result(n) \in Nodes /\ Result(n) \in Keepers
         /\ cgraph[n].op \in {"rows", "matmul"}
         /\ cgraph[n].fused = 0 => Result(n) = Tensor(n)
         /\ cgraph[n].fused = 1 => Result(n) = Tensor(n) + 1 /\ Fusible(Tensor(n))
         /\ cgraph[n].fused \in {0, 1}
         /\ cgraph[n].op = "matmul" => /\ cgraph[n].fused = 0 /\ graph[Tensor(n)].op = "matmul"
                                       /\ cgraph[n].chunks \in Nat /\ cgraph[n].chunks > 0
<1>1. FirstNode \in Nat /\ FirstNode >= 1 /\ Len(graph) \in Nat /\ Tensors = 1 .. Len(graph)
  BY LeafsFirst DEF Planned, Tensors
<1>2. PICK t : t = Tensor(n) OBVIOUS
<1>3. n \in 1 .. Len(graph) - FirstNode + 1 BY DEF Program
<1>4. n \in Nat /\ t \in Nat /\ t \in FirstNode .. Len(graph) BY <1>1, <1>2, <1>3 DEF Tensor
<1>5. t \in Nodes /\ t \in Tensors /\ ~IsLeaf(t) BY <1>1, <1>4, LeafsFirst DEF Nodes
<1>6. cgraph[n] = [op     |-> IF graph[t].op = "view" THEN "nop" ELSE IF Product(t) THEN "matmul" ELSE "rows",
                   fused  |-> IF Fusible(t) THEN 1 ELSE 0,
                   chunks |-> IF Product(t) THEN ChunksOf(t) ELSE 0] BY <1>2, <1>3 DEF Program
<1>7. t \in Keepers BY <1>5, <1>6, TensorFacts DEF Keepers, Stored, Owning, External, IsLeaf
<1>8. cgraph[n].op \in {"rows", "matmul"} /\ cgraph[n].fused \in {0, 1} BY <1>6
<1>9. cgraph[n].op = "matmul" => cgraph[n].fused = 0 /\ graph[t].op = "matmul" /\ cgraph[n].chunks = ChunksOf(t)
  BY <1>6 DEF Fusible, Product
<1>10. ChunksOf(t) \in Nat /\ ChunksOf(t) > 0 BY <1>5, GraphFacts, ThreadAssumption DEF ChunksOf
<1>11. cgraph[n].fused = 0 => Result(n) = t BY <1>2, <1>4 DEF Result
<1>12. cgraph[n].fused = 1 => Result(n) = t + 1 /\ Fusible(t)
  <2>1. SUFFICES ASSUME cgraph[n].fused = 1 PROVE Result(n) = t + 1 /\ Fusible(t) OBVIOUS
  <2>2. Result(n) = Tensor(n + 1) /\ Fusible(t) BY <1>6, <2>1 DEF Result
  <2>3. Tensor(n + 1) = Tensor(n) + 1 BY <1>1, <1>4 DEF Tensor
  <2> QED BY <1>2, <2>2, <2>3
<1>13. cgraph[n].fused = 1 => Result(n) \in Nat /\ Result(n) \in Nodes /\ Result(n) \in Keepers
  <2>1. SUFFICES ASSUME cgraph[n].fused = 1 PROVE Result(n) \in Nat /\ Result(n) \in Nodes /\ Result(n) \in Keepers
    OBVIOUS
  <2>2. PICK u : u = t + 1 OBVIOUS
  <2>3. Result(n) = u /\ u \in Nodes /\ u \in Keepers /\ u \in Nat
    BY <1>4, <1>5, <1>12, <2>1, <2>2, FusiblePair DEF Keepers
  <2> QED BY <2>3
<1>14. Result(n) \in Nat /\ Result(n) \in Nodes /\ Result(n) \in Keepers BY <1>4, <1>5, <1>7, <1>8, <1>11, <1>13
<1> QED BY <1>2, <1>4, <1>5, <1>7, <1>8, <1>9, <1>10, <1>11, <1>12, <1>14

\* A tensor with rows of its own is its own home.
LEMMA OwningFacts ==
  ASSUME Planned, NEW s, s \in Owning \/ s \in Keepers
  PROVE  s \in Tensors /\ s \in Nat /\ Home(s) = s /\ ~External(s) /\ s \in Keepers
         /\ (s \in Owning => Root(s) = s /\ ~IsView(s) /\ ~Stored(s))
         /\ (~Stored(s) => s \in Owning) /\ (Stored(s) => s \in Nodes)
         /\ Size(s) \in Nat /\ Size(s) > 0 /\ AllRows(s) = 0 .. Size(s) - 1
<1>1. s \in Tensors /\ s \in Keepers /\ (~Stored(s) => s \in Owning) BY DEF Owning, Keepers
<1>2. s \in Owning => Root(s) = s /\ ~IsView(s) /\ ~Stored(s) /\ ~External(s)
  <2>1. SUFFICES ASSUME s \in Owning PROVE Root(s) = s /\ ~IsView(s) /\ ~Stored(s) /\ ~External(s) OBVIOUS
  <2>2. ~IsView(s) /\ ~External(s) BY <2>1 DEF Owning
  <2> QED BY <1>1, <2>2, TensorFacts DEF Stored, Root
<1>3. Stored(s) => s \in Nodes /\ ~External(s) BY <1>1, LeafsFirst DEF Stored, External, IsLeaf
<1>4. Home(s) = s BY <1>1, <1>2 DEF Home
<1>5. s \in Nat /\ Size(s) \in Nat /\ Size(s) > 0 BY <1>1, TensorFacts, GraphFacts
<1> QED BY <1>1, <1>2, <1>3, <1>4, <1>5 DEF AllRows

\* What is stored lies apart from all else.
LEMMA StoresApart ==
  ASSUME Laying, NEW s \in Keepers, NEW u \in Keepers, s # u, Stored(s) \/ Stored(u), NEW j, NEW k
  PROVE  Row(s, j) # Row(u, k)
<1>1. Planned /\ \A t \in Owning : data[t].chunk \in Nat BY DEF Laying, Laid, LaidWithin
<1>2. \A t \in Keepers : /\ t \in Nat /\ t >= 1
                         /\ Stored(t) => Row(t, j)[1] = -t /\ Row(t, k)[1] = -t
                         /\ ~Stored(t) => Row(t, j)[1] \in Nat /\ Row(t, k)[1] \in Nat
  <2> TAKE t \in Keepers
  <2>1. t \in Tensors /\ t \in Nat /\ (~Stored(t) => t \in Owning /\ Root(t) = t) BY <1>1, OwningFacts
  <2> QED BY <1>1, <2>1, TensorFacts DEF Row
<1> QED BY <1>2

\* Before any of its rows is computed, nothing is overwritten.
LEMMA Entered ==
  ASSUME NEW m, NEW n, Settled(m, Tensor(n))
  PROVE  Underway(m, n, {})
BY DEF Settled, Underway

\* Nodes without work are passed by: no memory is theirs.
LEMMA SettledOn ==
  ASSUME NEW m, NEW p \in Nat, NEW q \in Nat, p <= q, Planned, Settled(m, p),
         \A s \in Keepers : ~(p <= s /\ s < q)
  PROVE  Settled(m, q)
<1> SUFFICES ASSUME NEW s \in Keepers, s < q, Needed(s, q)
             PROVE  \A k \in AllRows(s) : InMem(m, s, k)
  BY DEF Settled
<1>1. s \in Nat /\ s < p BY OwningFacts
<1>2. Needed(s, p)
  <2>1. \A r \in Slots : r[1] \in Nat BY SlotFacts
  <2> QED BY <2>1 DEF Needed
<1> QED BY <1>1, <1>2 DEF Settled

\* When all of its rows are computed, so is the tensor: whoever it has
\* overwritten is not needed beyond it.
LEMMA Completed ==
  ASSUME Laying, NEW n \in DOMAIN cgraph, cgraph[n].op # "nop", NEW m,
         Underway(m, n, AllRows(Result(n))), NEW p, p = Result(n) + 1
  PROVE  Settled(m, p)
<1> DEFINE x == Tensor(n)
<1> DEFINE u == Result(n)
<1>1. Planned /\ cgraph = Program /\ LaidOverlaps BY DEF Laying, Laid
<1>2. /\ x \in Nat /\ u \in Nat /\ x \in Keepers /\ u \in Keepers /\ p \in Nat
      /\ p = u + 1 /\ (u = x \/ (u = x + 1 /\ Fusible(x))) BY <1>1, NodeFacts
<1> SUFFICES ASSUME NEW s \in Keepers, s < p, Needed(s, p), NEW k \in AllRows(s)
             PROVE  InMem(m, s, k)
  BY DEF Settled
<1>3. s \in Nat /\ s \in Tensors BY <1>1, OwningFacts
<1>4. \A r \in Slots : r[1] \in Nat /\ Source(r) \in Tensors BY <1>1, SlotFacts
<1>5. CASE s = u BY <1>5 DEF Underway
<1>6. CASE s # u /\ s = x
  <2>1. u = x + 1 /\ Fusible(x) /\ x \in Tensors BY <1>2, <1>3, <1>6
  <2>2. u \in Nodes /\ PairAt(u) /\ u - 1 = x BY <1>1, <2>1, FusiblePair
  <2>3. PICK j \in 1 .. Len(graph[u].src) : Reads(Slots, u - 1) = {<<u, j>>} BY <1>1, <2>2, PairRead
  <2>4. \A w \in Nodes : graph[w].view_src # x BY <1>1, <2>2, PairRead
  <2>5. ~graph[x].output /\ ~Stored(x) BY <2>1 DEF Fusible, Stored
  <2>6. PICK r \in Slots : r[1] >= p /\ Root(Source(r)) = x BY <1>6, <2>5 DEF Needed
  <2>7. Source(r) = x
    <3>1. SUFFICES ASSUME IsView(Source(r)) PROVE FALSE BY <2>6 DEF Root
    <3>2. graph[Source(r)].view_src = x /\ Source(r) \in Tensors BY <1>4, <2>6, <3>1 DEF Root
    <3>3. Source(r) \in Nodes BY <1>1, <3>1, <3>2, TensorFacts, LeafsFirst DEF IsLeaf
    <3> QED BY <2>4, <3>2, <3>3
  <2>8. r = <<u, j>> BY <2>2, <2>3, <2>7 DEF Reads
  <2> HIDE DEF u, x
  <2>9. r[1] = u BY <2>8
  <2> QED BY <1>2, <2>6, <2>9
<1>7. CASE s # u /\ s # x
  <2>1. s < x BY <1>2, <1>3, <1>7
  <2>2. Needed(s, x) BY <1>2, <1>4 DEF Needed
  <2>3. CASE InMem(m, s, k) BY <2>3
  <2>4. ASSUME NEW j \in AllRows(u), Row(s, k) = Row(u, j)
        PROVE  FALSE
    <3>0. s \in Owning /\ u \in Owning /\ ~Stored(s)
      <4>1. ~Stored(s) /\ ~Stored(u) BY <1>2, <1>7, <2>4, StoresApart
      <4> QED BY <1>1, <1>2, <4>1, OwningFacts
    <3>1. ShareRow(s, u) /\ s < u BY <1>2, <1>3, <2>1, <2>4 DEF ShareRow
    <3>2. ~graph[s].output /\ \A r \in Slots : Root(Source(r)) = s => r[1] < u \/ r[1] = u
      BY <1>1, <1>2, <3>0, <3>1 DEF LaidOverlaps
    <3>3. PICK r \in Slots : r[1] >= p /\ Root(Source(r)) = s BY <3>0, <3>2 DEF Needed
    <3>4. r[1] < u \/ r[1] = u BY <3>2, <3>3
    <3> HIDE DEF u, x
    <3> QED BY <1>2, <1>4, <3>3, <3>4
  <2> QED BY <2>1, <2>2, <2>3, <2>4 DEF Underway
<1> QED BY <1>5, <1>6, <1>7

\* Computing rows of the tensor overwrites only what they are laid over.
LEMMA WrittenUnderway ==
  ASSUME Laying, NEW n \in DOMAIN cgraph, cgraph[n].op # "nop",
         DOMAIN mem = MemRows, NEW done, Underway(mem, n, done),
         NEW rows \in SUBSET AllRows(Result(n)), NEW m2, m2 = Written(Result(n), rows)
  PROVE  DOMAIN m2 = MemRows /\ Underway(m2, n, done \cup rows)
<1> DEFINE u == Result(n)
<1>1. u \in Keepers /\ Home(u) = u /\ Planned /\ rows \subseteq AllRows(u) BY NodeFacts, OwningFacts DEF Laying
<1>2. \A k \in AllRows(u) : Row(u, k) \in DOMAIN mem
  <2> TAKE k \in AllRows(u)
  <2>1. CASE Stored(u)
    <3>1. u \in {t \in Tensors : Stored(t)} BY <1>1, <2>1, OwningFacts
    <3>2. Row(u, k) \in {-u} \X AllRows(u) BY <2>1 DEF Row
    <3> HIDE DEF u
    <3> QED BY <3>1, <3>2 DEF MemRows
  <2>2. CASE ~Stored(u)
    <3>1. u \in Owning BY <1>1, <2>2, OwningFacts
    <3> QED BY <3>1 DEF MemRows, Laying, Laid, LaidWithin
  <2> QED BY <2>1, <2>2
<1>3. /\ DOMAIN m2 = DOMAIN mem
      /\ \A r \in DOMAIN mem : (\E k \in rows : r = Row(u, k)) => m2[r] = u
      /\ \A r \in DOMAIN mem : ~(\E k \in rows : r = Row(u, k)) => m2[r] = mem[r]
  <2>1. m2 = [r \in DOMAIN mem |-> IF \E k \in rows : r = Row(u, k) THEN u ELSE mem[r]] BY DEF Written
  <2> HIDE DEF u
  <2> QED BY <2>1
<1> HIDE DEF u
<1>4. ASSUME NEW s, NEW k, InMem(mem, s, k), ~\E j \in rows : Row(s, k) = Row(u, j)
      PROVE  InMem(m2, s, k)
  BY <1>3, <1>4 DEF InMem
<1>5. ASSUME NEW k \in rows PROVE InMem(m2, u, k)
  <2>1. PICK r : r = Row(u, k) OBVIOUS
  <2>2. r \in DOMAIN mem /\ m2[r] = u BY <1>1, <1>2, <1>3, <2>1
  <2> QED BY <1>1, <1>3, <2>1, <2>2 DEF InMem
<1>6. ASSUME NEW k, InMem(mem, u, k) PROVE InMem(m2, u, k)
  <2>1. ~External(Home(u)) => Row(u, k) \in DOMAIN mem BY <1>6 DEF InMem
  <2> QED BY <1>1, <1>3, <1>4, <1>6, <2>1 DEF InMem
<1> QED BY <1>3, <1>4, <1>5, <1>6 DEF Underway, u
----
\* What a node reads.

\* A view has rows of its root's.
LEMMA ViewRows ==
  ASSUME Planned, NEW s \in Tensors, ~Stored(s), NEW m
  PROVE  /\ Size(s) \in Nat /\ Size(s) > 0 /\ AllRows(s) = 0 .. Size(s) - 1
         /\ AllRows(s) \subseteq AllRows(Root(s))
         /\ \A k : Row(s, k) = Row(Root(s), k) /\ (InMem(m, s, k) <=> InMem(m, Root(s), k))
         /\ Root(s) \in Owning \/ External(Root(s))
         /\ Root(s) \in Nat /\ s \in Nat /\ Root(s) <= s /\ Root(s) \in Tensors
<1>1. Size(s) \in Nat /\ Size(s) > 0 BY GraphFacts
<1>2. Root(s) \in Tensors /\ ~IsView(Root(s)) /\ Root(s) <= s /\ s \in Nat BY TensorFacts
<1>3. Root(Root(s)) = Root(s) /\ ~Stored(Root(s)) BY <1>2, TensorFacts DEF Root, Stored
<1>4. Root(s) \in Nat /\ Size(Root(s)) \in Nat /\ Size(Root(s)) > 0 BY <1>2, TensorFacts, GraphFacts
<1>5. Size(s) <= Size(Root(s))
  <2>1. CASE IsView(s)
    <3>1. s \in DOMAIN graph /\ graph[s].view_src # 0 /\ Root(s) = graph[s].view_src
      BY <2>1 DEF Root, Tensors, IsView
    <3>2. graph[s].rows \in {"one", graph[Root(s)].rows} BY <3>1 DEF Planned, WellFormed
    <3> QED BY <1>4, <3>2 DEF Size
  <2>2. CASE ~IsView(s) BY <1>1, <2>2 DEF Root
  <2> QED BY <2>1, <2>2
<1>6. AllRows(s) \subseteq AllRows(Root(s)) BY <1>1, <1>4, <1>5 DEF AllRows
<1>7. \A k : Row(s, k) = Row(Root(s), k) BY <1>3 DEF Row
<1>8. \A k : InMem(m, s, k) <=> InMem(m, Root(s), k) BY <1>3, <1>7 DEF InMem, Home
<1>9. Root(s) \in Owning \/ External(Root(s)) BY <1>2 DEF Owning
<1> QED BY <1>1, <1>2, <1>4, <1>6, <1>7, <1>8, <1>9 DEF AllRows

\* A tensor that takes over another has its rows.
LEMMA AlignedRows ==
  ASSUME Laying, NEW s \in Owning, NEW u \in Owning, TakesOver(u, s),
         NEW j \in AllRows(s), NEW i \in AllRows(u), Row(s, j) = Row(u, i)
  PROVE  i = j
<1>1. Planned /\ data[u] \in [chunk : Nat, offset : Nat] BY DEF Laying, Laid, LaidWithin
<1>2. Root(s) = s /\ Root(u) = u /\ ~Stored(s) /\ ~Stored(u) /\ AllRows(s) \subseteq Nat /\ AllRows(u) \subseteq Nat
  <2>1. Size(s) \in Nat /\ Size(u) \in Nat /\ AllRows(s) = 0 .. Size(s) - 1 /\ AllRows(u) = 0 .. Size(u) - 1
    BY <1>1, OwningFacts
  <2> QED BY <1>1, <2>1, OwningFacts
<1>3. PICK o \in Nat : o = data[u].offset BY <1>1
<1>4. Row(s, j)[2] = o + j /\ Row(u, i)[2] = o + i BY <1>2, <1>3 DEF Row, TakesOver
<1> QED BY <1>2, <1>4

\* A node that lies over what it reads takes that over.
LEMMA ReaderTakesOver ==
  ASSUME Laying, NEW w \in Nodes, w \in Owning, NEW s0 \in ToSet(graph[w].src), s0 < w,
         Root(s0) \in Owning, ShareRow(Root(s0), w)
  PROVE  s0 = Root(s0) /\ CanInplace(graph[w].op) /\ TakesOver(w, s0)
<1>1. Planned /\ LaidOverlaps BY DEF Laying, Laid
<1>2. w \in Tensors /\ w \in Nat BY <1>1, OwningFacts
<1>3. PICK i \in 1 .. Len(graph[w].src) : s0 = graph[w].src[i] BY <1>1, <1>2, TensorFacts DEF ToSet
<1>4. <<w, i>> \in Slots /\ Source(<<w, i>>) = s0 /\ s0 \in Tensors /\ s0 < w BY <1>1, <1>3, SlotFacts
<1>5. Root(s0) < w
  <2>1. Root(s0) <= s0 /\ s0 \in Nat /\ Root(s0) \in Nat BY <1>1, <1>4, TensorFacts
  <2> QED BY <1>2, <1>4, <2>1
<1>6. PICK r : r = <<w, i>> OBVIOUS
<1>7. r \in Slots /\ Root(Source(r)) = Root(s0) /\ r[1] = w /\ ~(w < w) BY <1>2, <1>4, <1>6
<1>8. Source(r) = Root(s0) /\ CanInplace(graph[w].op) /\ TakesOver(w, Root(s0))
  BY <1>1, <1>5, <1>7 DEF LaidOverlaps
<1> QED BY <1>4, <1>6, <1>8

\* A norm reads one tensor, of its own size.
LEMMA NormReads ==
  ASSUME Planned, NEW x \in Tensors, graph[x].op = "norm", NEW s0 \in ToSet(graph[x].src)
  PROVE  Size(s0) = Size(x) /\ <<x, 1>> \in Slots /\ Source(<<x, 1>>) = s0 /\ s0 < x
<1>1. x \in DOMAIN graph BY DEF Tensors
<1>2. Len(graph[x].src) = 1 /\ graph[x].rows = graph[graph[x].src[1]].rows BY <1>1 DEF Planned, WellFormed
<1>3. DOMAIN graph[x].src = 1 .. 1 BY <1>2, TensorFacts
<1>4. s0 = graph[x].src[1] BY <1>3 DEF ToSet
<1>5. x \in Nodes BY LeafsFirst DEF IsLeaf
<1>6. <<x, 1>> \in Slots /\ Source(<<x, 1>>) = s0 BY <1>2, <1>4, <1>5, SlotFacts
<1>7. s0 < x
  <2>1. graph[x].op # "cast" /\ 1 \in 1 .. Len(graph[x].src) BY <1>2
  <2>2. graph[x].src[1] < x \/ graph[x].op = "cast" BY <2>1, TensorFacts
  <2> QED BY <1>4, <2>1, <2>2
<1> QED BY <1>2, <1>4, <1>6, <1>7 DEF Size

\* In a fused pair, what the norm reads is overwritten row by row.
LEMMA FusedAligned ==
  ASSUME Laying, NEW x \in Tensors, NEW u \in Tensors, Fusible(x), u = x + 1,
         NEW s0 \in ToSet(graph[x].src), Root(s0) \in Owning,
         NEW j \in AllRows(s0), NEW i \in AllRows(u), Row(Root(s0), j) = Row(u, i)
  PROVE  i = j
<1>1. Planned /\ LaidOverlaps /\ LaidPairs BY DEF Laying, Laid
<1>2. /\ u \in Owning /\ u \in Nodes /\ x \in Owning /\ x \in Nodes
      /\ graph[x].op = "norm" /\ Size(u) = Size(x) BY <1>1, FusiblePair
<1>3. Size(s0) = Size(x) /\ <<x, 1>> \in Slots /\ Source(<<x, 1>>) = s0 /\ s0 < x BY <1>1, <1>2, NormReads
<1>4. s0 \in Tensors /\ ~Stored(s0)
  <2>1. <<x, 1>> \in Slots /\ Source(<<x, 1>>) = s0 BY <1>3
  <2> QED BY <1>1, <2>1, SlotFacts
<1>5. PICK s \in Owning : s = Root(s0) OBVIOUS
<1>6. s \in Nat /\ s < x /\ x \in Nat /\ u \in Nat BY <1>1, <1>2, <1>3, <1>4, <1>5, OwningFacts, ViewRows
<1>7. j \in AllRows(s) /\ AllRows(u) = 0 .. Size(u) - 1 /\ AllRows(s0) = 0 .. Size(s0) - 1
      /\ AllRows(x) = 0 .. Size(x) - 1 BY <1>1, <1>2, <1>4, <1>5, ViewRows, OwningFacts
<1>8. CASE Size(u) = 1 BY <1>2, <1>3, <1>7, <1>8
<1>9. ASSUME NEW q \in Owning, q < u, Contains(graph[u].src, q), TakesOver(u, q)
      PROVE  i = j
  <2>1. q \in Nat /\ q \in Tensors /\ Root(q) = q /\ Root(u) = u /\ ~Stored(q) /\ ~Stored(u) BY <1>1, <1>2, OwningFacts
  <2>2. Row(q, i) = Row(u, i) /\ i \in AllRows(q) BY <1>9, <2>1 DEF Row, TakesOver, AllRows
  <2>3. ShareRow(s, q) /\ ShareRow(q, s) BY <1>5, <1>7, <2>2 DEF ShareRow
  <2>4. CASE q = s BY <1>2, <1>5, <1>7, <1>9, <2>4, AlignedRows
  <2>5. CASE q = x
    <3>1. TakesOver(x, s) BY <1>2, <1>3, <1>5, <2>3, <2>5, ReaderTakesOver
    <3> QED BY <1>2, <1>5, <1>7, <2>2, <2>5, <3>1, AlignedRows
  <2>6. CASE q # s /\ q # x /\ s < q
    <3>1. PICK r : r = <<x, 1>> OBVIOUS
    <3>2. r \in Slots /\ Root(Source(r)) = s /\ r[1] = x BY <1>3, <1>5, <3>1
    <3>3. x < q BY <1>1, <2>3, <2>6, <3>2 DEF LaidOverlaps
    <3> QED BY <1>6, <1>9, <2>1, <3>3
  <2>7. CASE q # s /\ q # x /\ q < s
    <3>1. PICK l \in 1 .. Len(graph[u].src) : graph[u].src[l] = q BY <1>1, <1>9, TensorFacts DEF Contains
    <3>2. PICK r : r = <<u, l>> OBVIOUS
    <3>3. r \in Slots /\ Root(Source(r)) = q /\ r[1] = u BY <1>1, <1>2, <2>1, <3>1, <3>2, SlotFacts
    <3>4. u < s \/ u = s BY <1>1, <2>3, <2>7, <3>3 DEF LaidOverlaps
    <3> QED BY <1>6, <3>4
  <2> QED BY <1>6, <2>1, <2>4, <2>5, <2>6, <2>7
<1> QED BY <1>1, <1>8, <1>9 DEF LaidPairs

\* What a node reads comes before it.
LEMMA OperandFacts ==
  ASSUME Planned, cgraph = Program, NEW n \in DOMAIN cgraph, cgraph[n].op # "nop", NEW s0 \in Operands(n)
  PROVE  /\ s0 \in Tensors /\ ~Stored(s0) /\ s0 < Tensor(n) /\ Root(s0) < Tensor(n)
         /\ External(Root(s0)) \/ (Root(s0) \in Owning /\ Needed(Root(s0), Tensor(n)))
         /\ \/ s0 \in ToSet(graph[Tensor(n)].src)
            \/ cgraph[n].fused = 1 /\ s0 \in ToSet(graph[Result(n)].src)
<1>1. PICK x, u : x = Tensor(n) /\ u = Result(n) OBVIOUS
<1>2. /\ x \in Nodes /\ u \in Nodes /\ x \in Nat /\ u \in Nat /\ x \in Tensors /\ u \in Tensors
      /\ cgraph[n].fused = 1 => u = x + 1 BY <1>1, NodeFacts, OwningFacts
<1>3. s0 # x /\ (s0 \in ToSet(graph[x].src) \/ (cgraph[n].fused = 1 /\ s0 \in ToSet(graph[u].src)))
  <2>1. cgraph[n].fused # 1 => u = x BY <1>1, NodeFacts
  <2> QED BY <1>1, <2>1 DEF Operands
<1>4. ASSUME NEW w \in Nodes, w \in Tensors, s0 \in ToSet(graph[w].src)
      PROVE  \E l \in 1 .. Len(graph[w].src) : <<w, l>> \in Slots /\ Source(<<w, l>>) = s0 /\ s0 \in Tensors /\ ~Stored(s0) /\ s0 <= w
  <2>1. PICK l \in 1 .. Len(graph[w].src) : s0 = graph[w].src[l] BY <1>4, TensorFacts DEF ToSet
  <2> QED BY <1>4, <2>1, SlotFacts
<1>5. PICK w \in {x, u}, l \in Nat : /\ <<w, l>> \in Slots /\ Source(<<w, l>>) = s0 /\ s0 \in Tensors /\ ~Stored(s0) /\ s0 < x
  <2>1. CASE s0 \in ToSet(graph[x].src)
    <3>1. PICK l \in 1 .. Len(graph[x].src) : <<x, l>> \in Slots /\ Source(<<x, l>>) = s0 /\ s0 \in Tensors /\ ~Stored(s0) /\ s0 <= x
      BY <1>2, <1>4, <2>1
    <3>2. s0 \in Nat BY <3>1, TensorFacts
    <3> QED BY <1>2, <1>3, <3>1, <3>2
  <2>2. CASE cgraph[n].fused = 1 /\ s0 \in ToSet(graph[u].src)
    <3>1. PICK l \in 1 .. Len(graph[u].src) : <<u, l>> \in Slots /\ Source(<<u, l>>) = s0 /\ s0 \in Tensors /\ ~Stored(s0) /\ s0 < u
      <4>1. graph[u].op = "mul" /\ u \in Nodes BY <1>1, <1>2, <2>2, NodeFacts, FusiblePair
      <4>2. \A r \in Slots : Source(r) = r[1] => graph[r[1]].op = "cast" BY SlotFacts
      <4>3. PICK l \in 1 .. Len(graph[u].src) : <<u, l>> \in Slots /\ Source(<<u, l>>) = s0 /\ s0 \in Tensors /\ ~Stored(s0) /\ s0 <= u
        BY <1>2, <1>4, <2>2
      <4>4. s0 # u BY <4>1, <4>2, <4>3
      <4>5. s0 \in Nat BY <4>3, TensorFacts
      <4> QED BY <1>2, <4>3, <4>4, <4>5
    <3>2. s0 \in Nat BY <3>1, TensorFacts
    <3> QED BY <1>2, <1>3, <2>2, <3>1, <3>2
  <2> QED BY <1>3, <2>1, <2>2
<1>6. Root(s0) \in Nat /\ s0 \in Nat /\ Root(s0) <= s0 /\ (Root(s0) \in Owning \/ External(Root(s0)))
  BY <1>5, ViewRows
<1>7. Needed(Root(s0), x)
  <2>1. PICK r : r = <<w, l>> OBVIOUS
  <2>2. r \in Slots /\ Root(Source(r)) = Root(s0) /\ r[1] = w BY <1>5, <2>1
  <2>3. w >= x
    <3>1. \/ u = x \/ u = x + 1 BY <1>1, NodeFacts
    <3> QED BY <1>2, <3>1
  <2> QED BY <2>2, <2>3 DEF Needed
<1> QED BY <1>1, <1>2, <1>3, <1>5, <1>6, <1>7

\* A row that a node overwrites is read for that row only, and not by a
\* selection.
LEMMA OverwrittenLast ==
  ASSUME Laying, NEW n \in DOMAIN cgraph, cgraph[n].op # "nop", NEW s0 \in Operands(n), Root(s0) \in Owning,
         NEW j \in AllRows(s0), NEW i \in AllRows(Result(n)), Row(Root(s0), j) = Row(Result(n), i)
  PROVE  /\ graph[Tensor(n)].op \notin {"pick", "matmul"}
         /\ \A k \in AllRows(Result(n)) : j = k % Size(s0) => i = k
<1>1. PICK x, u : x = Tensor(n) /\ u = Result(n) OBVIOUS
<1>2. Planned /\ cgraph = Program BY DEF Laying
<1>3. /\ x \in Nodes /\ u \in Nodes /\ u \in Keepers /\ x \in Tensors /\ u \in Tensors /\ x \in Nat /\ u \in Nat
      /\ cgraph[n].fused = 1 => u = x + 1 /\ Fusible(x)
      /\ cgraph[n].fused # 1 => u = x BY <1>1, <1>2, NodeFacts, OwningFacts
<1>4. s0 \in Tensors /\ ~Stored(s0) /\ s0 < x /\ Root(s0) < x /\ (s0 \in ToSet(graph[x].src) \/ (cgraph[n].fused = 1 /\ s0 \in ToSet(graph[u].src)))
  BY <1>1, <1>2, OperandFacts
<1>5. ShareRow(Root(s0), u)
  <2>1. j \in AllRows(Root(s0)) BY <1>2, <1>4, ViewRows
  <2> QED BY <1>1, <2>1 DEF ShareRow
<1>a. s0 < u /\ Root(s0) # u
  <2>1. s0 \in Nat /\ Root(s0) \in Nat BY <1>2, <1>4, TensorFacts, OwningFacts
  <2> QED BY <1>3, <1>4, <2>1
<1>6. AllRows(u) = 0 .. Size(u) - 1 /\ Size(u) \in Nat /\ u \in Owning
  <2>1. Root(s0) \in Keepers BY DEF Keepers
  <2>2. ~Stored(u) BY <1>1, <1>3, <1>a, <2>1, StoresApart
  <2> QED BY <1>2, <1>3, <2>2, OwningFacts
<1>7. CASE s0 \in ToSet(graph[u].src)
  <2>1. s0 = Root(s0) /\ CanInplace(graph[u].op) /\ TakesOver(u, s0) BY <1>3, <1>5, <1>6, <1>7, <1>a, ReaderTakesOver
  <2>2. i = j /\ Size(s0) = Size(u) BY <1>1, <1>3, <1>6, <2>1, AlignedRows DEF TakesOver
  <2>3. ASSUME NEW k \in AllRows(u), j = k % Size(s0) PROVE i = k BY <1>6, <2>2, <2>3
  <2>4. graph[x].op \notin {"pick", "matmul"} BY <1>3, <2>1 DEF CanInplace, Fusible
  <2> QED BY <1>1, <2>3, <2>4
<1>8. CASE cgraph[n].fused = 1 /\ s0 \in ToSet(graph[x].src)
  <2>1. u = x + 1 /\ Fusible(x) /\ graph[x].op = "norm" BY <1>3, <1>8 DEF Fusible
  <2>2. i = j BY <1>1, <1>3, <1>8, <2>1, FusedAligned
  <2>3. Size(s0) = Size(u)
    <3>1. Size(s0) = Size(x) BY <1>2, <1>3, <1>8, <2>1, NormReads
    <3>2. Size(u) = Size(x) BY <2>1 DEF Fusible
    <3> QED BY <3>1, <3>2
  <2>4. ASSUME NEW k \in AllRows(u), j = k % Size(s0) PROVE i = k BY <1>6, <2>2, <2>3, <2>4
  <2> QED BY <1>1, <2>1, <2>4
<1> QED BY <1>3, <1>4, <1>7, <1>8

\* So a row that is not computed yet finds what it reads.
LEMMA ReadsThere ==
  ASSUME Laying, NEW n \in DOMAIN cgraph, cgraph[n].op # "nop", NEW m, NEW done \in SUBSET AllRows(Result(n)),
         Underway(m, n, done), NEW s0 \in Operands(n)
  PROVE  /\ graph[Tensor(n)].op \in {"pick", "matmul"} \/ done = {} => \A j \in AllRows(s0) : InMem(m, s0, j)
         /\ \A k \in AllRows(Result(n)) \ done : InMem(m, s0, k % Size(s0))
<1>1. Planned /\ cgraph = Program BY DEF Laying
<1>2. /\ s0 \in Tensors /\ ~Stored(s0) /\ Root(s0) < Tensor(n)
      /\ External(Root(s0)) \/ (Root(s0) \in Owning /\ Needed(Root(s0), Tensor(n))) BY <1>1, OperandFacts
<1>3. /\ Size(s0) \in Nat /\ Size(s0) > 0 /\ AllRows(s0) = 0 .. Size(s0) - 1
      /\ AllRows(s0) \subseteq AllRows(Root(s0))
      /\ \A k : InMem(m, s0, k) <=> InMem(m, Root(s0), k) BY <1>1, <1>2, ViewRows
<1>4. CASE External(Root(s0)) BY <1>2, <1>4 DEF InMem, Home
<1>5. CASE Root(s0) \in Owning /\ Needed(Root(s0), Tensor(n))
  <2>1. \A j \in AllRows(s0) : InMem(m, s0, j) \/ \E i \in done : Row(Root(s0), j) = Row(Result(n), i)
    BY <1>2, <1>3, <1>5 DEF Underway, Keepers
  <2>2. graph[Tensor(n)].op \in {"pick", "matmul"} \/ done = {} => \A j \in AllRows(s0) : InMem(m, s0, j)
    BY <1>5, <2>1, OverwrittenLast
  <2>3. ASSUME NEW k \in AllRows(Result(n)), k \notin done
        PROVE  InMem(m, s0, k % Size(s0))
    <3>1. PICK z \in Nat : z = Size(s0) /\ z > 0 BY <1>3
    <3>2. k \in Nat
      <4>1. Result(n) \in Keepers BY <1>1, NodeFacts
      <4>2. Size(Result(n)) \in Nat /\ AllRows(Result(n)) = 0 .. Size(Result(n)) - 1 BY <1>1, <4>1, OwningFacts
      <4> QED BY <2>3, <4>2
    <3>3. PICK j : j = k % z OBVIOUS
    <3>4. j \in 0 .. z - 1 BY <3>1, <3>2, <3>3
    <3>5. j \in AllRows(s0) /\ j = k % Size(s0) BY <1>3, <3>1, <3>3, <3>4
    <3>6. ASSUME NEW i \in done, Row(Root(s0), j) = Row(Result(n), i)
          PROVE  FALSE
      <4>1. i \in AllRows(Result(n)) OBVIOUS
      <4>2. \A l \in AllRows(Result(n)) : j = l % Size(s0) => i = l BY <1>5, <3>5, <3>6, <4>1, OverwrittenLast
      <4>3. i = k BY <2>3, <3>5, <4>2, Zenon
      <4> QED BY <2>3, <4>3
    <3>7. InMem(m, s0, j) BY <2>1, <3>5, <3>6
    <3> QED BY <3>5, <3>7
  <2> QED BY <2>2, <2>3
<1> QED BY <1>2, <1>4, <1>5

\* And what has been stored is there: nothing is written over it.
StoresThere(n) == \A s \in StoresRead(n) : \A k \in AllRows(s) : Holds(s, k)

LEMMA StoresHold ==
  ASSUME Laying, NEW n \in DOMAIN cgraph, cgraph[n].op # "nop", NEW done, Underway(mem, n, done)
  PROVE  StoresThere(n)
<1>1. Planned /\ cgraph = Program BY DEF Laying
<1>2. Tensor(n) \in Nat /\ Result(n) \in Nat /\ Result(n) \in Keepers /\ Result(n) >= Tensor(n) BY <1>1, NodeFacts
<1> SUFFICES ASSUME NEW s \in StoresRead(n), NEW k \in AllRows(s) PROVE Holds(s, k) BY DEF StoresThere
<1>3. s \in Nat /\ s < Tensor(n) /\ s >= 1 /\ Stored(s) BY <1>2 DEF StoresRead
<1>4. s \in Keepers
  <2>1. Tensor(n) \in Tensors /\ Tensors = 1 .. Len(graph) /\ Len(graph) \in Nat BY <1>1, NodeFacts, SlotFacts, TensorFacts
  <2> QED BY <1>3, <2>1 DEF Keepers
<1>5. \A j \in done : Row(s, k) # Row(Result(n), j) BY <1>2, <1>3, <1>4, StoresApart
<1>6. Needed(s, Tensor(n)) BY <1>3 DEF Needed
<1> QED BY <1>3, <1>4, <1>5, <1>6 DEF Underway, InMem, Holds
----
\* The rows of a tensor, among the threads and the chunks.

\* Each row of a node's result is one thread's.
LEMMA RowsDealt ==
  ASSUME Planned, cgraph = Program, NEW n \in DOMAIN cgraph, cgraph[n].op # "nop"
  PROVE  /\ \A t \in Threads : RowsOf(t, n) \subseteq AllRows(Result(n))
         /\ \A k \in AllRows(Result(n)) : \E t \in Threads : k \in RowsOf(t, n)
         /\ \A t, u \in Threads : \A k \in RowsOf(t, n) : k \in RowsOf(u, n) => t = u
<1>1. PICK u : u = Result(n) OBVIOUS
<1>2. u \in Tensors /\ Size(u) \in Nat /\ Size(u) > 0 /\ AllRows(u) = 0 .. Size(u) - 1
  BY <1>1, NodeFacts, OwningFacts
<1>3. NThreads \in Nat /\ NThreads > 0 /\ Threads = 0 .. NThreads - 1 BY ThreadAssumption DEF Threads
<1>4. PICK d \in Nat : d = Ceil(Size(u), NThreads) BY <1>2, <1>3, CeilCovers
<1>5. CASE graph[Tensor(n)].op = "norm"
  <2>1. \A t : RowsOf(t, n) = {k \in AllRows(u) : k % NThreads = t} BY <1>1, <1>5 DEF RowsOf
  <2>2. \A k \in AllRows(u) : k % NThreads \in Threads BY <1>2, <1>3
  <2> QED BY <1>1, <2>1, <2>2
<1>6. CASE graph[Tensor(n)].op # "norm"
  <2>1. \A t : RowsOf(t, n) = Slice(u, d, t) BY <1>1, <1>4, <1>6 DEF RowsOf
  <2>2. \A t : RowsOf(t, n) \subseteq AllRows(u) BY <2>1 DEF Slice
  <2>3. \A k \in AllRows(u) : \E t \in Threads : k \in Slice(u, d, t) BY <1>2, <1>3, <1>4, SliceFound
  <2>4. \A t, v \in Threads : \A k \in Slice(u, d, t) : k \in Slice(u, d, v) => t = v
    <3>1. Threads \subseteq Nat /\ \A t : Slice(u, d, t) \subseteq Nat BY <1>2, <1>3 DEF Slice
    <3> QED BY <3>1, SlicesApart
  <2> QED BY <1>1, <2>1, <2>2, <2>3, <2>4
<1> QED BY <1>5, <1>6

\* Each row of a product is in a chunk.
LEMMA ChunksDealt ==
  ASSUME Planned, cgraph = Program, NEW n \in DOMAIN cgraph, cgraph[n].op = "matmul"
  PROVE  /\ \A c : ChunkRows(n, c) \subseteq AllRows(Result(n))
         /\ \A k \in AllRows(Result(n)) : \E c \in 0 .. cgraph[n].chunks - 1 : k \in ChunkRows(n, c)
<1>1. PICK u, c : u = Result(n) /\ c = cgraph[n].chunks OBVIOUS
<1>2. u = Tensor(n) /\ u \in Keepers /\ c \in Nat /\ c > 0 BY <1>1, NodeFacts
<1>3. u \in Tensors BY <1>2, OwningFacts
<1>4. \A i : ChunkRows(n, i) = Slice(u, Ceil(Size(u), c), i) BY <1>1, <1>2 DEF ChunkRows
<1>5. \A i : ChunkRows(n, i) \subseteq AllRows(u) BY <1>4 DEF Slice
<1>6. \A k \in AllRows(u) : \E i \in 0 .. c - 1 : k \in ChunkRows(n, i) BY <1>2, <1>3, <1>4, SliceFound
<1> QED BY <1>1, <1>5, <1>6
----
\* Memory, stage by stage.

\* The tensor whose turn it is in stage s.
Pos(s) == IF s[1] = "next" THEN Tensor(s[2]) + 1
          ELSE IF s[1] \in {"done", "end"} THEN Len(graph) + 1 ELSE Tensor(s[2])

Writing(t) == Stage(t)[1] \in {"rows", "product"}

\* The rows of node n that are computed.
RowsDone(n) ==
  {k \in AllRows(Result(n)) :
     IF cgraph[n].op = "rows" THEN \E t \in Threads : k \in RowsOf(t, n) /\ Stage(t) # Work("rows", n)
     ELSE \E e \in taken : e[1] = n /\ k \in ChunkRows(n, e[2])}

\* A stage is of a node's kind.
KindOf(s) ==
  /\ s[1] = "rows" => cgraph[s[2]].op = "rows"
  /\ s[1] \in {"matmul", "chunk", "product"} => cgraph[s[2]].op = "matmul" /\ s[2] \in DOMAIN cgraph

KindsKept == \A t \in Threads : KindOf(Stage(t))

UnderwayNow == \A t \in Threads : Writing(t) => Underway(mem, Stage(t)[2], RowsDone(Stage(t)[2]))
SettledNow == (\A u \in Threads : ~Writing(u)) => \A t \in Threads : Settled(mem, Pos(Stage(t)))

Prepared == data # <<>> /\ cgraph = Program /\ DOMAIN mem = MemRows

\* From the kickoff on, memory holds what is still to be read.
MemInv ==
  /\ KindsKept
  /\ pc[0] # "new" => /\ Prepared
                      /\ n_graph = 0 => Settled(mem, FirstNode)
                      /\ n_graph # 0 => UnderwayNow /\ SettledNow

\* Who is in a product reads what all have converted.
Converted ==
  /\ DOMAIN wdata = Threads
  /\ \A t \in Threads : Stage(t)[1] = "chunk" => wdata[t] = Stage(t)[2]
  /\ \A t \in Threads : Stage(t)[1] = "product" => \A u \in Threads : wdata[u] = Stage(t)[2]

\* Past the last tensor nothing changes any more.
LEMMA SettledEnd ==
  ASSUME Planned, NEW m, NEW p \in Nat, p >= Len(graph) + 1, Settled(m, p)
  PROVE  Settled(m, Len(graph) + 1)
<1>1. Len(graph) \in Nat BY DEF Planned
<1>2. PICK q \in Nat : q = Len(graph) + 1 BY <1>1
<1> SUFFICES ASSUME NEW s \in Keepers, s < q, Needed(s, q)
             PROVE  \A k \in AllRows(s) : InMem(m, s, k)
  BY <1>2 DEF Settled
<1>3. s \in Nat /\ s < p BY <1>2, OwningFacts
<1>4. Needed(s, p)
  <2>1. \A r \in Slots : ~(r[1] >= q)
    <3> TAKE r \in Slots
    <3>1. r[1] \in Tensors BY SlotFacts
    <3>2. r[1] \in Nat /\ r[1] <= Len(graph) BY <3>1, TensorFacts
    <3> QED BY <1>1, <1>2, <3>2
  <2> QED BY <2>1 DEF Needed
<1> QED BY <1>3, <1>4 DEF Settled

\* On the way to the next node with work there are views only.
LEMMA FromSettled ==
  ASSUME Planned, cgraph = Program, cgraph \in Seq(ProgramNode), NEW n \in Nat, n > 0,
         NEW m, Settled(m, Tensor(n))
  PROVE  Settled(m, Pos(From(cgraph, n)))
<1>1. FirstNode \in Nat /\ FirstNode >= 1 /\ Len(graph) \in Nat /\ Tensors = 1 .. Len(graph) /\ FirstNode <= Len(graph) + 1
  BY LeafsFirst DEF Planned, Tensors
<1>2. PICK p \in Nat : p = Tensor(n) /\ p = FirstNode + n - 1 /\ p >= FirstNode
  <2>1. FirstNode + n - 1 \in Nat /\ FirstNode + n - 1 >= FirstNode BY <1>1
  <2> QED BY <2>1 DEF Tensor
<1>3. Len(cgraph) = Len(graph) - FirstNode + 1
  <2>1. PICK l \in Nat : l = Len(graph) - FirstNode + 1 BY <1>1
  <2>2. DOMAIN cgraph = 1 .. l BY <2>1 DEF Program
  <2> QED BY <2>1, <2>2
<1>4. ASSUME NEW s \in Keepers, s \in Nat, p <= s
      PROVE  s - FirstNode + 1 \in Remaining(cgraph, n)
  <2>1. s \in 1 .. Len(graph) /\ graph[s].op # "view"
    <3>1. s \in Tensors /\ (Stored(s) \/ ~IsView(s)) BY OwningFacts
    <3> QED BY <1>1, <3>1, TensorFacts DEF Stored
  <2>2. PICK k : k = s - FirstNode + 1 OBVIOUS
  <2>3. k \in n .. Len(cgraph) /\ k \in 1 .. Len(graph) - FirstNode + 1 /\ FirstNode + k - 1 = s
    BY <1>1, <1>2, <1>3, <1>4, <2>1, <2>2
  <2>4. Tensor(k) = s BY <2>3 DEF Tensor
  <2>5. cgraph[k].op # "nop" BY <2>1, <2>3, <2>4 DEF Program
  <2> QED BY <2>2, <2>3, <2>5 DEF Remaining
<1>5. CASE Remaining(cgraph, n) = {}
  <2>1. Pos(From(cgraph, n)) = Len(graph) + 1 BY <1>5 DEF From, Gate, Pos
  <2>2. PICK q \in Nat : q = Len(graph) + 1 BY <1>1
  <2>3. CASE p <= q
    <3>1. \A s \in Keepers : ~(p <= s /\ s < q) BY <1>4, <1>5, OwningFacts
    <3> QED BY <1>2, <2>1, <2>2, <2>3, <3>1, SettledOn
  <2>4. CASE p >= q BY <1>2, <2>1, <2>2, <2>4, SettledEnd
  <2> QED BY <2>2, <2>3, <2>4
<1>6. CASE Remaining(cgraph, n) # {}
  <2>1. PICK k : k = Soonest(cgraph, n) OBVIOUS
  <2>2. k \in DOMAIN cgraph /\ cgraph[k].op \in {"rows", "matmul"} BY <1>6, <2>1, SoonestExists
  <2>3. Remaining(cgraph, n) \subseteq Nat BY DEF Remaining
  <2>4. k \in Remaining(cgraph, n) /\ \A l \in Remaining(cgraph, n) : k <= l
    BY <1>6, <2>1, <2>3, LeastNumber DEF Soonest
  <2>5. Pos(From(cgraph, n)) = Tensor(k) BY <1>6, <2>1, <2>2 DEF From, Work, Pos
  <2>6. PICK q \in Nat : q = Tensor(k) /\ q = FirstNode + k - 1 /\ p <= q
    <3>1. k \in Nat /\ n <= k BY <2>3, <2>4 DEF Remaining
    <3>2. FirstNode + k - 1 \in Nat /\ p <= FirstNode + k - 1 BY <1>1, <1>2, <3>1
    <3> QED BY <3>2 DEF Tensor
  <2>7. \A s \in Keepers : ~(p <= s /\ s < q)
    <3> SUFFICES ASSUME NEW s \in Keepers, p <= s, s < q PROVE FALSE OBVIOUS
    <3>1. s \in Nat BY OwningFacts
    <3>2. k <= s - FirstNode + 1 /\ k \in Nat BY <1>4, <2>3, <2>4, <3>1
    <3> QED BY <1>1, <2>6, <3>1, <3>2
  <2> QED BY <1>2, <2>5, <2>6, <2>7, SettledOn
<1> QED BY <1>5, <1>6

\* The tensor is done when all of its rows are: the next is next.
LEMMA ExitSettled ==
  ASSUME Laying, cgraph \in Seq(ProgramNode), NEW n \in DOMAIN cgraph, cgraph[n].op # "nop",
         NEW kind \in {"rows", "product"}, NEW m, Underway(m, n, AllRows(Result(n)))
  PROVE  Settled(m, Pos(Exit(cgraph, Work(kind, n))))
<1>1. Planned /\ cgraph = Program /\ n \in Nat BY DEF Laying
<1>2. FirstNode \in Nat /\ FirstNode >= 1 /\ Len(graph) \in Nat /\ FirstNode <= Len(graph) + 1
  BY <1>1, LeafsFirst
<1>3. PICK u \in Nat : u = Result(n) BY <1>1, NodeFacts
<1>4. PICK p \in Nat : p = u + 1 OBVIOUS
<1>5. Settled(m, p) BY <1>3, <1>4, Completed
<1>6. PICK k : k = n + cgraph[n].fused OBVIOUS
<1>7. k \in Nat /\ u = Tensor(k)
  <2>1. cgraph[n].fused \in {0, 1} BY <1>1, NodeFacts
  <2> QED BY <1>1, <1>3, <1>6, <2>1 DEF Result
<1>8. Exit(cgraph, Work(kind, n)) = IF k < Len(cgraph) THEN Gate("next", k) ELSE Gate("done", 0)
  BY <1>1, <1>6 DEF Exit, Work, WorkStages
<1>9. CASE k < Len(cgraph)
  <2>1. Pos(Exit(cgraph, Work(kind, n))) = Tensor(k) + 1 BY <1>8, <1>9 DEF Gate, Pos
  <2> QED BY <1>4, <1>5, <1>7, <2>1
<1>10. CASE ~(k < Len(cgraph))
  <2>1. Pos(Exit(cgraph, Work(kind, n))) = Len(graph) + 1 BY <1>8, <1>10 DEF Gate, Pos
  <2>2. PICK l \in Nat : l = Len(graph) - FirstNode + 1
    <3>1. Len(graph) - FirstNode + 1 \in Nat BY <1>2
    <3> QED BY <3>1
  <2>3. Len(cgraph) = l
    <3>1. DOMAIN cgraph = 1 .. l BY <1>1, <2>2 DEF Program
    <3> QED BY <3>1
  <2>4. u = FirstNode + k - 1 BY <1>7 DEF Tensor
  <2>5. p >= Len(graph) + 1 BY <1>2, <1>4, <1>7, <1>10, <2>2, <2>3, <2>4
  <2> QED BY <1>1, <1>5, <2>1, <2>5, SettledEnd
<1> QED BY <1>9, <1>10
----
\* The steps.  While nobody plans, all lies where it lay.

\* What is said of memory stays while the plan does.
LEMMA SamePlaces ==
  ASSUME UNCHANGED allocVars
  PROVE  /\ \A n : Tensor(n)' = Tensor(n)
         /\ \A t : Size(t)' = Size(t) /\ AllRows(t)' = AllRows(t)
         /\ \A m, s, k : InMem(m, s, k)' <=> InMem(m, s, k)
         /\ \A s, p : Needed(s, p)' <=> Needed(s, p)
         /\ \A s, k : Row(s, k)' = Row(s, k)
         /\ Keepers' = Keepers /\ \A m, p : Settled(m, p)' <=> Settled(m, p)
         /\ MemRows' = MemRows /\ Program' = Program /\ data' = data
<1>1. UNCHANGED <<graph, batch, buffer, data>> BY DEF allocVars
<1>2. /\ Tensors' = Tensors /\ Owning' = Owning /\ FirstNode' = FirstNode /\ Slots' = Slots
      /\ \A t : External(t)' = External(t) /\ Stored(t)' = Stored(t) /\ Home(t)' = Home(t)
      /\ (\A t : Root(t)' = Root(t)) /\ (\A r : Source(r)' = Source(r)) /\ \A t : Children(t)' = Children(t)
  BY <1>1, SameShape
<1>3. \A n : Tensor(n)' = Tensor(n) BY <1>2 DEF Tensor
<1>4. \A t : Size(t)' = Size(t) /\ AllRows(t)' = AllRows(t) BY <1>1 DEF Size, AllRows
<1>5. \A s, k : Row(s, k)' = Row(s, k) BY <1>1, <1>2 DEF Row
<1>6. (\A m, s, k : InMem(m, s, k)' <=> InMem(m, s, k)) /\ \A s, p : Needed(s, p)' <=> Needed(s, p)
  BY <1>1, <1>2, <1>5 DEF InMem, Needed
<1>7. Keepers' = Keepers /\ \A m, p : Settled(m, p)' <=> Settled(m, p) BY <1>2, <1>4, <1>6 DEF Settled, Keepers
<1>8. MemRows' = MemRows BY <1>1, <1>2, <1>4 DEF MemRows, BufferRows
<1>9. Program' = Program BY <1>1, <1>2, <1>3, <1>4 DEF Program, Product, Fusible, ChunksOf
<1> QED BY <1>1, <1>3, <1>4, <1>5, <1>6, <1>7, <1>8, <1>9

\* Nor does what is said of a node's rows change, with the program.
LEMMA SameMemory ==
  ASSUME UNCHANGED <<allocVars, cgraph>>
  PROVE  /\ \A m, p : Settled(m, p)' <=> Settled(m, p)
         /\ \A m, n, d : Underway(m, n, d)' <=> Underway(m, n, d)
         /\ \A n : Tensor(n)' = Tensor(n) /\ Result(n)' = Result(n) /\ AllRows(n)' = AllRows(n)
         /\ \A s : Pos(s)' = Pos(s) /\ (KindOf(s)' <=> KindOf(s))
         /\ \A t, n : RowsOf(t, n)' = RowsOf(t, n) /\ ChunkRows(t, n)' = ChunkRows(t, n)
         /\ MemRows' = MemRows /\ Program' = Program /\ data' = data /\ cgraph' = cgraph
<1>1. graph' = graph /\ cgraph' = cgraph /\ Keepers' = Keepers BY SamePlaces DEF allocVars
<1>2. /\ \A n : Tensor(n)' = Tensor(n)
      /\ \A t : Size(t)' = Size(t) /\ AllRows(t)' = AllRows(t)
      /\ (\A m, s, k : InMem(m, s, k)' <=> InMem(m, s, k)) /\ \A s, p : Needed(s, p)' <=> Needed(s, p)
      /\ \A s, k : Row(s, k)' = Row(s, k)
      /\ \A m, p : Settled(m, p)' <=> Settled(m, p)
      /\ MemRows' = MemRows /\ Program' = Program /\ data' = data BY SamePlaces
<1>3. \A n : Result(n)' = Result(n) BY <1>1, <1>2 DEF Result
<1>4. \A m, n, d : Underway(m, n, d)' <=> Underway(m, n, d) BY <1>1, <1>2, <1>3 DEF Underway
<1>5. \A s : Pos(s)' = Pos(s) /\ (KindOf(s)' <=> KindOf(s)) BY <1>1, <1>2 DEF Pos, KindOf
<1>6. \A t, d, i : Slice(t, d, i)' = Slice(t, d, i) BY <1>2 DEF Slice
<1>7. \A t, n : RowsOf(t, n)' = RowsOf(t, n) /\ ChunkRows(t, n)' = ChunkRows(t, n)
  BY <1>1, <1>2, <1>3, <1>6 DEF RowsOf, ChunkRows
<1> QED BY <1>1, <1>2, <1>3, <1>4, <1>5, <1>7

\* A step in which nobody comes further and nothing is computed.
LEMMA QuietMem ==
  ASSUME MemInv, Converted, UNCHANGED <<allocVars, cgraph, mem, wdata, n_graph, taken>>,
         \A t \in Threads : Stage(t)' = Stage(t), pc'[0] # "new" => pc[0] # "new"
  PROVE  MemInv' /\ Converted'
<1>1. /\ \A m, p : Settled(m, p)' <=> Settled(m, p)
      /\ \A m, n, d : Underway(m, n, d)' <=> Underway(m, n, d)
      /\ \A n : Result(n)' = Result(n) /\ AllRows(n)' = AllRows(n)
      /\ \A s : Pos(s)' = Pos(s) /\ (KindOf(s)' <=> KindOf(s))
      /\ \A t, n : RowsOf(t, n)' = RowsOf(t, n) /\ ChunkRows(t, n)' = ChunkRows(t, n)
      /\ MemRows' = MemRows /\ Program' = Program /\ data' = data /\ cgraph' = cgraph BY SameMemory
<1>2. FirstNode' = FirstNode BY SameShape DEF allocVars
<1>3. KindsKept' BY <1>1 DEF MemInv, KindsKept
<1>4. Converted' BY DEF Converted
<1>5. \A n : RowsDone(n)' = RowsDone(n) BY <1>1 DEF RowsDone
<1>6. ASSUME Prepared PROVE Prepared' BY <1>1, <1>6 DEF Prepared
<1>7. PICK m : m = mem /\ m = mem' OBVIOUS
<1>8. ASSUME Settled(mem, FirstNode) PROVE Settled(mem, FirstNode)'
  <2>1. PICK p : p = FirstNode /\ p = FirstNode' BY <1>2
  <2>2. Settled(m, p)' BY <1>1, <1>7, <1>8, <2>1
  <2> QED BY <1>7, <2>1, <2>2
<1>9. ASSUME UnderwayNow PROVE UnderwayNow'
  <2> SUFFICES ASSUME NEW t \in Threads, Writing(t)'
               PROVE  Underway(mem, Stage(t)[2], RowsDone(Stage(t)[2]))'
    BY DEF UnderwayNow
  <2>1. PICK n : n = Stage(t)[2] /\ n = (Stage(t)[2])' OBVIOUS
  <2>2. PICK d : d = RowsDone(n) /\ d = RowsDone(n)' BY <1>5
  <2>3. Writing(t) BY DEF Writing
  <2>4. Underway(m, n, d) BY <1>7, <1>9, <2>1, <2>2, <2>3 DEF UnderwayNow
  <2>5. Underway(m, n, d)' BY <1>1, <2>4
  <2> QED BY <1>7, <2>1, <2>2, <2>5
<1>10. ASSUME SettledNow PROVE SettledNow'
  <2> SUFFICES ASSUME \A u \in Threads : ~Writing(u)', NEW t \in Threads
               PROVE  Settled(mem, Pos(Stage(t)))'
    BY DEF SettledNow
  <2>1. \A u \in Threads : ~Writing(u) BY DEF Writing
  <2>2. PICK s, p : s = Stage(t) /\ s = Stage(t)' /\ p = Pos(s) /\ p = Pos(s)' BY <1>1
  <2>3. Settled(m, p) BY <1>7, <1>10, <2>1, <2>2 DEF SettledNow
  <2>4. Settled(m, p)' BY <1>1, <2>3
  <2> QED BY <1>7, <2>2, <2>4
<1> QED BY <1>3, <1>4, <1>6, <1>8, <1>9, <1>10 DEF MemInv

\* The stage found from a node is of its kind.
LEMMA FromKind ==
  ASSUME cgraph \in Seq(ProgramNode), NEW n \in Nat, n > 0
  PROVE  KindOf(From(cgraph, n))
<1>1. CASE Remaining(cgraph, n) = {} BY <1>1 DEF From, Gate, KindOf
<1>2. CASE Remaining(cgraph, n) # {} BY <1>2, SoonestExists DEF From, Work, KindOf
<1> QED BY <1>1, <1>2

\* All arrive at the next node at once.
LEMMA ArriveMem ==
  ASSUME Planned, cgraph = Program, cgraph \in Seq(ProgramNode), UNCHANGED <<allocVars, cgraph, mem>>,
         NEW n \in Nat, n > 0, Settled(mem, Tensor(n)),
         \A t \in Threads : Stage(t)' = From(cgraph, n)
  PROVE  KindsKept' /\ UnderwayNow' /\ SettledNow'
<1>1. /\ \A m, p : Settled(m, p)' <=> Settled(m, p)
      /\ \A m, k, d : Underway(m, k, d)' <=> Underway(m, k, d)
      /\ \A s : Pos(s)' = Pos(s) /\ (KindOf(s)' <=> KindOf(s))
      /\ cgraph' = cgraph BY SameMemory
<1>2. PICK m : m = mem /\ m = mem' OBVIOUS
<1>3. PICK s : s = From(cgraph, n) OBVIOUS
<1>4. Settled(m, Pos(s)) /\ KindOf(s) BY <1>2, <1>3, FromSettled, FromKind
<1>5. \A t \in Threads : Stage(t)' = s BY <1>3
<1>6. s = <<"done", 0>> \/ \E kind \in {"rows", "matmul"}, k \in DOMAIN cgraph : s = <<kind, k>>
  BY <1>3, FromType
<1>7. KindsKept' BY <1>1, <1>4, <1>5 DEF KindsKept
<1>8. UnderwayNow'
  <2> SUFFICES ASSUME NEW t \in Threads, Writing(t)'
               PROVE  Underway(mem, Stage(t)[2], RowsDone(Stage(t)[2]))'
    BY DEF UnderwayNow
  <2>1. s[1] \in {"rows", "product"} BY <1>5 DEF Writing
  <2>2. PICK k : k \in DOMAIN cgraph /\ s = <<"rows", k>> BY <1>6, <2>1
  <2>3. cgraph[k].op = "rows" BY <1>4, <2>2 DEF KindOf
  <2>4. RowsDone(k)' = {} BY <1>1, <1>5, <2>2, <2>3 DEF RowsDone, Work
  <2>5. Pos(s) = Tensor(k) BY <2>2 DEF Pos
  <2>6. Underway(m, k, {})' BY <1>1, <1>4, <2>5, Entered
  <2>7. k = (Stage(t)[2])' BY <1>5, <2>2
  <2> QED BY <1>2, <2>4, <2>6, <2>7
<1>9. SettledNow'
  <2> SUFFICES ASSUME NEW t \in Threads
               PROVE  Settled(mem, Pos(Stage(t)))'
    BY DEF SettledNow
  <2>1. PICK p : p = Pos(s) /\ p = Pos(s)' BY <1>1
  <2>2. Settled(m, p)' BY <1>1, <1>4, <2>1
  <2> QED BY <1>2, <1>5, <2>1, <2>2
<1> QED BY <1>7, <1>8, <1>9

\* Threads come from a node one by one, the last when all of it is done.
LEMMA LeaveMem ==
  ASSUME Laying, cgraph \in Seq(ProgramNode), UNCHANGED <<allocVars, cgraph>>,
         NEW n \in DOMAIN cgraph, NEW kind \in {"rows", "product"}, KindOf(Work(kind, n)),
         \A u \in Threads : Stage(u)' \in {Work(kind, n), Exit(cgraph, Work(kind, n))},
         NEW m, m = mem', NEW d, d = RowsDone(n)', Underway(m, n, d),
         (\A u \in Threads : Stage(u)' # Work(kind, n)) => d = AllRows(Result(n))
  PROVE  KindsKept' /\ UnderwayNow' /\ SettledNow'
<1>1. /\ \A x, p : Settled(x, p)' <=> Settled(x, p)
      /\ \A x, k, y : Underway(x, k, y)' <=> Underway(x, k, y)
      /\ \A s : Pos(s)' = Pos(s) /\ (KindOf(s)' <=> KindOf(s))
      /\ cgraph' = cgraph BY SameMemory
<1>2. PICK s, e : s = Work(kind, n) /\ e = Exit(cgraph, s) OBVIOUS
<1>3. cgraph[n].op # "nop" /\ n \in Nat BY DEF KindOf, Work
<1>4. IsStage(s) /\ s[1] = kind /\ s[2] = n BY <1>2, <1>3 DEF IsStage, Work, Kinds
<1>5. e[1] \notin {"rows", "matmul", "product", "chunk"} BY <1>2, <1>4, ExitOnward
<1>6. \A u \in Threads : Stage(u)' \in {s, e} BY <1>2
<1>7. KindsKept'
  <2>1. KindOf(s) /\ KindOf(e) BY <1>2, <1>5 DEF KindOf
  <2> QED BY <1>1, <1>6, <2>1 DEF KindsKept
<1>8. UnderwayNow'
  <2> SUFFICES ASSUME NEW t \in Threads, Writing(t)'
               PROVE  Underway(mem, Stage(t)[2], RowsDone(Stage(t)[2]))'
    BY DEF UnderwayNow
  <2>1. n = (Stage(t)[2])' BY <1>4, <1>5, <1>6 DEF Writing
  <2>2. Underway(m, n, d)' BY <1>1
  <2> QED BY <2>1, <2>2
<1>9. SettledNow'
  <2> SUFFICES ASSUME \A u \in Threads : ~Writing(u)', NEW t \in Threads
               PROVE  Settled(mem, Pos(Stage(t)))'
    BY DEF SettledNow
  <2>1. \A u \in Threads : Stage(u)' = e BY <1>4, <1>6 DEF Writing
  <2>2. d = AllRows(Result(n))
    <3>1. e # s BY <1>4, <1>5
    <3> QED BY <1>2, <2>1, <3>1
  <2>3. Settled(m, Pos(e)) BY <1>2, <1>3, <2>2, ExitSettled
  <2>4. PICK p : p = Pos(e) /\ p = Pos(e)' BY <1>1
  <2>5. Settled(m, p)' BY <1>1, <2>3, <2>4
  <2> QED BY <2>1, <2>4, <2>5
<1> QED BY <1>7, <1>8, <1>9
----
\* The steps that compute.

\* Whoever is in the graph finds the memory prepared.
LEMMA Present ==
  ASSUME IInv, PlanInv, UseInv, MemInv, NEW t \in Threads, AtWork(t) \/ InBarrier(t)
  PROVE  /\ Laying /\ Planned /\ Prepared /\ UnderwayNow /\ SettledNow /\ KindsKept
         /\ n_graph # 0 /\ pc[0] # "new" /\ cgraph \in Seq(ProgramNode)
<1>1. n_graph # 0 /\ pc[0] # "new" /\ cgraph \in Seq(ProgramNode) BY InGraph DEF IInv, TPTypeOK
<1>2. Prepared /\ UnderwayNow /\ SettledNow /\ KindsKept BY <1>1 DEF MemInv
<1>3. Planned /\ Laid BY <1>2, LaidOut, ShapeFacts DEF Prepared, PlanInv
<1> QED BY <1>1, <1>2, <1>3 DEF Laying, Prepared

\* What is converted stays so while nobody enters a product.
LEMMA ConvertedKept ==
  ASSUME Converted, wdata' = wdata,
         \A t \in Threads : Stage(t)'[1] \in {"chunk", "product"} => Stage(t)' = Stage(t)
  PROVE  Converted'
<1>1. ASSUME NEW t \in Threads, Stage(t)'[1] = "chunk" PROVE wdata'[t] = Stage(t)'[2] BY <1>1 DEF Converted
<1>2. ASSUME NEW t \in Threads, Stage(t)'[1] = "product", NEW u \in Threads PROVE wdata'[u] = Stage(t)'[2]
  <2>1. Stage(t)' = Stage(t) BY <1>2
  <2> QED BY <1>2, <2>1 DEF Converted
<1> QED BY <1>1, <1>2 DEF Converted

\* Whoever leaves a node for its barrier leaves the others where they are.
LEMMA LeavesAlone ==
  ASSUME IInv, NEW t \in Threads, OnlyMoves(t), NEW s, s = Stage(t), s[1] \in {"rows", "product"},
         Stage(t)' \in {s, Exit(cgraph, s)}
  PROVE  /\ \A u \in Threads : Stage(u) \in {s, Exit(cgraph, s)} /\ Stage(u)' \in {s, Exit(cgraph, s)}
         /\ \A u \in Threads : u # t => Stage(u)' = Stage(u)
         /\ \A u \in Threads : Stage(u)'[1] \in {"chunk", "product"} => Stage(u)' = Stage(u)
         /\ Exit(cgraph, s) # s
<1>1. cgraph \in Seq(ProgramNode) /\ IsStage(s) BY StageType DEF IInv, TPTypeOK
<1>2. s \in WorkStages BY <1>1 DEF WorkStages, IsStage
<1>3. \A u \in Threads : Stage(u) \in {s, Exit(cgraph, s)} BY <1>2, Companions
<1>4. \A u \in Threads : u # t => Stage(u)' = Stage(u) BY OthersHold
<1>5. Exit(cgraph, s)[1] \notin {"rows", "product", "chunk"} BY <1>1, ExitOnward
<1> QED BY <1>3, <1>4, <1>5

\* Rows that were dealt out beforehand.
LEMMA RowsMem ==
  ASSUME IInv, PlanInv, UseInv, MemInv, Converted, NEW t \in Threads, ComputeRows(t)
  PROVE  MemInv' /\ Converted'
<1>1. PICK n, s, done, m : n = node_n[t] /\ s = Work("rows", n) /\ done = RowsDone(n) /\ m = mem' OBVIOUS
<1>2. /\ AtWork(t) /\ Stage(t) = s /\ s[1] = "rows" /\ s[2] = n /\ n \in DOMAIN cgraph
      /\ Rows(t) /\ pc[t] = "rows" /\ UNCHANGED <<allocVars, wdata, cgraph, n_graph>>
      /\ m = Written(Result(n), RowsOf(t, n))
  BY <1>1 DEF ComputeRows, Rows, AtWork, Stage, Work, IInv, NodesExist, walkVars
<1>3. /\ Laying /\ Planned /\ Prepared /\ UnderwayNow /\ SettledNow /\ KindsKept
      /\ n_graph # 0 /\ cgraph \in Seq(ProgramNode) /\ cgraph = Program BY <1>2, Present DEF Prepared
<1>4. cgraph[n].op = "rows" /\ cgraph[n].op # "nop" /\ KindOf(s) BY <1>2, <1>3 DEF KindsKept, KindOf
<1>5. OnlyMoves(t) /\ Stage(t)' = Exit(cgraph, s) BY <1>2, LeaveIsLocal DEF Rows, Local
<1>6. /\ \A u \in Threads : Stage(u)' \in {s, Exit(cgraph, s)}
      /\ \A u \in Threads : u # t => Stage(u)' = Stage(u)
      /\ \A u \in Threads : Stage(u)'[1] \in {"chunk", "product"} => Stage(u)' = Stage(u)
      /\ Exit(cgraph, s) # s BY <1>2, <1>5, LeavesAlone
<1>7. Underway(mem, n, done) BY <1>1, <1>2, <1>3 DEF UnderwayNow, Writing
<1>8. /\ \A u \in Threads : RowsOf(u, n) \subseteq AllRows(Result(n))
      /\ \A k \in AllRows(Result(n)) : \E u \in Threads : k \in RowsOf(u, n) BY <1>3, <1>4, <1>2, RowsDealt
<1>9. DOMAIN m = MemRows /\ Underway(m, n, done \cup RowsOf(t, n))
  BY <1>2, <1>3, <1>4, <1>7, <1>8, WrittenUnderway DEF Prepared
<1>10. /\ AllRows(Result(n))' = AllRows(Result(n)) /\ \A u : RowsOf(u, n)' = RowsOf(u, n)
       /\ MemRows' = MemRows /\ Program' = Program /\ data' = data BY <1>2, SameMemory
<1>11. PICK d : d = RowsDone(n)' OBVIOUS
<1>12. d = {k \in AllRows(Result(n)) : \E u \in Threads : k \in RowsOf(u, n) /\ Stage(u)' # s}
  BY <1>1, <1>2, <1>4, <1>10, <1>11 DEF RowsDone
<1>13. done = {k \in AllRows(Result(n)) : \E u \in Threads : k \in RowsOf(u, n) /\ Stage(u) # s}
  BY <1>1, <1>4 DEF RowsDone
<1>14. d = done \cup RowsOf(t, n) BY <1>2, <1>5, <1>6, <1>8, <1>12, <1>13
<1>15. (\A u \in Threads : Stage(u)' # s) => d = AllRows(Result(n)) BY <1>8, <1>12
<1>16. KindsKept' /\ UnderwayNow' /\ SettledNow'
  BY <1>1, <1>2, <1>3, <1>4, <1>6, <1>9, <1>11, <1>14, <1>15, LeaveMem
<1>17. Prepared' BY <1>1, <1>2, <1>3, <1>9, <1>10 DEF Prepared
<1>18. Converted' BY <1>2, <1>6, ConvertedKept
<1> QED BY <1>2, <1>3, <1>16, <1>17, <1>18 DEF MemInv

\* What is known in a product.
LEMMA ProductNow ==
  ASSUME IInv, PlanInv, UseInv, MemInv, NEW t \in Threads, pc[t] \in {"chunk", "fetch"}, NEW n, n = node_n[t]
  PROVE  /\ AtWork(t) /\ Stage(t) = Work("product", n) /\ n \in DOMAIN cgraph
         /\ Laying /\ Planned /\ cgraph = Program /\ Prepared /\ n_graph # 0 /\ cgraph \in Seq(ProgramNode)
         /\ cgraph[n].op = "matmul" /\ cgraph[n].op # "nop" /\ KindOf(Work("product", n))
         /\ cgraph[n].chunks \in Nat /\ Result(n) = Tensor(n)
         /\ Underway(mem, n, RowsDone(n)) /\ RowsDone(n) \subseteq AllRows(Result(n))
<1>1. AtWork(t) /\ Stage(t) = Work("product", n) /\ n \in DOMAIN cgraph BY DEF AtWork, Stage, IInv, NodesExist
<1>2. /\ Laying /\ Planned /\ Prepared /\ UnderwayNow /\ SettledNow /\ KindsKept
      /\ n_graph # 0 /\ cgraph \in Seq(ProgramNode) /\ cgraph = Program BY <1>1, Present DEF Prepared
<1>3. KindOf(Work("product", n)) /\ cgraph[n].op = "matmul" BY <1>1, <1>2 DEF KindsKept, KindOf, Work
<1>4. cgraph[n].chunks \in Nat /\ Result(n) = Tensor(n) BY <1>1, <1>2, <1>3, NodeFacts
<1>5. Underway(mem, n, RowsDone(n)) BY <1>1, <1>2 DEF UnderwayNow, Writing, Work
<1>6. RowsDone(n) \subseteq AllRows(Result(n)) BY DEF RowsDone
<1> QED BY <1>1, <1>2, <1>3, <1>4, <1>5, <1>6

\* A chunk is computed.
LEMMA ChunkMem ==
  ASSUME IInv, ChunkInv, AccountInv, PlanInv, UseInv, MemInv, Converted, NEW t \in Threads, ComputeChunk(t)
  PROVE  MemInv' /\ Converted'
<1>1. PICK n, s, done, m : n = node_n[t] /\ s = Work("product", n) /\ done = RowsDone(n) /\ m = mem' OBVIOUS
<1>2. /\ pc[t] = "chunk" /\ UNCHANGED <<allocVars, wdata, cgraph, n_graph>>
      /\ m = Written(Tensor(n), ChunkRows(n, chunk[t]))
      /\ Chunk(t) /\ taken' = taken \cup {<<n, chunk[t]>>} /\ chunk[t] < cgraph[n].chunks
  BY <1>1 DEF ComputeChunk, Chunk, Chunks, walkVars
<1>3. /\ AtWork(t) /\ Stage(t) = s /\ s[1] = "product" /\ s[2] = n /\ n \in DOMAIN cgraph
      /\ Laying /\ Planned /\ cgraph = Program /\ Prepared /\ n_graph # 0 /\ cgraph \in Seq(ProgramNode)
      /\ cgraph[n].op = "matmul" /\ cgraph[n].op # "nop" /\ KindOf(s)
      /\ cgraph[n].chunks \in Nat /\ Result(n) = Tensor(n) /\ Underway(mem, n, done)
  BY <1>1, <1>2, ProductNow DEF Work
<1>5. /\ OnlyMoves(t) /\ Stage(t)' \in {s, Exit(cgraph, s)}
      /\ Stage(t)' # s => NThreads >= cgraph[n].chunks
  <2>1. CASE NThreads >= cgraph[n].chunks
    <3>1. Leave(t) /\ UNCHANGED <<walkVars, n_barrier, n_barrier_passed, n_passed>>
      BY <1>1, <1>2, <2>1 DEF Chunk, Chunks
    <3> QED BY <1>2, <1>3, <2>1, <3>1, LeaveIsLocal DEF Local
  <2>2. CASE ~(NThreads >= cgraph[n].chunks)
    <3>1. pc' = [pc EXCEPT ![t] = "fetch"] /\ node_n' = node_n BY <1>1, <1>2, <2>2 DEF Chunk, Chunks, Go
    <3>2. Stage(t)' = s BY <1>1, <3>1 DEF Stage, AtWork, IInv, TPTypeOK, PlacesOK
    <3>3. Local(t) BY <1>2, WorkingIsLocal
    <3> QED BY <3>2, <3>3 DEF Local
  <2> QED BY <2>1, <2>2
<1>6. /\ \A u \in Threads : Stage(u)' \in {s, Exit(cgraph, s)}
      /\ \A u \in Threads : u # t => Stage(u)' = Stage(u)
      /\ \A u \in Threads : Stage(u)'[1] \in {"chunk", "product"} => Stage(u)' = Stage(u)
      /\ Exit(cgraph, s) # s BY <1>3, <1>5, LeavesAlone
<1>8. /\ \A c : ChunkRows(n, c) \subseteq AllRows(Result(n))
      /\ \A k \in AllRows(Result(n)) : \E c \in 0 .. cgraph[n].chunks - 1 : k \in ChunkRows(n, c)
  BY <1>3, ChunksDealt
<1>9. DOMAIN m = MemRows /\ Underway(m, n, done \cup ChunkRows(n, chunk[t]))
  BY <1>2, <1>3, <1>8, WrittenUnderway DEF Prepared
<1>10. /\ AllRows(Result(n))' = AllRows(Result(n)) /\ \A c : ChunkRows(n, c)' = ChunkRows(n, c)
       /\ MemRows' = MemRows /\ Program' = Program /\ data' = data BY <1>2, SameMemory
<1>11. PICK d : d = RowsDone(n)' OBVIOUS
<1>12. d = {k \in AllRows(Result(n)) : \E e \in taken' : e[1] = n /\ k \in ChunkRows(n, e[2])}
  BY <1>2, <1>3, <1>10, <1>11 DEF RowsDone
<1>13. done = {k \in AllRows(Result(n)) : \E e \in taken : e[1] = n /\ k \in ChunkRows(n, e[2])}
  BY <1>1, <1>3 DEF RowsDone
<1>14. d = done \cup ChunkRows(n, chunk[t])
  <2>1. PICK e : e = <<n, chunk[t]>> OBVIOUS
  <2>2. e[1] = n /\ e[2] = chunk[t] /\ taken' = taken \cup {e} BY <1>2, <2>1
  <2>3. \A k \in AllRows(Result(n)) : k \in d <=> k \in done \/ k \in ChunkRows(n, chunk[t])
    BY <1>12, <1>13, <2>2
  <2> QED BY <1>8, <1>12, <1>13, <2>3
<1>15. ASSUME \A u \in Threads : Stage(u)' # s PROVE d = AllRows(Result(n))
  <2>1. NThreads >= cgraph[n].chunks /\ current_chunk \in Nat /\ current_chunk >= NThreads
    BY <1>3, <1>5, <1>15 DEF ChunkInv, ChunkTypes, ChunksReset
  <2>2. \A u \in Threads : Holding(u) => u = t
    <3>1. \A u \in Threads : Holding(u) => Stage(u) = s BY <1>1, <1>2, InProduct DEF Work
    <3> QED BY <1>6, <1>15, <3>1
  <2>3. Accounts(n) BY <1>3 DEF AccountInv, Accounted
  <2>4. \A c \in 0 .. cgraph[n].chunks - 1 : <<n, c>> \in taken'
    <3> SUFFICES ASSUME NEW c \in 0 .. cgraph[n].chunks - 1 PROVE <<n, c>> \in taken' OBVIOUS
    <3>1. ~(c >= current_chunk) BY <1>3, <2>1, ThreadAssumption
    <3> QED BY <1>2, <2>2, <2>3, <3>1 DEF Accounts
  <2> QED BY <1>8, <1>12, <2>4
<1>16. KindsKept' /\ UnderwayNow' /\ SettledNow'
  <2>1. Underway(m, n, d) BY <1>9, <1>14
  <2>2. UNCHANGED <<allocVars, cgraph>> BY <1>2
  <2> QED BY <1>1, <1>3, <1>6, <1>11, <1>15, <2>1, <2>2, LeaveMem
<1>17. Prepared' BY <1>1, <1>2, <1>3, <1>9, <1>10 DEF Prepared
<1>18. Converted' BY <1>2, <1>6, ConvertedKept
<1> QED BY <1>2, <1>3, <1>16, <1>17, <1>18 DEF MemInv

\* A thread that finds no more chunks.
LEMMA NoMoreMem ==
  ASSUME IInv, ChunkInv, AccountInv, PlanInv, UseInv, MemInv, Converted, NEW t \in Threads, NoMoreChunks(t),
         UNCHANGED <<allocVars, mem, wdata>>
  PROVE  MemInv' /\ Converted'
<1>1. PICK n, s, done, m : n = node_n[t] /\ s = Work("product", n) /\ done = RowsDone(n) /\ m = mem' /\ m = mem
  OBVIOUS
<1>2. /\ pc[t] = "chunk" /\ UNCHANGED <<allocVars, wdata, cgraph, n_graph>>
      /\ taken' = taken /\ chunk[t] >= cgraph[n].chunks /\ Leave(t)
      /\ UNCHANGED <<walkVars, n_barrier, n_barrier_passed, n_passed>>
  BY <1>1 DEF NoMoreChunks, Chunks, walkVars
<1>3. /\ AtWork(t) /\ Stage(t) = s /\ s[1] = "product" /\ s[2] = n /\ n \in DOMAIN cgraph
      /\ Laying /\ Planned /\ cgraph = Program /\ Prepared /\ n_graph # 0 /\ cgraph \in Seq(ProgramNode)
      /\ cgraph[n].op = "matmul" /\ cgraph[n].op # "nop" /\ KindOf(s)
      /\ cgraph[n].chunks \in Nat /\ Result(n) = Tensor(n) /\ Underway(mem, n, done)
  BY <1>1, <1>2, ProductNow DEF Work
<1>5. OnlyMoves(t) /\ Stage(t)' = Exit(cgraph, s) BY <1>2, <1>3, LeaveIsLocal DEF Local
<1>6. /\ \A u \in Threads : Stage(u)' \in {s, Exit(cgraph, s)}
      /\ \A u \in Threads : u # t => Stage(u)' = Stage(u)
      /\ \A u \in Threads : Stage(u)'[1] \in {"chunk", "product"} => Stage(u)' = Stage(u)
      /\ Exit(cgraph, s) # s BY <1>3, <1>5, LeavesAlone
<1>8. \A k \in AllRows(Result(n)) : \E c \in 0 .. cgraph[n].chunks - 1 : k \in ChunkRows(n, c)
  BY <1>3, ChunksDealt
<1>10. /\ AllRows(Result(n))' = AllRows(Result(n)) /\ \A c : ChunkRows(n, c)' = ChunkRows(n, c)
       /\ MemRows' = MemRows /\ Program' = Program /\ data' = data BY <1>2, SameMemory
<1>11. PICK d : d = RowsDone(n)' OBVIOUS
<1>12. d = {k \in AllRows(Result(n)) : \E e \in taken' : e[1] = n /\ k \in ChunkRows(n, e[2])}
  BY <1>2, <1>3, <1>10, <1>11 DEF RowsDone
<1>13. done = {k \in AllRows(Result(n)) : \E e \in taken : e[1] = n /\ k \in ChunkRows(n, e[2])}
  BY <1>1, <1>3 DEF RowsDone
<1>14. d = done BY <1>2, <1>12, <1>13
<1>15. ASSUME \A u \in Threads : Stage(u)' # s PROVE d = AllRows(Result(n))
  <2>1. Holding(t) /\ chunk[t] \in Nat /\ current_chunk \in Nat /\ chunk[t] < current_chunk
    BY <1>2, <1>3 DEF ChunkInv, ChunkTypes, ChunksGiven, Holding
  <2>2. \A u \in Threads : Holding(u) => u = t
    <3>1. \A u \in Threads : Holding(u) => Stage(u) = s BY <1>1, <1>2, InProduct DEF Work
    <3> QED BY <1>6, <1>15, <3>1
  <2>3. Accounts(n) BY <1>3 DEF AccountInv, Accounted
  <2>4. \A c \in 0 .. cgraph[n].chunks - 1 : <<n, c>> \in taken
    <3> SUFFICES ASSUME NEW c \in 0 .. cgraph[n].chunks - 1 PROVE <<n, c>> \in taken OBVIOUS
    <3>1. ~(c >= current_chunk) /\ c # chunk[t] BY <1>2, <1>3, <2>1
    <3> QED BY <2>2, <2>3, <3>1 DEF Accounts
  <2> QED BY <1>2, <1>8, <1>12, <2>4
<1>16. KindsKept' /\ UnderwayNow' /\ SettledNow' BY <1>1, <1>2, <1>3, <1>6, <1>11, <1>14, <1>15, LeaveMem
<1>17. Prepared' BY <1>1, <1>2, <1>3, <1>10 DEF Prepared
<1>18. Converted' BY <1>2, <1>6, ConvertedKept
<1> QED BY <1>2, <1>3, <1>16, <1>17, <1>18 DEF MemInv
----
\* The other steps.

\* The inputs are set where no other leaf lies.
LEMMA InputsThere ==
  ASSUME Planned, Laid, NEW m, DOMAIN m = MemRows,
         \A r \in MemRows :
           (\E t \in Tensors : graph[t].op = "input" /\ \E k \in AllRows(t) : r = Row(t, k)) =>
             m[r] \in Tensors /\ graph[m[r]].op = "input" /\ \E k \in AllRows(m[r]) : r = Row(m[r], k)
  PROVE  Settled(m, FirstNode)
<1> SUFFICES ASSUME NEW s \in Keepers, s < FirstNode, NEW k \in AllRows(s)
             PROVE  InMem(m, s, k)
  BY DEF Settled
<1>1. s \in Tensors /\ s \in Nat /\ Home(s) = s /\ ~External(s) BY OwningFacts
<1>2. IsLeaf(s) /\ graph[s].op = "input" /\ s \in Owning
  <2>1. IsLeaf(s) BY <1>1, LeafsFirst
  <2>2. graph[s].op = "input" BY <1>1, <2>1 DEF IsLeaf, External
  <2> QED BY <2>1, <2>2, OwningFacts DEF Stored
<1>3. PICK r, t : r = Row(s, k) /\ t = m[r] OBVIOUS
<1>4. r \in MemRows BY <1>2, <1>3 DEF Laid, LaidWithin, MemRows
<1>5. t \in Tensors /\ graph[t].op = "input" /\ \E j \in AllRows(t) : r = Row(t, j)
  BY <1>1, <1>2, <1>3, <1>4, Zenon
<1>6. t \in Owning /\ t \in Nat /\ IsLeaf(t) BY <1>5, TensorFacts DEF Owning, External, IsLeaf
<1>7. ShareRow(s, t) /\ ShareRow(t, s) BY <1>3, <1>5 DEF ShareRow
<1>8. ~(s < t) /\ ~(t < s) BY <1>2, <1>6, <1>7 DEF Laid, LaidOverlaps
<1>9. t = s BY <1>1, <1>6, <1>8
<1> QED BY <1>1, <1>3, <1>4, <1>9 DEF InMem

\* A computation begins with the inputs in memory.
LEMMA StartMem ==
  ASSUME IInv, PlanInv, UseInv, MemInv, Converted, Start
  PROVE  MemInv' /\ Converted'
<1>1. data # <<>> /\ NewPool(Program) /\ UNCHANGED <<allocVars, wdata>> /\ cgraph' = Program
  BY DEF Start, NewPool
<1>2. n_graph' = 0 /\ \A t \in Threads : Stage(t)' = End BY <1>1, NewStages
<1>3. Planned /\ Laid BY <1>1, LaidOut, ShapeFacts DEF PlanInv
<1>4. PICK m : m = mem' OBVIOUS
<1>5. m = [r \in MemRows |->
               IF \E t \in Tensors : graph[t].op = "input" /\ \E k \in AllRows(t) : r = Row(t, k)
               THEN CHOOSE t \in Tensors : graph[t].op = "input" /\ \E k \in AllRows(t) : r = Row(t, k)
               ELSE 0] BY <1>4 DEF Start, MemRows, BufferRows
<1>6. ASSUME NEW r \in MemRows,
             \E t \in Tensors : graph[t].op = "input" /\ \E k \in AllRows(t) : r = Row(t, k)
      PROVE  m[r] \in Tensors /\ graph[m[r]].op = "input" /\ \E k \in AllRows(m[r]) : r = Row(m[r], k)
  <2>1. m[r] = CHOOSE t \in Tensors : graph[t].op = "input" /\ \E k \in AllRows(t) : r = Row(t, k) BY <1>5, <1>6
  <2>2. \E t : t \in Tensors /\ graph[t].op = "input" /\ \E k \in AllRows(t) : r = Row(t, k) BY <1>6
  <2> QED BY <2>1, <2>2
<1>7. DOMAIN m = MemRows BY <1>5
<1>8. Settled(m, FirstNode) BY <1>3, <1>6, <1>7, InputsThere
<1>9. /\ MemRows' = MemRows /\ Program' = Program /\ data' = data
      /\ \A p : Settled(m, p)' <=> Settled(m, p) BY <1>1, SamePlaces
<1>10. PICK p : p = FirstNode /\ p = FirstNode' BY <1>1, SameShape DEF allocVars
<1>11. Settled(m, p)' BY <1>8, <1>9, <1>10
<1>12. Settled(mem, FirstNode)' BY <1>4, <1>10, <1>11
<1>13. Prepared' BY <1>1, <1>4, <1>7, <1>9 DEF Prepared
<1>14. KindsKept' /\ Converted' BY <1>1, <1>2 DEF KindsKept, KindOf, End, Converted
<1> QED BY <1>2, <1>12, <1>13, <1>14 DEF MemInv

\* A thread has converted its share of a product's right side.
LEMMA ConvertMem ==
  ASSUME IInv, PlanInv, UseInv, MemInv, Converted, NEW t \in Threads, ConvertShare(t)
  PROVE  MemInv' /\ Converted'
<1>n. PICK n, m : n = node_n[t] /\ m = mem' /\ m = mem BY DEF ConvertShare
<1>1. /\ Convert(t) /\ UNCHANGED <<allocVars, mem, cgraph, n_graph>> /\ wdata' = [wdata EXCEPT ![t] = n]
      /\ pc[t] = "matmul" /\ AtWork(t) BY <1>n DEF ConvertShare, Convert, walkVars, AtWork
<1>2. Stage(t) = <<"matmul", n>> /\ n \in Nat BY <1>n, <1>1 DEF Stage, Work, IInv, TPTypeOK, PlacesOK
<1>3. cgraph \in Seq(ProgramNode) /\ IsStage(Stage(t)) /\ Stage(t) \in WorkStages
  BY <1>2, StageType, SMTT(30) DEF IInv, TPTypeOK, WorkStages
<1>4. Exit(cgraph, Stage(t)) = <<"chunk", n>> BY <1>2, <1>3, ExitOnward
<1>5. \A u \in Threads : Stage(u) \in {<<"matmul", n>>, <<"chunk", n>>} BY <1>2, <1>3, <1>4, Companions
<1>6. Local(t) BY <1>1, WorkingIsLocal
<1>7. \A u \in Threads : u # t => Stage(u)' = Stage(u) BY <1>6, OthersHold DEF Local
<1>8. \A u \in Threads : Stage(u)' \in {<<"matmul", n>>, <<"chunk", n>>}
  BY <1>2, <1>4, <1>5, <1>6, <1>7 DEF Local
<1>9. /\ Prepared /\ SettledNow /\ KindsKept /\ n_graph # 0 BY <1>1, Present
<1>10. /\ \A x, p : Settled(x, p)' <=> Settled(x, p)
       /\ \A s : Pos(s)' = Pos(s) /\ (KindOf(s)' <=> KindOf(s))
       /\ MemRows' = MemRows /\ Program' = Program /\ data' = data /\ cgraph' = cgraph
  BY <1>1, SameMemory
<1>11. KindOf(<<"matmul", n>>) /\ KindOf(<<"chunk", n>>)
  <2>1. KindOf(<<"matmul", n>>) BY <1>2, <1>9 DEF KindsKept
  <2> QED BY <2>1 DEF KindOf
<1>12. KindsKept' BY <1>8, <1>10, <1>11 DEF KindsKept
<1>13. UnderwayNow' BY <1>8 DEF UnderwayNow, Writing
<1>14. SettledNow'
  <2> SUFFICES ASSUME NEW u \in Threads PROVE Settled(mem, Pos(Stage(u)))' BY DEF SettledNow
  <2>1. \A v \in Threads : ~Writing(v) BY <1>5 DEF Writing
  <2>2. Pos(<<"matmul", n>>) = Tensor(n) /\ Pos(<<"chunk", n>>) = Tensor(n) BY DEF Pos
  <2>3. Settled(m, Tensor(n)) BY <1>n, <1>2, <1>9, <2>1, <2>2 DEF SettledNow
  <2>4. PICK s, p : s = Stage(u)' /\ p = Pos(s) /\ p = Pos(s)' BY <1>10
  <2>5. p = Tensor(n) BY <1>8, <2>2, <2>4
  <2>6. Settled(m, p)' BY <1>10, <2>3, <2>5
  <2> QED BY <1>n, <2>4, <2>6
<1>15. Prepared' BY <1>1, <1>9, <1>10 DEF Prepared
<1>16. Converted'
  <2>1. DOMAIN wdata' = Threads BY <1>1 DEF Converted
  <2>2. \A u \in Threads : Stage(u)'[1] # "product" BY <1>8
  <2>3. ASSUME NEW u \in Threads, Stage(u)'[1] = "chunk" PROVE wdata'[u] = Stage(u)'[2]
    <3>1. Stage(u)'[2] = n BY <1>8
    <3>2. CASE u = t BY <1>1, <3>1, <3>2 DEF Converted
    <3>3. CASE u # t BY <1>1, <1>7, <2>3, <3>3 DEF Converted
    <3> QED BY <3>2, <3>3
  <2> QED BY <2>1, <2>2, <2>3 DEF Converted
<1> QED BY <1>1, <1>9, <1>12, <1>13, <1>14, <1>15 , <1>16 DEF MemInv

\* The kickoff: all arrive at the first node.
LEMMA KickoffMem ==
  ASSUME IInv, PlanInv, MemInv, Converted, Kickoff, UNCHANGED <<allocVars, mem, wdata>>
  PROVE  MemInv' /\ Converted'
<1>1. n_graph = 0 /\ pc[0] # "new" /\ UNCHANGED <<allocVars, cgraph, mem>> /\ cgraph \in Seq(ProgramNode) /\ n_graph' = 1
  BY DEF Kickoff, IInv, Begun, TPTypeOK
<1>2. Prepared /\ Settled(mem, FirstNode) BY <1>1 DEF MemInv
<1>3. \A t \in Threads : Stage(t)' = From(cgraph, 1) BY KickoffTogether
<1>4. Planned BY ShapeFacts DEF PlanInv
<1>5. Tensor(1) = FirstNode BY <1>4, LeafsFirst DEF Tensor
<1>6. KindsKept' /\ UnderwayNow' /\ SettledNow'
  <2>1. PICK n \in Nat : n = 1 /\ n > 0 OBVIOUS
  <2> QED BY <1>1, <1>2, <1>3, <1>4, <1>5, <2>1, ArriveMem DEF Prepared
<1>7. Prepared' BY <1>1, <1>2, SameMemory DEF Prepared
<1>8. Converted'
  <2>1. From(cgraph, 1)[1] \notin {"product", "chunk"} BY <1>1, FromType
  <2> QED BY <1>3, <2>1 DEF Converted
<1> QED BY <1>1, <1>6, <1>7, <1>8 DEF MemInv

\* A barrier is passed: all arrive together, at the next node, at the
\* chunks of this one, or at the end.
LEMMA PassMem ==
  ASSUME IInv, ChunkInv, PlanInv, UseInv, MemInv, Converted, NEW t \in Threads, PassBarrier(t),
         UNCHANGED <<allocVars, mem, wdata>>
  PROVE  MemInv' /\ Converted'
<1>n. PICK n, h, m : n = node_n[t] /\ h = Here(t) /\ m = mem /\ m = mem' OBVIOUS
<1>1. /\ UNCHANGED <<allocVars, cgraph, mem, n_graph, taken>>
      /\ InBarrier(t) /\ n \in Nat /\ cgraph \in Seq(ProgramNode)
      /\ after[t] \in {"next", "chunk", "done"}
  BY <1>n DEF PassBarrier, walkVars, chunkVars, InBarrier, IInv, TPTypeOK, PlacesOK
<1>2. \A u \in Threads : Stage(u) = h /\ Stage(u)' = Beyond(cgraph, h) BY <1>n, PassTogether
<1>3. /\ Laying /\ Planned /\ Prepared /\ SettledNow /\ KindsKept /\ n_graph # 0 BY <1>1, Present
<1>4. h = Gate(after[t], n) BY <1>n DEF Here
<1>5. KindOf(h) /\ Settled(m, Pos(h))
  <2>1. \A u \in Threads : ~Writing(u) BY <1>1, <1>2, <1>4 DEF Writing, Gate
  <2> QED BY <1>n, <1>2, <1>3, <2>1 DEF KindsKept, SettledNow
<1>6. /\ \A x, p : Settled(x, p)' <=> Settled(x, p)
      /\ \A x, k, d : Underway(x, k, d)' <=> Underway(x, k, d)
      /\ \A s : Pos(s)' = Pos(s) /\ (KindOf(s)' <=> KindOf(s))
      /\ MemRows' = MemRows /\ Program' = Program /\ data' = data /\ cgraph' = cgraph
  BY <1>1, SameMemory
<1>7. Prepared' BY <1>1, <1>3, <1>6 DEF Prepared
<1>8. CASE after[t] = "next"
  <2>1. h = <<"next", n>> BY <1>4, <1>8 DEF Gate
  <2>2. PICK k \in Nat : k = n + 1 /\ k > 0 BY <1>1
  <2>3. Beyond(cgraph, h) = From(cgraph, k) BY <2>1, <2>2 DEF Beyond
  <2>4. Tensor(k) = Tensor(n) + 1 BY <1>1, <1>3, <2>2, LeafsFirst DEF Tensor
  <2>5. Settled(mem, Tensor(k)) BY <1>n, <1>5, <2>1, <2>4 DEF Pos
  <2>6. KindsKept' /\ UnderwayNow' /\ SettledNow' BY <1>1, <1>2, <1>3, <2>2, <2>3, <2>5, ArriveMem DEF Prepared
  <2>7. Converted'
    <3>1. From(cgraph, k)[1] \notin {"product", "chunk"} BY <1>1, <2>2, FromType
    <3> QED BY <1>2, <2>3, <3>1 DEF Converted
  <2> QED BY <1>1, <1>3, <1>7, <2>6, <2>7 DEF MemInv
<1>9. CASE after[t] = "chunk"
  <2>1. h = <<"chunk", n>> /\ Beyond(cgraph, h) = <<"product", n>> BY <1>4, <1>9 DEF Gate, Beyond, Work
  <2>2. KindOf(<<"product", n>>) /\ cgraph[n].op = "matmul" BY <1>5, <2>1 DEF KindOf
  <2>3. KindsKept' BY <1>2, <1>6, <2>1, <2>2 DEF KindsKept
  <2>4. \A e \in taken' : e[1] # n
    <3> SUFFICES ASSUME NEW e \in taken PROVE e[1] # n BY <1>1
    <3>1. e[1] < n /\ e[1] \in Nat BY <1>2, <2>1 DEF ChunkInv, ChunkTypes, TakenBehind, Behind
    <3> QED BY <1>1, <3>1
  <2>5. RowsDone(n)' = {}
    <3>1. cgraph'[n].op # "rows" BY <1>1, <2>2
    <3> QED BY <2>4, <3>1 DEF RowsDone
  <2>6. Underway(m, n, {})' BY <1>5, <1>6, <2>1, Entered DEF Pos
  <2>7. UnderwayNow'
    <3> SUFFICES ASSUME NEW u \in Threads
                 PROVE  Underway(mem, Stage(u)[2], RowsDone(Stage(u)[2]))'
      BY DEF UnderwayNow
    <3>1. n = (Stage(u)[2])' BY <1>2, <2>1
    <3> QED BY <1>n, <2>5, <2>6, <3>1
  <2>8. SettledNow' BY <1>2, <2>1 DEF SettledNow, Writing
  <2>9. Converted'
    <3>1. \A u \in Threads : wdata[u] = n BY <1>2, <2>1 DEF Converted
    <3> QED BY <1>2, <2>1, <3>1 DEF Converted
  <2> QED BY <1>1, <1>3, <1>7, <2>3, <2>7, <2>8, <2>9 DEF MemInv
<1>10. CASE after[t] = "done"
  <2>1. h = <<"done", 0>> /\ Beyond(cgraph, h) = <<"end", 0>> BY <1>4, <1>10 DEF Gate, Beyond, End
  <2>2. KindsKept' /\ UnderwayNow' /\ Converted'
    BY <1>2, <2>1 DEF KindsKept, KindOf, UnderwayNow, Writing, Converted
  <2>3. SettledNow'
    <3> SUFFICES ASSUME NEW u \in Threads PROVE Settled(mem, Pos(Stage(u)))' BY DEF SettledNow
    <3>1. PICK s, p : s = <<"end", 0>> /\ p = Pos(s) /\ p = Pos(s)' BY <1>6
    <3>2. p = Pos(h) BY <2>1, <3>1 DEF Pos
    <3>3. Settled(m, p)' BY <1>5, <1>6, <3>2
    <3> QED BY <1>n, <1>2, <2>1, <3>1, <3>3
  <2> QED BY <1>1, <1>3, <1>7, <2>2, <2>3 DEF MemInv
<1> QED BY <1>1, <1>8, <1>9, <1>10
----
\* All steps, and what is read.

\* A step in which one thread stays where it is, and nothing is computed.
LEMMA StillMem ==
  ASSUME IInv, MemInv, Converted, NEW t \in Threads, OnlyMoves(t), Stage(t)' = Stage(t), taken' = taken,
         UNCHANGED <<allocVars, mem, wdata>>, t = 0 => pc[0] # "new"
  PROVE  MemInv' /\ Converted'
<1>1. UNCHANGED <<allocVars, cgraph, mem, wdata, n_graph, taken>> BY DEF OnlyMoves
<1>2. \A u \in Threads : Stage(u)' = Stage(u) BY OthersHold
<1>3. pc'[0] # "new" => pc[0] # "new"
  <2>1. 0 \in Threads BY ThreadAssumption DEF Threads
  <2> QED BY <2>1 DEF OnlyMoves
<1> QED BY <1>1, <1>2, <1>3, QuietMem

\* The steps between the nodes leave memory alone.
LEMMA CoordinateMem ==
  ASSUME IInv, ChunkInv, AccountInv, PlanInv, UseInv, MemInv, Converted, NEW t \in Threads, Coordinate(t)
  PROVE  MemInv' /\ Converted'
<1>1. UNCHANGED <<allocVars, mem, wdata>> BY DEF Coordinate
<1>2. CASE NextChunk(t)
  <2>1. Local(t) BY <1>2, WorkingIsLocal
  <2>2. Stage(t)' = Stage(t) BY <1>2 DEF NextChunk, Go, Stage, AtWork, IInv, TPTypeOK, PlacesOK
  <2>3. taken' = taken /\ pc[t] # "new" BY <1>2 DEF NextChunk
  <2> QED BY <1>1, <2>1, <2>2, <2>3, StillMem DEF Local
<1>3. CASE NoMoreChunks(t) BY <1>1, <1>3, NoMoreMem
<1>4. CASE ReadPassed(t) \/ AddSelf(t) \/ ResetBarrier(t)
  <2>1. OnlyMoves(t) /\ taken' = taken BY <1>4, EnteringIsQuiet DEF Quiet
  <2>2. Stage(t)' = Stage(t) BY <1>4, EnteringStays
  <2>3. pc[t] # "new" BY <1>4 DEF ReadPassed, AddSelf, ResetBarrier
  <2> QED BY <1>1, <2>1, <2>2, <2>3, StillMem
<1>5. CASE PassBarrier(t) BY <1>1, <1>5, PassMem
<1>6. CASE SpinEnds(t)
  <2>1. Local(t) /\ Stage(t)' = Stage(t) BY <1>6, SpinEndsIsLocal
  <2>2. taken' = taken /\ pc[t] # "new" BY <1>6 DEF SpinEnds, chunkVars
  <2> QED BY <1>1, <2>1, <2>2, StillMem DEF Local
<1>7. CASE t # 0 /\ Waiting(t)
  <2>1. t \in Workers BY <1>7, ThreadAssumption DEF Threads, Workers
  <2>2. Local(t) /\ Stage(t)' = Stage(t) BY <1>7, <2>1, WaitingIsLocal
  <2>3. taken' = taken BY <1>7, <2>1, WaitingIsQuiet DEF Quiet
  <2> QED BY <1>1, <1>7, <2>2, <2>3, StillMem DEF Local
<1>8. CASE t = 0 /\ Kickoff BY <1>1, <1>8, KickoffMem
<1>9. CASE t = 0 /\ (FreePool \/ Joined)
  <2>1. Local(t) /\ Stage(t)' = Stage(t) BY <1>9, FreeIsLocal
  <2>2. taken' = taken /\ pc[t] # "new" BY <1>9 DEF FreePool, Joined
  <2> QED BY <1>1, <2>1, <2>2, StillMem DEF Local
<1> QED BY <1>2, <1>3, <1>4, <1>5, <1>6, <1>7, <1>8, <1>9 DEF Coordinate, Barrier

\* Every step keeps the memory.
LEMMA NextMem ==
  ASSUME IInv, ChunkInv, AccountInv, PlanInv, UseInv, MemInv, Converted, [Next]_vars
  PROVE  MemInv' /\ Converted'
<1>1. CASE Plan
  <2>1. UNCHANGED <<poolVars, mem, wdata>> /\ pc'[0] = "new" BY <1>1 DEF Plan, poolVars
  <2>2. \A t \in Threads : Stage(t)' = Stage(t)
    BY <2>1 DEF poolVars, Stage, AtWork, LetGo, InBarrier, Here, NewGraph
  <2>3. Converted' BY <2>1, <2>2 DEF Converted
  <2>4. KindsKept'
    <3>1. cgraph' = cgraph BY <2>1 DEF poolVars
    <3>2. \A s : KindOf(s)' <=> KindOf(s) BY <3>1 DEF KindOf
    <3> SUFFICES ASSUME NEW t \in Threads PROVE KindOf(Stage(t))' BY DEF KindsKept
    <3>3. PICK s : s = Stage(t) /\ s = Stage(t)' BY <2>2
    <3>4. KindOf(s)' BY <3>2, <3>3 DEF MemInv, KindsKept
    <3> QED BY <3>3, <3>4
  <2> QED BY <2>1, <2>3, <2>4 DEF MemInv
<1>2. CASE Start BY <1>2, StartMem
<1>3. ASSUME NEW t \in Threads, Step(t) PROVE MemInv' /\ Converted'
  BY <1>3, RowsMem, ConvertMem, ChunkMem, CoordinateMem DEF Step
<1>4. CASE UNCHANGED vars
  <2>1. UNCHANGED <<allocVars, cgraph, mem, wdata, n_graph, taken>> /\ pc' = pc BY <1>4 DEF vars, poolVars
  <2>2. \A t \in Threads : Stage(t)' = Stage(t)
    BY <1>4 DEF vars, poolVars, Stage, AtWork, LetGo, InBarrier, Here, NewGraph
  <2> QED BY <2>1, <2>2, QuietMem
<1> QED BY <1>1, <1>2, <1>3, <1>4 DEF Next, Stay

\* Rows that are dealt out are read where they were computed.
LEMMA RowsFresh ==
  ASSUME IInv, PlanInv, UseInv, MemInv, NEW t \in Threads, pc[t] = "rows"
  PROVE  ReadsHold(t, node_n[t]) /\ StoresThere(node_n[t])
<1>1. PICK n, s, done : n = node_n[t] /\ s = Work("rows", n) /\ done = RowsDone(n) OBVIOUS
<1>2. AtWork(t) /\ Stage(t) = s /\ s[1] = "rows" /\ s[2] = n /\ n \in DOMAIN cgraph
  BY <1>1 DEF AtWork, Stage, Work, IInv, NodesExist
<1>3. /\ Laying /\ Planned /\ UnderwayNow /\ SettledNow /\ KindsKept /\ cgraph = Program
      /\ cgraph \in Seq(ProgramNode) BY <1>2, Present DEF Prepared
<1>4. cgraph[n].op = "rows" /\ cgraph[n].op # "nop" BY <1>2, <1>3 DEF KindsKept, KindOf
<1>5. Underway(mem, n, done) BY <1>1, <1>2, <1>3 DEF UnderwayNow, Writing
<1>6. /\ RowsOf(t, n) \subseteq AllRows(Result(n))
      /\ \A u \in Threads : \A k \in RowsOf(t, n) : k \in RowsOf(u, n) => t = u
  BY <1>2, <1>3, <1>4, RowsDealt
<1>7. done = {k \in AllRows(Result(n)) : \E u \in Threads : k \in RowsOf(u, n) /\ Stage(u) # s}
  BY <1>1, <1>4 DEF RowsDone
<1>8. \A k \in RowsOf(t, n) : k \in AllRows(Result(n)) \ done BY <1>2, <1>6, <1>7
<1>9. \A x, k : Holds(x, k) <=> InMem(mem, x, k) BY DEF Holds, InMem
<1>10. done \in SUBSET AllRows(Result(n)) BY <1>7
<1>11. ASSUME NEW x \in Operands(n), NEW k \in RowsOf(t, n)
       PROVE  /\ graph[Tensor(n)].op = "pick" => \A j \in AllRows(x) : Holds(x, j)
              /\ Holds(x, k % Size(x)) BY <1>2, <1>3, <1>4, <1>5, <1>8, <1>9, <1>10, <1>11, ReadsThere
<1>12. StoresThere(n) BY <1>2, <1>3, <1>4, <1>5, StoresHold
<1> QED BY <1>1, <1>11, <1>12 DEF ReadsHold

\* A product has two operands.
LEMMA ProductOperands ==
  ASSUME Planned, cgraph = Program, NEW n \in DOMAIN cgraph, cgraph[n].op = "matmul"
  PROVE  /\ graph[Tensor(n)].op = "matmul"
         /\ graph[Tensor(n)].src[1] \in Operands(n) /\ graph[Tensor(n)].src[2] \in Operands(n)
<1>1. PICK x : x = Tensor(n) OBVIOUS
<1>2. x \in Keepers /\ graph[x].op = "matmul" BY <1>1, NodeFacts
<1>3. x \in Tensors /\ x \in DOMAIN graph BY <1>2, OwningFacts DEF Tensors
<1>4. Len(graph[x].src) = 2 /\ graph[x].src \in Seq(Nat) BY <1>2, <1>3, TensorFacts DEF Planned, WellFormed
<1>5. graph[x].src[1] \in ToSet(graph[x].src) /\ graph[x].src[2] \in ToSet(graph[x].src) BY <1>4 DEF ToSet
<1>6. graph[x].src[1] # x /\ graph[x].src[2] # x
  <2>1. 1 \in 1 .. Len(graph[x].src) /\ 2 \in 1 .. Len(graph[x].src) /\ graph[x].op # "cast" BY <1>2, <1>4
  <2>2. graph[x].src[1] < x /\ graph[x].src[2] < x BY <1>3, <2>1, TensorFacts
  <2> QED BY <1>3, <2>2, TensorFacts
<1> QED BY <1>1, <1>2, <1>5, <1>6 DEF Operands

\* So is a product's right side, which is converted before its chunks.
LEMMA ConvertFresh ==
  ASSUME IInv, PlanInv, UseInv, MemInv, NEW t \in Threads, pc[t] = "matmul", NEW x, x = graph[Tensor(node_n[t])].src[2]
  PROVE  (\A k \in AllRows(x) : Holds(x, k)) /\ StoresThere(node_n[t])
<1>1. PICK n : n = node_n[t] OBVIOUS
<1>2. AtWork(t) /\ Stage(t) = <<"matmul", n>> /\ n \in DOMAIN cgraph /\ n \in Nat
  BY <1>1 DEF AtWork, Stage, Work, IInv, NodesExist, TPTypeOK, PlacesOK
<1>3. /\ Laying /\ Planned /\ SettledNow /\ KindsKept /\ cgraph = Program
      /\ cgraph \in Seq(ProgramNode) BY <1>2, Present DEF Prepared
<1>4. cgraph[n].op = "matmul" /\ cgraph[n].op # "nop" BY <1>2, <1>3 DEF KindsKept, KindOf
<1>5. IsStage(Stage(t)) /\ Stage(t) \in WorkStages BY <1>2, StageType, SMTT(30) DEF IInv, TPTypeOK, WorkStages
<1>6. \A u \in Threads : Stage(u) \in {<<"matmul", n>>, <<"chunk", n>>}
  <2>1. Exit(cgraph, Stage(t)) = <<"chunk", n>> BY <1>2, <1>3, <1>5, ExitOnward
  <2> QED BY <1>2, <1>5, <2>1, Companions
<1>7. Settled(mem, Tensor(n))
  <2>1. \A u \in Threads : ~Writing(u) BY <1>6 DEF Writing
  <2>2. Pos(<<"matmul", n>>) = Tensor(n) BY DEF Pos
  <2> QED BY <1>2, <1>3, <2>1, <2>2 DEF SettledNow
<1>8. Underway(mem, n, {}) BY <1>7, Entered
<1>9. x \in Operands(n) /\ graph[Tensor(n)].op = "matmul" BY <1>1, <1>2, <1>3, <1>4, ProductOperands
<1>10. StoresThere(n) BY <1>2, <1>3, <1>4, <1>8, StoresHold
<1> QED BY <1>1, <1>2, <1>3, <1>4, <1>8, <1>9, <1>10, ReadsThere DEF Holds, InMem

\* And a chunk of it.
LEMMA ChunkFresh ==
  ASSUME IInv, PlanInv, UseInv, MemInv, Converted, NEW t \in Threads, pc[t] = "chunk",
         NEW x, x = graph[Tensor(node_n[t])].src[1]
  PROVE  (\A k \in AllRows(x) : Holds(x, k)) /\ StoresThere(node_n[t]) /\ \A u \in Threads : wdata[u] = node_n[t]
<1>1. PICK n : n = node_n[t] OBVIOUS
<1>2. /\ Stage(t) = <<"product", n>> /\ n \in DOMAIN cgraph
      /\ Laying /\ Planned /\ cgraph = Program
      /\ cgraph[n].op = "matmul" /\ cgraph[n].op # "nop"
      /\ Underway(mem, n, RowsDone(n)) /\ RowsDone(n) \subseteq AllRows(Result(n))
  BY <1>1, ProductNow DEF Work
<1>3. x \in Operands(n) /\ graph[Tensor(n)].op = "matmul" BY <1>1, <1>2, ProductOperands
<1>4. \A k \in AllRows(x) : InMem(mem, x, k)
  <2>1. PICK d : d = RowsDone(n) OBVIOUS
  <2>2. d \in SUBSET AllRows(Result(n)) /\ Underway(mem, n, d) BY <1>2, <2>1
  <2> QED BY <1>2, <1>3, <2>2, ReadsThere
<1>5. \A u \in Threads : wdata[u] = n BY <1>2 DEF Converted
<1>6. StoresThere(n) BY <1>2, StoresHold
<1> QED BY <1>1, <1>4, <1>5, <1>6 DEF Holds, InMem

\* The caller finds the outputs.
LEMMA OutputsFresh ==
  ASSUME IInv, PlanInv, UseInv, MemInv, Returned, NEW s \in Owning, graph[s].output
  PROVE  \A k \in AllRows(s) : Holds(s, k)
<1>1. 0 \in Threads /\ n_graph # 0 /\ pc[0] # "new" BY ThreadAssumption DEF Threads, Returned, IInv, Begun
<1>2. Planned /\ SettledNow BY <1>1, ShapeFacts DEF PlanInv, MemInv
<1>3. Stage(0) = End BY <1>1 DEF Returned, Stage, AtWork, LetGo, InBarrier, Workers
<1>4. \A u \in Threads : Stage(u)[1] \notin {"rows", "product"}
  <2> SUFFICES ASSUME NEW u \in Threads, Stage(u)[1] \in {"rows", "product"} PROVE FALSE OBVIOUS
  <2>1. IsStage(Stage(u)) /\ cgraph \in Seq(ProgramNode) BY StageType DEF IInv, TPTypeOK
  <2>2. Stage(u) \in WorkStages BY <2>1 DEF IsStage, WorkStages
  <2>3. Stage(0) \in {Stage(u), Exit(cgraph, Stage(u))} BY <1>1, <2>2, Companions
  <2>4. Exit(cgraph, Stage(u))[1] # "end" BY <2>1, <2>2, ExitOnward
  <2> QED BY <1>3, <2>3, <2>4 DEF End
<1>5. Settled(mem, Len(graph) + 1)
  <2>1. Pos(End) = Len(graph) + 1 BY DEF Pos, End
  <2> QED BY <1>1, <1>2, <1>3, <1>4, <2>1 DEF SettledNow, Writing
<1>6. s < Len(graph) + 1
  <2>1. s \in Nat /\ s <= Len(graph) /\ Len(graph) \in Nat BY <1>2, OwningFacts, TensorFacts
  <2> QED BY <2>1
<1> QED BY <1>5, <1>6 DEF Settled, Needed, Holds, InMem, Keepers
----
\* The plan that is kept stays, while nobody plans.
LEMMA UseUnchanged ==
  ASSUME UseInv, UNCHANGED allocVars
  PROVE  UseInv'
<1>1. UNCHANGED <<graph, batch, at, asked, allocs, buffer, data>> BY DEF allocVars
<1>2. PICK al, bf : al = allocs /\ bf = buffer OBVIOUS
<1>3. \A b : KeptFor(al, bf, b)' <=> KeptFor(al, bf, b) BY <1>1, SameKept
<1>4. ASSUME asked \/ allocs # <<>> PROVE (\E b \in Nat \ {0} : KeptFor(allocs, buffer, b))'
  <2>1. PICK b \in Nat \ {0} : KeptFor(al, bf, b) BY <1>2, <1>4 DEF UseInv
  <2>2. KeptFor(al, bf, b)' BY <1>3, <2>1
  <2> QED BY <1>1, <1>2, <2>2
<1>5. Owning' = Owning /\ (NeedsRealloc' <=> NeedsRealloc)
  <2>1. Owning' = Owning /\ \A t : Size(t)' = Size(t) BY <1>1, SameShape DEF Size
  <2> QED BY <1>1, <2>1 DEF NeedsRealloc
<1> QED BY <1>1, <1>4, <1>5 DEF UseInv

\* What is read next is there.
LEMMA FreshNow ==
  ASSUME IInv, PlanInv, UseInv, MemInv, Converted
  PROVE  ReadsAreFresh
<1>1. ASSUME NEW t \in Threads PROVE ThreadReads(t)
  <2>1. CASE pc[t] = "rows" BY <2>1, RowsFresh DEF ThreadReads, StoresThere
  <2>2. CASE pc[t] = "matmul"
    <3>1. PICK x : x = graph[Tensor(node_n[t])].src[2] OBVIOUS
    <3>2. (\A k \in AllRows(x) : Holds(x, k)) /\ StoresThere(node_n[t]) BY <2>2, <3>1, ConvertFresh
    <3> QED BY <2>2, <3>1, <3>2 DEF ThreadReads, StoresThere
  <2>3. CASE pc[t] = "chunk"
    <3>1. PICK x : x = graph[Tensor(node_n[t])].src[1] OBVIOUS
    <3>2. (\A k \in AllRows(x) : Holds(x, k)) /\ StoresThere(node_n[t]) /\ \A u \in Threads : wdata[u] = node_n[t]
      BY <2>3, <3>1, ChunkFresh
    <3> QED BY <2>3, <3>1, <3>2 DEF ThreadReads, StoresThere
  <2>4. CASE pc[t] \notin {"rows", "matmul", "chunk"} BY <2>4 DEF ThreadReads
  <2> QED BY <2>1, <2>2, <2>3, <2>4
<1>2. ASSUME Returned, NEW s \in Owning, graph[s].output PROVE \A k \in AllRows(s) : Holds(s, k)
  BY <1>2, OutputsFresh
<1> QED BY <1>1, <1>2 DEF ReadsAreFresh

\* Each part rests on others: memory holds what is still to be read
\* because the plan puts nothing over it, the threads are in step and no
\* chunk is left out.
FreshInv == IInv /\ ChunkInv /\ AccountInv /\ PlanInv /\ UseInv /\ MemInv /\ Converted

\* All of it holds at the start.
LEMMA FreshInit == Init => FreshInv
<1> SUFFICES ASSUME Init PROVE FreshInv OBVIOUS
<1>1. IInv /\ ChunkInv /\ \A t \in Threads : Stage(t) = End BY InitIInv, InitChunks DEF Init
<1>2. PlanInv BY DEF Init, AllocInit, PlanInv
<1>3. UseInv BY DEF Init, AllocInit, UseInv
<1>4. MemInv /\ Converted
  <2>1. pc[0] = "new" BY ThreadAssumption DEF Init, TPInit, Threads
  <2> QED BY <1>1, <2>1 DEF Init, MemInv, KindsKept, KindOf, End, Converted
<1>5. AccountInv BY <1>1 DEF AccountInv, ResetExactly, Accounted, End
<1> QED BY <1>1, <1>2, <1>3, <1>4, <1>5 DEF FreshInv

\* Every step keeps it.
LEMMA FreshNext == FreshInv /\ [Next]_vars => FreshInv'
<1> SUFFICES ASSUME FreshInv, [Next]_vars PROVE FreshInv' OBVIOUS
<1> USE DEF FreshInv
<1>1. [TPNext]_poolVars
  <2>1. GraphOK BY ShapeAssumption DEF PlanInv, GraphOK
  <2> QED BY <2>1, StepsOfPool
<1>2. IInv' /\ ChunkInv' /\ AccountInv' BY <1>1, NextIInv, NextChunkInv, NextAccounts
<1>3. PlanInv' /\ UseInv'
  <2>1. CASE AllocNext BY <2>1, PlanKeeps, UseKeeps
  <2>2. CASE UNCHANGED allocVars BY <2>2, AllocUnchanged, UseUnchanged
  <2>3. AllocNext \/ UNCHANGED allocVars
    BY DEF Next, Plan, Start, Step, ComputeRows, ConvertShare, ComputeChunk, Coordinate, Stay, vars
  <2> QED BY <2>1, <2>2, <2>3
<1>4. MemInv' /\ Converted' BY NextMem
<1> QED BY <1>2, <1>3, <1>4

\* For any graphs, batches and buffers and any number of threads: nobody
\* reads a row of memory, or a converted part of a product, that has not
\* been computed yet or that a later tensor has taken over, whoever reads
\* the KV cache finds what the nodes before it store there, and the caller
\* finds the outputs when ggml_backend_graph_compute has returned.
THEOREM ReadsStayFresh == Spec => []ReadsAreFresh
<1>1. FreshInv => ReadsAreFresh BY FreshNow DEF FreshInv
<1> QED BY <1>1, FreshInit, FreshNext, PTL DEF Spec
=============================================================================

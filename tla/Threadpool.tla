----------------------------- MODULE Threadpool -----------------------------
(***************************************************************************)
(* How ggml's CPU backend runs a graph (ggml-cpu.c).  Each computation has *)
(* a thread pool of its own: the caller is thread 0, the others wait for   *)
(* the kickoff by polling and then on a condition variable.  All threads   *)
(* walk the nodes together, each doing its share, with a barrier after     *)
(* every node and one inside a matrix product.  The steps are the atomic   *)
(* accesses of the code, taken as sequentially consistent.                 *)
(***************************************************************************)
EXTENDS Integers, Sequences

CONSTANT NThreads   \* n_threads of the plan

\* One thread alone passes every barrier at once, and has nothing to wait for.
ASSUME ThreadAssumption == NThreads \in Nat /\ NThreads > 1

\* A graph, as a thread sees it, is a sequence of these.
ProgramNode == [op : {"rows", "matmul", "nop"}, fused : {0, 1}, chunks : Nat]

Threads == 0 .. NThreads - 1
Workers == 1 .. NThreads - 1
Nobody == -1

VARIABLES
  cgraph,             (* the graph being computed                           *)
  n_graph,            (* its number and its threads; 0 before the kickoff   *)
  n_barrier,          (* how many threads have entered the barrier          *)
  n_barrier_passed,   (* how often it was passed                            *)
  current_chunk,      (* the next chunk nobody has taken                    *)
  stop,               (* the pool is being freed                            *)
  mutex,              (* who holds it                                       *)
  sleeping,           (* who waits on the condition variable                *)
  pc,                 (* where each thread is                               *)
  node_n,             (* the node each thread is at                         *)
  n_passed,           (* the count each thread read before the barrier      *)
  chunk,              (* the chunk each thread has taken                    *)
  after,              (* what each thread does after the barrier            *)
  last_graph,         (* the graph each thread has last computed            *)
  taken               (* ghost: the chunks computed so far                  *)

poolVars == <<cgraph, n_graph, n_barrier, n_barrier_passed, current_chunk, stop,
              mutex, sleeping, pc, node_n, n_passed, chunk, after, last_graph, taken>>

Go(t, where) == pc' = [pc EXCEPT ![t] = where]

TPInit ==
  /\ cgraph = <<>>
  /\ n_graph = 0
  /\ n_barrier = 0 /\ n_barrier_passed = 0
  /\ current_chunk = 0
  /\ stop = FALSE
  /\ mutex = Nobody
  /\ sleeping = {}
  /\ pc = [t \in Threads |-> IF t = 0 THEN "new" ELSE "none"]
  /\ node_n = [t \in Threads |-> 0]
  /\ n_passed = [t \in Threads |-> 0]
  /\ chunk = [t \in Threads |-> 0]
  /\ after = [t \in Threads |-> "next"]
  /\ last_graph = [t \in Threads |-> 0]
  /\ taken = {}
-----------------------------------------------------------------------------
(* The caller: ggml_graph_compute. *)

\* ggml_threadpool_new_impl: the workers start at once.
NewPool(program) ==
  /\ pc[0] = "new"
  /\ cgraph' = program
  /\ pc' = [t \in Threads |-> IF t = 0 THEN "kickoff" ELSE "idle"]
  /\ UNCHANGED <<n_graph, n_barrier, n_barrier_passed, current_chunk, stop, mutex,
                 sleeping, node_n, n_passed, chunk, after, last_graph, taken>>

\* The walk over the nodes: operations without work are skipped, and past the
\* last node comes the last barrier.
HasWork(n) == cgraph[n].op # "nop"
Upcoming(n) == {m \in n .. Len(cgraph) : HasWork(m)}
Arrive(t, n) ==
  IF Upcoming(n) = {}
  THEN Go(t, "enter") /\ after' = [after EXCEPT ![t] = "done"] /\ UNCHANGED node_n
  ELSE LET m == CHOOSE m \in Upcoming(n) : \A k \in Upcoming(n) : m <= k
       IN  /\ node_n' = [node_n EXCEPT ![t] = m]
           /\ Go(t, cgraph[m].op)
           /\ UNCHANGED after

Kickoff ==
  /\ pc[0] = "kickoff"
  /\ mutex = Nobody
  /\ n_graph' = 1
  /\ sleeping' = {}
  /\ Arrive(0, 1)
  /\ UNCHANGED <<cgraph, n_barrier, n_barrier_passed, current_chunk, stop, mutex,
                 n_passed, chunk, last_graph, taken>>

\* ggml_threadpool_free: stop, wake everybody, join, and free the pool.
FreePool ==
  /\ pc[0] = "done"
  /\ mutex = Nobody
  /\ stop' = TRUE
  /\ sleeping' = {}
  /\ Go(0, "join")
  /\ UNCHANGED <<cgraph, n_graph, n_barrier, n_barrier_passed, current_chunk, mutex,
                 node_n, n_passed, chunk, after, last_graph, taken>>

Joined ==
  /\ pc[0] = "join"
  /\ \A w \in Workers : pc[w] = "exited"
  /\ Go(0, "returned")
  /\ UNCHANGED <<cgraph, n_graph, n_barrier, n_barrier_passed, current_chunk, stop, mutex,
                 sleeping, node_n, n_passed, chunk, after, last_graph, taken>>
-----------------------------------------------------------------------------
(* A worker: ggml_graph_compute_secondary_thread. *)

waitVars == <<cgraph, n_graph, n_barrier, n_barrier_passed, current_chunk, stop,
              n_passed, chunk, taken>>

NewGraph(w) == n_graph # last_graph[w]

\* ggml_graph_compute_thread_ready has found a graph.
Begin(w) ==
  /\ last_graph' = [last_graph EXCEPT ![w] = n_graph]
  /\ Arrive(w, 1)

CheckStop(w) ==
  /\ pc[w] = "idle"
  /\ Go(w, IF stop THEN "exited" ELSE "poll")
  /\ UNCHANGED <<waitVars, mutex, sleeping, node_n, after, last_graph>>

\* Polling ends with work, or after its rounds, or when the pool stops.
PollFinds(w) ==
  /\ pc[w] = "poll"
  /\ ~stop /\ NewGraph(w)
  /\ Begin(w)
  /\ UNCHANGED <<waitVars, mutex, sleeping>>

PollEnds(w) ==
  /\ pc[w] = "poll"
  /\ stop \/ ~NewGraph(w)
  /\ Go(w, "lock")
  /\ UNCHANGED <<waitVars, mutex, sleeping, node_n, after, last_graph>>

Lock(w) ==
  /\ pc[w] = "lock" /\ w \notin sleeping
  /\ mutex = Nobody
  /\ mutex' = w
  /\ Go(w, "check")
  /\ UNCHANGED <<waitVars, sleeping, node_n, after, last_graph>>

CheckForWork_Blindly(w) ==
  /\ pc[w] = "check"
  /\ mutex' = Nobody
  /\ IF stop THEN Go(w, "idle") /\ UNCHANGED sleeping
     ELSE sleeping' = sleeping \cup {w} /\ Go(w, "lock")
  /\ UNCHANGED <<waitVars, node_n, after, last_graph>>

\* With the mutex held: work, an end, or sleep, which gives the mutex back.
CheckForWork(w) ==
  /\ pc[w] = "check"
  /\ mutex' = Nobody
  /\ IF stop THEN Go(w, "idle") /\ UNCHANGED <<sleeping, node_n, after, last_graph>>
     ELSE IF NewGraph(w) THEN Begin(w) /\ UNCHANGED sleeping
     ELSE sleeping' = sleeping \cup {w} /\ Go(w, "lock") /\ UNCHANGED <<node_n, after, last_graph>>
  /\ UNCHANGED waitVars
-----------------------------------------------------------------------------
(* A node: ggml_graph_compute_thread. *)

walkVars == <<cgraph, n_graph, last_graph, stop, mutex, sleeping>>

Leave_NoBarrier(t) == Arrive(t, node_n[t] + cgraph[node_n[t]].fused + 1)

\* The end of a node: the barrier, unless the node was the last one; a fused
\* node stands for itself and the next.
Leave(t) ==
  LET n == node_n[t] + cgraph[node_n[t]].fused
  IN  IF n < Len(cgraph)
      THEN /\ Go(t, "enter")
           /\ after' = [after EXCEPT ![t] = "next"]
           /\ node_n' = [node_n EXCEPT ![t] = n]
      ELSE Arrive(t, n + 1)

\* A node whose rows are dealt out beforehand.
Rows(t) ==
  /\ pc[t] = "rows"
  /\ Leave(t)
  /\ UNCHANGED <<walkVars, n_barrier, n_barrier_passed, current_chunk, n_passed, chunk, taken>>

Convert_NoReset(t) ==
  /\ pc[t] = "matmul"
  /\ chunk' = [chunk EXCEPT ![t] = t]
  /\ after' = [after EXCEPT ![t] = "chunk"]
  /\ Go(t, "enter")
  /\ UNCHANGED <<walkVars, n_barrier, n_barrier_passed, current_chunk, node_n, n_passed, taken>>

\* A matrix product: its right side is converted by all, thread 0 resets the
\* chunks, and behind the barrier each thread starts with the chunk of its number.
Convert(t) ==
  /\ pc[t] = "matmul"
  /\ current_chunk' = IF t = 0 THEN NThreads ELSE current_chunk
  /\ chunk' = [chunk EXCEPT ![t] = t]
  /\ after' = [after EXCEPT ![t] = "chunk"]
  /\ Go(t, "enter")
  /\ UNCHANGED <<walkVars, n_barrier, n_barrier_passed, node_n, n_passed, taken>>

Chunks(t) == cgraph[node_n[t]].chunks

Chunk(t) ==
  /\ pc[t] = "chunk"
  /\ chunk[t] < Chunks(t)
  /\ taken' = taken \cup {<<node_n[t], chunk[t]>>}
  /\ IF NThreads >= Chunks(t) THEN Leave(t) ELSE Go(t, "fetch") /\ UNCHANGED <<node_n, after>>
  /\ UNCHANGED <<walkVars, n_barrier, n_barrier_passed, current_chunk, n_passed, chunk>>

NextChunk(t) ==
  /\ pc[t] = "fetch"
  /\ chunk' = [chunk EXCEPT ![t] = current_chunk]
  /\ current_chunk' = current_chunk + 1
  /\ Go(t, "chunk")
  /\ UNCHANGED <<walkVars, n_barrier, n_barrier_passed, node_n, n_passed, after, taken>>

NoMoreChunks(t) ==
  /\ pc[t] = "chunk"
  /\ chunk[t] >= Chunks(t)
  /\ Leave(t)
  /\ UNCHANGED <<walkVars, n_barrier, n_barrier_passed, current_chunk, n_passed, chunk, taken>>
-----------------------------------------------------------------------------
(* The barrier: ggml_barrier. *)

chunkVars == <<current_chunk, chunk, taken>>

Depart(t) ==
  CASE after[t] = "next"  -> Arrive(t, node_n[t] + 1)
    [] after[t] = "chunk" -> Go(t, "chunk") /\ UNCHANGED <<node_n, after>>
    [] after[t] = "done"  -> Go(t, IF t = 0 THEN "done" ELSE "idle") /\ UNCHANGED <<node_n, after>>

ReadPassed(t) ==
  /\ pc[t] = "enter"
  /\ n_passed' = [n_passed EXCEPT ![t] = n_barrier_passed]
  /\ Go(t, "add")
  /\ UNCHANGED <<walkVars, chunkVars, n_barrier, n_barrier_passed, node_n, after>>

AddSelf(t) ==
  /\ pc[t] = "add"
  /\ n_barrier' = n_barrier + 1
  /\ Go(t, IF n_barrier = NThreads - 1 THEN "reset" ELSE "spin")
  /\ UNCHANGED <<walkVars, chunkVars, n_barrier_passed, node_n, n_passed, after>>

ResetBarrier(t) ==
  /\ pc[t] = "reset"
  /\ n_barrier' = 0
  /\ Go(t, "pass")
  /\ UNCHANGED <<walkVars, chunkVars, n_barrier_passed, node_n, n_passed, after>>

PassBarrier(t) ==
  /\ pc[t] = "pass"
  /\ n_barrier_passed' = n_barrier_passed + 1
  /\ Depart(t)
  /\ UNCHANGED <<walkVars, chunkVars, n_barrier, n_passed>>

SpinEnds(t) ==
  /\ pc[t] = "spin"
  /\ n_barrier_passed # n_passed[t]
  /\ Depart(t)
  /\ UNCHANGED <<walkVars, chunkVars, n_barrier, n_barrier_passed, n_passed>>

Barrier(t) == \/ ReadPassed(t) \/ AddSelf(t) \/ ResetBarrier(t)
              \/ PassBarrier(t) \/ SpinEnds(t)
-----------------------------------------------------------------------------
Waiting(w) == CheckStop(w) \/ PollFinds(w) \/ PollEnds(w) \/ Lock(w) \/ CheckForWork(w)
Working(t) == Rows(t) \/ Convert(t) \/ Chunk(t) \/ NextChunk(t) \/ NoMoreChunks(t) \/ Barrier(t)

TPNext ==
  \/ \E p \in Seq(ProgramNode) : NewPool(p)
  \/ Kickoff \/ FreePool \/ Joined
  \/ \E w \in Workers : Waiting(w)
  \/ \E t \in Threads : Working(t)

TPSpec == TPInit /\ [][TPNext]_poolVars
-----------------------------------------------------------------------------
AtWork(t) == pc[t] \in {"rows", "matmul", "chunk", "fetch"}

\* A node is begun when every thread has done its share of the one before, and
\* the chunks of a product when all of its right side is converted: whoever
\* works, works on the same node and in the same phase of it.
NodesInStep ==
  \A t, u \in Threads : AtWork(t) /\ AtWork(u) =>
    /\ node_n[t] = node_n[u]
    /\ pc[t] = "matmul" <=> pc[u] = "matmul"

\* No chunk of a product is computed twice, whoever is fast: the chunk a thread
\* holds is not done yet and is nobody else's.
ChunksOnce ==
  \A t \in Threads : pc[t] = "chunk" /\ chunk[t] < Chunks(t) =>
    /\ <<node_n[t], chunk[t]>> \notin taken
    /\ \A u \in Threads \ {t} : pc[u] = "chunk" => chunk[u] # chunk[t]
=============================================================================

---------------------------- MODULE GraphCompute ----------------------------
(***************************************************************************)
(* A graph from its plan to its result: the allocator decides where the    *)
(* tensors lie, and the threads of the pool compute them there, in place   *)
(* and on top of what is no longer needed.  Memory remembers which tensor  *)
(* each of its rows belongs to.                                            *)
(***************************************************************************)
EXTENDS GraphAlloc, Threadpool

CONSTANT
  ChunkFactor   (* chunks per thread below which a product is split by threads, 4 in the code *)

VARIABLES
  mem,     (* the tensor that wrote each row of the buffer, 0 when none did *)
  wdata    (* the product each thread has converted its part for            *)

vars == <<allocVars, poolVars, mem, wdata>>
-----------------------------------------------------------------------------
(* The graph as the threads see it. *)

Tensor(n) == FirstNode + n - 1
Product(t) == graph[t].op = "matmul"

Fusible_AnyReaders(t) ==
  /\ graph[t].op = "norm" /\ t < Len(graph)
  /\ graph[t + 1].op = "mul"
  /\ ~graph[t].output
  /\ Contains(graph[t + 1].src, t)
  /\ Size(t + 1) = Size(t)

Fusible(t) ==
  /\ graph[t].op = "norm" /\ t < Len(graph)
  /\ graph[t + 1].op = "mul"
  /\ Children(t) = 1 /\ ~graph[t].output
  /\ Contains(graph[t + 1].src, t)
  /\ Size(t + 1) = Size(t)

\* Few chunks are not worth sharing out one by one: one for each thread then.
ChunksOf(t) == IF Size(t) < NThreads * ChunkFactor THEN NThreads ELSE Size(t)

Program ==
  [n \in 1 .. Len(graph) - FirstNode + 1 |->
    LET t == Tensor(n)
    IN  [op     |-> IF graph[t].op = "view" THEN "nop" ELSE IF Product(t) THEN "matmul" ELSE "rows",
         fused  |-> IF Fusible(t) THEN 1 ELSE 0,
         chunks |-> IF Product(t) THEN ChunksOf(t) ELSE 0]]
-----------------------------------------------------------------------------
(* Rows of memory. *)

\* A store has rows of its own in the memory it is a view of.
Stored(t) == graph[t].op = "store"
Home(t) == IF Stored(t) THEN t ELSE Root(t)
Row(t, k) == IF Stored(t) THEN <<-t, k>>
             ELSE <<data[Root(t)].chunk, data[Root(t)].offset + k>>
AllRows(t) == 0 .. Size(t) - 1
Holds(t, k) == External(Home(t)) \/ (Row(t, k) \in DOMAIN mem /\ mem[Row(t, k)] = Home(t))
Written(t, rows) == [r \in DOMAIN mem |-> IF \E k \in rows : r = Row(t, k) THEN t ELSE mem[r]]

\* The tensor at work at a node, the last of those fused into one.
Result(n) == Tensor(n + cgraph[n].fused)
Ceil(a, b) == (a + b - 1) \div b
Slice(t, d, i) == {k \in AllRows(t) : d * i <= k /\ k < d * (i + 1)}

\* A norm deals its rows out one by one, the others in one piece per thread.
RowsOf(t, n) ==
  IF graph[Tensor(n)].op = "norm" THEN {k \in AllRows(Result(n)) : k % NThreads = t}
  ELSE Slice(Result(n), Ceil(Size(Result(n)), NThreads), t)

ChunkRows(n, c) == Slice(Tensor(n), Ceil(Size(Tensor(n)), cgraph[n].chunks), c)

\* What row k of an operation reads: the same row of its sources, a shorter
\* source again from its start; of a row selection and a product, anything.  The
\* first of two fused nodes is not read from memory, and a cast not from itself.
Operands(n) == (ToSet(graph[Tensor(n)].src) \cup ToSet(graph[Result(n)].src)) \ {Tensor(n)}

ReadsHold(t, n) ==
  \A k \in RowsOf(t, n), s \in Operands(n) :
    IF graph[Tensor(n)].op = "pick" THEN \A j \in AllRows(s) : Holds(s, j)
    ELSE Holds(s, k % Size(s))

\* What is kept outside of the plan is read by node n as the stores before n
\* have left it.
StoresRead(n) ==
  {t \in 1 .. Tensor(n) - 1 : Stored(t) /\ \E s \in Operands(n) : Root(s) = Root(t)}
-----------------------------------------------------------------------------
Init == AllocInit /\ TPInit /\ mem = <<>> /\ wdata = [t \in Threads |-> 0]

Plan == pc[0] = "new" /\ AllocNext /\ UNCHANGED <<poolVars, mem, wdata>>

\* The inputs are set, then the backend is asked to compute.
Start ==
  /\ data # <<>>
  /\ mem' = [r \in (UNION {{c} \X (0 .. buffer[c] - 1) : c \in DOMAIN buffer})
                  \cup (UNION {{-t} \X AllRows(t) : t \in {u \in Tensors : Stored(u)}}) |->
               IF \E t \in Tensors : graph[t].op = "input" /\ \E k \in AllRows(t) : r = Row(t, k)
               THEN CHOOSE t \in Tensors : graph[t].op = "input" /\ \E k \in AllRows(t) : r = Row(t, k)
               ELSE 0]
  /\ NewPool(Program)
  /\ UNCHANGED <<allocVars, wdata>>

ComputeRows(t) ==
  /\ Rows(t)
  /\ mem' = Written(Result(node_n[t]), RowsOf(t, node_n[t]))
  /\ UNCHANGED <<allocVars, wdata>>

ConvertShare(t) ==
  /\ Convert(t)
  /\ wdata' = [wdata EXCEPT ![t] = node_n[t]]
  /\ UNCHANGED <<allocVars, mem>>

ComputeChunk(t) ==
  /\ Chunk(t)
  /\ mem' = Written(Tensor(node_n[t]), ChunkRows(node_n[t], chunk[t]))
  /\ UNCHANGED <<allocVars, wdata>>

\* The steps of the pool that touch no tensor.
Coordinate(t) ==
  /\ \/ NextChunk(t) \/ NoMoreChunks(t) \/ Barrier(t)
     \/ t # 0 /\ Waiting(t)
     \/ t = 0 /\ (Kickoff \/ FreePool \/ Joined)
  /\ UNCHANGED <<allocVars, mem, wdata>>

Step(t) == ComputeRows(t) \/ ConvertShare(t) \/ ComputeChunk(t) \/ Coordinate(t)

Returned == pc[0] = "returned"
Stay == Returned /\ UNCHANGED vars

Next == Plan \/ Start \/ (\E t \in Threads : Step(t)) \/ Stay

Spec == Init /\ [][Next]_vars

\* Every thread is scheduled, and a mutex that is given back is had by whoever
\* waits for it.
FairSpec == Spec /\ \A t \in Threads : WF_vars(Step(t))
-----------------------------------------------------------------------------
\* What a thread reads next, from a tensor, from the converted half of a
\* product, or within one fused step.
ThreadReads(t) ==
  LET n == node_n[t] IN
  /\ pc[t] \in {"rows", "matmul", "chunk"} =>
       \A s \in StoresRead(n) : \A k \in AllRows(s) : Holds(s, k)
  /\ CASE pc[t] = "rows"   -> ReadsHold(t, n)
       [] pc[t] = "matmul" -> LET s == graph[Tensor(n)].src[2] IN \A k \in AllRows(s) : Holds(s, k)
       [] pc[t] = "chunk"  -> chunk[t] < Chunks(t) =>
                                /\ LET s == graph[Tensor(n)].src[1] IN \A k \in AllRows(s) : Holds(s, k)
                                /\ \A u \in Threads : wdata[u] = n
       [] OTHER -> TRUE

\* Whatever the threads' order and whichever batch the plan was made for, nobody
\* reads a row that has not been computed yet, that a later tensor has taken
\* over, or that is outside of the buffer: neither a thread, nor the caller who
\* takes the outputs when the computation has returned.  And who reads the KV
\* cache finds there all that the nodes before it have to store.
ReadsAreFresh ==
  /\ \A t \in Threads : ThreadReads(t)
  /\ Returned => \A t \in Owning : graph[t].output => \A k \in AllRows(t) : Holds(t, k)

\* A computation that is started returns: no thread is left asleep or in a
\* barrier, and the workers are gone.
ComputeReturns == (pc[0] = "kickoff") ~> Returned
=============================================================================

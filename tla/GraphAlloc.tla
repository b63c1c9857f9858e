----------------------------- MODULE GraphAlloc -----------------------------
(***************************************************************************)
(* The graph allocator of ggml (ggml-alloc.c), which plans where every     *)
(* tensor of a computation graph lives in one buffer: a tensor's space is  *)
(* handed to a later one as soon as its last reader has been planned, or   *)
(* taken over in place by its only reader.  The plan is made once, for the *)
(* largest batch of tokens, and kept for the smaller batches that fit it.  *)
(*                                                                         *)
(* A graph is the sequence of its tensors, leafs first, each after its     *)
(* sources.  Sizes are counted in aligned rows.                            *)
(***************************************************************************)
EXTENDS Integers, SequencesExt

CONSTANTS
  Shapes,         (* the graphs a model builds                              *)
  Batches,        (* the numbers of tokens a batch may have                 *)
  MaxChunkSize,   (* bound: the largest buffer the backend gives out        *)
  MaxChunks,      (* bound: GGML_VBUFFER_MAX_CHUNKS, 16 in the code         *)
  Endless         (* SIZE_MAX/2, the size of the last chunk                 *)

\* The size the backend asks for is clamped to SIZE_MAX/2.
ASSUME ChunkAssumption == /\ MaxChunks \in Nat \ {0}
                          /\ MaxChunkSize \in Nat \ {0}
                          /\ Endless \in Nat /\ MaxChunkSize <= Endless

GGML_MAX_SRC == 10

\* A tensor: its operation, its sources, the tensor it is a view of or 0.
GraphTensor ==
  [op : {"input", "weight", "norm", "view", "pick", "mul", "matmul", "cast", "store"},
   src : Seq(Nat), view_src : Nat, rows : {"tokens", "one"}, output : BOOLEAN]

\* What every graph is by the way it is built: sources come before what reads
\* them, but for a cast, which names itself; leafs come before nodes; a norm has
\* the rows of its source; a view is of a tensor that is none itself, and reads
\* it or another view of it.  A store (ggml_cpy, ggml_set_rows) is a view that
\* computes: it writes to memory outside of the plan, the KV cache, and what it
\* wrote is read there and not from the store.
WellFormed(g) ==
  \A t \in DOMAIN g :
    /\ Len(g[t].src) <= GGML_MAX_SRC
    /\ \A p \in ToSet(g[t].src) : \/ p \in 1 .. t - 1 /\ g[p].op # "store"
                                  \/ p = t /\ g[t].op = "cast"
    /\ g[t].op \in {"input", "weight"} =>
         g[t].src = <<>> /\ \A u \in 1 .. t - 1 : g[u].op \in {"input", "weight"}
    /\ g[t].op = "matmul" => Len(g[t].src) = 2
    /\ g[t].op = "norm" => Len(g[t].src) = 1 /\ g[t].rows = g[g[t].src[1]].rows
    /\ g[t].op \in {"view", "store"} <=> g[t].view_src # 0
    /\ g[t].op = "store" => g[g[t].view_src].op = "weight"
    /\ g[t].view_src # 0 =>
         LET root == g[t].view_src
         IN  /\ root \in 1 .. t - 1 /\ g[root].view_src = 0
             /\ g[t].rows \in {"one", g[root].rows}
             /\ \E p \in ToSet(g[t].src) : p = root \/ g[p].view_src = root

\* A decoder refuses a batch of no tokens.
ASSUME ShapeAssumption ==
  /\ \A g \in Shapes : g \in Seq(GraphTensor) /\ WellFormed(g)
  /\ Batches \subseteq Nat \ {0}

\* "the last chunk always has virtually endless memory": more than a graph needs
\* with no row used twice.
ASSUME EndlessAssumption == \A g \in Shapes, b \in Batches : Len(g) * b < Endless

VARIABLES
  graph,    (* the graph, a sequence of tensors                             *)
  batch,    (* the tokens of the batch the graph is built for               *)
  at,       (* the node being planned, 0 when no plan is being made         *)
  asked,    (* memory is wanted for a batch, not only a reservation         *)
  galloc,   (* the free blocks of each chunk, and what is known of a tensor *)
  allocs,   (* leaf_allocs and node_allocs: the plan that was kept          *)
  buffer,   (* the sizes of the chunks of the buffer                        *)
  data      (* where the tensors of the current graph were put              *)

allocVars == <<graph, batch, at, asked, galloc, allocs, buffer, data>>

Tensors == DOMAIN graph
IsLeaf(t) == graph[t].op \in {"input", "weight"}
IsView(t) == graph[t].view_src # 0
FirstNode == Cardinality({t \in Tensors : IsLeaf(t)}) + 1
Nodes == FirstNode .. Len(graph)

\* A weight has memory of its own, where the model file was read to, and so has
\* the KV cache; a view has the memory of its root.
External(t) == graph[t].op = "weight"
Owning == {t \in Tensors : ~External(t) /\ ~IsView(t)}
Root(t) == IF IsView(t) THEN graph[t].view_src ELSE t

Size(t) == IF graph[t].rows = "tokens" THEN batch ELSE 1
SameLayout(t, u) == Size(t) = Size(u)
CanInplace(op) == op \in {"norm", "mul"}

NoAddress == [chunk |-> 0, offset |-> 0]
-----------------------------------------------------------------------------
(* The free list of a chunk, sorted by offset. *)

BlockEnd(b) == b.offset + b.size
BlockRows(b) == b.offset .. BlockEnd(b) - 1

InsertBlock(blocks, b) ==
  InsertAt(blocks, Cardinality({i \in DOMAIN blocks : blocks[i].offset < b.offset}) + 1, b)

NewChunk(chunks, min_size) ==
  Append(chunks, [free_blocks |-> << [offset |-> 0,
                                      size |-> IF Len(chunks) = MaxChunks - 1 THEN Endless
                                               ELSE Max({min_size, MaxChunkSize})] >>,
                  max_size |-> 0])

\* The smallest block that fits, the last one of each chunk apart; among
\* equals, and among chunks, the later one.
BestFits(chunks, size) ==
  {f \in UNION {{c} \X (1 .. Len(chunks[c].free_blocks) - 1) : c \in DOMAIN chunks} :
     chunks[f[1]].free_blocks[f[2]].size >= size}

BestFit(chunks, size) ==
  LET fits   == BestFits(chunks, size)
      c      == Max({f[1] : f \in fits})
      Of(i)  == chunks[c].free_blocks[i].size
      in     == {f[2] : f \in {g \in fits : g[1] = c}}
      least  == Min({Of(i) : i \in in})
  IN  <<c, Max({i \in in : Of(i) = least})>>

\* How much of the memory used so far stays free if the last block is taken;
\* negative: by how much the chunk has to grow.
ReuseFactor(chunk, size) == chunk.max_size - Last(chunk.free_blocks).offset - size

LastFits(chunks, size) ==
  {c \in DOMAIN chunks : /\ chunks[c].free_blocks # <<>>
                         /\ Last(chunks[c].free_blocks).size >= size}

LastFit(chunks, size) ==
  LET fits     == LastFits(chunks, size)
      Factor(c) == ReuseFactor(chunks[c], size)
      enough   == {c \in fits : Factor(c) >= 0}
      best     == IF enough # {} THEN Min({Factor(c) : c \in enough})
                                 ELSE Max({Factor(c) : c \in fits})
      c        == Min({d \in fits : Factor(d) = best})
  IN  <<c, Len(chunks[c].free_blocks)>>

Alloc(before, size) ==
  LET chunks == IF BestFits(before, size) = {} /\ LastFits(before, size) = {}
                THEN NewChunk(before, size) ELSE before
      pos    == IF BestFits(before, size) # {} THEN BestFit(before, size)
                ELSE IF LastFits(before, size) # {} THEN LastFit(before, size)
                ELSE <<Len(chunks), 1>>
      c      == pos[1]
      blocks == chunks[c].free_blocks
      block  == blocks[pos[2]]
      rest   == [offset |-> block.offset + size, size |-> block.size - size]
  IN  [addr   |-> [chunk |-> c, offset |-> block.offset],
       chunks |-> [chunks EXCEPT
                     ![c] = [free_blocks |-> IF rest.size = 0 THEN RemoveAt(blocks, pos[2])
                                             ELSE ReplaceAt(blocks, pos[2], rest),
                             max_size    |-> Max({chunks[c].max_size, rest.offset})]]]

Freed_Unmerged(blocks, b) == InsertBlock(blocks, b)

\* A freed block grows the one it follows, else the one it precedes, and then
\* closes the gap between two.
Freed(blocks, b) ==
  LET touching == {i \in DOMAIN blocks : BlockEnd(blocks[i]) = b.offset
                                      \/ BlockEnd(b) = blocks[i].offset}
      i == Min(touching)
      Joined(j) == RemoveAt(ReplaceAt(blocks, j, [offset |-> blocks[j].offset,
                       size |-> blocks[j].size + b.size + blocks[j + 1].size]), j + 1)
  IN  IF touching = {} THEN InsertBlock(blocks, b)
      ELSE IF BlockEnd(blocks[i]) = b.offset
      THEN IF i < Len(blocks) /\ BlockEnd(b) = blocks[i + 1].offset THEN Joined(i)
           ELSE [blocks EXCEPT ![i].size = @ + b.size]
      ELSE IF i > 1 /\ BlockEnd(blocks[i - 1]) = b.offset THEN Joined(i - 1)
           ELSE [blocks EXCEPT ![i] = [offset |-> b.offset, size |-> @.size + b.size]]

FreeBytes(chunks, addr, size) ==
  [chunks EXCEPT ![addr.chunk].free_blocks = Freed(@, [offset |-> addr.offset, size |-> size])]
-----------------------------------------------------------------------------
(* One node.  `ga` is the allocator's state. *)

\* A view is never allocated itself, so the branch of the code that takes over
\* a view's root is not reached; layouts being the same, no space is left over.
Reusable(ga, t, p) ==
  /\ ga.hn[p].allocated
  /\ ~graph[p].output
  /\ IsView(p) => ~graph[Root(p)].output
  /\ SameLayout(t, p)
  /\ ga.hn[p].n_children = 1
  /\ ga.hn[p].n_views = 0

InPlace_ParentKept(ga, t, p) ==
  [ga EXCEPT !.hn[t].allocated = TRUE, !.hn[t].addr = ga.hn[p].addr]

InPlace(ga, t, p) ==
  [ga EXCEPT !.hn[t].allocated = TRUE, !.hn[t].addr = ga.hn[p].addr,
             !.hn[p].allocated = FALSE]

FromBuffer(ga, t) ==
  LET a == Alloc(ga.chunks, Size(t))
  IN  [chunks |-> a.chunks,
       hn     |-> [ga.hn EXCEPT ![t].allocated = TRUE, ![t].addr = a.addr]]

AllocateNode(ga, t) ==
  LET takeover == SelectInSeq(graph[t].src, LAMBDA p : Reusable(ga, t, p))
  IN  IF External(t) \/ IsView(t) \/ ga.hn[t].allocated THEN ga
      ELSE IF CanInplace(graph[t].op) /\ takeover # 0 THEN InPlace(ga, t, graph[t].src[takeover])
      ELSE FromBuffer(ga, t)

FreeNode(ga, t) ==
  IF graph[t].output THEN ga
  ELSE [chunks |-> FreeBytes(ga.chunks, ga.hn[t].addr, Size(t)),
        hn     |-> [ga.hn EXCEPT ![t].allocated = FALSE]]

Unused(ga, t) == ga.hn[t].n_children = 0 /\ ga.hn[t].n_views = 0
FreeIfOwned(ga, t) == IF Unused(ga, t) /\ ga.hn[t].allocated THEN FreeNode(ga, t) ELSE ga

\* One source of a planned node has one reader less.
UpdateParent(ga, p) ==
  LET less == [ga EXCEPT !.hn[p].n_children = @ - 1]
  IN  IF IsView(p) /\ Unused(less, p)
      THEN FreeIfOwned([less EXCEPT !.hn[Root(p)].n_views = @ - 1], Root(p))
      ELSE IF IsView(p) THEN less
      ELSE FreeIfOwned(less, p)

PlanTensor(ga, t) ==
  FoldLeft(UpdateParent, AllocateNode(FoldLeft(AllocateNode, ga, graph[t].src), t), graph[t].src)

\* Where a node reads a tensor, and which.
Slots == {r \in Nodes \X (1 .. GGML_MAX_SRC) : r[2] \in DOMAIN graph[r[1]].src}
Source(r) == graph[r[1]].src[r[2]]

Children(t) == Cardinality({r \in Slots : Source(r) = t})
Views(t) == Cardinality({n \in Nodes : graph[n].view_src = t})

\* The allocator is reset, the leafs come first, and readers are counted.
Counted ==
  LET clear == [chunks |-> <<>>,
                hn |-> [t \in Tensors |-> [n_children |-> 0, n_views |-> 0,
                                           allocated |-> FALSE, addr |-> NoAddress]]]
      leafs == FoldLeft(AllocateNode, clear, [t \in 1 .. FirstNode - 1 |-> t])
  IN  [leafs EXCEPT !.hn = [t \in Tensors |-> [@[t] EXCEPT !.n_children = Children(t),
                                                           !.n_views = Views(t)]]]
-----------------------------------------------------------------------------
NoGalloc == [chunks |-> <<>>, hn |-> <<>>]

AllocInit ==
  /\ graph \in Shapes
  /\ batch \in Batches
  /\ at = 0
  /\ asked = FALSE
  /\ galloc = NoGalloc
  /\ allocs = <<>>
  /\ buffer = <<>>
  /\ data = <<>>

\* A plan is begun: the allocator is emptied and the leafs placed.
StartPlan ==
  /\ at = 0
  /\ galloc' = Counted
  /\ at' = FirstNode
  /\ UNCHANGED <<graph, batch, asked, allocs, buffer, data>>

\* ggml_gallocr_reserve, when the context is created, for its largest batch.
Reserve == allocs = <<>> /\ StartPlan

PlanNode ==
  /\ at \in Nodes
  /\ galloc' = PlanTensor(galloc, at)
  /\ at' = at + 1
  /\ UNCHANGED <<graph, batch, asked, allocs, buffer, data>>

\* The addresses are kept, and the buffer is replaced if a chunk is too small.
KeepPlan ==
  /\ at = Len(graph) + 1
  /\ allocs' = [t \in Owning |-> [addr |-> galloc.hn[t].addr, size_max |-> Size(t)]]
  /\ LET need == [c \in DOMAIN galloc.chunks |-> galloc.chunks[c].max_size]
     IN  buffer' = IF \/ buffer = <<>>
                      \/ \E c \in DOMAIN need : c > Len(buffer) \/ need[c] > buffer[c]
                   THEN need ELSE buffer
  /\ at' = 0
  /\ galloc' = NoGalloc
  /\ UNCHANGED <<graph, batch, asked, data>>

\* ggml_gallocr_alloc_graph, for a batch of any size: a plan that is too small
\* is made again, any other is used as it is.
NewBatch ==
  /\ at = 0 /\ allocs # <<>> /\ ~asked
  /\ batch' \in Batches
  /\ asked' = TRUE
  /\ UNCHANGED <<graph, at, galloc, allocs, buffer, data>>

NeedsRealloc == \E t \in DOMAIN allocs : Size(t) > allocs[t].size_max

AllocGraph ==
  /\ at = 0 /\ asked /\ data = <<>>
  /\ ~NeedsRealloc
  /\ data' = [t \in Owning |-> allocs[t].addr]
  /\ UNCHANGED <<graph, batch, at, asked, galloc, allocs, buffer>>

Replan == asked /\ NeedsRealloc /\ StartPlan

AllocNext == Reserve \/ PlanNode \/ KeepPlan \/ NewBatch \/ AllocGraph \/ Replan
-----------------------------------------------------------------------------
(* What the plan must be. *)

Live == {t \in DOMAIN galloc.hn : galloc.hn[t].allocated}
LiveBlock(t) == [offset |-> galloc.hn[t].addr.offset, size |-> Size(t)]
LiveIn(c) == {t \in Live : galloc.hn[t].addr.chunk = c}
Apart(b, d) == BlockEnd(b) <= d.offset \/ BlockEnd(d) <= b.offset

\* Two tensors that are still needed never share memory: what one tensor takes
\* from the free list, or from its parent, no later reader of another expects.
LiveApart ==
  \A c \in DOMAIN galloc.chunks : \A t, u \in LiveIn(c) :
    t # u => Apart(LiveBlock(t), LiveBlock(u))

\* The free list is what the live tensors leave: sorted, with no two blocks
\* that touch (they would have to be one), and with no row of the chunk lost
\* or had twice, so a free block that fits is found.
FreeListIsExact ==
  \A c \in DOMAIN galloc.chunks :
    LET free == galloc.chunks[c].free_blocks
        rows == UNION ({BlockRows(free[i]) : i \in DOMAIN free}
                       \cup {BlockRows(LiveBlock(t)) : t \in LiveIn(c)})
    IN  /\ \A i \in 1 .. Len(free) - 1 : BlockEnd(free[i]) < free[i + 1].offset
        /\ \A i \in DOMAIN free, t \in LiveIn(c) : Apart(free[i], LiveBlock(t))
        /\ rows = 0 .. Cardinality(rows) - 1 /\ Cardinality(rows) >= MaxChunkSize
=============================================================================

--------------------------- MODULE MCGraphCompute ---------------------------
(* All small graphs: an input of one row per token, memory with room for all *)
(* tokens that is a weight or a cache, and nodes that all lead to the last   *)
(* one or store something.                                                   *)
EXTENDS GraphCompute

CONSTANT PlannedNodes   \* bound: the nodes of a graph

Leafs == << [op |-> "input", src |-> <<>>, view_src |-> 0, rows |-> "tokens", output |-> FALSE],
            [op |-> "weight", src |-> <<>>, view_src |-> 0, rows |-> "tokens", output |-> FALSE] >>

Node(op, src, view_src, rows) ==
  [op |-> op, src |-> src, view_src |-> view_src, rows |-> rows, output |-> FALSE]

RootIn(g, a) == IF g[a].view_src # 0 THEN g[a].view_src ELSE a

\* The nodes that can come after graph g, one of which casts or stores.
NodesAfter(g) ==
  LET acts == {a \in DOMAIN g : RootIn(g, a) # 2} IN
  UNION {{Node("norm", <<a>>, 0, g[a].rows), Node("view", <<a>>, RootIn(g, a), g[a].rows)} : a \in acts}
  \cup (IF \E t \in DOMAIN g : g[t].op \in {"cast", "store"} THEN {}
        ELSE UNION {{Node("cast", <<a, Len(g) + 1>>, 0, g[a].rows),
                     Node("store", <<a, 2>>, 2, g[a].rows)} : a \in acts})
  \cup {Node("pick", <<a>>, 0, "one") : a \in {b \in acts : g[b].rows = "tokens"}}
  \cup {Node("mul", <<a, b>>, 0, g[a].rows) :
          <<a, b>> \in {p \in acts \X acts : g[p[2]].rows \in {"one", g[p[1]].rows}}}
  \cup {Node("matmul", <<a, b>>, 0, g[b].rows) : <<a, b>> \in {p \in (acts \cup {2}) \X acts : p[1] # p[2]}}

Extend(gs) == UNION {{Append(g, n) : n \in NodesAfter(g)} : g \in gs}

Used(g, t) == \E u \in DOMAIN g : Contains(g[u].src, t)
Connected(g) ==
  Last(g).op # "view" /\ \A t \in 3 .. Len(g) - 1 : Used(g, t) \/ g[t].op = "store"

\* The last node is an output if it does not store, and the first one may be another.
WithOutputs(g) ==
  LET ends == {t \in {3, Len(g)} : g[t].view_src = 0} IN
  {[t \in DOMAIN g |-> [g[t] EXCEPT !.output = t = x \/ (t = Len(g) /\ t \in ends)]] :
     x \in ends \cup {Len(g) + 1}}

ShapesOf[k \in 0 .. PlannedNodes] == IF k = 0 THEN {Leafs} ELSE Extend(ShapesOf[k - 1])
AllShapes == UNION {WithOutputs(g) : g \in {h \in ShapesOf[PlannedNodes] : Connected(h)}}
=============================================================================

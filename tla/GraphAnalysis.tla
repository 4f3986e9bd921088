---------------------------- MODULE GraphAnalysis ----------------------------
(* What rust-orm derives from a canonical dependency graph document before it   *)
(* stores it: the depth of every edge, the maximum depth and the number of      *)
(* cyclic components. A document is                                              *)
(*   [view: "declared", package: a version, deps: a sequence of packages], or    *)
(*   [view: "resolved", roots, nodes: sequences of versions, edges: a sequence   *)
(*    of pairs <<from, to>> of versions].                                        *)
EXTENDS Naturals, Sequences, FiniteSets, SequencesExt, FiniteSetsExt

IsDocument(doc) ==
  \/ doc.view = "declared"
  \/ /\ doc.view = "resolved"
     /\ \A list \in {doc.roots, doc.nodes, doc.edges} : list \in Seq(ToSet(list))

\* The adjacency lists, filled in the order of the edges: the edges of a node by their
\* places, of which a search always tries the first that is left.
Outgoing(doc, v) == {i \in DOMAIN doc.edges : doc.edges[i][1] = v}
Incoming(doc, v) == {i \in DOMAIN doc.edges : doc.edges[i][2] = v}
SelfLoop(doc, v) == Outgoing(doc, v) \cap Incoming(doc, v) # {}

\* A search takes every node from its queue or stack once and tries every edge once.
Rounds(doc) == Len(doc.nodes) + Len(doc.edges)
-------------------------------------------------------------------------------
\* analyze_resolved_graph: breadth first from the roots; next is the depth of what the
\* edges of todo discover.
Visit(doc, s) ==
  IF s.todo # {}
  THEN LET i == Min(s.todo)  v == doc.edges[i][2]  tried == [s EXCEPT !.todo = @ \ {i}] IN
       IF v \in DOMAIN s.depth THEN tried
       ELSE [tried EXCEPT !.queue = Append(@, v),
                          !.depth = [w \in {v} \cup DOMAIN s.depth |->
                                       IF w = v THEN s.next ELSE s.depth[w]]]
  ELSE IF s.queue = <<>> THEN s
  ELSE LET node == Head(s.queue) IN
       [s EXCEPT !.queue = Tail(@), !.next = s.depth[node] + 1, !.todo = Outgoing(doc, node)]

\* Only one root gets here: validate_persisted_root_shape comes first.
Depths(doc) ==
  LET run[k \in 0..Rounds(doc)] ==
        IF k = 0
        THEN [depth |-> [v \in ToSet(doc.roots) |-> 0], queue |-> doc.roots, next |-> 0, todo |-> {}]
        ELSE Visit(doc, run[k - 1])
  IN run[Rounds(doc)].depth

\* The document's own identities: ends and roots are nodes, every node has one place
\* (the map of identities keeps the last, and the others are never reached), and all
\* are reached.
Sound(doc) ==
  /\ \A e \in ToSet(doc.edges) : {e[1], e[2]} \subseteq ToSet(doc.nodes)
  /\ ToSet(doc.roots) \subseteq ToSet(doc.nodes)
  /\ IsInjective(doc.nodes)
  /\ DOMAIN Depths(doc) = ToSet(doc.nodes)
-------------------------------------------------------------------------------
\* count_cyclic_components: an iterative depth-first search that keeps the order of
\* completion. A frame is a node with the edges it has not tried; when the stack is
\* empty, the next start is the first node that is not visited.
Enter(doc, s, v) ==
  [visited |-> s.visited \cup {v},
   stack |-> Append(s.stack, [node |-> v, todo |-> Outgoing(doc, v)]),
   finished |-> s.finished]

Descend(doc, s) ==
  IF s.stack = <<>>
  THEN LET left == {i \in DOMAIN doc.nodes : doc.nodes[i] \notin s.visited} IN
       IF left = {} THEN s ELSE Enter(doc, s, doc.nodes[Min(left)])
  ELSE LET frame == Last(s.stack)  rest == Front(s.stack) IN
       IF frame.todo = {}
       THEN [s EXCEPT !.stack = rest, !.finished = Append(@, frame.node)]
       ELSE LET i == Min(frame.todo)  v == doc.edges[i][2]
                left == [node |-> frame.node, todo |-> frame.todo \ {i}]
                tried == [s EXCEPT !.stack = Append(rest, left)] IN
            IF v \in s.visited THEN tried ELSE Enter(doc, tried, v)

Finished(doc) ==
  LET steps == Len(doc.nodes) + Rounds(doc)
      run[k \in 0..steps] ==
        IF k = 0 THEN [visited |-> {}, stack |-> <<>>, finished |-> <<>>]
        ELSE Descend(doc, run[k - 1])
  IN run[steps].finished

\* The search over the reversed edges: one node of the component is taken from the
\* stack, then its sources are assigned.
Collect(doc, s) ==
  IF s.todo # {}
  THEN LET i == Min(s.todo)  v == doc.edges[i][1]  tried == [s EXCEPT !.todo = @ \ {i}] IN
       IF v \in s.assigned THEN tried
       ELSE [tried EXCEPT !.assigned = @ \cup {v}, !.stack = Append(@, v)]
  ELSE IF s.stack = <<>> THEN s
  ELSE LET node == Last(s.stack) IN
       [s EXCEPT !.stack = Front(@), !.todo = Incoming(doc, node),
                 !.size = @ + 1, !.loop = @ \/ SelfLoop(doc, node)]

Component(doc, assigned, start) ==
  LET run[k \in 0..Rounds(doc)] ==
        IF k = 0
        THEN [assigned |-> assigned \cup {start}, stack |-> <<start>>, todo |-> {},
              size |-> 0, loop |-> FALSE]
        ELSE Collect(doc, run[k - 1])
  IN run[Rounds(doc)]

\* The starts are taken in the order opposite to that of completion.
Tally(doc, s, start) ==
  IF start \in s.assigned THEN s
  ELSE LET c == Component(doc, s.assigned, start) IN
       [assigned |-> c.assigned,
        count |-> IF c.size > 1 \/ c.loop THEN s.count + 1 ELSE s.count]

CyclicComponents(doc) ==
  LET order == Reverse(Finished(doc))
      tally[k \in 0..Len(order)] ==
        IF k = 0 THEN [assigned |-> {}, count |-> 0] ELSE Tally(doc, tally[k - 1], order[k])
  IN tally[Len(order)].count
-------------------------------------------------------------------------------
AtLeastOne(n) == IF n < 1 THEN 1 ELSE n

\* graph_projection: what the columns of the artifact and its edges must say.
Projection(doc) ==
  IF doc.view = "declared"
  THEN [nodes |-> 1 + Cardinality(ToSet(doc.deps)),
        depth |-> IF doc.deps = <<>> THEN 0 ELSE 1,
        cycles |-> 0,
        edges |-> [i \in DOMAIN doc.deps |-> [from |-> doc.package, to |-> doc.deps[i], depth |-> 1]]]
  ELSE LET depth == Depths(doc)
           deepest == Max({0} \cup {depth[v] : v \in DOMAIN depth}) IN
       [nodes |-> Len(doc.nodes),
        depth |-> IF doc.edges = <<>> THEN deepest ELSE AtLeastOne(deepest),
        cycles |-> CyclicComponents(doc),
        edges |-> [i \in DOMAIN doc.edges |->
                     [from |-> doc.edges[i][1], to |-> doc.edges[i][2],
                      depth |-> AtLeastOne(depth[doc.edges[i][2]])]]]

Root(doc) == IF doc.view = "declared" THEN doc.package ELSE Head(doc.roots)

\* Slip: the columns and edges of the caller are taken as they come.
ValidUnprojected(doc, claim) == doc.view = "resolved" => Len(doc.roots) = 1 /\ Sound(doc)

\* validate_artifact_input: the document is one that can be stored under one root,
\* and every claim of the caller agrees with what it implies.
Valid(doc, claim) ==
  /\ doc.view = "resolved" => Len(doc.roots) = 1 /\ Sound(doc)
  /\ claim = Projection(doc)
-------------------------------------------------------------------------------
\* What the columns mean: the nodes at the end of a walk of n edges from a root, and the
\* classes of nodes that reach each other, by way of an edge at least.
Away(doc) ==
  LET walk[n \in 0..Len(doc.nodes)] ==
        IF n = 0 THEN ToSet(doc.roots)
        ELSE {v \in ToSet(doc.nodes) :
                \E e \in ToSet(doc.edges) : e[1] \in walk[n - 1] /\ e[2] = v}
  IN walk

Distances(doc, v) == {n \in 0..Len(doc.nodes) : v \in Away(doc)[n]}

Closed(doc, S) == \A e \in ToSet(doc.edges) : e[1] \in S => e[2] \in S

\* What is in every set of nodes that no edge leaves and v is in.
Reaches(doc, v, w) == \A S \in SUBSET ToSet(doc.nodes) : v \in S /\ Closed(doc, S) => w \in S

Round(doc) ==
  {v \in ToSet(doc.nodes) : \E e \in ToSet(doc.edges) : e[1] = v /\ Reaches(doc, e[2], v)}

Class(doc, v) == {w \in ToSet(doc.nodes) : Reaches(doc, v, w) /\ Reaches(doc, w, v)}

Cycles(doc) == {Class(doc, v) : v \in Round(doc)}

Meaning(doc) ==
  IF doc.view = "declared" THEN Projection(doc)
  ELSE LET distance == [v \in ToSet(doc.nodes) |-> Min(Distances(doc, v))]
           farthest == Max({distance[v] : v \in ToSet(doc.nodes)}) IN
       [nodes |-> Cardinality(ToSet(doc.nodes)),
        depth |-> Max({farthest} \cup {AtLeastOne(0) : e \in ToSet(doc.edges)}),
        cycles |-> Cardinality(Cycles(doc)),
        edges |-> [i \in DOMAIN doc.edges |->
                     [from |-> doc.edges[i][1], to |-> doc.edges[i][2],
                      depth |-> Max({1, distance[doc.edges[i][2]]})]]]

\* Every node lies on a walk from the root, so its distance is defined.
Connected(doc) ==
  doc.view = "resolved" =>
    /\ Len(doc.roots) = 1 /\ ToSet(doc.roots) \subseteq ToSet(doc.nodes)
    /\ \A e \in ToSet(doc.edges) : {e[1], e[2]} \subseteq ToSet(doc.nodes)
    /\ IsInjective(doc.nodes)
    /\ \A v \in ToSet(doc.nodes) : Distances(doc, v) # {}
===============================================================================

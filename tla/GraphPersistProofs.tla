-------------------------- MODULE GraphPersistProofs --------------------------
(***************************************************************************)
(* What GraphPersist promises of dependency graph artifacts, for any number *)
(* of writers and readers, any requests, any rows and any removals.         *)
(*                                                                         *)
(* The first part is about one document: that the breadth-first search      *)
(* finds the distances, the depth-first search finishes last of what a node *)
(* reaches one of its own class, the reverse search from there assigns that *)
(* class, and the count is that of the cycles. Each search is a loop whose   *)
(* rounds keep an invariant and leave less to do. The second part is about   *)
(* the transactions, the locks, the indexes and the triggers.               *)
(***************************************************************************)
EXTENDS GraphPersist, FiniteSetTheorems, SequenceTheorems, TLAPS

\* A set of naturals that is not empty has a least element.
LEMMA LeastOf ==
  ASSUME NEW S, S \subseteq Nat, S # {}
  PROVE  \E x \in S : \A y \in S : x <= y
<1> DEFINE R == OpToRel(<, Nat)
<1>1. IsWellFoundedOn(R, Nat)
  BY NatLessThanWellFounded, Zenon
<1>2. \A x, y \in Nat : x < y => <<x, y>> \in R
  BY DEF OpToRel
<1> HIDE DEF R
<1>3. PICK x \in S : \A y \in S : ~(<<y, x>> \in R)
  BY <1>1, WFMin, Zenon
<1>4. \A y \in S : x \in Nat /\ y \in Nat /\ ~(y < x)
  BY <1>2, <1>3
<1> QED
  BY <1>3, <1>4

\* The operator Min takes that element.
LEMMA MinIs ==
  ASSUME NEW S, S \subseteq Nat, S # {}
  PROVE  Min(S) \in S /\ \A y \in S : Min(S) <= y
BY LeastOf DEF Min

-------------------------------------------------------------------------------
(* Loops, as runs of a function on states.                                 *)

Runs(S, a, g, n) == {f \in [0..n -> S] : f[0] = a /\ \A i \in 1..n : f[i] = g[f[i - 1]]}

\* A loop can be run any number of rounds.
LEMMA RunExists ==
  ASSUME NEW S, NEW a, a \in S, NEW g, g \in [S -> S], NEW n, n \in Nat
  PROVE  Runs(S, a, g, n) # {}
<1> DEFINE Is(f, m) == f \in [0..m -> S] /\ f[0] = a /\ \A i \in 1..m : f[i] = g[f[i - 1]]
           bad == {m \in Nat : ~\E f : Is(f, m)}
<1>1. ASSUME bad # {} PROVE FALSE
  <2>1. bad \subseteq Nat
    OBVIOUS
  <2>2. PICK m \in bad : \A k \in bad : m <= k
    BY <1>1, <2>1, LeastOf
  <2>3. m \in Nat /\ ~\E f : Is(f, m)
    OBVIOUS
  <2>4. CASE m = 0
    <3> DEFINE f == [i \in 0..0 |-> a]
    <3>1. Is(f, 0)
      OBVIOUS
    <3> HIDE DEF f, Is
    <3> QED BY <2>3, <2>4, <3>1
  <2>5. CASE m # 0
    <3>1. m - 1 \in Nat /\ ~(m <= m - 1)
      BY <2>3, <2>5
    <3>2. \E f : Is(f, m - 1)
      <4> HIDE DEF Is
      <4> QED BY <2>2, <3>1
    <3>3. PICK f : Is(f, m - 1)
      BY <3>2, Zenon
    <3> DEFINE h == [i \in 0..m |-> IF i = m THEN g[f[m - 1]] ELSE f[i]]
    <3>4. h \in [0..m -> S]
      <4> SUFFICES ASSUME NEW i \in 0..m PROVE (IF i = m THEN g[f[m - 1]] ELSE f[i]) \in S
        OBVIOUS
      <4>1. m - 1 \in 0..(m - 1) /\ (i # m => i \in 0..(m - 1))
        BY <3>1
      <4> QED BY <3>3, <4>1
    <3>5. h[0] = a
      <4>1. 0 \in 0..m /\ 0 # m
        BY <2>3, <2>5
      <4> QED BY <3>3, <4>1
    <3>6. \A i \in 1..m : h[i] = g[h[i - 1]]
      <4> TAKE i \in 1..m
      <4>1. i \in 0..m /\ i - 1 \in 0..m /\ i - 1 # m
        BY <2>3
      <4>2. h[i] = (IF i = m THEN g[f[m - 1]] ELSE f[i]) /\ h[i - 1] = f[i - 1]
        BY <4>1
      <4>3. i # m => i \in 1..(m - 1)
        BY <2>3
      <4> HIDE DEF h
      <4> QED BY <3>3, <4>2, <4>3
    <3>7. Is(h, m)
      BY <3>4, <3>5, <3>6
    <3> HIDE DEF Is
    <3> QED BY <2>3, <3>7
  <2> QED BY <2>4, <2>5
<1>2. \E f : Is(f, n)
  <2> HIDE DEF Is
  <2> QED BY <1>1
<1> QED BY <1>2 DEF Runs

\* What every round keeps is so after all of them.
LEMMA RunStays ==
  ASSUME NEW S, NEW f, NEW n \in Nat, f[0] \in S,
         \A i \in 1..n : f[i - 1] \in S => f[i] \in S
  PROVE  \A i \in 0..n : f[i] \in S
<1> DEFINE bad == {i \in 0..n : f[i] \notin S}
<1>1. ASSUME bad # {} PROVE FALSE
  <2>1. bad \subseteq Nat
    OBVIOUS
  <2>2. PICK m \in bad : \A k \in bad : m <= k
    BY <1>1, <2>1, LeastOf
  <2>3. m # 0 /\ m \in 1..n /\ m - 1 \in 0..n /\ ~(m <= m - 1)
    <3>1. m \in 0..n /\ m # 0
      OBVIOUS
    <3> QED BY <3>1
  <2>4. m - 1 \notin bad
    BY <2>2, <2>3
  <2> QED BY <2>3, <2>4
<1> QED BY <1>1

\* A loop whose every round makes less of what is left is over when nothing is.
LEMMA RunEnds ==
  ASSUME NEW S, NEW done, NEW mu \in [S -> Nat], NEW f, NEW n \in Nat,
         f[0] \in S, mu[f[0]] <= n,
         \A i \in 1..n : f[i - 1] \in S =>
           /\ f[i] \in S
           /\ f[i - 1] \in done => f[i] \in done
           /\ f[i - 1] \notin done => mu[f[i]] < mu[f[i - 1]],
         \A s \in S : mu[s] = 0 => s \in done
  PROVE  f[n] \in S /\ f[n] \in done
<1>1. \A i \in 0..n : f[i] \in S
  BY RunStays
<1> DEFINE bad == {i \in 0..n : ~(f[i] \in done \/ mu[f[i]] + i <= n)}
<1>2. ASSUME bad # {} PROVE FALSE
  <2>1. bad \subseteq Nat
    OBVIOUS
  <2>2. PICK m \in bad : \A k \in bad : m <= k
    BY <1>2, <2>1, LeastOf
  <2>3. m \in 0..n /\ ~(f[m] \in done \/ mu[f[m]] + m <= n)
    OBVIOUS
  <2>4. m # 0
    BY <2>3
  <2>5. m \in 1..n /\ m - 1 \in 0..n /\ ~(m <= m - 1)
    BY <2>3, <2>4
  <2>6. m - 1 \notin bad
    BY <2>2, <2>5
  <2>7. f[m - 1] \in done \/ mu[f[m - 1]] + (m - 1) <= n
    BY <2>5, <2>6
  <2>8. f[m - 1] \in S /\ f[m] \in S /\ mu[f[m - 1]] \in Nat /\ mu[f[m]] \in Nat
    BY <1>1, <2>3, <2>5
  <2>9. f[m - 1] \notin done /\ mu[f[m]] < mu[f[m - 1]]
    BY <2>3, <2>5, <2>8
  <2> QED BY <2>3, <2>5, <2>7, <2>8, <2>9
<1>3. f[n] \in done \/ mu[f[n]] + n <= n
  <2>1. n \in 0..n
    OBVIOUS
  <2> QED BY <1>2, <2>1
<1>4. f[n] \in S /\ mu[f[n]] \in Nat
  BY <1>1
<1> QED BY <1>3, <1>4

-------------------------------------------------------------------------------
(* Queues and stacks that hold nothing twice.                              *)

\* A stack or queue with one element more holds that element too.
LEMMA PushIs ==
  ASSUME NEW S, NEW q \in Seq(S), NEW v \in S
  PROVE  LET p == Append(q, v) IN
           /\ p \in Seq(S) /\ Len(p) = Len(q) + 1 /\ Len(q) \in Nat
           /\ \A j \in 1..Len(p) : p[j] = IF j = Len(p) THEN v ELSE q[j]
           /\ ToSet(p) = ToSet(q) \cup {v}
<1> DEFINE p == Append(q, v)
<1>1. /\ p \in Seq(S) /\ Len(p) = Len(q) + 1 /\ Len(q) \in Nat
      /\ DOMAIN p = 1..Len(p) /\ DOMAIN q = 1..Len(q)
  OBVIOUS
<1>2. \A j \in 1..Len(p) : p[j] = IF j = Len(p) THEN v ELSE q[j]
  OBVIOUS
<1> HIDE DEF p
<1>3. ToSet(p) \subseteq ToSet(q) \cup {v}
  <2> SUFFICES ASSUME NEW j \in 1..Len(p) PROVE p[j] \in ToSet(q) \cup {v}
    BY <1>1 DEF ToSet
  <2>1. j # Len(p) => j \in 1..Len(q)
    BY <1>1
  <2> QED BY <1>1, <1>2, <2>1 DEF ToSet
<1>4. ToSet(q) \subseteq ToSet(p)
  <2> SUFFICES ASSUME NEW j \in 1..Len(q) PROVE q[j] \in ToSet(p)
    BY <1>1 DEF ToSet
  <2>1. j \in 1..Len(p) /\ j # Len(p)
    BY <1>1
  <2>2. p[j] = q[j]
    BY <1>2, <2>1
  <2> QED BY <1>1, <2>1, <2>2 DEF ToSet
<1>5. v \in ToSet(p)
  <2>1. Len(p) \in 1..Len(p)
    BY <1>1
  <2>2. p[Len(p)] = v
    BY <1>2, <2>1
  <2> QED BY <1>1, <2>1, <2>2 DEF ToSet
<1> QED BY <1>1, <1>2, <1>3, <1>4, <1>5 DEF p

\* A queue without repetition, without its head, holds everything else.
LEMMA DropFirstIs ==
  ASSUME NEW S, NEW q \in Seq(S), q # <<>>,
         \A j, k \in 1..Len(q) : j < k => q[j] # q[k]
  PROVE  /\ Len(q) \in Nat \ {0} /\ Head(q) = q[1] /\ q[1] \in S
         /\ Tail(q) \in Seq(S) /\ Len(Tail(q)) = Len(q) - 1
         /\ \A j \in 1..Len(Tail(q)) : Tail(q)[j] = q[j + 1]
         /\ ToSet(Tail(q)) = ToSet(q) \ {q[1]} /\ q[1] \in ToSet(q)
<1>1. /\ Len(q) \in Nat \ {0} /\ Head(q) = q[1] /\ q[1] \in S
      /\ Tail(q) \in Seq(S) /\ Len(Tail(q)) = Len(q) - 1
      /\ \A j \in 1..Len(Tail(q)) : Tail(q)[j] = q[j + 1]
  BY EmptySeq, HeadTailProperties
<1>2. DOMAIN q = 1..Len(q) /\ DOMAIN Tail(q) = 1..(Len(q) - 1)
  BY <1>1, LenProperties
<1>3. ToSet(Tail(q)) \subseteq ToSet(q) \ {q[1]}
  <2> SUFFICES ASSUME NEW j \in 1..(Len(q) - 1) PROVE Tail(q)[j] \in ToSet(q) \ {q[1]}
    BY <1>2 DEF ToSet
  <2>1. j + 1 \in 1..Len(q) /\ 1 \in 1..Len(q) /\ 1 < j + 1
    BY <1>1
  <2> QED BY <1>1, <1>2, <2>1 DEF ToSet
<1>4. ToSet(q) \ {q[1]} \subseteq ToSet(Tail(q))
  <2> SUFFICES ASSUME NEW j \in 1..Len(q), q[j] # q[1] PROVE q[j] \in ToSet(Tail(q))
    BY <1>2 DEF ToSet
  <2>1. j # 1
    OBVIOUS
  <2>2. j - 1 \in 1..(Len(q) - 1) /\ (j - 1) + 1 = j
    BY <1>1, <2>1
  <2>3. Tail(q)[j - 1] = q[j]
    BY <1>1, <2>2
  <2> QED BY <1>2, <2>2, <2>3 DEF ToSet
<1>5. q[1] \in ToSet(q)
  BY <1>1, <1>2 DEF ToSet
<1> QED BY <1>1, <1>3, <1>4, <1>5

\* A stack without repetition, without its top, holds everything else.
LEMMA PopIs ==
  ASSUME NEW S, NEW q \in Seq(S), q # <<>>
  PROVE  /\ Len(q) \in Nat \ {0} /\ Last(q) = q[Len(q)] /\ q[Len(q)] \in S
         /\ Front(q) \in Seq(S) /\ Len(Front(q)) = Len(q) - 1
         /\ \A j \in 1..(Len(q) - 1) : Front(q)[j] = q[j]
         /\ ToSet(q) = ToSet(Front(q)) \cup {Last(q)}
         /\ (\A j, k \in 1..Len(q) : j < k => q[j] # q[k])
              => ToSet(Front(q)) = ToSet(q) \ {Last(q)}
<1>1. Len(q) \in Nat \ {0} /\ DOMAIN q = 1..Len(q) /\ \A j \in 1..Len(q) : q[j] \in S
  BY EmptySeq, LenProperties, ElementOfSeq
<1>2. \A j \in 1..(Len(q) - 1) : q[j] \in S
  BY <1>1
<1>3. Len(q) - 1 \in Int /\ 1 \in Int
  BY <1>1
<1>4. Front(q) \in Seq(S) /\ Len(Front(q)) = (IF 1 <= Len(q) - 1 THEN (Len(q) - 1) - 1 + 1 ELSE 0)
      /\ \A j \in 1..((Len(q) - 1) - 1 + 1) : Front(q)[j] = q[1 + j - 1]
  BY <1>2, <1>3, SubSeqProperties DEF Front
<1>5. Len(Front(q)) = Len(q) - 1 /\ \A j \in 1..(Len(q) - 1) : Front(q)[j] = q[j]
  <2>1. Len(Front(q)) = Len(q) - 1
    <3> DEFINE F == Len(Front(q))
               L == Len(q)
    <3>1. F = IF 1 <= L - 1 THEN (L - 1) - 1 + 1 ELSE 0
      BY <1>4, Zenon
    <3>2. L \in Nat \ {0}
      BY <1>1
    <3> HIDE DEF F, L
    <3>3. F = L - 1
      BY <3>1, <3>2
    <3> QED BY <3>3 DEF F, L
  <2>2. ASSUME NEW j \in 1..(Len(q) - 1) PROVE Front(q)[j] = q[j]
    <3>1. j \in 1..((Len(q) - 1) - 1 + 1) /\ 1 + j - 1 = j
      BY <1>1
    <3> QED BY <1>4, <3>1
  <2> QED BY <2>1, <2>2
<1>6. DOMAIN Front(q) = 1..(Len(q) - 1)
  BY <1>4, <1>5, LenProperties
<1>7. Last(q) = q[Len(q)] /\ Len(q) \in 1..Len(q)
  BY <1>1 DEF Last
<1>8. ToSet(Front(q)) = {q[j] : j \in 1..(Len(q) - 1)}
  BY <1>5, <1>6 DEF ToSet
<1>9. ToSet(q) = {q[j] : j \in 1..(Len(q) - 1)} \cup {q[Len(q)]}
  <2>1. 1..Len(q) = 1..(Len(q) - 1) \cup {Len(q)}
    BY <1>1
  <2>2. ToSet(q) = {q[j] : j \in 1..Len(q)}
    BY <1>1 DEF ToSet
  <2> QED BY <2>1, <2>2
<1>10. ASSUME \A j, k \in 1..Len(q) : j < k => q[j] # q[k]
       PROVE  q[Len(q)] \notin {q[j] : j \in 1..(Len(q) - 1)}
  <2> SUFFICES ASSUME NEW j \in 1..(Len(q) - 1) PROVE q[j] # q[Len(q)]
    OBVIOUS
  <2> QED BY <1>1, <1>7, <1>10
<1> QED BY <1>1, <1>4, <1>5, <1>7, <1>8, <1>9, <1>10

-------------------------------------------------------------------------------
(* Documents whose ends and roots are nodes, each node in one place.       *)

Nodes(doc) == ToSet(doc.nodes)
Places(doc) == DOMAIN doc.edges
From(doc, i) == doc.edges[i][1]
To(doc, i) == doc.edges[i][2]

Listed(doc) ==
  /\ doc.nodes \in Seq(ToSet(doc.nodes)) /\ doc.edges \in Seq(ToSet(doc.edges))
  /\ doc.roots \in Seq(ToSet(doc.roots))

Proper(doc) ==
  /\ Listed(doc) /\ Len(doc.roots) = 1
  /\ \A e \in ToSet(doc.edges) : {e[1], e[2]} \subseteq ToSet(doc.nodes)
  /\ ToSet(doc.roots) \subseteq ToSet(doc.nodes)
  /\ IsInjective(doc.nodes)

\* An interval from 1 has as many elements as its end says.
LEMMA OneTo ==
  ASSUME NEW n \in Nat
  PROVE  IsFiniteSet(1..n) /\ Cardinality(1..n) = n
<1>1. 1 \in Int /\ n \in Int
  OBVIOUS
<1>2. IsFiniteSet(1..n) /\ Cardinality(1..n) = IF 1 > n THEN 0 ELSE n - 1 + 1
  BY <1>1, FS_Interval
<1> QED BY <1>2

\* The nodes and places of such a document are finitely many, and edges join nodes.
LEMMA ProperIs ==
  ASSUME NEW doc, Proper(doc)
  PROVE  /\ IsFiniteSet(Nodes(doc)) /\ Cardinality(Nodes(doc)) = Len(doc.nodes)
         /\ Len(doc.nodes) \in Nat /\ Len(doc.edges) \in Nat /\ Rounds(doc) \in Nat
         /\ Rounds(doc) = Len(doc.nodes) + Len(doc.edges)
         /\ IsFiniteSet(Places(doc)) /\ Cardinality(Places(doc)) = Len(doc.edges)
         /\ Places(doc) \subseteq Nat
         /\ \A i \in Places(doc) : From(doc, i) \in Nodes(doc) /\ To(doc, i) \in Nodes(doc)
         /\ doc.roots \in Seq(Nodes(doc)) /\ Len(doc.roots) = 1
         /\ ToSet(doc.roots) = {doc.roots[1]} /\ doc.roots[1] \in Nodes(doc)
<1> DEFINE n == Len(doc.nodes)
           m == Len(doc.edges)
<1>1. /\ n \in Nat /\ doc.nodes \in [1..n -> ToSet(doc.nodes)] /\ DOMAIN doc.nodes = 1..n
      /\ m \in Nat /\ DOMAIN doc.edges = 1..m
      /\ DOMAIN doc.roots = 1..1
  BY LenProperties, Zenon DEF Proper, Listed
<1>2. IsFiniteSet(Nodes(doc)) /\ Cardinality(Nodes(doc)) = n
  <2>1. doc.nodes \in Surjection(1..n, Nodes(doc))
    BY <1>1 DEF Surjection, Nodes, ToSet
  <2>2. doc.nodes \in Injection(1..n, Nodes(doc))
    BY <1>1 DEF Injection, Nodes, Proper
  <2>3. IsFiniteSet(1..n) /\ Cardinality(1..n) = n
    BY <1>1, OneTo
  <2> QED BY <2>1, <2>2, <2>3, FS_Surjection
<1>3. IsFiniteSet(Places(doc)) /\ Cardinality(Places(doc)) = m /\ Places(doc) \subseteq Nat
  <2>1. IsFiniteSet(1..m) /\ Cardinality(1..m) = m
    BY <1>1, OneTo
  <2> QED BY <1>1, <2>1 DEF Places
<1>4. ASSUME NEW i \in Places(doc) PROVE From(doc, i) \in Nodes(doc) /\ To(doc, i) \in Nodes(doc)
  <2>1. doc.edges[i] \in ToSet(doc.edges)
    BY DEF ToSet, Places
  <2> QED BY <2>1 DEF Proper, From, To, Nodes
<1>5. ToSet(doc.roots) = {doc.roots[1]}
  <2>1. 1..1 = {1}
    OBVIOUS
  <2> QED BY <1>1, <2>1 DEF ToSet
<1>6. doc.roots[1] \in Nodes(doc) /\ doc.roots \in Seq(Nodes(doc))
  BY <1>5, SeqMonotonic DEF Proper, Listed, Nodes
<1>7. Rounds(doc) \in Nat /\ Rounds(doc) = n + m
  <2>1. Rounds(doc) = n + m
    BY DEF Rounds
  <2> HIDE DEF n, m
  <2> QED BY <1>1, <2>1
<1> QED BY <1>1, <1>2, <1>3, <1>4, <1>5, <1>6, <1>7 DEF Proper

-------------------------------------------------------------------------------
(* Breadth first.                                                          *)

BreadthStates(doc) ==
  [depth : UNION {[D -> Nat] : D \in SUBSET Nodes(doc)}, queue : Seq(Nodes(doc)),
   next : Nat, todo : SUBSET Places(doc)]

\* The nodes whose edges have been taken up, and what is left to do.
Taken(s) == DOMAIN s.depth \ ToSet(s.queue)
NodesLeft(doc, s) == Nodes(doc) \ Taken(s)
EdgesLeft(doc, s) == {i \in Places(doc) : From(doc, i) \notin Taken(s) \/ i \in s.todo}

BreadthInv(doc, s) ==
  LET depth == s.depth  queue == s.queue IN
    /\ doc.roots[1] \in DOMAIN depth /\ depth[doc.roots[1]] = 0
    /\ \A j \in 1..Len(queue) : queue[j] \in DOMAIN depth /\ s.next <= depth[queue[j]] + 1
    /\ \A j, k \in 1..Len(queue) :
         j < k => queue[j] # queue[k] /\ depth[queue[j]] <= depth[queue[k]]
    /\ \A v \in DOMAIN depth : depth[v] <= s.next
    /\ \A i \in s.todo : From(doc, i) \in Taken(s) /\ depth[From(doc, i)] + 1 = s.next
    /\ \A i \in Places(doc) :
         From(doc, i) \in Taken(s) /\ i \notin s.todo =>
           To(doc, i) \in DOMAIN depth /\ depth[To(doc, i)] <= depth[From(doc, i)] + 1
    /\ \A v \in DOMAIN depth :
         \/ v = doc.roots[1]
         \/ \E i \in Places(doc) : /\ To(doc, i) = v /\ From(doc, i) \in DOMAIN depth
                                    /\ depth[From(doc, i)] + 1 = depth[v]

BreadthOver(s) == s.todo = {} /\ s.queue = <<>>
BreadthLeft(doc, s) == Cardinality(NodesLeft(doc, s)) + Cardinality(EdgesLeft(doc, s))

\* One edge.
LEMMA VisitEdge ==
  ASSUME NEW doc, Proper(doc), NEW s \in BreadthStates(doc), BreadthInv(doc, s), s.todo # {}
  PROVE  LET t == Visit(doc, s) IN
           /\ t \in BreadthStates(doc) /\ BreadthInv(doc, t)
           /\ NodesLeft(doc, t) = NodesLeft(doc, s)
           /\ \E i \in EdgesLeft(doc, s) : EdgesLeft(doc, t) = EdgesLeft(doc, s) \ {i}
<1> DEFINE i == Min(s.todo)
           v == To(doc, i)
           t == Visit(doc, s)
           root == doc.roots[1]
           D == DOMAIN s.depth
<1>1. /\ Places(doc) \subseteq Nat
      /\ \A k \in Places(doc) : From(doc, k) \in Nodes(doc) /\ To(doc, k) \in Nodes(doc)
  BY ProperIs
<1>2. i \in s.todo /\ i \in Places(doc)
  <2>1. s.todo \subseteq Places(doc)
    BY DEF BreadthStates
  <2> QED BY <1>1, <2>1, MinIs
<1>3. v \in Nodes(doc) /\ From(doc, i) \in Nodes(doc)
  BY <1>1, <1>2
<1>4. /\ D \subseteq Nodes(doc) /\ \A w \in D : s.depth[w] \in Nat
      /\ s.depth = [w \in D |-> s.depth[w]]
      /\ s.queue \in Seq(Nodes(doc)) /\ s.next \in Nat /\ s.todo \subseteq Places(doc)
      /\ Len(s.queue) \in Nat
  <2>1. s.depth \in UNION {[E -> Nat] : E \in SUBSET Nodes(doc)}
    BY DEF BreadthStates
  <2> QED BY <2>1 DEF BreadthStates
<1>5. s = [depth |-> s.depth, queue |-> s.queue, next |-> s.next, todo |-> s.todo]
  BY DEF BreadthStates
<1>6. CASE v \in D
  <2>1. /\ t = [depth |-> s.depth, queue |-> s.queue, next |-> s.next, todo |-> s.todo \ {i}]
    BY <1>5, <1>6 DEF Visit, To
  <2>2. t \in BreadthStates(doc)
    BY <2>1 DEF BreadthStates
  <2> HIDE DEF i, v, t
  <2>3. t.depth = s.depth /\ t.queue = s.queue /\ t.next = s.next /\ t.todo = s.todo \ {i}
    BY <2>1
  <2>4. Taken(t) = Taken(s)
    BY <2>3 DEF Taken
  <2>5. s.depth[v] <= s.depth[From(doc, i)] + 1
    BY <1>2, <1>4, <1>6 DEF BreadthInv
  <2>6. BreadthInv(doc, t)
    BY <1>2, <1>6, <2>3, <2>4, <2>5 DEF BreadthInv, v
  <2>7. NodesLeft(doc, t) = NodesLeft(doc, s)
    BY <2>4 DEF NodesLeft
  <2>8. EdgesLeft(doc, t) = EdgesLeft(doc, s) \ {i} /\ i \in EdgesLeft(doc, s)
    BY <1>2, <2>3, <2>4 DEF EdgesLeft, BreadthInv
  <2> QED BY <2>2, <2>6, <2>7, <2>8 DEF t
<1>7. CASE v \notin D
  <2> DEFINE depth == [w \in {v} \cup D |-> IF w = v THEN s.next ELSE s.depth[w]]
             queue == Append(s.queue, v)
             n == Len(s.queue) + 1
  <2>1. t = [depth |-> depth, queue |-> queue, next |-> s.next, todo |-> s.todo \ {i}]
    BY <1>5, <1>7 DEF Visit, To
  <2>2. /\ queue \in Seq(Nodes(doc)) /\ Len(queue) = n
        /\ \A j \in 1..n : queue[j] = IF j = n THEN v ELSE s.queue[j]
        /\ ToSet(queue) = ToSet(s.queue) \cup {v}
    BY <1>3, <1>4, PushIs
  <2>3. depth \in [{v} \cup D -> Nat] /\ {v} \cup D \subseteq Nodes(doc)
    BY <1>3, <1>4
  <2>4. t \in BreadthStates(doc)
    <3>1. depth \in UNION {[E -> Nat] : E \in SUBSET Nodes(doc)}
      BY <2>3
    <3> HIDE DEF depth, queue, t
    <3> QED BY <1>4, <2>1, <2>2, <3>1 DEF BreadthStates
  <2>5. /\ DOMAIN depth = {v} \cup D /\ depth[v] = s.next
        /\ \A w \in D : depth[w] = s.depth[w]
    BY <1>7
  <2> HIDE DEF depth, queue, t, v, i
  <2>6. t.depth = depth /\ t.queue = queue /\ t.next = s.next /\ t.todo = s.todo \ {i}
    BY <2>1
  <2>7. Taken(t) = Taken(s)
    <3>1. v \notin D
      BY <1>7
    <3> QED BY <2>2, <2>5, <2>6, <3>1 DEF Taken
  <2>8. Taken(s) \subseteq D /\ From(doc, i) \in Taken(s) /\ s.depth[From(doc, i)] + 1 = s.next
    BY <1>2 DEF Taken, BreadthInv
  <2>9. \A j \in 1..n : j # n => j \in 1..Len(s.queue)
    BY <1>4
  <2>10. \A j \in 1..n : queue[j] \in DOMAIN depth /\ s.next <= depth[queue[j]] + 1
    <3> SUFFICES ASSUME NEW j \in 1..n PROVE queue[j] \in DOMAIN depth /\ s.next <= depth[queue[j]] + 1
      OBVIOUS
    <3>1. CASE j = n
      BY <1>4, <2>2, <2>5, <3>1
    <3>2. CASE j # n
      <4>1. s.queue[j] \in D /\ s.next <= s.depth[s.queue[j]] + 1
        BY <2>9, <3>2 DEF BreadthInv
      <4> QED BY <2>2, <2>5, <3>2, <4>1
    <3> QED BY <3>1, <3>2
  <2>11. \A j, k \in 1..n : j < k => queue[j] # queue[k] /\ depth[queue[j]] <= depth[queue[k]]
    <3> SUFFICES ASSUME NEW j \in 1..n, NEW k \in 1..n, j < k
                 PROVE  queue[j] # queue[k] /\ depth[queue[j]] <= depth[queue[k]]
      OBVIOUS
    <3>1. j # n /\ j \in 1..Len(s.queue)
      BY <1>4
    <3>2. queue[j] = s.queue[j] /\ s.queue[j] \in D
      BY <2>2, <3>1 DEF BreadthInv
    <3>3. depth[queue[j]] = s.depth[s.queue[j]]
      BY <2>5, <3>2
    <3>4. CASE k = n
      <4>1. queue[k] = v /\ depth[queue[k]] = s.next
        BY <2>2, <2>5, <3>4
      <4>2. s.depth[s.queue[j]] <= s.next
        BY <3>2 DEF BreadthInv
      <4> QED BY <1>7, <3>2, <3>3, <4>1, <4>2
    <3>5. CASE k # n
      <4>1. k \in 1..Len(s.queue) /\ queue[k] = s.queue[k]
        BY <2>2, <2>9, <3>5
      <4>2. s.queue[k] \in D /\ s.queue[j] # s.queue[k] /\ s.depth[s.queue[j]] <= s.depth[s.queue[k]]
        BY <3>1, <4>1 DEF BreadthInv
      <4> QED BY <2>5, <3>2, <3>3, <4>1, <4>2
    <3> QED BY <3>4, <3>5
  <2>12. \A w \in DOMAIN depth : depth[w] <= s.next
    BY <1>4, <2>5 DEF BreadthInv
  <2>13. \A k \in s.todo \ {i} : From(doc, k) \in Taken(s) /\ depth[From(doc, k)] + 1 = s.next
    BY <2>5, <2>8 DEF BreadthInv
  <2>14. ASSUME NEW k \in Places(doc), From(doc, k) \in Taken(s), k \notin s.todo \ {i}
         PROVE  To(doc, k) \in DOMAIN depth /\ depth[To(doc, k)] <= depth[From(doc, k)] + 1
    <3>1. depth[From(doc, k)] = s.depth[From(doc, k)]
      BY <2>5, <2>8, <2>14
    <3>2. CASE k = i
      BY <1>4, <2>5, <2>8, <3>1, <3>2 DEF v
    <3>3. CASE k # i
      <4>1. To(doc, k) \in D /\ s.depth[To(doc, k)] <= s.depth[From(doc, k)] + 1
        BY <2>14, <3>3 DEF BreadthInv
      <4> QED BY <2>5, <3>1, <4>1
    <3> QED BY <3>2, <3>3
  <2>15. ASSUME NEW w \in DOMAIN depth, w # root
         PROVE  \E k \in Places(doc) : /\ To(doc, k) = w /\ From(doc, k) \in DOMAIN depth
                                        /\ depth[From(doc, k)] + 1 = depth[w]
    <3>1. CASE w = v
      <4>1. From(doc, i) \in D /\ depth[From(doc, i)] = s.depth[From(doc, i)]
        BY <2>5, <2>8
      <4> QED BY <1>2, <2>5, <2>8, <3>1, <4>1 DEF v
    <3>2. CASE w # v
      <4>1. w \in D
        BY <2>5, <3>2
      <4>2. PICK k \in Places(doc) : /\ To(doc, k) = w /\ From(doc, k) \in D
                                     /\ s.depth[From(doc, k)] + 1 = s.depth[w]
        BY <2>15, <4>1 DEF BreadthInv
      <4>3. depth[w] = s.depth[w] /\ depth[From(doc, k)] = s.depth[From(doc, k)]
        BY <2>5, <4>1, <4>2
      <4> QED BY <2>5, <4>2, <4>3
    <3> QED BY <3>1, <3>2
  <2>16. root \in DOMAIN depth /\ depth[root] = 0
    BY <2>5 DEF BreadthInv
  <2>17. BreadthInv(doc, t)
    BY <2>2, <2>6, <2>7, <2>10, <2>11, <2>12, <2>13, <2>14, <2>15, <2>16 DEF BreadthInv
  <2>18. NodesLeft(doc, t) = NodesLeft(doc, s)
    BY <2>7 DEF NodesLeft
  <2>19. EdgesLeft(doc, t) = EdgesLeft(doc, s) \ {i} /\ i \in EdgesLeft(doc, s)
    BY <1>2, <2>6, <2>7, <2>8 DEF EdgesLeft
  <2> QED BY <2>4, <2>17, <2>18, <2>19 DEF t
<1> QED BY <1>6, <1>7

\* One node.
LEMMA VisitNode ==
  ASSUME NEW doc, Proper(doc), NEW s \in BreadthStates(doc), BreadthInv(doc, s),
         s.todo = {}, s.queue # <<>>
  PROVE  LET t == Visit(doc, s) IN
           /\ t \in BreadthStates(doc) /\ BreadthInv(doc, t)
           /\ EdgesLeft(doc, t) = EdgesLeft(doc, s)
           /\ \E v \in NodesLeft(doc, s) : NodesLeft(doc, t) = NodesLeft(doc, s) \ {v}
<1> DEFINE t == Visit(doc, s)
           v == s.queue[1]
           D == DOMAIN s.depth
           rest == Tail(s.queue)
           n == Len(s.queue)
<1>1. /\ D \subseteq Nodes(doc) /\ \A w \in D : s.depth[w] \in Nat
      /\ s.queue \in Seq(Nodes(doc)) /\ s.next \in Nat
  <2>1. s.depth \in UNION {[E -> Nat] : E \in SUBSET Nodes(doc)}
    BY DEF BreadthStates
  <2> QED BY <2>1 DEF BreadthStates
<1>2. /\ n \in Nat \ {0} /\ Head(s.queue) = v /\ v \in Nodes(doc)
      /\ rest \in Seq(Nodes(doc)) /\ Len(rest) = n - 1
      /\ \A j \in 1..Len(rest) : rest[j] = s.queue[j + 1]
      /\ ToSet(rest) = ToSet(s.queue) \ {v} /\ v \in ToSet(s.queue)
  <2>1. \A j, k \in 1..Len(s.queue) : j < k => s.queue[j] # s.queue[k]
    BY DEF BreadthInv
  <2> QED BY <1>1, <2>1, DropFirstIs
<1>3. v \in D /\ s.next <= s.depth[v] + 1 /\ s.depth[v] + 1 \in Nat
  <2>1. 1 \in 1..Len(s.queue)
    BY <1>2
  <2> QED BY <1>1, <2>1 DEF BreadthInv
<1>4. t = [depth |-> s.depth, queue |-> rest, next |-> s.depth[v] + 1, todo |-> Outgoing(doc, v)]
  <2>1. s = [depth |-> s.depth, queue |-> s.queue, next |-> s.next, todo |-> s.todo]
    BY DEF BreadthStates
  <2> HIDE DEF v, rest
  <2> QED BY <1>2, <2>1 DEF Visit, rest
<1>5. Outgoing(doc, v) = {i \in Places(doc) : From(doc, i) = v}
  BY DEF Outgoing, Places, From
<1>6. t \in BreadthStates(doc)
  BY <1>2, <1>3, <1>4, <1>5 DEF BreadthStates
<1> HIDE DEF t, v, rest
<1>7. /\ t.depth = s.depth /\ t.queue = rest /\ t.next = s.depth[v] + 1
      /\ t.todo = {i \in Places(doc) : From(doc, i) = v}
  BY <1>4, <1>5
<1>8. Taken(t) = Taken(s) \cup {v} /\ v \notin Taken(s)
  BY <1>2, <1>3, <1>7 DEF Taken
<1>9. ASSUME NEW j \in 1..Len(rest)
      PROVE  /\ j + 1 \in 1..n /\ 1 \in 1..n /\ 1 < j + 1
             /\ rest[j] = s.queue[j + 1] /\ rest[j] \in D /\ s.depth[v] <= s.depth[rest[j]]
  <2>1. j + 1 \in 1..n /\ 1 \in 1..n /\ 1 < j + 1
    BY <1>2
  <2> QED BY <1>2, <2>1 DEF BreadthInv, v
<1>10. \A j \in 1..Len(rest) : rest[j] \in D /\ s.depth[v] + 1 <= s.depth[rest[j]] + 1
  BY <1>1, <1>3, <1>9
<1>11. ASSUME NEW j \in 1..Len(rest), NEW k \in 1..Len(rest), j < k
       PROVE  rest[j] # rest[k] /\ s.depth[rest[j]] <= s.depth[rest[k]]
  <2>1. j + 1 \in 1..n /\ k + 1 \in 1..n /\ j + 1 < k + 1
    BY <1>2, <1>11
  <2>2. \A x, y \in 1..n :
          x < y => s.queue[x] # s.queue[y] /\ s.depth[s.queue[x]] <= s.depth[s.queue[y]]
    BY DEF BreadthInv
  <2>3. rest[j] = s.queue[j + 1] /\ rest[k] = s.queue[k + 1]
    BY <1>9
  <2> HIDE DEF n
  <2> QED BY <2>1, <2>2, <2>3
<1>12. \A w \in D : s.depth[w] <= s.depth[v] + 1
  BY <1>1, <1>3 DEF BreadthInv
<1>13. \A i \in t.todo : From(doc, i) \in Taken(t) /\ s.depth[From(doc, i)] + 1 = t.next
  BY <1>7, <1>8
<1>14. \A i \in Places(doc) :
         From(doc, i) \in Taken(t) /\ i \notin t.todo =>
           To(doc, i) \in D /\ s.depth[To(doc, i)] <= s.depth[From(doc, i)] + 1
  BY <1>7, <1>8 DEF BreadthInv
<1>15. BreadthInv(doc, t)
  BY <1>7, <1>10, <1>11, <1>12, <1>13, <1>14 DEF BreadthInv
<1>16. EdgesLeft(doc, t) = EdgesLeft(doc, s)
  BY <1>7, <1>8 DEF EdgesLeft
<1>17. NodesLeft(doc, t) = NodesLeft(doc, s) \ {v} /\ v \in NodesLeft(doc, s)
  BY <1>2, <1>8 DEF NodesLeft
<1> QED BY <1>6, <1>15, <1>16, <1>17 DEF t

\* Sets of nodes and places are finite, and lose one element at a time.
LEMMA LeftIs ==
  ASSUME NEW doc, Proper(doc), NEW N, N \subseteq Nodes(doc), NEW E, E \subseteq Places(doc)
  PROVE  /\ IsFiniteSet(N) /\ IsFiniteSet(E)
         /\ Cardinality(N) \in Nat /\ Cardinality(E) \in Nat
         /\ \A x \in N : Cardinality(N \ {x}) = Cardinality(N) - 1
         /\ \A x \in E : Cardinality(E \ {x}) = Cardinality(E) - 1
<1>1. IsFiniteSet(N) /\ IsFiniteSet(E)
  BY ProperIs, FS_Subset
<1> QED BY <1>1, FS_CardinalityType, FS_RemoveElement

\* Every round does its part, until nothing is left.
LEMMA VisitStep ==
  ASSUME NEW doc, Proper(doc), NEW s \in BreadthStates(doc), BreadthInv(doc, s)
  PROVE  LET t == Visit(doc, s) IN
           /\ t \in BreadthStates(doc) /\ BreadthInv(doc, t)
           /\ BreadthLeft(doc, s) \in Nat
           /\ BreadthOver(s) => t = s
           /\ ~BreadthOver(s) => BreadthLeft(doc, t) < BreadthLeft(doc, s)
<1> DEFINE t == Visit(doc, s)
<1>1. NodesLeft(doc, s) \subseteq Nodes(doc) /\ EdgesLeft(doc, s) \subseteq Places(doc)
  BY DEF NodesLeft, EdgesLeft
<1>2. /\ Cardinality(NodesLeft(doc, s)) \in Nat /\ Cardinality(EdgesLeft(doc, s)) \in Nat
      /\ \A x \in NodesLeft(doc, s) :
           Cardinality(NodesLeft(doc, s) \ {x}) = Cardinality(NodesLeft(doc, s)) - 1
      /\ \A x \in EdgesLeft(doc, s) :
           Cardinality(EdgesLeft(doc, s) \ {x}) = Cardinality(EdgesLeft(doc, s)) - 1
  BY <1>1, LeftIs
<1>3. BreadthLeft(doc, s) \in Nat
  BY <1>2 DEF BreadthLeft
<1>4. CASE s.todo # {}
  <2>1. /\ t \in BreadthStates(doc) /\ BreadthInv(doc, t)
        /\ NodesLeft(doc, t) = NodesLeft(doc, s)
        /\ \E i \in EdgesLeft(doc, s) : EdgesLeft(doc, t) = EdgesLeft(doc, s) \ {i}
    BY <1>4, VisitEdge
  <2> HIDE DEF t
  <2>2. BreadthLeft(doc, t) < BreadthLeft(doc, s)
    BY <1>2, <2>1 DEF BreadthLeft
  <2> QED BY <1>3, <1>4, <2>1, <2>2 DEF t, BreadthOver
<1>5. CASE s.todo = {} /\ s.queue # <<>>
  <2>1. /\ t \in BreadthStates(doc) /\ BreadthInv(doc, t)
        /\ EdgesLeft(doc, t) = EdgesLeft(doc, s)
        /\ \E v \in NodesLeft(doc, s) : NodesLeft(doc, t) = NodesLeft(doc, s) \ {v}
    BY <1>5, VisitNode
  <2> HIDE DEF t
  <2>2. BreadthLeft(doc, t) < BreadthLeft(doc, s)
    BY <1>2, <2>1 DEF BreadthLeft
  <2> QED BY <1>3, <1>5, <2>1, <2>2 DEF t, BreadthOver
<1>6. CASE s.todo = {} /\ s.queue = <<>>
  <2>1. t = s
    BY <1>6 DEF Visit
  <2> QED BY <1>3, <1>6, <2>1 DEF BreadthOver
<1> QED BY <1>4, <1>5, <1>6

\* The search ends, with depths of which every edge adds one at most.
LEMMA DepthsEnd ==
  ASSUME NEW doc, Proper(doc)
  PROVE  \E s \in BreadthStates(doc) :
           s.depth = Depths(doc) /\ BreadthInv(doc, s) /\ BreadthOver(s)
<1> DEFINE n == Rounds(doc)
           S == {s \in BreadthStates(doc) : BreadthInv(doc, s)}
           a == [depth |-> [v \in ToSet(doc.roots) |-> 0], queue |-> doc.roots, next |-> 0, todo |-> {}]
           g == [s \in S |-> Visit(doc, s)]
           mu == [s \in S |-> BreadthLeft(doc, s)]
           over == {s \in S : BreadthOver(s)}
           body(f) == [k \in 0..n |-> IF k = 0 THEN a ELSE Visit(doc, f[k - 1])]
           run == CHOOSE f : f = body(f)
           root == doc.roots[1]
<1>1. /\ n \in Nat /\ doc.roots \in Seq(Nodes(doc)) /\ Len(doc.roots) = 1
      /\ ToSet(doc.roots) = {root} /\ root \in Nodes(doc)
      /\ n = Len(doc.nodes) + Len(doc.edges)
      /\ Len(doc.nodes) \in Nat /\ Len(doc.edges) \in Nat
  BY ProperIs, Zenon
<1>2. a \in S /\ Taken(a) = {}
  <2>1. a.depth \in [{root} -> Nat] /\ a.depth[root] = 0 /\ DOMAIN a.depth = {root}
    BY <1>1
  <2>2. a \in BreadthStates(doc)
    <3>1. a.depth \in UNION {[E -> Nat] : E \in SUBSET Nodes(doc)}
      BY <1>1, <2>1
    <3> QED BY <1>1, <3>1 DEF BreadthStates
  <2>3. Taken(a) = {}
    BY <1>1, <2>1 DEF Taken
  <2>4. BreadthInv(doc, a)
    <3>1. a.queue = doc.roots /\ a.next = 0 /\ a.todo = {}
      OBVIOUS
    <3>2. \A j \in 1..1 : j = 1
      OBVIOUS
    <3> HIDE DEF a
    <3> QED BY <1>1, <2>1, <2>3, <3>1, <3>2 DEF BreadthInv
  <2> QED BY <2>2, <2>3, <2>4
<1>3. ASSUME NEW s \in S
      PROVE  /\ Visit(doc, s) \in S /\ mu[s] \in Nat /\ mu[s] = BreadthLeft(doc, s)
             /\ s \in over => Visit(doc, s) \in over
             /\ s \notin over => BreadthLeft(doc, Visit(doc, s)) < mu[s]
  BY VisitStep
<1>4. mu[a] <= n
  <2>1. NodesLeft(doc, a) = Nodes(doc) /\ EdgesLeft(doc, a) = Places(doc)
    BY <1>2 DEF NodesLeft, EdgesLeft
  <2>2. Cardinality(Nodes(doc)) = Len(doc.nodes) /\ Cardinality(Places(doc)) = Len(doc.edges)
    BY ProperIs
  <2>3. BreadthLeft(doc, a) = n
    BY <1>1, <2>1, <2>2 DEF BreadthLeft
  <2>4. mu[a] = BreadthLeft(doc, a)
    BY <1>2
  <2>5. n \in Nat
    BY <1>1
  <2> HIDE DEF n, mu, a
  <2> QED BY <2>3, <2>4, <2>5
<1>5. run = body(run)
  <2>1. g \in [S -> S]
    BY <1>3
  <2>2. PICK f : f \in Runs(S, a, g, n)
    <3>1. n \in Nat /\ a \in S
      BY <1>1, <1>2
    <3> HIDE DEF g, S, a, n
    <3>2. Runs(S, a, g, n) # {}
      BY <2>1, <3>1, RunExists
    <3> QED BY <3>2
  <2>3. ASSUME NEW k \in 0..n PROVE f[k] = body(f)[k]
    <3>1. CASE k = 0
      BY <2>2, <3>1 DEF Runs
    <3>2. CASE k # 0
      <4>1. k \in 1..n /\ k - 1 \in 0..n
        <5>1. n \in Nat
          BY <1>1
        <5> HIDE DEF n
        <5> QED BY <3>2, <5>1
      <4>2. f[k] = g[f[k - 1]] /\ f[k - 1] \in S
        BY <2>2, <4>1 DEF Runs
      <4>3. g[f[k - 1]] = Visit(doc, f[k - 1])
        BY <4>2
      <4> QED BY <3>2, <4>2, <4>3
    <3> QED BY <3>1, <3>2
  <2>4. f = body(f)
    <3>1. body(f) = [k \in 0..n |-> body(f)[k]] /\ f = [k \in 0..n |-> f[k]]
      BY <2>2 DEF Runs
    <3> HIDE DEF body
    <3> QED BY <2>3, <3>1
  <2> HIDE DEF body
  <2> QED BY <2>4
<1>6. Depths(doc) = run[n].depth
  BY DEF Depths
<1> HIDE DEF run
<1>7. run[0] = a /\ \A i \in 1..n : run[i] = Visit(doc, run[i - 1])
  <2>1. \A k \in 0..n : run[k] = IF k = 0 THEN a ELSE Visit(doc, run[k - 1])
    BY <1>5
  <2>2. 0 \in 0..n /\ \A i \in 1..n : i \in 0..n /\ i # 0
    <3>1. n \in Nat
      BY <1>1
    <3> HIDE DEF n
    <3> QED BY <3>1
  <2> HIDE DEF a, n
  <2> QED BY <2>1, <2>2
<1>8. mu \in [S -> Nat]
  BY <1>3
<1>9. \A s \in S : mu[s] = 0 => s \in over
  <2> SUFFICES ASSUME NEW s \in S, mu[s] = 0, s \notin over PROVE FALSE
    OBVIOUS
  <2>1. Visit(doc, s) \in S /\ BreadthLeft(doc, Visit(doc, s)) < 0
    BY <1>3
  <2>2. BreadthLeft(doc, Visit(doc, s)) \in Nat
    BY <1>3, <2>1
  <2> QED BY <2>1, <2>2
<1>10. \A i \in 1..n : run[i - 1] \in S =>
         /\ run[i] \in S
         /\ run[i - 1] \in over => run[i] \in over
         /\ run[i - 1] \notin over => mu[run[i]] < mu[run[i - 1]]
  <2> HIDE DEF S, over, mu, n
  <2> QED BY <1>3, <1>7
<1>11. run[n] \in S /\ run[n] \in over
  <2>1. n \in Nat /\ run[0] \in S /\ mu[run[0]] <= n
    BY <1>1, <1>2, <1>4, <1>7
  <2> HIDE DEF S, over, mu, n, a
  <2> QED BY <1>8, <1>9, <1>10, <2>1, RunEnds, Zenon
<1> QED BY <1>6, <1>11

\* The nodes that walks of every length end at.
LEMMA AwayIs ==
  ASSUME NEW doc, Proper(doc)
  PROVE  /\ Away(doc)[0] = {doc.roots[1]}
         /\ \A k \in 1..Len(doc.nodes) :
              Away(doc)[k] = {v \in Nodes(doc) :
                               \E i \in Places(doc) : From(doc, i) \in Away(doc)[k - 1] /\ To(doc, i) = v}
<1> DEFINE n == Len(doc.nodes)
           S == SUBSET Nodes(doc)
           next(W) == {v \in ToSet(doc.nodes) : \E e \in ToSet(doc.edges) : e[1] \in W /\ e[2] = v}
           a == ToSet(doc.roots)
           g == [W \in S |-> next(W)]
           body(f) == [k \in 0..n |-> IF k = 0 THEN a ELSE next(f[k - 1])]
           walk == CHOOSE f : f = body(f)
<1>1. n \in Nat /\ a = {doc.roots[1]} /\ a \in S
  BY ProperIs
<1>2. ASSUME NEW W PROVE next(W) \in S
  BY DEF Nodes
<1>3. walk = body(walk)
  <2>1. g \in [S -> S]
    BY <1>2
  <2>2. PICK f : f \in Runs(S, a, g, n)
    <3> HIDE DEF g, S, a, n
    <3>1. Runs(S, a, g, n) # {}
      BY <1>1, <2>1, RunExists
    <3> QED BY <3>1
  <2>3. ASSUME NEW k \in 0..n PROVE f[k] = body(f)[k]
    <3>1. CASE k = 0
      BY <2>2, <3>1 DEF Runs
    <3>2. CASE k # 0
      <4>1. k \in 1..n /\ k - 1 \in 0..n
        <5>1. n \in Nat
          BY <1>1
        <5> HIDE DEF n
        <5> QED BY <3>2, <5>1
      <4>2. f[k] = g[f[k - 1]] /\ f[k - 1] \in S
        BY <2>2, <4>1 DEF Runs
      <4>3. g[f[k - 1]] = next(f[k - 1])
        BY <4>2
      <4> HIDE DEF next, g
      <4> QED BY <3>2, <4>2, <4>3
    <3> QED BY <3>1, <3>2
  <2>4. f = body(f)
    <3>1. body(f) = [k \in 0..n |-> body(f)[k]] /\ f = [k \in 0..n |-> f[k]]
      BY <2>2 DEF Runs
    <3> HIDE DEF body
    <3> QED BY <2>3, <3>1
  <2> HIDE DEF body
  <2> QED BY <2>4
<1>4. Away(doc) = walk
  BY DEF Away
<1>5. ASSUME NEW W
      PROVE  next(W) = {v \in Nodes(doc) : \E i \in Places(doc) : From(doc, i) \in W /\ To(doc, i) = v}
  BY DEF ToSet, Nodes, Places, From, To
<1> HIDE DEF walk
<1>6. \A k \in 0..n : walk[k] = IF k = 0 THEN a ELSE next(walk[k - 1])
  <2> HIDE DEF a, next, n
  <2> QED BY <1>3
<1>7. 0 \in 0..n /\ \A k \in 1..n : k \in 0..n /\ k # 0
  <2> HIDE DEF n
  <2> QED BY <1>1
<1>8. walk[0] = {doc.roots[1]}
  <2> HIDE DEF a, next, n
  <2> QED BY <1>1, <1>6, <1>7
<1>9. ASSUME NEW k \in 1..n
      PROVE  walk[k] = {v \in Nodes(doc) :
                          \E i \in Places(doc) : From(doc, i) \in walk[k - 1] /\ To(doc, i) = v}
  <2>1. walk[k] = next(walk[k - 1])
    <3> HIDE DEF a, next, n
    <3> QED BY <1>6, <1>7
  <2> HIDE DEF next, n
  <2> QED BY <1>5, <2>1
<1> QED BY <1>4, <1>8, <1>9

\* The search finds the nodes that walks end at, and the length of a shortest one.
LEMMA DepthsAre ==
  ASSUME NEW doc, Proper(doc)
  PROVE  /\ DOMAIN Depths(doc) = {v \in Nodes(doc) : Distances(doc, v) # {}}
         /\ Depths(doc) = [v \in DOMAIN Depths(doc) |-> Depths(doc)[v]]
         /\ \A v \in DOMAIN Depths(doc) :
              /\ Depths(doc)[v] \in Distances(doc, v)
              /\ \A d \in Distances(doc, v) : Depths(doc)[v] <= d
<1> DEFINE n == Len(doc.nodes)
           W == Away(doc)
           depth == Depths(doc)
           D == DOMAIN depth
           root == doc.roots[1]
<1>1. PICK s \in BreadthStates(doc) : s.depth = depth /\ BreadthInv(doc, s) /\ BreadthOver(s)
  BY DepthsEnd, Zenon
<1>2. /\ n \in Nat /\ Cardinality(Nodes(doc)) = n /\ IsFiniteSet(Nodes(doc))
      /\ \A i \in Places(doc) : From(doc, i) \in Nodes(doc) /\ To(doc, i) \in Nodes(doc)
  BY ProperIs
<1>3. /\ D \subseteq Nodes(doc) /\ \A v \in D : depth[v] \in Nat
      /\ depth = [v \in D |-> depth[v]]
  <2>1. s.depth \in UNION {[E -> Nat] : E \in SUBSET Nodes(doc)}
    BY DEF BreadthStates
  <2> HIDE DEF depth
  <2> QED BY <1>1, <2>1
<1> HIDE DEF depth
<1>4. Taken(s) = D /\ s.todo = {}
  <2>1. s.queue = <<>> /\ s.todo = {}
    BY <1>1 DEF BreadthOver
  <2>2. ToSet(<<>>) = {}
    BY DEF ToSet
  <2> QED BY <1>1, <2>1, <2>2 DEF Taken
<1>5. /\ root \in D /\ depth[root] = 0
      /\ \A i \in Places(doc) :
           From(doc, i) \in D => To(doc, i) \in D /\ depth[To(doc, i)] <= depth[From(doc, i)] + 1
      /\ \A v \in D :
           \/ v = root
           \/ \E i \in Places(doc) : /\ To(doc, i) = v /\ From(doc, i) \in D
                                     /\ depth[From(doc, i)] + 1 = depth[v]
  BY <1>1, <1>4 DEF BreadthInv
<1>6. W[0] = {root} /\ \A k \in 1..n :
        W[k] = {v \in Nodes(doc) : \E i \in Places(doc) : From(doc, i) \in W[k - 1] /\ To(doc, i) = v}
  BY AwayIs
<1> HIDE DEF W, root
<1>7. \A v \in D, d \in Nat : d <= depth[v] => \E w \in D : depth[w] = d
  <2> DEFINE Gap(v) == \E d \in Nat : d <= depth[v] /\ ~\E w \in D : depth[w] = d
             bad == {k \in Nat : \E v \in D : depth[v] = k /\ Gap(v)}
  <2>1. ASSUME bad # {} PROVE FALSE
    <3>1. bad \subseteq Nat
      OBVIOUS
    <3>2. PICK k \in bad : \A l \in bad : k <= l
      BY <2>1, <3>1, LeastOf
    <3>3. PICK v \in D : depth[v] = k /\ Gap(v)
      OBVIOUS
    <3>4. PICK d \in Nat : d <= depth[v] /\ ~\E w \in D : depth[w] = d
      BY <3>3
    <3>5. d # depth[v]
      BY <3>4
    <3>6. v # root
      BY <1>3, <1>5, <3>4, <3>5
    <3>7. PICK i \in Places(doc) : /\ To(doc, i) = v /\ From(doc, i) \in D
                                   /\ depth[From(doc, i)] + 1 = depth[v]
      BY <1>5, <3>6
    <3>8. depth[From(doc, i)] \in Nat /\ d <= depth[From(doc, i)] /\ ~(k <= depth[From(doc, i)])
      BY <1>3, <3>3, <3>4, <3>5, <3>7
    <3>9. Gap(From(doc, i))
      BY <3>4, <3>8
    <3>10. depth[From(doc, i)] \in bad
      BY <3>7, <3>8, <3>9
    <3> QED BY <3>2, <3>8, <3>10
  <2>2. ASSUME NEW v \in D PROVE ~Gap(v)
    <3> HIDE DEF Gap
    <3> QED BY <1>3, <2>1
  <2> QED BY <2>2
<1>8. ASSUME NEW v \in D PROVE depth[v] \in 0..n
  <2> DEFINE k == depth[v]
             f == [d \in 0..k |-> CHOOSE w \in D : depth[w] = d]
  <2>1. k \in Nat /\ \A d \in 0..k : \E w \in D : depth[w] = d
    BY <1>3, <1>7
  <2>2. \A d \in 0..k : f[d] \in D /\ depth[f[d]] = d
    BY <2>1
  <2>3. f \in [0..k -> Nodes(doc)] /\ \A d, e \in 0..k : f[d] = f[e] => d = e
    BY <1>3, <2>2
  <2>4. f \in Injection(0..k, Nodes(doc))
    <3> HIDE DEF f
    <3> QED BY <2>3 DEF Injection, IsInjective
  <2>5. Cardinality(0..k) <= n
    BY <1>2, <2>4, FS_Injection
  <2> HIDE DEF k
  <2>6. k \in Int /\ 0 \in Int
    BY <2>1
  <2>7. Cardinality(0..k) = IF 0 > k THEN 0 ELSE k - 0 + 1
    BY <2>6, FS_Interval
  <2> HIDE DEF n
  <2>8. k \in 0..n
    BY <1>2, <2>1, <2>5, <2>7
  <2> QED BY <2>8 DEF k
<1>9. \A v \in D : v \in W[depth[v]]
  <2> DEFINE bad == {k \in Nat : \E v \in D : depth[v] = k /\ v \notin W[k]}
  <2>1. ASSUME bad # {} PROVE FALSE
    <3>1. bad \subseteq Nat
      OBVIOUS
    <3>2. PICK k \in bad : \A l \in bad : k <= l
      BY <2>1, <3>1, LeastOf
    <3>3. PICK v \in D : depth[v] = k /\ v \notin W[k]
      OBVIOUS
    <3>4. v # root
      BY <1>5, <1>6, <3>3
    <3>5. PICK i \in Places(doc) : /\ To(doc, i) = v /\ From(doc, i) \in D
                                   /\ depth[From(doc, i)] + 1 = depth[v]
      BY <1>5, <3>4
    <3>6. depth[From(doc, i)] \in Nat /\ k \in 0..n
      BY <1>3, <1>8, <3>3, <3>5
    <3>7. k \in 1..n /\ k - 1 = depth[From(doc, i)] /\ ~(k <= k - 1)
      <4> HIDE DEF n
      <4> QED BY <1>2, <3>3, <3>5, <3>6
    <3>8. From(doc, i) \in W[k - 1]
      BY <3>2, <3>5, <3>6, <3>7
    <3>9. v \in Nodes(doc)
      BY <1>3
    <3> QED BY <1>6, <3>3, <3>5, <3>7, <3>8, <3>9
  <2> QED BY <1>3, <2>1
<1>10. \A k \in 0..n : \A v \in W[k] : v \in D /\ depth[v] <= k
  <2> DEFINE bad == {k \in 0..n : \E v \in W[k] : ~(v \in D /\ depth[v] <= k)}
  <2>1. ASSUME bad # {} PROVE FALSE
    <3>1. bad \subseteq Nat
      OBVIOUS
    <3>2. PICK k \in bad : \A l \in bad : k <= l
      BY <2>1, <3>1, LeastOf
    <3>3. PICK v \in W[k] : ~(v \in D /\ depth[v] <= k)
      OBVIOUS
    <3>4. k # 0
      BY <1>5, <1>6, <3>3
    <3>5. k \in 1..n /\ k - 1 \in 0..n /\ ~(k <= k - 1)
      <4>1. k \in 0..n /\ n \in Nat
        BY <1>2
      <4> HIDE DEF n
      <4> QED BY <3>4, <4>1
    <3>6. PICK i \in Places(doc) : From(doc, i) \in W[k - 1] /\ To(doc, i) = v
      BY <1>6, <3>3, <3>5
    <3>7. From(doc, i) \in D /\ depth[From(doc, i)] <= k - 1
      BY <3>2, <3>5, <3>6
    <3>8. To(doc, i) \in D /\ depth[To(doc, i)] <= depth[From(doc, i)] + 1
      BY <1>5, <3>7
    <3>9. depth[From(doc, i)] \in Nat /\ depth[v] \in Nat /\ k \in Nat
      BY <1>3, <3>1, <3>6, <3>7, <3>8
    <3> QED BY <3>3, <3>6, <3>7, <3>8, <3>9
  <2> QED BY <2>1
<1>11. \A v : Distances(doc, v) = {k \in 0..n : v \in W[k]}
  BY DEF Distances, W
<1>12. \A v \in D : depth[v] \in Distances(doc, v) /\ \A d \in Distances(doc, v) : depth[v] <= d
  <2> HIDE DEF n
  <2> QED BY <1>8, <1>9, <1>10, <1>11
<1>13. D = {v \in Nodes(doc) : Distances(doc, v) # {}}
  <2> HIDE DEF n
  <2> QED BY <1>3, <1>10, <1>11, <1>12
<1> QED BY <1>3, <1>12, <1>13 DEF depth

-------------------------------------------------------------------------------
(* Reachability.                                                           *)

\* Reachability: reflexive, transitive, by edges, and within every closed set.
LEMMA ReachIs ==
  ASSUME NEW doc, Proper(doc)
  PROVE  /\ \A v : Reaches(doc, v, v)
         /\ \A u, v, w : Reaches(doc, u, v) /\ Reaches(doc, v, w) => Reaches(doc, u, w)
         /\ \A i \in Places(doc) : Reaches(doc, From(doc, i), To(doc, i))
         /\ \A v \in Nodes(doc) : \A w : Reaches(doc, v, w) => w \in Nodes(doc)
         /\ \A v, S : /\ S \subseteq Nodes(doc) /\ v \in S
                      /\ \A i \in Places(doc) : From(doc, i) \in S => To(doc, i) \in S
                      => \A w : Reaches(doc, v, w) => w \in S
<1>1. \A S : Closed(doc, S) <=> \A i \in Places(doc) : From(doc, i) \in S => To(doc, i) \in S
  BY DEF Closed, ToSet, Places, From, To
<1>2. \A v, w : Reaches(doc, v, w) <=>
        \A S \in SUBSET Nodes(doc) : v \in S /\ Closed(doc, S) => w \in S
  BY DEF Reaches, Nodes
<1>3. Closed(doc, Nodes(doc))
  BY <1>1, ProperIs
<1>4. \A u, v, w : Reaches(doc, u, v) /\ Reaches(doc, v, w) => Reaches(doc, u, w)
  BY <1>2
<1>5. \A i \in Places(doc) : Reaches(doc, From(doc, i), To(doc, i))
  BY <1>1, <1>2
<1>6. \A v \in Nodes(doc) : \A w : Reaches(doc, v, w) => w \in Nodes(doc)
  BY <1>2, <1>3
<1>7. \A v : Reaches(doc, v, v)
  BY <1>2
<1>8. ASSUME NEW v, NEW S, S \subseteq Nodes(doc), v \in S,
             \A i \in Places(doc) : From(doc, i) \in S => To(doc, i) \in S
      PROVE  \A w : Reaches(doc, v, w) => w \in S
  BY <1>1, <1>2, <1>8
<1> QED BY <1>4, <1>5, <1>6, <1>7, <1>8

Mutual(doc, v, w) == Reaches(doc, v, w) /\ Reaches(doc, w, v)

-------------------------------------------------------------------------------
(* Depth first.                                                            *)

Frames(doc) == [node : Nodes(doc), todo : SUBSET Places(doc)]
DeepStates(doc) ==
  [visited : SUBSET Nodes(doc), stack : Seq(Frames(doc)), finished : Seq(Nodes(doc))]

\* The last to finish of what a node reaches reaches it.
Closing(doc, finished, u) ==
  \E p \in 1..Len(finished) :
    /\ Mutual(doc, u, finished[p])
    /\ \A v \in Nodes(doc) : Reaches(doc, u, v) => \E q \in 1..p : finished[q] = v

\* What is visited is on the stack or finished; each frame reaches those above it; the
\* edges that are tried led to what is visited, or to what is about to be (X).
DeepInv(doc, s, X) ==
  LET stack == s.stack  finished == s.finished IN
    /\ \A v \in s.visited :
         (\E p \in 1..Len(finished) : finished[p] = v) \/ (\E j \in 1..Len(stack) : stack[j].node = v)
    /\ \A p \in 1..Len(finished) :
         /\ finished[p] \in s.visited
         /\ \A q \in 1..Len(finished) : p < q => finished[p] # finished[q]
         /\ \A i \in Places(doc) : From(doc, i) = finished[p] => To(doc, i) \in s.visited
         /\ \/ \E j \in 1..Len(stack) : Mutual(doc, finished[p], stack[j].node)
            \/ Closing(doc, finished, finished[p])
    /\ \A j \in 1..Len(stack) :
         /\ stack[j].node \in s.visited
         /\ \A p \in 1..Len(finished) : stack[j].node # finished[p]
         /\ \A k \in 1..Len(stack) :
              j < k => stack[j].node # stack[k].node /\ Reaches(doc, stack[j].node, stack[k].node)
         /\ \A i \in stack[j].todo : From(doc, i) = stack[j].node
         /\ \A i \in Places(doc) :
              From(doc, i) = stack[j].node => i \in stack[j].todo \/ To(doc, i) \in s.visited \cup X

Unvisited(doc, s) == Nodes(doc) \ s.visited
Unfinished(doc, s) == Nodes(doc) \ ToSet(s.finished)
Untried(doc, s) ==
  {i \in Places(doc) : From(doc, i) \notin s.visited \/ \E j \in 1..Len(s.stack) : i \in s.stack[j].todo}

DeepOver(doc, s) == s.stack = <<>> /\ Nodes(doc) \subseteq s.visited
DeepLeft(doc, s) == Cardinality(Unvisited(doc, s)) + Cardinality(Unfinished(doc, s))
                      + Cardinality(Untried(doc, s))

\* A node is entered from the top of the stack, or when it is empty.
LEMMA EnterStep ==
  ASSUME NEW doc, Proper(doc), NEW s \in DeepStates(doc), NEW v \in Nodes(doc),
         DeepInv(doc, s, {v}), v \notin s.visited,
         \A j \in 1..Len(s.stack) : Reaches(doc, s.stack[j].node, v)
  PROVE  LET t == Enter(doc, s, v) IN
           /\ t \in DeepStates(doc) /\ DeepInv(doc, t, {})
           /\ Unvisited(doc, t) = Unvisited(doc, s) \ {v} /\ v \in Unvisited(doc, s)
           /\ Unfinished(doc, t) = Unfinished(doc, s)
           /\ Untried(doc, t) = Untried(doc, s)
<1> DEFINE t == Enter(doc, s, v)
           frame == [node |-> v, todo |-> Outgoing(doc, v)]
           stack == Append(s.stack, frame)
           n == Len(s.stack) + 1
<1>1. /\ s.visited \subseteq Nodes(doc) /\ s.stack \in Seq(Frames(doc)) /\ s.finished \in Seq(Nodes(doc))
      /\ s = [visited |-> s.visited, stack |-> s.stack, finished |-> s.finished]
      /\ Len(s.stack) \in Nat
  BY DEF DeepStates
<1>2. Outgoing(doc, v) = {i \in Places(doc) : From(doc, i) = v}
  BY DEF Outgoing, Places, From
<1>3. frame \in Frames(doc) /\ frame.node = v /\ frame.todo = {i \in Places(doc) : From(doc, i) = v}
  BY <1>2 DEF Frames
<1>4. t = [visited |-> s.visited \cup {v}, stack |-> stack, finished |-> s.finished]
  BY DEF Enter
<1> HIDE DEF frame, t
<1>5. /\ stack \in Seq(Frames(doc)) /\ Len(stack) = n
      /\ \A j \in 1..n : stack[j] = IF j = n THEN frame ELSE s.stack[j]
  BY <1>1, <1>3, PushIs
<1> HIDE DEF stack
<1>6. /\ t \in DeepStates(doc)
      /\ t.visited = s.visited \cup {v} /\ t.stack = stack /\ t.finished = s.finished
  BY <1>1, <1>4, <1>5 DEF DeepStates
<1>7. /\ n \in 1..n /\ stack[n].node = v /\ stack[n].todo = {i \in Places(doc) : From(doc, i) = v}
      /\ \A j \in 1..Len(s.stack) : j \in 1..n /\ j < n /\ stack[j] = s.stack[j]
      /\ \A j \in 1..n : j = n \/ j \in 1..Len(s.stack)
  <2>1. n \in 1..n /\ \A j \in 1..Len(s.stack) : j \in 1..n /\ j < n /\ j # n
    BY <1>1
  <2>2. \A j \in 1..n : j = n \/ j \in 1..Len(s.stack)
    BY <1>1
  <2> HIDE DEF n
  <2> QED BY <1>3, <1>5, <2>1, <2>2
<1>8. n \in Nat /\ \A j, k \in 1..n : j < k => j \in 1..Len(s.stack)
  BY <1>1
<1> HIDE DEF n
<1>9. ASSUME NEW w \in t.visited
      PROVE  (\E p \in 1..Len(s.finished) : s.finished[p] = w) \/ (\E j \in 1..n : stack[j].node = w)
  <2>1. CASE w = v
    BY <1>7, <2>1
  <2>2. CASE w \in s.visited
    <3>1. (\E p \in 1..Len(s.finished) : s.finished[p] = w)
            \/ (\E j \in 1..Len(s.stack) : s.stack[j].node = w)
      BY <2>2 DEF DeepInv
    <3> QED BY <1>7, <3>1
  <2> QED BY <1>6, <2>1, <2>2
<1>10. ASSUME NEW p \in 1..Len(s.finished)
       PROVE  /\ s.finished[p] \in s.visited
              /\ \A q \in 1..Len(s.finished) : p < q => s.finished[p] # s.finished[q]
              /\ \A i \in Places(doc) : From(doc, i) = s.finished[p] => To(doc, i) \in s.visited
              /\ \/ \E j \in 1..n : Mutual(doc, s.finished[p], stack[j].node)
                 \/ Closing(doc, s.finished, s.finished[p])
  <2>1. /\ s.finished[p] \in s.visited
        /\ \A q \in 1..Len(s.finished) : p < q => s.finished[p] # s.finished[q]
        /\ \A i \in Places(doc) : From(doc, i) = s.finished[p] => To(doc, i) \in s.visited
        /\ \/ \E j \in 1..Len(s.stack) : Mutual(doc, s.finished[p], s.stack[j].node)
           \/ Closing(doc, s.finished, s.finished[p])
    BY DEF DeepInv
  <2> QED BY <1>7, <2>1
<1>11. ASSUME NEW j \in 1..Len(s.stack)
       PROVE  /\ s.stack[j].node \in s.visited
              /\ \A p \in 1..Len(s.finished) : s.stack[j].node # s.finished[p]
              /\ \A k \in 1..Len(s.stack) :
                   j < k => /\ s.stack[j].node # s.stack[k].node
                            /\ Reaches(doc, s.stack[j].node, s.stack[k].node)
              /\ \A i \in s.stack[j].todo : From(doc, i) = s.stack[j].node
              /\ \A i \in Places(doc) :
                   From(doc, i) = s.stack[j].node =>
                     i \in s.stack[j].todo \/ To(doc, i) \in s.visited \cup {v}
  BY DEF DeepInv
<1>12. ASSUME NEW j \in 1..n
       PROVE  /\ stack[j].node \in t.visited
              /\ \A p \in 1..Len(s.finished) : stack[j].node # s.finished[p]
              /\ \A i \in stack[j].todo : From(doc, i) = stack[j].node
              /\ \A i \in Places(doc) :
                   From(doc, i) = stack[j].node => i \in stack[j].todo \/ To(doc, i) \in t.visited \cup {}
  <2>1. CASE j = n
    BY <1>6, <1>7, <1>10, <2>1
  <2>2. CASE j \in 1..Len(s.stack)
    BY <1>6, <1>7, <1>11, <2>2
  <2> QED BY <1>7, <2>1, <2>2
<1>13. ASSUME NEW j \in 1..n, NEW k \in 1..n, j < k
       PROVE  stack[j].node # stack[k].node /\ Reaches(doc, stack[j].node, stack[k].node)
  <2>1. j \in 1..Len(s.stack) /\ stack[j] = s.stack[j]
    BY <1>7, <1>8, <1>13
  <2>2. CASE k = n
    BY <1>7, <1>11, <2>1, <2>2
  <2>3. CASE k \in 1..Len(s.stack)
    BY <1>7, <1>11, <1>13, <2>1, <2>3
  <2> QED BY <1>7, <2>2, <2>3
<1>14. DeepInv(doc, t, {})
  BY <1>5, <1>6, <1>9, <1>10, <1>12, <1>13 DEF DeepInv
<1>15. Unvisited(doc, t) = Unvisited(doc, s) \ {v} /\ v \in Unvisited(doc, s)
  BY <1>6 DEF Unvisited
<1>16. Unfinished(doc, t) = Unfinished(doc, s)
  BY <1>6 DEF Unfinished
<1>17. Untried(doc, t) = Untried(doc, s)
  <2> SUFFICES ASSUME NEW i \in Places(doc)
               PROVE  (From(doc, i) \notin t.visited \/ \E j \in 1..n : i \in stack[j].todo)
                 <=> (From(doc, i) \notin s.visited \/ \E j \in 1..Len(s.stack) : i \in s.stack[j].todo)
    BY <1>5, <1>6 DEF Untried
  <2>1. (\E j \in 1..n : i \in stack[j].todo)
          <=> From(doc, i) = v \/ \E j \in 1..Len(s.stack) : i \in s.stack[j].todo
    BY <1>7
  <2> QED BY <1>6, <2>1
<1> QED BY <1>6, <1>14, <1>15, <1>16, <1>17 DEF t

\* The top of the stack tries an edge.
LEMMA TryStep ==
  ASSUME NEW doc, Proper(doc), NEW s \in DeepStates(doc), DeepInv(doc, s, {}),
         s.stack # <<>>, Last(s.stack).todo # {}
  PROVE  LET t == Descend(doc, s) IN
           /\ t \in DeepStates(doc) /\ DeepInv(doc, t, {})
           /\ \/ Unvisited(doc, t) = Unvisited(doc, s)
              \/ \E v \in Unvisited(doc, s) : Unvisited(doc, t) = Unvisited(doc, s) \ {v}
           /\ Unfinished(doc, t) = Unfinished(doc, s)
           /\ \E i \in Untried(doc, s) : Untried(doc, t) = Untried(doc, s) \ {i}
<1> DEFINE n == Len(s.stack)
           frame == s.stack[n]
           rest == Front(s.stack)
           i == Min(frame.todo)
           v == To(doc, i)
           left == [node |-> frame.node, todo |-> frame.todo \ {i}]
           stack == Append(rest, left)
           tried == [visited |-> s.visited, stack |-> stack, finished |-> s.finished]
           t == Descend(doc, s)
<1>1. /\ s.visited \subseteq Nodes(doc) /\ s.stack \in Seq(Frames(doc)) /\ s.finished \in Seq(Nodes(doc))
      /\ s = [visited |-> s.visited, stack |-> s.stack, finished |-> s.finished]
  BY DEF DeepStates
<1>2. /\ n \in Nat \ {0} /\ Last(s.stack) = frame /\ frame \in Frames(doc)
      /\ rest \in Seq(Frames(doc)) /\ Len(rest) = n - 1
      /\ \A j \in 1..(n - 1) : rest[j] = s.stack[j]
  BY <1>1, PopIs
<1>3. frame.node \in Nodes(doc) /\ frame.todo \subseteq Places(doc) /\ frame.todo # {}
  BY <1>2 DEF Frames
<1>4. i \in frame.todo /\ i \in Places(doc)
  <2> HIDE DEF frame
  <2>1. Places(doc) \subseteq Nat
    BY ProperIs
  <2> QED BY <1>3, <2>1, MinIs
<1> HIDE DEF rest
<1>5. t = IF v \in s.visited THEN tried ELSE Enter(doc, tried, v)
  <2>1. [s EXCEPT !.stack = stack] = tried
    <3>1. \A w : [s EXCEPT !.stack = w] = [visited |-> s.visited, stack |-> w, finished |-> s.finished]
      BY <1>1
    <3> QED BY <3>1
  <2> HIDE DEF frame
  <2> QED BY <1>2, <1>3, <2>1 DEF Descend, To, rest
<1> HIDE DEF i, frame
<1>6. left \in Frames(doc) /\ left.node = frame.node /\ left.todo = frame.todo \ {i}
  BY <1>3 DEF Frames
<1> HIDE DEF left
<1>7. /\ stack \in Seq(Frames(doc)) /\ Len(stack) = n
      /\ \A j \in 1..n : stack[j] = IF j = n THEN left ELSE s.stack[j]
  <2>1. /\ stack \in Seq(Frames(doc)) /\ Len(stack) = Len(rest) + 1
        /\ \A j \in 1..Len(stack) : stack[j] = IF j = Len(stack) THEN left ELSE rest[j]
    BY <1>2, <1>6, PushIs
  <2> HIDE DEF stack, n
  <2>2. Len(stack) = n
    BY <1>2, <2>1
  <2>3. ASSUME NEW j \in 1..n PROVE stack[j] = IF j = n THEN left ELSE s.stack[j]
    <3>1. j # n => j \in 1..(n - 1)
      BY <1>2
    <3> QED BY <1>2, <2>1, <2>2, <3>1
  <2> QED BY <2>1, <2>2, <2>3
<1> HIDE DEF stack
<1>8. n \in 1..n /\ \A j \in 1..n : /\ stack[j].node = s.stack[j].node
                                    /\ stack[j].todo = s.stack[j].todo \ {i}
  <2>1. n \in 1..n
    BY <1>2
  <2>2. stack[n].node = s.stack[n].node /\ stack[n].todo = s.stack[n].todo \ {i}
    BY <1>6, <1>7, <2>1 DEF frame
  <2>3. ASSUME NEW j \in 1..n, j # n
        PROVE  stack[j].node = s.stack[j].node /\ stack[j].todo = s.stack[j].todo \ {i}
    <3>1. stack[j] = s.stack[j]
      BY <1>7, <2>3
    <3>2. j < n
      BY <1>2, <2>3
    <3>3. s.stack[j].node # s.stack[n].node
      BY <2>1, <3>2 DEF DeepInv
    <3>4. From(doc, i) = s.stack[n].node /\ \A k \in s.stack[j].todo : From(doc, k) = s.stack[j].node
      BY <1>4, <2>1 DEF DeepInv, frame
    <3>5. i \notin s.stack[j].todo
      BY <3>3, <3>4
    <3> QED BY <3>1, <3>5
  <2> QED BY <2>1, <2>2, <2>3
<1>9. From(doc, i) = frame.node /\ frame.node \in s.visited /\ v \in Nodes(doc)
  <2>1. From(doc, i) = frame.node /\ frame.node \in s.visited
    BY <1>4, <1>8 DEF DeepInv, frame
  <2>2. v \in Nodes(doc)
    BY <1>4, ProperIs
  <2> QED BY <2>1, <2>2
<1> HIDE DEF n, tried
<1>10. /\ tried \in DeepStates(doc)
       /\ tried.visited = s.visited /\ tried.stack = stack /\ tried.finished = s.finished
  BY <1>1, <1>7 DEF DeepStates, tried
<1>11. DeepInv(doc, tried, {v})
  <2>1. ASSUME NEW w \in s.visited
        PROVE  (\E p \in 1..Len(s.finished) : s.finished[p] = w) \/ (\E j \in 1..n : stack[j].node = w)
    BY <1>8, <2>1 DEF DeepInv, n
  <2>2. ASSUME NEW p \in 1..Len(s.finished)
        PROVE  /\ s.finished[p] \in s.visited
               /\ \A q \in 1..Len(s.finished) : p < q => s.finished[p] # s.finished[q]
               /\ \A k \in Places(doc) : From(doc, k) = s.finished[p] => To(doc, k) \in s.visited
               /\ \/ \E j \in 1..n : Mutual(doc, s.finished[p], stack[j].node)
                  \/ Closing(doc, s.finished, s.finished[p])
    BY <1>8 DEF DeepInv, n
  <2>3. ASSUME NEW j \in 1..n
        PROVE  /\ s.stack[j].node \in s.visited
               /\ \A p \in 1..Len(s.finished) : s.stack[j].node # s.finished[p]
               /\ \A k \in 1..n : j < k => /\ s.stack[j].node # s.stack[k].node
                                           /\ Reaches(doc, s.stack[j].node, s.stack[k].node)
               /\ \A k \in s.stack[j].todo : From(doc, k) = s.stack[j].node
               /\ \A k \in Places(doc) :
                    From(doc, k) = s.stack[j].node => k \in s.stack[j].todo \/ To(doc, k) \in s.visited
    BY DEF DeepInv, n
  <2>4. ASSUME NEW j \in 1..n
        PROVE  /\ stack[j].node \in s.visited
               /\ \A p \in 1..Len(s.finished) : stack[j].node # s.finished[p]
               /\ \A k \in 1..n : j < k => /\ stack[j].node # stack[k].node
                                           /\ Reaches(doc, stack[j].node, stack[k].node)
               /\ \A k \in stack[j].todo : From(doc, k) = stack[j].node
               /\ \A k \in Places(doc) :
                    From(doc, k) = stack[j].node => k \in stack[j].todo \/ To(doc, k) \in s.visited \cup {v}
    BY <1>8, <2>3
  <2> QED BY <1>7, <1>10, <2>1, <2>2, <2>4 DEF DeepInv
<1>12. Untried(doc, tried) = Untried(doc, s) \ {i} /\ i \in Untried(doc, s)
  <2>1. ASSUME NEW k \in Places(doc)
        PROVE  (From(doc, k) \notin tried.visited \/ \E j \in 1..n : k \in stack[j].todo)
          <=> (k # i /\ (From(doc, k) \notin s.visited \/ \E j \in 1..n : k \in s.stack[j].todo))
    BY <1>8, <1>9, <1>10
  <2>2. \E j \in 1..n : i \in s.stack[j].todo
    BY <1>4, <1>8 DEF frame
  <2>3. Len(tried.stack) = n /\ tried.stack = stack /\ Len(s.stack) = n
    BY <1>7, <1>10 DEF n
  <2> QED BY <1>4, <2>1, <2>2, <2>3 DEF Untried
<1>13. Unvisited(doc, tried) = Unvisited(doc, s) /\ Unfinished(doc, tried) = Unfinished(doc, s)
  BY <1>10 DEF Unvisited, Unfinished
<1>14. CASE v \in s.visited
  <2>1. DeepInv(doc, tried, {})
    BY <1>10, <1>11, <1>14 DEF DeepInv
  <2> QED BY <1>5, <1>10, <1>12, <1>13, <1>14, <2>1
<1>15. CASE v \notin s.visited
  <2>1. ASSUME NEW j \in 1..Len(tried.stack) PROVE Reaches(doc, tried.stack[j].node, v)
    <3>1. j \in 1..n /\ tried.stack[j].node = s.stack[j].node
      BY <1>7, <1>8, <1>10
    <3>2. Reaches(doc, frame.node, v)
      BY <1>4, <1>9, ReachIs
    <3>3. j = n \/ j < n
      BY <1>2, <3>1 DEF n
    <3>4. j = n \/ Reaches(doc, s.stack[j].node, frame.node)
      BY <1>8, <3>1, <3>3 DEF DeepInv, n, frame
    <3>5. s.stack[n].node = frame.node
      BY DEF frame
    <3> HIDE DEF v
    <3> QED BY <3>1, <3>2, <3>4, <3>5, ReachIs
  <2>2. v \notin tried.visited
    BY <1>10, <1>15
  <2> DEFINE e == Enter(doc, tried, v)
  <2> HIDE DEF v
  <2>3. /\ e \in DeepStates(doc) /\ DeepInv(doc, e, {})
        /\ Unvisited(doc, e) = Unvisited(doc, tried) \ {v} /\ v \in Unvisited(doc, tried)
        /\ Unfinished(doc, e) = Unfinished(doc, tried)
        /\ Untried(doc, e) = Untried(doc, tried)
    BY <1>9, <1>10, <1>11, <2>1, <2>2, EnterStep
  <2>4. t = e
    BY <1>5, <1>15
  <2> HIDE DEF t, e
  <2>5. /\ t \in DeepStates(doc) /\ DeepInv(doc, t, {})
        /\ Unvisited(doc, t) = Unvisited(doc, s) \ {v} /\ v \in Unvisited(doc, s)
        /\ Unfinished(doc, t) = Unfinished(doc, s)
        /\ Untried(doc, t) = Untried(doc, s) \ {i} /\ i \in Untried(doc, s)
    BY <1>12, <1>13, <2>3, <2>4
  <2> QED BY <2>5 DEF t
<1> QED BY <1>14, <1>15

\* The top of the stack finishes.
LEMMA FinishStep ==
  ASSUME NEW doc, Proper(doc), NEW s \in DeepStates(doc), DeepInv(doc, s, {}),
         s.stack # <<>>, Last(s.stack).todo = {}
  PROVE  LET t == Descend(doc, s) IN
           /\ t \in DeepStates(doc) /\ DeepInv(doc, t, {})
           /\ Unvisited(doc, t) = Unvisited(doc, s)
           /\ \E v \in Unfinished(doc, s) : Unfinished(doc, t) = Unfinished(doc, s) \ {v}
           /\ Untried(doc, t) = Untried(doc, s)
<1> DEFINE n == Len(s.stack)
           m == Len(s.finished)
           frame == s.stack[n]
           x == frame.node
           rest == Front(s.stack)
           finished == Append(s.finished, x)
           t == Descend(doc, s)
<1>1. /\ s.visited \subseteq Nodes(doc) /\ s.stack \in Seq(Frames(doc)) /\ s.finished \in Seq(Nodes(doc))
      /\ s = [visited |-> s.visited, stack |-> s.stack, finished |-> s.finished]
  BY DEF DeepStates
<1>2. /\ n \in Nat \ {0} /\ Last(s.stack) = frame /\ frame \in Frames(doc)
      /\ rest \in Seq(Frames(doc)) /\ Len(rest) = n - 1
      /\ \A j \in 1..(n - 1) : rest[j] = s.stack[j]
  BY <1>1, PopIs
<1>3. x \in Nodes(doc) /\ frame.todo = {}
  BY <1>2 DEF Frames
<1> HIDE DEF rest
<1>4. t = [visited |-> s.visited, stack |-> rest, finished |-> finished]
  BY <1>1, <1>2, <1>3 DEF Descend, rest
<1> HIDE DEF x
<1>5. /\ finished \in Seq(Nodes(doc)) /\ Len(finished) = m + 1 /\ m \in Nat
      /\ \A p \in 1..(m + 1) : finished[p] = IF p = m + 1 THEN x ELSE s.finished[p]
      /\ ToSet(finished) = ToSet(s.finished) \cup {x}
  BY <1>1, <1>3, PushIs
<1> HIDE DEF finished, t
<1>6. /\ t \in DeepStates(doc)
      /\ t.visited = s.visited /\ t.stack = rest /\ t.finished = finished
  BY <1>1, <1>2, <1>4, <1>5 DEF DeepStates
<1>7. /\ n \in 1..n /\ \A j \in 1..(n - 1) : j \in 1..n /\ j < n
      /\ \A j \in 1..n : j = n \/ j \in 1..(n - 1)
  <2> HIDE DEF n
  <2> QED BY <1>2
<1>8. /\ m + 1 \in 1..(m + 1) /\ finished[m + 1] = x
      /\ \A p \in 1..m : p \in 1..(m + 1) /\ p # m + 1 /\ finished[p] = s.finished[p]
      /\ \A p \in 1..(m + 1) : p = m + 1 \/ p \in 1..m
  <2> HIDE DEF m
  <2>1. m + 1 \in 1..(m + 1) /\ \A p \in 1..m : p \in 1..(m + 1) /\ p # m + 1
    BY <1>5
  <2>2. \A p \in 1..(m + 1) : p = m + 1 \/ p \in 1..m
    BY <1>5
  <2> QED BY <1>5, <2>1, <2>2
<1>9. ASSUME NEW j \in 1..n
      PROVE  /\ s.stack[j].node \in s.visited
             /\ \A p \in 1..m : s.stack[j].node # s.finished[p]
             /\ \A k \in 1..n : j < k => /\ s.stack[j].node # s.stack[k].node
                                         /\ Reaches(doc, s.stack[j].node, s.stack[k].node)
             /\ \A k \in s.stack[j].todo : From(doc, k) = s.stack[j].node
             /\ \A k \in Places(doc) :
                  From(doc, k) = s.stack[j].node => k \in s.stack[j].todo \/ To(doc, k) \in s.visited
  BY DEF DeepInv
<1>10. ASSUME NEW p \in 1..m
       PROVE  /\ s.finished[p] \in s.visited
              /\ \A q \in 1..m : p < q => s.finished[p] # s.finished[q]
              /\ \A k \in Places(doc) : From(doc, k) = s.finished[p] => To(doc, k) \in s.visited
              /\ \/ \E j \in 1..n : Mutual(doc, s.finished[p], s.stack[j].node)
                 \/ Closing(doc, s.finished, s.finished[p])
  BY DEF DeepInv
<1>11. \A w \in s.visited :
         (\E p \in 1..m : s.finished[p] = w) \/ (\E j \in 1..n : s.stack[j].node = w)
  BY DEF DeepInv
<1>12. /\ x = s.stack[n].node /\ x \in s.visited /\ \A p \in 1..m : s.finished[p] # x
       /\ \A k \in Places(doc) : From(doc, k) = x => To(doc, k) \in s.visited
       /\ \A j \in 1..(n - 1) : s.stack[j].node # x /\ Reaches(doc, s.stack[j].node, x)
  <2>1. x = s.stack[n].node /\ s.stack[n].todo = {}
    BY <1>3 DEF x
  <2> HIDE DEF n, m
  <2> QED BY <1>7, <1>9, <2>1
<1> HIDE DEF n, m, frame
<1>13. ASSUME \A j \in 1..(n - 1) : ~Mutual(doc, x, rest[j].node)
       PROVE  Closing(doc, finished, x)
  <2> DEFINE S == {v \in Nodes(doc) : Reaches(doc, x, v) /\ (v = x \/ \E p \in 1..m : s.finished[p] = v)}
  <2>1. S \subseteq Nodes(doc) /\ x \in S
    BY <1>3, ReachIs
  <2>2. ASSUME NEW i \in Places(doc), From(doc, i) \in S PROVE To(doc, i) \in S
    <3>1. To(doc, i) \in s.visited /\ Reaches(doc, x, To(doc, i)) /\ To(doc, i) \in Nodes(doc)
      <4>1. To(doc, i) \in s.visited
        BY <1>10, <1>12, <2>2
      <4>2. Reaches(doc, x, From(doc, i)) /\ Reaches(doc, From(doc, i), To(doc, i))
        BY <2>2, ReachIs
      <4> QED BY <1>1, <4>1, <4>2, ReachIs
    <3>2. CASE \E p \in 1..m : s.finished[p] = To(doc, i)
      BY <3>1, <3>2
    <3>3. CASE \E j \in 1..n : s.stack[j].node = To(doc, i)
      <4>1. PICK j \in 1..n : s.stack[j].node = To(doc, i)
        BY <3>3
      <4>2. CASE j = n
        BY <1>12, <3>1, <4>1, <4>2
      <4>3. CASE j \in 1..(n - 1)
        <5>1. rest[j].node = To(doc, i) /\ Reaches(doc, To(doc, i), x)
          BY <1>2, <1>12, <4>1, <4>3
        <5> QED BY <1>13, <3>1, <4>3, <5>1 DEF Mutual
      <4> QED BY <1>7, <4>2, <4>3
    <3> QED BY <1>11, <3>1, <3>2, <3>3
  <2>3. \A v : Reaches(doc, x, v) => v \in S
    <3> HIDE DEF S
    <3> QED BY <2>1, <2>2, ReachIs
  <2>4. \A v \in Nodes(doc) : Reaches(doc, x, v) => \E q \in 1..(m + 1) : finished[q] = v
    BY <1>8, <2>3
  <2>5. Mutual(doc, x, x)
    BY ReachIs DEF Mutual
  <2> HIDE DEF S
  <2> QED BY <1>5, <1>8, <2>4, <2>5 DEF Closing
<1>14. \A u : Mutual(doc, u, x) => (\E j \in 1..(n - 1) : Mutual(doc, u, rest[j].node)) \/ Closing(doc, finished, u)
  <2> SUFFICES ASSUME NEW u, Mutual(doc, u, x),
                      ~\E j \in 1..(n - 1) : Mutual(doc, u, rest[j].node)
               PROVE  Closing(doc, finished, u)
    OBVIOUS
  <2>1. \A j \in 1..(n - 1) : ~Mutual(doc, x, rest[j].node)
    BY ReachIs DEF Mutual
  <2>2. PICK p \in 1..Len(finished) :
          /\ Mutual(doc, x, finished[p])
          /\ \A v \in Nodes(doc) : Reaches(doc, x, v) => \E q \in 1..p : finished[q] = v
    BY <1>13, <2>1 DEF Closing
  <2>3. Mutual(doc, u, finished[p])
    BY <2>2, ReachIs DEF Mutual
  <2>4. \A v : Reaches(doc, u, v) => Reaches(doc, x, v)
    BY ReachIs DEF Mutual
  <2> QED BY <2>2, <2>3, <2>4 DEF Closing
<1>15. \A u : Closing(doc, s.finished, u) => Closing(doc, finished, u)
  <2> SUFFICES ASSUME NEW u, Closing(doc, s.finished, u) PROVE Closing(doc, finished, u)
    OBVIOUS
  <2>1. PICK p \in 1..m :
          /\ Mutual(doc, u, s.finished[p])
          /\ \A v \in Nodes(doc) : Reaches(doc, u, v) => \E q \in 1..p : s.finished[q] = v
    BY DEF Closing, m
  <2>2. p \in 1..(m + 1) /\ \A q \in 1..p : q \in 1..m
    BY <1>5
  <2>3. finished[p] = s.finished[p] /\ \A q \in 1..p : finished[q] = s.finished[q]
    BY <1>8, <2>2
  <2>4. p \in 1..Len(finished) /\ Mutual(doc, u, finished[p])
    BY <1>5, <2>1, <2>2, <2>3
  <2>5. \A v \in Nodes(doc) : Reaches(doc, u, v) => \E q \in 1..p : finished[q] = v
    BY <2>1, <2>3
  <2> QED BY <2>4, <2>5 DEF Closing
<1>16. ASSUME NEW p \in 1..(m + 1)
       PROVE  /\ finished[p] \in s.visited
              /\ \A q \in 1..(m + 1) : p < q => finished[p] # finished[q]
              /\ \A k \in Places(doc) : From(doc, k) = finished[p] => To(doc, k) \in s.visited
              /\ \/ \E j \in 1..(n - 1) : Mutual(doc, finished[p], rest[j].node)
                 \/ Closing(doc, finished, finished[p])
  <2>1. CASE p = m + 1
    <3>1. \A q \in 1..(m + 1) : ~(p < q)
      BY <1>5, <2>1
    <3>2. Mutual(doc, x, x)
      BY ReachIs DEF Mutual
    <3> QED BY <1>8, <1>12, <1>14, <2>1, <3>1, <3>2
  <2>2. CASE p \in 1..m
    <3>1. finished[p] = s.finished[p]
      BY <1>8, <2>2
    <3>2. ASSUME NEW q \in 1..(m + 1), p < q PROVE finished[p] # finished[q]
      <4>1. CASE q = m + 1
        BY <1>8, <1>12, <2>2, <3>1, <4>1
      <4>2. CASE q \in 1..m
        BY <1>8, <1>10, <2>2, <3>1, <3>2, <4>2
      <4> QED BY <1>8, <4>1, <4>2
    <3>3. \/ \E j \in 1..(n - 1) : Mutual(doc, finished[p], rest[j].node)
          \/ Closing(doc, finished, finished[p])
      <4>1. CASE Closing(doc, s.finished, s.finished[p])
        BY <1>15, <3>1, <4>1
      <4>2. CASE \E j \in 1..n : Mutual(doc, s.finished[p], s.stack[j].node)
        <5>1. PICK j \in 1..n : Mutual(doc, s.finished[p], s.stack[j].node)
          BY <4>2
        <5>2. CASE j = n
          BY <1>12, <1>14, <3>1, <5>1, <5>2
        <5>3. CASE j \in 1..(n - 1)
          BY <1>2, <3>1, <5>1, <5>3 DEF n
        <5> QED BY <1>7, <5>2, <5>3
      <4> QED BY <1>10, <2>2, <4>1, <4>2
    <3> QED BY <1>10, <2>2, <3>1, <3>2, <3>3
  <2> QED BY <1>8, <2>1, <2>2
<1>17. ASSUME NEW j \in 1..(n - 1)
       PROVE  /\ rest[j].node \in s.visited
              /\ \A p \in 1..(m + 1) : rest[j].node # finished[p]
              /\ \A k \in 1..(n - 1) : j < k => /\ rest[j].node # rest[k].node
                                                /\ Reaches(doc, rest[j].node, rest[k].node)
              /\ \A k \in rest[j].todo : From(doc, k) = rest[j].node
              /\ \A k \in Places(doc) :
                   From(doc, k) = rest[j].node => k \in rest[j].todo \/ To(doc, k) \in s.visited \cup {}
  <2>1. rest[j] = s.stack[j] /\ j \in 1..n /\ \A k \in 1..(n - 1) : k \in 1..n /\ rest[k] = s.stack[k]
    BY <1>2, <1>7 DEF n
  <2>2. \A p \in 1..(m + 1) : rest[j].node # finished[p]
    BY <1>8, <1>9, <1>12, <2>1
  <2> QED BY <1>9, <2>1, <2>2
<1>18. ASSUME NEW w \in s.visited
       PROVE  (\E p \in 1..(m + 1) : finished[p] = w) \/ (\E j \in 1..(n - 1) : rest[j].node = w)
  <2>1. CASE \E p \in 1..m : s.finished[p] = w
    BY <1>8, <2>1
  <2>2. CASE \E j \in 1..n : s.stack[j].node = w
    <3>1. PICK j \in 1..n : s.stack[j].node = w
      BY <2>2
    <3>2. CASE j = n
      BY <1>8, <1>12, <3>1, <3>2
    <3>3. CASE j \in 1..(n - 1)
      <4>1. rest[j] = s.stack[j]
        BY <1>2, <3>3 DEF n
      <4> QED BY <3>1, <3>3, <4>1
    <3> QED BY <1>7, <3>2, <3>3
  <2> QED BY <1>11, <2>1, <2>2
<1>19. Len(rest) = n - 1
  BY <1>2 DEF n
<1>20. DeepInv(doc, t, {})
  <2>1. /\ Len(t.stack) = n - 1 /\ Len(t.finished) = m + 1
        /\ t.stack = rest /\ t.finished = finished /\ t.visited = s.visited
    BY <1>5, <1>6, <1>19
  <2>2. ASSUME NEW p \in 1..Len(t.finished)
        PROVE  /\ t.finished[p] \in t.visited
               /\ \A q \in 1..Len(t.finished) : p < q => t.finished[p] # t.finished[q]
               /\ \A k \in Places(doc) : From(doc, k) = t.finished[p] => To(doc, k) \in t.visited
               /\ \/ \E j \in 1..Len(t.stack) : Mutual(doc, t.finished[p], t.stack[j].node)
                  \/ Closing(doc, t.finished, t.finished[p])
    BY <1>16, <2>1
  <2>3. ASSUME NEW j \in 1..Len(t.stack)
        PROVE  /\ t.stack[j].node \in t.visited
               /\ \A p \in 1..Len(t.finished) : t.stack[j].node # t.finished[p]
               /\ \A k \in 1..Len(t.stack) :
                    j < k => /\ t.stack[j].node # t.stack[k].node
                             /\ Reaches(doc, t.stack[j].node, t.stack[k].node)
               /\ \A k \in t.stack[j].todo : From(doc, k) = t.stack[j].node
               /\ \A k \in Places(doc) :
                    From(doc, k) = t.stack[j].node => k \in t.stack[j].todo \/ To(doc, k) \in t.visited \cup {}
    BY <1>17, <2>1
  <2>4. ASSUME NEW w \in t.visited
        PROVE  \/ \E p \in 1..Len(t.finished) : t.finished[p] = w
               \/ \E j \in 1..Len(t.stack) : t.stack[j].node = w
    BY <1>18, <2>1
  <2> QED BY <2>2, <2>3, <2>4 DEF DeepInv
<1>21. Unvisited(doc, t) = Unvisited(doc, s)
  BY <1>6 DEF Unvisited
<1>22. Unfinished(doc, t) = Unfinished(doc, s) \ {x} /\ x \in Unfinished(doc, s)
  <2>1. x \notin ToSet(s.finished)
    <3>1. DOMAIN s.finished = 1..m
      BY <1>1 DEF m
    <3> QED BY <1>12, <3>1 DEF ToSet
  <2> QED BY <1>3, <1>5, <1>6, <2>1 DEF Unfinished
<1>23. Untried(doc, t) = Untried(doc, s)
  <2>1. \A j \in 1..(n - 1) : rest[j] = s.stack[j]
    BY <1>2 DEF n
  <2>2. s.stack[n].todo = {}
    BY <1>3 DEF frame
  <2>3. \A k : (\E j \in 1..n : k \in s.stack[j].todo) <=> \E j \in 1..(n - 1) : k \in rest[j].todo
    BY <1>7, <2>1, <2>2
  <2>4. Len(s.stack) = n
    BY DEF n
  <2> QED BY <1>6, <1>19, <2>3, <2>4 DEF Untried
<1> QED BY <1>6, <1>20, <1>21, <1>22, <1>23 DEF t

\* The next node that is not visited starts.
LEMMA StartStep ==
  ASSUME NEW doc, Proper(doc), NEW s \in DeepStates(doc), DeepInv(doc, s, {}),
         s.stack = <<>>, ~DeepOver(doc, s)
  PROVE  LET t == Descend(doc, s) IN
           /\ t \in DeepStates(doc) /\ DeepInv(doc, t, {})
           /\ \E v \in Unvisited(doc, s) : Unvisited(doc, t) = Unvisited(doc, s) \ {v}
           /\ Unfinished(doc, t) = Unfinished(doc, s)
           /\ Untried(doc, t) = Untried(doc, s)
<1> DEFINE left == {i \in DOMAIN doc.nodes : doc.nodes[i] \notin s.visited}
           v == doc.nodes[Min(left)]
           t == Descend(doc, s)
           e == Enter(doc, s, v)
<1>1. DOMAIN doc.nodes = 1..Len(doc.nodes) /\ Len(doc.nodes) \in Nat
  BY LenProperties DEF Proper, Listed
<1>2. left # {}
  <2>1. PICK w \in Nodes(doc) : w \notin s.visited
    BY DEF DeepOver
  <2> QED BY <2>1 DEF Nodes, ToSet
<1>3. Min(left) \in left
  <2>1. left \subseteq Nat
    BY <1>1
  <2> HIDE DEF left
  <2> QED BY <1>2, <2>1, MinIs
<1>4. v \in Nodes(doc) /\ v \notin s.visited
  BY <1>3 DEF Nodes, ToSet
<1>5. t = e
  BY <1>2 DEF Descend
<1> HIDE DEF v, t, e
<1>6. DeepInv(doc, s, {v})
  BY DEF DeepInv
<1>7. \A j \in 1..Len(s.stack) : Reaches(doc, s.stack[j].node, v)
  <2>1. Len(s.stack) = 0
    OBVIOUS
  <2> QED BY <2>1
<1>8. /\ e \in DeepStates(doc) /\ DeepInv(doc, e, {})
      /\ Unvisited(doc, e) = Unvisited(doc, s) \ {v} /\ v \in Unvisited(doc, s)
      /\ Unfinished(doc, e) = Unfinished(doc, s)
      /\ Untried(doc, e) = Untried(doc, s)
  BY <1>4, <1>6, <1>7, EnterStep DEF e
<1> QED BY <1>5, <1>8 DEF t

\* Every round does its part, until all is visited and finished.
LEMMA DescendStep ==
  ASSUME NEW doc, Proper(doc), NEW s \in DeepStates(doc), DeepInv(doc, s, {})
  PROVE  LET t == Descend(doc, s) IN
           /\ t \in DeepStates(doc) /\ DeepInv(doc, t, {})
           /\ DeepLeft(doc, s) \in Nat
           /\ DeepOver(doc, s) => t = s
           /\ ~DeepOver(doc, s) => DeepLeft(doc, t) < DeepLeft(doc, s)
<1> DEFINE t == Descend(doc, s)
           a == Unvisited(doc, s)
           b == Unfinished(doc, s)
           c == Untried(doc, s)
<1>1. a \subseteq Nodes(doc) /\ b \subseteq Nodes(doc) /\ c \subseteq Places(doc)
  BY DEF Unvisited, Unfinished, Untried
<1>2. /\ Cardinality(a) \in Nat /\ \A x \in a : Cardinality(a \ {x}) = Cardinality(a) - 1
      /\ Cardinality(b) \in Nat /\ \A x \in b : Cardinality(b \ {x}) = Cardinality(b) - 1
      /\ Cardinality(c) \in Nat /\ \A x \in c : Cardinality(c \ {x}) = Cardinality(c) - 1
  <2>1. {} \subseteq Nodes(doc) /\ {} \subseteq Places(doc)
    OBVIOUS
  <2> HIDE DEF a, b, c
  <2> QED BY <1>1, <2>1, LeftIs
<1>3. DeepLeft(doc, s) \in Nat
  BY <1>2 DEF DeepLeft
<1>4. CASE DeepOver(doc, s)
  <2>1. {i \in DOMAIN doc.nodes : doc.nodes[i] \notin s.visited} = {}
    BY <1>4 DEF DeepOver, Nodes, ToSet
  <2>2. t = s
    BY <1>4, <2>1 DEF DeepOver, Descend
  <2> QED BY <1>3, <1>4, <2>2
<1>5. CASE ~DeepOver(doc, s)
  <2>1. /\ t \in DeepStates(doc) /\ DeepInv(doc, t, {})
        /\ \/ /\ \E x \in a : Unvisited(doc, t) = a \ {x}
              /\ Unfinished(doc, t) = b /\ Untried(doc, t) = c
           \/ /\ Unvisited(doc, t) = a
              /\ \E x \in b : Unfinished(doc, t) = b \ {x}
              /\ Untried(doc, t) = c
           \/ /\ Unvisited(doc, t) = a \/ \E x \in a : Unvisited(doc, t) = a \ {x}
              /\ Unfinished(doc, t) = b
              /\ \E x \in c : Untried(doc, t) = c \ {x}
    <3>1. CASE s.stack = <<>>
      BY <1>5, <3>1, StartStep
    <3>2. CASE s.stack # <<>> /\ Last(s.stack).todo = {}
      BY <3>2, FinishStep
    <3>3. CASE s.stack # <<>> /\ Last(s.stack).todo # {}
      BY <3>3, TryStep
    <3> QED BY <3>1, <3>2, <3>3
  <2> HIDE DEF t, a, b, c
  <2>2. DeepLeft(doc, s) = Cardinality(a) + Cardinality(b) + Cardinality(c)
    BY DEF DeepLeft, a, b, c
  <2>3. DeepLeft(doc, t) < DeepLeft(doc, s)
    BY <1>2, <2>1, <2>2 DEF DeepLeft
  <2> QED BY <1>3, <1>5, <2>1, <2>3 DEF t
<1> QED BY <1>4, <1>5

\* Every node finishes, once, and the last to finish of what a node reaches reaches it.
LEMMA FinishedIs ==
  ASSUME NEW doc, Proper(doc)
  PROVE  /\ Finished(doc) \in Seq(Nodes(doc))
         /\ \A v \in Nodes(doc) : \E p \in 1..Len(Finished(doc)) : Finished(doc)[p] = v
         /\ \A p, q \in 1..Len(Finished(doc)) : p < q => Finished(doc)[p] # Finished(doc)[q]
         /\ \A u \in Nodes(doc) : Closing(doc, Finished(doc), u)
<1> DEFINE n == Len(doc.nodes) + Rounds(doc)
           S == {s \in DeepStates(doc) : DeepInv(doc, s, {})}
           a == [visited |-> {}, stack |-> <<>>, finished |-> <<>>]
           g == [s \in S |-> Descend(doc, s)]
           mu == [s \in S |-> DeepLeft(doc, s)]
           over == {s \in S : DeepOver(doc, s)}
           body(f) == [k \in 0..n |-> IF k = 0 THEN a ELSE Descend(doc, f[k - 1])]
           run == CHOOSE f : f = body(f)
<1>1. /\ n \in Nat /\ n = Len(doc.nodes) + (Len(doc.nodes) + Len(doc.edges))
      /\ Len(doc.nodes) \in Nat /\ Len(doc.edges) \in Nat
  <2> DEFINE x == Len(doc.nodes)
             y == Len(doc.edges)
  <2>1. x \in Nat /\ y \in Nat /\ n = x + (x + y)
    BY ProperIs, Zenon
  <2> HIDE DEF x, y, n
  <2>2. n \in Nat
    BY <2>1
  <2> QED BY <2>1, <2>2 DEF x, y
<1>2. a \in S
  <2>1. a \in DeepStates(doc)
    BY DEF DeepStates
  <2>2. DeepInv(doc, a, {})
    BY DEF DeepInv
  <2> QED BY <2>1, <2>2
<1>3. ASSUME NEW s \in S
      PROVE  /\ Descend(doc, s) \in S /\ mu[s] \in Nat /\ mu[s] = DeepLeft(doc, s)
             /\ s \in over => Descend(doc, s) \in over
             /\ s \notin over => DeepLeft(doc, Descend(doc, s)) < mu[s]
  BY DescendStep
<1>4. mu[a] <= n
  <2>1. Unvisited(doc, a) = Nodes(doc) /\ Unfinished(doc, a) = Nodes(doc) /\ Untried(doc, a) = Places(doc)
    BY DEF Unvisited, Unfinished, Untried, ToSet
  <2>2. Cardinality(Nodes(doc)) = Len(doc.nodes) /\ Cardinality(Places(doc)) = Len(doc.edges)
    BY ProperIs
  <2>3. DeepLeft(doc, a) = n
    <3> DEFINE x == Len(doc.nodes)
               y == Len(doc.edges)
    <3>1. DeepLeft(doc, a) = (x + x) + y /\ n = x + (x + y) /\ x \in Nat /\ y \in Nat
      BY <1>1, <2>1, <2>2 DEF DeepLeft
    <3> HIDE DEF x, y, n, a
    <3> QED BY <3>1
  <2>4. mu[a] = DeepLeft(doc, a)
    BY <1>2
  <2>5. n \in Nat
    BY <1>1
  <2> HIDE DEF n, mu, a
  <2> QED BY <2>3, <2>4, <2>5
<1>5. run = body(run)
  <2>1. g \in [S -> S]
    BY <1>3
  <2>2. PICK f : f \in Runs(S, a, g, n)
    <3>1. n \in Nat /\ a \in S
      BY <1>1, <1>2
    <3> HIDE DEF g, S, a, n
    <3>2. Runs(S, a, g, n) # {}
      BY <2>1, <3>1, RunExists
    <3> QED BY <3>2
  <2>3. ASSUME NEW k \in 0..n PROVE f[k] = body(f)[k]
    <3>1. CASE k = 0
      BY <2>2, <3>1 DEF Runs
    <3>2. CASE k # 0
      <4>1. k \in 1..n /\ k - 1 \in 0..n
        <5>1. n \in Nat
          BY <1>1
        <5> HIDE DEF n
        <5> QED BY <3>2, <5>1
      <4>2. f[k] = g[f[k - 1]] /\ f[k - 1] \in S
        BY <2>2, <4>1 DEF Runs
      <4>3. g[f[k - 1]] = Descend(doc, f[k - 1])
        BY <4>2
      <4> QED BY <3>2, <4>2, <4>3
    <3> QED BY <3>1, <3>2
  <2>4. f = body(f)
    <3>1. body(f) = [k \in 0..n |-> body(f)[k]] /\ f = [k \in 0..n |-> f[k]]
      BY <2>2 DEF Runs
    <3> HIDE DEF body
    <3> QED BY <2>3, <3>1
  <2> HIDE DEF body
  <2> QED BY <2>4
<1>6. Finished(doc) = run[n].finished
  BY DEF Finished
<1> HIDE DEF run
<1>7. run[0] = a /\ \A i \in 1..n : run[i] = Descend(doc, run[i - 1])
  <2>1. \A k \in 0..n : run[k] = IF k = 0 THEN a ELSE Descend(doc, run[k - 1])
    BY <1>5
  <2>2. 0 \in 0..n /\ \A i \in 1..n : i \in 0..n /\ i # 0
    <3>1. n \in Nat
      BY <1>1
    <3> HIDE DEF n
    <3> QED BY <3>1
  <2> HIDE DEF a, n
  <2> QED BY <2>1, <2>2
<1>8. mu \in [S -> Nat]
  BY <1>3
<1>9. \A s \in S : mu[s] = 0 => s \in over
  <2> SUFFICES ASSUME NEW s \in S, mu[s] = 0, s \notin over PROVE FALSE
    OBVIOUS
  <2>1. Descend(doc, s) \in S /\ DeepLeft(doc, Descend(doc, s)) < 0
    BY <1>3
  <2>2. DeepLeft(doc, Descend(doc, s)) \in Nat
    BY <1>3, <2>1
  <2> QED BY <2>1, <2>2
<1>10. \A i \in 1..n : run[i - 1] \in S =>
         /\ run[i] \in S
         /\ run[i - 1] \in over => run[i] \in over
         /\ run[i - 1] \notin over => mu[run[i]] < mu[run[i - 1]]
  <2> HIDE DEF S, over, mu, n
  <2> QED BY <1>3, <1>7
<1>11. run[n] \in S /\ run[n] \in over
  <2>1. n \in Nat /\ run[0] \in S /\ mu[run[0]] <= n
    BY <1>1, <1>2, <1>4, <1>7
  <2> HIDE DEF S, over, mu, n, a
  <2> QED BY <1>8, <1>9, <1>10, <2>1, RunEnds, Zenon
<1> DEFINE s == run[n]
<1> HIDE DEF s
<1>12. s \in DeepStates(doc) /\ DeepInv(doc, s, {}) /\ DeepOver(doc, s)
  BY <1>11 DEF s
<1>13. Finished(doc) = s.finished /\ s.finished \in Seq(Nodes(doc)) /\ Len(s.stack) = 0
  BY <1>6, <1>12 DEF s, DeepStates, DeepOver
<1>14. \A v \in Nodes(doc) : \E p \in 1..Len(s.finished) : s.finished[p] = v
  BY <1>12, <1>13 DEF DeepInv, DeepOver
<1>15. ASSUME NEW p \in 1..Len(s.finished)
       PROVE  /\ \A q \in 1..Len(s.finished) : p < q => s.finished[p] # s.finished[q]
              /\ Closing(doc, s.finished, s.finished[p])
  BY <1>12, <1>13 DEF DeepInv
<1>16. \A u \in Nodes(doc) : Closing(doc, s.finished, u)
  BY <1>14, <1>15
<1>17. \A p, q \in 1..Len(s.finished) : p < q => s.finished[p] # s.finished[q]
  BY <1>15
<1> DEFINE done == s.finished
<1>18. Finished(doc) = done
  BY <1>13
<1>19. /\ done \in Seq(Nodes(doc))
       /\ \A v \in Nodes(doc) : \E p \in 1..Len(done) : done[p] = v
       /\ \A p, q \in 1..Len(done) : p < q => done[p] # done[q]
       /\ \A u \in Nodes(doc) : Closing(doc, done, u)
  BY <1>13, <1>14, <1>16, <1>17
<1> HIDE DEF done
<1> QED BY <1>18, <1>19

-------------------------------------------------------------------------------
(* One component, over the reversed edges.                                 *)

CollectStates(doc) ==
  [assigned : SUBSET Nodes(doc), stack : Seq(Nodes(doc)), todo : SUBSET Places(doc),
   size : Nat, loop : BOOLEAN]

\* The nodes of the component that have left the stack.
Collected(A, s) == (s.assigned \ A) \ ToSet(s.stack)

CollectInv(doc, A, start, s) ==
  /\ A \subseteq s.assigned /\ start \in s.assigned
  /\ \A j \in 1..Len(s.stack) :
       /\ s.stack[j] \in s.assigned \ A
       /\ \A k \in 1..Len(s.stack) : j < k => s.stack[j] # s.stack[k]
  /\ \A c \in s.assigned \ A : Reaches(doc, c, start)
  /\ s.size = Cardinality(Collected(A, s))
  /\ s.loop <=> \E c \in Collected(A, s) : SelfLoop(doc, c)
  /\ \A i \in s.todo : To(doc, i) \in Collected(A, s)
  /\ \A i \in Places(doc) : To(doc, i) \in Collected(A, s) => i \in s.todo \/ From(doc, i) \in s.assigned

Uncollected(doc, A, s) == Nodes(doc) \ Collected(A, s)
Unfollowed(doc, A, s) == {i \in Places(doc) : To(doc, i) \notin Collected(A, s) \/ i \in s.todo}

CollectOver(s) == s.stack = <<>> /\ s.todo = {}
CollectLeft(doc, A, s) == Cardinality(Uncollected(doc, A, s)) + Cardinality(Unfollowed(doc, A, s))

\* One element less.
OneLess(a, b) == \E x \in a : b = a \ {x}

\* An edge into the component is followed to its source.
LEMMA FollowStep ==
  ASSUME NEW doc, Proper(doc), NEW A, NEW start \in Nodes(doc), NEW s \in CollectStates(doc),
         CollectInv(doc, A, start, s), s.todo # {}
  PROVE  LET t == Collect(doc, s) IN
           /\ t \in CollectStates(doc) /\ CollectInv(doc, A, start, t)
           /\ Uncollected(doc, A, t) = Uncollected(doc, A, s)
           /\ OneLess(Unfollowed(doc, A, s), Unfollowed(doc, A, t))
<1> DEFINE i == Min(s.todo)
           v == From(doc, i)
           t == Collect(doc, s)
<1>1. /\ s.assigned \subseteq Nodes(doc) /\ s.stack \in Seq(Nodes(doc)) /\ s.todo \subseteq Places(doc)
      /\ s.size \in Nat /\ s.loop \in BOOLEAN
      /\ s = [assigned |-> s.assigned, stack |-> s.stack, todo |-> s.todo,
              size |-> s.size, loop |-> s.loop]
      /\ Len(s.stack) \in Nat
  BY DEF CollectStates
<1>2. i \in s.todo /\ i \in Places(doc)
  <2>1. Places(doc) \subseteq Nat
    BY ProperIs
  <2> QED BY <1>1, <2>1, MinIs
<1>3. v \in Nodes(doc) /\ To(doc, i) \in Collected(A, s)
  <2> HIDE DEF i
  <2> QED BY <1>2, ProperIs DEF CollectInv
<1>4. CASE v \in s.assigned
  <2>1. t = [assigned |-> s.assigned, stack |-> s.stack, todo |-> s.todo \ {i},
             size |-> s.size, loop |-> s.loop]
    <3>1. t = [s EXCEPT !.todo = @ \ {i}]
      BY <1>4 DEF Collect, From
    <3> HIDE DEF t, i
    <3> QED BY <1>1, <3>1
  <2> HIDE DEF t, v, i
  <2>2. /\ t.assigned = s.assigned /\ t.stack = s.stack /\ t.todo = s.todo \ {i}
        /\ t.size = s.size /\ t.loop = s.loop /\ t \in CollectStates(doc)
    BY <1>1, <2>1 DEF CollectStates
  <2>3. Collected(A, t) = Collected(A, s)
    BY <2>2 DEF Collected
  <2>4. CollectInv(doc, A, start, t)
    BY <1>4, <2>2, <2>3 DEF CollectInv, v
  <2>5. /\ Uncollected(doc, A, t) = Uncollected(doc, A, s)
        /\ Unfollowed(doc, A, t) = Unfollowed(doc, A, s) \ {i} /\ i \in Unfollowed(doc, A, s)
    BY <1>2, <1>3, <2>2, <2>3 DEF Uncollected, Unfollowed
  <2> QED BY <2>2, <2>4, <2>5 DEF t, OneLess
<1>5. CASE v \notin s.assigned
  <2> DEFINE stack == Append(s.stack, v)
             n == Len(s.stack) + 1
  <2>1. t = [assigned |-> s.assigned \cup {v}, stack |-> stack, todo |-> s.todo \ {i},
             size |-> s.size, loop |-> s.loop]
    BY <1>1, <1>5 DEF Collect, From
  <2> HIDE DEF t, i, v
  <2>2. /\ stack \in Seq(Nodes(doc)) /\ Len(stack) = n
        /\ \A j \in 1..n : stack[j] = IF j = n THEN v ELSE s.stack[j]
        /\ ToSet(stack) = ToSet(s.stack) \cup {v}
    BY <1>1, <1>3, PushIs
  <2> HIDE DEF stack
  <2>3. /\ t.assigned = s.assigned \cup {v} /\ t.stack = stack /\ t.todo = s.todo \ {i}
        /\ t.size = s.size /\ t.loop = s.loop /\ t \in CollectStates(doc)
    BY <1>1, <1>3, <2>1, <2>2 DEF CollectStates
  <2>4. Collected(A, t) = Collected(A, s) /\ v \notin A
    BY <1>5, <2>2, <2>3 DEF Collected, CollectInv
  <2>5. Reaches(doc, v, start)
    <3>1. Reaches(doc, v, To(doc, i))
      BY <1>2, ReachIs DEF v
    <3>2. Reaches(doc, To(doc, i), start)
      BY <1>3 DEF CollectInv, Collected
    <3> QED BY <3>1, <3>2, ReachIs
  <2>6. \A j \in 1..n : j = n \/ j \in 1..Len(s.stack)
    BY <1>1
  <2>7. ASSUME NEW j \in 1..n
        PROVE  /\ stack[j] \in t.assigned \ A
               /\ \A k \in 1..n : j < k => stack[j] # stack[k]
    <3>1. stack[j] \in t.assigned \ A
      <4>1. CASE j = n
        BY <2>2, <2>3, <2>4, <4>1
      <4>2. CASE j # n
        BY <2>2, <2>3, <2>6, <4>2 DEF CollectInv
      <4> QED BY <4>1, <4>2
    <3>2. ASSUME NEW k \in 1..n, j < k PROVE stack[j] # stack[k]
      <4>1. j # n /\ j \in 1..Len(s.stack) /\ stack[j] = s.stack[j] /\ s.stack[j] \in s.assigned
        <5>1. j # n /\ j \in 1..Len(s.stack)
          BY <1>1, <3>2
        <5> QED BY <2>2, <5>1 DEF CollectInv
      <4>2. CASE k = n
        BY <1>5, <2>2, <4>1, <4>2
      <4>3. CASE k # n
        BY <2>2, <2>6, <3>2, <4>1, <4>3 DEF CollectInv
      <4> QED BY <4>2, <4>3
    <3> QED BY <3>1, <3>2
  <2>8. CollectInv(doc, A, start, t)
    <3>1. \A c \in t.assigned \ A : Reaches(doc, c, start)
      BY <2>3, <2>5 DEF CollectInv
    <3>2. A \subseteq t.assigned /\ start \in t.assigned
      BY <2>3 DEF CollectInv
    <3>3. /\ t.size = Cardinality(Collected(A, t))
          /\ t.loop <=> \E c \in Collected(A, t) : SelfLoop(doc, c)
      BY <2>3, <2>4 DEF CollectInv
    <3>4. /\ \A k \in t.todo : To(doc, k) \in Collected(A, t)
          /\ \A k \in Places(doc) :
               To(doc, k) \in Collected(A, t) => k \in t.todo \/ From(doc, k) \in t.assigned
      BY <2>3, <2>4 DEF CollectInv, v
    <3>5. \A j \in 1..Len(t.stack) :
            /\ t.stack[j] \in t.assigned \ A
            /\ \A k \in 1..Len(t.stack) : j < k => t.stack[j] # t.stack[k]
      BY <2>2, <2>3, <2>7
    <3> QED BY <3>1, <3>2, <3>3, <3>4, <3>5 DEF CollectInv
  <2>9. /\ Uncollected(doc, A, t) = Uncollected(doc, A, s)
        /\ Unfollowed(doc, A, t) = Unfollowed(doc, A, s) \ {i} /\ i \in Unfollowed(doc, A, s)
    BY <1>2, <1>3, <2>3, <2>4 DEF Uncollected, Unfollowed
  <2> QED BY <2>3, <2>8, <2>9 DEF t, OneLess
<1> QED BY <1>4, <1>5

\* A node of the component is taken from the stack, and its sources are to be followed.
LEMMA TakeStep ==
  ASSUME NEW doc, Proper(doc), NEW A, NEW start \in Nodes(doc), NEW s \in CollectStates(doc),
         CollectInv(doc, A, start, s), s.todo = {}, s.stack # <<>>
  PROVE  LET t == Collect(doc, s) IN
           /\ t \in CollectStates(doc) /\ CollectInv(doc, A, start, t)
           /\ \E v \in Uncollected(doc, A, s) : Uncollected(doc, A, t) = Uncollected(doc, A, s) \ {v}
           /\ Unfollowed(doc, A, t) = Unfollowed(doc, A, s)
<1> DEFINE n == Len(s.stack)
           v == s.stack[n]
           rest == Front(s.stack)
           t == Collect(doc, s)
<1>1. /\ s.assigned \subseteq Nodes(doc) /\ s.stack \in Seq(Nodes(doc)) /\ s.todo \subseteq Places(doc)
      /\ s.size \in Nat /\ s.loop \in BOOLEAN
      /\ s = [assigned |-> s.assigned, stack |-> s.stack, todo |-> s.todo,
              size |-> s.size, loop |-> s.loop]
  BY DEF CollectStates
<1>2. \A j, k \in 1..n : j < k => s.stack[j] # s.stack[k]
  BY DEF CollectInv
<1>3. /\ n \in Nat \ {0} /\ Last(s.stack) = v /\ v \in Nodes(doc)
      /\ rest \in Seq(Nodes(doc)) /\ Len(rest) = n - 1
      /\ \A j \in 1..(n - 1) : rest[j] = s.stack[j]
      /\ ToSet(rest) = ToSet(s.stack) \ {v} /\ v \in ToSet(s.stack)
  <2> DEFINE q == s.stack
  <2>1. q \in Seq(Nodes(doc)) /\ q # <<>> /\ \A j, k \in 1..Len(q) : j < k => q[j] # q[k]
    BY <1>1, <1>2
  <2> HIDE DEF q
  <2>2. /\ Len(q) \in Nat \ {0} /\ Last(q) = q[Len(q)] /\ q[Len(q)] \in Nodes(doc)
        /\ Front(q) \in Seq(Nodes(doc)) /\ Len(Front(q)) = Len(q) - 1
    BY <2>1, PopIs
  <2>3. /\ \A j \in 1..(Len(q) - 1) : Front(q)[j] = q[j]
        /\ ToSet(Front(q)) = ToSet(q) \ {q[Len(q)]} /\ q[Len(q)] \in ToSet(q)
    BY <2>1, PopIs
  <2> QED BY <2>2, <2>3 DEF q
<1>4. Incoming(doc, v) = {i \in Places(doc) : To(doc, i) = v}
  BY DEF Incoming, Places, To
<1> HIDE DEF rest, v
<1>5. t = [assigned |-> s.assigned, stack |-> rest, todo |-> Incoming(doc, v),
           size |-> s.size + 1, loop |-> s.loop \/ SelfLoop(doc, v)]
  BY <1>1, <1>3 DEF Collect, rest
<1> HIDE DEF t
<1>6. /\ t.assigned = s.assigned /\ t.stack = rest /\ t.size = s.size + 1
      /\ t.todo = {i \in Places(doc) : To(doc, i) = v}
      /\ (t.loop <=> s.loop \/ SelfLoop(doc, v))
  BY <1>4, <1>5
<1>7. t \in CollectStates(doc)
  <2>1. (s.loop \/ SelfLoop(doc, v)) \in BOOLEAN
    OBVIOUS
  <2>2. Incoming(doc, v) \subseteq Places(doc)
    BY <1>4
  <2> QED BY <1>1, <1>3, <1>5, <2>1, <2>2 DEF CollectStates
<1>8. v \in s.assigned \ A /\ \A j \in 1..(n - 1) : j \in 1..n
  <2>1. n \in 1..n /\ \A j \in 1..(n - 1) : j \in 1..n
    <3> HIDE DEF n
    <3> QED BY <1>3
  <2> QED BY <2>1 DEF CollectInv, v
<1>9. Collected(A, t) = Collected(A, s) \cup {v} /\ v \notin Collected(A, s)
  BY <1>3, <1>6, <1>8 DEF Collected
<1>10. IsFiniteSet(Collected(A, s)) /\ Cardinality(Collected(A, t)) = Cardinality(Collected(A, s)) + 1
  <2>1. Collected(A, s) \subseteq Nodes(doc) /\ IsFiniteSet(Nodes(doc))
    BY <1>1, ProperIs DEF Collected
  <2>2. IsFiniteSet(Collected(A, s))
    BY <2>1, FS_Subset
  <2> QED BY <1>9, <2>2, FS_AddElement
<1>11. ASSUME NEW j \in 1..Len(t.stack)
       PROVE  /\ t.stack[j] \in t.assigned \ A
              /\ \A k \in 1..Len(t.stack) : j < k => t.stack[j] # t.stack[k]
  <2>1. Len(t.stack) = n - 1 /\ \A k \in 1..(n - 1) : t.stack[k] = s.stack[k]
    BY <1>3, <1>6
  <2>2. t.stack[j] = s.stack[j] /\ j \in 1..n
    BY <1>8, <2>1
  <2> QED BY <1>2, <1>6, <1>8, <2>1, <2>2 DEF CollectInv
<1>12. CollectInv(doc, A, start, t)
  <2>1. A \subseteq t.assigned /\ start \in t.assigned /\ \A c \in t.assigned \ A : Reaches(doc, c, start)
    BY <1>6 DEF CollectInv
  <2>2. t.size = Cardinality(Collected(A, t))
    BY <1>6, <1>10 DEF CollectInv
  <2>3. t.loop <=> \E c \in Collected(A, t) : SelfLoop(doc, c)
    BY <1>6, <1>9 DEF CollectInv
  <2>4. /\ \A k \in t.todo : To(doc, k) \in Collected(A, t)
        /\ \A k \in Places(doc) :
             To(doc, k) \in Collected(A, t) => k \in t.todo \/ From(doc, k) \in t.assigned
    BY <1>6, <1>9 DEF CollectInv
  <2> QED BY <1>11, <2>1, <2>2, <2>3, <2>4 DEF CollectInv
<1>13. Uncollected(doc, A, t) = Uncollected(doc, A, s) \ {v} /\ v \in Uncollected(doc, A, s)
  BY <1>3, <1>9 DEF Uncollected
<1>14. Unfollowed(doc, A, t) = Unfollowed(doc, A, s)
  BY <1>6, <1>9 DEF Unfollowed
<1> QED BY <1>7, <1>12, <1>13, <1>14 DEF t

\* Every round does its part, until nothing is left.
LEMMA CollectStep ==
  ASSUME NEW doc, Proper(doc), NEW A, NEW start \in Nodes(doc), NEW s \in CollectStates(doc),
         CollectInv(doc, A, start, s)
  PROVE  LET t == Collect(doc, s) IN
           /\ t \in CollectStates(doc) /\ CollectInv(doc, A, start, t)
           /\ CollectLeft(doc, A, s) \in Nat
           /\ CollectOver(s) => t = s
           /\ ~CollectOver(s) => CollectLeft(doc, A, t) < CollectLeft(doc, A, s)
<1> DEFINE t == Collect(doc, s)
           a == Uncollected(doc, A, s)
           b == Unfollowed(doc, A, s)
<1>1. a \subseteq Nodes(doc) /\ b \subseteq Places(doc)
  BY DEF Uncollected, Unfollowed
<1>2. /\ Cardinality(a) \in Nat /\ \A x \in a : Cardinality(a \ {x}) = Cardinality(a) - 1
      /\ Cardinality(b) \in Nat /\ \A x \in b : Cardinality(b \ {x}) = Cardinality(b) - 1
  <2> HIDE DEF a, b
  <2> QED BY <1>1, LeftIs
<1>3. CollectLeft(doc, A, s) \in Nat
  BY <1>2 DEF CollectLeft
<1>4. CASE CollectOver(s)
  <2>1. t = s
    BY <1>4 DEF CollectOver, Collect
  <2> QED BY <1>3, <1>4, <2>1
<1>5. CASE s.todo # {}
  <2>1. /\ t \in CollectStates(doc) /\ CollectInv(doc, A, start, t)
        /\ Uncollected(doc, A, t) = a
        /\ \E i \in b : Unfollowed(doc, A, t) = b \ {i}
    <3>1. t \in CollectStates(doc) /\ CollectInv(doc, A, start, t)
      BY <1>5, FollowStep
    <3>2. Uncollected(doc, A, t) = a
      BY <1>5, FollowStep
    <3>3. OneLess(b, Unfollowed(doc, A, t))
      BY <1>5, FollowStep
    <3> HIDE DEF a, b, t
    <3> QED BY <3>1, <3>2, <3>3 DEF OneLess
  <2> HIDE DEF t, a, b
  <2>2. CollectLeft(doc, A, s) = Cardinality(a) + Cardinality(b)
    BY DEF CollectLeft, a, b
  <2>3. CollectLeft(doc, A, t) < CollectLeft(doc, A, s)
    BY <1>2, <2>1, <2>2 DEF CollectLeft
  <2> QED BY <1>3, <1>5, <2>1, <2>3 DEF t, CollectOver
<1>6. CASE s.todo = {} /\ s.stack # <<>>
  <2>1. /\ t \in CollectStates(doc) /\ CollectInv(doc, A, start, t)
        /\ \E v \in a : Uncollected(doc, A, t) = a \ {v}
        /\ Unfollowed(doc, A, t) = b
    BY <1>6, TakeStep
  <2> HIDE DEF t, a, b
  <2>2. CollectLeft(doc, A, s) = Cardinality(a) + Cardinality(b)
    BY DEF CollectLeft, a, b
  <2>3. CollectLeft(doc, A, t) < CollectLeft(doc, A, s)
    BY <1>2, <2>1, <2>2 DEF CollectLeft
  <2> QED BY <1>3, <1>6, <2>1, <2>3 DEF t, CollectOver
<1> QED BY <1>4, <1>5, <1>6 DEF CollectOver

\* The search over the reversed edges ends, with all that reaches start without passing
\* through what was assigned before.
LEMMA ComponentIs ==
  ASSUME NEW doc, Proper(doc), NEW A, A \subseteq Nodes(doc), NEW start \in Nodes(doc) \ A
  PROVE  LET c == Component(doc, A, start)  C == c.assigned \ A IN
           /\ A \subseteq c.assigned /\ c.assigned \subseteq Nodes(doc) /\ start \in C
           /\ \A x \in C : Reaches(doc, x, start)
           /\ \A i \in Places(doc) : To(doc, i) \in C => From(doc, i) \in c.assigned
           /\ c.size = Cardinality(C)
           /\ (c.loop <=> \E x \in C : SelfLoop(doc, x))
<1> DEFINE n == Rounds(doc)
           S == {s \in CollectStates(doc) : CollectInv(doc, A, start, s)}
           a == [assigned |-> A \cup {start}, stack |-> <<start>>, todo |-> {}, size |-> 0, loop |-> FALSE]
           g == [s \in S |-> Collect(doc, s)]
           mu == [s \in S |-> CollectLeft(doc, A, s)]
           over == {s \in S : CollectOver(s)}
           body(f) == [k \in 0..n |-> IF k = 0 THEN a ELSE Collect(doc, f[k - 1])]
           run == CHOOSE f : f = body(f)
           c == Component(doc, A, start)
<1>1. /\ n \in Nat /\ n = Len(doc.nodes) + Len(doc.edges)
      /\ Len(doc.nodes) \in Nat /\ Len(doc.edges) \in Nat
  BY ProperIs, Zenon
<1>2. a \in S /\ Collected(A, a) = {}
  <2>1. a \in CollectStates(doc)
    BY DEF CollectStates
  <2>2. /\ a.assigned = A \cup {start} /\ a.stack = <<start>> /\ a.todo = {}
        /\ a.size = 0 /\ a.loop = FALSE /\ Len(a.stack) = 1 /\ a.stack[1] = start
    OBVIOUS
  <2> HIDE DEF a
  <2>3. \A j \in 1..1 : j = 1
    OBVIOUS
  <2>4. ToSet(a.stack) = {start}
    <3>1. DOMAIN a.stack = 1..1 /\ 1 \in 1..1
      BY <2>2
    <3> QED BY <2>2, <2>3, <3>1 DEF ToSet
  <2>5. Collected(A, a) = {}
    BY <2>2, <2>4 DEF Collected
  <2>6. CollectInv(doc, A, start, a)
    BY <2>2, <2>3, <2>5, ReachIs, FS_EmptySet DEF CollectInv
  <2> QED BY <2>1, <2>5, <2>6
<1>3. ASSUME NEW s \in S
      PROVE  /\ Collect(doc, s) \in S /\ mu[s] \in Nat /\ mu[s] = CollectLeft(doc, A, s)
             /\ s \in over => Collect(doc, s) \in over
             /\ s \notin over => CollectLeft(doc, A, Collect(doc, s)) < mu[s]
  BY CollectStep
<1>4. mu[a] <= n
  <2>1. Uncollected(doc, A, a) = Nodes(doc) /\ Unfollowed(doc, A, a) = Places(doc)
    BY <1>2 DEF Uncollected, Unfollowed
  <2>2. Cardinality(Nodes(doc)) = Len(doc.nodes) /\ Cardinality(Places(doc)) = Len(doc.edges)
    BY ProperIs
  <2>3. CollectLeft(doc, A, a) = n
    BY <1>1, <2>1, <2>2 DEF CollectLeft
  <2>4. mu[a] = CollectLeft(doc, A, a)
    BY <1>2
  <2>5. n \in Nat
    BY <1>1
  <2> HIDE DEF n, mu, a
  <2> QED BY <2>3, <2>4, <2>5
<1>5. run = body(run)
  <2>1. g \in [S -> S]
    BY <1>3
  <2>2. PICK f : f \in Runs(S, a, g, n)
    <3>1. n \in Nat /\ a \in S
      BY <1>1, <1>2
    <3> HIDE DEF g, S, a, n
    <3>2. Runs(S, a, g, n) # {}
      BY <2>1, <3>1, RunExists
    <3> QED BY <3>2
  <2>3. ASSUME NEW k \in 0..n PROVE f[k] = body(f)[k]
    <3>1. CASE k = 0
      BY <2>2, <3>1 DEF Runs
    <3>2. CASE k # 0
      <4>1. k \in 1..n /\ k - 1 \in 0..n
        <5>1. n \in Nat
          BY <1>1
        <5> HIDE DEF n
        <5> QED BY <3>2, <5>1
      <4>2. f[k] = g[f[k - 1]] /\ f[k - 1] \in S
        BY <2>2, <4>1 DEF Runs
      <4>3. g[f[k - 1]] = Collect(doc, f[k - 1])
        BY <4>2
      <4> QED BY <3>2, <4>2, <4>3
    <3> QED BY <3>1, <3>2
  <2>4. f = body(f)
    <3>1. body(f) = [k \in 0..n |-> body(f)[k]] /\ f = [k \in 0..n |-> f[k]]
      BY <2>2 DEF Runs
    <3> HIDE DEF body
    <3> QED BY <2>3, <3>1
  <2> HIDE DEF body
  <2> QED BY <2>4
<1>6. c = run[n]
  BY DEF Component
<1> HIDE DEF run
<1>7. run[0] = a /\ \A i \in 1..n : run[i] = Collect(doc, run[i - 1])
  <2>1. \A k \in 0..n : run[k] = IF k = 0 THEN a ELSE Collect(doc, run[k - 1])
    BY <1>5
  <2>2. 0 \in 0..n /\ \A i \in 1..n : i \in 0..n /\ i # 0
    <3>1. n \in Nat
      BY <1>1
    <3> HIDE DEF n
    <3> QED BY <3>1
  <2> HIDE DEF a, n
  <2> QED BY <2>1, <2>2
<1>8. mu \in [S -> Nat]
  BY <1>3
<1>9. \A s \in S : mu[s] = 0 => s \in over
  <2> SUFFICES ASSUME NEW s \in S, mu[s] = 0, s \notin over PROVE FALSE
    OBVIOUS
  <2>1. Collect(doc, s) \in S /\ CollectLeft(doc, A, Collect(doc, s)) < 0
    BY <1>3
  <2>2. CollectLeft(doc, A, Collect(doc, s)) \in Nat
    BY <1>3, <2>1
  <2> QED BY <2>1, <2>2
<1>10. \A i \in 1..n : run[i - 1] \in S =>
         /\ run[i] \in S
         /\ run[i - 1] \in over => run[i] \in over
         /\ run[i - 1] \notin over => mu[run[i]] < mu[run[i - 1]]
  <2> HIDE DEF S, over, mu, n
  <2> QED BY <1>3, <1>7
<1>11. run[n] \in S /\ run[n] \in over
  <2>1. n \in Nat /\ run[0] \in S /\ mu[run[0]] <= n
    BY <1>1, <1>2, <1>4, <1>7
  <2> HIDE DEF S, over, mu, n, a
  <2> QED BY <1>8, <1>9, <1>10, <2>1, RunEnds, Zenon
<1> HIDE DEF c
<1>12. c \in CollectStates(doc) /\ CollectInv(doc, A, start, c) /\ CollectOver(c)
  BY <1>6, <1>11
<1>13. c.assigned \subseteq Nodes(doc) /\ c.todo = {} /\ ToSet(c.stack) = {}
  <2>1. c.stack = <<>> /\ DOMAIN <<>> = {}
    BY <1>12 DEF CollectOver
  <2> QED BY <1>12, <2>1 DEF CollectStates, CollectOver, ToSet
<1>14. Collected(A, c) = c.assigned \ A
  BY <1>13 DEF Collected
<1>15. /\ A \subseteq c.assigned /\ start \in c.assigned \ A
       /\ \A x \in c.assigned \ A : Reaches(doc, x, start)
  BY <1>12 DEF CollectInv
<1>16. \A i \in Places(doc) : To(doc, i) \in c.assigned \ A => From(doc, i) \in c.assigned
  BY <1>12, <1>13, <1>14 DEF CollectInv
<1>17. /\ c.size = Cardinality(c.assigned \ A)
       /\ (c.loop <=> \E x \in c.assigned \ A : SelfLoop(doc, x))
  BY <1>12, <1>14 DEF CollectInv
<1> QED BY <1>13, <1>15, <1>16, <1>17 DEF c

\* A set of nodes that no edge enters.
Upstream(doc, A) ==
  A \subseteq Nodes(doc) /\ \A i \in Places(doc) : To(doc, i) \in A => From(doc, i) \in A

\* What reaches such a set is in it.
LEMMA UpstreamIs ==
  ASSUME NEW doc, Proper(doc), NEW A, Upstream(doc, A), NEW v \in A, NEW w \in Nodes(doc),
         Reaches(doc, w, v)
  PROVE  w \in A
<1> DEFINE S == Nodes(doc) \ A
<1>1. \A i \in Places(doc) : From(doc, i) \in S => To(doc, i) \in S
  BY ProperIs DEF Upstream
<1>2. ASSUME w \notin A PROVE FALSE
  <2>1. w \in S /\ S \subseteq Nodes(doc) /\ v \notin S
    BY <1>2
  <2> HIDE DEF S
  <2> QED BY <1>1, <2>1, ReachIs
<1> QED BY <1>2

\* The classes are those of an equivalence.
LEMMA ClassIs ==
  ASSUME NEW doc, Proper(doc)
  PROVE  /\ \A v : Class(doc, v) = {w \in Nodes(doc) : Mutual(doc, v, w)}
         /\ \A v, w : w \in Class(doc, v) => Class(doc, w) = Class(doc, v)
         /\ \A v \in Nodes(doc) : v \in Class(doc, v)
<1>1. \A v : Class(doc, v) = {w \in Nodes(doc) : Mutual(doc, v, w)}
  BY DEF Class, Nodes, Mutual
<1>2. \A u, v, w : Mutual(doc, u, v) /\ Mutual(doc, v, w) => Mutual(doc, u, w)
  BY ReachIs DEF Mutual
<1>3. \A v, w : Mutual(doc, v, w) => Mutual(doc, w, v)
  BY DEF Mutual
<1>4. \A v : Mutual(doc, v, v)
  BY ReachIs DEF Mutual
<1> QED BY <1>1, <1>2, <1>3, <1>4

\* A search that starts at the last to finish of what is left assigns its class.
LEMMA ComponentIsClass ==
  ASSUME NEW doc, Proper(doc), NEW A, Upstream(doc, A),
         NEW p \in 1..Len(Finished(doc)), Finished(doc)[p] \notin A,
         \A q \in 1..Len(Finished(doc)) : p < q => Finished(doc)[q] \in A
  PROVE  LET c == Component(doc, A, Finished(doc)[p])  C == c.assigned \ A IN
           /\ C = Class(doc, Finished(doc)[p]) /\ Upstream(doc, c.assigned)
           /\ A \subseteq c.assigned
           /\ c.size = Cardinality(C)
           /\ (c.loop <=> \E x \in C : SelfLoop(doc, x))
<1> DEFINE F == Finished(doc)
           m == Len(F)
           start == F[p]
           c == Component(doc, A, start)
           C == c.assigned \ A
<1>1. /\ F \in Seq(Nodes(doc)) /\ m \in Nat /\ start \in Nodes(doc)
      /\ \A i, j \in 1..m : i < j => F[i] # F[j]
      /\ \A u \in Nodes(doc) : Closing(doc, F, u)
  <2>1. F \in Seq(Nodes(doc))
    BY FinishedIs
  <2>2. \A i, j \in 1..m : i < j => F[i] # F[j]
    BY FinishedIs
  <2>3. \A u \in Nodes(doc) : Closing(doc, F, u)
    BY FinishedIs
  <2> HIDE DEF F
  <2> QED BY <2>1, <2>2, <2>3 DEF F
<1>2. \A q \in 1..m : p < q => F[q] \in A
  OBVIOUS
<1>3. A \subseteq Nodes(doc) /\ start \in Nodes(doc) \ A
  BY <1>1 DEF Upstream
<1>4. /\ A \subseteq c.assigned /\ c.assigned \subseteq Nodes(doc) /\ start \in C
      /\ \A x \in C : Reaches(doc, x, start)
      /\ \A i \in Places(doc) : To(doc, i) \in C => From(doc, i) \in c.assigned
      /\ c.size = Cardinality(C)
      /\ (c.loop <=> \E x \in C : SelfLoop(doc, x))
  <2> HIDE DEF start
  <2> QED BY <1>3, ComponentIs
<1> HIDE DEF c, F, start
<1>5. Upstream(doc, c.assigned)
  BY <1>4 DEF Upstream
<1>6. ASSUME NEW x \in C PROVE Mutual(doc, x, start)
  <2>1. x \in Nodes(doc) /\ Reaches(doc, x, start)
    BY <1>4
  <2>2. PICK q \in 1..m : /\ Mutual(doc, x, F[q])
                          /\ \A v \in Nodes(doc) : Reaches(doc, x, v) => \E r \in 1..q : F[r] = v
    BY <1>1, <2>1 DEF Closing
  <2>3. PICK r \in 1..q : F[r] = start
    BY <1>1, <2>1, <2>2
  <2>4. r \in 1..m /\ q \in 1..m /\ p \in 1..m /\ r <= q
    BY <1>1, <2>2, <2>3 DEF F
  <2>5. r = p
    BY <1>1, <2>3, <2>4 DEF start
  <2>6. CASE p < q
    <3>1. F[q] \in A /\ Reaches(doc, x, F[q])
      BY <1>2, <2>2, <2>6 DEF Mutual
    <3>2. x \in A
      BY <2>1, <3>1, UpstreamIs
    <3> QED BY <3>2
  <2>7. CASE p = q
    BY <2>2, <2>7 DEF start
  <2> QED BY <2>4, <2>5, <2>6, <2>7
<1>7. ASSUME NEW w \in Nodes(doc), Mutual(doc, start, w) PROVE w \in C
  <2>1. w \in c.assigned
    BY <1>4, <1>5, <1>7, UpstreamIs DEF Mutual
  <2>2. w \notin A
    BY <1>1, <1>3, <1>7, UpstreamIs DEF Mutual
  <2> QED BY <2>1, <2>2
<1>8. C = Class(doc, start)
  <2>1. Class(doc, start) = {w \in Nodes(doc) : Mutual(doc, start, w)}
    BY ClassIs
  <2>2. \A x \in C : x \in Nodes(doc) /\ Mutual(doc, start, x)
    BY <1>4, <1>6 DEF Mutual
  <2> HIDE DEF C
  <2> QED BY <1>7, <2>1, <2>2
<1> QED BY <1>4, <1>5, <1>8 DEF c, start, F

\* A class is a cycle when it has two nodes or a self-loop.
LEMMA CyclicIs ==
  ASSUME NEW doc, Proper(doc), NEW v \in Nodes(doc)
  PROVE  LET C == Class(doc, v) IN
           (Cardinality(C) > 1 \/ \E x \in C : SelfLoop(doc, x)) <=> C \in Cycles(doc)
<1> DEFINE C == Class(doc, v)
<1>1. v \in C /\ C \subseteq Nodes(doc) /\ \A x \in C : C = Class(doc, x)
  BY ClassIs
<1>2. IsFiniteSet(C) /\ Cardinality(C) \in Nat
  BY <1>1, ProperIs, FS_Subset, FS_CardinalityType
<1>3. Round(doc) = {u \in Nodes(doc) : \E i \in Places(doc) : From(doc, i) = u /\ Reaches(doc, To(doc, i), u)}
  BY DEF Round, Nodes, Places, From, To, ToSet
<1>4. \A u, w \in C : Reaches(doc, u, w)
  <2>1. \A u, w \in C : Mutual(doc, u, w)
    BY <1>1, ClassIs
  <2> HIDE DEF C
  <2> QED BY <2>1 DEF Mutual
<1>5. \A x : SelfLoop(doc, x) <=> \E i \in Places(doc) : From(doc, i) = x /\ To(doc, i) = x
  BY DEF SelfLoop, Outgoing, Incoming, Places, From, To
<1>6. C \in Cycles(doc) <=> \E x \in C : x \in Round(doc)
  <2>1. ASSUME NEW x \in Round(doc), C = Class(doc, x) PROVE x \in C
    BY <1>3, <2>1, ClassIs
  <2>2. ASSUME NEW x \in C, x \in Round(doc) PROVE C \in Cycles(doc)
    BY <1>1, <2>2 DEF Cycles
  <2> QED BY <2>1, <2>2 DEF Cycles
<1>7. ASSUME NEW x \in C, x \in Round(doc), ~\E u \in C : SelfLoop(doc, u)
      PROVE  Cardinality(C) > 1
  <2>1. PICK i \in Places(doc) : From(doc, i) = x /\ Reaches(doc, To(doc, i), x)
    BY <1>3, <1>7
  <2>2. To(doc, i) # x
    BY <1>5, <1>7, <2>1
  <2>3. To(doc, i) \in C
    BY <1>1, <2>1, ProperIs, ReachIs, ClassIs DEF Mutual
  <2> DEFINE R == C \ {x}
  <2>4. IsFiniteSet(R) /\ Cardinality(R) = Cardinality(C) - 1
    BY <1>2, FS_RemoveElement
  <2>5. Cardinality(R) # 0 /\ Cardinality(R) \in Nat
    BY <2>2, <2>3, <2>4, FS_EmptySet, FS_CardinalityType
  <2> QED BY <1>2, <2>4, <2>5
<1>8. ASSUME Cardinality(C) > 1 PROVE v \in Round(doc)
  <2> DEFINE R == C \ {v}
  <2>1. IsFiniteSet(R) /\ Cardinality(R) = Cardinality(C) - 1
    BY <1>1, <1>2, FS_RemoveElement
  <2>2. R # {}
    <3>1. Cardinality(R) # 0
      BY <1>2, <1>8, <2>1
    <3> QED BY <2>1, <3>1, FS_EmptySet
  <2>3. PICK y \in C : y # v
    BY <2>2
  <2> DEFINE S == {v} \cup {w \in Nodes(doc) :
                              \E i \in Places(doc) : From(doc, i) = v /\ Reaches(doc, To(doc, i), w)}
  <2>4. ASSUME NEW i \in Places(doc), From(doc, i) \in S PROVE To(doc, i) \in S
    <3>1. To(doc, i) \in Nodes(doc) /\ Reaches(doc, To(doc, i), To(doc, i))
          /\ Reaches(doc, From(doc, i), To(doc, i))
      BY ProperIs, ReachIs
    <3>2. CASE From(doc, i) = v
      BY <3>1, <3>2
    <3>3. CASE From(doc, i) # v
      BY <2>4, <3>1, <3>3, ReachIs
    <3> QED BY <3>2, <3>3
  <2>5. S \subseteq Nodes(doc) /\ v \in S
    OBVIOUS
  <2>6. y \in S
    <3>1. Reaches(doc, v, y)
      BY <1>1, <1>4
    <3> HIDE DEF S
    <3> QED BY <2>4, <2>5, <3>1, ReachIs
  <2>7. PICK i \in Places(doc) : From(doc, i) = v /\ Reaches(doc, To(doc, i), y)
    BY <2>3, <2>6
  <2>8. Reaches(doc, To(doc, i), v)
    BY <1>1, <1>4, <2>7, ReachIs
  <2> QED BY <1>3, <2>7, <2>8
<1>9. ASSUME NEW x \in C, SelfLoop(doc, x) PROVE x \in Round(doc)
  BY <1>1, <1>3, <1>5, <1>9, ReachIs
<1> HIDE DEF C
<1> QED BY <1>1, <1>6, <1>7, <1>8, <1>9 DEF C

Scans(S, a, g, n) == {f \in [0..n -> S] : f[0] = a /\ \A i \in 1..n : f[i] = g[i][f[i - 1]]}

\* A loop over a list, whose round number i has a body of its own.
LEMMA ScanExists ==
  ASSUME NEW S, NEW a \in S, NEW n \in Nat, NEW g \in [1..n -> [S -> S]]
  PROVE  Scans(S, a, g, n) # {}
<1> DEFINE T == Nat \X S
           b == <<0, a>>
           h == [x \in T |-> <<x[1] + 1, IF x[1] + 1 \in 1..n THEN g[x[1] + 1][x[2]] ELSE a>>]
<1>1. b \in T /\ h \in [T -> T]
  <2>1. ASSUME NEW x \in T
        PROVE  <<x[1] + 1, IF x[1] + 1 \in 1..n THEN g[x[1] + 1][x[2]] ELSE a>> \in T
    OBVIOUS
  <2> QED BY <2>1
<1>2. PICK f : f \in Runs(T, b, h, n)
  <2> HIDE DEF T, b, h
  <2>1. Runs(T, b, h, n) # {}
    BY <1>1, RunExists
  <2> QED BY <2>1
<1>3. /\ f \in [0..n -> T] /\ f[0] = b
      /\ \A i \in 1..n : f[i - 1] \in T /\ f[i] = h[f[i - 1]] /\ f[i] \in T
  <2>1. \A i \in 1..n : i - 1 \in 0..n /\ i \in 0..n
    OBVIOUS
  <2> HIDE DEF T, b, h
  <2> QED BY <1>2, <2>1 DEF Runs
<1>4. \A i \in 0..n : f[i][1] = i
  <2> DEFINE at == [i \in 0..n |-> i]
             right == {i \in 0..n : f[i][1] = i}
  <2>1. at[0] \in right
    BY <1>3
  <2>2. ASSUME NEW i \in 1..n, at[i - 1] \in right PROVE at[i] \in right
    <3>1. i - 1 \in 0..n /\ i \in 0..n /\ f[i - 1][1] = i - 1
      BY <2>2
    <3>2. f[i] = <<f[i - 1][1] + 1, IF f[i - 1][1] + 1 \in 1..n THEN g[f[i - 1][1] + 1][f[i - 1][2]] ELSE a>>
      BY <1>3
    <3>3. f[i][1] = i
      BY <3>1, <3>2
    <3> QED BY <3>1, <3>3
  <2>3. \A i \in 0..n : at[i] \in right
    <3> HIDE DEF at, right
    <3> QED BY <2>1, <2>2, RunStays
  <2> QED BY <2>3
<1> DEFINE e == [i \in 0..n |-> f[i][2]]
<1>5. e \in [0..n -> S]
  BY <1>3
<1>6. e[0] = a
  BY <1>3
<1>7. ASSUME NEW i \in 1..n PROVE e[i] = g[i][e[i - 1]]
  <2>1. i - 1 \in 0..n /\ i \in 0..n /\ (i - 1) + 1 = i
    OBVIOUS
  <2>2. f[i - 1] \in T /\ f[i - 1][1] = i - 1 /\ f[i] = h[f[i - 1]]
    BY <1>3, <1>4, <2>1
  <2>3. f[i][2] = g[i][f[i - 1][2]]
    BY <2>1, <2>2
  <2> QED BY <2>1, <2>3
<1>8. e \in Scans(S, a, g, n)
  <2> HIDE DEF e
  <2> QED BY <1>5, <1>6, <1>7 DEF Scans
<1> QED BY <1>8

-------------------------------------------------------------------------------
(* The count of the cycles.                                                *)

Tallies(doc) == [assigned : SUBSET Nodes(doc), count : Nat]
Within(doc, A) == {K \in Cycles(doc) : K \subseteq A}

\* They are finitely many.
LEMMA WithinIs ==
  ASSUME NEW doc, Proper(doc), NEW A
  PROVE  IsFiniteSet(Within(doc, A)) /\ Cardinality(Within(doc, A)) \in Nat
<1>1. Within(doc, A) \subseteq SUBSET Nodes(doc)
  BY DEF Within, Cycles, Class, Nodes
<1>2. IsFiniteSet(Within(doc, A))
  BY <1>1, ProperIs, FS_SUBSET, FS_Subset
<1> QED BY <1>2, FS_CardinalityType

\* A start leaves a tally a tally.
LEMMA TallyType ==
  ASSUME NEW doc, Proper(doc), NEW s \in Tallies(doc), NEW start \in Nodes(doc)
  PROVE  Tally(doc, s, start) \in Tallies(doc)
<1> DEFINE c == Component(doc, s.assigned, start)
<1>1. CASE start \in s.assigned
  BY <1>1 DEF Tally
<1>2. CASE start \notin s.assigned
  <2>1. c.assigned \subseteq Nodes(doc)
    <3>1. s.assigned \subseteq Nodes(doc) /\ start \in Nodes(doc) \ s.assigned
      BY <1>2 DEF Tallies
    <3> QED BY <3>1, ComponentIs
  <2> HIDE DEF c
  <2>2. s.count \in Nat
    BY DEF Tallies
  <2>3. (IF c.size > 1 \/ c.loop THEN s.count + 1 ELSE s.count) \in Nat
    BY <2>2
  <2>4. Tally(doc, s, start) =
          [assigned |-> c.assigned, count |-> IF c.size > 1 \/ c.loop THEN s.count + 1 ELSE s.count]
    BY <1>2 DEF Tally, c
  <2> QED BY <2>1, <2>3, <2>4 DEF Tallies
<1> QED BY <1>1, <1>2

\* After the first k starts.
TallyInv(doc, s, k) ==
  /\ s \in Tallies(doc) /\ Upstream(doc, s.assigned)
  /\ \A p \in 1..Len(Finished(doc)) : Len(Finished(doc)) - k < p => Finished(doc)[p] \in s.assigned
  /\ s.count = Cardinality(Within(doc, s.assigned))

\* A start adds its class to what is assigned, and counts it when it is a cycle.
LEMMA TallyStep ==
  ASSUME NEW doc, Proper(doc), NEW k \in 1..Len(Finished(doc)), NEW s, TallyInv(doc, s, k - 1)
  PROVE  TallyInv(doc, Tally(doc, s, Finished(doc)[Len(Finished(doc)) - k + 1]), k)
<1> DEFINE F == Finished(doc)
           m == Len(F)
           p == m - k + 1
           start == F[p]
           t == Tally(doc, s, start)
           A == s.assigned
           c == Component(doc, A, start)
           C == c.assigned \ A
<1>1. F \in Seq(Nodes(doc))
  BY FinishedIs
<1>2. /\ m \in Nat /\ p \in 1..m /\ start \in Nodes(doc) /\ m - (k - 1) = p /\ m - k = p - 1
  <2>1. k \in 1..m
    OBVIOUS
  <2> HIDE DEF F
  <2>2. m \in Nat
    BY <1>1
  <2>3. p \in 1..m /\ m - (k - 1) = p /\ m - k = p - 1
    <3> HIDE DEF m
    <3> QED BY <2>1, <2>2
  <2> HIDE DEF p
  <2> QED BY <1>1, <2>2, <2>3
<1> HIDE DEF F, p, start
<1>3. \A q \in 1..m : m - k < q <=> (q = p \/ m - (k - 1) < q)
  <2> HIDE DEF m
  <2> QED BY <1>2
<1>4. /\ s \in Tallies(doc) /\ A \in SUBSET Nodes(doc) /\ s.count \in Nat /\ Upstream(doc, A)
      /\ \A q \in 1..m : m - (k - 1) < q => F[q] \in A
      /\ s.count = Cardinality(Within(doc, A))
  BY DEF TallyInv, Tallies, F
<1>5. CASE start \in A
  <2>1. t = s
    BY <1>5 DEF Tally
  <2>2. \A q \in 1..m : m - k < q => F[q] \in A
    BY <1>3, <1>4, <1>5 DEF start
  <2> QED BY <1>4, <2>1, <2>2 DEF TallyInv, F, start, p
<1>6. CASE start \notin A
  <2>1. /\ C = Class(doc, start) /\ Upstream(doc, c.assigned) /\ A \subseteq c.assigned
        /\ c.size = Cardinality(C)
        /\ (c.loop <=> \E x \in C : SelfLoop(doc, x))
    <3>1. \A q \in 1..m : p < q => F[q] \in A
      BY <1>2, <1>4
    <3>2. /\ p \in 1..Len(Finished(doc)) /\ Finished(doc)[p] \notin A /\ Upstream(doc, A)
          /\ \A q \in 1..Len(Finished(doc)) : p < q => Finished(doc)[q] \in A
      BY <1>2, <1>4, <1>6, <3>1 DEF F, start
    <3>3. C = Class(doc, start) /\ Upstream(doc, c.assigned) /\ A \subseteq c.assigned
      BY <3>2, ComponentIsClass DEF F, start
    <3>4. c.size = Cardinality(C)
      BY <3>2, ComponentIsClass DEF F, start
    <3>5. c.loop <=> \E x \in C : SelfLoop(doc, x)
      BY <3>2, ComponentIsClass DEF F, start
    <3> QED BY <3>3, <3>4, <3>5
  <2> HIDE DEF c
  <2>2. start \in C /\ c.assigned = A \cup C
    BY <1>2, <2>1, ClassIs
  <2>3. c.size > 1 \/ c.loop <=> C \in Cycles(doc)
    BY <1>2, <2>1, CyclicIs
  <2>4. Within(doc, c.assigned) = Within(doc, A) \cup (IF C \in Cycles(doc) THEN {C} ELSE {})
    <3>1. ASSUME NEW K \in Cycles(doc), K \subseteq c.assigned
          PROVE  K \subseteq A \/ K = C
      <4>1. PICK v \in Nodes(doc) : K = Class(doc, v)
        BY DEF Cycles, Round, Nodes
      <4>2. v \in K
        BY <4>1, ClassIs
      <4>3. CASE v \in A
        <5>1. \A w \in K : w \in Nodes(doc) /\ Reaches(doc, w, v)
          BY <4>1, ClassIs DEF Mutual
        <5> QED BY <1>4, <4>3, <5>1, UpstreamIs
      <4>4. CASE v \in C
        BY <2>1, <4>1, <4>4, ClassIs
      <4> QED BY <2>2, <3>1, <4>2, <4>3, <4>4
    <3> HIDE DEF C
    <3> QED BY <2>2, <3>1 DEF Within
  <2>5. C \notin Within(doc, A)
    BY <2>2 DEF Within, C
  <2> DEFINE x == IF c.size > 1 \/ c.loop THEN s.count + 1 ELSE s.count
  <2>6. x = Cardinality(Within(doc, c.assigned)) /\ x \in Nat
    <3> HIDE DEF C
    <3>1. CASE C \in Cycles(doc)
      <4>1. Cardinality(Within(doc, c.assigned)) = Cardinality(Within(doc, A)) + 1
        BY <2>4, <2>5, <3>1, WithinIs, FS_AddElement
      <4> QED BY <1>4, <2>3, <3>1, <4>1
    <3>2. CASE C \notin Cycles(doc)
      <4>1. Within(doc, c.assigned) = Within(doc, A)
        BY <2>4, <3>2
      <4> QED BY <1>4, <2>3, <3>2, <4>1
    <3> QED BY <3>1, <3>2
  <2>7. t = [assigned |-> c.assigned, count |-> x]
    BY <1>6 DEF Tally, c
  <2> HIDE DEF x, t
  <2>8. t.assigned = c.assigned /\ t.count = x
    BY <2>7
  <2>9. t \in Tallies(doc)
    BY <2>1, <2>6, <2>7 DEF Tallies, Upstream
  <2>10. \A q \in 1..m : m - k < q => F[q] \in c.assigned
    BY <1>3, <1>4, <2>1, <2>2 DEF start
  <2>11. TallyInv(doc, t, k)
    BY <2>1, <2>6, <2>8, <2>9, <2>10 DEF TallyInv, F
  <2> QED BY <2>11 DEF t, start, p, F
<1> QED BY <1>5, <1>6

\* The count is that of the cycles.
LEMMA CyclicComponentsAre ==
  ASSUME NEW doc, Proper(doc)
  PROVE  CyclicComponents(doc) = Cardinality(Cycles(doc))
<1> DEFINE F == Finished(doc)
           m == Len(F)
           order == Reverse(F)
           n == Len(order)
           S == Tallies(doc)
           a == [assigned |-> {}, count |-> 0]
           g == [i \in 1..n |-> [s \in S |-> Tally(doc, s, order[i])]]
           body(f) == [k \in 0..n |-> IF k = 0 THEN a ELSE Tally(doc, f[k - 1], order[k])]
           run == CHOOSE f : f = body(f)
<1>1. F \in Seq(Nodes(doc)) /\ \A v \in Nodes(doc) : \E p \in 1..m : F[p] = v
  <2>1. F \in Seq(Nodes(doc))
    BY FinishedIs
  <2>2. \A v \in Nodes(doc) : \E p \in 1..m : F[p] = v
    BY FinishedIs
  <2> QED BY <2>1, <2>2
<1>2. /\ m \in Nat /\ n = m
      /\ \A i \in 1..n : order[i] = F[m - i + 1] /\ order[i] \in Nodes(doc)
  <2> HIDE DEF F
  <2>1. m \in Nat
    BY <1>1
  <2>2. order = [i \in 1..m |-> F[(m - i) + 1]]
    BY DEF Reverse
  <2>3. ASSUME NEW i \in 1..m PROVE F[(m - i) + 1] \in Nodes(doc)
    <3>1. (m - i) + 1 \in 1..m
      <4> HIDE DEF m
      <4> QED BY <2>1
    <3> QED BY <1>1, <3>1
  <2>4. order \in [1..m -> Nodes(doc)]
    BY <2>2, <2>3
  <2>5. n = m
    <3>1. order \in Seq(Nodes(doc)) /\ DOMAIN order = 1..m
      <4> HIDE DEF order, m
      <4> QED BY <2>1, <2>4, SeqDef
    <3> HIDE DEF order, m
    <3> QED BY <2>1, <3>1
  <2> HIDE DEF m, n
  <2> QED BY <2>1, <2>2, <2>3, <2>5
<1> HIDE DEF order
<1>3. a \in S /\ TallyInv(doc, a, 0)
  <2>1. a \in S
    BY DEF Tallies
  <2>2. Upstream(doc, {})
    BY DEF Upstream
  <2>3. Within(doc, {}) = {}
    <3>1. ASSUME NEW K \in Cycles(doc) PROVE K # {}
      BY ClassIs DEF Cycles, Round, Nodes
    <3> QED BY <3>1 DEF Within
  <2>4. a.assigned = {} /\ a.count = 0
    OBVIOUS
  <2>5. \A p \in 1..m : ~(m - 0 < p)
    <3> HIDE DEF m
    <3> QED BY <1>2
  <2> HIDE DEF a, S
  <2> QED BY <2>1, <2>2, <2>3, <2>4, <2>5, FS_EmptySet DEF TallyInv, S
<1>4. n \in Nat /\ g \in [1..n -> [S -> S]]
  <2>1. ASSUME NEW i \in 1..n, NEW s \in S PROVE Tally(doc, s, order[i]) \in S
    BY <1>2, TallyType
  <2> QED BY <1>2, <2>1
<1>5. run = body(run)
  <2>1. PICK f : f \in Scans(S, a, g, n)
    <3> HIDE DEF g, S, a, n
    <3>1. Scans(S, a, g, n) # {}
      BY <1>3, <1>4, ScanExists
    <3> QED BY <3>1
  <2>2. ASSUME NEW k \in 0..n PROVE f[k] = body(f)[k]
    <3>1. CASE k = 0
      BY <2>1, <3>1 DEF Scans
    <3>2. CASE k # 0
      <4>1. k \in 1..n /\ k - 1 \in 0..n
        <5> HIDE DEF n
        <5> QED BY <1>4, <3>2
      <4>2. f[k] = g[k][f[k - 1]] /\ f[k - 1] \in S
        BY <2>1, <4>1 DEF Scans
      <4>3. g[k][f[k - 1]] = Tally(doc, f[k - 1], order[k])
        BY <4>1, <4>2
      <4> QED BY <3>2, <4>2, <4>3
    <3> QED BY <3>1, <3>2
  <2>3. f = body(f)
    <3>1. body(f) = [k \in 0..n |-> body(f)[k]] /\ f = [k \in 0..n |-> f[k]]
      BY <2>1 DEF Scans
    <3> HIDE DEF body
    <3> QED BY <2>2, <3>1
  <2> HIDE DEF body
  <2> QED BY <2>3
<1>6. CyclicComponents(doc) = run[n].count
  BY DEF CyclicComponents, order
<1> HIDE DEF run
<1>7. run[0] = a /\ \A i \in 1..n : run[i] = Tally(doc, run[i - 1], order[i])
  <2>1. \A k \in 0..n : run[k] = IF k = 0 THEN a ELSE Tally(doc, run[k - 1], order[k])
    BY <1>5
  <2>2. 0 \in 0..n /\ \A i \in 1..n : i \in 0..n /\ i # 0
    <3> HIDE DEF n
    <3> QED BY <1>4
  <2> HIDE DEF a, n
  <2> QED BY <2>1, <2>2
<1>8. TallyInv(doc, run[n], n)
  <2> DEFINE T == {x \in Nat \X S : TallyInv(doc, x[2], x[1])}
             h == [i \in 0..n |-> <<i, run[i]>>]
  <2>1. h[0] \in T
    <3>1. 0 \in 0..n
      <4> HIDE DEF n
      <4> QED BY <1>4
    <3>2. h[0] = <<0, a>>
      BY <1>7, <3>1
    <3> QED BY <1>3, <3>2
  <2>2. ASSUME NEW i \in 1..n, h[i - 1] \in T PROVE h[i] \in T
    <3>1. i - 1 \in 0..n /\ i \in 0..n /\ i \in Nat
      <4> HIDE DEF n
      <4> QED BY <1>4
    <3>2. h[i - 1] = <<i - 1, run[i - 1]>> /\ h[i] = <<i, run[i]>>
      BY <3>1
    <3>3. TallyInv(doc, run[i - 1], i - 1) /\ run[i - 1] \in S
      BY <2>2, <3>2
    <3>4. run[i] = Tally(doc, run[i - 1], F[m - i + 1]) /\ i \in 1..m
      BY <1>2, <1>7
    <3>5. TallyInv(doc, run[i], i)
      BY <3>3, <3>4, TallyStep
    <3>6. run[i] \in S
      BY <3>5 DEF TallyInv
    <3> QED BY <3>1, <3>2, <3>5, <3>6
  <2>3. \A i \in 0..n : h[i] \in T
    <3> HIDE DEF h, T, n
    <3> QED BY <1>4, <2>1, <2>2, RunStays
  <2>4. n \in 0..n
    <3> HIDE DEF n
    <3> QED BY <1>4
  <2>5. h[n] = <<n, run[n]>> /\ h[n] \in T
    BY <2>3, <2>4
  <2> QED BY <2>5
<1> DEFINE s == run[n]
<1> HIDE DEF s
<1>9. TallyInv(doc, s, n)
  BY <1>8 DEF s
<1>10. \A p \in 1..m : m - n < p
  <2> HIDE DEF m, n
  <2> QED BY <1>2
<1>11. Nodes(doc) \subseteq s.assigned /\ s.count = Cardinality(Within(doc, s.assigned))
  BY <1>1, <1>9, <1>10 DEF TallyInv
<1>12. Within(doc, s.assigned) = Cycles(doc)
  BY <1>11 DEF Within, Cycles, Class, Nodes
<1> QED BY <1>6, <1>11, <1>12 DEF s

\* The greatest element of a set of naturals below a bound.
LEMMA MaxIs ==
  ASSUME NEW S, S \subseteq Nat, S # {}, NEW n \in Nat, \A x \in S : x <= n
  PROVE  Max(S) \in S /\ \A y \in S : y <= Max(S)
<1> DEFINE D == {d \in Nat : \E x \in S : d = n - x}
<1>1. D \subseteq Nat /\ D # {}
  <2>1. PICK x \in S : x \in Nat /\ x <= n
    OBVIOUS
  <2>2. n - x \in D
    BY <2>1
  <2> QED
    BY <2>2
<1>2. PICK d \in D : \A e \in D : d <= e
  BY <1>1, LeastOf
<1>3. PICK x \in S : d = n - x
  OBVIOUS
<1>4. \A y \in S : y <= x
  <2> TAKE y \in S
  <2>1. n - y \in D
    OBVIOUS
  <2> HIDE DEF D
  <2>2. n - x <= n - y /\ x \in Nat /\ y \in Nat
    BY <1>2, <1>3, <2>1
  <2> QED
    BY <2>2
<1>5. \E m \in S : \A y \in S : m >= y
  BY <1>4
<1> QED
  BY <1>5 DEF Max

\* An element that no other exceeds is the maximum.
LEMMA MaxOf ==
  ASSUME NEW S, S \subseteq Nat, NEW x \in S, \A y \in S : y <= x
  PROVE  Max(S) = x
<1>1. x \in Nat /\ Max(S) \in S /\ x <= Max(S)
  BY MaxIs
<1> DEFINE m == Max(S)
<1>2. m \in Nat /\ m <= x /\ x <= m
  BY <1>1
<1> HIDE DEF m
<1>3. m = x
  BY <1>1, <1>2
<1> QED BY <1>3 DEF m

\* The columns and edges rust-orm demands of a resolved graph are what the graph means.
LEMMA ResolvedRight ==
  ASSUME NEW doc, doc.view = "resolved", Listed(doc), NEW claim
  PROVE  Valid(doc, claim) <=> Connected(doc) /\ claim = Meaning(doc)
<1>1. ASSUME ~Proper(doc) PROVE ~Valid(doc, claim) /\ ~Connected(doc)
  BY <1>1 DEF Proper, Valid, Connected, Sound
<1>2. ASSUME Proper(doc)
      PROVE  /\ Len(doc.roots) = 1 /\ Sound(doc) <=> Connected(doc)
             /\ Connected(doc) => Projection(doc) = Meaning(doc)
  <2> DEFINE depth == Depths(doc)
             n == Len(doc.nodes)
             D == {depth[v] : v \in Nodes(doc)}
             deepest == Max({0} \cup {depth[v] : v \in DOMAIN depth})
             distance == [v \in ToSet(doc.nodes) |-> Min(Distances(doc, v))]
             farthest == Max({distance[v] : v \in ToSet(doc.nodes)})
  <2>1. /\ DOMAIN depth = {v \in Nodes(doc) : Distances(doc, v) # {}}
        /\ depth = [v \in DOMAIN depth |-> depth[v]]
    BY <1>2, DepthsAre
  <2>2. \A v \in DOMAIN depth :
          depth[v] \in Distances(doc, v) /\ \A d \in Distances(doc, v) : depth[v] <= d
    BY <1>2, DepthsAre
  <2>3. Connected(doc) <=> \A v \in Nodes(doc) : Distances(doc, v) # {}
    BY <1>2 DEF Connected, Proper, Nodes
  <2>4. Len(doc.roots) = 1 /\ (Sound(doc) <=> DOMAIN depth = Nodes(doc))
    BY <1>2 DEF Sound, Proper, Nodes
  <2> HIDE DEF depth
  <2>5. Len(doc.roots) = 1 /\ Sound(doc) <=> Connected(doc)
    BY <2>1, <2>3, <2>4
  <2>6. ASSUME Connected(doc) PROVE Projection(doc) = Meaning(doc)
    <3>1. DOMAIN depth = Nodes(doc) /\ depth = [v \in Nodes(doc) |-> depth[v]]
      BY <2>1, <2>3, <2>6
    <3>2. /\ n \in Nat /\ Cardinality(Nodes(doc)) = n /\ doc.roots[1] \in Nodes(doc)
          /\ \A i \in Places(doc) : To(doc, i) \in Nodes(doc)
      BY <1>2, ProperIs
    <3>3. ASSUME NEW v \in Nodes(doc)
          PROVE  depth[v] \in Nat /\ depth[v] <= n /\ Min(Distances(doc, v)) = depth[v]
      <4>1. Distances(doc, v) \subseteq Nat /\ \A d \in Distances(doc, v) : d \in Nat /\ d <= n
        <5> HIDE DEF n
        <5> QED BY <3>2 DEF Distances, n
      <4>2. depth[v] \in Distances(doc, v) /\ \A d \in Distances(doc, v) : depth[v] <= d
        BY <2>2, <3>1
      <4>3. Min(Distances(doc, v)) \in Distances(doc, v) /\ Min(Distances(doc, v)) <= depth[v]
        BY <4>1, <4>2, MinIs
      <4> QED BY <4>1, <4>2, <4>3
    <3>4. distance = depth
      <4>1. distance = [v \in Nodes(doc) |-> Min(Distances(doc, v))]
        BY DEF Nodes
      <4> HIDE DEF distance
      <4> QED BY <3>1, <3>3, <4>1
    <3> HIDE DEF n, distance
    <3>5. D \subseteq Nat /\ D # {} /\ \A x \in D : x <= n
      BY <3>2, <3>3
    <3>6. farthest = Max(D) /\ Max(D) \in D /\ \A x \in D : x <= Max(D)
      <4>1. farthest = Max(D)
        BY <3>4 DEF Nodes
      <4> HIDE DEF D, farthest
      <4> QED BY <3>2, <3>5, <4>1, MaxIs
    <3> HIDE DEF farthest
    <3>7. deepest = farthest /\ farthest \in Nat
      <4>1. {depth[v] : v \in DOMAIN depth} = D
        BY <3>1
      <4> HIDE DEF D
      <4> DEFINE Z == {0} \cup D
      <4>2. farthest \in D /\ farthest \in Nat /\ \A x \in D : x \in Nat /\ x <= farthest
        BY <3>5, <3>6
      <4>4. Z \subseteq Nat /\ farthest \in Z /\ \A x \in Z : x <= farthest
        BY <4>2
      <4> HIDE DEF Z
      <4>3. Max(Z) = farthest
        BY <4>4, MaxOf
      <4> QED BY <4>1, <4>2, <4>3 DEF Z
    <3> HIDE DEF deepest
    <3>8. \A x \in Nat : Max({1, x}) = AtLeastOne(x)
      <4> TAKE x \in Nat
      <4> DEFINE Z == {1, x}
      <4>1. AtLeastOne(x) \in Z /\ Z \subseteq Nat /\ \A y \in Z : y <= AtLeastOne(x)
        BY DEF AtLeastOne
      <4> HIDE DEF Z
      <4>2. Max(Z) = AtLeastOne(x)
        BY <4>1, MaxOf
      <4> QED BY <4>2 DEF Z
    <3> DEFINE E == {AtLeastOne(0) : e \in ToSet(doc.edges)}
    <3>9. Max({farthest} \cup E) = IF doc.edges = <<>> THEN deepest ELSE AtLeastOne(deepest)
      <4>1. CASE doc.edges = <<>>
        <5>1. E = {}
          BY <4>1 DEF ToSet
        <5> HIDE DEF E
        <5> DEFINE Z == {farthest} \cup E
        <5>2. Z \subseteq Nat /\ farthest \in Z /\ \A y \in Z : y <= farthest
          BY <3>7, <5>1
        <5> HIDE DEF Z
        <5>3. Max(Z) = farthest
          BY <5>2, MaxOf
        <5> QED BY <3>7, <4>1, <5>3 DEF Z
      <4>2. CASE doc.edges # <<>>
        <5>1. doc.edges \in Seq(ToSet(doc.edges))
          BY <1>2 DEF Proper, Listed
        <5>2. 1 \in DOMAIN doc.edges
          BY <4>2, <5>1
        <5>3. E = {1}
          BY <5>2 DEF ToSet, AtLeastOne
        <5> HIDE DEF E
        <5>4. {farthest} \cup E = {1, farthest}
          BY <5>3
        <5> QED BY <3>7, <3>8, <4>2, <5>4
      <4> QED BY <4>1, <4>2
    <3>10. \A i \in Places(doc) :
             /\ doc.edges[i][2] \in Nodes(doc)
             /\ Max({1, distance[doc.edges[i][2]]}) = AtLeastOne(depth[doc.edges[i][2]])
      <4>1. \A i \in Places(doc) : doc.edges[i][2] \in Nodes(doc)
        BY <3>2 DEF To
      <4> QED BY <3>3, <3>4, <3>8, <4>1
    <3>11. [i \in DOMAIN doc.edges |->
              [from |-> doc.edges[i][1], to |-> doc.edges[i][2],
               depth |-> Max({1, distance[doc.edges[i][2]]})]]
           = [i \in DOMAIN doc.edges |->
                [from |-> doc.edges[i][1], to |-> doc.edges[i][2],
                 depth |-> AtLeastOne(depth[doc.edges[i][2]])]]
      BY <3>10 DEF Places
    <3>12. Projection(doc) =
             [nodes |-> Len(doc.nodes),
              depth |-> IF doc.edges = <<>> THEN deepest ELSE AtLeastOne(deepest),
              cycles |-> CyclicComponents(doc),
              edges |-> [i \in DOMAIN doc.edges |->
                           [from |-> doc.edges[i][1], to |-> doc.edges[i][2],
                            depth |-> AtLeastOne(depth[doc.edges[i][2]])]]]
      BY DEF Projection, deepest, depth
    <3>13. Meaning(doc) =
             [nodes |-> Cardinality(ToSet(doc.nodes)),
              depth |-> Max({farthest} \cup E),
              cycles |-> Cardinality(Cycles(doc)),
              edges |-> [i \in DOMAIN doc.edges |->
                           [from |-> doc.edges[i][1], to |-> doc.edges[i][2],
                            depth |-> Max({1, distance[doc.edges[i][2]]})]]]
      BY DEF Meaning, farthest, distance
    <3>14. CyclicComponents(doc) = Cardinality(Cycles(doc)) /\ Cardinality(ToSet(doc.nodes)) = Len(doc.nodes)
      BY <1>2, <3>2, CyclicComponentsAre DEF Nodes, n
    <3> QED BY <3>9, <3>11, <3>12, <3>13, <3>14
  <2> QED BY <2>5, <2>6
<1>3. Valid(doc, claim) <=> Len(doc.roots) = 1 /\ Sound(doc) /\ claim = Projection(doc)
  BY DEF Valid
<1> QED BY <1>1, <1>2, <1>3

-------------------------------------------------------------------------------
(* The transactions.                                                       *)

\* A row's package is there, for as long as the row is; rows go by removals only.
RowsInv ==
  /\ \A v \in VersionIds \cap stored : PackageOf[v] \in stored
  /\ removals = 0 => stored = VersionIds \cup PackageIds

\* Every artifact hangs on a version; the sealed ones came from writers that are done.
ArtifactsInv ==
  \A a \in artifacts :
    /\ a.root \in VersionIds
    /\ a.sealed => a.id \in Writers /\ InStage(a.id, "done")

\* An artifact someone goes by is there, unchanged, until its root goes.
Kept(a) ==
  /\ a.sealed /\ a.edges = Meaning(a.doc).edges
  /\ a \in artifacts \/ (removals > 0 /\ a.root \notin stored)

\* No two transactions hold one key.
KeysApart == \A v, w \in Writers : v # w => Held(v) \cap Held(w) = {}

\* What a transaction has established by the stage it is in.
WriterInv(w) ==
  LET r == asks[w]  x == writer[w] IN
    /\ x.stage \in Working \cup {"digest", "root"} => r # Nothing /\ Truthful(r)
    /\ x.stage \in Working \ {"identity"} => Root(r.doc) = r.root
    /\ x.stage \in {"declared", "insert"} => SameDigest(r.doc) = {}
    /\ x.stage = "declared" => Kind(r.doc) = "declared"
    /\ x.stage = "insert" /\ Kind(r.doc) = "declared" => DeclaredOf(r.root) = {}
    /\ x.stage = "replay" =>
         \A a \in x.found : a.doc = r.doc /\ a.id # w /\ Kept(a)
    /\ x.stage = "done" /\ x.result \in {"inserted", "replayed"} =>
         \E a \in x.found : Served(w, a) /\ Kept(a)

\* What a reader has seen is still so, or its root is gone.
ReaderInv(r) ==
  /\ ReaderTrue(r)
  /\ reader[r].stage = "edges" =>
       \A a \in reader[r].found : Kept(a) /\ Shown(a, asks[r].orgs)

\* The two functions have their domains, the counter counts.
GraphTypes ==
  /\ asks \in Requests
  /\ removals \in Nat
  /\ writer = [w \in Writers |-> writer[w]]
  /\ reader = [r \in GraphReaders |-> reader[r]]

\* The inductive invariant.
GraphInv ==
  /\ GraphTypes
  /\ RowsInv
  /\ ArtifactsInv
  /\ SealedExact
  /\ KeysApart
  /\ \A w \in Writers : WriterInv(w) /\ WriterTrue(w)
  /\ \A r \in GraphReaders : ReaderInv(r)
-------------------------------------------------------------------------------
(* Locks.                                                                  *)

\* No circle: who waits for a digest holds nothing, and who waits for a root waits for
\* one that waits for nothing.
LEMMA Acyclic == NoCircle
<1> SUFFICES ASSUME NEW S \in SUBSET Writers, S # {}
             PROVE  \E v \in S : \A w \in S : ~Waits(v, w)
  BY DEF NoCircle
<1>1. CASE \E v \in S : ~InStage(v, "digest") /\ ~InStage(v, "root")
  BY <1>1 DEF Waits, Wanted
<1>2. CASE \A v \in S : InStage(v, "digest")
  BY <1>2 DEF Waits, Held, InStage, Working
<1>3. CASE \E v \in S : InStage(v, "root") /\ (\A u \in S : InStage(u, "digest") \/ InStage(u, "root"))
  <2>1. PICK v \in S : InStage(v, "root")
    BY <1>3
  <2>2. ASSUME NEW w \in S PROVE ~Waits(v, w)
    <3>1. Held(w) \subseteq {DigestKey(asks[w].doc)}
      BY <1>3, <2>2 DEF Held, InStage, Working
    <3>2. Wanted(v) = {RootKey(asks[v].root)}
      BY <2>1 DEF Wanted, InStage
    <3>3. DigestKey(asks[w].doc) # RootKey(asks[v].root)
      BY DEF DigestKey, RootKey
    <3> QED
      BY <3>1, <3>2, <3>3 DEF Waits
  <2> QED
    BY <2>2
<1> QED
  BY <1>1, <1>2, <1>3

-------------------------------------------------------------------------------
(* Documents.                                                              *)

\* What a document means is a record of the four claims a caller makes.
LEMMA MeaningRecord ==
  ASSUME NEW doc
  PROVE  Meaning(doc) = [nodes |-> Meaning(doc).nodes, depth |-> Meaning(doc).depth,
                         cycles |-> Meaning(doc).cycles, edges |-> Meaning(doc).edges]
<1>1. ASSUME NEW a, NEW b, NEW c, NEW d
      PROVE  LET m == [nodes |-> a, depth |-> b, cycles |-> c, edges |-> d] IN
               m = [nodes |-> m.nodes, depth |-> m.depth, cycles |-> m.cycles, edges |-> m.edges]
  OBVIOUS
<1>2. \E a, b, c, d : Meaning(doc) = [nodes |-> a, depth |-> b, cycles |-> c, edges |-> d]
  BY Zenon DEF Meaning, Projection
<1> QED
  BY <1>1, <1>2

\* What is declared needs no search.
LEMMA DeclaredTrue ==
  ASSUME NEW r, Kind(r.doc) = "declared"
  PROVE  Valid(r.doc, r.claim) <=> Truthful(r)
<1>1. r.doc.view # "resolved" /\ Meaning(r.doc) = Projection(r.doc)
  BY Zenon DEF Kind, Meaning
<1> QED
  BY <1>1 DEF Valid, Truthful, Connected

\* Whatever graph a caller asks to store, the searches of registry/graphs.rs accept the
\* claim of its columns and edges exactly when the graph is connected and they are what
\* it means: nodes, shortest distances and cyclic components.
THEOREM GraphsMeasured ==
  \A asked \in Requests, w \in Writers :
    asked[w] # Nothing => (Valid(asked[w].doc, asked[w].claim) <=> Truthful(asked[w]))
<1> SUFFICES ASSUME NEW asked \in Requests, NEW w \in Writers, asked[w] # Nothing
             PROVE  Valid(asked[w].doc, asked[w].claim) <=> Truthful(asked[w])
  OBVIOUS
<1> DEFINE doc == asked[w].doc
<1>1. IsDocument(doc)
  BY GraphAssumption
<1>2. CASE Kind(doc) = "declared"
  BY <1>2, DeclaredTrue
<1>3. CASE Kind(doc) # "declared"
  <2>1. doc.view = "resolved" /\ Listed(doc)
    BY <1>1, <1>3 DEF IsDocument, Kind, Listed
  <2> QED
    BY <2>1, ResolvedRight DEF Truthful
<1> QED
  BY <1>2, <1>3

\* The rows a written artifact stands for are true of its document.
LEMMA ArtifactTrue ==
  ASSUME NEW w, NEW n, NEW r, Truthful(r)
  PROVE  LET a == Artifact(w, n, r) IN
           /\ [nodes |-> a.nodes, depth |-> a.depth, cycles |-> a.cycles, edges |-> a.edges]
                = Meaning(a.doc)
           /\ a.edges = Meaning(a.doc).edges /\ Connected(a.doc)
           /\ a.id = w /\ a.doc = r.doc /\ a.root = r.root /\ a.evidence = r.evidence
           /\ a.links = r.links /\ a.sealed
<1> HIDE DEF Meaning, Connected
<1> QED
  BY MeaningRecord DEF Artifact, Truthful

-------------------------------------------------------------------------------
(* The world.                                                              *)

\* The initial state satisfies the invariant.
LEMMA GraphBegins == GraphInit => GraphInv
<1> SUFFICES ASSUME NEW asked \in Requests, GraphStart(asked)
             PROVE  GraphInv
  BY DEF GraphInit
<1> USE DEF GraphStart
<1>1. GraphTypes
  BY DEF GraphTypes
<1>2. RowsInv
  BY GraphAssumption DEF RowsInv
<1>3. ArtifactsInv /\ SealedExact
  BY GraphAssumption DEF ArtifactsInv, SealedExact
<1>4. \A w \in Writers : writer[w].stage = "idle"
  BY DEF Resting, Doing
<1>5. KeysApart
  BY <1>4 DEF KeysApart, Held, Working
<1>6. \A w \in Writers : WriterInv(w) /\ WriterTrue(w)
  BY <1>4 DEF WriterInv, WriterTrue, Working, InStage
<1>7. \A r \in GraphReaders : ReaderInv(r)
  BY DEF ReaderInv, ReaderTrue, Resting, Doing
<1> QED
  BY <1>1, <1>2, <1>3, <1>5, <1>6, <1>7 DEF GraphInv
-------------------------------------------------------------------------------
(* Steps of one writer that leave what is stored alone.                    *)

\* What a writer has established is about its own state and what is stored.
LEMMA WriterKeeps ==
  ASSUME NEW v, writer'[v] = writer[v],
         UNCHANGED <<stored, retired, artifacts, removals, asks>>,
         WriterInv(v), WriterTrue(v)
  PROVE  WriterInv(v)' /\ WriterTrue(v)'
<1> HIDE DEF Meaning, Connected, Root
<1>1. WriterInv(v)'
  BY DEF WriterInv, Truthful, SameDigest, DeclaredOf, Served, Kept, Kind
<1>2. WriterTrue(v)'
  BY DEF WriterTrue, InStage, Served, Active, MayRefuse, Truthful, AtOdds, Twins, Kind,
         LinksHold, PackageRow
<1> QED
  BY <1>1, <1>2

\* And likewise for a reader.
LEMMA ReaderKeeps ==
  ASSUME NEW r, reader'[r] = reader[r],
         UNCHANGED <<stored, retired, artifacts, removals, asks>>, ReaderInv(r)
  PROVE  ReaderInv(r)'
<1> HIDE DEF Meaning
<1> QED
  BY DEF ReaderInv, ReaderTrue, Kept, Shown

\* A writer that was not done moves: enough is that it takes no key another has, and
\* that its own part of the invariant holds where it comes to be.
LEMMA WriterMoves ==
  ASSUME GraphInv, NEW w \in Writers, NEW next, Proceed(w, next), ~InStage(w, "done"),
         \A v \in Writers \ {w} : Held(w)' \cap Held(v) = {},
         WriterInv(w)', WriterTrue(w)'
  PROVE  GraphInv'
<1> USE DEF GraphInv, Proceed
<1>1. writer'[w] = next /\ \A v \in Writers \ {w} : writer'[v] = writer[v]
  BY DEF GraphTypes
<1>2. GraphTypes'
  BY DEF GraphTypes
<1>3. RowsInv' /\ SealedExact'
  <2> HIDE DEF Meaning, Connected, Root
  <2> QED
    BY DEF RowsInv, SealedExact, Twins, Kind
<1>4. ArtifactsInv'
  BY <1>1 DEF ArtifactsInv, InStage
<1>5. \A v \in Writers \ {w} : Held(v)' = Held(v)
  BY <1>1 DEF Held
<1>6. KeysApart'
  BY <1>5 DEF KeysApart
<1>7. \A v \in Writers : (WriterInv(v) /\ WriterTrue(v))'
  BY <1>1, WriterKeeps
<1>8. \A r \in GraphReaders : ReaderInv(r)'
  BY ReaderKeeps
<1> QED
  BY <1>2, <1>3, <1>4, <1>6, <1>7, <1>8

\* A transaction that ends for a reason that holds.
LEMMA Ends ==
  ASSUME GraphInv, NEW w \in Writers, NEW result, Over(w, result), ~InStage(w, "done"),
         result \in {"conflict", "not_found", "policy", "failed"},
         result = "conflict" => ~({asks[w].root} \cup asks[w].links \subseteq stored),
         result = "not_found" => ~Active(asks[w].root),
         result = "policy" => MayRefuse(asks[w]) \/ removals > 0
  PROVE  GraphInv'
<1> USE DEF Over
<1>1. writer'[w] = Doing("done", {}, result)
  BY DEF Proceed, GraphInv, GraphTypes
<1>2. UNCHANGED <<stored, retired, artifacts, removals, asks>>
  BY DEF Proceed
<1>3. \A v \in Writers \ {w} : Held(w)' \cap Held(v) = {}
  BY <1>1 DEF Held, Working, Doing
<1>4. WriterInv(w)'
  BY <1>1 DEF WriterInv, Working, Doing
<1>5. WriterTrue(w)'
  <2>1. (Active(asks[w].root) <=> Active(asks[w].root)') /\ (MayRefuse(asks[w]) <=> MayRefuse(asks[w])')
    <3> HIDE DEF Truthful, Root
    <3> QED
      BY <1>2 DEF Active, MayRefuse, AtOdds, Twins, Kind, LinksHold, PackageRow
  <2> QED
    BY <1>1, <1>2, <2>1 DEF WriterTrue, Doing, InStage
<1> QED
  BY <1>3, <1>4, <1>5, WriterMoves

\* A transaction that goes on, with the keys it has or one that is free.
LEMMA GoesOn ==
  ASSUME GraphInv, NEW w \in Writers, NEW stage, GoTo(w, stage), ~InStage(w, "done"),
         stage \in (Working \ {"replay"}) \cup {"digest", "root"},
         \A v \in Writers \ {w} : Held(w)' \cap Held(v) = {},
         asks[w] # Nothing, Truthful(asks[w]),
         stage \in Working \ {"identity"} => Root(asks[w].doc) = asks[w].root,
         stage \in {"declared", "insert"} => SameDigest(asks[w].doc) = {},
         stage = "declared" => Kind(asks[w].doc) = "declared",
         stage = "insert" /\ Kind(asks[w].doc) = "declared" => DeclaredOf(asks[w].root) = {}
  PROVE  GraphInv'
<1> USE DEF GoTo
<1>1. writer'[w] = Doing(stage, {}, Nothing)
  BY DEF Proceed, GraphInv, GraphTypes
<1>2. UNCHANGED <<stored, retired, artifacts, removals, asks>>
  BY DEF Proceed
<1>3. writer'[w].stage = stage
  BY <1>1 DEF Doing
<1>4. WriterInv(w)'
  <2> HIDE DEF Meaning, Connected, Root
  <2> QED
    BY <1>2, <1>3 DEF WriterInv, Working, Truthful, SameDigest, DeclaredOf, Kind
<1>5. WriterTrue(w)'
  BY <1>3 DEF WriterTrue, InStage, Working
<1> QED
  BY <1>4, <1>5, WriterMoves
-------------------------------------------------------------------------------
(* The steps of a writer.                                                  *)

\* What is told of a transaction that is under way.
LEMMA Underway ==
  ASSUME GraphInv, NEW w \in Writers
  PROVE  /\ writer[w].stage \in Working \cup {"digest", "root"} =>
              asks[w] # Nothing /\ Truthful(asks[w])
         /\ writer[w].stage \in Working \ {"identity"} => Root(asks[w].doc) = asks[w].root
         /\ \A v \in Writers \ {w} : Held(w) \cap Held(v) = {}
<1> HIDE DEF Truthful, Root
<1> QED
  BY DEF GraphInv, WriterInv, KeysApart

\* It keeps what it holds while it works.
LEMMA WorksOn ==
  ASSUME GraphInv, NEW w \in Writers, NEW stage, GoTo(w, stage),
         writer[w].stage \in Working, stage \in Working
  PROVE  \A v \in Writers \ {w} : Held(w)' \cap Held(v) = {}
<1>1. writer'[w].stage = stage /\ UNCHANGED asks
  BY DEF GoTo, Proceed, GraphInv, GraphTypes, Doing
<1>2. Held(w)' = Held(w)
  BY <1>1 DEF Held
<1> QED
  BY <1>2, Underway

\* Validation: a request is refused unless it is true of its document.
LEMMA ValidateStep ==
  ASSUME GraphInv, NEW w \in Writers, Validate(w)
  PROVE  GraphInv'
<1>1. ~InStage(w, "done") /\ asks[w] # Nothing
  BY DEF Validate, InStage
<1>2. Valid(asks[w].doc, asks[w].claim) <=> Truthful(asks[w])
  BY <1>1, GraphsMeasured DEF GraphInv, GraphTypes
<1>3. CASE ~Valid(asks[w].doc, asks[w].claim) /\ Refusal(w)
  BY <1>1, <1>2, <1>3, Ends DEF Refusal, MayRefuse
<1>4. CASE Valid(asks[w].doc, asks[w].claim) /\ GoTo(w, "digest")
  <2>1. writer'[w].stage = "digest" /\ UNCHANGED asks
    BY <1>4 DEF GoTo, Proceed, GraphInv, GraphTypes, Doing
  <2>2. Held(w)' = {}
    BY <2>1 DEF Held, Working
  <2> QED
    BY <1>1, <1>2, <1>4, <2>2, GoesOn DEF Working
<1> QED
  BY <1>3, <1>4 DEF Validate

\* The locks: a key is taken when it is free.
LEMMA LockSteps ==
  ASSUME GraphInv, NEW w \in Writers, LockDigest(w) \/ LockRoot(w)
  PROVE  GraphInv'
<1>1. CASE LockDigest(w)
  <2>1. writer'[w].stage = "root" /\ UNCHANGED asks
    BY <1>1 DEF LockDigest, GoTo, Proceed, GraphInv, GraphTypes, Doing
  <2>2. Held(w)' = {DigestKey(asks[w].doc)}
    BY <2>1 DEF Held, Working
  <2>3. \A v \in Writers \ {w} : Held(w)' \cap Held(v) = {}
    BY <1>1, <2>2 DEF LockDigest, Free
  <2> QED
    BY <1>1, <2>3, Underway, GoesOn DEF LockDigest, InStage, Working
<1>2. CASE LockRoot(w)
  <2>1. writer'[w].stage = "identity" /\ UNCHANGED asks
    BY <1>2 DEF LockRoot, GoTo, Proceed, GraphInv, GraphTypes, Doing
  <2>2. Held(w)' = Held(w) \cup {RootKey(asks[w].root)}
    BY <1>2, <2>1 DEF Held, Working, LockRoot, InStage
  <2>3. \A v \in Writers \ {w} : Held(w)' \cap Held(v) = {}
    BY <1>2, <2>2, Underway DEF LockRoot, Free
  <2> QED
    BY <1>2, <2>3, Underway, GoesOn DEF LockRoot, InStage, Working
<1> QED
  BY <1>1, <1>2

\* The root and the links are looked up under the locks.
LEMMA LookUpSteps ==
  ASSUME GraphInv, NEW w \in Writers, Identity(w) \/ CheckLinks(w)
  PROVE  GraphInv'
<1> HIDE DEF Truthful, Root
<1>1. CASE Identity(w)
  <2>1. ~InStage(w, "done") /\ writer[w].stage \in Working
    BY <1>1 DEF Identity, InStage, Working
  <2>2. CASE ~Active(asks[w].root) /\ Over(w, "not_found")
    BY <2>1, <2>2, Ends
  <2>3. CASE asks[w].root # Root(asks[w].doc) /\ Refusal(w)
    BY <2>1, <2>3, Ends DEF Refusal, MayRefuse
  <2>4. CASE asks[w].root = Root(asks[w].doc) /\ GoTo(w, "links")
    BY <2>1, <2>4, Underway, WorksOn, GoesOn DEF Working
  <2> QED
    BY <1>1, <2>2, <2>3, <2>4 DEF Identity
<1>2. CASE CheckLinks(w)
  <2>1. ~InStage(w, "done") /\ writer[w].stage \in Working \ {"identity"}
    BY <1>2 DEF CheckLinks, InStage, Working
  <2>2. CASE ~LinksHold(asks[w].links) /\ Refusal(w)
    BY <2>1, <2>2, Ends DEF Refusal, MayRefuse
  <2>3. CASE LinksHold(asks[w].links) /\ GoTo(w, "find")
    BY <2>1, <2>3, Underway, WorksOn, GoesOn DEF Working
  <2> QED
    BY <1>2, <2>2, <2>3 DEF CheckLinks
<1> QED
  BY <1>1, <1>2

\* The digest is looked up: an artifact without its seal is refused, a sealed one is
\* compared, and none leads on to the declared graphs or to the insertion.
LEMMA FindDigestStep ==
  ASSUME GraphInv, NEW w \in Writers, FindDigest(w)
  PROVE  GraphInv'
<1> HIDE DEF Truthful, Root
<1>1. ~InStage(w, "done") /\ writer[w].stage \in Working \ {"identity"}
  BY DEF FindDigest, InStage, Working
<1>2. CASE (\E a \in SameDigest(asks[w].doc) : ~a.sealed) /\ Refusal(w)
  <2>1. MayRefuse(asks[w])
    BY <1>2 DEF MayRefuse, SameDigest, AtOdds
  <2> QED
    BY <1>1, <1>2, <2>1, Ends DEF Refusal
<1>3. ASSUME NEW a \in SameDigest(asks[w].doc), a.sealed, Proceed(w, Doing("replay", {a}, Nothing))
      PROVE  GraphInv'
  <2>1. writer'[w] = Doing("replay", {a}, Nothing)
    BY <1>3 DEF Proceed, GraphInv, GraphTypes
  <2>2. UNCHANGED <<stored, retired, artifacts, removals, asks>>
    BY <1>3 DEF Proceed
  <2>3. writer'[w].stage = "replay" /\ writer'[w].found = {a}
    BY <2>1 DEF Doing
  <2>4. Held(w)' = Held(w)
    BY <1>1, <2>2, <2>3 DEF Held, Working
  <2>5. a.doc = asks[w].doc /\ a.id # w /\ a \in artifacts /\ a.edges = Meaning(a.doc).edges
    <3>1. a.doc = asks[w].doc /\ a \in artifacts
      BY DEF SameDigest
    <3>2. InStage(a.id, "done")
      BY <1>3, <3>1 DEF GraphInv, ArtifactsInv
    <3>3. a.edges = Meaning(a.doc).edges
      <4> HIDE DEF Meaning, Connected
      <4>1. [nodes |-> a.nodes, depth |-> a.depth, cycles |-> a.cycles, edges |-> a.edges]
              = Meaning(a.doc)
        BY <1>3, <3>1 DEF GraphInv, SealedExact
      <4> QED
        BY <4>1
    <3> QED
      BY <1>1, <3>1, <3>2, <3>3
  <2>6. WriterInv(w)'
    BY <1>1, <1>3, <2>2, <2>3, <2>5, Underway DEF WriterInv, Working, Kept, Truthful
  <2>7. WriterTrue(w)'
    BY <2>3 DEF WriterTrue, InStage
  <2> QED
    BY <1>1, <1>3, <2>4, <2>6, <2>7, Underway, WriterMoves
<1>4. CASE SameDigest(asks[w].doc) = {} /\ Kind(asks[w].doc) = "declared" /\ GoTo(w, "declared")
  BY <1>1, <1>4, Underway, WorksOn, GoesOn DEF Working
<1>5. CASE SameDigest(asks[w].doc) = {} /\ Kind(asks[w].doc) # "declared" /\ GoTo(w, "insert")
  BY <1>1, <1>5, Underway, WorksOn, GoesOn DEF Working
<1> QED
  BY <1>2, <1>3, <1>4, <1>5 DEF FindDigest

\* Another declared graph of the root refuses the request.
LEMMA FindDeclaredStep ==
  ASSUME GraphInv, NEW w \in Writers, FindDeclared(w)
  PROVE  GraphInv'
<1> HIDE DEF Truthful, Root
<1>1. ~InStage(w, "done") /\ writer[w].stage \in Working \ {"identity"}
  BY DEF FindDeclared, InStage, Working
<1>2. SameDigest(asks[w].doc) = {} /\ Kind(asks[w].doc) = "declared"
  BY DEF FindDeclared, InStage, GraphInv, WriterInv
<1>3. CASE DeclaredOf(asks[w].root) # {} /\ Refusal(w)
  <2>1. PICK a \in artifacts : a.root = asks[w].root /\ Kind(a.doc) = "declared"
    BY <1>3 DEF DeclaredOf
  <2>2. a.doc # asks[w].doc
    BY <1>2 DEF SameDigest
  <2>3. MayRefuse(asks[w])
    BY <1>2, <2>1, <2>2 DEF MayRefuse, AtOdds, Twins
  <2> QED
    BY <1>1, <1>3, <2>3, Ends DEF Refusal
<1>4. CASE DeclaredOf(asks[w].root) = {} /\ GoTo(w, "insert")
  BY <1>1, <1>2, <1>4, Underway, WorksOn, GoesOn DEF Working
<1> QED
  BY <1>3, <1>4 DEF FindDeclared

\* A replay is refused for what differs, and accepted with the artifact that is there.
LEMMA ReplayStep ==
  ASSUME GraphInv, NEW w \in Writers, Replay(w)
  PROVE  GraphInv'
<1> HIDE DEF Connected, Meaning, Root
<1>1. ~InStage(w, "done") /\ writer[w].stage = "replay" /\ writer[w].stage \in Working \ {"identity"}
  BY DEF Replay, InStage, Working
<1>2. PICK a \in writer[w].found :
        \/ ~Exact(asks[w], a) /\ Refusal(w)
        \/ Exact(asks[w], a) /\ Proceed(w, Doing("done", {a}, "replayed"))
  BY DEF Replay
<1>3. a.doc = asks[w].doc /\ a.id # w /\ Kept(a)
  BY <1>1 DEF GraphInv, WriterInv
<1>4. CASE ~Exact(asks[w], a) /\ Refusal(w)
  <2>1. SUFFICES ASSUME ~(removals > 0) PROVE MayRefuse(asks[w])
    BY <1>1, <1>4, Ends DEF Refusal
  <2>2. a \in artifacts /\ a.sealed
    BY <1>3, <2>1 DEF Kept
  <2>3. EdgesOf(a) = asks[w].claim.edges
    BY <1>1, <1>3, <2>2, Underway DEF EdgesOf, Kept, Truthful
  <2>4. AtOdds(asks[w], a)
    BY <1>3, <1>4, <2>3 DEF Exact, AtOdds
  <2> QED
    BY <2>2, <2>4 DEF MayRefuse
<1>5. CASE Exact(asks[w], a) /\ Proceed(w, Doing("done", {a}, "replayed"))
  <2>1. writer'[w] = Doing("done", {a}, "replayed")
    BY <1>5 DEF Proceed, GraphInv, GraphTypes
  <2>2. UNCHANGED <<stored, retired, artifacts, removals, asks>>
    BY <1>5 DEF Proceed
  <2>3. writer'[w].stage = "done" /\ writer'[w].found = {a} /\ writer'[w].result = "replayed"
    BY <2>1 DEF Doing
  <2>4. Held(w)' = {}
    BY <2>3 DEF Held, Working
  <2>5. Served(w, a)' /\ Kept(a)'
    BY <1>3, <1>5, <2>2, <2>3 DEF Served, Kept, Exact
  <2>6. WriterInv(w)'
    BY <2>3, <2>5 DEF WriterInv, Working
  <2>7. WriterTrue(w)'
    BY <2>3, <2>5 DEF WriterTrue
  <2> QED
    BY <1>1, <1>5, <2>4, <2>6, <2>7, WriterMoves
<1> QED
  BY <1>2, <1>4, <1>5

-------------------------------------------------------------------------------
(* Steps that change what is stored.                                       *)

\* The insertion: the artifact is true of its document and of the rows, no one else is
\* about to insert its digest or another declared graph of its root.
LEMMA InsertStep ==
  ASSUME GraphInv, NEW w \in Writers, InsertArtifact(w)
  PROVE  GraphInv'
<1> HIDE DEF Connected, Meaning, Root
<1> DEFINE r == asks[w]
<1>1. ~InStage(w, "done") /\ writer[w].stage = "insert" /\ writer[w].stage \in Working \ {"identity"}
  BY DEF InsertArtifact, InStage, Working
<1>2. r # Nothing /\ Truthful(r) /\ Root(r.doc) = r.root
  BY <1>1, Underway
<1>3. SameDigest(r.doc) = {} /\ (Kind(r.doc) = "declared" => DeclaredOf(r.root) = {})
  BY <1>1 DEF GraphInv, WriterInv
<1>4. CASE ~Admitted(r) /\ Over(w, "conflict")
  <2>1. ~({r.root} \cup r.links \subseteq stored)
    BY <1>3, <1>4 DEF Admitted
  <2> QED
    BY <1>1, <1>4, <2>1, Ends
<1>5. ASSUME Admitted(r), NEW a, a = Artifact(w, Cardinality(artifacts), r),
             artifacts' = artifacts \cup {a},
             writer' = [writer EXCEPT ![w] = Doing("done", {a}, "inserted")],
             UNCHANGED <<stored, retired, removals, asks, reader>>
      PROVE  GraphInv'
  <2>1. /\ [nodes |-> a.nodes, depth |-> a.depth, cycles |-> a.cycles, edges |-> a.edges]
             = Meaning(a.doc)
        /\ a.edges = Meaning(a.doc).edges /\ Connected(a.doc)
        /\ a.id = w /\ a.doc = r.doc /\ a.root = r.root /\ a.evidence = r.evidence
        /\ a.links = r.links /\ a.sealed
    BY <1>2, <1>5, ArtifactTrue
  <2>2. writer'[w] = Doing("done", {a}, "inserted") /\ \A v \in Writers \ {w} : writer'[v] = writer[v]
    BY <1>5 DEF GraphInv, GraphTypes
  <2>3. writer'[w].stage = "done" /\ writer'[w].found = {a} /\ writer'[w].result = "inserted"
    BY <2>2 DEF Doing
  <2>4. GraphTypes' /\ RowsInv'
    BY <1>5 DEF GraphInv, GraphTypes, RowsInv
  <2>5. a.root \in VersionIds
    BY <1>2, <2>1, GraphAssumption DEF GraphInv, GraphTypes
  <2>6. ArtifactsInv'
    BY <1>5, <2>1, <2>2, <2>3, <2>5 DEF GraphInv, ArtifactsInv, InStage
  <2>7. SealedExact'
    <3>1. {a.root, PackageOf[a.root]} \cup a.links \subseteq stored
      BY <1>5, <2>1, <2>5 DEF GraphInv, RowsInv, Admitted
    <3>2. \A b \in artifacts : ~Twins(a, b) /\ ~Twins(b, a)
      BY <1>3, <2>1 DEF Twins, SameDigest, DeclaredOf
    <3>3. \A b \in artifacts' : b.sealed =>
            /\ Connected(b.doc) /\ Root(b.doc) = b.root
            /\ [nodes |-> b.nodes, depth |-> b.depth, cycles |-> b.cycles, edges |-> b.edges]
                 = Meaning(b.doc)
            /\ {b.root, PackageOf[b.root]} \cup b.links \subseteq stored'
      BY <1>2, <1>5, <2>1, <3>1 DEF GraphInv, SealedExact
    <3>4. \A b, c \in artifacts' : b # c => ~Twins(b, c)
      BY <1>5, <3>2 DEF GraphInv, SealedExact
    <3> QED
      BY <3>3, <3>4 DEF SealedExact, Twins, Kind
  <2>8. KeysApart'
    <3>1. Held(w)' = {}
      BY <2>3 DEF Held, Working
    <3>2. \A v \in Writers \ {w} : Held(v)' = Held(v)
      BY <1>5, <2>2 DEF Held
    <3> QED
      BY <3>1, <3>2 DEF GraphInv, KeysApart
  <2>9. \A b : Kept(b) => Kept(b)'
    BY <1>5 DEF Kept
  <2>10. ASSUME NEW v \in Writers \ {w} PROVE (WriterInv(v) /\ WriterTrue(v))'
    <3>1. writer'[v] = writer[v] /\ WriterInv(v) /\ WriterTrue(v)
      BY <2>2 DEF GraphInv
    <3>2. \A b : Served(v, b) => Served(v, b)'
      BY <1>5, <3>1 DEF Served
    <3>3. writer[v].stage \in Working => asks[v].doc # r.doc /\ asks[v].root # r.root
      BY <1>1 DEF GraphInv, KeysApart, Held
    <3>4. writer[v].stage \in {"declared", "insert"} => SameDigest(asks[v].doc)' = {}
      BY <1>5, <2>1, <3>1, <3>3 DEF WriterInv, SameDigest, Working
    <3>5. writer[v].stage = "insert" /\ Kind(asks[v].doc) = "declared" => DeclaredOf(asks[v].root)' = {}
      BY <1>5, <2>1, <3>1, <3>3 DEF WriterInv, DeclaredOf, Working
    <3>6. WriterInv(v)'
      BY <1>5, <2>9, <3>1, <3>2, <3>4, <3>5 DEF WriterInv, Truthful, Kind
    <3>7. MayRefuse(asks[v]) => MayRefuse(asks[v])'
      BY <1>5 DEF MayRefuse, Truthful, LinksHold, PackageRow, AtOdds, Twins, Kind
    <3>8. WriterTrue(v)'
      BY <1>5, <3>1, <3>2, <3>7 DEF WriterTrue, InStage, Active
    <3> QED
      BY <3>6, <3>8
  <2>11. Served(w, a)' /\ Kept(a)'
    BY <1>5, <2>1, <2>3 DEF Served, Kept
  <2>12. (WriterInv(w) /\ WriterTrue(w))'
    BY <2>3, <2>11 DEF WriterInv, WriterTrue, Working
  <2>13. \A q \in GraphReaders : ReaderInv(q)'
    BY <1>5, <2>9 DEF GraphInv, ReaderInv, ReaderTrue, Shown
  <2> QED
    BY <2>4, <2>6, <2>7, <2>8, <2>10, <2>12, <2>13 DEF GraphInv
<1> QED
  BY <1>4, <1>5 DEF InsertArtifact

\* What a removal changes for writers and readers: nothing that was said becomes untrue
\* when rows and artifacts go together.
LEMMA Removes ==
  ASSUME GraphInv, RowsInv', ArtifactsInv', SealedExact',
         UNCHANGED <<asks, writer, reader>>, removals' = removals + 1,
         stored' \subseteq stored, retired \subseteq retired', artifacts' \subseteq artifacts,
         \A a \in artifacts \ artifacts' : a.root \notin stored'
  PROVE  GraphInv'
<1> HIDE DEF Connected, Meaning, Root
<1>1. GraphTypes' /\ removals' > 0
  BY DEF GraphInv, GraphTypes
<1>2. KeysApart'
  BY DEF GraphInv, KeysApart, Held
<1>3. \A a : Kept(a) => Kept(a)'
  BY <1>1 DEF Kept
<1>4. ASSUME NEW w \in Writers PROVE (WriterInv(w) /\ WriterTrue(w))'
  <2>1. WriterInv(w) /\ WriterTrue(w)
    BY DEF GraphInv
  <2>2. \A a : Served(w, a) => Served(w, a)'
    BY DEF Served
  <2>3. SameDigest(asks[w].doc)' \subseteq SameDigest(asks[w].doc)
    BY DEF SameDigest
  <2>4. DeclaredOf(asks[w].root)' \subseteq DeclaredOf(asks[w].root)
    BY DEF DeclaredOf, Kind
  <2>5. WriterInv(w)'
    BY <1>3, <2>1, <2>2, <2>3, <2>4 DEF WriterInv, Truthful, Kind
  <2>6. Active(asks[w].root)' => Active(asks[w].root)
    BY DEF Active
  <2>7. WriterTrue(w)'
    BY <1>1, <2>1, <2>2, <2>6 DEF WriterTrue, InStage
  <2> QED
    BY <2>5, <2>7
<1>5. \A r \in GraphReaders : ReaderInv(r)'
  BY <1>1, <1>3 DEF GraphInv, ReaderInv, ReaderTrue, Shown
<1> QED
  BY <1>1, <1>2, <1>4, <1>5 DEF GraphInv

\* A row takes with it the versions of its package and the artifacts of its versions.
LEMMA DeleteStep ==
  ASSUME GraphInv, NEW id, Delete(id)
  PROVE  GraphInv'
<1> HIDE DEF Connected, Meaning, Root
<1>1. /\ artifacts' = {a \in artifacts : a.root \notin Gone(id)}
      /\ \A a \in artifacts' : a.sealed => a.links \cap Gone(id) = {}
      /\ stored' = stored \ Gone(id) /\ removals' = removals + 1
      /\ UNCHANGED <<retired, asks, writer, reader>>
  BY DEF Delete
<1>2. removals' # 0
  BY <1>1 DEF GraphInv, GraphTypes
<1>3. \A v \in VersionIds \cap stored' : PackageOf[v] \in stored'
  BY <1>1, GraphAssumption DEF GraphInv, RowsInv, Gone
<1>4. RowsInv'
  BY <1>2, <1>3 DEF RowsInv
<1>5. ArtifactsInv'
  BY <1>1 DEF GraphInv, ArtifactsInv, InStage
<1>6. SealedExact'
  <2>1. \A a \in artifacts' : a.sealed =>
          /\ Connected(a.doc) /\ Root(a.doc) = a.root
          /\ [nodes |-> a.nodes, depth |-> a.depth, cycles |-> a.cycles, edges |-> a.edges]
               = Meaning(a.doc)
    BY <1>1 DEF GraphInv, SealedExact
  <2>2. \A a \in artifacts' : a.sealed => {a.root, PackageOf[a.root]} \cup a.links \subseteq stored'
    BY <1>1, <1>3 DEF GraphInv, SealedExact, ArtifactsInv
  <2>3. \A a, b \in artifacts' : a # b => ~Twins(a, b)
    BY <1>1 DEF GraphInv, SealedExact
  <2> QED
    BY <2>1, <2>2, <2>3 DEF SealedExact, Twins, Kind
<1>7. \A a \in artifacts \ artifacts' : a.root \notin stored'
  BY <1>1
<1> QED
  BY <1>1, <1>4, <1>5, <1>6, <1>7, Removes

\* A package that is retired keeps its rows.
LEMMA RetireStep ==
  ASSUME GraphInv, NEW p, Retire(p)
  PROVE  GraphInv'
<1> HIDE DEF Connected, Meaning, Root
<1>1. /\ retired \subseteq retired' /\ removals' = removals + 1
      /\ UNCHANGED <<stored, artifacts, asks, writer, reader>>
  BY DEF Retire
<1>2. RowsInv' /\ ArtifactsInv'
  BY <1>1 DEF GraphInv, GraphTypes, RowsInv, ArtifactsInv, InStage
<1>3. SealedExact'
  BY <1>1 DEF GraphInv, SealedExact, Twins, Kind
<1> QED
  BY <1>1, <1>2, <1>3, Removes

-------------------------------------------------------------------------------
(* Readers, and the specification.                                         *)

\* A reader finds visible artifacts, which are sealed, and later their edges or a root
\* that is gone.
LEMMA ReaderStep ==
  ASSUME GraphInv, NEW r \in GraphReaders,
         FindArtifact(r) \/ LoadSnapshot(r) \/ ReadEdges(r)
  PROVE  GraphInv'
<1> HIDE DEF Connected, Meaning, Root
<1>1. PICK next : ReaderGoes(r, next)
  BY DEF FindArtifact, LoadSnapshot, ReadEdges
<1>2. UNCHANGED <<stored, retired, artifacts, removals, asks, writer>>
  BY <1>1 DEF ReaderGoes
<1>3. \A q \in GraphReaders \ {r} : reader'[q] = reader[q]
  BY <1>1 DEF ReaderGoes, GraphInv, GraphTypes
<1>4. GraphTypes' /\ RowsInv' /\ ArtifactsInv' /\ KeysApart'
  BY <1>1, <1>2 DEF ReaderGoes, GraphInv, GraphTypes, RowsInv, ArtifactsInv, InStage, KeysApart, Held
<1>5. SealedExact'
  BY <1>2 DEF GraphInv, SealedExact, Twins, Kind
<1>6. \A w \in Writers : (WriterInv(w) /\ WriterTrue(w))'
  BY <1>2, WriterKeeps DEF GraphInv
<1>7. \A q \in GraphReaders \ {r} : ReaderInv(q)'
  BY <1>2, <1>3, ReaderKeeps DEF GraphInv
<1>8. ASSUME NEW next_r, ReaderGoes(r, next_r) PROVE reader'[r] = next_r
  BY <1>8 DEF ReaderGoes, GraphInv, GraphTypes
<1>9. ReaderInv(r)'
  <2>1. CASE FindArtifact(r)
    <3>1. CASE ReaderGoes(r, Doing("done", {}, {}))
      BY <1>8, <3>1 DEF Doing, ReaderInv, ReaderTrue
    <3>2. ASSUME NEW a \in Newest(Matching(asks[r])), ReaderGoes(r, Doing("edges", {a}, Nothing))
          PROVE  ReaderInv(r)'
      <4>1. reader'[r].stage = "edges" /\ reader'[r].found = {a}
        BY <1>8, <3>2 DEF Doing
      <4>2. a \in artifacts /\ a.sealed /\ Shown(a, asks[r].orgs)
        BY DEF Newest, Matching, Visible
      <4>3. [nodes |-> a.nodes, depth |-> a.depth, cycles |-> a.cycles, edges |-> a.edges]
              = Meaning(a.doc)
        BY <4>2 DEF GraphInv, SealedExact
      <4>4. a.edges = Meaning(a.doc).edges
        BY <4>3
      <4> QED
        BY <1>2, <4>1, <4>2, <4>4 DEF ReaderInv, ReaderTrue, Kept, Shown
    <3> QED
      BY <2>1, <3>1, <3>2 DEF FindArtifact
  <2>2. CASE LoadSnapshot(r)
    <3>1. PICK a \in reader[r].found : ReaderGoes(r, Doing("done", {a}, EdgesOf(a)))
      BY <2>2 DEF LoadSnapshot
    <3>2. /\ reader'[r].stage = "done" /\ reader'[r].found = {a}
          /\ reader'[r].result = EdgesOf(a)
      BY <1>8, <3>1 DEF Doing
    <3>3. Kept(a) /\ Shown(a, asks[r].orgs)
      BY <2>2, <3>1 DEF LoadSnapshot, GraphInv, ReaderInv
    <3> QED
      BY <1>2, <3>2, <3>3 DEF ReaderInv, ReaderTrue, Kept, Shown, EdgesOf
  <2>3. CASE ReadEdges(r)
    <3>1. PICK limit : ReaderGoes(r, Doing("done", {}, Page(Hits(asks[r]), limit)))
      BY <2>3 DEF ReadEdges
    <3>2. /\ reader'[r].stage = "done" /\ reader'[r].found = {}
          /\ reader'[r].result = Page(Hits(asks[r]), limit)
      BY <1>8, <3>1 DEF Doing
    <3>3. Page(Hits(asks[r]), limit) \subseteq Hits(asks[r])
      BY DEF Page
    <3>4. ASSUME NEW hit \in Hits(asks[r])
          PROVE  \E b \in artifacts : b.id = hit[2] /\ Shown(b, asks[r].orgs)
      <4>1. PICK a \in artifacts :
              Visible(a, asks[r].orgs) /\ \E i : hit = <<a.edges[i].depth, a.id, i>>
        BY Zenon DEF Hits
      <4> QED
        BY <4>1 DEF Visible
    <3> QED
      BY <1>2, <3>2, <3>3, <3>4 DEF ReaderInv, ReaderTrue, Shown
  <2> QED
    BY <2>1, <2>2, <2>3
<1> QED
  BY <1>4, <1>5, <1>6, <1>7, <1>9 DEF GraphInv

\* Every step keeps the invariant.
LEMMA GraphGoesOn == GraphInv /\ [GraphNext]_graphVars => GraphInv'
<1> SUFFICES ASSUME GraphInv, [GraphNext]_graphVars
             PROVE  GraphInv'
  OBVIOUS
<1>1. ASSUME NEW w \in Writers, WriterStep(w) PROVE GraphInv'
  BY <1>1, ValidateStep, LockSteps, LookUpSteps, FindDigestStep, ReplayStep, FindDeclaredStep,
     InsertStep DEF WriterStep
<1>2. ASSUME NEW w \in Writers, Abandon(w) PROVE GraphInv'
  BY <1>2, Ends DEF Abandon, InStage
<1>3. CASE UNCHANGED graphVars
  <2>1. \A w \in Writers : (WriterInv(w) /\ WriterTrue(w))'
    BY <1>3, WriterKeeps DEF GraphInv, graphVars
  <2>2. \A r \in GraphReaders : ReaderInv(r)'
    BY <1>3, ReaderKeeps DEF GraphInv, graphVars
  <2>3. GraphTypes' /\ RowsInv' /\ ArtifactsInv' /\ KeysApart'
    BY <1>3 DEF graphVars, GraphInv, GraphTypes, RowsInv, ArtifactsInv, InStage, KeysApart, Held
  <2>4. SealedExact'
    <3> HIDE DEF Connected, Meaning, Root
    <3> QED
      BY <1>3 DEF graphVars, GraphInv, SealedExact, Twins, Kind
  <2> QED
    BY <2>1, <2>2, <2>3, <2>4 DEF GraphInv
<1> QED
  BY <1>1, <1>2, <1>3, ReaderStep, DeleteStep, RetireStep DEF GraphNext

\* What readers can find is exactly what its document means, once, and its links name
\* rows that exist, whatever callers claim and whoever races them.
THEOREM GraphsSealed == GraphSpec => []SealedExact
<1>1. GraphInv => SealedExact
  BY DEF GraphInv
<1> QED
  BY <1>1, GraphBegins, GraphGoesOn, PTL DEF GraphSpec

\* Writers and readers are told what is true of what is stored, and no writers wait for
\* each other in a circle, however transactions, removals and readers interleave.
THEOREM GraphAnswers == GraphSpec => []GraphAnswersTrue
<1>1. GraphInv => GraphAnswersTrue
  BY Acyclic DEF GraphInv, GraphAnswersTrue, ReaderInv
<1> QED
  BY <1>1, GraphBegins, GraphGoesOn, PTL DEF GraphSpec
===============================================================================

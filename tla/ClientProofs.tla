---------------------------- MODULE ClientProofs ----------------------------
(***************************************************************************)
(* What the client library computes, for every input: the order a sort     *)
(* gives, the normal form of a dependency closure and the verdict on one,  *)
(* the plans of the three planners and the versions the three resolvers    *)
(* answer with.                                                            *)
(*                                                                         *)
(* A sort is a counting argument: the elements before two others are       *)
(* never equally many, so that every place is taken, once, and in order.   *)
(* Induction is by the least counterexample: a set of naturals that is not *)
(* empty has a least element.                                              *)
(*                                                                         *)
(* Closures: what is sealed is its own normal form, lists without a        *)
(* repeated key have one, and nothing on the way touches the claim but     *)
(* its case; so a verifier finds the claim true exactly if the content is  *)
(* what was sealed.  Planners: provider by provider, then the sort.        *)
(***************************************************************************)
EXTENDS PackageSecurity, NamespacePlan, Resolution, FiniteSetTheorems, SequenceTheorems, TLAPS

\* A set of naturals that is not empty has a least element.
LEMMA LeastOf ==
  ASSUME NEW S, S \subseteq Nat, S # {}
  PROVE  \E x \in S : \A y \in S : x <= y
<1> DEFINE R == OpToRel(<, Nat)
<1>1. IsWellFoundedOn(R, Nat)
  BY NatLessThanWellFounded, Zenon
<1>2. \A x, y \in Nat : x < y => <<x, y>> \in R
  BY DEF OpToRel
<1> HIDE DEF R
<1>3. PICK x \in S : \A y \in S : ~(<<y, x>> \in R)
  BY <1>1, WFMin, Zenon
<1>4. \A y \in S : x \in Nat /\ y \in Nat /\ ~(y < x)
  BY <1>2, <1>3
<1> QED
  BY <1>3, <1>4

\* The operator Min takes that element.
LEMMA MinIs ==
  ASSUME NEW S, S \subseteq Nat, S # {}
  PROVE  Min(S) \in S /\ \A y \in S : Min(S) <= y
BY LeastOf DEF Min

\* The greatest element of a set of naturals below a bound.
LEMMA MaxIs ==
  ASSUME NEW S, S \subseteq Nat, S # {}, NEW n \in Nat, \A x \in S : x <= n
  PROVE  Max(S) \in S /\ \A y \in S : y <= Max(S)
<1> DEFINE D == {d \in Nat : \E x \in S : d = n - x}
<1>1. D \subseteq Nat /\ D # {}
  <2>1. PICK x \in S : x \in Nat /\ x <= n
    OBVIOUS
  <2>2. n - x \in D
    BY <2>1
  <2> QED
    BY <2>2
<1>2. PICK d \in D : \A e \in D : d <= e
  BY <1>1, LeastOf
<1>3. PICK x \in S : d = n - x
  OBVIOUS
<1>4. \A y \in S : y <= x
  <2> TAKE y \in S
  <2>1. n - y \in D
    OBVIOUS
  <2> QED
    BY <1>2, <1>3, <2>1, SMTT(30)
<1>5. \E m \in S : \A y \in S : m >= y
  BY <1>4
<1> QED
  BY <1>5 DEF Max

-----------------------------------------------------------------------------
(* The order of a sort.                                                    *)
\* A comparator that orders classes of like elements.
IsWeakOrder(before, n) ==
  /\ \A i \in 1..n : <<i, i>> \notin before
  /\ \A i, j, k \in 1..n : <<i, j>> \in before /\ <<j, k>> \in before => <<i, k>> \in before
  /\ \A i, j, k \in 1..n : <<i, j>> \in before => <<i, k>> \in before \/ <<k, j>> \in before

\* With the place of an element to break ties, such a comparator orders totally.
LEMMA EarlierIsTotal ==
  ASSUME NEW n \in Nat, NEW before, IsWeakOrder(before, n)
  PROVE  /\ \A i \in 1..n : ~Earlier(before, i, i)
         /\ \A i, j \in 1..n : i = j \/ Earlier(before, i, j) \/ Earlier(before, j, i)
         /\ \A i, j, k \in 1..n : Earlier(before, i, j) /\ Earlier(before, j, k) => Earlier(before, i, k)
<1>1. ASSUME NEW i \in 1..n PROVE ~Earlier(before, i, i)
  <2>1. <<i, i>> \notin before
    BY DEF IsWeakOrder
  <2>2. ~(i < i)
    OBVIOUS
  <2> QED
    BY <2>1, <2>2 DEF Earlier
<1>2. \A i, j \in 1..n : i = j \/ Earlier(before, i, j) \/ Earlier(before, j, i)
  BY DEF Earlier
<1>3. ASSUME NEW i \in 1..n, NEW j \in 1..n, NEW k \in 1..n,
             Earlier(before, i, j), Earlier(before, j, k)
      PROVE  Earlier(before, i, k)
  <2> DEFINE B(x, y) == <<x, y>> \in before
  <2>1. \A x, y, z \in 1..n : B(x, y) => B(x, z) \/ B(z, y)
    BY DEF IsWeakOrder
  <2>2. \A x, y, z \in 1..n : B(x, y) /\ B(y, z) => B(x, z)
    BY DEF IsWeakOrder
  <2>5. \A x \in 1..n : ~B(x, x)
    BY DEF IsWeakOrder
  <2>3. (B(i, j) \/ (~B(j, i) /\ i < j)) /\ (B(j, k) \/ (~B(k, j) /\ j < k))
    BY <1>3 DEF Earlier
  <2> HIDE DEF B
  <2>4. B(i, k) \/ (~B(k, i) /\ i < k)
    BY <2>1, <2>2, <2>3, <2>5
  <2> QED
    BY <2>4 DEF Earlier, B
<1> QED
  BY <1>1, <1>2, <1>3

\* A sort takes every element once, none before one that comes earlier.
LEMMA SortOrder ==
  ASSUME NEW n \in Nat, NEW before, IsWeakOrder(before, n)
  PROVE  /\ InOrder(n, before) \in [1..n -> 1..n]
         /\ \A i \in 1..n : \E p \in 1..n : InOrder(n, before)[p] = i
         /\ \A p, q \in 1..n : p < q => Earlier(before, InOrder(n, before)[p], InOrder(n, before)[q])
<1> DEFINE E(i, j) == Earlier(before, i, j)
           Below(i) == {j \in 1..n : E(j, i)}
           rank == [i \in 1..n |-> Cardinality(Below(i))]
           place == [i \in 1..n |-> rank[i] + 1]
           order == InOrder(n, before)
<1>0. /\ \A i \in 1..n : ~E(i, i)
      /\ \A i, j \in 1..n : i = j \/ E(i, j) \/ E(j, i)
      /\ \A i, j, k \in 1..n : E(i, j) /\ E(j, k) => E(i, k)
  BY EarlierIsTotal
<1>d. /\ DOMAIN order = 1..n
      /\ \A p \in 1..n : (\E i \in 1..n : Cardinality(Below(i)) = p - 1)
                         => order[p] \in 1..n /\ Cardinality(Below(order[p])) = p - 1
  BY DEF InOrder
<1> HIDE DEF E, order
<1>1. IsFiniteSet(1..n) /\ Cardinality(1..n) = n
  BY FS_Interval
<1>2. \A i \in 1..n : IsFiniteSet(Below(i)) /\ rank[i] \in 0..(n - 1)
  <2> TAKE i \in 1..n
  <2>1. Below(i) \in SUBSET (1..n)
    OBVIOUS
  <2>2. IsFiniteSet(Below(i)) /\ Cardinality(Below(i)) <= n /\ (Cardinality(Below(i)) = n => Below(i) = 1..n)
    BY <1>1, <2>1, FS_Subset
  <2>3. Below(i) # 1..n
    BY <1>0
  <2>4. Cardinality(Below(i)) \in Nat
    BY <2>2, FS_CardinalityType
  <2>5. rank[i] = Cardinality(Below(i))
    OBVIOUS
  <2> HIDE DEF Below, rank
  <2> QED
    BY <2>2, <2>3, <2>4, <2>5
<1>3. \A i, j \in 1..n : E(i, j) => rank[i] < rank[j]
  <2> SUFFICES ASSUME NEW i \in 1..n, NEW j \in 1..n, E(i, j) PROVE rank[i] < rank[j]
    OBVIOUS
  <2>1. Below(i) \in SUBSET Below(j)
    BY <1>0
  <2>2. i \in Below(j) /\ i \notin Below(i)
    BY <1>0
  <2>3. Cardinality(Below(i)) <= Cardinality(Below(j)) /\ Cardinality(Below(i)) # Cardinality(Below(j))
    BY <1>2, <2>1, <2>2, FS_Subset
  <2>4. rank[i] = Cardinality(Below(i)) /\ rank[j] = Cardinality(Below(j))
    OBVIOUS
  <2> HIDE DEF rank, Below
  <2> QED
    BY <1>2, <2>3, <2>4
<1>r. \A i \in 1..n : rank[i] \in Int /\ 0 <= rank[i] /\ rank[i] <= n - 1
  <2> HIDE DEF rank, Below
  <2> QED
    BY <1>2
<1>c. \A i \in 1..n : rank[i] = Cardinality(Below(i))
  OBVIOUS
<1>t. \A i \in 1..n : place[i] = rank[i] + 1
  OBVIOUS
<1>f. place \in [1..n -> 1..n]
  <2>1. \A i \in 1..n : rank[i] + 1 \in 1..n
    <3> HIDE DEF rank
    <3> QED
      BY <1>r
  <2> QED
    BY <2>1
<1> HIDE DEF rank, place
<1>4. \A i, j \in 1..n : rank[i] = rank[j] => i = j
  BY <1>0, <1>r, <1>3
<1>5. place \in Injection(1..n, 1..n)
  <2>1. ASSUME NEW i \in 1..n, NEW j \in 1..n, place[i] = place[j] PROVE i = j
    BY <1>r, <1>4, <1>t, <2>1
  <2>2. DOMAIN place = 1..n
    BY <1>f
  <2> QED
    BY <1>f, <2>1, <2>2 DEF Injection, IsInjective
<1>6. place \in Surjection(1..n, 1..n)
  BY <1>1, <1>5, FS_Injection
<1>7. \A p \in 1..n : \E i \in 1..n : place[i] = p
  BY <1>6 DEF Surjection, Range
<1>8. \A p \in 1..n : order[p] \in 1..n /\ rank[order[p]] = p - 1
  <2> TAKE p \in 1..n
  <2>1. PICK i \in 1..n : place[i] = p
    BY <1>7
  <2>2. rank[i] = p - 1
    BY <1>r, <1>t, <2>1
  <2> QED
    BY <1>c, <1>d, <2>2
<1>9. order \in [1..n -> 1..n]
  <2> DEFINE chosen(p) == CHOOSE i \in 1..n : Cardinality(Below(i)) = p - 1
  <2>1. order = [p \in 1..n |-> chosen(p)]
    BY DEF order, InOrder, E
  <2> HIDE DEF chosen
  <2>2. \A p \in 1..n : chosen(p) = order[p]
    BY <2>1
  <2> QED
    BY <1>8, <2>1, <2>2
<1>10. ASSUME NEW i \in 1..n PROVE \E p \in 1..n : order[p] = i
  <2>1. place[i] \in 1..n /\ rank[i] = place[i] - 1
    BY <1>r, <1>f, <1>t
  <2>2. order[place[i]] \in 1..n /\ rank[order[place[i]]] = rank[i]
    BY <1>8, <2>1
  <2> QED
    BY <1>4, <2>1, <2>2
<1>11. ASSUME NEW p \in 1..n, NEW q \in 1..n, p < q PROVE E(order[p], order[q])
  <2>1. order[p] \in 1..n /\ order[q] \in 1..n /\ rank[order[p]] < rank[order[q]]
    BY <1>8, <1>11
  <2>2. ~(rank[order[q]] < rank[order[p]]) /\ order[p] # order[q]
    BY <1>r, <2>1
  <2> QED
    BY <1>0, <1>3, <2>1, <2>2
<1> QED
  BY <1>9, <1>10, <1>11 DEF E, order

\* A strictly increasing map of 1..n to itself moves nothing.
LEMMA IncreasingIsIdentity ==
  ASSUME NEW n \in Nat, NEW f \in [1..n -> 1..n],
         \A p, q \in 1..n : p < q => f[p] < f[q]
  PROVE  \A p \in 1..n : f[p] = p
<1>0. \A p \in 1..n : f[p] \in 1..n
  OBVIOUS
<1>1. \A p \in 1..n : ~(f[p] < p)
  <2> DEFINE C == {p \in 1..n : f[p] < p}
  <2> SUFFICES ASSUME C # {} PROVE FALSE
    OBVIOUS
  <2>0. C \subseteq Nat
    OBVIOUS
  <2>1. PICK p \in C : \A q \in C : p <= q
    BY <2>0, LeastOf
  <2>2. p \in 1..n /\ f[p] < p /\ f[p] \in 1..n
    BY <1>0
  <2>3. p - 1 \in 1..n /\ p - 1 < p
    BY <2>2
  <2>4. f[p - 1] \in 1..n /\ ~(f[p - 1] < p - 1) /\ f[p - 1] < f[p]
    BY <1>0, <2>1, <2>2, <2>3
  <2> QED
    BY <2>2, <2>3, <2>4
<1>2. \A p \in 1..n : ~(p < f[p])
  <2> DEFINE C == {p \in 1..n : p < f[p]}
  <2> SUFFICES ASSUME C # {} PROVE FALSE
    OBVIOUS
  <2>0. C \subseteq Nat /\ \A p \in C : p <= n
    OBVIOUS
  <2>1. PICK p \in C : \A q \in C : q <= p
    <3> HIDE DEF C
    <3> QED
      BY <2>0, MaxIs
  <2>2. p \in 1..n /\ p < f[p] /\ f[p] \in 1..n
    BY <1>0
  <2>3. p + 1 \in 1..n /\ p < p + 1
    BY <2>2
  <2>4. f[p + 1] \in 1..n /\ ~(p + 1 < f[p + 1]) /\ f[p] < f[p + 1]
    BY <1>0, <2>1, <2>2, <2>3
  <2> QED
    BY <2>2, <2>3, <2>4
<1> QED
  BY <1>0, <1>1, <1>2

-----------------------------------------------------------------------------
(* Keys of dependencies.                                                   *)
Keys == [1..8 -> Nat]

\* The order of keys is a strict linear order.
LEMMA KeyOrder ==
  /\ \A k \in Keys : ~KeyBefore(k, k)
  /\ \A k, l \in Keys : k = l \/ KeyBefore(k, l) \/ KeyBefore(l, k)
  /\ \A k, l, m \in Keys : KeyBefore(k, l) /\ KeyBefore(l, m) => KeyBefore(k, m)
<1>d. \A k, l \in Keys : KeyBefore(k, l) <=>
        \E i \in 1..8 : k[i] < l[i] /\ \A j \in 1..(i - 1) : k[j] = l[j]
  BY DEF KeyBefore, Keys
<1>t. \A k \in Keys, i \in 1..8 : k[i] \in Nat
  BY DEF Keys
<1>1. ASSUME NEW k \in Keys PROVE ~KeyBefore(k, k)
  BY <1>d, <1>t
<1>2. ASSUME NEW k \in Keys, NEW l \in Keys, k # l PROVE KeyBefore(k, l) \/ KeyBefore(l, k)
  <2> DEFINE D == {i \in 1..8 : k[i] # l[i]}
  <2>1. D \subseteq Nat /\ D # {}
    <3>1. D \subseteq Nat
      OBVIOUS
    <3>2. ASSUME \A i \in 1..8 : k[i] = l[i] PROVE FALSE
      BY <1>2, <3>2 DEF Keys
    <3> QED
      BY <3>1, <3>2
  <2>2. PICK i \in D : \A j \in D : i <= j
    BY <2>1, LeastOf
  <2>3. i \in 1..8 /\ k[i] # l[i] /\ \A j \in 1..(i - 1) : k[j] = l[j]
    BY <2>2
  <2>4. k[i] < l[i] \/ l[i] < k[i]
    BY <1>t, <2>3
  <2>5. \A j \in 1..(i - 1) : l[j] = k[j]
    BY <2>3
  <2> QED
    BY <1>d, <2>3, <2>4, <2>5
<1>3. ASSUME NEW k \in Keys, NEW l \in Keys, NEW m \in Keys, KeyBefore(k, l), KeyBefore(l, m)
      PROVE  KeyBefore(k, m)
  <2>1. PICK i \in 1..8 : k[i] < l[i] /\ \A j \in 1..(i - 1) : k[j] = l[j]
    BY <1>d, <1>3
  <2>2. PICK h \in 1..8 : l[h] < m[h] /\ \A j \in 1..(h - 1) : l[j] = m[j]
    BY <1>d, <1>3
  <2>3. CASE i < h
    <3>1. k[i] < m[i] /\ \A j \in 1..(i - 1) : k[j] = m[j]
      BY <2>1, <2>2, <2>3
    <3> QED
      BY <1>d, <3>1
  <2>4. CASE h < i
    <3>1. k[h] < m[h] /\ \A j \in 1..(h - 1) : k[j] = m[j]
      BY <2>1, <2>2, <2>4
    <3> QED
      BY <1>d, <3>1
  <2>5. CASE i = h
    <3>1. k[i] < m[i] /\ \A j \in 1..(i - 1) : k[j] = m[j]
      BY <1>t, <2>1, <2>2, <2>5
    <3> QED
      BY <1>d, <3>1
  <2> QED
    BY <2>3, <2>4, <2>5
<1> QED
  BY <1>1, <1>2, <1>3

\* The normal form of an identity is one, has its sort key, and is refused as it is.
LEMMA KeysOfIdentities ==
  ASSUME NEW x \in ArtifactIdentities
  PROVE  /\ SortKey(x) \in Keys
         /\ NormalizeDigests(x) \in ArtifactIdentities
         /\ NormalizeDigests(NormalizeDigests(x)) = NormalizeDigests(x)
         /\ SortKey(NormalizeDigests(x)) = SortKey(x)
         /\ IdentityError(NormalizeDigests(x)) = IdentityError(x)
<1> DEFINE y == NormalizeDigests(x)
<1>1. \A d \in Digests : /\ Lower(d) \in Digests /\ Lower(Lower(d)) = Lower(d)
                         /\ Lower(d).of = d.of /\ Lower(d).hex = d.hex
  BY DEF Digests, Lower
<1>2. x.source \in Digests /\ x.artifact \in Digests /\ x.outer \in Digests
  BY DEF ArtifactIdentities
<1>3. y = [x EXCEPT !.source = Lower(x.source), !.artifact = Lower(x.artifact),
                    !.outer = Lower(x.outer)]
  BY DEF NormalizeDigests
<1>4. /\ y \in ArtifactIdentities
      /\ y.source = Lower(x.source) /\ y.artifact = Lower(x.artifact) /\ y.outer = Lower(x.outer)
      /\ y.ecosystem = x.ecosystem /\ y.exact = x.exact /\ y.registry = x.registry
      /\ y.name = x.name /\ y.version = x.version /\ y.revision = x.revision /\ y.uri = x.uri
  BY <1>1, <1>2, <1>3 DEF ArtifactIdentities
<1>5. NormalizeDigests(y) = y
  <2>1. NormalizeDigests(y) = [y EXCEPT !.source = Lower(y.source), !.artifact = Lower(y.artifact),
                                        !.outer = Lower(y.outer)]
    BY DEF NormalizeDigests
  <2>2. Lower(y.source) = y.source /\ Lower(y.artifact) = y.artifact /\ Lower(y.outer) = y.outer
    BY <1>1, <1>2, <1>4
  <2> HIDE DEF y
  <2> QED
    BY <1>4, <2>1, <2>2 DEF ArtifactIdentities
<1> HIDE DEF y
<1>6. SortKey(y) = SortKey(x)
  BY <1>1, <1>2, <1>4 DEF SortKey
<1>7. IdentityError(y) = IdentityError(x)
  <2>1. /\ y.source.hex = x.source.hex /\ y.artifact.hex = x.artifact.hex
        /\ y.outer.hex = x.outer.hex
    BY <1>1, <1>2, <1>4
  <2> QED
    BY <1>4, <2>1, Zenon DEF IdentityError
<1>8. SortKey(x) \in Keys
  <2>1. /\ x.ecosystem \in Nat /\ x.registry \in Nat /\ x.name \in Nat /\ x.version \in Nat
        /\ x.revision \in Nat /\ x.artifact.of \in Nat /\ x.source.of \in Nat /\ x.outer.of \in Nat
    BY DEF ArtifactIdentities, Digests
  <2> QED
    BY <2>1 DEF SortKey, Keys
<1> QED
  BY <1>4, <1>5, <1>6, <1>7, <1>8 DEF y

\* The sorted list holds what the list holds, and no key before a smaller one.
LEMMA SortedIs ==
  ASSUME NEW deps \in Seq(ArtifactIdentities), NEW n, n = Len(deps)
  PROVE  /\ Sorted(deps) \in Seq(ArtifactIdentities) /\ Len(Sorted(deps)) = n
         /\ \A i \in 1..n : \E p \in 1..n : Sorted(deps)[p] = deps[i]
         /\ \A p \in 1..n : \E i \in 1..n : Sorted(deps)[p] = deps[i]
         /\ \A p, q \in 1..n : p < q => ~KeyBefore(SortKey(Sorted(deps)[q]), SortKey(Sorted(deps)[p]))
<1> DEFINE key == [i \in 1..n |-> SortKey(deps[i])]
           before == {p \in (1..n) \X (1..n) : KeyBefore(key[p[1]], key[p[2]])}
           order == InOrder(n, before)
<1>1. n \in Nat /\ DOMAIN deps = 1..n /\ \A i \in 1..n : deps[i] \in ArtifactIdentities
  OBVIOUS
<1>2. \A i \in 1..n : key[i] \in Keys /\ key[i] = SortKey(deps[i])
  BY <1>1, KeysOfIdentities
<1>3. Sorted(deps) = [i \in 1..n |-> deps[order[i]]]
  <2>1. before = {p \in (1..n) \X (1..n) : KeyBefore(SortKey(deps[p[1]]), SortKey(deps[p[2]]))}
    OBVIOUS
  <2> QED
    BY <1>1, <2>1, Zenon DEF Sorted
<1> HIDE DEF key
<1>4. \A i, j \in 1..n : <<i, j>> \in before <=> KeyBefore(key[i], key[j])
  OBVIOUS
<1> HIDE DEF before
<1>5. IsWeakOrder(before, n)
  <2>1. \A i \in 1..n : <<i, i>> \notin before
    BY <1>2, <1>4, KeyOrder
  <2>2. \A i, j, k \in 1..n : <<i, j>> \in before /\ <<j, k>> \in before => <<i, k>> \in before
    BY <1>2, <1>4, KeyOrder
  <2>3. ASSUME NEW i \in 1..n, NEW j \in 1..n, NEW k \in 1..n, <<i, j>> \in before
        PROVE  <<i, k>> \in before \/ <<k, j>> \in before
    <3>1. KeyBefore(key[i], key[j])
      BY <1>4, <2>3
    <3>2. KeyBefore(key[i], key[k]) \/ KeyBefore(key[k], key[j])
      BY <1>2, <3>1, KeyOrder
    <3> QED
      BY <1>4, <3>2
  <2> QED
    BY <2>1, <2>2, <2>3 DEF IsWeakOrder
<1>6. /\ order \in [1..n -> 1..n]
      /\ \A i \in 1..n : \E p \in 1..n : order[p] = i
      /\ \A p, q \in 1..n : p < q => Earlier(before, order[p], order[q])
  BY <1>1, <1>5, SortOrder
<1> HIDE DEF order
<1>7. Sorted(deps) \in Seq(ArtifactIdentities) /\ Len(Sorted(deps)) = n
  BY <1>1, <1>3, <1>6
<1>8. \A p \in 1..n : order[p] \in 1..n /\ Sorted(deps)[p] = deps[order[p]]
  BY <1>3, <1>6
<1>9. ASSUME NEW p \in 1..n, NEW q \in 1..n, p < q
      PROVE  ~KeyBefore(SortKey(Sorted(deps)[q]), SortKey(Sorted(deps)[p]))
  <2>1. <<order[q], order[p]>> \notin before
    <3>1. <<order[p], order[q]>> \in before => <<order[q], order[p]>> \notin before
      BY <1>5, <1>8 DEF IsWeakOrder
    <3> QED
      BY <1>6, <1>9, <3>1 DEF Earlier
  <2> QED
    BY <1>2, <1>4, <1>8, <2>1
<1> QED
  BY <1>6, <1>7, <1>8, <1>9

\* The same, of the list's own length.
LEMMA SortedHolds ==
  \A deps \in Seq(ArtifactIdentities) :
     /\ Len(deps) \in Nat /\ Sorted(deps) \in Seq(ArtifactIdentities) /\ Len(Sorted(deps)) = Len(deps)
     /\ \A i \in 1..Len(deps) : \E p \in 1..Len(deps) : Sorted(deps)[p] = deps[i]
     /\ \A p \in 1..Len(deps) : \E i \in 1..Len(deps) : Sorted(deps)[p] = deps[i]
<1> TAKE deps \in Seq(ArtifactIdentities)
<1> DEFINE holds(m) ==
      /\ Sorted(deps) \in Seq(ArtifactIdentities) /\ Len(Sorted(deps)) = m
      /\ \A i \in 1..m : \E p \in 1..m : Sorted(deps)[p] = deps[i]
      /\ \A p \in 1..m : \E i \in 1..m : Sorted(deps)[p] = deps[i]
      /\ \A p, q \in 1..m : p < q => ~KeyBefore(SortKey(Sorted(deps)[q]), SortKey(Sorted(deps)[p]))
<1>1. \A m : m = Len(deps) => holds(m)
  BY SortedIs
<1>2. Len(deps) \in Nat
  OBVIOUS
<1>3. holds(Len(deps))
  BY <1>1, Zenon
<1> QED
  BY <1>2, <1>3, Zenon

-----------------------------------------------------------------------------
(* Errors.                                                                 *)
LEMMA FirstErrorIs ==
  ASSUME NEW n \in Nat, NEW checks, DOMAIN checks = 1..n,
         \A i \in 1..n : ~checks[i][1] => checks[i][2] # "none"
  PROVE  FirstError(checks) = "none" <=> \A i \in 1..n : checks[i][1]
<1> DEFINE failed == {i \in DOMAIN checks : ~checks[i][1]}
<1>1. FirstError(checks) = IF failed = {} THEN "none" ELSE checks[Min(failed)][2]
  BY DEF FirstError
<1>2. CASE failed = {}
  BY <1>1, <1>2
<1>3. CASE failed # {}
  <2>1. failed \subseteq Nat
    OBVIOUS
  <2>2. Min(failed) \in failed
    BY <1>3, <2>1, MinIs
  <2>3. checks[Min(failed)][2] # "none"
    BY <2>2
  <2> HIDE DEF failed
  <2>4. FirstError(checks) # "none"
    BY <1>1, <1>3, <2>3
  <2> USE DEF failed
  <2> QED
    BY <2>2, <2>4
<1> QED
  BY <1>2, <1>3

\* The verifier's word for what it accepts is no error, as long as no check's error is it.
LEMMA FirstErrorAmong ==
  ASSUME NEW n \in Nat, NEW checks, DOMAIN checks = 1..n,
         \A i \in 1..n : checks[i][2] # "accepted"
  PROVE  FirstError(checks) # "accepted"
<1> DEFINE failed == {i \in DOMAIN checks : ~checks[i][1]}
<1>1. FirstError(checks) = IF failed = {} THEN "none" ELSE checks[Min(failed)][2]
  BY DEF FirstError
<1>2. failed \subseteq Nat /\ failed \subseteq 1..n
  OBVIOUS
<1> HIDE DEF failed
<1>3. CASE failed = {}
  BY <1>1, <1>3
<1>4. CASE failed # {}
  <2>1. Min(failed) \in 1..n
    BY <1>2, <1>4, MinIs
  <2> QED
    BY <1>1, <1>4, <2>1
<1> QED
  BY <1>3, <1>4

\* A refused identity is named by an error, never by the word for acceptance.
LEMMA IdentityErrorIs ==
  ASSUME NEW x
  PROVE  IdentityError(x) # "accepted"
<1> DEFINE checks == <<
        <<x.ecosystem \in Ecosystems, "unsupported ecosystem">>,
        <<x.exact, "invalid identity shape">>,
        <<0 \notin {x.name, x.version, x.uri, x.revision}, "invalid string field">>,
        <<x.source.hex /\ x.artifact.hex, "invalid digest">>,
        <<x.ecosystem = Hex => x.registry # 0, "invalid string field">>,
        <<x.ecosystem = Hex => x.outer.hex, "invalid digest">>>>
<1>1. IdentityError(x) = FirstError(checks)
  BY Zenon DEF IdentityError
<1>2. /\ DOMAIN checks = 1..6
      /\ checks[1][2] # "accepted" /\ checks[2][2] # "accepted" /\ checks[3][2] # "accepted"
      /\ checks[4][2] # "accepted" /\ checks[5][2] # "accepted" /\ checks[6][2] # "accepted"
  OBVIOUS
<1> HIDE DEF checks
<1>3. \A i \in 1..6 : i \in {1, 2, 3, 4, 5, 6}
  OBVIOUS
<1>4. \A i \in 1..6 : checks[i][2] # "accepted"
  BY <1>2, <1>3
<1> QED
  BY <1>1, <1>2, <1>4, FirstErrorAmong

\* What every closure without an error is.
Fine(c) ==
  /\ c.shape \notin {"not an object", "wrong fields", "wrong format"}
  /\ c.lock.hex /\ c.claim.hex /\ c.resolver # 0
  /\ IdentityError(c.root) = "none"
  /\ Len(c.dependencies) <= MaxDependencies
  /\ \A i \in DOMAIN c.dependencies : IdentityError(c.dependencies[i]) = "none"
  /\ ~Repeats(Sorted(c.dependencies))
  /\ \A i \in DOMAIN c.dependencies : SortKey(c.dependencies[i]) # SortKey(c.root)

\* A closure has no error exactly if it meets every demand (Fine).
LEMMA ErrorIsNone ==
  ASSUME NEW c, IsClosure(c)
  PROVE  (ClosureError(c) = "none" <=> Fine(c)) /\ ClosureError(c) # "accepted"
<1> DEFINE members == [i \in DOMAIN c.dependencies |-> IdentityError(c.dependencies[i])]
           wrong == {i \in DOMAIN members : members[i] # "none"}
           first == IF wrong = {} THEN "none" ELSE members[Min(wrong)]
           unlike == \A i \in DOMAIN c.dependencies : SortKey(c.dependencies[i]) # SortKey(c.root)
           checks == <<
            <<c.shape # "not an object", "not an object">>,
            <<c.shape # "wrong fields", "invalid top level shape">>,
            <<c.shape # "wrong format", "invalid format">>,
            <<c.lock.hex /\ c.claim.hex, "invalid digest">>,
            <<c.resolver # 0, "invalid string field">>,
            <<IdentityError(c.root) = "none", IdentityError(c.root)>>,
            <<Len(c.dependencies) <= MaxDependencies, "too many dependencies">>,
            <<wrong = {}, first>>,
            <<~Repeats(Sorted(c.dependencies)), "duplicate dependency">>,
            <<unlike, "root repeated">>>>
<1>1. ClosureError(c) = FirstError(checks)
  BY Zenon DEF ClosureError
<1>2. wrong # {} => first # "none"
  <2>1. wrong \subseteq Nat
    BY DEF IsClosure
  <2>2. wrong # {} => Min(wrong) \in wrong
    BY <2>1, MinIs
  <2> QED
    BY <2>2
<1>3. wrong = {} <=> \A i \in DOMAIN c.dependencies : IdentityError(c.dependencies[i]) = "none"
  BY Zenon
<1>a. first # "accepted"
  <2>1. \A i \in wrong : members[i] # "accepted"
    BY IdentityErrorIs
  <2>2. wrong \subseteq Nat
    BY DEF IsClosure
  <2> HIDE DEF wrong, members
  <2>3. wrong # {} => Min(wrong) \in wrong
    BY <2>2, MinIs
  <2> QED
    BY <2>1, <2>3 DEF first
<1> HIDE DEF wrong, first, unlike
<1>4. DOMAIN checks = 1..10
  OBVIOUS
<1>5. /\ (checks[1][1] <=> c.shape # "not an object") /\ checks[1][2] # "none"
      /\ (checks[2][1] <=> c.shape # "wrong fields") /\ checks[2][2] # "none"
      /\ (checks[3][1] <=> c.shape # "wrong format") /\ checks[3][2] # "none"
  OBVIOUS
<1>6. /\ (checks[4][1] <=> c.lock.hex /\ c.claim.hex) /\ checks[4][2] # "none"
      /\ (checks[5][1] <=> c.resolver # 0) /\ checks[5][2] # "none"
      /\ (checks[6][1] <=> IdentityError(c.root) = "none") /\ checks[6][2] = IdentityError(c.root)
  OBVIOUS
<1>7. /\ (checks[7][1] <=> Len(c.dependencies) <= MaxDependencies) /\ checks[7][2] # "none"
      /\ (checks[8][1] <=> wrong = {}) /\ checks[8][2] = first
      /\ (checks[9][1] <=> ~Repeats(Sorted(c.dependencies))) /\ checks[9][2] # "none"
      /\ (checks[10][1] <=> unlike) /\ checks[10][2] # "none"
  OBVIOUS
<1>w. /\ checks[1][2] # "accepted" /\ checks[2][2] # "accepted" /\ checks[3][2] # "accepted"
      /\ checks[4][2] # "accepted" /\ checks[5][2] # "accepted" /\ checks[7][2] # "accepted"
      /\ checks[9][2] # "accepted" /\ checks[10][2] # "accepted"
  OBVIOUS
<1> HIDE DEF checks
<1>8. \A i \in 1..10 : i \in {1, 2, 3, 4, 5, 6, 7, 8, 9, 10}
  OBVIOUS
<1>9. \A i \in 1..10 : ~checks[i][1] => checks[i][2] # "none"
  <2> DEFINE told(i) == ~checks[i][1] => checks[i][2] # "none"
  <2>1. told(1) /\ told(2) /\ told(3) /\ told(4) /\ told(5)
    BY <1>5, <1>6
  <2>2. told(6) /\ told(7) /\ told(8) /\ told(9) /\ told(10)
    BY <1>2, <1>6, <1>7
  <2> HIDE DEF told
  <2>3. \A i \in 1..10 : told(i)
    BY <1>8, <2>1, <2>2
  <2> QED
    BY <2>3 DEF told
<1>10. FirstError(checks) = "none" <=> \A i \in 1..10 : checks[i][1]
  BY <1>4, <1>9, FirstErrorIs
<1>12. FirstError(checks) # "accepted"
  <2> DEFINE told(i) == checks[i][2] # "accepted"
  <2>1. told(1) /\ told(2) /\ told(3) /\ told(4) /\ told(5)
    BY <1>w
  <2>2. told(6) /\ told(7) /\ told(8) /\ told(9) /\ told(10)
    BY <1>a, <1>w, <1>6, <1>7, IdentityErrorIs
  <2> HIDE DEF told
  <2>3. \A i \in 1..10 : told(i)
    BY <1>8, <2>1, <2>2
  <2> QED
    BY <1>4, <2>3, FirstErrorAmong DEF told
<1>11. (\A i \in 1..10 : checks[i][1]) <=>
        /\ checks[1][1] /\ checks[2][1] /\ checks[3][1] /\ checks[4][1] /\ checks[5][1]
        /\ checks[6][1] /\ checks[7][1] /\ checks[8][1] /\ checks[9][1] /\ checks[10][1]
  BY <1>8
<1> QED
  BY <1>1, <1>3, <1>5, <1>6, <1>7, <1>10, <1>11, <1>12 DEF Fine, unlike

-----------------------------------------------------------------------------
(* Normal forms.                                                           *)
Ascending(deps) ==
  \A i, j \in DOMAIN deps : i < j => KeyBefore(SortKey(deps[i]), SortKey(deps[j]))

\* Neighbours of unlike keys in sorted order are enough for all keys to be unlike.
LEMMA UnlikeNeighbours ==
  ASSUME NEW deps \in Seq(ArtifactIdentities)
  PROVE  ~Repeats(Sorted(deps)) <=> Ascending(Sorted(deps))
<1> DEFINE n == Len(deps)
           key == [i \in 1..n |-> SortKey(Sorted(deps)[i])]
<1>1. /\ n \in Nat /\ Sorted(deps) \in Seq(ArtifactIdentities) /\ Len(Sorted(deps)) = n
      /\ \A p, q \in 1..n : p < q => ~KeyBefore(SortKey(Sorted(deps)[q]), SortKey(Sorted(deps)[p]))
  BY SortedIs
<1>2. DOMAIN Sorted(deps) = 1..n /\ \A i \in 1..n : Sorted(deps)[i] \in ArtifactIdentities
  BY <1>1
<1>3. \A i \in 1..n : key[i] = SortKey(Sorted(deps)[i]) /\ key[i] \in Keys
  BY <1>2, KeysOfIdentities
<1>4. Repeats(Sorted(deps)) <=> \E i \in 1..(n - 1) : key[i] = key[i + 1]
  <2>1. Repeats(Sorted(deps)) <=>
          \E i \in 1..(n - 1) : SortKey(Sorted(deps)[i]) = SortKey(Sorted(deps)[i + 1])
    BY <1>1 DEF Repeats
  <2>2. \A i \in 1..(n - 1) : i \in 1..n /\ i + 1 \in 1..n
    BY <1>1
  <2> QED
    BY <1>3, <2>1, <2>2
<1>5. Ascending(Sorted(deps)) <=> \A i, j \in 1..n : i < j => KeyBefore(key[i], key[j])
  BY <1>2, <1>3 DEF Ascending
<1>6. \A i, j \in 1..n : i < j => ~KeyBefore(key[j], key[i])
  BY <1>1, <1>3
<1> HIDE DEF key, n
<1>7. ASSUME NEW i \in 1..n, NEW j \in 1..n, i < j, ~KeyBefore(key[i], key[j])
      PROVE  \E h \in 1..(n - 1) : key[h] = key[h + 1]
  <2>1. key[i] = key[j]
    BY <1>3, <1>6, <1>7, KeyOrder
  <2>2. i + 1 \in 1..n /\ i \in 1..(n - 1) /\ i < i + 1 /\ (i + 1 = j \/ i + 1 < j)
    BY <1>1, <1>7
  <2>3. ~KeyBefore(key[i + 1], key[i])
    BY <1>6, <2>2
  <2>4. i + 1 = j \/ ~KeyBefore(key[j], key[i + 1])
    BY <1>6, <2>2
  <2>5. key[i] = key[i + 1]
    BY <1>3, <2>1, <2>2, <2>3, <2>4, KeyOrder
  <2> QED
    BY <2>2, <2>5
<1>8. ASSUME NEW h \in 1..(n - 1), key[h] = key[h + 1]
      PROVE  ~\A i, j \in 1..n : i < j => KeyBefore(key[i], key[j])
  <2>1. h \in 1..n /\ h + 1 \in 1..n /\ h < h + 1
    BY <1>1
  <2>2. ~KeyBefore(key[h], key[h + 1])
    BY <1>3, <1>8, <2>1, KeyOrder
  <2> QED
    BY <2>1, <2>2
<1> QED
  BY <1>4, <1>5, <1>7, <1>8

\* A list of like length with the dependencies of a normal form, however spelt, has
\* that normal form.
LEMMA OneNormalForm ==
  ASSUME NEW d \in Seq(ArtifactIdentities), NEW s \in Seq(ArtifactIdentities), NEW n, n = Len(d), n = Len(s),
         Ascending(s), \A i \in 1..n : NormalizeDigests(s[i]) = s[i],
         \A i \in 1..n : \E j \in 1..n : NormalizeDigests(d[i]) = s[j],
         \A j \in 1..n : \E i \in 1..n : NormalizeDigests(d[i]) = s[j]
  PROVE  /\ \A i \in 1..n : NormalizeDigests(Sorted(d)[i]) = s[i]
         /\ Ascending(Sorted(d))
<1> DEFINE t == [p \in 1..n |-> NormalizeDigests(Sorted(d)[p])]
           f == [p \in 1..n |-> CHOOSE j \in 1..n : t[p] = s[j]]
<1>0. /\ n \in Nat /\ DOMAIN d = 1..n /\ DOMAIN s = 1..n
      /\ \A i \in 1..n : d[i] \in ArtifactIdentities /\ s[i] \in ArtifactIdentities
  <2>1. \A q \in Seq(ArtifactIdentities) : /\ Len(q) \in Nat /\ DOMAIN q = 1..Len(q)
                                  /\ \A i \in 1..Len(q) : q[i] \in ArtifactIdentities
    OBVIOUS
  <2> QED
    BY <2>1, Zenon
<1>1. /\ n \in Nat /\ Sorted(d) \in Seq(ArtifactIdentities) /\ Len(Sorted(d)) = n
      /\ \A i \in 1..n : \E p \in 1..n : Sorted(d)[p] = d[i]
      /\ \A p \in 1..n : \E i \in 1..n : Sorted(d)[p] = d[i]
      /\ \A p, q \in 1..n : p < q => ~KeyBefore(SortKey(Sorted(d)[q]), SortKey(Sorted(d)[p]))
  <2>1. \A m : m = Len(d) =>
          /\ Sorted(d) \in Seq(ArtifactIdentities) /\ Len(Sorted(d)) = m
          /\ \A i \in 1..m : \E p \in 1..m : Sorted(d)[p] = d[i]
          /\ \A p \in 1..m : \E i \in 1..m : Sorted(d)[p] = d[i]
          /\ \A p, q \in 1..m : p < q => ~KeyBefore(SortKey(Sorted(d)[q]), SortKey(Sorted(d)[p]))
    BY SortedIs
  <2> QED
    BY <1>0, <2>1
<1>2. \A i \in 1..n : Sorted(d)[i] \in ArtifactIdentities /\ s[i] \in ArtifactIdentities
  BY <1>0, <1>1
<1>3. \A p \in 1..n : t[p] = NormalizeDigests(Sorted(d)[p]) /\ SortKey(t[p]) = SortKey(Sorted(d)[p])
                      /\ SortKey(t[p]) \in Keys /\ SortKey(s[p]) \in Keys
  BY <1>2, KeysOfIdentities
<1> HIDE DEF t
<1>4. \A p \in 1..n : \E j \in 1..n : t[p] = s[j]
  BY <1>1, <1>3
<1>5. \A j \in 1..n : \E p \in 1..n : t[p] = s[j]
  BY <1>1, <1>3
<1>6. f \in [1..n -> 1..n] /\ \A p \in 1..n : f[p] \in 1..n /\ t[p] = s[f[p]]
  BY <1>4
<1> HIDE DEF f
<1>7. \A i, j \in 1..n : i < j => KeyBefore(SortKey(s[i]), SortKey(s[j]))
  BY <1>0 DEF Ascending
<1>8. \A i, j \in 1..n : s[i] = s[j] => i = j
  <2> SUFFICES ASSUME NEW i \in 1..n, NEW j \in 1..n, i # j PROVE SortKey(s[i]) # SortKey(s[j])
    BY Zenon
  <2>1. i < j \/ j < i
    BY <1>1
  <2> QED
    BY <1>3, <1>7, <2>1, KeyOrder
<1>9. f \in Surjection(1..n, 1..n)
  <2>1. ASSUME NEW j \in 1..n PROVE \E p \in 1..n : f[p] = j
    <3>1. PICK p \in 1..n : t[p] = s[j]
      BY <1>5
    <3>2. f[p] \in 1..n /\ s[f[p]] = s[j]
      BY <1>6, <3>1
    <3> QED
      BY <1>8, <3>2
  <2> QED
    BY <1>6, <2>1 DEF Surjection, Range
<1>10. f \in Injection(1..n, 1..n)
  BY <1>1, <1>9, FS_Interval, FS_SurjSameCardinalityImpliesInj
<1>11. \A p, q \in 1..n : f[p] = f[q] => p = q
  BY <1>6, <1>10 DEF Injection, IsInjective
<1>12. \A p, q \in 1..n : p < q => f[p] < f[q]
  <2> SUFFICES ASSUME NEW p \in 1..n, NEW q \in 1..n, p < q PROVE f[p] < f[q]
    OBVIOUS
  <2>1. ~KeyBefore(SortKey(t[q]), SortKey(t[p]))
    BY <1>1, <1>3
  <2>2. ~(f[q] < f[p])
    BY <1>6, <1>7, <2>1
  <2>3. f[p] # f[q]
    <3>1. p # q
      BY <1>0
    <3> QED
      BY <1>11, <3>1
  <2> QED
    BY <1>6, <2>2, <2>3, SMTT(30)
<1>13. \A p \in 1..n : f[p] = p
  <2>1. n \in Nat /\ f \in [1..n -> 1..n]
    BY <1>1, <1>6
  <2> QED
    BY <2>1, <1>12, IncreasingIsIdentity, Zenon
<1>14. \A p \in 1..n : t[p] = s[p]
  BY <1>6, <1>13
<1>15. \A p \in 1..n : SortKey(Sorted(d)[p]) = SortKey(s[p])
  BY <1>3, <1>14
<1>16. DOMAIN Sorted(d) = 1..n
  BY <1>1
<1> QED
  BY <1>3, <1>7, <1>14, <1>15, <1>16 DEF Ascending

\* A digest in lower case is the same digest without capitals.
LEMMA LowerIs ==
  ASSUME NEW d, IsDigest(d)
  PROVE  Lower(d) = [of |-> d.of, hex |-> d.hex, upper |-> FALSE] /\ IsDigest(Lower(d))
<1>0. \A a, b, u, v : [[of |-> a, hex |-> b, upper |-> u] EXCEPT !.upper = v]
                      = [of |-> a, hex |-> b, upper |-> v]
  OBVIOUS
<1>1. PICK a, b, u : d = [of |-> a, hex |-> b, upper |-> u]
  BY Zenon DEF IsDigest
<1>2. Lower(d) = [[of |-> a, hex |-> b, upper |-> u] EXCEPT !.upper = FALSE]
  BY <1>1, Zenon DEF Lower
<1>3. Lower(d) = [of |-> a, hex |-> b, upper |-> FALSE]
  BY <1>0, <1>2, Zenon
<1>4. d.of = a /\ d.hex = b
  BY <1>1, Zenon
<1>5. Lower(d) = [of |-> d.of, hex |-> d.hex, upper |-> FALSE]
  BY <1>3, <1>4, Zenon
<1> QED
  BY <1>5 DEF IsDigest

\* A closure, by its six fields.
LEMMA ClosureIs ==
  ASSUME NEW c
  PROVE  IsClosure(c) <=>
           /\ c = [shape |-> c.shape, lock |-> c.lock, claim |-> c.claim, resolver |-> c.resolver,
                   root |-> c.root, dependencies |-> c.dependencies]
           /\ IsDigest(c.lock) /\ IsDigest(c.claim)
           /\ c.root \in ArtifactIdentities /\ c.dependencies \in Seq(ArtifactIdentities)
BY DEF IsClosure

\* A normalised closure, field by field.
LEMMA NormalizedIs ==
  ASSUME NEW c, IsClosure(c), NEW claim, IsDigest(claim), NEW m,
         m = [Normalized(c) EXCEPT !.claim = claim]
  PROVE  /\ IsClosure(Normalized(c)) /\ IsClosure(m)
         /\ Normalized(c) = [shape |-> m.shape, lock |-> m.lock, claim |-> Lower(c.claim),
                             resolver |-> m.resolver, root |-> m.root,
                             dependencies |-> m.dependencies]
         /\ Normalized(c).claim = Lower(c.claim)
         /\ m.shape = c.shape /\ m.lock = Lower(c.lock) /\ m.claim = claim
         /\ m.resolver = c.resolver /\ m.root = NormalizeDigests(c.root)
         /\ Len(m.dependencies) = Len(c.dependencies)
         /\ \A i \in 1..Len(c.dependencies) :
               m.dependencies[i] = NormalizeDigests(Sorted(c.dependencies)[i])
<1> DEFINE deps == [i \in DOMAIN Sorted(c.dependencies) |-> NormalizeDigests(Sorted(c.dependencies)[i])]
           nf(k) == [shape |-> c.shape, lock |-> Lower(c.lock), claim |-> k, resolver |-> c.resolver,
                     root |-> NormalizeDigests(c.root), dependencies |-> deps]
<1>1. /\ c = [shape |-> c.shape, lock |-> c.lock, claim |-> c.claim, resolver |-> c.resolver,
              root |-> c.root, dependencies |-> c.dependencies]
      /\ IsDigest(c.lock) /\ IsDigest(c.claim)
      /\ c.root \in ArtifactIdentities /\ c.dependencies \in Seq(ArtifactIdentities)
  BY ClosureIs
<1>2. Sorted(c.dependencies) \in Seq(ArtifactIdentities) /\ Len(Sorted(c.dependencies)) = Len(c.dependencies)
  BY <1>1, SortedIs
<1>3. deps \in Seq(ArtifactIdentities) /\ Len(deps) = Len(c.dependencies)
  BY <1>2, KeysOfIdentities
<1>4. \A i \in 1..Len(c.dependencies) : deps[i] = NormalizeDigests(Sorted(c.dependencies)[i])
  BY <1>2
<1>5. Normalized(c) = [c EXCEPT !.lock = Lower(c.lock), !.claim = Lower(c.claim),
                                !.root = NormalizeDigests(c.root), !.dependencies = deps]
  BY DEF Normalized
<1> HIDE DEF deps
<1>6. Normalized(c) = nf(Lower(c.claim))
  BY <1>1, <1>5
<1>7. m = nf(claim)
  BY <1>6
<1>8. IsDigest(Lower(c.lock)) /\ IsDigest(Lower(c.claim)) /\ NormalizeDigests(c.root) \in ArtifactIdentities
  BY <1>1, LowerIs, KeysOfIdentities
<1>9. ASSUME NEW k, IsDigest(k) PROVE IsClosure(nf(k))
  BY <1>3, <1>8, <1>9, ClosureIs
<1>10. ASSUME NEW k, NEW l
       PROVE  /\ nf(k) = [nf(l) EXCEPT !.claim = k]
              /\ nf(k).shape = c.shape /\ nf(k).lock = Lower(c.lock) /\ nf(k).claim = k
              /\ nf(k).resolver = c.resolver /\ nf(k).root = NormalizeDigests(c.root)
              /\ nf(k).dependencies = deps
  OBVIOUS
<1> HIDE DEF nf
<1>11. /\ Normalized(c) = [shape |-> m.shape, lock |-> m.lock, claim |-> Lower(c.claim),
                           resolver |-> m.resolver, root |-> m.root,
                           dependencies |-> m.dependencies]
       /\ Normalized(c).claim = Lower(c.claim)
  <2>1. nf(Lower(c.claim)) = [shape |-> c.shape, lock |-> Lower(c.lock), claim |-> Lower(c.claim),
                              resolver |-> c.resolver, root |-> NormalizeDigests(c.root),
                              dependencies |-> deps]
    BY Zenon DEF nf
  <2> QED
    BY <1>6, <1>7, <1>10, <2>1
<1> QED
  BY <1>3, <1>4, <1>6, <1>7, <1>8, <1>9, <1>10, <1>11

NormalForm(c) ==
  /\ IsClosure(c) /\ Fine(c) /\ Normalized(c) = c /\ c.claim = Digest(c) /\ Ascending(c.dependencies)

\* A closure whose dependencies are in normal form, and which is spelt in lower case,
\* is its own normal form.
LEMMA NormalizesToItself ==
  ASSUME NEW c, IsClosure(c), Ascending(c.dependencies), Lower(c.lock) = c.lock,
         Lower(c.claim) = c.claim, NormalizeDigests(c.root) = c.root,
         \A i \in DOMAIN c.dependencies : NormalizeDigests(c.dependencies[i]) = c.dependencies[i]
  PROVE  /\ Normalized(c) = c /\ Ascending(Sorted(c.dependencies))
         /\ \A i \in DOMAIN c.dependencies : Sorted(c.dependencies)[i] \in ArtifactIdentities
<1>1. c.dependencies \in Seq(ArtifactIdentities) /\ IsDigest(c.claim)
  BY ClosureIs
<1> DEFINE n == Len(c.dependencies)
           d == c.dependencies
           m == [Normalized(c) EXCEPT !.claim = c.claim]
<1>2. n \in Nat /\ DOMAIN d = 1..n
  BY <1>1
<1>3. (\A i \in 1..n : NormalizeDigests(Sorted(d)[i]) = d[i]) /\ Ascending(Sorted(d))
  BY <1>1, <1>2, OneNormalForm
<1>4. /\ IsClosure(m)
      /\ Normalized(c) = [shape |-> m.shape, lock |-> m.lock, claim |-> Lower(c.claim),
                          resolver |-> m.resolver, root |-> m.root,
                          dependencies |-> m.dependencies]
      /\ m.shape = c.shape /\ m.lock = Lower(c.lock) /\ m.claim = c.claim
      /\ m.resolver = c.resolver /\ m.root = NormalizeDigests(c.root)
      /\ Len(m.dependencies) = n
      /\ \A i \in 1..n : m.dependencies[i] = NormalizeDigests(Sorted(d)[i])
  <2>1. PICK k : k = [Normalized(c) EXCEPT !.claim = c.claim]
    OBVIOUS
  <2>2. IsDigest(c.claim)
    BY <1>1
  <2>3. /\ IsClosure(k)
        /\ Normalized(c) = [shape |-> k.shape, lock |-> k.lock, claim |-> Lower(c.claim),
                            resolver |-> k.resolver, root |-> k.root,
                            dependencies |-> k.dependencies]
    BY <2>1, <2>2, NormalizedIs
  <2>4. /\ k.shape = c.shape /\ k.lock = Lower(c.lock) /\ k.claim = c.claim
        /\ k.resolver = c.resolver /\ k.root = NormalizeDigests(c.root)
    BY <2>1, <2>2, NormalizedIs
  <2>5. /\ Len(k.dependencies) = n
        /\ \A i \in 1..n : k.dependencies[i] = NormalizeDigests(Sorted(d)[i])
    BY <2>1, <2>2, NormalizedIs
  <2>6. k = m
    BY <2>1
  <2> HIDE DEF m
  <2> QED
    BY <2>3, <2>4, <2>5, <2>6
<1> HIDE DEF m
<1>5. m.dependencies = d
  <2>1. m.dependencies \in Seq(ArtifactIdentities)
    BY <1>4, ClosureIs
  <2>2. \A i \in 1..n : m.dependencies[i] = d[i]
    BY <1>3, <1>4
  <2> QED
    BY <1>1, <1>4, <2>1, <2>2, SeqEqual
<1>6. m = c
  BY <1>4, <1>5, ClosureIs
<1>7. Normalized(c) = c
  BY <1>4, <1>6, ClosureIs
<1>8. \A i \in 1..n : Sorted(d)[i] \in ArtifactIdentities
  BY <1>1, SortedIs
<1> QED
  BY <1>2, <1>3, <1>7, <1>8

\* What a closure without an error normalises to is without an error and in normal form,
\* whatever lower-case digest it claims.
LEMMA NormalizedIsFine ==
  ASSUME NEW c, IsClosure(c), Fine(c), NEW claim, IsDigest(claim), claim.hex, Lower(claim) = claim,
         NEW m, m = [Normalized(c) EXCEPT !.claim = claim]
  PROVE  IsClosure(m) /\ Fine(m) /\ Normalized(m) = m /\ Ascending(m.dependencies)
<1> DEFINE n == Len(c.dependencies)
           t == Sorted(c.dependencies)
<1>1. /\ IsClosure(m) /\ m.shape = c.shape /\ m.lock = Lower(c.lock) /\ m.claim = claim
      /\ m.resolver = c.resolver /\ m.root = NormalizeDigests(c.root)
      /\ Len(m.dependencies) = n
      /\ \A i \in 1..n : m.dependencies[i] = NormalizeDigests(t[i])
  BY NormalizedIs
<1>2. IsDigest(c.lock) /\ c.root \in ArtifactIdentities /\ c.dependencies \in Seq(ArtifactIdentities)
  BY ClosureIs
<1>3. m.dependencies \in Seq(ArtifactIdentities)
  BY <1>1, ClosureIs
<1>4. /\ n \in Nat /\ t \in Seq(ArtifactIdentities) /\ Len(t) = n
      /\ \A p \in 1..n : \E i \in 1..n : t[p] = c.dependencies[i]
  BY <1>2, SortedHolds, Zenon
<1>5. DOMAIN m.dependencies = 1..n /\ DOMAIN t = 1..n /\ DOMAIN c.dependencies = 1..n
  BY <1>1, <1>2, <1>3, <1>4
<1>6. \A i \in 1..n : t[i] \in ArtifactIdentities
  BY <1>4, <1>5
<1>7. Ascending(t)
  BY <1>2, UnlikeNeighbours DEF Fine
<1> HIDE DEF n, t
<1>8. \A i \in 1..n : /\ SortKey(m.dependencies[i]) = SortKey(t[i])
                      /\ IdentityError(m.dependencies[i]) = IdentityError(t[i])
                      /\ NormalizeDigests(m.dependencies[i]) = m.dependencies[i]
  BY <1>1, <1>6, KeysOfIdentities
<1>9. Ascending(m.dependencies)
  BY <1>5, <1>7, <1>8 DEF Ascending
<1>10. /\ SortKey(m.root) = SortKey(c.root) /\ IdentityError(m.root) = IdentityError(c.root)
       /\ NormalizeDigests(m.root) = m.root
  BY <1>1, <1>2, KeysOfIdentities
<1>11. Lower(m.lock) = m.lock /\ m.lock.hex = c.lock.hex
  <2>1. Lower(c.lock) = [of |-> c.lock.of, hex |-> c.lock.hex, upper |-> FALSE] /\ IsDigest(Lower(c.lock))
    BY <1>2, LowerIs
  <2>2. Lower(c.lock).of = c.lock.of /\ Lower(c.lock).hex = c.lock.hex
    BY <2>1
  <2>3. Lower(Lower(c.lock)) = [of |-> Lower(c.lock).of, hex |-> Lower(c.lock).hex, upper |-> FALSE]
    BY <2>1, LowerIs
  <2> QED
    BY <1>1, <2>1, <2>2, <2>3, Zenon
<1>12. Lower(m.claim) = m.claim /\ m.claim.hex
  BY <1>1, Zenon
<1>13. Normalized(m) = m /\ Ascending(Sorted(m.dependencies))
  BY <1>1, <1>5, <1>8, <1>9, <1>10, <1>11, <1>12, NormalizesToItself, ZenonT(30)
<1>14. Fine(m)
  <2>1. m.shape \notin {"not an object", "wrong fields", "wrong format"} /\ m.resolver # 0
    BY <1>1 DEF Fine
  <2>2. m.lock.hex /\ m.claim.hex
    BY <1>11, <1>12, Zenon DEF Fine
  <2>3. IdentityError(m.root) = "none" /\ Len(m.dependencies) <= MaxDependencies
    BY <1>1, <1>10 DEF Fine, n
  <2>4. ~Repeats(Sorted(m.dependencies))
    BY <1>3, <1>13, UnlikeNeighbours
  <2>5. \A i \in 1..n : IdentityError(t[i]) = "none" /\ SortKey(t[i]) # SortKey(c.root)
    BY <1>4, <1>5, ZenonT(30) DEF Fine
  <2>6. \A i \in DOMAIN m.dependencies : /\ IdentityError(m.dependencies[i]) = "none"
                                         /\ SortKey(m.dependencies[i]) # SortKey(m.root)
    BY <1>5, <1>8, <1>10, <2>5
  <2> QED
    BY <2>1, <2>2, <2>3, <2>4, <2>6 DEF Fine
<1> QED
  BY <1>1, <1>9, <1>13, <1>14

\* What a producer seals is a normal form.
LEMMA RecomputedIs ==
  ASSUME NEW c, IsClosure(c)
  PROVE  /\ ~Fine(c) => Recompute(c) = [error |-> ClosureError(c)] /\ ClosureError(c) # "none"
         /\ Fine(c) => \E m : /\ Recompute(c) = [error |-> "none", closure |-> m] /\ NormalForm(m)
                              /\ m.shape = c.shape
<1>1. CASE ~Fine(c)
  BY <1>1, ErrorIsNone DEF Recompute
<1>2. CASE Fine(c)
  <2> DEFINE claim == Digest(Normalized(c))
  <2>1. PICK m : m = [Normalized(c) EXCEPT !.claim = claim]
    OBVIOUS
  <2>2. Recompute(c) = [error |-> "none", closure |-> m]
    BY <1>2, <2>1, ErrorIsNone DEF Recompute
  <2>3. claim = [of |-> <<Preimage(Normalized(c))>>, hex |-> TRUE, upper |-> FALSE]
    BY DEF Digest
  <2> HIDE DEF claim
  <2>4. claim.hex = TRUE /\ claim.of = <<Preimage(Normalized(c))>> /\ IsDigest(claim)
    BY <2>3 DEF IsDigest
  <2>5. Lower(claim) = claim
    BY <2>3, <2>4, LowerIs, Zenon
  <2>6. IsClosure(m) /\ Fine(m) /\ Normalized(m) = m /\ Ascending(m.dependencies)
    BY <1>2, <2>1, <2>4, <2>5, NormalizedIsFine
  <2>7. /\ Normalized(c) = [shape |-> m.shape, lock |-> m.lock, claim |-> Lower(c.claim),
                            resolver |-> m.resolver, root |-> m.root,
                            dependencies |-> m.dependencies]
        /\ m.shape = c.shape /\ m.claim = claim
    BY <2>1, <2>4, NormalizedIs
  <2>8. Preimage(Normalized(c)) = Preimage(m)
    BY <2>7 DEF Preimage
  <2>9. m.claim = Digest(m)
    BY <2>7, <2>8, Zenon DEF Digest, claim
  <2> QED
    BY <1>2, <2>2, <2>6, <2>7, <2>9 DEF NormalForm
<1> QED
  BY <1>1, <1>2

\* A normal form is what recomputing it and verifying it give.
LEMMA NormalFormHolds ==
  ASSUME NEW m, NormalForm(m)
  PROVE  /\ Recompute(m) = [error |-> "none", closure |-> m]
         /\ Verify(m) = [error |-> "none", closure |-> m]
<1>1. ClosureError(m) = "none" /\ Normalized(m) = m /\ m.claim = Digest(m)
  BY ErrorIsNone DEF NormalForm
<1>2. [m EXCEPT !.claim = Digest(m)] = m
  <2>1. m = [shape |-> m.shape, lock |-> m.lock, claim |-> m.claim, resolver |-> m.resolver,
             root |-> m.root, dependencies |-> m.dependencies]
    BY ClosureIs DEF NormalForm
  <2> QED
    BY <1>1, <2>1
<1> QED
  BY <1>1, <1>2 DEF Recompute, Verify

\* Lower case changes neither what is digested nor its form.
LEMMA LowerKeeps ==
  ASSUME NEW d, IsDigest(d)
  PROVE  Lower(d).of = d.of /\ Lower(d).hex = d.hex
<1>1. Lower(d) = [of |-> d.of, hex |-> d.hex, upper |-> FALSE]
  BY LowerIs
<1> QED
  BY <1>1

\* Lower-case digests that are well formed and of the same are the same.
LEMMA LowerAgrees ==
  ASSUME NEW d, IsDigest(d), NEW e, IsDigest(e), Lower(e) = e, d.of = e.of, d.hex, e.hex
  PROVE  Lower(d) = e
<1>1. d.hex = e.hex
  BY Zenon DEF IsDigest
<1>2. Lower(d) = [of |-> d.of, hex |-> d.hex, upper |-> FALSE]
  BY LowerIs
<1>3. e = [of |-> e.of, hex |-> e.hex, upper |-> FALSE]
  BY LowerIs, Zenon
<1> QED
  BY <1>1, <1>2, <1>3, Zenon

\* The parts of a normal form.
LEMMA NormalFormIs ==
  ASSUME NEW s, NormalForm(s)
  PROVE  /\ IsClosure(s) /\ Fine(s) /\ Ascending(s.dependencies) /\ s.dependencies \in Seq(ArtifactIdentities)
         /\ IsDigest(s.lock) /\ IsDigest(s.claim) /\ s.root \in ArtifactIdentities
         /\ Lower(s.lock) = s.lock /\ Lower(s.claim) = s.claim /\ NormalizeDigests(s.root) = s.root
         /\ \A i \in DOMAIN s.dependencies : /\ s.dependencies[i] \in ArtifactIdentities
                                             /\ NormalizeDigests(s.dependencies[i]) = s.dependencies[i]
<1>1. IsClosure(s) /\ Fine(s) /\ Ascending(s.dependencies) /\ Normalized(s) = s
  BY DEF NormalForm
<1>2. /\ s.dependencies \in Seq(ArtifactIdentities) /\ IsDigest(s.lock) /\ IsDigest(s.claim)
      /\ s.root \in ArtifactIdentities
  BY <1>1, ClosureIs
<1>3. [Normalized(s) EXCEPT !.claim = s.claim] = s
  <2>1. s = [shape |-> s.shape, lock |-> s.lock, claim |-> s.claim, resolver |-> s.resolver,
             root |-> s.root, dependencies |-> s.dependencies]
    BY <1>1, ClosureIs
  <2>2. [s EXCEPT !.claim = s.claim] = s
    BY <2>1
  <2> QED
    BY <1>1, <2>2, Zenon
<1>4. /\ s.claim = Lower(s.claim) /\ s.lock = Lower(s.lock) /\ s.root = NormalizeDigests(s.root)
      /\ \A i \in 1..Len(s.dependencies) :
            s.dependencies[i] = NormalizeDigests(Sorted(s.dependencies)[i])
  <2>1. \A k : k = [Normalized(s) EXCEPT !.claim = s.claim] =>
          /\ Normalized(s).claim = Lower(s.claim) /\ k.lock = Lower(s.lock)
          /\ k.root = NormalizeDigests(s.root)
          /\ \A i \in 1..Len(s.dependencies) :
                k.dependencies[i] = NormalizeDigests(Sorted(s.dependencies)[i])
    BY <1>1, <1>2, NormalizedIs
  <2> QED
    BY <1>1, <1>3, <2>1, Zenon
<1>5. Sorted(s.dependencies) \in Seq(ArtifactIdentities) /\ Len(Sorted(s.dependencies)) = Len(s.dependencies)
  BY <1>2, SortedHolds, Zenon
<1>6. DOMAIN s.dependencies = 1..Len(s.dependencies)
  BY <1>2
<1>7. \A i \in 1..Len(s.dependencies) : Sorted(s.dependencies)[i] \in ArtifactIdentities
  BY <1>5
<1>8. \A i \in 1..Len(s.dependencies) : NormalizeDigests(s.dependencies[i]) = s.dependencies[i]
  BY <1>4, <1>7, KeysOfIdentities, Zenon
<1>9. \A i \in 1..Len(s.dependencies) : s.dependencies[i] \in ArtifactIdentities
  BY <1>2
<1> QED
  BY <1>1, <1>2, <1>4, <1>6, <1>8, <1>9, Zenon

\* Two closures are one when their parts are.
LEMMA SameClosure ==
  ASSUME NEW c, IsClosure(c), NEW s, IsClosure(s), c.shape = s.shape, c.lock = s.lock,
         c.claim = s.claim, c.resolver = s.resolver, c.root = s.root,
         Len(c.dependencies) = Len(s.dependencies),
         \A i \in 1..Len(c.dependencies) : c.dependencies[i] = s.dependencies[i]
  PROVE  c = s
<1>1. c.dependencies \in Seq(ArtifactIdentities) /\ s.dependencies \in Seq(ArtifactIdentities)
  BY ClosureIs
<1>2. c.dependencies = s.dependencies
  BY <1>1, SeqEqual
<1>3. /\ c = [shape |-> c.shape, lock |-> c.lock, claim |-> c.claim, resolver |-> c.resolver,
              root |-> c.root, dependencies |-> c.dependencies]
      /\ s = [shape |-> s.shape, lock |-> s.lock, claim |-> s.claim, resolver |-> s.resolver,
              root |-> s.root, dependencies |-> s.dependencies]
  BY ClosureIs
<1> QED
  BY <1>2, <1>3, Zenon

\* The normal form of a closure, by its parts.
LEMMA NormalizedParts ==
  ASSUME NEW c, IsClosure(c)
  PROVE  /\ IsClosure(Normalized(c)) /\ Normalized(c).claim = Lower(c.claim)
         /\ Normalized(c).shape = c.shape /\ Normalized(c).lock = Lower(c.lock)
         /\ Normalized(c).resolver = c.resolver /\ Normalized(c).root = NormalizeDigests(c.root)
         /\ Len(Normalized(c).dependencies) = Len(c.dependencies)
         /\ \A i \in 1..Len(c.dependencies) :
               Normalized(c).dependencies[i] = NormalizeDigests(Sorted(c.dependencies)[i])
<1>1. IsDigest(c.claim)
  BY ClosureIs
<1>2. PICK m : m = [Normalized(c) EXCEPT !.claim = c.claim]
  OBVIOUS
<1>3. /\ IsClosure(Normalized(c)) /\ Normalized(c).claim = Lower(c.claim)
      /\ Normalized(c) = [shape |-> m.shape, lock |-> m.lock, claim |-> Lower(c.claim),
                          resolver |-> m.resolver, root |-> m.root,
                          dependencies |-> m.dependencies]
  BY <1>1, <1>2, NormalizedIs
<1>4. /\ m.shape = c.shape /\ m.lock = Lower(c.lock) /\ m.resolver = c.resolver
      /\ m.root = NormalizeDigests(c.root)
  BY <1>1, <1>2, NormalizedIs
<1>5. /\ Len(m.dependencies) = Len(c.dependencies)
      /\ \A i \in 1..Len(c.dependencies) :
            m.dependencies[i] = NormalizeDigests(Sorted(c.dependencies)[i])
  BY <1>1, <1>2, NormalizedIs
<1>6. /\ Normalized(c).shape = m.shape /\ Normalized(c).lock = m.lock
      /\ Normalized(c).resolver = m.resolver /\ Normalized(c).root = m.root
      /\ Normalized(c).dependencies = m.dependencies
  BY <1>3
<1> QED
  BY <1>3, <1>4, <1>5, <1>6

\* What two closures of one meaning have in common.
Alike(c, s) ==
  /\ c.lock.of = s.lock.of /\ c.resolver = s.resolver
  /\ NormalizeDigests(c.root) = NormalizeDigests(s.root)
  /\ Len(c.dependencies) = Len(s.dependencies)
  /\ \A i \in 1..Len(c.dependencies) : \E j \in 1..Len(s.dependencies) :
        NormalizeDigests(c.dependencies[i]) = NormalizeDigests(s.dependencies[j])
  /\ \A j \in 1..Len(s.dependencies) : \E i \in 1..Len(c.dependencies) :
        NormalizeDigests(c.dependencies[i]) = NormalizeDigests(s.dependencies[j])

\* Two closures mean the same exactly if they are alike, field by field.
LEMMA MeansIs ==
  ASSUME NEW c, IsClosure(c), NEW s, IsClosure(s)
  PROVE  Means(c) = Means(s) <=> Alike(c, s)
<1> DEFINE set(x) == {NormalizeDigests(d) : d \in Range(x.dependencies)}
           have(x, y) == \A i \in 1..Len(x.dependencies) : \E j \in 1..Len(y.dependencies) :
                            NormalizeDigests(x.dependencies[i]) = NormalizeDigests(y.dependencies[j])
<1>1. c.dependencies \in Seq(ArtifactIdentities) /\ s.dependencies \in Seq(ArtifactIdentities)
  BY ClosureIs
<1>2. ASSUME NEW x, x.dependencies \in Seq(ArtifactIdentities), NEW v
      PROVE  v \in set(x) <=> \E i \in 1..Len(x.dependencies) : v = NormalizeDigests(x.dependencies[i])
  <2>1. Range(x.dependencies) = {x.dependencies[i] : i \in 1..Len(x.dependencies)}
    BY <1>2 DEF Range
  <2> QED
    BY <2>1
<1>3. set(c) = set(s) <=> have(c, s) /\ have(s, c)
  <2> HIDE DEF set
  <2>1. ASSUME set(c) = set(s) PROVE have(c, s) /\ have(s, c)
    BY <1>1, <1>2, <2>1, ZenonT(30)
  <2>2. ASSUME have(c, s), have(s, c) PROVE \A v : v \in set(c) <=> v \in set(s)
    BY <1>1, <1>2, <2>2
  <2>3. ASSUME have(c, s), have(s, c) PROVE set(c) = set(s)
    BY <2>2, <2>3
  <2> QED
    BY <2>1, <2>3
<1>4. \A x : Means(x) = [lock |-> x.lock.of, resolver |-> x.resolver,
                         root |-> NormalizeDigests(x.root), dependencies |-> set(x),
                         count |-> Len(x.dependencies)]
  BY Zenon DEF Means
<1> HIDE DEF set
<1>5. Means(c) = Means(s) <=>
        /\ c.lock.of = s.lock.of /\ c.resolver = s.resolver
        /\ NormalizeDigests(c.root) = NormalizeDigests(s.root)
        /\ set(c) = set(s) /\ Len(c.dependencies) = Len(s.dependencies)
  <2>1. \A x : /\ Means(x).lock = x.lock.of /\ Means(x).resolver = x.resolver
               /\ Means(x).root = NormalizeDigests(x.root) /\ Means(x).dependencies = set(x)
               /\ Means(x).count = Len(x.dependencies)
    BY <1>4
  <2>2. ASSUME Means(c) = Means(s)
        PROVE  /\ c.lock.of = s.lock.of /\ c.resolver = s.resolver
               /\ NormalizeDigests(c.root) = NormalizeDigests(s.root)
               /\ set(c) = set(s) /\ Len(c.dependencies) = Len(s.dependencies)
    BY <2>1, <2>2, Zenon
  <2>3. ASSUME c.lock.of = s.lock.of, c.resolver = s.resolver,
               NormalizeDigests(c.root) = NormalizeDigests(s.root),
               set(c) = set(s), Len(c.dependencies) = Len(s.dependencies)
        PROVE  Means(c) = Means(s)
    BY <1>4, <2>3, Zenon
  <2> QED
    BY <2>2, <2>3
<1>6. have(s, c) <=> \A j \in 1..Len(s.dependencies) : \E i \in 1..Len(c.dependencies) :
                       NormalizeDigests(c.dependencies[i]) = NormalizeDigests(s.dependencies[j])
  BY Zenon
<1> QED
  BY <1>3, <1>5, <1>6, Zenon DEF Alike

\* A closure that means what was sealed, with the claim that was sealed, normalises
\* to it, however its dependencies are ordered and its digests spelt.
LEMMA WhatMeansTheSame ==
  ASSUME NEW c, IsClosure(c), NEW s, NormalForm(s), Means(c) = Means(s), c.shape = s.shape,
         c.claim.of = s.claim.of, c.claim.hex, c.lock.hex
  PROVE  Fine(c) /\ Normalized(c) = s
<1> DEFINE n == Len(c.dependencies)
           d == c.dependencies
           e == s.dependencies
<1>1. /\ IsClosure(s) /\ Fine(s) /\ Ascending(e) /\ e \in Seq(ArtifactIdentities)
      /\ IsDigest(s.lock) /\ IsDigest(s.claim) /\ s.root \in ArtifactIdentities
      /\ Lower(s.lock) = s.lock /\ Lower(s.claim) = s.claim /\ NormalizeDigests(s.root) = s.root
      /\ \A i \in DOMAIN e : e[i] \in ArtifactIdentities /\ NormalizeDigests(e[i]) = e[i]
  BY NormalFormIs
<1>2. /\ d \in Seq(ArtifactIdentities) /\ IsDigest(c.lock) /\ IsDigest(c.claim) /\ c.root \in ArtifactIdentities
  BY ClosureIs
<1>3. /\ c.lock.of = s.lock.of /\ c.resolver = s.resolver
      /\ NormalizeDigests(c.root) = NormalizeDigests(s.root) /\ Len(e) = n
      /\ \A i \in 1..n : \E j \in 1..Len(e) : NormalizeDigests(d[i]) = NormalizeDigests(e[j])
      /\ \A j \in 1..Len(e) : \E i \in 1..n : NormalizeDigests(d[i]) = NormalizeDigests(e[j])
  <2>1. Alike(c, s)
    BY <1>1, MeansIs, Zenon
  <2> QED
    BY <2>1 DEF Alike
<1>4. /\ n \in Nat /\ DOMAIN d = 1..n /\ DOMAIN e = 1..n /\ \A i \in 1..n : d[i] \in ArtifactIdentities
  <2>1. \A q \in Seq(ArtifactIdentities) : /\ Len(q) \in Nat /\ DOMAIN q = 1..Len(q)
                                  /\ \A i \in 1..Len(q) : q[i] \in ArtifactIdentities
    OBVIOUS
  <2> QED
    BY <1>1, <1>2, <1>3, <2>1, Zenon
<1>5. \A i \in 1..n : NormalizeDigests(e[i]) = e[i] /\ e[i] \in ArtifactIdentities
  BY <1>1, <1>4
<1>6. /\ \A i \in 1..n : \E j \in 1..n : NormalizeDigests(d[i]) = e[j]
      /\ \A j \in 1..n : \E i \in 1..n : NormalizeDigests(d[i]) = e[j]
  BY <1>3, <1>5
<1>7. (\A i \in 1..n : NormalizeDigests(Sorted(d)[i]) = e[i]) /\ Ascending(Sorted(d))
  <2>1. Ascending(e) /\ e \in Seq(ArtifactIdentities) /\ d \in Seq(ArtifactIdentities) /\ n = Len(e)
    BY <1>1, <1>2, <1>3
  <2>2. \A i \in 1..n : NormalizeDigests(e[i]) = e[i]
    BY <1>5
  <2>3. ASSUME NEW a, a = d, NEW b, b = e, NEW k, k = n
        PROVE  (\A i \in 1..k : NormalizeDigests(Sorted(a)[i]) = b[i]) /\ Ascending(Sorted(a))
    <3>1. a \in Seq(ArtifactIdentities) /\ b \in Seq(ArtifactIdentities) /\ Ascending(b)
      BY <2>1, <2>3, Zenon
    <3>2. k = Len(a) /\ k = Len(b)
      BY <2>1, <2>3, Zenon
    <3>3. /\ \A i \in 1..k : NormalizeDigests(b[i]) = b[i]
          /\ \A i \in 1..k : \E j \in 1..k : NormalizeDigests(a[i]) = b[j]
          /\ \A j \in 1..k : \E i \in 1..k : NormalizeDigests(a[i]) = b[j]
      BY <1>6, <2>2, <2>3, Zenon
    <3> HIDE <2>3
    <3> QED
      BY <3>1, <3>2, <3>3, OneNormalForm
  <2> QED
    BY <2>3, Zenon
<1>8. Lower(c.lock) = s.lock /\ Lower(c.claim) = s.claim
  <2>1. s.lock.hex /\ s.claim.hex
    BY <1>1 DEF Fine
  <2> QED
    BY <1>1, <1>2, <1>3, <2>1, LowerAgrees
<1>9. Normalized(c) = s
  <2>1. /\ IsClosure(Normalized(c)) /\ Normalized(c).claim = Lower(c.claim)
        /\ Normalized(c).shape = c.shape /\ Normalized(c).lock = Lower(c.lock)
        /\ Normalized(c).resolver = c.resolver /\ Normalized(c).root = NormalizeDigests(c.root)
        /\ Len(Normalized(c).dependencies) = n
        /\ \A i \in 1..n : Normalized(c).dependencies[i] = NormalizeDigests(Sorted(d)[i])
    BY NormalizedParts
  <2>2. \A i \in 1..n : Normalized(c).dependencies[i] = e[i]
    BY <1>7, <2>1
  <2>3. /\ Normalized(c).shape = s.shape /\ Normalized(c).lock = s.lock
        /\ Normalized(c).claim = s.claim /\ Normalized(c).resolver = s.resolver
        /\ Normalized(c).root = s.root /\ Len(Normalized(c).dependencies) = Len(e)
    BY <1>1, <1>3, <1>8, <2>1
  <2> QED
    BY <1>1, <2>1, <2>2, <2>3, SameClosure
<1>10. Fine(c)
  <2>1. c.shape \notin {"not an object", "wrong fields", "wrong format"} /\ c.resolver # 0
    BY <1>1, <1>3 DEF Fine
  <2>2. IdentityError(c.root) = "none" /\ SortKey(c.root) = SortKey(s.root)
    BY <1>1, <1>2, <1>3, KeysOfIdentities DEF Fine
  <2>3. Len(d) <= MaxDependencies
    BY <1>1, <1>3 DEF Fine
  <2>4. \A i \in 1..n : IdentityError(d[i]) = "none" /\ SortKey(d[i]) # SortKey(c.root)
    <3> TAKE i \in 1..n
    <3>1. PICK j \in 1..n : NormalizeDigests(d[i]) = e[j]
      BY <1>6
    <3>2. IdentityError(e[j]) = "none" /\ SortKey(e[j]) # SortKey(s.root)
      BY <1>1, <1>4 DEF Fine
    <3>3. IdentityError(NormalizeDigests(d[i])) = IdentityError(d[i])
          /\ SortKey(NormalizeDigests(d[i])) = SortKey(d[i])
      BY <1>4, KeysOfIdentities
    <3> QED
      BY <2>2, <3>1, <3>2, <3>3
  <2>5. ~Repeats(Sorted(d))
    BY <1>2, <1>7, UnlikeNeighbours
  <2> QED
    BY <1>4, <2>1, <2>2, <2>3, <2>4, <2>5 DEF Fine
<1> QED
  BY <1>9, <1>10

\* A closure whose normal form has the preimage of what was sealed means the same.
LEMMA WhatHasThePreimage ==
  ASSUME NEW c, IsClosure(c), NEW s, NormalForm(s), Preimage(Normalized(c)) = Preimage(s)
  PROVE  Means(c) = Means(s)
<1> DEFINE n == Len(c.dependencies)
           d == c.dependencies
           e == s.dependencies
           m == Normalized(c)
<1>1. /\ m.lock = s.lock /\ m.resolver = s.resolver /\ m.root = s.root /\ m.dependencies = e
  <2>1. \A x : /\ Preimage(x).lock = x.lock /\ Preimage(x).resolver = x.resolver
               /\ Preimage(x).root = x.root /\ Preimage(x).dependencies = x.dependencies
    BY DEF Preimage
  <2> QED
    BY <2>1, Zenon
<1>2. /\ m.lock = Lower(c.lock) /\ m.resolver = c.resolver /\ m.root = NormalizeDigests(c.root)
      /\ Len(m.dependencies) = n
      /\ \A i \in 1..n : m.dependencies[i] = NormalizeDigests(Sorted(d)[i])
  BY NormalizedParts
<1>3. /\ IsClosure(s) /\ e \in Seq(ArtifactIdentities) /\ NormalizeDigests(s.root) = s.root
      /\ \A i \in DOMAIN e : NormalizeDigests(e[i]) = e[i]
  BY NormalFormIs
<1>4. d \in Seq(ArtifactIdentities) /\ IsDigest(c.lock)
  BY ClosureIs
<1> HIDE DEF m
<1>5. Len(e) = n /\ n \in Nat /\ DOMAIN e = 1..n
  BY <1>1, <1>2, <1>3, <1>4
<1>6. \A i \in 1..n : e[i] = NormalizeDigests(Sorted(d)[i]) /\ NormalizeDigests(e[i]) = e[i]
  BY <1>1, <1>2, <1>3, <1>5
<1>7. /\ \A i \in 1..n : \E p \in 1..n : Sorted(d)[p] = d[i]
      /\ \A p \in 1..n : \E i \in 1..n : Sorted(d)[p] = d[i]
  BY <1>4, SortedHolds, Zenon
<1>8. /\ \A i \in 1..n : \E j \in 1..n : NormalizeDigests(d[i]) = NormalizeDigests(e[j])
      /\ \A j \in 1..n : \E i \in 1..n : NormalizeDigests(d[i]) = NormalizeDigests(e[j])
  <2>1. \A p \in 1..n : NormalizeDigests(e[p]) = NormalizeDigests(Sorted(d)[p])
    BY <1>6, Zenon
  <2> QED
    BY <2>1, <1>7, Zenon
<1>9. c.lock.of = s.lock.of
  BY <1>1, <1>2, <1>4, LowerKeeps, ZenonT(30)
<1>10. c.resolver = s.resolver /\ NormalizeDigests(c.root) = NormalizeDigests(s.root)
  BY <1>1, <1>2, <1>3
<1>11. Alike(c, s)
  BY <1>5, <1>8, <1>9, <1>10 DEF Alike
<1> QED
  BY <1>3, <1>11, MeansIs, Zenon

-----------------------------------------------------------------------------
(* The transfer.                                                           *)
\* What no change on the way touches.
Kept(k, c) ==
  /\ IsClosure(k) /\ k.shape = c.shape /\ k.claim.of = c.claim.of
  /\ k.claim.hex = c.claim.hex /\ k.lock.hex = c.lock.hex

\* A digest spelt in the other case is a digest of the same.
LEMMA SpeltDigest ==
  ASSUME NEW d, IsDigest(d), NEW e, e = [d EXCEPT !.upper = ~@]
  PROVE  IsDigest(e) /\ e.of = d.of /\ e.hex = d.hex
<1>0. \A a, b, u, v : [[of |-> a, hex |-> b, upper |-> u] EXCEPT !.upper = v]
                      = [of |-> a, hex |-> b, upper |-> v]
  OBVIOUS
<1>1. PICK a, b, u : d = [of |-> a, hex |-> b, upper |-> u]
  BY Zenon DEF IsDigest
<1>2. PICK v \in BOOLEAN : v = ~d.upper
  OBVIOUS
<1>3. e = [d EXCEPT !.upper = v]
  BY <1>2
<1>4. e = [of |-> a, hex |-> b, upper |-> v]
  BY <1>0, <1>1, <1>3, Zenon
<1>5. d.of = a /\ d.hex = b
  BY <1>1, Zenon
<1>8. \A f, x, y, z : f = [of |-> x, hex |-> y, upper |-> z] => f.of = x /\ f.hex = y /\ f.upper = z
  OBVIOUS
<1>6. e.of = a /\ e.hex = b /\ e.upper = v
  BY <1>4, <1>8
<1>7. d.hex \in BOOLEAN
  BY DEF IsDigest
<1> QED
  BY <1>2, <1>4, <1>5, <1>6, <1>7, Zenon DEF IsDigest

\* A change of one field keeps the others.
LEMMA ChangedFields ==
  ASSUME NEW c, IsClosure(c)
  PROVE  /\ \A e \in Seq(ArtifactIdentities) : Kept([c EXCEPT !.dependencies = e], c)
         /\ \A x \in ArtifactIdentities : Kept([c EXCEPT !.root = x], c)
         /\ \A v : Kept([c EXCEPT !.resolver = v], c)
         /\ \A d : IsDigest(d) /\ d.hex = c.lock.hex => Kept([c EXCEPT !.lock = d], c)
         /\ \A d : IsDigest(d) /\ d.of = c.claim.of /\ d.hex = c.claim.hex
                   => Kept([c EXCEPT !.claim = d], c)
<1> DEFINE of(l, m, r, o, e) == [shape |-> c.shape, lock |-> l, claim |-> m, resolver |-> r,
                                 root |-> o, dependencies |-> e]
<1>1. /\ c = of(c.lock, c.claim, c.resolver, c.root, c.dependencies)
      /\ IsDigest(c.lock) /\ IsDigest(c.claim) /\ c.root \in ArtifactIdentities
      /\ c.dependencies \in Seq(ArtifactIdentities)
  BY ClosureIs
<1>2. ASSUME NEW l, IsDigest(l), l.hex = c.lock.hex,
             NEW m, IsDigest(m), m.hex = c.claim.hex, m.of = c.claim.of, NEW r,
             NEW o \in ArtifactIdentities, NEW e \in Seq(ArtifactIdentities)
      PROVE  Kept(of(l, m, r, o, e), c)
  <2>1. /\ of(l, m, r, o, e).shape = c.shape /\ of(l, m, r, o, e).lock = l
        /\ of(l, m, r, o, e).claim = m /\ of(l, m, r, o, e).resolver = r
        /\ of(l, m, r, o, e).root = o /\ of(l, m, r, o, e).dependencies = e
    OBVIOUS
  <2>2. IsClosure(of(l, m, r, o, e))
    BY <1>2, ClosureIs
  <2> HIDE DEF of
  <2> QED
    BY <1>2, <2>1, <2>2 DEF Kept
<1>4. ASSUME NEW v
      PROVE  /\ [c EXCEPT !.lock = v] = of(v, c.claim, c.resolver, c.root, c.dependencies)
             /\ [c EXCEPT !.claim = v] = of(c.lock, v, c.resolver, c.root, c.dependencies)
             /\ [c EXCEPT !.resolver = v] = of(c.lock, c.claim, v, c.root, c.dependencies)
             /\ [c EXCEPT !.root = v] = of(c.lock, c.claim, c.resolver, v, c.dependencies)
             /\ [c EXCEPT !.dependencies = v] = of(c.lock, c.claim, c.resolver, c.root, v)
  <2>1. c = [shape |-> c.shape, lock |-> c.lock, claim |-> c.claim, resolver |-> c.resolver,
             root |-> c.root, dependencies |-> c.dependencies]
    BY <1>1
  <2> QED
    BY <2>1
<1> HIDE DEF of
<1>5. ASSUME NEW e \in Seq(ArtifactIdentities) PROVE Kept([c EXCEPT !.dependencies = e], c)
  <2>1. Kept(of(c.lock, c.claim, c.resolver, c.root, e), c)
    BY <1>1, <1>2
  <2> QED
    BY <1>4, <2>1, Zenon
<1>6. ASSUME NEW x \in ArtifactIdentities PROVE Kept([c EXCEPT !.root = x], c)
  <2>1. Kept(of(c.lock, c.claim, c.resolver, x, c.dependencies), c)
    BY <1>1, <1>2
  <2> QED
    BY <1>4, <2>1, Zenon
<1>7. ASSUME NEW v PROVE Kept([c EXCEPT !.resolver = v], c)
  <2>1. Kept(of(c.lock, c.claim, v, c.root, c.dependencies), c)
    BY <1>1, <1>2
  <2> QED
    BY <1>4, <2>1, Zenon
<1>8. ASSUME NEW d, IsDigest(d), d.hex = c.lock.hex PROVE Kept([c EXCEPT !.lock = d], c)
  <2>1. Kept(of(d, c.claim, c.resolver, c.root, c.dependencies), c)
    BY <1>1, <1>2, <1>8
  <2> QED
    BY <1>4, <2>1, Zenon
<1>9. ASSUME NEW d, IsDigest(d), d.of = c.claim.of, d.hex = c.claim.hex
      PROVE  Kept([c EXCEPT !.claim = d], c)
  <2>1. Kept(of(c.lock, d, c.resolver, c.root, c.dependencies), c)
    BY <1>1, <1>2, <1>9
  <2> QED
    BY <1>4, <2>1, Zenon
<1> QED
  BY <1>5, <1>6, <1>7, <1>8, <1>9

\* An order, a spelling or a content changed on the way leaves a closure of the shape
\* the schema asks for, with the claim it had.
LEMMA ChangesKeep ==
  ASSUME NEW c, IsClosure(c), Others \subseteq Nat,
         NEW k \in Reordered(c) \cup Respelt(c) \cup Altered(c)
  PROVE  Kept(k, c)
<1> DEFINE d == c.dependencies
<1>1. /\ IsDigest(c.lock) /\ IsDigest(c.claim) /\ c.root \in ArtifactIdentities /\ d \in Seq(ArtifactIdentities)
  BY ClosureIs
<1>2. DOMAIN d = 1..Len(d) /\ Len(d) \in Nat /\ \A i \in 1..Len(d) : d[i] \in ArtifactIdentities
  BY <1>1
<1>3. CASE k \in Reordered(c)
  <2>1. PICK i \in 1..(Len(d) - 1) :
          k = [c EXCEPT !.dependencies = [@ EXCEPT ![i] = d[i + 1], ![i + 1] = d[i]]]
    BY <1>3 DEF Reordered
  <2>2. [d EXCEPT ![i] = d[i + 1], ![i + 1] = d[i]] \in Seq(ArtifactIdentities)
    BY <1>1
  <2> QED
    BY <2>1, <2>2, ChangedFields
<1>4. ASSUME NEW i \in 1..Len(d), NEW x \in ArtifactIdentities, k = [c EXCEPT !.dependencies[i] = x]
      PROVE  Kept(k, c)
  <2>1. [d EXCEPT ![i] = x] \in Seq(ArtifactIdentities)
    BY <1>1
  <2> QED
    BY <1>4, <2>1, ChangedFields
<1>5. \A x \in ArtifactIdentities : /\ [x EXCEPT !.artifact.upper = ~@] \in ArtifactIdentities
                            /\ [x EXCEPT !.source.upper = ~@] \in ArtifactIdentities
  BY DEF ArtifactIdentities, Digests
<1>6. \A x \in ArtifactIdentities, v \in Nat : /\ [x EXCEPT !.artifact.of = v] \in ArtifactIdentities
                                       /\ [x EXCEPT !.uri = v] \in ArtifactIdentities
                                       /\ [x EXCEPT !.version = v] \in ArtifactIdentities
  BY DEF ArtifactIdentities, Digests
<1>7. CASE k \in Respelt(c)
  <2>1. CASE k = [c EXCEPT !.claim.upper = ~@]
    <3>1. PICK e : e = [c.claim EXCEPT !.upper = ~@]
      OBVIOUS
    <3>2. k = [c EXCEPT !.claim = e]
      BY <2>1, <3>1
    <3>3. IsDigest(e) /\ e.of = c.claim.of /\ e.hex = c.claim.hex
      BY <1>1, <3>1, SpeltDigest
    <3> QED
      BY <3>2, <3>3, ChangedFields, Zenon
  <2>2. CASE k = [c EXCEPT !.lock.upper = ~@]
    <3>1. PICK e : e = [c.lock EXCEPT !.upper = ~@]
      OBVIOUS
    <3>2. k = [c EXCEPT !.lock = e]
      BY <2>2, <3>1
    <3>3. IsDigest(e) /\ e.of = c.lock.of /\ e.hex = c.lock.hex
      BY <1>1, <3>1, SpeltDigest
    <3> QED
      BY <3>2, <3>3, ChangedFields, Zenon
  <2>3. CASE k = [c EXCEPT !.root.source.upper = ~@]
    <3>1. k = [c EXCEPT !.root = [c.root EXCEPT !.source.upper = ~@]]
      BY <2>3
    <3> QED
      BY <1>1, <1>5, <3>1, ChangedFields, Zenon
  <2>4. ASSUME NEW i \in DOMAIN d, k = [c EXCEPT !.dependencies[i].artifact.upper = ~@]
        PROVE  Kept(k, c)
    <3>1. k = [c EXCEPT !.dependencies[i] = [d[i] EXCEPT !.artifact.upper = ~@]]
      BY <2>4
    <3> QED
      BY <1>2, <1>4, <1>5, <3>1, Zenon
  <2> QED
    BY <1>7, <2>1, <2>2, <2>3, <2>4, Zenon DEF Respelt
<1>8. CASE k \in Altered(c)
  <2>1. ASSUME NEW v \in Others, k = [c EXCEPT !.resolver = v]
        PROVE  Kept(k, c)
    BY <2>1, ChangedFields, Zenon
  <2>2. ASSUME NEW v \in Others, k = [c EXCEPT !.root.version = v]
        PROVE  Kept(k, c)
    <3>1. k = [c EXCEPT !.root = [c.root EXCEPT !.version = v]] /\ v \in Nat
      BY <2>2
    <3> QED
      BY <1>1, <1>6, <3>1, ChangedFields, Zenon
  <2>3. ASSUME NEW i \in DOMAIN d, NEW v \in Others, k = [c EXCEPT !.dependencies[i].uri = v]
        PROVE  Kept(k, c)
    <3>1. k = [c EXCEPT !.dependencies[i] = [d[i] EXCEPT !.uri = v]] /\ v \in Nat
      BY <2>3
    <3> QED
      BY <1>2, <1>4, <1>6, <3>1, Zenon
  <2>4. ASSUME NEW i \in DOMAIN d, NEW v \in Others, k = [c EXCEPT !.dependencies[i].artifact.of = v]
        PROVE  Kept(k, c)
    <3>1. k = [c EXCEPT !.dependencies[i] = [d[i] EXCEPT !.artifact.of = v]] /\ v \in Nat
      BY <2>4
    <3> QED
      BY <1>2, <1>4, <1>6, <3>1, Zenon
  <2>5. ASSUME NEW i \in DOMAIN d, k = [c EXCEPT !.dependencies = Append(@, d[i])]
        PROVE  Kept(k, c)
    <3>1. k = [c EXCEPT !.dependencies = Append(d, d[i])]
      BY <2>5
    <3>2. Append(d, d[i]) \in Seq(ArtifactIdentities)
      BY <1>1, <1>2
    <3> QED
      BY <3>1, <3>2, ChangedFields, Zenon
  <2>6. ASSUME NEW i \in DOMAIN d, k = [c EXCEPT !.dependencies = RemoveAt(@, i)]
        PROVE  Kept(k, c)
    <3>1. k = [c EXCEPT !.dependencies = RemoveAt(d, i)]
      BY <2>6
    <3>2. SubSeq(d, 1, i - 1) \in Seq(ArtifactIdentities)
      BY <1>2, SubSeqProperties
    <3>3. SubSeq(d, i + 1, Len(d)) \in Seq(ArtifactIdentities)
      BY <1>2, SubSeqProperties
    <3>4. RemoveAt(d, i) \in Seq(ArtifactIdentities)
      BY <3>2, <3>3, ConcatProperties DEF RemoveAt
    <3> QED
      BY <3>1, <3>4, ChangedFields, Zenon
  <2>7. \/ \E v \in Others : k = [c EXCEPT !.resolver = v] \/ k = [c EXCEPT !.root.version = v]
        \/ \E i \in DOMAIN d, v \in Others :
              \/ k = [c EXCEPT !.dependencies[i].uri = v]
              \/ k = [c EXCEPT !.dependencies[i].artifact.of = v]
        \/ \E i \in DOMAIN d : \/ k = [c EXCEPT !.dependencies = Append(@, d[i])]
                                \/ k = [c EXCEPT !.dependencies = RemoveAt(@, i)]
    BY <1>8, SMTT(30) DEF Altered
  <2> QED
    BY <2>1, <2>2, <2>3, <2>4, <2>5, <2>6, <2>7
<1> QED
  BY <1>3, <1>7, <1>8, Zenon

\* What the answer of the verifier says of the value it was given.
Judged ==
  /\ (verdict.error = "accepted") <=> (Means(closure) = Means(sealed.closure)
                                       /\ closure.claim.of = sealed.closure.claim.of)
  /\ verdict.error = "accepted" => verdict.closure = sealed.closure

\* What was sealed is a normal form, and what arrives still carries its claim.
TransferInv ==
  /\ IsClosure(closure)
  /\ sealed # Unset =>
        /\ sealed = [error |-> "none", closure |-> sealed.closure] /\ NormalForm(sealed.closure)
        /\ closure.shape = sealed.closure.shape /\ closure.claim.of = sealed.closure.claim.of
        /\ closure.claim.hex /\ closure.lock.hex
  /\ sealed # Unset /\ verdict # Unset => Judged

\* What the verifier says of a closure.
Answer(c) == [Verify(c) EXCEPT !.error = IF @ = "none" THEN "accepted" ELSE @]

\* What is verified against a normal form is accepted exactly if it means the same.
LEMMA VerifiedIs ==
  ASSUME NEW c, IsClosure(c), NEW s, NormalForm(s), c.shape = s.shape, c.claim.of = s.claim.of,
         c.claim.hex, c.lock.hex,
         NEW v, v = Answer(c)
  PROVE  /\ v.error = "accepted" <=> Means(c) = Means(s)
         /\ v.error = "accepted" => v.closure = s
<1>1. /\ IsClosure(s) /\ Fine(s) /\ IsDigest(s.claim) /\ s.claim = Digest(s)
  BY NormalFormIs DEF NormalForm
<1>2. IsDigest(c.claim)
  BY ClosureIs
<1>3. ASSUME Means(c) = Means(s) PROVE v.error = "accepted" /\ v.closure = s
  <2>1. Fine(c) /\ Normalized(c) = s
    BY <1>3, WhatMeansTheSame
  <2>2. Verify(c) = [error |-> "none", closure |-> s]
    BY <1>1, <2>1, ErrorIsNone DEF Verify
  <2> QED
    BY <2>2 DEF Answer
<1>4. ASSUME v.error = "accepted" PROVE Means(c) = Means(s)
  <2>1. Verify(c) = [error |-> "none", closure |-> Normalized(c)]
        /\ Normalized(c).claim = Digest(Normalized(c))
    <3>1. CASE ClosureError(c) # "none"
      <4>1. Verify(c) = [error |-> ClosureError(c)]
        BY <3>1 DEF Verify
      <4>2. v.error = ClosureError(c)
        BY <3>1, <4>1 DEF Answer
      <4> QED
        BY <1>4, <4>2, ErrorIsNone
    <3>2. CASE ClosureError(c) = "none" /\ Normalized(c).claim # Digest(Normalized(c))
      <4>1. Verify(c) = [error |-> "digest mismatch"]
        BY <3>2 DEF Verify
      <4>3. \A w : w # "none" =>
              [[error |-> w] EXCEPT !.error = IF @ = "none" THEN "accepted" ELSE @].error = w
        OBVIOUS
      <4>2. v.error = "digest mismatch"
        BY <4>1, <4>3, "digest mismatch" # "none", Zenon DEF Answer
      <4> QED
        BY <1>4, <4>2
    <3>3. CASE ClosureError(c) = "none" /\ Normalized(c).claim = Digest(Normalized(c))
      BY <3>3 DEF Verify
    <3> QED
      BY <3>1, <3>2, <3>3
  <2>2. Normalized(c).claim = Lower(c.claim)
    BY NormalizedParts
  <2>3. Digest(Normalized(c)).of = Digest(s).of
    <3>1. Lower(c.claim).of = c.claim.of
      BY <1>2, LowerKeeps
    <3> QED
      BY <1>1, <2>1, <2>2, <3>1, Zenon
  <2>4. \A x : Digest(x).of = <<Preimage(x)>>
    BY DEF Digest
  <2>5. <<Preimage(Normalized(c))>> = <<Preimage(s)>>
    BY <2>3, <2>4, Zenon
  <2>6. Preimage(Normalized(c)) = Preimage(s)
    <3>1. \A x, y : <<x>> = <<y>> => x = y
      OBVIOUS
    <3> QED
      BY <2>5, <3>1, Zenon
  <2> QED
    BY <2>6, WhatHasThePreimage
<1> QED
  BY <1>3, <1>4

\* What was sealed is a normal form, and the closure on its way keeps its shape and claim.
LEMMA TransferInvHolds ==
  ASSUME ClosureAssumption
  PROVE  TransferSpec => []TransferInv
<1>1. TransferInit => TransferInv
  <2> SUFFICES ASSUME TransferInit PROVE TransferInv
    OBVIOUS
  <2>1. IsClosure(closure) /\ sealed = Unset
    BY DEF TransferInit, ClosureAssumption
  <2> QED
    BY <2>1 DEF TransferInv
<1>2. TransferInv /\ [TransferNext]_transfer => TransferInv'
  <2> SUFFICES ASSUME TransferInv, [TransferNext]_transfer PROVE TransferInv'
    OBVIOUS
  <2>1. CASE Produce
    <3>1. sealed = Unset /\ verdict = Unset /\ IsClosure(closure)
      BY <2>1 DEF Produce, TransferInv
    <3>2. CASE Fine(closure)
      <4>1. PICK m : /\ Recompute(closure) = [error |-> "none", closure |-> m]
                     /\ NormalForm(m) /\ m.shape = closure.shape
        BY <3>1, <3>2, RecomputedIs
      <4>2. sealed' = [error |-> "none", closure |-> m] /\ closure' = m /\ verdict' = Unset
        BY <2>1, <3>1, <4>1 DEF Produce
      <4>3. IsClosure(m) /\ Fine(m)
        BY <4>1 DEF NormalForm
      <4>4. m.claim.hex /\ m.lock.hex
        BY <4>3 DEF Fine
      <4>5. sealed'.closure = m
        BY <4>2
      <4> QED
        BY <4>1, <4>2, <4>3, <4>4, <4>5 DEF TransferInv
    <3>3. CASE ~Fine(closure)
      <4>1. Recompute(closure).error # "none"
        BY <3>1, <3>3, RecomputedIs
      <4>2. sealed' = Unset /\ closure' = closure
        BY <2>1, <3>1, <4>1 DEF Produce
      <4> QED
        BY <3>1, <4>2 DEF TransferInv
    <3> QED
      BY <3>2, <3>3
  <2>2. CASE Change
    <3>1. /\ sealed # Unset /\ verdict = Unset /\ sealed' = sealed /\ verdict' = verdict
          /\ closure' \in Reordered(closure) \cup Respelt(closure) \cup Altered(closure)
      BY <2>2 DEF Change
    <3>2. Kept(closure', closure)
      BY <3>1, ChangesKeep DEF ClosureAssumption, TransferInv
    <3>3. /\ sealed = [error |-> "none", closure |-> sealed.closure] /\ NormalForm(sealed.closure)
          /\ closure.shape = sealed.closure.shape /\ closure.claim.of = sealed.closure.claim.of
          /\ closure.claim.hex /\ closure.lock.hex
      BY <3>1 DEF TransferInv
    <3>4. IsClosure(closure') /\ closure'.shape = closure.shape /\ closure'.claim.of = closure.claim.of
      BY <3>2 DEF Kept
    <3>5. closure'.claim.hex /\ closure'.lock.hex
      BY <3>2, <3>3, Zenon DEF Kept
    <3> QED
      BY <3>1, <3>3, <3>4, <3>5 DEF TransferInv
  <2>3. CASE Receive
    <3>1. /\ sealed # Unset /\ sealed' = sealed /\ closure' = closure
          /\ verdict' = Answer(closure)
      BY <2>3 DEF Receive, Answer
    <3>2. /\ IsClosure(closure)
          /\ sealed = [error |-> "none", closure |-> sealed.closure] /\ NormalForm(sealed.closure)
          /\ closure.shape = sealed.closure.shape /\ closure.claim.of = sealed.closure.claim.of
          /\ closure.claim.hex /\ closure.lock.hex
      BY <3>1 DEF TransferInv
    <3>3. /\ verdict'.error = "accepted" <=> Means(closure) = Means(sealed.closure)
          /\ verdict'.error = "accepted" => verdict'.closure = sealed.closure
      <4>1. ASSUME NEW c, c = closure, NEW s, s = sealed.closure, NEW v, v = verdict'
            PROVE  /\ v.error = "accepted" <=> Means(c) = Means(s)
                   /\ v.error = "accepted" => v.closure = s
        <5>1. /\ IsClosure(c) /\ NormalForm(s) /\ c.shape = s.shape /\ c.claim.of = s.claim.of
              /\ c.claim.hex /\ c.lock.hex
          BY <3>2, <4>1, Zenon
        <5>2. v = Answer(c)
          BY <3>1, <4>1, Zenon
        <5> HIDE <4>1
        <5> QED
          BY <5>1, <5>2, VerifiedIs, Zenon
      <4> QED
        BY <4>1, Zenon
    <3>4. Judged'
      BY <3>1, <3>2, <3>3 DEF Judged
    <3> QED
      BY <3>1, <3>2, <3>4 DEF TransferInv
  <2>4. CASE UNCHANGED transfer
    BY <2>4 DEF TransferInv, Judged, transfer
  <2> QED
    BY <2>1, <2>2, <2>3, <2>4 DEF TransferNext
<1> QED
  BY <1>1, <1>2, PTL DEF TransferSpec

\* A verifier accepts exactly the closures that mean what was sealed, whatever their
\* order and spelling, and what is sealed is the one normal form of its content, for
\* closures of any length (package_security.rs).
THEOREM ClosuresHold ==
  ASSUME ClosureAssumption
  PROVE  TransferSpec => []ClosureTrue
<1>1. TransferInv => ClosureTrue
  <2> SUFFICES ASSUME TransferInv PROVE ClosureTrue
    OBVIOUS
  <2> DEFINE s == sealed.closure
  <2>1. ASSUME sealed # Unset
        PROVE  /\ \A i, j \in DOMAIN s.dependencies :
                     i < j => KeyBefore(SortKey(s.dependencies[i]), SortKey(s.dependencies[j]))
               /\ \A i \in DOMAIN s.dependencies : SortKey(s.dependencies[i]) # SortKey(s.root)
               /\ Recompute(s) = sealed /\ Verify(s) = sealed
    <3>1. sealed = [error |-> "none", closure |-> s] /\ NormalForm(s)
      BY <2>1 DEF TransferInv
    <3>2. Recompute(s) = sealed /\ Verify(s) = sealed
      BY <3>1, NormalFormHolds, Zenon
    <3>3. Ascending(s.dependencies) /\ Fine(s)
      BY <3>1 DEF NormalForm
    <3> HIDE DEF s
    <3> QED
      BY <3>2, <3>3 DEF Ascending, Fine
  <2>2. sealed # Unset /\ verdict # Unset => Judged
    BY DEF TransferInv
  <2> QED
    BY <2>1, <2>2, Zenon DEF ClosureTrue, Judged
<1> QED
  BY <1>1, TransferInvHolds, PTL

-----------------------------------------------------------------------------
(* Namespace plans: the entry of each provider, and the order of a plan.   *)
\* The steps Dart builds are the steps Rust and TypeScript build.
LEMMA DartSteps ==
  ASSUME NEW act
  PROVE  /\ DartStep(act) = Task(act, FALSE, FALSE)
         /\ Before(DartStep(act)) = Task(act, FALSE, TRUE)
         /\ ByHand(act) = Task(act, TRUE, TRUE)
<1>1. \A a, m, n, v : [[act |-> a, manual |-> m, needs |-> n] EXCEPT !.needs = v]
                      = [act |-> a, manual |-> m, needs |-> v]
  OBVIOUS
<1>9. \A a, m, n, v : [[act |-> a, manual |-> m, needs |-> n] EXCEPT !.manual = v]
                      = [act |-> a, manual |-> v, needs |-> n]
  OBVIOUS
<1>2. DartStep(act) = [act |-> act, manual |-> FALSE, needs |-> FALSE]
  BY Zenon DEF DartStep
<1>6. [DartStep(act) EXCEPT !.manual = TRUE]
        = [[act |-> act, manual |-> FALSE, needs |-> FALSE] EXCEPT !.manual = TRUE]
  BY <1>2, Zenon
<1>7. [DartStep(act) EXCEPT !.manual = TRUE] = [act |-> act, manual |-> TRUE, needs |-> FALSE]
  BY <1>9, <1>6, ZenonT(30)
<1>8. Before(DartStep(act)) = [[act |-> act, manual |-> FALSE, needs |-> FALSE] EXCEPT !.needs = TRUE]
  BY <1>2, Zenon DEF Before
<1>3. Before(DartStep(act)) = [act |-> act, manual |-> FALSE, needs |-> TRUE]
  BY <1>1, <1>8, Zenon
<1>4. ByHand(act) = [[act |-> act, manual |-> TRUE, needs |-> FALSE] EXCEPT !.needs = TRUE]
  BY <1>7, Zenon DEF Before, ByHand
<1>5. ByHand(act) = [act |-> act, manual |-> TRUE, needs |-> TRUE]
  BY <1>1, <1>4, Zenon
<1> QED
  BY <1>3, <1>5, Zenon DEF DartStep, Task

\* Short lists of tasks, joined.
LEMMA Joined ==
  ASSUME NEW a, NEW b, NEW c, NEW d
  PROVE  /\ <<a, b>> \o <<c, d>> = <<a, b, c, d>> /\ <<a, b>> \o <<c>> = <<a, b, c>>
         /\ Append(<<a, b>>, c) = <<a, b, c>>
<1> DEFINE S == {a, b, c, d}
<1>1. /\ <<a, b>> \in Seq(S) /\ <<c, d>> \in Seq(S) /\ <<c>> \in Seq(S) /\ c \in S
      /\ <<a, b, c, d>> \in Seq(S) /\ <<a, b, c>> \in Seq(S)
  OBVIOUS
<1>2. /\ Len(<<a, b>>) = 2 /\ Len(<<c, d>>) = 2 /\ Len(<<c>>) = 1
      /\ Len(<<a, b, c, d>>) = 4 /\ Len(<<a, b, c>>) = 3
  OBVIOUS
<1> HIDE DEF S
<1>3. <<a, b>> \o <<c, d>> = <<a, b, c, d>>
  <2> DEFINE t == <<a, b>> \o <<c, d>>
  <2>1. /\ t \in Seq(S) /\ Len(t) = 4
        /\ \A i \in 1..4 : t[i] = IF i <= 2 THEN <<a, b>>[i] ELSE <<c, d>>[i - 2]
    BY <1>1, <1>2, ConcatProperties
  <2>2. \A i \in 1..4 : i \in {1, 2, 3, 4}
    OBVIOUS
  <2> HIDE DEF t
  <2>3. t[1] = a /\ t[2] = b /\ t[3] = c /\ t[4] = d
    BY <2>1
  <2>4. \A i \in 1..4 : t[i] = <<a, b, c, d>>[i]
    BY <2>2, <2>3
  <2> QED
    BY <1>1, <1>2, <2>1, <2>4, SeqEqual DEF t
<1>4. <<a, b>> \o <<c>> = <<a, b, c>>
  <2> DEFINE t == <<a, b>> \o <<c>>
  <2>1. /\ t \in Seq(S) /\ Len(t) = 3
        /\ \A i \in 1..3 : t[i] = IF i <= 2 THEN <<a, b>>[i] ELSE <<c>>[i - 2]
    BY <1>1, <1>2, ConcatProperties
  <2>2. \A i \in 1..3 : i \in {1, 2, 3}
    OBVIOUS
  <2> HIDE DEF t
  <2>3. t[1] = a /\ t[2] = b /\ t[3] = c
    BY <2>1
  <2>4. \A i \in 1..3 : t[i] = <<a, b, c>>[i]
    BY <2>2, <2>3
  <2> QED
    BY <1>1, <1>2, <2>1, <2>4, SeqEqual DEF t
<1>5. Append(<<a, b>>, c) = <<a, b, c>>
  BY <1>1, <1>4, AppendIsConcat
<1> QED
  BY <1>3, <1>4, <1>5

\* What the three planners' entries for a provider must have in common.
Coordinated(r, provider, rust, ts, dart) ==
  /\ rust.provider = provider
  /\ dart = ts
  /\ Summary(ts) = Summary(rust) /\ StepsAgree(ts, rust)
  /\ EntrySound(r, rust) /\ EntrySound(r, ts)

\* One step of a mirror, compared with the reference's.
Compared(step, rust) == step.manual = rust.manual /\ (step.needs => rust.needs)

\* Two entries of four steps agree if each pair of steps does.
LEMMA FourAgree ==
  ASSUME NEW e, NEW f, NEW a, NEW b, NEW c, NEW d, NEW w, NEW x, NEW y, NEW z,
         e.steps = <<a, b, c, d>>, f.steps = <<w, x, y, z>>,
         Compared(a, w), Compared(b, x), Compared(c, y), Compared(d, z)
  PROVE  StepsAgree(e, f)
<1>1. DOMAIN e.steps = {1, 2, 3, 4} /\ DOMAIN f.steps = {1, 2, 3, 4}
  OBVIOUS
<1>2. \A i \in {1, 2, 3, 4} : Compared(e.steps[i], f.steps[i])
  OBVIOUS
<1> QED
  BY <1>1, <1>2, Zenon DEF StepsAgree, Compared

\* The same of three steps.
LEMMA ThreeAgree ==
  ASSUME NEW e, NEW f, NEW a, NEW b, NEW c, NEW x, NEW y, NEW z,
         e.steps = <<a, b, c>>, f.steps = <<x, y, z>>,
         Compared(a, x), Compared(b, y), Compared(c, z)
  PROVE  StepsAgree(e, f)
<1>1. DOMAIN e.steps = {1, 2, 3} /\ DOMAIN f.steps = {1, 2, 3}
  OBVIOUS
<1>2. \A i \in {1, 2, 3} : Compared(e.steps[i], f.steps[i])
  OBVIOUS
<1> QED
  BY <1>1, <1>2, Zenon DEF StepsAgree, Compared

\* A task compares with itself, and one that names no prerequisite with any that does.
LEMMA TasksCompare ==
  ASSUME NEW act, NEW manual, NEW needs
  PROVE  /\ Compared(Task(act, manual, needs), Task(act, manual, needs))
         /\ Compared(Task(act, manual, FALSE), Task(act, manual, TRUE))
BY DEF Compared, Task

\* An entry agrees with itself.
LEMMA AgreesWithItself ==
  ASSUME NEW entry PROVE StepsAgree(entry, entry)
BY DEF StepsAgree

\* Three planners describe npm alike.
LEMMA NpmCoordinated ==
  ASSUME NEW r PROVE Coordinated(r, "npm", RustNpm(r), TsNpm(r), DartNpm(r))
<1> DEFINE of(evidence) ==
      Entry("npm", NpmScope(r), NotGiven, "manual-action-required", <<"registry-account-control">>,
            <<Task("check-availability", FALSE, FALSE), Task("create-organization", TRUE, TRUE),
              evidence>>)
<1>1. /\ RustNpm(r) = of(Task("record-ownership-evidence", FALSE, TRUE))
      /\ TsNpm(r) = of(Task("record-ownership-evidence", FALSE, TRUE))
  BY DEF RustNpm, TsNpm, TsStep, TsManual
<1>2. DartNpm(r) = of(Task("record-ownership-evidence", FALSE, TRUE))
  BY DartSteps, Zenon DEF DartNpm
<1>3. EntrySound(r, of(Task("record-ownership-evidence", FALSE, TRUE)))
  BY DEF EntrySound, Entry, Task, NpmScope, NotGiven, ProofOf, Domain, GroupId, IoGithub, Name, Range
<1>4. of(Task("record-ownership-evidence", FALSE, TRUE)).provider = "npm"
  BY DEF Entry
<1> HIDE DEF of
<1> QED
  BY <1>1, <1>2, <1>3, <1>4, AgreesWithItself, Zenon DEF Coordinated

\* They describe Maven Central alike.
LEMMA MavenCoordinated ==
  ASSUME NEW r PROVE Coordinated(r, "maven-central", RustMaven(r), TsMaven(r), DartMaven(r))
<1> DEFINE check == Task("check-availability", FALSE, FALSE)
           register == Task("register-namespace", TRUE, TRUE)
           given(coordinate, proof, steps) ==
             Entry("maven-central", coordinate, NotGiven, "manual-action-required",
                   <<"registry-account-control", proof>>, steps)
           byDomain(needs) ==
             given(GroupId(r), "domain-control",
                   <<check, register, Task("verify-domain", TRUE, TRUE),
                     Task("record-ownership-evidence", FALSE, needs)>>)
           byOwner ==
             given(IoGithub(r), "github-account-control",
                   <<check, register, Task("record-ownership-evidence", TRUE, TRUE)>>)
           missing ==
             Entry("maven-central", NotGiven, NotGiven, "missing-prerequisite",
                   <<"domain-control", "github-account-control">>,
                   <<Task("register-namespace", FALSE, TRUE)>>)
<1>1. CASE r.domain # NotGiven
  <2>1. RustMaven(r) = byDomain(TRUE)
    BY <1>1, Joined DEF RustMaven
  <2>2. TsMaven(r) = byDomain(FALSE)
    BY <1>1, Joined DEF TsMaven, TsStep, TsManual
  <2>3. DartMaven(r) = given(GroupId(r), "domain-control",
                             <<DartStep("check-availability"), ByHand("register-namespace"),
                               ByHand("verify-domain"), DartStep("record-ownership-evidence")>>)
    BY <1>1, Joined DEF DartMaven
  <2>4. DartMaven(r) = byDomain(FALSE)
    BY <2>3, DartSteps, Zenon
  <2>5. EntrySound(r, byDomain(TRUE)) /\ EntrySound(r, byDomain(FALSE))
    BY DEF EntrySound, Entry, Task, NotGiven, ProofOf, Domain, GroupId, NpmScope, IoGithub, Name, Range
  <2>6. Summary(byDomain(FALSE)) = Summary(byDomain(TRUE)) /\ byDomain(TRUE).provider = "maven-central"
    BY DEF Summary, Entry, Task
  <2>7. StepsAgree(byDomain(FALSE), byDomain(TRUE))
    <3> DEFINE verify == Task("verify-domain", TRUE, TRUE)
               evidence(needs) == Task("record-ownership-evidence", FALSE, needs)
    <3>1. /\ byDomain(FALSE).steps = <<check, register, verify, evidence(FALSE)>>
          /\ byDomain(TRUE).steps = <<check, register, verify, evidence(TRUE)>>
      BY DEF Entry
    <3>2. /\ Compared(check, check) /\ Compared(register, register)
          /\ Compared(verify, verify) /\ Compared(evidence(FALSE), evidence(TRUE))
      BY TasksCompare, Zenon
    <3> QED BY <3>1, <3>2, FourAgree
  <2> HIDE DEF byDomain
  <2> QED
    BY <2>1, <2>2, <2>4, <2>5, <2>6, <2>7, Zenon DEF Coordinated
<1>2. CASE r.domain = NotGiven /\ r.owner # NotGiven
  <2>1. RustMaven(r) = byOwner
    BY <1>2, Joined DEF RustMaven
  <2>2. TsMaven(r) = byOwner
    BY <1>2, Joined DEF TsMaven, TsStep, TsManual
  <2>3. DartMaven(r) = given(IoGithub(r), "github-account-control",
                             <<DartStep("check-availability"), ByHand("register-namespace"),
                               ByHand("record-ownership-evidence")>>)
    BY <1>2, Joined DEF DartMaven
  <2>4. DartMaven(r) = byOwner
    BY <2>3, DartSteps, Zenon
  <2>5. EntrySound(r, byOwner)
    BY DEF EntrySound, Entry, Task, NotGiven, ProofOf, Domain, GroupId, NpmScope, IoGithub, Name, Range
  <2>6. byOwner.provider = "maven-central"
    BY DEF Entry
  <2> HIDE DEF byOwner
  <2> QED
    BY <2>1, <2>2, <2>4, <2>5, <2>6, AgreesWithItself, Zenon DEF Coordinated
<1>3. CASE r.domain = NotGiven /\ r.owner = NotGiven
  <2>1. RustMaven(r) = missing
    BY <1>3 DEF RustMaven
  <2>2. TsMaven(r) = missing
    BY <1>3 DEF TsMaven
  <2>3. DartMaven(r) = Entry("maven-central", NotGiven, NotGiven, "missing-prerequisite",
                             <<"domain-control", "github-account-control">>,
                             <<Before(DartStep("register-namespace"))>>)
    BY <1>3 DEF DartMaven
  <2>4. DartMaven(r) = missing
    BY <2>3, DartSteps, Zenon
  <2>5. EntrySound(r, missing)
    BY DEF EntrySound, Entry, Task, NotGiven
  <2>6. missing.provider = "maven-central"
    BY DEF Entry
  <2> HIDE DEF missing
  <2> QED
    BY <2>1, <2>2, <2>4, <2>5, <2>6, AgreesWithItself, Zenon DEF Coordinated
<1> QED
  BY <1>1, <1>2, <1>3

\* They describe crates.io alike.
LEMMA CratesCoordinated ==
  ASSUME NEW r PROVE Coordinated(r, "crates-io", RustCrates(r), TsCrates(r), DartCrates(r))
<1> DEFINE of(needs) ==
      Entry("crates-io", NotGiven, Prefix(r), "not-reservable", <<"existing-package-ownership">>,
            <<Task("check-availability", FALSE, FALSE), Task("publish-first-package", FALSE, TRUE),
              Task("add-owner-team", FALSE, needs), Task("record-ownership-evidence", FALSE, needs)>>)
<1>1. RustCrates(r) = of(TRUE) /\ TsCrates(r) = of(FALSE)
  BY DEF RustCrates, TsCrates, TsStep
<1>2. DartCrates(r) = of(FALSE)
  BY DartSteps, Zenon DEF DartCrates
<1>3. EntrySound(r, of(TRUE)) /\ EntrySound(r, of(FALSE))
  BY DEF EntrySound, Entry, Task, NotGiven, Prefix
<1>4. Summary(of(FALSE)) = Summary(of(TRUE)) /\ of(TRUE).provider = "crates-io"
  BY DEF Summary, Entry, Task
<1>5. StepsAgree(of(FALSE), of(TRUE))
  <2> DEFINE check == Task("check-availability", FALSE, FALSE)
             publish == Task("publish-first-package", FALSE, TRUE)
             owners(needs) == Task("add-owner-team", FALSE, needs)
             evidence(needs) == Task("record-ownership-evidence", FALSE, needs)
  <2>1. /\ of(FALSE).steps = <<check, publish, owners(FALSE), evidence(FALSE)>>
        /\ of(TRUE).steps = <<check, publish, owners(TRUE), evidence(TRUE)>>
    BY DEF Entry
  <2>2. /\ Compared(check, check) /\ Compared(publish, publish)
        /\ Compared(owners(FALSE), owners(TRUE)) /\ Compared(evidence(FALSE), evidence(TRUE))
    BY TasksCompare, Zenon
  <2> QED BY <2>1, <2>2, FourAgree
<1> HIDE DEF of
<1> QED
  BY <1>1, <1>2, <1>3, <1>4, <1>5, Zenon DEF Coordinated

\* They describe pub.dev alike.
LEMMA PubCoordinated ==
  ASSUME NEW r PROVE Coordinated(r, "pub-dev", RustPub(r), TsPub(r), DartPub(r))
<1> DEFINE of(needs) ==
      Entry("pub-dev", Domain(r), NotGiven, "manual-action-required",
            <<"registry-account-control", "domain-control">>,
            <<Task("verify-domain", TRUE, TRUE), Task("create-publisher", TRUE, TRUE),
              Task("record-ownership-evidence", FALSE, needs)>>)
           missing ==
      Entry("pub-dev", NotGiven, NotGiven, "missing-prerequisite", <<"domain-control">>,
            <<Task("verify-domain", TRUE, TRUE)>>)
<1>1. CASE r.domain # NotGiven
  <2>1. RustPub(r) = of(TRUE) /\ TsPub(r) = of(FALSE)
    BY <1>1 DEF RustPub, TsPub, TsStep, TsManual
  <2>2. DartPub(r) = Entry("pub-dev", Domain(r), NotGiven, "manual-action-required",
                           <<"registry-account-control", "domain-control">>,
                           <<ByHand("verify-domain"), ByHand("create-publisher"),
                             DartStep("record-ownership-evidence")>>)
    BY <1>1 DEF DartPub
  <2>3. DartPub(r) = of(FALSE)
    BY <2>2, DartSteps, Zenon
  <2>4. EntrySound(r, of(TRUE)) /\ EntrySound(r, of(FALSE))
    BY DEF EntrySound, Entry, Task, NotGiven, ProofOf, Domain, GroupId, NpmScope, IoGithub, Name, Range
  <2>5. Summary(of(FALSE)) = Summary(of(TRUE)) /\ of(TRUE).provider = "pub-dev"
    BY DEF Summary, Entry, Task
  <2>6. StepsAgree(of(FALSE), of(TRUE))
    <3> DEFINE verify == Task("verify-domain", TRUE, TRUE)
               publisher == Task("create-publisher", TRUE, TRUE)
               evidence(needs) == Task("record-ownership-evidence", FALSE, needs)
    <3>1. /\ of(FALSE).steps = <<verify, publisher, evidence(FALSE)>>
          /\ of(TRUE).steps = <<verify, publisher, evidence(TRUE)>>
      BY DEF Entry
    <3>2. /\ Compared(verify, verify) /\ Compared(publisher, publisher)
          /\ Compared(evidence(FALSE), evidence(TRUE))
      BY TasksCompare, Zenon
    <3> QED BY <3>1, <3>2, ThreeAgree
  <2> HIDE DEF of
  <2> QED
    BY <2>1, <2>3, <2>4, <2>5, <2>6, Zenon DEF Coordinated
<1>2. CASE r.domain = NotGiven
  <2>1. RustPub(r) = missing /\ TsPub(r) = missing
    BY <1>2 DEF RustPub, TsPub, TsManual
  <2>2. DartPub(r) = Entry("pub-dev", NotGiven, NotGiven, "missing-prerequisite",
                           <<"domain-control">>, <<ByHand("verify-domain")>>)
    BY <1>2 DEF DartPub
  <2>3. DartPub(r) = missing
    BY <2>2, DartSteps, Zenon
  <2>4. EntrySound(r, missing) /\ missing.provider = "pub-dev"
    BY DEF EntrySound, Entry, Task, NotGiven
  <2> HIDE DEF missing
  <2> QED
    BY <2>1, <2>3, <2>4, AgreesWithItself, Zenon DEF Coordinated
<1> QED
  BY <1>1, <1>2

\* They describe a forge alike.
LEMMA ForgeCoordinated ==
  ASSUME NEW r, NEW provider, NEW act
  PROVE  Coordinated(r, provider, RustForge(provider, act, r), TsForge(provider, act, r),
                     DartForge(provider, act, r))
<1> DEFINE of(needs) ==
      Entry(provider, Name(r), NotGiven, "manual-action-required", <<"forge-administrator">>,
            <<Task("check-availability", FALSE, FALSE), Task(act, TRUE, TRUE),
              Task("record-ownership-evidence", FALSE, needs)>>)
<1>1. RustForge(provider, act, r) = of(TRUE) /\ TsForge(provider, act, r) = of(FALSE)
  BY DEF RustForge, TsForge, TsStep, TsManual
<1>2. DartForge(provider, act, r) = of(FALSE)
  BY DartSteps, Zenon DEF DartForge
<1>3. EntrySound(r, of(TRUE)) /\ EntrySound(r, of(FALSE))
  BY DEF EntrySound, Entry, Task, NotGiven, ProofOf, Domain, GroupId, NpmScope, IoGithub, Name, Range
<1>4. Summary(of(FALSE)) = Summary(of(TRUE)) /\ of(TRUE).provider = provider
  BY DEF Summary, Entry, Task
<1>5. StepsAgree(of(FALSE), of(TRUE))
  <2> DEFINE check == Task("check-availability", FALSE, FALSE)
             create == Task(act, TRUE, TRUE)
             evidence(needs) == Task("record-ownership-evidence", FALSE, needs)
  <2>1. /\ of(FALSE).steps = <<check, create, evidence(FALSE)>>
        /\ of(TRUE).steps = <<check, create, evidence(TRUE)>>
    BY DEF Entry
  <2>2. /\ Compared(check, check) /\ Compared(create, create)
        /\ Compared(evidence(FALSE), evidence(TRUE))
    BY TasksCompare, Zenon
  <2> QED BY <2>1, <2>2, ThreeAgree
<1> HIDE DEF of
<1> QED
  BY <1>1, <1>2, <1>3, <1>4, <1>5, Zenon DEF Coordinated

\* So they describe every provider alike.
LEMMA ProvidersCoordinated ==
  ASSUME NEW r, NEW p \in Providers
  PROVE  Coordinated(r, p, RustProvider(r, p), TsProvider(r, p), DartProvider(r, p))
<1>1. p \in {"npm", "maven-central", "crates-io", "pub-dev", "github", "gitlab-com", "bitbucket-cloud"}
  BY DEF Providers, ProviderOrder, Range
<1>2. CASE p = "npm"
  BY <1>2, NpmCoordinated DEF RustProvider, TsProvider, DartProvider
<1>3. CASE p = "maven-central"
  BY <1>3, MavenCoordinated DEF RustProvider, TsProvider, DartProvider
<1>4. CASE p = "crates-io"
  BY <1>4, CratesCoordinated DEF RustProvider, TsProvider, DartProvider
<1>5. CASE p = "pub-dev"
  BY <1>5, PubCoordinated DEF RustProvider, TsProvider, DartProvider
<1>6. CASE p = "github"
  BY <1>6, ForgeCoordinated DEF RustProvider, TsProvider, DartProvider
<1>7. CASE p = "gitlab-com"
  BY <1>7, ForgeCoordinated DEF RustProvider, TsProvider, DartProvider
<1>8. CASE p = "bitbucket-cloud"
  BY <1>8, ForgeCoordinated DEF RustProvider, TsProvider, DartProvider
<1> QED
  BY <1>1, <1>2, <1>3, <1>4, <1>5, <1>6, <1>7, <1>8

\* Every provider has a place of its own in the order of the plans.
LEMMA PlacesAre ==
  /\ \A p \in Providers : OrderOf(p) \in 1..7 /\ ProviderOrder[OrderOf(p)] = p
  /\ \A p, q \in Providers : OrderOf(p) = OrderOf(q) => p = q
<1>1. \A p \in Providers : OrderOf(p) \in 1..7 /\ ProviderOrder[OrderOf(p)] = p
  BY DEF OrderOf, Providers, Range, ProviderOrder
<1>2. ASSUME NEW p \in Providers, NEW q \in Providers, OrderOf(p) = OrderOf(q) PROVE p = q
  <2>1. ProviderOrder[OrderOf(p)] = p /\ ProviderOrder[OrderOf(q)] = q
    BY <1>1
  <2> QED
    BY <1>2, <2>1, Zenon
<1> QED
  BY <1>1, <1>2

\* The providers of a request, each once, in the contract's order.
LEMMA ByPlaceIs ==
  ASSUME NEW ps \in Seq(Providers), NEW n, n = Len(ps)
  PROVE  /\ ByPlace(ps) \in Seq(Providers) /\ Len(ByPlace(ps)) = n
         /\ \A i \in 1..n : \E p \in 1..n : ByPlace(ps)[p] = ps[i]
         /\ \A p \in 1..n : \E i \in 1..n : ByPlace(ps)[p] = ps[i]
         /\ IsInjective(ps) => \A p, q \in 1..n : p < q => OrderOf(ByPlace(ps)[p]) < OrderOf(ByPlace(ps)[q])
<1> DEFINE place == [i \in 1..n |-> OrderOf(ps[i])]
           before == {p \in (1..n) \X (1..n) : place[p[1]] < place[p[2]]}
           order == InOrder(n, before)
<1>1. n \in Nat /\ DOMAIN ps = 1..n /\ \A i \in 1..n : ps[i] \in Providers
  OBVIOUS
<1>2. \A i \in 1..n : place[i] = OrderOf(ps[i]) /\ place[i] \in 1..7
  BY <1>1, PlacesAre
<1>p. \A i \in 1..n : place[i] \in Int
  <2>1. \A x \in 1..7 : x \in Int
    OBVIOUS
  <2> QED
    BY <1>2, <2>1, Zenon
<1>3. ByPlace(ps) = [i \in 1..n |-> ps[order[i]]]
  <2>1. before = {p \in (1..n) \X (1..n) : OrderOf(ps[p[1]]) < OrderOf(ps[p[2]])}
    OBVIOUS
  <2> QED
    BY <1>1, <2>1, Zenon DEF ByPlace
<1> HIDE DEF place
<1>4. \A i, j \in 1..n : <<i, j>> \in before <=> place[i] < place[j]
  OBVIOUS
<1> HIDE DEF before
<1>5. IsWeakOrder(before, n)
  <2>1. \A i \in 1..n : <<i, i>> \notin before
    BY <1>2, <1>4
  <2>2. \A i, j, k \in 1..n : <<i, j>> \in before /\ <<j, k>> \in before => <<i, k>> \in before
    <3> SUFFICES ASSUME NEW i \in 1..n, NEW j \in 1..n, NEW k \in 1..n,
                        place[i] < place[j], place[j] < place[k]
                 PROVE  place[i] < place[k]
      BY <1>4, Zenon
    <3>1. place[i] \in Int /\ place[j] \in Int /\ place[k] \in Int
      BY <1>p
    <3> QED
      BY <3>1
  <2>3. ASSUME NEW i \in 1..n, NEW j \in 1..n, NEW k \in 1..n, <<i, j>> \in before
        PROVE  <<i, k>> \in before \/ <<k, j>> \in before
    <3>1. place[i] < place[j]
      BY <1>4, <2>3
    <3>2. place[i] < place[k] \/ place[k] < place[j]
      BY <1>2, <3>1
    <3> QED
      BY <1>4, <3>2
  <2> QED
    BY <2>1, <2>2, <2>3 DEF IsWeakOrder
<1>6. /\ order \in [1..n -> 1..n]
      /\ \A i \in 1..n : \E p \in 1..n : order[p] = i
      /\ \A p, q \in 1..n : p < q => Earlier(before, order[p], order[q])
  BY <1>1, <1>5, SortOrder
<1> HIDE DEF order
<1>7. ByPlace(ps) \in Seq(Providers) /\ Len(ByPlace(ps)) = n
  BY <1>1, <1>3, <1>6
<1>8. \A p \in 1..n : order[p] \in 1..n /\ ByPlace(ps)[p] = ps[order[p]]
  BY <1>3, <1>6
<1>9. ASSUME IsInjective(ps), NEW p \in 1..n, NEW q \in 1..n, p < q
      PROVE  OrderOf(ByPlace(ps)[p]) < OrderOf(ByPlace(ps)[q])
  <2>1. Earlier(before, order[p], order[q]) /\ order[p] # order[q]
    BY <1>1, <1>5, <1>6, <1>8, <1>9, EarlierIsTotal
  <2>4. place[order[p]] \in Int /\ place[order[q]] \in Int
    BY <1>8, <1>p
  <2>5. ~(place[order[q]] < place[order[p]])
    <3>1. place[order[p]] < place[order[q]] \/ ~(place[order[q]] < place[order[p]])
      BY <1>4, <1>8, <2>1, Zenon DEF Earlier
    <3> QED
      BY <2>4, <3>1
  <2>3. place[order[p]] # place[order[q]]
    BY <1>1, <1>2, <1>8, <1>9, <2>1, PlacesAre DEF IsInjective
  <2>6. place[order[p]] < place[order[q]]
    BY <2>3, <2>4, <2>5
  <2> QED
    BY <1>2, <1>8, <2>6, ZenonT(30)
<1>10. \A i \in 1..n : \E p \in 1..n : ByPlace(ps)[p] = ps[i]
  <2> TAKE i \in 1..n
  <2>1. PICK p \in 1..n : order[p] = i
    BY <1>6, Zenon
  <2> QED
    BY <1>8, <2>1, Zenon
<1>11. \A p \in 1..n : \E i \in 1..n : ByPlace(ps)[p] = ps[i]
  BY <1>8, Zenon
<1>12. IsInjective(ps) => \A p, q \in 1..n :
          p < q => OrderOf(ByPlace(ps)[p]) < OrderOf(ByPlace(ps)[q])
  BY <1>9, Zenon
<1> QED
  BY <1>7, <1>10, <1>11, <1>12, Zenon

\* The same, of the list's own length.
LEMMA ByPlaceHolds ==
  ASSUME NEW ps \in Seq(Providers), IsInjective(ps)
  PROVE  /\ ByPlace(ps) \in Seq(Providers) /\ Len(ByPlace(ps)) = Len(ps)
         /\ \A i \in 1..Len(ps) : \E p \in 1..Len(ps) : ByPlace(ps)[p] = ps[i]
         /\ \A p \in 1..Len(ps) : \E i \in 1..Len(ps) : ByPlace(ps)[p] = ps[i]
         /\ \A p, q \in 1..Len(ps) : p < q => OrderOf(ByPlace(ps)[p]) < OrderOf(ByPlace(ps)[q])
<1> DEFINE holds(n) ==
      /\ ByPlace(ps) \in Seq(Providers) /\ Len(ByPlace(ps)) = n
      /\ \A i \in 1..n : \E p \in 1..n : ByPlace(ps)[p] = ps[i]
      /\ \A p \in 1..n : \E i \in 1..n : ByPlace(ps)[p] = ps[i]
      /\ IsInjective(ps) => \A p, q \in 1..n : p < q => OrderOf(ByPlace(ps)[p]) < OrderOf(ByPlace(ps)[q])
<1>1. \A n : n = Len(ps) => holds(n)
  BY ByPlaceIs
<1>2. holds(Len(ps))
  BY <1>1, Zenon
<1> QED
  BY <1>2, Zenon

\* The plans of a request whose providers are each named once.
LEMMA PlansOf ==
  ASSUME NEW r, r.providers \in Seq(Providers), IsInjective(r.providers), NEW rust, rust = RustPlan(r)
  PROVE  /\ DartPlan(r) = TsPlan(r) /\ Summaries(TsPlan(r)) = Summaries(rust)
         /\ \A i \in DOMAIN rust : StepsAgree(TsPlan(r)[i], rust[i])
         /\ {rust[i].provider : i \in DOMAIN rust} = Range(r.providers)
         /\ \A i, j \in DOMAIN rust : i < j => OrderOf(rust[i].provider) < OrderOf(rust[j].provider)
         /\ \A plan \in {rust, TsPlan(r)} : \A i \in DOMAIN plan : EntrySound(r, plan[i])
<1> DEFINE ps == r.providers
           n == Len(ps)
           s == ByPlace(ps)
           ts == TsPlan(r)
           dart == DartPlan(r)
<1>1. n \in Nat /\ DOMAIN ps = 1..n
  OBVIOUS
<1>2. /\ s \in Seq(Providers) /\ Len(s) = n
      /\ \A i \in 1..n : \E p \in 1..n : s[p] = ps[i]
      /\ \A p \in 1..n : \E i \in 1..n : s[p] = ps[i]
      /\ \A p, q \in 1..n : p < q => OrderOf(s[p]) < OrderOf(s[q])
  BY ByPlaceHolds, Zenon
<1>3. DOMAIN s = 1..n /\ \A i \in 1..n : s[i] \in Providers
  <2>1. \A q \in Seq(Providers) : DOMAIN q = 1..Len(q) /\ \A i \in 1..Len(q) : q[i] \in Providers
    OBVIOUS
  <2> QED
    BY <1>2, <2>1, Zenon
<1>4. /\ rust = [i \in 1..n |-> RustProvider(r, s[i])]
      /\ ts = [i \in 1..n |-> TsProvider(r, s[i])]
      /\ dart = [i \in 1..n |-> DartProvider(r, s[i])]
  BY <1>1, <1>3, Zenon DEF RustPlan, TsPlan, DartPlan
<1> HIDE DEF n, s, ts, dart
<1>5. DOMAIN rust = 1..n /\ DOMAIN ts = 1..n /\ DOMAIN dart = 1..n
  BY <1>4
<1>6. \A i \in 1..n : /\ rust[i].provider = s[i] /\ dart[i] = ts[i]
                      /\ Summary(ts[i]) = Summary(rust[i]) /\ StepsAgree(ts[i], rust[i])
                      /\ EntrySound(r, rust[i]) /\ EntrySound(r, ts[i])
  <2> TAKE i \in 1..n
  <2>1. Coordinated(r, s[i], RustProvider(r, s[i]), TsProvider(r, s[i]), DartProvider(r, s[i]))
    BY <1>3, ProvidersCoordinated
  <2>2. /\ rust[i] = RustProvider(r, s[i]) /\ ts[i] = TsProvider(r, s[i])
        /\ dart[i] = DartProvider(r, s[i])
    BY <1>4
  <2> QED
    BY <2>1, <2>2, Zenon DEF Coordinated
<1>7. dart = ts /\ Summaries(ts) = Summaries(rust)
  <2>1. /\ Summaries(ts) = [i \in 1..n |-> Summary(ts[i])]
        /\ Summaries(rust) = [i \in 1..n |-> Summary(rust[i])]
    BY <1>5, Zenon DEF Summaries
  <2>2. dart = ts
    BY <1>4, <1>6
  <2> QED
    BY <1>6, <2>1, <2>2
<1>8. {rust[i].provider : i \in DOMAIN rust} = Range(ps)
  <2>1. Range(ps) = {ps[i] : i \in 1..n}
    BY <1>1 DEF Range
  <2>2. {rust[i].provider : i \in DOMAIN rust} = {s[i] : i \in 1..n}
    BY <1>5, <1>6
  <2>3. {s[i] : i \in 1..n} \subseteq {ps[i] : i \in 1..n}
    <3>1. \A p \in 1..n : \E i \in 1..n : s[p] = ps[i]
      BY <1>2, Zenon
    <3> HIDE DEF ps
    <3> QED
      BY <3>1
  <2>4. {ps[i] : i \in 1..n} \subseteq {s[i] : i \in 1..n}
    <3>1. \A p \in 1..n : \E i \in 1..n : ps[p] = s[i]
      BY <1>2, Zenon
    <3> HIDE DEF ps
    <3> QED
      BY <3>1
  <2> QED
    BY <2>1, <2>2, <2>3, <2>4
<1>9. \A i, j \in DOMAIN rust : i < j => OrderOf(rust[i].provider) < OrderOf(rust[j].provider)
  <2> SUFFICES ASSUME NEW i \in 1..n, NEW j \in 1..n, i < j
               PROVE  OrderOf(rust[i].provider) < OrderOf(rust[j].provider)
    BY <1>5, Zenon
  <2>1. rust[i].provider = s[i] /\ rust[j].provider = s[j]
    BY <1>6
  <2> QED
    BY <1>2, <2>1, Zenon
<1>10. \A plan \in {rust, ts} : \A i \in DOMAIN plan : EntrySound(r, plan[i])
  BY <1>5, <1>6
<1>11. \A i \in DOMAIN rust : StepsAgree(ts[i], rust[i])
  BY <1>5, <1>6
<1> QED
  BY <1>7, <1>8, <1>9, <1>10, <1>11 DEF ts, dart

\* A request has the brands, domains, owners and providers it may have, as it is built.
LEMMA RequestIsOK == RequestSpec => []RequestOK
<1>1. RequestInit => RequestOK
  <2>1. <<>> \in Seq(Providers)
    OBVIOUS
  <2> QED
    BY <2>1 DEF RequestInit, RequestOK
<1>2. RequestOK /\ [RequestNext]_request => RequestOK'
  <2> SUFFICES ASSUME RequestOK, [RequestNext]_request PROVE RequestOK'
    OBVIOUS
  <2>1. ASSUME NEW p \in Providers, AddProvider(p) PROVE RequestOK'
    <3>1. Append(request.providers, p) \in Seq(Providers)
      BY DEF RequestOK
    <3> QED
      BY <2>1, <3>1 DEF AddProvider, RequestOK
  <2>2. CASE UNCHANGED request
    BY <2>2 DEF RequestOK
  <2> QED
    BY <2>1, <2>2 DEF RequestNext
<1> QED
  BY <1>1, <1>2, PTL DEF RequestSpec

\* Of a request all three admit, whatever names count as portable and however long
\* it is, the TypeScript and Dart planners make one plan, and Rust's has the same
\* summary and leaves the same steps to a person; prerequisites of steps are compared
\* one way only (namespace_plan.rs, namespace-plan.ts, namespace_plan.dart).
THEOREM PlannersAgree == RequestSpec => []PlansAgree
<1>1. RequestOK => PlansAgree
  <2> SUFFICES ASSUME RequestOK, ContractAdmits(request) PROVE PlansAgree
    BY Zenon DEF PlansAgree
  <2>1. request.providers \in Seq(Providers)
    BY DEF RequestOK
  <2>2. IsInjective(request.providers)
    BY DEF ContractAdmits
  <2> QED
    BY <2>1, <2>2, PlansOf, Zenon DEF PlansAgree
<1> QED
  BY <1>1, RequestIsOK, PTL

(***************************************************************************)
(* Resolution. Both mirrors read the same spellings as the same versions   *)
(* and order them alike; the bounds they expand a comparator to are met by *)
(* the releases Cargo's comparator admits; so the three accept the same    *)
(* versions, and a scan that lets an equal version replace the best finds  *)
(* the last of the greatest. That a listing holds no tag twice is what the *)
(* exact tag needs.                                                        *)
(***************************************************************************)
\* The spellings that have a reading, and the version they all read as.
Readable(text) ==
  /\ text.wild = "" /\ Len(text.nums) <= 3
  /\ \/ text.tail \in {"", "pre"} /\ text.nums # <<>>
     \/ text.tail = "build" /\ Len(text.nums) = 3 /\ ~text.zero
     \/ text.tail \in {"pep", "post"}

Reading(text) ==
  [core |-> Padded(text.nums), pre |-> IF text.tail \in {"pre", "pep"} THEN text.pre ELSE <<>>]

\* Sequences of numbers and what a list of three of them is.
LEMMA NumbersAre ==
  /\ \A q \in Seq(Nat) : /\ Len(q) \in Nat /\ DOMAIN q = 1..Len(q) /\ \A i \in 1..Len(q) : q[i] \in Nat
                         /\ q # <<>> <=> Len(q) > 0
  /\ \A q \in [1..3 -> Nat] : q \in Seq(Nat) /\ Len(q) = 3 /\ DOMAIN q = 1..3
<1>1. \A q \in Seq(Nat) : Len(q) \in Nat /\ DOMAIN q = 1..Len(q) /\ \A i \in 1..Len(q) : q[i] \in Nat
  OBVIOUS
<1>2. \A q \in Seq(Nat) : q # <<>> <=> Len(q) > 0
  OBVIOUS
<1>3. \A q \in [1..3 -> Nat] : q \in Seq(Nat) /\ Len(q) = 3 /\ DOMAIN q = 1..3
  <2> SUFFICES ASSUME NEW q \in [1..3 -> Nat] PROVE q \in Seq(Nat) /\ Len(q) = 3 /\ DOMAIN q = 1..3
    OBVIOUS
  <2>1. q \in Seq(Nat)
    BY SeqDef
  <2>2. DOMAIN q = 1..3 /\ DOMAIN q = 1..Len(q) /\ Len(q) \in Nat
    BY <1>1, <2>1, Zenon
  <2> QED BY <2>1, <2>2
<1> QED BY <1>1, <1>2, <1>3, Zenon

\* The lengths the clients ask about.
LEMMA FewAre ==
  ASSUME NEW q \in Seq(Nat)
  PROVE  /\ q # <<>> <=> Len(q) > 0
         /\ Len(q) = 3 => Len(q) <= 3
         /\ Len(q) = 3 => Len(q) \in 1..3
         /\ Len(q) \in 1..3 <=> Len(q) <= 3 /\ q # <<>>
         /\ Len(q) > 3 <=> ~(Len(q) <= 3)
<1>1. q # <<>> <=> Len(q) > 0
  OBVIOUS
<1>2. Len(q) \in Nat
  OBVIOUS
<1> DEFINE n == Len(q)
<1>3. n \in Nat
  BY <1>2
<1> HIDE DEF n
<1>4. n = 3 => n <= 3
  BY <1>3
<1>5. n = 3 => n \in 1..3
  BY <1>3
<1>6. n \in 1..3 <=> n <= 3 /\ n > 0
  BY <1>3
<1>7. n > 3 <=> ~(n <= 3)
  BY <1>3
<1> QED BY <1>1, <1>4, <1>5, <1>6, <1>7, Zenon DEF n

\* Filling up with zeros, as TypeScript and as Dart do it.
LEMMA PaddedIs ==
  ASSUME NEW q \in Seq(Nat), Len(q) <= 3
  PROVE  /\ Padded(q) \in Seq(Nat) /\ Len(Padded(q)) = 3
         /\ Len(q) = 3 => Padded(q) = q
         /\ Padded(q) = DartSegments(q)
<1>1. Padded(q) \in [1..3 -> Nat]
  BY DEF Padded
<1>2. Padded(q) \in Seq(Nat) /\ Len(Padded(q)) = 3 /\ DOMAIN Padded(q) = 1..3
  BY <1>1, NumbersAre, Zenon
<1>3. ASSUME Len(q) = 3 PROVE Padded(q) = q
  BY <1>3 DEF Padded
<1>4. Padded(q) = DartSegments(q)
  <2> DEFINE w == q \o <<0, 0, 0>>
  <2>1. w \in Seq(Nat) /\ Len(w) = Len(q) + 3
    OBVIOUS
  <2>2. \A i \in 1..3 : w[i] = Padded(q)[i]
    BY DEF Padded
  <2> HIDE DEF w
  <2>3. DartSegments(q) = SubSeq(w, 1, 3)
    BY DEF DartSegments, w
  <2>4. SubSeq(w, 1, 3) \in Seq(Nat) /\ Len(SubSeq(w, 1, 3)) = 3
        /\ \A i \in 1..3 : SubSeq(w, 1, 3)[i] = w[i]
    BY <2>1
  <2>5. DOMAIN SubSeq(w, 1, 3) = 1..3 /\ SubSeq(w, 1, 3) = [i \in 1..3 |-> SubSeq(w, 1, 3)[i]]
    BY <2>4
  <2>6. Padded(q) = [i \in 1..3 |-> Padded(q)[i]]
    BY <1>1
  <2> HIDE DEF Padded
  <2> QED BY <2>2, <2>3, <2>4, <2>5, <2>6
<1> QED BY <1>2, <1>3, <1>4

\* The strict reading, and then all five in the order they are tried.
LEMMA StrictIs ==
  ASSUME NEW t \in [v : BOOLEAN, nums : Seq(Nat), zero : BOOLEAN,
                    wild : {"", "x", "*", "x.", "*."}, tail : Tails, pre : Seq(Nat)]
  PROVE  ParseStrict(t) = IF /\ ~t.v /\ ~t.zero /\ t.wild = "" /\ Len(t.nums) = 3
                             /\ t.tail \in {"", "pre", "build"}
                          THEN {Reading(t)} ELSE {}
<1>0. t.nums \in Seq(Nat)
  OBVIOUS
<1>1. Len(t.nums) = 3 => Padded(t.nums) = t.nums
  <2> QED BY <1>0, FewAre, PaddedIs, Zenon
<1>2. t.tail \in {"", "pre", "build"} =>
        (IF t.tail = "pre" THEN t.pre ELSE <<>>)
          = (IF t.tail \in {"pre", "pep"} THEN t.pre ELSE <<>>)
  OBVIOUS
<1> HIDE DEF Padded
<1> QED BY <1>1, <1>2 DEF ParseStrict, Reading

\* The readings that the parser of the mirrors tries give one version or none.
LEMMA ParsedIs ==
  ASSUME NEW t \in Texts
  PROVE  ParseVersion(t) = IF Readable(t) THEN {Reading(t)} ELSE {}
<1> DEFINE Records == [v : BOOLEAN, nums : Seq(Nat), zero : BOOLEAN,
                       wild : {"", "x", "*", "x.", "*."}, tail : Tails, pre : Seq(Nat)]
           u == Unprefixed(t)
           reparsed(normalized) == UNION {ParseStrict(n) : n \in normalized}
           r1 == ParseStrict(t)
           r2 == ParseStrict(u)
           r3 == reparsed(NormalizeGo(t))
           r4 == reparsed(NormalizeCalver(t))
           r5 == reparsed(NormalizePep440(t))
<1>1. t \in Records
  BY DEF Texts
<1>2. /\ u \in Records /\ ~u.v /\ u.nums = t.nums /\ u.zero = t.zero /\ u.wild = t.wild
      /\ u.tail = t.tail /\ u.pre = t.pre
  BY <1>1 DEF Unprefixed
<1>3. Reading(u) = Reading(t)
  <2> HIDE DEF u
  <2> QED BY <1>2 DEF Reading
<1> HIDE DEF u
<1>4. r1 = IF /\ ~t.v /\ ~t.zero /\ t.wild = "" /\ Len(t.nums) = 3 /\ t.tail \in {"", "pre", "build"}
           THEN {Reading(t)} ELSE {}
  BY <1>1, StrictIs
<1>5. r2 = IF /\ ~t.zero /\ t.wild = "" /\ Len(t.nums) = 3 /\ t.tail \in {"", "pre", "build"}
           THEN {Reading(t)} ELSE {}
  <2>1. r2 = IF /\ ~u.v /\ ~u.zero /\ u.wild = "" /\ Len(u.nums) = 3
                /\ u.tail \in {"", "pre", "build"}
             THEN {Reading(u)} ELSE {}
    BY <1>2, StrictIs
  <2> QED BY <2>1, <1>2, <1>3
<1>6. r3 = {} \/ r3 = r2
  <2> DEFINE c == [u EXCEPT !.tail = IF @ = "build" THEN "" ELSE @]
  <2>1. /\ c \in Records /\ ~c.v /\ c.nums = t.nums /\ c.zero = t.zero /\ c.wild = t.wild
        /\ c.tail = (IF t.tail = "build" THEN "" ELSE t.tail) /\ c.pre = t.pre
    BY <1>2 DEF Tails
  <2>2. NormalizeGo(t) = {c : parsed \in ParseStrict(c)}
    BY DEF NormalizeGo, u
  <2> HIDE DEF c
  <2>3. Reading(c) = Reading(t)
    <3>1. c.tail \in {"pre", "pep"} <=> t.tail \in {"pre", "pep"}
      BY <2>1
    <3> QED BY <2>1, <3>1 DEF Reading
  <2>4. ParseStrict(c) = IF /\ ~c.v /\ ~c.zero /\ c.wild = "" /\ Len(c.nums) = 3
                            /\ c.tail \in {"", "pre", "build"}
                         THEN {Reading(c)} ELSE {}
    BY <2>1, StrictIs
  <2>5. ParseStrict(c) = r2
    <3>1. c.tail \in {"", "pre", "build"} <=> t.tail \in {"", "pre", "build"}
      BY <2>1
    <3> HIDE DEF r2
    <3> QED BY <2>1, <2>3, <2>4, <1>5, <3>1
  <2> QED BY <2>2, <2>5
<1>7. \A tail \in {"", "pre", "build"} :
         Len(t.nums) <= 3 /\ t.wild = "" =>
           UNION {ParseStrict(n) : n \in {Canonical(t, tail)}}
             = {[core |-> Padded(t.nums), pre |-> IF tail = "pre" THEN t.pre ELSE <<>>]}
  <2> SUFFICES ASSUME NEW tail \in {"", "pre", "build"}, Len(t.nums) <= 3, t.wild = ""
               PROVE  ParseStrict(Canonical(t, tail))
                        = {[core |-> Padded(t.nums), pre |-> IF tail = "pre" THEN t.pre ELSE <<>>]}
    OBVIOUS
  <2> DEFINE p == Padded(t.nums)
             c == Canonical(t, tail)
  <2>1. p \in Seq(Nat) /\ Len(p) = 3 /\ t.nums \in Seq(Nat)
    BY <1>1, PaddedIs
  <2> HIDE DEF p
  <2>2. c = [u EXCEPT !.nums = p, !.zero = FALSE, !.tail = tail]
    BY DEF Canonical, u, p
  <2>3. /\ ~c.v /\ c.nums = p /\ ~c.zero /\ c.wild = "" /\ c.tail = tail /\ c.pre = t.pre
    <3> HIDE DEF c
    <3> QED BY <1>2, <2>1, <2>2
  <2> HIDE DEF c
  <2>4. ParseStrict(c) = {[core |-> p, pre |-> IF tail = "pre" THEN t.pre ELSE <<>>]}
    BY <2>1, <2>3 DEF ParseStrict
  <2> QED BY <2>4 DEF p, c
<1>8. r4 = IF t.tail \in {"", "pre"} /\ t.wild = "" /\ Len(t.nums) \in 1..3
           THEN {Reading(t)} ELSE {}
  <2>1. CASE t.tail \in {"", "pre"} /\ t.wild = "" /\ Len(t.nums) \in 1..3
    <3>1. NormalizeCalver(t) = {Canonical(t, t.tail)}
      BY <2>1 DEF NormalizeCalver
    <3>0. Len(t.nums) <= 3 /\ t.tail \in {"", "pre", "build"}
      <4>1. t.nums \in Seq(Nat)
        BY <1>1
      <4>2. t.tail \in {"", "pre", "build"}
        BY <2>1
      <4> QED BY <4>1, <4>2, <2>1, FewAre, Zenon
    <3>2. UNION {ParseStrict(n) : n \in {Canonical(t, t.tail)}}
             = {[core |-> Padded(t.nums), pre |-> IF t.tail = "pre" THEN t.pre ELSE <<>>]}
      BY <1>7, <2>1, <3>0, Zenon
    <3>3. r4 = {[core |-> Padded(t.nums), pre |-> IF t.tail = "pre" THEN t.pre ELSE <<>>]}
      BY <3>1, <3>2
    <3> QED BY <2>1, <3>3 DEF Reading
  <2>2. CASE ~(t.tail \in {"", "pre"} /\ t.wild = "" /\ Len(t.nums) \in 1..3)
    BY <2>2 DEF NormalizeCalver
  <2> QED BY <2>1, <2>2
<1>9. r5 = IF t.tail \in {"pep", "post"} /\ t.wild = "" /\ Len(t.nums) <= 3
           THEN {Reading(t)} ELSE {}
  <2>1. CASE t.tail \in {"pep", "post"} /\ t.wild = "" /\ Len(t.nums) <= 3
    <3> DEFINE tail == IF t.tail = "pep" THEN "pre" ELSE "build"
    <3>1. NormalizePep440(t) = {Canonical(t, tail)}
      BY <2>1 DEF NormalizePep440
    <3>2. tail \in {"", "pre", "build"}
      OBVIOUS
    <3>3. r5 = {[core |-> Padded(t.nums), pre |-> IF tail = "pre" THEN t.pre ELSE <<>>]}
      <4> HIDE DEF tail
      <4> QED BY <1>7, <2>1, <3>1, <3>2
    <3>4. tail = "pre" <=> t.tail \in {"pre", "pep"}
      BY <2>1
    <3> QED BY <2>1, <3>3, <3>4 DEF Reading
  <2>2. CASE ~(t.tail \in {"pep", "post"} /\ t.wild = "" /\ Len(t.nums) <= 3)
    BY <2>2 DEF NormalizePep440
  <2> QED BY <2>1, <2>2
<1> DEFINE readings == <<r1, r2, r3, r4, r5>>
           succeeded == {i \in DOMAIN readings : readings[i] # {}}
<1>10. ParseVersion(t) = IF succeeded = {} THEN {} ELSE readings[Min(succeeded)]
  BY DEF ParseVersion, u
<1> HIDE DEF r1, r2, r3, r4, r5
<1>11. DOMAIN readings = 1..5 /\ \A i \in 1..5 : readings[i] = {} \/ readings[i] = {Reading(t)}
  <2>1. \A r \in {r1, r2, r3, r4, r5} : r = {} \/ r = {Reading(t)}
    BY <1>4, <1>5, <1>6, <1>8, <1>9
  <2>2. \A i \in 1..5 : readings[i] \in {r1, r2, r3, r4, r5}
    OBVIOUS
  <2> QED BY <2>1, <2>2
<1>12. Readable(t) <=> \E i \in 1..5 : readings[i] # {}
  <2>1. t.tail \in {"", "pre", "build", "pep", "post", "word"} /\ t.nums \in Seq(Nat)
    BY <1>1 DEF Tails
  <2>2. t.nums # <<>> <=> Len(t.nums) > 0
    BY <2>1, NumbersAre, Zenon
  <2>3. (\E i \in 1..5 : readings[i] # {}) <=> r1 # {} \/ r2 # {} \/ r3 # {} \/ r4 # {} \/ r5 # {}
    OBVIOUS
  <2>4. /\ Len(t.nums) \in 1..3 <=> Len(t.nums) <= 3 /\ t.nums # <<>>
        /\ Len(t.nums) = 3 => Len(t.nums) \in 1..3
    BY <2>1, FewAre, Zenon
  <2>5. /\ r2 # {} <=> /\ ~t.zero /\ t.wild = "" /\ Len(t.nums) = 3
                       /\ t.tail \in {"", "pre", "build"}
        /\ r1 # {} => r2 # {}
        /\ r3 # {} => r2 # {}
        /\ r4 # {} <=> t.tail \in {"", "pre"} /\ t.wild = "" /\ Len(t.nums) \in 1..3
        /\ r5 # {} <=> t.tail \in {"pep", "post"} /\ t.wild = "" /\ Len(t.nums) <= 3
    <3>1. {Reading(t)} # {}
      OBVIOUS
    <3> QED BY <3>1, <1>4, <1>5, <1>6, <1>8, <1>9, Zenon
  <2> HIDE DEF readings
  <2> QED BY <2>3, <2>4, <2>5, Zenon DEF Readable
<1>13. succeeded # {} => Min(succeeded) \in succeeded
  <2>1. succeeded \subseteq Nat
    BY <1>11
  <2> HIDE DEF succeeded
  <2> QED BY <2>1, MinIs
<1> HIDE DEF readings
<1> QED BY <1>10, <1>11, <1>12, <1>13

\* Dart reads the same spellings as the same versions.
LEMMA DartParsedIs ==
  ASSUME NEW t \in Texts
  PROVE  /\ DartParse(t) = IF Readable(t) THEN Reading(t) ELSE Null
         /\ Reading(t) # Null
<1>1. /\ t.v \in BOOLEAN /\ t.nums \in Seq(Nat) /\ t.zero \in BOOLEAN
      /\ t.wild \in {"", "x", "*", "x.", "*."} /\ t.tail \in Tails /\ t.pre \in Seq(Nat)
      /\ t \in [v : BOOLEAN, nums : Seq(Nat), zero : BOOLEAN,
                wild : {"", "x", "*", "x.", "*."}, tail : Tails, pre : Seq(Nat)]
  BY DEF Texts
<1>2. Len(t.nums) <= 3 => /\ Padded(t.nums) = DartSegments(t.nums)
                          /\ Len(t.nums) = 3 => Padded(t.nums) = t.nums
  BY <1>1, PaddedIs
<1>3. \A x, y : x # <<>> => [core |-> x, pre |-> y] # Null
  BY DEF Null
<1>4. Padded(t.nums) # <<>>
  BY DEF Padded
<1>5. /\ t.nums # <<>> <=> Len(t.nums) > 0
      /\ Len(t.nums) = 3 => Len(t.nums) <= 3
      /\ Len(t.nums) = 3 => Len(t.nums) \in 1..3
      /\ Len(t.nums) \in 1..3 <=> Len(t.nums) <= 3 /\ t.nums # <<>>
      /\ Len(t.nums) > 3 <=> ~(Len(t.nums) <= 3)
  BY <1>1, FewAre, Zenon
<1> DEFINE u == [t EXCEPT !.v = FALSE]
           g == [t EXCEPT !.v = FALSE, !.tail = IF @ = "build" THEN "" ELSE @]
           strict == /\ ~t.zero /\ t.wild = "" /\ Len(t.nums) = 3
                     /\ t.tail \notin {"pep", "post", "word"}
<1>6. /\ ~u.v /\ u.nums = t.nums /\ u.zero = t.zero /\ u.wild = t.wild /\ u.tail = t.tail
      /\ u.pre = t.pre
  BY <1>1
<1>7. /\ ~g.v /\ g.nums = t.nums /\ g.zero = t.zero /\ g.wild = t.wild /\ g.pre = t.pre
      /\ g.tail = IF t.tail = "build" THEN "" ELSE t.tail
  BY <1>1
<1> HIDE DEF u, g
<1>8. ASSUME NEW s, s.nums = t.nums, s.zero = t.zero, s.wild = t.wild, s.pre = t.pre,
             s.tail = t.tail \/ (s.tail = "" /\ t.tail = "build")
      PROVE  DartStrict(s) = IF ~s.v /\ strict THEN Reading(t) ELSE Null
  <2>1. s.tail \in {"pep", "post", "word"} <=> t.tail \in {"pep", "post", "word"}
    BY <1>8
  <2>2. CASE ~s.v /\ strict
    <3>1. s.tail = "pre" <=> t.tail \in {"pre", "pep"}
      BY <1>8, <2>2
    <3>2. DartStrict(s) = [core |-> s.nums, pre |-> IF s.tail = "pre" THEN s.pre ELSE <<>>]
      BY <1>8, <2>1, <2>2, Zenon DEF DartStrict
    <3>3. Padded(t.nums) = s.nums
      BY <1>2, <1>5, <1>8, <2>2, Zenon
    <3> QED BY <1>8, <2>2, <3>1, <3>2, <3>3, Zenon DEF Reading
  <2>3. CASE ~(~s.v /\ strict)
    BY <1>8, <2>1, <2>3, Zenon DEF DartStrict
  <2> QED BY <2>2, <2>3, Zenon
<1>9. /\ DartStrict(t) = IF ~t.v /\ strict THEN Reading(t) ELSE Null
      /\ DartStrict(u) = IF strict THEN Reading(t) ELSE Null
      /\ DartStrict(g) = IF strict THEN Reading(t) ELSE Null
  <2> HIDE DEF strict
  <2>1. g.tail = t.tail \/ (g.tail = "" /\ t.tail = "build")
    BY <1>7, Zenon
  <2> QED BY <1>6, <1>7, <1>8, <2>1, Zenon
<1>11. DartGo(t) = DartStrict(g)
  BY Zenon DEF DartGo, g
<1>12. DartCalver(t) = IF t.wild = "" /\ Len(t.nums) \in 1..3 /\ t.tail \in {"", "pre"}
                       THEN Reading(t) ELSE Null
  <2>1. CASE t.wild = "" /\ Len(t.nums) \in 1..3 /\ t.tail \in {"", "pre"}
    <3>1. t.tail = "pre" <=> t.tail \in {"pre", "pep"}
      BY <2>1
    <3>2. DartCalver(t) = [core |-> DartSegments(t.nums),
                           pre |-> IF t.tail = "pre" THEN t.pre ELSE <<>>]
      BY <1>5, <2>1, Zenon DEF DartCalver
    <3> QED BY <1>2, <1>5, <2>1, <3>1, <3>2, Zenon DEF Reading
  <2>2. CASE ~(t.wild = "" /\ Len(t.nums) \in 1..3 /\ t.tail \in {"", "pre"})
    BY <1>5, <2>2, Zenon DEF DartCalver
  <2> QED BY <2>1, <2>2, Zenon
<1>13. DartPep440(t) = IF t.wild = "" /\ Len(t.nums) <= 3 /\ t.tail \in {"pep", "post"}
                       THEN Reading(t) ELSE Null
  <2>1. CASE t.wild = "" /\ Len(t.nums) <= 3 /\ t.tail \in {"pep", "post"}
    <3>1. t.tail = "pep" <=> t.tail \in {"pre", "pep"}
      BY <2>1
    <3>2. DartPep440(t) = [core |-> DartSegments(t.nums),
                           pre |-> IF t.tail = "pep" THEN t.pre ELSE <<>>]
      BY <1>5, <2>1, Zenon DEF DartPep440
    <3> QED BY <1>2, <2>1, <3>1, <3>2, Zenon DEF Reading
  <2>2. CASE ~(t.wild = "" /\ Len(t.nums) <= 3 /\ t.tail \in {"pep", "post"})
    BY <1>5, <2>2, Zenon DEF DartPep440
  <2> QED BY <2>1, <2>2, Zenon
<1>14. Reading(t) # Null
  BY <1>3, <1>4, Zenon DEF Reading
<1>15. DartParse(t) = IF DartStrict(t) # Null THEN DartStrict(t)
                      ELSE IF DartStrict(u) # Null THEN DartStrict(u)
                      ELSE IF DartGo(t) # Null THEN DartGo(t)
                      ELSE IF DartCalver(t) # Null THEN DartCalver(t)
                      ELSE DartPep440(t)
  BY Zenon DEF DartParse, u
<1>16. Readable(t) <=> \/ strict
                       \/ t.wild = "" /\ Len(t.nums) \in 1..3 /\ t.tail \in {"", "pre"}
                       \/ t.wild = "" /\ Len(t.nums) <= 3 /\ t.tail \in {"pep", "post"}
  <2>1. t.tail \in {"", "pre", "build", "pep", "post", "word"}
    BY <1>1, Zenon DEF Tails
  <2>2. t.tail \notin {"pep", "post", "word"} <=> t.tail \in {"", "pre", "build"}
    BY <2>1
  <2> QED BY <1>5, <2>1, <2>2, Zenon DEF Readable
<1> HIDE DEF strict
<1>17. CASE strict
  <2>1. DartStrict(u) = Reading(t) /\ (DartStrict(t) = Reading(t) \/ DartStrict(t) = Null)
    BY <1>9, <1>17, Zenon
  <2>2. DartParse(t) = Reading(t)
    BY <2>1, <1>14, <1>15, Zenon
  <2> QED BY <2>2, <1>14, <1>16, <1>17, Zenon
<1>18. CASE ~strict
  BY <1>9, <1>11, <1>12, <1>13, <1>14, <1>15, <1>16, <1>18, Zenon
<1> QED BY <1>14, <1>17, <1>18, Zenon

\* A parsed version, a stable one, and how a stable one stands to another in the order.
Cores == [1..3 -> Nat]
Releases == [core : Cores, pre : Seq(Nat)]

Over(x, y) == \/ x[1] > y[1]
              \/ x[1] = y[1] /\ x[2] > y[2]
              \/ x[1] = y[1] /\ x[2] = y[2] /\ x[3] > y[3]
Level(x, y) == x[1] = y[1] /\ x[2] = y[2] /\ x[3] = y[3]

\* Version b is met by a release of core x under the operator.
Meets(op, x, b) ==
  CASE op = "="  -> Level(x, b.core) /\ b.pre = <<>>
    [] op = ">"  -> Over(x, b.core) \/ (Level(x, b.core) /\ b.pre # <<>>)
    [] op = ">=" -> Over(x, b.core) \/ Level(x, b.core)
    [] op = "<"  -> ~Over(x, b.core) /\ ~Level(x, b.core)
    [] op = "<=" -> ~Over(x, b.core) /\ ~(Level(x, b.core) /\ b.pre # <<>>)

\* A release against another version's prerelease.
LEMMA PreIs ==
  ASSUME NEW p \in Seq(Nat)
  PROVE  /\ ComparePre(<<>>, p) = IF p = <<>> THEN 0 ELSE 1
         /\ DartComparePre(<<>>, p) = IF p = <<>> THEN 0 ELSE 1
<1>1. Len(<<>>) = 0 /\ Len(p) \in Nat /\ (p # <<>> <=> Len(p) > 0)
  BY FewAre
<1>2. Sign(Len(p) - 0) = IF p = <<>> THEN 0 ELSE 1
  BY <1>1 DEF Sign
<1>3. ComparePre(<<>>, p) = Sign(Len(p) - Len(<<>>))
  BY Zenon DEF ComparePre
<1>4. DartComparePre(<<>>, p) = IF p = <<>> THEN 0 ELSE 1
  <2>1. CASE p = <<>>
    BY <2>1 DEF DartComparePre
  <2>2. CASE p # <<>>
    BY <2>2 DEF DartComparePre
  <2> QED BY <2>1, <2>2
<1> QED BY <1>1, <1>2, <1>3, <1>4

\* The first of four comparisons that is not zero.
LEMMA FirstOfFour ==
  ASSUME NEW s \in [1..3 -> Int], NEW d \in Int
  PROVE  FirstDifference(s \o <<d>>) = IF s[1] # 0 THEN s[1] ELSE IF s[2] # 0 THEN s[2] ELSE IF s[3] # 0 THEN s[3] ELSE d
<1> DEFINE o == s \o <<d>>
           at == {i \in DOMAIN o : o[i] # 0}
           first == IF s[1] # 0 THEN s[1] ELSE IF s[2] # 0 THEN s[2] ELSE IF s[3] # 0 THEN s[3] ELSE d
<1> SUFFICES FirstDifference(o) = first
  OBVIOUS
<1>1. s \in Seq(Int) /\ Len(s) = 3
  <2>1. s \in Seq(Int)
    BY SeqDef
  <2>2. \A r \in Seq(Int) : DOMAIN r = 1..Len(r) /\ Len(r) \in Nat
    OBVIOUS
  <2>3. DOMAIN s = 1..3 /\ DOMAIN s = 1..Len(s) /\ Len(s) \in Nat
    BY <2>1, <2>2, Zenon
  <2> QED BY <2>1, <2>3
<1>2. DOMAIN o = 1..4 /\ o[1] = s[1] /\ o[2] = s[2] /\ o[3] = s[3] /\ o[4] = d
  <2>1. <<d>> \in Seq(Int) /\ Len(<<d>>) = 1 /\ <<d>>[1] = d
    OBVIOUS
  <2>2. /\ o \in Seq(Int) /\ Len(o) = Len(s) + Len(<<d>>)
        /\ \A i \in 1..(Len(s) + Len(<<d>>)) :
              o[i] = IF i <= Len(s) THEN s[i] ELSE <<d>>[i - Len(s)]
    BY <1>1, <2>1, ConcatProperties, Zenon
  <2>3. Len(o) = 4 /\ \A i \in 1..4 : o[i] = IF i <= 3 THEN s[i] ELSE <<d>>[i - 3]
    BY <1>1, <2>1, <2>2
  <2>4. \A r \in Seq(Int) : Len(r) = 4 => DOMAIN r = 1..4
    OBVIOUS
  <2> HIDE DEF o
  <2>5. DOMAIN o = 1..4
    BY <2>2, <2>3, <2>4
  <2> QED BY <2>1, <2>3, <2>5
<1>3. FirstDifference(o) = IF at = {} THEN 0 ELSE o[Min(at)]
  BY DEF FirstDifference
<1> HIDE DEF o
<1>4. at \subseteq Nat /\ \A i \in at : i = 1 \/ i = 2 \/ i = 3 \/ i = 4
  BY <1>2
<1>5. at # {} => Min(at) \in at /\ \A y \in at : Min(at) <= y
  BY <1>4, MinIs
<1>6. \A i \in {1, 2, 3, 4} : i \in at <=> o[i] # 0
  BY <1>2
<1> DEFINE m == Min(at)
<1> HIDE DEF at
<1>9. 1 \in {1, 2, 3, 4} /\ 2 \in {1, 2, 3, 4} /\ 3 \in {1, 2, 3, 4} /\ 4 \in {1, 2, 3, 4}
  OBVIOUS
<1>10. /\ 1 \in at <=> s[1] # 0
       /\ 2 \in at <=> s[2] # 0
       /\ 3 \in at <=> s[3] # 0
       /\ 4 \in at <=> d # 0
  BY <1>2, <1>6, <1>9, Zenon
<1>7. CASE at = {}
  <2>1. s[1] = 0 /\ s[2] = 0 /\ s[3] = 0 /\ d = 0
    BY <1>7, <1>10, Zenon
  <2>2. FirstDifference(o) = 0
    BY <1>3, <1>7, Zenon
  <2> QED BY <2>1, <2>2
<1>8. CASE at # {}
  <2>1. m \in at /\ (m = 1 \/ m = 2 \/ m = 3 \/ m = 4) /\ \A y \in at : m <= y
    BY <1>4, <1>5, <1>8
  <2>2. FirstDifference(o) = o[m]
    BY <1>3, <1>8
  <2> HIDE DEF m
  <2>3. ~(2 <= 1) /\ ~(3 <= 1) /\ ~(4 <= 1) /\ ~(3 <= 2) /\ ~(4 <= 2) /\ ~(4 <= 3)
    OBVIOUS
  <2>4. CASE m = 1
    <3>1. FirstDifference(o) = s[1] /\ s[1] # 0
      BY <2>1, <2>2, <2>4, <1>2, <1>10, Zenon
    <3> QED BY <3>1
  <2>5. CASE m = 2
    <3>1. FirstDifference(o) = s[2] /\ s[1] = 0 /\ s[2] # 0
      BY <2>1, <2>2, <2>3, <2>5, <1>2, <1>10, Zenon
    <3> QED BY <3>1
  <2>6. CASE m = 3
    <3>1. FirstDifference(o) = s[3] /\ s[1] = 0 /\ s[2] = 0 /\ s[3] # 0
      BY <2>1, <2>2, <2>3, <2>6, <1>2, <1>10, Zenon
    <3> QED BY <3>1
  <2>7. CASE m = 4
    <3>1. FirstDifference(o) = d /\ s[1] = 0 /\ s[2] = 0 /\ s[3] = 0
      BY <2>1, <2>2, <2>3, <2>7, <1>2, <1>10, Zenon
    <3> QED BY <3>1
  <2> QED BY <2>1, <2>4, <2>5, <2>6, <2>7
<1> QED BY <1>7, <1>8, Zenon

\* Both clients order a stable version against any other as Meets says.
LEMMA OrderIs ==
  ASSUME NEW x \in Cores, NEW b \in Releases,
         NEW c, c \in {CompareVersions([core |-> x, pre |-> <<>>], b),
                       DartCompare([core |-> x, pre |-> <<>>], b)}
  PROVE  /\ c \in Int
         /\ c = 0 <=> Meets("=", x, b)
         /\ c > 0 <=> Meets(">", x, b)
         /\ c >= 0 <=> Meets(">=", x, b)
         /\ c < 0 <=> Meets("<", x, b)
         /\ c <= 0 <=> Meets("<=", x, b)
<1> DEFINE a == [core |-> x, pre |-> <<>>]
           q == b.core
           p == IF b.pre = <<>> THEN 0 ELSE 1
<1>1. b.core \in Cores /\ b.pre \in Seq(Nat)
  BY DEF Releases
<1>2. /\ x[1] \in Nat /\ x[2] \in Nat /\ x[3] \in Nat
      /\ q[1] \in Nat /\ q[2] \in Nat /\ q[3] \in Nat
  BY <1>1 DEF Cores
<1>3. ComparePre(<<>>, b.pre) = p /\ DartComparePre(<<>>, b.pre) = p
  BY <1>1, PreIs
<1> HIDE DEF q
<1>4. c \in Int /\ (c > 0 <=> Over(x, q) \/ (Level(x, q) /\ b.pre # <<>>))
                /\ (c = 0 <=> Level(x, q) /\ b.pre = <<>>)
  <2>1. CASE c = CompareVersions(a, b)
    <3> DEFINE s == [i \in 1..3 |-> Sign(x[i] - q[i])]
    <3>1. CompareVersions(a, b) = FirstDifference(s \o <<p>>)
      BY <1>3 DEF CompareVersions, q
    <3>2. s \in [1..3 -> Int]
      BY <1>1 DEF Sign, Cores, q
    <3>3. /\ s[1] = Sign(x[1] - q[1]) /\ s[2] = Sign(x[2] - q[2]) /\ s[3] = Sign(x[3] - q[3])
      OBVIOUS
    <3> HIDE DEF s
    <3>4. p \in Int
      OBVIOUS
    <3>5. c = IF s[1] # 0 THEN s[1] ELSE IF s[2] # 0 THEN s[2] ELSE IF s[3] # 0 THEN s[3] ELSE p
      BY <2>1, <3>1, <3>2, <3>4, FirstOfFour
    <3> QED BY <1>2, <3>3, <3>5, SMTT(30) DEF Sign, Over, Level
  <2>2. CASE c = DartCompare(a, b)
    <3> DEFINE differs == {i \in 1..3 : x[i] # q[i]}
    <3>1. c = IF differs # {} THEN x[Min(differs)] - q[Min(differs)] ELSE p
      BY <1>3, <2>2 DEF DartCompare, q
    <3>2. differs \subseteq Nat /\ \A i \in differs : i = 1 \/ i = 2 \/ i = 3
      OBVIOUS
    <3>3. differs # {} => Min(differs) \in differs /\ \A y \in differs : Min(differs) <= y
      BY <3>2, MinIs
    <3>4. \A i \in {1, 2, 3} : i \in differs <=> x[i] # q[i]
      OBVIOUS
    <3> DEFINE m == Min(differs)
    <3> HIDE DEF differs
    <3>5. CASE differs = {}
      BY <1>2, <3>1, <3>4, <3>5 DEF Over, Level
    <3>6. CASE differs # {}
      <4>1. m \in differs /\ (m = 1 \/ m = 2 \/ m = 3) /\ \A y \in differs : m <= y
        BY <3>2, <3>3, <3>6
      <4>2. c = x[m] - q[m]
        BY <3>1, <3>6
      <4> HIDE DEF m
      <4> QED BY <1>2, <3>4, <4>1, <4>2, SMTT(30) DEF Over, Level
    <3> QED BY <3>5, <3>6
  <2> QED BY <2>1, <2>2
<1>5. ~(Over(x, q) /\ Level(x, q))
  BY <1>2 DEF Over, Level
<1>6. /\ c >= 0 <=> c > 0 \/ c = 0
      /\ c < 0 <=> ~(c > 0 \/ c = 0)
      /\ c <= 0 <=> ~(c > 0)
  BY <1>4
<1> QED BY <1>4, <1>5, <1>6 DEF Meets, q

\* What Cargo's comparators look at, for the numbers of a comparator's version.
Agree(x, parts, n) == \A i \in 1..n : x[i] = parts[i]
Exceeds(x, parts) == \E i \in DOMAIN parts : x[i] > parts[i] /\ Agree(x, parts, i - 1)
Lead(parts) ==
  LET nonzero == {i \in DOMAIN parts : parts[i] # 0}
  IN  IF nonzero = {} THEN Len(parts) ELSE Min(nonzero)

\* The numbers a comparator gives.
LEMMA DomainIs ==
  ASSUME NEW parts \in Seq(Nat), NEW n \in Nat, Len(parts) = n
  PROVE  DOMAIN parts = 1..n /\ \A i \in 1..n : parts[i] \in Nat
OBVIOUS

\* Which number the caret keeps: the left-most that is not zero, else the last.
LEMMA KeptIs ==
  ASSUME NEW parts \in Seq(Nat), Len(parts) \in 1..3
  PROVE  /\ Lead(parts) \in 1..Len(parts)
         /\ \A i \in 1..Len(parts) : i < Lead(parts) => parts[i] = 0
         /\ Lead(parts) < Len(parts) => parts[Lead(parts)] # 0
<1> DEFINE nonzero == {i \in DOMAIN parts : parts[i] # 0}
           k == Lead(parts)
<1>1. DOMAIN parts = 1..Len(parts) /\ Len(parts) \in Nat /\ Len(parts) > 0
  OBVIOUS
<1>2. k = IF nonzero = {} THEN Len(parts) ELSE Min(nonzero)
  BY DEF Lead
<1>3. nonzero \subseteq Nat
  BY <1>1
<1>4. nonzero # {} => Min(nonzero) \in nonzero /\ \A y \in nonzero : Min(nonzero) <= y
  BY <1>3, MinIs
<1>5. \A i \in 1..Len(parts) : i \in nonzero <=> parts[i] # 0
  BY <1>1
<1>6. nonzero \subseteq 1..Len(parts)
  BY <1>1
<1> HIDE DEF nonzero, k
<1>7. CASE nonzero = {}
  BY <1>1, <1>2, <1>5, <1>7 DEF k
<1>8. CASE nonzero # {}
  <2>1. k \in nonzero /\ \A y \in nonzero : k <= y
    BY <1>2, <1>4, <1>8
  <2>2. k \in 1..Len(parts) /\ parts[k] # 0
    BY <1>5, <1>6, <2>1
  <2>3. \A i \in 1..Len(parts) : i < k => ~(i \in nonzero)
    BY <1>1, <2>1, <2>2
  <2> QED BY <1>5, <2>2, <2>3 DEF k
<1> QED BY <1>7, <1>8

\* At least the comparator's version: the numbers agree or the first that differs is greater.
LEMMA FromIs ==
  ASSUME NEW parts \in Seq(Nat), Len(parts) \in 1..3, NEW x \in Cores
  PROVE  /\ Padded(parts) \in Cores
         /\ Over(x, Padded(parts)) \/ Level(x, Padded(parts))
              <=> Agree(x, parts, Len(parts)) \/ Exceeds(x, parts)
         /\ Len(parts) = 3 => /\ Level(x, Padded(parts)) <=> Agree(x, parts, 3)
                              /\ Over(x, Padded(parts)) <=> Exceeds(x, parts)
         /\ ~(Agree(x, parts, Len(parts)) /\ Exceeds(x, parts))
<1>1. x[1] \in Nat /\ x[2] \in Nat /\ x[3] \in Nat
  BY DEF Cores
<1>2. Padded(parts) \in Cores
  BY SMTT(30) DEF Padded, Cores
<1> DEFINE p == Padded(parts)
<1>3. /\ p[1] = IF 1 <= Len(parts) THEN parts[1] ELSE 0
      /\ p[2] = IF 2 <= Len(parts) THEN parts[2] ELSE 0
      /\ p[3] = IF 3 <= Len(parts) THEN parts[3] ELSE 0
  BY DEF Padded
<1> HIDE DEF p
<1>4. CASE Len(parts) = 1
  <2>1. DOMAIN parts = 1..1 /\ parts[1] \in Nat
    BY <1>4, DomainIs
  <2>2. p[1] = parts[1] /\ p[2] = 0 /\ p[3] = 0
    BY <1>3, <1>4
  <2>3. Agree(x, parts, 1) <=> x[1] = parts[1]
    BY DEF Agree
  <2>4. Exceeds(x, parts) <=> x[1] > parts[1]
    BY <2>1 DEF Exceeds, Agree
  <2>5. Over(x, p) \/ Level(x, p) <=> Agree(x, parts, 1) \/ Exceeds(x, parts)
    BY <1>1, <2>1, <2>2, <2>3, <2>4 DEF Over, Level
  <2>6. ~(Agree(x, parts, 1) /\ Exceeds(x, parts))
    BY <1>1, <2>1, <2>3, <2>4
  <2> QED BY <1>2, <1>4, <2>5, <2>6 DEF p
<1>5. CASE Len(parts) = 2
  <2>1. DOMAIN parts = 1..2 /\ parts[1] \in Nat /\ parts[2] \in Nat
    BY <1>5, DomainIs
  <2>2. p[1] = parts[1] /\ p[2] = parts[2] /\ p[3] = 0
    BY <1>3, <1>5
  <2>3. Agree(x, parts, 2) <=> x[1] = parts[1] /\ x[2] = parts[2]
    BY DEF Agree
  <2>4. Exceeds(x, parts) <=> x[1] > parts[1] \/ (x[1] = parts[1] /\ x[2] > parts[2])
    <3>1. Agree(x, parts, 0) /\ (Agree(x, parts, 1) <=> x[1] = parts[1])
      BY DEF Agree
    <3>2. Exceeds(x, parts) <=> \/ x[1] > parts[1] /\ Agree(x, parts, 0)
                                \/ x[2] > parts[2] /\ Agree(x, parts, 1)
      <4>1. Exceeds(x, parts) <=> \E i \in {1, 2} : x[i] > parts[i] /\ Agree(x, parts, i - 1)
        BY <2>1 DEF Exceeds
      <4> QED BY <4>1
    <3> QED BY <3>1, <3>2
  <2>5. Over(x, p) \/ Level(x, p) <=> Agree(x, parts, 2) \/ Exceeds(x, parts)
    BY <1>1, <2>1, <2>2, <2>3, <2>4 DEF Over, Level
  <2>6. ~(Agree(x, parts, 2) /\ Exceeds(x, parts))
    BY <1>1, <2>1, <2>3, <2>4
  <2> QED BY <1>2, <1>5, <2>5, <2>6 DEF p
<1>6. CASE Len(parts) = 3
  <2>1. DOMAIN parts = 1..3 /\ parts[1] \in Nat /\ parts[2] \in Nat /\ parts[3] \in Nat
    BY <1>6, DomainIs
  <2>2. p[1] = parts[1] /\ p[2] = parts[2] /\ p[3] = parts[3]
    BY <1>3, <1>6
  <2>3. Agree(x, parts, 3) <=> x[1] = parts[1] /\ x[2] = parts[2] /\ x[3] = parts[3]
    BY DEF Agree
  <2>4. Exceeds(x, parts) <=> \/ x[1] > parts[1]
                              \/ x[1] = parts[1] /\ x[2] > parts[2]
                              \/ x[1] = parts[1] /\ x[2] = parts[2] /\ x[3] > parts[3]
    <3>1. /\ Agree(x, parts, 0)
          /\ Agree(x, parts, 1) <=> x[1] = parts[1]
          /\ Agree(x, parts, 2) <=> x[1] = parts[1] /\ x[2] = parts[2]
      BY DEF Agree
    <3>2. Exceeds(x, parts) <=> \/ x[1] > parts[1] /\ Agree(x, parts, 0)
                                \/ x[2] > parts[2] /\ Agree(x, parts, 1)
                                \/ x[3] > parts[3] /\ Agree(x, parts, 2)
      <4>1. Exceeds(x, parts) <=> \E i \in {1, 2, 3} : x[i] > parts[i] /\ Agree(x, parts, i - 1)
        BY <2>1 DEF Exceeds
      <4> QED BY <4>1
    <3> QED BY <3>1, <3>2
  <2>5. (Level(x, p) <=> Agree(x, parts, 3)) /\ (Over(x, p) <=> Exceeds(x, parts))
    BY <1>1, <2>1, <2>2, <2>3, <2>4 DEF Over, Level
  <2>6. ~(Agree(x, parts, 3) /\ Exceeds(x, parts))
    BY <1>1, <2>1, <2>3, <2>4
  <2> QED BY <1>2, <1>6, <2>5, <2>6 DEF p
<1> QED BY <1>4, <1>5, <1>6

\* A release is at least the version the numbers spell.
AtLeastFrom(x, parts) == Over(x, Padded(parts)) \/ Level(x, Padded(parts))

\* Below the caret's upper bound: the numbers up to the left-most that is not zero are kept.
LEMMA CaretIs ==
  ASSUME NEW parts \in Seq(Nat), Len(parts) \in 1..3, NEW x \in Cores
  PROVE  /\ CaretUpper(parts) \in Releases /\ CaretUpper(parts).pre = <<>>
         /\ DartCaretUpper(parts) = CaretUpper(parts)
         /\ AtLeastFrom(x, parts) /\ Meets("<", x, CaretUpper(parts))
              <=> AtLeastFrom(x, parts) /\ Agree(x, parts, Lead(parts))
<1> DEFINE k == Lead(parts)
           n == Len(parts)
           p == Padded(parts)
           c == [i \in 1..3 |-> IF i = k THEN parts[i] + 1 ELSE 0]
<1>1. CaretUpper(parts) = [core |-> c, pre |-> <<>>]
  BY DEF CaretUpper, Lead
<1>2. /\ k \in 1..n /\ \A i \in 1..n : i < k => parts[i] = 0
      /\ k < n => parts[k] # 0
  BY KeptIs
<1> HIDE DEF k
<1>3. /\ c[1] = IF 1 = k THEN parts[1] + 1 ELSE 0
      /\ c[2] = IF 2 = k THEN parts[2] + 1 ELSE 0
      /\ c[3] = IF 3 = k THEN parts[3] + 1 ELSE 0
      /\ c = <<c[1], c[2], c[3]>>
  OBVIOUS
<1>4. n \in 1..3 /\ \A i \in 1..n : parts[i] \in Nat
  BY DomainIs
<1>5. x[1] \in Nat /\ x[2] \in Nat /\ x[3] \in Nat
  BY DEF Cores
<1>6. /\ p[1] = IF 1 <= n THEN parts[1] ELSE 0
      /\ p[2] = IF 2 <= n THEN parts[2] ELSE 0
      /\ p[3] = IF 3 <= n THEN parts[3] ELSE 0
  BY DEF Padded
<1>7. c \in Cores
  BY <1>2, <1>4, SMTT(30) DEF Cores
<1>d. <<>> \in Seq(Nat)
  OBVIOUS
<1>8. CaretUpper(parts) \in Releases /\ CaretUpper(parts).pre = <<>> /\ CaretUpper(parts).core = c
  BY <1>1, <1>7, <1>d DEF Releases
<1> HIDE DEF c, p
<1>9. DartCaretUpper(parts) = CaretUpper(parts)
  <2> DEFINE d == IF parts[1] # 0 THEN <<parts[1] + 1, 0, 0>>
                  ELSE IF n = 1 THEN <<1, 0, 0>>
                  ELSE IF parts[2] # 0 THEN <<0, parts[2] + 1, 0>>
                  ELSE IF n = 2 THEN <<0, 1, 0>>
                  ELSE <<0, 0, parts[3] + 1>>
  <2>1. DartCaretUpper(parts) = [core |-> d, pre |-> <<>>]
    BY DEF DartCaretUpper, DartRelease
  <2>2. d = <<c[1], c[2], c[3]>>
    <3> HIDE DEF n
    <3>1. k = 1 \/ k = 2 \/ k = 3
      BY <1>2, <1>4
    <3>2. CASE k = 1
      <4>1. c[1] = parts[1] + 1 /\ c[2] = 0 /\ c[3] = 0
        BY <1>3, <3>2
      <4>2. parts[1] # 0 \/ n = 1
        BY <1>2, <1>4, <3>2
      <4>3. parts[1] = 0 => parts[1] + 1 = 1
        OBVIOUS
      <4> HIDE DEF d
      <4>4. d = <<parts[1] + 1, 0, 0>>
        <5>1. CASE parts[1] # 0
          BY <5>1, Zenon DEF d
        <5>2. CASE parts[1] = 0
          BY <4>2, <4>3, <5>2 DEF d
        <5> QED BY <5>1, <5>2
      <4> QED BY <4>1, <4>4
    <3>3. CASE k = 2
      <4>1. c[1] = 0 /\ c[2] = parts[2] + 1 /\ c[3] = 0
        BY <1>3, <3>3
      <4>2. parts[1] = 0 /\ n # 1 /\ (parts[2] # 0 \/ n = 2)
        BY <1>2, <1>4, <3>3
      <4>3. parts[2] = 0 => parts[2] + 1 = 1
        OBVIOUS
      <4> HIDE DEF d
      <4>4. d = <<0, parts[2] + 1, 0>>
        <5>1. CASE parts[2] # 0
          BY <4>2, <5>1 DEF d
        <5>2. CASE parts[2] = 0
          BY <4>2, <4>3, <5>2 DEF d
        <5> QED BY <5>1, <5>2
      <4> QED BY <4>1, <4>4
    <3>4. CASE k = 3
      <4>1. c[1] = 0 /\ c[2] = 0 /\ c[3] = parts[3] + 1
        BY <1>3, <3>4
      <4>2. parts[1] = 0 /\ parts[2] = 0 /\ n = 3
        BY <1>2, <1>4, <3>4
      <4> QED BY <4>1, <4>2 DEF d
    <3> QED BY <3>1, <3>2, <3>3, <3>4
  <2> QED BY <1>1, <1>3, <2>1, <2>2
<1>10. AtLeastFrom(x, parts) => (Meets("<", x, CaretUpper(parts)) <=> Agree(x, parts, k))
  <2>1. AtLeastFrom(x, parts) <=> Over(x, p) \/ Level(x, p)
    BY DEF AtLeastFrom, p
  <2>2. Meets("<", x, CaretUpper(parts)) <=> ~Over(x, c) /\ ~Level(x, c)
    BY <1>8 DEF Meets
  <2> HIDE DEF n
  <2>3. k = 1 \/ k = 2 \/ k = 3
    BY <1>2, <1>4
  <2>4. CASE k = 1
    <3>1. c[1] = parts[1] + 1 /\ c[2] = 0 /\ c[3] = 0 /\ p[1] = parts[1] /\ parts[1] \in Nat
      BY <1>2, <1>3, <1>4, <1>6, <2>4
    <3>2. Agree(x, parts, k) <=> x[1] = parts[1]
      BY <2>4 DEF Agree
    <3> QED BY <1>5, <2>1, <2>2, <3>1, <3>2 DEF Over, Level
  <2>5. CASE k = 2
    <3>1. /\ c[1] = 0 /\ c[2] = parts[2] + 1 /\ c[3] = 0 /\ p[1] = parts[1] /\ p[2] = parts[2]
          /\ parts[1] = 0 /\ parts[2] \in Nat
      BY <1>2, <1>3, <1>4, <1>6, <2>5
    <3>2. Agree(x, parts, k) <=> x[1] = parts[1] /\ x[2] = parts[2]
      BY <2>5 DEF Agree
    <3> QED BY <1>5, <2>1, <2>2, <3>1, <3>2 DEF Over, Level
  <2>6. CASE k = 3
    <3>1. /\ c[1] = 0 /\ c[2] = 0 /\ c[3] = parts[3] + 1
          /\ p[1] = parts[1] /\ p[2] = parts[2] /\ p[3] = parts[3]
          /\ parts[1] = 0 /\ parts[2] = 0 /\ parts[3] \in Nat
      BY <1>2, <1>3, <1>4, <1>6, <2>6, SMTT(30)
    <3>2. Agree(x, parts, k) <=> x[1] = parts[1] /\ x[2] = parts[2] /\ x[3] = parts[3]
      BY <2>6 DEF Agree
    <3> QED BY <1>5, <2>1, <2>2, <3>1, <3>2 DEF Over, Level
  <2> QED BY <2>3, <2>4, <2>5, <2>6
<1> QED BY <1>8, <1>9, <1>10 DEF k

\* Below the tilde's upper bound: the first two numbers that are given are kept.
LEMMA TildeIs ==
  ASSUME NEW parts \in Seq(Nat), Len(parts) \in 1..3, NEW x \in Cores
  PROVE  /\ TildeUpper(parts) \in Releases /\ TildeUpper(parts).pre = <<>>
         /\ DartTildeUpper(parts) = TildeUpper(parts)
         /\ AtLeastFrom(x, parts) /\ Meets("<", x, TildeUpper(parts))
              <=> AtLeastFrom(x, parts) /\ Agree(x, parts, Min({2, Len(parts)}))
         /\ Len(parts) # 3 => Min({2, Len(parts)}) = Len(parts)
<1> DEFINE n == Len(parts)
           p == Padded(parts)
           m == Min({2, n})
<1>1. n \in 1..3 /\ \A i \in 1..n : parts[i] \in Nat
  BY DomainIs
<1>2. x[1] \in Nat /\ x[2] \in Nat /\ x[3] \in Nat
  BY DEF Cores
<1>3. /\ p[1] = IF 1 <= n THEN parts[1] ELSE 0
      /\ p[2] = IF 2 <= n THEN parts[2] ELSE 0
  BY DEF Padded
<1>4. m \in {2, n} /\ \A y \in {2, n} : m <= y
  <2>1. {2, n} \subseteq Nat /\ {2, n} # {}
    BY <1>1
  <2> QED BY <2>1, MinIs, Zenon
<1> HIDE DEF m, p, n
<1>5. m = IF n = 1 THEN 1 ELSE 2
  BY <1>1, <1>4
<1>6. \A i, j \in Nat : Triple(i, j, 0) \in Releases /\ Triple(i, j, 0).pre = <<>>
                        /\ Triple(i, j, 0).core = <<i, j, 0>>
  BY DEF Triple, Releases, Cores
<1>7. TildeUpper(parts) = IF n = 1 THEN Triple(parts[1] + 1, 0, 0)
                          ELSE Triple(parts[1], parts[2] + 1, 0)
  BY DEF TildeUpper, n
<1>8. DartTildeUpper(parts) = TildeUpper(parts)
  BY DEF TildeUpper, DartTildeUpper, DartRelease, Triple
<1>9. AtLeastFrom(x, parts) <=> Over(x, p) \/ Level(x, p)
  BY DEF AtLeastFrom, p
<1>10. CASE n = 1
  <2>1. parts[1] \in Nat /\ parts[1] + 1 \in Nat /\ p[1] = parts[1]
    BY <1>1, <1>3, <1>10
  <2>2. TildeUpper(parts) \in Releases /\ TildeUpper(parts).pre = <<>>
        /\ TildeUpper(parts).core = <<parts[1] + 1, 0, 0>>
    BY <1>6, <1>7, <1>10, <2>1
  <2>3. Meets("<", x, TildeUpper(parts)) <=> ~Over(x, <<parts[1] + 1, 0, 0>>) /\ ~Level(x, <<parts[1] + 1, 0, 0>>)
    BY <2>2 DEF Meets
  <2>4. Agree(x, parts, m) <=> x[1] = parts[1]
    BY <1>5, <1>10 DEF Agree
  <2>5. AtLeastFrom(x, parts) => (Meets("<", x, TildeUpper(parts)) <=> Agree(x, parts, m))
    BY <1>2, <1>9, <2>1, <2>3, <2>4 DEF Over, Level
  <2> QED BY <1>5, <1>8, <1>10, <2>2, <2>5 DEF m, n
<1>11. CASE n # 1
  <2>1. parts[1] \in Nat /\ parts[2] \in Nat /\ parts[2] + 1 \in Nat /\ p[1] = parts[1] /\ p[2] = parts[2]
    BY <1>1, <1>3, <1>11
  <2>2. TildeUpper(parts) \in Releases /\ TildeUpper(parts).pre = <<>>
        /\ TildeUpper(parts).core = <<parts[1], parts[2] + 1, 0>>
    BY <1>6, <1>7, <1>11, <2>1, SMTT(30)
  <2>3. Meets("<", x, TildeUpper(parts))
          <=> ~Over(x, <<parts[1], parts[2] + 1, 0>>) /\ ~Level(x, <<parts[1], parts[2] + 1, 0>>)
    BY <2>2 DEF Meets
  <2>4. Agree(x, parts, m) <=> x[1] = parts[1] /\ x[2] = parts[2]
    BY <1>5, <1>11 DEF Agree
  <2>5. AtLeastFrom(x, parts) => (Meets("<", x, TildeUpper(parts)) <=> Agree(x, parts, m))
    BY <1>2, <1>9, <2>1, <2>3, <2>4 DEF Over, Level
  <2>6. n # 3 => m = n
    BY <1>1, <1>5, <1>11
  <2> QED BY <1>8, <2>2, <2>5, <2>6 DEF m, n
<1> QED BY <1>10, <1>11

\* A comparator's version that is one, and the version its bounds start from.
Legible(text) == Partial(text) # {}
FromOf(text) == [core |-> Padded(text.nums), pre |-> IF text.tail = "pre" THEN text.pre ELSE <<>>]

\* Both mirrors find the same tokens legible, and what a legible one holds.
LEMMA LegibleIs ==
  ASSUME NEW t \in Texts
  PROVE  /\ DartPartial(t) <=> Legible(t)
         /\ Legible(t) =>
              /\ Partial(t) = {[parts |-> t.nums, wildcard |-> t.wild # "",
                                pre |-> IF t.tail = "pre" THEN t.pre ELSE <<>>]}
              /\ t.nums \in Seq(Nat) /\ t.pre \in Seq(Nat)
              /\ t.nums # <<>> => Len(t.nums) \in 1..3
              /\ t.nums = <<>> => t.wild # ""
              /\ t.wild # "" => Len(t.nums) # 3
              /\ t.tail = "pre" => t.pre # <<>>
<1>1. /\ t.nums \in Seq(Nat) /\ t.pre \in Seq(Nat) /\ t.zero \in BOOLEAN
      /\ t.wild \in {"", "x", "*", "x.", "*."}
      /\ t.tail \in {"", "pre", "build", "pep", "post", "word"}
      /\ t.tail = "pre" => t.pre # <<>>
  BY DEF Texts, Tails
<1> DEFINE n == Len(t.nums)
           p == [parts |-> t.nums, wildcard |-> t.wild # "",
                 pre |-> IF t.tail = "pre" THEN t.pre ELSE <<>>]
           bad == \/ t.tail \in {"pep", "post", "word"}
                  \/ t.wild \in {"x.", "*."}
                  \/ t.wild # "" /\ n >= 3
                  \/ t.zero
                  \/ n > 3
                  \/ t.nums = <<>> /\ t.wild = ""
<1>2. Partial(t) = IF bad THEN {} ELSE {p}
  BY DEF Partial
<1>3. n \in Nat /\ (t.nums # <<>> <=> n > 0)
  <2>1. \A q \in Seq(Nat) : Len(q) \in Nat
    OBVIOUS
  <2> QED BY <1>1, <2>1, FewAre, Zenon
<1>4. {p} # {}
  OBVIOUS
<1>5. Legible(t) <=> ~bad
  BY <1>2, <1>4, Zenon DEF Legible
<1> HIDE DEF n, p
<1>6. DartPartial(t) <=> ~bad
  <2>1. DartPartial(t) <=> /\ t.tail \in {"", "pre", "build"}
                           /\ ~t.zero
                           /\ n <= (IF t.wild = "" THEN 3 ELSE 2)
                           /\ t.wild \in {"", "x", "*"}
                           /\ (t.nums # <<>> \/ t.wild # "")
    BY DEF DartPartial, n
  <2>2. t.tail \in {"", "pre", "build"} <=> ~(t.tail \in {"pep", "post", "word"})
    BY <1>1
  <2>3. t.wild \in {"", "x", "*"} <=> ~(t.wild \in {"x.", "*."})
    BY <1>1
  <2>4. n <= (IF t.wild = "" THEN 3 ELSE 2) <=> ~(n > 3) /\ ~(t.wild # "" /\ n >= 3)
    <3>0. n \in Nat
      BY <1>3
    <3>1. n <= 3 <=> ~(n > 3)
      BY <3>0
    <3>2. n <= 2 <=> ~(n > 3) /\ ~(n >= 3)
      BY <3>0
    <3>3. CASE t.wild = ""
      <4>1. (IF t.wild = "" THEN 3 ELSE 2) = 3
        BY <3>3
      <4> QED BY <3>1, <3>3, <4>1, Zenon
    <3>4. CASE t.wild # ""
      <4>1. (IF t.wild = "" THEN 3 ELSE 2) = 2
        BY <3>4
      <4> QED BY <3>2, <3>4, <4>1, Zenon
    <3> QED BY <3>3, <3>4, Zenon
  <2> QED BY <2>1, <2>2, <2>3, <2>4, Zenon
<1>7. ASSUME ~bad
      PROVE  /\ t.nums # <<>> => n \in 1..3
             /\ t.nums = <<>> => t.wild # ""
             /\ t.wild # "" => n # 3
  <2>1. ~(n > 3) /\ ~(t.wild # "" /\ n >= 3) /\ ~(t.nums = <<>> /\ t.wild = "")
    BY <1>7, Zenon
  <2> HIDE DEF bad
  <2>0. n \in Nat
    BY <1>3
  <2>2. n > 0 /\ ~(n > 3) => n \in 1..3
    BY <2>0
  <2>3. n = 3 => n >= 3
    BY <2>0
  <2> QED BY <1>3, <2>1, <2>2, <2>3, Zenon
<1>8. Legible(t) => Partial(t) = {p}
  BY <1>2, <1>5, Zenon
<1> QED BY <1>1, <1>5, <1>6, <1>7, <1>8, Zenon DEF n, p

\* The bounds of a token, operator by operator, the same in both mirrors.
LEMMA ExpandIs ==
  ASSUME NEW token \in Tokens, Legible(token.of), NEW parts, parts = token.of.nums,
         NEW from, from = FromOf(token.of)
  PROVE  /\ parts = <<>> => Expand(token) = {}
         /\ parts # <<>> =>
              /\ token.op = "" /\ token.of.wild # "" =>
                   Expand(token) = {Bound(">=", from), Bound("<", TildeUpper(parts))}
              /\ (token.op = "" /\ token.of.wild = "") \/ token.op = "^" =>
                   Expand(token) = {Bound(">=", from), Bound("<", CaretUpper(parts))}
              /\ token.op = "~" \/ (token.op = "=" /\ Len(parts) # 3) =>
                   Expand(token) = {Bound(">=", from), Bound("<", TildeUpper(parts))}
              /\ token.op \in {">", ">=", "<", "<="} \/ (token.op = "=" /\ Len(parts) = 3) =>
                   Expand(token) = {Bound(token.op, from)}
         /\ DartExpand(token) = Expand(token)
<1> DEFINE t == token.of
           pre == IF t.tail = "pre" THEN t.pre ELSE <<>>
           p == [parts |-> t.nums, wildcard |-> t.wild # "", pre |-> pre]
           upTo(upper) == {Bound(">=", from), Bound("<", upper)}
           bounds ==
             IF parts = <<>> THEN {}
             ELSE IF token.op = "" /\ t.wild # "" THEN upTo(TildeUpper(parts))
             ELSE CASE token.op \in {"", "^"} -> upTo(CaretUpper(parts))
                    [] token.op = "~" -> upTo(TildeUpper(parts))
                    [] token.op = "=" -> IF Len(parts) = 3 THEN {Bound("=", from)}
                                         ELSE upTo(TildeUpper(parts))
                    [] OTHER -> {Bound(token.op, from)}
<1>1. t \in Texts /\ token.op \in Operators
  BY DEF Tokens
<1>2. /\ Partial(t) = {p}
      /\ t.nums \in Seq(Nat) /\ t.pre \in Seq(Nat)
      /\ t.nums # <<>> => Len(t.nums) \in 1..3
  BY <1>1, LegibleIs, Zenon
<1>3. from = AtLeast(parts, pre)
  BY DEF FromOf, AtLeast
<1>4. Expand(token) = bounds
  <2>1. p.parts = parts /\ p.pre = pre /\ (p.wildcard <=> t.wild # "")
    OBVIOUS
  <2> DEFINE expanded(q) ==
               LET first == AtLeast(q.parts, q.pre)
                   to(upper) == {Bound(">=", first), Bound("<", upper)}
               IN  IF q.parts = <<>> THEN {}
                   ELSE IF token.op = "" /\ q.wildcard THEN to(TildeUpper(q.parts))
                   ELSE CASE token.op \in {"", "^"} -> to(CaretUpper(q.parts))
                          [] token.op = "~" -> to(TildeUpper(q.parts))
                          [] token.op = "=" -> IF Len(q.parts) = 3 THEN {Bound("=", first)}
                                               ELSE to(TildeUpper(q.parts))
                          [] OTHER -> {Bound(token.op, first)}
  <2>2. Expand(token) = UNION {expanded(q) : q \in {p}}
    BY <1>2, Zenon DEF Expand
  <2> HIDE DEF p
  <2>3. expanded(p) = bounds
    BY <1>3, <2>1
  <2> HIDE DEF expanded, bounds
  <2>4. UNION {expanded(q) : q \in {p}} = expanded(p)
    OBVIOUS
  <2> QED BY <2>2, <2>3, <2>4, Zenon
<1>5. DartFrom(t) = from
  <2>1. Padded(t.nums) = DartSegments(t.nums)
    <3>1. CASE t.nums = <<>>
      <4>1. t.nums \in Seq(Nat) /\ Len(t.nums) = 0
        BY <1>2, <3>1
      <4>2. Len(t.nums) <= 3
        BY <4>1
      <4> QED BY <4>1, <4>2, PaddedIs
    <3>2. CASE t.nums # <<>>
      BY <1>2, <3>2, FewAre, PaddedIs, Zenon
    <3> QED BY <3>1, <3>2
  <2> QED BY <2>1, Zenon DEF DartFrom, FromOf
<1>6. DartExpand(token) = bounds
  <2>1. parts # <<>> => /\ DartCaretUpper(parts) = CaretUpper(parts)
                        /\ DartTildeUpper(parts) = TildeUpper(parts)
    <3> SUFFICES ASSUME parts # <<>> PROVE DartCaretUpper(parts) = CaretUpper(parts)
                                           /\ DartTildeUpper(parts) = TildeUpper(parts)
      OBVIOUS
    <3>1. parts \in Seq(Nat) /\ Len(parts) \in 1..3
      BY <1>2, Zenon
    <3>2. PICK x \in Cores : TRUE
      <4>1. [i \in 1..3 |-> 0] \in Cores
        BY DEF Cores
      <4> QED BY <4>1, Zenon
    <3> QED BY <3>1, <3>2, CaretIs, TildeIs, Zenon
  <2>2. token.op \in {"", "^", "~", "=", ">", ">=", "<", "<="}
    BY <1>1 DEF Operators
  <2>3. parts # <<>> => (Len(parts) < 3 <=> Len(parts) # 3)
    <3>1. \A n \in 1..3 : n < 3 <=> n # 3
      OBVIOUS
    <3> QED BY <1>2, <3>1, Zenon
  <2> DEFINE op == IF token.op = "" THEN "^" ELSE token.op
  <2>4. DartExpand(token) =
           CASE parts = <<>> -> {}
             [] parts # <<>> /\ t.wild # "" /\ token.op = "" -> upTo(DartTildeUpper(parts))
             [] parts # <<>> /\ ~(t.wild # "" /\ token.op = "") ->
                  CASE op = "^" -> upTo(DartCaretUpper(parts))
                    [] op = "~" \/ (op = "=" /\ Len(parts) < 3) -> upTo(DartTildeUpper(parts))
                    [] OTHER -> {Bound(op, from)}
    BY <1>5 DEF DartExpand
  <2> HIDE DEF upTo
  <2>5. CASE parts = <<>>
    BY <2>4, <2>5
  <2>6. CASE parts # <<>> /\ t.wild # "" /\ token.op = ""
    BY <2>1, <2>4, <2>6
  <2>7. CASE parts # <<>> /\ ~(t.wild # "" /\ token.op = "")
    <3>1. DartExpand(token) =
             CASE op = "^" -> upTo(DartCaretUpper(parts))
               [] op = "~" \/ (op = "=" /\ Len(parts) < 3) -> upTo(DartTildeUpper(parts))
               [] OTHER -> {Bound(op, from)}
      BY <2>4, <2>7
    <3> QED BY <2>1, <2>2, <2>3, <2>7, <3>1
  <2> QED BY <2>5, <2>6, <2>7
<1>7. DartExpand(token) = Expand(token)
  BY <1>4, <1>6
<1>8. token.op \in {"", "^", "~", "=", ">", ">=", "<", "<="}
  BY <1>1 DEF Operators
<1> HIDE DEF upTo
<1>9. parts = <<>> => bounds = {}
  OBVIOUS
<1>10. ASSUME parts # <<>>
       PROVE  /\ token.op = "" /\ t.wild # "" => bounds = upTo(TildeUpper(parts))
              /\ (token.op = "" /\ t.wild = "") \/ token.op = "^" => bounds = upTo(CaretUpper(parts))
              /\ token.op = "~" \/ (token.op = "=" /\ Len(parts) # 3) => bounds = upTo(TildeUpper(parts))
              /\ token.op \in {">", ">=", "<", "<="} \/ (token.op = "=" /\ Len(parts) = 3) =>
                   bounds = {Bound(token.op, from)}
  BY <1>8, <1>10
<1> HIDE DEF bounds
<1> QED BY <1>4, <1>7, <1>9, <1>10, Zenon DEF upTo

\* Cargo's comparator, operator by operator.
LEMMA CargoIs ==
  ASSUME NEW token \in Tokens, NEW x, NEW parts, parts = token.of.nums,
         NEW pre \in BOOLEAN, pre <=> token.of.tail = "pre",
         NEW all \in BOOLEAN, all <=> Agree(x, parts, Len(parts)),
         NEW above \in BOOLEAN, above <=> Exceeds(x, parts) \/ (all /\ pre)
  PROVE  /\ token.op = "" /\ token.of.wild # "" => (CargoAdmits(token, x) <=> all /\ ~pre)
         /\ (token.op = "" /\ token.of.wild = "") \/ token.op = "^" =>
              (CargoAdmits(token, x) <=> Agree(x, parts, Lead(parts)) /\ (all \/ above))
         /\ token.op = "~" =>
              (CargoAdmits(token, x) <=> Agree(x, parts, Min({2, Len(parts)})) /\ (all \/ above))
         /\ token.op = "=" => (CargoAdmits(token, x) <=> all /\ ~pre)
         /\ token.op = ">" => (CargoAdmits(token, x) <=> above)
         /\ token.op = ">=" => (CargoAdmits(token, x) <=> (all /\ ~pre) \/ above)
         /\ token.op = "<" => (CargoAdmits(token, x) <=> ~(all /\ ~pre) /\ ~above)
         /\ token.op = "<=" => (CargoAdmits(token, x) <=> ~above)
<1> DEFINE kept == Agree(x, parts, Lead(parts))
           two == Agree(x, parts, Min({2, Len(parts)}))
           wild == token.of.wild # ""
<1>1. CargoAdmits(token, x) =
        CASE token.op = "" /\ wild -> all /\ ~pre
          [] token.op = "" /\ ~wild -> kept /\ (all \/ above)
          [] token.op = "^" -> kept /\ (all \/ above)
          [] token.op = "~" -> two /\ (all \/ above)
          [] token.op = "=" -> all /\ ~pre
          [] token.op = ">" -> above
          [] token.op = ">=" -> (all /\ ~pre) \/ above
          [] token.op = "<" -> ~(all /\ ~pre) /\ ~above
          [] token.op = "<=" -> ~above
  <2>1. all = Agree(x, parts, Len(parts)) /\ pre = (token.of.tail = "pre")
    BY DEF Agree
  <2>2. above = (Exceeds(x, parts) \/ (all /\ pre))
    BY DEF Exceeds
  <2> QED BY <2>1, <2>2 DEF CargoAdmits, Agree, Exceeds, Lead
<1> HIDE DEF kept, two, wild
<1> QED BY <1>1 DEF kept, two, wild

\* Cargo's comparator admits exactly what meets the bounds of the two mirrors.
LEMMA TokenAgrees ==
  ASSUME NEW token \in Tokens, Legible(token.of), ReadAlike(token), NEW x \in Cores
  PROVE  /\ \A b \in Expand(token) : b.op \in {"=", ">", ">=", "<", "<="} /\ b.version \in Releases
         /\ CargoAdmits(token, x) <=> \A b \in Expand(token) : Meets(b.op, x, b.version)
<1> DEFINE t == token.of
           parts == t.nums
           n == Len(parts)
           from == FromOf(t)
           pre == t.tail = "pre"
           all == Agree(x, parts, n)
           over == Exceeds(x, parts)
           above == over \/ (all /\ pre)
           goal == /\ \A b \in Expand(token) :
                         b.op \in {"=", ">", ">=", "<", "<="} /\ b.version \in Releases
                   /\ CargoAdmits(token, x) <=> \A b \in Expand(token) : Meets(b.op, x, b.version)
<1>1. t \in Texts /\ token.op \in {"", "^", "~", "=", ">", ">=", "<", "<="}
  BY DEF Tokens, Operators
<1>2. /\ parts \in Seq(Nat) /\ t.pre \in Seq(Nat)
      /\ parts # <<>> => n \in 1..3
      /\ parts = <<>> => t.wild # ""
      /\ t.wild # "" => n # 3
      /\ pre => t.pre # <<>>
  BY <1>1, LegibleIs, Zenon
<1>3. /\ token.op \in {">", "<="} \/ pre => n = 3
      /\ token.op = "<" => parts # <<>>
  BY Zenon DEF ReadAlike, Legible
<1>4. /\ parts = <<>> => Expand(token) = {}
      /\ parts # <<>> =>
           /\ token.op = "" /\ t.wild # "" =>
                Expand(token) = {Bound(">=", from), Bound("<", TildeUpper(parts))}
           /\ (token.op = "" /\ t.wild = "") \/ token.op = "^" =>
                Expand(token) = {Bound(">=", from), Bound("<", CaretUpper(parts))}
           /\ token.op = "~" \/ (token.op = "=" /\ n # 3) =>
                Expand(token) = {Bound(">=", from), Bound("<", TildeUpper(parts))}
           /\ token.op \in {">", ">=", "<", "<="} \/ (token.op = "=" /\ n = 3) =>
                Expand(token) = {Bound(token.op, from)}
  BY ExpandIs, Zenon
<1>5. /\ token.op = "" /\ t.wild # "" => (CargoAdmits(token, x) <=> all /\ ~pre)
      /\ (token.op = "" /\ t.wild = "") \/ token.op = "^" =>
           (CargoAdmits(token, x) <=> Agree(x, parts, Lead(parts)) /\ (all \/ above))
      /\ token.op = "~" =>
           (CargoAdmits(token, x) <=> Agree(x, parts, Min({2, n})) /\ (all \/ above))
      /\ token.op = "=" => (CargoAdmits(token, x) <=> all /\ ~pre)
      /\ token.op = ">" => (CargoAdmits(token, x) <=> above)
      /\ token.op = ">=" => (CargoAdmits(token, x) <=> (all /\ ~pre) \/ above)
      /\ token.op = "<" => (CargoAdmits(token, x) <=> ~(all /\ ~pre) /\ ~above)
      /\ token.op = "<=" => (CargoAdmits(token, x) <=> ~above)
  <2>1. pre \in BOOLEAN /\ all \in BOOLEAN /\ above \in BOOLEAN
    BY Zenon DEF Agree, Exceeds
  <2> QED BY <2>1, CargoIs, ZenonT(30)
<1>6. ASSUME parts = <<>> PROVE goal
  <2>1. n = 0 /\ ~pre /\ token.op \in {"", "^", "~", "=", ">="}
    <3>1. n = 0
      BY <1>6
    <3>2. ~(n = 3)
      BY <3>1
    <3> QED BY <1>1, <1>3, <1>6, <3>1, <3>2, Zenon
  <2>2. t.wild # ""
    BY <1>2, <1>6, Zenon
  <2>3. Agree(x, parts, 0)
    BY DEF Agree
  <2>4. Lead(parts) = 0
    BY <1>6 DEF Lead
  <2>5. Min({2, n}) = 0
    <3>1. {2, 0} \subseteq Nat /\ {2, 0} # {}
      OBVIOUS
    <3>2. Min({2, 0}) \in {2, 0} /\ \A y \in {2, 0} : Min({2, 0}) <= y
      BY <3>1, MinIs, Zenon
    <3>3. Min({2, 0}) = 0
      BY <3>2
    <3> QED BY <2>1, <3>3, Zenon
  <2>6. Expand(token) = {}
    BY <1>4, <1>6, Zenon
  <2> HIDE DEF n, pre
  <2>7. all
    BY <2>1, <2>3
  <2> HIDE DEF all
  <2>8. CargoAdmits(token, x)
    <3>1. CASE token.op = "" BY <1>5, <2>1, <2>2, <2>7, <3>1, Zenon
    <3>2. CASE token.op = "^" BY <1>5, <2>3, <2>4, <2>7, <3>2, Zenon
    <3>3. CASE token.op = "~" BY <1>5, <2>3, <2>5, <2>7, <3>3, Zenon
    <3>4. CASE token.op = "=" BY <1>5, <2>1, <2>7, <3>4, Zenon
    <3>5. CASE token.op = ">=" BY <1>5, <2>1, <2>7, <3>5, Zenon
    <3> QED BY <2>1, <3>1, <3>2, <3>3, <3>4, <3>5, Zenon
  <2> QED BY <2>6, <2>8
<1>7. ASSUME parts # <<>> PROVE goal
  <2>1. n \in 1..3
    BY <1>2, <1>7, Zenon
  <2>2. /\ Padded(parts) \in Cores
        /\ AtLeastFrom(x, parts) <=> all \/ over
        /\ n = 3 => /\ Level(x, Padded(parts)) <=> all
                    /\ Over(x, Padded(parts)) <=> over
        /\ ~(all /\ over)
    <3>1. /\ Padded(parts) \in Cores
          /\ Over(x, Padded(parts)) \/ Level(x, Padded(parts)) <=> all \/ over
          /\ n = 3 => /\ Level(x, Padded(parts)) <=> Agree(x, parts, 3)
                      /\ Over(x, Padded(parts)) <=> over
          /\ ~(all /\ over)
      BY <1>2, <2>1, FromIs, Zenon
    <3> QED BY <3>1, Zenon DEF AtLeastFrom
  <2>3. /\ CaretUpper(parts) \in Releases
        /\ AtLeastFrom(x, parts) /\ Meets("<", x, CaretUpper(parts))
              <=> AtLeastFrom(x, parts) /\ Agree(x, parts, Lead(parts))
    BY <1>2, <2>1, CaretIs, Zenon
  <2>4. /\ TildeUpper(parts) \in Releases
        /\ AtLeastFrom(x, parts) /\ Meets("<", x, TildeUpper(parts))
              <=> AtLeastFrom(x, parts) /\ Agree(x, parts, Min({2, n}))
        /\ n # 3 => Min({2, n}) = n
    BY <1>2, <2>1, TildeIs, Zenon
  <2>5. /\ from \in Releases /\ from.core = Padded(parts) /\ (from.pre # <<>> <=> pre)
    <3>1. <<>> \in Seq(Nat)
      OBVIOUS
    <3> QED BY <1>2, <2>2, <3>1 DEF FromOf, Releases
  <2>6. /\ Meets(">=", x, from) <=> AtLeastFrom(x, parts)
        /\ Meets("<", x, from) <=> ~AtLeastFrom(x, parts)
        /\ n = 3 => /\ Meets("=", x, from) <=> all /\ ~pre
                    /\ Meets(">", x, from) <=> above
                    /\ Meets("<=", x, from) <=> ~above
    <3> HIDE DEF n, pre, all, over, from
    <3>1. /\ Meets(">=", x, from) <=> AtLeastFrom(x, parts)
          /\ Meets("<", x, from) <=> ~AtLeastFrom(x, parts)
      BY <2>5 DEF Meets, AtLeastFrom
    <3>2. ASSUME n = 3
          PROVE  /\ Meets("=", x, from) <=> all /\ ~pre
                 /\ Meets(">", x, from) <=> above
                 /\ Meets("<=", x, from) <=> ~above
      BY <2>2, <2>5, <3>2 DEF Meets
    <3> QED BY <3>1, <3>2
  <2>7. \A op, b : Bound(op, b).op = op /\ Bound(op, b).version = b
    BY DEF Bound
  <2> HIDE DEF n, from, all, over, pre, parts, t
  <2>8. ASSUME NEW upper, upper \in Releases, NEW within,
               AtLeastFrom(x, parts) /\ Meets("<", x, upper) <=> AtLeastFrom(x, parts) /\ within,
               Expand(token) = {Bound(">=", from), Bound("<", upper)},
               CargoAdmits(token, x) <=> AtLeastFrom(x, parts) /\ within
        PROVE  goal
    <3>1. \A b \in Expand(token) : b = Bound(">=", from) \/ b = Bound("<", upper)
      BY <2>8
    <3>2. Bound(">=", from) \in Expand(token) /\ Bound("<", upper) \in Expand(token)
      BY <2>8
    <3>3. \A b \in Expand(token) : b.op \in {"=", ">", ">=", "<", "<="} /\ b.version \in Releases
      BY <2>5, <2>7, <2>8, <3>1
    <3>4. (\A b \in Expand(token) : Meets(b.op, x, b.version))
             <=> Meets(">=", x, from) /\ Meets("<", x, upper)
      BY <2>7, <3>1, <3>2
    <3> QED BY <2>6, <2>8, <3>3, <3>4, Zenon
  <2>9. ASSUME token.op \in {"=", ">", ">=", "<", "<="},
               Expand(token) = {Bound(token.op, from)},
               CargoAdmits(token, x) <=> Meets(token.op, x, from)
        PROVE  goal
    <3>1. \A b \in Expand(token) : b = Bound(token.op, from)
      BY <2>9
    <3>2. Bound(token.op, from) \in Expand(token)
      BY <2>9
    <3>3. \A b \in Expand(token) : b.op \in {"=", ">", ">=", "<", "<="} /\ b.version \in Releases
      BY <2>5, <2>7, <2>9, <3>1
    <3>4. (\A b \in Expand(token) : Meets(b.op, x, b.version)) <=> Meets(token.op, x, from)
      BY <2>7, <3>1, <3>2, ZenonT(30)
    <3> QED BY <2>9, <3>3, <3>4, Zenon
  <2>10. t.wild # "" \/ n # 3 => ~pre /\ Min({2, n}) = n
    BY <1>2, <1>3, <2>4, Zenon
  <2> HIDE DEF goal
  <2>11. CASE (token.op = "" /\ t.wild # "") \/ (token.op = "=" /\ n # 3)
    <3>1. Min({2, n}) = n /\ ~pre
      BY <2>10, <2>11, Zenon
    <3>2. Agree(x, parts, Min({2, n})) <=> all
      BY <3>1 DEF all
    <3>3. CargoAdmits(token, x) <=> AtLeastFrom(x, parts) /\ Agree(x, parts, Min({2, n}))
      BY <1>5, <2>2, <2>11, <3>1, <3>2, Zenon
    <3>4. Expand(token) = {Bound(">=", from), Bound("<", TildeUpper(parts))}
      BY <1>4, <1>7, <2>11, Zenon
    <3> QED BY <2>4, <2>8, <3>3, <3>4, Zenon
  <2>12. CASE (token.op = "" /\ t.wild = "") \/ token.op = "^"
    <3>1. CargoAdmits(token, x) <=> AtLeastFrom(x, parts) /\ Agree(x, parts, Lead(parts))
      BY <1>5, <2>2, <2>12, Zenon
    <3>2. Expand(token) = {Bound(">=", from), Bound("<", CaretUpper(parts))}
      BY <1>4, <1>7, <2>12, Zenon
    <3> QED BY <2>3, <2>8, <3>1, <3>2, Zenon
  <2>13. CASE token.op = "~"
    <3>1. CargoAdmits(token, x) <=> AtLeastFrom(x, parts) /\ Agree(x, parts, Min({2, n}))
      BY <1>5, <2>2, <2>13, Zenon
    <3>2. Expand(token) = {Bound(">=", from), Bound("<", TildeUpper(parts))}
      BY <1>4, <1>7, <2>13, Zenon
    <3> QED BY <2>4, <2>8, <3>1, <3>2, Zenon
  <2>14. CASE token.op \in {">", ">=", "<", "<="} \/ (token.op = "=" /\ n = 3)
    <3>1. Expand(token) = {Bound(token.op, from)}
      BY <1>4, <1>7, <2>14, Zenon
    <3>2. token.op \in {"=", ">", ">=", "<", "<="}
      BY <2>14
    <3>3. CargoAdmits(token, x) <=> Meets(token.op, x, from)
      <4>1. CASE token.op = "=" /\ n = 3 BY <1>5, <2>6, <4>1, Zenon
      <4>2. CASE token.op = ">" BY <1>3, <1>5, <2>6, <4>2, Zenon
      <4>3. CASE token.op = ">=" BY <1>5, <2>2, <2>6, <4>3, Zenon
      <4>4. CASE token.op = "<" BY <1>5, <2>2, <2>6, <4>4, Zenon
      <4>5. CASE token.op = "<=" BY <1>3, <1>5, <2>6, <4>5, Zenon
      <4> QED BY <2>14, <4>1, <4>2, <4>3, <4>4, <4>5, Zenon
    <3> QED BY <2>9, <3>1, <3>2, <3>3, Zenon
  <2> QED BY <1>1, <2>11, <2>12, <2>13, <2>14, Zenon
<1> QED BY <1>6, <1>7

\* A spelling of a version that is not a prerelease.
Stable(tag) == Readable(tag) /\ Reading(tag).pre = <<>>

\* A listed version that can be installed.
LEMMA StableIs ==
  ASSUME NEW tag \in Texts
  PROVE  /\ Reading(tag) \in Releases
         /\ Stable(tag) => Reading(tag) = [core |-> Reading(tag).core, pre |-> <<>>]
                           /\ Reading(tag).core \in Cores
         /\ Installable(tag) <=> Stable(tag)
         /\ DartStable(tag) <=> Stable(tag)
         /\ Readable(tag) => /\ ParseVersion(tag) = {Reading(tag)}
                             /\ DartParse(tag) = Reading(tag)
                             /\ (CHOOSE p \in ParseVersion(tag) : TRUE) = Reading(tag)
<1> DEFINE r == Reading(tag)
<1>1. ParseVersion(tag) = IF Readable(tag) THEN {r} ELSE {}
  BY ParsedIs, Zenon
<1>2. DartParse(tag) = (IF Readable(tag) THEN r ELSE Null) /\ r # Null
  BY DartParsedIs, Zenon
<1>3. r \in Releases /\ r = [core |-> r.core, pre |-> r.pre] /\ r.core \in Cores
  <2>1. tag.nums \in Seq(Nat) /\ tag.pre \in Seq(Nat) /\ <<>> \in Seq(Nat)
    <3>1. <<>> \in Seq(Nat)
      OBVIOUS
    <3> QED BY <3>1 DEF Texts
  <2>2. \A q \in Seq(Nat) : \A i \in 1..Len(q) : q[i] \in Nat
    OBVIOUS
  <2>3. Padded(tag.nums) \in Cores
    BY <2>1, <2>2 DEF Padded, Cores
  <2> QED BY <2>1, <2>3 DEF Reading, Releases
<1> HIDE DEF r
<1>4. (CHOOSE p \in {r} : TRUE) = r
  OBVIOUS
<1>5. CASE Readable(tag)
  <2>1. ParseVersion(tag) = {r} /\ DartParse(tag) = r
    BY <1>1, <1>2, <1>5, Zenon
  <2>2. Installable(tag) <=> r.pre = <<>>
    BY <2>1 DEF Installable, IsStable
  <2>3. DartStable(tag) <=> r.pre = <<>>
    BY <1>2, <2>1 DEF DartStable
  <2> QED BY <1>3, <1>4, <1>5, <2>1, <2>2, <2>3, Zenon DEF Stable, r
<1>6. CASE ~Readable(tag)
  <2>1. ~Installable(tag)
    BY <1>1, <1>6 DEF Installable
  <2>2. ~DartStable(tag)
    BY <1>2, <1>6 DEF DartStable
  <2> QED BY <1>3, <1>6, <2>1, <2>2, Zenon DEF Stable, r
<1> QED BY <1>5, <1>6

\* What is a range, and what only looks like one, is the same to both mirrors.
LEMMA RangesAlike ==
  ASSUME NEW requirement \in Seq(Tokens)
  PROVE  /\ DartIsRange(requirement) <=> IsRange(requirement)
         /\ DartLooksLikeRange(requirement) <=> LooksLikeRange(requirement)
<1>1. \A i \in DOMAIN requirement : requirement[i].of \in Texts
  <2>1. \A i \in DOMAIN requirement : requirement[i] \in Tokens
    OBVIOUS
  <2>2. \A token \in Tokens : token.of \in Texts
    BY DEF Tokens
  <2> QED BY <2>1, <2>2, Zenon
<1>2. \A i \in DOMAIN requirement : DartPartial(requirement[i].of) <=> Partial(requirement[i].of) # {}
  BY <1>1, LegibleIs, Zenon DEF Legible
<1>3. DartIsRange(requirement) <=> IsRange(requirement)
  BY <1>2, Zenon DEF DartIsRange, IsRange
<1>4. Len(requirement) > 1 <=> Len(requirement) \notin 0..1
  <2>1. \A q \in Seq(Tokens) : Len(q) \in Nat
    OBVIOUS
  <2>2. \A n \in Nat : n > 1 <=> n \notin 0..1
    OBVIOUS
  <2> QED BY <2>1, <2>2, Zenon
<1>5. DartLooksLikeRange(requirement) <=> LooksLikeRange(requirement)
  BY <1>4, Zenon DEF DartLooksLikeRange, LooksLikeRange
<1> QED BY <1>3, <1>5

\* A bound compares with a version, whatever the comparator.
LEMMA BoundsAre ==
  ASSUME NEW token \in Tokens, Legible(token.of)
  PROVE  \A b \in Expand(token) : b.op \in {"=", ">", ">=", "<", "<="} /\ b.version \in Releases
<1> DEFINE t == token.of
           parts == t.nums
           from == FromOf(t)
<1>1. t \in Texts /\ token.op \in {"", "^", "~", "=", ">", ">=", "<", "<="}
  BY DEF Tokens, Operators
<1>2. /\ parts \in Seq(Nat) /\ t.pre \in Seq(Nat)
      /\ parts # <<>> => Len(parts) \in 1..3
  BY <1>1, LegibleIs, Zenon
<1>3. CASE parts = <<>>
  <2>1. Expand(token) = {}
    BY <1>3, ExpandIs, Zenon
  <2> QED BY <2>1
<1>4. CASE parts # <<>>
  <2>1. PICK x \in Cores : TRUE
    <3>1. [i \in 1..3 |-> 0] \in Cores
      BY DEF Cores
    <3> QED BY <3>1, Zenon
  <2>2. Padded(parts) \in Cores /\ CaretUpper(parts) \in Releases /\ TildeUpper(parts) \in Releases
    BY <1>2, <1>4, <2>1, FromIs, CaretIs, TildeIs, Zenon
  <2>3. from \in Releases
    <3>1. <<>> \in Seq(Nat)
      OBVIOUS
    <3> QED BY <1>2, <2>2, <3>1 DEF FromOf, Releases
  <2>4. \/ Expand(token) = {Bound(">=", from), Bound("<", TildeUpper(parts))}
        \/ Expand(token) = {Bound(">=", from), Bound("<", CaretUpper(parts))}
        \/ /\ Expand(token) = {Bound(token.op, from)}
           /\ token.op \in {"=", ">", ">=", "<", "<="}
    <3> DEFINE single == token.op \in {">", ">=", "<", "<="} \/ (token.op = "=" /\ Len(parts) = 3)
    <3>1. single => token.op \in {"=", ">", ">=", "<", "<="}
      OBVIOUS
    <3>2. \/ token.op = "" /\ t.wild # ""
          \/ (token.op = "" /\ t.wild = "") \/ token.op = "^"
          \/ token.op = "~" \/ (token.op = "=" /\ Len(parts) # 3)
          \/ single
      BY <1>1
    <3> QED BY <1>4, <3>1, <3>2, ExpandIs, Zenon
  <2>5. \A op, b : Bound(op, b).op = op /\ Bound(op, b).version = b
    BY DEF Bound
  <2> HIDE DEF from, parts
  <2> QED BY <2>2, <2>3, <2>4, <2>5
<1> QED BY <1>3, <1>4

\* Both mirrors decide a bound alike for a version that is not a prerelease.
LEMMA BoundAlike ==
  ASSUME NEW token \in Tokens, Legible(token.of), NEW b \in Expand(token),
         NEW x \in Cores, NEW r, r = [core |-> x, pre |-> <<>>]
  PROVE  /\ MatchesBound(b, r) <=> Meets(b.op, x, b.version)
         /\ DartBoundMatches(b, r) <=> Meets(b.op, x, b.version)
<1> DEFINE c == CompareVersions(r, b.version)
           d == DartCompare(r, b.version)
           v == b.version
<1>1. b.op \in {"=", ">", ">=", "<", "<="} /\ v \in Releases
  BY BoundsAre, Zenon
<1>2. /\ c \in Int
      /\ c = 0 <=> Meets("=", x, v)
      /\ c > 0 <=> Meets(">", x, v)
      /\ c >= 0 <=> Meets(">=", x, v)
      /\ c < 0 <=> Meets("<", x, v)
      /\ c <= 0 <=> Meets("<=", x, v)
  BY <1>1, OrderIs
<1>3. /\ d \in Int
      /\ d = 0 <=> Meets("=", x, v)
      /\ d > 0 <=> Meets(">", x, v)
      /\ d >= 0 <=> Meets(">=", x, v)
      /\ d < 0 <=> Meets("<", x, v)
      /\ d <= 0 <=> Meets("<=", x, v)
  BY <1>1, OrderIs
<1>4. MatchesBound(b, r) <=> CASE b.op = "="  -> c = 0
                               [] b.op = ">"  -> c > 0
                               [] b.op = ">=" -> c >= 0
                               [] b.op = "<"  -> c < 0
                               [] b.op = "<=" -> c <= 0
  BY DEF MatchesBound
<1>5. DartBoundMatches(b, r) <=> \/ b.op \in {"=", ">=", "<="} /\ d = 0
                                 \/ b.op \in {">", ">="} /\ d > 0
                                 \/ b.op \in {"<", "<="} /\ d < 0
  BY DEF DartBoundMatches
<1> HIDE DEF c, d, v
<1>6. MatchesBound(b, r) <=> Meets(b.op, x, v)
  BY <1>1, <1>2, <1>4
<1>7. DartBoundMatches(b, r) <=> Meets(b.op, x, v)
  BY <1>1, <1>3, <1>5
<1> QED BY <1>6, <1>7 DEF v

\* TypeScript and Dart accept the same tags, whatever the requirement.
LEMMA MirrorsAccept ==
  ASSUME NEW requirement \in Seq(Tokens), IsRange(requirement), NEW tag \in Texts
  PROVE  Installable(tag) /\ RequirementMatches(requirement, tag)
           <=> DartStable(tag) /\ DartMatches(requirement, tag)
<1> DEFINE r == Reading(tag)
           x == r.core
           met == \A i \in DOMAIN requirement :
                    \A b \in Expand(requirement[i]) : Meets(b.op, x, b.version)
<1>1. \A i \in DOMAIN requirement : requirement[i] \in Tokens /\ Legible(requirement[i].of)
  <2>1. \A i \in DOMAIN requirement : requirement[i] \in Tokens
    OBVIOUS
  <2> QED BY <2>1, Zenon DEF IsRange, Legible
<1>2. DartIsRange(requirement)
  BY RangesAlike, Zenon
<1>3. CASE ~Stable(tag)
  BY <1>3, StableIs, Zenon
<1>4. CASE Stable(tag)
  <2>1. /\ r = [core |-> x, pre |-> <<>>] /\ x \in Cores
        /\ Installable(tag) /\ DartStable(tag)
        /\ ParseVersion(tag) = {r} /\ DartParse(tag) = r
    BY <1>4, StableIs, Zenon DEF Stable
  <2>2. r # Null
    BY DartParsedIs, Zenon
  <2> HIDE DEF r, x
  <2>3. \A i \in DOMAIN requirement : \A b \in Expand(requirement[i]) :
           /\ MatchesBound(b, r) <=> Meets(b.op, x, b.version)
           /\ DartBoundMatches(b, r) <=> Meets(b.op, x, b.version)
    BY <1>1, <2>1, BoundAlike, Zenon
  <2>4. \A i \in DOMAIN requirement : DartExpand(requirement[i]) = Expand(requirement[i])
    BY <1>1, ExpandIs, Zenon
  <2>5. RequirementMatches(requirement, tag) <=> met
    <3>1. RequirementMatches(requirement, tag) <=>
            \A b \in ParseBounds(requirement) : MatchesBound(b, r)
      BY <2>1 DEF RequirementMatches
    <3>2. \A b : b \in ParseBounds(requirement) <=> \E i \in DOMAIN requirement : b \in Expand(requirement[i])
      BY DEF ParseBounds
    <3> QED BY <2>3, <3>1, <3>2, Zenon
  <2>6. DartMatches(requirement, tag) <=> met
    <3>1. DartMatches(requirement, tag) <=>
            /\ DartParse(tag) # Null
            /\ \A i \in DOMAIN requirement :
                 \A b \in DartExpand(requirement[i]) : DartBoundMatches(b, DartParse(tag))
      BY <1>2, Zenon DEF DartMatches
    <3> QED BY <2>1, <2>2, <2>3, <2>4, <3>1, Zenon
  <2> QED BY <2>1, <2>5, <2>6, Zenon
<1> QED BY <1>3, <1>4

\* The three clients accept the same versions of a listing.
LEMMA AcceptedAlike ==
  ASSUME NEW requirement \in Seq(Tokens),
         \A i \in DOMAIN requirement : ReadAlike(requirement[i]),
         IsRange(requirement), NEW tag \in Texts
  PROVE  /\ Installable(tag) /\ RequirementMatches(requirement, tag) <=> CargoAccepts(requirement, tag)
         /\ DartStable(tag) /\ DartMatches(requirement, tag) <=> CargoAccepts(requirement, tag)
         /\ CargoAccepts(requirement, tag) => Stable(tag)
<1> DEFINE r == Reading(tag)
           x == r.core
           tokens == \A i \in DOMAIN requirement : CargoAdmits(requirement[i], x)
<1>1. \A i \in DOMAIN requirement : requirement[i] \in Tokens /\ Legible(requirement[i].of)
  <2>1. \A i \in DOMAIN requirement : requirement[i] \in Tokens
    OBVIOUS
  <2> QED BY <2>1, Zenon DEF IsRange, Legible
<1>2. Installable(tag) /\ RequirementMatches(requirement, tag)
        <=> DartStable(tag) /\ DartMatches(requirement, tag)
  BY MirrorsAccept, Zenon
<1>3. CASE ~Stable(tag)
  <2>1. ~Installable(tag) /\ ~DartStable(tag)
    BY <1>3, StableIs, Zenon
  <2>2. ~CargoAccepts(requirement, tag)
    BY <2>1 DEF CargoAccepts, Installable
  <2> QED BY <1>3, <2>1, <2>2, Zenon
<1>4. CASE Stable(tag)
  <2>1. /\ r = [core |-> x, pre |-> <<>>] /\ x \in Cores /\ Installable(tag)
        /\ ParseVersion(tag) = {r} /\ r.pre = <<>>
    BY <1>4, StableIs, Zenon DEF Stable
  <2> HIDE DEF r, x
  <2>2. CargoAccepts(requirement, tag) <=> tokens
    <3>1. CargoAccepts(requirement, tag) <=>
            \E p \in {r} : IsStable(p) /\ \A i \in DOMAIN requirement : CargoAdmits(requirement[i], p.core)
      BY <2>1, Zenon DEF CargoAccepts
    <3>2. IsStable(r) /\ r.core = x
      BY <2>1 DEF IsStable, x
    <3> QED BY <3>1, <3>2
  <2>3. \A i \in DOMAIN requirement :
          CargoAdmits(requirement[i], x) <=> \A b \in Expand(requirement[i]) : MatchesBound(b, r)
    BY <1>1, <2>1, TokenAgrees, BoundAlike, Zenon
  <2>4. RequirementMatches(requirement, tag) <=> tokens
    <3>1. RequirementMatches(requirement, tag) <=>
            \A b \in ParseBounds(requirement) : MatchesBound(b, r)
      BY <2>1 DEF RequirementMatches
    <3>2. \A b : b \in ParseBounds(requirement) <=> \E i \in DOMAIN requirement : b \in Expand(requirement[i])
      BY DEF ParseBounds
    <3> QED BY <2>3, <3>1, <3>2, Zenon
  <2> QED BY <1>2, <1>4, <2>1, <2>2, <2>4, Zenon
<1> QED BY <1>3, <1>4

\* The scan keeps the last of the versions that no other one is better than.
LEMMA ScanIs ==
  ASSUME NEW n \in Nat, NEW A, A \subseteq 1..n, NEW R,
         \A i, j \in A : <<i, j>> \in R \/ <<j, i>> \in R,
         \A i, j, k \in A : <<i, j>> \in R /\ <<j, k>> \in R => <<i, k>> \in R
  PROVE  /\ A = {} => Scan(n, A, R) = 0
         /\ A # {} => /\ Scan(n, A, R) \in A
                      /\ \A j \in A : <<Scan(n, A, R), j>> \in R
                      /\ \A j \in A : <<j, Scan(n, A, R)>> \in R => j <= Scan(n, A, R)
<1> DEFINE step(b, i) == IF i \in A /\ (b = 0 \/ <<i, b>> \in R) THEN i ELSE b
           Is(f, m) == /\ f = [i \in 0..m |-> f[i]]
                       /\ f[0] = 0
                       /\ \A i \in 1..m : f[i] = step(f[i - 1], i)
           best == CHOOSE f : f = [i \in 0..n |->
                     IF i = 0 THEN 0
                     ELSE IF i \in A /\ (f[i - 1] = 0 \/ <<i, f[i - 1]>> \in R) THEN i
                     ELSE f[i - 1]]
<1>1. Scan(n, A, R) = best[n]
  BY DEF Scan
<1>2. \E f : Is(f, n)
  <2> DEFINE S == {m \in 0..n : ~\E f : Is(f, m)}
  <2>1. SUFFICES S = {}
    <3>1. n \in 0..n
      OBVIOUS
    <3> QED BY <2>1, <3>1
  <2>2. ASSUME S # {} PROVE FALSE
    <3>1. S \subseteq Nat
      OBVIOUS
    <3>2. PICK m \in S : \A k \in S : m <= k
      BY <2>2, <3>1, LeastOf
    <3>3. m \in 0..n /\ ~\E f : Is(f, m)
      OBVIOUS
    <3>4. CASE m = 0
      <4> DEFINE g == [i \in 0..0 |-> 0]
      <4>1. Is(g, 0)
        OBVIOUS
      <4> HIDE DEF g, Is
      <4> QED BY <3>3, <3>4, <4>1
    <3>5. CASE m # 0
      <4>1. m - 1 \in 0..n /\ m - 1 < m
        BY <3>3, <3>5
      <4>2. m - 1 \notin S
        BY <3>1, <3>2, <4>1
      <4>3. \E f : Is(f, m - 1)
        <5> HIDE DEF Is
        <5> QED BY <4>1, <4>2
      <4>4. PICK f : Is(f, m - 1)
        BY <4>3, Zenon
      <4> DEFINE g == [i \in 0..m |-> IF i = m THEN step(f[m - 1], m) ELSE f[i]]
      <4>5. g = [i \in 0..m |-> g[i]]
        OBVIOUS
      <4>6. \A i \in 0..m : g[i] = IF i = m THEN step(f[m - 1], m) ELSE f[i]
        OBVIOUS
      <4> HIDE DEF g, step
      <4>7. g[0] = 0
        <5>1. 0 \in 0..m /\ 0 # m
          BY <3>3, <3>5
        <5>2. f[0] = 0
          BY <4>4, Zenon
        <5> QED BY <4>6, <5>1, <5>2
      <4>8. \A i \in 1..m : g[i] = step(g[i - 1], i)
        <5> TAKE i \in 1..m
        <5>1. i \in 0..m /\ i - 1 \in 0..m /\ i - 1 # m
          BY <3>3
        <5>2. g[i - 1] = f[i - 1]
          BY <4>6, <5>1
        <5>3. CASE i = m
          BY <4>6, <5>1, <5>2, <5>3
        <5>4. CASE i # m
          <6>1. i \in 1..(m - 1)
            BY <3>3, <5>4
          <6>2. f[i] = step(f[i - 1], i)
            BY <4>4, <6>1
          <6> QED BY <4>6, <5>1, <5>2, <5>4, <6>2
        <5> QED BY <5>3, <5>4
      <4>9. Is(g, m)
        BY <4>5, <4>7, <4>8
      <4> HIDE DEF Is
      <4> QED BY <3>3, <4>9
    <3> QED BY <3>4, <3>5
  <2> QED BY <2>2
<1> DEFINE body(f) == [i \in 0..n |->
                     IF i = 0 THEN 0
                     ELSE IF i \in A /\ (f[i - 1] = 0 \/ <<i, f[i - 1]>> \in R) THEN i
                     ELSE f[i - 1]]
<1>3. \E f : f = body(f)
  <2>1. PICK f : Is(f, n)
    BY <1>2
  <2>2. \A i \in 0..n : f[i] = body(f)[i]
    <3> TAKE i \in 0..n
    <3>1. CASE i = 0
      BY <2>1, <3>1
    <3>2. CASE i # 0
      <4>1. i \in 1..n
        BY <3>2
      <4>2. f[i] = step(f[i - 1], i)
        BY <2>1, <4>1, Zenon
      <4> QED BY <3>2, <4>2
    <3> QED BY <3>1, <3>2
  <2>3. f = [i \in 0..n |-> f[i]]
    BY <2>1
  <2>4. body(f) = [i \in 0..n |-> body(f)[i]]
    OBVIOUS
  <2>5. f = body(f)
    <3> HIDE DEF body, Is
    <3> QED BY <2>2, <2>3, <2>4
  <2> QED BY <2>5
<1>4. best = body(best)
  <2>1. best = CHOOSE f : f = body(f)
    OBVIOUS
  <2> HIDE DEF best, body
  <2> QED BY <1>3, <2>1
<1> HIDE DEF best
<1>5. best[0] = 0 /\ \A i \in 1..n : best[i] = step(best[i - 1], i)
  <2>1. best[0] = 0
    BY <1>4
  <2>2. \A i \in 1..n : best[i] = step(best[i - 1], i)
    <3> TAKE i \in 1..n
    <3>1. i \in 0..n /\ i # 0
      OBVIOUS
    <3>2. best[i] = body(best)[i]
      BY <1>4
    <3>3. body(best)[i] = step(best[i - 1], i)
      BY <3>1
    <3> QED BY <3>2, <3>3
  <2> QED BY <2>1, <2>2
<1> HIDE DEF body, step
<1> DEFINE Chosen(m) == /\ best[m] = 0 \/ best[m] \in A
                        /\ best[m] \in A => best[m] <= m
                        /\ \A j \in A : j <= m => /\ best[m] \in A
                                                  /\ <<best[m], j>> \in R
                                                  /\ <<j, best[m]>> \in R => j <= best[m]
<1>6. Chosen(0)
  BY <1>5
<1>7. ASSUME NEW m \in 1..n, Chosen(m - 1) PROVE Chosen(m)
  <2> DEFINE b == best[m - 1]
  <2>1. best[m] = step(b, m)
    BY <1>5
  <2>2. 0 \notin A
    OBVIOUS
  <2>3. \A j \in A : j <= m => j <= m - 1 \/ j = m
    OBVIOUS
  <2>4. <<m, m>> \in R \/ m \notin A
    OBVIOUS
  <2>5. /\ b = 0 \/ b \in A
        /\ b \in A => b <= m - 1
        /\ \A j \in A : j <= m - 1 => /\ b \in A
                                      /\ <<b, j>> \in R
                                      /\ <<j, b>> \in R => j <= b
    BY <1>7, Zenon
  <2> HIDE DEF b
  <2>6. CASE m \in A /\ (b = 0 \/ <<m, b>> \in R)
    <3>1. best[m] = m
      BY <2>1, <2>6 DEF step
    <3>2. \A j \in A : j <= m => <<m, j>> \in R
      <4> TAKE j \in A
      <4>1. CASE j = m
        BY <2>4, <2>6, <4>1
      <4>2. CASE j <= m - 1
        <5>1. b \in A /\ <<b, j>> \in R
          BY <2>5, <4>2
        <5>2. <<m, b>> \in R
          BY <2>2, <2>6, <5>1
        <5> QED BY <2>6, <5>1, <5>2
      <4> QED BY <2>3, <4>1, <4>2
    <3> QED BY <2>6, <3>1, <3>2
  <2>7. CASE ~(m \in A /\ (b = 0 \/ <<m, b>> \in R))
    <3>1. best[m] = b
      BY <2>1, <2>7 DEF step
    <3>2. b \in A => b <= m
      BY <2>5
    <3>3. ASSUME NEW j \in A, j <= m
          PROVE  b \in A /\ <<b, j>> \in R /\ (<<j, b>> \in R => j <= b)
      <4>1. CASE j <= m - 1
        BY <2>5, <4>1
      <4>2. CASE j = m
        <5>1. b \in A /\ <<m, b>> \notin R
          BY <2>5, <2>7, <4>2
        <5> QED BY <4>2, <5>1
      <4> QED BY <2>3, <3>3, <4>1, <4>2
    <3> QED BY <2>5, <3>1, <3>2, <3>3
  <2> QED BY <2>6, <2>7
<1>8. Chosen(n)
  <2> DEFINE S == {m \in 0..n : ~Chosen(m)}
  <2>1. S \subseteq Nat
    OBVIOUS
  <2>2. \A m \in 0..n : m \notin S => Chosen(m)
    OBVIOUS
  <2>3. \A m \in S : m \in 0..n /\ ~Chosen(m)
    OBVIOUS
  <2> HIDE DEF Chosen, S
  <2>4. ASSUME S # {} PROVE FALSE
    <3>1. PICK m \in S : \A k \in S : m <= k
      BY <2>1, <2>4, LeastOf
    <3>2. m \in 0..n /\ m # 0
      BY <1>6, <2>3
    <3>3. m \in 1..n /\ m - 1 \in 0..n /\ m - 1 \notin S
      BY <2>1, <3>1, <3>2
    <3>4. Chosen(m)
      BY <1>7, <2>2, <3>3
    <3> QED BY <2>3, <3>4
  <2>5. n \in 0..n
    OBVIOUS
  <2> QED BY <2>2, <2>4, <2>5
<1>9. \A j \in A : j <= n
  OBVIOUS
<1>10. /\ best[n] = 0 \/ best[n] \in A
       /\ \A j \in A : best[n] \in A /\ <<best[n], j>> \in R /\ (<<j, best[n]>> \in R => j <= best[n])
  BY <1>8, <1>9, Zenon
<1> HIDE DEF Chosen
<1>11. A = {} => best[n] = 0
  BY <1>10
<1>12. A # {} => best[n] \in A
  BY <1>10
<1> QED BY <1>1, <1>10, <1>11, <1>12, Zenon

\* What a listed version reads as, and the best of some of them.
CoreOf(listed, i) == CHOOSE p \in ParseVersion(listed[i]) : TRUE
NoneBetter(listed, A) ==
  {i \in A : \A j \in A : CompareVersions(CoreOf(listed, i), CoreOf(listed, j)) >= 0}

\* Both mirrors' loops find the last of the greatest versions.
LEMMA BestIs ==
  ASSUME NEW listed \in Seq(Texts), NEW A, A \subseteq DOMAIN listed,
         \A i \in A : Stable(listed[i])
  PROVE  /\ DartLastBest(listed, A) = LastBest(listed, A)
         /\ A = {} => LastBest(listed, A) = 0
         /\ A # {} => /\ LastBest(listed, A) = Max(NoneBetter(listed, A))
                      /\ LastBest(listed, A) \in A /\ LastBest(listed, A) # 0
                      /\ \A j \in A :
                           LET c == CompareVersions(CoreOf(listed, LastBest(listed, A)),
                                                    CoreOf(listed, j))
                           IN  c > 0 \/ (c = 0 /\ j <= LastBest(listed, A))
<1> DEFINE n == Len(listed)
           r(i) == Reading(listed[i])
           x(i) == r(i).core
           R == {p \in A \X A : CompareVersions(r(p[1]), r(p[2])) >= 0}
           s == Scan(n, A, R)
<1>1. n \in Nat /\ DOMAIN listed = 1..n /\ \A i \in 1..n : listed[i] \in Texts
  OBVIOUS
<1>2. \A i \in A : /\ r(i) \in Releases /\ x(i) \in Cores
                   /\ r(i) = [core |-> x(i), pre |-> <<>>]
                   /\ CoreOf(listed, i) = r(i)
                   /\ DartParse(listed[i]) = r(i)
  <2> TAKE i \in A
  <2>1. listed[i] \in Texts /\ Stable(listed[i])
    BY <1>1
  <2>2. Readable(listed[i])
    BY <2>1, Zenon DEF Stable
  <2> QED BY <2>1, <2>2, StableIs, Zenon DEF CoreOf
<1>r. \A i \in A : r(i).pre = <<>>
  BY Zenon DEF Stable
<1> HIDE DEF r, x
<1>3. \A i, j \in A : /\ CompareVersions(r(i), r(j)) \in Int
                      /\ CompareVersions(r(i), r(j)) >= 0 <=> Over(x(i), x(j)) \/ Level(x(i), x(j))
                      /\ CompareVersions(r(i), r(j)) = 0 <=> Level(x(i), x(j))
                      /\ DartCompare(r(i), r(j)) >= 0 <=> Over(x(i), x(j)) \/ Level(x(i), x(j))
  <2> TAKE i, j \in A
  <2> DEFINE c == CompareVersions(r(i), r(j))
             d == DartCompare(r(i), r(j))
             v == r(j)
  <2>1. x(i) \in Cores /\ v \in Releases /\ r(i) = [core |-> x(i), pre |-> <<>>]
        /\ v.core = x(j) /\ v.pre = <<>>
    BY <1>2, <1>r, Zenon DEF x
  <2>2. c \in Int /\ (c = 0 <=> Meets("=", x(i), v)) /\ (c >= 0 <=> Meets(">=", x(i), v))
    <3>1. c = CompareVersions([core |-> x(i), pre |-> <<>>], v)
      BY <2>1, Zenon
    <3> HIDE DEF c
    <3> QED BY <2>1, <3>1, OrderIs
  <2>3. d >= 0 <=> Meets(">=", x(i), v)
    <3>1. d = DartCompare([core |-> x(i), pre |-> <<>>], v)
      BY <2>1, Zenon
    <3> HIDE DEF d
    <3> QED BY <2>1, <3>1, OrderIs
  <2>4. /\ Meets("=", x(i), v) <=> Level(x(i), x(j))
        /\ Meets(">=", x(i), v) <=> Over(x(i), x(j)) \/ Level(x(i), x(j))
    <3> HIDE DEF v
    <3> QED BY <2>1 DEF Meets
  <2> QED BY <2>2, <2>3, <2>4
<1>4. \A i, j \in A : <<i, j>> \in R <=> Over(x(i), x(j)) \/ Level(x(i), x(j))
  BY <1>3
<1>5. /\ \A a, b \in Cores : Over(a, b) \/ Level(a, b) \/ Over(b, a)
      /\ \A a, b \in Cores : Level(a, b) <=> Level(b, a)
      /\ \A a, b, c \in Cores : (Over(a, b) \/ Level(a, b)) /\ (Over(b, c) \/ Level(b, c))
                                   => Over(a, c) \/ Level(a, c)
  <2>1. \A a \in Cores : a[1] \in Nat /\ a[2] \in Nat /\ a[3] \in Nat
    BY DEF Cores
  <2> QED BY <2>1, SMTT(30) DEF Over, Level
<1>6. \A i, j \in A : <<i, j>> \in R \/ <<j, i>> \in R
  BY <1>2, <1>4, <1>5, Zenon
<1>7. \A i, j, k \in A : <<i, j>> \in R /\ <<j, k>> \in R => <<i, k>> \in R
  <2> TAKE i, j, k \in A
  <2>1. x(i) \in Cores /\ x(j) \in Cores /\ x(k) \in Cores
    BY <1>2, Zenon
  <2>2. /\ <<i, j>> \in R <=> Over(x(i), x(j)) \/ Level(x(i), x(j))
        /\ <<j, k>> \in R <=> Over(x(j), x(k)) \/ Level(x(j), x(k))
        /\ <<i, k>> \in R <=> Over(x(i), x(k)) \/ Level(x(i), x(k))
    BY <1>4, Zenon
  <2> QED BY <1>5, <2>1, <2>2, Zenon
<1> HIDE DEF n
<1>8. A \subseteq 1..n
  BY <1>1
<1>9. LastBest(listed, A) = s
  <2>1. LastBest(listed, A) =
          Scan(Len(listed), A, {p \in A \X A : Replaces(CoreOf(listed, p[1]), CoreOf(listed, p[2]))})
    BY Zenon DEF LastBest, CoreOf
  <2>2. {p \in A \X A : Replaces(CoreOf(listed, p[1]), CoreOf(listed, p[2]))} = R
    BY <1>2 DEF Replaces
  <2> HIDE DEF R
  <2> QED BY <2>1, <2>2 DEF n
<1>10. DartLastBest(listed, A) = s
  <2>1. {p \in A \X A : DartCompare(DartParse(listed[p[1]]), DartParse(listed[p[2]])) >= 0} = R
    BY <1>2, <1>3
  <2> HIDE DEF R
  <2> QED BY <2>1 DEF n, DartLastBest
<1> HIDE DEF R
<1>11. /\ A = {} => s = 0
       /\ A # {} => /\ s \in A
                    /\ \A j \in A : <<s, j>> \in R
                    /\ \A j \in A : <<j, s>> \in R => j <= s
  BY <1>1, <1>6, <1>7, <1>8, ScanIs
<1> HIDE DEF s
<1>12. ASSUME A # {}
       PROVE  /\ s \in A /\ s # 0
              /\ \A j \in A : \/ CompareVersions(r(s), r(j)) > 0
                              \/ CompareVersions(r(s), r(j)) = 0 /\ j <= s
  <2>1. s \in A /\ s # 0
    BY <1>1, <1>8, <1>11, <1>12
  <2>2. ASSUME NEW j \in A
        PROVE  CompareVersions(r(s), r(j)) > 0 \/ (CompareVersions(r(s), r(j)) = 0 /\ j <= s)
    <3>1. Over(x(s), x(j)) \/ Level(x(s), x(j))
      BY <1>4, <1>11, <1>12, <2>1, Zenon
    <3>2. CompareVersions(r(s), r(j)) \in Int /\ CompareVersions(r(s), r(j)) >= 0
      BY <1>3, <2>1, <3>1, Zenon
    <3>3. Level(x(s), x(j)) => j <= s
      BY <1>2, <1>4, <1>5, <1>11, <1>12, <2>1, Zenon
    <3>4. CompareVersions(r(s), r(j)) = 0 => j <= s
      BY <1>3, <2>1, <3>3, Zenon
    <3> QED BY <3>2, <3>4
  <2> QED BY <2>1, <2>2
<1>13. ASSUME A # {} PROVE s = Max(NoneBetter(listed, A))
  <2> DEFINE best == NoneBetter(listed, A)
  <2>1. \A i : i \in best <=> i \in A /\ \A j \in A : <<i, j>> \in R
    BY <1>2, <1>3, <1>4 DEF NoneBetter
  <2> HIDE DEF best
  <2>2. s \in best /\ \A j \in best : j <= s
    BY <1>11, <1>13, <2>1, Zenon
  <2>3. best \subseteq Nat /\ \A j \in best : j <= n
    BY <1>1, <1>8, <2>1
  <2>4. Max(best) \in best /\ \A y \in best : y <= Max(best)
    BY <1>1, <2>2, <2>3, MaxIs
  <2>5. s = Max(best)
    <3> DEFINE m == Max(best)
    <3>1. m \in best /\ m \in Nat /\ s \in Nat /\ s <= m
      BY <2>2, <2>3, <2>4
    <3>2. m <= s
      BY <2>2, <3>1
    <3> HIDE DEF m
    <3>3. s = m
      BY <3>1, <3>2
    <3> QED BY <3>3 DEF m
  <2> QED BY <2>5 DEF best
<1>14. A # {} => \A j \in A : LET c == CompareVersions(CoreOf(listed, s), CoreOf(listed, j))
                              IN  c > 0 \/ (c = 0 /\ j <= s)
  BY <1>2, <1>12
<1> QED BY <1>9, <1>10, <1>11, <1>12, <1>13, <1>14, Zenon

\* A listed version answers a requirement.
Fits(requirement, i) ==
  IF IsRange(requirement) THEN CargoAccepts(requirement, versions[i])
  ELSE Spells(requirement, versions[i])

\* What the listing keeps: no tag is listed twice.
ListedOnce ==
  /\ versions \in Seq(Texts)
  /\ \A i, j \in DOMAIN versions : versions[i] = versions[j] => i = j

\* The three resolvers pick the same version; it fits, and no later one is as new.
LEMMA PickIs ==
  ASSUME ListedOnce, NEW requirement \in Seq(Tokens),
         \A i \in DOMAIN requirement : ReadAlike(requirement[i]),
         NEW pick, pick = CargoResolve(requirement),
         NEW F, F = {i \in DOMAIN versions : Fits(requirement, i)}
  PROVE  /\ ResolveRequirement(requirement, versions) = pick
         /\ DartResolveRequirement(requirement, versions) = pick
         /\ F = {} => pick = 0
         /\ F # {} => /\ pick \in F /\ pick # 0
                      /\ IsRange(requirement) =>
                           \A j \in F :
                             LET c == CompareVersions(CoreOf(versions, pick), CoreOf(versions, j))
                             IN  c > 0 \/ (c = 0 /\ j <= pick)
<1>1. versions \in Seq(Texts) /\ \A i, j \in DOMAIN versions : versions[i] = versions[j] => i = j
  BY DEF ListedOnce
<1>2. DOMAIN versions = 1..Len(versions) /\ Len(versions) \in Nat
      /\ \A i \in DOMAIN versions : versions[i] \in Texts
  BY <1>1
<1>3. DartIsRange(requirement) <=> IsRange(requirement)
  BY RangesAlike, Zenon
<1> DEFINE best == {i \in F : \A j \in F :
                      ~IsRange(requirement)
                        \/ CompareVersions(CoreOf(versions, i), CoreOf(versions, j)) >= 0}
<1>4. pick = IF F = {} THEN 0 ELSE Max(best)
  BY Zenon DEF CargoResolve, Fits, CoreOf
<1>5. CASE IsRange(requirement)
  <2>1. F = {i \in DOMAIN versions : CargoAccepts(requirement, versions[i])}
    BY <1>5 DEF Fits
  <2>2. \A i \in DOMAIN versions :
           /\ Installable(versions[i]) /\ RequirementMatches(requirement, versions[i])
                <=> CargoAccepts(requirement, versions[i])
           /\ DartStable(versions[i]) /\ DartMatches(requirement, versions[i])
                <=> CargoAccepts(requirement, versions[i])
           /\ CargoAccepts(requirement, versions[i]) => Stable(versions[i])
    BY <1>2, <1>5, AcceptedAlike, Zenon
  <2>3. F = {i \in DOMAIN versions : Installable(versions[i])
                                      /\ RequirementMatches(requirement, versions[i])}
    BY <2>1, <2>2
  <2>4. F = {i \in DOMAIN versions : DartStable(versions[i]) /\ DartMatches(requirement, versions[i])}
    BY <2>1, <2>2
  <2>5. /\ ResolveRequirement(requirement, versions) = LastBest(versions, F)
        /\ DartResolveRequirement(requirement, versions) = DartLastBest(versions, F)
    BY <1>3, <1>5, <2>3, <2>4, Zenon DEF ResolveRequirement, DartResolveRequirement
  <2>6. F \subseteq DOMAIN versions /\ \A i \in F : Stable(versions[i])
    BY <2>1, <2>2
  <2>7. /\ DartLastBest(versions, F) = LastBest(versions, F)
        /\ F = {} => LastBest(versions, F) = 0
        /\ F # {} => /\ LastBest(versions, F) = Max(NoneBetter(versions, F))
                     /\ LastBest(versions, F) \in F /\ LastBest(versions, F) # 0
                     /\ \A j \in F :
                          LET c == CompareVersions(CoreOf(versions, LastBest(versions, F)),
                                                   CoreOf(versions, j))
                          IN  c > 0 \/ (c = 0 /\ j <= LastBest(versions, F))
    BY <1>1, <2>6, BestIs, Zenon
  <2>8. best = NoneBetter(versions, F)
    BY <1>5 DEF NoneBetter
  <2>9. pick = LastBest(versions, F)
    BY <1>4, <2>7, <2>8, Zenon
  <2> QED BY <2>5, <2>7, <2>9, Zenon
<1>6. CASE ~IsRange(requirement)
  <2>1. F = {i \in DOMAIN versions : Spells(requirement, versions[i])}
    BY <1>6 DEF Fits
  <2>2. ResolveRequirement(requirement, versions) = IF F = {} THEN 0 ELSE Min(F)
    BY <1>6, <2>1, Zenon DEF ResolveRequirement, Spelt
  <2>3. DartResolveRequirement(requirement, versions) = IF F = {} THEN 0 ELSE Min(F)
    BY <1>3, <1>6, <2>1, Zenon DEF DartResolveRequirement, Spelt
  <2>4. best = F
    BY <1>6
  <2>5. \A i, j \in F : i = j
    <3> TAKE i, j \in F
    <3>1. Spells(requirement, versions[i]) /\ Spells(requirement, versions[j])
      BY <2>1
    <3>2. \A s, t : <<Token("", s)>> = <<Token("", t)>> => s = t
      <4>1. \A s, t : Token("", s) = Token("", t) => s = t
        BY DEF Token
      <4>2. \A s, t : <<s>> = <<t>> => s = t
        OBVIOUS
      <4> QED BY <4>1, <4>2, Zenon
    <3>3. versions[i] = versions[j]
      BY <3>1, <3>2, Zenon DEF Spells
    <3> QED BY <1>1, <2>1, <3>3
  <2>6. F \subseteq Nat /\ 0 \notin F /\ \A i \in F : i <= Len(versions)
    BY <1>2, <2>1
  <2>7. CASE F = {}
    BY <1>4, <2>2, <2>3, <2>7
  <2>8. CASE F # {}
    <3>1. Min(F) \in F
      BY <2>6, <2>8, MinIs
    <3>2. Max(F) \in F
      BY <1>2, <2>6, <2>8, MaxIs
    <3>3. Min(F) = Max(F)
      BY <2>5, <3>1, <3>2, Zenon
    <3>4. pick = Max(F)
      BY <1>4, <2>4, <2>8, Zenon
    <3> QED BY <1>6, <2>2, <2>3, <2>6, <2>8, <3>2, <3>3, <3>4, Zenon
  <2> QED BY <2>7, <2>8
<1> QED BY <1>5, <1>6

\* The scheme-aware rules on top of the pick.
LEMMA AnswersTrue ==
  ASSUME ListedOnce, NEW requirement \in Seq(Tokens),
         \A i \in DOMAIN requirement : ReadAlike(requirement[i])
  PROVE  /\ TsResolve(requirement) = RustResolve(requirement)
         /\ DartResolve(requirement) = RustResolve(requirement)
         /\ AnswerTrue(requirement, RustResolve(requirement))
<1> DEFINE pick == CargoResolve(requirement)
           F == {i \in DOMAIN versions : Fits(requirement, i)}
           answer == RustResolve(requirement)
           malformed == LooksLikeRange(requirement) \/ LooksMalformed(requirement)
<1>1. /\ ResolveRequirement(requirement, versions) = pick
      /\ DartResolveRequirement(requirement, versions) = pick
      /\ F = {} => pick = 0
      /\ F # {} => /\ pick \in F /\ pick # 0
                   /\ IsRange(requirement) =>
                        \A j \in F :
                          LET c == CompareVersions(CoreOf(versions, pick), CoreOf(versions, j))
                          IN  c > 0 \/ (c = 0 /\ j <= pick)
  BY PickIs, Zenon
<1>2. /\ DartIsRange(requirement) <=> IsRange(requirement)
      /\ DartLooksLikeRange(requirement) <=> LooksLikeRange(requirement)
  BY RangesAlike, Zenon
<1>3. TsResolve(requirement) = answer
  BY <1>1, Zenon DEF TsResolve, RustResolve
<1>4. DartResolve(requirement) = answer
  <2>1. DartIsRange(requirement) = IsRange(requirement)
    BY <1>2, Zenon DEF DartIsRange, IsRange
  <2>2. DartLooksLikeRange(requirement) = LooksLikeRange(requirement)
    BY <1>2, Zenon DEF DartLooksLikeRange, LooksLikeRange
  <2> QED BY <1>1, <2>1, <2>2, Zenon DEF DartResolve, RustResolve
<1>5. answer = IF versions = <<>> THEN Refused("no_versions")
               ELSE IF scheme = "opaque" /\ IsRange(requirement) THEN Refused("invalid_requirement")
               ELSE IF scheme # "opaque" /\ ~IsRange(requirement) /\ malformed
                    THEN Refused("invalid_requirement")
               ELSE IF pick = 0 THEN Refused("unsatisfied")
               ELSE [kind |-> "version", at |-> pick]
  BY Zenon DEF RustResolve, Conclude
<1>6. AnswerTrue(requirement, answer) <=>
        /\ answer.kind = "version" =>
              /\ Fits(requirement, answer.at)
              /\ RustMatches(requirement, versions[answer.at])
              /\ scheme = "opaque" => Spells(requirement, versions[answer.at])
              /\ \A j \in DOMAIN versions :
                    Fits(requirement, j) /\ IsRange(requirement) =>
                        LET c == CompareVersions(CoreOf(versions, answer.at), CoreOf(versions, j))
                        IN  c > 0 \/ (c = 0 /\ j <= answer.at)
        /\ answer.kind = "unsatisfied" => \A j \in DOMAIN versions : ~Fits(requirement, j)
        /\ answer.kind = "no_versions" <=> versions = <<>>
  BY Zenon DEF AnswerTrue, Fits, CoreOf
<1>7. \A kind : Refused(kind).kind = kind
  BY DEF Refused
<1>8. \A j \in DOMAIN versions : j \in F <=> Fits(requirement, j)
  OBVIOUS
<1> HIDE DEF pick, F, answer, malformed
<1>9. CASE versions = <<>>
  <2>1. answer.kind = "no_versions"
    BY <1>5, <1>7, <1>9, Zenon
  <2>2. answer.kind # "version" /\ answer.kind # "unsatisfied"
    BY <2>1
  <2> QED BY <1>3, <1>4, <1>6, <1>9, <2>1, <2>2, Zenon DEF answer
<1>10. CASE /\ versions # <<>>
            /\ \/ scheme = "opaque" /\ IsRange(requirement)
               \/ scheme # "opaque" /\ ~IsRange(requirement) /\ malformed
  <2>1. answer.kind = "invalid_requirement"
    BY <1>5, <1>7, <1>10, Zenon
  <2>2. answer.kind # "version" /\ answer.kind # "unsatisfied" /\ answer.kind # "no_versions"
    BY <2>1
  <2> QED BY <1>3, <1>4, <1>6, <1>10, <2>2, Zenon DEF answer
<1>11. CASE /\ versions # <<>>
            /\ ~(scheme = "opaque" /\ IsRange(requirement))
            /\ ~(scheme # "opaque" /\ ~IsRange(requirement) /\ malformed)
  <2>1. CASE pick = 0
    <3>1. answer.kind = "unsatisfied"
      BY <1>5, <1>7, <1>11, <2>1, Zenon
    <3>2. answer.kind # "version" /\ answer.kind # "no_versions"
      BY <3>1
    <3>3. F = {}
      BY <1>1, <2>1, Zenon
    <3>4. \A j \in DOMAIN versions : ~Fits(requirement, j)
      BY <1>8, <3>3
    <3> QED BY <1>3, <1>4, <1>6, <1>11, <3>2, <3>4, Zenon DEF answer
  <2>2. CASE pick # 0
    <3>1. answer = [kind |-> "version", at |-> pick]
      BY <1>5, <1>11, <2>2, Zenon
    <3>2. answer.kind = "version" /\ answer.at = pick
      BY <3>1
    <3>3. answer.kind # "unsatisfied" /\ answer.kind # "no_versions"
      BY <3>2
    <3>4. F # {} /\ pick \in F
      BY <1>1, <2>2, Zenon
    <3>5. Fits(requirement, pick)
      BY <3>4 DEF F
    <3>6. scheme = "opaque" => Spells(requirement, versions[pick])
      BY <1>11, <3>5, Zenon DEF Fits
    <3>7. RustMatches(requirement, versions[pick])
      BY <3>5, <3>6, Zenon DEF RustMatches, Fits
    <3>8. \A j \in DOMAIN versions :
             Fits(requirement, j) /\ IsRange(requirement) =>
                 LET c == CompareVersions(CoreOf(versions, pick), CoreOf(versions, j))
                 IN  c > 0 \/ (c = 0 /\ j <= pick)
      BY <1>1, <1>8, <3>4, Zenon
    <3> QED BY <1>3, <1>4, <1>6, <1>11, <3>2, <3>3, <3>5, <3>6, <3>7, <3>8, Zenon DEF answer
  <2> QED BY <2>1, <2>2
<1> QED BY <1>9, <1>10, <1>11, Zenon

\* The newest version the three offer.
LEMMA LatestAlike ==
  ASSUME ListedOnce
  PROVE  /\ TsLatest = RustLatest /\ DartLatest = RustLatest
         /\ RustLatest # 0 => \/ scheme = "opaque"
                              \/ \A j \in DOMAIN versions :
                                   Installable(versions[j]) =>
                                      \E a \in ParseVersion(versions[RustLatest]),
                                         b \in ParseVersion(versions[j]) :
                                            CompareVersions(a, b) >= 0
<1> DEFINE A == {i \in DOMAIN versions : Installable(versions[i])}
           best == LastBest(versions, A)
<1>1. versions \in Seq(Texts) /\ \A i \in DOMAIN versions : versions[i] \in Texts
  BY DEF ListedOnce
<1>2. \A i \in DOMAIN versions : /\ Installable(versions[i]) <=> Stable(versions[i])
                                 /\ DartStable(versions[i]) <=> Stable(versions[i])
  BY <1>1, StableIs, Zenon
<1>3. A \subseteq DOMAIN versions /\ \A i \in A : Stable(versions[i])
  BY <1>2
<1>4. A = {i \in DOMAIN versions : DartStable(versions[i])}
  BY <1>2
<1>5. /\ TsLatest = IF scheme = "opaque" THEN RecordedLatest ELSE best
      /\ DartLatest = IF scheme = "opaque" THEN RecordedLatest ELSE DartLastBest(versions, A)
      /\ RustLatest = IF scheme = "opaque" THEN RecordedLatest
                      ELSE IF A = {} THEN 0 ELSE Max(NoneBetter(versions, A))
  <2>1. TsLatest = IF scheme = "opaque" THEN RecordedLatest ELSE best
    BY Zenon DEF TsLatest
  <2>2. DartLatest = IF scheme = "opaque" THEN RecordedLatest ELSE DartLastBest(versions, A)
    BY <1>4, Zenon DEF DartLatest
  <2>3. RustLatest = IF scheme = "opaque" THEN RecordedLatest
                     ELSE IF A = {} THEN 0 ELSE Max(NoneBetter(versions, A))
    BY Zenon DEF RustLatest, NoneBetter, CoreOf
  <2> QED BY <2>1, <2>2, <2>3
<1> HIDE DEF A
<1>6. /\ DartLastBest(versions, A) = best
      /\ A = {} => best = 0
      /\ A # {} => /\ best = Max(NoneBetter(versions, A))
                   /\ best \in A /\ best # 0
                   /\ \A j \in A : LET c == CompareVersions(CoreOf(versions, best), CoreOf(versions, j))
                                   IN  c > 0 \/ (c = 0 /\ j <= best)
  BY <1>1, <1>3, BestIs, Zenon
<1> HIDE DEF best
<1>7. CASE scheme = "opaque"
  BY <1>5, <1>7, Zenon
<1>8. CASE scheme # "opaque"
  <2>1. TsLatest = best /\ DartLatest = best /\ RustLatest = best
    BY <1>5, <1>6, <1>8, Zenon
  <2>2. ASSUME best # 0, NEW j \in DOMAIN versions, Installable(versions[j])
        PROVE  \E a \in ParseVersion(versions[best]), b \in ParseVersion(versions[j]) :
                  CompareVersions(a, b) >= 0
    <3>1. A # {} /\ best \in A /\ j \in A
      BY <1>6, <2>2 DEF A
    <3> DEFINE a == CoreOf(versions, best)
               b == CoreOf(versions, j)
               c == CompareVersions(a, b)
    <3>2. c > 0 \/ c = 0
      BY <1>6, <3>1, Zenon
    <3>3. a \in ParseVersion(versions[best]) /\ b \in ParseVersion(versions[j])
      <4>1. \A i \in A : ParseVersion(versions[i]) # {}
        BY DEF A, Installable
      <4>2. \A i \in A : CoreOf(versions, i) \in ParseVersion(versions[i])
        BY <4>1 DEF CoreOf
      <4> QED BY <3>1, <4>2, Zenon
    <3>4. c \in Int
      <4>1. Stable(versions[best]) /\ Stable(versions[j]) /\ versions[best] \in Texts /\ versions[j] \in Texts
        BY <1>1, <1>3, <3>1
      <4>2. a = Reading(versions[best]) /\ b = Reading(versions[j])
        BY <4>1, StableIs, Zenon DEF Stable, CoreOf
      <4>3. a = [core |-> a.core, pre |-> <<>>] /\ a.core \in Cores /\ b \in Releases
        BY <4>1, <4>2, StableIs, Zenon
      <4> HIDE DEF a, b
      <4>4. CompareVersions([core |-> a.core, pre |-> <<>>], b) \in Int
        BY <4>3, OrderIs
      <4> QED BY <4>3, <4>4, Zenon
    <3> HIDE DEF c
    <3>5. c >= 0
      BY <3>2, <3>4
    <3> QED BY <3>3, <3>5, Zenon DEF c
  <2> QED BY <1>8, <2>1, <2>2, Zenon
<1> QED BY <1>7, <1>8

\* A publication refuses a tag that is listed and a yank only takes one out.
LEMMA ListingKeepsOnce ==
  ASSUME ResolutionAssumption
  PROVE  ListingSpec => []ListedOnce
<1>0. Spellings \subseteq Texts /\ Requirements \subseteq Seq(Tokens)
  BY DEF ResolutionAssumption
<1>1. ListingInit => ListedOnce
  <2> SUFFICES ASSUME ListingInit PROVE ListedOnce
    OBVIOUS
  <2>1. versions = <<>>
    BY DEF ListingInit
  <2>2. <<>> \in Seq(Texts) /\ DOMAIN <<>> = {}
    OBVIOUS
  <2> QED BY <2>1, <2>2 DEF ListedOnce
<1>2. ListedOnce /\ [ListingNext]_listing => ListedOnce'
  <2> SUFFICES ASSUME ListedOnce, [ListingNext]_listing PROVE ListedOnce'
    OBVIOUS
  <2> DEFINE s == versions
             t == versions'
             n == Len(versions)
  <2>1. /\ s \in Seq(Texts) /\ n \in Nat /\ DOMAIN s = 1..n
        /\ \A i, j \in 1..n : s[i] = s[j] => i = j
    BY DEF ListedOnce
  <2>2. ASSUME NEW tag \in Spellings, Publish(tag) PROVE ListedOnce'
    <3>1. ~(\E i \in 1..n : s[i] = tag) /\ t = Append(s, tag)
      <4>1. ~Contains(s, tag) /\ t = Append(s, tag)
        BY <2>2 DEF Publish
      <4> QED BY <4>1 DEF Contains
    <3>2. tag \in Texts
      BY <1>0
    <3>3. /\ t \in Seq(Texts) /\ Len(t) = n + 1
          /\ \A i \in 1..n : t[i] = s[i]
          /\ t[n + 1] = tag
      BY <2>1, <3>1, <3>2, AppendProperties
    <3> HIDE DEF s, t, n
    <3>4. DOMAIN t = 1..(n + 1)
      BY <3>3
    <3>5. \A i, j \in 1..(n + 1) : t[i] = t[j] => i = j
      BY <2>1, <3>1, <3>3
    <3> QED BY <3>3, <3>4, <3>5 DEF ListedOnce, t
  <2>3. ASSUME NEW k \in DOMAIN versions, Unlist(k) PROVE ListedOnce'
    <3>1. t = RemoveAt(s, k) /\ k \in 1..n
      BY <2>1, <2>3 DEF Unlist
    <3> DEFINE a == SubSeq(s, 1, k - 1)
               b == SubSeq(s, k + 1, n)
    <3>2. t = a \o b
      BY <3>1 DEF RemoveAt
    <3> HIDE DEF t, n, s
    <3>3. a \in Seq(Texts) /\ Len(a) = k - 1 /\ \A i \in 1..(k - 1) : a[i] = s[i]
      BY <2>1, <3>1, SubSeqProperties
    <3>4. b \in Seq(Texts) /\ Len(b) = n - k /\ \A i \in 1..(n - k) : b[i] = s[k + i]
      BY <2>1, <3>1, SubSeqProperties
    <3> HIDE DEF a, b
    <3>5. /\ t \in Seq(Texts) /\ Len(t) = n - 1
          /\ \A i \in 1..(n - 1) : t[i] = IF i <= k - 1 THEN a[i] ELSE b[i - (k - 1)]
      BY <2>1, <3>1, <3>2, <3>3, <3>4, ConcatProperties, SMTT(30)
    <3>6. \A i \in 1..(n - 1) : t[i] = IF i <= k - 1 THEN s[i] ELSE s[i + 1]
      <4> TAKE i \in 1..(n - 1)
      <4>1. CASE i <= k - 1
        <5>1. i \in 1..(k - 1)
          BY <2>1, <3>1, <4>1
        <5> QED BY <3>3, <3>5, <4>1, <5>1
      <4>2. CASE ~(i <= k - 1)
        <5>1. i - (k - 1) \in 1..(n - k) /\ k + (i - (k - 1)) = i + 1
          BY <2>1, <3>1, <4>2
        <5>2. b[i - (k - 1)] = s[k + (i - (k - 1))]
          BY <3>4, <5>1
        <5>3. t[i] = b[i - (k - 1)]
          BY <3>5, <4>2
        <5> QED BY <4>2, <5>1, <5>2, <5>3
      <4> QED BY <4>1, <4>2
    <3>7. DOMAIN t = 1..(n - 1)
      BY <2>1, <3>1, <3>5
    <3>8. \A i, j \in 1..(n - 1) : t[i] = t[j] => i = j
      BY <2>1, <3>1, <3>6
    <3> QED BY <3>5, <3>7, <3>8 DEF ListedOnce, t
  <2>4. CASE UNCHANGED listing
    BY <2>4 DEF listing, ListedOnce
  <2> QED BY <2>2, <2>3, <2>4 DEF ListingNext
<1> QED BY <1>1, <1>2, PTL DEF ListingSpec

\* Whatever is published and yanked, the Rust, the TypeScript and the Dart resolver
\* (src/rust/resolve.rs, src/ts/resolve.ts, src/dart/lib/src/resolve.dart) answer every
\* requirement alike and the answer is true of the listing, and so is the newest version
\* they offer, for every comparator the three dialects read alike.
THEOREM ClientsResolveAlike ==
  ASSUME ResolutionAssumption, DialectsMeet
  PROVE  ListingSpec => []ResolutionTrue
<1>1. ListedOnce => ResolutionTrue
  <2> SUFFICES ASSUME ListedOnce PROVE ResolutionTrue
    OBVIOUS
  <2>1. Requirements \subseteq Seq(Tokens)
    BY DEF ResolutionAssumption
  <2>2. \A r \in Requirements : /\ TsResolve(r) = RustResolve(r)
                                /\ DartResolve(r) = RustResolve(r)
                                /\ AnswerTrue(r, RustResolve(r))
    BY <2>1, AnswersTrue DEF DialectsMeet
  <2> QED BY <2>2, LatestAlike, Zenon DEF ResolutionTrue
<1> QED BY <1>1, ListingKeepsOnce, PTL

\* The TypeScript and the Dart resolver answer every requirement alike without that
\* restriction: where Cargo reads a comparator otherwise, the two still agree.
THEOREM MirrorsAgree ==
  ASSUME ResolutionAssumption
  PROVE  ListingSpec => [](\A r \in Requirements : DartResolve(r) = TsResolve(r))
<1>1. ListedOnce => \A r \in Requirements : DartResolve(r) = TsResolve(r)
  <2> SUFFICES ASSUME ListedOnce, NEW r \in Requirements PROVE DartResolve(r) = TsResolve(r)
    OBVIOUS
  <2>1. r \in Seq(Tokens)
    BY DEF ResolutionAssumption
  <2>2. DartIsRange(r) = IsRange(r)
    BY <2>1, RangesAlike, Zenon DEF DartIsRange, IsRange
  <2>3. DartLooksLikeRange(r) = LooksLikeRange(r)
    BY <2>1, RangesAlike, Zenon DEF DartLooksLikeRange, LooksLikeRange
  <2>4. DartResolveRequirement(r, versions) = ResolveRequirement(r, versions)
    <3>1. CASE ~IsRange(r)
      BY <2>2, <3>1, Zenon DEF DartResolveRequirement, ResolveRequirement
    <3>2. CASE IsRange(r)
      <4> DEFINE A == {i \in DOMAIN versions : Installable(versions[i]) /\ RequirementMatches(r, versions[i])}
                 B == {i \in DOMAIN versions : DartStable(versions[i]) /\ DartMatches(r, versions[i])}
      <4>1. versions \in Seq(Texts) /\ \A i \in DOMAIN versions : versions[i] \in Texts
        BY DEF ListedOnce
      <4>2. \A i \in DOMAIN versions :
               /\ Installable(versions[i]) /\ RequirementMatches(r, versions[i])
                    <=> DartStable(versions[i]) /\ DartMatches(r, versions[i])
               /\ Installable(versions[i]) => Stable(versions[i])
        BY <2>1, <3>2, <4>1, MirrorsAccept, StableIs, Zenon
      <4>3. A = B /\ A \subseteq DOMAIN versions /\ \A i \in A : Stable(versions[i])
        BY <4>2
      <4> HIDE DEF A, B
      <4>4. DartLastBest(versions, A) = LastBest(versions, A)
        BY <4>1, <4>3, BestIs, Zenon
      <4> QED BY <2>2, <3>2, <4>3, <4>4, Zenon DEF DartResolveRequirement, ResolveRequirement, A, B
    <3> QED BY <3>1, <3>2
  <2> QED BY <2>2, <2>3, <2>4, Zenon DEF DartResolve, TsResolve
<1> QED BY <1>1, ListingKeepsOnce, PTL
=============================================================================

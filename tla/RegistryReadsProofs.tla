------------------------- MODULE RegistryReadsProofs -------------------------
(* What a call of RegistryReads answers is true, for any number of calls, viewers and *)
(* entities, any page and any writes meanwhile. The inductive invariant ReadsInv says,  *)
(* statement by statement, what a call goes by: bounds, between what could be seen when *)
(* it began or since and what can be seen still, that a write moves in one direction    *)
(* only (Moves). Two facts about finite sets carry the rest: what a page leaves out     *)
(* comes after a full page (FirstOf), and keys of their own make a page of keys no      *)
(* longer than a page of rows.                                                          *)
EXTENDS RegistryReads, FiniteSetTheorems, TLAPS

\* A call's record and what is remembered of its beginning have their fields.
Fields == {"stage", "orgs", "todo", "found", "open", "answer", "result", "began", "ended"}
Shaped(x) == x = [f \in Fields |-> x[f]]
Remembered(h) ==
  h = [live |-> h.live, public |-> h.public, yanked |-> h.yanked, ever |-> h.ever,
       always |-> h.always]

\* Every variable has its type.
ReadsTypes ==
  /\ live \subseteq Entities
  /\ member \in [Viewers -> SUBSET Of({"org", "project"})]
  /\ clock \in Nat
  /\ question = [c \in Calls |-> question[c]]
  /\ \A c \in Calls : question[c] # Nil => Askable(question[c])
  /\ reading = [c \in Calls |-> reading[c]] /\ past = [c \in Calls |-> past[c]]
  /\ \A c \in Calls : /\ Shaped(reading[c]) /\ Remembered(past[c])
                      /\ reading[c].began \in Nat /\ reading[c].began <= clock
                      /\ reading[c].ended \in Nat

\* Which statements a question leads to.
Leads(q, stage) ==
  \/ stage = q.kind /\ stage \in {"projects", "search", "semantic", "packages", "digest", "upsert"}
  \/ stage = "orgs" /\ q.kind \in {"search", "semantic", "packages"}
  \/ stage = "org" /\ q.kind \in {"browse", "current", "find"}
  \/ stage \in {"role", "rows"} /\ q.kind \in {"browse", "current"}
  \/ stage = "exact" /\ q.kind = "current"
  \/ stage = "named" /\ q.kind = "find"
  \/ stage = "roles" /\ q.kind \in {"find", "digest"}

Underway(c) == reading[c].stage \notin {"idle", "done"}
\* A call does the statements of its question, and no answer comes before its last.
Follows(c) ==
  /\ ~ReadAt(c, "idle") => Asks(c) # Nil
  /\ Underway(c) => Leads(Asks(c), reading[c].stage)
  /\ Underway(c) /\ Asks(c).kind \in {"semantic", "upsert"} => Asks(c).dims \in 1..MaxDimensions
  /\ ~ReadAt(c, "done") => reading[c].result = Nil /\ reading[c].answer = {}
  /\ reading[c].stage \in {"idle", "orgs", "org", "role", "named", "digest"} => reading[c].orgs = {}

\* What a call saw first is still a bound of what there is.
Since(c) ==
  ~ReadAt(c, "idle") =>
    /\ live \subseteq past[c].live /\ past[c].public \subseteq public
    /\ past[c].yanked \subseteq yanked
    /\ Underway(c) => past[c].always \subseteq Mine(c) /\ Mine(c) \subseteq past[c].ever

\* The viewer's organizations, as far as they fit a page.
OrgsRead(c) ==
  LET orgs == reading[c].orgs IN
  /\ orgs \subseteq Of({"org"}) \cap past[c].ever
  /\ \A o \in Of({"org"}) \cap past[c].always \cap live :
       o \in orgs \/ Cardinality({x \in orgs : Order[x] < Order[o]}) = PageRows

\* Whether the viewer is a member of the organization asked about.
RoleRead(c) ==
  /\ reading[c].orgs \subseteq {Asks(c).org} \cap past[c].ever
  /\ Asks(c).org \in past[c].always => reading[c].orgs # {}

Listed(c) == {p \in Of({"package"}) : ParentOf[p] = Asks(c).org}
\* The coordinates a list of current versions is completed from.
Coordinates(c) ==
  LET found == reading[c].found IN
  /\ IsFiniteSet(found) /\ Cardinality(found) <= PageRows
  /\ \A k \in found : \E v \in Of({"package_version"}) :
       Coordinate(v) = k /\ v \notin past[c].yanked /\ May(c, v)
  /\ \A p \in Listed(c) : Must(c, p) /\ Cardinality(Listed(c)) <= PageRows
       => \A v \in LatestOf(p, past[c].yanked) \ yanked : Coordinate(v) \in found

\* What decides on an artifact or a name, and how much of it is known.
Referring(c) ==
  {v \in Of({"package_version"}) : ShaOf[v] = Asks(c).sha /\ ParentOf[v] \in past[c].live}
Gates(c) ==
  IF Asks(c).kind = "find" THEN {Asks(c).entity} ELSE {ParentOf[v] : v \in Referring(c)}
Gated(c) ==
  LET x == reading[c]  h == past[c] IN
  /\ x.open \subseteq x.found \cap public /\ h.public \cap x.found \subseteq x.open
  /\ x.found \subseteq Gates(c)
  /\ \A p \in x.found : Alive(Asks(c), p) \subseteq h.live
  /\ \A p \in Gates(c) : Alive(Asks(c), p) \subseteq live => p \in x.found
  /\ x.orgs \subseteq h.ever /\ x.orgs \cup x.todo \subseteq UNION {Scopes(p) : p \in x.found}
  /\ \A p \in x.found : \A t \in Scopes(p) : t \in x.todo \/ t \in x.orgs \/ t \notin h.always

\* What a call goes by, statement by statement.
GoesBy(c) ==
  /\ reading[c].stage \in {"search", "semantic", "packages"} => OrgsRead(c)
  /\ reading[c].stage \in {"role", "rows", "exact", "named"} => Asks(c).org \in past[c].live
  /\ ReadAt(c, "rows") => RoleRead(c)
  /\ ReadAt(c, "exact") => Coordinates(c)
  /\ ReadAt(c, "roles") => Gated(c)

\* What a call was told.
Told(c) ==
  ReadAt(c, "done") =>
    /\ Asks(c).kind \in {"projects", "browse", "search", "packages"} => ListingTrue(c)
    /\ Asks(c).kind = "current" => CurrentTrue(c)
    /\ Asks(c).kind \in {"find", "digest"} => GateTrue(c)
Searched(c) == ReadAt(c, "done") /\ Asks(c).kind = "semantic" => SearchTrue(c)

\* The embeddings: one of each identity, written last by whom nobody overwrote.
RowsKept ==
  /\ IsFiniteSet(embeddings)
  /\ \A r \in embeddings :
       /\ r = [id |-> r.id, entity |-> r.entity, model |-> r.model, content |-> r.content,
               dims |-> r.dims, vector |-> r.vector, at |-> r.at]
       /\ r.id \in Calls /\ Wrote(r.id) /\ ContentKey(r) = ContentKey(Asks(r.id))
       /\ r.entity \in Entities /\ r.vector \in Int /\ r.at \in Nat
  /\ \A r, s \in embeddings : ContentKey(r) = ContentKey(s) => r = s
Kept(j) ==
  \E r \in embeddings : /\ ContentKey(r) = ContentKey(Asks(j)) /\ r.dims = Asks(j).dims
                        /\ Overwritten(j) \/ r.at = reading[j].began
\* What an upsert was told is true of the rows.
WritersKept ==
  \A j \in Calls :
    /\ Wrote(j) => /\ ReadAt(j, "done") /\ reading[j].ended < clock
                   /\ Asks(j).dims \in 1..MaxDimensions /\ Kept(j)
    /\ Asks(j) # Nil /\ Asks(j).kind = "upsert" /\ reading[j].result = "policy" =>
         \E r \in embeddings : ContentKey(r) = ContentKey(Asks(j)) /\ r.dims # Asks(j).dims

\* The inductive invariant.
CallInv(c) == Follows(c) /\ Since(c) /\ GoesBy(c) /\ Told(c) /\ Searched(c)
ReadsInv == ReadsTypes /\ RowsKept /\ WritersKept /\ \A c \in Calls : CallInv(c)
-------------------------------------------------------------------------------
(* Pages.                                                                  *)

\* The numbers below n are n.
LEMMA Segment ==
  ASSUME NEW n \in Nat
  PROVE  /\ 0..(n - 1) = {k \in Nat : k < n}
         /\ IsFiniteSet(0..(n - 1)) /\ Cardinality(0..(n - 1)) = n
<1>1. 0 \in Int /\ n - 1 \in Int
  OBVIOUS
<1>2. /\ IsFiniteSet(0..(n - 1))
      /\ Cardinality(0..(n - 1)) = IF 0 > n - 1 THEN 0 ELSE (n - 1) - 0 + 1
  BY <1>1, FS_Interval
<1>3. 0..(n - 1) = {k \in Nat : k < n}
  OBVIOUS
<1> QED
  BY <1>2, <1>3

\* What of a set comes before something in an order.
Before(S, L, e) == {x \in S : <<x, e>> \in L}
Leading(S, L, n) == {e \in S : Cardinality(Before(S, L, e)) < n}

\* The first n of a finite set in a linear order are n or all, and whoever is left out
\* comes after n of them.
LEMMA FirstOf ==
  ASSUME NEW S, IsFiniteSet(S), NEW L, NEW n \in Nat,
         \A x \in S : <<x, x>> \notin L,
         \A x, y, z \in S : <<x, y>> \in L /\ <<y, z>> \in L => <<x, z>> \in L,
         \A x, y \in S : x = y \/ <<x, y>> \in L \/ <<y, x>> \in L
  PROVE  /\ Leading(S, L, n) \subseteq S /\ IsFiniteSet(Leading(S, L, n))
         /\ Cardinality(Leading(S, L, n)) <= n
         /\ \A e \in S \ Leading(S, L, n) :
              Cardinality(Before(Leading(S, L, n), L, e)) = n /\ Cardinality(Leading(S, L, n)) = n
<1> DEFINE T == Leading(S, L, n)
           Below(e) == Before(S, L, e)
           rank == [e \in S |-> Cardinality(Below(e))]
<1>1. \A e \in S : IsFiniteSet(Below(e)) /\ rank[e] \in Nat
  <2> TAKE e \in S
  <2>1. Below(e) \in SUBSET S
    BY DEF Before
  <2>2. IsFiniteSet(Below(e))
    BY <2>1, FS_Subset
  <2>3. Cardinality(Below(e)) \in Nat
    BY <2>2, FS_CardinalityType
  <2> QED
    BY <2>2, <2>3
<1>2. \A x, y \in S : <<x, y>> \in L => rank[x] < rank[y]
  <2> SUFFICES ASSUME NEW x \in S, NEW y \in S, <<x, y>> \in L PROVE rank[x] < rank[y]
    OBVIOUS
  <2>1. Below(x) \subseteq Below(y)
    BY DEF Before
  <2>2. x \in Below(y) /\ x \notin Below(x)
    BY DEF Before
  <2>3. /\ Cardinality(Below(x)) <= Cardinality(Below(y))
        /\ Cardinality(Below(x)) # Cardinality(Below(y))
    BY <1>1, <2>1, <2>2, FS_Subset
  <2>4. rank[x] = Cardinality(Below(x)) /\ rank[y] = Cardinality(Below(y))
    OBVIOUS
  <2> HIDE DEF rank, Below
  <2> QED
    BY <1>1, <2>3, <2>4
<1>3. \A x, y \in S : rank[x] = rank[y] => x = y
  <2> SUFFICES ASSUME NEW x \in S, NEW y \in S, x # y PROVE rank[x] # rank[y]
    OBVIOUS
  <2>1. <<x, y>> \in L \/ <<y, x>> \in L
    OBVIOUS
  <2>2. rank[x] < rank[y] \/ rank[y] < rank[x]
    BY <1>2, <2>1
  <2>3. rank[x] \in Nat /\ rank[y] \in Nat
    BY <1>1
  <2> HIDE DEF rank, Below
  <2> QED
    BY <2>2, <2>3
<1>4. \A e \in S : rank[e] = Cardinality(Below(e))
  OBVIOUS
<1>5. T \subseteq S /\ \A e \in S : e \in T <=> rank[e] < n
  BY <1>4 DEF Leading
<1> HIDE DEF rank, T
<1>6. 0..(n - 1) = {k \in Nat : k < n} /\ IsFiniteSet(0..(n - 1)) /\ Cardinality(0..(n - 1)) = n
  BY Segment
<1>7. IsFiniteSet(T) /\ Cardinality(T) <= n
  <2> DEFINE f == [x \in T |-> rank[x]]
  <2>1. \A x \in T : x \in S /\ rank[x] \in 0..(n - 1)
    BY <1>1, <1>5, <1>6
  <2>2. f \in Injection(T, 0..(n - 1))
    BY <2>1, <1>3 DEF Injection, IsInjective
  <2> HIDE DEF f
  <2> QED
    BY <2>2, <1>6, FS_Injection
<1>8. ASSUME NEW e \in S \ T
      PROVE  Cardinality(Before(T, L, e)) = n /\ Cardinality(T) = n
  <2> DEFINE B == Before(T, L, e)
             m == rank[e]
             g == [x \in Below(e) |-> rank[x]]
             h == [x \in B |-> rank[x]]
  <2>1. m \in Nat /\ n <= m
    BY <1>1, <1>5
  <2>2. 0..(m - 1) = {k \in Nat : k < m} /\ IsFiniteSet(0..(m - 1)) /\ Cardinality(0..(m - 1)) = m
    BY <2>1, Segment
  <2>3. \A x \in Below(e) : x \in S /\ rank[x] \in 0..(m - 1)
    BY <1>1, <1>2, <2>2 DEF Before
  <2>4. g \in Injection(Below(e), 0..(m - 1))
    BY <2>3, <1>3 DEF Injection, IsInjective
  <2>5. Cardinality(Below(e)) = Cardinality(0..(m - 1))
    BY <1>4, <2>2
  <2>6. g \in Surjection(Below(e), 0..(m - 1))
    <3> HIDE DEF g, m, Below
    <3> QED
      BY <2>2, <2>4, <2>5, FS_Injection
  <2>7. \A k \in 0..(m - 1) : \E x \in Below(e) : rank[x] = k
    BY <2>6 DEF Surjection
  <2>8. h \in Injection(B, 0..(n - 1))
    <3>1. \A x \in B : x \in S /\ rank[x] \in 0..(n - 1)
      BY <1>1, <1>5, <1>6 DEF Before
    <3> QED
      BY <3>1, <1>3 DEF Injection, IsInjective
  <2>9. \A k \in 0..(n - 1) : \E x \in B : rank[x] = k
    <3> TAKE k \in 0..(n - 1)
    <3>1. k \in 0..(m - 1)
      BY <1>6, <2>1, <2>2
    <3>2. PICK x \in Below(e) : rank[x] = k
      BY <3>1, <2>7
    <3>3. x \in B
      BY <3>2, <1>5, <1>6 DEF Before
    <3> QED
      BY <3>2, <3>3
  <2>10. h \in Surjection(B, 0..(n - 1))
    BY <2>8, <2>9 DEF Surjection, Injection, IsInjective
  <2>11. IsFiniteSet(B) /\ Cardinality(B) = n
    <3> HIDE DEF h, B
    <3> QED
      BY <2>8, <2>10, <1>6, FS_Injection
  <2>12. Cardinality(B) <= Cardinality(T)
    <3>1. B \in SUBSET T
      BY DEF Before
    <3> HIDE DEF B
    <3> QED
      BY <3>1, <1>7, FS_Subset
  <2>13. Cardinality(T) \in Nat
    BY <1>7, FS_CardinalityType
  <2> QED
    BY <1>7, <2>11, <2>12, <2>13
<1> QED
  BY <1>5, <1>7, <1>8 DEF T

\* A page: n entities or all, and what is left out comes after n that are not.
LEMMA TopIs ==
  ASSUME ReadsAssumption, NEW S \in SUBSET Entities, NEW n \in Nat
  PROVE  /\ Top(S, n) \subseteq S /\ IsFiniteSet(Top(S, n)) /\ Cardinality(Top(S, n)) <= n
         /\ \A e \in S \ Top(S, n) :
              Cardinality({x \in Top(S, n) : Order[x] < Order[e]}) = n
         /\ Cardinality(S) <= n => Top(S, n) = S
<1> DEFINE L == {p \in S \X S : Order[p[1]] < Order[p[2]]}
           T == Leading(S, L, n)
<1>1. IsFiniteSet(S)
  BY FS_Subset DEF ReadsAssumption
<1>2. \A e \in S : Order[e] \in Nat
  BY DEF ReadsAssumption
<1>3. \A x, y \in S : <<x, y>> \in L <=> Order[x] < Order[y]
  OBVIOUS
<1>4. \A x, y \in S : x = y \/ <<x, y>> \in L \/ <<y, x>> \in L
  <2> TAKE x, y \in S
  <2>1. x # y => Order[x] # Order[y]
    BY DEF ReadsAssumption
  <2>2. Order[x] \in Nat /\ Order[y] \in Nat
    BY <1>2
  <2>3. x = y \/ Order[x] < Order[y] \/ Order[y] < Order[x]
    BY <2>1, <2>2
  <2> QED
    BY <1>3, <2>3
<1>5. /\ \A x \in S : <<x, x>> \notin L
      /\ \A x, y, z \in S : <<x, y>> \in L /\ <<y, z>> \in L => <<x, z>> \in L
  <2> HIDE DEF L
  <2> QED
    BY <1>2, <1>3
<1>6. \A e \in S, U \in SUBSET S : Before(U, L, e) = {x \in U : Order[x] < Order[e]}
  <2> HIDE DEF L
  <2> QED
    BY <1>3 DEF Before
<1>7. T = Top(S, n)
  BY <1>6 DEF Top, Leading
<1>8. /\ T \subseteq S /\ IsFiniteSet(T) /\ Cardinality(T) <= n
      /\ \A e \in S \ T : Cardinality(Before(T, L, e)) = n /\ Cardinality(T) = n
  <2> HIDE DEF L
  <2> QED
    BY <1>1, <1>4, <1>5, FirstOf
<1> HIDE DEF L, T
<1>9. \A e \in S \ T : Cardinality({x \in T : Order[x] < Order[e]}) = n
  BY <1>6, <1>8
<1>10. Cardinality(S) <= n => T = S
  <2> SUFFICES ASSUME Cardinality(S) <= n, T # S PROVE FALSE
    OBVIOUS
  <2>1. Cardinality(T) = n
    BY <1>8
  <2>2. Cardinality(S) \in Nat /\ Cardinality(T) \in Nat
    BY <1>1, <1>8, FS_CardinalityType
  <2>3. Cardinality(T) <= Cardinality(S)
    BY <1>1, <1>8, FS_Subset
  <2>4. Cardinality(T) = Cardinality(S)
    BY <2>1, <2>2, <2>3
  <2> QED
    BY <1>1, <1>8, <2>4, FS_Subset
<1> QED
  BY <1>7, <1>8, <1>9, <1>10
-------------------------------------------------------------------------------
(* What others do to a call underway or done.                              *)

\* Rows only go, or become public or yanked; memberships widen what was and narrow what is.
Moves(c) ==
  /\ live' \subseteq live /\ public \subseteq public' /\ yanked \subseteq yanked'
  /\ question' = question /\ reading'[c] = reading[c]
  /\ past'[c].live = past[c].live /\ past'[c].public = past[c].public
  /\ past'[c].yanked = past[c].yanked
  /\ past[c].ever \subseteq past'[c].ever /\ past'[c].always \subseteq past[c].always

\* What could be seen at some moment stays so; what could be seen throughout only shrinks.
LEMMA Bounds ==
  ASSUME NEW c \in Calls, Moves(c), NEW e
  PROVE  (May(c, e) => May(c, e)') /\ (Must(c, e)' => Must(c, e))
BY DEF Moves, May, Must, Asks

\* Nothing others do takes a call from its statements, from what it goes by or from its answer.
LEMMA FollowsOn ==
  ASSUME NEW c \in Calls, Moves(c), Follows(c)
  PROVE  Follows(c)'
BY DEF Moves, Follows, Asks, ReadAt, Underway

\* A true listing stays true.
LEMMA ListedOn ==
  ASSUME NEW c \in Calls, Moves(c), ListingTrue(c)
  PROVE  ListingTrue(c)'
<1>1. Asks(c)' = Asks(c) /\ reading'[c] = reading[c]
  BY DEF Moves, Asks
<1>2. \A e : CutOff(c, e)' <=> CutOff(c, e)
  BY <1>1 DEF CutOff
<1> QED
  BY <1>1, <1>2, Bounds DEF ListingTrue

\* A true list of current versions stays true.
LEMMA CurrentOn ==
  ASSUME NEW c \in Calls, Moves(c), CurrentTrue(c)
  PROVE  CurrentTrue(c)'
<1>1. Asks(c)' = Asks(c) /\ reading'[c] = reading[c] /\ past'[c].yanked = past[c].yanked
  BY DEF Moves, Asks
<1>2. yanked \subseteq yanked'
  BY DEF Moves
<1>3. \A v \in reading'[c].answer : v \in Releases(ParentOf[v]) \ past'[c].yanked /\ May(c, v)'
  BY <1>1, Bounds DEF CurrentTrue
<1> QED
  BY <1>1, <1>2, <1>3, Bounds DEF CurrentTrue

\* A true decision on an artifact stays true.
LEMMA GateOn ==
  ASSUME NEW c \in Calls, Moves(c), GateTrue(c)
  PROVE  GateTrue(c)'
<1>1. Asks(c)' = Asks(c) /\ reading'[c] = reading[c] /\ past'[c].live = past[c].live
  BY DEF Moves, Asks
<1> QED
  BY <1>1, Bounds DEF GateTrue

\* What a call was told stays true.
LEMMA ToldOn ==
  ASSUME NEW c \in Calls, Moves(c), Told(c)
  PROVE  Told(c)'
<1>1. Asks(c)' = Asks(c) /\ reading'[c] = reading[c]
  BY DEF Moves, Asks
<1> QED
  BY <1>1, ListedOn, CurrentOn, GateOn DEF Told, ReadAt

\* What a call goes by still holds when others have written.
LEMMA GoesByOn ==
  ASSUME NEW c \in Calls, Moves(c), GoesBy(c)
  PROVE  GoesBy(c)'
<1>1. Asks(c)' = Asks(c) /\ reading'[c] = reading[c] /\ past'[c].live = past[c].live
      /\ past'[c].yanked = past[c].yanked
  BY DEF Moves, Asks
<1>2. \A s : ReadAt(c, s)' <=> ReadAt(c, s)
  BY <1>1 DEF ReadAt
<1>3. OrgsRead(c) => OrgsRead(c)'
  BY <1>1 DEF OrgsRead, Moves
<1>4. RoleRead(c) => RoleRead(c)'
  BY <1>1 DEF RoleRead, Moves
<1>5. Coordinates(c) => Coordinates(c)'
  <2> SUFFICES ASSUME Coordinates(c) PROVE Coordinates(c)'
    OBVIOUS
  <2>1. Listed(c)' = Listed(c)
    BY <1>1 DEF Listed
  <2>2. \A k \in reading'[c].found : \E v \in Of({"package_version"}) :
          Coordinate(v) = k /\ v \notin past'[c].yanked /\ May(c, v)'
    BY <1>1, Bounds DEF Coordinates
  <2>3. \A p \in Listed(c) : Must(c, p)' /\ Cardinality(Listed(c)) <= PageRows
          => \A v \in LatestOf(p, past'[c].yanked) \ yanked' : Coordinate(v) \in reading'[c].found
    <3>1. yanked \subseteq yanked'
      BY DEF Moves
    <3> QED
      BY <1>1, <3>1, Bounds DEF Coordinates
  <2> QED
    BY <1>1, <2>1, <2>2, <2>3 DEF Coordinates
<1>6. Gated(c) => Gated(c)'
  <2> SUFFICES ASSUME Gated(c) PROVE Gated(c)'
    OBVIOUS
  <2>1. Gates(c)' = Gates(c)
    BY <1>1 DEF Gates, Referring
  <2>2. /\ public \subseteq public' /\ live' \subseteq live /\ past'[c].public = past[c].public
        /\ past[c].ever \subseteq past'[c].ever /\ past'[c].always \subseteq past[c].always
    BY DEF Moves
  <2> QED
    BY <1>1, <2>1, <2>2 DEF Gated
<1> QED
  BY <1>1, <1>2, <1>3, <1>4, <1>5, <1>6 DEF GoesBy

\* A search stays true while no other upsert is taken for an earlier one.
LEMMA SearchOn ==
  ASSUME NEW c \in Calls, Moves(c), SearchTrue(c),
         \A j \in Calls : \A e : Indexed(j, c, e)' => Indexed(j, c, e),
         \A j \in Calls : \A e : Indexed(j, c, e)' => reading'[j].began = reading[j].began,
         \A j \in Calls : Wrote(j) /\ Overwritten(j) => Overwritten(j)'
  PROVE  SearchTrue(c)'
<1>1. Asks(c)' = Asks(c) /\ reading'[c] = reading[c]
  BY DEF Moves, Asks
<1>2. \A r, s \in reading'[c].answer : r.entity = s.entity => r = s
  BY <1>1 DEF SearchTrue
<1>3. \A r \in reading'[c].answer :
        /\ May(c, r.entity)'
        /\ \A j \in Calls : Indexed(j, c, r.entity)' /\ ~Overwritten(j)'
             => reading'[j].began <= r.at
  <2> TAKE r \in reading'[c].answer
  <2>1. r \in reading[c].answer
    BY <1>1
  <2>2. May(c, r.entity)'
    BY <2>1, Bounds DEF SearchTrue
  <2>3. ASSUME NEW j \in Calls, Indexed(j, c, r.entity)', ~Overwritten(j)'
        PROVE  reading'[j].began <= r.at
    <3>1. Indexed(j, c, r.entity) /\ ~Overwritten(j) /\ reading'[j].began = reading[j].began
      BY <2>3 DEF Indexed
    <3> QED
      BY <2>1, <3>1 DEF SearchTrue
  <2> QED
    BY <2>2, <2>3
<1>4. \A j \in Calls, e \in Entities : Indexed(j, c, e)' /\ Must(c, e)'
        => (\E r \in reading'[c].answer : r.entity = e)
             \/ Cardinality(reading'[c].answer) = PageOf(Asks(c)')
             \/ Cardinality({o \in reading'[c].orgs : Order[o] < Order[Home(e)]}) = PageRows
  BY <1>1, Bounds DEF SearchTrue
<1> QED
  BY <1>2, <1>3, <1>4 DEF SearchTrue

\* Whether an upsert wrote depends on its question and on how far it is.
LEMMA WroteSame ==
  ASSUME NEW j \in Calls, Asks(j)' = Asks(j), reading'[j].result = reading[j].result
  PROVE  Wrote(j)' <=> Wrote(j)
BY DEF Wrote

\* Joining, leaving, deletion, promotion and yanking keep what is known.
LEMMA WriteKeeps ==
  ASSUME ReadsAssumption, ReadsInv, NEW r, NEW p, NEW m, NEW y, Write(r, p, m, y),
         r \subseteq live, public \subseteq p, yanked \subseteq y,
         m \in [Viewers -> SUBSET Of({"org", "project"})]
  PROVE  ReadsInv'
<1>1. /\ live' = r /\ public' = p /\ member' = m /\ yanked' = y
      /\ UNCHANGED <<embeddings, clock, question, reading>>
  BY DEF Write
<1>2. \A c \in Calls : /\ Asks(c)' = Asks(c) /\ Wrote(c)' = Wrote(c) /\ Overwritten(c)' = Overwritten(c)
                       /\ \A s : ReadAt(c, s)' = ReadAt(c, s)
  BY <1>1 DEF Asks, Wrote, Overwritten, ReadAt
<1>3. /\ past' = [c \in Calls |-> past'[c]]
      /\ \A c \in Calls :
           past'[c] = IF reading[c].stage \in {"idle", "done"} \/ Asks(c).user = Nil THEN past[c]
                      ELSE [past[c] EXCEPT !.ever = @ \cup m[Asks(c).user],
                                           !.always = @ \cap m[Asks(c).user]]
  BY DEF Write
<1>4. ASSUME NEW c \in Calls
      PROVE  /\ Remembered(past'[c]) /\ Moves(c)
             /\ Underway(c) /\ Asks(c).user # Nil
                  => /\ m[Asks(c).user] \subseteq past'[c].ever
                     /\ past'[c].always \subseteq m[Asks(c).user]
             /\ Asks(c).user = Nil => past'[c] = past[c]
  <2>1. Remembered(past[c])
    BY DEF ReadsInv, ReadsTypes
  <2>2. CASE reading[c].stage \in {"idle", "done"} \/ Asks(c).user = Nil
    <3>1. past'[c] = past[c]
      BY <1>3, <2>2
    <3> QED
      BY <1>1, <2>1, <2>2, <3>1 DEF Moves, Underway
  <2>3. CASE ~(reading[c].stage \in {"idle", "done"} \/ Asks(c).user = Nil)
    <3>1. past'[c] = [past[c] EXCEPT !.ever = @ \cup m[Asks(c).user],
                                     !.always = @ \cap m[Asks(c).user]]
      BY <1>3, <2>3
    <3>2. past'[c] = [live |-> past[c].live, public |-> past[c].public, yanked |-> past[c].yanked,
                      ever |-> past[c].ever \cup m[Asks(c).user],
                      always |-> past[c].always \cap m[Asks(c).user]]
      BY <2>1, <3>1 DEF Remembered
    <3> QED
      BY <1>1, <2>3, <3>2 DEF Moves, Underway, Remembered
  <2> QED
    BY <2>2, <2>3
<1>5. ReadsTypes'
  <2>1. ReadsTypes
    BY DEF ReadsInv
  <2>2. live' \subseteq Entities /\ member' \in [Viewers -> SUBSET Of({"org", "project"})]
    BY <1>1, <2>1 DEF ReadsTypes
  <2> QED
    BY <1>1, <1>3, <1>4, <2>1, <2>2 DEF ReadsTypes
<1>6. RowsKept'
  <2>1. RowsKept
    BY DEF ReadsInv
  <2> QED
    BY <1>1, <1>2, <2>1 DEF RowsKept
<1>7. WritersKept'
  <2>1. WritersKept
    BY DEF ReadsInv
  <2>2. \A j \in Calls : Kept(j)' <=> Kept(j)
    BY <1>1, <1>2 DEF Kept
  <2> QED
    BY <1>1, <1>2, <2>1, <2>2 DEF WritersKept
<1>8. ASSUME NEW c \in Calls PROVE CallInv(c)'
  <2>1. CallInv(c) /\ Moves(c)
    BY <1>4 DEF ReadsInv
  <2>2. Follows(c)' /\ GoesBy(c)' /\ Told(c)'
    BY <2>1, FollowsOn, GoesByOn, ToldOn DEF CallInv
  <2>3. Since(c)'
    <3>1. Since(c) /\ (Underway(c)' <=> Underway(c)) /\ (ReadAt(c, "idle")' <=> ReadAt(c, "idle"))
      BY <1>1, <1>2, <2>1 DEF CallInv, Underway
    <3>2. Mine(c)' = IF Asks(c).user = Nil THEN {} ELSE m[Asks(c).user]
      BY <1>1, <1>2 DEF Mine
    <3>3. Underway(c) /\ ~ReadAt(c, "idle") => past'[c].always \subseteq Mine(c)' /\ Mine(c)' \subseteq past'[c].ever
      BY <1>4, <3>1, <3>2 DEF Since, Mine
    <3> QED
      BY <2>1, <3>1, <3>3 DEF Since, Moves
  <2>4. Searched(c)'
    <3>1. \A j \in Calls : \A e : Indexed(j, c, e)' <=> Indexed(j, c, e)
      BY <1>1, <1>2 DEF Indexed
    <3>2. SearchTrue(c) => SearchTrue(c)'
      BY <1>1, <1>2, <2>1, <3>1, SearchOn
    <3> QED
      BY <1>2, <2>1, <3>2 DEF Searched, CallInv
  <2> QED
    BY <2>2, <2>3, <2>4 DEF CallInv
<1> QED
  BY <1>5, <1>6, <1>7, <1>8 DEF ReadsInv
-------------------------------------------------------------------------------
(* A step of one call.                                                     *)

\* A step that changes one call and what it remembers keeps the rest; an upsert is not
\* decided by such a step.
LEMMA StepKeeps ==
  ASSUME ReadsAssumption, ReadsInv, NEW c \in Calls, NEW next, NEW h,
         reading' = [reading EXCEPT ![c] = next], past' = [past EXCEPT ![c] = h],
         UNCHANGED <<registryRows, embeddings, clock, question>>,
         Shaped(next), Remembered(h), next.began \in Nat, next.began <= clock,
         next.ended = reading[c].ended,
         Asks(c).kind = "upsert" => {next.result, reading[c].result} \cap {"ok", "policy"} = {},
         CallInv(c)'
  PROVE  ReadsInv'
<1>1. UNCHANGED <<live, public, member, yanked, embeddings, clock, question>>
  BY DEF registryRows
<1>2. /\ reading'[c] = next /\ past'[c] = h
      /\ reading' = [d \in Calls |-> reading'[d]] /\ past' = [d \in Calls |-> past'[d]]
      /\ \A d \in Calls \ {c} : reading'[d] = reading[d] /\ past'[d] = past[d]
  BY DEF ReadsInv, ReadsTypes
<1>3. \A d \in Calls : /\ Asks(d)' = Asks(d) /\ Mine(d)' = Mine(d)
                       /\ (Wrote(d)' <=> Wrote(d)) /\ reading'[d].ended = reading[d].ended
  BY <1>1, <1>2 DEF Asks, Mine, Wrote
<1>4. \A d \in Calls \ {c} : Moves(d)
  BY <1>1, <1>2 DEF Moves
<1>5. \A j \in Calls : Overwritten(j)' <=> Overwritten(j)
  BY <1>3 DEF Overwritten
<1>6. ReadsTypes'
  BY <1>1, <1>2 DEF ReadsInv, ReadsTypes
<1>7. RowsKept'
  BY <1>1, <1>3 DEF ReadsInv, RowsKept
<1>8. WritersKept'
  <2> SUFFICES ASSUME NEW j \in Calls
               PROVE  /\ Wrote(j)' => /\ ReadAt(j, "done")' /\ reading'[j].ended < clock'
                                      /\ Asks(j)'.dims \in 1..MaxDimensions /\ Kept(j)'
                      /\ Asks(j)' # Nil /\ Asks(j)'.kind = "upsert" /\ reading'[j].result = "policy" =>
                           \E r \in embeddings' : ContentKey(r) = ContentKey(Asks(j)') /\ r.dims # Asks(j)'.dims
    BY DEF WritersKept
  <2>1. CASE j = c
    BY <1>2, <1>3, <2>1 DEF Wrote
  <2>2. CASE j # c
    <3>1. reading'[j] = reading[j]
      BY <1>2, <2>2
    <3>2. Kept(j)' <=> Kept(j)
      BY <1>1, <1>3, <1>5, <3>1 DEF Kept
    <3> QED
      BY <1>1, <1>3, <3>1, <3>2 DEF ReadsInv, WritersKept, ReadAt
  <2> QED
    BY <2>1, <2>2
<1>9. ASSUME NEW d \in Calls \ {c} PROVE CallInv(d)'
  <2>1. CallInv(d) /\ Moves(d)
    BY <1>4 DEF ReadsInv
  <2>2. Follows(d)' /\ GoesBy(d)' /\ Told(d)'
    BY <2>1, FollowsOn, GoesByOn, ToldOn DEF CallInv
  <2>3. reading'[d] = reading[d] /\ past'[d] = past[d]
    BY <1>2
  <2>4. Since(d)'
    BY <1>1, <1>3, <2>1, <2>3 DEF CallInv, Since, ReadAt, Underway
  <2>5. Searched(d)'
    <3>1. \A j \in Calls : \A e : Indexed(j, d, e)' => Indexed(j, d, e) /\ reading'[j].began = reading[j].began
      <4> SUFFICES ASSUME NEW j \in Calls, NEW e, Indexed(j, d, e)'
                   PROVE  Indexed(j, d, e) /\ reading'[j].began = reading[j].began
        OBVIOUS
      <4>1. Wrote(j)
        BY <1>3 DEF Indexed
      <4>2. j # c
        BY <4>1 DEF Wrote
      <4> QED
        BY <1>2, <1>3, <2>3, <4>2 DEF Indexed
    <3>2. SearchTrue(d) => SearchTrue(d)'
      BY <1>5, <2>1, <3>1, SearchOn
    <3> QED
      BY <1>3, <2>1, <2>3, <3>2 DEF Searched, CallInv, ReadAt
  <2> QED
    BY <2>2, <2>4, <2>5 DEF CallInv
<1> QED
  BY <1>6, <1>7, <1>8, <1>9 DEF ReadsInv

\* What a step that goes from one statement to the next, or answers, leaves as it was.
LEMMA GoFacts ==
  ASSUME ReadsInv, NEW c \in Calls, NEW next, Go(c, next)
  PROVE  /\ reading'[c] = next
         /\ UNCHANGED <<live, public, member, yanked, embeddings, clock, question, past>>
         /\ \A d \in Calls : Asks(d)' = Asks(d) /\ Mine(d)' = Mine(d)
         /\ \A d \in Calls \ {c} : reading'[d] = reading[d]
         /\ \A d \in Calls : \A e : (May(d, e)' <=> May(d, e)) /\ (Must(d, e)' <=> Must(d, e))
<1>1. reading'[c] = next /\ \A d \in Calls \ {c} : reading'[d] = reading[d]
  BY DEF Go, ReadsInv, ReadsTypes
<1>2. UNCHANGED <<live, public, member, yanked, embeddings, clock, question, past>>
  BY DEF Go, registryRows
<1> QED
  BY <1>1, <1>2 DEF Asks, Mine, May, Must

\* A step to a call's next statement or answer keeps the invariant if it does so for the call.
LEMMA GoKeeps ==
  ASSUME ReadsAssumption, ReadsInv, NEW c \in Calls, NEW next, Go(c, next), Shaped(next),
         Underway(c), Asks(c).kind # "upsert",
         next.began = reading[c].began, next.ended = reading[c].ended, next.stage # "idle",
         Follows(c)', GoesBy(c)', Told(c)', Searched(c)'
  PROVE  ReadsInv'
<1>1. /\ reading' = [reading EXCEPT ![c] = next]
      /\ UNCHANGED <<registryRows, embeddings, clock, question, past>>
  BY DEF Go
<1>2. past' = [past EXCEPT ![c] = past[c]]
  BY <1>1 DEF ReadsInv, ReadsTypes
<1>3. Remembered(past[c]) /\ next.began \in Nat /\ next.began <= clock
  BY DEF ReadsInv, ReadsTypes
<1>4. Since(c)'
  <2>1. Since(c) /\ ~ReadAt(c, "idle")
    BY DEF ReadsInv, CallInv, Underway, ReadAt
  <2> QED
    BY <2>1, GoFacts DEF Since
<1>5. CallInv(c)'
  BY <1>4 DEF CallInv
<1> QED
  BY <1>1, <1>2, <1>3, <1>5, StepKeeps

\* From one statement to the next.
LEMMA GoesOn ==
  ASSUME ReadsAssumption, ReadsInv, NEW c \in Calls, NEW next, Go(c, next), Shaped(next),
         Underway(c), Asks(c).kind # "upsert",
         next.began = reading[c].began, next.ended = reading[c].ended,
         next.result = reading[c].result, next.answer = reading[c].answer,
         next.stage \notin {"idle", "done", "orgs", "org", "digest"}, Leads(Asks(c), next.stage),
         next.stage \in {"role", "named"} => next.orgs = {},
         GoesBy(c)'
  PROVE  ReadsInv'
<1>1. reading'[c] = next /\ Asks(c)' = Asks(c)
  BY GoFacts
<1>2. Follows(c)
  BY DEF ReadsInv, CallInv
<1>3. Follows(c)'
  BY <1>1, <1>2 DEF Follows, Underway, ReadAt
<1>4. Told(c)' /\ Searched(c)'
  BY <1>1 DEF Told, Searched, ReadAt
<1> QED
  BY <1>3, <1>4, GoKeeps

\* The last statement.
LEMMA Finishes ==
  ASSUME ReadsAssumption, ReadsInv, NEW c \in Calls, NEW result, NEW answer,
         Finish(c, result, answer), Underway(c), Asks(c).kind # "upsert",
         Told(c)', Searched(c)'
  PROVE  ReadsInv'
<1> DEFINE next == [reading[c] EXCEPT !.stage = "done", !.result = result, !.answer = answer]
<1>1. Go(c, next)
  BY DEF Finish
<1>2. Shaped(reading[c])
  BY DEF ReadsInv, ReadsTypes
<1>3. /\ Shaped(next) /\ next.began = reading[c].began /\ next.ended = reading[c].ended
      /\ next.stage = "done"
  BY <1>2 DEF Shaped, Fields
<1> HIDE DEF next
<1>4. reading'[c] = next /\ Asks(c)' = Asks(c)
  BY <1>1, GoFacts
<1>5. Follows(c)'
  <2>1. Follows(c)
    BY DEF ReadsInv, CallInv
  <2> QED
    BY <1>3, <1>4, <2>1 DEF Follows, Underway, ReadAt
<1>6. GoesBy(c)'
  BY <1>3, <1>4 DEF GoesBy, ReadAt
<1> QED
  BY <1>1, <1>3, <1>5, <1>6, GoKeeps
-------------------------------------------------------------------------------
(* Statement by statement.                                                 *)

\* Every question begins with one of its statements.
LEMMA FirstLeads ==
  ASSUME NEW q, Askable(q)
  PROVE  /\ FirstStatement(q) \notin {"idle", "done", "role", "rows", "exact", "named", "roles", "search",
                                  "semantic"}
         /\ Leads(q, FirstStatement(q))
         /\ FirstStatement(q) = "packages" => q.user = Nil
<1>1. CASE q.kind \in {"browse", "current", "find"}
  BY <1>1 DEF FirstStatement, Leads
<1>2. CASE q.kind \in {"search", "semantic"}
  BY <1>2 DEF FirstStatement, Leads
<1>3. CASE q.kind = "packages"
  BY <1>3 DEF FirstStatement, Leads
<1>4. CASE q.kind \in {"projects", "digest", "upsert"}
  BY <1>4 DEF FirstStatement, Leads
<1> QED
  BY <1>1, <1>2, <1>3, <1>4 DEF Askable

\* A call begins, or is refused for the dimensions of its vector.
LEMMA BeginKeeps ==
  ASSUME ReadsAssumption, ReadsInv, NEW c \in Calls, BeginRead(c)
  PROVE  ReadsInv'
<1> DEFINE q == Asks(c)
           refused == q.kind \in {"semantic", "upsert"} /\ q.dims \notin 1..MaxDimensions
           x == reading[c]
           next == [x EXCEPT !.stage = IF refused THEN "done" ELSE FirstStatement(q),
                             !.result = IF refused THEN "invalid" ELSE Nil, !.began = clock]
           h == [live |-> live, public |-> public, yanked |-> yanked, ever |-> Mine(c),
                 always |-> Mine(c)]
<1>1. /\ Askable(q) /\ Shaped(x) /\ reading = [d \in Calls |-> reading[d]] /\ clock \in Nat
      /\ ReadAt(c, "idle") /\ q # Nil
  BY DEF ReadsInv, ReadsTypes, Asks, BeginRead
<1>2. x.result = Nil /\ x.answer = {} /\ x.orgs = {}
  BY <1>1 DEF ReadsInv, CallInv, Follows, ReadAt
<1>3. /\ Shaped(next) /\ next.stage = (IF refused THEN "done" ELSE FirstStatement(q))
      /\ next.result = (IF refused THEN "invalid" ELSE Nil) /\ next.began = clock
      /\ next.ended = x.ended /\ next.orgs = {} /\ next.answer = {}
  <2> HIDE DEF refused, q
  <2> QED
    BY <1>1, <1>2 DEF Shaped, Fields
<1>4. /\ reading' = [reading EXCEPT ![c] = next]
      /\ past' = [past EXCEPT ![c] = h]
      /\ UNCHANGED <<registryRows, embeddings, clock, question>>
  <2>1. reading' = [reading EXCEPT ![c].stage = IF refused THEN "done" ELSE FirstStatement(q),
                                   ![c].result = IF refused THEN "invalid" ELSE Nil,
                                   ![c].began = clock]
    BY DEF BeginRead
  <2>2. reading' = [reading EXCEPT ![c] = next]
    <3> HIDE DEF refused, q
    <3> QED
      BY <1>1, <2>1
  <2> QED
    BY <2>2 DEF BeginRead, Snapshot
<1>5. Remembered(h)
  BY DEF Remembered
<1> HIDE DEF next
<1>6. reading'[c] = next /\ past'[c] = h
  BY <1>1, <1>4 DEF ReadsInv, ReadsTypes
<1>7. UNCHANGED <<live, public, member, yanked, embeddings, clock, question>>
  BY <1>4 DEF registryRows
<1>8. q' = q /\ Mine(c)' = Mine(c) /\ \A s : ReadAt(c, s)' <=> next.stage = s
  BY <1>6, <1>7 DEF Asks, Mine, ReadAt
<1>9. ~refused => next.stage = FirstStatement(q) /\ next.stage \notin {"idle", "done"}
  BY <1>1, <1>3, FirstLeads
<1>10. Follows(c)'
  <2>1. refused => next.stage = "done"
    BY <1>3
  <2>2. ~refused => Leads(q, next.stage) /\ next.result = Nil
    BY <1>1, <1>3, <1>9, FirstLeads
  <2>3. q.kind \in {"semantic", "upsert"} /\ ~refused => q.dims \in 1..MaxDimensions
    OBVIOUS
  <2> HIDE DEF refused
  <2> QED
    BY <1>1, <1>3, <1>6, <1>8, <2>1, <2>2, <2>3 DEF Follows, Underway
<1>11. Since(c)'
  BY <1>6, <1>7, <1>8 DEF Since
<1>12. GoesBy(c)'
  <2>1. next.stage \notin {"role", "rows", "exact", "named", "roles", "search", "semantic"}
    BY <1>1, <1>3, FirstLeads
  <2>2. next.stage = "packages" => Mine(c) = {}
    BY <1>1, <1>3, FirstLeads DEF Mine
  <2>3. next.stage = "packages" => OrgsRead(c)'
    BY <1>3, <1>6, <2>2 DEF OrgsRead
  <2> QED
    BY <1>6, <1>8, <2>1, <2>3 DEF GoesBy
<1>13. Told(c)' /\ Searched(c)'
  <2> SUFFICES ASSUME refused PROVE Told(c)' /\ Searched(c)'
    BY <1>8, <1>9 DEF Told, Searched
  <2>1. Told(c)'
    BY <1>8 DEF Told
  <2>2. \A j \in Calls : Wrote(j)' <=> Wrote(j)
    <3>1. q.kind = "upsert" => ~Wrote(c) /\ ~Wrote(c)'
      BY <1>2, <1>3, <1>6, <1>8 DEF Wrote, ReadsAssumption
    <3>2. \A j \in Calls \ {c} : reading'[j] = reading[j]
      BY <1>1, <1>4
    <3> QED
      BY <1>7, <3>1, <3>2 DEF Wrote, Asks
  <2>3. \A j \in Calls : \A e : ~Indexed(j, c, e)' \/ q.kind # "semantic"
    <3>1. \A j \in Calls : Wrote(j) => Asks(j).dims \in 1..MaxDimensions
      BY DEF ReadsInv, WritersKept
    <3> QED
      BY <1>7, <1>8, <2>2, <3>1 DEF Indexed, Asks
  <2>4. q.kind = "semantic" => SearchTrue(c)'
    <3> HIDE DEF q
    <3> QED
      BY <1>3, <1>6, <2>3 DEF SearchTrue
  <2> QED
    BY <1>8, <2>1, <2>4 DEF Searched
<1>14. CallInv(c)'
  BY <1>10, <1>11, <1>12, <1>13 DEF CallInv
<1>15. q.kind = "upsert" => {next.result, reading[c].result} \cap {"ok", "policy"} = {}
  BY <1>2, <1>3 DEF ReadsAssumption
<1> HIDE DEF h, q
<1>16. next.began \in Nat /\ next.began <= clock /\ next.ended = reading[c].ended
  BY <1>1, <1>3
<1> QED
  BY <1>1, <1>3, <1>4, <1>5, <1>14, <1>15, <1>16, StepKeeps DEF q

\* What an answer leaves.
LEMMA Answered ==
  ASSUME ReadsInv, NEW c \in Calls, NEW result, NEW answer, Finish(c, result, answer)
  PROVE  /\ ReadAt(c, "done")' /\ reading'[c].answer = answer /\ reading'[c].result = result
         /\ reading'[c].orgs = reading[c].orgs /\ reading'[c].began = reading[c].began
         /\ Asks(c)' = Asks(c)
         /\ UNCHANGED <<live, public, member, yanked, embeddings, clock, question, past>>
         /\ \A d \in Calls \ {c} : reading'[d] = reading[d]
         /\ \A e : (May(c, e)' <=> May(c, e)) /\ (Must(c, e)' <=> Must(c, e))
<1> DEFINE next == [reading[c] EXCEPT !.stage = "done", !.result = result, !.answer = answer]
<1>1. Go(c, next)
  BY DEF Finish
<1>2. Shaped(reading[c])
  BY DEF ReadsInv, ReadsTypes
<1>3. /\ next.stage = "done" /\ next.answer = answer /\ next.result = result
      /\ next.orgs = reading[c].orgs /\ next.began = reading[c].began
  BY <1>2 DEF Shaped, Fields
<1> HIDE DEF next
<1> QED
  BY <1>1, <1>3, GoFacts DEF ReadAt

\* Whose row, organization and memberships are an entity's.
LEMMA Belongs ==
  ASSUME ReadsAssumption, NEW e \in Entities
  PROVE  /\ Home(e) \in Of({"org"}) /\ Home(e) \in Scopes(e) /\ Bearer(e) \in Entities
         /\ TypeOf[e] # "package_version" => Bearer(e) = e
         /\ TypeOf[e] = "package_version" => Bearer(e) = ParentOf[e] /\ ParentOf[e] \in Of({"package"})
         /\ TypeOf[e] \in {"project", "package"} => Home(e) = ParentOf[e]
         /\ TypeOf[e] = "project" => e \in Scopes(e)
<1>1. TypeOf[e] \in {"org", "project", "package", "package_version"}
  BY DEF ReadsAssumption
<1>2. Home(e) \in Scopes(e)
  BY DEF Scopes
<1>3. CASE TypeOf[e] = "org"
  BY <1>2, <1>3 DEF Home, Bearer, Of
<1>4. CASE TypeOf[e] \in {"project", "package"}
  <2>1. ParentOf[e] \in Of({"org"})
    BY <1>4 DEF ReadsAssumption, Of
  <2>2. Bearer(e) = e /\ Home(e) = ParentOf[e]
    BY <1>4 DEF Home, Bearer
  <2>3. TypeOf[e] = "project" => e \in Scopes(e)
    BY DEF Scopes, Versioned
  <2> QED
    BY <1>2, <1>4, <2>1, <2>2, <2>3
<1>5. CASE TypeOf[e] = "package_version"
  <2>1. ParentOf[e] \in Of({"package"})
    BY <1>5 DEF ReadsAssumption, Of
  <2>2. Bearer(e) = ParentOf[e] /\ Home(e) = ParentOf[ParentOf[e]]
    BY <1>5 DEF Home, Bearer
  <2>3. ParentOf[ParentOf[e]] \in Of({"org"})
    BY <2>1 DEF ReadsAssumption, Of
  <2> QED
    BY <1>2, <1>5, <2>1, <2>2, <2>3 DEF Of
<1> QED
  BY <1>1, <1>3, <1>4, <1>5

\* What is known of a call in the middle of its statements.
LEMMA Midway ==
  ASSUME ReadsInv, NEW c \in Calls, NEW stage, ReadAt(c, stage), stage \notin {"idle", "done"}
  PROVE  /\ Underway(c) /\ Leads(Asks(c), stage) /\ Asks(c) # Nil /\ Askable(Asks(c))
         /\ Shaped(reading[c]) /\ GoesBy(c)
         /\ live \subseteq past[c].live /\ past[c].public \subseteq public
         /\ past[c].yanked \subseteq yanked
         /\ past[c].always \subseteq Mine(c) /\ Mine(c) \subseteq past[c].ever
         /\ reading[c].stage \in {"idle", "orgs", "org", "role", "named", "digest"}
              => reading[c].orgs = {}
         /\ live \subseteq Entities
<1>1. Underway(c) /\ ~ReadAt(c, "idle")
  BY DEF ReadAt, Underway
<1>2. CallInv(c) /\ Shaped(reading[c]) /\ live \subseteq Entities
  BY DEF ReadsInv, ReadsTypes
<1>3. Asks(c) # Nil
  BY <1>1, <1>2 DEF CallInv, Follows
<1>4. Askable(Asks(c))
  BY <1>3 DEF ReadsInv, ReadsTypes, Asks
<1> QED
  BY <1>1, <1>2, <1>3, <1>4 DEF CallInv, Follows, Since, ReadAt

\* The page of the viewer's organizations is read.
LEMMA OrgsForUserKeeps ==
  ASSUME ReadsAssumption, ReadsInv, NEW c \in Calls, OrgsForUser(c)
  PROVE  ReadsInv'
<1> DEFINE S == Of({"org"}) \cap live \cap Mine(c)
           next == [reading[c] EXCEPT !.orgs = Top(S, PageRows), !.stage = Asks(c).kind]
<1>1. ReadAt(c, "orgs") /\ Go(c, next)
  BY DEF OrgsForUser
<1>2. /\ Underway(c) /\ Leads(Asks(c), "orgs") /\ Shaped(reading[c])
      /\ past[c].always \subseteq Mine(c) /\ Mine(c) \subseteq past[c].ever
  BY <1>1, Midway
<1>3. Asks(c).kind \in {"search", "semantic", "packages"}
  BY <1>2 DEF Leads
<1>4. /\ Shaped(next) /\ next.stage = Asks(c).kind /\ next.orgs = Top(S, PageRows)
      /\ next.began = reading[c].began /\ next.ended = reading[c].ended
      /\ next.result = reading[c].result /\ next.answer = reading[c].answer
  <2> HIDE DEF S
  <2> QED
    BY <1>2 DEF Shaped, Fields
<1>5. /\ Top(S, PageRows) \subseteq S
      /\ \A e \in S \ Top(S, PageRows) :
           Cardinality({x \in Top(S, PageRows) : Order[x] < Order[e]}) = PageRows
  <2>1. S \in SUBSET Entities /\ PageRows \in Nat
    BY DEF Of, ReadsAssumption
  <2> HIDE DEF S
  <2> QED
    BY <2>1, TopIs
<1> HIDE DEF next
<1>6. reading'[c] = next /\ UNCHANGED <<live, past>>
  BY <1>1, GoFacts
<1>7. OrgsRead(c)'
  BY <1>2, <1>4, <1>5, <1>6 DEF OrgsRead
<1>8. GoesBy(c)'
  BY <1>3, <1>4, <1>6, <1>7 DEF GoesBy, ReadAt
<1>9. Leads(Asks(c), next.stage)
  BY <1>3, <1>4 DEF Leads
<1>10. Asks(c).kind # "upsert" /\ next.stage \notin {"idle", "done", "orgs", "org", "digest", "role", "named"}
  BY <1>3, <1>4
<1> QED
  BY <1>1, <1>2, <1>4, <1>8, <1>9, <1>10, GoesOn

\* An organization that is gone hides everything in it.
LEMMA OrgBySlugKeeps ==
  ASSUME ReadsAssumption, ReadsInv, NEW c \in Calls, OrgBySlug(c)
  PROVE  ReadsInv'
<1> DEFINE q == Asks(c)
<1>1. ReadAt(c, "org")
  BY DEF OrgBySlug
<1>2. /\ Underway(c) /\ Leads(q, "org") /\ Askable(q) /\ Shaped(reading[c])
      /\ live \subseteq past[c].live /\ reading[c].orgs = {}
  BY <1>1, Midway DEF ReadAt
<1>3. q.kind \in {"browse", "current", "find"} /\ q.kind # "upsert"
  BY <1>2 DEF Leads
<1>4. CASE q.org \notin live /\ Finish(c, "hidden", {})
  <2>1. /\ reading'[c].answer = {} /\ reading'[c].result = "hidden" /\ Asks(c)' = q
        /\ \A e : Must(c, e)' <=> Must(c, e)
    BY <1>4, Answered
  <2>2. \A e \in Of({"project", "package"}) : ParentOf[e] = q.org => ~Must(c, e)
    <3> TAKE e \in Of({"project", "package"})
    <3>1. e \in Entities /\ Home(e) = ParentOf[e]
      BY Belongs DEF Of
    <3>2. Home(e) \in Alive(q, e)
      BY <1>3 DEF Alive
    <3> QED
      BY <1>4, <3>1, <3>2 DEF Must
  <2>3. q.kind = "browse" => ListingTrue(c)'
    <3>1. q.kind = "browse" => \A e \in Subjects(q) : ~Must(c, e)
      BY <1>2, <2>2 DEF Subjects, Askable, Of
    <3> QED
      BY <2>1, <3>1 DEF ListingTrue
  <2>4. q.kind = "current" => CurrentTrue(c)'
    <3>1. \A p \in Of({"package"}) : ParentOf[p] = q.org => ~Must(c, p)
      BY <2>2 DEF Of
    <3> QED
      BY <2>1, <3>1 DEF CurrentTrue
  <2>5. q.kind = "find" => GateTrue(c)'
    BY <1>2, <2>1, <2>2 DEF GateTrue, Askable
  <2>6. Told(c)' /\ Searched(c)'
    BY <1>3, <2>1, <2>3, <2>4, <2>5 DEF Told, Searched
  <2> QED
    BY <1>2, <1>3, <1>4, <2>6, Finishes
<1>5. CASE /\ q.org \in live
           /\ Go(c, [reading[c] EXCEPT !.stage = IF q.kind = "find" THEN "named" ELSE "role"])
  <2> DEFINE stage == IF q.kind = "find" THEN "named" ELSE "role"
             next == [reading[c] EXCEPT !.stage = stage]
  <2>1. /\ Shaped(next) /\ next.stage = stage /\ next.orgs = {} /\ next.began = reading[c].began
        /\ next.ended = reading[c].ended /\ next.result = reading[c].result
        /\ next.answer = reading[c].answer
    <3> HIDE DEF stage
    <3> QED
      BY <1>2 DEF Shaped, Fields
  <2>2. stage \in {"named", "role"} /\ Leads(q, stage)
    BY <1>3 DEF Leads
  <2>3. Go(c, next)
    BY <1>5
  <2> HIDE DEF next, stage
  <2>4. reading'[c] = next /\ Asks(c)' = q /\ past' = past
    BY <2>3, GoFacts
  <2>5. GoesBy(c)'
    BY <1>2, <1>5, <2>1, <2>2, <2>4 DEF GoesBy, ReadAt
  <2>6. next.stage \notin {"idle", "done", "orgs", "org", "digest"}
    BY <2>1, <2>2
  <2> QED
    BY <1>2, <1>3, <2>1, <2>2, <2>3, <2>5, <2>6, GoesOn
<1> QED
  BY <1>4, <1>5 DEF OrgBySlug

\* The role in the organization asked about is read.
LEMMA OrgRoleKeeps ==
  ASSUME ReadsAssumption, ReadsInv, NEW c \in Calls, OrgRole(c)
  PROVE  ReadsInv'
<1> DEFINE q == Asks(c)
           orgs == {q.org} \cap Mine(c)
           next == [reading[c] EXCEPT !.orgs = orgs, !.stage = "rows"]
<1>1. ReadAt(c, "role") /\ Go(c, next)
  BY DEF OrgRole
<1>2. /\ Underway(c) /\ Leads(q, "role") /\ Shaped(reading[c]) /\ GoesBy(c)
      /\ past[c].always \subseteq Mine(c) /\ Mine(c) \subseteq past[c].ever
  BY <1>1, Midway
<1>3. q.kind \in {"browse", "current"} /\ q.kind # "upsert" /\ Leads(q, "rows")
  BY <1>2 DEF Leads
<1>4. /\ Shaped(next) /\ next.stage = "rows" /\ next.orgs = orgs
      /\ next.began = reading[c].began /\ next.ended = reading[c].ended
      /\ next.result = reading[c].result /\ next.answer = reading[c].answer
  <2> HIDE DEF orgs
  <2> QED
    BY <1>2 DEF Shaped, Fields
<1> HIDE DEF next
<1>5. reading'[c] = next /\ Asks(c)' = q /\ past' = past
  BY <1>1, GoFacts
<1>6. RoleRead(c)'
  BY <1>2, <1>4, <1>5 DEF RoleRead
<1>7. GoesBy(c)'
  BY <1>1, <1>2, <1>4, <1>5, <1>6 DEF GoesBy, ReadAt
<1>8. next.stage \notin {"idle", "done", "orgs", "org", "digest", "role", "named"}
  BY <1>4
<1> QED
  BY <1>1, <1>2, <1>3, <1>4, <1>7, <1>8, GoesOn

\* What finds an artifact's or a name's packages reads their visibility at once.
LEMMA FoundKeeps ==
  ASSUME ReadsAssumption, ReadsInv, NEW c \in Calls, NEW rows \in SUBSET live, Found(c, rows),
         Underway(c), Leads(Asks(c), "roles"), reading[c].orgs = {},
         rows \subseteq Gates(c), \A p \in rows : Alive(Asks(c), p) \subseteq past[c].live,
         \A p \in Gates(c) : Alive(Asks(c), p) \subseteq live => p \in rows
  PROVE  ReadsInv'
<1> DEFINE q == Asks(c)
           targets == UNION {Scopes(p) : p \in rows}
           open == rows \cap public
           next == [reading[c] EXCEPT !.stage = "roles", !.found = rows, !.open = open,
                                      !.todo = targets]
<1>1. Go(c, next)
  BY DEF Found
<1>2. /\ Shaped(reading[c]) /\ past[c].public \subseteq public /\ q.kind \in {"find", "digest"}
  <2>1. q.kind \in {"find", "digest"}
    BY DEF Leads
  <2> QED
    BY <2>1, Midway DEF ReadAt, Underway
<1>3. /\ Shaped(next) /\ next.stage = "roles" /\ next.orgs = {} /\ next.found = rows
      /\ next.open = open /\ next.todo = targets
      /\ next.began = reading[c].began /\ next.ended = reading[c].ended
      /\ next.result = reading[c].result /\ next.answer = reading[c].answer
  <2> HIDE DEF open, targets
  <2> QED
    BY <1>2 DEF Shaped, Fields
<1> HIDE DEF next
<1>4. reading'[c] = next /\ Asks(c)' = q /\ UNCHANGED <<live, public, past>>
  BY <1>1, GoFacts
<1>5. Gates(c)' = Gates(c)
  BY <1>4 DEF Gates, Referring
<1>6. Gated(c)'
  <2>1. \A p \in rows : \A t \in Scopes(p) : t \in next.todo
    BY <1>3
  <2> HIDE DEF targets, q
  <2>2. next.orgs \cup next.todo \subseteq UNION {Scopes(p) : p \in next.found}
    BY <1>3 DEF targets
  <2>3. next.open \subseteq next.found \cap public /\ past[c].public \cap next.found \subseteq next.open
    BY <1>2, <1>3
  <2> QED
    BY <1>3, <1>4, <1>5, <2>1, <2>2, <2>3 DEF Gated, q
<1>7. GoesBy(c)'
  BY <1>3, <1>4, <1>6 DEF GoesBy, ReadAt
<1>8. next.stage \notin {"idle", "done", "orgs", "org", "digest", "role", "named"} /\ q.kind # "upsert"
  BY <1>2, <1>3
<1>9. Leads(q, next.stage)
  BY <1>3
<1> QED
  BY <1>1, <1>3, <1>7, <1>8, <1>9, GoesOn

\* A name is resolved.
LEMMA NamedKeeps ==
  ASSUME ReadsAssumption, ReadsInv, NEW c \in Calls, Named(c)
  PROVE  ReadsInv'
<1> DEFINE q == Asks(c)
           rows == {q.entity} \cap live
<1>1. ReadAt(c, "named") /\ Found(c, rows)
  BY DEF Named
<1>2. /\ Underway(c) /\ Leads(q, "named") /\ Askable(q) /\ GoesBy(c)
      /\ live \subseteq past[c].live /\ reading[c].orgs = {}
  BY <1>1, Midway DEF ReadAt
<1>3. q.kind = "find" /\ Leads(q, "roles")
  BY <1>2 DEF Leads
<1>4. q.org \in past[c].live
  BY <1>1, <1>2 DEF GoesBy, ReadAt
<1>5. q.entity \in Of({"project", "package"}) /\ ParentOf[q.entity] = q.org
  BY <1>2, <1>3 DEF Askable
<1>6. Bearer(q.entity) = q.entity /\ Home(q.entity) = q.org
  BY <1>5, Belongs DEF Of
<1>7. Alive(q, q.entity) = {q.entity, q.org}
  BY <1>3, <1>6 DEF Alive
<1>8. Gates(c) = {q.entity}
  BY <1>3 DEF Gates
<1> HIDE DEF q
<1>9. /\ rows \in SUBSET live /\ rows \subseteq Gates(c)
      /\ \A p \in rows : Alive(q, p) \subseteq past[c].live
      /\ \A p \in Gates(c) : Alive(q, p) \subseteq live => p \in rows
  BY <1>2, <1>4, <1>7, <1>8
<1> QED
  BY <1>1, <1>2, <1>3, <1>9, FoundKeeps DEF q

\* The packages that refer to an artifact are found, or are too many.
LEMMA ReferencesKeeps ==
  ASSUME ReadsAssumption, ReadsInv, NEW c \in Calls, References(c)
  PROVE  ReadsInv'
<1> DEFINE q == Asks(c)
           rows == {v \in Of({"package_version"}) : ShaOf[v] = q.sha /\ ParentOf[v] \in live}
           found == {ParentOf[v] : v \in rows}
<1>1. ReadAt(c, "digest")
  BY DEF References
<1>2. /\ Underway(c) /\ Leads(q, "digest") /\ live \subseteq past[c].live /\ reading[c].orgs = {}
  BY <1>1, Midway DEF ReadAt
<1>3. q.kind = "digest" /\ Leads(q, "roles")
  BY <1>2 DEF Leads
<1>4. CASE Cardinality(rows) > ReferenceLimit /\ Finish(c, "policy", {})
  <2>1. /\ reading'[c].result = "policy" /\ Asks(c)' = q /\ past' = past
    BY <1>4, Answered
  <2>2. rows \subseteq Referring(c) /\ Referring(c) \in SUBSET Entities
    BY <1>2 DEF Referring, Of
  <2>3. IsFiniteSet(Referring(c)) /\ IsFiniteSet(rows) /\ Cardinality(rows) <= Cardinality(Referring(c))
    <3> HIDE DEF rows
    <3> QED
      BY <2>2, FS_Subset DEF ReadsAssumption
  <2>4. Cardinality(Referring(c)) \in Nat /\ Cardinality(rows) \in Nat /\ ReferenceLimit \in Nat
    BY <2>3, FS_CardinalityType DEF ReadsAssumption
  <2>5. Cardinality(Referring(c)) > ReferenceLimit
    BY <1>4, <2>3, <2>4
  <2>6. GateTrue(c)'
    <3>1. Referring(c)' = {v \in Of({"package_version"}) : ShaOf[v] = Asks(c)'.sha /\ ParentOf[v] \in past'[c].live}
      BY DEF Referring
    <3>2. Referring(c)' = Referring(c)
      BY <2>1 DEF Referring
    <3> HIDE DEF rows
    <3> QED
      BY <1>3, <2>1, <2>5, <3>1, <3>2 DEF GateTrue
  <2>7. Told(c)' /\ Searched(c)'
    BY <1>3, <2>1, <2>6 DEF Told, Searched
  <2> QED
    BY <1>2, <1>3, <1>4, <2>7, Finishes
<1>5. CASE Found(c, found)
  <2>1. Gates(c) = {ParentOf[v] : v \in Referring(c)}
    BY <1>3 DEF Gates
  <2>2. \A p \in Gates(c) : p \in Entities /\ TypeOf[p] = "package"
    BY <2>1 DEF Referring, ReadsAssumption, Of
  <2>3. \A p \in Gates(c) : Alive(q, p) = {p}
    BY <1>3, <2>2, Belongs DEF Alive
  <2>4. found \in SUBSET live /\ found \subseteq Gates(c)
    BY <1>2, <2>1 DEF Referring
  <2>5. \A p \in Gates(c) : p \in live => p \in found
    BY <2>1 DEF Referring
  <2> HIDE DEF found, q
  <2>6. /\ \A p \in found : Alive(q, p) \subseteq past[c].live
        /\ \A p \in Gates(c) : Alive(q, p) \subseteq live => p \in found
    BY <1>2, <2>3, <2>4, <2>5
  <2> QED
    BY <1>2, <1>3, <1>5, <2>4, <2>6, FoundKeeps DEF q
<1> QED
  BY <1>4, <1>5 DEF References

\* One role is read.
LEMMA ReadRoleKeeps ==
  ASSUME ReadsAssumption, ReadsInv, NEW c \in Calls, ReadRole(c)
  PROVE  ReadsInv'
<1> DEFINE q == Asks(c)
           x == reading[c]
<1>1. PICK t \in x.todo :
        Go(c, [x EXCEPT !.todo = @ \ {t}, !.orgs = @ \cup ({t} \cap Mine(c))])
  BY DEF ReadRole
<1> DEFINE todo == x.todo \ {t}
           orgs == x.orgs \cup ({t} \cap Mine(c))
           next == [x EXCEPT !.todo = todo, !.orgs = orgs]
<1>2. ReadAt(c, "roles") /\ Go(c, next)
  BY <1>1 DEF ReadRole
<1>3. /\ Underway(c) /\ Leads(q, "roles") /\ Shaped(x) /\ GoesBy(c)
      /\ past[c].always \subseteq Mine(c) /\ Mine(c) \subseteq past[c].ever
  BY <1>2, Midway
<1>4. q.kind \in {"find", "digest"} /\ q.kind # "upsert" /\ x.stage = "roles"
  BY <1>2, <1>3 DEF Leads, ReadAt
<1>5. Gated(c)
  BY <1>2, <1>3 DEF GoesBy
<1>6. /\ Shaped(next) /\ next.stage = "roles" /\ next.orgs = orgs /\ next.todo = todo
      /\ next.found = x.found /\ next.open = x.open
      /\ next.began = x.began /\ next.ended = x.ended
      /\ next.result = x.result /\ next.answer = x.answer
  <2> HIDE DEF orgs, todo
  <2> QED
    BY <1>3, <1>4 DEF Shaped, Fields
<1> HIDE DEF next
<1>7. reading'[c] = next /\ Asks(c)' = q /\ UNCHANGED <<live, public, past>>
  BY <1>2, GoFacts
<1>8. Gates(c)' = Gates(c)
  BY <1>7 DEF Gates, Referring
<1>9. Gated(c)'
  <2> HIDE DEF q
  <2>1. /\ orgs \subseteq past[c].ever
        /\ orgs \cup todo \subseteq UNION {Scopes(p) : p \in x.found}
    BY <1>1, <1>3, <1>5 DEF Gated
  <2>2. \A p \in x.found : \A s \in Scopes(p) : s \in todo \/ s \in orgs \/ s \notin past[c].always
    BY <1>3, <1>5 DEF Gated
  <2> HIDE DEF orgs, todo
  <2> QED
    BY <1>5, <1>6, <1>7, <1>8, <2>1, <2>2 DEF Gated, q
<1>10. GoesBy(c)'
  BY <1>6, <1>7, <1>9 DEF GoesBy, ReadAt
<1>11. next.stage \notin {"idle", "done", "orgs", "org", "digest", "role", "named"}
  BY <1>6
<1> QED
  BY <1>2, <1>3, <1>4, <1>6, <1>10, <1>11, GoesOn

\* The decision on an artifact or a name is true.
LEMMA DecideKeeps ==
  ASSUME ReadsAssumption, ReadsInv, NEW c \in Calls, Decide(c)
  PROVE  ReadsInv'
<1> DEFINE q == Asks(c)
           x == reading[c]
           result == IF x.open # {} \/ x.orgs # {} THEN "granted" ELSE "hidden"
<1>1. ReadAt(c, "roles") /\ x.todo = {} /\ Finish(c, result, {})
  BY DEF Decide
<1>2. /\ Underway(c) /\ Leads(q, "roles") /\ GoesBy(c) /\ Askable(q)
  BY <1>1, Midway
<1>3. q.kind \in {"find", "digest"}
  BY <1>2 DEF Leads
<1>4. Gated(c)
  BY <1>1, <1>2 DEF GoesBy
<1>5. \A p \in Gates(c) : Bearer(p) = p
  <2>1. \A p \in Gates(c) : p \in Of({"project", "package"})
    BY <1>2, <1>3 DEF Gates, Referring, Askable, ReadsAssumption, Of
  <2> QED
    BY <2>1, Belongs DEF Of
<1>6. /\ reading'[c].result = result /\ Asks(c)' = q /\ past' = past
      /\ \A e : (May(c, e)' <=> May(c, e)) /\ (Must(c, e)' <=> Must(c, e))
  BY <1>1, Answered
<1>7. result = "granted" => \E p \in Gates(c) : May(c, p)
  <2>1. CASE x.open # {}
    <3>1. PICK p \in x.open : TRUE
      BY <2>1
    <3>2. p \in Gates(c) /\ Alive(q, p) \subseteq past[c].live /\ p \in public
      BY <3>1, <1>4 DEF Gated
    <3> QED
      BY <3>2, <1>5 DEF May
  <2>2. CASE x.orgs # {}
    <3>1. PICK t \in x.orgs : TRUE
      BY <2>2
    <3>2. PICK p \in x.found : t \in Scopes(p)
      BY <3>1, <1>4 DEF Gated
    <3>3. p \in Gates(c) /\ Alive(q, p) \subseteq past[c].live /\ t \in past[c].ever
      BY <3>1, <3>2, <1>4 DEF Gated
    <3> QED
      BY <3>2, <3>3 DEF May
  <2> QED
    BY <2>1, <2>2
<1>8. result = "hidden" => \A p \in Gates(c) : ~Must(c, p)
  <2> SUFFICES ASSUME x.open = {}, x.orgs = {}, NEW p \in Gates(c), Must(c, p) PROVE FALSE
    OBVIOUS
  <2>1. p \in x.found
    BY <1>4 DEF Gated, Must
  <2>2. p \notin past[c].public
    BY <1>4, <2>1 DEF Gated
  <2>3. Suffices(q, p) = Scopes(p)
    BY <1>3 DEF Suffices
  <2>4. Scopes(p) \cap past[c].always = {}
    BY <1>1, <1>4, <2>1 DEF Gated
  <2> QED
    BY <1>5, <2>2, <2>3, <2>4 DEF Must
<1>9. result # "policy"
  OBVIOUS
<1>10. GateTrue(c)'
  <2> HIDE DEF result
  <2> QED
    BY <1>6, <1>7, <1>8, <1>9 DEF GateTrue, Gates, Referring
<1>11. Told(c)' /\ Searched(c)'
  BY <1>3, <1>6, <1>10 DEF Told, Searched
<1>12. q.kind # "upsert"
  BY <1>3
<1> HIDE DEF result
<1> QED
  BY <1>1, <1>2, <1>11, <1>12, Finishes

\* A listing that shows the first rows of a page is true when only rows the viewer may see
\* are among them, and what he must be shown is among them or cut off.
LEMMA ListingFinishes ==
  ASSUME ReadsAssumption, ReadsInv, NEW c \in Calls, NEW S \in SUBSET Entities, NEW n \in Nat,
         Finish(c, "shown", Top(S, n)), Underway(c),
         Asks(c).kind \in {"projects", "browse", "search", "packages"}, n = PageOf(Asks(c)),
         \A e \in S : e \in Subjects(Asks(c)) /\ May(c, e),
         \A e \in Subjects(Asks(c)) : Must(c, e) =>
           e \in S \/ Cardinality({o \in reading[c].orgs : Order[o] < Order[Home(e)]}) = PageRows
  PROVE  ReadsInv'
<1>1. /\ Top(S, n) \subseteq S
      /\ \A e \in S \ Top(S, n) : Cardinality({x \in Top(S, n) : Order[x] < Order[e]}) = n
  BY TopIs
<1>2. /\ reading'[c].answer = Top(S, n) /\ reading'[c].orgs = reading[c].orgs
      /\ Asks(c)' = Asks(c)
      /\ \A e : (May(c, e)' <=> May(c, e)) /\ (Must(c, e)' <=> Must(c, e))
  BY Answered
<1>3. ListingTrue(c)'
  BY <1>1, <1>2 DEF ListingTrue, CutOff
<1>4. Told(c)' /\ Searched(c)'
  BY <1>2, <1>3 DEF Told, Searched
<1>5. Asks(c).kind # "upsert"
  OBVIOUS
<1> QED
  BY <1>4, <1>5, Finishes

\* A viewer's projects.
LEMMA ProjectsForUserKeeps ==
  ASSUME ReadsAssumption, ReadsInv, NEW c \in Calls, ProjectsForUser(c)
  PROVE  ReadsInv'
<1> DEFINE S == Of({"project"}) \cap live \cap Mine(c)
<1>1. ReadAt(c, "projects") /\ Finish(c, "shown", Top(S, PageRows))
  BY DEF ProjectsForUser
<1>2. /\ Underway(c) /\ Leads(Asks(c), "projects") /\ live \subseteq past[c].live
      /\ past[c].always \subseteq Mine(c) /\ Mine(c) \subseteq past[c].ever
  BY <1>1, Midway
<1>3. Asks(c).kind = "projects"
  BY <1>2 DEF Leads
<1>4. \A e \in S : e \in Subjects(Asks(c)) /\ May(c, e)
  <2> TAKE e \in S
  <2>2. TypeOf[e] = "project" /\ e \in Entities
    BY DEF Of
  <2>3. Bearer(e) = e /\ e \in Scopes(e)
    BY <2>2, Belongs
  <2>4. May(c, e)
    BY <1>2, <1>3, <2>3 DEF May, Alive
  <2> QED
    BY <1>3, <2>4 DEF Subjects
<1>5. \A e \in Subjects(Asks(c)) : Must(c, e) => e \in S
  <2> SUFFICES ASSUME NEW e \in Subjects(Asks(c)), Must(c, e) PROVE e \in S
    OBVIOUS
  <2>1. e \in Of({"project"})
    BY <1>3 DEF Subjects
  <2>2. Bearer(e) = e
    BY <2>1, Belongs DEF Of
  <2> QED
    BY <1>2, <1>3, <2>1, <2>2 DEF Must, Alive, Suffices
<1>6. S \in SUBSET Entities /\ PageRows \in Nat /\ PageRows = PageOf(Asks(c))
  BY <1>3 DEF Of, ReadsAssumption, PageOf
<1> HIDE DEF S
<1> QED
  BY <1>1, <1>2, <1>3, <1>4, <1>5, <1>6, ListingFinishes

\* What a page holds.
LEMMA Clamped ==
  ASSUME ReadsAssumption, NEW limit \in Nat
  PROVE  Clamp(limit) \in Nat \ {0} /\ AtMost(limit) \in Nat
BY DEF ReadsAssumption, Clamp, AtMost

\* What could be seen throughout is visible, unless its organization did not fit a page.
LEMMA MustBeVisible ==
  ASSUME ReadsAssumption, ReadsInv, NEW c \in Calls, NEW e \in Entities, OrgsRead(c),
         past[c].public \subseteq public, Asks(c).kind \in {"search", "semantic"}, Must(c, e)
  PROVE  \/ VisibleTo(e, reading[c].orgs)
         \/ Cardinality({o \in reading[c].orgs : Order[o] < Order[Home(e)]}) = PageRows
<1>1. {Bearer(e), Home(e)} \subseteq live /\ Home(e) \in Of({"org"})
  BY Belongs DEF Must, Alive
<1>2. Suffices(Asks(c), e) = {Home(e)}
  BY DEF Suffices
<1> QED
  BY <1>1, <1>2 DEF Must, VisibleTo, OrgsRead

\* What is visible could be seen at some moment.
LEMMA MayBeVisible ==
  ASSUME ReadsAssumption, NEW c \in Calls, NEW e \in Entities, OrgsRead(c),
         live \subseteq past[c].live, VisibleTo(e, reading[c].orgs)
  PROVE  May(c, e)
<1>1. Alive(Asks(c), e) \subseteq {Bearer(e), Home(e)} /\ Home(e) \in Scopes(e)
  BY Belongs DEF Alive
<1> QED
  BY <1>1 DEF May, VisibleTo, OrgsRead

\* The search of the registry.
LEMMA SearchRegistryKeeps ==
  ASSUME ReadsAssumption, ReadsInv, NEW c \in Calls, SearchRegistry(c)
  PROVE  ReadsInv'
<1> DEFINE q == Asks(c)
           S == {e \in q.matches : VisibleTo(e, reading[c].orgs)}
<1>1. ReadAt(c, "search") /\ Finish(c, "shown", Top(S, Clamp(q.limit)))
  BY DEF SearchRegistry
<1>2. /\ Underway(c) /\ Leads(q, "search") /\ Askable(q) /\ GoesBy(c)
      /\ live \subseteq past[c].live /\ past[c].public \subseteq public
  BY <1>1, Midway
<1>3. q.kind = "search" /\ q.matches \subseteq Entities /\ q.limit \in Nat
  BY <1>2 DEF Leads, Askable
<1>4. OrgsRead(c)
  BY <1>1, <1>2 DEF GoesBy, ReadAt
<1>5. Subjects(q) = q.matches /\ PageOf(q) = Clamp(q.limit) /\ Clamp(q.limit) \in Nat
  BY <1>3, Clamped DEF Subjects, PageOf
<1>6. \A e \in S : e \in Subjects(q) /\ May(c, e)
  BY <1>2, <1>3, <1>4, <1>5, MayBeVisible
<1>7. \A e \in Subjects(q) : Must(c, e) =>
        e \in S \/ Cardinality({o \in reading[c].orgs : Order[o] < Order[Home(e)]}) = PageRows
  BY <1>2, <1>3, <1>4, <1>5, MustBeVisible
<1>8. S \in SUBSET Entities
  BY <1>3
<1> HIDE DEF S
<1> QED
  BY <1>1, <1>2, <1>3, <1>5, <1>6, <1>7, <1>8, ListingFinishes

\* The search of packages.
LEMMA SearchPackagesKeeps ==
  ASSUME ReadsAssumption, ReadsInv, NEW c \in Calls, SearchPackages(c)
  PROVE  ReadsInv'
<1> DEFINE q == Asks(c)
           S == {p \in q.matches \cap Of({"package"}) \cap live :
                   p \in public \/ ParentOf[p] \in reading[c].orgs}
<1>1. ReadAt(c, "packages") /\ Finish(c, "shown", Top(S, AtMost(q.limit)))
  BY DEF SearchPackages
<1>2. /\ Underway(c) /\ Leads(q, "packages") /\ Askable(q) /\ GoesBy(c)
      /\ live \subseteq past[c].live /\ past[c].public \subseteq public
  BY <1>1, Midway
<1>3. q.kind = "packages" /\ q.limit \in Nat
  BY <1>2 DEF Leads, Askable
<1>4. OrgsRead(c)
  BY <1>1, <1>2 DEF GoesBy, ReadAt
<1>5. /\ Subjects(q) = q.matches \cap Of({"package"})
      /\ PageOf(q) = AtMost(q.limit) /\ AtMost(q.limit) \in Nat
  BY <1>3, Clamped DEF Subjects, PageOf
<1>6. \A p \in Of({"package"}) :
        /\ p \in Entities /\ Alive(q, p) = {p} /\ Bearer(p) = p /\ Home(p) = ParentOf[p]
        /\ Home(p) \in Scopes(p) /\ Home(p) \in Of({"org"}) /\ Suffices(q, p) = {Home(p)}
  <2> TAKE p \in Of({"package"})
  <2>1. p \in Entities /\ TypeOf[p] = "package"
    BY DEF Of
  <2>2. /\ Bearer(p) = p /\ Home(p) = ParentOf[p] /\ Home(p) \in Scopes(p)
        /\ Home(p) \in Of({"org"})
    BY <2>1, Belongs
  <2>3. Alive(q, p) = {p} /\ Suffices(q, p) = {Home(p)}
    BY <1>3, <2>2 DEF Alive, Suffices
  <2> QED
    BY <2>1, <2>2, <2>3
<1>7. \A p \in S : p \in Subjects(q) /\ May(c, p)
  BY <1>2, <1>4, <1>5, <1>6 DEF May, OrgsRead
<1>8. \A p \in Subjects(q) : Must(c, p) =>
        p \in S \/ Cardinality({o \in reading[c].orgs : Order[o] < Order[Home(p)]}) = PageRows
  <2> SUFFICES ASSUME NEW p \in Subjects(q), Must(c, p),
                      Cardinality({o \in reading[c].orgs : Order[o] < Order[Home(p)]}) # PageRows
               PROVE  p \in S
    OBVIOUS
  <2>1. p \in q.matches /\ p \in Of({"package"})
    BY <1>5
  <2>2. p \in live
    BY <1>6, <2>1 DEF Must
  <2>3. CASE Home(p) \in past[c].always /\ Home(p) \in live
    BY <1>4, <1>6, <2>1, <2>2, <2>3 DEF OrgsRead
  <2>4. CASE p \in past[c].public
    BY <1>2, <2>1, <2>2, <2>4
  <2> QED
    BY <1>3, <1>6, <2>1, <2>3, <2>4 DEF Must
<1>9. S \in SUBSET Entities
  BY DEF Of
<1> HIDE DEF S
<1> QED
  BY <1>1, <1>2, <1>3, <1>5, <1>7, <1>8, <1>9, ListingFinishes

\* An organization is listed; the latest versions have coordinates of their own, one for
\* each package.
LEMMA ListOrgKeeps ==
  ASSUME ReadsAssumption, ReadsInv, NEW c \in Calls, ListOrg(c)
  PROVE  ReadsInv'
<1> DEFINE q == Asks(c)
           x == reading[c]
           S == {e \in Of({q.type}) \cap live : ParentOf[e] = q.org /\ (e \in public \/ x.orgs # {})}
           rows == Top(S, PageRows)
           latest == UNION {LatestOf(p, yanked) : p \in rows}
           found == {Coordinate(v) : v \in latest}
           next == [x EXCEPT !.stage = "exact", !.found = found]
<1>1. /\ ReadAt(c, "rows")
      /\ \/ q.kind = "browse" /\ Finish(c, "shown", rows)
         \/ q.kind = "current" /\ Go(c, next)
  BY DEF ListOrg
<1>2. /\ Underway(c) /\ Leads(q, "rows") /\ Askable(q) /\ GoesBy(c) /\ Shaped(x)
      /\ live \subseteq past[c].live /\ past[c].public \subseteq public
      /\ past[c].yanked \subseteq yanked
  BY <1>1, Midway
<1>3. q.kind \in {"browse", "current"} /\ q.kind # "upsert" /\ q.type \in {"project", "package"}
  BY <1>2 DEF Leads, Askable
<1>4. RoleRead(c) /\ q.org \in past[c].live
  BY <1>1, <1>2 DEF GoesBy, ReadAt
<1>5. \A e \in Of({q.type}) : ParentOf[e] = q.org =>
        /\ e \in Entities /\ Bearer(e) = e /\ Home(e) = q.org /\ q.org \in Scopes(e)
        /\ Alive(q, e) = {e, q.org} /\ Suffices(q, e) = {q.org}
  <2> SUFFICES ASSUME NEW e \in Of({q.type}), ParentOf[e] = q.org
               PROVE  /\ e \in Entities /\ Bearer(e) = e /\ Home(e) = q.org /\ q.org \in Scopes(e)
                      /\ Alive(q, e) = {e, q.org} /\ Suffices(q, e) = {q.org}
    OBVIOUS
  <2>1. e \in Entities /\ TypeOf[e] \in {"project", "package"}
    BY <1>3 DEF Of
  <2>2. Bearer(e) = e /\ Home(e) = q.org /\ q.org \in Scopes(e)
    BY <2>1, Belongs
  <2> QED
    BY <1>3, <2>1, <2>2 DEF Alive, Suffices
<1>6. \A e \in S : /\ e \in Of({q.type}) /\ ParentOf[e] = q.org /\ e \in live
                   /\ (e \in public \/ q.org \in past[c].ever)
  BY <1>4 DEF RoleRead
<1>7. \A e \in Of({q.type}) : ParentOf[e] = q.org /\ Must(c, e) => e \in S
  <2> SUFFICES ASSUME NEW e \in Of({q.type}), ParentOf[e] = q.org, Must(c, e) PROVE e \in S
    OBVIOUS
  <2>1. e \in live
    BY <1>5 DEF Must
  <2>2. q.org \in past[c].always \/ e \in past[c].public
    BY <1>5 DEF Must
  <2> QED
    BY <1>2, <1>4, <2>1, <2>2 DEF RoleRead
<1>8. S \in SUBSET Entities /\ PageRows \in Nat
  BY DEF Of, ReadsAssumption
<1> HIDE DEF S
<1>9. CASE q.kind = "browse" /\ Finish(c, "shown", rows)
  <2>1. Subjects(q) = {e \in Of({q.type}) : ParentOf[e] = q.org} /\ PageOf(q) = PageRows
    BY <1>9 DEF Subjects, PageOf
  <2>2. \A e \in S : e \in Subjects(q) /\ May(c, e)
    <3> TAKE e \in S
    <3>1. e \in Of({q.type}) /\ ParentOf[e] = q.org /\ e \in live
      BY <1>6
    <3>2. Alive(q, e) \subseteq past[c].live
      BY <1>2, <1>4, <1>5, <3>1
    <3>3. Bearer(e) \in public \/ Scopes(e) \cap past[c].ever # {}
      BY <1>5, <1>6, <3>1
    <3> HIDE DEF q
    <3> QED
      BY <2>1, <3>1, <3>2, <3>3 DEF May, q
  <2>3. \A e \in Subjects(q) : Must(c, e) => e \in S
    BY <1>7, <2>1
  <2> QED
    BY <1>2, <1>8, <1>9, <2>1, <2>2, <2>3, ListingFinishes
<1>10. CASE q.kind = "current" /\ Go(c, next)
  <2>1. q.type = "package" /\ Leads(q, "exact")
    BY <1>2, <1>10 DEF Askable, Leads
  <2>2. /\ rows \subseteq S /\ IsFiniteSet(rows) /\ Cardinality(rows) <= PageRows
        /\ Cardinality(S) <= PageRows => rows = S
    BY <1>8, TopIs
  <2>3. \A p, v : v \in LatestOf(p, yanked) =>
          /\ v \in Of({"package_version"}) /\ ParentOf[v] = p /\ v \notin yanked
          /\ \A w \in LatestOf(p, yanked) : v = w
    <3> SUFFICES ASSUME NEW p, NEW v \in LatestOf(p, yanked)
                 PROVE  /\ v \in Of({"package_version"}) /\ ParentOf[v] = p /\ v \notin yanked
                        /\ \A w \in LatestOf(p, yanked) : v = w
      OBVIOUS
    <3>1. v \in Of({"package_version"}) /\ ParentOf[v] = p /\ v \notin yanked
      BY DEF LatestOf, Releases
    <3>2. ASSUME NEW w \in LatestOf(p, yanked) PROVE v = w
      <4>1. v \in Entities /\ w \in Entities /\ Order[v] <= Order[w] /\ Order[w] <= Order[v]
        BY <3>2 DEF LatestOf, Releases, Of
      <4>2. Order[v] \in Nat /\ Order[w] \in Nat
        BY <4>1 DEF ReadsAssumption
      <4>3. Order[v] = Order[w]
        BY <4>1, <4>2
      <4> QED
        BY <4>1, <4>3 DEF ReadsAssumption
    <3> QED
      BY <3>1, <3>2
  <2> HIDE DEF rows
  <2>4. \A v \in latest : /\ ParentOf[v] \in rows /\ v \in LatestOf(ParentOf[v], yanked)
    BY <2>3
  <2>5. \A k \in found : k[1] \in rows /\ \E v \in latest : k = Coordinate(v) /\ k[1] = ParentOf[v]
    BY <2>4 DEF Coordinate
  <2>6. IsFiniteSet(found) /\ Cardinality(found) <= PageRows
    <3> DEFINE f == [k \in found |-> k[1]]
    <3>1. \A k, l \in found : k[1] = l[1] => k = l
      <4> SUFFICES ASSUME NEW k \in found, NEW l \in found, k[1] = l[1] PROVE k = l
        OBVIOUS
      <4>1. PICK v \in latest : k = Coordinate(v) /\ k[1] = ParentOf[v]
        BY <2>5
      <4>2. PICK w \in latest : l = Coordinate(w) /\ l[1] = ParentOf[w]
        BY <2>5
      <4>3. v = w
        BY <2>3, <2>4, <4>1, <4>2
      <4> QED
        BY <4>1, <4>2, <4>3
    <3> HIDE DEF found
    <3>2. f \in Injection(found, rows)
      BY <2>5, <3>1 DEF Injection, IsInjective
    <3> HIDE DEF f
    <3>3. IsFiniteSet(found) /\ Cardinality(found) <= Cardinality(rows)
      BY <2>2, <3>2, FS_Injection
    <3>4. Cardinality(found) \in Nat /\ Cardinality(rows) \in Nat
      BY <2>2, <3>3, FS_CardinalityType
    <3> QED
      BY <1>8, <2>2, <3>3, <3>4
  <2>7. \A k \in found : \E v \in Of({"package_version"}) :
          Coordinate(v) = k /\ v \notin past[c].yanked /\ May(c, v)
    <3> TAKE k \in found
    <3>1. PICK v \in latest : k = Coordinate(v) /\ k[1] = ParentOf[v]
      BY <2>5
    <3>2. /\ v \in Of({"package_version"}) /\ v \notin yanked /\ ParentOf[v] \in S
      BY <2>2, <2>3, <2>4, <3>1
    <3>3. v \in Entities /\ Bearer(v) = ParentOf[v] /\ Home(v) \in Scopes(v)
      BY <3>2, Belongs DEF Of
    <3>4. Home(v) = q.org /\ TypeOf[v] = "package_version"
      <4>1. Home(ParentOf[v]) = q.org /\ TypeOf[ParentOf[v]] = "package" /\ ParentOf[ParentOf[v]] = q.org
        BY <1>5, <1>6, <2>1, <3>2 DEF Of
      <4> QED
        BY <3>2, <3>3, <4>1 DEF Home, Of
    <3>5. Alive(q, v) = {ParentOf[v], q.org}
      BY <1>10, <3>3, <3>4 DEF Alive
    <3>6. ParentOf[v] \in live /\ (ParentOf[v] \in public \/ q.org \in past[c].ever)
      BY <1>6, <3>2
    <3>7. May(c, v)
      BY <1>2, <1>4, <3>3, <3>4, <3>5, <3>6 DEF May
    <3> QED
      BY <1>2, <3>1, <3>2, <3>7
  <2>8. \A p \in Listed(c) : Must(c, p) /\ Cardinality(Listed(c)) <= PageRows
          => \A v \in LatestOf(p, past[c].yanked) \ yanked : Coordinate(v) \in found
    <3> SUFFICES ASSUME NEW p \in Listed(c), Must(c, p), Cardinality(Listed(c)) <= PageRows,
                        NEW v \in LatestOf(p, past[c].yanked) \ yanked
                 PROVE  Coordinate(v) \in found
      OBVIOUS
    <3>1. Listed(c) \in SUBSET Entities /\ S \in SUBSET Listed(c)
      BY <1>6, <2>1 DEF Listed, Of
    <3>2. IsFiniteSet(Listed(c)) /\ IsFiniteSet(S) /\ Cardinality(S) <= Cardinality(Listed(c))
      BY <3>1, FS_Subset DEF ReadsAssumption
    <3>3. Cardinality(S) \in Nat /\ Cardinality(Listed(c)) \in Nat
      BY <3>2, FS_CardinalityType
    <3>4. rows = S
      BY <1>8, <2>2, <3>2, <3>3
    <3>5. p \in rows
      BY <1>7, <2>1, <3>4 DEF Listed
    <3>6. v \in LatestOf(p, yanked)
      BY <1>2 DEF LatestOf
    <3> QED
      BY <3>5, <3>6
  <2>9. /\ Shaped(next) /\ next.stage = "exact" /\ next.found = found /\ next.orgs = x.orgs
        /\ next.began = x.began /\ next.ended = x.ended
        /\ next.result = x.result /\ next.answer = x.answer
    <3> HIDE DEF found
    <3> QED
      BY <1>2 DEF Shaped, Fields
  <2> HIDE DEF next, found
  <2>10. /\ reading'[c] = next /\ Asks(c)' = q /\ UNCHANGED <<live, public, yanked, past>>
         /\ \A e : (May(c, e)' <=> May(c, e)) /\ (Must(c, e)' <=> Must(c, e))
    BY <1>10, GoFacts
  <2>11. Coordinates(c)'
    <3>1. Listed(c)' = Listed(c)
      BY <2>10 DEF Listed
    <3> QED
      BY <2>6, <2>7, <2>8, <2>9, <2>10, <3>1 DEF Coordinates
  <2>12. GoesBy(c)'
    BY <1>4, <2>9, <2>10, <2>11 DEF GoesBy, ReadAt
  <2>13. next.stage \notin {"idle", "done", "orgs", "org", "digest", "role", "named"}
    BY <2>9
  <2> QED
    BY <1>2, <1>3, <1>10, <2>1, <2>9, <2>12, <2>13, GoesOn
<1> QED
  BY <1>1, <1>9, <1>10

\* Coordinates name one version, so that a page of packages has a page of versions.
LEMMA ExactVersionsKeeps ==
  ASSUME ReadsAssumption, ReadsInv, NEW c \in Calls, ExactVersions(c)
  PROVE  ReadsInv'
<1> DEFINE q == Asks(c)
           found == reading[c].found
           S == {v \in Of({"package_version"}) \ yanked : Coordinate(v) \in found}
           answer == Top(S, PageRows)
<1>1. ReadAt(c, "exact") /\ Finish(c, "shown", answer)
  BY DEF ExactVersions
<1>2. Underway(c) /\ Leads(q, "exact") /\ GoesBy(c)
  BY <1>1, Midway
<1>3. q.kind = "current" /\ Coordinates(c)
  BY <1>1, <1>2 DEF Leads, GoesBy
<1>4. \A v, w \in Of({"package_version"}) : Coordinate(v) = Coordinate(w) => v = w
  BY DEF Coordinate, ReadsAssumption
<1>5. S \in SUBSET Entities /\ PageRows \in Nat
  BY DEF Of, ReadsAssumption
<1>6. Cardinality(S) <= PageRows
  <2> DEFINE f == [v \in S |-> Coordinate(v)]
  <2>1. \A v \in S : Coordinate(v) \in found /\ v \in Of({"package_version"})
    OBVIOUS
  <2> HIDE DEF S, found
  <2>2. f \in Injection(S, found)
    BY <1>4, <2>1 DEF Injection, IsInjective
  <2>3. IsFiniteSet(found) /\ Cardinality(found) <= PageRows
    BY <1>3 DEF Coordinates, found
  <2> HIDE DEF f
  <2>4. IsFiniteSet(S) /\ Cardinality(S) <= Cardinality(found)
    BY <2>2, <2>3, FS_Injection
  <2>5. Cardinality(S) \in Nat /\ Cardinality(found) \in Nat
    BY <2>3, <2>4, FS_CardinalityType
  <2> QED
    BY <1>5, <2>3, <2>4, <2>5
<1>7. answer = S
  <2> HIDE DEF S
  <2> QED
    BY <1>5, <1>6, TopIs
<1>8. /\ reading'[c].answer = S /\ Asks(c)' = q /\ UNCHANGED <<live, public, yanked, past>>
      /\ \A e : (May(c, e)' <=> May(c, e)) /\ (Must(c, e)' <=> Must(c, e))
  BY <1>1, <1>7, Answered
<1>9. \A v \in S : v \in Releases(ParentOf[v]) \ past[c].yanked /\ May(c, v)
  <2> TAKE v \in S
  <2>1. PICK w \in Of({"package_version"}) :
          Coordinate(w) = Coordinate(v) /\ w \notin past[c].yanked /\ May(c, w)
    BY <1>3 DEF Coordinates
  <2>2. v = w
    BY <1>4, <2>1
  <2> QED
    BY <2>1, <2>2 DEF Releases
<1>10. \A p \in Listed(c) : Must(c, p) /\ Cardinality(Listed(c)) <= PageRows
         => LatestOf(p, past[c].yanked) \ yanked \subseteq S
  BY <1>3 DEF Coordinates, LatestOf, Releases
<1>11. CurrentTrue(c)'
  <2> HIDE DEF S
  <2> QED
    BY <1>8, <1>9, <1>10 DEF CurrentTrue, Listed
<1>12. Told(c)' /\ Searched(c)'
  BY <1>3, <1>8, <1>11 DEF Told, Searched
<1> HIDE DEF answer
<1> QED
  BY <1>1, <1>2, <1>3, <1>12, Finishes

\* s is no newer than r.
NoNewer(s, r) == s.at < r.at \/ (s.at = r.at /\ s.id <= r.id)

\* Of some rows of embeddings one is the newest.
LEMMA Newest ==
  ASSUME ReadsAssumption, RowsKept, NEW S \in SUBSET embeddings, NEW s \in S
  PROVE  \E r \in S : \A x \in S : NoNewer(x, r)
<1> DEFINE later(p) == p[2].at < p[1].at \/ (p[2].at = p[1].at /\ p[2].id < p[1].id)
           L == {p \in S \X S : later(p)}
           T == Leading(S, L, 1)
<1>1. \A x \in S : x.at \in Nat /\ x.id \in Nat
  BY DEF RowsKept, ReadsAssumption
<1>2. \A x, y \in S : <<x, y>> \in L <=> y.at < x.at \/ (y.at = x.at /\ y.id < x.id)
  OBVIOUS
<1>3. \A x, y \in S : x.id = y.id => x = y
  BY DEF RowsKept
<1>4. IsFiniteSet(S)
  BY FS_Subset DEF RowsKept
<1> HIDE DEF L
<1>5. \A x, y \in S : x = y \/ <<x, y>> \in L \/ <<y, x>> \in L
  <2> SUFFICES ASSUME NEW x \in S, NEW y \in S, x # y PROVE <<x, y>> \in L \/ <<y, x>> \in L
    OBVIOUS
  <2>1. x.at \in Nat /\ x.id \in Nat /\ y.at \in Nat /\ y.id \in Nat /\ x.id # y.id
    BY <1>1, <1>3
  <2>2. \/ y.at < x.at \/ (y.at = x.at /\ y.id < x.id)
        \/ x.at < y.at \/ (x.at = y.at /\ x.id < y.id)
    BY <2>1
  <2> QED
    BY <1>2, <2>2
<1>6. /\ \A x \in S : <<x, x>> \notin L
      /\ \A x, y, z \in S : <<x, y>> \in L /\ <<y, z>> \in L => <<x, z>> \in L
  BY <1>1, <1>2
<1>7. /\ T \subseteq S /\ IsFiniteSet(T)
      /\ \A e \in S \ T : Cardinality(T) = 1
  BY <1>4, <1>5, <1>6, FirstOf
<1>8. PICK r \in T : TRUE
  <2>1. s \in T \/ Cardinality(T) = 1
    BY <1>7
  <2>2. Cardinality(T) = 1 => T # {}
    BY FS_EmptySet
  <2> QED
    BY <2>1, <2>2
<1>9. Before(S, L, r) = {}
  <2>1. Before(S, L, r) \in SUBSET S
    BY DEF Before
  <2>2. IsFiniteSet(Before(S, L, r))
    BY <1>4, <2>1, FS_Subset
  <2>3. Cardinality(Before(S, L, r)) \in Nat /\ Cardinality(Before(S, L, r)) < 1
    BY <1>8, <2>2, FS_CardinalityType DEF Leading
  <2> QED
    BY <2>2, <2>3, FS_EmptySet
<1>10. \A x \in S : NoNewer(x, r)
  <2> TAKE x \in S
  <2>1. r \in S
    BY <1>7, <1>8
  <2>2. <<x, r>> \notin L
    BY <1>9 DEF Before
  <2> QED
    BY <1>1, <1>2, <2>1, <2>2 DEF NoNewer
<1> QED
  BY <1>7, <1>8, <1>10

\* The ranked rows are one of each entity, the newest.
LEMMA RankedIs ==
  ASSUME ReadsAssumption, RowsKept, NEW model, NEW dims
  PROVE  /\ Ranked(model, dims) \subseteq embeddings
         /\ \A r, s \in Ranked(model, dims) : r.entity = s.entity => r = s
         /\ \A s \in embeddings : s.model = model /\ s.dims = dims =>
              /\ \E r \in Ranked(model, dims) : r.entity = s.entity
              /\ \A r \in Ranked(model, dims) : r.entity = s.entity => NoNewer(s, r)
<1> DEFINE scored == {r \in embeddings : r.model = model /\ r.dims = dims}
<1>1. \A r : r \in Ranked(model, dims) <=>
        r \in scored /\ \A s \in scored : s.entity = r.entity => NoNewer(s, r)
  BY DEF Ranked, NoNewer
<1>2. \A r, s \in Ranked(model, dims) : r.entity = s.entity => r = s
  <2> SUFFICES ASSUME NEW r \in Ranked(model, dims), NEW s \in Ranked(model, dims),
                      r.entity = s.entity
               PROVE  r = s
    OBVIOUS
  <2>1. r \in embeddings /\ s \in embeddings /\ NoNewer(s, r) /\ NoNewer(r, s)
    BY <1>1
  <2>2. r.at \in Nat /\ s.at \in Nat /\ r.id \in Nat /\ s.id \in Nat
    BY <2>1 DEF RowsKept, ReadsAssumption
  <2>3. r.id = s.id
    BY <2>1, <2>2 DEF NoNewer
  <2> QED
    BY <2>1, <2>3 DEF RowsKept
<1>3. \A s \in scored : \E r \in Ranked(model, dims) : r.entity = s.entity
  <2> TAKE s \in scored
  <2> DEFINE S == {r \in scored : r.entity = s.entity}
  <2>1. S \in SUBSET embeddings /\ s \in S
    OBVIOUS
  <2> HIDE DEF S
  <2>2. PICK r \in S : \A x \in S : NoNewer(x, r)
    BY <2>1, Newest
  <2>3. r \in scored /\ r.entity = s.entity
    BY <2>2 DEF S
  <2>4. r \in Ranked(model, dims)
    BY <1>1, <2>2, <2>3 DEF S
  <2> QED
    BY <2>3, <2>4
<1> QED
  BY <1>1, <1>2, <1>3

\* The nearest rows: n of them or all.
LEMMA NearestIs ==
  ASSUME ReadsAssumption, RowsKept, NEW S \in SUBSET embeddings, NEW n \in Nat,
         \A r, s \in S : r.entity = s.entity => r = s
  PROVE  LET T == {r \in S : Cardinality({s \in S : Nearer(s, r)}) < n} IN
         T \subseteq S /\ \A r \in S : r \in T \/ Cardinality(T) = n
<1> DEFINE T == {r \in S : Cardinality({s \in S : Nearer(s, r)}) < n}
           L == {p \in S \X S : Nearer(p[1], p[2])}
<1>1. \A r \in S : r.vector \in Int /\ Order[r.entity] \in Nat
  BY DEF RowsKept, ReadsAssumption
<1>2. \A r, s \in S : Order[r.entity] = Order[s.entity] => r = s
  BY DEF RowsKept, ReadsAssumption
<1>3. \A r, s \in S : <<r, s>> \in L <=> Nearer(r, s)
  OBVIOUS
<1> HIDE DEF L
<1>4. \A r, s \in S : r = s \/ <<r, s>> \in L \/ <<s, r>> \in L
  <2> SUFFICES ASSUME NEW r \in S, NEW s \in S, r # s PROVE <<r, s>> \in L \/ <<s, r>> \in L
    OBVIOUS
  <2>1. /\ r.vector \in Int /\ s.vector \in Int /\ Order[r.entity] \in Nat /\ Order[s.entity] \in Nat
        /\ Order[r.entity] # Order[s.entity]
    BY <1>1, <1>2
  <2>2. Nearer(r, s) \/ Nearer(s, r)
    BY <2>1 DEF Nearer
  <2> QED
    BY <1>3, <2>2
<1>5. /\ \A r \in S : <<r, r>> \notin L
      /\ \A r, s, x \in S : <<r, s>> \in L /\ <<s, x>> \in L => <<r, x>> \in L
  BY <1>1, <1>3 DEF Nearer
<1>6. \A r \in S : Before(S, L, r) = {s \in S : Nearer(s, r)}
  BY <1>3 DEF Before
<1>7. T = Leading(S, L, n)
  BY <1>6 DEF Leading
<1>8. IsFiniteSet(S)
  BY FS_Subset DEF RowsKept
<1>9. \A r \in S \ Leading(S, L, n) : Cardinality(Leading(S, L, n)) = n
  BY <1>4, <1>5, <1>8, FirstOf
<1> QED
  BY <1>7, <1>9

\* The semantic search.
LEMMA SemanticSearchKeeps ==
  ASSUME ReadsAssumption, ReadsInv, NEW c \in Calls, SemanticSearch(c)
  PROVE  ReadsInv'
<1> DEFINE q == Asks(c)
           orgs == reading[c].orgs
           ranked == Ranked(q.model, q.dims)
           rows == {r \in ranked : VisibleTo(r.entity, orgs)}
           answer == {r \in rows : Cardinality({s \in rows : Nearer(s, r)}) < Clamp(q.limit)}
<1>1. ReadAt(c, "semantic") /\ Finish(c, "shown", answer)
  BY DEF SemanticSearch
<1>2. /\ Underway(c) /\ Leads(q, "semantic") /\ Askable(q) /\ GoesBy(c)
      /\ live \subseteq past[c].live /\ past[c].public \subseteq public
  BY <1>1, Midway
<1>3. q.kind = "semantic" /\ q.limit \in Nat
  BY <1>2 DEF Leads, Askable
<1>4. OrgsRead(c) /\ RowsKept /\ WritersKept
  BY <1>1, <1>2 DEF GoesBy, ReadAt, ReadsInv
<1>5. PageOf(q) = Clamp(q.limit) /\ Clamp(q.limit) \in Nat
  BY <1>3, Clamped DEF PageOf
<1>6. /\ ranked \subseteq embeddings
      /\ \A r, s \in ranked : r.entity = s.entity => r = s
      /\ \A s \in embeddings : s.model = q.model /\ s.dims = q.dims =>
           /\ \E r \in ranked : r.entity = s.entity
           /\ \A r \in ranked : r.entity = s.entity => NoNewer(s, r)
  BY <1>4, RankedIs
<1> HIDE DEF ranked
<1>7. answer \subseteq rows /\ \A r \in rows : r \in answer \/ Cardinality(answer) = Clamp(q.limit)
  <2>1. rows \in SUBSET embeddings /\ \A r, s \in rows : r.entity = s.entity => r = s
    BY <1>6
  <2> HIDE DEF rows
  <2> QED
    BY <1>4, <1>5, <2>1, NearestIs
<1> HIDE DEF answer
<1>8. /\ reading'[c].answer = answer /\ reading'[c].orgs = orgs /\ reading'[c].began = reading[c].began
      /\ Asks(c)' = q /\ ReadAt(c, "done")' /\ question' = question
      /\ \A d \in Calls \ {c} : reading'[d] = reading[d]
      /\ \A e : (May(c, e)' <=> May(c, e)) /\ (Must(c, e)' <=> Must(c, e))
  BY <1>1, Answered
<1>9. \A j \in Calls : (Wrote(j)' <=> Wrote(j)) /\ (Wrote(j) => j # c) /\ Asks(j)' = Asks(j)
  BY <1>3, <1>8 DEF Wrote, Asks
<1>10. \A j \in Calls : /\ Overwritten(j) /\ j # c => Overwritten(j)'
                        /\ \A e : Indexed(j, c, e)' <=> Indexed(j, c, e)
                        /\ \A e : Indexed(j, c, e) => j # c
  BY <1>8, <1>9 DEF Overwritten, Indexed
<1>11. ASSUME NEW j \in Calls, NEW e, Indexed(j, c, e)
       PROVE  \E s \in embeddings : /\ s.entity = e /\ s.model = q.model /\ s.dims = q.dims
                                    /\ Overwritten(j) \/ s.at = reading[j].began
  <2>1. Kept(j)
    BY <1>4, <1>11 DEF Indexed, WritersKept
  <2> QED
    BY <1>11, <2>1 DEF Kept, Indexed, ContentKey
<1>12. \A r \in answer : r \in embeddings /\ r \in ranked /\ r.entity \in Entities /\ VisibleTo(r.entity, orgs)
                         /\ r.at \in Nat
  BY <1>4, <1>6, <1>7 DEF RowsKept
<1>13. \A r \in answer : May(c, r.entity)
  BY <1>2, <1>4, <1>12, MayBeVisible
<1>14. \A r \in answer : \A j \in Calls : Indexed(j, c, r.entity) /\ ~Overwritten(j)
         => reading[j].began <= r.at
  <2> SUFFICES ASSUME NEW r \in answer, NEW j \in Calls, Indexed(j, c, r.entity), ~Overwritten(j)
               PROVE  reading[j].began <= r.at
    OBVIOUS
  <2>1. PICK s \in embeddings : /\ s.entity = r.entity /\ s.model = q.model /\ s.dims = q.dims
                                /\ s.at = reading[j].began
    BY <1>11
  <2>2. NoNewer(s, r)
    BY <1>6, <1>12, <2>1
  <2>3. s.at \in Nat
    BY <1>4 DEF RowsKept
  <2> QED
    BY <1>12, <2>1, <2>2, <2>3 DEF NoNewer
<1>15. \A j \in Calls, e \in Entities : Indexed(j, c, e) /\ Must(c, e)
         => (\E r \in answer : r.entity = e) \/ Cardinality(answer) = PageOf(q)
              \/ Cardinality({o \in orgs : Order[o] < Order[Home(e)]}) = PageRows
  <2> SUFFICES ASSUME NEW j \in Calls, NEW e \in Entities, Indexed(j, c, e), Must(c, e),
                      VisibleTo(e, orgs)
               PROVE  (\E r \in answer : r.entity = e) \/ Cardinality(answer) = PageOf(q)
    BY <1>2, <1>3, <1>4, MustBeVisible
  <2>1. PICK s \in embeddings : s.entity = e /\ s.model = q.model /\ s.dims = q.dims
    BY <1>11
  <2>2. PICK r \in ranked : r.entity = e
    BY <1>6, <2>1
  <2>3. r \in rows
    BY <2>2
  <2> QED
    BY <1>5, <1>7, <2>2, <2>3
<1>16. SearchTrue(c)'
  <2>1. \A r, s \in answer : r.entity = s.entity => r = s
    BY <1>6, <1>12
  <2>2. \A r \in answer : \A j \in Calls : Indexed(j, c, r.entity)' /\ ~Overwritten(j)'
          => reading'[j].began <= r.at
    <3> SUFFICES ASSUME NEW r \in answer, NEW j \in Calls, Indexed(j, c, r.entity)', ~Overwritten(j)'
                 PROVE  reading'[j].began <= r.at
      OBVIOUS
    <3>1. Indexed(j, c, r.entity) /\ j # c /\ ~Overwritten(j)
      BY <1>10
    <3>2. reading'[j] = reading[j]
      BY <1>8, <3>1
    <3> QED
      BY <1>14, <3>1, <3>2
  <2> HIDE DEF q
  <2> QED
    BY <1>8, <1>10, <1>13, <1>15, <2>1, <2>2 DEF SearchTrue
<1>17. Told(c)' /\ Searched(c)'
  BY <1>3, <1>8, <1>16 DEF Told, Searched
<1> QED
  BY <1>1, <1>2, <1>3, <1>17, Finishes

\* What one upsert does to the rows: there is still one of each identity, of the same
\* dimensions, and only the rows of its own content were written.
Replaced(q, result) ==
  \A s \in embeddings :
    \E t \in embeddings' : /\ ContentKey(t) = ContentKey(s) /\ t.dims = s.dims
                           /\ t = s \/ (ContentKey(s) = ContentKey(q) /\ result = "ok")

\* An upsert is decided once and for all.
LEMMA UpsertFacts ==
  ASSUME ReadsAssumption, ReadsInv, NEW c \in Calls, Upsert(c)
  PROVE  \E result \in {"ok", "policy"} :
           /\ reading' = [reading EXCEPT ![c].stage = "done", ![c].result = result, ![c].ended = clock]
           /\ Replaced(Asks(c), result)
           /\ result = "ok" => \E t \in embeddings' :
                                 /\ ContentKey(t) = ContentKey(Asks(c)) /\ t.dims = Asks(c).dims
                                 /\ t.at = reading[c].began
           /\ result = "policy" => \E t \in embeddings' :
                                     ContentKey(t) = ContentKey(Asks(c)) /\ t.dims # Asks(c).dims
           /\ (\A j \in Calls \ {c} : Wrote(j)' <=> Wrote(j)) /\ (result = "ok" => Wrote(c)')
                => RowsKept'
<1> DEFINE q == Asks(c)
           same == {r \in embeddings : ContentKey(r) = ContentKey(q)}
           new(id) == [id |-> id, entity |-> q.entity, model |-> q.model, content |-> q.content,
                       dims |-> q.dims, vector |-> q.vector, at |-> reading[c].began]
           ends(result) == reading' = [reading EXCEPT ![c].stage = "done", ![c].result = result,
                                                      ![c].ended = clock]
<1>1. /\ ReadAt(c, "upsert") /\ question' = question
      /\ \/ /\ same = {}
            /\ embeddings' = embeddings \cup {new(c)} /\ ends("ok")
         \/ \E r \in same : /\ r.dims = q.dims
                            /\ embeddings' = (embeddings \ {r}) \cup {new(r.id)} /\ ends("ok")
         \/ /\ \E r \in same : r.dims # q.dims
            /\ ends("policy") /\ UNCHANGED embeddings
  BY DEF Upsert
<1>2. /\ Leads(q, "upsert") /\ Askable(q) /\ q # Nil
  BY <1>1, Midway
<1>3. q.kind = "upsert" /\ q.entity \in Entities /\ q.vector \in Int
  BY <1>2 DEF Leads, Askable
<1>4. RowsKept /\ reading[c].began \in Nat /\ reading[c].result = Nil
  BY <1>1 DEF ReadsInv, ReadsTypes, CallInv, Follows, ReadAt
<1>5. ~Wrote(c)
  BY <1>4 DEF Wrote, ReadsAssumption
<1>6. \A j : Asks(j)' = Asks(j)
  BY <1>1 DEF Asks
<1>7. \A id : /\ ContentKey(new(id)) = ContentKey(q) /\ new(id).dims = q.dims
              /\ new(id).at = reading[c].began /\ new(id).id = id
              /\ new(id).entity \in Entities /\ new(id).vector \in Int /\ new(id).at \in Nat
              /\ new(id) = [id |-> new(id).id, entity |-> new(id).entity, model |-> new(id).model,
                            content |-> new(id).content, dims |-> new(id).dims,
                            vector |-> new(id).vector, at |-> new(id).at]
  BY <1>3, <1>4 DEF ContentKey
<1>8. \A r \in embeddings :
        /\ r = [id |-> r.id, entity |-> r.entity, model |-> r.model, content |-> r.content,
                dims |-> r.dims, vector |-> r.vector, at |-> r.at]
        /\ r.id \in Calls /\ Wrote(r.id) /\ ContentKey(r) = ContentKey(Asks(r.id)) /\ r.id # c
        /\ r.entity \in Entities /\ r.vector \in Int /\ r.at \in Nat
  BY <1>4, <1>5 DEF RowsKept
<1> HIDE DEF new, q, ends
<1>9. CASE same = {} /\ embeddings' = embeddings \cup {new(c)} /\ ends("ok")
  <2>1. Replaced(q, "ok")
    BY <1>9 DEF Replaced
  <2>2. ASSUME \A j \in Calls \ {c} : Wrote(j)' <=> Wrote(j), Wrote(c)'
        PROVE  RowsKept'
    <3>1. IsFiniteSet(embeddings')
      BY <1>4, <1>9, FS_AddElement DEF RowsKept
    <3>2. \A r, s \in embeddings' : ContentKey(r) = ContentKey(s) => r = s
      <4>1. \A r \in embeddings : ContentKey(r) # ContentKey(new(c))
        BY <1>7, <1>9
      <4> QED
        BY <1>4, <1>9, <4>1 DEF RowsKept
    <3>3. ContentKey(new(c)) = ContentKey(Asks(c)) /\ new(c).id = c
      BY <1>7 DEF q
    <3> QED
      BY <1>6, <1>7, <1>8, <1>9, <2>2, <3>1, <3>2, <3>3 DEF RowsKept
  <2>3. new(c) \in embeddings'
    BY <1>9
  <2> QED
    BY <1>7, <1>9, <2>1, <2>2, <2>3 DEF ends, q
<1>10. ASSUME NEW r \in same, r.dims = q.dims,
              embeddings' = (embeddings \ {r}) \cup {new(r.id)}, ends("ok")
       PROVE  \E result \in {"ok", "policy"} :
                /\ ends(result) /\ Replaced(q, result)
                /\ result = "ok" => \E t \in embeddings' :
                                 /\ ContentKey(t) = ContentKey(q) /\ t.dims = q.dims
                                 /\ t.at = reading[c].began
                /\ result = "policy" => \E t \in embeddings' :
                                     ContentKey(t) = ContentKey(q) /\ t.dims # q.dims
                /\ (\A j \in Calls \ {c} : Wrote(j)' <=> Wrote(j)) /\ (result = "ok" => Wrote(c)')
                     => RowsKept'
  <2>1. r \in embeddings /\ ContentKey(r) = ContentKey(q)
    OBVIOUS
  <2>2. new(r.id) \in embeddings' /\ \A s \in embeddings : s # r => s \in embeddings'
    BY <1>10
  <2>3. Replaced(q, "ok")
    <3> SUFFICES ASSUME NEW s \in embeddings
                 PROVE  \E t \in embeddings' : /\ ContentKey(t) = ContentKey(s) /\ t.dims = s.dims
                                               /\ t = s \/ ContentKey(s) = ContentKey(q)
      BY DEF Replaced
    <3>1. CASE s = r
      BY <1>7, <1>10, <2>1, <2>2, <3>1
    <3>2. CASE s # r
      BY <2>2, <3>2
    <3> QED
      BY <3>1, <3>2
  <2>4. ASSUME \A j \in Calls \ {c} : Wrote(j)' <=> Wrote(j), Wrote(c)'
        PROVE  RowsKept'
    <3>1. IsFiniteSet(embeddings')
      <4>1. IsFiniteSet(embeddings \ {r})
        BY <1>4, FS_RemoveElement DEF RowsKept
      <4> QED
        BY <1>10, <4>1, FS_AddElement
    <3>2. \A s \in embeddings \ {r} : ContentKey(s) # ContentKey(new(r.id))
      BY <1>4, <1>7, <2>1 DEF RowsKept
    <3>3. \A s, t \in embeddings' : ContentKey(s) = ContentKey(t) => s = t
      BY <1>4, <1>10, <3>2 DEF RowsKept
    <3>4. ContentKey(new(r.id)) = ContentKey(Asks(r.id)) /\ new(r.id).id = r.id /\ Wrote(r.id)'
      BY <1>7, <1>8, <2>1, <2>4
    <3> QED
      BY <1>6, <1>7, <1>8, <1>10, <2>1, <2>4, <3>1, <3>3, <3>4 DEF RowsKept
  <2> QED
    BY <1>7, <1>10, <2>2, <2>3, <2>4
<1>11. CASE /\ \E r \in same : r.dims # q.dims
            /\ ends("policy") /\ UNCHANGED embeddings
  <2>1. PICK r \in same : r.dims # q.dims
    BY <1>11
  <2>2. Replaced(q, "policy")
    BY <1>11 DEF Replaced
  <2>3. (\A j \in Calls \ {c} : Wrote(j)' <=> Wrote(j)) => RowsKept'
    BY <1>4, <1>6, <1>8, <1>11 DEF RowsKept
  <2> QED
    BY <1>11, <2>1, <2>2, <2>3 DEF ends, q
<1> QED
  BY <1>1, <1>9, <1>10, <1>11 DEF ends, q

\* An upsert keeps the invariant: those done before a search began are not touched by one that
\* ends after, whose rows are no older.
LEMMA UpsertKeeps ==
  ASSUME ReadsAssumption, ReadsInv, NEW c \in Calls, Upsert(c)
  PROVE  ReadsInv'
<1> DEFINE q == Asks(c)
<1>1. ReadAt(c, "upsert") /\ clock' = clock + 1 /\ UNCHANGED <<live, public, member, yanked, question, past>>
  BY DEF Upsert, registryRows
<1>2. /\ Underway(c) /\ Leads(q, "upsert") /\ Askable(q) /\ q # Nil /\ Shaped(reading[c])
      /\ Follows(c) /\ ReadsTypes /\ Since(c)
  BY <1>1, Midway DEF ReadsInv, CallInv
<1>3. q.kind = "upsert" /\ q.dims \in 1..MaxDimensions /\ reading[c].result = Nil
  BY <1>1, <1>2 DEF Leads, Follows, ReadAt
<1>4. ~Wrote(c)
  BY <1>3 DEF Wrote, ReadsAssumption
<1>5. PICK result \in {"ok", "policy"} :
        /\ reading' = [reading EXCEPT ![c].stage = "done", ![c].result = result, ![c].ended = clock]
        /\ Replaced(Asks(c), result)
        /\ result = "ok" => \E t \in embeddings' :
                              /\ ContentKey(t) = ContentKey(Asks(c)) /\ t.dims = Asks(c).dims
                              /\ t.at = reading[c].began
        /\ result = "policy" => \E t \in embeddings' :
                                  ContentKey(t) = ContentKey(Asks(c)) /\ t.dims # Asks(c).dims
        /\ (\A j \in Calls \ {c} : Wrote(j)' <=> Wrote(j)) /\ (result = "ok" => Wrote(c)')
             => RowsKept'
  BY UpsertFacts
<1> DEFINE next == [reading[c] EXCEPT !.stage = "done", !.result = result, !.ended = clock]
<1>6. /\ Shaped(next) /\ next.stage = "done" /\ next.result = result /\ next.ended = clock
      /\ next.began = reading[c].began
  BY <1>2 DEF Shaped, Fields
<1>7. /\ reading' = [d \in Calls |-> reading'[d]] /\ reading'[c] = next
      /\ \A d \in Calls \ {c} : reading'[d] = reading[d]
  BY <1>2, <1>5 DEF ReadsTypes
<1> HIDE DEF next
<1>8. /\ \A j : Asks(j)' = Asks(j)
      /\ \A j \in Calls : Mine(j)' = Mine(j)
      /\ \A j \in Calls \ {c} : Wrote(j)' <=> Wrote(j)
      /\ Wrote(c)' <=> result = "ok"
  <2>1. \A j : Asks(j)' = Asks(j)
    BY <1>1 DEF Asks
  <2> QED
    BY <1>1, <1>2, <1>3, <1>6, <1>7, <2>1 DEF Mine, Wrote
<1>9. RowsKept'
  BY <1>5, <1>8
<1>10. clock \in Nat /\ \A j \in Calls : Wrote(j) => reading[j].ended < clock /\ j # c
  BY <1>2, <1>4 DEF ReadsTypes, ReadsInv, WritersKept
<1>11. ReadsTypes'
  <2>1. \A d \in Calls : /\ Shaped(reading'[d]) /\ Remembered(past[d])
                         /\ reading'[d].began \in Nat /\ reading'[d].began <= clock + 1
                         /\ reading'[d].ended \in Nat
    <3> TAKE d \in Calls
    <3>1. /\ Shaped(reading[d]) /\ Remembered(past[d]) /\ reading[d].began \in Nat
          /\ reading[d].began <= clock /\ reading[d].ended \in Nat
      BY <1>2 DEF ReadsTypes
    <3> QED
      BY <1>6, <1>7, <1>10, <3>1
  <2> QED
    BY <1>1, <1>2, <1>7, <2>1 DEF ReadsTypes
<1>12. \A j \in Calls : Wrote(j) /\ Overwritten(j) => Overwritten(j)'
  <2> SUFFICES ASSUME NEW j \in Calls, Wrote(j), Overwritten(j) PROVE Overwritten(j)'
    OBVIOUS
  <2>1. PICK k \in Calls : /\ Wrote(k) /\ reading[j].ended < reading[k].ended
                           /\ ContentKey(Asks(k)) = ContentKey(Asks(j))
    BY DEF Overwritten
  <2>2. j # c /\ k # c
    BY <1>4, <2>1
  <2> QED
    BY <1>7, <1>8, <2>1, <2>2 DEF Overwritten
<1>13. ASSUME NEW j \in Calls, Wrote(j) PROVE Kept(j)'
  <2>1. j # c /\ Kept(j) /\ reading[j].ended < clock /\ reading'[j] = reading[j]
    BY <1>4, <1>7, <1>10, <1>13 DEF ReadsInv, WritersKept
  <2>2. PICK s \in embeddings : /\ ContentKey(s) = ContentKey(Asks(j)) /\ s.dims = Asks(j).dims
                                /\ Overwritten(j) \/ s.at = reading[j].began
    BY <2>1 DEF Kept
  <2>3. PICK t \in embeddings' : /\ ContentKey(t) = ContentKey(s) /\ t.dims = s.dims
                                 /\ t = s \/ (ContentKey(s) = ContentKey(q) /\ result = "ok")
    BY <1>5, <2>2 DEF Replaced
  <2>4. ContentKey(s) = ContentKey(q) /\ result = "ok" => Overwritten(j)'
    <3> SUFFICES ASSUME ContentKey(s) = ContentKey(q), result = "ok" PROVE Overwritten(j)'
      OBVIOUS
    <3>1. Wrote(c)' /\ reading'[j].ended < reading'[c].ended
      BY <1>6, <1>7, <1>8, <2>1
    <3>2. ContentKey(Asks(c)') = ContentKey(Asks(j)')
      BY <1>8, <2>2
    <3> QED
      BY <3>1, <3>2 DEF Overwritten
  <2>5. Overwritten(j)' \/ t.at = reading'[j].began
    BY <1>12, <1>13, <2>1, <2>2, <2>3, <2>4
  <2> QED
    BY <1>8, <2>2, <2>3, <2>5 DEF Kept
<1>14. WritersKept'
  <2> SUFFICES ASSUME NEW j \in Calls
               PROVE  /\ Wrote(j)' => /\ ReadAt(j, "done")' /\ reading'[j].ended < clock'
                                      /\ Asks(j)'.dims \in 1..MaxDimensions /\ Kept(j)'
                      /\ Asks(j)' # Nil /\ Asks(j)'.kind = "upsert" /\ reading'[j].result = "policy" =>
                           \E t \in embeddings' : ContentKey(t) = ContentKey(Asks(j)') /\ t.dims # Asks(j)'.dims
    BY DEF WritersKept
  <2>1. CASE j = c
    <3>1. result = "ok" => Kept(c)'
      BY <1>5, <1>6, <1>7, <1>8 DEF Kept
    <3>2. ReadAt(c, "done")' /\ reading'[c].ended < clock'
      BY <1>1, <1>6, <1>7, <1>10 DEF ReadAt
    <3> QED
      BY <1>3, <1>5, <1>6, <1>7, <1>8, <2>1, <3>1, <3>2
  <2>2. CASE j # c
    <3>1. reading'[j] = reading[j] /\ (Wrote(j)' <=> Wrote(j))
      BY <1>7, <1>8, <2>2
    <3>2. Wrote(j) => ReadAt(j, "done") /\ Asks(j).dims \in 1..MaxDimensions /\ reading[j].ended < clock
      BY DEF ReadsInv, WritersKept
    <3>3. Wrote(j)' => /\ ReadAt(j, "done")' /\ reading'[j].ended < clock'
                       /\ Asks(j)'.dims \in 1..MaxDimensions /\ Kept(j)'
      <4> SUFFICES ASSUME Wrote(j)'
                   PROVE  /\ ReadAt(j, "done")' /\ reading'[j].ended < clock'
                          /\ Asks(j)'.dims \in 1..MaxDimensions /\ Kept(j)'
        OBVIOUS
      <4>1. Wrote(j)
        BY <3>1
      <4>2. ReadAt(j, "done") /\ Asks(j).dims \in 1..MaxDimensions /\ reading[j].ended < clock
        BY <3>2, <4>1
      <4>3. reading[j].ended \in Nat
        BY <1>2 DEF ReadsTypes
      <4>4. reading'[j].ended < clock'
        BY <1>1, <1>10, <3>1, <4>2, <4>3
      <4>5. Kept(j)'
        BY <1>13, <4>1
      <4> QED
        BY <1>8, <3>1, <4>2, <4>4, <4>5 DEF ReadAt
    <3>4. ASSUME Asks(j)' # Nil, Asks(j)'.kind = "upsert", reading'[j].result = "policy"
          PROVE  \E t \in embeddings' : ContentKey(t) = ContentKey(Asks(j)') /\ t.dims # Asks(j)'.dims
      <4>1. PICK s \in embeddings : ContentKey(s) = ContentKey(Asks(j)) /\ s.dims # Asks(j).dims
        BY <1>8, <3>1, <3>4 DEF ReadsInv, WritersKept
      <4>2. PICK t \in embeddings' : ContentKey(t) = ContentKey(s) /\ t.dims = s.dims
        BY <1>5, <4>1 DEF Replaced
      <4> QED
        BY <1>8, <4>1, <4>2
    <3> QED
      BY <3>3, <3>4
  <2> QED
    BY <2>1, <2>2
<1>15. ASSUME NEW d \in Calls \ {c} PROVE CallInv(d)'
  <2>1. CallInv(d) /\ reading'[d] = reading[d] /\ Moves(d)
    BY <1>1, <1>7 DEF ReadsInv, Moves
  <2>2. Follows(d)' /\ GoesBy(d)' /\ Told(d)'
    BY <2>1, FollowsOn, GoesByOn, ToldOn DEF CallInv
  <2>3. Since(d)'
    BY <1>1, <1>8, <2>1 DEF CallInv, Since, ReadAt, Underway
  <2>4. Searched(d)'
    <3>1. reading[d].began <= clock /\ reading[d].began \in Nat
      BY <1>2 DEF ReadsTypes
    <3>2. \A j \in Calls : \A e : Indexed(j, d, e)' => Indexed(j, d, e) /\ reading'[j].began = reading[j].began
      <4> SUFFICES ASSUME NEW j \in Calls, NEW e, Indexed(j, d, e)'
                   PROVE  Indexed(j, d, e) /\ reading'[j].began = reading[j].began
        OBVIOUS
      <4>1. reading'[j].ended < reading[d].began
        BY <2>1 DEF Indexed
      <4>2. j # c
        BY <1>6, <1>7, <1>10, <3>1, <4>1
      <4>3. reading'[j] = reading[j] /\ Wrote(j)
        BY <1>7, <1>8, <4>2 DEF Indexed
      <4> QED
        BY <1>8, <2>1, <4>1, <4>3 DEF Indexed
    <3>3. SearchTrue(d) => SearchTrue(d)'
      BY <1>12, <2>1, <3>2, SearchOn
    <3> QED
      BY <1>8, <2>1, <3>3 DEF Searched, CallInv, ReadAt
  <2> QED
    BY <2>2, <2>3, <2>4 DEF CallInv
<1>16. CallInv(c)'
  <2>1. \A s : ReadAt(c, s)' <=> s = "done"
    BY <1>6, <1>7 DEF ReadAt
  <2>2. Follows(c)'
    BY <1>2, <1>6, <1>7, <1>8 DEF Follows, Underway, ReadAt
  <2>3. Since(c)'
    BY <1>1, <1>2, <1>6, <1>7 DEF Since, ReadAt, Underway
  <2>4. GoesBy(c)'
    BY <1>6, <1>7, <2>1 DEF GoesBy
  <2>5. Told(c)' /\ Searched(c)'
    BY <1>3, <1>8 DEF Told, Searched
  <2> QED
    BY <2>2, <2>3, <2>4, <2>5 DEF CallInv
<1> QED
  BY <1>9, <1>11, <1>14, <1>15, <1>16 DEF ReadsInv
-------------------------------------------------------------------------------
(* The theorem.                                                            *)

\* The invariant holds at first.
LEMMA ReadsBegin ==
  ASSUME ReadsAssumption, ReadInit
  PROVE  ReadsInv
<1>1. PICK asked \in Questions : ReadStart(asked[1], asked[2])
  BY DEF ReadInit
<1>2. /\ live = Entities /\ public = FirstPublic /\ yanked = {} /\ member = FirstMembers
      /\ embeddings = {} /\ clock = 1 /\ question = asked[1]
      /\ reading = [c \in Calls |-> Waiting]
      /\ past = [c \in Calls |->
                   [live |-> {}, public |-> {}, yanked |-> {}, ever |-> {}, always |-> {}]]
  BY <1>1 DEF ReadStart
<1>3. \A c \in Calls : /\ reading[c] = Waiting
                       /\ past[c] = [live |-> {}, public |-> {}, yanked |-> {}, ever |-> {}, always |-> {}]
  BY <1>2
<1>4. /\ Shaped(Waiting) /\ Waiting.stage = "idle" /\ Waiting.result = Nil /\ Waiting.answer = {}
      /\ Waiting.orgs = {} /\ Waiting.began = 0 /\ Waiting.ended = 0
  BY DEF Waiting, Shaped, Fields
<1>5. ReadsTypes
  <2>1. \A c \in Calls : /\ Shaped(reading[c]) /\ Remembered(past[c])
                         /\ reading[c].began \in Nat /\ reading[c].began <= clock
                         /\ reading[c].ended \in Nat
    BY <1>2, <1>3, <1>4 DEF Remembered
  <2>2. question = [c \in Calls |-> question[c]] /\ \A c \in Calls : question[c] # Nil => Askable(question[c])
    BY <1>2 DEF ReadsAssumption
  <2>3. member \in [Viewers -> SUBSET Of({"org", "project"})]
    BY <1>2 DEF ReadsAssumption
  <2>4. reading = [c \in Calls |-> reading[c]] /\ past = [c \in Calls |-> past[c]]
    BY <1>2
  <2> QED
    BY <1>2, <2>1, <2>2, <2>3, <2>4 DEF ReadsTypes
<1>6. RowsKept
  BY <1>2, FS_EmptySet DEF RowsKept
<1>7. WritersKept
  BY <1>3, <1>4 DEF WritersKept, Wrote, ReadsAssumption
<1>8. \A c \in Calls : CallInv(c)
  BY <1>3, <1>4 DEF CallInv, Follows, Since, GoesBy, Told, Searched, Underway, ReadAt
<1> QED
  BY <1>5, <1>6, <1>7, <1>8 DEF ReadsInv

\* Nothing is known of a step in which nothing happens but what was.
LEMMA Still ==
  ASSUME ReadsInv,
         UNCHANGED <<live, public, member, yanked, embeddings, clock, question, reading, past>>
  PROVE  ReadsInv'
<1>1. \A c : /\ Asks(c)' = Asks(c) /\ Mine(c)' = Mine(c) /\ (Underway(c)' <=> Underway(c))
             /\ (Wrote(c)' <=> Wrote(c)) /\ (Overwritten(c)' <=> Overwritten(c))
             /\ \A s : ReadAt(c, s)' <=> ReadAt(c, s)
  BY DEF Asks, Mine, Underway, Wrote, Overwritten, ReadAt
<1>2. ReadsTypes' /\ RowsKept' /\ WritersKept'
  <2>1. \A j : Kept(j)' <=> Kept(j)
    BY <1>1 DEF Kept
  <2> QED
    BY <1>1, <2>1 DEF ReadsInv, ReadsTypes, RowsKept, WritersKept
<1>3. ASSUME NEW c \in Calls PROVE CallInv(c)'
  <2>1. CallInv(c) /\ Moves(c)
    BY DEF ReadsInv, Moves
  <2>2. Follows(c)' /\ GoesBy(c)' /\ Told(c)'
    BY <2>1, FollowsOn, GoesByOn, ToldOn DEF CallInv
  <2>3. Since(c)'
    BY <1>1, <2>1 DEF CallInv, Since
  <2>4. \A j, e : Indexed(j, c, e)' <=> Indexed(j, c, e)
    BY <1>1 DEF Indexed
  <2>5. SearchTrue(c) => SearchTrue(c)'
    BY <1>1, <2>1, <2>4, SearchOn
  <2>6. Searched(c)'
    BY <1>1, <2>1, <2>5 DEF CallInv, Searched
  <2> QED
    BY <2>2, <2>3, <2>6 DEF CallInv
<1> QED
  BY <1>2, <1>3 DEF ReadsInv

\* Every step keeps the invariant.
LEMMA ReadsStep ==
  ASSUME ReadsAssumption, ReadsInv, [ReadNext]_readVars
  PROVE  ReadsInv'
<1>1. /\ member \in [Viewers -> SUBSET Of({"org", "project"})]
  BY DEF ReadsInv, ReadsTypes
<1>2. ASSUME NEW c \in Calls, ReadStep(c) PROVE ReadsInv'
  BY <1>2, BeginKeeps, OrgsForUserKeeps, ProjectsForUserKeeps, OrgBySlugKeeps, OrgRoleKeeps,
     ListOrgKeeps, ExactVersionsKeeps, NamedKeeps, ReferencesKeeps, ReadRoleKeeps, DecideKeeps,
     SearchRegistryKeeps, SearchPackagesKeeps, SemanticSearchKeeps, UpsertKeeps
  DEF ReadStep
<1>3. ASSUME NEW u \in Viewers, NEW t \in Of({"org", "project"}), BecomeMember(u, t) PROVE ReadsInv'
  <2>1. [member EXCEPT ![u] = @ \cup {t}] \in [Viewers -> SUBSET Of({"org", "project"})]
    BY <1>1
  <2> QED
    BY <1>3, <2>1, WriteKeeps DEF BecomeMember
<1>4. ASSUME NEW u \in Viewers, NEW t \in Of({"org", "project"}), EndMembership(u, t) PROVE ReadsInv'
  <2>1. [member EXCEPT ![u] = @ \ {t}] \in [Viewers -> SUBSET Of({"org", "project"})]
    BY <1>1
  <2> QED
    BY <1>4, <2>1, WriteKeeps DEF EndMembership
<1>5. ASSUME NEW e, SoftDelete(e) PROVE ReadsInv'
  BY <1>1, <1>5, WriteKeeps DEF SoftDelete
<1>6. ASSUME NEW p, MakePublic(p) PROVE ReadsInv'
  BY <1>1, <1>6, WriteKeeps DEF MakePublic
<1>7. ASSUME NEW v, Yank(v) PROVE ReadsInv'
  BY <1>1, <1>7, WriteKeeps DEF Yank
<1>8. CASE UNCHANGED readVars
  <2>1. UNCHANGED <<live, public, member, yanked, embeddings, clock, question, reading, past>>
    BY <1>8 DEF readVars, registryRows
  <2> QED
    BY <2>1, Still
<1> QED
  BY <1>2, <1>3, <1>4, <1>5, <1>6, <1>7, <1>8 DEF ReadNext

\* The invariant says what a call may be told.
LEMMA ReadsSay ==
  ASSUME ReadsAssumption, ReadsInv
  PROVE  ReadsTrue
<1> SUFFICES ASSUME NEW c \in Calls, ReadAt(c, "done")
             PROVE  /\ Asks(c).kind \in {"projects", "browse", "search", "packages"} => ListingTrue(c)
                    /\ Asks(c).kind = "current" => CurrentTrue(c)
                    /\ Asks(c).kind \in {"find", "digest"} => GateTrue(c)
                    /\ Asks(c).kind = "semantic" => SearchTrue(c)
                    /\ Asks(c).kind = "upsert" => UpsertTrue(c)
  BY DEF ReadsTrue
<1>1. Told(c) /\ Searched(c) /\ Asks(c) # Nil
  BY DEF ReadsInv, CallInv, Follows, ReadAt
<1>2. ASSUME Asks(c).kind = "upsert" PROVE UpsertTrue(c)
  <2> DEFINE same == {r \in embeddings : ContentKey(r) = ContentKey(Asks(c))}
  <2>1. Cardinality(same) <= 1
    <3>1. \A r, s \in same : r = s
      BY DEF ReadsInv, RowsKept
    <3>2. same = {} \/ \E r : same = {r}
      BY <3>1
    <3>3. Cardinality({}) = 0 /\ \A r : Cardinality({r}) = 1
      BY FS_EmptySet, FS_Singleton
    <3> HIDE DEF same
    <3>4. Cardinality(same) = 0 \/ Cardinality(same) = 1
      BY <3>2, <3>3
    <3> QED
      BY <3>4
  <2>2. reading[c].result = "ok" => \E r \in same : r.dims = Asks(c).dims
    BY <1>1, <1>2 DEF ReadsInv, WritersKept, Wrote, Kept
  <2>3. reading[c].result = "policy" => \E r \in same : r.dims # Asks(c).dims
    BY <1>1, <1>2 DEF ReadsInv, WritersKept
  <2> QED
    BY <2>1, <2>2, <2>3 DEF UpsertTrue
<1> QED
  BY <1>1, <1>2 DEF Told, Searched

\* However what is read changes between the statements of a call, its answer is one that
\* the registry's rules allow for the time it took.
THEOREM ReadsHold == ASSUME ReadsAssumption PROVE ReadSpec => []ReadsTrue
<1>1. ReadInit => ReadsInv
  BY ReadsBegin
<1>2. ReadsInv /\ [ReadNext]_readVars => ReadsInv'
  BY ReadsStep
<1>3. ReadsInv => ReadsTrue
  BY ReadsSay
<1> QED
  BY <1>1, <1>2, <1>3, PTL DEF ReadSpec
===============================================================================

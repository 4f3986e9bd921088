----------------------------- MODULE GraphPersist -----------------------------
(* Dependency graph artifacts: persist_dependency_graph and the reads of        *)
(* registry/graphs.rs over the tables and triggers of registry.sql. A writer is  *)
(* one transaction, a step one of its statements (READ COMMITTED); the           *)
(* insertion, the edge index, the seal and the commit are one step, since no     *)
(* other transaction sees between them. A digest stands for the document it is   *)
(* verified against.                                                             *)
EXTENDS GraphAnalysis

CONSTANTS
  Writers, GraphReaders,  \* transactions and readers: numbers
  Nothing,
  VersionIds, PackageIds, \* rows of zed_package_versions and zed_packages
  PackageOf, Owner,       \* the package of a version, the organization of a package
  Public,                 \* the public packages
  Requests,               \* what the writers and readers ask: a set of functions
  Leftover,               \* artifacts of the preview schema, which has no seal
  PageLimit,              \* GRAPH_EDGE_PAGE_LIMIT
  MaxRemovals             \* bound: rows deleted or packages retired

VARIABLES
  stored,     \* the versions and packages that exist
  retired,    \* the packages that are soft-deleted
  artifacts,  \* the committed artifacts, with their edge index
  removals,
  asks,       \* what each writer and reader asks
  writer, reader

graphVars == <<stored, retired, artifacts, removals, asks, writer, reader>>

Kind(doc) == doc.view
Twins(a, b) ==   \* the unique indexes: the digest, and the root of a declared graph
  a.doc = b.doc \/ (a.root = b.root /\ Kind(a.doc) = "declared" /\ Kind(b.doc) = "declared")

\* What registry.sql demands of rows older than it, and the references of its tables.
ASSUME GraphAssumption ==
  /\ VersionIds \cap PackageIds = {} /\ PackageOf \in [VersionIds -> PackageIds]
  /\ \A a \in Leftover : ~a.sealed /\ a.root \in VersionIds
  /\ \A a, b \in Leftover : a # b => ~Twins(a, b)
  /\ \A asked \in Requests, w \in Writers :
       asked[w] # Nothing => asked[w].root \in VersionIds /\ IsDocument(asked[w].doc)

\* found holds the artifact a transaction or a reader goes by, if any.
Doing(stage, found, result) == [stage |-> stage, found |-> found, result |-> result]
Resting == Doing("idle", {}, Nothing)

GraphStart(asked) ==
  /\ stored = VersionIds \cup PackageIds
  /\ retired = {}
  /\ artifacts = Leftover
  /\ removals = 0
  /\ asks = asked
  /\ writer = [w \in Writers |-> Resting]
  /\ reader = [r \in GraphReaders |-> Resting]

GraphInit == \E asked \in Requests : GraphStart(asked)
-------------------------------------------------------------------------------
InStage(w, stage) == writer[w].stage = stage

\* The two advisory locks, in the order they are taken; the end of the transaction
\* releases them.
DigestKey(doc) == <<"digest", doc>>
RootKey(version) == <<"root", version>>
Working == {"identity", "links", "find", "replay", "declared", "insert"}
Held(w) ==
  (IF writer[w].stage \in Working \cup {"root"} THEN {DigestKey(asks[w].doc)} ELSE {})
  \cup (IF writer[w].stage \in Working THEN {RootKey(asks[w].root)} ELSE {})
Wanted(w) ==
  (IF InStage(w, "digest") THEN {DigestKey(asks[w].doc)} ELSE {})
  \cup (IF InStage(w, "root") THEN {RootKey(asks[w].root)} ELSE {})

\* lock_graph_key waits for the transaction that has the key.
Free(key) == \A v \in Writers : key \notin Held(v)

Proceed(w, next) ==
  /\ writer' = [writer EXCEPT ![w] = next]
  /\ UNCHANGED <<stored, retired, artifacts, removals, asks, reader>>
GoTo(w, stage) == Proceed(w, Doing(stage, {}, Nothing))
Over(w, result) == Proceed(w, Doing("done", {}, result))
Refusal(w) == Over(w, "policy")

Validate(w) ==
  /\ InStage(w, "idle") /\ asks[w] # Nothing
  /\ \/ ~Valid(asks[w].doc, asks[w].claim) /\ Refusal(w)
     \/ Valid(asks[w].doc, asks[w].claim) /\ GoTo(w, "digest")

\* Slip: the root is not locked.
LockRootNot(w) == InStage(w, "root") /\ GoTo(w, "identity")

LockDigest(w) == InStage(w, "digest") /\ Free(DigestKey(asks[w].doc)) /\ GoTo(w, "root")
LockRoot(w) == InStage(w, "root") /\ Free(RootKey(asks[w].root)) /\ GoTo(w, "identity")

\* A failed statement, a lost connection or a dropped future rolls back.
Abandon(w) == writer[w].stage \notin {"idle", "done"} /\ Over(w, "failed")

\* The root version exists, its package is active, and it is the document's root.
Active(version) == version \in stored /\ PackageOf[version] \in stored \ retired
Identity(w) ==
  /\ InStage(w, "identity")
  /\ LET r == asks[w] IN
       \/ ~Active(r.root) /\ Over(w, "not_found")
       \/ Active(r.root) /\ r.root # Root(r.doc) /\ Refusal(w)
       \/ Active(r.root) /\ r.root = Root(r.doc) /\ GoTo(w, "links")

\* validate_edge_links: an end that is linked is linked to the active package it
\* names, and to its version where the document has one.
PackageRow(id) == IF id \in VersionIds THEN PackageOf[id] ELSE id
LinksHold(links) ==
  \A id \in links : {id, PackageRow(id)} \subseteq stored /\ PackageRow(id) \notin retired

CheckLinks(w) ==
  /\ InStage(w, "links")
  /\ \/ ~LinksHold(asks[w].links) /\ Refusal(w)
     \/ LinksHold(asks[w].links) /\ GoTo(w, "find")

SameDigest(doc) == {a \in artifacts : a.doc = doc}
DeclaredOf(version) == {a \in artifacts : a.root = version /\ Kind(a.doc) = "declared"}

FindDigest(w) ==
  /\ InStage(w, "find")
  /\ LET doc == asks[w].doc  same == SameDigest(doc) IN
       \/ (\E a \in same : ~a.sealed) /\ Refusal(w)
       \/ \E a \in same : a.sealed /\ Proceed(w, Doing("replay", {a}, Nothing))
       \/ same = {} /\ GoTo(w, IF Kind(doc) = "declared" THEN "declared" ELSE "insert")

\* load_edges is a statement of its own: the cascade may have taken the edges.
EdgesOf(a) == IF a \in artifacts THEN a.edges ELSE <<>>

\* require_exact_replay: the columns, then the edge index, with its links.
Exact(r, a) ==
  /\ a.root = r.root /\ a.evidence = r.evidence
  /\ EdgesOf(a) = r.claim.edges
  /\ r.claim.edges # <<>> => a.links = r.links
Replay(w) ==
  /\ InStage(w, "replay")
  /\ \E a \in writer[w].found :
       \/ ~Exact(asks[w], a) /\ Refusal(w)
       \/ Exact(asks[w], a) /\ Proceed(w, Doing("done", {a}, "replayed"))

FindDeclared(w) ==
  /\ InStage(w, "declared")
  /\ \/ DeclaredOf(asks[w].root) # {} /\ Refusal(w)
     \/ DeclaredOf(asks[w].root) = {} /\ GoTo(w, "insert")

\* The foreign keys and the unique indexes of the two tables.
Admitted(r) ==
  /\ r.root \in stored /\ r.links \subseteq stored
  /\ SameDigest(r.doc) = {}
  /\ Kind(r.doc) = "declared" => DeclaredOf(r.root) = {}

Artifact(w, born, r) ==
  [id |-> w, born |-> born, doc |-> r.doc, root |-> r.root, evidence |-> r.evidence,
   links |-> r.links, nodes |-> r.claim.nodes, depth |-> r.claim.depth,
   cycles |-> r.claim.cycles, edges |-> r.claim.edges, sealed |-> TRUE]

InsertArtifact(w) ==
  /\ InStage(w, "insert")
  /\ \/ ~Admitted(asks[w]) /\ Over(w, "conflict")
     \/ /\ Admitted(asks[w])
        /\ LET a == Artifact(w, Cardinality(artifacts), asks[w]) IN
             /\ artifacts' = artifacts \cup {a}
             /\ writer' = [writer EXCEPT ![w] = Doing("done", {a}, "inserted")]
        /\ UNCHANGED <<stored, retired, removals, asks, reader>>
-------------------------------------------------------------------------------
\* What happens to the rows the graphs refer to. A root takes its artifacts with it;
\* an edge of a sealed artifact cannot be changed, so its link is never set to null
\* and the row it names cannot go.
Gone(id) == {id} \cup {v \in VersionIds \cap stored : PackageOf[v] = id}

Delete(id) ==
  /\ removals < MaxRemovals /\ id \in stored
  /\ LET left == {a \in artifacts : a.root \notin Gone(id)} IN
       /\ \A a \in left : a.sealed => a.links \cap Gone(id) = {}
       /\ artifacts' = left
  /\ stored' = stored \ Gone(id)
  /\ removals' = removals + 1
  /\ UNCHANGED <<retired, asks, writer, reader>>

Retire(p) ==
  /\ removals < MaxRemovals /\ p \in stored \ retired
  /\ retired' = retired \cup {p}
  /\ removals' = removals + 1
  /\ UNCHANGED <<stored, artifacts, asks, writer, reader>>
-------------------------------------------------------------------------------
\* Readers ask [by, orgs] with the digest, the root and kind, or the package.
Shown(a, orgs) == PackageOf[a.root] \in Public \/ Owner[PackageOf[a.root]] \in orgs
Visible(a, orgs) == a.sealed /\ PackageOf[a.root] \notin retired /\ Shown(a, orgs)

Matching(q) ==
  {a \in artifacts : /\ Visible(a, q.orgs)
                     /\ CASE q.by = "digest" -> a.doc = q.doc
                          [] q.by = "latest" -> a.root = q.root /\ Kind(a.doc) = q.kind}

\* ORDER BY created_at DESC, id DESC.
Newest(S) == {a \in S : \A b \in S \ {a} : b.born < a.born \/ (b.born = a.born /\ b.id < a.id)}

ReaderGoes(r, next) ==
  /\ reader' = [reader EXCEPT ![r] = next]
  /\ UNCHANGED <<stored, retired, artifacts, removals, asks, writer>>
Asking(r, kinds) == reader[r].stage = "idle" /\ asks[r] # Nothing /\ asks[r].by \in kinds

FindArtifact(r) ==
  /\ Asking(r, {"digest", "latest"})
  /\ LET newest == Newest(Matching(asks[r])) IN
       \/ newest = {} /\ ReaderGoes(r, Doing("done", {}, {}))
       \/ \E a \in newest : ReaderGoes(r, Doing("edges", {a}, Nothing))

\* load_snapshot reads the edges in a second statement, outside any transaction.
LoadSnapshot(r) ==
  /\ reader[r].stage = "edges"
  /\ \E a \in reader[r].found : ReaderGoes(r, Doing("done", {a}, EdgesOf(a)))

\* incoming_dependency_edges: by depth, artifact and ordinal, one page and no more.
Hits(q) ==
  UNION {{<<a.edges[i].depth, a.id, i>> : i \in {j \in DOMAIN a.edges :
            CASE q.by = "incoming" -> PackageRow(a.edges[j].to) = q.package
              [] q.by = "outgoing" -> PackageRow(a.edges[j].from) = q.package}} :
         a \in {b \in artifacts : Visible(b, q.orgs)}}

Precedes(x, y) ==
  \/ x[1] < y[1]
  \/ x[1] = y[1] /\ x[2] < y[2]
  \/ x[1] = y[1] /\ x[2] = y[2] /\ x[3] < y[3]

Page(hits, limit) == {x \in hits : Cardinality({y \in hits : Precedes(y, x)}) < limit}

ReadEdges(r) ==
  /\ Asking(r, {"incoming", "outgoing"})
  /\ LET limit == IF asks[r].limit < PageLimit THEN asks[r].limit ELSE PageLimit IN
       ReaderGoes(r, Doing("done", {}, Page(Hits(asks[r]), limit)))
-------------------------------------------------------------------------------
WriterStep(w) ==
  \/ Validate(w) \/ LockDigest(w) \/ LockRoot(w) \/ Identity(w) \/ CheckLinks(w) \/ FindDigest(w)
  \/ Replay(w) \/ FindDeclared(w) \/ InsertArtifact(w)

GraphNext ==
  \/ \E w \in Writers : WriterStep(w) \/ Abandon(w)
  \/ \E r \in GraphReaders : FindArtifact(r) \/ LoadSnapshot(r) \/ ReadEdges(r)
  \/ \E id \in VersionIds \cup PackageIds : Delete(id)
  \/ \E p \in PackageIds : Retire(p)

GraphSpec == GraphInit /\ [][GraphNext]_graphVars
-------------------------------------------------------------------------------
\* What readers can find says exactly what its document means, edge by edge, though
\* the columns and the index come from the caller; its links name rows that exist;
\* and no digest, and no root's declaration, is stored twice.
SealedExact ==
  /\ \A a \in artifacts : a.sealed =>
       /\ Connected(a.doc) /\ Root(a.doc) = a.root
       /\ [nodes |-> a.nodes, depth |-> a.depth, cycles |-> a.cycles, edges |-> a.edges]
            = Meaning(a.doc)
       /\ {a.root, PackageOf[a.root]} \cup a.links \subseteq stored
  /\ \A a, b \in artifacts : a # b => ~Twins(a, b)

\* Why a request may be refused: it is not true of its document, or at odds with the
\* rows or with an artifact that is there.
Truthful(r) == Connected(r.doc) /\ r.claim = Meaning(r.doc)
AtOdds(r, a) ==
  \/ a.doc = r.doc /\ (~a.sealed \/ a.root # r.root \/ a.evidence # r.evidence \/ a.links # r.links)
  \/ a.doc # r.doc /\ Twins(a, r)
MayRefuse(r) ==
  \/ ~Truthful(r) \/ Root(r.doc) # r.root \/ ~LinksHold(r.links)
  \/ \E a \in artifacts : AtOdds(r, a)

Waits(v, w) == v # w /\ Wanted(v) \cap Held(w) # {}

\* No writers wait for each other in a circle.
NoCircle == \A S \in SUBSET Writers : S # {} => \E v \in S : \A w \in S : ~Waits(v, w)

\* An accepted request is answered with the one artifact of its digest, there until its
\* root goes; the indexes refuse nothing the advisory locks let through, unless a row
\* went; and a refusal has a cause.
Served(w, a) ==
  /\ a.doc = asks[w].doc /\ a.evidence = asks[w].evidence
  /\ a.root \in stored => a \in artifacts
  /\ writer[w].result = "inserted" <=> a.id = w
WriterTrue(w) ==
  LET r == asks[w]  result == writer[w].result IN
  InStage(w, "done") =>
    /\ result \in {"inserted", "replayed"} => \E a \in writer[w].found : Served(w, a)
    /\ result = "conflict" => ~({r.root} \cup r.links \subseteq stored)
    /\ result = "not_found" => ~Active(r.root)
    /\ result = "policy" => MayRefuse(r) \/ removals > 0

\* A snapshot is complete, and an edge is there, for those the root is visible to.
ReaderTrue(r) ==
  reader[r].stage = "done" =>
    /\ \A a \in reader[r].found :
         /\ a.sealed /\ Shown(a, asks[r].orgs)
         /\ a.root \in stored => reader[r].result = Meaning(a.doc).edges
    /\ reader[r].found = {} /\ removals = 0 =>
         \A hit \in reader[r].result :
           \E b \in artifacts : b.id = hit[2] /\ Shown(b, asks[r].orgs)

\* However transactions, removals and readers interleave, what they are told is true
\* of what is stored, and none of them waits for ever.
GraphAnswersTrue ==
  /\ NoCircle
  /\ \A w \in Writers : WriterTrue(w)
  /\ \A r \in GraphReaders : ReaderTrue(r)
===============================================================================

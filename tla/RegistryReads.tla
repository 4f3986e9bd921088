---------------------------- MODULE RegistryReads ----------------------------
(* The reads of the registry (read.rs, version_reads.rs, registry/search.rs) and *)
(* the upsert of embeddings. A call is what the web tier or an indexer does for  *)
(* one request, in the order the comments of read.rs ask for: first what the     *)
(* viewer belongs to, then the rows this lets him see. A step is one statement,  *)
(* and none shares a transaction with another: others write in between.          *)
EXTENDS Integers, FiniteSets

CONSTANTS
  Calls, Viewers, Entities, Nil,
  TypeOf,         \* "org", "project", "package" or "package_version"
  ParentOf,       \* the organization of a project or package, the package of a version
  ProjectOf,      \* the project a package is filed under, or Nil
  ShaOf,          \* the artifact of a version
  NumberOf,       \* its version number
  Order,          \* how a listing orders entities: each has a place of its own
  Questions,      \* what is asked, a function of Calls, and the writes of others meanwhile
  FirstMembers, FirstPublic,
  PageRows,       \* PAGE_LIMIT
  ReferenceLimit, \* ARTIFACT_REFERENCE_LIMIT
  MaxDimensions   \* MAX_EMBEDDING_DIMENSIONS

VARIABLES
  live, public,   \* the rows that are not soft-deleted, the packages and projects shown to all
  member,         \* the organizations and projects of each viewer
  yanked,
  embeddings,     \* zed_entity_embeddings
  clock,
  writes,         \* bound: how often others still write
  question,       \* what each call asks
  reading,        \* how far each call is
  past            \* history: the registry as a call began, and its viewer's memberships since

registryRows == <<live, public, member, yanked, writes>>
readVars == <<registryRows, embeddings, clock, question, reading, past>>

Of(types) == {e \in Entities : TypeOf[e] \in types}
Versioned == {"package", "package_version"}
\* The row that is public or deleted for an entity, its organization, and the
\* memberships that let someone see it.
Bearer(e) == IF TypeOf[e] = "package_version" THEN ParentOf[e] ELSE e
Home(e) == IF TypeOf[e] = "org" THEN e ELSE ParentOf[Bearer(e)]
Scopes(e) ==
  {Home(e)} \cup (CASE TypeOf[e] = "org" -> {}
                    [] TypeOf[e] = "project" -> {e}
                    [] TypeOf[e] \in Versioned -> {ProjectOf[Bearer(e)]} \ {Nil})

\* What may be asked.
Askable(q) ==
  /\ q.kind \in {"projects", "browse", "current", "find", "digest", "search", "packages",
                 "semantic", "upsert"}
  /\ q.user \in Viewers \cup {Nil}
  /\ q.kind \in {"browse", "current", "find"} => q.org \in Of({"org"})
  /\ q.kind = "browse" => q.type \in {"project", "package"}
  /\ q.kind = "current" => q.type = "package"
  /\ q.kind = "find" => q.entity \in Of({"project", "package"}) /\ ParentOf[q.entity] = q.org
  /\ q.kind \in {"search", "packages"} => q.matches \subseteq Entities
  /\ q.kind \in {"search", "packages", "semantic"} => q.limit \in Nat
  /\ q.kind = "upsert" => q.user = Nil /\ q.entity \in Entities /\ q.vector \in Int

\* Everything has an organization, a version has its package and number, and listings
\* have no ties. The identifiers of embeddings are those of the calls that insert them.
ReadsAssumption ==
  /\ Calls \subseteq Nat /\ IsFiniteSet(Entities) /\ Nil \notin {"ok", "policy"}
  /\ TypeOf \in [Entities -> {"org", "project", "package", "package_version"}]
  /\ \A e \in Of({"project", "package"}) : ParentOf[e] \in Of({"org"})
  /\ \A e \in Of({"package_version"}) : ParentOf[e] \in Of({"package"})
  /\ \A e \in Of({"package"}) : ProjectOf[e] \in Of({"project"}) \cup {Nil}
  /\ \A e, f \in Of({"package_version"}) :
       ParentOf[e] = ParentOf[f] /\ NumberOf[e] = NumberOf[f] => e = f
  /\ Order \in [Entities -> Nat] /\ \A e, f \in Entities : Order[e] = Order[f] => e = f
  /\ FirstMembers \in [Viewers -> SUBSET Of({"org", "project"})] /\ FirstPublic \subseteq Entities
  /\ \A q \in Questions : /\ q[1] = [c \in Calls |-> q[1][c]] /\ q[2] \in Nat
                           /\ \A c \in Calls : q[1][c] # Nil => Askable(q[1][c])
  /\ PageRows \in Nat \ {0} /\ ReferenceLimit \in Nat /\ MaxDimensions \in Nat

\* ORDER BY ... LIMIT n.
Top(S, n) == {e \in S : Cardinality({x \in S : Order[x] < Order[e]}) < n}

Waiting == [stage |-> "idle", orgs |-> {}, todo |-> {}, found |-> {}, open |-> {},
            answer |-> {}, result |-> Nil, began |-> 0, ended |-> 0]
Snapshot(mine) == [live |-> live, public |-> public, yanked |-> yanked, ever |-> mine,
                   always |-> mine]

ReadStart(asked, others) ==
  /\ live = Entities /\ public = FirstPublic /\ yanked = {}
  /\ member = FirstMembers
  /\ embeddings = {}
  /\ clock = 1 /\ writes = others
  /\ question = asked
  /\ reading = [c \in Calls |-> Waiting]
  /\ past = [c \in Calls |->
               [live |-> {}, public |-> {}, yanked |-> {}, ever |-> {}, always |-> {}]]

ReadInit == \E q \in Questions : ReadStart(q[1], q[2])
-------------------------------------------------------------------------------
ReadAt(c, stage) == reading[c].stage = stage
Asks(c) == question[c]
Mine(c) == IF Asks(c).user = Nil THEN {} ELSE member[Asks(c).user]

Go(c, next) ==
  /\ reading' = [reading EXCEPT ![c] = next]
  /\ UNCHANGED <<registryRows, embeddings, clock, question, past>>
Finish(c, result, answer) ==
  Go(c, [reading[c] EXCEPT !.stage = "done", !.result = result, !.answer = answer])

FirstStatement(q) ==
  CASE q.kind \in {"browse", "current", "find"} -> "org"
    [] q.kind \in {"search", "semantic"} -> "orgs"
    [] q.kind = "packages" -> IF q.user = Nil THEN "packages" ELSE "orgs"  \* recent_public_packages
    [] q.kind \notin {"browse", "current", "find", "search", "semantic", "packages"} -> q.kind

\* A call begins; an embedding is checked before any statement.
BeginRead(c) ==
  /\ ReadAt(c, "idle") /\ Asks(c) # Nil
  /\ LET refused == /\ Asks(c).kind \in {"semantic", "upsert"}
                    /\ Asks(c).dims \notin 1..MaxDimensions IN
       reading' = [reading EXCEPT ![c].stage = IF refused THEN "done" ELSE FirstStatement(Asks(c)),
                                  ![c].result = IF refused THEN "invalid" ELSE Nil,
                                  ![c].began = clock]
  /\ past' = [past EXCEPT ![c] = Snapshot(Mine(c))]
  /\ UNCHANGED <<registryRows, embeddings, clock, question>>

\* orgs_for_user, whose answer the searches are given.
OrgsForUser(c) ==
  /\ ReadAt(c, "orgs")
  /\ Go(c, [reading[c] EXCEPT !.orgs = Top(Of({"org"}) \cap live \cap Mine(c), PageRows),
                              !.stage = Asks(c).kind])

\* projects_for_user: those he is a direct member of.
ProjectsForUser(c) ==
  /\ ReadAt(c, "projects")
  /\ Finish(c, "shown", Top(Of({"project"}) \cap live \cap Mine(c), PageRows))

OrgBySlug(c) ==
  /\ ReadAt(c, "org")
  /\ \/ Asks(c).org \notin live /\ Finish(c, "hidden", {})
     \/ /\ Asks(c).org \in live
        /\ Go(c, [reading[c] EXCEPT !.stage = IF Asks(c).kind = "find" THEN "named" ELSE "role"])

\* org_role_for_user: include_private is whether there is one.
OrgRole(c) ==
  /\ ReadAt(c, "role")
  /\ Go(c, [reading[c] EXCEPT !.orgs = {Asks(c).org} \cap Mine(c), !.stage = "rows"])

\* The rollup's latest_version.
Releases(p) == {v \in Of({"package_version"}) : ParentOf[v] = p}
LatestOf(p, gone) ==
  {v \in Releases(p) \ gone : \A w \in Releases(p) \ gone : Order[w] <= Order[v]}
Coordinate(v) == <<ParentOf[v], NumberOf[v]>>

\* projects_for_org and packages_for_org, whose rows carry latest_version.
ListOrg(c) ==
  /\ ReadAt(c, "rows")
  /\ LET q == Asks(c)
         rows == Top({e \in Of({q.type}) \cap live :
                        ParentOf[e] = q.org /\ (e \in public \/ reading[c].orgs # {})}, PageRows) IN
       \/ q.kind = "browse" /\ Finish(c, "shown", rows)
       \/ /\ q.kind = "current"
          /\ Go(c, [reading[c] EXCEPT !.stage = "exact",
                      !.found = {Coordinate(v) : v \in UNION {LatestOf(p, yanked) : p \in rows}}])

\* exact_unyanked_package_versions.
ExactVersions(c) ==
  /\ ReadAt(c, "exact")
  /\ Finish(c, "shown", Top({v \in Of({"package_version"}) \ yanked :
                               Coordinate(v) \in reading[c].found}, PageRows))

\* What is found, with its visibility; its roles are read next, one at a time.
Found(c, rows) ==
  Go(c, [reading[c] EXCEPT !.stage = "roles", !.found = rows, !.open = rows \cap public,
                           !.todo = UNION {Scopes(p) : p \in rows}])

\* package_by_org_and_name, after its organization; project_by_org_and_slug.
Named(c) == ReadAt(c, "named") /\ Found(c, {Asks(c).entity} \cap live)

\* packages_for_artifact_sha256: one row for each version, and one row too many to see
\* that there are more.
References(c) ==
  /\ ReadAt(c, "digest")
  /\ LET rows == {v \in Of({"package_version"}) : ShaOf[v] = Asks(c).sha /\ ParentOf[v] \in live} IN
       \/ Cardinality(rows) > ReferenceLimit /\ Finish(c, "policy", {})
       \/ Cardinality(rows) <= ReferenceLimit /\ Found(c, {ParentOf[v] : v \in rows})

\* org_role_for_user and project_role_for_user.
ReadRole(c) ==
  /\ ReadAt(c, "roles")
  /\ \E t \in reading[c].todo :
       Go(c, [reading[c] EXCEPT !.todo = @ \ {t}, !.orgs = @ \cup ({t} \cap Mine(c))])

\* One public reference, or membership around one of them, is enough.
Decide(c) ==
  /\ ReadAt(c, "roles") /\ reading[c].todo = {}
  /\ Finish(c, IF reading[c].open # {} \/ reading[c].orgs # {} THEN "granted" ELSE "hidden", {})
-------------------------------------------------------------------------------
\* TEXT_SEARCH_SQL and SEMANTIC_SEARCH_SQL resolve visibility alike.
VisibleTo(e, orgs) ==
  /\ {Bearer(e), Home(e)} \subseteq live
  /\ (TypeOf[e] \in Versioned /\ Bearer(e) \in public) \/ Home(e) \in orgs

Clamp(limit) == IF limit < 1 THEN 1 ELSE IF limit > PageRows THEN PageRows ELSE limit
AtMost(limit) == IF limit > PageRows THEN PageRows ELSE limit

SearchRegistry(c) ==
  /\ ReadAt(c, "search")
  /\ Finish(c, "shown", Top({e \in Asks(c).matches : VisibleTo(e, reading[c].orgs)},
                            Clamp(Asks(c).limit)))

\* search_packages, and recent_public_packages without organizations.
SearchPackages(c) ==
  /\ ReadAt(c, "packages")
  /\ Finish(c, "shown",
            Top({p \in Asks(c).matches \cap Of({"package"}) \cap live :
                   p \in public \/ ParentOf[p] \in reading[c].orgs}, AtMost(Asks(c).limit)))

ContentKey(row) == <<row.entity, row.model, row.content>>

\* Slip: the rows are ranked before those of other dimensions are left out.
RankedOverall(model, dims) ==
  {r \in embeddings : /\ r.model = model /\ r.dims = dims
                      /\ \A s \in embeddings : s.entity = r.entity /\ s.model = model
                            => s.at < r.at \/ (s.at = r.at /\ s.id <= r.id)}

\* The rows with the model and dimensions asked for, and of each entity the newest.
Ranked(model, dims) ==
  LET scored == {r \in embeddings : r.model = model /\ r.dims = dims} IN
  {r \in scored : \A s \in scored : s.entity = r.entity
                     => s.at < r.at \/ (s.at = r.at /\ s.id <= r.id)}

\* By similarity to the query, which is the vector itself here, then by label.
Nearer(r, s) == r.vector > s.vector \/ (r.vector = s.vector /\ Order[r.entity] < Order[s.entity])

SemanticSearch(c) ==
  /\ ReadAt(c, "semantic")
  /\ LET ranked == Ranked(Asks(c).model, Asks(c).dims)
         rows == {r \in ranked : VisibleTo(r.entity, reading[c].orgs)} IN
       Finish(c, "shown",
              {r \in rows : Cardinality({s \in rows : Nearer(s, r)}) < Clamp(Asks(c).limit)})

\* upsert_embedding: one statement. Whether it inserts or updates, the row's time is that
\* at which the statement began: the column's default and zed_touch_updated_at are now().
Upsert(c) ==
  /\ ReadAt(c, "upsert")
  /\ LET q == Asks(c)
         same == {r \in embeddings : ContentKey(r) = ContentKey(q)}
         new(id) == [id |-> id, entity |-> q.entity, model |-> q.model, content |-> q.content,
                     dims |-> q.dims, vector |-> q.vector, at |-> reading[c].began]
         ends(result) == reading' = [reading EXCEPT ![c].stage = "done", ![c].result = result,
                                                    ![c].ended = clock] IN
       \/ /\ same = {}
          /\ embeddings' = embeddings \cup {new(c)} /\ ends("ok")
       \/ \E r \in same : /\ r.dims = q.dims
                          /\ embeddings' = (embeddings \ {r}) \cup {new(r.id)} /\ ends("ok")
       \/ /\ \E r \in same : r.dims # q.dims
          /\ ends("policy") /\ UNCHANGED embeddings
  /\ clock' = clock + 1
  /\ UNCHANGED <<registryRows, question, past>>
-------------------------------------------------------------------------------
\* What others write meanwhile.
Write(r, p, m, y) ==
  /\ writes > 0 /\ writes' = writes - 1
  /\ live' = r /\ public' = p /\ member' = m /\ yanked' = y
  /\ past' = [c \in Calls |->
                IF reading[c].stage \in {"idle", "done"} \/ Asks(c).user = Nil THEN past[c]
                ELSE [past[c] EXCEPT !.ever = @ \cup m[Asks(c).user],
                                     !.always = @ \cap m[Asks(c).user]]]
  /\ UNCHANGED <<embeddings, clock, question, reading>>

BecomeMember(u, t) ==
  t \notin member[u] /\ Write(live, public, [member EXCEPT ![u] = @ \cup {t}], yanked)
EndMembership(u, t) ==
  t \in member[u] /\ Write(live, public, [member EXCEPT ![u] = @ \ {t}], yanked)
SoftDelete(e) == e \in live /\ Write(live \ {e}, public, member, yanked)
MakePublic(p) == p \notin public /\ Write(live, public \cup {p}, member, yanked)
Yank(v) == v \notin yanked /\ Write(live, public, member, yanked \cup {v})

ReadStep(c) ==
  \/ BeginRead(c) \/ OrgsForUser(c) \/ ProjectsForUser(c) \/ OrgBySlug(c) \/ OrgRole(c)
  \/ ListOrg(c) \/ ExactVersions(c) \/ Named(c) \/ References(c) \/ ReadRole(c) \/ Decide(c)
  \/ SearchRegistry(c) \/ SearchPackages(c) \/ SemanticSearch(c) \/ Upsert(c)

ReadNext ==
  \/ \E c \in Calls : ReadStep(c)
  \/ \E u \in Viewers, t \in Of({"org", "project"}) : BecomeMember(u, t) \/ EndMembership(u, t)
  \/ \E e \in Of({"org", "project", "package"}) : SoftDelete(e)
  \/ \E p \in Of({"package"}) : MakePublic(p)
  \/ \E v \in Of({"package_version"}) : Yank(v)

ReadSpec == ReadInit /\ [][ReadNext]_readVars
-------------------------------------------------------------------------------
\* Some reads leave the organization's own deletion aside.
Alive(q, e) == IF q.kind \in {"packages", "projects", "digest"} THEN {Bearer(e)}
               ELSE {Bearer(e), Home(e)}
Suffices(q, e) == CASE q.kind = "projects" -> {e}
                    [] q.kind \in {"find", "digest"} -> Scopes(e)
                    [] q.kind \notin {"projects", "find", "digest"} -> {Home(e)}

\* At some moment of the call the entity was the viewer's to see; it was so throughout.
May(c, e) ==
  /\ Alive(Asks(c), e) \subseteq past[c].live
  /\ Bearer(e) \in public \/ Scopes(e) \cap past[c].ever # {}
Must(c, e) ==
  /\ Alive(Asks(c), e) \subseteq live
  /\ \/ /\ Suffices(Asks(c), e) \cap past[c].always # {}
        /\ Asks(c).kind = "packages" => Home(e) \in live
     \/ Asks(c).kind # "projects" /\ TypeOf[e] \in Versioned /\ Bearer(e) \in past[c].public

Subjects(q) == CASE q.kind = "projects" -> Of({"project"})
                 [] q.kind = "browse" -> {e \in Of({q.type}) : ParentOf[e] = q.org}
                 [] q.kind = "search" -> q.matches
                 [] q.kind = "packages" -> q.matches \cap Of({"package"})
PageOf(q) == CASE q.kind \in {"projects", "browse"} -> PageRows
               [] q.kind \in {"search", "semantic"} -> Clamp(q.limit)
               [] q.kind = "packages" -> AtMost(q.limit)

\* Left out of a full page: of the answer, or of the viewer's organizations.
CutOff(c, e) ==
  \/ Cardinality({x \in reading[c].answer : Order[x] < Order[e]}) = PageOf(Asks(c))
  \/ Cardinality({o \in reading[c].orgs : Order[o] < Order[Home(e)]}) = PageRows

\* A listing shows nothing that was never the viewer's to see, and leaves out nothing
\* that was so all the while but what did not fit the page.
ListingTrue(c) ==
  /\ \A e \in reading[c].answer : e \in Subjects(Asks(c)) /\ May(c, e)
  /\ \A e \in Subjects(Asks(c)) : Must(c, e) => e \in reading[c].answer \/ CutOff(c, e)

\* Current versions: not those yanked before, and no package of a short list is missing
\* whose latest version was not touched.
CurrentTrue(c) ==
  LET listed == {p \in Of({"package"}) : ParentOf[p] = Asks(c).org} IN
  /\ \A v \in reading[c].answer : v \in Releases(ParentOf[v]) \ past[c].yanked /\ May(c, v)
  /\ \A p \in listed : Must(c, p) /\ Cardinality(listed) <= PageRows
       => LatestOf(p, past[c].yanked) \ yanked \subseteq reading[c].answer

\* An artifact is given away only for a package the viewer could see, refused only if he
\* could see none throughout, and left undecided only if it has too many references.
GateTrue(c) ==
  LET q == Asks(c)  result == reading[c].result
      rows == {v \in Of({"package_version"}) : ShaOf[v] = q.sha /\ ParentOf[v] \in past[c].live}
      gates == IF q.kind = "find" THEN {q.entity} ELSE {ParentOf[v] : v \in rows} IN
  /\ result = "granted" => \E p \in gates : May(c, p)
  /\ result = "hidden" => \A p \in gates : ~Must(c, p)
  /\ result = "policy" => q.kind = "digest" /\ Cardinality(rows) > ReferenceLimit

\* j wrote the vectors a search asks for, and was done before c began; another wrote the
\* same content's after it.
Wrote(j) == Asks(j) # Nil /\ Asks(j).kind = "upsert" /\ reading[j].result = "ok"
Indexed(j, c, e) ==
  /\ Wrote(j) /\ reading[j].ended < reading[c].began
  /\ Asks(j).entity = e /\ Asks(j).model = Asks(c).model /\ Asks(j).dims = Asks(c).dims
Overwritten(j) ==
  \E k \in Calls : /\ Wrote(k) /\ reading[j].ended < reading[k].ended
                   /\ ContentKey(Asks(k)) = ContentKey(Asks(j))

\* A search answers each entity once, with a vector no older than any that was indexed
\* before and not overwritten, and finds all that was indexed before and may be seen.
SearchTrue(c) ==
  LET answer == reading[c].answer IN
  /\ \A r, s \in answer : r.entity = s.entity => r = s
  /\ \A r \in answer :
       /\ May(c, r.entity)
       /\ \A j \in Calls : Indexed(j, c, r.entity) /\ ~Overwritten(j)
            => reading[j].began <= r.at
  /\ \A j \in Calls, e \in Entities : Indexed(j, c, e) /\ Must(c, e)
       => (\E r \in answer : r.entity = e) \/ Cardinality(answer) = PageOf(Asks(c))
            \/ Cardinality({o \in reading[c].orgs : Order[o] < Order[Home(e)]}) = PageRows

\* The dimensions of an identity never change: what was accepted is there with its own,
\* and what was refused is there with others.
UpsertTrue(c) ==
  LET same == {r \in embeddings : ContentKey(r) = ContentKey(Asks(c))} IN
  /\ Cardinality(same) <= 1
  /\ reading[c].result = "ok" => \E r \in same : r.dims = Asks(c).dims
  /\ reading[c].result = "policy" => \E r \in same : r.dims # Asks(c).dims

\* However what is read changes between the statements of a call, its answer is one that
\* the registry's rules allow for the time it took.
ReadsTrue ==
  \A c \in Calls : ReadAt(c, "done") =>
    LET q == Asks(c) IN
    /\ q.kind \in {"projects", "browse", "search", "packages"} => ListingTrue(c)
    /\ q.kind = "current" => CurrentTrue(c)
    /\ q.kind \in {"find", "digest"} => GateTrue(c)
    /\ q.kind = "semantic" => SearchTrue(c)
    /\ q.kind = "upsert" => UpsertTrue(c)
===============================================================================

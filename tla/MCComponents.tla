---------------------------- MODULE MCComponents ----------------------------
(***************************************************************************)
(* The components that share no state with the lock and with publication,  *)
(* each with its own small instance. They share no state with each other   *)
(* either, so that it is enough to let one of them run at a time: focus    *)
(* says which, and the others stay where they start.                       *)
(***************************************************************************)
EXTENDS AccountControl, OnceStores, LockPath, SchemaMigrations, GraphPersist, RegistryReads,
        Resolution, NamespacePlan, PackageSecurity, Integers, TLC

VARIABLE
    focus       \* what runs
-----------------------------------------------------------------------------
\* AccountControl: two users, an organization with two projects, a package in one
\* of them and a second that may be created.
NoOne == "ann" :> None @@ "bob" :> None
MCFirstRoles == "org" :> [NoOne EXCEPT !["ann"] = "owner"]
              @@ "lib" :> [NoOne EXCEPT !["bob"] = "member"] @@ "app" :> NoOne
MCFirstPackages == "core" :> [project |-> "lib", visibility |-> "private", born |-> 0,
                            downloads |-> 0, promoted |-> None]
                 @@ "new" :> None

NewOrg(u, t) == [kind |-> "createOrg", actor |-> u, org |-> t, checked |-> FALSE]
NewProject(u, t, checked) ==
    [kind |-> "createProject", actor |-> u, project |-> t, checked |-> checked]
NewPackage(u, p, t, checked) ==
    [kind |-> "createPackage", actor |-> u, package |-> p, project |-> t, checked |-> checked]
Settings(u, p, t) ==
    [kind |-> "settings", actor |-> u, package |-> p, project |-> t, checked |-> TRUE]
Promote(u) == [kind |-> "promote", actor |-> u, package |-> "core", checked |-> TRUE]
SetTo(to) == [kind |-> "setVisibility", package |-> "core", to |-> to, checked |-> FALSE]
Download == [kind |-> "download", package |-> "core", checked |-> FALSE]
License(u, v, primary, checked) ==
    [kind |-> "license", actor |-> u, package |-> "core", version |-> v, primary |-> primary,
     checked |-> checked]
Upload(u) ==
    [kind |-> "upload", actor |-> u, package |-> "core", version |-> "v1", checked |-> TRUE]
Invite(t, i, r, token, expires, checked) ==
    [kind |-> "invite", actor |-> "ann", target |-> t, inv |-> i, email |-> "bob@", role |-> r,
     token |-> token, expires |-> expires, checked |-> checked]
Join == [kind |-> "accept", actor |-> "bob", email |-> "bob@", token |-> 1]

Work(A, B, C) == {<<a, b, c>> : a \in A, b \in B, c \in C}
Joining == Work({Invite("org", 1, "admin", 1, 1, TRUE), Invite("lib", 1, "admin", 1, 1, FALSE)},
                {Invite("lib", 2, "member", 1, 2, TRUE), Join}, {Join})
Licensing == Work({License("ann", "v1", TRUE, TRUE)}, {License("bob", "v1", TRUE, TRUE)},
                  {License("bob", "v1", TRUE, FALSE)})
             \cup {<<License("ann", None, FALSE, TRUE), License("bob", None, TRUE, FALSE), Download>>}
Promoting == Work({Promote("ann"), Promote("bob")}, {SetTo("public"), SetTo("internal")},
                  {Download})
Moving == {<<Settings("bob", "core", "app"), Settings("ann", "core", None), Upload("bob")>>,
           <<NewProject("ann", "app", TRUE), NewPackage("ann", "new", "app", TRUE),
             NewPackage("bob", "new", "lib", FALSE)>>,
           <<Settings("bob", "core", None), Promote("bob"), NewOrg("bob", "org")>>}
MCWorkloads == Joining \cup Licensing \cup Promoting \cup Moving

MCHomeOf == [t \in Projects |-> "org"]
MCOwnerOf == [p \in Packages |-> "org"]
MCVersionOf == "v1" :> "core"
MCIdentities == "ann" :> {"ann@"} @@ "bob" :> {"bob@"}
MCFirstUsers == "ann" :> "ann@" @@ "bob" :> None
MCAppointments == {<<"lib", "bob", None>>, <<"org", "ann", "reader">>}
-----------------------------------------------------------------------------
\* GraphPersist: three versions of two packages of two organizations; three writers
\* of equal, of rival and of linked graphs, a reader, and every graph of the three
\* versions once.
MCPackageOf == "a1" :> "a" @@ "a2" :> "a" @@ "b1" :> "b"
MCOwner == "a" :> "org" @@ "b" :> "other"

Persist(doc, root, evidence, links) ==
    [doc |-> doc, root |-> root, evidence |-> evidence, links |-> links,
     claim |-> IF Connected(doc) THEN Meaning(doc) ELSE None]
Resolved(nodes, edges) ==
    [view |-> "resolved", roots |-> <<"a1">>, nodes |-> nodes, edges |-> edges]
Declared(root, deps) == [view |-> "declared", package |-> root, deps |-> deps]
Pair == Resolved(<<"a1", "b1">>, <<<<"a1", "b1">>>>)
Alone == Declared("a1", <<>>)
Leans == Declared("a1", <<"b">>)
Preview == Declared("a2", <<>>)
Back == Declared("b1", <<"a">>)

Find(doc) == [by |-> "digest", doc |-> doc, orgs |-> {}]
Latest == [by |-> "latest", root |-> "a1", kind |-> "declared", orgs |-> {"org"}]
Into == [by |-> "incoming", package |-> "b", orgs |-> {"org"}, limit |-> 5]
OutOf == [by |-> "outgoing", package |-> "a", orgs |-> {}, limit |-> 1]

Untrue == [Persist(Pair, "a1", "e", {}) EXCEPT !.claim.depth = 7]
Repeated == [Persist(Pair, "a1", "e", {}) EXCEPT
               !.doc = Resolved(<<"a1", "b1", "b1">>, <<<<"a1", "b1">>>>), !.claim.nodes = 3]
Racing ==
    {<<Persist(Pair, "a1", "e", {"b1"}), Persist(Pair, "a1", e, {"b1"}), None, Find(Pair)>> :
        e \in {"e", "f"}}
    \cup {<<Persist(Pair, "a1", "e", {"b1"}), Persist(Pair, "a1", "e", {"b1"}),
            Persist(Back, "b1", "e", {}), None>>}
    \cup {<<Persist(Leans, "a1", "e", {"b"}), Persist(d, "a1", "e", {}), None, q>> :
        d \in {Alone, Leans}, q \in {Latest, Into, OutOf}}
    \cup {<<Persist(Back, "a1", "e", {}), Persist(Preview, "a2", "e", {}), None, Find(Preview)>>,
          <<Untrue, Repeated, None, Find(Pair)>>}
Pairs == [i \in 1..9 |-> LET place == <<"a1", "a2", "b1">>
                         IN  <<place[((i - 1) \div 3) + 1], place[((i - 1) % 3) + 1]>>]
Cross == {e \in VersionIds \X VersionIds : e[1] # e[2]}
Every == {<<Persist(Resolved(<<"a1", "a2", "b1">>, SelectSeq(Pairs, LAMBDA e : e \in E)),
                    "a1", "e", {}), None, None, None>> : E \in SUBSET (Cross \cup {<<"b1", "b1">>})}
MCPersisted == Racing \cup Every
MCLeftover == {[id |-> 0, born |-> 0, doc |-> Preview, root |-> "a2", evidence |-> "e",
              links |-> {}, nodes |-> 1, depth |-> 0, cycles |-> 0, edges |-> <<>>,
              sealed |-> FALSE]}

-----------------------------------------------------------------------------
\* OnceStores: three callers whose requests agree or not in key, address and content.
Intake(key, email, body) ==
    [store |-> "intake", key |-> key, content |-> <<body, "quote", "org">>, email |-> email]
Action(key, reason) ==
    [store |-> "admin", key |-> key, content |-> <<"actor", reason>>, email |-> None]
Submissions == {Intake(k, e, b) : k \in {1, 2}, e \in {"x", "y"}, b \in {"b", "c"}}
Commands == {Action(k, r) : k \in {1, 2}, r \in {"r", "s"}}
MCRequests == {<<Intake(1, "x", "b"), x, y>> : x \in Submissions, y \in Submissions}
              \cup {<<Action(1, "r"), x, y>> : x \in Commands, y \in Commands}
-----------------------------------------------------------------------------
\* SchemaMigrations: every database a release of the service left behind, and each of
\* them with rows the later constraints refuse.
Empty == [ledger |-> {}, tables |-> FALSE, graph |-> FALSE, rule |-> "none", facts |-> FALSE,
          integral |-> FALSE]
Left(ledger, graph) ==
    [Empty EXCEPT !.ledger = ledger, !.tables = TRUE, !.graph = graph, !.rule = "transaction"]
Clean == {Left({}, TRUE), Left({"legacy"}, FALSE), Left({"base"}, FALSE),
          Left({"base", "visibility"}, FALSE), Left({"base", "graph", "visibility"}, TRUE),
          [Left({"base", "graph", "visibility", "policy"}, TRUE)
             EXCEPT !.rule = "decision", !.facts = TRUE]}
MCDatabases == {[schema |-> Empty, dirty |-> FALSE]} \cup [schema : Clean, dirty : BOOLEAN]
-----------------------------------------------------------------------------
\* Resolution: spellings of each kind the three schemes tell apart. Requirements with
\* a partial > or <= are left out here: MCDialect shows what becomes of them.
Bare(nums) == Plain(nums)
Full(v, nums, star, form, pre) == Text(v, nums, FALSE, star, form, pre)
Pre(nums, rank) == Full(FALSE, nums, "", "pre", rank)
Word(rank) == Full(FALSE, <<>>, "", "word", rank)
MCSpellings ==
    {Bare(<<1, 0, 0>>), Bare(<<1, 2, 3>>), Bare(<<0, 2, 1>>), Bare(<<2, 7>>),
     Full(TRUE, <<1, 0, 0>>, "", "", <<>>), Full(TRUE, <<2, 0, 0>>, "", "build", <<>>),
     Full(FALSE, <<1, 2, 3>>, "", "post", <<1>>), Full(FALSE, <<1, 2>>, "", "pep", <<100, 1>>),
     Text(FALSE, <<2, 7, 1>>, TRUE, "", "", <<>>), Pre(<<1, 3, 0>>, <<100, 1>>),
     Word(<<9>>), Full(FALSE, <<1>>, "", "word", <<8>>)}
Star(nums, star) == Full(FALSE, nums, star, "", <<>>)
One(op, text) == <<Token(op, text)>>
MCRequirements ==
    {One("", t) : t \in MCSpellings}
    \cup {One(op, Bare(n)) : op \in {"^", "~", "=", ">=", "<"},
                             n \in {<<1>>, <<1, 2>>, <<0, 0>>, <<0, 2, 1>>, <<2, 7>>}}
    \cup {One("", Star(<<>>, "*")), One("", Star(<<1, 2>>, "*")), One("", Star(<<1>>, "x")),
          One("^", Star(<<1>>, "*")), One("^", Star(<<1>>, "x.")), One("", Star(<<1>>, "x.")),
          One("", Star(<<1, 2, 3>>, "x")), One("", Bare(<<1, 2>>)), One("", Bare(<<1, 2, 3, 4>>)),
          One(">", Bare(<<1, 0, 0>>)), One("<=", Bare(<<1, 2, 3>>)), One("^", Word(<<9>>)),
          One(">=", Pre(<<1, 3, 0>>, <<100, 1>>)), One("=", Pre(<<1, 3, 0>>, <<100, 1>>)),
          One(">=", Bare(<<1, 2>>)) \o One("<", Bare(<<2>>)),
          One("", Word(<<9>>)) \o One("", Bare(<<1>>))}
-----------------------------------------------------------------------------
\* NamespacePlan: a canonical and another name of each kind, any three providers.
MCDomains == {<<"acme", "dev">>, <<"localhost">>}
MCCanonicalDomains == {<<"acme", "dev">>}
MCOwners == {<<"octo">>, <<"octo--">>}
MCPortableOwners == {<<"octo">>}
-----------------------------------------------------------------------------
\* PackageSecurity: closures of no to four artifacts, and one of each malformation.
Hash(n) == [of |-> n, hex |-> TRUE, upper |-> FALSE]
Unit(ecosystem, registry, name, outer) ==
    [ecosystem |-> ecosystem, exact |-> TRUE, registry |-> registry, name |-> name, version |-> 1,
     revision |-> 1, uri |-> 1, source |-> Hash(1), artifact |-> Hash(name),
     outer |-> Hash(outer)]
Main == Unit(1, 1, 1, 1)
DepA == Unit(1, 1, 2, 1)
DepB == Unit(2, 0, 3, 0)
DepC == Unit(2, 0, 4, 0)
Draft(deps) ==
    [shape |-> "ok", lock |-> [Hash(1) EXCEPT !.upper = TRUE], claim |-> Hash(<<>>),
     resolver |-> 1, root |-> Main, dependencies |-> deps]
MCDrafts ==
    {Draft(deps) : deps \in
        {<<>>, <<DepC, DepA, DepB>>, <<DepB, DepA>>, <<DepA, [DepA EXCEPT !.uri = 2]>>,
         <<DepA, Main>>, <<DepA, [DepB EXCEPT !.exact = FALSE]>>, <<[DepB EXCEPT !.ecosystem = 9]>>,
         <<[DepB EXCEPT !.artifact.hex = FALSE]>>, <<DepA, DepB, DepC, [DepC EXCEPT !.name = 5]>>}}
    \cup {[Draft(<<DepA>>) EXCEPT !.shape = "wrong fields"],
          [Draft(<<DepA>>) EXCEPT !.resolver = 0], [Draft(<<DepA>>) EXCEPT !.lock.hex = FALSE],
          [Draft(<<DepA>>) EXCEPT !.root.name = 0]}
-----------------------------------------------------------------------------
\* LockPath: two directories and the file; a private opener, a shared one and a tool.
Dir(mode) == Object("dir", TRUE, mode, 0)
LockFile(mode) == Object("file", TRUE, mode, 7)
Link == Object("link", TRUE, "read", 0)
MCStarts ==
    {<<Absent, Absent, Absent>>, <<Dir("write"), Absent, Absent>>, <<Link, Absent, Absent>>,
     <<Dir("read"), Dir("write"), Absent>>, <<Dir("read"), Dir("read"), LockFile("private")>>,
     <<Dir("read"), Dir("read"), LockFile("read")>>, <<Dir("read"), Link, LockFile("private")>>,
     <<Dir("read"), Dir("read"), Link>>, <<Dir("read"), Dir("read"), Dir("read")>>,
     <<Dir("read"), Object("dir", FALSE, "read", 0), Absent>>,
     <<Dir("read"), Dir("read"), Object("file", FALSE, "read", 7)>>}
-----------------------------------------------------------------------------
\* RegistryReads: two organizations, a private package filed under a project of the
\* first and a public one of the second, with an artifact in common; each kind of read
\* by a member while two writes come between, and a search among three indexers.
MCTypeOf == "acme" :> "org" @@ "beta" :> "org" @@ "kit" :> "project" @@ "base" :> "package"
            @@ "tool" :> "package" @@ "base1" :> "package_version" @@ "base2" :> "package_version"
            @@ "tool1" :> "package_version"
MCParentOf == "kit" :> "acme" @@ "base" :> "acme" @@ "tool" :> "beta" @@ "base1" :> "base"
              @@ "base2" :> "base" @@ "tool1" :> "tool"
MCProjectOf == "base" :> "kit" @@ "tool" :> None
MCShaOf == "base1" :> "x" @@ "base2" :> "y" @@ "tool1" :> "x"
MCNumberOf == "base1" :> 1 @@ "base2" :> 2 @@ "tool1" :> 1
MCOrder == "acme" :> 1 @@ "beta" :> 2 @@ "base" :> 3 @@ "kit" :> 4 @@ "tool" :> 5 @@ "base1" :> 6
           @@ "tool1" :> 7 @@ "base2" :> 8
MCEntities == DOMAIN MCTypeOf

InOrg(kind, type) == [kind |-> kind, user |-> "eve", org |-> "acme", type |-> type]
ByName(e) == [kind |-> "find", user |-> "eve", org |-> "acme", entity |-> e]
ByDigest(sha) == [kind |-> "digest", user |-> "eve", sha |-> sha]
ByText(kind, user, limit) ==
    [kind |-> kind, user |-> user, matches |-> MCEntities, limit |-> limit]
Alike(limit) == [kind |-> "semantic", user |-> "eve", model |-> "m", dims |-> 1, limit |-> limit]
Index(e, content, dims, vector) ==
    [kind |-> "upsert", user |-> None, entity |-> e, model |-> "m", content |-> content,
     dims |-> dims, vector |-> vector]
MCQuestions ==
    {<<<<q, None, None, None>>, 2>> : q \in
        {[kind |-> "projects", user |-> "eve"], InOrg("browse", "project"),
         InOrg("browse", "package"), InOrg("current", "package"), ByName("kit"), ByName("base"),
         ByDigest("x"), ByDigest("y"), ByText("search", "eve", 0), ByText("search", "eve", 9),
         ByText("packages", "eve", 9), ByText("packages", None, 1)}}
    \cup {<<<<Alike(9), Index("base", "a", 1, 1), None, None>>, 1>>}
    \cup {<<<<Alike(n), Index("base", a, 1, 1), Index("base", "a", d, 2), Index(e, a, 1, 3)>>, 0>> :
            n \in {1, 9}, a \in {"a", "b"}, d \in {1, 2, 3}, e \in {"base", "tool1"}}
MCFirstMembers == "eve" :> {"acme"}
-----------------------------------------------------------------------------
ASSUME InstancesFit ==
    ResolutionAssumption /\ DialectsMeet /\ NamespaceAssumption /\ ClosureAssumption /\ ReadsAssumption

Components ==
    {"control", "graphs", "once", "migrations", "listing", "plan", "closure", "path", "reads"}

\* Where a component stays that does not run.
SomeWork == <<Promote("ann"), Download, Download>>
Rests(component) ==
    CASE component = "control" -> ControlStart(SomeWork)
      [] component = "graphs" -> GraphStart(<<None, None, None, None>>)
      [] component = "once" -> StoreStart(<<None, None, None>>)
      [] component = "migrations" -> MigrationStart([schema |-> Empty, dirty |-> FALSE])
      [] component = "listing" -> scheme = "semver" /\ versions = <<>> /\ latest = <<>>
      [] component = "plan" -> request = [brand |-> "acme", domain |-> <<>>, owner |-> <<>>,
                                          providers |-> <<>>]
      [] component = "closure" -> /\ closure = Draft(<<>>) /\ changes = 0
                                  /\ sealed = Unset /\ verdict = Unset
      [] component = "path" -> platform = "unix" /\ start = [k \in Levels |-> Absent] /\ PathInit
      [] component = "reads" -> ReadStart([c \in Calls |-> None], 0)
Starting(component) ==
    CASE component = "control" -> ControlInit
      [] component = "graphs" -> GraphInit
      [] component = "once" -> StoreInit
      [] component = "migrations" -> MigrationInit
      [] component = "listing" -> ListingInit
      [] component = "plan" -> RequestInit
      [] component = "closure" -> TransferInit
      [] component = "path" -> PathInit
      [] component = "reads" -> ReadInit

Start(c) == IF c = focus THEN Starting(c) ELSE Rests(c)
Init ==
    /\ focus \in Components
    /\ Start("control") /\ Start("graphs") /\ Start("once") /\ Start("migrations")
    /\ Start("listing") /\ Start("plan") /\ Start("closure") /\ Start("path")
    /\ Start("reads")

ControlStep ==
    /\ focus = "control" /\ ControlNext
    /\ UNCHANGED <<focus, graphVars, storeVars, migrationVars, listing, request, transfer, path,
                   readVars>>
GraphStep ==
    /\ focus = "graphs" /\ GraphNext
    /\ UNCHANGED <<focus, controlVars, storeVars, migrationVars, listing, request, transfer, path,
                   readVars>>
OnceStep ==
    /\ focus = "once" /\ StoreNext
    /\ UNCHANGED <<focus, controlVars, graphVars, migrationVars, listing, request, transfer, path,
                   readVars>>
MigrationStep ==
    /\ focus = "migrations" /\ MigrationNext
    /\ UNCHANGED <<focus, controlVars, graphVars, storeVars, listing, request, transfer, path,
                   readVars>>
ListingStep ==
    /\ focus = "listing" /\ ListingNext
    /\ UNCHANGED <<focus, controlVars, graphVars, storeVars, migrationVars, request, transfer, path,
                   readVars>>
PlanStep ==
    /\ focus = "plan" /\ RequestNext
    /\ UNCHANGED <<focus, controlVars, graphVars, storeVars, migrationVars, listing, transfer, path,
                   readVars>>
ClosureStep ==
    /\ focus = "closure" /\ TransferNext
    /\ UNCHANGED <<focus, controlVars, graphVars, storeVars, migrationVars, listing, request, path,
                   readVars>>
PathStep ==
    /\ focus = "path" /\ PathNext
    /\ UNCHANGED <<focus, controlVars, graphVars, storeVars, migrationVars, listing, request, transfer,
                   readVars>>

ReadsStep ==
    /\ focus = "reads" /\ ReadNext
    /\ UNCHANGED <<focus, controlVars, graphVars, storeVars, migrationVars, listing, request, transfer,
                   path>>

Next ==
    \/ ControlStep \/ GraphStep \/ OnceStep \/ MigrationStep
    \/ ListingStep \/ PlanStep \/ ClosureStep \/ PathStep \/ ReadsStep

Spec == Init /\ [][Next]_<<focus, controlVars, graphVars, storeVars, migrationVars, listing, request,
                           transfer, path, readVars>>
-----------------------------------------------------------------------------
\* The properties are those of the components' modules; the components that rest keep them.
=============================================================================

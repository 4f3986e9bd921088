---------------------------- MODULE NamespacePlan ----------------------------
(***************************************************************************)
(* The plan that coordinates one brand's names across package registries   *)
(* and forges: src/rust/namespace_plan.rs and its TypeScript and Dart      *)
(* mirrors, each translated from its own source.                           *)
(*                                                                         *)
(* A coordinate is its kind and the name it is derived from; a step is its *)
(* action, whether a person performs it and whether it names what must     *)
(* hold before it. Wording and warnings are left out. Names that pass the  *)
(* syntax checks are constants, any other name fails them.                 *)
(***************************************************************************)
EXTENDS Naturals, Sequences, SequencesExt, Sorting

CONSTANTS
    Brands, PortableBrands,     \* brand slugs, and those in the portable form
    Domains, CanonicalDomains,  \* sequences of labels, and the canonical ones
    Owners, PortableOwners,     \* GitHub owners (one-element tuples), and the portable ones
    MaxProviders                \* the most providers one composed request names

\* What the constants must be; the module that gives them values assumes it.
NamespaceAssumption ==
    PortableBrands \subseteq Brands /\ CanonicalDomains \subseteq Domains
    /\ PortableOwners \subseteq Owners /\ MaxProviders \in Nat

ProviderOrder == <<"npm", "maven-central", "crates-io", "pub-dev",
                   "github", "gitlab-com", "bitbucket-cloud">>
Providers == Range(ProviderOrder)
OrderOf(provider) == CHOOSE i \in DOMAIN ProviderOrder : ProviderOrder[i] = provider

\* What each planner sorts a request's providers by: their place in the contract's order.
ByPlace(providers) ==
    LET places == DOMAIN providers
        before == {p \in places \X places : OrderOf(providers[p[1]]) < OrderOf(providers[p[2]])}
    IN  [i \in places |-> providers[InOrder(Len(providers), before)[i]]]

NotGiven == <<>>

VARIABLE
    request     \* the request being composed: brand, domain, owner, providers

RequestOK ==
    request \in [brand : Brands, domain : Domains \cup {NotGiven},
                 owner : Owners \cup {NotGiven}, providers : Seq(Providers)]

(***************************************************************************)
(* What a request becomes.                                                 *)
(***************************************************************************)
Task(act, manual, needs) == [act |-> act, manual |-> manual, needs |-> needs]

Entry(provider, coordinate, prefix, disposition, proofs, steps) ==
    [provider |-> provider, coordinate |-> coordinate, prefix |-> prefix,
     automation |-> IF disposition = "not-reservable" THEN "not-reservable" ELSE "manual-web-flow",
     disposition |-> disposition, proofs |-> proofs, steps |-> steps]

NpmScope(r) == <<"scope", r.brand>>
GroupId(r) == <<"group-id", Reverse(r.domain)>>
IoGithub(r) == <<"io.github", r.owner>>
Domain(r) == <<"domain", r.domain>>
Name(r) == <<"name", r.brand>>
Prefix(r) == <<"prefix", r.brand>>

(***************************************************************************)
(* Rust.                                                                   *)
(***************************************************************************)
RustNpm(r) ==
    Entry("npm", NpmScope(r), NotGiven, "manual-action-required", <<"registry-account-control">>,
          <<Task("check-availability", FALSE, FALSE),
            Task("create-organization", TRUE, TRUE),
            Task("record-ownership-evidence", FALSE, TRUE)>>)

RustMaven(r) ==
    LET begin == <<Task("check-availability", FALSE, FALSE),
                   Task("register-namespace", TRUE, TRUE)>>
        derived(coordinate, proof, steps) ==
            Entry("maven-central", coordinate, NotGiven, "manual-action-required",
                  <<"registry-account-control", proof>>, begin \o steps)
    IN  IF r.domain # NotGiven
        THEN derived(GroupId(r), "domain-control",
                     <<Task("verify-domain", TRUE, TRUE),
                       Task("record-ownership-evidence", FALSE, TRUE)>>)
        ELSE IF r.owner # NotGiven
        THEN derived(IoGithub(r), "github-account-control",
                     <<Task("record-ownership-evidence", TRUE, TRUE)>>)
        ELSE Entry("maven-central", NotGiven, NotGiven, "missing-prerequisite",
                   <<"domain-control", "github-account-control">>,
                   <<Task("register-namespace", FALSE, TRUE)>>)

RustCrates(r) ==
    Entry("crates-io", NotGiven, Prefix(r), "not-reservable", <<"existing-package-ownership">>,
          <<Task("check-availability", FALSE, FALSE),
            Task("publish-first-package", FALSE, TRUE),
            Task("add-owner-team", FALSE, TRUE),
            Task("record-ownership-evidence", FALSE, TRUE)>>)

RustPub(r) ==
    IF r.domain # NotGiven
    THEN Entry("pub-dev", Domain(r), NotGiven, "manual-action-required",
               <<"registry-account-control", "domain-control">>,
               <<Task("verify-domain", TRUE, TRUE),
                 Task("create-publisher", TRUE, TRUE),
                 Task("record-ownership-evidence", FALSE, TRUE)>>)
    ELSE Entry("pub-dev", NotGiven, NotGiven, "missing-prerequisite", <<"domain-control">>,
               <<Task("verify-domain", TRUE, TRUE)>>)

RustForge(provider, act, r) ==
    Entry(provider, Name(r), NotGiven, "manual-action-required", <<"forge-administrator">>,
          <<Task("check-availability", FALSE, FALSE),
            Task(act, TRUE, TRUE),
            Task("record-ownership-evidence", FALSE, TRUE)>>)

RustProvider(r, provider) ==
    CASE provider = "npm" -> RustNpm(r)
      [] provider = "maven-central" -> RustMaven(r)
      [] provider = "crates-io" -> RustCrates(r)
      [] provider = "pub-dev" -> RustPub(r)
      [] provider = "github" -> RustForge(provider, "create-organization", r)
      [] provider = "gitlab-com" -> RustForge(provider, "create-group", r)
      [] provider = "bitbucket-cloud" -> RustForge(provider, "create-workspace", r)

\* The contract crate's `validate` and `normalized`, which the mirrors repeat.
ContractAdmits(r) ==
    /\ r.brand \in PortableBrands
    /\ r.domain \in CanonicalDomains \cup {NotGiven}
    /\ r.owner \in PortableOwners \cup {NotGiven}
    /\ r.providers # <<>> /\ IsInjective(r.providers)

RustPlan(r) ==
    [i \in DOMAIN r.providers |-> RustProvider(r, ByPlace(r.providers)[i])]

(***************************************************************************)
(* TypeScript: an entry says less often what a step needs first.           *)
(***************************************************************************)
TsStep(act) == Task(act, FALSE, FALSE)
TsManual(act) == Task(act, TRUE, TRUE)

TsNpm(r) ==
    Entry("npm", NpmScope(r), NotGiven, "manual-action-required", <<"registry-account-control">>,
          <<TsStep("check-availability"), TsManual("create-organization"),
            Task("record-ownership-evidence", FALSE, TRUE)>>)

TsMaven(r) ==
    LET entry(coordinate, proof, last) ==
            Entry("maven-central", coordinate, NotGiven, "manual-action-required",
                  <<"registry-account-control", proof>>,
                  <<TsStep("check-availability"), TsManual("register-namespace")>> \o last)
    IN  CASE r.domain # NotGiven ->
               entry(GroupId(r), "domain-control",
                     <<TsManual("verify-domain"), TsStep("record-ownership-evidence")>>)
          [] r.domain = NotGiven /\ r.owner # NotGiven ->
               entry(IoGithub(r), "github-account-control",
                     <<TsManual("record-ownership-evidence")>>)
          [] r.domain = NotGiven /\ r.owner = NotGiven ->
               Entry("maven-central", NotGiven, NotGiven, "missing-prerequisite",
                     <<"domain-control", "github-account-control">>,
                     <<Task("register-namespace", FALSE, TRUE)>>)

TsCrates(r) ==
    Entry("crates-io", NotGiven, Prefix(r), "not-reservable", <<"existing-package-ownership">>,
          <<TsStep("check-availability"), Task("publish-first-package", FALSE, TRUE),
            TsStep("add-owner-team"), TsStep("record-ownership-evidence")>>)

TsPub(r) ==
    IF r.domain = NotGiven
    THEN Entry("pub-dev", NotGiven, NotGiven, "missing-prerequisite", <<"domain-control">>,
               <<TsManual("verify-domain")>>)
    ELSE Entry("pub-dev", Domain(r), NotGiven, "manual-action-required",
               <<"registry-account-control", "domain-control">>,
               <<TsManual("verify-domain"), TsManual("create-publisher"),
                 TsStep("record-ownership-evidence")>>)

TsForge(provider, act, r) ==
    Entry(provider, Name(r), NotGiven, "manual-action-required", <<"forge-administrator">>,
          <<TsStep("check-availability"), TsManual(act), TsStep("record-ownership-evidence")>>)

TsProvider(r, provider) ==
    CASE provider = "npm" -> TsNpm(r)
      [] provider = "maven-central" -> TsMaven(r)
      [] provider = "crates-io" -> TsCrates(r)
      [] provider = "pub-dev" -> TsPub(r)
      [] provider = "github" -> TsForge(provider, "create-organization", r)
      [] provider = "gitlab-com" -> TsForge(provider, "create-group", r)
      [] provider = "bitbucket-cloud" -> TsForge(provider, "create-workspace", r)

\* `validateRequest`
TsAdmits(r) ==
    /\ r.brand \in PortableBrands
    /\ r.domain # NotGiven => r.domain \in CanonicalDomains
    /\ r.owner # NotGiven => r.owner \in PortableOwners
    /\ r.providers # <<>>
    /\ Cardinality(Range(r.providers)) = Len(r.providers)

\* Slip: the entries in the order of the request.
TsPlanAsAsked(r) == [i \in DOMAIN r.providers |-> TsProvider(r, r.providers[i])]

TsPlan(r) ==
    LET sorted == ByPlace(r.providers)
    IN  [i \in DOMAIN sorted |-> TsProvider(r, sorted[i])]

(***************************************************************************)
(* Dart: the steps of the TypeScript mirror, from its own source.          *)
(***************************************************************************)
DartStep(act) == [act |-> act, manual |-> FALSE, needs |-> FALSE]
Before(step) == [step EXCEPT !.needs = TRUE]
ByHand(act) == Before([DartStep(act) EXCEPT !.manual = TRUE])

DartNpm(r) ==
    Entry("npm", NpmScope(r), NotGiven, "manual-action-required", <<"registry-account-control">>,
          <<DartStep("check-availability"), ByHand("create-organization"),
            Before(DartStep("record-ownership-evidence"))>>)

DartMaven(r) ==
    LET evidence == "record-ownership-evidence"
        portal == <<DartStep("check-availability"), ByHand("register-namespace")>>
        steps == IF r.domain # NotGiven
                 THEN portal \o <<ByHand("verify-domain"), DartStep(evidence)>>
                 ELSE IF r.owner # NotGiven THEN Append(portal, ByHand(evidence))
                 ELSE <<Before(DartStep("register-namespace"))>>
    IN  IF r.domain # NotGiven \/ r.owner # NotGiven
        THEN Entry("maven-central", IF r.domain # NotGiven THEN GroupId(r) ELSE IoGithub(r),
                   NotGiven, "manual-action-required",
                   <<"registry-account-control",
                     IF r.domain # NotGiven THEN "domain-control" ELSE "github-account-control">>,
                   steps)
        ELSE Entry("maven-central", NotGiven, NotGiven, "missing-prerequisite",
                   <<"domain-control", "github-account-control">>, steps)

DartCrates(r) ==
    Entry("crates-io", NotGiven, Prefix(r), "not-reservable", <<"existing-package-ownership">>,
          <<DartStep("check-availability"), Before(DartStep("publish-first-package")),
            DartStep("add-owner-team"), DartStep("record-ownership-evidence")>>)

DartPub(r) ==
    LET proved == ByHand("verify-domain")
    IN  IF r.domain = NotGiven
        THEN Entry("pub-dev", NotGiven, NotGiven, "missing-prerequisite", <<"domain-control">>,
                   <<proved>>)
        ELSE Entry("pub-dev", Domain(r), NotGiven, "manual-action-required",
                   <<"registry-account-control", "domain-control">>,
                   <<proved, ByHand("create-publisher"), DartStep("record-ownership-evidence")>>)

DartForge(provider, act, r) ==
    Entry(provider, Name(r), NotGiven, "manual-action-required", <<"forge-administrator">>,
          <<DartStep("check-availability"), ByHand(act), DartStep("record-ownership-evidence")>>)

DartProvider(r, provider) ==
    CASE provider = "npm" -> DartNpm(r)
      [] provider = "maven-central" -> DartMaven(r)
      [] provider = "crates-io" -> DartCrates(r)
      [] provider = "pub-dev" -> DartPub(r)
      [] provider = "github" -> DartForge(provider, "create-organization", r)
      [] provider = "gitlab-com" -> DartForge(provider, "create-group", r)
      [] provider = "bitbucket-cloud" -> DartForge(provider, "create-workspace", r)

\* `_validateRequest`
DartAdmits(r) ==
    /\ r.brand \in PortableBrands
    /\ r.domain = NotGiven \/ r.domain \in CanonicalDomains
    /\ r.owner = NotGiven \/ r.owner \in PortableOwners
    /\ Len(r.providers) > 0
    /\ \A i, j \in DOMAIN r.providers : i # j => r.providers[i] # r.providers[j]

DartPlan(r) ==
    LET sorted == ByPlace(r.providers)
    IN  [i \in DOMAIN sorted |-> DartProvider(r, sorted[i])]

(***************************************************************************)
(* Composing a request: any combination of names, then one provider more.  *)
(***************************************************************************)
RequestInit ==
    request \in [brand : Brands, domain : Domains \cup {NotGiven},
                 owner : Owners \cup {NotGiven}, providers : {<<>>}]

AddProvider(provider) ==
    request' = [request EXCEPT !.providers = Append(@, provider)]

RequestNext ==
    /\ Len(request.providers) < MaxProviders
    /\ \E provider \in Providers : AddProvider(provider)

RequestSpec == RequestInit /\ [][RequestNext]_request

(***************************************************************************)
(* Properties.                                                             *)
(***************************************************************************)
\* What `summarizeRegistryNamespacePlan` keeps of an entry.
Summary(entry) ==
    [provider |-> entry.provider, coordinate |-> entry.coordinate, prefix |-> entry.prefix,
     automation |-> entry.automation, disposition |-> entry.disposition,
     proofs |-> entry.proofs, acts |-> [i \in DOMAIN entry.steps |-> entry.steps[i].act]]

Summaries(plan) == [i \in DOMAIN plan |-> Summary(plan[i])]

ProofOf(r, coordinate) ==
    CASE coordinate \in {Domain(r), GroupId(r)} -> "domain-control"
      [] coordinate = IoGithub(r) -> "github-account-control"
      [] coordinate = NpmScope(r) -> "registry-account-control"
      [] coordinate = Name(r) -> "forge-administrator"

\* An entry names a coordinate only where a claim can be made for it: then it
\* lists the proof that coordinate calls for, and a person acts before or at
\* the step that records ownership, which comes last. Every step a person
\* takes says what must hold before it.
EntrySound(r, entry) ==
    LET last == entry.steps[Len(entry.steps)]
    IN  /\ (entry.coordinate # NotGiven) <=> (entry.disposition = "manual-action-required")
        /\ entry.coordinate # NotGiven =>
              /\ ProofOf(r, entry.coordinate) \in Range(entry.proofs)
              /\ last.act = "record-ownership-evidence"
              /\ \E i \in DOMAIN entry.steps : entry.steps[i].manual
        /\ entry.disposition = "missing-prerequisite" =>
              \A i \in DOMAIN entry.steps : entry.steps[i].act # "record-ownership-evidence"
        /\ (entry.prefix # NotGiven) <=> (entry.disposition = "not-reservable")
        /\ \A i \in DOMAIN entry.steps : entry.steps[i].manual => entry.steps[i].needs

\* A mirror's step is the reference's but for what must hold before it, which the
\* mirror may leave out.
StepsAgree(mirror, rust) ==
    /\ DOMAIN mirror.steps = DOMAIN rust.steps
    /\ \A i \in DOMAIN rust.steps :
          /\ mirror.steps[i].manual = rust.steps[i].manual
          /\ mirror.steps[i].needs => rust.steps[i].needs

\* What the planners make of a request that all three admit, in whatever order it
\* names its providers. The TypeScript and Dart mirrors make the same plan. Rust's has
\* the same summary and leaves the same steps to a person, but may state more often
\* what must hold before a step. Each plan has one sound entry per provider, in the
\* contract's order (namespace_plan.rs: "exactly one entry for every requested
\* provider, sorted by the shared contract's provider order").
PlansAgree ==
    ContractAdmits(request) /\ TsAdmits(request) /\ DartAdmits(request) =>
       LET rust == RustPlan(request)
           mirror == TsPlan(request)
       IN  /\ DartPlan(request) = mirror
           /\ Summaries(mirror) = Summaries(rust)
           /\ \A i \in DOMAIN rust : StepsAgree(mirror[i], rust[i])
           /\ {rust[i].provider : i \in DOMAIN rust} = Range(request.providers)
           /\ \A i, j \in DOMAIN rust : i < j => OrderOf(rust[i].provider) < OrderOf(rust[j].provider)
           /\ \A plan \in {rust, mirror} : \A i \in DOMAIN plan : EntrySound(request, plan[i])
=============================================================================

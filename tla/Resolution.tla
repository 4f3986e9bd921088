----------------------------- MODULE Resolution -----------------------------
(***************************************************************************)
(* Resolving a requirement against what the registry lists for a package:  *)
(* the scheme-aware rules of src/rust/resolve.rs and of its TypeScript and *)
(* Dart mirrors, over a listing that publications and yanks change.        *)
(*                                                                         *)
(* The Rust client takes its algebra from `zed_interfaces::version`, which *)
(* is Cargo's; that crate is not part of the repository and is modelled by *)
(* what one of Cargo's comparators admits, without expanding it to bounds  *)
(* as the two mirrors do.                                                  *)
(***************************************************************************)
EXTENDS VersionsDart, SequencesExt

CONSTANTS
    Spellings,      \* the tags the package may publish
    Requirements,   \* the requirements clients ask for
    MaxVersions     \* the length of the listing at which publishing stops

\* What the constants must be; the module that gives them values assumes it.
ResolutionAssumption ==
    /\ MaxVersions \in Nat /\ Spellings \subseteq Texts
    /\ Requirements \subseteq Seq(Tokens)

\* Where Cargo and the two mirrors read a comparator alike: not a partial version after
\* > or <= (MCDialect), a prerelease of a partial version, or a bare wildcard after <.
ReadAlike(token) ==
    LET parts == token.of.nums
    IN  Partial(token.of) # {} =>
            /\ token.op \in {">", "<="} \/ token.of.tail = "pre" => Len(parts) = 3
            /\ token.op = "<" => parts # <<>>

DialectsMeet == \A r \in Requirements : \A i \in DOMAIN r : ReadAlike(r[i])

Schemes == {"semver", "calver", "opaque"}

VARIABLES
    scheme,     \* the version scheme the package declared
    versions,   \* the versions the registry lists, in publication order
    latest      \* the version recorded by the last publication, or <<>>

listing == <<scheme, versions, latest>>

ListingOK ==
    /\ scheme \in Schemes
    /\ versions \in SeqOf(Spellings, MaxVersions)
    /\ latest \in Spellings \cup {<<>>}

(***************************************************************************)
(* The registry. A yank takes a version out of the listing and leaves the  *)
(* recorded latest version as it was.                                      *)
(***************************************************************************)
ListingInit == scheme \in Schemes /\ versions = <<>> /\ latest = <<>>

Publish(tag) ==
    /\ Len(versions) < MaxVersions
    /\ ~Contains(versions, tag)
    /\ versions' = Append(versions, tag)
    /\ latest' = tag
    /\ UNCHANGED scheme

Unlist(i) ==
    /\ versions' = RemoveAt(versions, i)
    /\ UNCHANGED <<scheme, latest>>

ListingNext ==
    \/ \E tag \in Spellings : Publish(tag)
    \/ \E i \in DOMAIN versions : Unlist(i)

ListingSpec == ListingInit /\ [][ListingNext]_listing

(***************************************************************************)
(* Cargo's comparators, for a stable version.                              *)
(***************************************************************************)
CargoAdmits(token, core) ==
    LET parts == token.of.nums
        pre == token.of.tail = "pre"
        agree(n) == \A i \in 1..n : core[i] = parts[i]
        all == agree(Len(parts))
        above == \/ \E i \in DOMAIN parts : core[i] > parts[i] /\ agree(i - 1)
                 \/ all /\ pre
        exact == all /\ ~pre
        nonzero == {i \in DOMAIN parts : parts[i] # 0}
        kept == IF nonzero = {} THEN Len(parts) ELSE Min(nonzero)
    IN  CASE token.op = "" /\ token.of.wild # "" -> exact
          [] token.op = "" /\ token.of.wild = "" -> agree(kept) /\ (all \/ above)
          [] token.op = "^" -> agree(kept) /\ (all \/ above)
          [] token.op = "~" -> agree(Min({2, Len(parts)})) /\ (all \/ above)
          [] token.op = "=" -> exact
          [] token.op = ">" -> above
          [] token.op = ">=" -> exact \/ above
          [] token.op = "<" -> ~exact /\ ~above
          [] token.op = "<=" -> ~above

CargoAccepts(requirement, version) ==
    \E parsed \in ParseVersion(version) :
        /\ IsStable(parsed)
        /\ \A i \in DOMAIN requirement : CargoAdmits(requirement[i], parsed.core)

\* `zed_interfaces::version::resolve`: the last maximum of what is accepted.
CargoResolve(requirement) ==
    LET accepted == {i \in DOMAIN versions :
                        IF IsRange(requirement) THEN CargoAccepts(requirement, versions[i])
                        ELSE Spells(requirement, versions[i])}
        core(i) == CHOOSE p \in ParseVersion(versions[i]) : TRUE
        best == {i \in accepted : \A j \in accepted :
                    ~IsRange(requirement) \/ CompareVersions(core(i), core(j)) >= 0}
    IN  IF accepted = {} THEN 0 ELSE Max(best)

(***************************************************************************)
(* The scheme-aware rules, the same steps in the three clients.            *)
(***************************************************************************)
Refused(kind) == [kind |-> kind, at |-> 0]

\* A dotted number with a wildcard in its middle, or of more than three parts.
LooksMalformed(requirement) ==
    /\ Len(requirement) = 1
    /\ LET text == requirement[1].of
       IN  /\ requirement[1].op = "" /\ ~text.v /\ text.nums # <<>>
           /\ \/ text.wild \in {"x.", "*."}
              \/ text.wild = "" /\ text.tail = "" /\ Len(text.nums) > 3

Conclude(requirement, isRange, looksLikeRange, pick) ==
    IF versions = <<>> THEN Refused("no_versions")
    ELSE IF scheme = "opaque" /\ isRange THEN Refused("invalid_requirement")
    ELSE IF scheme # "opaque" /\ ~isRange /\ (looksLikeRange \/ LooksMalformed(requirement))
         THEN Refused("invalid_requirement")
    ELSE IF pick = 0 THEN Refused("unsatisfied")
    ELSE [kind |-> "version", at |-> pick]

RustResolve(requirement) ==
    Conclude(requirement, IsRange(requirement), LooksLikeRange(requirement),
           CargoResolve(requirement))

TsResolve(requirement) ==
    Conclude(requirement, IsRange(requirement), LooksLikeRange(requirement),
           ResolveRequirement(requirement, versions))

DartResolve(requirement) ==
    Conclude(requirement, DartIsRange(requirement), DartLooksLikeRange(requirement),
           DartResolveRequirement(requirement, versions))

\* `requirement_matches` of resolve.rs: an opaque requirement is compared as
\* text even where `resolve_version` refuses it as a range.
RustMatches(requirement, version) ==
    IF scheme = "opaque" \/ ~IsRange(requirement)
    THEN Spells(requirement, version) ELSE CargoAccepts(requirement, version)

(***************************************************************************)
(* The newest installable version.                                         *)
(***************************************************************************)
RecordedLatest ==
    LET listed == {i \in DOMAIN versions : versions[i] = latest}
    IN  IF listed = {} THEN 0 ELSE Min(listed)

RustLatest ==
    LET core(i) == CHOOSE p \in ParseVersion(versions[i]) : TRUE
        stable == {i \in DOMAIN versions : Installable(versions[i])}
        best == {i \in stable : \A j \in stable : CompareVersions(core(i), core(j)) >= 0}
    IN  IF scheme = "opaque" THEN RecordedLatest
        ELSE IF stable = {} THEN 0 ELSE Max(best)

TsLatest ==
    IF scheme = "opaque" THEN RecordedLatest
    ELSE LastBest(versions, {i \in DOMAIN versions : Installable(versions[i])})

DartLatest ==
    IF scheme = "opaque" THEN RecordedLatest
    ELSE DartLastBest(versions, {i \in DOMAIN versions : DartStable(versions[i])})

(***************************************************************************)
(* Properties.                                                             *)
(***************************************************************************)
\* What an answer means, said without the algorithms: the version is listed;
\* no other acceptable one is newer, and of equal ones it is the last
\* published; "unsatisfied" says there is none, and an opaque package only
\* ever answers with the very tag that was asked for.
AnswerTrue(requirement, answer) ==
    LET core(i) == CHOOSE p \in ParseVersion(versions[i]) : TRUE
        fits(i) == IF IsRange(requirement) THEN CargoAccepts(requirement, versions[i])
                   ELSE Spells(requirement, versions[i])
    IN  /\ answer.kind = "version" =>
              /\ fits(answer.at)
              /\ RustMatches(requirement, versions[answer.at])
              /\ scheme = "opaque" => Spells(requirement, versions[answer.at])
              /\ \A j \in DOMAIN versions :
                    fits(j) /\ IsRange(requirement) =>
                        \/ CompareVersions(core(answer.at), core(j)) > 0
                        \/ CompareVersions(core(answer.at), core(j)) = 0 /\ j <= answer.at
        /\ answer.kind = "unsatisfied" => \A j \in DOMAIN versions : ~fits(j)
        /\ answer.kind = "no_versions" <=> versions = <<>>

\* The three clients give one answer to every requirement, whatever was
\* published in which spelling and order and yanked since, and that answer is
\* true of the listing; so is the newest version they offer (src/ts/resolve.ts
\* and src/dart/lib/src/resolve.dart: "verified against the same corpus").
ResolutionTrue ==
    /\ \A r \in Requirements :
          /\ TsResolve(r) = RustResolve(r)
          /\ DartResolve(r) = RustResolve(r)
          /\ AnswerTrue(r, RustResolve(r))
    /\ TsLatest = RustLatest /\ DartLatest = RustLatest
    /\ RustLatest # 0 => \/ scheme = "opaque"
                         \/ \A j \in DOMAIN versions :
                              Installable(versions[j]) =>
                                 \E a \in ParseVersion(versions[RustLatest]),
                                    b \in ParseVersion(versions[j]) :
                                       CompareVersions(a, b) >= 0
=============================================================================

--------------------------- MODULE PackageSecurity ---------------------------
(***************************************************************************)
(* The package-security dependency closure: src/rust/package_security.rs.  *)
(*                                                                         *)
(* A producer recomputes a closure's digest and sends the evidence; on the *)
(* way its dependencies may be listed in another order, its digests spelt  *)
(* in the other case, or its content changed; a verifier normalises what   *)
(* arrives, recomputes the digest and compares it with the one claimed.    *)
(*                                                                         *)
(* Texts are ranks in UTF-16 order, 0 the empty or absent one. A digest is *)
(* what it is a digest of, whether it is 64 hexadecimal characters, and    *)
(* its case; SHA-256 of canonical JSON is taken to be injective.           *)
(***************************************************************************)
EXTENDS Naturals, Sequences, SequencesExt, Sorting

CONSTANTS
    Drafts,             \* the closures a producer starts from
    Others,             \* other values one field of an artifact may take
    MaxDependencies,    \* PACKAGE_DEPENDENCY_CLOSURE_MAX_DEPENDENCIES
    MaxChanges          \* the most changes on the way to the verifier

Digests == [of : Nat, hex : BOOLEAN, upper : BOOLEAN]
ArtifactIdentities ==
    [ecosystem : Nat, exact : BOOLEAN, registry : Nat, name : Nat, version : Nat, revision : Nat,
     uri : Nat, source : Digests, artifact : Digests, outer : Digests]

IsDigest(d) ==
    /\ d = [of |-> d.of, hex |-> d.hex, upper |-> d.upper]
    /\ d.hex \in BOOLEAN /\ d.upper \in BOOLEAN

\* A closure of the shape the schema asks for; what its two digests are digests of
\* may be anything.
IsClosure(c) ==
    /\ c = [shape |-> c.shape, lock |-> c.lock, claim |-> c.claim, resolver |-> c.resolver,
            root |-> c.root, dependencies |-> c.dependencies]
    /\ IsDigest(c.lock) /\ IsDigest(c.claim)
    /\ c.root \in ArtifactIdentities /\ c.dependencies \in Seq(ArtifactIdentities)

\* What the constants must be; the module that gives them values assumes it.
ClosureAssumption ==
    /\ MaxDependencies \in Nat /\ MaxChanges \in Nat
    /\ Others \subseteq Nat /\ \A draft \in Drafts : IsClosure(draft)

VARIABLES
    closure,    \* the JSON value as it is at the moment
    sealed,     \* the normalised closure the producer sent, or Unset
    changes,    \* how often it was changed since
    verdict     \* the verifier's answer

transfer == <<closure, sealed, changes, verdict>>

Unset == [error |-> "none"]

Hex == 1
Ecosystems == 1..5     \* hex, and the four with the registry identity

(***************************************************************************)
(* One artifact identity.                                                  *)
(***************************************************************************)
Lower(digest) == [digest EXCEPT !.upper = FALSE]

NormalizeDigests(identity) ==
    [identity EXCEPT !.source = Lower(@), !.artifact = Lower(@), !.outer = Lower(@)]

\* IdentitySortKey: every field but the source URI.
SortKey(identity) ==
    <<identity.ecosystem, identity.registry, identity.name, identity.version,
      identity.revision, identity.artifact.of, identity.source.of, identity.outer.of>>

KeyBefore(left, right) ==
    \E i \in DOMAIN left :
        left[i] < right[i] /\ \A j \in 1..(i - 1) : left[j] = right[j]

\* The first check an identity fails, in the order of `normalize_identity`.
FirstError(checks) ==
    LET failed == {i \in DOMAIN checks : ~checks[i][1]}
    IN  IF failed = {} THEN "none" ELSE checks[Min(failed)][2]

IdentityError(identity) ==
    FirstError(<<
        <<identity.ecosystem \in Ecosystems, "unsupported ecosystem">>,
        <<identity.exact, "invalid identity shape">>,
        <<0 \notin {identity.name, identity.version, identity.uri, identity.revision},
          "invalid string field">>,
        <<identity.source.hex /\ identity.artifact.hex, "invalid digest">>,
        <<identity.ecosystem = Hex => identity.registry # 0, "invalid string field">>,
        <<identity.ecosystem = Hex => identity.outer.hex, "invalid digest">>>>)

(***************************************************************************)
(* `normalize_semantics`: checks, lower-case digests, one order.           *)
(***************************************************************************)
Sorted(dependencies) ==
    LET places == DOMAIN dependencies
        before == {p \in places \X places :
                     KeyBefore(SortKey(dependencies[p[1]]), SortKey(dependencies[p[2]]))}
    IN  [i \in places |-> dependencies[InOrder(Len(dependencies), before)[i]]]

\* Slip: the sources of two dependencies may tell them apart.
RepeatsToTheLetter(dependencies) ==
    \E i \in 1..(Len(dependencies) - 1) : dependencies[i] = dependencies[i + 1]

\* Two neighbours of the sorted list with one key are one dependency twice.
Repeats(dependencies) ==
    \E i \in 1..(Len(dependencies) - 1) :
        SortKey(dependencies[i]) = SortKey(dependencies[i + 1])

ClosureError(c) ==
    LET members == [i \in DOMAIN c.dependencies |-> IdentityError(c.dependencies[i])]
        wrong == {i \in DOMAIN members : members[i] # "none"}
    IN  FirstError(<<
            <<c.shape # "not an object", "not an object">>,
            <<c.shape # "wrong fields", "invalid top level shape">>,
            <<c.shape # "wrong format", "invalid format">>,
            <<c.lock.hex /\ c.claim.hex, "invalid digest">>,
            <<c.resolver # 0, "invalid string field">>,
            <<IdentityError(c.root) = "none", IdentityError(c.root)>>,
            <<Len(c.dependencies) <= MaxDependencies, "too many dependencies">>,
            <<wrong = {}, IF wrong = {} THEN "none" ELSE members[Min(wrong)]>>,
            <<~Repeats(Sorted(c.dependencies)), "duplicate dependency">>,
            <<\A i \in DOMAIN c.dependencies : SortKey(c.dependencies[i]) # SortKey(c.root),
              "root repeated">>>>)

Normalized(c) ==
    [c EXCEPT !.lock = Lower(@), !.claim = Lower(@), !.root = NormalizeDigests(@),
              !.dependencies = LET listed == Sorted(@)
                               IN  [i \in DOMAIN listed |-> NormalizeDigests(listed[i])]]

\* The preimage of the digest: the normalised closure without its claim.
Preimage(c) == [lock |-> c.lock, resolver |-> c.resolver, root |-> c.root,
                dependencies |-> c.dependencies]

Digest(c) == [of |-> <<Preimage(c)>>, hex |-> TRUE, upper |-> FALSE]

Recompute(c) ==
    LET normalized == Normalized(c)
    IN  IF ClosureError(c) # "none" THEN [error |-> ClosureError(c)]
        ELSE [error |-> "none",
              closure |-> [normalized EXCEPT !.claim = Digest(normalized)]]

Verify(c) ==
    LET normalized == Normalized(c)
    IN  IF ClosureError(c) # "none" THEN [error |-> ClosureError(c)]
        ELSE IF normalized.claim # Digest(normalized) THEN [error |-> "digest mismatch"]
        ELSE [error |-> "none", closure |-> normalized]

(***************************************************************************)
(* The transfer.                                                           *)
(***************************************************************************)
TransferInit ==
    closure \in Drafts /\ sealed = Unset /\ changes = 0 /\ verdict = Unset

Produce ==
    /\ sealed = Unset /\ verdict = Unset
    /\ LET evidence == Recompute(closure)
       IN  IF evidence.error = "none"
           THEN sealed' = evidence /\ closure' = evidence.closure /\ UNCHANGED verdict
           ELSE verdict' = evidence /\ UNCHANGED <<sealed, closure>>
    /\ UNCHANGED changes

\* What may happen to the value on the way: its form, and its content.
Reordered(c) ==
    {[c EXCEPT !.dependencies = [@ EXCEPT ![i] = c.dependencies[i + 1],
                                          ![i + 1] = c.dependencies[i]]] :
        i \in 1..(Len(c.dependencies) - 1)}

Respelt(c) ==
    {[c EXCEPT !.claim.upper = ~@], [c EXCEPT !.lock.upper = ~@], [c EXCEPT !.root.source.upper = ~@]}
    \cup {[c EXCEPT !.dependencies[i].artifact.upper = ~@] : i \in DOMAIN c.dependencies}

Altered(c) ==
    {[c EXCEPT !.resolver = v] : v \in Others}
    \cup {[c EXCEPT !.root.version = v] : v \in Others}
    \cup {[c EXCEPT !.dependencies[i].uri = v] : i \in DOMAIN c.dependencies, v \in Others}
    \cup {[c EXCEPT !.dependencies[i].artifact.of = v] : i \in DOMAIN c.dependencies, v \in Others}
    \cup {[c EXCEPT !.dependencies = Append(@, c.dependencies[i])] : i \in DOMAIN c.dependencies}
    \cup {[c EXCEPT !.dependencies = RemoveAt(@, i)] : i \in DOMAIN c.dependencies}

Change ==
    /\ sealed # Unset /\ verdict = Unset /\ changes < MaxChanges
    /\ closure' \in Reordered(closure) \cup Respelt(closure) \cup Altered(closure)
    /\ changes' = changes + 1
    /\ UNCHANGED <<sealed, verdict>>

Receive ==
    /\ sealed # Unset /\ verdict = Unset
    /\ verdict' = [Verify(closure) EXCEPT !.error = IF @ = "none" THEN "accepted" ELSE @]
    /\ UNCHANGED <<closure, sealed, changes>>

TransferNext == Produce \/ Change \/ Receive

TransferSpec == TransferInit /\ [][TransferNext]_transfer

(***************************************************************************)
(* Properties.                                                             *)
(***************************************************************************)
\* Two closures mean the same: the same values, and the same dependencies as
\* a set, whatever the case of their digests.
Means(c) ==
    [lock |-> c.lock.of, resolver |-> c.resolver, root |-> NormalizeDigests(c.root),
     dependencies |-> {NormalizeDigests(d) : d \in Range(c.dependencies)},
     count |-> Len(c.dependencies)]

\* Evidence is accepted exactly when it still means what the producer sealed:
\* no order or spelling of it is refused, no change of content accepted, and
\* what the verifier works with is the producer's normal form to the letter.
\* Evidence never holds two dependencies of one key, or the root among them,
\* which is why one order of the keys is one normal form.
ClosureTrue ==
    /\ sealed # Unset =>
          LET deps == sealed.closure.dependencies
          IN  /\ \A i, j \in DOMAIN deps : i < j => KeyBefore(SortKey(deps[i]), SortKey(deps[j]))
              /\ \A i \in DOMAIN deps : SortKey(deps[i]) # SortKey(sealed.closure.root)
              /\ Recompute(sealed.closure) = sealed /\ Verify(sealed.closure) = sealed
    /\ sealed # Unset /\ verdict # Unset =>
          /\ (verdict.error = "accepted") <=> (Means(closure) = Means(sealed.closure)
                                               /\ closure.claim.of = sealed.closure.claim.of)
          /\ verdict.error = "accepted" => verdict.closure = sealed.closure
=============================================================================

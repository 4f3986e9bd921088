------------------------------ MODULE Versions ------------------------------
(***************************************************************************)
(* Version spellings and the requirement algebra of the TypeScript client  *)
(* (src/ts/version.ts), which the Rust and Dart clients mirror.            *)
(*                                                                         *)
(* A spelling stands for the text of one version or of one comparator's    *)
(* version: a leading `v`, its numbers, whether one of them is written     *)
(* with a leading zero, a wildcard segment (last, or wrongly followed by   *)
(* another segment) and what follows the numbers. Identifiers of a         *)
(* prerelease are ranks: a number stands for itself, a word for a rank     *)
(* above every number. An optional result is a set of at most one element. *)
(***************************************************************************)
EXTENDS Integers, Sequences, FiniteSetsExt

Text(v, nums, zero, wild, tail, pre) ==
    [v |-> v, nums |-> nums, zero |-> zero, wild |-> wild, tail |-> tail, pre |-> pre]

Plain(nums) == Text(FALSE, nums, FALSE, "", "", <<>>)

\* One requirement is a sequence of tokens, each an operator and a spelling;
\* a published tag is asked for by the token that spells it and no operator.
Token(op, text) == [op |-> op, of |-> text]
Spells(requirement, tag) == requirement = <<Token("", tag)>>

\* What a spelling and a token can be.
Tails == {"", "pre", "build", "pep", "post", "word"}
Texts ==
    {text \in [v : BOOLEAN, nums : Seq(Nat), zero : BOOLEAN, wild : {"", "x", "*", "x.", "*."},
               tail : Tails, pre : Seq(Nat)] :
        text.tail \in {"pre", "pep"} => text.pre # <<>>}
Operators == {"", "^", "~", "=", ">", ">=", "<", "<="}
Tokens == [op : Operators, of : Texts]

\* The first listed version that is the very tag, 0 if none is.
Spelt(requirement, listed) ==
    LET equal == {i \in DOMAIN listed : Spells(requirement, listed[i])}
    IN  IF equal = {} THEN 0 ELSE Min(equal)

(***************************************************************************)
(* Order.                                                                  *)
(***************************************************************************)
Sign(n) == IF n < 0 THEN -1 ELSE IF n > 0 THEN 1 ELSE 0

FirstDifference(orderings) ==
    LET at == {i \in DOMAIN orderings : orderings[i] # 0}
    IN  IF at = {} THEN 0 ELSE orderings[Min(at)]

\* A prerelease is below its release; a longer list is above its prefix.
ComparePre(a, b) ==
    IF a = <<>> \/ b = <<>>
    THEN Sign(Len(b) - Len(a))
    ELSE FirstDifference([i \in 1..Min({Len(a), Len(b)}) |-> Sign(a[i] - b[i])]
                         \o <<Sign(Len(a) - Len(b))>>)

CompareVersions(a, b) ==
    FirstDifference([i \in 1..3 |-> Sign(a.core[i] - b.core[i])]
                    \o <<ComparePre(a.pre, b.pre)>>)

IsStable(version) == version.pre = <<>>

(***************************************************************************)
(* Published spellings.                                                    *)
(***************************************************************************)
ParseStrict(text) ==
    IF /\ ~text.v /\ ~text.zero /\ text.wild = ""
       /\ Len(text.nums) = 3
       /\ text.tail \in {"", "pre", "build"}
    THEN {[core |-> text.nums, pre |-> IF text.tail = "pre" THEN text.pre ELSE <<>>]}
    ELSE {}

Unprefixed(text) == [text EXCEPT !.v = FALSE]

Padded(nums) == [i \in 1..3 |-> IF i <= Len(nums) THEN nums[i] ELSE 0]

Canonical(text, tail) ==
    [Unprefixed(text) EXCEPT !.nums = Padded(text.nums), !.zero = FALSE, !.tail = tail]

NormalizeGo(text) ==
    LET core == [Unprefixed(text) EXCEPT !.tail = IF @ = "build" THEN "" ELSE @]
    IN  {core : parsed \in ParseStrict(core)}

NormalizeCalver(text) ==
    IF text.tail \in {"", "pre"} /\ text.wild = "" /\ Len(text.nums) \in 1..3
    THEN {Canonical(text, text.tail)} ELSE {}

\* `1.2rc1` is a prerelease, `1.2.3.post1` the release itself: semver has no
\* place for "after the release", so the suffix becomes build metadata.
NormalizePep440(text) ==
    IF text.tail \in {"pep", "post"} /\ text.wild = "" /\ Len(text.nums) <= 3
    THEN {Canonical(text, IF text.tail = "pep" THEN "pre" ELSE "build")} ELSE {}

\* The first reading that succeeds.
ParseVersion(text) ==
    LET reparsed(normalized) == UNION {ParseStrict(n) : n \in normalized}
        readings ==
            <<ParseStrict(text), ParseStrict(Unprefixed(text)), reparsed(NormalizeGo(text)),
              reparsed(NormalizeCalver(text)), reparsed(NormalizePep440(text))>>
        succeeded == {i \in DOMAIN readings : readings[i] # {}}
    IN  IF succeeded = {} THEN {} ELSE readings[Min(succeeded)]

(***************************************************************************)
(* Requirements.                                                           *)
(***************************************************************************)
MatchesBound(bound, candidate) ==
    LET ordering == CompareVersions(candidate, bound.version)
    IN  CASE bound.op = "="  -> ordering = 0
          [] bound.op = ">"  -> ordering > 0
          [] bound.op = ">=" -> ordering >= 0
          [] bound.op = "<"  -> ordering < 0
          [] bound.op = "<=" -> ordering <= 0

LooksLikeRange(requirement) ==
    \/ Len(requirement) > 1
    \/ \E i \in DOMAIN requirement :
          requirement[i].op # "" \/ requirement[i].of.wild \in {"*", "*."}

\* The parts, prerelease and wildcard of a comparator's version, when it is
\* one: a wildcard ends it, and no number has a leading zero.
Partial(text) ==
    IF \/ text.tail \in {"pep", "post", "word"}
       \/ text.wild \in {"x.", "*."}
       \/ text.wild # "" /\ Len(text.nums) >= 3
       \/ text.zero
       \/ Len(text.nums) > 3
       \/ text.nums = <<>> /\ text.wild = ""
    THEN {}
    ELSE {[parts |-> text.nums, wildcard |-> text.wild # "",
           pre |-> IF text.tail = "pre" THEN text.pre ELSE <<>>]}

AtLeast(parts, pre) == [core |-> Padded(parts), pre |-> pre]

Triple(major, minor, patch) == [core |-> <<major, minor, patch>>, pre |-> <<>>]

\* The next version that changes the left-most number that is not zero.
CaretUpper(parts) ==
    LET nonzero == {i \in DOMAIN parts : parts[i] # 0}
        grows == IF nonzero = {} THEN Len(parts) ELSE Min(nonzero)
    IN  [core |-> [i \in 1..3 |-> IF i = grows THEN parts[i] + 1 ELSE 0], pre |-> <<>>]

TildeUpper(parts) ==
    IF Len(parts) = 1 THEN Triple(parts[1] + 1, 0, 0) ELSE Triple(parts[1], parts[2] + 1, 0)

Bound(op, version) == [op |-> op, version |-> version]

\* `1.2` is a caret range but `1.2.*` is the 1.2 line; after an operator a
\* wildcard is only the segments left off, and `=1.2` is a line as well.
Expand(token) ==
    UNION {LET from == AtLeast(p.parts, p.pre)
               upTo(upper) == {Bound(">=", from), Bound("<", upper)}
           IN  IF p.parts = <<>> THEN {}
               ELSE IF token.op = "" /\ p.wildcard THEN upTo(TildeUpper(p.parts))
               ELSE CASE token.op \in {"", "^"} -> upTo(CaretUpper(p.parts))
                      [] token.op = "~" -> upTo(TildeUpper(p.parts))
                      [] token.op = "=" -> IF Len(p.parts) = 3 THEN {Bound("=", from)}
                                           ELSE upTo(TildeUpper(p.parts))
                      [] OTHER -> {Bound(token.op, from)}
           : p \in Partial(token.of)}

ParseBounds(requirement) == UNION {Expand(requirement[i]) : i \in DOMAIN requirement}

\* A requirement that is not a legible range is an exact tag.
IsRange(requirement) ==
    requirement # <<>> /\ \A i \in DOMAIN requirement : Partial(requirement[i].of) # {}

RequirementMatches(requirement, version) ==
    IF IsRange(requirement)
    THEN \E parsed \in ParseVersion(version) :
            \A bound \in ParseBounds(requirement) : MatchesBound(bound, parsed)
    ELSE Spells(requirement, version)

\* Slip: the first of several equal versions stays.
ReplacesOlder(version, best) == CompareVersions(version, best) > 0

Replaces(version, best) == CompareVersions(version, best) >= 0

\* A scan of n versions that keeps the best index so far: an admitted version takes the
\* place of the best if the pair is in replaces.
Scan(n, admitted, replaces) ==
    LET best[i \in 0..n] ==
            IF i = 0 THEN 0
            ELSE IF i \in admitted /\ (best[i - 1] = 0 \/ <<i, best[i - 1]>> \in replaces) THEN i
            ELSE best[i - 1]
    IN  best[n]

\* An equal version replaces the best, so the last of several spellings of one version
\* is the one installed.
LastBest(listed, admitted) ==
    LET parsed(i) == CHOOSE p \in ParseVersion(listed[i]) : TRUE
    IN  Scan(Len(listed), admitted,
             {p \in admitted \X admitted : Replaces(parsed(p[1]), parsed(p[2]))})

Installable(version) == \E parsed \in ParseVersion(version) : IsStable(parsed)

ResolveRequirement(requirement, listed) ==
    IF IsRange(requirement)
    THEN LastBest(listed, {i \in DOMAIN listed : Installable(listed[i])
                                                /\ RequirementMatches(requirement, listed[i])})
    ELSE Spelt(requirement, listed)
=============================================================================

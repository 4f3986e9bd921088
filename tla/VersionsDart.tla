---------------------------- MODULE VersionsDart ----------------------------
(***************************************************************************)
(* The requirement algebra of the Dart client (src/dart/lib/src/version    *)
(* .dart), translated from its own source over the spellings of Versions.  *)
(* Shared with that module are the data and the loop over a listing: the   *)
(* order, the parser and the bounds are Dart's, so that the two clients    *)
(* can be compared.                                                        *)
(***************************************************************************)
EXTENDS Versions

Null == [core |-> <<>>, pre |-> <<>>]

(***************************************************************************)
(* Order: the numbers first, then `_comparePre`.                           *)
(***************************************************************************)
DartComparePre(a, b) ==
    LET shared == 1..Min({Len(a), Len(b)})
        differs == {i \in shared : a[i] # b[i]}
    IN  CASE a = <<>> /\ b = <<>> -> 0
          [] a = <<>> /\ b # <<>> -> 1
          [] a # <<>> /\ b = <<>> -> -1
          [] OTHER -> IF differs # {} THEN a[Min(differs)] - b[Min(differs)]
                      ELSE Len(a) - Len(b)

DartCompare(a, b) ==
    LET differs == {i \in 1..3 : a.core[i] # b.core[i]}
    IN  IF differs # {} THEN a.core[Min(differs)] - b.core[Min(differs)]
        ELSE DartComparePre(a.pre, b.pre)

(***************************************************************************)
(* Published spellings: Null stands for the null of the source.          *)
(***************************************************************************)
DartStrict(text) ==
    IF text.v \/ text.zero \/ text.wild # "" \/ Len(text.nums) # 3
       \/ text.tail \in {"pep", "post", "word"}
    THEN Null
    ELSE [core |-> text.nums, pre |-> IF text.tail = "pre" THEN text.pre ELSE <<>>]

DartGo(text) ==
    DartStrict([text EXCEPT !.v = FALSE, !.tail = IF @ = "build" THEN "" ELSE @])

DartSegments(nums) == SubSeq(nums \o <<0, 0, 0>>, 1, 3)

DartCalver(text) ==
    IF text.wild # "" \/ text.nums = <<>> \/ Len(text.nums) > 3
       \/ text.tail \notin {"", "pre"}
    THEN Null
    ELSE [core |-> DartSegments(text.nums),
          pre |-> IF text.tail = "pre" THEN text.pre ELSE <<>>]

DartPep440(text) ==
    IF text.wild # "" \/ Len(text.nums) > 3 \/ text.tail \notin {"pep", "post"}
    THEN Null
    ELSE [core |-> DartSegments(text.nums),
          pre |-> IF text.tail = "pep" THEN text.pre ELSE <<>>]

DartParse(text) ==
    LET direct == DartStrict(text)
        stripped == DartStrict([text EXCEPT !.v = FALSE])
        go == DartGo(text)
        calendar == DartCalver(text)
    IN  IF direct # Null THEN direct
        ELSE IF stripped # Null THEN stripped
        ELSE IF go # Null THEN go
        ELSE IF calendar # Null THEN calendar
        ELSE DartPep440(text)

(***************************************************************************)
(* Requirements.                                                           *)
(***************************************************************************)
DartBoundMatches(bound, candidate) ==
    LET ordering == DartCompare(candidate, bound.version)
    IN  \/ bound.op \in {"=", ">=", "<="} /\ ordering = 0
        \/ bound.op \in {">", ">="} /\ ordering > 0
        \/ bound.op \in {"<", "<="} /\ ordering < 0

DartLooksLikeRange(requirement) ==
    \/ \E i \in DOMAIN requirement : requirement[i].op # ""
    \/ \E i \in DOMAIN requirement : requirement[i].of.wild \in {"*", "*."}
    \/ Len(requirement) \notin 0..1

\* Whether the text is 1 to 3 numbers, none with a leading zero, and possibly
\* one last wildcard: the parts are then its numbers.
DartPartial(text) ==
    /\ text.tail \in {"", "pre", "build"}
    /\ ~text.zero
    /\ Len(text.nums) <= IF text.wild = "" THEN 3 ELSE 2
    /\ text.wild \in {"", "x", "*"}
    /\ text.nums # <<>> \/ text.wild # ""

DartFrom(text) ==
    [core |-> DartSegments(text.nums), pre |-> IF text.tail = "pre" THEN text.pre ELSE <<>>]

DartRelease(core) == [core |-> core, pre |-> <<>>]

DartCaretUpper(parts) ==
    DartRelease(IF parts[1] # 0 THEN <<parts[1] + 1, 0, 0>>
                ELSE IF Len(parts) = 1 THEN <<1, 0, 0>>
                ELSE IF parts[2] # 0 THEN <<0, parts[2] + 1, 0>>
                ELSE IF Len(parts) = 2 THEN <<0, 1, 0>>
                ELSE <<0, 0, parts[3] + 1>>)

DartTildeUpper(parts) ==
    DartRelease(IF Len(parts) = 1 THEN <<parts[1] + 1, 0, 0>>
                ELSE <<parts[1], parts[2] + 1, 0>>)

\* The bounds of one legible token.
DartExpand(token) ==
    LET parts == token.of.nums
        from == DartFrom(token.of)
        below(upper) == {Bound(">=", from), Bound("<", upper)}
        op == IF token.op = "" THEN "^" ELSE token.op
    IN  CASE parts = <<>> -> {}
          [] parts # <<>> /\ token.of.wild # "" /\ token.op = "" -> below(DartTildeUpper(parts))
          [] parts # <<>> /\ ~(token.of.wild # "" /\ token.op = "") ->
               CASE op = "^" -> below(DartCaretUpper(parts))
                 [] op = "~" \/ (op = "=" /\ Len(parts) < 3) -> below(DartTildeUpper(parts))
                 [] OTHER -> {Bound(op, from)}

\* `_parseComparators`: every token must be legible, else the tag is exact.
DartIsRange(requirement) ==
    requirement # <<>> /\ \A i \in DOMAIN requirement : DartPartial(requirement[i].of)

DartMatches(requirement, version) ==
    LET parsed == DartParse(version)
    IN  IF DartIsRange(requirement)
        THEN /\ parsed # Null
             /\ \A i \in DOMAIN requirement :
                   \A bound \in DartExpand(requirement[i]) : DartBoundMatches(bound, parsed)
        ELSE Spells(requirement, version)

DartLastBest(listed, admitted) ==
    Scan(Len(listed), admitted,
         {p \in admitted \X admitted :
            DartCompare(DartParse(listed[p[1]]), DartParse(listed[p[2]])) >= 0})

DartStable(version) == DartParse(version) # Null /\ DartParse(version).pre = <<>>

DartResolveRequirement(requirement, listed) ==
    IF DartIsRange(requirement)
    THEN DartLastBest(listed, {i \in DOMAIN listed : DartStable(listed[i])
                                                    /\ DartMatches(requirement, listed[i])})
    ELSE Spelt(requirement, listed)
=============================================================================

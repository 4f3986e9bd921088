------------------------------ MODULE MCDialect ------------------------------
(* Resolution with a requirement MCComponents leaves out: a comparator > or <=   *)
(* over a version with parts missing, over a listing within and beyond it.       *)
EXTENDS Resolution

MCSpellings == {Plain(<<1, 2, 0>>), Plain(<<1, 2, 5>>), Plain(<<1, 3, 0>>)}
MCRequirements == {<<Token(op, Plain(<<1, 2>>))>> : op \in {">", "<=", ">=", "<"}}

\* "The hand-written Dart and TypeScript algebra agrees with Cargo": the mirrors give
\* a requirement the answer of the Rust client (conformance/README.md).
AgreesWithCargo ==
  \A r \in Requirements : TsResolve(r) = RustResolve(r) /\ DartResolve(r) = RustResolve(r)
===============================================================================

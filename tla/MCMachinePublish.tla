--------------------------- MODULE MCMachinePublish ---------------------------
(* Instances of MachinePublish for TLC: one organization with two packages, the *)
(* first of which has two versions.                                             *)
EXTENDS MachinePublish, TLC

CONSTANTS o, p, q, r1, r2, s1, a, b, m, n, x, c1, c2, c3, c4

OneOrg == [k \in {p, q} |-> o]
Versions == [v \in {r1, r2, s1} |-> IF v = s1 THEN q ELSE p]

Ask(kind, release, artifact, manifest, to) ==
  [kind |-> kind, release |-> release, to |-> to,
   facts |-> [artifact |-> artifact, source |-> x, manifest |-> manifest]]
Adoption(release, artifact, manifest) == Ask("adopt", release, artifact, manifest, b)

\* A first publication; retries, repairs and other writers of the same rows.
Mixed == (c1 :> {Adoption(r1, a, m)}) @@
         (c2 :> {Adoption(r1, a, m), Adoption(r2, a, m),
                 Ask("repair", r1, a, m, b)}) @@
         (c3 :> {Adoption(s1, a, m), Adoption(r1, a, n),
                 Ask("repair", r1, a, n, b), Ask("repair", r1, b, m, a),
                 Ask("createOrg", r1, a, m, b), Ask("createPackage", r1, a, m, b)}) @@
         (c4 :> {Ask("download", r1, a, m, b), Ask("register", r1, a, m, b),
                 Ask("download", r2, a, m, b), Adoption(r1, b, m)})

\* Adoptions alone.
Adoptions == [c \in {c1, c2, c3} |-> {Adoption(v, a, m) : v \in {r1, r2, s1}}]
===============================================================================

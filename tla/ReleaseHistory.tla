---------------------------- MODULE ReleaseHistory ----------------------------
(***************************************************************************)
(* What the control plane promises about a published version, whatever the *)
(* transactions that produce it: its immutable facts appear once, change   *)
(* only by replacing the artifact through a repair, and every such step    *)
(* leaves its row in the audit log.                                        *)
(***************************************************************************)
EXTENDS Sequences

CONSTANTS Calls,      \* calls of the write API
          Releases,   \* (package, version) coordinates
          Facts,      \* immutable facts: records with an artifact field
          Artifacts,
          None        \* no facts: the version is not published

VARIABLES releases,   \* [Releases -> Facts \cup {None}]
          audit       \* the audit log, in the order its rows are committed

\* An audit row: the call that wrote it and what the version was and became.
Row == [by: Calls, release: Releases, old: Facts \cup {None}, new: Facts]

Init == /\ releases = [r \in Releases |-> None]
        /\ audit = << >>

Publish(c, r, f) ==
  /\ releases[r] = None
  /\ releases' = [releases EXCEPT ![r] = f]
  /\ audit' = Append(audit, [by |-> c, release |-> r, old |-> None, new |-> f])

Repair(c, r, a) ==
  /\ releases[r] # None
  /\ releases[r].artifact # a
  /\ releases' = [releases EXCEPT ![r].artifact = a]
  /\ audit' = Append(audit, [by |-> c, release |-> r, old |-> releases[r],
                             new |-> [releases[r] EXCEPT !.artifact = a]])

Next == \E c \in Calls, r \in Releases :
          \/ \E f \in Facts : Publish(c, r, f)
          \/ \E a \in Artifacts : Repair(c, r, a)

Spec == Init /\ [][Next]_<<releases, audit>>
===============================================================================

---------------------------- MODULE MachinePublish ----------------------------
(***************************************************************************)
(* The control plane's record of published versions, and the transactions  *)
(* that write it: adopt_machine_publish, the historical digest repair, the *)
(* registration of an upload, a download and the account calls that create *)
(* an organization or a package.                                           *)
(*                                                                         *)
(* A transaction runs one statement at a time under READ COMMITTED: a      *)
(* statement sees what is committed when it starts and what the            *)
(* transaction itself wrote.  Uncommitted rows stay in tx[c] until the     *)
(* commit moves them to the tables at once.  PostgreSQL supplies the       *)
(* advisory locks, the row locks of an UPDATE, the unique indexes (an      *)
(* INSERT waits for an uncommitted row with its key and fails on a         *)
(* committed one) and the deadlock detector.  Consecutive statements that  *)
(* only write rows nobody can wait for or see are one step with the commit *)
(* that follows them.                                                      *)
(***************************************************************************)
EXTENDS Integers, Sequences, FiniteSets

CONSTANTS Calls,        \* calls of the write API, each with its own transaction
          Orgs,         \* slugs of organizations
          Packages,     \* (organization, package name) coordinates
          Releases,     \* (package, version) coordinates
          OrgOf,        \* [Packages -> Orgs]
          PackageOf,    \* [Releases -> Packages]
          Artifacts,    \* sha256, size, storage key and format of an archive
          Sources,      \* VCS tag and commit
          Manifests,    \* manifest and version scheme
          Requests,     \* [Calls -> SUBSET Request]: what each call may be for
          Faulty,       \* calls whose transaction may fail anywhere
          None          \* neither a call nor a row

Facts == [artifact: Artifacts, source: Sources, manifest: Manifests]
Upload == [release: Releases, artifact: Artifacts]
Kinds == {"adopt", "repair", "register", "download", "createOrg", "createPackage"}

\* facts is what is published (adopt), what the version is expected to be
\* (repair) or was uploaded (register); to is the replacement (repair).
Request == [kind: Kinds, release: Releases, facts: Facts, to: Artifacts]

ASSUME CoordinatesNest ==
  /\ OrgOf \in [Packages -> Orgs]
  /\ PackageOf \in [Releases -> Packages]

\* validate and validate_historical_repair have accepted the request.
ASSUME RequestsValid ==
  /\ Requests \in [Calls -> SUBSET Request]
  /\ \A c \in Calls, q \in Request :
       q \in Requests[c] /\ q.kind = "repair" => q.facts.artifact # q.to

ASSUME NoneIsNothing == None \notin Calls \cup Facts \cup Upload

VARIABLES
  orgs,       \* committed organizations
  packages,   \* committed packages
  releases,   \* [Releases -> Facts \cup {None}]: committed version rows
  uploads,    \* [Calls -> Upload \cup {None}]: the verified upload row a call wrote
  downloads,  \* calls whose download row is committed
  rollup,     \* [Packages -> SUBSET Releases]: what version_count, latest_version count
  counter,    \* [Packages -> Nat]: download_count
  audit,      \* committed audit rows, in commit order
  request,    \* [Calls -> Request]
  pc,         \* [Calls -> Stage]: the next statement
  tx,         \* [Calls -> Transaction]: uncommitted writes and what was read
  advisory,   \* [Packages -> Calls \cup {None}]: pg_advisory_xact_lock
  packageLock, \* [Packages -> Calls \cup {None}]: who has updated the row
  releaseLock, \* [Releases -> Calls \cup {None}]
  outcome     \* [Calls -> Outcome]: what the caller is told

tables == <<orgs, packages, releases, uploads, downloads, rollup, counter, audit>>
locks == <<advisory, packageLock, releaseLock>>
vars == <<tables, locks, request, pc, tx, outcome>>

Stage == {"lock", "findOrg", "insertOrg", "findPackage", "updatePackage",
          "insertPackage", "findRelease", "insertRelease", "findUpload",
          "load", "loadUploads", "updateRelease", "rollUp", "check",
          "insertUpload", "countPackage", "countRelease", "commit", "done"}
Outcome == {"open", "inserted", "matched", "repaired", "registered", "counted",
            "created", "notFound", "policy", "conflict", "error"}
Transaction ==
  [org: BOOLEAN,                  \* inserted the organization
   package: BOOLEAN,              \* inserted the package
   version: Facts \cup {None},    \* the version row, as loaded or inserted
   fresh: BOOLEAN,                \* inserted the version
   upload: BOOLEAN,               \* inserts a verified upload
   seen: SUBSET Calls,            \* verified uploads a repair has loaded
   counted: SUBSET Releases]      \* versions its rollup counts
Blank == [org |-> FALSE, package |-> FALSE, version |-> None, fresh |-> FALSE,
          upload |-> FALSE, seen |-> {}, counted |-> {}]

Kind(c) == request[c].kind
R(c) == request[c].release
P(c) == PackageOf[R(c)]
O(c) == OrgOf[P(c)]

FirstStage(kind) ==
  CASE kind \in {"adopt", "repair"}      -> "lock"
    [] kind \in {"register", "download"} -> "check"
    [] kind = "createOrg"                -> "insertOrg"
    [] kind = "createPackage"            -> "findOrg"

Init == /\ orgs = {} /\ packages = {}
        /\ releases = [r \in Releases |-> None]
        /\ uploads = [c \in Calls |-> None]
        /\ downloads = {}
        /\ rollup = [p \in Packages |-> {}]
        /\ counter = [p \in Packages |-> 0]
        /\ audit = << >>
        /\ request \in [Calls -> UNION {Requests[c] : c \in Calls}]
        /\ \A c \in Calls : request[c] \in Requests[c]
        /\ pc = [c \in Calls |-> FirstStage(request[c].kind)]
        /\ tx = [c \in Calls |-> Blank]
        /\ advisory = [p \in Packages |-> None]
        /\ packageLock = [p \in Packages |-> None]
        /\ releaseLock = [r \in Releases |-> None]
        /\ outcome = [c \in Calls |-> "open"]

-------------------------------------------------------------------------------
(* Waiting, ending and aborting.                                           *)

Committed(p) == {r \in Releases : PackageOf[r] = p /\ releases[r] # None}
Verified(r) == {c \in Calls : uploads[c] # None /\ uploads[c].release = r}

\* The calls whose lock or uncommitted row the next statement of c waits for.
WaitsFor(c) ==
  {d \in Calls \ {c} :
     \/ pc[c] = "lock" /\ advisory[P(c)] = d
     \/ pc[c] = "insertOrg" /\ tx[d].org /\ O(d) = O(c)
     \/ pc[c] = "insertPackage" /\ tx[d].package /\ P(d) = P(c)
     \/ pc[c] = "insertRelease" /\ tx[d].fresh /\ R(d) = R(c)
     \/ pc[c] \in {"updatePackage", "rollUp", "countPackage"} /\ packageLock[P(c)] = d
     \/ pc[c] \in {"updateRelease", "countRelease"} /\ releaseLock[R(c)] = d}

\* The row that the insert of c needs absent is committed.
Taken(c) == \/ pc[c] = "insertOrg" /\ O(c) \in orgs
            \/ pc[c] = "insertPackage" /\ P(c) \in packages
            \/ pc[c] = "insertRelease" /\ releases[R(c)] # None

\* c waits for a call that waits, in the end, for c.
InCycle(c) ==
  \E S \in SUBSET Calls :
    /\ c \in S
    /\ \A d \in S : /\ WaitsFor(d) \cap S # {}
                    /\ \E e \in S : d \in WaitsFor(e)

Goto(c, stage) == pc' = [pc EXCEPT ![c] = stage]

WithoutOwner(lock, c) == [x \in DOMAIN lock |-> IF lock[x] = c THEN None ELSE lock[x]]

\* The transaction ends, with a commit or a rollback, and its locks with it.
Finish(c, result) ==
  /\ Goto(c, "done")
  /\ outcome' = [outcome EXCEPT ![c] = result]
  /\ tx' = [tx EXCEPT ![c] = Blank]
  /\ advisory' = WithoutOwner(advisory, c)
  /\ packageLock' = WithoutOwner(packageLock, c)
  /\ releaseLock' = WithoutOwner(releaseLock, c)
  /\ UNCHANGED request

\* An early return drops the transaction: nothing it wrote is kept.
Abort(c, result) == Finish(c, result) /\ UNCHANGED tables

\* A statement that touches only the transaction's own view.
Private == UNCHANGED <<tables, locks, request, outcome>>

\* A unique index refuses the insert.
Conflict(c) == WaitsFor(c) = {} /\ Taken(c) /\ Abort(c, "conflict")

\* The database fails, the process dies or the caller drops the future.
Fail(c) == c \in Faulty /\ pc[c] # "done" /\ Abort(c, "error")

\* The deadlock detector picks a member of the cycle.
DeadlockVictim(c) == InCycle(c) /\ Abort(c, "error")

-------------------------------------------------------------------------------
(* adopt_machine_publish.                                                  *)

\* Slip: a repair does not take the coordinate's lock.
LockAdoptionsOnly(c) ==
  /\ pc[c] = "lock" /\ (Kind(c) = "adopt" => WaitsFor(c) = {})
  /\ advisory' = IF Kind(c) = "adopt" THEN [advisory EXCEPT ![P(c)] = c] ELSE advisory
  /\ Goto(c, IF Kind(c) = "adopt" THEN "findOrg" ELSE "load")
  /\ UNCHANGED <<tables, packageLock, releaseLock, request, tx, outcome>>

\* SELECT pg_advisory_xact_lock('zed-machine-publish:org/package')
Lock(c) ==
  /\ pc[c] = "lock" /\ WaitsFor(c) = {}
  /\ advisory' = [advisory EXCEPT ![P(c)] = c]
  /\ Goto(c, IF Kind(c) = "adopt" THEN "findOrg" ELSE "load")
  /\ UNCHANGED <<tables, packageLock, releaseLock, request, tx, outcome>>

\* An adoption creates the organization it does not find; create_package_for_user
\* refuses.
FindOrg(c) ==
  /\ pc[c] = "findOrg"
  /\ IF O(c) \in orgs
     THEN Goto(c, IF Kind(c) = "adopt" THEN "findPackage" ELSE "insertPackage")
     ELSE Kind(c) = "adopt" /\ Goto(c, "insertOrg")
  /\ Private /\ UNCHANGED tx

InsertOrg(c) ==
  /\ pc[c] = "insertOrg" /\ WaitsFor(c) = {} /\ ~Taken(c)
  /\ tx' = [tx EXCEPT ![c].org = TRUE]
  /\ Goto(c, IF Kind(c) = "adopt" THEN "findPackage" ELSE "commit")
  /\ Private

FindPackage(c) ==
  /\ pc[c] = "findPackage"
  /\ Goto(c, IF P(c) \in packages THEN "updatePackage" ELSE "insertPackage")
  /\ Private /\ UNCHANGED tx

\* The metadata is overwritten; the row stays locked until the end.
UpdatePackage(c) ==
  /\ pc[c] = "updatePackage" /\ WaitsFor(c) = {}
  /\ packageLock' = [packageLock EXCEPT ![P(c)] = c]
  /\ Goto(c, "findRelease")
  /\ UNCHANGED <<tables, advisory, releaseLock, request, tx, outcome>>

InsertPackage(c) ==
  /\ pc[c] = "insertPackage" /\ WaitsFor(c) = {} /\ ~Taken(c)
  /\ tx' = [tx EXCEPT ![c].package = TRUE]
  /\ Goto(c, IF Kind(c) = "adopt" THEN "findRelease" ELSE "commit")
  /\ Private

\* Slip: a stored version is compared by its artifact alone.
FindReleaseByArtifact(c) ==
  /\ pc[c] = "findRelease"
  /\ releases[R(c)] \in {None} \cup {f \in Facts : f.artifact = request[c].facts.artifact}
  /\ tx' = [tx EXCEPT ![c].version = releases[R(c)]]
  /\ Goto(c, IF releases[R(c)] = None THEN "insertRelease" ELSE "findUpload")
  /\ Private

\* A stored version must have exactly the facts of the request.
FindRelease(c) ==
  /\ pc[c] = "findRelease"
  /\ releases[R(c)] \in {None, request[c].facts}
  /\ tx' = [tx EXCEPT ![c].version = releases[R(c)]]
  /\ Goto(c, IF releases[R(c)] = None THEN "insertRelease" ELSE "findUpload")
  /\ Private

\* Slip: the rollup trigger runs before the insert.
InsertReleaseUncounted(c) ==
  /\ pc[c] = "insertRelease" /\ WaitsFor(c) = {} /\ ~Taken(c)
  /\ tx' = [tx EXCEPT ![c].version = request[c].facts, ![c].fresh = TRUE,
                      ![c].counted = Committed(P(c))]
  /\ Goto(c, "findUpload")
  /\ Private

\* The rollup trigger counts the new row; the package row is this transaction's.
InsertRelease(c) ==
  /\ pc[c] = "insertRelease" /\ WaitsFor(c) = {} /\ ~Taken(c)
  /\ tx' = [tx EXCEPT ![c].version = request[c].facts, ![c].fresh = TRUE,
                      ![c].counted = Committed(P(c)) \cup {R(c)}]
  /\ Goto(c, "findUpload")
  /\ Private

\* Slip: every adoption writes its own verified upload.
AlwaysUpload(c) ==
  /\ pc[c] = "findUpload"
  /\ tx' = [tx EXCEPT ![c].upload = TRUE]
  /\ Goto(c, "commit")
  /\ Private

\* Backfill the verified upload unless the version has one.
FindUpload(c) ==
  /\ pc[c] = "findUpload"
  /\ tx' = [tx EXCEPT ![c].upload = Verified(R(c)) = {}]
  /\ Goto(c, "commit")
  /\ Private

\* Slip: an adoption that meets other facts starts over.
FactsDifferRetry(c) ==
  /\ pc[c] = "findRelease"
  /\ releases[R(c)] \notin {None, request[c].facts}
  /\ Goto(c, "lock")
  /\ advisory' = WithoutOwner(advisory, c)
  /\ packageLock' = WithoutOwner(packageLock, c)
  /\ UNCHANGED <<tables, releaseLock, request, tx, outcome>>

\* immutable_facts_match fails.
FactsDiffer(c) ==
  /\ pc[c] = "findRelease"
  /\ releases[R(c)] \notin {None, request[c].facts}
  /\ Abort(c, "policy")

\* Facts of a version after its artifact was replaced.
Replaced(facts, artifact) == [facts EXCEPT !.artifact = artifact]

AuditRow(c, old, new) == [by |-> c, release |-> R(c), old |-> old, new |-> new]

\* The upload row and, for a new version, the audit row are inserted and the
\* transaction commits.  The answer may be lost on its way.
CommitAdoption(c) ==
  /\ pc[c] = "commit" /\ Kind(c) = "adopt"
  /\ orgs' = IF tx[c].org THEN orgs \cup {O(c)} ELSE orgs
  /\ packages' = IF tx[c].package THEN packages \cup {P(c)} ELSE packages
  /\ uploads' = IF tx[c].upload
                THEN [uploads EXCEPT ![c] = [release |-> R(c),
                                             artifact |-> request[c].facts.artifact]]
                ELSE uploads
  /\ IF tx[c].fresh
     THEN /\ releases' = [releases EXCEPT ![R(c)] = tx[c].version]
          /\ rollup' = [rollup EXCEPT ![P(c)] = tx[c].counted]
          /\ audit' = Append(audit, AuditRow(c, None, tx[c].version))
     ELSE UNCHANGED <<releases, rollup, audit>>
  /\ \/ Finish(c, IF tx[c].fresh THEN "inserted" ELSE "matched")
     \/ c \in Faulty /\ Finish(c, "error")
  /\ UNCHANGED <<downloads, counter>>

-------------------------------------------------------------------------------
(* repair_historical_machine_publish_digest.                               *)

\* repair_old_identity_matches: every field but the manifest and the scheme.
OldIdentityMatches(c) ==
  /\ releases[R(c)] # None
  /\ releases[R(c)].artifact = request[c].facts.artifact
  /\ releases[R(c)].source = request[c].facts.source

Load(c) ==
  /\ pc[c] = "load" /\ OldIdentityMatches(c)
  /\ tx' = [tx EXCEPT ![c].version = releases[R(c)]]
  /\ Goto(c, "loadUploads")
  /\ Private

LoadRefused(c) ==
  /\ pc[c] = "load" /\ ~OldIdentityMatches(c)
  /\ Abort(c, IF releases[R(c)] = None THEN "notFound" ELSE "policy")

\* There is a verified upload, and each one is of the expected old artifact.
LedgerMatches(c) ==
  /\ Verified(R(c)) # {}
  /\ \A u \in Verified(R(c)) : uploads[u].artifact = request[c].facts.artifact

LoadUploads(c) ==
  /\ pc[c] = "loadUploads" /\ LedgerMatches(c)
  /\ tx' = [tx EXCEPT ![c].seen = Verified(R(c))]
  /\ Goto(c, "updateRelease")
  /\ Private

LedgerRefused(c) == pc[c] = "loadUploads" /\ ~LedgerMatches(c) /\ Abort(c, "policy")

\* UPDATE by primary key; the statement's trigger counts the versions and then
\* waits for the package row.
UpdateRelease(c) ==
  /\ pc[c] = "updateRelease" /\ WaitsFor(c) = {}
  /\ releaseLock' = [releaseLock EXCEPT ![R(c)] = c]
  /\ tx' = [tx EXCEPT ![c].counted = Committed(P(c))]
  /\ Goto(c, "rollUp")
  /\ UNCHANGED <<tables, advisory, packageLock, request, outcome>>

RollUp(c) ==
  /\ pc[c] = "rollUp" /\ WaitsFor(c) = {}
  /\ packageLock' = [packageLock EXCEPT ![P(c)] = c]
  /\ Goto(c, "commit")
  /\ UNCHANGED <<tables, advisory, releaseLock, request, tx, outcome>>

\* The loaded uploads are rewritten, the audit row inserted, and all committed.
\* The audit row says what the version was loaded as.
CommitRepair(c) ==
  /\ pc[c] = "commit" /\ Kind(c) = "repair"
  /\ releases' = [releases EXCEPT ![R(c)] = Replaced(@, request[c].to)]
  /\ uploads' = [u \in Calls |->
                   IF u \in tx[c].seen
                   THEN [uploads[u] EXCEPT !.artifact = request[c].to]
                   ELSE uploads[u]]
  /\ rollup' = [rollup EXCEPT ![P(c)] = tx[c].counted]
  /\ audit' = Append(audit, AuditRow(c, tx[c].version,
                                     Replaced(tx[c].version, request[c].to)))
  /\ \/ Finish(c, "repaired")
     \/ c \in Faulty /\ Finish(c, "error")
  /\ UNCHANGED <<orgs, packages, downloads, counter>>

-------------------------------------------------------------------------------
(* Uploads, downloads and the account calls.                               *)

\* require_package and require_version_belongs_to_package.
Check(c) ==
  /\ pc[c] = "check" /\ releases[R(c)] # None
  /\ Goto(c, IF Kind(c) = "register" THEN "insertUpload" ELSE "countPackage")
  /\ Private /\ UNCHANGED tx

Missing(c) ==
  /\ \/ pc[c] = "check" /\ releases[R(c)] = None
     \/ pc[c] = "findOrg" /\ Kind(c) = "createPackage" /\ O(c) \notin orgs
  /\ Abort(c, "notFound")

\* register_package_upload records what its caller says it verified.
InsertUpload(c) ==
  /\ pc[c] = "insertUpload"
  /\ uploads' = [uploads EXCEPT ![c] = [release |-> R(c),
                                        artifact |-> request[c].facts.artifact]]
  /\ Finish(c, "registered")
  /\ UNCHANGED <<orgs, packages, releases, downloads, rollup, counter, audit>>

\* zed_bump_download_counts updates the package row, then the version row.
CountPackage(c) ==
  /\ pc[c] = "countPackage" /\ WaitsFor(c) = {}
  /\ packageLock' = [packageLock EXCEPT ![P(c)] = c]
  /\ Goto(c, "countRelease")
  /\ UNCHANGED <<tables, advisory, releaseLock, request, tx, outcome>>

\* Slip: the trigger counts the wrong way.
CountReleaseDown(c) ==
  /\ pc[c] = "countRelease" /\ WaitsFor(c) = {}
  /\ downloads' = downloads \cup {c}
  /\ counter' = [counter EXCEPT ![P(c)] = @ - 1]
  /\ rollup' = [rollup EXCEPT ![P(c)] = Committed(P(c))]
  /\ Finish(c, "counted")
  /\ UNCHANGED <<orgs, packages, releases, uploads, audit>>

\* The update of the version row fires the rollup; the statement commits.
CountRelease(c) ==
  /\ pc[c] = "countRelease" /\ WaitsFor(c) = {}
  /\ downloads' = downloads \cup {c}
  /\ counter' = [counter EXCEPT ![P(c)] = @ + 1]
  /\ rollup' = [rollup EXCEPT ![P(c)] = Committed(P(c))]
  /\ Finish(c, "counted")
  /\ UNCHANGED <<orgs, packages, releases, uploads, audit>>

\* create_org and create_package_for_user.
CommitCreate(c) ==
  /\ pc[c] = "commit" /\ Kind(c) \in {"createOrg", "createPackage"}
  /\ orgs' = IF tx[c].org THEN orgs \cup {O(c)} ELSE orgs
  /\ packages' = IF tx[c].package THEN packages \cup {P(c)} ELSE packages
  /\ Finish(c, "created")
  /\ UNCHANGED <<releases, uploads, downloads, rollup, counter, audit>>

-------------------------------------------------------------------------------
Adopt(c) == \/ Lock(c) \/ FindOrg(c) \/ InsertOrg(c) \/ FindPackage(c)
            \/ UpdatePackage(c) \/ InsertPackage(c) \/ FindRelease(c)
            \/ InsertRelease(c) \/ FindUpload(c) \/ FactsDiffer(c)
            \/ CommitAdoption(c)
Repair(c) == \/ Load(c) \/ LoadRefused(c) \/ LoadUploads(c) \/ LedgerRefused(c)
             \/ UpdateRelease(c) \/ RollUp(c) \/ CommitRepair(c)
Account(c) == \/ Check(c) \/ Missing(c) \/ InsertUpload(c) \/ CountPackage(c)
              \/ CountRelease(c) \/ CommitCreate(c)

Terminated == /\ \A c \in Calls : pc[c] = "done"
              /\ UNCHANGED vars

Step(c) == Adopt(c) \/ Repair(c) \/ Account(c) \/ Conflict(c)

Next == \/ \E c \in Calls : Step(c) \/ Fail(c) \/ DeadlockVictim(c)
        \/ Terminated

Spec == Init /\ [][Next]_vars

\* The server answers each statement it can run, and breaks every deadlock.
Fairness == \A c \in Calls : WF_vars(Step(c)) /\ WF_vars(DeadlockVictim(c))
FairSpec == Spec /\ Fairness

-------------------------------------------------------------------------------
(* Properties.                                                             *)

\* The type invariant of the tables and of the transactions' private state.
TypeOK ==
  /\ orgs \subseteq Orgs /\ packages \subseteq Packages
  /\ releases \in [Releases -> Facts \cup {None}]
  /\ uploads \in [Calls -> Upload \cup {None}]
  /\ downloads \subseteq Calls
  /\ rollup \in [Packages -> SUBSET Releases]
  /\ counter \in [Packages -> Nat]
  /\ audit \in Seq([by: Calls, release: Releases, old: Facts \cup {None}, new: Facts])
  /\ request \in [Calls -> Request]
  /\ pc \in [Calls -> Stage]
  /\ tx \in [Calls -> Transaction]
  /\ advisory \in [Packages -> Calls \cup {None}]
  /\ packageLock \in [Packages -> Calls \cup {None}]
  /\ releaseLock \in [Releases -> Calls \cup {None}]
  /\ outcome \in [Calls -> Outcome]

History == INSTANCE ReleaseHistory

\* A version's facts appear once and change only as an audited repair from the
\* facts the audit row names, however adoptions, retries and repairs of one
\* package interleave (publication_repair.rs:71-82).
HistorySpec == History!Spec

\* The ledger row an adoption wrote is of the artifact the version has now, a
\* published version has a verified row, and the adoptions of a version wrote
\* one row between them (publication.rs:227, publication_repair.rs:81).
LedgerFollows ==
  /\ \A c \in Calls : uploads[c] # None /\ Kind(c) = "adopt" =>
       /\ releases[R(c)] # None
       /\ uploads[c] = [release |-> R(c), artifact |-> releases[R(c)].artifact]
  /\ \A r \in Releases : releases[r] # None => Verified(r) # {}
  /\ \A c, d \in Calls : /\ uploads[c] # None /\ Kind(c) = "adopt"
                         /\ uploads[d] # None /\ Kind(d) = "adopt"
                         /\ R(c) = R(d)
                         => c = d

\* The counters on a package are those of its version rows and its download
\* rows, whichever trigger wrote them last (registry.sql:1121-1183).
RollupExact ==
  \A p \in Packages :
    /\ rollup[p] = Committed(p)
    /\ counter[p] = Cardinality({c \in downloads : P(c) = p})

\* The call that established or changed facts of its version.
Audited(c, new) == \E i \in DOMAIN audit :
                     audit[i].release = R(c) /\ audit[i].new = new

\* What a caller is told is so: a success means the version was published with
\* the facts of the request and the rows that belong to it exist, one call is
\* told it inserted the version, and a refusal as different facts means that the
\* version did have different facts (publication.rs:61-65, 187-193).
ReceiptsTrue ==
  /\ \A c \in Calls : outcome[c] \in {"inserted", "matched"} =>
       /\ O(c) \in orgs /\ P(c) \in packages /\ Verified(R(c)) # {}
       /\ Audited(c, request[c].facts)
  /\ \A c, d \in Calls :
       outcome[c] = "inserted" /\ outcome[d] = "inserted" /\ R(c) = R(d) => c = d
  /\ \A c \in Calls : outcome[c] = "policy" /\ Kind(c) = "adopt" =>
       \E i \in DOMAIN audit : /\ audit[i].release = R(c)
                               /\ audit[i].new # request[c].facts
  /\ \A c \in Calls : outcome[c] = "repaired" =>
       \E i \in DOMAIN audit : /\ audit[i].by = c
                               /\ audit[i].old.artifact = request[c].facts.artifact
                               /\ audit[i].new.artifact = request[c].to

\* Every call gets an answer: whatever rows and locks the calls wait for, in
\* whatever order they take them (repair: version row, then package row; download:
\* package row, then version row), the waiting ends.
CallsEnd == \A c \in Calls : <>(pc[c] = "done")

\* The coordinate's advisory lock spares first adoptions the unique indexes
\* (publication.rs:77-79).  It is per package: two first packages of a new
\* organization race for the organization.
NoFirstPublishConflict ==
  \A c \in Calls : Kind(c) = "adopt" => outcome[c] # "conflict"
===============================================================================

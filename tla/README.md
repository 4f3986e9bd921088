# zed-lib-core in TLA+

A verification development of zed-lib-core: the advisory lock that processes use
around shared files, the transactions of the package registry's control plane,
and the algorithms that clients in three languages must compute alike. TLC checks the models on small instances; TLAPS proves the theorems for
every value of the constants.

Source paths are relative to the repository's root; `lib.rs` alone is
`src/rust-lock/lib.rs`, and the other short names are files of `src/rust-orm/`.

- [Inventory](#inventory): the components, and what makes each correct
- [Modules](#modules): what is modelled, and how it corresponds to the code
- [Runs](#runs): what TLC checks, the bounds, the fairness
- [Proofs](#proofs): what TLAPS proves, from what, and how
- [Disagreements](#where-the-code-and-its-documentation-disagree)
- [Limits](#what-is-not-modelled) and [plan](#plan)

## Inventory

zed-lib-core is a library. Its crates are called by clients (package
managers, build tools) and by the registry's API server, web server, machine
endpoint and migrator. Nothing in it runs on its own, except the worker threads
of the lock. Its concurrency is therefore that of its callers: threads and
processes that meet in the kernel's file locks, and server processes that meet
in one PostgreSQL database under READ COMMITTED (no transaction of the crates
sets another level, and no query uses `FOR UPDATE`).

| Component | State | Operations | What is hard | What makes it correct | Here |
|---|---|---|---|---|---|
| Descriptor lock `lib.rs` | kernel lock of each path; per process the reservations and the waiter counter; per waiter a result slot, a waker and `receiver_alive` | `acquire_blocking`, `try_acquire`, `acquire`, `acquire_timeout`; poll, wait, drop of a `LockWaiter`; release, drop | worker threads, wakers, grants after a timeout, process death, panicking callbacks | one guard per path; no lost wake-up; no leaked grant, reservation or permit; deadlines honoured | `ZedLock` |
| Lock hierarchy `lib.rs` | thread-local list of held (class, path); guards of a lock set | nested acquisition, `acquire_many_blocking`, moved guards, unwinding | deadlock between processes, failure inside a set, stale lists | nobody waits in a circle; the list is what the thread has; sets unwind downward | `LockOrder` |
| Lock paths `src/rust-lock/path_security.rs` | directories and the file, their owners and access | `open_validated_lock_file`, `ensure_lock_parent`, creation, tightening, validation | creation races, substitution between check and open, other programs in the path | whoever gets a handle has the one file there, a plain one, with its access as promised | `LockPath` |
| Machine publication `publication.rs` | organizations, packages, versions, verified uploads, audit log | `adopt_machine_publish` | concurrent first publications, retries after a lost answer, failure half way | facts of a version are immutable; one ledger row; truthful receipts | `MachinePublish` |
| Publication repair `publication_repair.rs` | the same rows | `repair_historical_machine_publish_digest` | compare-and-swap over several statements, races with retries | version, ledger and audit change together, from the facts that were checked | `MachinePublish` |
| Uploads, downloads `registry/artifacts.rs` | ledgers; counters kept by triggers (`sql/registry.sql:1121-1183`) | `register_package_upload`, `record_package_download` | opposite lock orders, stale counts | counters are what the rows say | `MachinePublish` (partly) |
| Account control plane `account.rs`, `write.rs`, `registry/licenses.rs` | members, roles, projects, packages, licences | create, invite, change settings, add licence, upload, for a user or unchecked | roles read without a lock, two primaries at once | a write is backed by a role; one primary licence | `AccountControl` |
| Invitations `invitations.rs` | pending invitations, members | `accept` | double acceptance, revocation, expiry, users created on the way | one member per invitation, once | `AccountControl`, `Membership` |
| Visibility, promotion `write.rs`, `policy.rs`, triggers | visibility, age, download count | `set_package_visibility`, `make_package_public_for_user` | a pre-check and a trigger that read different clocks and rows | public for ever; the window is kept and refusals are true | `AccountControl` |
| Graph artifacts `registry/graphs.rs` | sealed artifacts, edge index, versions, packages | `persist_dependency_graph`, four reads | two advisory locks, replay, rows deleted meanwhile, pagination | immutable, one declared graph per version, exact replay, depth and cycles as the document has them | `GraphAnalysis`, `GraphPersist` |
| Registry reads, search `read.rs`, `version_reads.rs`, `registry/search.rs` | embeddings; what a request has read so far | listings, roles, lookups, the digest gate, text and semantic search, `upsert_embedding` | a request is several statements, and memberships, visibility and rows change between them; page limits; several contents of one entity | nothing shown that was never the viewer's to see, nothing left out that always was; the newest comparable vector; dimensions never change | `RegistryReads` |
| Public intake `public_intake.rs` | submissions | `insert_public_intake_submission` | two unique keys absorb one another, lost answers | a replay changes nothing; a different body is refused | `OnceStores`, `OnceOnly` |
| Migrations `migrations.rs` | ledger, schema | `migrate` and its plan | several migrators, crashes, databases of any release | each step once, in order, and the ledger true of the schema | `SchemaMigrations` |
| Administrative store `admin-orm/src/lib.rs` | action requests, outbox | `record_action` | retries, a lost answer | one action and one event per key | `OnceStores`, `OnceOnly` |
| Dependency resolution `src/rust/resolve.rs`, `src/ts`, `src/dart` | none | `resolve_version`, `latest_stable` | prereleases, schemes, wildcards, yanked versions, three implementations | the best installable version in its own spelling, the same for the three | `Versions`, `VersionsDart`, `Resolution` |
| Package security `src/rust/package_security.rs` | none | `normalized`, digest, validation | order and case of what arrives, duplicates, changes on the way | a verifier accepts what was sealed and nothing else | `PackageSecurity` |
| Namespace plans `src/rust/namespace_plan.rs`, `src/ts`, `src/dart` | none | plan, summary | which coordinates a request supports, three implementations | one entry per provider, sound proofs and steps, the same for the three | `NamespacePlan` |
| Connection, entities, generators, generated contracts, Quint models | none, or configuration | parsing, generation | none a model checker reaches | | left out |

How components meet: the lock is independent of the registry. The registry's
writers share rows: publication, repair, uploads, downloads, the account plane
and promotion all write `zed_packages` or `zed_package_versions` and fire the
same triggers; invitations and the account plane share the membership tables;
graphs refer to versions; every one of them appends to `zed_audit_log` or reads
what others commit. Publication and repair exclude each other by an advisory
lock on `zed-machine-publish:org/package`; nothing else takes it.

## Modules

| Module | What it is |
|---|---|
| `LockService` | abstract: what a lock promises a caller |
| `ZedLock` | the descriptor lock, requests of several processes step by step |
| `LockOrder` | the lock hierarchy, threads that nest locks and take sets |
| `ReleaseHistory` | abstract: what the control plane promises about a version |
| `MachinePublish` | the transactions of publication, repair, uploads, downloads and account calls, statement by statement |
| `LockPath` | how the file of a lock is opened: directories, creation, tightening, validation |
| `Membership` | abstract: what the account plane promises about who holds which role |
| `AccountControl` | account calls, invitations, licences, visibility and promotion, statement by statement |
| `GraphAnalysis` | what is derived from a dependency graph document: depths, cycles, canonical meaning |
| `GraphPersist` | the transactions that store graphs and the queries that read them |
| `OnceOnly` | abstract: what an idempotent store promises |
| `OnceStores` | the public intake and the administrative actions |
| `SchemaMigrations` | migrators over the databases that releases left behind |
| `RegistryReads` | the reads of the registry, a statement at a time, while others write; the upsert of embeddings |
| `Versions`, `VersionsDart` | version spellings and requirements: the TypeScript and the Dart algebra |
| `Resolution` | the three resolvers over a listing that is published to and yanked from |
| `NamespacePlan` | the three planners of a brand's names |
| `PackageSecurity` | a dependency closure from its producer to its verifier |
| `Sorting` | a stable sort, which the planners and the closure's normal form both use |
| `MCZedLock`, `MCLockOrder`, `MCMachinePublish` | instances for TLC: request sets, keys, call sets |
| `MCComponents`, `MCDialect` | the components that share no state with the lock or publication, and one requirement apart |
| `ZedLockProofs`, `LockOrderProofs`, `MachinePublishProofs`, `StoreProofs`, `AccountControlProofs`, `GraphPersistProofs`, `RegistryReadsProofs`, `ClientProofs` | theorems and proofs |

A definition whose comment begins with `Slip:` is not part of a specification.
It is a slip the code avoids, kept beside the definition it deforms; putting it
in that definition's place makes the property it is paired with in
`PROJECT.json` fail, which shows that the property is about that line of code.

### ZedLock

One request is one call of the API. It has two control points, `stage[r]` of
the thread that runs the acquisition and `caller[r]` of the code that asked.
They meet in the mutex-protected `WaitState`, whose fields are derived:
`result` is full iff `stage[r] = "published"`, `receiver_alive` iff
`caller[r] # "gone"`; `waker[r]` is its waker and `notice[r]` what the worker
took out of it and has yet to wake. `holder` is the kernel, `reserved` and
`active` are `ManagerInner.reserved_in_process` and `WaiterLimiter.active`.
A step is what happens under one mutex, one atomic or one system call:

| Code | Actions |
|---|---|
| `WaiterLimiter::reserve` (805-829) | `LoadActive`, `LimitReached`, `CompareExchange` (load and compare-exchange apart) |
| `spawn_internal` (886-940) | `Spawn`, `SpawnFails` |
| `acquire_blocking`, `try_acquire` (378-510) | `StartOwnThread`, `EnterFails`, `Reserve`, `ReserveRefused`, `Grant`, `Contended`, `KernelError`, `Acquired`, `AcquiredSinkPanics` |
| the worker's closure (904-929) | `Publish`, `ReleaseDetached`, `Notify` |
| `LockWaiter::wait`, `wait_timeout`, `poll`, `drop` (946-1069) | `ParkOnCondvar`, `PollPending`, `SpuriousWake`, `TakeResult`, `Join`, `Cancel`, `DropReceiver` |
| `acquire_timeout` (561-583) | `Expire`, `AnnounceTimeout`, then `DropReceiver` |
| `LockGuard` (707-747) | `ReleaseGuard`, `DropGuard`, `FinishRelease` |
| process death | `Crash`, of the processes in `Mortal` |

Time is abstract: a deadline may pass at any step. The event sink is a set of
the events told about each request; it may panic only while told of `Acquired`,
where the code has something to lose. `LockService` has three variables and the
steps Ask, Deliver, Refuse, Release and their batch for a dying process;
`ServiceSpec` maps them from the callers' control points.

### LockOrder

`held[t]` is the thread-local `HELD_LOCK_ORDER` as a bag of keys, `guard[k]`
the thread that has a guard, `wants` what a thread waits for, `todo` and `got`
the requests and guards of a lock set in progress. `Workers` allows
`acquire(..).wait()`, which is not compared with what its thread holds; `Moves`
lets a guard go to another thread, where its drop shortens the wrong list.
Paths and ranks are numbers, in the order of the code. What a single request
does while it waits is left to `ZedLock`.

### MachinePublish

A call is one transaction of a server process. `tx[c]` is what it read and
wrote and has not committed; the tables (`orgs`, `packages`, `releases`,
`uploads`, `downloads`, `rollup`, `counter`, `audit`) are what others see. A
statement is a step. READ COMMITTED is modelled by what it does here: a read
sees the tables and `tx[c]`; an UPDATE takes the row's lock and keeps it; an
INSERT waits for an uncommitted row with its key (`WaitsFor`) and fails on a
committed one (`Conflict`); a cycle of waits is broken by `DeadlockVictim`; a
call in `Faulty` may fail after any statement, or lose the answer of its commit.
Writes that nobody waits for, made just before the commit (upload, audit row),
are one step with it.

| Code | Actions |
|---|---|
| `publication.rs:77-92`, `publication_repair.rs:123-140` | `Lock` |
| `publication.rs:93-124` | `FindOrg`, `InsertOrg` |
| `publication.rs:126-181` | `FindPackage`, `UpdatePackage`, `InsertPackage` |
| `publication.rs:183-225` | `FindRelease`, `FactsDiffer`, `InsertRelease` (with the rollup trigger) |
| `publication.rs:227-294` | `FindUpload`, `CommitAdoption` |
| `publication_repair.rs:142-219` | `Load`, `LoadRefused`, `LoadUploads`, `LedgerRefused` |
| `publication_repair.rs:221-298` | `UpdateRelease`, `RollUp` (the trigger waits for the package row), `CommitRepair` |
| `registry/artifacts.rs:70-129`, `registry.sql:1124-1183` | `Check`, `Missing`, `InsertUpload`, `CountPackage`, `CountRelease` |
| `write.rs:123-162`, `account.rs:254-303` | `InsertOrg`, `FindOrg`, `InsertPackage`, `CommitCreate` |

Data: `artifact` stands for digest, size, storage key and format; `source` for
tag and commit; `manifest` for manifest and scheme, which the repair does not
compare. A package's rollup is the set of versions it counts. Nothing in the
sources deletes an organization, package or version, so rows are only added.
A download names a version; the roles of account callers are left to
`AccountControl`; metadata and visibility are not told apart.

`ReleaseHistory` has the version rows and the audit log, and two steps:
`Publish` (from nothing, once) and `Repair` (another artifact, everything else
kept). `HistorySpec` says each commit is one of them or changes neither, with
the audit row naming exactly what the version was and became.

### AccountControl

A caller has one request and one transaction; `call[c]` has its stage, the row
it read (`row`), the time it took (`began`), the licences it saw and locked
(`seen`, `held`) and the invitation it found. The tables are `users`, `founded`
(organizations and projects), `role` (both membership tables), `packages`,
`licences`, `uploads`, `invitations`. A statement is a step; the last write and
the commit are one where the call's own row locks keep the difference hidden.

| Code | Actions |
|---|---|
| `find_package` and the row read of `set_package_visibility` | `FindPackage` |
| `require_package_write_target`, `strongest_role`, `require_org_role` (`account.rs`) | `Authorise`; the second check of a settings change is `Retarget` |
| `require_version_belongs_to_package` | `CheckVersion` |
| `VisibilityLimits::evaluate` (`policy.rs`) | `Precheck`, on the row read before |
| `zed_enforce_package_visibility_transition` with the update | `WriteVisibility` |
| the writes of `write.rs`, `account.rs`, `registry/artifacts.rs` | `WriteDownload`, `WritePackage`, `WriteSettings`, `WriteUpload`, `WriteTarget`, `WriteInvitation` |
| `add_package_license` and `_for_user` | `StartDemotion` (its snapshot), `LockPrimaries` (waits for row locks), `InsertLicense` (the partial unique index, the commit) |
| `upsert_user_from_session` | `Login`, `Enrol` (its own transaction) |
| `invitations::accept` | `Lookup`, `Consume` |
| operators and other services | `Appoint`, `Revoke`, external |

`calm` is a history variable: no role and no package's project changed while the
call ran. `Membership` has the steps Found, Issue, Accept, Appoint, Revoke;
`MembershipSpec` maps the membership tables and the invitation rows to it. Accept
gives a role only to someone who has none there: `Consume` is refused otherwise,
because the insertion that conflicts fails the call, and nothing of it remains.

### GraphAnalysis and GraphPersist

`GraphAnalysis` follows `analyze_resolved_graph`: the breadth-first walk from the
roots (`Visit`), and the two depth-first passes that count cyclic components
(`Descend`, `Collect`), each a recursive function over a number of rounds that covers
every node and edge (`Rounds`). `Meaning` is the reference definition: the least length
of a walk from the root (`Away`), and the classes of nodes in the same sets that no edge
leaves (`Reaches`). `GraphPersist` has the writers' transactions: the two
advisory locks (digest, then version), the search for an equal digest and for the
declared graph of the version, the evidence compared on a replay, the insertion
with its edge index and seal. Versions may be deleted and packages retired under
them (`Delete` and its cascades, external); the reads are by digest, latest of a
root, incoming and outgoing edges, with the organizations a reader may see.

### OnceStores

One module for the two stores, because they have one shape: insert on conflict
do nothing, then look the key up and compare. `store` in a request says which.
The intake has a second unique key (the fingerprint of an address, with the
kind) whose conflict is deliberately answered like a success; the administrative
store adds an outbox row to its transaction. `Commit` may lose its answer.

### SchemaMigrations

`db` is what a database is like: the steps in its ledger, and the facts about the
schema that later steps rely on (tables, graph tables, which promotion rule the
trigger has, whether its facts are columns, whether the integrity constraints are
there), with `dirty` for rows a constraint refuses. A runner takes the advisory
lock (`TakeLock`), reads whether the ledger has entries (`ReadLedger`), then the
table marker and the recorded versions, and plans (`PlanSteps`). Its plan is the set
of steps left and `view` the database as its own transaction sees it: `ApplyStep`
executes the first step left on `view` and records it, `CommitMigration` makes `view`
the database. A runner may die at any statement and start again, and an operator may
repair a dirty database in between. `Databases` is every database a runner may find;
`DatabasesAssumption` says only that what its ledger records is in force.

### RegistryReads

A call is what a web tier or an indexer does for one request, in the order that the
comments of `read.rs` ask of callers ("`include_private` must reflect a checked
membership", "`visible_org_ids` is supplied by the caller"): first what the viewer
belongs to, then the rows that lets him see. Each statement is a step
(`OrgsForUser`, `OrgRole`, `ListOrg`, `ExactVersions`, `References`, `ReadRole`,
`SearchRegistry`, `SemanticSearch`, ...), and no two share a transaction. Between them
others join, leave, delete, promote and yank (`Write`, bounded by `writes`). Entities
are organizations, projects, packages and versions in one set, with `Home` the
organization and `Bearer` the row whose visibility decides; `Order` is the order of
the listing or of the scores, `Top` its page. `past` is a history variable: the
registry as a call began and the memberships its viewer had at some time (`ever`) or
all the time (`always`) since. `May` and `Must` say from it what an answer may show and
must show, whatever came in between.

`Upsert` is one statement. The row's time is when the statement began: the update
sets `updated_at = clock_timestamp()` (`registry/search.rs:348`), but the trigger
`zed_touch_updated_at` (`registry.sql:66`) overwrites it with `now()`. An upsert that
began earlier and overwrites the row of the same content later therefore moves its
time backwards; `SearchTrue` speaks of upserts
whose content nobody overwrote (`Overwritten`).

### Versions, VersionsDart and Resolution

`Versions` is the TypeScript algebra and `VersionsDart` the Dart one, each
translated from its own file; Rust's comes from a crate outside the repository
and is modelled in `Resolution` by what each Cargo comparator admits. A text is
a record of what the parsers tell apart: a leading `v`, numbers, a leading zero,
a wildcard, a tail. `Resolution` has the listing as its state (`Publish`, which records
the latest tag, and `Unlist`, a yank) and the three resolvers as operators.

The three dialects read some comparators differently, and `ReadAlike` names the ones
they read alike: not `>` or `<=` over a version with parts missing (the run `Dialect`,
below), not a prerelease of a version with parts missing, and not a bare wildcard
after `<`. `DialectsMeet` says that the
requirements of an instance are among them; `Components` assumes it, and so does the
theorem about the three clients. Which strings Cargo reads as a range is taken from
the mirrors' own test; Cargo's parser is an external crate.

### NamespacePlan, PackageSecurity, LockPath

`NamespacePlan` has the three planners, provider by provider, and their admission
checks. A behaviour is a request to which providers are added. `PlansAgree` is about
the requests all three admit: the mirrors' plans are equal, Rust's has their summary,
and its steps agree with theirs (`StepsAgree`: the same are left to a person, and it
states at least their prerequisites).
`PackageSecurity` has `Produce` (normalise, seal), `Change` (a reordering, another
case, or a different value of one field) and `Receive` (validate, recompute,
compare). `LockPath` has a step per file-system call of `ensure_lock_parent` and
`open_validated_lock_file`, on both platforms, with other programs of the same
user that create or replace things; `calm` says they have not yet.

### MCComponents

These components share no variable with one another, with the lock or with
publication, so that any interleaving of two of them is an interleaving of each
alone. `MCComponents` therefore checks them in one run by letting `focus`, chosen
at the start, say which of them moves; the others rest. No interleaving inside a
component is lost, and properties that relate two of them do not exist.

## Runs

| Run | Instance | Shows |
|---|---|---|
| `LockAll` | 2 requests, every way in, both policies, 2 processes that may die, a panicking sink, cap 1; 618 000 states | `TypeOK`, `Lifecycle`, `GuardsAgreeWithKernel`, `ResultsReachReceivers`, `EventsConsistent`, and that it implements `LockService` |
| `LockTrio` | 3 requests (waiters of one process, an owner in another that may die), cap 2; 1.2 million states | `ReservationsExact`, `NoWaitBehindOwnReservation`, `WaiterCap` |
| `LockLive` | an owner that may keep the lock for ever, callers with deadlines; 39 000 states | `TimeoutReturns`, `DetachedGrantReleased`, `SleeperServed`, `RequestsResolve`, `ReservationsReturned` |
| `OrderShared` | 3 threads, 2 in one process, 3 keys in 2 classes; 219 000 states | `NoDeadlock`, `NestingAscends`, `ListMatchesGuards`, `SetsDoNotInvert`, `SetsUnwindDownward` |
| `OrderMoves` | the same threads, waiters and moved guards, one path under two classes; 15 500 states | `TypeOK`, `WaitsForOthersOnly` |
| `PublishMixed` | 4 calls on 2 packages of one organization, 3 versions; 44 700 states | `TypeOK`, `LedgerFollows`, `RollupExact`, `ReceiptsTrue`, `HistorySpec`, `CallsEnd` |
| `Components` | the instances below, one at a time; 169 000 states | `MembershipSpec`, `AuthorisedWhenCalm`, `PrimaryKept`, `PromotionAnswersTrue`; `SealedExact`, `GraphAnswersTrue`; `OnceOnlySpec`; `LedgerTrue`; `ResolutionTrue`; `PlansAgree`; `ClosureTrue`; `LockPathTrue`; `ReadsTrue` |
| `LockQueueOwner`, `LockSinkPanic`, `OrderMovedGuard`, `PublishRace`, `Dialect` | the smallest instances that show it | each a disagreement, see below |

**Bounds.** The lock's interesting cases are races of two requests for one path
(owner and waiter, waiter and retry, two ways in); a third is needed only for
the waiter cap and for a reservation that a waiter holds while an owner and a
newcomer use the path, which is what `LockTrio` is for. Two contexts suffice for
a future that moves between tasks once. The hierarchy needs three threads for a
circle longer than two and a process that has two of them, so that
reservations and waiting interact. `MaxStale` bounds the entries that moved
guards leave behind, which have no bound in the code; one is enough to see the
list differ. Publication needs one call for each role: a first publication that
may fail (`c1`), its retry, a second version or a repair of it (`c2`), a second
package, a conflicting publication, a second repair or an account call (`c3`),
and a download, an upload or a publication of the replacement artifact (`c4`).
Deadlock is checked in every run; `Terminated` is the stuttering step of a run
whose calls are all over.

The instances of `Components`:

| Component | Instance |
|---|---|
| account plane | 3 callers, one of which may fail, in fixed mixes: joining (two invitations, two acceptances), licensing (three primaries, one unchecked; one for a version), promoting (two promotions, a change of visibility, a download), moving (settings against promotion, upload, creation). Window of 0 days and 0 downloads, so that one tick or one download closes it; one intervention of an operator |
| graphs | 3 writers of equal, rival and linked graphs and a reader; one deletion or retirement; and every edge set over three versions, cycles and self-loops among them, once for the analysis, and a document with a node twice. Page of 2 edges |
| idempotent stores | 3 calls: every pair of requests beside a first one, that agree or not in key, address and content |
| migrations | 3 runners over an empty database, one of each release, and each of those dirty |
| resolution | every listing of at most 2 versions of 12 spellings in 3 schemes, with yanks; 50 requirements |
| plans | a portable and another name of each kind; any 3 of the providers |
| closures | closures of 0 to 4 dependencies, where 3 is the limit, and each malformation; 2 changes on the way |
| lock paths | 2 openers, 2 directories, 11 states of the path; another program once |
| reads | one viewer, one of 12 questions while others write twice, over 2 organizations with a project, 2 packages and 3 versions, pages of 3, a limit of 1 reference; or a search beside 3 indexers of one or two entities, contents and dimensions |

Three callers are what a race of two needs with one to disturb it, and what a
circle of waits longer than two would need; two versions of a listing are enough
for a wrong choice, since a resolver keeps the better of two at a time. These
systems stop when every call has been answered, and deadlock is not checked in
this run. A wait for ever is not mistaken for that: of the locks modelled here,
only `GraphPersist` has two, and `GraphAnswersTrue` includes that no two writers
wait for each other.

**Fairness.** The specifications of `Components` state none: their properties are
safety. `ZedLock!Fairness` is weak fairness of what the library's own
threads do, of a caller that was woken, and of deadlines: an operating system
schedules runnable threads. The kernel serves some waiter of a free path (not
each: `flock` promises no order). Nothing forces a caller to release a guard;
where a property needs it, `CallersRelease` is its premise. Spurious wake-ups,
cancellations and deaths are never forced. `MachinePublish!Fairness` is weak
fairness of each call's next statement and of the deadlock detector: a server
awaits each statement and PostgreSQL answers those that can run, and checks for
deadlock after `deadlock_timeout`. Failures are never forced. Advisory and row
locks are granted in queue order by PostgreSQL; weak fairness does not assume
even that, because each call takes each lock once.

**What the properties are for.** `PROJECT.json` lists the hazards, each at its
line with the properties that would catch it. The ones that take several actors
to break: `GuardsAgreeWithKernel` and `ReservationsExact` (a late grant, a
failure after a reservation, a death), `ResultsReachReceivers` (poll and publication),
`NoDeadlock` (nesting across processes), `LedgerFollows` and `ReceiptsTrue` (a
retry whose first answer was lost, and may follow a repair), `RollupExact` (a
count read before a wait), `CallsEnd` (a download that locks package then
version against a repair that locks version then package), `PrimaryKept` (a
demotion whose snapshot is older than another insertion), `PromotionAnswersTrue`
(a pre-check on a stale row against a trigger with another clock),
`MembershipSpec` (a token looked up, then consumed, while it is revoked or used),
`GraphAnswersTrue` (replays against deletions), `OnceOnlySpec` (an insertion
absorbed by a row whose transaction may yet be rolled back), `LedgerTrue` (a
runner that dies between a step and its ledger row), `LockPathTrue` (a file
replaced between its validation and its use), `ReadsTrue` (a membership that ends
between the statement that reads it and the one that relies on it).

## Proofs

All theorems hold for every set of requests, threads, processes, paths, calls
and rows that meets the constants' assumptions; the sets need not be finite.

**ZedLockProofs.** Types and the `Lifecycle` relation between the two control
points of a request are inductive together (`Typing`, `LifecycleHolds`) and everything
rests on them.
`GuardsHold` adds the kernel; `OwnersExclude` (two callers never have guards of
one path) follows. `ResultsReach` (from `NothingForTheDropped` and
`SleepersAreWoken`) needs `WakeupInv`: a caller asleep on an empty slot after a poll is the one whose
waker is registered, and a caller that is not pending sleeps on nothing;
`NoLostWakeup` alone says nothing of a sleeper before the publication. In the
same way `EventInv` says which events fit each stage, so that the next event
cannot contradict them.
`ReservationsHold` and `NoOwnWait` assume `SinkPanics = FALSE`; without that they
are false, which is the disagreement `LockSinkPanic` shows. `CapIsKept` counts
permits with the library's cardinality theorems: `CapInv` adds to `WaiterCap`
that the permits of a process are a finite set, however many requests there are.
`ImplementsService` maps each
action to a step of `LockService` or a stutter.

**LockOrderProofs.** `OrderTyping` and `ReservationsSeparate` hold with waiters
and moved guards. Without waiters (`~Workers`) and moves (`~Moves`) `ListsMatch`
shows the thread-local list to be the guards, and `NestingHolds` that what a
thread waits for is above all it has. `NoCircularWait` is then an argument on
an arbitrary non-empty set of threads each of which waits for another of the
set: one of them waits for a highest key (lemma `Highest`: ranks are 16-bit and
paths are assumed to have a bound), and the thread it waits for waits for a key
above that. `SetsInOrder` shows that a lock set is refused only against a lock its
thread held before: the requests are sorted, so that what is left of a set is above
what it already took. `NoCircularWait` also assumes one class per path, since locks are per path and the
order is per key.

**MachinePublishProofs.** The invariant `IInv` has, besides types and
`LedgerFollows`, a part `Sound(c)` per call: where its script can be, which locks
it has (`Owns`), and what it has read is still so (`AdoptionReads`,
`RepairReads`). That last part is why the advisory lock matters, and it is what
a step of another call can disturb: lemma `OthersSound` shows it does not,
because an adoption or repair of the same package would need the lock, and the
calls that do not take it write none of the rows in question. `LedgerOfPublished`
(upload rows are of published versions) is needed for the backfill, and
`RollupCurrent` for the counts a trigger read. From `IInv`: `PublishTyping`,
`LedgerHolds`, and `ImplementsHistory`, where each commit is matched with
`Publish` or `Repair` of `ReleaseHistory` and everything else with a stutter.
`RollupHolds` adds that the counter is the cardinality of the committed
downloads. `ReceiptsHold` adds `Told`: the last audit row of a version shows
what it is (`TrailCurrent`), what an adoption found or made exists (`Placed`), and
a call that was told `inserted` is the only one. Conflicts, failures, lost
answers and deadlock victims are part of `Next` in all of these.

**StoreProofs, the idempotent stores.** `OnceOnlyHolds` shows both stores to implement `OnceOnly` for
any number of callers and any requests. The invariant adds `Unsettled` to the
types: a row that is inserted but not committed conflicts with no other, so that
its commit is the first of its key; and an insertion that was absorbed finds the
row that absorbed it, because rows are never deleted. A commit is matched with
`First`, a look-up with `Again`, `Hidden` or `Refuse`, and the rest with stutters.

**AccountControlProofs.** For any users, targets, packages, requests and faults
that satisfy `ControlAssumption`: owners are organizations, a request has the
fields its operation reads, only the operations named `for_user` check a role, an
acceptance presents an address of its user, and `None` is none of the values it
stands for the absence of. The invariant is `Inv`: types (`ControlTyping`) and, per
transaction, `Fits`, which says what kind of request can be at each statement,
that its demotion saw and locked licences of its own scope only, that the
invitation it is about to consume has its address, and `Seen`: the row of the
package it read without a lock is still there, as old as it was, with no fewer
downloads, and public if it was. A step of another transaction keeps all that
because packages and invitations only grow (`Grows`, `FitsStable`). On it stand
`PrimaryHolds` (`OnePrimary`: an insertion takes the place of every primary of its
scope, or meets the unique index), `MembershipHolds` (each write of a role or an
invitation is a step of `Membership`, everything else a stutter), `PromotionHolds`
(`AnswerIsTrue`: an answer is true when given, because what it was decided on can
only have moved towards it; `AnswerStable`: and it stays true) and
`AuthorisedHolds` (`Backed`: what a transaction found out about roles holds for as
long as nobody disturbs it).

**LockOrderProofs, the path.** `LockPathHolds`, for any openers, any number of directories and
anything at the path's levels at first (`LockPathAssumption`). The invariant is that
an opener knows, at each step, what it has made sure of (`Placed`); no step takes that
from it, because things are made only where there is nothing and otherwise only become
private (`Kept`). That a missing directory was missing at the start (on Unix) is what
allows tightening it; that a settled level exists is why the parent is there to be
validated, whoever made it.

**StoreProofs, the migrations.** `LedgerHolds`, for any number of runners and any
databases whose ledgers are in force. `MigrationInv` says of the database that what it
records is in force and that it is current once anything was committed
(`DatabaseInv`); of each runner, by stage, that since it took the lock nobody changed
the database it read, that its own view is what that database and its work make, and
that what it has done comes before what it has left (`RunnerInv`, `Underway`); and that
one runner at most is under way (`OneRunner`) and one reports that it applied
something (`OneAnswer`). `OneRunner` is what makes the rest stable: nobody but the one
under the lock can commit.

**GraphPersistProofs.** `GraphsMeasured`, for any graph: a claim is accepted exactly if
the graph is connected and the claim is its `Meaning`. The searches are recursive
functions; that they exist, keep an invariant and are over after their rounds is shown
once, by the least counterexample (`RunExists`, `RunStays`, `RunEnds`), with what is left
to do as the measure. Breadth first (`BreadthInv`): the queue is in order of depth and
spans two depths at most, so that no edge leads further than one on, and each depth is
that of a walk; hence the least (`DepthsAre`). Depth first (`DeepInv`): each frame reaches
those above it, so that the last to finish of what a node reaches is of its class
(`Closing`). So a reverse search that starts there and stays out of what no edge enters
(`Upstream`) assigns exactly the class (`ComponentIsClass`), and the tally counts the
cycles (`CyclicComponentsAre`). Documents of the declared view need no search.

`GraphsSealed` and `GraphAnswers`, for any writers, readers, documents and removals. The
invariant has that no two transactions hold one key (`KeysApart`) and, per writer
(`WriterInv`), that what it looked up under its locks is still so, and that a digest or
a declaration it did not find is not there: an insertion of an equal one would need
the same lock. Acyclic waiting
follows from digest locks being taken before root locks. An artifact that a writer or a
reader goes by stays as it was until its root goes (`Kept`).

**RegistryReadsProofs.** `ReadsHold`, for any calls, viewers and writes meanwhile, any
finite set of entities and any page that meet `ReadsAssumption`: versions have numbers
of their own in a package, listings have no ties, and questions have their fields. The
invariant `ReadsInv` says by stage what a call goes by (`GoesBy`): the page of its
viewer's organizations holds what he belonged to all the while or is full
(`OrgsRead`), a role that was never lost was found (`RoleRead`), the coordinates of a
list are those of versions not yanked before (`Coordinates`), and what was found of an
artifact's packages, with the roles read so far, bounds the decision from both sides
(`Gated`). All of it is stable because what others write moves one way (`Moves`): rows
only go, `May` only grows and `Must` only shrinks (`Bounds`). Pages need two facts
about finite sets: what a linear order leaves out of the first n comes after n
(`FirstOf`, by counting the ranks), and an injection of keys into rows
makes the second page of `current` hold the first. For the embeddings the invariant
keeps one row of each identity, with the time of the upsert that wrote it unless
another overwrote it (`RowsKept`, `WritersKept`); an upsert that ends during a search
is not one the search answers for, since its end is no earlier than the search's
beginning. The proof found the property wrong as it first stood: it spoke of
vectors "still stored", and an older vector counts as stored again when another upsert
writes the same one.

**ClientProofs, the closures.** `ClosuresHold`, for drafts of any length and any
changes on the way (`ClosureAssumption`). A sort is the order in which it takes the
elements (`Sorting`), so that what a sort needs is counting, not induction:
`SortOrder` shows from a comparator that is a strict weak order that places are
taken once each and in order, stably. `KeyOrder` shows that the sort key is such an
order; `OneNormalForm` that two lists without a repeated key that hold the same
dependencies sort to the same list, to the letter. The invariant `TransferInv` keeps
that what is sealed is its own normal form (`NormalizesToItself`) and that no change
touches the claim but its case (`ChangesKeep`: evidence travels, nobody forges a
claim); `WhatMeansTheSame` and `WhatHasThePreimage` are the two directions of "accepted
exactly if it means the same". The digest is injective by construction of the model,
as the assumption about SHA-256 says. That the
check of neighbours in the sorted list finds every repeated key is `UnlikeNeighbours`.

**ClientProofs, the planners.** `PlannersAgree`, for any names, any of which may be
portable, and requests of any length. Per provider, the two mirrors give the same
entry, and Rust's has the same summary and steps that agree with theirs
(`NpmCoordinated` to `ForgeCoordinated`); the coordinates of a provider are those
of `ProofOf`, and steps a person performs come after a check. A request that is
admitted names no provider twice, so that the sort by place is strict (`ByPlaceHolds`).

**ClientProofs, the resolvers.** `ClientsResolveAlike`, for any spellings, requirements
and length of the listing, under `DialectsMeet`; `MirrorsAgree` says of TypeScript and
Dart alone that they agree without it. The invariant of the listing is small
(`ListedOnce`: no tag is listed twice, which the exact tag needs); the rest is about the
algorithms. The five readings a parser tries give one version or none (`ParsedIs`,
`DartParsedIs`). A release stands to any version as `Meets` says, in both orders
(`OrderIs`). The bounds that a comparator is expanded to are the same in both mirrors
(`ExpandIs`), and a release meets them exactly if Cargo's comparator admits it
(`TokenAgrees`: `FromIs`, `CaretIs` and `TildeIs` by how many numbers are given). So the
three accept the same versions (`AcceptedAlike`). The loop over the listing is a
recursive function (`Scan`): that it exists and that it ends at the last of the greatest
(`ScanIs`) is shown by the least counterexample, and `BestIs` has it that the order of
releases is one for which that is so.

**Only model-checked.** Every liveness property (`TimeoutReturns`,
`DetachedGrantReleased`, `SleeperServed`, `RequestsResolve`,
`ReservationsReturned`, `CallsEnd`): TLAPS does not reach liveness under
fairness. 
## Where the code and its documentation disagree

Each of the first five is a run that TLC ends with a counterexample.

1. `LockQueueOwner`. Only `Reject` requests enter the reservation table
   (`lib.rs:638`). A `Queue` request owns the path, and a later `Reject` request of
   its process passes the check (`RejectPassesAlone` is an action property, about
   that moment), after which nothing keeps it from waiting in the kernel behind its
   own process; `SameProcessPolicy` says it fails before a kernel wait when "the same
   process already owns or is waiting" (`lib.rs:116-120`).
2. `LockSinkPanic`. A sink that panics while told of `Acquired` (`lib.rs:451`)
   leaves the reservation behind; later requests are refused because the "same
   process already owns or is waiting for" a path nobody owns (`lib.rs:644`).
3. `OrderMovedGuard`. A guard dropped on another thread shortens that thread's
   list (`lib.rs:77`); the first thread is told of an inversion "while this
   thread already holds" a class it does not hold (`lib.rs:50`).
4. `PublishRace`. The comment at `publication.rs:77-79` says the advisory lock
   covers the unique indexes on organizations and packages without relying "on
   a find-then-insert race". The lock is per package: two first packages of one
   new organization race to find and insert the organization, and one
   publication fails on `zed_orgs_slug_active_uq`.

5. `Dialect`. A comparator `>` or `<=` over a version with parts missing: Cargo
   reads `>1.2` as `>=1.3.0` and `<=1.2` as `<1.3.0`; the two mirrors fill the
   parts with zeros (`src/ts/version.ts:326`), although
   `conformance/README.md` says that the "hand-written Dart and TypeScript
   algebra agrees with Cargo". `Components` leaves these requirements out.

Found while reading, without a run:

- `acquire_many_blocking` is documented to "deduplicate" (`lib.rs:585`,
  `src/rust-lock/README.md:20`); it refuses a set with a duplicate path.
- `register_package_upload` takes no lock and compares no facts. A verified row
  of the old digest that commits after a repair read the ledger
  (`publication_repair.rs:196`) stays, while the doc promises "every matching
  verified upload-ledger row" (`publication_repair.rs:81`). `LedgerFollows` is
  about rows that adoptions wrote, which the repair always carries along.
- `adopt_machine_publish` creates organizations without a member;
  `write.rs:121-122` says an organization "can never exist with nobody able to
  administer it" of `create_org`.
- `account.rs:3-7` speaks of no gap between check and use; the role is read
  without a row lock under READ COMMITTED. `AuthorisedWhenCalm` is what remains.
- An invitation that expired and was not revoked keeps its address from being
  invited again: the pending index ignores `expires_at` (`sql/registry.sql:200`).
- An acceptance by someone who is a member already fails: `exec` answers an
  insertion that `ON CONFLICT DO NOTHING` skipped with `RecordNotInserted`
  (`invitations.rs:96-110`, `147-164`), and the transaction rolls back. The
  invitation stays open and keeps its address from being invited again.
- A replay of a graph one of whose linked packages was retired is refused before
  its digest is looked up (`registry/graphs.rs:421`, `423`). The foreign keys of
  edge links say `ON DELETE SET NULL`, which the trigger on sealed edges refuses
  (`sql/registry.sql:760-801`). `load_snapshot` reads artifact and edges in two
  statements, between which a cascade may delete them. The page limit of edges
  truncates without a cursor.
- The limit of a digest query counts joined rows, not packages (`read.rs:443`).
- Dart's `int.tryParse` accepts a sign in a number; JavaScript loses precision
  beyond 2^53 where Dart's `int.parse` throws.
- `requirement_matches` accepts an opaque tag `1.2.3` for which
  `resolve_version` answers that the requirement is invalid
  (`src/rust/resolve.rs:104`, `142`).
- The planners differ in the prerequisites of steps, which only Rust names for the
  owner and record steps of crates.io and the record steps of Maven, pub.dev and
  the forges. `PlansAgree` asks the mirrors for equal plans, and of Rust's the same
  summary, the same manual steps and at least the mirrors' prerequisites.
- `ensure_lock_parent` may tighten a directory that another program made
  between its check and its creation.

## What is not modelled

- Of the lock: what a worker that panics inside `Waker::wake` does to the
  result, executors that poll inside `wake` (`lib.rs:928`: one that polls on the
  thread that wakes it would join itself), sinks that panic at other events, and
  shared (reader) locks, which the crate does not offer. `LockPath` has access
  classes in place of mode bits and Windows security descriptors; the parsing of
  SDDL and the calls of the Windows API are left out.
- Of the control plane: uploads in other states than verified, downloads without
  a version, package metadata, encryption of intake bodies, and formats of
  digests and keys, which `validate` and `validate_historical_repair` settle
  before the transaction begins (`RequestsValid` keeps the one consequence the
  transactions rely on: a repair's two artifacts differ).
- PostgreSQL is taken at its documentation: the waits, the conflicts, the
  deadlock detector and atomic commits are assumptions of `MachinePublish`.
- Of the reads: lookups by key that decide nothing, `packages_for_project`,
  `versions_for_package`, readiness and `ping`; how text matches and how similarity is
  computed.
- Connection strings, entity declarations, code generators, generated contracts and the repository's own Quint models: queries
  without effects, formats and generated text. The modules here are translated
  from the Rust, SQL, TypeScript and Dart sources.

## What is left

Every component with state of its own is modelled, and every safety property that a
passing run checks is proved, the graph analysis and the resolvers included. What is
left to TLC is liveness.

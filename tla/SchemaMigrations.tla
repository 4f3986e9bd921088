-------------------------- MODULE SchemaMigrations --------------------------
(* migrations.rs: runners that bring a registry database to the current schema, *)
(* each in one transaction under an advisory lock, recording every step in a     *)
(* ledger. Any runner may die at any statement, or start again.                  *)
EXTENDS Naturals, Sequences

CONSTANTS
  Runners, NoAnswer,
  Databases    \* what runners may find: [schema, dirty], see DatabasesAssumption

\* MigrationStep::ORDERED; a step stands for its version, too.
Ordered == [base |-> 1, graph |-> 2, visibility |-> 3, policy |-> 4, integrity |-> 5]
Steps == DOMAIN Ordered
Forward == Steps \ {"base"}

VARIABLES
  first,       \* the database the runners found
  db,          \* what is committed: [ledger, tables, graph, rule, facts, integral]
  dirty,       \* are there rows that contradict a later constraint?
  history,     \* the steps committed so far, in order
  runner       \* [stage, saw, plan, work, view, result]

migrationVars == <<first, db, dirty, history, runner>>

\* What the ledger records is in force; no release recorded the policy step without
\* the visibility step before it, or anything without the base tables.
InForce(d) ==
  /\ d.ledger # {} => d.tables
  /\ "graph" \in d.ledger => d.graph
  /\ "policy" \in d.ledger => /\ d.rule = "decision" /\ d.facts
                              /\ "visibility" \in d.ledger
  /\ "integrity" \in d.ledger => d.integral

LedgerVersions == Steps \cup {"legacy"}   \* a version of an older release, too
Schemas == [ledger : SUBSET LedgerVersions, tables : BOOLEAN, graph : BOOLEAN, facts : BOOLEAN,
            integral : BOOLEAN, rule : {"none", "transaction", "decision"}]

ASSUME AnswersAssumption == NoAnswer \notin {"applied", "current", "error", "crashed"}
ASSUME DatabasesAssumption ==
  /\ Databases \subseteq [schema : Schemas, dirty : BOOLEAN]
  /\ \A d \in Databases : InForce(d.schema)

Rested == [stage |-> "idle", saw |-> FALSE, plan |-> {}, work |-> <<>>, view |-> NoAnswer,
           result |-> NoAnswer]

MigrationStart(d) ==
  /\ first = d /\ db = d.schema /\ dirty = d.dirty /\ history = <<>>
  /\ runner = [r \in Runners |-> Rested]

MigrationInit == \E d \in Databases : MigrationStart(d)
-------------------------------------------------------------------------------
\* What the SQL of a step does to the schema. registry.sql is the whole desired state
\* of its day; the visibility and the policy steps replace one function, the rule
\* that decides promotions by the clock of the transaction or of the decision.
Effect(d, step) ==
  [ledger |-> d.ledger \cup {step},
   tables |-> d.tables \/ step = "base",
   graph |-> d.graph \/ step \in {"base", "graph"},
   facts |-> d.facts \/ step = "policy",
   integral |-> d.integral \/ step = "integrity",
   rule |-> IF step = "policy" THEN "decision"
            ELSE IF step \in {"base", "visibility"} THEN "transaction" ELSE d.rule]

\* Its statements raise: triggers that exist, tables that do not, rows that contradict
\* a constraint, a version that is recorded.
Raises(d, step) ==
  \/ step \in d.ledger
  \/ step = "base" /\ d.tables
  \/ step # "base" /\ ~d.tables
  \/ step = "integrity" /\ dirty

MigrationPlan(ledgerHasEntries, hasBaseTable, recorded) ==
  LET initialized == ledgerHasEntries \/ hasBaseTable \/ recorded # {} IN
  {s \in Steps : IF s = "base" THEN ~initialized ELSE s \notin recorded}
-------------------------------------------------------------------------------
InMigration(r) == runner[r].stage \notin {"idle", "lock", "done"}
Advance(r, next) == runner' = [runner EXCEPT ![r] = next]
Report(r, result) == Advance(r, [runner[r] EXCEPT !.stage = "done", !.result = result])
Uncommitted == UNCHANGED <<first, db, dirty, history>>

BeginMigration(r) ==
  runner[r].stage = "idle" /\ Advance(r, [runner[r] EXCEPT !.stage = "lock"]) /\ Uncommitted

\* Slip: no advisory lock.
MutexNot(r) == TRUE

\* pg_advisory_xact_lock and the ledger table, before anything is read.
Mutex(r) == \A q \in Runners : ~InMigration(q)
TakeLock(r) ==
  /\ runner[r].stage = "lock" /\ Mutex(r)
  /\ Advance(r, [runner[r] EXCEPT !.stage = "ledger"])
  /\ Uncommitted

ReadLedger(r) ==
  /\ runner[r].stage = "ledger"
  /\ Advance(r, [runner[r] EXCEPT !.stage = "plan", !.saw = db.ledger # {}])
  /\ Uncommitted

\* The table marker, the recorded versions, and the plan. From here on the runner
\* sees its own changes, and no one else's: whoever commits has the lock.
PlanSteps(r) ==
  /\ runner[r].stage = "plan"
  /\ LET plan == MigrationPlan(runner[r].saw, db.tables, db.ledger \cap Steps) IN
       Advance(r, [runner[r] EXCEPT !.stage = IF plan = {} THEN "commit" ELSE "apply",
                                    !.plan = plan, !.view = db])
  /\ Uncommitted

\* The first step left of the plan, within the transaction; an error ends it.
IsFirst(step, plan) == step \in plan /\ \A s \in plan : Ordered[step] <= Ordered[s]
ApplyStep(r) ==
  LET plan == runner[r].plan  view == runner[r].view IN
  /\ runner[r].stage = "apply"
  /\ \E step \in plan :
       /\ IsFirst(step, plan)
       /\ IF Raises(view, step) THEN Report(r, "error")
          ELSE Advance(r, [runner[r] EXCEPT !.stage = IF plan = {step} THEN "commit" ELSE "apply",
                                            !.plan = plan \ {step},
                                            !.work = Append(@, step),
                                            !.view = Effect(view, step)])
  /\ Uncommitted

CommitMigration(r) ==
  /\ runner[r].stage = "commit"
  /\ db' = runner[r].view
  /\ history' = history \o runner[r].work
  /\ Report(r, IF runner[r].work = <<>> THEN "current" ELSE "applied")
  /\ UNCHANGED <<first, dirty>>

\* The job dies or loses its connection, and is started again or not.
MigrationCrash(r) ==
  /\ runner[r].stage \notin {"idle", "done"}
  /\ Advance(r, [Rested EXCEPT !.stage = "done", !.result = "crashed"])
  /\ Uncommitted
MigrationRestart(r) ==
  /\ runner[r].stage = "done" /\ runner[r].result \in {"crashed", "error"}
  /\ Advance(r, Rested)
  /\ Uncommitted

\* An operator repairs the rows that the integrity step refuses.
Repair ==
  /\ dirty
  /\ dirty' = FALSE
  /\ UNCHANGED <<first, db, history, runner>>

Migrate(r) ==
  \/ BeginMigration(r) \/ TakeLock(r) \/ ReadLedger(r) \/ PlanSteps(r) \/ ApplyStep(r)
  \/ CommitMigration(r)
MigrationNext == Repair \/ \E r \in Runners : Migrate(r) \/ MigrationCrash(r) \/ MigrationRestart(r)

MigrationSpec == MigrationInit /\ [][MigrationNext]_migrationVars
-------------------------------------------------------------------------------
IsCurrent(d) == /\ Forward \subseteq d.ledger
                /\ d.tables /\ d.graph /\ d.rule = "decision" /\ d.facts /\ d.integral

\* Whatever release left the database, and however runners race, die and restart:
\* every step is committed at most once and in the order of the ledger, the base only
\* on an empty database; what the ledger records is in force; a runner errs only on
\* rows an operator must repair, and answers only when the schema is current; and one
\* runner at most says that it changed it, the one that committed all there was to do.
LedgerTrue ==
  /\ \A i, j \in DOMAIN history : i < j => Ordered[history[i]] < Ordered[history[j]]
  /\ (\E i \in DOMAIN history : history[i] = "base") =>
        ~first.schema.tables /\ first.schema.ledger = {}
  /\ InForce(db)
  /\ \A r \in Runners :
       /\ runner[r].result = "error" => first.dirty
       /\ runner[r].result \in {"applied", "current"} => IsCurrent(db)
       /\ runner[r].result = "applied" => runner[r].work # <<>> /\ history = runner[r].work
  /\ \A q, r \in Runners :
       runner[q].result = "applied" /\ runner[r].result = "applied" => q = r
===============================================================================

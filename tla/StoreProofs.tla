----------------------------- MODULE StoreProofs -----------------------------
(***************************************************************************)
(* Proofs about what the stores keep across retries, races and restarts.   *)
(*                                                                         *)
(* OnceStores: the two idempotent stores implement OnceOnly, for any       *)
(* number of callers and any requests.  The argument is in Unsettled: a    *)
(* row that is inserted and not yet committed conflicts with no other,     *)
(* committed or not, so that its commit is the first of its key; and a     *)
(* call whose insertion was absorbed finds the row that absorbed it,       *)
(* because rows never go.                                                  *)
(*                                                                         *)
(* SchemaMigrations: for any number of runners and any set of databases    *)
(* that DatabasesAssumption admits.  The inductive invariant says of the   *)
(* one runner inside its transaction what it may count on: every step it   *)
(* misses is either planned or in force in what it sees, the plan lies     *)
(* after its work in the order of the ledger, and a plan that is not empty *)
(* is the first since the runners found the database.                      *)
(***************************************************************************)
EXTENDS OnceStores, SchemaMigrations, TLAPS

\* What a call can be told.
Answers ==
  {Nobody, <<"lost">>, <<"conflict">>} \cup ({"first", "again"} \X Clients)

\* Where a call is: answered only at the end.
Placed ==
  /\ stage \in [Clients -> {"insert", "existing", "outbox", "commit", "done"}]
  /\ answers \in [Clients -> Answers]
  /\ rows \subseteq Clients
  /\ \A c \in Clients : stage[c] # "done" => asked[c] # Nobody /\ answers[c] = Nobody

\* What an insertion that is pending, or was absorbed, tells of the other rows.
Unsettled ==
  /\ \A c \in Pending, d \in rows : ~Conflicts(asked[c], asked[d])
  /\ \A c, d \in Pending : c # d => ~Conflicts(asked[c], asked[d])
  /\ \A c \in Clients : stage[c] = "existing" => \E d \in rows : Conflicts(asked[c], asked[d])

OnceInv == Placed /\ Unsettled

\* The conflicts are those of unique constraints.
LEMMA ConflictsSymmetric ==
  ASSUME NEW r, NEW s, Conflicts(r, s)
  PROVE  Conflicts(s, r)
BY DEF Conflicts, SameKey, SameEmail

\* Every call starts before its insertion, over an empty table.
LEMMA OnceInvInit == StoreInit => OnceInv
BY SMT DEF StoreInit, StoreStart, OnceInv, Placed, Answers, Unsettled, Pending

\* No statement of a call spoils what the others know.
LEMMA OnceInvStep == OnceInv /\ [StoreNext]_storeVars => OnceInv'
<1> SUFFICES ASSUME OnceInv, [StoreNext]_storeVars PROVE OnceInv'
  OBVIOUS
<1> USE DEF OnceInv, Placed, Answers
<1>1. ASSUME NEW c \in Clients, Insert(c) PROVE OnceInv'
  <2>1. CASE \E d \in rows : Conflicts(asked[c], asked[d])
    BY <1>1, <2>1 DEF Insert, Goto, Unsettled, Pending
  <2>2. CASE ~\E d \in rows : Conflicts(asked[c], asked[d])
    <3>1. Placed' BY <1>1, <2>2 DEF Insert, Goto
    <3>2. Pending' = Pending \cup {c} BY <1>1, <2>2 DEF Insert, Goto, Pending
    <3>3. \A d \in Pending : ~Conflicts(asked[d], asked[c])
      BY <1>1, ConflictsSymmetric DEF Insert, Pending
    <3>4. Unsettled'
      BY <1>1, <2>2, <3>2, <3>3 DEF Insert, Goto, Unsettled
    <3> QED BY <3>1, <3>4
  <2> QED BY <2>1, <2>2
<1>2. ASSUME NEW c \in Clients, LookUp(c) PROVE OnceInv'
  <2>1. PICK answer \in Answers : Reply(c, answer)
    <3>1. Existing(c) \subseteq Clients BY DEF Existing
    <3> QED BY <1>2, <3>1 DEF LookUp
  <2>2. stage[c] = "existing" /\ UNCHANGED <<asked, rows, outbox>>
    BY <1>2 DEF LookUp
  <2>3. stage' = [stage EXCEPT ![c] = "done"] /\ Pending' = Pending
    BY <2>1, <2>2 DEF Reply, Goto, Pending
  <2>4. Placed' BY <2>1, <2>2 DEF Reply, Goto
  <2>5. Unsettled' BY <2>2, <2>3 DEF Unsettled
  <2> QED BY <2>4, <2>5
<1>3. ASSUME NEW c \in Clients, Announce(c) PROVE OnceInv'
  BY <1>3 DEF Announce, Goto, Unsettled, Pending
<1>4. ASSUME NEW c \in Clients, Commit(c) PROVE OnceInv'
  <2>1. c \in Pending /\ Pending' = Pending \ {c} /\ rows' = rows \cup {c}
    BY <1>4 DEF Commit, Reply, Goto, Pending
  <2>2. Placed' BY <1>4 DEF Commit, Reply, Goto
  <2>3. Unsettled' BY <1>4, <2>1 DEF Commit, Reply, Goto, Unsettled
  <2> QED BY <2>2, <2>3
<1>5. ASSUME NEW c \in Clients, Drop(c) PROVE OnceInv'
  BY <1>5 DEF Drop, Reply, Goto, Unsettled, Pending
<1>6. CASE UNCHANGED storeVars
  BY <1>6 DEF storeVars, Unsettled, Pending
<1> QED BY <1>1, <1>2, <1>3, <1>4, <1>5, <1>6 DEF StoreNext

\* The invariant holds throughout.
LEMMA OnceInvHolds == StoreSpec => []OnceInv
BY OnceInvInit, OnceInvStep, PTL DEF StoreSpec

\* A lookup finds the row that absorbed the insertion by its key; if there is none,
\* it was absorbed by its address, which only the intake has.
LEMMA LookUpPromised ==
  ASSUME OnceInv, NEW c \in Clients, LookUp(c)
  PROVE  Promise!Again(c) \/ Promise!Refuse(c) \/ Promise!Hidden(c)
<1>1. /\ stage[c] = "existing" /\ answers[c] = Nobody
      /\ UNCHANGED <<asked, rows, outbox>>
  BY DEF LookUp, OnceInv, Placed
<1>2. Promise!Same(c) = Existing(c)
  BY DEF Promise!Same, Existing
<1>3. ASSUME NEW d \in Existing(c),
             Reply(c, IF asked[d].content = asked[c].content THEN <<"again", d>> ELSE <<"conflict">>)
      PROVE  Promise!Again(c) \/ Promise!Refuse(c)
  BY <1>1, <1>2, <1>3 DEF Reply, Promise!Again, Promise!Refuse, Promise!Tell
<1>4. ASSUME Existing(c) = {},
             Reply(c, IF asked[c].store = "intake" THEN <<"again", c>> ELSE <<"conflict">>)
      PROVE  Promise!Hidden(c)
  <2>1. PICK d \in rows : Conflicts(asked[c], asked[d])
    BY <1>1 DEF OnceInv, Unsettled
  <2>2. SameEmail(asked[c], asked[d])
    BY <1>4, <2>1 DEF Existing, Conflicts
  <2>3. asked[c].store = "intake"
    BY <2>2 DEF SameEmail
  <2> QED BY <1>1, <1>2, <1>4, <2>2, <2>3 DEF Reply, Promise!Hidden, Promise!Tell
<1> QED BY <1>3, <1>4 DEF LookUp

\* A commit is the first of its key and shares no address.
LEMMA CommitPromised ==
  ASSUME OnceInv, NEW c \in Clients, Commit(c)
  PROVE  Promise!First(c)
<1>1. c \in Pending /\ answers[c] = Nobody
  BY DEF Commit, Pending, OnceInv, Placed
<1>2. \A d \in rows : ~SameKey(asked[c], asked[d]) /\ ~SameEmail(asked[c], asked[d])
  BY <1>1 DEF OnceInv, Unsettled, Conflicts
<1>3. outbox' = outbox \cup (IF asked[c].store = "admin" THEN {c} ELSE {})
  BY DEF Commit, Published
<1> QED BY <1>1, <1>2, <1>3 DEF Commit, Reply, Promise!First, Promise!Same, Promise!Tell

\* Each step of the stores is a step of the promise or changes nothing in it.
LEMMA StoreStepPromised ==
  ASSUME OnceInv, [StoreNext]_storeVars
  PROVE  [Promise!Next]_(Promise!onceVars)
<1>1. ASSUME NEW c \in Clients, Insert(c) PROVE UNCHANGED Promise!onceVars
  BY <1>1 DEF Insert, Promise!onceVars
<1>2. ASSUME NEW c \in Clients, LookUp(c) PROVE Promise!Next
  <2>1. asked[c] # Nobody BY <1>2 DEF LookUp, OnceInv, Placed
  <2> QED BY <1>2, <2>1, LookUpPromised DEF Promise!Next
<1>3. ASSUME NEW c \in Clients, Announce(c) PROVE UNCHANGED Promise!onceVars
  BY <1>3 DEF Announce, Promise!onceVars
<1>4. ASSUME NEW c \in Clients, Commit(c) PROVE Promise!Next
  <2>1. asked[c] # Nobody BY <1>4 DEF Commit, OnceInv, Placed
  <2> QED BY <1>4, <2>1, CommitPromised DEF Promise!Next
<1>5. ASSUME NEW c \in Clients, Drop(c) PROVE Promise!Next
  <2>1. asked[c] # Nobody /\ answers[c] = Nobody BY <1>5 DEF Drop, OnceInv, Placed
  <2> QED BY <1>5, <2>1 DEF Drop, Reply, Promise!Fail, Promise!Tell, Promise!Next
<1>6. CASE UNCHANGED storeVars
  BY <1>6 DEF storeVars, Promise!onceVars
<1> QED BY <1>1, <1>2, <1>3, <1>4, <1>5, <1>6 DEF StoreNext

\* Intake and administrative store implement OnceOnly: one row per key, one event per
\* action, and answers that name that row, however calls race, fail and are retried.
THEOREM OnceOnlyHolds == StoreSpec => OnceOnlySpec
<1>1. StoreInit => Promise!Init
  BY DEF StoreInit, StoreStart, Promise!Init
<1>2. OnceInv /\ [StoreNext]_storeVars => [Promise!Next]_(Promise!onceVars)
  BY StoreStepPromised
<1> QED BY <1>1, <1>2, OnceInvHolds, PTL DEF StoreSpec, OnceOnlySpec, Promise!Spec
-------------------------------------------------------------------------------
RunnerType ==
  [stage : {"idle", "lock", "ledger", "plan", "apply", "commit", "done"}, saw : BOOLEAN,
   plan : SUBSET Steps, work : Seq(Steps), view : Schemas \cup {NoAnswer},
   result : {NoAnswer, "applied", "current", "error", "crashed"}]

(* Every variable has its type. *)
MigrationTypeOK ==
  /\ first \in [schema : Schemas, dirty : BOOLEAN] /\ db \in Schemas /\ dirty \in BOOLEAN
  /\ history \in Seq(Steps)
  /\ runner \in [Runners -> RunnerType]

(* A sequence of steps is in the order of the ledger. *)
Ascends(s) == \A i, j \in DOMAIN s : i < j => Ordered[s[i]] < Ordered[s[j]]
Has(s, step) == \E i \in DOMAIN s : s[i] = step

(* What a runner at work counts on: x is its record, d what is committed,  *)
(* h the history.                                                          *)
Underway(x, d, h) ==
  /\ x.view \in Schemas /\ InForce(x.view)
  /\ Forward \subseteq x.view.ledger \cup x.plan /\ x.plan \cap x.view.ledger = {}
  /\ x.view.tables \/ "base" \in x.plan
  /\ "base" \in x.plan => x.view = d /\ x.work = <<>> /\ d.ledger = {} /\ ~d.tables
  /\ x.work = <<>> => x.view = d
  /\ x.plan # {} \/ x.work # <<>> => h = <<>>
  /\ x.stage = "commit" <=> x.plan = {}
  /\ Ascends(x.work)
  /\ \A i \in DOMAIN x.work, s \in x.plan : Ordered[x.work[i]] < Ordered[s]
  /\ Has(x.work, "base") => ~d.tables /\ d.ledger = {}

(* What is true of a runner's record at every stage. *)
RunnerInv(x, d, h, f) ==
  /\ x.stage \in {"idle", "lock", "ledger", "plan"} => x.work = <<>>
  /\ x.stage = "plan" => x.saw = (d.ledger # {})
  /\ x.stage \in {"apply", "commit"} => Underway(x, d, h)
  /\ x.result # NoAnswer => x.stage = "done"
  /\ x.result = "error" => f.dirty
  /\ x.result \in {"applied", "current"} => IsCurrent(d)
  /\ x.result = "applied" => x.work # <<>> /\ h = x.work

(* What is true of the database and the ledger's history. *)
DatabaseInv ==
  /\ dirty => first.dirty
  /\ InForce(db)
  /\ history = <<>> => db = first.schema
  /\ history # <<>> => IsCurrent(db)
  /\ Ascends(history)
  /\ Has(history, "base") => ~first.schema.tables /\ first.schema.ledger = {}

OneRunner == \A q, r \in Runners : InMigration(q) /\ InMigration(r) => q = r
OneAnswer == \A q, r \in Runners :
                runner[q].result = "applied" /\ runner[r].result = "applied" => q = r

MigrationInv == /\ MigrationTypeOK /\ DatabaseInv /\ OneRunner /\ OneAnswer
                /\ \A r \in Runners : RunnerInv(runner[r], db, history, first)
-----------------------------------------------------------------------------
(* The steps and their places, and what appending a step does. *)
LEMMA StepsAre ==
  /\ Steps = {"base", "graph", "visibility", "policy", "integrity"}
  /\ Forward = {"graph", "visibility", "policy", "integrity"}
  /\ Ordered["base"] = 1 /\ Ordered["graph"] = 2 /\ Ordered["visibility"] = 3
  /\ Ordered["policy"] = 4 /\ Ordered["integrity"] = 5
  /\ \A s \in Steps : Ordered[s] \in Nat
  /\ \A s, t \in Steps : Ordered[s] = Ordered[t] => s = t
<1>1. Steps = {"base", "graph", "visibility", "policy", "integrity"}
  BY DEF Steps, Ordered
<1>2. /\ Ordered["base"] = 1 /\ Ordered["graph"] = 2 /\ Ordered["visibility"] = 3
      /\ Ordered["policy"] = 4 /\ Ordered["integrity"] = 5
  BY DEF Ordered
<1> QED BY <1>1, <1>2 DEF Forward

\* A list of steps with one more.
LEMMA Worked ==
  ASSUME NEW s \in Seq(Steps), NEW step \in Steps
  PROVE  /\ DOMAIN s = 1 .. Len(s) /\ DOMAIN Append(s, step) = 1 .. Len(s) + 1
         /\ \A i \in 1 .. Len(s) : Append(s, step)[i] = s[i] /\ s[i] \in Steps
         /\ Append(s, step)[Len(s) + 1] = step /\ Len(s) \in Nat
         /\ Append(s, step) \in Seq(Steps) /\ Append(s, step) # <<>>
OBVIOUS

\* Nothing to join.
LEMMA Joined ==
  ASSUME NEW s \in Seq(Steps)
  PROVE  s \o <<>> = s /\ <<>> \o s = s
OBVIOUS

(* The first step of a plan raises only on rows to repair, and what follows *)
(* it is in force.                                                          *)
LEMMA StepTaken ==
  ASSUME NEW x \in RunnerType, NEW d, NEW h, Underway(x, d, h), dirty \in BOOLEAN,
         NEW step \in x.plan, IsFirst(step, x.plan)
  PROVE  LET e == Effect(x.view, step) IN
         /\ Raises(x.view, step) => dirty
         /\ e \in Schemas /\ InForce(e) /\ e.tables /\ e.ledger = x.view.ledger \cup {step}
<1> DEFINE v == x.view
<1>1. v \in Schemas /\ x.plan \in SUBSET Steps
  BY DEF Underway, RunnerType
<1>2. step \in {"base", "graph", "visibility", "policy", "integrity"}
  BY <1>1, StepsAre
<1>3. step # "base" => "base" \notin x.plan
  BY <1>1, StepsAre DEF IsFirst
<1>4. step = "policy" => "visibility" \notin x.plan
  BY <1>1, StepsAre DEF IsFirst
<1>5. /\ v.ledger \in SUBSET LedgerVersions /\ v.tables \in BOOLEAN /\ v.graph \in BOOLEAN
      /\ v.facts \in BOOLEAN /\ v.integral \in BOOLEAN
      /\ v.rule \in {"none", "transaction", "decision"}
  BY <1>1 DEF Schemas
<1>6. step \notin v.ledger /\ (v.tables \/ step = "base") /\ (step = "base" => v.ledger = {})
      /\ (step = "base" => ~v.tables)
  BY <1>3 DEF Underway
<1>7. step = "policy" => "visibility" \in v.ledger
  BY <1>4, StepsAre DEF Underway
<1>8. InForce(v)
  BY DEF Underway
<1> DEFINE e == Effect(v, step)
<1>9. /\ e.ledger = v.ledger \cup {step} /\ e.tables = (v.tables \/ step = "base")
      /\ e.graph = (v.graph \/ step \in {"base", "graph"}) /\ e.facts = (v.facts \/ step = "policy")
      /\ e.integral = (v.integral \/ step = "integrity")
      /\ e.rule = IF step = "policy" THEN "decision"
                  ELSE IF step \in {"base", "visibility"} THEN "transaction" ELSE v.rule
  BY DEF Effect
<1>10. e \in Schemas
  <2>1. step \in LedgerVersions
    BY <1>2, StepsAre DEF LedgerVersions
  <2> QED BY <1>5, <2>1 DEF Effect, Schemas
<1>11. Raises(v, step) => dirty
  BY <1>6 DEF Raises
<1> HIDE DEF e, v
<1>12. InForce(e)
  BY <1>2, <1>6, <1>7, <1>8, <1>9 DEF InForce
<1> QED BY <1>6, <1>9, <1>10, <1>11, <1>12 DEF e, v

(* A runner takes a step by itself: nothing is committed. *)
LEMMA Moves ==
  ASSUME MigrationInv, NEW r \in Runners, NEW x \in RunnerType, Uncommitted, Advance(r, x),
         RunnerInv(x, db, history, first), x.result # "applied",
         \/ x.stage \in {"idle", "lock", "done"}
         \/ InMigration(r)
         \/ \A q \in Runners : ~InMigration(q)
  PROVE  MigrationInv'
<1>1. runner' = [runner EXCEPT ![r] = x] /\ runner \in [Runners -> RunnerType]
  BY DEF Advance, MigrationInv, MigrationTypeOK
<1>2. \A q \in Runners : runner'[q] = IF q = r THEN x ELSE runner[q]
  BY <1>1
<1>3. /\ UNCHANGED <<first, db, dirty, history>>
      /\ runner' \in [Runners -> RunnerType]
  BY <1>1 DEF Uncommitted
<1>4. MigrationTypeOK' /\ DatabaseInv'
  BY <1>3 DEF MigrationTypeOK, DatabaseInv, MigrationInv
<1>5. \A q \in Runners : RunnerInv(runner'[q], db', history', first')
  BY <1>2, <1>3 DEF MigrationInv
<1>6. OneRunner'
  BY <1>2 DEF OneRunner, MigrationInv, InMigration
<1>7. OneAnswer'
  BY <1>2 DEF OneAnswer, MigrationInv
<1> QED BY <1>4, <1>5, <1>6, <1>7 DEF MigrationInv

(* The runner before it plans; PlanSteps is what makes it one at work.     *)
LEMMA Planned ==
  ASSUME MigrationInv, NEW r \in Runners, runner[r].stage = "plan", NEW plan,
         plan = MigrationPlan(runner[r].saw, db.tables, db.ledger \cap Steps)
  PROVE  LET x == [runner[r] EXCEPT !.stage = IF plan = {} THEN "commit" ELSE "apply",
                                    !.plan = plan, !.view = db]
         IN  x \in RunnerType /\ RunnerInv(x, db, history, first) /\ x.result # "applied"
<1> DEFINE y == runner[r]
           x == [y EXCEPT !.stage = IF plan = {} THEN "commit" ELSE "apply",
                          !.plan = plan, !.view = db]
<1>1. /\ y \in RunnerType /\ db \in Schemas /\ RunnerInv(y, db, history, first) /\ DatabaseInv
  BY DEF MigrationInv, MigrationTypeOK
<1>2. y.saw = (db.ledger # {}) /\ y.work = <<>> /\ y.stage = "plan" /\ y.result = NoAnswer
  BY <1>1 DEF RunnerInv
<1>3. plan = {s \in Steps : IF s = "base" THEN ~(db.ledger # {} \/ db.tables)
                            ELSE s \notin db.ledger}
  BY <1>2 DEF MigrationPlan
<1>4. plan \in SUBSET Steps
  BY <1>3
<1>5. x \in RunnerType
  BY <1>1, <1>4 DEF RunnerType
<1>6. /\ x.stage = (IF plan = {} THEN "commit" ELSE "apply") /\ x.plan = plan /\ x.view = db
      /\ x.work = <<>> /\ x.result = NoAnswer
  BY <1>1, <1>2 DEF RunnerType
<1>7. history # <<>> => plan = {}
  <2> SUFFICES ASSUME history # <<>> PROVE plan = {}
    OBVIOUS
  <2>1. Forward \subseteq db.ledger /\ db.tables
    BY <1>1 DEF DatabaseInv, IsCurrent
  <2> QED BY <1>3, <2>1, StepsAre
<1>8. Forward \subseteq db.ledger \cup plan /\ plan \cap db.ledger = {}
  BY <1>3, StepsAre
<1>9. /\ db.tables \/ "base" \in plan
      /\ "base" \in plan => db.ledger = {} /\ ~db.tables
  BY <1>1, <1>3, StepsAre DEF DatabaseInv, InForce
<1>10. DOMAIN x.work = {}
  BY <1>6
<1> HIDE DEF x, y
<1>11. Underway(x, db, history)
  BY <1>1, <1>6, <1>7, <1>8, <1>9, <1>10 DEF Underway, DatabaseInv, Ascends, Has
<1>12. RunnerInv(x, db, history, first)
  BY <1>6, <1>11, AnswersAssumption DEF RunnerInv
<1> QED BY <1>5, <1>6, <1>12, AnswersAssumption DEF x, y

(* A step that does not raise leaves the runner at work on the rest.       *)
LEMMA Applied ==
  ASSUME MigrationInv, NEW r \in Runners, runner[r].stage = "apply",
         NEW step \in runner[r].plan, IsFirst(step, runner[r].plan),
         ~Raises(runner[r].view, step)
  PROVE  LET y == runner[r]
             x == [y EXCEPT !.stage = IF y.plan = {step} THEN "commit" ELSE "apply",
                            !.plan = y.plan \ {step}, !.work = Append(@, step),
                            !.view = Effect(y.view, step)]
         IN  x \in RunnerType /\ RunnerInv(x, db, history, first) /\ x.result # "applied"
<1> DEFINE y == runner[r]
           w == Append(y.work, step)
           e == Effect(y.view, step)
           x == [y EXCEPT !.stage = IF y.plan = {step} THEN "commit" ELSE "apply",
                          !.plan = y.plan \ {step}, !.work = Append(@, step),
                          !.view = Effect(y.view, step)]
<1>1. /\ y \in RunnerType /\ dirty \in BOOLEAN /\ RunnerInv(y, db, history, first)
  BY DEF MigrationInv, MigrationTypeOK
<1>2. Underway(y, db, history) /\ y.result = NoAnswer /\ y.stage = "apply"
  BY <1>1 DEF RunnerInv
<1>3. /\ y.plan \in SUBSET Steps /\ y.work \in Seq(Steps) /\ step \in Steps /\ y.saw \in BOOLEAN
  BY <1>1 DEF RunnerType
<1>4. e \in Schemas /\ InForce(e) /\ e.tables /\ e.ledger = y.view.ledger \cup {step}
  BY <1>1, <1>2, StepTaken
<1>5. /\ DOMAIN y.work = 1 .. Len(y.work) /\ DOMAIN w = 1 .. Len(y.work) + 1
      /\ \A i \in 1 .. Len(y.work) : w[i] = y.work[i] /\ y.work[i] \in Steps
      /\ w[Len(y.work) + 1] = step /\ Len(y.work) \in Nat /\ w \in Seq(Steps) /\ w # <<>>
  BY <1>3, Worked
<1> HIDE DEF w, e, y
<1>6. /\ x.stage = (IF y.plan = {step} THEN "commit" ELSE "apply") /\ x.plan = y.plan \ {step}
      /\ x.view = e /\ x.work = w /\ x.result = NoAnswer
  BY <1>1, <1>2 DEF RunnerType, w, e
<1>7. x \in RunnerType
  <2>1. y.plan \ {step} \in SUBSET Steps
    BY <1>3
  <2>2. Append(y.work, step) \in Seq(Steps) /\ Effect(y.view, step) \in Schemas
    BY <1>4, <1>5 DEF w, e
  <2> QED BY <1>1, <2>1, <2>2 DEF RunnerType
<1> HIDE DEF x
<1>8. /\ step \in y.plan /\ \A s \in y.plan : Ordered[step] <= Ordered[s]
      /\ \A s \in y.plan \ {step} : Ordered[step] < Ordered[s]
  <2>1. step \in y.plan /\ \A s \in y.plan : Ordered[step] <= Ordered[s]
    BY DEF IsFirst, y
  <2>2. \A s \in y.plan : s # step => Ordered[s] # Ordered[step] /\ Ordered[s] \in Nat
    BY <1>3, <2>1, StepsAre
  <2>3. Ordered[step] \in Nat
    BY <1>3, StepsAre
  <2> QED BY <2>1, <2>2, <2>3
<1>9. \A i \in DOMAIN y.work, s \in y.plan : Ordered[y.work[i]] < Ordered[s]
  BY <1>2 DEF Underway
<1>10. Ascends(w)
  <2> SUFFICES ASSUME NEW i \in 1 .. Len(y.work) + 1, NEW j \in 1 .. Len(y.work) + 1, i < j
               PROVE  Ordered[w[i]] < Ordered[w[j]]
    BY <1>5 DEF Ascends
  <2>1. i \in 1 .. Len(y.work)
    BY <1>5
  <2>2. CASE j = Len(y.work) + 1
    BY <1>5, <1>8, <1>9, <2>1, <2>2
  <2>3. CASE j # Len(y.work) + 1
    <3>1. j \in 1 .. Len(y.work)
      BY <1>5, <2>3
    <3>2. Ascends(y.work)
      BY <1>2 DEF Underway
    <3> QED BY <1>5, <2>1, <3>1, <3>2 DEF Ascends
  <2> QED BY <2>2, <2>3
<1>11. \A i \in DOMAIN w, s \in y.plan \ {step} : Ordered[w[i]] < Ordered[s]
  <2> SUFFICES ASSUME NEW i \in 1 .. Len(y.work) + 1, NEW s \in y.plan \ {step}
               PROVE  Ordered[w[i]] < Ordered[s]
    BY <1>5
  <2>1. CASE i = Len(y.work) + 1
    BY <1>5, <1>8, <2>1
  <2>2. CASE i # Len(y.work) + 1
    BY <1>5, <1>9, <2>2, SMTT(30)
  <2> QED BY <2>1, <2>2
<1>12. Has(w, "base") => ~db.tables /\ db.ledger = {}
  <2> SUFFICES ASSUME NEW i \in 1 .. Len(y.work) + 1, w[i] = "base"
               PROVE  ~db.tables /\ db.ledger = {}
    BY <1>5 DEF Has
  <2>1. CASE i = Len(y.work) + 1
    BY <1>2, <1>5, <1>8, <2>1 DEF Underway
  <2>2. CASE i # Len(y.work) + 1
    <3>1. Has(y.work, "base")
      BY <1>5, <2>2 DEF Has
    <3> QED BY <1>2, <3>1 DEF Underway
  <2> QED BY <2>1, <2>2
<1>13. "base" \notin y.plan \ {step}
  BY <1>3, <1>8, StepsAre
<1>14. /\ Forward \subseteq e.ledger \cup (y.plan \ {step}) /\ (y.plan \ {step}) \cap e.ledger = {}
       /\ history = <<>>
  BY <1>2, <1>4, <1>8 DEF Underway
<1>15. Underway(x, db, history)
  BY <1>4, <1>5, <1>6, <1>8, <1>10, <1>11, <1>12, <1>13, <1>14 DEF Underway
<1>16. RunnerInv(x, db, history, first)
  BY <1>6, <1>15, AnswersAssumption DEF RunnerInv
<1> QED BY <1>6, <1>7, <1>16, AnswersAssumption DEF x, y

(* A commit brings what the runner sees, and all of its work, at once.     *)
LEMMA Committed ==
  ASSUME MigrationInv, NEW r \in Runners, CommitMigration(r)
  PROVE  MigrationInv'
<1> DEFINE y == runner[r]
           result == IF y.work = <<>> THEN "current" ELSE "applied"
           x == [y EXCEPT !.stage = "done", !.result = result]
<1>1. /\ MigrationTypeOK /\ DatabaseInv /\ OneRunner /\ OneAnswer
      /\ \A q \in Runners : RunnerInv(runner[q], db, history, first)
  BY DEF MigrationInv
<1>2. /\ runner \in [Runners -> RunnerType] /\ history \in Seq(Steps) /\ db \in Schemas
      /\ first \in [schema : Schemas, dirty : BOOLEAN] /\ dirty \in BOOLEAN
  BY <1>1 DEF MigrationTypeOK
<1>3. /\ y.stage = "commit" /\ db' = y.view /\ history' = history \o y.work
      /\ first' = first /\ dirty' = dirty /\ runner' = [runner EXCEPT ![r] = x]
  BY DEF CommitMigration, Report, Advance
<1>4. y \in RunnerType /\ y.work \in Seq(Steps)
  BY <1>2 DEF RunnerType
<1>5. Underway(y, db, history)
  BY <1>1, <1>3 DEF RunnerInv
<1>6. /\ x.stage = "done" /\ x.result = result /\ x.work = y.work /\ x \in RunnerType
      /\ result \in {"current", "applied"}
  BY <1>4 DEF RunnerType
<1>7. \A q \in Runners : runner'[q] = IF q = r THEN x ELSE runner[q]
  BY <1>2, <1>3
<1> HIDE DEF x, y
<1>8. y.plan = {} /\ y.view \in Schemas /\ InForce(y.view) /\ IsCurrent(y.view)
  <2>1. y.plan = {} /\ y.view \in Schemas /\ InForce(y.view) /\ y.view.tables
        /\ Forward \subseteq y.view.ledger
    BY <1>3, <1>5 DEF Underway
  <2>2. y.view.graph /\ y.view.rule = "decision" /\ y.view.facts /\ y.view.integral
    BY <2>1, StepsAre DEF InForce
  <2> QED BY <2>1, <2>2 DEF IsCurrent
<1>9. \/ y.work = <<>> /\ db' = db /\ history' = history
      \/ y.work # <<>> /\ history = <<>> /\ history' = y.work
  BY <1>2, <1>3, <1>4, <1>5, Joined DEF Underway
<1>10. IsCurrent(db') /\ InForce(db') /\ db' \in Schemas /\ history' \in Seq(Steps)
  BY <1>2, <1>3, <1>4, <1>8, <1>9
<1>11. MigrationTypeOK'
  <2>1. runner' \in [Runners -> RunnerType]
    BY <1>2, <1>3, <1>6
  <2> QED BY <1>2, <1>3, <1>10, <2>1 DEF MigrationTypeOK
<1>12. DatabaseInv'
  <2>1. CASE y.work = <<>> /\ db' = db /\ history' = history
    BY <1>1, <1>3, <2>1 DEF DatabaseInv
  <2>2. CASE y.work # <<>> /\ history = <<>> /\ history' = y.work
    <3>1. Ascends(history') /\ (Has(history', "base") => ~db.tables /\ db.ledger = {})
      BY <1>5, <2>2 DEF Underway
    <3>2. db = first.schema
      BY <1>1, <2>2 DEF DatabaseInv
    <3>3. dirty' => first'.dirty
      BY <1>1, <1>3 DEF DatabaseInv
    <3> QED BY <1>3, <1>10, <2>2, <3>1, <3>2, <3>3 DEF DatabaseInv
  <2> QED BY <1>9, <2>1, <2>2
<1>13. OneRunner'
  BY <1>1, <1>6, <1>7 DEF OneRunner, InMigration
<1>14. \A q \in Runners : runner[q].result = "applied" => y.work = <<>>
  BY <1>1, <1>9 DEF RunnerInv
<1>15. OneAnswer'
  BY <1>1, <1>6, <1>7, <1>14 DEF OneAnswer
<1>16. ASSUME NEW q \in Runners PROVE RunnerInv(runner'[q], db', history', first')
  <2>1. CASE q = r
    BY <1>3, <1>6, <1>7, <1>9, <1>10, <2>1 DEF RunnerInv
  <2>2. CASE q # r
    <3>1. runner'[q] = runner[q] /\ runner[q].stage \notin {"plan", "apply", "commit"}
      BY <1>1, <1>3, <1>7, <2>2 DEF OneRunner, InMigration, y
    <3>2. RunnerInv(runner[q], db, history, first)
      BY <1>1
    <3>3. runner[q].result = "applied" => history' = history
      BY <1>9, <1>14
    <3> QED BY <1>3, <1>10, <3>1, <3>2, <3>3 DEF RunnerInv
  <2> QED BY <2>1, <2>2
<1> QED BY <1>11, <1>12, <1>13, <1>15, <1>16 DEF MigrationInv

(* Every step keeps the invariant.                                         *)
LEMMA MigrationStep ==
  ASSUME MigrationInv, [MigrationNext]_migrationVars
  PROVE  MigrationInv'
<1>1. /\ runner \in [Runners -> RunnerType] /\ dirty \in BOOLEAN
      /\ \A q \in Runners : RunnerInv(runner[q], db, history, first)
  BY DEF MigrationInv, MigrationTypeOK
<1>2. ASSUME NEW r \in Runners
      PROVE  runner[r] \in RunnerType /\ RunnerInv(runner[r], db, history, first)
  BY <1>1
<1>3. ASSUME NEW r \in Runners, BeginMigration(r) PROVE MigrationInv'
  <2> DEFINE y == runner[r]
             x == [y EXCEPT !.stage = "lock"]
  <2>1. x \in RunnerType /\ x.stage = "lock" /\ x.work = y.work /\ x.result = y.result
    BY <1>2, <1>3 DEF RunnerType
  <2>2. y.stage = "idle" /\ Advance(r, x) /\ Uncommitted /\ y.result = NoAnswer /\ y.work = <<>>
    BY <1>2, <1>3 DEF BeginMigration, RunnerInv
  <2> HIDE DEF x, y
  <2>3. RunnerInv(x, db, history, first) /\ x.result # "applied"
    BY <2>1, <2>2, AnswersAssumption DEF RunnerInv
  <2> QED BY <2>1, <2>2, <2>3, Moves
<1>4. ASSUME NEW r \in Runners, TakeLock(r) PROVE MigrationInv'
  <2> DEFINE y == runner[r]
             x == [y EXCEPT !.stage = "ledger"]
  <2>1. x \in RunnerType /\ x.stage = "ledger" /\ x.work = y.work /\ x.result = y.result
    BY <1>2, <1>4 DEF RunnerType
  <2>2. y.stage = "lock" /\ Advance(r, x) /\ Uncommitted /\ y.result = NoAnswer /\ y.work = <<>>
        /\ \A q \in Runners : ~InMigration(q)
    BY <1>2, <1>4 DEF TakeLock, Mutex, RunnerInv
  <2> HIDE DEF x, y
  <2>3. RunnerInv(x, db, history, first) /\ x.result # "applied"
    BY <2>1, <2>2, AnswersAssumption DEF RunnerInv
  <2> QED BY <2>1, <2>2, <2>3, Moves
<1>5. ASSUME NEW r \in Runners, ReadLedger(r) PROVE MigrationInv'
  <2> DEFINE y == runner[r]
             saw == db.ledger # {}
             x == [y EXCEPT !.stage = "plan", !.saw = saw]
  <2>1. x \in RunnerType /\ x.stage = "plan" /\ x.saw = saw /\ x.work = y.work
        /\ x.result = y.result
    BY <1>2, <1>5 DEF RunnerType
  <2>2. y.stage = "ledger" /\ Advance(r, x) /\ Uncommitted /\ y.result = NoAnswer
        /\ y.work = <<>> /\ InMigration(r)
    BY <1>2, <1>5 DEF ReadLedger, RunnerInv, InMigration
  <2> HIDE DEF x, y
  <2>3. RunnerInv(x, db, history, first) /\ x.result # "applied"
    BY <2>1, <2>2, AnswersAssumption DEF RunnerInv
  <2> QED BY <2>1, <2>2, <2>3, Moves
<1>6. ASSUME NEW r \in Runners, PlanSteps(r) PROVE MigrationInv'
  <2> DEFINE plan == MigrationPlan(runner[r].saw, db.tables, db.ledger \cap Steps)
             x == [runner[r] EXCEPT !.stage = IF plan = {} THEN "commit" ELSE "apply",
                                    !.plan = plan, !.view = db]
  <2>1. runner[r].stage = "plan" /\ Advance(r, x) /\ Uncommitted /\ InMigration(r)
    BY <1>6 DEF PlanSteps, InMigration
  <2>2. x \in RunnerType /\ RunnerInv(x, db, history, first) /\ x.result # "applied"
    BY <2>1, Planned
  <2> HIDE DEF x
  <2> QED BY <2>1, <2>2, Moves
<1>7. ASSUME NEW r \in Runners, ApplyStep(r) PROVE MigrationInv'
  <2> DEFINE y == runner[r]
  <2>1. y.stage = "apply" /\ Uncommitted /\ InMigration(r)
    BY <1>7 DEF ApplyStep, InMigration
  <2>2. PICK step \in y.plan :
           /\ IsFirst(step, y.plan)
           /\ IF Raises(y.view, step) THEN Report(r, "error")
              ELSE Advance(r, [y EXCEPT !.stage = IF y.plan = {step} THEN "commit" ELSE "apply",
                                        !.plan = y.plan \ {step}, !.work = Append(@, step),
                                        !.view = Effect(y.view, step)])
    BY <1>7 DEF ApplyStep
  <2>3. CASE Raises(y.view, step)
    <3> DEFINE x == [y EXCEPT !.stage = "done", !.result = "error"]
    <3>1. x \in RunnerType /\ x.stage = "done" /\ x.result = "error"
      BY <1>2 DEF RunnerType
    <3>2. Advance(r, x)
      BY <2>2, <2>3 DEF Report
    <3>3. Underway(y, db, history)
      BY <1>2, <2>1 DEF RunnerInv
    <3>4. first.dirty
      BY <1>1, <1>2, <2>2, <2>3, <3>3, StepTaken DEF MigrationInv, DatabaseInv
    <3> HIDE DEF x
    <3>5. RunnerInv(x, db, history, first) /\ x.result # "applied"
      BY <3>1, <3>4 DEF RunnerInv
    <3> QED BY <2>1, <3>1, <3>2, <3>5, Moves
  <2>4. CASE ~Raises(y.view, step)
    <3> DEFINE x == [y EXCEPT !.stage = IF y.plan = {step} THEN "commit" ELSE "apply",
                              !.plan = y.plan \ {step}, !.work = Append(@, step),
                              !.view = Effect(y.view, step)]
    <3>1. Advance(r, x)
      BY <2>2, <2>4
    <3>2. x \in RunnerType /\ RunnerInv(x, db, history, first) /\ x.result # "applied"
      BY <2>1, <2>2, <2>4, Applied
    <3> HIDE DEF x
    <3> QED BY <2>1, <3>1, <3>2, Moves
  <2> QED BY <2>3, <2>4
<1>8. ASSUME NEW r \in Runners, CommitMigration(r) PROVE MigrationInv'
  BY <1>8, Committed
<1>r. Rested \in RunnerType
  BY DEF Rested, RunnerType
<1>9. ASSUME NEW r \in Runners, MigrationCrash(r) PROVE MigrationInv'
  <2> DEFINE x == [Rested EXCEPT !.stage = "done", !.result = "crashed"]
  <2>1. x \in RunnerType /\ x.stage = "done" /\ x.result = "crashed"
    BY <1>r DEF Rested, RunnerType
  <2>2. Advance(r, x) /\ Uncommitted
    BY <1>9 DEF MigrationCrash
  <2> HIDE DEF x
  <2>3. RunnerInv(x, db, history, first)
    BY <2>1 DEF RunnerInv
  <2> QED BY <2>1, <2>2, <2>3, Moves
<1>10. ASSUME NEW r \in Runners, MigrationRestart(r) PROVE MigrationInv'
  <2>1. Rested.stage = "idle" /\ Rested.work = <<>> /\ Rested.result = NoAnswer
    BY DEF Rested
  <2>2. Advance(r, Rested) /\ Uncommitted
    BY <1>10 DEF MigrationRestart
  <2>3. RunnerInv(Rested, db, history, first) /\ Rested.result # "applied"
    BY <2>1, AnswersAssumption DEF RunnerInv
  <2> QED BY <1>r, <2>1, <2>2, <2>3, Moves
<1>11. CASE Repair
  <2>1. UNCHANGED <<first, db, history, runner>> /\ dirty' = FALSE
    BY <1>11 DEF Repair
  <2>2. MigrationTypeOK' /\ DatabaseInv' /\ OneRunner' /\ OneAnswer'
    BY <2>1 DEF MigrationInv, MigrationTypeOK, DatabaseInv, OneRunner, OneAnswer, InMigration
  <2>3. \A r \in Runners : RunnerInv(runner'[r], db', history', first')
    BY <1>1, <2>1
  <2> QED BY <2>2, <2>3 DEF MigrationInv
<1>12. CASE UNCHANGED migrationVars
  <2>1. UNCHANGED <<first, db, dirty, history, runner>>
    BY <1>12 DEF migrationVars
  <2>2. MigrationTypeOK' /\ DatabaseInv' /\ OneRunner' /\ OneAnswer'
    BY <2>1 DEF MigrationInv, MigrationTypeOK, DatabaseInv, OneRunner, OneAnswer, InMigration
  <2>3. \A r \in Runners : RunnerInv(runner'[r], db', history', first')
    BY <1>1, <2>1
  <2> QED BY <2>2, <2>3 DEF MigrationInv
<1> QED BY <1>3, <1>4, <1>5, <1>6, <1>7, <1>8, <1>9, <1>10, <1>11, <1>12
        DEF MigrationNext, Migrate

(* The invariant holds of whatever the runners find.                       *)
LEMMA MigrationBegins == MigrationInit => MigrationInv
<1> SUFFICES ASSUME NEW d \in Databases, MigrationStart(d) PROVE MigrationInv
  BY DEF MigrationInit
<1>1. /\ first = d /\ db = d.schema /\ dirty = d.dirty /\ history = <<>>
      /\ runner = [r \in Runners |-> Rested]
  BY DEF MigrationStart
<1>2. d \in [schema : Schemas, dirty : BOOLEAN] /\ InForce(d.schema)
  BY DatabasesAssumption
<1>3. Rested \in RunnerType /\ Rested.stage = "idle" /\ Rested.work = <<>>
      /\ Rested.result = NoAnswer
  BY DEF Rested, RunnerType
<1>4. MigrationTypeOK
  <2>1. runner \in [Runners -> RunnerType]
    BY <1>1, <1>3
  <2> QED BY <1>1, <1>2, <2>1 DEF MigrationTypeOK
<1>5. DatabaseInv
  BY <1>1, <1>2 DEF DatabaseInv, Ascends, Has
<1>6. \A r \in Runners : runner[r] = Rested
  BY <1>1
<1>7. OneRunner /\ OneAnswer
  BY <1>3, <1>6, AnswersAssumption DEF OneRunner, OneAnswer, InMigration
<1>8. RunnerInv(Rested, db, history, first)
  BY <1>3, AnswersAssumption DEF RunnerInv
<1> QED BY <1>4, <1>5, <1>6, <1>7, <1>8 DEF MigrationInv

(* Runners that race, die and start again bring the database to the current *)
(* schema step by step, and say truly whether they did.                     *)
THEOREM LedgerHolds == MigrationSpec => []LedgerTrue
<1>1. MigrationInv => LedgerTrue
  <2> SUFFICES ASSUME MigrationInv PROVE LedgerTrue
    OBVIOUS
  <2>1. /\ DatabaseInv /\ OneAnswer
        /\ \A r \in Runners : RunnerInv(runner[r], db, history, first)
    BY DEF MigrationInv
  <2>2. InForce(db) /\ Ascends(history)
        /\ (Has(history, "base") => ~first.schema.tables /\ first.schema.ledger = {})
    BY <2>1 DEF DatabaseInv
  <2>3. \A r \in Runners :
           /\ runner[r].result = "error" => first.dirty
           /\ runner[r].result \in {"applied", "current"} => IsCurrent(db)
           /\ runner[r].result = "applied" => runner[r].work # <<>> /\ history = runner[r].work
    BY <2>1 DEF RunnerInv
  <2> QED BY <2>1, <2>2, <2>3 DEF LedgerTrue, Ascends, Has, OneAnswer
<1>2. MigrationInv /\ [MigrationNext]_migrationVars => MigrationInv'
  BY MigrationStep
<1> QED BY <1>1, <1>2, MigrationBegins, PTL DEF MigrationSpec
===============================================================================

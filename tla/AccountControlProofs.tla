------------------------- MODULE AccountControlProofs -------------------------
(* Proofs about the account control plane, for any users, organizations,        *)
(* packages, requests and faults. Inv says what a transaction may rely on at     *)
(* every statement: the kind of its request, and that the row it read without a  *)
(* lock (Seen) can only have been downloaded or published since. On it stand     *)
(* OnePrimary (licences), the offers (Membership), Recorded and Announced        *)
(* (promotion) and AllBacked (authorisation).                                    *)
EXTENDS AccountControl, FiniteSetTheorems, TLAPS

\* The requests of a workload.
AskedFor == {w[c] : w \in Workloads, c \in Callers}
\* A transaction, with the variables of its statements.
Transaction ==
  [stage : Stages, req : AskedFor, row : Row \cup Emails \cup {None}, began : 0..MaxNow,
   seen : SUBSET Licence, held : SUBSET Licence, inv : Invitations \cup {None}, calm : BOOLEAN,
   result : Results]
\* The tables and the transactions have their types.
Types == ControlTypeOK /\ call \in [Callers -> Transaction]

\* The row was read for r: since then it was at most downloaded, moved or published.
Seen(r, row) ==
  /\ row \in Row /\ packages[r.package] # None
  /\ packages[r.package].born = row.born
  /\ packages[r.package].downloads >= row.downloads
  /\ row.visibility = "public" => packages[r.package].visibility = "public"

\* What a transaction at its stage knows: its kind of request, what it read and locked.
Fits(c) ==
  LET r == Req(c)  s == call[c].stage IN
    /\ s = "find" => r.kind \in OnPackage
    /\ s = "authorise" => r.kind # "accept" /\ r.checked
    /\ s = "retarget" => r.kind = "settings"
    /\ s = "version" => r.kind \in {"license", "upload"}
    /\ s = "demote" => r.kind = "license" /\ r.primary
    /\ s = "insert" => r.kind = "license"
    /\ s = "precheck" => r.kind = "setVisibility" /\ r.to = "public"
    /\ s = "write" => r.kind \notin {"accept", "license"}
    /\ s \in {"login", "enrol", "lookup", "consume"} => r.kind = "accept"
    /\ r.kind \in OnPackage /\ s \notin {"idle", "find", "done"} => Seen(r, call[c].row)
    /\ s = "enrol" => call[c].row \in Emails \cup {None}
    /\ s = "consume" => /\ call[c].inv \in Invitations /\ invitations[call[c].inv] # None
                        /\ invitations[call[c].inv].email = r.email
    /\ \A l \in call[c].seen \cup call[c].held : Scope(l) = ScopeOf(c)
    /\ call[c].seen \cup call[c].held # {} => s = "insert" /\ r.primary

\* The inductive invariant.
Inv == Types /\ \A c \in Callers : Fits(c)

\* A scope has at most one primary licence, and one if it was ever given one.
OnePrimary ==
  /\ \A l, k \in licences : l.primary /\ k.primary /\ Scope(l) = Scope(k) => l = k
  /\ \A l \in licences : l.asked => \E k \in licences : k.primary /\ Scope(k) = Scope(l)

\* c's answer about a visibility is true of the database.
AnswerTrue(c) ==
  LET r == Req(c)  row == packages[r.package]  result == call[c].result IN
    At(c, "done") /\ r.kind \in {"promote", "setVisibility"} =>
      /\ result = "ok" /\ (r.kind = "promote" \/ r.to = "public")
           => row # None /\ row.visibility = "public"
      /\ result = "permanent" => row # None /\ row.visibility = "public"
      /\ result = "expired" => row # None /\ now - row.born > MaxAge
      /\ result = "popular" => row # None /\ row.downloads > MaxDownloads
\* What is recorded of a promotion.
Recorded ==
  \A p \in Packages : packages[p] # None /\ packages[p].promoted # None =>
    /\ packages[p].visibility = "public"
    /\ packages[p].promoted.age <= MaxAge
    /\ packages[p].promoted.downloads <= MaxDownloads
\* Every answer about a visibility is true.
Announced == \A c \in Callers : AnswerTrue(c)

\* What a calm transaction found out about roles still holds.
Backed(c) ==
  LET r == Req(c)  s == call[c].stage  row == call[c].row IN
    call[c].calm /\ s \notin {"idle", "done"} /\ r.kind # "accept" =>
      /\ r.kind \in OnPackage /\ s # "find" => packages[r.package].project = row.project
      /\ r.checked /\ s \notin {"find", "authorise"} =>
           LET place == Place(r, row) IN MayWrite(r.actor, place[1], place[2], Allowed(r))
      /\ r.kind = "settings" /\ s = "write" =>
           MayWrite(r.actor, OwnerOf[r.package], r.project, WriteRoles)
\* So for every transaction.
AllBacked == \A c \in Callers : Backed(c)
-------------------------------------------------------------------------------
\* What a step of another caller, or of an operator, leaves of d's transaction.
Same(d) ==
  /\ call'[d].stage = call[d].stage /\ call'[d].req = call[d].req /\ call'[d].row = call[d].row
  /\ call'[d].began = call[d].began /\ call'[d].seen = call[d].seen
  /\ call'[d].held = call[d].held /\ call'[d].inv = call[d].inv
  /\ call'[d].result = call[d].result
  /\ call'[d].calm => call[d].calm

\* c answers result.
Ends(c, result) ==
  /\ call'[c].stage = "done" /\ call'[c].req = call[c].req
  /\ call'[c].seen = {} /\ call'[c].held = {} /\ call'[c].result = result

\* Packages and invitations are never taken back.
Grows ==
  /\ \A p \in Packages : packages[p] # None =>
       /\ packages'[p] # None
       /\ packages'[p].born = packages[p].born
       /\ packages'[p].downloads >= packages[p].downloads
       /\ packages[p].visibility = "public" => packages'[p].visibility = "public"
  /\ \A i \in Invitations : invitations[i] # None =>
       invitations'[i] # None /\ invitations'[i].email = invitations[i].email

\* Disturb changes nothing but calm.
LEMMA DisturbIs ==
  ASSUME NEW new \in [Callers -> Transaction]
  PROVE  /\ Disturb(new) \in [Callers -> Transaction]
         /\ \A d \in Callers :
              /\ Disturb(new)[d] = [new[d] EXCEPT !.calm = Disturb(new)[d].calm]
              /\ Disturb(new)[d].calm => new[d].calm /\ new[d].stage \in {"idle", "done"}
BY DEF Disturb, Transaction

\* A transaction that answered is a transaction.
LEMMA DoneIs ==
  ASSUME NEW t \in Transaction, NEW result \in Results
  PROVE  Done(t, result) \in Transaction
<1>1. 0 \in 0..MaxNow
  BY ControlAssumption
<1>2. "done" \in Stages
  BY DEF Stages
<1> QED BY <1>1, <1>2 DEF Done, Transaction

\* An answer ends its transaction and touches no other.
LEMMA AnswerIs ==
  ASSUME Types, NEW c \in Callers, NEW result \in Results, Answer(c, result)
  PROVE  /\ call' \in [Callers -> Transaction]
         /\ Ends(c, result) /\ call'[c].calm = call[c].calm
         /\ \A d \in Callers \ {c} : call'[d] = call[d] /\ Same(d)
<1>1. call \in [Callers -> Transaction] /\ call[c] \in Transaction
  BY DEF Types
<1>2. call' = [call EXCEPT ![c] = Done(call[c], result)]
  BY <1>1, DoneIs DEF Answer
<1>3. Done(call[c], result) \in Transaction
  BY <1>1, DoneIs
<1>4. /\ call' \in [Callers -> Transaction] /\ call'[c] = Done(call[c], result)
      /\ \A d \in Callers \ {c} : call'[d] = call[d]
  BY <1>1, <1>2, <1>3
<1>5. Ends(c, result) /\ call'[c].calm = call[c].calm
  BY <1>1, <1>4 DEF Ends, Done, Transaction
<1> QED BY <1>4, <1>5 DEF Same

\* An answer that disturbs ends its transaction; the others in flight are not calm.
LEMMA AnswerAndDisturbIs ==
  ASSUME Types, NEW c \in Callers, NEW result \in Results, AnswerAndDisturb(c, result)
  PROVE  /\ call' \in [Callers -> Transaction]
         /\ Ends(c, result)
         /\ \A d \in Callers \ {c} :
              Same(d) /\ (call'[d].calm => call[d].stage \in {"idle", "done"})
<1> DEFINE new == [call EXCEPT ![c] = Done(call[c], result)]
<1>1. call \in [Callers -> Transaction] /\ call[c] \in Transaction
  BY DEF Types
<1>2. call' = Disturb(new)
  BY <1>1, DoneIs DEF AnswerAndDisturb
<1>3. new \in [Callers -> Transaction]
  BY <1>1, DoneIs
<1>4. new[c] = Done(call[c], result) /\ \A d \in Callers \ {c} : new[d] = call[d]
  BY <1>1
<1> HIDE DEF new
<1>5. /\ call' \in [Callers -> Transaction]
      /\ \A d \in Callers :
           /\ call'[d] = [new[d] EXCEPT !.calm = call'[d].calm]
           /\ call'[d].calm => new[d].calm /\ new[d].stage \in {"idle", "done"}
  BY <1>2, <1>3, DisturbIs
<1>6. Ends(c, result)
  <2>1. call'[c] = [Done(call[c], result) EXCEPT !.calm = call'[c].calm]
    BY <1>4, <1>5
  <2> QED BY <1>1, <2>1 DEF Ends, Done, Transaction
<1>7. ASSUME NEW d \in Callers \ {c}
      PROVE  Same(d) /\ (call'[d].calm => call[d].stage \in {"idle", "done"})
  <2>1. call'[d] = [call[d] EXCEPT !.calm = call'[d].calm] /\ call[d] \in Transaction
    BY <1>1, <1>4, <1>5
  <2>2. call'[d].calm => call[d].calm /\ call[d].stage \in {"idle", "done"}
    BY <1>4, <1>5
  <2> QED BY <2>1, <2>2 DEF Same, Transaction
<1> QED BY <1>5, <1>6, <1>7

\* Going on touches no other transaction.
LEMMA GoOnIs ==
  ASSUME Types, NEW c \in Callers, NEW next \in Transaction, GoOn(c, next)
  PROVE  /\ call' \in [Callers -> Transaction] /\ call'[c] = next
         /\ \A d \in Callers \ {c} : call'[d] = call[d] /\ Same(d)
BY DEF Types, GoOn, Same

\* Requests have the fields their operations read.
LEMMA RequestsFormed ==
  ASSUME Types, NEW c \in Callers
  PROVE  Formed(Req(c)) /\ call[c] \in Transaction
<1>1. call[c] \in Transaction
  BY DEF Types
<1>2. Req(c) \in AskedFor
  BY <1>1 DEF Req, Transaction
<1> QED BY <1>1, <1>2, ControlAssumption DEF AskedFor

\* A row that was seen stays so while packages only grow.
LEMMA SeenStable ==
  ASSUME Types, ControlTypeOK', Grows, NEW CONSTANT r, NEW CONSTANT row,
         r.package \in Packages, Seen(r, row)
  PROVE  Seen(r, row)'
<1>1. packages[r.package] \in Row /\ row \in Row
  BY DEF Types, ControlTypeOK, Seen
<1>2. /\ packages'[r.package] # None
      /\ packages'[r.package].born = packages[r.package].born
      /\ packages'[r.package].downloads >= packages[r.package].downloads
      /\ packages[r.package].visibility = "public"
           => packages'[r.package].visibility = "public"
  BY DEF Grows, Seen
<1>3. /\ row.downloads \in Nat /\ packages[r.package].downloads \in Nat
      /\ packages'[r.package].downloads \in Nat
  BY <1>1, <1>2 DEF Row, ControlTypeOK
<1> QED BY <1>1, <1>2, <1>3 DEF Seen

\* What fits a transaction goes on fitting it, whatever the others add.
LEMMA FitsStable ==
  ASSUME Inv, ControlTypeOK', Grows, NEW d \in Callers, Same(d)
  PROVE  Fits(d)'
<1> DEFINE r == Req(d)
           row == call[d].row
<1>1. /\ Req(d)' = r /\ call'[d].row = row /\ Scope(ScopeOf(d))' = Scope(ScopeOf(d))
      /\ ScopeOf(d)' = ScopeOf(d)
  BY DEF Same, Req, ScopeOf, Scope
<1>2. call[d] \in Transaction /\ Formed(r) /\ Fits(d) /\ Types
  BY RequestsFormed DEF Inv
<1>3. ASSUME r.kind \in OnPackage, Seen(r, row)
      PROVE  /\ row \in Row /\ packages'[r.package] # None
             /\ packages'[r.package].born = row.born
             /\ packages'[r.package].downloads >= row.downloads
             /\ row.visibility = "public" => packages'[r.package].visibility = "public"
  <2>1. r.package \in Packages
    BY <1>2, <1>3 DEF Formed
  <2> QED BY <2>1, <1>2, <1>3, SeenStable DEF Seen
<1>4. ASSUME call[d].inv \in Invitations, invitations[call[d].inv] # None
      PROVE  /\ invitations'[call[d].inv] # None
             /\ invitations'[call[d].inv].email = invitations[call[d].inv].email
  BY <1>4 DEF Grows
<1> HIDE DEF r, row
<1> QED BY <1>1, <1>2, <1>3, <1>4 DEF Fits, Same, Seen, Scope, r, row

\* A step of c after which the tables have their types and only grew keeps the
\* invariant, if c's own transaction does.
LEMMA StepKeeps ==
  ASSUME Inv, ControlTypeOK', Grows, call' \in [Callers -> Transaction], NEW c \in Callers,
         Fits(c)', \A d \in Callers \ {c} : Same(d)
  PROVE  Inv'
BY FitsStable DEF Inv, Types

\* A statement that writes nothing keeps the tables.
LEMMA UnchangedTables ==
  ASSUME Types, UNCHANGED <<store, now, interventions>>, call' \in [Callers -> Transaction]
  PROVE  ControlTypeOK' /\ Grows
<1>1. UNCHANGED <<users, founded, role, packages, licences, uploads, invitations>>
  BY DEF store
<1>2. \A c \in Callers : call'[c].stage \in Stages /\ call'[c].result \in Results
  BY DEF Transaction
<1>3. ControlTypeOK'
  BY <1>1, <1>2 DEF Types, ControlTypeOK
<1>4. Grows
  <2>1. \A p \in Packages : packages[p] # None => packages[p].downloads \in Nat
    BY DEF Types, ControlTypeOK, Row
  <2> QED BY <1>1, <2>1 DEF Grows
<1> QED BY <1>3, <1>4

\* Whoever answered fits.
LEMMA EndsFits ==
  ASSUME NEW c \in Callers, NEW result, Ends(c, result)
  PROVE  Fits(c)'
BY DEF Ends, Fits

\* A refusal, or any answer that writes nothing.
LEMMA RefuseKeeps ==
  ASSUME Inv, NEW c \in Callers, NEW result \in Results, Refuse(c, result)
  PROVE  Inv' /\ Grows
<1>1. Types /\ Answer(c, result) /\ UNCHANGED <<store, now, interventions>>
  BY DEF Refuse, Inv
<1> QED BY <1>1, AnswerIs, UnchangedTables, EndsFits, StepKeeps

\* Another statement that writes nothing.
LEMMA GoOnKeeps ==
  ASSUME Inv, NEW c \in Callers, NEW next \in Transaction, GoOn(c, next),
         UNCHANGED <<store, now, interventions>>, call'[c] = next => Fits(c)'
  PROVE  Inv' /\ Grows
BY GoOnIs, UnchangedTables, StepKeeps DEF Inv

\* Every statement of a transaction, and every intervention, keeps the invariant.
LEMMA BeginKeeps ==
  ASSUME Inv, NEW c \in Callers, Begin(c)
  PROVE  Inv' /\ Grows
<1>1. /\ call[c] \in Transaction /\ Formed(Req(c)) /\ Fits(c) /\ call[c].stage = "idle"
      /\ now \in 0..MaxNow /\ UNCHANGED <<store, now, interventions>>
  BY RequestsFormed DEF Inv, Begin, At, Types, ControlTypeOK
<1> DEFINE next == [call[c] EXCEPT !.stage = FirstStage(Req(c)), !.began = now]
<1>2. FirstStage(Req(c)) \in Stages
  BY <1>1 DEF FirstStage, Formed, Stages
<1>3. next \in Transaction
  BY <1>1, <1>2 DEF Transaction
<1>4. GoOn(c, next)
  BY DEF Begin, GoOn
<1>5. ASSUME call'[c] = next PROVE Fits(c)'
  <2>1. /\ call'[c].req = call[c].req /\ call'[c].stage = FirstStage(Req(c))
        /\ call'[c].seen = call[c].seen /\ call'[c].held = call[c].held
    BY <1>1, <1>5 DEF Transaction
  <2>2. call[c].seen = {} /\ call[c].held = {}
    BY <1>1 DEF Fits
  <2> QED BY <1>1, <2>1, <2>2 DEF Fits, FirstStage, Req, Formed, OnPackage, Unchecked, AsksRole
<1> QED BY <1>3, <1>4, <1>5, <1>1, GoOnKeeps

\* A rollback keeps the invariant.
LEMMA FailKeeps ==
  ASSUME Inv, NEW c \in Callers, Fail(c)
  PROVE  Inv' /\ Grows
BY RefuseKeeps DEF Fail, Results

\* A row that was just read is as it was read.
LEMMA JustSeen ==
  ASSUME Types, NEW CONSTANT r, r.package \in Packages, packages[r.package] # None
  PROVE  Seen(r, packages[r.package]) /\ packages[r.package] \in Row
<1>1. packages[r.package] \in Row
  BY DEF Types, ControlTypeOK
<1>2. packages[r.package].downloads \in Nat
  BY <1>1 DEF Row
<1> QED BY <1>1, <1>2 DEF Seen

\* Reading the package keeps it: the row is seen.
LEMMA FindPackageKeeps ==
  ASSUME Inv, NEW c \in Callers, FindPackage(c)
  PROVE  Inv' /\ Grows
<1> DEFINE r == Req(c)
           row == packages[Req(c).package]
           stage == IF r.checked THEN "authorise" ELSE Ready(r, row)
           next == [call[c] EXCEPT !.row = row, !.stage = stage]
<1>1. /\ call[c] \in Transaction /\ Formed(r) /\ Fits(c) /\ Types
      /\ r.kind \in OnPackage /\ r.package \in Packages /\ call[c].stage = "find"
  BY RequestsFormed DEF Inv, FindPackage, At, Fits, Formed
<1>2. CASE Refuse(c, "not_found") \/ Refuse(c, "permanent")
  BY <1>2, RefuseKeeps DEF Results
<1>3. CASE row # None /\ GoOn(c, next) /\ UNCHANGED <<store, now, interventions>>
  <2>1. Seen(r, row) /\ row \in Row
    BY <1>1, <1>3, JustSeen
  <2>2. /\ stage \in {"authorise", "precheck", "write", "version", "retarget"}
        /\ stage = "authorise" => r.checked
        /\ stage = "precheck" => r.kind = "setVisibility" /\ r.to = "public"
        /\ stage = "version" => r.kind \in {"license", "upload"}
        /\ stage = "retarget" => r.kind = "settings"
        /\ stage = "write" => r.kind # "license"
    BY <1>1 DEF Ready, Formed, OnPackage
  <2>3. next \in Transaction
    <3> HIDE DEF stage, row
    <3> QED BY <1>1, <2>1, <2>2 DEF Transaction, Stages
  <2>4. ASSUME call'[c] = next PROVE Fits(c)'
    <3>1. /\ call'[c].req = call[c].req /\ call'[c].stage = stage /\ call'[c].row = row
          /\ call'[c].seen = call[c].seen /\ call'[c].held = call[c].held
      BY <1>1, <2>4 DEF Transaction
    <3>2. call[c].seen = {} /\ call[c].held = {}
      BY <1>1 DEF Fits
    <3>3. UNCHANGED packages
      BY <1>3 DEF store
    <3> HIDE DEF stage
    <3> QED BY <1>1, <2>1, <2>2, <3>1, <3>2, <3>3 DEF Fits, Req, Seen, OnPackage
  <2> QED BY <1>3, <2>3, <2>4, GoOnKeeps
<1> QED BY <1>2, <1>3 DEF FindPackage

\* Checking the actor's role keeps it.
LEMMA AuthoriseKeeps ==
  ASSUME Inv, NEW c \in Callers, Authorise(c)
  PROVE  Inv' /\ Grows
<1> DEFINE r == Req(c)
           stage == Ready(r, call[c].row)
           next == [call[c] EXCEPT !.stage = stage]
<1>1. /\ call[c] \in Transaction /\ Formed(r) /\ Fits(c)
      /\ call[c].stage = "authorise" /\ r.checked /\ r.kind # "accept"
  BY RequestsFormed DEF Inv, Authorise, At, Fits
<1>2. CASE Refuse(c, "not_found") \/ Refuse(c, "policy") \/ Refuse(c, "ok")
  BY <1>2, RefuseKeeps DEF Results
<1>3. CASE GoOn(c, next) /\ UNCHANGED <<store, now, interventions>>
  <2>1. /\ stage \in {"write", "version", "retarget"}
        /\ stage = "version" => r.kind \in {"license", "upload"}
        /\ stage = "retarget" => r.kind = "settings"
        /\ stage = "write" => r.kind # "license"
    BY <1>1 DEF Ready, Formed, AsksRole
  <2>2. next \in Transaction
    <3> HIDE DEF stage
    <3> QED BY <1>1, <2>1 DEF Transaction, Stages
  <2>3. ASSUME call'[c] = next PROVE Fits(c)'
    <3>1. /\ call'[c].req = call[c].req /\ call'[c].stage = stage /\ call'[c].row = call[c].row
          /\ call'[c].seen = call[c].seen /\ call'[c].held = call[c].held
      BY <1>1, <2>3 DEF Transaction
    <3>2. call[c].seen = {} /\ call[c].held = {} /\ UNCHANGED packages
      BY <1>1, <1>3 DEF Fits, store
    <3> HIDE DEF stage
    <3> QED BY <1>1, <2>1, <3>1, <3>2 DEF Fits, Req, Seen
  <2> QED BY <1>3, <2>2, <2>3, GoOnKeeps
<1> QED BY <1>2, <1>3 DEF Authorise

\* Checking the role in the project a package goes to keeps it.
LEMMA RetargetKeeps ==
  ASSUME Inv, NEW c \in Callers, Retarget(c)
  PROVE  Inv' /\ Grows
<1> DEFINE next == [call[c] EXCEPT !.stage = "write"]
<1>1. /\ call[c] \in Transaction /\ Fits(c) /\ call[c].stage = "retarget"
  BY RequestsFormed DEF Inv, Retarget, At
<1>2. CASE Refuse(c, "policy")
  BY <1>2, RefuseKeeps DEF Results
<1>3. CASE GoOn(c, next) /\ UNCHANGED <<store, now, interventions>>
  <2>1. next \in Transaction
    BY <1>1 DEF Transaction, Stages
  <2>2. ASSUME call'[c] = next PROVE Fits(c)'
    <3>1. /\ call'[c].req = call[c].req /\ call'[c].stage = "write" /\ call'[c].row = call[c].row
          /\ call'[c].seen = call[c].seen /\ call'[c].held = call[c].held
      BY <1>1, <2>2 DEF Transaction
    <3> QED BY <1>1, <1>3, <3>1 DEF Fits, Req, Seen, store
  <2> QED BY <1>3, <2>1, <2>2, GoOnKeeps
<1> QED BY <1>2, <1>3 DEF Retarget

\* Checking the version's package keeps it.
LEMMA CheckVersionKeeps ==
  ASSUME Inv, NEW c \in Callers, CheckVersion(c)
  PROVE  Inv' /\ Grows
<1> DEFINE r == Req(c)
           stage == CASE r.kind = "upload" -> "write"
                      [] r.kind = "license" -> IF r.primary THEN "demote" ELSE "insert"
           next == [call[c] EXCEPT !.stage = stage]
<1>1. /\ call[c] \in Transaction /\ Formed(r) /\ Fits(c) /\ call[c].stage = "version"
      /\ r.kind \in {"license", "upload"}
  BY RequestsFormed DEF Inv, CheckVersion, At, Fits
<1>2. CASE Refuse(c, "policy")
  BY <1>2, RefuseKeeps DEF Results
<1>3. CASE GoOn(c, next) /\ UNCHANGED <<store, now, interventions>>
  <2>1. /\ stage \in {"write", "demote", "insert"}
        /\ stage = "write" => r.kind = "upload"
        /\ stage # "write" => r.kind = "license"
        /\ stage = "demote" => r.primary
    BY <1>1
  <2>2. next \in Transaction
    <3> HIDE DEF stage
    <3> QED BY <1>1, <2>1 DEF Transaction, Stages
  <2>3. ASSUME call'[c] = next PROVE Fits(c)'
    <3>1. /\ call'[c].req = call[c].req /\ call'[c].stage = stage /\ call'[c].row = call[c].row
          /\ call'[c].seen = call[c].seen /\ call'[c].held = call[c].held
      BY <1>1, <2>3 DEF Transaction
    <3>2. call[c].seen = {} /\ call[c].held = {} /\ UNCHANGED packages
      BY <1>1, <1>3 DEF Fits, store
    <3> HIDE DEF stage
    <3> QED BY <1>1, <2>1, <3>1, <3>2 DEF Fits, Req, Seen
  <2> QED BY <1>3, <2>2, <2>3, GoOnKeeps
<1> QED BY <1>2, <1>3 DEF CheckVersion

\* The first evaluation of the window keeps it.
LEMMA PrecheckKeeps ==
  ASSUME Inv, NEW c \in Callers, Precheck(c)
  PROVE  Inv' /\ Grows
<1> DEFINE next == [call[c] EXCEPT !.stage = "write"]
<1>1. /\ call[c] \in Transaction /\ Fits(c) /\ call[c].stage = "precheck"
  BY RequestsFormed DEF Inv, Precheck, At
<1>2. CASE Refuse(c, "expired") \/ Refuse(c, "popular")
  BY <1>2, RefuseKeeps DEF Results
<1>3. CASE GoOn(c, next) /\ UNCHANGED <<store, now, interventions>>
  <2>1. next \in Transaction
    BY <1>1 DEF Transaction, Stages
  <2>2. ASSUME call'[c] = next PROVE Fits(c)'
    <3>1. /\ call'[c].req = call[c].req /\ call'[c].stage = "write" /\ call'[c].row = call[c].row
          /\ call'[c].seen = call[c].seen /\ call'[c].held = call[c].held
      BY <1>1, <2>2 DEF Transaction
    <3> QED BY <1>1, <1>3, <3>1 DEF Fits, Req, Seen, store
  <2> QED BY <1>3, <2>1, <2>2, GoOnKeeps
<1> QED BY <1>2, <1>3 DEF Precheck

\* The demotion's snapshot keeps it: it is of c's own scope.
LEMMA StartDemotionKeeps ==
  ASSUME Inv, NEW c \in Callers, StartDemotion(c)
  PROVE  Inv' /\ Grows
<1> DEFINE r == Req(c)
           next == [call[c] EXCEPT !.stage = "insert", !.seen = Primaries(ScopeOf(c))]
<1>1. /\ call[c] \in Transaction /\ Fits(c) /\ call[c].stage = "demote" /\ GoOn(c, next)
      /\ UNCHANGED <<store, now, interventions>> /\ licences \subseteq Licence
  BY RequestsFormed DEF Inv, StartDemotion, At, Types, ControlTypeOK
<1>2. Primaries(ScopeOf(c)) \subseteq Licence
  BY <1>1 DEF Primaries
<1>3. next \in Transaction
  BY <1>1, <1>2 DEF Transaction, Stages
<1>4. ASSUME call'[c] = next PROVE Fits(c)'
  <2>1. /\ call'[c].req = call[c].req /\ call'[c].stage = "insert" /\ call'[c].row = call[c].row
        /\ call'[c].seen = Primaries(ScopeOf(c)) /\ call'[c].held = call[c].held
    BY <1>1, <1>4 DEF Transaction
  <2>2. /\ call[c].held = {} /\ r.kind = "license" /\ r.primary /\ UNCHANGED packages
        /\ ScopeOf(c)' = ScopeOf(c)
    BY <1>1, <2>1 DEF Fits, store, ScopeOf, Req
  <2>3. \A l \in Primaries(ScopeOf(c)) : Scope(l) = ScopeOf(c)
    BY DEF Primaries
  <2> QED BY <1>1, <2>1, <2>2, <2>3 DEF Fits, Req, Seen, Scope
<1> QED BY <1>1, <1>3, <1>4, GoOnKeeps

\* Locking the primary licences keeps it.
LEMMA LockPrimariesKeeps ==
  ASSUME Inv, NEW c \in Callers, LockPrimaries(c)
  PROVE  Inv' /\ Grows
<1> DEFINE r == Req(c)
           held == call[c].seen \cap licences
           next == [call[c] EXCEPT !.seen = {}, !.held = held]
<1>1. /\ call[c] \in Transaction /\ Fits(c) /\ call[c].stage = "insert" /\ GoOn(c, next)
      /\ UNCHANGED <<store, now, interventions>> /\ call[c].seen # {}
  BY RequestsFormed DEF Inv, LockPrimaries, At
<1>2. held \subseteq Licence /\ r.primary
  BY <1>1 DEF Transaction, Fits
<1> HIDE DEF held
<1>3. next \in Transaction
  BY <1>1, <1>2 DEF Transaction
<1>4. ASSUME call'[c] = next PROVE Fits(c)'
  <2>1. /\ call'[c].req = call[c].req /\ call'[c].stage = "insert" /\ call'[c].row = call[c].row
        /\ call'[c].seen = {} /\ call'[c].held = held
    BY <1>1, <1>4 DEF Transaction
  <2>2. UNCHANGED packages /\ ScopeOf(c)' = ScopeOf(c)
    BY <1>1, <2>1 DEF store, ScopeOf, Req
  <2>3. \A l \in held : Scope(l) = ScopeOf(c)
    BY <1>1 DEF Fits, held
  <2> QED BY <1>1, <1>2, <2>1, <2>2, <2>3 DEF Fits, Req, Seen, Scope
<1> QED BY <1>1, <1>3, <1>4, GoOnKeeps

\* Looking for the user keeps it.
LEMMA LoginKeeps ==
  ASSUME Inv, NEW c \in Callers, Login(c)
  PROVE  Inv' /\ Grows
<1> DEFINE r == Req(c)
           next == [call[c] EXCEPT !.stage = "enrol", !.row = users[Req(c).actor]]
<1>1. /\ call[c] \in Transaction /\ Fits(c) /\ Formed(r) /\ call[c].stage = "login"
      /\ GoOn(c, next) /\ UNCHANGED <<store, now, interventions>>
  BY RequestsFormed DEF Inv, Login, At
<1>2. r.kind = "accept" /\ users[Req(c).actor] \in Emails \cup {None}
  BY <1>1 DEF Fits, Formed, Inv, Types, ControlTypeOK
<1>3. next \in Transaction
  BY <1>1, <1>2 DEF Transaction, Stages
<1>4. ASSUME call'[c] = next PROVE Fits(c)'
  <2>1. /\ call'[c].req = call[c].req /\ call'[c].stage = "enrol"
        /\ call'[c].row \in Emails \cup {None}
        /\ call'[c].seen = call[c].seen /\ call'[c].held = call[c].held
    BY <1>1, <1>2, <1>4 DEF Transaction
  <2>2. call[c].seen = {} /\ call[c].held = {}
    BY <1>1 DEF Fits
  <2> QED BY <1>1, <1>2, <2>1, <2>2 DEF Fits, Req, OnPackage
<1> QED BY <1>1, <1>3, <1>4, GoOnKeeps

\* Looking the invitation up keeps it: it has the address of the request.
LEMMA LookupKeeps ==
  ASSUME Inv, NEW c \in Callers, Lookup(c)
  PROVE  Inv' /\ Grows
<1> DEFINE r == Req(c)
<1>1. /\ call[c] \in Transaction /\ Fits(c) /\ call[c].stage = "lookup"
  BY RequestsFormed DEF Inv, Lookup, At
<1>2. CASE Refuse(c, "not_found")
  BY <1>2, RefuseKeeps DEF Results
<1>3. ASSUME NEW i \in Invitations, invitations[i] # None, invitations[i].email = r.email,
             GoOn(c, [call[c] EXCEPT !.stage = "consume", !.inv = i]),
             UNCHANGED <<store, now, interventions>>
      PROVE  Inv' /\ Grows
  <2> DEFINE next == [call[c] EXCEPT !.stage = "consume", !.inv = i]
  <2>1. next \in Transaction
    BY <1>1 DEF Transaction, Stages
  <2>2. ASSUME call'[c] = next PROVE Fits(c)'
    <3>1. /\ call'[c].req = call[c].req /\ call'[c].stage = "consume" /\ call'[c].inv = i
          /\ call'[c].seen = call[c].seen /\ call'[c].held = call[c].held
      BY <1>1, <2>2 DEF Transaction
    <3>2. call[c].seen = {} /\ call[c].held = {} /\ UNCHANGED invitations
      BY <1>1, <1>3 DEF Fits, store
    <3> QED BY <1>1, <1>3, <3>1, <3>2 DEF Fits, Req, OnPackage
  <2> QED BY <1>3, <2>1, <2>2, GoOnKeeps
<1> QED BY <1>2, <1>3 DEF Lookup

\* The last write of a transaction, with its commit.
LEMMA AnswerKeeps ==
  ASSUME Inv, NEW c \in Callers, Answer(c, "ok") \/ AnswerAndDisturb(c, "ok"),
         call' \in [Callers -> Transaction] => ControlTypeOK', Grows
  PROVE  Inv'
<1>1. "ok" \in Results /\ Types
  BY DEF Results, Inv
<1>2. /\ call' \in [Callers -> Transaction] /\ Ends(c, "ok")
      /\ \A d \in Callers \ {c} : Same(d)
  BY <1>1, AnswerIs, AnswerAndDisturbIs
<1> QED BY <1>2, EndsFits, StepKeeps

\* Of the packages, a write touches one row, which it may create.
LEMMA PackageWrite ==
  ASSUME Inv, NEW c \in Callers, Answer(c, "ok") \/ AnswerAndDisturb(c, "ok"),
         NEW p \in Packages, NEW row \in Row, packages' = [packages EXCEPT ![p] = row],
         UNCHANGED <<users, founded, role, licences, uploads, invitations, now, interventions>>,
         row.born <= now,
         packages[p] # None =>
           /\ row.born = packages[p].born /\ row.downloads >= packages[p].downloads
           /\ packages[p].visibility = "public" => row.visibility = "public"
  PROVE  Inv' /\ Grows
<1>1. Types
  BY DEF Inv
<1>2. row # None
  BY ControlAssumption
<1>3. Grows
  <2>1. \A q \in Packages : packages[q] # None => packages[q].downloads \in Nat
    BY <1>1 DEF Types, ControlTypeOK, Row
  <2>2. \A q \in Packages : packages'[q] = IF q = p THEN row ELSE packages[q]
    BY <1>1 DEF Types, ControlTypeOK
  <2> QED BY <1>2, <2>1, <2>2 DEF Grows
<1>4. ASSUME call' \in [Callers -> Transaction] PROVE ControlTypeOK'
  <2>1. \A d \in Callers : call'[d].stage \in Stages /\ call'[d].result \in Results
    BY <1>4 DEF Transaction
  <2>2. packages' \in [Packages -> Row \cup {None}]
    BY <1>1 DEF Types, ControlTypeOK
  <2>3. \A q \in Packages : packages'[q] # None => packages'[q].born <= now'
    BY <1>1 DEF Types, ControlTypeOK
  <2> QED BY <1>1, <2>1, <2>2, <2>3 DEF Types, ControlTypeOK
<1> QED BY <1>3, <1>4, AnswerKeeps

\* Setting a visibility keeps it: public stays public.
LEMMA WriteVisibilityKeeps ==
  ASSUME Inv, NEW c \in Callers, WriteVisibility(c)
  PROVE  Inv' /\ Grows
<1> DEFINE r == Req(c)
           p == r.package
           to == IF r.kind = "promote" THEN "public" ELSE r.to
           row == packages[p]
           verdict == Verdict(row, to, DecisionTime(c))
           fact == [age |-> now - row.born, downloads |-> row.downloads]
           new == [row EXCEPT !.visibility = to,
                     !.promoted = IF to = "public" /\ row.visibility # "public" THEN fact ELSE @]
<1>1. /\ call[c] \in Transaction /\ Formed(r) /\ Fits(c) /\ Types
      /\ call[c].stage = "write" /\ r.kind \in {"promote", "setVisibility"}
  BY RequestsFormed DEF Inv, WriteVisibility, At
<1>2. p \in Packages /\ to \in Visibilities /\ row # None
  BY <1>1 DEF Formed, Fits, Seen, OnPackage, Visibilities
<1>3. row \in Row /\ row.born <= now /\ now \in 0..MaxNow
  BY <1>1, <1>2 DEF Types, ControlTypeOK
<1>4. verdict \in Results
  BY <1>2, <1>3 DEF Verdict, Results, Visibilities, Row
<1>5. CASE Refuse(c, verdict)
  BY <1>4, <1>5, RefuseKeeps
<1>6. CASE /\ verdict = "ok" /\ packages' = [packages EXCEPT ![p] = new] /\ Answer(c, "ok")
           /\ UNCHANGED <<users, founded, role, licences, uploads, invitations, now,
                          interventions>>
  <2>1. row.visibility = "public" => to = "public"
    BY <1>3, <1>6 DEF Verdict, Row, Visibilities
  <2>2. /\ now - row.born \in 0..MaxNow /\ row.downloads \in Nat /\ row.born \in Nat
        /\ fact \in [age : 0..MaxNow, downloads : Nat]
    BY <1>3, ControlAssumption DEF Row
  <2>3. new \in Row /\ new.born = row.born /\ new.downloads = row.downloads
        /\ new.visibility = to
    <3> HIDE DEF fact, to
    <3> QED BY <1>2, <1>3, <2>2 DEF Row
  <2> HIDE DEF new, row, p, to
  <2>4. row = packages[p] /\ new.downloads >= row.downloads
    BY <2>2, <2>3 DEF row
  <2> QED BY <1>2, <1>3, <1>6, <2>1, <2>2, <2>3, <2>4, PackageWrite
<1> QED BY <1>5, <1>6 DEF WriteVisibility

\* Counting a download keeps it.
LEMMA WriteDownloadKeeps ==
  ASSUME Inv, NEW c \in Callers, WriteDownload(c)
  PROVE  Inv' /\ Grows
<1> DEFINE p == Req(c).package
           new == [packages[p] EXCEPT !.downloads = @ + 1]
<1>1. p \in Packages /\ Types
  BY RequestsFormed DEF Inv, WriteDownload, Formed
<1>2. CASE Refuse(c, "conflict")
  BY <1>2, RefuseKeeps DEF Results
<1>3. CASE /\ packages[p] # None /\ packages' = [packages EXCEPT ![p].downloads = @ + 1]
           /\ Answer(c, "ok")
           /\ UNCHANGED <<users, founded, role, licences, uploads, invitations, now,
                          interventions>>
  <2>1. packages[p] \in Row /\ packages[p].born <= now
    BY <1>1, <1>3 DEF Types, ControlTypeOK
  <2>2. /\ new \in Row /\ new.born = packages[p].born
        /\ new.downloads >= packages[p].downloads
        /\ new.visibility = packages[p].visibility
    BY <2>1 DEF Row
  <2>3. packages' = [packages EXCEPT ![p] = new]
    BY <1>3
  <2> HIDE DEF new, p
  <2> QED BY <1>1, <1>3, <2>1, <2>2, <2>3, PackageWrite
<1> QED BY <1>2, <1>3 DEF WriteDownload

\* Creating a package keeps it.
LEMMA WritePackageKeeps ==
  ASSUME Inv, NEW c \in Callers, WritePackage(c)
  PROVE  Inv' /\ Grows
<1> DEFINE r == Req(c)
           p == r.package
           new == [project |-> r.project, visibility |-> "private", born |-> now,
                   downloads |-> 0, promoted |-> None]
<1>1. /\ p \in Packages /\ Types /\ now \in 0..MaxNow /\ r.project \in Projects \cup {None}
  BY RequestsFormed DEF Inv, WritePackage, Formed, Types, ControlTypeOK
<1>2. CASE Refuse(c, "conflict")
  BY <1>2, RefuseKeeps DEF Results
<1>3. CASE /\ packages[p] = None /\ packages' = [packages EXCEPT ![p] = new]
           /\ AnswerAndDisturb(c, "ok")
           /\ UNCHANGED <<users, founded, role, licences, uploads, invitations, now,
                          interventions>>
  <2>1. new \in Row /\ new.born <= now
    BY <1>1 DEF Row, Visibilities
  <2> HIDE DEF new, p
  <2> QED BY <1>1, <1>3, <2>1, PackageWrite
<1> QED BY <1>2, <1>3 DEF WritePackage

\* Moving a package keeps it.
LEMMA WriteSettingsKeeps ==
  ASSUME Inv, NEW c \in Callers, WriteSettings(c)
  PROVE  Inv' /\ Grows
<1> DEFINE r == Req(c)
           p == r.package
           new == [packages[p] EXCEPT !.project = r.project]
<1>1. /\ Formed(r) /\ Fits(c) /\ Types /\ call[c].stage = "write" /\ r.kind = "settings"
  BY RequestsFormed DEF Inv, WriteSettings, At
<1>2. p \in Packages /\ packages[p] # None /\ r.project \in Projects \cup {None}
  BY <1>1 DEF Formed, Fits, Seen, OnPackage
<1>3. packages[p] \in Row /\ packages[p].born <= now
  BY <1>1, <1>2 DEF Types, ControlTypeOK
<1>4. /\ new \in Row /\ new.born = packages[p].born /\ new.downloads >= packages[p].downloads
      /\ new.visibility = packages[p].visibility
  BY <1>2, <1>3 DEF Row
<1>5. /\ packages' = [packages EXCEPT ![p] = new] /\ AnswerAndDisturb(c, "ok")
      /\ UNCHANGED <<users, founded, role, licences, uploads, invitations, now, interventions>>
  BY DEF WriteSettings
<1> HIDE DEF new, p
<1> QED BY <1>2, <1>3, <1>4, <1>5, PackageWrite

\* A step that leaves the packages alone grows, if the invitations do.
LEMMA OthersGrow ==
  ASSUME Types, UNCHANGED packages,
         \A i \in Invitations : invitations[i] # None =>
           invitations'[i] # None /\ invitations'[i].email = invitations[i].email
  PROVE  Grows
<1>1. \A p \in Packages : packages[p] # None => packages[p].downloads \in Nat
  BY DEF Types, ControlTypeOK, Row
<1> QED BY <1>1 DEF Grows

\* Recording an upload keeps it.
LEMMA WriteUploadKeeps ==
  ASSUME Inv, NEW c \in Callers, WriteUpload(c)
  PROVE  Inv' /\ Grows
<1>1. /\ Types /\ Answer(c, "ok")
      /\ UNCHANGED <<users, founded, role, packages, licences, invitations, now, interventions>>
  BY DEF WriteUpload, Inv
<1>2. Grows
  BY <1>1, OthersGrow
<1>3. ASSUME call' \in [Callers -> Transaction] PROVE ControlTypeOK'
  BY <1>1, <1>3 DEF Types, ControlTypeOK, Transaction
<1> QED BY <1>1, <1>2, <1>3, AnswerKeeps

\* Founding an organization or a project keeps it.
LEMMA WriteTargetKeeps ==
  ASSUME Inv, NEW c \in Callers, WriteTarget(c)
  PROVE  Inv' /\ Grows
<1> DEFINE r == Req(c)
           t == IF r.kind = "createOrg" THEN r.org ELSE r.project
<1>1. /\ Types /\ Formed(r) /\ t \in Targets /\ r.actor \in Users
  BY RequestsFormed DEF WriteTarget, Inv, Formed, Targets
<1>2. CASE Refuse(c, "conflict")
  BY <1>2, RefuseKeeps DEF Results
<1>3. CASE /\ founded' = founded \cup {t} /\ role' = [role EXCEPT ![t][r.actor] = "owner"]
           /\ AnswerAndDisturb(c, "ok")
           /\ UNCHANGED <<users, packages, licences, uploads, invitations, now, interventions>>
  <2>1. Grows
    BY <1>1, <1>3, OthersGrow
  <2>2. ASSUME call' \in [Callers -> Transaction] PROVE ControlTypeOK'
    <3>1. \A d \in Callers : call'[d].stage \in Stages /\ call'[d].result \in Results
      BY <2>2 DEF Transaction
    <3>2. founded' \subseteq Targets
      BY <1>1, <1>3 DEF Types, ControlTypeOK
    <3>3. role' \in [Targets -> [Users -> Roles \cup {None}]]
      <4>1. "owner" \in Roles BY DEF Roles, RoleRank
      <4> HIDE DEF r, t
      <4> QED BY <4>1, <1>1, <1>3 DEF Types, ControlTypeOK
    <3> QED BY <1>1, <1>3, <3>1, <3>2, <3>3 DEF Types, ControlTypeOK
  <2> QED BY <1>3, <2>1, <2>2, AnswerKeeps
<1> QED BY <1>2, <1>3 DEF WriteTarget

\* Inserting a licence keeps it.
LEMMA InsertLicenseKeeps ==
  ASSUME Inv, NEW c \in Callers, InsertLicense(c)
  PROVE  Inv' /\ Grows
<1> DEFINE r == Req(c)
           held == call[c].held
           new == [by |-> c, package |-> r.package, version |-> r.version,
                   primary |-> r.primary, asked |-> r.primary]
<1>1. /\ Types /\ Formed(r) /\ Fits(c) /\ r.kind = "license" /\ held \subseteq Licence
  BY RequestsFormed DEF InsertLicense, Inv, At, Fits, Transaction
<1>2. CASE Refuse(c, "conflict")
  BY <1>2, RefuseKeeps DEF Results
<1>3. CASE /\ licences' = (licences \ held)
                            \cup {[l EXCEPT !.primary = FALSE] : l \in held} \cup {new}
           /\ Answer(c, "ok")
           /\ UNCHANGED <<users, founded, role, packages, uploads, invitations, now,
                          interventions>>
  <2>1. Grows
    BY <1>1, <1>3, OthersGrow
  <2>2. new \in Licence
    BY <1>1 DEF Licence, Formed, OnPackage
  <2>3. \A l \in held : [l EXCEPT !.primary = FALSE] \in Licence
    BY <1>1 DEF Licence
  <2>4. licences' \subseteq Licence
    BY <1>1, <1>3, <2>2, <2>3 DEF Types, ControlTypeOK
  <2>5. ASSUME call' \in [Callers -> Transaction] PROVE ControlTypeOK'
    <3>1. \A d \in Callers : call'[d].stage \in Stages /\ call'[d].result \in Results
      BY <2>5 DEF Transaction
    <3> QED BY <1>1, <1>3, <2>4, <3>1 DEF Types, ControlTypeOK
  <2> QED BY <1>3, <2>1, <2>5, AnswerKeeps
<1> QED BY <1>2, <1>3 DEF InsertLicense

\* Of the invitations, a step changes one, which it may issue.
LEMMA InvitationWrite ==
  ASSUME Types, NEW i \in Invitations, NEW o \in Invitation,
         invitations' = [invitations EXCEPT ![i] = o],
         invitations[i] # None => o.email = invitations[i].email
  PROVE  /\ invitations' \in [Invitations -> Invitation \cup {None}]
         /\ \A k \in Invitations : invitations[k] # None =>
              invitations'[k] # None /\ invitations'[k].email = invitations[k].email
BY ControlAssumption DEF Types, ControlTypeOK

\* Inviting keeps it.
LEMMA WriteInvitationKeeps ==
  ASSUME Inv, NEW c \in Callers, WriteInvitation(c)
  PROVE  Inv' /\ Grows
<1> DEFINE r == Req(c)
           o == [target |-> r.target, email |-> r.email, role |-> r.role, token |-> r.token,
                 expires |-> r.expires, by |-> None, revoked |-> FALSE]
<1>1. /\ Types /\ Formed(r) /\ r.kind = "invite"
  BY RequestsFormed DEF WriteInvitation, Inv
<1>2. CASE Refuse(c, "conflict")
  BY <1>2, RefuseKeeps DEF Results
<1>3. CASE /\ r.role \in InvitableRoles /\ invitations[r.inv] = None
           /\ invitations' = [invitations EXCEPT ![r.inv] = o] /\ Answer(c, "ok")
           /\ UNCHANGED <<users, founded, role, packages, licences, uploads, now, interventions>>
  <2>1. o \in Invitation /\ r.inv \in Invitations
    BY <1>1, <1>3 DEF Invitation, Formed
  <2> HIDE DEF o
  <2>2. /\ invitations' \in [Invitations -> Invitation \cup {None}] /\ Grows
    BY <1>1, <1>3, <2>1, InvitationWrite, OthersGrow
  <2>3. ASSUME call' \in [Callers -> Transaction] PROVE ControlTypeOK'
    <3>1. \A d \in Callers : call'[d].stage \in Stages /\ call'[d].result \in Results
      BY <2>3 DEF Transaction
    <3> QED BY <1>1, <1>3, <2>2, <3>1 DEF Types, ControlTypeOK
  <2> QED BY <1>3, <2>2, <2>3, AnswerKeeps
<1> QED BY <1>2, <1>3 DEF WriteInvitation

\* Recording the user keeps it.
LEMMA EnrolKeeps ==
  ASSUME Inv, NEW c \in Callers, Enrol(c)
  PROVE  Inv' /\ Grows
<1> DEFINE r == Req(c)
           next == [call[c] EXCEPT !.stage = "lookup", !.began = now]
<1>1. /\ Types /\ Formed(r) /\ Fits(c) /\ call[c] \in Transaction /\ r.kind = "accept"
      /\ call[c].stage = "enrol" /\ now \in 0..MaxNow
  BY RequestsFormed DEF Enrol, Inv, At, Fits, Types, ControlTypeOK
<1>2. CASE Refuse(c, "conflict")
  BY <1>2, RefuseKeeps DEF Results
<1>3. CASE /\ users' = [users EXCEPT ![r.actor] = r.email] /\ GoOn(c, next)
           /\ UNCHANGED <<founded, role, packages, licences, uploads, invitations, now,
                          interventions>>
  <2>1. next \in Transaction
    BY <1>1 DEF Transaction, Stages
  <2>2. /\ call' \in [Callers -> Transaction] /\ call'[c] = next
        /\ \A d \in Callers \ {c} : Same(d)
    BY <1>1, <1>3, <2>1, GoOnIs
  <2>3. Grows
    BY <1>1, <1>3, OthersGrow
  <2>4. ControlTypeOK'
    <3>1. \A d \in Callers : call'[d].stage \in Stages /\ call'[d].result \in Results
      BY <2>2 DEF Transaction
    <3>2. r.email \in Emails /\ r.actor \in Users
      BY <1>1 DEF Formed, Emails
    <3> QED BY <1>1, <1>3, <3>1, <3>2 DEF Types, ControlTypeOK
  <2>5. Fits(c)'
    <3>1. /\ call'[c].req = call[c].req /\ call'[c].stage = "lookup"
          /\ call'[c].seen = call[c].seen /\ call'[c].held = call[c].held
      BY <1>1, <2>2 DEF Transaction
    <3> QED BY <1>1, <3>1 DEF Fits, Req, OnPackage
  <2> QED BY <2>2, <2>3, <2>4, <2>5, StepKeeps
<1> QED BY <1>2, <1>3 DEF Enrol

\* Accepting an invitation keeps it.
LEMMA ConsumeKeeps ==
  ASSUME Inv, NEW c \in Callers, Consume(c)
  PROVE  Inv' /\ Grows
<1> DEFINE r == Req(c)
           i == call[c].inv
           o == invitations[i]
           used == [o EXCEPT !.by = r.actor]
<1>1. /\ Types /\ Formed(r) /\ Fits(c) /\ r.kind = "accept" /\ i \in Invitations /\ o # None
  BY RequestsFormed DEF Consume, Inv, At, Fits
<1>2. o \in Invitation /\ r.actor \in Users
  BY <1>1 DEF Types, ControlTypeOK, Formed
<1>3. CASE Refuse(c, "not_found") \/ Refuse(c, "conflict")
  BY <1>3, RefuseKeeps DEF Results
<1>4. CASE /\ invitations' = [invitations EXCEPT ![i].by = r.actor]
           /\ role' = [role EXCEPT ![o.target][r.actor] = o.role]
           /\ AnswerAndDisturb(c, "ok")
           /\ UNCHANGED <<users, founded, packages, licences, uploads, now, interventions>>
  <2>1. used \in Invitation /\ used.email = o.email /\ invitations' = [invitations EXCEPT ![i] = used]
    BY <1>2, <1>4 DEF Invitation
  <2> HIDE DEF used
  <2>2. invitations' \in [Invitations -> Invitation \cup {None}] /\ Grows
    BY <1>1, <1>4, <2>1, InvitationWrite, OthersGrow
  <2>3. role' \in [Targets -> [Users -> Roles \cup {None}]]
    <3>1. o.role \in Roles /\ o.target \in Targets
      BY <1>2 DEF Invitation, InvitableRoles, Roles, RoleRank
    <3> HIDE DEF o, r
    <3> QED BY <3>1, <1>1, <1>2, <1>4 DEF Types, ControlTypeOK
  <2>4. ASSUME call' \in [Callers -> Transaction] PROVE ControlTypeOK'
    <3>1. \A d \in Callers : call'[d].stage \in Stages /\ call'[d].result \in Results
      BY <2>4 DEF Transaction
    <3> QED BY <1>1, <1>4, <2>2, <2>3, <3>1 DEF Types, ControlTypeOK
  <2> QED BY <1>4, <2>2, <2>4, AnswerKeeps
<1> QED BY <1>3, <1>4 DEF Consume

\* A step of nobody's transaction.
LEMMA ApartKeeps ==
  ASSUME Inv, ControlTypeOK', Grows, call' \in [Callers -> Transaction],
         \A d \in Callers : Same(d)
  PROVE  Inv'
BY FitsStable DEF Inv, Types

\* An operator's step ends no transaction.
LEMMA CallsApart ==
  ASSUME Types, call' = Disturb(call) \/ call' = call
  PROVE  /\ call' \in [Callers -> Transaction]
         /\ \A d \in Callers : Same(d) /\ call'[d].stage \in Stages /\ call'[d].result \in Results
<1>1. call \in [Callers -> Transaction]
  BY DEF Types
<1>2. CASE call' = call
  BY <1>1, <1>2 DEF Same, Transaction
<1>3. CASE call' = Disturb(call)
  <2>1. call' \in [Callers -> Transaction]
    BY <1>1, <1>3, DisturbIs
  <2>2. ASSUME NEW d \in Callers PROVE Same(d)
    <3>1. /\ call'[d] = [call[d] EXCEPT !.calm = call'[d].calm] /\ call[d] \in Transaction
          /\ call'[d].calm => call[d].calm
      BY <1>1, <1>3, DisturbIs
    <3> QED BY <3>1 DEF Same, Transaction
  <2> QED BY <2>1, <2>2 DEF Transaction
<1> QED BY <1>2, <1>3

\* An operator's change of a role keeps it.
LEMMA AppointKeeps ==
  ASSUME Inv, NEW t, NEW u, NEW q, <<t, u, q>> \in Appointments, Appoint(t, u, q)
  PROVE  Inv' /\ Grows
<1>1. Types /\ t \in Targets /\ u \in Users /\ q \in Roles \cup {None}
  BY ControlAssumption DEF Inv
<1>2. /\ call' \in [Callers -> Transaction]
      /\ \A d \in Callers : Same(d) /\ call'[d].stage \in Stages /\ call'[d].result \in Results
  BY <1>1, CallsApart DEF Appoint
<1>3. Grows
  BY <1>1, OthersGrow DEF Appoint
<1>4. role' \in [Targets -> [Users -> Roles \cup {None}]]
  BY <1>1 DEF Appoint, Types, ControlTypeOK
<1>5. interventions' \in 0..MaxInterventions
  BY <1>1, ControlAssumption DEF Appoint, Types, ControlTypeOK
<1>6. ControlTypeOK'
  BY <1>1, <1>2, <1>4, <1>5 DEF Appoint, Types, ControlTypeOK
<1> QED BY <1>2, <1>3, <1>6, ApartKeeps

\* A revocation keeps it.
LEMMA RevokeKeeps ==
  ASSUME Inv, NEW i \in Invitations, Revoke(i)
  PROVE  Inv' /\ Grows
<1> DEFINE o == [invitations[i] EXCEPT !.revoked = TRUE]
<1>1. Types /\ invitations[i] \in Invitation
  BY DEF Inv, Revoke, Types, ControlTypeOK
<1>2. /\ call' \in [Callers -> Transaction]
      /\ \A d \in Callers : Same(d) /\ call'[d].stage \in Stages /\ call'[d].result \in Results
  BY <1>1, CallsApart DEF Revoke
<1>3. /\ o \in Invitation /\ o.email = invitations[i].email
      /\ invitations' = [invitations EXCEPT ![i] = o]
  BY <1>1 DEF Revoke, Invitation
<1> HIDE DEF o
<1>4. invitations' \in [Invitations -> Invitation \cup {None}] /\ Grows
  BY <1>1, <1>3, InvitationWrite, OthersGrow DEF Revoke
<1>5. interventions' \in 0..MaxInterventions
  BY <1>1, ControlAssumption DEF Revoke, Types, ControlTypeOK
<1>6. ControlTypeOK'
  BY <1>1, <1>2, <1>4, <1>5 DEF Revoke, Types, ControlTypeOK
<1> QED BY <1>2, <1>4, <1>6, ApartKeeps

\* Time passing keeps it.
LEMMA TickKeeps ==
  ASSUME Inv, Tick
  PROVE  Inv' /\ Grows
<1>1. Types /\ UNCHANGED <<users, founded, role, packages, licences, uploads, invitations>>
  BY DEF Inv, Tick, store
<1>2. /\ call' \in [Callers -> Transaction]
      /\ \A d \in Callers : Same(d) /\ call'[d].stage \in Stages /\ call'[d].result \in Results
  BY <1>1, CallsApart DEF Tick
<1>3. now' \in 0..MaxNow /\ now' = now + 1 /\ now \in Nat
  BY <1>1, ControlAssumption DEF Tick, Types, ControlTypeOK
<1>4. \A p \in Packages : packages'[p] # None => packages'[p].born <= now'
  <2>1. \A p \in Packages : packages[p] # None => packages[p].born \in Nat
    BY <1>1, ControlAssumption DEF Types, ControlTypeOK, Row
  <2> QED BY <1>1, <1>3, <2>1 DEF Types, ControlTypeOK
<1>5. ControlTypeOK'
  BY <1>1, <1>2, <1>3, <1>4 DEF Tick, Types, ControlTypeOK
<1>6. Grows
  BY <1>1, OthersGrow
<1> QED BY <1>2, <1>5, <1>6, ApartKeeps

\* A stuttering step keeps it.
LEMMA StutterKeeps ==
  ASSUME Inv, UNCHANGED controlVars
  PROVE  Inv' /\ Grows
<1>1. Types /\ UNCHANGED <<store, now, interventions>> /\ call' = call
  BY DEF Inv, controlVars
<1>2. call' \in [Callers -> Transaction] /\ \A d \in Callers : Same(d)
  BY <1>1, CallsApart
<1> QED BY <1>1, <1>2, UnchangedTables, ApartKeeps

\* So every step keeps it, and packages and invitations only grow.
LEMMA InvStep ==
  ASSUME Inv, [ControlNext]_controlVars
  PROVE  Inv' /\ Grows
<1>1. ASSUME NEW c \in Callers, Step(c) PROVE Inv' /\ Grows
  BY <1>1, BeginKeeps, FailKeeps, FindPackageKeeps, AuthoriseKeeps, RetargetKeeps,
     CheckVersionKeeps, PrecheckKeeps, WriteVisibilityKeeps, WriteDownloadKeeps,
     WritePackageKeeps, WriteSettingsKeeps, WriteUploadKeeps, WriteTargetKeeps,
     StartDemotionKeeps, LockPrimariesKeeps, InsertLicenseKeeps, WriteInvitationKeeps,
     LoginKeeps, EnrolKeeps, LookupKeeps, ConsumeKeeps DEF Step
<1>2. ASSUME NEW a \in Appointments, Appoint(a[1], a[2], a[3]) PROVE Inv' /\ Grows
  <2>1. a = <<a[1], a[2], a[3]>>
    BY ControlAssumption
  <2> QED BY <1>2, <2>1, AppointKeeps
<1>3. ASSUME NEW i \in Invitations, Revoke(i) PROVE Inv' /\ Grows
  BY <1>3, RevokeKeeps
<1>4. CASE Tick \/ UNCHANGED controlVars
  BY <1>4, TickKeeps, StutterKeeps
<1> QED BY <1>1, <1>2, <1>3, <1>4 DEF ControlNext

\* It holds at first.
LEMMA InvInit == ControlInit => Inv
<1> SUFFICES ASSUME NEW asked \in Workloads, ControlStart(asked) PROVE Inv
  BY DEF ControlInit
<1> USE DEF ControlStart
<1>1. \A c \in Callers : asked[c] \in AskedFor
  BY DEF AskedFor
<1>2. call \in [Callers -> Transaction]
  <2>1. 0 \in 0..MaxNow /\ "idle" \in Stages /\ None \in Results
    BY ControlAssumption DEF Stages, Results
  <2>2. \A c \in Callers : [Idle EXCEPT !.req = asked[c]] \in Transaction
    BY <1>1, <2>1 DEF Idle, Transaction
  <2> QED BY <2>2
<1>3. packages \in [Packages -> Row \cup {None}]
  BY ControlAssumption
<1>4. \A p \in Packages : packages[p] # None => packages[p].born <= now
  BY ControlAssumption
<1>5. ControlTypeOK
  <2>1. \A c \in Callers : call[c].stage \in Stages /\ call[c].result \in Results
    BY <1>2 DEF Transaction
  <2>2. /\ invitations \in [Invitations -> Invitation \cup {None}] /\ licences \subseteq Licence
        /\ founded \subseteq Targets /\ now \in 0..MaxNow /\ interventions \in 0..MaxInterventions
    BY ControlAssumption
  <2>3. /\ users \in [Users -> Emails \cup {None}]
        /\ role \in [Targets -> [Users -> Roles \cup {None}]]
    BY ControlAssumption
  <2> QED BY <1>3, <1>4, <2>1, <2>2, <2>3 DEF ControlTypeOK
<1>6. ASSUME NEW c \in Callers PROVE Fits(c)
  <2>1. call[c].stage = "idle" /\ call[c].seen = {} /\ call[c].held = {}
    BY DEF Idle
  <2> QED BY <2>1 DEF Fits
<1> QED BY <1>2, <1>5, <1>6 DEF Inv, Types

\* The account control plane keeps its types, and every transaction what it relies on.
THEOREM ControlTyping == ControlSpec => []ControlTypeOK
<1>1. Inv /\ [ControlNext]_controlVars => Inv'
  BY InvStep
<1>2. Inv => ControlTypeOK
  BY DEF Inv, Types
<1> QED BY InvInit, <1>1, <1>2, PTL DEF ControlSpec
-------------------------------------------------------------------------------
\* Licences: only an insertion touches them.
Inserts(c) ==
  /\ InsertLicense(c) /\ ~Clash(c)
  /\ licences' = (licences \ call[c].held)
                   \cup {[l EXCEPT !.primary = FALSE] : l \in call[c].held}
                   \cup {[by |-> c, package |-> Req(c).package, version |-> Req(c).version,
                          primary |-> Req(c).primary, asked |-> Req(c).primary]}

\* Every step leaves the licences alone or is an insertion.
LEMMA LicencesChange ==
  ASSUME [ControlNext]_controlVars
  PROVE  UNCHANGED licences \/ \E c \in Callers : Inserts(c)
<1>1. ASSUME NEW c \in Callers, Step(c) PROVE UNCHANGED licences \/ Inserts(c)
  <2> USE DEF Refuse, store
  <2>1. CASE Begin(c) \/ Fail(c) \/ FindPackage(c) \/ Authorise(c) \/ Retarget(c)
    BY <2>1 DEF Begin, Fail, FindPackage, Authorise, Retarget
  <2>2. CASE CheckVersion(c) \/ Precheck(c) \/ StartDemotion(c) \/ LockPrimaries(c)
    BY <2>2 DEF CheckVersion, Precheck, StartDemotion, LockPrimaries
  <2>3. CASE WriteVisibility(c) \/ WriteDownload(c) \/ WritePackage(c) \/ WriteSettings(c)
    BY <2>3 DEF WriteVisibility, WriteDownload, WritePackage, WriteSettings
  <2>4. CASE WriteUpload(c) \/ WriteTarget(c) \/ WriteInvitation(c)
    BY <2>4 DEF WriteUpload, WriteTarget, WriteInvitation
  <2>5. CASE Login(c) \/ Enrol(c) \/ Lookup(c) \/ Consume(c)
    BY <2>5 DEF Login, Enrol, Lookup, Consume
  <2>6. CASE InsertLicense(c)
    BY <2>6 DEF InsertLicense, Inserts
  <2> QED BY <1>1, <2>1, <2>2, <2>3, <2>4, <2>5, <2>6 DEF Step
<1>2. CASE (\E a \in Appointments : Appoint(a[1], a[2], a[3])) \/ (\E i \in Invitations : Revoke(i))
           \/ Tick \/ UNCHANGED controlVars
  BY <1>2 DEF Appoint, Revoke, Tick, controlVars, store
<1> QED BY <1>1, <1>2 DEF ControlNext

\* An insertion takes the place of every primary licence of its scope, and of none
\* of another scope.
LEMMA InsertKeepsOne ==
  ASSUME Inv, OnePrimary, NEW c \in Callers, Inserts(c)
  PROVE  OnePrimary'
<1> DEFINE r == Req(c)
           held == call[c].held
           demoted == {[l EXCEPT !.primary = FALSE] : l \in held}
           new == [by |-> c, package |-> r.package, version |-> r.version,
                   primary |-> r.primary, asked |-> r.primary]
<1>1. /\ Fits(c) /\ Formed(r) /\ r.kind = "license" /\ r.primary \in BOOLEAN
      /\ held \subseteq Licence /\ licences \subseteq Licence
  BY RequestsFormed DEF Inv, Inserts, InsertLicense, At, Fits, Formed, Transaction, Types,
     ControlTypeOK
<1>2. licences' = (licences \ held) \cup demoted \cup {new}
  BY DEF Inserts
<1>3. Scope(new) = ScopeOf(c) /\ new.primary = r.primary /\ new.asked = r.primary
  BY DEF Scope, ScopeOf
<1>4. ASSUME NEW l \in demoted PROVE ~l.primary /\ Scope(l) = ScopeOf(c) /\ l \in Licence
  <2>1. PICK k \in held : l = [k EXCEPT !.primary = FALSE]
    OBVIOUS
  <2>2. k \in Licence /\ Scope(k) = ScopeOf(c)
    BY <1>1 DEF Fits
  <2> QED BY <2>1, <2>2 DEF Licence, Scope
<1>5. \A l \in held : Scope(l) = ScopeOf(c)
  BY <1>1 DEF Fits
<1>6. CASE ~r.primary
  <2>1. held = {} /\ demoted = {}
    BY <1>1, <1>6 DEF Fits
  <2> HIDE DEF held, demoted, new
  <2>2. licences' = licences \cup {new}
    BY <1>2, <2>1
  <2> QED BY <2>2, <1>3, <1>6 DEF OnePrimary, Scope
<1>7. CASE r.primary
  <2>1. \A l \in licences \ held : l.primary => Scope(l) # ScopeOf(c)
    BY <1>7 DEF Inserts, Clash, Primaries
  <2> HIDE DEF held, demoted, new
  <2>2. ASSUME NEW l \in licences', NEW k \in licences', l.primary, k.primary,
               Scope(l) = Scope(k)
        PROVE  l = k
    BY <1>2, <1>3, <1>4, <2>1, <2>2 DEF OnePrimary
  <2>3. ASSUME NEW l \in licences', l.asked
        PROVE  \E k \in licences' : k.primary /\ Scope(k) = Scope(l)
    <3>1. CASE Scope(l) = ScopeOf(c)
      BY <1>2, <1>3, <1>7, <3>1
    <3>2. CASE Scope(l) # ScopeOf(c)
      <4>1. l \in licences
        BY <1>2, <1>3, <1>4, <3>2
      <4>2. PICK k \in licences : k.primary /\ Scope(k) = Scope(l)
        BY <4>1, <2>3 DEF OnePrimary
      <4> QED BY <4>2, <3>2, <1>5, <1>2
    <3> QED BY <3>1, <3>2
  <2> QED BY <2>2, <2>3 DEF OnePrimary, Scope
<1> QED BY <1>1, <1>6, <1>7

\* One primary licence per scope is what PrimaryKept counts.
LEMMA OneIsKept == OnePrimary => PrimaryKept
<1> SUFFICES ASSUME OnePrimary, NEW l \in licences, l.asked
             PROVE  Cardinality(Primaries(Scope(l))) = 1
  BY DEF PrimaryKept
<1>1. PICK k \in licences : k.primary /\ Scope(k) = Scope(l)
  BY DEF OnePrimary
<1>2. Primaries(Scope(l)) = {k}
  BY <1>1 DEF Primaries, OnePrimary
<1> QED BY <1>2, FS_Singleton

\* A scope that was ever given a primary licence has exactly one, however many calls
\* of add_package_license demote and insert at once.
THEOREM PrimaryHolds == ControlSpec => []PrimaryKept
<1>1. ControlInit => OnePrimary
  BY DEF ControlInit, ControlStart, OnePrimary
<1>2. Inv /\ OnePrimary /\ [ControlNext]_controlVars => OnePrimary'
  BY LicencesChange, InsertKeepsOne DEF OnePrimary, Scope
<1>3. Inv /\ [ControlNext]_controlVars => Inv'
  BY InvStep
<1> QED BY InvInit, <1>1, <1>2, <1>3, OneIsKept, PTL DEF ControlSpec
-------------------------------------------------------------------------------
\* Membership: what leaves these tables alone is a stutter of the abstract one.
Members == <<role, founded, invitations>>

\* A step that leaves roles, targets and invitations alone is a stutter of Membership.
LEMMA MembersStutter ==
  ASSUME UNCHANGED Members
  PROVE  UNCHANGED Grants!membershipVars
BY DEF Members, Grants!membershipVars, Offers, State

\* Only three statements and two interventions touch these tables.
LEMMA MembersChange ==
  ASSUME [ControlNext]_controlVars
  PROVE  \/ UNCHANGED Members
         \/ \E c \in Callers : WriteTarget(c) \/ WriteInvitation(c) \/ Consume(c)
         \/ \E a \in Appointments : Appoint(a[1], a[2], a[3])
         \/ \E i \in Invitations : Revoke(i)
<1> USE DEF Members
<1>1. ASSUME NEW c \in Callers, Step(c)
      PROVE  UNCHANGED Members \/ WriteTarget(c) \/ WriteInvitation(c) \/ Consume(c)
  <2> USE DEF Refuse, store
  <2>1. CASE Begin(c) \/ Fail(c) \/ FindPackage(c) \/ Authorise(c) \/ Retarget(c)
    BY <2>1 DEF Begin, Fail, FindPackage, Authorise, Retarget
  <2>2. CASE CheckVersion(c) \/ Precheck(c) \/ StartDemotion(c) \/ LockPrimaries(c)
    BY <2>2 DEF CheckVersion, Precheck, StartDemotion, LockPrimaries
  <2>3. CASE WriteVisibility(c) \/ WriteDownload(c) \/ WritePackage(c) \/ WriteSettings(c)
    BY <2>3 DEF WriteVisibility, WriteDownload, WritePackage, WriteSettings
  <2>4. CASE WriteUpload(c) \/ InsertLicense(c) \/ Login(c) \/ Enrol(c) \/ Lookup(c)
    BY <2>4 DEF WriteUpload, InsertLicense, Login, Enrol, Lookup
  <2> QED BY <1>1, <2>1, <2>2, <2>3, <2>4 DEF Step
<1>2. CASE Tick \/ UNCHANGED controlVars
  BY <1>2 DEF Tick, controlVars, store
<1> QED BY <1>1, <1>2 DEF ControlNext

\* Creating an organization or a project is a Found of Membership.
LEMMA FoundsTarget ==
  ASSUME Inv, NEW c \in Callers, WriteTarget(c)
  PROVE  [Grants!Next]_(Grants!membershipVars)
<1> DEFINE r == Req(c)
           t == IF r.kind = "createOrg" THEN r.org ELSE r.project
<1>1. t \in Targets /\ r.actor \in Users
  BY RequestsFormed DEF WriteTarget, Inv, Formed, Targets
<1>2. CASE Refuse(c, "conflict")
  BY <1>2, MembersStutter DEF Refuse, store, Members
<1>3. CASE /\ t \notin founded
           /\ founded' = founded \cup {t} /\ role' = [role EXCEPT ![t][r.actor] = "owner"]
           /\ UNCHANGED invitations
  <2>1. UNCHANGED Offers
    BY <1>3 DEF Offers, State
  <2>2. Grants!Found(t, r.actor)
    BY <1>3, <2>1 DEF Grants!Found
  <2> QED BY <1>1, <2>2 DEF Grants!Next
<1> QED BY <1>2, <1>3 DEF WriteTarget

\* The offer that stands for an invitation row.
OfferOf(o) ==
  [target |-> o.target, email |-> o.email, role |-> o.role, state |-> State(o)]

\* The offer of an invitation.
LEMMA OfferIs ==
  ASSUME NEW o \in Invitation
  PROVE  OfferOf(o) # None /\ State(o) \in {"open", "used", "revoked"}
<1>1. State(o) \in {"open", "used", "revoked"}
  BY DEF State
<1>2. OfferOf(o) \in [target : Targets, email : Emails, role : InvitableRoles,
                      state : {"open", "used", "revoked"}]
  BY <1>1 DEF OfferOf, Invitation
<1> QED BY <1>1, <1>2, ControlAssumption

\* A step that writes one invitation row changes one offer.
LEMMA OfferWrite ==
  ASSUME Types, NEW i \in Invitations, NEW o \in Invitation,
         invitations' = [invitations EXCEPT ![i] = o]
  PROVE  Offers' = [Offers EXCEPT ![i] = OfferOf(o)]
<1>1. invitations'[i] = o /\ \A k \in Invitations \ {i} : invitations'[k] = invitations[k]
  BY DEF Types, ControlTypeOK
<1>2. o # None
  BY ControlAssumption
<1>3. Offers'[i] = OfferOf(o)
  BY <1>1, <1>2 DEF Offers, OfferOf, State
<1>4. \A k \in Invitations \ {i} : Offers'[k] = Offers[k]
  BY <1>1 DEF Offers, State
<1>5. /\ Offers' = [k \in Invitations |-> Offers'[k]]
      /\ Offers = [k \in Invitations |-> Offers[k]]
  BY DEF Offers
<1> HIDE DEF Offers
<1> QED BY <1>3, <1>4, <1>5

\* Inviting is an Issue of Membership.
LEMMA IssuesOffer ==
  ASSUME Inv, NEW c \in Callers, WriteInvitation(c)
  PROVE  [Grants!Next]_(Grants!membershipVars)
<1> DEFINE r == Req(c)
           o == [target |-> r.target, email |-> r.email, role |-> r.role, token |-> r.token,
                 expires |-> r.expires, by |-> None, revoked |-> FALSE]
           new == [target |-> r.target, email |-> r.email, role |-> r.role, state |-> "open"]
<1>1. Types /\ Formed(r) /\ r.kind = "invite"
  BY RequestsFormed DEF WriteInvitation, Inv
<1>2. CASE Refuse(c, "conflict")
  BY <1>2, MembersStutter DEF Refuse, store, Members
<1>3. CASE /\ r.role \in InvitableRoles /\ r.target \in founded /\ invitations[r.inv] = None
           /\ invitations' = [invitations EXCEPT ![r.inv] = o]
           /\ UNCHANGED <<role, founded>>
  <2>1. /\ r.inv \in Invitations /\ r.target \in Targets /\ r.email \in Emails
        /\ r.role \in Roles \ {"owner"} /\ o \in Invitation
    BY <1>1, <1>3 DEF Formed, InvitableRoles, Roles, RoleRank, Invitation
  <2>2. Offers' = [Offers EXCEPT ![r.inv] = new]
    <3>1. OfferOf(o) = new
      BY DEF OfferOf, State
    <3> HIDE DEF o, new
    <3> QED BY <1>1, <1>3, <2>1, <3>1, OfferWrite
  <2>3. Offers[r.inv] = None
    BY <1>3, <2>1 DEF Offers
  <2>4. Grants!Issue(r.inv, r.target, r.email, r.role)
    BY <1>3, <2>1, <2>2, <2>3 DEF Grants!Issue
  <2>5. Grants!Emails = Emails
    BY DEF Grants!Emails, Emails
  <2> QED BY <2>1, <2>4, <2>5 DEF Grants!Next
<1> QED BY <1>2, <1>3 DEF WriteInvitation

\* Consuming an invitation is an Accept of Membership, by the user it addresses.
LEMMA AcceptsOffer ==
  ASSUME Inv, NEW c \in Callers, Consume(c)
  PROVE  [Grants!Next]_(Grants!membershipVars)
<1> DEFINE r == Req(c)
           i == call[c].inv
           o == invitations[i]
<1>1. /\ Types /\ Formed(r) /\ Fits(c) /\ r.kind = "accept" /\ i \in Invitations /\ o # None
      /\ o.email = r.email
  BY RequestsFormed DEF Consume, Inv, At, Fits
<1>2. o \in Invitation /\ r.actor \in Users /\ r.email \in Identities[r.actor] /\ r.actor # None
  BY <1>1, ControlAssumption DEF Types, ControlTypeOK, Formed
<1>3. CASE Refuse(c, "not_found") \/ Refuse(c, "conflict")
  BY <1>3, MembersStutter DEF Refuse, store, Members
<1>4. CASE /\ Live(o, call[c].began) /\ role[o.target][r.actor] = None
           /\ invitations' = [invitations EXCEPT ![i].by = r.actor]
           /\ role' = [role EXCEPT ![o.target][r.actor] = o.role]
           /\ UNCHANGED founded
  <2> DEFINE used == [o EXCEPT !.by = r.actor]
  <2>1. /\ used \in Invitation /\ used.by = r.actor /\ used.target = o.target
        /\ used.email = o.email /\ used.role = o.role
    BY <1>2 DEF Invitation
  <2>2. invitations' = [invitations EXCEPT ![i] = used]
    BY <1>4
  <2>3. Offers[i] = OfferOf(o) /\ OfferOf(o).state = "open" /\ Offers[i] # None
    BY <1>1, <1>2, <1>4, OfferIs DEF Offers, OfferOf, State, Live
  <2>4. OfferOf(used) = [OfferOf(o) EXCEPT !.state = "used"]
    BY <1>2, <2>1 DEF OfferOf, State
  <2>5. Offers' = [Offers EXCEPT ![i].state = "used"]
    <3>1. Offers' = [Offers EXCEPT ![i] = OfferOf(used)]
      <4> HIDE DEF used
      <4> QED BY <1>1, <2>1, <2>2, OfferWrite
    <3> HIDE DEF used
    <3> QED BY <3>1, <2>3, <2>4
  <2>6. /\ Offers[i].email = o.email /\ Offers[i].target = o.target /\ Offers[i].role = o.role
    BY <2>3 DEF OfferOf
  <2>7. Grants!Accept(i, r.actor)
    BY <1>1, <1>2, <1>4, <2>3, <2>5, <2>6 DEF Grants!Accept
  <2> QED BY <1>1, <1>2, <2>7 DEF Grants!Next
<1> QED BY <1>3, <1>4 DEF Consume

\* Revoking an invitation is a Revoke of Membership.
LEMMA RevokesOffer ==
  ASSUME Inv, NEW i \in Invitations, Revoke(i)
  PROVE  [Grants!Next]_(Grants!membershipVars)
<1> DEFINE o == invitations[i]
           gone == [o EXCEPT !.revoked = TRUE]
<1>1. /\ Types /\ o \in Invitation /\ o # None /\ o.by = None /\ ~o.revoked
      /\ invitations' = [invitations EXCEPT ![i] = gone] /\ UNCHANGED <<role, founded>>
  BY DEF Inv, Revoke, Types, ControlTypeOK
<1>2. /\ gone \in Invitation /\ gone.by = None /\ gone.revoked /\ gone.target = o.target
      /\ gone.email = o.email /\ gone.role = o.role
  BY <1>1 DEF Invitation
<1>3. Offers[i] = OfferOf(o) /\ OfferOf(o).state = "open" /\ Offers[i] # None
  BY <1>1, OfferIs DEF Offers, OfferOf, State
<1>4. OfferOf(gone) = [OfferOf(o) EXCEPT !.state = "revoked"]
  BY <1>1, <1>2 DEF OfferOf, State
<1> HIDE DEF gone, o
<1>5. Offers' = [Offers EXCEPT ![i] = OfferOf(gone)]
  BY <1>1, <1>2, OfferWrite
<1>6. Grants!Revoke(i)
  BY <1>1, <1>3, <1>4, <1>5 DEF Grants!Revoke
<1> QED BY <1>6 DEF Grants!Next

\* An operator's change of a role is an Appoint of Membership.
LEMMA AppointsRole ==
  ASSUME NEW t, NEW u, NEW q, <<t, u, q>> \in Appointments, Appoint(t, u, q)
  PROVE  [Grants!Next]_(Grants!membershipVars)
<1>1. t \in Targets /\ u \in Users /\ q \in Roles \cup {None}
  BY ControlAssumption
<1>2. UNCHANGED Offers
  BY DEF Appoint, Offers, State
<1>3. Grants!Appoint(t, u, q)
  BY <1>2 DEF Appoint, Grants!Appoint
<1> QED BY <1>1, <1>3 DEF Grants!Next

\* The account control plane implements Membership: a role comes from founding, from
\* one open invitation addressed to its user, or from an operator, whatever races.
THEOREM MembershipHolds == ControlSpec => MembershipSpec
<1>1. ControlInit => Grants!Init
  <2> SUFFICES ASSUME ControlInit PROVE Grants!Init
    OBVIOUS
  <2>1. Inv
    BY InvInit
  <2>2. Offers = [i \in Invitations |-> None]
    BY DEF ControlInit, ControlStart, Offers
  <2> QED BY <2>1, <2>2 DEF Grants!Init, Inv, Types, ControlTypeOK
<1>2. Inv /\ [ControlNext]_controlVars => [Grants!Next]_(Grants!membershipVars)
  <2> SUFFICES ASSUME Inv, [ControlNext]_controlVars
               PROVE  [Grants!Next]_(Grants!membershipVars)
    OBVIOUS
  <2>1. ASSUME NEW a \in Appointments, Appoint(a[1], a[2], a[3])
        PROVE  [Grants!Next]_(Grants!membershipVars)
    <3>1. a = <<a[1], a[2], a[3]>>
      BY ControlAssumption
    <3> QED BY <2>1, <3>1, AppointsRole
  <2> QED BY <2>1, MembersChange, MembersStutter, FoundsTarget, IssuesOffer, AcceptsOffer,
             RevokesOffer
<1>3. Inv /\ [ControlNext]_controlVars => Inv'
  BY InvStep
<1> QED BY InvInit, <1>1, <1>2, <1>3, PTL DEF ControlSpec, MembershipSpec, Grants!Spec
-------------------------------------------------------------------------------
\* Promotion: the other callers' transactions, at a statement of c.
LEMMA StatementForm ==
  ASSUME NEW c \in Callers, Step(c)
  PROVE  (\E next : GoOn(c, next)) \/ AnswerAndDisturb(c, "ok")
<1> USE DEF Refuse, Answer, GoOn
<1>1. CASE Begin(c) \/ Fail(c) \/ FindPackage(c) \/ Authorise(c) \/ Retarget(c)
  BY <1>1 DEF Begin, Fail, FindPackage, Authorise, Retarget
<1>2. CASE CheckVersion(c) \/ Precheck(c) \/ StartDemotion(c) \/ LockPrimaries(c)
  BY <1>2 DEF CheckVersion, Precheck, StartDemotion, LockPrimaries
<1>3. CASE WriteVisibility(c) \/ WriteDownload(c) \/ WritePackage(c) \/ WriteSettings(c)
  BY <1>3 DEF WriteVisibility, WriteDownload, WritePackage, WriteSettings
<1>4. CASE WriteUpload(c) \/ WriteTarget(c) \/ WriteInvitation(c) \/ InsertLicense(c)
  BY <1>4 DEF WriteUpload, WriteTarget, WriteInvitation, InsertLicense
<1>5. CASE Login(c) \/ Enrol(c) \/ Lookup(c) \/ Consume(c)
  BY <1>5 DEF Login, Enrol, Lookup, Consume
<1> QED BY <1>1, <1>2, <1>3, <1>4, <1>5 DEF Step

\* No other transaction's variables change.
LEMMA OthersSame ==
  ASSUME Types, NEW c \in Callers, Step(c), NEW d \in Callers \ {c}
  PROVE  Same(d)
<1>1. ASSUME NEW next, GoOn(c, next) PROVE Same(d)
  BY <1>1 DEF GoOn, Types, Same
<1>2. CASE AnswerAndDisturb(c, "ok")
  BY <1>2, AnswerAndDisturbIs DEF Results
<1> QED BY <1>1, <1>2, StatementForm

\* An answer that is true stays true: packages only grow, and time passes.
LEMMA AnswerStable ==
  ASSUME Inv, Inv', Grows, now' >= now, NEW c \in Callers, Same(c), AnswerTrue(c)
  PROVE  AnswerTrue(c)'
<1> DEFINE r == Req(c)
           p == r.package
<1> SUFFICES ASSUME At(c, "done"), r.kind \in {"promote", "setVisibility"}
             PROVE  AnswerTrue(c)'
  BY DEF AnswerTrue, At, Same, Req
<1>1. p \in Packages /\ Req(c)' = r /\ call'[c].result = call[c].result
  BY RequestsFormed DEF Inv, Formed, OnPackage, Same, Req
<1>2. CASE packages[p] = None
  BY <1>1, <1>2 DEF AnswerTrue
<1>3. CASE packages[p] # None
  <2>1. /\ packages'[p] # None /\ packages'[p].born = packages[p].born
        /\ packages'[p].downloads >= packages[p].downloads
        /\ packages[p].visibility = "public" => packages'[p].visibility = "public"
    BY <1>1, <1>3 DEF Grows
  <2>2. /\ packages[p] \in Row /\ packages'[p] \in Row /\ now \in Nat /\ now' \in Nat
        /\ MaxAge \in Nat /\ MaxDownloads \in Nat
    BY <1>1, <1>3, <2>1, ControlAssumption DEF Inv, Types, ControlTypeOK
  <2>3. /\ packages[p].born \in Nat /\ packages[p].downloads \in Nat
        /\ packages'[p].downloads \in Nat
    BY <2>2, ControlAssumption DEF Row
  <2>4. now - packages[p].born > MaxAge => now' - packages'[p].born > MaxAge
    BY <2>1, <2>2, <2>3
  <2>5. packages[p].downloads > MaxDownloads => packages'[p].downloads > MaxDownloads
    BY <2>1, <2>2, <2>3
  <2> QED BY <1>1, <2>1, <2>4, <2>5 DEF AnswerTrue
<1> QED BY <1>2, <1>3

\* A transaction keeps its request.
LEMMA KeepsRequest ==
  ASSUME Types, NEW c \in Callers, Step(c)
  PROVE  call'[c].req = call[c].req
<1>1. call \in [Callers -> Transaction] /\ call[c] \in Transaction
  BY DEF Types
<1>2. ASSUME NEW result, Answer(c, result) PROVE call'[c].req = call[c].req
  BY <1>1, <1>2 DEF Answer, Done, Transaction
<1>3. CASE AnswerAndDisturb(c, "ok")
  BY <1>3, AnswerAndDisturbIs DEF Results, Ends
<1>4. ASSUME NEW next, GoOn(c, next), next.req = call[c].req
      PROVE  call'[c].req = call[c].req
  BY <1>1, <1>4 DEF GoOn
<1> USE DEF Refuse
<1>5. CASE Fail(c) \/ WriteVisibility(c) \/ WriteDownload(c) \/ WritePackage(c) \/ WriteSettings(c)
  BY <1>2, <1>3, <1>5 DEF Fail, WriteVisibility, WriteDownload, WritePackage, WriteSettings
<1>6. CASE WriteUpload(c) \/ WriteTarget(c) \/ WriteInvitation(c) \/ InsertLicense(c) \/ Consume(c)
  BY <1>2, <1>3, <1>6 DEF WriteUpload, WriteTarget, WriteInvitation, InsertLicense, Consume
<1>7. CASE Begin(c)
  BY <1>1, <1>7 DEF Begin, Transaction
<1>8. CASE FindPackage(c) \/ Authorise(c) \/ Retarget(c) \/ CheckVersion(c) \/ Precheck(c)
  BY <1>1, <1>2, <1>8, ZenonT(30) DEF FindPackage, Authorise, Retarget, CheckVersion, Precheck, GoOn,
     Transaction
<1>9. CASE StartDemotion(c) \/ LockPrimaries(c) \/ Login(c) \/ Enrol(c) \/ Lookup(c)
  BY <1>1, <1>2, <1>9 DEF StartDemotion, LockPrimaries, Login, Enrol, Lookup, GoOn, Transaction
<1> QED BY <1>5, <1>6, <1>7, <1>8, <1>9 DEF Step

\* A refusal that says nothing of the package's row is true of it.
LEMMA OtherRefusals ==
  ASSUME Types, NEW c \in Callers, NEW result \in Results, Refuse(c, result),
         result \notin {"ok", "permanent", "expired", "popular"}
  PROVE  AnswerTrue(c)'
BY AnswerIs DEF Refuse, Ends, AnswerTrue

\* An answer given now is true now.
LEMMA AnswerIsTrue ==
  ASSUME Inv, NEW c \in Callers, Step(c)
  PROVE  AnswerTrue(c)'
<1> DEFINE r == Req(c)
           p == r.package
<1>1. Req(c)' = r /\ Types /\ Fits(c) /\ Formed(r) /\ call[c] \in Transaction
  BY KeepsRequest, RequestsFormed DEF Inv, Req
<1> SUFFICES ASSUME call'[c].stage = "done", r.kind \in {"promote", "setVisibility"}
             PROVE  AnswerTrue(c)'
  BY <1>1 DEF AnswerTrue, At
<1>2. p \in Packages /\ r.kind \in OnPackage
  BY <1>1 DEF Formed, OnPackage
<1>3. ASSUME NEW result \in Results, Refuse(c, result)
      PROVE  call'[c].result = result /\ UNCHANGED <<packages, now>>
  BY <1>1, <1>3, AnswerIs DEF Refuse, Ends, store
<1>4. ASSUME NEW next, GoOn(c, next), next.stage # "done" PROVE FALSE
  BY <1>1, <1>4 DEF GoOn, Types
<1>5. CASE Begin(c)
  <2>1. FirstStage(r) = "find"
    BY <1>2 DEF FirstStage, OnPackage
  <2> QED BY <1>1, <1>5, <2>1 DEF Begin, Types, Transaction
<1>6. CASE Fail(c)
  BY <1>1, <1>6, OtherRefusals DEF Fail, Results
<1>7. CASE FindPackage(c)
  <2>1. CASE Refuse(c, "not_found")
    BY <1>1, <2>1, OtherRefusals DEF Results
  <2>2. CASE packages[p] # None /\ packages[p].visibility = "public" /\ Refuse(c, "permanent")
    BY <1>1, <1>3, <2>2 DEF AnswerTrue, Results
  <2>3. ASSUME NEW s, s # "done", GoOn(c, [call[c] EXCEPT !.row = packages[p], !.stage = s])
        PROVE  FALSE
    BY <1>1, <1>4, <2>3 DEF Transaction
  <2>4. (IF r.checked THEN "authorise" ELSE Ready(r, packages[p])) # "done"
    BY <1>2 DEF Ready
  <2> QED BY <1>7, <2>1, <2>2, <2>3, <2>4 DEF FindPackage
<1>8. CASE Authorise(c)
  <2>1. CASE Refuse(c, "not_found") \/ Refuse(c, "policy")
    BY <1>1, <2>1, OtherRefusals DEF Results
  <2>2. CASE call[c].row.visibility = "public" /\ Refuse(c, "ok")
    <3>1. packages[p] # None /\ packages[p].visibility = "public"
      BY <1>1, <1>2, <1>8, <2>2 DEF Authorise, At, Fits, Seen
    <3> QED BY <1>1, <1>3, <2>2, <3>1 DEF AnswerTrue, Results
  <2>3. ASSUME NEW s, s # "done", GoOn(c, [call[c] EXCEPT !.stage = s]) PROVE FALSE
    BY <1>1, <1>4, <2>3 DEF Transaction
  <2>4. Ready(r, call[c].row) # "done"
    BY <1>2 DEF Ready
  <2> QED BY <1>8, <2>1, <2>2, <2>3, <2>4 DEF Authorise
<1>9. CASE Precheck(c)
  <2>1. Seen(r, call[c].row) /\ packages[p] \in Row
    BY <1>1, <1>2, <1>9 DEF Precheck, At, Fits, Seen, Types, ControlTypeOK
  <2>2. /\ packages[p] # None /\ packages[p].born = call[c].row.born
        /\ packages[p].downloads >= call[c].row.downloads
        /\ packages[p].downloads \in Nat /\ call[c].row.downloads \in Nat
        /\ MaxDownloads \in Nat
    BY <2>1, ControlAssumption DEF Seen, Row
  <2>3. CASE now - call[c].row.born > MaxAge /\ Refuse(c, "expired")
    BY <1>1, <1>3, <2>2, <2>3 DEF AnswerTrue, Results
  <2>4. CASE call[c].row.downloads > MaxDownloads /\ Refuse(c, "popular")
    <3>1. packages[p].downloads > MaxDownloads
      BY <2>2, <2>4
    <3> QED BY <1>1, <1>3, <2>2, <2>4, <3>1 DEF AnswerTrue, Results
  <2>5. ~GoOn(c, [call[c] EXCEPT !.stage = "write"])
    BY <1>1, <1>4 DEF Transaction
  <2> QED BY <1>9, <2>3, <2>4, <2>5 DEF Precheck
<1>10. CASE WriteVisibility(c)
  <2> DEFINE to == IF r.kind = "promote" THEN "public" ELSE r.to
             row == packages[p]
             verdict == Verdict(row, to, now)
  <2>1. row # None /\ row \in Row /\ to \in Visibilities
    BY <1>1, <1>2, <1>10 DEF WriteVisibility, At, Fits, Seen, Types, ControlTypeOK, Formed,
       Visibilities
  <2>2. /\ verdict \in {"ok", "permanent", "expired", "popular"}
        /\ verdict = "permanent" => row.visibility = "public"
        /\ verdict = "expired" => now - row.born > MaxAge
        /\ verdict = "popular" => row.downloads > MaxDownloads
    BY <2>1 DEF Verdict, Row, Visibilities
  <2>3. CASE verdict # "ok" /\ Refuse(c, verdict)
    <3> HIDE DEF verdict
    <3>1. verdict \in Results
      BY <2>2 DEF Results
    <3> QED BY <1>1, <1>3, <2>1, <2>2, <2>3, <3>1 DEF AnswerTrue
  <2>4. ASSUME NEW fact, Answer(c, "ok"),
               packages' = [packages EXCEPT ![p] = [row EXCEPT !.visibility = to, !.promoted = fact]]
        PROVE  AnswerTrue(c)'
    <3>1. call'[c].result = "ok"
      BY <1>1, <2>4, AnswerIs DEF Results, Ends
    <3>2. packages'[p].visibility = to
      BY <1>1, <1>2, <2>1, <2>4 DEF Types, ControlTypeOK, Row
    <3>3. packages'[p] # None
      BY InvStep, <1>2, <2>1 DEF Grows, ControlNext
    <3> QED BY <1>1, <3>1, <3>2, <3>3 DEF AnswerTrue
  <2> QED BY <1>10, <2>3, <2>4 DEF WriteVisibility, DecisionTime
<1>11. ~(Retarget(c) \/ CheckVersion(c) \/ StartDemotion(c) \/ LockPrimaries(c) \/ InsertLicense(c))
  BY <1>1 DEF Retarget, CheckVersion, StartDemotion, LockPrimaries, InsertLicense, At, Fits
<1>12. ~(Login(c) \/ Enrol(c) \/ Lookup(c) \/ Consume(c))
  BY <1>1 DEF Login, Enrol, Lookup, Consume, At, Fits
<1>13. ~(WriteDownload(c) \/ WritePackage(c) \/ WriteSettings(c) \/ WriteUpload(c)
         \/ WriteTarget(c) \/ WriteInvitation(c))
  BY DEF WriteDownload, WritePackage, WriteSettings, WriteUpload, WriteTarget, WriteInvitation
<1> QED BY <1>5, <1>6, <1>7, <1>8, <1>9, <1>10, <1>11, <1>12, <1>13 DEF Step

\* Only Tick moves the clock.
LEMMA StepTime ==
  ASSUME NEW c \in Callers, Step(c)
  PROVE  now' = now
<1> USE DEF Refuse
<1>1. CASE Begin(c) \/ Fail(c) \/ FindPackage(c) \/ Authorise(c) \/ Retarget(c)
  BY <1>1 DEF Begin, Fail, FindPackage, Authorise, Retarget
<1>2. CASE CheckVersion(c) \/ Precheck(c) \/ StartDemotion(c) \/ LockPrimaries(c)
  BY <1>2 DEF CheckVersion, Precheck, StartDemotion, LockPrimaries
<1>3. CASE WriteVisibility(c) \/ WriteDownload(c) \/ WritePackage(c) \/ WriteSettings(c)
  BY <1>3 DEF WriteVisibility, WriteDownload, WritePackage, WriteSettings
<1>4. CASE WriteUpload(c) \/ WriteTarget(c) \/ WriteInvitation(c) \/ InsertLicense(c)
  BY <1>4 DEF WriteUpload, WriteTarget, WriteInvitation, InsertLicense
<1>5. CASE Login(c) \/ Enrol(c) \/ Lookup(c) \/ Consume(c)
  BY <1>5 DEF Login, Enrol, Lookup, Consume
<1> QED BY <1>1, <1>2, <1>3, <1>4, <1>5 DEF Step

\* What was announced stays true, and what is announced is true.
LEMMA AnnouncedStep ==
  ASSUME Inv, Announced, [ControlNext]_controlVars
  PROVE  Announced'
<1>1. Inv' /\ Grows
  BY InvStep
<1>2. ASSUME NEW c \in Callers, Same(c), now' >= now PROVE AnswerTrue(c)'
  BY <1>1, <1>2, AnswerStable DEF Announced
<1>3. ASSUME NEW c \in Callers, Step(c) PROVE Announced'
  <2>1. now' = now /\ now \in Nat
    BY <1>3, StepTime, ControlAssumption DEF Inv, Types, ControlTypeOK
  <2>2. ASSUME NEW d \in Callers \ {c} PROVE AnswerTrue(d)'
    BY <1>2, <1>3, <2>1, OthersSame DEF Inv
  <2> QED BY <1>3, <2>2, AnswerIsTrue DEF Announced
<1>4. CASE ~\E c \in Callers : Step(c)
  <2>0. (now' = now \/ now' = now + 1) /\ (call' = call \/ call' = Disturb(call))
    <3>1. CASE \E a \in Appointments : Appoint(a[1], a[2], a[3])
      BY <3>1 DEF Appoint
    <3>2. CASE (\E i \in Invitations : Revoke(i)) \/ Tick \/ UNCHANGED controlVars
      BY <3>2 DEF Revoke, Tick, controlVars
    <3> QED BY <1>4, <3>1, <3>2 DEF ControlNext
  <2>1. now' >= now /\ (call' = call \/ call' = Disturb(call))
    BY <2>0, ControlAssumption DEF Inv, Types, ControlTypeOK
  <2>2. \A c \in Callers : Same(c)
    BY <2>1, CallsApart DEF Inv
  <2> QED BY <1>2, <2>1, <2>2 DEF Announced
<1> QED BY <1>3, <1>4

\* Of the packages, only four writes change a row: the one of their request.
LEMMA PackagesChange ==
  ASSUME [ControlNext]_controlVars
  PROVE  \/ UNCHANGED packages
         \/ \E c \in Callers : WriteVisibility(c) \/ WriteDownload(c) \/ WritePackage(c)
                               \/ WriteSettings(c)
<1> USE DEF Refuse, store
<1>1. ASSUME NEW c \in Callers, Step(c)
      PROVE  \/ UNCHANGED packages
             \/ WriteVisibility(c) \/ WriteDownload(c) \/ WritePackage(c) \/ WriteSettings(c)
  <2>1. CASE Begin(c) \/ Fail(c) \/ FindPackage(c) \/ Authorise(c) \/ Retarget(c)
    BY <2>1 DEF Begin, Fail, FindPackage, Authorise, Retarget
  <2>2. CASE CheckVersion(c) \/ Precheck(c) \/ StartDemotion(c) \/ LockPrimaries(c)
    BY <2>2 DEF CheckVersion, Precheck, StartDemotion, LockPrimaries
  <2>3. CASE WriteUpload(c) \/ WriteTarget(c) \/ WriteInvitation(c) \/ InsertLicense(c)
    BY <2>3 DEF WriteUpload, WriteTarget, WriteInvitation, InsertLicense
  <2>4. CASE Login(c) \/ Enrol(c) \/ Lookup(c) \/ Consume(c)
    BY <2>4 DEF Login, Enrol, Lookup, Consume
  <2> QED BY <1>1, <2>1, <2>2, <2>3, <2>4 DEF Step
<1>2. CASE (\E a \in Appointments : Appoint(a[1], a[2], a[3])) \/ (\E i \in Invitations : Revoke(i))
           \/ Tick \/ UNCHANGED controlVars
  BY <1>2 DEF Appoint, Revoke, Tick, controlVars
<1> QED BY <1>1, <1>2 DEF ControlNext

\* A promotion is recorded within both limits, and nothing takes it back.
LEMMA RecordedStep ==
  ASSUME Inv, Recorded, [ControlNext]_controlVars
  PROVE  Recorded'
<1> DEFINE Sound(row) == row.promoted # None =>
             /\ row.visibility = "public"
             /\ row.promoted.age <= MaxAge /\ row.promoted.downloads <= MaxDownloads
<1>1. Types /\ \A p \in Packages : packages[p] # None => packages[p] \in Row /\ Sound(packages[p])
  BY DEF Inv, Types, ControlTypeOK, Recorded
<1>2. ASSUME NEW p \in Packages, NEW row, packages' = [packages EXCEPT ![p] = row], Sound(row)
      PROVE  Recorded'
  BY <1>1, <1>2 DEF Recorded, Types, ControlTypeOK
<1>3. ASSUME NEW c \in Callers, WriteVisibility(c) PROVE Recorded'
  <2> DEFINE r == Req(c)
             p == r.package
             to == IF r.kind = "promote" THEN "public" ELSE r.to
             row == packages[p]
             fact == [age |-> now - row.born, downloads |-> row.downloads]
             new == [row EXCEPT !.visibility = to,
                       !.promoted = IF to = "public" /\ row.visibility # "public" THEN fact ELSE @]
  <2>1. /\ p \in Packages /\ row # None /\ row \in Row
        /\ to \in Visibilities
    <3>1. Formed(r) /\ Fits(c) /\ call[c].stage = "write" /\ r.kind \in {"promote", "setVisibility"}
      BY <1>3, RequestsFormed DEF Inv, WriteVisibility, At
    <3> QED BY <1>1, <3>1 DEF Formed, Fits, Seen, OnPackage, Visibilities
  <2>2. CASE UNCHANGED packages
    BY <2>2 DEF Recorded
  <2>3. CASE Verdict(row, to, now) = "ok" /\ packages' = [packages EXCEPT ![p] = new]
    <3>1. /\ row.visibility = "public" => to = "public"
          /\ row.visibility # "public" /\ to = "public" =>
               now - row.born <= MaxAge /\ row.downloads <= MaxDownloads
      <4>1. now \in Nat /\ MaxAge \in Nat /\ MaxDownloads \in Nat /\ row.born \in Nat
            /\ row.downloads \in Nat
        BY <1>1, <2>1, ControlAssumption DEF Types, ControlTypeOK, Row
      <4> HIDE DEF row, to
      <4> QED BY <2>1, <2>3, <4>1 DEF Verdict, Visibilities
    <3>2. /\ new.visibility = to
          /\ new.promoted = IF to = "public" /\ row.visibility # "public" THEN fact
                            ELSE row.promoted
      BY <2>1 DEF Row
    <3>3. fact.age = now - row.born /\ fact.downloads = row.downloads
      OBVIOUS
    <3>4. Sound(row)
      BY <1>1, <2>1
    <3>5. Sound(new)
      <4> HIDE DEF new, fact, row, to
      <4> QED BY <3>1, <3>2, <3>3, <3>4
    <3> HIDE DEF new, p, Sound
    <3> QED BY <1>2, <2>1, <2>3, <3>5
  <2> QED BY <1>3, <2>2, <2>3 DEF WriteVisibility, DecisionTime, Refuse, store
<1>4. ASSUME NEW c \in Callers, WriteDownload(c) \/ WriteSettings(c) PROVE Recorded'
  <2>1. CASE UNCHANGED packages
    BY <2>1 DEF Recorded
  <2>2. ASSUME NEW p \in Packages, packages[p] # None,
               NEW row, row.visibility = packages[p].visibility,
               row.promoted = packages[p].promoted, packages' = [packages EXCEPT ![p] = row]
        PROVE  Recorded'
    BY <1>1, <1>2, <2>2
  <2>3. CASE WriteDownload(c)
    <3>1. Req(c).package \in Packages
      BY <2>3, RequestsFormed DEF Inv, WriteDownload, Formed
    <3> QED BY <1>1, <2>1, <2>2, <2>3, <3>1 DEF WriteDownload, Refuse, store, Row
  <2>4. CASE WriteSettings(c)
    <3>1. Req(c).package \in Packages /\ packages[Req(c).package] # None
      BY <2>4, RequestsFormed DEF Inv, WriteSettings, At, Formed, Fits, Seen, OnPackage
    <3> QED BY <1>1, <2>2, <2>4, <3>1 DEF WriteSettings, Row
  <2> QED BY <1>4, <2>3, <2>4
<1>5. ASSUME NEW c \in Callers, WritePackage(c) PROVE Recorded'
  <2>1. CASE UNCHANGED packages
    BY <2>1 DEF Recorded
  <2>2. Req(c).package \in Packages
    BY <1>5, RequestsFormed DEF Inv, WritePackage, Formed
  <2> QED BY <1>2, <1>5, <2>1, <2>2 DEF WritePackage, Refuse, store
<1> QED BY <1>3, <1>4, <1>5, PackagesChange DEF Recorded

\* What set_package_visibility and make_package_public_for_user answer is true of the
\* database, then and ever after, and a promotion is recorded within both limits.
THEOREM PromotionHolds == ControlSpec => []PromotionAnswersTrue
<1>1. ControlInit => Recorded /\ Announced
  <2> SUFFICES ASSUME ControlInit PROVE Recorded /\ Announced
    OBVIOUS
  <2>1. \A p \in Packages : packages[p] # None => packages[p].promoted = None
    BY ControlAssumption DEF ControlInit, ControlStart
  <2>2. \A c \in Callers : call[c].stage = "idle"
    BY DEF ControlInit, ControlStart, Idle
  <2> QED BY <2>1, <2>2 DEF Recorded, Announced, AnswerTrue, At
<1>2. Inv /\ Recorded /\ Announced /\ [ControlNext]_controlVars => Inv' /\ Recorded' /\ Announced'
  BY InvStep, RecordedStep, AnnouncedStep
<1>3. Recorded /\ Announced => PromotionAnswersTrue
  BY DEF Recorded, Announced, AnswerTrue, PromotionAnswersTrue
<1> QED BY InvInit, <1>1, <1>2, <1>3, PTL DEF ControlSpec
-------------------------------------------------------------------------------
\* Authorisation: nothing a role depends on changed.
Quiet ==
  /\ UNCHANGED <<role, founded>>
  /\ \A p \in Packages : packages[p] # None => packages'[p].project = packages[p].project

\* Either a step leaves all roles depend on alone, or it disturbs the calls in flight.
LEMMA StepQuiet ==
  ASSUME Inv, NEW c \in Callers, Step(c)
  PROVE  Quiet \/ AnswerAndDisturb(c, "ok")
<1> USE DEF Refuse, store, Quiet
<1>1. CASE Begin(c) \/ Fail(c) \/ FindPackage(c) \/ Authorise(c) \/ Retarget(c)
  BY <1>1 DEF Begin, Fail, FindPackage, Authorise, Retarget
<1>2. CASE CheckVersion(c) \/ Precheck(c) \/ StartDemotion(c) \/ LockPrimaries(c)
  BY <1>2 DEF CheckVersion, Precheck, StartDemotion, LockPrimaries
<1>3. CASE WriteUpload(c) \/ WriteInvitation(c) \/ InsertLicense(c)
  BY <1>3 DEF WriteUpload, WriteInvitation, InsertLicense
<1>4. CASE Login(c) \/ Enrol(c) \/ Lookup(c)
  BY <1>4 DEF Login, Enrol, Lookup
<1>5. CASE Consume(c) \/ WriteTarget(c) \/ WritePackage(c) \/ WriteSettings(c)
  BY <1>5 DEF Consume, WriteTarget, WritePackage, WriteSettings
<1>6. CASE WriteVisibility(c) \/ WriteDownload(c)
  <2>1. ASSUME NEW p, NEW row, packages' = [packages EXCEPT ![p] = row],
               packages[p] # None => row.project = packages[p].project, UNCHANGED <<role, founded>>
        PROVE  Quiet
    BY <2>1 DEF Inv, Types, ControlTypeOK
  <2>2. Req(c).package \in Packages
    BY <1>6, RequestsFormed DEF Inv, WriteVisibility, WriteDownload, Formed, OnPackage
  <2>3. packages[Req(c).package] # None => packages[Req(c).package] \in Row
    BY <2>2 DEF Inv, Types, ControlTypeOK
  <2>4. CASE WriteDownload(c)
    BY <2>1, <2>3, <2>4 DEF WriteDownload, Row
  <2>5. CASE WriteVisibility(c)
    <3>1. CASE UNCHANGED <<role, founded, packages>>
      BY <3>1
    <3>2. ASSUME NEW to, NEW fact, packages[Req(c).package] # None, UNCHANGED <<role, founded>>,
                 packages' = [packages EXCEPT ![Req(c).package] =
                                [packages[Req(c).package] EXCEPT !.visibility = to, !.promoted = fact]]
          PROVE  Quiet
      BY <2>1, <2>3, <3>2 DEF Row
    <3>3. packages[Req(c).package] # None
      BY <2>5, RequestsFormed DEF Inv, WriteVisibility, At, Fits, Seen, OnPackage
    <3> QED BY <2>5, <3>1, <3>2, <3>3, ZenonT(30) DEF WriteVisibility
  <2> QED BY <1>6, <2>4, <2>5
<1> QED BY <1>1, <1>2, <1>3, <1>4, <1>5, <1>6 DEF Step

\* What a transaction found out about roles holds as long as it is calm.
LEMMA BackedStable ==
  ASSUME Inv, Quiet, NEW d \in Callers, Same(d), Backed(d)
  PROVE  Backed(d)'
<1> DEFINE r == Req(d)
           row == call[d].row
<1>1. /\ Req(d)' = r /\ call'[d].row = row /\ call'[d].stage = call[d].stage
      /\ call'[d].calm => call[d].calm
  BY DEF Same, Req
<1>2. /\ r.kind \in OnPackage /\ call[d].stage \notin {"idle", "find", "done"}
         => packages'[r.package].project = packages[r.package].project
  BY RequestsFormed DEF Inv, Quiet, Fits, Seen, Formed
<1>3. \A u, org, project, allowed :
        MayWrite(u, org, project, allowed)' <=> MayWrite(u, org, project, allowed)
  BY DEF MayWrite, Quiet
<1> QED BY <1>1, <1>2, <1>3 DEF Backed, Place

\* A transaction finds out before it goes on.
LEMMA OwnBacked ==
  ASSUME Inv, Quiet, NEW c \in Callers, Step(c), Backed(c)
  PROVE  Backed(c)'
<1> DEFINE r == Req(c)
           row == call[c].row
<1>1. Types /\ Fits(c) /\ Formed(r) /\ call[c] \in Transaction /\ Req(c)' = r
  BY RequestsFormed, KeepsRequest DEF Inv, Req
<1> SUFFICES ASSUME call'[c].calm, call'[c].stage \notin {"idle", "done"}, r.kind # "accept"
             PROVE  Backed(c)'
  BY <1>1 DEF Backed
<1>2. ASSUME NEW result, Answer(c, result) PROVE FALSE
  BY <1>1, <1>2 DEF Answer, Done, Types, Transaction
<1>3. ~AnswerAndDisturb(c, "ok")
  BY <1>1, AnswerAndDisturbIs DEF Results, Ends
<1>4. CASE Begin(c)
  <2>1. call'[c].stage = FirstStage(r) /\ call'[c].row = row
    BY <1>1, <1>4 DEF Begin, Types, Transaction
  <2>2. /\ r.kind \in OnPackage => FirstStage(r) = "find"
        /\ r.kind \notin OnPackage => FirstStage(r) = IF r.checked THEN "authorise" ELSE "write"
        /\ r.kind = "settings" => r.kind \in OnPackage
        /\ r.checked \in BOOLEAN
    BY <1>1 DEF FirstStage, OnPackage, Formed
  <2> QED BY <1>1, <2>1, <2>2 DEF Backed
<1>5. CASE FindPackage(c)
  <2>1. /\ call'[c].row = packages[r.package] /\ UNCHANGED packages
        /\ call'[c].stage = IF r.checked THEN "authorise" ELSE Ready(r, packages[r.package])
    BY <1>1, <1>2, <1>5, ZenonT(30) DEF FindPackage, Refuse, Results, GoOn, Types, Transaction, store
  <2>2. r.kind = "settings" => r.checked
    BY <1>1 DEF Formed, AsksRole, Unchecked
  <2> QED BY <1>1, <2>1, <2>2 DEF Backed
<1>6. ASSUME call'[c].row = row, call[c].calm, call[c].stage \notin {"idle", "find", "done"},
             UNCHANGED packages
      PROVE  r.kind \in OnPackage => packages'[r.package].project = call'[c].row.project
  BY <1>6 DEF Backed
<1>7. \A u, org, project, allowed :
        MayWrite(u, org, project, allowed)' <=> MayWrite(u, org, project, allowed)
  BY DEF MayWrite, Quiet
<1>8. CASE Authorise(c)
  <2>1. /\ call'[c].row = row /\ call[c].calm /\ UNCHANGED packages
        /\ call'[c].stage = Ready(r, row)
        /\ MayWrite(r.actor, Place(r, row)[1], Place(r, row)[2], Allowed(r))
    BY <1>1, <1>2, <1>8 DEF Authorise, Refuse, Results, GoOn, Types, Transaction, store
  <2>2. r.kind = "settings" => Ready(r, row) = "retarget"
    BY DEF Ready
  <2>3. call[c].stage = "authorise"
    BY <1>8 DEF Authorise, At
  <2> QED BY <1>1, <1>6, <1>7, <2>1, <2>2, <2>3 DEF Backed
<1>9. CASE Retarget(c)
  <2>1. /\ call'[c].row = row /\ call[c].calm /\ UNCHANGED packages
        /\ call'[c].stage = "write" /\ call[c].stage = "retarget"
        /\ MayWrite(r.actor, OwnerOf[r.package], r.project, WriteRoles)
    BY <1>1, <1>2, <1>9 DEF Retarget, At, Refuse, Results, GoOn, Types, Transaction, store
  <2>2. r.checked => MayWrite(r.actor, Place(r, row)[1], Place(r, row)[2], Allowed(r))
    BY <2>1 DEF Backed
  <2> QED BY <1>1, <1>6, <1>7, <2>1, <2>2 DEF Backed
<1>10. CASE CheckVersion(c) \/ Precheck(c) \/ StartDemotion(c) \/ LockPrimaries(c)
  <2>1. /\ call'[c].row = row /\ call[c].calm /\ UNCHANGED packages
        /\ call[c].stage \in {"version", "precheck", "demote", "insert"}
    <3> USE <1>1, <1>2 DEF At, Refuse, GoOn, Types, Transaction, store
    <3>1. CASE CheckVersion(c)
      BY <3>1 DEF CheckVersion
    <3>2. CASE Precheck(c)
      BY <3>2 DEF Precheck
    <3>3. CASE StartDemotion(c)
      BY <3>3 DEF StartDemotion
    <3>4. CASE LockPrimaries(c)
      BY <3>4 DEF LockPrimaries
    <3> QED BY <1>10, <3>1, <3>2, <3>3, <3>4
  <2>2. r.kind # "settings"
    BY <1>1, <2>1 DEF Fits
  <2>3. r.checked => MayWrite(r.actor, Place(r, row)[1], Place(r, row)[2], Allowed(r))
    BY <2>1 DEF Backed
  <2> QED BY <1>1, <1>6, <1>7, <2>1, <2>2, <2>3 DEF Backed
<1>11. ~(Login(c) \/ Enrol(c) \/ Lookup(c) \/ Consume(c))
  BY <1>1 DEF Login, Enrol, Lookup, Consume, At, Fits
<1>12. ~(Fail(c) \/ WriteDownload(c) \/ WritePackage(c) \/ WriteSettings(c) \/ WriteUpload(c))
  BY <1>2, <1>3 DEF Fail, WriteDownload, WritePackage, WriteSettings, WriteUpload, Refuse, Results
<1>13. ~(WriteVisibility(c) \/ WriteTarget(c) \/ WriteInvitation(c) \/ InsertLicense(c))
  BY <1>2, <1>3 DEF WriteVisibility, WriteTarget, WriteInvitation, InsertLicense, Refuse
<1> QED BY <1>4, <1>5, <1>8, <1>9, <1>10, <1>11, <1>12, <1>13 DEF Step

\* Every step keeps what calm transactions found out about roles.
LEMMA BackedStep ==
  ASSUME Inv, AllBacked, [ControlNext]_controlVars
  PROVE  AllBacked'
<1>1. ASSUME NEW c \in Callers, Step(c) PROVE AllBacked'
  <2>1. CASE Quiet
    BY <1>1, <2>1, OthersSame, BackedStable, OwnBacked DEF AllBacked, Inv
  <2>2. CASE AnswerAndDisturb(c, "ok")
    BY <2>2, AnswerAndDisturbIs DEF AllBacked, Backed, Inv, Results, Ends, Same
  <2> QED BY <1>1, <2>1, <2>2, StepQuiet
<1>2. ASSUME NEW a \in Appointments, Appoint(a[1], a[2], a[3]) PROVE AllBacked'
  <2>1. call' = Disturb(call) /\ call \in [Callers -> Transaction]
    BY <1>2 DEF Appoint, Inv, Types
  <2>2. \A d \in Callers : Same(d) /\ (call'[d].calm => call[d].stage \in {"idle", "done"})
    BY <2>1, CallsApart, DisturbIs DEF Inv
  <2> QED BY <2>2 DEF AllBacked, Backed, Same
<1>3. CASE (\E i \in Invitations : Revoke(i)) \/ Tick \/ UNCHANGED controlVars
  <2>1. call' = call /\ Quiet
    BY <1>3 DEF Revoke, Tick, controlVars, store, Quiet
  <2> QED BY <2>1, CallsApart, BackedStable DEF Inv, AllBacked
<1> QED BY <1>1, <1>2, <1>3 DEF ControlNext

\* Who may write a place holds a rank there that suffices.
LEMMA RankSuffices ==
  ASSUME Types, NEW r, r.actor \in Users, NEW org \in Targets, NEW project \in Targets \cup {None},
         NEW needs \in {2, 3},
         MayWrite(r.actor, org, project, IF needs = 3 THEN AdminRoles ELSE WriteRoles)
  PROVE  \E n \in Best(r.actor, <<org, project>>) : n >= needs
<1> DEFINE u == r.actor
           allowed == IF needs = 3 THEN AdminRoles ELSE WriteRoles
<1>1. None \notin Roles /\ None \notin Targets
  BY ControlAssumption
<1>2. /\ Roles = {"owner", "admin", "member", "reader"}
      /\ RoleRank["owner"] = 4 /\ RoleRank["admin"] = 3 /\ RoleRank["member"] = 2
      /\ RoleRank["reader"] = 1
  BY DEF Roles, RoleRank
<1>3. /\ role[org][u] \in Roles \cup {None}
      /\ project # None => role[project][u] \in Roles \cup {None}
  BY DEF Types, ControlTypeOK
<1>4. allowed \subseteq Roles /\ \A q \in allowed : RoleRank[q] >= needs
  BY <1>2 DEF AdminRoles, WriteRoles
<1>5. ASSUME NEW t \in Targets, role[t][u] \in allowed PROVE Rank(u, t) >= needs
  BY <1>1, <1>4, <1>5 DEF Rank
<1>6. CASE project = None
  BY <1>5, <1>6 DEF MayWrite, Best
<1>7. CASE project # None
  <2>1. role[org][u] \in allowed \/ role[project][u] \in allowed
    BY <1>7 DEF MayWrite, Strongest
  <2> QED BY <1>5, <1>7, <2>1 DEF Best
<1> QED BY <1>6, <1>7

\* An account call that answers "ok" either wrote, or found the package public.
LEMMA OkAt ==
  ASSUME Inv, NEW c \in Callers, Step(c), call[c].stage # "done", call'[c].stage = "done",
         call'[c].result = "ok", Req(c).kind # "accept", Req(c).checked
  PROVE  \/ call[c].stage \in {"write", "insert"}
         \/ /\ call[c].stage = "authorise" /\ Req(c).kind = "promote"
            /\ MayWrite(Req(c).actor, Place(Req(c), call[c].row)[1], Place(Req(c), call[c].row)[2],
                        Allowed(Req(c)))
<1>1. Types /\ Fits(c) /\ Formed(Req(c)) /\ call[c] \in Transaction
  BY RequestsFormed DEF Inv
<1> SUFFICES ASSUME call[c].stage \notin {"write", "insert"}
             PROVE  /\ call[c].stage = "authorise" /\ Req(c).kind = "promote"
                    /\ MayWrite(Req(c).actor, Place(Req(c), call[c].row)[1],
                                Place(Req(c), call[c].row)[2], Allowed(Req(c)))
  OBVIOUS
<1>2. ASSUME NEW result, Refuse(c, result), result # "ok" PROVE FALSE
  BY <1>1, <1>2 DEF Refuse, Answer, Done, Types, Transaction
<1>3. ASSUME NEW next, GoOn(c, next), next.stage # "done" PROVE FALSE
  BY <1>1, <1>3 DEF GoOn, Types
<1>4. ASSUME NEW s, s # "done", GoOn(c, [call[c] EXCEPT !.stage = s]) PROVE FALSE
  BY <1>1, <1>3, <1>4 DEF Transaction
<1>5. \A row : Ready(Req(c), row) # "done"
  BY <1>1 DEF Ready
<1>6. ~Begin(c)
  <2>1. FirstStage(Req(c)) # "done"
    BY <1>1 DEF FirstStage
  <2> QED BY <1>1, <2>1 DEF Begin, Types, Transaction
<1>7. ~FindPackage(c)
  <2>1. ASSUME NEW s, NEW row, s # "done", GoOn(c, [call[c] EXCEPT !.row = row, !.stage = s])
        PROVE  FALSE
    BY <1>1, <1>3, <2>1 DEF Transaction
  <2> QED BY <1>2, <1>5, <2>1 DEF FindPackage
<1>8. ASSUME Authorise(c)
      PROVE  /\ call[c].stage = "authorise" /\ Req(c).kind = "promote"
             /\ MayWrite(Req(c).actor, Place(Req(c), call[c].row)[1],
                         Place(Req(c), call[c].row)[2], Allowed(Req(c)))
  BY <1>2, <1>4, <1>5, <1>8 DEF Authorise, At
<1>9. ~(Fail(c) \/ Retarget(c) \/ Precheck(c))
  BY <1>2, <1>4 DEF Fail, Retarget, Precheck
<1>10. ~CheckVersion(c)
  <2>1. (CASE Req(c).kind = "upload" -> "write"
           [] Req(c).kind = "license" -> IF Req(c).primary THEN "demote" ELSE "insert") # "done"
        \/ call[c].stage # "version"
    BY <1>1 DEF Fits
  <2> QED BY <1>2, <1>4, <2>1 DEF CheckVersion, At
<1>11. ~(StartDemotion(c) \/ LockPrimaries(c))
  BY <1>1 DEF StartDemotion, LockPrimaries, At, GoOn, Types, Transaction
<1>12. ~(Login(c) \/ Enrol(c) \/ Lookup(c) \/ Consume(c))
  BY <1>1 DEF Login, Enrol, Lookup, Consume, At, Fits
<1>13. ~(WriteVisibility(c) \/ WriteDownload(c) \/ WritePackage(c) \/ WriteSettings(c)
         \/ WriteUpload(c) \/ WriteTarget(c) \/ WriteInvitation(c) \/ InsertLicense(c))
  BY DEF WriteVisibility, WriteDownload, WritePackage, WriteSettings, WriteUpload, WriteTarget,
     WriteInvitation, InsertLicense, At
<1> QED BY <1>6, <1>7, <1>8, <1>9, <1>10, <1>11, <1>12, <1>13 DEF Step

\* A checked request is about an organization and at most one project of it.
LEMMA PlaceIs ==
  ASSUME Inv, NEW c \in Callers, Req(c).kind # "accept", Req(c).checked,
         Req(c).kind \in OnPackage => call[c].row \in Row
  PROVE  LET place == Place(Req(c), call[c].row) IN
           /\ place = <<place[1], place[2]>>
           /\ place[1] \in Targets /\ place[2] \in Targets \cup {None}
<1> DEFINE r == Req(c)
<1>1. Formed(r)
  BY RequestsFormed DEF Inv
<1>2. /\ \A t \in Projects : HomeOf[t] \in Orgs
      /\ \A p \in Packages : OwnerOf[p] \in Orgs
  BY ControlAssumption
<1>3. r.kind \in {"createProject", "createPackage", "invite"} \cup OnPackage
  BY <1>1 DEF Formed, AsksRole, Unchecked, OnPackage
<1>4. CASE r.kind \in {"createProject", "createPackage", "invite"}
  BY <1>1, <1>2, <1>4 DEF Place, Formed, Targets, OnPackage
<1>5. CASE r.kind \in OnPackage
  <2>1. r.package \in Packages /\ call[c].row.project \in Projects \cup {None}
    BY <1>1, <1>5 DEF Formed, Row
  <2>2. Place(r, call[c].row) = <<OwnerOf[r.package], call[c].row.project>>
    BY <1>5 DEF Place, OnPackage
  <2> QED BY <1>2, <2>1, <2>2 DEF Targets
<1> QED BY <1>3, <1>4, <1>5

\* Unless roles or a package's project changed while the call ran, whoever is answered
\* "ok" by an account call holds a sufficient role for all it touched, at its commit.
THEOREM AuthorisedHolds == ControlSpec => AuthorisedWhenCalm
<1>1. ControlInit => AllBacked
  BY DEF ControlInit, ControlStart, Idle, AllBacked, Backed
<1>2. Inv /\ AllBacked /\ [ControlNext]_controlVars => Inv' /\ AllBacked'
  BY InvStep, BackedStep
<1>3. ASSUME Inv, AllBacked, [ControlNext]_controlVars, NEW c \in Callers,
             ~At(c, "done"), call'[c].stage = "done", call'[c].result = "ok",
             Req(c).kind # "accept", Req(c).checked, call[c].calm
      PROVE  Entitled(Req(c))
  <2> DEFINE r == Req(c)
             row == call[c].row
             place == Place(r, row)
  <2>1. Step(c)
    <3>1. ASSUME Same(c) PROVE FALSE
      BY <1>3, <3>1 DEF Same, At
    <3>2. ASSUME NEW d \in Callers \ {c}, Step(d) PROVE FALSE
      BY <1>3, <3>1, <3>2, OthersSame DEF Inv
    <3>3. CASE \E a \in Appointments : Appoint(a[1], a[2], a[3])
      BY <1>3, <3>1, <3>3, CallsApart DEF Appoint, Inv
    <3>4. CASE (\E i \in Invitations : Revoke(i)) \/ Tick \/ UNCHANGED controlVars
      <4>1. call' = call
        BY <3>4 DEF Revoke, Tick, controlVars
      <4> QED BY <1>3, <3>1, <4>1, CallsApart DEF Inv
    <3> QED BY <1>3, <3>2, <3>3, <3>4 DEF ControlNext
  <2>2. \/ call[c].stage \in {"write", "insert"}
        \/ call[c].stage = "authorise" /\ r.kind = "promote"
             /\ MayWrite(r.actor, place[1], place[2], Allowed(r))
    BY <1>3, <2>1, OkAt DEF At
  <2>3. Formed(r) /\ Fits(c) /\ Backed(c) /\ Types /\ call[c] \in Transaction
    BY <1>3, RequestsFormed DEF Inv, AllBacked
  <2>4. MayWrite(r.actor, place[1], place[2], Allowed(r))
    BY <1>3, <2>2, <2>3 DEF Backed
  <2>5. r.kind = "settings" => MayWrite(r.actor, OwnerOf[r.package], r.project, WriteRoles)
    BY <1>3, <2>2, <2>3 DEF Backed, Fits
  <2>6. r.kind \in OnPackage => row \in Row /\ packages[r.package].project = row.project
    BY <1>3, <2>2, <2>3 DEF Backed, Fits, Seen
  <2>7. r.actor \in Users /\ Needs(r) \in {2, 3}
        /\ Allowed(r) = IF Needs(r) = 3 THEN AdminRoles ELSE WriteRoles
    BY <1>3, <2>3 DEF Formed, Needs, Allowed, AsksRole
  <2>8. place = <<place[1], place[2]>> /\ place[1] \in Targets /\ place[2] \in Targets \cup {None}
    BY <1>3, <2>6, PlaceIs
  <2>9. \E n \in Best(r.actor, place) : n >= Needs(r)
    <3> HIDE DEF place, r
    <3> QED BY <2>3, <2>4, <2>7, <2>8, RankSuffices
  <2>10. r.kind = "settings" =>
           \E n \in Best(r.actor, <<OwnerOf[r.package], r.project>>) : n >= Needs(r)
    <3> SUFFICES ASSUME r.kind = "settings"
                 PROVE  \E n \in Best(r.actor, <<OwnerOf[r.package], r.project>>) : n >= Needs(r)
      OBVIOUS
    <3>1. OwnerOf[r.package] \in Targets /\ r.project \in Targets \cup {None}
      BY <2>3, ControlAssumption DEF Formed, OnPackage, Targets
    <3>2. Needs(r) = 2
      BY DEF Needs
    <3> HIDE DEF r
    <3> QED BY <2>3, <2>5, <2>7, <3>1, <3>2, RankSuffices
  <2>11. Place(r, IF r.kind \in OnPackage THEN packages[r.package] ELSE None) = place
    BY <2>6 DEF Place, OnPackage
  <2> HIDE DEF place, r
  <2> QED BY <2>9, <2>10, <2>11 DEF Entitled, Touched, place, r
<1>4. Inv /\ AllBacked /\ [ControlNext]_controlVars =>
        [\A c \in Callers :
           /\ ~At(c, "done") /\ call'[c].stage = "done" /\ call'[c].result = "ok"
           /\ Req(c).kind # "accept" /\ Req(c).checked /\ call[c].calm
           => Entitled(Req(c))]_controlVars
  BY <1>3
<1> QED BY InvInit, <1>1, <1>2, <1>4, PTL DEF ControlSpec, AuthorisedWhenCalm
===============================================================================

------------------------- MODULE MachinePublishProofs -------------------------
(***************************************************************************)
(* Proofs about MachinePublish, for any calls, packages and versions.      *)
(***************************************************************************)
EXTENDS MachinePublish, FiniteSetTheorems, TLAPS

(* The statements each kind of call goes through. *)
Script(kind) ==
  CASE kind = "adopt" ->
         {"lock", "findOrg", "insertOrg", "findPackage", "updatePackage",
          "insertPackage", "findRelease", "insertRelease", "findUpload",
          "commit", "done"}
    [] kind = "repair" ->
         {"lock", "load", "loadUploads", "updateRelease", "rollUp", "commit", "done"}
    [] kind = "register" -> {"check", "insertUpload", "done"}
    [] kind = "download" -> {"check", "countPackage", "countRelease", "done"}
    [] kind = "createOrg" -> {"insertOrg", "commit", "done"}
    [] kind = "createPackage" -> {"findOrg", "insertPackage", "commit", "done"}

(* Between its lock and its end an adoption or a repair owns its coordinate. *)
Owns(c) == /\ Kind(c) \in {"adopt", "repair"} /\ pc[c] \notin {"lock", "done"}
           => advisory[P(c)] = c

(* What an adoption has read is still so when it commits. *)
AdoptionReads(c) ==
  /\ pc[c] = "insertRelease" => releases[R(c)] = None
  /\ tx[c].fresh => Kind(c) = "adopt" /\ pc[c] \in {"findUpload", "commit"}
  /\ Kind(c) = "adopt" /\ pc[c] \in {"findUpload", "commit"} =>
       IF tx[c].fresh
       THEN /\ releases[R(c)] = None /\ tx[c].version = request[c].facts
            /\ tx[c].counted = Committed(P(c)) \cup {R(c)}
       ELSE releases[R(c)] = request[c].facts
  /\ Kind(c) = "adopt" /\ pc[c] = "commit" =>
       /\ tx[c].fresh => tx[c].upload
       /\ tx[c].upload => \A d \in Calls : /\ Kind(d) = "adopt" /\ uploads[d] # None
                                           => R(d) # R(c)

(* What a repair has read is still so when it commits. *)
RepairReads(c) ==
  /\ Kind(c) = "repair" /\ pc[c] \in {"loadUploads", "updateRelease", "rollUp", "commit"} =>
       /\ releases[R(c)] \in Facts
       /\ tx[c].version = releases[R(c)]
       /\ tx[c].version.artifact = request[c].facts.artifact
  /\ Kind(c) = "repair" /\ pc[c] \in {"updateRelease", "rollUp", "commit"} =>
       /\ tx[c].seen # {}
       /\ \A u \in tx[c].seen : uploads[u] # None /\ uploads[u].release = R(c)
       /\ \A u \in Calls : /\ Kind(u) = "adopt" /\ uploads[u] # None /\ R(u) = R(c)
                           => u \in tx[c].seen
  /\ Kind(c) = "repair" /\ pc[c] \in {"rollUp", "commit"} => tx[c].counted = Committed(P(c))

Sound(c) == /\ pc[c] \in Script(Kind(c))
            /\ request[c] \in Requests[c]
            /\ uploads[c] # None => pc[c] = "done"
            /\ pc[c] = "insertUpload" => releases[R(c)] # None
            /\ Owns(c) /\ AdoptionReads(c) /\ RepairReads(c)

(* Upload rows are of published versions. *)
LedgerOfPublished == \A c \in Calls : uploads[c] # None => releases[uploads[c].release] # None

RollupCurrent == \A p \in Packages : rollup[p] = Committed(p)

IInv == /\ TypeOK
        /\ \A c \in Calls : Sound(c)
        /\ LedgerOfPublished /\ LedgerFollows /\ RollupCurrent

-------------------------------------------------------------------------------
\* Types hold at first.
LEMMA InitTypes == Init => TypeOK
<1> SUFFICES ASSUME Init PROVE TypeOK
  OBVIOUS
<1> USE CoordinatesNest, RequestsValid, NoneIsNothing DEF Init
<1>1. request \in [Calls -> Request]
  OBVIOUS
<1>2. pc \in [Calls -> Stage]
  <2>1. ASSUME NEW c \in Calls PROVE FirstStage(request[c].kind) \in Stage
    <3>1. request[c].kind \in Kinds
      BY <1>1 DEF Request
    <3> QED BY <3>1 DEF Kinds, FirstStage, Stage
  <2> QED BY <2>1
<1>3. tx \in [Calls -> Transaction]
  BY DEF Blank, Transaction
<1>4. outcome \in [Calls -> Outcome]
  BY DEF Outcome
<1>5. audit \in Seq([by: Calls, release: Releases, old: Facts \cup {None}, new: Facts])
  OBVIOUS
<1> QED BY <1>1, <1>2, <1>3, <1>4, <1>5 DEF TypeOK

\* The invariant holds at first.
LEMMA InitSound == Init => IInv
<1> SUFFICES ASSUME Init PROVE IInv
  OBVIOUS
<1> USE CoordinatesNest, RequestsValid, NoneIsNothing
<1>1. TypeOK
  BY InitTypes
<1>2. ASSUME NEW c \in Calls PROVE Sound(c)
  <2>1. Kind(c) \in Kinds /\ request[c] \in Requests[c]
    BY <1>1 DEF TypeOK, Request, Kind, Init
  <2>2. pc[c] = FirstStage(Kind(c)) /\ tx[c] = Blank
    BY DEF Init, Kind
  <2>3. pc[c] \in Script(Kind(c)) /\ pc[c] \in {"lock", "check", "insertOrg", "findOrg"}
    BY <2>1, <2>2 DEF FirstStage, Script, Kinds
  <2>4. Kind(c) \in {"adopt", "repair"} => pc[c] = "lock"
    BY <2>2 DEF FirstStage
  <2>5. uploads[c] = None
    BY DEF Init
  <2> QED BY <2>1, <2>2, <2>3, <2>4, <2>5 DEF Sound, Owns, AdoptionReads, RepairReads, Blank
<1>3. LedgerOfPublished /\ LedgerFollows /\ RollupCurrent
  BY DEF Init, LedgerOfPublished, LedgerFollows, RollupCurrent, Committed
<1> QED BY <1>1, <1>2, <1>3 DEF IInv

-------------------------------------------------------------------------------
(* A step of one call.                                                     *)
Act(c) == Step(c) \/ Fail(c) \/ DeadlockVictim(c)

(* Actions that only read, lock and write the transaction's own view. *)
Quiet(c) ==
  \/ Lock(c) \/ FindOrg(c) \/ InsertOrg(c) \/ FindPackage(c) \/ UpdatePackage(c)
  \/ InsertPackage(c) \/ FindRelease(c) \/ InsertRelease(c) \/ FindUpload(c)
  \/ Load(c) \/ LoadUploads(c) \/ UpdateRelease(c) \/ RollUp(c) \/ Check(c)
  \/ CountPackage(c)

(* Ends that keep nothing. *)
Refused(c) == \E result \in {"policy", "notFound", "conflict", "error"} : Abort(c, result)

\* A step of a call is a quiet one, a refusal, or one of the five commits.
LEMMA StepsOf ==
  ASSUME NEW c \in Calls, Act(c)
  PROVE  \/ Quiet(c) \/ Refused(c) \/ CommitAdoption(c) \/ CommitRepair(c)
         \/ InsertUpload(c) \/ CountRelease(c) \/ CommitCreate(c)
<1>1. FactsDiffer(c) \/ LoadRefused(c) \/ LedgerRefused(c) \/ Missing(c) \/ Conflict(c)
        \/ Fail(c) \/ DeadlockVictim(c) => Refused(c)
  BY DEF FactsDiffer, LoadRefused, LedgerRefused, Missing, Conflict, Fail, DeadlockVictim, Refused
<1> QED BY <1>1 DEF Act, Step, Adopt, Repair, Account, Quiet

\* A call that ends leaves types as they were.
LEMMA FinishTypes ==
  ASSUME TypeOK, NEW c \in Calls, NEW result \in Outcome, Finish(c, result)
  PROVE  /\ request' \in [Calls -> Request] /\ pc' \in [Calls -> Stage]
         /\ tx' \in [Calls -> Transaction] /\ outcome' \in [Calls -> Outcome]
         /\ advisory' \in [Packages -> Calls \cup {None}]
         /\ packageLock' \in [Packages -> Calls \cup {None}]
         /\ releaseLock' \in [Releases -> Calls \cup {None}]
<1>1. Blank \in Transaction
  BY DEF Blank, Transaction
<1>2. "done" \in Stage
  BY DEF Stage
<1> QED BY <1>1, <1>2 DEF TypeOK, Finish, WithoutOwner, Goto

(* The coordinate of a call. *)
LEMMA Places ==
  ASSUME TypeOK, NEW c \in Calls
  PROVE  /\ Kind(c) \in Kinds /\ R(c) \in Releases /\ P(c) \in Packages /\ O(c) \in Orgs
         /\ request[c].facts \in Facts /\ request[c].to \in Artifacts
BY CoordinatesNest DEF TypeOK, Request, Kind, R, P, O

(* Writing one field of a transaction's view. *)
LEMMA Fields ==
  ASSUME NEW t \in Transaction
  PROVE  /\ \A v \in BOOLEAN : /\ [t EXCEPT !.org = v] \in Transaction
                              /\ [t EXCEPT !.package = v] \in Transaction
                              /\ [t EXCEPT !.fresh = v] \in Transaction
                              /\ [t EXCEPT !.upload = v] \in Transaction
         /\ \A f \in Facts \cup {None} : [t EXCEPT !.version = f] \in Transaction
         /\ \A S \in SUBSET Calls : [t EXCEPT !.seen = S] \in Transaction
         /\ \A S \in SUBSET Releases : [t EXCEPT !.counted = S] \in Transaction
<1>1. ASSUME NEW v \in BOOLEAN PROVE [t EXCEPT !.org = v] \in Transaction
  BY DEF Transaction
<1>2. ASSUME NEW v \in BOOLEAN PROVE [t EXCEPT !.package = v] \in Transaction
  BY DEF Transaction
<1>3. ASSUME NEW v \in BOOLEAN PROVE [t EXCEPT !.fresh = v] \in Transaction
  BY DEF Transaction
<1>4. ASSUME NEW v \in BOOLEAN PROVE [t EXCEPT !.upload = v] \in Transaction
  BY DEF Transaction
<1>5. ASSUME NEW f \in Facts \cup {None} PROVE [t EXCEPT !.version = f] \in Transaction
  BY DEF Transaction
<1>6. ASSUME NEW S \in SUBSET Calls PROVE [t EXCEPT !.seen = S] \in Transaction
  BY DEF Transaction
<1>7. ASSUME NEW S \in SUBSET Releases PROVE [t EXCEPT !.counted = S] \in Transaction
  BY DEF Transaction
<1> QED BY <1>1, <1>2, <1>3, <1>4, <1>5, <1>6, <1>7

\* So does a quiet step.
LEMMA QuietTypes ==
  ASSUME TypeOK, NEW c \in Calls, Quiet(c)
  PROVE  TypeOK'
<1> USE Places DEF TypeOK
<1>0. tx[c] \in Transaction
  OBVIOUS
<1>1. CASE Lock(c)
  BY <1>1 DEF Lock, Goto, Stage, tables
<1>2. CASE FindOrg(c)
  BY <1>2 DEF FindOrg, Goto, Stage, tables, locks, Private
<1>3. CASE InsertOrg(c)
  <2>1. [tx[c] EXCEPT !.org = TRUE] \in Transaction
    BY <1>0, Fields
  <2> QED BY <1>3, <2>1 DEF InsertOrg, Goto, Stage, tables, locks, Private
<1>4. CASE FindPackage(c)
  BY <1>4 DEF FindPackage, Goto, Stage, tables, locks, Private
<1>5. CASE UpdatePackage(c)
  BY <1>5 DEF UpdatePackage, Goto, Stage, tables
<1>6. CASE InsertPackage(c)
  <2>1. [tx[c] EXCEPT !.package = TRUE] \in Transaction
    BY <1>0, Fields
  <2> QED BY <1>6, <2>1 DEF InsertPackage, Goto, Stage, tables, locks, Private
<1>7. CASE FindRelease(c)
  <2>1. [tx[c] EXCEPT !.version = releases[R(c)]] \in Transaction
    BY <1>0, Fields
  <2> QED BY <1>7, <2>1 DEF FindRelease, Goto, Stage, tables, locks, Private
<1>8. CASE InsertRelease(c)
  <2>1. Committed(P(c)) \cup {R(c)} \in SUBSET Releases
    BY DEF Committed
  <2>2. [[[tx[c] EXCEPT !.version = request[c].facts] EXCEPT !.fresh = TRUE]
           EXCEPT !.counted = Committed(P(c)) \cup {R(c)}] \in Transaction
    BY <1>0, <2>1, Fields, request[c].facts \in Facts
  <2> QED BY <1>8, <2>2 DEF InsertRelease, Goto, Stage, tables, locks, Private
<1>9. CASE FindUpload(c)
  <2>1. [tx[c] EXCEPT !.upload = Verified(R(c)) = {}] \in Transaction
    BY <1>0, Fields
  <2> QED BY <1>9, <2>1 DEF FindUpload, Goto, Stage, tables, locks, Private
<1>10. CASE Load(c)
  <2>1. [tx[c] EXCEPT !.version = releases[R(c)]] \in Transaction
    BY <1>0, Fields
  <2> QED BY <1>10, <2>1 DEF Load, Goto, Stage, tables, locks, Private
<1>11. CASE LoadUploads(c)
  <2>1. Verified(R(c)) \in SUBSET Calls
    BY DEF Verified
  <2>2. [tx[c] EXCEPT !.seen = Verified(R(c))] \in Transaction
    BY <1>0, <2>1, Fields
  <2> QED BY <1>11, <2>2 DEF LoadUploads, Goto, Stage, tables, locks, Private
<1>12. CASE UpdateRelease(c)
  <2>1. Committed(P(c)) \in SUBSET Releases
    BY DEF Committed
  <2>2. [tx[c] EXCEPT !.counted = Committed(P(c))] \in Transaction
    BY <1>0, <2>1, Fields
  <2> QED BY <1>12, <2>2 DEF UpdateRelease, Goto, Stage, tables
<1>13. CASE RollUp(c)
  BY <1>13 DEF RollUp, Goto, Stage, tables
<1>14. CASE Check(c)
  BY <1>14 DEF Check, Goto, Stage, tables, locks, Private
<1>15. CASE CountPackage(c)
  BY <1>15 DEF CountPackage, Goto, Stage, tables
<1> QED BY <1>1, <1>2, <1>3, <1>4, <1>5, <1>6, <1>7, <1>8, <1>9, <1>10, <1>11, <1>12, <1>13,
           <1>14, <1>15 DEF Quiet

(* What the commit of an adoption or a repair writes has its type, because the *)
(* version a repair rewrites is there.                                         *)
LEMMA CommitTypes ==
  ASSUME IInv, NEW c \in Calls,
         CommitAdoption(c) \/ CommitRepair(c) \/ InsertUpload(c) \/ CountRelease(c) \/ CommitCreate(c)
  PROVE  TypeOK'
<1> USE Places
<1>0. TypeOK /\ Sound(c) /\ tx[c] \in Transaction
  BY DEF IInv, TypeOK
<1>1. CASE CommitAdoption(c)
  <2>1. \E result \in Outcome : Finish(c, result)
    BY <1>1 DEF CommitAdoption, Outcome
  <2>2. /\ tx[c].version \in Facts \cup {None} /\ tx[c].counted \in SUBSET Releases
        /\ request[c].facts.artifact \in Artifacts
        /\ (tx[c].fresh => tx[c].version \in Facts)
    <3>1. tx[c].fresh => tx[c].version = request[c].facts
      BY <1>0, <1>1 DEF Sound, AdoptionReads, CommitAdoption
    <3>2. request[c].facts \in Facts
      BY <1>0
    <3>3. request[c].facts.artifact \in Artifacts
      BY <3>2 DEF Facts
    <3> QED BY <1>0, <3>1, <3>2, <3>3 DEF Transaction
  <2>3. orgs' \subseteq Orgs /\ packages' \subseteq Packages
    BY <1>0, <1>1 DEF CommitAdoption, TypeOK
  <2>4. uploads' \in [Calls -> Upload \cup {None}]
    BY <1>0, <1>1, <2>2 DEF CommitAdoption, TypeOK, Upload
  <2>5. releases' \in [Releases -> Facts \cup {None}] /\ rollup' \in [Packages -> SUBSET Releases]
    BY <1>0, <1>1, <2>2 DEF CommitAdoption, TypeOK
  <2>6. audit' \in Seq([by: Calls, release: Releases, old: Facts \cup {None}, new: Facts])
    <3>1. CASE tx[c].fresh
      <4>1. AuditRow(c, None, tx[c].version)
              \in [by: Calls, release: Releases, old: Facts \cup {None}, new: Facts]
        BY <1>0, <2>2, <3>1 DEF AuditRow
      <4>2. audit' = Append(audit, AuditRow(c, None, tx[c].version))
        BY <1>1, <3>1 DEF CommitAdoption
      <4>3. audit \in Seq([by: Calls, release: Releases, old: Facts \cup {None}, new: Facts])
        BY <1>0 DEF TypeOK
      <4> QED BY <4>1, <4>2, <4>3
    <3>2. CASE ~tx[c].fresh
      BY <1>0, <1>1, <3>2 DEF CommitAdoption, TypeOK
    <3> QED BY <3>1, <3>2
  <2>7. downloads' \subseteq Calls /\ counter' \in [Packages -> Nat]
    BY <1>0, <1>1 DEF CommitAdoption, TypeOK
  <2> QED BY <1>0, <2>1, <2>3, <2>4, <2>5, <2>6, <2>7, FinishTypes DEF TypeOK
<1>2. CASE CommitRepair(c)
  <2>1. \E result \in Outcome : Finish(c, result)
    BY <1>2 DEF CommitRepair, Outcome
  <2>2. /\ releases[R(c)] \in Facts /\ tx[c].version \in Facts
        /\ tx[c].counted \in SUBSET Releases
        /\ \A u \in tx[c].seen : uploads[u] # None
    BY <1>0, <1>2 DEF Sound, RepairReads, CommitRepair, Transaction
  <2>3. ASSUME NEW f \in Facts PROVE Replaced(f, request[c].to) \in Facts
    <3>1. request[c].to \in Artifacts
      BY <1>0
    <3> QED BY <3>1 DEF Facts, Replaced
  <2>4. releases' \in [Releases -> Facts \cup {None}] /\ rollup' \in [Packages -> SUBSET Releases]
    BY <1>0, <1>2, <2>2, <2>3 DEF CommitRepair, TypeOK
  <2>5. uploads' \in [Calls -> Upload \cup {None}]
    <3>1. ASSUME NEW u \in tx[c].seen PROVE [uploads[u] EXCEPT !.artifact = request[c].to] \in Upload
      <4>1. uploads[u] \in Upload
        BY <1>0, <2>2 DEF TypeOK, Transaction
      <4>2. request[c].to \in Artifacts
        BY <1>0
      <4> QED BY <4>1, <4>2 DEF Upload
    <3> QED BY <1>0, <1>2, <3>1 DEF CommitRepair, TypeOK
  <2>6. audit' \in Seq([by: Calls, release: Releases, old: Facts \cup {None}, new: Facts])
    <3>1. AuditRow(c, tx[c].version, Replaced(tx[c].version, request[c].to))
            \in [by: Calls, release: Releases, old: Facts \cup {None}, new: Facts]
      BY <1>0, <2>2, <2>3 DEF AuditRow
    <3> QED BY <1>0, <1>2, <3>1 DEF CommitRepair, TypeOK
  <2>7. /\ orgs' \subseteq Orgs /\ packages' \subseteq Packages
        /\ downloads' \subseteq Calls /\ counter' \in [Packages -> Nat]
    BY <1>0, <1>2 DEF CommitRepair, TypeOK
  <2> QED BY <1>0, <2>1, <2>4, <2>5, <2>6, <2>7, FinishTypes DEF TypeOK
<1>3. CASE InsertUpload(c)
  <2>1. request[c].facts.artifact \in Artifacts
    BY <1>0, request[c].facts \in Facts DEF Facts
  <2>2. uploads' \in [Calls -> Upload \cup {None}]
    BY <1>0, <1>3, <2>1 DEF InsertUpload, TypeOK, Upload
  <2>3. "registered" \in Outcome /\ Finish(c, "registered")
    BY <1>3 DEF InsertUpload, Outcome
  <2> QED BY <1>0, <1>3, <2>2, <2>3, FinishTypes DEF InsertUpload, TypeOK
<1>4. CASE CountRelease(c)
  <2>1. Committed(P(c)) \in SUBSET Releases
    BY DEF Committed
  <2>2. rollup' \in [Packages -> SUBSET Releases] /\ counter' \in [Packages -> Nat]
    BY <1>0, <1>4, <2>1 DEF CountRelease, TypeOK
  <2>3. "counted" \in Outcome /\ Finish(c, "counted")
    BY <1>4 DEF CountRelease, Outcome
  <2>4. downloads' \subseteq Calls
    BY <1>0, <1>4 DEF CountRelease, TypeOK
  <2> QED BY <1>0, <1>4, <2>2, <2>3, <2>4, FinishTypes DEF CountRelease, TypeOK
<1>5. CASE CommitCreate(c)
  <2>1. "created" \in Outcome /\ Finish(c, "created")
    BY <1>5 DEF CommitCreate, Outcome
  <2>2. orgs' \subseteq Orgs /\ packages' \subseteq Packages
    BY <1>0, <1>5 DEF CommitCreate, TypeOK
  <2> QED BY <1>0, <1>5, <2>1, <2>2, FinishTypes DEF CommitCreate, TypeOK
<1> QED BY <1>1, <1>2, <1>3, <1>4, <1>5

\* So does a refusal.
LEMMA RefusedTypes ==
  ASSUME TypeOK, NEW c \in Calls, Refused(c)
  PROVE  TypeOK'
<1>1. PICK result \in Outcome : Finish(c, result) /\ UNCHANGED tables
  BY DEF Refused, Abort, Outcome
<1> QED BY <1>1, FinishTypes DEF TypeOK, tables

-------------------------------------------------------------------------------
(* What a step of c leaves to another call d.                              *)
LEMMA OthersKeep ==
  ASSUME IInv, NEW c \in Calls, Act(c), NEW d \in Calls, d # c
  PROVE  /\ request' = request /\ pc'[d] = pc[d] /\ tx'[d] = tx[d]
         /\ \A p \in Packages : advisory[p] = d => advisory'[p] = d
<1> USE DEF IInv
<1>1. CASE Quiet(c)
  <2>1. request' = request /\ pc'[d] = pc[d]
    BY <1>1 DEF Quiet, TypeOK, Lock, FindOrg, InsertOrg, FindPackage, UpdatePackage, InsertPackage,
       FindRelease, InsertRelease, FindUpload, Load, LoadUploads, UpdateRelease, RollUp, Check,
       CountPackage, Goto, Private
  <2>2. tx'[d] = tx[d]
    BY <1>1 DEF Quiet, TypeOK, Lock, FindOrg, InsertOrg, FindPackage, UpdatePackage, InsertPackage,
       FindRelease, InsertRelease, FindUpload, Load, LoadUploads, UpdateRelease, RollUp, Check,
       CountPackage
  <2>3. ASSUME NEW p \in Packages, advisory[p] = d PROVE advisory'[p] = d
    <3>1. CASE Lock(c)
      BY <2>3, <3>1 DEF Lock, WaitsFor, TypeOK
    <3>2. CASE ~Lock(c)
      BY <1>1, <2>3, <3>2 DEF Quiet, TypeOK, FindOrg, InsertOrg, FindPackage, UpdatePackage,
         InsertPackage, FindRelease, InsertRelease, FindUpload, Load, LoadUploads, UpdateRelease,
         RollUp, Check, CountPackage, Private, locks
    <3> QED BY <3>1, <3>2
  <2> QED BY <2>1, <2>2, <2>3
<1>2. CASE \E result : Finish(c, result)
  BY <1>2 DEF Finish, Goto, WithoutOwner, TypeOK
<1>3. Quiet(c) \/ \E result : Finish(c, result)
  BY StepsOf DEF Refused, Abort, CommitAdoption, CommitRepair, InsertUpload, CountRelease,
     CommitCreate
<1> QED BY <1>1, <1>2, <1>3

(* Who writes a version row or an adoption's upload row holds its coordinate. *)
LEMMA OwnersWrite ==
  ASSUME IInv, NEW c \in Calls, Act(c), NEW p \in Packages, advisory[p] # c
  PROVE  /\ \A r \in Releases : PackageOf[r] = p => releases'[r] = releases[r]
         /\ Committed(p)' = Committed(p)
<1> USE Places DEF IInv
<1>1. ASSUME NEW r \in Releases, PackageOf[r] = p PROVE releases'[r] = releases[r]
  <2>1. CASE CommitAdoption(c)
    <3>1. P(c) # p
      BY <2>1 DEF CommitAdoption, Sound, Owns
    <3>2. R(c) # r
      BY <1>1, <3>1 DEF P
    <3> QED BY <2>1, <3>2 DEF CommitAdoption, TypeOK
  <2>2. CASE CommitRepair(c)
    <3>1. P(c) # p
      BY <2>2 DEF CommitRepair, Sound, Owns
    <3>2. R(c) # r
      BY <1>1, <3>1 DEF P
    <3> QED BY <2>2, <3>2 DEF CommitRepair, TypeOK
  <2>3. CASE Quiet(c)
    BY <2>3 DEF Quiet, Lock, FindOrg, InsertOrg, FindPackage, UpdatePackage, InsertPackage,
       FindRelease, InsertRelease, FindUpload, Load, LoadUploads, UpdateRelease, RollUp, Check,
       CountPackage, Private, tables
  <2>4. CASE Refused(c) \/ InsertUpload(c) \/ CountRelease(c) \/ CommitCreate(c)
    BY <2>4 DEF Refused, Abort, InsertUpload, CountRelease, CommitCreate, tables
  <2> QED BY <2>1, <2>2, <2>3, <2>4, StepsOf
<1> QED BY <1>1 DEF Committed

(* The same for upload rows: those of a call change only by a call that owns   *)
(* their coordinate, and a new row is of the writer's own version.             *)
LEMMA UploadsKeep ==
  ASSUME IInv, NEW c \in Calls, Act(c), NEW u \in Calls, uploads'[u] # uploads[u]
  PROVE  \/ /\ u = c /\ InsertUpload(c) /\ uploads'[c].release = R(c) /\ uploads'[c] # None
            /\ releases' = releases /\ Kind(c) = "register"
         \/ /\ u = c /\ CommitAdoption(c) /\ uploads'[c].release = R(c) /\ uploads'[c] # None
            /\ tx[c].upload
         \/ /\ CommitRepair(c) /\ u \in tx[c].seen
            /\ uploads[u] # None /\ uploads[u].release = R(c)
            /\ uploads'[u] = [uploads[u] EXCEPT !.artifact = request[c].to]
<1> USE Places DEF IInv
<1>1. CASE CommitAdoption(c)
  <2>1. /\ u = c /\ tx[c].upload
        /\ uploads'[c] = [release |-> R(c), artifact |-> request[c].facts.artifact]
    BY <1>1 DEF CommitAdoption, TypeOK
  <2>2. uploads'[c] \in Upload
    BY <2>1, request[c].facts \in Facts DEF Facts, Upload
  <2> QED BY <1>1, <2>1, <2>2, NoneIsNothing
<1>2. CASE CommitRepair(c)
  BY <1>2 DEF CommitRepair, TypeOK, Sound, RepairReads
<1>3. CASE InsertUpload(c)
  <2>1. Kind(c) = "register"
    BY <1>3 DEF InsertUpload, Sound, Script, Kinds
  <2>2. u = c /\ uploads'[c] = [release |-> R(c), artifact |-> request[c].facts.artifact]
    BY <1>3 DEF InsertUpload, TypeOK
  <2>3. uploads'[c] \in Upload
    BY <2>2, request[c].facts \in Facts DEF Facts, Upload
  <2> QED BY <1>3, <2>1, <2>2, <2>3, NoneIsNothing DEF InsertUpload
<1>4. CASE Quiet(c)
  BY <1>4 DEF Quiet, Lock, FindOrg, InsertOrg, FindPackage, UpdatePackage, InsertPackage,
     FindRelease, InsertRelease, FindUpload, Load, LoadUploads, UpdateRelease, RollUp, Check,
     CountPackage, Private, tables
<1>5. CASE Refused(c) \/ CountRelease(c) \/ CommitCreate(c)
  BY <1>5 DEF Refused, Abort, CountRelease, CommitCreate, tables
<1> QED BY <1>1, <1>2, <1>3, <1>4, <1>5, StepsOf

(* The commits of an adoption and of a repair, seen from the tables. *)
LEMMA AdoptionCommits ==
  ASSUME IInv, NEW c \in Calls, CommitAdoption(c)
  PROVE  /\ Kind(c) = "adopt" /\ advisory[P(c)] = c
         /\ \/ /\ tx[c].fresh /\ tx[c].upload /\ releases[R(c)] = None
               /\ tx[c].version = request[c].facts
               /\ releases' = [releases EXCEPT ![R(c)] = request[c].facts]
               /\ audit' = Append(audit, AuditRow(c, None, request[c].facts))
               /\ rollup' = [rollup EXCEPT ![P(c)] = Committed(P(c)) \cup {R(c)}]
            \/ /\ ~tx[c].fresh /\ releases[R(c)] = request[c].facts
               /\ UNCHANGED <<releases, audit, rollup>>
         /\ \/ /\ tx[c].upload
               /\ uploads' = [uploads EXCEPT ![c] = [release |-> R(c),
                                                     artifact |-> request[c].facts.artifact]]
               /\ \A d \in Calls : Kind(d) = "adopt" /\ uploads[d] # None => R(d) # R(c)
            \/ ~tx[c].upload /\ uploads' = uploads
BY DEF IInv, Sound, Owns, AdoptionReads, CommitAdoption

\* What a repair writes, and what it knows of the version it rewrites.
LEMMA RepairCommits ==
  ASSUME IInv, NEW c \in Calls, CommitRepair(c)
  PROVE  /\ Kind(c) = "repair" /\ advisory[P(c)] = c /\ releases[R(c)] \in Facts
         /\ releases[R(c)].artifact = request[c].facts.artifact
         /\ request[c].facts.artifact # request[c].to
         /\ releases' = [releases EXCEPT ![R(c)] = Replaced(@, request[c].to)]
         /\ audit' = Append(audit, AuditRow(c, releases[R(c)], Replaced(releases[R(c)], request[c].to)))
         /\ rollup' = [rollup EXCEPT ![P(c)] = Committed(P(c))]
<1>1. request[c] \in Requests[c] /\ request[c] \in Request
  BY DEF IInv, Sound, TypeOK
<1>2. Kind(c) = "repair" => request[c].facts.artifact # request[c].to
  BY <1>1, RequestsValid DEF Kind
<1> QED BY <1>2 DEF IInv, Sound, Owns, RepairReads, CommitRepair

(* A published version stays published. *)
LEMMA StaysPublished ==
  ASSUME IInv, NEW c \in Calls, Act(c), NEW r \in Releases, releases[r] # None
  PROVE  releases'[r] # None
<1> USE Places DEF IInv
<1>1. CASE CommitAdoption(c)
  <2>1. request[c].facts \in Facts
    OBVIOUS
  <2>2. releases' = [releases EXCEPT ![R(c)] = request[c].facts] \/ releases' = releases
    BY <1>1, AdoptionCommits
  <2> QED BY <2>1, <2>2, NoneIsNothing DEF TypeOK
<1>2. CASE CommitRepair(c)
  <2>1. Replaced(releases[R(c)], request[c].to) \in Facts
    BY <1>2, RepairCommits, request[c].to \in Artifacts DEF Replaced, Facts
  <2> QED BY <1>2, <2>1, RepairCommits, NoneIsNothing DEF TypeOK
<1>3. CASE Quiet(c)
  BY <1>3 DEF Quiet, Lock, FindOrg, InsertOrg, FindPackage, UpdatePackage, InsertPackage,
     FindRelease, InsertRelease, FindUpload, Load, LoadUploads, UpdateRelease, RollUp, Check,
     CountPackage, Private, tables
<1>4. CASE Refused(c) \/ InsertUpload(c) \/ CountRelease(c) \/ CommitCreate(c)
  BY <1>4 DEF Refused, Abort, InsertUpload, CountRelease, CommitCreate, tables
<1> QED BY <1>1, <1>2, <1>3, <1>4, StepsOf

(* A step of c leaves what holds of another call d. *)
LEMMA OthersSound ==
  ASSUME IInv, NEW c \in Calls, Act(c), NEW d \in Calls, d # c
  PROVE  Sound(d)'
<1> USE Places
<1>0. /\ TypeOK /\ Sound(c) /\ Sound(d)
      /\ request' = request /\ pc'[d] = pc[d] /\ tx'[d] = tx[d]
  BY OthersKeep DEF IInv
<1>1. Kind(d)' = Kind(d) /\ R(d)' = R(d) /\ P(d)' = P(d)
      /\ \A u \in Calls : Kind(u)' = Kind(u) /\ R(u)' = R(u)
  BY <1>0 DEF Kind, R, P
<1>2. pc'[d] \in Script(Kind(d)') /\ request'[d] \in Requests[d]
  BY <1>0, <1>1 DEF Sound
<1>3. Owns(d)'
  BY <1>0, <1>1, OthersKeep DEF Sound, Owns
<1>4. uploads'[d] # None => pc'[d] = "done"
  BY <1>0, UploadsKeep DEF Sound
<1>5. pc'[d] = "insertUpload" => releases'[R(d)] # None
  BY <1>0, StaysPublished DEF Sound
<1>6. Kind(d) \in {"adopt", "repair"} /\ pc[d] \notin {"lock", "done"} =>
        /\ advisory[P(d)] = d
        /\ releases'[R(d)] = releases[R(d)] /\ Committed(P(d))' = Committed(P(d))
  <2> SUFFICES ASSUME Kind(d) \in {"adopt", "repair"}, pc[d] \notin {"lock", "done"}
               PROVE  /\ advisory[P(d)] = d
                      /\ releases'[R(d)] = releases[R(d)] /\ Committed(P(d))' = Committed(P(d))
    OBVIOUS
  <2>1. advisory[P(d)] = d
    BY <1>0 DEF Sound, Owns
  <2>2. P(d) \in Packages /\ R(d) \in Releases /\ PackageOf[R(d)] = P(d)
    BY <1>0 DEF P
  <2>3. PICK p \in Packages : p = P(d)
    BY <2>2
  <2>4. /\ \A r \in Releases : PackageOf[r] = p => releases'[r] = releases[r]
        /\ Committed(p)' = Committed(p)
    BY <2>1, <2>3, OwnersWrite, NoneIsNothing
  <2>5. Committed(P(d))' = Committed(p)' /\ Committed(P(d)) = Committed(p)
    BY <1>1, <2>3 DEF Committed
  <2> QED BY <2>1, <2>2, <2>3, <2>4, <2>5
<1>7. ASSUME Kind(d) \in {"adopt", "repair"}, pc[d] \notin {"lock", "done"},
             NEW u \in Calls, Kind(u) = "adopt", R(u) = R(d), uploads'[u] # None
      PROVE  uploads[u] # None
  <2>1. CASE CommitAdoption(c) /\ R(c) = R(d)
    <3>1. advisory[P(c)] = c
      BY <1>0, <2>1 DEF CommitAdoption, Sound, Owns
    <3> QED BY <1>6, <1>7, <2>1, <3>1 DEF P
  <2> QED BY <1>7, <2>1, UploadsKeep
<1>8. AdoptionReads(d)'
  <2>1. Kind(d) = "adopt" /\ pc[d] = "commit" /\ tx[d].upload =>
          \A u \in Calls : Kind(u) = "adopt" /\ uploads'[u] # None => R(u) # R(d)
    BY <1>0, <1>7 DEF Sound, AdoptionReads
  <2>2. pc[d] = "insertRelease" => Kind(d) = "adopt"
    BY <1>0 DEF Sound, Script, Kinds
  <2> QED BY <1>0, <1>1, <1>6, <2>1, <2>2 DEF Sound, AdoptionReads
<1>9. RepairReads(d)'
  <2>1. ASSUME Kind(d) = "repair", pc[d] \in {"updateRelease", "rollUp", "commit"}
        PROVE  /\ tx[d].seen # {}
               /\ \A u \in tx[d].seen : uploads'[u] # None /\ uploads'[u].release = R(d)
               /\ \A u \in Calls : Kind(u) = "adopt" /\ uploads'[u] # None /\ R(u) = R(d)
                                   => u \in tx[d].seen
    <3>1. ASSUME NEW u \in tx[d].seen PROVE uploads'[u] # None /\ uploads'[u].release = R(d)
      <4>1. u \in Calls /\ uploads[u] # None /\ uploads[u].release = R(d) /\ uploads[u] \in Upload
        BY <1>0, <2>1 DEF Sound, RepairReads, TypeOK, Transaction
      <4>2. u = c => pc[c] = "done"
        BY <1>0, <4>1 DEF Sound
      <4>3. [uploads[u] EXCEPT !.artifact = request[c].to] \in Upload
        BY <1>0, <4>1, request[c].to \in Artifacts DEF Upload
      <4>4. [uploads[u] EXCEPT !.artifact = request[c].to].release = uploads[u].release
        BY <4>1 DEF Upload
      <4> QED BY <4>1, <4>2, <4>3, <4>4, UploadsKeep, NoneIsNothing DEF InsertUpload, CommitAdoption
    <3>2. ASSUME NEW u \in Calls, Kind(u) = "adopt", uploads'[u] # None, R(u) = R(d)
          PROVE  u \in tx[d].seen
      BY <1>0, <1>7, <2>1, <3>2 DEF Sound, RepairReads
    <3> QED BY <1>0, <2>1, <3>1, <3>2 DEF Sound, RepairReads
  <2> QED BY <1>0, <1>1, <1>6, <2>1 DEF Sound, RepairReads
<1> QED BY <1>1, <1>2, <1>3, <1>4, <1>8, <1>9, <1>5 DEF Sound

(* And of the call itself. *)
LEMMA OwnQuiet ==
  ASSUME IInv, NEW c \in Calls, Quiet(c)
  PROVE  Sound(c)'
<1> USE Places
<1>0. TypeOK /\ Sound(c) /\ uploads[c] = None
  BY DEF IInv, Sound, Quiet, Lock, FindOrg, InsertOrg, FindPackage, UpdatePackage, InsertPackage,
     FindRelease, InsertRelease, FindUpload, Load, LoadUploads, UpdateRelease, RollUp, Check,
     CountPackage
<1>1. /\ request' = request /\ releases' = releases /\ uploads' = uploads
      /\ Kind(c)' = Kind(c) /\ R(c)' = R(c) /\ P(c)' = P(c)
      /\ \A u \in Calls : Kind(u)' = Kind(u) /\ R(u)' = R(u)
      /\ Committed(P(c))' = Committed(P(c))
  BY DEF Quiet, Lock, FindOrg, InsertOrg, FindPackage, UpdatePackage, InsertPackage,
     FindRelease, InsertRelease, FindUpload, Load, LoadUploads, UpdateRelease, RollUp, Check,
     CountPackage, Private, tables, Kind, R, P, Committed
<1>2. Kind(c) \in Kinds
  BY <1>0
<1> HIDE DEF Kind, R, P, Committed
<1> USE <1>0, <1>1, <1>2 DEF Sound, TypeOK
<1>3. CASE Lock(c)
  BY <1>3 DEF Lock, Goto, Kinds, Script, Owns, AdoptionReads, RepairReads
<1>4. CASE FindOrg(c)
  BY <1>4 DEF FindOrg, Goto, Kinds, Script, Owns, AdoptionReads, RepairReads, Private, locks
<1>5. CASE InsertOrg(c)
  BY <1>5 DEF InsertOrg, Goto, Kinds, Script, Owns, AdoptionReads, RepairReads, Private, locks,
     Transaction
<1>6. CASE FindPackage(c)
  BY <1>6 DEF FindPackage, Goto, Kinds, Script, Owns, AdoptionReads, RepairReads, Private, locks
<1>7. CASE UpdatePackage(c)
  BY <1>7 DEF UpdatePackage, Goto, Kinds, Script, Owns, AdoptionReads, RepairReads
<1>8. CASE InsertPackage(c)
  BY <1>8 DEF InsertPackage, Goto, Kinds, Script, Owns, AdoptionReads, RepairReads, Private, locks,
     Transaction
<1>9. CASE FindRelease(c)
  BY <1>9 DEF FindRelease, Goto, Kinds, Script, Owns, AdoptionReads, RepairReads, Private, locks,
     Transaction
<1>10. CASE InsertRelease(c)
  BY <1>10 DEF InsertRelease, Goto, Kinds, Script, Owns, AdoptionReads, RepairReads, Private, locks,
     Transaction
<1>11. CASE FindUpload(c)
  <2>1. /\ Kind(c) = "adopt" /\ pc[c] = "findUpload" /\ pc'[c] = "commit"
        /\ tx' = [tx EXCEPT ![c].upload = Verified(R(c)) = {}] /\ advisory' = advisory
    BY <1>11 DEF FindUpload, Goto, Kinds, Script, Private, locks
  <2>2. /\ tx'[c].fresh = tx[c].fresh /\ tx'[c].version = tx[c].version
        /\ tx'[c].counted = tx[c].counted /\ tx'[c].upload = (Verified(R(c)) = {})
    BY <2>1 DEF Transaction
  <2>3. releases[R(c)] = None => Verified(R(c)) = {}
    BY DEF IInv, LedgerOfPublished, Verified
  <2>4. ASSUME Verified(R(c)) = {}, NEW d \in Calls, Kind(d) = "adopt", uploads[d] # None
        PROVE  R(d) # R(c)
    <3>1. uploads[d].release = R(d)
      BY <2>4 DEF IInv, LedgerFollows
    <3> QED BY <2>4, <3>1 DEF Verified
  <2>5. advisory[P(c)] = c
    BY <2>1 DEF Owns
  <2>6. tx'[c].fresh => tx'[c].upload
    BY <2>1, <2>2, <2>3 DEF AdoptionReads
  <2>7. tx'[c].upload => \A d \in Calls : Kind(d) = "adopt" /\ uploads'[d] # None => R(d) # R(c)
    BY <2>2, <2>4
  <2>8. IF tx'[c].fresh
        THEN /\ releases[R(c)] = None /\ tx'[c].version = request[c].facts
             /\ tx'[c].counted = Committed(P(c)) \cup {R(c)}
        ELSE releases[R(c)] = request[c].facts
    BY <2>1, <2>2 DEF AdoptionReads
  <2>9. AdoptionReads(c)'
    BY <2>1, <2>6, <2>7, <2>8 DEF AdoptionReads
  <2> QED BY <2>1, <2>5, <2>9 DEF Script, Owns, RepairReads
<1>12. CASE Load(c)
  <2>1. /\ Kind(c) = "repair" /\ pc[c] = "load" /\ pc'[c] = "loadUploads"
        /\ tx' = [tx EXCEPT ![c].version = releases[R(c)]] /\ advisory' = advisory
        /\ releases[R(c)] # None /\ releases[R(c)].artifact = request[c].facts.artifact
    BY <1>12 DEF Load, OldIdentityMatches, Goto, Kinds, Script, Private, locks
  <2>2. tx'[c].version = releases[R(c)] /\ tx'[c].fresh = tx[c].fresh
    BY <2>1 DEF Transaction
  <2>3. releases[R(c)] \in Facts
    BY <2>1
  <2>4. RepairReads(c)'
    BY <2>1, <2>2, <2>3 DEF RepairReads
  <2>5. AdoptionReads(c)' /\ Owns(c)'
    BY <2>1, <2>2 DEF AdoptionReads, Owns
  <2> QED BY <2>1, <2>4, <2>5 DEF Script
<1>13. CASE LoadUploads(c)
  <2>1. /\ Kind(c) = "repair" /\ pc[c] = "loadUploads" /\ pc'[c] = "updateRelease"
        /\ tx' = [tx EXCEPT ![c].seen = Verified(R(c))] /\ advisory' = advisory
        /\ Verified(R(c)) # {}
    BY <1>13 DEF LoadUploads, LedgerMatches, Goto, Kinds, Script, Private, locks
  <2>2. /\ tx'[c].version = tx[c].version /\ tx'[c].fresh = tx[c].fresh
        /\ tx'[c].seen = Verified(R(c))
    BY <2>1 DEF Transaction
  <2>3. ASSUME NEW u \in Calls, Kind(u) = "adopt", uploads[u] # None, R(u) = R(c)
        PROVE  u \in Verified(R(c))
    <3>1. uploads[u].release = R(u)
      BY <2>3 DEF IInv, LedgerFollows
    <3> QED BY <2>3, <3>1 DEF Verified
  <2>4. \A u \in Verified(R(c)) : uploads[u] # None /\ uploads[u].release = R(c)
    BY DEF Verified
  <2>5. RepairReads(c)'
    BY <2>1, <2>2, <2>3, <2>4 DEF RepairReads
  <2>6. AdoptionReads(c)' /\ Owns(c)'
    BY <2>1, <2>2 DEF AdoptionReads, Owns
  <2> QED BY <2>1, <2>5, <2>6 DEF Script
<1>14. CASE UpdateRelease(c)
  BY <1>14 DEF UpdateRelease, Goto, Kinds, Script, Owns, AdoptionReads, RepairReads, Transaction
<1>15. CASE RollUp(c)
  BY <1>15 DEF RollUp, Goto, Kinds, Script, Owns, AdoptionReads, RepairReads
<1>16. CASE Check(c)
  BY <1>16 DEF Check, Goto, Kinds, Script, Owns, AdoptionReads, RepairReads, Private, locks
<1>17. CASE CountPackage(c)
  BY <1>17 DEF CountPackage, Goto, Kinds, Script, Owns, AdoptionReads, RepairReads
<1> QED BY <1>3, <1>4, <1>5, <1>6, <1>7, <1>8, <1>9, <1>10, <1>11, <1>12, <1>13, <1>14, <1>15,
           <1>16, <1>17 DEF Quiet

\* A call that has ended needs nothing any more.
LEMMA OwnFinished ==
  ASSUME IInv, NEW c \in Calls, NEW result, Finish(c, result)
  PROVE  Sound(c)'
<1>1. /\ pc'[c] = "done" /\ tx'[c] = Blank /\ request' = request /\ Kind(c)' = Kind(c)
      /\ request[c] \in Requests[c]
  BY DEF IInv, TypeOK, Sound, Finish, Goto, Kind
<1>2. Kind(c) \in Kinds
  BY Places DEF IInv
<1> QED BY <1>1, <1>2 DEF Sound, Script, Kinds, Owns, AdoptionReads, RepairReads, Blank

(* The tables stay consistent with each other. *)
LEMMA TablesKeep ==
  ASSUME IInv, NEW c \in Calls, Act(c)
  PROVE  LedgerOfPublished' /\ LedgerFollows' /\ RollupCurrent'
<1> USE Places
<1>0. TypeOK /\ LedgerOfPublished /\ LedgerFollows /\ RollupCurrent /\ Sound(c)
  BY DEF IInv
<1>1. /\ request' = request
      /\ \A u \in Calls : Kind(u)' = Kind(u) /\ R(u)' = R(u)
  <2>1. request' = request
    BY StepsOf DEF Quiet, Lock, FindOrg, InsertOrg, FindPackage, UpdatePackage, InsertPackage,
       FindRelease, InsertRelease, FindUpload, Load, LoadUploads, UpdateRelease, RollUp, Check,
       CountPackage, Private, Refused, Abort, CommitAdoption, CommitRepair, InsertUpload,
       CountRelease, CommitCreate, Finish
  <2> QED BY <2>1 DEF Kind, R
<1> HIDE DEF Kind, R
<1>2. request[c].facts \in Facts /\ request[c].to \in Artifacts /\ R(c) \in Releases
  BY <1>0
<1>3. CASE CommitAdoption(c)
  <2>1. \A r \in Releases : releases[r] # None => releases'[r] = releases[r]
    <3>1. \/ releases' = releases
          \/ releases[R(c)] = None /\ releases' = [releases EXCEPT ![R(c)] = request[c].facts]
      BY <1>0, <1>3, AdoptionCommits
    <3> QED BY <1>0, <3>1 DEF TypeOK
  <2>2. /\ releases'[R(c)] = request[c].facts /\ request[c].facts \in Facts
    BY <1>0, <1>3, AdoptionCommits DEF TypeOK
  <2>12. \/ uploads' = uploads
         \/ /\ uploads' = [uploads EXCEPT ![c] = [release |-> R(c),
                                                artifact |-> request[c].facts.artifact]]
            /\ \A d \in Calls : Kind(d) = "adopt" /\ uploads[d] # None => R(d) # R(c)
    BY <1>0, <1>3, AdoptionCommits
  <2>3. \A u \in Calls \ {c} : uploads'[u] = uploads[u]
    BY <1>0, <2>12 DEF TypeOK
  <2>4. uploads[c] = None
    BY <1>0, <1>3 DEF Sound, CommitAdoption
  <2>5. uploads'[c] # None => uploads'[c] = [release |-> R(c), artifact |-> request[c].facts.artifact]
                              /\ \A d \in Calls : Kind(d) = "adopt" /\ uploads[d] # None => R(d) # R(c)
    BY <1>0, <2>4, <2>12 DEF TypeOK
  <2>6. LedgerOfPublished'
    <3>1. \A u \in Calls : uploads[u] # None => uploads[u].release \in Releases
      BY <1>0 DEF TypeOK, Upload
    <3> QED BY <1>0, <2>1, <2>2, <2>3, <2>5, <3>1, NoneIsNothing DEF LedgerOfPublished
  <2>7. ASSUME NEW u \in Calls, uploads'[u] # None, Kind(u) = "adopt"
        PROVE  /\ releases'[R(u)] # None
               /\ uploads'[u] = [release |-> R(u), artifact |-> releases'[R(u)].artifact]
    BY <1>0, <2>1, <2>2, <2>3, <2>5, <2>7, NoneIsNothing DEF LedgerFollows
  <2>8. ASSUME NEW r \in Releases, releases'[r] # None PROVE Verified(r)' # {}
    <3>1. CASE releases[r] # None
      <4>1. PICK u \in Calls : uploads[u] # None /\ uploads[u].release = r
        BY <1>0, <3>1 DEF LedgerFollows, Verified
      <4>2. uploads'[u] = uploads[u]
        BY <2>3, <2>4, <4>1
      <4> QED BY <4>1, <4>2 DEF Verified
    <3>2. CASE releases[r] = None
      <4>1. r = R(c) /\ tx[c].upload
        BY <1>0, <1>3, <2>8, <3>2, AdoptionCommits DEF TypeOK
      <4>2. uploads'[c] = [release |-> R(c), artifact |-> request[c].facts.artifact]
        BY <1>0, <1>3, <4>1, AdoptionCommits DEF TypeOK
      <4>3. uploads'[c] \in Upload
        BY <4>2, <1>2 DEF Facts, Upload
      <4>4. uploads'[c] # None /\ uploads'[c].release = r
        BY <4>1, <4>2, <4>3, NoneIsNothing
      <4> QED BY <4>4 DEF Verified
    <3> QED BY <3>1, <3>2
  <2>9. ASSUME NEW u \in Calls, NEW v \in Calls, uploads'[u] # None, Kind(u) = "adopt",
               uploads'[v] # None, Kind(v) = "adopt", R(u) = R(v)
        PROVE  u = v
    BY <1>0, <2>3, <2>5, <2>9 DEF LedgerFollows
  <2>10. LedgerFollows'
    BY <1>1, <2>7, <2>8, <2>9 DEF LedgerFollows
  <2>11. ASSUME NEW p \in Packages PROVE rollup'[p] = Committed(p)'
    <3>1. CASE tx[c].fresh
      <4>1. \A r \in Releases : releases'[r] # None <=> releases[r] # None \/ r = R(c)
        BY <1>0, <1>3, <2>2, <3>1, AdoptionCommits, NoneIsNothing DEF TypeOK
      <4>2. Committed(p)' = Committed(p) \cup {r \in {R(c)} : PackageOf[r] = p}
        BY <1>0, <4>1 DEF Committed
      <4>3. CASE p = P(c)
        BY <1>0, <1>3, <3>1, <4>2, <4>3, AdoptionCommits DEF TypeOK, P
      <4>4. CASE p # P(c)
        BY <1>0, <1>3, <3>1, <4>2, <4>4, AdoptionCommits DEF TypeOK, P, RollupCurrent
      <4> QED BY <4>3, <4>4
    <3>2. CASE ~tx[c].fresh
      BY <1>0, <1>3, <3>2, AdoptionCommits DEF RollupCurrent, Committed
    <3> QED BY <3>1, <3>2
  <2> QED BY <2>6, <2>10, <2>11 DEF RollupCurrent
<1>4. CASE CommitRepair(c)
  <2>1. /\ releases[R(c)] \in Facts /\ Kind(c) = "repair" /\ pc[c] = "commit"
        /\ \A r \in Releases \ {R(c)} : releases'[r] = releases[r]
        /\ releases'[R(c)] = Replaced(releases[R(c)], request[c].to)
    BY <1>0, <1>4, RepairCommits DEF TypeOK, CommitRepair
  <2>2. releases'[R(c)] \in Facts /\ releases'[R(c)].artifact = request[c].to
    BY <2>1, <1>2 DEF Replaced, Facts
  <2>3. \A r \in Releases : releases'[r] # None <=> releases[r] # None
    BY <2>1, <2>2, NoneIsNothing
  <2>4. ASSUME NEW u \in Calls
        PROVE  /\ uploads'[u] # None <=> uploads[u] # None
               /\ uploads[u] # None => uploads'[u].release = uploads[u].release
    <3>1. CASE u \in tx[c].seen
      <4>1. uploads[u] # None /\ uploads[u] \in Upload
        BY <1>0, <2>1, <3>1 DEF Sound, RepairReads, TypeOK
      <4>2. uploads'[u] = [uploads[u] EXCEPT !.artifact = request[c].to]
        BY <1>4, <3>1 DEF CommitRepair
      <4>3. uploads'[u] \in Upload /\ uploads'[u].release = uploads[u].release
        BY <4>1, <4>2, <1>2 DEF Upload
      <4> QED BY <4>1, <4>3, NoneIsNothing
    <3>2. CASE u \notin tx[c].seen
      BY <1>4, <3>2 DEF CommitRepair
    <3> QED BY <3>1, <3>2
  <2>5. LedgerOfPublished'
    <3>1. \A u \in Calls : uploads[u] # None => uploads[u].release \in Releases
      BY <1>0 DEF TypeOK, Upload
    <3> QED BY <1>0, <2>3, <2>4, <3>1 DEF LedgerOfPublished
  <2>6. ASSUME NEW u \in Calls, uploads'[u] # None, Kind(u) = "adopt"
        PROVE  /\ releases'[R(u)] # None
               /\ uploads'[u] = [release |-> R(u), artifact |-> releases'[R(u)].artifact]
    <3>1. /\ releases[R(u)] # None /\ R(u) \in Releases
          /\ uploads[u] = [release |-> R(u), artifact |-> releases[R(u)].artifact]
      BY <1>0, <2>4, <2>6 DEF LedgerFollows
    <3>2. CASE R(u) = R(c)
      <4>1. u \in tx[c].seen
        BY <1>0, <2>1, <2>4, <2>6, <3>2 DEF Sound, RepairReads
      <4>2. uploads'[u] = [uploads[u] EXCEPT !.artifact = request[c].to]
        BY <1>4, <4>1 DEF CommitRepair
      <4>3. uploads'[u] = [release |-> R(u), artifact |-> request[c].to]
        BY <3>1, <4>2
      <4> QED BY <2>2, <2>3, <3>1, <3>2, <4>3
    <3>3. CASE R(u) # R(c)
      <4>1. u \notin tx[c].seen
        BY <1>0, <2>1, <3>1, <3>3 DEF Sound, RepairReads
      <4> QED BY <1>4, <2>1, <3>1, <3>3, <4>1 DEF CommitRepair
    <3> QED BY <3>2, <3>3
  <2>7. ASSUME NEW r \in Releases, releases'[r] # None PROVE Verified(r)' # {}
    <3>1. PICK u \in Calls : uploads[u] # None /\ uploads[u].release = r
      BY <1>0, <2>3, <2>7 DEF LedgerFollows, Verified
    <3> QED BY <2>4, <3>1 DEF Verified
  <2>8. LedgerFollows'
    <3>1. \A u, v \in Calls : /\ uploads'[u] # None /\ Kind(u) = "adopt"
                              /\ uploads'[v] # None /\ Kind(v) = "adopt"
                              /\ R(u) = R(v)
                              => u = v
      BY <1>0, <2>4 DEF LedgerFollows
    <3> QED BY <1>1, <2>6, <2>7, <3>1 DEF LedgerFollows
  <2>9. RollupCurrent'
    <3>1. \A p \in Packages : Committed(p)' = Committed(p)
      BY <2>3 DEF Committed
    <3> QED BY <1>0, <1>4, <3>1, RepairCommits DEF RollupCurrent, TypeOK
  <2> QED BY <2>5, <2>8, <2>9
<1>5. CASE InsertUpload(c)
  <2>1. /\ Kind(c) = "register" /\ uploads[c] = None /\ releases[R(c)] # None
        /\ releases' = releases /\ rollup' = rollup
        /\ uploads' = [uploads EXCEPT ![c] = [release |-> R(c),
                                              artifact |-> request[c].facts.artifact]]
    BY <1>0, <1>5 DEF InsertUpload, Sound, Script, Kinds
  <2>2. \A u \in Calls \ {c} : uploads'[u] = uploads[u]
    BY <1>0, <2>1 DEF TypeOK
  <2>3. uploads'[c].release = R(c)
    BY <1>0, <2>1 DEF TypeOK
  <2>4. LedgerOfPublished'
    BY <1>0, <2>1, <2>2, <2>3 DEF LedgerOfPublished
  <2>5. \A r \in Releases : releases[r] # None => Verified(r)' # {}
    <3>1. ASSUME NEW r \in Releases, releases[r] # None PROVE Verified(r)' # {}
      <4>1. PICK u \in Calls : uploads[u] # None /\ uploads[u].release = r
        BY <1>0, <3>1 DEF LedgerFollows, Verified
      <4> QED BY <2>1, <2>2, <4>1 DEF Verified
    <3> QED BY <3>1
  <2>6. LedgerFollows'
    BY <1>0, <1>1, <2>1, <2>2, <2>5 DEF LedgerFollows
  <2>7. RollupCurrent'
    BY <1>0, <2>1 DEF RollupCurrent, Committed
  <2> QED BY <2>4, <2>6, <2>7
<1>6. CASE CountRelease(c)
  <2>1. releases' = releases /\ uploads' = uploads
    BY <1>6 DEF CountRelease
  <2>2. RollupCurrent'
    BY <1>0, <1>6, <2>1 DEF CountRelease, RollupCurrent, Committed, TypeOK
  <2> QED BY <1>0, <1>1, <2>1, <2>2 DEF LedgerOfPublished, LedgerFollows, Verified
<1>7. CASE Quiet(c) \/ Refused(c) \/ CommitCreate(c)
  <2>1. releases' = releases /\ uploads' = uploads /\ rollup' = rollup
    BY <1>7 DEF Quiet, Lock, FindOrg, InsertOrg, FindPackage, UpdatePackage, InsertPackage,
       FindRelease, InsertRelease, FindUpload, Load, LoadUploads, UpdateRelease, RollUp, Check,
       CountPackage, Private, tables, Refused, Abort, CommitCreate
  <2> QED BY <1>0, <1>1, <2>1 DEF LedgerOfPublished, LedgerFollows, Verified, RollupCurrent, Committed
<1> QED BY <1>3, <1>4, <1>5, <1>6, <1>7, StepsOf

\* Every step keeps the invariant.
LEMMA StepSound == IInv /\ [Next]_vars => IInv'
<1> SUFFICES ASSUME IInv, [Next]_vars PROVE IInv'
  OBVIOUS
<1>1. ASSUME NEW c \in Calls, Act(c) PROVE IInv'
  <2>1. TypeOK'
    BY <1>1, StepsOf, QuietTypes, RefusedTypes, CommitTypes DEF IInv
  <2>2. Sound(c)'
    <3>1. CASE Quiet(c)
      BY <3>1, OwnQuiet
    <3>2. CASE \E result : Finish(c, result)
      BY <3>2, OwnFinished
    <3> QED BY <1>1, <3>1, <3>2, StepsOf DEF Refused, Abort, CommitAdoption, CommitRepair,
               InsertUpload, CountRelease, CommitCreate
  <2>3. \A d \in Calls : Sound(d)'
    BY <1>1, <2>2, OthersSound
  <2> QED BY <1>1, <2>1, <2>3, TablesKeep DEF IInv
<1>2. CASE UNCHANGED vars
  <2>1. TypeOK'
    BY <1>2 DEF vars, tables, locks, IInv, TypeOK
  <2>2. ASSUME NEW c \in Calls PROVE Sound(c)'
    <3>1. Sound(c)
      BY DEF IInv
    <3>2. /\ pc'[c] \in Script(Kind(c)') /\ request'[c] \in Requests[c]
          /\ uploads'[c] # None => pc'[c] = "done"
          /\ pc'[c] = "insertUpload" => releases'[R(c)'] # None
          /\ Owns(c)'
      BY <1>2, <3>1 DEF vars, tables, locks, Sound, Owns, Kind, R, P
    <3>3. AdoptionReads(c)'
      BY <1>2, <3>1 DEF vars, tables, Sound, AdoptionReads, Kind, R, P, Committed
    <3>4. RepairReads(c)'
      BY <1>2, <3>1 DEF vars, tables, Sound, RepairReads, Kind, R, P, Committed
    <3> QED BY <3>2, <3>3, <3>4 DEF Sound
  <2>3. LedgerOfPublished' /\ RollupCurrent'
    BY <1>2 DEF vars, tables, IInv, LedgerOfPublished, RollupCurrent, Committed
  <2>4. LedgerFollows'
    BY <1>2 DEF vars, tables, IInv, LedgerFollows, Verified, Kind, R
  <2> QED BY <2>1, <2>2, <2>3, <2>4 DEF IInv
<1> QED BY <1>1, <1>2 DEF Next, Act, Terminated

\* So it always holds.
LEMMA Invariance == Spec => []IInv
BY InitSound, StepSound, PTL DEF Spec

-------------------------------------------------------------------------------
(* The theorems.                                                           *)

(* Every variable keeps its type; in particular a repair never rewrites a  *)
(* version or an upload row that is not there.                             *)
THEOREM PublishTyping == Spec => []TypeOK
<1>1. IInv => TypeOK
  BY DEF IInv
<1> QED BY <1>1, Invariance, PTL

(* However adoptions, retries, repairs, registrations and failures         *)
(* interleave, the ledger rows of the adoptions follow the versions.       *)
THEOREM LedgerHolds == Spec => []LedgerFollows
<1>1. IInv => LedgerFollows
  BY DEF IInv
<1> QED BY <1>1, Invariance, PTL

(* The control plane implements ReleaseHistory: facts appear once and      *)
(* change only by audited repairs from the facts the audit row names.      *)
THEOREM ImplementsHistory == Spec => HistorySpec
<1>1. Init => History!Init
  BY DEF Init, History!Init
<1>2. IInv /\ [Next]_vars => [History!Next]_<<releases, audit>>
  <2> SUFFICES ASSUME IInv, [Next]_vars PROVE History!Next \/ UNCHANGED <<releases, audit>>
    OBVIOUS
  <2> USE Places DEF IInv
  <2>1. ASSUME NEW c \in Calls, CommitAdoption(c) PROVE History!Next \/ UNCHANGED <<releases, audit>>
    <3>1. CASE ~tx[c].fresh
      BY <2>1, <3>1, AdoptionCommits
    <3>2. CASE tx[c].fresh
      <4>1. History!Publish(c, R(c), request[c].facts)
        BY <2>1, <3>2, AdoptionCommits DEF History!Publish, AuditRow
      <4> QED BY <4>1 DEF History!Next
    <3> QED BY <3>1, <3>2
  <2>2. ASSUME NEW c \in Calls, CommitRepair(c) PROVE History!Next
    <3>1. History!Repair(c, R(c), request[c].to)
      BY <2>2, RepairCommits, NoneIsNothing DEF History!Repair, AuditRow, Replaced
    <3> QED BY <3>1 DEF History!Next
  <2>3. ASSUME NEW c \in Calls, Quiet(c) \/ Refused(c) \/ InsertUpload(c) \/ CountRelease(c) \/ CommitCreate(c)
        PROVE  UNCHANGED <<releases, audit>>
    BY <2>3 DEF Quiet, Lock, FindOrg, InsertOrg, FindPackage, UpdatePackage, InsertPackage,
       FindRelease, InsertRelease, FindUpload, Load, LoadUploads, UpdateRelease, RollUp, Check,
       CountPackage, Private, tables, Refused, Abort, InsertUpload, CountRelease, CommitCreate
  <2>4. CASE UNCHANGED vars
    BY <2>4 DEF vars, tables
  <2> QED BY <2>1, <2>2, <2>3, <2>4, StepsOf DEF Next, Terminated, Act
<1> QED BY <1>1, <1>2, Invariance, PTL DEF Spec, HistorySpec, History!Spec

(* The counters stay exact. *)
CountersRight ==
  /\ IsFiniteSet(downloads)
  /\ \A c \in downloads : pc[c] = "done"
  /\ \A p \in Packages : counter[p] = Cardinality({c \in downloads : P(c) = p})

\* The counters on a package are those of its version rows and of its download rows,
\* whichever trigger wrote them last.
THEOREM RollupHolds == Spec => []RollupExact
<1>1. Init => CountersRight
  <2> SUFFICES ASSUME Init PROVE CountersRight
    OBVIOUS
  <2>1. \A p \in Packages : {c \in downloads : P(c) = p} = {}
    BY DEF Init
  <2> QED BY <2>1, FS_EmptySet DEF Init, CountersRight
<1>2. IInv /\ CountersRight /\ [Next]_vars => CountersRight'
  <2> SUFFICES ASSUME IInv, CountersRight, [Next]_vars PROVE CountersRight'
    OBVIOUS
  <2>1. ASSUME NEW c \in Calls, Act(c) PROVE CountersRight'
    <3>1. /\ \A d \in Calls : P(d)' = P(d)
          /\ \A d \in Calls : pc[d] = "done" => pc'[d] = "done"
          /\ downloads \subseteq Calls
      <4>1. request' = request
        BY <2>1, StepsOf DEF Quiet, Lock, FindOrg, InsertOrg, FindPackage, UpdatePackage,
           InsertPackage, FindRelease, InsertRelease, FindUpload, Load, LoadUploads, UpdateRelease,
           RollUp, Check, CountPackage, Private, Refused, Abort, CommitAdoption, CommitRepair,
           InsertUpload, CountRelease, CommitCreate, Finish
      <4>2. pc[c] = "done" => pc'[c] = "done"
        BY <2>1, StepsOf DEF Quiet, Lock, FindOrg, InsertOrg, FindPackage, UpdatePackage,
           InsertPackage, FindRelease, InsertRelease, FindUpload, Load, LoadUploads, UpdateRelease,
           RollUp, Check, CountPackage, Refused, Abort, CommitAdoption, CommitRepair,
           InsertUpload, CountRelease, CommitCreate, Finish, Goto, IInv, TypeOK
      <4> QED BY <2>1, <4>1, <4>2, OthersKeep DEF P, R, IInv, TypeOK
    <3>2. CASE CountRelease(c)
      <4>1. /\ c \notin downloads /\ downloads' = downloads \cup {c}
            /\ counter' = [counter EXCEPT ![P(c)] = @ + 1] /\ pc'[c] = "done"
        BY <3>2 DEF CountRelease, CountersRight, Finish, Goto, IInv, TypeOK
      <4>2. IsFiniteSet(downloads')
        BY <4>1, FS_AddElement DEF CountersRight
      <4>3. ASSUME NEW p \in Packages
            PROVE  counter'[p] = Cardinality({d \in downloads' : P(d)' = p})
        <5> DEFINE S == {d \in downloads : P(d) = p}
        <5>1. IsFiniteSet(S) /\ Cardinality(S) \in Nat /\ counter[p] = Cardinality(S)
          BY FS_Subset, FS_CardinalityType DEF CountersRight
        <5>2. {d \in downloads' : P(d)' = p} = IF P(c) = p THEN S \cup {c} ELSE S
          BY <3>1, <4>1
        <5>3. Cardinality(S \cup {c}) = Cardinality(S) + 1
          BY <4>1, <5>1, FS_AddElement
        <5>4. counter'[p] = IF P(c) = p THEN counter[p] + 1 ELSE counter[p]
          BY <4>1 DEF IInv, TypeOK
        <5> QED BY <5>1, <5>2, <5>3, <5>4
      <4> QED BY <3>1, <4>1, <4>2, <4>3 DEF CountersRight
    <3>3. CASE downloads' = downloads /\ counter' = counter
      BY <3>1, <3>3 DEF CountersRight
    <3>4. CountRelease(c) \/ (downloads' = downloads /\ counter' = counter)
      BY <2>1, StepsOf DEF Quiet, Lock, FindOrg, InsertOrg, FindPackage, UpdatePackage,
         InsertPackage, FindRelease, InsertRelease, FindUpload, Load, LoadUploads, UpdateRelease,
         RollUp, Check, CountPackage, Private, tables, Refused, Abort, CommitAdoption, CommitRepair,
         InsertUpload, CommitCreate
    <3> QED BY <3>2, <3>3, <3>4
  <2>2. CASE UNCHANGED vars
    BY <2>2 DEF vars, tables, CountersRight, P, R
  <2> QED BY <2>1, <2>2 DEF Next, Act, Terminated
<1>3. IInv /\ CountersRight => RollupExact
  BY DEF IInv, RollupCurrent, CountersRight, RollupExact
<1> QED BY <1>1, <1>2, <1>3, Invariance, PTL DEF Spec

-------------------------------------------------------------------------------
(* What callers are told.                                                  *)

(* The last audit row of a version shows what the version is. *)
TrailCurrent == \A r \in Releases : releases[r] # None =>
                  \E i \in DOMAIN audit : audit[i].release = r /\ audit[i].new = releases[r]

(* An adoption has found or made its organization and its package. *)
Placed(c) == Kind(c) = "adopt" =>
  /\ pc[c] \in {"findPackage", "updatePackage", "insertPackage", "findRelease", "insertRelease",
                "findUpload", "commit"} => O(c) \in orgs \/ tx[c].org
  /\ pc[c] \in {"updatePackage", "findRelease", "insertRelease", "findUpload", "commit"} =>
       P(c) \in packages \/ tx[c].package

Receipt(c) ==
  /\ outcome[c] \in {"inserted", "matched"} =>
       /\ O(c) \in orgs /\ P(c) \in packages /\ releases[R(c)] # None
       /\ Audited(c, request[c].facts)
  /\ outcome[c] = "policy" /\ Kind(c) = "adopt" =>
       \E i \in DOMAIN audit : audit[i].release = R(c) /\ audit[i].new # request[c].facts
  /\ outcome[c] = "repaired" =>
       \E i \in DOMAIN audit : /\ audit[i].by = c
                               /\ audit[i].old.artifact = request[c].facts.artifact
                               /\ audit[i].new.artifact = request[c].to

InsertedOnce == \A c, d \in Calls :
  outcome[c] = "inserted" /\ outcome[d] = "inserted" /\ R(c) = R(d) => c = d

Told == TrailCurrent /\ InsertedOnce /\ \A c \in Calls : Placed(c) /\ Receipt(c)

\* Organizations, packages and the audit trail only grow; a call answers for itself.
LEMMA TablesGrow ==
  ASSUME IInv, NEW c \in Calls, Act(c)
  PROVE  /\ orgs \subseteq orgs' /\ packages \subseteq packages' /\ request' = request
         /\ \A i \in DOMAIN audit : i \in DOMAIN audit' /\ audit'[i] = audit[i]
         /\ \A d \in Calls \ {c} : outcome'[d] = outcome[d]
<1>1. orgs \subseteq orgs' /\ packages \subseteq packages'
  BY StepsOf DEF Quiet, Lock, FindOrg, InsertOrg, FindPackage, UpdatePackage, InsertPackage,
     FindRelease, InsertRelease, FindUpload, Load, LoadUploads, UpdateRelease, RollUp, Check,
     CountPackage, Private, tables, Refused, Abort, CommitAdoption, CommitRepair, InsertUpload,
     CountRelease, CommitCreate
<1>2. /\ request' = request
      /\ \A d \in Calls \ {c} : outcome'[d] = outcome[d]
  <2>1. CASE Quiet(c)
    BY <2>1 DEF Quiet, Lock, FindOrg, InsertOrg, FindPackage, UpdatePackage, InsertPackage,
       FindRelease, InsertRelease, FindUpload, Load, LoadUploads, UpdateRelease, RollUp, Check,
       CountPackage, Private
  <2>2. CASE \E result : Finish(c, result)
    BY <2>2 DEF Finish, IInv, TypeOK
  <2> QED BY <2>1, <2>2, StepsOf DEF Refused, Abort, CommitAdoption, CommitRepair, InsertUpload,
             CountRelease, CommitCreate
<1>3. audit' = audit \/ \E row : audit' = Append(audit, row)
  BY StepsOf DEF Quiet, Lock, FindOrg, InsertOrg, FindPackage, UpdatePackage, InsertPackage,
     FindRelease, InsertRelease, FindUpload, Load, LoadUploads, UpdateRelease, RollUp, Check,
     CountPackage, Private, tables, Refused, Abort, CommitAdoption, CommitRepair, InsertUpload,
     CountRelease, CommitCreate
<1>4. \A i \in DOMAIN audit : i \in DOMAIN audit' /\ audit'[i] = audit[i]
  <2>1. CASE audit' = audit
    BY <2>1
  <2>2. CASE \E row : audit' = Append(audit, row)
    <3>1. PICK row : audit' = Append(audit, row)
      BY <2>2
    <3>2. PICK S : audit \in Seq(S)
      BY DEF IInv, TypeOK
    <3>3. Len(audit) \in Nat /\ DOMAIN audit = 1 .. Len(audit)
      BY <3>2
    <3>4. DOMAIN audit' = 1 .. Len(audit) + 1
      BY <3>1, <3>2
    <3>5. \A i \in 1 .. Len(audit) : audit'[i] = audit[i]
      BY <3>1, <3>2
    <3> QED BY <3>3, <3>4, <3>5
  <2> QED BY <1>3, <2>1, <2>2
<1> QED BY <1>1, <1>2, <1>4

\* Every step leaves the last audit row of a version at what the version is.
LEMMA TrailStep ==
  ASSUME IInv, TrailCurrent, NEW c \in Calls, Act(c)
  PROVE  TrailCurrent'
<1> USE Places DEF IInv
<1> SUFFICES ASSUME NEW r \in Releases, releases'[r] # None
             PROVE  \E i \in DOMAIN audit' : audit'[i].release = r /\ audit'[i].new = releases'[r]
  BY DEF TrailCurrent
<1>1. CASE releases'[r] = releases[r]
  <2>1. PICK i \in DOMAIN audit : audit[i].release = r /\ audit[i].new = releases[r]
    BY <1>1 DEF TrailCurrent
  <2> QED BY <1>1, <2>1, TablesGrow
<1>2. CASE releases'[r] # releases[r]
  <2>1. r = R(c) /\ \E old : audit' = Append(audit, AuditRow(c, old, releases'[r]))
    <3>1. CASE CommitAdoption(c)
      <4>1. /\ releases' = [releases EXCEPT ![R(c)] = request[c].facts]
            /\ audit' = Append(audit, AuditRow(c, None, request[c].facts))
        BY <1>2, <3>1, AdoptionCommits
      <4>2. r = R(c) /\ releases'[r] = request[c].facts
        BY <1>2, <4>1 DEF TypeOK
      <4> QED BY <4>1, <4>2
    <3>2. CASE CommitRepair(c)
      <4>1. /\ releases' = [releases EXCEPT ![R(c)] = Replaced(@, request[c].to)]
            /\ audit' = Append(audit, AuditRow(c, releases[R(c)], Replaced(releases[R(c)], request[c].to)))
        BY <1>2, <3>2, RepairCommits
      <4>2. r = R(c) /\ releases'[r] = Replaced(releases[R(c)], request[c].to)
        BY <1>2, <4>1 DEF TypeOK
      <4> QED BY <4>1, <4>2
    <3>3. ~CommitAdoption(c) /\ ~CommitRepair(c) => releases' = releases
      BY StepsOf DEF Quiet, Lock, FindOrg, InsertOrg, FindPackage, UpdatePackage, InsertPackage,
         FindRelease, InsertRelease, FindUpload, Load, LoadUploads, UpdateRelease, RollUp, Check,
         CountPackage, Private, tables, Refused, Abort, InsertUpload, CountRelease, CommitCreate
    <3> QED BY <1>2, <3>1, <3>2, <3>3
  <2>2. PICK old : audit' = Append(audit, AuditRow(c, old, releases'[r]))
    BY <2>1
  <2>3. Len(audit) + 1 \in DOMAIN audit' /\ audit'[Len(audit) + 1] = AuditRow(c, old, releases'[r])
    BY <2>2 DEF TypeOK
  <2> QED BY <2>1, <2>3 DEF AuditRow
<1> QED BY <1>1, <1>2

\* What an adoption found or made stays.
LEMMA PlacedStep ==
  ASSUME IInv, NEW c \in Calls, Act(c), NEW d \in Calls, Placed(d)
  PROVE  Placed(d)'
<1>1. CASE d # c
  BY <1>1, OthersKeep, TablesGrow DEF Placed, Kind, O, P, R
<1>2. CASE d = c
  <2>1. Kind(c)' = Kind(c) /\ O(c)' = O(c) /\ P(c)' = P(c)
    BY TablesGrow DEF Kind, O, P, R
  <2>2. CASE \E result : Finish(c, result)
    BY <1>2, <2>2 DEF Finish, Goto, Placed, IInv, TypeOK
  <2>3. CASE Quiet(c)
    <3> HIDE DEF Kind, O, P, R
    <3> USE <1>2, <2>1, TablesGrow DEF Placed, Goto, IInv, TypeOK, Sound, Script, Kinds
    <3>0. orgs' = orgs /\ packages' = packages
      BY <2>3 DEF Quiet, Lock, FindOrg, InsertOrg, FindPackage, UpdatePackage, InsertPackage,
         FindRelease, InsertRelease, FindUpload, Load, LoadUploads, UpdateRelease, RollUp, Check,
         CountPackage, Private, tables
    <3>1. CASE Lock(c)
      BY <3>0, <3>1 DEF Lock
    <3>2. CASE FindOrg(c)
      BY <3>0, <3>2 DEF FindOrg
    <3>3. CASE FindPackage(c)
      BY <3>0, <3>3 DEF FindPackage
    <3>4. CASE UpdatePackage(c)
      BY <3>0, <3>4 DEF UpdatePackage
    <3>5. CASE RollUp(c) \/ Check(c) \/ CountPackage(c)
      BY <3>0, <3>5 DEF RollUp, Check, CountPackage
    <3>6. CASE InsertOrg(c) \/ InsertPackage(c)
      BY <3>0, <3>6 DEF InsertOrg, InsertPackage, Transaction
    <3>7. CASE FindRelease(c)
      BY <3>0, <3>7 DEF FindRelease, Transaction
    <3>8. CASE InsertRelease(c)
      BY <3>0, <3>8 DEF InsertRelease, Transaction
    <3>9. CASE FindUpload(c)
      BY <3>0, <3>9 DEF FindUpload, Transaction
    <3>10. CASE Load(c) \/ LoadUploads(c) \/ UpdateRelease(c)
      BY <3>0, <3>10 DEF Load, LoadUploads, UpdateRelease, Transaction
    <3> QED BY <2>3, <3>1, <3>6, <3>7, <3>10, <3>8, <3>9, <3>2, <3>3, <3>4, <3>5 DEF Quiet
  <2> QED BY <1>2, <2>2, <2>3, StepsOf DEF Refused, Abort, CommitAdoption, CommitRepair,
             InsertUpload, CountRelease, CommitCreate
<1> QED BY <1>1, <1>2

(* An answer that was right stays right. *)
LEMMA ReceiptStays ==
  ASSUME IInv, NEW c \in Calls, Act(c), NEW d \in Calls, Receipt(d), outcome'[d] = outcome[d]
  PROVE  Receipt(d)'
<1>1. /\ Kind(d)' = Kind(d) /\ R(d)' = R(d) /\ O(d)' = O(d) /\ P(d)' = P(d)
      /\ request'[d] = request[d]
  BY TablesGrow DEF Kind, R, O, P
<1>2. \A r \in Releases : releases[r] # None => releases'[r] # None
  BY StaysPublished
<1>3. R(d) \in Releases
  BY Places DEF IInv
<1>4. \A i \in DOMAIN audit : i \in DOMAIN audit' /\ audit'[i] = audit[i]
  BY TablesGrow
<1>5. orgs \subseteq orgs' /\ packages \subseteq packages'
  BY TablesGrow
<1> HIDE DEF Kind, R, O, P
<1>6. outcome'[d] \in {"inserted", "matched"} =>
        /\ O(d)' \in orgs' /\ P(d)' \in packages' /\ releases'[R(d)'] # None
        /\ Audited(d, request[d].facts)'
  BY <1>1, <1>2, <1>3, <1>4, <1>5 DEF Receipt, Audited
<1>7. outcome'[d] = "policy" /\ Kind(d)' = "adopt" =>
        \E i \in DOMAIN audit' : audit'[i].release = R(d)' /\ audit'[i].new # request'[d].facts
  BY <1>1, <1>4 DEF Receipt
<1>8. outcome'[d] = "repaired" =>
       \E i \in DOMAIN audit' : /\ audit'[i].by = d
                                /\ audit'[i].old.artifact = request'[d].facts.artifact
                                /\ audit'[i].new.artifact = request'[d].to
  BY <1>1, <1>4 DEF Receipt
<1> QED BY <1>6, <1>7, <1>8 DEF Receipt, Audited

(* A new answer is right. *)
LEMMA ReceiptGiven ==
  ASSUME IInv, TrailCurrent, NEW c \in Calls, Act(c), Placed(c), Receipt(c)
  PROVE  Receipt(c)'
<1>1. /\ Kind(c)' = Kind(c) /\ R(c)' = R(c) /\ O(c)' = O(c) /\ P(c)' = P(c)
      /\ request'[c] = request[c]
  BY TablesGrow DEF Kind, R, O, P
<1>2. /\ R(c) \in Releases /\ Kind(c) \in Kinds /\ TypeOK /\ Sound(c)
      /\ request[c].facts \in Facts
  BY Places DEF IInv
<1>3. TrailCurrent'
  BY TrailStep
<1> HIDE DEF Kind, R, O, P
<1>4. CASE outcome'[c] \notin {"inserted", "matched", "policy", "repaired"}
  BY <1>4 DEF Receipt
<1>5. CASE CommitAdoption(c)
  <2>1. /\ Kind(c) = "adopt" /\ pc[c] = "commit"
        /\ orgs' = (IF tx[c].org THEN orgs \cup {O(c)} ELSE orgs)
        /\ packages' = (IF tx[c].package THEN packages \cup {P(c)} ELSE packages)
        /\ outcome'[c] \in {"inserted", "matched", "error"}
    BY <1>2, <1>5 DEF CommitAdoption, Finish, TypeOK
  <2>2. O(c) \in orgs' /\ P(c) \in packages'
    BY <2>1 DEF Placed
  <2>3. releases'[R(c)] = request[c].facts /\ releases'[R(c)] # None
    BY <1>2, <1>5, AdoptionCommits, NoneIsNothing DEF TypeOK
  <2>4. \E i \in DOMAIN audit' : audit'[i].release = R(c) /\ audit'[i].new = request[c].facts
    BY <1>2, <1>3, <2>3 DEF TrailCurrent
  <2>5. Audited(c, request[c].facts)'
    BY <1>1, <2>4 DEF Audited
  <2> QED BY <1>1, <2>1, <2>2, <2>3, <2>5 DEF Receipt
<1>6. CASE FactsDiffer(c)
  <2>1. /\ outcome'[c] = "policy" /\ releases[R(c)] \notin {None, request[c].facts} /\ audit' = audit
    BY <1>2, <1>6 DEF FactsDiffer, Abort, Finish, tables, TypeOK
  <2>2. PICK i \in DOMAIN audit : audit[i].release = R(c) /\ audit[i].new = releases[R(c)]
    BY <1>2, <2>1 DEF TrailCurrent
  <2> QED BY <1>1, <2>1, <2>2 DEF Receipt
<1>7. CASE LoadRefused(c) \/ LedgerRefused(c)
  <2>1. Kind(c) = "repair"
    BY <1>2, <1>7 DEF LoadRefused, LedgerRefused, Sound, Script, Kinds
  <2>2. outcome'[c] \in {"policy", "notFound"}
    BY <1>2, <1>7 DEF LoadRefused, LedgerRefused, Abort, Finish, TypeOK
  <2> QED BY <1>1, <2>1, <2>2 DEF Receipt
<1>8. CASE CommitRepair(c)
  <2>1. outcome'[c] \in {"repaired", "error"}
    BY <1>2, <1>8 DEF CommitRepair, Finish, TypeOK
  <2>2. audit' = Append(audit, AuditRow(c, releases[R(c)], Replaced(releases[R(c)], request[c].to)))
    BY <1>8, RepairCommits
  <2>3. /\ Len(audit) + 1 \in DOMAIN audit'
        /\ audit'[Len(audit) + 1]
             = AuditRow(c, releases[R(c)], Replaced(releases[R(c)], request[c].to))
    BY <1>2, <2>2 DEF TypeOK
  <2>4. /\ releases[R(c)] \in Facts /\ releases[R(c)].artifact = request[c].facts.artifact
    BY <1>8, RepairCommits
  <2>5. Replaced(releases[R(c)], request[c].to).artifact = request[c].to
    BY <2>4 DEF Replaced, Facts
  <2> QED BY <1>1, <2>1, <2>3, <2>4, <2>5 DEF Receipt, AuditRow
<1>9. CASE outcome'[c] = outcome[c]
  BY <1>9, ReceiptStays
<1>10. \/ CommitAdoption(c) \/ FactsDiffer(c) \/ LoadRefused(c) \/ LedgerRefused(c)
       \/ CommitRepair(c) \/ outcome'[c] = outcome[c]
       \/ outcome'[c] \notin {"inserted", "matched", "policy", "repaired"}
  <2>1. CASE Quiet(c)
    BY <2>1 DEF Quiet, Lock, FindOrg, InsertOrg, FindPackage, UpdatePackage, InsertPackage,
       FindRelease, InsertRelease, FindUpload, Load, LoadUploads, UpdateRelease, RollUp, Check,
       CountPackage, Private
  <2>2. CASE Missing(c) \/ Conflict(c) \/ Fail(c) \/ DeadlockVictim(c)
    BY <1>2, <2>2 DEF Missing, Conflict, Fail, DeadlockVictim, Abort, Finish, TypeOK
  <2>3. CASE InsertUpload(c) \/ CountRelease(c) \/ CommitCreate(c)
    BY <1>2, <2>3 DEF InsertUpload, CountRelease, CommitCreate, Finish, TypeOK
  <2> QED BY <2>1, <2>2, <2>3 DEF Act, Step, Adopt, Repair, Account, Quiet
<1> QED BY <1>4, <1>5, <1>6, <1>7, <1>8, <1>9, <1>10

(* Every answer a caller gets is true and stays true: a success of the rows *)
(* it is about, a refusal of the facts it was refused for, and one call in  *)
(* all is told that it inserted the version.                                *)
THEOREM ReceiptsHold == Spec => []ReceiptsTrue
<1>1. Init => Told
  <2> SUFFICES ASSUME Init PROVE Told
    OBVIOUS
  <2>1. ASSUME NEW c \in Calls PROVE Placed(c) /\ Receipt(c) /\ outcome[c] = "open"
    <3>1. outcome[c] = "open" /\ pc[c] = FirstStage(Kind(c))
      BY DEF Init, Kind
    <3>2. Kind(c) = "adopt" => pc[c] = "lock"
      BY <3>1 DEF FirstStage
    <3> QED BY <3>1, <3>2 DEF Placed, Receipt
  <2>2. TrailCurrent
    BY DEF Init, TrailCurrent
  <2> QED BY <2>1, <2>2 DEF Told, InsertedOnce
<1>2. IInv /\ Told /\ [Next]_vars => Told'
  <2> SUFFICES ASSUME IInv, Told, [Next]_vars PROVE Told'
    OBVIOUS
  <2>1. ASSUME NEW c \in Calls, Act(c) PROVE Told'
    <3>1. TrailCurrent' /\ \A d \in Calls : Placed(d)'
      BY <2>1, TrailStep, PlacedStep DEF Told
    <3>2. \A d \in Calls : Receipt(d)'
      BY <2>1, ReceiptStays, ReceiptGiven, TablesGrow DEF Told
    <3>3. ASSUME NEW d \in Calls \ {c}, outcome'[c] = "inserted", outcome'[d] = "inserted"
          PROVE  R(c) # R(d)
      <4>1. outcome[d] = "inserted" /\ releases[R(d)] # None
        BY <2>1, <3>3, TablesGrow DEF Told, Receipt
      <4>2. CASE outcome[c] = "inserted"
        BY <3>3, <4>1, <4>2 DEF Told, InsertedOnce
      <4>3. CASE outcome[c] # "inserted"
        <5>1. CommitAdoption(c)
          <6>1. CASE Quiet(c)
            BY <3>3, <4>3, <6>1 DEF Quiet, Lock, FindOrg, InsertOrg, FindPackage, UpdatePackage,
               InsertPackage, FindRelease, InsertRelease, FindUpload, Load, LoadUploads,
               UpdateRelease, RollUp, Check, CountPackage, Private
          <6>2. CASE Refused(c) \/ CommitRepair(c) \/ InsertUpload(c) \/ CountRelease(c) \/ CommitCreate(c)
            BY <3>3, <6>2 DEF Refused, Abort, CommitRepair, InsertUpload, CountRelease,
               CommitCreate, Finish, IInv, TypeOK
          <6> QED BY <2>1, <6>1, <6>2, StepsOf
        <5>2. tx[c].fresh
          BY <3>3, <5>1 DEF CommitAdoption, Finish, IInv, TypeOK
        <5>3. releases[R(c)] = None
          BY <5>1, <5>2, AdoptionCommits
        <5> QED BY <4>1, <5>3
      <4> QED BY <4>2, <4>3
    <3>4. InsertedOnce'
      <4>1. \A d \in Calls : R(d)' = R(d)
        BY <2>1, TablesGrow DEF R
      <4>2. \A d \in Calls \ {c} : outcome'[d] = outcome[d]
        BY <2>1, TablesGrow
      <4> HIDE DEF R
      <4> QED BY <3>3, <4>1, <4>2 DEF Told, InsertedOnce
    <3> QED BY <3>1, <3>2, <3>4 DEF Told
  <2>2. CASE UNCHANGED vars
    BY <2>2 DEF vars, tables, Told, TrailCurrent, InsertedOnce, Placed, Receipt, Audited, Kind, R, O, P
  <2> QED BY <2>1, <2>2 DEF Next, Act, Terminated
<1>3. IInv /\ Told => ReceiptsTrue
  <2> SUFFICES ASSUME IInv, Told PROVE ReceiptsTrue
    OBVIOUS
  <2>1. \A c \in Calls : releases[R(c)] # None => Verified(R(c)) # {}
    BY Places DEF IInv, LedgerFollows
  <2> QED BY <2>1 DEF Told, Receipt, InsertedOnce, ReceiptsTrue
<1> QED BY <1>1, <1>2, <1>3, Invariance, PTL DEF Spec
===============================================================================

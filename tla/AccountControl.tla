---------------------------- MODULE AccountControl ----------------------------
(* The account control plane of rust-orm: account.rs, the unchecked writes of    *)
(* write.rs and registry/licenses.rs, invitations.rs, and the constraints and    *)
(* triggers of the schema they write to. A call is a transaction under READ      *)
(* COMMITTED, split at its statements: a read sees what is committed then, and   *)
(* nothing it saw is locked. A transaction's writes are one step with its commit *)
(* where its own locks keep the others from telling; adding a primary licence,   *)
(* whose second write can see what its first could not, is split.                *)
EXTENDS Naturals, FiniteSets

CONSTANTS
  Users, Orgs, Projects, Packages, Versions, Invitations, Callers, None,
  HomeOf,         \* the organization of a project
  OwnerOf,        \* the organization of a package
  VersionOf,      \* the package of a version
  Identities,     \* the verified addresses a user may present
  Workloads,      \* what the callers ask, each once
  Faulty,         \* the callers whose transactions may fail
  FirstUsers,     \* the users known at first, and their addresses
  FirstRoles,     \* who holds which role at first
  FirstPackages,  \* the packages at first
  Appointments,   \* the roles operators may set: <<target, user, role or None>>
  MaxAge, MaxDownloads,    \* the promotion window of the schema
  MaxNow, MaxInterventions \* bounds: the clock, and what operators do

VARIABLES
  users,       \* zed_users: the address of a registered user
  founded,     \* rows of zed_orgs and zed_projects
  role,        \* zed_org_members and zed_project_members
  packages,    \* zed_packages
  licences,    \* zed_package_licenses
  uploads,     \* zed_package_uploads
  invitations, \* zed_org_invitations and zed_project_invitations
  call,        \* the transaction of each caller
  now, interventions

store == <<users, founded, role, packages, licences, uploads, invitations>>
controlVars == <<store, call, now, interventions>>

Targets == Orgs \cup Projects
Emails == UNION {Identities[u] : u \in Users}
Visibilities == {"private", "internal", "public"}

RoleRank == [r \in {"owner", "admin", "member", "reader"} |->
               CASE r = "owner" -> 4 [] r = "admin" -> 3 [] r = "member" -> 2 [] r = "reader" -> 1]
Roles == DOMAIN RoleRank
AdminRoles == {"owner", "admin"}
WriteRoles == {"owner", "admin", "member"}
InvitableRoles == {"admin", "member", "reader"}

Row == [project : Projects \cup {None}, visibility : Visibilities, born : 0..MaxNow,
        downloads : Nat,
        promoted : [age : 0..MaxNow, downloads : Nat] \cup {None}]
Licence == [by : Callers, package : Packages, version : Versions \cup {None},
            primary : BOOLEAN, asked : BOOLEAN]
Invitation == [target : Targets, email : Emails, role : InvitableRoles, token : Nat,
               expires : Nat, by : Users \cup {None}, revoked : BOOLEAN]
-------------------------------------------------------------------------------
\* The operations, by what their transactions do before they write.
OnPackage == {"settings", "promote", "setVisibility", "license", "upload"}
Allowed(r) ==
  IF r.kind \in {"createProject", "invite", "promote"} THEN AdminRoles ELSE WriteRoles

\* A request has the fields its operation reads. The calls that check the actor's
\* role are those named for_user; an address was verified with its user's identity.
Unchecked == {"createOrg", "createProject", "createPackage", "setVisibility", "license",
              "download", "upload", "invite"}
AsksRole == {"createProject", "createPackage", "settings", "promote", "license", "upload",
             "invite"}
Formed(r) ==
  /\ r.kind \in Unchecked \cup AsksRole \cup {"accept"}
  /\ r.kind = "accept" => r.email \in Identities[r.actor] /\ r.token \in Nat
  /\ r.kind # "accept" => r.checked \in BOOLEAN
  /\ r.kind # "accept" /\ r.checked => r.kind \in AsksRole
  /\ r.kind \in AsksRole \ Unchecked => r.checked
  /\ r.kind \notin {"setVisibility", "download"} => r.actor \in Users
  /\ r.kind = "createOrg" => r.org \in Orgs
  /\ r.kind = "createProject" => r.project \in Projects
  /\ r.kind \in {"createPackage", "settings"} => r.project \in Projects \cup {None}
  /\ r.kind \in OnPackage \cup {"createPackage", "download"} => r.package \in Packages
  /\ r.kind = "setVisibility" => r.to \in Visibilities
  /\ r.kind \in {"license", "upload"} => r.version \in Versions \cup {None}
  /\ r.kind = "license" => r.primary \in BOOLEAN
  /\ r.kind = "invite" => /\ r.target \in Targets /\ r.inv \in Invitations
                          /\ r.email \in Emails /\ r.token \in Nat /\ r.expires \in Nat

ASSUME ControlAssumption ==
  /\ HomeOf \in [Projects -> Orgs] /\ OwnerOf \in [Packages -> Orgs]
  /\ FirstUsers \in [Users -> Emails \cup {None}]
  /\ FirstRoles \in [Targets -> [Users -> Roles \cup {None}]]
  /\ FirstPackages \in [Packages -> {p \in Row : p.promoted = None /\ p.born = 0} \cup {None}]
  /\ \A w \in Workloads, c \in Callers : Formed(w[c])
  /\ Appointments \subseteq Targets \X Users \X (Roles \cup {None})
  /\ MaxNow \in Nat /\ MaxInterventions \in Nat /\ MaxAge \in Nat /\ MaxDownloads \in Nat
  /\ Orgs \cap Projects = {}
  /\ None \notin Users \cup Emails \cup Targets \cup Roles \cup Row \cup Invitation
                  \cup [age : 0..MaxNow, downloads : Nat]
                  \cup [target : Targets, email : Emails, role : InvitableRoles,
                         state : {"open", "used", "revoked"}]

FirstStage(r) ==
  CASE r.kind = "accept" -> "login"
    [] r.kind \in OnPackage -> "find"
    [] r.kind \notin OnPackage \cup {"accept"} -> IF r.checked THEN "authorise" ELSE "write"

\* What follows once the row is found and the actor may write it.
Ready(r, row) ==
  CASE r.kind = "setVisibility" -> IF r.to = "public" /\ row.visibility # "public"
                                    THEN "precheck" ELSE "write"
    [] r.kind \in {"license", "upload"} -> "version"
    [] r.kind = "settings" -> "retarget"
    [] r.kind \notin {"setVisibility", "license", "upload", "settings"} -> "write"

Stages == {"idle", "find", "authorise", "retarget", "version", "precheck", "demote", "insert",
           "write", "login", "enrol", "lookup", "consume", "done"}
Results == {None, "ok", "not_found", "policy", "conflict", "permanent", "expired", "popular",
            "failed"}

Idle == [stage |-> "idle", req |-> None, row |-> None, began |-> 0, seen |-> {}, held |-> {},
         inv |-> None, calm |-> TRUE, result |-> None]

ControlStart(asked) ==
  /\ users = FirstUsers
  /\ founded = {t \in Targets : \E u \in Users : FirstRoles[t][u] # None}
  /\ role = FirstRoles
  /\ packages = FirstPackages
  /\ licences = {}
  /\ uploads = {}
  /\ invitations = [i \in Invitations |-> None]
  /\ call = [c \in Callers |-> [Idle EXCEPT !.req = asked[c]]]
  /\ now = 0
  /\ interventions = 0

ControlInit == \E asked \in Workloads : ControlStart(asked)
-------------------------------------------------------------------------------
At(c, stage) == call[c].stage = stage
Req(c) == call[c].req

\* c goes on with another statement, having read or locked something.
GoOn(c, next) == call' = [call EXCEPT ![c] = next]

\* c answers; its locks are gone.
Done(t, result) ==
  [t EXCEPT !.stage = "done", !.row = None, !.began = 0, !.seen = {}, !.held = {},
            !.result = result]
Answer(c, result) == call' = [call EXCEPT ![c] = Done(call[c], result)]

\* c answers, or an operator acts, and roles or a package's project changed under
\* the transactions in flight.
Disturb(new) ==
  [d \in Callers |-> IF new[d].stage \in {"idle", "done"} THEN new[d]
                     ELSE [new[d] EXCEPT !.calm = FALSE]]
AnswerAndDisturb(c, result) ==
  call' = Disturb([call EXCEPT ![c] = Done(call[c], result)])

Refuse(c, result) == Answer(c, result) /\ UNCHANGED <<store, now, interventions>>

Begin(c) ==
  /\ At(c, "idle")
  /\ call' = [call EXCEPT ![c].stage = FirstStage(Req(c)), ![c].began = now]
  /\ UNCHANGED <<store, now, interventions>>

\* A statement fails, the process dies or the future is dropped: all is rolled back.
Fail(c) ==
  /\ c \in Faulty
  /\ call[c].stage \notin {"idle", "done"}
  /\ Refuse(c, "failed")

\* find_package, and set_package_visibility's own read of the row.
FindPackage(c) ==
  /\ At(c, "find")
  /\ LET r == Req(c)  row == packages[r.package] IN
       \/ row = None /\ Refuse(c, "not_found")
       \/ /\ row # None
          /\ r.kind = "setVisibility" /\ row.visibility = "public" /\ r.to # "public"
          /\ Refuse(c, "permanent")
       \/ /\ row # None
          /\ ~(r.kind = "setVisibility" /\ row.visibility = "public" /\ r.to # "public")
          /\ GoOn(c, [call[c] EXCEPT !.row = row,
                        !.stage = IF r.checked THEN "authorise" ELSE Ready(r, row)])
          /\ UNCHANGED <<store, now, interventions>>

\* strongest_role: the better of the two memberships.
Strongest(a, b) ==
  IF a = None THEN b ELSE IF b = None THEN a ELSE IF RoleRank[a] > RoleRank[b] THEN a ELSE b

\* require_package_write_target: a project must exist in the organization; without
\* one the organization's membership decides.
MayWrite(u, org, project, allowed) ==
  IF project = None THEN role[org][u] \in allowed
  ELSE /\ project \in founded /\ HomeOf[project] = org
       /\ Strongest(role[org][u], role[project][u]) \in allowed

\* The organization and project a request is about.
Place(r, row) ==
  CASE r.kind = "createProject" -> <<HomeOf[r.project], None>>
    [] r.kind = "createPackage" -> <<OwnerOf[r.package], r.project>>
    [] r.kind = "invite" -> IF r.target \in Orgs THEN <<r.target, None>>
                            ELSE <<HomeOf[r.target], r.target>>
    [] r.kind \notin {"createProject", "createPackage", "invite"} ->
         <<OwnerOf[r.package], row.project>>

Authorise(c) ==
  /\ At(c, "authorise")
  /\ LET r == Req(c)  place == Place(r, call[c].row)
         exists == /\ place[1] \in founded
                   /\ r.kind = "invite" => place[2] \in founded \cup {None} IN
       \/ ~exists /\ Refuse(c, "not_found")
       \/ /\ exists
          /\ ~MayWrite(r.actor, place[1], place[2], Allowed(r))
          /\ Refuse(c, "policy")
       \/ /\ exists
          /\ MayWrite(r.actor, place[1], place[2], Allowed(r))
          /\ IF r.kind = "promote" /\ call[c].row.visibility = "public"
             THEN Refuse(c, "ok")
             ELSE /\ GoOn(c, [call[c] EXCEPT !.stage = Ready(r, call[c].row)])
                  /\ UNCHANGED <<store, now, interventions>>

\* Slip: only the package where it is counts.
RetargetUnasked(c) ==
  /\ At(c, "retarget")
  /\ GoOn(c, [call[c] EXCEPT !.stage = "write"])
  /\ UNCHANGED <<store, now, interventions>>

\* update_package_settings_for_user also asks for the project it moves the package to.
Retarget(c) ==
  /\ At(c, "retarget")
  /\ LET r == Req(c) IN
       \/ /\ ~MayWrite(r.actor, OwnerOf[r.package], r.project, WriteRoles)
          /\ Refuse(c, "policy")
       \/ /\ MayWrite(r.actor, OwnerOf[r.package], r.project, WriteRoles)
          /\ GoOn(c, [call[c] EXCEPT !.stage = "write"])
          /\ UNCHANGED <<store, now, interventions>>

\* require_version_belongs_to_package.
Belongs(r) == r.version # None => VersionOf[r.version] = r.package

CheckVersion(c) ==
  /\ At(c, "version")
  /\ LET r == Req(c) IN
       \/ ~Belongs(r) /\ Refuse(c, "policy")
       \/ /\ Belongs(r)
          /\ GoOn(c, [call[c] EXCEPT !.stage =
                CASE r.kind = "upload" -> "write"
                  [] r.kind = "license" -> IF r.primary THEN "demote" ELSE "insert"])
          /\ UNCHANGED <<store, now, interventions>>
-------------------------------------------------------------------------------
\* VisibilityLimits::evaluate, with the clock of the API server and the row read before.
Precheck(c) ==
  /\ At(c, "precheck")
  /\ LET row == call[c].row IN
       \/ now - row.born > MaxAge /\ Refuse(c, "expired")
       \/ now - row.born <= MaxAge /\ row.downloads > MaxDownloads /\ Refuse(c, "popular")
       \/ /\ now - row.born <= MaxAge /\ row.downloads <= MaxDownloads
          /\ GoOn(c, [call[c] EXCEPT !.stage = "write"])
          /\ UNCHANGED <<store, now, interventions>>

\* zed_enforce_package_visibility_transition, under the row lock of its UPDATE.
Verdict(row, to, at) ==
  CASE row.visibility = "public" -> IF to = "public" THEN "ok" ELSE "permanent"
    [] row.visibility # "public" /\ to # "public" -> "ok"
    [] row.visibility # "public" /\ to = "public" ->
         IF at - row.born > MaxAge THEN "expired"
         ELSE IF row.downloads > MaxDownloads THEN "popular" ELSE "ok"

\* Slip: the time the transaction began, as in the trigger of an earlier release.
TransactionTime(c) == call[c].began

DecisionTime(c) == now

WriteVisibility(c) ==
  /\ At(c, "write") /\ Req(c).kind \in {"promote", "setVisibility"}
  /\ LET r == Req(c)
         to == IF r.kind = "promote" THEN "public" ELSE r.to
         row == packages[r.package]
         verdict == Verdict(row, to, DecisionTime(c)) IN
       \/ verdict # "ok" /\ Refuse(c, verdict)
       \/ /\ verdict = "ok"
          /\ packages' = [packages EXCEPT ![r.package] =
               [row EXCEPT !.visibility = to,
                  !.promoted = IF to = "public" /\ row.visibility # "public"
                               THEN [age |-> now - row.born, downloads |-> row.downloads]
                               ELSE @]]
          /\ Answer(c, "ok")
          /\ UNCHANGED <<users, founded, role, licences, uploads, invitations, now, interventions>>

\* record_download with zed_bump_download_counts.
WriteDownload(c) ==
  /\ At(c, "write") /\ Req(c).kind = "download"
  /\ LET p == Req(c).package IN
       \/ packages[p] = None /\ Refuse(c, "conflict")
       \/ /\ packages[p] # None
          /\ packages' = [packages EXCEPT ![p].downloads = @ + 1]
          /\ Answer(c, "ok")
          /\ UNCHANGED <<users, founded, role, licences, uploads, invitations, now, interventions>>

\* create_package and create_package_for_user: private, under the unique name and
\* the foreign key that ties the project to the organization.
WritePackage(c) ==
  /\ At(c, "write") /\ Req(c).kind = "createPackage"
  /\ LET r == Req(c)  org == OwnerOf[r.package]
         sound == /\ org \in founded /\ packages[r.package] = None /\ users[r.actor] # None
                  /\ r.project # None => r.project \in founded /\ HomeOf[r.project] = org IN
       \/ ~sound /\ Refuse(c, "conflict")
       \/ /\ sound
          /\ packages' = [packages EXCEPT ![r.package] =
               [project |-> r.project, visibility |-> "private", born |-> now, downloads |-> 0,
                promoted |-> None]]
          /\ AnswerAndDisturb(c, "ok")
          /\ UNCHANGED <<users, founded, role, licences, uploads, invitations, now, interventions>>

WriteSettings(c) ==
  /\ At(c, "write") /\ Req(c).kind = "settings"
  /\ LET r == Req(c) IN
       /\ packages' = [packages EXCEPT ![r.package].project = r.project]
       /\ AnswerAndDisturb(c, "ok")
  /\ UNCHANGED <<users, founded, role, licences, uploads, invitations, now, interventions>>

WriteUpload(c) ==
  /\ At(c, "write") /\ Req(c).kind = "upload"
  /\ uploads' = uploads \cup {[by |-> c, package |-> Req(c).package, version |-> Req(c).version]}
  /\ Answer(c, "ok")
  /\ UNCHANGED <<users, founded, role, packages, licences, invitations, now, interventions>>

\* create_org, create_project and create_project_for_user: the row and its owner.
WriteTarget(c) ==
  /\ At(c, "write") /\ Req(c).kind \in {"createOrg", "createProject"}
  /\ LET r == Req(c)
         t == IF r.kind = "createOrg" THEN r.org ELSE r.project
         sound == /\ t \notin founded /\ users[r.actor] # None
                  /\ r.kind = "createProject" => HomeOf[t] \in founded IN
       \/ ~sound /\ Refuse(c, "conflict")
       \/ /\ sound
          /\ founded' = founded \cup {t}
          /\ role' = [role EXCEPT ![t][r.actor] = "owner"]
          /\ AnswerAndDisturb(c, "ok")
          /\ UNCHANGED <<users, packages, licences, uploads, invitations, now, interventions>>
-------------------------------------------------------------------------------
\* Licences: a row per call; the first statement demotes, the second inserts.
Scope(l) == <<l.package, l.version>>
ScopeOf(c) == <<Req(c).package, Req(c).version>>
Primaries(scope) == {l \in licences : Scope(l) = scope /\ l.primary}

\* The demotion's snapshot of the scope.
StartDemotion(c) ==
  /\ At(c, "demote")
  /\ GoOn(c, [call[c] EXCEPT !.stage = "insert", !.seen = Primaries(ScopeOf(c))])
  /\ UNCHANGED <<store, now, interventions>>

\* It waits for row locks, and skips what was demoted meanwhile.
LockPrimaries(c) ==
  /\ At(c, "insert") /\ call[c].seen # {}
  /\ \A d \in Callers \ {c} : call[d].held \cap call[c].seen = {}
  /\ GoOn(c, [call[c] EXCEPT !.seen = {}, !.held = call[c].seen \cap licences])
  /\ UNCHANGED <<store, now, interventions>>

\* The insertion meets the partial unique index, then commits with the demotion.
\* Slip: no unique index over the primary licences.
NeverClashes(c) == FALSE

Clash(c) == Req(c).primary /\ Primaries(ScopeOf(c)) \ call[c].held # {}

InsertLicense(c) ==
  /\ At(c, "insert") /\ call[c].seen = {}
  /\ LET r == Req(c) IN
       \/ Clash(c) /\ Refuse(c, "conflict")
       \/ /\ ~Clash(c)
          /\ licences' = (licences \ call[c].held)
                           \cup {[l EXCEPT !.primary = FALSE] : l \in call[c].held}
                           \cup {[by |-> c, package |-> r.package, version |-> r.version,
                                  primary |-> r.primary, asked |-> r.primary]}
          /\ Answer(c, "ok")
          /\ UNCHANGED <<users, founded, role, packages, uploads, invitations, now, interventions>>
-------------------------------------------------------------------------------
\* The unique index over (org or project, address) of invitations not yet used or
\* revoked, which expiry does not leave, and the unique token of each table.
SameTable(s, t) == (s \in Orgs) = (t \in Orgs)
Blocked(r) ==
  \E i \in Invitations : LET o == invitations[i] IN
    /\ o # None
    /\ \/ o.target = r.target /\ o.email = r.email /\ o.by = None /\ ~o.revoked
       \/ o.token = r.token /\ SameTable(o.target, r.target)

\* invite_org_member_for_user, invite_project_member_for_user and invite_to_org.
WriteInvitation(c) ==
  /\ At(c, "write") /\ Req(c).kind = "invite"
  /\ LET r == Req(c)
         sound == /\ r.role \in InvitableRoles /\ r.target \in founded
                  /\ users[r.actor] # None /\ ~Blocked(r) /\ invitations[r.inv] = None IN
       \/ ~sound /\ Refuse(c, "conflict")
       \/ /\ sound
          /\ invitations' = [invitations EXCEPT ![r.inv] =
               [target |-> r.target, email |-> r.email, role |-> r.role, token |-> r.token,
                expires |-> r.expires, by |-> None, revoked |-> FALSE]]
          /\ Answer(c, "ok")
          /\ UNCHANGED <<users, founded, role, packages, licences, uploads, now, interventions>>

\* upsert_user_from_session: looks for the row ...
Login(c) ==
  /\ At(c, "login")
  /\ GoOn(c, [call[c] EXCEPT !.stage = "enrol", !.row = users[Req(c).actor]])
  /\ UNCHANGED <<store, now, interventions>>

\* ... and then updates or inserts it, by itself, under the unique subject and
\* address; the acceptance takes its time stamp afterwards.
Enrol(c) ==
  /\ At(c, "enrol")
  /\ LET r == Req(c)
         taken == \/ \E u \in Users \ {r.actor} : users[u] = r.email
                  \/ call[c].row = None /\ users[r.actor] # None IN
       \/ taken /\ Refuse(c, "conflict")
       \/ /\ ~taken
          /\ users' = [users EXCEPT ![r.actor] = r.email]
          /\ GoOn(c, [call[c] EXCEPT !.stage = "lookup", !.began = now])
          /\ UNCHANGED <<founded, role, packages, licences, uploads, invitations, now, interventions>>

\* Slip: an invitation that was revoked still counts.
LiveThoughRevoked(o, at) == o.by = None /\ o.expires > at

Live(o, at) == o.by = None /\ ~o.revoked /\ o.expires > at

\* Exactly one live invitation of the two tables has the token, and this address.
Lookup(c) ==
  /\ At(c, "lookup")
  /\ LET r == Req(c)
         found == {i \in Invitations : /\ invitations[i] # None
                                       /\ invitations[i].token = r.token
                                       /\ Live(invitations[i], call[c].began)}
         mine == {i \in found : invitations[i].email = r.email} IN
       \/ /\ Cardinality(found) # 1 \/ mine = {}
          /\ Refuse(c, "not_found")
       \/ /\ Cardinality(found) = 1
          /\ \E i \in mine : GoOn(c, [call[c] EXCEPT !.stage = "consume", !.inv = i])
          /\ UNCHANGED <<store, now, interventions>>

\* consume_once, then the membership: exec of an insertion that ON CONFLICT DO NOTHING
\* skips is an error, so that a member's acceptance is rolled back and the invitation
\* stays open.
Consume(c) ==
  /\ At(c, "consume")
  /\ LET r == Req(c)  i == call[c].inv  o == invitations[i] IN
       \/ ~Live(o, call[c].began) /\ Refuse(c, "not_found")
       \/ Live(o, call[c].began) /\ role[o.target][r.actor] # None /\ Refuse(c, "conflict")
       \/ /\ Live(o, call[c].began) /\ role[o.target][r.actor] = None
          /\ invitations' = [invitations EXCEPT ![i].by = r.actor]
          /\ role' = [role EXCEPT ![o.target][r.actor] = o.role]
          /\ AnswerAndDisturb(c, "ok")
          /\ UNCHANGED <<users, founded, packages, licences, uploads, now, interventions>>
-------------------------------------------------------------------------------
\* What the schema leaves to operators and to services beside this library.
Appoint(t, u, r) ==
  /\ interventions < MaxInterventions
  /\ t \in founded /\ users[u] # None /\ role[t][u] # r
  /\ role' = [role EXCEPT ![t][u] = r]
  /\ call' = Disturb(call)
  /\ interventions' = interventions + 1
  /\ UNCHANGED <<users, founded, packages, licences, uploads, invitations, now>>

Revoke(i) ==
  /\ interventions < MaxInterventions
  /\ invitations[i] # None
  /\ invitations[i].by = None /\ ~invitations[i].revoked
  /\ invitations' = [invitations EXCEPT ![i].revoked = TRUE]
  /\ interventions' = interventions + 1
  /\ UNCHANGED <<users, founded, role, packages, licences, uploads, call, now>>

Tick ==
  /\ now < MaxNow
  /\ now' = now + 1
  /\ UNCHANGED <<store, call, interventions>>

Step(c) ==
  \/ Begin(c) \/ Fail(c) \/ FindPackage(c) \/ Authorise(c) \/ Retarget(c) \/ CheckVersion(c)
  \/ Precheck(c) \/ WriteVisibility(c) \/ WriteDownload(c) \/ WritePackage(c) \/ WriteSettings(c)
  \/ WriteUpload(c) \/ WriteTarget(c) \/ StartDemotion(c) \/ LockPrimaries(c) \/ InsertLicense(c)
  \/ WriteInvitation(c) \/ Login(c) \/ Enrol(c) \/ Lookup(c) \/ Consume(c)

ControlNext ==
  \/ \E c \in Callers : Step(c)
  \/ \E a \in Appointments : Appoint(a[1], a[2], a[3])
  \/ \E i \in Invitations : Revoke(i)
  \/ Tick

ControlSpec == ControlInit /\ [][ControlNext]_controlVars
-------------------------------------------------------------------------------
\* The rows and transactions have their types.
ControlTypeOK ==
  /\ users \in [Users -> Emails \cup {None}]
  /\ founded \subseteq Targets
  /\ role \in [Targets -> [Users -> Roles \cup {None}]]
  /\ packages \in [Packages -> Row \cup {None}]
  /\ \A p \in Packages : packages[p] # None => packages[p].born <= now
  /\ licences \subseteq Licence
  /\ invitations \in [Invitations -> Invitation \cup {None}]
  /\ \A c \in Callers : call[c].stage \in Stages /\ call[c].result \in Results
  /\ now \in 0..MaxNow /\ interventions \in 0..MaxInterventions

\* The memberships and invitations of account.rs, write.rs and invitations.rs are a
\* Membership: founders own what they found, and one invitation, addressed to its
\* user and still open, gives one role once, to someone who has none there.
State(o) == IF o.by # None THEN "used" ELSE IF o.revoked THEN "revoked" ELSE "open"
Offers == [i \in Invitations |->
  IF invitations[i] = None THEN None
  ELSE [target |-> invitations[i].target, email |-> invitations[i].email,
        role |-> invitations[i].role, state |-> State(invitations[i])]]
Grants == INSTANCE Membership WITH offer <- Offers
MembershipSpec == Grants!Spec

\* What set_package_visibility and make_package_public_for_user answer is true of the
\* database, then and later, although they decide on a row they read without a lock:
\* a package announced as public stays public, a refusal names a limit that is
\* exceeded, and a promotion happened within both limits by the clock of that moment.
PromotionAnswersTrue ==
  /\ \A p \in Packages : packages[p] # None /\ packages[p].promoted # None =>
       /\ packages[p].visibility = "public"
       /\ packages[p].promoted.age <= MaxAge
       /\ packages[p].promoted.downloads <= MaxDownloads
  /\ \A c \in Callers : At(c, "done") /\ Req(c).kind \in {"promote", "setVisibility"} =>
       LET row == packages[Req(c).package]
           public == Req(c).kind = "promote" \/ Req(c).to = "public" IN
         CASE call[c].result = "ok" /\ public -> row.visibility = "public"
           [] call[c].result = "permanent" -> row.visibility = "public"
           [] call[c].result = "expired" -> now - row.born > MaxAge
           [] call[c].result = "popular" -> row.downloads > MaxDownloads
           [] OTHER -> TRUE

\* A scope (a package or one of its versions) that was ever given a primary licence
\* has exactly one, however the demotions and insertions of add_package_license
\* interleave: never two, and never none.
PrimaryKept ==
  \A l \in licences : l.asked => Cardinality(Primaries(Scope(l))) = 1

\* Unless roles or a package's project changed while the call ran, whoever was
\* answered "ok" by an account call holds, at its commit, a sufficient role for
\* all it touched: the package where it is, the project it goes to, the target.
Rank(u, t) == IF t = None \/ role[t][u] = None THEN 0 ELSE RoleRank[role[t][u]]
Best(u, place) == {Rank(u, place[1]), Rank(u, place[2])}
Needs(r) == IF r.kind \in {"createProject", "invite", "promote"} THEN 3 ELSE 2
Touched(r) ==
  LET row == IF r.kind \in OnPackage THEN packages[r.package] ELSE None IN
  {Place(r, row)} \cup (IF r.kind = "settings" THEN {<<OwnerOf[r.package], r.project>>} ELSE {})
Entitled(r) ==
  \A place \in Touched(r) : \E n \in Best(r.actor, place) : n >= Needs(r)
AuthorisedWhenCalm ==
  [][\A c \in Callers :
       /\ ~At(c, "done") /\ call'[c].stage = "done" /\ call'[c].result = "ok"
       /\ Req(c).kind # "accept" /\ Req(c).checked /\ call[c].calm
       => Entitled(Req(c))]_controlVars
===============================================================================

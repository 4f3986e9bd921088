------------------------------ MODULE Membership ------------------------------
(* What the account control plane promises about who holds which role: a role   *)
(* comes from founding the organization or project, from one open invitation    *)
(* addressed to that person, or from an operator; an invitation is used at most *)
(* once, never after it was revoked, and never by a member: it changes no role. *)
CONSTANTS Targets, Users, Roles, Invitations, Identities, None

VARIABLES
  role,      \* role[t][u]: the role of u in the organization or project t
  founded,   \* the organizations and projects that exist
  offer      \* offer[i]: what invitation i grants to whom, and whether it is open

membershipVars == <<role, founded, offer>>

Init ==
  /\ founded \subseteq Targets
  /\ role \in [Targets -> [Users -> Roles \cup {None}]]
  /\ offer = [i \in Invitations |-> None]

\* A founder becomes the owner in the step that creates the target.
Found(t, u) ==
  /\ t \notin founded
  /\ founded' = founded \cup {t}
  /\ role' = [role EXCEPT ![t][u] = "owner"]
  /\ UNCHANGED offer

Issue(i, t, email, r) ==
  /\ offer[i] = None
  /\ t \in founded
  /\ r # "owner"
  /\ offer' = [offer EXCEPT ![i] = [target |-> t, email |-> email, role |-> r, state |-> "open"]]
  /\ UNCHANGED <<role, founded>>

\* Only the person the invitation is addressed to, who is not a member already.
Accept(i, u) ==
  /\ offer[i] # None
  /\ offer[i].state = "open"
  /\ offer[i].email \in Identities[u]
  /\ role[offer[i].target][u] = None
  /\ offer' = [offer EXCEPT ![i].state = "used"]
  /\ role' = [role EXCEPT ![offer[i].target][u] = offer[i].role]
  /\ UNCHANGED founded

Appoint(t, u, r) ==
  /\ t \in founded
  /\ role' = [role EXCEPT ![t][u] = r]
  /\ UNCHANGED <<founded, offer>>

Revoke(i) ==
  /\ offer[i] # None
  /\ offer[i].state = "open"
  /\ offer' = [offer EXCEPT ![i].state = "revoked"]
  /\ UNCHANGED <<role, founded>>

Emails == UNION {Identities[u] : u \in Users}

Next ==
  \/ \E t \in Targets, u \in Users : Found(t, u)
  \/ \E i \in Invitations, t \in Targets, e \in Emails, r \in Roles : Issue(i, t, e, r)
  \/ \E i \in Invitations, u \in Users : Accept(i, u)
  \/ \E t \in Targets, u \in Users, r \in Roles \cup {None} : Appoint(t, u, r)
  \/ \E i \in Invitations : Revoke(i)

Spec == Init /\ [][Next]_membershipVars
===============================================================================

---------------------------- MODULE LockService ----------------------------
(***************************************************************************)
(* What zed-lock promises its callers, with no word on how: a request is   *)
(* asked for, and is later either given the lock of its path or turned     *)
(* away (refused, failed, timed out, abandoned).  A path is given to one   *)
(* request at a time, over all processes.  ZedLock implements this.        *)
(***************************************************************************)
CONSTANTS Requests,   \* one lock request of one caller
          Paths,      \* canonical lock identities
          NoRequest   \* "nobody owns this path"

VARIABLES want,    \* the path each request is about
          status,  \* "idle", "asked", "owning", "over"
          owner    \* the request whose caller has the guard of a path
vars == <<want, status, owner>>

TypeOK == /\ want \in [Requests -> Paths]
          /\ status \in [Requests -> {"idle", "asked", "owning", "over"}]
          /\ owner \in [Paths -> Requests \cup {NoRequest}]

Init == /\ want \in [Requests -> Paths]
        /\ status = [r \in Requests |-> "idle"]
        /\ owner = [p \in Paths |-> NoRequest]

Ask(r) == /\ status[r] = "idle"
          /\ status' = [status EXCEPT ![r] = "asked"]
          /\ UNCHANGED <<want, owner>>

Deliver(r) == /\ status[r] = "asked"
              /\ owner[want[r]] = NoRequest
              /\ status' = [status EXCEPT ![r] = "owning"]
              /\ owner' = [owner EXCEPT ![want[r]] = r]
              /\ UNCHANGED want

Refuse(r) == /\ status[r] \in {"idle", "asked"}
             /\ status' = [status EXCEPT ![r] = "over"]
             /\ UNCHANGED <<want, owner>>

Release(r) == /\ status[r] = "owning"
              /\ status' = [status EXCEPT ![r] = "over"]
              /\ owner' = [owner EXCEPT ![want[r]] = NoRequest]
              /\ UNCHANGED want

\* A process dies: all that its requests wanted or owned is over at once.
Die(S) == /\ \A r \in S : status[r] # "idle"
          /\ status' = [r \in Requests |-> IF r \in S THEN "over" ELSE status[r]]
          /\ owner' = [p \in Paths |-> IF owner[p] \in S THEN NoRequest ELSE owner[p]]
          /\ UNCHANGED want

Next == \/ \E r \in Requests : Ask(r) \/ Deliver(r) \/ Refuse(r) \/ Release(r)
        \/ \E S \in SUBSET Requests : Die(S)

Spec == Init /\ [][Next]_vars

(* Two callers never own the same path: what every user of the lock file   *)
(* relies on.                                                              *)
AtMostOneOwner ==
    \A r, s \in Requests :
        (status[r] = "owning" /\ status[s] = "owning" /\ want[r] = want[s]) => r = s
=============================================================================

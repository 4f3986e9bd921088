------------------------------ MODULE OnceStores ------------------------------
(* The two idempotent stores: insert_public_intake_submission of rust-orm and   *)
(* record_action of admin-orm, each over its own table. A request is             *)
(*   [store, key, content, email]:                                               *)
(* for the intake, key is request_id, content <<body digest, kind, host>> and    *)
(* email the keyed fingerprint; for the admin store, key is idempotency_key,     *)
(* content <<actor, session, resource, action, reason>> and email is Nobody.     *)
(* A call is one READ COMMITTED transaction, split at its statements; an         *)
(* INSERT ... ON CONFLICT DO NOTHING waits for a transaction that inserted a     *)
(* conflicting row and has not ended.                                            *)
EXTENDS Naturals

CONSTANTS Clients, Nobody, Asked  \* Asked: what the callers ask, a set of functions

VARIABLES
  asked,    \* the request of each caller, or Nobody
  stage,    \* where its transaction is
  rows,     \* the committed rows, by the caller they came from
  outbox,   \* admin_action_outbox, by caller
  answers

storeVars == <<asked, stage, rows, outbox, answers>>

StoreStart(a) ==
  /\ asked = a
  /\ stage = [c \in Clients |-> IF a[c] = Nobody THEN "done" ELSE "insert"]
  /\ rows = {} /\ outbox = {}
  /\ answers = [c \in Clients |-> Nobody]

StoreInit == \E a \in Asked : StoreStart(a)
-------------------------------------------------------------------------------
\* The unique constraints: the key, and for the intake the fingerprint with the kind.
SameKey(r, s) == r.store = s.store /\ r.key = s.key
SameEmail(r, s) ==
  /\ r.store = "intake" /\ s.store = "intake"
  /\ r.email = s.email /\ r.content[2] = s.content[2]
Conflicts(r, s) == SameKey(r, s) \/ SameEmail(r, s)

Pending == {c \in Clients : stage[c] \in {"outbox", "commit"}}
Goto(c, next) == stage' = [stage EXCEPT ![c] = next]
Reply(c, answer) == Goto(c, "done") /\ answers' = [answers EXCEPT ![c] = answer]

Insert(c) ==
  /\ stage[c] = "insert"
  /\ \A d \in Pending : ~Conflicts(asked[c], asked[d])
  /\ IF \E d \in rows : Conflicts(asked[c], asked[d])
     THEN Goto(c, "existing")
     ELSE Goto(c, IF asked[c].store = "admin" THEN "outbox" ELSE "commit")
  /\ UNCHANGED <<asked, rows, outbox, answers>>

\* The second statement of a call whose row was not inserted, by key alone; the
\* columns it compares.
Existing(c) == {d \in rows : SameKey(asked[c], asked[d])}

\* Slip: the key alone makes it a replay.
LookUpByKey(c) ==
  /\ stage[c] = "existing"
  /\ \/ \E d \in Existing(c) : Reply(c, <<"again", d>>)
     \/ Existing(c) = {} /\ Reply(c, <<"conflict">>)
  /\ UNCHANGED <<asked, rows, outbox>>

LookUp(c) ==
  /\ stage[c] = "existing"
  /\ \/ \E d \in Existing(c) :
          Reply(c, IF asked[d].content = asked[c].content THEN <<"again", d>> ELSE <<"conflict">>)
     \/ /\ Existing(c) = {}
        /\ Reply(c, IF asked[c].store = "intake" THEN <<"again", c>> ELSE <<"conflict">>)
  /\ UNCHANGED <<asked, rows, outbox>>

\* The event of an action, inside the transaction of its row.
Announce(c) ==
  /\ stage[c] = "outbox"
  /\ Goto(c, "commit")
  /\ UNCHANGED <<asked, rows, outbox, answers>>

\* The commit publishes the row and its event; its acknowledgement may be lost.
Published(c) == IF asked[c].store = "admin" THEN outbox \cup {c} ELSE outbox

Commit(c) ==
  /\ stage[c] = "commit"
  /\ rows' = rows \cup {c}
  /\ outbox' = Published(c)
  /\ Reply(c, <<"first", c>>) \/ Reply(c, <<"lost">>)
  /\ UNCHANGED asked

\* A statement fails or the future is dropped: what was inserted is rolled back.
Drop(c) ==
  /\ stage[c] # "done"
  /\ Reply(c, <<"lost">>)
  /\ UNCHANGED <<asked, rows, outbox>>

StoreNext == \E c \in Clients : Insert(c) \/ LookUp(c) \/ Announce(c) \/ Commit(c) \/ Drop(c)

StoreSpec == StoreInit /\ [][StoreNext]_storeVars
-------------------------------------------------------------------------------
\* Both stores are once-only: retries and races of one key leave one row and, for an
\* action, one event, and every answer names the row the key has.
Promise == INSTANCE OnceOnly WITH
  requests <- asked, records <- rows, events <- outbox,
  Matches <- LAMBDA r, s : r.content = s.content,
  Shares <- SameEmail, Announced <- LAMBDA r : r.store = "admin"
OnceOnlySpec == Promise!Spec
===============================================================================

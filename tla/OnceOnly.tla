------------------------------- MODULE OnceOnly -------------------------------
(* What an idempotent store promises its callers: the first request of a key is *)
(* recorded together with its one event, a repetition with the same content is  *)
(* answered with that record, one with another content is refused, and one that *)
(* shares a second, hidden key is answered like a repetition and leaves nothing.*)
CONSTANTS Clients, SameKey(_, _), Matches(_, _), Shares(_, _), Announced(_), Nobody

VARIABLES
  requests, \* requests[c]: what c asks, or Nobody
  records,  \* the requests that were recorded, by the caller each came from
  events,   \* the callers whose request was announced
  answers   \* answers[c]: what c was told

onceVars == <<requests, records, events, answers>>

Init == records = {} /\ events = {} /\ answers = [c \in Clients |-> Nobody]

Tell(c, answer) == answers' = [answers EXCEPT ![c] = answer]
Same(c) == {d \in records : SameKey(requests[c], requests[d])}

\* The record and its event are one; the answer may be lost on its way.
First(c) ==
  /\ answers[c] = Nobody
  /\ Same(c) = {} /\ \A d \in records : ~Shares(requests[c], requests[d])
  /\ records' = records \cup {c}
  /\ events' = events \cup (IF Announced(requests[c]) THEN {c} ELSE {})
  /\ Tell(c, <<"first", c>>) \/ Tell(c, <<"lost">>)
  /\ UNCHANGED requests

Again(c) ==
  /\ answers[c] = Nobody
  /\ \E d \in Same(c) : Matches(requests[c], requests[d]) /\ Tell(c, <<"again", d>>)
  /\ UNCHANGED <<requests, records, events>>

Hidden(c) ==
  /\ answers[c] = Nobody
  /\ Same(c) = {} /\ \E d \in records : Shares(requests[c], requests[d])
  /\ Tell(c, <<"again", c>>)
  /\ UNCHANGED <<requests, records, events>>

Refuse(c) ==
  /\ answers[c] = Nobody
  /\ \E d \in Same(c) : ~Matches(requests[c], requests[d])
  /\ Tell(c, <<"conflict">>)
  /\ UNCHANGED <<requests, records, events>>

Fail(c) == answers[c] = Nobody /\ Tell(c, <<"lost">>) /\ UNCHANGED <<requests, records, events>>

Next ==
  \E c \in {d \in Clients : requests[d] # Nobody} :
    First(c) \/ Again(c) \/ Hidden(c) \/ Refuse(c) \/ Fail(c)

Spec == Init /\ [][Next]_onceVars
===============================================================================

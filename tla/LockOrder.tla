----------------------------- MODULE LockOrder -----------------------------
(***************************************************************************)
(* The lock hierarchy of src/rust-lock/lib.rs: what keeps threads of       *)
(* several processes that nest locks, or take them in sets, from waiting   *)
(* for each other in a circle.  check_lock_order compares a request with   *)
(* the thread-local list HELD_LOCK_ORDER of the calling thread, which      *)
(* acquire_blocking extends after the grant and the drop of a guard        *)
(* shortens, on the thread that drops it; acquire_many_blocking sorts its  *)
(* requests first and unwinds what it has in reverse when one fails.       *)
(*                                                                         *)
(* All requests use SameProcessPolicy::Reject.  How a single request waits *)
(* is module ZedLock's subject; here a request waits, and is granted.      *)
(***************************************************************************)
EXTENDS Naturals, Sequences

CONSTANTS Threads, Procs,
          ProcessOf,    \* the process of each thread
          Keys,         \* [rank, path] of the requests threads may make
          NoKey, Nobody,
          Workers,      \* may threads use acquire(..).wait() (a LockWaiter)?
          Moves,        \* may a guard be moved to another thread?
          MaxStale      \* bound on registrations of one key left by moves

MaxRank == 65535        \* LockClass::rank is a u16
Ranks == 0 .. MaxRank

ASSUME KeysAssumption == Keys \subseteq [rank : Ranks, path : Nat]
ASSUME ThreadsAssumption == ProcessOf \in [Threads -> Procs]
ASSUME NamesAssumption == /\ NoKey \notin Keys
                          /\ Nobody \notin Threads
                          /\ Workers \in BOOLEAN /\ Moves \in BOOLEAN

\* (rank, path) < (rank, path)
Below(k, l) == k.rank < l.rank \/ (k.rank = l.rank /\ k.path < l.path)

VARIABLES
    guard,    \* the thread that has the LockGuard asked for under a key
    held,     \* HELD_LOCK_ORDER of each thread: how often each key is in it
    wants,    \* the key a thread waits for
    mode,     \* what the thread is in the middle of
    todo,     \* acquire_many_blocking: the requests yet to make
    got       \* the guards of the LockSetGuard, in the order acquired
vars == <<guard, held, wants, mode, todo, got>>

TypeOK == /\ guard \in [Keys -> Threads \cup {Nobody}]
          /\ held \in [Threads -> [Keys -> Nat]]
          /\ wants \in [Threads -> Keys \cup {NoKey}]
          /\ mode \in [Threads -> {"running", "blocking", "worker", "set", "unwinding"}]
          /\ todo \in [Threads -> SUBSET Keys]
          /\ got \in [Threads -> Seq(Keys)]

Init == /\ guard = [k \in Keys |-> Nobody]
        /\ held = [t \in Threads |-> [k \in Keys |-> 0]]
        /\ wants = [t \in Threads |-> NoKey]
        /\ mode = [t \in Threads |-> "running"]
        /\ todo = [t \in Threads |-> {}]
        /\ got = [t \in Threads |-> <<>>]
-----------------------------------------------------------------------------
\* The kernel knows paths only: a path is free if no key of it has a guard.
Free(k) == \A l \in Keys : l.path = k.path => guard[l] = Nobody

\* check_lock_order fails: something in the list is above the candidate.
Inversion(t, k) == \E l \in Keys : held[t][l] > 0 /\ Below(k, l)

\* Slip: only owners count, not the requests that wait.
ReservedByOwner(t, k) ==
    \E u \in Threads : /\ ProcessOf[u] = ProcessOf[t]
                       /\ \E l \in Keys : l.path = k.path /\ guard[l] = u

\* reserve_if_required fails: a thread of the process has it or waits for it.
Reserved(t, k) ==
    \E u \in Threads : /\ ProcessOf[u] = ProcessOf[t]
                       /\ \/ \E l \in Keys : l.path = k.path /\ guard[l] = u
                          \/ wants[u] # NoKey /\ wants[u].path = k.path

Enter(t, m) == mode' = [mode EXCEPT ![t] = m]
Register(t, k) == held' = [held EXCEPT ![t][k] = @ + 1]
\* Slip: the drop of a guard registered by another thread underflows.
UnregisterUnchecked(t, k) == held' = [held EXCEPT ![t][k] = @ - 1]
Unregister(t, k) == held' = [held EXCEPT ![t][k] = IF @ > 0 THEN @ - 1 ELSE 0]

\* Slip: no check_lock_order.
AcquireBlockingUnordered(t, k) ==
    /\ mode[t] = "running" /\ ~Reserved(t, k)
    /\ wants' = [wants EXCEPT ![t] = k]
    /\ Enter(t, "blocking")
    /\ UNCHANGED <<guard, held, todo, got>>

\* A request that is refused, for its order or its reservation, changes
\* nothing; the order is checked first.
AcquireBlocking(t, k) ==
    /\ mode[t] = "running"
    /\ ~Inversion(t, k) /\ ~Reserved(t, k)
    /\ wants' = [wants EXCEPT ![t] = k]
    /\ Enter(t, "blocking")
    /\ UNCHANGED <<guard, held, todo, got>>

\* acquire(..).wait(): a fresh thread, whose list is empty, asks in its place.
AcquireByWorker(t, k) ==
    /\ Workers
    /\ mode[t] = "running" /\ ~Reserved(t, k)
    /\ wants' = [wants EXCEPT ![t] = k]
    /\ Enter(t, "worker")
    /\ UNCHANGED <<guard, held, todo, got>>

\* The kernel grants; the key enters the list of the thread that asked it.
Granted(t) ==
    LET k == wants[t] IN
    /\ k # NoKey /\ Free(k)
    /\ guard' = [guard EXCEPT ![k] = t]
    /\ wants' = [wants EXCEPT ![t] = NoKey]
    /\ IF mode[t] = "worker" THEN UNCHANGED held ELSE Register(t, k)
    /\ IF mode[t] = "set"
       THEN /\ todo' = [todo EXCEPT ![t] = @ \ {k}]
            /\ got' = [got EXCEPT ![t] = Append(@, k)]
            /\ Enter(t, IF todo[t] = {k} THEN "running" ELSE "set")
       ELSE Enter(t, "running") /\ UNCHANGED <<todo, got>>

\* Slip: the list is not shortened.
DropStaysRegistered(t, k) ==
    /\ guard' = [guard EXCEPT ![k] = Nobody]
    /\ UNCHANGED held

\* A drop by the thread that has the guard: unlock, then shorten its list.
Drop(t, k) ==
    /\ guard' = [guard EXCEPT ![k] = Nobody]
    /\ Unregister(t, k)

InSet(t, k) == \E i \in DOMAIN got[t] : got[t][i] = k

DropGuard(t, k) ==
    /\ mode[t] = "running" /\ guard[k] = t /\ ~InSet(t, k)
    /\ Drop(t, k)
    /\ UNCHANGED <<wants, mode, todo, got>>

MoveGuard(t, u, k) ==
    /\ Moves /\ t # u /\ ProcessOf[t] = ProcessOf[u]
    /\ mode[t] = "running" /\ guard[k] = t /\ ~InSet(t, k)
    /\ held[t][k] <= MaxStale
    /\ guard' = [guard EXCEPT ![k] = u]
    /\ UNCHANGED <<held, wants, mode, todo, got>>
-----------------------------------------------------------------------------
(* acquire_many_blocking and LockSetGuard, one set of a thread at a time.  *)

\* A canonical path that occurs twice refuses the whole set.
NoDuplicates(S) == \A k, l \in S : k.path = l.path => k = l

AcquireMany(t, S) ==
    /\ mode[t] = "running" /\ got[t] = <<>>
    /\ S # {} /\ NoDuplicates(S)
    /\ todo' = [todo EXCEPT ![t] = S]
    /\ Enter(t, "set")
    /\ UNCHANGED <<guard, held, wants, got>>

\* Slip: no sort.
IsNextAsListed(k, S) == k \in S

\* The requests are made in sorted order.
IsNext(k, S) == k \in S /\ \A l \in S : ~Below(l, k)

\* Slip: the members of a set are checked against each other only.
SetNextUnordered(t, k) ==
    /\ mode[t] = "set" /\ wants[t] = NoKey /\ IsNext(k, todo[t])
    /\ ~Reserved(t, k)
    /\ wants' = [wants EXCEPT ![t] = k]
    /\ UNCHANGED <<guard, held, mode, todo, got>>

SetNext(t, k) ==
    /\ mode[t] = "set" /\ wants[t] = NoKey /\ IsNext(k, todo[t])
    /\ ~Inversion(t, k) /\ ~Reserved(t, k)
    /\ wants' = [wants EXCEPT ![t] = k]
    /\ UNCHANGED <<guard, held, mode, todo, got>>

\* One request is refused (Inversion, Reserved) or fails to open: give back what there is.
SetFails(t, k) ==
    /\ mode[t] = "set" /\ wants[t] = NoKey /\ IsNext(k, todo[t])
    /\ todo' = [todo EXCEPT ![t] = {}]
    /\ Enter(t, IF got[t] = <<>> THEN "running" ELSE "unwinding")
    /\ UNCHANGED <<guard, held, wants, got>>

DropSet(t) ==
    /\ mode[t] = "running" /\ got[t] # <<>>
    /\ Enter(t, "unwinding")
    /\ UNCHANGED <<guard, held, wants, todo, got>>

\* Slip: released in the order acquired.
UnwindFirst(t) ==
    /\ mode[t] = "unwinding" /\ got[t] # <<>>
    /\ Drop(t, Head(got[t]))
    /\ got' = [got EXCEPT ![t] = Tail(@)]
    /\ Enter(t, IF Len(got[t]) = 1 THEN "running" ELSE "unwinding")
    /\ UNCHANGED <<wants, todo>>

\* unwind_in_reverse pops the guard acquired last and drops it.
UnwindOne(t) ==
    LET last == got[t][Len(got[t])] IN
    /\ mode[t] = "unwinding" /\ got[t] # <<>>
    /\ Drop(t, last)
    /\ got' = [got EXCEPT ![t] = SubSeq(@, 1, Len(@) - 1)]
    /\ Enter(t, IF Len(got[t]) = 1 THEN "running" ELSE "unwinding")
    /\ UNCHANGED <<wants, todo>>

Step(t) ==
    \/ \E k \in Keys : \/ AcquireBlocking(t, k) \/ AcquireByWorker(t, k)
                       \/ SetNext(t, k) \/ SetFails(t, k) \/ DropGuard(t, k)
                       \/ \E u \in Threads : MoveGuard(t, u, k)
    \/ \E S \in SUBSET Keys : AcquireMany(t, S)
    \/ Granted(t) \/ DropSet(t) \/ UnwindOne(t)

Next == \E t \in Threads : Step(t)
Spec == Init /\ [][Next]_vars
-----------------------------------------------------------------------------
(* No set of threads, of whatever processes, waits for each other: each    *)
(* for a guard that another of them has.                                   *)
WaitsFor(t, u) == /\ wants[t] # NoKey
                  /\ \E l \in Keys : l.path = wants[t].path /\ guard[l] = u
NoDeadlock ==
    \A D \in (SUBSET Threads) \ {{}} : \E t \in D : \A u \in D : ~WaitsFor(t, u)

(* The list of a thread is what the thread has.                            *)
ListMatchesGuards ==
    \A t \in Threads, k \in Keys : held[t][k] = IF guard[k] = t THEN 1 ELSE 0

(* A path has one guard at a time, under whichever class it was asked for; *)
(* and a thread never waits for a guard of its own process: the            *)
(* reservations make every wait one for another process.                   *)
WaitsForOthersOnly ==
    /\ \A k, l \in Keys : (k.path = l.path /\ guard[k] # Nobody /\ guard[l] # Nobody)
                              => k = l
    /\ \A t, u \in Threads : WaitsFor(t, u) => ProcessOf[t] # ProcessOf[u]

(* A lock set is released in the reverse of the lock order, when it is     *)
(* dropped and when one of its requests fails: no member is given up while *)
(* a more specific one of the set is still held.                           *)
SetsUnwindDownward ==
    [][\A t \in Threads, k \in Keys :
          (guard[k] = t /\ InSet(t, k) /\ guard'[k] = Nobody)
              => \A i \in DOMAIN got'[t] : Below(got'[t][i], k)]_vars

(* acquire_many_blocking is never refused for the order of its own         *)
(* members, in whatever order they were listed: an inversion is one        *)
(* against a lock held before.                                             *)
SetsDoNotInvert ==
    \A t \in Threads, k \in Keys :
        (mode[t] = "set" /\ wants[t] = NoKey /\ IsNext(k, todo[t]) /\ Inversion(t, k))
            => \E l \in Keys : guard[l] = t /\ ~InSet(t, l) /\ Below(k, l)

(* Nested acquisition in descending order is rejected, as the tests        *)
(* nested_lock_order_rejects_descending_classes and _paths have it ("must  *)
(* fail before a kernel wait"): no thread waits for a lock below one it    *)
(* has.                                                                    *)
NestingAscends ==
    \A t \in Threads, k \in Keys :
        (guard[k] = t /\ wants[t] # NoKey /\ mode[t] # "worker") => ~Below(wants[t], k)

(* A request is refused as an inversion only "while this thread already    *)
(* holds" a lock above it.                                                 *)
InversionIsTrue ==
    \A t \in Threads, k \in Keys :
        Inversion(t, k) => \E l \in Keys : guard[l] = t /\ Below(k, l)
=============================================================================

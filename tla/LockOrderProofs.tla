-------------------------- MODULE LockOrderProofs --------------------------
(***************************************************************************)
(* Proofs about the locks as their callers meet them: the order of several *)
(* (LockOrder) and the opening of one's path (LockPath).                   *)
(*                                                                         *)
(* LockOrder, for any number of threads, processes and keys.               *)
(* Type correctness and the reservations hold with every feature on; the   *)
(* hierarchy theorems are about threads that call acquire_blocking and     *)
(* acquire_many_blocking and drop their guards themselves (no LockWaiter,  *)
(* no guard moved), and NoDeadlock moreover assumes that a path is always  *)
(* asked for under one class, which the code leaves to its callers.        *)
(*                                                                         *)
(* LockPath, for any number of openers and directories and whatever is at  *)
(* the path at first.  PathInv says what an opener knows at each step      *)
(* (Placed), which no other step takes from it, since objects are made     *)
(* only where there are none and otherwise only become private (Kept).     *)
(***************************************************************************)
EXTENDS LockOrder, LockPath, WellFoundedInduction, TLAPS

(* Every variable keeps its type. *)
THEOREM OrderTyping == Spec => []TypeOK
<1> USE NamesAssumption DEF TypeOK
<1>1. Init => TypeOK
  BY DEF Init
<1>2. TypeOK /\ [Next]_vars => TypeOK'
  <2> SUFFICES ASSUME TypeOK, [Next]_vars PROVE TypeOK'
    OBVIOUS
  <2>1. ASSUME NEW t \in Threads, NEW k \in Keys, AcquireBlocking(t, k) PROVE TypeOK'
    BY <2>1 DEF AcquireBlocking, Enter
  <2>2. ASSUME NEW t \in Threads, NEW k \in Keys, AcquireByWorker(t, k) PROVE TypeOK'
    BY <2>2 DEF AcquireByWorker, Enter
  <2>3. ASSUME NEW t \in Threads, NEW k \in Keys, SetNext(t, k) PROVE TypeOK'
    BY <2>3 DEF SetNext
  <2>4. ASSUME NEW t \in Threads, NEW k \in Keys, SetFails(t, k) PROVE TypeOK'
    BY <2>4 DEF SetFails, Enter
  <2>5. ASSUME NEW t \in Threads, NEW k \in Keys, DropGuard(t, k) PROVE TypeOK'
    BY <2>5 DEF DropGuard, Drop, Unregister
  <2>6. ASSUME NEW t \in Threads, NEW u \in Threads, NEW k \in Keys, MoveGuard(t, u, k)
        PROVE  TypeOK'
    BY <2>6 DEF MoveGuard
  <2>7. ASSUME NEW t \in Threads, NEW S \in SUBSET Keys, AcquireMany(t, S) PROVE TypeOK'
    BY <2>7 DEF AcquireMany, Enter
  <2>8. ASSUME NEW t \in Threads, Granted(t) PROVE TypeOK'
    <3>1. wants[t] \in Keys
      BY <2>8 DEF Granted
    <3>2. /\ guard' \in [Keys -> Threads \cup {Nobody}]
          /\ wants' \in [Threads -> Keys \cup {NoKey}]
      BY <2>8, <3>1 DEF Granted
    <3>3. held' \in [Threads -> [Keys -> Nat]]
      <4>1. \/ held' = held
            \/ held' = [held EXCEPT ![t] = [@ EXCEPT ![wants[t]] = held[t][wants[t]] + 1]]
        BY <2>8, <3>1 DEF Granted, Register
      <4>2. held[t] \in [Keys -> Nat] /\ held[t][wants[t]] + 1 \in Nat
        BY <3>1
      <4>3. [held[t] EXCEPT ![wants[t]] = held[t][wants[t]] + 1] \in [Keys -> Nat]
        BY <3>1, <4>2
      <4> QED BY <4>1, <4>3
    <3>4. got[t] \in Seq(Keys) /\ Append(got[t], wants[t]) \in Seq(Keys)
      BY <3>1
    <3>5. got' \in [Threads -> Seq(Keys)]
      BY <2>8, <3>4 DEF Granted
    <3>6. /\ mode' \in [Threads -> {"running", "blocking", "worker", "set", "unwinding"}]
          /\ todo' \in [Threads -> SUBSET Keys]
      <4>1. CASE mode[t] = "set"
        <5>1. todo[t] \ {wants[t]} \in SUBSET Keys
          BY Zenon
        <5>2. todo' = [todo EXCEPT ![t] = todo[t] \ {wants[t]}]
          BY <2>8, <4>1 DEF Granted
        <5>3. mode' = [mode EXCEPT ![t] = IF todo[t] = {wants[t]} THEN "running" ELSE "set"]
          BY <2>8, <4>1 DEF Granted, Enter
        <5> QED BY <5>1, <5>2, <5>3
      <4>2. CASE mode[t] # "set"
        BY <2>8, <4>2 DEF Granted, Enter
      <4> QED BY <4>1, <4>2
    <3> QED BY <3>2, <3>3, <3>5, <3>6
  <2>9. ASSUME NEW t \in Threads, DropSet(t) PROVE TypeOK'
    BY <2>9 DEF DropSet, Enter
  <2>10. ASSUME NEW t \in Threads, UnwindOne(t) PROVE TypeOK'
    <3>1. /\ got[t] \in Seq(Keys) /\ Len(got[t]) \in Nat \ {0}
          /\ got[t][Len(got[t])] \in Keys
      BY <2>10 DEF UnwindOne
    <3>2. SubSeq(got[t], 1, Len(got[t]) - 1) \in Seq(Keys)
      BY <3>1
    <3>3. got' \in [Threads -> Seq(Keys)]
      BY <2>10, <3>2 DEF UnwindOne
    <3>4. /\ guard' \in [Keys -> Threads \cup {Nobody}]
          /\ held' \in [Threads -> [Keys -> Nat]]
      BY <2>10, <3>1 DEF UnwindOne, Drop, Unregister
    <3> QED BY <2>10, <3>3, <3>4 DEF UnwindOne, Enter
  <2>11. CASE UNCHANGED vars
    BY <2>11 DEF vars
  <2> QED BY <2>1, <2>2, <2>3, <2>4, <2>5, <2>6, <2>7, <2>8, <2>9, <2>10, <2>11
          DEF Next, Step
<1> QED BY <1>1, <1>2, PTL DEF Spec

(* Two threads of one process never wait for the same path. *)
WaitsApart ==
    \A t, u \in Threads :
        (/\ wants[t] # NoKey /\ wants[u] # NoKey /\ wants[t].path = wants[u].path
         /\ ProcessOf[t] = ProcessOf[u]) => t = u

(* Every path has one guard at most, and no thread waits for a guard of    *)
(* its own process, even with workers and moved guards.                    *)
THEOREM ReservationsSeparate == Spec => [](WaitsForOthersOnly /\ WaitsApart)
<1> DEFINE Inv == WaitsForOthersOnly /\ WaitsApart
<1>1. Init => Inv
  BY DEF Init, WaitsForOthersOnly, WaitsFor, WaitsApart
<1>2. TypeOK /\ TypeOK' /\ Inv /\ [Next]_vars => Inv'
  <2> SUFFICES ASSUME TypeOK, TypeOK', Inv, [Next]_vars PROVE Inv'
    OBVIOUS
  <2> USE NamesAssumption DEF WaitsForOthersOnly, WaitsFor, WaitsApart
  <2>a. /\ guard \in [Keys -> Threads \cup {Nobody}]
        /\ wants \in [Threads -> Keys \cup {NoKey}]
    BY DEF TypeOK
  <2>1. ASSUME NEW t \in Threads, NEW k \in Keys, ~Reserved(t, k), guard' = guard,
               wants' = [wants EXCEPT ![t] = k]
        PROVE  Inv'
    BY <2>1, <2>a DEF Reserved
  <2>2. ASSUME NEW t \in Threads, NEW k \in Keys, wants' = wants,
               guard' = [guard EXCEPT ![k] = Nobody]
        PROVE  Inv'
    BY <2>2, <2>a
  <2>3. ASSUME guard' = guard, wants' = wants PROVE Inv'
    BY <2>3
  <2>4. ASSUME NEW t \in Threads, Granted(t) PROVE Inv'
    <3>1. /\ wants[t] \in Keys /\ Free(wants[t])
          /\ guard' = [guard EXCEPT ![wants[t]] = t]
          /\ wants' = [wants EXCEPT ![t] = NoKey]
      BY <2>4, <2>a DEF Granted
    <3> QED BY <3>1, <2>a DEF Free
  <2>5. ASSUME NEW t \in Threads, NEW u \in Threads, NEW k \in Keys, MoveGuard(t, u, k)
        PROVE  Inv'
    <3>1. /\ ProcessOf[t] = ProcessOf[u] /\ guard[k] = t /\ wants' = wants
          /\ guard' = [guard EXCEPT ![k] = u]
      BY <2>5 DEF MoveGuard
    <3> QED BY <3>1, <2>a
  <2>6. ASSUME NEW t \in Threads, NEW k \in Keys, AcquireBlocking(t, k) PROVE Inv'
    BY <2>1, <2>6 DEF AcquireBlocking
  <2>7. ASSUME NEW t \in Threads, NEW k \in Keys, AcquireByWorker(t, k) PROVE Inv'
    BY <2>1, <2>7 DEF AcquireByWorker
  <2>8. ASSUME NEW t \in Threads, NEW k \in Keys, SetNext(t, k) PROVE Inv'
    BY <2>1, <2>8 DEF SetNext
  <2>9. ASSUME NEW t \in Threads, NEW k \in Keys, SetFails(t, k) PROVE Inv'
    BY <2>3, <2>9 DEF SetFails
  <2>10. ASSUME NEW t \in Threads, NEW k \in Keys, DropGuard(t, k) PROVE Inv'
    BY <2>2, <2>10 DEF DropGuard, Drop
  <2>11. ASSUME NEW t \in Threads, NEW S \in SUBSET Keys, AcquireMany(t, S) PROVE Inv'
    BY <2>3, <2>11 DEF AcquireMany
  <2>12. ASSUME NEW t \in Threads, DropSet(t) PROVE Inv'
    BY <2>3, <2>12 DEF DropSet
  <2>13. ASSUME NEW t \in Threads, UnwindOne(t) PROVE Inv'
    <3>1. got[t][Len(got[t])] \in Keys
      BY <2>13 DEF UnwindOne, TypeOK
    <3> QED BY <2>2, <2>13, <3>1 DEF UnwindOne, Drop
  <2>14. CASE UNCHANGED vars
    BY <2>3, <2>14 DEF vars
  <2> QED BY <2>4, <2>5, <2>6, <2>7, <2>8, <2>9, <2>10, <2>11, <2>12, <2>13, <2>14
          DEF Next, Step
<1> QED BY <1>1, <1>2, OrderTyping, PTL DEF Spec

-----------------------------------------------------------------------------
(* The lists.  A guard of a set is with its thread, once.                  *)
SetsPlaced ==
    \A t \in Threads :
        /\ \A i \in DOMAIN got[t] : guard[got[t][i]] = t
        /\ \A i, j \in DOMAIN got[t] : got[t][i] = got[t][j] => i = j

ModesFit ==
    \A t \in Threads : /\ mode[t] # "worker"
                       /\ wants[t] # NoKey => mode[t] \in {"blocking", "set"}

(* Without LockWaiters, only acquire_blocking waits. *)
LEMMA Modes == ASSUME ~Workers PROVE Spec => []ModesFit
<1>1. Init => ModesFit
  BY DEF Init, ModesFit
<1>2. TypeOK /\ ModesFit /\ [Next]_vars => ModesFit'
  <2> SUFFICES ASSUME TypeOK, ModesFit, [Next]_vars PROVE ModesFit'
    OBVIOUS
  <2> USE NamesAssumption DEF ModesFit
  <2>a. /\ wants \in [Threads -> Keys \cup {NoKey}]
        /\ mode \in [Threads -> {"running", "blocking", "worker", "set", "unwinding"}]
    BY DEF TypeOK
  <2>1. ASSUME NEW t \in Threads, NEW k \in Keys, AcquireBlocking(t, k) PROVE ModesFit'
    BY <2>1, <2>a DEF AcquireBlocking, Enter
  <2>2. ASSUME NEW t \in Threads, NEW k \in Keys, AcquireByWorker(t, k) PROVE ModesFit'
    BY <2>2 DEF AcquireByWorker
  <2>3. ASSUME NEW t \in Threads, NEW k \in Keys, SetNext(t, k) PROVE ModesFit'
    BY <2>3, <2>a DEF SetNext
  <2>4. ASSUME NEW t \in Threads, NEW k \in Keys, SetFails(t, k) PROVE ModesFit'
    BY <2>4, <2>a DEF SetFails, Enter
  <2>5. ASSUME NEW t \in Threads, NEW k \in Keys, DropGuard(t, k) PROVE ModesFit'
    BY <2>5, <2>a DEF DropGuard
  <2>6. ASSUME NEW t \in Threads, NEW u \in Threads, NEW k \in Keys, MoveGuard(t, u, k)
        PROVE  ModesFit'
    BY <2>6, <2>a DEF MoveGuard
  <2>7. ASSUME NEW t \in Threads, NEW S \in SUBSET Keys, AcquireMany(t, S)
        PROVE  ModesFit'
    BY <2>7, <2>a DEF AcquireMany, Enter
  <2>8. ASSUME NEW t \in Threads, Granted(t) PROVE ModesFit'
    <3>1. /\ wants' = [wants EXCEPT ![t] = NoKey]
          /\ \/ mode' = [mode EXCEPT ![t] = "running"]
             \/ mode' = [mode EXCEPT ![t] = "set"]
      BY <2>8 DEF Granted, Enter
    <3> QED BY <3>1, <2>a
  <2>9. ASSUME NEW t \in Threads, DropSet(t) PROVE ModesFit'
    BY <2>9, <2>a DEF DropSet, Enter
  <2>10. ASSUME NEW t \in Threads, UnwindOne(t) PROVE ModesFit'
    BY <2>10, <2>a DEF UnwindOne, Enter
  <2>11. CASE UNCHANGED vars
    BY <2>11 DEF vars
  <2> QED BY <2>1, <2>2, <2>3, <2>4, <2>5, <2>6, <2>7, <2>8, <2>9, <2>10, <2>11
          DEF Next, Step
<1> QED BY <1>1, <1>2, OrderTyping, PTL DEF Spec

(* What appending to and popping from a vector of keys does. *)
LEMMA Pushed ==
    ASSUME NEW s \in Seq(Keys), NEW k \in Keys
    PROVE  /\ DOMAIN s = 1 .. Len(s) /\ DOMAIN Append(s, k) = 1 .. Len(s) + 1
           /\ \A i \in 1 .. Len(s) : Append(s, k)[i] = s[i] /\ s[i] \in Keys
           /\ Append(s, k)[Len(s) + 1] = k /\ Len(s) \in Nat
OBVIOUS

\* A list of held classes without its last.
LEMMA Popped ==
    ASSUME NEW s \in Seq(Keys), s # <<>>
    PROVE  LET r == SubSeq(s, 1, Len(s) - 1) IN
           /\ DOMAIN s = 1 .. Len(s) /\ DOMAIN r = 1 .. Len(s) - 1 /\ Len(s) \in Nat \ {0}
           /\ \A i \in DOMAIN r : r[i] = s[i]
           /\ \A i \in DOMAIN s : s[i] \in Keys
OBVIOUS

(* Without waiters and moved guards, the thread-local list is exactly what *)
(* the thread has, and every guard of a lock set is with its thread.       *)
THEOREM ListsMatch ==
    ASSUME ~Workers, ~Moves
    PROVE  Spec => [](ListMatchesGuards /\ SetsPlaced)
<1> DEFINE Inv == ListMatchesGuards /\ SetsPlaced
<1>1. Init => Inv
  BY NamesAssumption DEF Init, ListMatchesGuards, SetsPlaced
<1>2. TypeOK /\ ModesFit /\ Inv /\ [Next]_vars => Inv'
  <2> SUFFICES ASSUME TypeOK, ModesFit, Inv, [Next]_vars PROVE Inv'
    OBVIOUS
  <2> USE NamesAssumption
  <2>a. /\ guard \in [Keys -> Threads \cup {Nobody}]
        /\ wants \in [Threads -> Keys \cup {NoKey}]
        /\ held \in [Threads -> [Keys -> Nat]]
        /\ got \in [Threads -> Seq(Keys)]
    BY DEF TypeOK
  <2>1. ASSUME guard' = guard, held' = held, got' = got PROVE Inv'
    BY <2>1 DEF ListMatchesGuards, SetsPlaced
  <2>2. ASSUME NEW t \in Threads, Granted(t) PROVE Inv'
    <3> DEFINE k == wants[t]
    <3>1. /\ k \in Keys /\ guard[k] = Nobody /\ guard' = [guard EXCEPT ![k] = t]
      BY <2>2, <2>a DEF Granted, Free
    <3>2. held' = [held EXCEPT ![t][k] = @ + 1]
      BY <2>2 DEF Granted, Register, ModesFit
    <3>3. ListMatchesGuards'
      BY <2>a, <3>1, <3>2 DEF ListMatchesGuards
    <3>4. \A u \in Threads : \A i \in DOMAIN got[u] : got[u][i] # k
      BY <3>1 DEF SetsPlaced
    <3>k. \A u \in Threads : \A i \in DOMAIN got[u] : got[u][i] \in Keys
      BY <2>a, Pushed
    <3>5. CASE got' = got
      BY <2>a, <3>1, <3>3, <3>4, <3>5, <3>k DEF SetsPlaced
    <3>6. CASE got' = [got EXCEPT ![t] = Append(@, k)]
      <4>1. got[t] \in Seq(Keys)
        BY <2>a
      <4>2. /\ DOMAIN got[t] = 1 .. Len(got[t]) /\ DOMAIN got'[t] = 1 .. Len(got[t]) + 1
            /\ \A i \in 1 .. Len(got[t]) : got'[t][i] = got[t][i] /\ got[t][i] \in Keys
            /\ got'[t][Len(got[t]) + 1] = k /\ Len(got[t]) \in Nat
        BY <2>a, <3>1, <3>6, <4>1, Pushed
      <4>3. \A u \in Threads \ {t} : got'[u] = got[u]
        BY <2>a, <3>6
      <4>4. ASSUME NEW u \in Threads \ {t}
            PROVE  /\ \A i \in DOMAIN got'[u] : guard'[got'[u][i]] = u
                   /\ \A i, j \in DOMAIN got'[u] : got'[u][i] = got'[u][j] => i = j
        BY <2>a, <3>1, <3>4, <3>k, <4>3, SMTT(30) DEF SetsPlaced
      <4>5. \A i \in DOMAIN got'[t] : guard'[got'[t][i]] = t
        <5> SUFFICES ASSUME NEW i \in 1 .. Len(got[t]) + 1 PROVE guard'[got'[t][i]] = t
          BY <4>2
        <5>1. CASE i = Len(got[t]) + 1
          BY <2>a, <3>1, <4>2, <5>1
        <5>2. CASE i # Len(got[t]) + 1
          <6>1. i \in 1 .. Len(got[t])
            BY <4>2, <5>2
          <6> QED BY <2>a, <3>1, <4>2, <6>1 DEF SetsPlaced
        <5> QED BY <5>1, <5>2
      <4>6. \A i, j \in DOMAIN got'[t] : got'[t][i] = got'[t][j] => i = j
        <5>1. \A i, j \in 1 .. Len(got[t]) : got[t][i] = got[t][j] => i = j
          BY <4>2 DEF SetsPlaced
        <5>2. \A i \in 1 .. Len(got[t]) : got[t][i] # k
          BY <3>4, <4>2
        <5> QED BY <4>2, <5>1, <5>2
      <4> QED BY <3>3, <4>4, <4>5, <4>6 DEF SetsPlaced
    <3> QED BY <2>2, <3>3, <3>5, <3>6 DEF Granted
  <2>3. ASSUME NEW t \in Threads, NEW k \in Keys, guard[k] = t, Drop(t, k),
               \A i \in DOMAIN got'[t] : got'[t][i] # k,
               \/ got' = got
               \/ \E r : got' = [got EXCEPT ![t] = r]
                         /\ DOMAIN r \subseteq DOMAIN got[t]
                         /\ \A i \in DOMAIN r : r[i] = got[t][i]
        PROVE  Inv'
    <3>1. /\ guard' = [guard EXCEPT ![k] = Nobody]
          /\ held' = [held EXCEPT ![t][k] = IF @ > 0 THEN @ - 1 ELSE 0]
      BY <2>3 DEF Drop, Unregister
    <3>2. held[t][k] = 1
      BY <2>3 DEF ListMatchesGuards
    <3>3. ListMatchesGuards'
      BY <2>a, <2>3, <3>1, <3>2 DEF ListMatchesGuards
    <3>4. \A u \in Threads : /\ DOMAIN got'[u] \subseteq DOMAIN got[u]
                             /\ \A i \in DOMAIN got'[u] : got'[u][i] = got[u][i]
      BY <2>a, <2>3
    <3>5. \A u \in Threads \ {t} : \A i \in DOMAIN got[u] : got[u][i] # k
      BY <2>3 DEF SetsPlaced
    <3>6. \A u \in Threads : \A i \in DOMAIN got[u] : got[u][i] \in Keys
      BY <2>a, Pushed
    <3> QED BY <2>a, <2>3, <3>1, <3>3, <3>4, <3>5, <3>6, SMTT(30) DEF SetsPlaced
  <2>4. ASSUME NEW t \in Threads, UnwindOne(t) PROVE Inv'
    <3> DEFINE s == got[t]
               r == SubSeq(s, 1, Len(s) - 1)
    <3>1. s \in Seq(Keys) /\ s # <<>> /\ got' = [got EXCEPT ![t] = r]
      BY <2>4, <2>a DEF UnwindOne
    <3>2. /\ DOMAIN s = 1 .. Len(s) /\ DOMAIN r = 1 .. Len(s) - 1 /\ Len(s) \in Nat \ {0}
          /\ \A i \in DOMAIN r : r[i] = s[i]
          /\ \A i \in DOMAIN s : s[i] \in Keys
      BY <3>1, Popped
    <3>3. s[Len(s)] \in Keys /\ guard[s[Len(s)]] = t /\ Drop(t, s[Len(s)])
      BY <2>4, <3>2 DEF UnwindOne, SetsPlaced
    <3>4. got'[t] = r
      BY <2>a, <3>1
    <3> HIDE DEF r
    <3>5. \A i \in DOMAIN got'[t] : got'[t][i] # s[Len(s)]
      BY <3>2, <3>4 DEF SetsPlaced
    <3>6. DOMAIN r \subseteq DOMAIN got[t]
      BY <3>2
    <3> QED BY <2>3, <3>1, <3>2, <3>3, <3>5, <3>6
  <2>5. ASSUME NEW t \in Threads, NEW k \in Keys, DropGuard(t, k) PROVE Inv'
    <3>1. \A i \in DOMAIN got'[t] : got'[t][i] # k
      BY <2>5 DEF DropGuard, InSet
    <3> QED BY <2>3, <2>5, <3>1 DEF DropGuard
  <2>6. ASSUME NEW t \in Threads, NEW k \in Keys, AcquireBlocking(t, k) PROVE Inv'
    BY <2>1, <2>6 DEF AcquireBlocking
  <2>7. ASSUME NEW t \in Threads, NEW k \in Keys, AcquireByWorker(t, k) PROVE Inv'
    BY <2>7 DEF AcquireByWorker
  <2>8. ASSUME NEW t \in Threads, NEW k \in Keys, SetNext(t, k) PROVE Inv'
    BY <2>1, <2>8 DEF SetNext
  <2>9. ASSUME NEW t \in Threads, NEW k \in Keys, SetFails(t, k) PROVE Inv'
    BY <2>1, <2>9 DEF SetFails
  <2>10. ASSUME NEW t \in Threads, NEW u \in Threads, NEW k \in Keys, MoveGuard(t, u, k)
         PROVE  Inv'
    BY <2>10 DEF MoveGuard
  <2>11. ASSUME NEW t \in Threads, NEW S \in SUBSET Keys, AcquireMany(t, S) PROVE Inv'
    BY <2>1, <2>11 DEF AcquireMany
  <2>12. ASSUME NEW t \in Threads, DropSet(t) PROVE Inv'
    BY <2>1, <2>12 DEF DropSet
  <2>13. CASE UNCHANGED vars
    BY <2>1, <2>13 DEF vars
  <2> QED BY <2>2, <2>4, <2>5, <2>6, <2>7, <2>8, <2>9, <2>10, <2>11, <2>12, <2>13
          DEF Next, Step
<1> QED BY <1>1, <1>2, OrderTyping, Modes, PTL DEF Spec

(* The two parts of a key are natural numbers, and Below orders them.      *)
LEMMA KeysAreNumbers ==
    \A k \in Keys : k.rank \in Nat /\ k.rank <= MaxRank /\ k.path \in Nat
<1>1. \A k \in Keys : k \in [rank : Ranks, path : Nat]
  BY KeysAssumption
<1>2. \A k \in [rank : Ranks, path : Nat] : k.rank \in Ranks /\ k.path \in Nat
  OBVIOUS
<1>3. \A n \in Ranks : n \in Nat /\ n <= MaxRank
  <2>1. MaxRank \in Nat
    BY DEF MaxRank
  <2> QED BY <2>1 DEF Ranks
<1> QED BY <1>1, <1>2, <1>3

(* A lock set is acquired in ascending order.                              *)
SetsAscend ==
    \A t \in Threads : \A i, j \in DOMAIN got[t] : i < j => Below(got[t][i], got[t][j])

(* Nested acquisition ascends, and so does every lock set: what            *)
(* check_lock_order achieves for threads that block themselves.            *)
THEOREM NestingHolds ==
    ASSUME ~Workers, ~Moves
    PROVE  Spec => [](NestingAscends /\ SetsAscend)
<1> DEFINE Inv == NestingAscends /\ SetsAscend
           Deps == TypeOK /\ ModesFit /\ ListMatchesGuards /\ SetsPlaced
<1>1. Init => Inv
  BY NamesAssumption DEF Init, NestingAscends, SetsAscend
<1>2. Deps /\ ModesFit' /\ Inv /\ [Next]_vars => Inv'
  <2> SUFFICES ASSUME TypeOK, ModesFit, ListMatchesGuards, SetsPlaced, Inv, [Next]_vars
               PROVE  Inv'
    OBVIOUS
  <2> USE NamesAssumption
  <2>a. /\ guard \in [Keys -> Threads \cup {Nobody}]
        /\ wants \in [Threads -> Keys \cup {NoKey}]
        /\ got \in [Threads -> Seq(Keys)]
    BY DEF TypeOK
  <2>b. \A t \in Threads, l \in Keys :
           guard[l] = t /\ wants[t] # NoKey => ~Below(wants[t], l)
    BY DEF NestingAscends, ModesFit
  <2>1. ASSUME NEW t \in Threads, NEW k \in Keys, ~Inversion(t, k), guard' = guard,
               wants' = [wants EXCEPT ![t] = k], got' = got
        PROVE  Inv'
    <3>1. \A l \in Keys : guard[l] = t => ~Below(k, l)
      BY <2>1 DEF Inversion, ListMatchesGuards
    <3>2. NestingAscends'
      BY <2>a, <2>b, <2>1, <3>1 DEF NestingAscends, Below
    <3> QED BY <2>1, <3>2 DEF SetsAscend
  <2>2. ASSUME wants' = wants, \A u \in Threads, l \in Keys : guard'[l] = u => guard[l] = u
        PROVE  NestingAscends'
    BY <2>b, <2>2 DEF NestingAscends, Below
  <2>3. ASSUME wants' = wants, guard' = guard, got' = got PROVE Inv'
    BY <2>2, <2>3 DEF SetsAscend
  <2>4. ASSUME NEW t \in Threads, Granted(t) PROVE Inv'
    <3> DEFINE k == wants[t]
    <3>1. /\ k \in Keys /\ Free(k) /\ guard' = [guard EXCEPT ![k] = t]
          /\ wants' = [wants EXCEPT ![t] = NoKey]
      BY <2>4, <2>a DEF Granted
    <3>2. NestingAscends'
      BY <2>a, <2>b, <3>1 DEF NestingAscends, Below
    <3>3. CASE got' = got
      BY <3>2, <3>3 DEF SetsAscend
    <3>4. CASE got' = [got EXCEPT ![t] = Append(@, k)]
      <4>1. got[t] \in Seq(Keys)
        BY <2>a
      <4>2. /\ DOMAIN got[t] = 1 .. Len(got[t]) /\ DOMAIN got'[t] = 1 .. Len(got[t]) + 1
            /\ \A i \in 1 .. Len(got[t]) : got'[t][i] = got[t][i] /\ got[t][i] \in Keys
            /\ got'[t][Len(got[t]) + 1] = k /\ Len(got[t]) \in Nat
        BY <2>a, <3>1, <3>4, <4>1, Pushed
      <4>3. \A u \in Threads \ {t} : got'[u] = got[u]
        BY <2>a, <3>4
      <4>4. ASSUME NEW i \in 1 .. Len(got[t]) PROVE Below(got[t][i], k)
        <5> DEFINE l == got[t][i]
        <5>1. l \in Keys /\ guard[l] = t
          BY <4>2 DEF SetsPlaced
        <5>2. ~Below(k, l)
          BY <2>b, <3>1, <5>1
        <5>3. l.path # k.path
          BY <3>1, <5>1 DEF Free
        <5>4. l.rank \in Nat /\ l.path \in Nat /\ k.rank \in Nat /\ k.path \in Nat
          BY <3>1, <5>1, KeysAreNumbers
        <5> QED BY <5>2, <5>3, <5>4 DEF Below
      <4>5. \A i, j \in 1 .. Len(got[t]) : i < j => Below(got[t][i], got[t][j])
        BY <4>2 DEF SetsAscend
      <4>6. \A i, j \in DOMAIN got'[t] : i < j => Below(got'[t][i], got'[t][j])
        <5> SUFFICES ASSUME NEW i \in 1 .. Len(got[t]) + 1, NEW j \in 1 .. Len(got[t]) + 1,
                            i < j
                     PROVE  Below(got'[t][i], got'[t][j])
          BY <4>2
        <5>1. i \in 1 .. Len(got[t]) /\ got'[t][i] = got[t][i]
          BY <4>2
        <5>2. CASE j = Len(got[t]) + 1
          BY <4>2, <4>4, <5>1, <5>2
        <5>3. CASE j # Len(got[t]) + 1
          <6>1. j \in 1 .. Len(got[t]) /\ got'[t][j] = got[t][j]
            BY <4>2, <5>3
          <6> QED BY <4>5, <5>1, <6>1
        <5> QED BY <5>2, <5>3
      <4> QED BY <3>2, <4>3, <4>6 DEF SetsAscend
    <3> QED BY <2>4, <3>3, <3>4 DEF Granted
  <2>5. ASSUME NEW t \in Threads, UnwindOne(t) PROVE Inv'
    <3> DEFINE s == got[t]
               r == SubSeq(s, 1, Len(s) - 1)
    <3>1. s \in Seq(Keys) /\ s # <<>> /\ got' = [got EXCEPT ![t] = r]
      BY <2>5, <2>a DEF UnwindOne
    <3>2. /\ DOMAIN s = 1 .. Len(s) /\ DOMAIN r = 1 .. Len(s) - 1 /\ Len(s) \in Nat \ {0}
          /\ \A i \in DOMAIN r : r[i] = s[i]
          /\ \A i \in DOMAIN s : s[i] \in Keys
      BY <3>1, Popped
    <3>3. guard' = [guard EXCEPT ![s[Len(s)]] = Nobody] /\ wants' = wants
      BY <2>5 DEF UnwindOne, Drop
    <3>4. NestingAscends'
      BY <2>2, <2>a, <3>2, <3>3
    <3>5. \A u \in Threads \ {t} : got'[u] = got[u]
      BY <2>a, <3>1
    <3>6. got'[t] = r
      BY <2>a, <3>1
    <3> HIDE DEF r
    <3>7. \A i, j \in DOMAIN r : i < j => Below(r[i], r[j])
      BY <3>2 DEF SetsAscend
    <3> QED BY <3>4, <3>5, <3>6, <3>7 DEF SetsAscend
  <2>6. ASSUME NEW t \in Threads, NEW k \in Keys, AcquireBlocking(t, k) PROVE Inv'
    BY <2>1, <2>6 DEF AcquireBlocking
  <2>7. ASSUME NEW t \in Threads, NEW k \in Keys, AcquireByWorker(t, k) PROVE Inv'
    BY <2>7 DEF AcquireByWorker
  <2>8. ASSUME NEW t \in Threads, NEW k \in Keys, SetNext(t, k) PROVE Inv'
    BY <2>1, <2>8 DEF SetNext
  <2>9. ASSUME NEW t \in Threads, NEW k \in Keys, SetFails(t, k) PROVE Inv'
    BY <2>3, <2>9 DEF SetFails
  <2>10. ASSUME NEW t \in Threads, NEW k \in Keys, DropGuard(t, k) PROVE Inv'
    <3>1. guard' = [guard EXCEPT ![k] = Nobody] /\ wants' = wants /\ got' = got
      BY <2>10 DEF DropGuard, Drop
    <3> QED BY <2>2, <2>a, <3>1 DEF SetsAscend
  <2>11. ASSUME NEW t \in Threads, NEW u \in Threads, NEW k \in Keys, MoveGuard(t, u, k)
         PROVE  Inv'
    BY <2>11 DEF MoveGuard
  <2>12. ASSUME NEW t \in Threads, NEW S \in SUBSET Keys, AcquireMany(t, S) PROVE Inv'
    BY <2>3, <2>12 DEF AcquireMany
  <2>13. ASSUME NEW t \in Threads, DropSet(t) PROVE Inv'
    BY <2>3, <2>13 DEF DropSet
  <2>14. CASE UNCHANGED vars
    BY <2>3, <2>14 DEF vars
  <2> QED BY <2>4, <2>5, <2>6, <2>7, <2>8, <2>9, <2>10, <2>11, <2>12, <2>13, <2>14
          DEF Next, Step
<1> QED BY <1>1, <1>2, OrderTyping, Modes, ListsMatch, PTL DEF Spec

(* ... so that popping releases the most specific member first.  The guard *)
(* of a member that a step gives up is the last of its set.                *)
THEOREM SetsReleased ==
    ASSUME ~Workers, ~Moves
    PROVE  Spec => SetsUnwindDownward
<1> DEFINE Down == \A t \in Threads, k \in Keys :
              (guard[k] = t /\ InSet(t, k) /\ guard'[k] = Nobody)
                  => \A i \in DOMAIN got'[t] : Below(got'[t][i], k)
<1>1. TypeOK /\ SetsPlaced /\ SetsAscend /\ [Next]_vars => Down
  <2> SUFFICES ASSUME TypeOK, SetsPlaced, SetsAscend, [Next]_vars,
                      NEW t \in Threads, NEW k \in Keys,
                      guard[k] = t, InSet(t, k), guard'[k] = Nobody
               PROVE  \A i \in DOMAIN got'[t] : Below(got'[t][i], k)
    OBVIOUS
  <2> USE NamesAssumption
  <2>a. /\ guard \in [Keys -> Threads \cup {Nobody}]
        /\ got \in [Threads -> Seq(Keys)]
    BY DEF TypeOK
  <2>1. ASSUME NEW u \in Threads, UnwindOne(u) PROVE \A i \in DOMAIN got'[t] : Below(got'[t][i], k)
    <3> DEFINE s == got[u]
               r == SubSeq(s, 1, Len(s) - 1)
    <3>1. /\ s \in Seq(Keys) /\ s # <<>> /\ got' = [got EXCEPT ![u] = r]
          /\ guard' = [guard EXCEPT ![s[Len(s)]] = Nobody]
      BY <2>1, <2>a DEF UnwindOne, Drop
    <3>2. /\ DOMAIN s = 1 .. Len(s) /\ DOMAIN r = 1 .. Len(s) - 1 /\ Len(s) \in Nat \ {0}
          /\ \A i \in DOMAIN r : r[i] = s[i]
          /\ \A i \in DOMAIN s : s[i] \in Keys
      BY <3>1, Popped
    <3>3. k = s[Len(s)]
      BY <2>a, <3>1, <3>2
    <3>4. u = t
      BY <3>2, <3>3 DEF SetsPlaced
    <3>5. got'[t] = r
      BY <2>a, <3>1, <3>4
    <3> HIDE DEF r
    <3>6. \A i \in DOMAIN r : Below(r[i], s[Len(s)])
      BY <3>2, <3>4 DEF SetsAscend
    <3> QED BY <3>3, <3>5, <3>6
  <2>2. ASSUME NEW u \in Threads, NEW l \in Keys, DropGuard(u, l) PROVE FALSE
    BY <2>2, <2>a DEF DropGuard, Drop
  <2>3. ASSUME NEW u \in Threads, Granted(u) PROVE FALSE
    BY <2>3, <2>a DEF Granted
  <2>4. ASSUME guard' = guard PROVE FALSE
    BY <2>4
  <2>5. ASSUME NEW u \in Threads, NEW v \in Threads, NEW l \in Keys, MoveGuard(u, v, l)
        PROVE  FALSE
    BY <2>5 DEF MoveGuard
  <2> QED BY <2>1, <2>2, <2>3, <2>4, <2>5
          DEF Next, Step, vars, AcquireBlocking, AcquireByWorker, SetNext, SetFails,
              AcquireMany, DropSet
<1> QED BY <1>1, OrderTyping, ListsMatch, NestingHolds, PTL DEF SetsUnwindDownward, Spec

(* The requests a lock set has yet to make have distinct paths, are made   *)
(* least first, and are all above the guards the set has.                  *)
SetsPlanned ==
    \A t \in Threads :
        /\ mode[t] # "set" => todo[t] = {}
        /\ mode[t] \in {"running", "unwinding"} => wants[t] = NoKey
        /\ NoDuplicates(todo[t])
        /\ mode[t] = "set" /\ wants[t] # NoKey => IsNext(wants[t], todo[t])
        /\ \A i \in DOMAIN got[t], k \in todo[t] : Below(got[t][i], k)

(* What is above the least of a set: the rest of it.                       *)
LEMMA NextIsLeast ==
    ASSUME NEW S \in SUBSET Keys, NoDuplicates(S), NEW k \in Keys, IsNext(k, S),
           NEW l \in S, l # k
    PROVE  Below(k, l)
<1>1. k \in S /\ ~Below(l, k) /\ l.path # k.path
  BY DEF IsNext, NoDuplicates
<1>2. k.rank \in Nat /\ k.path \in Nat /\ l.rank \in Nat /\ l.path \in Nat
  BY KeysAreNumbers
<1> QED BY <1>1, <1>2 DEF Below

(* Every step of a lock set keeps the rest of it above what it has.        *)
THEOREM SetsStayPlanned == Spec => []SetsPlanned
<1>1. Init => SetsPlanned
  BY DEF Init, SetsPlanned, NoDuplicates
<1>2. TypeOK /\ SetsPlanned /\ [Next]_vars => SetsPlanned'
  <2> SUFFICES ASSUME TypeOK, SetsPlanned, [Next]_vars PROVE SetsPlanned'
    OBVIOUS
  <2> USE NamesAssumption
  <2>a. /\ wants \in [Threads -> Keys \cup {NoKey}]
        /\ mode \in [Threads -> {"running", "blocking", "worker", "set", "unwinding"}]
        /\ todo \in [Threads -> SUBSET Keys]
        /\ got \in [Threads -> Seq(Keys)]
    BY DEF TypeOK
  <2>1. ASSUME NEW t \in Threads, mode[t] # "set", todo' = todo,
               \A u \in Threads \ {t} : mode'[u] = mode[u] /\ wants'[u] = wants[u]
                                         /\ got'[u] = got[u],
               mode'[t] # "set",
               mode'[t] \in {"running", "unwinding"} => wants'[t] = NoKey
        PROVE  SetsPlanned'
    <3>1. todo[t] = {}
      BY <2>1 DEF SetsPlanned
    <3> QED BY <2>1, <3>1 DEF SetsPlanned, NoDuplicates, IsNext
  <2>2. ASSUME UNCHANGED <<mode, wants, todo, got>> PROVE SetsPlanned'
    BY <2>2 DEF SetsPlanned, NoDuplicates, IsNext
  <2>3. ASSUME NEW t \in Threads, NEW k \in Keys, AcquireBlocking(t, k) PROVE SetsPlanned'
    BY <2>1, <2>3, <2>a DEF AcquireBlocking, Enter
  <2>4. ASSUME NEW t \in Threads, NEW k \in Keys, AcquireByWorker(t, k) PROVE SetsPlanned'
    BY <2>1, <2>4, <2>a DEF AcquireByWorker, Enter
  <2>5. ASSUME NEW t \in Threads, NEW k \in Keys, SetNext(t, k) PROVE SetsPlanned'
    BY <2>5, <2>a DEF SetNext, SetsPlanned, NoDuplicates, IsNext
  <2>6. ASSUME NEW t \in Threads, NEW k \in Keys, SetFails(t, k) PROVE SetsPlanned'
    BY <2>6, <2>a DEF SetFails, Enter, SetsPlanned, NoDuplicates, IsNext
  <2>7. ASSUME NEW t \in Threads, NEW k \in Keys, DropGuard(t, k) PROVE SetsPlanned'
    BY <2>2, <2>7 DEF DropGuard
  <2>8. ASSUME NEW t \in Threads, NEW u \in Threads, NEW k \in Keys, MoveGuard(t, u, k)
        PROVE  SetsPlanned'
    BY <2>2, <2>8 DEF MoveGuard
  <2>9. ASSUME NEW t \in Threads, NEW S \in SUBSET Keys, AcquireMany(t, S)
        PROVE  SetsPlanned'
    <3>1. /\ todo' = [todo EXCEPT ![t] = S] /\ mode' = [mode EXCEPT ![t] = "set"]
          /\ wants' = wants /\ got' = got /\ NoDuplicates(S) /\ DOMAIN got[t] = {}
          /\ wants[t] = NoKey
      BY <2>9 DEF AcquireMany, Enter, SetsPlanned
    <3> QED BY <2>a, <3>1 DEF SetsPlanned, NoDuplicates, IsNext
  <2>10. ASSUME NEW t \in Threads, DropSet(t) PROVE SetsPlanned'
    BY <2>1, <2>10, <2>a DEF DropSet, Enter, SetsPlanned
  <2>11. ASSUME NEW t \in Threads, UnwindOne(t) PROVE SetsPlanned'
    BY <2>1, <2>11, <2>a DEF UnwindOne, Enter, SetsPlanned
  <2>12. ASSUME NEW t \in Threads, Granted(t) PROVE SetsPlanned'
    <3> DEFINE k == wants[t]
    <3>1. k \in Keys /\ wants' = [wants EXCEPT ![t] = NoKey]
      BY <2>12, <2>a DEF Granted
    <3>2. CASE mode[t] # "set"
      BY <2>1, <2>12, <2>a, <3>2 DEF Granted, Enter
    <3>3. CASE mode[t] = "set"
      <4>1. /\ todo' = [todo EXCEPT ![t] = @ \ {k}]
            /\ got' = [got EXCEPT ![t] = Append(@, k)]
            /\ mode' = [mode EXCEPT ![t] = IF todo[t] = {k} THEN "running" ELSE "set"]
        BY <2>12, <3>3 DEF Granted, Enter
      <4>2. NoDuplicates(todo[t]) /\ IsNext(k, todo[t])
        BY <3>1, <3>3, NamesAssumption DEF SetsPlanned
      <4>3. \A u \in Threads \ {t} : /\ todo'[u] = todo[u] /\ got'[u] = got[u]
                                     /\ mode'[u] = mode[u] /\ wants'[u] = wants[u]
        BY <2>a, <3>1, <4>1
      <4>4. ASSUME NEW i \in DOMAIN got'[t], NEW l \in todo'[t] PROVE Below(got'[t][i], l)
        <5>1. l \in todo[t] /\ l # k /\ todo[t] \in SUBSET Keys
          BY <2>a, <4>1
        <5>2. got[t] \in Seq(Keys) /\ got'[t] = Append(got[t], k)
          BY <2>a, <4>1
        <5>3. /\ DOMAIN got[t] = 1 .. Len(got[t]) /\ DOMAIN got'[t] = 1 .. Len(got[t]) + 1
              /\ \A j \in 1 .. Len(got[t]) : got'[t][j] = got[t][j]
              /\ got'[t][Len(got[t]) + 1] = k /\ Len(got[t]) \in Nat
          BY <3>1, <5>2, Pushed
        <5>4. CASE i = Len(got[t]) + 1
          BY <3>1, <4>2, <5>1, <5>3, <5>4, NextIsLeast
        <5>5. CASE i # Len(got[t]) + 1
          <6>1. i \in DOMAIN got[t] /\ got'[t][i] = got[t][i]
            BY <5>3, <5>5
          <6> QED BY <5>1, <6>1 DEF SetsPlanned
        <5> QED BY <5>4, <5>5
      <4>5. NoDuplicates(todo'[t]) /\ (mode'[t] # "set" => todo'[t] = {}) /\ wants'[t] = NoKey
        BY <2>a, <3>1, <4>1, <4>2 DEF NoDuplicates
      <4> QED BY <4>3, <4>4, <4>5 DEF SetsPlanned
    <3> QED BY <3>2, <3>3
  <2>13. CASE UNCHANGED vars
    BY <2>2, <2>13 DEF vars
  <2> QED BY <2>3, <2>4, <2>5, <2>6, <2>7, <2>8, <2>9, <2>10, <2>11, <2>12, <2>13
          DEF Next, Step
<1> QED BY <1>1, <1>2, OrderTyping, PTL DEF Spec

(* A lock set is refused for its order only because of a guard the thread  *)
(* had before: what the list holds above the next request is with the      *)
(* thread, and is no member of the set.                                    *)
THEOREM SetsInOrder ==
    ASSUME ~Workers, ~Moves
    PROVE  Spec => []SetsDoNotInvert
<1>1. TypeOK /\ ListMatchesGuards /\ SetsPlanned => SetsDoNotInvert
  <2> SUFFICES ASSUME ListMatchesGuards, SetsPlanned, TypeOK,
                      NEW t \in Threads, NEW k \in Keys, IsNext(k, todo[t]), Inversion(t, k)
               PROVE  \E l \in Keys : guard[l] = t /\ ~InSet(t, l) /\ Below(k, l)
    BY DEF SetsDoNotInvert
  <2>1. PICK l \in Keys : held[t][l] > 0 /\ Below(k, l)
    BY DEF Inversion
  <2>2. guard[l] = t
    BY <2>1 DEF ListMatchesGuards
  <2>3. ASSUME InSet(t, l) PROVE FALSE
    <3>1. Below(l, k)
      BY <2>3 DEF InSet, SetsPlanned, IsNext
    <3>2. k.rank \in Nat /\ k.path \in Nat /\ l.rank \in Nat /\ l.path \in Nat
      BY KeysAreNumbers
    <3> QED BY <2>1, <3>1, <3>2 DEF Below
  <2> QED BY <2>1, <2>2, <2>3
<1> QED BY <1>1, OrderTyping, ListsMatch, SetsStayPlanned, PTL

-----------------------------------------------------------------------------
(* Deadlock.  A non-empty set of natural numbers has a least element.      *)
LEMMA Least ==
    ASSUME NEW S, S \subseteq Nat, S # {}
    PROVE  \E x \in S : \A y \in S : x <= y
<1> DEFINE R == OpToRel(<, Nat)
<1>1. IsWellFoundedOn(R, Nat)
  BY NatLessThanWellFounded, Zenon
<1>2. \A x, y \in Nat : x < y => <<x, y>> \in R
  BY DEF OpToRel
<1> HIDE DEF R
<1>3. PICK x \in S : \A y \in S : ~(<<y, x>> \in R)
  BY <1>1, WFMin, Zenon
<1>4. \A y \in S : x \in Nat /\ y \in Nat /\ ~(y < x)
  BY <1>2, <1>3
<1> QED BY <1>3, <1>4

(* Among threads that all wait, one waits for a key that no other's is     *)
(* above: ranks are bounded by MaxRank, paths by b.                        *)
LEMMA Highest ==
    ASSUME TypeOK, NEW b \in Nat, \A k \in Keys : k.path <= b,
           NEW D \in SUBSET Threads, D # {}, \A t \in D : wants[t] # NoKey
    PROVE  \E t \in D : \A u \in D : ~Below(wants[t], wants[u])
<1>0. \A t \in D : wants[t] \in Keys
  BY DEF TypeOK
<1>1. \A t \in D : /\ wants[t].rank \in Nat /\ wants[t].rank <= MaxRank
                   /\ wants[t].path \in Nat /\ wants[t].path <= b
  BY <1>0, KeysAreNumbers
<1> DEFINE rank(t) == MaxRank - wants[t].rank
           room(t) == b - wants[t].path
           R == {rank(t) : t \in D}
<1>m. MaxRank \in Nat
  BY DEF MaxRank
<1>2. R \subseteq Nat /\ R # {}
  <2>1. \A t \in D : rank(t) \in Nat
    BY <1>1, <1>m
  <2> HIDE DEF rank
  <2> QED BY <2>1
<1>3. \E t \in D : \A u \in D : rank(t) <= rank(u)
  <2> HIDE DEF R
  <2>1. PICK x \in R : \A y \in R : x <= y
    BY <1>2, Least
  <2> USE DEF R
  <2> HIDE DEF rank
  <2>2. PICK t \in D : x = rank(t)
    OBVIOUS
  <2> QED BY <2>1, <2>2
<1>4. PICK t \in D : \A u \in D : rank(t) <= rank(u)
  BY <1>3
<1> DEFINE E == {u \in D : wants[u].rank = wants[t].rank}
           P == {room(u) : u \in E}
<1>5. P \subseteq Nat /\ P # {}
  <2>1. \A u \in E : room(u) \in Nat
    BY <1>1
  <2>2. t \in E
    OBVIOUS
  <2> HIDE DEF room, E
  <2> QED BY <2>1, <2>2
<1>6. \E u \in E : \A v \in E : room(u) <= room(v)
  <2> HIDE DEF P
  <2>1. PICK z \in P : \A y \in P : z <= y
    BY <1>5, Least
  <2> USE DEF P
  <2> HIDE DEF room, E
  <2>2. PICK u \in E : z = room(u)
    OBVIOUS
  <2> QED BY <2>1, <2>2
<1>7. PICK u \in E : \A v \in E : room(u) <= room(v)
  BY <1>6
<1>8. ASSUME NEW v \in D PROVE ~Below(wants[u], wants[v])
  <2>1. u \in D /\ wants[u].rank = wants[t].rank
    BY <1>7
  <2>2. wants[v].rank <= wants[u].rank
    BY <1>1, <1>m, <1>4, <2>1
  <2>3. wants[v].rank = wants[u].rank => wants[v].path <= wants[u].path
    <3> SUFFICES ASSUME wants[v].rank = wants[u].rank PROVE wants[v].path <= wants[u].path
      OBVIOUS
    <3>1. v \in E
      BY <2>1
    <3>2. room(u) <= room(v)
      BY <1>7, <3>1
    <3> QED BY <1>1, <2>1, <3>2
  <2> QED BY <1>1, <2>1, <2>2, <2>3 DEF Below
<1> QED BY <1>7, <1>8

(* No deadlock: if threads only block themselves, and every path has one   *)
(* class, then no set of threads of any processes waits in a circle.       *)
THEOREM NoCircularWait ==
    ASSUME ~Workers, ~Moves,
           \A k, l \in Keys : k.path = l.path => k = l,
           NEW b \in Nat, \A k \in Keys : k.path <= b
    PROVE  Spec => []NoDeadlock
<1>1. TypeOK /\ ModesFit /\ NestingAscends /\ WaitsForOthersOnly => NoDeadlock
  <2> SUFFICES ASSUME TypeOK, ModesFit, NestingAscends, WaitsForOthersOnly,
                      NEW D \in SUBSET Threads, D # {},
                      ~\E t \in D : \A u \in D : ~WaitsFor(t, u)
               PROVE  FALSE
    BY Zenon DEF NoDeadlock
  <2>0. \A t \in D : \E u \in D : WaitsFor(t, u)
    BY Zenon
  <2>1. \A t \in D : wants[t] # NoKey /\ wants[t] \in Keys
    <3>1. \A t \in D : wants[t] # NoKey
      BY <2>0, Zenon DEF WaitsFor
    <3>2. wants \in [Threads -> Keys \cup {NoKey}]
      BY DEF TypeOK
    <3> QED BY <3>1, <3>2
  <2>2. PICK t \in D : \A u \in D : ~Below(wants[t], wants[u])
    BY <2>1, Highest
  <2>3. PICK u \in D : WaitsFor(t, u)
    BY <2>0
  <2>4. guard[wants[t]] = u
    <3>1. PICK l \in Keys : l.path = wants[t].path /\ guard[l] = u
      BY <2>3 DEF WaitsFor
    <3>2. l = wants[t]
      BY <2>1, <3>1
    <3> QED BY <3>1, <3>2
  <2>5. ~Below(wants[u], wants[t])
    BY <2>1, <2>4 DEF NestingAscends, ModesFit
  <2>6. wants[t] = wants[u]
    <3>1. /\ wants[t].rank \in Nat /\ wants[t].path \in Nat
          /\ wants[u].rank \in Nat /\ wants[u].path \in Nat
      BY <2>1, KeysAreNumbers
    <3>2. ~Below(wants[t], wants[u])
      BY <2>2
    <3>3. wants[t].path = wants[u].path
      BY <2>5, <3>1, <3>2 DEF Below
    <3> QED BY <2>1, <3>3
  <2>7. WaitsFor(u, u)
    BY <2>1, <2>4, <2>6 DEF WaitsFor
  <2> QED BY <2>7 DEF WaitsForOthersOnly
<1> QED BY <1>1, OrderTyping, Modes, NestingHolds, ReservationsSeparate, PTL
-----------------------------------------------------------------------------

\* The steps of an opener.
Steps == {"walk", "make", "settle", "open", "create", "tighten", "check", "opened", "refused",
          "killed"}

\* The variables have their types.
PathTypes ==
    /\ platform \in {"unix", "windows"}
    /\ fs \in [Levels -> Objects \cup {Absent}]
    /\ opener \in [Openers -> [pc : Steps, at : 1..Directories, missing : SUBSET (1..Directories),
                               file : Nat]]
    /\ calm \in BOOLEAN
    /\ start \in [Levels -> Objects \cup {Absent}]

\* On Unix what was there is as it was.
Untouched == platform = "unix" => \A k \in Levels : start[k] # Absent => fs[k] = start[k]

\* While nothing calls for a refusal, all that exists is the user's own.
Pure ==
    calm => /\ \A k \in 1..Directories :
                  Exists(k) => fs[k].kind = "dir" /\ fs[k].mine /\ fs[k].mode # "write"
            /\ Exists(File) => /\ fs[File].kind = "file" /\ fs[File].mine
                               /\ platform = "unix" => fs[File].mode = "private"

\* What an opener knows where it is.
Placed(o) ==
    LET s == opener[o] IN
    /\ s.pc = "walk" => Directories \in s.missing \/ s.at = Directories
    /\ s.pc \in {"make", "settle"} => Directories \in s.missing \/ Exists(Directories)
    /\ s.pc = "settle" => s.missing # {} /\ Exists(Outermost(s.missing))
    /\ s.pc \in {"walk", "make", "settle"} =>
          \A k \in s.missing : platform = "unix" => start[k] = Absent
    /\ s.pc \in {"open", "create", "tighten", "check", "opened"} => DirectoryAccepted(o)
    /\ s.pc \in {"tighten", "check", "opened"} =>
          fs[File].kind = "file" /\ s.file = fs[File].id
    /\ s.pc = "tighten" => (platform = "unix" => start[File] = Absent)
    /\ s.pc = "opened" => /\ platform = "unix" => fs[File].mine
                          /\ o \in Private => fs[File].mode = "private"
    /\ s.pc = "refused" => ~calm

\* The inductive invariant.
PathInv == PathTypes /\ Untouched /\ Pure /\ \A o \in Openers : Placed(o)

\* What no step takes back.
Kept ==
    /\ platform' = platform /\ start' = start /\ (calm' => calm)
    /\ \A k \in Levels : Exists(k) =>
          /\ fs'[k].kind = fs[k].kind /\ fs'[k].mine = fs[k].mine /\ fs'[k].id = fs[k].id
          /\ fs'[k].mode \in {fs[k].mode, "private"}
-------------------------------------------------------------------------------
\* A non-empty set of natural numbers has a least element.
LEMMA LeastLevel ==
    ASSUME NEW S, S \subseteq Nat, S # {}
    PROVE  \E x \in S : \A y \in S : x <= y
<1> DEFINE R == OpToRel(<, Nat)
<1>1. IsWellFoundedOn(R, Nat)
  BY NatLessThanWellFounded, Zenon
<1>2. \A x, y \in Nat : x < y => <<x, y>> \in R
  BY DEF OpToRel
<1> HIDE DEF R
<1>3. PICK x \in S : \A y \in S : ~(<<y, x>> \in R)
  BY <1>1, WFMin, Zenon
<1>4. \A y \in S : x \in Nat /\ y \in Nat /\ ~(y < x)
  BY <1>2, <1>3
<1> QED BY <1>3, <1>4

\* The outermost of some missing directories is one of them.
LEMMA OutermostIs ==
    ASSUME NEW S, S \subseteq 1..Directories, S # {}
    PROVE  Outermost(S) \in S /\ Outermost(S) \in 1..Directories
<1>1. S \subseteq Nat
  BY LockPathAssumption
<1>2. \E x \in S : \A y \in S : x <= y
  BY <1>1, LeastLevel
<1> QED BY <1>2 DEF Outermost

\* The levels are the directories and, apart from them, the file.
LEMMA LevelsAre ==
    /\ Levels = 1..Directories \cup {File} /\ File \notin 1..Directories
    /\ Directories \in 1..Directories /\ File \in Levels /\ Directories \in Levels
    /\ \A k \in 1..Directories : k \in Levels /\ k \in Nat /\ k <= Directories
                                 /\ (k > 1 => k - 1 \in 1..Directories)
BY LockPathAssumption DEF Levels, File

\* What exists is an object.
LEMMA ObjectsExist ==
    ASSUME PathTypes, NEW k \in Levels
    PROVE  /\ Exists(k) <=> fs[k] \in Objects
           /\ ~Exists(k) <=> fs[k] = Absent
           /\ start[k] # Absent => start[k].kind # "none"
<1>1. Absent.kind = "none" /\ \A x \in Objects : x.kind # "none"
  BY DEF Absent, Objects
<1> QED BY <1>1 DEF PathTypes, Exists

\* What an opener knows stays so when another moves.
LEMMA PlacedStable ==
    ASSUME PathTypes, Kept, NEW o \in Openers, opener'[o] = opener[o], Placed(o)
    PROVE  Placed(o)'
<1>1. \A k \in Levels : Exists(k) => Exists(k)'
  BY DEF Kept, Exists
<1>2. Directories \in Levels /\ File \in Levels /\ \A k \in 1..Directories : k \in Levels
  BY LevelsAre
<1>3. opener[o].missing # {} => Outermost(opener[o].missing) \in 1..Directories
  BY OutermostIs DEF PathTypes
<1>4. DirectoryAccepted(o) => DirectoryAccepted(o)'
  BY <1>2 DEF DirectoryAccepted, IsDirectory, Kept, Exists
<1>5. Outermost(opener[o].missing)' = Outermost(opener[o].missing)
  BY DEF Outermost
<1>6. /\ Exists(Directories) => Exists(Directories)'
      /\ opener[o].missing # {} /\ Exists(Outermost(opener[o].missing))
           => Exists(Outermost(opener[o].missing))'
  BY <1>1, <1>2, <1>3, <1>5
<1>7. fs[File].kind = "file" =>
        /\ fs'[File].kind = "file" /\ fs'[File].id = fs[File].id /\ fs'[File].mine = fs[File].mine
        /\ fs[File].mode = "private" => fs'[File].mode = "private"
  BY <1>2 DEF Kept, Exists
<1> QED BY <1>4, <1>6, <1>7 DEF Placed, Kept

\* So a step of o that keeps the types and what was there keeps the invariant, if o
\* knows what it should.
LEMMA StepKeepsPath ==
    ASSUME PathInv, PathTypes', Untouched', Pure', Kept, NEW o \in Openers, Placed(o)',
           \A q \in Openers \ {o} : opener'[q] = opener[q]
    PROVE  PathInv'
BY PlacedStable DEF PathInv

\* A step that changes no object keeps all but what its opener knows.
LEMMA LookKeeps ==
    ASSUME PathInv, NEW o \in Openers, UNCHANGED <<platform, fs, calm, start>>,
           NEW s \in [pc : Steps, at : 1..Directories, missing : SUBSET (1..Directories),
                      file : Nat],
           opener' = [opener EXCEPT ![o] = s], opener'[o] = s => Placed(o)'
    PROVE  PathInv'
<1>1. /\ PathTypes' /\ opener'[o] = s
      /\ \A q \in Openers \ {o} : opener'[q] = opener[q]
  BY DEF PathInv, PathTypes
<1>2. Untouched' /\ Pure'
  BY DEF PathInv, Untouched, Pure, Exists
<1>3. Kept
  BY DEF PathInv, PathTypes, Kept, Exists
<1> QED BY <1>1, <1>2, <1>3, StepKeepsPath

\* One object changes: it is made where there was none, or becomes private.
LEMMA ChangeKeeps ==
    ASSUME PathInv, NEW k \in Levels, NEW x \in Objects, fs' = [fs EXCEPT ![k] = x],
           UNCHANGED <<platform, start>>, calm' \in BOOLEAN, calm' => calm,
           Exists(k) => /\ x = [fs[k] EXCEPT !.mode = "private"]
                        /\ platform = "unix" => start[k] = Absent,
           ~Exists(k) =>
              /\ k \in 1..Directories => x.kind = "dir" /\ x.mine /\ (calm' => x.mode # "write")
              /\ k = File => /\ x.kind = "file" /\ x.mine
                             /\ platform = "unix" => x.mode = "private"
    PROVE  /\ Untouched' /\ Pure' /\ Kept
           /\ fs' \in [Levels -> Objects \cup {Absent}]
           /\ fs'[k] = x
<1>1. /\ fs' \in [Levels -> Objects \cup {Absent}] /\ fs'[k] = x
      /\ \A j \in Levels \ {k} : fs'[j] = fs[j]
  BY DEF PathInv, PathTypes
<1>2. Exists(k) => /\ x.kind = fs[k].kind /\ x.mine = fs[k].mine /\ x.id = fs[k].id
                   /\ x.mode = "private"
  <2>1. Exists(k) => fs[k] \in Objects
    BY ObjectsExist DEF PathInv
  <2> QED BY <2>1 DEF Objects
<1>3. Kept
  BY <1>1, <1>2 DEF Kept, Exists
<1>4. Untouched'
  <2>1. ~Exists(k) /\ platform = "unix" => start[k] = Absent
    <3>1. start[k] # Absent => start[k].kind # "none"
      BY ObjectsExist DEF PathInv
    <3> QED BY <3>1 DEF PathInv, Untouched, Exists
  <2>2. platform = "unix" => start[k] = Absent
    BY <2>1
  <2> QED BY <1>1, <2>2 DEF PathInv, Untouched
<1>5. Pure'
  <2> SUFFICES ASSUME calm'
               PROVE  /\ \A j \in 1..Directories :
                            Exists(j)' =>
                              fs'[j].kind = "dir" /\ fs'[j].mine /\ fs'[j].mode # "write"
                      /\ Exists(File)' => /\ fs'[File].kind = "file" /\ fs'[File].mine
                                          /\ platform = "unix" => fs'[File].mode = "private"
    BY DEF Pure
  <2>1. ASSUME NEW j \in 1..Directories, Exists(j)'
        PROVE  fs'[j].kind = "dir" /\ fs'[j].mine /\ fs'[j].mode # "write"
    <3>1. j \in Levels
      BY LevelsAre
    <3>2. CASE j # k
      BY <1>1, <2>1, <3>1, <3>2 DEF PathInv, Pure, Exists
    <3>3. CASE j = k
      BY <1>1, <1>2, <3>3 DEF PathInv, Pure
    <3> QED BY <3>2, <3>3
  <2>2. ASSUME Exists(File)'
        PROVE  /\ fs'[File].kind = "file" /\ fs'[File].mine
               /\ platform = "unix" => fs'[File].mode = "private"
    <3>1. File \in Levels
      BY LevelsAre
    <3>2. CASE File # k
      BY <1>1, <2>2, <3>1, <3>2 DEF PathInv, Pure, Exists
    <3>3. CASE File = k
      BY <1>1, <1>2, <3>3 DEF PathInv, Pure
    <3> QED BY <3>2, <3>3
  <2> QED BY <2>1, <2>2
<1> QED BY <1>1, <1>3, <1>4, <1>5
-------------------------------------------------------------------------------
\* An opener knows what its step finds out: one lemma per step.
LEMMA WalkKeeps ==
    ASSUME PathInv, NEW o \in Openers, Walk(o)
    PROVE  PathInv'
<1> DEFINE s == opener[o]
           k == s.at
           up == [s EXCEPT !.missing = @ \cup {k}, !.at = IF k > 1 THEN k - 1 ELSE k,
                           !.pc = IF k > 1 THEN "walk" ELSE "make"]
<1>1. /\ s \in [pc : Steps, at : 1..Directories, missing : SUBSET (1..Directories), file : Nat]
      /\ k \in 1..Directories /\ s.pc = "walk" /\ UNCHANGED <<platform, fs, calm, start>>
      /\ Placed(o) /\ PathTypes
  BY DEF PathInv, PathTypes, Walk
<1>2. /\ k \in Levels /\ (k > 1 => k - 1 \in 1..Directories) /\ Directories \in Levels
  BY <1>1, LevelsAre
<1>3. CASE ~Exists(k) /\ opener' = [opener EXCEPT ![o] = up]
  <2>1. up \in [pc : Steps, at : 1..Directories, missing : SUBSET (1..Directories), file : Nat]
    BY <1>1, <1>2 DEF Steps
  <2>2. platform = "unix" => start[k] = Absent
    <3>1. fs[k] = Absent /\ (start[k] # Absent => start[k].kind # "none") /\ Absent.kind = "none"
      BY <1>1, <1>2, <1>3, ObjectsExist DEF Absent
    <3> QED BY <1>2, <3>1 DEF PathInv, Untouched
  <2>3. Directories \in up.missing /\ \A j \in up.missing : platform = "unix" => start[j] = Absent
    BY <1>1, <2>2 DEF Placed
  <2>4. up.pc \in {"walk", "make"}
    BY <1>1
  <2>5. ASSUME opener'[o] = up PROVE Placed(o)'
    <3> HIDE DEF up, s, k
    <3> QED BY <1>1, <2>3, <2>4, <2>5 DEF Placed
  <2> HIDE DEF up
  <2> QED BY <1>1, <1>3, <2>1, <2>5, LookKeeps
<1>4. ASSUME NEW pc \in {"refused", "make"}, opener' = [opener EXCEPT ![o].pc = pc],
             Exists(k), pc = "refused" => ~IsDirectory(k)
      PROVE  PathInv'
  <2> DEFINE next == [s EXCEPT !.pc = pc]
  <2>1. /\ next \in [pc : Steps, at : 1..Directories, missing : SUBSET (1..Directories), file : Nat]
        /\ opener' = [opener EXCEPT ![o] = next]
    BY <1>1, <1>4 DEF Steps
  <2>2. pc = "refused" => ~calm
    BY <1>1, <1>4 DEF PathInv, Pure, IsDirectory
  <2>3. Directories \in s.missing \/ Exists(Directories)
    BY <1>1, <1>4 DEF Placed
  <2>4. ASSUME opener'[o] = next PROVE Placed(o)'
    BY <1>1, <2>2, <2>3, <2>4 DEF Placed, Exists
  <2> HIDE DEF next
  <2> QED BY <1>1, <2>1, <2>4, LookKeeps
<1>5. IsDirectory(k) => Exists(k)
  BY DEF IsDirectory, Exists
<1> QED BY <1>3, <1>4, <1>5 DEF Walk, Reach

\* Making a missing directory keeps it, also if another opener just made it.
LEMMA MakeDirectoryKeeps ==
    ASSUME PathInv, NEW o \in Openers, MakeDirectory(o)
    PROVE  PathInv'
<1> DEFINE s == opener[o]
           k == Outermost(s.missing)
           next == [s EXCEPT !.pc = "settle"]
           x == Object("dir", TRUE, IF platform = "unix" THEN "private" ELSE "read", 0)
<1>1. /\ s \in [pc : Steps, at : 1..Directories, missing : SUBSET (1..Directories), file : Nat]
      /\ s.pc = "make" /\ s.missing # {} /\ UNCHANGED <<platform, calm, start>>
      /\ Placed(o) /\ PathTypes /\ opener' = [opener EXCEPT ![o] = next]
  BY DEF PathInv, PathTypes, MakeDirectory, Reach
<1>2. k \in s.missing /\ k \in 1..Directories /\ k \in Levels /\ k # File /\ Directories \in Levels
  BY <1>1, OutermostIs, LevelsAre
<1>3. next \in [pc : Steps, at : 1..Directories, missing : SUBSET (1..Directories), file : Nat]
  BY <1>1 DEF Steps
<1>4. /\ next.pc = "settle" /\ next.missing = s.missing
      /\ \A j \in s.missing : platform = "unix" => start[j] = Absent
      /\ Directories \in s.missing \/ Exists(Directories)
  BY <1>1 DEF Placed
<1>5. CASE Exists(k) /\ UNCHANGED fs
  <2>1. ASSUME opener'[o] = next PROVE Placed(o)'
    <3>1. Outermost(next.missing)' = k /\ Exists(k)'
      BY <1>5, <1>4, <2>1 DEF Exists, Outermost
    <3> HIDE DEF next, s, k
    <3> QED BY <1>1, <1>4, <1>5, <2>1, <3>1 DEF Placed, Exists, s, k
  <2> HIDE DEF next
  <2> QED BY <1>1, <1>3, <1>5, <2>1, LookKeeps
<1>6. CASE ~Exists(k) /\ fs' = [fs EXCEPT ![k] = x]
  <2>1. x \in Objects /\ x.kind = "dir" /\ x.mine /\ x.mode # "write" /\ x.kind # "none"
    BY DEF Object, Objects
  <2> HIDE DEF x
  <2>2. /\ Untouched' /\ Pure' /\ Kept /\ fs' \in [Levels -> Objects \cup {Absent}]
        /\ fs'[k] = x
    <3> HIDE DEF k
    <3> QED BY <1>1, <1>2, <1>6, <2>1, ChangeKeeps DEF PathTypes
  <2>3. PathTypes' /\ opener'[o] = next /\ \A q \in Openers \ {o} : opener'[q] = opener[q]
    <3> HIDE DEF next
    <3> QED BY <1>1, <1>3, <2>2 DEF PathTypes
  <2>4. Placed(o)'
    <3>1. opener'[o].missing = s.missing /\ opener'[o].pc = "settle"
      BY <1>4, <2>3
    <3>2. fs'[Outermost(opener'[o].missing)].kind # "none"
      BY <2>1, <2>2, <3>1
    <3>3. Exists(Directories) => Exists(Directories)'
      BY <1>2, <2>2 DEF Exists, Kept
    <3> QED BY <1>1, <1>4, <3>1, <3>2, <3>3 DEF Placed, Exists
  <2> QED BY <2>2, <2>3, <2>4, StepKeepsPath
<1> QED BY <1>5, <1>6 DEF MakeDirectory

\* Tightening a directory keeps it: on Unix it is none that was there at first.
LEMMA SettleDirectoryKeeps ==
    ASSUME PathInv, NEW o \in Openers, SettleDirectory(o)
    PROVE  PathInv'
<1> DEFINE s == opener[o]
           k == Outermost(s.missing)
<1>1. /\ s \in [pc : Steps, at : 1..Directories, missing : SUBSET (1..Directories), file : Nat]
      /\ s.pc = "settle" /\ UNCHANGED <<platform, calm, start>>
      /\ Placed(o) /\ PathTypes
  BY DEF PathInv, PathTypes, SettleDirectory
<1>2. s.missing # {} /\ Exists(k)
  BY <1>1 DEF Placed
<1>3. k \in s.missing /\ k \in 1..Directories /\ k \in Levels /\ k # File /\ Directories \in Levels
  BY <1>1, <1>2, OutermostIs, LevelsAre
<1>4. /\ \A j \in s.missing : platform = "unix" => start[j] = Absent
      /\ Directories \in s.missing \/ Exists(Directories)
  BY <1>1 DEF Placed
<1>5. CASE ~(IsDirectory(k) /\ fs[k].mine) /\ Reach(o, "refused") /\ UNCHANGED fs
  <2> DEFINE next == [s EXCEPT !.pc = "refused"]
  <2>1. /\ next \in [pc : Steps, at : 1..Directories, missing : SUBSET (1..Directories), file : Nat]
        /\ opener' = [opener EXCEPT ![o] = next] /\ next.pc = "refused"
    BY <1>1, <1>5 DEF Steps, Reach
  <2>2. ~calm
    BY <1>2, <1>3, <1>5 DEF PathInv, Pure, IsDirectory
  <2>3. ASSUME opener'[o] = next PROVE Placed(o)'
    <3> HIDE DEF next
    <3> QED BY <1>1, <2>1, <2>2, <2>3 DEF Placed
  <2> HIDE DEF next
  <2> QED BY <1>1, <1>5, <2>1, <2>3, LookKeeps
<1>6. CASE /\ IsDirectory(k) /\ fs[k].mine /\ fs' = [fs EXCEPT ![k].mode = "private"]
           /\ opener' = [opener EXCEPT ![o].missing = @ \ {k}, ![o].pc = "make"]
  <2> DEFINE next == [s EXCEPT !.missing = @ \ {k}, !.pc = "make"]
             x == [fs[k] EXCEPT !.mode = "private"]
  <2>1. /\ next \in [pc : Steps, at : 1..Directories, missing : SUBSET (1..Directories), file : Nat]
        /\ next.pc = "make" /\ next.missing = s.missing \ {k}
        /\ opener' = [opener EXCEPT ![o] = next]
    <3> HIDE DEF k
    <3> QED BY <1>1, <1>6 DEF Steps
  <2>2. x \in Objects /\ fs' = [fs EXCEPT ![k] = x]
    <3>1. fs[k] \in Objects
      BY <1>1, <1>2, <1>3, ObjectsExist
    <3> HIDE DEF k
    <3> QED BY <3>1, <1>6 DEF Objects
  <2>3. /\ Untouched' /\ Pure' /\ Kept /\ fs' \in [Levels -> Objects \cup {Absent}]
    <3>1. x = [fs[k] EXCEPT !.mode = "private"] /\ (platform = "unix" => start[k] = Absent)
      BY <1>3, <1>4
    <3> HIDE DEF k, x
    <3> QED BY <1>1, <1>2, <1>3, <2>2, <3>1, ChangeKeeps DEF PathTypes
  <2>4. PathTypes' /\ opener'[o] = next /\ \A q \in Openers \ {o} : opener'[q] = opener[q]
    <3> HIDE DEF next
    <3> QED BY <1>1, <2>1, <2>3 DEF PathTypes
  <2>5. Placed(o)'
    <3>1. fs'[k].kind # "none" /\ (Exists(Directories) => Exists(Directories)')
      BY <1>2, <1>3, <2>3 DEF Exists, Kept
    <3>2. Directories \in next.missing \/ Exists(Directories)'
      <4> HIDE DEF next
      <4> QED BY <1>4, <2>1, <3>1 DEF Exists
    <3>3. opener'[o].missing = s.missing \ {k} /\ opener'[o].pc = "make"
      BY <2>1, <2>4
    <3> HIDE DEF next, k
    <3> QED BY <1>1, <1>4, <2>1, <2>4, <3>2, <3>3 DEF Placed
  <2> QED BY <2>3, <2>4, <2>5, StepKeepsPath
<1> QED BY <1>5, <1>6 DEF SettleDirectory

\* Validating the parent keeps it.
LEMMA ValidateDirectoryKeeps ==
    ASSUME PathInv, NEW o \in Openers, ValidateDirectory(o)
    PROVE  PathInv'
<1> DEFINE s == opener[o]
           pc == IF DirectoryAccepted(o) THEN "open" ELSE "refused"
           next == [s EXCEPT !.pc = pc]
<1>1. /\ s \in [pc : Steps, at : 1..Directories, missing : SUBSET (1..Directories), file : Nat]
      /\ s.pc = "make" /\ s.missing = {} /\ UNCHANGED <<platform, fs, calm, start>>
      /\ Placed(o) /\ PathTypes
  BY DEF PathInv, PathTypes, ValidateDirectory
<1>2. /\ next \in [pc : Steps, at : 1..Directories, missing : SUBSET (1..Directories), file : Nat]
      /\ next.pc = pc /\ opener' = [opener EXCEPT ![o] = next]
  BY <1>1 DEF Steps, Reach, ValidateDirectory
<1>3. Exists(Directories) /\ Directories \in 1..Directories
  BY <1>1, LevelsAre DEF Placed
<1>4. pc = "refused" => ~calm
  BY <1>3 DEF DirectoryAccepted, PathInv, Pure, IsDirectory
<1>5. ASSUME opener'[o] = next PROVE Placed(o)'
  <2> HIDE DEF next
  <2>1. DirectoryAccepted(o)' <=> DirectoryAccepted(o)
    BY <1>1 DEF DirectoryAccepted, IsDirectory
  <2> QED BY <1>1, <1>2, <1>4, <1>5, <2>1 DEF Placed
<1> HIDE DEF next
<1> QED BY <1>1, <1>2, <1>5, LookKeeps

\* A step that only says where o goes on, from a directory that is accepted.
LEMMA GoesOn ==
    ASSUME PathInv, NEW o \in Openers, opener[o].pc \in {"open", "create", "check"},
           UNCHANGED <<platform, fs, calm, start>>,
           NEW pc \in {"open", "create", "check", "opened", "refused"}, NEW file \in Nat,
           opener' = [opener EXCEPT ![o] = [opener[o] EXCEPT !.pc = pc, !.file = file]],
           pc \in {"check", "opened"} => fs[File].kind = "file" /\ file = fs[File].id,
           pc = "opened" => /\ platform = "unix" => fs[File].mine
                            /\ o \in Private => fs[File].mode = "private",
           pc = "refused" => ~calm
    PROVE  PathInv'
<1> DEFINE next == [opener[o] EXCEPT !.pc = pc, !.file = file]
<1>1. /\ next \in [pc : Steps, at : 1..Directories, missing : SUBSET (1..Directories), file : Nat]
      /\ next.pc = pc /\ next.file = file /\ Placed(o)
  BY DEF PathInv, PathTypes, Steps
<1>2. ASSUME opener'[o] = next PROVE Placed(o)'
  <2> HIDE DEF next
  <2>1. DirectoryAccepted(o) /\ (DirectoryAccepted(o)' <=> DirectoryAccepted(o))
    BY <1>1 DEF DirectoryAccepted, IsDirectory, Placed
  <2> QED BY <1>1, <1>2, <2>1 DEF Placed
<1> HIDE DEF next
<1> QED BY <1>1, <1>2, LookKeeps DEF next

\* Opening what exists keeps it.
LEMMA OpenExistingKeeps ==
    ASSUME PathInv, NEW o \in Openers, OpenExisting(o)
    PROVE  PathInv'
<1> DEFINE s == opener[o]
<1>1. /\ s \in [pc : Steps, at : 1..Directories, missing : SUBSET (1..Directories), file : Nat]
      /\ s.pc = "open" /\ UNCHANGED <<platform, fs, calm, start>> /\ PathTypes
  BY DEF PathInv, PathTypes, OpenExisting
<1>2. ASSUME NEW pc, Reach(o, pc)
      PROVE  opener' = [opener EXCEPT ![o] = [opener[o] EXCEPT !.pc = pc, !.file = s.file]]
  BY <1>1, <1>2 DEF Reach, PathTypes
<1>3. CASE Reach(o, "create")
  <2>1. opener' = [opener EXCEPT ![o] = [opener[o] EXCEPT !.pc = "create", !.file = s.file]]
    BY <1>2, <1>3
  <2>2. s.file \in Nat
    BY <1>1
  <2> QED BY <1>1, <2>1, <2>2, GoesOn
<1>4. CASE Exists(File) /\ fs[File].kind # "file" /\ Reach(o, "refused")
  BY <1>1, <1>2, <1>4, GoesOn DEF PathInv, Pure
<1>5. CASE /\ fs[File].kind = "file"
           /\ opener' = [opener EXCEPT ![o].pc = "check", ![o].file = fs[File].id]
  <2>1. fs[File].id \in Nat
    <3>1. fs[File] \in Objects
      BY <1>1, <1>5, ObjectsExist, LevelsAre DEF Exists
    <3> QED BY <3>1 DEF Objects
  <2>2. opener' = [opener EXCEPT ![o] = [opener[o] EXCEPT !.pc = "check", !.file = fs[File].id]]
    BY <1>1, <1>5 DEF PathTypes
  <2> QED BY <1>1, <1>5, <2>1, <2>2, GoesOn
<1> QED BY <1>3, <1>4, <1>5 DEF OpenExisting

\* Validating the file keeps it, though on Windows it is tightened first.
LEMMA ValidateFileKeeps ==
    ASSUME PathInv, NEW o \in Openers, ValidateFile(o)
    PROVE  PathInv'
<1> DEFINE s == opener[o]
           pc == IF FileAccepted(o) THEN "opened" ELSE "refused"
<1>1. /\ s \in [pc : Steps, at : 1..Directories, missing : SUBSET (1..Directories), file : Nat]
      /\ s.pc = "check" /\ UNCHANGED <<platform, calm, start>> /\ PathTypes /\ Placed(o)
      /\ opener' = [opener EXCEPT ![o] = [opener[o] EXCEPT !.pc = pc, !.file = s.file]]
  BY DEF PathInv, PathTypes, ValidateFile, Reach
<1>2. /\ fs[File].kind = "file" /\ s.file = fs[File].id /\ Exists(File) /\ DirectoryAccepted(o)
      /\ File \in Levels /\ File \notin 1..Directories /\ Directories \in 1..Directories
      /\ Directories \in Levels
  BY <1>1, LevelsAre DEF Placed, Exists
<1>3. pc = "refused" => ~calm /\ platform = "unix"
  BY <1>1, <1>2, LockPathAssumption DEF FileAccepted, PathInv, Pure, PathTypes
<1>4. CASE ~(platform = "windows" /\ o \in Private) /\ UNCHANGED fs
  <2>1. pc = "opened" => /\ platform = "unix" => fs[File].mine
                         /\ o \in Private => fs[File].mode = "private"
    BY <1>1, <1>4 DEF FileAccepted, PathTypes
  <2>2. pc \in {"opened", "refused"}
    OBVIOUS
  <2> HIDE DEF pc
  <2> QED BY <1>1, <1>2, <1>3, <1>4, <2>1, <2>2, GoesOn
<1>5. CASE /\ platform = "windows" /\ o \in Private
           /\ fs' = [fs EXCEPT ![File].mode = "private"]
  <2> DEFINE x == [fs[File] EXCEPT !.mode = "private"]
  <2>1. fs[File] \in Objects
    BY <1>1, <1>2, ObjectsExist
  <2>2. /\ x \in Objects /\ x.mode = "private" /\ x.kind = "file" /\ x.id = fs[File].id
        /\ fs' = [fs EXCEPT ![File] = x]
    BY <1>2, <1>5, <2>1 DEF Objects
  <2>3. /\ Untouched' /\ Pure' /\ Kept /\ fs' \in [Levels -> Objects \cup {Absent}]
        /\ fs'[File] = x
    <3>1. x = [fs[File] EXCEPT !.mode = "private"] /\ platform # "unix"
      BY <1>5
    <3> HIDE DEF x
    <3> QED BY <1>1, <1>2, <2>2, <3>1, ChangeKeeps DEF PathTypes
  <2>4. pc = "opened"
    BY <1>5 DEF FileAccepted
  <2>5. /\ PathTypes' /\ opener'[o].pc = "opened" /\ opener'[o].file = s.file
        /\ \A q \in Openers \ {o} : opener'[q] = opener[q]
    <3> HIDE DEF pc
    <3> QED BY <1>1, <2>3, <2>4 DEF PathTypes, Steps
  <2>6. DirectoryAccepted(o)'
    BY <1>2, <2>3 DEF DirectoryAccepted, IsDirectory, Kept, Exists
  <2>7. Placed(o)'
    <3> HIDE DEF x
    <3> QED BY <1>1, <1>2, <1>5, <2>2, <2>3, <2>5, <2>6 DEF Placed
  <2> QED BY <2>3, <2>5, <2>7, StepKeepsPath
<1> QED BY <1>4, <1>5 DEF ValidateFile

\* Creating the file keeps it: nothing has its name.
LEMMA CreateExclusiveKeeps ==
    ASSUME PathInv, NEW o \in Openers, CreateExclusive(o)
    PROVE  PathInv'
<1> DEFINE s == opener[o]
           fresh == 1 + IF Exists(File) THEN fs[File].id ELSE 0
           x == Object("file", TRUE, IF platform = "unix" THEN "private" ELSE "read", fresh)
           next == [s EXCEPT !.pc = "tighten", !.file = fresh]
<1>1. /\ s \in [pc : Steps, at : 1..Directories, missing : SUBSET (1..Directories), file : Nat]
      /\ s.pc = "create" /\ UNCHANGED <<platform, calm, start>> /\ PathTypes /\ Placed(o)
  BY DEF PathInv, PathTypes, CreateExclusive
<1>2. /\ File \in Levels /\ File \notin 1..Directories /\ Directories \in Levels
      /\ DirectoryAccepted(o)
  BY <1>1, LevelsAre DEF Placed
<1>3. CASE Exists(File) /\ Reach(o, "open") /\ UNCHANGED fs
  <2>1. opener' = [opener EXCEPT ![o] = [opener[o] EXCEPT !.pc = "open", !.file = s.file]]
    BY <1>1, <1>3 DEF Reach, PathTypes
  <2> QED BY <1>1, <1>3, <2>1, GoesOn
<1>4. CASE /\ ~Exists(File) /\ fs' = [fs EXCEPT ![File] = x]
           /\ opener' = [opener EXCEPT ![o].pc = "tighten", ![o].file = fresh]
  <2>1. fresh = 1
    BY <1>4
  <2>2. /\ x \in Objects /\ x.kind = "file" /\ x.mine /\ x.id = fresh
        /\ platform = "unix" => x.mode = "private"
    BY <2>1 DEF Object, Objects
  <2>3. /\ Untouched' /\ Pure' /\ Kept /\ fs' \in [Levels -> Objects \cup {Absent}]
        /\ fs'[File] = x
    <3> HIDE DEF x, fresh
    <3> QED BY <1>1, <1>2, <1>4, <2>2, ChangeKeeps DEF PathTypes
  <2>4. /\ PathTypes' /\ opener'[o].pc = "tighten" /\ opener'[o].file = fresh
        /\ \A q \in Openers \ {o} : opener'[q] = opener[q]
    <3>1. opener' = [opener EXCEPT ![o] = next]
      BY <1>1, <1>4 DEF PathTypes
    <3>2. /\ next \in [pc : Steps, at : 1..Directories, missing : SUBSET (1..Directories),
                      file : Nat]
          /\ next.pc = "tighten" /\ next.file = fresh
      <4>1. fresh \in Nat
        BY <2>1
      <4> HIDE DEF fresh
      <4> QED BY <1>1, <4>1 DEF Steps
    <3> HIDE DEF next, x, fresh
    <3> QED BY <1>1, <2>3, <3>1, <3>2 DEF PathTypes
  <2>5. DirectoryAccepted(o)'
    BY <1>1, <1>2, <2>3 DEF DirectoryAccepted, IsDirectory, Kept, Exists
  <2>6. platform = "unix" => start[File] = Absent
    <3>1. fs[File] = Absent /\ (start[File] # Absent => start[File].kind # "none")
          /\ Absent.kind = "none"
      BY <1>1, <1>2, <1>4, ObjectsExist DEF Absent
    <3> QED BY <1>2, <3>1 DEF PathInv, Untouched
  <2>7. Placed(o)'
    <3> HIDE DEF x, fresh
    <3> QED BY <1>1, <2>2, <2>3, <2>4, <2>5, <2>6 DEF Placed
  <2> QED BY <2>3, <2>4, <2>7, StepKeepsPath
<1> QED BY <1>3, <1>4 DEF CreateExclusive, MayCreate

\* Tightening the new file keeps it.
LEMMA TightenKeeps ==
    ASSUME PathInv, NEW o \in Openers, Tighten(o)
    PROVE  PathInv'
<1> DEFINE s == opener[o]
           next == [s EXCEPT !.pc = "check"]
           x == [fs[File] EXCEPT !.mode = "private"]
<1>1. /\ s \in [pc : Steps, at : 1..Directories, missing : SUBSET (1..Directories), file : Nat]
      /\ s.pc = "tighten" /\ UNCHANGED <<platform, calm, start>> /\ PathTypes /\ Placed(o)
      /\ opener' = [opener EXCEPT ![o] = next] /\ fs' = [fs EXCEPT ![File].mode = "private"]
  BY DEF PathInv, PathTypes, Tighten, Reach
<1>2. /\ File \in Levels /\ File \notin 1..Directories /\ Directories \in Levels
      /\ DirectoryAccepted(o) /\ Exists(File) /\ fs[File].kind = "file"
      /\ s.file = fs[File].id /\ (platform = "unix" => start[File] = Absent)
  BY <1>1, LevelsAre DEF Placed, Exists
<1>3. x \in Objects /\ x.kind = "file" /\ x.id = fs[File].id /\ fs' = [fs EXCEPT ![File] = x]
  <2>1. fs[File] \in Objects
    BY <1>1, <1>2, ObjectsExist
  <2>2. x \in Objects /\ x.kind = "file" /\ x.id = fs[File].id
    BY <1>2, <2>1 DEF Objects
  <2> QED BY <1>1, <2>2
<1>4. /\ Untouched' /\ Pure' /\ Kept /\ fs' \in [Levels -> Objects \cup {Absent}]
      /\ fs'[File] = x
  <2>1. x = [fs[File] EXCEPT !.mode = "private"]
    OBVIOUS
  <2> HIDE DEF x
  <2> QED BY <1>1, <1>2, <1>3, <2>1, ChangeKeeps DEF PathTypes
<1>5. /\ PathTypes' /\ opener'[o].pc = "check" /\ opener'[o].file = s.file
      /\ \A q \in Openers \ {o} : opener'[q] = opener[q]
  BY <1>1, <1>4 DEF PathTypes, Steps
<1>6. DirectoryAccepted(o)'
  BY <1>1, <1>2, <1>4 DEF DirectoryAccepted, IsDirectory, Kept, Exists
<1>7. Placed(o)'
  <2> HIDE DEF x
  <2> QED BY <1>1, <1>2, <1>3, <1>4, <1>5, <1>6 DEF Placed
<1> QED BY <1>4, <1>5, <1>7, StepKeepsPath

\* A death keeps it.
LEMMA KillKeeps ==
    ASSUME PathInv, NEW o \in Openers, Kill(o)
    PROVE  PathInv'
<1> DEFINE next == [opener[o] EXCEPT !.pc = "killed"]
<1>1. /\ next \in [pc : Steps, at : 1..Directories, missing : SUBSET (1..Directories), file : Nat]
      /\ next.pc = "killed" /\ opener' = [opener EXCEPT ![o] = next]
      /\ UNCHANGED <<platform, fs, calm, start>>
  BY DEF PathInv, PathTypes, Kill, Reach, Steps
<1>2. ASSUME opener'[o] = next PROVE Placed(o)'
  <2> HIDE DEF next
  <2> QED BY <1>1, <1>2 DEF Placed
<1> HIDE DEF next
<1> QED BY <1>1, <1>2, LookKeeps

\* A directory another program makes keeps it.
LEMMA ToolMakesKeeps ==
    ASSUME PathInv, NEW k \in 1..Directories, NEW m \in ToolModes, ToolMakes(k, m)
    PROVE  PathInv'
<1> DEFINE x == Object("dir", TRUE, m, 0)
<1>1. /\ x \in Objects /\ x.kind = "dir" /\ x.mine /\ x.mode = m
  BY LockPathAssumption DEF Object, Objects
<1>2. /\ PathTypes /\ ~Exists(k) /\ fs' = [fs EXCEPT ![k] = x]
      /\ calm' = (calm /\ m # "write") /\ UNCHANGED <<platform, opener, start>>
  BY DEF PathInv, ToolMakes
<1>3. k \in Levels /\ k # File
  BY LevelsAre
<1>4. /\ Untouched' /\ Pure' /\ Kept /\ fs' \in [Levels -> Objects \cup {Absent}]
  <2> HIDE DEF x
  <2> QED BY <1>1, <1>2, <1>3, ChangeKeeps DEF PathTypes
<1>5. PathTypes'
  <2> HIDE DEF x
  <2> QED BY <1>2, <1>4 DEF PathTypes
<1> QED BY <1>2, <1>4, <1>5, PlacedStable DEF PathInv

\* However the calls interleave, die and meet directories made by others: who opens the
\* path holds the one file there, private where it must be, in a directory others cannot
\* write; what was there keeps its permissions on Unix; and nobody is refused at a path
\* with nothing wrong in it.
THEOREM LockPathHolds == PathSpec => []LockPathTrue
<1>1. PathInit => PathInv
  <2> SUFFICES ASSUME PathInit PROVE PathInv
    OBVIOUS
  <2> USE DEF PathInit
  <2>1. PathTypes
    <3>1. fs \in [Levels -> Objects \cup {Absent}]
      BY LockPathAssumption
    <3>2. Directories \in 1..Directories /\ "walk" \in Steps
      BY LevelsAre DEF Steps
    <3>3. calm \in BOOLEAN
      BY DEF Benign
    <3> QED BY <3>1, <3>2, <3>3 DEF PathTypes
  <2>2. Pure
    BY DEF Pure, Benign, Exists
  <2>3. Untouched
    BY DEF Untouched
  <2>4. \A o \in Openers : Placed(o)
    BY DEF Placed
  <2> QED BY <2>1, <2>2, <2>3, <2>4 DEF PathInv
<1>2. PathInv /\ [PathNext]_path => PathInv'
  <2> SUFFICES ASSUME PathInv, [PathNext]_path PROVE PathInv'
    OBVIOUS
  <2>1. CASE UNCHANGED path
    <3>1. UNCHANGED <<platform, fs, opener, calm, start>>
      BY <2>1 DEF path
    <3>2. Kept
      BY <3>1 DEF PathInv, PathTypes, Kept
    <3> QED BY <3>1, <3>2, PlacedStable DEF PathInv, PathTypes, Untouched, Pure, Exists
  <2> QED BY <2>1, WalkKeeps, MakeDirectoryKeeps, SettleDirectoryKeeps, ValidateDirectoryKeeps,
             OpenExistingKeeps, CreateExclusiveKeeps, TightenKeeps, ValidateFileKeeps, KillKeeps,
             ToolMakesKeeps DEF PathNext
<1>3. PathInv => LockPathTrue
  BY DEF PathInv, Untouched, Placed, DirectoryAccepted, LockPathTrue
<1> QED BY <1>1, <1>2, <1>3, PTL DEF PathSpec
===============================================================================

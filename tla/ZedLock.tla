------------------------------ MODULE ZedLock ------------------------------
(***************************************************************************)
(* The advisory lock of src/rust-lock/lib.rs: several processes, each with *)
(* one LockManager, ask for exclusive descriptor locks on canonical paths. *)
(* A request runs acquire_blocking or try_acquire on its caller's thread,  *)
(* or a LockWaiter whose worker thread runs acquire_blocking and hands the *)
(* result to a receiver that polls, waits, times out or is dropped.        *)
(*                                                                         *)
(* stage[r] is where the thread that runs the acquisition (or later drops  *)
(* the guard) stands; caller[r] is where the code that asked stands.  The  *)
(* two meet in the mutex-protected WaitState: its `result` is full iff     *)
(* stage[r] = "published", its `receiver_alive` is caller[r] # "gone", and *)
(* its `waker` is waker[r].  The lock hierarchy check is module LockOrder; *)
(* here its refusal is one of the failures of EnterFails.                  *)
(***************************************************************************)
EXTENDS Integers, FiniteSets

CONSTANTS Requests,   \* one call of the lock API each
          Procs,      \* operating-system processes, one LockManager each
          Mortal,     \* the processes a run lets die
          Paths,      \* canonical lock identities
          Args,       \* the requests callers may make, see ArgType
          Contexts,   \* task contexts (wakers) that may poll a LockWaiter
          Limit,      \* max_waiters
          SinkPanics, \* may the event sink panic while told of Acquired?
          Condvar,    \* the sleeper of SharedWait.ready
          NoWaker, NoRequest

ArgType == [proc : Procs, path : Paths,
            via : {"blocking", "try", "waiter", "timeout"},
            policy : {"Reject", "Queue"}]

ASSUME ArgsAssumption == Args \subseteq ArgType
ASSUME LimitAssumption == Limit \in Nat \ {0}   \* LockManagerBuilder: max(1)
ASSUME NamesAssumption == /\ Mortal \subseteq Procs
                          /\ NoRequest \notin Requests
                          /\ NoWaker # Condvar
                          /\ {NoWaker, Condvar} \cap Contexts = {}
                          /\ SinkPanics \in BOOLEAN

VARIABLES
    args,      \* what each request asks for
    stage,     \* of the acquiring thread
    ok,        \* does its result hold a LockGuard (or an error)?
    caller,    \* of the code that asked
    waker,     \* WaitState.waker
    sleeper,   \* what a pending caller sleeps on, NoWaker if it runs
    notice,    \* the sleepers the worker took and has yet to wake
    holder,    \* the kernel: which request's descriptor has the file lock
    reserved,  \* ManagerInner.reserved_in_process
    active,    \* WaiterLimiter.active
    seen,      \* the value of `active` a starting request last loaded
    emitted,   \* the events the sink was told about each request
    alive      \* processes that have not died

waitVars == <<waker, sleeper, notice>>
vars == <<args, stage, ok, caller, waitVars, holder, reserved, active, seen,
          emitted, alive>>

Stages == {"idle", "loaded", "permitted", "entering", "kernel", "granted",
           "settling", "published", "held", "discarding", "unlocked",
           "closed", "dead"}
Callers == {"idle", "calling", "pending", "expired", "abandoning",
            "joining", "holding", "done", "failed", "gone", "dead"}
Events == {"Waiting", "Acquired", "Contended", "Released", "TimedOut",
           "Cancelled", "Failed"}

TypeOK == /\ args \in [Requests -> Args]
          /\ stage \in [Requests -> Stages]
          /\ ok \in [Requests -> BOOLEAN]
          /\ caller \in [Requests -> Callers]
          /\ waker \in [Requests -> Contexts \cup {NoWaker}]
          /\ sleeper \in [Requests -> Contexts \cup {NoWaker, Condvar}]
          /\ notice \in [Requests -> SUBSET (Contexts \cup {Condvar})]
          /\ holder \in [Paths -> Requests \cup {NoRequest}]
          /\ reserved \in [Procs -> SUBSET Paths]
          /\ active \in [Procs -> Int]
          /\ seen \in [Requests -> Int]
          /\ emitted \in [Requests -> SUBSET Events]
          /\ alive \in [Procs -> BOOLEAN]

Init == /\ args \in [Requests -> Args]
        /\ stage = [r \in Requests |-> "idle"]
        /\ ok = [r \in Requests |-> FALSE]
        /\ caller = [r \in Requests |-> "idle"]
        /\ waker = [r \in Requests |-> NoWaker]
        /\ sleeper = [r \in Requests |-> NoWaker]
        /\ notice = [r \in Requests |-> {}]
        /\ holder = [p \in Paths |-> NoRequest]
        /\ reserved = [c \in Procs |-> {}]
        /\ active = [c \in Procs |-> 0]
        /\ seen = [r \in Requests |-> 0]
        /\ emitted = [r \in Requests |-> {}]
        /\ alive = [c \in Procs |-> TRUE]
-----------------------------------------------------------------------------
Proc(r) == args[r].proc
Path(r) == args[r].path
Via(r) == args[r].via
Rejects(r) == args[r].policy = "Reject"
OwnThread(r) == Via(r) \in {"blocking", "try"}

\* A LockGuard for r exists somewhere and its file is still open and locked.
HasGuard(r) == \/ stage[r] \in {"granted", "held", "discarding"}
               \/ stage[r] \in {"settling", "published"} /\ ok[r]

ReceiverAlive(r) == caller[r] # "gone"
ResultReady(r) == stage[r] = "published"

Emit(r, kinds) == emitted' = [emitted EXCEPT ![r] = @ \cup kinds]
To(r, s) == stage' = [stage EXCEPT ![r] = s]
CallerTo(r, s) == caller' = [caller EXCEPT ![r] = s]
Unreserve(r) ==
    reserved' = [reserved EXCEPT ![Proc(r)] = IF Rejects(r) THEN @ \ {Path(r)} ELSE @]
DropPermit(r) == active' = [active EXCEPT ![Proc(r)] = @ - 1]

\* acquire_blocking or try_acquire returns: to its caller, or, in a worker,
\* into the closure whose permit is dropped on the way out.
Return(r, got) ==
    /\ ok' = [ok EXCEPT ![r] = got]
    /\ \/ /\ OwnThread(r)
          /\ To(r, IF got THEN "held" ELSE "closed")
          /\ CallerTo(r, IF got THEN "holding" ELSE "failed")
          /\ UNCHANGED active
       \/ /\ ~OwnThread(r)
          /\ To(r, "settling")
          /\ DropPermit(r)
          /\ UNCHANGED caller
-----------------------------------------------------------------------------
(* Starting a request.                                                     *)

\* acquire_blocking announces Waiting first; try_acquire announces nothing.
StartOwnThread(r) ==
    /\ caller[r] = "idle" /\ OwnThread(r) /\ alive[Proc(r)]
    /\ To(r, "entering")
    /\ CallerTo(r, "calling")
    /\ Emit(r, IF Via(r) = "blocking" THEN {"Waiting"} ELSE {})
    /\ UNCHANGED <<args, ok, waitVars, holder, reserved, active, seen, alive>>

\* WaiterLimiter::reserve loads the counter ...
LoadActive(r) ==
    /\ caller[r] = "idle" /\ ~OwnThread(r) /\ alive[Proc(r)]
    /\ To(r, "loaded")
    /\ CallerTo(r, "calling")
    /\ seen' = [seen EXCEPT ![r] = active[Proc(r)]]
    /\ UNCHANGED <<args, ok, waitVars, holder, reserved, active, emitted, alive>>

\* ... gives up if that value is at the limit ...
LimitReached(r) ==
    /\ stage[r] = "loaded" /\ seen[r] >= Limit
    /\ To(r, "closed")
    /\ CallerTo(r, "failed")
    /\ seen' = [seen EXCEPT ![r] = 0]
    /\ UNCHANGED <<args, ok, waitVars, holder, reserved, active, emitted, alive>>

\* Slip: a load and an add where the code has a compare-exchange.
CompareExchangeBlind(r) ==
    /\ stage[r] = "loaded" /\ seen[r] < Limit
    /\ active' = [active EXCEPT ![Proc(r)] = @ + 1]
    /\ To(r, "permitted")
    /\ seen' = [seen EXCEPT ![r] = 0]
    /\ UNCHANGED <<args, ok, caller, waitVars, holder, reserved, emitted, alive>>

\* ... and otherwise increments it only if nobody changed it in between.
CompareExchange(r) ==
    /\ stage[r] = "loaded" /\ seen[r] < Limit
    /\ \/ /\ active[Proc(r)] = seen[r]
          /\ active' = [active EXCEPT ![Proc(r)] = seen[r] + 1]
          /\ To(r, "permitted")
          /\ seen' = [seen EXCEPT ![r] = 0]
       \/ /\ active[Proc(r)] # seen[r]
          /\ seen' = [seen EXCEPT ![r] = active[Proc(r)]]
          /\ UNCHANGED <<active, stage>>
    /\ UNCHANGED <<args, ok, caller, waitVars, holder, reserved, emitted, alive>>

\* The worker starts and calls acquire_blocking; the caller has a LockWaiter.
Spawn(r) ==
    /\ stage[r] = "permitted"
    /\ To(r, "entering")
    /\ CallerTo(r, "pending")
    /\ Emit(r, {"Waiting"})
    /\ UNCHANGED <<args, ok, waitVars, holder, reserved, active, seen, alive>>

\* Slip: the caller gets a LockWaiter although no worker runs.
SpawnFailsSilently(r) ==
    /\ stage[r] = "permitted"
    /\ To(r, "closed")
    /\ CallerTo(r, "pending")
    /\ DropPermit(r)
    /\ UNCHANGED <<args, ok, waitVars, holder, reserved, seen, emitted, alive>>

\* The closure is dropped unrun, and the permit with it.
SpawnFails(r) ==
    /\ stage[r] = "permitted"
    /\ To(r, "closed")
    /\ CallerTo(r, "failed")
    /\ DropPermit(r)
    /\ UNCHANGED <<args, ok, waitVars, holder, reserved, seen, emitted, alive>>
-----------------------------------------------------------------------------
(* acquire_blocking and try_acquire.                                       *)

FailedEvent(r) == IF Via(r) = "try" THEN {} ELSE {"Failed"}

\* open_lock_file or check_lock_order fails.
EnterFails(r) ==
    /\ stage[r] = "entering"
    /\ Return(r, FALSE)
    /\ Emit(r, FailedEvent(r))
    /\ UNCHANGED <<args, waitVars, holder, reserved, seen, alive>>

Reserve(r) ==
    /\ stage[r] = "entering"
    /\ Rejects(r) => Path(r) \notin reserved[Proc(r)]
    /\ reserved' = [reserved EXCEPT ![Proc(r)] = IF Rejects(r) THEN @ \cup {Path(r)} ELSE @]
    /\ To(r, "kernel")
    /\ UNCHANGED <<args, ok, caller, waitVars, holder, active, seen, emitted, alive>>

ReserveRefused(r) ==
    /\ stage[r] = "entering"
    /\ Rejects(r) /\ Path(r) \in reserved[Proc(r)]
    /\ Return(r, FALSE)
    /\ Emit(r, FailedEvent(r))
    /\ UNCHANGED <<args, waitVars, holder, reserved, seen, alive>>

\* The kernel gives the file lock to one of the descriptors that want it.
Grant(r) ==
    /\ stage[r] = "kernel"
    /\ holder[Path(r)] = NoRequest
    /\ holder' = [holder EXCEPT ![Path(r)] = r]
    /\ To(r, "granted")
    /\ UNCHANGED <<args, ok, caller, waitVars, reserved, active, seen, emitted, alive>>

\* try_lock_exclusive reports contention.
Contended(r) ==
    /\ stage[r] = "kernel" /\ Via(r) = "try"
    /\ holder[Path(r)] # NoRequest
    /\ Return(r, FALSE)
    /\ Unreserve(r)
    /\ Emit(r, {"Contended"})
    /\ UNCHANGED <<args, waitVars, holder, seen, alive>>

\* Slip: an early return that forgets remove_reservation.
KernelErrorKeepsReservation(r) ==
    /\ stage[r] = "kernel"
    /\ Return(r, FALSE)
    /\ Emit(r, {"Failed"})
    /\ UNCHANGED <<args, waitVars, holder, reserved, seen, alive>>

\* Any other error of the lock system call.
KernelError(r) ==
    /\ stage[r] = "kernel"
    /\ Return(r, FALSE)
    /\ Unreserve(r)
    /\ Emit(r, {"Failed"})
    /\ UNCHANGED <<args, waitVars, holder, seen, alive>>

Acquired(r) ==
    /\ stage[r] = "granted"
    /\ Return(r, TRUE)
    /\ Emit(r, {"Acquired"})
    /\ UNCHANGED <<args, waitVars, holder, reserved, seen, alive>>

\* Slip: the guard is handed out although its file is closed.
AcquiredSinkPanicsUnnoticed(r) ==
    /\ SinkPanics
    /\ stage[r] = "granted"
    /\ Return(r, TRUE)
    /\ holder' = [holder EXCEPT ![Path(r)] = NoRequest]
    /\ UNCHANGED <<args, waitVars, reserved, seen, emitted, alive>>

\* The sink panics on Acquired: the file is closed by unwinding, no guard was
\* built yet to give the reservation back, and a worker turns the panic into
\* an error.
AcquiredSinkPanics(r) ==
    /\ SinkPanics
    /\ stage[r] = "granted"
    /\ Return(r, FALSE)
    /\ holder' = [holder EXCEPT ![Path(r)] = NoRequest]
    /\ UNCHANGED <<args, waitVars, reserved, seen, emitted, alive>>
-----------------------------------------------------------------------------
(* The worker hands its result over.                                       *)

\* Slip: the slot is filled without looking at receiver_alive.
PublishToNobody(r) ==
    /\ stage[r] = "settling"
    /\ To(r, "published")
    /\ notice' = [notice EXCEPT ![r] = {Condvar} \cup ({waker[r]} \ {NoWaker})]
    /\ waker' = [waker EXCEPT ![r] = NoWaker]
    /\ UNCHANGED <<args, ok, caller, sleeper, holder, reserved, active, seen, emitted, alive>>

\* Slip: a waker is woken whether or not there is one.
PublishUnwrapped(r) ==
    /\ stage[r] = "settling" /\ ReceiverAlive(r)
    /\ To(r, "published")
    /\ notice' = [notice EXCEPT ![r] = {Condvar, waker[r]}]
    /\ waker' = [waker EXCEPT ![r] = NoWaker]
    /\ UNCHANGED <<args, ok, caller, sleeper, holder, reserved, active, seen, emitted, alive>>

\* PublishResult: under the mutex, fill the slot and take the waker.
Publish(r) ==
    /\ stage[r] = "settling" /\ ReceiverAlive(r)
    /\ To(r, "published")
    /\ notice' = [notice EXCEPT ![r] = {Condvar} \cup ({waker[r]} \ {NoWaker})]
    /\ waker' = [waker EXCEPT ![r] = NoWaker]
    /\ UNCHANGED <<args, ok, caller, sleeper, holder, reserved, active, seen, emitted, alive>>

\* Slip: the guard nobody takes is forgotten instead of dropped.
ReleaseDetachedForgets(r) ==
    /\ stage[r] = "settling" /\ ~ReceiverAlive(r)
    /\ To(r, "closed")
    /\ UNCHANGED <<args, ok, caller, waitVars, holder, reserved, active, seen, emitted, alive>>

\* ReleaseDetached: nobody is left to take it.
ReleaseDetached(r) ==
    /\ stage[r] = "settling" /\ ~ReceiverAlive(r)
    /\ To(r, IF ok[r] THEN "discarding" ELSE "closed")
    /\ UNCHANGED <<args, ok, caller, waitVars, holder, reserved, active, seen, emitted, alive>>

\* Slip: notify_all, and the waker that was taken is dropped.
NotifyCondvarOnly(r) ==
    /\ notice[r] # {}
    /\ notice' = [notice EXCEPT ![r] = {}]
    /\ sleeper' = [sleeper EXCEPT ![r] = IF @ = Condvar THEN NoWaker ELSE @]
    /\ UNCHANGED <<args, stage, ok, caller, waker, holder, reserved, active, seen,
                   emitted, alive>>

\* Outside the mutex: notify_all, then wake the waker that was taken.
Notify(r) ==
    /\ notice[r] # {}
    /\ notice' = [notice EXCEPT ![r] = {}]
    /\ sleeper' = [sleeper EXCEPT ![r] = IF @ \in notice[r] THEN NoWaker ELSE @]
    /\ UNCHANGED <<args, stage, ok, caller, waker, holder, reserved, active, seen,
                   emitted, alive>>
-----------------------------------------------------------------------------
(* The receiver: poll, wait, wait_timeout, drop.                           *)

Awake(r) == caller[r] = "pending" /\ sleeper[r] = NoWaker
Asleep(r) == caller[r] = "pending" /\ sleeper[r] # NoWaker
Wakes(r) == sleeper' = [sleeper EXCEPT ![r] = NoWaker]

\* An empty slot: sleep on the condition variable ...
ParkOnCondvar(r) ==
    /\ Awake(r) /\ ~ResultReady(r)
    /\ sleeper' = [sleeper EXCEPT ![r] = Condvar]
    /\ UNCHANGED <<args, stage, ok, caller, waker, notice, holder, reserved, active,
                   seen, emitted, alive>>

\* Slip: the first waker stays.
PollPendingKeepsFirst(r, c) ==
    /\ Awake(r) /\ ~ResultReady(r) /\ Via(r) = "waiter"
    /\ sleeper' = [sleeper EXCEPT ![r] = c]
    /\ waker' = [waker EXCEPT ![r] = IF @ = NoWaker THEN c ELSE @]
    /\ UNCHANGED <<args, stage, ok, caller, notice, holder, reserved, active, seen,
                   emitted, alive>>

\* ... or, in poll, leave the waker of this context in the slot, replacing
\* one that would wake another task.
PollPending(r, c) ==
    /\ Awake(r) /\ ~ResultReady(r) /\ Via(r) = "waiter"
    /\ sleeper' = [sleeper EXCEPT ![r] = c]
    /\ waker' = [waker EXCEPT ![r] = c]
    /\ UNCHANGED <<args, stage, ok, caller, notice, holder, reserved, active, seen,
                   emitted, alive>>

\* A sleeper runs again without having been woken by the worker: a spurious
\* condvar wake-up, a wait_timeout that returned, a poll the executor makes
\* for a reason of its own (perhaps from another task).
SpuriousWake(r) ==
    /\ Asleep(r)
    /\ Wakes(r)
    /\ UNCHANGED <<args, stage, ok, caller, waker, notice, holder, reserved, active,
                   seen, emitted, alive>>

\* A full slot: take the result, then join the worker before returning it.
TakeResult(r) ==
    /\ Awake(r) /\ ResultReady(r)
    /\ CallerTo(r, "joining")
    /\ To(r, IF ok[r] THEN "held" ELSE "closed")
    /\ UNCHANGED <<args, ok, waitVars, holder, reserved, active, seen, emitted, alive>>

Join(r) ==
    /\ caller[r] = "joining" /\ notice[r] = {}
    /\ CallerTo(r, IF ok[r] THEN "holding" ELSE "failed")
    /\ UNCHANGED <<args, stage, ok, waitVars, holder, reserved, active, seen, emitted, alive>>

\* acquire_timeout: the deadline passes and the slot is still empty.
Expire(r) ==
    /\ caller[r] = "pending" /\ Via(r) = "timeout" /\ ~ResultReady(r)
    /\ CallerTo(r, "expired")
    /\ Wakes(r)
    /\ UNCHANGED <<args, stage, ok, waker, notice, holder, reserved, active, seen,
                   emitted, alive>>

\* Slip: the dropped waiter announces a cancellation as well.
AnnounceTimeoutTwice(r) ==
    /\ caller[r] = "expired"
    /\ CallerTo(r, "abandoning")
    /\ Emit(r, {"TimedOut", "Cancelled"})
    /\ UNCHANGED <<args, stage, ok, waitVars, holder, reserved, active, seen, alive>>

\* acquire_timeout: announce TimedOut and silence the waiter's own event.
AnnounceTimeout(r) ==
    /\ caller[r] = "expired"
    /\ CallerTo(r, "abandoning")
    /\ Emit(r, {"TimedOut"})
    /\ UNCHANGED <<args, stage, ok, waitVars, holder, reserved, active, seen, alive>>

\* A pending LockWaiter is dropped (not while its owner is inside wait):
\* on_cancel runs first, outside the mutex.
Cancel(r) ==
    /\ caller[r] = "pending" /\ Via(r) = "waiter" /\ sleeper[r] # Condvar
    /\ CallerTo(r, "abandoning")
    /\ Emit(r, {"Cancelled"})
    /\ Wakes(r)
    /\ UNCHANGED <<args, stage, ok, waker, notice, holder, reserved, active, seen, alive>>

\* Slip: drop joins the worker, as finish does.
DropReceiverJoins(r) ==
    /\ caller[r] = "abandoning"
    /\ stage[r] \notin {"entering", "kernel", "granted", "settling"}
    /\ CallerTo(r, "gone")
    /\ waker' = [waker EXCEPT ![r] = NoWaker]
    /\ To(r, IF ~ResultReady(r) THEN stage[r]
             ELSE IF ok[r] THEN "discarding" ELSE "closed")
    /\ UNCHANGED <<args, ok, sleeper, notice, holder, reserved, active, seen,
                   emitted, alive>>

\* LockWaiter::drop under the mutex; what the slot held is dropped after it.
DropReceiver(r) ==
    /\ caller[r] = "abandoning"
    /\ CallerTo(r, "gone")
    /\ waker' = [waker EXCEPT ![r] = NoWaker]
    /\ To(r, IF ~ResultReady(r) THEN stage[r]
             ELSE IF ok[r] THEN "discarding" ELSE "closed")
    /\ UNCHANGED <<args, ok, sleeper, notice, holder, reserved, active, seen,
                   emitted, alive>>
-----------------------------------------------------------------------------
(* LockGuard::release_inner and LockGuard::drop.                           *)

\* Slip: the reservation is given back while the file is still locked.
UnlockLate(r) ==
    /\ Unreserve(r)
    /\ To(r, "unlocked")
    /\ UNCHANGED <<args, ok, waitVars, holder, active, seen, emitted, alive>>

Unlock(r) ==
    /\ holder' = [holder EXCEPT ![Path(r)] = NoRequest]
    /\ To(r, "unlocked")
    /\ UNCHANGED <<args, ok, waitVars, reserved, active, seen, emitted, alive>>

\* The caller is finished with its guard.
ReleaseGuard(r) ==
    /\ stage[r] = "held" /\ caller[r] = "holding"
    /\ CallerTo(r, "done")
    /\ Unlock(r)

\* A guard nobody received is dropped by whoever found it.
DropGuard(r) ==
    /\ stage[r] = "discarding"
    /\ UNCHANGED caller
    /\ Unlock(r)

FinishRelease(r) ==
    /\ stage[r] = "unlocked"
    /\ To(r, "closed")
    /\ Unreserve(r)
    /\ Emit(r, {"Released"})
    /\ UNCHANGED <<args, ok, caller, waitVars, holder, active, seen, alive>>

\* A process dies; the kernel closes its descriptors.
Crash(c) ==
    LET mine == {r \in Requests : Proc(r) = c /\ caller[r] # "idle"} IN
    /\ c \in Mortal /\ alive[c]
    /\ alive' = [alive EXCEPT ![c] = FALSE]
    /\ stage' = [r \in Requests |-> IF r \in mine THEN "dead" ELSE stage[r]]
    /\ caller' = [r \in Requests |-> IF r \in mine THEN "dead" ELSE caller[r]]
    /\ notice' = [r \in Requests |-> IF r \in mine THEN {} ELSE notice[r]]
    /\ waker' = [r \in Requests |-> IF r \in mine THEN NoWaker ELSE waker[r]]
    /\ sleeper' = [r \in Requests |-> IF r \in mine THEN NoWaker ELSE sleeper[r]]
    /\ holder' = [p \in Paths |-> IF holder[p] \in mine THEN NoRequest ELSE holder[p]]
    /\ reserved' = [reserved EXCEPT ![c] = {}]
    /\ active' = [active EXCEPT ![c] = 0]
    /\ UNCHANGED <<args, ok, seen, emitted>>

Receiving == {"pending", "expired", "abandoning", "gone"}
Over == {"done", "failed", "gone", "dead"}

\* Nothing is left to do: every request has been made and is over.
Terminated ==
    /\ \A r \in Requests : \/ caller[r] \in Over /\ stage[r] \in {"closed", "dead"}
                           \/ caller[r] = "idle" /\ ~alive[Proc(r)]
    /\ UNCHANGED vars
-----------------------------------------------------------------------------
Start(r) == \/ StartOwnThread(r) \/ LoadActive(r) \/ LimitReached(r)
            \/ CompareExchange(r) \/ Spawn(r) \/ SpawnFails(r)
Attempt(r) == \/ EnterFails(r) \/ Reserve(r) \/ ReserveRefused(r) \/ Grant(r)
              \/ Contended(r) \/ KernelError(r) \/ Acquired(r)
              \/ AcquiredSinkPanics(r)
HandOver(r) == Publish(r) \/ ReleaseDetached(r) \/ Notify(r)
Receive(r) == \/ ParkOnCondvar(r) \/ (\E c \in Contexts : PollPending(r, c))
              \/ SpuriousWake(r) \/ TakeResult(r) \/ Join(r) \/ Expire(r)
              \/ AnnounceTimeout(r) \/ Cancel(r) \/ DropReceiver(r)
LetGo(r) == ReleaseGuard(r) \/ DropGuard(r) \/ FinishRelease(r)

Next == \/ \E r \in Requests :
             Start(r) \/ Attempt(r) \/ HandOver(r) \/ Receive(r) \/ LetGo(r)
        \/ \E c \in Procs : Crash(c)
        \/ Terminated

Spec == Init /\ [][Next]_vars
-----------------------------------------------------------------------------
(* Safety.                                                                 *)

(* The two sides of a request stay in step: what a caller that waits,      *)
(* gave up, holds or was refused implies about the thread that acquires    *)
(* for it, and back.  A guard in particular is in one place only: with a   *)
(* caller that took it, or with the thread that must drop it.              *)
Lifecycle ==
    \A r \in Requests :
        /\ (stage[r] = "idle") <=> (caller[r] = "idle")
        /\ (stage[r] = "dead") <=> (caller[r] = "dead")
        /\ stage[r] \in {"loaded", "permitted"} => caller[r] = "calling" /\ ~OwnThread(r)
        /\ stage[r] \in {"entering", "kernel", "granted"} =>
              IF OwnThread(r) THEN caller[r] = "calling" ELSE caller[r] \in Receiving
        /\ stage[r] \in {"settling", "published"} => ~OwnThread(r) /\ caller[r] \in Receiving
        /\ stage[r] = "held" => caller[r] \in {"joining", "holding"}
        /\ stage[r] \in {"discarding", "unlocked"} => caller[r] \in {"gone", "done"}
        /\ stage[r] = "closed" => caller[r] \in {"joining", "failed", "done", "gone"}
        /\ caller[r] = "joining" => (stage[r] = "held" <=> ok[r])

(* Every guard, wherever it has got to (still in acquire_blocking, in the  *)
(* slot of a waiter, with its caller, being thrown away), is backed by the *)
(* kernel lock of its path, so two guards of one path never coexist; and   *)
(* the kernel lock is never held by a request that has no guard to release *)
(* it with.                                                                *)
GuardsAgreeWithKernel ==
    /\ \A r \in Requests : HasGuard(r) => holder[Path(r)] = r
    /\ \A p \in Paths : holder[p] # NoRequest =>
          HasGuard(holder[p]) /\ Path(holder[p]) = p

\* Past reserve_if_required and not yet past remove_reservation.
InReservedPart(r) ==
    /\ Rejects(r)
    /\ stage[r] = "kernel" \/ HasGuard(r) \/ stage[r] = "unlocked"

(* A path is reserved exactly while one Reject request of the process      *)
(* waits for it, owns it or is giving it back, whatever way out the        *)
(* request takes; and never for two of them.                               *)
ReservationsExact ==
    /\ \A r \in Requests : InReservedPart(r) => Path(r) \in reserved[Proc(r)]
    /\ \A c \in Procs : \A p \in reserved[c] :
          \E r \in Requests : InReservedPart(r) /\ Proc(r) = c /\ Path(r) = p
    /\ \A r, s \in Requests :
          (InReservedPart(r) /\ InReservedPart(s) /\ Proc(r) = Proc(s) /\ Path(r) = Path(s))
              => r = s

HasPermit(r) == \/ stage[r] = "permitted"
                \/ ~OwnThread(r) /\ stage[r] \in {"entering", "kernel", "granted"}

Permits(c) == {r \in Requests : Proc(r) = c /\ HasPermit(r)}

(* The waiter cap: the counter is the number of permits, through every     *)
(* interleaving of the load and the compare-exchange, every failure to     *)
(* spawn and every detached worker, and it stays within max_waiters.       *)
WaiterCap ==
    \A c \in Procs : active[c] = Cardinality(Permits(c)) /\ active[c] <= Limit

(* A caller asleep on a full slot is about to be woken: the publication    *)
(* took the waker of the poll (or task) that slept last.                   *)
NoLostWakeup ==
    \A r \in Requests :
        Asleep(r) /\ ResultReady(r) => sleeper[r] \in notice[r]

(* A result is never left in the slot of a dropped receiver: the guard in  *)
(* it would have no one to drop it.                                        *)
NoResultForTheDropped ==
    \A r \in Requests : ResultReady(r) => ReceiverAlive(r)

(* The slot of a waiter: whatever order publication, polls and drops come  *)
(* in, a result reaches a receiver that is there, and one that sleeps is   *)
(* woken for it.                                                           *)
ResultsReachReceivers == NoLostWakeup /\ NoResultForTheDropped

(* A request is told one outcome of the acquisition and one reason to give *)
(* up; Released follows Acquired; a caller with a guard never heard that   *)
(* its request timed out or was cancelled.                                 *)
EventsConsistent ==
    \A r \in Requests :
        /\ \A k, l \in emitted[r] \cap {"Acquired", "Contended", "Failed"} : k = l
        /\ \A k, l \in emitted[r] \cap {"TimedOut", "Cancelled"} : k = l
        /\ "Released" \in emitted[r] => "Acquired" \in emitted[r]
        /\ caller[r] \in {"holding", "done"} =>
              emitted[r] \cap {"TimedOut", "Cancelled", "Failed", "Contended"} = {}

(* The owner's file is unlocked before its reservation is given back: a    *)
(* request of the same process that gets past the reservation never finds  *)
(* the lock still held by the Reject request it replaced.                  *)
NoWaitBehindOwnReservation ==
    \A r, s \in Requests :
        (/\ r # s /\ Rejects(r) /\ Rejects(s) /\ Proc(r) = Proc(s)
         /\ stage[r] = "kernel")
            => holder[Path(r)] # s

StatusOf(r) == IF caller[r] = "idle" THEN "idle"
               ELSE IF caller[r] = "holding" THEN "owning"
               ELSE IF caller[r] \in Over THEN "over" ELSE "asked"
OwnerOf(p) == IF holder[p] # NoRequest /\ caller[holder[p]] = "holding"
              THEN holder[p] ELSE NoRequest

(* What a caller can see implements the abstract lock service.             *)
Service == INSTANCE LockService WITH
    want <- [r \in Requests |-> Path(r)],
    status <- [r \in Requests |-> StatusOf(r)],
    owner <- [p \in Paths |-> OwnerOf(p)]
ServiceSpec == Service!Spec
CallersExclude == Service!AtMostOneOwner
-----------------------------------------------------------------------------
(* Liveness.  The threads of the library and a caller that was woken run   *)
(* on; a deadline passes; the kernel gives a free lock to some waiter (not *)
(* to any particular one).  Nothing makes a caller release its guard: that *)
(* is the premise of the properties that need it.                          *)

StartRuns(r) == LimitReached(r) \/ CompareExchange(r) \/ Spawn(r) \/ SpawnFails(r)
EntryRuns(r) == EnterFails(r) \/ Reserve(r) \/ ReserveRefused(r)
TryRuns(r) == Via(r) = "try" /\ (Grant(r) \/ Contended(r))
GrantedRuns(r) == Acquired(r) \/ AcquiredSinkPanics(r)
KernelServes(p) == \E r \in Requests : Path(r) = p /\ Grant(r)

Fairness ==
    /\ \A r \in Requests :
          /\ WF_vars(StartRuns(r)) /\ WF_vars(EntryRuns(r)) /\ WF_vars(TryRuns(r))
          /\ WF_vars(GrantedRuns(r)) /\ WF_vars(Publish(r)) /\ WF_vars(ReleaseDetached(r))
          /\ WF_vars(Notify(r)) /\ WF_vars(TakeResult(r)) /\ WF_vars(Join(r))
          /\ WF_vars(Expire(r)) /\ WF_vars(AnnounceTimeout(r)) /\ WF_vars(DropReceiver(r))
          /\ WF_vars(DropGuard(r)) /\ WF_vars(FinishRelease(r))
    /\ \A p \in Paths : WF_vars(KernelServes(p))
LiveSpec == Spec /\ Fairness

(* acquire_timeout returns, though the lock may never be released by       *)
(* another owner and its own worker stay blocked in the kernel for ever.   *)
TimeoutReturns ==
    \A r \in Requests : (caller[r] = "pending" /\ Via(r) = "timeout")
                            ~> caller[r] \in Over \cup {"holding"}

(* A grant that arrives after the caller gave up is released, without any  *)
(* help from the caller: ownership does not leak past a timeout.           *)
DetachedGrantReleased ==
    \A r \in Requests : (caller[r] = "gone" /\ HasGuard(r)) ~> ~HasGuard(r)

(* A caller asleep on a full slot receives what is in it.                  *)
SleeperServed ==
    \A r \in Requests : (Asleep(r) /\ ResultReady(r))
                            ~> ~ResultReady(r)

CallersRelease == \A r \in Requests : WF_vars(ReleaseGuard(r))

(* If callers release what they get, every request is decided, and every   *)
(* abandoned one ends, its permit and its reservation given back.          *)
RequestsResolve ==
    CallersRelease =>
        \A r \in Requests : /\ (stage[r] = "kernel") ~> (stage[r] # "kernel")
                            /\ (caller[r] = "gone") ~> (stage[r] \in {"closed", "dead"})

(* A retry after a timeout is refused for as long as the detached worker   *)
(* keeps the reservation: if callers release, that is not for ever.        *)
ReservationsReturned ==
    CallersRelease =>
        \A c \in Procs, p \in Paths : (p \in reserved[c]) ~> (p \notin reserved[c])
-----------------------------------------------------------------------------
(* What documentation and messages of the source say, and the code does    *)
(* not keep.                                                               *)

\* s owns its path, or the kernel makes it wait for its owner.
Engaged(s) ==
    HasGuard(s) \/ (stage[s] = "kernel" /\ holder[Path(s)] # NoRequest)

(* SameProcessPolicy: "How a request behaves when the same process already *)
(* owns or is waiting for the same canonical lock identity"; Reject: "Fail *)
(* before entering a kernel wait". So a Reject request that is let into    *)
(* the kernel finds, at that moment, no request of its process engaged in  *)
(* its path; what requests made later do is not its concern.               *)
RejectPassesAlone ==
    [][\A r \in Requests : (Reserve(r) /\ Rejects(r)) =>
          ~\E s \in Requests \ {r} : Engaged(s) /\ Proc(s) = Proc(r)
                                                /\ Path(s) = Path(r)]_vars

(* reserve_if_required refuses because the "same process already owns or   *)
(* is waiting for canonical lock".                                         *)
RefusalIsTrue ==
    [][\A r \in Requests : ReserveRefused(r) =>
          \E s \in Requests \ {r} : InReservedPart(s) /\ Proc(s) = Proc(r)
                                                      /\ Path(s) = Path(r)]_vars
=============================================================================

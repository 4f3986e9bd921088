--------------------------- MODULE ZedLockProofs ---------------------------
(***************************************************************************)
(* Proofs about ZedLock, for any number of requests, processes, paths,     *)
(* contexts and permits.                                                   *)
(*                                                                         *)
(* The inductive invariants build on each other: TypeOK; Lifecycle, which  *)
(* ties the caller's state to the acquiring thread's; then, each from      *)
(* these two, GuardsAgreeWithKernel, NoResultForTheDropped, WakeupInv,     *)
(* ReservationsExact, EventInv and CapInv.  ImplementsService is the       *)
(* refinement of LockService, and rests on Lifecycle and                   *)
(* GuardsAgreeWithKernel.  A step is proved action by action, in the order *)
(* the actions have in ZedLock.                                            *)
(***************************************************************************)
EXTENDS ZedLock, FiniteSetTheorems, TLAPS

(* A sleeper that polled left its own waker in the slot. *)
WakeupInv ==
    /\ NoLostWakeup
    /\ \A r \in Requests :
          Asleep(r) /\ ~ResultReady(r) /\ sleeper[r] # Condvar => waker[r] = sleeper[r]
    /\ \A r \in Requests : caller[r] # "pending" => sleeper[r] = NoWaker

(* The fields of a request have their types. *)
LEMMA ArgsTyped ==
    ASSUME TypeOK, NEW r \in Requests
    PROVE  /\ Proc(r) \in Procs /\ Path(r) \in Paths
           /\ Via(r) \in {"blocking", "try", "waiter", "timeout"}
BY ArgsAssumption DEF TypeOK, ArgType, Proc, Path, Via

(* Every variable of the lock manager keeps its type. *)
THEOREM Typing == Spec => []TypeOK
<1> USE NamesAssumption DEF TypeOK, Stages, Callers, Events
<1>1. Init => TypeOK
  BY DEF Init
<1>2. TypeOK /\ [Next]_vars => TypeOK'
  <2> SUFFICES ASSUME TypeOK, [Next]_vars PROVE TypeOK'
    OBVIOUS
  <2>1. \A r \in Requests : Proc(r) \in Procs /\ Path(r) \in Paths
    BY ArgsTyped
  <2>2. ASSUME NEW r \in Requests, StartOwnThread(r) PROVE TypeOK'
    BY <2>2, <2>1 DEF StartOwnThread, Emit, To, CallerTo, waitVars
  <2>3. ASSUME NEW r \in Requests, LoadActive(r) PROVE TypeOK'
    BY <2>3, <2>1 DEF LoadActive, To, CallerTo, waitVars
  <2>4. ASSUME NEW r \in Requests, LimitReached(r) PROVE TypeOK'
    BY <2>4, <2>1 DEF LimitReached, To, CallerTo, waitVars
  <2>5. ASSUME NEW r \in Requests, CompareExchange(r) PROVE TypeOK'
    BY <2>5, <2>1 DEF CompareExchange, To, waitVars
  <2>6. ASSUME NEW r \in Requests, Spawn(r) PROVE TypeOK'
    BY <2>6, <2>1 DEF Spawn, Emit, To, CallerTo, waitVars
  <2>7. ASSUME NEW r \in Requests, SpawnFails(r) PROVE TypeOK'
    BY <2>7, <2>1 DEF SpawnFails, To, CallerTo, DropPermit, waitVars
  <2>8. ASSUME NEW r \in Requests, EnterFails(r) PROVE TypeOK'
    BY <2>8, <2>1 DEF EnterFails, Return, Emit, FailedEvent, To, CallerTo,
           DropPermit, waitVars
  <2>9. ASSUME NEW r \in Requests, Reserve(r) PROVE TypeOK'
    BY <2>9, <2>1 DEF Reserve, To, waitVars
  <2>10. ASSUME NEW r \in Requests, ReserveRefused(r) PROVE TypeOK'
    BY <2>10, <2>1 DEF ReserveRefused, Return, Emit, FailedEvent, To, CallerTo,
           DropPermit, waitVars
  <2>11. ASSUME NEW r \in Requests, Grant(r) PROVE TypeOK'
    BY <2>11, <2>1 DEF Grant, To, waitVars
  <2>12. ASSUME NEW r \in Requests, Contended(r) PROVE TypeOK'
    BY <2>12, <2>1 DEF Contended, Return, Emit, Unreserve, To, CallerTo,
           DropPermit, waitVars
  <2>13. ASSUME NEW r \in Requests, KernelError(r) PROVE TypeOK'
    BY <2>13, <2>1 DEF KernelError, Return, Emit, Unreserve, To, CallerTo,
           DropPermit, waitVars
  <2>14. ASSUME NEW r \in Requests, Acquired(r) PROVE TypeOK'
    BY <2>14, <2>1 DEF Acquired, Return, Emit, To, CallerTo, DropPermit,
           waitVars
  <2>15. ASSUME NEW r \in Requests, AcquiredSinkPanics(r) PROVE TypeOK'
    BY <2>15, <2>1 DEF AcquiredSinkPanics, Return, To, CallerTo, DropPermit,
           waitVars
  <2>16. ASSUME NEW r \in Requests, Publish(r) PROVE TypeOK'
    BY <2>16, <2>1 DEF Publish, To, ReceiverAlive
  <2>17. ASSUME NEW r \in Requests, ReleaseDetached(r) PROVE TypeOK'
    BY <2>17, <2>1 DEF ReleaseDetached, To, ReceiverAlive, waitVars
  <2>18. ASSUME NEW r \in Requests, Notify(r) PROVE TypeOK'
    BY <2>18, <2>1 DEF Notify
  <2>19. ASSUME NEW r \in Requests, ParkOnCondvar(r) PROVE TypeOK'
    BY <2>19, <2>1 DEF ParkOnCondvar, ResultReady, Awake
  <2>20. ASSUME NEW r \in Requests, NEW c \in Contexts, PollPending(r, c) PROVE TypeOK'
    BY <2>20, <2>1 DEF PollPending, ResultReady, Awake
  <2>21. ASSUME NEW r \in Requests, SpuriousWake(r) PROVE TypeOK'
    BY <2>21, <2>1 DEF SpuriousWake, Wakes, Asleep
  <2>22. ASSUME NEW r \in Requests, TakeResult(r) PROVE TypeOK'
    BY <2>22, <2>1 DEF TakeResult, To, CallerTo, ResultReady, Awake, waitVars
  <2>23. ASSUME NEW r \in Requests, Join(r) PROVE TypeOK'
    BY <2>23, <2>1 DEF Join, CallerTo, waitVars
  <2>24. ASSUME NEW r \in Requests, Expire(r) PROVE TypeOK'
    BY <2>24, <2>1 DEF Expire, CallerTo, Wakes, ResultReady
  <2>25. ASSUME NEW r \in Requests, AnnounceTimeout(r) PROVE TypeOK'
    BY <2>25, <2>1 DEF AnnounceTimeout, Emit, CallerTo, waitVars
  <2>26. ASSUME NEW r \in Requests, Cancel(r) PROVE TypeOK'
    BY <2>26, <2>1 DEF Cancel, Emit, CallerTo, Wakes
  <2>27. ASSUME NEW r \in Requests, DropReceiver(r) PROVE TypeOK'
    BY <2>27, <2>1 DEF DropReceiver, To, CallerTo, ResultReady
  <2>28. ASSUME NEW r \in Requests, ReleaseGuard(r) PROVE TypeOK'
    BY <2>28, <2>1 DEF ReleaseGuard, CallerTo, Unlock, To, waitVars
  <2>29. ASSUME NEW r \in Requests, DropGuard(r) PROVE TypeOK'
    BY <2>29, <2>1 DEF DropGuard, Unlock, To, waitVars
  <2>30. ASSUME NEW r \in Requests, FinishRelease(r) PROVE TypeOK'
    BY <2>30, <2>1 DEF FinishRelease, Emit, To, Unreserve, waitVars
  <2>31. ASSUME NEW c \in Procs, Crash(c) PROVE TypeOK'
    BY <2>31 DEF Crash
  <2>32. CASE UNCHANGED vars
    BY <2>32 DEF vars, waitVars
  <2> QED BY <2>2, <2>3, <2>4, <2>5, <2>6, <2>7, <2>8, <2>9, <2>10, <2>11,
         <2>12, <2>13, <2>14, <2>15, <2>16, <2>17, <2>18, <2>19, <2>20, <2>21,
         <2>22, <2>23, <2>24, <2>25, <2>26, <2>27, <2>28, <2>29, <2>30, <2>31,
         <2>32
         DEF Next, Terminated, Start, Attempt, HandOver, Receive, LetGo
<1>3. QED BY <1>1, <1>2, PTL DEF Spec

(* The caller and the acquiring thread of a request stay in step. *)
THEOREM LifecycleHolds == Spec => []Lifecycle
<1>1. Init => Lifecycle
  BY DEF Init, Lifecycle, Receiving
<1>2. TypeOK /\ TypeOK' /\ Lifecycle /\ [Next]_vars
         => Lifecycle'
  <2> SUFFICES ASSUME TypeOK, TypeOK', Lifecycle, [Next]_vars
               PROVE  Lifecycle'
    OBVIOUS
  <2> USE DEF TypeOK, Lifecycle, Receiving
  <2>1. ASSUME NEW r \in Requests, StartOwnThread(r) PROVE Lifecycle'
    BY <2>1 DEF StartOwnThread, Emit, To, CallerTo, waitVars, Via, OwnThread
  <2>2. ASSUME NEW r \in Requests, LoadActive(r) PROVE Lifecycle'
    BY <2>2 DEF LoadActive, To, CallerTo, waitVars, Via, OwnThread
  <2>3. ASSUME NEW r \in Requests, LimitReached(r) PROVE Lifecycle'
    BY <2>3 DEF LimitReached, To, CallerTo, waitVars, Via, OwnThread
  <2>4. ASSUME NEW r \in Requests, CompareExchange(r) PROVE Lifecycle'
    BY <2>4 DEF CompareExchange, To, waitVars, Via, OwnThread
  <2>5. ASSUME NEW r \in Requests, Spawn(r) PROVE Lifecycle'
    BY <2>5 DEF Spawn, Emit, To, CallerTo, waitVars, Via, OwnThread
  <2>6. ASSUME NEW r \in Requests, SpawnFails(r) PROVE Lifecycle'
    BY <2>6 DEF SpawnFails, To, CallerTo, DropPermit, waitVars, Via, OwnThread
  <2>7. ASSUME NEW r \in Requests, EnterFails(r) PROVE Lifecycle'
    BY <2>7 DEF EnterFails, Return, Emit, FailedEvent, To, CallerTo,
           DropPermit, waitVars, Via, OwnThread
  <2>8. ASSUME NEW r \in Requests, Reserve(r) PROVE Lifecycle'
    BY <2>8 DEF Reserve, To, waitVars, Via, OwnThread
  <2>9. ASSUME NEW r \in Requests, ReserveRefused(r) PROVE Lifecycle'
    BY <2>9 DEF ReserveRefused, Return, Emit, FailedEvent, To, CallerTo,
           DropPermit, waitVars, Via, OwnThread
  <2>10. ASSUME NEW r \in Requests, Grant(r) PROVE Lifecycle'
    BY <2>10 DEF Grant, To, waitVars, Via, OwnThread
  <2>11. ASSUME NEW r \in Requests, Contended(r) PROVE Lifecycle'
    BY <2>11 DEF Contended, Return, Emit, Unreserve, To, CallerTo, DropPermit,
           waitVars, Via, OwnThread
  <2>12. ASSUME NEW r \in Requests, KernelError(r) PROVE Lifecycle'
    BY <2>12 DEF KernelError, Return, Emit, Unreserve, To, CallerTo,
           DropPermit, waitVars, Via, OwnThread
  <2>13. ASSUME NEW r \in Requests, Acquired(r) PROVE Lifecycle'
    BY <2>13 DEF Acquired, Return, Emit, To, CallerTo, DropPermit, waitVars,
           Via, OwnThread
  <2>14. ASSUME NEW r \in Requests, AcquiredSinkPanics(r) PROVE Lifecycle'
    BY <2>14 DEF AcquiredSinkPanics, Return, To, CallerTo, DropPermit,
           waitVars, Via, OwnThread
  <2>15. ASSUME NEW r \in Requests, Publish(r) PROVE Lifecycle'
    BY <2>15 DEF Publish, To, ReceiverAlive, Via, OwnThread
  <2>16. ASSUME NEW r \in Requests, ReleaseDetached(r) PROVE Lifecycle'
    BY <2>16 DEF ReleaseDetached, To, ReceiverAlive, waitVars, Via, OwnThread
  <2>17. ASSUME NEW r \in Requests, Notify(r) PROVE Lifecycle'
    BY <2>17 DEF Notify, Via, OwnThread
  <2>18. ASSUME NEW r \in Requests, ParkOnCondvar(r) PROVE Lifecycle'
    BY <2>18 DEF ParkOnCondvar, ResultReady, Awake, Via, OwnThread
  <2>19. ASSUME NEW r \in Requests, NEW c \in Contexts, PollPending(r, c) PROVE Lifecycle'
    BY <2>19 DEF PollPending, ResultReady, Awake, Via, OwnThread
  <2>20. ASSUME NEW r \in Requests, SpuriousWake(r) PROVE Lifecycle'
    BY <2>20 DEF SpuriousWake, Wakes, Asleep, Via, OwnThread
  <2>21. ASSUME NEW r \in Requests, TakeResult(r) PROVE Lifecycle'
    BY <2>21 DEF TakeResult, To, CallerTo, ResultReady, Awake, waitVars, Via,
           OwnThread
  <2>22. ASSUME NEW r \in Requests, Join(r) PROVE Lifecycle'
    BY <2>22 DEF Join, CallerTo, waitVars, Via, OwnThread
  <2>23. ASSUME NEW r \in Requests, Expire(r) PROVE Lifecycle'
    BY <2>23 DEF Expire, CallerTo, Wakes, ResultReady, Via, OwnThread
  <2>24. ASSUME NEW r \in Requests, AnnounceTimeout(r) PROVE Lifecycle'
    BY <2>24 DEF AnnounceTimeout, Emit, CallerTo, waitVars, Via, OwnThread
  <2>25. ASSUME NEW r \in Requests, Cancel(r) PROVE Lifecycle'
    BY <2>25 DEF Cancel, Emit, CallerTo, Wakes, Via, OwnThread
  <2>26. ASSUME NEW r \in Requests, DropReceiver(r) PROVE Lifecycle'
    BY <2>26 DEF DropReceiver, To, CallerTo, ResultReady, Via, OwnThread
  <2>27. ASSUME NEW r \in Requests, ReleaseGuard(r) PROVE Lifecycle'
    BY <2>27 DEF ReleaseGuard, CallerTo, Unlock, To, waitVars, Via, OwnThread
  <2>28. ASSUME NEW r \in Requests, DropGuard(r) PROVE Lifecycle'
    BY <2>28 DEF DropGuard, Unlock, To, waitVars, Via, OwnThread
  <2>29. ASSUME NEW r \in Requests, FinishRelease(r) PROVE Lifecycle'
    BY <2>29 DEF FinishRelease, Emit, To, Unreserve, waitVars, Via, OwnThread
  <2>30. ASSUME NEW c \in Procs, Crash(c) PROVE Lifecycle'
    BY <2>30 DEF Crash, Via, OwnThread
  <2>31. CASE UNCHANGED vars
    BY <2>31 DEF vars, waitVars, Via, OwnThread
  <2> QED BY <2>1, <2>2, <2>3, <2>4, <2>5, <2>6, <2>7, <2>8, <2>9, <2>10,
         <2>11, <2>12, <2>13, <2>14, <2>15, <2>16, <2>17, <2>18, <2>19, <2>20,
         <2>21, <2>22, <2>23, <2>24, <2>25, <2>26, <2>27, <2>28, <2>29, <2>30,
         <2>31
         DEF Next, Terminated, Start, Attempt, HandOver, Receive, LetGo
<1>3. QED BY <1>1, <1>2, Typing, PTL DEF Spec

(* Mutual exclusion: every guard is backed by the kernel lock of its path, *)
(* and a kernel lock is never left to a request without a guard.           *)
THEOREM GuardsHold == Spec => []GuardsAgreeWithKernel
<1>1. Init => GuardsAgreeWithKernel
  BY DEF Init, GuardsAgreeWithKernel, HasGuard
<1>2. TypeOK /\ TypeOK' /\ Lifecycle /\ GuardsAgreeWithKernel /\ [Next]_vars
         => GuardsAgreeWithKernel'
  <2> SUFFICES ASSUME TypeOK, TypeOK', Lifecycle, GuardsAgreeWithKernel, [Next]_vars
               PROVE  GuardsAgreeWithKernel'
    OBVIOUS
  <2> USE DEF TypeOK, GuardsAgreeWithKernel, HasGuard
  <2>1. NoRequest \notin Requests /\ \A r \in Requests : Path(r) \in Paths
    BY NamesAssumption, ArgsTyped
  <2>2. ASSUME NEW r \in Requests, StartOwnThread(r) PROVE GuardsAgreeWithKernel'
    BY <2>2, <2>1 DEF StartOwnThread, Emit, To, CallerTo, waitVars, Lifecycle,
           Path
  <2>3. ASSUME NEW r \in Requests, LoadActive(r) PROVE GuardsAgreeWithKernel'
    BY <2>3, <2>1 DEF LoadActive, To, CallerTo, waitVars, Lifecycle, Path
  <2>4. ASSUME NEW r \in Requests, LimitReached(r) PROVE GuardsAgreeWithKernel'
    BY <2>4, <2>1 DEF LimitReached, To, CallerTo, waitVars, Path
  <2>5. ASSUME NEW r \in Requests, CompareExchange(r) PROVE GuardsAgreeWithKernel'
    BY <2>5, <2>1 DEF CompareExchange, To, waitVars, Path
  <2>6. ASSUME NEW r \in Requests, Spawn(r) PROVE GuardsAgreeWithKernel'
    BY <2>6, <2>1 DEF Spawn, Emit, To, CallerTo, waitVars, Path
  <2>7. ASSUME NEW r \in Requests, SpawnFails(r) PROVE GuardsAgreeWithKernel'
    BY <2>7, <2>1 DEF SpawnFails, To, CallerTo, DropPermit, waitVars, Path
  <2>8. ASSUME NEW r \in Requests, EnterFails(r) PROVE GuardsAgreeWithKernel'
    BY <2>8, <2>1 DEF EnterFails, Return, Emit, FailedEvent, To, CallerTo,
           DropPermit, waitVars, Path
  <2>9. ASSUME NEW r \in Requests, Reserve(r) PROVE GuardsAgreeWithKernel'
    BY <2>9, <2>1 DEF Reserve, To, waitVars, Path
  <2>10. ASSUME NEW r \in Requests, ReserveRefused(r) PROVE GuardsAgreeWithKernel'
    BY <2>10, <2>1 DEF ReserveRefused, Return, Emit, FailedEvent, To, CallerTo,
           DropPermit, waitVars, Path
  <2>11. ASSUME NEW r \in Requests, Grant(r) PROVE GuardsAgreeWithKernel'
    BY <2>11, <2>1 DEF Grant, To, waitVars, Path
  <2>12. ASSUME NEW r \in Requests, Contended(r) PROVE GuardsAgreeWithKernel'
    BY <2>12, <2>1 DEF Contended, Return, Emit, Unreserve, To, CallerTo,
           DropPermit, waitVars, Path
  <2>13. ASSUME NEW r \in Requests, KernelError(r) PROVE GuardsAgreeWithKernel'
    BY <2>13, <2>1 DEF KernelError, Return, Emit, Unreserve, To, CallerTo,
           DropPermit, waitVars, Path
  <2>14. ASSUME NEW r \in Requests, Acquired(r) PROVE GuardsAgreeWithKernel'
    BY <2>14, <2>1 DEF Acquired, Return, Emit, To, CallerTo, DropPermit,
           waitVars, Path
  <2>15. ASSUME NEW r \in Requests, AcquiredSinkPanics(r) PROVE GuardsAgreeWithKernel'
    BY <2>15, <2>1 DEF AcquiredSinkPanics, Return, To, CallerTo, DropPermit,
           waitVars, Path
  <2>16. ASSUME NEW r \in Requests, Publish(r) PROVE GuardsAgreeWithKernel'
    BY <2>16, <2>1 DEF Publish, To, ReceiverAlive, Path
  <2>17. ASSUME NEW r \in Requests, ReleaseDetached(r) PROVE GuardsAgreeWithKernel'
    BY <2>17, <2>1 DEF ReleaseDetached, To, ReceiverAlive, waitVars, Path
  <2>18. ASSUME NEW r \in Requests, Notify(r) PROVE GuardsAgreeWithKernel'
    BY <2>18, <2>1 DEF Notify, Path
  <2>19. ASSUME NEW r \in Requests, ParkOnCondvar(r) PROVE GuardsAgreeWithKernel'
    BY <2>19, <2>1 DEF ParkOnCondvar, ResultReady, Awake, Path
  <2>20. ASSUME NEW r \in Requests, NEW c \in Contexts, PollPending(r, c) PROVE GuardsAgreeWithKernel'
    BY <2>20, <2>1 DEF PollPending, ResultReady, Awake, Path
  <2>21. ASSUME NEW r \in Requests, SpuriousWake(r) PROVE GuardsAgreeWithKernel'
    BY <2>21, <2>1 DEF SpuriousWake, Wakes, Asleep, Path
  <2>22. ASSUME NEW r \in Requests, TakeResult(r) PROVE GuardsAgreeWithKernel'
    BY <2>22, <2>1 DEF TakeResult, To, CallerTo, ResultReady, Awake, waitVars,
           Path
  <2>23. ASSUME NEW r \in Requests, Join(r) PROVE GuardsAgreeWithKernel'
    BY <2>23, <2>1 DEF Join, CallerTo, waitVars, Path
  <2>24. ASSUME NEW r \in Requests, Expire(r) PROVE GuardsAgreeWithKernel'
    BY <2>24, <2>1 DEF Expire, CallerTo, Wakes, ResultReady, Path
  <2>25. ASSUME NEW r \in Requests, AnnounceTimeout(r) PROVE GuardsAgreeWithKernel'
    BY <2>25, <2>1 DEF AnnounceTimeout, Emit, CallerTo, waitVars, Path
  <2>26. ASSUME NEW r \in Requests, Cancel(r) PROVE GuardsAgreeWithKernel'
    BY <2>26, <2>1 DEF Cancel, Emit, CallerTo, Wakes, Path
  <2>27. ASSUME NEW r \in Requests, DropReceiver(r) PROVE GuardsAgreeWithKernel'
    BY <2>27, <2>1 DEF DropReceiver, To, CallerTo, ResultReady, Path
  <2>28. ASSUME NEW r \in Requests, ReleaseGuard(r) PROVE GuardsAgreeWithKernel'
    BY <2>28, <2>1 DEF ReleaseGuard, CallerTo, Unlock, To, waitVars, Path
  <2>29. ASSUME NEW r \in Requests, DropGuard(r) PROVE GuardsAgreeWithKernel'
    BY <2>29, <2>1 DEF DropGuard, Unlock, To, waitVars, Path
  <2>30. ASSUME NEW r \in Requests, FinishRelease(r) PROVE GuardsAgreeWithKernel'
    BY <2>30, <2>1 DEF FinishRelease, Emit, To, Unreserve, waitVars, Path
  <2>31. ASSUME NEW c \in Procs, Crash(c) PROVE GuardsAgreeWithKernel'
    BY <2>31, <2>1 DEF Crash, Path
  <2>32. CASE UNCHANGED vars
    BY <2>32 DEF vars, waitVars, Path
  <2> QED BY <2>2, <2>3, <2>4, <2>5, <2>6, <2>7, <2>8, <2>9, <2>10, <2>11,
         <2>12, <2>13, <2>14, <2>15, <2>16, <2>17, <2>18, <2>19, <2>20, <2>21,
         <2>22, <2>23, <2>24, <2>25, <2>26, <2>27, <2>28, <2>29, <2>30, <2>31,
         <2>32
         DEF Next, Terminated, Start, Attempt, HandOver, Receive, LetGo
<1>3. QED BY <1>1, <1>2, Typing, LifecycleHolds, PTL DEF Spec

(* The worker never leaves a result in the slot of a dropped receiver. *)
THEOREM NothingForTheDropped == Spec => []NoResultForTheDropped
<1>1. Init => NoResultForTheDropped
  BY DEF Init, NoResultForTheDropped, ResultReady, ReceiverAlive
<1>2. TypeOK /\ TypeOK' /\ Lifecycle /\ NoResultForTheDropped /\ [Next]_vars
         => NoResultForTheDropped'
  <2> SUFFICES ASSUME TypeOK, TypeOK', Lifecycle, NoResultForTheDropped, [Next]_vars
               PROVE  NoResultForTheDropped'
    OBVIOUS
  <2> USE DEF TypeOK, NoResultForTheDropped, ResultReady, ReceiverAlive
  <2>1. ASSUME NEW r \in Requests, StartOwnThread(r) PROVE NoResultForTheDropped'
    BY <2>1 DEF StartOwnThread, Emit, To, CallerTo, waitVars, Lifecycle
  <2>2. ASSUME NEW r \in Requests, LoadActive(r) PROVE NoResultForTheDropped'
    BY <2>2 DEF LoadActive, To, CallerTo, waitVars, Lifecycle
  <2>3. ASSUME NEW r \in Requests, LimitReached(r) PROVE NoResultForTheDropped'
    BY <2>3 DEF LimitReached, To, CallerTo, waitVars
  <2>4. ASSUME NEW r \in Requests, CompareExchange(r) PROVE NoResultForTheDropped'
    BY <2>4 DEF CompareExchange, To, waitVars
  <2>5. ASSUME NEW r \in Requests, Spawn(r) PROVE NoResultForTheDropped'
    BY <2>5 DEF Spawn, Emit, To, CallerTo, waitVars
  <2>6. ASSUME NEW r \in Requests, SpawnFails(r) PROVE NoResultForTheDropped'
    BY <2>6 DEF SpawnFails, To, CallerTo, DropPermit, waitVars
  <2>7. ASSUME NEW r \in Requests, EnterFails(r) PROVE NoResultForTheDropped'
    BY <2>7 DEF EnterFails, Return, Emit, FailedEvent, To, CallerTo,
           DropPermit, waitVars
  <2>8. ASSUME NEW r \in Requests, Reserve(r) PROVE NoResultForTheDropped'
    BY <2>8 DEF Reserve, To, waitVars
  <2>9. ASSUME NEW r \in Requests, ReserveRefused(r) PROVE NoResultForTheDropped'
    BY <2>9 DEF ReserveRefused, Return, Emit, FailedEvent, To, CallerTo,
           DropPermit, waitVars
  <2>10. ASSUME NEW r \in Requests, Grant(r) PROVE NoResultForTheDropped'
    BY <2>10 DEF Grant, To, waitVars
  <2>11. ASSUME NEW r \in Requests, Contended(r) PROVE NoResultForTheDropped'
    BY <2>11 DEF Contended, Return, Emit, Unreserve, To, CallerTo, DropPermit,
           waitVars
  <2>12. ASSUME NEW r \in Requests, KernelError(r) PROVE NoResultForTheDropped'
    BY <2>12 DEF KernelError, Return, Emit, Unreserve, To, CallerTo,
           DropPermit, waitVars
  <2>13. ASSUME NEW r \in Requests, Acquired(r) PROVE NoResultForTheDropped'
    BY <2>13 DEF Acquired, Return, Emit, To, CallerTo, DropPermit, waitVars
  <2>14. ASSUME NEW r \in Requests, AcquiredSinkPanics(r) PROVE NoResultForTheDropped'
    BY <2>14 DEF AcquiredSinkPanics, Return, To, CallerTo, DropPermit, waitVars
  <2>15. ASSUME NEW r \in Requests, Publish(r) PROVE NoResultForTheDropped'
    BY <2>15 DEF Publish, To
  <2>16. ASSUME NEW r \in Requests, ReleaseDetached(r) PROVE NoResultForTheDropped'
    BY <2>16 DEF ReleaseDetached, To, waitVars
  <2>17. ASSUME NEW r \in Requests, Notify(r) PROVE NoResultForTheDropped'
    BY <2>17 DEF Notify
  <2>18. ASSUME NEW r \in Requests, ParkOnCondvar(r) PROVE NoResultForTheDropped'
    BY <2>18 DEF ParkOnCondvar, Awake
  <2>19. ASSUME NEW r \in Requests, NEW c \in Contexts, PollPending(r, c) PROVE NoResultForTheDropped'
    BY <2>19 DEF PollPending, Awake
  <2>20. ASSUME NEW r \in Requests, SpuriousWake(r) PROVE NoResultForTheDropped'
    BY <2>20 DEF SpuriousWake, Wakes, Asleep
  <2>21. ASSUME NEW r \in Requests, TakeResult(r) PROVE NoResultForTheDropped'
    BY <2>21 DEF TakeResult, To, CallerTo, Awake, waitVars
  <2>22. ASSUME NEW r \in Requests, Join(r) PROVE NoResultForTheDropped'
    BY <2>22 DEF Join, CallerTo, waitVars
  <2>23. ASSUME NEW r \in Requests, Expire(r) PROVE NoResultForTheDropped'
    BY <2>23 DEF Expire, CallerTo, Wakes
  <2>24. ASSUME NEW r \in Requests, AnnounceTimeout(r) PROVE NoResultForTheDropped'
    BY <2>24 DEF AnnounceTimeout, Emit, CallerTo, waitVars
  <2>25. ASSUME NEW r \in Requests, Cancel(r) PROVE NoResultForTheDropped'
    BY <2>25 DEF Cancel, Emit, CallerTo, Wakes
  <2>26. ASSUME NEW r \in Requests, DropReceiver(r) PROVE NoResultForTheDropped'
    BY <2>26 DEF DropReceiver, To, CallerTo
  <2>27. ASSUME NEW r \in Requests, ReleaseGuard(r) PROVE NoResultForTheDropped'
    BY <2>27 DEF ReleaseGuard, CallerTo, Unlock, To, waitVars
  <2>28. ASSUME NEW r \in Requests, DropGuard(r) PROVE NoResultForTheDropped'
    BY <2>28 DEF DropGuard, Unlock, To, waitVars
  <2>29. ASSUME NEW r \in Requests, FinishRelease(r) PROVE NoResultForTheDropped'
    BY <2>29 DEF FinishRelease, Emit, To, Unreserve, waitVars
  <2>30. ASSUME NEW c \in Procs, Crash(c) PROVE NoResultForTheDropped'
    BY <2>30 DEF Crash, Lifecycle
  <2>31. CASE UNCHANGED vars
    BY <2>31 DEF vars, waitVars
  <2> QED BY <2>1, <2>2, <2>3, <2>4, <2>5, <2>6, <2>7, <2>8, <2>9, <2>10,
         <2>11, <2>12, <2>13, <2>14, <2>15, <2>16, <2>17, <2>18, <2>19, <2>20,
         <2>21, <2>22, <2>23, <2>24, <2>25, <2>26, <2>27, <2>28, <2>29, <2>30,
         <2>31
         DEF Next, Terminated, Start, Attempt, HandOver, Receive, LetGo
<1>3. QED BY <1>1, <1>2, Typing, LifecycleHolds, PTL DEF Spec

(* Publication takes the waker that was left last: the strengthened form. *)
LEMMA WakeupsNotLost == Spec => []WakeupInv
<1>1. Init => WakeupInv
  BY DEF Init, WakeupInv, NoLostWakeup, Asleep, ResultReady
<1>2. TypeOK /\ TypeOK' /\ Lifecycle /\ WakeupInv /\ [Next]_vars
         => WakeupInv'
  <2> SUFFICES ASSUME TypeOK, TypeOK', Lifecycle, WakeupInv, [Next]_vars
               PROVE  WakeupInv'
    OBVIOUS
  <2> USE DEF TypeOK, WakeupInv, NoLostWakeup, Asleep, ResultReady
  <2>1. NoWaker # Condvar /\ NoWaker \notin Contexts /\ Condvar \notin Contexts
    BY NamesAssumption
  <2>2. ASSUME NEW r \in Requests, StartOwnThread(r) PROVE WakeupInv'
    BY <2>2, <2>1 DEF StartOwnThread, Emit, To, CallerTo, waitVars, Lifecycle
  <2>3. ASSUME NEW r \in Requests, LoadActive(r) PROVE WakeupInv'
    BY <2>3, <2>1 DEF LoadActive, To, CallerTo, waitVars, Lifecycle
  <2>4. ASSUME NEW r \in Requests, LimitReached(r) PROVE WakeupInv'
    BY <2>4, <2>1 DEF LimitReached, To, CallerTo, waitVars, Lifecycle
  <2>5. ASSUME NEW r \in Requests, CompareExchange(r) PROVE WakeupInv'
    BY <2>5, <2>1 DEF CompareExchange, To, waitVars
  <2>6. ASSUME NEW r \in Requests, Spawn(r) PROVE WakeupInv'
    BY <2>6, <2>1 DEF Spawn, Emit, To, CallerTo, waitVars
  <2>7. ASSUME NEW r \in Requests, SpawnFails(r) PROVE WakeupInv'
    BY <2>7, <2>1 DEF SpawnFails, To, CallerTo, DropPermit, waitVars, Lifecycle
  <2>8. ASSUME NEW r \in Requests, EnterFails(r) PROVE WakeupInv'
    BY <2>8, <2>1 DEF EnterFails, Return, Emit, FailedEvent, To, CallerTo,
           DropPermit, waitVars, Lifecycle
  <2>9. ASSUME NEW r \in Requests, Reserve(r) PROVE WakeupInv'
    BY <2>9, <2>1 DEF Reserve, To, waitVars
  <2>10. ASSUME NEW r \in Requests, ReserveRefused(r) PROVE WakeupInv'
    BY <2>10, <2>1 DEF ReserveRefused, Return, Emit, FailedEvent, To, CallerTo,
           DropPermit, waitVars, Lifecycle
  <2>11. ASSUME NEW r \in Requests, Grant(r) PROVE WakeupInv'
    BY <2>11, <2>1 DEF Grant, To, waitVars
  <2>12. ASSUME NEW r \in Requests, Contended(r) PROVE WakeupInv'
    BY <2>12, <2>1 DEF Contended, Return, Emit, Unreserve, To, CallerTo,
           DropPermit, waitVars, Lifecycle
  <2>13. ASSUME NEW r \in Requests, KernelError(r) PROVE WakeupInv'
    BY <2>13, <2>1 DEF KernelError, Return, Emit, Unreserve, To, CallerTo,
           DropPermit, waitVars, Lifecycle
  <2>14. ASSUME NEW r \in Requests, Acquired(r) PROVE WakeupInv'
    BY <2>14, <2>1 DEF Acquired, Return, Emit, To, CallerTo, DropPermit,
           waitVars, Lifecycle
  <2>15. ASSUME NEW r \in Requests, AcquiredSinkPanics(r) PROVE WakeupInv'
    BY <2>15, <2>1 DEF AcquiredSinkPanics, Return, To, CallerTo, DropPermit,
           waitVars, Lifecycle
  <2>16. ASSUME NEW r \in Requests, Publish(r) PROVE WakeupInv'
    BY <2>16, <2>1 DEF Publish, To, ReceiverAlive
  <2>17. ASSUME NEW r \in Requests, ReleaseDetached(r) PROVE WakeupInv'
    BY <2>17, <2>1 DEF ReleaseDetached, To, ReceiverAlive, waitVars
  <2>18. ASSUME NEW r \in Requests, Notify(r) PROVE WakeupInv'
    BY <2>18, <2>1 DEF Notify
  <2>19. ASSUME NEW r \in Requests, ParkOnCondvar(r) PROVE WakeupInv'
    BY <2>19, <2>1 DEF ParkOnCondvar, Awake
  <2>20. ASSUME NEW r \in Requests, NEW c \in Contexts, PollPending(r, c) PROVE WakeupInv'
    BY <2>20, <2>1 DEF PollPending, Awake
  <2>21. ASSUME NEW r \in Requests, SpuriousWake(r) PROVE WakeupInv'
    BY <2>21, <2>1 DEF SpuriousWake, Wakes
  <2>22. ASSUME NEW r \in Requests, TakeResult(r) PROVE WakeupInv'
    BY <2>22, <2>1 DEF TakeResult, To, CallerTo, Awake, waitVars
  <2>23. ASSUME NEW r \in Requests, Join(r) PROVE WakeupInv'
    BY <2>23, <2>1 DEF Join, CallerTo, waitVars
  <2>24. ASSUME NEW r \in Requests, Expire(r) PROVE WakeupInv'
    BY <2>24, <2>1 DEF Expire, CallerTo, Wakes
  <2>25. ASSUME NEW r \in Requests, AnnounceTimeout(r) PROVE WakeupInv'
    BY <2>25, <2>1 DEF AnnounceTimeout, Emit, CallerTo, waitVars
  <2>26. ASSUME NEW r \in Requests, Cancel(r) PROVE WakeupInv'
    BY <2>26, <2>1 DEF Cancel, Emit, CallerTo, Wakes
  <2>27. ASSUME NEW r \in Requests, DropReceiver(r) PROVE WakeupInv'
    BY <2>27, <2>1 DEF DropReceiver, To, CallerTo
  <2>28. ASSUME NEW r \in Requests, ReleaseGuard(r) PROVE WakeupInv'
    BY <2>28, <2>1 DEF ReleaseGuard, CallerTo, Unlock, To, waitVars
  <2>29. ASSUME NEW r \in Requests, DropGuard(r) PROVE WakeupInv'
    BY <2>29, <2>1 DEF DropGuard, Unlock, To, waitVars
  <2>30. ASSUME NEW r \in Requests, FinishRelease(r) PROVE WakeupInv'
    BY <2>30, <2>1 DEF FinishRelease, Emit, To, Unreserve, waitVars
  <2>31. ASSUME NEW c \in Procs, Crash(c) PROVE WakeupInv'
    BY <2>31, <2>1 DEF Crash, Lifecycle
  <2>32. CASE UNCHANGED vars
    BY <2>32 DEF vars, waitVars
  <2> QED BY <2>2, <2>3, <2>4, <2>5, <2>6, <2>7, <2>8, <2>9, <2>10, <2>11,
         <2>12, <2>13, <2>14, <2>15, <2>16, <2>17, <2>18, <2>19, <2>20, <2>21,
         <2>22, <2>23, <2>24, <2>25, <2>26, <2>27, <2>28, <2>29, <2>30, <2>31,
         <2>32
         DEF Next, Terminated, Start, Attempt, HandOver, Receive, LetGo
<1>3. QED BY <1>1, <1>2, Typing, LifecycleHolds, PTL DEF Spec

(* If the event sink does not panic, the same-process reservations are     *)
(* exactly the Reject requests that wait for, own or release a lock.       *)
THEOREM ReservationsHold ==
    ASSUME SinkPanics = FALSE PROVE Spec => []ReservationsExact
<1>1. Init => ReservationsExact
  BY DEF Init, ReservationsExact, InReservedPart, HasGuard, Rejects
<1>2. TypeOK /\ TypeOK' /\ Lifecycle /\ ReservationsExact /\ [Next]_vars
         => ReservationsExact'
  <2> SUFFICES ASSUME TypeOK, TypeOK', Lifecycle, ReservationsExact, [Next]_vars
               PROVE  ReservationsExact'
    OBVIOUS
  <2> USE DEF TypeOK, ReservationsExact, InReservedPart, HasGuard, Rejects
  <2>1. NoRequest \notin Requests /\ \A r \in Requests : Path(r) \in Paths /\ Proc(r) \in Procs
    BY NamesAssumption, ArgsTyped
  <2>2. ASSUME NEW r \in Requests, StartOwnThread(r) PROVE ReservationsExact'
    BY <2>2, <2>1 DEF StartOwnThread, Emit, To, CallerTo, waitVars, Lifecycle,
           Path, Proc
  <2>3. ASSUME NEW r \in Requests, LoadActive(r) PROVE ReservationsExact'
    BY <2>3, <2>1 DEF LoadActive, To, CallerTo, waitVars, Lifecycle, Path, Proc
  <2>4. ASSUME NEW r \in Requests, LimitReached(r) PROVE ReservationsExact'
    BY <2>4, <2>1 DEF LimitReached, To, CallerTo, waitVars, Path, Proc
  <2>5. ASSUME NEW r \in Requests, CompareExchange(r) PROVE ReservationsExact'
    BY <2>5, <2>1, SMTT(30) DEF CompareExchange, To, waitVars, Path, Proc
  <2>6. ASSUME NEW r \in Requests, Spawn(r) PROVE ReservationsExact'
    BY <2>6, <2>1, SMTT(30) DEF Spawn, Emit, To, CallerTo, waitVars, Path, Proc
  <2>7. ASSUME NEW r \in Requests, SpawnFails(r) PROVE ReservationsExact'
    BY <2>7, <2>1 DEF SpawnFails, To, CallerTo, DropPermit, waitVars, Path,
           Proc
  <2>8. ASSUME NEW r \in Requests, EnterFails(r) PROVE ReservationsExact'
    <3>1. /\ stage' = [stage EXCEPT ![r] = IF OwnThread(r) THEN "closed" ELSE "settling"]
          /\ ok' = [ok EXCEPT ![r] = FALSE]
      BY <2>8 DEF EnterFails, Return, To
    <3>2. /\ args' = args
          /\ reserved' = reserved
      BY <2>8 DEF EnterFails
    <3>3. stage[r] = "entering"
      BY <2>8 DEF EnterFails
    <3> QED BY <3>1, <3>2, <3>3, <2>1, SMTT(30) DEF Path, Proc
  <2>9. ASSUME NEW r \in Requests, Reserve(r) PROVE ReservationsExact'
    BY <2>9, <2>1 DEF Reserve, To, waitVars, Path, Proc
  <2>10. ASSUME NEW r \in Requests, ReserveRefused(r) PROVE ReservationsExact'
    BY <2>10, <2>1, SMTT(30) DEF ReserveRefused, Return, Emit, FailedEvent, To, CallerTo,
           DropPermit, waitVars, Path, Proc
  <2>11. ASSUME NEW r \in Requests, Grant(r) PROVE ReservationsExact'
    BY <2>11, <2>1, SMTT(30) DEF Grant, To, waitVars, Path, Proc
  <2>12. ASSUME NEW r \in Requests, Contended(r) PROVE ReservationsExact'
    BY <2>12, <2>1 DEF Contended, Return, Emit, Unreserve, To, CallerTo,
           DropPermit, waitVars, Path, Proc
  <2>13. ASSUME NEW r \in Requests, KernelError(r) PROVE ReservationsExact'
    <3>1. /\ stage' = [stage EXCEPT ![r] = IF OwnThread(r) THEN "closed" ELSE "settling"]
          /\ ok' = [ok EXCEPT ![r] = FALSE]
      BY <2>13 DEF KernelError, Return, To
    <3>2. /\ args' = args
          /\ Unreserve(r)
      BY <2>13 DEF KernelError
    <3>3. stage[r] = "kernel"
      BY <2>13 DEF KernelError
    <3> QED BY <3>1, <3>2, <3>3, <2>1, SMTT(30) DEF Path, Proc, Unreserve
  <2>14. ASSUME NEW r \in Requests, Acquired(r) PROVE ReservationsExact'
    BY <2>14, <2>1, SMTT(30) DEF Acquired, Return, Emit, To, CallerTo, DropPermit,
           waitVars, Path, Proc
  <2>15. ASSUME NEW r \in Requests, AcquiredSinkPanics(r) PROVE ReservationsExact'
    BY <2>15, <2>1 DEF AcquiredSinkPanics, Return, To, CallerTo, DropPermit,
           waitVars, Path, Proc
  <2>16. ASSUME NEW r \in Requests, Publish(r) PROVE ReservationsExact'
    BY <2>16, <2>1 DEF Publish, To, ReceiverAlive, Path, Proc
  <2>17. ASSUME NEW r \in Requests, ReleaseDetached(r) PROVE ReservationsExact'
    BY <2>17, <2>1 DEF ReleaseDetached, To, ReceiverAlive, waitVars, Path, Proc
  <2>18. ASSUME NEW r \in Requests, Notify(r) PROVE ReservationsExact'
    BY <2>18, <2>1 DEF Notify, Path, Proc
  <2>19. ASSUME NEW r \in Requests, ParkOnCondvar(r) PROVE ReservationsExact'
    BY <2>19, <2>1 DEF ParkOnCondvar, ResultReady, Awake, Path, Proc
  <2>20. ASSUME NEW r \in Requests, NEW c \in Contexts, PollPending(r, c) PROVE ReservationsExact'
    BY <2>20, <2>1 DEF PollPending, ResultReady, Awake, Path, Proc
  <2>21. ASSUME NEW r \in Requests, SpuriousWake(r) PROVE ReservationsExact'
    BY <2>21, <2>1 DEF SpuriousWake, Wakes, Asleep, Path, Proc
  <2>22. ASSUME NEW r \in Requests, TakeResult(r) PROVE ReservationsExact'
    BY <2>22, <2>1 DEF TakeResult, To, CallerTo, ResultReady, Awake, waitVars,
           Path, Proc
  <2>23. ASSUME NEW r \in Requests, Join(r) PROVE ReservationsExact'
    BY <2>23, <2>1 DEF Join, CallerTo, waitVars, Path, Proc
  <2>24. ASSUME NEW r \in Requests, Expire(r) PROVE ReservationsExact'
    BY <2>24, <2>1 DEF Expire, CallerTo, Wakes, ResultReady, Path, Proc
  <2>25. ASSUME NEW r \in Requests, AnnounceTimeout(r) PROVE ReservationsExact'
    BY <2>25, <2>1 DEF AnnounceTimeout, Emit, CallerTo, waitVars, Path, Proc
  <2>26. ASSUME NEW r \in Requests, Cancel(r) PROVE ReservationsExact'
    BY <2>26, <2>1 DEF Cancel, Emit, CallerTo, Wakes, Path, Proc
  <2>27. ASSUME NEW r \in Requests, DropReceiver(r) PROVE ReservationsExact'
    BY <2>27, <2>1 DEF DropReceiver, To, CallerTo, ResultReady, Path, Proc
  <2>28. ASSUME NEW r \in Requests, ReleaseGuard(r) PROVE ReservationsExact'
    BY <2>28, <2>1 DEF ReleaseGuard, CallerTo, Unlock, To, waitVars, Path, Proc
  <2>29. ASSUME NEW r \in Requests, DropGuard(r) PROVE ReservationsExact'
    BY <2>29, <2>1 DEF DropGuard, Unlock, To, waitVars, Path, Proc
  <2>30. ASSUME NEW r \in Requests, FinishRelease(r) PROVE ReservationsExact'
    BY <2>30, <2>1, SMTT(30) DEF FinishRelease, Emit, To, Unreserve, waitVars, Path, Proc
  <2>31. ASSUME NEW c \in Procs, Crash(c) PROVE ReservationsExact'
    BY <2>31, <2>1, SMTT(30) DEF Crash, Lifecycle, Path, Proc
  <2>32. CASE UNCHANGED vars
    BY <2>32 DEF vars, waitVars, Path, Proc
  <2> QED BY <2>2, <2>3, <2>4, <2>5, <2>6, <2>7, <2>8, <2>9, <2>10, <2>11,
         <2>12, <2>13, <2>14, <2>15, <2>16, <2>17, <2>18, <2>19, <2>20, <2>21,
         <2>22, <2>23, <2>24, <2>25, <2>26, <2>27, <2>28, <2>29, <2>30, <2>31,
         <2>32
         DEF Next, Terminated, Start, Attempt, HandOver, Receive, LetGo
<1>3. QED BY <1>1, <1>2, Typing, LifecycleHolds, PTL DEF Spec

(* Which events have been announced at each stage. *)
EventInv ==
    /\ EventsConsistent
    /\ \A r \in Requests :
          /\ caller[r] \notin {"abandoning", "gone", "dead"} =>
                emitted[r] \cap {"TimedOut", "Cancelled"} = {}
          /\ stage[r] \in {"idle", "loaded", "permitted", "entering", "kernel", "granted"} =>
                emitted[r] \subseteq {"Waiting", "TimedOut", "Cancelled"}
          /\ (HasGuard(r) /\ stage[r] # "granted") \/ stage[r] = "unlocked" =>
                "Acquired" \in emitted[r]
                /\ emitted[r] \cap {"Failed", "Contended", "Released"} = {}

(* The events announced so far fit the stage: the strengthened form. *)
LEMMA EventsHold == Spec => []EventInv
<1> USE DEF Events
<1>1. Init => EventInv
  BY DEF Init, EventInv, EventsConsistent, HasGuard
<1>2. TypeOK /\ TypeOK' /\ Lifecycle /\ EventInv /\ [Next]_vars
         => EventInv'
  <2> SUFFICES ASSUME TypeOK, TypeOK', Lifecycle, EventInv, [Next]_vars
               PROVE  EventInv'
    OBVIOUS
  <2> USE DEF TypeOK, EventInv, EventsConsistent, HasGuard
  <2>1. ASSUME NEW r \in Requests, StartOwnThread(r) PROVE EventInv'
    BY <2>1 DEF StartOwnThread, Emit, To, CallerTo, waitVars, Lifecycle,
           Receiving
  <2>2. ASSUME NEW r \in Requests, LoadActive(r) PROVE EventInv'
    BY <2>2 DEF LoadActive, To, CallerTo, waitVars, Lifecycle, Receiving
  <2>3. ASSUME NEW r \in Requests, LimitReached(r) PROVE EventInv'
    BY <2>3 DEF LimitReached, To, CallerTo, waitVars, Lifecycle, Receiving
  <2>4. ASSUME NEW r \in Requests, CompareExchange(r) PROVE EventInv'
    BY <2>4 DEF CompareExchange, To, waitVars, Lifecycle, Receiving
  <2>5. ASSUME NEW r \in Requests, Spawn(r) PROVE EventInv'
    BY <2>5 DEF Spawn, Emit, To, CallerTo, waitVars, Lifecycle, Receiving
  <2>6. ASSUME NEW r \in Requests, SpawnFails(r) PROVE EventInv'
    BY <2>6 DEF SpawnFails, To, CallerTo, DropPermit, waitVars, Lifecycle,
           Receiving
  <2>7. ASSUME NEW r \in Requests, EnterFails(r) PROVE EventInv'
    BY <2>7, SMTT(30) DEF EnterFails, Return, Emit, FailedEvent, To, CallerTo,
           DropPermit, waitVars, Lifecycle, Receiving
  <2>8. ASSUME NEW r \in Requests, Reserve(r) PROVE EventInv'
    BY <2>8 DEF Reserve, To, waitVars, Lifecycle, Receiving
  <2>9. ASSUME NEW r \in Requests, ReserveRefused(r) PROVE EventInv'
    BY <2>9 DEF ReserveRefused, Return, Emit, FailedEvent, To, CallerTo,
           DropPermit, waitVars, Lifecycle, Receiving
  <2>10. ASSUME NEW r \in Requests, Grant(r) PROVE EventInv'
    BY <2>10 DEF Grant, To, waitVars, Lifecycle, Receiving
  <2>11. ASSUME NEW r \in Requests, Contended(r) PROVE EventInv'
    BY <2>11 DEF Contended, Return, Emit, Unreserve, To, CallerTo, DropPermit,
           waitVars, Lifecycle, Receiving
  <2>12. ASSUME NEW r \in Requests, KernelError(r) PROVE EventInv'
    BY <2>12 DEF KernelError, Return, Emit, Unreserve, To, CallerTo,
           DropPermit, waitVars, Lifecycle, Receiving
  <2>13. ASSUME NEW r \in Requests, Acquired(r) PROVE EventInv'
    BY <2>13 DEF Acquired, Return, Emit, To, CallerTo, DropPermit, waitVars,
           Lifecycle, Receiving
  <2>14. ASSUME NEW r \in Requests, AcquiredSinkPanics(r) PROVE EventInv'
    BY <2>14 DEF AcquiredSinkPanics, Return, To, CallerTo, DropPermit,
           waitVars, Lifecycle, Receiving
  <2>15. ASSUME NEW r \in Requests, Publish(r) PROVE EventInv'
    BY <2>15 DEF Publish, To, ReceiverAlive, Lifecycle, Receiving
  <2>16. ASSUME NEW r \in Requests, ReleaseDetached(r) PROVE EventInv'
    BY <2>16 DEF ReleaseDetached, To, ReceiverAlive, waitVars, Lifecycle,
           Receiving
  <2>17. ASSUME NEW r \in Requests, Notify(r) PROVE EventInv'
    BY <2>17 DEF Notify, Lifecycle, Receiving
  <2>18. ASSUME NEW r \in Requests, ParkOnCondvar(r) PROVE EventInv'
    BY <2>18 DEF ParkOnCondvar, ResultReady, Awake, Lifecycle, Receiving
  <2>19. ASSUME NEW r \in Requests, NEW c \in Contexts, PollPending(r, c) PROVE EventInv'
    BY <2>19 DEF PollPending, ResultReady, Awake, Lifecycle, Receiving
  <2>20. ASSUME NEW r \in Requests, SpuriousWake(r) PROVE EventInv'
    BY <2>20 DEF SpuriousWake, Wakes, Asleep, Lifecycle, Receiving
  <2>21. ASSUME NEW r \in Requests, TakeResult(r) PROVE EventInv'
    BY <2>21 DEF TakeResult, To, CallerTo, ResultReady, Awake, waitVars,
           Lifecycle, Receiving
  <2>22. ASSUME NEW r \in Requests, Join(r) PROVE EventInv'
    BY <2>22 DEF Join, CallerTo, waitVars, Lifecycle, Receiving
  <2>23. ASSUME NEW r \in Requests, Expire(r) PROVE EventInv'
    BY <2>23 DEF Expire, CallerTo, Wakes, ResultReady, Lifecycle, Receiving
  <2>24. ASSUME NEW r \in Requests, AnnounceTimeout(r) PROVE EventInv'
    BY <2>24 DEF AnnounceTimeout, Emit, CallerTo, waitVars, Lifecycle,
           Receiving
  <2>25. ASSUME NEW r \in Requests, Cancel(r) PROVE EventInv'
    BY <2>25 DEF Cancel, Emit, CallerTo, Wakes, Lifecycle, Receiving
  <2>26. ASSUME NEW r \in Requests, DropReceiver(r) PROVE EventInv'
    BY <2>26 DEF DropReceiver, To, CallerTo, ResultReady, Lifecycle, Receiving
  <2>27. ASSUME NEW r \in Requests, ReleaseGuard(r) PROVE EventInv'
    BY <2>27 DEF ReleaseGuard, CallerTo, Unlock, To, waitVars, Lifecycle,
           Receiving
  <2>28. ASSUME NEW r \in Requests, DropGuard(r) PROVE EventInv'
    BY <2>28 DEF DropGuard, Unlock, To, waitVars, Lifecycle, Receiving
  <2>29. ASSUME NEW r \in Requests, FinishRelease(r) PROVE EventInv'
    BY <2>29 DEF FinishRelease, Emit, To, Unreserve, waitVars, Lifecycle,
           Receiving
  <2>30. ASSUME NEW c \in Procs, Crash(c) PROVE EventInv'
    BY <2>30 DEF Crash, Lifecycle, Receiving
  <2>31. CASE UNCHANGED vars
    BY <2>31 DEF vars, waitVars, Lifecycle, Receiving
  <2> QED BY <2>1, <2>2, <2>3, <2>4, <2>5, <2>6, <2>7, <2>8, <2>9, <2>10,
         <2>11, <2>12, <2>13, <2>14, <2>15, <2>16, <2>17, <2>18, <2>19, <2>20,
         <2>21, <2>22, <2>23, <2>24, <2>25, <2>26, <2>27, <2>28, <2>29, <2>30,
         <2>31
         DEF Next, Terminated, Start, Attempt, HandOver, Receive, LetGo
<1>3. QED BY <1>1, <1>2, Typing, LifecycleHolds, PTL DEF Spec

(* The counter counts a finite set. *)
CapInv == WaiterCap /\ \A c \in Procs : IsFiniteSet(Permits(c))

(* A step that changes neither the permits nor the counter. *)
LEMMA CapKept ==
    ASSUME CapInv, active' = active, \A c \in Procs : Permits(c)' = Permits(c)
    PROVE  CapInv'
BY DEF CapInv, WaiterCap

(* A step that takes a permit below the limit. *)
LEMMA CapTaken ==
    ASSUME TypeOK, CapInv, NEW r \in Requests, r \notin Permits(Proc(r)),
           active[Proc(r)] < Limit,
           active' = [active EXCEPT ![Proc(r)] = @ + 1],
           \A c \in Procs : Permits(c)' = IF c = Proc(r) THEN Permits(c) \cup {r}
                                          ELSE Permits(c)
    PROVE  CapInv'
<1>1. Proc(r) \in Procs /\ active \in [Procs -> Int] /\ Limit \in Nat
  BY ArgsTyped, LimitAssumption DEF TypeOK
<1>2. /\ IsFiniteSet(Permits(Proc(r)) \cup {r})
      /\ Cardinality(Permits(Proc(r)) \cup {r}) = Cardinality(Permits(Proc(r))) + 1
  BY <1>1, FS_AddElement DEF CapInv
<1> QED BY <1>1, <1>2 DEF CapInv, WaiterCap

(* A step that drops a permit. *)
LEMMA CapDropped ==
    ASSUME TypeOK, CapInv, NEW r \in Requests, r \in Permits(Proc(r)),
           active' = [active EXCEPT ![Proc(r)] = @ - 1],
           \A c \in Procs : Permits(c)' = IF c = Proc(r) THEN Permits(c) \ {r}
                                          ELSE Permits(c)
    PROVE  CapInv'
<1>1. Proc(r) \in Procs /\ active \in [Procs -> Int] /\ Limit \in Nat
  BY ArgsTyped, LimitAssumption DEF TypeOK
<1>2. /\ IsFiniteSet(Permits(Proc(r)) \ {r})
      /\ Cardinality(Permits(Proc(r)) \ {r}) = Cardinality(Permits(Proc(r))) - 1
  BY <1>1, FS_RemoveElement DEF CapInv
<1>3. \A c \in Procs : active'[c] = IF c = Proc(r) THEN active[c] - 1 ELSE active[c]
  BY <1>1
<1>4. \A c \in Procs : IsFiniteSet(Permits(c)') /\ active'[c] = Cardinality(Permits(c)')
  BY <1>2, <1>3 DEF CapInv, WaiterCap
<1>5. \A c \in Procs : active'[c] <= Limit
  BY <1>1, <1>3 DEF CapInv, WaiterCap
<1> QED BY <1>4, <1>5 DEF CapInv, WaiterCap

(* acquire_blocking returns: a worker's permit is dropped with its closure. *)
LEMMA CapReturns ==
    ASSUME TypeOK, CapInv, NEW r \in Requests, NEW got \in BOOLEAN, Return(r, got),
           stage[r] \in {"entering", "kernel", "granted"}, args' = args
    PROVE  CapInv'
<1> USE DEF TypeOK
<1>1. CASE OwnThread(r)
  <2>1. /\ active' = active
        /\ stage' = [stage EXCEPT ![r] = IF got THEN "held" ELSE "closed"]
    BY <1>1 DEF Return, To
  <2>2. \A c \in Procs : Permits(c)' = Permits(c)
    BY <1>1, <2>1 DEF Permits, HasPermit, OwnThread, Via, Proc
  <2> QED BY <2>1, <2>2, CapKept
<1>2. CASE ~OwnThread(r)
  <2>1. /\ active' = [active EXCEPT ![Proc(r)] = @ - 1]
        /\ stage' = [stage EXCEPT ![r] = "settling"]
    BY <1>2 DEF Return, To, DropPermit
  <2>2. \A c \in Procs : Permits(c)' = IF c = Proc(r) THEN Permits(c) \ {r} ELSE Permits(c)
    BY <1>2, <2>1 DEF Permits, HasPermit, OwnThread, Via, Proc
  <2>3. r \in Permits(Proc(r))
    BY <1>2 DEF Permits, HasPermit
  <2> QED BY <2>1, <2>2, <2>3, CapDropped
<1> QED BY <1>1, <1>2

(* The counter is the number of permits, and within the limit. *)
LEMMA CapHolds == Spec => []CapInv
<1>1. Init => CapInv
  <2> SUFFICES ASSUME Init PROVE CapInv
    OBVIOUS
  <2>1. \A c \in Procs : Permits(c) = {} /\ active[c] = 0
    BY DEF Init, Permits, HasPermit
  <2> QED BY <2>1, FS_EmptySet, LimitAssumption DEF CapInv, WaiterCap
<1>2. TypeOK /\ TypeOK' /\ Lifecycle /\ CapInv /\ [Next]_vars => CapInv'
  <2> SUFFICES ASSUME TypeOK, TypeOK', Lifecycle, CapInv, [Next]_vars PROVE CapInv'
    OBVIOUS
  <2> USE DEF TypeOK
  <2>1. ASSUME NEW r \in Requests, StartOwnThread(r) PROVE CapInv'
    <3>1. \A d \in Procs : Permits(d)' = Permits(d)
      BY <2>1 DEF
             StartOwnThread, To, CallerTo, waitVars, Permits, HasPermit,
             OwnThread, Via, Proc, Lifecycle
    <3> QED BY <2>1, <3>1, CapKept DEF StartOwnThread
  <2>2. ASSUME NEW r \in Requests, LoadActive(r) PROVE CapInv'
    <3>1. \A d \in Procs : Permits(d)' = Permits(d)
      BY <2>2 DEF
             LoadActive, To, CallerTo, waitVars, Permits, HasPermit, OwnThread,
             Via, Proc, Lifecycle
    <3> QED BY <2>2, <3>1, CapKept DEF LoadActive
  <2>3. ASSUME NEW r \in Requests, LimitReached(r) PROVE CapInv'
    <3>1. \A d \in Procs : Permits(d)' = Permits(d)
      BY <2>3 DEF
             LimitReached, To, CallerTo, waitVars, Permits, HasPermit,
             OwnThread, Via, Proc
    <3> QED BY <2>3, <3>1, CapKept DEF LimitReached
  <2>4. ASSUME NEW r \in Requests, CompareExchange(r) PROVE CapInv'
    <3>1. stage[r] = "loaded" /\ seen[r] < Limit /\ args' = args
      BY <2>4 DEF CompareExchange
    <3>2. CASE /\ active[Proc(r)] = seen[r]
               /\ active' = [active EXCEPT ![Proc(r)] = seen[r] + 1]
               /\ stage' = [stage EXCEPT ![r] = "permitted"]
      <4>1. \A c \in Procs : Permits(c)' = IF c = Proc(r) THEN Permits(c) \cup {r}
                                             ELSE Permits(c)
        BY <3>1, <3>2 DEF Permits, HasPermit, OwnThread, Via, Proc
      <4>2. r \notin Permits(Proc(r))
        BY <3>1 DEF Permits, HasPermit
      <4>3. active' = [active EXCEPT ![Proc(r)] = @ + 1] /\ active[Proc(r)] < Limit
        BY <3>1, <3>2
      <4> QED BY <4>1, <4>2, <4>3, CapTaken
    <3>3. CASE UNCHANGED <<active, stage>>
      BY <3>1, <3>3, CapKept DEF Permits, HasPermit, OwnThread, Via, Proc
    <3> QED BY <2>4, <3>2, <3>3 DEF CompareExchange, To
  <2>5. ASSUME NEW r \in Requests, Spawn(r) PROVE CapInv'
    <3>1. \A d \in Procs : Permits(d)' = Permits(d)
      BY <2>5 DEF Spawn,
             To, CallerTo, waitVars, Permits, HasPermit, OwnThread, Via, Proc,
             Lifecycle
    <3> QED BY <2>5, <3>1, CapKept DEF Spawn
  <2>6. ASSUME NEW r \in Requests, SpawnFails(r) PROVE CapInv'
    <3>1. \A c \in Procs : Permits(c)' = IF c = Proc(r) THEN Permits(c) \ {r}
                                           ELSE Permits(c)
      BY <2>6 DEF SpawnFails, To, Permits, HasPermit, OwnThread, Via, Proc
    <3>2. r \in Permits(Proc(r))
      BY <2>6 DEF SpawnFails, Permits, HasPermit
    <3> QED BY <2>6, <3>1, <3>2, CapDropped DEF SpawnFails, DropPermit
  <2>7. ASSUME NEW r \in Requests, EnterFails(r) PROVE CapInv'
    BY <2>7, CapReturns DEF EnterFails
  <2>8. ASSUME NEW r \in Requests, Reserve(r) PROVE CapInv'
    <3>1. \A d \in Procs : Permits(d)' = Permits(d)
      BY <2>8 DEF Reserve,
             To, waitVars, Permits, HasPermit, OwnThread, Via, Proc
    <3> QED BY <2>8, <3>1, CapKept DEF Reserve
  <2>9. ASSUME NEW r \in Requests, ReserveRefused(r) PROVE CapInv'
    BY <2>9, CapReturns DEF ReserveRefused
  <2>10. ASSUME NEW r \in Requests, Grant(r) PROVE CapInv'
    <3>1. \A d \in Procs : Permits(d)' = Permits(d)
      BY <2>10 DEF Grant,
             To, waitVars, Permits, HasPermit, OwnThread, Via, Proc
    <3> QED BY <2>10, <3>1, CapKept DEF Grant
  <2>11. ASSUME NEW r \in Requests, Contended(r) PROVE CapInv'
    BY <2>11, CapReturns DEF Contended
  <2>12. ASSUME NEW r \in Requests, KernelError(r) PROVE CapInv'
    BY <2>12, CapReturns DEF KernelError
  <2>13. ASSUME NEW r \in Requests, Acquired(r) PROVE CapInv'
    BY <2>13, CapReturns DEF Acquired
  <2>14. ASSUME NEW r \in Requests, AcquiredSinkPanics(r) PROVE CapInv'
    BY <2>14, CapReturns DEF AcquiredSinkPanics
  <2>15. ASSUME NEW r \in Requests, Publish(r) PROVE CapInv'
    <3>1. \A d \in Procs : Permits(d)' = Permits(d)
      BY <2>15 DEF Publish,
             To, Permits, HasPermit, OwnThread, Via, Proc
    <3> QED BY <2>15, <3>1, CapKept DEF Publish
  <2>16. ASSUME NEW r \in Requests, ReleaseDetached(r) PROVE CapInv'
    <3>1. \A d \in Procs : Permits(d)' = Permits(d)
      BY <2>16 DEF
             ReleaseDetached, To, waitVars, Permits, HasPermit, OwnThread, Via,
             Proc
    <3> QED BY <2>16, <3>1, CapKept DEF ReleaseDetached
  <2>17. ASSUME NEW r \in Requests, Notify(r) PROVE CapInv'
    <3>1. \A d \in Procs : Permits(d)' = Permits(d)
      BY <2>17 DEF Notify,
             Permits, HasPermit, OwnThread, Via, Proc
    <3> QED BY <2>17, <3>1, CapKept DEF Notify
  <2>18. ASSUME NEW r \in Requests, ParkOnCondvar(r) PROVE CapInv'
    <3>1. \A d \in Procs : Permits(d)' = Permits(d)
      BY <2>18 DEF
             ParkOnCondvar, ResultReady, Permits, HasPermit, OwnThread, Via,
             Proc
    <3> QED BY <2>18, <3>1, CapKept DEF ParkOnCondvar
  <2>19. ASSUME NEW r \in Requests, NEW c \in Contexts, PollPending(r, c) PROVE CapInv'
    <3>1. \A d \in Procs : Permits(d)' = Permits(d)
      BY <2>19 DEF
             PollPending, ResultReady, Permits, HasPermit, OwnThread, Via, Proc
    <3> QED BY <2>19, <3>1, CapKept DEF PollPending
  <2>20. ASSUME NEW r \in Requests, SpuriousWake(r) PROVE CapInv'
    <3>1. \A d \in Procs : Permits(d)' = Permits(d)
      BY <2>20 DEF
             SpuriousWake, Permits, HasPermit, OwnThread, Via, Proc
    <3> QED BY <2>20, <3>1, CapKept DEF SpuriousWake
  <2>21. ASSUME NEW r \in Requests, TakeResult(r) PROVE CapInv'
    <3>1. \A d \in Procs : Permits(d)' = Permits(d)
      BY <2>21 DEF
             TakeResult, To, CallerTo, ResultReady, waitVars, Permits,
             HasPermit, OwnThread, Via, Proc
    <3> QED BY <2>21, <3>1, CapKept DEF TakeResult
  <2>22. ASSUME NEW r \in Requests, Join(r) PROVE CapInv'
    <3>1. \A d \in Procs : Permits(d)' = Permits(d)
      BY <2>22 DEF Join,
             CallerTo, waitVars, Permits, HasPermit, OwnThread, Via, Proc
    <3> QED BY <2>22, <3>1, CapKept DEF Join
  <2>23. ASSUME NEW r \in Requests, Expire(r) PROVE CapInv'
    <3>1. \A d \in Procs : Permits(d)' = Permits(d)
      BY <2>23 DEF Expire,
             CallerTo, ResultReady, Permits, HasPermit, OwnThread, Via, Proc
    <3> QED BY <2>23, <3>1, CapKept DEF Expire
  <2>24. ASSUME NEW r \in Requests, AnnounceTimeout(r) PROVE CapInv'
    <3>1. \A d \in Procs : Permits(d)' = Permits(d)
      BY <2>24 DEF
             AnnounceTimeout, CallerTo, waitVars, Permits, HasPermit,
             OwnThread, Via, Proc
    <3> QED BY <2>24, <3>1, CapKept DEF AnnounceTimeout
  <2>25. ASSUME NEW r \in Requests, Cancel(r) PROVE CapInv'
    <3>1. \A d \in Procs : Permits(d)' = Permits(d)
      BY <2>25 DEF Cancel,
             CallerTo, Permits, HasPermit, OwnThread, Via, Proc
    <3> QED BY <2>25, <3>1, CapKept DEF Cancel
  <2>26. ASSUME NEW r \in Requests, DropReceiver(r) PROVE CapInv'
    <3>1. \A d \in Procs : Permits(d)' = Permits(d)
      BY <2>26 DEF
             DropReceiver, To, CallerTo, ResultReady, Permits, HasPermit,
             OwnThread, Via, Proc
    <3> QED BY <2>26, <3>1, CapKept DEF DropReceiver
  <2>27. ASSUME NEW r \in Requests, ReleaseGuard(r) PROVE CapInv'
    <3>1. \A d \in Procs : Permits(d)' = Permits(d)
      BY <2>27 DEF
             ReleaseGuard, CallerTo, Unlock, To, waitVars, Permits, HasPermit,
             OwnThread, Via, Proc
    <3> QED BY <2>27, <3>1, CapKept DEF ReleaseGuard, Unlock
  <2>28. ASSUME NEW r \in Requests, DropGuard(r) PROVE CapInv'
    <3>1. \A d \in Procs : Permits(d)' = Permits(d)
      BY <2>28 DEF
             DropGuard, Unlock, To, waitVars, Permits, HasPermit, OwnThread,
             Via, Proc
    <3> QED BY <2>28, <3>1, CapKept DEF DropGuard, Unlock
  <2>29. ASSUME NEW r \in Requests, FinishRelease(r) PROVE CapInv'
    <3>1. \A d \in Procs : Permits(d)' = Permits(d)
      BY <2>29 DEF
             FinishRelease, To, waitVars, Permits, HasPermit, OwnThread, Via,
             Proc
    <3> QED BY <2>29, <3>1, CapKept DEF FinishRelease
  <2>30. ASSUME NEW c \in Procs, Crash(c) PROVE CapInv'
    <3>1. \A d \in Procs : Permits(d)' = IF d = c THEN {} ELSE Permits(d)
      BY <2>30 DEF Crash, Permits, HasPermit, OwnThread, Via, Proc, Lifecycle
    <3>2. active' = [active EXCEPT ![c] = 0]
      BY <2>30 DEF Crash
    <3>3. \A d \in Procs : active'[d] = IF d = c THEN 0 ELSE active[d]
      BY <3>2
    <3>4. \A d \in Procs : IsFiniteSet(Permits(d)') /\ active'[d] = Cardinality(Permits(d)')
      <4> SUFFICES ASSUME NEW d \in Procs
                   PROVE  IsFiniteSet(Permits(d)') /\ active'[d] = Cardinality(Permits(d)')
        OBVIOUS
      <4>1. CASE d = c
        BY <3>1, <3>3, <4>1, FS_EmptySet
      <4>2. CASE d # c
        <5>1. Permits(d)' = Permits(d) /\ active'[d] = active[d]
          BY <3>1, <3>3, <4>2
        <5>2. IsFiniteSet(Permits(d)) /\ active[d] = Cardinality(Permits(d))
          BY DEF CapInv, WaiterCap
        <5> QED BY <5>1, <5>2
      <4> QED BY <4>1, <4>2
    <3>5. \A d \in Procs : active'[d] <= Limit
      BY <3>3, LimitAssumption, SMTT(30) DEF CapInv, WaiterCap
    <3> QED BY <3>4, <3>5 DEF CapInv, WaiterCap
  <2>31. CASE UNCHANGED vars
    <3>1. \A d \in Procs : Permits(d)' = Permits(d)
      BY <2>31 DEF vars, Permits, HasPermit, OwnThread, Via, Proc
    <3> QED BY <2>31, <3>1, CapKept DEF vars
  <2> QED BY <2>1, <2>2, <2>3, <2>4, <2>5, <2>6, <2>7, <2>8, <2>9, <2>10,
         <2>11, <2>12, <2>13, <2>14, <2>15, <2>16, <2>17, <2>18, <2>19, <2>20,
         <2>21, <2>22, <2>23, <2>24, <2>25, <2>26, <2>27, <2>28, <2>29, <2>30,
         <2>31
         DEF Next, Terminated, Start, Attempt, HandOver, Receive, LetGo
<1>3. QED BY <1>1, <1>2, Typing, LifecycleHolds, PTL DEF Spec


(* A caller asleep on a full slot is about to be woken. *)
THEOREM SleepersAreWoken == Spec => []NoLostWakeup
<1>1. WakeupInv => NoLostWakeup
  BY DEF WakeupInv
<1> QED BY <1>1, WakeupsNotLost, PTL

(* A result reaches a receiver that is there, and wakes it. *)
THEOREM ResultsReach == Spec => []ResultsReachReceivers
<1>1. NoLostWakeup /\ NoResultForTheDropped => ResultsReachReceivers
  BY DEF ResultsReachReceivers
<1> QED BY <1>1, SleepersAreWoken, NothingForTheDropped, PTL

(* The waiter cap holds and its counter is exact. *)
THEOREM CapIsKept == Spec => []WaiterCap
<1>1. CapInv => WaiterCap
  BY DEF CapInv
<1> QED BY <1>1, CapHolds, PTL

(* No request is told two outcomes, or two reasons to give up. *)
THEOREM EventsAreConsistent == Spec => []EventsConsistent
<1>1. EventInv => EventsConsistent
  BY DEF EventInv
<1> QED BY <1>1, EventsHold, PTL

(* Past its reservation a request never waits for a guard of its own       *)
(* process that had the same reservation.                                  *)
THEOREM NoOwnWait ==
    ASSUME SinkPanics = FALSE PROVE Spec => []NoWaitBehindOwnReservation
<1>1. TypeOK /\ GuardsAgreeWithKernel /\ ReservationsExact => NoWaitBehindOwnReservation
  <2> SUFFICES ASSUME TypeOK, GuardsAgreeWithKernel, ReservationsExact,
                      NEW r \in Requests, NEW s \in Requests, r # s, Rejects(r), Rejects(s),
                      Proc(r) = Proc(s), stage[r] = "kernel", holder[Path(r)] = s
               PROVE  FALSE
    BY DEF NoWaitBehindOwnReservation
  <2>1. HasGuard(s) /\ Path(s) = Path(r)
    BY NamesAssumption, ArgsTyped DEF GuardsAgreeWithKernel
  <2>2. InReservedPart(r) /\ InReservedPart(s)
    BY <2>1 DEF InReservedPart
  <2> QED BY <2>1, <2>2 DEF ReservationsExact
<1> QED BY <1>1, Typing, GuardsHold, ReservationsHold, PTL

(* A step in terms of what callers see: how the status of r moved and which *)
(* paths changed hands.                                                     *)
LEMMA Unseen ==
    ASSUME args' = args, \A r \in Requests : StatusOf(r)' = StatusOf(r),
           \A p \in Paths : OwnerOf(p)' = OwnerOf(p)
    PROVE  UNCHANGED Service!vars
BY DEF Service!vars, Path

(* A step that callers see as a new request. *)
LEMMA SeenAsk ==
    ASSUME args' = args, NEW r \in Requests, StatusOf(r) = "idle", StatusOf(r)' = "asked",
           \A s \in Requests \ {r} : StatusOf(s)' = StatusOf(s),
           \A p \in Paths : OwnerOf(p)' = OwnerOf(p)
    PROVE  Service!Next
<1>1. Service!Ask(r)
  BY DEF Service!Ask, Path
<1> QED BY <1>1 DEF Service!Next

(* A step that callers see as a refusal. *)
LEMMA SeenRefuse ==
    ASSUME args' = args, NEW r \in Requests, StatusOf(r) = "asked", StatusOf(r)' = "over",
           \A s \in Requests \ {r} : StatusOf(s)' = StatusOf(s),
           \A p \in Paths : OwnerOf(p)' = OwnerOf(p)
    PROVE  Service!Next
<1>1. Service!Refuse(r)
  BY DEF Service!Refuse, Path
<1> QED BY <1>1 DEF Service!Next

(* A step that callers see as the delivery of a guard. *)
LEMMA SeenDeliver ==
    ASSUME TypeOK, args' = args, NEW r \in Requests,
           StatusOf(r) = "asked", StatusOf(r)' = "owning",
           \A s \in Requests \ {r} : StatusOf(s)' = StatusOf(s),
           OwnerOf(Path(r)) = NoRequest,
           \A p \in Paths : OwnerOf(p)' = IF p = Path(r) THEN r ELSE OwnerOf(p)
    PROVE  Service!Next
<1>1. Path(r) \in Paths
  BY ArgsTyped
<1>2. Service!Deliver(r)
  BY <1>1 DEF Service!Deliver, Path
<1> QED BY <1>2 DEF Service!Next

(* A step that callers see as a release. *)
LEMMA SeenRelease ==
    ASSUME TypeOK, args' = args, NEW r \in Requests,
           StatusOf(r) = "owning", StatusOf(r)' = "over",
           \A s \in Requests \ {r} : StatusOf(s)' = StatusOf(s),
           \A p \in Paths : OwnerOf(p)' = IF p = Path(r) THEN NoRequest ELSE OwnerOf(p)
    PROVE  Service!Next
<1>1. Path(r) \in Paths
  BY ArgsTyped
<1>2. Service!Release(r)
  BY <1>1 DEF Service!Release, Path
<1> QED BY <1>2 DEF Service!Next

(* The lock as its callers see it is the abstract lock service, for any    *)
(* number of requests, processes, paths, contexts and waiter permits: a    *)
(* guard is delivered only while no caller owns its path, whichever of the *)
(* two threads of a waiter is ahead, and across crashes.                   *)
THEOREM ImplementsService == Spec => ServiceSpec
<1> USE DEF StatusOf, OwnerOf, Over
<1>1. Init => Service!Init
  <2> SUFFICES ASSUME Init PROVE Service!Init
    OBVIOUS
  <2>1. TypeOK
    BY NamesAssumption DEF Init, TypeOK, Stages, Callers, Events
  <2>2. \A r \in Requests : Path(r) \in Paths
    BY <2>1, ArgsTyped
  <2> QED BY <2>2 DEF Init, Service!Init
<1>2. /\ TypeOK /\ TypeOK' /\ Lifecycle /\ Lifecycle'
      /\ GuardsAgreeWithKernel /\ GuardsAgreeWithKernel' /\ [Next]_vars
      => [Service!Next]_Service!vars
  <2> SUFFICES ASSUME TypeOK, TypeOK', Lifecycle, Lifecycle', GuardsAgreeWithKernel,
                      GuardsAgreeWithKernel', [Next]_vars
               PROVE  [Service!Next]_Service!vars
    OBVIOUS
  <2> USE DEF TypeOK
  <2>1. NoRequest \notin Requests /\ \A r \in Requests : Path(r) \in Paths
    BY NamesAssumption, ArgsTyped
  <2>2. ASSUME NEW r \in Requests, StartOwnThread(r) PROVE [Service!Next]_Service!vars
    BY <2>2, <2>1, SeenAsk
       DEF StartOwnThread, Emit, To, CallerTo,
           waitVars, Lifecycle, GuardsAgreeWithKernel, HasGuard, Receiving,
           OwnThread, Via, Path
  <2>3. ASSUME NEW r \in Requests, LoadActive(r) PROVE [Service!Next]_Service!vars
    BY <2>3, <2>1, SeenAsk
       DEF LoadActive, To, CallerTo, waitVars,
           Lifecycle, GuardsAgreeWithKernel, HasGuard, Receiving, OwnThread,
           Via, Path
  <2>4. ASSUME NEW r \in Requests, LimitReached(r) PROVE [Service!Next]_Service!vars
    BY <2>4, <2>1, SeenRefuse
       DEF LimitReached, To, CallerTo, waitVars,
           Lifecycle, GuardsAgreeWithKernel, HasGuard, Receiving, OwnThread,
           Via, Path
  <2>5. ASSUME NEW r \in Requests, CompareExchange(r) PROVE [Service!Next]_Service!vars
    BY <2>5, <2>1, Unseen
       DEF CompareExchange, To, waitVars, Lifecycle,
           GuardsAgreeWithKernel, HasGuard, Receiving, OwnThread, Via, Path
  <2>6. ASSUME NEW r \in Requests, Spawn(r) PROVE [Service!Next]_Service!vars
    BY <2>6, <2>1, Unseen
       DEF Spawn, Emit, To, CallerTo, waitVars,
           Lifecycle, GuardsAgreeWithKernel, HasGuard, Receiving, OwnThread,
           Via, Path
  <2>7. ASSUME NEW r \in Requests, SpawnFails(r) PROVE [Service!Next]_Service!vars
    BY <2>7, <2>1, SeenRefuse
       DEF SpawnFails, To, CallerTo, waitVars,
           Lifecycle, GuardsAgreeWithKernel, HasGuard, Receiving, OwnThread,
           Via, Path
  <2>8. ASSUME NEW r \in Requests, EnterFails(r) PROVE [Service!Next]_Service!vars
    <3>1. CASE OwnThread(r)
      BY <2>8, <2>1, <3>1, SeenRefuse, SMTT(30)
         DEF EnterFails, Return, Emit,
             To, CallerTo, waitVars, Lifecycle, GuardsAgreeWithKernel,
             HasGuard, Receiving, OwnThread, Via, Path
    <3>2. CASE ~OwnThread(r)
      BY <2>8, <2>1, <3>2, Unseen
         DEF EnterFails, Return, Emit, To,
             CallerTo, waitVars, Lifecycle, GuardsAgreeWithKernel, HasGuard,
             Receiving, OwnThread, Via, Path
    <3> QED BY <3>1, <3>2
  <2>9. ASSUME NEW r \in Requests, Reserve(r) PROVE [Service!Next]_Service!vars
    BY <2>9, <2>1, Unseen
       DEF Reserve, To, waitVars, Lifecycle,
           GuardsAgreeWithKernel, HasGuard, Receiving, OwnThread, Via, Path
  <2>10. ASSUME NEW r \in Requests, ReserveRefused(r) PROVE [Service!Next]_Service!vars
    <3>1. CASE OwnThread(r)
      BY <2>10, <2>1, <3>1, SeenRefuse, SMTT(30)
         DEF ReserveRefused, Return,
             Emit, To, CallerTo, waitVars, Lifecycle, GuardsAgreeWithKernel,
             HasGuard, Receiving, OwnThread, Via, Path
    <3>2. CASE ~OwnThread(r)
      BY <2>10, <2>1, <3>2, Unseen
         DEF ReserveRefused, Return, Emit,
             To, CallerTo, waitVars, Lifecycle, GuardsAgreeWithKernel,
             HasGuard, Receiving, OwnThread, Via, Path
    <3> QED BY <3>1, <3>2
  <2>11. ASSUME NEW r \in Requests, Grant(r) PROVE [Service!Next]_Service!vars
    BY <2>11, <2>1, Unseen
       DEF Grant, To, waitVars, Lifecycle,
           GuardsAgreeWithKernel, HasGuard, Receiving, OwnThread, Via, Path
  <2>12. ASSUME NEW r \in Requests, Contended(r) PROVE [Service!Next]_Service!vars
    <3>1. CASE OwnThread(r)
      BY <2>12, <2>1, <3>1, SeenRefuse
         DEF Contended, Return, Emit,
             To, CallerTo, waitVars, Lifecycle, GuardsAgreeWithKernel,
             HasGuard, Receiving, OwnThread, Via, Path
    <3>2. CASE ~OwnThread(r)
      BY <2>12, <2>1, <3>2, Unseen
         DEF Contended, Return, Emit, To,
             CallerTo, waitVars, Lifecycle, GuardsAgreeWithKernel, HasGuard,
             Receiving, OwnThread, Via, Path
    <3> QED BY <3>1, <3>2
  <2>13. ASSUME NEW r \in Requests, KernelError(r) PROVE [Service!Next]_Service!vars
    <3>1. CASE OwnThread(r)
      BY <2>13, <2>1, <3>1, SeenRefuse, SMTT(30)
         DEF KernelError, Return, Emit,
             To, CallerTo, waitVars, Lifecycle, GuardsAgreeWithKernel,
             HasGuard, Receiving, OwnThread, Via, Path
    <3>2. CASE ~OwnThread(r)
      BY <2>13, <2>1, <3>2, Unseen
         DEF KernelError, Return, Emit, To,
             CallerTo, waitVars, Lifecycle, GuardsAgreeWithKernel, HasGuard,
             Receiving, OwnThread, Via, Path
    <3> QED BY <3>1, <3>2
  <2>14. ASSUME NEW r \in Requests, Acquired(r) PROVE [Service!Next]_Service!vars
    <3>1. CASE OwnThread(r)
      <4>1. /\ stage[r] = "granted" /\ caller[r] = "calling"
            /\ caller' = [caller EXCEPT ![r] = "holding"]
            /\ args' = args /\ holder' = holder
        BY <2>14, <3>1 DEF Acquired, Return, CallerTo, Lifecycle
      <4>2. holder[Path(r)] = r /\ \A p \in Paths \ {Path(r)} : holder[p] # r
        BY <2>1, <4>1 DEF GuardsAgreeWithKernel, HasGuard
      <4>3. \A p \in Paths : OwnerOf(p)' = IF p = Path(r) THEN r ELSE OwnerOf(p)
        BY <2>1, <4>1, <4>2
      <4>4. OwnerOf(Path(r)) = NoRequest
        BY <2>1, <4>1, <4>2
      <4> HIDE DEF OwnerOf
      <4> QED BY <4>1, <4>3, <4>4, SeenDeliver
    <3>2. CASE ~OwnThread(r)
      BY <2>14, <2>1, <3>2, Unseen
         DEF Acquired, Return, Emit, To,
             CallerTo, waitVars, Lifecycle, GuardsAgreeWithKernel, HasGuard,
             Receiving, OwnThread, Via, Path
    <3> QED BY <3>1, <3>2
  <2>15. ASSUME NEW r \in Requests, AcquiredSinkPanics(r) PROVE [Service!Next]_Service!vars
    <3>1. CASE OwnThread(r)
      BY <2>15, <2>1, <3>1, SeenRefuse, SMTT(30)
         DEF AcquiredSinkPanics, Return,
             To, CallerTo, waitVars, Lifecycle, GuardsAgreeWithKernel,
             HasGuard, Receiving, OwnThread, Via, Path
    <3>2. CASE ~OwnThread(r)
      BY <2>15, <2>1, <3>2, Unseen, SMTT(30)
         DEF AcquiredSinkPanics, Return, To,
             CallerTo, waitVars, Lifecycle, GuardsAgreeWithKernel, HasGuard,
             Receiving, OwnThread, Via, Path
    <3> QED BY <3>1, <3>2
  <2>16. ASSUME NEW r \in Requests, Publish(r) PROVE [Service!Next]_Service!vars
    BY <2>16, <2>1, Unseen
       DEF Publish, To, Lifecycle,
           GuardsAgreeWithKernel, HasGuard, Receiving, OwnThread, Via, Path
  <2>17. ASSUME NEW r \in Requests, ReleaseDetached(r) PROVE [Service!Next]_Service!vars
    BY <2>17, <2>1, Unseen
       DEF ReleaseDetached, To, waitVars, Lifecycle,
           GuardsAgreeWithKernel, HasGuard, Receiving, OwnThread, Via, Path
  <2>18. ASSUME NEW r \in Requests, Notify(r) PROVE [Service!Next]_Service!vars
    BY <2>18, <2>1, Unseen
       DEF Notify, Lifecycle, GuardsAgreeWithKernel,
           HasGuard, Receiving, OwnThread, Via, Path
  <2>19. ASSUME NEW r \in Requests, ParkOnCondvar(r) PROVE [Service!Next]_Service!vars
    BY <2>19, <2>1, Unseen
       DEF ParkOnCondvar, ResultReady, Awake,
           Lifecycle, GuardsAgreeWithKernel, HasGuard, Receiving, OwnThread,
           Via, Path
  <2>20. ASSUME NEW r \in Requests, NEW c \in Contexts, PollPending(r, c) PROVE [Service!Next]_Service!vars
    BY <2>20, <2>1, Unseen
       DEF PollPending, ResultReady, Awake,
           Lifecycle, GuardsAgreeWithKernel, HasGuard, Receiving, OwnThread,
           Via, Path
  <2>21. ASSUME NEW r \in Requests, SpuriousWake(r) PROVE [Service!Next]_Service!vars
    BY <2>21, <2>1, Unseen
       DEF SpuriousWake, Wakes, Asleep, Lifecycle,
           GuardsAgreeWithKernel, HasGuard, Receiving, OwnThread, Via, Path
  <2>22. ASSUME NEW r \in Requests, TakeResult(r) PROVE [Service!Next]_Service!vars
    BY <2>22, <2>1, Unseen
       DEF TakeResult, To, CallerTo, ResultReady,
           Awake, waitVars, Lifecycle, GuardsAgreeWithKernel, HasGuard,
           Receiving, OwnThread, Via, Path
  <2>23. ASSUME NEW r \in Requests, Join(r) PROVE [Service!Next]_Service!vars
    <3>1. CASE ok[r]
      BY <2>23, <2>1, <3>1, SeenDeliver
         DEF Join, CallerTo, waitVars,
             Lifecycle, GuardsAgreeWithKernel, HasGuard, Receiving, OwnThread,
             Via, Path
    <3>2. CASE ~ok[r]
      BY <2>23, <2>1, <3>2, SeenRefuse
         DEF Join, CallerTo, waitVars,
             Lifecycle, GuardsAgreeWithKernel, HasGuard, Receiving, OwnThread,
             Via, Path
    <3> QED BY <3>1, <3>2
  <2>24. ASSUME NEW r \in Requests, Expire(r) PROVE [Service!Next]_Service!vars
    BY <2>24, <2>1, Unseen
       DEF Expire, CallerTo, Wakes, ResultReady,
           Lifecycle, GuardsAgreeWithKernel, HasGuard, Receiving, OwnThread,
           Via, Path
  <2>25. ASSUME NEW r \in Requests, AnnounceTimeout(r) PROVE [Service!Next]_Service!vars
    BY <2>25, <2>1, Unseen
       DEF AnnounceTimeout, Emit, CallerTo,
           waitVars, Lifecycle, GuardsAgreeWithKernel, HasGuard, Receiving,
           OwnThread, Via, Path
  <2>26. ASSUME NEW r \in Requests, Cancel(r) PROVE [Service!Next]_Service!vars
    BY <2>26, <2>1, Unseen
       DEF Cancel, Emit, CallerTo, Wakes, Lifecycle,
           GuardsAgreeWithKernel, HasGuard, Receiving, OwnThread, Via, Path
  <2>27. ASSUME NEW r \in Requests, DropReceiver(r) PROVE [Service!Next]_Service!vars
    BY <2>27, <2>1, SeenRefuse
       DEF DropReceiver, To, CallerTo,
           ResultReady, Lifecycle, GuardsAgreeWithKernel, HasGuard, Receiving,
           OwnThread, Via, Path
  <2>28. ASSUME NEW r \in Requests, ReleaseGuard(r) PROVE [Service!Next]_Service!vars
    BY <2>28, <2>1, SeenRelease
       DEF ReleaseGuard, CallerTo, Unlock, To,
           waitVars, Lifecycle, GuardsAgreeWithKernel, HasGuard, Receiving,
           OwnThread, Via, Path
  <2>29. ASSUME NEW r \in Requests, DropGuard(r) PROVE [Service!Next]_Service!vars
    BY <2>29, <2>1, Unseen
       DEF DropGuard, Unlock, To, waitVars,
           Lifecycle, GuardsAgreeWithKernel, HasGuard, Receiving, OwnThread,
           Via, Path
  <2>30. ASSUME NEW r \in Requests, FinishRelease(r) PROVE [Service!Next]_Service!vars
    BY <2>30, <2>1, Unseen
       DEF FinishRelease, Emit, To, waitVars,
           Lifecycle, GuardsAgreeWithKernel, HasGuard, Receiving, OwnThread,
           Via, Path
  <2>31. ASSUME NEW c \in Procs, Crash(c) PROVE [Service!Next]_Service!vars
    <3>1. PICK S \in SUBSET Requests : S = {r \in Requests : Proc(r) = c /\ caller[r] # "idle"}
      OBVIOUS
    <3>2. Service!Die(S)
      BY <2>31, <2>1, <3>1 DEF Crash, Service!Die, Path, GuardsAgreeWithKernel
    <3> QED BY <3>2 DEF Service!Next
  <2>32. CASE UNCHANGED vars
    BY <2>32, Unseen DEF vars, waitVars
  <2> QED BY <2>2, <2>3, <2>4, <2>5, <2>6, <2>7, <2>8, <2>9, <2>10, <2>11,
         <2>12, <2>13, <2>14, <2>15, <2>16, <2>17, <2>18, <2>19, <2>20, <2>21,
         <2>22, <2>23, <2>24, <2>25, <2>26, <2>27, <2>28, <2>29, <2>30, <2>31,
         <2>32
         DEF Next, Terminated, Start, Attempt, HandOver, Receive, LetGo
<1>3. QED
  BY <1>1, <1>2, Typing, LifecycleHolds, GuardsHold, PTL
  DEF Spec, ServiceSpec, Service!Spec

(* Two callers, of whatever processes, never own one path at a time.       *)
THEOREM OwnersExclude == Spec => []CallersExclude
<1>1. TypeOK /\ Lifecycle /\ GuardsAgreeWithKernel => CallersExclude
  <2> SUFFICES ASSUME Lifecycle, GuardsAgreeWithKernel, TypeOK,
                      NEW r \in Requests, NEW s \in Requests,
                      caller[r] = "holding", caller[s] = "holding", Path(r) = Path(s)
               PROVE  r = s
    BY DEF CallersExclude, Service!AtMostOneOwner, StatusOf, Over
  <2>1. \A q \in Requests : caller[q] = "holding" => stage[q] = "held"
    BY DEF Lifecycle, TypeOK, Stages, Receiving
  <2>2. holder[Path(r)] = r /\ holder[Path(s)] = s
    BY <2>1 DEF GuardsAgreeWithKernel, HasGuard
  <2> QED BY <2>2
<1> QED BY <1>1, Typing, LifecycleHolds, GuardsHold, PTL
=============================================================================

----------------------------- MODULE MCZedLock -----------------------------
(* Small instances of ZedLock: which requests callers may make in each run *)
EXTENDS ZedLock, TLC

CONSTANTS p1, p2, a, b

ArgsOf(procs, paths, vias, policies) ==
    [proc : procs, path : paths, via : vias, policy : policies]

\* Every way in, from two processes.
AllArgs == ArgsOf({p1}, {a}, {"blocking", "try", "waiter", "timeout"}, {"Reject", "Queue"})
           \cup ArgsOf({p2}, {a}, {"blocking", "waiter"}, {"Reject"})
\* Three requests: waiters of one process against an owner in another.
TrioArgs == ArgsOf({p1}, {a}, {"waiter"}, {"Reject", "Queue"})
            \cup ArgsOf({p2}, {a}, {"blocking"}, {"Reject"})
\* An owner that may keep the lock for ever, and callers with a deadline.
DeadlineArgs == ArgsOf({p2}, {a}, {"blocking"}, {"Reject"})
                \cup ArgsOf({p1}, {a}, {"timeout", "waiter", "try"}, {"Reject"})
QueueArgs == ArgsOf({p1}, {a}, {"blocking"}, {"Reject", "Queue"})
PanicArgs == ArgsOf({p1}, {a}, {"waiter", "blocking"}, {"Reject"})

Symmetric == Permutations(Requests)
=============================================================================

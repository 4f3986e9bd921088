---------------------------- MODULE MCLockOrder ----------------------------
(* Small instances of LockOrder: threads, their processes, and the keys.   *)
EXTENDS LockOrder, TLC

CONSTANTS t1, t2, t3, x, y, z

Key(r, p) == [rank |-> r, path |-> p]

\* Two classes and two paths of one class.
ThreeKeys == {Key(10, 3), Key(20, 1), Key(20, 2)}
TwoKeys == {Key(10, 2), Key(20, 1)}
\* A path asked for under two classes.
OnePathKeys == {Key(10, 2), Key(30, 2)}

SharedProc == t1 :> x @@ t2 :> x @@ t3 :> y
OneProc == t1 :> x @@ t2 :> x
=============================================================================

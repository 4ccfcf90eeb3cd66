----------------------------- MODULE MCSysVSem -----------------------------
(* Instances of SysVSem for TLC: a binary-semaphore user, a two-semaphore   *)
(* atomic operation set, a waiter for zero, the semctl writers and removal. *)
EXTENDS SysVSem, TLC

CONSTANTS t1, t2, t3, p1, p2, p3

OneThreadEach == (t1 :> p1) @@ (t2 :> p2) @@ (t3 :> p3)
TwoThreadsOneProcess == (t1 :> p1) @@ (t2 :> p1)

Buf(n, o) == [num |-> n, op |-> o, nowait |-> FALSE, undo |-> FALSE]
OpCall(ops) == [kind |-> "op", ops |-> ops, timed |-> FALSE]

Down == OpCall(<<Buf(0, -1)>>)
Up == OpCall(<<Buf(0, 1)>>)
\* Move a unit from semaphore 0 to semaphore 1, atomically.
Transfer == OpCall(<<Buf(0, -1), Buf(1, 1)>>)
WaitZeroThenUp == OpCall(<<Buf(0, 0), Buf(0, 1)>>)
TimedDown == [Down EXCEPT !.timed = TRUE]
TimedTransfer == [Transfer EXCEPT !.timed = TRUE]
\* EAGAIN on a semaphore that is 0, EFBIG otherwise.
TryThenBad == OpCall(<<[Buf(0, -1) EXCEPT !.nowait = TRUE], Buf(2, 1)>>)
SetVal(v) == [kind |-> "SETVAL", num |-> 0, val |-> v]
SetAll(v) == [kind |-> "SETALL", num |-> 0, vals |-> [n \in Sem |-> v]]
Get == [kind |-> "GET", num |-> 0]
Rmid == [kind |-> "IPC_RMID"]

CallsAll == {Down, Up, Transfer, WaitZeroThenUp, TimedDown,
             SetVal(1), SetAll(3), Get, Rmid}
CallsRefine == {TimedTransfer, TryThenBad, SetAll(1), Rmid}
CallsThreads == {Down, Up}
=============================================================================

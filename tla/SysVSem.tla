------------------------------ MODULE SysVSem ------------------------------
(***************************************************************************)
(* One System V semaphore set as native/runtime/sysv-semaphore.c implements *)
(* it: a file mapped by every process that uses the set, an fcntl write     *)
(* lock around each access, and a futex word (`sequence') on which callers  *)
(* whose operations are not yet possible sleep.                             *)
(*                                                                          *)
(* The namespace of sets (semget, the id and key files) is in module        *)
(* SysVSemNamespace; here the set already exists.                           *)
(*                                                                          *)
(* Each action is one step that other threads can observe, or a crash can   *)
(* cut: taking or dropping the lock, examining one operation, each store to *)
(* the mapped state, bumping the sequence, the two futex system calls.      *)
(***************************************************************************)
EXTENDS Integers, Sequences, FiniteSets

CONSTANTS
  Thread,        \* threads that call the library
  Process,       \* processes they live in
  ProcOf,        \* [Thread -> Process]
  NoProcess,     \* the fcntl lock is free
  NSems,         \* state->nsems
  Calls,         \* the calls a thread may make, see Call
  MaxSet,        \* 32767, the largest value SETVAL and SETALL accept
  MaxCalls,      \* bound: number of calls in a behaviour
  MaxCrashes,    \* bound: number of processes that die
  MaxSequence    \* bound: the futex word stays below its 32-bit wrap

Sem == 0 .. NSems - 1

\* struct sembuf.  nowait and undo are the flags IPC_NOWAIT and SEM_UNDO.
SemBuf == [num : Nat, op : Int, nowait : BOOLEAN, undo : BOOLEAN]

\* semop and semtimedop (timed), and the semctl commands.
Call ==      [kind : {"op"}, ops : Seq(SemBuf), timed : BOOLEAN]
        \cup [kind : {"SETVAL"}, num : Nat, val : Int]
        \cup [kind : {"SETALL"}, num : Nat, vals : [Sem -> Nat]]
        \cup [kind : {"GET"}, num : Nat]
        \cup [kind : {"IPC_RMID"}]

NoCall == [kind |-> "none"]

ASSUME ThreadAssumption == /\ ProcOf \in [Thread -> Process]
                           /\ NoProcess \notin Process
ASSUME SizeAssumption == /\ NSems \in Nat \ {0}
                         /\ MaxSet \in Nat
                         /\ MaxCalls \in Nat
                         /\ MaxCrashes \in Nat
                         /\ MaxSequence \in Nat
ASSUME CallsAssumption == Calls \subseteq Call

VARIABLES
  values, removed, sequence, lastPid, waitNegative, waitZero, \* the mapped file
  lockOwner,     \* process holding the fcntl write lock, or NoProcess
  pc,            \* where each thread is
  call,          \* the call it is executing
  copy,          \* apply_operations' local values[]; the values a semctl writes
  snap,          \* history: the shared values when copy was taken
  todo,          \* the stores of a write that are still to be made
  i,             \* its loop index (1-based)
  expected,      \* the sequence it read before it sleeps
  outcome,       \* what FUTEX_WAIT returned, as errno stands afterwards
  result,        \* what the last call returned
  calls, crashes \* bounded counters

file == <<values, removed, sequence, lastPid, waitNegative, waitZero>>
local == <<call, copy, snap, todo, i, expected, outcome, result>>
vars == <<file, lockOwner, pc, local, calls, crashes>>

-----------------------------------------------------------------------------
(* State predicates and helpers *)

Outcome == {"woken", "EAGAIN", "EINTR", "ETIMEDOUT"}
Result == {"none", "ok", "EINVAL", "EIDRM", "EAGAIN", "EINTR", "EFBIG",
           "ENOTSUP", "ERANGE"}

\* Places between lock_file(F_WRLCK) and the matching lock_file(F_UNLCK).
Critical == {"scan", "ctl", "write", "bump", "wake", "unlock", "unlockwait",
             "unlockretry"}

PC == Critical \cup {"idle", "lock", "prewait", "asleep", "relock", "close",
                     "dead"}

\* The operation a thread is examining, or was when it decided to wait.
Current(t) == call[t].ops[i[t]]

\* The waiting counts include a thread from its decision to wait until it
\* takes itself out again.
Counted(t) == pc[t] \in {"unlockwait", "prewait", "asleep", "relock"}

Goto(t, there) == pc' = [pc EXCEPT ![t] = there]

\* Mutant of Finish: an early return that forgets the unlock and the close.
FinishWithoutUnlock(t, r) == /\ Goto(t, "idle")
                             /\ result' = [result EXCEPT ![t] = r]

\* Leave the critical section with a return value.
Finish(t, r) == /\ Goto(t, "unlock")
                /\ result' = [result EXCEPT ![t] = r]

-----------------------------------------------------------------------------
Init ==
  /\ values = [n \in Sem |-> 0]
  /\ removed = 0
  /\ sequence = 1
  /\ lastPid = [n \in Sem |-> NoProcess]
  /\ waitNegative = [n \in Sem |-> 0]
  /\ waitZero = [n \in Sem |-> 0]
  /\ lockOwner = NoProcess
  /\ pc = [t \in Thread |-> "idle"]
  /\ call = [t \in Thread |-> NoCall]
  /\ copy = [t \in Thread |-> values]
  /\ snap = [t \in Thread |-> values]
  /\ todo = [t \in Thread |-> {}]
  /\ i = [t \in Thread |-> 1]
  /\ expected = [t \in Thread |-> 1]
  /\ outcome = [t \in Thread |-> "woken"]
  /\ result = [t \in Thread |-> "none"]
  /\ calls = 0
  /\ crashes = 0

-----------------------------------------------------------------------------
(* semop, semtimedop and semctl all begin with open_id: the removed flag is *)
(* read without the lock.                                                   *)

StartCall(t, c) ==
  /\ pc[t] = "idle"
  /\ calls < MaxCalls
  /\ calls' = calls + 1
  /\ call' = [call EXCEPT ![t] = c]
  /\ IF c.kind = "op" /\ c.ops = <<>>
       THEN result' = [result EXCEPT ![t] = "EINVAL"] /\ UNCHANGED pc
       ELSE IF removed = 1
       THEN /\ result' = [result EXCEPT ![t] = "EINVAL"]
            /\ Goto(t, "close")
       ELSE /\ result' = [result EXCEPT ![t] = "none"]
            /\ Goto(t, "lock")
  /\ UNCHANGED <<file, lockOwner, copy, snap, todo, i, expected, outcome, crashes>>

\* Mutant of Acquire: F_SETLK whose failure is ignored.
AcquireWithoutWaiting(t) == lockOwner' = ProcOf[t]

\* lock_file(F_WRLCK).  fcntl record locks belong to the process: they never
\* make a thread wait for another thread of its own process.
Acquire(t) ==
  /\ lockOwner \in {NoProcess, ProcOf[t]}
  /\ lockOwner' = ProcOf[t]

\* lock_file(F_UNLCK), and also close of any descriptor of the file: the
\* process loses its lock, whichever of its threads took it.
Release(t) ==
  lockOwner' = IF lockOwner = ProcOf[t] THEN NoProcess ELSE lockOwner

\* Take the lock; apply_operations also reads removed and copies the values.
Lock(t) ==
  /\ pc[t] = "lock"
  /\ Acquire(t)
  /\ IF call[t].kind # "op"
       THEN /\ Goto(t, "ctl")
            /\ UNCHANGED <<copy, snap, i, result>>
       ELSE IF removed = 1
       THEN /\ Finish(t, "EIDRM")
            /\ UNCHANGED <<copy, snap, i>>
       ELSE /\ Goto(t, "scan")
            /\ copy' = [copy EXCEPT ![t] = values]
            /\ snap' = [snap EXCEPT ![t] = values]
            /\ i' = [i EXCEPT ![t] = 1]
            /\ UNCHANGED result
  /\ UNCHANGED <<file, call, todo, expected, outcome, calls, crashes>>

-----------------------------------------------------------------------------
(* apply_operations, inside the lock: one iteration of the scan per step.   *)

Invalid(o) == o.num >= NSems \/ o.undo

\* Mutant of Blocks: one unit too many is taken.
BlocksOffByOne(o, vals) == \/ o.op < 0 /\ vals[o.num] < -o.op - 1
                           \/ o.op = 0 /\ vals[o.num] # 0

Blocks(o, vals) == \/ o.op < 0 /\ vals[o.num] < -o.op
                   \/ o.op = 0 /\ vals[o.num] # 0

Scanning(t) == pc[t] = "scan" /\ i[t] <= Len(call[t].ops)

\* values[number] += operation.
ScanApply(t) ==
  /\ Scanning(t)
  /\ LET o == Current(t)
     IN  /\ ~Invalid(o)
         /\ ~Blocks(o, copy[t])
         /\ copy' = [copy EXCEPT ![t][o.num] = @ + o.op]
  /\ i' = [i EXCEPT ![t] = @ + 1]
  /\ UNCHANGED <<file, lockOwner, pc, call, snap, todo, expected, outcome, result,
                 calls, crashes>>

\* An operation that cannot be executed at all, or that may not wait.
ScanFail(t) ==
  /\ Scanning(t)
  /\ LET o == Current(t)
         e == IF o.num >= NSems THEN "EFBIG"
              ELSE IF o.undo THEN "ENOTSUP" ELSE "EAGAIN"
     IN  /\ Invalid(o) \/ (Blocks(o, copy[t]) /\ (o.nowait \/ removed = 1))
         /\ Finish(t, IF removed = 1 THEN "EIDRM" ELSE e)
  /\ UNCHANGED <<file, lockOwner, call, copy, snap, todo, i, expected, outcome,
                 calls, crashes>>

\* Decide to wait: read the sequence and count the waiter, still locked.
ScanWait(t) ==
  /\ Scanning(t)
  /\ removed = 0
  /\ LET o == Current(t)
     IN  /\ ~Invalid(o) /\ Blocks(o, copy[t]) /\ ~o.nowait
         /\ IF o.op = 0
              THEN /\ waitZero' = [waitZero EXCEPT ![o.num] = @ + 1]
                   /\ UNCHANGED waitNegative
              ELSE /\ waitNegative' = [waitNegative EXCEPT ![o.num] = @ + 1]
                   /\ UNCHANGED waitZero
  /\ expected' = [expected EXCEPT ![t] = sequence]
  /\ Goto(t, "unlockwait")
  /\ UNCHANGED <<values, removed, sequence, lastPid, lockOwner, call, copy,
                 snap, todo, i, outcome, result, calls, crashes>>

\* Every operation is possible: publish the copy.  The stores of the memcpy
\* and of the last_pid loop are plain ones: nothing orders them but the lock
\* and the release in wake_waiters, and a crash may fall between any two.
Commit(t) ==
  /\ pc[t] = "scan" /\ i[t] > Len(call[t].ops)
  /\ LET named == {call[t].ops[k].num : k \in DOMAIN call[t].ops}
     IN  todo' = [todo EXCEPT ![t] = ({"value"} \X Sem) \cup ({"pid"} \X named)]
  /\ Goto(t, "write")
  /\ UNCHANGED <<file, lockOwner, call, copy, snap, i, expected, outcome, result,
                 calls, crashes>>

\* Mutant of Store: SETALL and the memcpy stop one store early.
StoreAllButOne(t) ==
  /\ pc[t] = "write"
  /\ \E s \in todo[t] :
       /\ values' = IF s[1] = "value" THEN [values EXCEPT ![s[2]] = copy[t][s[2]]]
                    ELSE values
       /\ lastPid' = IF s[1] = "pid" THEN [lastPid EXCEPT ![s[2]] = ProcOf[t]]
                     ELSE lastPid
       /\ todo' = [todo EXCEPT ![t] = {}]
  /\ Goto(t, "bump") /\ result' = [result EXCEPT ![t] = "ok"]
  /\ UNCHANGED <<removed, sequence, waitNegative, waitZero, lockOwner, call,
                 copy, snap, i, expected, outcome, calls, crashes>>

\* One store of a write, with the last of which it is done.
Store(t) ==
  /\ pc[t] = "write"
  /\ \E s \in todo[t] :
       /\ values' = IF s[1] = "value" THEN [values EXCEPT ![s[2]] = copy[t][s[2]]]
                    ELSE values
       /\ lastPid' = IF s[1] = "pid" THEN [lastPid EXCEPT ![s[2]] = ProcOf[t]]
                     ELSE lastPid
       /\ todo' = [todo EXCEPT ![t] = @ \ {s}]
       /\ IF todo[t] = {s}
            THEN Goto(t, "bump") /\ result' = [result EXCEPT ![t] = "ok"]
            ELSE UNCHANGED <<pc, result>>
  /\ UNCHANGED <<removed, sequence, waitNegative, waitZero, lockOwner, call,
                 copy, snap, i, expected, outcome, calls, crashes>>

-----------------------------------------------------------------------------
(* semctl, inside the lock.  The removed flag is not read again.            *)

\* GETVAL, GETPID, GETNCNT, GETZCNT, GETALL: only the range of semnum
\* matters.  IPC_STAT and IPC_SET are as a GET of a number in range.
CtlGet(t) ==
  /\ pc[t] = "ctl" /\ call[t].kind = "GET"
  /\ Finish(t, IF call[t].num >= NSems THEN "EINVAL" ELSE "ok")
  /\ UNCHANGED <<file, lockOwner, call, copy, snap, todo, i, expected, outcome,
                 calls, crashes>>

CtlSet(t, vals, which) ==
  /\ copy' = [copy EXCEPT ![t] = vals]
  /\ snap' = [snap EXCEPT ![t] = values]
  /\ todo' = [todo EXCEPT ![t] = {"value", "pid"} \X which]
  /\ Goto(t, "write")
  /\ UNCHANGED result

CtlSetVal(t) ==
  /\ pc[t] = "ctl" /\ call[t].kind = "SETVAL"
  /\ LET n == call[t].num
         v == call[t].val
     IN  IF n \in Sem /\ v \in 0 .. MaxSet
           THEN CtlSet(t, [values EXCEPT ![n] = v], {n})
           ELSE /\ Finish(t, IF n \in Sem THEN "ERANGE" ELSE "EINVAL")
                /\ UNCHANGED <<copy, snap, todo>>
  /\ UNCHANGED <<file, lockOwner, call, i, expected, outcome, calls, crashes>>

CtlSetAll(t) ==
  /\ pc[t] = "ctl" /\ call[t].kind = "SETALL"
  /\ IF call[t].num \in Sem /\ \A n \in Sem : call[t].vals[n] <= MaxSet
       THEN CtlSet(t, call[t].vals, Sem)
       ELSE /\ Finish(t, IF call[t].num \in Sem THEN "ERANGE" ELSE "EINVAL")
            /\ UNCHANGED <<copy, snap, todo>>
  /\ UNCHANGED <<file, lockOwner, call, i, expected, outcome, calls, crashes>>

CtlRmid(t) ==
  /\ pc[t] = "ctl" /\ call[t].kind = "IPC_RMID"
  /\ removed' = 1
  /\ Goto(t, "bump")
  /\ result' = [result EXCEPT ![t] = "ok"]
  /\ UNCHANGED <<values, sequence, lastPid, waitNegative, waitZero, lockOwner,
                 call, copy, snap, todo, i, expected, outcome, calls, crashes>>

-----------------------------------------------------------------------------
(* wake_waiters: bump the sequence, then FUTEX_WAKE everyone asleep on it.  *)

Bump(t) ==
  /\ pc[t] = "bump"
  /\ sequence < MaxSequence
  /\ sequence' = sequence + 1
  /\ Goto(t, "wake")
  /\ UNCHANGED <<values, removed, lastPid, waitNegative, waitZero, lockOwner,
                 local, calls, crashes>>

FutexWake(t) ==
  /\ pc[t] = "wake"
  /\ LET woken == {u \in Thread : pc[u] = "asleep"}
     IN  /\ pc' = [u \in Thread |-> IF u = t THEN "unlock"
                                    ELSE IF u \in woken THEN "relock"
                                    ELSE pc[u]]
         /\ outcome' = [u \in Thread |->
                          IF u \in woken THEN "woken" ELSE outcome[u]]
  /\ UNCHANGED <<file, lockOwner, call, copy, snap, todo, i, expected, result,
                 calls, crashes>>

-----------------------------------------------------------------------------
(* Leaving the lock, and waiting.                                           *)

Unlock(t) ==
  /\ pc[t] = "unlock"
  /\ Release(t)
  /\ Goto(t, "close")
  /\ UNCHANGED <<file, local, calls, crashes>>

\* close_mapping and return to the caller.
Close(t) ==
  /\ pc[t] = "close"
  /\ Release(t)
  /\ Goto(t, "idle")
  /\ UNCHANGED <<file, local, calls, crashes>>

UnlockWait(t) ==
  /\ pc[t] = "unlockwait"
  /\ Release(t)
  /\ Goto(t, "prewait")
  /\ UNCHANGED <<file, local, calls, crashes>>

\* Mutant of FutexWait: sleep whatever the sequence is by now.
FutexWaitUnconditionally(t) ==
  /\ pc[t] = "prewait"
  /\ Goto(t, "asleep")
  /\ UNCHANGED <<file, lockOwner, call, copy, snap, todo, i, expected, outcome,
                 result, calls, crashes>>

\* FUTEX_WAIT: the kernel compares and queues in one step.
FutexWait(t) ==
  /\ pc[t] = "prewait"
  /\ IF sequence = expected[t]
       THEN Goto(t, "asleep") /\ UNCHANGED outcome
       ELSE Goto(t, "relock") /\ outcome' = [outcome EXCEPT ![t] = "EAGAIN"]
  /\ UNCHANGED <<file, lockOwner, call, copy, snap, todo, i, expected, result,
                 calls, crashes>>

\* Mutant of Timeout: return at once, still counted as a waiter.
TimeoutReturnsCounted(t) ==
  /\ pc[t] = "asleep" /\ call[t].timed
  /\ Goto(t, "close")
  /\ result' = [result EXCEPT ![t] = "EAGAIN"]
  /\ UNCHANGED <<file, lockOwner, call, copy, snap, todo, i, expected, outcome,
                 calls, crashes>>

\* FUTEX_WAIT ends without a wake: its timeout expires, or a signal arrives.
\* A signal that arrives while a failed wait takes the lock again leaves its
\* EINTR in errno, which is only read after that.
Timeout(t) ==
  /\ pc[t] = "asleep" /\ call[t].timed
  /\ outcome' = [outcome EXCEPT ![t] = "ETIMEDOUT"]
  /\ Goto(t, "relock")
  /\ UNCHANGED <<file, lockOwner, call, copy, snap, todo, i, expected, result,
                 calls, crashes>>

Interrupt(t) ==
  /\ \/ pc[t] = "asleep"
     \/ pc[t] = "relock" /\ outcome[t] # "woken"
  /\ outcome' = [outcome EXCEPT ![t] = "EINTR"]
  /\ Goto(t, "relock")
  /\ UNCHANGED <<file, lockOwner, call, copy, snap, todo, i, expected, result,
                 calls, crashes>>

\* Take the lock again and leave the waiting count.
Relock(t) ==
  /\ pc[t] = "relock"
  /\ Acquire(t)
  /\ LET o == Current(t)
     IN  IF o.op = 0
           THEN /\ waitZero' = [waitZero EXCEPT ![o.num] = @ - 1]
                /\ UNCHANGED waitNegative
           ELSE /\ waitNegative' = [waitNegative EXCEPT ![o.num] = @ - 1]
                /\ UNCHANGED waitZero
  /\ Goto(t, "unlockretry")
  /\ UNCHANGED <<values, removed, sequence, lastPid, local, calls, crashes>>

UnlockRetry(t) ==
  /\ pc[t] = "unlockretry"
  /\ Release(t)
  /\ IF outcome[t] \in {"woken", "EAGAIN"}
       THEN Goto(t, "lock") /\ UNCHANGED result
       ELSE /\ Goto(t, "close")
            /\ result' = [result EXCEPT ![t] =
                 IF outcome[t] = "ETIMEDOUT" THEN "EAGAIN" ELSE "EINTR"]
  /\ UNCHANGED <<file, call, copy, snap, todo, i, expected, outcome, calls, crashes>>

\* A process dies: the kernel drops its lock, the file stays as it is.
Crash(p) ==
  /\ crashes < MaxCrashes
  /\ \E t \in Thread : ProcOf[t] = p /\ pc[t] # "dead"
  /\ crashes' = crashes + 1
  /\ pc' = [t \in Thread |-> IF ProcOf[t] = p THEN "dead" ELSE pc[t]]
  /\ lockOwner' = IF lockOwner = p THEN NoProcess ELSE lockOwner
  /\ UNCHANGED <<file, local, calls>>

-----------------------------------------------------------------------------
\* Steps a thread takes once it is in a call, whatever happens around it.
Step(t) ==
  \/ Lock(t) \/ ScanApply(t) \/ ScanFail(t) \/ ScanWait(t) \/ Commit(t)
  \/ CtlGet(t) \/ CtlSetVal(t) \/ CtlSetAll(t) \/ CtlRmid(t)
  \/ Store(t) \/ Bump(t) \/ FutexWake(t)
  \/ Unlock(t) \/ Close(t) \/ UnlockWait(t)
  \/ FutexWait(t) \/ Relock(t) \/ UnlockRetry(t)

Next == \/ \E t \in Thread : \/ \E c \in Calls : StartCall(t, c)
                             \/ Step(t) \/ Timeout(t) \/ Interrupt(t)
        \/ \E p \in Process : Crash(p)

Spec == Init /\ [][Next]_vars

\* A thread inside the library is scheduled.  Signals, timeouts and crashes
\* need not happen, and nobody has to make another call.
FairSpec == Spec /\ \A t \in Thread : WF_vars(Step(t))

-----------------------------------------------------------------------------
(* Properties *)

\* Every variable has its type; in particular no value, shared or copied, is
\* ever negative: the scan refuses an operation that would make it so.
TypeOK ==
  /\ values \in [Sem -> Nat]
  /\ removed \in {0, 1}
  /\ sequence \in Nat
  /\ lastPid \in [Sem -> Process \cup {NoProcess}]
  /\ waitNegative \in [Sem -> Int]
  /\ waitZero \in [Sem -> Int]
  /\ lockOwner \in Process \cup {NoProcess}
  /\ pc \in [Thread -> PC]
  /\ call \in [Thread -> Calls \cup {NoCall}]
  /\ copy \in [Thread -> [Sem -> Nat]]
  /\ snap \in [Thread -> [Sem -> Nat]]
  /\ todo \in [Thread -> SUBSET ({"value", "pid"} \X Nat)]
  /\ i \in [Thread -> Nat \ {0}]
  /\ expected \in [Thread -> Nat]
  /\ outcome \in [Thread -> Outcome]
  /\ result \in [Thread -> Result]
  /\ calls \in 0 .. MaxCalls
  /\ crashes \in 0 .. MaxCrashes

\* Every process uses the set from one thread only: the case fcntl's record
\* locks are made for.
OneThreadPerProcess ==
  \A t, u \in Thread : ProcOf[t] = ProcOf[u] => t = u

\* What a thread executes fits where it is: in particular a counted waiter
\* still points at the operation it was counted for, so that it leaves the
\* count it entered.
CallMatchesPlace ==
  \A t \in Thread :
    /\ pc[t] \in {"lock", "scan", "ctl", "unlockretry"} => call[t] \in Calls
    /\ pc[t] = "ctl" => call[t].kind # "op"
    /\ pc[t] = "scan" => call[t].kind = "op"
    /\ Counted(t) => /\ call[t] \in Calls /\ call[t].kind = "op"
                     /\ i[t] \in DOMAIN call[t].ops
                     /\ Current(t).num \in Sem

\* fcntl's write lock keeps processes apart: whoever is between F_WRLCK and
\* F_UNLCK belongs to the process that owns the lock.
LockHeld ==
  \A t \in Thread : pc[t] \in Critical => lockOwner = ProcOf[t]

\* "fcntl locks serialize atomic operation sets" (sysv-semaphore.c, head
\* comment): a thread commits its operations to the very values it copied,
\* so no other operation set, SETVAL or SETALL falls between its memcpy in
\* and its memcpy out.
OperationSetsSerialized ==
  \A t \in Thread : pc[t] = "scan" => values = snap[t] /\ removed = 0

\* A waiter about to sleep, or asleep, on the current sequence sleeps on the
\* state it examined: whoever changed a value or removed the set since has
\* still to bump the sequence, and whoever bumped it before the sleeper
\* was queued has still to wake it.
NoLostWakeup ==
  \A t \in Thread :
    /\ pc[t] \in {"unlockwait", "prewait", "asleep"} /\ expected[t] = sequence
         => \/ values = snap[t] /\ removed = 0
            \/ \E u \in Thread : pc[u] \in {"write", "bump"}
    /\ pc[t] = "asleep" /\ expected[t] # sequence
         => \E u \in Thread : pc[u] = "wake"

\* The lock is never left behind: its owner has a live thread that is on its
\* way to F_UNLCK, even when a process died inside its critical section.
LockNeverOrphaned ==
  lockOwner # NoProcess
    => \E t \in Thread : ProcOf[t] = lockOwner /\ pc[t] \in Critical

\* GETNCNT and GETZCNT count exactly the threads that wait on a semaphore.
WaitCountsExact ==
  \A n \in Sem :
    /\ waitZero[n] = Cardinality({t \in Thread :
         Counted(t) /\ Current(t).num = n /\ Current(t).op = 0})
    /\ waitNegative[n] = Cardinality({t \in Thread :
         Counted(t) /\ Current(t).num = n /\ Current(t).op < 0})

\* The call has been decided: it is on its way back to the caller.
Decided(t) == pc[t] \in {"bump", "wake", "unlock", "close"}

\* The values as they were when a write began, until its last store.
Writing == {t \in Thread : pc[t] = "write"}
Settled == IF Writing = {} THEN values ELSE snap[CHOOSE t \in Writing : TRUE]

Abs == INSTANCE AbstractSem WITH
  values <- Settled,
  req <- call,
  status <- [t \in Thread |-> IF Decided(t) THEN result[t]
                              ELSE IF pc[t] \in {"idle", "dead"} THEN pc[t]
                              ELSE "pending"]

\* The lock, the scan, the stores, the sequence and the futex together
\* implement atomic calls: every semop that returns success performed all its
\* operations at one instant, every one that failed left no trace, and EAGAIN,
\* EIDRM and the other errors are returned only when they are true.  The file
\* has no journal: a process that dies in the middle of its stores leaves some
\* of them (AbstractSem's Die), and nothing else can.
ImplementsAbstractSem == Abs!Spec

\* A thread that sleeps for ever sleeps for a reason: from some time on the
\* set exists and the values do not allow its operations.  Removal and every
\* SETVAL, SETALL or semop that makes them possible wakes it.
SleepsOnlyWhileBlocked ==
  \A t \in Thread :
    <>[](pc[t] = "asleep")
      => <>[](pc[t] = "asleep" /\ removed = 0 /\ ~Abs!Possible(values, call[t].ops))

\* Nobody waits for the lock for ever, even when a process dies holding it.
LockEventuallyGranted ==
  \A t \in Thread : pc[t] \in {"lock", "relock"} ~> pc[t] \notin {"lock", "relock"}
=============================================================================

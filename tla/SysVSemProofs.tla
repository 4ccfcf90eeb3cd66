--------------------------- MODULE SysVSemProofs ---------------------------
(***************************************************************************)
(* Proofs about SysVSem, for every set of threads, every set of calls and   *)
(* every number of semaphores: type correctness, the lock that is never     *)
(* left behind, the serialisation that the fcntl lock gives single-threaded *)
(* processes, and, while no process dies, that no wake-up is lost and that  *)
(* the waiting counts are exact.                                            *)
(***************************************************************************)
EXTENDS SysVSem, FiniteRecursion, FiniteSetTheorems, TLAPS

\* Reading a record of Calls by its kind.
LEMMA CallShape ==
  ASSUME NEW c \in Calls
  PROVE  /\ c.kind = "op" => c.ops \in Seq(SemBuf) /\ c.timed \in BOOLEAN
         /\ c.kind = "SETALL" => c.vals \in [Sem -> Nat]
         /\ c.kind = "SETVAL" => c.num \in Nat /\ c.val \in Int
  BY CallsAssumption DEF Call

\* The operation a scanning or counted thread points at is a struct sembuf.
LEMMA CurrentShape ==
  ASSUME TypeOK, NEW t \in Thread, call[t] \in Calls, call[t].kind = "op",
         i[t] <= Len(call[t].ops)
  PROVE  /\ i[t] \in DOMAIN call[t].ops
         /\ Current(t).num \in Nat
         /\ Current(t).op \in Int
         /\ Current(t).undo \in BOOLEAN
         /\ Current(t).nowait \in BOOLEAN
  <1>1. call[t].ops \in Seq(SemBuf)
    BY CallShape
  <1>2. i[t] \in 1 .. Len(call[t].ops)
    BY <1>1 DEF TypeOK
  <1>3. call[t].ops[i[t]] \in SemBuf
    BY <1>1, <1>2
  <1> QED
    BY <1>1, <1>2, <1>3, SMTT(30) DEF Current, SemBuf

\* The typing invariant made inductive: the type of a local variable depends
\* on the call that is being executed.
TypeInv == TypeOK /\ CallMatchesPlace

LEMMA TypeInit == Init => TypeInv
  <1> SUFFICES ASSUME Init PROVE TypeInv
    OBVIOUS
  <1>1. values \in [Sem -> Nat]
    BY DEF Init
  <1>2. TypeOK
    BY <1>1, SizeAssumption, ThreadAssumption
    DEF Init, TypeOK, PC, Critical, Outcome, Result
  <1>3. CallMatchesPlace
    BY DEF Init, CallMatchesPlace, Counted
  <1> QED
    BY <1>2, <1>3 DEF TypeInv

LEMMA TypeStep ==
  ASSUME TypeInv, [Next]_vars
  PROVE  TypeInv'
  <1> USE DEF TypeInv
  <1>0. SUFFICES ASSUME Next PROVE TypeInv'
    BY DEF vars, file, local, TypeOK, CallMatchesPlace, Counted, Current
  <1>1. ASSUME NEW t \in Thread, NEW c \in Calls, StartCall(t, c)
        PROVE  TypeInv'
    <2>1. /\ pc' = pc \/ pc' = [pc EXCEPT ![t] = "close"]
                       \/ pc' = [pc EXCEPT ![t] = "lock"]
          /\ \E r \in Result : result' = [result EXCEPT ![t] = r]
          /\ call' = [call EXCEPT ![t] = c]
          /\ calls' \in 0 .. MaxCalls
      BY <1>1, SizeAssumption DEF StartCall, Goto, Result, TypeOK
    <2>2. UNCHANGED <<file, lockOwner, copy, snap, todo, i, expected, outcome, crashes>>
      BY <1>1 DEF StartCall
    <2>3. TypeOK'
      BY <2>1, <2>2 DEF TypeOK, file, PC, Critical
    <2>4. CallMatchesPlace'
      BY <1>1
      DEF TypeOK, StartCall, Goto, file, CallMatchesPlace, Counted, Current
    <2> QED
      BY <2>3, <2>4
  <1>2. ASSUME NEW t \in Thread, Lock(t)
        PROVE  TypeInv'
    <2>1. /\ \E q \in PC : pc' = [pc EXCEPT ![t] = q]
          /\ result' = result \/ result' = [result EXCEPT ![t] = "EIDRM"]
          /\ lockOwner' \in Process
      BY <1>2, ThreadAssumption
      DEF Lock, Goto, Finish, Acquire, PC, Critical
    <2>2. /\ copy' = copy \/ copy' = [copy EXCEPT ![t] = values]
          /\ snap' = snap \/ snap' = [snap EXCEPT ![t] = values]
          /\ i' = i \/ i' = [i EXCEPT ![t] = 1]
      BY <1>2 DEF Lock
    <2>3. UNCHANGED <<file, call, todo, expected, outcome, calls, crashes>>
      BY <1>2 DEF Lock
    <2>6. /\ copy' \in [Thread -> [Sem -> Nat]]
          /\ snap' \in [Thread -> [Sem -> Nat]]
      BY <2>2, ZenonT(30) DEF TypeOK
    <2>7. i' \in [Thread -> Nat \ {0}]
      BY <2>2 DEF TypeOK
    <2>4. TypeOK'
      BY <2>1, <2>3, <2>6, <2>7, ZenonT(30) DEF TypeOK, file, Result
    <2>5. CallMatchesPlace'
      BY <1>2
      DEF TypeOK, Lock, Goto, Finish, Acquire, file, CallMatchesPlace,
          Counted, Current
    <2> QED
      BY <2>4, <2>5
  <1>3. ASSUME NEW t \in Thread, ScanApply(t)
        PROVE  TypeInv'
    <2>1. /\ call[t] \in Calls /\ call[t].kind = "op"
          /\ i[t] <= Len(call[t].ops)
      BY <1>3 DEF ScanApply, Scanning, CallMatchesPlace
    <2>2. /\ Current(t).num \in Sem
          /\ Current(t).op \in Int
          /\ copy[t][Current(t).num] + Current(t).op \in Nat
      <3>1. Current(t).num \in Sem /\ Current(t).op \in Int
        BY <2>1, <1>3, CurrentShape, SizeAssumption
        DEF ScanApply, Invalid, Sem
      <3>2. copy[t][Current(t).num] \in Nat
        BY <3>1 DEF TypeOK
      <3> QED
        BY <3>1, <3>2, <1>3 DEF ScanApply, Blocks
    <2>3. copy' \in [Thread -> [Sem -> Nat]]
      BY <1>3, <2>2 DEF ScanApply, TypeOK
    <2>4. i' \in [Thread -> Nat \ {0}]
      BY <1>3 DEF ScanApply, TypeOK
    <2>5. UNCHANGED <<file, lockOwner, pc, call, snap, todo, expected, outcome,
                      result, calls, crashes>>
      BY <1>3 DEF ScanApply
    <2>6. TypeOK'
      BY <2>3, <2>4, <2>5 DEF TypeOK, file
    <2>7. \A u \in Thread : u # t => i'[u] = i[u]
      BY <1>3 DEF ScanApply, TypeOK
    <2>8. ~Counted(t)
      BY <1>3 DEF ScanApply, Scanning, Counted
    <2>9. CallMatchesPlace'
      BY <2>5, <2>7, <2>8 DEF CallMatchesPlace, Counted, Current
    <2> QED
      BY <2>6, <2>9
  <1>4. ASSUME NEW t \in Thread, ScanFail(t)
        PROVE  TypeInv'
    <2>1. TypeOK'
      BY <1>4, ThreadAssumption
      DEF TypeOK, ScanFail, Goto, Finish, Acquire, Release, file, local, PC,
          Critical, Result, Outcome
    <2>2. CallMatchesPlace'
      BY <1>4
      DEF TypeOK, ScanFail, Goto, Finish, Acquire, Release, file, local,
          CallMatchesPlace, Counted, Current
    <2> QED
      BY <2>1, <2>2
  <1>5. ASSUME NEW t \in Thread, ScanWait(t)
        PROVE  TypeInv'
    <2>1. /\ call[t] \in Calls /\ call[t].kind = "op"
          /\ i[t] \in DOMAIN call[t].ops
          /\ Current(t).num \in Sem
      <3>1. call[t] \in Calls /\ call[t].kind = "op" /\ i[t] <= Len(call[t].ops)
        BY <1>5 DEF ScanWait, Scanning, CallMatchesPlace
      <3> QED
        BY <3>1, <1>5, CurrentShape, SizeAssumption DEF ScanWait, Invalid, Sem
    <2>2. TypeOK'
      BY <1>5, <2>1 DEF TypeOK, ScanWait, Goto, PC, Critical
    <2>3. CallMatchesPlace'
      BY <1>5, <2>1
      DEF TypeOK, ScanWait, Goto, CallMatchesPlace, Counted, Current
    <2> QED
      BY <2>2, <2>3
  <1>6. ASSUME NEW t \in Thread, Commit(t)
        PROVE  TypeInv'
    <2>1. call[t] \in Calls /\ call[t].kind = "op"
      BY <1>6 DEF Commit, CallMatchesPlace
    <2>2. call[t].ops \in Seq(SemBuf)
      BY <2>1, CallShape
    <2>3. todo' \in [Thread -> SUBSET ({"value", "pid"} \X Nat)]
      <3>1. \A k \in DOMAIN call[t].ops : call[t].ops[k].num \in Nat
        <4> SUFFICES ASSUME NEW k \in DOMAIN call[t].ops PROVE call[t].ops[k].num \in Nat
          OBVIOUS
        <4>1. call[t].ops[k] \in SemBuf
          BY <2>2
        <4> QED
          BY <4>1 DEF SemBuf
      <3>2. {call[t].ops[k].num : k \in DOMAIN call[t].ops} \subseteq Nat /\ Sem \subseteq Nat
        BY <3>1, SizeAssumption DEF Sem
      <3> QED
        BY <1>6, <3>2 DEF Commit, TypeOK
    <2>4. TypeOK'
      BY <1>6, <2>3 DEF TypeOK, Commit, Goto, file, PC, Critical
    <2>5. CallMatchesPlace'
      BY <1>6 DEF TypeOK, Commit, Goto, file, CallMatchesPlace, Counted, Current
    <2> QED
      BY <2>4, <2>5
  <1>7. ASSUME NEW t \in Thread, CtlGet(t)
        PROVE  TypeInv'
    <2>1. TypeOK'
      BY <1>7, ThreadAssumption
      DEF TypeOK, CtlGet, Goto, Finish, Acquire, Release, file, local, PC,
          Critical, Result, Outcome
    <2>2. CallMatchesPlace'
      BY <1>7
      DEF TypeOK, CtlGet, Goto, Finish, Acquire, Release, file, local,
          CallMatchesPlace, Counted, Current
    <2> QED
      BY <2>1, <2>2
  <1>8. ASSUME NEW t \in Thread, CtlSetVal(t) \/ CtlSetAll(t)
        PROVE  TypeInv'
    <2>1. /\ \E q \in {"unlock", "write"} : pc' = [pc EXCEPT ![t] = q]
          /\ result' = result \/ \E r \in Result : result' = [result EXCEPT ![t] = r]
      BY <1>8 DEF CtlSetVal, CtlSetAll, CtlSet, Finish, Goto, Result
    <2>2. UNCHANGED <<file, lockOwner, call, i, expected, outcome, calls, crashes>>
      BY <1>8 DEF CtlSetVal, CtlSetAll
    <2>3. \/ UNCHANGED <<copy, snap, todo>>
          \/ /\ \E v \in [Sem -> Nat] : copy' = [copy EXCEPT ![t] = v]
             /\ snap' = [snap EXCEPT ![t] = values]
             /\ \E w \in SUBSET Sem : todo' = [todo EXCEPT ![t] = {"value", "pid"} \X w]
      <3>1. CASE CtlSetVal(t)
        <4>1. 0 .. MaxSet \subseteq Nat
          BY SizeAssumption
        <4> DEFINE v == [values EXCEPT ![call[t].num] = call[t].val]
                   w == {call[t].num}
        <4>2. CASE call[t].num \in Sem /\ call[t].val \in 0 .. MaxSet
          <5>1. v \in [Sem -> Nat] /\ w \in SUBSET Sem
            BY <4>1, <4>2 DEF TypeOK
          <5>2. /\ copy' = [copy EXCEPT ![t] = v]
                /\ snap' = [snap EXCEPT ![t] = values]
                /\ todo' = [todo EXCEPT ![t] = {"value", "pid"} \X w]
            BY <3>1, <4>2 DEF CtlSetVal, CtlSet
          <5> QED
            BY <5>1, <5>2
        <4>3. CASE ~(call[t].num \in Sem /\ call[t].val \in 0 .. MaxSet)
          BY <3>1, <4>3 DEF CtlSetVal
        <4> QED
          BY <4>2, <4>3
      <3>2. CASE CtlSetAll(t)
        <4>1. call[t].vals \in [Sem -> Nat] /\ Sem \in SUBSET Sem
          BY <3>2, CallShape DEF CtlSetAll, CallMatchesPlace
        <4> QED
          BY <3>2, <4>1 DEF CtlSetAll, CtlSet
      <3> QED
        BY <1>8, <3>1, <3>2
    <2>4. /\ copy' \in [Thread -> [Sem -> Nat]]
          /\ snap' \in [Thread -> [Sem -> Nat]]
          /\ todo' \in [Thread -> SUBSET ({"value", "pid"} \X Nat)]
      <3>1. /\ copy' \in [Thread -> [Sem -> Nat]]
            /\ snap' \in [Thread -> [Sem -> Nat]]
        BY <2>3, ZenonT(60) DEF TypeOK
      <3>2. Sem \subseteq Nat
        BY SizeAssumption DEF Sem
      <3>3. todo' \in [Thread -> SUBSET ({"value", "pid"} \X Nat)]
        <4>1. CASE todo' = todo
          BY <4>1 DEF TypeOK
        <4>2. ASSUME NEW w \in SUBSET Sem, todo' = [todo EXCEPT ![t] = {"value", "pid"} \X w]
              PROVE  todo' \in [Thread -> SUBSET ({"value", "pid"} \X Nat)]
          <5>1. PICK x : x = {"value", "pid"} \X w
            OBVIOUS
          <5>2. \A e \in x : e \in {"value", "pid"} \X Nat
            BY <3>2, <5>1
          <5>3. x \in SUBSET ({"value", "pid"} \X Nat)
            BY <5>2
          <5> QED
            BY <4>2, <5>1, <5>3 DEF TypeOK
        <4> QED
          BY <2>3, <4>1, <4>2
      <3> QED
        BY <3>1, <3>3
    <2>5. TypeOK'
      BY <2>1, <2>2, <2>4 DEF TypeOK, file, PC, Critical
    <2>6. CallMatchesPlace'
      BY <1>8, <2>1, <2>2 DEF TypeOK, CallMatchesPlace, Counted, Current
    <2> QED
      BY <2>5, <2>6
  <1>9. ASSUME NEW t \in Thread, Store(t)
        PROVE  TypeInv'
    <2>1. PICK st \in todo[t] :
            /\ values' = IF st[1] = "value" THEN [values EXCEPT ![st[2]] = copy[t][st[2]]]
                         ELSE values
            /\ lastPid' = IF st[1] = "pid" THEN [lastPid EXCEPT ![st[2]] = ProcOf[t]]
                          ELSE lastPid
            /\ todo' = [todo EXCEPT ![t] = @ \ {st}]
            /\ IF todo[t] = {st}
                 THEN Goto(t, "bump") /\ result' = [result EXCEPT ![t] = "ok"]
                 ELSE UNCHANGED <<pc, result>>
      BY <1>9 DEF Store
    <2>2. UNCHANGED <<removed, sequence, waitNegative, waitZero, lockOwner, call,
                      copy, snap, i, expected, outcome, calls, crashes>>
      BY <1>9 DEF Store
    <2>3. copy[t] \in [Sem -> Nat] /\ ProcOf[t] \in Process
      BY ThreadAssumption DEF TypeOK
    <2>4. values' \in [Sem -> Nat] /\ lastPid' \in [Sem -> Process \cup {NoProcess}]
      BY <2>1, <2>3 DEF TypeOK
    <2>5. todo' \in [Thread -> SUBSET ({"value", "pid"} \X Nat)]
      BY <2>1 DEF TypeOK
    <2>6. pc' \in [Thread -> PC] /\ result' \in [Thread -> Result]
      BY <2>1 DEF TypeOK, Goto, PC, Critical, Result
    <2>7. TypeOK'
      BY <2>2, <2>4, <2>5, <2>6 DEF TypeOK
    <2>8. CallMatchesPlace'
      BY <1>9, <2>1, <2>2 DEF Store, Goto, TypeOK, CallMatchesPlace, Counted, Current
    <2> QED
      BY <2>7, <2>8
  <1>10. ASSUME NEW t \in Thread, CtlRmid(t)
        PROVE  TypeInv'
    <2>1. TypeOK'
      BY <1>10, ThreadAssumption
      DEF TypeOK, CtlRmid, Goto, Finish, Acquire, Release, file, local, PC,
          Critical, Result, Outcome
    <2>2. CallMatchesPlace'
      BY <1>10
      DEF TypeOK, CtlRmid, Goto, Finish, Acquire, Release, file, local,
          CallMatchesPlace, Counted, Current
    <2> QED
      BY <2>1, <2>2
  <1>11. ASSUME NEW t \in Thread, Bump(t)
        PROVE  TypeInv'
    <2>1. TypeOK'
      BY <1>11, ThreadAssumption
      DEF TypeOK, Bump, Goto, Finish, Acquire, Release, file, local, PC,
          Critical, Result, Outcome
    <2>2. CallMatchesPlace'
      BY <1>11
      DEF TypeOK, Bump, Goto, Finish, Acquire, Release, file, local,
          CallMatchesPlace, Counted, Current
    <2> QED
      BY <2>1, <2>2
  <1>12. ASSUME NEW t \in Thread, FutexWake(t)
        PROVE  TypeInv'
    <2>1. TypeOK'
      BY <1>12, ThreadAssumption
      DEF TypeOK, FutexWake, Goto, Finish, Acquire, Release, file, local, PC,
          Critical, Result, Outcome
    <2>2. CallMatchesPlace'
      BY <1>12
      DEF TypeOK, FutexWake, Goto, Finish, Acquire, Release, file, local,
          CallMatchesPlace, Counted, Current
    <2> QED
      BY <2>1, <2>2
  <1>13. ASSUME NEW t \in Thread, Unlock(t)
        PROVE  TypeInv'
    <2>1. TypeOK'
      BY <1>13, ThreadAssumption
      DEF TypeOK, Unlock, Goto, Finish, Acquire, Release, file, local, PC,
          Critical, Result, Outcome
    <2>2. CallMatchesPlace'
      BY <1>13
      DEF TypeOK, Unlock, Goto, Finish, Acquire, Release, file, local,
          CallMatchesPlace, Counted, Current
    <2> QED
      BY <2>1, <2>2
  <1>14. ASSUME NEW t \in Thread, Close(t)
        PROVE  TypeInv'
    <2>1. TypeOK'
      BY <1>14, ThreadAssumption
      DEF TypeOK, Close, Goto, Finish, Acquire, Release, file, local, PC,
          Critical, Result, Outcome
    <2>2. CallMatchesPlace'
      BY <1>14
      DEF TypeOK, Close, Goto, Finish, Acquire, Release, file, local,
          CallMatchesPlace, Counted, Current
    <2> QED
      BY <2>1, <2>2
  <1>15. ASSUME NEW t \in Thread, UnlockWait(t)
        PROVE  TypeInv'
    <2>1. TypeOK'
      BY <1>15, ThreadAssumption
      DEF TypeOK, UnlockWait, Goto, Finish, Acquire, Release, file, local, PC,
          Critical, Result, Outcome
    <2>2. CallMatchesPlace'
      BY <1>15
      DEF TypeOK, UnlockWait, Goto, Finish, Acquire, Release, file, local,
          CallMatchesPlace, Counted, Current
    <2> QED
      BY <2>1, <2>2
  <1>16. ASSUME NEW t \in Thread, FutexWait(t)
        PROVE  TypeInv'
    <2>1. TypeOK'
      BY <1>16, ThreadAssumption
      DEF TypeOK, FutexWait, Goto, Finish, Acquire, Release, file, local, PC,
          Critical, Result, Outcome
    <2>2. CallMatchesPlace'
      BY <1>16
      DEF TypeOK, FutexWait, Goto, Finish, Acquire, Release, file, local,
          CallMatchesPlace, Counted, Current
    <2> QED
      BY <2>1, <2>2
  <1>17. ASSUME NEW t \in Thread, Relock(t)
        PROVE  TypeInv'
    <2>1. Current(t).num \in Sem
      BY <1>17 DEF Relock, Counted, CallMatchesPlace
    <2>2. /\ waitZero' \in [Sem -> Int]
          /\ waitNegative' \in [Sem -> Int]
      BY <1>17, <2>1 DEF Relock, TypeOK
    <2>3. /\ lockOwner' \in Process
          /\ pc' = [pc EXCEPT ![t] = "unlockretry"]
          /\ UNCHANGED <<values, removed, sequence, lastPid, local, calls,
                         crashes>>
      BY <1>17, ThreadAssumption DEF Relock, Acquire, Goto
    <2>4. TypeOK'
      BY <2>2, <2>3 DEF TypeOK, local, PC, Critical
    <2>5. CallMatchesPlace'
      BY <1>17, <2>3
      DEF TypeOK, local, Relock, CallMatchesPlace, Counted, Current
    <2> QED
      BY <2>4, <2>5
  <1>18. ASSUME NEW t \in Thread, UnlockRetry(t)
        PROVE  TypeInv'
    <2>1. TypeOK'
      BY <1>18, ThreadAssumption
      DEF TypeOK, UnlockRetry, Goto, Finish, Acquire, Release, file, local, PC,
          Critical, Result, Outcome
    <2>2. CallMatchesPlace'
      BY <1>18
      DEF TypeOK, UnlockRetry, Goto, Finish, Acquire, Release, file, local,
          CallMatchesPlace, Counted, Current
    <2> QED
      BY <2>1, <2>2
  <1>19. ASSUME NEW t \in Thread, Timeout(t)
        PROVE  TypeInv'
    <2>1. TypeOK'
      BY <1>19, ThreadAssumption
      DEF TypeOK, Timeout, Goto, Finish, Acquire, Release, file, local, PC,
          Critical, Result, Outcome
    <2>2. CallMatchesPlace'
      BY <1>19
      DEF TypeOK, Timeout, Goto, Finish, Acquire, Release, file, local,
          CallMatchesPlace, Counted, Current
    <2> QED
      BY <2>1, <2>2
  <1>20. ASSUME NEW t \in Thread, Interrupt(t)
        PROVE  TypeInv'
    <2>1. TypeOK'
      BY <1>20, ThreadAssumption
      DEF TypeOK, Interrupt, Goto, Finish, Acquire, Release, file, local, PC,
          Critical, Result, Outcome
    <2>2. CallMatchesPlace'
      BY <1>20
      DEF TypeOK, Interrupt, Goto, Finish, Acquire, Release, file, local,
          CallMatchesPlace, Counted, Current
    <2> QED
      BY <2>1, <2>2
  <1>21. ASSUME NEW p \in Process, Crash(p)
         PROVE  TypeInv'
    <2>1. TypeOK'
      BY <1>21, SizeAssumption DEF TypeOK, Crash, file, local, PC
    <2>2. CallMatchesPlace'
      BY <1>21
      DEF TypeOK, Crash, file, local, CallMatchesPlace, Counted, Current
    <2> QED
      BY <2>1, <2>2
  <1> QED
    BY <1>0, <1>1, <1>2, <1>3, <1>4, <1>5, <1>6, <1>7, <1>8, <1>9, <1>10, <1>11, <1>12, <1>13, <1>14, <1>15, <1>16, <1>17, <1>18, <1>19, <1>20, <1>21 DEF Next, Step

\* Type correctness: whatever the threads call, in whatever order the kernel
\* schedules them, and whichever processes die.
THEOREM TypeCorrect == Spec => []TypeOK
  <1>1. Init => TypeInv
    BY TypeInit
  <1>2. TypeInv /\ [Next]_vars => TypeInv'
    BY TypeStep
  <1> QED
    BY <1>1, <1>2, PTL DEF Spec, TypeInv

-----------------------------------------------------------------------------
(* Serialisation.  The inductive invariant adds to the property that the    *)
(* lock belongs to whoever is inside: without it nothing keeps a second     *)
(* process from writing between the two memcpys.                            *)

SerialInv == TypeInv /\ LockHeld /\ OperationSetsSerialized

\* With one thread per process the lock admits one thread.
LEMMA Exclusion ==
  ASSUME OneThreadPerProcess, TypeOK, LockHeld,
         NEW t \in Thread, NEW u \in Thread,
         pc[t] \in Critical, pc[u] \in Critical
  PROVE  t = u
  BY DEF OneThreadPerProcess, LockHeld

LEMMA SerialStep ==
  ASSUME OneThreadPerProcess, SerialInv, [Next]_vars
  PROVE  SerialInv'
  <1> USE DEF SerialInv
  <1>0. TypeInv' /\ TypeOK
    BY TypeStep DEF TypeInv
  <1>st. CASE UNCHANGED vars
    BY <1>0, <1>st
    DEF vars, file, local, LockHeld, OperationSetsSerialized
  <1>1. ASSUME NEW t \in Thread, NEW c \in Calls, StartCall(t, c)
        PROVE  SerialInv'
    BY <1>0, <1>1
    DEF StartCall, Goto, file, TypeOK, LockHeld, OperationSetsSerialized,
        Critical
  <1>2. ASSUME NEW t \in Thread, Lock(t)
        PROVE  SerialInv'
    <2>0. \A u \in Thread : pc[u] \in Critical => u = t
      BY <1>2, ThreadAssumption
      DEF Lock, Acquire, LockHeld, OneThreadPerProcess
    <2>3. /\ \A u \in Thread : u # t => pc'[u] = pc[u]
          /\ lockOwner' = ProcOf[t]
      BY <1>0, <1>2 DEF Lock, Acquire, Goto, Finish, TypeOK
    <2>1. LockHeld'
      BY <2>0, <2>3 DEF LockHeld
    <2>2. OperationSetsSerialized'
      BY <1>0, <1>2, Exclusion
      DEF Lock, Acquire, Goto, Finish, file, local, TypeOK,
          OperationSetsSerialized, Critical
    <2> QED
      BY <1>0, <2>1, <2>2
  <1>3. ASSUME NEW t \in Thread, ScanApply(t)
        PROVE  SerialInv'
    <2>1. LockHeld'
      BY <1>0, <1>3, ThreadAssumption
      DEF ScanApply, Scanning, file, local, TypeOK, LockHeld, Critical,
          OneThreadPerProcess
    <2>2. OperationSetsSerialized'
      BY <1>0, <1>3, Exclusion
      DEF ScanApply, Scanning, file, local, TypeOK,
          OperationSetsSerialized, Critical
    <2> QED
      BY <1>0, <2>1, <2>2
  <1>4. ASSUME NEW t \in Thread, ScanFail(t)
        PROVE  SerialInv'
    <2>1. LockHeld'
      BY <1>0, <1>4, ThreadAssumption
      DEF ScanFail, Scanning, Finish, Goto, file, local, TypeOK, LockHeld, Critical,
          OneThreadPerProcess
    <2>2. OperationSetsSerialized'
      BY <1>0, <1>4, Exclusion
      DEF ScanFail, Scanning, Finish, Goto, file, local, TypeOK,
          OperationSetsSerialized, Critical
    <2> QED
      BY <1>0, <2>1, <2>2
  <1>5. ASSUME NEW t \in Thread, ScanWait(t)
        PROVE  SerialInv'
    <2>1. LockHeld'
      BY <1>0, <1>5, ThreadAssumption
      DEF ScanWait, Scanning, Goto, file, local, TypeOK, LockHeld, Critical,
          OneThreadPerProcess
    <2>2. OperationSetsSerialized'
      BY <1>0, <1>5, Exclusion
      DEF ScanWait, Scanning, Goto, file, local, TypeOK,
          OperationSetsSerialized, Critical
    <2> QED
      BY <1>0, <2>1, <2>2
  <1>6. ASSUME NEW t \in Thread, Commit(t)
        PROVE  SerialInv'
    <2>1. LockHeld'
      BY <1>0, <1>6, ThreadAssumption
      DEF Commit, Goto, file, local, TypeOK, LockHeld, Critical,
          OneThreadPerProcess
    <2>2. OperationSetsSerialized'
      BY <1>0, <1>6, Exclusion
      DEF Commit, Goto, file, local, TypeOK,
          OperationSetsSerialized, Critical
    <2> QED
      BY <1>0, <2>1, <2>2
  <1>7. ASSUME NEW t \in Thread, CtlGet(t)
        PROVE  SerialInv'
    <2>1. LockHeld'
      BY <1>0, <1>7, ThreadAssumption
      DEF CtlGet, Finish, Goto, file, local, TypeOK, LockHeld, Critical,
          OneThreadPerProcess
    <2>2. OperationSetsSerialized'
      BY <1>0, <1>7, Exclusion
      DEF CtlGet, Finish, Goto, file, local, TypeOK,
          OperationSetsSerialized, Critical
    <2> QED
      BY <1>0, <2>1, <2>2
  <1>8. ASSUME NEW t \in Thread, CtlSetVal(t)
        PROVE  SerialInv'
    <2>1. LockHeld'
      BY <1>0, <1>8, ThreadAssumption
      DEF CtlSetVal, CtlSet, Finish, Goto, file, local, TypeOK, LockHeld, Critical,
          OneThreadPerProcess
    <2>2. OperationSetsSerialized'
      BY <1>0, <1>8, Exclusion
      DEF CtlSetVal, CtlSet, Finish, Goto, file, local, TypeOK,
          OperationSetsSerialized, Critical
    <2> QED
      BY <1>0, <2>1, <2>2
  <1>9. ASSUME NEW t \in Thread, CtlSetAll(t)
        PROVE  SerialInv'
    <2>1. LockHeld'
      BY <1>0, <1>9, ThreadAssumption
      DEF CtlSetAll, CtlSet, Finish, Goto, file, local, TypeOK, LockHeld, Critical,
          OneThreadPerProcess
    <2>2. OperationSetsSerialized'
      BY <1>0, <1>9, Exclusion
      DEF CtlSetAll, CtlSet, Finish, Goto, file, local, TypeOK,
          OperationSetsSerialized, Critical
    <2> QED
      BY <1>0, <2>1, <2>2
  <1>22. ASSUME NEW t \in Thread, Store(t)
        PROVE  SerialInv'
    <2>1. LockHeld'
      BY <1>0, <1>22, ThreadAssumption
      DEF Store, Goto, file, local, TypeOK, LockHeld, Critical,
          OneThreadPerProcess
    <2>2. OperationSetsSerialized'
      <3>1. \A u \in Thread : pc[u] = "scan" => u = t
        BY <1>0, <1>22, Exclusion DEF Store, Critical
      <3>2. pc[t] = "write" /\ (pc' = pc \/ pc' = [pc EXCEPT ![t] = "bump"])
        BY <1>22 DEF Store, Goto
      <3> QED
        BY <1>0, <3>1, <3>2 DEF TypeOK, OperationSetsSerialized
    <2> QED
      BY <1>0, <2>1, <2>2
  <1>10. ASSUME NEW t \in Thread, CtlRmid(t)
        PROVE  SerialInv'
    <2>1. LockHeld'
      BY <1>0, <1>10, ThreadAssumption
      DEF CtlRmid, Goto, file, local, TypeOK, LockHeld, Critical,
          OneThreadPerProcess
    <2>2. OperationSetsSerialized'
      BY <1>0, <1>10, Exclusion
      DEF CtlRmid, Goto, file, local, TypeOK,
          OperationSetsSerialized, Critical
    <2> QED
      BY <1>0, <2>1, <2>2
  <1>11. ASSUME NEW t \in Thread, Bump(t)
        PROVE  SerialInv'
    <2>1. LockHeld'
      BY <1>0, <1>11, ThreadAssumption
      DEF Bump, Goto, file, local, TypeOK, LockHeld, Critical,
          OneThreadPerProcess
    <2>2. OperationSetsSerialized'
      BY <1>0, <1>11, Exclusion
      DEF Bump, Goto, file, local, TypeOK,
          OperationSetsSerialized, Critical
    <2> QED
      BY <1>0, <2>1, <2>2
  <1>12. ASSUME NEW t \in Thread, FutexWake(t)
        PROVE  SerialInv'
    <2>1. LockHeld'
      BY <1>0, <1>12, ThreadAssumption
      DEF FutexWake, file, local, TypeOK, LockHeld, Critical,
          OneThreadPerProcess
    <2>2. OperationSetsSerialized'
      BY <1>0, <1>12, Exclusion
      DEF FutexWake, file, local, TypeOK,
          OperationSetsSerialized, Critical
    <2> QED
      BY <1>0, <2>1, <2>2
  <1>13. ASSUME NEW t \in Thread, Unlock(t)
        PROVE  SerialInv'
    <2>1. LockHeld'
      BY <1>0, <1>13, ThreadAssumption
      DEF Unlock, Release, Goto, file, local, TypeOK, LockHeld, Critical,
          OneThreadPerProcess
    <2>2. OperationSetsSerialized'
      BY <1>0, <1>13, Exclusion
      DEF Unlock, Release, Goto, file, local, TypeOK,
          OperationSetsSerialized, Critical
    <2> QED
      BY <1>0, <2>1, <2>2
  <1>14. ASSUME NEW t \in Thread, Close(t)
        PROVE  SerialInv'
    <2>1. LockHeld'
      BY <1>0, <1>14, ThreadAssumption
      DEF Close, Release, Goto, file, local, TypeOK, LockHeld, Critical,
          OneThreadPerProcess
    <2>2. OperationSetsSerialized'
      BY <1>0, <1>14, Exclusion
      DEF Close, Release, Goto, file, local, TypeOK,
          OperationSetsSerialized, Critical
    <2> QED
      BY <1>0, <2>1, <2>2
  <1>15. ASSUME NEW t \in Thread, UnlockWait(t)
        PROVE  SerialInv'
    <2>1. LockHeld'
      BY <1>0, <1>15, ThreadAssumption
      DEF UnlockWait, Release, Goto, file, local, TypeOK, LockHeld, Critical,
          OneThreadPerProcess
    <2>2. OperationSetsSerialized'
      BY <1>0, <1>15, Exclusion
      DEF UnlockWait, Release, Goto, file, local, TypeOK,
          OperationSetsSerialized, Critical
    <2> QED
      BY <1>0, <2>1, <2>2
  <1>16. ASSUME NEW t \in Thread, FutexWait(t)
        PROVE  SerialInv'
    <2>1. LockHeld'
      BY <1>0, <1>16, ThreadAssumption
      DEF FutexWait, Goto, file, local, TypeOK, LockHeld, Critical,
          OneThreadPerProcess
    <2>2. OperationSetsSerialized'
      BY <1>0, <1>16, Exclusion
      DEF FutexWait, Goto, file, local, TypeOK,
          OperationSetsSerialized, Critical
    <2> QED
      BY <1>0, <2>1, <2>2
  <1>17. ASSUME NEW t \in Thread, Relock(t)
        PROVE  SerialInv'
    <2>0. \A u \in Thread : pc[u] \in Critical => u = t
      BY <1>17, ThreadAssumption
      DEF Relock, Acquire, LockHeld, OneThreadPerProcess
    <2>3. /\ \A u \in Thread : u # t => pc'[u] = pc[u]
          /\ lockOwner' = ProcOf[t]
      BY <1>0, <1>17 DEF Relock, Acquire, Goto, Finish, TypeOK
    <2>1. LockHeld'
      BY <2>0, <2>3 DEF LockHeld
    <2>2. OperationSetsSerialized'
      BY <1>0, <1>17, Exclusion
      DEF Relock, Acquire, Goto, file, local, TypeOK,
          OperationSetsSerialized, Critical
    <2> QED
      BY <1>0, <2>1, <2>2
  <1>18. ASSUME NEW t \in Thread, UnlockRetry(t)
        PROVE  SerialInv'
    <2>1. LockHeld'
      BY <1>0, <1>18, ThreadAssumption
      DEF UnlockRetry, Release, Goto, file, local, TypeOK, LockHeld, Critical,
          OneThreadPerProcess
    <2>2. OperationSetsSerialized'
      BY <1>0, <1>18, Exclusion
      DEF UnlockRetry, Release, Goto, file, local, TypeOK,
          OperationSetsSerialized, Critical
    <2> QED
      BY <1>0, <2>1, <2>2
  <1>19. ASSUME NEW t \in Thread, Timeout(t)
        PROVE  SerialInv'
    <2>1. LockHeld'
      BY <1>0, <1>19, ThreadAssumption
      DEF Timeout, Goto, file, local, TypeOK, LockHeld, Critical,
          OneThreadPerProcess
    <2>2. OperationSetsSerialized'
      BY <1>0, <1>19, Exclusion
      DEF Timeout, Goto, file, local, TypeOK,
          OperationSetsSerialized, Critical
    <2> QED
      BY <1>0, <2>1, <2>2
  <1>20. ASSUME NEW t \in Thread, Interrupt(t)
        PROVE  SerialInv'
    <2>1. LockHeld'
      BY <1>0, <1>20, ThreadAssumption
      DEF Interrupt, Goto, file, local, TypeOK, LockHeld, Critical,
          OneThreadPerProcess
    <2>2. OperationSetsSerialized'
      BY <1>0, <1>20, Exclusion
      DEF Interrupt, Goto, file, local, TypeOK,
          OperationSetsSerialized, Critical
    <2> QED
      BY <1>0, <2>1, <2>2
  <1>21. ASSUME NEW p \in Process, Crash(p)
         PROVE  SerialInv'
    BY <1>0, <1>21
    DEF Crash, file, local, TypeOK, LockHeld, OperationSetsSerialized, Critical
  <1> QED
    BY <1>st, <1>1, <1>2, <1>3, <1>4, <1>5, <1>6, <1>7, <1>8, <1>9, <1>10, <1>11, <1>12, <1>13, <1>14, <1>15, <1>16, <1>17, <1>18, <1>19, <1>20, <1>21, <1>22 DEF Next, Step

\* While every process is single-threaded, the fcntl lock serialises
\* operation sets: also when processes die holding it.
THEOREM Serialization ==
  OneThreadPerProcess => (Spec => []OperationSetsSerialized)
  <1> SUFFICES ASSUME OneThreadPerProcess
               PROVE  Spec => []OperationSetsSerialized
    OBVIOUS
  <1>1. Init => SerialInv
    BY TypeInit DEF Init, SerialInv, LockHeld, OperationSetsSerialized, Critical
  <1>2. SerialInv /\ [Next]_vars => SerialInv'
    BY SerialStep
  <1> QED
    BY <1>1, <1>2, PTL DEF Spec, SerialInv

-----------------------------------------------------------------------------
(* No lost wake-up.  The strengthening says that a waiter's expected value  *)
(* is never ahead of the sequence, so that a bump, once made, can never be  *)
(* undone by a later one.                                                   *)

Waiter(t) == pc[t] \in {"unlockwait", "prewait", "asleep"}

WakeInv == /\ SerialInv
           /\ NoLostWakeup
           /\ \A t \in Thread : Waiter(t) => expected[t] <= sequence

LEMMA WakeStep ==
  ASSUME OneThreadPerProcess, MaxCrashes = 0, WakeInv, [Next]_vars
  PROVE  WakeInv'
  <1> USE DEF WakeInv
  <1>0. SerialInv' /\ TypeOK /\ LockHeld
    BY SerialStep DEF SerialInv, TypeInv
  <1>st. CASE UNCHANGED vars
    BY <1>0, <1>st DEF vars, file, local, NoLostWakeup, Waiter
  <1>1. ASSUME NEW t \in Thread, NEW c \in Calls, StartCall(t, c)
        PROVE  WakeInv'
    BY <1>0, <1>1, SMTT(30) DEF StartCall, Goto, file, TypeOK, NoLostWakeup, Waiter
  <1>2. ASSUME NEW t \in Thread, Lock(t)
        PROVE  WakeInv'
    <2>1. NoLostWakeup'
      <3>1. /\ pc' = [pc EXCEPT ![t] = pc'[t]] /\ pc[t] = "lock"
            /\ pc'[t] \in {"ctl", "unlock", "scan"}
            /\ snap' = [snap EXCEPT ![t] = snap'[t]]
            /\ UNCHANGED <<values, removed, sequence, expected>>
        BY <1>0, <1>2 DEF Lock, Goto, Finish, file, TypeOK
      <3>2. \A u \in Thread \ {t} : pc'[u] = pc[u] /\ snap'[u] = snap[u]
        BY <1>0, <3>1 DEF TypeOK
      <3> QED
        BY <3>1, <3>2 DEF NoLostWakeup
    <2>2. \A u \in Thread : Waiter(u)' => expected'[u] <= sequence'
      BY <1>0, <1>2 DEF Lock, Acquire, Goto, Finish, file, local, TypeOK, Waiter
    <2> QED
      BY <1>0, <2>1, <2>2
  <1>3. ASSUME NEW t \in Thread, ScanApply(t)
        PROVE  WakeInv'
    <2>1. NoLostWakeup'
      BY <1>0, <1>3
      DEF ScanApply, Scanning, file, local, TypeOK, NoLostWakeup, Waiter
    <2>2. \A u \in Thread : Waiter(u)' => expected'[u] <= sequence'
      BY <1>0, <1>3 DEF ScanApply, Scanning, file, local, TypeOK, Waiter
    <2> QED
      BY <1>0, <2>1, <2>2
  <1>4. ASSUME NEW t \in Thread, ScanFail(t)
        PROVE  WakeInv'
    <2>1. NoLostWakeup'
      BY <1>0, <1>4
      DEF ScanFail, Scanning, Finish, Goto, file, local, TypeOK, NoLostWakeup, Waiter
    <2>2. \A u \in Thread : Waiter(u)' => expected'[u] <= sequence'
      BY <1>0, <1>4 DEF ScanFail, Scanning, Finish, Goto, file, local, TypeOK, Waiter
    <2> QED
      BY <1>0, <2>1, <2>2
  <1>5. ASSUME NEW t \in Thread, ScanWait(t)
        PROVE  WakeInv'
    <2>0. values = snap[t] /\ removed = 0
      BY <1>5 DEF ScanWait, Scanning, SerialInv, OperationSetsSerialized
    <2>1. NoLostWakeup'
      BY <1>0, <1>5, <2>0
      DEF ScanWait, Scanning, Goto, TypeOK, NoLostWakeup
    <2>2. \A u \in Thread : Waiter(u)' => expected'[u] <= sequence'
      BY <1>0, <1>5 DEF ScanWait, Scanning, Goto, file, local, TypeOK, Waiter
    <2> QED
      BY <1>0, <2>1, <2>2
  <1>6. ASSUME NEW t \in Thread, Commit(t)
        PROVE  WakeInv'
    <2>1. NoLostWakeup'
      BY <1>0, <1>6
      DEF Commit, Goto, file, local, TypeOK, NoLostWakeup, Waiter
    <2>2. \A u \in Thread : Waiter(u)' => expected'[u] <= sequence'
      BY <1>0, <1>6 DEF Commit, Goto, file, local, TypeOK, Waiter
    <2> QED
      BY <1>0, <2>1, <2>2
  <1>7. ASSUME NEW t \in Thread, CtlGet(t)
        PROVE  WakeInv'
    <2>1. NoLostWakeup'
      BY <1>0, <1>7
      DEF CtlGet, Finish, Goto, file, local, TypeOK, NoLostWakeup, Waiter
    <2>2. \A u \in Thread : Waiter(u)' => expected'[u] <= sequence'
      BY <1>0, <1>7 DEF CtlGet, Finish, Goto, file, local, TypeOK, Waiter
    <2> QED
      BY <1>0, <2>1, <2>2
  <1>8. ASSUME NEW t \in Thread, CtlSetVal(t)
        PROVE  WakeInv'
    <2>0. /\ pc[t] = "ctl" /\ pc'[t] \in {"write", "unlock"}
          /\ \A u \in Thread : u # t => pc'[u] = pc[u] /\ snap'[u] = snap[u]
          /\ UNCHANGED <<values, removed, sequence, expected>>
      BY <1>0, <1>8 DEF CtlSetVal, CtlSet, Finish, Goto, file, TypeOK
    <2>1. NoLostWakeup'
      BY <2>0 DEF NoLostWakeup
    <2>2. \A u \in Thread : Waiter(u)' => expected'[u] <= sequence'
      BY <1>0, <1>8 DEF CtlSetVal, CtlSet, Finish, Goto, file, local, TypeOK, Waiter
    <2> QED
      BY <1>0, <2>1, <2>2
  <1>9. ASSUME NEW t \in Thread, CtlSetAll(t)
        PROVE  WakeInv'
    <2>0. /\ pc[t] = "ctl" /\ pc'[t] \in {"write", "unlock"}
          /\ \A u \in Thread : u # t => pc'[u] = pc[u] /\ snap'[u] = snap[u]
          /\ UNCHANGED <<values, removed, sequence, expected>>
      BY <1>0, <1>9 DEF CtlSetAll, CtlSet, Finish, Goto, file, TypeOK
    <2>1. NoLostWakeup'
      BY <2>0 DEF NoLostWakeup
    <2>2. \A u \in Thread : Waiter(u)' => expected'[u] <= sequence'
      BY <1>0, <1>9 DEF CtlSetAll, CtlSet, Finish, Goto, file, local, TypeOK, Waiter
    <2> QED
      BY <1>0, <2>1, <2>2
  <1>22. ASSUME NEW t \in Thread, Store(t)
        PROVE  WakeInv'
    <2>1. /\ pc[t] = "write" /\ pc'[t] \in {"write", "bump"}
          /\ \A u \in Thread : u # t => pc'[u] = pc[u]
          /\ UNCHANGED <<removed, sequence, snap, expected>>
      BY <1>0, <1>22 DEF Store, Goto, TypeOK
    <2>2. NoLostWakeup'
      BY <2>1 DEF NoLostWakeup
    <2>3. \A u \in Thread : Waiter(u)' => expected'[u] <= sequence'
      BY <2>1 DEF Waiter
    <2> QED
      BY <1>0, <2>2, <2>3
  <1>10. ASSUME NEW t \in Thread, CtlRmid(t)
        PROVE  WakeInv'
    <2>1. NoLostWakeup'
      BY <1>0, <1>10
      DEF CtlRmid, Goto, file, local, TypeOK, NoLostWakeup, Waiter
    <2>2. \A u \in Thread : Waiter(u)' => expected'[u] <= sequence'
      BY <1>0, <1>10 DEF CtlRmid, Goto, file, local, TypeOK, Waiter
    <2> QED
      BY <1>0, <2>1, <2>2
  <1>11. ASSUME NEW t \in Thread, Bump(t)
        PROVE  WakeInv'
    <2>1. NoLostWakeup'
      BY <1>0, <1>11
      DEF Bump, Goto, file, local, TypeOK, NoLostWakeup, Waiter
    <2>2. \A u \in Thread : Waiter(u)' => expected'[u] <= sequence'
      BY <1>0, <1>11 DEF Bump, Goto, file, local, TypeOK, Waiter
    <2> QED
      BY <1>0, <2>1, <2>2
  <1>12. ASSUME NEW t \in Thread, FutexWake(t)
        PROVE  WakeInv'
    <2>1. NoLostWakeup'
      BY <1>0, <1>12
      DEF FutexWake, file, local, TypeOK, NoLostWakeup, Waiter
    <2>2. \A u \in Thread : Waiter(u)' => expected'[u] <= sequence'
      BY <1>0, <1>12 DEF FutexWake, file, local, TypeOK, Waiter
    <2> QED
      BY <1>0, <2>1, <2>2
  <1>13. ASSUME NEW t \in Thread, Unlock(t)
        PROVE  WakeInv'
    <2>1. NoLostWakeup'
      BY <1>0, <1>13
      DEF Unlock, Release, Goto, file, local, TypeOK, NoLostWakeup, Waiter
    <2>2. \A u \in Thread : Waiter(u)' => expected'[u] <= sequence'
      BY <1>0, <1>13 DEF Unlock, Release, Goto, file, local, TypeOK, Waiter
    <2> QED
      BY <1>0, <2>1, <2>2
  <1>14. ASSUME NEW t \in Thread, Close(t)
        PROVE  WakeInv'
    <2>1. NoLostWakeup'
      BY <1>0, <1>14
      DEF Close, Release, Goto, file, local, TypeOK, NoLostWakeup, Waiter
    <2>2. \A u \in Thread : Waiter(u)' => expected'[u] <= sequence'
      BY <1>0, <1>14 DEF Close, Release, Goto, file, local, TypeOK, Waiter
    <2> QED
      BY <1>0, <2>1, <2>2
  <1>15. ASSUME NEW t \in Thread, UnlockWait(t)
        PROVE  WakeInv'
    <2>1. NoLostWakeup'
      BY <1>0, <1>15
      DEF UnlockWait, Release, Goto, file, local, TypeOK, NoLostWakeup, Waiter
    <2>2. \A u \in Thread : Waiter(u)' => expected'[u] <= sequence'
      BY <1>0, <1>15 DEF UnlockWait, Release, Goto, file, local, TypeOK, Waiter
    <2> QED
      BY <1>0, <2>1, <2>2
  <1>16. ASSUME NEW t \in Thread, FutexWait(t)
        PROVE  WakeInv'
    <2>1. NoLostWakeup'
      BY <1>0, <1>16
      DEF FutexWait, Goto, file, local, TypeOK, NoLostWakeup, Waiter
    <2>2. \A u \in Thread : Waiter(u)' => expected'[u] <= sequence'
      BY <1>0, <1>16 DEF FutexWait, Goto, file, local, TypeOK, Waiter
    <2> QED
      BY <1>0, <2>1, <2>2
  <1>17. ASSUME NEW t \in Thread, Relock(t)
        PROVE  WakeInv'
    <2>1. NoLostWakeup'
      BY <1>0, <1>17
      DEF Relock, Acquire, Goto, file, local, TypeOK, NoLostWakeup, Waiter
    <2>2. \A u \in Thread : Waiter(u)' => expected'[u] <= sequence'
      BY <1>0, <1>17 DEF Relock, Acquire, Goto, file, local, TypeOK, Waiter
    <2> QED
      BY <1>0, <2>1, <2>2
  <1>18. ASSUME NEW t \in Thread, UnlockRetry(t)
        PROVE  WakeInv'
    <2>0. /\ pc[t] = "unlockretry" /\ pc'[t] \in {"lock", "close"}
          /\ \A u \in Thread : u # t => pc'[u] = pc[u]
          /\ UNCHANGED <<values, removed, sequence, expected, snap>>
      BY <1>0, <1>18 DEF UnlockRetry, Goto, file, TypeOK
    <2>1. NoLostWakeup'
      BY <2>0 DEF NoLostWakeup
    <2>2. \A u \in Thread : Waiter(u)' => expected'[u] <= sequence'
      BY <1>0, <1>18 DEF UnlockRetry, Release, Goto, file, local, TypeOK, Waiter
    <2> QED
      BY <1>0, <2>1, <2>2
  <1>19. ASSUME NEW t \in Thread, Timeout(t)
        PROVE  WakeInv'
    <2>1. NoLostWakeup'
      BY <1>0, <1>19
      DEF Timeout, Goto, file, local, TypeOK, NoLostWakeup, Waiter
    <2>2. \A u \in Thread : Waiter(u)' => expected'[u] <= sequence'
      BY <1>0, <1>19 DEF Timeout, Goto, file, local, TypeOK, Waiter
    <2> QED
      BY <1>0, <2>1, <2>2
  <1>20. ASSUME NEW t \in Thread, Interrupt(t)
        PROVE  WakeInv'
    <2>1. NoLostWakeup'
      BY <1>0, <1>20
      DEF Interrupt, Goto, file, local, TypeOK, NoLostWakeup, Waiter
    <2>2. \A u \in Thread : Waiter(u)' => expected'[u] <= sequence'
      BY <1>0, <1>20 DEF Interrupt, Goto, file, local, TypeOK, Waiter
    <2> QED
      BY <1>0, <2>1, <2>2
  <1>21. ASSUME NEW p \in Process, Crash(p)
         PROVE  WakeInv'
    BY <1>21, <1>0 DEF Crash, TypeOK
  <1> QED
    BY <1>st, <1>1, <1>2, <1>3, <1>4, <1>5, <1>6, <1>7, <1>8, <1>9, <1>10, <1>11, <1>12, <1>13, <1>14, <1>15, <1>16, <1>17, <1>18, <1>19, <1>20, <1>21, <1>22 DEF Next, Step

\* As long as no process dies, a semop that waits is never left asleep on a
\* state that has changed: a change of the values or the removal of the set
\* reaches every sleeper through the bump and the wake that follow it.
THEOREM NoWakeupIsLost ==
  OneThreadPerProcess /\ MaxCrashes = 0 => (Spec => []NoLostWakeup)
  <1> SUFFICES ASSUME OneThreadPerProcess, MaxCrashes = 0
               PROVE  Spec => []NoLostWakeup
    OBVIOUS
  <1>1. Init => WakeInv
    <2>1. Init => SerialInv
      BY TypeInit
      DEF Init, SerialInv, LockHeld, OperationSetsSerialized, Critical
    <2> QED
      BY <2>1 DEF Init, NoLostWakeup, Waiter, WakeInv
  <1>2. WakeInv /\ [Next]_vars => WakeInv'
    BY WakeStep
  <1> QED
    BY <1>1, <1>2, PTL DEF Spec, WakeInv

-----------------------------------------------------------------------------
(* The lock and the dead.                                                   *)

\* A step of a thread leaves the others inside or outside of their critical
\* sections; and it keeps the lock where it is without leaving its own, or
\* takes the lock and enters, or gives up whatever lock its process has.
LEMMA LockMoves ==
  ASSUME TypeOK, NEW t \in Thread,
         \/ \E c \in Calls : StartCall(t, c)
         \/ Step(t) \/ Timeout(t) \/ Interrupt(t)
  PROVE  /\ \A u \in Thread : u # t => (pc'[u] \in Critical <=> pc[u] \in Critical)
         /\ \/ lockOwner' = lockOwner /\ (pc[t] \in Critical => pc'[t] \in Critical)
            \/ lockOwner' = ProcOf[t] /\ pc'[t] \in Critical
            \/ Release(t)
  <1> DEFINE Goal ==
        /\ \A u \in Thread : u # t => (pc'[u] \in Critical <=> pc[u] \in Critical)
        /\ \/ lockOwner' = lockOwner /\ (pc[t] \in Critical => pc'[t] \in Critical)
           \/ lockOwner' = ProcOf[t] /\ pc'[t] \in Critical
           \/ Release(t)
  <1>a. pc \in [Thread -> PC]
    BY DEF TypeOK
  <1>1. ASSUME NEW c \in Calls, StartCall(t, c) PROVE Goal
    BY <1>1, <1>a DEF StartCall, Goto, Critical
  <1>2. Lock(t) => Goal
    BY <1>a DEF Lock, Acquire, Goto, Finish, Critical
  <1>3. ScanApply(t) \/ ScanFail(t) \/ ScanWait(t) \/ Commit(t) \/ Store(t) => Goal
    BY <1>a DEF ScanApply, ScanFail, ScanWait, Commit, Store, Goto, Finish, Critical
  <1>4. CtlGet(t) \/ CtlSetVal(t) \/ CtlSetAll(t) \/ CtlRmid(t) => Goal
    BY <1>a DEF CtlGet, CtlSetVal, CtlSetAll, CtlSet, CtlRmid, Goto, Finish, Critical
  <1>5. Bump(t) => Goal
    BY <1>a DEF Bump, Goto, Critical
  <1>6. FutexWake(t) => Goal
    BY <1>a DEF FutexWake, Critical
  <1>7. Unlock(t) \/ Close(t) \/ UnlockWait(t) \/ UnlockRetry(t) => Goal
    BY <1>a DEF Unlock, Close, UnlockWait, UnlockRetry, Goto, Critical
  <1>8. FutexWait(t) \/ Timeout(t) \/ Interrupt(t) => Goal
    BY <1>a DEF FutexWait, Timeout, Interrupt, Goto, Critical
  <1>9. Relock(t) => Goal
    BY <1>a DEF Relock, Acquire, Goto, Critical
  <1> HIDE DEF Goal
  <1>10. Goal
    BY <1>1, <1>2, <1>3, <1>4, <1>5, <1>6, <1>7, <1>8, <1>9 DEF Step
  <1> QED
    BY <1>10 DEF Goal

LEMMA OrphanStep ==
  ASSUME TypeOK, LockNeverOrphaned, [Next]_vars
  PROVE  LockNeverOrphaned'
  <1>1. CASE UNCHANGED vars
    BY <1>1 DEF vars, LockNeverOrphaned
  <1>2. ASSUME NEW p \in Process, Crash(p) PROVE LockNeverOrphaned'
    <2>1. /\ lockOwner' = IF lockOwner = p THEN NoProcess ELSE lockOwner
          /\ \A t \in Thread : ProcOf[t] # p => pc'[t] = pc[t]
      BY <1>2 DEF Crash
    <2> QED
      BY <2>1 DEF LockNeverOrphaned
  <1>3. ASSUME NEW t \in Thread,
               \/ \E c \in Calls : StartCall(t, c)
               \/ Step(t) \/ Timeout(t) \/ Interrupt(t)
        PROVE  LockNeverOrphaned'
    <2>1. /\ \A u \in Thread : u # t => (pc'[u] \in Critical <=> pc[u] \in Critical)
          /\ \/ lockOwner' = lockOwner /\ (pc[t] \in Critical => pc'[t] \in Critical)
             \/ lockOwner' = ProcOf[t] /\ pc'[t] \in Critical
             \/ Release(t)
      BY <1>3, LockMoves
    <2> QED
      BY <2>1 DEF LockNeverOrphaned, Release
  <1> QED
    BY <1>1, <1>2, <1>3 DEF Next

\* Whoever dies, and wherever it dies, the fcntl lock is never left with a
\* process none of whose threads is on its way to F_UNLCK.
THEOREM LockIsNeverOrphaned == Spec => []LockNeverOrphaned
  <1>1. Init => TypeInv /\ LockNeverOrphaned
    BY TypeInit DEF Init, LockNeverOrphaned
  <1>2. TypeInv /\ LockNeverOrphaned /\ [Next]_vars => (TypeInv /\ LockNeverOrphaned)'
    BY TypeStep, OrphanStep DEF TypeInv
  <1> QED
    BY <1>1, <1>2, PTL DEF Spec

-----------------------------------------------------------------------------
(* The waiting counts.                                                      *)

ForZero(n) == {t \in Thread : Counted(t) /\ Current(t).num = n /\ Current(t).op = 0}
ForMore(n) == {t \in Thread : Counted(t) /\ Current(t).num = n /\ Current(t).op < 0}

\* A thread waits for zero or for more, never with an operation that adds.
WaitsInvariant ==
  /\ \A n \in Sem : waitZero[n] = Cardinality(ForZero(n))
                 /\ waitNegative[n] = Cardinality(ForMore(n))
  /\ \A t \in Thread : Counted(t) => Current(t).op <= 0

\* Only the decision to wait and the return from it move a thread in and out
\* of the counts, or change what it is counted for.
LEMMA WaitersMove ==
  ASSUME TypeInv, NEW t \in Thread,
         \/ \E c \in Calls : StartCall(t, c)
         \/ Step(t) \/ Timeout(t) \/ Interrupt(t),
         ~ScanWait(t), ~Relock(t)
  PROVE  /\ UNCHANGED <<waitZero, waitNegative>>
         /\ \A u \in Thread : /\ Counted(u)' <=> Counted(u)
                              /\ Counted(u) => Current(u)' = Current(u)
  <1> DEFINE Goal ==
        /\ UNCHANGED <<waitZero, waitNegative>>
        /\ \A u \in Thread : /\ Counted(u)' <=> Counted(u)
                             /\ Counted(u) => Current(u)' = Current(u)
  <1>a. /\ pc \in [Thread -> PC]
        /\ DOMAIN i = Thread
        /\ DOMAIN call = Thread
    BY DEF TypeOK, TypeInv
  <1>1. ASSUME NEW c \in Calls, StartCall(t, c) PROVE Goal
    BY <1>1, <1>a DEF StartCall, Goto, Counted, Current, file
  <1>2. Lock(t) => Goal
    BY <1>a DEF Lock, Goto, Finish, Counted, Current, file
  <1>3. ScanApply(t) \/ ScanFail(t) \/ Commit(t) \/ Store(t) => Goal
    BY <1>a DEF Scanning, ScanApply, ScanFail, Commit, Store, Goto, Finish, Counted, Current,
                file
  <1>4. CtlGet(t) \/ CtlSetVal(t) \/ CtlSetAll(t) \/ CtlRmid(t) => Goal
    BY <1>a DEF CtlGet, CtlSetVal, CtlSetAll, CtlSet, CtlRmid, Goto, Finish, Counted,
                Current, file
  <1>5. Bump(t) => Goal
    BY <1>a DEF Bump, Goto, Counted, Current, local
  <1>6. FutexWake(t) => Goal
    BY <1>a DEF FutexWake, Counted, Current, file
  <1>7. Unlock(t) \/ Close(t) \/ UnlockWait(t) \/ UnlockRetry(t) => Goal
    BY <1>a DEF Unlock, Close, UnlockWait, UnlockRetry, Goto, Counted, Current, file,
                local
  <1>8. FutexWait(t) \/ Timeout(t) \/ Interrupt(t) => Goal
    BY <1>a DEF FutexWait, Timeout, Interrupt, Goto, Counted, Current, file
  <1> HIDE DEF Goal
  <1>9. Goal
    BY <1>1, <1>2, <1>3, <1>4, <1>5, <1>6, <1>7, <1>8 DEF Step
  <1> QED
    BY <1>9 DEF Goal

LEMMA WaitsStep ==
  ASSUME IsFiniteSet(Thread), MaxCrashes = 0, TypeInv, WaitsInvariant, [Next]_vars
  PROVE  WaitsInvariant'
  <1>a. \A n : IsFiniteSet(ForZero(n)) /\ IsFiniteSet(ForMore(n))
    BY FS_Subset DEF ForZero, ForMore
  <1>b. ASSUME UNCHANGED <<waitZero, waitNegative>>,
               \A u \in Thread : /\ Counted(u)' <=> Counted(u)
                                 /\ Counted(u) => Current(u)' = Current(u)
        PROVE  WaitsInvariant'
    <2>1. ASSUME NEW n \in Sem
          PROVE  ForZero(n)' = ForZero(n) /\ ForMore(n)' = ForMore(n)
      BY <1>b DEF ForZero, ForMore
    <2>2. \A t \in Thread : Counted(t)' => (Current(t).op <= 0)'
      BY <1>b DEF WaitsInvariant
    <2> QED
      BY <1>b, <2>1, <2>2 DEF WaitsInvariant
  <1>1. CASE UNCHANGED vars
    BY <1>1, <1>b DEF vars, file, local, Counted, Current
  <1>2. ASSUME NEW p \in Process, Crash(p) PROVE FALSE
    BY <1>2 DEF Crash, TypeInv, TypeOK
  <1>3. ASSUME NEW t \in Thread, ScanWait(t) PROVE WaitsInvariant'
    <2> DEFINE o == Current(t)
    <2>1. /\ o.num \in Sem /\ o.op \in Int /\ o.op <= 0
          /\ i[t] \in DOMAIN call[t].ops
      <3>1. call[t] \in Calls /\ call[t].kind = "op" /\ i[t] <= Len(call[t].ops)
        BY <1>3 DEF ScanWait, Scanning, CallMatchesPlace, TypeInv
      <3> QED
        BY <3>1, <1>3, CurrentShape, SizeAssumption
        DEF ScanWait, Invalid, Blocks, Sem, TypeInv
    <2>2. /\ pc' = [pc EXCEPT ![t] = "unlockwait"] /\ pc[t] = "scan"
          /\ UNCHANGED <<call, i>>
          /\ IF o.op = 0
               THEN /\ waitZero' = [waitZero EXCEPT ![o.num] = @ + 1]
                    /\ UNCHANGED waitNegative
               ELSE /\ waitNegative' = [waitNegative EXCEPT ![o.num] = @ + 1]
                    /\ UNCHANGED waitZero
      BY <1>3 DEF ScanWait, Scanning, Goto
    <2>3. /\ \A u \in Thread : Counted(u)' <=> Counted(u) \/ u = t
          /\ ~Counted(t)
          /\ \A u \in Thread : Current(u)' = Current(u)
      BY <2>2 DEF Counted, Current, TypeInv, TypeOK
    <2>4. \A u \in Thread : Counted(u)' => (Current(u).op <= 0)'
      BY <2>1, <2>3 DEF WaitsInvariant
    <2>5. ASSUME NEW n \in Sem
          PROVE  /\ ForZero(n)' = IF o.op = 0 /\ o.num = n THEN ForZero(n) \cup {t}
                                                           ELSE ForZero(n)
                 /\ ForMore(n)' = IF o.op < 0 /\ o.num = n THEN ForMore(n) \cup {t}
                                                           ELSE ForMore(n)
                 /\ t \notin ForZero(n) /\ t \notin ForMore(n)
      BY <2>3 DEF ForZero, ForMore
    <2> HIDE DEF o
    <2>6. ASSUME NEW n \in Sem
          PROVE  waitZero'[n] = Cardinality(ForZero(n)')
      <3>1. Cardinality(ForZero(n) \cup {t}) = Cardinality(ForZero(n)) + 1
        BY <1>a, <2>5, FS_AddElement
      <3>2. waitZero[n] = Cardinality(ForZero(n))
        BY DEF WaitsInvariant
      <3>3. waitZero'[n] = IF o.op = 0 /\ o.num = n THEN waitZero[n] + 1 ELSE waitZero[n]
        BY <2>1, <2>2 DEF TypeInv, TypeOK
      <3>4. CASE o.op = 0 /\ o.num = n
        <4>1. ForZero(n)' = ForZero(n) \cup {t}
          BY <2>5, <3>4
        <4> QED
          BY <3>1, <3>2, <3>3, <3>4, <4>1
      <3>5. CASE ~(o.op = 0 /\ o.num = n)
        <4>1. ForZero(n)' = ForZero(n)
          BY <2>5, <3>5
        <4> QED
          BY <3>2, <3>3, <3>5, <4>1
      <3> QED
        BY <3>4, <3>5
    <2>7. ASSUME NEW n \in Sem
          PROVE  waitNegative'[n] = Cardinality(ForMore(n)')
      <3>1. Cardinality(ForMore(n) \cup {t}) = Cardinality(ForMore(n)) + 1
        BY <1>a, <2>5, FS_AddElement
      <3>2. waitNegative[n] = Cardinality(ForMore(n))
        BY DEF WaitsInvariant
      <3>3. waitNegative'[n] = IF o.op < 0 /\ o.num = n THEN waitNegative[n] + 1 ELSE waitNegative[n]
        BY <2>1, <2>2 DEF TypeInv, TypeOK
      <3>4. CASE o.op < 0 /\ o.num = n
        <4>1. ForMore(n)' = ForMore(n) \cup {t}
          BY <2>5, <3>4
        <4> QED
          BY <3>1, <3>2, <3>3, <3>4, <4>1
      <3>5. CASE ~(o.op < 0 /\ o.num = n)
        <4>1. ForMore(n)' = ForMore(n)
          BY <2>5, <3>5
        <4> QED
          BY <3>2, <3>3, <3>5, <4>1
      <3> QED
        BY <3>4, <3>5
    <2> QED
      BY <2>4, <2>6, <2>7 DEF WaitsInvariant
  <1>4. ASSUME NEW t \in Thread, Relock(t) PROVE WaitsInvariant'
    <2> DEFINE o == Current(t)
    <2>1. Counted(t) /\ pc[t] = "relock"
      BY <1>4 DEF Relock, Counted
    <2>2. o.num \in Sem /\ o.op \in Int /\ o.op <= 0
      <3>1. call[t] \in Calls /\ call[t].kind = "op" /\ i[t] \in DOMAIN call[t].ops
            /\ Current(t).num \in Sem
        BY <2>1 DEF CallMatchesPlace, TypeInv
      <3>2. i[t] <= Len(call[t].ops)
        BY <3>1, CallShape
      <3> QED
        BY <2>1, <3>1, <3>2, CurrentShape DEF TypeInv, WaitsInvariant
    <2>3. /\ pc' = [pc EXCEPT ![t] = "unlockretry"]
          /\ UNCHANGED <<call, i>>
          /\ IF o.op = 0
               THEN /\ waitZero' = [waitZero EXCEPT ![o.num] = @ - 1]
                    /\ UNCHANGED waitNegative
               ELSE /\ waitNegative' = [waitNegative EXCEPT ![o.num] = @ - 1]
                    /\ UNCHANGED waitZero
      BY <1>4 DEF Relock, Goto, local
    <2>4. /\ \A u \in Thread : Counted(u)' <=> Counted(u) /\ u # t
          /\ \A u \in Thread : Current(u)' = Current(u)
      BY <2>3 DEF Counted, Current, TypeInv, TypeOK
    <2>5. \A u \in Thread : Counted(u)' => (Current(u).op <= 0)'
      BY <2>4 DEF WaitsInvariant
    <2>6. ASSUME NEW n \in Sem
          PROVE  /\ ForZero(n)' = IF o.op = 0 /\ o.num = n THEN ForZero(n) \ {t}
                                                           ELSE ForZero(n)
                 /\ ForMore(n)' = IF o.op < 0 /\ o.num = n THEN ForMore(n) \ {t}
                                                           ELSE ForMore(n)
                 /\ o.op = 0 /\ o.num = n => t \in ForZero(n)
                 /\ o.op < 0 /\ o.num = n => t \in ForMore(n)
      BY <2>1, <2>2, <2>4 DEF ForZero, ForMore
    <2> HIDE DEF o
    <2>7. ASSUME NEW n \in Sem
          PROVE  waitZero'[n] = Cardinality(ForZero(n)')
      <3>1. t \in ForZero(n) => Cardinality(ForZero(n) \ {t}) = Cardinality(ForZero(n)) - 1
        BY <1>a, FS_RemoveElement
      <3>2. waitZero[n] = Cardinality(ForZero(n))
        BY DEF WaitsInvariant
      <3>3. waitZero'[n] = IF o.op = 0 /\ o.num = n THEN waitZero[n] - 1 ELSE waitZero[n]
        BY <2>2, <2>3 DEF TypeInv, TypeOK
      <3>4. CASE o.op = 0 /\ o.num = n
        <4>1. ForZero(n)' = ForZero(n) \ {t} /\ t \in ForZero(n)
          BY <2>6, <3>4
        <4> QED
          BY <3>1, <3>2, <3>3, <3>4, <4>1
      <3>5. CASE ~(o.op = 0 /\ o.num = n)
        <4>1. ForZero(n)' = ForZero(n)
          BY <2>6, <3>5
        <4> QED
          BY <3>2, <3>3, <3>5, <4>1
      <3> QED
        BY <3>4, <3>5
    <2>8. ASSUME NEW n \in Sem
          PROVE  waitNegative'[n] = Cardinality(ForMore(n)')
      <3>1. t \in ForMore(n) => Cardinality(ForMore(n) \ {t}) = Cardinality(ForMore(n)) - 1
        BY <1>a, FS_RemoveElement
      <3>2. waitNegative[n] = Cardinality(ForMore(n))
        BY DEF WaitsInvariant
      <3>3. waitNegative'[n] = IF o.op < 0 /\ o.num = n THEN waitNegative[n] - 1 ELSE waitNegative[n]
        BY <2>2, <2>3 DEF TypeInv, TypeOK
      <3>4. CASE o.op < 0 /\ o.num = n
        <4>1. ForMore(n)' = ForMore(n) \ {t} /\ t \in ForMore(n)
          BY <2>6, <3>4
        <4> QED
          BY <3>1, <3>2, <3>3, <3>4, <4>1
      <3>5. CASE ~(o.op < 0 /\ o.num = n)
        <4>1. ForMore(n)' = ForMore(n)
          BY <2>6, <3>5
        <4> QED
          BY <3>2, <3>3, <3>5, <4>1
      <3> QED
        BY <3>4, <3>5
    <2> QED
      BY <2>5, <2>7, <2>8 DEF WaitsInvariant
  <1>5. ASSUME NEW t \in Thread, ~ScanWait(t), ~Relock(t),
               \/ \E c \in Calls : StartCall(t, c)
               \/ Step(t) \/ Timeout(t) \/ Interrupt(t)
        PROVE  WaitsInvariant'
    BY <1>5, <1>b, WaitersMove
  <1> QED
    BY <1>1, <1>2, <1>3, <1>4, <1>5 DEF Next

\* GETNCNT and GETZCNT are exact as long as no process dies while it waits:
\* the counts a waiter entered when it decided to wait are the ones it leaves.
\* A count is changed by one step of the model because the lock is held; that
\* is why processes with several threads are left out.
THEOREM WaitCountsAreExact ==
  OneThreadPerProcess /\ IsFiniteSet(Thread) /\ MaxCrashes = 0
    => (Spec => []WaitCountsExact)
  <1> SUFFICES ASSUME OneThreadPerProcess, IsFiniteSet(Thread), MaxCrashes = 0
               PROVE  Spec => []WaitCountsExact
    OBVIOUS
  <1>1. Init => WaitsInvariant
    <2> SUFFICES ASSUME Init PROVE WaitsInvariant
      OBVIOUS
    <2>1. \A t \in Thread : ~Counted(t)
      BY DEF Init, Counted
    <2>2. \A n \in Sem : ForZero(n) = {} /\ ForMore(n) = {}
      BY <2>1 DEF ForZero, ForMore
    <2> QED
      BY <2>1, <2>2, FS_EmptySet DEF Init, WaitsInvariant
  <1>2. TypeInv /\ WaitsInvariant /\ [Next]_vars => (TypeInv /\ WaitsInvariant)'
    BY TypeStep, WaitsStep
  <1>3. WaitsInvariant => WaitCountsExact
    BY DEF WaitsInvariant, WaitCountsExact, ForZero, ForMore
  <1> QED
    BY <1>1, <1>2, <1>3, TypeInit, PTL DEF Spec

-----------------------------------------------------------------------------
(* The refinement of AbstractSem.  What a thread has examined so far is     *)
(* what AbstractSem's After and Obstacle say of the shared values: the copy *)
(* is the effect of the operations before the current one, and none of      *)
(* those is an obstacle.                                                    *)

Applied(vals, o) == [vals EXCEPT ![o.num] = @ + o.op]

\* The values after each operation.
LEMMA AfterSteps ==
  ASSUME NEW vals \in [Sem -> Int], NEW ops \in Seq(SemBuf)
  PROVE  /\ Abs!After(vals, ops)[0] = vals
         /\ \A k \in 1 .. Len(ops) :
              Abs!After(vals, ops)[k] = Applied(Abs!After(vals, ops)[k-1], ops[k])
  <1> DEFINE Is(f) == f = [k \in 0 .. Len(ops) |->
                             IF k = 0 THEN vals ELSE Applied(f[k-1], ops[k])]
             after == CHOOSE f : Is(f)
  <1>1. PICK N \in Nat : N = Len(ops)
    OBVIOUS
  <1>2. PICK D : D = [Sem -> Int]
    OBVIOUS
  <1>3. PICK st : st = [k \in 1 .. N |-> [d \in D |-> Applied(d, ops[k])]]
    OBVIOUS
  <1>4. \A k \in 1 .. N : ops[k] \in SemBuf
    BY <1>1
  <1>5. ASSUME NEW k \in 1 .. N, NEW d \in D PROVE Applied(d, ops[k]) \in D
    <2>1. PICK o \in SemBuf : o = ops[k]
      BY <1>4
    <2>2. o.num \in Nat /\ o.op \in Int
      BY DEF SemBuf
    <2>3. Applied(d, o) \in D
      <3>1. CASE o.num \in Sem
        BY <1>2, <2>2, <3>1 DEF Applied
      <3>2. CASE o.num \notin Sem
        BY <1>2, <3>2 DEF Applied
      <3> QED
        BY <3>1, <3>2
    <2> QED
      BY <2>1, <2>3
  <1>6. st \in [1 .. N -> [D -> D]]
    BY <1>3, <1>5
  <1>7. PICK f : Follows(N, D, vals, st, f)
    BY <1>2, <1>6, Recursion
  <1>8. /\ f \in [0 .. N -> D] /\ f[0] = vals
        /\ \A k \in 1 .. N : f[k] = Applied(f[k-1], ops[k])
    <2>1. f \in [0 .. N -> D] /\ f[0] = vals /\ \A k \in 1 .. N : f[k] = st[k][f[k-1]]
      BY <1>7 DEF Follows
    <2>2. \A k \in 1 .. N : k - 1 \in 0 .. N
      OBVIOUS
    <2> QED
      BY <1>3, <2>1, <2>2
  <1>9. \A k \in 0 .. N : f[k] = IF k = 0 THEN vals ELSE Applied(f[k-1], ops[k])
    BY <1>8
  <1>10. Is(f)
    BY <1>1, <1>8, <1>9
  <1>11. Is(after)
    <2> HIDE DEF Is
    <2> QED
      BY <1>10
  <1>12. Abs!After(vals, ops) = after
    BY DEF Abs!After, Applied
  <1> HIDE DEF after
  <1>13. after[0] = vals /\ \A k \in 1 .. N : after[k] = Applied(after[k-1], ops[k])
    BY <1>1, <1>11
  <1> QED
    BY <1>1, <1>12, <1>13

Bad(vals, ops, k) == ~Abs!Valid(ops[k]) \/ ~Abs!CanApply(ops[k], Abs!After(vals, ops)[k-1])

\* What Blocks and Invalid examine is what an obstacle is.
LEMMA BadIsBlocked ==
  ASSUME NEW vals \in [Sem -> Nat], NEW o \in SemBuf
  PROVE  /\ Abs!Valid(o) <=> ~Invalid(o)
         /\ Abs!Valid(o) => (Abs!CanApply(o, vals) <=> ~Blocks(o, vals))
  <1>1. o.num \in Nat /\ o.op \in Int /\ o.undo \in BOOLEAN
    BY DEF SemBuf
  <1>2. o.num \in Sem <=> ~(o.num >= NSems)
    BY <1>1, SizeAssumption DEF Sem
  <1>3. Abs!Valid(o) <=> o.num \in Sem /\ ~o.undo
    BY DEF Abs!Valid, Abs!Sem, Sem
  <1>4. Abs!Valid(o) => vals[o.num] \in Nat
    BY <1>3
  <1>5. Abs!CanApply(o, vals) <=> IF o.op = 0 THEN vals[o.num] = 0 ELSE vals[o.num] + o.op >= 0
    BY DEF Abs!CanApply
  <1>6. Blocks(o, vals) <=> \/ o.op < 0 /\ vals[o.num] < -o.op
                            \/ o.op = 0 /\ vals[o.num] # 0
    BY DEF Blocks
  <1> QED
    BY <1>1, <1>2, <1>3, <1>4, <1>5, <1>6 DEF Invalid

\* The first obstacle, if there is one.
LEMMA ObstacleIs ==
  ASSUME NEW vals, NEW ops \in Seq(SemBuf), NEW k \in 1 .. Len(ops) + 1,
         \A j \in 1 .. k-1 : ~Bad(vals, ops, j)
  PROVE  /\ k <= Len(ops) /\ Bad(vals, ops, k) => Abs!Obstacle(vals, ops) = k
         /\ k = Len(ops) + 1 => Abs!Obstacle(vals, ops) = 0
  <1>1. PICK N \in Nat : N = Len(ops)
    OBVIOUS
  <1>2. Abs!Obstacle(vals, ops) =
          IF \E m \in 1 .. N : Bad(vals, ops, m)
            THEN CHOOSE m \in 1 .. N : Bad(vals, ops, m) /\ \A j \in 1 .. m-1 : ~Bad(vals, ops, j)
            ELSE 0
    BY <1>1 DEF Abs!Obstacle, Bad
  <1>3. CASE k <= N /\ Bad(vals, ops, k)
    <2>1. k \in 1 .. N
      BY <1>1, <1>3
    <2>2. \A m \in 1 .. N : Bad(vals, ops, m) /\ (\A j \in 1 .. m-1 : ~Bad(vals, ops, j)) => m = k
      <3> SUFFICES ASSUME NEW m \in 1 .. N, Bad(vals, ops, m), \A j \in 1 .. m-1 : ~Bad(vals, ops, j)
                   PROVE  m = k
        OBVIOUS
      <3>1. ~(m < k)
        BY <1>1
      <3>2. ~(k < m)
        BY <1>1, <1>3
      <3> QED
        BY <1>1, <3>1, <3>2
    <2> QED
      BY <1>1, <1>2, <1>3, <2>1, <2>2
  <1>4. CASE k = N + 1
    <2>1. ~\E m \in 1 .. N : Bad(vals, ops, m)
      BY <1>4
    <2> QED
      BY <1>1, <1>2, <1>4, <2>1
  <1> QED
    BY <1>1, <1>3, <1>4

\* c is what the operations before the k-th leave of s.
Exact(c, s, ops, k) ==
  /\ k \in 1 .. Len(ops) + 1
  /\ c = Abs!After(s, ops)[k-1]
  /\ \A j \in 1 .. k-1 : ~Bad(s, ops, j)

ScanExact == \A t \in Thread : pc[t] = "scan" => Exact(copy[t], snap[t], call[t].ops, i[t])

\* A wait that has ended is of a semop, and timed if its time has run out.
WaitEnded ==
  \A t \in Thread : pc[t] \in {"relock", "unlockretry"} =>
    /\ call[t].kind = "op"
    /\ outcome[t] = "ETIMEDOUT" => call[t].timed

\* c may write on a set with the values s.
MayWrite(c, s, gone) ==
  \/ c.kind = "op" /\ gone = 0 /\ Abs!Possible(s, c.ops)
  \/ c.kind \in {"SETVAL", "SETALL"} /\ c.num \in Sem /\ Abs!InRange(c)

\* In the middle of a write every semaphore has its value of before or the one
\* it is to get, and the latter are the effect of the call.
WriteExact ==
  \A t \in Thread : pc[t] = "write" =>
    /\ call[t] \in Calls
    /\ MayWrite(call[t], snap[t], removed)
    /\ copy[t] = Abs!Effect(snap[t], call[t])
    /\ \A n \in Sem : values[n] = IF <<"value", n>> \in todo[t] THEN snap[t][n]
                                                           ELSE copy[t][n]

RefInv == SerialInv /\ ScanExact /\ WriteExact /\ WaitEnded

LEMMA ExactStart ==
  ASSUME NEW vals \in [Sem -> Nat], NEW ops \in Seq(SemBuf)
  PROVE  Exact(vals, vals, ops, 1)
  <1>1. vals \in [Sem -> Int]
    OBVIOUS
  <1>2. Len(ops) \in Nat
    OBVIOUS
  <1> QED
    BY <1>1, <1>2, AfterSteps DEF Exact

LEMMA ExactMore ==
  ASSUME NEW c \in [Sem -> Nat], NEW s \in [Sem -> Nat], NEW ops \in Seq(SemBuf),
         NEW k \in 1 .. Len(ops), Exact(c, s, ops, k), NEW o, o = ops[k],
         ~Invalid(o), ~Blocks(o, c)
  PROVE  Exact(Applied(c, o), s, ops, k + 1)
  <1>1. PICK N \in Nat : N = Len(ops)
    OBVIOUS
  <1>2. k + 1 \in 1 .. N + 1 /\ k + 1 - 1 = k /\ \A j \in 1 .. k : j = k \/ j \in 1 .. k-1
    BY <1>1
  <1>3. s \in [Sem -> Int] /\ o \in SemBuf
    OBVIOUS
  <1>4. c = Abs!After(s, ops)[k-1] /\ \A j \in 1 .. k-1 : ~Bad(s, ops, j)
    BY DEF Exact
  <1>5. Abs!After(s, ops)[k] = Applied(c, o)
    BY <1>3, <1>4, AfterSteps
  <1>6. ~Bad(s, ops, k)
    <2>1. Abs!Valid(o) /\ Abs!CanApply(o, c)
      BY <1>3, BadIsBlocked
    <2> QED
      BY <1>4, <2>1 DEF Bad
  <1> QED
    BY <1>1, <1>2, <1>4, <1>5, <1>6 DEF Exact

\* A step that brings nobody to a scan and examines nothing.
LEMMA NobodyScans ==
  ASSUME ScanExact,
         \A u \in Thread : pc'[u] = "scan" =>
           /\ pc[u] = "scan" /\ copy'[u] = copy[u] /\ snap'[u] = snap[u]
           /\ call'[u] = call[u] /\ i'[u] = i[u]
  PROVE  ScanExact'
  <1> SUFFICES ASSUME NEW u \in Thread, pc'[u] = "scan"
               PROVE  Exact(copy'[u], snap'[u], call'[u].ops, i'[u])
    BY DEF ScanExact, Exact, Bad
  <1> QED
    BY DEF ScanExact

LEMMA ScanStep ==
  ASSUME RefInv, [Next]_vars
  PROVE  ScanExact'
  <1>0. ScanExact /\ TypeOK /\ CallMatchesPlace
    BY DEF RefInv, SerialInv, TypeInv
  <1>1. ASSUME NEW t \in Thread, Lock(t) PROVE ScanExact'
    <2>1. \A u \in Thread : u # t => /\ pc'[u] = pc[u] /\ copy'[u] = copy[u] /\ snap'[u] = snap[u]
                                     /\ call'[u] = call[u] /\ i'[u] = i[u]
      BY <1>0, <1>1 DEF Lock, Goto, Finish, TypeOK
    <2>2. CASE pc'[t] = "scan"
      <3>1. /\ call'[t] = call[t] /\ call[t].kind = "op" /\ call[t] \in Calls
            /\ copy'[t] = values /\ snap'[t] = values /\ i'[t] = 1
        BY <1>0, <1>1, <2>2 DEF Lock, Goto, Finish, TypeOK, CallMatchesPlace
      <3>2. values \in [Sem -> Nat] /\ call[t].ops \in Seq(SemBuf)
        BY <1>0, <3>1, CallShape DEF TypeOK
      <3>3. Exact(copy'[t], snap'[t], call'[t].ops, i'[t])
        BY <3>1, <3>2, ExactStart
      <3>4. \A u \in Thread : pc'[u] = "scan" => Exact(copy'[u], snap'[u], call'[u].ops, i'[u])
        BY <1>0, <2>1, <3>3 DEF ScanExact
      <3> QED
        BY <3>4 DEF ScanExact, Exact, Bad
    <2>3. CASE pc'[t] # "scan"
      BY <1>0, <2>1, <2>3, NobodyScans
    <2> QED
      BY <2>2, <2>3
  <1>2. ASSUME NEW t \in Thread, ScanApply(t) PROVE ScanExact'
    <2>1. /\ pc[t] = "scan" /\ i[t] <= Len(call[t].ops) /\ call[t].kind = "op" /\ call[t] \in Calls
          /\ ~Invalid(Current(t)) /\ ~Blocks(Current(t), copy[t])
      BY <1>0, <1>2 DEF ScanApply, Scanning, CallMatchesPlace
    <2>2. /\ copy[t] \in [Sem -> Nat] /\ snap[t] \in [Sem -> Nat] /\ call[t].ops \in Seq(SemBuf)
          /\ i[t] \in 1 .. Len(call[t].ops) /\ Exact(copy[t], snap[t], call[t].ops, i[t])
      BY <1>0, <2>1, CallShape DEF TypeOK, ScanExact
    <2>3. PICK c, s, ops, k : /\ c = copy[t] /\ s = snap[t] /\ ops = call[t].ops /\ k = i[t]
      OBVIOUS
    <2>4. Exact(Applied(c, ops[k]), s, ops, k + 1)
      BY <2>1, <2>2, <2>3, ExactMore DEF Current
    <2>5. /\ copy'[t] = Applied(c, ops[k]) /\ i'[t] = k + 1
          /\ UNCHANGED <<pc, snap, call>>
          /\ \A u \in Thread : u # t => copy'[u] = copy[u] /\ i'[u] = i[u]
      BY <1>0, <1>2, <2>3 DEF ScanApply, Current, Applied, TypeOK
    <2>6. \A u \in Thread : pc'[u] = "scan" => Exact(copy'[u], snap'[u], call'[u].ops, i'[u])
      BY <1>0, <2>3, <2>4, <2>5 DEF ScanExact
    <2> QED
      BY <2>6 DEF ScanExact, Exact, Bad
  <1>3. ASSUME NEW t \in Thread, NEW c \in Calls, StartCall(t, c) PROVE ScanExact'
    BY <1>0, <1>3, NobodyScans DEF StartCall, Goto, TypeOK
  <1>4. ASSUME NEW t \in Thread, ScanFail(t) \/ ScanWait(t) \/ Commit(t) \/ Store(t)
        PROVE  ScanExact'
    BY <1>0, <1>4, NobodyScans DEF ScanFail, ScanWait, Commit, Store, Goto, Finish, TypeOK
  <1>5. ASSUME NEW t \in Thread, CtlGet(t) \/ CtlSetVal(t) \/ CtlSetAll(t) \/ CtlRmid(t)
        PROVE  ScanExact'
    BY <1>0, <1>5, NobodyScans DEF CtlGet, CtlSetVal, CtlSetAll, CtlRmid, CtlSet, Goto, Finish, TypeOK
  <1>6. ASSUME NEW t \in Thread, Bump(t) \/ Unlock(t) \/ Close(t) \/ UnlockWait(t) \/ UnlockRetry(t)
        PROVE  ScanExact'
    BY <1>0, <1>6, NobodyScans DEF Bump, Unlock, Close, UnlockWait, UnlockRetry, Goto, local, TypeOK
  <1>7. ASSUME NEW t \in Thread, FutexWake(t) PROVE ScanExact'
    BY <1>0, <1>7, NobodyScans DEF FutexWake, TypeOK
  <1>8. ASSUME NEW t \in Thread, FutexWait(t) \/ Timeout(t) \/ Interrupt(t) \/ Relock(t)
        PROVE  ScanExact'
    BY <1>0, <1>8, NobodyScans DEF FutexWait, Timeout, Interrupt, Relock, Goto, local, TypeOK
  <1>9. ASSUME NEW p \in Process, Crash(p) PROVE ScanExact'
    BY <1>0, <1>9, NobodyScans DEF Crash, local, TypeOK
  <1>10. CASE UNCHANGED vars
    BY <1>0, <1>10, NobodyScans DEF vars, local
  <1> QED
    BY <1>1, <1>2, <1>3, <1>4, <1>5, <1>6, <1>7, <1>8, <1>9, <1>10 DEF Next, Step

LEMMA WaitEndedStep ==
  ASSUME RefInv, [Next]_vars
  PROVE  WaitEnded'
  <1>0. WaitEnded /\ TypeOK /\ CallMatchesPlace
    BY DEF RefInv, SerialInv, TypeInv
  <1>1. ASSUME NEW t \in Thread, NEW c \in Calls, StartCall(t, c) PROVE WaitEnded'
    BY <1>0, <1>1 DEF StartCall, Goto, TypeOK, WaitEnded
  <1>2. ASSUME NEW t \in Thread, \/ Lock(t) \/ ScanApply(t) \/ ScanFail(t) \/ ScanWait(t)
                                 \/ Commit(t) \/ Store(t)
        PROVE  WaitEnded'
    BY <1>0, <1>2 DEF Lock, ScanApply, ScanFail, ScanWait, Commit, Store, Goto, Finish, TypeOK, WaitEnded
  <1>3. ASSUME NEW t \in Thread, CtlGet(t) \/ CtlSetVal(t) \/ CtlSetAll(t) \/ CtlRmid(t)
        PROVE  WaitEnded'
    BY <1>0, <1>3 DEF CtlGet, CtlSetVal, CtlSetAll, CtlRmid, CtlSet, Goto, Finish, TypeOK, WaitEnded
  <1>4. ASSUME NEW t \in Thread, Bump(t) \/ Unlock(t) \/ Close(t) \/ UnlockWait(t) \/ UnlockRetry(t)
        PROVE  WaitEnded'
    BY <1>0, <1>4 DEF Bump, Unlock, Close, UnlockWait, UnlockRetry, Goto, local, TypeOK, WaitEnded
  <1>5. ASSUME NEW t \in Thread, FutexWake(t) PROVE WaitEnded'
    BY <1>0, <1>5 DEF FutexWake, TypeOK, WaitEnded, CallMatchesPlace, Counted
  <1>6. ASSUME NEW t \in Thread, FutexWait(t) \/ Timeout(t) \/ Interrupt(t) PROVE WaitEnded'
    BY <1>0, <1>6 DEF FutexWait, Timeout, Interrupt, Goto, TypeOK, WaitEnded, CallMatchesPlace, Counted
  <1>7. ASSUME NEW t \in Thread, Relock(t) PROVE WaitEnded'
    BY <1>0, <1>7 DEF Relock, Goto, local, TypeOK, WaitEnded
  <1>8. ASSUME NEW p \in Process, Crash(p) PROVE WaitEnded'
    BY <1>0, <1>8 DEF Crash, local, TypeOK, WaitEnded
  <1>9. CASE UNCHANGED vars
    BY <1>0, <1>9 DEF vars, local, WaitEnded
  <1> QED
    BY <1>1, <1>2, <1>3, <1>4, <1>5, <1>6, <1>7, <1>8, <1>9 DEF Next, Step

\* Whoever is inside and not writing has the set as it is said to be.
LEMMA NobodyElse ==
  ASSUME OneThreadPerProcess, RefInv, NEW t \in Thread, pc[t] \in Critical
  PROVE  /\ \A u \in Thread : pc[u] \in Critical => u = t
         /\ pc[t] = "write" => Writing = {t} /\ Settled = snap[t]
         /\ pc[t] # "write" => Writing = {} /\ Settled = values
  <1>1. \A u \in Thread : pc[u] \in Critical => u = t
    BY Exclusion DEF RefInv, SerialInv, TypeInv
  <1>2. Writing = IF pc[t] = "write" THEN {t} ELSE {}
    BY <1>1 DEF Writing, Critical
  <1> QED
    BY <1>1, <1>2 DEF Settled

LEMMA SettledStays ==
  ASSUME Writing' = Writing, Writing = {} => UNCHANGED values,
         \A u \in Writing : snap'[u] = snap[u]
  PROVE  Settled' = Settled
  BY DEF Settled

\* A step that begins no write, ends none and stores nothing.
LEMMA NobodyWrites ==
  ASSUME WriteExact, UNCHANGED values,
         \A u \in Thread : pc'[u] = "write" =>
           /\ pc[u] = "write" /\ copy'[u] = copy[u] /\ snap'[u] = snap[u]
           /\ call'[u] = call[u] /\ todo'[u] = todo[u] /\ removed' = removed
  PROVE  WriteExact'
  <1> SUFFICES ASSUME NEW u \in Thread, pc'[u] = "write"
               PROVE  /\ call'[u] \in Calls
                      /\ MayWrite(call'[u], snap'[u], removed')
                      /\ copy'[u] = Abs!Effect(snap'[u], call'[u])
                      /\ \A n \in Sem : values'[n] = IF <<"value", n>> \in todo'[u]
                                                     THEN snap'[u][n] ELSE copy'[u][n]
    BY DEF WriteExact, MayWrite
  <1> QED
    BY DEF WriteExact

\* A step that leaves t as the only one that may be writing.
LEMMA OnlyWriter ==
  ASSUME NEW t \in Thread, \A u \in Thread : u # t => pc'[u] # "write",
         pc'[t] = "write" =>
           /\ call'[t] \in Calls
           /\ MayWrite(call'[t], snap'[t], removed')
           /\ copy'[t] = Abs!Effect(snap'[t], call'[t])
           /\ \A n \in Sem : values'[n] = IF <<"value", n>> \in todo'[t]
                                          THEN snap'[t][n] ELSE copy'[t][n]
  PROVE  WriteExact'
  <1> SUFFICES ASSUME NEW u \in Thread, pc'[u] = "write"
               PROVE  /\ call'[u] \in Calls
                      /\ MayWrite(call'[u], snap'[u], removed')
                      /\ copy'[u] = Abs!Effect(snap'[u], call'[u])
                      /\ \A n \in Sem : values'[n] = IF <<"value", n>> \in todo'[u]
                                                     THEN snap'[u][n] ELSE copy'[u][n]
    BY DEF WriteExact, MayWrite
  <1> QED
    OBVIOUS

LEMMA WriteStep ==
  ASSUME OneThreadPerProcess, RefInv, [Next]_vars
  PROVE  WriteExact'
  <1>0. /\ WriteExact /\ TypeOK /\ CallMatchesPlace /\ ScanExact /\ OperationSetsSerialized
        /\ TypeOK'
    BY TypeStep DEF RefInv, SerialInv, TypeInv
  <1>1. ASSUME NEW t \in Thread, Commit(t) PROVE WriteExact'
    <2>1. /\ pc[t] = "scan" /\ call[t].kind = "op" /\ call[t] \in Calls
          /\ i[t] > Len(call[t].ops) /\ values = snap[t] /\ removed = 0
      BY <1>0, <1>1 DEF Commit, CallMatchesPlace, OperationSetsSerialized
    <2>2. PICK s, ops, k, c : s = snap[t] /\ ops = call[t].ops /\ k = i[t] /\ c = copy[t]
      OBVIOUS
    <2>3. /\ ops \in Seq(SemBuf) /\ Exact(c, s, ops, k)
          /\ k = Len(ops) + 1 /\ k - 1 = Len(ops) /\ k \in 1 .. Len(ops) + 1
      <3>1. ops \in Seq(SemBuf) /\ Exact(c, s, ops, k) /\ k > Len(ops)
        BY <1>0, <2>1, <2>2, CallShape DEF ScanExact
      <3>2. Len(ops) \in Nat /\ k \in 1 .. Len(ops) + 1
        BY <3>1 DEF Exact
      <3> QED
        BY <3>1, <3>2
    <2>4. c = Abs!After(s, ops)[Len(ops)] /\ Abs!Obstacle(s, ops) = 0
      BY <2>3, ObstacleIs DEF Exact
    <2>5. MayWrite(call[t], s, removed)
      BY <2>1, <2>2, <2>4 DEF MayWrite, Abs!Possible
    <2>6. c = Abs!Effect(s, call[t])
      BY <2>1, <2>2, <2>4 DEF Abs!Effect
    <2>7. /\ UNCHANGED <<values, removed, call, copy, snap>>
          /\ \A u \in Thread : u # t => pc'[u] = pc[u]
          /\ \A n \in Sem : <<"value", n>> \in todo'[t]
      BY <1>0, <1>1 DEF Commit, Goto, TypeOK, file
    <2>8. \A u \in Thread : u # t => pc'[u] # "write"
      BY <2>1, <2>7, NobodyElse DEF Critical
    <2> QED
      BY <2>1, <2>2, <2>5, <2>6, <2>7, <2>8, OnlyWriter
  <1>2. ASSUME NEW t \in Thread, CtlSetVal(t) \/ CtlSetAll(t) PROVE WriteExact'
    <2>1. /\ pc[t] = "ctl" /\ call[t] \in Calls
          /\ UNCHANGED <<values, removed, call>>
          /\ \A u \in Thread : u # t => pc'[u] = pc[u]
      BY <1>0, <1>2 DEF CtlSetVal, CtlSetAll, CtlSet, Finish, Goto, TypeOK, file, CallMatchesPlace
    <2>2. \A u \in Thread : u # t => pc'[u] # "write"
      BY <2>1, NobodyElse DEF Critical
    <2>3. PICK c \in Calls : c = call[t]
      BY <2>1
    <2>4. ASSUME pc'[t] = "write", CtlSetVal(t)
          PROVE  /\ MayWrite(c, values, removed) /\ snap'[t] = values
                 /\ copy'[t] = Abs!Effect(values, c)
                 /\ \A n \in Sem : <<"value", n>> \in todo'[t] \/ values[n] = copy'[t][n]
      <3>1. /\ c.kind = "SETVAL" /\ c.num \in Sem /\ c.val \in 0 .. MaxSet
            /\ copy'[t] = [values EXCEPT ![c.num] = c.val] /\ snap'[t] = values
            /\ todo'[t] = {"value", "pid"} \X {c.num}
        BY <1>0, <2>1, <2>3, <2>4 DEF CtlSetVal, CtlSet, Finish, Goto, TypeOK
      <3>2. \A n \in Sem : n # c.num => copy'[t][n] = values[n]
        BY <1>0, <3>1 DEF TypeOK
      <3>3. MayWrite(c, values, removed)
        BY <3>1 DEF MayWrite, Abs!InRange
      <3>4. copy'[t] = Abs!Effect(values, c)
        BY <3>1 DEF Abs!Effect
      <3> QED
        BY <3>1, <3>2, <3>3, <3>4
    <2>5. ASSUME pc'[t] = "write", CtlSetAll(t)
          PROVE  /\ MayWrite(c, values, removed) /\ snap'[t] = values
                 /\ copy'[t] = Abs!Effect(values, c)
                 /\ \A n \in Sem : <<"value", n>> \in todo'[t] \/ values[n] = copy'[t][n]
      <3>1. /\ c.kind = "SETALL" /\ c.num \in Sem /\ \A n \in Sem : c.vals[n] <= MaxSet
            /\ copy'[t] = c.vals /\ snap'[t] = values
            /\ todo'[t] = {"value", "pid"} \X Sem
        BY <1>0, <2>1, <2>3, <2>5 DEF CtlSetAll, CtlSet, Finish, Goto, TypeOK
      <3>2. Abs!InRange(c)
        BY <2>3, <3>1, CallShape, SizeAssumption DEF Abs!InRange, Abs!Sem, Sem
      <3>3. MayWrite(c, values, removed)
        BY <3>1, <3>2 DEF MayWrite
      <3>4. copy'[t] = Abs!Effect(values, c)
        BY <3>1 DEF Abs!Effect
      <3> QED
        BY <3>1, <3>3, <3>4
    <2> QED
      BY <1>2, <2>1, <2>2, <2>3, <2>4, <2>5, OnlyWriter
  <1>3. ASSUME NEW t \in Thread, Store(t) PROVE WriteExact'
    <2>1. /\ pc[t] = "write" /\ UNCHANGED <<removed, call, copy, snap>>
          /\ \A u \in Thread : u # t => pc'[u] = pc[u]
      BY <1>0, <1>3 DEF Store, Goto, TypeOK
    <2>2. \A u \in Thread : u # t => pc'[u] # "write"
      BY <2>1, NobodyElse DEF Critical
    <2>3. PICK st \in todo[t] :
            /\ values' = IF st[1] = "value" THEN [values EXCEPT ![st[2]] = copy[t][st[2]]]
                         ELSE values
            /\ todo' = [todo EXCEPT ![t] = @ \ {st}]
      BY <1>3 DEF Store
    <2>4. PICK k \in {"value", "pid"}, m \in Nat : st = <<k, m>>
      BY <1>0 DEF TypeOK
    <2>5. ASSUME NEW n \in Sem
          PROVE  values'[n] = IF <<"value", n>> \in todo'[t] THEN snap[t][n] ELSE copy[t][n]
      <3>1. values[n] = IF <<"value", n>> \in todo[t] THEN snap[t][n] ELSE copy[t][n]
        BY <1>0, <2>1 DEF WriteExact
      <3>2. todo'[t] = todo[t] \ {<<k, m>>}
        BY <1>0, <2>3, <2>4 DEF TypeOK
      <3>3. values'[n] = IF k = "value" /\ n = m THEN copy[t][n] ELSE values[n]
        BY <1>0, <2>3, <2>4 DEF TypeOK
      <3>4. <<"value", n>> = <<k, m>> <=> k = "value" /\ n = m
        OBVIOUS
      <3> QED
        BY <3>1, <3>2, <3>3, <3>4
    <2> QED
      BY <1>0, <2>1, <2>2, <2>5, OnlyWriter DEF WriteExact
  <1>4. ASSUME NEW t \in Thread, CtlRmid(t) PROVE WriteExact'
    <2>1. \A u \in Thread : pc'[u] # "write"
      BY <1>0, <1>4, NobodyElse DEF CtlRmid, Goto, TypeOK, Critical
    <2> QED
      BY <2>1, OnlyWriter
  <1>5. ASSUME NEW t \in Thread, NEW c \in Calls, StartCall(t, c) PROVE WriteExact'
    BY <1>0, <1>5, NobodyWrites DEF StartCall, Goto, file, TypeOK
  <1>6. ASSUME NEW t \in Thread, Lock(t) \/ ScanApply(t) PROVE WriteExact'
    <2>1. /\ pc[t] # "write" /\ pc'[t] # "write"
          /\ \A u \in Thread : u # t => /\ pc'[u] = pc[u] /\ copy'[u] = copy[u]
                                        /\ snap'[u] = snap[u]
          /\ UNCHANGED <<values, removed, call, todo>>
      BY <1>0, <1>6 DEF Lock, Goto, Finish, ScanApply, Scanning, file, TypeOK
    <2> QED
      BY <1>0, <2>1, NobodyWrites
  <1>7. ASSUME NEW t \in Thread, ScanFail(t) \/ ScanWait(t) \/ CtlGet(t)
        PROVE WriteExact'
    BY <1>0, <1>7, NobodyWrites DEF ScanFail, ScanWait, CtlGet, Goto, Finish, file, TypeOK
  <1>8. ASSUME NEW t \in Thread, Bump(t) \/ Unlock(t) \/ Close(t) \/ UnlockWait(t) \/ UnlockRetry(t)
        PROVE  WriteExact'
    BY <1>0, <1>8, NobodyWrites
    DEF Bump, Unlock, Close, UnlockWait, UnlockRetry, Goto, file, local, TypeOK
  <1>9. ASSUME NEW t \in Thread, FutexWake(t) PROVE WriteExact'
    BY <1>0, <1>9, NobodyWrites DEF FutexWake, file, TypeOK
  <1>10. ASSUME NEW t \in Thread, FutexWait(t) \/ Timeout(t) \/ Interrupt(t) \/ Relock(t)
        PROVE  WriteExact'
    BY <1>0, <1>10, NobodyWrites DEF FutexWait, Timeout, Interrupt, Relock, Goto, file, local, TypeOK
  <1>11. ASSUME NEW p \in Process, Crash(p) PROVE WriteExact'
    BY <1>0, <1>11, NobodyWrites DEF Crash, file, local, TypeOK
  <1>12. CASE UNCHANGED vars
    BY <1>0, <1>12, NobodyWrites DEF vars, file, local
  <1> QED
    BY <1>1, <1>2, <1>3, <1>4, <1>5, <1>6, <1>7, <1>8, <1>9, <1>10, <1>11, <1>12 DEF Next, Step

\* The status of a thread in AbstractSem.
St(t) == IF Decided(t) THEN result[t]
         ELSE IF pc[t] \in {"idle", "dead"} THEN pc[t] ELSE "pending"

LEMMA StatusBecomes ==
  ASSUME NEW t \in Thread, NEW s, St(t)' = s, \A u \in Thread : u # t => St(u)' = St(u)
  PROVE  Abs!Become(t, s)
  BY DEF Abs!Become, St, Decided

LEMMA StatusStays ==
  ASSUME \A u \in Thread : St(u)' = St(u), UNCHANGED <<Settled, removed, call>>
  PROVE  UNCHANGED Abs!vars
  BY DEF Abs!vars, St, Decided

LEMMA StatusRead ==
  ASSUME NEW t \in Thread, St(t) = "pending", NEW K, call[t].kind \in K
  PROVE  Abs!Pending(t, K)
  BY DEF Abs!Pending, St, Decided

\* A step of one thread, and how it looks from outside.
Others(t) == \A u \in Thread : u # t => pc'[u] = pc[u] /\ result'[u] = result[u]

LEMMA OthersStay ==
  ASSUME NEW t \in Thread, Others(t)
  PROVE  \A u \in Thread : u # t => St(u)' = St(u)
  BY DEF Others, St, Decided

\* A step that writes nothing, of a thread outside of a write.
LEMMA Quiet ==
  ASSUME NEW t \in Thread, Others(t), pc[t] # "write", pc'[t] # "write", UNCHANGED values,
         \A u \in Thread : u # t => snap'[u] = snap[u]
  PROVE  Settled' = Settled
  <1>1. Writing' = Writing
    BY DEF Others, Writing
  <1>2. t \notin Writing
    BY DEF Writing
  <1> QED
    BY <1>1, <1>2, SettledStays DEF Writing

Undecided(t) == pc[t] \notin {"bump", "wake", "unlock", "close", "idle", "dead"}

LEMMA StillPending ==
  ASSUME NEW t \in Thread, Others(t), Undecided(t), Undecided(t)', UNCHANGED <<Settled, removed, call>>
  PROVE  UNCHANGED Abs!vars
  <1>1. St(t)' = St(t)
    BY DEF St, Decided, Undecided
  <1> QED
    BY <1>1, OthersStay, StatusStays

LEMMA StillDecided ==
  ASSUME NEW t \in Thread, Others(t), Decided(t), Decided(t)', result'[t] = result[t],
         UNCHANGED <<Settled, removed, call>>
  PROVE  UNCHANGED Abs!vars
  <1>1. St(t)' = St(t)
    BY DEF St, Decided
  <1> QED
    BY <1>1, OthersStay, StatusStays

\* The call is decided by this step.
LEMMA Decides ==
  ASSUME NEW t \in Thread, Others(t), Undecided(t), Decided(t)', NEW r, r = result'[t]
  PROVE  St(t) = "pending" /\ Abs!Become(t, r)
  <1>1. St(t) = "pending" /\ St(t)' = r
    BY DEF St, Decided, Undecided
  <1>2. \A u \in Thread : u # t => St(u)' = St(u)
    BY OthersStay
  <1> QED
    BY <1>1, <1>2, StatusBecomes

LEMMA RefInvoke ==
  ASSUME TypeOK, NEW t \in Thread, NEW c \in Calls, StartCall(t, c)
  PROVE  Abs!Next
  <1>0. /\ Others(t) /\ pc[t] = "idle" /\ pc'[t] # "write"
        /\ UNCHANGED <<values, removed, snap>>
    BY DEF StartCall, Goto, TypeOK, Others, file
  <1>1. /\ Others(t) /\ pc[t] = "idle" /\ call' = [call EXCEPT ![t] = c]
        /\ UNCHANGED <<Settled, removed>>
    BY <1>0, Quiet DEF StartCall
  <1>2. St(t) = "idle"
    BY <1>1 DEF St, Decided
  <1>3. \/ St(t)' = "pending"
        \/ removed = 1 /\ St(t)' = "EINVAL"
        \/ c.kind = "op" /\ c.ops = <<>> /\ St(t)' = St(t)
    BY <1>1 DEF StartCall, Goto, TypeOK, St, Decided
  <1>4. \A u \in Thread : u # t => St(u)' = St(u)
    BY <1>1, OthersStay
  <1>5. \/ Abs!Become(t, "pending")
        \/ removed = 1 /\ Abs!Become(t, "EINVAL")
        \/ /\ c.kind = "op" /\ c.ops = <<>>
           /\ \A u \in Thread : St(u)' = St(u)
    BY <1>1, <1>3, <1>4, StatusBecomes
  <1>6. Abs!Invoke(t, c)
    BY <1>1, <1>2, <1>5 DEF Abs!Invoke, St, Decided
  <1> QED
    BY <1>6 DEF Abs!Next

\* A semop that fails: at that moment it is true what the errno says.
LEMMA RefScanFail ==
  ASSUME OneThreadPerProcess, RefInv, NEW t \in Thread, ScanFail(t)
  PROVE  Abs!Next
  <1>0. TypeOK /\ CallMatchesPlace /\ OperationSetsSerialized /\ ScanExact
    BY DEF RefInv, SerialInv, TypeInv
  <1>1. /\ pc[t] = "scan" /\ call[t].kind = "op" /\ call[t] \in Calls
        /\ i[t] <= Len(call[t].ops) /\ Settled = snap[t] /\ removed = 0
    <2>1. pc[t] = "scan" /\ i[t] <= Len(call[t].ops)
      BY DEF ScanFail, Scanning
    <2> QED
      BY <1>0, <2>1, NobodyElse DEF Critical, CallMatchesPlace, OperationSetsSerialized
  <1>2. PICK s, ops, k, c, o : /\ s = snap[t] /\ ops = call[t].ops /\ k = i[t] /\ c = copy[t]
                               /\ o = ops[k]
    OBVIOUS
  <1>3. /\ s \in [Sem -> Nat] /\ c \in [Sem -> Nat] /\ ops \in Seq(SemBuf) /\ k \in 1 .. Len(ops)
        /\ o \in SemBuf /\ Exact(c, s, ops, k) /\ o = Current(t)
    <2>1. s \in [Sem -> Nat] /\ c \in [Sem -> Nat] /\ ops \in Seq(SemBuf) /\ k \in 1 .. Len(ops)
      BY <1>0, <1>1, <1>2, CallShape DEF TypeOK
    <2> QED
      BY <1>0, <1>1, <1>2, <2>1 DEF ScanExact, Current
  <1>4. Invalid(o) \/ (Blocks(o, c) /\ o.nowait)
    BY <1>1, <1>2, <1>3 DEF ScanFail
  <1>5. /\ Abs!Valid(o) <=> ~Invalid(o)
        /\ Abs!Valid(o) => (Abs!CanApply(o, c) <=> ~Blocks(o, c))
    BY <1>3, BadIsBlocked
  <1>6. Bad(s, ops, k) /\ \A j \in 1 .. k-1 : ~Bad(s, ops, j)
    BY <1>2, <1>3, <1>4, <1>5 DEF Bad, Exact
  <1>7. Abs!Obstacle(s, ops) = k
    <2>1. k \in 1 .. Len(ops) + 1 /\ k <= Len(ops)
      BY <1>3
    <2> QED
      BY <1>3, <1>6, <2>1, ObstacleIs
  <1>8. /\ Others(t) /\ pc'[t] = "unlock" /\ UNCHANGED <<Settled, removed, call>>
        /\ result'[t] = IF o.num >= NSems THEN "EFBIG" ELSE IF o.undo THEN "ENOTSUP" ELSE "EAGAIN"
    <2>1. /\ Others(t) /\ pc'[t] = "unlock" /\ UNCHANGED <<values, removed, call, snap>>
          /\ result'[t] = IF o.num >= NSems THEN "EFBIG" ELSE IF o.undo THEN "ENOTSUP" ELSE "EAGAIN"
      BY <1>0, <1>1, <1>3 DEF ScanFail, Finish, Goto, TypeOK, Others, file
    <2> QED
      BY <1>1, <2>1, Quiet
  <1>9. St(t) = "pending" /\ \A r : r = result'[t] => Abs!Become(t, r)
    BY <1>1, <1>8, Decides DEF Undecided, Decided
  <1>10. /\ o.num \in Sem <=> ~(o.num >= NSems)
         /\ Abs!Valid(o) <=> o.num \in Sem /\ ~o.undo
    BY <1>3, SizeAssumption DEF Sem, SemBuf, Abs!Valid, Abs!Sem
  <1>11. \/ o.num \notin Sem /\ result'[t] = "EFBIG"
         \/ o.num \in Sem /\ o.undo /\ result'[t] = "ENOTSUP"
         \/ Abs!Valid(o) /\ o.nowait /\ result'[t] = "EAGAIN"
    BY <1>4, <1>5, <1>8, <1>10
  <1>12. k # 0
    BY <1>3
  <1>13. \/ o.num \notin Sem /\ Abs!Become(t, "EFBIG")
         \/ o.num \in Sem /\ o.undo /\ Abs!Become(t, "ENOTSUP")
         \/ Abs!Valid(o) /\ o.nowait /\ Abs!Become(t, "EAGAIN")
    BY <1>9, <1>11
  <1>14. Abs!Pending(t, {"op"})
    BY <1>1, <1>9, StatusRead
  <1>15. Abs!GiveUp(t)
    <2>1. Abs!Obstacle(Settled, call[t].ops) = k /\ call[t].ops[k] = o
      BY <1>1, <1>2, <1>7
    <2> QED
      BY <1>1, <1>8, <1>12, <1>13, <1>14, <2>1, Zenon DEF Abs!GiveUp, Abs!Sem, Sem
  <1> QED
    BY <1>15 DEF Abs!Next

\* A thread that writes may, by AbstractSem.
LEMMA WriterCan ==
  ASSUME OneThreadPerProcess, RefInv, NEW t \in Thread, pc[t] = "write"
  PROVE  Abs!CanWrite(t)
  <1>1. /\ MayWrite(call[t], Settled, removed) /\ St(t) = "pending"
    <2>1. Settled = snap[t]
      BY NobodyElse DEF Critical
    <2> QED
      BY <2>1 DEF RefInv, WriteExact, St, Decided
  <1>2. CASE call[t].kind = "op" /\ removed = 0 /\ Abs!Possible(Settled, call[t].ops)
    <2>1. Abs!Pending(t, {"op"})
      BY <1>1, <1>2, StatusRead
    <2> QED
      BY <1>2, <2>1 DEF Abs!CanWrite
  <1>3. CASE /\ call[t].kind \in {"SETVAL", "SETALL"} /\ call[t].num \in Sem
             /\ Abs!InRange(call[t])
    <2>1. Abs!Pending(t, {"SETVAL", "SETALL"})
      BY <1>1, <1>3, StatusRead
    <2> QED
      BY <1>3, <2>1 DEF Abs!CanWrite, Abs!Sem, Sem
  <1> QED
    BY <1>1, <1>2, <1>3 DEF MayWrite

\* The beginning of a write: nothing has happened yet.
LEMMA RefBegin ==
  ASSUME OneThreadPerProcess, RefInv, NEW t \in Thread, pc[t] \in {"scan", "ctl"},
         pc'[t] = "write", Others(t), snap'[t] = values, UNCHANGED <<removed, call>>
  PROVE  UNCHANGED Abs!vars
  <1>1. /\ \A u \in Thread : pc[u] \in Critical => u = t
        /\ Settled = values
    BY NobodyElse DEF Critical
  <1>2. Writing' = {t}
    BY <1>1 DEF Writing, Others, Critical
  <1>3. Settled' = Settled
    BY <1>1, <1>2 DEF Settled
  <1>4. Undecided(t) /\ Undecided(t)'
    BY DEF Undecided
  <1> QED
    BY <1>3, <1>4, StillPending

LEMMA RefCommit ==
  ASSUME OneThreadPerProcess, RefInv, NEW t \in Thread, Commit(t)
  PROVE  UNCHANGED Abs!vars
  <1>0. TypeOK /\ OperationSetsSerialized
    BY DEF RefInv, SerialInv, TypeInv
  <1>1. /\ pc[t] = "scan" /\ pc'[t] = "write" /\ Others(t) /\ snap'[t] = values
        /\ UNCHANGED <<removed, call>>
    BY <1>0 DEF Commit, Goto, TypeOK, Others, OperationSetsSerialized, file
  <1> QED
    BY <1>1, RefBegin

\* The last store is the moment at which all of the call happens.
LEMMA RefStore ==
  ASSUME OneThreadPerProcess, RefInv, NEW t \in Thread, Store(t), TypeOK'
  PROVE  Abs!Next \/ UNCHANGED Abs!vars
  <1>0. TypeOK /\ WriteExact
    BY DEF RefInv, SerialInv, TypeInv
  <1>1. /\ pc[t] = "write" /\ Others(t) /\ UNCHANGED <<removed, call, copy, snap>>
    BY <1>0 DEF Store, Goto, TypeOK, Others
  <1>2. Writing = {t} /\ Settled = snap[t]
    BY <1>1, NobodyElse DEF Critical
  <1>3. PICK st \in todo[t] :
          /\ values' = IF st[1] = "value" THEN [values EXCEPT ![st[2]] = copy[t][st[2]]]
                       ELSE values
          /\ IF todo[t] = {st}
               THEN Goto(t, "bump") /\ result' = [result EXCEPT ![t] = "ok"]
               ELSE UNCHANGED <<pc, result>>
    BY DEF Store
  <1>4. CASE todo[t] # {st}
    <2>1. Writing' = Writing
      BY <1>3, <1>4 DEF Writing
    <2>2. Settled' = Settled
      BY <1>1, <1>2, <2>1, SettledStays
    <2>3. Undecided(t) /\ Undecided(t)'
      BY <1>1, <1>3, <1>4 DEF Undecided
    <2> QED
      BY <1>1, <2>2, <2>3, StillPending
  <1>5. CASE todo[t] = {st}
    <2>1. pc'[t] = "bump" /\ "ok" = result'[t]
      BY <1>0, <1>3, <1>5 DEF Goto, TypeOK
    <2>2. Writing' = {}
      BY <1>1, <1>2, <2>1 DEF Writing, Others
    <2>3. PICK k \in {"value", "pid"}, m \in Nat : st = <<k, m>>
      BY <1>0 DEF TypeOK
    <2>4. ASSUME NEW n \in Sem PROVE values'[n] = copy[t][n]
      <3>1. values[n] = IF <<"value", n>> \in todo[t] THEN snap[t][n] ELSE copy[t][n]
        BY <1>0, <1>1 DEF WriteExact
      <3>2. values'[n] = IF k = "value" /\ n = m THEN copy[t][n] ELSE values[n]
        BY <1>0, <1>3, <2>3 DEF TypeOK
      <3>3. <<"value", n>> = <<k, m>> <=> k = "value" /\ n = m
        OBVIOUS
      <3> QED
        BY <1>5, <2>3, <3>1, <3>2, <3>3
    <2>5. values' = copy[t]
      <3>1. values' \in [Sem -> Nat] /\ copy[t] \in [Sem -> Nat]
        BY <1>0 DEF TypeOK
      <3> QED
        BY <2>4, <3>1
    <2>6. Settled' = Abs!Effect(Settled, call[t])
      BY <1>0, <1>1, <1>2, <2>2, <2>5 DEF Settled, WriteExact
    <2>7. St(t) = "pending" /\ Abs!Become(t, "ok")
      <3>1. Undecided(t) /\ Decided(t)'
        BY <1>1, <2>1 DEF Undecided, Decided
      <3> QED
        BY <1>1, <2>1, <3>1, Decides
    <2>8. Abs!CanWrite(t)
      BY <1>1, <2>7, WriterCan
    <2>9. Abs!Perform(t)
      BY <1>1, <2>6, <2>7, <2>8 DEF Abs!Perform
    <2> QED
      BY <2>9 DEF Abs!Next
  <1> QED
    BY <1>4, <1>5

\* The semctl commands that do not write values.
LEMMA RefControl ==
  ASSUME OneThreadPerProcess, RefInv, NEW t \in Thread,
         CtlGet(t) \/ CtlSetVal(t) \/ CtlSetAll(t) \/ CtlRmid(t)
  PROVE  Abs!Next \/ UNCHANGED Abs!vars
  <1>0. TypeOK /\ CallMatchesPlace
    BY DEF RefInv, SerialInv, TypeInv
  <1>1. /\ Others(t) /\ pc[t] = "ctl" /\ pc'[t] \in {"bump", "unlock", "write"}
        /\ UNCHANGED <<values, call>> /\ \A u \in Thread : u # t => snap'[u] = snap[u]
        /\ call[t] \in Calls
    BY <1>0 DEF CtlGet, CtlSetVal, CtlSetAll, CtlRmid, CtlSet, Goto, Finish, TypeOK, Others,
                CallMatchesPlace, file
  <1>2. CASE pc'[t] = "write"
    <2>1. snap'[t] = values /\ UNCHANGED removed
      BY <1>0, <1>2 DEF CtlGet, CtlSetVal, CtlSetAll, CtlRmid, CtlSet, Goto, Finish, TypeOK, file
    <2> QED
      BY <1>1, <1>2, <2>1, RefBegin
  <1>3. CASE pc'[t] # "write"
    <2>1. Undecided(t) /\ Decided(t)' /\ Settled' = Settled
      BY <1>1, <1>3, Quiet DEF Undecided, Decided
    <2>2. St(t) = "pending" /\ \A r : r = result'[t] => Abs!Become(t, r)
      BY <1>1, <2>1, Decides
    <2>3. PICK c : c = call[t] /\ c \in Calls
      BY <1>1
    <2>4. ASSUME CtlGet(t) PROVE Abs!Control(t)
      <3>1. /\ c.kind = "GET" /\ UNCHANGED removed
            /\ result'[t] = IF c.num >= NSems THEN "EINVAL" ELSE "ok"
        BY <1>0, <2>3, <2>4 DEF CtlGet, Finish, TypeOK, file
      <3>2. c.num \in Nat
        BY <2>3, <3>1, CallsAssumption DEF Call
      <3>3. result'[t] = IF c.num \in Sem THEN "ok" ELSE "EINVAL"
        BY <3>1, <3>2, SizeAssumption DEF Sem
      <3>4. Abs!Become(t, IF c.num \in Sem THEN "ok" ELSE "EINVAL")
        BY <2>2, <3>3
      <3>5. Abs!Pending(t, {"GET"})
        BY <2>2, <2>3, <3>1, StatusRead
      <3> QED
        BY <1>1, <2>1, <2>3, <3>1, <3>4, <3>5 DEF Abs!Control, Abs!Become, Abs!Sem, Sem
    <2>5. ASSUME CtlSetVal(t) \/ CtlSetAll(t) PROVE Abs!Control(t)
      <3>1. /\ c.kind \in {"SETVAL", "SETALL"} /\ UNCHANGED removed
            /\ \/ c.num \notin Sem /\ result'[t] = "EINVAL"
               \/ c.num \in Sem /\ ~Abs!InRange(c) /\ result'[t] = "ERANGE"
        <4>1. CASE CtlSetVal(t)
          <5>1. /\ c.kind = "SETVAL" /\ UNCHANGED removed
                /\ ~(c.num \in Sem /\ c.val \in 0 .. MaxSet)
                /\ result'[t] = IF c.num \in Sem THEN "ERANGE" ELSE "EINVAL"
            BY <1>0, <1>3, <2>3, <4>1 DEF CtlSetVal, CtlSet, Goto, Finish, TypeOK, file
          <5>2. Abs!InRange(c) <=> c.val \in 0 .. MaxSet
            BY <5>1 DEF Abs!InRange
          <5> QED
            BY <5>1, <5>2
        <4>2. CASE CtlSetAll(t)
          <5>1. /\ c.kind = "SETALL" /\ UNCHANGED removed
                /\ ~(c.num \in Sem /\ \A n \in Sem : c.vals[n] <= MaxSet)
                /\ result'[t] = IF c.num \in Sem THEN "ERANGE" ELSE "EINVAL"
            BY <1>0, <1>3, <2>3, <4>2 DEF CtlSetAll, CtlSet, Goto, Finish, TypeOK, file
          <5>2. Abs!InRange(c) <=> \A n \in Sem : c.vals[n] <= MaxSet
            BY <2>3, <5>1, CallShape, SizeAssumption DEF Abs!InRange, Abs!Sem, Sem
          <5> QED
            BY <5>1, <5>2
        <4> QED
          BY <2>5, <4>1, <4>2
      <3>2. Abs!Pending(t, {"SETVAL", "SETALL"})
        BY <2>2, <2>3, <3>1, StatusRead
      <3>3. \/ c.num \notin Sem /\ Abs!Become(t, "EINVAL")
            \/ c.num \in Sem /\ ~Abs!InRange(c) /\ Abs!Become(t, "ERANGE")
        BY <2>2, <3>1
      <3> QED
        BY <1>1, <2>1, <2>3, <3>1, <3>2, <3>3 DEF Abs!Control, Abs!Sem, Sem
    <2>6. ASSUME CtlRmid(t) PROVE Abs!Control(t)
      <3>1. c.kind = "IPC_RMID" /\ removed' = 1 /\ result'[t] = "ok"
        BY <1>0, <2>3, <2>6 DEF CtlRmid, TypeOK
      <3>2. Abs!Pending(t, {"IPC_RMID"}) /\ Abs!Become(t, "ok")
        BY <2>2, <2>3, <3>1, StatusRead
      <3> QED
        BY <1>1, <2>1, <3>1, <3>2 DEF Abs!Control
    <2> QED
      BY <2>4, <2>5, <2>6 DEF Abs!Next
  <1> QED
    BY <1>2, <1>3

\* What nobody outside sees: looking, waiting, waking.
LEMMA RefInside ==
  ASSUME RefInv, NEW t \in Thread,
         \/ ScanApply(t) \/ ScanWait(t) \/ UnlockWait(t) \/ FutexWait(t)
         \/ Timeout(t) \/ Interrupt(t) \/ Relock(t)
  PROVE  UNCHANGED Abs!vars
  <1>0. TypeOK
    BY DEF RefInv, SerialInv, TypeInv
  <1>1. /\ Others(t) /\ Undecided(t) /\ Undecided(t)' /\ UNCHANGED <<values, removed, call, snap>>
        /\ pc[t] # "write" /\ pc'[t] # "write"
    BY <1>0 DEF ScanApply, Scanning, ScanWait, UnlockWait, FutexWait, Timeout, Interrupt, Relock, Goto,
                file, local, TypeOK, Others, Undecided
  <1> QED
    BY <1>1, Quiet, StillPending

\* After the effect: the wake-up and the way out.
LEMMA RefOut ==
  ASSUME RefInv, NEW t \in Thread, Bump(t) \/ Unlock(t)
  PROVE  UNCHANGED Abs!vars
  <1>0. TypeOK
    BY DEF RefInv, SerialInv, TypeInv
  <1>1. /\ Others(t) /\ Decided(t) /\ Decided(t)' /\ result'[t] = result[t]
        /\ UNCHANGED <<values, removed, call, snap>>
        /\ pc[t] # "write" /\ pc'[t] # "write"
    BY <1>0 DEF Bump, Unlock, Goto, file, local, TypeOK, Others, Decided
  <1> QED
    BY <1>1, Quiet, StillDecided

LEMMA RefWake ==
  ASSUME RefInv, NEW t \in Thread, FutexWake(t)
  PROVE  UNCHANGED Abs!vars
  <1>0. TypeOK
    BY DEF RefInv, SerialInv, TypeInv
  <1>1. UNCHANGED <<values, removed, call, result, snap>>
    BY DEF FutexWake, file
  <1>3. Settled' = Settled
    <2>1. Writing' = Writing
      BY <1>0 DEF FutexWake, TypeOK, Writing
    <2> QED
      BY <1>1, <2>1, SettledStays
  <1>2. ASSUME NEW u \in Thread PROVE St(u)' = St(u)
    BY <1>0, <1>1 DEF FutexWake, TypeOK, St, Decided
  <1> QED
    BY <1>1, <1>2, <1>3, StatusStays

LEMMA RefClose ==
  ASSUME RefInv, NEW t \in Thread, Close(t)
  PROVE  Abs!Next
  <1>0. TypeOK
    BY DEF RefInv, SerialInv, TypeInv
  <1>1. Others(t) /\ pc[t] = "close" /\ pc'[t] = "idle" /\ UNCHANGED <<Settled, removed, call>>
    <2>1. /\ Others(t) /\ pc[t] = "close" /\ pc'[t] = "idle"
          /\ UNCHANGED <<values, removed, call, snap>>
      BY <1>0 DEF Close, Goto, TypeOK, Others, file, local
    <2> QED
      BY <2>1, Quiet
  <1>2. St(t) \notin {"idle", "pending", "dead"} /\ St(t)' = "idle"
    BY <1>0, <1>1 DEF St, Decided, TypeOK, Result
  <1>3. Abs!Become(t, "idle")
    BY <1>1, <1>2, OthersStay, StatusBecomes
  <1>4. Abs!Return(t)
    BY <1>1, <1>2, <1>3 DEF Abs!Return, St, Decided
  <1> QED
    BY <1>4 DEF Abs!Next

\* The lock: a semop on a set that is gone gives up here.
LEMMA RefLock ==
  ASSUME RefInv, NEW t \in Thread, Lock(t)
  PROVE  Abs!Next \/ UNCHANGED Abs!vars
  <1>0. TypeOK
    BY DEF RefInv, SerialInv, TypeInv
  <1>1. Others(t) /\ pc[t] = "lock" /\ UNCHANGED <<Settled, removed, call>>
    <2>1. /\ Others(t) /\ pc[t] = "lock" /\ pc'[t] # "write" /\ UNCHANGED <<values, removed, call>>
          /\ \A u \in Thread : u # t => snap'[u] = snap[u]
      BY <1>0 DEF Lock, Goto, Finish, TypeOK, Others, file
    <2> QED
      BY <2>1, Quiet
  <1>2. CASE call[t].kind = "op" /\ removed = 1
    <2>1. pc'[t] = "unlock" /\ "EIDRM" = result'[t]
      BY <1>0, <1>2 DEF Lock, Goto, Finish, TypeOK
    <2>2. St(t) = "pending" /\ Abs!Become(t, "EIDRM")
      <3>1. Undecided(t) /\ Decided(t)'
        BY <1>1, <2>1 DEF Undecided, Decided
      <3> QED
        BY <1>1, <2>1, <3>1, Decides
    <2>3. Abs!Pending(t, {"op"})
      BY <1>2, <2>2, StatusRead
    <2>4. Abs!GiveUp(t)
      BY <1>1, <1>2, <2>2, <2>3 DEF Abs!GiveUp
    <2> QED
      BY <2>4 DEF Abs!Next
  <1>3. CASE ~(call[t].kind = "op" /\ removed = 1)
    <2>1. Undecided(t) /\ Undecided(t)'
      BY <1>0, <1>1, <1>3 DEF Lock, Goto, TypeOK, Undecided
    <2> QED
      BY <1>1, <2>1, StillPending
  <1> QED
    BY <1>2, <1>3

\* A wait that ends by itself: with EAGAIN only when it was timed.
LEMMA RefRetry ==
  ASSUME RefInv, NEW t \in Thread, UnlockRetry(t)
  PROVE  Abs!Next \/ UNCHANGED Abs!vars
  <1>0. TypeOK /\ WaitEnded
    BY DEF RefInv, SerialInv, TypeInv
  <1>1. Others(t) /\ pc[t] = "unlockretry" /\ UNCHANGED <<Settled, removed, call>>
    <2>1. /\ Others(t) /\ pc[t] = "unlockretry" /\ pc'[t] # "write"
          /\ UNCHANGED <<values, removed, call, snap>>
      BY <1>0 DEF UnlockRetry, Goto, TypeOK, Others, file
    <2> QED
      BY <2>1, Quiet
  <1>2. CASE outcome[t] \in {"woken", "EAGAIN"}
    <2>1. Undecided(t) /\ Undecided(t)'
      BY <1>0, <1>1, <1>2 DEF UnlockRetry, Goto, TypeOK, Undecided
    <2> QED
      BY <1>1, <2>1, StillPending
  <1>3. CASE outcome[t] \notin {"woken", "EAGAIN"}
    <2>1. /\ pc'[t] = "close" /\ call[t].kind = "op"
          /\ \/ "EAGAIN" = result'[t] /\ call[t].timed
             \/ "EINTR" = result'[t]
      BY <1>0, <1>1, <1>3 DEF UnlockRetry, Goto, TypeOK, WaitEnded
    <2>2. Undecided(t) /\ Decided(t)'
      BY <1>1, <2>1 DEF Undecided, Decided
    <2>3. St(t) = "pending"
      BY <1>1 DEF St, Decided
    <2>4. \/ Abs!Become(t, "EAGAIN") /\ call[t].timed
          \/ Abs!Become(t, "EINTR")
      BY <1>1, <2>1, <2>2, Decides
    <2>5. Abs!Pending(t, {"op"})
      BY <2>1, <2>3, StatusRead
    <2>6. Abs!GiveUp(t)
      BY <1>1, <2>4, <2>5 DEF Abs!GiveUp
    <2> QED
      BY <2>6 DEF Abs!Next
  <1> QED
    BY <1>2, <1>3

\* A process that dies between its stores leaves those it has made.
LEMMA RefCrash ==
  ASSUME OneThreadPerProcess, RefInv, NEW p \in Process, Crash(p)
  PROVE  Abs!Next
  <1>0. TypeOK /\ WriteExact
    BY DEF RefInv, SerialInv, TypeInv
  <1>1. /\ UNCHANGED <<values, removed, call, result, snap>>
        /\ pc' = [t \in Thread |-> IF ProcOf[t] = p THEN "dead" ELSE pc[t]]
    BY DEF Crash, file, local
  <1>2. PICK D : D = {t \in Thread : ProcOf[t] = p}
    OBVIOUS
  <1>3. \A t \in Thread : St(t)' = IF t \in D THEN "dead" ELSE St(t)
    BY <1>1, <1>2 DEF St, Decided
  <1>4. D \in SUBSET Thread
    BY <1>2
  <1>5. CASE Writing \cap D = {}
    <2>1. Writing' = Writing
      BY <1>1, <1>2, <1>5 DEF Writing
    <2>2. Settled' = Settled
      BY <1>1, <2>1, SettledStays
    <2> QED
      BY <1>1, <1>3, <1>4, <2>2 DEF Abs!Next, Abs!Die, St, Decided
  <1>6. CASE Writing \cap D # {}
    <2>1. PICK t \in D : t \in Thread /\ pc[t] = "write"
      BY <1>6 DEF Writing
    <2>2. Writing = {t} /\ Settled = snap[t] /\ Abs!CanWrite(t)
      BY <2>1, NobodyElse, WriterCan DEF Critical
    <2>3. Writing' = {}
      BY <1>1, <1>2, <2>1, <2>2 DEF Writing
    <2>4. PICK part : part = {n \in Sem : <<"value", n>> \notin todo[t]}
      OBVIOUS
    <2>5. /\ copy[t] = Abs!Effect(Settled, call[t])
          /\ \A n \in Sem : values[n] = IF n \in part THEN copy[t][n] ELSE Settled[n]
      BY <1>0, <2>1, <2>2, <2>4 DEF WriteExact
    <2>6. Settled' = values
      BY <1>1, <2>3 DEF Settled
    <2>7. values = [n \in Sem |-> IF n \in part THEN Abs!Effect(Settled, call[t])[n]
                                  ELSE Settled[n]]
      BY <1>0, <2>5 DEF TypeOK
    <2>8. part \in SUBSET Sem
      BY <2>4
    <2> QED
      BY <1>1, <1>3, <1>4, <2>1, <2>2, <2>6, <2>7, <2>8 DEF Abs!Next, Abs!Die, Abs!Sem, Sem, St, Decided
  <1> QED
    BY <1>5, <1>6

\* The call is atomic: the lock, the scan, the stores, the sequence and the
\* futex together implement AbstractSem.  Every semop that returns success has
\* performed all its operations at one instant, between its invocation and
\* its return, and every one that failed has left no trace.  A process that
\* dies between two stores of a write leaves part of it: that one case is
\* AbstractSem's Die, and no other step of any thread has part of an effect.
THEOREM CallsAreAtomic == OneThreadPerProcess => (Spec => ImplementsAbstractSem)
  <1> SUFFICES ASSUME OneThreadPerProcess PROVE Spec => ImplementsAbstractSem
    OBVIOUS
  <1>1. Init => RefInv /\ Abs!Init
    <2> SUFFICES ASSUME Init PROVE RefInv /\ Abs!Init
      OBVIOUS
    <2>1. TypeInv
      BY TypeInit
    <2>2. LockHeld /\ OperationSetsSerialized /\ ScanExact /\ WriteExact /\ WaitEnded
      BY DEF Init, LockHeld, OperationSetsSerialized, ScanExact, WriteExact, WaitEnded, Critical
    <2>3. Abs!Init
      <3>1. Settled = values
        BY DEF Init, Settled, Writing
      <3> QED
        BY <3>1 DEF Init, Abs!Init, Abs!Sem, Sem, Decided
    <2> QED
      BY <2>1, <2>2, <2>3 DEF RefInv, SerialInv
  <1>2. RefInv /\ [Next]_vars => RefInv'
    BY SerialStep, ScanStep, WriteStep, WaitEndedStep DEF RefInv
  <1>3. RefInv /\ [Next]_vars => [Abs!Next]_(Abs!vars)
    <2> SUFFICES ASSUME RefInv, [Next]_vars PROVE Abs!Next \/ UNCHANGED Abs!vars
      OBVIOUS
    <2>1. CASE UNCHANGED vars
      BY <2>1 DEF vars, file, local, Abs!vars, Decided, Settled, Writing
    <2>2. ASSUME NEW t \in Thread, NEW c \in Calls, StartCall(t, c) PROVE Abs!Next
      BY <2>2, RefInvoke DEF RefInv, SerialInv, TypeInv
    <2>3. ASSUME NEW t \in Thread, Step(t) \/ Timeout(t) \/ Interrupt(t)
          PROVE  Abs!Next \/ UNCHANGED Abs!vars
      <3>1. TypeOK'
        BY TypeStep DEF RefInv, SerialInv, TypeInv
      <3> QED
        BY <2>3, <3>1, RefScanFail, RefCommit, RefStore, RefControl, RefInside, RefOut, RefWake,
           RefClose, RefLock, RefRetry DEF Step
    <2> QED
      BY <2>1, <2>2, <2>3, RefCrash DEF Next
  <1> QED
    BY <1>1, <1>2, <1>3, PTL DEF Spec, ImplementsAbstractSem, Abs!Spec

=============================================================================

---------------------------- MODULE AbstractSem ----------------------------
(***************************************************************************)
(* What the semaphore calls promise their callers: each call takes effect   *)
(* at one instant between its invocation and its return.  A semop performs  *)
(* all its operations or none, never on a removed set, and fails only for a *)
(* reason that holds at that instant.  Only the death of its process may    *)
(* leave part of an effect.  There is no file, lock, sequence or futex.     *)
(***************************************************************************)
EXTENDS Integers, Sequences

CONSTANTS Thread, NSems, Calls, NoCall, MaxSet

VARIABLES values, removed,  \* the set
          req,              \* [Thread -> Calls \cup {NoCall}]
          status            \* "idle", "pending", "dead", or what is returned

vars == <<values, removed, req, status>>

Sem == 0 .. NSems - 1

\* The values after the first k operations, each applied to the values the
\* ones before it left.
After(vals, ops) ==
  LET f[k \in 0 .. Len(ops)] ==
        IF k = 0 THEN vals ELSE [f[k-1] EXCEPT ![ops[k].num] = @ + ops[k].op]
  IN  f

Valid(o) == o.num \in Sem /\ ~o.undo

CanApply(o, vals) == IF o.op = 0 THEN vals[o.num] = 0 ELSE vals[o.num] + o.op >= 0

\* The first operation of a set that cannot be applied, 0 when there is none.
Obstacle(vals, ops) ==
  LET f == After(vals, ops)
      bad(k) == ~Valid(ops[k]) \/ ~CanApply(ops[k], f[k-1])
  IN  IF \E k \in 1 .. Len(ops) : bad(k)
        THEN CHOOSE k \in 1 .. Len(ops) : bad(k) /\ \A j \in 1 .. k-1 : ~bad(j)
        ELSE 0

Possible(vals, ops) == Obstacle(vals, ops) = 0

-----------------------------------------------------------------------------
Init == /\ values = [n \in Sem |-> 0]
        /\ removed = 0
        /\ req = [t \in Thread |-> NoCall]
        /\ status = [t \in Thread |-> "idle"]

Become(t, s) == status' = [status EXCEPT ![t] = s]

Pending(t, kinds) == status[t] = "pending" /\ req[t].kind \in kinds

\* A set that is gone is refused at once, and so is an empty request.
Invoke(t, c) ==
  /\ status[t] = "idle"
  /\ req' = [req EXCEPT ![t] = c]
  /\ \/ Become(t, "pending")
     \/ removed = 1 /\ Become(t, "EINVAL")
     \/ c.kind = "op" /\ c.ops = <<>> /\ UNCHANGED status
  /\ UNCHANGED <<values, removed>>

InRange(c) == IF c.kind = "SETVAL" THEN c.val \in 0 .. MaxSet
              ELSE \A n \in Sem : c.vals[n] \in 0 .. MaxSet

\* The call of t may write now, and what the values are then.  A SETVAL or
\* SETALL may reach a set that was removed after the call began.
CanWrite(t) ==
  \/ Pending(t, {"op"}) /\ removed = 0 /\ Possible(values, req[t].ops)
  \/ Pending(t, {"SETVAL", "SETALL"}) /\ req[t].num \in Sem /\ InRange(req[t])

Effect(vals, c) == CASE c.kind = "op" -> After(vals, c.ops)[Len(c.ops)]
                     [] c.kind = "SETALL" -> c.vals
                     [] c.kind = "SETVAL" -> [vals EXCEPT ![c.num] = c.val]

\* All operations at once.
Perform(t) ==
  /\ CanWrite(t)
  /\ values' = Effect(values, req[t])
  /\ Become(t, "ok")
  /\ UNCHANGED <<removed, req>>

\* A semop fails without effect, and with the errno that says why.
GiveUp(t) ==
  /\ Pending(t, {"op"})
  /\ LET k == Obstacle(values, req[t].ops)
         o == req[t].ops[k]
     IN  \/ removed = 1 /\ Become(t, "EIDRM")
         \/ req[t].timed /\ Become(t, "EAGAIN")
         \/ Become(t, "EINTR")
         \/ /\ removed = 0 /\ k # 0
            /\ \/ o.num \notin Sem /\ Become(t, "EFBIG")
               \/ o.num \in Sem /\ o.undo /\ Become(t, "ENOTSUP")
               \/ Valid(o) /\ o.nowait /\ Become(t, "EAGAIN")
  /\ UNCHANGED <<values, removed, req>>

\* The other ends of semctl commands.  They may reach a removed set, too.
Control(t) ==
  /\ \/ /\ Pending(t, {"GET"})
        /\ Become(t, IF req[t].num \in Sem THEN "ok" ELSE "EINVAL")
        /\ UNCHANGED removed
     \/ /\ Pending(t, {"SETVAL", "SETALL"})
        /\ \/ req[t].num \notin Sem /\ Become(t, "EINVAL")
           \/ req[t].num \in Sem /\ ~InRange(req[t]) /\ Become(t, "ERANGE")
        /\ UNCHANGED removed
     \/ /\ Pending(t, {"IPC_RMID"})
        /\ removed' = 1
        /\ Become(t, "ok")
  /\ UNCHANGED <<values, req>>

Return(t) == /\ status[t] \notin {"idle", "pending", "dead"}
             /\ Become(t, "idle")
             /\ UNCHANGED <<values, removed, req>>

\* Any number of threads die with their process.  If one of them was about to
\* write, some semaphores may have their new value and some the old one.
Die == /\ \E D \in SUBSET Thread :
            /\ status' = [t \in Thread |-> IF t \in D THEN "dead" ELSE status[t]]
            /\ \/ UNCHANGED values
               \/ \E t \in D, part \in SUBSET Sem :
                    /\ CanWrite(t)
                    /\ values' = [n \in Sem |-> IF n \in part THEN Effect(values, req[t])[n]
                                                ELSE values[n]]
       /\ UNCHANGED <<removed, req>>

Next == \/ \E t \in Thread : \/ \E c \in Calls : Invoke(t, c)
                             \/ Perform(t) \/ GiveUp(t) \/ Control(t) \/ Return(t)
        \/ Die

Spec == Init /\ [][Next]_vars
=============================================================================

---------------------------- MODULE MCXDispatch ----------------------------
(* Instances of XDispatch for TLC. *)
EXTENDS XDispatch

CONSTANTS k1, f1, a1

Op(o) == [op |-> o]
On(o, i) == [op |-> o, id |-> i]
Rises(v) == [counter |-> k1, test |-> "PositiveTransition", wait |-> v,
             relative |-> TRUE]

NewCounter == [op |-> "CreateCounter", id |-> k1, value |-> 0]
Set(v) == [op |-> "SetCounter", id |-> k1, value |-> v]
Add(v) == [op |-> "ChangeCounter", id |-> k1, value |-> v]
AwaitCounter(t) == [op |-> "Await", triggers |-> {t}]
NewFence == [op |-> "CreateFence", id |-> f1, triggered |-> FALSE]
AwaitFence == [op |-> "AwaitFence", fences |-> {f1}]
NewAlarm1(w, d) == [op |-> "CreateAlarm", id |-> a1,
  attributes |-> [counter |-> k1, wait |-> w, delta |-> d]]
MoveAlarm == [op |-> "ChangeAlarm", id |-> a1, attributes |-> [wait |-> 1, relative |-> TRUE]]

Symmetry == Permutations(Client)

RequestsGrab == {Op("Query"), Op("GrabServer"), Op("UngrabServer")}

\* Parked clients and grabs.
RequestsFence == {NewFence, AwaitFence, On("TriggerFence", f1), On("ResetFence", f1),
                  On("PresentPixmap", f1), On("DestroyFence", f1), Op("GrabServer"), Op("UngrabServer")}

RequestsAlarm == {NewCounter, Set(2), Add(-1), AwaitCounter(Rises(1)),
                  NewAlarm1(1, 0), NewAlarm1(1, 1),
                  MoveAlarm, On("DestroyCounter", k1), On("DestroyAlarm", a1)}

Session(requests, maxClients, maxBatch, maxHangUps) ==
  [requests |-> requests, maxClients |-> maxClients, maxBatch |-> maxBatch,
   maxHangUps |-> maxHangUps]
SessionsAll == {Session(RequestsGrab, 3, 2, 1), Session(RequestsFence, 2, 1, 0),
                Session(RequestsAlarm, 2, 1, 1)}
=============================================================================

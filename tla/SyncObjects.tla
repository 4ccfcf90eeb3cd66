---------------------------- MODULE SyncObjects ----------------------------
(***************************************************************************)
(* The objects of the SYNC extension and the tests on them                  *)
(* (xserver/extensions/SyncExtension.java): counters, alarms and fences     *)
(* under one name space of ids, and the triggers clients wait for.          *)
(* `objects' maps every id to its object or to NoObject.                    *)
(***************************************************************************)
EXTENDS Integers

NoObject == [kind |-> "none"]

IsKind(objects, id, kind) == objects[id].kind = kind

idBusy(objects, id) == ~IsKind(objects, id, "none")

Counter(client, v) == [kind |-> "counter", owner |-> client, previous |-> v, value |-> v]

Fence(triggered) == [kind |-> "fence", triggered |-> triggered]

\* The four test types, and all other values, which no counter satisfies.
Tests == {"PositiveTransition", "NegativeTransition",
          "PositiveComparison", "NegativeComparison", "undefined"}

\* counter.previous and counter.value are set together.
Assign(counter, v) == [counter EXCEPT !.previous = counter.value, !.value = v]

\* Transitions look at the last change of the counter, comparisons at its
\* value; a counter that is gone satisfies nothing.
counterSatisfied(objects, t) ==
  /\ IsKind(objects, t.counter, "counter")
  /\ LET c == objects[t.counter]
     IN  CASE t.test = "PositiveTransition" -> c.previous < t.wait /\ c.value >= t.wait
           [] t.test = "NegativeTransition" -> c.previous > t.wait /\ c.value <= t.wait
           [] t.test = "PositiveComparison" -> c.value >= t.wait
           [] t.test = "NegativeComparison" -> c.value <= t.wait
          [] OTHER -> FALSE

\* A trigger as a request states it, with a relative value resolved.
Resolve(objects, t) ==
  [counter |-> t.counter, test |-> t.test,
   wait |-> IF t.relative /\ IsKind(objects, t.counter, "counter")
              THEN objects[t.counter].value + t.wait ELSE t.wait]

\* The waiter's counters or fences: one that is satisfied is enough.
waiterReady(objects, w) ==
  \/ \E t \in w.triggers : counterSatisfied(objects, t)
  \/ \E f \in w.fences : IsKind(objects, f, "fence") /\ objects[f].triggered

-----------------------------------------------------------------------------
(* Alarms *)

NewAlarm(client) ==
  [kind |-> "alarm", owner |-> client, counter |-> NoObject, wait |-> 0,
   test |-> "PositiveComparison", delta |-> 0, inactive |-> FALSE,
   orphan |-> FALSE]

\* attributes is a function from some of counter, relative, wait, test and
\* delta, as the value mask selects them.  orphan is history: the counter did
\* not exist when the alarm was last set up, or was destroyed since.
applyAlarmMask(objects, alarm, attributes) ==
  LET a == [f \in DOMAIN alarm |->
              IF f \in DOMAIN attributes THEN attributes[f] ELSE alarm[f]]
      relative == "relative" \in DOMAIN attributes
  IN  [a EXCEPT !.orphan = ~IsKind(objects, a.counter, "counter"),
         !.wait = IF relative /\ IsKind(objects, a.counter, "counter")
                    THEN objects[a.counter].value + a.wait ELSE a.wait]

\* Mutant of fireAlarm: an alarm with a delta stays active even when the
\* counter is already past the next value.
FireAlarmOnce(objects, a) ==
  IF a.inactive \/ ~counterSatisfied(objects, a) THEN a
  ELSE [a EXCEPT !.wait = a.wait + a.delta, !.inactive = (a.delta = 0)]

\* AlarmNotify is sent, the wait value advances by delta once, and an alarm
\* that is satisfied again goes to sleep.
fireAlarm(objects, a) ==
  IF a.inactive \/ ~counterSatisfied(objects, a) THEN a
  ELSE LET next == [a EXCEPT !.wait = a.wait + a.delta]
       IN  [next EXCEPT !.inactive =
              (a.delta = 0 \/ counterSatisfied(objects, next))]

fireAlarms(objects) ==
  [id \in DOMAIN objects |->
     IF IsKind(objects, id, "alarm") THEN fireAlarm(objects, objects[id])
     ELSE objects[id]]
=============================================================================

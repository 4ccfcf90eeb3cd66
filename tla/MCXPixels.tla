----------------------------- MODULE MCXPixels -----------------------------
(* Instances of XPixels for TLC: a window w and a pixmap p, three pixels. *)
EXTENDS XPixels

CONSTANTS w, p

Ranges == {a .. b : a \in 0 .. Width - 1, b \in 0 .. Width - 1} \ {{}}
Some == (SUBSET (0 .. Width - 1)) \ {{}}   \* the pixels of several rectangles

One(op, rs) == {[op |-> op, d |-> d, r |-> r] : d \in {w, p}, r \in rs}
Two(op, rs) == {[op |-> op, d |-> d, s |-> s, r |-> r] : d \in {w}, s \in {p}, r \in rs}

RequestsDraw == One("Fill", Some) \cup Two("Copy", Ranges) \cup Two("Over", Ranges)
  \cup One("Line", Ranges) \cup One("Put", Ranges) \cup One("Get", Ranges)
  \cup Two("Present", {{0}})

SlowFill == {[op |-> "Fill", d |-> p, r |-> 0 .. Width - 1]}
LaterDraw == {q \in RequestsDraw : q.r = 0 .. 0 /\ q.op \in {"Copy", "Get"}}
None == {}

RequestsMap == One("Fill", {{0}}) \cup One("Map", {{}})

RequestsPresent == Two("Present", {{0}}) \cup One("Fill", {{0}})
ParkedBlends == Two("Over", {{0}})
ParkedLines == One("Line", {{0}})
=============================================================================

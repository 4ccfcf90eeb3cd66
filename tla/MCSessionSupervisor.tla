------------------------ MODULE MCSessionSupervisor ------------------------
(* Instances of SessionSupervisor for TLC: a primary and three descendants, *)
(* one of which ignores TERM.                                               *)
EXTENDS SessionSupervisor
=============================================================================

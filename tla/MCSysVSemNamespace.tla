------------------------- MODULE MCSysVSemNamespace -------------------------
(* Instances of SysVSemNamespace for TLC. *)
EXTENDS SysVSemNamespace

CONSTANT k1

Ask(k, c, x) == [key |-> k, nsems |-> 1, creat |-> c, excl |-> x]

Find == [Ask(k1, FALSE, FALSE) EXCEPT !.nsems = 0]
Create == Ask(k1, TRUE, FALSE)
CreateNew == Ask(k1, TRUE, TRUE)
Private == Ask(IPC_PRIVATE, TRUE, FALSE)

RequestsAll == {Find, Create, CreateNew, Private}
=============================================================================

------------------------------ MODULE MCSysVShm ------------------------------
(* Instances of SysVShm for TLC: two processes with neighbouring pids. *)
EXTENDS SysVShm, TLC
CONSTANTS p1, p2
Pids == (p1 :> 0) @@ (p2 :> 1)

Session(procs, ops, maxMemories, maxAttaches) ==
  [procs |-> procs, ops |-> ops, maxMemories |-> maxMemories, maxAttaches |-> maxAttaches]
AllSessions == {Session({p1}, {"Exit"}, 3, 3), Session({p1, p2}, {"Exit"}, 2, 3),
                Session({p1}, {"Fork", "Exit"}, 2, 2), Session({p1}, {"Exec"}, 2, 3)}
=============================================================================

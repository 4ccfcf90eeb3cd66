------------------------- MODULE SessionSupervisor -------------------------
(***************************************************************************)
(* native/executor/bionicx-exec.c: the process that hands an application    *)
(* over to the glibc loader and then supervises its display session.        *)
(*                                                                          *)
(* The supervisor forks the primary process, follows it with ptrace across  *)
(* the exec boundary, detaches, installs its shutdown handlers and then     *)
(* reaps every descendant, which Linux re-parents to it because it is a     *)
(* child subreaper.  A TERM from the Activity may arrive at any moment.     *)
(* The processes of the session fork, exit, detach and may ignore TERM.     *)
(***************************************************************************)
EXTENDS Naturals, FiniteSets

CONSTANTS
  Proc,         \* processes of the session
  Primary,      \* the one the supervisor forks
  Stubborn,     \* those that ignore SIGTERM
  Supervisor, InitProcess,
  MaxAttempts,  \* rounds of TERM before KILL (40 in the code)
  MaxSignals    \* bound: TERMs sent by the Activity

ASSUME SessionAssumption ==
  /\ Primary \in Proc
  /\ Stubborn \subseteq Proc
  /\ Supervisor \notin Proc /\ InitProcess \notin Proc
  /\ Supervisor # InitProcess
  /\ MaxAttempts \in Nat /\ MaxSignals \in Nat

VARIABLES
  sup,           \* where the supervisor is
  shutdown,      \* shutdown_signal # 0
  st,            \* [Proc -> {"unborn", "running", "zombie", "gone"}]
  parent,        \* [Proc -> Proc \cup {Supervisor, InitProcess}]
  boot,          \* how far the primary has come before it runs freely
  term,          \* the running processes that have a TERM to obey
  attempt,       \* loop counter of terminate_session
  primaryExited, \* local of supervise_session
  code,          \* what the supervisor returned with
  signals        \* bounded counter

procs == <<st, parent, boot, term>>
vars == <<sup, shutdown, procs, attempt, primaryExited, code, signals>>

\* The order of main(): each place is before the call it names.
Handoff == {"fork", "setpgid", "initialstop", "exec", "probe", "retry",
            "detach", "handlers"}
Ended == {"returned", "killed"}

\* `boot' is "new", "armed", "sigstop", "setup", "execstop", "stepping" and at
\* last "free".  From "armed" on PR_SET_PDEATHSIG is in force; "trap", "segv"
\* and "other" are the stops of the single-stepped loader.

Running(p) == st[p] = "running"
Alive == {p \in Proc : Running(p)}
ChildrenOf(q) == {p \in Proc : st[p] \in {"running", "zombie"} /\ parent[p] = q}

\* Mutant of Reaper: PR_SET_CHILD_SUBREAPER is not requested.
ReaperIsInit == InitProcess

\* Exit of the processes in D: their children go to the supervisor while it
\* lives, to init otherwise; what init inherits is reaped at once.
Reaper == IF sup \in Ended THEN InitProcess ELSE Supervisor

Die(D) ==
  LET orphan(p) == p \notin D /\ parent[p] \in D
      mother(p) == IF orphan(p) \/ (p \in D /\ parent[p] \in D)
                     THEN Reaper ELSE parent[p]
  IN  /\ parent' = [p \in Proc |-> mother(p)]
      /\ st' = [p \in Proc |-> IF p \in D
                                 THEN IF mother(p) = InitProcess THEN "gone" ELSE "zombie"
                                 ELSE IF st[p] = "zombie" /\ mother(p) = InitProcess
                                 THEN "gone" ELSE st[p]]
      /\ term' = term \ D

Init ==
  /\ sup = "fork"
  /\ shutdown = FALSE
  /\ st = [p \in Proc |-> "unborn"]
  /\ parent = [p \in Proc |-> Supervisor]
  /\ boot = "new"
  /\ term = {}
  /\ attempt = 0
  /\ primaryExited = FALSE
  /\ code = "none"
  /\ signals = 0

-----------------------------------------------------------------------------
(* The end of the supervisor, by return or by a signal it does not handle.  *)

\* Mutant of Armed: the death signal is only set at exec.
ArmedByExec == boot \notin {"new", "armed", "sigstop", "setup"}

\* The kernel kills the primary when its parent dies, once it has asked for it.
Armed == boot # "new"

\* K is what the supervisor itself kills on its way out.
EndKilling(how, c, K) ==
  LET killed == {p \in Alive : p \in K \/ (p = Primary /\ Armed)}
      heir(p) == IF parent[p] \in {Supervisor} \cup killed
                   THEN InitProcess ELSE parent[p]
  IN  /\ sup' = how
      /\ code' = c
      /\ parent' = [p \in Proc |-> heir(p)]
      /\ st' = [p \in Proc |->
                  IF p \notin killed /\ st[p] # "zombie" THEN st[p]
                  ELSE IF heir(p) = InitProcess THEN "gone" ELSE "zombie"]
      /\ term' = term \ killed
      /\ UNCHANGED <<shutdown, boot, attempt, primaryExited>>

End(how, c) == EndKilling(how, c, {})

-----------------------------------------------------------------------------
(* main: the handoff *)

Move(from, to) ==
  /\ sup = from /\ sup' = to
  /\ UNCHANGED <<shutdown, attempt, primaryExited, code, signals>>

Fork ==
  /\ Move("fork", "setpgid")
  /\ st' = [st EXCEPT ![Primary] = "running"]
  /\ UNCHANGED <<parent, boot, term>>

Setpgid == Move("setpgid", "initialstop") /\ UNCHANGED procs

\* setpgid fails: the child is killed.
SetpgidFails ==
  /\ sup = "setpgid"
  /\ EndKilling("returned", "handoff failed", {Primary})
  /\ UNCHANGED signals

\* wait_for_stop returns when the child stops, or when it is gone.
ChildStopped(stops) == Running(Primary) /\ boot \in stops
ChildExited == st[Primary] = "zombie"

WaitInitialStop ==
  /\ ChildStopped({"sigstop"})
  /\ Move("initialstop", "exec")
  /\ boot' = "setup"
  /\ UNCHANGED <<st, parent, term>>

\* PTRACE_EVENT_EXEC, then the first PTRACE_SINGLESTEP.
WaitExec ==
  /\ ChildStopped({"execstop"})
  /\ Move("exec", "probe")
  /\ boot' = "stepping"
  /\ UNCHANGED <<st, parent, term>>

\* One synthetic SIGSEGV is suppressed by stepping again.
WaitProbe ==
  /\ \/ ChildStopped({"trap"}) /\ Move("probe", "detach") /\ UNCHANGED boot
     \/ ChildStopped({"segv"}) /\ Move("probe", "retry") /\ boot' = "stepping"
     \/ ChildStopped({"trap"}) /\ Move("retry", "detach") /\ UNCHANGED boot
  /\ UNCHANGED <<st, parent, term>>

\* The early returns of main: the child is gone or stops for another reason
\* (3, 6, 8, 11, 12), or a ptrace request fails (4, 5, 7, 9, 10, 13).
HandoffFails ==
  /\ \/ sup \in {"initialstop", "exec", "probe", "retry"} /\ ChildExited
     \/ sup = "probe" /\ ChildStopped({"other"})
     \/ sup = "retry" /\ ChildStopped({"segv", "other"})
     \/ sup \in {"initialstop", "exec", "probe", "retry", "detach"}
        /\ ChildStopped({"sigstop", "execstop", "segv", "trap"})
  /\ End("returned", "handoff failed")
  /\ UNCHANGED signals

Detach ==
  /\ Move("detach", "handlers")
  /\ boot' = "free"
  /\ UNCHANGED <<st, parent, term>>

InstallHandlers == Move("handlers", "user") /\ UNCHANGED procs

\* sigaction fails: the child's process group is killed, with whoever has
\* not left it.
HandlersFail ==
  /\ sup = "handlers"
  /\ \E K \in SUBSET Alive : EndKilling("returned", "handoff failed", K \cup {Primary})
  /\ UNCHANGED signals

-----------------------------------------------------------------------------
(* The primary up to its exec *)

BootStep(from, to) ==
  /\ Running(Primary) /\ boot = from /\ boot' = to
  /\ UNCHANGED <<sup, shutdown, st, parent, term, attempt, primaryExited, code,
                 signals>>

\* prctl(PR_SET_PDEATHSIG) and then getppid() == 1: in this order, a parent
\* that is already dead is noticed and one that dies later kills.
Arm == BootStep("new", "armed")

CheckParent ==
  /\ parent[Primary] # InitProcess
  /\ BootStep("armed", "sigstop")

ParentGone ==
  /\ Running(Primary) /\ boot = "armed" /\ parent[Primary] = InitProcess
  /\ Die({Primary})
  /\ UNCHANGED <<sup, shutdown, boot, attempt, primaryExited, code, signals>>

\* configure_child and execv, which may fail (exit 121, 126, 127).
Exec == BootStep("setup", "execstop")
ExecFails ==
  /\ Running(Primary) /\ boot = "setup"
  /\ Die({Primary})
  /\ UNCHANGED <<sup, shutdown, boot, attempt, primaryExited, code, signals>>

\* The loader's first instruction traps, faults or meets another signal.
LoaderStep == \E s \in {"trap", "segv", "other"} : BootStep("stepping", s)

-----------------------------------------------------------------------------
(* The session's processes *)

Free(p) == Running(p) /\ (p = Primary => boot = "free")

Spawn(p, q) ==
  /\ Free(p) /\ st[q] = "unborn" /\ q # Primary
  /\ st' = [st EXCEPT ![q] = "running"]
  /\ parent' = [parent EXCEPT ![q] = p]
  /\ UNCHANGED <<sup, shutdown, boot, term, attempt, primaryExited, code, signals>>

Exit(p) ==
  /\ Free(p)
  /\ Die({p})
  /\ UNCHANGED <<sup, shutdown, boot, attempt, primaryExited, code, signals>>

\* A process that does not ignore TERM obeys it in its own time.
ObeyTerm(p) ==
  /\ p \in term \ Stubborn
  /\ Exit(p)

\* A parent other than the supervisor waits for its own child.
ReapOwn(p) ==
  /\ st[p] = "zombie" /\ parent[p] # Supervisor
  /\ st' = [st EXCEPT ![p] = "gone"]
  /\ UNCHANGED <<sup, shutdown, parent, boot, term, attempt, primaryExited, code,
                 signals>>

-----------------------------------------------------------------------------
(* TERM from the Activity *)

\* Before the handlers are installed the default action applies.
TermKills ==
  /\ sup \in Handoff
  /\ signals < MaxSignals /\ signals' = signals + 1
  /\ End("killed", "SIGTERM")

\* The handler only sets a flag; waitpid returns EINTR if the supervisor was
\* blocked in it, and a zombie that is there is reaped first.
TermFlags ==
  /\ sup \notin Handoff \cup Ended
  /\ signals < MaxSignals /\ signals' = signals + 1
  /\ shutdown' = TRUE
  /\ \/ sup = "blocked" /\ sup' = "eintr"
     \/ sup # "blocked" /\ UNCHANGED sup
     \/ sup = "blocked" /\ ChildrenOf(Supervisor) \cap {p \in Proc : st[p] = "zombie"} # {}
        /\ UNCHANGED sup
  /\ UNCHANGED <<procs, attempt, primaryExited, code>>

-----------------------------------------------------------------------------
(* supervise_session *)

\* waitpid(-1, &status, 0) is entered.
EnterWait == Move("user", "blocked") /\ UNCHANGED procs

\* Mutant of Reap: waitpid(primary) instead of waitpid(-1).
ReapPrimaryOnly(p) ==
  /\ sup = "blocked" /\ p = Primary /\ st[p] = "zombie"
  /\ sup' = "user"
  /\ st' = [st EXCEPT ![p] = "gone"]
  /\ primaryExited' = TRUE
  /\ UNCHANGED <<shutdown, parent, boot, term, attempt, code, signals>>

\* waitpid returns a child.
Reap(p) ==
  /\ sup = "blocked"
  /\ p \in ChildrenOf(Supervisor) /\ st[p] = "zombie"
  /\ sup' = "user"
  /\ st' = [st EXCEPT ![p] = "gone"]
  /\ primaryExited' = (primaryExited \/ p = Primary)
  /\ UNCHANGED <<shutdown, parent, boot, term, attempt, code, signals>>

\* ECHILD: the session is drained.
Drained ==
  /\ sup = "blocked"
  /\ ChildrenOf(Supervisor) = {}
  /\ End("returned", IF primaryExited THEN "primary status" ELSE "wait failed")
  /\ UNCHANGED signals

\* shutdown_signal is looked at here and nowhere else.
Interrupted ==
  /\ Move("eintr", IF shutdown THEN "term" ELSE "user")
  /\ UNCHANGED procs

-----------------------------------------------------------------------------
(* terminate_session *)

\* signal_session(SIGTERM): the process group and everyone of the UID.
TermAll(from, to) ==
  /\ sup = from /\ sup' = to
  /\ term' = Alive
  /\ UNCHANGED <<shutdown, st, parent, boot, primaryExited, code, signals>>

FirstTerm == TermAll("term", "reap") /\ UNCHANGED attempt

\* reap_and_check_empty: collect what is there; return when nobody is left.
ReapAll ==
  /\ sup = "reap"
  /\ LET left == ChildrenOf(Supervisor) \cap Alive
         collected == ChildrenOf(Supervisor) \ left
     IN  IF left = {}
           THEN /\ End("returned", "signal")
           ELSE /\ st' = [p \in Proc |-> IF p \in collected THEN "gone" ELSE st[p]]
                /\ sup' = "again"
                /\ UNCHANGED <<shutdown, parent, boot, term, attempt,
                               primaryExited, code>>
  /\ UNCHANGED signals

\* TERM again, nanosleep, next attempt.
TermAgain ==
  /\ TermAll("again", IF attempt + 1 < MaxAttempts THEN "reap" ELSE "kill")
  /\ attempt' = attempt + 1

\* Mutant of KillAll: only the primary's process group, which detached
\* processes have left.
KillGroup ==
  /\ sup = "kill" /\ sup' = "drain"
  /\ Die(Alive \cap {Primary})
  /\ UNCHANGED <<shutdown, boot, attempt, primaryExited, code, signals>>

\* signal_session(SIGKILL): nobody survives kill(-1, SIGKILL).
KillAll ==
  /\ sup = "kill" /\ sup' = "drain"
  /\ Die(Alive)
  /\ UNCHANGED <<shutdown, boot, attempt, primaryExited, code, signals>>

DrainOne(p) ==
  /\ sup = "drain"
  /\ p \in ChildrenOf(Supervisor) /\ st[p] = "zombie"
  /\ st' = [st EXCEPT ![p] = "gone"]
  /\ UNCHANGED <<sup, shutdown, parent, boot, term, attempt, primaryExited, code,
                 signals>>

DrainEmpty ==
  /\ sup = "drain" /\ ChildrenOf(Supervisor) = {}
  /\ End("returned", "signal")
  /\ UNCHANGED signals

-----------------------------------------------------------------------------
SupervisorStep ==
  \/ Fork \/ Setpgid \/ WaitInitialStop \/ WaitExec \/ WaitProbe
  \/ SetpgidFails \/ HandoffFails \/ Detach \/ InstallHandlers \/ HandlersFail
  \/ EnterWait \/ Drained \/ Interrupted
  \/ (\E p \in Proc : Reap(p) \/ DrainOne(p))
  \/ FirstTerm \/ ReapAll \/ TermAgain \/ KillAll \/ DrainEmpty

PrimaryBoots == Arm \/ CheckParent \/ ParentGone \/ Exec \/ ExecFails \/ LoaderStep

Next ==
  \/ SupervisorStep
  \/ PrimaryBoots
  \/ \E p \in Proc : Exit(p) \/ ObeyTerm(p) \/ ReapOwn(p) \/ \E q \in Proc : Spawn(p, q)
  \/ TermKills \/ TermFlags

Spec == Init /\ [][Next]_vars

\* The kernel schedules the supervisor and the booting primary, and a process
\* that does not ignore TERM obeys it.  Nothing else has to happen: processes
\* need not exit by themselves, and no TERM need be sent.
FairSpec == /\ Spec
            /\ WF_vars(SupervisorStep)
            /\ WF_vars(PrimaryBoots)
            /\ \A p \in Proc : WF_vars(ObeyTerm(p))

-----------------------------------------------------------------------------
(* Properties *)

\* "the executor remains until every adopted descendant exits"
\* (docs/ARCHITECTURE.md:80): when the supervisor returns from supervising,
\* whether it drained or terminated the session, nobody of it is left, and
\* the primary was told apart from whoever died before or after it.
ReturnsAfterEverybody ==
  sup = "returned" /\ code # "handoff failed"
    => code # "wait failed" /\ \A p \in Proc : st[p] \in {"unborn", "gone"}

\* terminate_session comes to an end, whoever ignores TERM or keeps forking.
TerminationEnds == sup = "term" ~> sup = "returned"

\* A session whose processes have all exited is given back.
DrainEnds ==
  (sup \notin Handoff /\ Alive = {}) ~> (sup \in Ended \/ Alive # {})

\* A supervisor that dies or gives up before the handoff is complete does not
\* leave the half-started primary behind.
HandoffLeavesNoPrimary ==
  (sup \in Ended /\ boot # "free") ~> ~Running(Primary)

\* "Activity shutdown sends TERM to the supervisor, which terminates the
\* primary process group and the single-UID BionicX session"
\* (docs/ARCHITECTURE.md:84): a TERM the handler has recorded ends the session.
TermEndsSession == shutdown ~> sup = "returned"
=============================================================================

---------------------- MODULE SessionSupervisorProofs ----------------------
(***************************************************************************)
(* Proofs about SessionSupervisor, for every set of processes, whoever of   *)
(* them ignores TERM, every number of rounds and of signals.                *)
(*                                                                          *)
(* That the supervisor returns after everybody rests on the forest of the   *)
(* session: as long as the supervisor lives every process descends from it, *)
(* along parents that run.  A supervisor without children that run has then *)
(* no descendants that run.  The argument needs that the forest has no      *)
(* cycle and no infinite branch, which Descent says with the line of        *)
(* ancestors each process was born with.                                    *)
(***************************************************************************)
EXTENDS SessionSupervisor, FiniteSetTheorems, WellFoundedInduction, TLAPS

Present == {p \in Proc : st[p] \in {"running", "zombie"}}

Places == Handoff \cup Ended \cup {"user", "blocked", "eintr", "term", "reap", "again",
                                   "kill", "drain"}

Typed ==
  /\ sup \in Places
  /\ st \in [Proc -> {"unborn", "running", "zombie", "gone"}]
  /\ parent \in [Proc -> Proc \cup {Supervisor, InitProcess}]
  /\ sup = "fork" => \A p \in Proc : st[p] = "unborn"

\* Nobody is re-parented to init while the supervisor lives, and nobody is a
\* child of a process that has ended.
Adopted ==
  \A p \in Present : parent[p] = Supervisor \/ (parent[p] \in Proc /\ Running(parent[p]))

\* The primary is the supervisor's own child, and is collected by
\* supervise_session or not before terminate_session.
PrimaryKept ==
  /\ parent[Primary] = Supervisor
  /\ sup \in Handoff \ {"fork"} => Primary \in Present
  /\ sup \in {"user", "blocked", "eintr"} => Primary \in Present \/ primaryExited

\* line[p] is p with its ancestors, who all have been born.
Lines(line) ==
  /\ line \in [Proc -> FiniteSubsetsOf(Proc)]
  /\ \A p \in Present : \A a \in line[p] : st[a] # "unborn"
  /\ \A p \in Present : parent[p] \in Proc =>
       line[parent[p]] \subseteq line[p] /\ line[parent[p]] # line[p]

Descent == \E line : Lines(line)

Live == Adopted /\ PrimaryKept /\ Descent

Inv == Typed /\ (sup \notin Ended => Live) /\ ReturnsAfterEverybody

-----------------------------------------------------------------------------
(* The forest.                                                              *)

\* If anybody runs, then a child of the supervisor does.
LEMMA TopOfForest ==
  ASSUME Typed, Adopted, Descent, Alive # {}
  PROVE  \E p \in Alive : parent[p] = Supervisor
  <1>1. PICK line : Lines(line)
    BY DEF Descent
  <1> DEFINE U == {line[p] : p \in Alive}
  <1>2. U # {} /\ U \subseteq FiniteSubsetsOf(Proc)
    BY <1>1 DEF Lines, Alive
  <1>3. \E T \in U : \A W \in U : ~(<<W, T>> \in StrictSubsetOrdering(Proc))
    <2> HIDE DEF U
    <2>1. IsWellFoundedOn(StrictSubsetOrdering(Proc), FiniteSubsetsOf(Proc))
      BY FS_StrictSubsetOrderingWellFounded, Zenon
    <2> QED
      BY <1>2, <2>1, WFMin
  <1>4. PICK p \in Alive : \A q \in Alive : ~(<<line[q], line[p]>> \in StrictSubsetOrdering(Proc))
    BY <1>3
  <1>5. parent[p] = Supervisor
    <2> SUFFICES ASSUME parent[p] # Supervisor
                 PROVE  FALSE
      OBVIOUS
    <2>1. p \in Present /\ p \in Proc
      BY DEF Alive, Present, Running
    <2>2. parent[p] \in Alive /\ parent[p] \in Proc
      BY <2>1 DEF Adopted, Alive
    <2>3. line[parent[p]] \subseteq line[p] /\ line[parent[p]] # line[p]
      BY <1>1, <2>1, <2>2 DEF Lines
    <2>4. line[parent[p]] \in SUBSET Proc /\ line[p] \in SUBSET Proc
      BY <1>1, <2>1, <2>2 DEF Lines, FiniteSubsetsOf
    <2> QED
      BY <1>4, <2>2, <2>3, <2>4 DEF StrictSubsetOrdering
  <1> QED
    BY <1>5

\* A supervisor none of whose children run has no descendants that run, and
\* those that have ended are its children.
LEMMA NobodyRuns ==
  ASSUME Typed, Adopted, Descent, ChildrenOf(Supervisor) \cap Alive = {}
  PROVE  Alive = {} /\ \A p \in Present : parent[p] = Supervisor
  <1>1. Alive = {}
    BY TopOfForest DEF ChildrenOf, Alive, Running
  <1> QED
    BY <1>1 DEF Adopted, Alive

\* The end of some of those that run, while the supervisor lives.
LEMMA DieStep ==
  ASSUME Typed, Live, sup \notin Ended, NEW D \in SUBSET Alive, Die(D)
  PROVE  /\ st' \in [Proc -> {"unborn", "running", "zombie", "gone"}]
         /\ parent' \in [Proc -> Proc \cup {Supervisor, InitProcess}]
         /\ \A p \in Proc : st'[p] = IF p \in D THEN "zombie" ELSE st[p]
         /\ Adopted' /\ Descent' /\ parent'[Primary] = Supervisor
  <1> USE SessionAssumption
  <1>1. Reaper = Supervisor
    BY DEF Reaper
  <1>2. D \subseteq Present /\ D \subseteq Proc
    BY DEF Alive, Present, Running
  <1>3. \A p \in Proc : parent'[p] = IF parent[p] \in D THEN Supervisor ELSE parent[p]
    BY <1>1 DEF Die
  <1>4. parent' \in [Proc -> Proc \cup {Supervisor, InitProcess}]
    BY <1>1, <1>3 DEF Die, Typed
  <1>5. \A p \in Present : parent'[p] # InitProcess
    BY <1>3 DEF Live, Adopted, Present
  <1>6. \A p \in Proc : st'[p] = IF p \in D THEN "zombie" ELSE st[p]
    <2> SUFFICES ASSUME NEW p \in Proc
                 PROVE  st'[p] = IF p \in D THEN "zombie" ELSE st[p]
      OBVIOUS
    <2>1. st'[p] = IF p \in D
                     THEN IF parent'[p] = InitProcess THEN "gone" ELSE "zombie"
                     ELSE IF st[p] = "zombie" /\ parent'[p] = InitProcess
                     THEN "gone" ELSE st[p]
      BY DEF Die
    <2> QED
      BY <1>2, <1>5, <2>1 DEF Present
  <1>7. st' \in [Proc -> {"unborn", "running", "zombie", "gone"}]
    <2>1. st' = [p \in Proc |-> st'[p]]
      BY DEF Die
    <2> QED
      BY <1>6, <2>1 DEF Typed
  <1>8. Present' = Present
    BY <1>2, <1>6 DEF Present
  <1>9. Adopted'
    BY <1>3, <1>6, <1>8 DEF Live, Adopted, Running, Present
  <1>10. Descent'
    <2>1. PICK line : Lines(line)
      BY DEF Live, Descent
    <2>2. \A a \in Proc : st[a] # "unborn" => st'[a] # "unborn"
      BY <1>6
    <2>3. \A p \in Proc : parent'[p] \in Proc => parent'[p] = parent[p]
      BY <1>3
    <2>4. \A p \in Present : line[p] \subseteq Proc
      BY <2>1 DEF Lines, FiniteSubsetsOf, Present
    <2>5. Lines(line)'
      BY <1>8, <2>1, <2>2, <2>3, <2>4 DEF Lines, Present
    <2> QED
      BY <2>5 DEF Descent
  <1>11. parent'[Primary] = Supervisor
    BY <1>3 DEF Live, PrimaryKept
  <1> QED
    BY <1>4, <1>6, <1>7, <1>9, <1>10, <1>11

-----------------------------------------------------------------------------
(* The steps.                                                               *)

\* The supervisor ends: having returned from supervising only when nobody runs
\* any more; init collects those that have ended.
LEMMA EndStep ==
  ASSUME Typed, sup \notin Ended, NEW how \in Ended, NEW c, NEW K, EndKilling(how, c, K),
         how = "returned" /\ c # "handoff failed" =>
           c # "wait failed" /\ Alive = {} /\ \A p \in Present : parent[p] = Supervisor
  PROVE  Inv'
  <1> USE SessionAssumption
  <1> DEFINE killed == {p \in Alive : p \in K \/ (p = Primary /\ Armed)}
             heir(p) == IF parent[p] \in {Supervisor} \cup killed
                          THEN InitProcess ELSE parent[p]
  <1>1. /\ sup' = how /\ code' = c
        /\ parent' = [p \in Proc |-> heir(p)]
        /\ st' = [p \in Proc |->
                    IF p \notin killed /\ st[p] # "zombie" THEN st[p]
                    ELSE IF heir(p) = InitProcess THEN "gone" ELSE "zombie"]
    BY DEF EndKilling
  <1>2. Typed'
    <2>1. \A p \in Proc : heir(p) \in Proc \cup {Supervisor, InitProcess}
      BY DEF Typed
    <2> HIDE DEF killed, heir
    <2> QED
      BY <1>1, <2>1 DEF Typed, Places, Ended
  <1>3. ReturnsAfterEverybody'
    <2> SUFFICES ASSUME how = "returned", c # "handoff failed", NEW p \in Proc
                 PROVE  c # "wait failed" /\ st'[p] \in {"unborn", "gone"}
      BY <1>1 DEF ReturnsAfterEverybody
    <2>1. killed = {} /\ st[p] # "running"
      BY DEF Alive, Running
    <2>2. CASE st[p] = "zombie"
      BY <1>1, <2>1, <2>2 DEF Present
    <2>3. CASE st[p] # "zombie"
      BY <1>1, <2>1, <2>3 DEF Typed
    <2> QED
      BY <2>2, <2>3
  <1> QED
    BY <1>1, <1>2, <1>3 DEF Inv

\* A step of the supervisor that touches no process.
LEMMA MoveStep ==
  ASSUME Inv, sup \notin Ended, sup' \in Places \ (Ended \cup {"fork"}),
         UNCHANGED <<st, parent, primaryExited>>,
         sup' \in Handoff => sup \in Handoff \ {"fork"},
         sup' \in {"user", "blocked", "eintr"} =>
           sup \in {"user", "blocked", "eintr"} \cup (Handoff \ {"fork"})
  PROVE  Inv'
  <1>1. Typed'
    BY DEF Inv, Typed
  <1>2. Adopted' /\ Descent' /\ PrimaryKept'
    <2>1. Adopted'
      BY DEF Inv, Live, Adopted, Present, Running
    <2>2. PICK line : Lines(line)
      BY DEF Inv, Live, Descent
    <2>3. Lines(line)'
      BY <2>2 DEF Lines, Present
    <2>4. Descent'
      BY <2>3 DEF Descent
    <2>5. PrimaryKept'
      BY DEF Inv, Live, PrimaryKept, Present
    <2> QED
      BY <2>1, <2>4, <2>5
  <1> QED
    BY <1>1, <1>2 DEF Inv, Live, Ended, ReturnsAfterEverybody

\* One that collects some of its children that have ended.
LEMMA CollectStep ==
  ASSUME Inv, sup \notin Ended \cup Handoff, sup' \in Places \ (Ended \cup Handoff),
         NEW Z \in SUBSET Present, \A p \in Z : st[p] = "zombie",
         st' = [p \in Proc |-> IF p \in Z THEN "gone" ELSE st[p]],
         UNCHANGED parent,
         sup' \in {"user", "blocked", "eintr"} =>
           /\ sup \in {"user", "blocked", "eintr"}
           /\ primaryExited' = (primaryExited \/ Primary \in Z)
  PROVE  Inv'
  <1>1. Typed'
    BY DEF Inv, Typed, Places, Handoff
  <1>2. Present' = Present \ Z
    BY DEF Present
  <1>3. Adopted'
    BY <1>2 DEF Inv, Live, Adopted, Running, Present
  <1>4. Descent'
    <2>1. PICK line : Lines(line)
      BY DEF Inv, Live, Descent
    <2>2. \A a \in Proc : st[a] # "unborn" => st'[a] # "unborn"
      OBVIOUS
    <2>3. \A p \in Present : line[p] \subseteq Proc
      BY <2>1 DEF Lines, FiniteSubsetsOf, Present
    <2>4. Lines(line)'
      BY <1>2, <2>1, <2>2, <2>3 DEF Lines
    <2> QED
      BY <2>4 DEF Descent
  <1>5. PrimaryKept'
    <2>1. CASE sup' \in {"user", "blocked", "eintr"}
      BY <1>2, <2>1 DEF Inv, Live, PrimaryKept, Handoff
    <2>2. CASE sup' \notin {"user", "blocked", "eintr"}
      BY <2>2 DEF Inv, Live, PrimaryKept, Handoff
    <2> QED
      BY <2>1, <2>2
  <1> QED
    BY <1>1, <1>3, <1>4, <1>5 DEF Inv, Live, Ended, ReturnsAfterEverybody

\* One in which some of those that run end.
LEMMA DeathStep ==
  ASSUME Inv, sup \notin Ended, NEW D \in SUBSET Alive, Die(D),
         sup' \in Places \ Ended, UNCHANGED primaryExited,
         sup' \in Handoff => sup' = sup,
         sup' \in {"user", "blocked", "eintr"} => sup' = sup
  PROVE  Inv'
  <1>1. /\ st' \in [Proc -> {"unborn", "running", "zombie", "gone"}]
        /\ parent' \in [Proc -> Proc \cup {Supervisor, InitProcess}]
        /\ \A p \in Proc : st'[p] = IF p \in D THEN "zombie" ELSE st[p]
        /\ Adopted' /\ Descent' /\ parent'[Primary] = Supervisor
    BY DieStep DEF Inv
  <1>2. D \subseteq Present /\ Present' = Present
    BY <1>1 DEF Present, Alive, Running
  <1>3. Typed'
    <2>1. sup' = "fork" => \A p \in Proc : st'[p] = "unborn"
      BY <1>1 DEF Inv, Typed, Handoff, Alive, Running
    <2> QED
      BY <1>1, <2>1 DEF Typed
  <1>4. PrimaryKept'
    BY <1>1, <1>2 DEF Inv, Live, PrimaryKept
  <1> QED
    BY <1>1, <1>3, <1>4 DEF Inv, Live, Ended, ReturnsAfterEverybody

LEMMA ForkStep ==
  ASSUME Inv, Fork
  PROVE  Inv'
  <1> USE SessionAssumption
  <1>1. /\ sup = "fork" /\ sup' = "setpgid" /\ parent' = parent
        /\ st' = [st EXCEPT ![Primary] = "running"]
    BY DEF Fork, Move
  <1>2. \A p \in Proc : st[p] = "unborn"
    BY <1>1 DEF Inv, Typed
  <1>3. Typed'
    BY <1>1 DEF Inv, Typed, Places, Handoff
  <1>4. Present' = {Primary} /\ parent[Primary] = Supervisor
    BY <1>1, <1>2 DEF Inv, Typed, Present, Live, PrimaryKept, Ended
  <1>5. Adopted' /\ PrimaryKept'
    BY <1>1, <1>4 DEF Adopted, PrimaryKept, Handoff
  <1>6. Descent'
    <2>1. PICK line : line = [p \in Proc |-> {}]
      OBVIOUS
    <2>2. {} \in FiniteSubsetsOf(Proc)
      BY FS_EmptySet DEF FiniteSubsetsOf
    <2>3. Lines(line)'
      BY <1>1, <1>4, <2>1, <2>2 DEF Lines
    <2> QED
      BY <2>3 DEF Descent
  <1> QED
    BY <1>1, <1>3, <1>5, <1>6 DEF Inv, Live, Ended, ReturnsAfterEverybody

\* A child is born below its parent, with a line that is one longer.
LEMMA SpawnStep ==
  ASSUME Inv, sup \notin Ended, NEW p \in Proc, NEW q \in Proc, Spawn(p, q)
  PROVE  Inv'
  <1> USE SessionAssumption
  <1>1. /\ st[p] = "running" /\ st[q] = "unborn" /\ q # Primary /\ p # q
        /\ st' = [st EXCEPT ![q] = "running"] /\ parent' = [parent EXCEPT ![q] = p]
        /\ UNCHANGED <<sup, primaryExited, code>>
    BY DEF Spawn, Free, Running
  <1>2. Typed'
    BY <1>1 DEF Inv, Typed
  <1>3. Present' = Present \cup {q} /\ q \notin Present /\ p \in Present
    BY <1>1 DEF Present, Inv, Typed
  <1>4. Adopted'
    BY <1>1, <1>3 DEF Inv, Typed, Live, Adopted, Running, Present
  <1>5. PrimaryKept'
    BY <1>1, <1>3 DEF Inv, Typed, Live, PrimaryKept
  <1>6. Descent'
    <2>1. PICK line : Lines(line)
      BY DEF Inv, Live, Descent
    <2>2. PICK longer : longer = [line EXCEPT ![q] = line[p] \cup {q}]
      OBVIOUS
    <2>3. line[p] \in FiniteSubsetsOf(Proc) /\ line[p] \cup {q} \in FiniteSubsetsOf(Proc)
      BY <2>1, FS_AddElement DEF Lines, FiniteSubsetsOf
    <2>4. q \notin line[p]
      BY <1>1, <1>3, <2>1 DEF Lines
    <2>5. longer \in [Proc -> FiniteSubsetsOf(Proc)]
      BY <2>1, <2>2, <2>3 DEF Lines
    <2>6. longer[q] = line[p] \cup {q} /\ \A a \in Proc \ {q} : longer[a] = line[a]
      BY <2>1, <2>2 DEF Lines
    <2>7. \A a \in Proc : (st[a] # "unborn" => st'[a] # "unborn") /\ st'[q] # "unborn"
      BY <1>1 DEF Inv, Typed
    <2>8. \A a \in Present : line[a] \subseteq Proc
      BY <2>1 DEF Lines, FiniteSubsetsOf, Present
    <2>9. ASSUME NEW a \in Present'
          PROVE  /\ \A b \in longer[a] : st'[b] # "unborn"
                 /\ parent'[a] \in Proc =>
                      longer[parent'[a]] \subseteq longer[a] /\ longer[parent'[a]] # longer[a]
      <3>1. CASE a = q
        BY <1>1, <1>3, <2>1, <2>4, <2>6, <2>7, <2>8, <3>1 DEF Lines, Inv, Typed
      <3>2. CASE a # q
        <4>1. a \in Present /\ a \in Proc /\ parent'[a] = parent[a] /\ longer[a] = line[a]
          BY <1>1, <1>3, <2>6, <3>2 DEF Inv, Typed, Present
        <4>2. parent[a] \in Proc => longer[parent[a]] = line[parent[a]]
          BY <1>1, <2>6, <4>1 DEF Inv, Live, Adopted, Running
        <4> QED
          BY <2>1, <2>7, <2>8, <4>1, <4>2 DEF Lines
      <3> QED
        BY <3>1, <3>2
    <2>10. Lines(longer)'
      BY <2>5, <2>9 DEF Lines
    <2> QED
      BY <2>10 DEF Descent
  <1> QED
    BY <1>1, <1>2, <1>4, <1>5, <1>6 DEF Inv, Live, ReturnsAfterEverybody

\* When the supervisor has ended, and everybody with it, nothing is born.
StaysEnded ==
  /\ sup' = sup /\ code' = code
  /\ st' \in [Proc -> {"unborn", "running", "zombie", "gone"}]
  /\ parent' \in [Proc -> Proc \cup {Supervisor, InitProcess}]
  /\ (\A p \in Proc : st[p] \in {"unborn", "gone"})
       => \A p \in Proc : st'[p] \in {"unborn", "gone"}

LEMMA AfterEndStep ==
  ASSUME Inv, sup \in Ended, Next
  PROVE  Inv'
  <1> USE SessionAssumption
  <1>1. StaysEnded
    <2>1. ~SupervisorStep /\ ~TermKills /\ ~TermFlags
      BY DEF SupervisorStep, Fork, Setpgid, WaitInitialStop, WaitExec, WaitProbe, SetpgidFails,
             HandoffFails, Detach, InstallHandlers, HandlersFail, EnterWait, Drained,
             Interrupted, Reap, DrainOne, FirstTerm, ReapAll, TermAgain, TermAll, KillAll,
             DrainEmpty, TermKills, TermFlags, Move, Handoff, Ended
    <2>2. ASSUME NEW from, NEW to, BootStep(from, to)
          PROVE  UNCHANGED <<sup, code, st, parent>>
      BY <2>2 DEF BootStep
    <2>3. ASSUME NEW p \in Proc, Die({p}), Running(p), UNCHANGED <<sup, code>>
          PROVE  StaysEnded
      <3>1. /\ st' \in [Proc -> {"unborn", "running", "zombie", "gone"}]
            /\ parent' \in [Proc -> Proc \cup {Supervisor, InitProcess}]
        BY <2>3 DEF Die, Reaper, Inv, Typed
      <3> QED
        BY <2>3, <3>1 DEF Running, StaysEnded
    <2>4. ASSUME NEW p \in Proc, NEW q \in Proc, Spawn(p, q)
          PROVE  StaysEnded
      BY <2>4 DEF Spawn, Free, Running, Inv, Typed, StaysEnded
    <2>5. ASSUME NEW p \in Proc, ReapOwn(p)
          PROVE  StaysEnded
      BY <2>5 DEF ReapOwn, Inv, Typed, StaysEnded
    <2>6. UNCHANGED <<sup, code, st, parent>>
            => StaysEnded
      BY DEF Inv, Typed, StaysEnded
    <2> QED
      BY <2>1, <2>2, <2>3, <2>4, <2>5, <2>6
         DEF Next, PrimaryBoots, Arm, CheckParent, ParentGone, Exec, ExecFails, LoaderStep,
             Exit, ObeyTerm, Free
  <1>2. Typed'
    BY <1>1 DEF Inv, Typed, Ended, StaysEnded
  <1>3. ReturnsAfterEverybody'
    BY <1>1 DEF Inv, ReturnsAfterEverybody, StaysEnded
  <1> QED
    BY <1>1, <1>2, <1>3 DEF Inv, StaysEnded

-----------------------------------------------------------------------------
LEMMA InvInit == Init => Inv
  <1> SUFFICES ASSUME Init
               PROVE  Inv
    OBVIOUS
  <1> USE SessionAssumption
  <1>1. Typed /\ Adopted /\ PrimaryKept /\ Present = {}
    BY DEF Init, Typed, Places, Handoff, Adopted, PrimaryKept, Present
  <1>2. Descent
    <2>1. PICK line : line = [p \in Proc |-> {}]
      OBVIOUS
    <2>2. {} \in FiniteSubsetsOf(Proc)
      BY FS_EmptySet DEF FiniteSubsetsOf
    <2>3. Lines(line)
      BY <1>1, <2>1, <2>2 DEF Lines
    <2> QED
      BY <2>3 DEF Descent
  <1>3. ReturnsAfterEverybody
    BY DEF Init, ReturnsAfterEverybody
  <1> QED
    BY <1>1, <1>2, <1>3 DEF Inv, Live

\* The supervisor's own steps.
LEMMA SupervisorInv ==
  ASSUME Inv, sup \notin Ended, SupervisorStep
  PROVE  Inv'
  <1> USE SessionAssumption
  <1>1. Typed /\ Live
    BY DEF Inv
  <1>2. CASE Setpgid \/ WaitInitialStop \/ WaitExec \/ WaitProbe \/ Detach
    <2>1. /\ sup' \in Handoff \ {"fork"} /\ sup \in Handoff \ {"fork"}
          /\ UNCHANGED <<st, parent, primaryExited>>
      BY <1>2 DEF Setpgid, WaitInitialStop, WaitExec, WaitProbe, Detach, Move, procs, Handoff
    <2> QED
      BY <2>1, MoveStep DEF Handoff, Ended, Places
  <1>3. CASE InstallHandlers \/ EnterWait \/ Interrupted
    <2>1. /\ sup' \in {"user", "blocked", "term"}
          /\ sup \in {"user", "blocked", "eintr", "handlers"}
          /\ UNCHANGED <<st, parent, primaryExited>>
      BY <1>3 DEF InstallHandlers, EnterWait, Interrupted, Move, procs
    <2> QED
      BY <2>1, MoveStep DEF Handoff, Ended, Places
  <1>4. CASE FirstTerm \/ TermAgain
    <2>1. /\ sup' \in {"reap", "kill"} /\ UNCHANGED <<st, parent, primaryExited>>
      BY <1>4 DEF FirstTerm, TermAgain, TermAll
    <2> QED
      BY <2>1, MoveStep DEF Handoff, Ended, Places
  <1>5. CASE SetpgidFails \/ HandoffFails \/ HandlersFail
    <2>1. \E K : EndKilling("returned", "handoff failed", K)
      BY <1>5 DEF SetpgidFails, HandoffFails, HandlersFail, End
    <2> QED
      BY <1>1, <2>1, EndStep DEF Ended
  \* waitpid says ECHILD: the primary has been collected, and nobody is left.
  <1>6. CASE Drained
    <2>1. /\ sup = "blocked" /\ ChildrenOf(Supervisor) = {}
          /\ EndKilling("returned", IF primaryExited THEN "primary status" ELSE "wait failed", {})
      BY <1>6 DEF Drained, End
    <2>2. primaryExited
      BY <1>1, <2>1 DEF Live, PrimaryKept, ChildrenOf, Present
    <2>3. Alive = {} /\ \A p \in Present : parent[p] = Supervisor
      BY <1>1, <2>1, NobodyRuns DEF Live
    <2>4. EndKilling("returned", "primary status", {})
      BY <2>1, <2>2
    <2> QED
      BY <1>1, <2>3, <2>4, EndStep DEF Ended
  <1>7. CASE DrainEmpty
    <2>1. ChildrenOf(Supervisor) = {} /\ EndKilling("returned", "signal", {})
      BY <1>7 DEF DrainEmpty, End
    <2>2. Alive = {} /\ \A p \in Present : parent[p] = Supervisor
      BY <1>1, <2>1, NobodyRuns DEF Live
    <2> QED
      BY <1>1, <2>1, <2>2, EndStep DEF Ended
  <1>8. CASE ReapAll
    <2>1. CASE ChildrenOf(Supervisor) \cap Alive = {}
      <3>1. EndKilling("returned", "signal", {})
        BY <1>8, <2>1 DEF ReapAll, End
      <3>2. Alive = {} /\ \A p \in Present : parent[p] = Supervisor
        BY <1>1, <2>1, NobodyRuns DEF Live
      <3> QED
        BY <1>1, <3>1, <3>2, EndStep DEF Ended
    <2>2. CASE ChildrenOf(Supervisor) \cap Alive # {}
      <3> DEFINE Z == ChildrenOf(Supervisor) \ (ChildrenOf(Supervisor) \cap Alive)
      <3>1. /\ sup = "reap" /\ sup' = "again" /\ UNCHANGED parent
            /\ st' = [p \in Proc |-> IF p \in Z THEN "gone" ELSE st[p]]
        BY <1>8, <2>2 DEF ReapAll
      <3>2. Z \subseteq Present /\ \A p \in Z : st[p] = "zombie"
        BY DEF ChildrenOf, Present, Alive, Running
      <3> HIDE DEF Z
      <3> QED
        BY <3>1, <3>2, CollectStep DEF Handoff, Ended, Places
    <2> QED
      BY <2>1, <2>2
  <1>9. ASSUME NEW p \in Proc, Reap(p) \/ DrainOne(p)
        PROVE  Inv'
    <2>1. /\ st[p] = "zombie" /\ UNCHANGED parent
          /\ \/ sup = "blocked" /\ sup' = "user"
                /\ primaryExited' = (primaryExited \/ p = Primary)
             \/ sup = "drain" /\ sup' = "drain"
          /\ st' = [st EXCEPT ![p] = "gone"]
      BY <1>9 DEF Reap, DrainOne
    <2>2. PICK Z : Z = {p}
      OBVIOUS
    <2>3. /\ Z \in SUBSET Present /\ \A q \in Z : st[q] = "zombie"
          /\ st' = [q \in Proc |-> IF q \in Z THEN "gone" ELSE st[q]]
          /\ Primary \in Z <=> p = Primary
      BY <1>1, <2>1, <2>2 DEF Present, Typed
    <2> QED
      BY <2>1, <2>3, CollectStep DEF Handoff, Ended, Places
  <1>10. CASE KillAll
    <2>1. sup = "kill" /\ sup' = "drain" /\ Die(Alive) /\ UNCHANGED primaryExited
      BY <1>10 DEF KillAll
    <2> QED
      BY <2>1, DeathStep DEF Handoff, Ended, Places
  <1> QED
    BY <1>2, <1>3, <1>4, <1>5, <1>6, <1>7, <1>8, <1>9, <1>10, ForkStep DEF SupervisorStep

LEMMA InvStep == Inv /\ [Next]_vars => Inv'
  <1> SUFFICES ASSUME Inv, [Next]_vars
               PROVE  Inv'
    OBVIOUS
  <1> USE SessionAssumption
  <1>1. CASE UNCHANGED vars
    <2>1. UNCHANGED <<sup, st, parent, primaryExited, code>>
      BY <1>1 DEF vars, procs
    <2>2. Descent => Descent'
      BY <2>1 DEF Descent, Lines, Present
    <2> QED
      BY <2>1, <2>2 DEF Inv, Typed, Live, Adopted, PrimaryKept, Present, Running,
                        ReturnsAfterEverybody
  <1>2. CASE Next /\ sup \in Ended
    BY <1>2, AfterEndStep
  <1>3. CASE Next /\ sup \notin Ended
    <2> USE <1>3
    <2>1. Typed /\ Live
      BY DEF Inv
    \* Steps of the primary and of others that leave the forest as it is.
    <2>2. ASSUME UNCHANGED <<sup, st, parent, primaryExited>>
          PROVE  Inv'
      <3>1. Descent'
        BY <2>1, <2>2 DEF Live, Descent, Lines, Present
      <3> QED
        BY <2>1, <2>2, <3>1 DEF Inv, Typed, Live, Adopted, PrimaryKept, Present, Running,
                                Ended, ReturnsAfterEverybody
    <2>3. ASSUME NEW p \in Proc, Running(p), Die({p}), UNCHANGED <<sup, primaryExited>>
          PROVE  Inv'
      BY <2>1, <2>3, DeathStep DEF Alive, Typed
    <2>4. CASE PrimaryBoots
      <3>1. \/ UNCHANGED <<sup, st, parent, primaryExited>>
            \/ Running(Primary) /\ Die({Primary}) /\ UNCHANGED <<sup, primaryExited>>
        BY <2>4 DEF PrimaryBoots, Arm, CheckParent, ParentGone, Exec, ExecFails, LoaderStep,
                    BootStep
      <3> QED
        BY <2>2, <2>3, <3>1
    <2>5. ASSUME NEW p \in Proc, Exit(p) \/ ObeyTerm(p)
          PROVE  Inv'
      BY <2>3, <2>5 DEF Exit, ObeyTerm, Free
    \* A parent that runs waits for a child of its own, which the primary is not.
    <2>6. ASSUME NEW p \in Proc, ReapOwn(p)
          PROVE  Inv'
      <3>1. /\ st[p] = "zombie" /\ p # Primary /\ UNCHANGED <<sup, parent, primaryExited, code>>
            /\ st' = [st EXCEPT ![p] = "gone"]
        BY <2>1, <2>6 DEF ReapOwn, Live, PrimaryKept
      <3>2. Present' = Present \ {p}
        BY <2>1, <3>1 DEF Present, Typed
      <3>3. Typed' /\ Adopted' /\ PrimaryKept'
        BY <2>1, <3>1, <3>2 DEF Typed, Live, Adopted, PrimaryKept, Running, Present, Handoff
      <3>4. PICK line : Lines(line)
        BY <2>1 DEF Live, Descent
      <3>5. \A q \in Present : line[q] \subseteq Proc
        BY <3>4 DEF Lines, FiniteSubsetsOf, Present
      <3>6. Lines(line)'
        BY <2>1, <3>1, <3>2, <3>4, <3>5 DEF Lines, Typed
      <3> QED
        BY <3>1, <3>3, <3>6 DEF Inv, Live, Descent, Ended, ReturnsAfterEverybody
    <2>7. CASE TermKills
      <3>1. EndKilling("killed", "SIGTERM", {})
        BY <2>7 DEF TermKills, End
      <3> QED
        BY <2>1, <3>1, EndStep DEF Ended
    <2>8. CASE TermFlags
      <3>1. /\ sup \notin Handoff \cup Ended
            /\ sup' = sup \/ (sup = "blocked" /\ sup' = "eintr")
            /\ UNCHANGED <<st, parent, primaryExited>>
        BY <2>8 DEF TermFlags, procs
      <3> QED
        BY <2>1, <3>1, MoveStep DEF Handoff, Ended, Places, Typed
    <2> QED
      BY <2>4, <2>5, <2>6, <2>7, <2>8, SupervisorInv, SpawnStep DEF Next
  <1> QED
    BY <1>1, <1>2, <1>3

\* As long as the supervisor lives, every process of the session descends from
\* it, the primary is its own child, and its end is as ReturnsAfterEverybody says.
THEOREM SessionIsAForest == Spec => []Inv
  BY InvInit, InvStep, PTL DEF Spec

\* supervise_session and terminate_session return with nobody of the session
\* left, and never without having collected the primary: by ECHILD, by
\* reap_and_check_empty or after the KILL, whoever forks in between.
THEOREM NobodyOutlivesTheSupervisor == Spec => []ReturnsAfterEverybody
  <1>1. Inv => ReturnsAfterEverybody
    BY DEF Inv
  <1> QED
    BY <1>1, SessionIsAForest, PTL

=============================================================================

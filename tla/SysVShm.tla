------------------------------- MODULE SysVShm -------------------------------
(***************************************************************************)
(* System V shared memory between X clients and the X server.  A client     *)
(* process keeps its segments in a table of its own (sysv-shm.c) and hands  *)
(* out their descriptors from a listener thread, on a socket whose number   *)
(* is the upper half of its ids.  MIT-SHM Attach makes the epoll thread     *)
(* connect there, wait for the descriptor and map it; SysVSharedMemory      *)
(* keeps it by its id for ever.                                             *)
(*                                                                          *)
(* bx_shm_lock makes each call of a client, and each look of its listener   *)
(* into the table, one step.  The listener accepts, answers and closes in   *)
(* steps of their own: a fork and an exec take an accepted connection along *)
(* (no SOCK_CLOEXEC), and the server reads until all have closed it.        *)
(*                                                                          *)
(* Left out: sizes and addresses, keys, which only find segments of the     *)
(* same process, calls of the system that fail, a fork that hits while the  *)
(* lock is taken, what reads and draws through an attached segment.         *)
(***************************************************************************)
EXTENDS Integers, Sequences, FiniteSets, SequencesExt

CONSTANTS
  Process, XId, None,
  NSockets,    \* 65536
  PidOf,       \* [Process -> 0 .. NSockets-1]: its pid, of which it has the lower bits
  MaxCounter,  \* 0x7fff
  MaxSegments, \* BX_SHM_MAX_SEGMENTS
  Sessions     \* what happens in a session: procs, the processes there are at first;
               \* ops, what they do besides their calls; maxMemories and maxAttaches,
               \* bounds on the segments created and on the Attach requests

Sockets == 0 .. NSockets - 1
ShmId == [socket : Sockets, counter : Nat]
Buffer == [id : ShmId, memory : Nat, n : Nat] \* a mapping: two of a memory are not the same

ASSUME ShmAssumption ==
  /\ {NSockets, MaxCounter, MaxSegments} \subseteq Nat \ {0}
  /\ IsFiniteSet(Process) /\ Cardinality(Process) <= NSockets
  /\ PidOf \in [Process -> Sockets]
  /\ IsFiniteSet(XId)
  /\ None \notin Buffer

VARIABLES
  session,
  proc,     \* [Process -> alive, socket, thread, counter, table of segments]
  cache,    \* SysVSharedMemory.shmemories: [id -> memory, and data while it is mapped]
  segments, \* [XId -> SHMSegmentManager.shmSegments]: a buffer, or None
  call,     \* the Attach the epoll thread is in, or None: its reply, the process
            \* whose listener thread has accepted it, the processes that hold it open
  given,    \* history: the ids shmget has returned, each with its memory
  attaches  \* bounded counter

vars == <<session, proc, cache, segments, call, given, attaches>>

NoProcess == [alive |-> FALSE, socket |-> None, thread |-> FALSE, counter |-> 0, table |-> <<>>]
Fresh == [NoProcess EXCEPT !.alive = TRUE]

Init ==
  /\ session \in Sessions
  /\ proc = [p \in Process |-> IF p \in session.procs THEN Fresh ELSE NoProcess]
  /\ cache = <<>>
  /\ segments = [x \in XId |-> None]
  /\ call = None /\ given = {} /\ attaches = 0

\* The reply to a connection: a memory, a number from 1 on, or one of these.
Waiting == 0
Closed == -1
Unknown == -2   \* the listener has not found the id and will close
Unanswered == {Waiting, Unknown}

\* The abstract socket names in use.
Bound == {proc[p].socket : p \in {q \in Process : proc[q].alive}} \ {None}

-----------------------------------------------------------------------------
(* A client process                                                         *)

\* Mutant: the table is taken to be in the order of the ids, without holes.
FindLocalIndexByCounter(table, id) == {i \in {id.counter} : i <= Len(table)}
FindLocalIndex(table, id) == {i \in DOMAIN table : table[i].id = id}

DeleteIndex(table, i) == RemoveAt(table, i)

\* The first free name from that of the pid on.
EnsureListener(p) ==
  LET nth(i) == (PidOf[p] + i) % NSockets
      first == CHOOSE i \in Sockets : nth(i) \notin Bound /\ \A j \in 0 .. i-1 : nth(j) \in Bound
  IN  IF proc[p].socket # None THEN proc[p]
      ELSE [proc[p] EXCEPT !.socket = nth(first), !.thread = TRUE]

NextCounter(n) == IF n >= MaxCounter THEN 1 ELSE n + 1

Calls(p) == proc[p].alive /\ UNCHANGED <<session, cache, segments, attaches>>

Shmget(p) ==
  LET me == EnsureListener(p)
      id == [socket |-> me.socket, counter |-> NextCounter(me.counter)]
      memory == Cardinality(given) + 1
  IN  /\ Calls(p) /\ UNCHANGED call
      /\ Len(me.table) < MaxSegments /\ memory <= session.maxMemories
      /\ proc' = [proc EXCEPT ![p] = [me EXCEPT !.counter = id.counter,
                    !.table = Append(@, [id |-> id, memory |-> memory,
                                         mapped |-> FALSE, marked |-> FALSE])]]
      /\ given' = given \cup {[id |-> id, memory |-> memory]}

\* The second of two shmat finds the mapping of the first.
Shmat(p, i) ==
  /\ Calls(p) /\ i \in DOMAIN proc[p].table
  /\ proc' = [proc EXCEPT ![p].table[i].mapped = TRUE]
  /\ UNCHANGED <<call, given>>

\* Mutant: a removed segment is only unmapped.
DetachedOnly(table, i) == [table EXCEPT ![i].mapped = FALSE]
Detached(table, i) ==
  IF table[i].marked THEN DeleteIndex(table, i) ELSE [table EXCEPT ![i].mapped = FALSE]

Shmdt(p, i) ==
  /\ Calls(p) /\ i \in DOMAIN proc[p].table /\ proc[p].table[i].mapped
  /\ proc' = [proc EXCEPT ![p].table = Detached(@, i)]
  /\ UNCHANGED <<call, given>>

ShmctlRmid(p, i) ==
  /\ Calls(p) /\ i \in DOMAIN proc[p].table
  /\ proc' = [proc EXCEPT ![p].table = IF @[i].mapped THEN [@ EXCEPT ![i].marked = TRUE]
                                       ELSE DeleteIndex(@, i)]
  /\ UNCHANGED <<call, given>>

\* A child has copies of everything but the listener thread, also of an
\* accepted connection.
Fork(p, q) ==
  /\ "Fork" \in session.ops /\ Calls(p) /\ ~proc[q].alive
  /\ proc' = [proc EXCEPT ![q] = [proc[p] EXCEPT !.thread = FALSE]]
  /\ call' = IF call # None /\ p \in call.held THEN [call EXCEPT !.held = @ \cup {q}] ELSE call
  /\ UNCHANGED given

\* p does not hold the accepted connection any more: the last one ends it.
Dropped(c, p) ==
  [c EXCEPT !.listener = IF @ = p THEN None ELSE @, !.held = @ \ {p},
            !.reply = IF c.held = {p} /\ @ \in Unanswered THEN Closed ELSE @]

\* The last holder of a listening socket takes the connections along that wait
\* on it.
Unbound(c, p) ==
  [c EXCEPT !.reply =
     IF @ = Waiting /\ c.held = {} /\ proc[p].socket = c.id.socket
        /\ \A q \in Process \ {p} : proc[q].alive => proc[q].socket # c.id.socket
     THEN Closed ELSE @]

\* The end of p or of its program, c being what is then left of the call.
Leave(p, new, c) ==
  /\ Calls(p)
  /\ proc' = [proc EXCEPT ![p] = new]
  /\ call' = IF call = None THEN None ELSE Unbound(c, p)
  /\ UNCHANGED given

\* exec keeps the pid and an accepted connection, but no thread to close it.
Exit(p) == "Exit" \in session.ops /\ Leave(p, NoProcess, Dropped(call, p))
Exec(p) ==
  "Exec" \in session.ops /\ Leave(p, Fresh, [call EXCEPT !.listener = IF @ = p THEN None ELSE @])

\* The listener thread accepts a connection and reads the id.
Accept(p) ==
  /\ Calls(p) /\ proc[p].thread
  /\ call # None /\ call.reply = Waiting /\ call.held = {} /\ call.id.socket = proc[p].socket
  /\ call' = [call EXCEPT !.listener = p, !.held = {p}]
  /\ UNCHANGED <<proc, given>>

\* Mutant: the connection of an unknown id is not closed.
AnswerIfFound(table, id) ==
  IF FindLocalIndex(table, id) = {} THEN Waiting
  ELSE table[Min(FindLocalIndex(table, id))].memory
Answer(table, id) ==
  IF FindLocalIndex(table, id) = {} THEN Unknown
  ELSE table[Min(FindLocalIndex(table, id))].memory

\* Under bx_shm_lock it looks the id up and sends what it finds, which is all
\* the server waits for.
SendSegment(p) ==
  /\ Calls(p)
  /\ call # None /\ call.listener = p /\ call.reply = Waiting
  /\ call' = [call EXCEPT !.reply = Answer(proc[p].table, call.id)]
  /\ UNCHANGED <<proc, given>>

CloseClient(p) ==
  /\ Calls(p)
  /\ call # None /\ call.listener = p /\ call.reply = Unknown
  /\ call' = Dropped(call, p)
  /\ UNCHANGED <<proc, given>>

ListenThread(p) == Accept(p) \/ SendSegment(p) \/ CloseClient(p)

-----------------------------------------------------------------------------
(* The X server                                                             *)

Ids == {g.id : g \in given}

\* A new mapping of a memory, as an object nobody has.
NewBuffer(id, memory) ==
  LET held == {segments[x] : x \in XId} \cup {cache[i].data : i \in DOMAIN cache}
      n == CHOOSE n \in 0 .. Cardinality(XId) : [id |-> id, memory |-> memory, n |-> n] \notin held
  IN  [id |-> id, memory |-> memory, n |-> n]

\* Mutant: buffers are compared by what they hold, which may be the same.
UnmapEqual(c, b) == IF DOMAIN c = {} THEN c ELSE [c EXCEPT ![CHOOSE i \in DOMAIN c : TRUE].data = None]
Unmap(c, b) == [i \in DOMAIN c |-> IF c[i].data = b THEN [c[i] EXCEPT !.data = None] ELSE c[i]]

\* SysVSharedMemory.attach, of an entry that is there: it is mapped at most once.
AttachCached(c, x, id) ==
  LET b == IF c[id].data = None THEN NewBuffer(id, c[id].memory) ELSE c[id].data
  IN  /\ cache' = [c EXCEPT ![id].data = b]
      /\ segments' = [segments EXCEPT ![x] = b]

BeginAttach(x, id) ==
  LET c == IF segments[x] = None THEN cache ELSE Unmap(cache, segments[x])
  IN  /\ call = None /\ attaches < session.maxAttaches
      /\ attaches' = attaches + 1
      /\ IF id \in DOMAIN cache THEN AttachCached(c, x, id) /\ UNCHANGED call
         ELSE /\ cache' = c /\ segments' = [segments EXCEPT ![x] = None]
              /\ call' = IF id.socket \in Bound
                         THEN [xid |-> x, id |-> id, reply |-> Waiting, listener |-> None, held |-> {}]
                         ELSE None
      /\ UNCHANGED <<session, proc, given>>

FinishAttach ==
  /\ call # None /\ call.reply \notin Unanswered
  /\ call' = None
  /\ IF call.reply = Closed THEN UNCHANGED <<cache, segments>>
     ELSE LET entry == [memory |-> call.reply, data |-> None]
          IN  AttachCached([i \in DOMAIN cache \cup {call.id} |->
                              IF i = call.id THEN entry ELSE cache[i]], call.xid, call.id)
  /\ UNCHANGED <<session, proc, given, attaches>>

Detach(x) ==
  /\ call = None /\ segments[x] # None
  /\ cache' = Unmap(cache, segments[x])
  /\ segments' = [segments EXCEPT ![x] = None]
  /\ UNCHANGED <<session, proc, call, given, attaches>>

Next ==
  \/ \E p \in Process : \/ Shmget(p) \/ Exit(p) \/ Exec(p)
                        \/ Accept(p) \/ SendSegment(p) \/ CloseClient(p)
                        \/ \E i \in 1 .. MaxSegments : Shmat(p, i) \/ Shmdt(p, i)
                                                         \/ ShmctlRmid(p, i)
                        \/ \E q \in Process : Fork(p, q)
  \/ \E x \in XId, id \in Ids : BeginAttach(x, id)
  \/ \E x \in XId : Detach(x)
  \/ FinishAttach

Spec == Init /\ [][Next]_vars

\* Both threads of an exchange are scheduled.
FairSpec == Spec /\ WF_vars(FinishAttach) /\ \A p \in Process : WF_vars(ListenThread(p))

-----------------------------------------------------------------------------
GivenOnce(id) == \A g, h \in given : g.id = id /\ h.id = id => g = h

(* Client and server share memory: what the server has attached under an id *)
(* is what every process means by it, however the table was compacted and   *)
(* whenever the listener looked at it.  Excepted are ids that two shmget    *)
(* have returned, after a fork, an exec or 32767 segments: the server goes  *)
(* on with the first.                                                       *)
SameMemory ==
  \A x \in XId, p \in Process : \A i \in DOMAIN proc[p].table :
    LET s == proc[p].table[i]
    IN  segments[x] # None /\ segments[x].id = s.id /\ GivenOnce(s.id)
          => segments[x].memory = s.memory

(* A segment that was removed stays in the table, of 64, only while its     *)
(* process has it attached.                                                 *)
RemovedGoes ==
  \A p \in Process : \A i \in DOMAIN proc[p].table :
    proc[p].table[i].marked => proc[p].table[i].mapped

(* What is attached can be read until it is detached: no other detach takes *)
(* its mapping away but that of a twin, attached under the same id.         *)
Mapped(x) == segments[x] # None /\ \E id \in DOMAIN cache : cache[id].data = segments[x]
StaysMapped ==
  [][\A x \in XId : Mapped(x) /\ ~Mapped(x)' =>
       \E y \in XId : /\ segments[y] # None /\ segments[y].id = segments[x].id
                      /\ segments[y]' # segments[y]]_vars

(* The X server comes back from every Attach, also when the client dies or  *)
(* has removed the segment, unless nobody is left who would answer: of the  *)
(* client there is only a fork without the listener thread, which holds its *)
(* socket open, or a fork or an exec has taken the accepted connection along*)
(* (sysv-shm.c:149) and its listener has closed its own copy or is gone.    *)
Orphaned ==
  /\ call # None /\ call.reply \in Unanswered
  /\ IF call.held = {} THEN \A p \in Process : proc[p].socket = call.id.socket => ~proc[p].thread
     ELSE call.listener = None
AttachReturns == call # None ~> (call = None \/ Orphaned)
=============================================================================

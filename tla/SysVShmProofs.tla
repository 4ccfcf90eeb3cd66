---------------------------- MODULE SysVShmProofs ----------------------------
(***************************************************************************)
(* Proofs about SysVShm, for every set of processes and of X resource ids,  *)
(* every size of the tables and of the socket name space, and every         *)
(* session: whoever forks, execs or dies, and whenever the listeners        *)
(* answer.                                                                  *)
(***************************************************************************)
EXTENDS SysVShm, FiniteSetTheorems, SequenceTheorems, WellFoundedInduction, TLAPS

-----------------------------------------------------------------------------
(* The table of segments of a process.                                      *)

\* The entries a table may have when shmget has returned the ids in G: each
\* is one of those, and a removed segment is mapped.
Entry(G) ==
  {e \in [id : {g.id : g \in G}, memory : {g.memory : g \in G},
          mapped : BOOLEAN, marked : BOOLEAN] :
     [id |-> e.id, memory |-> e.memory] \in G /\ (e.marked => e.mapped)}

LEMMA EntryGrows ==
  ASSUME NEW G, NEW H, G \subseteq H
  PROVE  Seq(Entry(G)) \subseteq Seq(Entry(H))
  <1>1. Entry(G) \subseteq Entry(H)
    BY DEF Entry
  <1> QED
    BY <1>1

LEMMA DeleteShape ==
  ASSUME NEW S, NEW t \in Seq(S), NEW i \in DOMAIN t
  PROVE  DeleteIndex(t, i) \in Seq(S)
  <1>1. i \in 1 .. Len(t) /\ Len(t) \in Nat
    OBVIOUS
  <1>2. SubSeq(t, 1, i - 1) \in Seq(S)
    BY <1>1, SubSeqProperties
  <1>3. SubSeq(t, i + 1, Len(t)) \in Seq(S)
    BY <1>1, SubSeqProperties
  <1> QED
    BY <1>2, <1>3, ConcatProperties DEF DeleteIndex, RemoveAt

\* shmdt, shmctl(IPC_RMID) and shmat leave a table of such entries.
LEMMA TableShape ==
  ASSUME NEW G, NEW t \in Seq(Entry(G)), NEW i \in DOMAIN t
  PROVE  /\ DeleteIndex(t, i) \in Seq(Entry(G))
         /\ ~t[i].marked => [t EXCEPT ![i].mapped = FALSE] \in Seq(Entry(G))
         /\ t[i].mapped => [t EXCEPT ![i].marked = TRUE] \in Seq(Entry(G))
         /\ [t EXCEPT ![i].mapped = TRUE] \in Seq(Entry(G))
  <1>1. t[i] \in Entry(G) /\ i \in 1 .. Len(t)
    OBVIOUS
  <1>2. \A e \in Entry(G) : [t EXCEPT ![i] = e] \in Seq(Entry(G))
    BY <1>1, ExceptSeq
  <1>3. ~t[i].marked => [t[i] EXCEPT !.mapped = FALSE] \in Entry(G)
    BY <1>1 DEF Entry
  <1>4. t[i].mapped => [t[i] EXCEPT !.marked = TRUE] \in Entry(G)
    BY <1>1 DEF Entry
  <1>5. [t[i] EXCEPT !.mapped = TRUE] \in Entry(G)
    BY <1>1 DEF Entry
  <1>6. DeleteIndex(t, i) \in Seq(Entry(G))
    BY DeleteShape
  <1> QED
    BY <1>2, <1>3, <1>4, <1>5, <1>6

\* A set of numbers that is not empty has a smallest one: WFMin cannot be had
\* for < itself, so it is taken for the intervals 0 .. n.
LEMMA SmallestExists ==
  ASSUME NEW F, F \subseteq Nat, F # {}
  PROVE  \E m \in F : \A n \in F : m <= n
  <1> DEFINE U == {0 .. k : k \in F}
  <1>1. \A k \in F : IsFiniteSet(0 .. k) /\ 0 .. k \subseteq Nat
    BY FS_Interval
  <1>2. U # {} /\ U \subseteq FiniteSubsetsOf(Nat)
    BY <1>1 DEF FiniteSubsetsOf
  <1>3. \E T \in U : \A W \in U : ~(<<W, T>> \in StrictSubsetOrdering(Nat))
    <2> HIDE DEF U
    <2>1. IsWellFoundedOn(StrictSubsetOrdering(Nat), FiniteSubsetsOf(Nat))
      BY FS_StrictSubsetOrderingWellFounded, Zenon
    <2> QED
      BY <1>2, <2>1, WFMin
  <1>4. PICK m \in F : \A n \in F : ~(<<0 .. n, 0 .. m>> \in StrictSubsetOrdering(Nat))
    BY <1>3
  <1>5. ASSUME NEW n \in F, n < m
        PROVE  FALSE
    <2>1. /\ 0 .. n \subseteq 0 .. m /\ 0 .. n # 0 .. m
          /\ 0 .. n \in SUBSET Nat /\ 0 .. m \in SUBSET Nat
      BY <1>5
    <2> QED
      BY <2>1, <1>4 DEF StrictSubsetOrdering
  <1> QED
    BY <1>5

\* What the listener thread answers is the memory of the id it was asked for.
LEMMA AnswerShape ==
  ASSUME NEW G, NEW t \in Seq(Entry(G)), NEW id
  PROVE  Answer(t, id) = Unknown \/ [id |-> id, memory |-> Answer(t, id)] \in G
  <1> DEFINE F == FindLocalIndex(t, id)
  <1>1. CASE F = {}
    BY <1>1 DEF Answer
  <1>2. CASE F # {}
    <2>1. F \subseteq Nat
      BY DEF FindLocalIndex
    <2>2. \E m \in F : \A n \in F : m <= n
      BY <1>2, <2>1, SmallestExists
    <2>3. Min(F) \in F
      BY <2>2 DEF Min
    <2>4. Min(F) \in DOMAIN t /\ t[Min(F)].id = id
      BY <2>3 DEF FindLocalIndex
    <2>5. t[Min(F)] \in Entry(G) /\ Answer(t, id) = t[Min(F)].memory
      BY <1>2, <2>4 DEF Answer
    <2> QED
      BY <2>4, <2>5 DEF Entry
  <1> QED
    BY <1>1, <1>2

-----------------------------------------------------------------------------
(* The inductive invariant.  It follows an id with its memory from shmget,  *)
(* which hands it out, to the tables, the answer of a listener, the cache   *)
(* of the server and the segments of its clients.                           *)

Given(id, memory) == [id |-> id, memory |-> memory] \in given

GivenInv == IsFiniteSet(given) /\ given \subseteq [id : ShmId, memory : Nat]

\* Every table holds what shmget has returned, also one copied by a fork.
TablesInv ==
  proc \in [Process -> [alive : BOOLEAN, socket : Sockets \cup {None}, thread : BOOLEAN,
                        counter : Nat, table : Seq(Entry(given))]]

\* An entry of the cache is of an id, with its memory, and so is its mapping.
CacheInv ==
  /\ cache \in [DOMAIN cache -> [memory : Nat, data : Buffer \cup {None}]]
  /\ \A i \in DOMAIN cache :
       /\ i \in ShmId /\ Given(i, cache[i].memory)
       /\ cache[i].data # None => cache[i].data.id = i /\ cache[i].data.memory = cache[i].memory

SegmentsInv ==
  /\ segments \in [XId -> Buffer \cup {None}]
  /\ \A x \in XId : segments[x] # None => Given(segments[x].id, segments[x].memory)

\* What a connection is, whoever holds it, and an answer that is right for its
\* id, if there is one already.
CallShape(c) ==
  c \in [xid : XId, id : ShmId, reply : {Waiting, Unknown, Closed} \cup Nat,
         listener : Process \cup {None}, held : SUBSET Process]
Right(id, reply) == reply \in {Waiting, Unknown, Closed} \/ Given(id, reply)

\* The connection is for an id the cache did not have: nothing else of the
\* server runs until it is answered, and the answer is the memory of the id.
CallInv ==
  call # None =>
    /\ CallShape(call)
    /\ call.id \notin DOMAIN cache
    /\ Right(call.id, call.reply)

Inv == GivenInv /\ TablesInv /\ CacheInv /\ SegmentsInv /\ CallInv

-----------------------------------------------------------------------------
(* A free name for the listener, and a new object for a mapping.            *)

LEMMA Wraps ==
  ASSUME NEW N \in Nat \ {0}, NEW a \in 0 .. N - 1, NEW s \in 0 .. N - 1
  PROVE  \E i \in 0 .. N - 1 : (a + i) % N = s
  <1>1. CASE s >= a
    <2>1. s - a \in 0 .. N - 1 /\ a + (s - a) = s
      BY <1>1
    <2>2. s % N = s
      OBVIOUS
    <2> QED
      BY <2>1, <2>2
  <1>2. CASE s < a
    <2>1. s - a + N \in 0 .. N - 1 /\ a + (s - a + N) = s + N
      BY <1>2
    <2>2. (s + N) % N = s
      OBVIOUS
    <2> QED
      BY <2>1, <2>2
  <1> QED
    BY <1>1, <1>2

\* A socket names at most one process less than there are names, so that the
\* search of start_listener_locked ends, at a name of the name space.
LEMMA ListenerShape ==
  ASSUME TablesInv, NEW p \in Process
  PROVE  /\ EnsureListener(p) \in [alive : BOOLEAN, socket : Sockets, thread : BOOLEAN,
                                   counter : Nat, table : Seq(Entry(given))]
         /\ EnsureListener(p).counter = proc[p].counter
         /\ EnsureListener(p).table = proc[p].table
         /\ EnsureListener(p).alive = proc[p].alive
  <1> DEFINE nth(i) == (PidOf[p] + i) % NSockets
             free == {i \in Sockets : nth(i) \notin Bound}
             good(i) == nth(i) \notin Bound /\ \A j \in 0 .. i-1 : nth(j) \in Bound
             first == CHOOSE i \in Sockets : good(i)
  <1>0. /\ proc[p] \in [alive : BOOLEAN, socket : Sockets \cup {None}, thread : BOOLEAN,
                        counter : Nat, table : Seq(Entry(given))]
        /\ NSockets \in Nat \ {0} /\ PidOf[p] \in Sockets
    BY ShmAssumption DEF TablesInv
  <1>1. CASE proc[p].socket # None
    BY <1>0, <1>1 DEF EnsureListener
  <1>2. CASE proc[p].socket = None
    <2> DEFINE Others == {proc[q].socket : q \in Process \ {p}}
    <2>1. /\ IsFiniteSet(Others) /\ Cardinality(Others) < NSockets /\ Bound \subseteq Others
      <3>1. /\ IsFiniteSet(Process \ {p})
            /\ Cardinality(Process \ {p}) = Cardinality(Process) - 1
            /\ Cardinality(Process) \in Nat
        BY FS_RemoveElement, FS_CardinalityType, ShmAssumption
      <3>2. IsFiniteSet(Others) /\ Cardinality(Others) <= Cardinality(Process \ {p})
        <4> DEFINE f == [q \in Process \ {p} |-> proc[q].socket]
        <4>1. f \in Surjection(Process \ {p}, Others)
          BY DEF Surjection
        <4> QED
          <5> HIDE DEF f
          <5> QED
            BY <3>1, <4>1, FS_Surjection
      <3>3. Bound \subseteq Others
        BY <1>2 DEF Bound
      <3>4. Cardinality(Others) \in Nat
        BY <3>2, FS_CardinalityType
      <3> QED
        BY <1>0, <3>1, <3>2, <3>3, <3>4, ShmAssumption
    <2>2. \E s \in Sockets : s \notin Bound
      <3>1. IsFiniteSet(Sockets) /\ Cardinality(Sockets) = NSockets
        BY <1>0, FS_Interval DEF Sockets
      <3>2. SUFFICES ASSUME Sockets \subseteq Others
                     PROVE  FALSE
        BY <2>1
      <3>3. Cardinality(Sockets) <= Cardinality(Others)
        BY <2>1, <3>2, FS_Subset
      <3>4. Cardinality(Others) \in Nat
        BY <2>1, FS_CardinalityType
      <3> QED
        BY <1>0, <2>1, <3>1, <3>3, <3>4
    <2>3. free # {} /\ free \subseteq Nat
      <3>1. PICK s \in Sockets : s \notin Bound
        BY <2>2
      <3>2. PICK i \in 0 .. NSockets - 1 : (PidOf[p] + i) % NSockets = s
        BY <1>0, Wraps DEF Sockets
      <3>3. i \in free
        BY <3>1, <3>2 DEF Sockets
      <3>4. Sockets \subseteq Nat
        BY <1>0 DEF Sockets
      <3> QED
        BY <3>3, <3>4
    <2>4. \E i \in free : \A j \in free : i <= j
      BY <2>3, SmallestExists
    <2>5. \E i \in Sockets : good(i)
      BY <1>0, <2>4 DEF Sockets
    <2>6. first \in Sockets
      BY <2>5
    <2>7. nth(first) \in Sockets
      <3>1. PidOf[p] + first \in Nat
        BY <1>0, <2>6 DEF Sockets
      <3>2. \A n \in Nat : n % NSockets \in 0 .. NSockets - 1
        BY <1>0
      <3> QED
        BY <3>1, <3>2 DEF Sockets
    <2>8. EnsureListener(p) = [proc[p] EXCEPT !.socket = nth(first), !.thread = TRUE]
      BY <1>2 DEF EnsureListener
    <2> QED
      <3> HIDE DEF nth, first
      <3> QED
        BY <1>0, <2>7, <2>8
  <1> QED
    BY <1>1, <1>2

\* A mapping that is made is an object nobody has: an id nothing is mapped for
\* occurs among the segments of clients only, which are too few to have every
\* object of it.
LEMMA NewBufferShape ==
  ASSUME CacheInv, SegmentsInv, NEW id \in ShmId, NEW memory \in Nat,
         id \in DOMAIN cache =>
           cache[id].data = None \/ \E x \in XId : cache[id].data = segments[x]
  PROVE  /\ NewBuffer(id, memory) \in Buffer
         /\ NewBuffer(id, memory).id = id /\ NewBuffer(id, memory).memory = memory
         /\ \A x \in XId : segments[x] # NewBuffer(id, memory)
         /\ \A i \in DOMAIN cache : cache[i].data # NewBuffer(id, memory)
  <1> DEFINE B(n) == [id |-> id, memory |-> memory, n |-> n]
             held == {segments[x] : x \in XId} \cup {cache[i].data : i \in DOMAIN cache}
             S == 0 .. Cardinality(XId)
  <1>1. Cardinality(XId) \in Nat /\ IsFiniteSet(XId)
    BY FS_CardinalityType, ShmAssumption
  <1>2. \A n \in S : B(n) \in Buffer
    BY <1>1 DEF Buffer
  <1>3. \A n \in S : B(n) \in held => \E x \in XId : segments[x] = B(n)
    <2> SUFFICES ASSUME NEW n \in S, NEW i \in DOMAIN cache, cache[i].data = B(n)
                 PROVE  \E x \in XId : segments[x] = B(n)
      OBVIOUS
    <2>1. B(n) # None
      BY <1>2, ShmAssumption
    <2>2. B(n).id = i
      BY <2>1 DEF CacheInv
    <2> QED
      BY <2>1, <2>2
  <1>4. \E n \in S : B(n) \notin held
    <2> SUFFICES ASSUME \A n \in S : B(n) \in held
                 PROVE  FALSE
      OBVIOUS
    <2> DEFINE f == [n \in S |-> CHOOSE x \in XId : segments[x] = B(n)]
    <2>1. \A n \in S : f[n] \in XId /\ segments[f[n]] = B(n)
      BY <1>3
    <2>2. \A m, n \in S : B(m) = B(n) => m = n
      OBVIOUS
    <2>3. f \in Injection(S, XId)
      <3>1. f \in [S -> XId]
        BY <2>1
      <3>2. \A m, n \in S : f[m] = f[n] => m = n
        <4> HIDE DEF f, B
        <4> QED
          BY <2>1, <2>2
      <3> QED
        BY <3>1, <3>2 DEF Injection, IsInjective
    <2>4. Cardinality(S) <= Cardinality(XId)
      <3> HIDE DEF f
      <3> QED
        BY <1>1, <2>3, FS_Injection
    <2>5. Cardinality(S) = Cardinality(XId) + 1
      BY <1>1, FS_Interval
    <2> QED
      BY <1>1, <2>4, <2>5
  <1>5. \E n \in S : B(n) \notin held /\ NewBuffer(id, memory) = B(n)
    BY <1>4 DEF NewBuffer
  <1> QED
    BY <1>2, <1>5

-----------------------------------------------------------------------------
(* The steps.                                                               *)

Proc(G) == [alive : BOOLEAN, socket : Sockets \cup {None}, thread : BOOLEAN,
            counter : Nat, table : Seq(Entry(G))]

LEMMA NewProc ==
  ASSUME NEW G
  PROVE  NoProcess \in Proc(G) /\ Fresh \in Proc(G)
  <1>1. <<>> \in Seq(Entry(G))
    OBVIOUS
  <1>2. NoProcess \in Proc(G)
    BY <1>1 DEF NoProcess, Proc
  <1>3. [NoProcess EXCEPT !.alive = TRUE] \in Proc(G)
    <2> HIDE DEF NoProcess
    <2> QED
      BY <1>2 DEF Proc
  <1> QED
    BY <1>2, <1>3 DEF Fresh

LEMMA InvInit == Init => Inv
  <1> SUFFICES ASSUME Init
               PROVE  Inv
    OBVIOUS
  <1>1. GivenInv
    BY FS_EmptySet DEF Init, GivenInv
  <1>2. TablesInv
    BY NewProc DEF Init, TablesInv, Proc
  <1>3. CacheInv
    BY DEF Init, CacheInv
  <1>4. SegmentsInv /\ CallInv
    BY DEF Init, SegmentsInv, CallInv
  <1> QED
    BY <1>1, <1>2, <1>3, <1>4 DEF Inv

\* What the steps of a client leave of the server's side.
LEMMA ServerKept ==
  ASSUME CacheInv, SegmentsInv, given \subseteq given', UNCHANGED <<cache, segments>>
  PROVE  CacheInv' /\ SegmentsInv'
  <1>1. CacheInv'
    BY DEF CacheInv, Given
  <1>2. SegmentsInv'
    BY DEF SegmentsInv, Given
  <1> QED
    BY <1>1, <1>2

LEMMA ShmgetStep ==
  ASSUME Inv, NEW p \in Process, Shmget(p)
  PROVE  Inv'
  <1> USE DEF Inv
  <1> DEFINE me == EnsureListener(p)
             id == [socket |-> me.socket, counter |-> NextCounter(me.counter)]
             memory == Cardinality(given) + 1
             entry == [id |-> id, memory |-> memory, mapped |-> FALSE, marked |-> FALSE]
             G == given \cup {[id |-> id, memory |-> memory]}
  <1>1. /\ me \in [alive : BOOLEAN, socket : Sockets, thread : BOOLEAN,
                   counter : Nat, table : Seq(Entry(given))]
        /\ Cardinality(given) \in Nat
    BY ListenerShape, FS_CardinalityType DEF GivenInv
  <1>2. /\ proc' = [proc EXCEPT ![p] = [me EXCEPT !.counter = id.counter,
                                          !.table = Append(@, entry)]]
        /\ given' = G
        /\ UNCHANGED <<cache, segments, call>>
    BY DEF Shmget, Calls
  <1>3. id \in ShmId /\ memory \in Nat
    BY <1>1, ShmAssumption DEF ShmId, NextCounter
  <1> HIDE DEF me
  <1>4. GivenInv'
    <2>1. IsFiniteSet(given')
      BY <1>2, FS_AddElement DEF GivenInv
    <2>2. given' \subseteq [id : ShmId, memory : Nat]
      <3> HIDE DEF id, memory
      <3> QED
        BY <1>2, <1>3 DEF GivenInv
    <2> QED
      BY <2>1, <2>2 DEF GivenInv
  <1>5. given \subseteq given'
    BY <1>2
  <1>6. TablesInv'
    <2>1. entry \in Entry(G)
      BY DEF Entry
    <2>2. Seq(Entry(given)) \subseteq Seq(Entry(G))
      BY EntryGrows
    <2>3. Append(me.table, entry) \in Seq(Entry(G))
      BY <1>1, <2>1, <2>2, AppendProperties
    <2>4. [me EXCEPT !.counter = id.counter, !.table = Append(@, entry)] \in Proc(G)
      <3> HIDE DEF entry, G
      <3> QED
        BY <1>1, <1>3, <2>2, <2>3 DEF Proc, ShmId
    <2>5. proc \in [Process -> Proc(G)]
      BY <2>2 DEF TablesInv, Proc
    <2> QED
      <3> HIDE DEF entry, G
      <3> QED
        BY <1>2, <2>4, <2>5 DEF TablesInv, Proc
  <1>7. CacheInv' /\ SegmentsInv'
    BY <1>2, <1>5, ServerKept
  <1>8. CallInv'
    BY <1>2, <1>5 DEF CallInv, CallShape, Right, Given
  <1> QED
    BY <1>4, <1>6, <1>7, <1>8

\* shmat, shmdt and shmctl(IPC_RMID) change one table and nothing else.
LEMMA TableStep ==
  ASSUME Inv, NEW p \in Process, NEW t \in Seq(Entry(given)),
         proc' = [proc EXCEPT ![p].table = t],
         UNCHANGED <<cache, segments, call, given>>
  PROVE  Inv'
  <1> USE DEF Inv
  <1>1. proc[p] \in Proc(given)
    BY DEF TablesInv, Proc
  <1>2. [proc[p] EXCEPT !.table = t] \in Proc(given)
    BY <1>1 DEF Proc
  <1>3. TablesInv'
    BY <1>2 DEF TablesInv, Proc
  <1>4. CacheInv' /\ SegmentsInv'
    BY ServerKept
  <1>5. GivenInv' /\ CallInv'
    BY DEF GivenInv, CallInv, CallShape, Right, Given
  <1> QED
    BY <1>3, <1>4, <1>5

\* A step that only moves the call on, which stays for the same id, leaves the
\* rest alone.
LEMMA CallStep ==
  ASSUME Inv, call # None, CallShape(call'), call'.id = call.id,
         Right(call.id, call'.reply), UNCHANGED <<cache, given>>
  PROVE  CallInv'
  <1>1. call'.id \notin DOMAIN cache'
    BY DEF Inv, CallInv
  <1>2. Right(call.id, call.reply)'
    BY DEF Right, Given
  <1>3. CallShape(call)'
    BY DEF CallShape
  <1> QED
    BY <1>1, <1>2, <1>3 DEF CallInv

\* What the end of a process leaves of the call is for the same id.
LEMMA LeftShape ==
  ASSUME NEW c, NEW p \in Process, CallShape(c), Right(c.id, c.reply)
  PROVE  /\ CallShape(Dropped(c, p)) /\ Dropped(c, p).id = c.id
         /\ Right(c.id, Dropped(c, p).reply)
         /\ CallShape(Unbound(c, p)) /\ Unbound(c, p).id = c.id
         /\ Right(c.id, Unbound(c, p).reply)
         /\ CallShape([c EXCEPT !.listener = IF @ = p THEN None ELSE @])
  <1>1. /\ CallShape(Dropped(c, p)) /\ Dropped(c, p).id = c.id
        /\ Dropped(c, p).reply \in {c.reply, Closed}
    BY DEF Dropped, CallShape
  <1>2. /\ CallShape(Unbound(c, p)) /\ Unbound(c, p).id = c.id
        /\ Unbound(c, p).reply \in {c.reply, Closed}
    BY DEF Unbound, CallShape
  <1>3. CallShape([c EXCEPT !.listener = IF @ = p THEN None ELSE @])
    BY DEF CallShape
  <1> QED
    BY <1>1, <1>2, <1>3 DEF Right

\* exit and exec.
LEMMA LeaveStep ==
  ASSUME Inv, NEW p \in Process, NEW new \in {NoProcess, Fresh}, NEW c, Leave(p, new, c),
         call # None => CallShape(c) /\ c.id = call.id /\ Right(c.id, c.reply)
  PROVE  Inv'
  <1> USE DEF Inv
  <1>1. TablesInv'
    <2>1. new \in Proc(given)
      BY NewProc
    <2> QED
      BY <2>1 DEF Leave, Calls, TablesInv, Proc
  <1>2. CacheInv' /\ SegmentsInv'
    BY ServerKept DEF Leave, Calls
  <1>3. GivenInv'
    BY DEF Leave, Calls, GivenInv
  <1>4. CallInv'
    <2>1. CASE call = None
      BY <2>1 DEF Leave, CallInv
    <2>2. CASE call # None
      <3>1. /\ CallShape(Unbound(c, p)) /\ Unbound(c, p).id = call.id
            /\ Right(call.id, Unbound(c, p).reply)
        BY <2>2, LeftShape
      <3>2. call' = Unbound(c, p) /\ UNCHANGED <<cache, given>>
        BY <2>2 DEF Leave, Calls
      <3> QED
        BY <2>2, <3>1, <3>2, CallStep
    <2> QED
      BY <2>1, <2>2
  <1> QED
    BY <1>1, <1>2, <1>3, <1>4

LEMMA ClientStep ==
  ASSUME Inv, NEW p \in Process,
         \/ Exit(p) \/ Exec(p) \/ Accept(p) \/ SendSegment(p) \/ CloseClient(p)
         \/ \E i \in 1 .. MaxSegments : Shmat(p, i) \/ Shmdt(p, i) \/ ShmctlRmid(p, i)
         \/ \E q \in Process : Fork(p, q)
  PROVE  Inv'
  <1> USE DEF Inv
  <1>1. proc[p] \in Proc(given) /\ proc[p].table \in Seq(Entry(given))
    BY DEF TablesInv, Proc
  <1>2. ASSUME NEW i \in 1 .. MaxSegments, Shmat(p, i)
        PROVE  Inv'
    <2> DEFINE t == [proc[p].table EXCEPT ![i].mapped = TRUE]
    <2>1. t \in Seq(Entry(given))
      BY <1>1, <1>2, TableShape DEF Shmat
    <2>2. proc' = [proc EXCEPT ![p].table = t] /\ UNCHANGED <<cache, segments, call, given>>
      BY <1>2 DEF Shmat, Calls
    <2> QED
      <3> HIDE DEF t
      <3> QED
        BY <2>1, <2>2, TableStep
  <1>3. ASSUME NEW i \in 1 .. MaxSegments, Shmdt(p, i)
        PROVE  Inv'
    <2> DEFINE t == Detached(proc[p].table, i)
    <2>1. t \in Seq(Entry(given))
      BY <1>1, <1>3, TableShape DEF Shmdt, Detached
    <2>2. proc' = [proc EXCEPT ![p].table = t] /\ UNCHANGED <<cache, segments, call, given>>
      BY <1>3 DEF Shmdt, Calls
    <2> QED
      <3> HIDE DEF t
      <3> QED
        BY <2>1, <2>2, TableStep
  <1>4. ASSUME NEW i \in 1 .. MaxSegments, ShmctlRmid(p, i)
        PROVE  Inv'
    <2> DEFINE t == IF proc[p].table[i].mapped THEN [proc[p].table EXCEPT ![i].marked = TRUE]
                    ELSE DeleteIndex(proc[p].table, i)
    <2>1. t \in Seq(Entry(given))
      BY <1>1, <1>4, TableShape DEF ShmctlRmid
    <2>2. proc' = [proc EXCEPT ![p].table = t] /\ UNCHANGED <<cache, segments, call, given>>
      BY <1>4 DEF ShmctlRmid, Calls
    <2> QED
      <3> HIDE DEF t
      <3> QED
        BY <2>1, <2>2, TableStep
  <1>5. ASSUME NEW q \in Process, Fork(p, q)
        PROVE  Inv'
    <2>1. [proc[p] EXCEPT !.thread = FALSE] \in Proc(given)
      BY <1>1 DEF Proc
    <2>2. TablesInv'
      BY <1>5, <2>1 DEF Fork, Calls, TablesInv, Proc
    <2>3. CacheInv' /\ SegmentsInv'
      BY <1>5, ServerKept DEF Fork, Calls
    <2>4. GivenInv'
      BY <1>5 DEF Fork, Calls, GivenInv
    <2>5. CallInv'
      <3>1. UNCHANGED <<cache, given>>
        BY <1>5 DEF Fork, Calls
      <3>2. CASE call' = call
        BY <3>1, <3>2 DEF CallInv, Right, Given, CallShape
      <3>3. CASE call # None /\ call' = [call EXCEPT !.held = @ \cup {q}]
        <4>1. CallShape(call') /\ call'.id = call.id /\ call'.reply = call.reply
          BY <3>3 DEF CallInv, CallShape
        <4> QED
          BY <3>1, <3>3, <4>1, CallStep DEF CallInv
      <3> QED
        BY <1>5, <3>2, <3>3 DEF Fork
    <2> QED
      BY <2>2, <2>3, <2>4, <2>5
  <1>6. ASSUME Exit(p) \/ Exec(p)
        PROVE  Inv'
    <2>1. CASE Exit(p)
      <3>1. Leave(p, NoProcess, Dropped(call, p))
        BY <2>1 DEF Exit
      <3>2. call # None => /\ CallShape(Dropped(call, p)) /\ Dropped(call, p).id = call.id
                           /\ Right(Dropped(call, p).id, Dropped(call, p).reply)
        BY LeftShape DEF CallInv
      <3> QED
        BY <3>1, <3>2, LeaveStep
    <2>2. CASE Exec(p)
      <3> DEFINE c == [call EXCEPT !.listener = IF @ = p THEN None ELSE @]
      <3>1. Leave(p, Fresh, c)
        BY <2>2 DEF Exec
      <3>2. call # None => CallShape(c) /\ c.id = call.id /\ c.reply = call.reply
        BY LeftShape DEF CallInv, CallShape
      <3>3. call # None => CallShape(c) /\ c.id = call.id /\ Right(c.id, c.reply)
        BY <3>2 DEF CallInv
      <3> HIDE DEF c
      <3> QED
        BY <3>1, <3>3, LeaveStep
    <2> QED
      BY <1>6, <2>1, <2>2
  <1>7. ASSUME Accept(p) \/ SendSegment(p) \/ CloseClient(p)
        PROVE  Inv'
    <2>1. /\ call # None /\ CallShape(call) /\ Right(call.id, call.reply)
          /\ UNCHANGED <<proc, cache, segments, given>>
      BY <1>7 DEF Accept, SendSegment, CloseClient, Calls, CallInv
    <2>2. CASE Accept(p)
      <3>1. CallShape(call') /\ call'.id = call.id /\ call'.reply = call.reply
        BY <2>1, <2>2 DEF Accept, CallShape
      <3> QED
        BY <2>1, <3>1, CallStep, ServerKept DEF TablesInv, GivenInv
    <2>3. CASE SendSegment(p)
      <3> DEFINE a == Answer(proc[p].table, call.id)
      <3>1. a = Unknown \/ (a \in Nat /\ Given(call.id, a))
        BY <1>1, AnswerShape DEF Given, GivenInv
      <3>2. call' = [call EXCEPT !.reply = a]
        BY <2>3 DEF SendSegment
      <3> HIDE DEF a
      <3>3. CallShape(call') /\ call'.id = call.id /\ Right(call.id, call'.reply)
        BY <2>1, <3>1, <3>2 DEF CallShape, Right
      <3> QED
        BY <2>1, <3>3, CallStep, ServerKept DEF TablesInv, GivenInv
    <2>4. CASE CloseClient(p)
      <3>1. CallShape(call') /\ call'.id = call.id /\ Right(call.id, call'.reply)
        BY <2>1, <2>4, LeftShape DEF CloseClient
      <3> QED
        BY <2>1, <3>1, CallStep, ServerKept DEF TablesInv, GivenInv
    <2> QED
      BY <1>7, <2>2, <2>3, <2>4
  <1> QED
    BY <1>2, <1>3, <1>4, <1>5, <1>6, <1>7

\* A detach takes the mapping from the entry that has it and from no other.
LEMMA UnmapShape ==
  ASSUME CacheInv, NEW b \in Buffer, NEW c, c = Unmap(cache, b)
  PROVE  /\ c \in [DOMAIN cache -> [memory : Nat, data : Buffer \cup {None}]]
         /\ \A i \in DOMAIN cache :
              /\ c[i].memory = cache[i].memory /\ c[i].data # b
              /\ cache[i].data # b => c[i].data = cache[i].data
              /\ c[i].data \in {cache[i].data, None}
  <1> SUFFICES ASSUME NEW i \in DOMAIN cache
               PROVE  /\ c[i] \in [memory : Nat, data : Buffer \cup {None}]
                      /\ c[i].memory = cache[i].memory /\ c[i].data # b
                      /\ cache[i].data # b => c[i].data = cache[i].data
                      /\ c[i].data \in {cache[i].data, None}
    BY DEF Unmap
  <1>1. cache[i] \in [memory : Nat, data : Buffer \cup {None}] /\ b # None
    BY ShmAssumption DEF CacheInv
  <1>2. c[i] = IF cache[i].data = b THEN [cache[i] EXCEPT !.data = None] ELSE cache[i]
    BY DEF Unmap
  <1> QED
    BY <1>1, <1>2

\* The buffer SysVSharedMemory.attach returns: that of the entry, which maps it
\* from now on.
Attached(c, id) == IF c[id].data = None THEN NewBuffer(id, c[id].memory) ELSE c[id].data

\* An attach of an entry that is there, after a detach or the answer of a
\* client: c is the cache, to which no entry was added but this one.
LEMMA AttachStep ==
  ASSUME Inv, NEW x \in XId, NEW id \in ShmId, NEW c, id \in DOMAIN c,
         c \in [DOMAIN c -> [memory : Nat, data : Buffer \cup {None}]],
         Given(id, c[id].memory),
         \A i \in DOMAIN c \ {id} :
           i \in DOMAIN cache /\ c[i].memory = cache[i].memory
             /\ c[i].data \in {cache[i].data, None},
         c[id].data # None =>
           /\ id \in DOMAIN cache /\ c[id].memory = cache[id].memory
           /\ c[id].data = cache[id].data,
         id \in DOMAIN cache /\ c[id].data = None =>
           cache[id].data = None \/ \E y \in XId : cache[id].data = segments[y],
         AttachCached(c, x, id), UNCHANGED given
  PROVE  /\ CacheInv' /\ SegmentsInv'
         /\ Attached(c, id) \in Buffer
         /\ cache' = [c EXCEPT ![id].data = Attached(c, id)]
         /\ segments' = [segments EXCEPT ![x] = Attached(c, id)]
         /\ c[id].data = None => \A y \in XId : segments[y] # Attached(c, id)
  <1> USE DEF Inv
  <1> DEFINE b == Attached(c, id)
  <1>1. cache' = [c EXCEPT ![id].data = b] /\ segments' = [segments EXCEPT ![x] = b]
    BY DEF AttachCached, Attached
  <1>2. /\ b \in Buffer /\ b.id = id /\ b.memory = c[id].memory
        /\ c[id].data = None => \A y \in XId : segments[y] # b
    <2>1. CASE c[id].data = None
      <3>1. c[id].memory \in Nat /\ b = NewBuffer(id, c[id].memory)
        BY <2>1 DEF Attached
      <3>2. id \in DOMAIN cache =>
              cache[id].data = None \/ \E y \in XId : cache[id].data = segments[y]
        BY <2>1
      <3> QED
        BY <3>1, <3>2, NewBufferShape
    <2>2. CASE c[id].data # None
      <3>1. b = c[id].data
        BY <2>2 DEF Attached
      <3> QED
        BY <2>2, <3>1 DEF CacheInv
    <2> QED
      BY <2>1, <2>2
  <1> HIDE DEF b
  <1>3. b # None
    BY <1>2, ShmAssumption
  <1>4. /\ DOMAIN cache' = DOMAIN c
        /\ cache'[id] = [c[id] EXCEPT !.data = b]
        /\ \A i \in DOMAIN c \ {id} : cache'[i] = c[i]
    BY <1>1
  <1>5. /\ cache'[id] \in [memory : Nat, data : Buffer \cup {None}]
        /\ cache'[id].memory = c[id].memory /\ cache'[id].data = b
    BY <1>2, <1>4
  <1>6. CacheInv'
    <2>1. cache' \in [DOMAIN cache' -> [memory : Nat, data : Buffer \cup {None}]]
      BY <1>1, <1>4, <1>5
    <2>2. ASSUME NEW i \in DOMAIN c
          PROVE  /\ i \in ShmId /\ Given(i, cache'[i].memory)
                 /\ cache'[i].data # None =>
                      cache'[i].data.id = i /\ cache'[i].data.memory = cache'[i].memory
      <3>1. CASE i = id
        BY <1>2, <1>5, <3>1
      <3>2. CASE i # id
        BY <1>4, <3>2 DEF CacheInv
      <3> QED
        BY <3>1, <3>2
    <2>3. \A i, m : Given(i, m)' <=> Given(i, m)
      BY DEF Given
    <2> QED
      BY <1>4, <2>1, <2>2, <2>3 DEF CacheInv
  <1>7. SegmentsInv'
    BY <1>1, <1>2 DEF SegmentsInv, Given
  <1> QED
    BY <1>1, <1>2, <1>6, <1>7 DEF b

\* What StaysMapped says of a step.
Keeps ==
  \A x \in XId : Mapped(x) /\ ~Mapped(x)' =>
    \E y \in XId : /\ segments[y] # None /\ segments[y].id = segments[x].id
                   /\ segments[y]' # segments[y]

LEMMA FinishAttachStep ==
  ASSUME Inv, FinishAttach
  PROVE  Inv' /\ Keeps
  <1> USE DEF Inv
  <1>1. /\ call \in [xid : XId, id : ShmId, reply : {Waiting, Unknown, Closed} \cup Nat,
                      listener : Process \cup {None}, held : SUBSET Process]
        /\ call.id \notin DOMAIN cache
        /\ call.reply = Closed \/ Given(call.id, call.reply)
        /\ call' = None /\ UNCHANGED <<proc, given>>
    BY DEF FinishAttach, CallInv, CallShape, Right, Unanswered
  <1>2. TablesInv' /\ GivenInv' /\ CallInv'
    BY <1>1 DEF TablesInv, GivenInv, CallInv
  <1>3. CASE call.reply = Closed
    <2>1. UNCHANGED <<cache, segments, given>>
      BY <1>1, <1>3 DEF FinishAttach
    <2>2. CacheInv' /\ SegmentsInv'
      BY <2>1, ServerKept
    <2>3. Keeps
      BY <2>1 DEF Keeps, Mapped
    <2> QED
      BY <1>2, <2>2, <2>3
  <1>4. CASE call.reply # Closed
    <2> DEFINE entry == [memory |-> call.reply, data |-> None]
               c == [i \in DOMAIN cache \cup {call.id} |->
                       IF i = call.id THEN entry ELSE cache[i]]
    <2>1. AttachCached(c, call.xid, call.id)
      BY <1>4, <1>1 DEF FinishAttach
    <2>2. call.reply \in Nat /\ Given(call.id, call.reply)
      BY <1>1, <1>4 DEF GivenInv, Given
    <2>3. /\ DOMAIN c = DOMAIN cache \cup {call.id}
          /\ c[call.id] = entry /\ \A i \in DOMAIN cache : c[i] = cache[i]
      BY <1>1
    <2>4. c \in [DOMAIN c -> [memory : Nat, data : Buffer \cup {None}]]
      BY <2>2 DEF CacheInv
    <2>5. c[call.id].data = None /\ c[call.id].memory = call.reply
      BY <2>3
    <2> HIDE DEF c
    <2> DEFINE b == Attached(c, call.id)
    <2>6. /\ CacheInv' /\ SegmentsInv' /\ b \in Buffer
          /\ cache' = [c EXCEPT ![call.id].data = b]
          /\ segments' = [segments EXCEPT ![call.xid] = b]
      BY <1>1, <2>1, <2>2, <2>3, <2>4, <2>5, AttachStep
    <2> HIDE DEF b
    <2>7. Keeps
      <3> SUFFICES ASSUME NEW x \in XId, Mapped(x)
                   PROVE  Mapped(x)'
        BY DEF Keeps
      <3>1. PICK i \in DOMAIN cache : cache[i].data = segments[x]
        BY DEF Mapped
      <3>2. cache'[i].data = segments[x] /\ i \in DOMAIN cache'
        BY <1>1, <2>3, <2>6, <3>1
      <3>3. CASE x = call.xid
        <4>1. segments'[x] = b /\ b # None
          BY <1>1, <2>6, <3>3, ShmAssumption DEF SegmentsInv
        <4>2. call.id \in DOMAIN cache' /\ cache'[call.id].data = b
          <5>1. c[call.id] \in [memory : Nat, data : Buffer \cup {None}]
            BY <2>3, <2>4
          <5>2. cache'[call.id] = [c[call.id] EXCEPT !.data = b]
            BY <2>3, <2>6
          <5> QED
            BY <2>3, <2>6, <5>1, <5>2
        <4> QED
          BY <4>1, <4>2 DEF Mapped
      <3>4. CASE x # call.xid
        BY <2>6, <3>2, <3>4 DEF Mapped
      <3> QED
        BY <3>3, <3>4
    <2> QED
      BY <1>2, <2>6, <2>7
  <1> QED
    BY <1>3, <1>4

LEMMA DetachStep ==
  ASSUME Inv, NEW x \in XId, Detach(x)
  PROVE  Inv' /\ Keeps
  <1> USE DEF Inv
  <1> DEFINE b == segments[x]
  <1>1. /\ b \in Buffer /\ b # None
        /\ cache' = Unmap(cache, b) /\ segments' = [segments EXCEPT ![x] = None]
        /\ call = None /\ UNCHANGED <<proc, call, given>>
    BY DEF Detach, SegmentsInv
  <1>2. TablesInv' /\ GivenInv' /\ CallInv'
    BY <1>1 DEF TablesInv, GivenInv, CallInv
  <1>3. SegmentsInv'
    BY <1>1 DEF SegmentsInv, Given
  <1>4. /\ cache' \in [DOMAIN cache -> [memory : Nat, data : Buffer \cup {None}]]
        /\ DOMAIN cache' = DOMAIN cache
        /\ \A i \in DOMAIN cache :
             /\ cache'[i].memory = cache[i].memory
             /\ cache[i].data # b => cache'[i].data = cache[i].data
             /\ cache'[i].data \in {cache[i].data, None}
    <2>1. PICK c : c = Unmap(cache, b)
      OBVIOUS
    <2> QED
      BY <1>1, <2>1, UnmapShape
  <1>5. CacheInv'
    BY <1>1, <1>4 DEF CacheInv, Given
  <1>6. Keeps
    <2> SUFFICES ASSUME NEW y \in XId, Mapped(y), segments[y] # b
                 PROVE  Mapped(y)'
      <3>1. segments'[x] # segments[x]
        BY <1>1 DEF SegmentsInv
      <3> QED
        BY <1>1, <3>1 DEF Keeps
    <2>1. y # x /\ segments'[y] = segments[y]
      BY <1>1 DEF SegmentsInv
    <2>2. PICK i \in DOMAIN cache : cache[i].data = segments[y]
      BY DEF Mapped
    <2> QED
      BY <1>4, <2>1, <2>2 DEF Mapped
  <1> QED
    BY <1>2, <1>3, <1>5, <1>6

LEMMA BeginAttachStep ==
  ASSUME Inv, NEW x \in XId, NEW id \in Ids, BeginAttach(x, id)
  PROVE  Inv' /\ Keeps
  <1> USE DEF Inv
  <1> DEFINE c == IF segments[x] = None THEN cache ELSE Unmap(cache, segments[x])
  <1>1. /\ call = None /\ UNCHANGED <<proc, given>>
        /\ id \in ShmId
        /\ id \in DOMAIN cache => AttachCached(c, x, id) /\ call' = call
        /\ id \notin DOMAIN cache =>
             /\ cache' = c /\ segments' = [segments EXCEPT ![x] = None]
             /\ call' \in {None, [xid |-> x, id |-> id, reply |-> Waiting,
                               listener |-> None, held |-> {}]}
    BY DEF BeginAttach, Ids, GivenInv
  <1>2. /\ c \in [DOMAIN c -> [memory : Nat, data : Buffer \cup {None}]]
        /\ DOMAIN c = DOMAIN cache
        /\ \A i \in DOMAIN cache :
             /\ c[i].memory = cache[i].memory
             /\ c[i].data \in {cache[i].data, None}
             /\ segments[x] # None => c[i].data # segments[x]
             /\ cache[i].data # segments[x] => c[i].data = cache[i].data
             /\ c[i].data = None => cache[i].data \in {None, segments[x]}
    <2>1. CASE segments[x] = None
      BY <2>1 DEF CacheInv
    <2>2. CASE segments[x] # None
      <3>1. PICK u : u = Unmap(cache, segments[x])
        OBVIOUS
      <3>2. segments[x] \in Buffer
        BY <2>2 DEF SegmentsInv
      <3>3. c = u
        BY <2>2, <3>1
      <3> HIDE DEF c
      <3> QED
        BY <2>2, <3>1, <3>2, <3>3, UnmapShape
    <2> QED
      BY <2>1, <2>2
  <1> HIDE DEF c
  <1>3. TablesInv' /\ GivenInv'
    BY <1>1 DEF TablesInv, GivenInv
  \* A mapping that another segment has stays.
  <1>4. ASSUME NEW y \in XId, Mapped(y), segments[y] # segments[x]
        PROVE  \E i \in DOMAIN c : c[i].data = segments[y] /\ c[i].data # None
    BY <1>2, <1>4 DEF Mapped
  <1>5. CASE id \in DOMAIN cache
    <2> DEFINE b == Attached(c, id)
    <2>1. Given(id, c[id].memory)
      BY <1>2, <1>5 DEF CacheInv
    <2>2. /\ c[id].data # None => c[id].data = cache[id].data
          /\ c[id].data = None =>
               cache[id].data = None \/ \E y \in XId : cache[id].data = segments[y]
      BY <1>2, <1>5
    <2>3. /\ CacheInv' /\ SegmentsInv' /\ b \in Buffer
          /\ cache' = [c EXCEPT ![id].data = b]
          /\ segments' = [segments EXCEPT ![x] = b]
          /\ c[id].data = None => \A y \in XId : segments[y] # b
      BY <1>1, <1>2, <1>5, <2>1, <2>2, AttachStep
    <2>4. CallInv'
      BY <1>1, <1>5 DEF CallInv
    <2>5. c[id].data # None => b = c[id].data
      BY DEF Attached
    <2> HIDE DEF b
    <2>6. DOMAIN cache' = DOMAIN c /\ cache'[id].data = b
      <3>1. c[id] \in [memory : Nat, data : Buffer \cup {None}]
        BY <1>2, <1>5
      <3>2. DOMAIN cache' = DOMAIN c /\ cache'[id] = [c[id] EXCEPT !.data = b]
        BY <1>2, <1>5, <2>3
      <3> QED
        BY <3>1, <3>2
    <2>7. \A i \in DOMAIN c : c[i].data # None => cache'[i].data = c[i].data
      BY <2>3, <2>5, <2>6
    <2>8. b # None /\ segments'[x] = b
      BY <2>3, ShmAssumption DEF SegmentsInv
    <2>9. Mapped(x)'
      BY <1>2, <1>5, <2>6, <2>8 DEF Mapped
    <2>10. segments[x] # None => b # segments[x]
      BY <1>2, <1>5, <2>3, <2>5
    <2>11. Keeps
      <3> SUFFICES ASSUME NEW y \in XId, Mapped(y), ~Mapped(y)'
                   PROVE  segments[y] = segments[x] /\ segments[x] # None /\ segments'[x] # segments[x]
        BY DEF Keeps
      <3>1. y # x /\ segments'[y] = segments[y]
        BY <2>3, <2>9 DEF SegmentsInv
      <3>2. segments[y] = segments[x]
        BY <1>4, <2>6, <2>7, <3>1 DEF Mapped
      <3> QED
        BY <2>8, <2>10, <3>2 DEF Mapped
    <2> QED
      BY <1>3, <2>3, <2>4, <2>11
  <1>6. CASE id \notin DOMAIN cache
    <2>1. cache' = c /\ segments' = [segments EXCEPT ![x] = None]
      BY <1>1, <1>6
    <2>2. CacheInv'
      BY <1>1, <1>2, <2>1 DEF CacheInv, Given
    <2>3. SegmentsInv'
      BY <1>1, <2>1 DEF SegmentsInv, Given
    <2>4. CallInv'
      BY <1>1, <1>2, <1>6, <2>1 DEF CallInv, CallShape, Right
    <2>5. Keeps
      <3> SUFFICES ASSUME NEW y \in XId, Mapped(y), ~Mapped(y)'
                   PROVE  segments[y] = segments[x] /\ segments[x] # None /\ segments'[x] # segments[x]
        BY DEF Keeps
      <3>1. segments'[x] = None
        BY <2>1 DEF SegmentsInv
      <3>2. segments[y] = segments[x]
        <4> SUFFICES ASSUME segments[y] # segments[x]
                     PROVE  FALSE
          OBVIOUS
        <4>1. segments'[y] = segments[y]
          BY <2>1 DEF SegmentsInv
        <4> QED
          BY <1>4, <2>1, <4>1 DEF Mapped
      <3> QED
        BY <3>1, <3>2 DEF Mapped
    <2> QED
      BY <1>3, <2>2, <2>3, <2>4, <2>5
  <1> QED
    BY <1>5, <1>6

-----------------------------------------------------------------------------
LEMMA InvStep == Inv /\ [Next]_vars => Inv' /\ (Keeps \/ UNCHANGED vars)
  <1> SUFFICES ASSUME Inv, [Next]_vars
               PROVE  Inv' /\ (Keeps \/ UNCHANGED vars)
    OBVIOUS
  <1>1. ASSUME UNCHANGED vars
        PROVE  Inv'
    BY <1>1 DEF vars, Inv, GivenInv, TablesInv, CacheInv, SegmentsInv, CallInv, CallShape, Right, Given
  <1>2. ASSUME NEW p \in Process, Shmget(p)
        PROVE  Inv' /\ UNCHANGED <<cache, segments>>
    BY <1>2, ShmgetStep DEF Shmget, Calls
  <1>3. ASSUME NEW p \in Process,
               \/ Exit(p) \/ Exec(p) \/ Accept(p) \/ SendSegment(p) \/ CloseClient(p)
               \/ \E i \in 1 .. MaxSegments : Shmat(p, i) \/ Shmdt(p, i) \/ ShmctlRmid(p, i)
               \/ \E q \in Process : Fork(p, q)
        PROVE  Inv' /\ UNCHANGED <<cache, segments>>
    BY <1>3, ClientStep
       DEF Exit, Exec, Leave, Accept, SendSegment, CloseClient, Shmat, Shmdt, ShmctlRmid, Fork, Calls
  <1>4. UNCHANGED <<cache, segments>> => Keeps
    BY DEF Keeps, Mapped
  <1> QED
    BY <1>1, <1>2, <1>3, <1>4, FinishAttachStep, DetachStep, BeginAttachStep DEF Next

\* Whatever the clients and the server do, tables, answers, cache and segments
\* hold ids that shmget has returned, each with its memory.
THEOREM IdsKeepTheirMemory == Spec => []Inv
  BY InvInit, InvStep, PTL DEF Spec

\* What the server attached under an id is what every process means by it: the
\* descriptor find_local_index_by_id finds and listen_thread sends is that of
\* the id, and SysVSharedMemory.attach keeps it under that id.
THEOREM ServerAndClientsShare == Spec => []SameMemory
  <1>1. Inv => SameMemory
    <2> SUFFICES ASSUME Inv, NEW x \in XId, NEW p \in Process, NEW i \in DOMAIN proc[p].table,
                        segments[x] # None, segments[x].id = proc[p].table[i].id,
                        GivenOnce(proc[p].table[i].id)
                 PROVE  segments[x].memory = proc[p].table[i].memory
      BY DEF SameMemory
    <2> DEFINE s == proc[p].table[i]
    <2>1. s \in Entry(given)
      BY DEF Inv, TablesInv
    <2>2. Given(s.id, s.memory) /\ Given(s.id, segments[x].memory)
      BY <2>1 DEF Inv, SegmentsInv, Entry, Given
    <2> HIDE DEF s
    <2>3. [id |-> s.id, memory |-> s.memory] = [id |-> s.id, memory |-> segments[x].memory]
      BY <2>2 DEF Given, GivenOnce, s
    <2> QED
      BY <2>3 DEF s
  <1> QED
    BY <1>1, IdsKeepTheirMemory, PTL

\* shmdt and shmctl(IPC_RMID) never leave a removed segment that nobody has
\* mapped in the table of 64.
THEOREM RemovedSegmentsGo == Spec => []RemovedGoes
  <1>1. Inv => RemovedGoes
    <2> SUFFICES ASSUME Inv, NEW p \in Process, NEW i \in DOMAIN proc[p].table
                 PROVE  proc[p].table[i].marked => proc[p].table[i].mapped
      BY DEF RemovedGoes
    <2>1. proc[p].table \in Seq(Entry(given))
      BY DEF Inv, TablesInv
    <2>2. proc[p].table[i] \in Entry(given)
      BY <2>1
    <2> QED
      BY <2>2 DEF Entry
  <1> QED
    BY <1>1, IdsKeepTheirMemory, PTL

\* SysVSharedMemory.detach and unmap take a mapping away only with a segment of
\* the same id: buffers are told apart by identity, and a new one is a new object.
THEOREM MappingsStay == Spec => StaysMapped
  <1>1. Inv /\ [Next]_vars => [Keeps]_vars
    BY InvStep
  <1> QED
    BY <1>1, IdsKeepTheirMemory, PTL DEF Spec, StaysMapped, Keeps

=============================================================================

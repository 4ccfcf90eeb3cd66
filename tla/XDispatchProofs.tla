-------------------------- MODULE XDispatchProofs --------------------------
(***************************************************************************)
(* Proofs about XDispatch, for every set of clients, of SYNC ids, of        *)
(* sessions and every number of requests: whatever requests the clients     *)
(* send, however they are cut into reads and whenever a client goes.        *)
(***************************************************************************)
EXTENDS XDispatch, SequenceTheorems, FiniteSetTheorems, TLAPS

-----------------------------------------------------------------------------
(* Sequences: the stack, and the list of clients. *)

\* What a sequence is after an element has been put in front of it.
LEMMA Pushed ==
  ASSUME NEW S, NEW s \in Seq(S), NEW f \in S
  PROVE  /\ <<f>> \o s \in Seq(S)
         /\ <<f>> \o s # <<>>
         /\ Len(<<f>> \o s) = Len(s) + 1
         /\ Head(<<f>> \o s) = f
         /\ Tail(<<f>> \o s) = s
         /\ (<<f>> \o s)[1] = f
         /\ \A i \in 1 .. Len(s) : (<<f>> \o s)[i + 1] = s[i]
         /\ ToSet(<<f>> \o s) = {f} \cup ToSet(s)
  <1> DEFINE t == <<f>> \o s
  <1>1. /\ t \in Seq(S) /\ Len(t) = Len(s) + 1 /\ Len(s) \in Nat
        /\ \A i \in 1 .. Len(s) + 1 : t[i] = IF i = 1 THEN f ELSE s[i - 1]
    BY <<f>> \in Seq(S), Len(<<f>>) = 1, ConcatProperties
  <1> HIDE DEF t
  <1>2. t # <<>> /\ Head(t) = f /\ t[1] = f
    BY <1>1
  <1>3. \A i \in 1 .. Len(s) : t[i + 1] = s[i]
    BY <1>1
  <1>4. Tail(t) = s
    <2>1. /\ Tail(t) \in Seq(S) /\ Len(Tail(t)) = Len(s)
          /\ \A i \in 1 .. Len(s) : Tail(t)[i] = t[i + 1]
      BY <1>1, <1>2, HeadTailProperties
    <2> QED
      BY <2>1, <1>3, SeqEqual
  <1>5. ToSet(t) = {f} \cup ToSet(s)
    <2>1. ASSUME NEW x \in ToSet(t) PROVE x = f \/ x \in ToSet(s)
      <3>1. PICK i \in 1 .. Len(s) + 1 : x = t[i]
        BY <1>1 DEF ToSet
      <3>2. CASE i = 1
        BY <3>1, <3>2, <1>2
      <3>3. CASE i # 1
        <4>1. i - 1 \in DOMAIN s /\ x = s[i - 1]
          BY <3>1, <3>3, <1>1
        <4> QED
          BY <4>1 DEF ToSet
      <3> QED
        BY <3>2, <3>3
    <2>2. f \in ToSet(t)
      <3>1. 1 \in DOMAIN t /\ t[1] = f
        BY <1>1
      <3> QED
        BY <3>1 DEF ToSet
    <2>3. ASSUME NEW i \in DOMAIN s PROVE s[i] \in ToSet(t)
      <3>1. i + 1 \in DOMAIN t /\ t[i + 1] = s[i]
        BY <1>1
      <3> QED
        BY <3>1 DEF ToSet
    <2> QED
      BY <2>1, <2>2, <2>3 DEF ToSet
  <1> QED
    BY <1>1, <1>2, <1>3, <1>4, <1>5 DEF t

\* What a sequence is before its first element is taken away.
LEMMA Popped ==
  ASSUME NEW S, NEW s \in Seq(S), s # <<>>
  PROVE  /\ Head(s) \in S
         /\ Tail(s) \in Seq(S)
         /\ Head(s) = s[1]
         /\ Len(Tail(s)) = Len(s) - 1
         /\ \A i \in 1 .. Len(Tail(s)) : Tail(s)[i] = s[i + 1]
         /\ ToSet(s) = {Head(s)} \cup ToSet(Tail(s))
  <1>1. /\ Head(s) \in S /\ Tail(s) \in Seq(S) /\ Head(s) = s[1]
        /\ Len(Tail(s)) = Len(s) - 1 /\ Len(s) \in Nat \ {0}
        /\ \A i \in 1 .. Len(Tail(s)) : Tail(s)[i] = s[i + 1]
    BY HeadTailProperties, EmptySeq
  <1> DEFINE t == <<Head(s)>> \o Tail(s)
  <1>2. /\ t \in Seq(S) /\ Len(t) = Len(s) /\ t[1] = s[1]
        /\ \A i \in 1 .. Len(Tail(s)) : t[i + 1] = s[i + 1]
        /\ ToSet(t) = {Head(s)} \cup ToSet(Tail(s))
    <2> DEFINE h == Head(s)  r == Tail(s)
    <2>1. h \in S /\ r \in Seq(S) /\ t = <<h>> \o r
      BY <1>1
    <2> HIDE DEF h, r, t
    <2>2. /\ t \in Seq(S) /\ Len(t) = Len(r) + 1 /\ t[1] = h
          /\ \A i \in 1 .. Len(r) : t[i + 1] = r[i]
          /\ ToSet(t) = {h} \cup ToSet(r)
      BY <2>1, Pushed
    <2> QED
      BY <1>1, <2>2 DEF h, r
  <1> HIDE DEF t
  <1>3. s = t
    <2>1. ASSUME NEW i \in 1 .. Len(s) PROVE s[i] = t[i]
      <3>1. CASE i = 1
        BY <3>1, <1>2
      <3>2. CASE i # 1
        <4>1. i - 1 \in 1 .. Len(Tail(s)) /\ (i - 1) + 1 = i
          BY <3>2, <1>1
        <4> QED
          BY <4>1, <1>2
      <3> QED
        BY <3>1, <3>2
    <2> QED
      BY <2>1, <1>2, SeqEqual
  <1> QED
    BY <1>1, <1>2, <1>3

\* A sequence of two frames.
LEMMA PairIsPush ==
  ASSUME NEW f, NEW g
  PROVE  <<f>> \o <<g>> = <<f, g>>
  <1> DEFINE S == {f, g}
             t == <<f>> \o <<g>>
             u == <<f, g>>
  <1>1. /\ t \in Seq(S) /\ Len(t) = 2 /\ t[1] = f /\ t[2] = g
    <2>1. <<g>> \in Seq(S) /\ Len(<<g>>) = 1 /\ <<g>>[1] = g /\ f \in S
      OBVIOUS
    <2> HIDE DEF S
    <2>2. /\ t \in Seq(S) /\ Len(t) = Len(<<g>>) + 1 /\ t[1] = f
          /\ \A i \in 1 .. Len(<<g>>) : t[i + 1] = <<g>>[i]
      BY <2>1, Pushed
    <2> HIDE DEF t
    <2> QED
      BY <2>1, <2>2
  <1>2. u \in Seq(S) /\ Len(u) = 2 /\ u[1] = f /\ u[2] = g
    OBVIOUS
  <1> HIDE DEF S, t, u
  <1>3. \A i \in 1 .. Len(t) : t[i] = u[i]
    BY <1>1, <1>2
  <1>4. t = u
    BY <1>1, <1>2, <1>3, SeqEqual
  <1> QED
    BY <1>4 DEF t, u

\* List.add on a list that does not hold the element yet.
LEMMA Added ==
  ASSUME NEW S, NEW s \in Seq(S), NEW c \in S, c \notin ToSet(s),
         \A i, j \in DOMAIN s : s[i] = s[j] => i = j
  PROVE  /\ Append(s, c) \in Seq(S)
         /\ ToSet(Append(s, c)) = ToSet(s) \cup {c}
         /\ \A i, j \in DOMAIN Append(s, c) :
              Append(s, c)[i] = Append(s, c)[j] => i = j
  <1> DEFINE t == Append(s, c)
  <1>1. /\ t \in Seq(S) /\ Len(t) = Len(s) + 1 /\ Len(s) \in Nat
        /\ \A i \in 1 .. Len(s) : t[i] = s[i]
        /\ t[Len(s) + 1] = c
    BY AppendProperties
  <1> HIDE DEF t
  <1>2. DOMAIN t = 1 .. Len(s) + 1 /\ DOMAIN s = 1 .. Len(s)
    BY <1>1
  <1>3. \A i \in DOMAIN s : s[i] # c /\ s[i] \in ToSet(s)
    BY DEF ToSet
  <1>4. ToSet(t) = ToSet(s) \cup {c}
    <2>1. ASSUME NEW i \in DOMAIN t PROVE t[i] \in ToSet(s) \cup {c}
      BY <1>1, <1>2, <1>3
    <2>2. \A i \in DOMAIN s : s[i] \in ToSet(t)
      BY <1>1, <1>2 DEF ToSet
    <2>3. c \in ToSet(t)
      <3>1. Len(s) + 1 \in DOMAIN t
        BY <1>1, <1>2
      <3> QED
        BY <3>1, <1>1 DEF ToSet
    <2> QED
      BY <2>1, <2>2, <2>3 DEF ToSet
  <1>5. \A i, j \in DOMAIN t : t[i] = t[j] => i = j
    BY <1>1, <1>2, <1>3
  <1> QED
    BY <1>1, <1>4, <1>5 DEF t

\* List.remove(Object) on a list that holds no element twice.
LEMMA Removed ==
  ASSUME NEW S, NEW s \in Seq(S), NEW c \in ToSet(s),
         \A i, j \in DOMAIN s : s[i] = s[j] => i = j
  PROVE  /\ RemoveFirst(s, c) \in Seq(S)
         /\ ToSet(RemoveFirst(s, c)) = ToSet(s) \ {c}
         /\ \A i, j \in DOMAIN RemoveFirst(s, c) :
              RemoveFirst(s, c)[i] = RemoveFirst(s, c)[j] => i = j
  <1>1. PICK k \in 1 .. Len(s) : s[k] = c
    BY DEF ToSet
  <1>2. SelectInSeq(s, LAMBDA v : v = c) = k
    <2>1. {i \in 1 .. Len(s) : s[i] = c} = {k}
      BY <1>1
    <2>2. Min({k}) = k
      BY DEF Min
    <2> QED
      BY <2>1, <2>2 DEF SelectInSeq
  <1>3. RemoveFirst(s, c) = RemoveAt(s, k)
    BY <1>1, <1>2 DEF RemoveFirst
  <1>4. /\ RemoveAt(s, k) \in Seq(S)
        /\ Len(RemoveAt(s, k)) = Len(s) - 1
        /\ \A i \in 1 .. Len(s) - 1 :
             RemoveAt(s, k)[i] = IF i < k THEN s[i] ELSE s[i + 1]
    <2>0. k \in Nat /\ Len(s) \in Nat /\ 1 <= k /\ k <= Len(s)
      OBVIOUS
    <2> DEFINE u == SubSeq(s, 1, k - 1)  v == SubSeq(s, k + 1, Len(s))
    <2>1. /\ u \in Seq(S) /\ Len(u) = k - 1
          /\ \A i \in 1 .. k - 1 : u[i] = s[i]
      BY <2>0
    <2>2. /\ v \in Seq(S) /\ Len(v) = Len(s) - k
          /\ \A i \in 1 .. Len(s) - k : v[i] = s[k + i]
      <3>1. \A i \in k + 1 .. Len(s) : s[i] \in S
        BY <2>0
      <3> QED
        BY <2>0, <3>1, SubSeqProperties
    <2>3. RemoveAt(s, k) = u \o v
      BY DEF RemoveAt
    <2> HIDE DEF u, v
    <2>4. /\ u \o v \in Seq(S) /\ Len(u \o v) = Len(u) + Len(v)
          /\ \A i \in 1 .. Len(u) + Len(v) :
               (u \o v)[i] = IF i <= Len(u) THEN u[i] ELSE v[i - Len(u)]
      BY <2>1, <2>2, ConcatProperties, ZenonT(30)
    <2> QED
      BY <2>0, <2>1, <2>2, <2>3, <2>4
  <1>5. \A i \in DOMAIN s : s[i] # c <=> i # k
    BY <1>1
  <1>6. ToSet(RemoveAt(s, k)) = ToSet(s) \ {c}
    <2> DEFINE t == RemoveAt(s, k)
    <2>1. DOMAIN t = 1 .. Len(s) - 1 /\ DOMAIN s = 1 .. Len(s) /\ Len(s) \in Nat
      BY <1>4
    <2>2. ASSUME NEW i \in DOMAIN t PROVE t[i] \in ToSet(s) \ {c}
      <3>1. /\ i \in DOMAIN s /\ i + 1 \in DOMAIN s
            /\ t[i] = IF i < k THEN s[i] ELSE s[i + 1]
        BY <2>1, <1>4
      <3>2. CASE i < k
        BY <3>1, <3>2, <1>5 DEF ToSet
      <3>3. CASE i >= k
        BY <3>1, <3>3, <2>1, <1>1, <1>5 DEF ToSet
      <3> QED
        BY <3>2, <3>3, <2>1
    <2>3. ASSUME NEW i \in DOMAIN s, s[i] # c PROVE s[i] \in ToSet(t)
      <3>1. CASE i < k
        <4>1. i \in DOMAIN t /\ t[i] = s[i]
          BY <3>1, <2>1, <1>1, <1>4
        <4> HIDE DEF t
        <4> QED
          BY <4>1 DEF ToSet
      <3>2. CASE i > k
        <4>1. i - 1 \in DOMAIN t /\ t[i - 1] = s[i]
          BY <3>2, <2>1, <1>1, <1>4
        <4> HIDE DEF t
        <4> QED
          BY <4>1 DEF ToSet
      <3> QED
        BY <3>1, <3>2, <2>3, <1>5, <2>1
    <2> HIDE DEF t
    <2>4. ToSet(t) = ToSet(s) \ {c}
      BY <2>2, <2>3 DEF ToSet
    <2> QED
      BY <2>4 DEF t
  <1>7. ASSUME NEW i \in 1 .. Len(s) - 1, NEW j \in 1 .. Len(s) - 1,
               RemoveAt(s, k)[i] = RemoveAt(s, k)[j]
        PROVE  i = j
    <2>1. /\ Len(s) \in Nat /\ k \in Nat
          /\ i \in DOMAIN s /\ i + 1 \in DOMAIN s
          /\ j \in DOMAIN s /\ j + 1 \in DOMAIN s
      OBVIOUS
    <2>2. (IF i < k THEN s[i] ELSE s[i + 1]) = (IF j < k THEN s[j] ELSE s[j + 1])
      BY <1>4, <1>7
    <2> QED
      BY <2>1, <2>2
  <1>8. DOMAIN RemoveAt(s, k) = 1 .. Len(s) - 1
    BY <1>4
  <1> QED
    BY <1>3, <1>4, <1>6, <1>7, <1>8

-----------------------------------------------------------------------------
(* The frames, and the control state of the thread. *)

Frame == [at : {"conn"}, client : Client, active : Nat, ran : BOOLEAN]
           \cup [at : {"loop", "fire"}]
           \cup [at : {"scan"}, rest : Seq(Client), progressed : BOOLEAN]
           \cup [at : {"destroy"}, client : Client]

\* The frame of an event, which is the outermost one.
EventPlace == {"conn", "destroy"}

\* The outermost frame of s is the only one that is an event's.
EventsOutermost(s) == \A i \in DOMAIN s : s[i].at \in EventPlace <=> i = Len(s)

LEMMA FrameShape ==
  ASSUME NEW f \in Frame
  PROVE  /\ f.at \in {"conn", "loop", "fire", "scan", "destroy"}
         /\ f.at = "conn" => /\ f.client \in Client /\ f.active \in Nat
                             /\ f.ran \in BOOLEAN
         /\ f.at = "scan" => f.rest \in Seq(Client) /\ f.progressed \in BOOLEAN
         /\ f.at = "destroy" => f.client \in Client
  <1>1. CASE f \in [at : {"conn"}, client : Client, active : Nat, ran : BOOLEAN]
    BY <1>1
  <1>2. CASE f \in [at : {"loop", "fire"}]
    BY <1>2
  <1>3. CASE f \in [at : {"scan"}, rest : Seq(Client), progressed : BOOLEAN]
    BY <1>3
  <1>4. CASE f \in [at : {"destroy"}, client : Client]
    BY <1>4
  <1> QED
    BY <1>1, <1>2, <1>3, <1>4 DEF Frame

LEMMA Frames ==
  /\ Pump \in Frame /\ Fire \in Frame /\ Pump.at = "loop" /\ Fire.at = "fire"
  /\ \A c \in Client, a \in Nat, b \in BOOLEAN : Conn(c, a, b) \in Frame
  /\ \A c \in Client : Destroy(c) \in Frame
  /\ \A r \in Seq(Client), p \in BOOLEAN : Scan(r, p) \in Frame
  BY DEF Frame, Pump, Fire, Conn, Destroy, Scan

\* An inner frame may be put on a stack; an outermost frame replaces itself.
LEMMA OutermostKept ==
  ASSUME NEW s \in Seq(Frame), EventsOutermost(s), s # <<>>
  PROVE  /\ \A f \in Frame : f.at \notin EventPlace => EventsOutermost(<<f>> \o s)
         /\ EventsOutermost(Tail(s))
         /\ Head(s).at \in EventPlace <=> Tail(s) = <<>>
         /\ \A f \in Frame : (f.at \in EventPlace <=> Head(s).at \in EventPlace) =>
              EventsOutermost(<<f>> \o Tail(s))
  <1>1. ASSUME NEW r \in Seq(Frame), EventsOutermost(r),
               NEW f \in Frame, f.at \in EventPlace <=> r = <<>>
        PROVE  EventsOutermost(<<f>> \o r)
    <2> DEFINE t == <<f>> \o r
    <2>1. /\ t \in Seq(Frame) /\ Len(t) = Len(r) + 1 /\ Len(r) \in Nat /\ t[1] = f
          /\ \A i \in 1 .. Len(r) : t[i + 1] = r[i]
      BY Pushed
    <2> HIDE DEF t
    <2>2. ASSUME NEW i \in DOMAIN t PROVE t[i].at \in EventPlace <=> i = Len(t)
      <3>1. CASE i = 1
        <4>1. r = <<>> <=> Len(r) = 0
          OBVIOUS
        <4> QED
          BY <3>1, <4>1, <2>1, <1>1
      <3>2. CASE i # 1
        <4>1. i - 1 \in DOMAIN r /\ t[i] = r[i - 1]
          BY <3>2, <2>1
        <4>2. t[i].at \in EventPlace <=> i - 1 = Len(r)
          BY <4>1, <1>1 DEF EventsOutermost
        <4> QED
          BY <3>2, <4>2, <2>1
      <3> QED
        BY <3>1, <3>2
    <2> QED
      BY <2>2 DEF EventsOutermost, t
  <1>2. /\ Tail(s) \in Seq(Frame) /\ Len(Tail(s)) = Len(s) - 1 /\ Len(s) \in Nat \ {0}
        /\ \A i \in 1 .. Len(Tail(s)) : Tail(s)[i] = s[i + 1]
        /\ Head(s) = s[1]
    BY Popped
  <1>3. EventsOutermost(Tail(s))
    BY <1>2 DEF EventsOutermost
  <1>4. Head(s).at \in EventPlace <=> Tail(s) = <<>>
    <2>1. 1 \in DOMAIN s
      BY <1>2
    <2> QED
      BY <1>2, <2>1 DEF EventsOutermost
  <1> QED
    BY <1>1, <1>2, <1>3, <1>4

\* What a frame is about is connected.
Live(f, C) ==
  /\ f.at = "conn" => f.client \in C
  /\ f.at = "scan" => ToSet(f.rest) \subseteq C

GoodStack(s, C) ==
  /\ s \in Seq(Frame)
  /\ EventsOutermost(s)
  /\ \A f \in ToSet(s) : Live(f, C)

LEMMA GoodPush ==
  ASSUME NEW C, NEW s, GoodStack(s, C), s # <<>>,
         NEW f \in Frame, Live(f, C), f.at \notin EventPlace
  PROVE  GoodStack(<<f>> \o s, C)
  BY Pushed, OutermostKept DEF GoodStack

LEMMA GoodPop ==
  ASSUME NEW C, NEW s, GoodStack(s, C), s # <<>>
  PROVE  /\ GoodStack(Tail(s), C)
         /\ Head(s) \in Frame
         /\ Live(Head(s), C)
         /\ Head(s).at \in EventPlace <=> Tail(s) = <<>>
  BY Popped, OutermostKept DEF GoodStack

LEMMA GoodReplace ==
  ASSUME NEW C, NEW s, GoodStack(s, C), s # <<>>,
         NEW f \in Frame, Live(f, C),
         f.at \in EventPlace <=> Head(s).at \in EventPlace
  PROVE  GoodStack(<<f>> \o Tail(s), C)
  <1>1. EventsOutermost(<<f>> \o Tail(s))
    BY OutermostKept DEF GoodStack
  <1>2. Tail(s) \in Seq(Frame) /\ \A g \in ToSet(Tail(s)) : Live(g, C)
    BY GoodPop DEF GoodStack
  <1>3. /\ <<f>> \o Tail(s) \in Seq(Frame)
        /\ ToSet(<<f>> \o Tail(s)) = {f} \cup ToSet(Tail(s))
    BY <1>2, Pushed
  <1> QED
    BY <1>1, <1>2, <1>3 DEF GoodStack

LEMMA GoodOne ==
  ASSUME NEW C, NEW f \in Frame, Live(f, C), f.at \in EventPlace
  PROVE  GoodStack(<<f>>, C)
  <1>1. /\ <<f>> \in Seq(Frame) /\ Len(<<f>>) = 1 /\ DOMAIN <<f>> = {1}
        /\ <<f>>[1] = f /\ ToSet(<<f>>) = {f}
    BY DEF ToSet
  <1> QED
    BY <1>1 DEF GoodStack, EventsOutermost

\* The types of everything but the SYNC objects.
TypeOK ==
  /\ session \in Sessions
  /\ clients \in Seq(Client)
  /\ buf \in [Client -> Seq(session.requests \cup {Consumed})]
  /\ half \in [Client -> BOOLEAN]
  /\ pos \in [Client -> Nat]
  /\ owed \in [Client -> Int]
  /\ hung \subseteq Client

\* The control state: nobody is listed twice, the grab is that of a listed
\* client, and whoever a frame is going to serve is still listed.
Control ==
  /\ TypeOK
  /\ \A i, j \in DOMAIN clients : clients[i] = clients[j] => i = j
  /\ grab \in Connected \cup {None}
  /\ GoodStack(stack, Connected)

-----------------------------------------------------------------------------
(* What the execution of a request can do to the control state. *)

\* Whatever the request: the frames that may be pushed on `rest', and that
\* the grab ends and a client leaves `awaiting' only with a pump to follow.
LEMMA PerformEffect ==
  ASSUME NEW c, NEW r, NEW rest, Perform(c, r, rest)
  PROVE  /\ stack' \in {rest, <<Pump>> \o rest, <<Fire>> \o rest,
                         <<Pump>> \o (<<Fire>> \o rest)}
         /\ \/ grab' = grab
            \/ grab = None /\ grab' = c
            \/ grab = c /\ grab' = None /\ stack' = <<Pump>> \o rest
         /\ \/ awaiting \subseteq awaiting'
            \/ stack' \in {<<Pump>> \o rest, <<Pump>> \o (<<Fire>> \o rest)}
  <1> DEFINE Effect ==
        /\ stack' \in {rest, <<Pump>> \o rest, <<Fire>> \o rest,
                        <<Pump>> \o (<<Fire>> \o rest)}
        /\ \/ grab' = grab
           \/ grab = None /\ grab' = c
           \/ grab = c /\ grab' = None /\ stack' = <<Pump>> \o rest
        /\ \/ awaiting \subseteq awaiting'
           \/ stack' \in {<<Pump>> \o rest, <<Pump>> \o (<<Fire>> \o rest)}
  <1>1. NoEffect(rest) => Effect
    BY DEF NoEffect, sync
  <1>2. GrabServer(c, rest) => Effect
    BY DEF GrabServer, sync
  <1>3. UngrabServer(c, rest) => Effect
    BY DEF UngrabServer, sync
  <1>4. \A obs, s : releaseWaiters(obs, s) =>
           \/ stack' = s /\ awaiting' = awaiting
           \/ stack' = <<Pump>> \o s
    BY DEF releaseWaiters
  <1>5. \A id, v : ChangeCounter(id, v, rest) => Effect
    BY <1>4 DEF ChangeCounter
  <1>6. \A id, o : Put(id, o, rest) => Effect
    BY DEF Put
  <1>7. DestroyObject(r, rest) => Effect
    BY DEF DestroyObject
  <1>8. \A w : Await(c, w, rest) => Effect
    BY DEF Await
  <1>9. TriggerFence(r, rest) \/ SetTriggered(r, rest) => Effect
    BY <1>4 DEF TriggerFence, SetTriggered
  <1> HIDE DEF Effect
  <1>10. Effect
    BY <1>1, <1>2, <1>3, <1>5, <1>6, <1>7, <1>8, <1>9
    DEF Perform, CreateCounter, CreateFence, ResetFence, SetAlarm,
        CreateAlarm, ChangeAlarm
  <1> QED
    BY <1>10 DEF Effect

LEMMA PerformControl ==
  ASSUME NEW c, NEW r, NEW rest, NEW C, Perform(c, r, rest),
         c \in C, grab \in C \cup {None}, GoodStack(rest, C), rest # <<>>
  PROVE  /\ grab' \in C \cup {None}
         /\ GoodStack(stack', C)
  <1>1. ASSUME NEW s, GoodStack(s, C), s # <<>>
        PROVE  /\ GoodStack(<<Pump>> \o s, C)
               /\ GoodStack(<<Fire>> \o s, C)
               /\ <<Fire>> \o s # <<>>
    <2>1. /\ Pump \in Frame /\ Live(Pump, C) /\ Pump.at \notin EventPlace
          /\ Fire \in Frame /\ Live(Fire, C) /\ Fire.at \notin EventPlace
      BY Frames DEF Live, EventPlace
    <2>2. s \in Seq(Frame)
      BY <1>1 DEF GoodStack
    <2>3. <<Fire>> \o s # <<>>
      BY <2>1, <2>2, Pushed
    <2> QED
      BY <1>1, <2>1, <2>3, GoodPush
  <1>2. stack' \in {rest, <<Pump>> \o rest, <<Fire>> \o rest,
                    <<Pump>> \o (<<Fire>> \o rest)}
    BY PerformEffect
  <1>3. grab' = grab \/ grab' = c \/ grab' = None
    BY PerformEffect
  <1> QED
    BY <1>1, <1>2, <1>3

\* The request that is executed is in the buffer.
LEMMA RequestShape ==
  ASSUME TypeOK, NEW c \in Client, Complete(c)
  PROVE  /\ pos[c] \div 2 + 1 \in 1 .. Len(buf[c])
         /\ pos[c] \div 2 + 1 <= Len(buf[c]) - (IF half[c] THEN 1 ELSE 0)
         /\ Request(c) \in session.requests \cup {Consumed}
         /\ WellFormed(Request(c))
  <1>1. /\ pos[c] \div 2 \in Nat /\ Len(buf[c]) \in Nat
        /\ pos[c] \div 2 < Len(buf[c]) - (IF half[c] THEN 1 ELSE 0)
    BY DEF TypeOK, Complete
  <1>2. /\ pos[c] \div 2 + 1 \in 1 .. Len(buf[c])
        /\ pos[c] \div 2 + 1 <= Len(buf[c]) - (IF half[c] THEN 1 ELSE 0)
    <2> DEFINE k == pos[c] \div 2  n == Len(buf[c])  h == IF half[c] THEN 1 ELSE 0
    <2>1. k \in Nat /\ n \in Nat /\ h \in {0, 1} /\ k < n - h
      BY <1>1
    <2> HIDE DEF k, n, h
    <2>2. k + 1 \in 1 .. n /\ k + 1 <= n - h
      BY <2>1
    <2> QED
      BY <2>2 DEF k, n, h
  <1>3. Request(c) \in session.requests \cup {Consumed}
    BY <1>2, ElementOfSeq DEF Request, TypeOK
  <1>4. WellFormed(Consumed)
    BY DEF WellFormed, Consumed
  <1> QED
    BY <1>2, <1>3, <1>4, SessionsAssumption DEF TypeOK

\* The buffers after a request has been executed and blanked.
LEMMA BlankedShape ==
  ASSUME TypeOK, NEW c \in Client, Complete(c)
  PROVE  /\ Blanked(c) \in [Client -> Seq(session.requests \cup {Consumed})]
         /\ \A d \in Client : Len(Blanked(c)[d]) = Len(buf[d])
         /\ \A d \in Client : d # c => Blanked(c)[d] = buf[d]
         /\ Advanced(c) \in [Client -> Nat]
         /\ Advanced(c)[c] = pos[c] + 2
         /\ \A d \in Client : d # c => Advanced(c)[d] = pos[d]
  <1> DEFINE S == session.requests \cup {Consumed}
             k == pos[c] \div 2 + 1
             new == [buf[c] EXCEPT ![k] = Consumed]
  <1>1. buf[c] \in Seq(S) /\ k \in 1 .. Len(buf[c]) /\ Consumed \in S
    BY RequestShape DEF TypeOK
  <1>2. new \in Seq(S) /\ Len(new) = Len(buf[c])
    BY <1>1, ExceptSeq
  <1>3. Blanked(c) = [buf EXCEPT ![c] = new]
    BY DEF Blanked
  <1> HIDE DEF new, k
  <1> QED
    BY <1>2, <1>3 DEF TypeOK, Advanced

LEMMA ReturnShape ==
  ASSUME NEW S, NEW b \in [Client -> Seq(S)], NEW p \in [Client -> Nat],
         Return(b, p)
  PROVE  /\ stack' = Tail(stack)
         /\ buf' \in [Client -> Seq(S)]
         /\ pos' \in [Client -> Nat]
         /\ Tail(stack) # <<>> => buf' = b /\ pos' = p
         /\ \A c \in Client :
              /\ b[c] = <<>> => buf'[c] = <<>>
              /\ Tail(stack) = <<>> =>
                   /\ buf'[c] = SubSeq(b[c], p[c] \div 2 + 1, Len(b[c]))
                   /\ pos'[c] = p[c] - 2 * (p[c] \div 2)
                   /\ p[c] \div 2 <= Len(b[c]) =>
                        Len(buf'[c]) = Len(b[c]) - p[c] \div 2
  <1> DEFINE drop(c) == IF Tail(stack) = <<>> THEN p[c] \div 2 ELSE 0
  <1>1. /\ stack' = Tail(stack)
        /\ buf' = [c \in Client |-> SubSeq(b[c], drop(c) + 1, Len(b[c]))]
        /\ pos' = [c \in Client |-> p[c] - 2 * drop(c)]
    BY DEF Return
  <1>2. ASSUME NEW c \in Client
        PROVE  /\ drop(c) \in Nat
               /\ p[c] - 2 * drop(c) \in Nat
               /\ SubSeq(b[c], drop(c) + 1, Len(b[c])) \in Seq(S)
               /\ drop(c) <= Len(b[c]) =>
                    Len(SubSeq(b[c], drop(c) + 1, Len(b[c]))) = Len(b[c]) - drop(c)
               /\ drop(c) = 0 => SubSeq(b[c], drop(c) + 1, Len(b[c])) = b[c]
               /\ b[c] = <<>> => SubSeq(b[c], drop(c) + 1, Len(b[c])) = <<>>
    <2>1. drop(c) \in Nat /\ p[c] - 2 * drop(c) \in Nat
      OBVIOUS
    <2> HIDE DEF drop
    <2>2. /\ Len(b[c]) \in Nat
          /\ \A i \in drop(c) + 1 .. Len(b[c]) : b[c][i] \in S
      BY <2>1
    <2>3. /\ SubSeq(b[c], drop(c) + 1, Len(b[c])) \in Seq(S)
          /\ drop(c) <= Len(b[c]) =>
               Len(SubSeq(b[c], drop(c) + 1, Len(b[c]))) = Len(b[c]) - drop(c)
      BY <2>1, <2>2, SubSeqProperties
    <2>4. drop(c) = 0 => SubSeq(b[c], drop(c) + 1, Len(b[c])) = b[c]
      BY SubSeqFull
    <2>5. b[c] = <<>> => SubSeq(b[c], drop(c) + 1, Len(b[c])) = <<>>
      BY <2>1, SubSeqEmpty
    <2> QED
      BY <2>1, <2>3, <2>4, <2>5
  <1>3. Tail(stack) # <<>> => buf' = b /\ pos' = p
    BY <1>1, <1>2
  <1>4. \A c \in Client : Tail(stack) = <<>> => drop(c) = p[c] \div 2
    OBVIOUS
  <1> HIDE DEF drop
  <1> QED
    BY <1>1, <1>2, <1>3, <1>4

-----------------------------------------------------------------------------
(* The control state is an invariant. *)

LEMMA ConnectedShape ==
  ASSUME Control
  PROVE  /\ Connected \subseteq Client
         /\ grab # None => grab \in Connected
         /\ stack # <<>> => /\ Top \in Frame
                            /\ Live(Top, Connected)
                            /\ GoodStack(Tail(stack), Connected)
                            /\ Top.at \in EventPlace <=> Tail(stack) = <<>>
         /\ At("conn") => Top.client \in Connected
         /\ At("scan") => /\ Top.rest \in Seq(Client)
                          /\ ToSet(Top.rest) \subseteq Connected
                          /\ Top.progressed \in BOOLEAN
         /\ At("destroy") => Top.client \in Client
  <1>1. Connected \subseteq Client
    BY DEF Control, TypeOK, Connected, ToSet
  <1>2. grab # None => grab \in Connected
    BY DEF Control
  <1>3. ASSUME stack # <<>>
        PROVE  /\ Top \in Frame
               /\ Live(Top, Connected)
               /\ GoodStack(Tail(stack), Connected)
               /\ Top.at \in EventPlace <=> Tail(stack) = <<>>
    BY <1>3, GoodPop DEF Control, Top
  <1>4. ASSUME stack # <<>>
        PROVE  /\ Top.at = "conn" => Top.client \in Connected
               /\ Top.at = "scan" => /\ Top.rest \in Seq(Client)
                                     /\ ToSet(Top.rest) \subseteq Connected
                                     /\ Top.progressed \in BOOLEAN
               /\ Top.at = "destroy" => Top.client \in Client
    BY <1>3, <1>4, FrameShape DEF Live
  <1> QED
    BY <1>1, <1>2, <1>3, <1>4 DEF At

\* The head of what is left of a scan, and the rest.
LEMMA ScanShape ==
  ASSUME Control, At("scan"), Top.rest # <<>>
  PROVE  /\ Head(Top.rest) \in Connected
         /\ Tail(Top.rest) \in Seq(Client)
         /\ ToSet(Top.rest) = {Head(Top.rest)} \cup ToSet(Tail(Top.rest))
  <1>1. Top.rest \in Seq(Client) /\ ToSet(Top.rest) \subseteq Connected
    BY ConnectedShape
  <1> QED
    BY <1>1, Popped

LEMMA ControlInit == Init => Control
  <1> SUFFICES ASSUME Init PROVE Control
    OBVIOUS
  <1>1. TypeOK
    BY DEF Init, TypeOK
  <1>2. GoodStack(stack, Connected)
    BY DEF Init, GoodStack, EventsOutermost, ToSet
  <1> QED
    BY <1>1, <1>2 DEF Init, Control

LEMMA ConsumeTypes ==
  ASSUME TypeOK, NEW c \in Client, Executable(c), Consume(c), UNCHANGED session
  PROVE  TypeOK'
  <1>1. Complete(c)
    BY DEF Executable
  <1> QED
    BY <1>1, BlankedShape, SMTT(30) DEF Consume, TypeOK

LEMMA ExecuteControl ==
  ASSUME Control, UNCHANGED session, NEW c \in Connected, NEW rest,
         GoodStack(rest, Connected), rest # <<>>, Execute(c, rest)
  PROVE  Control'
  <1>1. UNCHANGED clients /\ TypeOK'
    BY ConsumeTypes, ConnectedShape DEF Execute, Consume, Control
  <1>2. grab' \in Connected \cup {None} /\ GoodStack(stack', Connected)
    BY PerformControl DEF Execute, Control
  <1> QED
    BY <1>1, <1>2 DEF Control, Connected

\* Every place the thread can go on from after a request has been executed.
LEMMA GoodRest ==
  ASSUME Control, stack # <<>>
  PROVE  /\ GoodStack(Tail(stack), Connected)
         /\ Top.at \notin EventPlace =>
              /\ Tail(stack) # <<>>
              /\ GoodStack(<<Pump>> \o Tail(stack), Connected)
              /\ \A r \in Seq(Client), p \in BOOLEAN : ToSet(r) \subseteq Connected =>
                   /\ GoodStack(<<Scan(r, p)>> \o Tail(stack), Connected)
                   /\ <<Scan(r, p)>> \o Tail(stack) # <<>>
  <1>1. GoodStack(stack, Connected) /\ Tail(stack) \in Seq(Frame)
    BY GoodPop DEF Control, GoodStack
  <1>2. \A r \in Seq(Client), p \in BOOLEAN :
          /\ Scan(r, p) \in Frame
          /\ ToSet(r) \subseteq Connected => Live(Scan(r, p), Connected)
          /\ Scan(r, p).at \notin EventPlace
    BY Frames DEF Scan, Live, EventPlace
  <1>3. Pump \in Frame /\ Live(Pump, Connected) /\ Pump.at \notin EventPlace
    BY Frames DEF Live, EventPlace
  <1> QED
    <2>1. GoodStack(Tail(stack), Connected)
      BY <1>1, GoodPop
    <2>2. ASSUME Top.at \notin EventPlace
          PROVE  /\ Tail(stack) # <<>>
                 /\ GoodStack(<<Pump>> \o Tail(stack), Connected)
      BY <2>2, <1>1, <1>3, GoodPop, GoodReplace DEF Top
    <2>3. ASSUME Top.at \notin EventPlace, NEW r \in Seq(Client), NEW p \in BOOLEAN,
                 ToSet(r) \subseteq Connected
          PROVE  /\ GoodStack(<<Scan(r, p)>> \o Tail(stack), Connected)
                 /\ <<Scan(r, p)>> \o Tail(stack) # <<>>
      <3>1. /\ Scan(r, p) \in Frame /\ Live(Scan(r, p), Connected)
            /\ Scan(r, p).at \notin EventPlace
        BY <2>3, <1>2
      <3>2. <<Scan(r, p)>> \o Tail(stack) # <<>>
        BY <3>1, <1>1, Pushed
      <3> QED
        BY <2>3, <3>1, <3>2, <1>1, GoodReplace DEF Top
    <2> QED
      BY <2>1, <2>2, <2>3

\* The event's frame after one more request.
RanConn == Conn(Top.client, ActivePosition, TRUE)

LEMMA RanConnShape ==
  ASSUME Control, At("conn")
  PROVE  /\ RanConn \in Frame
         /\ GoodStack(<<RanConn>> \o Tail(stack), Connected)
         /\ <<RanConn>> \o Tail(stack) # <<>>
  <1>1. /\ Top \in Frame /\ Top.at = "conn" /\ Live(Top, Connected)
        /\ Top.client \in Client /\ Top.active \in Nat
    BY ConnectedShape, FrameShape DEF At
  <1>2. ActivePosition \in Nat
    BY <1>1 DEF ActivePosition, Control, TypeOK
  <1>3. /\ RanConn.at = "conn" /\ RanConn.client = Top.client
        /\ RanConn \in Frame
    BY <1>1, <1>2, Frames DEF RanConn, Conn
  <1>4. Live(RanConn, Connected)
    BY <1>1, <1>3 DEF Live
  <1>5. Tail(stack) \in Seq(Frame)
    BY ConnectedShape DEF At, GoodStack
  <1> QED
    BY <1>1, <1>3, <1>4, <1>5, GoodReplace, Pushed DEF Control, At, Top

LEMMA RemoveControl ==
  ASSUME Control, UNCHANGED <<session, input, hung, owed>>, NEW c \in Connected,
         c \in hung, RemoveClient(c)
  PROVE  Control' /\ Connected' = Connected \ {c}
  <1>1. /\ clients' \in Seq(Client)
        /\ Connected' = Connected \ {c}
        /\ \A i, j \in DOMAIN clients' : clients'[i] = clients'[j] => i = j
    BY Removed DEF RemoveClient, Control, TypeOK, Connected
  <1>2. grab' \in Connected' \cup {None}
    BY <1>1 DEF RemoveClient, Control
  <1>3. GoodStack(stack', Connected')
    <2>1. c \in Client
      BY ConnectedShape
    <2>2. /\ Destroy(c) \in Frame /\ Live(Destroy(c), Connected')
          /\ Destroy(c).at \in EventPlace
      BY <2>1, Frames DEF Destroy, Live, EventPlace
    <2>3. GoodStack(<<Destroy(c)>>, Connected')
      BY <2>2, GoodOne
    <2>4. Pump \in Frame /\ Live(Pump, Connected') /\ Pump.at \notin EventPlace
      BY Frames DEF Live, EventPlace
    <2>5. GoodStack(<<Pump>> \o <<Destroy(c)>>, Connected')
      BY <2>3, <2>4, GoodPush
    <2>6. <<Pump>> \o <<Destroy(c)>> = <<Pump, Destroy(c)>>
      BY PairIsPush
    <2> QED
      BY <2>3, <2>5, <2>6 DEF RemoveClient
  <1> QED
    BY <1>1, <1>2, <1>3 DEF Control, TypeOK, input

LEMMA ReturnControl ==
  ASSUME Control, stack # <<>>, UNCHANGED <<session, clients, grab, hung>>,
         half' \in [Client -> BOOLEAN], owed' \in [Client -> Int],
         NEW b \in [Client -> Seq(session.requests \cup {Consumed})],
         NEW p \in [Client -> Nat], Return(b, p)
  PROVE  Control'
  <1>1. /\ stack' = Tail(stack)
        /\ buf' \in [Client -> Seq(session.requests \cup {Consumed})]
        /\ pos' \in [Client -> Nat]
    BY ReturnShape
  <1>2. TypeOK'
    BY <1>1 DEF Control, TypeOK
  <1>3. GoodStack(stack', Connected)
    BY <1>1, ConnectedShape
  <1> QED
    BY <1>2, <1>3 DEF Control, Connected

LEMMA ControlStep ==
  ASSUME Control, [Next]_vars
  PROVE  Control'
  <1>0. CASE UNCHANGED vars
    BY <1>0 DEF vars, input, sync, Control, TypeOK, Connected
  <1> SUFFICES ASSUME Step, UNCHANGED session
               PROVE  Control'
    BY <1>0 DEF Next
  <1> DEFINE S == session.requests \cup {Consumed}
  <1>a. /\ buf \in [Client -> Seq(S)] /\ pos \in [Client -> Nat]
        /\ half \in [Client -> BOOLEAN] /\ owed \in [Client -> Int]
    BY DEF Control, TypeOK
  <1>1. ASSUME NEW c \in Client, Accept(c) PROVE Control'
    <2>0. clients' = Append(clients, c) /\ c \notin ToSet(clients)
      BY <1>1 DEF Accept, Connected
    <2>1. /\ clients' \in Seq(Client)
          /\ \A i, j \in DOMAIN clients' : clients'[i] = clients'[j] => i = j
      <3>1. /\ Append(clients, c) \in Seq(Client)
            /\ \A i, j \in DOMAIN Append(clients, c) :
                 Append(clients, c)[i] = Append(clients, c)[j] => i = j
        BY <2>0, Added DEF Control, TypeOK
      <3> QED
        BY <2>0, <3>1
    <2>2. Connected' = Connected \cup {c}
      BY <2>0, Added DEF Connected, Control, TypeOK
    <2>3. GoodStack(stack', Connected')
      BY <1>1 DEF Accept, Idle, Control, GoodStack, ToSet
    <2> QED
      BY <1>1, <2>1, <2>2, <2>3 DEF Accept, Control, TypeOK, input
  <1>2. ASSUME NEW c \in Client, HangUp(c) PROVE Control'
    BY <1>2 DEF HangUp, Control, TypeOK, Connected, input
  <1>3. ASSUME NEW c \in Client, EndOfFile(c) PROVE Control'
    BY <1>3, RemoveControl DEF EndOfFile
  <1>4. ASSUME NEW c \in Client, NEW rs \in Batches, NEW cut \in BOOLEAN,
               Readable(c, rs, cut)
        PROVE  Control'
    <2>1. rs \in Seq(S) /\ Len(rs) \in Nat
      BY <1>4 DEF Batches
    <2>2. TypeOK'
      BY <1>4, <2>1, ConcatProperties DEF Readable, Control, TypeOK
    <2>3. GoodStack(stack', Connected)
      <3>1. /\ Conn(c, 0, FALSE) \in Frame
            /\ Live(Conn(c, 0, FALSE), Connected)
            /\ Conn(c, 0, FALSE).at \in EventPlace
        BY <1>4, Frames DEF Readable, Live, Conn, EventPlace
      <3> QED
        BY <3>1, <1>4, GoodOne DEF Readable
    <2> QED
      BY <1>4, <2>2, <2>3 DEF Readable, Control, Connected
  <1>5. ASSUME ConnExecute PROVE Control'
    BY <1>5, ExecuteControl, RanConnShape, ConnectedShape DEF ConnExecute, RanConn
  <1>6. ASSUME ConnDone PROVE Control'
    <2>1. ActivePosition \in Nat
      BY <1>6, <1>a, ConnectedShape, FrameShape DEF ConnDone, ActivePosition, At
    <2>2. [pos EXCEPT ![Top.client] = ActivePosition] \in [Client -> Nat]
      BY <1>a, <2>1
    <2> QED
      BY <1>6, <1>a, <2>2, ReturnControl DEF ConnDone, At
  <1>7. ASSUME ConnFails PROVE Control'
    BY <1>7, RemoveControl, ConnectedShape DEF ConnFails, ReplyMayFail
  <1>8. ASSUME LoopGrabber PROVE Control'
    BY <1>8, ExecuteControl, ConnectedShape DEF LoopGrabber, Control, At
  <1>9. ASSUME LoopReturn PROVE Control'
    BY <1>9, <1>a, ReturnControl DEF LoopReturn, At
  <1>10. ASSUME LoopFails PROVE Control'
    <2>1. grab \in Client /\ Complete(grab)
      BY <1>10, ConnectedShape DEF LoopFails, ReplyMayFail, Executable
    <2>2. Blanked(grab) \in [Client -> Seq(S)] /\ Advanced(grab) \in [Client -> Nat]
      BY <2>1, BlankedShape DEF Control
    <2>3. owed' \in [Client -> Int] /\ half' \in [Client -> BOOLEAN]
      BY <1>10, <1>a, <2>1 DEF LoopFails
    <2> QED
      BY <1>10, <2>2, <2>3, ReturnControl DEF LoopFails, At
  <1>11. ASSUME LoopScan PROVE Control'
    <2>1. GoodStack(stack', Connected)
      BY <1>11, GoodRest DEF LoopScan, At, EventPlace, Control, TypeOK, Connected
    <2> QED
      BY <1>11, <2>1 DEF LoopScan, Control, TypeOK, Connected, input
  <1>12. ASSUME ScanExecute PROVE Control'
    BY <1>12, ExecuteControl, ScanShape, ConnectedShape, GoodRest
    DEF ScanExecute, At, EventPlace
  <1>13. ASSUME ScanNext PROVE Control'
    <2>1. GoodStack(stack', Connected)
      BY <1>13, ScanShape, ConnectedShape, GoodRest DEF ScanNext, At, EventPlace
    <2> QED
      BY <1>13, <2>1 DEF ScanNext, Control, TypeOK, Connected, input
  <1>14. ASSUME ScanFails PROVE Control'
    <2>1. Head(Top.rest) \in Client /\ Executable(Head(Top.rest))
      BY <1>14, ScanShape, ConnectedShape DEF ScanFails, ReplyMayFail
    <2>2. TypeOK'
      BY <1>14, <2>1, ConsumeTypes DEF ScanFails, Control
    <2>3. GoodStack(stack', Connected)
      BY <1>14, ScanShape, ConnectedShape, GoodRest
      DEF ScanFails, At, NoEffect, EventPlace
    <2> QED
      BY <1>14, <2>2, <2>3 DEF ScanFails, Consume, NoEffect, Control, Connected
  <1>15. ASSUME ScanEnd PROVE Control'
    <2>1. CASE grab # None \/ Top.progressed
      <3>1. GoodStack(stack', Connected)
        BY <1>15, <2>1, GoodRest DEF ScanEnd, At, EventPlace
      <3> QED
        BY <1>15, <2>1, <3>1 DEF ScanEnd, Control, TypeOK, Connected
    <2>2. CASE ~(grab # None \/ Top.progressed)
      BY <1>15, <2>2, <1>a, ReturnControl DEF ScanEnd, At
    <2> QED
      BY <2>1, <2>2
  <1>16. ASSUME FireAlarms PROVE Control'
    <2>1. GoodStack(stack', Connected)
      BY <1>16, GoodRest DEF FireAlarms, At
    <2> QED
      BY <1>16, <2>1 DEF FireAlarms, Control, TypeOK, Connected, input
  <1>17. ASSUME DestroyClient PROVE Control'
    <2>1. Top.client \in Client /\ stack # <<>>
      BY <1>17, ConnectedShape DEF DestroyClient, At
    <2>2. /\ [buf EXCEPT ![Top.client] = <<>>] \in [Client -> Seq(S)]
          /\ [pos EXCEPT ![Top.client] = 0] \in [Client -> Nat]
          /\ half' \in [Client -> BOOLEAN]
          /\ owed' \in [Client -> Int]
      BY <1>17, <1>a, <2>1 DEF DestroyClient
    <2>3. UNCHANGED <<clients, grab, hung>>
      BY <1>17 DEF DestroyClient
    <2>4. Return([buf EXCEPT ![Top.client] = <<>>], [pos EXCEPT ![Top.client] = 0])
      BY <1>17 DEF DestroyClient
    <2> QED
      BY <2>1, <2>2, <2>3, <2>4, ReturnControl
  <1> QED
    BY <1>1, <1>2, <1>3, <1>4, <1>5, <1>6, <1>7, <1>8, <1>9, <1>10, <1>11,
       <1>12, <1>13, <1>14, <1>15, <1>16, <1>17
    DEF Step, ServerStep

-----------------------------------------------------------------------------
(* Sequence numbers *)

\* Client c, with buffer b read up to p, of whose requests o are not counted.
Counted(b, p, o) ==
  /\ p % 2 = 0
  /\ p \div 2 <= Len(b)
  /\ o = Len(b) - p \div 2

Positions ==
  \A c \in Client : Counted(buf[c], pos[c], owed[c]) /\ (Idle => pos[c] = 0)

\* The frame of an event in which no request has been executed yet will set
\* the position to where it was, which is right only while nobody else has
\* moved it: such a frame is alone on the stack.
NoFresh(s) == \A f \in ToSet(s) : f.at = "conn" => f.ran

FreshAlone ==
  \/ NoFresh(stack)
  \/ At("conn") /\ Top.active = 0 /\ pos[Top.client] = 0

CountInv == Control /\ Positions /\ FreshAlone

LEMMA CountInit == Init => CountInv
  <1> SUFFICES ASSUME Init PROVE CountInv
    OBVIOUS
  <1>1. Positions
    BY DEF Init, Positions, Counted
  <1>2. FreshAlone
    BY DEF Init, FreshAlone, NoFresh, ToSet
  <1> QED
    BY <1>1, <1>2, ControlInit DEF CountInv

LEMMA ConsumeCounted ==
  ASSUME TypeOK, Positions, NEW c \in Client, Complete(c),
         NEW b, NEW p, NEW o,
         b = Blanked(c), p = Advanced(c), o = [owed EXCEPT ![c] = @ - 1]
  PROVE  \A d \in Client : Counted(b[d], p[d], o[d])
  <1>1. ASSUME NEW d \in Client, d # c PROVE Counted(b[d], p[d], o[d])
    BY <1>1, BlankedShape DEF Positions, Counted, TypeOK
  <1>2. Counted(b[c], p[c], o[c])
    <2> DEFINE q == pos[c]  n == Len(buf[c])
    <2>1. q \in Nat /\ n \in Nat /\ q % 2 = 0 /\ owed[c] = n - q \div 2
      BY DEF TypeOK, Positions, Counted
    <2>2. q \div 2 + 1 <= n
      <3>1. pos[c] \div 2 + 1 \in 1 .. Len(buf[c])
        BY RequestShape
      <3> QED
        BY <2>1, <3>1
    <2>3. Len(b[c]) = n /\ p[c] = q + 2 /\ o[c] = owed[c] - 1
      BY BlankedShape DEF TypeOK
    <2> HIDE DEF q, n
    <2>4. (q + 2) % 2 = 0 /\ (q + 2) \div 2 = q \div 2 + 1
      BY <2>1
    <2> QED
      BY <2>1, <2>2, <2>3, <2>4 DEF Counted
  <1> QED
    BY <1>1, <1>2

LEMMA ReturnCounted ==
  ASSUME NEW S, NEW b \in [Client -> Seq(S)], NEW p \in [Client -> Nat],
         Return(b, p), \A c \in Client : Counted(b[c], p[c], owed'[c])
  PROVE  Positions'
  <1> SUFFICES ASSUME NEW c \in Client
               PROVE  /\ Counted(buf'[c], pos'[c], owed'[c])
                      /\ stack' = <<>> => pos'[c] = 0
    BY DEF Positions, Idle
  <1>1. CASE Tail(stack) # <<>>
    BY <1>1, ReturnShape
  <1>2. CASE Tail(stack) = <<>>
    <2> DEFINE q == p[c]  n == Len(b[c])
    <2>1. q \in Nat /\ n \in Nat /\ q % 2 = 0 /\ q \div 2 <= n /\ owed'[c] = n - q \div 2
      BY DEF Counted
    <2>2. pos'[c] = q - 2 * (q \div 2) /\ Len(buf'[c]) = n - q \div 2
      BY <1>2, <2>1, ReturnShape
    <2> HIDE DEF q, n
    <2>3. pos'[c] = 0 /\ 0 % 2 = 0 /\ 0 \div 2 = 0 /\ n - q \div 2 \in Nat
      BY <2>1, <2>2
    <2> QED
      BY <2>1, <2>2, <2>3 DEF Counted
  <1> QED
    BY <1>1, <1>2

\* Perform pushes no frame of an event.
LEMMA PerformFresh ==
  ASSUME NEW c, NEW r, NEW rest \in Seq(Frame), Perform(c, r, rest), NoFresh(rest)
  PROVE  NoFresh(stack') /\ (rest # <<>> => stack' # <<>>)
  <1>1. \A s \in Seq(Frame) : NoFresh(s) =>
          /\ NoFresh(<<Pump>> \o s) /\ NoFresh(<<Fire>> \o s)
          /\ <<Pump>> \o s # <<>> /\ <<Fire>> \o s # <<>>
          /\ <<Fire>> \o s \in Seq(Frame)
    BY Frames, Pushed DEF NoFresh
  <1>2. stack' \in {rest, <<Pump>> \o rest, <<Fire>> \o rest,
                    <<Pump>> \o (<<Fire>> \o rest)}
    BY PerformEffect
  <1> QED
    BY <1>1, <1>2

\* Only the innermost frame can be fresh, and only before its first request.
LEMMA FreshShape ==
  ASSUME Control, FreshAlone
  PROVE  /\ stack # <<>> => NoFresh(Tail(stack))
         /\ stack # <<>> /\ Top.at # "conn" => NoFresh(stack)
         /\ At("conn") => ActivePosition = pos[Top.client]
  <1>1. ASSUME stack # <<>> PROVE NoFresh(Tail(stack))
    <2>1. CASE NoFresh(stack)
      BY <1>1, <2>1, Popped DEF NoFresh, Control, GoodStack
    <2>2. CASE At("conn")
      <3>1. Tail(stack) = <<>>
        BY <1>1, <2>2, ConnectedShape DEF At, EventPlace
      <3> QED
        BY <3>1 DEF NoFresh, ToSet
    <2> QED
      BY <2>1, <2>2 DEF FreshAlone
  <1>2. stack # <<>> /\ Top.at # "conn" => NoFresh(stack)
    BY DEF FreshAlone, At
  <1>3. ASSUME At("conn") PROVE ActivePosition = pos[Top.client]
    <2>1. Top \in ToSet(stack)
      BY <1>3, Popped DEF At, Top, Control, GoodStack
    <2> QED
      BY <1>3, <2>1 DEF FreshAlone, NoFresh, ActivePosition, At
  <1> QED
    BY <1>1, <1>2, <1>3

\* The execution of a request on a stack without a fresh frame.
LEMMA ExecuteCount ==
  ASSUME CountInv, NEW c \in Client, NEW rest \in Seq(Frame), rest # <<>>,
         NoFresh(rest), Execute(c, rest)
  PROVE  Positions' /\ FreshAlone'
  <1>1. NoFresh(stack') /\ stack' # <<>>
    BY PerformFresh DEF Execute
  <1>2. \A d \in Client : Counted(buf'[d], pos'[d], owed'[d])
    BY ConsumeCounted DEF Execute, Executable, Consume, CountInv, Control
  <1> QED
    BY <1>1, <1>2 DEF Positions, FreshAlone, Idle

LEMMA CountStep ==
  ASSUME CountInv, [Next]_vars
  PROVE  CountInv'
  <1>0. Control' /\ Control /\ Positions /\ FreshAlone /\ TypeOK
    BY ControlStep DEF CountInv, Control
  <1> SUFFICES Positions' /\ FreshAlone'
    BY <1>0 DEF CountInv
  <1>1. CASE UNCHANGED vars
    BY <1>0, <1>1 DEF vars, input, Positions, FreshAlone, Idle, At, Top
  <1> SUFFICES ASSUME Step, UNCHANGED session
               PROVE  Positions' /\ FreshAlone'
    BY <1>1 DEF Next
  <1> DEFINE S == session.requests \cup {Consumed}
  <1>a. /\ buf \in [Client -> Seq(S)] /\ pos \in [Client -> Nat]
        /\ owed \in [Client -> Int]
        /\ stack \in Seq(Frame)
    BY <1>0 DEF Control, TypeOK, GoodStack
  <1>b. \A f \in Frame, s \in Seq(Frame) :
          f.at # "conn" /\ NoFresh(s) => NoFresh(<<f>> \o s) /\ <<f>> \o s # <<>>
    BY Pushed DEF NoFresh
  <1>c. stack # <<>> => Tail(stack) \in Seq(Frame) /\ NoFresh(Tail(stack))
    BY <1>a, <1>0, Popped, FreshShape
  <1>d. \A r \in Seq(Client), q \in BOOLEAN : stack # <<>> =>
          /\ <<Scan(r, q)>> \o Tail(stack) \in Seq(Frame)
          /\ <<Scan(r, q)>> \o Tail(stack) # <<>>
          /\ NoFresh(<<Scan(r, q)>> \o Tail(stack))
    BY <1>b, <1>c, Frames, Pushed DEF Scan
  <1>e. ASSUME NEW c \in Client, RemoveClient(c), UNCHANGED <<input, owed>>,
               \A d \in Client : Counted(buf[d], pos[d], owed[d])
        PROVE  Positions' /\ FreshAlone'
    <2>1. stack' = <<Destroy(c)>> \/ stack' = <<Pump, Destroy(c)>>
      BY <1>e DEF RemoveClient
    <2>2. stack' # <<>> /\ NoFresh(stack')
      <3>1. ToSet(<<Destroy(c)>>) = {Destroy(c)}
        BY DEF ToSet
      <3>2. ToSet(<<Pump, Destroy(c)>>) = {Pump, Destroy(c)}
        BY DEF ToSet
      <3> QED
        BY <2>1, <3>1, <3>2 DEF NoFresh, Destroy, Pump
    <2> QED
      BY <1>e, <2>2 DEF Positions, FreshAlone, Idle, input
  <1>2. ASSUME NEW c \in Client, Accept(c) PROVE Positions' /\ FreshAlone'
    BY <1>2, <1>0 DEF Accept, input, Positions, FreshAlone, Idle, At, Top
  <1>3. ASSUME NEW c \in Client, HangUp(c) PROVE Positions' /\ FreshAlone'
    BY <1>3, <1>0 DEF HangUp, input, Positions, FreshAlone, Idle, At, Top
  <1>4. ASSUME NEW c \in Client, EndOfFile(c) PROVE Positions' /\ FreshAlone'
    BY <1>4, <1>0, <1>e DEF EndOfFile, Positions
  <1>5. ASSUME NEW c \in Client, NEW rs \in Batches, NEW cut \in BOOLEAN,
               Readable(c, rs, cut)
        PROVE  Positions' /\ FreshAlone'
    <2>1. rs \in Seq(S) /\ Len(rs) \in Nat
      BY DEF Batches
    <2>2. /\ pos' = pos /\ pos[c] = 0 /\ Idle
          /\ stack' = <<Conn(c, 0, FALSE)>>
          /\ buf' = [buf EXCEPT ![c] = @ \o rs]
          /\ owed' = [owed EXCEPT ![c] = @ + Len(rs)]
      BY <1>5, <1>0 DEF Readable, Positions
    <2>3. Len(buf[c] \o rs) = Len(buf[c]) + Len(rs)
      BY <1>a, <2>1, ConcatProperties
    <2>4. ASSUME NEW d \in Client PROVE Counted(buf'[d], pos'[d], owed'[d])
      <3>1. CASE d = c
        <4>1. /\ buf'[d] = buf[c] \o rs /\ owed'[d] = owed[c] + Len(rs) /\ pos'[d] = 0
          BY <3>1, <1>a, <2>2
        <4>2. Len(buf[c]) \in Nat /\ owed[c] = Len(buf[c])
          BY <1>a, <1>0, <2>2 DEF Positions, Counted
        <4> QED
          BY <4>1, <4>2, <2>1, <2>3 DEF Counted
      <3>2. CASE d # c
        BY <3>2, <1>0, <1>a, <2>2 DEF Positions
      <3> QED
        BY <3>1, <3>2
    <2>5. At("conn")' /\ Top'.active = 0 /\ Top'.client = c
      BY <2>2 DEF At, Top, Conn
    <2> QED
      BY <2>2, <2>4, <2>5 DEF Positions, FreshAlone, Idle, At
  <1>6. ASSUME ConnExecute PROVE Positions' /\ FreshAlone'
    <2>1. RanConn \in Frame /\ Tail(stack) \in Seq(Frame) /\ stack # <<>>
      BY <1>6, <1>0, <1>c, RanConnShape DEF ConnExecute, At
    <2>2. /\ <<RanConn>> \o Tail(stack) \in Seq(Frame)
          /\ <<RanConn>> \o Tail(stack) # <<>>
          /\ ToSet(<<RanConn>> \o Tail(stack)) = {RanConn} \cup ToSet(Tail(stack))
      BY <2>1, Pushed
    <2>3. NoFresh(<<RanConn>> \o Tail(stack))
      BY <2>1, <2>2, <1>c DEF NoFresh, RanConn, Conn
    <2>4. Top.client \in Client
      BY <1>6, <1>0, ConnectedShape DEF ConnExecute
    <2> QED
      BY <1>6, <2>2, <2>3, <2>4, ExecuteCount DEF ConnExecute, RanConn
  <1>7. ASSUME ConnDone PROVE Positions' /\ FreshAlone'
    <2>1. [pos EXCEPT ![Top.client] = ActivePosition] = pos
      BY <1>7, <1>0, <1>a, FreshShape DEF ConnDone
    <2>2. Return(buf, pos) /\ stack # <<>> /\ owed' = owed
      BY <1>7, <2>1 DEF ConnDone, At
    <2>3. Positions'
      BY <2>2, <1>0, <1>a, ReturnCounted DEF Positions
    <2>4. NoFresh(stack')
      BY <2>2, <1>c DEF Return
    <2> QED
      BY <2>3, <2>4 DEF FreshAlone
  <1>8. ASSUME ConnFails PROVE Positions' /\ FreshAlone'
    <2>1. Top.client \in Client
      BY <1>8, <1>0, ConnectedShape DEF ConnFails
    <2> QED
      BY <1>8, <2>1, <1>0, <1>e DEF ConnFails, Positions
  <1>9. ASSUME LoopGrabber PROVE Positions' /\ FreshAlone'
    <2>1. stack # <<>> /\ Top.at = "loop" /\ grab \in Client
      BY <1>9, <1>0, ConnectedShape DEF LoopGrabber, At
    <2>2. NoFresh(stack)
      BY <2>1, <1>0, FreshShape
    <2> QED
      BY <1>9, <1>a, <2>1, <2>2, ExecuteCount DEF LoopGrabber
  <1>10. ASSUME LoopReturn PROVE Positions' /\ FreshAlone'
    <2>1. Return(buf, pos) /\ stack # <<>> /\ owed' = owed
      BY <1>10 DEF LoopReturn, At
    <2>2. Positions'
      BY <2>1, <1>0, <1>a, ReturnCounted DEF Positions
    <2> QED
      BY <2>1, <2>2, <1>c DEF Return, FreshAlone
  <1>11. ASSUME LoopFails PROVE Positions' /\ FreshAlone'
    <2>1. grab \in Client /\ Complete(grab) /\ stack # <<>>
      BY <1>11, <1>0, ConnectedShape DEF LoopFails, ReplyMayFail, Executable, At
    <2>2. /\ Return(Blanked(grab), Advanced(grab))
          /\ owed' = [owed EXCEPT ![grab] = @ - 1]
      BY <1>11 DEF LoopFails
    <2>3. \A d \in Client : Counted(Blanked(grab)[d], Advanced(grab)[d], owed'[d])
      BY <1>0, <2>1, <2>2, ConsumeCounted
    <2>4. /\ Blanked(grab) \in [Client -> Seq(S)]
          /\ Advanced(grab) \in [Client -> Nat]
      BY <1>0, <2>1, BlankedShape
    <2>5. Positions'
      BY <2>2, <2>3, <2>4, ReturnCounted
    <2> QED
      BY <2>1, <2>2, <2>5, <1>c DEF Return, FreshAlone
  <1>12. ASSUME LoopScan PROVE Positions' /\ FreshAlone'
    <2>1. stack # <<>> /\ stack' = <<Scan(clients, FALSE)>> \o Tail(stack)
      BY <1>12 DEF LoopScan, At
    <2>2. stack' # <<>> /\ NoFresh(stack')
      BY <2>1, <1>0, <1>d DEF TypeOK
    <2> QED
      BY <1>12, <1>0, <2>2 DEF LoopScan, input, Positions, FreshAlone, Idle
  <1>13. ASSUME ScanExecute PROVE Positions' /\ FreshAlone'
    <2>1. /\ stack # <<>> /\ Top.rest \in Seq(Client)
          /\ Head(Top.rest) \in Client
      BY <1>13, <1>0, ScanShape, ConnectedShape DEF ScanExecute, At
    <2> QED
      BY <1>13, <2>1, <1>d, ExecuteCount DEF ScanExecute
  <1>14. ASSUME ScanNext PROVE Positions' /\ FreshAlone'
    <2>1. stack # <<>> /\ Tail(Top.rest) \in Seq(Client) /\ Top.progressed \in BOOLEAN
      BY <1>14, <1>0, ScanShape, ConnectedShape DEF ScanNext, At
    <2>2. stack' # <<>> /\ NoFresh(stack')
      BY <1>14, <2>1, <1>d DEF ScanNext
    <2> QED
      BY <1>14, <1>0, <2>2 DEF ScanNext, input, Positions, FreshAlone, Idle
  <1>15. ASSUME ScanFails PROVE Positions' /\ FreshAlone'
    <2>1. /\ stack # <<>> /\ Tail(Top.rest) \in Seq(Client) /\ Top.progressed \in BOOLEAN
          /\ Head(Top.rest) \in Client /\ Complete(Head(Top.rest))
      BY <1>15, <1>0, ScanShape, ConnectedShape
      DEF ScanFails, At, ReplyMayFail, Executable
    <2>2. stack' # <<>> /\ NoFresh(stack')
      BY <1>15, <2>1, <1>d DEF ScanFails, NoEffect
    <2>3. \A d \in Client : Counted(buf'[d], pos'[d], owed'[d])
      BY <1>15, <1>0, <2>1, ConsumeCounted DEF ScanFails, Consume
    <2> QED
      BY <2>2, <2>3 DEF Positions, FreshAlone, Idle
  <1>16. ASSUME ScanEnd PROVE Positions' /\ FreshAlone'
    <2>1. stack # <<>> /\ owed' = owed
      BY <1>16 DEF ScanEnd, At
    <2>2. CASE grab # None \/ Top.progressed
      <3>1. stack' = <<Pump>> \o Tail(stack) /\ UNCHANGED <<buf, pos>>
        BY <1>16, <2>2 DEF ScanEnd
      <3>2. stack' # <<>> /\ NoFresh(stack')
        BY <3>1, <2>1, <1>b, <1>c, Frames
      <3> QED
        BY <3>1, <3>2, <2>1, <1>0 DEF Positions, FreshAlone, Idle
    <2>3. CASE ~(grab # None \/ Top.progressed)
      <3>1. Return(buf, pos)
        BY <1>16, <2>3 DEF ScanEnd
      <3>2. Positions'
        BY <3>1, <2>1, <1>0, <1>a, ReturnCounted DEF Positions
      <3> QED
        BY <3>1, <3>2, <2>1, <1>c DEF Return, FreshAlone
    <2> QED
      BY <2>2, <2>3
  <1>17. ASSUME FireAlarms PROVE Positions' /\ FreshAlone'
    <2>1. stack # <<>> /\ stack' = Tail(stack) /\ UNCHANGED <<buf, pos, owed>>
      BY <1>17 DEF FireAlarms, At, input
    <2>2. stack' # <<>>
      BY <1>17, <2>1, <1>0, ConnectedShape DEF FireAlarms, At, EventPlace
    <2> QED
      BY <2>1, <2>2, <1>0, <1>c DEF Positions, FreshAlone, Idle
  <1>18. ASSUME DestroyClient PROVE Positions' /\ FreshAlone'
    <2> DEFINE c == Top.client
               b == [buf EXCEPT ![c] = <<>>]
               p == [pos EXCEPT ![c] = 0]
    <2>1. c \in Client /\ stack # <<>>
      BY <1>18, <1>0, ConnectedShape DEF DestroyClient, At
    <2>2. Return(b, p) /\ owed' = [owed EXCEPT ![c] = 0]
      BY <1>18 DEF DestroyClient
    <2>3. b \in [Client -> Seq(S)] /\ p \in [Client -> Nat]
      BY <1>a, <2>1
    <2>4. \A d \in Client : Counted(b[d], p[d], owed'[d])
      BY <1>0, <1>a, <2>1, <2>2 DEF Positions, Counted
    <2>5. Positions'
      BY <2>2, <2>3, <2>4, ReturnCounted
    <2> QED
      BY <2>1, <2>2, <2>5, <1>c DEF Return, FreshAlone
  <1> QED
    BY <1>2, <1>3, <1>4, <1>5, <1>6, <1>7, <1>8, <1>9, <1>10, <1>11, <1>12,
       <1>13, <1>14, <1>15, <1>16, <1>17, <1>18
    DEF Step, ServerStep

-----------------------------------------------------------------------------
(* The theorems so far *)

\* The control state, as an invariant of the specification.
THEOREM ControlInvariant == Spec => []Control
  <1> QED
    BY ControlInit, ControlStep, PTL DEF Spec

\* A server grab does not survive its owner (RemoveClient), and a client that
\* takes it (GrabServer) is connected.
THEOREM GrabIsOfTheConnected == Spec => []GrabHolderConnected
  <1>1. Control => GrabHolderConnected
    BY DEF Control, GrabHolderConnected
  <1> QED
    BY <1>1, ControlInvariant, PTL

\* Every request is counted exactly once, however it was read, deferred and
\* pumped: generateSequenceNumber keeps pace with the buffers.
THEOREM SequenceNumbers == Spec => []SequenceNumbersExact
  <1>1. CountInv => SequenceNumbersExact
    BY ConnectedShape DEF CountInv, Positions, Counted, SequenceNumbersExact
  <1> QED
    BY <1>1, CountInit, CountStep, PTL DEF Spec

-----------------------------------------------------------------------------
(* Nobody is stranded. *)

\* The frame f will still come to client c.
Serves(f, c) ==
  \/ f.at = "loop"
  \/ f.at = "scan" /\ (f.progressed \/ c \in ToSet(f.rest))
  \/ f.at = "conn" /\ f.client = c

Covered(s, c) == \E f \in ToSet(s) : Serves(f, c)

\* At every moment, also between the steps of an event, a client that may run
\* has a frame that will come to it.  Clients that have never been connected
\* have nothing to run.
AllCovered == \A c \in Connected \ hung : Executable(c) => Covered(stack, c)
NothingEarly == \A c \in Client \ (Connected \cup hung) : buf[c] = <<>>

CoverInv == CountInv /\ AllCovered /\ NothingEarly

LEMMA CoverInit == Init => CoverInv
  <1> SUFFICES ASSUME Init PROVE CoverInv
    OBVIOUS
  <1>1. AllCovered
    BY DEF Init, AllCovered, Connected, ToSet
  <1>2. NothingEarly
    BY DEF Init, NothingEarly
  <1> QED
    BY <1>1, <1>2, CountInit DEF CoverInv

\* A frame covers what it covers wherever it is on the stack.
LEMMA CoveredShape ==
  ASSUME NEW f \in Frame, NEW s \in Seq(Frame), NEW c
  PROVE  /\ Covered(<<f>> \o s, c) <=> Serves(f, c) \/ Covered(s, c)
         /\ s # <<>> => (Covered(s, c) <=> Serves(Head(s), c) \/ Covered(Tail(s), c))
         /\ s = <<>> => ~Covered(s, c)
  <1>1. ToSet(<<f>> \o s) = {f} \cup ToSet(s)
    BY Pushed
  <1>2. s # <<>> => ToSet(s) = {Head(s)} \cup ToSet(Tail(s))
    BY Popped
  <1>3. ToSet(<<>>) = {}
    BY DEF ToSet
  <1> QED
    BY <1>1, <1>2, <1>3 DEF Covered

\* What a client may run depends on its buffer, the grab and `awaiting' only.
LEMMA SameExecutable ==
  ASSUME NEW d \in Client, UNCHANGED <<buf[d], pos[d], half[d]>>,
         Deferred(d) => Deferred(d)', Executable(d)'
  PROVE  Executable(d)
  BY DEF Executable, Complete

\* Dropping what has been consumed gives nobody a request.
LEMMA ReturnExecutable ==
  ASSUME Control, Positions, NEW d \in Client,
         NEW b \in [Client -> Seq(session.requests \cup {Consumed})],
         NEW p \in [Client -> Nat], Return(b, p),
         b[d] = buf[d], p[d] = pos[d], UNCHANGED half[d],
         Deferred(d) => Deferred(d)', Executable(d)'
  PROVE  Executable(d)
  <1>1. CASE Tail(stack) # <<>>
    BY <1>1, ReturnShape, SameExecutable
  <1>2. CASE Tail(stack) = <<>>
    <2> DEFINE q == pos[d]  n == Len(buf[d])
               h == IF half[d] THEN 1 ELSE 0
    <2>1. q \in Nat /\ n \in Nat /\ h \in {0, 1} /\ q % 2 = 0 /\ q \div 2 <= n
      BY DEF Control, TypeOK, Positions, Counted
    <2>2. pos'[d] = q - 2 * (q \div 2) /\ Len(buf'[d]) = n - q \div 2
      <3>1. p[d] \div 2 <= Len(b[d])
        BY <2>1
      <3>2. /\ pos'[d] = p[d] - 2 * (p[d] \div 2)
            /\ Len(buf'[d]) = Len(b[d]) - p[d] \div 2
        BY <1>2, <3>1, ReturnShape, ZenonT(30)
      <3> QED
        BY <3>2
    <2>3. pos'[d] \div 2 < Len(buf'[d]) - h
      BY DEF Executable, Complete
    <2>4. ~Deferred(d)
      BY DEF Executable
    <2> HIDE DEF q, n, h
    <2>5. pos'[d] = 0 /\ 0 \div 2 = 0
      BY <2>1, <2>2
    <2>6. q \div 2 < n - h
      BY <2>1, <2>2, <2>3, <2>5
    <2> QED
      BY <2>4, <2>6 DEF q, n, h, Executable, Complete
  <1> QED
    BY <1>1, <1>2

\* The execution of a request by c, where the frames of `rest' cover c and
\* whoever else may run.
LEMMA ExecuteCovered ==
  ASSUME CoverInv, NEW c \in Connected, NEW rest \in Seq(Frame), Execute(c, rest),
         Covered(rest, c),
         \A d \in Connected \ hung : d # c /\ Executable(d) => Covered(rest, d)
  PROVE  AllCovered' /\ NothingEarly'
  <1>1. /\ UNCHANGED <<clients, hung, half>> /\ Connected' = Connected
        /\ Complete(c) /\ c \in Client /\ Connected \subseteq Client
        /\ \A d \in Client : d # c => buf'[d] = buf[d] /\ pos'[d] = pos[d]
    BY BlankedShape, ConnectedShape
    DEF Execute, Executable, Consume, CoverInv, CountInv, Control, Connected
  <1>2. NothingEarly'
    BY <1>1 DEF NothingEarly, CoverInv
  <1> SUFFICES ASSUME NEW d \in Connected \ hung, Executable(d)'
               PROVE  Covered(stack', d)
    BY <1>1, <1>2 DEF AllCovered
  <1>3. Pump \in Frame /\ Fire \in Frame /\ Serves(Pump, d)
    BY Frames DEF Serves
  <1>4. <<Fire>> \o rest \in Seq(Frame)
    BY <1>3, Pushed
  <1>5. CASE stack' \in {<<Pump>> \o rest, <<Pump>> \o (<<Fire>> \o rest)}
    <2>1. /\ Covered(<<Pump>> \o rest, d)
          /\ Covered(<<Pump>> \o (<<Fire>> \o rest), d)
      BY <1>3, <1>4, CoveredShape
    <2> QED
      BY <1>5, <2>1
  <1>6. CASE stack' \notin {<<Pump>> \o rest, <<Pump>> \o (<<Fire>> \o rest)}
    <2>1. stack' \in {rest, <<Fire>> \o rest}
      BY <1>6, PerformEffect DEF Execute
    <2>2. grab' = grab \/ (grab = None /\ grab' = c)
      BY <1>6, PerformEffect DEF Execute
    <2>3. awaiting \subseteq awaiting'
      BY <1>6, PerformEffect DEF Execute
    <2>4. Covered(rest, d)
      <3>1. CASE d # c
        <4>1. Deferred(d) => Deferred(d)'
          BY <2>2, <2>3, <3>1 DEF Deferred
        <4>2. Executable(d)
          BY <1>1, <3>1, <4>1, SameExecutable
        <4> QED
          BY <3>1, <4>2
      <3> QED
        BY <3>1
    <2>5. Covered(<<Fire>> \o rest, d)
      BY <1>3, <2>4, CoveredShape
    <2> QED
      BY <2>1, <2>4, <2>5
  <1> QED
    BY <1>5, <1>6

\* The end of a connection: either it held the grab, and a pump follows, or
\* what the others may do is what it was.
LEMMA RemoveCovered ==
  ASSUME CoverInv, UNCHANGED <<input, sync, hung>>, NEW c \in Connected, c \in hung,
         RemoveClient(c), Control',
         \A d \in Connected \ hung : d # c => ~Executable(d)
  PROVE  AllCovered' /\ NothingEarly'
  <1>1. Connected' = Connected \ {c}
    <2>1. /\ clients \in Seq(Client) /\ c \in ToSet(clients)
          /\ \A i, j \in DOMAIN clients : clients[i] = clients[j] => i = j
      BY DEF CoverInv, CountInv, Control, TypeOK, Connected
    <2>2. ToSet(RemoveFirst(clients, c)) = ToSet(clients) \ {c}
      BY <2>1, Removed
    <2> QED
      BY <2>2 DEF RemoveClient, Connected
  <1>2. NothingEarly'
    BY <1>1 DEF NothingEarly, CoverInv, input
  <1> SUFFICES ASSUME NEW d \in Connected \ hung, d # c, Executable(d)'
               PROVE  Covered(stack', d)
    BY <1>1, <1>2 DEF AllCovered
  <1>3. CASE grab = c
    <2>1. stack' = <<Pump, Destroy(c)>>
      BY <1>3 DEF RemoveClient
    <2>2. Pump \in ToSet(stack') /\ Serves(Pump, d)
      BY <2>1 DEF ToSet, Serves, Pump
    <2> QED
      BY <2>2 DEF Covered
  <1>4. CASE grab # c
    <2>1. grab' = grab /\ awaiting' = awaiting /\ UNCHANGED <<buf, pos, half>>
      BY <1>4 DEF RemoveClient, sync, input
    <2>2. d \in Client
      BY ConnectedShape DEF CoverInv, CountInv
    <2>3. Executable(d)
      BY <2>1, <2>2, SameExecutable DEF Deferred
    <2> QED
      BY <2>3
  <1> QED
    BY <1>3, <1>4

LEMMA CoverStep ==
  ASSUME CoverInv, [Next]_vars
  PROVE  CoverInv'
  <1>0. /\ CountInv' /\ CountInv /\ Control /\ Control' /\ Positions /\ FreshAlone /\ TypeOK
        /\ AllCovered /\ NothingEarly
    BY CountStep DEF CoverInv, CountInv, Control
  <1> SUFFICES AllCovered' /\ NothingEarly'
    BY <1>0 DEF CoverInv
  <1>1. CASE UNCHANGED vars
    BY <1>0, <1>1 DEF vars, input, sync, AllCovered, NothingEarly, Connected,
       Executable, Deferred, Complete
  <1> SUFFICES ASSUME Step, UNCHANGED session
               PROVE  AllCovered' /\ NothingEarly'
    BY <1>1 DEF Next
  <1> DEFINE S == session.requests \cup {Consumed}
  <1>a. /\ buf \in [Client -> Seq(S)] /\ pos \in [Client -> Nat]
        /\ stack \in Seq(Frame) /\ Connected \subseteq Client
        /\ stack # <<>> => /\ Top \in Frame
                           /\ Tail(stack) \in Seq(Frame)
                           /\ Top.at \in EventPlace => Tail(stack) = <<>>
    BY <1>0, ConnectedShape DEF Control, TypeOK, GoodStack
  <1>b. ASSUME stack # <<>>, NEW d
        PROVE  Covered(stack, d) <=> Serves(Top, d) \/ Covered(Tail(stack), d)
    BY <1>a, <1>b, CoveredShape DEF Top
  \* A step that changes neither the connections nor what anybody may run,
  \* and after which the stack still covers everybody.
  <1>c. ASSUME UNCHANGED <<clients, grab, input, sync, hung>>,
               \A d \in Connected \ hung : Executable(d) => Covered(stack', d)
        PROVE  AllCovered' /\ NothingEarly'
    BY <1>c, <1>0 DEF input, sync, AllCovered, NothingEarly, Connected,
       Executable, Deferred, Complete
  \* The innermost frame returns, and nobody it would have come to may run.
  <1>d. ASSUME stack # <<>>, UNCHANGED <<clients, grab, half, sync, hung>>,
               Return(buf, pos),
               \A d \in Connected \ hung : Executable(d) => ~Serves(Top, d)
        PROVE  AllCovered' /\ NothingEarly'
    <2>1. Connected' = Connected /\ stack' = Tail(stack)
      BY <1>d DEF Connected, Return
    <2>2. \A d \in Client : buf[d] = <<>> => buf'[d] = <<>>
      BY <1>a, <1>d, ReturnShape
    <2>3. ASSUME NEW d \in Connected \ hung, Executable(d)'
          PROVE  Covered(stack', d)
      <3>1. Deferred(d) => Deferred(d)'
        BY <1>d DEF Deferred, sync
      <3>2. Executable(d)
        BY <1>0, <1>a, <1>d, <2>3, <3>1, ReturnExecutable
      <3> QED
        BY <1>0, <1>b, <1>d, <2>1, <3>2 DEF AllCovered
    <2> QED
      BY <1>0, <1>d, <2>1, <2>2, <2>3 DEF AllCovered, NothingEarly
  <1>2. ASSUME NEW c \in Client, Accept(c) PROVE AllCovered' /\ NothingEarly'
    <2>1. Connected' = Connected \cup {c} /\ UNCHANGED <<grab, input, sync, hung, stack>>
      <3>1. clients' = Append(clients, c) /\ c \notin ToSet(clients)
        BY <1>2 DEF Accept, Connected
      <3>2. ToSet(Append(clients, c)) = ToSet(clients) \cup {c}
        <4>1. /\ clients \in Seq(Client)
              /\ \A i, j \in DOMAIN clients : clients[i] = clients[j] => i = j
          BY <1>0 DEF Control, TypeOK
        <4> QED
          BY <3>1, <4>1, Added
      <3> QED
        BY <1>2, <3>1, <3>2 DEF Accept, Connected
    <2>2. ~Executable(c)
      <3>1. buf[c] = <<>> /\ Counted(buf[c], pos[c], owed[c])
        BY <1>2, <1>0 DEF Accept, NothingEarly, Positions
      <3>2. pos[c] \div 2 = 0
        BY <3>1, <1>a DEF Counted
      <3>3. ~Complete(c)
        BY <3>1, <3>2 DEF Complete
      <3> QED
        BY <3>3 DEF Executable
    <2> QED
      BY <2>1, <2>2, <1>0 DEF input, sync, AllCovered, NothingEarly,
         Executable, Deferred, Complete
  <1>3. ASSUME NEW c \in Client, HangUp(c) PROVE AllCovered' /\ NothingEarly'
    BY <1>3, <1>0 DEF HangUp, input, sync, AllCovered, NothingEarly, Connected,
       Executable, Deferred, Complete
  <1>4. ASSUME NEW c \in Client, EndOfFile(c) PROVE AllCovered' /\ NothingEarly'
    <2>1. \A d \in Connected \ hung : ~Executable(d)
      BY <1>4, <1>0, <1>a, CoveredShape DEF EndOfFile, Idle, AllCovered, Covered, ToSet
    <2> QED
      BY <1>4, <1>0, <2>1, RemoveCovered DEF EndOfFile
  <1>5. ASSUME NEW c \in Client, NEW rs \in Batches, NEW cut \in BOOLEAN,
               Readable(c, rs, cut)
        PROVE  AllCovered' /\ NothingEarly'
    <2>1. /\ Connected' = Connected /\ c \in Connected /\ Idle
          /\ stack' = <<Conn(c, 0, FALSE)>>
          /\ UNCHANGED <<grab, pos, sync, hung>>
          /\ \A d \in Client : d # c => buf'[d] = buf[d] /\ half'[d] = half[d]
      BY <1>5, <1>0, <1>a DEF Readable, Connected, TypeOK
    <2>2. ASSUME NEW d \in Connected \ hung, Executable(d)' PROVE Covered(stack', d)
      <3>1. CASE d = c
        <4>1. /\ Conn(c, 0, FALSE) \in ToSet(stack')
              /\ Serves(Conn(c, 0, FALSE), c)
          <5>1. \A f : ToSet(<<f>>) = {f}
            BY DEF ToSet
          <5>2. Serves(Conn(c, 0, FALSE), c)
            BY DEF Serves, Conn
          <5> QED
            BY <2>1, <5>1, <5>2
        <4> QED
          BY <3>1, <4>1 DEF Covered
      <3>2. CASE d # c
        <4>1. Deferred(d) => Deferred(d)'
          BY <2>1 DEF Deferred, sync
        <4>2. Executable(d)
          BY <2>1, <2>2, <3>2, <4>1, <1>a, SameExecutable
        <4>3. ~Covered(stack, d)
          BY <2>1 DEF Idle, Covered, ToSet
        <4> QED
          BY <4>2, <4>3, <1>0 DEF AllCovered
      <3> QED
        BY <3>1, <3>2
    <2>3. NothingEarly'
      BY <2>1, <1>0, <1>a DEF NothingEarly
    <2> QED
      BY <2>1, <2>2, <2>3 DEF AllCovered
  <1>6. ASSUME ConnExecute PROVE AllCovered' /\ NothingEarly'
    <2>1. /\ stack # <<>> /\ Top.at = "conn" /\ Tail(stack) = <<>>
          /\ Top.client \in Connected
      BY <1>6, <1>a, <1>0, ConnectedShape DEF ConnExecute, At, EventPlace
    <2>2. RanConn \in Frame /\ Serves(RanConn, Top.client)
      BY <1>6, <1>0, RanConnShape DEF ConnExecute, Serves, RanConn, Conn
    <2>3. /\ <<RanConn>> \o Tail(stack) \in Seq(Frame)
          /\ Covered(<<RanConn>> \o Tail(stack), Top.client)
      <3>1. Tail(stack) \in Seq(Frame)
        BY <1>a, <2>1
      <3> QED
        BY <2>2, <3>1, Pushed, CoveredShape
    <2>4. ASSUME NEW d \in Connected \ hung, d # Top.client, Executable(d)
          PROVE  FALSE
      <3>1. Serves(Top, d) \/ Covered(Tail(stack), d)
        BY <2>4, <1>0, <1>b, <2>1 DEF AllCovered
      <3>2. ~Covered(Tail(stack), d)
        BY <2>1 DEF Covered, ToSet
      <3> QED
        BY <3>1, <3>2, <2>1, <2>4 DEF Serves
    <2> QED
      BY <1>6, <2>1, <2>3, <2>4, ExecuteCovered DEF ConnExecute, RanConn
  <1>7. ASSUME ConnDone PROVE AllCovered' /\ NothingEarly'
    <2>1. [pos EXCEPT ![Top.client] = ActivePosition] = pos
      BY <1>7, <1>0, <1>a, FreshShape DEF ConnDone
    <2>2. /\ Return(buf, pos) /\ stack # <<>> /\ ~Executable(Top.client)
          /\ UNCHANGED <<clients, grab, half, sync, hung>>
          /\ Top.at = "conn"
      BY <1>7, <2>1 DEF ConnDone, At
    <2> QED
      BY <2>2, <1>d DEF Serves
  <1>8. ASSUME ConnFails PROVE AllCovered' /\ NothingEarly'
    <2>1. /\ stack # <<>> /\ Top.at = "conn" /\ Tail(stack) = <<>>
          /\ Top.client \in Connected
      BY <1>8, <1>a, <1>0, ConnectedShape DEF ConnFails, At, EventPlace
    <2>2. ASSUME NEW d \in Connected \ hung, d # Top.client, Executable(d)
          PROVE  FALSE
      <3>1. Serves(Top, d) \/ Covered(Tail(stack), d)
        BY <2>2, <1>0, <1>b, <2>1 DEF AllCovered
      <3>2. ~Covered(Tail(stack), d)
        BY <2>1 DEF Covered, ToSet
      <3> QED
        BY <3>1, <3>2, <2>1, <2>2 DEF Serves
    <2> QED
      BY <1>8, <1>0, <2>1, <2>2, RemoveCovered DEF ConnFails, ReplyMayFail
  <1>9. ASSUME LoopGrabber PROVE AllCovered' /\ NothingEarly'
    <2>1. stack # <<>> /\ Top.at = "loop" /\ grab \in Connected
      BY <1>9, <1>0, ConnectedShape DEF LoopGrabber, At
    <2>2. \A d : Covered(stack, d)
      BY <2>1, <1>b DEF Serves
    <2> QED
      BY <1>9, <1>a, <2>1, <2>2, ExecuteCovered DEF LoopGrabber
  <1>10. ASSUME LoopReturn PROVE AllCovered' /\ NothingEarly'
    <2>1. \A d \in Connected \ hung : ~Executable(d)
      BY <1>10 DEF LoopReturn, Executable, Deferred
    <2> QED
      BY <1>10, <1>d, <2>1 DEF LoopReturn, At
  <1>11. ASSUME LoopFails PROVE AllCovered' /\ NothingEarly'
    <2> DEFINE b == Blanked(grab)  p == Advanced(grab)
    <2>1. /\ grab # None /\ grab \in hung /\ grab \in Client /\ Complete(grab)
          /\ UNCHANGED <<clients, grab, half, sync, hung>>
          /\ Return(b, p)
          /\ Connected' = Connected
      BY <1>11, <1>0, ConnectedShape
      DEF LoopFails, ReplyMayFail, Executable, Connected
    <2>2. /\ b \in [Client -> Seq(S)] /\ p \in [Client -> Nat]
          /\ \A d \in Client : d # grab => b[d] = buf[d] /\ p[d] = pos[d]
      BY <1>0, <2>1, BlankedShape
    <2> HIDE DEF b, p
    <2>3. \A d \in Connected \ hung : ~Executable(d)'
      BY <2>1 DEF Executable, Deferred
    <2>4. NothingEarly'
      <3>0. \A d \in Client : b[d] = <<>> => buf'[d] = <<>>
        BY <2>1, <2>2, ReturnShape, ZenonT(30)
      <3>1. ASSUME NEW d \in Client \ (Connected \cup hung) PROVE buf'[d] = <<>>
        <4>1. b[d] = <<>>
          BY <3>1, <1>0, <2>1, <2>2 DEF NothingEarly
        <4> QED
          BY <4>1, <3>0
      <3> QED
        BY <3>1, <2>1 DEF NothingEarly
    <2> QED
      BY <2>1, <2>3, <2>4 DEF AllCovered
  <1>12. ASSUME LoopScan PROVE AllCovered' /\ NothingEarly'
    <2>1. stack # <<>> /\ stack' = <<Scan(clients, FALSE)>> \o Tail(stack)
      BY <1>12 DEF LoopScan, At
    <2>2. \A d \in Connected : Serves(Scan(clients, FALSE), d)
      BY DEF Serves, Scan, Connected
    <2>3. \A d \in Connected : Covered(stack', d)
      BY <2>1, <2>2, <1>0, <1>a, Frames, CoveredShape DEF TypeOK
    <2> QED
      BY <1>12, <2>3, <1>c DEF LoopScan
  <1>13. ASSUME ScanExecute PROVE AllCovered' /\ NothingEarly'
    <2>1. /\ stack # <<>> /\ Top.rest \in Seq(Client)
          /\ Head(Top.rest) \in Connected
      BY <1>13, <1>0, ScanShape, ConnectedShape DEF ScanExecute, At
    <2> DEFINE f == Scan(Top.rest, TRUE)
    <2>2. f \in Frame /\ \A d : Serves(f, d)
      BY <2>1, Frames DEF Serves, Scan
    <2> HIDE DEF f
    <2>3. <<f>> \o Tail(stack) \in Seq(Frame) /\ \A d : Covered(<<f>> \o Tail(stack), d)
      BY <2>1, <2>2, <1>a, Pushed, CoveredShape
    <2>4. Execute(Head(Top.rest), <<f>> \o Tail(stack))
      BY <1>13 DEF ScanExecute, f
    <2> QED
      BY <2>1, <2>3, <2>4, ExecuteCovered
  <1>14. ASSUME ScanNext PROVE AllCovered' /\ NothingEarly'
    <2>1. /\ stack # <<>> /\ Top.at = "scan" /\ Top.rest # <<>>
          /\ Tail(Top.rest) \in Seq(Client) /\ Top.progressed \in BOOLEAN
          /\ ToSet(Top.rest) = {Head(Top.rest)} \cup ToSet(Tail(Top.rest))
          /\ ~Executable(Head(Top.rest))
      BY <1>14, <1>0, ScanShape, ConnectedShape DEF ScanNext, At
    <2> DEFINE f == Scan(Tail(Top.rest), Top.progressed)
    <2>2. /\ f \in Frame
          /\ \A d : Serves(Top, d) => Serves(f, d) \/ d = Head(Top.rest)
      BY <2>1, Frames DEF Serves, Scan
    <2>3. stack' = <<f>> \o Tail(stack)
      BY <1>14 DEF ScanNext
    <2> HIDE DEF f
    <2>4. ASSUME NEW d \in Connected \ hung, Executable(d) PROVE Covered(stack', d)
      <3>1. Serves(f, d) \/ Covered(Tail(stack), d)
        BY <2>4, <2>1, <2>2, <1>b, <1>0 DEF AllCovered
      <3> QED
        BY <3>1, <2>2, <2>3, <1>a, <2>1, CoveredShape
    <2> QED
      BY <1>14, <2>4, <1>c DEF ScanNext
  <1>15. ASSUME ScanFails PROVE AllCovered' /\ NothingEarly'
    <2> DEFINE c == Head(Top.rest)
               f == Scan(Tail(Top.rest), Top.progressed)
    <2>1. /\ stack # <<>> /\ Top.at = "scan" /\ Top.rest # <<>>
          /\ Tail(Top.rest) \in Seq(Client) /\ Top.progressed \in BOOLEAN
          /\ ToSet(Top.rest) = {Head(Top.rest)} \cup ToSet(Tail(Top.rest))
          /\ c \in Connected /\ c \in hung /\ Complete(c)
      BY <1>15, <1>0, ScanShape, ConnectedShape
      DEF ScanFails, At, ReplyMayFail, Executable
    <2>2. /\ f \in Frame
          /\ \A d : Serves(Top, d) => Serves(f, d) \/ d = c
      BY <2>1, Frames DEF Serves, Scan
    <2>3. /\ stack' = <<f>> \o Tail(stack)
          /\ UNCHANGED <<clients, grab, half, sync, hung>>
          /\ \A d \in Client : d # c => buf'[d] = buf[d] /\ pos'[d] = pos[d]
      BY <1>15, <1>0, <1>a, <2>1, BlankedShape DEF ScanFails, NoEffect, Consume
    <2>4. Connected' = Connected
      BY <2>3 DEF Connected
    <2> HIDE DEF f, c
    <2>5. ASSUME NEW d \in Connected \ hung, Executable(d)' PROVE Covered(stack', d)
      <3>1. d # c /\ d \in Client
        BY <2>1, <1>a
      <3>2. Deferred(d) => Deferred(d)'
        BY <2>3 DEF Deferred, sync
      <3>3. Executable(d)
        BY <2>3, <2>5, <3>1, <3>2, SameExecutable
      <3>4. Serves(f, d) \/ Covered(Tail(stack), d)
        BY <3>1, <3>3, <2>1, <2>2, <1>b, <1>0 DEF AllCovered
      <3> QED
        BY <3>4, <2>2, <2>3, <1>a, <2>1, CoveredShape
    <2>6. NothingEarly'
      BY <2>1, <2>3, <2>4, <1>0 DEF NothingEarly
    <2> QED
      BY <2>3, <2>4, <2>5, <2>6 DEF AllCovered
  <1>16. ASSUME ScanEnd PROVE AllCovered' /\ NothingEarly'
    <2>1. stack # <<>> /\ Top.at = "scan"
          /\ (grab # None \/ Top.rest = <<>>)
          /\ UNCHANGED <<clients, grab, half, sync, hung>>
      BY <1>16 DEF ScanEnd, At
    <2>2. CASE grab # None \/ Top.progressed
      <3>1. stack' = <<Pump>> \o Tail(stack) /\ UNCHANGED <<buf, pos>>
        BY <1>16, <2>2 DEF ScanEnd
      <3>2. \A d : Covered(<<Pump>> \o Tail(stack), d)
        BY <2>1, <1>a, Frames, CoveredShape DEF Serves
      <3> QED
        BY <2>1, <3>1, <3>2, <1>c DEF input
    <2>3. CASE ~(grab # None \/ Top.progressed)
      <3>1. Return(buf, pos)
        BY <1>16, <2>3 DEF ScanEnd
      <3>2. \A d : ~Serves(Top, d)
        BY <2>1, <2>3 DEF Serves, ToSet
      <3> QED
        BY <2>1, <3>1, <3>2, <1>d
    <2> QED
      BY <2>2, <2>3
  <1>17. ASSUME FireAlarms PROVE AllCovered' /\ NothingEarly'
    <2>1. /\ stack # <<>> /\ Top.at = "fire" /\ stack' = Tail(stack)
          /\ UNCHANGED <<clients, grab, input, awaiting, hung>>
      BY <1>17 DEF FireAlarms, At
    <2>2. \A d : ~Serves(Top, d)
      BY <2>1 DEF Serves
    <2>3. \A d \in Connected \ hung : Executable(d) => Covered(stack', d)
      BY <1>0, <1>b, <2>1, <2>2 DEF AllCovered
    <2> QED
      BY <2>1, <2>3, <1>0 DEF input, AllCovered, NothingEarly, Connected,
         Executable, Deferred, Complete
  <1>18. ASSUME DestroyClient PROVE AllCovered' /\ NothingEarly'
    <2>0. PICK c \in Client : c = Top.client
      BY <1>18, <1>0, ConnectedShape DEF DestroyClient
    <2> DEFINE b == [buf EXCEPT ![c] = <<>>]
               p == [pos EXCEPT ![c] = 0]
    <2>1. /\ stack # <<>> /\ Top.at = "destroy"
          /\ Return(b, p)
          /\ UNCHANGED <<clients, grab, hung>>
          /\ half' = [half EXCEPT ![c] = FALSE]
          /\ awaiting' = awaiting \/ awaiting' = awaiting \ {c}
          /\ Connected' = Connected
      BY <1>18, <2>0 DEF DestroyClient, At, Connected
    <2>2. /\ b \in [Client -> Seq(S)] /\ p \in [Client -> Nat]
          /\ b[c] = <<>> /\ p[c] = 0
          /\ \A d \in Client : d # c => b[d] = buf[d] /\ p[d] = pos[d]
      BY <1>a
    <2> HIDE DEF b, p
    <2>3. \A d \in Client : b[d] = <<>> => buf'[d] = <<>>
      BY <2>1, <2>2, ReturnShape, SMTT(30)
    <2>4. ~Executable(c)'
      <3>1. buf'[c] = <<>> /\ half'[c] = FALSE
        BY <1>0, <2>1, <2>2, <2>3 DEF TypeOK
      <3>2. pos'[c] \in Nat
        BY <1>0, <2>1 DEF Control, TypeOK
      <3>3. ~Complete(c)'
        BY <3>1, <3>2 DEF Complete
      <3> QED
        BY <3>3 DEF Executable
    <2>5. ASSUME NEW d \in Connected \ hung, Executable(d)' PROVE Covered(stack', d)
      <3>1. d # c /\ d \in Client
        BY <2>4, <2>5, <1>a
      <3>2. Deferred(d) => Deferred(d)'
        BY <2>1, <3>1 DEF Deferred
      <3>3. half'[d] = half[d] /\ b[d] = buf[d] /\ p[d] = pos[d]
        BY <1>0, <2>1, <2>2, <3>1 DEF TypeOK
      <3>4. Executable(d)
        BY <1>0, <2>1, <2>2, <2>5, <3>1, <3>2, <3>3, ReturnExecutable
      <3>5. ~Serves(Top, d)
        BY <2>1 DEF Serves
      <3> QED
        BY <1>0, <1>b, <2>1, <3>4, <3>5 DEF AllCovered, Return
    <2>6. NothingEarly'
      BY <1>0, <2>1, <2>2, <2>3 DEF NothingEarly
    <2> QED
      BY <2>1, <2>5, <2>6 DEF AllCovered
  <1> QED
    BY <1>2, <1>3, <1>4, <1>5, <1>6, <1>7, <1>8, <1>9, <1>10, <1>11, <1>12,
       <1>13, <1>14, <1>15, <1>16, <1>17, <1>18
    DEF Step, ServerStep

\* When the thread goes back to epoll_wait nobody who may run has a complete
\* request in its buffer: UngrabServer, the end of the grab's owner and the
\* release of a waiter have pumped them all.
THEOREM NobodyStranded == Spec => []NothingStranded
  <1>1. CoverInv => NothingStranded
    BY DEF CoverInv, AllCovered, Covered, ToSet, Idle, NothingStranded
  <1> QED
    BY <1>1, CoverInit, CoverStep, PTL DEF Spec

-----------------------------------------------------------------------------
(* The SYNC objects and who waits for them. *)

Trigger == [counter : SyncId, test : Tests, wait : Int]
Waiter == [client : Client, triggers : SUBSET Trigger, fences : SUBSET SyncId,
           orphan : BOOLEAN]
CounterObject == [kind : {"counter"}, owner : Client, previous : Int, value : Int]
FenceObject == [kind : {"fence"}, triggered : BOOLEAN]
AlarmObject == [kind : {"alarm"}, owner : Client, counter : SyncId, wait : Int,
                test : Tests, delta : Int, inactive : BOOLEAN, orphan : BOOLEAN]
SyncObject == {NoObject} \cup CounterObject \cup FenceObject \cup AlarmObject

\* Objects `obs', waiters `ws' and parked clients `aw'.
SyncTypes(obs, ws) == obs \in [SyncId -> SyncObject] /\ ws \subseteq Waiter
Parked(ws, aw) ==
  /\ aw = {w.client : w \in ws}
  /\ \A w, x \in ws : w.client = x.client => w = x
Settled(obs) ==
  \A i \in SyncId : IsKind(obs, i, "alarm") =>
    obs[i].inactive \/ obs[i].orphan \/ ~counterSatisfied(obs, obs[i])
AlarmsBound(obs) ==
  \A i \in SyncId : IsKind(obs, i, "alarm") /\ ~obs[i].orphan =>
    IsKind(obs, obs[i].counter, "counter")
\* What a waiter that is no orphan waits for exists, and has not come true.
Waits(obs, w) ==
  ~w.orphan => /\ \A t \in w.triggers : IsKind(obs, t.counter, "counter")
               /\ \A f \in w.fences : IsKind(obs, f, "fence")
               /\ ~waiterReady(obs, w)

HasFire(s) == \E f \in ToSet(s) : f.at = "fire"

\* The alarms are settled unless the frame that is going to fire them is on
\* the stack; everything else holds at every moment.
SyncInv ==
  /\ SyncTypes(objects, waiters)
  /\ Parked(waiters, awaiting)
  /\ AlarmsBound(objects)
  /\ \A w \in waiters : Waits(objects, w)
  /\ Settled(objects) \/ HasFire(stack)

LEMMA ObjectShape ==
  ASSUME NEW obs \in [SyncId -> SyncObject], NEW i \in SyncId
  PROVE  /\ obs[i] \in SyncObject
         /\ IsKind(obs, i, "counter") => obs[i] \in CounterObject
         /\ IsKind(obs, i, "fence") => obs[i] \in FenceObject
         /\ IsKind(obs, i, "alarm") => obs[i] \in AlarmObject
         /\ IsKind(obs, i, "none") <=> obs[i] = NoObject
  <1>1. obs[i] \in SyncObject
    OBVIOUS
  <1>2. CASE obs[i] = NoObject
    BY <1>2 DEF NoObject, IsKind, SyncObject
  <1>3. CASE obs[i] \in CounterObject
    BY <1>3 DEF NoObject, IsKind, SyncObject, CounterObject
  <1>4. CASE obs[i] \in FenceObject
    BY <1>4 DEF NoObject, IsKind, SyncObject, FenceObject
  <1>5. CASE obs[i] \in AlarmObject
    BY <1>5 DEF NoObject, IsKind, SyncObject, AlarmObject
  <1> QED
    BY <1>1, <1>2, <1>3, <1>4, <1>5 DEF SyncObject

\* A trigger looks at its counter only.
LEMMA SameCounter ==
  ASSUME NEW a, NEW b, NEW t, a[t.counter] = b[t.counter]
  PROVE  counterSatisfied(a, t) <=> counterSatisfied(b, t)
  BY DEF counterSatisfied, IsKind

\* A counter that is assigned the value it has wakes nobody.
LEMMA SameValue ==
  ASSUME NEW a \in [SyncId -> SyncObject], NEW i \in SyncId,
         IsKind(a, i, "counter"), NEW t, t.counter = i, t.wait \in Int,
         NEW b, b = [a EXCEPT ![i] = Assign(@, a[i].value)],
         counterSatisfied(b, t)
  PROVE  counterSatisfied(a, t)
  <1> DEFINE c == a[i]  d == b[i]
  <1>1. c \in CounterObject
    BY ObjectShape
  <1>2. c.value \in Int /\ c.previous \in Int /\ c.kind = "counter"
    BY <1>1 DEF CounterObject
  <1>3. d.value = c.value /\ d.previous = c.value /\ d.kind = "counter"
    BY <1>1 DEF Assign, CounterObject
  <1> HIDE DEF c, d
  <1>4. /\ ~(d.previous < t.wait /\ d.value >= t.wait)
        /\ ~(d.previous > t.wait /\ d.value <= t.wait)
    BY <1>2, <1>3
  <1>5. \/ t.test = "PositiveComparison" /\ d.value >= t.wait
        \/ t.test = "NegativeComparison" /\ d.value <= t.wait
    BY <1>4 DEF counterSatisfied, d
  <1> QED
    BY <1>2, <1>3, <1>5 DEF counterSatisfied, IsKind, c

\* fireAlarm leaves an alarm inactive or waiting.
LEMMA Fired ==
  ASSUME NEW obs \in [SyncId -> SyncObject], NEW a \in AlarmObject
  PROVE  /\ fireAlarm(obs, a) \in AlarmObject
         /\ fireAlarm(obs, a).counter = a.counter
         /\ fireAlarm(obs, a).orphan = a.orphan
         /\ \/ fireAlarm(obs, a).inactive
            \/ ~counterSatisfied(obs, fireAlarm(obs, a))
  <1>1. CASE a.inactive \/ ~counterSatisfied(obs, a)
    BY <1>1 DEF fireAlarm
  <1>2. CASE ~(a.inactive \/ ~counterSatisfied(obs, a))
    <2> DEFINE next == [a EXCEPT !.wait = a.wait + a.delta]
               off == a.delta = 0 \/ counterSatisfied(obs, next)
               r == [next EXCEPT !.inactive = off]
    <2>1. next \in AlarmObject /\ next.counter = a.counter /\ next.orphan = a.orphan
      BY DEF AlarmObject
    <2>2. off \in BOOLEAN
      OBVIOUS
    <2>3. fireAlarm(obs, a) = r
      BY <1>2 DEF fireAlarm
    <2>4. off \/ ~counterSatisfied(obs, next)
      OBVIOUS
    <2> HIDE DEF off, next
    <2>5. /\ r \in AlarmObject /\ r.counter = a.counter /\ r.orphan = a.orphan
          /\ r.inactive = off
          /\ r.counter = next.counter /\ r.test = next.test /\ r.wait = next.wait
      BY <2>1, <2>2 DEF AlarmObject
    <2>6. counterSatisfied(obs, r) <=> counterSatisfied(obs, next)
      BY <2>5 DEF counterSatisfied
    <2> QED
      BY <2>3, <2>4, <2>5, <2>6
  <1> QED
    BY <1>1, <1>2

\* An object is made, or is replaced by another of its kind, and wakes nobody.
LEMMA Replaced ==
  ASSUME SyncTypes(objects, waiters), AlarmsBound(objects),
         \A w \in waiters : Waits(objects, w),
         NEW id \in SyncId, NEW o \in SyncObject,
         NEW obs, obs = [objects EXCEPT ![id] = o],
         objects[id].kind \in {"none", o.kind},
         o.kind = "alarm" /\ ~o.orphan => IsKind(objects, o.counter, "counter")
  PROVE  /\ obs \in [SyncId -> SyncObject]
         /\ AlarmsBound(obs)
         /\ \A i \in SyncId, k \in {"counter", "fence"} :
              IsKind(objects, i, k) => IsKind(obs, i, k)
         /\ (/\ objects[id].kind = "fence" /\ o.triggered => objects[id].triggered
             /\ objects[id].kind = "counter" => \A t : t.counter = id /\ t.wait \in Int =>
                  (counterSatisfied(obs, t) => counterSatisfied(objects, t)))
            => \A w \in waiters : Waits(obs, w)
  <1>1. obs \in [SyncId -> SyncObject] /\ objects \in [SyncId -> SyncObject]
    BY DEF SyncTypes
  <1>2. \A i \in SyncId, k \in {"counter", "fence"} :
          IsKind(objects, i, k) => IsKind(obs, i, k)
    BY <1>1 DEF IsKind
  <1>3. AlarmsBound(obs)
    <2> SUFFICES ASSUME NEW i \in SyncId, IsKind(obs, i, "alarm"), ~obs[i].orphan
                 PROVE  IsKind(obs, obs[i].counter, "counter")
      BY DEF AlarmsBound
    <2>1. obs[i].counter \in SyncId
      BY <1>1, ObjectShape DEF AlarmObject
    <2>2. IsKind(objects, obs[i].counter, "counter")
      BY <1>1 DEF AlarmsBound, IsKind
    <2> QED
      BY <1>2, <2>1, <2>2
  <1>4. ASSUME objects[id].kind = "fence" /\ o.triggered => objects[id].triggered,
               objects[id].kind = "counter" => \A t : t.counter = id /\ t.wait \in Int =>
                 (counterSatisfied(obs, t) => counterSatisfied(objects, t)),
               NEW w \in waiters
        PROVE  Waits(obs, w)
    <2> SUFFICES ASSUME ~w.orphan
                 PROVE  /\ \A t \in w.triggers : IsKind(obs, t.counter, "counter")
                        /\ \A f \in w.fences : IsKind(obs, f, "fence")
                        /\ ~waiterReady(obs, w)
      BY DEF Waits
    <2>1. /\ \A t \in w.triggers : t.counter \in SyncId /\ t.wait \in Int
          /\ \A f \in w.fences : f \in SyncId
      BY DEF SyncTypes, Waiter, Trigger
    <2>2. /\ \A t \in w.triggers : IsKind(objects, t.counter, "counter")
          /\ \A f \in w.fences : IsKind(objects, f, "fence")
          /\ ~waiterReady(objects, w)
      BY DEF Waits
    <2>3. /\ \A t \in w.triggers : IsKind(obs, t.counter, "counter")
          /\ \A f \in w.fences : IsKind(obs, f, "fence")
      BY <1>2, <2>1, <2>2
    <2>4. ASSUME NEW t \in w.triggers PROVE ~counterSatisfied(obs, t)
      <3>1. CASE t.counter = id
        BY <3>1, <1>4, <2>1, <2>2 DEF IsKind, waiterReady
      <3>2. CASE t.counter # id
        <4>1. obs[t.counter] = objects[t.counter]
          BY <3>2, <1>1, <2>1
        <4> QED
          BY <4>1, <2>2, SameCounter DEF waiterReady
      <3> QED
        BY <3>1, <3>2
    <2>5. ASSUME NEW f \in w.fences, obs[f].triggered PROVE FALSE
      <3>1. CASE f = id
        BY <3>1, <2>5, <1>1, <1>4, <2>1, <2>2 DEF IsKind, waiterReady
      <3>2. CASE f # id
        BY <3>2, <2>5, <1>1, <2>1, <2>2 DEF waiterReady
      <3> QED
        BY <3>1, <3>2
    <2> QED
      BY <2>3, <2>4, <2>5 DEF waiterReady
  <1> QED
    BY <1>1, <1>2, <1>3, <1>4

\* The alarms after that: the new one is settled, and nothing has happened
\* that the others wait for.
LEMMA ReplacedSettled ==
  ASSUME SyncTypes(objects, waiters), AlarmsBound(objects), Settled(objects),
         NEW id \in SyncId, NEW o \in SyncObject,
         NEW obs, obs = [objects EXCEPT ![id] = o],
         objects[id].kind \in {"none", o.kind},
         o.kind = "alarm" => o.inactive \/ o.orphan \/ ~counterSatisfied(obs, o),
         objects[id].kind = "counter" => \A t : t.counter = id /\ t.wait \in Int =>
           (counterSatisfied(obs, t) => counterSatisfied(objects, t))
  PROVE  Settled(obs)
  <1>1. obs \in [SyncId -> SyncObject] /\ objects \in [SyncId -> SyncObject]
    BY DEF SyncTypes
  <1> SUFFICES ASSUME NEW i \in SyncId, IsKind(obs, i, "alarm"),
                      ~obs[i].inactive, ~obs[i].orphan
               PROVE  ~counterSatisfied(obs, obs[i])
    BY DEF Settled
  <1>2. CASE i = id
    BY <1>1, <1>2 DEF IsKind
  <1>3. CASE i # id
    <2>1. obs[i] = objects[i] /\ IsKind(objects, i, "alarm")
      BY <1>1, <1>3 DEF IsKind
    <2>2. /\ ~counterSatisfied(objects, obs[i])
          /\ IsKind(objects, obs[i].counter, "counter")
      BY <2>1 DEF Settled, AlarmsBound
    <2>3. obs[i].counter \in SyncId /\ obs[i].wait \in Int
      BY <1>1, ObjectShape DEF AlarmObject
    <2>4. CASE obs[i].counter = id
      BY <2>2, <2>3, <2>4 DEF IsKind
    <2>5. CASE obs[i].counter # id
      BY <1>1, <2>2, <2>3, <2>5, SameCounter
    <2> QED
      BY <2>4, <2>5
  <1> QED
    BY <1>2, <1>3

\* Whoever is ready leaves both records at once.
LEMMA Released ==
  ASSUME Parked(waiters, awaiting), waiters \subseteq Waiter,
         NEW obs, NEW rest, releaseWaiters(obs, rest)
  PROVE  /\ Parked(waiters', awaiting')
         /\ waiters' \subseteq waiters
         /\ \A w \in waiters' : ~waiterReady(obs, w)
  <1> DEFINE ready == {w \in waiters : waiterReady(obs, w)}
  <1>1. /\ waiters' = waiters \ ready
        /\ awaiting' = awaiting \ {w.client : w \in ready}
    BY DEF releaseWaiters
  <1>2. awaiting' = {w.client : w \in waiters'}
    BY <1>1 DEF Parked
  <1> QED
    BY <1>1, <1>2 DEF Parked

\* What a handler, or the step it is part of, makes of the SYNC state.
SyncEffect(rest) ==
  /\ SyncTypes(objects', waiters')
  /\ Parked(waiters', awaiting')
  /\ AlarmsBound(objects')
  /\ \A w \in waiters' : Waits(objects', w)
  /\ Settled(objects) =>
       \/ Settled(objects')
       \/ stack' \in {<<Fire>> \o rest, <<Pump>> \o (<<Fire>> \o rest)}

SyncBefore ==
  /\ SyncTypes(objects, waiters)
  /\ Parked(waiters, awaiting)
  /\ AlarmsBound(objects)
  /\ \A w \in waiters : Waits(objects, w)

\* The checks at the head of the handlers.
LEMMA AcceptableShape ==
  ASSUME NEW r, Acceptable(r)
  PROVE  /\ r.op \in {"CreateCounter", "CreateFence"} => ~idBusy(objects, r.id)
         /\ r.op = "CreateAlarm" =>
              /\ ~idBusy(objects, r.id)
              /\ "counter" \in DOMAIN r.attributes
         /\ r.op \in {"SetCounter", "ChangeCounter"} => IsKind(objects, r.id, "counter")
         /\ r.op = "Await" => \A t \in r.triggers : IsKind(objects, t.counter, "counter")
         /\ r.op \in {"TriggerFence", "ResetFence"} => IsKind(objects, r.id, "fence")
         /\ r.op = "AwaitFence" => \A f \in r.fences : IsKind(objects, f, "fence")
         /\ r.op = "ChangeAlarm" => IsKind(objects, r.id, "alarm")
  BY DEF Acceptable

LEMMA SyncUnchanged ==
  ASSUME SyncBefore, UNCHANGED <<objects, waiters, awaiting>>, NEW rest
  PROVE  SyncEffect(rest)
  BY DEF SyncBefore, SyncEffect

LEMMA PutSync ==
  ASSUME SyncBefore, NEW id \in SyncId, NEW o \in SyncObject, NEW rest,
         Put(id, o, rest),
         objects[id].kind \in {"none", o.kind},
         objects[id].kind # "counter",
         objects[id].kind = "fence" /\ o.triggered => objects[id].triggered,
         o.kind = "alarm" =>
           /\ ~o.orphan => IsKind(objects, o.counter, "counter")
           /\ o.inactive \/ o.orphan \/ ~counterSatisfied(objects, o)
  PROVE  SyncEffect(rest)
  <1> DEFINE obs == [objects EXCEPT ![id] = o]
  <1>1. objects' = obs /\ UNCHANGED <<waiters, awaiting>>
    BY DEF Put
  <1>2. objects \in [SyncId -> SyncObject]
    BY DEF SyncBefore, SyncTypes
  <1>3. o.kind = "alarm" => o.inactive \/ o.orphan \/ ~counterSatisfied(obs, o)
    <2> SUFFICES ASSUME o.kind = "alarm", ~o.inactive, ~o.orphan
                 PROVE  ~counterSatisfied(obs, o)
      OBVIOUS
    <2>1. IsKind(objects, o.counter, "counter") /\ o.counter # id
      BY DEF IsKind
    <2>2. o.counter \in SyncId
      BY DEF SyncObject, NoObject, CounterObject, FenceObject, AlarmObject
    <2>3. obs[o.counter] = objects[o.counter]
      BY <1>2, <2>1, <2>2
    <2> HIDE DEF obs
    <2> QED
      BY <2>3, SameCounter
  <1>4. /\ obs \in [SyncId -> SyncObject]
        /\ AlarmsBound(obs)
        /\ \A w \in waiters : Waits(obs, w)
    BY Replaced DEF SyncBefore
  <1>5. Settled(objects) => Settled(obs)
    BY <1>3, ReplacedSettled DEF SyncBefore
  <1> HIDE DEF obs
  <1> QED
    BY <1>1, <1>4, <1>5 DEF SyncBefore, SyncEffect, SyncTypes

\* The counter takes the value v: if that is another value the waiters that
\* are ready leave, and the alarms are going to fire.
LEMMA ChangeCounterSync ==
  ASSUME SyncBefore, NEW id \in SyncId, IsKind(objects, id, "counter"),
         NEW v \in Int, NEW rest, ChangeCounter(id, v, rest)
  PROVE  SyncEffect(rest)
  <1> DEFINE o == Assign(objects[id], v)
             obs == [objects EXCEPT ![id] = o]
  <1>1. objects \in [SyncId -> SyncObject] /\ objects[id] \in CounterObject
    BY ObjectShape DEF SyncBefore, SyncTypes
  <1>2. o \in SyncObject /\ o.kind = "counter" /\ objects[id].kind = "counter"
    BY <1>1 DEF Assign, CounterObject, SyncObject
  <1>3. objects' = obs
    BY DEF ChangeCounter
  <1>4. obs \in [SyncId -> SyncObject] /\ AlarmsBound(obs)
    BY <1>2, Replaced DEF SyncBefore
  <1>5. CASE v = objects[id].value
    <2>1. UNCHANGED <<waiters, awaiting>>
      BY <1>5 DEF ChangeCounter
    <2>2. obs = [objects EXCEPT ![id] = Assign(@, objects[id].value)]
      BY <1>5
    <2>3. \A t : t.counter = id /\ t.wait \in Int =>
            (counterSatisfied(obs, t) => counterSatisfied(objects, t))
      BY <1>1, <2>2, SameValue
    <2>4. /\ \A w \in waiters : Waits(obs, w)
          /\ Settled(objects) => Settled(obs)
      BY <1>2, <2>3, Replaced, ReplacedSettled DEF SyncBefore
    <2> HIDE DEF obs
    <2> QED
      BY <1>3, <1>4, <2>1, <2>4 DEF SyncBefore, SyncEffect, SyncTypes
  <1>6. CASE v # objects[id].value
    <2>1. releaseWaiters(obs, <<Fire>> \o rest)
      BY <1>6 DEF ChangeCounter
    <2>2. stack' \in {<<Fire>> \o rest, <<Pump>> \o (<<Fire>> \o rest)}
      BY <2>1 DEF releaseWaiters
    <2>3. /\ \A i \in SyncId, k \in {"counter", "fence"} :
               IsKind(objects, i, k) => IsKind(obs, i, k)
      BY <1>2, Replaced DEF SyncBefore
    <2> HIDE DEF obs
    <2>4. /\ Parked(waiters', awaiting')
          /\ waiters' \subseteq waiters
          /\ \A w \in waiters' : ~waiterReady(obs, w)
      BY <2>1, Released DEF SyncBefore, SyncTypes
    <2>5. \A w \in waiters' : Waits(obs, w)
      BY <2>3, <2>4 DEF Waits, SyncBefore, SyncTypes, Waiter, Trigger
    <2> QED
      BY <1>3, <1>4, <2>2, <2>4, <2>5 DEF SyncBefore, SyncEffect, SyncTypes
  <1> QED
    BY <1>5, <1>6

\* A fence is triggered, or a signal comes for one that does not exist.
LEMMA TriggerSync ==
  ASSUME SyncBefore, NEW id \in SyncId, NEW rest, NEW obs,
         \/ IsKind(objects, id, "fence") /\ obs = [objects EXCEPT ![id] = Fence(TRUE)]
         \/ obs = objects,
         objects' = obs, releaseWaiters(obs, rest)
  PROVE  SyncEffect(rest)
  <1>1. /\ obs \in [SyncId -> SyncObject] /\ AlarmsBound(obs)
        /\ \A i \in SyncId, k \in {"counter", "fence"} :
             IsKind(objects, i, k) => IsKind(obs, i, k)
        /\ Settled(objects) => Settled(obs)
    <2>1. CASE obs = objects
      BY <2>1 DEF SyncBefore, SyncTypes
    <2>2. CASE IsKind(objects, id, "fence") /\ obs = [objects EXCEPT ![id] = Fence(TRUE)]
      <3>1. /\ Fence(TRUE) \in SyncObject /\ Fence(TRUE).kind = "fence"
            /\ objects[id].kind = "fence"
        BY <2>2 DEF Fence, SyncObject, FenceObject, IsKind
      <3> HIDE DEF Fence
      <3> QED
        BY <2>2, <3>1, Replaced, ReplacedSettled DEF SyncBefore
    <2> QED
      BY <2>1, <2>2
  <1>2. /\ Parked(waiters', awaiting')
        /\ waiters' \subseteq waiters
        /\ \A w \in waiters' : ~waiterReady(obs, w)
    BY Released DEF SyncBefore, SyncTypes
  <1>3. \A w \in waiters' : Waits(obs, w)
    BY <1>1, <1>2 DEF Waits, SyncBefore, SyncTypes, Waiter, Trigger
  <1> QED
    BY <1>1, <1>2, <1>3 DEF SyncBefore, SyncEffect, SyncTypes

\* A client that is not parked parks, or goes on.
LEMMA AwaitSync ==
  ASSUME SyncBefore, NEW c \in Client, c \notin awaiting,
         NEW w \in Waiter, w.client = c, ~w.orphan,
         \A t \in w.triggers : IsKind(objects, t.counter, "counter"),
         \A f \in w.fences : IsKind(objects, f, "fence"),
         NEW rest, Await(c, w, rest)
  PROVE  SyncEffect(rest)
  <1>1. CASE UNCHANGED <<waiters, awaiting>>
    BY <1>1, SyncUnchanged DEF Await
  <1>2. CASE ~waiterReady(objects, w) /\ waiters' = waiters \cup {w} /\ awaiting' = awaiting \cup {c}
    <2>1. Waits(objects, w)
      BY <1>2 DEF Waits
    <2>2. Parked(waiters', awaiting')
      <3>1. \A x \in waiters : x.client # c
        BY DEF SyncBefore, Parked
      <3> QED
        BY <1>2, <3>1 DEF SyncBefore, Parked
    <2>3. objects' = objects
      BY DEF Await
    <2> QED
      BY <1>2, <2>1, <2>2, <2>3 DEF SyncBefore, SyncEffect, SyncTypes
  <1> QED
    BY <1>1, <1>2 DEF Await

\* An alarm, new or not, after some of its attributes have been set.
LEMMA Masked ==
  ASSUME NEW obs \in [SyncId -> SyncObject], NEW m, ValueMask(m), NEW alarm,
         \/ alarm \in AlarmObject
         \/ "counter" \in DOMAIN m /\ \E c \in Client : alarm = NewAlarm(c)
  PROVE  /\ applyAlarmMask(obs, alarm, m) \in AlarmObject
         /\ LET x == applyAlarmMask(obs, alarm, m)
            IN  ~x.orphan => IsKind(obs, x.counter, "counter")
  <1> DEFINE fields == {"kind", "owner", "counter", "wait", "test", "delta",
                        "inactive", "orphan"}
             a == [f \in DOMAIN alarm |-> IF f \in DOMAIN m THEN m[f] ELSE alarm[f]]
             lost == ~IsKind(obs, a.counter, "counter")
             w == IF "relative" \in DOMAIN m /\ IsKind(obs, a.counter, "counter")
                    THEN obs[a.counter].value + a.wait ELSE a.wait
             x == [a EXCEPT !.orphan = lost, !.wait = w]
  <1>1. applyAlarmMask(obs, alarm, m) = x
    BY DEF applyAlarmMask
  <1>2. /\ DOMAIN alarm = fields
        /\ alarm.kind = "alarm" /\ alarm.owner \in Client
        /\ "counter" \in DOMAIN m \/ alarm.counter \in SyncId
        /\ alarm.wait \in Int /\ alarm.test \in Tests /\ alarm.delta \in Int
        /\ alarm.inactive \in BOOLEAN
    <2>1. CASE alarm \in AlarmObject
      BY <2>1 DEF AlarmObject
    <2>2. CASE "counter" \in DOMAIN m /\ \E c \in Client : alarm = NewAlarm(c)
      <3>1. PICK c \in Client : alarm = NewAlarm(c)
        BY <2>2
      <3>2. /\ DOMAIN alarm = fields
            /\ alarm.kind = "alarm" /\ alarm.owner = c
            /\ alarm.wait = 0 /\ alarm.test = "PositiveComparison" /\ alarm.delta = 0
            /\ alarm.inactive = FALSE
        BY <3>1 DEF NewAlarm
      <3>3. alarm.inactive \in BOOLEAN
        BY <3>2, Zenon
      <3>4. "PositiveComparison" \in Tests
        BY DEF Tests
      <3> QED
        BY <2>2, <3>2, <3>3, <3>4
    <2> QED
      BY <2>1, <2>2
  <1>3. /\ DOMAIN a = fields
        /\ a.kind = "alarm" /\ a.owner \in Client
        /\ a.counter \in SyncId
        /\ a.wait \in Int /\ a.test \in Tests /\ a.delta \in Int
        /\ a.inactive \in BOOLEAN
    <2>1. /\ "kind" \notin DOMAIN m /\ "owner" \notin DOMAIN m
          /\ "inactive" \notin DOMAIN m
      BY DEF ValueMask
    <2>2. /\ DOMAIN a = fields
          /\ \A f \in fields : a[f] = IF f \in DOMAIN m THEN m[f] ELSE alarm[f]
      BY <1>2
    <2> HIDE DEF a
    <2>3. a.kind = "alarm" /\ a.owner \in Client /\ a.inactive \in BOOLEAN
      BY <1>2, <2>1, <2>2
    <2>4. a.counter \in SyncId /\ a.wait \in Int
      BY <1>2, <2>2 DEF ValueMask
    <2>5. a.test \in Tests /\ a.delta \in Int
      BY <1>2, <2>2 DEF ValueMask
    <2> QED
      BY <2>2, <2>3, <2>4, <2>5
  <1>4. w \in Int
    <2> HIDE DEF a
    <2>1. IsKind(obs, a.counter, "counter") => obs[a.counter].value \in Int
      BY <1>3, ObjectShape DEF CounterObject
    <2> QED
      BY <1>3, <2>1
  <1>5. lost \in BOOLEAN
    BY DEF IsKind
  <1> HIDE DEF a, lost, w
  <1>6. /\ DOMAIN x = fields
        /\ x.kind = a.kind /\ x.owner = a.owner /\ x.counter = a.counter
        /\ x.wait = w /\ x.test = a.test /\ x.delta = a.delta
        /\ x.inactive = a.inactive /\ x.orphan = lost
    BY <1>3
  <1> DEFINE y == [kind |-> a.kind, owner |-> a.owner, counter |-> a.counter, wait |-> w,
                   test |-> a.test, delta |-> a.delta, inactive |-> a.inactive,
                   orphan |-> lost]
  <1>7. x = y
    <2>1. x = [f \in fields |-> x[f]]
      BY <1>3
    <2>2. y = [f \in fields |-> y[f]]
      OBVIOUS
    <2>3. \A f \in fields : x[f] = y[f]
      <3>1. /\ y.kind = a.kind /\ y.owner = a.owner /\ y.counter = a.counter
            /\ y.wait = w /\ y.test = a.test /\ y.delta = a.delta
            /\ y.inactive = a.inactive
        OBVIOUS
      <3>2. y.orphan = lost
        BY Zenon
      <3> HIDE DEF x, y
      <3> QED
        BY <1>6, <3>1, <3>2, Zenon
    <2> QED
      BY <2>1, <2>2, <2>3
  <1>8. x \in AlarmObject
    BY <1>3, <1>4, <1>5, <1>7 DEF AlarmObject
  <1>9. ~x.orphan => IsKind(obs, x.counter, "counter")
    BY <1>6 DEF lost
  <1> QED
    BY <1>1, <1>8, <1>9

\* createAlarm and changeAlarm: what is put back is inactive or waits.
LEMMA SetAlarmSync ==
  ASSUME SyncBefore, NEW r, r.id \in SyncId, ValueMask(r.attributes),
         objects[r.id].kind \in {"none", "alarm"}, NEW alarm,
         \/ alarm \in AlarmObject
         \/ /\ "counter" \in DOMAIN r.attributes
            /\ \E c \in Client : alarm = NewAlarm(c),
         NEW rest, SetAlarm(r.id, alarm, r, rest)
  PROVE  SyncEffect(rest)
  <1> DEFINE x == applyAlarmMask(objects, alarm, r.attributes)
             o == fireAlarm(objects, x)
  <1>1. objects \in [SyncId -> SyncObject]
    BY DEF SyncBefore, SyncTypes
  <1>2. x \in AlarmObject /\ (~x.orphan => IsKind(objects, x.counter, "counter"))
    BY <1>1, Masked
  <1>3. Put(r.id, o, rest)
    BY DEF SetAlarm
  <1> HIDE DEF x
  <1>4. /\ o \in AlarmObject /\ o.counter = x.counter /\ o.orphan = x.orphan
        /\ o.inactive \/ ~counterSatisfied(objects, o)
    BY <1>1, <1>2, Fired
  <1> HIDE DEF o
  <1>5. o \in SyncObject /\ o.kind = "alarm"
    BY <1>4 DEF SyncObject, AlarmObject
  <1> QED
    BY <1>2, <1>3, <1>4, <1>5, PutSync

\* The waiters after the objects `ids' are gone: whoever waited for one of
\* them is marked.
LEMMA Marked ==
  ASSUME NEW ids, NEW ws, ws = MarkWaiters(ids), waiters \subseteq Waiter
  PROVE  /\ \A x \in ws : \E w \in waiters :
              /\ x.client = w.client /\ x.triggers = w.triggers /\ x.fences = w.fences
              /\ x \in Waiter
              /\ ~x.orphan => /\ ~w.orphan
                              /\ \A t \in w.triggers : t.counter \notin ids
                              /\ \A f \in w.fences : f \notin ids
         /\ Parked(waiters, awaiting) => Parked(ws, awaiting)
  <1> DEFINE Mark(w) == IF \E t \in w.triggers : t.counter \in ids
                          THEN [w EXCEPT !.orphan = TRUE]
                          ELSE [w EXCEPT !.orphan = @ \/ w.fences \cap ids # {}]
  <1>1. ws = {Mark(w) : w \in waiters}
    BY DEF MarkWaiters
  <1>2. ASSUME NEW w \in waiters
        PROVE  /\ Mark(w).client = w.client /\ Mark(w).triggers = w.triggers
               /\ Mark(w).fences = w.fences /\ Mark(w) \in Waiter
               /\ ~Mark(w).orphan => /\ ~w.orphan
                                     /\ \A t \in w.triggers : t.counter \notin ids
                                     /\ \A f \in w.fences : f \notin ids
    <2>1. w \in Waiter
      OBVIOUS
    <2>2. CASE \E t \in w.triggers : t.counter \in ids
      BY <2>1, <2>2 DEF Waiter
    <2>3. CASE ~\E t \in w.triggers : t.counter \in ids
      <3> DEFINE o == w.orphan \/ w.fences \cap ids # {}
                 x == [w EXCEPT !.orphan = o]
      <3>1. o \in BOOLEAN
        OBVIOUS
      <3>2. Mark(w) = x
        BY <2>3
      <3>3. ~o => ~w.orphan /\ \A f \in w.fences : f \notin ids
        OBVIOUS
      <3> HIDE DEF o, Mark
      <3>4. /\ x.client = w.client /\ x.triggers = w.triggers /\ x.fences = w.fences
            /\ x \in Waiter /\ x.orphan = o
        BY <2>1, <3>1 DEF Waiter
      <3> HIDE DEF x
      <3> QED
        BY <2>3, <3>2, <3>3, <3>4
    <2> QED
      BY <2>2, <2>3
  <1> HIDE DEF Mark
  <1>3. ASSUME Parked(waiters, awaiting) PROVE Parked(ws, awaiting)
    <2>1. awaiting = {x.client : x \in ws}
      <3>1. {x.client : x \in ws} = {w.client : w \in waiters}
        BY <1>1, <1>2
      <3> QED
        BY <3>1, <1>3 DEF Parked
    <2>2. ASSUME NEW x \in ws, NEW y \in ws, x.client = y.client PROVE x = y
      <3>1. PICK v \in waiters : x = Mark(v)
        BY <1>1
      <3>2. PICK w \in waiters : y = Mark(w)
        BY <1>1
      <3> QED
        BY <1>2, <1>3, <2>2, <3>1, <3>2 DEF Parked
    <2> QED
      BY <2>1, <2>2 DEF Parked
  <1> QED
    BY <1>1, <1>2, <1>3

\* The objects `ids' go: an alarm on one of them, and whoever waits for one
\* of them, is marked, and for the others nothing has changed.
LEMMA Destroyed ==
  ASSUME SyncBefore, NEW ids, NEW obs,
         obs = [i \in SyncId |->
                  IF i \in ids THEN NoObject
                  ELSE IF IsKind(objects, i, "alarm") /\ objects[i].counter \in ids
                  THEN [objects[i] EXCEPT !.orphan = TRUE] ELSE objects[i]],
         NEW ws, ws = MarkWaiters(ids)
  PROVE  /\ SyncTypes(obs, ws)
         /\ Parked(ws, awaiting)
         /\ AlarmsBound(obs)
         /\ \A w \in ws : Waits(obs, w)
         /\ Settled(objects) => Settled(obs)
  <1>1. objects \in [SyncId -> SyncObject] /\ waiters \subseteq Waiter
    BY DEF SyncBefore, SyncTypes
  <1>2. ASSUME NEW i \in SyncId
        PROVE  /\ obs[i] \in SyncObject
               /\ IsKind(objects, i, "counter") \/ IsKind(objects, i, "fence") =>
                    i \in ids \/ obs[i] = objects[i]
               /\ IsKind(obs, i, "alarm") /\ ~obs[i].orphan =>
                    obs[i] = objects[i] /\ objects[i].counter \notin ids
    <2>1. CASE i \in ids
      BY <2>1 DEF NoObject, IsKind, SyncObject
    <2>2. CASE i \notin ids /\ IsKind(objects, i, "alarm") /\ objects[i].counter \in ids
      <3> DEFINE o == [objects[i] EXCEPT !.orphan = TRUE]
      <3>1. obs[i] = o
        BY <2>2
      <3>2. objects[i] \in AlarmObject
        BY <1>1, <2>2, ObjectShape
      <3>3. o \in AlarmObject /\ o.orphan
        BY <3>2 DEF AlarmObject
      <3> QED
        BY <2>2, <3>1, <3>3 DEF IsKind, SyncObject
    <2>3. CASE i \notin ids /\ ~(IsKind(objects, i, "alarm") /\ objects[i].counter \in ids)
      BY <1>1, <2>3 DEF IsKind
    <2> QED
      BY <2>1, <2>2, <2>3
  <1>3. DOMAIN obs = SyncId /\ obs \in [SyncId -> SyncObject]
    <2>1. obs = [i \in SyncId |-> obs[i]]
      OBVIOUS
    <2> HIDE DEF IsKind
    <2> QED
      BY <1>2, <2>1
  <1>4. AlarmsBound(obs) /\ (Settled(objects) => Settled(obs))
    <2>1. ASSUME NEW i \in SyncId, IsKind(obs, i, "alarm"), ~obs[i].orphan
          PROVE  /\ obs[i] = objects[i] /\ IsKind(objects, i, "alarm")
                 /\ obs[i].counter \in SyncId
                 /\ IsKind(objects, obs[i].counter, "counter")
                 /\ obs[obs[i].counter] = objects[obs[i].counter]
      <3>1. /\ obs[i] = objects[i] /\ objects[i].counter \notin ids
            /\ IsKind(objects, i, "alarm")
        BY <1>2, <2>1 DEF IsKind
      <3>2. obs[i].counter \in SyncId
        BY <1>1, <3>1, ObjectShape DEF AlarmObject
      <3>3. IsKind(objects, obs[i].counter, "counter")
        BY <2>1, <3>1 DEF SyncBefore, AlarmsBound
      <3> QED
        BY <1>2, <3>1, <3>2, <3>3
    <2>2. AlarmsBound(obs)
      <3>1. \A i \in SyncId : IsKind(obs, i, "alarm") /\ ~obs[i].orphan =>
              IsKind(obs, obs[i].counter, "counter")
        <4> SUFFICES ASSUME NEW i \in SyncId, IsKind(obs, i, "alarm"), ~obs[i].orphan
                     PROVE  IsKind(obs, obs[i].counter, "counter")
          OBVIOUS
        <4>1. /\ IsKind(objects, obs[i].counter, "counter")
              /\ obs[obs[i].counter] = objects[obs[i].counter]
          BY <2>1
        <4> QED
          BY <4>1, Zenon DEF IsKind
      <3> QED
        BY <3>1, Zenon DEF AlarmsBound
    <2>3. ASSUME Settled(objects), NEW i \in SyncId, IsKind(obs, i, "alarm"),
                 ~obs[i].orphan, ~obs[i].inactive
          PROVE  ~counterSatisfied(obs, obs[i])
      BY <2>1, <2>3, SameCounter DEF Settled
    <2> QED
      BY <2>2, <2>3 DEF Settled
  <1>5. ASSUME NEW x \in ws PROVE x \in Waiter /\ Waits(obs, x)
    <2>1. PICK w \in waiters :
              /\ x.client = w.client /\ x.triggers = w.triggers /\ x.fences = w.fences
              /\ x \in Waiter
              /\ ~x.orphan => /\ ~w.orphan
                              /\ \A t \in w.triggers : t.counter \notin ids
                              /\ \A f \in w.fences : f \notin ids
      BY <1>1, Marked
    <2>2. ASSUME ~x.orphan
          PROVE  /\ \A t \in x.triggers : IsKind(obs, t.counter, "counter")
                 /\ \A f \in x.fences : IsKind(obs, f, "fence")
                 /\ ~waiterReady(obs, x)
      <3>1. /\ \A t \in w.triggers : IsKind(objects, t.counter, "counter")
            /\ \A f \in w.fences : IsKind(objects, f, "fence")
            /\ ~waiterReady(objects, w)
        BY <2>1, <2>2 DEF SyncBefore, Waits
      <3>2. /\ \A t \in w.triggers : t.counter \in SyncId
            /\ \A f \in w.fences : f \in SyncId
        BY <1>1 DEF Waiter, Trigger
      <3>3. /\ \A t \in w.triggers : obs[t.counter] = objects[t.counter]
            /\ \A f \in w.fences : obs[f] = objects[f]
        BY <1>2, <2>1, <2>2, <3>1, <3>2
      <3>4. \A t \in w.triggers : ~counterSatisfied(obs, t)
        BY <3>1, <3>3, SameCounter DEF waiterReady
      <3>5. \A f \in w.fences : ~obs[f].triggered
        BY <3>1, <3>3 DEF waiterReady
      <3>6. /\ \A t \in w.triggers : IsKind(obs, t.counter, "counter")
            /\ \A f \in w.fences : IsKind(obs, f, "fence")
        BY <3>1, <3>3 DEF IsKind
      <3> QED
        BY <2>1, <3>4, <3>5, <3>6 DEF waiterReady
    <2> QED
      BY <2>1, <2>2 DEF Waits
  <1>6. Parked(ws, awaiting)
    BY <1>1, Marked DEF SyncBefore
  <1> QED
    BY <1>3, <1>4, <1>5, <1>6 DEF SyncTypes

LEMMA DestroySync ==
  ASSUME SyncBefore, NEW r, r.id \in SyncId, NEW rest, DestroyObject(r, rest)
  PROVE  SyncEffect(rest)
  <1>1. /\ objects' = [i \in SyncId |->
                  IF i \in {r.id} THEN NoObject
                  ELSE IF IsKind(objects, i, "alarm") /\ objects[i].counter \in {r.id}
                  THEN [objects[i] EXCEPT !.orphan = TRUE] ELSE objects[i]]
        /\ waiters' = MarkWaiters({r.id})
        /\ awaiting' = awaiting
    BY DEF DestroyObject, Orphaned
  <1> QED
    BY <1>1, Destroyed DEF SyncEffect

\* Every request keeps what is known of the SYNC state, up to the alarms that
\* a frame it has pushed is going to fire.
LEMMA PerformSync ==
  ASSUME SyncBefore, NEW c \in Client, c \notin awaiting, NEW r, WellFormed(r),
         NEW rest, Perform(c, r, rest)
  PROVE  SyncEffect(rest)
  <1>1. objects \in [SyncId -> SyncObject]
    BY DEF SyncBefore, SyncTypes
  <1>2. CASE UNCHANGED sync
    BY <1>2, SyncUnchanged DEF sync
  <1>3. CASE r.op = "CreateCounter" /\ CreateCounter(c, r, rest) /\ Acceptable(r)
    <2>1. r.id \in SyncId /\ r.value \in Int /\ objects[r.id].kind = "none"
      BY <1>3, AcceptableShape DEF WellFormed, idBusy, IsKind
    <2>2. Counter(c, r.value) \in SyncObject /\ Counter(c, r.value).kind = "counter"
      BY <2>1 DEF Counter, SyncObject, CounterObject
    <2> HIDE DEF Counter
    <2> QED
      BY <1>3, <2>1, <2>2, PutSync DEF CreateCounter
  <1>4. CASE r.op = "SetCounter" /\ ChangeCounter(r.id, r.value, rest) /\ Acceptable(r)
    <2>1. r.id \in SyncId /\ r.value \in Int /\ IsKind(objects, r.id, "counter")
      BY <1>4, AcceptableShape DEF WellFormed
    <2> QED
      BY <1>4, <2>1, ChangeCounterSync
  <1>5. CASE /\ r.op = "ChangeCounter" /\ Acceptable(r)
             /\ ChangeCounter(r.id, objects[r.id].value + r.value, rest)
    <2>1. r.id \in SyncId /\ r.value \in Int /\ IsKind(objects, r.id, "counter")
      BY <1>5, AcceptableShape DEF WellFormed
    <2>2. objects[r.id].value + r.value \in Int
      BY <1>1, <2>1, ObjectShape DEF CounterObject
    <2> QED
      BY <1>5, <2>1, <2>2, ChangeCounterSync
  <1>6. CASE r.op = "Await" /\ Await(c, CounterWaiter(c, r), rest) /\ Acceptable(r)
    <2> DEFINE w == CounterWaiter(c, r)
    <2>1. \A t \in r.triggers : IsKind(objects, t.counter, "counter")
      BY <1>6, AcceptableShape
    <2>2. r.triggers \subseteq
            [counter : SyncId, test : Tests, wait : Int, relative : BOOLEAN]
      BY <1>6 DEF WellFormed
    <2>3. ASSUME NEW t \in r.triggers
          PROVE  /\ Resolve(objects, t) \in Trigger
                 /\ IsKind(objects, Resolve(objects, t).counter, "counter")
      <3>1. t.counter \in SyncId /\ t.test \in Tests /\ t.wait \in Int
        BY <2>2
      <3>2. objects[t.counter].value \in Int
        BY <1>1, <2>1, <3>1, ObjectShape DEF CounterObject
      <3> QED
        BY <2>1, <3>1, <3>2 DEF Resolve, Trigger
    <2>4. w.triggers = {Resolve(objects, t) : t \in r.triggers}
      BY DEF CounterWaiter
    <2> HIDE DEF Resolve
    <2>5. w \in Waiter /\ w.client = c /\ ~w.orphan /\ w.fences = {}
      BY <2>3 DEF Waiter, CounterWaiter
    <2> HIDE DEF w
    <2> QED
      BY <1>6, <2>3, <2>4, <2>5, AwaitSync DEF w
  <1>7. CASE r.op = "CreateFence" /\ CreateFence(r, rest) /\ Acceptable(r)
    <2>1. r.id \in SyncId /\ r.triggered \in BOOLEAN /\ objects[r.id].kind = "none"
      BY <1>7, AcceptableShape DEF WellFormed, idBusy, IsKind
    <2>2. Fence(r.triggered) \in SyncObject /\ Fence(r.triggered).kind = "fence"
      BY <2>1 DEF Fence, SyncObject, FenceObject
    <2> HIDE DEF Fence
    <2> QED
      BY <1>7, <2>1, <2>2, PutSync DEF CreateFence
  <1>8. CASE r.op = "TriggerFence" /\ TriggerFence(r, rest) /\ Acceptable(r)
    <2>1. r.id \in SyncId /\ IsKind(objects, r.id, "fence")
      BY <1>8, AcceptableShape DEF WellFormed
    <2> QED
      BY <1>8, <2>1, TriggerSync DEF TriggerFence
  <1>9. CASE r.op = "PresentPixmap" /\ SetTriggered(r, rest)
    <2> DEFINE obs == IF IsKind(objects, r.id, "fence")
                        THEN [objects EXCEPT ![r.id] = Fence(TRUE)] ELSE objects
    <2>1. r.id \in SyncId
      BY <1>9 DEF WellFormed
    <2>2. objects' = obs /\ releaseWaiters(obs, rest)
      BY <1>9 DEF SetTriggered
    <2>3. \/ IsKind(objects, r.id, "fence") /\ obs = [objects EXCEPT ![r.id] = Fence(TRUE)]
          \/ obs = objects
      OBVIOUS
    <2> HIDE DEF obs
    <2> QED
      BY <2>1, <2>2, <2>3, TriggerSync
  <1>10. CASE r.op = "ResetFence" /\ ResetFence(r, rest) /\ Acceptable(r)
    <2>1. r.id \in SyncId /\ objects[r.id].kind = "fence"
      BY <1>10, AcceptableShape DEF WellFormed, IsKind
    <2>2. /\ Fence(FALSE) \in SyncObject /\ Fence(FALSE).kind = "fence"
          /\ ~Fence(FALSE).triggered
      BY DEF Fence, SyncObject, FenceObject
    <2> HIDE DEF Fence
    <2> QED
      BY <1>10, <2>1, <2>2, PutSync DEF ResetFence
  <1>11. CASE r.op = "AwaitFence" /\ Await(c, FenceWaiter(c, r), rest) /\ Acceptable(r)
    <2> DEFINE w == FenceWaiter(c, r)
    <2>1. r.fences \subseteq SyncId /\ \A f \in r.fences : IsKind(objects, f, "fence")
      BY <1>11, AcceptableShape DEF WellFormed
    <2>2. /\ w \in Waiter /\ w.client = c /\ ~w.orphan
          /\ w.triggers = {} /\ w.fences = r.fences
      BY <2>1 DEF Waiter, FenceWaiter
    <2> HIDE DEF w
    <2> QED
      BY <1>11, <2>1, <2>2, AwaitSync DEF w
  <1>12. CASE r.op = "CreateAlarm" /\ CreateAlarm(c, r, rest) /\ Acceptable(r)
    <2>1. /\ r.id \in SyncId /\ ValueMask(r.attributes) /\ objects[r.id].kind = "none"
          /\ "counter" \in DOMAIN r.attributes
      BY <1>12, AcceptableShape DEF WellFormed, idBusy, IsKind
    <2> QED
      BY <1>12, <2>1, SetAlarmSync DEF CreateAlarm
  <1>13. CASE r.op = "ChangeAlarm" /\ ChangeAlarm(r, rest) /\ Acceptable(r)
    <2> DEFINE alarm == [objects[r.id] EXCEPT !.inactive = FALSE]
    <2>1. r.id \in SyncId /\ ValueMask(r.attributes) /\ IsKind(objects, r.id, "alarm")
      BY <1>13, AcceptableShape DEF WellFormed
    <2>2. objects[r.id] \in AlarmObject
      BY <1>1, <2>1, ObjectShape
    <2>3. alarm \in AlarmObject
      BY <2>2 DEF AlarmObject
    <2>4. SetAlarm(r.id, alarm, r, rest)
      BY <1>13 DEF ChangeAlarm
    <2> HIDE DEF alarm
    <2> QED
      BY <2>1, <2>3, <2>4, SetAlarmSync DEF IsKind
  <1>14. CASE /\ r.op \in {"DestroyCounter", "DestroyFence", "DestroyAlarm"}
              /\ DestroyObject(r, rest)
    <2>1. r.id \in SyncId
      BY <1>14 DEF WellFormed
    <2> QED
      BY <1>14, <2>1, DestroySync
  <1> QED
    BY <1>2, <1>3, <1>4, <1>5, <1>6, <1>7, <1>8, <1>9, <1>10, <1>11, <1>12, <1>13,
       <1>14
    DEF Perform, NoEffect, GrabServer, UngrabServer

LEMMA FireShape ==
  ASSUME NEW s \in Seq(Frame), NEW f \in Frame
  PROVE  /\ HasFire(<<f>> \o s) <=> f.at = "fire" \/ HasFire(s)
         /\ s # <<>> => (HasFire(s) <=> Head(s).at = "fire" \/ HasFire(Tail(s)))
  BY Pushed, Popped DEF HasFire

\* A step that leaves the SYNC state alone, and the frame that fires too.
LEMMA SyncKept ==
  ASSUME SyncInv, UNCHANGED <<objects, waiters, awaiting>>,
         HasFire(stack) => HasFire(stack')
  PROVE  SyncInv'
  BY DEF SyncInv

LEMMA ExecuteSync ==
  ASSUME Control, SyncInv, NEW c \in Connected, NEW rest \in Seq(Frame),
         HasFire(stack) => HasFire(rest), Execute(c, rest)
  PROVE  SyncInv'
  <1> DEFINE r == Request(c)
  <1>1. c \in Client /\ c \notin awaiting /\ Complete(c) /\ Perform(c, r, rest)
    BY ConnectedShape DEF Execute, Executable, Deferred
  <1>2. WellFormed(r)
    BY <1>1, RequestShape DEF Control
  <1> HIDE DEF r
  <1>3. SyncEffect(rest)
    BY <1>1, <1>2, PerformSync DEF SyncInv, SyncBefore
  <1>4. stack' \in {rest, <<Pump>> \o rest, <<Fire>> \o rest,
                    <<Pump>> \o (<<Fire>> \o rest)}
    BY <1>1, PerformEffect
  <1>5. /\ Pump \in Frame /\ Fire \in Frame /\ Fire.at = "fire"
        /\ <<Fire>> \o rest \in Seq(Frame)
    BY Frames, Pushed
  <1>6. /\ HasFire(<<Fire>> \o rest) /\ HasFire(<<Pump>> \o (<<Fire>> \o rest))
        /\ HasFire(rest) => HasFire(<<Pump>> \o rest)
    BY <1>5, FireShape
  <1>7. Settled(objects)' \/ HasFire(stack')
    BY <1>3, <1>4, <1>6 DEF SyncInv, SyncEffect
  <1> QED
    BY <1>3, <1>7 DEF SyncInv, SyncEffect

\* When every alarm has been fired none is satisfied, and the counters and
\* fences are what they were.
LEMMA FiredAll ==
  ASSUME SyncBefore, NEW obs, obs = fireAlarms(objects)
  PROVE  /\ obs \in [SyncId -> SyncObject]
         /\ AlarmsBound(obs) /\ Settled(obs)
         /\ \A w \in waiters : Waits(obs, w)
  <1>1. objects \in [SyncId -> SyncObject] /\ waiters \subseteq Waiter
    BY DEF SyncBefore, SyncTypes
  <1>2. DOMAIN objects = SyncId
    BY <1>1
  <1>3. obs = [i \in SyncId |-> IF IsKind(objects, i, "alarm")
                                  THEN fireAlarm(objects, objects[i]) ELSE objects[i]]
    BY <1>2 DEF fireAlarms
  <1>4. ASSUME NEW i \in SyncId, IsKind(objects, i, "alarm")
        PROVE  /\ obs[i] \in AlarmObject
               /\ obs[i].counter = objects[i].counter
               /\ obs[i].orphan = objects[i].orphan
               /\ obs[i].inactive \/ ~counterSatisfied(objects, obs[i])
    <2>1. objects[i] \in AlarmObject
      BY <1>1, <1>4, ObjectShape
    <2>2. obs[i] = fireAlarm(objects, objects[i])
      BY <1>3, <1>4
    <2> QED
      BY <1>1, <2>1, <2>2, Fired
  <1>5. \A i \in SyncId : ~IsKind(objects, i, "alarm") => obs[i] = objects[i]
    BY <1>3
  <1>6. ASSUME NEW i \in SyncId
        PROVE  /\ obs[i] \in SyncObject
               /\ IsKind(obs, i, "alarm") <=> IsKind(objects, i, "alarm")
    <2>1. CASE IsKind(objects, i, "alarm")
      <3>1. obs[i].kind = "alarm"
        BY <1>4, <2>1 DEF AlarmObject
      <3> QED
        BY <1>4, <2>1, <3>1 DEF SyncObject, IsKind
    <2>2. CASE ~IsKind(objects, i, "alarm")
      BY <1>1, <1>5, <2>2 DEF IsKind
    <2> QED
      BY <2>1, <2>2
  <1>7. obs \in [SyncId -> SyncObject]
    <2>1. obs = [i \in SyncId |-> obs[i]]
      BY <1>3
    <2> QED
      BY <1>6, <2>1
  <1>8. \A i \in SyncId : IsKind(objects, i, "counter") \/ IsKind(objects, i, "fence") =>
          obs[i] = objects[i]
    BY <1>5 DEF IsKind
  <1>9. ASSUME NEW i \in SyncId, IsKind(obs, i, "alarm"), ~obs[i].orphan
        PROVE  /\ obs[i].counter \in SyncId
               /\ IsKind(objects, obs[i].counter, "counter")
               /\ obs[obs[i].counter] = objects[obs[i].counter]
    <2>1. /\ IsKind(objects, i, "alarm") /\ ~objects[i].orphan
          /\ obs[i].counter = objects[i].counter
      BY <1>4, <1>6, <1>9
    <2>2. obs[i].counter \in SyncId
      BY <1>4, <2>1 DEF AlarmObject
    <2>3. IsKind(objects, objects[i].counter, "counter")
      BY <2>1 DEF SyncBefore, AlarmsBound
    <2> QED
      BY <1>8, <2>1, <2>2, <2>3
  <1>10. AlarmsBound(obs)
    <2> SUFFICES ASSUME NEW i \in SyncId, IsKind(obs, i, "alarm"), ~obs[i].orphan
                 PROVE  IsKind(obs, obs[i].counter, "counter")
      BY Zenon DEF AlarmsBound
    <2>1. /\ IsKind(objects, obs[i].counter, "counter")
          /\ obs[obs[i].counter] = objects[obs[i].counter]
      BY <1>9
    <2> QED
      BY <2>1, Zenon DEF IsKind
  <1>11. Settled(obs)
    <2> SUFFICES ASSUME NEW i \in SyncId, IsKind(obs, i, "alarm"),
                        ~obs[i].orphan, ~obs[i].inactive
                 PROVE  ~counterSatisfied(obs, obs[i])
      BY Zenon DEF Settled
    <2>1. ~counterSatisfied(objects, obs[i])
      BY <1>4, <1>6
    <2>2. obs[obs[i].counter] = objects[obs[i].counter]
      BY <1>9
    <2> QED
      BY <2>1, <2>2, SameCounter
  <1>12. ASSUME NEW w \in waiters PROVE Waits(obs, w)
    <2> SUFFICES ASSUME ~w.orphan
                 PROVE  /\ \A t \in w.triggers : IsKind(obs, t.counter, "counter")
                        /\ \A f \in w.fences : IsKind(obs, f, "fence")
                        /\ ~waiterReady(obs, w)
      BY DEF Waits
    <2>1. /\ \A t \in w.triggers : IsKind(objects, t.counter, "counter")
          /\ \A f \in w.fences : IsKind(objects, f, "fence")
          /\ ~waiterReady(objects, w)
      BY DEF SyncBefore, Waits
    <2>2. /\ \A t \in w.triggers : t.counter \in SyncId
          /\ \A f \in w.fences : f \in SyncId
      BY <1>1 DEF Waiter, Trigger
    <2>3. /\ \A t \in w.triggers : obs[t.counter] = objects[t.counter]
          /\ \A f \in w.fences : obs[f] = objects[f]
      BY <1>8, <2>1, <2>2
    <2>4. \A t \in w.triggers : ~counterSatisfied(obs, t)
      BY <2>1, <2>3, SameCounter DEF waiterReady
    <2>5. \A f \in w.fences : ~obs[f].triggered
      BY <2>1, <2>3 DEF waiterReady
    <2> QED
      BY <2>1, <2>3, <2>4, <2>5 DEF waiterReady, IsKind
  <1> QED
    BY <1>7, <1>10, <1>11, <1>12

LEMMA SyncInit == Init => SyncInv
  <1> SUFFICES ASSUME Init PROVE SyncInv
    OBVIOUS
  <1>1. \A i \in SyncId : objects[i] = NoObject
    BY DEF Init
  <1>2. objects \in [SyncId -> SyncObject]
    BY DEF Init, SyncObject
  <1>3. \A i \in SyncId : ~IsKind(objects, i, "alarm")
    BY <1>1 DEF IsKind, NoObject
  <1>4. waiters = {} /\ awaiting = {}
    BY DEF Init
  <1> QED
    BY <1>2, <1>3, <1>4 DEF SyncInv, SyncTypes, Parked, AlarmsBound, Settled

\* The end of a client: its objects go, and nobody is parked on its behalf.
LEMMA DestroyClientSync ==
  ASSUME Control, SyncInv, DestroyClient
  PROVE  SyncInv'
  <1> DEFINE c == Top.client
             lost == {i \in SyncId : Owns(c, i)}
             obs == [i \in SyncId |->
                       IF i \in lost THEN NoObject
                       ELSE IF IsKind(objects, i, "alarm") /\ objects[i].counter \in lost
                       THEN [objects[i] EXCEPT !.orphan = TRUE] ELSE objects[i]]
             ws == MarkWaiters(lost)
  <1>1. ~HasFire(stack)
    <2>1. /\ stack \in Seq(Frame) /\ stack # <<>> /\ Head(stack).at = "destroy"
          /\ Tail(stack) = <<>>
      BY ConnectedShape DEF DestroyClient, At, Top, EventPlace, Control, GoodStack
    <2>2. ~HasFire(Tail(stack))
      BY <2>1 DEF HasFire, ToSet
    <2> QED
      BY <2>1, <2>2, Popped DEF HasFire
  <1>2. CASE UNCHANGED <<objects, waiters, awaiting>>
    BY <1>1, <1>2, SyncKept
  <1>3. CASE /\ objects' = obs
             /\ waiters' = {w \in ws : w.client # c}
             /\ awaiting' = awaiting \ {c}
    <2>1. SyncBefore /\ Settled(objects)
      BY <1>1 DEF SyncBefore, SyncInv
    <2> HIDE DEF lost
    <2>2. /\ SyncTypes(obs, ws)
          /\ Parked(ws, awaiting)
          /\ AlarmsBound(obs)
          /\ \A w \in ws : Waits(obs, w)
          /\ Settled(obs)
      BY <2>1, Destroyed
    <2> HIDE DEF obs, ws, c
    <2>3. SyncTypes(objects', waiters') /\ Parked(waiters', awaiting')
      <3>1. SyncTypes(objects', waiters')
        BY <1>3, <2>2 DEF SyncTypes
      <3>2. waiters' \subseteq ws
        BY <1>3
      <3>3. awaiting' = {w.client : w \in waiters'}
        BY <1>3, <2>2 DEF Parked
      <3> QED
        BY <2>2, <3>1, <3>2, <3>3 DEF Parked
    <2> QED
      BY <1>3, <2>2, <2>3 DEF SyncInv
  <1> QED
    BY <1>2, <1>3 DEF DestroyClient

LEMMA SyncStep ==
  ASSUME Control, SyncInv, [Next]_vars
  PROVE  SyncInv'
  <1>1. CASE UNCHANGED vars
    BY <1>1, SyncKept DEF vars, sync
  <1> SUFFICES ASSUME Step, UNCHANGED session
               PROVE  SyncInv'
    BY <1>1 DEF Next
  <1>a. stack \in Seq(Frame)
    BY DEF Control, GoodStack
  <1>b. ASSUME stack # <<>>
        PROVE  /\ Tail(stack) \in Seq(Frame)
               /\ HasFire(stack) <=> Top.at = "fire" \/ HasFire(Tail(stack))
    BY <1>a, <1>b, Popped, FireShape DEF Top
  <1>c. ASSUME stack # <<>>, NEW f \in Frame
        PROVE  /\ <<f>> \o Tail(stack) \in Seq(Frame)
               /\ Top.at # "fire" =>
                    (HasFire(stack) => HasFire(<<f>> \o Tail(stack)))
    BY <1>b, <1>c, Pushed, FireShape
  <1>d. stack = <<>> => ~HasFire(stack)
    BY DEF HasFire, ToSet
  <1>e. ASSUME UNCHANGED <<objects, waiters, awaiting>>, stack # <<>>, Top.at # "fire",
               \/ stack' = Tail(stack)
               \/ \E f \in Frame : stack' = <<f>> \o Tail(stack)
        PROVE  SyncInv'
    BY <1>e, <1>b, <1>c, SyncKept
  <1>f. ASSUME UNCHANGED sync, ~HasFire(stack) PROVE SyncInv'
    BY <1>f, SyncKept DEF sync
  <1>g. \A r \in Seq(Client), p \in BOOLEAN : Scan(r, p) \in Frame
    BY Frames
  <1>h. Pump \in Frame
    BY Frames
  <1>2. ASSUME NEW c \in Client, Accept(c) PROVE SyncInv'
    BY <1>2, SyncKept DEF Accept, sync
  <1>3. ASSUME NEW c \in Client, HangUp(c) PROVE SyncInv'
    BY <1>3, SyncKept DEF HangUp, sync
  <1>4. ASSUME NEW c \in Client, EndOfFile(c) PROVE SyncInv'
    BY <1>4, <1>d, <1>f DEF EndOfFile, Idle
  <1>5. ASSUME NEW c \in Client, NEW rs \in Batches, NEW cut \in BOOLEAN,
               Readable(c, rs, cut)
        PROVE  SyncInv'
    BY <1>5, <1>d, <1>f DEF Readable, Idle
  <1>6. ASSUME ConnExecute PROVE SyncInv'
    <2> DEFINE rest == <<RanConn>> \o Tail(stack)
    <2>1. RanConn \in Frame /\ Top.client \in Connected
      BY <1>6, RanConnShape, ConnectedShape DEF ConnExecute
    <2>2. rest \in Seq(Frame) /\ (HasFire(stack) => HasFire(rest))
      BY <1>6, <1>c, <2>1 DEF ConnExecute, At
    <2>3. Execute(Top.client, rest)
      BY <1>6 DEF ConnExecute, RanConn
    <2> HIDE DEF rest
    <2> QED
      BY <2>1, <2>2, <2>3, ExecuteSync
  <1>7. ASSUME ConnDone PROVE SyncInv'
    BY <1>7, <1>e DEF ConnDone, Return, At, sync
  <1>8. ASSUME ConnFails PROVE SyncInv'
    <2>1. stack # <<>> /\ Top.at = "conn" /\ Tail(stack) = <<>>
      BY <1>8, ConnectedShape DEF ConnFails, At, EventPlace
    <2>2. ~HasFire(stack)
      BY <1>b, <1>d, <2>1 DEF HasFire, ToSet
    <2> QED
      BY <1>8, <1>f, <2>2 DEF ConnFails
  <1>9. ASSUME LoopGrabber PROVE SyncInv'
    <2>1. grab \in Connected
      BY <1>9, ConnectedShape DEF LoopGrabber
    <2> QED
      BY <1>9, <1>a, <2>1, ExecuteSync DEF LoopGrabber
  <1>10. ASSUME LoopReturn PROVE SyncInv'
    BY <1>10, <1>e DEF LoopReturn, Return, At, sync
  <1>11. ASSUME LoopFails PROVE SyncInv'
    BY <1>11, <1>e DEF LoopFails, Return, At, sync
  <1>12. ASSUME LoopScan PROVE SyncInv'
    <2>1. Scan(clients, FALSE) \in Frame
      BY <1>g DEF Control, TypeOK
    <2> QED
      BY <1>12, <1>e, <2>1 DEF LoopScan, At, sync
  <1>13. ASSUME ScanExecute PROVE SyncInv'
    <2> DEFINE c == Head(Top.rest)
               rest == <<Scan(Top.rest, TRUE)>> \o Tail(stack)
    <2>1. c \in Connected /\ Scan(Top.rest, TRUE) \in Frame
      BY <1>13, <1>g, ScanShape, ConnectedShape DEF ScanExecute
    <2>2. rest \in Seq(Frame) /\ (HasFire(stack) => HasFire(rest))
      BY <1>13, <1>c, <2>1 DEF ScanExecute, At
    <2>3. Execute(c, rest)
      BY <1>13 DEF ScanExecute
    <2> HIDE DEF rest, c
    <2> QED
      BY <2>1, <2>2, <2>3, ExecuteSync
  <1>14. ASSUME ScanNext PROVE SyncInv'
    <2>1. Scan(Tail(Top.rest), Top.progressed) \in Frame
      BY <1>14, <1>g, ScanShape, ConnectedShape DEF ScanNext
    <2> QED
      BY <1>14, <1>e, <2>1 DEF ScanNext, At, sync
  <1>15. ASSUME ScanFails PROVE SyncInv'
    <2>1. Scan(Tail(Top.rest), Top.progressed) \in Frame
      BY <1>15, <1>g, ScanShape, ConnectedShape DEF ScanFails
    <2> QED
      BY <1>15, <1>e, <2>1 DEF ScanFails, NoEffect, At, sync
  <1>16. ASSUME ScanEnd PROVE SyncInv'
    BY <1>16, <1>e, <1>h DEF ScanEnd, Return, At, sync
  <1>17. ASSUME FireAlarms PROVE SyncInv'
    <2> DEFINE obs == fireAlarms(objects)
    <2>1. objects' = obs /\ UNCHANGED <<waiters, awaiting>>
      BY <1>17 DEF FireAlarms
    <2>2. SyncBefore
      BY DEF SyncInv, SyncBefore
    <2>3. /\ obs \in [SyncId -> SyncObject]
          /\ AlarmsBound(obs) /\ Settled(obs)
          /\ \A w \in waiters : Waits(obs, w)
      BY <2>2, FiredAll
    <2> HIDE DEF obs
    <2> QED
      BY <2>1, <2>3 DEF SyncInv, SyncTypes
  <1>18. ASSUME DestroyClient PROVE SyncInv'
    BY <1>18, DestroyClientSync
  <1> QED
    BY <1>2, <1>3, <1>4, <1>5, <1>6, <1>7, <1>8, <1>9, <1>10, <1>11,
       <1>12, <1>13, <1>14, <1>15, <1>16, <1>17, <1>18
    DEF Step, ServerStep

\* The sets of parked clients and of waiters agree and nobody is parked
\* twice, whatever await, awaitFence, releaseWaiters and freeClientState do
\* in whatever order: SyncExtension.java, waiters and awaitingClients.
THEOREM ParkedExactlyOnce == Spec => []ParkedOnce
  <1>1. SyncInv => ParkedOnce
    BY DEF SyncInv, Parked, ParkedOnce
  <1> QED
    BY <1>1, ControlInit, ControlStep, SyncInit, SyncStep, PTL DEF Spec

\* When the thread is idle nobody is parked who waits for something that has
\* come true, unless one of the objects was destroyed under the waiter: every
\* change of a counter or fence runs releaseWaiters.
THEOREM NobodyOversleeps == Spec => []ParkedOnlyWhileUnsatisfied
  <1>1. SyncInv => ParkedOnlyWhileUnsatisfied
    BY DEF SyncInv, Waits, ParkedOnlyWhileUnsatisfied
  <1> QED
    BY <1>1, ControlInit, ControlStep, SyncInit, SyncStep, PTL DEF Spec

\* When the thread is idle every active alarm waits for something that has
\* not happened: fireAlarms has run after the last change of its counter,
\* also when that change was made inside a nested pump.
THEOREM AlarmsFireInTime == Spec => []AlarmsSettled
  <1>1. SyncInv => AlarmsSettled
    <2>1. Idle => ~HasFire(stack)
      BY DEF Idle, HasFire, ToSet
    <2> QED
      BY <2>1 DEF SyncInv, Settled, AlarmsSettled
  <1> QED
    BY <1>1, ControlInit, ControlStep, SyncInit, SyncStep, PTL DEF Spec

-----------------------------------------------------------------------------
(* Sums, as numbers of tokens. *)

LEMMA TallyFinite ==
  ASSUME NEW S, IsFiniteSet(S), NEW w, \A x \in S : w[x] \in Nat
  PROVE  IsFiniteSet(Tokens(S, w)) /\ Tally(S, w) \in Nat
  <1> DEFINE row == [x \in S |-> {x} \X (1 .. w[x])]
             rows == {row[x] : x \in S}
  <1>1. row \in Surjection(S, rows)
    BY DEF Surjection
  <1>2. IsFiniteSet(rows)
    BY <1>1, FS_Surjection, Zenon
  <1>3. ASSUME NEW x \in S PROVE IsFiniteSet(row[x])
    <2>1. w[x] \in Int /\ 1 \in Int
      OBVIOUS
    <2>2. IsFiniteSet({x}) /\ IsFiniteSet(1 .. w[x])
      BY <2>1, FS_Singleton, FS_Interval, Zenon
    <2> QED
      BY <2>2, FS_Product
  <1>4. \A T \in rows : IsFiniteSet(T)
    BY <1>3
  <1>5. Tokens(S, w) = UNION rows
    BY DEF Tokens
  <1> HIDE DEF rows
  <1> QED
    BY <1>2, <1>4, <1>5, FS_UNION, FS_CardinalityType DEF Tally

LEMMA TallySplit ==
  ASSUME NEW S, IsFiniteSet(S), NEW w, \A x \in S : w[x] \in Nat, NEW x \in S
  PROVE  Tally(S, w) = Tally(S \ {x}, w) + w[x]
  <1> DEFINE R == S \ {x}
             own == {x} \X (1 .. w[x])
  <1>1. IsFiniteSet(R) /\ \A y \in R : w[y] \in Nat
    BY FS_RemoveElement
  <1>2. IsFiniteSet(Tokens(R, w)) /\ Tally(R, w) \in Nat
    BY <1>1, TallyFinite, Zenon
  <1>3. IsFiniteSet(own) /\ Cardinality(own) = w[x]
    <2>1. IsFiniteSet({x}) /\ Cardinality({x}) = 1
      BY FS_Singleton
    <2>2. IsFiniteSet(1 .. w[x]) /\ Cardinality(1 .. w[x]) = w[x]
      BY FS_Interval
    <2> QED
      BY <2>1, <2>2, FS_Product
  <1>4. Tokens(S, w) = Tokens(R, w) \cup own
    BY DEF Tokens
  <1>5. Tokens(R, w) \cap own = {}
    BY DEF Tokens
  <1>6. Cardinality({}) = 0
    BY FS_EmptySet
  <1> HIDE DEF R, own
  <1>7. Cardinality(Tokens(R, w) \cup own)
          = Cardinality(Tokens(R, w)) + Cardinality(own) - Cardinality({})
    BY <1>2, <1>3, <1>5, FS_Union
  <1> QED
    BY <1>2, <1>3, <1>4, <1>6, <1>7 DEF Tally, R

LEMMA TallySame ==
  ASSUME NEW S, NEW v, NEW w, \A x \in S : v[x] = w[x]
  PROVE  Tally(S, v) = Tally(S, w)
  BY DEF Tally, Tokens

\* A sum changes by what one of its members changes.
LEMMA TallyOne ==
  ASSUME NEW S, IsFiniteSet(S), NEW v, NEW w,
         \A x \in S : v[x] \in Nat /\ w[x] \in Nat,
         NEW x \in S, \A y \in S \ {x} : v[y] = w[y]
  PROVE  /\ Tally(S, v) \in Nat /\ Tally(S, w) \in Nat
         /\ Tally(S, w) = Tally(S, v) - v[x] + w[x]
  <1>1. Tally(S \ {x}, v) = Tally(S \ {x}, w)
    BY TallySame
  <1>2. Tally(S \ {x}, v) \in Nat
    <2>1. IsFiniteSet(S \ {x})
      BY FS_RemoveElement
    <2> QED
      BY <2>1, TallyFinite
  <1>3. /\ Tally(S, v) = Tally(S \ {x}, v) + v[x]
        /\ Tally(S, w) = Tally(S \ {x}, w) + w[x]
    BY TallySplit
  <1> QED
    BY <1>1, <1>2, <1>3

-----------------------------------------------------------------------------
(* The weight of the stack. *)

LEMMA LoopShape ==
  ASSUME IsFiniteSet(Client)
  PROVE  Loop \in Nat /\ Loop >= 3 /\ Loop = Cardinality(Client) + 3
  BY FS_CardinalityType DEF Loop

LEMMA WeightShape ==
  ASSUME IsFiniteSet(Client)
  PROVE  /\ \A f \in Frame :
              /\ Weight(f) \in Nat /\ Weight(f) >= 1
              /\ f.at = "conn" => Weight(f) = Loop + 2
              /\ f.at = "loop" => Weight(f) = Loop
              /\ f.at = "scan" => /\ Len(f.rest) \in Nat
                                  /\ Weight(f) = Len(f.rest) + 1 + (IF f.progressed THEN Loop ELSE 0)
         /\ Weight(Pump) = Loop /\ Weight(Fire) = 1
         /\ \A c \in Client : Weight(Destroy(c)) = 1
         /\ \A c \in Client, a \in Nat, b \in BOOLEAN : Weight(Conn(c, a, b)) = Loop + 2
         /\ \A r \in Seq(Client) : /\ Len(r) \in Nat
                                   /\ Weight(Scan(r, TRUE)) = Len(r) + 1 + Loop
                                   /\ Weight(Scan(r, FALSE)) = Len(r) + 1
  <1>1. Loop \in Nat /\ Loop >= 3
    BY LoopShape
  <1>2. ASSUME NEW f \in Frame
        PROVE  /\ Weight(f) \in Nat /\ Weight(f) >= 1
               /\ f.at = "conn" => Weight(f) = Loop + 2
               /\ f.at = "loop" => Weight(f) = Loop
               /\ f.at = "scan" => /\ Len(f.rest) \in Nat
                                   /\ Weight(f) = Len(f.rest) + 1 + (IF f.progressed THEN Loop ELSE 0)
    <2>1. f.at \in {"conn", "loop", "fire", "scan", "destroy"}
      BY FrameShape
    <2>2. f.at = "scan" => Len(f.rest) \in Nat
      BY FrameShape
    <2> QED
      BY <1>1, <2>1, <2>2 DEF Weight
  <1>3. Weight(Pump) = Loop /\ Weight(Fire) = 1
    BY DEF Weight, Pump, Fire
  <1>4. \A c \in Client : Weight(Destroy(c)) = 1
    BY DEF Weight, Destroy
  <1>5. \A c \in Client, a \in Nat, b \in BOOLEAN : Weight(Conn(c, a, b)) = Loop + 2
    BY DEF Weight, Conn
  <1>6. ASSUME NEW r \in Seq(Client)
        PROVE /\ Len(r) \in Nat
              /\ Weight(Scan(r, TRUE)) = Len(r) + 1 + Loop
              /\ Weight(Scan(r, FALSE)) = Len(r) + 1
    <2>1. Len(r) \in Nat
      OBVIOUS
    <2>2. /\ Scan(r, TRUE).at = "scan" /\ Scan(r, TRUE).rest = r /\ Scan(r, TRUE).progressed
          /\ Scan(r, FALSE).at = "scan" /\ Scan(r, FALSE).rest = r /\ ~Scan(r, FALSE).progressed
      BY DEF Scan
    <2>3. Weight(Scan(r, TRUE)) = Len(r) + 1 + Loop
      BY <2>2, <1>1 DEF Weight
    <2>4. Weight(Scan(r, FALSE)) = Len(r) + 1 + 0
      BY <2>2, <1>1, Zenon DEF Weight
    <2>5. \A k \in Nat : k + 1 + 0 = k + 1
      OBVIOUS
    <2>6. Weight(Scan(r, FALSE)) = Len(r) + 1
      BY <2>1, <2>4, <2>5, Zenon
    <2> QED
      BY <2>1, <2>3, <2>6, Zenon
  <1> QED
    BY <1>2, <1>3, <1>4, <1>5, <1>6

\* A frame that is pushed adds its weight.
LEMMA StackPush ==
  ASSUME IsFiniteSet(Client), NEW s \in Seq(Frame), NEW f \in Frame
  PROVE  /\ StackWeight(s) \in Nat
         /\ StackWeight(<<f>> \o s) = StackWeight(s) + Weight(f)
  <1> DEFINE t == <<f>> \o s
             n == Len(s)
             ws == [i \in DOMAIN s |-> Weight(Reverse(s)[i])]
             wt == [i \in DOMAIN t |-> Weight(Reverse(t)[i])]
  <1>1. /\ t \in Seq(Frame) /\ Len(t) = n + 1 /\ n \in Nat /\ t[1] = f
        /\ \A i \in 1 .. n : t[i + 1] = s[i]
    BY Pushed
  <1>2. DOMAIN s = 1 .. n /\ DOMAIN t = 1 .. n + 1
    BY <1>1
  <1>3. ASSUME NEW i \in 1 .. n PROVE wt[i] = ws[i] /\ ws[i] \in Nat
    <2>1. n - i + 1 \in 1 .. n /\ (n + 1) - i + 1 = (n - i + 1) + 1 /\ i \in 1 .. n + 1
      BY <1>1
    <2>2. Reverse(s)[i] = s[n - i + 1]
      BY DEF Reverse
    <2>3. Reverse(t)[i] = t[(n - i + 1) + 1]
      BY <1>1, <2>1 DEF Reverse
    <2>4. s[n - i + 1] \in Frame
      BY <2>1, ElementOfSeq
    <2> QED
      BY <1>1, <1>2, <2>1, <2>2, <2>3, <2>4, WeightShape
  <1>4. wt[n + 1] = Weight(f) /\ Weight(f) \in Nat
    <2>1. n + 1 \in 1 .. n + 1 /\ (n + 1) - (n + 1) + 1 = 1
      BY <1>1
    <2>2. Reverse(t)[n + 1] = t[1]
      BY <1>1, <2>1 DEF Reverse
    <2> QED
      BY <1>1, <1>2, <2>1, <2>2, WeightShape
  <1> HIDE DEF ws, wt, t, n
  <1>5. /\ IsFiniteSet(1 .. n) /\ IsFiniteSet(1 .. n + 1)
        /\ (1 .. n + 1) \ {n + 1} = 1 .. n /\ n + 1 \in 1 .. n + 1
    <2>1. n \in Int /\ n + 1 \in Int /\ 1 \in Int
      BY <1>1
    <2>2. IsFiniteSet(1 .. n) /\ IsFiniteSet(1 .. n + 1)
      BY <2>1, FS_Interval, Zenon
    <2>3. (1 .. n + 1) \ {n + 1} = 1 .. n /\ n + 1 \in 1 .. n + 1
      BY <1>1
    <2> QED
      BY <2>2, <2>3
  <1>6. \A i \in 1 .. n + 1 : wt[i] \in Nat
    <2>1. ASSUME NEW i \in 1 .. n + 1 PROVE i = n + 1 \/ i \in 1 .. n
      BY <1>1
    <2> QED
      BY <2>1, <1>3, <1>4
  <1>7. Tally(1 .. n + 1, wt) = Tally(1 .. n, wt) + Weight(f)
    <2>1. Tally(1 .. n + 1, wt) = Tally((1 .. n + 1) \ {n + 1}, wt) + wt[n + 1]
      BY <1>5, <1>6, TallySplit, Zenon
    <2> QED
      BY <2>1, <1>4, <1>5
  <1>8. Tally(1 .. n, wt) = Tally(1 .. n, ws)
    BY <1>3, TallySame
  <1>9. Tally(1 .. n, ws) \in Nat
    BY <1>3, <1>5, TallyFinite
  <1>10. StackWeight(s) = Tally(1 .. n, ws) /\ StackWeight(t) = Tally(1 .. n + 1, wt)
    BY <1>2 DEF StackWeight, ws, wt
  <1> QED
    BY <1>7, <1>8, <1>9, <1>10 DEF t

LEMMA StackPop ==
  ASSUME IsFiniteSet(Client), NEW s \in Seq(Frame), s # <<>>
  PROVE  /\ StackWeight(Tail(s)) \in Nat
         /\ StackWeight(s) = StackWeight(Tail(s)) + Weight(Head(s))
         /\ Weight(Head(s)) \in Nat /\ Weight(Head(s)) >= 1
  <1>1. Head(s) \in Frame /\ Tail(s) \in Seq(Frame)
    BY Popped
  <1>2. s = <<Head(s)>> \o Tail(s)
    OBVIOUS
  <1> DEFINE h == Head(s)  r == Tail(s)
  <1> HIDE DEF h, r
  <1>3. h \in Frame /\ r \in Seq(Frame) /\ s = <<h>> \o r
    BY <1>1, <1>2 DEF h, r
  <1>4. StackWeight(r) \in Nat /\ StackWeight(s) = StackWeight(r) + Weight(h)
    BY <1>3, StackPush
  <1>5. Weight(h) \in Nat /\ Weight(h) >= 1
    BY <1>3, WeightShape
  <1> QED
    BY <1>4, <1>5 DEF h, r

-----------------------------------------------------------------------------
(* What is unread in the buffers. *)

Left(b, p) == Tally(Client, [c \in Client |-> Len(b[c]) - p[c] \div 2])

\* Buffers b that have not been read beyond their end.
Fits(b, p) ==
  /\ \E S : b \in [Client -> Seq(S)]
  /\ p \in [Client -> Nat]
  /\ \A c \in Client : p[c] \div 2 <= Len(b[c])

LEMMA FitsShape ==
  ASSUME NEW b, NEW p, Fits(b, p), NEW c \in Client
  PROVE  /\ Len(b[c]) \in Nat /\ p[c] \in Nat /\ p[c] \div 2 \in Nat
         /\ Len(b[c]) - p[c] \div 2 \in Nat
  <1>1. PICK S : b \in [Client -> Seq(S)]
    BY DEF Fits
  <1>2. Len(b[c]) \in Nat /\ p[c] \in Nat /\ p[c] \div 2 <= Len(b[c])
    BY <1>1 DEF Fits
  <1> DEFINE n == Len(b[c])  q == p[c]
  <1>3. n \in Nat /\ q \in Nat /\ q \div 2 <= n
    BY <1>2
  <1> HIDE DEF n, q
  <1>4. q \div 2 \in Nat /\ n - q \div 2 \in Nat
    BY <1>3
  <1> QED
    BY <1>3, <1>4 DEF n, q

LEMMA LeftIsNat ==
  ASSUME IsFiniteSet(Client), NEW b, NEW p, Fits(b, p)
  PROVE  Left(b, p) \in Nat
  <1> DEFINE w == [c \in Client |-> Len(b[c]) - p[c] \div 2]
  <1>1. \A c \in Client : w[c] \in Nat
    BY FitsShape
  <1> HIDE DEF w
  <1>2. Tally(Client, w) \in Nat
    BY <1>1, TallyFinite
  <1> QED
    BY <1>2 DEF w, Left

LEMMA FitsNow ==
  ASSUME CountInv
  PROVE  Fits(buf, pos)
  <1>1. buf \in [Client -> Seq(session.requests \cup {Consumed})] /\ pos \in [Client -> Nat]
    BY DEF CountInv, Control, TypeOK
  <1> QED
    BY <1>1 DEF CountInv, Positions, Counted, Fits

\* A request that has been executed is no longer unread.
LEMMA ConsumedLeft ==
  ASSUME IsFiniteSet(Client), CountInv, NEW c \in Client, Complete(c)
  PROVE  /\ Fits(Blanked(c), Advanced(c))
         /\ Left(Blanked(c), Advanced(c)) = Left(buf, pos) - 1
  <1> DEFINE b == Blanked(c)  p == Advanced(c)
             v == [d \in Client |-> Len(buf[d]) - pos[d] \div 2]
             w == [d \in Client |-> Len(b[d]) - p[d] \div 2]
  <1>0. TypeOK /\ Fits(buf, pos)
    BY FitsNow DEF CountInv, Control
  <1>1. \A d \in Client : d # c => Len(b[d]) = Len(buf[d]) /\ p[d] = pos[d]
    BY <1>0, BlankedShape
  <1>2. Len(b[c]) = Len(buf[c]) /\ p[c] = pos[c] + 2
    BY <1>0, BlankedShape
  <1>3. pos[c] \div 2 + 1 <= Len(buf[c])
    <2>1. pos[c] \div 2 + 1 \in 1 .. Len(buf[c])
      BY <1>0, RequestShape
    <2>2. Len(buf[c]) \in Nat
      BY <1>0, FitsShape
    <2> QED
      BY <2>1, <2>2
  <1>4. p[c] \div 2 = pos[c] \div 2 + 1
    <2>1. pos[c] \in Nat
      BY <1>0, FitsShape
    <2>2. \A q \in Nat : (q + 2) \div 2 = q \div 2 + 1
      OBVIOUS
    <2> QED
      BY <1>2, <2>1, <2>2, Zenon
  <1>5. Fits(b, p)
    <2>1. b \in [Client -> Seq(session.requests \cup {Consumed})] /\ p \in [Client -> Nat]
      BY <1>0, BlankedShape
    <2> HIDE DEF b, p
    <2>2. \A d \in Client : p[d] \div 2 <= Len(b[d])
      BY <1>0, <1>1, <1>2, <1>3, <1>4 DEF Fits
    <2> QED
      BY <2>1, <2>2 DEF Fits
  <1> HIDE DEF b, p
  <1>6. \A d \in Client : v[d] \in Nat /\ w[d] \in Nat
    BY <1>0, <1>5, FitsShape
  <1>7. \A d \in Client \ {c} : v[d] = w[d]
    BY <1>1
  <1>8. w[c] = v[c] - 1
    <2> DEFINE n == Len(buf[c])  k == pos[c] \div 2
    <2>1. n \in Nat /\ k \in Nat
      BY <1>0, FitsShape
    <2>2. v[c] = n - k /\ w[c] = n - (k + 1)
      BY <1>2, <1>4
    <2> HIDE DEF n, k, v, w
    <2> QED
      BY <2>1, <2>2
  <1> HIDE DEF v, w
  <1>9. Tally(Client, w) = Tally(Client, v) - v[c] + w[c] /\ Tally(Client, v) \in Nat
    BY <1>6, <1>7, TallyOne
  <1>10. Tally(Client, w) = Tally(Client, v) - 1
    BY <1>6, <1>8, <1>9
  <1>11. Left(b, p) = Tally(Client, w) /\ Left(buf, pos) = Tally(Client, v)
    BY DEF Left, v, w
  <1> QED
    BY <1>5, <1>10, <1>11 DEF b, p

\* A return drops only what has been executed.
LEMMA ReturnLeft ==
  ASSUME NEW S, NEW b \in [Client -> Seq(S)], NEW p \in [Client -> Nat],
         Fits(b, p), Return(b, p)
  PROVE  Left(buf, pos)' = Left(b, p)
  <1>1. ASSUME NEW c \in Client
        PROVE  Len(buf'[c]) - pos'[c] \div 2 = Len(b[c]) - p[c] \div 2
    <2>1. CASE Tail(stack) # <<>>
      <3>1. buf' = b /\ pos' = p
        BY <2>1, ReturnShape
      <3> QED
        BY <3>1
    <2>2. CASE Tail(stack) = <<>>
      <3> DEFINE q == p[c]  n == Len(b[c])
      <3>1. q \in Nat /\ n \in Nat /\ q \div 2 <= n
        BY DEF Fits
      <3>2. pos'[c] = q - 2 * (q \div 2) /\ Len(buf'[c]) = n - q \div 2
        BY <2>2, <3>1, ReturnShape
      <3> HIDE DEF q, n
      <3>3. (q - 2 * (q \div 2)) \div 2 = 0 /\ n - q \div 2 \in Nat
        BY <3>1
      <3> QED
        BY <3>2, <3>3 DEF q, n
    <2> QED
      BY <2>1, <2>2
  <1> DEFINE v == [c \in Client |-> Len(b[c]) - p[c] \div 2]
             w == [c \in Client |-> Len(buf'[c]) - pos'[c] \div 2]
  <1>2. \A c \in Client : v[c] = w[c]
    BY <1>1
  <1>3. Left(buf, pos)' = Tally(Client, w) /\ Left(b, p) = Tally(Client, v)
    BY DEF Left, Tally, Tokens
  <1> HIDE DEF v, w
  <1> QED
    BY <1>2, <1>3, TallySame

-----------------------------------------------------------------------------
(* Scans that have made progress. *)

\* Whoever executes requests inside a scan has been noticed by it: only the
\* innermost scan can still be without progress, and then nobody has grabbed
\* the server since it began.
Busy(s) == \A f \in ToSet(s) : f.at = "scan" => f.progressed
BusyInv ==
  /\ stack # <<>> => Busy(Tail(stack))
  /\ At("scan") /\ ~Top.progressed => grab = None

EndsInv == CountInv /\ BusyInv

LEMMA BusyPush ==
  ASSUME NEW s \in Seq(Frame), Busy(s), NEW f \in Frame
  PROVE  /\ (f.at = "scan" => f.progressed) => Busy(<<f>> \o s)
         /\ Tail(<<f>> \o s) = s /\ Head(<<f>> \o s) = f
         /\ <<f>> \o s \in Seq(Frame)
  <1>1. /\ ToSet(<<f>> \o s) = {f} \cup ToSet(s)
        /\ Tail(<<f>> \o s) = s /\ Head(<<f>> \o s) = f
        /\ <<f>> \o s \in Seq(Frame)
    BY Pushed
  <1>2. (f.at = "scan" => f.progressed) => Busy(<<f>> \o s)
    BY <1>1 DEF Busy
  <1> QED
    BY <1>1, <1>2

LEMMA BusyOne ==
  ASSUME NEW f \in Frame, f.at # "scan"
  PROVE  <<f>> \in Seq(Frame) /\ Busy(<<f>>)
  <1>1. <<f>> \in Seq(Frame) /\ ToSet(<<f>>) = {f}
    BY DEF ToSet
  <1> QED
    BY <1>1 DEF Busy

LEMMA BusyEnough ==
  ASSUME stack' \in Seq(Frame), Busy(stack')
  PROVE  BusyInv'
  <1>1. CASE stack' = <<>>
    BY <1>1 DEF BusyInv, At
  <1>2. CASE stack' # <<>>
    <2>1. ToSet(stack') = {Head(stack')} \cup ToSet(Tail(stack'))
      BY <1>2, Popped
    <2> QED
      BY <2>1 DEF BusyInv, Busy, At, Top
  <1> QED
    BY <1>1, <1>2

LEMMA PerformBusy ==
  ASSUME NEW c, NEW r, NEW rest \in Seq(Frame), Busy(rest), Perform(c, r, rest)
  PROVE  stack' \in Seq(Frame) /\ Busy(stack')
  <1>1. \A s \in Seq(Frame) : Busy(s) =>
          /\ Busy(<<Pump>> \o s) /\ Busy(<<Fire>> \o s)
          /\ <<Pump>> \o s \in Seq(Frame) /\ <<Fire>> \o s \in Seq(Frame)
    BY Frames, Pushed DEF Busy
  <1>2. stack' \in {rest, <<Pump>> \o rest, <<Fire>> \o rest,
                    <<Pump>> \o (<<Fire>> \o rest)}
    BY PerformEffect
  <1> QED
    BY <1>1, <1>2

LEMMA ScanTopBusy ==
  ASSUME NEW s \in Seq(Frame), Busy(s), NEW r \in Seq(Client), NEW q \in BOOLEAN,
         stack' = <<Scan(r, q)>> \o s, ~q => grab' = None
  PROVE  BusyInv'
  <1>1. Scan(r, q) \in Frame /\ Scan(r, q).progressed = q
    BY Frames DEF Scan
  <1>2. Tail(stack') = s /\ Head(stack') = Scan(r, q)
    BY <1>1, BusyPush
  <1> QED
    BY <1>1, <1>2 DEF BusyInv, Top, At

LEMMA BusyStep ==
  ASSUME EndsInv, [Next]_vars
  PROVE  EndsInv'
  <1>0. CountInv' /\ CountInv /\ BusyInv /\ Control
    BY CountStep DEF EndsInv, CountInv
  <1> SUFFICES BusyInv'
    BY <1>0 DEF EndsInv
  <1>1. CASE UNCHANGED vars
    BY <1>0, <1>1 DEF vars, BusyInv, At, Top
  <1> SUFFICES ASSUME Step
               PROVE  BusyInv'
    BY <1>1 DEF Next
  <1>a. stack \in Seq(Frame) /\ clients \in Seq(Client)
    BY <1>0 DEF Control, TypeOK, GoodStack
  <1>b. stack # <<>> => Tail(stack) \in Seq(Frame) /\ Busy(Tail(stack))
    BY <1>a, <1>0, Popped DEF BusyInv
  <1>c. ASSUME NEW c \in Client, RemoveClient(c) PROVE BusyInv'
    <2>1. /\ Destroy(c) \in Frame /\ Destroy(c).at # "scan"
          /\ Pump \in Frame /\ Pump.at # "scan"
      BY Frames DEF Destroy
    <2>2. <<Destroy(c)>> \in Seq(Frame) /\ Busy(<<Destroy(c)>>)
      BY <2>1, BusyOne
    <2>3. /\ <<Pump>> \o <<Destroy(c)>> \in Seq(Frame)
          /\ Busy(<<Pump>> \o <<Destroy(c)>>)
      BY <2>1, <2>2, BusyPush
    <2>4. stack' = <<Destroy(c)>> \/ stack' = <<Pump>> \o <<Destroy(c)>>
      BY <1>c, PairIsPush DEF RemoveClient
    <2> QED
      BY <2>2, <2>3, <2>4, BusyEnough
  <1>d. ASSUME stack # <<>>, stack' = Tail(stack) PROVE BusyInv'
    BY <1>b, <1>d, BusyEnough
  <1>2. ASSUME NEW c \in Client, Accept(c) PROVE BusyInv'
    BY <1>2, <1>0 DEF Accept, BusyInv, At, Top
  <1>3. ASSUME NEW c \in Client, HangUp(c) PROVE BusyInv'
    BY <1>3, <1>0 DEF HangUp, BusyInv, At, Top
  <1>4. ASSUME NEW c \in Client, EndOfFile(c) PROVE BusyInv'
    BY <1>4, <1>c DEF EndOfFile
  <1>5. ASSUME NEW c \in Client, NEW rs \in Batches, NEW cut \in BOOLEAN,
               Readable(c, rs, cut)
        PROVE  BusyInv'
    <2>1. stack' = <<Conn(c, 0, FALSE)>>
      BY <1>5 DEF Readable
    <2>2. Conn(c, 0, FALSE) \in Frame /\ Conn(c, 0, FALSE).at # "scan"
      BY Frames DEF Conn
    <2> QED
      BY <2>1, <2>2, BusyOne, BusyEnough
  <1>6. ASSUME ConnExecute PROVE BusyInv'
    <2>1. RanConn \in Frame /\ Tail(stack) \in Seq(Frame) /\ Busy(Tail(stack))
      BY <1>6, <1>0, <1>b, RanConnShape DEF ConnExecute, At
    <2>2. <<RanConn>> \o Tail(stack) \in Seq(Frame) /\ Busy(<<RanConn>> \o Tail(stack))
      BY <2>1, BusyPush DEF RanConn, Conn
    <2> QED
      BY <1>6, <2>2, PerformBusy, BusyEnough DEF ConnExecute, Execute, RanConn
  <1>7. ASSUME ConnDone PROVE BusyInv'
    BY <1>7, <1>d DEF ConnDone, Return, At
  <1>8. ASSUME ConnFails PROVE BusyInv'
    BY <1>8, <1>0, <1>c, ConnectedShape DEF ConnFails
  <1>9. ASSUME LoopGrabber PROVE BusyInv'
    <2>1. stack # <<>> /\ Top.at = "loop"
      BY <1>9 DEF LoopGrabber, At
    <2>2. Busy(stack)
      <3>1. ToSet(stack) = {Top} \cup ToSet(Tail(stack))
        BY <2>1, <1>a, Popped DEF Top
      <3> QED
        BY <3>1, <2>1, <1>b DEF Busy
    <2> QED
      BY <1>9, <1>a, <2>2, PerformBusy, BusyEnough DEF LoopGrabber, Execute
  <1>10. ASSUME LoopReturn PROVE BusyInv'
    BY <1>10, <1>d DEF LoopReturn, Return, At
  <1>11. ASSUME LoopFails PROVE BusyInv'
    BY <1>11, <1>d DEF LoopFails, Return, At
  <1>12. ASSUME LoopScan PROVE BusyInv'
    BY <1>12, <1>a, <1>b, ScanTopBusy DEF LoopScan, At
  <1>13. ASSUME ScanExecute PROVE BusyInv'
    <2>1. /\ Top.rest \in Seq(Client) /\ Tail(stack) \in Seq(Frame) /\ Busy(Tail(stack))
      BY <1>13, <1>0, <1>b, ConnectedShape DEF ScanExecute, At
    <2>2. Scan(Top.rest, TRUE) \in Frame /\ Scan(Top.rest, TRUE).at = "scan"
          /\ Scan(Top.rest, TRUE).progressed
      BY <2>1, Frames DEF Scan
    <2>3. /\ <<Scan(Top.rest, TRUE)>> \o Tail(stack) \in Seq(Frame)
          /\ Busy(<<Scan(Top.rest, TRUE)>> \o Tail(stack))
      BY <2>1, <2>2, BusyPush
    <2> QED
      BY <1>13, <2>3, PerformBusy, BusyEnough DEF ScanExecute, Execute
  <1>14. ASSUME ScanNext PROVE BusyInv'
    <2>1. Tail(Top.rest) \in Seq(Client) /\ Top.progressed \in BOOLEAN
      BY <1>14, <1>0, ScanShape, ConnectedShape DEF ScanNext
    <2> QED
      BY <1>14, <2>1, <1>b, ScanTopBusy DEF ScanNext, At
  <1>15. ASSUME ScanFails PROVE BusyInv'
    <2>1. Tail(Top.rest) \in Seq(Client) /\ Top.progressed \in BOOLEAN
      BY <1>15, <1>0, ScanShape, ConnectedShape DEF ScanFails
    <2> QED
      BY <1>15, <2>1, <1>b, ScanTopBusy DEF ScanFails, NoEffect, At
  <1>16. ASSUME ScanEnd PROVE BusyInv'
    <2>1. stack # <<>>
      BY <1>16 DEF ScanEnd, At
    <2>2. CASE grab # None \/ Top.progressed
      <3>1. stack' = <<Pump>> \o Tail(stack) /\ Pump \in Frame /\ Pump.at # "scan"
        BY <1>16, <2>2, Frames DEF ScanEnd
      <3> QED
        BY <3>1, <2>1, <1>b, BusyPush, BusyEnough
    <2>3. CASE ~(grab # None \/ Top.progressed)
      BY <1>16, <2>1, <2>3, <1>d DEF ScanEnd, Return
    <2> QED
      BY <2>2, <2>3
  <1>17. ASSUME FireAlarms PROVE BusyInv'
    BY <1>17, <1>d DEF FireAlarms, At
  <1>18. ASSUME DestroyClient PROVE BusyInv'
    BY <1>18, <1>d DEF DestroyClient, Return, At
  <1> QED
    BY <1>2, <1>3, <1>4, <1>5, <1>6, <1>7, <1>8, <1>9, <1>10, <1>11, <1>12,
       <1>13, <1>14, <1>15, <1>16, <1>17, <1>18
    DEF Step, ServerStep

-----------------------------------------------------------------------------
(* Every step of the thread lowers what remains. *)

LEMMA Fewer ==
  ASSUME NEW L \in Nat, NEW U \in Nat, NEW V \in Nat, NEW W \in Nat, NEW X \in Nat,
         \/ V <= U /\ X < W
         \/ V = U - 1 /\ X < W + 3 * L
  PROVE  3 * L * V + X \in 0 .. (3 * L * U + W) - 1
  <1>1. 3 * L * V \in Nat /\ 3 * L * U \in Nat
    OBVIOUS
  <1>2. CASE V <= U /\ X < W
    <2>1. 3 * L * V <= 3 * L * U
      BY <1>2
    <2> QED
      BY <1>1, <1>2, <2>1
  <1>3. CASE V = U - 1 /\ X < W + 3 * L
    <2>1. 3 * L * V = 3 * L * U - 3 * L
      BY <1>3
    <2> QED
      BY <1>1, <1>3, <2>1
  <1> QED
    BY <1>2, <1>3

\* Remaining, in the terms of the lemmas.
Lower == Remaining' \in 0 .. Remaining - 1

LEMMA LowerShape ==
  ASSUME IsFiniteSet(Client), CountInv, CountInv',
         \/ /\ Left(buf, pos)' <= Left(buf, pos)
            /\ StackWeight(stack') < StackWeight(stack)
         \/ /\ Left(buf, pos)' = Left(buf, pos) - 1
            /\ StackWeight(stack') < StackWeight(stack) + 3 * Loop
  PROVE  Lower
  <1>1. stack \in Seq(Frame) /\ stack' \in Seq(Frame)
    BY DEF CountInv, Control, GoodStack
  <1>2. StackWeight(stack) \in Nat /\ StackWeight(stack') \in Nat
    BY <1>1, StackPush, Frames
  <1>3. Left(buf, pos) \in Nat /\ Left(buf, pos)' \in Nat
    <2>1. Fits(buf, pos)
      BY FitsNow
    <2>2. Fits(buf, pos)'
      BY FitsNow, PTL
    <2>3. Fits(buf', pos')
      BY <2>2 DEF Fits
    <2>4. Left(buf, pos) \in Nat /\ Left(buf', pos') \in Nat
      BY <2>1, <2>3, LeftIsNat
    <2>5. Left(buf, pos)' = Left(buf', pos')
      BY DEF Left
    <2> QED
      BY <2>4, <2>5
  <1>4. /\ Remaining = 3 * Loop * Left(buf, pos) + StackWeight(stack)
        /\ Remaining' = 3 * Loop * Left(buf, pos)' + StackWeight(stack')
    BY DEF Remaining, Unread, Left, Loop
  <1>5. Loop \in Nat
    BY LoopShape
  <1>6. ASSUME NEW U, NEW V, NEW W, NEW X,
               U = Left(buf, pos), V = Left(buf, pos)',
               W = StackWeight(stack), X = StackWeight(stack')
        PROVE  3 * Loop * V + X \in 0 .. (3 * Loop * U + W) - 1
    BY <1>2, <1>3, <1>5, <1>6, Fewer
  <1> QED
    BY <1>4, <1>6 DEF Lower

LEMMA StackPushed ==
  ASSUME IsFiniteSet(Client), NEW rest \in Seq(Frame),
         NEW c, NEW r, Perform(c, r, rest)
  PROVE  /\ StackWeight(rest) \in Nat /\ StackWeight(stack') \in Nat
         /\ StackWeight(stack') <= StackWeight(rest) + Loop + 1
  <1>1. /\ <<Fire>> \o rest \in Seq(Frame)
        /\ Pump \in Frame /\ Fire \in Frame
    BY Frames, Pushed
  <1>2. Weight(Pump) = Loop /\ Weight(Fire) = 1 /\ Loop \in Nat
    BY WeightShape, LoopShape
  <1>3. /\ StackWeight(rest) \in Nat
        /\ StackWeight(<<Pump>> \o rest) = StackWeight(rest) + Loop
        /\ StackWeight(<<Fire>> \o rest) = StackWeight(rest) + 1
        /\ StackWeight(<<Pump>> \o (<<Fire>> \o rest)) = StackWeight(<<Fire>> \o rest) + Loop
    BY <1>1, <1>2, StackPush
  <1>4. stack' \in {rest, <<Pump>> \o rest, <<Fire>> \o rest,
                    <<Pump>> \o (<<Fire>> \o rest)}
    BY PerformEffect
  <1> DEFINE w == StackWeight(rest)
  <1>5. \/ StackWeight(stack') = w \/ StackWeight(stack') = w + Loop
        \/ StackWeight(stack') = w + 1 \/ StackWeight(stack') = w + 1 + Loop
    BY <1>3, <1>4
  <1> QED
    BY <1>2, <1>3, <1>5

LEMMA ExecuteLower ==
  ASSUME IsFiniteSet(Client), CountInv, CountInv', NEW c \in Client,
         NEW rest \in Seq(Frame), Execute(c, rest),
         StackWeight(rest) <= StackWeight(stack) + Loop
  PROVE  Lower
  <1>1. Complete(c) /\ buf' = Blanked(c) /\ pos' = Advanced(c) /\ Perform(c, Request(c), rest)
    BY DEF Execute, Executable, Consume
  <1>2. Left(buf', pos') = Left(buf, pos) - 1
    BY <1>1, ConsumedLeft
  <1>3. Left(buf, pos)' = Left(buf, pos) - 1
    BY <1>2 DEF Left
  <1>4. /\ StackWeight(rest) \in Nat /\ StackWeight(stack') \in Nat
        /\ StackWeight(stack') <= StackWeight(rest) + Loop + 1
    BY <1>1, StackPushed
  <1>5. StackWeight(stack) \in Nat /\ Loop \in Nat /\ Loop >= 3
    BY StackPush, Frames, LoopShape DEF CountInv, Control, GoodStack
  <1>6. StackWeight(stack') < StackWeight(stack) + 3 * Loop
    BY <1>4, <1>5
  <1> QED
    BY <1>3, <1>6, LowerShape

LEMMA ReturnLower ==
  ASSUME IsFiniteSet(Client), CountInv, CountInv', stack # <<>>,
         NEW S, NEW b \in [Client -> Seq(S)], NEW p \in [Client -> Nat],
         Fits(b, p), Left(b, p) <= Left(buf, pos), Return(b, p)
  PROVE  Lower
  <1>1. Left(buf, pos)' <= Left(buf, pos)
    BY ReturnLeft
  <1>2. stack' = Tail(stack) /\ stack \in Seq(Frame)
    BY DEF Return, CountInv, Control, GoodStack
  <1>3. StackWeight(stack') < StackWeight(stack)
    BY <1>2, StackPop
  <1> QED
    BY <1>1, <1>3, LowerShape

\* A frame that gives way to a lighter one.
LEMMA ReplaceLower ==
  ASSUME IsFiniteSet(Client), CountInv, CountInv', stack # <<>>,
         Left(buf, pos)' <= Left(buf, pos), NEW f \in Frame,
         stack' = <<f>> \o Tail(stack), Weight(f) < Weight(Top)
  PROVE  Lower
  <1>1. Tail(stack) \in Seq(Frame) /\ stack \in Seq(Frame)
    BY Popped DEF CountInv, Control, GoodStack
  <1>2. /\ StackWeight(stack) = StackWeight(Tail(stack)) + Weight(Top)
        /\ Weight(Top) \in Nat /\ StackWeight(Tail(stack)) \in Nat
    BY <1>1, StackPop DEF Top
  <1>3. StackWeight(stack') = StackWeight(Tail(stack)) + Weight(f) /\ Weight(f) \in Nat
    BY <1>1, StackPush, WeightShape
  <1>4. StackWeight(stack') < StackWeight(stack)
    BY <1>2, <1>3
  <1> QED
    BY <1>4, LowerShape

\* The clients are listed once each, so a round of the pump is bounded.
LEMMA ScanBounded ==
  ASSUME IsFiniteSet(Client), Control
  PROVE  Len(clients) \in Nat /\ Len(clients) <= Cardinality(Client)
  <1>1. clients \in Seq(Client) /\ \A i, j \in DOMAIN clients : clients[i] = clients[j] => i = j
    BY DEF Control, TypeOK
  <1>2. clients \in [1 .. Len(clients) -> Client] /\ Len(clients) \in Nat
    BY <1>1
  <1>3. clients \in Injection(1 .. Len(clients), Client)
    BY <1>1, <1>2 DEF Injection, IsInjective
  <1>4. Cardinality(1 .. Len(clients)) <= Cardinality(Client)
    BY <1>3, FS_Injection
  <1>5. Cardinality(1 .. Len(clients)) = Len(clients)
    <2> DEFINE n == Len(clients)
    <2>1. n \in Int /\ 1 \in Int /\ n \in Nat
      BY <1>2
    <2> HIDE DEF n
    <2>2. Cardinality(1 .. n) = IF 1 > n THEN 0 ELSE n - 1 + 1
      BY <2>1, FS_Interval, Zenon
    <2>3. Cardinality(1 .. n) = n
      BY <2>1, <2>2
    <2> QED
      BY <2>3 DEF n
  <1> QED
    BY <1>2, <1>4, <1>5

LEMMA RemoveLower ==
  ASSUME IsFiniteSet(Client), CountInv, CountInv', At("conn"),
         NEW c \in Client, RemoveClient(c), UNCHANGED input
  PROVE  Lower
  <1>1. stack \in Seq(Frame) /\ stack # <<>> /\ Top.at = "conn" /\ Tail(stack) = <<>>
    BY ConnectedShape DEF CountInv, Control, GoodStack, At, EventPlace
  <1> DEFINE w == StackWeight(<<>>)
  <1>2. w \in Nat /\ StackWeight(stack) = w + Loop + 2 /\ Loop \in Nat
    <2>1. Head(stack) \in Frame
      BY <1>1, Popped
    <2>2. Weight(Head(stack)) = Loop + 2
      BY <1>1, <2>1, WeightShape DEF Top
    <2>3. /\ StackWeight(Tail(stack)) \in Nat
          /\ StackWeight(stack) = StackWeight(Tail(stack)) + Weight(Head(stack))
      BY <1>1, StackPop
    <2>4. StackWeight(Tail(stack)) = w
      BY <1>1
    <2> HIDE DEF w
    <2> QED
      BY <2>2, <2>3, <2>4, LoopShape
  <1>3. Destroy(c) \in Frame /\ Pump \in Frame /\ <<>> \in Seq(Frame) /\ <<Destroy(c)>> \in Seq(Frame)
    BY Frames
  <1>4. StackWeight(<<Destroy(c)>>) = w + 1
    <2>1. <<Destroy(c)>> = <<Destroy(c)>> \o <<>>
      BY <1>3
    <2>2. Weight(Destroy(c)) = 1
      BY WeightShape
    <2> QED
      BY <1>3, <2>1, <2>2, StackPush
  <1>5. StackWeight(<<Pump, Destroy(c)>>) = w + 1 + Loop
    <2>1. <<Pump>> \o <<Destroy(c)>> = <<Pump, Destroy(c)>>
      BY PairIsPush
    <2>2. Weight(Pump) = Loop
      BY WeightShape
    <2>3. StackWeight(<<Pump>> \o <<Destroy(c)>>) = StackWeight(<<Destroy(c)>>) + Weight(Pump)
      BY <1>3, StackPush
    <2> QED
      BY <1>4, <2>1, <2>2, <2>3
  <1>6. StackWeight(stack') = w + 1 \/ StackWeight(stack') = w + 1 + Loop
    BY <1>4, <1>5 DEF RemoveClient
  <1> HIDE DEF w
  <1>7. StackWeight(stack') < StackWeight(stack)
    BY <1>2, <1>6
  <1>8. Left(buf, pos) \in Nat
    BY FitsNow, LeftIsNat
  <1>9. Left(buf, pos)' = Left(buf, pos)
    BY DEF Left, input
  <1> QED
    BY <1>7, <1>8, <1>9, LowerShape

LEMMA DestroyLeft ==
  ASSUME IsFiniteSet(Client), CountInv, NEW c \in Client, NEW b, NEW p,
         b = [buf EXCEPT ![c] = <<>>], p = [pos EXCEPT ![c] = 0]
  PROVE  Fits(b, p) /\ Left(b, p) <= Left(buf, pos)
  <1> DEFINE S == session.requests \cup {Consumed}
             v == [d \in Client |-> Len(buf[d]) - pos[d] \div 2]
             w == [d \in Client |-> Len(b[d]) - p[d] \div 2]
  <1>1. buf \in [Client -> Seq(S)] /\ pos \in [Client -> Nat] /\ Fits(buf, pos)
    BY FitsNow DEF CountInv, Control, TypeOK
  <1> HIDE DEF S
  <1>2. b \in [Client -> Seq(S)] /\ p \in [Client -> Nat] /\ Len(b[c]) = 0 /\ p[c] = 0
    BY <1>1
  <1>3. \A d \in Client \ {c} : b[d] = buf[d] /\ p[d] = pos[d]
    BY <1>1
  <1>4. Len(b[c]) - p[c] \div 2 = 0 /\ p[c] \div 2 <= Len(b[c])
    BY <1>2
  <1>5. Fits(b, p)
    <2>1. \A d \in Client : p[d] \div 2 <= Len(b[d])
      BY <1>1, <1>3, <1>4 DEF Fits
    <2> QED
      BY <1>2, <2>1 DEF Fits
  <1>6. \A d \in Client : v[d] \in Nat /\ w[d] \in Nat
    BY <1>1, <1>5, FitsShape
  <1>7. \A d \in Client \ {c} : v[d] = w[d]
    BY <1>3
  <1>8. w[c] = 0
    BY <1>4
  <1>9. Left(b, p) = Tally(Client, w) /\ Left(buf, pos) = Tally(Client, v)
    BY DEF Left
  <1> HIDE DEF v, w
  <1>10. Tally(Client, w) = Tally(Client, v) - v[c] + w[c] /\ Tally(Client, v) \in Nat
    BY <1>6, <1>7, TallyOne
  <1>11. Tally(Client, w) <= Tally(Client, v)
    BY <1>6, <1>8, <1>10
  <1> QED
    BY <1>5, <1>9, <1>11

LEMMA StepLowers ==
  ASSUME IsFiniteSet(Client), EndsInv, EndsInv', UNCHANGED session, ServerStep
  PROVE  Lower
  <1>0. CountInv /\ CountInv' /\ BusyInv /\ Control
    BY DEF EndsInv, CountInv
  <1> DEFINE S == session.requests \cup {Consumed}
  <1>a. /\ buf \in [Client -> Seq(S)] /\ pos \in [Client -> Nat]
        /\ stack \in Seq(Frame) /\ clients \in Seq(Client) /\ Fits(buf, pos)
    BY <1>0, FitsNow DEF Control, TypeOK, GoodStack
  <1>b. Left(buf, pos) \in Nat
    BY <1>a, LeftIsNat
  <1>c. UNCHANGED <<buf, pos>> => Left(buf, pos)' <= Left(buf, pos)
    <2>1. UNCHANGED <<buf, pos>> => Left(buf, pos)' = Left(buf, pos)
      BY DEF Left
    <2> QED
      BY <1>b, <2>1
  <1>d. stack # <<>> => /\ Tail(stack) \in Seq(Frame) /\ Top \in Frame
                        /\ StackWeight(stack) = StackWeight(Tail(stack)) + Weight(Top)
                        /\ StackWeight(Tail(stack)) \in Nat /\ Weight(Top) \in Nat
    BY <1>a, Popped, StackPop DEF Top
  <1>e. /\ Top \in Frame /\ Top.at = "loop" => Weight(Top) = Loop
        /\ Top \in Frame /\ Top.at = "conn" => Weight(Top) = Loop + 2
        /\ Top \in Frame /\ Top.at = "scan" =>
             /\ Len(Top.rest) \in Nat
             /\ Weight(Top) = Len(Top.rest) + 1 + (IF Top.progressed THEN Loop ELSE 0)
    BY WeightShape
  <1>f. Loop \in Nat /\ Loop >= 3 /\ Loop = Cardinality(Client) + 3
    BY LoopShape
  <1>g. Left(buf, pos) <= Left(buf, pos)
    BY <1>b
  <1>1. ASSUME ConnExecute PROVE Lower
    <2>1. RanConn \in Frame /\ stack # <<>> /\ Top.at = "conn" /\ Top.client \in Client
      BY <1>1, <1>0, RanConnShape, ConnectedShape DEF ConnExecute, At
    <2>2. Weight(RanConn) = Weight(Top)
      BY <2>1, <1>d, <1>e, WeightShape DEF RanConn, Conn
    <2>3. /\ <<RanConn>> \o Tail(stack) \in Seq(Frame)
          /\ StackWeight(<<RanConn>> \o Tail(stack)) = StackWeight(stack)
      BY <2>1, <2>2, <1>d, StackPush, Pushed
    <2>4. StackWeight(<<RanConn>> \o Tail(stack)) <= StackWeight(stack) + Loop
      BY <2>1, <2>3, <1>d, <1>f
    <2> QED
      BY <1>1, <1>0, <2>1, <2>3, <2>4, ExecuteLower DEF ConnExecute, RanConn
  <1>2. ASSUME ConnDone PROVE Lower
    <2>1. [pos EXCEPT ![Top.client] = ActivePosition] = pos
      BY <1>2, <1>0, <1>a, FreshShape DEF ConnDone, CountInv
    <2>2. Return(buf, pos) /\ stack # <<>>
      BY <1>2, <2>1 DEF ConnDone, At
    <2> QED
      BY <2>2, <1>0, <1>a, <1>g, ReturnLower
  <1>3. ASSUME ConnFails PROVE Lower
    BY <1>3, <1>0, ConnectedShape, RemoveLower DEF ConnFails
  <1>4. ASSUME LoopGrabber PROVE Lower
    <2>1. stack # <<>> /\ grab \in Client
      BY <1>4, <1>0, ConnectedShape DEF LoopGrabber, At
    <2>2. StackWeight(stack) <= StackWeight(stack) + Loop
      BY <2>1, <1>d, <1>f
    <2> QED
      BY <1>4, <1>0, <1>a, <2>1, <2>2, ExecuteLower DEF LoopGrabber
  <1>5. ASSUME LoopReturn PROVE Lower
    BY <1>5, <1>0, <1>a, <1>g, ReturnLower DEF LoopReturn, At
  <1>6. ASSUME LoopFails PROVE Lower
    <2>1. grab \in Client /\ Complete(grab) /\ stack # <<>>
      BY <1>6, <1>0, ConnectedShape DEF LoopFails, ReplyMayFail, Executable, At
    <2>2. /\ Blanked(grab) \in [Client -> Seq(S)] /\ Advanced(grab) \in [Client -> Nat]
      BY <1>0, <2>1, BlankedShape DEF Control
    <2>3. /\ Fits(Blanked(grab), Advanced(grab))
          /\ Left(Blanked(grab), Advanced(grab)) <= Left(buf, pos)
      BY <1>0, <1>b, <2>1, ConsumedLeft
    <2> QED
      BY <1>6, <1>0, <2>1, <2>2, <2>3, ReturnLower DEF LoopFails
  <1>7. ASSUME LoopScan PROVE Lower
    <2>1. /\ stack # <<>> /\ Top.at = "loop" /\ UNCHANGED <<buf, pos>>
          /\ stack' = <<Scan(clients, FALSE)>> \o Tail(stack)
      BY <1>7 DEF LoopScan, At, input
    <2>2. Scan(clients, FALSE) \in Frame
      BY <1>a, Frames
    <2>3. Weight(Scan(clients, FALSE)) < Weight(Top)
      <3>1. Weight(Scan(clients, FALSE)) = Len(clients) + 1
        BY <1>a, WeightShape
      <3>2. Len(clients) \in Nat /\ Len(clients) <= Cardinality(Client)
        BY <1>0, ScanBounded
      <3>3. Weight(Top) = Cardinality(Client) + 3 /\ Cardinality(Client) \in Nat
        BY <2>1, <1>d, <1>e, <1>f, FS_CardinalityType
      <3> DEFINE n == Len(clients)  k == Cardinality(Client)
                 v == Weight(Top)  w == Weight(Scan(clients, FALSE))
      <3>4. w = n + 1 /\ n \in Nat /\ n <= k /\ v = k + 3 /\ k \in Nat
        BY <3>1, <3>2, <3>3, Zenon
      <3> HIDE DEF n, k, v, w
      <3>5. w < v
        BY <3>4
      <3> QED
        BY <3>5 DEF v, w
    <2> QED
      BY <1>0, <1>c, <2>1, <2>2, <2>3, ReplaceLower
  <1>8. ASSUME ScanExecute PROVE Lower
    <2>1. /\ stack # <<>> /\ Top.at = "scan" /\ Top.rest \in Seq(Client)
          /\ Head(Top.rest) \in Client
      BY <1>8, <1>0, ScanShape, ConnectedShape DEF ScanExecute, At
    <2> DEFINE f == Scan(Top.rest, TRUE)
    <2>2. f \in Frame /\ Weight(f) = Len(Top.rest) + 1 + Loop
      BY <2>1, Frames, WeightShape
    <2> HIDE DEF f
    <2>3. /\ <<f>> \o Tail(stack) \in Seq(Frame)
          /\ StackWeight(<<f>> \o Tail(stack)) = StackWeight(Tail(stack)) + Weight(f)
      BY <2>1, <2>2, <1>d, StackPush, Pushed
    <2>4. Weight(Top) >= Len(Top.rest) + 1 /\ Len(Top.rest) \in Nat
      BY <2>1, <1>d, <1>e, <1>f
    <2>5. StackWeight(<<f>> \o Tail(stack)) <= StackWeight(stack) + Loop
      BY <2>1, <2>2, <2>3, <2>4, <1>d, <1>f
    <2> QED
      BY <1>8, <1>0, <2>1, <2>3, <2>5, ExecuteLower DEF ScanExecute, f
  <1>i. ASSUME At("scan"), Top.rest # <<>>
        PROVE  /\ Scan(Tail(Top.rest), Top.progressed) \in Frame
               /\ Weight(Scan(Tail(Top.rest), Top.progressed)) < Weight(Top)
    <2>1. /\ stack # <<>> /\ Top.at = "scan" /\ Top.rest \in Seq(Client)
          /\ Tail(Top.rest) \in Seq(Client) /\ Top.progressed \in BOOLEAN
      BY <1>i, <1>0, ScanShape, ConnectedShape DEF At
    <2>2. Len(Tail(Top.rest)) = Len(Top.rest) - 1 /\ Len(Top.rest) \in Nat
      BY <1>i, <2>1, Popped
    <2> DEFINE f == Scan(Tail(Top.rest), Top.progressed)
    <2>3. f \in Frame /\ f.at = "scan" /\ f.rest = Tail(Top.rest) /\ f.progressed = Top.progressed
      BY <2>1, Frames DEF Scan
    <2> HIDE DEF f
    <2>4. Weight(f) = Len(Top.rest) - 1 + 1 + (IF Top.progressed THEN Loop ELSE 0)
      BY <2>2, <2>3, WeightShape
    <2>5. Weight(Top) = Len(Top.rest) + 1 + (IF Top.progressed THEN Loop ELSE 0)
      BY <2>1, <1>d, <1>e
    <2>6. Weight(f) < Weight(Top)
      BY <2>2, <2>4, <2>5, <1>f
    <2> QED
      BY <2>3, <2>6 DEF f
  <1>9. ASSUME ScanNext PROVE Lower
    BY <1>9, <1>0, <1>c, <1>i, ReplaceLower DEF ScanNext, At, input
  <1>10. ASSUME ScanFails PROVE Lower
    <2>1. /\ At("scan") /\ Top.rest # <<>> /\ stack # <<>>
          /\ Complete(Head(Top.rest)) /\ Head(Top.rest) \in Client
          /\ buf' = Blanked(Head(Top.rest)) /\ pos' = Advanced(Head(Top.rest))
          /\ stack' = <<Scan(Tail(Top.rest), Top.progressed)>> \o Tail(stack)
      BY <1>10, <1>0, ScanShape, ConnectedShape
      DEF ScanFails, At, ReplyMayFail, Executable, Consume, NoEffect
    <2>2. Left(buf', pos') = Left(buf, pos) - 1
      BY <1>0, <2>1, ConsumedLeft
    <2>3. Left(buf, pos)' <= Left(buf, pos)
      BY <1>b, <2>2 DEF Left
    <2> QED
      BY <1>0, <1>i, <2>1, <2>3, ReplaceLower
  <1>11. ASSUME ScanEnd PROVE Lower
    <2>1. stack # <<>> /\ Top.at = "scan"
      BY <1>11 DEF ScanEnd, At
    <2>2. CASE grab # None \/ Top.progressed
      <3>1. stack' = <<Pump>> \o Tail(stack) /\ UNCHANGED <<buf, pos>> /\ Pump \in Frame
        BY <1>11, <2>2, Frames DEF ScanEnd
      <3>2. Top.progressed
        BY <1>11, <2>2, <1>0 DEF BusyInv, ScanEnd
      <3>3. Weight(Pump) = Loop /\ Weight(Top) = Len(Top.rest) + 1 + Loop /\ Len(Top.rest) \in Nat
        BY <2>1, <3>2, <1>d, <1>e, WeightShape
      <3>4. Weight(Pump) < Weight(Top)
        BY <3>3, <1>f
      <3> QED
        BY <1>0, <1>c, <2>1, <3>1, <3>4, ReplaceLower
    <2>3. CASE ~(grab # None \/ Top.progressed)
      BY <1>11, <1>0, <1>a, <1>g, <2>1, <2>3, ReturnLower DEF ScanEnd
    <2> QED
      BY <2>2, <2>3
  <1>12. ASSUME FireAlarms PROVE Lower
    <2>1. stack # <<>> /\ stack' = Tail(stack) /\ UNCHANGED <<buf, pos>>
      BY <1>12 DEF FireAlarms, At, input
    <2>2. StackWeight(stack') < StackWeight(stack)
      BY <2>1, <1>a, StackPop
    <2> QED
      BY <1>0, <1>c, <2>1, <2>2, LowerShape
  <1>13. ASSUME DestroyClient PROVE Lower
    <2> DEFINE c == Top.client
               b == [buf EXCEPT ![c] = <<>>]
               p == [pos EXCEPT ![c] = 0]
    <2>1. c \in Client /\ stack # <<>> /\ Return(b, p)
      BY <1>13, <1>0, ConnectedShape DEF DestroyClient, At
    <2>2. b \in [Client -> Seq(S)] /\ p \in [Client -> Nat]
      BY <1>a, <2>1
    <2>3. Fits(b, p) /\ Left(b, p) <= Left(buf, pos)
      BY <1>0, <2>1, DestroyLeft
    <2> QED
      BY <1>0, <2>1, <2>2, <2>3, ReturnLower
  <1> QED
    BY <1>1, <1>2, <1>3, <1>4, <1>5, <1>6, <1>7, <1>8, <1>9, <1>10, <1>11, <1>12, <1>13
    DEF ServerStep

LEMMA EndsInit == Init => EndsInv
  <1> SUFFICES ASSUME Init PROVE EndsInv
    OBVIOUS
  <1>1. BusyInv
    BY DEF Init, BusyInv, At
  <1> QED
    BY <1>1, CountInit DEF EndsInv

\* However requests wake, grab and pump each other, the epoll thread comes
\* back to epoll_wait: no step of it leaves as much to do as there was.
THEOREM EveryEventEnds == IsFiniteSet(Client) => (Spec => EventEnds)
  <1> SUFFICES ASSUME IsFiniteSet(Client) PROVE Spec => EventEnds
    OBVIOUS
  <1>1. ASSUME EndsInv, EndsInv', [Next]_vars
        PROVE  [ServerStep => Remaining' \in 0 .. Remaining - 1]_vars
    <2>1. CASE UNCHANGED vars
      BY <2>1
    <2>2. CASE Next
      BY <1>1, <2>2, StepLowers DEF Next, Lower
    <2> QED
      BY <1>1, <2>1, <2>2
  <1>2. EndsInv /\ [Next]_vars => EndsInv'
    BY BusyStep
  <1> QED
    BY <1>1, <1>2, EndsInit, PTL DEF Spec, EventEnds
=============================================================================

----------------------------- MODULE XDispatch -----------------------------
(***************************************************************************)
(* Request dispatch of the embedded X server: XConnectorEpoll reads the     *)
(* clients' sockets on one thread, XClientRequestHandler executes complete  *)
(* requests, and two things make it leave requests in their buffer: another *)
(* client holds GrabServer, or the client is parked in a SYNC Await.        *)
(* UngrabServer, the end of the grab owner and the release of a waiter run  *)
(* processDeferredRequests, inside the request that caused it.              *)
(*                                                                          *)
(* The thread's calls nest, so its state is a stack of frames, innermost    *)
(* first; the server is idle in epoll_wait when the stack is empty.  Each   *)
(* action is one step of the innermost frame.  Execution is sequential: what*)
(* varies is what clients send, how it is cut into reads, and when they go. *)
(***************************************************************************)
EXTENDS SyncObjects, Sequences, SequencesExt

CONSTANTS
  Client, None,
  SyncId,       \* ids of SYNC objects
  Sessions,     \* [requests: those that are sent, and bounds: maxClients on who
                \* connects, maxBatch on what one read brings, maxHangUps]
  MaxRequests   \* bound: requests sent in a behaviour

\* A value mask and its values: some of an alarm's attributes.
ValueMask(m) ==
  /\ DOMAIN m \subseteq {"counter", "relative", "wait", "test", "delta"}
  /\ "counter" \in DOMAIN m => m.counter \in SyncId
  /\ "wait" \in DOMAIN m => m.wait \in Int
  /\ "test" \in DOMAIN m => m.test \in Tests
  /\ "delta" \in DOMAIN m => m.delta \in Int

\* What the handlers read of a request has the type of its wire format.
WellFormed(r) ==
  /\ r.op \in {"CreateCounter", "SetCounter", "ChangeCounter"} =>
       r.id \in SyncId /\ r.value \in Int
  /\ r.op = "CreateFence" => r.id \in SyncId /\ r.triggered \in BOOLEAN
  /\ r.op = "Await" =>
       r.triggers \subseteq
         [counter : SyncId, test : Tests, wait : Int, relative : BOOLEAN]
  /\ r.op = "AwaitFence" => r.fences \subseteq SyncId
  /\ r.op \in {"CreateAlarm", "ChangeAlarm"} =>
       r.id \in SyncId /\ ValueMask(r.attributes)
  /\ r.op \in {"TriggerFence", "ResetFence", "PresentPixmap",
                "DestroyCounter", "DestroyFence", "DestroyAlarm"} =>
       r.id \in SyncId

ASSUME NoneAssumption == None \notin Client
ASSUME SessionsAssumption ==
  \A s \in Sessions : \A r \in s.requests : WellFormed(r)

VARIABLES
  session,   \* a member of Sessions
  clients,   \* XServer.clients: the connections, oldest first
  grab,      \* serverGrabClient
  buf,       \* [Client -> Seq(session.requests)]: the input buffer, from its start
  half,      \* the body of the last request in buf has not arrived
  pos,       \* read position, in half requests: odd is after a header
  objects,   \* SYNC objects
  waiters, awaiting,
  listening, \* clients on which SYNC has put its onDestroy listener
  hung,      \* clients that have closed their end
  stack,
  owed,      \* history: requests received, cut ones included, less sequenceNumber
  total      \* bounded counter: requests sent

sync == <<objects, waiters, awaiting, listening>>
input == <<buf, half, pos>>
vars == <<session, clients, grab, input, sync, hung, stack, owed, total>>

\* `ran': a request was executed and the loop's activePosition is to follow.
Conn(c, active, ran) ==
  [at |-> "conn", client |-> c, active |-> active, ran |-> ran]
Pump == [at |-> "loop"]
Scan(rest, progressed) == [at |-> "scan", rest |-> rest, progressed |-> progressed]
Fire == [at |-> "fire"]
Destroy(c) == [at |-> "destroy", client |-> c]

Init ==
  /\ session \in Sessions
  /\ clients = <<>>
  /\ grab = None
  /\ buf = [c \in Client |-> <<>>]
  /\ half = [c \in Client |-> FALSE]
  /\ pos = [c \in Client |-> 0]
  /\ objects = [i \in SyncId |-> NoObject]
  /\ waiters = {} /\ awaiting = {} /\ listening = {}
  /\ hung = {}
  /\ stack = <<>>
  /\ owed = [c \in Client |-> 0]
  /\ total = 0

Idle == stack = <<>>
Top == Head(stack)
At(place) == stack # <<>> /\ Top.at = place
Connected == ToSet(clients)

-----------------------------------------------------------------------------
(* handleRequest: a client's next request, if it may be executed. *)

Deferred(c) == (grab # None /\ grab # c) \/ c \in awaiting

\* A request all of whose bytes are there.
Complete(c) == pos[c] \div 2 < Len(buf[c]) - (IF half[c] THEN 1 ELSE 0)

Executable(c) == ~Deferred(c) /\ Complete(c)

Request(c) == buf[c][pos[c] \div 2 + 1]

\* The position after handleRequest has returned false: the header of an
\* incomplete request has been read.
AfterFailure(c) == IF ~Deferred(c) /\ half[c] THEN pos[c] + 1 ELSE pos[c]

\* The executed bytes are blanked: nobody may look at them again.
Consumed == [op |-> "consumed"]

Blanked(c) == [buf EXCEPT ![c][pos[c] \div 2 + 1] = Consumed]
Advanced(c) == [pos EXCEPT ![c] = @ + 2]

\* The position moves on, and generateSequenceNumber counts the request.
Consume(c) ==
  /\ buf' = Blanked(c)
  /\ pos' = Advanced(c)
  /\ owed' = [owed EXCEPT ![c] = @ - 1]
  /\ UNCHANGED <<half, clients, hung, total>>

\* Return from the innermost frame with buffers b, read up to p.  The next
\* readMoreData of a client drops what it has consumed; nobody looks at the
\* buffer in between, so it is dropped as the thread becomes idle.
Return(b, p) ==
  /\ stack' = Tail(stack)
  /\ LET drop(c) == IF Tail(stack) = <<>> THEN p[c] \div 2 ELSE 0
     IN  /\ buf' = [c \in Client |-> SubSeq(b[c], drop(c) + 1, Len(b[c]))]
         /\ pos' = [c \in Client |-> p[c] - 2 * drop(c)]

-----------------------------------------------------------------------------
(* The requests.  `rest' is the stack to go on with.                        *)

\* Mutant of releaseWaiters: the client stays in `awaiting'.
releaseWaitersOnly(obs, rest) ==
  LET ready == {w \in waiters : waiterReady(obs, w)}
  IN  /\ waiters' = waiters \ ready
      /\ UNCHANGED awaiting
      /\ stack' = IF ready = {} THEN rest ELSE <<Pump>> \o rest

\* Waiters whose trigger is satisfied leave; if there are any the deferred
\* requests are pumped before this returns.
releaseWaiters(obs, rest) ==
  LET ready == {w \in waiters : waiterReady(obs, w)}
  IN  /\ waiters' = waiters \ ready
      /\ awaiting' = awaiting \ {w.client : w \in ready}
      /\ stack' = IF ready = {} THEN rest ELSE <<Pump>> \o rest

\* Any other request, and every request that ends in an X error.
NoEffect(rest) == stack' = rest /\ UNCHANGED <<grab, sync>>

GrabServer(c, rest) ==
  /\ grab' = IF grab = None THEN c ELSE grab
  /\ stack' = rest
  /\ UNCHANGED sync

\* Mutant of UngrabServer: nobody is told.
UngrabServerQuietly(c, rest) ==
  /\ grab' = IF grab = c THEN None ELSE grab
  /\ stack' = rest
  /\ UNCHANGED sync

UngrabServer(c, rest) ==
  /\ IF grab = c THEN grab' = None /\ stack' = <<Pump>> \o rest
                 ELSE stack' = rest /\ UNCHANGED grab
  /\ UNCHANGED sync

\* Mutant of ChangeCounter: only the alarms look at the new value.
ChangeCounterQuietly(id, v, rest) ==
  /\ objects' = [objects EXCEPT ![id] = Assign(@, v)]
  /\ stack' = <<Fire>> \o rest
  /\ UNCHANGED <<grab, waiters, awaiting, listening>>

\* setCounter and changeCounter; the alarms fire after the pump.
ChangeCounter(id, v, rest) ==
  LET obs == [objects EXCEPT ![id] = Assign(@, v)]
  IN  /\ objects' = obs
      /\ IF v # objects[id].value
           THEN releaseWaiters(obs, <<Fire>> \o rest)
           ELSE stack' = rest /\ UNCHANGED <<waiters, awaiting>>
      /\ UNCHANGED <<grab, listening>>

Put(id, o, rest) ==
  /\ objects' = [objects EXCEPT ![id] = o]
  /\ stack' = rest
  /\ UNCHANGED <<grab, waiters, awaiting>>

CreateCounter(c, r, rest) ==
  /\ Put(r.id, Counter(c, r.value), rest)
  /\ listening' = listening \cup {c}

CreateFence(r, rest) == Put(r.id, Fence(r.triggered), rest) /\ UNCHANGED listening

\* History: what waited for the object can be released only by others.
Orphaned(id) ==
  [i \in SyncId |->
     IF i = id THEN NoObject
     ELSE IF IsKind(objects, i, "alarm") /\ objects[i].counter = id
     THEN [objects[i] EXCEPT !.orphan = TRUE] ELSE objects[i]]

MarkWaiters(ids) ==
  {IF \E t \in w.triggers : t.counter \in ids
     THEN [w EXCEPT !.orphan = TRUE]
     ELSE [w EXCEPT !.orphan = @ \/ w.fences \cap ids # {}] : w \in waiters}

\* destroyCounter, destroyFence and destroyAlarm leave the waiters alone.
DestroyObject(r, rest) ==
  /\ objects' = Orphaned(r.id)
  /\ waiters' = MarkWaiters({r.id})
  /\ stack' = rest
  /\ UNCHANGED <<grab, awaiting, listening>>

\* await and awaitFence: return at once, or park the client.
Await(c, w, rest) ==
  /\ IF waiterReady(objects, w) \/ w.triggers \cup w.fences = {}
       THEN UNCHANGED <<waiters, awaiting>>
       ELSE /\ waiters' = waiters \cup {w}
            /\ awaiting' = awaiting \cup {c}
  /\ stack' = rest
  /\ UNCHANGED <<grab, objects, listening>>

CounterWaiter(c, r) ==
  [client |-> c, triggers |-> {Resolve(objects, t) : t \in r.triggers},
   fences |-> {}, orphan |-> FALSE]
FenceWaiter(c, r) ==
  [client |-> c, triggers |-> {}, fences |-> r.fences, orphan |-> FALSE]

\* Mutant of TriggerFence: only the flag is set.
TriggerFenceQuietly(r, rest) == Put(r.id, Fence(TRUE), rest) /\ UNCHANGED listening

TriggerFence(r, rest) ==
  LET obs == [objects EXCEPT ![r.id] = Fence(TRUE)]
  IN  /\ objects' = obs
      /\ releaseWaiters(obs, rest)
      /\ UNCHANGED <<grab, listening>>

\* PresentPixmap with an idle fence, which need not exist: sendIdleNotify
\* calls setTriggered.
SetTriggered(r, rest) ==
  LET obs == IF IsKind(objects, r.id, "fence")
               THEN [objects EXCEPT ![r.id] = Fence(TRUE)] ELSE objects
  IN  /\ objects' = obs
      /\ releaseWaiters(obs, rest)
      /\ UNCHANGED <<grab, listening>>

ResetFence(r, rest) == Put(r.id, Fence(FALSE), rest) /\ UNCHANGED listening

\* createAlarm and changeAlarm fire the alarm at once if it is satisfied.
SetAlarm(id, alarm, r, rest) ==
  Put(id, fireAlarm(objects, applyAlarmMask(objects, alarm, r.attributes)), rest)

CreateAlarm(c, r, rest) ==
  /\ SetAlarm(r.id, NewAlarm(c), r, rest)
  /\ listening' = listening \cup {c}

ChangeAlarm(r, rest) ==
  /\ SetAlarm(r.id, [objects[r.id] EXCEPT !.inactive = FALSE], r, rest)
  /\ UNCHANGED listening

\* The checks at the head of each handler; a request that fails one of them
\* is answered with an X error and changes nothing.
Acceptable(r) ==
  CASE r.op \in {"CreateCounter", "CreateFence"} -> ~idBusy(objects, r.id)
    [] r.op = "CreateAlarm" -> /\ ~idBusy(objects, r.id)
                               /\ "counter" \in DOMAIN r.attributes
                               /\ IsKind(objects, r.attributes.counter, "counter")
    [] r.op \in {"SetCounter", "ChangeCounter", "DestroyCounter"} ->
         IsKind(objects, r.id, "counter")
    [] r.op = "Await" -> \A t \in r.triggers : IsKind(objects, t.counter, "counter")
    [] r.op \in {"TriggerFence", "DestroyFence"} -> IsKind(objects, r.id, "fence")
    [] r.op = "ResetFence" -> IsKind(objects, r.id, "fence") /\ objects[r.id].triggered
    [] r.op = "AwaitFence" -> \A f \in r.fences : IsKind(objects, f, "fence")
    [] r.op \in {"ChangeAlarm", "DestroyAlarm"} -> IsKind(objects, r.id, "alarm")
    [] OTHER -> TRUE

Perform(c, r, rest) ==
  IF ~Acceptable(r) THEN NoEffect(rest)
  ELSE
  CASE r.op = "GrabServer" -> GrabServer(c, rest)
    [] r.op = "UngrabServer" -> UngrabServer(c, rest)
    [] r.op = "CreateCounter" -> CreateCounter(c, r, rest)
    [] r.op = "SetCounter" -> ChangeCounter(r.id, r.value, rest)
    [] r.op = "ChangeCounter" ->
         IF r.value = 0 THEN NoEffect(rest)
         ELSE ChangeCounter(r.id, objects[r.id].value + r.value, rest)
    [] r.op = "Await" -> Await(c, CounterWaiter(c, r), rest)
    [] r.op = "CreateFence" -> CreateFence(r, rest)
    [] r.op = "TriggerFence" -> TriggerFence(r, rest)
    [] r.op = "PresentPixmap" -> SetTriggered(r, rest)
    [] r.op = "ResetFence" -> ResetFence(r, rest)
    [] r.op = "AwaitFence" -> Await(c, FenceWaiter(c, r), rest)
    [] r.op = "CreateAlarm" -> CreateAlarm(c, r, rest)
    [] r.op = "ChangeAlarm" -> ChangeAlarm(r, rest)
    [] r.op \in {"DestroyCounter", "DestroyFence", "DestroyAlarm"} -> DestroyObject(r, rest)
    [] OTHER -> NoEffect(rest)

\* A reply or an X error cannot be written when the client has closed its
\* end.  The request has been read by then, and has had no other effect.
ReplyMayFail(c) ==
  /\ Executable(c) /\ c \in hung
  /\ Request(c).op = "Query" \/ ~Acceptable(Request(c))

Execute(c, rest) ==
  /\ Executable(c)
  /\ Consume(c)
  /\ Perform(c, Request(c), rest)

-----------------------------------------------------------------------------
(* The epoll thread's events *)

Accept(c) ==
  /\ Idle /\ c \notin Connected /\ c \notin hung
  /\ Cardinality(Connected \cup hung) < session.maxClients
  /\ clients' = Append(clients, c)
  /\ UNCHANGED <<grab, input, sync, hung, stack, owed, total>>

\* readMoreData: what has arrived is appended to what is left.  The rest
\* of a cut request comes first; the last of the new ones may be cut.
Readable(c, rs, cut) ==
  /\ Idle /\ c \in Connected
  /\ rs # <<>> \/ half[c]
  /\ cut => rs # <<>>
  /\ total + Len(rs) <= MaxRequests
  /\ total' = total + Len(rs)
  /\ buf' = [buf EXCEPT ![c] = @ \o rs]
  /\ half' = [half EXCEPT ![c] = cut]
  /\ owed' = [owed EXCEPT ![c] = @ + Len(rs)]
  /\ stack' = <<Conn(c, 0, FALSE)>>
  /\ UNCHANGED <<clients, grab, pos, sync, hung>>

\* The client closes its end; the server notices at its next read or write.
HangUp(c) ==
  /\ c \in Connected /\ c \notin hung
  /\ Cardinality(hung) < session.maxHangUps
  /\ hung' = hung \cup {c}
  /\ UNCHANGED <<clients, grab, input, sync, stack, owed, total>>

\* Mutant of RemoveClient: the server grab is kept.
RemoveClientOnly(c) ==
  /\ UNCHANGED grab
  /\ clients' = RemoveFirst(clients, c)
  /\ stack' = <<Destroy(c)>>

\* handleConnectionShutdown: the grab and the connection go, and if the
\* client held the grab the others' requests are pumped; destroy is last.
RemoveClient(c) ==
  /\ grab' = IF grab = c THEN None ELSE grab
  /\ clients' = RemoveFirst(clients, c)
  /\ stack' = IF grab = c THEN <<Pump, Destroy(c)>> ELSE <<Destroy(c)>>

\* readMoreData returns 0.
EndOfFile(c) ==
  /\ Idle /\ c \in Connected /\ c \in hung
  /\ RemoveClient(c)
  /\ UNCHANGED <<input, sync, hung, owed, total>>

-----------------------------------------------------------------------------
(* handleExistingConnection *)

\* activePosition = getActivePosition(), after the request.
ActivePosition == IF Top.ran THEN pos[Top.client] ELSE Top.active

ConnExecute ==
  /\ At("conn")
  /\ Execute(Top.client,
       <<Conn(Top.client, ActivePosition, TRUE)>> \o Tail(stack))

\* handleRequest returned false: what was not executed stays in the buffer.
ConnDone ==
  /\ At("conn") /\ ~Executable(Top.client)
  /\ Return(buf, [pos EXCEPT ![Top.client] = ActivePosition])
  /\ UNCHANGED <<clients, grab, half, sync, hung, owed, total>>

\* An I/O failure kills the connection.
ConnFails ==
  /\ At("conn") /\ ReplyMayFail(Top.client)
  /\ RemoveClient(Top.client)
  /\ UNCHANGED <<input, sync, hung, owed, total>>

-----------------------------------------------------------------------------
(* processDeferredRequests *)

\* While there is a grab only its owner goes on.
LoopGrabber ==
  /\ At("loop") /\ grab # None
  /\ Execute(grab, stack)

LoopReturn ==
  /\ At("loop") /\ grab # None
  /\ ~Executable(grab)
  /\ Return(buf, pos)
  /\ UNCHANGED <<clients, grab, half, sync, hung, owed, total>>

\* An I/O failure is logged, and ends the pump.
LoopFails ==
  /\ At("loop") /\ grab # None /\ ReplyMayFail(grab)
  /\ Return(Blanked(grab), Advanced(grab))
  /\ owed' = [owed EXCEPT ![grab] = @ - 1]
  /\ UNCHANGED <<clients, grab, half, sync, hung, total>>

LoopScan ==
  /\ At("loop") /\ grab = None
  /\ stack' = <<Scan(clients, FALSE)>> \o Tail(stack)
  /\ UNCHANGED <<clients, grab, input, sync, hung, owed, total>>

ScanExecute ==
  /\ At("scan") /\ grab = None /\ Top.rest # <<>>
  /\ Execute(Head(Top.rest), <<Scan(Top.rest, TRUE)>> \o Tail(stack))

\* Mutant of ScanNext: handleCompleteRequest does not set the position back.
ScanNextWithoutRestore ==
  /\ At("scan") /\ grab = None /\ Top.rest # <<>>
  /\ ~Executable(Head(Top.rest))
  /\ pos' = [pos EXCEPT ![Head(Top.rest)] = AfterFailure(Head(Top.rest))]
  /\ stack' = <<Scan(Tail(Top.rest), Top.progressed)>> \o Tail(stack)
  /\ UNCHANGED <<clients, grab, buf, half, sync, hung, owed, total>>

\* handleCompleteRequest sets the position back; on to the next client.
ScanNext ==
  /\ At("scan") /\ grab = None /\ Top.rest # <<>>
  /\ ~Executable(Head(Top.rest))
  /\ stack' = <<Scan(Tail(Top.rest), Top.progressed)>> \o Tail(stack)
  /\ UNCHANGED <<clients, grab, input, sync, hung, owed, total>>

\* An I/O failure is logged, and the next client has its turn.
ScanFails ==
  /\ At("scan") /\ grab = None /\ Top.rest # <<>>
  /\ ReplyMayFail(Head(Top.rest))
  /\ Consume(Head(Top.rest))
  /\ NoEffect(<<Scan(Tail(Top.rest), Top.progressed)>> \o Tail(stack))

\* Mutant of ScanEnd: one more round, whatever happened.
ScanAgain ==
  /\ At("scan")
  /\ grab # None \/ Top.rest = <<>>
  /\ stack' = <<Pump>> \o Tail(stack)
  /\ UNCHANGED <<clients, grab, input, sync, hung, owed, total>>

\* Round again after progress or when somebody grabbed the server meanwhile.
ScanEnd ==
  /\ At("scan")
  /\ grab # None \/ Top.rest = <<>>
  /\ IF grab # None \/ Top.progressed
       THEN stack' = <<Pump>> \o Tail(stack) /\ UNCHANGED <<buf, pos>>
       ELSE Return(buf, pos)
  /\ UNCHANGED <<clients, grab, half, sync, hung, owed, total>>

-----------------------------------------------------------------------------
(* What follows a nested pump *)

FireAlarms ==
  /\ At("fire")
  /\ objects' = fireAlarms(objects)
  /\ stack' = Tail(stack)
  /\ UNCHANGED <<clients, grab, input, waiters, awaiting, listening, hung, owed, total>>

Owns(c, i) == objects[i].kind \in {"counter", "alarm"} /\ objects[i].owner = c

\* client.destroy(): the streams, then freeClientState if SYNC has registered
\* its listener.
DestroyClient ==
  /\ At("destroy")
  /\ Return([buf EXCEPT ![Top.client] = <<>>], [pos EXCEPT ![Top.client] = 0])
  /\ half' = [half EXCEPT ![Top.client] = FALSE]
  /\ owed' = [owed EXCEPT ![Top.client] = 0]
  /\ LET c == Top.client
         lost == {i \in SyncId : Owns(c, i)}
     IN  IF c \in listening
           THEN /\ objects' = [i \in SyncId |->
                     IF i \in lost THEN NoObject
                     ELSE IF IsKind(objects, i, "alarm") /\ objects[i].counter \in lost
                     THEN [objects[i] EXCEPT !.orphan = TRUE] ELSE objects[i]]
                /\ waiters' = {w \in MarkWaiters(lost) : w.client # c}
                /\ awaiting' = awaiting \ {c}
           ELSE UNCHANGED <<objects, waiters, awaiting>>
  /\ UNCHANGED <<clients, grab, listening, hung, total>>

-----------------------------------------------------------------------------
Batches == UNION {[1 .. n -> session.requests] : n \in 0 .. session.maxBatch}

ServerStep ==
  \/ ConnExecute \/ ConnDone \/ ConnFails
  \/ LoopGrabber \/ LoopReturn \/ LoopFails \/ LoopScan
  \/ ScanExecute \/ ScanNext \/ ScanFails \/ ScanEnd
  \/ FireAlarms \/ DestroyClient

Step ==
  \/ \E c \in Client : Accept(c) \/ HangUp(c) \/ EndOfFile(c)
  \/ \E c \in Client \ hung, rs \in Batches, cut \in BOOLEAN :
       Readable(c, rs, cut)
  \/ ServerStep

Next == Step /\ UNCHANGED session

Spec == Init /\ [][Next]_vars

-----------------------------------------------------------------------------
(* Properties *)

\* "explicit ungrab and owner disconnect both drain buffered requests"
\* (docs/COMPATIBILITY.md:29): when the thread goes back to epoll_wait,
\* which would not tell it of bytes it has already read, no client that may
\* run has a complete request in its buffer.
NothingStranded ==
  Idle => \A c \in Connected \ hung : ~Executable(c)

\* Requests are executed exactly once and their framing survives partial
\* reads, deferral and nested pumps of the same connection: what a client
\* has sent is either counted in its sequence number or still in its buffer,
\* which is positioned at the start of a request.
SequenceNumbersExact ==
  Idle => \A c \in Connected \ hung :
    pos[c] % 2 = 0 /\ owed[c] = Len(buf[c]) - pos[c] \div 2

\* A server grab is always that of a connected client; it cannot survive its
\* owner, which would freeze the display for good.
GrabHolderConnected == grab # None => grab \in Connected

\* The two records of who is parked agree, and nobody is parked twice: a
\* client left in only one of them would stay frozen, or run while it waits.
ParkedOnce ==
  /\ awaiting = {w.client : w \in waiters}
  /\ \A w, x \in waiters : w.client = x.client => w = x

\* A client is parked only while nothing it waits for has come true, unless
\* one of its objects was destroyed under it.
ParkedOnlyWhileUnsatisfied ==
  Idle => \A w \in waiters : w.orphan \/ ~waiterReady(objects, w)

\* An active alarm waits for something that has not happened yet: every
\* change of its counter, also those made inside a nested pump, has fired it.
AlarmsSettled ==
  Idle => \A i \in SyncId :
    IsKind(objects, i, "alarm") =>
      LET a == objects[i]
      IN  a.inactive \/ a.orphan \/ ~counterSatisfied(objects, a)

\* What is left to do of an event.  A request in a buffer weighs more than the
\* frames its execution may push; a round of the pump that has made progress
\* weighs more than the round that follows it.
Loop == Cardinality(Client) + 3
Weight(f) ==
  CASE f.at = "conn" -> Loop + 2
    [] f.at = "loop" -> Loop
    [] f.at = "scan" -> Len(f.rest) + 1 + (IF f.progressed THEN Loop ELSE 0)
    [] OTHER -> 1

\* The sum of w[x] over x \in S, as the number of tokens when x has w[x] of them.
Tokens(S, w) == UNION {{x} \X (1 .. w[x]) : x \in S}
Tally(S, w) == Cardinality(Tokens(S, w))

Unread == Tally(Client, [c \in Client |-> Len(buf[c]) - pos[c] \div 2])
StackWeight(s) ==
  Tally(DOMAIN s, [i \in DOMAIN s |-> Weight(Reverse(s)[i])])  \* outermost first
Remaining == 3 * Loop * Unread + StackWeight(stack)

\* Every event is handled in finitely many steps, however the requests wake,
\* grab and pump each other: each step of the thread lowers a natural number,
\* so it comes back to epoll_wait whatever the clients do meanwhile.
EventEnds == [][ServerStep => Remaining' \in 0 .. Remaining - 1]_vars
=============================================================================

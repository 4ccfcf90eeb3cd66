# BionicX: TLA+ models, model checking and proofs

BionicX runs unmodified glibc/Linux applications inside one Android application.
A Java X server, derived from Winlator, draws them; a preloaded runtime library
replaces what Android's kernel policy takes away; a small executor starts and
supervises each display session. This directory models the parts of that program
that are protocols: several actors, an order nobody controls, failures in between.

## 1. Inventory

Paths are relative to `src/`. `J` is `android/app/src/main/java/com/winlator`.

| part | state it keeps | operations | what is hard | what makes it correct |
|---|---|---|---|---|
| semaphore sets, `native/runtime/sysv-semaphore.c` | a mapped file per set: values, last pids, waiting counts, `removed`, futex `sequence` | `semop`, `semtimedop`, `semctl` | processes interleave, sleep, time out, get signals and die inside the critical section | operation sets are atomic; no lost wake-up; counts exact; the lock never stays behind |
| semaphore namespace, same file | a directory with `id-*` and `key-*` hard links | `semget`, `semctl(IPC_RMID)` | creation and removal race without a common lock | one key names one complete set; removed keys come free |
| session supervisor, `native/executor/bionicx-exec.c` | process tree, `shutdown_signal`, loop counters | fork, ptrace handoff, `supervise_session`, `terminate_session` | TERM at any moment, orphans, processes that ignore TERM | returns only when nobody is left; ends when told to |
| request dispatch, `J/xserver/XClientRequestHandler.java`, `J/xconnector/XConnectorEpoll.java`, `cpp/winlator/src/xinput_stream.c` | input buffers with a position, client list, server grab | read, execute, defer, pump, disconnect | buffered requests are invisible to epoll; the pump nests inside requests | nothing executable is left in a buffer; each request is executed once |
| SYNC, `J/xserver/extensions/SyncExtension.java` | counters, alarms, fences, waiters, awaiting clients | create, change, destroy, await, trigger, reset | waking a client runs its requests inside the waker's request | nobody parked on something that has happened; alarms settled |
| window tree, `J/xserver/WindowManager.java`, `Window.java` | tree, map states, focus, save sets, listeners | create, map, unmap, reparent, destroy, focus, end of a client | teardown of a manager with foreign windows; requests cascade over subtrees | a tree; nothing names what is gone; foreign windows survive |
| selections, `J/xserver/SelectionManager.java` | owner per selection | set, clear | ownership versus destruction | the owner exists |
| grabs and input, `J/xserver/GrabManager.java`, `InputDeviceManager.java` | active and passive grabs, frozen events, pressed buttons and keys | grab, ungrab, allow, press, release | Android's threads inject input; windows unmap and clients go under a grab | a grab has a live owner and window; automatic grabs end; nobody is frozen out |
| drawable pixels, `J/xserver/Drawable.java`, `J/renderer/{GLRenderer,RenderComposite,Texture}.java` | a heap and a texture per drawable, two dirty rectangles, GL queue | draw, read, upload, download, frame | two threads, two copies, GPU draws that fail, waits with a timeout | reads and frames show what was drawn last; the threads do not block each other |
| shared memory, `native/runtime/sysv-shm.c`, `J/sysvshm`, `MITSHMExtension.java` | table of segments per process, cache in the server | `shmget`, `shmat`, `shmdt`, `shmctl`, Attach, Detach | a listener thread and callers share a compacted table; the server blocks on a client | both sides mean the same memory; the server comes back |
| connector, `cpp/winlator/src/xconnector_epoll.c` | epoll set, per-client threads | accept, kill, stop | shutdown from another thread | each connection is shut down once |
| path, exec and metadata mapping, `native/runtime/fhs-*.c` | none | rewriting around system calls | string handling | — |
| identity, kernel compatibility, DNS, `native/runtime/{identity,android-kernel,dns}.c` | a published `resolv.conf` | look-ups; write and rename | concurrent publication | readers see a whole file |
| packages, `tools/bxapt`, `tools/rootfs-elf-fixup.sh` | root file system, dpkg state | install, fix up | interruption | restartable |
| Present, DRI3, the drawing extensions | pixmaps, events | requests | idle fences call into SYNC under a lock the renderer needs | no lock cycle |
| Vulkan and OpenGL command streams, ALSA server, Android UI | GPU and audio buffers, views | command streams | — | — |

How they interact. `BionicXActivity` starts the X server components and then
`bionicx-exec`, and sends it one TERM at the end. The executor's descendants are
the X clients: they reach the server over a local socket, each other through the
semaphore files, and the server reaches back to them for the descriptors of shared
memory. Inside the server one epoll thread reads all X clients; `GrabServer` and SYNC both
make it leave requests unread in a buffer, and both come back to them through
`processDeferredRequests`. Requests change the window tree, which calls `GrabManager` for
every window it unmaps or frees; Android's input threads work on the same grabs. Drawing
requests queue work on the GL thread and wait for it, while the GL thread draws frames.
Present copies, triggers SYNC fences and so runs other clients' requests.

`PROJECT.json` lists every component with its status, and under `hazards` the
places in the code that tests hardly reach, each with the properties that watch it.

## 2. Modules

### SysVSem, AbstractSem, MCSysVSem, SysVSemProofs, FiniteRecursion

`SysVSem` is one set that exists. The mapped file is `values`, `removed`,
`sequence`, `lastPid`, `waitNegative`, `waitZero`; `lockOwner` is the fcntl write
lock, which belongs to a *process*; `pc` says where each thread is, and `copy`, `i`,
`expected`, `outcome` are the locals of `apply_operations`. `snap` is a history
variable: the shared values at the time of the copy.

One action is one step others can see: `StartCall` (`open_id`, with its unlocked read
of `removed`), `Lock`, one iteration of the scan (`ScanApply`, `ScanFail`,
`ScanWait`), `Commit` and the `semctl` commands, which only decide what will be written, `Store`, one
store of that, `Bump` and `FutexWake` (the two halves of
`wake_waiters`), `Unlock`, `Close`, `UnlockWait`, `FutexWait`, `Timeout`, `Interrupt`,
`Relock`, `UnlockRetry`. `Release` follows POSIX: any close of the file drops the lock
of the whole process. `FutexWait` compares and queues in one step, as the kernel does.
A signal that arrives while a failed wait takes its lock again overwrites `errno`, and
`Interrupt` says so. `todo` is the set of stores a write has still to make, values and last pids, in any order:
`memcpy` and the loop after it are plain stores that nothing orders. `Crash` kills a process, between
two of these stores, too: the kernel frees its lock and the file stays as it is. `GETVAL`, `GETPID`, `GETNCNT`, `GETZCNT` and `GETALL` read under the lock
and share the action `CtlGet`; `IPC_STAT` and `IPC_SET` behave as a `GET` in range.

`AbstractSem` is what callers are promised: each call takes effect at one instant.
A `semop` performs all its operations or none; each errno is returned only when it is
true at that instant. The file has no journal, so there is one exception, and `AbstractSem` states
it: `Die` may take a process away in the middle of a write and leave some of its values, of those
a `semop`, SETVAL or SETALL that was possible would have written. `ImplementsAbstractSem` maps `pc` and
`result` to the status of the call, and while a write is under way the values to those from before
it (`Settled`); the linearisation point is the last store or the decision to fail.

### SysVSemNamespace, MCSysVSemNamespace, SysVSemNamespaceProofs

The directory: `idEntry` and `keyEntry` map names to inodes, which outlive their names.
`semget` is `Semget`, `OpenKey`, `ReadKey`, `CreateId`, `Fill`, `Publish` (the magic, after
the release fence), `Link`, `UnlinkOwn`; `IPC_RMID` is `Rmid`, `CheckId`, `MarkRemoved`,
`UnlinkId`, `UnlinkKey`. `Link` and the two unlinks act on the *name*, whatever it names
by then. `known` is history: the sets whose id some caller has. Only such ids are removed.

### SessionSupervisor, MCSessionSupervisor, SessionSupervisorProofs

`sup` is the place in `main`, `supervise_session` and `terminate_session`; `st` and `parent` are
the process table; `boot` is how far the primary has come between fork and its first free
instruction; `term` is who has a TERM to obey. The kernel's part (re-parenting to the
subreaper, `PR_SET_PDEATHSIG`, default actions) and the applications' part (fork, exit,
obey or ignore TERM) are marked external in the map. Between `user` and `blocked` lies the
window in which a TERM only sets `shutdown_signal`. The early returns of `main` are
`SetpgidFails`, `HandoffFails` and `HandlersFail`.

### SyncObjects, XDispatch, MCXDispatch, XDispatchProofs

`SyncObjects` holds the pure tests and updates of SYNC: `counterSatisfied`, `waiterReady`,
`applyAlarmMask`, `fireAlarm`. `XDispatch` composes them with the dispatcher. The epoll
thread calls itself through the pump, so its state is a `stack` of frames: `Conn` (the
read loop of one connection), `loop` and `scan` (`processDeferredRequests`), `fire` (what
`changeCounter` still has to do after `releaseWaiters`), `destroy` (what is left of a
disconnect). A buffer is a sequence of requests; `half` says that the last one is cut,
and `pos` counts in half requests, so that a position after a bare header can be told
from one at the start of a request. Executed bytes are blanked. `owed` is history:
requests received less the client's sequence number. Requests without influence on
dispatch are all `Query`. `orphan` is history on waiters and alarms whose object was
destroyed: the code has nothing that would release them.
`SetTriggered` is the idle fence of PresentPixmap. What is sent, and by how many clients, is
a `session`, chosen at the start.

### XWindows

The tree, the focus, selections, save sets, redirection and the end of a client. The methods
of `WindowManager` call one another, so each is an operator from a tree to a tree (`Unmap`,
`Destroy`, `Map`, `Reparent`) and a request applies them. The record `t` has `hit`, the windows
the last step has unmapped or freed: those whose `OnWindowModificationListener` was called.
`FreeResources` and `RemoveClient` are the two halves of a client's end; between them its
resources are gone and its grabs are not. `halfMade` is history: windows whose CreateWindow
ended in an error after the window had been made;
the error comes before their listener is registered, so nobody selects on them.

### XGrabs, MCXGrabs, XGrabsProofs

`XGrabs` composes `GrabManager` and `InputDeviceManager` with `XWindows`: `WindowStep` is a
step of the tree together with what the listener in `GrabManager` does to the grabs
for the windows in `t.hit`. Buttons, keys and pointer motion are actions of their own
that may come between any two steps. `pg` is the pointer grab (`sync`, `auto`, `frozen`,
`confine`), `kg` the keyboard grab, `passive` and `passiveKeys` the passive ones.

### XPixels, MCXPixels, XPixelsProofs

A pixel is either what was drawn last or it is not; `heap` and `tex` are the sets of pixels
that are, in the two copies of a drawable. `dirty` and `gpuDirty` are the rectangles of
`Drawable`, hulls like there. A request is a sequence of steps of the epoll thread (`try` the GPU,
`ensure` CPU pixels, `draw`, `read`, `upload`); `RunSync` queues the work and waits,
`Timeout` gives up after five seconds and leaves the task in the queue, where it runs later. A GPU draw
that fails makes the CPU draw. A download that fails (`FailedDownload`: no framebuffer, or a GL error)
makes no difference to `Drawable`, which draws or reads on a heap that is stale. Two history variables
say what that costs: `missed`, the drawables this request has failed to download, and `spoilt`, the
drawables that were drawn on, or copied from, such a heap, and what was drawn from those (`SpoiltBy`).
`NewerCopyIsRight` and `FramesAreRight` speak of the drawables that are not spoilt, `ReadsAreRight` of reads
that have not missed their own download: a failure spoils what it must and nothing else.
The GL thread runs tasks (`RunTask`) and frames (`BeginFrame`, `RenderWindowDrawable`). Locks are
conditions: `HoldsDrawables` for `DRAWABLE_MANAGER`, `HoldsRenderLock` for the lock PresentPixmap
keeps while it copies, notifies (`SendIdleNotify`) and so runs what is `Parked`.

### SysVShm, MCSysVShm, SysVShmProofs

`proc` is the table of `sysv-shm.c` in each process, with its socket, counter and listener
thread; `cache` is `SysVSharedMemory.shmemories`, `segments` the MIT-SHM segments. `BeginAttach`
connects, `FinishAttach` maps: the client may do anything in between. The steps of the listener thread
are `Accept`, `SendSegment` (under `bx_shm_lock`) and `CloseClient`. `call.held` is the set of processes that
have the accepted connection open: it has no `SOCK_CLOEXEC`, so that `Fork` and `Exec` take it along, and
the server reads until the last of them has closed it (`Dropped`). `Fork` copies the table but no
thread, `Exec` keeps the pid and loses the rest, `Exit` may leave the listening socket open in a fork; a
connection nobody has accepted ends with the last descriptor of that socket (`Unbound`). `given` is history: the ids `shmget` has returned, with their memory.

## 3. Runs

All runs switch off deadlock checking: a session ends, clients stop sending, callers
stop calling (the bounds on calls and requests are guards), and a `semop` that is not
possible sleeps by design.

| run | instance | what it shows |
|---|---|---|
| `sysv_sem` | 3 processes, 2 semaphores, 3 calls out of 9, fair | `TypeOK`, `OperationSetsSerialized`, `NoLostWakeup`, `WaitCountsExact`, `SleepsOnlyWhileBlocked` |
| `sysv_sem_refine` | 3 processes, 2 semaphores, 3 calls out of 4 (a timed operation set on two semaphores, one that fails, SETALL, removal), one dies anywhere, also between two stores; fair | `LockNeverOrphaned`, `ImplementsAbstractSem`, `LockEventuallyGranted` |
| `sysv_sem_threads` | 2 threads of one process | **violated**: `OperationSetsSerialized` |
| `namespace` | 3 processes, 1 key, 3 calls, one removal, one crash, fair | `KeyNamesCompleteSet`, `IdAndKeyAgree`, `OneSetPerKey`, `RemovedKeyIsFreed`, `CallsReturn` |
| `supervisor` | 4 processes, one stubborn, 2 TERMs, fair | `ReturnsAfterEverybody`, `TerminationEnds`, `DrainEnds`, `HandoffLeavesNoPrimary` |
| `supervisor_term` | one TERM, fair | **violated**: `TermEndsSession` |
| `dispatch` | 5 requests; 3 clients that grab, with one hang-up; 2 with a fence, Present and the grab; 2 with a counter and an alarm, one hang-up | `NothingStranded`, `SequenceNumbersExact`, `GrabHolderConnected`, `AlarmsSettled`, `ParkedOnlyWhileUnsatisfied`, `ParkedOnce`, `EventEnds` |
| `windows_grabs` | 11 sessions of 2 clients on up to 3 windows: 5 on the tree, 5 with the pointer, 1 with the keyboard | `TreeRooted`, `NothingDangles`, `NobodyGone`, `SaveSetRestored`, `GrabsOfTheLiving`, `AutoGrabEnds`, `FreezeHasOwner` |
| `pixels` | a window and a pixmap of 3 pixels, fills, copies, blends, lines, images, reads, presents, draws and downloads that fail, one slow fill, fair | `NewerCopyIsRight`, `ReadsAreRight`, `FramesAreRight`, `RequestsEnd`, `FramesEnd` |
| `pixels_map` | fills and MapWindow | **violated**: `NoStaleUpload` |
| `pixels_present` | a line is parked on the idle fence | **violated**: `NoLockCycle` |
| `shm` | 2 processes, 4 sessions: exit, two processes, fork, exec; fair | `SameMemory`, `RemovedGoes`, `StaysMapped`, `AttachReturns` |

Operators commented as *mutant of X* are deliberate errors: X as a plausible bug would have
it. No specification uses them; put in the place of X they make TLC report the property
that `PROJECT.json` pairs them with, which shows that the property can fail.

Bounds, and why they are enough to meet the interesting cases.

* `MaxCalls = 3` with three processes: a waiter, the call that enables it and one that
  interferes, each from its own process or repeated in one. `MaxSequence = 8` exceeds
  what three calls can bump, so it never blocks a behaviour. `MaxSet = 2` stands for 32767;
  the calls contain values on both sides of it.
* `MaxFiles = 3` is all that three calls can create: two racing creators, one of which tries
  again after a removal. With two ids, ids are reused and may run out (`NoFreeId`).
* `MaxAttempts = 2` stands for the 40 rounds of TERM: one that is followed by another, and
  the last. Four processes give a primary, a detached child, a stubborn one and a grandchild.
* Five requests: a grab, two deferred requests, an ungrab and one more that grabs again from
  inside the pump; or create, await, alarm, change and a request of the woken client.
  A read may end in a cut request; while three clients grab it may bring two.
* Three windows: a frame, an application window and one more below, beside or redirected;
  window ids are used once, so a session ends when all are spent. The kinds of requests are
  split into sessions because what a hazard needs is in one of them: the tree without input,
  pointer grabs with destruction, with unmapping and confinement, with replay, with relative
  movement, with half-made windows, keyboard grabs with destruction. Two buttons give a second press under a grab;
  `MaxPassive = 2` two candidates for one press.
* Three pixels: a rectangle inside a hull, one beside it and a gap between two. One window is
  enough for frames, which take the windows one at a time. One request may be slow and once it
  has timed out only slow ones follow (`late`): the pixel properties speak of behaviours
  without a timeout, `RequestsEnd` and `FramesEnd` of all. `latch.await` gives up after five seconds whatever
  the reason; the model lets that happen when the GL thread cannot go on and to the requests in
  `Slow`. Once something is spoilt only the requests in `Later` follow, a copy that spreads it
  and reads. With a GL context every PresentPixmap times out, as it holds the render lock its own
  tasks need, so its pixels are checked only before the context has come.
* Two sockets and two counters make ids collide and wrap after two segments, where the code has
  65536 and 32767; a table of two is full when the code's is at 64.
* Processes and clients are interchangeable where symmetry is used; runs with liveness use none.

Fairness. `WF(Step(t))` in the semaphore modules: a thread inside the library is
scheduled, and the kernel grants a free lock to one of those that wait; signals,
timeouts and crashes need not happen, and nobody has to make another call.
`LockEventuallyGranted` needs no more than that because the calls of a behaviour are
bounded. In the supervisor: the supervisor and the booting primary are scheduled, and a
process that does not ignore TERM obeys it; nobody has to exit by itself and no TERM
has to be sent. `XPixels`: the epoll thread and the GL thread are scheduled (`WF(Epoll)`,
`WF(GL)`), the GL context need not come and nobody has to send anything. `SysVShm`: the server's
read and the listener threads are scheduled. The dispatcher needs no fairness: `EventEnds` says
that each step of the epoll thread lowers a natural number, the weight of the
requests left in the buffers and of the frames on the stack.

What the violated runs show:

* **Threads.** `lock_file` uses record locks, which are per process. Two threads of one
  process pass it together, and the close of one drops the lock of the other. The head
  comment of the file promises serialization without this restriction.
* **TERM outside `waitpid`.** `shutdown_signal` is examined only after `EINTR`. The flag set between
  two waits is never seen when no further child event or signal comes.
* **Stale upload.** MapWindow of a window that is not redirected sets `needsUpdate` with no dirty
  rectangle; the next frame uploads the whole heap over pixels only the texture has. The
  run `pixels` leaves MapWindow out: with it, `FramesAreRight` fails for this reason.
* **Lock cycle in Present.** PresentPixmap triggers the idle fence inside its render lock. A client
  that waits for the fence is pumped there, its drawing request waits for `DRAWABLE_MANAGER`, and a
  frame that has `DRAWABLE_MANAGER` waits for the render lock. Nothing ends this: the X server
  and the screen stand still. `RequestsEnd` and `FramesEnd` say so: they are about clients that wait for
  a fence with requests that do not take `DRAWABLE_MANAGER`, as those of Render that `pixels` parks.

Where a property makes an exception, the code does what the exception says:

* `OneSetPerKey` is checked with one removal. `open_id` reads `removed` without the lock and
  `semctl` does not read it again, so a second remover that comes late unlinks the key of a
  new set, which an instance with two removals and five calls shows.
* `ParkedOnlyWhileUnsatisfied` and `AlarmsSettled` except waiters and alarms whose object was
  destroyed under them: they stay parked.
* `NobodyGone` excepts windows whose CreateWindow was rejected for an attribute: they are in the
  tree and among nobody's resources.
* `SaveSetRestored` excepts a window of the save set that lies inside a third client's window
  inside a frame: it is destroyed with the frame.
* `AutoGrabEnds` excepts sessions that switch relative movement on with a button down: the
  release is then not looked at and the automatic grab stays.
* The pixel theorems leave out MapWindow, which spoils `FramesAreRight` as said above, and, where the GPU
  may fail, CopyArea within one drawable: `RenderComposite.copy` reads and writes one texture then, a
  failed copy may have changed the source of the CPU copy that follows it, and `NewerCopyIsRight` fails
  with it. The run `pixels` copies between two drawables.
* `SameMemory` excepts ids given twice: after a fork (the child has the socket number and the
  counter), after an exec (the pid) and when the counter wraps. `StaysMapped` excepts the
  Detach of a twin: both attachments share one mapping. `AttachReturns` excepts two connections
  nobody will answer or close (`Orphaned`): on a socket that a forked child holds without a listener,
  and one that was accepted and then went along with a fork or an exec, with no thread that would
  close it there. The server waits as long as that process lives.
* `NewerCopyIsRight`, `FramesAreRight` and `ReadsAreRight` except what a failed download has spoilt, as
  said in section 2: nobody looks at what `ensureCpuPixels` returns (`Drawable.java:213`, 260, 303, 602).
* `ImplementsAbstractSem` lets a writer that dies between two stores leave a part of its write.
* `ReturnsAfterEverybody` does not look at the status the supervisor returns: it is no value of the model.

## 4. Proofs

The theorems hold for every value of the constants that satisfies the `ASSUME`s of the module they are
about, and the hypotheses they state. TLC has checked each inductive invariant on the instance of a run
before it was proved. The proof modules:

`SysVSemProofs`, for every set of threads, processes and calls, every number of semaphores, every bound:

* `TypeCorrect`: `TypeOK` is not inductive, since the type of a local depends on the call being
  executed; `TypeInv` adds `CallMatchesPlace`: what a thread executes fits where it is, so that a
  counted waiter still points at the operation it was counted for. The part of interest is that no
  value becomes negative.
* `Serialization`, under `OneThreadPerProcess`: `SerialInv` adds `LockHeld`; the lemma `Exclusion`
  turns it into "at most one thread is in the critical section". Crashes are included. The run
  `sysv_sem_threads` shows that the hypothesis is needed.
* `NoWakeupIsLost`, under `OneThreadPerProcess` and `MaxCrashes = 0`: `WakeInv` adds that no waiter
  expects a sequence that has not been reached: a bump can then never make a stale expectation current
  again. A process that dies between `Commit` and `Bump` does leave its waiters asleep.
* `LockIsNeverOrphaned`: with crashes and any number of threads.
* `WaitCountsAreExact`, under `OneThreadPerProcess`, `MaxCrashes = 0` and finitely many threads: a count is
  the cardinality of a set of threads, and each step that moves a thread in or out of the set moves the
  count with it. A process that dies while it waits stays counted, as in the code.
* `CallsAreAtomic`, under `OneThreadPerProcess` and with crashes: `SysVSem` implements `AbstractSem`, whose calls
  take effect all or none unless their process dies while it writes. `RefInv` adds to `SerialInv` that a
  write in progress has changed nothing but what it has stored (`WriteExact`: the rest is as it was
  when the write began), what the scan has found so far (`ScanExact`: the copy is what `AbstractSem` says the
  operations before `i` make of the shared values, and none of these was an obstacle) and why a wait has
  ended (`WaitEnded`). Each step is then one of `AbstractSem` or a stutter. `AbstractSem` computes the effect
  of an operation set with a recursive function; `FiniteRecursion` shows that such a function exists.

`SysVSemNamespaceProofs`, for every set of processes, keys and ids, files, calls and crashes, under
`MaxRmid \in {0, 1}` (section 3 says what two removals do): `KeysNameCompleteSets`, `IdsAndKeysAgree`,
`KeysAreUnambiguous`. The invariant has a part for what each creator and the remover know of the files they
are working on, which are the files that no other process can publish, link or unlink meanwhile.

`SessionSupervisorProofs`, for every set of processes, stubborn ones, rounds and signals:
`SessionIsAForest` and `NobodyOutlivesTheSupervisor`. That a supervisor without running children has no
running descendants needs that every process descends from it along running parents and that the forest has
no cycle; `Descent` says so with a line of ancestors for each process, whose inclusion is
well-founded.

`XDispatchProofs`, for every set of clients, SYNC ids and sessions and every number of requests:
`ControlInvariant`, `GrabIsOfTheConnected`, `SequenceNumbers`, `NobodyStranded`, `ParkedExactlyOnce`,
`NobodyOversleeps`, `AlarmsFireInTime`, and for finitely many clients `EveryEventEnds`. `Control` says which
frames may lie on which, and what each of them holds; `CoverInv` that for whatever is executable in a buffer there is a frame on the stack that will still
look at it; `SyncInv` that what a counter or a fence has made true, a frame below will still release or fire. `EveryEventEnds`
needs that the rounds of nested pumps do not start each other: `BusyInv` says that only the innermost scan can be
without progress, and that nobody has grabbed the server since it began. Sums are numbers of tokens (`Tokens`).

`SysVShmProofs`, for every set of processes, of MIT-SHM segments and of sessions and every size of the tables:
`IdsKeepTheirMemory`, `ServerAndClientsShare`, `RemovedSegmentsGo` and the action property `MappingsStay`. The
invariant follows an id with its memory from `shmget` through tables, answers and the cache. That
`ensure_listener` and the buffers always find a free name is an argument by counting.

`XPixelsProofs`, for every set of drawables and windows, every width and set of requests in `Scope` (section 3
says what that leaves out), until a wait times out, and for the drawables that no failed download has
spoilt: `NewerCopiesAreRight`, `GetImageReadsWhatWasDrawn`,
`FramesShowWhatWasDrawn`, which all follow from `StepsLeaveTheImagesRight`. `Images` says what each step of a
request needs of the images: which drawables have been downloaded, where PutImage has spoilt the heap until its
upload, and which pixels (`Lost`) a failed GPU copy may have lost that the CPU draws next. A drawable in `missed` or `spoilt` need only
have the right shape. The shape lemmas
show that the operations of `Drawable` and `Texture` keep `Uploads` and `RightBut`, and a frame keeps both for
every image whatever step it hits.

`XGrabsProofs`, for every set of windows, of clients, buttons, keys and sessions:

* The tree: `WindowsCorrect`, `TreeStaysRooted`, `NothingEverDangles`, `NothingIsLeftOfTheGone`. `Above` is a
  recursive function; `AboveFacts` and `AboveLeast` say that the ancestors of a window are the least set that
  holds its parent and the parents of its members, and what a step does to ancestors is proved by naming
  such a set. That `destroyWindow` takes exactly the subtree, reverts the focus and tells the listeners of
  each window (`Tells`) is a lemma, as is what `restoreSaveSet` and `freeResources` do over whole lists.
* `SavedWindowsSurvive`, an action property: a window that `restoreSaveSet` has lifted out of the client's frames
  (`Lifts`) stays outside them while the others follow, and the destruction of the frames leaves it.
* The grabs: `GrabsCorrect`, `GrabsAreOfTheLiving`, `AutomaticGrabsEnd`, `FrozenPointerHasOwner`. `GrabsInv` adds
  that a synchronous grab is an automatic one of a client that sends AllowEvents, and that relative movement is on
  only where it can be switched on. `GrabsImplementWindows`: `GrabSpec` implements `Spec` of `XWindows`, so that
  the theorems about the tree hold with grabs and input in between.

`FiniteRecursion` proves what `SysVSemProofs` and `XGrabsProofs` need of recursive functions: finite induction over a
set of numbers (`CountUp`), and that a function given step by step exists (`Recursion`).

Assumptions. `ThreadAssumption`, `SizeAssumption`, `CallsAssumption` (`SysVSem`): `ProcOf` maps threads to
processes, the sizes are natural numbers, the calls well-formed. `NamespaceAssumption` and
`SessionAssumption`: finite sets and bounds. `NoneAssumption`, `SessionsAssumption` (`XDispatch`): what a
request carries has the type of its wire format. `ShmAssumption` (`SysVShm`): there are no more processes than
socket names (`ensure_listener` tries 4096; it fails with ENOMEM only when as many sockets are bound).
`WindowsAssumption`, `GrabsAssumption`: finitely many windows, each of one client; the special windows and
`None` are not among them; sessions use windows of `Win`. `PixelsAssumption`: requests name
drawables and pixels that exist; an `r` is empty for MapWindow only; PutImage draws one rectangle. TLC
evaluates all of them in the runs of these modules.

Only model-checked:

* Liveness: `SleepsOnlyWhileBlocked`, `LockEventuallyGranted`, `RemovedKeyIsFreed`, `CallsReturn`,
  `TerminationEnds`, `DrainEnds`, `HandoffLeavesNoPrimary`, `RequestsEnd`, `FramesEnd`, `AttachReturns`. Fairness and
  `ENABLED` are outside the prover.

## 5. What is not modelled

* `--diagnose-signals` and `--debug-stop` of the executor, and its option parsing.
* Failing `mmap`, `ftruncate`, `msync` and directory look-ups in `semget`; the wrap of the 32-bit
  sequence; the clock behind `semtimedop` (a timed wait may end or not).
* In `semget`: when `link` finds that the file of its own id is gone, the code unlinks that name
  (line 230) before it returns; `Link` returns at once. It takes a removal of a set whose creator has
  not yet returned its id, which nobody can ask for while at most one set is removed.
* In dispatch: the contents of replies and events, requests with no influence on
  scheduling, the connector's multithreaded mode, transient read errors, malformed alarm masks. A
  setup request that is cut after its twelve bytes would be read on, which `Executable` does not allow; an
  opcode of no extension is not skipped by its length (`XClientRequestHandler.java:190-192`), where
  `NoEffect` skips every request.
* In windows and grabs: input-only windows, so that the BadMatch of an InputOutput window into an
  InputOnly parent (`WindowManager.java:443`) is missing; `restoreSaveSet`, which would skip such a window,
  cannot meet it, as the ancestors of an InputOutput window are InputOutput. Also geometry, stacking, ConfigureWindow, properties, the delivery of events
  other than held-back releases, modifiers, owner-events, timestamps.
* In pixels: what is drawn, formats without a texture, the cursor, windows backed by
  `GPUImage`, the drawing requests of MIT-SHM.
* In shared memory: sizes and addresses, keys, failing system calls, a fork that hits while
  `bx_shm_lock` is taken, and the server of `SysVSHMRequestHandler`, to which the runtime
  library does not talk.
* The serializers and decoders of the Vulkan and OpenGL renderers, most of the repository's
  lines, are generated code, tables and command decoding without shared protocol state, as are
  headers and examples. Stateless rewriting (`fhs-*.c`, `identity.c`), audio, UI and build tools
  likewise.

Read in the code next to what is modelled, and not checked by a run:

* A TERM between `PTRACE_DETACH` and `install_shutdown_handlers` ends the supervisor and the
  primary, but not what the primary has forked by then. `kill(-1)` reaches every process of the
  UID.
* `isViewable` is an attribute flag that is always set, so SetInputFocus accepts an unmapped
  window; unmapping an ancestor neither reverts the focus nor ends a grab. DestroySubwindows
  iterates the list it shortens. A listener entry that is left behind lets two clients redirect
  at once.
* UngrabPointer ends any client's grab. GrabPointer over an own synchronous grab strands the
  frozen events. `onKeyPress` meets a null window when nobody between pointer and focus
  selects KeyPress. GrabPointer accepts a confine window, which COMPATIBILITY.md:26-27 calls an
  error. Num Lock and Caps Lock stay pressed, so an automatic keyboard grab lasts as long.
* A GL task that was given up on still draws when its turn comes, over what the CPU drew meanwhile.
* `SysVSharedMemory` keeps descriptors by id for ever; CreatePixmap's slice of a segment goes with
  its Detach; one `shmdt` unmaps however often `shmat` was called.

## 6. Plan

1. Proofs: the two implementations of `semget` and of the segment table against abstract specifications of their
   own; the bound on abandoned tasks in `XPixels`.
2. Models: `Connector`, the multithreaded mode and shutdown; `DnsPublish`, concurrent rename;
   `BxaptTransaction`, what an interrupted transaction leaves.

------------------------------ MODULE XPixels ------------------------------
(***************************************************************************)
(* The two copies of a drawable's pixels.  A 32-bit Drawable has a heap     *)
(* (the ByteBuffer the CPU code draws on and reads) and a GLES texture (the *)
(* GL thread draws on it and samples it for the screen).  The epoll thread  *)
(* executes X requests; what it wants of the GPU it queues on the GL thread *)
(* and waits for, at most five seconds (GLRenderer.runSync).  Two rectangles*)
(* say which copy is newer: `dirty' (heap, to be uploaded) and `gpuDirty'   *)
(* (texture, to be downloaded before the CPU looks).                        *)
(*                                                                          *)
(* What a pixel looks like does not matter, only whether a copy of it is    *)
(* what was drawn last: `heap' and `tex' are the sets of such pixels.  A    *)
(* drawable is one row of Width pixels; a rectangle is an interval.         *)
(***************************************************************************)
EXTENDS Integers, Sequences, FiniteSets, FiniteSetsExt

CONSTANTS
  Drawable,  \* 32-bit drawables
  Window,    \* those of them that are the content of a window on the screen
  Width,
  Requests,  \* the requests clients make: records with op, d, r and, for some, s
  Parked,    \* drawing requests in the buffers of clients that wait for the
             \* idle fence of a PresentPixmap
  GpuRefuses,\* whether a GPU draw may fail, for which the CPU then draws, and
             \* a download, which goes unnoticed
  Slow,      \* bound: requests for which the GL thread may need over 5 seconds
  Later      \* bound: requests made when some drawable is spoilt

Pixel == 0 .. Width - 1
Hull(s) == IF s = {} THEN {} ELSE Min(s) .. Max(s)

\* The r of a MapWindow says nothing, PutImage draws one rectangle.
ASSUME PixelsAssumption ==
  /\ Window \subseteq Drawable /\ Window # {}
  /\ Width \in Nat \ {0}
  /\ Slow \subseteq Requests
  /\ \A q \in Requests \cup Parked :
       /\ {"op", "d", "r"} \subseteq DOMAIN q
       /\ q.op \in {"Fill", "Copy", "Present", "Over", "Line", "Put", "Get", "Map"}
       /\ q.d \in Drawable /\ q.r \subseteq Pixel /\ (q.op # "Map" => q.r # {})
       /\ "s" \in DOMAIN q <=> q.op \in {"Copy", "Present", "Over"}
       /\ "s" \in DOMAIN q => q.s \in Drawable
       /\ q.op = "Put" => Hull(q.r) = q.r

VARIABLES
  img,    \* [Drawable -> the state of Drawable and its Texture]
  egl,    \* the GL context exists
  x,      \* epoll thread: the request, the steps left of it, waiting for GL
  queue,  \* GLSurfaceView's event queue
  frame,  \* windows that the frame in progress has still to draw
  late,   \* history: a wait has timed out; its task may run behind newer draws
  missed, \* history: drawables whose download failed during this request
  spoilt  \* history: drawables drawn on, or with a source, that had not been
          \* downloaded, and what was drawn with such a source

vars == <<img, egl, x, queue, frame, late, missed, spoilt>>

Fresh == [heap |-> Pixel, tex |-> {}, dirty |-> {}, gpuDirty |-> {},
          needsUpdate |-> TRUE, allocated |-> FALSE]

Idle == x.steps = <<>>

Init ==
  /\ img = [d \in Drawable |-> Fresh]
  /\ egl = FALSE
  /\ x = [req |-> [op |-> "None"], steps |-> <<>>, waiting |-> FALSE]
  /\ queue = <<>>
  /\ frame = {}
  /\ late = FALSE
  /\ missed = {} /\ spoilt = {}

-----------------------------------------------------------------------------
(* Drawable and Texture: the image i of one drawable.                       *)

ForceUpdate(i, r) ==
  [i EXCEPT !.dirty = Hull(@ \cup r), !.needsUpdate = TRUE]

MarkGpuPixelsCurrent(i, r) ==
  [i EXCEPT !.gpuDirty = Hull(@ \cup r), !.needsUpdate = FALSE]

SetOffscreenStorageOff(i) == [i EXCEPT !.needsUpdate = TRUE]

\* With no dirty rectangle the whole heap is uploaded.
UpdateFromDrawable(i) ==
  LET rect == IF i.allocated /\ i.dirty # {} THEN i.dirty ELSE Pixel
  IN  IF i.allocated /\ ~i.needsUpdate THEN i
      ELSE [i EXCEPT !.tex = (@ \ rect) \cup (i.heap \cap rect), !.dirty = {},
                     !.needsUpdate = FALSE, !.allocated = TRUE]

\* Mutant: a partial download clears the rectangle.
DownloadGpuDirtyForgets(i, r) ==
  LET got == i.gpuDirty \cap r
  IN  IF got = {} THEN i
      ELSE [i EXCEPT !.heap = (@ \ got) \cup (i.tex \cap got), !.gpuDirty = {}]

\* The rectangle stays dirty as a whole until all of it has been read.
DownloadGpuDirty(i, r) ==
  LET got == i.gpuDirty \cap r
  IN  IF got = {} THEN i
      ELSE [i EXCEPT !.heap = (@ \ got) \cup (i.tex \cap got),
                     !.gpuDirty = IF got = @ THEN {} ELSE @]

\* The pixels that are right after drawing q on a copy whose right pixels are
\* dst, with src those of the source.  Over blends with what was there.
Painted(q, dst, src) ==
  (dst \ q.r) \cup (q.r \cap CASE q.op \in {"Copy", "Present"} -> src
                               [] q.op = "Over" -> dst \cap src
                               [] OTHER -> Pixel)

-----------------------------------------------------------------------------
(* The requests, as the steps the epoll thread takes.  `try' is a GPU draw, *)
(* which ends the request when it succeeds.                                 *)

FillRects == <<"try", "ensure", "draw">>
CopyAreas == <<"try", "ensure", "ensureSource", "draw">>
PresentPixmap == <<"try", "ensure", "ensureSource", "draw", "idle">> \* by copyAreas, too
Composite == <<"try", "ensureSource", "ensure", "draw">>
DrawLineBlind == <<"draw">>          \* mutant: does not download
DrawLine == <<"ensure", "draw">>
DrawImageLazy == <<"draw">>          \* mutant: leaves the upload to the next frame
DrawImage == <<"draw", "upload">>   \* depth 24 and 32
GetImage == <<"ensure", "read">>
ApplyRedirectStorage == <<"store">> \* MapWindow of a window not redirected

Steps(q) ==
  CASE q.op = "Fill" -> FillRects
    [] q.op = "Copy" -> CopyAreas
    [] q.op = "Present" -> PresentPixmap
    [] q.op = "Over" -> Composite
    [] q.op = "Line" -> DrawLine
    [] q.op = "Put" -> DrawImage
    [] q.op = "Get" -> GetImage
    [] q.op = "Map" -> ApplyRedirectStorage

\* Render, Present and MapWindow do not take DRAWABLE_MANAGER.
TakesDrawables(q) == q.op \in {"Fill", "Copy", "Line", "Put", "Get"}
HoldsDrawables == ~Idle /\ TakesDrawables(x.req) /\ Head(x.steps) # "lock"

\* PresentPixmap copies, waits and notifies inside synchronized
\* (content.renderLock), and what it wakes runs inside it, too.
HoldsRenderLock(d) ==
  /\ ~Idle
  /\ \/ x.req.op = "Present" /\ x.req.d = d
     \/ "inside" \in DOMAIN x.req /\ x.req.inside = d

StartRequest(q) ==
  /\ Idle
  /\ TakesDrawables(q) => frame = {}
  /\ Len(queue) <= 1          \* bound: abandoned tasks
  /\ late => q \in Slow       \* bound: what follows a timeout
  /\ spoilt # {} => q \in Later
  /\ x' = [req |-> q, steps |-> Steps(q), waiting |-> FALSE]
  /\ missed' = {}
  /\ UNCHANGED <<img, egl, queue, frame, late, spoilt>>

At(steps) == ~Idle /\ Head(x.steps) \in steps /\ ~x.waiting

NextStep == [x EXCEPT !.steps = Tail(@), !.waiting = FALSE]

On == IF Head(x.steps) = "ensureSource" THEN x.req.s ELSE x.req.d

\* What the step wants of the GL thread, if anything.
Wanted ==
  CASE Head(x.steps) = "try" -> "draw"
    [] Head(x.steps) = "upload" -> "upload"
    [] OTHER -> IF img[On].gpuDirty # {} THEN "download" ELSE "nothing"

\* runSync, ensureCpuPixels, tryFillGpu, tryCopyAreasGpu, uploadCpuPixels.
RunSync ==
  /\ At({"try", "ensure", "ensureSource", "upload"})
  /\ IF egl /\ Wanted # "nothing"
     THEN /\ queue' = Append(queue, [do |-> Wanted, on |-> On, req |-> x.req])
          /\ x' = [x EXCEPT !.waiting = TRUE]
     ELSE x' = NextStep /\ UNCHANGED queue
  /\ UNCHANGED <<img, egl, frame, late, missed, spoilt>>

\* The drawables whose pixels may be wrong once q has been drawn.
SpoiltBy(q) ==
  spoilt \cup (IF q.d \in missed \/ ("s" \in DOMAIN q /\ q.s \in missed \cup spoilt)
              THEN {q.d} ELSE {})

DrawOnHeap ==
  /\ At({"draw"})
  /\ LET q == x.req
         src == IF "s" \in DOMAIN q THEN img[q.s].heap ELSE Pixel
         drawn == [img[q.d] EXCEPT !.heap = Painted(q, @, src), !.tex = @ \ q.r]
     IN  /\ img' = [img EXCEPT ![q.d] = ForceUpdate(drawn, q.r)]
         /\ spoilt' = SpoiltBy(q)
  /\ x' = NextStep
  /\ UNCHANGED <<egl, queue, frame, late, missed>>

\* GetImage copies the rectangle from the heap; MapWindow only sets the flag.
ReadOrStore ==
  /\ At({"read", "store"})
  /\ img' = IF Head(x.steps) = "store"
            THEN [img EXCEPT ![x.req.d] = SetOffscreenStorageOff(img[x.req.d])] ELSE img
  /\ x' = NextStep
  /\ UNCHANGED <<egl, queue, frame, late, missed, spoilt>>

\* The request q, made while the renderLock of d is held.
Inside(q, d) == [k \in DOMAIN q \cup {"inside"} |-> IF k = "inside" THEN d ELSE q[k]]

\* sendIdleNotify triggers the fence; if somebody waits for it, deferred
\* requests are pumped.
SendIdleNotify ==
  /\ At({"idle"})
  /\ \/ x' = NextStep
     \/ \E q \in Parked :
          x' = [x EXCEPT !.req = Inside(q, x.req.d), !.steps = <<"lock">> \o Steps(q)]
  /\ missed' = {}
  /\ UNCHANGED <<img, egl, queue, frame, late, spoilt>>

\* A pumped request blocks in lock(DRAWABLE_MANAGER) while a frame has it.
LockDrawables ==
  /\ At({"lock"})
  /\ TakesDrawables(x.req) => frame = {}
  /\ x' = NextStep
  /\ UNCHANGED <<img, egl, queue, frame, late, missed, spoilt>>

-----------------------------------------------------------------------------
(* The GL thread.  It runs queued tasks before it draws a frame.            *)

\* The GL thread is where only the thread that waits for it lets it go on.
Stalled ==
  /\ x.waiting
  /\ \/ \E w \in frame : HoldsRenderLock(w)
     \/ frame = {} /\ queue # <<>> /\ HoldsRenderLock(Head(queue).on)

\* Mutant: latch.await without a timeout.
TimeoutNever == FALSE

\* latch.await returns after five seconds, whatever the reason; they are bounded
\* to a GL thread that cannot go on and to Slow.  The task stays in the queue.
Timeout ==
  /\ x.waiting
  /\ Stalled \/ (x.req \in Slow /\ Len(queue) = 1)
  /\ x' = NextStep
  /\ late' = TRUE
  /\ UNCHANGED <<img, egl, queue, frame, missed, spoilt>>

Uploaded(q) ==
  [d \in Drawable |-> IF d = q.d \/ ("s" \in DOMAIN q /\ d = q.s)
                       THEN UpdateFromDrawable(img[d]) ELSE img[d]]

\* RenderComposite.fill, copy, composite and glyphs: upload what the CPU has
\* drawn on the drawables involved, draw, mark.  A task that runs after its
\* wait has ended draws over what was drawn since.
DrawOnTexture(q, live) ==
  LET up == Uploaded(q)
      src == IF "s" \in DOMAIN q THEN up[q.s].tex ELSE Pixel
      tex == IF live THEN Painted(q, up[q.d].tex, src) ELSE up[q.d].tex \ q.r
      drawn == [up[q.d] EXCEPT !.tex = tex, !.heap = @ \ q.r]
  IN  [up EXCEPT ![q.d] = MarkGpuPixelsCurrent(drawn, q.r)]

\* Without a framebuffer nothing is read; glReadPixels that fails may have
\* spoilt what it was to bring.  The rectangle stays dirty.
FailedDownload(i, r) == {i, [i EXCEPT !.heap = @ \ (i.gpuDirty \cap r)]}

\* A draw that fails has uploaded; a copy may have changed the texture, too.
FailedDraw(q) ==
  {[Uploaded(q) EXCEPT ![q.d].tex = @ \ lost] :
     lost \in IF q.op \in {"Copy", "Present"} THEN {{}, q.r} ELSE {{}}}

Drawn == [x EXCEPT !.steps = IF x.req.op = "Present" THEN <<"idle">> ELSE <<>>,
                  !.waiting = FALSE]

\* Mutant: a task that fails does not count the latch down.
AnswerSuccess(t, ok) ==
  IF ~ok THEN x
  ELSE IF t.do = "draw" THEN Drawn ELSE NextStep

\* The latch is counted down whether the task succeeds, refuses or throws; a
\* GPU draw that succeeds is all of the request's drawing.  What answers a
\* download is ignored: after one that fails the CPU code goes on all the same.
Answer(t, ok) == IF t.do = "draw" /\ ok THEN Drawn ELSE NextStep

RunTask ==
  /\ queue # <<>> /\ frame = {}
  /\ LET t == Head(queue)
         live == x.waiting /\ Len(queue) = 1
         rect == IF t.req.op = "Get" THEN t.req.r ELSE Pixel
     IN  /\ ~HoldsRenderLock(t.on)
         /\ \E ok \in {TRUE} \cup (IF GpuRefuses /\ t.do # "upload" THEN {FALSE} ELSE {}) :
              /\ CASE t.do = "download" ->
                        \E i \in IF ok THEN {DownloadGpuDirty(img[t.on], rect)}
                                ELSE FailedDownload(img[t.on], rect) :
                          img' = [img EXCEPT ![t.on] = i]
                   [] t.do = "upload" ->
                        img' = [img EXCEPT ![t.on] = UpdateFromDrawable(img[t.on])]
                   [] t.do = "draw" /\ ok -> img' = DrawOnTexture(t.req, live)
                   [] OTHER -> img' \in FailedDraw(t.req)
              /\ x' = IF live THEN Answer(t, ok) ELSE x
              /\ missed' = IF t.do = "download" /\ ~ok THEN missed \cup {t.on} ELSE missed
              /\ spoilt' = IF t.do = "draw" /\ ok THEN SpoiltBy(t.req) ELSE spoilt
  /\ queue' = Tail(queue)
  /\ UNCHANGED <<egl, frame, late>>

EglReady == ~egl /\ egl' = TRUE /\ UNCHANGED <<img, x, queue, frame, late, missed, spoilt>>

\* drawFrame gives up, and is scheduled again, when DRAWABLE_MANAGER is taken.
BeginFrame ==
  /\ egl /\ frame = {} /\ queue = <<>>
  /\ ~HoldsDrawables
  /\ frame' = Window
  /\ UNCHANGED <<img, egl, x, queue, late, missed, spoilt>>

RenderWindowDrawable(w) ==
  /\ w \in frame /\ ~HoldsRenderLock(w)
  /\ img' = [img EXCEPT ![w] = UpdateFromDrawable(img[w])]
  /\ frame' = frame \ {w}
  /\ UNCHANGED <<egl, x, queue, late, missed, spoilt>>

-----------------------------------------------------------------------------
Epoll == RunSync \/ DrawOnHeap \/ ReadOrStore \/ SendIdleNotify \/ LockDrawables \/ Timeout
GL == RunTask \/ \E w \in Window : RenderWindowDrawable(w)

Next ==
  \/ \E q \in Requests : StartRequest(q)
  \/ RunSync \/ DrawOnHeap \/ ReadOrStore \/ SendIdleNotify \/ LockDrawables \/ Timeout
  \/ RunTask \/ EglReady \/ BeginFrame
  \/ \E w \in Window : RenderWindowDrawable(w)

Spec == Init /\ [][Next]_vars
FairSpec == Spec /\ WF_vars(Epoll) /\ WF_vars(GL)

-----------------------------------------------------------------------------
(* Properties.  They speak of runs in which no wait has timed out: after a  *)
(* timeout the CPU has drawn and the abandoned task still will.  Nobody     *)
(* looks whether a download has succeeded; the CPU then draws on, copies and*)
(* hands out what the heap has, and the properties say what of that lasts:  *)
(* of the drawables only the spoilt ones are wrong, of the answers only     *)
(* those of the requests that missed a download.                            *)

\* Between requests each pixel of a drawable that is not spoilt is right in
\* the copy the rectangles say: in the texture inside gpuDirty, in the heap
\* outside it (Drawable.java:89, 114).  A hull covers pixels nobody drew,
\* PutImage draws on the heap over pixels it has not downloaded, a failed GPU
\* draw falls back to the CPU, and a failed download leaves gpuDirty.
NewerCopyIsRight ==
  ~late /\ Idle => \A d \in Drawable \ spoilt :
    img[d].gpuDirty \subseteq img[d].tex /\ Pixel \ img[d].gpuDirty \subseteq img[d].heap

\* GetImage returns what was drawn last, wherever that is: the part of the
\* rectangle it asked for has been downloaded, the rest was in the heap.  Only
\* if its own download fails does it not (Drawable.java:213), and then the
\* next GetImage does.
ReadsAreRight ==
  ~late /\ At({"read"}) /\ x.req.d \notin missed \cup spoilt => x.req.r \subseteq img[x.req.d].heap

\* A frame drawn now would show every drawable that is not spoilt as it was
\* drawn last: the dirty rectangle uploads every pixel the texture lacks, and
\* no stale byte of the heap over one that only the texture has.
FramesAreRight ==
  ~late /\ Idle => \A d \in Drawable \ spoilt : UpdateFromDrawable(img[d]).tex = Pixel

\* "Present samples the textures and tryLocks DRAWABLE_MANAGER so a download
\* cannot deadlock against vsync" (ARCHITECTURE.md:156-157): a frame, which
\* has DRAWABLE_MANAGER, never waits for a renderLock whose holder waits for
\* DRAWABLE_MANAGER.  Neither of these waits has a timeout.
NoLockCycle ==
  ~(At({"lock"}) /\ TakesDrawables(x.req) /\ \E w \in frame : HoldsRenderLock(w))

\* Every request is answered: its GPU work is done or refused, or the wait
\* for it times out, and the CPU code goes on.  As FramesEnd, this is for
\* what a fence wakes as long as it does without DRAWABLE_MANAGER.
RequestsEnd ==
  (\A q \in Parked : ~TakesDrawables(q)) => (~Idle ~> Idle)

\* Every frame that has been begun is drawn to its end as long as nothing
\* parked on the idle fence takes DRAWABLE_MANAGER: then all a frame waits for
\* is a renderLock, which its holder gives back after waits that a timeout
\* ends (XServer.java:148-152, ARCHITECTURE.md:156-157).  With such a request
\* a frame may wait for ever: see NoLockCycle.
FramesEnd ==
  (\A q \in Parked : ~TakesDrawables(q)) => (frame # {} ~> frame = {})

\* "a GPU write does not upload stale heap bytes back over the texture"
\* (ARCHITECTURE.md:151-152): a pixel that was right in the texture and no
\* longer is, is right in the heap.
NoStaleUpload ==
  [][~late' => \A d \in Drawable : img[d].tex \ img'[d].tex \subseteq img'[d].heap]_vars
=============================================================================

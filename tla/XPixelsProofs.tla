---------------------------- MODULE XPixelsProofs ----------------------------
(***************************************************************************)
(* Proofs about XPixels, for every set of drawables and windows, every      *)
(* width, and every set of requests but those InScope leaves out, whether   *)
(* the GPU refuses draws and downloads or not, and wherever frames come     *)
(* between the steps of a request.                                          *)
(*                                                                          *)
(* The invariant says what each step of a request leaves of the images to   *)
(* the next: a draw on the heap needs what it draws on downloaded before, a *)
(* PutImage is right again with its upload, and a GPU draw that fails has   *)
(* spoilt no pixel the CPU does not draw after it.  A frame, which may come *)
(* at any step, leaves all of it as it is.  So does a download that fails:  *)
(* only the request does not have what it wanted, and what it then draws on *)
(* is spoilt, and after it what is drawn from that; nothing is known of a   *)
(* spoilt drawable any more.                                                *)
(***************************************************************************)
EXTENDS XPixels, FiniteSetTheorems, SequenceTheorems, WellFoundedInduction, TLAPS

-----------------------------------------------------------------------------
(* The images.                                                              *)

Image == [heap : SUBSET Pixel, tex : SUBSET Pixel, dirty : SUBSET Pixel,
          gpuDirty : SUBSET Pixel, needsUpdate : BOOLEAN, allocated : BOOLEAN]

\* The pixels in L are wrong in both copies at worst.  Of the others the heap
\* has what is not in gpuDirty, and an upload would have the texture right.
Uploads(i, L) ==
  /\ i \in Image
  /\ Pixel \ i.gpuDirty \subseteq i.heap \cup L
  /\ i.gpuDirty # {} => i.allocated
  /\ i.allocated => /\ i.needsUpdate <=> i.dirty # {}
                    /\ i.dirty \subseteq i.heap \cup L /\ Pixel \ i.dirty \subseteq i.tex \cup L

\* The texture has what is in gpuDirty, and the copies do not both lack pixels
\* of the other one.
RightBut(i, L) ==
  /\ Uploads(i, L)
  /\ i.gpuDirty \subseteq i.tex \cup L
  /\ i.dirty # {} => i.gpuDirty = {}

Right(i) == RightBut(i, {})

\* What a GPU draw that fails may have spoilt.
Lost(q) == IF GpuRefuses /\ q.op \in {"Copy", "Present"} THEN q.r ELSE {}

-----------------------------------------------------------------------------
(* The request in progress.                                                 *)

\* What the properties are proved for: MapWindow is left out, which spoils
\* them, and, where the GPU may fail, a copy within one drawable, whose source
\* the failed draw may have changed.
InScope(q) ==
  /\ q.op # "Map"
  /\ GpuRefuses /\ q.op \in {"Copy", "Present"} => q.s # q.d

Formed(q) ==
  /\ q.op \in {"Fill", "Copy", "Present", "Over", "Line", "Put", "Get"}
  /\ q.d \in Drawable /\ q.r \subseteq Pixel /\ q.r # {}
  /\ "s" \in DOMAIN q <=> q.op \in {"Copy", "Present", "Over"}
  /\ "s" \in DOMAIN q => q.s \in Drawable
  /\ q.op = "Put" => Hull(q.r) = q.r
  /\ GpuRefuses /\ q.op \in {"Copy", "Present"} => q.s # q.d

\* The steps a request may have left, the first of them first.
Lefts(op) ==
  CASE op = "Fill" -> {<<"try", "ensure", "draw">>, <<"ensure", "draw">>, <<"draw">>}
    [] op = "Copy" -> {<<"try", "ensure", "ensureSource", "draw">>,
                       <<"ensure", "ensureSource", "draw">>, <<"ensureSource", "draw">>, <<"draw">>}
    [] op = "Present" -> {<<"try", "ensure", "ensureSource", "draw", "idle">>,
                          <<"ensure", "ensureSource", "draw", "idle">>,
                          <<"ensureSource", "draw", "idle">>, <<"draw", "idle">>, <<"idle">>}
    [] op = "Over" -> {<<"try", "ensureSource", "ensure", "draw">>,
                       <<"ensureSource", "ensure", "draw">>, <<"ensure", "draw">>, <<"draw">>}
    [] op = "Line" -> {<<"ensure", "draw">>, <<"draw">>}
    [] op = "Put" -> {<<"draw", "upload">>, <<"upload">>}
    [] op = "Get" -> {<<"ensure", "read">>, <<"read">>}

\* The drawables that have been downloaded when step h is reached.
Ensured(q, h) ==
  CASE h = "draw" /\ q.op \in {"Copy", "Present", "Over"} -> {q.d, q.s}
    [] h = "draw" /\ q.op \in {"Fill", "Line"} -> {q.d}
    [] h = "ensureSource" /\ q.op \in {"Copy", "Present"} -> {q.d}
    [] h = "ensure" /\ q.op = "Over" -> {q.s}
    [] OTHER -> {}

\* What a request has after step h; "end" when it is done.
After(op, h) ==
  CASE h = "lock" -> IF op = "Put" THEN "draw" ELSE IF op \in {"Line", "Get"} THEN "ensure" ELSE "try"
    [] h = "try" -> IF op = "Over" THEN "ensureSource" ELSE "ensure"
    [] h = "ensure" -> IF op \in {"Copy", "Present"} THEN "ensureSource"
                       ELSE IF op = "Get" THEN "read" ELSE "draw"
    [] h = "ensureSource" -> IF op = "Over" THEN "ensure" ELSE "draw"
    [] h = "draw" -> IF op = "Put" THEN "upload" ELSE IF op = "Present" THEN "idle" ELSE "end"
    [] OTHER -> "end"

\* The image of the drawable of q when q comes to step h.
Target(q, h, i) ==
  /\ h \in {"lock", "try", "idle"} => Right(i)
  /\ h = "upload" => Uploads(i, {})
  /\ h # "upload" => RightBut(i, Lost(q))
  /\ h = "read" /\ q.d \notin missed => q.r \subseteq i.heap

\* The images when the request q comes to step h.
Images(q, h) ==
  /\ \A e \in Drawable \ ({q.d} \cup spoilt) : Right(img[e])
  /\ \A e \in Ensured(q, h) \ (missed \cup spoilt) : img[e].gpuDirty = {}
  /\ q.d \notin spoilt => Target(q, h, img[q.d])

Step == Head(x.steps)

\* The GL thread has the task the epoll thread waits for, and no other.
QueueInv ==
  IF x.waiting
  THEN /\ egl /\ Wanted # "nothing" /\ Step \in {"try", "ensure", "ensureSource", "upload"}
       /\ queue = <<[do |-> Wanted, on |-> On, req |-> x.req]>>
  ELSE queue = <<>>

\* A request that was woken by another one first waits for its locks.
StepsInv ==
  \/ x.steps \in Lefts(x.req.op)
  \/ x.steps # <<>> /\ Step = "lock" /\ Tail(x.steps) = Steps(x.req)

BusyInv == Formed(x.req) /\ StepsInv /\ Images(x.req, Step) /\ QueueInv

IdleInv == ~x.waiting /\ queue = <<>> /\ \A d \in Drawable \ spoilt : Right(img[d])

Core ==
  /\ DOMAIN img = Drawable
  /\ x = [req |-> x.req, steps |-> x.steps, waiting |-> x.waiting] /\ x.waiting \in BOOLEAN
  /\ \A d \in Drawable : img[d] \in Image /\ (img[d].gpuDirty # {} => egl)
  /\ IF Idle THEN IdleInv ELSE BusyInv

\* As long as no wait has timed out.
Inv == ~late => Core

-----------------------------------------------------------------------------
(* Hulls.                                                                   *)

\* A set of numbers from 0 to n that is not empty has a first and a last one.
LEMMA FirstAndLast ==
  ASSUME NEW n \in Nat, NEW F, F \subseteq 0 .. n, F # {}
  PROVE  /\ \E m \in F : \A k \in F : m <= k
         /\ \E m \in F : \A k \in F : k <= m
  <1>1. \A k \in F : /\ k \in Nat /\ k <= n
                    /\ IsFiniteSet(0 .. k) /\ 0 .. k \subseteq Nat
                    /\ IsFiniteSet(k .. n) /\ k .. n \subseteq Nat
    <2> SUFFICES ASSUME NEW k \in F
                 PROVE  /\ k \in Nat /\ k <= n
                        /\ IsFiniteSet(0 .. k) /\ 0 .. k \subseteq Nat
                        /\ IsFiniteSet(k .. n) /\ k .. n \subseteq Nat
      OBVIOUS
    <2>1. k \in Nat /\ k <= n
      OBVIOUS
    <2>2. IsFiniteSet(0 .. k) /\ IsFiniteSet(k .. n)
      BY <2>1, FS_Interval
    <2> QED
      BY <2>1, <2>2
  <1>2. IsWellFoundedOn(StrictSubsetOrdering(Nat), FiniteSubsetsOf(Nat))
    BY FS_StrictSubsetOrderingWellFounded, Zenon
  <1>3. \E m \in F : \A k \in F : m <= k
    <2> DEFINE U == {0 .. k : k \in F}
    <2>1. U # {} /\ U \subseteq FiniteSubsetsOf(Nat)
      BY <1>1 DEF FiniteSubsetsOf
    <2>2. \E T \in U : \A W \in U : ~(<<W, T>> \in StrictSubsetOrdering(Nat))
      <3> HIDE DEF U
      <3> QED
        BY <1>2, <2>1, WFMin
    <2>3. PICK m \in F : \A k \in F : ~(<<0 .. k, 0 .. m>> \in StrictSubsetOrdering(Nat))
      BY <2>2
    <2>4. ASSUME NEW k \in F, k < m
          PROVE  FALSE
      <3>1. /\ 0 .. k \subseteq 0 .. m /\ 0 .. k # 0 .. m
            /\ 0 .. k \in SUBSET Nat /\ 0 .. m \in SUBSET Nat
        BY <1>1, <2>4
      <3> QED
        BY <2>3, <3>1 DEF StrictSubsetOrdering
    <2> QED
      BY <2>4
  <1>4. \E m \in F : \A k \in F : k <= m
    <2> DEFINE U == {k .. n : k \in F}
    <2>1. U # {} /\ U \subseteq FiniteSubsetsOf(Nat)
      BY <1>1 DEF FiniteSubsetsOf
    <2>2. \E T \in U : \A W \in U : ~(<<W, T>> \in StrictSubsetOrdering(Nat))
      <3> HIDE DEF U
      <3> QED
        BY <1>2, <2>1, WFMin
    <2>3. PICK m \in F : \A k \in F : ~(<<k .. n, m .. n>> \in StrictSubsetOrdering(Nat))
      BY <2>2
    <2>4. ASSUME NEW k \in F, m < k
          PROVE  FALSE
      <3>1. /\ k .. n \subseteq m .. n /\ k .. n # m .. n
            /\ k .. n \in SUBSET Nat /\ m .. n \in SUBSET Nat
        BY <1>1, <2>4
      <3> QED
        BY <2>3, <3>1 DEF StrictSubsetOrdering
    <2> QED
      BY <2>4
  <1> QED
    BY <1>3, <1>4

LEMMA HullShape ==
  ASSUME NEW s \in SUBSET Pixel
  PROVE  s \subseteq Hull(s) /\ Hull(s) \subseteq Pixel
  <1>1. CASE s = {}
    BY <1>1 DEF Hull
  <1>2. CASE s # {}
    <2>1. Width - 1 \in Nat /\ s \subseteq 0 .. Width - 1
      BY PixelsAssumption DEF Pixel
    <2>2. /\ \E m \in s : \A k \in s : m <= k
          /\ \E m \in s : \A k \in s : k <= m
      BY <1>2, <2>1, FirstAndLast
    <2>3. Min(s) \in s /\ \A k \in s : Min(s) <= k
      BY <2>2 DEF Min
    <2>4. Max(s) \in s /\ \A k \in s : k <= Max(s)
      <3>1. \E m \in s : \A k \in s : m >= k
        BY <2>1, <2>2
      <3>2. Max(s) \in s /\ \A k \in s : Max(s) >= k
        BY <3>1 DEF Max
      <3> QED
        BY <2>1, <3>2
    <2>5. Hull(s) = Min(s) .. Max(s)
      BY <1>2 DEF Hull
    <2>6. PICK a, b : a = Min(s) /\ b = Max(s)
      OBVIOUS
    <2>7. /\ a \in s /\ b \in s /\ (\A k \in s : a <= k /\ k <= b)
          /\ Hull(s) = a .. b
      BY <2>3, <2>4, <2>5, <2>6
    <2> QED
      BY <2>1, <2>7 DEF Pixel
  <1> QED
    BY <1>1, <1>2

-----------------------------------------------------------------------------
(* What the operations do to an image.                                      *)

\* An upload rights the texture, and leaves the heap and gpuDirty alone.
LEMMA UpdateShape ==
  ASSUME NEW i, NEW L \in SUBSET Pixel, Uploads(i, L)
  PROVE  /\ Uploads(UpdateFromDrawable(i), L)
         /\ RightBut(i, L) => RightBut(UpdateFromDrawable(i), L)
         /\ L = {} => Right(UpdateFromDrawable(i)) /\ UpdateFromDrawable(i).tex = Pixel
         /\ UpdateFromDrawable(i).gpuDirty = i.gpuDirty
         /\ UpdateFromDrawable(i).heap = i.heap
         /\ UpdateFromDrawable(i).allocated /\ ~UpdateFromDrawable(i).needsUpdate
         /\ UpdateFromDrawable(i).dirty = {}
  <1> DEFINE rect == IF i.allocated /\ i.dirty # {} THEN i.dirty ELSE Pixel
             tex == (i.tex \ rect) \cup (i.heap \cap rect)
             u == UpdateFromDrawable(i)
  <1>1. i \in Image
    BY DEF Uploads
  <1>2. CASE i.allocated /\ ~i.needsUpdate
    <2>1. u = i
      BY <1>2 DEF UpdateFromDrawable
    <2> QED
      BY <1>1, <1>2, <2>1 DEF Uploads, RightBut, Right, Image
  <1>3. CASE ~(i.allocated /\ ~i.needsUpdate)
    <2>1. u = [i EXCEPT !.tex = tex, !.dirty = {}, !.needsUpdate = FALSE, !.allocated = TRUE]
      BY <1>3 DEF UpdateFromDrawable
    <2>2. tex \subseteq Pixel /\ tex \cup L = Pixel
      BY <1>1, <1>3 DEF Uploads, Image
    <2> HIDE DEF tex
    <2>3. /\ u \in Image /\ u.tex = tex /\ u.dirty = {} /\ ~u.needsUpdate /\ u.allocated
          /\ u.heap = i.heap /\ u.gpuDirty = i.gpuDirty
      BY <1>1, <2>1, <2>2 DEF Image
    <2> HIDE DEF u
    <2> QED
      BY <1>1, <2>2, <2>3 DEF Uploads, RightBut, Right, Image, u
  <1> QED
    BY <1>2, <1>3

\* What an upload leaves of any image.
LEMMA UpdateType ==
  ASSUME NEW i \in Image
  PROVE  /\ UpdateFromDrawable(i) \in Image
         /\ UpdateFromDrawable(i).gpuDirty = i.gpuDirty /\ UpdateFromDrawable(i).heap = i.heap
  <1> DEFINE rect == IF i.allocated /\ i.dirty # {} THEN i.dirty ELSE Pixel
             tex == (i.tex \ rect) \cup (i.heap \cap rect)
             u == UpdateFromDrawable(i)
  <1>1. CASE i.allocated /\ ~i.needsUpdate
    BY <1>1 DEF UpdateFromDrawable
  <1>2. CASE ~(i.allocated /\ ~i.needsUpdate)
    <2>1. u = [i EXCEPT !.tex = tex, !.dirty = {}, !.needsUpdate = FALSE, !.allocated = TRUE]
      BY <1>2 DEF UpdateFromDrawable
    <2>2. tex \subseteq Pixel
      BY DEF Image
    <2> HIDE DEF tex
    <2> QED
      BY <2>1, <2>2 DEF Image
  <1> QED
    BY <1>1, <1>2

\* What a download leaves of any image.
LEMMA DownloadType ==
  ASSUME NEW i \in Image, NEW r \in SUBSET Pixel
  PROVE  /\ DownloadGpuDirty(i, r) \in Image
         /\ DownloadGpuDirty(i, r).gpuDirty \subseteq i.gpuDirty
  <1> DEFINE got == i.gpuDirty \cap r
             heap == (i.heap \ got) \cup (i.tex \cap got)
             rest == IF got = i.gpuDirty THEN {} ELSE i.gpuDirty
  <1>1. CASE got = {}
    BY <1>1 DEF DownloadGpuDirty
  <1>2. CASE got # {}
    <2>1. DownloadGpuDirty(i, r) = [i EXCEPT !.heap = heap, !.gpuDirty = rest]
      BY <1>2 DEF DownloadGpuDirty
    <2>2. heap \subseteq Pixel /\ rest \subseteq i.gpuDirty
      BY DEF Image
    <2> HIDE DEF heap, rest
    <2> QED
      BY <2>1, <2>2 DEF Image
  <1> QED
    BY <1>1, <1>2

\* A download that fails loses nothing the texture does not have.
LEMMA FailedDownloadShape ==
  ASSUME NEW i \in Image, NEW r, NEW j \in FailedDownload(i, r)
  PROVE  /\ j \in Image /\ j.gpuDirty = i.gpuDirty
         /\ \A L \in SUBSET Pixel : RightBut(i, L) => RightBut(j, L)
  <1>1. CASE j = i
    BY <1>1
  <1>2. CASE j = [i EXCEPT !.heap = @ \ (i.gpuDirty \cap r)]
    <2>1. /\ j \in Image /\ j.heap = i.heap \ (i.gpuDirty \cap r) /\ j.gpuDirty = i.gpuDirty
          /\ j.tex = i.tex /\ j.dirty = i.dirty /\ j.needsUpdate = i.needsUpdate
          /\ j.allocated = i.allocated
      BY <1>2 DEF Image
    <2>2. \A L \in SUBSET Pixel : RightBut(i, L) => RightBut(j, L)
      BY <2>1 DEF RightBut, Uploads
    <2> QED
      BY <2>1, <2>2
  <1> QED
    BY <1>1, <1>2 DEF FailedDownload

\* A download brings to the heap what the rectangle has of gpuDirty.
LEMMA DownloadShape ==
  ASSUME NEW i, NEW L \in SUBSET Pixel, RightBut(i, L), NEW r \in SUBSET Pixel
  PROVE  /\ RightBut(DownloadGpuDirty(i, r), L)
         /\ DownloadGpuDirty(i, r).gpuDirty \subseteq i.gpuDirty
         /\ r \subseteq DownloadGpuDirty(i, r).heap \cup L
         /\ r = Pixel => DownloadGpuDirty(i, r).gpuDirty = {}
  <1> DEFINE got == i.gpuDirty \cap r
             heap == (i.heap \ got) \cup (i.tex \cap got)
             rest == IF got = i.gpuDirty THEN {} ELSE i.gpuDirty
             u == DownloadGpuDirty(i, r)
  <1>1. i \in Image
    BY DEF RightBut, Uploads
  <1>2. CASE got = {}
    <2>1. u = i
      BY <1>2 DEF DownloadGpuDirty
    <2> QED
      BY <1>1, <1>2, <2>1 DEF Uploads, RightBut, Image
  <1>3. CASE got # {}
    <2>1. u = [i EXCEPT !.heap = heap, !.gpuDirty = rest]
      BY <1>3 DEF DownloadGpuDirty
    <2>2. /\ heap \subseteq Pixel /\ Pixel \ rest \subseteq heap \cup L /\ r \subseteq heap \cup L
          /\ i.dirty = {} /\ i.allocated
      BY <1>1, <1>3 DEF Uploads, RightBut, Image
    <2>3. rest \subseteq i.gpuDirty /\ (r = Pixel => rest = {})
      BY <1>1 DEF Image
    <2> HIDE DEF heap, rest
    <2>4. /\ u \in Image /\ u.heap = heap /\ u.gpuDirty = rest /\ u.tex = i.tex
          /\ u.dirty = i.dirty /\ u.needsUpdate = i.needsUpdate /\ u.allocated = i.allocated
      BY <1>1, <2>1, <2>2, <2>3 DEF Image
    <2> HIDE DEF u
    <2>5. RightBut(u, L)
      BY <2>2, <2>3, <2>4 DEF Uploads, RightBut
    <2> QED
      BY <2>2, <2>3, <2>4, <2>5 DEF u
  <1> QED
    BY <1>2, <1>3

\* A CPU draw of q, after which the heap has the pixels in heap.
OnHeap(i, q, heap) == ForceUpdate([i EXCEPT !.heap = heap, !.tex = @ \ q.r], q.r)

LEMMA OnHeapShape ==
  ASSUME NEW i \in Image, NEW q, q.r \subseteq Pixel, NEW heap \in SUBSET Pixel,
         NEW u, u = OnHeap(i, q, heap)
  PROVE  /\ u \in Image /\ u.heap = heap /\ u.tex = i.tex \ q.r
         /\ u.dirty = Hull(i.dirty \cup q.r) /\ u.needsUpdate
         /\ u.gpuDirty = i.gpuDirty /\ u.allocated = i.allocated
  <1>1. PICK v : v = [i EXCEPT !.heap = heap, !.tex = @ \ q.r]
    OBVIOUS
  <1>2. /\ v \in Image /\ v.heap = heap /\ v.tex = i.tex \ q.r /\ v.dirty = i.dirty
        /\ v.gpuDirty = i.gpuDirty /\ v.allocated = i.allocated
    BY <1>1 DEF Image
  <1>3. Hull(i.dirty \cup q.r) \subseteq Pixel
    BY HullShape DEF Image
  <1>4. PICK hull : hull = Hull(i.dirty \cup q.r)
    OBVIOUS
  <1>5. u = [v EXCEPT !.dirty = hull, !.needsUpdate = TRUE]
    BY <1>1, <1>2, <1>4 DEF OnHeap, ForceUpdate
  <1> QED
    BY <1>2, <1>3, <1>4, <1>5 DEF Image

\* On a heap that has everything, also what the draw has put there.
LEMMA DrawShape ==
  ASSUME NEW i, NEW q, q.r \subseteq Pixel, q.r # {}, NEW L \in SUBSET q.r,
         RightBut(i, L), i.gpuDirty = {}
  PROVE  Right(OnHeap(i, q, Pixel)) /\ OnHeap(i, q, Pixel).gpuDirty = {}
  <1>1. i \in Image
    BY DEF RightBut, Uploads
  <1>2. i.dirty \cup q.r \subseteq Hull(i.dirty \cup q.r) /\ Hull(i.dirty \cup q.r) # {}
    BY <1>1, HullShape DEF Image
  <1>3. PICK u, h : u = OnHeap(i, q, h) /\ h = Pixel
    OBVIOUS
  <1>4. /\ u \in Image /\ u.heap = Pixel /\ u.tex = i.tex \ q.r
        /\ u.dirty = Hull(i.dirty \cup q.r) /\ u.needsUpdate /\ u.gpuDirty = {}
        /\ u.allocated = i.allocated
    <2>1. h \in SUBSET Pixel
      BY <1>3
    <2>2. /\ u \in Image /\ u.heap = h /\ u.tex = i.tex \ q.r
          /\ u.dirty = Hull(i.dirty \cup q.r) /\ u.needsUpdate /\ u.gpuDirty = i.gpuDirty
          /\ u.allocated = i.allocated
      BY <1>1, <1>3, <2>1, OnHeapShape, SMTT(30)
    <2> QED
      BY <1>3, <2>2
  <1>5. Right(u)
    BY <1>2, <1>4 DEF Right, RightBut, Uploads, Image
  <1> QED
    BY <1>3, <1>4, <1>5

\* PutImage draws one rectangle: the hull has no pixel nobody downloaded.
LEMMA PutShape ==
  ASSUME NEW i, Right(i), NEW q, q.r \subseteq Pixel, q.r # {}
  PROVE  /\ Hull(q.r) = q.r => Uploads(OnHeap(i, q, i.heap \cup q.r), {})
         /\ OnHeap(i, q, i.heap \cup q.r).gpuDirty = i.gpuDirty
  <1>1. i \in Image
    BY DEF Right, RightBut, Uploads
  <1>2. i.dirty \cup q.r \subseteq Hull(i.dirty \cup q.r) /\ Hull(i.dirty \cup q.r) # {}
    BY <1>1, HullShape DEF Image
  <1>3. PICK u, h : u = OnHeap(i, q, h) /\ h = i.heap \cup q.r
    OBVIOUS
  <1>4. /\ u \in Image /\ u.heap = i.heap \cup q.r /\ u.tex = i.tex \ q.r
        /\ u.dirty = Hull(i.dirty \cup q.r) /\ u.needsUpdate /\ u.gpuDirty = i.gpuDirty
        /\ u.allocated = i.allocated
    <2>1. h \in SUBSET Pixel
      BY <1>1, <1>3 DEF Image
    <2>2. /\ u \in Image /\ u.heap = h /\ u.tex = i.tex \ q.r
          /\ u.dirty = Hull(i.dirty \cup q.r) /\ u.needsUpdate /\ u.gpuDirty = i.gpuDirty
          /\ u.allocated = i.allocated
      BY <1>1, <1>3, <2>1, OnHeapShape
    <2> QED
      BY <1>3, <2>2
  <1>5. Hull(q.r) = q.r => u.dirty \subseteq u.heap
    <2>1. CASE i.dirty = {}
      BY <1>4, <2>1
    <2>2. CASE i.dirty # {}
      BY <1>4, <2>2 DEF Right, RightBut, Uploads, Image
    <2> QED
      BY <2>1, <2>2
  <1>6. Hull(q.r) = q.r => Uploads(u, {})
    BY <1>2, <1>4, <1>5 DEF Right, RightBut, Uploads, Image
  <1> QED
    BY <1>3, <1>4, <1>6

-----------------------------------------------------------------------------
(* GPU draws, of a request for which every image is right.                  *)

LEMMA Monotone ==
  ASSUME NEW i, NEW L \in SUBSET Pixel, Right(i)
  PROVE  RightBut(i, L)
  BY DEF Right, RightBut, Uploads, Image

LEMMA PaintedType ==
  ASSUME NEW q, q.r \subseteq Pixel, NEW dst \in SUBSET Pixel, NEW src \in SUBSET Pixel
  PROVE  Painted(q, dst, src) \in SUBSET Pixel
  <1>1. CASE q.op \in {"Copy", "Present"}
    BY <1>1 DEF Painted
  <1>2. CASE q.op = "Over"
    BY <1>2 DEF Painted
  <1>3. CASE q.op \notin {"Copy", "Present", "Over"}
    BY <1>3 DEF Painted
  <1> QED
    BY <1>1, <1>2, <1>3

\* All of what is drawn on is right, and so is what is drawn.
LEMMA PaintedShape ==
  ASSUME NEW q, Formed(q), NEW dst \in SUBSET Pixel, NEW src \in SUBSET Pixel, NEW L \in SUBSET q.r,
         dst \cup L = Pixel, src = Pixel, q.op \notin {"Copy", "Present"} => L = {}
  PROVE  Painted(q, dst, src) = Pixel
  <1>1. CASE q.op \in {"Copy", "Present"}
    BY <1>1 DEF Painted, Formed
  <1>2. CASE q.op = "Over"
    BY <1>2 DEF Painted, Formed
  <1>3. CASE q.op \notin {"Copy", "Present", "Over"}
    BY <1>3 DEF Painted, Formed
  <1> QED
    BY <1>1, <1>2, <1>3

\* Every drawable has an image.
Typed == \A e \in Drawable : img[e] \in Image

\* What the upload before a GPU draw leaves.
UploadedOf(q, up) ==
  /\ up = [e \in Drawable |-> up[e]]
  /\ \A e \in Drawable :
        /\ up[e] \in Image /\ up[e].gpuDirty = img[e].gpuDirty
        /\ Right(img[e]) => Right(up[e])
        /\ Right(img[e]) /\ (e = q.d \/ ("s" \in DOMAIN q /\ e = q.s)) =>
             /\ up[e].tex = Pixel /\ up[e].dirty = {}
             /\ up[e].allocated /\ ~up[e].needsUpdate

LEMMA UploadedShape ==
  ASSUME NEW q, Typed, NEW up, up = Uploaded(q)
  PROVE  UploadedOf(q, up)
  <1>1. up = [e \in Drawable |-> up[e]]
    BY DEF Uploaded
  <1>2. ASSUME NEW e \in Drawable
        PROVE  /\ up[e] \in Image /\ up[e].gpuDirty = img[e].gpuDirty
               /\ Right(img[e]) => Right(up[e])
               /\ Right(img[e]) /\ (e = q.d \/ ("s" \in DOMAIN q /\ e = q.s)) =>
                    /\ up[e].tex = Pixel /\ up[e].dirty = {}
                    /\ up[e].allocated /\ ~up[e].needsUpdate
    <2>1. CASE e = q.d \/ ("s" \in DOMAIN q /\ e = q.s)
      <3>1. up[e] = UpdateFromDrawable(img[e])
        BY <2>1 DEF Uploaded
      <3>2. up[e] \in Image /\ up[e].gpuDirty = img[e].gpuDirty
        BY <3>1, UpdateType DEF Typed
      <3>3. ASSUME Right(img[e])
            PROVE  /\ Right(up[e]) /\ up[e].tex = Pixel /\ up[e].dirty = {}
                   /\ up[e].allocated /\ ~up[e].needsUpdate
        <4>1. Uploads(img[e], {})
          BY <3>3 DEF Right, RightBut
        <4> QED
          BY <3>1, <4>1, UpdateShape
      <3> QED
        BY <3>2, <3>3
    <2>2. CASE ~(e = q.d \/ ("s" \in DOMAIN q /\ e = q.s))
      BY <2>2 DEF Uploaded, Typed
    <2> QED
      BY <2>1, <2>2
  <1> QED
    BY <1>1, <1>2 DEF UploadedOf

LEMMA DrawOnTextureShape ==
  ASSUME NEW q, Formed(q), Typed, NEW g, g = DrawOnTexture(q, TRUE)
  PROVE  /\ DOMAIN g = Drawable
         /\ \A e \in Drawable : g[e] \in Image
         /\ \A e \in Drawable \ {q.d} : Right(img[e]) => Right(g[e])
         /\ Right(img[q.d]) /\ ("s" \in DOMAIN q => Right(img[q.s])) => Right(g[q.d])
  <1>1. PICK up : up = Uploaded(q)
    OBVIOUS
  <1>2. /\ up = [e \in Drawable |-> up[e]]
        /\ \A e \in Drawable :
              /\ up[e] \in Image /\ up[e].gpuDirty = img[e].gpuDirty
              /\ Right(img[e]) => Right(up[e])
              /\ Right(img[e]) /\ (e = q.d \/ ("s" \in DOMAIN q /\ e = q.s)) =>
                   /\ up[e].tex = Pixel /\ up[e].dirty = {}
                   /\ up[e].allocated /\ ~up[e].needsUpdate
    <2>1. UploadedOf(q, up)
      BY <1>1, UploadedShape
    <2> QED
      BY <2>1 DEF UploadedOf
  <1> DEFINE src == IF "s" \in DOMAIN q THEN up[q.s].tex ELSE Pixel
             d == q.d
             fine == Right(img[d]) /\ ("s" \in DOMAIN q => Right(img[q.s]))
  <1>3. /\ d \in Drawable /\ q.r \subseteq Pixel /\ q.r # {}
        /\ "s" \in DOMAIN q => q.s \in Drawable
    BY DEF Formed
  <1>4. up[d] \in Image /\ src \in SUBSET Pixel /\ (fine => src = Pixel /\ up[d].tex = Pixel)
    BY <1>2, <1>3 DEF Image
  <1>5. PICK t : t = Painted(q, up[d].tex, src)
    OBVIOUS
  <1>6. t \in SUBSET Pixel /\ (fine => t = Pixel)
    <2>1. PICK dst, sr : dst = up[d].tex /\ sr = src
      OBVIOUS
    <2>2. dst \in SUBSET Pixel /\ sr \in SUBSET Pixel /\ t = Painted(q, dst, sr)
      BY <1>4, <1>5, <2>1 DEF Image
    <2>3. t \in SUBSET Pixel
      BY <1>3, <2>2, PaintedType
    <2>4. ASSUME fine
          PROVE  t = Pixel
      <3>1. /\ dst \in SUBSET Pixel /\ sr \in SUBSET Pixel /\ dst = Pixel /\ sr = Pixel
            /\ {} \in SUBSET q.r /\ dst \cup {} = Pixel
        BY <1>4, <2>1, <2>2, <2>4
      <3> QED
        BY <2>2, <3>1, PaintedShape
    <2> QED
      BY <2>3, <2>4
  <1>7. PICK v : v = [up[d] EXCEPT !.tex = t, !.heap = @ \ q.r]
    OBVIOUS
  <1>8. /\ v \in Image /\ v.tex = t /\ v.heap = up[d].heap \ q.r /\ v.dirty = up[d].dirty
        /\ v.gpuDirty = up[d].gpuDirty /\ v.allocated = up[d].allocated
    BY <1>4, <1>6, <1>7 DEF Image
  <1>9. PICK m : m = MarkGpuPixelsCurrent(v, q.r)
    OBVIOUS
  <1>10. /\ m \in Image /\ m.tex = t /\ m.heap = up[d].heap \ q.r /\ m.dirty = up[d].dirty
         /\ m.gpuDirty = Hull(up[d].gpuDirty \cup q.r) /\ m.allocated = up[d].allocated
         /\ ~m.needsUpdate
    <2>1. PICK hull : hull = Hull(v.gpuDirty \cup q.r)
      OBVIOUS
    <2>2. hull \subseteq Pixel
      BY <1>3, <1>8, <2>1, HullShape DEF Image
    <2>3. m = [v EXCEPT !.gpuDirty = hull, !.needsUpdate = FALSE]
      BY <1>9, <2>1 DEF MarkGpuPixelsCurrent
    <2> QED
      BY <1>8, <2>1, <2>2, <2>3 DEF Image
  <1>11. g = [up EXCEPT ![d] = m]
    <2>1. DrawOnTexture(q, TRUE) =
            [up EXCEPT ![d] = MarkGpuPixelsCurrent(
               [up[d] EXCEPT !.tex = Painted(q, up[d].tex, src), !.heap = @ \ q.r], q.r)]
      BY <1>1, <1>2, <1>3 DEF DrawOnTexture
    <2> QED
      BY <1>5, <1>7, <1>9, <2>1
  <1>12. fine => Right(m)
    <2>1. SUFFICES ASSUME fine
                   PROVE  Right(m)
      OBVIOUS
    <2>2. up[d].gpuDirty \cup q.r \subseteq Hull(up[d].gpuDirty \cup q.r)
      BY <1>3, <1>4, HullShape DEF Image
    <2>3. /\ Pixel \ up[d].gpuDirty \subseteq up[d].heap
          /\ up[d].dirty = {} /\ up[d].allocated /\ t = Pixel
      BY <1>2, <1>3, <1>6, <2>1 DEF Right, RightBut, Uploads
    <2>4. /\ m.tex = Pixel /\ m.dirty = {} /\ m.allocated /\ ~m.needsUpdate /\ m \in Image
          /\ Pixel \ m.gpuDirty \subseteq m.heap
      BY <1>10, <2>2, <2>3
    <2> HIDE DEF fine
    <2> QED
      BY <2>4 DEF Right, RightBut, Uploads, Image
  <1> HIDE DEF d
  <1>13. DOMAIN g = Drawable /\ \A e \in Drawable : g[e] = IF e = d THEN m ELSE up[e]
    BY <1>2, <1>11
  <1> QED
    BY <1>2, <1>3, <1>10, <1>12, <1>13 DEF d

LEMMA FailedDrawShape ==
  ASSUME NEW q, Formed(q), Typed, GpuRefuses, NEW g \in FailedDraw(q)
  PROVE  /\ DOMAIN g = Drawable
         /\ \A e \in Drawable : g[e] \in Image /\ g[e].gpuDirty = img[e].gpuDirty
         /\ \A e \in Drawable \ {q.d} : Right(img[e]) => Right(g[e])
         /\ Right(img[q.d]) => RightBut(g[q.d], Lost(q))
  <1>1. PICK up : up = Uploaded(q)
    OBVIOUS
  <1>2. /\ up = [e \in Drawable |-> up[e]]
        /\ \A e \in Drawable :
              /\ up[e] \in Image /\ up[e].gpuDirty = img[e].gpuDirty
              /\ Right(img[e]) => Right(up[e])
              /\ Right(img[e]) /\ (e = q.d \/ ("s" \in DOMAIN q /\ e = q.s)) =>
                   /\ up[e].tex = Pixel /\ up[e].dirty = {}
                   /\ up[e].allocated /\ ~up[e].needsUpdate
    <2>1. UploadedOf(q, up)
      BY <1>1, UploadedShape
    <2> QED
      BY <2>1 DEF UploadedOf
  <1> DEFINE d == q.d
  <1>3. d \in Drawable /\ q.r \subseteq Pixel /\ Lost(q) \subseteq q.r
    BY DEF Formed, Lost
  <1>4. PICK lost \in SUBSET Lost(q) : g = [up EXCEPT ![d].tex = @ \ lost]
    BY <1>1 DEF FailedDraw, Lost
  <1> HIDE DEF d
  <1>5. PICK v : v = [up[d] EXCEPT !.tex = @ \ lost]
    OBVIOUS
  <1>6. up[d] \in Image
    BY <1>2, <1>3
  <1>7. /\ v \in Image /\ v.tex = up[d].tex \ lost /\ v.heap = up[d].heap /\ v.dirty = up[d].dirty
        /\ v.gpuDirty = up[d].gpuDirty /\ v.allocated = up[d].allocated
        /\ v.needsUpdate = up[d].needsUpdate
    BY <1>5, <1>6 DEF Image
  <1>8. DOMAIN g = Drawable /\ \A e \in Drawable : g[e] = IF e = d THEN v ELSE up[e]
    BY <1>2, <1>4, <1>5
  <1>9. Right(img[d]) => RightBut(v, Lost(q))
    BY <1>2, <1>3, <1>7 DEF Right, RightBut, Uploads
  <1> QED
    BY <1>2, <1>3, <1>7, <1>8, <1>9 DEF d

-----------------------------------------------------------------------------
(* The steps of a request.                                                  *)

Ops == {"Fill", "Copy", "Present", "Over", "Line", "Put", "Get"}

LEMMA StepsTable ==
  ASSUME NEW op \in Ops, NEW t \in Lefts(op)
  PROVE  /\ t # <<>> /\ Head(t) # "lock"
         /\ After(op, Head(t)) = "end" => Tail(t) = <<>>
         /\ After(op, Head(t)) # "end" =>
              /\ Tail(t) # <<>> /\ Tail(t) \in Lefts(op)
              /\ Head(Tail(t)) = After(op, Head(t))
         /\ Head(t) \in {"try", "ensure", "ensureSource", "draw", "upload", "read", "idle"}
         /\ Head(t) = "try" => op \in {"Fill", "Copy", "Present", "Over"}
         /\ Head(t) = "ensure" => op \in {"Fill", "Copy", "Present", "Over", "Line", "Get"}
         /\ Head(t) = "ensureSource" => op \in {"Copy", "Present", "Over"}
         /\ Head(t) = "draw" => op # "Get"
         /\ Head(t) = "upload" => op = "Put"
         /\ Head(t) = "read" => op = "Get"
         /\ Head(t) = "idle" => op = "Present"
  <1>1. CASE op = "Fill"
    <2>1. CASE t = <<"try", "ensure", "draw">>
      <3>1. t # <<>> /\ Head(t) = "try" /\ Tail(t) = <<"ensure", "draw">>
        BY <2>1
      <3>2. Tail(t) # <<>> /\ Head(Tail(t)) = "ensure" /\ Tail(t) \in Lefts(op)
        BY <1>1, <3>1 DEF Lefts
      <3> QED
        BY <1>1, <3>1, <3>2 DEF After
    <2>2. CASE t = <<"ensure", "draw">>
      <3>1. t # <<>> /\ Head(t) = "ensure" /\ Tail(t) = <<"draw">>
        BY <2>2
      <3>2. Tail(t) # <<>> /\ Head(Tail(t)) = "draw" /\ Tail(t) \in Lefts(op)
        BY <1>1, <3>1 DEF Lefts
      <3> QED
        BY <1>1, <3>1, <3>2 DEF After
    <2>3. CASE t = <<"draw">>
      <3>1. t # <<>> /\ Head(t) = "draw" /\ Tail(t) = <<>>
        BY <2>3
      <3> QED
        BY <1>1, <3>1 DEF After
    <2> QED
      BY <1>1, <2>1, <2>2, <2>3 DEF Lefts
  <1>2. CASE op = "Copy"
    <2>1. CASE t = <<"try", "ensure", "ensureSource", "draw">>
      <3>1. t # <<>> /\ Head(t) = "try" /\ Tail(t) = <<"ensure", "ensureSource", "draw">>
        BY <2>1
      <3>2. Tail(t) # <<>> /\ Head(Tail(t)) = "ensure" /\ Tail(t) \in Lefts(op)
        BY <1>2, <3>1 DEF Lefts
      <3> QED
        BY <1>2, <3>1, <3>2 DEF After
    <2>2. CASE t = <<"ensure", "ensureSource", "draw">>
      <3>1. t # <<>> /\ Head(t) = "ensure" /\ Tail(t) = <<"ensureSource", "draw">>
        BY <2>2
      <3>2. Tail(t) # <<>> /\ Head(Tail(t)) = "ensureSource" /\ Tail(t) \in Lefts(op)
        BY <1>2, <3>1 DEF Lefts
      <3> QED
        BY <1>2, <3>1, <3>2 DEF After
    <2>3. CASE t = <<"ensureSource", "draw">>
      <3>1. t # <<>> /\ Head(t) = "ensureSource" /\ Tail(t) = <<"draw">>
        BY <2>3
      <3>2. Tail(t) # <<>> /\ Head(Tail(t)) = "draw" /\ Tail(t) \in Lefts(op)
        BY <1>2, <3>1 DEF Lefts
      <3> QED
        BY <1>2, <3>1, <3>2 DEF After
    <2>4. CASE t = <<"draw">>
      <3>1. t # <<>> /\ Head(t) = "draw" /\ Tail(t) = <<>>
        BY <2>4
      <3> QED
        BY <1>2, <3>1 DEF After
    <2> QED
      BY <1>2, <2>1, <2>2, <2>3, <2>4 DEF Lefts
  <1>3. CASE op = "Present"
    <2>1. CASE t = <<"try", "ensure", "ensureSource", "draw", "idle">>
      <3>1. t # <<>> /\ Head(t) = "try" /\ Tail(t) = <<"ensure", "ensureSource", "draw", "idle">>
        BY <2>1
      <3>2. Tail(t) # <<>> /\ Head(Tail(t)) = "ensure" /\ Tail(t) \in Lefts(op)
        BY <1>3, <3>1 DEF Lefts
      <3> QED
        BY <1>3, <3>1, <3>2 DEF After
    <2>2. CASE t = <<"ensure", "ensureSource", "draw", "idle">>
      <3>1. t # <<>> /\ Head(t) = "ensure" /\ Tail(t) = <<"ensureSource", "draw", "idle">>
        BY <2>2
      <3>2. Tail(t) # <<>> /\ Head(Tail(t)) = "ensureSource" /\ Tail(t) \in Lefts(op)
        BY <1>3, <3>1 DEF Lefts
      <3> QED
        BY <1>3, <3>1, <3>2 DEF After
    <2>3. CASE t = <<"ensureSource", "draw", "idle">>
      <3>1. t # <<>> /\ Head(t) = "ensureSource" /\ Tail(t) = <<"draw", "idle">>
        BY <2>3
      <3>2. Tail(t) # <<>> /\ Head(Tail(t)) = "draw" /\ Tail(t) \in Lefts(op)
        BY <1>3, <3>1 DEF Lefts
      <3> QED
        BY <1>3, <3>1, <3>2 DEF After
    <2>4. CASE t = <<"draw", "idle">>
      <3>1. t # <<>> /\ Head(t) = "draw" /\ Tail(t) = <<"idle">>
        BY <2>4
      <3>2. Tail(t) # <<>> /\ Head(Tail(t)) = "idle" /\ Tail(t) \in Lefts(op)
        BY <1>3, <3>1 DEF Lefts
      <3> QED
        BY <1>3, <3>1, <3>2 DEF After
    <2>5. CASE t = <<"idle">>
      <3>1. t # <<>> /\ Head(t) = "idle" /\ Tail(t) = <<>>
        BY <2>5
      <3> QED
        BY <1>3, <3>1 DEF After
    <2> QED
      BY <1>3, <2>1, <2>2, <2>3, <2>4, <2>5 DEF Lefts
  <1>4. CASE op = "Over"
    <2>1. CASE t = <<"try", "ensureSource", "ensure", "draw">>
      <3>1. t # <<>> /\ Head(t) = "try" /\ Tail(t) = <<"ensureSource", "ensure", "draw">>
        BY <2>1
      <3>2. Tail(t) # <<>> /\ Head(Tail(t)) = "ensureSource" /\ Tail(t) \in Lefts(op)
        BY <1>4, <3>1 DEF Lefts
      <3> QED
        BY <1>4, <3>1, <3>2 DEF After
    <2>2. CASE t = <<"ensureSource", "ensure", "draw">>
      <3>1. t # <<>> /\ Head(t) = "ensureSource" /\ Tail(t) = <<"ensure", "draw">>
        BY <2>2
      <3>2. Tail(t) # <<>> /\ Head(Tail(t)) = "ensure" /\ Tail(t) \in Lefts(op)
        BY <1>4, <3>1 DEF Lefts
      <3> QED
        BY <1>4, <3>1, <3>2 DEF After
    <2>3. CASE t = <<"ensure", "draw">>
      <3>1. t # <<>> /\ Head(t) = "ensure" /\ Tail(t) = <<"draw">>
        BY <2>3
      <3>2. Tail(t) # <<>> /\ Head(Tail(t)) = "draw" /\ Tail(t) \in Lefts(op)
        BY <1>4, <3>1 DEF Lefts
      <3> QED
        BY <1>4, <3>1, <3>2 DEF After
    <2>4. CASE t = <<"draw">>
      <3>1. t # <<>> /\ Head(t) = "draw" /\ Tail(t) = <<>>
        BY <2>4
      <3> QED
        BY <1>4, <3>1 DEF After
    <2> QED
      BY <1>4, <2>1, <2>2, <2>3, <2>4 DEF Lefts
  <1>5. CASE op = "Line"
    <2>1. CASE t = <<"ensure", "draw">>
      <3>1. t # <<>> /\ Head(t) = "ensure" /\ Tail(t) = <<"draw">>
        BY <2>1
      <3>2. Tail(t) # <<>> /\ Head(Tail(t)) = "draw" /\ Tail(t) \in Lefts(op)
        BY <1>5, <3>1 DEF Lefts
      <3> QED
        BY <1>5, <3>1, <3>2 DEF After
    <2>2. CASE t = <<"draw">>
      <3>1. t # <<>> /\ Head(t) = "draw" /\ Tail(t) = <<>>
        BY <2>2
      <3> QED
        BY <1>5, <3>1 DEF After
    <2> QED
      BY <1>5, <2>1, <2>2 DEF Lefts
  <1>6. CASE op = "Put"
    <2>1. CASE t = <<"draw", "upload">>
      <3>1. t # <<>> /\ Head(t) = "draw" /\ Tail(t) = <<"upload">>
        BY <2>1
      <3>2. Tail(t) # <<>> /\ Head(Tail(t)) = "upload" /\ Tail(t) \in Lefts(op)
        BY <1>6, <3>1 DEF Lefts
      <3> QED
        BY <1>6, <3>1, <3>2 DEF After
    <2>2. CASE t = <<"upload">>
      <3>1. t # <<>> /\ Head(t) = "upload" /\ Tail(t) = <<>>
        BY <2>2
      <3> QED
        BY <1>6, <3>1 DEF After
    <2> QED
      BY <1>6, <2>1, <2>2 DEF Lefts
  <1>7. CASE op = "Get"
    <2>1. CASE t = <<"ensure", "read">>
      <3>1. t # <<>> /\ Head(t) = "ensure" /\ Tail(t) = <<"read">>
        BY <2>1
      <3>2. Tail(t) # <<>> /\ Head(Tail(t)) = "read" /\ Tail(t) \in Lefts(op)
        BY <1>7, <3>1 DEF Lefts
      <3> QED
        BY <1>7, <3>1, <3>2 DEF After
    <2>2. CASE t = <<"read">>
      <3>1. t # <<>> /\ Head(t) = "read" /\ Tail(t) = <<>>
        BY <2>2
      <3> QED
        BY <1>7, <3>1 DEF After
    <2> QED
      BY <1>7, <2>1, <2>2 DEF Lefts
  <1> QED
    BY <1>1, <1>2, <1>3, <1>4, <1>5, <1>6, <1>7 DEF Ops

LEMMA StepsFirst ==
  ASSUME NEW q, Formed(q)
  PROVE  Steps(q) \in Lefts(q.op) /\ Head(Steps(q)) = After(q.op, "lock")
  <1>1. q.op \in Ops
    BY DEF Formed, Ops
  <1>2. CASE q.op = "Fill"
    BY <1>2 DEF Lefts, After, Steps, FillRects
  <1>3. CASE q.op = "Copy"
    BY <1>3 DEF Lefts, After, Steps, CopyAreas
  <1>4. CASE q.op = "Present"
    BY <1>4 DEF Lefts, After, Steps, PresentPixmap
  <1>5. CASE q.op = "Over"
    BY <1>5 DEF Lefts, After, Steps, Composite
  <1>6. CASE q.op = "Line"
    BY <1>6 DEF Lefts, After, Steps, DrawLine
  <1>7. CASE q.op = "Put"
    BY <1>7 DEF Lefts, After, Steps, DrawImage
  <1>8. CASE q.op = "Get"
    BY <1>8 DEF Lefts, After, Steps, GetImage
  <1> QED
    BY <1>1, <1>2, <1>3, <1>4, <1>5, <1>6, <1>7, <1>8 DEF Ops

\* The step the epoll thread is at, of a request that is not done.
LEMMA AtStep ==
  ASSUME Core, ~Idle
  PROVE  /\ x.req.op \in Ops /\ Formed(x.req)
         /\ Step \in {"lock", "try", "ensure", "ensureSource", "draw", "upload", "read", "idle"}
         /\ Step = "try" => x.req.op \in {"Fill", "Copy", "Present", "Over"}
         /\ Step = "ensure" => x.req.op \in {"Fill", "Copy", "Present", "Over", "Line", "Get"}
         /\ Step = "ensureSource" => x.req.op \in {"Copy", "Present", "Over"}
         /\ Step = "draw" => x.req.op # "Get"
         /\ Step = "upload" => x.req.op = "Put"
         /\ Step = "read" => x.req.op = "Get"
         /\ Step = "idle" => x.req.op = "Present"
  <1>1. x.req.op \in Ops /\ Formed(x.req) /\ StepsInv
    BY DEF Core, BusyInv, Formed, Ops
  <1>2. CASE x.steps \in Lefts(x.req.op)
    BY <1>1, <1>2, StepsTable DEF Step
  <1>3. CASE Step = "lock"
    BY <1>1, <1>3
  <1> QED
    BY <1>1, <1>2, <1>3 DEF StepsInv

\* To go on, a request needs the images as its next step expects them.
LEMMA Advance ==
  ASSUME Core, ~Idle, x' = NextStep, queue' = <<>>, DOMAIN img' = Drawable,
         \A d \in Drawable : img'[d] \in Image /\ (img'[d].gpuDirty # {} => egl'),
         NEW q, q = x.req, NEW h, h = After(q.op, Step),
         h = "end" => \A d \in Drawable \ spoilt' : Right(img'[d]),
         h # "end" => Images(q, h)'
  PROVE  Core'
  <1>1. /\ x' = [req |-> q, steps |-> Tail(x.steps), waiting |-> FALSE]
        /\ x'.req = q /\ x'.steps = Tail(x.steps) /\ x'.waiting = FALSE
    BY DEF Core, NextStep
  <1>2. q.op \in Ops /\ Formed(q) /\ StepsInv
    BY AtStep DEF Core, BusyInv
  <1>3. /\ h = "end" => x'.steps = <<>>
        /\ h # "end" => x'.steps # <<>> /\ x'.steps \in Lefts(q.op) /\ Head(x'.steps) = h
    <2>1. CASE x.steps \in Lefts(x.req.op)
      BY <1>1, <1>2, <2>1, StepsTable DEF Step
    <2>2. CASE Step = "lock" /\ Tail(x.steps) = Steps(x.req)
      <3>1. h # "end"
        BY <2>2 DEF After
      <3>2. x'.steps \in Lefts(q.op) /\ Head(x'.steps) = h
        BY <1>1, <1>2, <2>2, StepsFirst
      <3>3. x'.steps # <<>>
        BY <1>2, <3>2, StepsTable
      <3> QED
        BY <3>1, <3>2, <3>3
    <2> QED
      BY <1>2, <2>1, <2>2 DEF StepsInv
  <1>4. CASE h = "end"
    BY <1>1, <1>3, <1>4 DEF Core, Idle, IdleInv
  <1>5. CASE h # "end"
    <2>1. ~Idle' /\ Step' = h
      BY <1>3, <1>5 DEF Idle, Step
    <2>2. StepsInv' /\ QueueInv'
      BY <1>1, <1>3, <1>5 DEF StepsInv, QueueInv
    <2>3. Images(x.req, Step)'
      <3>1. x'.req = q /\ Step' = h /\ Images(q, h)'
        BY <1>1, <1>5, <2>1
      <3> QED
        BY <3>1 DEF Images, Target
    <2>4. BusyInv'
      BY <1>1, <1>2, <2>2, <2>3 DEF BusyInv
    <2> QED
      BY <1>1, <2>1, <2>4 DEF Core
  <1> QED
    BY <1>4, <1>5

-----------------------------------------------------------------------------
(* The steps of the epoll thread.                                           *)

Scope == \A q \in Requests \cup Parked : InScope(q)

LEMMA FormedRequest ==
  ASSUME Scope, NEW q \in Requests \cup Parked
  PROVE  /\ Formed(q) /\ {"op", "d", "r"} \subseteq DOMAIN q
  BY PixelsAssumption DEF Scope, InScope, Formed

\* The first step of a request finds the images right.
LEMMA ImagesFirst ==
  ASSUME NEW q, Formed(q), NEW h, h = After(q.op, "lock"), \A d \in Drawable \ spoilt : Right(img[d])
  PROVE  Images(q, h)
  <1>1. /\ h \in {"draw", "ensure", "try"}
        /\ h = "draw" => q.op = "Put"
        /\ h = "ensure" => q.op \in {"Line", "Get"}
    BY DEF After
  <1>2. Ensured(q, h) = {}
    BY <1>1 DEF Ensured
  <1>3. q.d \in Drawable /\ Lost(q) \in SUBSET Pixel
    BY DEF Formed, Lost
  <1>4. q.d \notin spoilt => Right(img[q.d]) /\ RightBut(img[q.d], Lost(q))
    BY <1>3, Monotone
  <1> QED
    BY <1>1, <1>2, <1>3, <1>4 DEF Images, Target

LEMMA InvInit ==
  ASSUME Init
  PROVE  Inv
  <1>1. Right(Fresh)
    BY DEF Right, RightBut, Uploads, Image, Fresh
  <1>2. Fresh \in Image /\ \A d \in Drawable : img[d] = Fresh
    BY <1>1 DEF Init, Right, RightBut, Uploads
  <1>3. Fresh.gpuDirty = {}
    BY DEF Fresh
  <1>4. Idle /\ IdleInv
    BY <1>1, <1>2 DEF Init, Idle, IdleInv
  <1> QED
    BY <1>2, <1>3, <1>4 DEF Init, Inv, Core

LEMMA StartRequestKeeps ==
  ASSUME Core, Scope, NEW q \in Requests, StartRequest(q)
  PROVE  Core'
  <1>1. Formed(q)
    BY FormedRequest
  <1>2. Idle /\ IdleInv
    BY DEF Core, StartRequest
  <1>3. q.op \in Ops
    BY <1>1 DEF Formed, Ops
  <1>4. /\ Steps(q) \in Lefts(q.op) /\ Head(Steps(q)) = After(q.op, "lock")
        /\ Steps(q) # <<>>
    BY <1>1, <1>3, StepsFirst, StepsTable
  <1>5. PICK h : h = After(q.op, "lock")
    OBVIOUS
  <1>6. Images(q, h)
    BY <1>1, <1>2, <1>5, ImagesFirst DEF IdleInv
  <1>7. /\ x' = [req |-> q, steps |-> Steps(q), waiting |-> FALSE]
        /\ x'.req = q /\ x'.steps = Steps(q) /\ x'.waiting = FALSE
        /\ img' = img /\ egl' = egl /\ queue' = queue /\ spoilt' = spoilt /\ missed' = {}
    BY DEF StartRequest
  <1>8. ~Idle' /\ Step' = h
    BY <1>4, <1>5, <1>7 DEF Idle, Step
  <1>9. Images(x.req, Step)'
    <2>1. Ensured(q, h) = {} /\ h # "read"
      BY <1>1, <1>5 DEF Ensured, After
    <2>2. Images(q, h)'
      BY <1>6, <1>7, <2>1 DEF Images, Target
    <2> QED
      BY <1>7, <1>8, <2>2 DEF Images, Target
  <1>10. StepsInv' /\ QueueInv'
    BY <1>2, <1>4, <1>7 DEF StepsInv, QueueInv, IdleInv
  <1> QED
    BY <1>1, <1>7, <1>8, <1>9, <1>10 DEF Core, BusyInv

\* What downloading On leaves for the next step.
LEMMA EnsureShape ==
  ASSUME Core, ~Idle, Step \in {"ensure", "ensureSource"}, NEW q, q = x.req,
         DOMAIN img' = Drawable, \A e \in Drawable \ {On} : img'[e] = img[e],
         \A L \in SUBSET Pixel : RightBut(img[On], L) => RightBut(img'[On], L),
         spoilt' = spoilt, missed \subseteq missed',
         On \notin missed' \cup spoilt =>
           IF q.op = "Get" THEN q.r \subseteq img'[On].heap ELSE img'[On].gpuDirty = {},
         NEW h, h = After(q.op, Step)
  PROVE  h # "end" /\ Images(q, h)'
  <1>1. /\ Formed(q) /\ Images(q, Step)
        /\ Step = "ensure" => q.op \in {"Fill", "Copy", "Present", "Over", "Line", "Get"}
        /\ Step = "ensureSource" => q.op \in {"Copy", "Present", "Over"}
    BY AtStep DEF Core, BusyInv
  <1>2. /\ q.d \in Drawable /\ Lost(q) \in SUBSET Pixel /\ {} \in SUBSET Pixel
        /\ "s" \in DOMAIN q => q.s \in Drawable
        /\ q.op \in {"Copy", "Present", "Over"} => "s" \in DOMAIN q
    BY <1>1 DEF Formed, Lost
  <1>3. On = IF Step = "ensureSource" THEN q.s ELSE q.d
    BY DEF On, Step
  <1>4. /\ \A e \in Drawable \ ({q.d} \cup spoilt) : Right(img[e])
        /\ q.d \notin spoilt => RightBut(img[q.d], Lost(q))
        /\ \A e \in Ensured(q, Step) \ (missed \cup spoilt) : img[e].gpuDirty = {}
    BY <1>1 DEF Images, Target
  <1>5. \A e \in Drawable \ ({q.d} \cup spoilt') : Right(img'[e])
    BY <1>2, <1>4 DEF Right
  <1>6. q.d \notin spoilt' => RightBut(img'[q.d], Lost(q))
    BY <1>2, <1>4
  <1>7. q.op # "Get" =>
          \A e \in (Ensured(q, Step) \cup {On}) \ (missed' \cup spoilt') :
            e \in Drawable => img'[e].gpuDirty = {}
    BY <1>4
  <1>8. ASSUME NEW k, k \in {"ensure", "ensureSource", "draw", "read"}, h = k,
               \A e \in Ensured(q, k) \ (missed' \cup spoilt') : img'[e].gpuDirty = {},
               k = "read" => (q.d \notin missed' \cup spoilt' => q.r \subseteq img'[q.d].heap)
        PROVE  h # "end" /\ Images(q, h)'
    <2>1. q.d \notin spoilt' => Target(q, h, img[q.d])'
      BY <1>6, <1>8 DEF Target
    <2> QED
      BY <1>5, <1>8, <2>1 DEF Images
  <1>9. CASE Step = "ensure"
    <2>1. h = IF q.op \in {"Copy", "Present"} THEN "ensureSource"
              ELSE IF q.op = "Get" THEN "read" ELSE "draw"
      BY <1>9 DEF After
    <2>2. CASE q.op = "Get"
      <3>1. h = "read" /\ Ensured(q, h) = {}
        BY <2>1, <2>2 DEF Ensured
      <3>2. q.d \notin missed' \cup spoilt' => q.r \subseteq img'[q.d].heap
        BY <1>3, <1>9, <2>2
      <3> QED
        BY <1>8, <3>1, <3>2
    <2>3. CASE q.op \in {"Copy", "Present"}
      <3>1. h = "ensureSource" /\ Ensured(q, h) = {q.d}
        BY <2>1, <2>3 DEF Ensured
      <3>2. q.d \notin missed' \cup spoilt' => img'[q.d].gpuDirty = {}
        BY <1>3, <1>9, <2>3
      <3> QED
        BY <1>8, <3>1, <3>2
    <2>4. CASE q.op = "Over"
      <3>1. h = "draw" /\ Ensured(q, h) = {q.d, q.s} /\ Ensured(q, Step) = {q.s}
        BY <1>9, <2>1, <2>4 DEF Ensured
      <3>2. \A e \in {q.d, q.s} \ (missed' \cup spoilt') : img'[e].gpuDirty = {}
        BY <1>2, <1>3, <1>7, <1>9, <2>4, <3>1
      <3> QED
        BY <1>8, <3>1, <3>2
    <2>5. CASE q.op \in {"Fill", "Line"}
      <3>1. h = "draw" /\ Ensured(q, h) = {q.d}
        BY <2>1, <2>5 DEF Ensured
      <3>2. q.d \notin missed' \cup spoilt' => img'[q.d].gpuDirty = {}
        BY <1>3, <1>9, <2>5
      <3> QED
        BY <1>8, <3>1, <3>2
    <2> QED
      BY <1>1, <1>9, <2>2, <2>3, <2>4, <2>5
  <1>10. CASE Step = "ensureSource"
    <2>1. h = IF q.op = "Over" THEN "ensure" ELSE "draw"
      BY <1>10 DEF After
    <2>2. CASE q.op = "Over"
      <3>1. h = "ensure" /\ Ensured(q, h) = {q.s}
        BY <2>1, <2>2 DEF Ensured
      <3>2. q.s \notin missed' \cup spoilt' => img'[q.s].gpuDirty = {}
        BY <1>3, <1>10, <2>2
      <3> QED
        BY <1>8, <3>1, <3>2
    <2>3. CASE q.op \in {"Copy", "Present"}
      <3>1. h = "draw" /\ Ensured(q, h) = {q.d, q.s} /\ Ensured(q, Step) = {q.d}
        BY <1>10, <2>1, <2>3 DEF Ensured
      <3>2. \A e \in {q.d, q.s} \ (missed' \cup spoilt') : img'[e].gpuDirty = {}
        BY <1>2, <1>3, <1>7, <1>10, <2>3, <3>1
      <3> QED
        BY <1>8, <3>1, <3>2
    <2> QED
      BY <1>1, <1>10, <2>2, <2>3
  <1> QED
    BY <1>9, <1>10

LEMMA RunSyncKeeps ==
  ASSUME Core, RunSync
  PROVE  Core'
  <1>1. /\ ~Idle /\ Step \in {"try", "ensure", "ensureSource", "upload"} /\ ~x.waiting
        /\ img' = img /\ egl' = egl /\ missed' = missed /\ spoilt' = spoilt
    BY DEF RunSync, At, Step
  <1>2. /\ BusyInv /\ queue = <<>> /\ DOMAIN img = Drawable
        /\ \A d \in Drawable : img[d] \in Image /\ (img[d].gpuDirty # {} => egl)
    BY <1>1 DEF Core, BusyInv, QueueInv
  <1>3. PICK q : q = x.req
    OBVIOUS
  <1>4. /\ Formed(q) /\ Images(q, Step) /\ q.d \in Drawable /\ Lost(q) \in SUBSET Pixel
        /\ "s" \in DOMAIN q => q.s \in Drawable
        /\ q.op \in {"Copy", "Present", "Over"} => "s" \in DOMAIN q
        /\ Step = "ensureSource" => q.op \in {"Copy", "Present", "Over"}
    BY <1>1, <1>2, <1>3, AtStep DEF BusyInv, Formed, Lost
  <1>5. CASE egl /\ Wanted # "nothing"
    <2>1. /\ x' = [x EXCEPT !.waiting = TRUE]
          /\ queue' = Append(queue, [do |-> Wanted, on |-> On, req |-> x.req])
      BY <1>5 DEF RunSync
    <2>2. /\ x' = [req |-> q, steps |-> x.steps, waiting |-> TRUE]
          /\ x'.req = q /\ x'.steps = x.steps /\ x'.waiting = TRUE
      BY <1>3, <2>1 DEF Core
    <2>3. queue' = <<[do |-> Wanted, on |-> On, req |-> x.req]>>
      BY <1>2, <2>1
    <2>4. On' = On /\ Step' = Step /\ (Idle' <=> Idle) /\ (StepsInv' <=> StepsInv)
      BY <1>3, <2>2 DEF On, Step, Idle, StepsInv
    <2>5. Wanted' = Wanted
      BY <1>1, <2>2, <2>4 DEF Wanted
    <2>6. QueueInv'
      BY <1>1, <1>3, <1>5, <2>2, <2>3, <2>4, <2>5 DEF QueueInv
    <2>7. Images(x.req, Step)'
      BY <1>1, <1>3, <1>4, <2>2, <2>4 DEF Images, Target
    <2>8. BusyInv'
      BY <1>2, <1>4, <2>2, <2>4, <2>6, <2>7 DEF BusyInv
    <2> QED
      BY <1>1, <1>2, <2>2, <2>4, <2>8 DEF Core
  <1>6. CASE ~(egl /\ Wanted # "nothing")
    <2>1. x' = NextStep /\ queue' = <<>>
      BY <1>2, <1>6 DEF RunSync
    <2>2. PICK h : h = After(q.op, Step)
      OBVIOUS
    <2>3. CASE Step = "try"
      <3>1. ~egl /\ \A d \in Drawable : img'[d].gpuDirty = {}
        BY <1>1, <1>2, <1>6, <2>3 DEF Wanted, Step
      <3>2. h \in {"ensure", "ensureSource"}
        BY <2>2, <2>3 DEF After
      <3>3. Ensured(q, h) \subseteq Drawable
        BY <1>4, <3>2 DEF Ensured
      <3>4. Images(q, h)'
        BY <1>1, <1>4, <2>3, <3>1, <3>2, <3>3 DEF Images, Target
      <3> QED
        BY <1>1, <1>2, <1>3, <2>1, <2>2, <3>2, <3>4, Advance
    <2>4. CASE Step \in {"ensure", "ensureSource"}
      <3>1. img[On].gpuDirty = {} /\ On \in Drawable
        BY <1>2, <1>3, <1>4, <1>6, <2>4 DEF Wanted, On, Step
      <3>2. q.op = "Get" /\ On \notin spoilt => q.r \subseteq img[On].heap
        <4>1. SUFFICES ASSUME q.op = "Get", On \notin spoilt
                       PROVE  q.r \subseteq img[On].heap
          OBVIOUS
        <4>2. On = q.d /\ Step = "ensure" /\ Lost(q) = {}
          BY <1>3, <1>4, <2>4, <4>1 DEF On, Step, Lost
        <4>3. RightBut(img[q.d], {})
          BY <1>4, <4>1, <4>2 DEF Images, Target
        <4> QED
          BY <1>4, <3>1, <4>2, <4>3 DEF RightBut, Uploads, Formed
      <3>3. h # "end" /\ Images(q, h)'
        BY <1>1, <1>2, <1>3, <2>2, <2>4, <3>1, <3>2, EnsureShape
      <3> QED
        BY <1>1, <1>2, <1>3, <2>1, <2>2, <3>3, Advance
    <2>5. CASE Step = "upload"
      <3>1. h = "end"
        BY <2>2, <2>5 DEF After
      <3>2. ~egl
        BY <1>6, <2>5 DEF Wanted, Step
      <3>3. q.d \notin spoilt => Right(img[q.d])
        BY <1>2, <1>4, <2>5, <3>2 DEF Images, Target, Right, RightBut, Uploads
      <3>4. \A d \in Drawable \ spoilt' : Right(img'[d])
        BY <1>1, <1>4, <3>3 DEF Images
      <3> QED
        BY <1>1, <1>2, <1>3, <2>1, <2>2, <3>1, <3>4, Advance
    <2> QED
      BY <1>1, <2>3, <2>4, <2>5
  <1> QED
    BY <1>5, <1>6

LEMMA DrawOnHeapKeeps ==
  ASSUME Core, DrawOnHeap
  PROVE  Core'
  <1>1. /\ ~Idle /\ Step = "draw" /\ ~x.waiting
        /\ egl' = egl /\ x' = NextStep /\ queue' = queue /\ missed' = missed
    BY DEF DrawOnHeap, At, Step
  <1>2. /\ BusyInv /\ queue' = <<>> /\ DOMAIN img = Drawable
        /\ \A d \in Drawable : img[d] \in Image /\ (img[d].gpuDirty # {} => egl)
    BY <1>1 DEF Core, BusyInv, QueueInv
  <1>3. PICK q : q = x.req
    OBVIOUS
  <1>4. PICK d, L : d = q.d /\ L = Lost(q)
    OBVIOUS
  <1>5. /\ Formed(q) /\ Images(q, "draw") /\ q.op \in Ops /\ q.op # "Get"
        /\ d \in Drawable /\ q.r \subseteq Pixel /\ q.r # {} /\ L \in SUBSET q.r /\ L \in SUBSET Pixel
        /\ "s" \in DOMAIN q => q.s \in Drawable
        /\ "s" \in DOMAIN q <=> q.op \in {"Copy", "Present", "Over"}
    BY <1>1, <1>2, <1>3, <1>4, AtStep DEF BusyInv, Formed, Lost
  <1>6. /\ \A e \in Drawable \ ({d} \cup spoilt) : Right(img[e])
        /\ d \notin spoilt => RightBut(img[d], L)
        /\ \A e \in Ensured(q, "draw") \ (missed \cup spoilt) : img[e].gpuDirty = {}
    BY <1>4, <1>5 DEF Images, Target
  <1>7. img[d] \in Image
    BY <1>2, <1>5
  <1>8. PICK src : src = IF "s" \in DOMAIN q THEN img[q.s].heap ELSE Pixel
    OBVIOUS
  <1>9. PICK heap : heap = Painted(q, img[d].heap, src)
    OBVIOUS
  <1>10. PICK u : u = OnHeap(img[d], q, heap)
    OBVIOUS
  <1>11. img' = [img EXCEPT ![d] = u]
    BY <1>3, <1>4, <1>8, <1>9, <1>10 DEF DrawOnHeap, OnHeap
  <1>12. DOMAIN img' = Drawable /\ img'[d] = u /\ \A e \in Drawable \ {d} : img'[e] = img[e]
    BY <1>2, <1>5, <1>11
  <1>17. spoilt' = SpoiltBy(q)
    BY <1>3 DEF DrawOnHeap
  <1>18. /\ spoilt \subseteq spoilt'
         /\ d \notin spoilt' =>
              /\ d \notin missed \cup spoilt
              /\ "s" \in DOMAIN q => q.s \notin missed \cup spoilt
    BY <1>4, <1>17 DEF SpoiltBy
  <1>19. src \in SUBSET Pixel /\ heap \in SUBSET Pixel
    <2>1. src \in SUBSET Pixel
      BY <1>2, <1>5, <1>8 DEF Image
    <2>2. PICK dst : dst = img[d].heap /\ dst \in SUBSET Pixel
      BY <1>7 DEF Image
    <2> QED
      BY <1>5, <1>9, <2>1, <2>2, PaintedType
  <1>20. u \in Image /\ u.gpuDirty = img[d].gpuDirty
    <2>1. PICK i : i = img[d]
      OBVIOUS
    <2>2. i \in Image /\ u = OnHeap(i, q, heap)
      BY <1>7, <1>10, <2>1
    <2>3. u \in Image /\ u.gpuDirty = i.gpuDirty
      <3>1. q.r \subseteq Pixel
        BY <1>5
      <3>2. u \in Image /\ u.heap = heap /\ u.tex = i.tex \ q.r
            /\ u.dirty = Hull(i.dirty \cup q.r) /\ u.needsUpdate
            /\ u.gpuDirty = i.gpuDirty /\ u.allocated = i.allocated
        BY <1>19, <2>2, <3>1, OnHeapShape, SMTT(30)
      <3> QED
        BY <3>2
    <2> QED
      BY <2>1, <2>3
  <1>21. \A e \in Drawable : img'[e] \in Image /\ (img'[e].gpuDirty # {} => egl')
    BY <1>1, <1>2, <1>12, <1>20
  <1>13. PICK h : h = After(q.op, Step)
    OBVIOUS
  <1>14. h = IF q.op = "Put" THEN "upload" ELSE IF q.op = "Present" THEN "idle" ELSE "end"
    BY <1>1, <1>13 DEF After
  <1>15. CASE q.op = "Put"
    <2>1. L = {} /\ src = Pixel
      BY <1>4, <1>5, <1>8, <1>15 DEF Lost
    <2>2. heap = img[d].heap \cup q.r
      BY <1>5, <1>7, <1>9, <1>15, <2>1 DEF Painted, Image
    <2>3. d \notin spoilt' => Right(img[d])
      BY <1>6, <1>18, <2>1 DEF Right
    <2>4. d \notin spoilt' => Uploads(u, {})
      <3>1. Hull(q.r) = q.r
        BY <1>5, <1>15 DEF Formed
      <3> QED
        BY <1>5, <1>10, <2>2, <2>3, <3>1, PutShape
    <2>7. h = "upload" /\ Ensured(q, h) = {}
      BY <1>14, <1>15 DEF Ensured
    <2>8. Images(q, h)'
      BY <1>4, <1>6, <1>12, <1>18, <2>4, <2>7 DEF Images, Target
    <2> QED
      BY <1>1, <1>2, <1>3, <1>12, <1>13, <1>21, <2>7, <2>8, Advance
  <1>16. CASE q.op # "Put"
    <2>1. Ensured(q, "draw") = {d} \cup (IF "s" \in DOMAIN q THEN {q.s} ELSE {})
      BY <1>4, <1>5, <1>16 DEF Ensured, Ops
    <2>2. d \notin spoilt' => Right(u)
      <3> SUFFICES ASSUME d \notin spoilt'
                   PROVE  Right(u)
        OBVIOUS
      <3>1. img[d].gpuDirty = {} /\ ("s" \in DOMAIN q => img[q.s].gpuDirty = {})
        BY <1>6, <1>18, <2>1
      <3>2. src = Pixel
        <4>1. CASE "s" \notin DOMAIN q
          BY <1>8, <4>1
        <4>2. CASE "s" \in DOMAIN q
          <5>1. RightBut(img[q.s], {})
            <6>1. CASE q.s = d
              BY <1>4, <1>5, <1>6, <1>18, <6>1 DEF Formed, Lost
            <6>2. CASE q.s # d
              BY <1>5, <1>6, <1>18, <4>2, <6>2 DEF Right
            <6> QED
              BY <6>1, <6>2
          <5> QED
            BY <1>8, <3>1, <4>2, <5>1 DEF RightBut, Uploads, Image
        <4> QED
          BY <4>1, <4>2
      <3>3. PICK dst : dst = img[d].heap
        OBVIOUS
      <3>4. RightBut(img[d], L)
        BY <1>6, <1>18
      <3>5. dst \in SUBSET Pixel /\ dst \cup L = Pixel
        BY <1>5, <3>1, <3>3, <3>4 DEF RightBut, Uploads, Image
      <3>6. q.op \notin {"Copy", "Present"} => L = {}
        BY <1>4 DEF Lost
      <3>7. heap = Pixel
        BY <1>5, <1>9, <1>19, <3>2, <3>3, <3>5, <3>6, PaintedShape
      <3> QED
        BY <1>5, <1>10, <3>1, <3>4, <3>7, DrawShape
    <2>3. \A e \in Drawable \ spoilt' : Right(img'[e])
      BY <1>6, <1>12, <1>18, <2>2
    <2>4. h # "end" => h = "idle" /\ Ensured(q, h) = {}
      BY <1>14, <1>16 DEF Ensured
    <2>5. d \notin spoilt' => RightBut(img'[d], L)
      BY <1>5, <2>3, Monotone
    <2>6. h # "end" => Images(q, h)'
      BY <1>4, <1>5, <2>3, <2>4, <2>5 DEF Images, Target
    <2> QED
      BY <1>1, <1>2, <1>3, <1>12, <1>13, <1>21, <2>3, <2>6, Advance
  <1> QED
    BY <1>15, <1>16

LEMMA ReadOrStoreKeeps ==
  ASSUME Core, ReadOrStore
  PROVE  Core'
  <1>1. ~Idle /\ ~x.waiting /\ x' = NextStep /\ UNCHANGED <<egl, queue, missed, spoilt>>
    BY DEF ReadOrStore, At
  <1>2. /\ BusyInv /\ queue' = <<>> /\ DOMAIN img = Drawable
        /\ \A d \in Drawable : img[d] \in Image /\ (img[d].gpuDirty # {} => egl)
    BY <1>1 DEF Core, BusyInv, QueueInv
  <1>3. Step = "read" /\ img' = img /\ x.req.op = "Get"
    BY <1>1, AtStep DEF ReadOrStore, At, Step
  <1>4. PICK q, h : q = x.req /\ h = After(q.op, Step)
    OBVIOUS
  <1>5. h = "end"
    BY <1>3, <1>4 DEF After
  <1>6. Images(q, "read") /\ Lost(q) = {}
    BY <1>2, <1>3, <1>4 DEF BusyInv, Lost
  <1>7. \A d \in Drawable \ spoilt' : Right(img'[d])
    BY <1>1, <1>3, <1>6 DEF Images, Target, Right
  <1> QED
    BY <1>1, <1>2, <1>3, <1>4, <1>5, <1>7, Advance

LEMMA LockDrawablesKeeps ==
  ASSUME Core, LockDrawables
  PROVE  Core'
  <1>1. /\ ~Idle /\ ~x.waiting /\ Step = "lock" /\ x' = NextStep
        /\ UNCHANGED <<img, egl, queue, missed, spoilt>>
    BY DEF LockDrawables, At, Step
  <1>2. /\ BusyInv /\ queue' = <<>> /\ DOMAIN img = Drawable
        /\ \A d \in Drawable : img[d] \in Image /\ (img[d].gpuDirty # {} => egl)
    BY <1>1 DEF Core, BusyInv, QueueInv
  <1>3. PICK q, h : q = x.req /\ h = After(q.op, Step)
    OBVIOUS
  <1>4. h # "end" /\ Formed(q) /\ Images(q, "lock")
    BY <1>1, <1>2, <1>3 DEF After, BusyInv
  <1>5. \A d \in Drawable \ spoilt : Right(img[d])
    BY <1>4 DEF Images, Target
  <1>6. Images(q, h)
    BY <1>1, <1>3, <1>4, <1>5, ImagesFirst
  <1>7. Images(q, h)'
    BY <1>1, <1>6 DEF Images, Target
  <1> QED
    BY <1>1, <1>2, <1>3, <1>4, <1>7, Advance

\* An element before a sequence.
LEMMA HeadTailOfJoin ==
  ASSUME NEW S, NEW e \in S, NEW t \in Seq(S)
  PROVE  <<e>> \o t # <<>> /\ Head(<<e>> \o t) = e /\ Tail(<<e>> \o t) = t
  <1>1. /\ <<e>> \in Seq(S) /\ Len(<<e>>) = 1 /\ <<e>>[1] = e
        /\ Len(t) \in Nat
    OBVIOUS
  <1>2. PICK u : u = <<e>> \o t
    OBVIOUS
  <1>3. /\ u \in Seq(S) /\ Len(u) = 1 + Len(t)
        /\ \A i \in 1 .. 1 + Len(t) : u[i] = IF i <= 1 THEN <<e>>[i] ELSE t[i - 1]
    BY <1>1, <1>2, ConcatProperties
  <1>4. u # <<>> /\ Head(u) = e
    BY <1>1, <1>3
  <1>5. /\ Tail(u) \in Seq(S) /\ Len(Tail(u)) = Len(t)
        /\ \A i \in 1 .. Len(Tail(u)) : Tail(u)[i] = u[i + 1]
    BY <1>1, <1>3, <1>4, HeadTailProperties
  <1>6. \A i \in 1 .. Len(Tail(u)) : Tail(u)[i] = t[i]
    BY <1>1, <1>3, <1>5
  <1>7. Tail(u) = t
    BY <1>5, <1>6, SeqEqual
  <1> QED
    BY <1>2, <1>4, <1>7

Names == {"lock", "try", "ensure", "ensureSource", "draw", "upload", "read", "idle"}

\* What a request made inside another one is, and the steps it takes.
LEMMA InsideShape ==
  ASSUME Scope, NEW q \in Parked, NEW d
  PROVE  /\ Formed(Inside(q, d)) /\ Steps(Inside(q, d)) = Steps(q)
         /\ <<"lock">> \o Steps(q) # <<>> /\ Head(<<"lock">> \o Steps(q)) = "lock"
         /\ Tail(<<"lock">> \o Steps(q)) = Steps(q)
  <1>1. Formed(q) /\ {"op", "d", "r"} \subseteq DOMAIN q
    BY FormedRequest
  <1>2. PICK i : i = Inside(q, d)
    OBVIOUS
  <1>3. /\ DOMAIN i = DOMAIN q \cup {"inside"}
        /\ \A k \in DOMAIN q : k # "inside" => i[k] = q[k]
    BY <1>2 DEF Inside
  <1>4. /\ i.op = q.op /\ i.d = q.d /\ i.r = q.r
        /\ "s" \in DOMAIN i <=> "s" \in DOMAIN q
        /\ "s" \in DOMAIN q => i.s = q.s
    BY <1>1, <1>3
  <1>5. Formed(i)
    BY <1>1, <1>4 DEF Formed
  <1>6. Steps(i) = Steps(q)
    BY <1>4 DEF Steps
  <1>7. Steps(q) \in Seq(Names)
    <2>1. /\ FillRects \in Seq(Names) /\ CopyAreas \in Seq(Names) /\ PresentPixmap \in Seq(Names)
          /\ Composite \in Seq(Names) /\ DrawLine \in Seq(Names)
          /\ DrawImage \in Seq(Names) /\ GetImage \in Seq(Names)
      BY DEF Names, FillRects, CopyAreas, PresentPixmap, Composite, DrawLine, DrawImage, GetImage
    <2>2. Steps(q) \in {FillRects, CopyAreas, PresentPixmap, Composite, DrawLine, DrawImage, GetImage}
      BY <1>1 DEF Formed, Steps
    <2> QED
      BY <2>1, <2>2
  <1>8. PICK t : t = Steps(q)
    OBVIOUS
  <1>9. /\ <<"lock">> \o t # <<>> /\ Head(<<"lock">> \o t) = "lock"
        /\ Tail(<<"lock">> \o t) = t
    <2>1. t \in Seq(Names) /\ "lock" \in Names
      BY <1>7, <1>8 DEF Names
    <2> QED
      BY <2>1, HeadTailOfJoin
  <1> QED
    BY <1>2, <1>5, <1>6, <1>8, <1>9

LEMMA SendIdleNotifyKeeps ==
  ASSUME Core, Scope, SendIdleNotify
  PROVE  Core'
  <1>1. ~Idle /\ ~x.waiting /\ Step = "idle" /\ UNCHANGED <<img, egl, queue, spoilt>>
    BY DEF SendIdleNotify, At, Step
  <1>2. /\ BusyInv /\ queue' = <<>> /\ DOMAIN img = Drawable
        /\ \A d \in Drawable : img[d] \in Image /\ (img[d].gpuDirty # {} => egl)
    BY <1>1 DEF Core, BusyInv, QueueInv
  <1>3. \A d \in Drawable \ spoilt : Right(img[d])
    BY <1>1, <1>2 DEF BusyInv, Images, Target
  <1>4. CASE x' = NextStep
    <2>1. PICK q, h : q = x.req /\ h = After(q.op, Step)
      OBVIOUS
    <2>2. h = "end"
      BY <1>1, <2>1 DEF After
    <2> QED
      BY <1>1, <1>2, <1>3, <1>4, <2>1, <2>2, Advance
  <1>5. CASE \E q \in Parked :
               x' = [x EXCEPT !.req = Inside(q, x.req.d), !.steps = <<"lock">> \o Steps(q)]
    <2>1. PICK q \in Parked :
            x' = [x EXCEPT !.req = Inside(q, x.req.d), !.steps = <<"lock">> \o Steps(q)]
      BY <1>5
    <2>2. PICK i, t : i = Inside(q, x.req.d) /\ t = <<"lock">> \o Steps(q)
      OBVIOUS
    <2>3. /\ Formed(i) /\ t # <<>> /\ Head(t) = "lock" /\ Tail(t) = Steps(i)
      BY <2>2, InsideShape
    <2>4. /\ x' = [req |-> i, steps |-> t, waiting |-> FALSE]
          /\ x'.req = i /\ x'.steps = t /\ x'.waiting = FALSE
      BY <1>1, <2>1, <2>2 DEF Core
    <2>5. ~Idle' /\ Step' = "lock"
      BY <2>3, <2>4 DEF Idle, Step
    <2>6. StepsInv' /\ QueueInv'
      BY <1>2, <2>3, <2>4, <2>5 DEF StepsInv, QueueInv
    <2>7. Ensured(i, "lock") = {} /\ i.d \in Drawable /\ Lost(i) \in SUBSET Pixel
      BY <2>3 DEF Ensured, Formed, Lost
    <2>8. Images(i, "lock")'
      <3>1. i.d \notin spoilt => Right(img[i.d]) /\ RightBut(img[i.d], Lost(i))
        BY <1>3, <2>7, Monotone
      <3> QED
        BY <1>1, <1>3, <2>7, <3>1 DEF Images, Target
    <2>9. Images(x.req, Step)'
      BY <2>4, <2>5, <2>8 DEF Images, Target
    <2> QED
      BY <1>1, <1>2, <2>3, <2>4, <2>5, <2>6, <2>9 DEF Core, BusyInv
  <1> QED
    BY <1>4, <1>5 DEF SendIdleNotify

-----------------------------------------------------------------------------
(* The steps of the GL thread.                                              *)

LEMMA EglReadyKeeps ==
  ASSUME Core, EglReady
  PROVE  Core'
  <1>1. egl' /\ ~egl /\ img' = img /\ x' = x /\ queue' = queue /\ missed' = missed /\ spoilt' = spoilt
    BY DEF EglReady
  <1>2. (Idle' <=> Idle) /\ Step' = Step /\ (StepsInv' <=> StepsInv)
    BY <1>1 DEF Idle, Step, StepsInv
  <1>3. CASE Idle
    BY <1>1, <1>2, <1>3 DEF Core, IdleInv
  <1>4. CASE ~Idle
    <2>1. BusyInv
      BY <1>4 DEF Core
    <2>2. QueueInv'
      BY <1>1, <2>1 DEF BusyInv, QueueInv
    <2>3. Images(x.req, Step)'
      BY <1>1, <1>2, <2>1 DEF BusyInv, Images, Target
    <2>4. BusyInv'
      BY <1>1, <1>2, <2>1, <2>2, <2>3 DEF BusyInv
    <2> QED
      BY <1>1, <1>2, <1>4, <2>4 DEF Core
  <1> QED
    BY <1>3, <1>4

\* All a frame changes of an image that Core speaks of, it leaves as it was.
LEMMA RenderWindowDrawableKeeps ==
  ASSUME Core, NEW w \in Window, RenderWindowDrawable(w)
  PROVE  Core'
  <1>1. /\ UNCHANGED <<egl, x, queue, missed, spoilt>> /\ w \in Drawable
        /\ img' = [img EXCEPT ![w] = UpdateFromDrawable(img[w])]
    BY PixelsAssumption DEF RenderWindowDrawable
  <1>2. (Idle' <=> Idle) /\ Step' = Step /\ (StepsInv' <=> StepsInv) /\ On' = On
    BY <1>1 DEF Idle, Step, StepsInv, On
  <1>3. DOMAIN img = Drawable
    BY DEF Core
  <1>4. \A d \in Drawable : \A L \in SUBSET Pixel : Uploads(img[d], L) =>
          /\ Uploads(img'[d], L)
          /\ RightBut(img[d], L) => RightBut(img'[d], L)
          /\ img'[d].gpuDirty = img[d].gpuDirty /\ img'[d].heap = img[d].heap
    <2> SUFFICES ASSUME NEW d \in Drawable, NEW L \in SUBSET Pixel, Uploads(img[d], L)
                 PROVE  /\ Uploads(img'[d], L)
                        /\ RightBut(img[d], L) => RightBut(img'[d], L)
                        /\ img'[d].gpuDirty = img[d].gpuDirty /\ img'[d].heap = img[d].heap
      OBVIOUS
    <2>1. CASE d = w
      <3>1. img'[d] = UpdateFromDrawable(img[d])
        BY <1>1, <1>3, <2>1
      <3> QED
        BY <3>1, UpdateShape, ZenonT(30)
    <2>2. CASE d # w
      BY <1>1, <1>3, <2>2
    <2> QED
      BY <2>1, <2>2
  <1>5. {} \in SUBSET Pixel
    OBVIOUS
  <1>6. \A d \in Drawable : Right(img[d]) =>
          Right(img'[d]) /\ img'[d].gpuDirty = img[d].gpuDirty
    BY <1>4, <1>5 DEF Right, RightBut
  <1>7. DOMAIN img' = Drawable
    BY <1>1, <1>3
  <1>10. \A d \in Drawable :
           /\ img'[d] \in Image /\ img'[d].gpuDirty = img[d].gpuDirty /\ img'[d].heap = img[d].heap
           /\ img'[d].gpuDirty # {} => egl'
    BY <1>1, <1>3, UpdateType DEF Core
  <1>8. CASE Idle
    BY <1>1, <1>2, <1>6, <1>7, <1>8, <1>10 DEF Core, IdleInv
  <1>9. CASE ~Idle
    <2>1. BusyInv
      BY <1>9 DEF Core
    <2>2. PICK q, h, L : q = x.req /\ h = Step /\ L = Lost(q)
      OBVIOUS
    <2>3. /\ Formed(q) /\ q.d \in Drawable /\ L \in SUBSET Pixel /\ Images(q, h)
          /\ "s" \in DOMAIN q => q.s \in Drawable
          /\ q.op \in {"Copy", "Present", "Over"} => "s" \in DOMAIN q
      BY <2>1, <2>2 DEF BusyInv, Formed, Lost
    <2>4. Ensured(q, h) \subseteq Drawable
      BY <2>3 DEF Ensured
    <2>6. Images(q, h)'
      <3>1. \A e \in Drawable \ ({q.d} \cup spoilt) : Right(img'[e])
        BY <1>6, <2>3 DEF Images
      <3>2. \A e \in Ensured(q, h) \ (missed \cup spoilt) : img'[e].gpuDirty = {}
        BY <1>10, <2>3, <2>4 DEF Images
      <3>3. ASSUME q.d \notin spoilt
            PROVE  Target(q, h, img'[q.d])
        <4>1. Target(q, h, img[q.d])
          BY <2>3, <3>3 DEF Images
        <4>2. h \in {"lock", "try", "idle"} => Right(img'[q.d])
          BY <1>6, <2>3, <4>1 DEF Target
        <4>3. h = "upload" => Uploads(img'[q.d], {})
          BY <1>4, <1>5, <2>3, <4>1 DEF Target
        <4>4. h # "upload" => RightBut(img'[q.d], L)
          BY <1>4, <2>2, <2>3, <4>1 DEF Target, RightBut
        <4>5. h = "read" /\ q.d \notin missed => q.r \subseteq img'[q.d].heap
          BY <1>10, <2>3, <4>1 DEF Target
        <4> QED
          BY <2>2, <4>2, <4>3, <4>4, <4>5 DEF Target
      <3> QED
        BY <1>1, <3>1, <3>2, <3>3 DEF Images, Target
    <2>7. Images(x.req, Step)'
      BY <1>1, <1>2, <2>2, <2>6 DEF Images, Target
    <2>8. QueueInv'
      <3>1. CASE ~x.waiting
        BY <1>1, <2>1, <3>1 DEF BusyInv, QueueInv
      <3>2. CASE x.waiting
        <4>1. On \in Drawable
          BY <2>1, <2>2, <2>3, <3>2, AtStep, <1>9 DEF On, Step
        <4>2. Wanted' = Wanted
          BY <1>1, <1>2, <1>10, <4>1 DEF Wanted
        <4> QED
          BY <1>1, <1>2, <2>1, <3>2, <4>2 DEF BusyInv, QueueInv
      <3> QED
        BY <3>1, <3>2
    <2>9. BusyInv'
      BY <1>1, <1>2, <2>1, <2>7, <2>8 DEF BusyInv
    <2> QED
      BY <1>1, <1>2, <1>7, <1>9, <1>10, <2>9 DEF Core
  <1> QED
    BY <1>8, <1>9

LEMMA Unmoved ==
  ASSUME Core, UNCHANGED <<img, egl, x, queue, missed, spoilt>>
  PROVE  Core'
  <1>1. img' = img /\ egl' = egl /\ x' = x /\ queue' = queue /\ missed' = missed /\ spoilt' = spoilt
    OBVIOUS
  <1>2. /\ Idle' <=> Idle
        /\ Step' = Step /\ On' = On /\ Wanted' = Wanted
    BY <1>1 DEF Idle, Step, On, Wanted
  <1>3. StepsInv' <=> StepsInv
    BY <1>1, <1>2 DEF StepsInv
  <1>4. Images(x.req, Step)' <=> Images(x.req, Step)
    BY <1>1, <1>2 DEF Images, Target
  <1>5. QueueInv' <=> QueueInv
    BY <1>1, <1>2 DEF QueueInv
  <1>6. (BusyInv' <=> BusyInv) /\ (IdleInv' <=> IdleInv)
    BY <1>1, <1>3, <1>4, <1>5 DEF BusyInv, IdleInv
  <1> QED
    BY <1>1, <1>2, <1>6 DEF Core

LEMMA RunTaskKeeps ==
  ASSUME Core, RunTask
  PROVE  Core'
  <1>1. ~Idle /\ x.waiting /\ BusyInv
    BY DEF RunTask, Core, IdleInv, BusyInv, QueueInv
  <1>2. PICK q, h : q = x.req /\ h = After(q.op, Step)
    OBVIOUS
  <1>3. /\ Formed(q) /\ Images(q, Step) /\ DOMAIN img = Drawable
        /\ \A d \in Drawable : img[d] \in Image
        /\ q.d \in Drawable /\ q.r \in SUBSET Pixel /\ Lost(q) \in SUBSET Pixel /\ {} \in SUBSET Pixel
        /\ "s" \in DOMAIN q => q.s \in Drawable
        /\ q.op \in {"Copy", "Present", "Over"} => "s" \in DOMAIN q
        /\ Step = "ensureSource" => q.op \in {"Copy", "Present", "Over"}
        /\ Step = "try" => q.op \in {"Fill", "Copy", "Present", "Over"}
        /\ Step = "upload" => q.op = "Put"
        /\ Step \in {"try", "ensure", "ensureSource", "upload"}
    BY <1>1, <1>2, AtStep DEF Core, BusyInv, QueueInv, Formed, Lost
  <1>4. PICK t : t = [do |-> Wanted, on |-> On, req |-> q]
    OBVIOUS
  <1>5. /\ queue = <<t>> /\ Head(queue) = t /\ Tail(queue) = <<>> /\ Len(queue) = 1
        /\ t.do = Wanted /\ t.on = On /\ t.req = q
        /\ egl /\ Wanted # "nothing"
    <2>1. queue = <<t>> /\ egl /\ Wanted # "nothing"
      BY <1>1, <1>2, <1>4 DEF BusyInv, QueueInv
    <2> QED
      BY <1>4, <2>1
  <1>6. PICK ok \in BOOLEAN :
          /\ ok = FALSE => GpuRefuses
          /\ CASE t.do = "download" ->
                    \E i \in IF ok THEN {DownloadGpuDirty(img[On], IF q.op = "Get" THEN q.r ELSE Pixel)}
                            ELSE FailedDownload(img[On], IF q.op = "Get" THEN q.r ELSE Pixel) :
                      img' = [img EXCEPT ![On] = i]
               [] t.do = "upload" -> img' = [img EXCEPT ![On] = UpdateFromDrawable(img[On])]
               [] t.do = "draw" /\ ok -> img' = DrawOnTexture(q, TRUE)
               [] OTHER -> img' \in FailedDraw(q)
          /\ x' = Answer(t, ok)
          /\ missed' = IF t.do = "download" /\ ~ok THEN missed \cup {On} ELSE missed
          /\ spoilt' = IF t.do = "draw" /\ ok THEN SpoiltBy(q) ELSE spoilt
    BY <1>1, <1>5 DEF RunTask
  <1>7. queue' = <<>> /\ egl'
    BY <1>5 DEF RunTask
  <1>8. On \in Drawable
    BY <1>2, <1>3 DEF On, Step
  <1>9. CASE Step \in {"ensure", "ensureSource"}
    <2>1. Wanted = "download"
      BY <1>5, <1>9 DEF Wanted, Step
    <2>2. PICK r : r = IF q.op = "Get" THEN q.r ELSE Pixel
      OBVIOUS
    <2>3. PICK i \in IF ok THEN {DownloadGpuDirty(img[On], r)} ELSE FailedDownload(img[On], r) :
            img' = [img EXCEPT ![On] = i]
      BY <1>5, <1>6, <2>1, <2>2
    <2>4. /\ x' = NextStep /\ spoilt' = spoilt
          /\ missed' = IF ok THEN missed ELSE missed \cup {On}
      BY <1>5, <1>6, <2>1 DEF Answer
    <2>5. /\ DOMAIN img' = Drawable /\ img'[On] = i
          /\ \A e \in Drawable \ {On} : img'[e] = img[e]
      BY <1>3, <1>8, <2>3
    <2>6. r \in SUBSET Pixel /\ img[On] \in Image
      BY <1>3, <1>8, <2>2
    <2>7. i \in Image /\ \A L \in SUBSET Pixel : RightBut(img[On], L) => RightBut(i, L)
      <3>1. CASE ok
        BY <2>3, <2>6, <3>1, DownloadShape, DownloadType
      <3>2. CASE ~ok
        BY <2>3, <2>6, <3>2, FailedDownloadShape
      <3> QED
        BY <3>1, <3>2
    <2>8. ASSUME On \notin missed' \cup spoilt
          PROVE  IF q.op = "Get" THEN q.r \subseteq i.heap ELSE i.gpuDirty = {}
      <3>1. ok /\ i = DownloadGpuDirty(img[On], r)
        BY <2>3, <2>4, <2>8
      <3>2. \E L \in SUBSET Pixel : RightBut(img[On], L) /\ (q.op = "Get" => L = {})
        <4>1. CASE On = q.d
          <5>1. RightBut(img[q.d], Lost(q))
            BY <1>3, <1>9, <2>8, <4>1 DEF Images, Target
          <5>2. q.op = "Get" => Lost(q) = {}
            BY DEF Lost
          <5> QED
            BY <1>3, <4>1, <5>1, <5>2
        <4>2. CASE On # q.d
          BY <1>3, <1>8, <2>8, <4>2 DEF Images, Right
        <4> QED
          BY <4>1, <4>2
      <3>3. \A L \in SUBSET Pixel : RightBut(img[On], L) =>
              r \subseteq i.heap \cup L /\ (r = Pixel => i.gpuDirty = {})
        BY <2>6, <3>1, DownloadShape
      <3> QED
        BY <2>2, <3>2, <3>3
    <2>9. h # "end" /\ Images(q, h)'
      BY <1>1, <1>2, <1>9, <2>4, <2>5, <2>7, <2>8, EnsureShape
    <2>10. \A d \in Drawable : img'[d] \in Image
      BY <1>3, <2>5, <2>7
    <2> QED
      BY <1>1, <1>2, <1>7, <2>4, <2>5, <2>9, <2>10, Advance
  <1>10. CASE Step = "upload"
    <2>1. Wanted = "upload" /\ On = q.d /\ h = "end"
      BY <1>2, <1>10 DEF Wanted, Step, On, After
    <2>2. /\ img' = [img EXCEPT ![On] = UpdateFromDrawable(img[On])]
          /\ x' = NextStep /\ spoilt' = spoilt
      BY <1>5, <1>6, <2>1 DEF Answer
    <2>3. /\ DOMAIN img' = Drawable /\ img'[q.d] = UpdateFromDrawable(img[q.d])
          /\ \A e \in Drawable \ {q.d} : img'[e] = img[e]
      BY <1>3, <2>1, <2>2
    <2>4. q.d \notin spoilt => Right(img'[q.d])
      <3>1. SUFFICES ASSUME q.d \notin spoilt
                     PROVE  Right(img'[q.d])
        OBVIOUS
      <3>2. Uploads(img[q.d], {})
        BY <1>3, <1>10, <3>1 DEF Images, Target
      <3> QED
        BY <1>3, <2>3, <3>2, UpdateShape
    <2>5. \A d \in Drawable \ spoilt' : Right(img'[d])
      BY <1>3, <2>2, <2>3, <2>4 DEF Images
    <2>6. \A d \in Drawable : img'[d] \in Image
      BY <1>3, <2>3, UpdateType
    <2> QED
      BY <1>1, <1>2, <1>7, <2>1, <2>2, <2>3, <2>5, <2>6, Advance
  <1>11. CASE Step = "try"
    <2>1. t.do = "draw"
      BY <1>5, <1>11 DEF Wanted, Step
    <2>2. \A d \in Drawable \ spoilt : Right(img[d])
      BY <1>3, <1>11 DEF Images, Target
    <2>3. CASE ok
      <3>1. img' = DrawOnTexture(q, TRUE) /\ x' = Drawn /\ spoilt' = SpoiltBy(q)
        BY <1>6, <2>1, <2>3 DEF Answer
      <3>2. /\ DOMAIN img' = Drawable /\ \A d \in Drawable : img'[d] \in Image
            /\ \A e \in Drawable \ {q.d} : Right(img[e]) => Right(img'[e])
            /\ Right(img[q.d]) /\ ("s" \in DOMAIN q => Right(img[q.s])) => Right(img'[q.d])
        BY <1>3, <3>1, DrawOnTextureShape DEF Typed
      <3>7. /\ spoilt \subseteq spoilt'
            /\ q.d \notin spoilt' /\ "s" \in DOMAIN q => q.s \notin spoilt
        BY <3>1 DEF SpoiltBy
      <3>8. \A d \in Drawable \ spoilt' : Right(img'[d])
        BY <1>3, <2>2, <3>2, <3>7
      <3>3. PICK t2 : t2 = IF q.op = "Present" THEN <<"idle">> ELSE <<>>
        OBVIOUS
      <3>4. /\ x' = [req |-> q, steps |-> t2, waiting |-> FALSE]
            /\ x'.req = q /\ x'.steps = t2 /\ x'.waiting = FALSE
        BY <1>2, <3>1, <3>3 DEF Core, Drawn
      <3>5. CASE q.op = "Present"
        <4>1. t2 # <<>> /\ Head(t2) = "idle" /\ t2 \in Lefts(q.op)
          BY <3>3, <3>5 DEF Lefts
        <4>2. ~Idle' /\ Step' = "idle" /\ StepsInv' /\ QueueInv'
          BY <1>7, <3>4, <4>1 DEF Idle, Step, StepsInv, QueueInv
        <4>3. Ensured(q, "idle") = {} /\ (q.d \notin spoilt' => RightBut(img'[q.d], Lost(q)))
          BY <1>3, <3>8, Monotone DEF Ensured
        <4>4. Images(q, "idle")'
          BY <1>3, <3>8, <4>3 DEF Images, Target
        <4>5. Images(x.req, Step)'
          BY <3>4, <4>2, <4>4 DEF Images, Target
        <4> QED
          BY <1>3, <1>7, <3>2, <3>4, <4>2, <4>5 DEF Core, BusyInv
      <3>6. CASE q.op # "Present"
        <4>1. Idle'
          BY <3>3, <3>4, <3>6 DEF Idle
        <4> QED
          BY <1>7, <3>2, <3>4, <3>8, <4>1 DEF Core, IdleInv
      <3> QED
        BY <3>5, <3>6
    <2>4. CASE ~ok
      <3>1. img' \in FailedDraw(q) /\ x' = NextStep /\ GpuRefuses /\ spoilt' = spoilt
        BY <1>6, <2>1, <2>4 DEF Answer
      <3>2. /\ DOMAIN img' = Drawable /\ \A d \in Drawable : img'[d] \in Image
            /\ \A e \in Drawable \ {q.d} : Right(img[e]) => Right(img'[e])
            /\ Right(img[q.d]) => RightBut(img'[q.d], Lost(q))
        BY <1>3, <3>1, FailedDrawShape DEF Typed
      <3>3. /\ h \in {"ensure", "ensureSource"} /\ (h = "ensureSource" <=> q.op = "Over")
            /\ Ensured(q, h) = {}
        BY <1>2, <1>3, <1>11 DEF After, Ensured
      <3>4. Images(q, h)'
        BY <1>3, <2>2, <3>1, <3>2, <3>3 DEF Images, Target
      <3> QED
        BY <1>1, <1>2, <1>7, <3>1, <3>2, <3>3, <3>4, Advance
    <2> QED
      BY <1>6, <2>3, <2>4
  <1> QED
    BY <1>3, <1>9, <1>10, <1>11

-----------------------------------------------------------------------------
(* Together.                                                                *)

LEMMA InvNext ==
  ASSUME Scope, Inv, [Next]_vars
  PROVE  Inv'
  <1> SUFFICES ASSUME ~late'
               PROVE  Core'
    BY DEF Inv
  <1>1. ASSUME NEW q \in Requests, StartRequest(q)
        PROVE  Core'
    BY <1>1, StartRequestKeeps DEF Inv, StartRequest
  <1>2. CASE RunSync
    BY <1>2, RunSyncKeeps DEF Inv, RunSync
  <1>3. CASE DrawOnHeap
    BY <1>3, DrawOnHeapKeeps DEF Inv, DrawOnHeap
  <1>4. CASE ReadOrStore
    BY <1>4, ReadOrStoreKeeps DEF Inv, ReadOrStore
  <1>5. CASE SendIdleNotify
    BY <1>5, SendIdleNotifyKeeps DEF Inv, SendIdleNotify
  <1>6. CASE LockDrawables
    BY <1>6, LockDrawablesKeeps DEF Inv, LockDrawables
  <1>7. CASE Timeout
    BY <1>7 DEF Timeout
  <1>8. CASE RunTask
    BY <1>8, RunTaskKeeps DEF Inv, RunTask
  <1>9. CASE EglReady
    BY <1>9, EglReadyKeeps DEF Inv, EglReady
  <1>10. CASE BeginFrame
    <2>1. Core /\ UNCHANGED <<img, egl, x, queue, missed, spoilt>>
      BY <1>10 DEF Inv, BeginFrame
    <2> QED
      BY <2>1, Unmoved
  <1>11. ASSUME NEW w \in Window, RenderWindowDrawable(w)
         PROVE  Core'
    BY <1>11, RenderWindowDrawableKeeps DEF Inv, RenderWindowDrawable
  <1>12. CASE UNCHANGED vars
    <2>1. Core /\ UNCHANGED <<img, egl, x, queue, missed, spoilt>>
      BY <1>12 DEF Inv, vars
    <2> QED
      BY <2>1, Unmoved
  <1> QED
    BY <1>1, <1>2, <1>3, <1>4, <1>5, <1>6, <1>7, <1>8, <1>9, <1>10, <1>11, <1>12 DEF Next

\* What every step of a request leaves to the next, in every behaviour in which
\* no wait times out, and of what no failed download has spoilt.
THEOREM StepsLeaveTheImagesRight ==
  Scope => (Spec => []Inv)
  <1> SUFFICES ASSUME Scope
               PROVE  Spec => []Inv
    OBVIOUS
  <1>1. Init => Inv
    BY InvInit
  <1>2. Inv /\ [Next]_vars => Inv'
    BY InvNext
  <1> QED
    BY <1>1, <1>2, PTL DEF Spec

\* Between requests the copy that the rectangles call the newer one of a pixel
\* has it as it was drawn last, whoever of CPU and GPU drew (Drawable and
\* Texture: forceUpdate, markGpuPixelsCurrent, ensureCpuPixels): for every
\* drawable nothing was drawn on after its download, or that of the source of
\* what was drawn, had failed.
THEOREM NewerCopiesAreRight ==
  Scope => (Spec => []NewerCopyIsRight)
  <1>1. Inv => NewerCopyIsRight
    BY DEF Inv, Core, IdleInv, Right, RightBut, Uploads, NewerCopyIsRight
  <1> QED
    BY <1>1, StepsLeaveTheImagesRight, PTL

\* GetImage finds every pixel it reads from the heap downloaded (ensureCpuPixels
\* of the rectangle, RenderWindowDrawable between it and the read), unless this
\* very download has failed or the drawable is spoilt: downloads that failed for
\* earlier requests do not matter.
THEOREM GetImageReadsWhatWasDrawn ==
  Scope => (Spec => []ReadsAreRight)
  <1>1. Inv => ReadsAreRight
    BY DEF Inv, Core, BusyInv, Images, Target, At, Step, ReadsAreRight
  <1> QED
    BY <1>1, StepsLeaveTheImagesRight, PTL

\* A frame that starts between requests shows every drawable as it was drawn
\* last (Texture.updateFromDrawable with the dirty rectangle), but for those a
\* failed download has spoilt.
THEOREM FramesShowWhatWasDrawn ==
  Scope => (Spec => []FramesAreRight)
  <1>1. Inv => FramesAreRight
    <2> SUFFICES ASSUME Inv, ~late, Idle, NEW d \in Drawable \ spoilt
                 PROVE  UpdateFromDrawable(img[d]).tex = Pixel
      BY DEF FramesAreRight
    <2>1. Uploads(img[d], {})
      BY DEF Inv, Core, IdleInv, Right, RightBut
    <2>2. {} \in SUBSET Pixel
      OBVIOUS
    <2> QED
      BY <2>1, <2>2, UpdateShape
  <1> QED
    BY <1>1, StepsLeaveTheImagesRight, PTL

=============================================================================

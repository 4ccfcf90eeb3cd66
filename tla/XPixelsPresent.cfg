SPECIFICATION FairSpec
CONSTANTS
  w = w p = p
  Drawable = {w, p}
  Window = {w}
  Width = 3
  Requests <- RequestsPresent
  Parked <- ParkedLines
  GpuRefuses = TRUE
  Slow <- None
  Later <- None
INVARIANT NoLockCycle
CHECK_DEADLOCK FALSE

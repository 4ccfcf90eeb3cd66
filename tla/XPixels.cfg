SPECIFICATION FairSpec
CONSTANTS
  w = w p = p
  Drawable = {w, p}
  Window = {w}
  Width = 3
  Requests <- RequestsDraw
  Parked <- ParkedBlends
  GpuRefuses = TRUE
  Slow <- SlowFill
  Later <- LaterDraw
INVARIANTS NewerCopyIsRight ReadsAreRight FramesAreRight
PROPERTIES RequestsEnd FramesEnd
CHECK_DEADLOCK FALSE

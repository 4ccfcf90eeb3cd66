SPECIFICATION FairSpec
CONSTANTS
  w = w p = p
  Drawable = {w, p}
  Window = {w}
  Width = 3
  Requests <- RequestsMap
  Parked <- None
  GpuRefuses = FALSE
  Slow <- None
  Later <- None
PROPERTIES NoStaleUpload
CHECK_DEADLOCK FALSE

SPECIFICATION GrabSpec
CONSTANTS
  wm = wm app = app f = f g = g a = a b = b
  Client = {wm, app}
  Win = {f, g, a, b}
  Owner <- Owners
  OverrideRedirect = {g}
  Root = Root NoWindow = NoWindow PointerRoot = PointerRoot
  Unborn = Unborn Dead = Dead None = None
  Sessions <- AllSessions
  Button = {b1, b2}
  AnyButton = AnyButton
  Key = {k1, numlock}
  Selects = {a}
  Xi = {wm}
  MaxPassive = 2
INVARIANTS TreeRooted NothingDangles NobodyGone GrabsOfTheLiving AutoGrabEnds FreezeHasOwner
PROPERTIES SaveSetRestored
CHECK_DEADLOCK FALSE

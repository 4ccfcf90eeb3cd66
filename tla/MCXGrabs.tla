------------------------------ MODULE MCXGrabs ------------------------------
(* Instances of XGrabs, and XWindows in it, for TLC: a window manager and   *)
(* an application, frames of the first and windows of the second.           *)
EXTENDS XGrabs, TLC
CONSTANTS wm, app, f, g, a, b

Owners == (f :> wm) @@ (g :> wm) @@ (a :> app) @@ (b :> app)

Session(wins, at, ops) ==
  [wins |-> wins, at |-> at, ops |-> {"CreateWindow", "MapWindow"} \cup ops]
Quiet(wins, ops) == Session(wins, {Root}, ops)
Pointed(wins, ops) == Session(wins, wins \cup {Root}, ops)

AllSessions == {
  Quiet({f, g, a}, {"UnmapWindow", "ReparentWindow", "DestroyWindow", "SetInputFocus"}),
  Quiet({f, g, a}, {"ReparentWindow", "ChangeSaveSet", "SelectInput"}),
  Quiet({f, a, b}, {"ReparentWindow", "ChangeSaveSet", "DestroyWindow"}),
  Quiet({f, a}, {"CreateWindowFails", "ChangeSaveSet", "DestroyWindow", "SetSelectionOwner"}),
  Quiet({g, a}, {"SelectInput", "GrabServer"}),
  Pointed({f, a}, {"GrabButton", "AllowEvents", "Button"}),
  Pointed({f, a}, {"GrabPointer", "Button", "UnmapWindow", "MovePointer", "Confine"}),
  Pointed({f, a}, {"GrabButton", "Button", "DestroyWindow"}),
  Pointed({f}, {"GrabPointer", "GrabButton", "AllowEvents", "Button", "SetRelativeMouseMovement"}),
  Pointed({a}, {"CreateWindowFails", "GrabButton", "Button", "DestroyWindow"}),
  Pointed({f, a}, {"GrabKeyboard", "GrabKey", "Key", "DestroyWindow"})}
=============================================================================

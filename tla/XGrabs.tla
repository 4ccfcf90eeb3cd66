------------------------------- MODULE XGrabs -------------------------------
(***************************************************************************)
(* Pointer and keyboard grabs, over the window tree of XWindows: the active *)
(* and the passive grabs of GrabManager, and what the buttons and keys do   *)
(* to them in InputDeviceManager.                                           *)
(*                                                                          *)
(* Input comes from Android's threads, between any two steps of the epoll   *)
(* thread, also between the two that end a client.  WindowManager calls     *)
(* GrabManager for each window it unmaps or frees: every step of XWindows   *)
(* is composed with that here.  The delivery of events is left out but for  *)
(* the releases a synchronous grab holds back; of those it matters only     *)
(* that there are some.  Windows select KeyPress; modifiers are left out.   *)
(***************************************************************************)
EXTENDS XWindows

CONSTANTS
  Button, AnyButton,
  Key,            \* the second press of Caps Lock or Num Lock is its release
  Selects,        \* windows whose creator selects ButtonPress
  Xi,             \* clients that use the requests of XInput2 for their grabs
  MaxPassive      \* bound on the passive button grabs at one time

ASSUME GrabsAssumption ==
  /\ AnyButton \notin Button
  /\ Selects \subseteq Win /\ Xi \subseteq Client
  /\ MaxPassive \in Nat

VARIABLES
  pg,          \* the pointer grab; auto: it ends with the last button
  passive,     \* passive button grabs, in the order they were made
  kg,          \* the keyboard grab; key: passiveActivationKey, which key made it
  passiveKeys, \* passive key grabs, each for any key
  buttons, keys, \* those that are pressed
  pos,         \* the window the pointer is over, were all of them mapped
  relative     \* relative mouse movement: buttons bypass the X clients

pointerVars == <<pg, passive, buttons, pos, relative>>
keyVars == <<kg, passiveKeys, keys>>
vars == <<windowVars, pointerVars, keyVars>>

NoPointerGrab == [window |-> NoWindow, client |-> None, sync |-> FALSE, auto |-> FALSE,
                  confine |-> NoWindow, frozen |-> FALSE]
NoKeyboardGrab == [window |-> NoWindow, client |-> None, key |-> None]

GrabInit ==
  /\ Init
  /\ pg = NoPointerGrab /\ passive = <<>>
  /\ kg = NoKeyboardGrab /\ passiveKeys = {}
  /\ buttons = {} /\ keys = {}
  /\ pos \in session.at /\ relative = FALSE

Chain(w) == IF w \in Live(t) THEN {w} \cup Above(t, w) ELSE {Root}
Deepest(ws) == CHOOSE w \in ws : ws \subseteq Chain(w)

PointWindow == Deepest({w \in Chain(pos) : Viewable(t, w)})

-----------------------------------------------------------------------------
(* GrabManager                                                              *)

DeactivatePointerGrab(g) == NoPointerGrab

\* The frozen events stay for the replay.
DeactivateForReplay(g) == [NoPointerGrab EXCEPT !.frozen = g.frozen]

\* A window that only an ancestor's destruction has ended counts as mapped.
Confined(w) == IF w \in t.mapped THEN w ELSE NoWindow

\* The first grab on the nearest window that has a matching one.
ActivatePassiveButtonGrab(g, b) ==
  LET fits == {p \in ToSet(passive) : p.button \in {b, AnyButton}
                                         /\ p.window \in Chain(PointWindow)}
      nearest == Deepest({p.window : p \in fits})
      found == Head(Keep(passive, {p \in fits : p.window = nearest}))
  IN  IF g.window # NoWindow \/ fits = {} THEN g
      ELSE [g EXCEPT !.window = nearest, !.client = found.client, !.sync = found.sync,
                     !.auto = TRUE, !.confine = Confined(found.confine)]

\* The implicit grab of a press.  Nobody selects on a half-made window.
ActivateImplicit(g) ==
  LET selecting == Chain(PointWindow) \cap (Selects \ halfMade)
      w == Deepest(selecting)
  IN  IF g.window # NoWindow \/ selecting = {} THEN g
      ELSE [g EXCEPT !.window = w, !.client = Owner[w], !.auto = TRUE]

\* Mutant: the free of a window leaves the passive grabs on it.
OnFreePassiveLater(gone) == <<passive, passiveKeys>>
OnFreePassive(gone) == <<Keep(passive, {p \in ToSet(passive) : p.window \notin gone}),
                         {k \in passiveKeys : k.window \notin gone}>>

\* The listeners of GrabManager, for the windows a step of XWindows has hit.
OnUnmapOrFree ==
  LET gone == Live(t) \ Live(t')
      left == OnFreePassive(gone)
  IN  /\ pg' = IF {pg.window, pg.confine} \cap t'.hit = {} THEN pg ELSE DeactivatePointerGrab(pg)
      /\ kg' = IF kg.window \in t'.hit THEN NoKeyboardGrab ELSE kg
      /\ passive' = left[1] /\ passiveKeys' = left[2]

\* XServer.removeClient
ReleaseGrabs(c) ==
  /\ pg' = IF pg.client = c THEN DeactivatePointerGrab(pg) ELSE pg
  /\ kg' = IF kg.client = c THEN NoKeyboardGrab ELSE kg
  /\ passive' = Keep(passive, {p \in ToSet(passive) : p.client # c})
  /\ passiveKeys' = {k \in passiveKeys : k.client # c}

WindowStep ==
  /\ Next
  /\ IF leaving' # leaving /\ leaving' = None THEN ReleaseGrabs(leaving) ELSE OnUnmapOrFree
  /\ UNCHANGED <<buttons, keys, pos, relative>>

-----------------------------------------------------------------------------
(* GrabRequests, and their counterparts in XInputExtension.                 *)

GrabRequest(c, op) == Serve(c, op) /\ UNCHANGED windowVars

MayGrab(c) == pg.window = NoWindow \/ pg.client = c

\* Windows to confine the pointer to.
Confining == {NoWindow} \cup IF "Confine" \in session.ops THEN session.wins ELSE {}

\* What a synchronous grab of the same client held back stays held back.
GrabPointer(c, w, confine) ==
  /\ GrabRequest(c, "GrabPointer") /\ w \in Live(t)
  /\ MayGrab(c) /\ (relative => c \in Xi) /\ Viewable(t, w)
  /\ confine # NoWindow => confine \in Live(t) /\ Viewable(t, confine) /\ c \notin Xi
  /\ pg' = [pg EXCEPT !.window = w, !.client = c, !.sync = FALSE, !.auto = FALSE,
                      !.confine = confine]
  /\ UNCHANGED <<passive, buttons, pos, relative, keyVars>>

\* The core request asks for nobody's grab in particular.
UngrabPointer(c) ==
  /\ GrabRequest(c, "GrabPointer")
  /\ pg.window # NoWindow /\ (c \in Xi => pg.client = c)
  /\ pg' = DeactivatePointerGrab(pg)
  /\ UNCHANGED <<passive, buttons, pos, relative, keyVars>>

Overlap(p, q) == p.button = q.button \/ AnyButton \in {p.button, q.button}

GrabButton(c, p) ==
  /\ GrabRequest(c, "GrabButton") /\ p.client = c /\ p.window \in Live(t)
  /\ p.confine # NoWindow => p.confine \in Live(t) /\ c \notin Xi
  /\ Len(passive) < MaxPassive
  /\ \A q \in ToSet(passive) : ~(q.window = p.window /\ q.client # c /\ Overlap(p, q))
  /\ passive' = Append(Keep(passive, {q \in ToSet(passive) :
                  ~(/\ q.client = c /\ q.window = p.window
                    /\ p.button \in {AnyButton, q.button})}), p)
  /\ UNCHANGED <<pg, buttons, pos, relative, keyVars>>

UngrabButton(c, w, b) ==
  /\ GrabRequest(c, "GrabButton") /\ w \in Live(t)
  /\ passive' = Keep(passive, {q \in ToSet(passive) :
                  ~(q.client = c /\ q.window = w /\ b \in {AnyButton, q.button})})
  /\ UNCHANGED <<pg, buttons, pos, relative, keyVars>>

\* A release, after which `down' are pressed.
DeliverButtonRelease(g, down) ==
  IF down = {} /\ g.auto THEN DeactivatePointerGrab(g) ELSE g

\* The releases of the queue are delivered; the buttons are those of now.
FlushFrozen(g, down) ==
  IF g.frozen THEN DeliverButtonRelease([g EXCEPT !.frozen = FALSE], down) ELSE g

\* Mutant: the releases are dropped.
ThawForgets(g) == [g EXCEPT !.sync = FALSE, !.frozen = FALSE]
Thaw(g) == FlushFrozen([g EXCEPT !.sync = FALSE], buttons)

ReplayButtonPress(g, down) == FlushFrozen(ActivateImplicit(DeactivateForReplay(g)), down)

AllowEvents(c, replay) ==
  /\ GrabRequest(c, "AllowEvents") /\ pg.client = c
  /\ pg' = IF ~replay THEN Thaw(pg)
           ELSE IF pg.sync THEN ReplayButtonPress(pg, buttons) ELSE pg
  /\ UNCHANGED <<passive, buttons, pos, relative, keyVars>>

GrabKeyboard(c, w) ==
  /\ GrabRequest(c, "GrabKeyboard") /\ w \in Live(t)
  /\ kg.client \in {None, c} /\ Viewable(t, w)
  /\ kg' = [window |-> w, client |-> c, key |-> None]
  /\ UNCHANGED <<passiveKeys, keys, pointerVars>>

UngrabKeyboard(c) ==
  /\ GrabRequest(c, "GrabKeyboard") /\ kg.client = c
  /\ kg' = NoKeyboardGrab
  /\ UNCHANGED <<passiveKeys, keys, pointerVars>>

GrabKey(c, w) ==
  /\ GrabRequest(c, "GrabKey") /\ w \in Live(t)
  /\ \A k \in passiveKeys : k.window = w => k.client = c
  /\ passiveKeys' = passiveKeys \cup {[window |-> w, client |-> c]}
  /\ UNCHANGED <<kg, keys, pointerVars>>

UngrabKey(c, w) ==
  /\ GrabRequest(c, "GrabKey") /\ w \in Live(t)
  /\ passiveKeys' = passiveKeys \ {[window |-> w, client |-> c]}
  /\ UNCHANGED <<kg, keys, pointerVars>>

-----------------------------------------------------------------------------
(* Input                                                                    *)

InputEvent(kind) == kind \in session.ops /\ UNCHANGED windowVars

\* Mutant: a core client that holds back the pointer is waited for.
CoreReplayNever(g, down) == g

\* Who uses no XInput2 never sends AllowEvents: its press is replayed at once.
CoreReplay(g, down) ==
  IF g.sync /\ g.client \notin Xi THEN ReplayButtonPress(g, down) ELSE g

PressButton(b) ==
  /\ InputEvent("Button") /\ b \notin buttons
  /\ buttons' = buttons \cup {b}
  /\ pg' = IF relative THEN pg
           ELSE CoreReplay(ActivateImplicit(ActivatePassiveButtonGrab(pg, b)), buttons')
  /\ UNCHANGED <<passive, pos, relative, keyVars>>

ReleaseButton(b) ==
  /\ InputEvent("Button") /\ b \in buttons
  /\ buttons' = buttons \ {b}
  /\ pg' = IF relative THEN pg
           ELSE IF pg.sync THEN [pg EXCEPT !.frozen = TRUE]
           ELSE DeliverButtonRelease(pg, buttons')
  /\ UNCHANGED <<passive, pos, relative, keyVars>>

\* The pointer is kept in the window that confines it while there is one.
MovePointer(p) ==
  /\ InputEvent("MovePointer") /\ p \in Live(t) \cup {Root}
  /\ pg.confine \in Live(t) => p \in Subtree(t, pg.confine)
  /\ pos' = p
  /\ UNCHANGED <<pg, passive, buttons, relative, keyVars>>

SetRelativeMouseMovement ==
  /\ InputEvent("SetRelativeMouseMovement")
  /\ relative' = ~relative
  /\ UNCHANGED <<pg, passive, buttons, pos, keyVars>>

KeyFocus == IF t.focus = PointerRoot THEN PointWindow ELSE t.focus

ActivatePassiveKeyGrab(g, k) ==
  LET fits == {p \in passiveKeys : p.window \in Chain(KeyFocus)}
      w == Deepest({p.window : p \in fits})
  IN  IF g.client # None \/ t.focus = NoWindow \/ fits = {} THEN g
      ELSE [window |-> w, client |-> (CHOOSE p \in fits : p.window = w).client, key |-> k]

PressKey(k) ==
  /\ InputEvent("Key") /\ k \notin keys
  /\ keys' = keys \cup {k}
  /\ kg' = ActivatePassiveKeyGrab(kg, k)
  /\ UNCHANGED <<passiveKeys, pointerVars>>

\* Mutant: the first key that is released ends the grab.
AllReleasedAfterAny(k) == keys \ {k} # {}
AllReleasedAfter(k) == keys = {k}

\* Of a sticky key: its second press.
ReleaseKey(k) ==
  /\ InputEvent("Key") /\ k \in keys
  /\ keys' = keys \ {k}
  /\ kg' = IF kg.key # None /\ AllReleasedAfter(k) THEN NoKeyboardGrab ELSE kg
  /\ UNCHANGED <<passiveKeys, pointerVars>>

GrabNext ==
  \/ WindowStep
  \/ \E c \in Client :
       \/ \E w \in Win : \/ \E cf \in Confining : GrabPointer(c, w, cf)
                         \/ \E b \in Button \cup {AnyButton} : UngrabButton(c, w, b)
                         \/ \E b \in Button \cup {AnyButton}, s \in BOOLEAN,
                               cf \in Confining :
                              GrabButton(c, [window |-> w, client |-> c, button |-> b,
                                             sync |-> s, confine |-> cf])
                         \/ GrabKeyboard(c, w) \/ GrabKey(c, w) \/ UngrabKey(c, w)
       \/ UngrabPointer(c) \/ UngrabKeyboard(c)
       \/ \E replay \in BOOLEAN : AllowEvents(c, replay)
  \/ \E b \in Button : PressButton(b) \/ ReleaseButton(b)
  \/ \E k \in Key : PressKey(k) \/ ReleaseKey(k)
  \/ \E p \in Win \cup {Root} : MovePointer(p)
  \/ SetRelativeMouseMovement

GrabSpec == GrabInit /\ [][GrabNext]_vars

-----------------------------------------------------------------------------
(* Every grab, active or passive, is of a client that has not been removed  *)
(* and on a window that exists: what "client/window cleanup" promises, with *)
(* input that arrives between the two steps of a client's end.              *)
GrabsOfTheLiving ==
  LET Alive(g) == g.window \in Live(t) /\ g.client \in connected \cup {leaving}
  IN  /\ pg.window # NoWindow => Alive(pg)
      /\ kg.window # NoWindow => Alive(kg)
      /\ \A p \in ToSet(passive) \cup passiveKeys : Alive(p)

(* "Automatic release": a grab that a button has activated is over once all *)
(* buttons are up, unless their release is held back for a client that can  *)
(* let it go; one that a key has activated is over once all keys are up.    *)
(* (While relative movement is switched on a release is not looked at.)     *)
AutoGrabEnds ==
  /\ pg.auto /\ "SetRelativeMouseMovement" \notin session.ops => buttons # {} \/ pg.frozen
  /\ kg.key # None => keys # {}

(* Nobody holds back the pointer who cannot let it go: frozen releases      *)
(* belong to a grab, and a freeze to a client that sends AllowEvents.       *)
FreezeHasOwner ==
  /\ pg.sync => pg.window # NoWindow /\ pg.client \in Xi
  /\ pg.frozen => pg.window # NoWindow
=============================================================================

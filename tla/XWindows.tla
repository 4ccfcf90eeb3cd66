------------------------------ MODULE XWindows ------------------------------
(***************************************************************************)
(* The window tree of the X server and what points into it: the input      *)
(* focus, the owner of a selection, the save sets of window managers, the  *)
(* clients that redirect MapWindow, and the end of a client, which takes    *)
(* its windows along and gives back those of others.                        *)
(*                                                                          *)
(* Requests run one at a time on the epoll thread, under WINDOW_MANAGER.    *)
(* WindowManager changes the tree through calls that call one another; each *)
(* is an operator from a tree to a tree here, and a request applies them.   *)
(* Geometry, stacking and properties are left out.  A window id is used     *)
(* once.                                                                    *)
(***************************************************************************)
EXTENDS Integers, Sequences, FiniteSets, SequencesExt

CONSTANTS
  Client, Win,
  Owner,            \* [Win -> Client]: who creates it (Window.originClient)
  OverrideRedirect, \* windows with that attribute
  Root, NoWindow, PointerRoot,
  Unborn, Dead,     \* in place of the parent of a window that does not exist
  None,
  Sessions          \* what happens in a session: ops, the kinds of requests and
                    \* input; wins, the windows; at, where the pointer is

ASSUME WindowsAssumption ==
  /\ IsFiniteSet(Win)
  /\ Owner \in [Win -> Client] /\ OverrideRedirect \subseteq Win
  /\ {Root, NoWindow, PointerRoot, Unborn, Dead} \cap Win = {} /\ None \notin Client
  /\ Root \notin {NoWindow, PointerRoot, Unborn, Dead} /\ Unborn # Dead
  /\ \A s \in Sessions : s.wins \subseteq Win

VARIABLES
  session,    \* a member of Sessions
  t,          \* the tree: parent, mapped, focus, revertTo, and hit, the windows
              \* the last step has unmapped or freed, whose listeners it called
  halfMade,   \* windows in the tree that no client has among its resources
  saveSet,    \* [Client -> Seq(Win)]
  listener,   \* [Client -> what it selects on the root window]
  selection,  \* owner window and client of the one selection
  grabber,    \* XServer.serverGrabClient
  connected, leaving  \* leaving: its resources are freed, its grabs not yet

windowVars == <<session, t, halfMade, saveSet, listener, selection, grabber, connected, leaving>>

NoSelection == [owner |-> NoWindow, client |-> None]

Init ==
  /\ session \in Sessions
  /\ t = [parent |-> [w \in Win |-> Unborn], mapped |-> {}, focus |-> PointerRoot,
          revertTo |-> PointerRoot, hit |-> {}]
  /\ halfMade = {}
  /\ saveSet = [c \in Client |-> <<>>]
  /\ listener = [c \in Client |-> "none"]
  /\ selection = NoSelection
  /\ grabber = None
  /\ connected = Client
  /\ leaving = None

Live(tree) == {w \in Win : tree.parent[w] \notin {Unborn, Dead}}

\* The proper ancestors of w, the root window among them.
Above(tree, w) ==
  LET up[n \in 0..Cardinality(Win)] ==
        IF n = 0 THEN {tree.parent[w]}
        ELSE up[n-1] \cup {tree.parent[v] : v \in up[n-1] \cap Win}
  IN  IF w = Root THEN {} ELSE up[Cardinality(Win)]

Subtree(tree, w) == {v \in Live(tree) : v = w \/ w \in Above(tree, v)}

Viewable(tree, w) == w = Root \/ ({w} \cup Above(tree, w)) \cap Win \subseteq tree.mapped

\* The elements of s that are in `some', in their order.
KeepOne(kept, x, some) == IF x \in some THEN Append(kept, x) ELSE kept
Keep(s, some) ==
  LET kept[n \in 0..Len(s)] == IF n = 0 THEN <<>> ELSE KeepOne(kept[n-1], s[n], some)
  IN  kept[Len(s)]

-----------------------------------------------------------------------------
(* WindowManager, as operators from trees to trees.                         *)

RevertFocus(tree) ==
  [tree EXCEPT !.focus = CASE tree.revertTo = "Parent" ->
                                IF @ \in Win THEN tree.parent[@] ELSE @
                           [] OTHER -> tree.revertTo]

\* Only the window itself loses the focus, not its descendants.
Unmap(tree, w) ==
  LET hidden == [tree EXCEPT !.mapped = @ \ {w}, !.hit = @ \cup {w}]
  IN  IF w \notin tree.mapped THEN tree
      ELSE IF tree.focus = w THEN RevertFocus(hidden) ELSE hidden

Redirected(tree, w, c) ==
  /\ tree.parent[w] = Root /\ w \notin OverrideRedirect
  /\ \E d \in Client \ {c} : listener[d] = "redirect"

\* A redirected window is left to the other client, which gets a MapRequest.
Map(tree, w, c) ==
  IF Redirected(tree, w, c) /\ grabber # c THEN tree
  ELSE [tree EXCEPT !.mapped = @ \cup {w}]

\* Mutant: the focus is looked at before the subtree is gone, not with it.
DestroyFocusFirst(tree, w) ==
  LET gone == Subtree(tree, w)
  IN  IF w \notin Live(tree) THEN tree
      ELSE [Unmap(tree, w) EXCEPT
              !.parent = [v \in Win |-> IF v \in gone THEN Dead ELSE @[v]],
              !.hit = @ \cup gone]

\* Children first, each reverting the focus to its parent: with RevertToParent
\* the focus climbs out of the subtree.
Destroy(tree, w) ==
  LET gone == Subtree(tree, w)
      rest == [Unmap(tree, w) EXCEPT
                 !.parent = [v \in Win |-> IF v \in gone THEN Dead ELSE @[v]],
                 !.hit = @ \cup gone]
  IN  IF w \notin Live(tree) THEN tree
      ELSE IF rest.focus \notin gone THEN rest
      ELSE [rest EXCEPT !.focus = IF tree.revertTo = "Parent" THEN tree.parent[w]
                                  ELSE tree.revertTo]

\* Mutant: no BadMatch for a descendant.
MayReparentAnywhere(tree, w, p) == p # w

MayReparent(tree, w, p) == p # w /\ w \notin Above(tree, p)

Reparent(tree, w, p, c) ==
  LET moved == [Unmap(tree, w) EXCEPT !.parent[w] = p]
  IN  IF w \in tree.mapped THEN Map(moved, w, c) ELSE moved

-----------------------------------------------------------------------------
(* What follows the destruction of windows: every client and the selection  *)
(* hear of each of them.                                                    *)

After(tree) ==
  LET gone == Live(t) \ Live(tree)
  IN  /\ t' = tree
      /\ halfMade' = halfMade \ gone
      /\ saveSet' = [c \in Client |-> Keep(saveSet[c], Win \ gone)]
      /\ selection' = IF selection.owner \in gone THEN NoSelection ELSE selection

\* The tree at the start of a request.
Tree == [t EXCEPT !.hit = {}]

\* The epoll thread executes a request of c.
Serve(c, op) ==
  /\ op \in session.ops /\ leaving = None
  /\ c \in connected /\ grabber \in {None, c}

CreateWindow(c, w, p) ==
  /\ Serve(c, "CreateWindow")
  /\ t.parent[w] = Unborn /\ Owner[w] = c /\ w \in session.wins
  /\ p \in Live(t) \cup {Root}
  /\ t' = [Tree EXCEPT !.parent[w] = p]
  /\ UNCHANGED <<session, halfMade, saveSet, listener, selection, grabber, connected, leaving>>

\* An attribute is rejected when the window is in the tree already.
CreateWindowFails(c, w, p) ==
  /\ Serve(c, "CreateWindowFails")
  /\ t.parent[w] = Unborn /\ Owner[w] = c /\ w \in session.wins
  /\ p \in Live(t) \cup {Root}
  /\ t' = [Tree EXCEPT !.parent[w] = p]
  /\ halfMade' = halfMade \cup {w}
  /\ UNCHANGED <<session, saveSet, listener, selection, grabber, connected, leaving>>

MapWindow(c, w) ==
  /\ Serve(c, "MapWindow") /\ w \in Live(t)
  /\ t' = Map(Tree, w, c)
  /\ UNCHANGED <<session, halfMade, saveSet, listener, selection, grabber, connected, leaving>>

UnmapWindow(c, w) ==
  /\ Serve(c, "UnmapWindow") /\ w \in Live(t)
  /\ t' = Unmap(Tree, w)
  /\ UNCHANGED <<session, halfMade, saveSet, listener, selection, grabber, connected, leaving>>

DestroyWindow(c, w) ==
  /\ Serve(c, "DestroyWindow") /\ w \in Live(t)
  /\ After(Destroy(Tree, w))
  /\ UNCHANGED <<session, listener, grabber, connected, leaving>>

ReparentWindow(c, w, p) ==
  /\ Serve(c, "ReparentWindow") /\ w \in Live(t) /\ p \in Live(t) \cup {Root}
  /\ MayReparent(t, w, p)
  /\ t' = Reparent(Tree, w, p, c)
  /\ UNCHANGED <<session, halfMade, saveSet, listener, selection, grabber, connected, leaving>>

\* WindowAttributes.isViewable is a flag of its own, which the server leaves
\* set: a window that is not mapped gets the focus too.
SetInputFocus(c, w, revertTo) ==
  /\ Serve(c, "SetInputFocus")
  /\ w \in Live(t) \cup {Root, NoWindow, PointerRoot}
  /\ t' = [Tree EXCEPT !.focus = w, !.revertTo = revertTo]
  /\ UNCHANGED <<session, halfMade, saveSet, listener, selection, grabber, connected, leaving>>

ChangeSaveSet(c, w) ==
  /\ Serve(c, "ChangeSaveSet") /\ w \in Live(t) /\ Owner[w] # c
  /\ saveSet' = [saveSet EXCEPT ![c] = IF w \in ToSet(@) THEN Keep(@, Win \ {w})
                                       ELSE Append(@, w)]
  /\ t' = Tree
  /\ UNCHANGED <<session, halfMade, listener, selection, grabber, connected, leaving>>

\* ChangeWindowAttributes(EventMask) on the root window: redirects or selects
\* nothing.  A listener taken back stays in the map of the client, where
\* isInterestedIn finds it.
MayRedirect(c) ==
  listener[c] # "none" \/ \A d \in Client : listener[d] # "redirect"

SelectInput(c, redirect) ==
  /\ Serve(c, "SelectInput")
  /\ redirect => MayRedirect(c)
  /\ listener' = [listener EXCEPT ![c] = IF redirect THEN "redirect"
                                         ELSE IF @ = "none" THEN @ ELSE "stale"]
  /\ t' = Tree
  /\ UNCHANGED <<session, halfMade, saveSet, selection, grabber, connected, leaving>>

SetSelectionOwner(c, w) ==
  /\ Serve(c, "SetSelectionOwner") /\ w \in Live(t) \cup {NoWindow}
  /\ selection' = IF w = NoWindow THEN NoSelection ELSE [owner |-> w, client |-> c]
  /\ t' = Tree
  /\ UNCHANGED <<session, halfMade, saveSet, listener, grabber, connected, leaving>>

GrabServer(c) ==
  /\ Serve(c, "GrabServer")
  /\ grabber' = c /\ t' = Tree
  /\ UNCHANGED <<session, halfMade, saveSet, listener, selection, connected, leaving>>

UngrabServer(c) ==
  /\ Serve(c, "GrabServer") /\ grabber = c
  /\ grabber' = None /\ t' = Tree
  /\ UNCHANGED <<session, halfMade, saveSet, listener, selection, connected, leaving>>

-----------------------------------------------------------------------------
(* The end of a client.                                                     *)

\* Mutant: climbs one step only.
ClosestForeignOnce(tree, c, w) ==
  LET p == tree.parent[w] IN IF p \in Win /\ Owner[p] = c THEN tree.parent[p] ELSE p

\* The nearest ancestor the client has not created; Root is nobody's.
ClosestForeign(tree, c, w) ==
  LET foreign == {a \in Above(tree, w) : a \in Win => Owner[a] # c}
  IN  CHOOSE a \in foreign : \A b \in foreign : b = a \/ b \in Above(tree, a)

RestoreWindow(tree, c, w) == Map(Reparent(tree, w, ClosestForeign(tree, c, w), c), w, c)

RestoreSaveSet(tree, c) ==
  LET saved == saveSet[c]
      after[n \in 0..Len(saved)] ==
        IF n = 0 THEN tree ELSE RestoreWindow(after[n-1], c, saved[n])
  IN  after[Len(saved)]

DestroyResources(tree, c) ==
  LET mine == SetToSeq({w \in Live(tree) \ halfMade : Owner[w] = c})
      after[n \in 0..Len(mine)] == IF n = 0 THEN tree ELSE Destroy(after[n-1], mine[n])
  IN  after[Len(mine)]

ReleaseClientSelections(c) == IF selection.client = c THEN NoSelection ELSE selection

FreeListenersLater(c) == listener       \* mutant: they stay on the windows
FreeListeners(c) == [listener EXCEPT ![c] = "none"]

FreeResources(c) ==
  LET tree == DestroyResources(RestoreSaveSet(Tree, c), c)
      gone == Live(t) \ Live(tree)
      mine == ReleaseClientSelections(c)
  IN  /\ leaving = None /\ c \in connected
      /\ t' = tree
      /\ halfMade' = halfMade \ gone
      /\ saveSet' = [d \in Client |-> IF d = c THEN <<>>
                       ELSE Keep(saveSet[d], Win \ gone)]
      /\ selection' = IF mine.owner \in gone THEN NoSelection ELSE mine
      /\ listener' = FreeListeners(c)
      /\ connected' = connected \ {c} /\ leaving' = c
      /\ UNCHANGED <<session, grabber>>

RemoveClient ==
  /\ leaving # None
  /\ leaving' = None
  /\ grabber' = IF grabber = leaving THEN None ELSE grabber
  /\ t' = Tree
  /\ UNCHANGED <<session, halfMade, saveSet, listener, selection, connected>>

Next ==
  \/ \E c \in Client :
       \/ \E w \in Win :
            \/ \E p \in Win \cup {Root} : CreateWindow(c, w, p) \/ CreateWindowFails(c, w, p)
                                            \/ ReparentWindow(c, w, p)
            \/ MapWindow(c, w) \/ UnmapWindow(c, w) \/ DestroyWindow(c, w)
            \/ ChangeSaveSet(c, w)
       \/ \E w \in Win \cup {Root, NoWindow, PointerRoot},
             revertTo \in {NoWindow, PointerRoot, "Parent"} : SetInputFocus(c, w, revertTo)
       \/ \E w \in Win \cup {NoWindow} : SetSelectionOwner(c, w)
       \/ \E redirect \in BOOLEAN : SelectInput(c, redirect)
       \/ GrabServer(c) \/ UngrabServer(c)
       \/ FreeResources(c)
  \/ RemoveClient

Spec == Init /\ [][Next]_windowVars

-----------------------------------------------------------------------------
(* Every window that exists hangs below the root window: no ReparentWindow  *)
(* closes a cycle, no destruction leaves a part of the tree behind.         *)
TreeRooted == \A w \in Live(t) : Root \in Above(t, w) /\ Above(t, w) \cap Win \subseteq Live(t)

(* The focus, the selection and the save sets name windows that exist,      *)
(* whichever client destroys or reparents what first.                       *)
NothingDangles ==
  /\ t.focus \in Win => t.focus \in Live(t)
  /\ selection.owner \in Win => selection.owner \in Live(t)
  /\ \A c \in Client : ToSet(saveSet[c]) \subseteq Live(t)

(* A client that is gone owns no selection, redirects no MapWindow, which   *)
(* would wait for its answer for ever, holds no grab of the server, and has *)
(* no windows but those its CreateWindow left half made.                    *)
NobodyGone ==
  /\ selection.client \in connected \cup {None}
  /\ \A c \in Client \ connected : listener[c] = "none" /\ saveSet[c] = <<>>
  /\ grabber \in connected \cup {leaving, None}
  /\ \A w \in Live(t) \ halfMade : Owner[w] \in connected

(* The end of a client returns the windows of its save set: each still      *)
(* exists and is mapped, or a window manager is asked to map it, wherever   *)
(* the client's frames had been nested.  A window within another client's   *)
(* window that is itself in a frame goes with the frame.                    *)
Carried(c, w) == \E p \in Above(t, w) \cap Win :
                   Owner[p] # c /\ \E f \in Above(t, p) \cap Win : Owner[f] = c
SaveSetRestored ==
  [][\A c \in Client : leaving' = c /\ leaving = None =>
       \A w \in ToSet(saveSet[c]) :
         Carried(c, w) \/ (w \in Live(t)' /\ (w \in t'.mapped \/ Redirected(t, w, c)'))]_windowVars
=============================================================================

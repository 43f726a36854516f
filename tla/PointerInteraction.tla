-------------------------- MODULE PointerInteraction --------------------------
(***************************************************************************)
(* Who owns the pointer: the client under it, a drag of the compositor     *)
(* (window_grab.rs, split_grab.rs) or a screenshot selection               *)
(* (screenshot.rs). Each keeps a set of buttons of its own; smithay keeps  *)
(* a fourth one with its pointer grab, and the hand a fifth.               *)
(*                                                                         *)
(* An action is one event of a backend, a request or a change of layout,   *)
(* with everything its handler does. What lies under the pointer is an \E. *)
(* Of the geometry only the three things a drag can change are kept, each  *)
(* as one of a few shapes: the place of a floating window, the master      *)
(* ratio and the weights of the stack. One window, the dialog, stands for  *)
(* the floating ones.                                                      *)
(***************************************************************************)
EXTENDS Naturals, FiniteSets

CONSTANTS Buttons, Left,       \* the buttons of the mouse; Left is 0x110
          Tiles,               \* the other windows of the workspace
          Dialog,              \* the window that may float
          Shapes,              \* values of what a drag can change
          Backends,            \* "winit" or "tty": which of them may run
          NoButton, NoWindow, NoDrag

ASSUME PointerAssumption ==
  /\ Left \in Buttons /\ NoButton \notin Buttons
  /\ Dialog \notin Tiles /\ NoWindow \notin Tiles \cup {Dialog}
  /\ Backends \subseteq {"winit", "tty"}

VARIABLE seat

Windows == Tiles \cup {Dialog}
Workspaces == {1, 2}           \* the windows are on the first, the second is empty
SplitKinds == {"master", "stack"}
FloatKinds == {"move", "resize"}

\* The windows of a workspace are a list, here the pairs of a window and a later one.
Relations == SUBSET (Windows \X Windows)
Orders == {r \in Relations :
             \A w, x \in Windows :
               /\ (<<w, x>> \in r) = (w # x /\ <<x, w>> \notin r)
               /\ \A y \in Windows : <<w, x>> \in r /\ <<x, y>> \in r => <<w, y>> \in r}
Among(r, S) == {p \in r : p[1] \in S /\ p[2] \in S}

\* struct Interaction with its Operation; saved is what a cancellation restores.
Drags == [kind : FloatKinds \cup SplitKinds \cup {"tile"}, window : Windows \cup {NoWindow},
          saved : Shapes \cup {NoWindow}, context : Relations, workspace : Workspaces,
          button : Buttons \cup {NoButton}, moved : BOOLEAN, destination : Windows \cup {NoWindow}]
ASSUME DragAssumption == NoDrag \notin Drags

States ==
  [backend : Backends,
   host : BOOLEAN,                               \* host_focused
   held : SUBSET Buttons,                        \* by the hand
   pressed : SUBSET Buttons,                     \* pressed_buttons
   swallowed : SUBSET Buttons,                   \* swallowed_buttons
   intercepted : SUBSET Buttons,                 \* screenshot.intercepted_buttons
   seen : SUBSET Buttons,                        \* by the seat, and so by its focus
   grab : {"none", "click", "drag"},             \* the grab of the seat, ours is WindowGrab
   start : Buttons \cup {NoButton},              \* the button a click grab began with
   selection : {"none", "waiting", "dragging"},
   stale : BOOLEAN,                              \* the pointer moved behind its focus
   drag : Drags \cup {NoDrag},                   \* interaction
   splitDrag : BOOLEAN,                          \* split_drag_active
   resizing : BOOLEAN,                           \* what the dialog's client was told
   active : Workspaces,
   order : Relations, away : SUBSET Tiles,       \* of the first workspace; minimised or closed
   dialog : {"floating", "tiled", "covering", "away"}, \* minimised, or closed and opened anew
   place : Shapes, ratio : Shapes, weights : Shapes]  \* of that workspace as well

\* The dialog is opened last.
Init == \E backend \in Backends, shape \in Shapes, order \in Orders :
  /\ \A w \in Tiles : <<w, Dialog>> \in order
  /\ seat = [backend |-> backend, host |-> TRUE, held |-> {}, pressed |-> {}, swallowed |-> {},
             intercepted |-> {}, seen |-> {}, grab |-> "none", start |-> NoButton,
             selection |-> "none", stale |-> FALSE, drag |-> NoDrag, splitDrag |-> FALSE,
             resizing |-> FALSE, active |-> 1, order |-> order, away |-> {},
             dialog |-> "floating", place |-> shape, ratio |-> shape, weights |-> shape]

-----------------------------------------------------------------------------
(* Readings of the state                                                   *)

Dragging(s) == s.drag # NoDrag
Selecting(s) == s.selection # "none"
Intercepting(s) == Selecting(s) \/ s.intercepted # {}

\* The button whose release ends the drag.
DragButton(s) == IF s.drag.button = NoButton THEN Left ELSE s.drag.button

\* floating_geometry() is there, and tiled_slots() on the active workspace.
Floating(s) == s.dialog = "floating"
Tiled(s, w) == IF w = Dialog THEN s.dialog = "tiled" ELSE w \notin s.away
Slots(s) == IF s.active # 1 \/ s.dialog = "covering" THEN {}
            ELSE {w \in Windows : Tiled(s, w)}

\* split_context(), less the area: at least two tiles, none of them covered, or
\* there is no pair.
SplitContext(s) == Among(s.order, Slots(s))

\* can_start_interaction(). Shell surfaces and the overview may refuse as well, as
\* every action that begins a drag leaves open.
CanStart(s) == s.host /\ ~Dragging(s) /\ s.grab = "none" /\ ~Intercepting(s)
               /\ \A b, c \in s.pressed : b = c

Operation(kind, window, saved, context) ==
  [kind |-> kind, window |-> window, saved |-> saved, context |-> context]

MasterOperations(s) ==
  IF SplitContext(s) = {} THEN {}
  ELSE {Operation("master", NoWindow, s.ratio, SplitContext(s))}

\* window_operation() for every window it does not refuse.
WindowOperations(s, resize) ==
  (IF Floating(s) /\ s.active = 1
   THEN {Operation(IF resize THEN "resize" ELSE "move", Dialog, s.place, {})} ELSE {})
  \cup (IF resize THEN MasterOperations(s)
        ELSE {Operation("tile", w, NoWindow, {}) : w \in Slots(s)})

EdgeOperations(s) == {op \in WindowOperations(s, TRUE) : op.kind = "resize"}

\* stack_divider_under_pointer() and split_under_pointer()
DividerOperations(s) ==
  MasterOperations(s) \cup
  (IF Cardinality(Slots(s)) >= 3
   THEN {Operation("stack", NoWindow, s.weights, SplitContext(s))} ELSE {})

-----------------------------------------------------------------------------
(* The end of a drag                                                       *)

\* swap_tiles(): the weights belong to the slots and stay.
SwapTiles(order, w, x) ==
  LET Swap(y) == IF y = w THEN x ELSE IF y = x THEN w ELSE y
  IN {p \in Windows \X Windows : <<Swap(p[1]), Swap(p[2])>> \in order}

\* What a drag leaves behind: a committed one its tile in its new slot, a cancelled
\* one everything as it was, on the workspace it began on.
Leave(s, commit) ==
  LET d == s.drag
      restore == ~commit /\ d.workspace = s.active
  IN CASE d.kind \in FloatKinds /\ restore /\ Floating(s) -> [s EXCEPT !.place = d.saved]
       [] d.kind = "master" /\ restore -> [s EXCEPT !.ratio = d.saved]
       [] d.kind = "stack" /\ restore -> [s EXCEPT !.weights = d.saved]
       [] d.kind = "tile" /\ commit /\ d.moved /\ d.destination # NoWindow ->
            [s EXCEPT !.order = SwapTiles(@, d.window, d.destination)]
       [] OTHER -> s

\* A faulty variant of Finish: the client of a cancelled resize is not told.
FinishResizing(s, commit) ==
  IF ~Dragging(s) THEN s
  ELSE [Leave(s, commit) EXCEPT !.drag = NoDrag, !.splitDrag = FALSE,
                                !.resizing = @ /\ ~(commit /\ s.drag.kind = "resize")]

\* finish_window_interaction(). The grab and the buttons are left to the caller.
Finish(s, commit) ==
  IF ~Dragging(s) THEN s
  ELSE [Leave(s, commit) EXCEPT !.drag = NoDrag, !.splitDrag = FALSE,
                                !.resizing = @ /\ s.drag.kind # "resize"]

Cancel(s) == Finish(s, FALSE)

\* release_pointer_buttons()
ReleaseButtons(s) ==
  [Cancel(s) EXCEPT !.pressed = {}, !.seen = @ \ s.pressed, !.grab = "none", !.start = NoButton]

\* Whether the drag may go on: nothing it was begun on has changed.
Valid(s) ==
  LET d == s.drag
  IN /\ d.workspace = s.active
     /\ d.kind \in FloatKinds => Floating(s)
     /\ d.kind = "tile" => d.window \in Slots(s)
     /\ d.kind \in SplitKinds => d.context = SplitContext(s)

\* The drag with the pointer at a place that means shape, or lies over the tile under.
Dragged(s, shape, moved, under) ==
  LET d == s.drag
      m == d.moved \/ moved
      t == [s EXCEPT !.drag.moved = m,
                     !.drag.destination = IF d.kind = "tile" /\ under \in Slots(s) \ {d.window}
                                          THEN under ELSE NoWindow]
  IN CASE d.kind \in FloatKinds -> IF m THEN [t EXCEPT !.place = shape] ELSE t
       [] d.kind = "tile" -> t
       [] d.kind = "master" -> [t EXCEPT !.ratio = shape]
       [] d.kind = "stack" -> [t EXCEPT !.weights = shape]

\* WindowGrab.motion() and interaction_motion() after the pointer has moved, and the
\* cleanup that the surface refresh does for a drag that ended in it.
MotionStates(s) ==
  LET t == [s EXCEPT !.stale = FALSE]
  IN IF s.grab # "drag" THEN {t}
     ELSE IF ~Valid(t) THEN {ReleaseButtons(t)}
     ELSE {Dragged(t, shape, moved, under) :
             shape \in Shapes, moved \in BOOLEAN, under \in Windows \cup {NoWindow}}

\* refresh_pointer_surface() without a motion of its own: a drag only notices what a
\* selection has hidden from it.
RefreshStates(s) ==
  IF s.grab # "drag" \/ s.stale THEN MotionStates(s)
  ELSE {IF Valid(s) THEN s ELSE ReleaseButtons(s)}

\* relayout_active_workspace(): a drag ends first, and a click grab whose surface
\* has gone out of sight ends after it.
RelayoutStates(s) ==
  LET t == IF Dragging(s) THEN ReleaseButtons(s) ELSE s
      hidden == IF t.grab = "click" THEN {t, ReleaseButtons(t)} ELSE {t}
  IN UNION {RefreshStates(u) : u \in hidden}

-----------------------------------------------------------------------------
(* The beginning of a drag                                                 *)

\* install_interaction(): the seat's focus is cleared, and what it had seen with it
\* belongs to the drag.
Install(s, op, button) ==
  [s EXCEPT !.swallowed = @ \cup ({button} \ {NoButton}),
            !.splitDrag = op.kind \in SplitKinds,
            !.resizing = @ \/ op.kind = "resize",
            !.drag = [kind |-> op.kind, window |-> op.window, saved |-> op.saved,
                      context |-> op.context, workspace |-> s.active, button |-> button,
                      moved |-> FALSE, destination |-> NoWindow],
            !.grab = "drag", !.start = IF button = NoButton THEN Left ELSE button]

\* start_compositor_interaction(): our grab is shown the press it begins with.
StartDrag(s, op, button) ==
  [Install(s, op, button) EXCEPT !.seen = @ \cup ({button} \ {NoButton})]

\* begin_window_interaction(), asked by a binding, the title bar or over the socket:
\* the one pressed button, if there is one, will end it.
SolePressed(s) == IF s.pressed = {} THEN NoButton ELSE CHOOSE b \in s.pressed : TRUE
BeginStates(s, resize) ==
  IF ~CanStart(s) THEN {s}
  ELSE {s} \cup {StartDrag(s, op, SolePressed(s)) : op \in WindowOperations(s, resize)}

\* switch_workspace_immediate(): a click on a visible shell surface is kept.
SwitchStates(s, i) ==
  LET kept == IF s.grab = "click" THEN {s, ReleaseButtons(s)} ELSE {ReleaseButtons(s)}
  IN UNION {RelayoutStates([t EXCEPT !.active = i]) : t \in kept}

\* resize_master()
ResizeStates(s) ==
  IF SplitContext(s) = {} THEN {s}
  ELSE UNION {RefreshStates([ReleaseButtons(s) EXCEPT !.ratio = shape]) : shape \in Shapes}

\* What a key or mouse binding or a request dispatches, as far as it matters here.
DispatchStates(s) ==
  BeginStates(s, TRUE) \cup BeginStates(s, FALSE) \cup ResizeStates(s)
    \cup UNION {SwitchStates(s, i) : i \in Workspaces}

-----------------------------------------------------------------------------
(* The screenshot selection                                                *)

\* cancel()
CancelSelection(s, restore) ==
  LET t == [s EXCEPT !.selection = "none"]
  IN IF ~Selecting(s) THEN {s}
     ELSE IF restore /\ s.intercepted = {} THEN RefreshStates(t) ELSE {t}

\* screenshot::begin() of a region. Capturing the frame may fail, which like a refusal
\* leaves everything as it was; the other modes finish at once.
SelectionBegin ==
  /\ ~Selecting(seat) /\ seat.intercepted = {} /\ seat.pressed = {}
  /\ seat' = [seat EXCEPT !.selection = "waiting"]

\* screenshot::pointer_button() of a press it takes.
ScreenshotPress(s, b) ==
  [s EXCEPT !.intercepted = @ \cup {b},
            !.selection = IF b = Left /\ Selecting(s) THEN "dragging" ELSE @]

\* A faulty variant of ScreenshotRelease: nothing is refreshed for a button released late.
ScreenshotReleaseForgets(s, b) ==
  LET t == [s EXCEPT !.intercepted = @ \ {b}]
      ends == b = Left /\ b \in s.intercepted /\ Selecting(s)
      u == IF ends THEN [t EXCEPT !.selection = "none"] ELSE t
  IN IF ends /\ u.intercepted = {} THEN RefreshStates(u) ELSE {u}

\* ... and of a release: the selection is over before anything is cut out, encoded or
\* saved, any of which may fail.
ScreenshotRelease(s, b) ==
  LET t == [s EXCEPT !.intercepted = @ \ {b}]
      u == IF b = Left /\ b \in s.intercepted THEN [t EXCEPT !.selection = "none"] ELSE t
  IN IF ~Selecting(u) /\ u.intercepted = {} THEN RefreshStates(u) ELSE {u}

-----------------------------------------------------------------------------
(* Buttons                                                                 *)

\* The press of b enters handle_compositor_button().
Entered(s, b) == [s EXCEPT !.held = @ \cup {b}, !.swallowed = @ \ {b}, !.pressed = @ \cup {b}]
Swallow(s, b) == [s EXCEPT !.swallowed = @ \cup {b}]
TakenBySelection(s, b) == Selecting(s) \/ b \in s.intercepted
TakenByDrag(s, b) == Dragging(s) /\ DragButton(s) # b

PressTakenBySelection(b) ==
  /\ seat.host /\ b \notin seat.held /\ TakenBySelection(seat, b)
  /\ seat' = ScreenshotPress([seat EXCEPT !.held = @ \cup {b}], b)

\* Whatever follows is not for a press the selection takes.
Pressing(b) == seat.host /\ b \notin seat.held /\ ~TakenBySelection(seat, b)

PressTakenByDrag(b) ==
  /\ Pressing(b) /\ TakenByDrag(seat, b)
  /\ seat' = Swallow(Entered(seat, b), b)

PressOnBinding(b) ==
  /\ Pressing(b) /\ ~TakenByDrag(seat, b) /\ CanStart(Entered(seat, b))
  /\ seat' \in DispatchStates(Swallow(Entered(seat, b), b))

\* The states in which a control of the title bar, or a second click on it, has closed,
\* minimised, maximised or floated its window.
Dialogs(s, d) == [s EXCEPT !.dialog = d]
Away(s, w) == IF w = Dialog THEN Dialogs(s, "away") ELSE [s EXCEPT !.away = @ \cup {w}]
Controls(s) ==
  {Away(s, w) : w \in Slots(s) \cup {Dialog}}
  \cup {Dialogs(ReleaseButtons(s), d) :
          d \in IF s.dialog \in {"floating", "tiled"}
                THEN {"covering", "floating", "tiled"} ELSE {}}
ControlStates(s) == UNION {RelayoutStates(t) : t \in Controls(s)}

\* handle_gallery_titlebar()
PressOnTitlebar ==
  /\ Pressing(Left) /\ ~TakenByDrag(seat, Left) /\ CanStart(Entered(seat, Left))
  /\ seat.active = 1
  /\ LET s == Swallow(Entered(seat, Left), Left)
     IN seat' \in BeginStates(s, FALSE) \cup ControlStates(s)

\* try_start_edge_resize() and try_start_split_drag()
PressOnEdge ==
  /\ Pressing(Left) /\ ~TakenByDrag(seat, Left) /\ CanStart(Entered(seat, Left))
  /\ \E op \in EdgeOperations(seat) \cup DividerOperations(seat) :
       seat' = StartDrag(Entered(seat, Left), op, Left)

\* The press goes to the seat, where our grab swallows it and a click begins a grab.
PressThrough(b) ==
  /\ Pressing(b) /\ ~TakenByDrag(seat, b)
  /\ \E s \in RefreshStates(Entered(seat, b)) :
       seat' = IF s.grab = "drag" THEN [Swallow(s, b) EXCEPT !.seen = @ \cup {b}]
               ELSE [s EXCEPT !.seen = @ \cup {b}, !.grab = "click",
                              !.start = IF s.grab = "none" THEN b ELSE @]

\* handle_compositor_button() of a release, and what the seat does with it when it is
\* not swallowed: our grab commits, the last button ends a click.
Released(s, b) ==
  LET t == [s EXCEPT !.swallowed = @ \ {b}, !.pressed = @ \ {b}]
      toSeat == /\ b \in s.pressed
                /\ b \in s.swallowed => Dragging(s) /\ DragButton(s) = b
      Seen(u) == [u EXCEPT !.seen = @ \ {b}]
  IN IF ~toSeat THEN {t}
     ELSE {IF Dragging(u) /\ DragButton(u) = b
           THEN [Finish(Seen(u), TRUE) EXCEPT !.grab = "none", !.start = NoButton]
           ELSE IF u.grab = "click" /\ u.seen = {b}
                THEN [Seen(u) EXCEPT !.grab = "none", !.start = NoButton]
                ELSE Seen(u) : u \in RefreshStates(t)}

ButtonRelease(b) ==
  /\ seat.host /\ b \in seat.held
  /\ LET s == [seat EXCEPT !.held = @ \ {b}]
     IN seat' \in IF TakenBySelection(s, b) THEN ScreenshotRelease(s, b) ELSE Released(s, b)

\* While the host or another session has the input, buttons change unseen.
ButtonUnseen(b) ==
  /\ ~seat.host
  /\ seat' = [seat EXCEPT !.held = IF b \in @ THEN @ \ {b} ELSE @ \cup {b}]

\* pointer_motion() of a selection, or the motion that follows it everywhere else.
PointerMotion ==
  /\ seat.host
  /\ seat' \in IF Intercepting(seat) THEN {[seat EXCEPT !.stale = TRUE]} ELSE MotionStates(seat)

-----------------------------------------------------------------------------
(* Keys and requests                                                       *)

\* Escape and Return in the key filter: a selection is asked before a drag, and only
\* a drag knows Return (finish_interaction_key).
EscapeKey ==
  /\ seat.host
  /\ \/ Selecting(seat) /\ seat' \in CancelSelection(seat, TRUE)
     \/ /\ ~Selecting(seat) /\ Dragging(seat)
        /\ seat' \in RefreshStates(ReleaseButtons(Cancel(seat)))

ReturnKey ==
  /\ seat.host /\ ~Selecting(seat) /\ Dragging(seat)
  /\ seat' \in RefreshStates(ReleaseButtons(Finish(seat, TRUE)))

Request == seat' \in DispatchStates(seat)

\* start_window_grab(): the client under the click asks to be moved or resized.
ClientAsks(resize) ==
  /\ seat.grab = "click" /\ ~Dragging(seat)
  /\ seat.pressed = {seat.start}
  /\ \E op \in WindowOperations(seat, resize) : seat' = Install(seat, op, seat.start)

-----------------------------------------------------------------------------
(* What happens to the windows meanwhile                                   *)

\* add_workspace_window(), restore_window(), remove_managed_window() and Minimize.
\* A window that is new comes last, one that was minimised where it was.
AtEnd(order, w) == Among(order, Windows \ {w}) \cup ((Windows \ {w}) \X {w})
Arrivals(s, w) == {s, [s EXCEPT !.order = AtEnd(@, w)]}
TileAppears(w) ==
  /\ w \in seat.away
  /\ \E s \in Arrivals(seat, w) : seat' \in RelayoutStates([s EXCEPT !.away = @ \ {w}])
TileGoes(w) == w \notin seat.away /\ seat' \in RelayoutStates(Away(seat, w))

DialogAppears ==
  /\ seat.dialog = "away"
  /\ \E s \in Arrivals(seat, Dialog), shape \in Shapes :
       seat' \in RelayoutStates([s EXCEPT !.dialog = "floating", !.place = shape])
DialogGoes ==
  /\ seat.dialog \in {"floating", "tiled"}
  /\ seat' \in RelayoutStates(Dialogs(seat, "away"))

\* A faulty variant of DialogChanges: the window is covering before the drag is cancelled.
DialogChangesUnderDrag ==
  /\ seat.dialog \in {"floating", "tiled", "covering"}
  /\ \E d \in {"floating", "tiled", "covering"} \ {seat.dialog} :
       seat' \in RelayoutStates(ReleaseButtons(Dialogs(seat, d)))

\* set_window_fullscreen(), set_window_maximized() and toggle_floating_focused(), all of
\* which release the pointer first.
DialogChanges ==
  /\ seat.dialog \in {"floating", "tiled", "covering"}
  /\ \E d \in {"floating", "tiled", "covering"} \ {seat.dialog} :
       seat' \in RelayoutStates(Dialogs(ReleaseButtons(seat), d))

\* Everything else that lays out again or takes the pointer away: a configuration, an
\* output size, the overview, a shell surface that wants the keyboard.
LayOutAgain == seat' \in RelayoutStates(seat)
PointerTaken == seat' \in RefreshStates(ReleaseButtons(seat))

-----------------------------------------------------------------------------
(* The backends                                                            *)

\* WinitEvent::Focus
FocusLost ==
  /\ seat.backend = "winit" /\ seat.host
  /\ seat' \in UNION {RefreshStates(ReleaseButtons([t EXCEPT !.host = FALSE, !.intercepted = {}])) :
                       t \in CancelSelection(seat, FALSE)}
FocusGained ==
  /\ seat.backend = "winit" /\ ~seat.host
  /\ seat' \in RefreshStates([seat EXCEPT !.host = TRUE])

\* SessionEvent of the TTY: a selection survives, with the buttons it took.
PauseSession ==
  /\ seat.backend = "tty" /\ seat.host
  /\ seat' \in RefreshStates([ReleaseButtons(seat) EXCEPT !.host = FALSE])
ActivateSession ==
  /\ seat.backend = "tty" /\ ~seat.host
  /\ seat' \in RefreshStates([seat EXCEPT !.host = TRUE])

\* InputEvent::DeviceRemoved: the buttons are taken to be up, whoever held them.
DeviceRemoved ==
  /\ seat.backend = "tty"
  /\ seat' = ReleaseButtons(seat)

Next ==
  \/ SelectionBegin
  \/ \E b \in Buttons : PressTakenBySelection(b) \/ PressTakenByDrag(b) \/ PressOnBinding(b)
  \/ PressOnTitlebar \/ PressOnEdge
  \/ \E b \in Buttons : PressThrough(b) \/ ButtonRelease(b) \/ ButtonUnseen(b)
  \/ PointerMotion \/ EscapeKey \/ ReturnKey \/ Request
  \/ \E resize \in BOOLEAN : ClientAsks(resize)
  \/ \E w \in Tiles : TileAppears(w) \/ TileGoes(w)
  \/ DialogAppears \/ DialogGoes \/ DialogChanges
  \/ LayOutAgain \/ PointerTaken
  \/ FocusLost \/ FocusGained \/ PauseSession \/ ActivateSession \/ DeviceRemoved

Spec == Init /\ [][Next]_seat

-----------------------------------------------------------------------------
(* What must hold                                                          *)

\* The state is of its type.
TypeOK == seat \in States

\* A drag and its grab come and go together, in whatever order releases, keys, layout
\* changes and backends end them: a grab without a drag would take every event from
\* the clients, a drag without a grab could not end. The cursor flag of a split
\* and the state a resized client was told of go with it, its subject is there to be
\* dragged, and a drag held by a button shares the pointer with no selection.
DragOwnsPointer ==
  /\ TypeOK
  /\ Dragging(seat) <=> seat.grab = "drag"
  /\ seat.splitDrag <=> Dragging(seat) /\ seat.drag.kind \in SplitKinds
  /\ seat.resizing <=> Dragging(seat) /\ seat.drag.kind = "resize"
  /\ Dragging(seat) =>
       LET d == seat.drag
       IN /\ seat.host /\ d.workspace = seat.active
          /\ d.kind \in FloatKinds => Floating(seat)
          /\ d.kind = "tile" => d.window \in Slots(seat)
          /\ d.kind \in SplitKinds => d.context = SplitContext(seat)
          /\ d.button # NoButton => ~Selecting(seat) /\ d.button \in seat.pressed

\* Every button of pressed_buttons is down, and one party has it: the seat, and so a
\* client that will see its release, a drag, or a binding that swallowed it; the selection
\* has none of them. The seat believes no other button down, and has its click grab just
\* while it does. When the screenshot has let go of all of its buttons the focus is where
\* the pointer is. A button held while its device is removed or the session pauses is in
\* none of the sets, and intercepted_buttons may name one that has been let go since.
ButtonsAccounted ==
  /\ seat.pressed \subseteq seat.held
  /\ seat.pressed \cap seat.intercepted = {}
  /\ seat.seen \subseteq seat.pressed
  /\ seat.pressed \ seat.swallowed \subseteq seat.seen
  /\ ~Dragging(seat) => seat.seen \cap seat.swallowed = {}
  /\ seat.grab = "click" <=> ~Dragging(seat) /\ seat.seen # {}
  /\ seat.stale => Intercepting(seat)

\* The steps that commit, and the one that asks for another ratio.
Committing == ReturnKey \/ \E b \in Buttons : ButtonRelease(b)
Resizing == seat' \in ResizeStates(seat)

\* A drag that is not committed leaves no trace: not in a window that is still in sight or
\* was covered meanwhile, not in a split and not in the order of tiles. A committed click
\* that never moved moves nothing either (docs/architecture/layout-resizing.md:23,
\* README.md:312).
CancelLeavesNoTrace ==
  [][Dragging(seat) /\ ~Dragging(seat') =>
       LET d == seat.drag
           stayed == {w \in Windows : Tiled(seat, w) /\ Tiled(seat', w)}
       IN IF Committing
          THEN d.kind \in FloatKinds /\ ~d.moved /\ ~seat.stale => seat'.place = d.saved
          ELSE /\ d.kind \in FloatKinds /\ seat'.dialog # "away"
                    => seat'.place = d.saved
               /\ d.kind = "master" => seat'.ratio = d.saved \/ Resizing
               /\ d.kind = "stack" => seat'.weights = d.saved
               /\ Among(seat.order, stayed) = Among(seat'.order, stayed)]_seat
=============================================================================

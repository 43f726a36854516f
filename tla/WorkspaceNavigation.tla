------------------------- MODULE WorkspaceNavigation -------------------------
(***************************************************************************)
(* Workspaces as a contiguous, dynamically growing and shrinking vector of *)
(* slots, and everything that holds an index into it: the active and the   *)
(* last workspace, the windows, the X11 popups and the launched children,  *)
(* the timed switch animation and the touchpad swipe with its preview.     *)
(*                                                                         *)
(* The compositor runs every handler to completion on one thread, so each  *)
(* action is one whole handler. Handlers are compositions of the methods   *)
(* of struct Villain; a method is an operator from a state to a state, and *)
(* an action applies the composition to the one variable `villain`.        *)
(*                                                                         *)
(* Pixels and easing are left out. A tween is the time it has left, in     *)
(* units of which SETTLE is SettleTicks; a recognised swipe is its sign    *)
(* and whether it is past the commit threshold.                            *)
(***************************************************************************)
EXTENDS SlotPolicy

CONSTANTS Windows,      \* managed windows
          Popups,       \* override-redirect X11 windows
          Launches,     \* child processes the compositor can have running
          Devices,      \* touchpads
          PredefinedChoices,  \* the values of config.workspace.predefined
          SettleTicks,  \* SETTLE, the length of an animation
          Interruptions, \* what may get in the way of motion
          NoWindow, NoDevice

ASSUME NavigationAssumption ==
  /\ PredefinedChoices \subseteq Nat
  /\ SettleTicks \in Nat \ {0}
  /\ Interruptions \subseteq
       {"grabbed", "layerGrab", "selecting", "unfocused", "overview"}
  /\ NoWindow \notin Windows
  /\ NoDevice \notin Devices

VARIABLE villain

\* A swipe, its preview (left is -1 while a finger holds it) and an X11 popup. An
\* index that is absent is NoSlot.
Streams  == [device : Devices \cup {NoDevice}, source : Slots,
             owner : {"None", "Client", "Reserved", "Discard"},
             axis : {"Pending", "Horizontal", "Rejected"}, offset : -2 .. 2]
Previews == [source : Slots \cup {NoSlot}, target : Slots \cup {NoSlot},
             direction : Directions, wasOccupied : BOOLEAN, left : -1 .. SettleTicks]
Placed   == [slot : Slots \cup {NoSlot}, parent : Windows \cup {NoWindow}]
Barriers == {"none", "grabbed", "layerGrab", "selecting", "unfocused"}

\* The fields of struct Villain the module is about.
States ==
  [predefined : PredefinedChoices, skipEmpty : BOOLEAN,    \* configuration
   count  : 2 .. MaxWorkspaces,                            \* workspaces.len()
   active : Slots, last : Slots \cup {NoSlot},
   home   : [Windows -> Slots \cup {NoSlot}],              \* workspaces[].windows
   fresh  : SUBSET Windows,                                \* initial_focus_pending
   popup  : [Popups -> Placed],                            \* unmanaged_x11_windows
   launch : [Launches -> Slots \cup {NoSlot}],             \* children
   tracks : SUBSET Slots, goal : [Slots -> -1 .. 1], left : [Slots -> 0 .. SettleTicks],
   timer  : BOOLEAN,
   stream : Streams, clientSwipe : BOOLEAN,                \* what the client was told
   preview : Previews, previewDevice : Devices \cup {NoDevice},
   barrier : Barriers,                                     \* what swipe_blocked() asks
   overviewVisible : BOOLEAN, overviewMapped : BOOLEAN, dirty : BOOLEAN]

IdleStream == [device |-> NoDevice, source |-> 0, owner |-> "None",
               axis |-> "Pending", offset |-> 0]
NoPreview  == [source |-> NoSlot, target |-> NoSlot, direction |-> "Next",
               wasOccupied |-> FALSE, left |-> -1]

-----------------------------------------------------------------------------
(* Readings of the state                                                   *)

Occupied(s)  == {i \in Slots : \E w \in Windows : s.home[w] = i}
Reserved(s)  == s.stream.owner = "Reserved"
Previewing(s) == s.preview.source # NoSlot
Settling(s)  == Previewing(s) /\ s.preview.left >= 0
TimedMotion(s) == s.tracks # {} \/ Settling(s)

SwipeBlocked(s)  == s.barrier # "none" \/ s.overviewVisible
MotionBlocked(s) == SwipeBlocked(s) \/ s.overviewMapped

\* A faulty variant of Used: the previewed slots may be truncated.
UsedForgetsPreview(s) ==
  Occupied(s)
  \cup {s.popup[p].slot : p \in Popups}
  \cup {s.launch[c] : c \in Launches}
  \cup s.tracks

\* A faulty variant of Used: only popups, children and presentation count.
UsedForgetsWindows(s) ==
  {s.popup[p].slot : p \in Popups}
  \cup {s.launch[c] : c \in Launches}
  \cup s.tracks
  \cup {s.preview.source, s.preview.target}

\* The slots somebody refers to; an absent reference is NoSlot and asks for
\* NoSlot + 2 = 1 slots, which never decides.
Used(s) ==
  Occupied(s)
  \cup {s.popup[p].slot : p \in Popups}
  \cup {s.launch[c] : c \in Launches}
  \cup s.tracks
  \cup {s.preview.source, s.preview.target}

-----------------------------------------------------------------------------
(* Slots                                                                   *)

\* A faulty variant of CanEnsure: the limit itself counts as a slot.
CanEnsureInclusive(i) == i <= MaxWorkspaces

CanEnsure(i) == i < MaxWorkspaces

\* ensure_workspace_exists() when CanEnsure(i).
Ensure(s, i) == [s EXCEPT !.count = Max({@, i + 1})]

\* trim_dynamic_workspaces(). Vec::truncate drops the windows of the slots it
\* drops: that it never has any to drop is a property.
Trim(s) ==
  LET n == Retained(s.predefined, s.active, Used(s))
  IN [s EXCEPT !.count = n,
               !.last  = IF n < s.count /\ @ >= n THEN NoSlot ELSE @,
               !.home  = [w \in Windows |-> IF @[w] >= n THEN NoSlot ELSE @[w]],
               !.dirty = @ \/ n # s.count]

-----------------------------------------------------------------------------
(* Timed motion and the swipe preview                                      *)

StillTracks(s) == [s EXCEPT !.tracks = {}, !.goal = [i \in Slots |-> 0],
                            !.left = [i \in Slots |-> 0]]

RetireTimer(s) == IF TimedMotion(s) THEN s ELSE [s EXCEPT !.timer = FALSE]

StopSwipeVisual(s) ==
  LET hidden == [s EXCEPT !.previewDevice = NoDevice, !.preview = NoPreview]
  IN RetireTimer(IF Previewing(s) THEN Trim(hidden) ELSE hidden)

\* A faulty variant of CancelSwipe: the client is not told that it ended.
CancelSwipeSilently(s) ==
  StopSwipeVisual(IF s.stream.owner = "None" THEN s
                  ELSE [s EXCEPT !.stream.owner = "Discard",
                                 !.stream.axis = "Pending", !.stream.offset = 0])

\* cancel_swipe(): a forwarded gesture is ended for the client, and the stream
\* stays as a tombstone so that the rest of it reaches nobody.
CancelSwipe(s) ==
  StopSwipeVisual(IF s.stream.owner = "None" THEN s
                  ELSE [s EXCEPT !.clientSwipe = @ /\ s.stream.owner # "Client",
                                 !.stream.owner = "Discard",
                                 !.stream.axis = "Pending", !.stream.offset = 0])

CancelMotion(s) == Trim(RetireTimer(StillTracks(s)))

FinishMotion(s) == IF TimedMotion(s) THEN StopSwipeVisual(CancelMotion(s)) ELSE s

\* maintain_swipe(), run before every swipe event and at the end of every
\* event loop iteration.
MaintainSwipe(s) ==
  LET a == IF s.tracks # {} /\ MotionBlocked(s) THEN CancelMotion(s) ELSE s
      targetDisappeared == /\ s.skipEmpty /\ Reserved(s) /\ Previewing(s)
                           /\ s.preview.wasOccupied
                           /\ s.preview.target \notin Occupied(s)
      interrupted == /\ Reserved(s) \/ Previewing(s) \/ s.barrier = "selecting"
                     /\ SwipeBlocked(s)
  IN IF targetDisappeared \/ interrupted THEN CancelSwipe(a) ELSE a

\* schedule_motion_tick(): one timer for all timed motion; registering it may
\* fail (ok = FALSE), which drops the motion.
Schedule(s, ok) ==
  IF s.timer \/ ~TimedMotion(s) THEN s
  ELSE IF ok THEN [s EXCEPT !.timer = TRUE]
       ELSE StopSwipeVisual(StillTracks(s))

\* WorkspaceMotion::start(): the departing scene leaves against the direction
\* of travel, the target comes to rest; a tween is restarted unless it already
\* has that goal.
StartTracks(s, source, target, direction) ==
  LET away == IF direction = "Next" THEN -1 ELSE 1
      Aim(i, g) == IF i \in s.tracks /\ s.goal[i] = g THEN s.left[i] ELSE SettleTicks
  IN [s EXCEPT !.tracks = @ \cup {source, target},
               !.goal = [@ EXCEPT ![source] = away, ![target] = 0],
               !.left = [@ EXCEPT ![source] = Aim(source, away),
                                  ![target] = Aim(target, 0)]]

\* start_workspace_motion()
StartMotion(s, source, target, direction, ok) ==
  IF MotionBlocked(s) THEN s
  ELSE Schedule(StartTracks(s, source, target, direction), ok)

\* WorkspaceMotion::advance() after d units of time.
AdvanceTracks(s, d) ==
  LET left(i) == Max({0, s.left[i] - d})
      kept    == {i \in s.tracks : i = s.active \/ left(i) > 0}
  IN IF \A i \in kept : left(i) = 0 THEN StillTracks(s)
     ELSE [s EXCEPT !.tracks = kept,
                    !.goal = [i \in Slots |-> IF i \in kept THEN @[i] ELSE 0],
                    !.left = [i \in Slots |-> IF i \in kept THEN left(i) ELSE 0]]

\* advance_swipe_settle() after d units of time.
AdvanceSettle(s, d) ==
  IF ~Settling(s) THEN s
  ELSE IF s.preview.left > d THEN [s EXCEPT !.preview.left = @ - d]
       ELSE Trim([s EXCEPT !.preview = NoPreview, !.previewDevice = NoDevice])

-----------------------------------------------------------------------------
(* Switching                                                               *)

\* release_pointer_buttons() ends every pointer grab.
ReleaseButtons(s) ==
  [s EXCEPT !.barrier = IF @ \in {"grabbed", "layerGrab"} THEN "none" ELSE @]

\* A faulty variant of Relayout: nothing is marked for publication.
RelayoutSilently(s) == s

\* relayout_active_workspace() always leaves something to publish.
Relayout(s) == [s EXCEPT !.dirty = TRUE]

\* switch_workspace_immediate(). A grab on a visible layer surface is kept.
SwitchImmediate(s, i) ==
  IF ~CanEnsure(i) THEN CancelSwipe(s)
  ELSE Relayout([Ensure(CancelSwipe(s), i) EXCEPT
                   !.barrier = IF @ = "grabbed" THEN "none" ELSE @,
                   !.last    = IF i # s.active THEN s.active ELSE @,
                   !.active  = i])

\* switch_workspace_direction(); the slot is ensured again by SwitchImmediate
\* because cancelling a swipe may trim it away.
SwitchDirection(s, i, direction, ok) ==
  IF ~CanEnsure(i) THEN s
  ELSE LET t == SwitchImmediate(Ensure(s, i), i)
       IN Trim(IF s.active = i THEN t
               ELSE StartMotion(t, s.active, i, direction, ok))

\* switch_workspace()
Switch(s, i, ok) ==
  SwitchDirection(s, i, IF i > s.active THEN "Next" ELSE "Previous", ok)

WorkspaceTarget(s, source, direction) ==
  Target(Occupied(s), s.count, source, direction, s.skipEmpty)

-----------------------------------------------------------------------------
(* Windows entering, moving between and leaving slots                      *)

\* The popups of the windows in F follow them to slot i.
CarryPopups(popup, F, i) ==
  [p \in Popups |-> IF popup[p].parent \in F THEN [popup[p] EXCEPT !.slot = i]
                    ELSE popup[p]]

\* add_workspace_window() up to its refresh_window_hints().
AddWindow(s, w, i) ==
  Trim([s EXCEPT !.home[w] = i, !.fresh = @ \cup {w}, !.dirty = TRUE])

\* refresh_window_hints(): a window is pulled to the slot of its parent p. Its
\* popups are not.
RefreshHints(s, w, p) ==
  IF p = NoWindow \/ s.home[p] \in {NoSlot, s.home[w]} THEN s
  ELSE Relayout(Trim([s EXCEPT !.home[w] = s.home[p]]))

\* apply_window_rules_on_open() with target slot i. Only a move that involves
\* the active workspace relays it out; the hints then pull a dialog back.
ApplyRule(s, w, p, i) ==
  IF i = s.home[w] \/ ~CanEnsure(i + 1) THEN s
  ELSE LET t == Trim([Ensure(s, i + 1) EXCEPT
                        !.home[w] = i, !.popup = CarryPopups(@, {w}, i)])
       IN RefreshHints(IF s.active \in {i, s.home[w]} THEN Relayout(t) ELSE t, w, p)

\* finish_new_window_focus() of a fresh window: rules, then follow the window to
\* its slot if configured.
InitialFocus(s, w, p, i, follow, ok) ==
  LET t == ApplyRule([s EXCEPT !.fresh = @ \ {w}], w, p, i)
  IN IF t.home[w] # t.active /\ follow THEN Switch(t, t.home[w], ok) ELSE t

\* A faulty variant of MoveFamily: the vector is trimmed before the windows
\* have arrived.
MoveFamilyTrimsEarly(s, F, i) ==
  LET c == CancelMotion(CancelSwipe(s))
      e == Trim(ReleaseButtons(Ensure(c, i)))
  IN IF ~CanEnsure(i) THEN c
     ELSE Relayout([e EXCEPT
            !.home  = [w \in Windows |-> IF w \in F THEN i ELSE @[w]],
            !.popup = CarryPopups(@, F, i)])

\* move_focused_to_workspace() for the transient family F of the focused window.
MoveFamily(s, F, i) ==
  LET c == CancelMotion(CancelSwipe(s))
      e == ReleaseButtons(Ensure(c, i))
  IN IF ~CanEnsure(i) THEN c
     ELSE Relayout(Trim([e EXCEPT
            !.home  = [w \in Windows |-> IF w \in F THEN i ELSE @[w]],
            !.popup = CarryPopups(@, F, i)]))

-----------------------------------------------------------------------------
(* The actions                                                             *)

Init ==
  \E predefined \in PredefinedChoices, skipEmpty \in BOOLEAN :
    villain =
      [predefined |-> predefined, skipEmpty |-> skipEmpty,
       count |-> Min({MaxWorkspaces, Max({2, predefined + 1})}),
       active |-> 0, last |-> NoSlot,
       home   |-> [w \in Windows |-> NoSlot], fresh |-> {},
       popup  |-> [p \in Popups |-> [slot |-> NoSlot, parent |-> NoWindow]],
       launch |-> [c \in Launches |-> NoSlot],
       tracks |-> {}, goal |-> [i \in Slots |-> 0], left |-> [i \in Slots |-> 0],
       timer  |-> FALSE,
       stream |-> IdleStream, clientSwipe |-> FALSE,
       preview |-> NoPreview, previewDevice |-> NoDevice,
       barrier |-> "none", overviewVisible |-> FALSE, overviewMapped |-> FALSE,
       dirty  |-> TRUE]

Become(s) == villain' = s

\* Dispatch::NextWorkspace and Dispatch::PreviousWorkspace
StepWorkspace(direction) ==
  \E ok \in BOOLEAN :
    LET i == WorkspaceTarget(villain, villain.active, direction)
    IN i # NoSlot /\ Become(SwitchDirection(villain, i, direction, ok))

\* Dispatch::LastWorkspace
LastWorkspace ==
  /\ villain.last # NoSlot
  /\ \E ok \in BOOLEAN : Become(Switch(villain, villain.last, ok))

\* Dispatch::FocusWorkspace: only a slot that exists.
FocusWorkspace(i) ==
  /\ i < villain.count
  /\ \E ok \in BOOLEAN : Become(Switch(villain, i, ok))

\* Dispatch::FocusWindow
FocusWindow(w) ==
  /\ villain.home[w] \notin {NoSlot, villain.active}
  /\ \E ok \in BOOLEAN : Become(Switch(villain, villain.home[w], ok))

\* Dispatch::MoveFocusedToWorkspace. The focused window is on the active slot;
\* which of the windows there belong to its family is left open.
MoveFocusedToWorkspace(F, i) ==
  /\ F # {} /\ \A w \in F : villain.home[w] = villain.active
  /\ i # villain.active
  /\ Become(MoveFamily(villain, F, i))

\* The slot of a new client: its launch slot, or else the active one.
LaunchSlots == {villain.active} \cup ({villain.launch[c] : c \in Launches} \ {NoSlot})

\* new_toplevel(): add_window() and the hints known so far.
NewToplevel(w, p) ==
  /\ villain.home[w] = NoSlot /\ p # w
  /\ \E i \in LaunchSlots :
       Become(Relayout(RefreshHints(AddWindow(villain, w, i), w, p)))

\* map_window_request(): an X11 window is ruled and focused as it is added.
NewX11Window(w, p) ==
  /\ villain.home[w] = NoSlot /\ p # w
  /\ \E at \in LaunchSlots, i \in Slots, follow, ok \in BOOLEAN :
       /\ ~follow => ok      \* without following there is no motion to fail
       /\ Become(InitialFocus(Relayout(RefreshHints(AddWindow(villain, w, at), w, p)),
                              w, p, i, follow, ok))

\* commit() or parent_changed(): the hints again, and for the first commit of a
\* new toplevel the rules and the focus.
CommitWindow(w, p) ==
  /\ villain.home[w] # NoSlot /\ p # w
  /\ LET s == RefreshHints(villain, w, p)
     IN IF w \in villain.fresh
        THEN \E i \in Slots, follow, ok \in BOOLEAN :
               (~follow => ok) /\ Become(InitialFocus(s, w, p, i, follow, ok))
        ELSE Become(s)

\* remove_managed_window(); a grab on the window ends with it.
RemoveWindow(w) ==
  /\ villain.home[w] # NoSlot
  /\ \E t \in {villain, ReleaseButtons(villain)} :
       Become(Relayout(Trim([t EXCEPT !.home[w] = NoSlot, !.fresh = @ \ {w}])))

\* mapped_override_redirect_window()
MapPopup(p, w) ==
  /\ villain.popup[p].slot = NoSlot
  /\ w # NoWindow => villain.home[w] # NoSlot
  /\ Become([villain EXCEPT !.popup[p] =
               [slot   |-> IF w = NoWindow THEN villain.active ELSE villain.home[w],
                parent |-> w]])

\* remove_x11_window() of an override-redirect window
UnmapPopup(p) ==
  /\ villain.popup[p].slot # NoSlot
  /\ Become([Trim([villain EXCEPT !.popup[p] = [slot |-> NoSlot, parent |-> NoWindow]])
             EXCEPT !.dirty = TRUE])

\* spawn()
Spawn(c) ==
  /\ villain.launch[c] = NoSlot
  /\ Become([villain EXCEPT !.launch[c] = villain.active])

\* Dispatch::ReloadConfig
ReloadConfig(predefined, skipEmpty) ==
  Become(Relayout(Trim([ReleaseButtons(CancelMotion(CancelSwipe(villain)))
                          EXCEPT !.predefined = predefined,
                                 !.skipEmpty = skipEmpty])))

\* set_overview_visible()
SetOverviewVisible(visible) ==
  /\ "overview" \in Interruptions
  /\ villain.overviewVisible # visible
  /\ Become([ReleaseButtons(CancelMotion(CancelSwipe(villain)))
               EXCEPT !.overviewVisible = visible, !.dirty = TRUE])

\* layer_commit() of the overview surface; an unmap nobody asked for hides it.
OverviewCommit(expectedHide) ==
  LET mapped == ~villain.overviewMapped
  IN /\ "overview" \in Interruptions
     /\ Become(Relayout([villain EXCEPT
       !.overviewVisible = @ /\ (mapped \/ expectedHide),
       !.overviewMapped = mapped]))

-----------------------------------------------------------------------------
(* Swipes                                                                  *)

\* swipe_begin(); configured: a binding claims this number of fingers.
SwipeBegin(d, configured) ==
  LET c == CancelSwipe(villain)
      owner == IF c.barrier = "selecting" THEN "Discard"
               ELSE IF configured /\ ~SwipeBlocked(c) THEN "Reserved" ELSE "Client"
      m == IF owner = "Reserved" THEN CancelMotion(c) ELSE c
  IN /\ villain.stream.owner # "None" => villain.stream.device = d
     /\ Become([m EXCEPT
          !.clientSwipe = owner = "Client",
          !.stream = [device |-> d, source |-> m.active, owner |-> owner,
                      axis |-> "Pending", offset |-> 0]])

\* Recognizer::update(): what one more movement can make of a recognised swipe.
Recognised(stream) ==
  {r \in [axis : {"Pending", "Horizontal", "Rejected"}, offset : -2 .. 2] :
     /\ r.axis # "Horizontal" => r.offset = 0
     /\ stream.axis # "Pending" => r.axis = stream.axis
     /\ stream.axis = "Pending" /\ r.axis = "Horizontal" => r.offset # 0}

\* A faulty variant of ShowPreview: the target is chosen anew at every movement.
ShowPreviewRetargets(s, d) ==
  LET direction == IF s.stream.offset < 0 THEN "Next"
                   ELSE IF s.stream.offset > 0 THEN "Previous" ELSE s.preview.direction
      target == WorkspaceTarget(s, s.stream.source, direction)
  IN IF target = NoSlot \/ ~CanEnsure(target) THEN StopSwipeVisual(s)
     ELSE [Ensure(s, target) EXCEPT
             !.previewDevice = d,
             !.preview = [source |-> s.stream.source, target |-> target,
                          direction |-> direction,
                          wasOccupied |-> target \in Occupied(s), left |-> -1]]

\* swipe_update(), the preview of a reserved stream: the target stays stable
\* while the direction does.
ShowPreview(s, d) ==
  LET direction == IF s.stream.offset < 0 THEN "Next"
                   ELSE IF s.stream.offset > 0 THEN "Previous" ELSE s.preview.direction
      stable == /\ Previewing(s) /\ s.preview.source = s.stream.source
                /\ s.preview.direction = direction
      target == IF stable THEN s.preview.target
                ELSE WorkspaceTarget(s, s.stream.source, direction)
  IN IF target = NoSlot \/ ~CanEnsure(target) THEN StopSwipeVisual(s)
     ELSE [Ensure(s, target) EXCEPT
             !.previewDevice = d,
             !.preview = [source |-> s.stream.source, target |-> target,
                          direction |-> direction,
                          wasOccupied |-> IF stable THEN s.preview.wasOccupied
                                          ELSE target \in Occupied(s),
                          left |-> -1]]

SwipeUpdate(d) ==
  LET m == MaintainSwipe(villain)
  IN IF m.stream.device # d \/ ~Reserved(m) THEN Become(m)
     ELSE \E r \in Recognised(m.stream) :
            LET u == [m EXCEPT !.stream.axis = r.axis, !.stream.offset = r.offset]
            IN Become(IF r.offset # 0 \/ Previewing(u) THEN ShowPreview(u, d) ELSE u)

\* A faulty variant of Settle: the preview lands without a timer.
SettleWithoutTimer(s, p, d, ok) ==
  Trim([s EXCEPT !.preview = [p EXCEPT !.left = SettleTicks], !.previewDevice = d])

\* swipe_end(), the preview p slides to its end.
Settle(s, p, d, ok) ==
  Schedule(Trim([s EXCEPT !.preview = [p EXCEPT !.left = SettleTicks],
                          !.previewDevice = d]), ok)

\* swipe_end(): a stream past the threshold switches to the previewed slot,
\* without a second animation.
SwipeEnd(d, cancelled) ==
  LET m == MaintainSwipe(villain)
      t == [m EXCEPT !.clientSwipe = FALSE, !.stream = IdleStream]
      commit == m.stream.offset \in {-2, 2} /\ ~cancelled
      u == [t EXCEPT !.preview = NoPreview]
  IN IF m.stream.device # d THEN Become(m)
     ELSE IF ~Reserved(m) \/ ~Previewing(m) THEN Become(t)
     ELSE \E ok \in BOOLEAN :
            Become(Settle(IF commit THEN SwitchImmediate(u, m.preview.target) ELSE u,
                          m.preview, d, ok))

\* DeviceRemoved: swipe_device_removed() after releasing the buttons.
DeviceRemoved(d) ==
  LET r == ReleaseButtons(villain)
  IN Become(IF d \in {r.stream.device, r.previewDevice}
            THEN [CancelSwipe(r) EXCEPT !.stream = IdleStream]
            ELSE r)

-----------------------------------------------------------------------------
(* What interrupts motion, and the event loop                              *)

\* Interrupt(s): both kinds of motion end, as on a resize or a failed frame.
Interrupt(s) == CancelMotion(CancelSwipe(s))
OutputDisturbed == Become(Interrupt(villain))

\* The host focus is lost, or the session paused: every grab ends. A paused
\* session keeps its screenshot selection.
FocusLost ==
  /\ "unfocused" \in Interruptions
  /\ villain.barrier # "unfocused"
  /\ \E b \in {"unfocused"} \cup ({villain.barrier} \cap {"selecting"}) :
       Become([Interrupt(villain) EXCEPT !.barrier = b])

FocusGained ==
  villain.barrier = "unfocused" /\ Become([villain EXCEPT !.barrier = "none"])

\* A screenshot selection starts, without a button down, and ends.
SelectionBegin ==
  /\ "selecting" \in Interruptions /\ villain.barrier = "none"
  /\ Become([Interrupt(villain) EXCEPT !.barrier = "selecting"])
SelectionEnd ==
  villain.barrier = "selecting" /\ Become([villain EXCEPT !.barrier = "none"])

\* A button goes down on a window or a layer surface, or up, or the wheel turns.
PointerButton(grab) ==
  /\ villain.barrier \in {"none", "grabbed", "layerGrab"}
  /\ Become([FinishMotion(villain) EXCEPT !.barrier = grab])

\* A faulty variant of Tick: the last tick forgets its registration.
TickLeaksTimer(d) ==
  /\ villain.timer
  /\ Become(AdvanceSettle(AdvanceTracks(villain, d), d))

\* The timer of schedule_motion_tick(), d units of time after the previous one.
Tick(d) ==
  /\ villain.timer
  /\ LET s == AdvanceSettle(AdvanceTracks(villain, d), d)
     IN Become(IF TimedMotion(s) THEN s ELSE Trim([s EXCEPT !.timer = FALSE]))

\* The end of an iteration of the event loop: maintain_swipe(), reap_children()
\* with the children that have exited, publish_desktop_state().
LoopTail(exited) ==
  Become([MaintainSwipe(villain) EXCEPT
            !.launch = [c \in Launches |-> IF c \in exited THEN NoSlot ELSE @[c]],
            !.dirty = FALSE])

Next ==
  \/ \E direction \in Directions : StepWorkspace(direction)
  \/ LastWorkspace
  \/ \E i \in Slots : FocusWorkspace(i)
  \/ \E w \in Windows : FocusWindow(w)
  \/ \E F \in SUBSET Windows, i \in Slots : MoveFocusedToWorkspace(F, i)
  \/ \E w \in Windows, p \in Windows \cup {NoWindow} :
       NewToplevel(w, p) \/ NewX11Window(w, p) \/ CommitWindow(w, p)
  \/ \E w \in Windows : RemoveWindow(w)
  \/ \E p \in Popups, w \in Windows \cup {NoWindow} : MapPopup(p, w)
  \/ \E p \in Popups : UnmapPopup(p)
  \/ \E c \in Launches : Spawn(c)
  \/ \E predefined \in PredefinedChoices, skipEmpty \in BOOLEAN :
       ReloadConfig(predefined, skipEmpty)
  \/ \E b \in BOOLEAN : SetOverviewVisible(b) \/ OverviewCommit(b)
  \/ \E d \in Devices, b \in BOOLEAN : SwipeBegin(d, b) \/ SwipeEnd(d, b)
  \/ \E d \in Devices : SwipeUpdate(d) \/ DeviceRemoved(d)
  \/ OutputDisturbed \/ FocusLost \/ FocusGained \/ SelectionBegin \/ SelectionEnd
  \/ \E grab \in {"none"} \cup ({"grabbed", "layerGrab"} \cap Interruptions) :
       PointerButton(grab)
  \/ \E d \in 1 .. SettleTicks : Tick(d)
  \/ \E exited \in SUBSET Launches : LoopTail(exited)

\* The event loop goes round and its timer fires; nothing else is promised.
Fairness == /\ WF_villain(\E d \in 1 .. SettleTicks : Tick(d))
            /\ WF_villain(\E exited \in SUBSET Launches : LoopTail(exited))

Spec == Init /\ [][Next]_villain /\ Fairness

-----------------------------------------------------------------------------
(* What must hold                                                          *)

\* The type of the state, with every index in range or absent.
TypeOK == villain \in States

\* Every index anybody holds is the index of an existing slot, whatever was
\* trimmed in between: the code indexes self.workspaces with them unchecked.
IndexesExist(s) ==
  /\ s.active < s.count /\ s.last < s.count
  /\ \A w \in Windows : s.home[w] < s.count
  /\ \A p \in Popups : s.popup[p].slot < s.count
  /\ \A c \in Launches : s.launch[c] < s.count
  /\ \A i \in s.tracks : i < s.count
  /\ s.preview.source < s.count /\ s.preview.target < s.count
  /\ Reserved(s) => s.stream.source < s.count
NoDanglingIndex == IndexesExist(villain)

\* Between handlers there is a slot after the active one and after every slot
\* with a window, a popup or a running child, up to MAX_WORKSPACES, and the
\* fixed slots are there (the comment on trim_dynamic_workspaces).
TailAfter(s, i) == i + 2 <= s.count \/ s.count = MaxWorkspaces
TailKept(s) ==
  /\ TailAfter(s, s.predefined - 1) /\ TailAfter(s, s.active)
  /\ \A w \in Windows : TailAfter(s, s.home[w])
  /\ \A p \in Popups : TailAfter(s, s.popup[p].slot)
  /\ \A c \in Launches : TailAfter(s, s.launch[c])
DynamicTail == TailKept(villain)

\* One presentation at a time. A preview is either followed by the reserved
\* stream that shows it, from the active slot and on the device recorded with
\* it, or it settles after that stream has ended; a switch animation runs with
\* neither.
Coherent(s) ==
  /\ s.stream.owner = "None" <=> s.stream.device = NoDevice
  /\ Reserved(s) => s.stream.source = s.active /\ s.tracks = {}
  /\ s.tracks # {} => ~Previewing(s)
  /\ Previewing(s) <=> s.previewDevice # NoDevice
  /\ Previewing(s) =>
       /\ s.preview.target # NoSlot /\ s.preview.target # s.preview.source
       /\ Settling(s) => s.stream.owner = "None"
       /\ ~Settling(s) => /\ Reserved(s)
                          /\ s.preview.source = s.stream.source
                          /\ s.previewDevice = s.stream.device
OnePresentation == Coherent(villain)

\* And the one refresh-paced timer runs exactly while something moves by itself:
\* no timer during finger tracking or idle, and no motion left without one.
TimerRunsWithMotion == OnePresentation /\ (villain.timer <=> TimedMotion(villain))

\* A client that was told a swipe began is told that it ended, and only such a
\* client is: no part of a reserved or discarded stream leaks to it.
ClientSwipePaired == villain.clientSwipe <=> villain.stream.owner = "Client"

\* No window disappears from the workspaces except by being removed: the slots
\* that a trim truncates are empty, in every order of moves and closings.
WindowsKept ==
  [][\A w \in Windows :
       villain.home[w] # NoSlot /\ villain'.home[w] = NoSlot => RemoveWindow(w)]_villain

\* A swipe leads where its preview showed: the target does not change while the
\* direction does not, releasing past the threshold activates that slot, and
\* with skip_empty never one that has been emptied since it was shown.
SwipeLandsWhereShown ==
  [][/\ /\ Reserved(villain) /\ Previewing(villain)
        /\ Reserved(villain') /\ Previewing(villain')
        /\ villain'.preview.direction = villain.preview.direction
        => villain'.preview.target = villain.preview.target
     /\ Reserved(villain) /\ Settling(villain') /\ villain'.active # villain.active
        => /\ villain'.active = villain.preview.target
           /\ villain.skipEmpty /\ villain.preview.wasOccupied
              => villain'.active \in Occupied(villain')]_villain

\* What a desktop snapshot shows of this state.
View(s) == <<s.count, s.active, s.home, s.overviewVisible>>

\* A rule that moves a new window between two slots that are not active.
SilentRuleMove ==
  \E w \in villain.fresh :
    /\ w \notin villain'.fresh
    /\ villain.active \notin {villain.home[w], villain'.home[w]}
    /\ villain'.active = villain.active

\* The end of an iteration publishes what it changed itself.
PublishingStep == \E exited \in SUBSET Launches : LoopTail(exited)

\* Every handler that changes what a snapshot shows marks it dirty, so that the
\* end of the iteration publishes it. The one exception is SilentRuleMove.
MutationsPublished ==
  [][View(villain') # View(villain) =>
       villain'.dirty \/ PublishingStep \/ SilentRuleMove]_villain

\* Left alone, every animation and every settling preview comes to its end and
\* takes its timer with it, even if motion has been blocked in the meantime, and
\* nothing that a barrier has interrupted keeps the touchpad reserved.
QuietMotionEnds ==
  <>[][\/ \E d \in 1 .. SettleTicks : Tick(d)
       \/ \E exited \in SUBSET Launches : LoopTail(exited)]_villain
    => <>[](/\ ~TimedMotion(villain) /\ ~villain.timer
            /\ ~(SwipeBlocked(villain) /\ Reserved(villain)))
=============================================================================

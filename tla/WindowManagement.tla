--------------------------- MODULE WindowManagement ---------------------------
(***************************************************************************)
(* The windows inside the workspaces: their order, the focus and minimised *)
(* histories, the fullscreen and maximised overlays, parents and the       *)
(* families they make, and the keyboard focus that follows from all of it. *)
(*                                                                         *)
(* Every handler runs to completion on the event loop, so an action is a   *)
(* whole handler; a method of struct Villain is an operator from a state   *)
(* to a state. Slots neither grow nor shrink here (WorkspaceNavigation has *)
(* that), geometry and stacking are left out, and one shell surface stands *)
(* for the layers that can take the keyboard. The application popup grabs, *)
(* which only begin on a layer, are left out as well.                      *)
(***************************************************************************)
EXTENDS Naturals, SequencesExt

CONSTANTS Windows,     \* managed windows over the life of the compositor
          Slots,       \* workspaces; no rule of the module tells one from another
          Orders,      \* the values of compositor.focus_cycle_order
          Placements,  \* what the window rules say of a window, "anonymous" until
                       \* its client has named it
          ShellStates, \* what the shell surface can be
          Overlays,    \* which of the two overlays somebody may ask for
          Looks,       \* whether somebody may minimise a window, or toggle its floating
          Dialogs,     \* whether the size or type of a window may make it float
          HostStates,  \* whether the host or the session may take the input away
          MaxHistory,  \* a bound on a focus history, which nothing in the code bounds
          NoWindow, Shell, Nobody

ASSUME WindowAssumption ==
  /\ Slots # {}
  /\ MaxHistory \in Nat
  /\ Orders \subseteq {"layout", "mru"}
  /\ Overlays \subseteq {"fullscreen", "maximized"}
  /\ Looks \subseteq {"minimized", "floating"}
  /\ Dialogs \subseteq BOOLEAN
  /\ HostStates \subseteq BOOLEAN
  /\ Placements \subseteq {"anonymous", "none", "tiled", "floating"}
  /\ ShellStates \subseteq {"none", "panel", "topExclusive", "overlay", "overlayExclusive"}
  /\ {NoWindow, Shell, Nobody} \cap Windows = {} /\ Shell # Nobody

VARIABLE desk

\* struct Workspace and WorkspaceWindow, the part of them the module is about.
\* opened is every window there has been: an id is never used again.
Layers == {"none", "panel", "topExclusive", "overlay", "overlayExclusive"}
States ==
  [windows : [Slots -> Seq(Windows)],
   focusHistory : [Slots -> Seq(Windows)],      \* oldest first
   minimizedHistory : [Slots -> Seq(Windows)],
   fullscreen : [Slots -> Windows \cup {NoWindow}],
   maximized  : [Slots -> Windows \cup {NoWindow}],
   minimized : SUBSET Windows, floating : SUBSET Windows,
   override : [Windows -> {"none", "tiled", "floating"}],
   parent : [Windows -> Windows \cup {NoWindow}],  \* as of the last refresh
   hint   : [Windows -> Windows \cup {NoWindow}],  \* what the client declares
   pending : SUBSET Windows, ruled : SUBSET Windows, \* initial focus, rules applied
   opened : SUBSET Windows,
   active : Slots, focus : Windows \cup {Shell, Nobody},
   hostFocused : BOOLEAN, shell : Layers]

-----------------------------------------------------------------------------
(* Sequences                                                               *)

\* The elements of seq that are in S, in their order: what SelectSeq gives, whose
\* recursion TLAPS does not know.
Only(seq, S) ==
  LET at == {k \in DOMAIN seq : seq[k] \in S}
  IN [n \in 1 .. Cardinality(at) |->
        seq[CHOOSE k \in at : Cardinality({l \in at : l < k}) = n - 1]]

\* All but w, which is Remove of SequencesExt.
Without(seq, w) == Only(seq, ToSet(seq) \ {w})

-----------------------------------------------------------------------------
(* Readings of the state                                                   *)

In(d, i) == ToSet(d.windows[i])
Managed(d) == UNION {In(d, i) : i \in Slots}
SlotOf(d, w) == CHOOSE i \in Slots : w \in In(d, i)

\* The windows met when walking up from w inside slot i: the least set that has the
\* parents of w and of its own members in the slot. The code takes as many steps as
\* the slot has windows, which is enough to meet them all; parents are declared by
\* clients, and may form a cycle.
Ancestors(d, i, w) ==
  LET Closed(up) == \A x \in {w} \cup (up \cap In(d, i)) : d.parent[x] \in up \cup {NoWindow}
  IN IF d.parent[w] = NoWindow THEN {}
     ELSE {a \in Windows : \A up \in SUBSET Windows : Closed(up) => a \in up}

\* Neither minimised nor hidden_by_parent().
Shown(d, i, w) ==
  /\ w \in In(d, i)
  /\ w \notin d.minimized
  /\ \A a \in Ancestors(d, i, w) : ~(a \in In(d, i) /\ a \in d.minimized)

HasFullscreen(d, i) == Shown(d, i, d.fullscreen[i])

\* The window that covers slot i, a fullscreen one before a maximised one.
Overlay(d, i) == IF HasFullscreen(d, i) THEN d.fullscreen[i]
                 ELSE IF Shown(d, i, d.maximized[i]) THEN d.maximized[i]
                 ELSE NoWindow

\* What is left of slot i when the window `over` covers it: its floating dialogs.
Uncovered(d, i, over) ==
  {w \in In(d, i) :
     /\ Shown(d, i, w)
     /\ \/ over \in {NoWindow, w}
        \/ w \in d.floating /\ over \in Ancestors(d, i, w)}

\* workspace_layout(): what is mapped when slot i is the active one.
Visible(d, i) == Uncovered(d, i, Overlay(d, i))

\* layer_surface_visible() and exclusive_layer_focus() of the one shell surface.
ShellVisible(d) == /\ d.shell # "none"
                   /\ d.shell \in {"panel", "topExclusive"} => ~HasFullscreen(d, d.active)
ShellExclusive(d) == /\ d.hostFocused
                     /\ ShellVisible(d)
                     /\ d.shell \in {"topExclusive", "overlayExclusive"}

Focused(d) == IF d.focus \in In(d, d.active) THEN d.focus ELSE NoWindow

-----------------------------------------------------------------------------
(* Keyboard focus                                                          *)

Remember(d, w) ==
  IF w \notin Managed(d) THEN d
  ELSE [d EXCEPT !.focusHistory[SlotOf(d, w)] = Append(Without(@, w), w)]

\* A faulty variant of ApplyFocus: every focus change is remembered.
ApplyFocusRemembers(d, w, remember) ==
  IF ~d.hostFocused \/ w \notin Visible(d, d.active) THEN d
  ELSE [Remember(d, w) EXCEPT !.focus = IF ShellExclusive(d) THEN Shell ELSE w]

\* apply_managed_focus(): an exclusive shell surface takes the window's place.
ApplyFocus(d, w, remember) ==
  IF ~d.hostFocused \/ w \notin Visible(d, d.active) THEN d
  ELSE LET t == IF remember THEN Remember(d, w) ELSE d
       IN [t EXCEPT !.focus = IF ShellExclusive(t) THEN Shell ELSE w]

\* last_visible_window(): the most recent one, or else the last in the layout.
LastAmong(visible, history, layout) ==
  LET All(seq) == Only(seq, visible)
  IN IF All(history) # <<>> THEN Last(All(history))
     ELSE IF All(layout) # <<>> THEN Last(All(layout)) ELSE NoWindow
LastVisible(d, i) == LastAmong(Visible(d, i), d.focusHistory[i], d.windows[i])

\* A faulty variant of FocusValid: a mapped shell surface always keeps the keyboard.
FocusValidWhileMapped(d) == \/ d.shell # "none" /\ d.focus = Shell
                            \/ d.focus \in Visible(d, d.active)

FocusValid(d) == \/ ShellExclusive(d) /\ d.focus = Shell
                 \/ d.focus \in Visible(d, d.active)

FocusOrNobody(d, w) ==
  IF w = NoWindow THEN [d EXCEPT !.focus = Nobody] ELSE ApplyFocus(d, w, TRUE)

\* restore_active_workspace_focus()
RestoreFocus(d) ==
  IF ~d.hostFocused \/ FocusValid(d) THEN d
  ELSE FocusOrNobody(d, LastVisible(d, d.active))

\* relayout_active_workspace()
Relayout(d) == RestoreFocus(d)

RelayoutIf(d, i) == IF i = d.active THEN Relayout(d) ELSE d

\* switch_workspace()
Switch(d, i) ==
  Relayout([Remember(d, d.focus) EXCEPT !.active = i])

Uncover(d, i) == [d EXCEPT !.fullscreen[i] = NoWindow, !.maximized[i] = NoWindow]

\* A faulty variant of Reveal: only the fullscreen overlay is left.
RevealKeepsMaximized(d, w) ==
  IF w \in Visible(d, d.active) THEN d
  ELSE Relayout([d EXCEPT !.fullscreen[d.active] = NoWindow])

\* A target behind an overlay makes the overlay go.
Reveal(d, w) ==
  IF w \in Visible(d, d.active) THEN d ELSE Relayout(Uncover(d, d.active))

-----------------------------------------------------------------------------
(* Windows changing slots                                                  *)

\* A faulty variant of CarryOverlays: what covered the old slot covers nothing now.
DropOverlays(d, i, j, F) ==
  [d EXCEPT !.fullscreen[i] = IF @ \in F THEN NoWindow ELSE @,
            !.maximized[i]  = IF @ \in F THEN NoWindow ELSE @]

\* The overlays of slot i owned in F go with F to slot j and replace those there.
Hand(cover, i, j, F) ==
  IF cover[i] \in F THEN [cover EXCEPT ![i] = NoWindow, ![j] = cover[i]] ELSE cover
CarryOverlays(d, i, j, F) ==
  [d EXCEPT !.fullscreen = Hand(@, i, j, F), !.maximized = Hand(@, i, j, F)]

\* The members of F leave one sequence for the end of another, in their order.
Carry(f, i, j, F) ==
  [f EXCEPT ![i] = Only(@, Windows \ F), ![j] = @ \o Only(f[i], F)]

\* What a rule and move_focused_to_workspace() do with the windows F of slot i.
MoveAll(d, i, j, F) ==
  LET t == CarryOverlays(d, i, j, F)
  IN [t EXCEPT !.windows = Carry(@, i, j, F),
               !.focusHistory = Carry(@, i, j, F),
               !.minimizedHistory = Carry(@, i, j, F)]

\* A faulty variant of Pull: a minimised window is not listed where it arrives.
PullForgetsMinimized(d, w, j) ==
  LET i == SlotOf(d, w)
      t == CarryOverlays(d, i, j, {w})
  IN [t EXCEPT !.windows = Carry(@, i, j, {w}),
               !.minimizedHistory[i] = Without(@, w)]

\* How refresh_window_hints() moves w to slot j: the focus history of the slot
\* it leaves keeps the window, and the one of the slot it enters does not get it.
Pull(d, w, j) ==
  LET i == SlotOf(d, w)
      Relist(f) == [f EXCEPT ![i] = Without(@, w),
                             ![j] = IF w \in d.minimized THEN Append(@, w) ELSE @]
  IN [CarryOverlays(d, i, j, {w}) EXCEPT
        !.windows = Carry(@, i, j, {w}), !.minimizedHistory = Relist(@)]

\* What has changed from d to t for a window that went from slot i to slot j is
\* laid out again.
RelayoutChange(d, t, i, j) ==
  IF t # d /\ d.active \in {i, j} THEN Relayout(t) ELSE t

\* w has the parent p now, and floats if it is told to or, not told, if it is a
\* dialog by its parent, its size or its type.
Adopt(d, w, p, dialog) ==
  LET floats == IF d.override[w] = "none" THEN p # NoWindow \/ dialog
                ELSE d.override[w] = "floating"
  IN [d EXCEPT !.parent[w] = p,
               !.floating = IF floats THEN @ \cup {w} ELSE @ \ {w}]

\* refresh_window_hints()
RefreshHints(d, w, dialog) ==
  IF w \notin Managed(d) THEN d
  ELSE LET p == IF d.hint[w] \in Managed(d) \ {w} THEN d.hint[w] ELSE NoWindow
           i == SlotOf(d, w)
           j == IF p = NoWindow THEN i ELSE SlotOf(d, p)
       IN RelayoutChange(d, Adopt(IF j = i THEN d ELSE Pull(d, w, j), w, p, dialog), i, j)

\* The rule sends w from slot i to slot j.
SendByRule(d, w, i, j) ==
  IF i = j THEN d
  ELSE IF d.active \in {i, j} THEN Relayout(MoveAll(d, i, j, {w}))
  ELSE MoveAll(d, i, j, {w})

\* apply_window_rules_on_open() with the rule's placement and its target slot.
ApplyRules(d, w, placement, j, dialog) ==
  IF w \in d.ruled \/ placement = "anonymous" THEN d
  ELSE RefreshHints(
         SendByRule([d EXCEPT !.ruled = @ \cup {w},
                              !.override[w] = IF placement = "none" THEN @ ELSE placement],
                    w, SlotOf(d, w), j),
         w, dialog)

\* The new window w of the active slot i gets the keyboard; a maximised window that
\* would hide it is restored first, a fullscreen one is not.
FocusNew(d, w, i) ==
  LET over == d.maximized[i]
      reveal == /\ ~HasFullscreen(d, i)
                /\ Shown(d, i, w)
                /\ w \notin Visible(d, i)
                /\ over \notin {NoWindow, w} \cup Ancestors(d, i, w)
  IN ApplyFocus(IF reveal THEN Relayout([d EXCEPT !.maximized[i] = NoWindow]) ELSE d,
                w, TRUE)

NoLongerPending(d, w) == [d EXCEPT !.pending = @ \ {w}]

\* Once in the life of a window it is decided whether it gets the keyboard.
FollowNew(d, w, i, follow) ==
  IF w \notin d.pending THEN d
  ELSE IF i = d.active THEN FocusNew(NoLongerPending(d, w), w, i)
  ELSE IF follow THEN FocusNew(NoLongerPending(Switch(d, i), w), w, i)
  ELSE NoLongerPending(d, w)

\* finish_new_window_focus(): the rules, then that decision.
FinishNewWindow(d, w, placement, j, dialog, follow) ==
  LET Follow(t) == FollowNew(t, w, SlotOf(t, w), follow)
  IN Follow(ApplyRules(d, w, placement, j, dialog))

-----------------------------------------------------------------------------
(* The actions                                                             *)

Init == \E first \in Slots : desk =
  [windows |-> [i \in Slots |-> <<>>], focusHistory |-> [i \in Slots |-> <<>>],
   minimizedHistory |-> [i \in Slots |-> <<>>],
   fullscreen |-> [i \in Slots |-> NoWindow], maximized |-> [i \in Slots |-> NoWindow],
   minimized |-> {}, floating |-> {}, override |-> [w \in Windows |-> "none"],
   parent |-> [w \in Windows |-> NoWindow], hint |-> [w \in Windows |-> NoWindow],
   pending |-> {}, ruled |-> {}, opened |-> {},
   active |-> first, focus |-> Nobody, hostFocused |-> TRUE, shell |-> "none"]

\* The bound on histories is a guard on every step.
Become(d) == desk' = d /\ \A i \in Slots : Len(d.focusHistory[i]) <= MaxHistory

\* The end of add_workspace_window(): w is remembered and its slot laid out.
ShowNew(d, w) == RelayoutIf(Remember(d, w), SlotOf(d, w))

FocusIfActive(d, w) == IF SlotOf(d, w) = d.active THEN ApplyFocus(d, w, TRUE) ELSE d

\* add_window() and add_x11_window(): an X11 window has its hints when it maps
\* and is finished at once, a Wayland one only at its first commit.
Open(w, i, x11) ==
  /\ w \notin desk.opened
  /\ \E p \in IF x11 THEN Managed(desk) \cup {NoWindow} ELSE {NoWindow},
        placement \in Placements, j \in Slots, dialog \in Dialogs, follow \in BOOLEAN :
       LET added == [desk EXCEPT !.windows[i] = Append(@, w), !.hint[w] = p,
                                 !.pending = @ \cup {w}, !.opened = @ \cup {w}]
           shown == ShowNew(RefreshHints(added, w, dialog), w)
       IN Become(IF x11 THEN FinishNewWindow(shown, w, placement, j, dialog, follow)
                 ELSE FocusIfActive(shown, w))

\* commit() of a managed window, which is finished once and refreshed ever after.
Commit(w) ==
  /\ w \in Managed(desk)
  /\ \E dialog \in Dialogs :
       LET t == RefreshHints(desk, w, dialog)
       IN \/ w \in t.ruled \ t.pending /\ Become(t)
          \/ /\ w \notin t.ruled \ t.pending
             /\ \E placement \in Placements, j \in Slots, follow \in BOOLEAN :
                  Become(FinishNewWindow(t, w, placement, j, dialog, follow))

\* parent_changed()
ParentChanged(w, p) ==
  /\ w \in Managed(desk)
  /\ p \in (Managed(desk) \ {w}) \cup {NoWindow}
  /\ \E dialog \in Dialogs : Become(RefreshHints([desk EXCEPT !.hint[w] = p], w, dialog))

\* Slot i has w no longer, nor does anything it remembers.
Leave(d, i, w) ==
  LET Clear(o) == IF o = w THEN NoWindow ELSE o
  IN [d EXCEPT !.windows[i] = Without(@, w), !.focusHistory[i] = Without(@, w),
               !.minimizedHistory[i] = Without(@, w),
               !.fullscreen[i] = Clear(@), !.maximized[i] = Clear(@)]

\* w is gone from slot i, its entry with it. That it was somebody's parent is now
\* a hint that names nobody.
Gone(d, i, w) ==
  [Leave(d, i, w) EXCEPT
     !.minimized = @ \ {w}, !.floating = @ \ {w}, !.pending = @ \ {w}, !.ruled = @ \ {w},
     !.override[w] = "none", !.parent[w] = NoWindow,
     !.hint = [x \in Windows |-> IF w \in {x, @[x]} THEN NoWindow ELSE @[x]]]

\* A faulty variant of RemoveWindow: nothing is laid out again.
RemoveWindowQuietly(w) ==
  /\ w \in Managed(desk)
  /\ Become(Gone(desk, SlotOf(desk, w), w))

\* remove_managed_window()
RemoveWindow(w) ==
  /\ w \in Managed(desk)
  /\ Become(Relayout(Gone(desk, SlotOf(desk, w), w)))

\* set_window_fullscreen() and set_window_maximized(), asked by the client, by a
\* key binding, by the title bar or over the socket.
SetFullscreen(w, on) ==
  /\ "fullscreen" \in Overlays
  /\ w \in Managed(desk)
  /\ LET i == SlotOf(desk, w)
     IN /\ on # (desk.fullscreen[i] = w)
        /\ Become(RelayoutIf([desk EXCEPT !.fullscreen[i] = IF on THEN w ELSE NoWindow], i))

SetMaximized(w, on) ==
  /\ "maximized" \in Overlays
  /\ w \in Managed(desk)
  /\ LET i == SlotOf(desk, w)
     IN /\ on # (desk.maximized[i] = w)
        /\ Become(RelayoutIf([desk EXCEPT !.maximized[i] = IF on THEN w ELSE NoWindow], i))

\* WindowAction::Minimize
Minimize(w) ==
  /\ "minimized" \in Looks
  /\ w \in Managed(desk) \ desk.minimized
  /\ LET i == SlotOf(desk, w)
     IN Become(RelayoutIf([desk EXCEPT !.minimized = @ \cup {w},
                                       !.minimizedHistory[i] = Append(Without(@, w), w)], i))

\* restore_last_minimized_window(): entries that are not minimised are skipped.
RestoreLast ==
  LET i == desk.active
      history == desk.minimizedHistory[i]
      hits == {k \in DOMAIN history : history[k] \in In(desk, i) \cap desk.minimized}
      k == IF hits = {} THEN 1 ELSE Max(hits)
      t == [desk EXCEPT !.minimizedHistory[i] = SubSeq(@, 1, k - 1)]
  IN Become(IF hits = {} THEN t
            ELSE Relayout([t EXCEPT !.minimized = @ \ {history[k]}]))

\* restore_window()
Restore(w) ==
  /\ w \in Managed(desk) \cap desk.minimized
  /\ LET i == SlotOf(desk, w)
     IN Become(RelayoutIf([desk EXCEPT !.minimized = @ \ {w},
                                       !.minimizedHistory[i] = Without(@, w)], i))

SwitchWorkspace(i) == Become(Switch(desk, i))

\* focus_window(), refused for a window that is not shown.
CanFocus(d, w) == w \in Managed(d) /\ Shown(d, SlotOf(d, w), w)

FocusWindow(w) ==
  /\ CanFocus(desk, w)
  /\ LET i == SlotOf(desk, w)
     IN Become(ApplyFocus(Reveal(IF i = desk.active THEN desk ELSE Switch(desk, i), w),
                          w, TRUE))

-----------------------------------------------------------------------------
(* Walking the windows of the active workspace                             *)

Candidates(d, i) == Only(d.windows[i], {w \in In(d, i) : Shown(d, i, w)})

\* focus_cycle_sequence(): the layout, or the most recently focused first and
\* those never focused at the end.
Walk(d, i, order) ==
  LET seen == Only(Reverse(d.focusHistory[i]), ToSet(Candidates(d, i)))
  IN IF order = "layout" THEN Candidates(d, i)
     ELSE seen \o Only(Candidates(d, i), Windows \ ToSet(seen))

\* next_focus_target(): from the first place the current window has in the walk.
NextTarget(walk, current, step) ==
  IF current \notin ToSet(walk) THEN walk[1]
  ELSE LET at == Min({k \in DOMAIN walk : walk[k] = current}) - 1
           offset == IF step = "next" THEN 1 ELSE Len(walk) - 1
       IN walk[((at + offset) % Len(walk)) + 1]

\* cycle_focus()
CycleFocus(order, step) ==
  LET walk == Walk(desk, desk.active, order)
  IN /\ walk # <<>>
     /\ LET w == NextTarget(walk, Focused(desk), step)
        IN Become(ApplyFocus(Reveal(desk, w), w, FALSE))

\* focus_directional(): any other window may be the nearest in the direction.
FocusDirection(w) ==
  /\ Focused(desk) # NoWindow
  /\ w \in ToSet(Candidates(desk, desk.active)) \ {desk.focus}
  /\ Become(ApplyFocus(Reveal(desk, w), w, TRUE))

\* move_focused_directional() of a tile: any other visible tile may be nearest.
SwapTiles(w) ==
  LET i == desk.active
      tiles == Visible(desk, i) \ (desk.floating \cup {desk.fullscreen[i], desk.maximized[i]})
      Swap(x) == IF x = w THEN desk.focus ELSE IF x = desk.focus THEN w ELSE x
  IN /\ desk.focus \in tiles
     /\ w \in tiles \ {desk.focus}
     /\ Become(Relayout([desk EXCEPT !.windows[i] = [k \in DOMAIN @ |-> Swap(@[k])]]))

\* toggle_floating_focused()
ToggleFloating ==
  LET i == desk.active
      w == desk.focus
      tile == w \in desk.floating
  IN /\ "floating" \in Looks
     /\ w \in Visible(desk, i) \ {desk.fullscreen[i], desk.maximized[i]}
     /\ Become(ApplyFocus(Relayout([desk EXCEPT
                 !.floating = IF tile THEN @ \ {w} ELSE @ \cup {w},
                 !.override[w] = IF tile THEN "tiled" ELSE "floating"]), w, TRUE))

\* A faulty variant of Family: the focused window goes with its own dialogs only.
FamilyOfFocused(d) ==
  {w \in In(d, d.active) : w = d.focus \/ d.focus \in Ancestors(d, d.active, w)}

\* The code goes up from the focused window to the last ancestor in the slot, or as many
\* steps as the slot has windows, and takes all below. These are the windows that have an
\* ancestor in common with it, or are one.
Line(d, i, w) == ({w} \cup Ancestors(d, i, w)) \cap In(d, i)
Family(d) ==
  {w \in In(d, d.active) : Line(d, d.active, w) \cap Line(d, d.active, d.focus) # {}}

\* move_focused_to_workspace()
MoveFocused(j) ==
  /\ Focused(desk) # NoWindow
  /\ j # desk.active
  /\ Become(Relayout(MoveAll(desk, desk.active, j, Family(desk))))

-----------------------------------------------------------------------------
(* The pointer, the shell surface and the host                             *)

FocusShell(d) == [d EXCEPT !.focus = Shell]

\* focus_window_at_pointer(): a click, or a hover when focus follows the mouse.
\* The pointer is over the shell surface, over the window hit, or over neither.
PointAt(hit) ==
  /\ hit = Shell => ShellVisible(desk)
  /\ hit \in Windows => hit \in Visible(desk, desk.active)
  /\ Become(IF ~desk.hostFocused THEN [desk EXCEPT !.focus = Nobody]
            ELSE IF ShellExclusive(desk) \/ hit = Shell THEN FocusShell(desk)
            ELSE IF hit = Nobody THEN RestoreFocus(desk)
            ELSE [Remember(desk, hit) EXCEPT !.focus = hit])

\* layer_commit() and layer_destroyed() of the shell surface.
ShellChanges(shell) ==
  LET t == [desk EXCEPT !.shell = shell]
      laid == IF "none" \in {shell, desk.shell} THEN Relayout(t) ELSE t
  IN /\ shell # desk.shell
     /\ \E relaid \in {laid, Relayout(t)} :
          Become(IF ShellExclusive(relaid) THEN FocusShell(relaid)
                 ELSE IF shell = "none" /\ relaid.focus = Shell THEN RestoreFocus(relaid)
                 ELSE relaid)

\* The host window or the session losing and getting back the input.
HostFocus(on) ==
  /\ on # desk.hostFocused
  /\ Become(IF on THEN RestoreFocus([desk EXCEPT !.hostFocused = TRUE])
            ELSE [desk EXCEPT !.hostFocused = FALSE, !.focus = Nobody])

\* The callers of relayout_active_workspace() that change nothing modelled here:
\* a new configuration, another output size, a floating window moved by its step.
LayOutAgain == Become(Relayout(desk))

Next ==
  \/ \E w \in Windows, i \in Slots, x11 \in BOOLEAN : Open(w, i, x11)
  \/ \E w \in Windows : Commit(w)
  \/ \E w \in Windows, p \in Windows \cup {NoWindow} : ParentChanged(w, p)
  \/ \E w \in Windows : RemoveWindow(w)
  \/ \E w \in Windows, on \in BOOLEAN : SetFullscreen(w, on)
  \/ \E w \in Windows, on \in BOOLEAN : SetMaximized(w, on)
  \/ \E w \in Windows : Minimize(w)
  \/ RestoreLast
  \/ \E w \in Windows : Restore(w)
  \/ \E i \in Slots : SwitchWorkspace(i)
  \/ \E w \in Windows : FocusWindow(w)
  \/ \E order \in Orders, step \in {"next", "previous"} : CycleFocus(order, step)
  \/ \E w \in Windows : FocusDirection(w)
  \/ \E w \in Windows : SwapTiles(w)
  \/ ToggleFloating
  \/ \E j \in Slots : MoveFocused(j)
  \/ \E hit \in Windows \cup {Shell, Nobody} : PointAt(hit)
  \/ \E shell \in ShellStates : ShellChanges(shell)
  \/ \E on \in HostStates : HostFocus(on)
  \/ LayOutAgain

Spec == Init /\ [][Next]_desk

-----------------------------------------------------------------------------
(* Properties                                                              *)

\* The state is of its type, and a window is in one place of one slot.
TypeOK ==
  /\ desk \in States
  /\ \A i \in Slots : /\ IsInjective(desk.windows[i])
                      /\ \A j \in Slots \ {i} : In(desk, i) \cap In(desk, j) = {}
  /\ Managed(desk) \subseteq desk.opened

\* While the host has the input, the keyboard is with a window that is mapped on
\* the active workspace or with the shell surface, never with a window that is
\* minimised, hidden behind an overlay, on another workspace or gone; and with
\* nobody only when there is no such window (README.md:121-126).
KeyboardFollowsSight ==
  /\ desk.hostFocused =>
       \/ desk.focus \in Visible(desk, desk.active)
       \/ desk.focus = Shell /\ desk.shell # "none"
       \/ desk.focus = Nobody /\ Visible(desk, desk.active) = {}
  /\ ~desk.hostFocused => desk.focus = Nobody

\* A shell surface that has the keyboard loses it to whatever hides the surface. Only
\* its own commit to a lower layer, under a fullscreen window, escapes: layer_commit()
\* does not look (layer_shell.rs:139).
HiddenShellIsLeft ==
  [][(desk.focus = Shell /\ ShellVisible(desk) /\ desk'.shell = desk.shell) =>
        (desk'.focus # Shell \/ ShellVisible(desk'))]_desk

\* Whatever slot a minimised window was carried to, by a rule, by its parent or
\* with its family, that slot lists it once, and lists nothing else: restoring
\* the last minimised window reaches every one. Overlays are owned by windows of
\* their own slot.
MinimizedReachable ==
  /\ TypeOK
  /\ \A i \in Slots :
       /\ IsInjective(desk.minimizedHistory[i])
       /\ ToSet(desk.minimizedHistory[i]) = In(desk, i) \cap desk.minimized
       /\ {desk.fullscreen[i], desk.maximized[i]} \subseteq In(desk, i) \cup {NoWindow}

\* A window that changes slots while it covers one covers the other (README.md:187).
OverlaysTravel ==
  [][\A i \in Slots :
       LET Left(w) == w \notin In(desk', i) /\ w \in Managed(desk')
       IN /\ Left(desk.fullscreen[i]) =>
               \E j \in Slots : desk'.fullscreen[j] = desk.fullscreen[i]
          /\ Left(desk.maximized[i]) =>
               \E j \in Slots : desk'.maximized[j] = desk.maximized[i]]_desk

\* Parents and dialogs that share a slot still share one after the focused window
\* was sent elsewhere (README.md:186).
FamilyTogether ==
  [][\A w \in Windows, i \in Slots :
       (/\ desk.parent[w] # NoWindow
        /\ {w, desk.parent[w]} \subseteq In(desk, i)
        /\ {w, desk.parent[w]} \subseteq Managed(desk')
        /\ SlotOf(desk', w) # SlotOf(desk', desk.parent[w])) =>
          \A j \in Slots : ~MoveFocused(j)]_desk

\* A cycle step does not reorder the windows it walks by recency, the overlay it may lift
\* and the focus that restores notwithstanding (README.md:131), wherever the slot remembers
\* each of its windows, and none twice. A window that was pulled from another slot is not
\* remembered, and one that was pulled away still is, until it is focused again.
Recorded(d, i) == /\ IsInjective(d.focusHistory[i])
                  /\ In(d, i) \subseteq ToSet(d.focusHistory[i])
CycleKeepsRecency ==
  [][LET i == desk.active
         Recent(d) == Only(d.focusHistory[i], ToSet(Candidates(desk, i)))
     IN Recorded(desk, i) /\ Recent(desk') # Recent(desk) =>
          \A order \in Orders, step \in {"next", "previous"} : ~CycleFocus(order, step)]_desk

\* focus_window() that does not refuse ends with the keyboard on the window, unless
\* the host is elsewhere or the shell surface insists on it (workspaces.rs:1622).
FocusGranted ==
  [][\A w \in Windows :
       (desk.hostFocused /\ desk'.focus # IF ShellExclusive(desk') THEN Shell ELSE w) =>
         ~FocusWindow(w)]_desk

=============================================================================

# Villain in TLA+

Villain is the Wayland compositor of the Knave desktop: one Rust process in
which an event loop owns every window and workspace, drives animations and
touchpad gestures, filters the keyboard, and serves a desktop API on a Unix
socket. This directory holds models of its core logic, the TLC runs that check
them and TLAPS proofs about them. Paths below are relative to the repository;
"README" is the repository's.

    tlc -workers 2 -config NavigationSlots.cfg MCWorkspaceNavigation
    tlapm WorkspaceNavigation_proofs.tla

## 1. The system

| Component (src/) | State | Operations | Talks to |
| --- | --- | --- | --- |
| Workspace slots and navigation (`workspace_navigation.rs`, `workspaces.rs`) | the vector of workspaces, active and last index, windows per slot, X11 popups and launched children with their slot | switch, step, last, move a family, rules on open, pull to the parent, grow and trim | called by every handler; marks `desktop_state_dirty` |
| Timed motion (`workspace_motion.rs`) | tracks per slot, one timer | start, advance, cancel, retire | started by a switch; indexes slots |
| Touchpad swipes (`gestures.rs`) | the stream and its owner, the preview, its settling | begin, update, end, cancel, device removal | switches at the end, forwards to clients, shares the motion's timer |
| Window management (`workspaces.rs`, `focus.rs`, `workspaces/drag_layout.rs`) | order, focus and minimised histories, overlays, parents, floating, keyboard focus | open, commit, close, minimise, restore, fullscreen, maximise, focus, cycle, swap, move | handlers, bindings, IPC; the shell surfaces take the keyboard |
| Layer shell and overview (`layer_shell.rs`) | mapped layers, who is exclusive, overview flags | commit, destroy, focus | window focus; blocks motion |
| Key filter and global shortcuts (`keybinds.rs`) | pressed, suppressed, pending modifier, active shortcuts, registrations | filter a press or release, register, replace, reload | bindings, selection, drag, subscriptions |
| Desktop IPC server (`ipc.rs`) | client places, request channel, envelopes | accept, execute, time out, finish, drop | one thread per client, the loop executes |
| Desktop subscriptions (`ipc/subscriptions.rs`) | snapshot and generation, three mailboxes and a wake socket per subscriber | publish, subscribe, serve | loop publishes, thread writes |
| Dispatcher (`dispatch.rs`), protocol handlers (`handlers.rs`, `state.rs`), XWayland (`xwayland.rs`) | none of their own | translate requests into the operations above | |
| Window dragging and resizing (`window_grab.rs`, `split_grab.rs`), tile layout | an interaction, what it saved, pressed and swallowed buttons | begin, motion, finish, cancel | pointer grab of the seat, key filter, layout changes |
| Screenshots (`screenshot.rs`, `screenshot_notification.rs`) | a selection and its buttons; a notifier, its watcher and the files by notification | begin, finish, cancel; show, open | takes the keyboard and the pointer; threads, session bus |
| Session activation (`session.rs`) | worker thread and a one-place queue | submit, run, drop | child processes |
| Capture (`capture.rs`, `capture_sources.rs`, `preview.rs`) | sessions, a frame each, what is pending and its timer | create, capture, finish, stop | workspaces, outputs, windows, rendering |
| TTY, rendering, frame pacing (`tty.rs`, `render.rs`, `frame_clock.rs`) | what must be repainted, the frame in flight, timers, pause of the session | render, page flip, pause, activate, callbacks | every handler asks for a repaint |

What is hard about it:

* **One vector, many indexes.** `trim_dynamic_workspaces()` truncates the vector
  of workspaces from inside almost every handler, while six kinds of state hold
  indexes into it that are later used unchecked.
* **Compositions.** A handler is a chain of methods that each switch, cancel,
  trim, lay out and refocus. Order decides; `move_focused_to_workspace()`,
  `switch_workspace_direction()` and `swipe_end()` interleave growing and
  trimming several times.
* **Asynchronous input.** Windows open, close and are re-parented under a swipe or
  an animation; keys are released after what consumed their press has ended.
* **Threads.** IPC connections, subscriptions, the activation worker, the screenshot
  notifier and its watcher run on threads of their own, with locks, channels, wake
  sockets, timeouts, child processes and drops that join them.
* **Five sets of buttons.** The hand, the compositor, the drag, the selection and
  the seat each keep the buttons they believe down.
* **Waiting in a circle.** A repaint waits for a page flip, a client for a timer that
  only a render starts, the cursor for a timer of its own; any of them may be lost
  with the session.
* **Two truths about focus.** Histories, overlays, families and shell surfaces
  each have a say in who has the keyboard, in five different code paths.

What makes each part correct is listed with its module in section 3. The hazards,
each at its line and with the properties that watch it, are in `PROJECT.json`.

## 2. The modules

    SlotPolicy  <-EXTENDS-  WorkspaceNavigation  <-  MCWorkspaceNavigation
                                                 <-  WorkspaceNavigation_proofs
    SnapshotFeed  <-INSTANCE, refined by-  Subscriptions  <-  MCSubscriptions
                                                          <-  Subscriptions_proofs
    WindowManagement    <-  MCWindowManagement, WindowManagement_proofs
    PointerInteraction  <-  MCPointerInteraction, PointerInteraction_proofs
    IpcRequests         <-  MCIpcRequests, IpcRequests_proofs
    Keybinds            <-  MCKeybinds, Keybinds_proofs
    SessionWorkers      <-  MCSessionWorkers, SessionWorkers_proofs
    OutputFrames        <-  MCOutputFrames
    Capture             <-  MCCapture
    OutputFrames, Capture  <-  Output_proofs

The event loop runs a handler to completion before it starts the next, so in
`WorkspaceNavigation`, `WindowManagement`, `PointerInteraction`, `Keybinds`,
`OutputFrames` and `Capture` an action is one whole handler, with every trim,
cancellation and relayout it makes. Where a handler is a chain of methods of
`struct Villain`, each method is an operator from a state to a state, or to the set of
states it may lead to (`Trim`, `CancelSwipe`, `RestoreFocus`, `RelayoutStates`,
`RenderIfNeeded`), and the actions compose them in the order of the
code. Whether a condition outside the model holds (a rule matches, a timer can be
registered, the pointer hits a window) is an `\E`. In `IpcRequests`,
`Subscriptions` and `SessionWorkers` steps are cut where locks are released, channels used and threads
scheduled.

Definitions whose comment begins with "A faulty variant of" have a plausible bug in them. No
specification uses them; each is there to be put in the place of the definition that
follows it, to see that the properties notice.

### WorkspaceNavigation and SlotPolicy

`villain` is one record: `count` is `workspaces.len()`, `home` inverts
`workspaces[].windows`, `popup` and `launch` are `unmanaged_x11_windows` and
`children`, `tracks`/`goal`/`left`/`timer` are `WorkspaceMotion`, `stream` and
`preview` are `gestures.rs`, `barrier` and the overview flags are what
`swipe_blocked()` and `workspace_motion_blocked()` ask about. `SlotPolicy` has
the two pure decisions, `target()` and the number of slots kept. Pixels and easing are left out:
a tween is its remaining time in units of which SETTLE is `SettleTicks`, a
swipe is its sign and whether it is past the threshold.

Correct means: every index names a slot (`NoDanglingIndex`), a trim never
truncates a window (`WindowsKept`) and always leaves a free slot behind everything
in use (`DynamicTail`); there is one presentation at a time and one timer, which runs
exactly with motion (`TimerRunsWithMotion`), and both come to an end
(`QuietMotionEnds`); a committed swipe lands on the slot it showed
(`SwipeLandsWhereShown`); a client's swipe is ended exactly once
(`ClientSwipePaired`); a visible change is marked for publication
(`MutationsPublished`).

### WindowManagement

`desk` holds the fields of `Workspace` and `WorkspaceWindow` that decide who is
mapped and who has the keyboard. The number of slots is fixed (the module
above has that), and so slots are interchangeable. One shell surface stands for
the layers that may take the keyboard. `Visible` is `workspace_layout()` without
its rectangles, `RestoreFocus` is `restore_active_workspace_focus()`, and
`ApplyRules`, `RefreshHints` and `MoveFocused` are the three ways a window
changes slots, each of which carries histories and overlays in its own way. That
is where they can go wrong. A minimised window stays reachable and an overlay
belongs to a window of its slot (`MinimizedReachable`), overlays travel with their
windows (`OverlaysTravel`), a family stays together (`FamilyTogether`). The keyboard is
with something in sight (`KeyboardFollowsSight`), also when a fullscreen window covers the
shell surface that had it (`HiddenShellIsLeft`); whoever is told that a window
has the focus is told the truth (`FocusGranted`); walking the MRU order does not
change it where the slot is `Recorded`, that is, remembers each of its windows and nothing twice
(`CycleKeepsRecency`). It is not where windows were pulled to or from (disagreement 4). `Looks` says which
of minimising and floating anybody does, as `Overlays` and `ShellStates` do for those.

Two definitions are not written as loops, so that they can be reasoned about: `Only` is what the
code's `filter` and `retain` leave of a list, in its order, given element by element; and
`Ancestors` is the least set closed under parents in the slot, where `descendant_of()` takes as many steps
up as the slot has windows. Two windows are of one `Family` when their lines of
ancestors meet, which is what going up to the root and taking all below it amounts to, also where clients
declare parents in a circle.

### Subscriptions and SnapshotFeed

The loop publishes; a thread per subscriber polls its wake socket, drains it, takes
the three mailboxes one lock at a time and writes. A frame is its serial number;
0 in the shortcut queue is the error frame that reports an overflow. `SnapshotFeed`
states what a subscription promises whatever carries it; `Subscriptions`
implements it (`FeedImplemented`) with `view` mapped to the generation seen, or for a
client that has not read its first frame to the one in its thread's hand. Also:
no wake is lost (`NoLostWake`), no publication is missed or overtaken
(`NothingMissed`), a gap is announced in its place (`GapsAnnounced`), and
everything arrives or is superseded (`EventsArrive`).

### IpcRequests

The accept limit, the request channel, the envelope that is QUEUED, EXECUTING or
CANCELLED, the two-second timeout racing the loop, the completion reports and the
drop of the server. A request runs if and only if its client is told so, and a reply
answers the request it was made for (`RanAsTold`); every thread is accounted for
(`ThreadsAccounted`); every request is resolved and every place returned
(`RequestsResolved`); the drop ends (`DropEnds`).

### Keybinds

One action per outcome of the filter, in the filter's order, plus what else
touches its state: selections, drags, buttons, inhibitors, loss of focus, reload,
registrations. `way` and `lone` are history variables. A consumed press has no
visible release (`ConsumedStaysConsumed`), except that a loss of focus forwards the release of every
key that is down, `out = "flushed"` (disagreement 3). The modkey alone is alone (`TapIsAlone`): since
its press no other key has reached anybody, no button was pressed, no drag began and no focus was
lost. Triggers are distinct (`TriggersDistinct`), and what a stuck key
swallows is one press (`OnePressLost`).

### PointerInteraction

`seat` is the pointer and what it can change: `pressed` and `swallowed` are
`pressed_buttons` and `swallowed_buttons`, `intercepted` is the selection's own set,
`seen` what the seat and so a client believes down, `held` the hand. `drag` is
`struct Interaction`; what its operation would restore is `saved`, and of geometry there
is a place of the one floating window, a master ratio and the stack weights, each one of
a few shapes. `Install`, `Dragged`, `Finish` and `Valid` are `start_drag()`,
`motion`, `finish_interaction()` and `interaction_is_valid()`;
`RelayoutStates` is the tail of every change of layout, which cancels a drag whose
subject it took away. The list of windows is kept as its order, the pairs of a window and a later one: a
swap renames the windows in the pairs, a window that is added comes after all others
(`AtEnd`), and two lists are the same for the windows that stayed if they have the same pairs of them
(`Among`). The prover can follow that where it could not follow a sequence through a filter. Buttons go through the filters of `render.rs` and `tty.rs` in their order:
selection, drag, binding, title bar or edge, client.

Correct means: the drag, its grab, its cursor and what a resized client was told
come and go together, and its subject is still there to be dragged
(`DragOwnsPointer`); every button of `pressed_buttons` has one owner, the seat, a drag or a binding, and
the seat believes no other down (`ButtonsAccounted`); what is not committed leaves no trace in places,
splits and order, and a click that does not move commits nothing
(`CancelLeavesNoTrace`).

### SessionWorkers

Two threads started at first use, each with a channel of one place, the watcher thread of the
notifier, and the drop that stops and joins them in the order of the fields. Steps are cut
where a thread blocks: a channel, a child that is polled, a call on the bus. Commands,
`xdg-open`, the bus and the daemon are external: they may fail, hang, answer late or, for
the daemon, start again and give the same ids to other notifications. The worker is
"dialling" until `Connection::session()` returns (`BusConnects`), the watcher "subscribing" until
`for_match_rule()` does (`BusSubscribes`); neither wait has a timeout or looks at a stop flag. `tried`, `lost`, `clicked`,
`opened` and `restarted` are history variables.

Correct means: nothing outlives the drop (`NothingOutlives`), which ends even if a
command of the activation hangs, though not if the bus, the daemon or `xdg-open` does (`DropEnds`); a click opens the screenshot it was about, once,
and the newest can be opened whatever the limit drops (`OpensWhatWasClicked`); the
display of XWayland reaches the session (`DisplayReaches`), unless the queue was full:
the field `lost` says so.

### OutputFrames

`out` is the part of `Villain`, `Tty` and `FrameClock` that decides whether a frame is made:
`repaint_needed`, the frame in flight, the redraw asked of the host, the timers of callbacks and
cursor. `LoopTail` is the callback of `event_loop.run()`. Page flips are counted rather than
told apart, since the code does not tell them apart: a flip of before a pause may complete
after it. Rendering can always fail, and so can the making of either timer, which the code logs and leaves
at that; `refused` has the timers that were not made when last due. `held` and `queued` are smithay's
surface, as `frame_submitted()` and `queue_buffer()` are called: it submits one buffer at a
time and keeps the next until it is told that the first is done. After a DRM error it is not told
(disagreement 7), and the history field `lost` says that no flip will come for what it waits for.

Correct means: everything that waits has something on its way (`NobodyWaitsInVain`), and
once the session is active, renders succeed and timers can be made every repaint happens and every client in
sight is told to draw (`FramesArrive`). Both except a flip that was `lost`.

### Capture

A session per client with its source (`output`, `window` or a mask of workspaces), one frame,
the pixels that were allowed last; one flag and one timer for all pending frames; and
what may change between: the active workspace, the size of the output, the window.
`Finished` is `finish_pending()` for one frame, in its order. The mask is `MaskBits` wide
and its shift wraps, as `1u32 << index` does in a release build.

Correct means: a client that may see some workspaces is shown nothing else, at a size it
was told (`SharedAsAllowed`); limits hold, what is pending has the timer, and a
session's end is told once (`FramesAccounted`).

## 3. The runs

| Run | Question | Bounds |
| --- | --- | --- |
| `navigation_slots` | does any order of switches, rules, pulls, moves and closings lose a window, a slot or a publication? | 4 slots, 2 windows, 1 child, timer may fail |
| `navigation_motion` | do indexes survive, and swipes land, with windows under a finger or an animation? | 4 slots, 2 of them fixed, 1 window, 1 popup, 1 touchpad |
| `navigation_quiet` | do animations, swipes of two touchpads and everything that blocks them leave one coherent presentation that ends? | 3 slots, 2 touchpads, all interruptions |
| `window_families` | do windows that change slots keep overlays, histories and families, and does walking them leave their recency alone? | 2 slots, 2 windows over the life of the compositor, fullscreen, shell surface that is exclusive or not, histories of 2 |
| `window_focus` | is the keyboard always with what is seen? | 1 slot, 2 windows, both overlays, shell surface, host |
| `pointer_interaction` | do drags, selections, bindings and clicks share the pointer, and does a cancelled drag leave nothing? | 2 buttons, 2 tiles and 1 window that floats, 2 shapes, both backends |
| `subscriptions` | is every publication delivered, in order, without a lost wake? | 1 subscriber, 2 contents, 3 generations, 2 reloads, 4 shortcuts, queue of 2 |
| `ipc_requests` | do timeouts, completions and the drop resolve? | 3 connections, 2 places, 2 requests |
| `keybinds` | are keys taken and given back consistently? | 1 modkey, 2 keys, 3 ids for 2 registrations |
| `session_workers` | do the workers end with the state, and do what they were asked? | 3 activations and screenshots together, 1 pending action |
| `output_frames` | does anything wait for what will not come? | both backends, 2 flips the kernel may still deliver, any render, timer or flip may fail |
| `capture` | is only what was allowed shared, and every frame answered? | 2 clients, 2 sessions, 3 workspaces, mask of 2 bits, 2 modes and one too large |

Why the bounds are enough. Four slots have a first, an interior, a last existing
and a limit slot, so a target can skip an empty one and the limit can refuse; two windows make
a family, a parent and a window that is not moved. Two fixed slots of four let
the tail grow behind them and stop at the limit. With two touchpads one holds a preview
while the other begins or is removed; the third slot gives it a choice. One slot is enough for who has the
keyboard, because what decides it is local to the active slot, apart from switching,
which `window_families` has. It is not for the order of recency, which pulls from another slot disturb, so that
`window_families` has that: there the premise `Recorded` of `CycleKeepsRecency` is sometimes false, and without it
TLC finds a violation: two windows meet again in a slot that remembers neither while an exclusive shell
surface has the keyboard, and the walk that lifts the overlay enters one. A history of two holds
every window of a slot once. That one stands in it twice takes three, and is left to the theorem
`WalksKeepRecency`. Nobody toggles floating in `window_families`, which moves no window between slots;
`window_focus` has it.
Two buttons are one that drags and one that is pressed meanwhile; the
tiles and the dialog give a split of three, a swap, and a window that becomes floating, tiled or
covering under its drag; two shapes tell a saved value from a changed one. One subscriber is enough
because subscribers share nothing but the loop, which treats them in turn; a queue
of two overflows at the third shortcut, and the fourth follows the error frame. Two places and three connections reach the
limit and wait for a place. Two keys are a bound one and an escape chord. Of three
requests one is in hand, one in the queue and one dropped, or two notifications compete for the
one action that is kept. Two flips are one of before a pause and one of after it. A third
workspace beside a mask of two bits is the one whose shift wraps, and two clients fill the
limit of pending frames, so that a capture after one was destroyed meets it. A session beyond the
limit takes a third client, and is left to the theorem `PendingAreAnswered`. The instances have
between 4,000 (`output_frames`) and two million (`capture`) states.

Symmetry is declared only where no definition tells the elements apart and no liveness is
checked. Deadlock is checked everywhere except in `subscriptions`, whose bounds on what is
published end behaviours, and in `ipc_requests` and `session_workers`, where what is modelled is
dropped.

### Fairness

* Navigation: weak fairness of the timer (`Tick`) and of the end of an iteration
  (`LoopTail`): calloop goes round and fires what is registered. Nothing is
  promised of fingers or clients, so `QuietMotionEnds` says what happens once they leave it alone.
* Subscriptions: weak fairness of publication, of the wakes the loop owes and of a
  thread that can run. Writes are never promised to succeed: `End` is only
  fair for a connection whose client has closed.
* IPC: the loop goes on with its channel and with what it is in the middle of, the
  drop goes on once begun, threads run, and two seconds pass (`Expire`).
  `Accept`, `Send` and `CloseClient` are not fair.
* Session workers: weak fairness of each thread and of the drop. Commands, the opener, the
  bus and the daemon need not do anything. What the code does wait for stands in the
  properties: `DropEnds` assumes that the bus gives a connection or an error and subscribes the
  watcher or does not, that the daemon answers and that `xdg-open` ends
  (`ServicesEnd`), `DisplayReaches` that commands end.
* Frames: the loop comes to its end of batch (`LoopTail`), the timer of the frame clock fires,
  the host redraws a window it was asked to redraw, and the kernel completes a flip it
  accepted. `FramesArrive` starts from a session that stays active, renders that succeed and no flip
  that is `lost` (`Steady`), and for clients from a timer that can be made in the end (`TimersMade`). A
  render that failed is only tried again after the next event, a timer that could not be made after the next
  render.

### Disagreements with the documentation

No run is kept to show a violation; where a property would fail, the behaviour is
characterised by one that holds, and its exception is named.

1. `apply_window_rules_on_open()` moves a window between two
   slots that are not active without marking the state dirty
   (`workspaces.rs:1258`), whereas `docs/architecture/desktop-state-subscriptions.md:9` says
   relevant mutations do. `MutationsPublished` checks that it is the only such
   handler: its exception is named `SilentRuleMove`.
2. Releasing a global shortcut leaves the key in `suppressed_keys` (`keybinds.rs:621`), so
   every second press is swallowed; README:174-175 promises `Activated` at each press.
   `OnePressLost` checks that no more than that is lost.
3. Losing the host's focus or pausing the session releases all keys
   without looking at `active_global_shortcuts` (`tty.rs:241`, `render.rs:217`):
   `Deactivated` is not sent. The releases go past the filter, those of consumed keys included
   (`tty.rs:238`, `render.rs:214`), and so a client sees the release of a press it was not given, whereas
   `keybinds.rs:643` means to "still keep the key from the client". `ConsumedStaysConsumed` excepts
   `FocusLost`.
4. Pulling a window to its parent's slot leaves it in the focus
   history it came from (`workspaces.rs:519`); when the family is moved there it
   stands in that history twice, and the MRU cycle of README:129-135 never gets past it; a walk that
   lifts an overlay then changes the order it walks, whereas README:131 lets only focusing do
   so. `CycleKeepsRecency` is about slots that are `Recorded`.
5. The mask of a session is compared with `1 << index` (`capture.rs:412`). The index is of any
   workspace, and may reach 32 after the session was made: a build with overflow checks panics
   there, and without them the shift wraps, so that workspace 32 is rendered for whoever may see
   workspace 0, whereas `capture.rs:414` says "Never invoke the renderer while on an excluded
   workspace". `SharedAsAllowed` excepts the workspaces beyond the mask, and nothing else.
6. When the one place of its queue is taken the activation worker logs that it is "coalescing
   request" (`session.rs:200`); the newest environment is dropped and the oldest kept.
   `DisplayReaches` names it (`lost`).
7. A DRM error is "recoverable", and the code logs that it is "scheduling a fresh frame"
   (`tty.rs:215-216`). If the error has lost a page flip, the surface still waits for it, as
   `frame_submitted()` is not called there as it is at a pause (`tty.rs:251`): the fresh frame is queued behind
   it and not submitted, and `pending` stays set until the session is paused.
   `NobodyWaitsInVain` and `FramesArrive` name it (`lost`).

Seen while reading, and not claimed by any document clearly enough to count: the last
workspace is forgotten when it is trimmed (`workspace_navigation.rs:126`; README:194-198
lets history last for the session, "including empty ones"); a key that went to a client is
released unseen while a selection begun over IPC takes every key (`keybinds.rs:667`); a shell surface
that moves itself below a fullscreen window keeps the keyboard
(`layer_shell.rs:139`); an exclusive shell surface that becomes visible again
without a commit of its own does not get it back (`layer_shell.rs:226`); a dialog pulled
to its parent loses its place in the recency order; a key pressed in a selection does not disarm
the lone modkey (`keybinds.rs:656`); a button held while the session pauses stays in
`intercepted_buttons`; when the timer of the callbacks or of an animated cursor cannot be made, clients and cursor
stay where they are until something else renders (`frame_clock.rs:90`, `state.rs:374`); the drop of
the state waits as long as they take for the bus to connect (`screenshot_notification.rs:191`)
and to subscribe the watcher (`:319`), for the notification daemon (`:233`) and for `xdg-open`
(`:380`).

## 4. The proofs

**Navigation.** `WorkspaceNavigation_proofs` holds for any `MaxWorkspaces >= 2`, any sets of
windows, popups, children and touchpads, finite or not, and any settle time:

* `RetainedKeepsTail`, `TargetNearest`: what the two decisions of `SlotPolicy`
  return, for all arguments. `Min` and `Max` are CHOOSE expressions over a set, so
  this starts from the existence of a least element of a bounded set of numbers.
* `AlwaysHeld`: `Spec => []Held(villain)`, the inductive invariant.
* From it `TypeCorrect` (`TypeOK`), `IndexesInRange` (`NoDanglingIndex`), `TailAlwaysKept`
  (`DynamicTail`), `OneTimerForMotion` (`TimerRunsWithMotion`) and `ClientsHearTheEnd`
  (`ClientSwipePaired`).
* With it the action properties `NoWindowLost` (`WindowsKept`), `ChangesPublished`
  (`MutationsPublished`) and `SwipesLandWhereShown` (`SwipeLandsWhereShown`).

They assume `MaxWorkspacesAssumption` and `NavigationAssumption`, which TLC evaluates
in every navigation run. `Held` has three parts, because none of the properties is inductive
by itself:

* `Sound`, the indexes. Growing for a preview needs the types of its fields, a reserved swipe
  will preview from the slot it started on, and a switch in the middle of a swipe must know that
  slot to be the active one.
* `TailKept`, the free slot behind everything in use. It fails in the middle of most handlers: a window
  that arrives in the last slot, a switch into it, a preview that grows the vector. What is left there
  is `Sound`, or `Trimmable` where an index may even be too large, and `TrimSound` leads
  from it back to the tail: that is `RetainedKeepsTail`. The handlers that do
  not trim are shown to use no slot they did not use before.
* `Steady`, the presentation: its timer, the device and the source of the preview, and what the
  client was told. A handler takes the presentation down in several methods, and each is
  specified by what it leaves (no preview, no tracks, no reserved stream), so that the
  next may start from it.

The argument then follows the code: for each method of `struct Villain` a lemma says which part of
`Held` it keeps or restores and which fields it leaves alone; each action cites those of its methods in
their order. For the action properties there are two lemmas per action more: what it makes of
`home`, `View` and `dirty`, and what of the preview and its target.

**Pointer.** `PointerInteraction_proofs` holds for any sets of buttons, tiles and shapes and either
backend, from `PointerAssumption` and `DragAssumption` (no drag is an operation).
`DragsOwnThePointer` is `Spec => []DragOwnsPointer`, `EveryButtonIsAccounted` is
`Spec => []ButtonsAccounted` and `CancelledDragsLeaveNoTrace` is `CancelLeavesNoTrace`. The inductive
invariant `Sound` has two parts, since a handler changes the layout first and looks after the drag
later. `Accounted`, the drag with its flags and grab and where each
button is, does not depend on the layout, and holds throughout a handler. `Grounded`, that the
dragged window or split is there and one that was not moved yet is where it was saved,
breaks when the layout changes and is made again by `RelayoutStates`, which lets the drag go on if it is still
`Valid` and cancels it otherwise. `Accounted` is stronger than `ButtonsAccounted` by what its induction needs:
during a drag the seat sees no button but the drag's own, a selection has the pointer for itself,
and nothing is pressed while the host is elsewhere. What an end of a drag may rely on is less
(`Endable`), because selections and requests interrupt a drag in the middle of what began
it; what it leaves is `Quiet`. The last clause of `Sound` is one of `ButtonsAccounted`: the focus of
the seat is behind the pointer only while a screenshot intercepts it, so whoever takes the pointer
back must refresh it.

That nothing is left behind is an argument about a step. If a drag ends by anything but a release of a
button or Return, what it could change is as it was saved and the windows that stay are in their order
(`Traceless`); by those two it is committed, and a window that was not moved is where it was
(`Untouched`, by `Grounded`). A drag that is given up inside a handler has put things back before the
layout goes on (`Restored`), so that each method need only leave geometry and order alone after it.
Each lemma `...Step` has one action.

**Frames.** The first half of `Output_proofs` holds for any `MaxFlips` and either backend, from
`FramesAssumption`. (The module has the proofs of `Capture` as well, which share no variable with
it; hence the names `FramesInit`, `FramesNext` and `FramesSpec`.) `NobodyIsForgotten` is `Spec => []NobodyWaitsInVain`, which is inductive
as it stands; the work is in the middle of a handler, where it does not hold. There the
invariant is split: `Supplied`, what every state on the way keeps, and `Animates` and `Repaints`,
which the beginning of a render breaks and each of its outcomes repairs
(`RenderedFlowing` and the lemmas about a failure). The exceptions for a lost flip and for timers that
cannot be made are part of the property, as section 3 says, and so of the theorem.

**Capture.** The second half of `Output_proofs` holds for any finite set of clients, any limits, any width of the
mask and any sizes, from `CaptureAssumption`. `NothingElseIsShown` is
`Spec => []SharedAsAllowed` and `PendingAreAnswered` is `Spec => []FramesAccounted`. `Good` is what
holds of one session: its type, that what it keeps to show is allowed and of its size, that it was told
once. Each outcome of `finish_pending()` keeps it (`StoppedGood`, `ResizedGood`,
`DeliveredGood`, collected in `FinishedGood`); `BitOfSlot` is where the width of the mask
enters. `Inv` adds the limits and the timer. That the limit holds needs the frames
destroyed while they were pending in the sum (`DropFits`), and a timer that cannot be made
needs the invariant itself: where there was none before, nothing was pending, and
`fail_pending()` answers no one but the frame at hand.

**Keys.** `Keybinds_proofs` holds for any sets of keys, modkeys and ids, any chords
and any configuration, from `KeybindsAssumption`. `ReleaseFollowsPress`, `OneLost` and
`TapAlone` are `ConsumedStaysConsumed`, `OnePressLost` and `TapIsAlone`; `OneTriggerEach` is
`Spec => []TriggersDistinct`. A loss of focus is excepted from the first, by the
property itself. The invariant `Filter` is about the keys that are down without
being in `suppressed_keys` (`Forwarded`) and those in it without being down (`Stuck`).
The latter exist because releasing a shortcut does not remove its key; that such a
key fires no active shortcut, and was not swallowed when last pressed, is what bounds the
damage to one press, and needs in turn `Firing`, the same for keys that are down. `Distinct` adds that registrations are
finite, which their limit needs.

**Requests.** `IpcRequests_proofs` holds for any finite set of connections, any number of places
and of requests, from `IpcAssumption`. `AnswersAreTrue` is `Spec => []RanAsTold` and
`NoThreadLeft` is `Spec => []ThreadsAccounted`. `Counted` ties the three counters of a
connection to the point its thread has reached and the state of its last envelope; `Replied`
says that only an executing request has a reply, and that a request still queued has a
thread that waits for it, which is what the loop relies on when it takes an
envelope whose timeout may just have passed. `Stopped` has the drop: no handler is in progress
once it has begun. The limit of places is on a cardinality, so that accepting needs the minimum of
two numbers of places and nothing about which connections hold them. That the requests of all
connections together keep within the bound of the run is a sum over a function: it would need
induction over data, is no property of the code, and is left out of the invariant.

**Subscriptions.** `Subscriptions_proofs` holds for any subscribers, contents, queue length and
number of publications, from `SubscriptionsAssumption`. `WakesKept` is `Spec => []NoLostWake`,
`NoneMissed` is `Spec => []NothingMissed`, `GapsTold` is `GapsAnnounced`, and `FeedSafety` says
that the initial states of `Subscriptions` are initial states of `SnapshotFeed` under the
refinement mapping and each of its steps is one of the feed's or a stutter: the safety half of
`FeedImplemented`. The clauses of the invariant follow the life of a subscriber (`Fresh`, `Joined`),
the loop of its thread (`Held`), and the three mailboxes (`Awake`, `Current`, `Ordered`).
`Ordered` is the one that had to be found: the client has read up to some number, the thread's
hand continues from there to a second one, the queue from the second to the last
published, each consecutive but for an error frame at the front that
stands for those before (`Follows`). Without the number in between the thread could not swap
the queue into its hand.
Attempting this proof showed that the guards of three actions were weaker than
meant, `owed = {} /\ Changed => ...` being an implication as a whole: in the model the loop could
publish while it owed wakes, which `event_loop.run()` cannot. They are corrected, and the run
was repeated.

**Workers.** `SessionWorkers_proofs` holds for any number of activations and screenshots and any
limit of pending actions, from `WorkersAssumption`. `NothingLeft` is `Spec => []NothingOutlives`
and `ClicksOpen` is `OpensWhatWasClicked`. `Busy` and `Serving` say what a thread has at each point
of its loop. That a screenshot is opened once rests on an order nobody wrote down: `Numbered` says
that what waits in the queue is newer than the notice in hand, and that than all that is
offered or was opened. `Traced` is the agreement with the daemon, and holds until the daemon begins
its ids anew: an id means the same file to it and to the notifier, ids only grow, and a signal on
its way is about a click that was made. From the growth of ids follows that the one dropped
at the limit is not the newest (`KeptLimit`); that the record of what was opened stays
within its bound is the pigeonhole principle on `Numbered` (`OpenedTyped`).

**Windows.** `WindowManagement_proofs` holds for any sets of windows and slots, any rules, shell
surfaces and overlays, from `WindowAssumption`. `Reachable` is `Spec => []MinimizedReachable`,
`FollowsSight` is `Spec => []KeyboardFollowsSight`; `ShellLeft`, `OverlaysGoAlong`, `FamiliesStay` and
`Granted` are the action properties `HiddenShellIsLeft`, `OverlaysTravel`, `FamilyTogether` and
`FocusGranted`. The invariant `IInv` is `Base`, that every window is in one
place of one slot and each slot lists its minimised windows and is covered by its own, and
`Sighted`, that the keyboard is with something in sight. They are apart because most handlers pass
through states where `Base` and half of `Sighted` hold (`Host`: nobody types while
the host is elsewhere), and end in a layout, which makes the whole of it (`RelayoutWorks`). A handler
that does not lay out, because the window is not in the active slot, must instead leave that slot as it
looked (`SameSlot`, `RelayoutIfFine`). `Fine` is what every handler establishes (`NextFine`). It says besides
that overlays travelled (`Travel`) and that a shell surface seen to have the keyboard still is
(`Lit`). `Lit` is no invariant, since the surface's own commits break it, and so
travels from step to step with a condition. `Moved` describes the three ways of changing slots at once (`MovedWorks`);
that a family stays together rests on ancestors being a closed set
(`AncestorsOfParent`, `FamilyClosed`). `RanksOnto` is where `Only` comes from: the places of a list that are kept have ranks, no two the
same, and there are no gaps.

`WalksKeepRecency` is `CycleKeepsRecency`, for any slots. Where the active slot is `Recorded`,
the overlay that `CycleFocus` lifts moves the keyboard
to the window that was remembered last, and moving the last of what a sequence keeps to its end changes
nothing of what it keeps (`LastStaysLast`, which rests on a sequence without repetition being
determined by its elements and their order: `PlaceByOrder`, `SameOrder`). Every other step is no walk. The
premise cannot be dropped: a pulled window is missing from the focus history of the
slot it enters and stays in that of the slot it left, so that it stands there twice when its
family is moved back (disagreement 4), and the focus that is restored when a walk lifts an overlay then
adds or drops an entry.

Only model-checked, since TLAPS 1.4 does not do them, are liveness (`QuietMotionEnds`, `EventsArrive`,
`RequestsResolved`, `FramesArrive`, both `DropEnds`, `DisplayReaches`) and the fairness part of
`FeedImplemented`. All other invariants and action properties of the runs are theorems.

## 5. What is not modelled

Stacking order, easing, textures and drawing carry no decisions the
properties are about, and of geometry only what a drag has to restore is kept. Parsing of
configuration, key names and requests enters as a
choice of results. Device discovery, DRM and files are I/O. Popup keyboard grabs
belong to smithay. The size limit of a frame, the permissions of
the socket and the panes of the overview are left out of the IPC models; the commits of
the overview's surface (`layer_shell.rs:81`) are a flag. Encoding and saving a screenshot
are one synchronous call that ends in a file or not; the clipboard transfer that may follow it is
not modelled, nor are the selections and configure requests of XWayland.
`PROJECT.json` gives each component's status and reason.

## 6. The plan

Done, in this order: slots, motion and swipes; subscriptions with the feed; requests;
the key filter; windows and focus; the pointer with drags and selections; the session's
workers; frames and capture. Then the proofs: all safety of navigation, frames, capture, keys,
requests, subscriptions, the session's workers, windows and the pointer.

Next, models: the overview's surface with its commits (`layer_shell.rs:81`); clipboard
transfers of screenshots; stacking of XWayland windows.

Next, proofs: that a slot no window was pulled to or from stays `Recorded`, which says where the premise
of `CycleKeepsRecency` holds.

------------------------------ MODULE OutputFrames ------------------------------
(***************************************************************************)
(* How a change on the screen becomes a frame, and how a client learns     *)
(* that it may draw the next one (tty.rs, render.rs, frame_clock.rs,       *)
(* state.rs). Every part waits for another: a repaint for the page flip in *)
(* flight, a client for the timer of the frame clock, an animated cursor   *)
(* for its own timer, the nested window for the host's redraw.             *)
(*                                                                         *)
(* An action is one event of the loop with its whole handler; LoopTail is  *)
(* what main.rs does after each batch of events. The kernel, the host, the *)
(* clients and the surface of smithay are external: a page flip may be     *)
(* lost with the session, a flip of before a pause may complete after it,  *)
(* a render may fail, and so may the making of a timer.                    *)
(***************************************************************************)
EXTENDS Naturals

CONSTANTS Backends,            \* "tty" and "winit": which of them may run
          MaxFlips             \* completions the kernel may still deliver

ASSUME FramesAssumption == Backends \subseteq {"tty", "winit"} /\ MaxFlips \in Nat \ {0}

VARIABLE out

States ==
  [backend : Backends,
   tail : BOOLEAN,             \* events were handled, and the end of the batch is due
   repaint : BOOLEAN,          \* repaint_needed
   active : BOOLEAN, pending : BOOLEAN,          \* of the TTY
   held : BOOLEAN,             \* the surface waits for the flip of a buffer
   queued : BOOLEAN,           \* and has another to submit then
   flips : 0..MaxFlips,        \* page flips whose event is to come
   lost : BOOLEAN,             \* history: none is to come for the buffer it waits for
   redraw : BOOLEAN,           \* redraw_requested
   hosted : BOOLEAN,           \* the host owes the window a redraw
   clock : BOOLEAN,            \* frame_clock.pending
   clockTimers : 0..2,
   cursorTimer : BOOLEAN,      \* the timer of the current generation
   oldCursorTimer : BOOLEAN,   \* one of an older generation
   refused : SUBSET {"callbacks", "cursor"},     \* history: timers not made when last due
   animated : BOOLEAN,         \* the cursor that was drawn last
   failed : BOOLEAN,           \* the last render, and nothing happened since
   waiting : BOOLEAN]          \* a client in sight has asked for a frame callback

FramesInit == \E backend \in Backends :
  out = [backend |-> backend, tail |-> TRUE, repaint |-> TRUE, active |-> TRUE, pending |-> FALSE,
         held |-> FALSE, queued |-> FALSE, flips |-> 0, lost |-> FALSE,
         redraw |-> FALSE, hosted |-> FALSE, clock |-> FALSE, clockTimers |-> 0,
         cursorTimer |-> FALSE, oldCursorTimer |-> FALSE, refused |-> {}, animated |-> FALSE,
         failed |-> FALSE, waiting |-> FALSE]

\* An event wakes the loop, whose tail follows.
Event(o) == [o EXCEPT !.tail = TRUE, !.failed = FALSE]
Tty == out.backend = "tty"

-----------------------------------------------------------------------------
(* Rendering                                                               *)

\* schedule_frame_callbacks(): one timer at a time. One that cannot be made leaves the
\* clients to the next render.
ScheduleCallbacks(o) ==
  IF o.clock THEN {o}
  ELSE {[o EXCEPT !.clock = TRUE, !.clockTimers = @ + 1, !.refused = @ \ {"callbacks"}],
        [o EXCEPT !.refused = @ \cup {"callbacks"}]}

\* schedule_cursor_frame(), with or without a delay: the generation is a new one even when
\* nothing is animated. A timer that cannot be made leaves the cursor to the next render.
ScheduleCursor(o) ==
  LET next(animated, timer, refused) ==
        [o EXCEPT !.cursorTimer = timer, !.oldCursorTimer = @ \/ o.cursorTimer,
                  !.animated = animated, !.refused = (@ \ {"cursor"}) \cup refused]
  IN {next(FALSE, FALSE, {}), next(TRUE, TRUE, {}), next(TRUE, FALSE, {"cursor"})}

\* The end of a render that succeeded.
FrameRendered(o) ==
  UNION {ScheduleCursor(r) : r \in ScheduleCallbacks([o EXCEPT !.failed = FALSE])}

\* A render that failed. It is tried again after the next event.
Failed(o) == [o EXCEPT !.pending = FALSE, !.repaint = TRUE, !.failed = TRUE]

\* A buffer is submitted, if the kernel takes it: it refuses one while another flip has
\* not happened.
Submit(o) ==
  IF o.flips < MaxFlips THEN {[o EXCEPT !.held = TRUE, !.flips = @ + 1]} ELSE {}

\* surface.queue_buffer(), where it does not fail: only one buffer is submitted at a time.
QueueBuffer(o) == IF o.held THEN {[o EXCEPT !.queued = TRUE]} ELSE Submit(o)

\* surface.frame_submitted(): the buffer is retired and the one that was queued follows,
\* unless that fails.
Retired(o) == [o EXCEPT !.held = FALSE, !.queued = FALSE, !.lost = FALSE]
FrameSubmitted(o) == {Retired(o)} \cup (IF o.queued THEN Submit(Retired(o)) ELSE {})

\* A faulty variant of TtyRenders: a frame without damage tells nobody.
TtyRendersDamageOnly(o) ==
  LET begun == [o EXCEPT !.repaint = FALSE]
  IN ScheduleCursor(begun)
     \cup (UNION {FrameRendered(q) : q \in QueueBuffer([begun EXCEPT !.pending = TRUE])})
     \cup {Failed(begun)}

\* tty::render_if_needed() with Tty::render(). Only a frame with damage is queued.
TtyRenders(o) ==
  LET begun == [o EXCEPT !.repaint = FALSE]
  IN FrameRendered(begun)
     \cup (UNION {FrameRendered(q) : q \in QueueBuffer([begun EXCEPT !.pending = TRUE])})
     \cup {Failed(begun)}

\* render_if_needed()
RenderIfNeeded(o) ==
  IF ~o.repaint THEN {o}
  ELSE IF o.backend = "winit"
  THEN {[o EXCEPT !.redraw = TRUE, !.hosted = @ \/ ~o.redraw]}
  ELSE IF ~o.active \/ o.pending THEN {o} ELSE TtyRenders(o)

\* The loop's callback after a batch of events.
LoopTail ==
  /\ out.tail
  /\ out' \in RenderIfNeeded([out EXCEPT !.tail = FALSE])

\* WinitEvent::Redraw with render_frame()
Redraw ==
  /\ ~Tty /\ out.hosted
  /\ LET o == Event([out EXCEPT !.hosted = FALSE, !.redraw = FALSE, !.repaint = FALSE])
     IN out' \in FrameRendered(o) \cup {Failed(o)}

\* The host shows the window anew of its own accord.
HostRedraws ==
  /\ ~Tty /\ ~out.hosted
  /\ out' = [out EXCEPT !.hosted = TRUE]

-----------------------------------------------------------------------------
(* What asks for a frame                                                   *)

\* A client commits, with or without a request for a frame callback, or anything else
\* in the compositor calls request_repaint().
ClientCommits ==
  out' = [Event(out) EXCEPT !.repaint = TRUE, !.waiting = TRUE]
RequestRepaint == out' = [Event(out) EXCEPT !.repaint = TRUE]

\* An event that changes nothing on the screen.
OtherEvent == out' = Event(out)

\* The timer of the frame clock: every surface in sight hears that it may draw, one that
\* was not in sight when it was scheduled as well. A paused session sends nothing.
FrameTimer ==
  /\ out.clockTimers > 0
  /\ LET o == [Event(out) EXCEPT !.clockTimers = @ - 1, !.clock = FALSE]
     IN out' = IF Tty /\ ~o.active THEN o ELSE [o EXCEPT !.waiting = FALSE]

\* A timer of the cursor: only the current generation asks for a frame.
CursorTimer ==
  \/ /\ out.cursorTimer
     /\ out' = [Event(out) EXCEPT !.cursorTimer = FALSE, !.repaint = TRUE]
  \/ /\ out.oldCursorTimer
     /\ out' = [Event(out) EXCEPT !.oldCursorTimer = FALSE]

-----------------------------------------------------------------------------
(* The kernel and the session                                              *)

\* DrmEvent::VBlank: which flip it was is not told apart.
VBlank ==
  /\ Tty /\ out.flips > 0
  /\ out' \in FrameSubmitted([Event(out) EXCEPT !.flips = @ - 1, !.pending = FALSE])

\* Flips are lost. The surface waits on for the last of them.
Loses(o, flips) == [o EXCEPT !.flips = flips, !.lost = @ \/ (o.held /\ flips = 0)]

\* DrmEvent::Error, with which flips may be lost. A fresh frame is asked for, but the
\* surface is not told to retire the buffer it waits for.
DrmError ==
  /\ Tty
  /\ \E flips \in 0..out.flips :
       out' = [Loses(Event(out), flips) EXCEPT !.pending = FALSE, !.repaint = TRUE]

\* A faulty variant of PauseSession: the frame in flight is still waited for.
PauseSessionWaits ==
  /\ Tty /\ out.active
  /\ \E flips \in 0..out.flips :
       out' = [Event(out) EXCEPT !.active = FALSE, !.flips = flips]

\* SessionEvent::PauseSession: the frame that was submitted is retired, as its flip may
\* never be heard of. The device is paused, and takes no other.
PauseSession ==
  /\ Tty /\ out.active
  /\ \E flips \in 0..out.flips :
       LET o == [Event(out) EXCEPT !.active = FALSE, !.pending = FALSE]
       IN out' = IF out.pending THEN Retired([o EXCEPT !.flips = flips]) ELSE Loses(o, flips)

\* SessionEvent::ActivateSession: the display may not come back, and another activation
\* is waited for.
ActivateSession ==
  /\ Tty /\ ~out.active
  /\ \/ out' = [Event(out) EXCEPT !.active = TRUE, !.pending = FALSE, !.repaint = TRUE]
     \/ out' = Event(out)

FramesNext ==
  \/ LoopTail \/ Redraw \/ HostRedraws
  \/ ClientCommits \/ RequestRepaint \/ OtherEvent \/ FrameTimer \/ CursorTimer
  \/ VBlank \/ DrmError \/ PauseSession \/ ActivateSession

\* The loop goes on, its timers fire, the host redraws a window it was asked to and the
\* kernel completes a flip.
FramesSpec == /\ FramesInit /\ [][FramesNext]_out
        /\ WF_out(LoopTail) /\ WF_out(FrameTimer) /\ WF_out(Redraw) /\ WF_out(VBlank)

-----------------------------------------------------------------------------
(* What must hold                                                          *)

\* The state is of its type.
FramesTypeOK == out \in States

\* Whatever is waited for is on its way, through pauses, late flips and failed renders:
\* a pending frame has a flip to come, the frame clock has its one timer, a requested
\* redraw a host that owes it, a drawn animation its next wake and a client in sight a
\* frame or the timer. A repaint that was asked for waits for one of these, for the session, or
\* after a failure for an event. Excepted are a buffer whose flip was lost to a DRM error
\* (tty.rs:213) and timers that could not be made (frame_clock.rs:90, state.rs:374).
NobodyWaitsInVain ==
  /\ FramesTypeOK
  /\ out.pending => out.active /\ (out.flips > 0 \/ out.lost)
  /\ out.clockTimers = IF out.clock THEN 1 ELSE 0
  /\ out.redraw => out.hosted
  /\ out.animated => out.cursorTimer \/ out.repaint \/ "cursor" \in out.refused
  /\ out.waiting => out.clock \/ out.repaint \/ ~out.active \/ "callbacks" \in out.refused
  /\ out.repaint => out.tail \/ out.redraw \/ out.pending \/ ~out.active \/ out.failed

\* Once the session stays, renders succeed and no DRM error has lost a flip, every repaint
\* happens; and if the timer can be made, every client in sight hears that it may draw,
\* whether its frame had damage or not (frame_clock.rs:38).
Steady == <>[](out.active /\ ~out.failed /\ ~out.lost)
TimersMade == <>[]("callbacks" \notin out.refused)
FramesArrive == /\ Steady => (out.repaint ~> ~out.repaint)
                /\ Steady /\ TimersMade => (out.waiting ~> ~out.waiting)
==============================================================================

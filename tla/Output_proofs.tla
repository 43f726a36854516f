------------------------------ MODULE Output_proofs ------------------------------
(***************************************************************************)
(* What leaves the compositor for a screen or for a capture: whatever is   *)
(* waited for is on its way, with any number of page flips and on either   *)
(* backend; what is shared was allowed and pending frames are accounted    *)
(* for, with any number of clients, workspaces, sizes and bits.            *)
(***************************************************************************)
EXTENDS OutputFrames, Capture, FiniteSetTheorems, TLAPS

-----------------------------------------------------------------------------
(* Frames: the invariant                                                   *)

\* What holds in the middle of a render as well: a pending frame, a buffer of the surface, the
\* frame clock and a requested redraw have what they wait for.
Supplied(o) ==
  /\ o \in States
  /\ o.pending => o.active /\ o.held
  /\ o.held => o.flips > 0 \/ o.lost
  /\ o.clockTimers = IF o.clock THEN 1 ELSE 0
  /\ o.redraw => o.hosted

\* The three parts that a render breaks and repairs.
Animates(o) == o.animated => o.cursorTimer \/ o.repaint \/ "cursor" \in o.refused
Paces(o) == o.waiting => o.clock \/ o.repaint \/ ~o.active \/ "callbacks" \in o.refused
Repaints(o) == o.repaint => o.tail \/ o.redraw \/ o.pending \/ ~o.active \/ o.failed

\* The invariant as one of a state, for the operators from a state to a state.
Flowing(o) == Supplied(o) /\ Animates(o) /\ Paces(o) /\ Repaints(o)

-----------------------------------------------------------------------------
(* Rendering                                                               *)

\* schedule_frame_callbacks() leaves the frame clock with one timer, or says why not.
LEMMA CallbacksSupplied ==
  ASSUME NEW o, Supplied(o), NEW r \in ScheduleCallbacks(o)
  PROVE  /\ Supplied(r) /\ r.repaint = o.repaint
         /\ r.clock \/ "callbacks" \in r.refused
<1>1. CASE o.clock
  BY <1>1, Zenon DEF ScheduleCallbacks
<1>2. CASE ~o.clock
  <2> DEFINE less == o.refused \ {"callbacks"}
             more == o.refused \cup {"callbacks"}
  <2>1. o.clockTimers = 0 /\ o \in States
    BY <1>2, Zenon DEF Supplied
  <2>2. o.clockTimers + 1 = 1 /\ 1 \in 0 .. 2
    BY <2>1
  <2>3. o.refused \in SUBSET {"callbacks", "cursor"}
    BY <2>1, Zenon DEF States
  <2>4. /\ less \in SUBSET {"callbacks", "cursor"}
        /\ more \in SUBSET {"callbacks", "cursor"} /\ "callbacks" \in more
    BY <2>3
  <2>5. \/ r = [o EXCEPT !.clock = TRUE, !.clockTimers = 1, !.refused = less]
        \/ r = [o EXCEPT !.refused = more]
    BY <1>2, <2>2, Zenon DEF ScheduleCallbacks
  <2> HIDE DEF less, more
  <2>6. CASE r = [o EXCEPT !.clock = TRUE, !.clockTimers = 1, !.refused = less]
    <3>1. r \in States
      BY <2>1, <2>2, <2>4, <2>6, Zenon DEF States
    <3>2. /\ r.pending = o.pending /\ r.active = o.active /\ r.flips = o.flips
          /\ r.held = o.held /\ r.lost = o.lost
          /\ r.redraw = o.redraw /\ r.hosted = o.hosted /\ r.repaint = o.repaint
          /\ r.clock = TRUE /\ r.clockTimers = 1
      BY <2>1, <2>6, Zenon DEF States
    <3> QED BY <3>1, <3>2, Zenon DEF Supplied
  <2>7. CASE r = [o EXCEPT !.refused = more]
    <3>1. r \in States
      BY <2>1, <2>4, <2>7, Zenon DEF States
    <3>2. /\ r.pending = o.pending /\ r.active = o.active /\ r.flips = o.flips
          /\ r.held = o.held /\ r.lost = o.lost
          /\ r.redraw = o.redraw /\ r.hosted = o.hosted /\ r.repaint = o.repaint
          /\ r.clock = o.clock /\ r.clockTimers = o.clockTimers /\ r.refused = more
      BY <2>1, <2>7, Zenon DEF States
    <3> QED BY <2>4, <3>1, <3>2, Zenon DEF Supplied
  <2> QED BY <2>5, <2>6, <2>7
<1> QED BY <1>1, <1>2

\* schedule_cursor_frame() leaves an animated cursor with its timer, or says why not.
LEMMA CursorFlowing ==
  ASSUME NEW o, Supplied(o), ~o.repaint, o.clock \/ "callbacks" \in o.refused,
         NEW r \in ScheduleCursor(o)
  PROVE  Flowing(r)
<1> DEFINE old == o.oldCursorTimer \/ o.cursorTimer
           less == o.refused \ {"cursor"}
           more == less \cup {"cursor"}
<1>1. o \in States
  BY DEF Supplied
<1>2. o.refused \in SUBSET {"callbacks", "cursor"}
  BY <1>1, Zenon DEF States
<1>3. /\ less \in SUBSET {"callbacks", "cursor"} /\ more \in SUBSET {"callbacks", "cursor"}
      /\ "cursor" \in more
      /\ "callbacks" \in o.refused => "callbacks" \in less /\ "callbacks" \in more
  BY <1>2
<1>4. PICK animated \in BOOLEAN, ticks \in BOOLEAN, refused \in {less, more} :
        /\ r = [o EXCEPT !.cursorTimer = ticks, !.oldCursorTimer = old, !.animated = animated,
                         !.refused = refused]
        /\ animated => ticks \/ refused = more
  <2>1. less \cup {} = less
    OBVIOUS
  <2>2. \/ r = [o EXCEPT !.cursorTimer = FALSE, !.oldCursorTimer = old, !.animated = FALSE,
                         !.refused = less \cup {}]
        \/ r = [o EXCEPT !.cursorTimer = TRUE, !.oldCursorTimer = old, !.animated = TRUE,
                         !.refused = less \cup {}]
        \/ r = [o EXCEPT !.cursorTimer = FALSE, !.oldCursorTimer = old, !.animated = TRUE,
                         !.refused = more]
    BY Zenon DEF ScheduleCursor
  <2> HIDE DEF old, less, more
  <2> QED BY <2>1, <2>2, Zenon
<1> HIDE DEF old, less, more
<1>5. old \in BOOLEAN
  BY DEF old
<1>6. r \in States
  <2>1. \A q \in {less, more} : q \in SUBSET {"callbacks", "cursor"}
    BY <1>3, Zenon
  <2>2. refused \in SUBSET {"callbacks", "cursor"}
    BY <2>1, <1>4, Zenon
  <2>3. r = [o EXCEPT !.cursorTimer = ticks, !.oldCursorTimer = old, !.animated = animated,
                      !.refused = refused]
    BY <1>4
  <2> QED BY <1>1, <1>5, <2>2, <2>3, ZenonT(90) DEF States
<1>7. /\ r.pending = o.pending /\ r.active = o.active /\ r.flips = o.flips
      /\ r.held = o.held /\ r.lost = o.lost
      /\ r.clock = o.clock /\ r.clockTimers = o.clockTimers
      /\ r.redraw = o.redraw /\ r.hosted = o.hosted /\ r.repaint = o.repaint
      /\ r.animated = animated /\ r.cursorTimer = ticks /\ r.refused = refused
  BY <1>1, <1>4, Zenon DEF States
<1>8. Supplied(r) /\ Repaints(r)
  BY <1>6, <1>7, Zenon DEF Supplied, Repaints
<1>9. Animates(r) /\ Paces(r)
  BY <1>3, <1>4, <1>7, Zenon DEF Animates, Paces
<1> QED BY <1>8, <1>9 DEF Flowing

\* A render that succeeded.
LEMMA RenderedFlowing ==
  ASSUME NEW o, Supplied(o), ~o.repaint, NEW r \in FrameRendered(o)
  PROVE  Flowing(r)
<1> DEFINE b == [o EXCEPT !.failed = FALSE]
<1>1. o \in States
  BY DEF Supplied
<1>2. PICK c \in ScheduleCallbacks(b) : r \in ScheduleCursor(c)
  BY Zenon DEF FrameRendered
<1>3. b \in States
  BY <1>1, Zenon DEF States
<1>4. /\ b.pending = o.pending /\ b.active = o.active /\ b.flips = o.flips
      /\ b.held = o.held /\ b.lost = o.lost
      /\ b.clock = o.clock /\ b.clockTimers = o.clockTimers
      /\ b.redraw = o.redraw /\ b.hosted = o.hosted /\ b.repaint = o.repaint
  BY <1>1, Zenon DEF States
<1> HIDE DEF b
<1>5. Supplied(b) /\ ~b.repaint
  BY <1>3, <1>4, Zenon DEF Supplied
<1>6. Supplied(c) /\ ~c.repaint /\ (c.clock \/ "callbacks" \in c.refused)
  BY <1>2, <1>5, CallbacksSupplied
<1> QED BY <1>2, <1>6, CursorFlowing

\* A render that failed is to be repeated.
LEMMA FailedFlowing ==
  ASSUME NEW o, Supplied(o) PROVE Flowing(Failed(o))
<1> DEFINE r == Failed(o)
<1>1. r = [o EXCEPT !.pending = FALSE, !.repaint = TRUE, !.failed = TRUE]
  BY DEF Failed
<1> HIDE DEF r
<1>2. r \in States
  BY <1>1, Zenon DEF Supplied, States
<1>3. /\ r.pending = FALSE /\ r.clock = o.clock /\ r.clockTimers = o.clockTimers
      /\ r.held = o.held /\ r.flips = o.flips /\ r.lost = o.lost
      /\ r.redraw = o.redraw /\ r.hosted = o.hosted
      /\ r.repaint = TRUE /\ r.failed = TRUE
  BY <1>1, Zenon DEF Supplied, States
<1>4. Supplied(r) /\ Animates(r) /\ Paces(r) /\ Repaints(r)
  BY <1>2, <1>3, Zenon DEF Supplied, Animates, Paces, Repaints
<1> QED BY <1>4 DEF Flowing, r

\* What the kernel takes it will complete.
LEMMA Submits ==
  ASSUME NEW o \in States, NEW r \in Submit(o)
  PROVE  \E flips \in 0 .. MaxFlips : /\ flips > 0
                                      /\ r = [o EXCEPT !.held = TRUE, !.flips = flips]
<1>1. o.flips < MaxFlips /\ r = [o EXCEPT !.held = TRUE, !.flips = @ + 1]
  <2>1. CASE o.flips < MaxFlips
    BY <2>1 DEF Submit
  <2>2. CASE ~(o.flips < MaxFlips)
    BY <2>2 DEF Submit
  <2> QED BY <2>1, <2>2
<1>2. o.flips \in 0 .. MaxFlips
  BY Zenon DEF States
<1>3. o.flips + 1 \in 0 .. MaxFlips /\ o.flips + 1 > 0
  BY <1>1, <1>2, FramesAssumption
<1>4. r = [o EXCEPT !.held = TRUE, !.flips = o.flips + 1]
  BY <1>1, Zenon
<1> QED BY <1>3, <1>4

\* A queued frame is pending until the flip of the buffer that the surface holds.
LEMMA QueueSupplied ==
  ASSUME NEW o, Supplied(o), o.active, NEW r \in QueueBuffer([o EXCEPT !.pending = TRUE])
  PROVE  Supplied(r) /\ r.repaint = o.repaint
<1> DEFINE p == [o EXCEPT !.pending = TRUE]
<1>1. o \in States
  BY DEF Supplied
<1>2. p \in States
  BY <1>1, Zenon DEF States
<1>3. /\ p.pending = TRUE /\ p.active = o.active /\ p.flips = o.flips
      /\ p.held = o.held /\ p.lost = o.lost
      /\ p.clock = o.clock /\ p.clockTimers = o.clockTimers
      /\ p.redraw = o.redraw /\ p.hosted = o.hosted /\ p.repaint = o.repaint
  BY <1>1, Zenon DEF States
<1>4. IF p.held THEN r = [p EXCEPT !.queued = TRUE] ELSE r \in Submit(p)
  BY Zenon DEF QueueBuffer
<1> HIDE DEF p
<1>5. CASE p.held
  <2>1. r = [p EXCEPT !.queued = TRUE]
    BY <1>4, <1>5
  <2>2. r \in States
    BY <1>2, <2>1, Zenon DEF States
  <2>3. /\ r.pending = TRUE /\ r.active = p.active /\ r.flips = p.flips
        /\ r.held = p.held /\ r.lost = p.lost
        /\ r.clock = p.clock /\ r.clockTimers = p.clockTimers
        /\ r.redraw = p.redraw /\ r.hosted = p.hosted /\ r.repaint = p.repaint
    BY <1>2, <1>3, <2>1, Zenon DEF States
  <2> QED BY <1>3, <1>5, <2>2, <2>3, Zenon DEF Supplied
<1>6. CASE ~p.held
  <2>1. PICK flips \in 0 .. MaxFlips :
          flips > 0 /\ r = [p EXCEPT !.held = TRUE, !.flips = flips]
    BY <1>2, <1>4, <1>6, Submits
  <2>2. r \in States
    BY <1>2, <2>1, Zenon DEF States
  <2>3. /\ r.pending = TRUE /\ r.active = p.active /\ r.flips = flips
        /\ r.held = TRUE /\ r.lost = p.lost
        /\ r.clock = p.clock /\ r.clockTimers = p.clockTimers
        /\ r.redraw = p.redraw /\ r.hosted = p.hosted /\ r.repaint = p.repaint
    BY <1>2, <1>3, <2>1, Zenon DEF States
  <2> QED BY <1>3, <2>1, <2>2, <2>3, Zenon DEF Supplied
<1> QED BY <1>5, <1>6

\* A render of the TTY, of a state whose repaint it takes on.
LEMMA TtyRendersFlowing ==
  ASSUME NEW o, Supplied(o), o.active, NEW r \in TtyRenders(o)
  PROVE  Flowing(r)
<1> DEFINE begun == [o EXCEPT !.repaint = FALSE]
<1>1. begun \in States
  BY Zenon DEF Supplied, States
<1>2. /\ begun.pending = o.pending /\ begun.active = o.active /\ begun.flips = o.flips
      /\ begun.held = o.held /\ begun.lost = o.lost
      /\ begun.clock = o.clock /\ begun.clockTimers = o.clockTimers
      /\ begun.redraw = o.redraw /\ begun.hosted = o.hosted /\ begun.repaint = FALSE
  BY Zenon DEF Supplied, States
<1>3. \/ r \in FrameRendered(begun)
      \/ \E q \in QueueBuffer([begun EXCEPT !.pending = TRUE]) : r \in FrameRendered(q)
      \/ r = Failed(begun)
  BY Zenon DEF TtyRenders
<1> HIDE DEF begun
<1>4. Supplied(begun) /\ ~begun.repaint /\ begun.active
  BY <1>1, <1>2, Zenon DEF Supplied
<1>5. ASSUME NEW q \in QueueBuffer([begun EXCEPT !.pending = TRUE])
      PROVE  Supplied(q) /\ ~q.repaint
  BY <1>4, QueueSupplied
<1> QED BY <1>3, <1>4, <1>5, RenderedFlowing, FailedFlowing

\* The tail of the loop renders what is due or leaves it to what it waits for.
LEMMA LoopTailFlowing ==
  ASSUME Flowing(out), LoopTail PROVE Flowing(out')
<1> DEFINE b == [out EXCEPT !.tail = FALSE]
<1>1. /\ b.pending = out.pending /\ b.active = out.active /\ b.flips = out.flips
      /\ b.held = out.held /\ b.lost = out.lost
      /\ b.refused = out.refused /\ b.waiting = out.waiting
      /\ b.clock = out.clock /\ b.clockTimers = out.clockTimers
      /\ b.redraw = out.redraw /\ b.hosted = out.hosted /\ b.repaint = out.repaint
      /\ b.animated = out.animated /\ b.cursorTimer = out.cursorTimer
  BY Zenon DEF Flowing, Supplied, States
<1>2. b \in States
  BY Zenon DEF Flowing, Supplied, States
<1>3. out' \in RenderIfNeeded(b)
  BY DEF LoopTail
<1> HIDE DEF b
<1>4. Supplied(b) /\ Animates(b) /\ Paces(b)
  BY <1>1, <1>2, Zenon DEF Flowing, Supplied, Animates, Paces
<1>5. CASE ~b.repaint
  <2>1. out' = b
    BY <1>3, <1>5, Zenon DEF RenderIfNeeded
  <2> QED BY <1>4, <1>5, <2>1, Zenon DEF Flowing, Repaints
<1>6. CASE b.repaint /\ b.backend = "winit"
  <2> DEFINE hosted == b.hosted \/ ~b.redraw
             r == [b EXCEPT !.redraw = TRUE, !.hosted = hosted]
  <2>1. out' = r
    BY <1>3, <1>6, Zenon DEF RenderIfNeeded
  <2>2. hosted = TRUE
    BY <1>4, Zenon DEF Supplied, States
  <2> HIDE DEF hosted
  <2>3. r \in States
    BY <1>2, <2>2, Zenon DEF States
  <2>4. /\ r.pending = b.pending /\ r.active = b.active /\ r.flips = b.flips
        /\ r.held = b.held /\ r.lost = b.lost
        /\ r.refused = b.refused /\ r.waiting = b.waiting
        /\ r.clock = b.clock /\ r.clockTimers = b.clockTimers
        /\ r.redraw = TRUE /\ r.hosted = hosted /\ r.repaint = b.repaint
        /\ r.animated = b.animated /\ r.cursorTimer = b.cursorTimer
    BY <1>2, Zenon DEF States
  <2> HIDE DEF r
  <2>5. Supplied(r) /\ Animates(r) /\ Paces(r) /\ Repaints(r)
    BY <1>4, <2>2, <2>3, <2>4, Zenon DEF Supplied, Animates, Paces, Repaints
  <2> QED BY <2>1, <2>5 DEF Flowing
<1>7. CASE b.repaint /\ b.backend # "winit" /\ (~b.active \/ b.pending)
  <2>1. out' = b
    BY <1>3, <1>7, Zenon DEF RenderIfNeeded
  <2> QED BY <1>4, <1>7, <2>1, Zenon DEF Flowing, Repaints
<1>8. CASE b.repaint /\ b.backend # "winit" /\ ~(~b.active \/ b.pending)
  <2>1. out' \in TtyRenders(b)
    BY <1>3, <1>8, Zenon DEF RenderIfNeeded
  <2> QED BY <1>4, <1>8, <2>1, TtyRendersFlowing
<1> QED BY <1>5, <1>6, <1>7, <1>8, Zenon

\* WinitEvent::Redraw
LEMMA RedrawFlowing ==
  ASSUME Flowing(out), Redraw PROVE Flowing(out')
<1> DEFINE o == Event([out EXCEPT !.hosted = FALSE, !.redraw = FALSE, !.repaint = FALSE])
<1>1. o = [out EXCEPT !.hosted = FALSE, !.redraw = FALSE, !.repaint = FALSE,
                      !.tail = TRUE, !.failed = FALSE]
  BY DEF Event
<1>2. out' \in FrameRendered(o) \/ out' = Failed(o)
  BY Zenon DEF Redraw
<1> HIDE DEF o
<1>3. o \in States
  BY <1>1, Zenon DEF Flowing, Supplied, States
<1>4. /\ o.pending = out.pending /\ o.active = out.active /\ o.flips = out.flips
      /\ o.held = out.held /\ o.lost = out.lost
      /\ o.refused = out.refused /\ o.waiting = out.waiting
      /\ o.clock = out.clock /\ o.clockTimers = out.clockTimers
      /\ o.redraw = FALSE /\ o.repaint = FALSE
  BY <1>1, Zenon DEF Flowing, Supplied, States
<1>5. Supplied(o) /\ ~o.repaint
  BY <1>3, <1>4, Zenon DEF Flowing, Supplied
<1> QED BY <1>2, <1>5, RenderedFlowing, FailedFlowing

-----------------------------------------------------------------------------
(* The other handlers                                                      *)

\* A handler leaves the loop with a tail to come, which will see to a repaint.
LEMMA EventFlowing ==
  ASSUME NEW o, Supplied(o), Animates(o), Paces(o), o.tail = TRUE PROVE Flowing(o)
BY Zenon DEF Flowing, Repaints

\* Commits, repaints and events without either.
LEMMA AskFlowing ==
  ASSUME Flowing(out), ClientCommits \/ RequestRepaint \/ OtherEvent PROVE Flowing(out')
<1>1. PICK waiting \in BOOLEAN, repaint \in BOOLEAN :
        /\ out.repaint => repaint
        /\ waiting => out.waiting \/ repaint
        /\ out' = [out EXCEPT !.tail = TRUE, !.failed = FALSE, !.repaint = repaint,
                              !.waiting = waiting]
  <2>1. out \in States
    BY DEF Flowing, Supplied
  <2>2. out.waiting \in BOOLEAN /\ out.repaint \in BOOLEAN
    BY <2>1, Zenon DEF States
  <2>3. CASE ClientCommits
    <3>1. out' = [out EXCEPT !.tail = TRUE, !.failed = FALSE, !.repaint = TRUE, !.waiting = TRUE]
      BY <2>3, Zenon DEF ClientCommits, Event
    <3> QED BY <3>1, Zenon
  <2>4. CASE RequestRepaint
    <3>1. out' = [out EXCEPT !.tail = TRUE, !.failed = FALSE, !.repaint = TRUE]
      BY <2>4, Zenon DEF RequestRepaint, Event
    <3>2. out' = [out EXCEPT !.tail = TRUE, !.failed = FALSE, !.repaint = TRUE,
                             !.waiting = out.waiting]
      BY <2>1, <3>1 DEF States
    <3> QED BY <2>2, <3>2, Zenon
  <2>5. CASE OtherEvent
    <3>1. out' = [out EXCEPT !.tail = TRUE, !.failed = FALSE]
      BY <2>5, Zenon DEF OtherEvent, Event
    <3>2. out' = [out EXCEPT !.tail = TRUE, !.failed = FALSE, !.repaint = out.repaint,
                             !.waiting = out.waiting]
      BY <2>1, <3>1 DEF States
    <3> QED BY <2>2, <3>2, Zenon
  <2> QED BY <2>3, <2>4, <2>5
<1>2. out \in States
  BY DEF Flowing, Supplied
<1>3. out' \in States
  BY <1>1, <1>2, Zenon DEF States
<1>4. /\ out'.pending = out.pending /\ out'.active = out.active /\ out'.flips = out.flips
      /\ out'.held = out.held /\ out'.lost = out.lost
      /\ out'.refused = out.refused /\ out'.waiting = waiting
      /\ out'.clock = out.clock /\ out'.clockTimers = out.clockTimers
      /\ out'.redraw = out.redraw /\ out'.hosted = out.hosted /\ out'.tail = TRUE
      /\ out'.animated = out.animated /\ out'.cursorTimer = out.cursorTimer
      /\ out'.repaint = repaint
  BY <1>1, <1>2, Zenon DEF States
<1>5. Supplied(out') /\ Animates(out') /\ Paces(out')
  BY <1>1, <1>3, <1>4, Zenon DEF Flowing, Supplied, Animates, Paces
<1> QED BY <1>4, <1>5, EventFlowing

\* The host owes a redraw more.
LEMMA HostFlowing ==
  ASSUME Flowing(out), HostRedraws PROVE Flowing(out')
<1>1. out' = [out EXCEPT !.hosted = TRUE]
  BY Zenon DEF HostRedraws
<1>2. out' \in States
  BY <1>1, Zenon DEF Flowing, Supplied, States
<1>3. /\ out'.pending = out.pending /\ out'.active = out.active /\ out'.flips = out.flips
      /\ out'.held = out.held /\ out'.lost = out.lost
      /\ out'.refused = out.refused /\ out'.waiting = out.waiting
      /\ out'.clock = out.clock /\ out'.clockTimers = out.clockTimers
      /\ out'.redraw = out.redraw /\ out'.hosted = TRUE /\ out'.tail = out.tail
      /\ out'.animated = out.animated /\ out'.cursorTimer = out.cursorTimer
      /\ out'.repaint = out.repaint /\ out'.failed = out.failed
  BY <1>1, Zenon DEF Flowing, Supplied, States
<1> QED BY <1>2, <1>3, Zenon DEF Flowing, Supplied, Animates, Paces, Repaints

\* The frame clock has no timer when its one has fired.
LEMMA FrameTimerFlowing ==
  ASSUME Flowing(out), FrameTimer PROVE Flowing(out')
<1> DEFINE o == [Event(out) EXCEPT !.clockTimers = @ - 1, !.clock = FALSE]
<1>1. out \in States
  BY DEF Flowing, Supplied
<1>2. out.clockTimers = 1
  <2>1. out.clockTimers > 0
    BY DEF FrameTimer
  <2>2. out.clockTimers # 0
    BY <2>1
  <2> QED BY <2>2, Zenon DEF Flowing, Supplied
<1>3. o = [out EXCEPT !.tail = TRUE, !.failed = FALSE, !.clockTimers = 0, !.clock = FALSE]
  <2>1. o = [out EXCEPT !.tail = TRUE, !.failed = FALSE, !.clockTimers = out.clockTimers - 1,
                        !.clock = FALSE]
    BY <1>1, Zenon DEF Event, States
  <2>2. out.clockTimers - 1 = 0
    BY <1>2
  <2> QED BY <2>1, <2>2, Zenon
<1>4. (out' = o /\ ~o.active) \/ out' = [o EXCEPT !.waiting = FALSE]
  BY Zenon DEF FrameTimer
<1> HIDE DEF o
<1>5. 0 \in 0 .. 2
  OBVIOUS
<1>6. o \in States
  BY <1>1, <1>3, <1>5, Zenon DEF States
<1>7. out' \in States
  BY <1>4, <1>6, Zenon DEF States
<1>8. /\ out'.pending = out.pending /\ out'.active = out.active /\ out'.flips = out.flips
      /\ out'.held = out.held /\ out'.lost = out.lost
      /\ out'.refused = out.refused /\ (out'.waiting => ~out'.active)
      /\ out'.clock = FALSE /\ out'.clockTimers = 0
      /\ out'.redraw = out.redraw /\ out'.hosted = out.hosted /\ out'.tail = TRUE
      /\ out'.animated = out.animated /\ out'.cursorTimer = out.cursorTimer
      /\ out'.repaint = out.repaint
  <2>1. CASE out' = o /\ ~o.active
    BY <1>1, <1>3, <2>1, Zenon DEF States
  <2>2. CASE out' = [o EXCEPT !.waiting = FALSE]
    <3>1. out' = [out EXCEPT !.tail = TRUE, !.failed = FALSE, !.clockTimers = 0,
                             !.clock = FALSE, !.waiting = FALSE]
      BY <1>3, <2>2, Zenon
    <3> QED BY <1>1, <3>1, Zenon DEF States
  <2> QED BY <1>4, <2>1, <2>2
<1>9. Supplied(out') /\ Animates(out') /\ Paces(out')
  BY <1>7, <1>8, Zenon DEF Flowing, Supplied, Animates, Paces
<1> QED BY <1>8, <1>9, EventFlowing

\* The cursor's timer asks for the frame in its place.
LEMMA CursorTimerFlowing ==
  ASSUME Flowing(out), CursorTimer PROVE Flowing(out')
<1>1. out \in States
  BY DEF Flowing, Supplied
<1>2. CASE out' = [Event(out) EXCEPT !.cursorTimer = FALSE, !.repaint = TRUE]
  <2>1. out' = [out EXCEPT !.tail = TRUE, !.failed = FALSE, !.cursorTimer = FALSE,
                           !.repaint = TRUE]
    BY <1>2, Zenon DEF Event
  <2>2. out' \in States
    BY <1>1, <2>1, Zenon DEF States
  <2>3. /\ out'.pending = out.pending /\ out'.active = out.active /\ out'.flips = out.flips
        /\ out'.held = out.held /\ out'.lost = out.lost
        /\ out'.refused = out.refused /\ out'.waiting = out.waiting
        /\ out'.clock = out.clock /\ out'.clockTimers = out.clockTimers
        /\ out'.redraw = out.redraw /\ out'.hosted = out.hosted /\ out'.tail = TRUE
        /\ out'.repaint = TRUE
    BY <1>1, <2>1, Zenon DEF States
  <2>4. Supplied(out') /\ Animates(out') /\ Paces(out')
    BY <2>2, <2>3, Zenon DEF Flowing, Supplied, Animates, Paces
  <2> QED BY <2>3, <2>4, EventFlowing
<1>3. CASE out' = [Event(out) EXCEPT !.oldCursorTimer = FALSE]
  <2>1. out' = [out EXCEPT !.tail = TRUE, !.failed = FALSE, !.oldCursorTimer = FALSE]
    BY <1>3, Zenon DEF Event
  <2>2. out' \in States
    BY <1>1, <2>1, Zenon DEF States
  <2>3. /\ out'.pending = out.pending /\ out'.active = out.active /\ out'.flips = out.flips
        /\ out'.held = out.held /\ out'.lost = out.lost
        /\ out'.refused = out.refused /\ out'.waiting = out.waiting
        /\ out'.clock = out.clock /\ out'.clockTimers = out.clockTimers
        /\ out'.redraw = out.redraw /\ out'.hosted = out.hosted /\ out'.tail = TRUE
        /\ out'.animated = out.animated /\ out'.cursorTimer = out.cursorTimer
        /\ out'.repaint = out.repaint
    BY <1>1, <2>1, Zenon DEF States
  <2>4. Supplied(out') /\ Animates(out') /\ Paces(out')
    BY <2>2, <2>3, Zenon DEF Flowing, Supplied, Animates, Paces
  <2> QED BY <2>3, <2>4, EventFlowing
<1> QED BY <1>2, <1>3, Zenon DEF CursorTimer

-----------------------------------------------------------------------------
(* The kernel and the session                                              *)

\* Nothing is pending after a completed or failed flip, a pause or an activation, which
\* is all that these have in common; what the surface holds has a flip or has lost it.
LEMMA UnpendingFlowing ==
  ASSUME Flowing(out), NEW flips \in 0 .. MaxFlips, NEW held \in BOOLEAN,
         NEW queued \in BOOLEAN, NEW lost \in BOOLEAN, NEW active \in BOOLEAN,
         NEW repaint \in BOOLEAN, held => flips > 0 \/ lost, out.repaint => repaint,
         active => out.active \/ repaint,
         out' = [out EXCEPT !.tail = TRUE, !.failed = FALSE, !.flips = flips, !.held = held,
                            !.queued = queued, !.lost = lost, !.pending = FALSE,
                            !.active = active, !.repaint = repaint]
  PROVE  Flowing(out')
<1>1. out \in States
  BY DEF Flowing, Supplied
<1>2. out' \in States
  <2> DEFINE b == [out EXCEPT !.tail = TRUE, !.failed = FALSE, !.flips = flips, !.held = held]
             c == [b EXCEPT !.queued = queued, !.lost = lost, !.pending = FALSE]
  <2>1. b \in States
    BY <1>1, Zenon DEF States
  <2>2. out' = [c EXCEPT !.active = active, !.repaint = repaint]
    OBVIOUS
  <2> HIDE DEF b
  <2>3. c \in States
    BY <2>1, Zenon DEF States
  <2> HIDE DEF c
  <2> QED BY <2>2, <2>3, Zenon DEF States
<1>3. /\ out'.pending = FALSE /\ out'.held = held /\ out'.flips = flips /\ out'.lost = lost
      /\ out'.clock = out.clock /\ out'.clockTimers = out.clockTimers
      /\ out'.redraw = out.redraw /\ out'.hosted = out.hosted /\ out'.tail = TRUE
      /\ out'.animated = out.animated /\ out'.cursorTimer = out.cursorTimer
      /\ out'.repaint = repaint /\ out'.active = active
      /\ out'.refused = out.refused /\ out'.waiting = out.waiting
  BY <1>1, Zenon DEF States
<1>4. Supplied(out') /\ Animates(out') /\ Paces(out')
  BY <1>2, <1>3, Zenon DEF Flowing, Supplied, Animates, Paces
<1> QED BY <1>3, <1>4, EventFlowing

\* Page flips, their errors, pauses and activations.
LEMMA KernelFlowing ==
  ASSUME Flowing(out), VBlank \/ DrmError \/ PauseSession \/ ActivateSession
  PROVE  Flowing(out')
<1> USE FramesAssumption
<1>1. out \in States
  BY DEF Flowing, Supplied
<1>2. /\ out.flips \in 0 .. MaxFlips
      /\ out.active \in BOOLEAN /\ out.repaint \in BOOLEAN /\ out.held \in BOOLEAN
      /\ out.queued \in BOOLEAN /\ out.lost \in BOOLEAN
  BY <1>1, Zenon DEF States
<1>3. out.held => out.flips > 0 \/ out.lost
  BY Zenon DEF Flowing, Supplied
<1>4. CASE VBlank
  <2> DEFINE o == [Event(out) EXCEPT !.flips = @ - 1, !.pending = FALSE]
             free == Retired(o)
             less == out.flips - 1
  <2>1. out.flips > 0 /\ out' \in FrameSubmitted(o)
    BY <1>4 DEF VBlank
  <2>2. less \in 0 .. MaxFlips
    BY <1>2, <2>1
  <2>3. free = [out EXCEPT !.tail = TRUE, !.failed = FALSE, !.flips = less, !.held = FALSE,
                           !.queued = FALSE, !.lost = FALSE, !.pending = FALSE]
    BY <1>1 DEF Event, Retired, States
  <2>4. free \in States
    <3> DEFINE b == [out EXCEPT !.tail = TRUE, !.failed = FALSE, !.flips = less]
    <3>1. b \in States
      BY <1>1, <2>2, Zenon DEF States
    <3>2. free = [b EXCEPT !.held = FALSE, !.queued = FALSE, !.lost = FALSE, !.pending = FALSE]
      BY <2>3
    <3> HIDE DEF b, free
    <3> QED BY <3>1, <3>2, Zenon DEF States
  <2>5. out' = free \/ out' \in Submit(free)
    BY <2>1 DEF FrameSubmitted
  <2> HIDE DEF o, free, less
  <2>6. CASE out' = free
    <3>1. out' = [out EXCEPT !.tail = TRUE, !.failed = FALSE, !.flips = less, !.held = FALSE,
                             !.queued = FALSE, !.lost = FALSE, !.pending = FALSE,
                             !.active = out.active, !.repaint = out.repaint]
      BY <1>1, <2>3, <2>6 DEF States
    <3> QED BY <1>2, <2>2, <3>1, UnpendingFlowing
  <2>7. CASE out' \in Submit(free)
    <3>1. PICK flips \in 0 .. MaxFlips :
            flips > 0 /\ out' = [free EXCEPT !.held = TRUE, !.flips = flips]
      BY <2>4, <2>7, Submits
    <3>2. out' = [out EXCEPT !.tail = TRUE, !.failed = FALSE, !.flips = flips, !.held = TRUE,
                             !.queued = FALSE, !.lost = FALSE, !.pending = FALSE,
                             !.active = out.active, !.repaint = out.repaint]
      BY <1>1, <2>3, <3>1 DEF States
    <3> QED BY <1>2, <3>1, <3>2, UnpendingFlowing
  <2> QED BY <2>5, <2>6, <2>7
<1>5. ASSUME NEW flips \in 0 .. out.flips
      PROVE  LET lost == out.lost \/ (out.held /\ flips = 0)
             IN /\ flips \in 0 .. MaxFlips /\ lost \in BOOLEAN
                /\ out.held => flips > 0 \/ lost
                /\ Loses(Event(out), flips) =
                     [out EXCEPT !.tail = TRUE, !.failed = FALSE, !.flips = flips, !.lost = lost]
  <2>1. flips \in 0 .. MaxFlips /\ (flips > 0 \/ flips = 0)
    BY <1>2
  <2>2. Loses(Event(out), flips) =
          [out EXCEPT !.tail = TRUE, !.failed = FALSE, !.flips = flips,
                      !.lost = out.lost \/ (out.held /\ flips = 0)]
    BY <1>1 DEF Loses, Event, States
  <2> QED BY <2>1, <2>2
<1>6. CASE DrmError
  <2>1. PICK flips \in 0 .. out.flips :
          out' = [Loses(Event(out), flips) EXCEPT !.pending = FALSE, !.repaint = TRUE]
    BY <1>6 DEF DrmError
  <2> DEFINE lost == out.lost \/ (out.held /\ flips = 0)
  <2>2. out' = [out EXCEPT !.tail = TRUE, !.failed = FALSE, !.flips = flips, !.held = out.held,
                           !.queued = out.queued, !.lost = lost, !.pending = FALSE,
                           !.active = out.active, !.repaint = TRUE]
    <3>1. out' = [out EXCEPT !.tail = TRUE, !.failed = FALSE, !.flips = flips, !.lost = lost,
                             !.pending = FALSE, !.repaint = TRUE]
      BY <1>5, <2>1, Zenon
    <3> HIDE DEF lost
    <3> QED BY <1>1, <3>1 DEF States
  <2>3. /\ flips \in 0 .. MaxFlips /\ lost \in BOOLEAN
        /\ out.held => flips > 0 \/ lost
    BY <1>5
  <2> HIDE DEF lost
  <2> QED BY <1>2, <2>2, <2>3, UnpendingFlowing
<1>7. CASE PauseSession
  <2>1. PICK flips \in 0 .. out.flips :
          LET o == [Event(out) EXCEPT !.active = FALSE, !.pending = FALSE]
          IN out' = IF out.pending THEN Retired([o EXCEPT !.flips = flips]) ELSE Loses(o, flips)
    BY <1>7 DEF PauseSession
  <2>2. flips \in 0 .. MaxFlips
    BY <1>5
  <2>3. CASE out.pending
    <3>1. out' = [out EXCEPT !.tail = TRUE, !.failed = FALSE, !.flips = flips, !.held = FALSE,
                             !.queued = FALSE, !.lost = FALSE, !.pending = FALSE,
                             !.active = FALSE, !.repaint = out.repaint]
      BY <1>1, <2>1, <2>3 DEF Event, Retired, States
    <3> QED BY <1>2, <2>2, <3>1, UnpendingFlowing
  <2>4. CASE ~out.pending
    <3> DEFINE lost == out.lost \/ (out.held /\ flips = 0)
    <3>1. out' = [out EXCEPT !.tail = TRUE, !.failed = FALSE, !.flips = flips,
                             !.held = out.held, !.queued = out.queued, !.lost = lost,
                             !.pending = FALSE, !.active = FALSE, !.repaint = out.repaint]
      BY <1>1, <2>1, <2>4 DEF Event, Loses, States
    <3>2. lost \in BOOLEAN /\ (out.held => flips > 0 \/ lost)
      BY <1>5
    <3> HIDE DEF lost
    <3> QED BY <1>2, <2>2, <3>1, <3>2, UnpendingFlowing
  <2> QED BY <2>3, <2>4
<1>8. CASE ActivateSession
  <2>1. CASE out' = [Event(out) EXCEPT !.active = TRUE, !.pending = FALSE, !.repaint = TRUE]
    <3>1. out' = [out EXCEPT !.tail = TRUE, !.failed = FALSE, !.flips = out.flips,
                             !.held = out.held, !.queued = out.queued, !.lost = out.lost,
                             !.pending = FALSE, !.active = TRUE, !.repaint = TRUE]
      BY <1>1, <2>1 DEF Event, States
    <3> QED BY <1>2, <1>3, <3>1, UnpendingFlowing
  <2>2. CASE out' = Event(out)
    BY <2>2, AskFlowing DEF OtherEvent
  <2> QED BY <1>8, <2>1, <2>2 DEF ActivateSession
<1> QED BY <1>4, <1>6, <1>7, <1>8

-----------------------------------------------------------------------------
(* The theorem                                                             *)

\* The compositor begins with a repaint and the batch that will do it.
LEMMA InitFlowing == FramesInit => Flowing(out)
<1> SUFFICES ASSUME FramesInit PROVE Flowing(out)
  OBVIOUS
<1>1. PICK backend \in Backends :
        out = [backend |-> backend, tail |-> TRUE, repaint |-> TRUE, active |-> TRUE,
               pending |-> FALSE, held |-> FALSE, queued |-> FALSE, flips |-> 0,
               lost |-> FALSE, redraw |-> FALSE, hosted |-> FALSE, clock |-> FALSE,
               clockTimers |-> 0, cursorTimer |-> FALSE, oldCursorTimer |-> FALSE,
               refused |-> {}, animated |-> FALSE, failed |-> FALSE, waiting |-> FALSE]
  BY DEF FramesInit
<1>2. 0 \in 0 .. MaxFlips /\ 0 \in 0 .. 2
  BY FramesAssumption
<1>3. out \in States
  BY <1>1, <1>2, Zenon DEF States
<1>4. /\ out.pending = FALSE /\ out.held = FALSE /\ out.clock = FALSE /\ out.clockTimers = 0
      /\ out.redraw = FALSE /\ out.animated = FALSE /\ out.waiting = FALSE /\ out.tail = TRUE
  BY <1>1, Zenon
<1> QED BY <1>3, <1>4, Zenon DEF Flowing, Supplied, Animates, Paces, Repaints

\* Every event of the loop, the kernel and the clients keeps the invariant.
LEMMA NextFlowing == Flowing(out) /\ [FramesNext]_out => Flowing(out')
<1> SUFFICES ASSUME Flowing(out), [FramesNext]_out PROVE Flowing(out')
  OBVIOUS
<1>1. CASE LoopTail
  BY <1>1, LoopTailFlowing
<1>2. CASE Redraw
  BY <1>2, RedrawFlowing
<1>3. CASE HostRedraws
  BY <1>3, HostFlowing
<1>4. CASE ClientCommits \/ RequestRepaint \/ OtherEvent
  BY <1>4, AskFlowing
<1>5. CASE FrameTimer
  BY <1>5, FrameTimerFlowing
<1>6. CASE CursorTimer
  BY <1>6, CursorTimerFlowing
<1>7. CASE VBlank \/ DrmError \/ PauseSession \/ ActivateSession
  BY <1>7, KernelFlowing
<1>8. CASE out' = out
  BY <1>8, Zenon
<1> QED BY <1>1, <1>2, <1>3, <1>4, <1>5, <1>6, <1>7, <1>8, Zenon DEF FramesNext

\* Whatever is waited for is on its way, with any number of page flips in the kernel:
\* a pending frame has a flip to come, the frame clock its timer, a requested redraw a
\* host that owes it, a waiting client the timer or a frame, and a repaint something that will
\* do it; but for flips lost to a DRM error and timers that could not be made.
THEOREM NobodyIsForgotten == FramesSpec => []NobodyWaitsInVain
<1>1. FramesInit => Flowing(out)
  BY InitFlowing
<1>2. Flowing(out) /\ [FramesNext]_out => Flowing(out)'
  <2> SUFFICES ASSUME Flowing(out), [FramesNext]_out PROVE Flowing(out')
    BY Zenon
  <2> QED BY NextFlowing
<1>3. Flowing(out) => NobodyWaitsInVain
  BY Zenon DEF Flowing, Supplied, Animates, Paces, Repaints, NobodyWaitsInVain, FramesTypeOK
<1> QED BY <1>1, <1>2, <1>3, PTL DEF FramesSpec

-----------------------------------------------------------------------------
(* Captures: the invariant                                                 *)

\* Of SharedAsAllowed and of FramesAccounted, the part about one session.
Shows(s) == s.last # NoPixels =>
  /\ s.last.size = s.size
  /\ s.last.slot \in s.allowed \cup {Black} \cup (Slots \ 0..(MaskBits - 1))
Told(s) == s.stops <= 1 /\ (s.stops = 1 => ~s.alive)
Good(s) == s \in Sessions /\ Shows(s) /\ Told(s)

\* Answering a frame touches nothing else.
LEMMA AnswerGood ==
  ASSUME NEW s, Good(s)
  PROVE  /\ Good(Answer(s)) /\ Answer(s).frame = "answered"
         /\ Answer(s).valid = s.valid /\ Answer(s).size = s.size
<1> DEFINE r == Answer(s)
<1>1. s \in Sessions
  BY DEF Good
<1>2. r \in Sessions
  BY <1>1, Zenon DEF Answer, Sessions
<1>3. /\ r.frame = "answered" /\ r.valid = s.valid /\ r.size = s.size
      /\ r.last = s.last /\ r.allowed = s.allowed /\ r.stops = s.stops
      /\ r.alive = s.alive
  BY <1>1, Zenon DEF Answer, Sessions
<1> HIDE DEF r
<1>4. Good(r)
  BY <1>2, <1>3, Zenon DEF Good, Shows, Told
<1> QED BY <1>3, <1>4 DEF r

\* A client is told once that its session has stopped.
LEMMA StoppedGood ==
  ASSUME NEW s, Good(s), s.alive
  PROVE  /\ Good(Stopped(s)) /\ Stopped(s).frame = "answered"
         /\ Stopped(s).valid = s.valid
<1> DEFINE n == s.stops + (IF s.there THEN 1 ELSE 0)
           r == Stopped(s)
<1>1. s \in Sessions
  BY DEF Good
<1>2. s.stops = 0
  <2>1. s.stops \in 0..2
    BY <1>1, Zenon DEF Sessions
  <2>2. s.stops # 1
    BY Zenon DEF Good, Told
  <2>3. s.stops <= 1
    BY Zenon DEF Good, Told
  <2> QED BY <2>1, <2>2, <2>3
<1>3. n \in {0, 1}
  BY <1>2
<1>4. r = [s EXCEPT !.frame = "answered", !.alive = FALSE, !.stops = n]
  BY <1>1, Zenon DEF Stopped, Answer, Sessions
<1> HIDE DEF n
<1>5. n \in 0..2 /\ n <= 1
  BY <1>3
<1> HIDE DEF r
<1>6. r \in Sessions
  BY <1>1, <1>4, <1>5, Zenon DEF Sessions
<1>7. /\ r.frame = "answered" /\ r.valid = s.valid /\ r.size = s.size
      /\ r.last = s.last /\ r.allowed = s.allowed /\ r.stops = n
      /\ r.alive = FALSE
  BY <1>1, <1>4, Zenon DEF Sessions
<1>8. Good(r)
  BY <1>5, <1>6, <1>7, Zenon DEF Good, Shows, Told
<1> QED BY <1>7, <1>8 DEF r

\* Another size takes the pixels of the old one with it.
LEMMA ResizedGood ==
  ASSUME NEW s, Good(s), screen \in Screens
  PROVE  /\ Good(Resized(s)) /\ Resized(s).frame = "answered"
         /\ Resized(s).valid = s.valid
<1> DEFINE r == Resized(s)
<1>1. s \in Sessions /\ screen.size \in Sizes
  BY Zenon DEF Good, Screens, Sizes
<1>2. r = [s EXCEPT !.frame = "answered", !.size = screen.size, !.last = NoPixels]
  BY DEF Resized, Answer
<1> HIDE DEF r
<1>3. r \in Sessions
  BY <1>1, <1>2, Zenon DEF Sessions
<1>4. /\ r.frame = "answered" /\ r.valid = s.valid /\ r.last = NoPixels
      /\ r.stops = s.stops /\ r.alive = s.alive
  BY <1>1, <1>2, Zenon DEF Sessions
<1>5. Good(r)
  BY <1>3, <1>4, Zenon DEF Good, Shows, Told
<1> QED BY <1>4, <1>5 DEF r

\* Pixels that were allowed, of the size of the session, may be kept.
LEMMA DeliveredGood ==
  ASSUME NEW s, Good(s), NEW pixels \in Pixels,
         s.kind = "workspaces" =>
           /\ pixels.size = s.size
           /\ pixels.slot \in s.allowed \cup {Black} \cup (Slots \ 0..(MaskBits - 1))
  PROVE  /\ Good(Delivered(s, pixels)) /\ Delivered(s, pixels).frame = "answered"
         /\ Delivered(s, pixels).valid = s.valid
<1> DEFINE r == Delivered(s, pixels)
           last == IF s.kind = "workspaces" THEN pixels ELSE s.last
<1>1. s \in Sessions /\ s.last \in Pixels \cup {NoPixels}
  BY Zenon DEF Good, Sessions
<1>2. last \in Pixels \cup {NoPixels}
  BY <1>1
<1>3. r = [s EXCEPT !.frame = "answered", !.last = last]
  BY <1>1, Zenon DEF Delivered, Answer, Sessions
<1>4. last # NoPixels =>
        /\ last.size = s.size
        /\ last.slot \in s.allowed \cup {Black} \cup (Slots \ 0..(MaskBits - 1))
  BY Zenon DEF Good, Shows
<1> HIDE DEF r, last
<1>5. r \in Sessions
  BY <1>1, <1>2, <1>3, Zenon DEF Sessions
<1>6. /\ r.frame = "answered" /\ r.valid = s.valid /\ r.last = last /\ r.size = s.size
      /\ r.allowed = s.allowed /\ r.stops = s.stops /\ r.alive = s.alive
  BY <1>1, <1>3, Zenon DEF Sessions
<1>7. Good(r)
  BY <1>4, <1>5, <1>6, Zenon DEF Good, Shows, Told
<1> QED BY <1>6, <1>7 DEF r

\* A shift that does not wrap tests the bit of its own workspace.
LEMMA BitOfSlot ==
  ASSUME NEW i \in Slots, i \in 0..(MaskBits - 1) PROVE Bit(i) = i
BY CaptureAssumption DEF Bit, Slots

\* finish_pending() answers a frame and keeps what must hold of its session.
LEMMA FinishedGood ==
  ASSUME NEW s, Good(s), screen \in Screens, NEW fails
  PROVE  /\ Good(Finished(s, fails)) /\ Finished(s, fails).frame = "answered"
         /\ Finished(s, fails).valid = s.valid
<1>1. s.size \in Sizes /\ s.allowed \in SUBSET Slots /\ s.last \in Pixels \cup {NoPixels}
  BY Zenon DEF Good, Sessions
<1>2. screen.active \in Slots
  BY Zenon DEF Screens
<1>3. /\ Instead(s) \in Pixels /\ Instead(s).size = s.size
      /\ Instead(s).slot \in s.allowed \cup {Black} \cup (Slots \ 0..(MaskBits - 1))
  <2>1. CASE s.last = NoPixels
    <3>1. Instead(s) = [slot |-> Black, size |-> s.size]
      BY <2>1 DEF Instead
    <3> QED BY <1>1, <3>1 DEF Pixels
  <2>2. CASE s.last # NoPixels
    <3>1. Instead(s) = s.last
      BY <2>2 DEF Instead
    <3> QED BY <1>1, <2>2, <3>1 DEF Good, Shows
  <2> QED BY <2>1, <2>2
<1>4. /\ Rendered(s) \in Pixels /\ Rendered(s).size = s.size
      /\ Rendered(s).slot = screen.active
  BY <1>1, <1>2 DEF Rendered, Pixels
<1>5. ASSUME Allowed(s)
      PROVE  screen.active \in s.allowed \cup (Slots \ 0..(MaskBits - 1))
  <2>1. CASE screen.active \in 0..(MaskBits - 1)
    BY <1>2, <1>5, <2>1, BitOfSlot DEF Allowed
  <2> QED BY <1>2, <2>1
<1>6. \/ s.alive /\ Finished(s, fails) = Stopped(s)
      \/ Finished(s, fails) = Answer(s)
      \/ Finished(s, fails) = Resized(s)
      \/ Finished(s, fails) = Delivered(s, Instead(s))
      \/ /\ s.kind = "workspaces" => Allowed(s)
         /\ Finished(s, fails) = Delivered(s, Rendered(s))
  BY Zenon DEF Finished
<1> QED BY <1>3, <1>4, <1>5, <1>6, StoppedGood, AnswerGood, ResizedGood, DeliveredGood

-----------------------------------------------------------------------------
(* All sessions                                                            *)

\* Pending and Counted, of any function of sessions.
PendingOf(f) == {c \in Clients : f[c].frame = "pending"}
CountedOf(f) == {c \in Clients : /\ f[c].there \/ f[c].frame # "none"
                                 /\ f[c].valid}

\* The inductive invariant: every session is good, what is pending or was destroyed while
\* it was pending fits the limit, and the timer runs for it.
AllGood == session \in [Clients -> Sessions] /\ \A c \in Clients : Good(session[c])
Limits ==
  /\ dead \in Nat
  /\ Cardinality(PendingOf(session)) + dead <= MaxSessions
  /\ Cardinality(CountedOf(session)) <= MaxSessions
Timed ==
  /\ scheduled \in BOOLEAN /\ scheduled = timer
  /\ PendingOf(session) # {} \/ dead > 0 => scheduled
Inv == screen \in Screens /\ AllGood /\ Limits /\ Timed

\* Subsets of the clients are finite and no larger than what they are subsets of.
LEMMA Fewer ==
  ASSUME NEW A \in SUBSET Clients, NEW B \in SUBSET A
  PROVE  /\ IsFiniteSet(A) /\ IsFiniteSet(B)
         /\ Cardinality(A) \in Nat /\ Cardinality(B) \in Nat
         /\ Cardinality(B) <= Cardinality(A)
<1>1. IsFiniteSet(Clients)
  BY CaptureAssumption
<1>2. IsFiniteSet(A)
  BY <1>1, FS_Subset
<1>3. IsFiniteSet(B) /\ Cardinality(B) <= Cardinality(A)
  BY <1>2, FS_Subset
<1> QED BY <1>2, <1>3, FS_CardinalityType

\* One more client is at most one more.
LEMMA OneMore ==
  ASSUME NEW A \in SUBSET Clients, NEW c \in Clients
  PROVE  /\ Cardinality(A) \in Nat
         /\ Cardinality(A \cup {c}) \in Nat
         /\ Cardinality(A \cup {c}) <= Cardinality(A) + 1
<1>1. IsFiniteSet(A) /\ Cardinality(A) \in Nat
  BY Fewer
<1>2. Cardinality(A \cup {c}) = IF c \in A THEN Cardinality(A) ELSE Cardinality(A) + 1
  BY <1>1, FS_AddElement
<1> QED BY <1>1, <1>2

\* One client less is one less, if it was there.
LEMMA OneLess ==
  ASSUME NEW A \in SUBSET Clients, NEW c \in Clients
  PROVE  /\ Cardinality(A) \in Nat
         /\ Cardinality(A \ {c}) + (IF c \in A THEN 1 ELSE 0) = Cardinality(A)
<1>1. IsFiniteSet(A) /\ Cardinality(A) \in Nat
  BY Fewer
<1>2. Cardinality(A \ {c}) = IF c \in A THEN Cardinality(A) - 1 ELSE Cardinality(A)
  BY <1>1, FS_RemoveElement
<1> QED BY <1>1, <1>2

\* Nothing but the session of one client changes.
LEMMA OthersStay ==
  ASSUME AllGood, NEW c \in Clients, NEW r, Good(r),
         session' = [session EXCEPT ![c] = r]
  PROVE  /\ AllGood' /\ session'[c] = r
         /\ \A d \in Clients \ {c} : session'[d] = session[d]
<1>1. session \in [Clients -> Sessions] /\ r \in Sessions
  BY Zenon DEF AllGood, Good
<1>2. session' \in [Clients -> Sessions]
  BY <1>1, Zenon
<1>3. /\ session'[c] = r
      /\ \A d \in Clients \ {c} : session'[d] = session[d]
  BY <1>1, Zenon
<1>4. \A d \in Clients : Good(session'[d])
  BY <1>3, Zenon DEF AllGood
<1> QED BY <1>2, <1>3, <1>4, Zenon DEF AllGood

\* A session that counts, counted before, unless it is new.
LEMMA NoneJoins ==
  ASSUME NEW c \in Clients,
         \A d \in Clients \ {c} : session'[d] = session[d],
         session'[c].there \/ session'[c].frame # "none" =>
           /\ session[c].there \/ session[c].frame # "none"
           /\ session'[c].valid => session[c].valid
  PROVE  CountedOf(session') \subseteq CountedOf(session)
<1> SUFFICES ASSUME NEW d \in CountedOf(session') PROVE d \in CountedOf(session)
  OBVIOUS
<1>1. /\ d \in Clients
      /\ session'[d].there \/ session'[d].frame # "none"
      /\ session'[d].valid
  BY Zenon DEF CountedOf
<1>2. CASE d = c
  BY <1>1, <1>2, Zenon DEF CountedOf
<1>3. CASE d # c
  BY <1>1, <1>3, Zenon DEF CountedOf
<1> QED BY <1>2, <1>3

\* A frame is pending if it was, but for those of one client.
LEMMA PendingChanges ==
  ASSUME NEW c \in Clients,
         \A d \in Clients \ {c} : session'[d] = session[d]
  PROVE  /\ session'[c].frame = "pending" =>
              PendingOf(session') = PendingOf(session) \cup {c}
         /\ session'[c].frame # "pending" =>
              PendingOf(session') = PendingOf(session) \ {c}
BY DEF PendingOf

\* The limit of sessions is kept when none joins.
LEMMA CountedFits ==
  ASSUME MaxSessions \in Nat, Cardinality(CountedOf(session)) <= MaxSessions,
         CountedOf(session') \subseteq CountedOf(session)
  PROVE  Cardinality(CountedOf(session')) <= MaxSessions
<1>1. CountedOf(session) \in SUBSET Clients
  BY DEF CountedOf
<1>2. /\ Cardinality(CountedOf(session)) \in Nat
      /\ Cardinality(CountedOf(session')) \in Nat
      /\ Cardinality(CountedOf(session')) <= Cardinality(CountedOf(session))
  BY <1>1, Fewer
<1> QED BY <1>2

-----------------------------------------------------------------------------
(* The first state, and a step of one client                               *)

\* Nothing is shared at first.
LEMMA InitInv == Init => Inv
<1> SUFFICES ASSUME Init PROVE Inv
  OBVIOUS
<1>1. screen \in Screens
  <2>1. 0 \in Slots
    BY CaptureAssumption DEF Slots
  <2> QED BY <2>1, Zenon DEF Init, Screens
<1>2. NoSession \in Sessions
  BY DEF NoSession, Sessions, Kinds, Sizes
<1>3. NoSession.last = NoPixels /\ NoSession.stops = 0 /\ NoSession.frame = "none"
      /\ NoSession.there = FALSE /\ NoSession.valid = FALSE
  BY DEF NoSession
<1>4. Good(NoSession)
  BY <1>2, <1>3 DEF Good, Shows, Told
<1>5. \A c \in Clients : session[c] = NoSession
  BY DEF Init
<1>6. AllGood
  BY <1>2, <1>4, <1>5 DEF AllGood, Init
<1>7. PendingOf(session) = {} /\ CountedOf(session) = {}
  BY <1>3, <1>5 DEF PendingOf, CountedOf
<1>8. Limits
  BY <1>7, FS_EmptySet, CaptureAssumption DEF Limits, Init
<1>9. Timed
  <2>1. ~(dead > 0)
    BY DEF Init
  <2> QED BY <1>7, <2>1, Zenon DEF Timed, Init
<1> QED BY <1>1, <1>6, <1>8, <1>9 DEF Inv

\* A client that has nothing is good.
LEMMA NoSessionGood == Good(NoSession) /\ NoSession.frame = "none" /\ NoSession.there = FALSE
<1>1. NoSession \in Sessions
  BY DEF NoSession, Sessions, Kinds, Sizes
<1>2. NoSession.last = NoPixels /\ NoSession.stops = 0 /\ NoSession.frame = "none"
      /\ NoSession.there = FALSE
  BY DEF NoSession
<1> QED BY <1>1, <1>2 DEF Good, Shows, Told

\* Frames that are no longer pending, those of a client that drops them are counted on.
LEMMA DropFits ==
  ASSUME Inv, NEW c \in Clients, \A d \in Clients \ {c} : session'[d] = session[d],
         session'[c].frame # "pending", dead' = Dropped(c)
  PROVE  /\ dead' \in Nat
         /\ Cardinality(PendingOf(session')) + dead' <= MaxSessions
         /\ PendingOf(session') # {} \/ dead' > 0 => scheduled
<1>1. PendingOf(session) \in SUBSET Clients
      /\ (c \in PendingOf(session) <=> session[c].frame = "pending")
  BY DEF PendingOf
<1>2. PendingOf(session') = PendingOf(session) \ {c}
  BY PendingChanges
<1>3. dead \in Nat /\ MaxSessions \in Nat
      /\ Cardinality(PendingOf(session)) + dead <= MaxSessions
  BY CaptureAssumption, Zenon DEF Inv, Limits
<1>4. dead' = dead + (IF c \in PendingOf(session) THEN 1 ELSE 0)
  BY <1>1 DEF Dropped
<1>5. /\ Cardinality(PendingOf(session)) \in Nat
      /\ Cardinality(PendingOf(session) \ {c})
           + (IF c \in PendingOf(session) THEN 1 ELSE 0) = Cardinality(PendingOf(session))
  BY <1>1, OneLess
<1>6. Cardinality(PendingOf(session) \ {c}) \in Nat
  BY <1>1, Fewer
<1>7. Cardinality(PendingOf(session')) + dead' <= MaxSessions /\ dead' \in Nat
  BY <1>2, <1>3, <1>4, <1>5, <1>6
<1>8. PendingOf(session) # {} \/ dead > 0 => scheduled
  BY Zenon DEF Inv, Timed
<1>9. PendingOf(session') # {} \/ dead' > 0 => scheduled
  BY <1>2, <1>3, <1>4, <1>8
<1> QED BY <1>7, <1>9

\* A step that changes one session but no frame becomes pending or is dropped.
LEMMA QuietFits ==
  ASSUME Inv, NEW c \in Clients, \A d \in Clients \ {c} : session'[d] = session[d],
         session'[c].frame # "pending" \/ session[c].frame = "pending",
         UNCHANGED dead
  PROVE  /\ dead' \in Nat
         /\ Cardinality(PendingOf(session')) + dead' <= MaxSessions
         /\ PendingOf(session') # {} \/ dead' > 0 => scheduled
<1>1. PendingOf(session') \subseteq PendingOf(session)
  BY PendingChanges DEF PendingOf
<1>2. PendingOf(session) \in SUBSET Clients
  BY DEF PendingOf
<1>3. /\ Cardinality(PendingOf(session)) \in Nat
      /\ Cardinality(PendingOf(session')) \in Nat
      /\ Cardinality(PendingOf(session')) <= Cardinality(PendingOf(session))
  BY <1>1, <1>2, Fewer
<1>4. dead \in Nat /\ MaxSessions \in Nat
      /\ Cardinality(PendingOf(session)) + dead <= MaxSessions
  BY CaptureAssumption, Zenon DEF Inv, Limits
<1>5. PendingOf(session) # {} \/ dead > 0 => scheduled
  BY Zenon DEF Inv, Timed
<1> QED BY <1>1, <1>3, <1>4, <1>5

-----------------------------------------------------------------------------
(* The actions                                                             *)

\* A step that drops frames of one client, or changes its session quietly.
LEMMA OneStep ==
  ASSUME Inv, NEW c \in Clients, NEW r, Good(r),
         session' = [session EXCEPT ![c] = r],
         Cardinality(CountedOf(session')) <= MaxSessions,
         \/ r.frame # "pending" /\ dead' = Dropped(c)
         \/ (r.frame # "pending" \/ session[c].frame = "pending") /\ UNCHANGED dead,
         UNCHANGED <<screen, scheduled, timer>>
  PROVE  Inv'
<1>1. /\ AllGood' /\ session'[c] = r
      /\ \A d \in Clients \ {c} : session'[d] = session[d]
  BY OthersStay, Zenon DEF Inv
<1>2. /\ dead' \in Nat
      /\ Cardinality(PendingOf(session')) + dead' <= MaxSessions
      /\ PendingOf(session') # {} \/ dead' > 0 => scheduled
  <2>1. CASE r.frame # "pending" /\ dead' = Dropped(c)
    BY <1>1, <2>1, DropFits, Zenon
  <2>2. CASE /\ r.frame # "pending" \/ session[c].frame = "pending"
             /\ UNCHANGED dead
    BY <1>1, <2>2, QuietFits, Zenon
  <2> QED BY <2>1, <2>2
<1>3. Limits'
  BY <1>2, Zenon DEF Limits
<1>4. Timed'
  BY <1>2, Zenon DEF Inv, Timed
<1>5. (screen \in Screens)'
  BY Zenon DEF Inv
<1> QED BY <1>1, <1>3, <1>4, <1>5, Zenon DEF Inv

\* The same, of a session that was held and does not come to count by it.
LEMMA HeldStep ==
  ASSUME Inv, NEW c \in Clients, NEW r, Good(r),
         session' = [session EXCEPT ![c] = r],
         r.there \/ r.frame # "none" =>
           /\ session[c].there \/ session[c].frame # "none"
           /\ r.valid = session[c].valid,
         \/ r.frame # "pending" /\ dead' = Dropped(c)
         \/ (r.frame # "pending" \/ session[c].frame = "pending") /\ UNCHANGED dead,
         UNCHANGED <<screen, scheduled, timer>>
  PROVE  Inv'
<1>1. /\ session'[c] = r
      /\ \A d \in Clients \ {c} : session'[d] = session[d]
  BY OthersStay, Zenon DEF Inv
<1>2. CountedOf(session') \subseteq CountedOf(session)
  BY <1>1, NoneJoins, Zenon
<1>3. Cardinality(CountedOf(session')) <= MaxSessions
  BY <1>2, CountedFits, CaptureAssumption, Zenon DEF Inv, Limits
<1> QED BY <1>3, OneStep, Zenon

\* A new session counts when there are fewer than may be.
LEMMA CreateSessionInv ==
  ASSUME Inv, NEW c \in Clients, CreateSession(c) PROVE Inv'
<1>1. PICK kind \in Kinds, mask \in SUBSET (Slots \cap 0..(MaskBits - 1)),
           count \in (screen.active + 1)..MaxWorkspaces :
        LET size == IF kind = "window" THEN WindowSize ELSE screen.size
            valid == /\ Cardinality(Counted) < MaxSessions /\ size # Huge
                     /\ kind = "window" => screen.window
        IN session' = [session EXCEPT ![c] =
             [NoSession EXCEPT !.there = TRUE, !.valid = valid, !.alive = valid, !.kind = kind,
                               !.allowed = mask, !.size = size,
                               !.stops = IF valid THEN 0 ELSE 1]]
  BY Zenon DEF CreateSession
<1> DEFINE size == IF kind = "window" THEN WindowSize ELSE screen.size
           valid == /\ Cardinality(Counted) < MaxSessions /\ size # Huge
                    /\ kind = "window" => screen.window
           n == IF valid THEN 0 ELSE 1
           r == [NoSession EXCEPT !.there = TRUE, !.valid = valid, !.alive = valid,
                                  !.kind = kind, !.allowed = mask, !.size = size, !.stops = n]
<1>2. session' = [session EXCEPT ![c] = r]
  BY <1>1, Zenon
<1>3. valid \in BOOLEAN /\ (valid => Cardinality(Counted) < MaxSessions)
  BY Zenon
<1>4. size \in Sizes
  BY Zenon DEF Inv, Screens, Sizes
<1>5. n \in 0..2 /\ n <= 1 /\ (n = 1 => ~valid)
  BY <1>3
<1>6. mask \in SUBSET Slots
  BY <1>1
<1> HIDE DEF size, valid, n
<1>7. NoSession \in Sessions /\ NoSession.last = NoPixels /\ NoSession.frame = "none"
  BY NoSessionGood DEF NoSession, Good
<1>8. Good(r) /\ r.frame # "pending" /\ r.valid = valid
  <2>1. r \in Sessions
    BY <1>3, <1>4, <1>5, <1>6, <1>7, Zenon DEF Sessions
  <2>2. /\ r.last = NoPixels /\ r.frame = "none" /\ r.valid = valid /\ r.alive = valid
        /\ r.stops = n
    BY <1>7, Zenon DEF Sessions
  <2> HIDE DEF r
  <2>3. Good(r)
    BY <1>5, <2>1, <2>2, Zenon DEF Good, Shows, Told
  <2>4. r.frame # "pending"
    BY <2>2
  <2> QED BY <2>2, <2>3, <2>4
<1> HIDE DEF r
<1>9. /\ session'[c] = r
      /\ \A d \in Clients \ {c} : session'[d] = session[d]
  BY <1>2, <1>8, OthersStay, Zenon DEF Inv
<1>10. Counted = CountedOf(session)
  BY DEF Counted, Held, CountedOf
<1>11. Cardinality(CountedOf(session')) <= MaxSessions
  <2>1. CountedOf(session) \in SUBSET Clients
    BY DEF CountedOf
  <2>2. MaxSessions \in Nat /\ Cardinality(CountedOf(session)) <= MaxSessions
    BY CaptureAssumption, Zenon DEF Inv, Limits
  <2>3. CASE valid
    <3>1. CountedOf(session') \in SUBSET (CountedOf(session) \cup {c})
      BY <1>9 DEF CountedOf
    <3>2. /\ Cardinality(CountedOf(session)) \in Nat
          /\ Cardinality(CountedOf(session) \cup {c}) \in Nat
          /\ Cardinality(CountedOf(session) \cup {c}) <= Cardinality(CountedOf(session)) + 1
      BY <2>1, OneMore
    <3>3. CountedOf(session) \cup {c} \in SUBSET Clients
      BY <2>1
    <3>4. /\ Cardinality(CountedOf(session')) \in Nat
          /\ Cardinality(CountedOf(session')) <= Cardinality(CountedOf(session) \cup {c})
      BY <3>1, <3>3, Fewer
    <3>5. Cardinality(CountedOf(session)) < MaxSessions
      BY <1>3, <1>10, <2>3, Zenon
    <3> QED BY <2>2, <3>2, <3>4, <3>5
  <2>4. CASE ~valid
    <3>1. CountedOf(session') \subseteq CountedOf(session)
      BY <1>8, <1>9, <2>4, Zenon DEF CountedOf
    <3> QED BY <2>2, <3>1, CountedFits
  <2> QED BY <2>3, <2>4
<1>12. UNCHANGED <<screen, dead, scheduled, timer>>
  BY DEF CreateSession
<1> QED BY <1>2, <1>8, <1>11, <1>12, OneStep, Zenon

\* A session is destroyed: its frame keeps what it refers to.
LEMMA DestroySessionInv ==
  ASSUME Inv, NEW c \in Clients, DestroySession(c) PROVE Inv'
<1>1. session \in [Clients -> Sessions] /\ Good(session[c])
  BY Zenon DEF Inv, AllGood
<1>2. UNCHANGED <<screen, dead, scheduled, timer>>
  BY DEF DestroySession
<1>3. CASE session[c].frame = "none"
  <2>1. session' = [session EXCEPT ![c] = NoSession]
    BY <1>1, <1>3, Zenon DEF DestroySession
  <2>2. NoSession.frame # "pending"
    BY NoSessionGood
  <2> QED BY <1>2, <2>1, <2>2, NoSessionGood, HeldStep, Zenon
<1>4. CASE session[c].frame # "none"
  <2> DEFINE r == [session[c] EXCEPT !.there = FALSE, !.alive = FALSE]
  <2>1. session' = [session EXCEPT ![c] = r]
    BY <1>1, <1>4, Zenon DEF DestroySession
  <2>2. session[c] \in Sessions
    BY <1>1, Zenon DEF Good
  <2>3. r \in Sessions
    BY <2>2, Zenon DEF Sessions
  <2>4. /\ r.frame = session[c].frame /\ r.valid = session[c].valid
        /\ r.size = session[c].size /\ r.last = session[c].last
        /\ r.allowed = session[c].allowed /\ r.stops = session[c].stops
        /\ r.alive = FALSE
    BY <2>2, Zenon DEF Sessions
  <2> HIDE DEF r
  <2>5. Good(r)
    BY <1>1, <2>3, <2>4, Zenon DEF Good, Shows, Told
  <2>6. r.frame # "pending" \/ session[c].frame = "pending"
    BY <2>4
  <2> QED BY <1>2, <1>4, <2>1, <2>4, <2>5, <2>6, HeldStep, Zenon
<1> QED BY <1>3, <1>4

\* A client goes, with everything it had.
LEMMA DisconnectInv ==
  ASSUME Inv, NEW c \in Clients, Disconnect(c) PROVE Inv'
<1>1. NoSession.frame # "pending"
  BY NoSessionGood
<1> QED BY <1>1, NoSessionGood, HeldStep, Zenon DEF Disconnect

\* The frame of a session is made, or answered.
LEMMA FrameGood ==
  ASSUME NEW s, Good(s), NEW f \in {"none", "made", "attached", "pending", "answered"}
  PROVE  LET r == [s EXCEPT !.frame = f] IN
         /\ Good(r) /\ r.frame = f /\ r.valid = s.valid /\ r.there = s.there
<1> DEFINE r == [s EXCEPT !.frame = f]
<1>1. s \in Sessions
  BY DEF Good
<1>2. r \in Sessions
  BY <1>1, Zenon DEF Sessions
<1>3. /\ r.frame = f /\ r.valid = s.valid /\ r.there = s.there
      /\ r.size = s.size /\ r.last = s.last
      /\ r.allowed = s.allowed /\ r.stops = s.stops /\ r.alive = s.alive
  BY <1>1, Zenon DEF Sessions
<1> HIDE DEF r
<1>4. Good(r)
  BY <1>2, <1>3, Zenon DEF Good, Shows, Told
<1> QED BY <1>3, <1>4 DEF r

\* A frame that is not pending is made, given a buffer or refused.
LEMMA FrameStep ==
  ASSUME Inv, NEW c \in Clients, NEW f \in {"none", "made", "attached", "answered"},
         session[c].there \/ session[c].frame # "none",
         session' = [session EXCEPT ![c].frame = f],
         UNCHANGED <<screen, scheduled, timer>>,
         UNCHANGED dead \/ dead' = Dropped(c)
  PROVE  Inv'
<1>1. session \in [Clients -> Sessions] /\ Good(session[c])
  BY Zenon DEF Inv, AllGood
<1> DEFINE r == [session[c] EXCEPT !.frame = f]
<1>2. session' = [session EXCEPT ![c] = r]
  BY <1>1, Zenon
<1>3. f \in {"none", "made", "attached", "pending", "answered"} /\ f # "pending"
  OBVIOUS
<1>4. /\ Good(r) /\ r.frame = f /\ r.valid = session[c].valid
      /\ r.there = session[c].there
  BY <1>1, <1>3, FrameGood
<1> HIDE DEF r
<1>5. r.frame # "pending"
  BY <1>3, <1>4
<1> QED BY <1>2, <1>4, <1>5, HeldStep, Zenon

\* A frame is made.
LEMMA CreateFrameInv ==
  ASSUME Inv, NEW c \in Clients, CreateFrame(c) PROVE Inv'
<1>1. "made" \in {"none", "made", "attached", "answered"}
  OBVIOUS
<1> QED BY <1>1, FrameStep, Zenon DEF CreateFrame

\* It is given a buffer.
LEMMA AttachBufferInv ==
  ASSUME Inv, NEW c \in Clients, AttachBuffer(c) PROVE Inv'
<1>1. "attached" \in {"none", "made", "attached", "answered"}
  OBVIOUS
<1>2. session[c].frame # "none"
  BY DEF AttachBuffer
<1> QED BY <1>1, <1>2, FrameStep, Zenon DEF AttachBuffer

\* It is destroyed, and with it a session whose object is gone.
LEMMA DestroyFrameInv ==
  ASSUME Inv, NEW c \in Clients, DestroyFrame(c) PROVE Inv'
<1>1. session \in [Clients -> Sessions]
  BY Zenon DEF Inv, AllGood
<1>2. dead' = Dropped(c) /\ UNCHANGED <<screen, scheduled, timer>>
  BY DEF DestroyFrame
<1>3. CASE session[c].there
  <2>1. session' = [session EXCEPT ![c].frame = "none"]
    BY <1>1, <1>3, Zenon DEF DestroyFrame
  <2>2. "none" \in {"none", "made", "attached", "answered"}
    OBVIOUS
  <2> QED BY <1>2, <1>3, <2>1, <2>2, FrameStep, Zenon
<1>4. CASE ~session[c].there
  <2>1. session' = [session EXCEPT ![c] = NoSession]
    BY <1>1, <1>4, Zenon DEF DestroyFrame
  <2>2. NoSession.frame # "pending"
    BY NoSessionGood
  <2> QED BY <1>2, <2>1, <2>2, NoSessionGood, HeldStep, Zenon
<1> QED BY <1>3, <1>4

\* A capture is pending, or fails with all that are pending, or is refused.
LEMMA CaptureFrameInv ==
  ASSUME Inv, NEW c \in Clients, CaptureFrame(c) PROVE Inv'
<1>1. session \in [Clients -> Sessions] /\ Good(session[c])
  BY Zenon DEF Inv, AllGood
<1>2. session[c].frame = "attached" /\ session[c].frame # "none" /\ UNCHANGED screen
  BY DEF CaptureFrame
<1>3. Pending = PendingOf(session)
  BY DEF Pending, PendingOf
<1>4. CASE /\ Cardinality(Pending) + dead < MaxSessions
           /\ session' = [session EXCEPT ![c].frame = "pending"]
           /\ scheduled' = TRUE /\ timer' = (timer \/ ~scheduled) /\ UNCHANGED dead
  <2> DEFINE r == [session[c] EXCEPT !.frame = "pending"]
  <2>1. session' = [session EXCEPT ![c] = r]
    BY <1>1, <1>4, Zenon
  <2>2. /\ Good(r) /\ r.frame = "pending" /\ r.valid = session[c].valid
        /\ r.there = session[c].there
    BY <1>1, FrameGood
  <2> HIDE DEF r
  <2>3. /\ AllGood' /\ session'[c] = r
        /\ \A d \in Clients \ {c} : session'[d] = session[d]
    BY <2>1, <2>2, OthersStay, Zenon DEF Inv
  <2>4. CountedOf(session') \subseteq CountedOf(session)
    BY <1>2, <2>2, <2>3, NoneJoins, Zenon
  <2>5. Cardinality(CountedOf(session')) <= MaxSessions
    BY <2>4, CountedFits, CaptureAssumption, Zenon DEF Inv, Limits
  <2>6. PendingOf(session') = PendingOf(session) \cup {c}
    BY <2>2, <2>3, PendingChanges
  <2>7. PendingOf(session) \in SUBSET Clients
    BY DEF PendingOf
  <2>8. /\ Cardinality(PendingOf(session)) \in Nat
        /\ Cardinality(PendingOf(session) \cup {c}) \in Nat
        /\ Cardinality(PendingOf(session) \cup {c}) <= Cardinality(PendingOf(session)) + 1
    BY <2>7, OneMore
  <2>9. dead \in Nat /\ MaxSessions \in Nat
    BY CaptureAssumption, Zenon DEF Inv, Limits
  <2>10. dead' \in Nat /\ Cardinality(PendingOf(session')) + dead' <= MaxSessions
    <3>1. dead' = dead
      BY <1>4
    <3>2. Cardinality(PendingOf(session)) + dead < MaxSessions
      BY <1>3, <1>4, Zenon
    <3> QED BY <2>6, <2>8, <2>9, <3>1, <3>2
  <2>11. Limits'
    BY <2>5, <2>10, Zenon DEF Limits
  <2>12. Timed'
    BY <1>4, Zenon DEF Inv, Timed
  <2>13. (screen \in Screens)'
    BY <1>2, Zenon DEF Inv
  <2> QED BY <2>3, <2>11, <2>12, <2>13, Zenon DEF Inv
<1>5. CASE /\ ~scheduled
           /\ session' = [d \in Clients |-> IF d = c \/ d \in Pending THEN Answer(session[d])
                                            ELSE session[d]]
           /\ dead' = 0 /\ UNCHANGED <<scheduled, timer>>
  <2>1. Pending = {} /\ ~(dead > 0)
    BY <1>3, <1>5, Zenon DEF Inv, Timed
  <2>2. dead' = dead
    BY <1>5, <2>1 DEF Inv, Limits
  <2>3. \A d \in Clients : session'[d] = IF d = c THEN Answer(session[d]) ELSE session[d]
    BY <1>5, <2>1, Zenon
  <2>4. session' = [session EXCEPT ![c].frame = "answered"]
    BY <1>1, <1>5, <2>3 DEF Answer
  <2>5. "answered" \in {"none", "made", "attached", "answered"}
    OBVIOUS
  <2> QED BY <1>2, <1>5, <2>2, <2>4, <2>5, FrameStep, Zenon
<1>6. CASE /\ session' = [session EXCEPT ![c] = Answer(@)]
           /\ UNCHANGED <<dead, scheduled, timer>>
  <2>1. session' = [session EXCEPT ![c].frame = "answered"]
    BY <1>1, <1>6, Zenon DEF Answer
  <2>2. "answered" \in {"none", "made", "attached", "answered"}
    OBVIOUS
  <2> QED BY <1>2, <1>6, <2>1, <2>2, FrameStep, Zenon
<1> QED BY <1>4, <1>5, <1>6, Zenon DEF CaptureFrame

\* The timer answers all that are pending, and nobody joins by it.
LEMMA FinishPendingInv ==
  ASSUME Inv, FinishPending PROVE Inv'
<1>1. /\ session \in [Clients -> Sessions] /\ \A d \in Clients : Good(session[d])
      /\ screen \in Screens
  BY Zenon DEF Inv, AllGood
<1>2. PICK failing \in SUBSET Pending :
        session' = [c \in Clients |-> IF c \in Pending
                                      THEN Finished(session[c], c \in failing)
                                      ELSE session[c]]
  BY Zenon DEF FinishPending
<1>3. UNCHANGED screen /\ dead' = 0 /\ timer' = FALSE /\ scheduled' = FALSE
  BY DEF FinishPending
<1>4. \A d \in Clients : /\ d \in Pending => session'[d] = Finished(session[d], d \in failing)
                         /\ d \notin Pending => session'[d] = session[d]
  BY <1>2, Zenon
<1>5. ASSUME NEW d \in Clients
      PROVE  /\ Good(session'[d]) /\ session'[d].frame # "pending"
             /\ d \in CountedOf(session') => d \in CountedOf(session)
  <2>1. CASE d \in Pending
    <3> DEFINE r == Finished(session[d], d \in failing)
    <3>1. Good(r) /\ r.frame = "answered" /\ r.valid = session[d].valid
      BY <1>1, FinishedGood, Zenon
    <3>2. session'[d] = r
      BY <1>4, <2>1, Zenon
    <3> HIDE DEF r
    <3>3. session[d].frame = "pending"
      BY <2>1, Zenon DEF Pending
    <3>4. session[d].frame # "none" /\ r.frame # "pending"
      BY <3>1, <3>3
    <3> QED BY <3>1, <3>2, <3>4, Zenon DEF CountedOf
  <2>2. CASE d \notin Pending
    <3>1. session'[d] = session[d] /\ session[d].frame # "pending"
      BY <1>4, <2>2, Zenon DEF Pending
    <3> QED BY <1>1, <3>1, Zenon DEF CountedOf
  <2> QED BY <2>1, <2>2
<1>6. AllGood'
  <2>1. session' \in [Clients -> Sessions]
    <3>1. \A d \in Clients : session'[d] \in Sessions
      BY <1>5, Zenon DEF Good
    <3> QED BY <1>2, <3>1
  <2> QED BY <1>5, <2>1, Zenon DEF AllGood
<1>7. PendingOf(session') = {}
  BY <1>5 DEF PendingOf
<1>8. CountedOf(session') \subseteq CountedOf(session)
  BY <1>5 DEF CountedOf
<1>9. Cardinality(CountedOf(session')) <= MaxSessions
  BY <1>8, CountedFits, CaptureAssumption, Zenon DEF Inv, Limits
<1>10. Limits'
  BY <1>3, <1>7, <1>9, FS_EmptySet, CaptureAssumption DEF Limits
<1>11. Timed'
  <2>1. ~(dead' > 0)
    BY <1>3
  <2> QED BY <1>3, <1>7, <2>1, Zenon DEF Timed
<1>12. (screen \in Screens)'
  BY <1>1, <1>3, Zenon
<1> QED BY <1>6, <1>10, <1>11, <1>12, Zenon DEF Inv

\* What happens on the screen leaves every session as it is.
LEMMA ScreenInv ==
  ASSUME Inv,
         \/ \E i \in Slots : SwitchTo(i)
         \/ \E size \in Modes \cup {Huge} : Resize(size)
         \/ WindowCloses
  PROVE  Inv'
<1>1. screen \in Screens
  BY Zenon DEF Inv
<1>2. (screen \in Screens)'
  <2>1. ASSUME NEW i \in Slots, SwitchTo(i) PROVE screen' \in Screens
    BY <1>1, <2>1, Zenon DEF SwitchTo, Screens
  <2>2. ASSUME NEW size \in Modes \cup {Huge}, Resize(size) PROVE screen' \in Screens
    BY <1>1, <2>2, Zenon DEF Resize, Screens
  <2>3. ASSUME WindowCloses PROVE screen' \in Screens
    BY <1>1, <2>3, Zenon DEF WindowCloses, Screens
  <2> QED BY <2>1, <2>2, <2>3, Zenon
<1>3. UNCHANGED <<session, dead, scheduled, timer>>
  BY Zenon DEF SwitchTo, Resize, WindowCloses
<1>4. AllGood' /\ Limits' /\ Timed'
  BY <1>3, Zenon DEF Inv, AllGood, Limits, Timed
<1> QED BY <1>2, <1>4, Zenon DEF Inv

-----------------------------------------------------------------------------
(* The theorems                                                            *)

\* Every step keeps the invariant.
LEMMA NextInv == ASSUME Inv, [Next]_vars PROVE Inv'
<1>1. CASE UNCHANGED vars
  <2>1. UNCHANGED <<screen, session, dead, scheduled, timer>>
    BY <1>1 DEF vars
  <2> QED BY <2>1, Zenon DEF Inv, AllGood, Limits, Timed
<1>2. ASSUME NEW c \in Clients,
             \/ CreateSession(c) \/ DestroySession(c) \/ Disconnect(c)
             \/ CreateFrame(c) \/ AttachBuffer(c) \/ DestroyFrame(c)
             \/ CaptureFrame(c)
      PROVE  Inv'
  BY <1>2, CreateSessionInv, DestroySessionInv, DisconnectInv, CreateFrameInv,
     AttachBufferInv, DestroyFrameInv, CaptureFrameInv, Zenon
<1> QED BY <1>1, <1>2, FinishPendingInv, ScreenInv, Zenon DEF Next

\* The invariant holds always.
LEMMA Invariant == Spec => []Inv
<1>1. Inv /\ [Next]_vars => Inv'
  <2> SUFFICES ASSUME Inv, [Next]_vars PROVE Inv'
    OBVIOUS
  <2> QED BY NextInv, Zenon
<1> QED BY <1>1, InitInv, PTL DEF Spec

\* Whoever may see some of the workspaces is never shown another one, nor pixels of a size
\* it was not told, however screen and workspace change between a capture and the timer
\* that answers it (finish_pending). Workspaces beyond the mask are the exception.
THEOREM NothingElseIsShown == Spec => []SharedAsAllowed
<1>1. Inv => SharedAsAllowed
  BY Zenon DEF Inv, AllGood, Good, Shows, SharedAsAllowed
<1> QED BY <1>1, Invariant, PTL

\* A frame that is pending has a timer that will answer it, the limits of sessions and of
\* pending frames hold, those included that were destroyed meanwhile, and a client is told
\* at most once that its session has stopped.
THEOREM PendingAreAnswered == Spec => []FramesAccounted
<1>1. Inv => FramesAccounted
  <2> SUFFICES ASSUME Inv PROVE FramesAccounted
    OBVIOUS
  <2>1. Pending = PendingOf(session) /\ Counted = CountedOf(session)
    BY DEF Pending, PendingOf, Counted, Held, CountedOf
  <2>2. /\ dead \in Nat /\ MaxSessions \in Nat
        /\ Cardinality(Pending) + dead <= MaxSessions
        /\ Cardinality(Counted) <= MaxSessions
    BY <2>1, CaptureAssumption, Zenon DEF Inv, Limits
  <2>3. Cardinality(PendingOf(session)) \in Nat
    <3>1. PendingOf(session) \in SUBSET Clients
      BY DEF PendingOf
    <3> QED BY <3>1, Fewer
  <2>4. dead \in 0..MaxSessions
    BY <2>1, <2>2, <2>3
  <2>5. \A c \in Clients : session[c].stops <= 1 /\ (session[c].stops = 1 => ~session[c].alive)
    BY Zenon DEF Inv, AllGood, Good, Told
  <2>6. /\ screen \in Screens /\ session \in [Clients -> Sessions]
        /\ scheduled \in BOOLEAN /\ timer \in BOOLEAN /\ scheduled = timer
        /\ Pending # {} \/ dead > 0 => scheduled
    BY <2>1, Zenon DEF Inv, AllGood, Timed
  <2> QED BY <2>2, <2>4, <2>5, <2>6, Zenon DEF FramesAccounted, TypeOK
<1> QED BY <1>1, Invariant, PTL
=============================================================================

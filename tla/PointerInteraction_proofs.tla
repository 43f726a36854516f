---------------------- MODULE PointerInteraction_proofs ----------------------
(***************************************************************************)
(* That a drag owns the pointer, that every button is accounted for and    *)
(* that a cancelled drag leaves no trace: for any buttons, windows, shapes *)
(* and backends.                                                           *)
(***************************************************************************)
EXTENDS PointerInteraction, TLAPS

-----------------------------------------------------------------------------
(* The invariant                                                           *)

\* What an end of a drag relies on: the flags of a drag are only set during one, and a
\* drag of something with a shape has saved a shape.
Endable(s) ==
  /\ s \in States
  /\ s.splitDrag => Dragging(s)
  /\ s.resizing => Dragging(s) /\ s.drag.kind = "resize"
  /\ Dragging(s) /\ s.drag.kind \in FloatKinds \cup SplitKinds => s.drag.saved \in Shapes
  /\ s.seen \subseteq s.pressed

\* The part that no change of layout can disturb: the drag and its grab and flags, and
\* where each button is.
Accounted(s) ==
  /\ Endable(s)
  /\ Dragging(s) <=> s.grab = "drag"
  /\ Dragging(s) =>
       /\ s.splitDrag <=> s.drag.kind \in SplitKinds
       /\ s.resizing <=> s.drag.kind = "resize"
       /\ s.seen \subseteq {DragButton(s)}
       /\ s.drag.button # NoButton => ~Selecting(s) /\ s.drag.button \in s.pressed
  /\ s.pressed \subseteq s.held
  /\ s.pressed \cap s.intercepted = {}
  /\ s.pressed \ s.swallowed \subseteq s.seen
  /\ ~Dragging(s) => s.seen \cap s.swallowed = {}
  /\ s.grab = "click" <=> ~Dragging(s) /\ s.seen # {}
  /\ Selecting(s) => s.pressed = {}
  /\ ~s.host => s.pressed = {}

\* A drag has its subject, and a window that it has not moved yet is where it was.
Grounded(s) ==
  Dragging(s) =>
    /\ s.host /\ Valid(s)
    /\ s.drag.kind \in FloatKinds /\ ~s.drag.moved => s.place = s.drag.saved

\* The inductive invariant; the focus may only be behind while the screenshot has the pointer.
Sound(s) == Accounted(s) /\ Grounded(s) /\ (s.stale => Intercepting(s))
IInv == Sound(seat)

\* Nobody has the pointer: what a release of all buttons leaves.
Quiet(s) ==
  /\ s \in States
  /\ s.drag = NoDrag /\ s.grab = "none" /\ s.start = NoButton
  /\ s.pressed = {} /\ s.seen = {}
  /\ ~s.splitDrag /\ ~s.resizing

\* Two states that differ at most in the drag and in what it changes.
SameWorld(s, t) ==
  /\ t.backend = s.backend /\ t.host = s.host /\ t.held = s.held
  /\ t.intercepted = s.intercepted /\ t.selection = s.selection
  /\ t.active = s.active /\ t.away = s.away /\ t.dialog = s.dialog
SameButtons(s, t) ==
  /\ t.pressed = s.pressed /\ t.swallowed = s.swallowed /\ t.seen = s.seen
  /\ t.grab = s.grab /\ t.start = s.start
  /\ t.splitDrag = s.splitDrag /\ t.resizing = s.resizing
SameShapes(s, t) == t.place = s.place /\ t.ratio = s.ratio /\ t.weights = s.weights

\* Two states that differ at most in the layout.
SameInput(s, t) ==
  /\ SameButtons(s, t) /\ t.drag = s.drag /\ t.host = s.host /\ t.held = s.held
  /\ t.intercepted = s.intercepted /\ t.selection = s.selection

\* Two states that differ at most in the hand and in what the screenshot has taken.
SameScene(s, t) ==
  /\ SameButtons(s, t) /\ SameShapes(s, t) /\ t.drag = s.drag /\ t.host = s.host
  /\ t.active = s.active /\ t.away = s.away /\ t.dialog = s.dialog /\ t.order = s.order

\* The same drag, further on.
SameDrag(d, e) ==
  /\ e \in Drags
  /\ e.kind = d.kind /\ e.window = d.window /\ e.saved = d.saved /\ e.context = d.context
  /\ e.workspace = d.workspace /\ e.button = d.button

\* t is s after the pointer may have moved.
Moved(s, t) ==
  /\ t \in States /\ SameWorld(s, t) /\ SameButtons(s, t) /\ t.order = s.order /\ ~t.stale
  /\ s.grab # "drag" => t.drag = s.drag /\ SameShapes(s, t)
  /\ s.grab = "drag" =>
       /\ SameDrag(s.drag, t.drag)
       /\ s.drag.kind \in FloatKinds /\ ~t.drag.moved => ~s.drag.moved /\ t.place = s.place

\* t is s less its drag, with everything the drag changed as it was before.
Restored(s, t) ==
  /\ t.order = s.order
  /\ ~Dragging(s) => SameShapes(s, t)
  /\ Dragging(s) /\ s.drag.workspace = s.active =>
       /\ s.drag.kind \in FloatKinds /\ Floating(s) => t.place = s.drag.saved
       /\ s.drag.kind = "master" => t.ratio = s.drag.saved
       /\ s.drag.kind = "stack" => t.weights = s.drag.saved

-----------------------------------------------------------------------------
(* Records                                                                 *)

\* A drag is not the absence of one.
LEMMA DragsAreDrags ==
  ASSUME NEW s \in States, Dragging(s)
  PROVE  s.drag \in Drags
  BY DEF Dragging, States

\* What lies in which slot is a matter of the workspace and its windows alone.
LEMMA SlotsDepend ==
  ASSUME NEW s, NEW t,
         t.active = s.active, t.dialog = s.dialog, t.away = s.away
  PROVE  /\ Slots(t) = Slots(s) /\ (Floating(t) <=> Floating(s))
         /\ \A w \in Windows : Tiled(t, w) = Tiled(s, w)
         /\ t.order = s.order => SplitContext(t) = SplitContext(s)
<1>1. \A w \in Windows : Tiled(t, w) = Tiled(s, w)
  BY DEF Tiled
<1>2. Slots(t) = Slots(s)
  BY <1>1 DEF Slots
<1> QED BY <1>1, <1>2 DEF SplitContext, Floating

\* ... and so is whether a drag may go on.
LEMMA ValidDepends ==
  ASSUME NEW s, NEW t,
         t.active = s.active, t.dialog = s.dialog, t.away = s.away, t.order = s.order,
         t.drag.kind = s.drag.kind, t.drag.window = s.drag.window,
         t.drag.context = s.drag.context, t.drag.workspace = s.drag.workspace,
         Valid(s)
  PROVE  Valid(t)
<1>1. /\ Slots(t) = Slots(s) /\ (Floating(t) <=> Floating(s))
      /\ SplitContext(t) = SplitContext(s)
  BY SlotsDepend
<1> QED BY <1>1 DEF Valid

\* The tiles are windows, and a context is an order of some of them.
LEMMA ContextTyped ==
  ASSUME NEW s \in States
  PROVE  /\ Slots(s) \subseteq Windows
         /\ SplitContext(s) \in Relations
<1>1. Slots(s) \subseteq Windows
  BY DEF Slots
<1>2. s.order \in Relations
  BY DEF States
<1> QED BY <1>1, <1>2 DEF SplitContext, Among, Relations

-----------------------------------------------------------------------------
(* Motion                                                                  *)

\* A pointer that is shown where it is, without a drag, changes nothing else.
LEMMA StaleCleared ==
  ASSUME NEW s \in States, NEW t, t = [s EXCEPT !.stale = FALSE]
  PROVE  /\ t \in States /\ SameWorld(s, t) /\ SameButtons(s, t) /\ SameShapes(s, t)
         /\ t.order = s.order /\ t.drag = s.drag /\ ~t.stale
<1>1. t \in States /\ t.order = s.order /\ t.drag = s.drag /\ t.stale = FALSE
  BY DEF States
<1>2. SameWorld(s, t)
  BY DEF SameWorld, States
<1>3. SameButtons(s, t)
  BY DEF SameButtons, States
<1>4. SameShapes(s, t)
  BY DEF SameShapes, States
<1> QED BY <1>1, <1>2, <1>3, <1>4

\* A drag that follows the pointer stays the drag it is.
LEMMA DragFollows ==
  ASSUME NEW s \in States, Dragging(s), s.grab = "drag", ~s.stale,
         NEW shape \in Shapes, NEW moved \in BOOLEAN, NEW under \in Windows \cup {NoWindow},
         NEW t, t = Dragged(s, shape, moved, under)
  PROVE  Moved(s, t)
<1> DEFINE d == s.drag
           m == d.moved \/ moved
           x == IF d.kind = "tile" /\ under \in Slots(s) \ {d.window} THEN under ELSE NoWindow
           e == [d EXCEPT !.moved = m, !.destination = x]
           u == [s EXCEPT !.drag = e]
<1>1. d \in Drags
  BY DragsAreDrags
<1>2. x \in Windows \cup {NoWindow} /\ m \in BOOLEAN
  BY <1>1 DEF Drags
<1> HIDE DEF m, x
<1>3. e \in Drags /\ SameDrag(d, e) /\ e.moved = m
  BY <1>1, <1>2 DEF Drags, SameDrag
<1>4. ~e.moved => ~d.moved
  BY <1>3 DEF m
<1> HIDE DEF e
<1>5. u \in States /\ u.drag = e /\ u.order = s.order /\ u.stale = s.stale /\ u.place = s.place
  BY <1>3 DEF States
<1>6. SameWorld(s, u)
  BY DEF SameWorld, States
<1>7. SameButtons(s, u)
  BY DEF SameButtons, States
<1>8. [s EXCEPT !.drag.moved = m, !.drag.destination = x] = u
  BY DEF e, States
<1> HIDE DEF u
<1>9. t \in {u, [u EXCEPT !.place = shape], [u EXCEPT !.ratio = shape], [u EXCEPT !.weights = shape]}
  <2>1. d.kind \in FloatKinds \cup SplitKinds \cup {"tile"}
    BY <1>1 DEF Drags
  <2> QED BY <1>8, <2>1 DEF Dragged, m, x, FloatKinds, SplitKinds
<1>10. d.kind \in FloatKinds /\ ~e.moved => t = u
  <2> SUFFICES ASSUME d.kind \in FloatKinds, ~m PROVE t = u
    BY <1>3
  <2>1. d.kind \notin {"tile", "master", "stack"} /\ ~(d.moved \/ moved)
    BY DEF FloatKinds, m
  <2>2. t = [s EXCEPT !.drag.moved = m, !.drag.destination = x]
    BY <2>1 DEF Dragged, m, x
  <2> QED BY <1>8, <2>2
<1>11. /\ t \in States /\ t.drag = e /\ t.order = s.order /\ t.stale = s.stale
  BY <1>5, <1>9 DEF States
<1>12. SameWorld(s, t)
  BY <1>5, <1>6, <1>9 DEF SameWorld, States
<1>13. SameButtons(s, t)
  BY <1>5, <1>7, <1>9 DEF SameButtons, States
<1>14. d.kind \in FloatKinds /\ ~t.drag.moved => ~d.moved /\ t.place = s.place
  BY <1>4, <1>5, <1>10, <1>11
<1> QED BY <1>3, <1>11, <1>12, <1>13, <1>14 DEF Moved

\* The pointer may have moved: a drag that may go on does, and nothing else happens.
LEMMA MotionMoves ==
  ASSUME NEW s \in States, s.grab = "drag" => Dragging(s) /\ Valid(s),
         NEW t \in MotionStates(s)
  PROVE  Moved(s, t)
<1> DEFINE u == [s EXCEPT !.stale = FALSE]
<1>1. /\ u \in States /\ SameWorld(s, u) /\ SameButtons(s, u) /\ SameShapes(s, u)
      /\ u.order = s.order /\ u.drag = s.drag /\ ~u.stale
  BY StaleCleared
<1>2. s.grab # "drag" => t = u
  BY DEF MotionStates
<1>3. s.grab = "drag" /\ Valid(u) =>
        MotionStates(s) = {Dragged(u, shape, moved, under) :
                             shape \in Shapes, moved \in BOOLEAN, under \in Windows \cup {NoWindow}}
  BY DEF MotionStates
<1> HIDE DEF u
<1>4. CASE s.grab # "drag"
  <2>1. t = u
    BY <1>2, <1>4
  <2> QED BY <1>1, <1>4, <2>1 DEF Moved
<1>5. CASE s.grab = "drag"
  <2>1. u.grab = "drag" /\ Dragging(u)
    BY <1>1, <1>5 DEF SameButtons, Dragging
  <2>2. Valid(u)
    BY <1>1, <1>5, ValidDepends DEF SameWorld
  <2>3. PICK shape \in Shapes, moved \in BOOLEAN, under \in Windows \cup {NoWindow} :
          t = Dragged(u, shape, moved, under)
    BY <1>3, <1>5, <2>2
  <2>4. Moved(u, t)
    BY <1>1, <2>1, <2>3, DragFollows
  <2>5. t \in States /\ t.order = s.order /\ ~t.stale
    BY <1>1, <2>4 DEF Moved
  <2>6. SameWorld(s, t)
    BY <1>1, <2>4 DEF Moved, SameWorld
  <2>7. SameButtons(s, t)
    BY <1>1, <2>4 DEF Moved, SameButtons
  <2>8. /\ SameDrag(s.drag, t.drag)
        /\ s.drag.kind \in FloatKinds /\ ~t.drag.moved => ~s.drag.moved /\ t.place = u.place
    BY <1>1, <2>1, <2>4 DEF Moved
  <2>9. u.place = s.place
    BY <1>1 DEF SameShapes
  <2> QED BY <1>5, <2>5, <2>6, <2>7, <2>8, <2>9 DEF Moved
<1> QED BY <1>4, <1>5

\* ... whether or not there was a motion.
LEMMA RefreshMoves ==
  ASSUME NEW s \in States, s.grab = "drag" => Dragging(s) /\ Valid(s),
         NEW t \in RefreshStates(s)
  PROVE  Moved(s, t) /\ (s.grab = "drag" /\ ~s.stale => t = s)
<1>1. CASE s.grab # "drag" \/ s.stale
  <2>1. t \in MotionStates(s)
    BY <1>1 DEF RefreshStates
  <2> QED BY <1>1, <2>1, MotionMoves
<1>2. CASE s.grab = "drag" /\ ~s.stale
  <2>1. t = s
    BY <1>2 DEF RefreshStates
  <2>2. SameWorld(s, s) /\ SameButtons(s, s)
    BY DEF SameWorld, SameButtons
  <2>3. s.drag \in Drags
    BY <1>2, DragsAreDrags
  <2>4. SameDrag(s.drag, s.drag)
    BY <2>3 DEF SameDrag
  <2> QED BY <1>2, <2>1, <2>2, <2>4 DEF Moved
<1> QED BY <1>1, <1>2

\* A motion leaves a drag its ground.
LEMMA MovedGrounded ==
  ASSUME NEW s, NEW t, Grounded(s), Moved(s, t), Dragging(s) <=> s.grab = "drag"
  PROVE  Grounded(t) /\ (Dragging(t) <=> Dragging(s)) /\ DragButton(t) = DragButton(s)
<1>1. SameWorld(s, t) /\ t.order = s.order
  BY DEF Moved
<1>2. CASE ~Dragging(s)
  BY <1>2 DEF Moved, Grounded, Dragging, DragButton
<1>3. CASE Dragging(s)
  <2>1. /\ SameDrag(s.drag, t.drag)
        /\ s.drag.kind \in FloatKinds /\ ~t.drag.moved => ~s.drag.moved /\ t.place = s.place
    BY <1>3 DEF Moved
  <2>2. Dragging(t) /\ DragButton(t) = DragButton(s)
    BY <2>1, DragAssumption DEF SameDrag, Dragging, DragButton
  <2>3. Valid(s) /\ s.host
    BY <1>3 DEF Grounded
  <2>4. t.host
    BY <1>1, <2>3 DEF SameWorld
  <2>5. Valid(t)
    BY <1>1, <2>1, <2>3, ValidDepends DEF SameWorld, SameDrag
  <2>6. t.drag.kind \in FloatKinds /\ ~t.drag.moved => t.place = t.drag.saved
    BY <1>3, <2>1 DEF Grounded, SameDrag
  <2> QED BY <1>3, <2>2, <2>4, <2>5, <2>6 DEF Grounded
<1> QED BY <1>2, <1>3

\* A motion leaves a sound state sound, the focus of the pointer included.
LEMMA MovedSound ==
  ASSUME NEW s, NEW t, Accounted(s), Grounded(s), Moved(s, t)
  PROVE  Sound(t)
<1>1. s \in States /\ t \in States /\ SameWorld(s, t) /\ SameButtons(s, t)
      /\ t.order = s.order /\ ~t.stale
  BY DEF Accounted, Endable, Moved
<1>2. CASE ~Dragging(s)
  <2>1. t.drag = s.drag /\ ~Dragging(t)
    BY <1>2 DEF Accounted, Moved, Dragging
  <2>2. Endable(t)
    BY <1>1, <1>2, <2>1 DEF Accounted, Endable, SameButtons
  <2>3. Accounted(t)
    BY <1>1, <1>2, <2>1, <2>2 DEF Accounted, SameButtons, SameWorld, Selecting
  <2> QED BY <1>1, <2>1, <2>3 DEF Sound, Grounded
<1>3. CASE Dragging(s)
  <2>1. s.grab = "drag" /\ SameDrag(s.drag, t.drag)
        /\ (s.drag.kind \in FloatKinds /\ ~t.drag.moved => ~s.drag.moved /\ t.place = s.place)
    BY <1>3 DEF Accounted, Moved
  <2>2. Dragging(t) /\ DragButton(t) = DragButton(s)
    BY <2>1, DragAssumption DEF SameDrag, Dragging, DragButton
  <2>3. Endable(t)
    BY <1>1, <1>3, <2>1, <2>2 DEF Accounted, Endable, SameButtons, SameDrag
  <2>4. Accounted(t)
    <3>1. /\ Dragging(t) <=> t.grab = "drag"
          /\ t.splitDrag <=> t.drag.kind \in SplitKinds
          /\ t.resizing <=> t.drag.kind = "resize"
          /\ t.seen \subseteq {DragButton(t)}
      BY <1>1, <1>3, <2>1, <2>2 DEF Accounted, SameButtons, SameDrag
    <3>2. t.drag.button # NoButton => ~Selecting(t) /\ t.drag.button \in t.pressed
      BY <1>1, <1>3, <2>1 DEF Accounted, SameButtons, SameWorld, SameDrag, Selecting
    <3>3. /\ t.pressed \subseteq t.held
          /\ t.pressed \cap t.intercepted = {}
          /\ t.pressed \ t.swallowed \subseteq t.seen
          /\ Selecting(t) => t.pressed = {}
          /\ ~t.host => t.pressed = {}
      BY <1>1 DEF Accounted, SameButtons, SameWorld, Selecting
    <3>4. t.grab # "click"
      BY <2>1, <1>1 DEF SameButtons
    <3> QED BY <2>2, <2>3, <3>1, <3>2, <3>3, <3>4 DEF Accounted
  <2>5. Grounded(t)
    BY <1>3, <2>1, MovedGrounded
  <2> QED BY <1>1, <2>4, <2>5 DEF Sound
<1> QED BY <1>2, <1>3

\* So a refresh of the pointer makes a sound state of one that only its focus kept from it.
LEMMA RefreshSound ==
  ASSUME NEW s, Accounted(s), Grounded(s), NEW t \in RefreshStates(s)
  PROVE  Sound(t) /\ Moved(s, t) /\ (s.grab = "drag" /\ ~s.stale => t = s)
<1>1. s \in States /\ (s.grab = "drag" => Dragging(s) /\ Valid(s))
  BY DEF Accounted, Endable, Grounded
<1>2. Moved(s, t) /\ (s.grab = "drag" /\ ~s.stale => t = s)
  BY <1>1, RefreshMoves
<1> QED BY <1>2, MovedSound

\* ... and a motion keeps it sound.
LEMMA MotionSound ==
  ASSUME NEW s, Accounted(s), Grounded(s), NEW t \in MotionStates(s)
  PROVE  Sound(t) /\ Moved(s, t)
<1>1. s \in States /\ (s.grab = "drag" => Dragging(s) /\ Valid(s))
  BY DEF Accounted, Endable, Grounded
<1>2. Moved(s, t)
  BY <1>1, MotionMoves
<1> QED BY <1>2, MovedSound

\* A drag outlasts a motion, and nothing begins one.
LEMMA MovedDrags ==
  ASSUME NEW s \in States, NEW t, Moved(s, t), s.grab = "drag" <=> Dragging(s)
  PROVE  Dragging(t) <=> Dragging(s)
  BY DragAssumption DEF Moved, SameDrag, Dragging

-----------------------------------------------------------------------------
(* The end of a drag                                                       *)

\* What a drag leaves behind touches nothing but what it changed: a cancelled one puts it
\* back, a committed one leaves the shapes as they are.
LEMMA LeaveKeeps ==
  ASSUME NEW s, Endable(s), Dragging(s), NEW commit \in BOOLEAN,
         NEW t, t = Leave(s, commit)
  PROVE  /\ t \in States /\ SameWorld(s, t) /\ SameButtons(s, t)
         /\ t.drag = s.drag /\ t.stale = s.stale
         /\ ~commit => Restored(s, t)
         /\ commit => SameShapes(s, t)
<1> DEFINE d == s.drag
           restore == ~commit /\ d.workspace = s.active
           swapped == SwapTiles(s.order, d.window, d.destination)
<1>1. s \in States /\ d \in Drags
  BY DragsAreDrags DEF Endable
<1>2. d.kind \in FloatKinds \cup SplitKinds => d.saved \in Shapes
  BY DEF Endable
<1>3. swapped \in Relations
  BY DEF SwapTiles, Relations
<1>4. d.kind \in {"move", "resize", "master", "stack", "tile"}
  BY <1>1 DEF Drags, FloatKinds, SplitKinds
<1>5. [s EXCEPT !.order = SwapTiles(@, d.window, d.destination)] = [s EXCEPT !.order = swapped]
  OBVIOUS
<1> HIDE DEF swapped
<1>6. CASE d.kind \in FloatKinds
  <2>1. t = IF restore /\ Floating(s) THEN [s EXCEPT !.place = d.saved] ELSE s
    BY <1>6 DEF Leave, FloatKinds
  <2>2. t \in States /\ t.drag = s.drag /\ t.stale = s.stale /\ t.order = s.order
    BY <1>1, <1>2, <1>6, <2>1 DEF States
  <2>3. SameWorld(s, t)
    BY <1>1, <2>1 DEF SameWorld, States
  <2>4. SameButtons(s, t)
    BY <1>1, <2>1 DEF SameButtons, States
  <2>5. commit => SameShapes(s, t)
    BY <2>1 DEF SameShapes
  <2>6. restore /\ Floating(s) => t.place = d.saved
    BY <1>1, <2>1 DEF States
  <2>7. d.kind # "master" /\ d.kind # "stack"
    BY <1>6 DEF FloatKinds
  <2> QED BY <2>2, <2>3, <2>4, <2>5, <2>6, <2>7 DEF Restored
<1>7. CASE d.kind = "master"
  <2>1. t = IF restore THEN [s EXCEPT !.ratio = d.saved] ELSE s
    BY <1>7 DEF Leave, FloatKinds
  <2>2. t \in States /\ t.drag = s.drag /\ t.stale = s.stale /\ t.order = s.order
    BY <1>1, <1>2, <1>7, <2>1 DEF States, SplitKinds
  <2>3. SameWorld(s, t)
    BY <1>1, <2>1 DEF SameWorld, States
  <2>4. SameButtons(s, t)
    BY <1>1, <2>1 DEF SameButtons, States
  <2>5. commit => SameShapes(s, t)
    BY <2>1 DEF SameShapes
  <2>6. restore => t.ratio = d.saved
    BY <1>1, <2>1 DEF States
  <2>7. d.kind \notin FloatKinds /\ d.kind # "stack"
    BY <1>7 DEF FloatKinds
  <2> QED BY <2>2, <2>3, <2>4, <2>5, <2>6, <2>7 DEF Restored
<1>8. CASE d.kind = "stack"
  <2>1. t = IF restore THEN [s EXCEPT !.weights = d.saved] ELSE s
    BY <1>8 DEF Leave, FloatKinds
  <2>2. t \in States /\ t.drag = s.drag /\ t.stale = s.stale /\ t.order = s.order
    BY <1>1, <1>2, <1>8, <2>1 DEF States, SplitKinds
  <2>3. SameWorld(s, t)
    BY <1>1, <2>1 DEF SameWorld, States
  <2>4. SameButtons(s, t)
    BY <1>1, <2>1 DEF SameButtons, States
  <2>5. commit => SameShapes(s, t)
    BY <2>1 DEF SameShapes
  <2>6. restore => t.weights = d.saved
    BY <1>1, <2>1 DEF States
  <2>7. d.kind \notin FloatKinds /\ d.kind # "master"
    BY <1>8 DEF FloatKinds
  <2> QED BY <2>2, <2>3, <2>4, <2>5, <2>6, <2>7 DEF Restored
<1>9. CASE d.kind = "tile"
  <2>1. t = s \/ t = [s EXCEPT !.order = swapped]
    BY <1>5, <1>9 DEF Leave, FloatKinds
  <2>2. ~commit => t = s
    BY <1>9 DEF Leave, FloatKinds
  <2>3. t \in States /\ t.drag = s.drag /\ t.stale = s.stale
    BY <1>1, <1>3, <2>1 DEF States
  <2>4. SameWorld(s, t)
    BY <1>1, <2>1 DEF SameWorld, States
  <2>5. SameButtons(s, t)
    BY <1>1, <2>1 DEF SameButtons, States
  <2>6. SameShapes(s, t)
    BY <1>1, <2>1 DEF SameShapes, States
  <2>7. d.kind \notin FloatKinds /\ d.kind # "master" /\ d.kind # "stack"
    BY <1>9 DEF FloatKinds
  <2> QED BY <2>2, <2>3, <2>4, <2>5, <2>6, <2>7 DEF Restored
<1> QED BY <1>4, <1>6, <1>7, <1>8, <1>9 DEF FloatKinds

\* A drag ends with its flags; the buttons and the grab are where they were.
LEMMA FinishEnds ==
  ASSUME NEW s, Endable(s), NEW commit \in BOOLEAN, NEW t, t = Finish(s, commit)
  PROVE  /\ Endable(t) /\ SameWorld(s, t)
         /\ t.drag = NoDrag /\ ~t.splitDrag /\ ~t.resizing /\ t.stale = s.stale
         /\ t.pressed = s.pressed /\ t.swallowed = s.swallowed /\ t.seen = s.seen
         /\ t.grab = s.grab /\ t.start = s.start
         /\ ~commit => Restored(s, t)
         /\ commit => SameShapes(s, t)
<1>1. CASE ~Dragging(s)
  <2>1. t = s /\ s.drag = NoDrag
    BY <1>1 DEF Finish, Dragging
  <2>2. ~s.splitDrag /\ ~s.resizing
    BY <1>1 DEF Endable
  <2>3. SameWorld(s, s) /\ SameShapes(s, s) /\ Restored(s, s)
    BY <1>1 DEF SameWorld, SameShapes, Restored
  <2> QED BY <2>1, <2>2, <2>3
<1>2. CASE Dragging(s)
  <2> DEFINE u == Leave(s, commit)
             R == u.resizing /\ s.drag.kind # "resize"
  <2>1. /\ u \in States /\ SameWorld(s, u) /\ SameButtons(s, u)
        /\ u.drag = s.drag /\ u.stale = s.stale
        /\ ~commit => Restored(s, u)
        /\ commit => SameShapes(s, u)
    BY <1>2, LeaveKeeps
  <2>2. t = [u EXCEPT !.drag = NoDrag, !.splitDrag = FALSE, !.resizing = R]
    BY <1>2 DEF Finish
  <2>3. R \in BOOLEAN
    OBVIOUS
  <2>4. ~R
    BY <2>1 DEF SameButtons, Endable
  <2> HIDE DEF u, R
  <2>5. t \in States /\ t.drag = NoDrag /\ t.splitDrag = FALSE /\ t.resizing = R
        /\ t.stale = u.stale /\ t.order = u.order
    BY <2>1, <2>2, <2>3 DEF States
  <2>6. /\ t.pressed = u.pressed /\ t.swallowed = u.swallowed /\ t.seen = u.seen
        /\ t.grab = u.grab /\ t.start = u.start
    BY <2>1, <2>2 DEF States
  <2>7. SameWorld(u, t)
    BY <2>1, <2>2 DEF SameWorld, States
  <2>8. SameShapes(u, t)
    BY <2>1, <2>2 DEF SameShapes, States
  <2>9. SameWorld(s, t)
    BY <2>1, <2>7 DEF SameWorld
  <2>10. commit => SameShapes(s, t)
    BY <2>1, <2>8 DEF SameShapes
  <2>11. ~commit => Restored(s, t)
    BY <2>1, <2>5, <2>8, <1>2 DEF SameShapes, Restored
  <2>12. /\ t.pressed = s.pressed /\ t.swallowed = s.swallowed /\ t.seen = s.seen
         /\ t.grab = s.grab /\ t.start = s.start
    BY <2>1, <2>6 DEF SameButtons
  <2>13. Endable(t)
    BY <2>4, <2>5, <2>12 DEF Endable, Dragging
  <2> QED BY <2>1, <2>4, <2>5, <2>9, <2>10, <2>11, <2>12, <2>13
<1> QED BY <1>1, <1>2

\* Where the buttons have been released nobody has the pointer, and the drag, if there was
\* one, is undone.
LEMMA ReleaseEnds ==
  ASSUME NEW s, Endable(s), NEW t, t = ReleaseButtons(s)
  PROVE  /\ Quiet(t) /\ SameWorld(s, t) /\ Restored(s, t)
         /\ t.swallowed = s.swallowed /\ t.stale = s.stale
<1> DEFINE u == Finish(s, FALSE)
           S == u.seen \ s.pressed
<1>1. /\ Endable(u) /\ SameWorld(s, u) /\ u.drag = NoDrag /\ ~u.splitDrag /\ ~u.resizing
      /\ u.stale = s.stale /\ u.swallowed = s.swallowed /\ u.seen = s.seen /\ Restored(s, u)
  BY FinishEnds
<1>2. S = {}
  BY <1>1 DEF Endable
<1>3. t = [u EXCEPT !.pressed = {}, !.seen = S, !.grab = "none", !.start = NoButton]
  BY DEF ReleaseButtons, Cancel
<1>4. u \in States
  BY <1>1 DEF Endable
<1> HIDE DEF u, S
<1>5. t = [u EXCEPT !.pressed = {}, !.seen = {}, !.grab = "none", !.start = NoButton]
  BY <1>2, <1>3
<1>6. /\ t \in States /\ t.pressed = {} /\ t.seen = {} /\ t.grab = "none" /\ t.start = NoButton
      /\ t.drag = u.drag /\ t.swallowed = u.swallowed /\ t.order = u.order
  BY <1>4, <1>5 DEF States
<1>7. t.splitDrag = u.splitDrag /\ t.resizing = u.resizing /\ t.stale = u.stale
  BY <1>4, <1>5 DEF States
<1>8. SameWorld(u, t)
  BY <1>4, <1>5 DEF SameWorld, States
<1>9. SameShapes(u, t)
  BY <1>4, <1>5 DEF SameShapes, States
<1>10. Quiet(t)
  BY <1>1, <1>6, <1>7 DEF Quiet
<1>11. SameWorld(s, t)
  BY <1>1, <1>8 DEF SameWorld
<1>12. Restored(s, t)
  BY <1>1, <1>6, <1>9 DEF Restored, SameShapes
<1> QED BY <1>1, <1>6, <1>7, <1>10, <1>11, <1>12

-----------------------------------------------------------------------------
(* Layout                                                                  *)

\* Where nobody has the pointer nothing is unaccounted for.
LEMMA QuietAccounted ==
  ASSUME NEW s, Quiet(s)
  PROVE  Accounted(s) /\ Grounded(s) /\ ~Dragging(s)
<1>1. ~Dragging(s)
  BY DEF Quiet, Dragging
<1>2. Endable(s)
  BY <1>1 DEF Quiet, Endable
<1>3. Accounted(s)
  BY <1>1, <1>2 DEF Quiet, Accounted
<1> QED BY <1>1, <1>3 DEF Grounded

\* The buttons do not care for the layout.
LEMMA AccountedDepends ==
  ASSUME NEW s, Accounted(s), NEW t \in States, SameInput(s, t)
  PROVE  Accounted(t)
<1>1. Dragging(t) = Dragging(s) /\ DragButton(t) = DragButton(s) /\ Selecting(t) = Selecting(s)
  BY DEF SameInput, Dragging, DragButton, Selecting
<1>2. Endable(t)
  BY <1>1 DEF Accounted, Endable, SameInput, SameButtons
<1>3. Dragging(s) =>
        /\ t.splitDrag <=> t.drag.kind \in SplitKinds
        /\ t.resizing <=> t.drag.kind = "resize"
        /\ t.seen \subseteq {DragButton(t)}
        /\ t.drag.button # NoButton => ~Selecting(t) /\ t.drag.button \in t.pressed
  BY <1>1 DEF Accounted, SameInput, SameButtons
<1> QED BY <1>1, <1>2, <1>3 DEF Accounted, SameInput, SameButtons

\* A state without a drag is grounded.
LEMMA RestDepends ==
  ASSUME NEW s, Accounted(s), ~Dragging(s), NEW t \in RefreshStates(s)
  PROVE  /\ Sound(t) /\ ~Dragging(t) /\ SameWorld(s, t) /\ SameButtons(s, t)
         /\ SameShapes(s, t) /\ t.order = s.order /\ t.drag = s.drag
<1>1. Grounded(s) /\ s.grab # "drag"
  BY DEF Grounded, Accounted
<1>2. Sound(t) /\ Moved(s, t)
  BY <1>1, RefreshSound
<1> QED BY <1>1, <1>2 DEF Moved, Dragging

\* A refresh after the buttons were released.
LEMMA QuietRefresh ==
  ASSUME NEW s, Quiet(s), NEW t \in RefreshStates(s)
  PROVE  /\ Sound(t) /\ ~Dragging(t) /\ SameWorld(s, t) /\ SameShapes(s, t)
         /\ t.order = s.order
  BY QuietAccounted, RestDepends

\* What was put back stays where it is when nothing moves it.
LEMMA RestoredStays ==
  ASSUME NEW s, NEW t, NEW u, Restored(s, t), SameShapes(t, u), u.order = t.order
  PROVE  Restored(s, u)
  BY DEF Restored, SameShapes

\* A new layout ends a drag, and puts back what it changed.
LEMMA RelayoutEnds ==
  ASSUME NEW s, Accounted(s), NEW t \in RelayoutStates(s)
  PROVE  Sound(t) /\ ~Dragging(t) /\ SameWorld(s, t) /\ Restored(s, t)
<1> DEFINE u == IF Dragging(s) THEN ReleaseButtons(s) ELSE s
<1>1. Endable(s)
  BY DEF Accounted
<1>2. Accounted(u) /\ ~Dragging(u) /\ SameWorld(s, u) /\ Restored(s, u)
  <2>1. CASE Dragging(s)
    <3>1. Quiet(u) /\ SameWorld(s, u) /\ Restored(s, u)
      BY <1>1, <2>1, ReleaseEnds
    <3> QED BY <3>1, QuietAccounted
  <2>2. CASE ~Dragging(s)
    BY <2>2 DEF SameWorld, Restored, SameShapes
  <2> QED BY <2>1, <2>2
<1>3. PICK v \in {u, ReleaseButtons(u)} : t \in RefreshStates(v)
  BY DEF RelayoutStates
<1> HIDE DEF u
<1>4. Accounted(v) /\ ~Dragging(v) /\ SameWorld(u, v) /\ SameShapes(u, v) /\ v.order = u.order
  <2>1. CASE v = u
    BY <1>2, <2>1 DEF SameWorld, SameShapes
  <2>2. CASE v = ReleaseButtons(u)
    <3>1. Endable(u)
      BY <1>2 DEF Accounted
    <3>2. Quiet(v) /\ SameWorld(u, v) /\ Restored(u, v)
      BY <2>2, <3>1, ReleaseEnds
    <3> QED BY <1>2, <3>2, QuietAccounted DEF Restored
  <2> QED BY <1>3, <2>1, <2>2
<1>5. /\ Sound(t) /\ ~Dragging(t) /\ SameWorld(v, t) /\ SameShapes(v, t) /\ t.order = v.order
  BY <1>3, <1>4, RestDepends
<1>6. SameWorld(s, t)
  BY <1>2, <1>4, <1>5 DEF SameWorld
<1>7. Restored(s, t)
  BY <1>2, <1>4, <1>5, RestoredStays
<1> QED BY <1>5, <1>6, <1>7

\* ... whatever of the layout has changed before it.
LEMMA ChangedRelayout ==
  ASSUME NEW s, Accounted(s), NEW u \in States, SameInput(s, u),
         NEW t \in RelayoutStates(u)
  PROVE  Sound(t) /\ ~Dragging(t) /\ SameWorld(u, t) /\ Restored(u, t)
  BY AccountedDepends, RelayoutEnds

-----------------------------------------------------------------------------
(* The beginning of a drag                                                 *)

\* What a drag can be begun on: something that is there.
Fits(s, op) ==
  /\ op.kind \in FloatKinds \cup SplitKinds \cup {"tile"}
  /\ op.window \in Windows \cup {NoWindow}
  /\ op.saved \in Shapes \cup {NoWindow}
  /\ op.context \in Relations
  /\ op.kind \in FloatKinds => Floating(s) /\ op.saved = s.place
  /\ op.kind = "tile" => op.window \in Slots(s)
  /\ op.kind \in SplitKinds => op.context = SplitContext(s)
  /\ op.kind \in FloatKinds \cup SplitKinds => op.saved \in Shapes

\* The pointer may become that of a drag which the button holds, the only one down.
Startable(s, button) ==
  /\ s \in States /\ button \in Buttons \cup {NoButton}
  /\ ~Dragging(s) /\ ~s.splitDrag /\ ~s.resizing
  /\ s.host /\ ~Selecting(s)
  /\ s.pressed = {button} \ {NoButton}
  /\ s.seen \subseteq s.pressed /\ s.pressed \subseteq s.held
  /\ s.pressed \cap s.intercepted = {}
  /\ s.stale => Intercepting(s)

\* Whatever the code may begin is there.
LEMMA OperationsFit ==
  ASSUME NEW s \in States, NEW resize \in BOOLEAN,
         NEW op \in WindowOperations(s, resize) \cup EdgeOperations(s) \cup DividerOperations(s)
  PROVE  Fits(s, op)
<1>1. /\ Slots(s) \subseteq Windows /\ SplitContext(s) \in Relations
      /\ {} \in Relations
  BY ContextTyped DEF Relations
<1>2. s.place \in Shapes /\ s.ratio \in Shapes /\ s.weights \in Shapes
  BY DEF States
<1>3. ASSUME NEW kind \in FloatKinds, Floating(s), op = Operation(kind, Dialog, s.place, {})
      PROVE  Fits(s, op)
  <2>1. op.kind = kind /\ op.window = Dialog /\ op.saved = s.place /\ op.context = {}
    BY <1>3 DEF Operation
  <2>2. kind # "tile" /\ kind \notin SplitKinds
    BY DEF FloatKinds, SplitKinds
  <2> QED BY <1>1, <1>2, <1>3, <2>1, <2>2 DEF Fits, Windows
<1>4. ASSUME NEW kind \in SplitKinds, NEW saved \in Shapes,
             op = Operation(kind, NoWindow, saved, SplitContext(s))
      PROVE  Fits(s, op)
  <2>1. op.kind = kind /\ op.window = NoWindow /\ op.saved = saved
        /\ op.context = SplitContext(s)
    BY <1>4 DEF Operation
  <2>2. kind # "tile" /\ kind \notin FloatKinds
    BY DEF FloatKinds, SplitKinds
  <2> QED BY <1>1, <2>1, <2>2 DEF Fits
<1>5. ASSUME NEW w \in Slots(s), op = Operation("tile", w, NoWindow, {})
      PROVE  Fits(s, op)
  <2>1. op.kind = "tile" /\ op.window = w /\ op.saved = NoWindow /\ op.context = {}
    BY <1>5 DEF Operation
  <2>2. "tile" \notin FloatKinds /\ "tile" \notin SplitKinds
    BY DEF FloatKinds, SplitKinds
  <2> QED BY <1>1, <2>1, <2>2 DEF Fits
<1>6. op \in MasterOperations(s) => Fits(s, op)
  BY <1>2, <1>4 DEF MasterOperations, SplitKinds
<1>7. ASSUME NEW r \in BOOLEAN, op \in WindowOperations(s, r)
      PROVE  Fits(s, op)
  <2>1. CASE r = TRUE
    <3>1. \/ Floating(s) /\ op = Operation("resize", Dialog, s.place, {})
          \/ op \in MasterOperations(s)
      BY <1>7, <2>1 DEF WindowOperations
    <3> QED BY <1>3, <1>6, <3>1 DEF FloatKinds
  <2>2. CASE r = FALSE
    <3>1. \/ Floating(s) /\ op = Operation("move", Dialog, s.place, {})
          \/ \E w \in Slots(s) : op = Operation("tile", w, NoWindow, {})
      BY <1>7, <2>2 DEF WindowOperations
    <3> QED BY <1>3, <1>5, <3>1 DEF FloatKinds
  <2> QED BY <2>1, <2>2
<1>8. op \in EdgeOperations(s) => op \in WindowOperations(s, TRUE)
  BY DEF EdgeOperations
<1>9. op \in DividerOperations(s) => Fits(s, op)
  <2>1. op \in DividerOperations(s) =>
          \/ op \in MasterOperations(s)
          \/ op = Operation("stack", NoWindow, s.weights, SplitContext(s))
    BY DEF DividerOperations
  <2> QED BY <1>2, <1>4, <1>6, <2>1 DEF SplitKinds
<1> QED BY <1>7, <1>8, <1>9

\* The fields of a state that a beginning sets.
LEMMA BeginTyped ==
  ASSUME NEW s \in States, NEW W \in SUBSET Buttons, NEW P \in BOOLEAN, NEW R \in BOOLEAN,
         NEW d \in Drags, NEW B \in Buttons \cup {NoButton}
  PROVE  [s EXCEPT !.swallowed = W, !.splitDrag = P, !.resizing = R, !.drag = d,
                   !.grab = "drag", !.start = B] \in States
  BY DEF States

\* A drag that begins is of its subject, has its grab and its flags, and has moved nothing.
LEMMA InstallStarts ==
  ASSUME NEW s \in States, ~s.resizing, NEW op, Fits(s, op),
         NEW button \in Buttons \cup {NoButton}, NEW t, t = Install(s, op, button)
  PROVE  /\ t \in States /\ SameWorld(s, t) /\ SameShapes(s, t) /\ t.order = s.order
         /\ t.pressed = s.pressed /\ t.seen = s.seen /\ t.stale = s.stale
         /\ t.swallowed = s.swallowed \cup ({button} \ {NoButton})
         /\ t.grab = "drag"
         /\ t.splitDrag <=> op.kind \in SplitKinds
         /\ t.resizing <=> op.kind = "resize"
         /\ t.drag \in Drags
         /\ t.drag.kind = op.kind /\ t.drag.window = op.window /\ t.drag.saved = op.saved
         /\ t.drag.context = op.context /\ t.drag.workspace = s.active
         /\ t.drag.button = button /\ ~t.drag.moved
<1> DEFINE d == [kind |-> op.kind, window |-> op.window, saved |-> op.saved,
                 context |-> op.context, workspace |-> s.active, button |-> button,
                 moved |-> FALSE, destination |-> NoWindow]
           W == s.swallowed \cup ({button} \ {NoButton})
           P == op.kind \in SplitKinds
           R == s.resizing \/ op.kind = "resize"
           B == IF button = NoButton THEN Left ELSE button
<1>1. s.active \in Workspaces
  BY DEF States
<1>2. d \in Drags
  BY <1>1 DEF Fits, Drags
<1>3. W \in SUBSET Buttons
  BY DEF States
<1>4. P \in BOOLEAN /\ R \in BOOLEAN
  OBVIOUS
<1>5. B \in Buttons \cup {NoButton}
  BY PointerAssumption
<1>6. /\ d.kind = op.kind /\ d.window = op.window /\ d.saved = op.saved
      /\ d.context = op.context /\ d.workspace = s.active
      /\ d.button = button /\ ~d.moved
  OBVIOUS
<1>7. t = [s EXCEPT !.swallowed = W, !.splitDrag = P, !.resizing = R, !.drag = d,
                    !.grab = "drag", !.start = B]
  BY DEF Install
<1>8. (P <=> op.kind \in SplitKinds) /\ (R <=> op.kind = "resize")
  OBVIOUS
<1> HIDE DEF d, W, P, R, B
<1>9. t \in States
  <2>1. [s EXCEPT !.swallowed = W, !.splitDrag = P, !.resizing = R, !.drag = d,
                  !.grab = "drag", !.start = B] \in States
    BY <1>2, <1>3, <1>4, <1>5, BeginTyped, Zenon
  <2> QED BY <1>7, <2>1
<1>10. /\ t.swallowed = W /\ t.splitDrag = P /\ t.resizing = R /\ t.drag = d
       /\ t.grab = "drag" /\ t.order = s.order
  BY <1>4, <1>7 DEF States
<1>11. t.pressed = s.pressed /\ t.seen = s.seen /\ t.stale = s.stale
  BY <1>7 DEF States
<1>12. SameWorld(s, t)
  BY <1>7 DEF SameWorld, States
<1>13. SameShapes(s, t)
  BY <1>7 DEF SameShapes, States
<1>14. t.swallowed = s.swallowed \cup ({button} \ {NoButton})
  BY <1>10 DEF W
<1>15. (t.splitDrag <=> op.kind \in SplitKinds) /\ (t.resizing <=> op.kind = "resize")
  BY <1>8, <1>10
<1>16. /\ t.drag \in Drags
       /\ t.drag.kind = op.kind /\ t.drag.window = op.window /\ t.drag.saved = op.saved
       /\ t.drag.context = op.context /\ t.drag.workspace = s.active
       /\ t.drag.button = button /\ ~t.drag.moved
  BY <1>2, <1>6, <1>10
<1> QED BY <1>9, <1>10, <1>11, <1>12, <1>13, <1>14, <1>15, <1>16

\* A drag begun where it may be begins sound, with or without a press of its own.
LEMMA StartSound ==
  ASSUME NEW s, NEW button, Startable(s, button), NEW op, Fits(s, op),
         NEW t \in {Install(s, op, button), StartDrag(s, op, button)}
  PROVE  Sound(t)
<1> DEFINE u == Install(s, op, button)
           S == u.seen \cup ({button} \ {NoButton})
<1>1. /\ s \in States /\ button \in Buttons \cup {NoButton} /\ ~s.resizing
  BY DEF Startable
<1>2. /\ u \in States /\ SameWorld(s, u) /\ SameShapes(s, u) /\ u.order = s.order
      /\ u.pressed = s.pressed /\ u.seen = s.seen /\ u.stale = s.stale
      /\ u.swallowed = s.swallowed \cup ({button} \ {NoButton})
      /\ u.grab = "drag"
      /\ u.splitDrag <=> op.kind \in SplitKinds
      /\ u.resizing <=> op.kind = "resize"
      /\ u.drag \in Drags
      /\ u.drag.kind = op.kind /\ u.drag.window = op.window /\ u.drag.saved = op.saved
      /\ u.drag.context = op.context /\ u.drag.workspace = s.active
      /\ u.drag.button = button /\ ~u.drag.moved
  BY <1>1, InstallStarts
<1>3. Dragging(u) /\ DragButton(u) = IF button = NoButton THEN Left ELSE button
  BY <1>2, DragAssumption DEF Dragging, DragButton
<1>4. t = u \/ t = [u EXCEPT !.seen = S]
  BY DEF StartDrag
<1>5. s.pressed = {button} \ {NoButton} /\ s.seen \subseteq s.pressed
  BY DEF Startable
<1>6. S \in SUBSET Buttons /\ S = {button} \ {NoButton}
  BY <1>1, <1>2, <1>5
<1> HIDE DEF u, S
<1>7. /\ t \in States /\ t.drag = u.drag /\ t.grab = u.grab /\ t.pressed = u.pressed
      /\ t.swallowed = u.swallowed /\ t.order = u.order /\ t.place = u.place
      /\ t.seen \in {u.seen, S}
  BY <1>2, <1>4, <1>6 DEF States
<1>8. t.stale = u.stale /\ t.splitDrag = u.splitDrag /\ t.resizing = u.resizing
  BY <1>2, <1>4 DEF States
<1>9. SameWorld(s, t)
  <2>1. SameWorld(u, t)
    BY <1>2, <1>4 DEF SameWorld, States
  <2> QED BY <1>2, <2>1 DEF SameWorld
<1>10. Dragging(t) /\ DragButton(t) = DragButton(u)
  BY <1>3, <1>7 DEF Dragging, DragButton
<1>11. t.seen \subseteq {button} \ {NoButton} /\ t.pressed = {button} \ {NoButton}
       /\ t.swallowed = s.swallowed \cup ({button} \ {NoButton})
  BY <1>2, <1>5, <1>6, <1>7
<1>12. Selecting(t) = Selecting(s) /\ Intercepting(t) = Intercepting(s)
  BY <1>9 DEF SameWorld, Selecting, Intercepting
<1>13. Endable(t)
  <2>1. t.drag.kind \in FloatKinds \cup SplitKinds => t.drag.saved \in Shapes
    BY <1>2, <1>7 DEF Fits
  <2> QED BY <1>2, <1>7, <1>8, <1>10, <1>11, <2>1 DEF Endable
<1>14. Accounted(t)
  <2>1. /\ t.splitDrag <=> t.drag.kind \in SplitKinds
        /\ t.resizing <=> t.drag.kind = "resize"
    BY <1>2, <1>7, <1>8
  <2>2. t.seen \subseteq {DragButton(t)}
    BY <1>3, <1>10, <1>11
  <2>3. t.drag.button # NoButton => ~Selecting(t) /\ t.drag.button \in t.pressed
    BY <1>2, <1>7, <1>11, <1>12 DEF Startable
  <2>4. /\ t.pressed \subseteq t.held
        /\ t.pressed \cap t.intercepted = {}
        /\ Selecting(t) => t.pressed = {}
        /\ ~t.host => t.pressed = {}
    BY <1>2, <1>7, <1>9, <1>12 DEF Startable, SameWorld
  <2>5. t.pressed \ t.swallowed \subseteq t.seen
    BY <1>11
  <2>6. t.grab = "drag"
    BY <1>2, <1>7
  <2> QED BY <1>10, <1>13, <2>1, <2>2, <2>3, <2>4, <2>5, <2>6 DEF Accounted
<1>15. Grounded(t)
  <2>1. t.host /\ t.active = s.active
    BY <1>9 DEF Startable, SameWorld
  <2>2. /\ Slots(t) = Slots(s) /\ (Floating(t) <=> Floating(s))
        /\ SplitContext(t) = SplitContext(s)
    BY <1>2, <1>7, <1>9, SlotsDepend DEF SameWorld
  <2>3. Valid(t)
    BY <1>2, <1>7, <2>1, <2>2 DEF Fits, Valid
  <2>4. t.drag.kind \in FloatKinds => t.place = t.drag.saved
    BY <1>2, <1>7 DEF Fits, SameShapes
  <2> QED BY <2>1, <2>3, <2>4 DEF Grounded
<1>16. t.stale => Intercepting(t)
  BY <1>2, <1>8, <1>12 DEF Startable
<1> QED BY <1>14, <1>15, <1>16 DEF Sound

\* Where a drag may begin nobody has the pointer yet.
LEMMA CanStartRests ==
  ASSUME NEW s, Sound(s), CanStart(s)
  PROVE  /\ ~Dragging(s) /\ ~s.splitDrag /\ ~s.resizing /\ s.seen = {}
         /\ ~Selecting(s) /\ s.host
<1>1. ~Dragging(s) /\ s.grab = "none" /\ ~Selecting(s) /\ s.host
  BY DEF CanStart, Intercepting
<1> QED BY <1>1 DEF Sound, Accounted, Endable

\* A binding, a title bar or a request begins a drag or leaves everything alone.
LEMMA BeginSound ==
  ASSUME NEW s, Sound(s), NEW resize \in BOOLEAN, NEW t \in BeginStates(s, resize)
  PROVE  Sound(t) /\ (t # s => ~Dragging(s))
<1>1. s \in States
  BY DEF Sound, Accounted, Endable
<1>2. CASE t = s
  BY <1>2
<1>3. CASE t # s
  <2>1. CanStart(s)
    BY <1>3 DEF BeginStates
  <2>2. PICK op \in WindowOperations(s, resize) : t = StartDrag(s, op, SolePressed(s))
    BY <1>3, <2>1 DEF BeginStates
  <2> DEFINE button == SolePressed(s)
  <2>3. button \in Buttons \cup {NoButton} /\ s.pressed = {button} \ {NoButton}
    <3>1. s.pressed \subseteq Buttons
      BY <1>1 DEF States
    <3>2. CASE s.pressed = {}
      BY <3>2 DEF SolePressed
    <3>3. CASE s.pressed # {}
      <4>1. button \in s.pressed
        BY <3>3 DEF SolePressed
      <4>2. \A b \in s.pressed : b = button
        BY <2>1, <4>1 DEF CanStart
      <4> QED BY <3>1, <4>1, <4>2, PointerAssumption
    <3> QED BY <3>2, <3>3
  <2> HIDE DEF button
  <2>4. ~Dragging(s) /\ s.seen = {} /\ ~s.splitDrag /\ ~s.resizing
        /\ ~Selecting(s) /\ s.host
    BY <2>1, CanStartRests
  <2>5. Startable(s, button)
    BY <1>1, <2>3, <2>4 DEF Startable, Sound, Accounted
  <2>6. Fits(s, op)
    BY <1>1, <2>2, OperationsFit
  <2>7. t = StartDrag(s, op, button)
    BY <2>2 DEF button
  <2>8. Sound(t)
    BY <2>5, <2>6, <2>7, StartSound
  <2> QED BY <2>4, <2>8
<1> QED BY <1>2, <1>3

\* A switch of workspace ends a drag.
LEMMA SwitchEnds ==
  ASSUME NEW s, Sound(s), NEW i \in Workspaces, NEW t \in SwitchStates(s, i)
  PROVE  /\ Sound(t) /\ t.away = s.away /\ t.dialog = s.dialog
         /\ Dragging(s) => Restored(s, t)
<1>1. PICK v \in {s, ReleaseButtons(s)} :
        t \in RelayoutStates([v EXCEPT !.active = i]) /\ (s.grab # "click" => v = ReleaseButtons(s))
  BY DEF SwitchStates
<1> DEFINE u == [v EXCEPT !.active = i]
<1>2. Endable(s) /\ Accounted(s) /\ s \in States
  BY DEF Sound, Accounted, Endable
<1>3. /\ Accounted(v) /\ v \in States /\ SameWorld(s, v)
      /\ Dragging(s) => Restored(s, v) /\ ~Dragging(v)
  <2>1. CASE v = s /\ ~Dragging(s)
    BY <1>2, <2>1 DEF SameWorld
  <2>2. CASE v = ReleaseButtons(s)
    <3>1. Quiet(v) /\ SameWorld(s, v) /\ Restored(s, v)
      BY <1>2, <2>2, ReleaseEnds
    <3> QED BY <3>1, QuietAccounted DEF Quiet
  <2>3. Dragging(s) => s.grab # "click"
    BY <1>2 DEF Accounted
  <2> QED BY <1>1, <2>1, <2>2, <2>3
<1>4. u \in States /\ SameInput(v, u)
  BY <1>3 DEF States, SameInput, SameButtons
<1>5. SameShapes(v, u) /\ u.order = v.order /\ u.away = v.away /\ u.dialog = v.dialog
  BY <1>3 DEF States, SameShapes
<1>6. t \in RelayoutStates(u)
  BY <1>1
<1> HIDE DEF u
<1>7. Sound(t) /\ ~Dragging(t) /\ SameWorld(u, t) /\ Restored(u, t)
  BY <1>3, <1>4, <1>6, ChangedRelayout
<1>8. t.away = s.away /\ t.dialog = s.dialog
  BY <1>3, <1>5, <1>7 DEF SameWorld
<1>9. Dragging(s) => Restored(s, t)
  <2> SUFFICES ASSUME Dragging(s) PROVE Restored(s, t)
    OBVIOUS
  <2>1. Restored(s, v) /\ ~Dragging(v)
    BY <1>3
  <2>2. ~Dragging(u)
    BY <1>4, <2>1 DEF Dragging, SameInput
  <2>3. SameShapes(u, t) /\ t.order = u.order
    BY <1>7, <2>2 DEF Restored
  <2>4. SameShapes(v, t) /\ t.order = v.order
    BY <1>5, <2>3 DEF SameShapes
  <2> QED BY <2>1, <2>4, RestoredStays
<1> QED BY <1>7, <1>8, <1>9

-----------------------------------------------------------------------------
(* What a drag that is over leaves behind                                  *)

\* The drag of s ended in t without being committed.
Traceless(s, t) ==
  LET d == s.drag
      stayed == {w \in Windows : Tiled(s, w) /\ Tiled(t, w)}
  IN Dragging(s) /\ ~Dragging(t) =>
       /\ d.kind \in FloatKinds /\ t.dialog # "away" => t.place = d.saved
       /\ d.kind = "master" => t.ratio = d.saved \/ t \in ResizeStates(s)
       /\ d.kind = "stack" => t.weights = d.saved
       /\ Among(s.order, stayed) = Among(t.order, stayed)

\* ... or by a release or Return, which commit it: what has not moved has not moved.
Untouched(s, t) ==
  Dragging(s) /\ ~Dragging(t) /\ s.drag.kind \in FloatKinds /\ ~s.drag.moved /\ ~s.stale
    => t.place = s.drag.saved

\* What is put back leaves no trace: a drag that may go on can be put back.
LEMMA RestoredTraceless ==
  ASSUME NEW s, Sound(s), NEW t, Restored(s, t)
  PROVE  Traceless(s, t)
<1>1. Dragging(s) =>
        /\ s.drag.workspace = s.active
        /\ s.drag.kind \in FloatKinds => Floating(s)
  BY DEF Sound, Grounded, Valid
<1> QED BY <1>1 DEF Restored, Traceless

\* Another ratio, by a binding or a request, ends a drag before it is set.
LEMMA ResizeEnds ==
  ASSUME NEW s, Sound(s), NEW t \in ResizeStates(s)
  PROVE  Sound(t) /\ Traceless(s, t)
<1>1. CASE t = s
  BY <1>1 DEF Traceless
<1>2. CASE t # s
  <2>1. PICK shape \in Shapes : t \in RefreshStates([ReleaseButtons(s) EXCEPT !.ratio = shape])
    BY <1>2 DEF ResizeStates
  <2> DEFINE v == ReleaseButtons(s)
             u == [v EXCEPT !.ratio = shape]
  <2>2. Quiet(v) /\ SameWorld(s, v) /\ Restored(s, v)
    BY ReleaseEnds DEF Sound, Accounted
  <2> HIDE DEF v
  <2>3. Quiet(u) /\ u.order = v.order /\ u.place = v.place /\ u.weights = v.weights
    BY <2>2 DEF Quiet, States
  <2>4. t \in RefreshStates(u)
    BY <2>1 DEF v
  <2> HIDE DEF u
  <2>5. Sound(t) /\ SameShapes(u, t) /\ t.order = u.order
    BY <2>3, <2>4, QuietRefresh
  <2>6. Dragging(s) =>
          /\ s.drag.workspace = s.active
          /\ s.drag.kind \in FloatKinds => Floating(s)
    BY DEF Sound, Grounded, Valid
  <2>7. Traceless(s, t)
    BY <2>2, <2>3, <2>5, <2>6 DEF Restored, SameShapes, Traceless
  <2> QED BY <2>5, <2>7
<1> QED BY <1>1, <1>2

\* What a binding or a request dispatches.
LEMMA DispatchEnds ==
  ASSUME NEW s, Sound(s), NEW t \in DispatchStates(s)
  PROVE  Sound(t) /\ Traceless(s, t)
<1>1. ASSUME NEW resize \in BOOLEAN, t \in BeginStates(s, resize)
      PROVE  Sound(t) /\ Traceless(s, t)
  <2>1. Sound(t) /\ (t # s => ~Dragging(s))
    BY <1>1, BeginSound
  <2> QED BY <2>1 DEF Traceless
<1>2. ASSUME NEW i \in Workspaces, t \in SwitchStates(s, i)
      PROVE  Sound(t) /\ Traceless(s, t)
  <2>1. Sound(t) /\ (Dragging(s) => Restored(s, t))
    BY <1>2, SwitchEnds
  <2>2. ~Dragging(s) => Traceless(s, t)
    BY DEF Traceless
  <2> QED BY <2>1, <2>2, RestoredTraceless
<1>3. \/ t \in BeginStates(s, TRUE) \/ t \in BeginStates(s, FALSE) \/ t \in ResizeStates(s)
      \/ \E i \in Workspaces : t \in SwitchStates(s, i)
  BY DEF DispatchStates
<1>4. CASE t \in BeginStates(s, TRUE)
  BY <1>1, <1>4
<1>5. CASE t \in BeginStates(s, FALSE)
  BY <1>1, <1>5
<1> QED BY <1>2, <1>3, <1>4, <1>5, ResizeEnds

\* A window that goes, or that changes, does so without the buttons.
LEMMA WindowsChange ==
  ASSUME NEW s \in States, NEW w \in Windows,
         NEW d \in {"floating", "tiled", "covering", "away"},
         NEW t \in {Away(s, w), Dialogs(s, d)}
  PROVE  /\ t \in States /\ SameInput(s, t) /\ SameShapes(s, t)
         /\ t.order = s.order /\ t.active = s.active /\ t.backend = s.backend /\ t.stale = s.stale
<1>1. ASSUME NEW e \in {"floating", "tiled", "covering", "away"}, NEW u, u = [s EXCEPT !.dialog = e]
      PROVE  /\ u \in States /\ SameInput(s, u) /\ SameShapes(s, u)
             /\ u.order = s.order /\ u.active = s.active /\ u.backend = s.backend
             /\ u.stale = s.stale
  <2>1. u \in States /\ u.order = s.order /\ u.active = s.active /\ u.backend = s.backend
        /\ u.stale = s.stale
    BY <1>1 DEF States
  <2>2. SameInput(s, u)
    BY <1>1 DEF States, SameInput, SameButtons
  <2>3. SameShapes(s, u)
    BY <1>1 DEF States, SameShapes
  <2> QED BY <2>1, <2>2, <2>3
<1>2. CASE t = Dialogs(s, d)
  BY <1>1, <1>2 DEF Dialogs
<1>3. CASE t = Away(s, w) /\ w = Dialog
  BY <1>1, <1>3 DEF Away, Dialogs
<1>4. CASE t = Away(s, w) /\ w # Dialog
  <2>1. t = [s EXCEPT !.away = s.away \cup {w}] /\ w \in Tiles
    BY <1>4 DEF Away, Windows
  <2>2. t \in States /\ t.order = s.order /\ t.active = s.active /\ t.backend = s.backend
        /\ t.stale = s.stale
    BY <2>1 DEF States
  <2>3. SameInput(s, t)
    BY <2>1 DEF States, SameInput, SameButtons
  <2>4. SameShapes(s, t)
    BY <2>1 DEF States, SameShapes
  <2> QED BY <2>2, <2>3, <2>4
<1> QED BY <1>2, <1>3, <1>4

\* A control of the title bar.
LEMMA ControlSound ==
  ASSUME NEW s, Sound(s), NEW t \in ControlStates(s)
  PROVE  Sound(t)
<1>1. s \in States /\ Accounted(s) /\ Endable(s)
  BY DEF Sound, Accounted, Endable
<1>2. ASSUME NEW w \in Windows, t \in RelayoutStates(Away(s, w))
      PROVE  Sound(t)
  <2> DEFINE u == Away(s, w)
  <2>1. u \in States /\ SameInput(s, u)
    BY <1>1, WindowsChange
  <2> QED BY <1>1, <1>2, <2>1, ChangedRelayout
<1>3. ASSUME NEW d \in {"covering", "floating", "tiled"},
             t \in RelayoutStates(Dialogs(ReleaseButtons(s), d))
      PROVE  Sound(t)
  <2> DEFINE v == ReleaseButtons(s)
             u == Dialogs(v, d)
  <2>1. Quiet(v)
    BY <1>1, ReleaseEnds
  <2>2. Accounted(v) /\ v \in States
    BY <2>1, QuietAccounted DEF Quiet
  <2> HIDE DEF v
  <2>3. u \in States /\ SameInput(v, u)
    BY <2>2, WindowsChange DEF Windows
  <2>4. t \in RelayoutStates(u)
    BY <1>3 DEF v
  <2> QED BY <2>2, <2>3, <2>4, ChangedRelayout
<1>4. Slots(s) \cup {Dialog} \subseteq Windows
  BY <1>1, ContextTyped DEF Windows
<1>5. PICK u \in Controls(s) : t \in RelayoutStates(u)
  BY DEF ControlStates
<1>6. \/ \E w \in Slots(s) \cup {Dialog} : u = Away(s, w)
      \/ \E d \in {"covering", "floating", "tiled"} : u = Dialogs(ReleaseButtons(s), d)
  BY DEF Controls
<1> QED BY <1>2, <1>3, <1>4, <1>5, <1>6

-----------------------------------------------------------------------------
(* Presses and the screenshot selection                                    *)

\* The hand and the selection may change as they like, as long as they leave the buttons
\* that somebody has alone.
LEMMA HandsDepend ==
  ASSUME NEW s, Accounted(s), Grounded(s), NEW t \in States, SameScene(s, t),
         t.pressed \subseteq t.held, t.pressed \cap t.intercepted = {},
         Selecting(t) => t.pressed = {}
  PROVE  Accounted(t) /\ Grounded(t) /\ (Dragging(t) <=> Dragging(s))
<1>1. (Dragging(t) <=> Dragging(s)) /\ DragButton(t) = DragButton(s)
  BY DEF SameScene, Dragging, DragButton
<1>2. Endable(t)
  BY <1>1 DEF Accounted, Endable, SameScene, SameButtons
<1>3. Dragging(s) =>
        /\ t.splitDrag <=> t.drag.kind \in SplitKinds
        /\ t.resizing <=> t.drag.kind = "resize"
        /\ t.seen \subseteq {DragButton(t)}
        /\ t.drag.button # NoButton => t.drag.button \in t.pressed
  BY <1>1 DEF Accounted, SameScene, SameButtons
<1>4. Dragging(s) /\ t.drag.button # NoButton => ~Selecting(t)
  BY <1>3
<1>5. Accounted(t)
  BY <1>1, <1>2, <1>3, <1>4 DEF Accounted, SameScene, SameButtons
<1>6. Dragging(s) => Valid(t)
  <2>1. Dragging(s) => Valid(s)
    BY DEF Grounded
  <2> QED BY <2>1, ValidDepends DEF SameScene
<1>7. Grounded(t)
  BY <1>1, <1>6 DEF Grounded, SameScene, SameShapes
<1> QED BY <1>1, <1>5, <1>7

\* A step of which the drag and the focus of the pointer come out as they were.
LEMMA HandsSound ==
  ASSUME NEW s, Sound(s), NEW t \in States, SameScene(s, t),
         t.pressed \subseteq t.held, t.pressed \cap t.intercepted = {},
         Selecting(t) => t.pressed = {}, t.stale => Intercepting(t)
  PROVE  Sound(t) /\ Traceless(s, t)
  BY HandsDepend DEF Sound, Traceless

\* A selection takes the pointer where it is.
LEMMA SelectionBeginStep ==
  ASSUME Sound(seat), SelectionBegin
  PROVE  Sound(seat') /\ Traceless(seat, seat')
<1> DEFINE t == [seat EXCEPT !.selection = "waiting"]
<1>1. seat' = t /\ seat.pressed = {} /\ seat \in States
  BY DEF SelectionBegin, Sound, Accounted, Endable
<1>2. t \in States /\ t.held = seat.held /\ t.pressed = {} /\ t.selection = "waiting"
  BY <1>1 DEF States
<1>3. SameScene(seat, t)
  BY <1>1 DEF SameScene, SameButtons, SameShapes, States
<1>4. Selecting(t) /\ Intercepting(t)
  BY <1>2 DEF Selecting, Intercepting
<1> HIDE DEF t
<1> QED BY <1>1, <1>2, <1>3, <1>4, HandsSound

\* A press that the screenshot takes is down for nobody else.
LEMMA PressTakenBySelectionStep ==
  ASSUME Sound(seat), NEW b \in Buttons, PressTakenBySelection(b)
  PROVE  Sound(seat') /\ Traceless(seat, seat')
<1> DEFINE H == seat.held \cup {b}
           I == seat.intercepted \cup {b}
           X == IF b = Left /\ Selecting(seat) THEN "dragging" ELSE seat.selection
           t == [seat EXCEPT !.held = H, !.intercepted = I, !.selection = X]
<1>1. seat \in States /\ b \notin seat.held
  BY DEF PressTakenBySelection, Sound, Accounted, Endable
<1>2. seat' = t
  <2>1. Selecting([seat EXCEPT !.held = @ \cup {b}]) = Selecting(seat)
    BY <1>1 DEF Selecting, States
  <2> QED BY <1>1, <2>1 DEF PressTakenBySelection, ScreenshotPress, States
<1>3. H \in SUBSET Buttons /\ I \in SUBSET Buttons /\ X \in {"none", "waiting", "dragging"}
  BY <1>1 DEF States
<1>4. (X # "none") = Selecting(seat) /\ I # {}
  BY DEF Selecting
<1>5. seat.pressed \subseteq H /\ seat.pressed \cap I = {}
  BY <1>1 DEF Sound, Accounted
<1> HIDE DEF H, I, X
<1>6. t \in States /\ t.held = H /\ t.intercepted = I /\ t.selection = X
      /\ t.pressed = seat.pressed
  BY <1>1, <1>3 DEF States
<1>7. SameScene(seat, t)
  BY <1>1, <1>3 DEF SameScene, SameButtons, SameShapes, States
<1> HIDE DEF t
<1>8. Intercepting(t) /\ (Selecting(t) => t.pressed = {})
  BY <1>4, <1>6 DEF Selecting, Intercepting, Sound, Accounted
<1> QED BY <1>2, <1>5, <1>6, <1>7, <1>8, HandsSound

\* A press that is swallowed is nobody's but the compositor's.
LEMMA SwallowSound ==
  ASSUME Sound(seat), NEW b \in Buttons, Pressing(b), Dragging(seat) => DragButton(seat) # b,
         NEW t, t = Swallow(Entered(seat, b), b)
  PROVE  Sound(t) /\ (Dragging(t) <=> Dragging(seat))
<1> DEFINE s == seat
<1>1. s \in States /\ b \notin s.held /\ s.host /\ ~Selecting(s) /\ b \notin s.intercepted
  BY DEF Pressing, TakenBySelection, Sound, Accounted, Endable
<1>2. /\ t \in States
      /\ t.held = s.held \cup {b} /\ t.pressed = s.pressed \cup {b}
      /\ t.swallowed = s.swallowed \cup {b}
      /\ t.drag = s.drag /\ t.grab = s.grab /\ t.seen = s.seen /\ t.intercepted = s.intercepted
      /\ t.order = s.order
  BY <1>1 DEF Swallow, Entered, States
<1>3. /\ t.splitDrag = s.splitDrag /\ t.resizing = s.resizing /\ t.stale = s.stale
      /\ t.host = s.host /\ t.selection = s.selection
  BY <1>1 DEF Swallow, Entered, States
<1>4. /\ t.active = s.active /\ t.away = s.away /\ t.dialog = s.dialog /\ t.place = s.place
  BY <1>1 DEF Swallow, Entered, States
<1>5. /\ Dragging(t) <=> Dragging(s)
      /\ DragButton(t) = DragButton(s) /\ Selecting(t) = Selecting(s)
      /\ Intercepting(t) = Intercepting(s)
  BY <1>2, <1>3 DEF Dragging, DragButton, Selecting, Intercepting
<1>6. Endable(t)
  BY <1>2, <1>3, <1>5 DEF Sound, Accounted, Endable
<1>7. Dragging(s) =>
        /\ t.splitDrag <=> t.drag.kind \in SplitKinds
        /\ t.resizing <=> t.drag.kind = "resize"
        /\ t.seen \subseteq {DragButton(t)}
        /\ t.drag.button # NoButton => ~Selecting(t) /\ t.drag.button \in t.pressed
  BY <1>1, <1>2, <1>3, <1>5 DEF Sound, Accounted
<1>8. /\ t.pressed \subseteq t.held /\ t.pressed \cap t.intercepted = {}
      /\ t.pressed \ t.swallowed \subseteq t.seen
  BY <1>1, <1>2 DEF Sound, Accounted
<1>9. ~Dragging(s) => t.seen \cap t.swallowed = {}
  <2>1. b \notin s.seen
    BY <1>1 DEF Sound, Accounted, Endable
  <2> QED BY <1>2, <2>1 DEF Sound, Accounted
<1>10. Accounted(t)
  BY <1>1, <1>2, <1>3, <1>5, <1>6, <1>7, <1>8, <1>9 DEF Sound, Accounted
<1>11. Dragging(s) => Valid(t)
  <2>1. Dragging(s) => Valid(s)
    BY DEF Sound, Grounded
  <2> QED BY <1>2, <1>4, <2>1, ValidDepends
<1>12. Grounded(t)
  BY <1>1, <1>2, <1>3, <1>4, <1>5, <1>11 DEF Sound, Grounded
<1>13. t.stale => Intercepting(t)
  BY <1>3, <1>5 DEF Sound
<1> QED BY <1>5, <1>10, <1>12, <1>13 DEF Sound

\* A second button during a drag is swallowed, and the drag goes on.
LEMMA PressTakenByDragStep ==
  ASSUME Sound(seat), NEW b \in Buttons, PressTakenByDrag(b)
  PROVE  Sound(seat') /\ Traceless(seat, seat')
  BY SwallowSound DEF PressTakenByDrag, TakenByDrag, Traceless

\* Where the press may begin a drag there is none, and the press is the only one.
LEMMA EnteredRests ==
  ASSUME Sound(seat), NEW b \in Buttons, Pressing(b), CanStart(Entered(seat, b))
  PROVE  /\ ~Dragging(seat)
         /\ Startable(Entered(seat, b), b)
<1> DEFINE s == seat
           t == Entered(s, b)
<1>1. s \in States /\ b \notin s.held /\ Accounted(s)
  BY DEF Pressing, Sound, Accounted, Endable
<1>2. /\ t \in States
      /\ t.held = s.held \cup {b} /\ t.pressed = s.pressed \cup {b}
      /\ t.drag = s.drag /\ t.grab = s.grab /\ t.seen = s.seen /\ t.intercepted = s.intercepted
  BY <1>1 DEF Entered, States
<1>3. /\ t.splitDrag = s.splitDrag /\ t.resizing = s.resizing /\ t.stale = s.stale
      /\ t.host = s.host /\ t.selection = s.selection
  BY <1>1 DEF Entered, States
<1>4. CanStart(t)
  OBVIOUS
<1> HIDE DEF t
<1>5. /\ ~Dragging(t) /\ ~Intercepting(t) /\ t.host /\ t.grab = "none"
      /\ \A c, e \in t.pressed : c = e
  BY <1>4 DEF CanStart
<1>6. ~Dragging(s) /\ s.grab = "none" /\ ~Intercepting(s)
  BY <1>2, <1>3, <1>5 DEF Dragging, Intercepting, Selecting
<1>7. ~s.splitDrag /\ ~s.resizing /\ s.seen = {} /\ ~s.stale
  BY <1>6 DEF Sound, Accounted, Endable
<1>8. t.pressed = {b} /\ b # NoButton
  BY <1>2, <1>5, PointerAssumption
<1>9. t.intercepted = {} /\ ~Selecting(t)
  BY <1>5 DEF Intercepting
<1>10. Startable(t, b)
  BY <1>2, <1>3, <1>5, <1>7, <1>8, <1>9 DEF Startable
<1> QED BY <1>6, <1>10 DEF t

\* A mouse binding works only where a drag may begin, so it ends none.
LEMMA PressOnBindingStep ==
  ASSUME Sound(seat), NEW b \in Buttons, PressOnBinding(b)
  PROVE  Sound(seat') /\ Traceless(seat, seat')
<1>1. Pressing(b) /\ ~Dragging(seat)
  BY EnteredRests DEF PressOnBinding
<1>2. Sound(Swallow(Entered(seat, b), b))
  BY <1>1, SwallowSound
<1>3. Sound(seat')
  BY <1>2, DispatchEnds DEF PressOnBinding
<1> QED BY <1>1, <1>3 DEF Traceless

\* The title bar begins a drag or works a control, its press swallowed.
LEMMA PressOnTitlebarStep ==
  ASSUME Sound(seat), PressOnTitlebar
  PROVE  Sound(seat') /\ Traceless(seat, seat')
<1> DEFINE s == Swallow(Entered(seat, Left), Left)
<1>1. Pressing(Left) /\ ~Dragging(seat) /\ Left \in Buttons
  BY EnteredRests, PointerAssumption DEF PressOnTitlebar
<1>2. Sound(s)
  BY <1>1, SwallowSound
<1>3. seat' \in BeginStates(s, FALSE) \/ seat' \in ControlStates(s)
  BY DEF PressOnTitlebar
<1> HIDE DEF s
<1>4. Sound(seat')
  BY <1>2, <1>3, BeginSound, ControlSound
<1> QED BY <1>1, <1>4 DEF Traceless

\* An edge or a divider begins a drag that its press holds.
LEMMA PressOnEdgeStep ==
  ASSUME Sound(seat), PressOnEdge
  PROVE  Sound(seat') /\ Traceless(seat, seat')
<1> DEFINE t == Entered(seat, Left)
<1>1. PICK op \in EdgeOperations(seat) \cup DividerOperations(seat) :
        seat' = StartDrag(t, op, Left)
  BY DEF PressOnEdge
<1>2. seat \in States /\ Left \in Buttons
  BY PointerAssumption DEF Sound, Accounted, Endable
<1>3. ~Dragging(seat) /\ Startable(t, Left)
  BY <1>2, EnteredRests DEF PressOnEdge
<1>4. Fits(seat, op)
  BY <1>1, <1>2, OperationsFit
<1>5. /\ t.active = seat.active /\ t.away = seat.away /\ t.dialog = seat.dialog
      /\ t.order = seat.order /\ t.place = seat.place
  BY <1>2 DEF Entered, States
<1> HIDE DEF t
<1>6. /\ Slots(t) = Slots(seat) /\ (Floating(t) <=> Floating(seat))
      /\ SplitContext(t) = SplitContext(seat)
  BY <1>5, SlotsDepend
<1>7. Fits(t, op)
  BY <1>4, <1>5, <1>6 DEF Fits
<1>8. Sound(seat')
  BY <1>1, <1>3, <1>7, StartSound
<1> QED BY <1>3, <1>8 DEF Traceless

\* A press that the seat is shown: our grab swallows it, or it begins or joins a click.
LEMMA PressThroughStep ==
  ASSUME Sound(seat), NEW b \in Buttons, PressThrough(b)
  PROVE  Sound(seat') /\ Traceless(seat, seat')
<1> DEFINE s == seat
           u == Entered(s, b)
           t == seat'
<1>1. s \in States /\ b \notin s.held /\ s.host /\ ~Selecting(s) /\ b \notin s.intercepted
      /\ Accounted(s)
  BY DEF PressThrough, Pressing, TakenBySelection, Sound, Accounted, Endable
<1>2. /\ u \in States
      /\ u.held = s.held \cup {b} /\ u.pressed = s.pressed \cup {b}
      /\ u.swallowed = s.swallowed \ {b}
      /\ u.drag = s.drag /\ u.grab = s.grab /\ u.seen = s.seen /\ u.intercepted = s.intercepted
      /\ u.order = s.order
  BY <1>1 DEF Entered, States
<1>3. /\ u.splitDrag = s.splitDrag /\ u.resizing = s.resizing
      /\ u.host = s.host /\ u.selection = s.selection
  BY <1>1 DEF Entered, States
<1>4. /\ u.active = s.active /\ u.away = s.away /\ u.dialog = s.dialog /\ u.place = s.place
  BY <1>1 DEF Entered, States
<1>5. PICK v \in RefreshStates(u) :
        t = IF v.grab = "drag" THEN [Swallow(v, b) EXCEPT !.seen = @ \cup {b}]
            ELSE [v EXCEPT !.seen = @ \cup {b}, !.grab = "click",
                           !.start = IF v.grab = "none" THEN b ELSE @]
  BY DEF PressThrough
<1> HIDE DEF u
<1>6. (Dragging(u) <=> Dragging(s)) /\ DragButton(u) = DragButton(s)
  BY <1>2 DEF Dragging, DragButton
<1>7. Dragging(u) <=> u.grab = "drag"
  BY <1>1, <1>2, <1>6 DEF Accounted
<1>8. Grounded(u)
  <2>1. Dragging(s) => Valid(u)
    <3>1. Dragging(s) => Valid(s)
      BY DEF Sound, Grounded
    <3> QED BY <1>2, <1>4, <3>1, ValidDepends
  <2> QED BY <1>2, <1>3, <1>4, <1>6, <2>1 DEF Sound, Grounded
<1>9. Moved(u, v)
  BY <1>2, <1>5, <1>7, <1>8, RefreshMoves DEF Grounded
<1>10. Grounded(v) /\ (Dragging(v) <=> Dragging(s)) /\ DragButton(v) = DragButton(s)
  BY <1>6, <1>7, <1>8, <1>9, MovedGrounded
<1>11. v \in States /\ ~v.stale /\ SameWorld(u, v) /\ SameButtons(u, v)
  BY <1>9 DEF Moved
<1>12. /\ v.pressed = s.pressed \cup {b} /\ v.swallowed = s.swallowed \ {b} /\ v.seen = s.seen
       /\ v.grab = s.grab /\ v.splitDrag = s.splitDrag /\ v.resizing = s.resizing
  BY <1>2, <1>3, <1>11 DEF SameButtons
<1>13. /\ v.held = s.held \cup {b} /\ v.intercepted = s.intercepted /\ v.selection = s.selection
       /\ v.host
  BY <1>1, <1>2, <1>3, <1>11 DEF SameWorld
<1>14. CASE Dragging(s)
  <2>1. v.grab = "drag" /\ Dragging(v)
    BY <1>1, <1>10, <1>12, <1>14 DEF Accounted
  <2>2. DragButton(s) = b
    BY <1>14 DEF PressThrough, TakenByDrag
  <2>3. s.drag.button = NoButton
    <3>1. s.drag.button # NoButton => s.drag.button \in s.pressed
      BY <1>1, <1>14 DEF Accounted
    <3>2. b \notin s.pressed
      BY <1>1 DEF Accounted
    <3> QED BY <2>2, <3>1, <3>2 DEF DragButton
  <2>4. SameDrag(s.drag, v.drag)
    BY <1>2, <1>9, <1>12, <2>1 DEF Moved
  <2> DEFINE W == v.swallowed \cup {b}
             S == v.seen \cup {b}
  <2>5. t = [v EXCEPT !.swallowed = W, !.seen = S]
    BY <1>5, <1>11, <2>1 DEF Swallow, States
  <2>6. W \in SUBSET Buttons /\ S \in SUBSET Buttons
    BY <1>11 DEF States
  <2>7. W = s.swallowed \cup {b} /\ S = s.seen \cup {b}
    BY <1>12
  <2> HIDE DEF W, S
  <2>8. /\ t \in States /\ t.swallowed = W /\ t.seen = S /\ t.pressed = v.pressed
        /\ t.drag = v.drag /\ t.grab = v.grab /\ t.held = v.held /\ t.order = v.order
        /\ t.intercepted = v.intercepted
    BY <1>11, <2>5, <2>6 DEF States
  <2>9. /\ t.splitDrag = v.splitDrag /\ t.resizing = v.resizing /\ t.stale = v.stale
        /\ t.host = v.host /\ t.selection = v.selection /\ t.place = v.place
    BY <1>11, <2>5 DEF States
  <2>10. t.active = v.active /\ t.away = v.away /\ t.dialog = v.dialog
    BY <1>11, <2>5 DEF States
  <2>11. Dragging(t) /\ DragButton(t) = b /\ ~Selecting(t)
    BY <1>1, <1>10, <1>13, <2>1, <2>2, <2>8, <2>9 DEF Dragging, DragButton, Selecting
  <2>12. /\ s.splitDrag <=> s.drag.kind \in SplitKinds
         /\ s.resizing <=> s.drag.kind = "resize"
         /\ s.seen \subseteq {b}
         /\ s.drag.kind \in FloatKinds \cup SplitKinds => s.drag.saved \in Shapes
    BY <1>1, <1>14, <2>2 DEF Accounted, Endable
  <2>13. /\ t.splitDrag <=> t.drag.kind \in SplitKinds
         /\ t.resizing <=> t.drag.kind = "resize"
         /\ t.drag.kind \in FloatKinds \cup SplitKinds => t.drag.saved \in Shapes
         /\ t.drag.button = NoButton
    BY <1>12, <2>3, <2>4, <2>8, <2>9, <2>12 DEF SameDrag
  <2>14. /\ t.seen \subseteq {b} /\ t.seen \subseteq t.pressed
         /\ t.pressed \subseteq t.held /\ t.pressed \cap t.intercepted = {}
         /\ t.pressed \ t.swallowed \subseteq t.seen
    BY <1>1, <1>12, <1>13, <2>7, <2>8, <2>12 DEF Accounted, Endable
  <2>15. Endable(t)
    BY <2>8, <2>11, <2>13, <2>14 DEF Endable
  <2>16. Accounted(t)
    BY <1>13, <2>1, <2>8, <2>9, <2>11, <2>13, <2>14, <2>15 DEF Accounted
  <2>17. Grounded(t)
    <3>1. Valid(v)
      BY <1>10, <2>1 DEF Grounded
    <3>2. Valid(t)
      BY <2>8, <2>10, <3>1, ValidDepends
    <3> QED BY <1>10, <1>13, <2>1, <2>8, <2>9, <3>2 DEF Grounded
  <2>18. ~t.stale
    BY <1>11, <2>9
  <2> QED BY <2>11, <2>16, <2>17, <2>18 DEF Sound, Traceless
<1>15. CASE ~Dragging(s)
  <2>1. v.grab # "drag" /\ ~Dragging(v)
    BY <1>1, <1>10, <1>12, <1>15 DEF Accounted
  <2> DEFINE S == v.seen \cup {b}
             B == IF v.grab = "none" THEN b ELSE v.start
  <2>2. t = [v EXCEPT !.seen = S, !.grab = "click", !.start = B]
    BY <1>5, <1>11, <2>1 DEF States
  <2>3. S \in SUBSET Buttons /\ B \in Buttons \cup {NoButton}
    BY <1>11 DEF States
  <2>4. S = s.seen \cup {b}
    BY <1>12
  <2> HIDE DEF S, B
  <2>5. /\ t \in States /\ t.swallowed = v.swallowed /\ t.seen = S /\ t.pressed = v.pressed
        /\ t.drag = v.drag /\ t.grab = "click" /\ t.held = v.held
        /\ t.intercepted = v.intercepted
    BY <1>11, <2>2, <2>3 DEF States
  <2>6. /\ t.splitDrag = v.splitDrag /\ t.resizing = v.resizing /\ t.stale = v.stale
        /\ t.host = v.host /\ t.selection = v.selection
    BY <1>11, <2>2 DEF States
  <2>7. ~Dragging(t) /\ ~Selecting(t)
    BY <1>1, <1>13, <2>1, <2>5, <2>6 DEF Dragging, Selecting
  <2>8. /\ t.seen \subseteq t.pressed /\ t.seen # {}
        /\ t.pressed \subseteq t.held /\ t.pressed \cap t.intercepted = {}
        /\ t.pressed \ t.swallowed \subseteq t.seen
        /\ t.seen \cap t.swallowed = {}
    BY <1>1, <1>12, <1>13, <1>15, <2>4, <2>5 DEF Accounted, Endable
  <2>9. ~t.splitDrag /\ ~t.resizing
    BY <1>1, <1>12, <1>15, <2>6 DEF Accounted, Endable
  <2>10. Accounted(t)
    BY <1>13, <2>5, <2>6, <2>7, <2>8, <2>9 DEF Accounted, Endable
  <2>11. ~t.stale
    BY <1>11, <2>6
  <2> QED BY <1>15, <2>7, <2>10, <2>11 DEF Sound, Grounded, Traceless
<1> QED BY <1>14, <1>15

-----------------------------------------------------------------------------
(* Releases                                                                *)

\* A state between two that HandsDepend compares, with its focus where the pointer is or
\* about to be refreshed.
LEMMA HandsRefresh ==
  ASSUME NEW s, Sound(s), NEW u \in States, SameScene(s, u), u.stale = s.stale,
         u.pressed \subseteq u.held, u.pressed \cap u.intercepted = {},
         Selecting(u) => u.pressed = {},
         NEW t, t \in RefreshStates(u) \/ (t = u /\ Intercepting(u))
  PROVE  Sound(t) /\ (Dragging(t) <=> Dragging(s))
<1>1. Accounted(u) /\ Grounded(u) /\ (Dragging(u) <=> Dragging(s))
  BY HandsDepend DEF Sound
<1>2. CASE t \in RefreshStates(u)
  <2>1. Sound(t) /\ Moved(u, t)
    BY <1>1, <1>2, RefreshSound
  <2> QED BY <1>1, <2>1, MovedDrags DEF Accounted
<1>3. CASE t = u /\ Intercepting(u)
  BY <1>1, <1>3 DEF Sound
<1> QED BY <1>2, <1>3

\* A release the screenshot takes shows the pointer where it is when it was the last.
LEMMA SelectionReleaseStep ==
  ASSUME Sound(seat), NEW b \in seat.held, NEW s, s = [seat EXCEPT !.held = @ \ {b}],
         TakenBySelection(s, b), NEW t \in ScreenshotRelease(s, b)
  PROVE  Sound(t) /\ (Dragging(t) <=> Dragging(seat))
<1> DEFINE H == seat.held \ {b}
           I == seat.intercepted \ {b}
           X == IF b = Left /\ b \in seat.intercepted THEN "none" ELSE seat.selection
           u == [seat EXCEPT !.held = H, !.intercepted = I, !.selection = X]
<1>1. seat \in States /\ s.intercepted = seat.intercepted /\ s.selection = seat.selection
  BY DEF Sound, Accounted, Endable, States
<1>2. [s EXCEPT !.intercepted = @ \ {b}] = [seat EXCEPT !.held = H, !.intercepted = I]
  BY <1>1 DEF States
<1>3. u = IF b = Left /\ b \in s.intercepted
          THEN [[s EXCEPT !.intercepted = @ \ {b}] EXCEPT !.selection = "none"]
          ELSE [s EXCEPT !.intercepted = @ \ {b}]
  BY <1>1, <1>2 DEF States
<1>4. H \in SUBSET Buttons /\ I \in SUBSET Buttons /\ X \in {"none", "waiting", "dragging"}
  BY <1>1 DEF States
<1> HIDE DEF u
<1>5. IF ~Selecting(u) /\ u.intercepted = {} THEN t \in RefreshStates(u) ELSE t = u
  BY <1>3 DEF ScreenshotRelease
<1> USE DEF u
<1>6. seat.pressed \subseteq H /\ seat.pressed \cap I = {}
  BY <1>1 DEF TakenBySelection, Selecting, Sound, Accounted
<1>7. X # "none" => seat.pressed = {}
  BY DEF Selecting, Sound, Accounted
<1> HIDE DEF H, I, X
<1>8. u \in States /\ u.held = H /\ u.intercepted = I /\ u.selection = X
      /\ u.pressed = seat.pressed
  BY <1>1, <1>4 DEF States
<1>9. u.stale = seat.stale
  BY <1>1, <1>4 DEF States
<1>10. SameScene(seat, u)
  BY <1>1, <1>4 DEF SameScene, SameButtons, SameShapes, States
<1> HIDE DEF u
<1>11. Selecting(u) => u.pressed = {}
  BY <1>7, <1>8 DEF Selecting
<1>12. t \in RefreshStates(u) \/ (t = u /\ Intercepting(u))
  BY <1>5 DEF Intercepting
<1> QED BY <1>6, <1>8, <1>9, <1>10, <1>11, <1>12, HandsRefresh

\* A button that nobody needs to be told of: it was swallowed, or it was not down.
LEMMA QuietRelease ==
  ASSUME NEW s, Sound(s), NEW b, b \notin s.intercepted, NEW t,
         t = [s EXCEPT !.held = @ \ {b}, !.swallowed = @ \ {b}, !.pressed = @ \ {b}],
         b \in s.pressed => b \in s.swallowed /\ ~(Dragging(s) /\ DragButton(s) = b)
  PROVE  Sound(t) /\ (Dragging(t) <=> Dragging(s))
<1>1. s \in States /\ Accounted(s)
  BY DEF Sound, Accounted, Endable
<1>2. /\ t \in States
      /\ t.held = s.held \ {b} /\ t.pressed = s.pressed \ {b} /\ t.swallowed = s.swallowed \ {b}
      /\ t.drag = s.drag /\ t.grab = s.grab /\ t.seen = s.seen /\ t.intercepted = s.intercepted
      /\ t.order = s.order
  BY <1>1 DEF States
<1>3. /\ t.splitDrag = s.splitDrag /\ t.resizing = s.resizing /\ t.stale = s.stale
      /\ t.host = s.host /\ t.selection = s.selection
  BY <1>1 DEF States
<1>4. /\ t.active = s.active /\ t.away = s.away /\ t.dialog = s.dialog /\ t.place = s.place
  BY <1>1 DEF States
<1>5. /\ Dragging(t) <=> Dragging(s)
      /\ DragButton(t) = DragButton(s) /\ Selecting(t) = Selecting(s)
      /\ Intercepting(t) = Intercepting(s)
  BY <1>2, <1>3 DEF Dragging, DragButton, Selecting, Intercepting
<1>6. b \notin s.seen
  BY <1>1 DEF Accounted, Endable
<1>7. Endable(t)
  BY <1>1, <1>2, <1>3, <1>5, <1>6 DEF Accounted, Endable
<1>8. Dragging(s) =>
        /\ t.splitDrag <=> t.drag.kind \in SplitKinds
        /\ t.resizing <=> t.drag.kind = "resize"
        /\ t.seen \subseteq {DragButton(t)}
        /\ t.drag.button # NoButton => ~Selecting(t) /\ t.drag.button \in s.pressed
  BY <1>1, <1>2, <1>3, <1>5 DEF Accounted
<1>9. Dragging(s) /\ s.drag.button # NoButton => s.drag.button # b
  BY <1>2, <1>8 DEF DragButton
<1>10. Accounted(t)
  BY <1>1, <1>2, <1>3, <1>5, <1>6, <1>7, <1>8, <1>9 DEF Accounted
<1>11. Dragging(s) => Valid(t)
  <2>1. Dragging(s) => Valid(s)
    BY DEF Sound, Grounded
  <2> QED BY <1>2, <1>4, <2>1, ValidDepends
<1>12. Grounded(t)
  BY <1>2, <1>3, <1>4, <1>5, <1>11 DEF Sound, Grounded
<1>13. t.stale => Intercepting(t)
  BY <1>3, <1>5 DEF Sound
<1> QED BY <1>5, <1>10, <1>12, <1>13 DEF Sound

\* A grab that ends leaves everything else.
LEMMA GrabEnds ==
  ASSUME NEW n \in States, NEW t \in {n, [n EXCEPT !.grab = "none", !.start = NoButton]}
  PROVE  /\ t \in States /\ t.drag = n.drag /\ t.pressed = n.pressed
         /\ t.swallowed = n.swallowed /\ t.seen = n.seen /\ t.held = n.held
         /\ t.intercepted = n.intercepted /\ t.place = n.place
         /\ t.splitDrag = n.splitDrag /\ t.resizing = n.resizing /\ t.stale = n.stale
         /\ t.host = n.host /\ t.selection = n.selection
<1>1. /\ t \in States /\ t.drag = n.drag /\ t.pressed = n.pressed
      /\ t.swallowed = n.swallowed /\ t.seen = n.seen /\ t.held = n.held
      /\ t.intercepted = n.intercepted /\ t.place = n.place
  BY DEF States
<1>2. /\ t.splitDrag = n.splitDrag /\ t.resizing = n.resizing /\ t.stale = n.stale
      /\ t.host = n.host /\ t.selection = n.selection
  BY DEF States
<1> QED BY <1>1, <1>2

\* A commit ends the grab with the drag.
LEMMA CommitEnds ==
  ASSUME NEW n, Endable(n), NEW t, t = [Finish(n, TRUE) EXCEPT !.grab = "none", !.start = NoButton]
  PROVE  /\ Endable(t) /\ ~Dragging(t) /\ t.grab = "none" /\ t.stale = n.stale
         /\ t.pressed = n.pressed /\ t.swallowed = n.swallowed /\ t.seen = n.seen
         /\ t.held = n.held /\ t.intercepted = n.intercepted /\ t.place = n.place
         /\ t.host = n.host /\ t.selection = n.selection
<1> DEFINE v == Finish(n, TRUE)
<1>1. /\ Endable(v) /\ SameWorld(n, v)
      /\ v.drag = NoDrag /\ ~v.splitDrag /\ ~v.resizing /\ v.stale = n.stale
      /\ v.pressed = n.pressed /\ v.swallowed = n.swallowed /\ v.seen = n.seen
      /\ SameShapes(n, v)
  BY FinishEnds
<1>2. v \in States
  BY <1>1 DEF Endable
<1>3. t = [v EXCEPT !.grab = "none", !.start = NoButton]
  OBVIOUS
<1> HIDE DEF v
<1>4. /\ t \in States /\ t.drag = v.drag /\ t.pressed = v.pressed
      /\ t.swallowed = v.swallowed /\ t.seen = v.seen /\ t.held = v.held
      /\ t.intercepted = v.intercepted /\ t.place = v.place
      /\ t.splitDrag = v.splitDrag /\ t.resizing = v.resizing /\ t.stale = v.stale
      /\ t.host = v.host /\ t.selection = v.selection
  BY <1>2, <1>3, GrabEnds
<1>5. t.grab = "none"
  BY <1>2, <1>3 DEF States
<1>6. ~Dragging(t)
  BY <1>1, <1>4 DEF Dragging
<1>7. Endable(t)
  BY <1>1, <1>4, <1>6 DEF Endable
<1> QED BY <1>1, <1>4, <1>5, <1>6, <1>7 DEF SameWorld, SameShapes

\* What the seat makes of the release of b: the last part of Released.
SeatReleased(u, b) ==
  LET n == [u EXCEPT !.seen = @ \ {b}]
  IN IF Dragging(u) /\ DragButton(u) = b
     THEN [Finish(n, TRUE) EXCEPT !.grab = "none", !.start = NoButton]
     ELSE IF u.grab = "click" /\ u.seen = {b}
          THEN [n EXCEPT !.grab = "none", !.start = NoButton]
          ELSE n

\* A button that the seat knows of: it ends the drag it holds, or the click it is the last of.
LEMMA SeatRelease ==
  ASSUME NEW s, Sound(s), NEW b \in s.pressed, b \notin s.intercepted,
         b \in s.swallowed => Dragging(s) /\ DragButton(s) = b,
         NEW w, w = [s EXCEPT !.held = @ \ {b}, !.swallowed = @ \ {b}, !.pressed = @ \ {b}],
         NEW u \in RefreshStates(w), NEW t, t = SeatReleased(u, b)
  PROVE  Sound(t) /\ Untouched(s, t)
<1> DEFINE n == [u EXCEPT !.seen = @ \ {b}]
<1>1. s \in States /\ Accounted(s)
  BY DEF Sound, Accounted, Endable
<1>2. /\ w \in States
      /\ w.held = s.held \ {b} /\ w.pressed = s.pressed \ {b} /\ w.swallowed = s.swallowed \ {b}
      /\ w.drag = s.drag /\ w.grab = s.grab /\ w.seen = s.seen /\ w.intercepted = s.intercepted
      /\ w.order = s.order
  BY <1>1 DEF States
<1>3. /\ w.splitDrag = s.splitDrag /\ w.resizing = s.resizing /\ w.stale = s.stale
      /\ w.host = s.host /\ w.selection = s.selection
  BY <1>1 DEF States
<1>4. /\ w.active = s.active /\ w.away = s.away /\ w.dialog = s.dialog /\ w.place = s.place
  BY <1>1 DEF States
<1>5. (Dragging(w) <=> Dragging(s)) /\ DragButton(w) = DragButton(s)
  BY <1>2 DEF Dragging, DragButton
<1>6. Dragging(w) <=> w.grab = "drag"
  BY <1>1, <1>2, <1>5 DEF Accounted
<1>7. Grounded(w)
  <2>1. Dragging(s) => Valid(w)
    <3>1. Dragging(s) => Valid(s)
      BY DEF Sound, Grounded
    <3> QED BY <1>2, <1>4, <3>1, ValidDepends
  <2> QED BY <1>2, <1>3, <1>4, <1>5, <2>1 DEF Sound, Grounded
<1>8. Moved(w, u) /\ (w.grab = "drag" /\ ~w.stale => u = w)
  BY <1>2, <1>6, <1>7, RefreshMoves DEF Grounded
<1>9. (Dragging(u) <=> Dragging(s)) /\ DragButton(u) = DragButton(s)
  BY <1>5, <1>6, <1>7, <1>8, MovedGrounded
<1>10. u \in States /\ ~u.stale /\ SameWorld(w, u) /\ SameButtons(w, u)
  BY <1>8 DEF Moved
<1>11. /\ u.pressed = s.pressed \ {b} /\ u.swallowed = s.swallowed \ {b} /\ u.seen = s.seen
       /\ u.grab = s.grab /\ u.splitDrag = s.splitDrag /\ u.resizing = s.resizing
  BY <1>2, <1>3, <1>10 DEF SameButtons
<1>12. /\ u.held = s.held \ {b} /\ u.intercepted = s.intercepted /\ u.selection = s.selection
       /\ u.host = s.host
  BY <1>2, <1>3, <1>10 DEF SameWorld
<1>13. /\ n \in States /\ n.seen = s.seen \ {b} /\ n.pressed = u.pressed
       /\ n.swallowed = u.swallowed /\ n.drag = u.drag /\ n.grab = u.grab /\ n.held = u.held
       /\ n.intercepted = u.intercepted
  BY <1>10, <1>11 DEF States
<1>14. /\ n.splitDrag = u.splitDrag /\ n.resizing = u.resizing /\ n.stale = u.stale
       /\ n.host = u.host /\ n.selection = u.selection /\ n.place = u.place
  BY <1>10 DEF States
<1> HIDE DEF n
<1>15. (Dragging(n) <=> Dragging(s)) /\ DragButton(n) = DragButton(s)
  BY <1>9, <1>13 DEF Dragging, DragButton
<1>16. /\ n.pressed \subseteq n.held /\ n.pressed \cap n.intercepted = {}
       /\ n.seen \subseteq n.pressed
       /\ n.pressed \ n.swallowed \subseteq n.seen
       /\ n.selection # "none" => n.pressed = {}
       /\ ~n.host => n.pressed = {}
  BY <1>1, <1>11, <1>12, <1>13, <1>14 DEF Accounted, Endable, Selecting
<1>17. CASE Dragging(s)
  <2>1. DragButton(s) = b
    BY <1>1, <1>17 DEF Accounted
  <2>2. n.seen = {}
    BY <1>1, <1>13, <1>17, <2>1 DEF Accounted
  <2>3. SameDrag(s.drag, u.drag)
    BY <1>1, <1>2, <1>8, <1>17 DEF Moved, Accounted
  <2>4. Endable(n)
    <3>1. s.resizing => s.drag.kind = "resize"
      BY <1>1, <1>17 DEF Accounted
    <3>2. s.drag.kind \in FloatKinds \cup SplitKinds => s.drag.saved \in Shapes
      BY <1>1, <1>17 DEF Accounted, Endable
    <3> QED BY <1>11, <1>13, <1>14, <1>15, <1>16, <1>17, <2>3, <3>1, <3>2 DEF Endable, SameDrag
  <2>5. t = [Finish(n, TRUE) EXCEPT !.grab = "none", !.start = NoButton]
    BY <1>9, <1>17, <2>1 DEF SeatReleased, n
  <2>6. /\ Endable(t) /\ ~Dragging(t) /\ t.grab = "none" /\ t.stale = n.stale
        /\ t.pressed = n.pressed /\ t.swallowed = n.swallowed /\ t.seen = n.seen
        /\ t.held = n.held /\ t.intercepted = n.intercepted /\ t.place = n.place
        /\ t.host = n.host /\ t.selection = n.selection
    BY <2>4, <2>5, CommitEnds
  <2>7. Accounted(t)
    BY <1>16, <2>2, <2>6 DEF Accounted, Selecting
  <2>8. ~t.stale
    BY <1>10, <1>14, <2>6
  <2>9. Untouched(s, t)
    <3> SUFFICES ASSUME s.drag.kind \in FloatKinds, ~s.drag.moved, ~s.stale
                 PROVE  t.place = s.drag.saved
      BY DEF Untouched
    <3>1. u = w
      BY <1>3, <1>5, <1>6, <1>8, <1>17
    <3>2. t.place = s.place
      BY <1>4, <1>14, <2>6, <3>1
    <3>3. s.place = s.drag.saved
      BY <1>17 DEF Sound, Grounded
    <3> QED BY <3>2, <3>3
  <2> QED BY <2>6, <2>7, <2>8, <2>9 DEF Sound, Grounded
<1>18. CASE ~Dragging(s)
  <2>1. t = IF u.grab = "click" /\ u.seen = {b}
            THEN [n EXCEPT !.grab = "none", !.start = NoButton] ELSE n
    BY <1>9, <1>18 DEF SeatReleased, n
  <2>2. /\ t \in States /\ t.drag = n.drag /\ t.pressed = n.pressed
        /\ t.swallowed = n.swallowed /\ t.seen = n.seen /\ t.held = n.held
        /\ t.intercepted = n.intercepted
    BY <1>13, <2>1, GrabEnds
  <2>3. /\ t.splitDrag = n.splitDrag /\ t.resizing = n.resizing /\ t.stale = n.stale
        /\ t.host = n.host /\ t.selection = n.selection
    BY <1>13, <2>1, GrabEnds
  <2>4. t.grab = IF u.grab = "click" /\ u.seen = {b} THEN "none" ELSE u.grab
    BY <1>13, <2>1 DEF States
  <2>5. u.grab = "click" <=> s.seen # {}
    BY <1>1, <1>11, <1>18 DEF Accounted
  <2>6. t.grab = "click" <=> t.seen # {}
    <3>1. t.seen = s.seen \ {b} /\ u.seen = s.seen
      BY <1>11, <1>13, <2>2
    <3>2. s.seen = {b} => t.seen = {}
      BY <3>1
    <3>3. s.seen = {} => t.seen = {}
      BY <3>1
    <3>4. s.seen # {} /\ s.seen # {b} => t.seen # {}
      BY <3>1
    <3> QED BY <2>4, <2>5, <3>1, <3>2, <3>3, <3>4
  <2>7. t.grab # "drag"
    BY <1>1, <1>11, <1>18, <2>4 DEF Accounted
  <2>8. ~Dragging(t)
    BY <1>15, <1>18, <2>2 DEF Dragging
  <2>9. ~t.splitDrag /\ ~t.resizing
    BY <1>1, <1>11, <1>14, <1>18, <2>3 DEF Accounted, Endable
  <2>10. Endable(t)
    BY <1>16, <2>2, <2>8, <2>9 DEF Endable
  <2>11. t.seen \cap t.swallowed = {}
    BY <1>1, <1>11, <1>13, <1>18, <2>2 DEF Accounted
  <2>12. Accounted(t)
    BY <1>16, <2>2, <2>3, <2>6, <2>7, <2>8, <2>10, <2>11 DEF Accounted, Selecting
  <2>13. ~t.stale
    BY <1>10, <1>14, <2>3
  <2> QED BY <1>18, <2>8, <2>12, <2>13 DEF Sound, Grounded, Untouched
<1> QED BY <1>17, <1>18

\* A release is the screenshot's, the compositor's or the seat's.
LEMMA ButtonReleaseStep ==
  ASSUME Sound(seat), NEW b \in Buttons, ButtonRelease(b)
  PROVE  Sound(seat') /\ Untouched(seat, seat')
<1> DEFINE s == [seat EXCEPT !.held = @ \ {b}]
           w == [seat EXCEPT !.held = @ \ {b}, !.swallowed = @ \ {b}, !.pressed = @ \ {b}]
<1>1. b \in seat.held /\ seat \in States
  BY DEF ButtonRelease, Sound, Accounted, Endable
<1>2. seat' \in IF TakenBySelection(s, b) THEN ScreenshotRelease(s, b) ELSE Released(s, b)
  BY DEF ButtonRelease
<1>3. CASE TakenBySelection(s, b)
  <2>1. Sound(seat') /\ (Dragging(seat') <=> Dragging(seat))
    BY <1>1, <1>2, <1>3, SelectionReleaseStep
  <2> QED BY <2>1 DEF Untouched
<1>4. CASE ~TakenBySelection(s, b)
  <2>1. /\ s.pressed = seat.pressed /\ s.swallowed = seat.swallowed /\ s.drag = seat.drag
        /\ s.intercepted = seat.intercepted
    BY <1>1 DEF States
  <2>2. [s EXCEPT !.swallowed = @ \ {b}, !.pressed = @ \ {b}] = w
    BY <1>1 DEF States
  <2>3. b \notin seat.intercepted
    BY <1>4, <2>1 DEF TakenBySelection
  <2>4. Dragging(s) = Dragging(seat) /\ DragButton(s) = DragButton(seat)
    BY <2>1 DEF Dragging, DragButton
  <2> HIDE DEF s, w
  <2>5. CASE b \in seat.pressed /\ (b \in seat.swallowed => Dragging(seat) /\ DragButton(seat) = b)
    <3>1. Released(s, b) = {SeatReleased(u, b) : u \in RefreshStates(w)}
      BY <2>1, <2>2, <2>4, <2>5 DEF Released, SeatReleased
    <3>2. PICK u \in RefreshStates(w) : seat' = SeatReleased(u, b)
      BY <1>2, <1>4, <3>1
    <3> QED BY <2>3, <2>5, <3>2, SeatRelease DEF w
  <2>6. CASE ~(b \in seat.pressed /\ (b \in seat.swallowed => Dragging(seat) /\ DragButton(seat) = b))
    <3>1. seat' = w
      BY <1>2, <1>4, <2>1, <2>2, <2>4, <2>6 DEF Released
    <3>2. Sound(seat') /\ (Dragging(seat') <=> Dragging(seat))
      BY <2>3, <2>6, <3>1, QuietRelease DEF w
    <3> QED BY <3>2 DEF Untouched
  <2> QED BY <2>5, <2>6
<1> QED BY <1>3, <1>4

\* While the host has the input no button is anybody's.
LEMMA ButtonUnseenStep ==
  ASSUME Sound(seat), NEW b \in Buttons, ButtonUnseen(b)
  PROVE  Sound(seat') /\ Traceless(seat, seat')
<1> DEFINE H == IF b \in seat.held THEN seat.held \ {b} ELSE seat.held \cup {b}
           t == [seat EXCEPT !.held = H]
<1>1. seat \in States /\ seat' = t /\ seat.pressed = {}
  BY DEF ButtonUnseen, Sound, Accounted, Endable
<1>2. H \in SUBSET Buttons
  BY <1>1 DEF States
<1> HIDE DEF H
<1>3. /\ t \in States /\ t.pressed = {} /\ t.selection = seat.selection
      /\ t.intercepted = seat.intercepted
  BY <1>1, <1>2 DEF States
<1>4. t.stale = seat.stale
  BY <1>1, <1>2 DEF States
<1>5. SameScene(seat, t)
  BY <1>1, <1>2 DEF SameScene, SameButtons, SameShapes, States
<1> HIDE DEF t
<1>6. t.stale => Intercepting(t)
  BY <1>3, <1>4 DEF Sound, Intercepting, Selecting
<1> QED BY <1>1, <1>3, <1>5, <1>6, HandsSound

\* The pointer moves for the selection, or for everybody else.
LEMMA PointerMotionStep ==
  ASSUME Sound(seat), PointerMotion
  PROVE  Sound(seat') /\ Traceless(seat, seat')
<1>1. seat \in States /\ Accounted(seat) /\ Grounded(seat)
  BY DEF Sound, Accounted, Endable
<1>2. CASE Intercepting(seat)
  <2> DEFINE t == [seat EXCEPT !.stale = TRUE]
  <2>1. seat' = t
    BY <1>2 DEF PointerMotion
  <2>2. /\ t \in States /\ t.pressed = seat.pressed /\ t.selection = seat.selection
        /\ t.intercepted = seat.intercepted /\ t.held = seat.held
    BY <1>1 DEF States
  <2>3. SameScene(seat, t)
    BY <1>1 DEF SameScene, SameButtons, SameShapes, States
  <2> HIDE DEF t
  <2>4. Intercepting(t) /\ (Selecting(t) => t.pressed = {})
    BY <1>1, <1>2, <2>2 DEF Intercepting, Selecting, Accounted
  <2>5. t.pressed \subseteq t.held /\ t.pressed \cap t.intercepted = {}
    BY <1>1, <2>2 DEF Accounted
  <2> QED BY <2>1, <2>2, <2>3, <2>4, <2>5, HandsSound
<1>3. CASE ~Intercepting(seat)
  <2>1. Sound(seat') /\ Moved(seat, seat')
    BY <1>1, <1>3, MotionSound DEF PointerMotion
  <2>2. Dragging(seat') <=> Dragging(seat)
    BY <1>1, <2>1, MovedDrags DEF Accounted
  <2> QED BY <2>1, <2>2 DEF Traceless
<1> QED BY <1>2, <1>3

-----------------------------------------------------------------------------
(* Keys and requests                                                       *)

\* The buttons released, the drag put back and the pointer shown where it is.
LEMMA ReleaseRefresh ==
  ASSUME NEW s, Endable(s), NEW t \in RefreshStates(ReleaseButtons(s))
  PROVE  Sound(t) /\ ~Dragging(t) /\ Restored(s, t) /\ SameWorld(s, t)
<1> DEFINE v == ReleaseButtons(s)
<1>1. Quiet(v) /\ SameWorld(s, v) /\ Restored(s, v)
  BY ReleaseEnds
<1>2. t \in RefreshStates(v)
  OBVIOUS
<1> HIDE DEF v
<1>3. Sound(t) /\ ~Dragging(t) /\ SameWorld(v, t) /\ SameShapes(v, t) /\ t.order = v.order
  BY <1>1, <1>2, QuietRefresh
<1>4. SameWorld(s, t)
  BY <1>1, <1>3 DEF SameWorld
<1> QED BY <1>1, <1>3, <1>4, RestoredStays

\* Escape ends the selection, or cancels the drag if there is none.
LEMMA EscapeKeyStep ==
  ASSUME Sound(seat), EscapeKey
  PROVE  Sound(seat') /\ Traceless(seat, seat')
<1>1. seat \in States /\ Accounted(seat) /\ Endable(seat)
  BY DEF Sound, Accounted, Endable
<1>2. CASE Selecting(seat)
  <2> DEFINE u == [seat EXCEPT !.selection = "none"]
  <2>1. IF seat.intercepted = {} THEN seat' \in RefreshStates(u) ELSE seat' = u
    BY <1>2 DEF EscapeKey, CancelSelection
  <2>2. /\ u \in States /\ u.pressed = seat.pressed /\ u.selection = "none"
        /\ u.intercepted = seat.intercepted /\ u.held = seat.held
    BY <1>1 DEF States
  <2>3. u.stale = seat.stale
    BY <1>1 DEF States
  <2>4. SameScene(seat, u)
    BY <1>1 DEF SameScene, SameButtons, SameShapes, States
  <2> HIDE DEF u
  <2>5. /\ u.pressed \subseteq u.held /\ u.pressed \cap u.intercepted = {} /\ ~Selecting(u)
    BY <1>1, <2>2 DEF Accounted, Selecting
  <2>6. seat' \in RefreshStates(u) \/ (seat' = u /\ Intercepting(u))
    BY <2>1, <2>2 DEF Intercepting
  <2>7. Sound(seat') /\ (Dragging(seat') <=> Dragging(seat))
    BY <2>2, <2>3, <2>4, <2>5, <2>6, HandsRefresh
  <2> QED BY <2>7 DEF Traceless
<1>3. CASE ~Selecting(seat)
  <2> DEFINE v == Finish(seat, FALSE)
  <2>1. seat' \in RefreshStates(ReleaseButtons(v))
    BY <1>3 DEF EscapeKey, Cancel
  <2>2. Endable(v) /\ v.drag = NoDrag /\ Restored(seat, v)
    BY <1>1, FinishEnds
  <2> HIDE DEF v
  <2>3. Sound(seat') /\ Restored(v, seat')
    BY <2>1, <2>2, ReleaseRefresh
  <2>4. SameShapes(v, seat') /\ seat'.order = v.order
    BY <2>2, <2>3 DEF Restored, Dragging
  <2>5. Restored(seat, seat')
    BY <2>2, <2>4, RestoredStays
  <2> QED BY <2>3, <2>5, RestoredTraceless
<1> QED BY <1>2, <1>3

\* Return commits: a window that has not moved stays where it is.
LEMMA ReturnKeyStep ==
  ASSUME Sound(seat), ReturnKey
  PROVE  Sound(seat') /\ Untouched(seat, seat')
<1> DEFINE v == Finish(seat, TRUE)
<1>1. Endable(seat) /\ seat' \in RefreshStates(ReleaseButtons(v))
  BY DEF ReturnKey, Sound, Accounted
<1>2. Endable(v) /\ v.drag = NoDrag /\ SameShapes(seat, v)
  BY <1>1, FinishEnds
<1> HIDE DEF v
<1>3. Sound(seat') /\ Restored(v, seat')
  BY <1>1, <1>2, ReleaseRefresh
<1>4. seat'.place = seat.place
  BY <1>2, <1>3 DEF Restored, Dragging, SameShapes
<1>5. Dragging(seat) /\ seat.drag.kind \in FloatKinds /\ ~seat.drag.moved
        => seat.place = seat.drag.saved
  BY DEF Sound, Grounded
<1> QED BY <1>3, <1>4, <1>5 DEF Untouched

\* A client that asks to be moved gives the button of its click to the drag.
LEMMA ClientAsksStep ==
  ASSUME Sound(seat), NEW resize \in BOOLEAN, ClientAsks(resize)
  PROVE  Sound(seat') /\ Traceless(seat, seat')
<1>1. seat \in States /\ Accounted(seat) /\ ~Dragging(seat) /\ seat.pressed = {seat.start}
  BY DEF ClientAsks, Sound, Accounted, Endable
<1>2. PICK op \in WindowOperations(seat, resize) : seat' = Install(seat, op, seat.start)
  BY DEF ClientAsks
<1>3. Fits(seat, op)
  BY <1>1, <1>2, OperationsFit
<1>4. seat.start \in Buttons /\ seat.start # NoButton
  <2>1. seat.pressed \subseteq Buttons
    BY <1>1 DEF States
  <2> QED BY <1>1, <2>1, PointerAssumption
<1>5. seat.pressed = {seat.start} \ {NoButton}
  BY <1>1, <1>4
<1>6. seat.host /\ ~Selecting(seat)
  BY <1>1 DEF Accounted
<1>7. Startable(seat, seat.start)
  BY <1>1, <1>4, <1>5, <1>6 DEF Startable, Sound, Accounted, Endable
<1>8. Sound(seat')
  BY <1>2, <1>3, <1>7, StartSound
<1> QED BY <1>1, <1>8 DEF Traceless

-----------------------------------------------------------------------------
(* Windows and backends                                                    *)

\* A layout that is made anew after something of it changed: the drag is put back unless its
\* window has gone.
LEMMA LayoutEnds ==
  ASSUME NEW s, Sound(s), NEW u \in States, SameInput(s, u), u.active = s.active,
         NEW t \in RelayoutStates(u),
         Floating(s) /\ u.dialog # "away" => Floating(u),
         LET stayed == {w \in Windows : Tiled(s, w) /\ Tiled(u, w)}
         IN Among(s.order, stayed) = Among(u.order, stayed)
  PROVE  Sound(t) /\ Traceless(s, t)
<1>1. Sound(t) /\ SameWorld(u, t) /\ Restored(u, t)
  BY ChangedRelayout DEF Sound
<1>2. /\ \A w \in Windows : Tiled(t, w) = Tiled(u, w)
      /\ t.dialog = u.dialog
  BY <1>1, SlotsDepend DEF SameWorld
<1>3. CASE ~Dragging(s)
  BY <1>1, <1>3 DEF Traceless
<1>4. CASE Dragging(s)
  <2>1. u.drag = s.drag /\ Dragging(u)
    BY <1>4 DEF SameInput, Dragging
  <2>2. s.drag.workspace = s.active /\ (s.drag.kind \in FloatKinds => Floating(s))
    BY <1>4 DEF Sound, Grounded, Valid
  <2>3. /\ s.drag.kind \in FloatKinds /\ t.dialog # "away" => t.place = s.drag.saved
        /\ s.drag.kind = "master" => t.ratio = s.drag.saved
        /\ s.drag.kind = "stack" => t.weights = s.drag.saved
    BY <1>1, <1>2, <2>1, <2>2 DEF Restored
  <2> DEFINE stayed == {w \in Windows : Tiled(s, w) /\ Tiled(t, w)}
  <2>4. stayed = {w \in Windows : Tiled(s, w) /\ Tiled(u, w)}
    BY <1>2
  <2>5. Among(s.order, stayed) = Among(u.order, stayed)
    BY <2>4
  <2>6. t.order = u.order
    BY <1>1 DEF Restored
  <2> QED BY <1>1, <2>3, <2>5, <2>6 DEF Traceless
<1> QED BY <1>3, <1>4

\* A window put at the end of the list moves no other.
LEMMA AtEndKeeps ==
  ASSUME NEW order \in Relations, NEW w \in Windows
  PROVE  /\ AtEnd(order, w) \in Relations
         /\ \A S \in SUBSET Windows : w \notin S => Among(AtEnd(order, w), S) = Among(order, S)
<1>1. AtEnd(order, w) \in Relations
  BY DEF AtEnd, Among, Relations
<1>2. ASSUME NEW S \in SUBSET Windows, w \notin S
      PROVE  Among(AtEnd(order, w), S) = Among(order, S)
  <2>1. ASSUME NEW p
        PROVE  p \in Among(AtEnd(order, w), S) <=> p \in Among(order, S)
    <3>1. p \in Among(order, S) => p[1] \in Windows \ {w} /\ p[2] \in Windows \ {w}
      BY <1>2 DEF Among
    <3>2. p \in (Windows \ {w}) \X {w} => p[2] = w
      OBVIOUS
    <3> QED BY <1>2, <3>1, <3>2 DEF Among, AtEnd
  <2> QED BY <2>1 DEF Among
<1> QED BY <1>1, <1>2

\* A tile that appears, at the end or where it was, ends a drag and moves no other.
LEMMA TileAppearsStep ==
  ASSUME Sound(seat), NEW w \in Tiles, TileAppears(w)
  PROVE  Sound(seat') /\ Traceless(seat, seat')
<1>1. seat \in States /\ w \in seat.away /\ w \in Windows /\ w # Dialog
  BY PointerAssumption DEF TileAppears, Windows, Sound, Accounted, Endable
<1>2. seat.order \in Relations
  BY <1>1 DEF States
<1>3. PICK s \in Arrivals(seat, w) : seat' \in RelayoutStates([s EXCEPT !.away = @ \ {w}])
  BY DEF TileAppears
<1> DEFINE A == seat.away \ {w}
           O == s.order
           u == [s EXCEPT !.away = @ \ {w}]
<1>4. s = seat \/ s = [seat EXCEPT !.order = AtEnd(seat.order, w)]
  BY DEF Arrivals
<1>5. O \in {seat.order, AtEnd(seat.order, w)} /\ O \in Relations
  BY <1>1, <1>2, <1>4, AtEndKeeps DEF States
<1>6. A \in SUBSET Tiles
  BY <1>1 DEF States
<1>7. u = [seat EXCEPT !.away = A, !.order = O]
  BY <1>1, <1>4 DEF States
<1>8. seat' \in RelayoutStates(u)
  BY <1>3
<1> HIDE DEF A, O, u
<1>9. u \in States /\ u.active = seat.active /\ u.dialog = seat.dialog /\ u.order = O
  BY <1>1, <1>5, <1>6, <1>7 DEF States
<1>10. SameInput(seat, u)
  BY <1>1, <1>7 DEF States, SameInput, SameButtons
<1>11. Floating(seat) => Floating(u)
  BY <1>9 DEF Floating
<1> DEFINE stayed == {x \in Windows : Tiled(seat, x) /\ Tiled(u, x)}
<1>12. w \notin stayed /\ stayed \in SUBSET Windows
  BY <1>1 DEF Tiled
<1> HIDE DEF stayed
<1>13. Among(seat.order, stayed) = Among(u.order, stayed)
  BY <1>1, <1>2, <1>5, <1>9, <1>12, AtEndKeeps
<1> USE DEF stayed
<1> QED BY <1>8, <1>9, <1>10, <1>11, <1>13, LayoutEnds

\* A window that goes, or a layout that is only made anew.
LEMMA LayoutStep ==
  ASSUME Sound(seat), NEW u \in States, SameInput(seat, u), u.active = seat.active,
         u.order = seat.order, u.dialog = seat.dialog \/ u.dialog = "away",
         seat' \in RelayoutStates(u)
  PROVE  Sound(seat') /\ Traceless(seat, seat')
<1>1. Floating(seat) /\ u.dialog # "away" => Floating(u)
  BY DEF Floating
<1> QED BY <1>1, LayoutEnds

\* A tile that goes ends a drag.
LEMMA TileGoesStep ==
  ASSUME Sound(seat), NEW w \in Tiles, TileGoes(w)
  PROVE  Sound(seat') /\ Traceless(seat, seat')
<1> DEFINE u == Away(seat, w)
<1>1. seat \in States /\ w \in Windows /\ w # Dialog
  BY PointerAssumption DEF Windows, Sound, Accounted, Endable
<1>2. /\ u \in States /\ SameInput(seat, u) /\ u.order = seat.order /\ u.active = seat.active
  BY <1>1, WindowsChange
<1>3. u.dialog = seat.dialog
  BY <1>1 DEF Away, States
<1>4. seat' \in RelayoutStates(u)
  BY DEF TileGoes
<1> HIDE DEF u
<1> QED BY <1>2, <1>3, <1>4, LayoutStep

\* The dialog goes, and takes its place with it.
LEMMA DialogGoesStep ==
  ASSUME Sound(seat), DialogGoes
  PROVE  Sound(seat') /\ Traceless(seat, seat')
<1> DEFINE u == Dialogs(seat, "away")
<1>1. seat \in States /\ Dialog \in Windows
  BY DEF Windows, Sound, Accounted, Endable
<1>2. /\ u \in States /\ SameInput(seat, u) /\ u.order = seat.order /\ u.active = seat.active
  BY <1>1, WindowsChange
<1>3. u.dialog = "away"
  BY <1>1 DEF Dialogs, States
<1>4. seat' \in RelayoutStates(u)
  BY DEF DialogGoes
<1> HIDE DEF u
<1> QED BY <1>2, <1>3, <1>4, LayoutStep

\* A layout that is only made anew puts a drag back.
LEMMA LayOutAgainStep ==
  ASSUME Sound(seat), LayOutAgain
  PROVE  Sound(seat') /\ Traceless(seat, seat')
<1>1. seat \in States /\ SameInput(seat, seat) /\ seat' \in RelayoutStates(seat)
  BY DEF LayOutAgain, SameInput, SameButtons, Sound, Accounted, Endable
<1> QED BY <1>1, LayoutStep

\* The dialog appears: it was not there to be dragged.
LEMMA DialogAppearsStep ==
  ASSUME Sound(seat), DialogAppears
  PROVE  Sound(seat') /\ Traceless(seat, seat')
<1>1. seat \in States /\ seat.dialog = "away" /\ Dialog \in Windows
  BY DEF DialogAppears, Windows, Sound, Accounted, Endable
<1>2. seat.order \in Relations
  BY <1>1 DEF States
<1>3. PICK s \in Arrivals(seat, Dialog), shape \in Shapes :
        seat' \in RelayoutStates([s EXCEPT !.dialog = "floating", !.place = shape])
  BY DEF DialogAppears
<1> DEFINE O == s.order
           u == [s EXCEPT !.dialog = "floating", !.place = shape]
<1>4. s = seat \/ s = [seat EXCEPT !.order = AtEnd(seat.order, Dialog)]
  BY DEF Arrivals
<1>5. O \in {seat.order, AtEnd(seat.order, Dialog)} /\ O \in Relations
  BY <1>1, <1>2, <1>4, AtEndKeeps DEF States
<1>6. u = [seat EXCEPT !.dialog = "floating", !.place = shape, !.order = O]
  BY <1>1, <1>4 DEF States
<1>7. seat' \in RelayoutStates(u)
  BY <1>3
<1> HIDE DEF O, u
<1>8. u \in States /\ u.active = seat.active /\ u.order = O
  BY <1>1, <1>5, <1>6 DEF States
<1>9. SameInput(seat, u)
  BY <1>1, <1>6 DEF States, SameInput, SameButtons
<1>10. ~Floating(seat)
  BY <1>1 DEF Floating
<1> DEFINE stayed == {x \in Windows : Tiled(seat, x) /\ Tiled(u, x)}
<1>11. Dialog \notin stayed /\ stayed \in SUBSET Windows
  BY <1>1 DEF Tiled
<1> HIDE DEF stayed
<1>12. Among(seat.order, stayed) = Among(u.order, stayed)
  BY <1>1, <1>2, <1>5, <1>8, <1>11, AtEndKeeps
<1> USE DEF stayed
<1> QED BY <1>7, <1>8, <1>9, <1>10, <1>12, LayoutEnds

\* The dialog covers, tiles or floats after the drag has been put back.
LEMMA DialogChangesStep ==
  ASSUME Sound(seat), DialogChanges
  PROVE  Sound(seat') /\ Traceless(seat, seat')
<1>1. PICK d \in {"floating", "tiled", "covering"} :
        seat' \in RelayoutStates(Dialogs(ReleaseButtons(seat), d))
  BY DEF DialogChanges
<1> DEFINE v == ReleaseButtons(seat)
           u == Dialogs(v, d)
<1>2. Quiet(v) /\ Restored(seat, v)
  BY ReleaseEnds DEF Sound, Accounted
<1> HIDE DEF v
<1>3. Accounted(v) /\ v \in States /\ ~Dragging(v) /\ Dialog \in Windows
  BY <1>2, QuietAccounted DEF Quiet, Windows
<1>4. u \in States /\ SameInput(v, u) /\ SameShapes(v, u) /\ u.order = v.order
  BY <1>3, WindowsChange
<1>5. seat' \in RelayoutStates(u)
  BY <1>1 DEF v
<1> HIDE DEF u
<1>6. Sound(seat') /\ Restored(u, seat')
  BY <1>3, <1>4, <1>5, ChangedRelayout
<1>7. ~Dragging(u)
  BY <1>3, <1>4 DEF SameInput, Dragging
<1>8. SameShapes(v, seat') /\ seat'.order = v.order
  BY <1>4, <1>6, <1>7 DEF Restored, SameShapes
<1> QED BY <1>2, <1>6, <1>8, RestoredStays, RestoredTraceless

\* The pointer is taken away from a drag.
LEMMA PointerTakenStep ==
  ASSUME Sound(seat), PointerTaken
  PROVE  Sound(seat') /\ Traceless(seat, seat')
<1>1. Endable(seat) /\ seat' \in RefreshStates(ReleaseButtons(seat))
  BY DEF PointerTaken, Sound, Accounted
<1>2. Sound(seat') /\ Restored(seat, seat')
  BY <1>1, ReleaseRefresh
<1> QED BY <1>2, RestoredTraceless

\* The host takes the focus: the selection and the drag are over.
LEMMA FocusLostStep ==
  ASSUME Sound(seat), FocusLost
  PROVE  Sound(seat') /\ Traceless(seat, seat')
<1>1. PICK t \in CancelSelection(seat, FALSE) :
        seat' \in RefreshStates(ReleaseButtons([t EXCEPT !.host = FALSE, !.intercepted = {}]))
  BY DEF FocusLost
<1> DEFINE X == t.selection
           u == [t EXCEPT !.host = FALSE, !.intercepted = {}]
<1>2. seat \in States /\ Endable(seat)
  BY DEF Sound, Accounted, Endable
<1>3. t = seat \/ t = [seat EXCEPT !.selection = "none"]
  BY DEF CancelSelection
<1>4. X \in {"none", "waiting", "dragging"}
  BY <1>2, <1>3 DEF States
<1>5. u = [seat EXCEPT !.host = FALSE, !.intercepted = {}, !.selection = X]
  BY <1>2, <1>3 DEF States
<1>6. seat' \in RefreshStates(ReleaseButtons(u))
  BY <1>1
<1> HIDE DEF X, u
<1>7. u \in States /\ u.drag = seat.drag /\ u.active = seat.active /\ u.dialog = seat.dialog
      /\ u.order = seat.order /\ u.seen = seat.seen /\ u.pressed = seat.pressed
  BY <1>2, <1>4, <1>5 DEF States
<1>8. u.splitDrag = seat.splitDrag /\ u.resizing = seat.resizing
  BY <1>2, <1>4, <1>5 DEF States
<1>9. SameShapes(seat, u)
  BY <1>2, <1>4, <1>5 DEF SameShapes, States
<1>10. (Dragging(u) <=> Dragging(seat)) /\ (Floating(u) <=> Floating(seat))
  BY <1>7 DEF Dragging, Floating
<1>11. Endable(u)
  BY <1>2, <1>7, <1>8, <1>10 DEF Endable
<1>12. Sound(seat') /\ Restored(u, seat')
  BY <1>6, <1>11, ReleaseRefresh
<1>13. Restored(seat, seat')
  BY <1>7, <1>9, <1>10, <1>12 DEF Restored, SameShapes
<1> QED BY <1>12, <1>13, RestoredTraceless

\* The input comes back to a state without a drag.
LEMMA InputReturns ==
  ASSUME Sound(seat), ~seat.host, NEW t \in RefreshStates([seat EXCEPT !.host = TRUE])
  PROVE  Sound(t) /\ Traceless(seat, t)
<1> DEFINE u == [seat EXCEPT !.host = TRUE]
<1>1. seat \in States /\ Accounted(seat) /\ ~Dragging(seat)
  BY DEF Sound, Accounted, Endable, Grounded
<1>2. /\ u \in States /\ u.drag = seat.drag /\ u.held = seat.held
      /\ u.intercepted = seat.intercepted /\ u.selection = seat.selection /\ u.host = TRUE
  BY <1>1 DEF States
<1>3. SameButtons(seat, u)
  BY <1>1 DEF SameButtons, States
<1>4. t \in RefreshStates(u)
  OBVIOUS
<1> HIDE DEF u
<1>5. ~Dragging(u) /\ (Selecting(u) <=> Selecting(seat))
  BY <1>1, <1>2 DEF Dragging, Selecting
<1>6. Endable(u)
  BY <1>1, <1>2, <1>3, <1>5 DEF Accounted, Endable, SameButtons
<1>7. Accounted(u)
  BY <1>1, <1>2, <1>3, <1>5, <1>6 DEF Accounted, SameButtons
<1> QED BY <1>1, <1>4, <1>5, <1>7, RestDepends DEF Traceless

\* ... and gives it back,
LEMMA FocusGainedStep ==
  ASSUME Sound(seat), FocusGained
  PROVE  Sound(seat') /\ Traceless(seat, seat')
  BY InputReturns DEF FocusGained

\* as does another session
LEMMA ActivateSessionStep ==
  ASSUME Sound(seat), ActivateSession
  PROVE  Sound(seat') /\ Traceless(seat, seat')
  BY InputReturns DEF ActivateSession

\* that had taken the input: the drag is over, the selection waits.
LEMMA PauseSessionStep ==
  ASSUME Sound(seat), PauseSession
  PROVE  Sound(seat') /\ Traceless(seat, seat')
<1> DEFINE v == ReleaseButtons(seat)
           u == [v EXCEPT !.host = FALSE]
<1>1. Quiet(v) /\ Restored(seat, v)
  BY ReleaseEnds DEF Sound, Accounted
<1>2. seat' \in RefreshStates(u)
  BY DEF PauseSession
<1> HIDE DEF v
<1>3. Quiet(u)
  BY <1>1 DEF Quiet, States
<1>4. SameShapes(v, u) /\ u.order = v.order
  BY <1>1 DEF Quiet, SameShapes, States
<1> HIDE DEF u
<1>5. Sound(seat') /\ SameShapes(u, seat') /\ seat'.order = u.order
  BY <1>2, <1>3, QuietRefresh
<1>6. SameShapes(v, seat') /\ seat'.order = v.order
  BY <1>4, <1>5 DEF SameShapes
<1> QED BY <1>1, <1>5, <1>6, RestoredStays, RestoredTraceless

\* A device goes with its buttons, and with the drag they held.
LEMMA DeviceRemovedStep ==
  ASSUME Sound(seat), DeviceRemoved
  PROVE  Sound(seat') /\ Traceless(seat, seat')
<1>1. /\ Quiet(seat') /\ SameWorld(seat, seat') /\ Restored(seat, seat')
      /\ seat'.stale = seat.stale
  BY ReleaseEnds DEF DeviceRemoved, Sound, Accounted
<1>2. Accounted(seat') /\ Grounded(seat')
  BY <1>1, QuietAccounted
<1>3. seat'.stale => Intercepting(seat')
  BY <1>1 DEF Sound, SameWorld, Intercepting, Selecting
<1> QED BY <1>1, <1>2, <1>3, RestoredTraceless DEF Sound

-----------------------------------------------------------------------------
(* The theorems                                                            *)

\* A session begins with the pointer free and no button down.
LEMMA InitSound ==
  ASSUME Init
  PROVE  Sound(seat)
<1>1. PICK backend \in Backends, shape \in Shapes, order \in Orders :
        seat = [backend |-> backend, host |-> TRUE, held |-> {}, pressed |-> {}, swallowed |-> {},
                intercepted |-> {}, seen |-> {}, grab |-> "none", start |-> NoButton,
                selection |-> "none", stale |-> FALSE, drag |-> NoDrag, splitDrag |-> FALSE,
                resizing |-> FALSE, active |-> 1, order |-> order, away |-> {},
                dialog |-> "floating", place |-> shape, ratio |-> shape, weights |-> shape]
  BY DEF Init
<1>2. order \in Relations
  BY DEF Orders
<1>3. seat \in States
  BY <1>1, <1>2 DEF States, Workspaces
<1>4. /\ seat.drag = NoDrag /\ seat.grab = "none" /\ seat.start = NoButton
      /\ seat.pressed = {} /\ seat.seen = {}
  BY <1>1
<1>5. ~seat.splitDrag /\ ~seat.resizing /\ ~seat.stale
  BY <1>1
<1>6. Quiet(seat)
  BY <1>3, <1>4, <1>5 DEF Quiet
<1> QED BY <1>5, <1>6, QuietAccounted DEF Sound

\* Every step keeps the state sound, and a drag that it ends leaves no trace.
LEMMA NextSound ==
  ASSUME Sound(seat), Next
  PROVE  /\ Sound(seat')
         /\ IF Committing THEN Untouched(seat, seat') ELSE Traceless(seat, seat')
<1>1. CASE ReturnKey
  BY <1>1, ReturnKeyStep DEF Committing
<1>2. ASSUME NEW b \in Buttons, ButtonRelease(b)
      PROVE  Sound(seat') /\ Untouched(seat, seat') /\ Committing
  BY <1>2, ButtonReleaseStep DEF Committing
<1>3. CASE ~Committing
  <2>1. CASE SelectionBegin
    BY <1>3, <2>1, SelectionBeginStep
  <2>2. ASSUME NEW b \in Buttons,
               PressTakenBySelection(b) \/ PressTakenByDrag(b) \/ PressOnBinding(b)
                 \/ PressThrough(b) \/ ButtonUnseen(b)
        PROVE  Sound(seat') /\ Traceless(seat, seat')
    BY <2>2, PressTakenBySelectionStep, PressTakenByDragStep, PressOnBindingStep,
       PressThroughStep, ButtonUnseenStep
  <2>3. CASE PressOnTitlebar
    BY <1>3, <2>3, PressOnTitlebarStep
  <2>4. CASE PressOnEdge
    BY <1>3, <2>4, PressOnEdgeStep
  <2>5. CASE PointerMotion
    BY <1>3, <2>5, PointerMotionStep
  <2>6. CASE EscapeKey
    BY <1>3, <2>6, EscapeKeyStep
  <2>7. CASE Request
    BY <1>3, <2>7, DispatchEnds DEF Request
  <2>8. ASSUME NEW resize \in BOOLEAN, ClientAsks(resize)
        PROVE  Sound(seat') /\ Traceless(seat, seat')
    BY <2>8, ClientAsksStep
  <2>9. ASSUME NEW w \in Tiles, TileAppears(w) \/ TileGoes(w)
        PROVE  Sound(seat') /\ Traceless(seat, seat')
    BY <2>9, TileAppearsStep, TileGoesStep
  <2>10. CASE DialogAppears \/ DialogGoes \/ DialogChanges
    BY <1>3, <2>10, DialogAppearsStep, DialogGoesStep, DialogChangesStep
  <2>11. CASE LayOutAgain \/ PointerTaken
    BY <1>3, <2>11, LayOutAgainStep, PointerTakenStep
  <2>12. CASE FocusLost \/ FocusGained \/ PauseSession \/ ActivateSession \/ DeviceRemoved
    BY <1>3, <2>12, FocusLostStep, FocusGainedStep, PauseSessionStep, ActivateSessionStep,
       DeviceRemovedStep
  <2>13. ASSUME NEW b \in Buttons PROVE ~ButtonRelease(b)
    BY <1>3 DEF Committing
  <2>14. ~ReturnKey
    BY <1>3 DEF Committing
  <2> QED BY <1>3, <2>1, <2>2, <2>3, <2>4, <2>5, <2>6, <2>7, <2>8, <2>9, <2>10, <2>11, <2>12,
            <2>13, <2>14 DEF Next
<1> QED BY <1>1, <1>2, <1>3 DEF Committing

\* A sound state is sound forever.
LEMMA AlwaysSound == Spec => []IInv
<1>1. Init => IInv
  BY InitSound DEF IInv
<1>2. IInv /\ [Next]_seat => IInv'
  <2>1. IInv /\ Next => IInv'
    BY NextSound DEF IInv
  <2>2. IInv /\ UNCHANGED seat => IInv'
    BY DEF IInv
  <2> QED BY <2>1, <2>2
<1> QED BY <1>1, <1>2, PTL DEF Spec

\* A drag and its grab, its cursor, its resized client and its subject come and go together.
THEOREM DragsOwnThePointer == Spec => []DragOwnsPointer
<1>1. IInv => DragOwnsPointer
  <2> SUFFICES ASSUME Sound(seat) PROVE DragOwnsPointer
    BY DEF IInv
  <2>1. /\ TypeOK
        /\ Dragging(seat) <=> seat.grab = "drag"
        /\ seat.splitDrag <=> Dragging(seat) /\ seat.drag.kind \in SplitKinds
        /\ seat.resizing <=> Dragging(seat) /\ seat.drag.kind = "resize"
    BY DEF Sound, Accounted, Endable, TypeOK
  <2>2. Dragging(seat) => seat.host /\ Valid(seat)
    BY DEF Sound, Grounded
  <2>3. Dragging(seat) /\ seat.drag.button # NoButton
          => ~Selecting(seat) /\ seat.drag.button \in seat.pressed
    BY DEF Sound, Accounted
  <2> QED BY <2>1, <2>2, <2>3 DEF DragOwnsPointer, Valid
<1> QED BY <1>1, AlwaysSound, PTL

\* Every button of pressed_buttons is down, and one party other than the selection has it.
THEOREM EveryButtonIsAccounted == Spec => []ButtonsAccounted
<1>1. IInv => ButtonsAccounted
  BY DEF IInv, Sound, Accounted, Endable, ButtonsAccounted
<1> QED BY <1>1, AlwaysSound, PTL

\* A drag that is not committed leaves no trace, and a committed click moves nothing.
THEOREM CancelledDragsLeaveNoTrace == Spec => CancelLeavesNoTrace
<1> DEFINE Step ==
      Dragging(seat) /\ ~Dragging(seat') =>
       LET d == seat.drag
           stayed == {w \in Windows : Tiled(seat, w) /\ Tiled(seat', w)}
       IN IF Committing
          THEN d.kind \in FloatKinds /\ ~d.moved /\ ~seat.stale => seat'.place = d.saved
          ELSE /\ d.kind \in FloatKinds /\ seat'.dialog # "away"
                    => seat'.place = d.saved
               /\ d.kind = "master" => seat'.ratio = d.saved \/ Resizing
               /\ d.kind = "stack" => seat'.weights = d.saved
               /\ Among(seat.order, stayed) = Among(seat'.order, stayed)
<1>1. IInv /\ Next => Step
  <2> SUFFICES ASSUME Sound(seat), Next PROVE Step
    BY DEF IInv
  <2>1. IF Committing THEN Untouched(seat, seat') ELSE Traceless(seat, seat')
    BY NextSound
  <2> QED BY <2>1 DEF Untouched, Traceless, Resizing
<1>2. IInv /\ [Next]_seat => [Step]_seat
  BY <1>1
<1> QED BY <1>2, AlwaysSound, PTL DEF Spec, CancelLeavesNoTrace
=============================================================================

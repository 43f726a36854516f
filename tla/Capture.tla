--------------------------------- MODULE Capture ---------------------------------
(***************************************************************************)
(* Sharing the screen, a window or some of the workspaces with a client    *)
(* (capture.rs, capture_sources.rs). A session announces the size of its   *)
(* buffers; one frame at a time is made, given a buffer and captured, and  *)
(* is answered by a timer that finishes all that are pending at once.      *)
(* Between the two anything may change: the workspace on the screen, the   *)
(* size of the output, the window, the session and the client itself.      *)
(*                                                                         *)
(* Of the pixels only their source and size are kept. Every session is one *)
(* client's; a protocol error disconnects the client and destroys what it  *)
(* had. No code unmaps an output or takes its mode away, so that the       *)
(* branches for it are left out. Rendering may fail (external).            *)
(***************************************************************************)
EXTENDS Naturals, FiniteSets

CONSTANTS Clients,             \* each with at most one session at a time
          MaxSessions,         \* MAX_SESSIONS, of sessions and of pending frames
          MaskBits,            \* the width of a mask of workspaces, 32
          MaxWorkspaces,       \* how many there may be
          Modes, Huge,         \* sizes of the output; Huge is over MAX_PIXELS
          WindowSize,          \* of the window that is shared
          NoPixels

ASSUME CaptureAssumption ==
  /\ IsFiniteSet(Clients)
  /\ MaxSessions \in Nat /\ MaskBits \in Nat \ {0} /\ MaxWorkspaces \in Nat \ {0}
  /\ {Huge, WindowSize} \cap Modes = {} /\ Huge # WindowSize

VARIABLES
  screen,      \* what is there to capture
  session,     \* of each client
  dead,        \* frames that were destroyed while they were pending
  scheduled,   \* the flag for the timer
  timer        \* and the timer itself
vars == <<screen, session, dead, scheduled, timer>>

Sizes == Modes \cup {Huge, WindowSize}
Slots == 0..(MaxWorkspaces - 1)
Screens == [active : Slots, size : Modes \cup {Huge}, window : BOOLEAN]
Kinds == {"output", "window", "workspaces"}

\* Pixels of a workspace, or black ones.
Black == MaxWorkspaces
Pixels == [slot : Slots \cup {Black}, size : Sizes]

\* struct SessionData with the frame of the session.
Sessions ==
  [there : BOOLEAN, valid : BOOLEAN,     \* the session object, which may have begun stopped
   kind : Kinds, allowed : SUBSET Slots, \* CaptureSource
   size : Sizes, alive : BOOLEAN,
   last : Pixels \cup {NoPixels},        \* last_allowed
   frame : {"none", "made", "attached", "pending", "answered"},
   stops : 0..2]                         \* how often the client was told stopped

NoSession ==
  [there |-> FALSE, valid |-> FALSE, kind |-> "output", allowed |-> {}, size |-> Huge,
   alive |-> FALSE, last |-> NoPixels, frame |-> "none", stops |-> 0]

Init ==
  /\ screen \in [active : {0}, size : Modes, window : {TRUE}]
  /\ session = [c \in Clients |-> NoSession]
  /\ dead = 0 /\ scheduled = FALSE /\ timer = FALSE

\* The sessions whose data is still referred to, by their object or by a frame, and those
\* of them that count.
Held == {c \in Clients : session[c].there \/ session[c].frame # "none"}
Counted == {c \in Held : session[c].valid}
Pending == {c \in Clients : session[c].frame = "pending"}

-----------------------------------------------------------------------------
(* Sources and sessions                                                    *)

\* valid_mask() of a mask that can be written with MaskBits bits.
ValidMask(mask, count) == count <= MaskBits /\ mask # {} /\ mask \subseteq 0..(count - 1)

\* The bit that 1 << index tests: without overflow checks the shift wraps.
Bit(index) == index % MaskBits
Allowed(s) == Bit(screen.active) \in s.allowed

\* CreateSource of any manager, while there are count workspaces, with CreateSession. The
\* object is made in any case, and stopped at once when the source is not available or
\* there are too many.
CreateSession(c) ==
  /\ c \notin Held
  /\ \E kind \in Kinds, mask \in SUBSET (Slots \cap 0..(MaskBits - 1)),
        count \in (screen.active + 1)..MaxWorkspaces :
       LET size == IF kind = "window" THEN WindowSize ELSE screen.size
           valid == /\ Cardinality(Counted) < MaxSessions /\ size # Huge
                    /\ kind = "window" => screen.window
       IN /\ IF kind = "workspaces" THEN ValidMask(mask, count) ELSE mask = {}
          /\ session' = [session EXCEPT ![c] =
               [NoSession EXCEPT !.there = TRUE, !.valid = valid, !.alive = valid, !.kind = kind,
                                 !.allowed = mask, !.size = size,
                                 !.stops = IF valid THEN 0 ELSE 1]]
  /\ UNCHANGED <<screen, dead, scheduled, timer>>

DestroySession(c) ==
  /\ session[c].there
  /\ session' = [session EXCEPT ![c] =
       IF @.frame = "none" THEN NoSession ELSE [@ EXCEPT !.there = FALSE, !.alive = FALSE]]
  /\ UNCHANGED <<screen, dead, scheduled, timer>>

\* A frame that is pending stays in the list until the timer.
Dropped(c) == dead + (IF session[c].frame = "pending" THEN 1 ELSE 0)

\* A protocol error (DuplicateFrame, AlreadyCaptured, NoBuffer, InvalidBufferDamage), or
\* the client goes by itself.
Disconnect(c) ==
  /\ c \in Held
  /\ session' = [session EXCEPT ![c] = NoSession]
  /\ dead' = Dropped(c)
  /\ UNCHANGED <<screen, scheduled, timer>>

-----------------------------------------------------------------------------
(* Frames                                                                  *)

CreateFrame(c) ==
  /\ session[c].there /\ session[c].frame = "none"
  /\ session' = [session EXCEPT ![c].frame = "made"]
  /\ UNCHANGED <<screen, dead, scheduled, timer>>

\* A buffer of any size: whether it fits is seen when the pixels are copied.
AttachBuffer(c) ==
  /\ session[c].frame = "made"
  /\ session' = [session EXCEPT ![c].frame = "attached"]
  /\ UNCHANGED <<screen, dead, scheduled, timer>>

DestroyFrame(c) ==
  /\ session[c].frame # "none"
  /\ session' = [session EXCEPT ![c] =
       IF @.there THEN [@ EXCEPT !.frame = "none"]
       ELSE NoSession]
  /\ dead' = Dropped(c)
  /\ UNCHANGED <<screen, scheduled, timer>>

Answer(s) == [s EXCEPT !.frame = "answered"]

\* frame::Request::Capture of a frame with a buffer: refused, or pending until the timer,
\* which fails all that are pending if it cannot be made (fail_pending).
CaptureFrame(c) ==
  /\ session[c].frame = "attached"
  /\ \/ /\ session[c].alive /\ Cardinality(Pending) + dead < MaxSessions
        /\ session' = [session EXCEPT ![c].frame = "pending"]
        /\ scheduled' = TRUE /\ timer' = (timer \/ ~scheduled) /\ UNCHANGED dead
     \/ /\ session[c].alive /\ Cardinality(Pending) + dead < MaxSessions /\ ~scheduled
        /\ session' = [d \in Clients |-> IF d = c \/ d \in Pending THEN Answer(session[d])
                                         ELSE session[d]]
        /\ dead' = 0 /\ UNCHANGED <<scheduled, timer>>
     \/ /\ ~session[c].alive \/ Cardinality(Pending) + dead >= MaxSessions
        /\ session' = [session EXCEPT ![c] = Answer(@)]
        /\ UNCHANGED <<dead, scheduled, timer>>
  /\ UNCHANGED screen

-----------------------------------------------------------------------------
(* The timer                                                               *)

Stopped(s) == [Answer(s) EXCEPT !.alive = FALSE, !.stops = @ + (IF s.there THEN 1 ELSE 0)]

\* A faulty variant of Resized: what was shown last stays, at its old size.
ResizedKeepsLast(s) == [Answer(s) EXCEPT !.size = screen.size]

\* The output has another size: the client is told, and has to bring another buffer.
Resized(s) == [Answer(s) EXCEPT !.size = screen.size, !.last = NoPixels]

\* The pixels of render(), and those of a workspace that may not be shown: the last that
\* were allowed, or black ones. The renderer is not asked then.
Rendered(s) == [slot |-> screen.active, size |-> s.size]
Instead(s) == IF s.last = NoPixels THEN [slot |-> Black, size |-> s.size] ELSE s.last

\* They are kept for a workspace that may not be shown, and copied if the buffer fits.
Delivered(s, pixels) == [Answer(s) EXCEPT !.last = IF s.kind = "workspaces" THEN pixels ELSE @]

\* A faulty variant of Finished: a session whose window is gone stays alive.
FinishedAlive(s, fails) ==
  IF ~s.alive THEN Answer(s)
  ELSE IF s.kind = "window" /\ ~screen.window THEN [Stopped(s) EXCEPT !.alive = TRUE]
  ELSE IF s.kind # "window" /\ screen.size # s.size
  THEN IF screen.size = Huge THEN Stopped(s) ELSE Resized(s)
  ELSE IF s.kind = "workspaces" /\ ~Allowed(s) THEN Delivered(s, Instead(s))
  ELSE IF fails THEN Answer(s) ELSE Delivered(s, Rendered(s))

\* finish_pending() of one frame: a session that ended, a window that is gone and an output
\* of another size come before the pixels, whose rendering may fail.
Finished(s, fails) ==
  IF ~s.alive THEN Answer(s)
  ELSE IF s.kind = "window" /\ ~screen.window THEN Stopped(s)
  ELSE IF s.kind # "window" /\ screen.size # s.size
  THEN IF screen.size = Huge THEN Stopped(s) ELSE Resized(s)
  ELSE IF s.kind = "workspaces" /\ ~Allowed(s) THEN Delivered(s, Instead(s))
  ELSE IF fails THEN Answer(s) ELSE Delivered(s, Rendered(s))

\* The timer, which is not repeated, finishes every frame that is still there.
FinishPending ==
  /\ timer
  /\ \E failing \in SUBSET Pending :
       session' = [c \in Clients |-> IF c \in Pending THEN Finished(session[c], c \in failing)
                                     ELSE session[c]]
  /\ timer' = FALSE /\ scheduled' = FALSE /\ dead' = 0
  /\ UNCHANGED screen

-----------------------------------------------------------------------------
(* What changes on the screen meanwhile                                    *)

\* Another workspace is shown (WorkspaceNavigation).
SwitchTo(i) ==
  /\ i # screen.active
  /\ screen' = [screen EXCEPT !.active = i]
  /\ UNCHANGED <<session, dead, scheduled, timer>>

\* WinitEvent::Resized
Resize(size) ==
  /\ size # screen.size
  /\ screen' = [screen EXCEPT !.size = size]
  /\ UNCHANGED <<session, dead, scheduled, timer>>

\* The window that is shared closes; its id is not used again.
WindowCloses ==
  /\ screen.window
  /\ screen' = [screen EXCEPT !.window = FALSE]
  /\ UNCHANGED <<session, dead, scheduled, timer>>

Next ==
  \/ \E c \in Clients : \/ CreateSession(c) \/ DestroySession(c) \/ Disconnect(c)
                        \/ CreateFrame(c) \/ AttachBuffer(c) \/ DestroyFrame(c)
                        \/ CaptureFrame(c)
  \/ FinishPending
  \/ \E i \in Slots : SwitchTo(i)
  \/ \E size \in Modes \cup {Huge} : Resize(size)
  \/ WindowCloses

Spec == Init /\ [][Next]_vars

-----------------------------------------------------------------------------
(* What must hold                                                          *)

\* The state is of its type.
TypeOK ==
  /\ screen \in Screens /\ session \in [Clients -> Sessions]
  /\ dead \in 0..MaxSessions /\ scheduled \in BOOLEAN /\ timer \in BOOLEAN

\* What a client that may see some workspaces is given while another is shown has the size
\* it was told, as the copy into its buffer takes for granted (capture.rs:462), and shows
\* nothing but those workspaces, however screen and workspace changed between the capture
\* and the timer (capture.rs:414). One beyond the width of the mask escapes this.
SharedAsAllowed ==
  \A c \in Clients : LET s == session[c] IN s.last # NoPixels =>
    /\ s.last.size = s.size
    /\ s.last.slot \in s.allowed \cup {Black} \cup (Slots \ 0..(MaskBits - 1))

\* Pending frames are few and have a timer, the flag for it is true to it, and a client is
\* told once that its session has stopped, after which it gets nothing more.
FramesAccounted ==
  /\ TypeOK
  /\ Cardinality(Pending) + dead <= MaxSessions /\ Cardinality(Counted) <= MaxSessions
  /\ Pending # {} \/ dead > 0 => scheduled
  /\ scheduled = timer
  /\ \A c \in Clients : session[c].stops <= 1 /\ (session[c].stops = 1 => ~session[c].alive)
=============================================================================

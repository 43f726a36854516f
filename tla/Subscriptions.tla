---------------------------- MODULE Subscriptions ----------------------------
(***************************************************************************)
(* ipc/subscriptions.rs: the event loop publishes snapshots and events to  *)
(* subscribers, each served by a thread of its own. Between the two are    *)
(* three mailboxes, each behind its own lock, and a wake socket that is    *)
(* written only when a mailbox was empty.                                  *)
(*                                                                         *)
(* A frame is a number: the generation of a snapshot, the serial number of *)
(* a reload event or of a shortcut event. 0 is an empty mailbox, and in    *)
(* the queue of shortcuts the error frame that reports an overflow.        *)
(***************************************************************************)
EXTENDS Integers, Sequences

CONSTANTS Subscribers,     \* connections that may subscribe, each once
          Contents,        \* what a snapshot can show
          MaxPending,      \* MAX_PENDING_SHORTCUT_EVENTS, 64 in the program
          MaxGeneration, MaxReloads, MaxShortcuts  \* bounds on what is published

ASSUME SubscriptionsAssumption ==
  /\ MaxPending \in Nat \ {0}
  /\ MaxGeneration \in Nat \ {0} /\ MaxReloads \in Nat /\ MaxShortcuts \in Nat
  /\ Contents # {}

VARIABLES
  desktop, dirty,        \* the state a snapshot shows; desktop_state_dirty
  snapshot,              \* Subscriptions.snapshot, generation 0 before the first
  reloads, shortcuts,    \* events published so far
  registered,            \* Subscriptions.subscribers
  owed,                  \* whom the loop still has to wake for a shortcut
  latest, event, queue,  \* the mailboxes of a Subscriber
  wake,                  \* its wake socket is readable
  phase, hand,           \* its thread: where it is, what it holds
  open,                  \* the client's end of the connection
  seen                   \* what the client has been told

loop    == <<desktop, dirty, snapshot, reloads, shortcuts, registered>>
mail    == <<latest, event, queue>>
vars    == <<loop, owed, mail, wake, phase, hand, open, seen>>

Serving == {"initial", "polling", "drained", "tookSnapshot", "tookEvent", "writing"}
Nothing == [snapshot |-> 0, event |-> 0, shortcuts |-> <<>>]

TypeOK ==
  /\ desktop \in Contents /\ dirty \in BOOLEAN
  /\ snapshot \in [generation : 0 .. MaxGeneration, content : Contents]
  /\ reloads \in 0 .. MaxReloads /\ shortcuts \in 0 .. MaxShortcuts
  /\ registered \in SUBSET Subscribers /\ owed \in SUBSET Subscribers
  /\ latest \in [Subscribers -> 0 .. MaxGeneration]
  /\ event \in [Subscribers -> 0 .. MaxReloads]
  /\ queue \in [Subscribers -> Seq(0 .. MaxShortcuts)]
  /\ \A w \in Subscribers : Len(queue[w]) <= MaxPending
  /\ wake \in [Subscribers -> BOOLEAN]
  /\ phase \in [Subscribers -> {"idle", "asked", "ended"} \cup Serving]
  /\ hand \in [Subscribers -> [snapshot : 0 .. MaxGeneration, event : 0 .. MaxReloads,
                               shortcuts : Seq(0 .. MaxShortcuts)]]
  /\ open \in [Subscribers -> BOOLEAN]
  /\ seen \in [Subscribers -> [snapshot : 0 .. MaxGeneration, event : 0 .. MaxReloads,
                               shortcut : 0 .. MaxShortcuts, warned : BOOLEAN]]

Init ==
  /\ desktop \in Contents /\ dirty = TRUE
  /\ snapshot = [generation |-> 0, content |-> desktop]
  /\ reloads = 0 /\ shortcuts = 0 /\ registered = {} /\ owed = {}
  /\ latest = [w \in Subscribers |-> 0] /\ event = [w \in Subscribers |-> 0]
  /\ queue = [w \in Subscribers |-> <<>>] /\ wake = [w \in Subscribers |-> FALSE]
  /\ phase = [w \in Subscribers |-> "idle"] /\ hand = [w \in Subscribers |-> Nothing]
  /\ open = [w \in Subscribers |-> TRUE]
  /\ seen = [w \in Subscribers |->
               [snapshot |-> 0, event |-> 0, shortcut |-> 0, warned |-> FALSE]]

-----------------------------------------------------------------------------
(* The event loop                                                          *)

\* Subscribers whose thread has ended are forgotten by the next publication.
Alive == {w \in registered : phase[w] # "ended"}

\* Something a snapshot shows changes, perhaps back again.
Mutate(c) ==
  /\ owed = {} /\ c # desktop /\ snapshot.generation < MaxGeneration
  /\ desktop' = c /\ dirty' = TRUE
  /\ UNCHANGED <<snapshot, reloads, shortcuts, registered, owed, mail, wake, phase,
                 hand, open, seen>>

\* publish_desktop_state() has something new to publish.
Changed == /\ dirty \/ snapshot.generation = 0
           /\ snapshot.generation = 0 \/ snapshot.content # desktop

Published ==
  IF Changed THEN [generation |-> snapshot.generation + 1, content |-> desktop]
  ELSE snapshot

\* A faulty variant of Replace: an unread snapshot stays and the new one is lost.
ReplaceKeepsUnread(W) ==
  /\ latest' = [w \in Subscribers |-> IF w \in W /\ latest[w] = 0 THEN snapshot'.generation
                                     ELSE latest[w]]
  /\ wake' = [w \in Subscribers |-> wake[w] \/ (w \in W /\ latest[w] = 0)]

\* Subscriber::publish() of the new snapshot to everyone in W, under the lock of
\* `latest`.
Replace(W) ==
  /\ latest' = [w \in Subscribers |-> IF w \in W THEN snapshot'.generation ELSE latest[w]]
  /\ wake' = [w \in Subscribers |-> wake[w] \/ (w \in W /\ latest[w] = 0)]

\* publish_desktop_state(), at the end of every iteration and for a query.
Publish ==
  /\ owed = {} /\ (Changed => snapshot.generation < MaxGeneration)
  /\ dirty' = FALSE
  /\ snapshot' = Published
  /\ registered' = IF Changed THEN Alive ELSE registered
  /\ Replace(IF Changed THEN Alive ELSE {})
  /\ UNCHANGED <<desktop, reloads, shortcuts, owed, event, queue, phase, hand, open, seen>>

\* A faulty variant of Subscribe: the first frame is the one published before.
SubscribeStale(w) ==
  /\ owed = {} /\ (Changed => snapshot.generation < MaxGeneration)
  /\ phase[w] = "asked"
  /\ dirty' = FALSE
  /\ snapshot' = Published
  /\ registered' = Alive \cup {w}
  /\ Replace(IF Changed THEN Alive ELSE {})
  /\ phase' = [phase EXCEPT ![w] = "initial"]
  /\ hand' = [hand EXCEPT ![w].snapshot = snapshot.generation]
  /\ seen' = [seen EXCEPT ![w].event = reloads, ![w].shortcut = shortcuts]
  /\ UNCHANGED <<desktop, reloads, shortcuts, owed, event, queue, open>>

\* The request Subscribe: the first frame is the state at the registration.
Subscribe(w) ==
  /\ owed = {} /\ (Changed => snapshot.generation < MaxGeneration)
  /\ phase[w] = "asked"
  /\ dirty' = FALSE
  /\ snapshot' = Published
  /\ registered' = Alive \cup {w}
  /\ Replace(IF Changed THEN Alive ELSE {})
  /\ phase' = [phase EXCEPT ![w] = "initial"]
  /\ hand' = [hand EXCEPT ![w].snapshot = snapshot'.generation]
  /\ seen' = [seen EXCEPT ![w].event = reloads, ![w].shortcut = shortcuts]
  /\ UNCHANGED <<desktop, reloads, shortcuts, owed, event, queue, open>>

\* publish_event(ConfigurationReloaded): an unread one is replaced.
Reload ==
  /\ owed = {} /\ reloads < MaxReloads
  /\ reloads' = reloads + 1
  /\ registered' = Alive
  /\ event' = [w \in Subscribers |-> IF w \in Alive THEN reloads' ELSE event[w]]
  /\ wake' = [w \in Subscribers |-> wake[w] \/ (w \in Alive /\ event[w] = 0)]
  /\ UNCHANGED <<desktop, dirty, snapshot, shortcuts, owed, latest, queue, phase, hand,
                 open, seen>>

\* A faulty variant of Enqueued: a full queue silently loses its oldest event.
EnqueuedDropsOldest(q, k) == Append(IF Len(q) >= MaxPending THEN Tail(q) ELSE q, k)

\* publish_shortcut_event(): a full queue is replaced by one error frame.
Enqueued(q, k) == IF Len(q) >= MaxPending THEN <<0>> ELSE Append(q, k)

\* A faulty variant of Shortcut: the length is read before the event is queued.
ShortcutWakesLate ==
  /\ owed = {} /\ shortcuts < MaxShortcuts
  /\ shortcuts' = shortcuts + 1
  /\ registered' = Alive
  /\ queue' = [w \in Subscribers |->
                 IF w \in Alive THEN Enqueued(queue[w], shortcuts') ELSE queue[w]]
  /\ owed' = {w \in Alive : Len(queue[w]) = 1}
  /\ UNCHANGED <<desktop, dirty, snapshot, reloads, latest, event, wake, phase, hand,
                 open, seen>>

\* The same for a shortcut, whose wake is written after the lock is released.
Shortcut ==
  /\ owed = {} /\ shortcuts < MaxShortcuts
  /\ shortcuts' = shortcuts + 1
  /\ registered' = Alive
  /\ queue' = [w \in Subscribers |->
                 IF w \in Alive THEN Enqueued(queue[w], shortcuts') ELSE queue[w]]
  /\ owed' = {w \in Alive : Len(queue'[w]) = 1}
  /\ UNCHANGED <<desktop, dirty, snapshot, reloads, latest, event, wake, phase, hand,
                 open, seen>>

\* A wake that finds the thread gone drops the subscriber.
Wake(w) ==
  /\ w \in owed
  /\ owed' = owed \ {w}
  /\ wake' = [wake EXCEPT ![w] = TRUE]
  /\ registered' = IF phase[w] = "ended" THEN registered \ {w} ELSE registered
  /\ UNCHANGED <<desktop, dirty, snapshot, reloads, shortcuts, mail, phase, hand, open,
                 seen>>

-----------------------------------------------------------------------------
(* The thread of a subscriber and its client                               *)

Goto(w, p) == phase' = [phase EXCEPT ![w] = p]

\* The client asks, on a connection of its own.
Ask(w) ==
  /\ phase[w] = "idle" /\ Goto(w, "asked")
  /\ UNCHANGED <<loop, owed, mail, wake, hand, open, seen>>

\* The client closes its end.
Close(w) ==
  /\ open[w] /\ open' = [open EXCEPT ![w] = FALSE]
  /\ UNCHANGED <<loop, owed, mail, wake, phase, hand, seen>>

\* The request is not executed in time, requests were pipelined behind it, or a
\* write fails or times out: the connection is closed.
End(w) ==
  /\ phase[w] \in {"asked", "initial", "writing"}
  /\ Goto(w, "ended") /\ open' = [open EXCEPT ![w] = FALSE]
  /\ UNCHANGED <<loop, owed, mail, wake, hand, seen>>

\* serve_connection() writes the first frame.
WriteInitial(w) ==
  /\ phase[w] = "initial" /\ open[w]
  /\ seen' = [seen EXCEPT ![w].snapshot = hand[w].snapshot]
  /\ hand' = [hand EXCEPT ![w] = Nothing]
  /\ Goto(w, "polling")
  /\ UNCHANGED <<loop, owed, mail, wake, open>>

\* serve(): the poll returns for the client's end or for the wake socket, which
\* is then read until it is empty.
Poll(w) ==
  /\ phase[w] = "polling" /\ (~open[w] \/ wake[w])
  /\ Goto(w, IF open[w] THEN "drained" ELSE "ended")
  /\ wake' = [wake EXCEPT ![w] = @ /\ ~open[w]]
  /\ UNCHANGED <<loop, owed, mail, hand, open, seen>>

\* The mailboxes are emptied one after the other.
TakeSnapshot(w) ==
  /\ phase[w] = "drained" /\ Goto(w, "tookSnapshot")
  /\ hand' = [hand EXCEPT ![w].snapshot = latest[w]]
  /\ latest' = [latest EXCEPT ![w] = 0]
  /\ UNCHANGED <<loop, owed, event, queue, wake, open, seen>>

TakeEvent(w) ==
  /\ phase[w] = "tookSnapshot" /\ Goto(w, "tookEvent")
  /\ hand' = [hand EXCEPT ![w].event = event[w]]
  /\ event' = [event EXCEPT ![w] = 0]
  /\ UNCHANGED <<loop, owed, latest, queue, wake, open, seen>>

TakeShortcuts(w) ==
  /\ phase[w] = "tookEvent" /\ Goto(w, "writing")
  /\ hand' = [hand EXCEPT ![w].shortcuts = queue[w]]
  /\ queue' = [queue EXCEPT ![w] = <<>>]
  /\ UNCHANGED <<loop, owed, latest, event, wake, open, seen>>

\* They are written in that order, one frame at a time.
WriteSnapshot(w) ==
  /\ phase[w] = "writing" /\ open[w] /\ hand[w].snapshot # 0
  /\ seen' = [seen EXCEPT ![w].snapshot = hand[w].snapshot]
  /\ hand' = [hand EXCEPT ![w].snapshot = 0]
  /\ UNCHANGED <<loop, owed, mail, wake, phase, open>>

WriteEvent(w) ==
  /\ phase[w] = "writing" /\ open[w] /\ hand[w].snapshot = 0 /\ hand[w].event # 0
  /\ seen' = [seen EXCEPT ![w].event = hand[w].event]
  /\ hand' = [hand EXCEPT ![w].event = 0]
  /\ UNCHANGED <<loop, owed, mail, wake, phase, open>>

WriteShortcut(w) ==
  /\ phase[w] = "writing" /\ open[w] /\ hand[w].snapshot = 0 /\ hand[w].event = 0
  /\ hand[w].shortcuts # <<>>
  /\ LET k == Head(hand[w].shortcuts)
     IN seen' = [seen EXCEPT ![w].shortcut = IF k = 0 THEN @ ELSE k,
                             ![w].warned = k = 0]
  /\ hand' = [hand EXCEPT ![w].shortcuts = Tail(@)]
  /\ UNCHANGED <<loop, owed, mail, wake, phase, open>>

\* A faulty variant of PollAgain: the wake socket is read once more on the way.
PollAgainDrains(w) ==
  /\ phase[w] = "writing" /\ hand[w] = Nothing /\ Goto(w, "polling")
  /\ wake' = [wake EXCEPT ![w] = FALSE]
  /\ UNCHANGED <<loop, owed, mail, hand, open, seen>>

PollAgain(w) ==
  /\ phase[w] = "writing" /\ hand[w] = Nothing /\ Goto(w, "polling")
  /\ UNCHANGED <<loop, owed, mail, wake, hand, open, seen>>

Serve(w) ==
  \/ WriteInitial(w) \/ Poll(w) \/ TakeSnapshot(w) \/ TakeEvent(w) \/ TakeShortcuts(w)
  \/ WriteSnapshot(w) \/ WriteEvent(w) \/ WriteShortcut(w) \/ PollAgain(w)
  \/ ~open[w] /\ phase[w] # "asked" /\ End(w)

Next ==
  \/ \E c \in Contents : Mutate(c)
  \/ Publish \/ Reload \/ Shortcut
  \/ \E w \in Subscribers :
       \/ Subscribe(w) \/ Wake(w)
       \/ Ask(w) \/ Close(w) \/ End(w) \/ Serve(w)

\* The loop ends its iterations and finishes what it has begun; a thread runs
\* while it can. Nothing makes a client ask or a write fail.
Fairness ==
  /\ WF_vars(Publish)
  /\ \A w \in Subscribers : WF_vars(Wake(w)) /\ WF_vars(Serve(w))

Spec == Init /\ [][Next]_vars /\ Fairness

-----------------------------------------------------------------------------
(* What must hold                                                          *)

\* No wake is lost: while a mailbox holds a frame, the thread is on its way to
\* it, or will find its wake socket readable when it polls next.
NoLostWake ==
  /\ TypeOK
  /\ \A w \in registered :
       phase[w] # "ended" =>
         /\ latest[w] # 0 => wake[w] \/ phase[w] = "drained"
         /\ event[w] # 0 => wake[w] \/ phase[w] \in {"drained", "tookSnapshot"}
         /\ queue[w] # <<>> =>
              wake[w] \/ w \in owed \/ phase[w] \in {"drained", "tookSnapshot", "tookEvent"}

\* The newest snapshot on its way to a subscriber, or else the one it has.
Newest(w) ==
  IF latest[w] # 0 THEN latest[w]
  ELSE IF hand[w].snapshot # 0 THEN hand[w].snapshot ELSE seen[w].snapshot

\* No publication misses a subscriber, whatever its thread is doing, and what it
\* holds never overtakes what the client has: seen, then held, then waiting.
NothingMissed ==
  \A w \in registered :
    phase[w] # "ended" =>
      /\ Newest(w) = snapshot.generation
      /\ hand[w].snapshot # 0 => hand[w].snapshot > seen[w].snapshot
      /\ latest[w] # 0 => latest[w] > hand[w].snapshot /\ latest[w] > seen[w].snapshot

\* Shortcut events reach a client in order, and it is told of a gap by an error
\* frame in the place of the ones that are missing.
GapsAnnounced ==
  [][\A w \in Subscribers :
       phase[w] \in Serving /\ seen'[w].shortcut # seen[w].shortcut =>
         \/ seen'[w].shortcut = seen[w].shortcut + 1
         \/ (seen[w].warned /\ seen'[w].shortcut > seen[w].shortcut)]_vars

\* Everything published to a subscriber arrives or is replaced by something
\* newer that does, unless its connection ends.
EventsArrive ==
  \A w \in Subscribers :
    /\ \A r \in 1 .. MaxReloads :
         (w \in Alive /\ reloads = r) ~> (phase[w] = "ended" \/ seen[w].event >= r)
    /\ \A k \in 1 .. MaxShortcuts :
         (w \in Alive /\ shortcuts = k)
           ~> (phase[w] = "ended" \/ seen[w].shortcut >= k \/ seen[w].warned)

-----------------------------------------------------------------------------
(* The feed it implements                                                  *)

\* The first frame counts as shown from the registration on.
View(w) == IF seen[w].snapshot = 0 THEN hand[w].snapshot ELSE seen[w].snapshot

Feed == INSTANCE SnapshotFeed WITH
          generation <- snapshot.generation,
          live <- {w \in Subscribers : phase[w] \in Serving},
          view <- [w \in Subscribers |-> View(w)]

\* Mailboxes, locks and wakes amount to the feed: a subscriber sees generations
\* go up from the one it joined at, and reaches the newest while it stays.
FeedImplemented == Feed!Spec
=============================================================================

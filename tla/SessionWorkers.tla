----------------------------- MODULE SessionWorkers -----------------------------
(***************************************************************************)
(* The two lazily started worker threads beside the event loop, each with  *)
(* a queue of one place: the activation worker (session.rs) runs the       *)
(* commands that publish the session's environment, one child process at a *)
(* time, and the notifier (screenshot_notification.rs) shows screenshots   *)
(* on the session bus and keeps a second thread that opens a file when its *)
(* notification is clicked. Dropping the compositor's state stops and      *)
(* joins them, in the order of its fields: the notifier first.             *)
(*                                                                         *)
(* An environment is reduced to whether it names the DISPLAY of XWayland.  *)
(* The child processes, the session bus and the notification daemon are    *)
(* not Villain's: they may fail, end early, hang or start again. Nothing   *)
(* interrupts a wait for one of them: not for a new connection, for the    *)
(* subscription of a watcher, for the reply of Notify nor for xdg-open.    *)
(***************************************************************************)
EXTENDS Naturals, FiniteSets, SequencesExt, Functions

CONSTANTS MaxRequests,         \* bounds activations and screenshots together
          MaxPendingActions,   \* MAX_PENDING_ACTIONS
          NoJob, NoFile, NoAnswer, Failure

ASSUME WorkersAssumption ==
  /\ MaxRequests \in Nat \ {0} /\ MaxPendingActions \in Nat \ {0}
  /\ {NoFile, NoAnswer, Failure} \cap 1..MaxRequests = {}

VARIABLES
  main,        \* "running", then what is being dropped: "notifier", "activation", "gone"
  requests,    \* how many were submitted
  xwayland,    \* the display is ready
  activation, notifier, bus
vars == <<main, requests, xwayland, activation, notifier, bus>>

Files == 1..MaxRequests        \* a screenshot is named by the request that took it
Jobs == [display : BOOLEAN, portal : BOOLEAN]
Running == main = "running"

\* The commands of a job, in order.
Imports == <<"systemd", "dbus">>
Commands(job) == IF job.portal THEN Imports \o <<"backends", "frontend">> ELSE Imports

Activations ==
  [thread : {"unstarted", "failed", "waiting", "working", "ended"},
   queue : SeqOf(Jobs \cup {NoJob}, 1),          \* NoJob is ActivationCommand::Stop
   stop : BOOLEAN,
   job : Jobs \cup {NoJob}, left : SeqOf(ToSet(Imports) \cup {"backends", "frontend"}, 4),
   child : {"none", "alive", "exited"},
   tried : BOOLEAN,                              \* an environment with the display
   lost : BOOLEAN]                               \* one was dropped

Notifiers ==
  [worker : {"unstarted", "waiting", "connecting", "dialling", "watching", "sending", "closing",
             "ended"},
   queue : SeqOf(Files \X BOOLEAN, 1),           \* a screenshot, and whether it is a file
   stop : BOOLEAN, notice : (Files \X BOOLEAN) \cup {<<NoFile, FALSE>>},
   answer : {NoAnswer, Failure} \cup Files,       \* the id that the daemon gave
   connected : BOOLEAN,
   watcher : {"none", "subscribing", "checking", "listening", "opening", "finished"},
   watcherStop : BOOLEAN,
   watched : BOOLEAN,                            \* by this connection
   actions : UNION {[ids -> Files] : ids \in SUBSET Files}]

Buses ==
  [up : BOOLEAN,                                 \* the connection is not closed
   shown : UNION {[ids -> Files] : ids \in SUBSET Files},
   next : 1..(MaxRequests + 1), signals : SeqOf({"closed", "invoked"} \X Files, 1),
   clicked : SUBSET Files, opened : SeqOf(Files, MaxRequests), restarted : BOOLEAN]

-----------------------------------------------------------------------------
(* The activation worker                                                   *)

\* submit() of a job to a: a queue that is full drops what comes last.
Submitted(a, job) ==
  IF a.thread = "failed" THEN [a EXCEPT !.lost = @ \/ job.display]
  ELSE IF a.queue = <<>> THEN [a EXCEPT !.queue = <<job>>]
  ELSE [a EXCEPT !.lost = @ \/ job.display]

\* start(): a thread that could not be started is not tried again.
Started(a) ==
  IF a.thread # "unstarted" THEN {a}
  ELSE {[a EXCEPT !.thread = "waiting"], [a EXCEPT !.thread = "failed"]}

Activate(job) ==
  /\ Running /\ requests < MaxRequests
  /\ \E a \in Started(activation) : activation' = Submitted(a, job)
  /\ requests' = requests + 1
  /\ UNCHANGED <<main, notifier, bus>>

\* Dispatch::ReloadConfig
Reload == Activate([display |-> xwayland, portal |-> FALSE]) /\ UNCHANGED xwayland

\* XWaylandEvent::Ready
XWaylandReady ==
  /\ ~xwayland /\ Activate([display |-> TRUE, portal |-> FALSE])
  /\ xwayland' = TRUE

\* The worker's loop between two jobs.
TakeJob ==
  /\ activation.thread = "waiting" /\ activation.queue # <<>>
  /\ LET job == Head(activation.queue)
         a == [activation EXCEPT !.queue = <<>>]
     IN activation' = IF job = NoJob \/ a.stop THEN [a EXCEPT !.thread = "ended"]
                      ELSE [a EXCEPT !.thread = "working", !.job = job, !.left = Commands(job)]
  /\ UNCHANGED <<main, requests, xwayland, notifier, bus>>

\* A faulty variant of NextCommand: the thread ends with its first job.
NextCommandOnce(a) ==
  LET b == [a EXCEPT !.child = "none", !.left = Tail(@),
                     !.tried = @ \/ (Head(a.left) = "dbus" /\ a.job.display)]
  IN IF b.left # <<>> THEN b ELSE [b EXCEPT !.job = NoJob, !.thread = "ended"]

\* run() ends a command: the next one, or after the last the next job.
NextCommand(a) ==
  LET b == [a EXCEPT !.child = "none", !.left = Tail(@),
                     !.tried = @ \/ (Head(a.left) = "dbus" /\ a.job.display)]
  IN IF b.left # <<>> THEN b
     ELSE [b EXCEPT !.job = NoJob, !.thread = IF a.stop THEN "ended" ELSE "waiting"]

\* The child is started. A command that is not installed or cannot be run counts as done.
SpawnCommand ==
  /\ activation.thread = "working" /\ activation.child = "none"
  /\ \/ activation' = [activation EXCEPT !.child = "alive"]
     \/ activation' = NextCommand(activation)
  /\ UNCHANGED <<main, requests, xwayland, notifier, bus>>

\* The child ends of itself, well or badly (external).
CommandExits ==
  /\ activation.child = "alive"
  /\ activation' = [activation EXCEPT !.child = "exited"]
  /\ UNCHANGED <<main, requests, xwayland, notifier, bus>>

\* A faulty variant of PollCommand: the stop flag is read only between two commands.
PollCommandBlocks ==
  /\ activation.thread = "working" /\ activation.child = "exited"
  /\ activation' = NextCommand(activation)
  /\ UNCHANGED <<main, requests, xwayland, notifier, bus>>

\* One turn of the polling loop of run(): a stop kills and reaps the child and gives up
\* the rest of the job, even if the child has just ended.
PollCommand ==
  /\ activation.thread = "working"
  /\ \/ /\ activation.stop /\ activation.child \in {"alive", "exited"}
        /\ activation' = [activation EXCEPT !.child = "none", !.left = <<>>, !.job = NoJob,
                                            !.thread = "ended"]
     \/ /\ ~activation.stop /\ activation.child = "exited"
        /\ activation' = NextCommand(activation)
  /\ UNCHANGED <<main, requests, xwayland, notifier, bus>>

-----------------------------------------------------------------------------
(* The notifier                                                            *)

\* finish() of a screenshot submits its notice; only a saved one can be opened. The worker
\* is started by the first, or by a later one when it could not be.
Screenshot(saved) ==
  /\ Running /\ requests < MaxRequests
  /\ requests' = requests + 1
  /\ \/ /\ notifier.worker = "unstarted" /\ UNCHANGED notifier
     \/ notifier' = [notifier EXCEPT !.worker = IF @ = "unstarted" THEN "waiting" ELSE @,
                                     !.queue = IF @ = <<>> THEN <<<<requests + 1, saved>>>> ELSE @]
  /\ UNCHANGED <<main, xwayland, activation, bus>>

\* A watcher that has ended is forgotten at the top of the worker's loop, before it waits.
Reaped(n) ==
  IF n.watcher = "finished" THEN [n EXCEPT !.watcher = "none", !.watcherStop = FALSE] ELSE n

Idle(n) == Reaped([n EXCEPT !.worker = IF n.stop THEN "closing" ELSE "waiting",
                            !.notice = <<NoFile, FALSE>>, !.answer = NoAnswer])

\* recv(): a notice, or the end of the channel.
TakeNotice ==
  /\ notifier.worker = "waiting"
  /\ \/ /\ notifier.queue # <<>>
        /\ notifier' = [notifier EXCEPT !.queue = <<>>, !.notice = Head(notifier.queue),
                                        !.worker = IF notifier.stop THEN "closing" ELSE "connecting"]
     \/ /\ notifier.queue = <<>> /\ ~Running
        /\ notifier' = [notifier EXCEPT !.worker = "closing"]
  /\ UNCHANGED <<main, requests, xwayland, activation, bus>>

\* A new connection is asked for when there is none or it was closed.
Connect ==
  /\ notifier.worker = "connecting"
  /\ notifier' = [notifier EXCEPT !.worker = IF notifier.connected /\ bus.up THEN "watching"
                                             ELSE "dialling"]
  /\ UNCHANGED <<main, requests, xwayland, activation, bus>>

\* A watcher of the old connection is told to stop and joined, then the notice is sent
\* with a new one listening, unless its thread cannot be started.
NeedsWatcher == notifier.watcher = "none" \/ ~notifier.watched
StopWatcher ==
  /\ notifier.worker = "watching" /\ NeedsWatcher /\ notifier.watcher # "none" /\ ~notifier.watcherStop
  /\ notifier' = [notifier EXCEPT !.watcherStop = TRUE]
  /\ UNCHANGED <<main, requests, xwayland, activation, bus>>
StartWatcher ==
  /\ notifier.worker = "watching" /\ NeedsWatcher
  /\ \/ notifier.watcher = "none"
     \/ notifier.watcher = "finished" /\ notifier.watcherStop
  /\ \E started \in {"subscribing", "none"} :
       notifier' = [notifier EXCEPT !.watcher = started, !.watcherStop = FALSE,
                                    !.watched = started # "none", !.worker = "sending"]
  /\ UNCHANGED <<main, requests, xwayland, activation, bus>>
KeepWatcher ==
  /\ notifier.worker = "watching" /\ ~NeedsWatcher
  /\ notifier' = [notifier EXCEPT !.worker = "sending"]
  /\ UNCHANGED <<main, requests, xwayland, activation, bus>>

Put(f, id, file) == [i \in DOMAIN f \cup {id} |-> IF i = id THEN file ELSE f[i]]
Without(f, id) == [i \in DOMAIN f \ {id} |-> f[i]]

\* The reply of Notify arrives, or an error does. While more are kept than allowed, the
\* one with the smallest id is dropped.
Sent ==
  /\ notifier.worker = "sending" /\ notifier.answer # NoAnswer
  /\ notifier' =
       IF notifier.answer = Failure \/ ~notifier.notice[2] THEN Idle(notifier)
       ELSE LET all == Put(notifier.actions, notifier.answer, notifier.notice[1])
                kept == IF Cardinality(DOMAIN all) > MaxPendingActions
                        THEN Without(all, Min(DOMAIN all)) ELSE all
            IN Idle([notifier EXCEPT !.actions = kept])
  /\ UNCHANGED <<main, requests, xwayland, activation, bus>>

\* A faulty variant of CloseWorker: the watcher is left to end by itself.
CloseWorkerDetached ==
  /\ notifier.worker = "closing"
  /\ notifier' = [notifier EXCEPT !.worker = "ended", !.stop = TRUE]
  /\ UNCHANGED <<main, requests, xwayland, activation, bus>>

\* The worker leaves its loop and joins the watcher.
CloseWorker ==
  /\ notifier.worker = "closing"
  /\ \/ /\ ~notifier.stop
        /\ notifier' = [notifier EXCEPT !.stop = TRUE]
     \/ /\ notifier.stop /\ notifier.watcher \in {"none", "finished"}
        /\ notifier' = [notifier EXCEPT !.worker = "ended"]
  /\ UNCHANGED <<main, requests, xwayland, activation, bus>>

\* The watcher's loop: it looks at its two stop flags, then waits for a signal for at
\* most STOP_POLL.
WatcherChecks ==
  /\ notifier.watcher = "checking"
  /\ notifier' = [notifier EXCEPT !.watcher =
                    IF notifier.stop \/ notifier.watcherStop THEN "finished" ELSE "listening"]
  /\ UNCHANGED <<main, requests, xwayland, activation, bus>>
WatcherTimesOut ==
  /\ notifier.watcher = "listening"
  /\ notifier' = [notifier EXCEPT !.watcher = "checking"]
  /\ UNCHANGED <<main, requests, xwayland, activation, bus>>

\* The stream fails.
WatcherFails ==
  /\ notifier.watcher = "listening"
  /\ notifier' = [notifier EXCEPT !.watcher = "finished"]
  /\ UNCHANGED <<main, requests, xwayland, activation, bus>>

Listening == notifier.watcher = "listening" /\ notifier.watched /\ bus.up

\* A faulty variant of HandleSignal: the target stays when it has been opened.
HandleSignalKeeps ==
  /\ Listening /\ bus.signals # <<>>
  /\ LET kind == Head(bus.signals)[1]
         id == Head(bus.signals)[2]
         opens == kind = "invoked" /\ id \in DOMAIN notifier.actions
     IN /\ bus' = [bus EXCEPT !.signals = Tail(@),
                              !.opened = IF opens THEN Append(@, notifier.actions[id]) ELSE @]
        /\ notifier' = [notifier EXCEPT !.watcher = IF opens THEN "opening" ELSE "checking",
                                        !.actions = IF opens THEN @ ELSE Without(@, id)]
  /\ UNCHANGED <<main, requests, xwayland, activation>>

\* NotificationClosed and ActionInvoked, of any client of the daemon. The lock on the
\* targets is released before xdg-open runs, and the watcher waits for it to end.
HandleSignal ==
  /\ Listening /\ bus.signals # <<>>
  /\ LET kind == Head(bus.signals)[1]
         id == Head(bus.signals)[2]
         opens == kind = "invoked" /\ id \in DOMAIN notifier.actions
     IN /\ bus' = [bus EXCEPT !.signals = Tail(@),
                              !.opened = IF opens THEN Append(@, notifier.actions[id]) ELSE @]
        /\ notifier' = [notifier EXCEPT !.watcher = IF opens THEN "opening" ELSE "checking",
                                        !.actions = Without(@, id)]
  /\ UNCHANGED <<main, requests, xwayland, activation>>

\* xdg-open ends, or could not be run at all (external).
OpenerEnds ==
  /\ notifier.watcher = "opening"
  /\ notifier' = [notifier EXCEPT !.watcher = "checking"]
  /\ UNCHANGED <<main, requests, xwayland, activation, bus>>

-----------------------------------------------------------------------------
(* The session bus and the notification daemon (external)                  *)

\* Connection::session() returns, with a connection or an error.
BusConnects ==
  /\ notifier.worker = "dialling"
  /\ \/ /\ notifier' = [notifier EXCEPT !.worker = "watching", !.connected = TRUE, !.watched = FALSE]
        /\ bus' = [bus EXCEPT !.up = TRUE, !.signals = <<>>]
     \/ /\ notifier' = Idle([notifier EXCEPT !.connected = FALSE])
        /\ UNCHANGED bus
  /\ UNCHANGED <<main, requests, xwayland, activation>>

\* MessageStream::for_match_rule() returns, before the loop of the watcher: it is
\* subscribed, or it ends.
BusSubscribes ==
  /\ notifier.watcher = "subscribing"
  /\ \E w \in {"checking", "finished"} : notifier' = [notifier EXCEPT !.watcher = w]
  /\ UNCHANGED <<main, requests, xwayland, activation, bus>>

\* Notify is answered with a new id, or with an error that nothing was shown by.
DaemonAnswers ==
  /\ notifier.worker = "sending" /\ notifier.answer = NoAnswer
  /\ \/ /\ bus.up /\ bus.next <= MaxRequests
        /\ notifier' = [notifier EXCEPT !.answer = bus.next]
        /\ bus' = [bus EXCEPT !.shown = Put(@, bus.next, notifier.notice[1]), !.next = @ + 1]
     \/ /\ notifier' = [notifier EXCEPT !.answer = Failure]
        /\ UNCHANGED bus
  /\ UNCHANGED <<main, requests, xwayland, activation>>

\* A signal reaches the queue of a watcher that is subscribed, and is lost otherwise.
Signalled(signals) ==
  IF notifier.watcher \in {"checking", "listening", "opening"} /\ notifier.watched /\ bus.up
  THEN bus.signals \o signals ELSE bus.signals

\* The user clicks a notification, which may close it, or it is closed in another way.
\* One signal at most waits to be handled, which bounds the queue of the stream.
Click(id) ==
  /\ id \in DOMAIN bus.shown /\ bus.signals = <<>>
  /\ bus' = [bus EXCEPT !.signals = Signalled(<<<<"invoked", id>>>>),
                        !.clicked = @ \cup {bus.shown[id]}]
  /\ UNCHANGED <<main, requests, xwayland, activation, notifier>>
Dismiss(id) ==
  /\ id \in DOMAIN bus.shown /\ bus.signals = <<>>
  /\ bus' = [bus EXCEPT !.signals = Signalled(<<<<"closed", id>>>>), !.shown = Without(@, id)]
  /\ UNCHANGED <<main, requests, xwayland, activation, notifier>>

\* The daemon starts again: nothing is closed, and its ids begin anew.
DaemonRestarts ==
  /\ ~bus.restarted
  /\ bus' = [bus EXCEPT !.restarted = TRUE, !.shown = <<>>, !.next = 1]
  /\ UNCHANGED <<main, requests, xwayland, activation, notifier>>

\* The connection is closed from the other end.
BusCloses ==
  /\ bus.up /\ notifier.connected
  /\ bus' = [bus EXCEPT !.up = FALSE, !.signals = <<>>]
  /\ UNCHANGED <<main, requests, xwayland, activation, notifier>>

-----------------------------------------------------------------------------
(* The compositor                                                          *)

\* The session of a TTY has submitted its first environment, without a display, before
\* the loop runs. A nested compositor never activates and is the rest of this.
Init ==
  /\ main = "running" /\ requests = 1 /\ xwayland = FALSE
  /\ \E a \in Started([thread |-> "unstarted", queue |-> <<>>, stop |-> FALSE, job |-> NoJob,
                        left |-> <<>>, child |-> "none", tried |-> FALSE, lost |-> FALSE]) :
       activation = Submitted(a, [display |-> FALSE, portal |-> TRUE])
  /\ notifier = [worker |-> "unstarted", queue |-> <<>>, stop |-> FALSE, notice |-> <<NoFile, FALSE>>,
                 answer |-> NoAnswer, connected |-> FALSE, watcher |-> "none", watcherStop |-> FALSE,
                 watched |-> FALSE, actions |-> <<>>]
  /\ bus = [up |-> FALSE, shown |-> <<>>, next |-> 1, signals |-> <<>>, clicked |-> {},
            opened |-> <<>>, restarted |-> FALSE]

\* The loop has ended and the state is dropped: Drop for ScreenshotNotifier, then
\* Drop for ActivationWorker, each of which waits for its thread.
Shutdown ==
  /\ Running /\ main' = "notifier"
  /\ notifier' = [notifier EXCEPT !.stop = TRUE]
  /\ UNCHANGED <<requests, xwayland, activation, bus>>
NotifierJoined ==
  /\ main = "notifier" /\ notifier.worker \in {"unstarted", "ended"}
  /\ main' = "activation"
  /\ activation' = [activation EXCEPT !.stop = TRUE,
                       !.queue = IF @ = <<>> /\ activation.thread # "failed" THEN <<NoJob>> ELSE @]
  /\ UNCHANGED <<requests, xwayland, notifier, bus>>
ActivationJoined ==
  /\ main = "activation" /\ activation.thread \in {"unstarted", "failed", "ended"}
  /\ main' = "gone"
  /\ UNCHANGED <<requests, xwayland, activation, notifier, bus>>

ActivationThread == TakeJob \/ SpawnCommand \/ PollCommand
NotifierThread == TakeNotice \/ Connect \/ StopWatcher \/ StartWatcher \/ KeepWatcher \/ Sent
                  \/ CloseWorker
WatcherThread == WatcherChecks \/ WatcherTimesOut \/ HandleSignal
MainThread == NotifierJoined \/ ActivationJoined

Next ==
  \/ Reload \/ XWaylandReady \/ \E saved \in BOOLEAN : Screenshot(saved)
  \/ ActivationThread \/ NotifierThread \/ WatcherThread \/ WatcherFails
  \/ CommandExits \/ OpenerEnds
  \/ BusConnects \/ BusSubscribes \/ DaemonAnswers \/ DaemonRestarts \/ BusCloses
  \/ \E id \in Files : Click(id) \/ Dismiss(id)
  \/ Shutdown \/ MainThread

\* Every thread of Villain runs. What is external need not do anything.
Spec == /\ Init /\ [][Next]_vars
        /\ WF_vars(ActivationThread) /\ WF_vars(NotifierThread) /\ WF_vars(WatcherThread)
        /\ WF_vars(MainThread)

-----------------------------------------------------------------------------
(* What must hold                                                          *)

\* The state is of its type.
TypeOK ==
  /\ main \in {"running", "notifier", "activation", "gone"}
  /\ requests \in 1..MaxRequests /\ xwayland \in BOOLEAN
  /\ activation \in Activations /\ notifier \in Notifiers
  /\ bus \in Buses

\* Dropping the state leaves nothing behind (session.rs:137 "shutdown cancel a command
\* child before joining"): no thread of either worker, no watcher, no child process and
\* nothing half done.
NothingOutlives ==
  /\ TypeOK
  /\ main \in {"activation", "gone"} =>
       /\ notifier.worker \in {"unstarted", "ended"}
       /\ notifier.watcher \in {"none", "finished"}
  /\ main = "gone" => activation.thread \in {"unstarted", "failed", "ended"}
  /\ activation.child # "none" => activation.thread = "working"

\* A screenshot is opened at most once and, as long as the daemon has not begun its ids
\* anew, only if its own notification was clicked. MAX_PENDING_ACTIONS is kept, and the
\* screenshot shown last can be opened, whatever was dropped to make room for it: only
\* after a restart of the daemon may its id be the smallest, and it is dropped itself.
ClickedOpensOnce ==
  /\ IsInjective(bus.opened)
  /\ ToSet(bus.opened) \subseteq bus.clicked \/ bus.restarted
  /\ Cardinality(DOMAIN notifier.actions) <= MaxPendingActions
NewestCanBeOpened ==
  notifier.answer \in Files /\ notifier.notice[2] /\ notifier'.answer = NoAnswer
    => notifier.answer \in DOMAIN notifier'.actions \/ bus.restarted
OpensWhatWasClicked == [][ClickedOpensOnce' /\ NewestCanBeOpened]_vars

\* Dropping the state ends, even if a command that is run hangs, and whatever the threads
\* are doing. It does wait, without a limit, for what they asked of others: for the bus to
\* give a connection and to subscribe a watcher, for the notification daemon to answer and
\* for xdg-open to end.
ServicesEnd == /\ []<>(notifier.worker # "dialling")
               /\ []<>(notifier.watcher # "subscribing")
               /\ []<>(notifier.worker # "sending" \/ notifier.answer # NoAnswer)
               /\ []<>(notifier.watcher # "opening")
DropEnds == ServicesEnd => (~Running ~> main = "gone")

\* When XWayland is ready its display reaches the activation environments
\* (session.rs:299 "until Villain's own XWayland is ready"), unless the one place of
\* the queue was taken, the thread could not be started or the session ends.
DisplayReached == activation.tried \/ activation.lost \/ ~Running
DisplayReaches == []<>(activation.child # "alive") => (xwayland ~> DisplayReached)
=============================================================================

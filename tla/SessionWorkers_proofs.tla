------------------------- MODULE SessionWorkers_proofs -------------------------
(***************************************************************************)
(* Dropping the compositor leaves nothing behind, and a screenshot is      *)
(* opened once and only if it was clicked, with any number of activations  *)
(* and screenshots and any limit of pending actions.                       *)
(***************************************************************************)
EXTENDS SessionWorkers, FiniteSetTheorems, SequenceTheorems, WellFoundedInduction,
        TLAPS

-----------------------------------------------------------------------------
(* The inductive invariant                                                 *)

\* The activation worker has a job and commands left while it works, and a child only then.
Busy(a) ==
  /\ a \in Activations
  /\ a.thread = "working" => a.job \in Jobs /\ a.left # <<>>
  /\ a.child # "none" => a.thread = "working"

\* The notifier has a notice until it is sent, an answer only for one that is being sent,
\* a watcher only if it was started, and none that runs once it has ended.
Noticed(n) == n.notice \in Files \X BOOLEAN
Serving(n) ==
  /\ n \in Notifiers
  /\ n.worker \in {"connecting", "dialling", "watching", "sending"} => Noticed(n)
  /\ n.answer # NoAnswer => n.worker = "sending"
  /\ n.worker = "unstarted" => n.watcher = "none"
  /\ n.worker = "ended" => n.watcher \in {"none", "finished"}
  /\ Cardinality(DOMAIN n.actions) <= MaxPendingActions

\* The threads that have been joined have ended.
Joined ==
  /\ main \in {"activation", "gone"} => notifier.worker \in {"unstarted", "ended"}
  /\ main = "gone" => activation.thread \in {"unstarted", "failed", "ended"}

\* The screenshots that were shown with an action, and those of them that were opened.
Offered(n) == {n.actions[id] : id \in DOMAIN n.actions}
Opened(b)  == {b.opened[k] : k \in DOMAIN b.opened}

\* Screenshots are numbered in the order in which they are taken, and pass through the
\* notifier in that order: what waits is newer than what is being sent, and that than
\* everything offered or opened. So none comes twice.
Numbered(r, n, b) ==
  /\ \A f \in Offered(n) \cup Opened(b) : f <= r
  /\ Noticed(n) => /\ n.notice[1] <= r
                   /\ \A f \in Offered(n) \cup Opened(b) : f < n.notice[1]
  /\ n.queue # <<>> => /\ n.queue[1][1] <= r
                       /\ \A f \in Offered(n) \cup Opened(b) : f < n.queue[1][1]
                       /\ Noticed(n) => n.notice[1] < n.queue[1][1]
  /\ \A i, j \in DOMAIN n.actions : n.actions[i] = n.actions[j] => i = j
  /\ \A k, l \in DOMAIN b.opened : b.opened[k] = b.opened[l] => k = l
  /\ Offered(n) \cap Opened(b) = {}

\* As long as the daemon has given every id once, an id means the same to it and to the
\* notifier, and what the signal of a click on it would open has been clicked.
Invoked(b, id) == b.signals # <<>> /\ b.signals[1] = <<"invoked", id>>
Traced(n, b) ==
  /\ Opened(b) \subseteq b.clicked
  /\ \A id \in DOMAIN n.actions \cup DOMAIN b.shown : id < b.next
  /\ \A id \in DOMAIN n.actions \cap DOMAIN b.shown : b.shown[id] = n.actions[id]
  /\ n.answer \in Files =>
       /\ n.answer < b.next
       /\ \A id \in DOMAIN n.actions : id < n.answer
       /\ n.answer \in DOMAIN b.shown => b.shown[n.answer] = n.notice[1]
       /\ Invoked(b, n.answer) => n.notice[1] \in b.clicked
  /\ \A id \in Files : Invoked(b, id) =>
       /\ id < b.next
       /\ id \in DOMAIN n.actions => n.actions[id] \in b.clicked

Inv ==
  /\ main \in {"running", "notifier", "activation", "gone"}
  /\ requests \in 1..MaxRequests /\ xwayland \in BOOLEAN
  /\ Busy(activation) /\ Serving(notifier) /\ bus \in Buses
  /\ Joined
  /\ Numbered(requests, notifier, bus)
  /\ bus.restarted \/ Traced(notifier, bus)

-----------------------------------------------------------------------------
(* Queues of one place, and what is kept by an id                          *)

\* A queue of one place is empty or has one element.
LEMMA OnePlace ==
  ASSUME NEW S
  PROVE  /\ <<>> \in SeqOf(S, 1)
         /\ \A e \in S : <<e>> \in SeqOf(S, 1)
         /\ \A q \in SeqOf(S, 1) : q # <<>> => Len(q) = 1 /\ q[1] \in S /\ q = <<q[1]>>
<1>1. \A q : q \in SeqOf(S, 1) <=> q \in [1..0 -> S] \/ q \in [1..1 -> S]
  <2>1. \A q : q \in SeqOf(S, 1) <=> \E m \in 0..1 : q \in [1..m -> S]
    BY DEF SeqOf
  <2>2. \A m : m \in 0..1 <=> m = 0 \/ m = 1
    OBVIOUS
  <2> QED BY <2>1, <2>2
<1>2. <<>> \in [1..0 -> S]
  OBVIOUS
<1>3. ASSUME NEW q \in [1..0 -> S] PROVE q = <<>>
  OBVIOUS
<1>4. \A e \in S : <<e>> \in [1..1 -> S]
  OBVIOUS
<1>5. ASSUME NEW q \in [1..1 -> S] PROVE Len(q) = 1 /\ q[1] \in S /\ q = <<q[1]>>
  <2>1. 1 \in 1..1 /\ DOMAIN q = 1..1 /\ q[1] \in S
    OBVIOUS
  <2>2. q = [i \in 1..1 |-> q[1]]
    BY <2>1
  <2>3. <<q[1]>> = [i \in 1..1 |-> q[1]]
    OBVIOUS
  <2>4. q = <<q[1]>>
    BY <2>2, <2>3
  <2>5. Len(<<q[1]>>) = 1
    OBVIOUS
  <2> QED BY <2>1, <2>4, <2>5
<1> QED BY <1>1, <1>2, <1>3, <1>4, <1>5

\* The files by their ids.
Maps == UNION {[ids -> Files] : ids \in SUBSET Files}

\* What it is to be such a map.
LEMMA MapTyped ==
  /\ \A f \in Maps : DOMAIN f \subseteq Files /\ \A id \in DOMAIN f : f[id] \in Files
  /\ \A D \in SUBSET Files : \A f \in [D -> Files] : f \in Maps
BY DEF Maps

\* Adding an id.
LEMMA PutTyped ==
  ASSUME NEW f \in Maps, NEW id \in Files, NEW file \in Files
  PROVE  /\ Put(f, id, file) \in Maps
         /\ DOMAIN Put(f, id, file) = DOMAIN f \cup {id}
         /\ Put(f, id, file)[id] = file
         /\ \A i \in DOMAIN f : i # id => Put(f, id, file)[i] = f[i]
<1>1. DOMAIN f \cup {id} \in SUBSET Files /\ \A i \in DOMAIN f : f[i] \in Files
  BY MapTyped
<1>2. Put(f, id, file) \in [DOMAIN f \cup {id} -> Files]
  BY <1>1 DEF Put
<1> QED BY <1>1, <1>2, MapTyped DEF Put

\* Dropping an id.
LEMMA WithoutTyped ==
  ASSUME NEW f \in Maps, NEW id
  PROVE  /\ Without(f, id) \in Maps
         /\ DOMAIN Without(f, id) = DOMAIN f \ {id}
         /\ \A i \in DOMAIN f \ {id} : Without(f, id)[i] = f[i]
<1>1. DOMAIN f \ {id} \in SUBSET Files /\ \A i \in DOMAIN f : f[i] \in Files
  BY MapTyped
<1>2. Without(f, id) \in [DOMAIN f \ {id} -> Files]
  BY <1>1 DEF Without
<1> QED BY <1>1, <1>2, MapTyped DEF Without

\* The ids of a map can be counted.
LEMMA MapFinite ==
  ASSUME NEW f \in Maps
  PROVE  IsFiniteSet(DOMAIN f) /\ Cardinality(DOMAIN f) \in Nat
<1>1. IsFiniteSet(Files)
  BY WorkersAssumption, FS_Interval DEF Files
<1> QED BY <1>1, MapTyped, FS_Subset, FS_CardinalityType

\* A nonempty set of numbers with an upper bound has a least element: the intervals
\* 0..n of its elements n are ordered by strict inclusion.
LEMMA LeastElement ==
  ASSUME NEW N \in Nat, NEW S \in SUBSET (0 .. N), S # {}
  PROVE  Min(S) \in S /\ \A n \in S : Min(S) <= n
<1> DEFINE F == FiniteSubsetsOf(0 .. N)
           R == StrictSubsetOrdering(0 .. N)
           T == {0 .. n : n \in S}
<1>1. IsFiniteSet(0 .. N)
  BY FS_Interval
<1>2. IsWellFoundedOn(R, F)
  BY <1>1, FS_StrictSubsetOrderingWellFounded
<1>3. T \subseteq F
  BY <1>1, FS_Subset DEF FiniteSubsetsOf
<1>8. T # {}
  OBVIOUS
<1>4. PICK t \in T : \A y \in T : ~ (<<y, t>> \in R)
  <2> HIDE DEF R, T, F
  <2> QED BY <1>2, <1>3, <1>8, WFMin
<1>5. PICK m \in S : t = 0 .. m
  OBVIOUS
<1>6. ASSUME NEW n \in S, n < m PROVE FALSE
  <2>1. 0 .. n \subseteq 0 .. m /\ 0 .. n # 0 .. m
    BY <1>6
  <2>2. <<0 .. n, t>> \in R
    BY <2>1, <1>5, <1>6 DEF StrictSubsetOrdering
  <2> QED BY <2>2, <1>4
<1>7. \E k \in S : \A n \in S : k <= n
  BY <1>6
<1> QED BY <1>7 DEF Min

-----------------------------------------------------------------------------
(* The activation worker                                                   *)

\* A job that is submitted is queued or dropped.
LEMMA SubmittedBusy ==
  ASSUME NEW a, Busy(a), NEW job \in Jobs
  PROVE  Busy(Submitted(a, job)) /\ Submitted(a, job).thread = a.thread
<1> DEFINE q == <<job>>
           l == a.lost \/ job.display
           t == [a EXCEPT !.queue = q]
           u == [a EXCEPT !.lost = l]
<1>1. a \in Activations
  BY DEF Busy
<1>2. q \in SeqOf(Jobs \cup {NoJob}, 1)
  BY OnePlace
<1>3. l \in BOOLEAN
  OBVIOUS
<1>4. Submitted(a, job) \in {t, u}
  BY Zenon DEF Submitted
<1> HIDE DEF q, l
<1>5. t \in Activations /\ u \in Activations
  BY <1>1, <1>2, <1>3, Zenon DEF Activations
<1>6. /\ t.thread = a.thread /\ t.job = a.job /\ t.left = a.left /\ t.child = a.child
      /\ u.thread = a.thread /\ u.job = a.job /\ u.left = a.left /\ u.child = a.child
  BY <1>1, Zenon DEF Activations
<1> HIDE DEF t, u
<1> QED BY <1>4, <1>5, <1>6 DEF Busy

\* Starting the thread may fail.
LEMMA StartedBusy ==
  ASSUME NEW a, Busy(a), NEW b \in Started(a)
  PROVE  Busy(b)
<1> DEFINE t == [a EXCEPT !.thread = "waiting"]
           u == [a EXCEPT !.thread = "failed"]
<1>1. a \in Activations
  BY DEF Busy
<1>2. b = a \/ (a.thread = "unstarted" /\ b \in {t, u})
  BY DEF Started
<1>3. t \in Activations /\ u \in Activations
  BY <1>1, Zenon DEF Activations
<1>4. /\ t.thread = "waiting" /\ t.child = a.child
      /\ u.thread = "failed" /\ u.child = a.child
  BY <1>1, Zenon DEF Activations
<1> HIDE DEF t, u
<1> QED BY <1>2, <1>3, <1>4 DEF Busy

\* The commands.
Names == ToSet(Imports) \cup {"backends", "frontend"}
\* A sequence of at most four of them.
LEMMA ShortSeq ==
  ASSUME NEW s \in Seq(Names), Len(s) <= 4
  PROVE  s \in SeqOf(Names, 4)
<1>1. s \in [1..Len(s) -> Names] /\ Len(s) \in Nat
  BY LenProperties
<1>2. Len(s) \in 0..4
  BY <1>1
<1> QED BY <1>1, <1>2 DEF SeqOf

\* There are two commands or four.
LEMMA CommandsTyped ==
  ASSUME NEW job
  PROVE  Commands(job) \in SeqOf(Names, 4) /\ Commands(job) # <<>>
<1> DEFINE x == <<"systemd", "dbus">>
           y == <<"backends", "frontend">>
<1>1. {"systemd", "dbus", "backends", "frontend"} \subseteq Names
  <2>1. Imports[1] = "systemd" /\ Imports[2] = "dbus" /\ DOMAIN Imports = 1..2
    BY DEF Imports
  <2>2. Imports[1] \in ToSet(Imports) /\ Imports[2] \in ToSet(Imports)
    BY <2>1 DEF ToSet
  <2> QED BY <2>1, <2>2 DEF Names
<1>2. x \in Seq(Names) /\ Len(x) = 2 /\ y \in Seq(Names) /\ Len(y) = 2
  BY <1>1
<1>3. Commands(job) \in {x, x \o y}
  BY Zenon DEF Commands, Imports
<1> HIDE DEF x, y
<1>4. x \o y \in Seq(Names) /\ Len(x \o y) = 4
  BY <1>2, ConcatProperties
<1> DEFINE c == Commands(job)
<1>5. ASSUME NEW q, q = x \/ q = x \o y
      PROVE  q \in Seq(Names) /\ Len(q) <= 4 /\ Len(q) # 0
  BY <1>2, <1>4, <1>5
<1>6. c = x \/ c = x \o y
  BY <1>3
<1> HIDE DEF c
<1>7. c \in Seq(Names) /\ Len(c) <= 4 /\ Len(c) # 0
  BY <1>5, <1>6
<1>8. c # <<>>
  BY <1>7, EmptySeq
<1>9. c \in SeqOf(Names, 4) /\ c # <<>>
  BY <1>7, <1>8, ShortSeq
<1> QED BY <1>9 DEF c

\* What is left of the commands after one.
LEMMA TailTyped ==
  ASSUME NEW s \in SeqOf(Names, 4), s # <<>>
  PROVE  Tail(s) \in SeqOf(Names, 4)
<1>1. PICK n \in 0..4 : s \in [1..n -> Names]
  BY DEF SeqOf
<1>2. s \in Seq(Names) /\ Len(s) = n
  BY <1>1
<1>3. Tail(s) \in Seq(Names) /\ Len(Tail(s)) = n - 1
  BY <1>2, HeadTailProperties
<1>4. Len(Tail(s)) <= 4
  BY <1>3
<1> QED BY <1>3, <1>4, ShortSeq

\* After a command comes the next, or another job.
LEMMA NextCommandBusy ==
  ASSUME NEW a, Busy(a), a.thread = "working"
  PROVE  Busy(NextCommand(a))
<1> DEFINE l == Tail(a.left)
           w == a.tried \/ (Head(a.left) = "dbus" /\ a.job.display)
           b == [a EXCEPT !.child = "none", !.left = l, !.tried = w]
           t == IF a.stop THEN "ended" ELSE "waiting"
           c == [b EXCEPT !.job = NoJob, !.thread = t]
<1>1. a \in Activations /\ a.left # <<>> /\ a.job \in Jobs
  BY DEF Busy
<1>2. l \in SeqOf(Names, 4)
  BY <1>1, TailTyped DEF Activations, Names
<1>3. w \in BOOLEAN
  OBVIOUS
<1>4. t \in {"ended", "waiting"}
  OBVIOUS
<1>7. NextCommand(a) = IF b.left # <<>> THEN b ELSE c
  BY Zenon DEF NextCommand
<1> HIDE DEF l, w, t
<1>8. b \in Activations
  BY <1>1, <1>2, <1>3, Zenon DEF Activations, Names
<1>9. b.thread = "working" /\ b.child = "none" /\ b.left = l /\ b.job = a.job
  BY <1>1, Zenon DEF Activations
<1> HIDE DEF b
<1>10. c \in Activations
  BY <1>4, <1>8, Zenon DEF Activations
<1>11. c.thread = t /\ c.child = "none"
  BY <1>8, <1>9, Zenon DEF Activations
<1> HIDE DEF c
<1> QED BY <1>1, <1>4, <1>7, <1>8, <1>9, <1>10, <1>11 DEF Busy

\* The steps of the worker, and the end of its child.
LEMMA ActivationBusy ==
  ASSUME Busy(activation), ActivationThread \/ CommandExits
  PROVE  Busy(activation')
<1> DEFINE a == activation
<1>1. a \in Activations
  BY DEF Busy
<1>2. CASE TakeJob
  <2> DEFINE job == Head(a.queue)
             l == Commands(job)
             q == [a EXCEPT !.queue = <<>>]
             e == [q EXCEPT !.thread = "ended"]
             w == [q EXCEPT !.thread = "working", !.job = job, !.left = l]
  <2>1. a.queue \in SeqOf(Jobs \cup {NoJob}, 1) /\ a.queue # <<>> /\ a.thread = "waiting"
    BY <1>1, <1>2, Zenon DEF TakeJob, Activations
  <2>2. job \in Jobs \cup {NoJob}
    BY <2>1, OnePlace
  <2>3. activation' = IF job = NoJob \/ q.stop THEN e ELSE w
    BY <1>2, Zenon DEF TakeJob
  <2>4. a.child = "none"
    BY <2>1 DEF Busy
  <2>5. <<>> \in SeqOf(Jobs \cup {NoJob}, 1) /\ l \in SeqOf(Names, 4) /\ l # <<>>
    BY OnePlace, CommandsTyped
  <2> HIDE DEF a, job, l
  <2>9. q \in Activations /\ q.child = a.child
    BY <1>1, <2>5, Zenon DEF Activations
  <2> HIDE DEF q
  <2>6. e \in Activations /\ e.thread = "ended" /\ e.child = a.child
    BY <2>9, Zenon DEF Activations
  <2>7. ASSUME job # NoJob PROVE Busy(w)
    <3>1. job \in Jobs
      BY <2>2, <2>7
    <3>2. w \in Activations /\ w.thread = "working" /\ w.job = job /\ w.left = l
      BY <2>9, <2>5, <3>1, Zenon DEF Activations, Names
    <3> HIDE DEF w
    <3> QED BY <2>5, <3>1, <3>2 DEF Busy
  <2>8. Busy(e)
    <3> HIDE DEF e
    <3> QED BY <2>4, <2>6 DEF Busy
  <2> QED BY <2>3, <2>7, <2>8
<1>3. CASE SpawnCommand
  <2> DEFINE c == [a EXCEPT !.child = "alive"]
  <2>1. a.thread = "working" /\ activation' \in {c, NextCommand(a)}
    BY <1>3 DEF SpawnCommand
  <2>2. c \in Activations /\ c.thread = a.thread /\ c.job = a.job /\ c.left = a.left
    BY <1>1, Zenon DEF Activations
  <2> HIDE DEF c
  <2> QED BY <2>1, <2>2, NextCommandBusy DEF Busy
<1>4. CASE CommandExits
  <2> DEFINE c == [a EXCEPT !.child = "exited"]
  <2>1. a.child = "alive" /\ activation' = c
    BY <1>4, Zenon DEF CommandExits
  <2>2. c \in Activations /\ c.thread = a.thread /\ c.job = a.job /\ c.left = a.left
    BY <1>1, Zenon DEF Activations
  <2> HIDE DEF c
  <2> QED BY <2>1, <2>2 DEF Busy
<1>5. CASE PollCommand
  <2> DEFINE c == [a EXCEPT !.child = "none", !.left = <<>>, !.job = NoJob,
                            !.thread = "ended"]
  <2>1. a.thread = "working" /\ activation' \in {c, NextCommand(a)}
    BY <1>5 DEF PollCommand
  <2>2. <<>> \in SeqOf(Names, 4)
    <3>1. <<>> \in Seq(Names) /\ Len(<<>>) <= 4
      BY EmptySeq
    <3> QED BY <3>1, ShortSeq
  <2>3. c \in Activations /\ c.thread = "ended" /\ c.child = "none"
    BY <1>1, <2>2, Zenon DEF Activations, Names
  <2> HIDE DEF c
  <2> QED BY <2>1, <2>3, NextCommandBusy DEF Busy
<1> QED BY <1>2, <1>3, <1>4, <1>5 DEF ActivationThread

-----------------------------------------------------------------------------
(* The notifier by itself                                                  *)

\* The fields of a notifier.
LEMMA NotifierFields ==
  ASSUME NEW n, n \in Notifiers
  PROVE  /\ n.queue \in SeqOf(Files \X BOOLEAN, 1) /\ n.actions \in Maps
         /\ n.notice \in (Files \X BOOLEAN) \cup {<<NoFile, FALSE>>}
         /\ n.answer \in {NoAnswer, Failure} \cup Files
BY Zenon DEF Notifiers, Maps

\* What is empty is no notice and no answer.
LEMMA NoneGiven ==
  /\ <<NoFile, FALSE>> \notin Files \X BOOLEAN
  /\ NoAnswer \notin Files /\ Failure \notin Files
BY WorkersAssumption DEF Files

\* A worker that is done with a notice looks for the next, or closes.
LEMMA IdleServing ==
  ASSUME NEW n, n \in Notifiers, Cardinality(DOMAIN n.actions) <= MaxPendingActions
  PROVE  LET m == Idle(n)
         IN /\ Serving(m) /\ ~Noticed(m) /\ m.answer = NoAnswer
            /\ m.queue = n.queue /\ m.actions = n.actions
<1> DEFINE w == IF n.stop THEN "closing" ELSE "waiting"
           i == [n EXCEPT !.worker = w, !.notice = <<NoFile, FALSE>>, !.answer = NoAnswer]
           r == [i EXCEPT !.watcher = "none", !.watcherStop = FALSE]
<1>1. w \in {"closing", "waiting"}
  OBVIOUS
<1>2. Idle(n) \in {i, r}
  BY Zenon DEF Idle, Reaped
<1> HIDE DEF w
<1>3. i \in Notifiers /\ r \in Notifiers
  BY <1>1, Zenon DEF Notifiers
<1>4. /\ i.worker = w /\ i.notice = <<NoFile, FALSE>> /\ i.answer = NoAnswer
      /\ i.queue = n.queue /\ i.actions = n.actions
      /\ r.worker = w /\ r.notice = <<NoFile, FALSE>> /\ r.answer = NoAnswer
      /\ r.queue = n.queue /\ r.actions = n.actions
  BY Zenon DEF Notifiers
<1> HIDE DEF i, r
<1>5. Serving(i) /\ ~Noticed(i)
  BY <1>1, <1>3, <1>4, NoneGiven DEF Serving, Noticed
<1>6. Serving(r) /\ ~Noticed(r)
  BY <1>1, <1>3, <1>4, NoneGiven DEF Serving, Noticed
<1> QED BY <1>2, <1>4, <1>5, <1>6

\* The files a notifier knows of stay where they are.
SameFiles(n, m) ==
  /\ m.queue = n.queue /\ m.notice = n.notice
  /\ m.actions = n.actions /\ m.answer = n.answer

\* Then what is known of them stays true.
LEMMA SameFilesKept ==
  ASSUME NEW r, NEW n, NEW m, NEW b, SameFiles(n, m), Numbered(r, n, b)
  PROVE  Numbered(r, m, b) /\ (Traced(n, b) => Traced(m, b))
BY DEF SameFiles, Numbered, Traced, Noticed, Offered

\* A notice that is forgotten leaves no trace of it.
LEMMA ForgottenKept ==
  ASSUME NEW r, NEW n, NEW m, NEW b, Numbered(r, n, b), ~Noticed(m), m.answer = NoAnswer,
         m.queue = n.queue, m.actions = n.actions
  PROVE  Numbered(r, m, b) /\ (Traced(n, b) => Traced(m, b))
BY NoneGiven DEF Numbered, Traced, Offered

\* A later request leaves the order as it is.
LEMMA LaterKept ==
  ASSUME NEW r \in Nat, NEW n, NEW b, n \in Notifiers, b \in Buses, Numbered(r, n, b)
  PROVE  Numbered(r + 1, n, b)
<1>1. Offered(n) \subseteq Nat
  <2>1. n.actions \in Maps
    BY NotifierFields
  <2>2. \A id \in DOMAIN n.actions : n.actions[id] \in Files
    BY <2>1, MapTyped
  <2>3. Offered(n) \subseteq Files
    BY <2>2 DEF Offered
  <2> QED BY <2>3 DEF Files
<1>2. Opened(b) \subseteq Nat
  <2>1. b.opened \in SeqOf(Files, MaxRequests)
    BY Zenon DEF Buses
  <2>2. \A k \in DOMAIN b.opened : b.opened[k] \in Files
    BY <2>1 DEF SeqOf
  <2> QED BY <2>2 DEF Opened, Files
<1>3. Noticed(n) => n.notice[1] \in Nat
  BY DEF Noticed, Files
<1>4. n.queue # <<>> => n.queue[1][1] \in Nat
  <2>1. n.queue \in SeqOf(Files \X BOOLEAN, 1)
    BY NotifierFields
  <2>2. n.queue # <<>> => n.queue[1] \in Files \X BOOLEAN
    BY <2>1, OnePlace
  <2> QED BY <2>2 DEF Files
<1> QED BY <1>1, <1>2, <1>3, <1>4 DEF Numbered

-----------------------------------------------------------------------------
(* The steps of the notifier                                               *)

\* What is said of the screenshots, and what a step must keep of it. Who has ended, or has
\* not begun, does not move.
News ==
  /\ requests \in 1..MaxRequests
  /\ Serving(notifier) /\ bus \in Buses
  /\ Numbered(requests, notifier, bus)
  /\ bus.restarted \/ Traced(notifier, bus)
Informs ==
  /\ News' /\ NewestCanBeOpened
  /\ notifier.worker \in {"unstarted", "ended"} => notifier'.worker = notifier.worker

\* A step of the notifier that touches no file.
LEMMA NotifierMoves ==
  ASSUME News, NEW m, notifier' = m, SameFiles(notifier, m), Serving(m),
         UNCHANGED <<requests, bus>>,
         notifier.worker \in {"unstarted", "ended"} => m.worker = notifier.worker
  PROVE  Informs
<1>1. Numbered(requests, m, bus) /\ (bus.restarted \/ Traced(m, bus))
  BY SameFilesKept DEF News
<1>2. News'
  BY <1>1 DEF News
<1>3. NewestCanBeOpened
  BY NoneGiven DEF NewestCanBeOpened, SameFiles
<1> QED BY <1>2, <1>3 DEF Informs

\* Taking a notice from the queue, or seeing its end.
LEMMA TakeNoticeInforms == ASSUME News, TakeNotice PROVE Informs
<1> DEFINE n == notifier
<1>1. n \in Notifiers /\ n.worker = "waiting" /\ UNCHANGED <<requests, bus>>
  BY Zenon DEF News, Serving, TakeNotice
<1>2. n.answer = NoAnswer
  BY <1>1 DEF News, Serving
<1>3. CASE n.queue # <<>> /\ notifier' = [n EXCEPT !.queue = <<>>, !.notice = Head(n.queue),
                              !.worker = IF n.stop THEN "closing" ELSE "connecting"]
  <2> DEFINE h == Head(n.queue)
             w == IF n.stop THEN "closing" ELSE "connecting"
             m == [n EXCEPT !.queue = <<>>, !.notice = h, !.worker = w]
  <2>1. n.queue \in SeqOf(Files \X BOOLEAN, 1)
    BY <1>1, NotifierFields
  <2>2. h \in Files \X BOOLEAN /\ h = n.queue[1]
    BY <1>3, <2>1, OnePlace
  <2>3. <<>> \in SeqOf(Files \X BOOLEAN, 1)
    BY OnePlace
  <2>4. w \in {"closing", "connecting"}
    OBVIOUS
  <2>5. notifier' = m
    BY <1>3, Zenon
  <2> HIDE DEF h, w, n
  <2>6. m \in Notifiers
    BY <1>1, <2>2, <2>3, <2>4, Zenon DEF Notifiers
  <2>7. /\ m.queue = <<>> /\ m.notice = h /\ m.worker = w /\ m.answer = n.answer
        /\ m.watcher = n.watcher /\ m.actions = n.actions
    BY <1>1, Zenon DEF Notifiers
  <2> HIDE DEF m
  <2> USE DEF n
  <2>8. Serving(m)
    BY <1>2, <2>2, <2>4, <2>6, <2>7 DEF News, Serving, Noticed
  <2>9. Numbered(requests, m, bus)
    BY <1>3, <2>2, <2>7 DEF News, Numbered, Noticed, Offered
  <2>10. bus.restarted \/ Traced(m, bus)
    BY <1>2, <2>7, NoneGiven DEF News, Traced
  <2>11. News'
    BY <1>1, <2>5, <2>8, <2>9, <2>10 DEF News
  <2>12. NewestCanBeOpened
    BY <1>2, NoneGiven DEF NewestCanBeOpened
  <2> QED BY <1>1, <2>11, <2>12 DEF Informs
<1>4. CASE notifier' = [n EXCEPT !.worker = "closing"]
  <2> DEFINE m == [n EXCEPT !.worker = "closing"]
  <2>1. m \in Notifiers
    BY <1>1, Zenon DEF Notifiers
  <2>2. /\ SameFiles(n, m) /\ m.worker = "closing" /\ m.watcher = n.watcher
    BY <1>1, Zenon DEF Notifiers, SameFiles
  <2>3. notifier' = m
    BY <1>4
  <2> HIDE DEF m
  <2>4. Serving(m)
    BY <1>2, <2>1, <2>2 DEF News, Serving, SameFiles
  <2> QED BY <1>1, <2>2, <2>3, <2>4, NotifierMoves
<1> QED BY <1>3, <1>4 DEF TakeNotice

\* A connection that is gone takes its signals with it.
LEMMA SilencedKept ==
  ASSUME NEW r, NEW n, NEW b, NEW c, Numbered(r, n, b), b.restarted \/ Traced(n, b),
         c.signals = <<>>, c.opened = b.opened, c.clicked = b.clicked,
         c.shown = b.shown, c.next = b.next, c.restarted = b.restarted
  PROVE  Numbered(r, n, c) /\ (c.restarted \/ Traced(n, c))
<1>1. Opened(c) = Opened(b)
  BY DEF Opened
<1>2. Numbered(r, n, c)
  BY <1>1 DEF Numbered
<1>3. \A id : ~Invoked(c, id)
  BY DEF Invoked
<1>4. Traced(n, b) => Traced(n, c)
  BY <1>1, <1>3 DEF Traced
<1> QED BY <1>2, <1>4

\* Having a connection, or asking for one.
LEMMA ConnectInforms == ASSUME News, Connect PROVE Informs
<1> DEFINE n == notifier
           w == IF n.connected /\ bus.up THEN "watching" ELSE "dialling"
           m == [n EXCEPT !.worker = w]
<1>1. /\ n \in Notifiers /\ n.worker = "connecting" /\ UNCHANGED <<requests, bus>>
      /\ notifier' = m
  BY Zenon DEF News, Serving, Connect
<1>2. n.answer = NoAnswer /\ Noticed(n)
  BY <1>1 DEF News, Serving
<1>3. w \in {"watching", "dialling"}
  OBVIOUS
<1> HIDE DEF w
<1>4. m \in Notifiers
  BY <1>1, <1>3, Zenon DEF Notifiers
<1>5. /\ SameFiles(n, m) /\ m.worker = w /\ m.watcher = n.watcher
  BY <1>1, Zenon DEF Notifiers, SameFiles
<1> HIDE DEF m
<1>6. Serving(m)
  BY <1>2, <1>3, <1>4, <1>5 DEF News, Serving, SameFiles, Noticed
<1> QED BY <1>1, <1>5, <1>6, NotifierMoves

\* The bus gives a connection, or does not.
LEMMA BusConnectsInforms == ASSUME News, BusConnects PROVE Informs
<1> DEFINE n == notifier
<1>1. n \in Notifiers /\ n.worker = "dialling" /\ requests' = requests
  BY Zenon DEF News, Serving, BusConnects
<1>2. n.answer = NoAnswer /\ Noticed(n)
  BY <1>1 DEF News, Serving
<1>4. CASE /\ notifier' = [n EXCEPT !.worker = "watching", !.connected = TRUE, !.watched = FALSE]
           /\ bus' = [bus EXCEPT !.up = TRUE, !.signals = <<>>]
  <2> DEFINE m == [n EXCEPT !.worker = "watching", !.connected = TRUE, !.watched = FALSE]
             c == [bus EXCEPT !.up = TRUE, !.signals = <<>>]
  <2>1. m \in Notifiers
    BY <1>1, Zenon DEF Notifiers
  <2>2. /\ SameFiles(n, m) /\ m.worker = "watching" /\ m.watcher = n.watcher
    BY <1>1, Zenon DEF Notifiers, SameFiles
  <2>3. <<>> \in SeqOf({"closed", "invoked"} \X Files, 1) /\ bus \in Buses
    BY OnePlace DEF News
  <2>4. c \in Buses
    BY <2>3, Zenon DEF Buses
  <2>5. /\ c.signals = <<>> /\ c.opened = bus.opened /\ c.clicked = bus.clicked
        /\ c.shown = bus.shown /\ c.next = bus.next /\ c.restarted = bus.restarted
    BY <2>3, Zenon DEF Buses
  <2>6. notifier' = m /\ bus' = c
    BY <1>4
  <2> HIDE DEF m, c
  <2>7. Serving(m)
    BY <1>2, <2>1, <2>2 DEF News, Serving, SameFiles, Noticed
  <2>8. Numbered(requests, m, bus) /\ (bus.restarted \/ Traced(m, bus))
    BY <2>2, SameFilesKept DEF News
  <2>9. Numbered(requests, m, c) /\ (c.restarted \/ Traced(m, c))
    BY <2>5, <2>8, SilencedKept
  <2>10. News'
    BY <1>1, <2>4, <2>6, <2>7, <2>9 DEF News
  <2>11. NewestCanBeOpened
    BY <1>2, NoneGiven DEF NewestCanBeOpened
  <2> QED BY <1>1, <2>10, <2>11 DEF Informs
<1>5. CASE notifier' = Idle([n EXCEPT !.connected = FALSE]) /\ UNCHANGED bus
  <2> DEFINE x == [n EXCEPT !.connected = FALSE]
             m == Idle(x)
  <2>1. x \in Notifiers /\ x.actions = n.actions /\ x.queue = n.queue
    BY <1>1, Zenon DEF Notifiers
  <2> HIDE DEF x
  <2>2. /\ Serving(m) /\ ~Noticed(m) /\ m.answer = NoAnswer
        /\ m.queue = x.queue /\ m.actions = x.actions
    BY <2>1, IdleServing DEF News, Serving
  <2>3. notifier' = m
    BY <1>5 DEF x
  <2> HIDE DEF m
  <2>4. Numbered(requests, m, bus) /\ (bus.restarted \/ Traced(m, bus))
    BY <2>1, <2>2, ForgottenKept DEF News
  <2>5. News'
    BY <1>1, <1>5, <2>2, <2>3, <2>4 DEF News
  <2>6. NewestCanBeOpened
    BY <1>2, NoneGiven DEF NewestCanBeOpened
  <2> QED BY <1>1, <2>5, <2>6 DEF Informs
<1> QED BY <1>4, <1>5 DEF BusConnects

\* Seeing to the watcher before a notice is sent.
LEMMA WatchingInforms ==
  ASSUME News, StopWatcher \/ StartWatcher \/ KeepWatcher
  PROVE  Informs
<1> DEFINE n == notifier
<1>1. n \in Notifiers /\ n.worker = "watching" /\ UNCHANGED <<requests, bus>>
  BY Zenon DEF News, Serving, StopWatcher, StartWatcher, KeepWatcher
<1>2. n.answer = NoAnswer /\ Noticed(n)
  BY <1>1 DEF News, Serving
<1>3. ASSUME NEW m \in Notifiers, notifier' = m, SameFiles(n, m),
             m.worker \in {"watching", "sending"}
      PROVE  Informs
  <2>1. Serving(m)
    BY <1>2, <1>3 DEF News, Serving, SameFiles, Noticed
  <2> QED BY <1>1, <1>3, <2>1, NotifierMoves
<1>4. CASE StopWatcher
  <2> DEFINE m == [n EXCEPT !.watcherStop = TRUE]
  <2>1. m \in Notifiers /\ SameFiles(n, m) /\ m.worker = n.worker
    BY <1>1, Zenon DEF Notifiers, SameFiles
  <2>2. notifier' = m
    BY <1>4, Zenon DEF StopWatcher
  <2> HIDE DEF m
  <2> QED BY <1>1, <1>3, <2>1, <2>2
<1>5. CASE StartWatcher
  <2>1. PICK s \in {"subscribing", "none"} :
          notifier' = [n EXCEPT !.watcher = s, !.watcherStop = FALSE,
                                !.watched = s # "none", !.worker = "sending"]
    BY <1>5, Zenon DEF StartWatcher
  <2> DEFINE v == s # "none"
             m == [n EXCEPT !.watcher = s, !.watcherStop = FALSE, !.watched = v,
                            !.worker = "sending"]
  <2>2. v \in BOOLEAN
    OBVIOUS
  <2>3. notifier' = m
    BY <2>1, Zenon
  <2> HIDE DEF v
  <2>4. m \in Notifiers /\ SameFiles(n, m) /\ m.worker = "sending"
    BY <1>1, <2>2, Zenon DEF Notifiers, SameFiles
  <2> HIDE DEF m
  <2> QED BY <1>3, <2>3, <2>4
<1>6. CASE KeepWatcher
  <2> DEFINE m == [n EXCEPT !.worker = "sending"]
  <2>1. m \in Notifiers /\ SameFiles(n, m) /\ m.worker = "sending"
    BY <1>1, Zenon DEF Notifiers, SameFiles
  <2>2. notifier' = m
    BY <1>6, Zenon DEF KeepWatcher
  <2> HIDE DEF m
  <2> QED BY <1>3, <2>1, <2>2
<1> QED BY <1>4, <1>5, <1>6

\* The end of the worker, once its watcher has ended.
LEMMA CloseWorkerInforms == ASSUME News, CloseWorker PROVE Informs
<1> DEFINE n == notifier
           s == [n EXCEPT !.stop = TRUE]
           e == [n EXCEPT !.worker = "ended"]
<1>1. n \in Notifiers /\ n.worker = "closing" /\ UNCHANGED <<requests, bus>>
  BY Zenon DEF News, Serving, CloseWorker
<1>2. notifier' = s \/ (notifier' = e /\ n.watcher \in {"none", "finished"})
  BY Zenon DEF CloseWorker
<1>3. /\ s \in Notifiers /\ SameFiles(n, s) /\ s.worker = n.worker /\ s.watcher = n.watcher
      /\ e \in Notifiers /\ SameFiles(n, e) /\ e.worker = "ended" /\ e.watcher = n.watcher
  BY <1>1, Zenon DEF Notifiers, SameFiles
<1> HIDE DEF s, e
<1>4. Serving(s)
  BY <1>1, <1>3 DEF News, Serving, SameFiles, Noticed
<1>5. ASSUME n.watcher \in {"none", "finished"} PROVE Serving(e)
  BY <1>1, <1>3, <1>5 DEF News, Serving, SameFiles, Noticed
<1> QED BY <1>1, <1>2, <1>3, <1>4, <1>5, NotifierMoves

\* The watcher is subscribed, goes round, fails, and has its child end.
LEMMA WatcherInforms ==
  ASSUME News, WatcherChecks \/ WatcherTimesOut \/ WatcherFails \/ OpenerEnds \/ BusSubscribes
  PROVE  Informs
<1> DEFINE n == notifier
<1>1. /\ n \in Notifiers /\ n.watcher \in {"subscribing", "checking", "listening", "opening"}
      /\ UNCHANGED <<requests, bus>>
      /\ \E w \in {"checking", "listening", "finished"} : notifier' = [n EXCEPT !.watcher = w]
  BY Zenon DEF News, Serving, WatcherChecks, WatcherTimesOut, WatcherFails, OpenerEnds,
     BusSubscribes
<1>2. PICK w \in {"checking", "listening", "finished"} : notifier' = [n EXCEPT !.watcher = w]
  BY <1>1
<1> DEFINE m == [n EXCEPT !.watcher = w]
<1>3. m \in Notifiers /\ SameFiles(n, m) /\ m.worker = n.worker /\ m.watcher = w
  BY <1>1, Zenon DEF Notifiers, SameFiles
<1>4. notifier' = m
  BY <1>2
<1> HIDE DEF m
<1>5. n.worker \notin {"unstarted", "ended"}
  BY <1>1 DEF News, Serving
<1>6. Serving(m)
  BY <1>1, <1>3, <1>5 DEF News, Serving, SameFiles, Noticed
<1> QED BY <1>1, <1>3, <1>4, <1>5, <1>6, NotifierMoves

\* The limit on what is kept: one more is added, and if that is too many the least id is
\* dropped, which is never the one just added while ids grow.
LEMMA KeptLimit ==
  ASSUME NEW f \in Maps, Cardinality(DOMAIN f) <= MaxPendingActions,
         NEW id \in Files, NEW file \in Files
  PROVE  LET all  == Put(f, id, file)
             kept == IF Cardinality(DOMAIN all) > MaxPendingActions
                     THEN Without(all, Min(DOMAIN all)) ELSE all
         IN /\ kept \in Maps
            /\ Cardinality(DOMAIN kept) <= MaxPendingActions
            /\ \A i \in DOMAIN kept : \/ i = id /\ kept[i] = file
                                      \/ i # id /\ i \in DOMAIN f /\ kept[i] = f[i]
            /\ (\A i \in DOMAIN f : i < id) => id \in DOMAIN kept
<1> DEFINE all  == Put(f, id, file)
           least == Min(DOMAIN all)
           less == Without(all, least)
<1>1. /\ all \in Maps /\ DOMAIN all = DOMAIN f \cup {id}
      /\ all[id] = file /\ \A i \in DOMAIN f : i # id => all[i] = f[i]
  BY PutTyped
<1>2. /\ IsFiniteSet(DOMAIN f) /\ Cardinality(DOMAIN f) \in Nat
      /\ IsFiniteSet(DOMAIN all) /\ Cardinality(DOMAIN all) \in Nat
  BY <1>1, MapFinite
<1>3. Cardinality(DOMAIN all) <= Cardinality(DOMAIN f) + 1
  BY <1>1, <1>2, FS_AddElement
<1>4. DOMAIN all \in SUBSET (0 .. MaxRequests) /\ DOMAIN all # {} /\ MaxRequests \in Nat
  <2>1. DOMAIN all \subseteq Files
    BY <1>1, MapTyped
  <2> QED BY <1>1, <2>1, WorkersAssumption DEF Files
<1> HIDE DEF all
<1>5. least \in DOMAIN all /\ \A i \in DOMAIN all : least <= i
  BY <1>4, LeastElement
<1> HIDE DEF least
<1>6. /\ less \in Maps /\ DOMAIN less = DOMAIN all \ {least}
      /\ \A i \in DOMAIN all \ {least} : less[i] = all[i]
  BY <1>1, WithoutTyped
<1> HIDE DEF less
<1>7. Cardinality(DOMAIN less) = Cardinality(DOMAIN all) - 1
  BY <1>2, <1>5, <1>6, FS_RemoveElement
<1>8. MaxPendingActions \in Nat \ {0}
  BY WorkersAssumption
<1>9. Cardinality(DOMAIN less) <= MaxPendingActions
  BY <1>2, <1>3, <1>7, <1>8
<1>10. ASSUME Cardinality(DOMAIN all) > MaxPendingActions, \A i \in DOMAIN f : i < id
       PROVE  id \in DOMAIN less
  <2>1. DOMAIN f # {}
    <3>1. SUFFICES ASSUME DOMAIN f = {} PROVE FALSE
      OBVIOUS
    <3>2. DOMAIN all = {id}
      BY <1>1, <3>1
    <3>3. Cardinality(DOMAIN all) = 1
      BY <3>2, FS_Singleton
    <3> QED BY <1>8, <1>10, <3>3
  <2>2. PICK i \in DOMAIN f : TRUE
    BY <2>1
  <2>3. least <= i /\ i < id /\ least \in Nat /\ i \in Nat /\ id \in Nat
    BY <1>1, <1>4, <1>5, <1>10
  <2>4. least # id
    BY <2>3
  <2> QED BY <1>1, <1>6, <2>4
<1> DEFINE kept == IF Cardinality(DOMAIN all) > MaxPendingActions THEN less ELSE all
<1>11. kept \in Maps
  BY <1>1, <1>6
<1>12. Cardinality(DOMAIN kept) <= MaxPendingActions
  BY <1>2, <1>8, <1>9
<1>13. \A i \in DOMAIN kept : \/ i = id /\ kept[i] = file
                              \/ i # id /\ i \in DOMAIN f /\ kept[i] = f[i]
  BY <1>1, <1>6
<1>14. (\A i \in DOMAIN f : i < id) => id \in DOMAIN kept
  BY <1>1, <1>10
<1> QED BY <1>11, <1>12, <1>13, <1>14 DEF kept, less, least, all

\* What is shown with an action joins what is offered, in the order of the requests.
LEMMA OfferedKept ==
  ASSUME NEW r, NEW n, NEW m, NEW b, n \in Notifiers, Numbered(r, n, b), Noticed(n),
         ~Noticed(m), m.answer = NoAnswer, m.queue = n.queue,
         \A i \in DOMAIN m.actions :
           \/ i = n.answer /\ m.actions[i] = n.notice[1]
           \/ i # n.answer /\ i \in DOMAIN n.actions /\ m.actions[i] = n.actions[i]
  PROVE  /\ Numbered(r, m, b)
         /\ n.answer \in Files /\ Traced(n, b) => Traced(m, b)
<1>1. Offered(m) \subseteq Offered(n) \cup {n.notice[1]}
  BY DEF Offered
<1>2. n.actions \in Maps
  BY NotifierFields
<1>3. \A i \in DOMAIN n.actions : n.actions[i] \in Nat /\ n.actions[i] < n.notice[1]
  <2>1. \A i \in DOMAIN n.actions : n.actions[i] \in Files
    BY <1>2, MapTyped
  <2>2. \A i \in DOMAIN n.actions : n.actions[i] \in Offered(n)
    BY DEF Offered
  <2> QED BY <2>1, <2>2 DEF Numbered, Files
<1>4. n.notice[1] \in Nat
  BY DEF Noticed, Files
<1>5. n.notice[1] \notin Opened(b)
  BY <1>4 DEF Numbered
<1>6. \A i, j \in DOMAIN m.actions : m.actions[i] = m.actions[j] => i = j
  <2> SUFFICES ASSUME NEW i \in DOMAIN m.actions, NEW j \in DOMAIN m.actions,
                      m.actions[i] = m.actions[j]
               PROVE  i = j
    OBVIOUS
  <2>1. CASE i = n.answer /\ j # n.answer
    <3>1. n.actions[j] < n.notice[1] /\ n.actions[j] = n.notice[1] /\ n.actions[j] \in Nat
      BY <1>3, <2>1
    <3> QED BY <1>4, <3>1
  <2>2. CASE i # n.answer /\ j = n.answer
    <3>1. n.actions[i] < n.notice[1] /\ n.actions[i] = n.notice[1] /\ n.actions[i] \in Nat
      BY <1>3, <2>2
    <3> QED BY <1>4, <3>1
  <2>3. CASE i # n.answer /\ j # n.answer
    BY <2>3 DEF Numbered
  <2> QED BY <2>1, <2>2, <2>3
<1>7. Numbered(r, m, b)
  <2>1. \A f \in Offered(m) \cup Opened(b) : f <= r
    BY <1>1 DEF Numbered
  <2>2. Offered(m) \cap Opened(b) = {}
    BY <1>1, <1>5 DEF Numbered
  <2>3. m.queue # <<>> => /\ m.queue[1][1] <= r
                          /\ \A f \in Offered(m) \cup Opened(b) : f < m.queue[1][1]
    BY <1>1 DEF Numbered
  <2>4. \A k, l \in DOMAIN b.opened : b.opened[k] = b.opened[l] => k = l
    BY DEF Numbered
  <2> QED BY <1>6, <2>1, <2>2, <2>3, <2>4 DEF Numbered
<1>8. ASSUME n.answer \in Files, Traced(n, b) PROVE Traced(m, b)
  <2>1. \A id \in DOMAIN m.actions \cup DOMAIN b.shown : id < b.next
    BY <1>8 DEF Traced
  <2>2. \A id \in DOMAIN m.actions \cap DOMAIN b.shown : b.shown[id] = m.actions[id]
    BY <1>8 DEF Traced
  <2>3. \A id \in Files : Invoked(b, id) =>
          id < b.next /\ (id \in DOMAIN m.actions => m.actions[id] \in b.clicked)
    BY <1>8 DEF Traced
  <2> QED BY <1>8, <2>1, <2>2, <2>3, NoneGiven DEF Traced
<1> QED BY <1>7, <1>8

\* The end of the call that shows a screenshot.
LEMMA SentInforms == ASSUME News, Sent PROVE Informs
<1> DEFINE n == notifier
           all == Put(n.actions, n.answer, n.notice[1])
           kept == IF Cardinality(DOMAIN all) > MaxPendingActions
                   THEN Without(all, Min(DOMAIN all)) ELSE all
           x == [n EXCEPT !.actions = kept]
<1>1. /\ n \in Notifiers /\ n.worker = "sending" /\ n.answer # NoAnswer
      /\ UNCHANGED <<requests, bus>>
  BY Zenon DEF News, Serving, Sent
<1>2. /\ Noticed(n) /\ n.actions \in Maps /\ Cardinality(DOMAIN n.actions) <= MaxPendingActions
  BY <1>1, NotifierFields DEF News, Serving
<1>3. CASE n.answer = Failure \/ ~n.notice[2]
  <2> DEFINE m == Idle(n)
  <2>1. /\ Serving(m) /\ ~Noticed(m) /\ m.answer = NoAnswer
        /\ m.queue = n.queue /\ m.actions = n.actions
    BY <1>1, <1>2, IdleServing
  <2>2. notifier' = m
    BY <1>3, Zenon DEF Sent
  <2> HIDE DEF m
  <2>3. Numbered(requests, m, bus) /\ (bus.restarted \/ Traced(m, bus))
    BY <2>1, ForgottenKept DEF News
  <2>4. News'
    BY <1>1, <2>1, <2>2, <2>3 DEF News
  <2>5. NewestCanBeOpened
    BY <1>3, NoneGiven DEF NewestCanBeOpened
  <2> QED BY <1>1, <2>4, <2>5 DEF Informs
<1>4. CASE ~(n.answer = Failure \/ ~n.notice[2])
  <2> DEFINE m == Idle(x)
  <2>1. n.answer \in Files /\ n.notice[1] \in Files
    BY <1>1, <1>2, <1>4, NotifierFields DEF Noticed
  <2>2. /\ kept \in Maps
        /\ Cardinality(DOMAIN kept) <= MaxPendingActions
        /\ \A i \in DOMAIN kept :
             \/ i = n.answer /\ kept[i] = n.notice[1]
             \/ i # n.answer /\ i \in DOMAIN n.actions /\ kept[i] = n.actions[i]
        /\ (\A i \in DOMAIN n.actions : i < n.answer) => n.answer \in DOMAIN kept
    BY <1>2, <2>1, KeptLimit
  <2>3. notifier' = m
    BY <1>4, Zenon DEF Sent
  <2> HIDE DEF kept
  <2>4. x \in Notifiers /\ x.actions = kept /\ x.queue = n.queue
    BY <1>1, <2>2, Zenon DEF Notifiers, Maps
  <2> HIDE DEF x
  <2>5. /\ Serving(m) /\ ~Noticed(m) /\ m.answer = NoAnswer
        /\ m.queue = n.queue /\ m.actions = kept
    BY <2>2, <2>4, IdleServing
  <2> HIDE DEF m
  <2>6. Numbered(requests, m, bus) /\ (bus.restarted \/ Traced(m, bus))
    BY <1>1, <1>2, <2>1, <2>2, <2>5, OfferedKept DEF News
  <2>7. News'
    BY <1>1, <2>3, <2>5, <2>6 DEF News
  <2>8. bus.restarted \/ \A i \in DOMAIN n.actions : i < n.answer
    BY <2>1 DEF News, Traced
  <2>9. NewestCanBeOpened
    BY <2>2, <2>3, <2>5, <2>8 DEF NewestCanBeOpened
  <2> QED BY <1>1, <2>7, <2>9 DEF Informs
<1> QED BY <1>3, <1>4

\* There are no more screenshots to open than were taken, none being opened twice.
LEMMA OpenedTyped ==
  ASSUME NEW b \in Buses, NEW file \in Files, file \notin Opened(b),
         \A k, l \in DOMAIN b.opened : b.opened[k] = b.opened[l] => k = l
  PROVE  LET q == Append(b.opened, file)
         IN /\ q \in SeqOf(Files, MaxRequests)
            /\ \A k, l \in DOMAIN q : q[k] = q[l] => k = l
            /\ {q[k] : k \in DOMAIN q} = Opened(b) \cup {file}
<1> DEFINE o == b.opened
           q == Append(o, file)
<1>1. o \in SeqOf(Files, MaxRequests)
  BY Zenon DEF Buses
<1>2. PICK n \in Nat : o \in [1 .. n -> Files]
  BY <1>1, WorkersAssumption DEF SeqOf
<1>3. o \in Seq(Files) /\ Len(o) = n /\ DOMAIN o = 1 .. n
  BY <1>2
<1> HIDE DEF o
<1>4. /\ q \in Seq(Files) /\ Len(q) = n + 1 /\ DOMAIN q = 1 .. (n + 1)
      /\ \A k \in 1 .. n : q[k] = o[k]
      /\ q[n + 1] = file
  BY <1>3, AppendProperties
<1> HIDE DEF q
<1>5. \A k \in 1 .. n : o[k] \in Opened(b)
  BY <1>3 DEF Opened, o
<1>6. \A k, l \in 1 .. n : o[k] = o[l] => k = l
  BY <1>3 DEF o
<1>7. \A k \in 1 .. (n + 1) : k \in 1 .. n \/ k = n + 1
  BY <1>2
<1>8. \A k, l \in DOMAIN q : q[k] = q[l] => k = l
  BY <1>4, <1>5, <1>6, <1>7
<1>9. q \in [1 .. (n + 1) -> Files]
  BY <1>4
<1>10. n + 1 <= MaxRequests
  <2>1. MaxRequests \in Nat /\ n + 1 \in Nat /\ Files = 1 .. MaxRequests
    BY <1>2, WorkersAssumption DEF Files
  <2>2. /\ IsFiniteSet(1 .. (n + 1)) /\ Cardinality(1 .. (n + 1)) = n + 1
        /\ IsFiniteSet(Files) /\ Cardinality(Files) = MaxRequests
    BY <2>1, FS_Interval
  <2>3. q \in Injection(1 .. (n + 1), Files)
    BY <1>4, <1>8, <1>9 DEF Injection, IsInjective
  <2>4. Cardinality(1 .. (n + 1)) <= Cardinality(Files)
    BY <2>2, <2>3, FS_Injection
  <2> QED BY <2>2, <2>4
<1>11. q \in SeqOf(Files, MaxRequests)
  <2>1. n + 1 \in 0 .. MaxRequests
    BY <1>2, <1>10, WorkersAssumption
  <2> QED BY <1>9, <2>1 DEF SeqOf
<1>12. {q[k] : k \in DOMAIN q} = Opened(b) \cup {file}
  <2>1. {q[k] : k \in DOMAIN q} = {o[k] : k \in 1 .. n} \cup {file}
    BY <1>4, <1>7
  <2> QED BY <1>3, <2>1 DEF Opened, o
<1> QED BY <1>8, <1>11, <1>12 DEF q, o

\* A screenshot that is opened is offered no more.
LEMMA OpenedKept ==
  ASSUME NEW r, NEW n, NEW m, NEW b, NEW c, n \in Notifiers, Numbered(r, n, b),
         NEW id \in DOMAIN n.actions,
         Opened(c) = Opened(b) \cup {n.actions[id]},
         \A k, l \in DOMAIN c.opened : c.opened[k] = c.opened[l] => k = l,
         m.queue = n.queue, m.notice = n.notice,
         DOMAIN m.actions = DOMAIN n.actions \ {id},
         \A i \in DOMAIN n.actions \ {id} : m.actions[i] = n.actions[i]
  PROVE  Numbered(r, m, c)
<1>1. n.actions[id] \in Offered(n) /\ Offered(m) \subseteq Offered(n)
  BY DEF Offered
<1>2. n.actions[id] \notin Offered(m)
  BY DEF Offered, Numbered
<1>3. Offered(m) \cup Opened(c) \subseteq Offered(n) \cup Opened(b)
  BY <1>1
<1>4. Offered(m) \cap Opened(c) = {}
  BY <1>1, <1>2 DEF Numbered
<1>5. \A i, j \in DOMAIN m.actions : m.actions[i] = m.actions[j] => i = j
  BY DEF Numbered
<1> QED BY <1>3, <1>4, <1>5 DEF Numbered, Noticed

\* Fewer screenshots are offered, in the order they were.
LEMMA FewerKept ==
  ASSUME NEW r, NEW n, NEW m, NEW b, NEW c, Numbered(r, n, b),
         c.opened = b.opened, m.queue = n.queue, m.notice = n.notice,
         DOMAIN m.actions \subseteq DOMAIN n.actions,
         \A i \in DOMAIN m.actions : m.actions[i] = n.actions[i]
  PROVE  Numbered(r, m, c)
<1>1. Offered(m) \subseteq Offered(n) /\ Opened(c) = Opened(b)
  BY DEF Offered, Opened
<1>2. \A i, j \in DOMAIN m.actions : m.actions[i] = m.actions[j] => i = j
  BY DEF Numbered
<1> QED BY <1>1, <1>2 DEF Numbered, Noticed

\* And what the signals and the daemon say of them stays true.
LEMMA FewerTraced ==
  ASSUME NEW n, NEW m, NEW b, NEW c, Traced(n, b), Opened(c) \subseteq b.clicked,
         c.signals = <<>>, c.clicked = b.clicked, c.shown = b.shown, c.next = b.next,
         m.answer = n.answer, m.notice = n.notice,
         DOMAIN m.actions \subseteq DOMAIN n.actions,
         \A i \in DOMAIN m.actions : m.actions[i] = n.actions[i]
  PROVE  Traced(m, c)
<1>1. \A i : ~Invoked(c, i)
  BY DEF Invoked
<1> QED BY <1>1 DEF Traced

\* A signal is handled: its target is no longer offered, and opened if it was invoked.
LEMMA HandleSignalInforms == ASSUME News, HandleSignal PROVE Informs
<1> DEFINE n == notifier
           b == bus
           kind == Head(b.signals)[1]
           id == Head(b.signals)[2]
           opens == kind = "invoked" /\ id \in DOMAIN n.actions
           rest == Tail(b.signals)
           q == IF opens THEN Append(b.opened, n.actions[id]) ELSE b.opened
           w == IF opens THEN "opening" ELSE "checking"
           less == Without(n.actions, id)
           c == [b EXCEPT !.signals = rest, !.opened = q]
           m == [n EXCEPT !.watcher = w, !.actions = less]
<1>1. /\ n \in Notifiers /\ b \in Buses /\ n.watcher = "listening" /\ b.signals # <<>>
      /\ requests' = requests
  BY Zenon DEF News, Serving, HandleSignal, Listening
<1>2. b.signals \in SeqOf({"closed", "invoked"} \X Files, 1)
  BY <1>1, Zenon DEF Buses
<1>3. /\ b.signals[1] \in {"closed", "invoked"} \X Files
      /\ b.signals = <<b.signals[1]>>
  BY <1>1, <1>2, OnePlace
<1>4. Head(b.signals) = b.signals[1] /\ rest = <<>>
  <2> DEFINE s == b.signals[1]
  <2>1. Head(<<s>>) = s /\ Tail(<<s>>) = <<>>
    OBVIOUS
  <2> QED BY <1>3, <2>1
<1>5. id \in Files /\ b.signals[1] = <<kind, id>>
  BY <1>3, <1>4
<1>6. n.actions \in Maps /\ Cardinality(DOMAIN n.actions) <= MaxPendingActions
  BY <1>1, NotifierFields DEF News, Serving
<1>7. /\ less \in Maps /\ DOMAIN less = DOMAIN n.actions \ {id}
      /\ \A i \in DOMAIN n.actions \ {id} : less[i] = n.actions[i]
  BY <1>6, WithoutTyped
<1>8. Cardinality(DOMAIN less) <= MaxPendingActions
  <2>1. IsFiniteSet(DOMAIN n.actions) /\ Cardinality(DOMAIN n.actions) \in Nat
    BY <1>6, MapFinite
  <2>2. Cardinality(DOMAIN less) <= Cardinality(DOMAIN n.actions)
    BY <1>7, <2>1, FS_Subset
  <2>3. Cardinality(DOMAIN less) \in Nat /\ MaxPendingActions \in Nat
    BY <1>7, MapFinite, WorkersAssumption
  <2> QED BY <1>6, <2>1, <2>2, <2>3
<1>9. bus' = c /\ notifier' = m
  BY Zenon DEF HandleSignal
<1>10. w \in {"opening", "checking"}
  OBVIOUS
<1>11. b.opened \in SeqOf(Files, MaxRequests)
  BY <1>1, Zenon DEF Buses
<1>12. ASSUME opens
       PROVE  /\ q \in SeqOf(Files, MaxRequests)
              /\ \A k, l \in DOMAIN q : q[k] = q[l] => k = l
              /\ {q[k] : k \in DOMAIN q} = Opened(b) \cup {n.actions[id]}
  <2> DEFINE file == n.actions[id]
  <2>1. file \in Files
    BY <1>6, <1>12, MapTyped
  <2>2. file \in Offered(n)
    BY <1>12 DEF Offered
  <2>3. file \notin Opened(b)
    BY <2>2 DEF News, Numbered
  <2>4. \A k, l \in DOMAIN b.opened : b.opened[k] = b.opened[l] => k = l
    BY DEF News, Numbered
  <2>5. q = Append(b.opened, file)
    BY <1>12
  <2> HIDE DEF file, q
  <2>6. LET p == Append(b.opened, file)
        IN /\ p \in SeqOf(Files, MaxRequests)
           /\ \A k, l \in DOMAIN p : p[k] = p[l] => k = l
           /\ {p[k] : k \in DOMAIN p} = Opened(b) \cup {file}
    BY <1>1, <2>1, <2>3, <2>4, OpenedTyped
  <2> QED BY <2>5, <2>6 DEF file
<1>13. ~opens => q = b.opened
  OBVIOUS
<1>14. q \in SeqOf(Files, MaxRequests)
  <2> HIDE DEF q, opens
  <2> QED BY <1>11, <1>12, <1>13
<1>15. opens => id \in DOMAIN n.actions /\ Invoked(b, id)
  BY <1>1, <1>5 DEF Invoked
<1>16. bus.restarted \/ Traced(n, b)
  BY DEF News
<1> HIDE DEF q, w, rest, less, opens, kind, id
<1>17. <<>> \in SeqOf({"closed", "invoked"} \X Files, 1)
  BY OnePlace
<1>18. c \in Buses
  BY <1>1, <1>4, <1>14, <1>17, Zenon DEF Buses
<1>19. m \in Notifiers
  BY <1>1, <1>7, <1>10, Zenon DEF Notifiers, Maps
<1>20. /\ c.signals = rest /\ c.opened = q /\ c.clicked = b.clicked
       /\ c.shown = b.shown /\ c.next = b.next /\ c.restarted = b.restarted
  BY <1>1, Zenon DEF Buses
<1>21. /\ m.queue = n.queue /\ m.notice = n.notice /\ m.answer = n.answer
       /\ m.worker = n.worker /\ m.watcher = w /\ m.actions = less
  BY <1>1, Zenon DEF Notifiers
<1> HIDE DEF c, m
<1>22. n.worker \notin {"unstarted", "ended"}
  BY <1>1 DEF News, Serving
<1>23. Serving(m)
  BY <1>8, <1>19, <1>21, <1>22 DEF News, Serving, Noticed
<1>24. Numbered(requests, n, b)
  BY DEF News
<1>25. Numbered(requests, m, c) /\ (c.restarted \/ Traced(m, c))
  <2>1. CASE opens
    <3>1. id \in DOMAIN n.actions /\ Opened(c) = Opened(b) \cup {n.actions[id]}
      BY <1>12, <1>15, <1>20, <2>1 DEF Opened
    <3>2. \A k, l \in DOMAIN c.opened : c.opened[k] = c.opened[l] => k = l
      BY <1>12, <1>20, <2>1
    <3>3. Numbered(requests, m, c)
      BY <1>1, <1>7, <1>21, <1>24, <3>1, <3>2, OpenedKept
    <3>4. Traced(n, b) => n.actions[id] \in b.clicked
      BY <1>5, <1>15, <2>1, <3>1 DEF Traced
    <3>5. Traced(n, b) => Opened(c) \subseteq b.clicked
      BY <3>1, <3>4 DEF Traced
    <3>6. Traced(n, b) => Traced(m, c)
      BY <1>4, <1>7, <1>20, <1>21, <3>5, FewerTraced
    <3> QED BY <1>16, <1>20, <3>3, <3>6
  <2>2. CASE ~opens
    <3>1. c.opened = b.opened
      BY <1>13, <1>20, <2>2
    <3>2. Numbered(requests, m, c)
      BY <1>7, <1>21, <1>24, <3>1, FewerKept
    <3>3. Traced(n, b) => Opened(c) \subseteq b.clicked
      BY <3>1 DEF Traced, Opened
    <3>4. Traced(n, b) => Traced(m, c)
      BY <1>4, <1>7, <1>20, <1>21, <3>3, FewerTraced
    <3> QED BY <1>16, <1>20, <3>2, <3>4
  <2> QED BY <2>1, <2>2
<1>26. News'
  BY <1>1, <1>9, <1>18, <1>23, <1>25 DEF News
<1>27. NewestCanBeOpened
  BY <1>9, <1>21, NoneGiven DEF NewestCanBeOpened
<1> QED BY <1>9, <1>21, <1>26, <1>27 DEF Informs

-----------------------------------------------------------------------------
(* The steps of the bus                                                    *)

\* A step of the bus alone.
LEMMA BusMoves ==
  ASSUME News, NEW c \in Buses, bus' = c, UNCHANGED <<requests, notifier>>,
         c.opened = bus.opened, c.restarted \/ Traced(notifier, c)
  PROVE  Informs
<1>1. Opened(c) = Opened(bus)
  BY DEF Opened
<1>2. Numbered(requests, notifier, c)
  BY <1>1 DEF News, Numbered
<1>3. News'
  BY <1>2 DEF News
<1>4. NewestCanBeOpened
  BY NoneGiven DEF NewestCanBeOpened
<1> QED BY <1>3, <1>4 DEF Informs

\* The fields of a bus.
LEMMA BusFields ==
  ASSUME NEW b, b \in Buses
  PROVE  /\ b.shown \in Maps /\ b.next \in 1 .. (MaxRequests + 1)
         /\ b.signals \in SeqOf({"closed", "invoked"} \X Files, 1)
         /\ b.clicked \in SUBSET Files
BY Zenon DEF Buses, Maps

\* A screenshot is shown under the next id, or it is not shown.
LEMMA DaemonAnswersInforms == ASSUME News, DaemonAnswers PROVE Informs
<1> DEFINE n == notifier
           b == bus
           s == Put(b.shown, b.next, n.notice[1])
           k == b.next + 1
           c == [b EXCEPT !.shown = s, !.next = k]
           a == [n EXCEPT !.answer = b.next]
           e == [n EXCEPT !.answer = Failure]
<1>1. /\ n \in Notifiers /\ b \in Buses /\ n.worker = "sending" /\ n.answer = NoAnswer
      /\ requests' = requests
  BY Zenon DEF News, Serving, DaemonAnswers
<1>2. Noticed(n)
  BY <1>1 DEF News, Serving
<1>3. /\ b.shown \in Maps /\ b.next \in 1 .. (MaxRequests + 1)
  BY <1>1, BusFields
<1>4. NewestCanBeOpened
  BY <1>1, NoneGiven DEF NewestCanBeOpened
<1>5. CASE b.next <= MaxRequests /\ notifier' = a /\ bus' = c
  <2>1. b.next \in Files /\ k \in 1 .. (MaxRequests + 1) /\ n.notice[1] \in Files
    BY <1>2, <1>3, <1>5, WorkersAssumption DEF Files, Noticed
  <2>2. /\ s \in Maps /\ DOMAIN s = DOMAIN b.shown \cup {b.next}
        /\ s[b.next] = n.notice[1]
        /\ \A i \in DOMAIN b.shown : i # b.next => s[i] = b.shown[i]
    <3>1. \A f \in Maps : \A id, file \in Files :
            /\ Put(f, id, file) \in Maps /\ DOMAIN Put(f, id, file) = DOMAIN f \cup {id}
            /\ Put(f, id, file)[id] = file
            /\ \A i \in DOMAIN f : i # id => Put(f, id, file)[i] = f[i]
      BY PutTyped
    <3> QED BY <1>3, <2>1, <3>1, Zenon
  <2>3. \A i : i < b.next => i < k \/ i \notin Files
    BY <2>1 DEF Files
  <2>4. b.next < k /\ ~(b.next < b.next)
    BY <2>1 DEF Files
  <2>5. notifier' = a /\ bus' = c
    BY <1>5
  <2>6. DOMAIN n.actions \subseteq Files /\ DOMAIN b.shown \subseteq Files
    BY <1>1, <1>3, NotifierFields, MapTyped
  <2> HIDE DEF s, k
  <2>7. a \in Notifiers
    BY <1>1, <2>1, Zenon DEF Notifiers
  <2>8. c \in Buses
    BY <1>1, <2>1, <2>2, Zenon DEF Buses, Maps
  <2>9. /\ c.signals = b.signals /\ c.opened = b.opened /\ c.clicked = b.clicked
        /\ c.shown = s /\ c.next = k /\ c.restarted = b.restarted
    BY <1>1, Zenon DEF Buses
  <2>10. /\ a.queue = n.queue /\ a.notice = n.notice /\ a.answer = b.next
         /\ a.worker = n.worker /\ a.watcher = n.watcher /\ a.actions = n.actions
    BY <1>1, Zenon DEF Notifiers
  <2> HIDE DEF a, c
  <2>11. Serving(a)
    BY <1>1, <2>7, <2>10 DEF News, Serving, Noticed
  <2>12. Numbered(requests, a, c)
    <3>1. Numbered(requests, n, b)
      BY DEF News
    <3> QED BY <2>9, <2>10, <3>1, FewerKept
  <2>13. ASSUME Traced(n, b) PROVE Traced(a, c)
    <3>1. \A i : Invoked(c, i) <=> Invoked(b, i)
      BY <2>9 DEF Invoked
    <3>2. ~Invoked(b, b.next)
      BY <2>1, <2>4, <2>13 DEF Traced
    <3>3. b.next \notin DOMAIN n.actions /\ b.next \notin DOMAIN b.shown
      BY <2>4, <2>13 DEF Traced
    <3>4. Opened(c) \subseteq c.clicked
      BY <2>9, <2>13 DEF Traced, Opened
    <3>5. \A id \in DOMAIN a.actions \cup DOMAIN c.shown : id < c.next
      BY <2>2, <2>3, <2>4, <2>6, <2>9, <2>10, <2>13 DEF Traced
    <3>6. \A id \in DOMAIN a.actions \cap DOMAIN c.shown : c.shown[id] = a.actions[id]
      BY <2>2, <2>9, <2>10, <2>13, <3>3 DEF Traced
    <3>7. /\ a.answer < c.next
          /\ \A id \in DOMAIN a.actions : id < a.answer
          /\ c.shown[a.answer] = a.notice[1]
          /\ ~Invoked(c, a.answer)
      BY <2>2, <2>4, <2>9, <2>10, <2>13, <3>1, <3>2 DEF Traced
    <3>8. \A id \in Files : Invoked(c, id) =>
            id < c.next /\ (id \in DOMAIN a.actions => a.actions[id] \in c.clicked)
      BY <2>3, <2>9, <2>10, <2>13, <3>1 DEF Traced
    <3> QED BY <3>4, <3>5, <3>6, <3>7, <3>8 DEF Traced
  <2>14. News'
    BY <1>1, <2>5, <2>8, <2>9, <2>11, <2>12, <2>13 DEF News
  <2> QED BY <1>4, <2>5, <2>10, <2>14 DEF Informs
<1>6. CASE notifier' = e /\ UNCHANGED bus
  <2>1. e \in Notifiers
    BY <1>1, Zenon DEF Notifiers
  <2>2. /\ e.queue = n.queue /\ e.notice = n.notice /\ e.answer = Failure
        /\ e.worker = n.worker /\ e.watcher = n.watcher /\ e.actions = n.actions
    BY <1>1, Zenon DEF Notifiers
  <2>3. notifier' = e /\ bus' = b
    BY <1>6
  <2> HIDE DEF e
  <2>4. Serving(e)
    BY <1>1, <2>1, <2>2 DEF News, Serving, Noticed
  <2>5. Numbered(requests, e, b)
    <3>1. Numbered(requests, n, b)
      BY DEF News
    <3> QED BY <2>2, <3>1, FewerKept
  <2>6. Traced(n, b) => Traced(e, b)
    BY <2>2, NoneGiven DEF Traced
  <2>7. News'
    BY <1>1, <2>3, <2>4, <2>5, <2>6 DEF News
  <2> QED BY <1>4, <2>2, <2>3, <2>7 DEF Informs
<1> QED BY <1>5, <1>6, Zenon DEF DaemonAnswers

\* What waits to be handled after a signal was sent.
LEMMA SignalledTyped ==
  ASSUME News, bus.signals = <<>>, NEW kind \in {"closed", "invoked"}, NEW id \in Files
  PROVE  LET q == Signalled(<< <<kind, id>> >>)
         IN /\ q \in SeqOf({"closed", "invoked"} \X Files, 1)
            /\ q # <<>> => q[1] = <<kind, id>>
<1> DEFINE s == <<kind, id>>
<1>1. s \in {"closed", "invoked"} \X Files
  OBVIOUS
<1> HIDE DEF s
<1>2. <<>> \o <<s>> = <<s>> /\ <<s>>[1] = s
  OBVIOUS
<1>3. <<>> \in SeqOf({"closed", "invoked"} \X Files, 1)
      /\ <<s>> \in SeqOf({"closed", "invoked"} \X Files, 1)
  BY <1>1, OnePlace
<1>4. Signalled(<<s>>) = <<s>> \/ Signalled(<<s>>) = <<>>
  BY <1>2 DEF Signalled
<1>5. /\ Signalled(<<s>>) \in SeqOf({"closed", "invoked"} \X Files, 1)
      /\ Signalled(<<s>>) # <<>> => Signalled(<<s>>)[1] = s
  BY <1>2, <1>3, <1>4
<1> QED BY <1>5 DEF s

\* A notification is clicked.
LEMMA ClickInforms == ASSUME News, NEW id \in Files, Click(id) PROVE Informs
<1> DEFINE n == notifier
           b == bus
           q == Signalled(<< <<"invoked", id>> >>)
           d == b.clicked \cup {b.shown[id]}
           c == [b EXCEPT !.signals = q, !.clicked = d]
<1>1. b \in Buses /\ id \in DOMAIN b.shown /\ b.signals = <<>> /\ bus' = c
      /\ UNCHANGED <<requests, notifier>>
  BY Zenon DEF News, Click
<1>2. /\ q \in SeqOf({"closed", "invoked"} \X Files, 1)
      /\ q # <<>> => q[1] = <<"invoked", id>>
  BY <1>1, SignalledTyped
<1>3. d \in SUBSET Files
  BY <1>1, BusFields, MapTyped
<1> HIDE DEF q
<1>4. b.shown[id] \in d /\ b.clicked \subseteq d
  OBVIOUS
<1> HIDE DEF d
<1>5. c \in Buses
  BY <1>1, <1>2, <1>3, Zenon DEF Buses
<1>6. /\ c.signals = q /\ c.opened = b.opened /\ c.clicked = d
      /\ c.shown = b.shown /\ c.next = b.next /\ c.restarted = b.restarted
  BY <1>1, Zenon DEF Buses
<1> HIDE DEF c
<1>7. ASSUME Traced(n, b) PROVE Traced(n, c)
  <2>1. \A i : Invoked(c, i) => i = id
    BY <1>2, <1>6 DEF Invoked
  <2>2. Opened(c) \subseteq c.clicked
    BY <1>4, <1>6, <1>7 DEF Traced, Opened
  <2>3. id < b.next /\ (id \in DOMAIN n.actions => n.actions[id] = b.shown[id])
    BY <1>1, <1>7 DEF Traced
  <2>4. n.answer \in Files => (n.answer = id => n.notice[1] = b.shown[id])
    BY <1>1, <1>7 DEF Traced
  <2>5. \A i \in Files : Invoked(c, i) =>
          i < c.next /\ (i \in DOMAIN n.actions => n.actions[i] \in c.clicked)
    BY <1>4, <1>6, <2>1, <2>3
  <2>6. n.answer \in Files =>
          /\ n.answer < c.next
          /\ \A i \in DOMAIN n.actions : i < n.answer
          /\ n.answer \in DOMAIN c.shown => c.shown[n.answer] = n.notice[1]
          /\ Invoked(c, n.answer) => n.notice[1] \in c.clicked
    BY <1>4, <1>6, <1>7, <2>1, <2>4 DEF Traced
  <2>7. /\ \A i \in DOMAIN n.actions \cup DOMAIN c.shown : i < c.next
        /\ \A i \in DOMAIN n.actions \cap DOMAIN c.shown : c.shown[i] = n.actions[i]
    BY <1>6, <1>7 DEF Traced
  <2> QED BY <2>2, <2>5, <2>6, <2>7 DEF Traced
<1>8. c.restarted \/ Traced(n, c)
  BY <1>6, <1>7 DEF News
<1> QED BY <1>1, <1>5, <1>6, <1>8, BusMoves

\* A notification is closed.
LEMMA DismissInforms == ASSUME News, NEW id \in Files, Dismiss(id) PROVE Informs
<1> DEFINE n == notifier
           b == bus
           q == Signalled(<< <<"closed", id>> >>)
           s == Without(b.shown, id)
           c == [b EXCEPT !.signals = q, !.shown = s]
<1>1. b \in Buses /\ b.signals = <<>> /\ bus' = c
      /\ UNCHANGED <<requests, notifier>>
  BY Zenon DEF News, Dismiss
<1>2. /\ q \in SeqOf({"closed", "invoked"} \X Files, 1)
      /\ q # <<>> => q[1] = <<"closed", id>>
  BY <1>1, SignalledTyped
<1>3. b.shown \in Maps
  BY <1>1, BusFields
<1>4. /\ s \in Maps /\ DOMAIN s = DOMAIN b.shown \ {id}
      /\ \A i \in DOMAIN b.shown \ {id} : s[i] = b.shown[i]
  BY <1>3, WithoutTyped
<1> HIDE DEF q, s
<1>5. c \in Buses
  BY <1>1, <1>2, <1>4, Zenon DEF Buses, Maps
<1>6. /\ c.signals = q /\ c.opened = b.opened /\ c.clicked = b.clicked
      /\ c.shown = s /\ c.next = b.next /\ c.restarted = b.restarted
  BY <1>1, Zenon DEF Buses
<1> HIDE DEF c
<1>7. \A i : ~Invoked(c, i)
  <2>1. \A i : <<"closed", id>> # <<"invoked", i>>
    OBVIOUS
  <2> QED BY <1>2, <1>6, <2>1 DEF Invoked
<1>8. Opened(c) = Opened(b)
  BY <1>6 DEF Opened
<1>9. Traced(n, b) => Traced(n, c)
  BY <1>4, <1>6, <1>7, <1>8 DEF Traced
<1>10. c.restarted \/ Traced(n, c)
  BY <1>6, <1>9 DEF News
<1> QED BY <1>1, <1>5, <1>6, <1>10, BusMoves

\* The daemon starts again, or the connection is closed.
LEMMA BusInforms == ASSUME News, DaemonRestarts \/ BusCloses PROVE Informs
<1> DEFINE b == bus
           r == [b EXCEPT !.restarted = TRUE, !.shown = <<>>, !.next = 1]
           c == [b EXCEPT !.up = FALSE, !.signals = <<>>]
<1>1. b \in Buses /\ UNCHANGED <<requests, notifier>>
  BY Zenon DEF News, DaemonRestarts, BusCloses
<1>2. CASE DaemonRestarts
  <2>1. <<>> \in Maps
    <3>1. <<>> \in [{} -> Files]
      OBVIOUS
    <3> QED BY <3>1, MapTyped
  <2>2. 1 \in 1 .. (MaxRequests + 1)
    BY WorkersAssumption
  <2>3. bus' = r
    BY <1>2, Zenon DEF DaemonRestarts
  <2>4. r \in Buses
    BY <1>1, <2>1, <2>2, Zenon DEF Buses, Maps
  <2>5. r.restarted = TRUE /\ r.opened = b.opened
    BY <1>1, Zenon DEF Buses
  <2> HIDE DEF r
  <2>6. r.restarted
    BY <2>5, Zenon
  <2> QED BY <1>1, <2>3, <2>4, <2>5, <2>6, BusMoves
<1>3. CASE BusCloses
  <2>1. <<>> \in SeqOf({"closed", "invoked"} \X Files, 1)
    BY OnePlace
  <2>2. bus' = c
    BY <1>3, Zenon DEF BusCloses
  <2>3. c \in Buses
    BY <1>1, <2>1, Zenon DEF Buses
  <2>4. /\ c.signals = <<>> /\ c.opened = b.opened /\ c.clicked = b.clicked
        /\ c.shown = b.shown /\ c.next = b.next /\ c.restarted = b.restarted
    BY <1>1, Zenon DEF Buses
  <2> HIDE DEF c
  <2>5. c.restarted \/ Traced(notifier, c)
    BY <2>4, SilencedKept DEF News
  <2> QED BY <1>1, <2>2, <2>3, <2>4, <2>5, BusMoves
<1> QED BY <1>2, <1>3

-----------------------------------------------------------------------------
(* The compositor                                                          *)

\* A step that leaves the notifier and the bus alone may count a request more.
LEMMA NewsKept ==
  ASSUME News, UNCHANGED <<notifier, bus>>,
         \/ requests' = requests
         \/ requests' = requests + 1 /\ requests < MaxRequests
  PROVE  Informs
<1>1. requests' \in 1..MaxRequests /\ requests \in Nat
  BY WorkersAssumption DEF News
<1>2. Numbered(requests', notifier, bus)
  BY <1>1, LaterKept DEF News, Serving
<1>3. News'
  BY <1>1, <1>2 DEF News
<1>4. NewestCanBeOpened
  BY NoneGiven DEF NewestCanBeOpened
<1> QED BY <1>3, <1>4 DEF Informs

\* A screenshot that is queued is the newest.
LEMMA ScreenshotInforms ==
  ASSUME News, NEW saved \in BOOLEAN, Screenshot(saved)
  PROVE  News' /\ NewestCanBeOpened
<1> DEFINE n == notifier
           w == IF n.worker = "unstarted" THEN "waiting" ELSE n.worker
           k == requests + 1
           q == IF n.queue = <<>> THEN << <<k, saved>> >> ELSE n.queue
           m == [n EXCEPT !.worker = w, !.queue = q]
<1>1. /\ n \in Notifiers /\ requests \in 1..MaxRequests /\ requests < MaxRequests
      /\ requests' = k /\ UNCHANGED bus
  BY Zenon DEF News, Serving, Screenshot
<1>2. UNCHANGED notifier \/ notifier' = m
  BY Zenon DEF Screenshot
<1>3. CASE UNCHANGED notifier
  BY <1>1, <1>3, NewsKept DEF Informs
<1>4. CASE notifier' = m
  <2>1. n.queue \in SeqOf(Files \X BOOLEAN, 1)
    BY <1>1, NotifierFields
  <2> DEFINE s == <<k, saved>>
  <2>2. s \in Files \X BOOLEAN /\ s[1] = k
    BY <1>1, WorkersAssumption DEF Files
  <2>3. \/ n.queue = <<>> /\ q = <<s>>
        \/ n.queue # <<>> /\ q = n.queue
    OBVIOUS
  <2> HIDE DEF s, q
  <2>4. q \in SeqOf(Files \X BOOLEAN, 1)
    BY <2>1, <2>2, <2>3, OnePlace
  <2>5. w \in {"unstarted", "waiting", "connecting", "dialling", "watching", "sending", "closing",
             "ended"}
    BY <1>1, Zenon DEF Notifiers
  <2>6. w = n.worker \/ (n.worker = "unstarted" /\ w = "waiting")
    OBVIOUS
  <2> HIDE DEF w
  <2>7. m \in Notifiers
    BY <1>1, <2>4, <2>5, Zenon DEF Notifiers
  <2>8. /\ m.queue = q /\ m.notice = n.notice /\ m.answer = n.answer
        /\ m.worker = w /\ m.watcher = n.watcher /\ m.actions = n.actions
    BY <1>1, Zenon DEF Notifiers
  <2>9. notifier' = m
    BY <1>4
  <2> HIDE DEF m
  <2>10. Serving(m)
    BY <2>6, <2>7, <2>8 DEF News, Serving, Noticed
  <2>11. Numbered(k, n, bus) /\ Numbered(requests, n, bus)
    BY <1>1, LaterKept DEF News
  <2>12. Numbered(k, m, bus)
    <3>1. CASE n.queue # <<>> /\ q = n.queue
      BY <2>8, <2>11, <3>1, FewerKept
    <3>2. CASE n.queue = <<>> /\ q = <<s>>
      <4>1. q # <<>> /\ q[1] = s
        BY <3>2
      <4>2. q[1][1] = k
        BY <2>2, <4>1
      <4>3. Offered(m) = Offered(n) /\ (Noticed(m) <=> Noticed(n))
        BY <2>8 DEF Offered, Noticed
      <4>4. \A f \in Offered(n) \cup Opened(bus) : f < k
        <5>1. Offered(n) \subseteq Nat
          <6>1. n.actions \in Maps
            BY <1>1, NotifierFields
          <6>2. \A id \in DOMAIN n.actions : n.actions[id] \in Files
            BY <6>1, MapTyped
          <6> QED BY <6>2 DEF Offered, Files
        <5>2. Opened(bus) \subseteq Nat
          <6>1. bus.opened \in SeqOf(Files, MaxRequests)
            BY Zenon DEF Buses, News
          <6>2. \A i \in DOMAIN bus.opened : bus.opened[i] \in Files
            BY <6>1 DEF SeqOf
          <6> QED BY <6>2 DEF Opened, Files
        <5> QED BY <1>1, <2>11, <5>1, <5>2 DEF Numbered
      <4>5. Noticed(n) => n.notice[1] < k
        <5>1. Noticed(n) => n.notice[1] \in Nat
          BY DEF Noticed, Files
        <5> QED BY <1>1, <2>11, <5>1 DEF Numbered
      <4>6. k <= k
        BY <1>1
      <4> HIDE DEF k
      <4> QED BY <2>8, <2>11, <4>1, <4>2, <4>3, <4>4, <4>5, <4>6 DEF Numbered
    <3> QED BY <2>3, <3>1, <3>2
  <2>13. Traced(n, bus) => Traced(m, bus)
    BY <2>8 DEF Traced
  <2>14. News'
    <3>1. k \in 1..MaxRequests
      BY <1>1, WorkersAssumption
    <3> QED BY <1>1, <2>9, <2>10, <2>12, <2>13, <3>1 DEF News
  <2>15. NewestCanBeOpened
    BY <2>8, <2>9, NoneGiven DEF NewestCanBeOpened
  <2> QED BY <2>14, <2>15
<1> QED BY <1>2, <1>3, <1>4

\* An activation is submitted.
LEMMA ActivateBusy ==
  ASSUME Busy(activation), NEW job \in Jobs, Activate(job)
  PROVE  Busy(activation')
<1>1. PICK a \in Started(activation) : activation' = Submitted(a, job)
  BY DEF Activate
<1> QED BY <1>1, StartedBusy, SubmittedBusy

\* The stop is put into the queue if there is a place.
LEMMA NotifierJoinedBusy ==
  ASSUME Busy(activation), NotifierJoined
  PROVE  Busy(activation')
<1> DEFINE a == activation
           q == IF a.queue = <<>> /\ a.thread # "failed" THEN <<NoJob>> ELSE a.queue
           c == [a EXCEPT !.stop = TRUE, !.queue = q]
<1>1. a \in Activations /\ activation' = c
  BY Zenon DEF Busy, NotifierJoined
<1>2. a.queue \in SeqOf(Jobs \cup {NoJob}, 1)
  BY <1>1, Zenon DEF Activations
<1>3. q \in SeqOf(Jobs \cup {NoJob}, 1)
  BY <1>2, OnePlace
<1> HIDE DEF q
<1>4. c \in Activations
  BY <1>1, <1>3, Zenon DEF Activations
<1>5. c.thread = a.thread /\ c.job = a.job /\ c.left = a.left /\ c.child = a.child
  BY <1>1, Zenon DEF Activations
<1> HIDE DEF c
<1> QED BY <1>1, <1>4, <1>5 DEF Busy

\* Stopping the notifier.
LEMMA ShutdownInforms == ASSUME News, Shutdown PROVE Informs
<1> DEFINE n == notifier
           m == [n EXCEPT !.stop = TRUE]
<1>1. n \in Notifiers /\ notifier' = m /\ UNCHANGED <<requests, bus>>
  BY Zenon DEF News, Serving, Shutdown
<1>2. m \in Notifiers /\ SameFiles(n, m) /\ m.worker = n.worker /\ m.watcher = n.watcher
  BY <1>1, Zenon DEF Notifiers, SameFiles
<1> HIDE DEF m
<1>3. Serving(m)
  BY <1>2 DEF News, Serving, SameFiles, Noticed
<1> QED BY <1>1, <1>2, <1>3, NotifierMoves

\* Two jobs are what is ever submitted after the first.
LEMMA JobsTyped ==
  /\ [display |-> TRUE, portal |-> FALSE] \in Jobs
  /\ [display |-> FALSE, portal |-> TRUE] \in Jobs
  /\ xwayland \in BOOLEAN => [display |-> xwayland, portal |-> FALSE] \in Jobs
BY Zenon DEF Jobs

\* At first the activation has its job, and nothing has been shown.
LEMMA InitInv == Init => Inv
<1> SUFFICES ASSUME Init PROVE Inv
  OBVIOUS
<1> DEFINE a == [thread |-> "unstarted", queue |-> <<>>, stop |-> FALSE, job |-> NoJob,
                 left |-> <<>>, child |-> "none", tried |-> FALSE, lost |-> FALSE]
           n == [worker |-> "unstarted", queue |-> <<>>, stop |-> FALSE,
                 notice |-> <<NoFile, FALSE>>, answer |-> NoAnswer, connected |-> FALSE,
                 watcher |-> "none", watcherStop |-> FALSE, watched |-> FALSE,
                 actions |-> <<>>]
           b == [up |-> FALSE, shown |-> <<>>, next |-> 1, signals |-> <<>>, clicked |-> {},
                 opened |-> <<>>, restarted |-> FALSE]
           j == [display |-> FALSE, portal |-> TRUE]
<1>1. /\ main = "running" /\ requests = 1 /\ xwayland = FALSE
      /\ notifier = n /\ bus = b
      /\ \E s \in Started(a) : activation = Submitted(s, j)
  BY Zenon DEF Init
<1>2. Busy(activation)
  <2>1. <<>> \in SeqOf(Jobs \cup {NoJob}, 1)
    BY OnePlace
  <2>2. <<>> \in SeqOf(Names, 4)
    <3>1. <<>> \in Seq(Names) /\ Len(<<>>) <= 4
      BY EmptySeq
    <3> QED BY <3>1, ShortSeq
  <2>3. a \in Activations
    BY <2>1, <2>2, Zenon DEF Activations, Names
  <2>4. a.thread = "unstarted" /\ a.child = "none"
    BY Zenon
  <2>5. Busy(a)
    BY <2>3, <2>4, Zenon DEF Busy
  <2> HIDE DEF a, j
  <2>6. j \in Jobs
    BY JobsTyped DEF j
  <2> QED BY <1>1, <2>5, <2>6, StartedBusy, SubmittedBusy
<1>3. <<>> \in Maps /\ DOMAIN <<>> = {}
  <2>1. <<>> \in [{} -> Files] /\ DOMAIN <<>> = {}
    OBVIOUS
  <2> QED BY <2>1, MapTyped
<1>4. n \in Notifiers
  <2>1. <<>> \in SeqOf(Files \X BOOLEAN, 1)
    BY OnePlace
  <2> QED BY <1>3, <2>1, Zenon DEF Notifiers, Maps
<1>5. b \in Buses
  <2>1. <<>> \in SeqOf({"closed", "invoked"} \X Files, 1)
    BY OnePlace
  <2>2. <<>> \in SeqOf(Files, MaxRequests)
    <3>1. <<>> \in [1 .. 0 -> Files] /\ 0 \in 0 .. MaxRequests
      BY WorkersAssumption
    <3> QED BY <3>1 DEF SeqOf
  <2>3. 1 \in 1 .. (MaxRequests + 1)
    BY WorkersAssumption
  <2> QED BY <1>3, <2>1, <2>2, <2>3, Zenon DEF Buses, Maps
<1>6. /\ n.worker = "unstarted" /\ n.watcher = "none" /\ n.answer = NoAnswer
      /\ n.notice = <<NoFile, FALSE>> /\ n.queue = <<>> /\ n.actions = <<>>
      /\ b.signals = <<>> /\ b.opened = <<>> /\ b.shown = <<>>
  BY Zenon
<1> HIDE DEF n, b, a
<1>7. Serving(n)
  <2>1. Cardinality(DOMAIN <<>>) <= MaxPendingActions
    BY <1>3, FS_EmptySet, WorkersAssumption
  <2> QED BY <1>4, <1>6, <2>1 DEF Serving
<1>8. /\ Offered(n) = {} /\ Opened(b) = {} /\ ~Noticed(n)
      /\ DOMAIN n.actions = {} /\ DOMAIN b.opened = {} /\ DOMAIN b.shown = {}
  BY <1>3, <1>6, NoneGiven DEF Offered, Opened, Noticed
<1>9. Numbered(requests, n, b)
  BY <1>6, <1>8 DEF Numbered
<1>10. Traced(n, b)
  BY <1>6, <1>8, NoneGiven DEF Traced, Invoked
<1>11. requests \in 1..MaxRequests
  BY <1>1, WorkersAssumption
<1> QED BY <1>1, <1>2, <1>5, <1>7, <1>9, <1>10, <1>11 DEF Inv, Joined

\* Every step keeps the invariant.
LEMMA InvStep ==
  ASSUME Inv, [Next]_vars
  PROVE  Inv' /\ (NewestCanBeOpened \/ UNCHANGED vars)
<1> DEFINE Rest == /\ main' \in {"running", "notifier", "activation", "gone"}
                   /\ xwayland' \in BOOLEAN
<1>1. News /\ Busy(activation) /\ Joined
      /\ main \in {"running", "notifier", "activation", "gone"} /\ xwayland \in BOOLEAN
  BY DEF Inv, News
<1>2. ASSUME News', Busy(activation'), Joined', Rest
      PROVE  Inv'
  BY <1>2 DEF Inv, News
<1>3. ASSUME Informs, UNCHANGED <<main, xwayland, activation>>
      PROVE  Inv' /\ NewestCanBeOpened
  <2>1. Joined'
    BY <1>1, <1>3 DEF Informs, Joined
  <2> QED BY <1>1, <1>2, <1>3, <2>1 DEF Informs
<1>4. ASSUME Busy(activation'), UNCHANGED <<main, xwayland, requests, notifier, bus>>,
             activation.thread \in {"unstarted", "failed", "ended"}
               => activation'.thread = activation.thread
      PROVE  Inv' /\ NewestCanBeOpened
  <2>1. Informs
    BY <1>1, <1>4, NewsKept
  <2>2. Joined'
    BY <1>1, <1>4 DEF Joined
  <2> QED BY <1>1, <1>2, <1>4, <2>1, <2>2 DEF Informs
<1>5. ASSUME NEW job \in Jobs, Activate(job), xwayland' \in BOOLEAN
      PROVE  Inv' /\ NewestCanBeOpened
  <2>1. /\ main = "running" /\ UNCHANGED <<main, notifier, bus>>
        /\ requests' = requests + 1 /\ requests < MaxRequests
    BY <1>5 DEF Activate, Running
  <2>2. Informs
    BY <1>1, <2>1, NewsKept
  <2>3. Busy(activation')
    BY <1>1, <1>5, ActivateBusy
  <2>4. Joined'
    BY <2>1 DEF Joined
  <2> QED BY <1>2, <1>5, <2>1, <2>2, <2>3, <2>4 DEF Informs
<1>6. CASE Reload
  <2>1. [display |-> xwayland, portal |-> FALSE] \in Jobs
    BY <1>1, JobsTyped
  <2> QED BY <1>1, <1>5, <1>6, <2>1 DEF Reload
<1>7. CASE XWaylandReady
  <2>1. xwayland' \in BOOLEAN
    BY <1>7, Zenon DEF XWaylandReady
  <2> QED BY <1>5, <1>7, <2>1, JobsTyped DEF XWaylandReady
<1>8. ASSUME NEW saved \in BOOLEAN, Screenshot(saved)
      PROVE  Inv' /\ NewestCanBeOpened
  <2>1. main = "running" /\ UNCHANGED <<main, xwayland, activation>>
    BY <1>8 DEF Screenshot, Running
  <2>2. Joined'
    BY <2>1 DEF Joined
  <2> QED BY <1>1, <1>2, <1>8, <2>1, <2>2, ScreenshotInforms
<1>9. CASE ActivationThread \/ CommandExits
  <2>1. Busy(activation')
    BY <1>1, <1>9, ActivationBusy
  <2>2. UNCHANGED <<main, xwayland, requests, notifier, bus>>
    BY <1>9 DEF ActivationThread, TakeJob, SpawnCommand, PollCommand, CommandExits
  <2>3. activation.thread \in {"waiting", "working"}
    BY <1>1, <1>9 DEF ActivationThread, TakeJob, SpawnCommand, PollCommand, CommandExits, Busy
  <2> QED BY <1>4, <2>1, <2>2, <2>3
<1>10. CASE NotifierThread
  <2>1. Informs
    BY <1>1, <1>10, TakeNoticeInforms, ConnectInforms, WatchingInforms, SentInforms,
       CloseWorkerInforms DEF NotifierThread
  <2>2. UNCHANGED <<main, xwayland, activation>>
    BY <1>10 DEF NotifierThread, TakeNotice, Connect, StopWatcher, StartWatcher, KeepWatcher,
                 Sent, CloseWorker
  <2> QED BY <1>3, <2>1, <2>2
<1>11. CASE WatcherThread \/ WatcherFails \/ OpenerEnds \/ BusSubscribes
  <2>1. Informs
    BY <1>1, <1>11, WatcherInforms, HandleSignalInforms DEF WatcherThread
  <2>2. UNCHANGED <<main, xwayland, activation>>
    BY <1>11 DEF WatcherThread, WatcherChecks, WatcherTimesOut, WatcherFails, OpenerEnds,
                 BusSubscribes, HandleSignal
  <2> QED BY <1>3, <2>1, <2>2
<1>12. CASE \/ BusConnects \/ DaemonAnswers \/ DaemonRestarts \/ BusCloses
            \/ \E id \in Files : Click(id) \/ Dismiss(id)
  <2>1. Informs
    BY <1>1, <1>12, BusConnectsInforms, DaemonAnswersInforms, BusInforms, ClickInforms, DismissInforms
  <2>2. UNCHANGED <<main, xwayland, activation>>
    BY <1>12 DEF BusConnects, DaemonAnswers, DaemonRestarts, BusCloses, Click, Dismiss
  <2> QED BY <1>3, <2>1, <2>2
<1>13. CASE Shutdown
  <2>1. Informs
    BY <1>1, <1>13, ShutdownInforms
  <2>2. main' = "notifier" /\ UNCHANGED <<xwayland, activation>>
    BY <1>13 DEF Shutdown
  <2>3. Joined'
    BY <2>2 DEF Joined
  <2> QED BY <1>1, <1>2, <2>1, <2>2, <2>3 DEF Informs
<1>14. CASE NotifierJoined
  <2>1. /\ main' = "activation" /\ notifier.worker \in {"unstarted", "ended"}
        /\ UNCHANGED <<requests, xwayland, notifier, bus>>
    BY <1>14 DEF NotifierJoined
  <2>2. Informs
    BY <1>1, <2>1, NewsKept
  <2>3. Busy(activation')
    BY <1>1, <1>14, NotifierJoinedBusy
  <2>4. Joined'
    BY <2>1 DEF Joined
  <2> QED BY <1>1, <1>2, <2>1, <2>2, <2>3, <2>4 DEF Informs
<1>15. CASE ActivationJoined
  <2>1. /\ main = "activation" /\ main' = "gone"
        /\ activation.thread \in {"unstarted", "failed", "ended"}
        /\ UNCHANGED <<requests, xwayland, activation, notifier, bus>>
    BY <1>15 DEF ActivationJoined
  <2>2. Informs
    BY <1>1, <2>1, NewsKept
  <2>3. Joined'
    BY <1>1, <2>1 DEF Joined
  <2> QED BY <1>1, <1>2, <2>1, <2>2, <2>3 DEF Informs
<1>16. CASE UNCHANGED vars
  <2>1. UNCHANGED <<main, requests, xwayland, activation, notifier, bus>>
    BY <1>16 DEF vars
  <2>2. Informs
    BY <1>1, <2>1, NewsKept
  <2> QED BY <1>3, <2>1, <2>2
<1> QED BY <1>6, <1>7, <1>8, <1>9, <1>10, <1>11, <1>12, <1>13, <1>14, <1>15, <1>16
        DEF Next, MainThread

\* The invariant holds.
LEMMA Invariant == Spec => []Inv
<1>1. Inv /\ [Next]_vars => Inv'
  BY InvStep
<1> QED BY InitInv, <1>1, PTL DEF Spec

-----------------------------------------------------------------------------
(* The theorems                                                            *)

\* When the drop of the notifier has returned, its worker and its watcher have ended, and
\* when that of the activation has, its thread; a child lives only while the thread works.
THEOREM NothingLeft == Spec => []NothingOutlives
<1>1. ASSUME Inv PROVE NothingOutlives
  <2>1. TypeOK
    BY <1>1 DEF Inv, TypeOK, Busy, Serving
  <2>2. /\ notifier.worker = "unstarted" => notifier.watcher = "none"
        /\ notifier.worker = "ended" => notifier.watcher \in {"none", "finished"}
    BY <1>1 DEF Inv, Serving
  <2>3. activation.child # "none" => activation.thread = "working"
    BY <1>1 DEF Inv, Busy
  <2>4. Joined
    BY <1>1 DEF Inv
  <2> QED BY <2>1, <2>2, <2>3, <2>4 DEF NothingOutlives, Joined
<1> QED BY Invariant, <1>1, PTL

\* Whatever the daemon, the bus and the limit of actions do, a screenshot is opened at most
\* once and only if it was clicked, and the newest keeps its action.
THEOREM ClicksOpen == Spec => OpensWhatWasClicked
<1>1. ASSUME Inv PROVE ClickedOpensOnce
  <2>1. IsInjective(bus.opened)
    BY <1>1 DEF Inv, Numbered, IsInjective
  <2>2. ToSet(bus.opened) = Opened(bus)
    BY DEF ToSet, Opened
  <2>3. bus.restarted \/ ToSet(bus.opened) \subseteq bus.clicked
    BY <1>1, <2>2 DEF Inv, Traced
  <2>4. Cardinality(DOMAIN notifier.actions) <= MaxPendingActions
    BY <1>1 DEF Inv, Serving
  <2> QED BY <2>1, <2>3, <2>4 DEF ClickedOpensOnce
<1>2. Inv' => ClickedOpensOnce'
  BY <1>1, PTL
<1>3. Inv /\ Inv' /\ [Next]_vars => [ClickedOpensOnce' /\ NewestCanBeOpened]_vars
  BY <1>2, InvStep
<1> QED BY Invariant, <1>3, PTL DEF Spec, OpensWhatWasClicked
==============================================================================

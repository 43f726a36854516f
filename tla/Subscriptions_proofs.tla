------------------------ MODULE Subscriptions_proofs ------------------------
(***************************************************************************)
(* Mailboxes, locks and wakes lose nothing: for any subscribers, contents, *)
(* queue length and number of publications.                                *)
(***************************************************************************)
EXTENDS Subscriptions, SequenceTheorems, TLAPS

-----------------------------------------------------------------------------
(* The inductive invariant                                                 *)

\* Before it is registered a subscriber has nothing and has been told nothing.
Fresh(w) ==
  phase[w] \in {"idle", "asked"} =>
    /\ w \notin registered
    /\ latest[w] = 0 /\ event[w] = 0 /\ queue[w] = <<>>
    /\ hand[w] = Nothing /\ seen[w].snapshot = 0

\* A thread that serves is registered: only one that has ended is dropped.
Joined(w) == phase[w] \in Serving => w \in registered

\* What a thread holds at each point of its loop.
Held(w) ==
  /\ phase[w] \in {"polling", "drained"} => hand[w] = Nothing
  /\ phase[w] \in {"initial", "tookSnapshot"} => hand[w].event = 0
  /\ phase[w] \in {"initial", "tookSnapshot", "tookEvent"} => hand[w].shortcuts = <<>>
  /\ phase[w] = "initial" => hand[w].snapshot # 0 /\ seen[w].snapshot = 0
  /\ phase[w] \in Serving \ {"initial"} => seen[w].snapshot # 0

\* The wake is not lost.
Awake(w) ==
  phase[w] \in Serving =>
    /\ latest[w] # 0 => wake[w] \/ phase[w] = "drained"
    /\ event[w] # 0 => wake[w] \/ phase[w] \in {"drained", "tookSnapshot"}
    /\ queue[w] # <<>> =>
         wake[w] \/ w \in owed \/ phase[w] \in {"drained", "tookSnapshot", "tookEvent"}

\* No snapshot is missed, and they come in order.
Current(w) ==
  phase[w] \in Serving =>
    /\ Newest(w) = snapshot.generation
    /\ hand[w].snapshot # 0 => hand[w].snapshot > seen[w].snapshot
    /\ latest[w] # 0 => latest[w] > hand[w].snapshot /\ latest[w] > seen[w].snapshot

\* q is what a reader who has got to s has yet to read to get to m: consecutive numbers up
\* to m, the first of which may be an error frame that stands for it and any before. The
\* numbers begin after s, or after a gap if the reader has just been warned of one.
Follows(s, warned, q, m) ==
  /\ \A i \in 1 .. Len(q) : q[i] = m - Len(q) + i \/ (i = 1 /\ q[i] = 0)
  /\ IF q # <<>> /\ q[1] = 0 THEN s <= m - Len(q) + 1
     ELSE s = m - Len(q) \/ (warned /\ s <= m - Len(q))

\* Shortcuts: the client reads what the thread holds, and then what is in the queue, and
\* has read all that were published.
Ordered(w) ==
  phase[w] \in Serving =>
    \E m \in 0 .. shortcuts :
      /\ Follows(seen[w].shortcut, seen[w].warned, hand[w].shortcuts, m)
      /\ Follows(m, FALSE, queue[w], shortcuts)

Good(w) == Fresh(w) /\ Joined(w) /\ Held(w) /\ Awake(w) /\ Current(w) /\ Ordered(w)

Inv == TypeOK /\ \A w \in Subscribers : Good(w)

-----------------------------------------------------------------------------
(* Queues of shortcuts                                                     *)

\* Nothing has to be read to stay where one is.
LEMMA NothingFollows ==
  ASSUME NEW n \in Nat, NEW warned \in BOOLEAN
  PROVE  Follows(n, warned, <<>>, n)
BY DEF Follows

\* One more shortcut is queued, or the error frame that stands for it and all before.
LEMMA FollowsEnqueued ==
  ASSUME NEW q \in Seq(Nat), NEW n \in Nat, NEW m \in 0 .. n, Follows(m, FALSE, q, n)
  PROVE  Follows(m, FALSE, Enqueued(q, n + 1), n + 1)
<1>1. CASE Len(q) >= MaxPending
  <2> DEFINE r == <<0>>
  <2>1. Enqueued(q, n + 1) = r
    BY <1>1 DEF Enqueued
  <2>2. Len(r) = 1 /\ r[1] = 0 /\ r # <<>>
    OBVIOUS
  <2> HIDE DEF r
  <2>3. \A i \in 1 .. Len(r) : i = 1 /\ r[i] = 0
    BY <2>2
  <2>4. m <= (n + 1) - Len(r) + 1
    BY <2>2
  <2>5. Follows(m, FALSE, r, n + 1)
    BY <2>2, <2>3, <2>4 DEF Follows
  <2> QED BY <2>1, <2>5
<1>2. CASE ~(Len(q) >= MaxPending)
  <2> DEFINE r == Append(q, n + 1)
  <2>1. Enqueued(q, n + 1) = r
    BY <1>2 DEF Enqueued
  <2>2. /\ Len(r) = Len(q) + 1 /\ Len(q) \in Nat /\ r[Len(q) + 1] = n + 1
        /\ \A i \in 1 .. Len(q) : r[i] = q[i]
        /\ q # <<>> => Len(q) > 0
        /\ q = <<>> => Len(q) = 0
        /\ r # <<>>
    OBVIOUS
  <2> HIDE DEF r
  <2>3. \A i \in 1 .. Len(r) : r[i] = (n + 1) - Len(r) + i \/ (i = 1 /\ r[i] = 0)
    <3>1. \A i \in 1 .. Len(q) : q[i] = n - Len(q) + i \/ (i = 1 /\ q[i] = 0)
      BY DEF Follows
    <3>2. ASSUME NEW i \in 1 .. Len(r), i # Len(r) PROVE i \in 1 .. Len(q) /\ r[i] = q[i]
      BY <2>2, <3>2
    <3> QED BY <2>2, <3>1, <3>2
  <2>4. CASE q = <<>>
    BY <2>2, <2>3, <2>4 DEF Follows, Enqueued
  <2>5. CASE q # <<>>
    <3>1. r[1] = q[1] /\ (n + 1) - Len(r) = n - Len(q)
      BY <2>2, <2>5
    <3>2. r # <<>> /\ r[1] = 0 => m <= (n + 1) - Len(r) + 1
      BY <2>5, <3>1 DEF Follows
    <3>3. ~(r # <<>> /\ r[1] = 0) => m = (n + 1) - Len(r)
      BY <2>2, <2>5, <3>1 DEF Follows
    <3>4. Follows(m, FALSE, r, n + 1)
      BY <2>3, <3>2, <3>3, Zenon DEF Follows
    <3> QED BY <2>1, <3>4
  <2> QED BY <2>1, <2>4, <2>5
<1> QED BY <1>1, <1>2

\* The reader takes the first frame: a shortcut, from which he goes on, or an error frame.
LEMMA FollowsRead ==
  ASSUME NEW h \in Seq(Nat), h # <<>>, NEW s \in Nat, NEW warned \in BOOLEAN, NEW m \in Nat,
         Follows(s, warned, h, m)
  PROVE  /\ Head(h) # 0 => /\ s = Head(h) - 1 \/ (warned /\ s < Head(h))
                           /\ Follows(Head(h), FALSE, Tail(h), m)
         /\ Head(h) = 0 => Follows(s, TRUE, Tail(h), m)
<1> DEFINE t == Tail(h)
<1>1. /\ Len(h) \in Nat /\ Len(h) > 0 /\ Len(t) = Len(h) - 1 /\ Head(h) = h[1]
      /\ \A i \in 1 .. Len(t) : t[i] = h[i + 1]
      /\ t # <<>> => Len(t) > 0
  OBVIOUS
<1> HIDE DEF t
<1>2. \A i \in 1 .. Len(h) : h[i] = m - Len(h) + i \/ (i = 1 /\ h[i] = 0)
  BY DEF Follows
<1>3. \A i \in 1 .. Len(t) : t[i] = m - Len(t) + i
  BY <1>1, <1>2
<1>4. h[1] # 0 => h[1] = m - Len(t) /\ (s = h[1] - 1 \/ (warned /\ s < h[1]))
  <2>1. h[1] # 0 => h[1] = m - Len(h) + 1
    BY <1>1, <1>2
  <2>2. h[1] # 0 => s = m - Len(h) \/ (warned /\ s <= m - Len(h))
    BY DEF Follows
  <2> QED BY <1>1, <2>1, <2>2
<1>5. h[1] = 0 => s <= m - Len(t)
  BY <1>1 DEF Follows
<1>6. m - Len(t) \in Nat => ~(t # <<>> /\ t[1] = 0)
  BY <1>1, <1>3
<1>7. m - Len(t) \in Nat
  <2>1. h[1] \in Nat
    BY <1>1
  <2> QED BY <1>1, <1>4, <1>5, <2>1
<1>8. h[1] # 0 => Follows(h[1], FALSE, t, m)
  BY <1>3, <1>4, <1>6, <1>7 DEF Follows
<1>9. h[1] = 0 => Follows(s, TRUE, t, m)
  BY <1>3, <1>5, <1>6, <1>7 DEF Follows
<1> QED BY <1>1, <1>4, <1>8, <1>9 DEF t

\* A reader who has read everything goes on with what is next.
LEMMA FollowsOn ==
  ASSUME NEW q \in Seq(Nat), NEW s \in Nat, NEW warned \in BOOLEAN, NEW n \in Nat,
         NEW m \in 0 .. n, Follows(s, warned, <<>>, m), Follows(m, FALSE, q, n)
  PROVE  Follows(s, warned, q, n)
<1>1. s = m \/ (warned /\ s <= m)
  BY DEF Follows
<1>2. Len(q) \in Nat
  OBVIOUS
<1> QED BY <1>1, <1>2 DEF Follows

-----------------------------------------------------------------------------
(* One subscriber                                                          *)

Hands == [snapshot : 0 .. MaxGeneration, event : 0 .. MaxReloads,
          shortcuts : Seq(0 .. MaxShortcuts)]
Told == [snapshot : 0 .. MaxGeneration, event : 0 .. MaxReloads,
         shortcut : 0 .. MaxShortcuts, warned : BOOLEAN]
Phases == {"idle", "asked", "ended"} \cup Serving

\* Nothing is published, said or done at first.
LEMMA InitInv == Init => Inv
<1> SUFFICES ASSUME Init PROVE Inv
  OBVIOUS
<1>1. TypeOK
  <2>1. Nothing \in Hands
    BY SubscriptionsAssumption DEF Nothing, Hands
  <2>2. [snapshot |-> 0, event |-> 0, shortcut |-> 0, warned |-> FALSE] \in Told
    BY SubscriptionsAssumption DEF Told
  <2>3. hand \in [Subscribers -> Hands] /\ seen \in [Subscribers -> Told]
    BY <2>1, <2>2, Zenon DEF Init
  <2>4. /\ snapshot \in [generation : 0 .. MaxGeneration, content : Contents]
        /\ reloads \in 0 .. MaxReloads /\ shortcuts \in 0 .. MaxShortcuts
        /\ latest \in [Subscribers -> 0 .. MaxGeneration]
        /\ event \in [Subscribers -> 0 .. MaxReloads]
    BY SubscriptionsAssumption DEF Init
  <2>5. /\ queue \in [Subscribers -> Seq(0 .. MaxShortcuts)]
        /\ \A w \in Subscribers : Len(queue[w]) <= MaxPending
    BY SubscriptionsAssumption DEF Init
  <2>6. /\ wake \in [Subscribers -> BOOLEAN] /\ open \in [Subscribers -> BOOLEAN]
        /\ phase \in [Subscribers -> Phases]
        /\ registered \in SUBSET Subscribers /\ owed \in SUBSET Subscribers
    BY DEF Init, Phases
  <2> QED BY <2>3, <2>4, <2>5, <2>6, Zenon DEF Init, TypeOK, Hands, Told, Phases
<1>2. ASSUME NEW w \in Subscribers PROVE Good(w)
  <2>1. /\ phase[w] = "idle" /\ latest[w] = 0 /\ event[w] = 0 /\ queue[w] = <<>>
        /\ hand[w] = Nothing /\ seen[w].snapshot = 0 /\ w \notin registered
    BY DEF Init
  <2> QED BY <2>1 DEF Good, Fresh, Joined, Held, Awake, Current, Ordered, Serving
<1> QED BY <1>1, <1>2 DEF Inv

\* The values a subscriber's part of the state has.
LEMMA Values ==
  ASSUME TypeOK, NEW w \in Subscribers
  PROVE  /\ snapshot.generation \in Nat /\ shortcuts \in Nat
         /\ latest[w] \in Nat /\ event[w] \in Nat /\ queue[w] \in Seq(Nat)
         /\ phase[w] \in Phases
         /\ hand[w] \in Hands /\ hand[w].snapshot \in Nat /\ hand[w].event \in Nat
         /\ hand[w].shortcuts \in Seq(Nat)
         /\ seen[w] \in Told /\ seen[w].snapshot \in Nat /\ seen[w].shortcut \in Nat
         /\ seen[w].warned \in BOOLEAN
<1>1. /\ snapshot \in [generation : 0 .. MaxGeneration, content : Contents]
      /\ shortcuts \in 0 .. MaxShortcuts
      /\ latest[w] \in 0 .. MaxGeneration /\ event[w] \in 0 .. MaxReloads
      /\ queue[w] \in Seq(0 .. MaxShortcuts) /\ phase[w] \in Phases
      /\ hand[w] \in Hands /\ seen[w] \in Told
  BY Zenon DEF TypeOK, Hands, Told, Phases
<1>2. snapshot.generation \in Nat /\ shortcuts \in Nat /\ latest[w] \in Nat /\ event[w] \in Nat
  BY <1>1, SubscriptionsAssumption
<1>3. /\ hand[w].snapshot \in Nat /\ hand[w].event \in Nat
      /\ hand[w].shortcuts \in Seq(0 .. MaxShortcuts)
  BY <1>1 DEF Hands
<1>4. seen[w].snapshot \in Nat /\ seen[w].shortcut \in Nat /\ seen[w].warned \in BOOLEAN
  BY <1>1 DEF Told
<1>5. \A q \in Seq(0 .. MaxShortcuts) : q \in Seq(Nat)
  <2>1. 0 .. MaxShortcuts \subseteq Nat
    BY SubscriptionsAssumption
  <2> QED BY <2>1, SeqMonotonic
<1> QED BY <1>1, <1>2, <1>3, <1>4, <1>5

\* Who is registered and has not ended serves, and the other way round.
LEMMA AliveServing == ASSUME Inv PROVE Alive = {w \in Subscribers : phase[w] \in Serving}
<1>1. registered \subseteq Subscribers /\ \A w \in Subscribers : phase[w] \in Phases
  BY DEF Inv, TypeOK, Phases
<1>2. ASSUME NEW w \in Subscribers
      PROVE  /\ w \in registered => phase[w] \notin {"idle", "asked"}
             /\ phase[w] \in Serving => w \in registered
  BY DEF Inv, Good, Fresh, Joined
<1> QED BY <1>1, <1>2 DEF Alive, Phases, Serving

Local(w) == <<latest[w], event[w], queue[w], wake[w], phase[w], hand[w], seen[w]>>

\* What is true of a subscriber stays so where neither it nor the loop moves.
LEMMA Elsewhere ==
  ASSUME NEW w, Good(w), UNCHANGED <<snapshot, shortcuts>>, UNCHANGED Local(w),
         (w \in registered)' <=> w \in registered, w \in owed => (w \in owed)'
  PROVE  Good(w)'
<1>1. /\ UNCHANGED <<snapshot, shortcuts>>
      /\ UNCHANGED <<latest[w], event[w], queue[w], wake[w], phase[w], hand[w], seen[w]>>
  BY DEF Local
<1>2. Fresh(w)' /\ Joined(w)' /\ Held(w)'
  BY <1>1 DEF Good, Fresh, Joined, Held, Nothing
<1>3. Awake(w)'
  BY <1>1 DEF Good, Awake
<1>4. Current(w)'
  BY <1>1 DEF Good, Current, Newest
<1>5. Ordered(w)'
  BY <1>1 DEF Good, Ordered
<1> QED BY <1>2, <1>3, <1>4, <1>5 DEF Good

\* A step of one subscriber has to be looked at there only.
LEMMA OneSubscriber ==
  ASSUME Inv, NEW w \in Subscribers, UNCHANGED <<snapshot, shortcuts, registered, owed>>,
         TypeOK', \A d \in Subscribers \ {w} : UNCHANGED Local(d),
         Good(w)'
  PROVE  Inv'
<1>1. ASSUME NEW d \in Subscribers \ {w} PROVE Good(d)'
  <2>1. Good(d) /\ UNCHANGED Local(d) /\ UNCHANGED <<snapshot, shortcuts>>
        /\ (d \in registered)' = (d \in registered) /\ (d \in owed)' = (d \in owed)
    BY DEF Inv
  <2> QED BY <2>1, Elsewhere
<1> QED BY <1>1 DEF Inv

-----------------------------------------------------------------------------
(* The thread                                                              *)

\* What a thread's step does not change keeps its type.
LEMMA ThreadTypes ==
  ASSUME TypeOK, NEW w \in Subscribers, UNCHANGED <<loop, owed>>,
         latest' \in [Subscribers -> 0 .. MaxGeneration],
         event' \in [Subscribers -> 0 .. MaxReloads],
         queue' \in [Subscribers -> Seq(0 .. MaxShortcuts)],
         \A d \in Subscribers : Len(queue'[d]) <= MaxPending,
         wake' \in [Subscribers -> BOOLEAN], open' \in [Subscribers -> BOOLEAN],
         phase' \in [Subscribers -> Phases],
         hand' \in [Subscribers -> Hands], seen' \in [Subscribers -> Told]
  PROVE  TypeOK'
<1>1. UNCHANGED <<desktop, dirty, snapshot, reloads, shortcuts, registered, owed>>
  BY DEF loop
<1> QED BY <1>1, Zenon DEF TypeOK, Hands, Told, Phases

\* The types the lemma above is given, before the step.
LEMMA ThreadTypesBefore ==
  ASSUME TypeOK
  PROVE  /\ latest \in [Subscribers -> 0 .. MaxGeneration]
         /\ event \in [Subscribers -> 0 .. MaxReloads]
         /\ queue \in [Subscribers -> Seq(0 .. MaxShortcuts)]
         /\ \A d \in Subscribers : Len(queue[d]) <= MaxPending
         /\ wake \in [Subscribers -> BOOLEAN] /\ open \in [Subscribers -> BOOLEAN]
         /\ phase \in [Subscribers -> Phases]
         /\ hand \in [Subscribers -> Hands] /\ seen \in [Subscribers -> Told]
BY Zenon DEF TypeOK, Hands, Told, Phases

\* A step in which the thread gets to another point, with its wake read or not.
LEMMA MoveKeeps ==
  ASSUME Inv, NEW w \in Subscribers, NEW p \in Phases, Goto(w, p),
         UNCHANGED <<loop, owed, mail, hand, seen>>,
         open' \in [Subscribers -> BOOLEAN], wake' \in [Subscribers -> BOOLEAN],
         \A d \in Subscribers \ {w} : wake'[d] = wake[d],
         \/ phase[w] = "idle" /\ p = "asked"
         \/ p = "ended"
         \/ phase[w] = "polling" /\ p = "drained"
         \/ phase[w] = "writing" /\ p = "polling" /\ hand[w] = Nothing /\ wake'[w] = wake[w]
  PROVE  Inv'
<1>1. TypeOK /\ Good(w) /\ phase \in [Subscribers -> Phases]
  BY ThreadTypesBefore DEF Inv
<1>2. phase' \in [Subscribers -> Phases] /\ phase' = [phase EXCEPT ![w] = p]
  BY <1>1 DEF Goto
<1>3. TypeOK'
  BY <1>1, <1>2, ThreadTypes, ThreadTypesBefore, Zenon DEF mail
<1>4. UNCHANGED <<snapshot, shortcuts, registered, owed>>
  BY DEF loop
<1>5. /\ phase'[w] = p
      /\ UNCHANGED <<latest[w], event[w], queue[w], hand[w], seen[w]>>
  BY <1>1, <1>2 DEF mail
<1>6. \A d \in Subscribers \ {w} : UNCHANGED Local(d)
  BY <1>1, <1>2 DEF mail, Local
<1>7. Fresh(w)' /\ Joined(w)' /\ Held(w)'
  BY <1>1, <1>4, <1>5 DEF Good, Fresh, Joined, Held, Serving, Nothing
<1>8. Awake(w)'
  BY <1>1, <1>4, <1>5 DEF Good, Awake, Serving
<1>9. Current(w)'
  BY <1>1, <1>4, <1>5 DEF Good, Current, Newest, Serving
<1>10. Ordered(w)'
  BY <1>1, <1>4, <1>5 DEF Good, Ordered, Serving
<1>11. Good(w)'
  BY <1>7, <1>8, <1>9, <1>10 DEF Good
<1> QED BY <1>3, <1>4, <1>6, <1>11, OneSubscriber

\* The steps of that kind.
LEMMA MovesKeep ==
  ASSUME Inv, NEW w \in Subscribers, Ask(w) \/ End(w) \/ Poll(w) \/ PollAgain(w)
  PROVE  Inv'
<1>1. /\ wake \in [Subscribers -> BOOLEAN] /\ open \in [Subscribers -> BOOLEAN]
  BY ThreadTypesBefore DEF Inv
<1>2. CASE Ask(w)
  <2>1. "asked" \in Phases
    BY DEF Phases
  <2> QED BY <1>1, <1>2, <2>1, MoveKeeps DEF Ask
<1>3. CASE End(w)
  <2>1. "ended" \in Phases
    BY DEF Phases
  <2>2. open' \in [Subscribers -> BOOLEAN]
    BY <1>1, <1>3 DEF End
  <2> QED BY <1>1, <1>3, <2>1, <2>2, MoveKeeps DEF End
<1>4. CASE Poll(w)
  <2>1. PICK p \in {"drained", "ended"} : Goto(w, p)
    BY <1>4 DEF Poll
  <2>2. p \in Phases
    BY DEF Phases, Serving
  <2>3. /\ phase[w] = "polling" /\ UNCHANGED <<loop, owed, mail, hand, seen>> /\ UNCHANGED open
        /\ wake' = [wake EXCEPT ![w] = @ /\ ~open[w]]
    BY <1>4 DEF Poll
  <2>4. wake' \in [Subscribers -> BOOLEAN] /\ \A d \in Subscribers \ {w} : wake'[d] = wake[d]
    BY <1>1, <2>3
  <2> QED BY <1>1, <2>1, <2>2, <2>3, <2>4, MoveKeeps
<1>5. CASE PollAgain(w)
  <2>1. "polling" \in Phases
    BY DEF Phases, Serving
  <2> QED BY <1>1, <1>5, <2>1, MoveKeeps DEF PollAgain
<1> QED BY <1>2, <1>3, <1>4, <1>5

\* The client closes its end.
LEMMA CloseKeeps == ASSUME Inv, NEW w \in Subscribers, Close(w) PROVE Inv'
<1>1. open' \in [Subscribers -> BOOLEAN]
  BY ThreadTypesBefore DEF Inv, Close
<1>2. UNCHANGED <<loop, owed>> /\ UNCHANGED <<mail, wake, phase, hand, seen>>
  BY DEF Close
<1>3. TypeOK'
  BY <1>1, <1>2, ThreadTypes, ThreadTypesBefore, Zenon DEF Inv, mail
<1>4. UNCHANGED <<snapshot, shortcuts, registered, owed>>
  BY <1>2 DEF loop
<1>5. \A d \in Subscribers : UNCHANGED Local(d)
  BY <1>2 DEF mail, Local
<1>6. Good(w)'
  BY <1>4, <1>5, Elsewhere DEF Inv
<1> QED BY <1>3, <1>4, <1>5, <1>6, OneSubscriber

\* A step of a thread that takes from a mailbox or writes.
LEMMA WorkKeeps ==
  ASSUME Inv, NEW w \in Subscribers, NEW p \in Phases, NEW h \in Hands, NEW t \in Told,
         phase' = [phase EXCEPT ![w] = p], hand' = [hand EXCEPT ![w] = h],
         seen' = [seen EXCEPT ![w] = t],
         UNCHANGED <<loop, owed, wake, open>>,
         latest' \in [Subscribers -> 0 .. MaxGeneration],
         event' \in [Subscribers -> 0 .. MaxReloads],
         queue' \in [Subscribers -> Seq(0 .. MaxShortcuts)],
         \A d \in Subscribers : Len(queue'[d]) <= MaxPending,
         \A d \in Subscribers \ {w} :
           latest'[d] = latest[d] /\ event'[d] = event[d] /\ queue'[d] = queue[d],
         phase'[w] = p /\ hand'[w] = h /\ seen'[w] = t => Good(w)'
  PROVE  Inv'
<1>1. /\ phase \in [Subscribers -> Phases] /\ hand \in [Subscribers -> Hands]
      /\ seen \in [Subscribers -> Told]
      /\ wake \in [Subscribers -> BOOLEAN] /\ open \in [Subscribers -> BOOLEAN]
  BY ThreadTypesBefore DEF Inv
<1>2. /\ phase' \in [Subscribers -> Phases] /\ hand' \in [Subscribers -> Hands]
      /\ seen' \in [Subscribers -> Told]
      /\ phase'[w] = p /\ hand'[w] = h /\ seen'[w] = t
      /\ \A d \in Subscribers \ {w} :
           phase'[d] = phase[d] /\ hand'[d] = hand[d] /\ seen'[d] = seen[d]
  BY <1>1, Zenon
<1>3. wake' \in [Subscribers -> BOOLEAN] /\ open' \in [Subscribers -> BOOLEAN]
  BY <1>1
<1>4. UNCHANGED <<loop, owed>>
  OBVIOUS
<1>5. TypeOK'
  BY <1>2, <1>3, <1>4, ThreadTypes, Zenon DEF Inv
<1>6. UNCHANGED <<snapshot, shortcuts, registered, owed>>
  BY DEF loop
<1>7. \A d \in Subscribers \ {w} : UNCHANGED Local(d)
  BY <1>2 DEF Local
<1> QED BY <1>2, <1>5, <1>6, <1>7, OneSubscriber

\* The first frame is written.
LEMMA WriteInitialKeeps ==
  ASSUME Inv, NEW w \in Subscribers, WriteInitial(w) PROVE Inv'
<1> DEFINE t == [seen[w] EXCEPT !.snapshot = hand[w].snapshot]
<1>1. /\ phase[w] = "initial"
      /\ seen' = [seen EXCEPT ![w] = t] /\ hand' = [hand EXCEPT ![w] = Nothing]
      /\ phase' = [phase EXCEPT ![w] = "polling"]
      /\ UNCHANGED <<loop, owed, wake, open>> /\ UNCHANGED <<latest, event, queue>>
  BY DEF WriteInitial, Goto, mail
<1>2. Good(w) /\ TypeOK /\ hand[w] \in Hands /\ seen[w] \in Told
      /\ latest[w] \in Nat /\ hand[w].snapshot \in Nat /\ shortcuts \in Nat
  BY Values DEF Inv
<1>3. Nothing \in Hands /\ "polling" \in Phases
  BY SubscriptionsAssumption DEF Nothing, Hands, Phases, Serving
<1>4. /\ t \in Told /\ t.snapshot = hand[w].snapshot
      /\ t.shortcut = seen[w].shortcut /\ t.warned = seen[w].warned
  BY <1>2 DEF Told, Hands
<1>5. UNCHANGED <<snapshot, shortcuts, registered, owed>>
  BY <1>1 DEF loop
<1> HIDE DEF t
<1>6. ASSUME phase'[w] = "polling" /\ hand'[w] = Nothing /\ seen'[w] = t PROVE Good(w)'
  <2>1. hand[w].snapshot # 0 /\ seen[w].snapshot = 0 /\ hand[w].shortcuts = <<>>
    BY <1>1, <1>2 DEF Good, Held
  <2>2. Fresh(w)' /\ Joined(w)' /\ Held(w)'
    BY <1>1, <1>2, <1>4, <1>5, <1>6, <2>1 DEF Good, Fresh, Joined, Held, Serving, Nothing
  <2>3. Awake(w)'
    BY <1>1, <1>2, <1>5, <1>6 DEF Good, Awake, Serving
  <2>4. Current(w)'
    BY <1>1, <1>2, <1>4, <1>5, <1>6, <2>1 DEF Good, Current, Newest, Serving, Nothing
  <2>5. Ordered(w)'
    <3>1. Nothing.shortcuts = <<>>
      BY DEF Nothing
    <3> QED BY <1>1, <1>2, <1>4, <1>5, <1>6, <2>1, <3>1 DEF Good, Ordered, Serving
  <2> QED BY <2>2, <2>3, <2>4, <2>5 DEF Good
<1>7. /\ latest' \in [Subscribers -> 0 .. MaxGeneration]
      /\ event' \in [Subscribers -> 0 .. MaxReloads]
      /\ queue' \in [Subscribers -> Seq(0 .. MaxShortcuts)]
      /\ \A d \in Subscribers : Len(queue'[d]) <= MaxPending
  BY <1>1, <1>2, ThreadTypesBefore
<1> QED BY <1>1, <1>3, <1>4, <1>6, <1>7, WorkKeeps

\* A snapshot is taken from its mailbox.
LEMMA TakeSnapshotKeeps ==
  ASSUME Inv, NEW w \in Subscribers, TakeSnapshot(w) PROVE Inv'
<1> DEFINE h == [hand[w] EXCEPT !.snapshot = latest[w]]
<1>1. /\ phase[w] = "drained"
      /\ hand' = [hand EXCEPT ![w] = h] /\ latest' = [latest EXCEPT ![w] = 0]
      /\ phase' = [phase EXCEPT ![w] = "tookSnapshot"]
      /\ UNCHANGED <<loop, owed, wake, open>> /\ UNCHANGED <<event, queue, seen>>
  BY DEF TakeSnapshot, Goto
<1>2. /\ Good(w) /\ TypeOK /\ hand[w] \in Hands /\ seen[w] \in Told
      /\ latest \in [Subscribers -> 0 .. MaxGeneration] /\ latest[w] \in Nat
      /\ seen \in [Subscribers -> Told]
  BY Values, ThreadTypesBefore DEF Inv
<1>3. hand[w] = Nothing /\ seen[w].snapshot # 0
  BY <1>1, <1>2 DEF Good, Held, Serving
<1>4. h \in Hands /\ h.snapshot = latest[w] /\ h.event = 0 /\ h.shortcuts = <<>>
  <2>1. latest[w] \in 0 .. MaxGeneration
    BY <1>2
  <2>2. hand[w].event = 0 /\ hand[w].shortcuts = <<>>
    BY <1>3 DEF Nothing
  <2> QED BY <1>2, <2>1, <2>2 DEF Hands
<1>5. UNCHANGED <<snapshot, shortcuts, registered, owed>>
  BY <1>1 DEF loop
<1>6. latest' \in [Subscribers -> 0 .. MaxGeneration] /\ latest'[w] = 0
      /\ \A d \in Subscribers \ {w} : latest'[d] = latest[d]
  BY <1>1, <1>2, SubscriptionsAssumption
<1> HIDE DEF h
<1>7. ASSUME phase'[w] = "tookSnapshot" /\ hand'[w] = h PROVE Good(w)'
  <2>1. Fresh(w)' /\ Joined(w)' /\ Held(w)'
    BY <1>1, <1>2, <1>3, <1>4, <1>5, <1>7 DEF Good, Fresh, Joined, Held, Serving
  <2>2. Awake(w)'
    BY <1>1, <1>2, <1>5, <1>6, <1>7 DEF Good, Awake, Serving
  <2>3. Current(w)'
    BY <1>1, <1>2, <1>3, <1>4, <1>5, <1>6, <1>7 DEF Good, Current, Newest, Serving, Nothing
  <2>4. Ordered(w)'
    <3>1. Nothing.shortcuts = <<>>
      BY DEF Nothing
    <3> QED BY <1>1, <1>2, <1>3, <1>4, <1>5, <1>7, <3>1 DEF Good, Ordered, Serving
  <2> QED BY <2>1, <2>2, <2>3, <2>4 DEF Good
<1>8. "tookSnapshot" \in Phases
  BY DEF Phases, Serving
<1>9. seen' = [seen EXCEPT ![w] = seen[w]]
  BY <1>1, <1>2
<1>10. /\ event' \in [Subscribers -> 0 .. MaxReloads]
       /\ queue' \in [Subscribers -> Seq(0 .. MaxShortcuts)]
       /\ \A d \in Subscribers : Len(queue'[d]) <= MaxPending
  BY <1>1, <1>2, ThreadTypesBefore
<1> QED BY <1>1, <1>2, <1>4, <1>6, <1>7, <1>8, <1>9, <1>10, WorkKeeps

\* An event is taken from its mailbox.
LEMMA TakeEventKeeps ==
  ASSUME Inv, NEW w \in Subscribers, TakeEvent(w) PROVE Inv'
<1> DEFINE h == [hand[w] EXCEPT !.event = event[w]]
<1>1. /\ phase[w] = "tookSnapshot"
      /\ hand' = [hand EXCEPT ![w] = h] /\ event' = [event EXCEPT ![w] = 0]
      /\ phase' = [phase EXCEPT ![w] = "tookEvent"]
      /\ UNCHANGED <<loop, owed, wake, open>> /\ UNCHANGED <<latest, queue, seen>>
  BY DEF TakeEvent, Goto
<1>2. /\ Good(w) /\ TypeOK /\ hand[w] \in Hands /\ seen[w] \in Told
      /\ event \in [Subscribers -> 0 .. MaxReloads]
      /\ seen \in [Subscribers -> Told]
  BY Values, ThreadTypesBefore DEF Inv
<1>3. hand[w].shortcuts = <<>>
  BY <1>1, <1>2 DEF Good, Held
<1>4. /\ h \in Hands /\ h.snapshot = hand[w].snapshot /\ h.shortcuts = <<>>
  <2>1. event[w] \in 0 .. MaxReloads
    BY <1>2
  <2> QED BY <1>2, <1>3, <2>1 DEF Hands
<1>5. UNCHANGED <<snapshot, shortcuts, registered, owed>>
  BY <1>1 DEF loop
<1>6. event' \in [Subscribers -> 0 .. MaxReloads] /\ event'[w] = 0
      /\ \A d \in Subscribers \ {w} : event'[d] = event[d]
  BY <1>1, <1>2, SubscriptionsAssumption
<1> HIDE DEF h
<1>7. ASSUME phase'[w] = "tookEvent" /\ hand'[w] = h PROVE Good(w)'
  <2>1. Fresh(w)' /\ Joined(w)' /\ Held(w)'
    BY <1>1, <1>2, <1>4, <1>5, <1>7 DEF Good, Fresh, Joined, Held, Serving
  <2>2. Awake(w)'
    BY <1>1, <1>2, <1>5, <1>6, <1>7 DEF Good, Awake, Serving
  <2>3. Current(w)'
    BY <1>1, <1>2, <1>4, <1>5, <1>7 DEF Good, Current, Newest, Serving
  <2>4. Ordered(w)'
    BY <1>1, <1>2, <1>3, <1>4, <1>5, <1>7 DEF Good, Ordered, Serving
  <2> QED BY <2>1, <2>2, <2>3, <2>4 DEF Good
<1>8. "tookEvent" \in Phases
  BY DEF Phases, Serving
<1>9. seen' = [seen EXCEPT ![w] = seen[w]]
  BY <1>1, <1>2
<1>10. /\ latest' \in [Subscribers -> 0 .. MaxGeneration]
       /\ queue' \in [Subscribers -> Seq(0 .. MaxShortcuts)]
       /\ \A d \in Subscribers : Len(queue'[d]) <= MaxPending
  BY <1>1, <1>2, ThreadTypesBefore
<1> QED BY <1>1, <1>2, <1>4, <1>6, <1>7, <1>8, <1>9, <1>10, WorkKeeps

\* The shortcuts are taken, all that are queued.
LEMMA TakeShortcutsKeeps ==
  ASSUME Inv, NEW w \in Subscribers, TakeShortcuts(w) PROVE Inv'
<1> DEFINE h == [hand[w] EXCEPT !.shortcuts = queue[w]]
<1>1. /\ phase[w] = "tookEvent"
      /\ hand' = [hand EXCEPT ![w] = h] /\ queue' = [queue EXCEPT ![w] = <<>>]
      /\ phase' = [phase EXCEPT ![w] = "writing"]
      /\ UNCHANGED <<loop, owed, wake, open>> /\ UNCHANGED <<latest, event, seen>>
  BY DEF TakeShortcuts, Goto
<1>2. /\ Good(w) /\ TypeOK /\ hand[w] \in Hands /\ seen[w] \in Told
      /\ queue \in [Subscribers -> Seq(0 .. MaxShortcuts)]
      /\ seen \in [Subscribers -> Told] /\ shortcuts \in Nat
      /\ queue[w] \in Seq(Nat) /\ seen[w].shortcut \in Nat /\ seen[w].warned \in BOOLEAN
  BY Values, ThreadTypesBefore DEF Inv
<1>3. hand[w].shortcuts = <<>>
  BY <1>1, <1>2 DEF Good, Held
<1>4. /\ h \in Hands /\ h.snapshot = hand[w].snapshot /\ h.shortcuts = queue[w]
  <2>1. queue[w] \in Seq(0 .. MaxShortcuts)
    BY <1>2
  <2> QED BY <1>2, <2>1 DEF Hands
<1>5. UNCHANGED <<snapshot, shortcuts, registered, owed>>
  BY <1>1 DEF loop
<1>6. queue' \in [Subscribers -> Seq(0 .. MaxShortcuts)] /\ queue'[w] = <<>>
      /\ \A d \in Subscribers \ {w} : queue'[d] = queue[d]
  BY <1>1, <1>2
<1>7. \A d \in Subscribers : Len(queue'[d]) <= MaxPending
  <2>1. Len(<<>>) <= MaxPending
    BY SubscriptionsAssumption
  <2>2. \A d \in Subscribers : Len(queue[d]) <= MaxPending
    BY <1>2, ThreadTypesBefore
  <2> QED BY <1>6, <2>1, <2>2, Zenon
<1> HIDE DEF h
<1>8. ASSUME phase'[w] = "writing" /\ hand'[w] = h PROVE Good(w)'
  <2>1. Fresh(w)' /\ Joined(w)' /\ Held(w)'
    BY <1>1, <1>2, <1>4, <1>5, <1>8 DEF Good, Fresh, Joined, Held, Serving
  <2>2. Awake(w)'
    BY <1>1, <1>2, <1>5, <1>6, <1>8 DEF Good, Awake, Serving
  <2>3. Current(w)'
    BY <1>1, <1>2, <1>4, <1>5, <1>8 DEF Good, Current, Newest, Serving
  <2>4. Ordered(w)'
    <3>1. PICK m \in 0 .. shortcuts :
            /\ Follows(seen[w].shortcut, seen[w].warned, <<>>, m)
            /\ Follows(m, FALSE, queue[w], shortcuts)
      BY <1>1, <1>2, <1>3 DEF Good, Ordered, Serving
    <3>2. Follows(seen[w].shortcut, seen[w].warned, queue[w], shortcuts)
      BY <1>2, <3>1, FollowsOn
    <3>3. Follows(shortcuts, FALSE, <<>>, shortcuts)
      BY <1>2, NothingFollows
    <3>4. shortcuts' = shortcuts /\ seen'[w] = seen[w] /\ shortcuts \in 0 .. shortcuts
      BY <1>1, <1>2, <1>5
    <3> QED BY <1>4, <1>6, <1>8, <3>2, <3>3, <3>4 DEF Ordered
  <2> QED BY <2>1, <2>2, <2>3, <2>4 DEF Good
<1>9. "writing" \in Phases
  BY DEF Phases, Serving
<1>10. seen' = [seen EXCEPT ![w] = seen[w]]
  BY <1>1, <1>2
<1>11. /\ latest' \in [Subscribers -> 0 .. MaxGeneration]
       /\ event' \in [Subscribers -> 0 .. MaxReloads]
  BY <1>1, <1>2, ThreadTypesBefore
<1> QED BY <1>1, <1>2, <1>4, <1>6, <1>7, <1>8, <1>9, <1>10, <1>11, WorkKeeps

\* A snapshot or an event is written.
LEMMA WriteFrameKeeps ==
  ASSUME Inv, NEW w \in Subscribers, WriteSnapshot(w) \/ WriteEvent(w) PROVE Inv'
<1>1. /\ phase[w] = "writing" /\ UNCHANGED <<loop, owed, wake, open>>
      /\ UNCHANGED <<latest, event, queue, phase>>
  BY DEF WriteSnapshot, WriteEvent, mail
<1>2. /\ Good(w) /\ TypeOK /\ hand[w] \in Hands /\ seen[w] \in Told
      /\ phase \in [Subscribers -> Phases] /\ latest[w] \in Nat
      /\ hand[w].snapshot \in Nat /\ seen[w].snapshot \in Nat
  BY Values, ThreadTypesBefore DEF Inv
<1>3. PICK h \in Hands, t \in Told :
        /\ hand' = [hand EXCEPT ![w] = h] /\ seen' = [seen EXCEPT ![w] = t]
        /\ h.shortcuts = hand[w].shortcuts
        /\ t.shortcut = seen[w].shortcut /\ t.warned = seen[w].warned
        /\ \/ h.snapshot = 0 /\ hand[w].snapshot # 0 /\ t.snapshot = hand[w].snapshot
           \/ h.snapshot = hand[w].snapshot /\ t.snapshot = seen[w].snapshot
  <2>1. CASE WriteSnapshot(w)
    <3> DEFINE h == [hand[w] EXCEPT !.snapshot = 0]
               t == [seen[w] EXCEPT !.snapshot = hand[w].snapshot]
    <3>1. hand' = [hand EXCEPT ![w] = h] /\ seen' = [seen EXCEPT ![w] = t] /\ hand[w].snapshot # 0
      BY <2>1 DEF WriteSnapshot
    <3>2. h \in Hands /\ h.shortcuts = hand[w].shortcuts /\ h.snapshot = 0
      BY <1>2, SubscriptionsAssumption DEF Hands
    <3>3. /\ t \in Told /\ t.shortcut = seen[w].shortcut /\ t.warned = seen[w].warned
          /\ t.snapshot = hand[w].snapshot
      BY <1>2 DEF Hands, Told
    <3> HIDE DEF h, t
    <3> QED BY <3>1, <3>2, <3>3
  <2>2. CASE WriteEvent(w)
    <3> DEFINE h == [hand[w] EXCEPT !.event = 0]
               t == [seen[w] EXCEPT !.event = hand[w].event]
    <3>1. hand' = [hand EXCEPT ![w] = h] /\ seen' = [seen EXCEPT ![w] = t]
      BY <2>2 DEF WriteEvent
    <3>2. /\ h \in Hands /\ h.shortcuts = hand[w].shortcuts
          /\ h.snapshot = hand[w].snapshot
      BY <1>2, SubscriptionsAssumption DEF Hands
    <3>3. /\ t \in Told /\ t.shortcut = seen[w].shortcut /\ t.warned = seen[w].warned
          /\ t.snapshot = seen[w].snapshot
      BY <1>2 DEF Hands, Told
    <3> HIDE DEF h, t
    <3> QED BY <3>1, <3>2, <3>3
  <2> QED BY <2>1, <2>2
<1>4. UNCHANGED <<snapshot, shortcuts, registered, owed>>
  BY <1>1 DEF loop
<1>5. ASSUME phase'[w] = "writing" /\ hand'[w] = h /\ seen'[w] = t PROVE Good(w)'
  <2>1. seen[w].snapshot # 0
    BY <1>1, <1>2 DEF Good, Held, Serving
  <2>2. Fresh(w)' /\ Joined(w)' /\ Held(w)'
    BY <1>1, <1>2, <1>3, <1>4, <1>5, <2>1 DEF Good, Fresh, Joined, Held, Serving
  <2>3. Awake(w)'
    BY <1>1, <1>2, <1>4, <1>5 DEF Good, Awake, Serving
  <2>4. Current(w)'
    BY <1>1, <1>2, <1>3, <1>4, <1>5, <2>1 DEF Good, Current, Newest, Serving
  <2>5. Ordered(w)'
    BY <1>1, <1>2, <1>3, <1>4, <1>5 DEF Good, Ordered, Serving
  <2> QED BY <2>2, <2>3, <2>4, <2>5 DEF Good
<1>6. "writing" \in Phases /\ phase' = [phase EXCEPT ![w] = "writing"]
  BY <1>1, <1>2 DEF Phases, Serving
<1>7. /\ latest' \in [Subscribers -> 0 .. MaxGeneration]
      /\ event' \in [Subscribers -> 0 .. MaxReloads]
      /\ queue' \in [Subscribers -> Seq(0 .. MaxShortcuts)]
      /\ \A d \in Subscribers : Len(queue'[d]) <= MaxPending
  BY <1>1, <1>2, ThreadTypesBefore
<1> QED BY <1>1, <1>3, <1>5, <1>6, <1>7, WorkKeeps

\* What a thread holds of shortcuts and where its client has got to, before and after the
\* first of them is written.
LEMMA ReadOn ==
  ASSUME Inv, NEW w \in Subscribers, phase[w] \in Serving, hand[w].shortcuts # <<>>
  PROVE  LET k == Head(hand[w].shortcuts)
         IN  /\ k # 0 => \/ k = seen[w].shortcut + 1
                         \/ seen[w].warned /\ k > seen[w].shortcut
             /\ \E m \in 0 .. shortcuts :
                  /\ Follows(IF k = 0 THEN seen[w].shortcut ELSE k, k = 0,
                             Tail(hand[w].shortcuts), m)
                  /\ Follows(m, FALSE, queue[w], shortcuts)
<1> DEFINE k == Head(hand[w].shortcuts)
           s == seen[w].shortcut
           g == seen[w].warned
           t == Tail(hand[w].shortcuts)
<1>1. /\ shortcuts \in Nat /\ hand[w].shortcuts \in Seq(Nat) /\ s \in Nat /\ g \in BOOLEAN
  BY Values DEF Inv
<1>2. PICK m \in 0 .. shortcuts : /\ Follows(s, g, hand[w].shortcuts, m)
                                 /\ Follows(m, FALSE, queue[w], shortcuts)
  BY DEF Inv, Good, Ordered
<1>3. m \in Nat /\ k \in Nat
  BY <1>1
<1>4. /\ k # 0 => s = k - 1 \/ (g /\ s < k)
      /\ k # 0 => Follows(k, FALSE, t, m)
      /\ k = 0 => Follows(s, TRUE, t, m)
  BY <1>1, <1>2, <1>3, FollowsRead
<1> HIDE DEF k, s, g, t
<1>5. Follows(IF k = 0 THEN s ELSE k, k = 0, t, m)
  <2>1. CASE k = 0
    <3>1. (k = 0) = TRUE /\ (IF k = 0 THEN s ELSE k) = s
      BY <2>1
    <3> QED BY <1>4, <2>1, <3>1
  <2>2. CASE k # 0
    <3>1. (k = 0) = FALSE /\ (IF k = 0 THEN s ELSE k) = k
      BY <2>2
    <3> QED BY <1>4, <2>2, <3>1
  <2> QED BY <2>1, <2>2
<1>6. k # 0 => k = s + 1 \/ (g /\ k > s)
  BY <1>1, <1>3, <1>4 DEF k, s, g
<1> QED BY <1>2, <1>5, <1>6 DEF k, s, g, t

\* A shortcut or an error frame is written.
LEMMA WriteShortcutKeeps ==
  ASSUME Inv, NEW w \in Subscribers, WriteShortcut(w) PROVE Inv'
<1> DEFINE k == Head(hand[w].shortcuts)
           h == [hand[w] EXCEPT !.shortcuts = Tail(@)]
           t == [seen[w] EXCEPT !.shortcut = IF k = 0 THEN @ ELSE k, !.warned = k = 0]
<1>1. /\ phase[w] = "writing" /\ UNCHANGED <<loop, owed, wake, open>>
      /\ UNCHANGED <<latest, event, queue, phase>>
      /\ hand[w].snapshot = 0 /\ hand[w].event = 0 /\ hand[w].shortcuts # <<>>
      /\ hand' = [hand EXCEPT ![w] = h] /\ seen' = [seen EXCEPT ![w] = t]
  BY DEF WriteShortcut, mail
<1>2. /\ Good(w) /\ TypeOK /\ hand[w] \in Hands /\ seen[w] \in Told
      /\ phase \in [Subscribers -> Phases] /\ shortcuts \in Nat
  BY Values, ThreadTypesBefore DEF Inv
<1>3. k \in 0 .. MaxShortcuts /\ Tail(hand[w].shortcuts) \in Seq(0 .. MaxShortcuts)
  <2>1. hand[w].shortcuts \in Seq(0 .. MaxShortcuts)
    BY <1>2 DEF Hands
  <2> QED BY <1>1, <2>1, HeadTailProperties
<1>4. /\ h \in Hands /\ h.snapshot = hand[w].snapshot
      /\ h.shortcuts = Tail(hand[w].shortcuts)
  BY <1>2, <1>3 DEF Hands
<1>5. /\ t \in Told /\ t.snapshot = seen[w].snapshot
      /\ t.shortcut = IF k = 0 THEN seen[w].shortcut ELSE k
      /\ t.warned = (k = 0)
  <2> HIDE DEF k
  <2> QED BY <1>2, <1>3 DEF Told
<1>6. UNCHANGED <<snapshot, shortcuts, registered, owed>>
  BY <1>1 DEF loop
<1>7. \E m \in 0 .. shortcuts :
        /\ Follows(IF k = 0 THEN seen[w].shortcut ELSE k, k = 0, Tail(hand[w].shortcuts), m)
        /\ Follows(m, FALSE, queue[w], shortcuts)
  BY <1>1, ReadOn DEF Serving
<1> HIDE DEF k, h, t
<1>8. ASSUME phase'[w] = "writing" /\ hand'[w] = h /\ seen'[w] = t PROVE Good(w)'
  <2>1. seen[w].snapshot # 0
    BY <1>1, <1>2 DEF Good, Held, Serving
  <2>2. Fresh(w)' /\ Joined(w)' /\ Held(w)'
    BY <1>1, <1>2, <1>5, <1>6, <1>8, <2>1 DEF Good, Fresh, Joined, Held, Serving
  <2>3. Awake(w)'
    BY <1>1, <1>2, <1>6, <1>8 DEF Good, Awake, Serving
  <2>4. Current(w)'
    BY <1>1, <1>2, <1>4, <1>5, <1>6, <1>8 DEF Good, Current, Newest, Serving
  <2>5. Ordered(w)'
    BY <1>1, <1>4, <1>5, <1>6, <1>7, <1>8 DEF Ordered
  <2> QED BY <2>2, <2>3, <2>4, <2>5 DEF Good
<1>9. "writing" \in Phases /\ phase' = [phase EXCEPT ![w] = "writing"]
  BY <1>1, <1>2 DEF Phases, Serving
<1>10. /\ latest' \in [Subscribers -> 0 .. MaxGeneration]
       /\ event' \in [Subscribers -> 0 .. MaxReloads]
       /\ queue' \in [Subscribers -> Seq(0 .. MaxShortcuts)]
       /\ \A d \in Subscribers : Len(queue'[d]) <= MaxPending
  BY <1>1, <1>2, ThreadTypesBefore
<1> QED BY <1>1, <1>4, <1>5, <1>8, <1>9, <1>10, WorkKeeps

-----------------------------------------------------------------------------
(* The event loop                                                          *)

\* What publish_desktop_state() publishes: the next generation or the last one, and in any
\* case one.
LEMMA PublishedNext ==
  ASSUME TypeOK, Changed => snapshot.generation < MaxGeneration
  PROVE  /\ Published \in [generation : 0 .. MaxGeneration, content : Contents]
         /\ Published.generation =
              IF Changed THEN snapshot.generation + 1 ELSE snapshot.generation
         /\ Published.generation # 0
         /\ ~Changed => Published = snapshot
<1>1. /\ snapshot \in [generation : 0 .. MaxGeneration, content : Contents]
      /\ desktop \in Contents
  BY DEF TypeOK
<1>2. snapshot.generation = 0 => Changed
  BY DEF Changed
<1> QED BY <1>1, <1>2, SubscriptionsAssumption DEF Published

\* Everyone who serves gets what is published, whatever he is doing.
LEMMA ReplaceKeeps ==
  ASSUME Inv, NEW d \in Subscribers, Changed => snapshot.generation < MaxGeneration,
         snapshot' = Published, Replace(IF Changed THEN Alive ELSE {}),
         UNCHANGED <<shortcuts, owed, event[d], queue[d], phase[d], hand[d], seen[d]>>,
         d \in Alive => d \in registered',
         d \in registered' => d \in registered
  PROVE  Good(d)'
<1>1. /\ Good(d) /\ TypeOK
      /\ snapshot.generation \in Nat /\ latest[d] \in Nat
      /\ hand[d].snapshot \in Nat /\ seen[d].snapshot \in Nat
  BY Values DEF Inv
<1>2. /\ latest'[d] = IF Changed /\ d \in Alive THEN Published.generation ELSE latest[d]
      /\ wake[d] => wake'[d]
      /\ Changed /\ d \in Alive /\ latest[d] = 0 => wake'[d]
  BY DEF Replace
<1>3. phase[d] \in Serving <=> d \in Alive
  BY AliveServing
<1>4. /\ ~Changed => Published.generation = snapshot.generation
      /\ Changed => Published.generation = snapshot.generation + 1
  BY <1>1, PublishedNext
<1>5. Fresh(d)'
  BY <1>1, <1>2, <1>3 DEF Good, Fresh, Serving, Nothing
<1>6. Joined(d)' /\ Held(d)'
  BY <1>1, <1>3 DEF Good, Joined, Held, Nothing
<1>7. Awake(d)'
  BY <1>1, <1>2, <1>3 DEF Good, Awake
<1>8. Current(d)'
  <2> SUFFICES ASSUME phase[d] \in Serving PROVE Current(d)'
    BY DEF Current
  <2>1. /\ Newest(d) = snapshot.generation
        /\ hand[d].snapshot # 0 => hand[d].snapshot > seen[d].snapshot
        /\ latest[d] # 0 => latest[d] > hand[d].snapshot /\ latest[d] > seen[d].snapshot
    BY <1>1 DEF Good, Current
  <2>2. hand[d].snapshot <= snapshot.generation /\ seen[d].snapshot <= snapshot.generation
    BY <1>1, <2>1 DEF Newest
  <2>3. CASE Changed
    <3>1. latest'[d] = snapshot.generation + 1 /\ snapshot'.generation = snapshot.generation + 1
      BY <1>2, <1>3, <1>4, <2>3
    <3> QED BY <1>1, <2>1, <2>2, <3>1 DEF Current, Newest
  <2>4. CASE ~Changed
    <3>1. latest'[d] = latest[d] /\ snapshot'.generation = snapshot.generation
      BY <1>2, <1>4, <2>4
    <3> QED BY <2>1, <3>1 DEF Current, Newest
  <2> QED BY <2>3, <2>4
<1>9. Ordered(d)'
  BY <1>1 DEF Good, Ordered
<1> QED BY <1>5, <1>6, <1>7, <1>8, <1>9 DEF Good

\* Types after the state has been published.
LEMMA PublishTypes ==
  ASSUME TypeOK, Changed => snapshot.generation < MaxGeneration,
         snapshot' = Published, NEW W, Replace(W)
  PROVE  /\ snapshot' \in [generation : 0 .. MaxGeneration, content : Contents]
         /\ latest' \in [Subscribers -> 0 .. MaxGeneration]
         /\ wake' \in [Subscribers -> BOOLEAN]
<1>1. snapshot' \in [generation : 0 .. MaxGeneration, content : Contents]
  BY PublishedNext
<1>2. snapshot'.generation \in 0 .. MaxGeneration
  BY <1>1
<1>3. latest \in [Subscribers -> 0 .. MaxGeneration] /\ wake \in [Subscribers -> BOOLEAN]
  BY DEF TypeOK
<1>4. latest' \in [Subscribers -> 0 .. MaxGeneration]
  BY <1>2, <1>3, Zenon DEF Replace
<1>5. wake' \in [Subscribers -> BOOLEAN]
  BY <1>3 DEF Replace
<1> QED BY <1>1, <1>4, <1>5

\* A snapshot is published.
LEMMA PublishKeeps == ASSUME Inv, Publish PROVE Inv'
<1>1. /\ TypeOK /\ (Changed => snapshot.generation < MaxGeneration)
      /\ dirty' = FALSE /\ snapshot' = Published
      /\ registered' = IF Changed THEN Alive ELSE registered
      /\ Replace(IF Changed THEN Alive ELSE {})
  BY DEF Inv, Publish
<1>2. UNCHANGED <<desktop, reloads, shortcuts, owed, event, queue, phase, hand, open, seen>>
  BY DEF Publish
<1>3. TypeOK'
  <2>1. registered' \in SUBSET Subscribers
    BY <1>1 DEF TypeOK, Alive
  <2>2. /\ snapshot' \in [generation : 0 .. MaxGeneration, content : Contents]
        /\ latest' \in [Subscribers -> 0 .. MaxGeneration]
        /\ wake' \in [Subscribers -> BOOLEAN]
    BY <1>1, PublishTypes
  <2>3. dirty' \in BOOLEAN
    BY <1>1
  <2> QED BY <1>1, <1>2, <2>1, <2>2, <2>3, Zenon DEF TypeOK
<1>4. ASSUME NEW d \in Subscribers PROVE Good(d)'
  <2>1. UNCHANGED <<shortcuts, owed, event[d], queue[d], phase[d], hand[d], seen[d]>>
    BY <1>2
  <2>2. (d \in Alive => d \in registered') /\ (d \in registered' => d \in registered)
    BY <1>1 DEF Alive
  <2> QED BY <1>1, <2>1, <2>2, ReplaceKeeps
<1> QED BY <1>3, <1>4 DEF Inv

\* A subscriber is registered, and its first frame is the newest snapshot.
LEMMA SubscribeKeeps == ASSUME Inv, NEW w \in Subscribers, Subscribe(w) PROVE Inv'
<1> DEFINE h == [hand[w] EXCEPT !.snapshot = snapshot'.generation]
           t == [seen[w] EXCEPT !.event = reloads, !.shortcut = shortcuts]
<1>1. /\ TypeOK /\ (Changed => snapshot.generation < MaxGeneration)
      /\ owed = {} /\ phase[w] = "asked"
      /\ dirty' = FALSE /\ snapshot' = Published
      /\ registered' = Alive \cup {w}
      /\ Replace(IF Changed THEN Alive ELSE {})
      /\ phase' = [phase EXCEPT ![w] = "initial"]
      /\ hand' = [hand EXCEPT ![w] = h] /\ seen' = [seen EXCEPT ![w] = t]
  BY DEF Inv, Subscribe
<1>2. UNCHANGED <<desktop, reloads, shortcuts, owed, event, queue, open>>
  BY DEF Subscribe
<1>3. /\ Good(w) /\ hand[w] \in Hands /\ seen[w] \in Told /\ shortcuts \in Nat
      /\ phase \in [Subscribers -> Phases] /\ hand \in [Subscribers -> Hands]
      /\ seen \in [Subscribers -> Told]
  BY Values, ThreadTypesBefore DEF Inv
<1>4. /\ snapshot' \in [generation : 0 .. MaxGeneration, content : Contents]
      /\ latest' \in [Subscribers -> 0 .. MaxGeneration]
      /\ wake' \in [Subscribers -> BOOLEAN]
  BY <1>1, PublishTypes
<1>5. snapshot'.generation \in Nat /\ snapshot'.generation # 0
  BY <1>1, <1>4, PublishedNext, SubscriptionsAssumption
<1>6. /\ w \notin registered /\ latest[w] = 0 /\ event[w] = 0 /\ queue[w] = <<>>
      /\ hand[w] = Nothing /\ seen[w].snapshot = 0
  BY <1>1, <1>3 DEF Good, Fresh
<1>7. /\ h \in Hands /\ h.snapshot = snapshot'.generation /\ h.event = 0 /\ h.shortcuts = <<>>
  <2>1. hand[w].event = 0 /\ hand[w].shortcuts = <<>>
    BY <1>6 DEF Nothing
  <2>2. snapshot'.generation \in 0 .. MaxGeneration
    BY <1>4
  <2> QED BY <1>3, <2>1, <2>2 DEF Hands
<1>8. /\ t \in Told /\ t.snapshot = 0 /\ t.shortcut = shortcuts /\ t.warned \in BOOLEAN
  <2>1. reloads \in 0 .. MaxReloads /\ shortcuts \in 0 .. MaxShortcuts
    BY <1>1 DEF TypeOK
  <2> QED BY <1>3, <1>6, <2>1 DEF Told
<1> HIDE DEF h, t
<1>9. /\ phase' \in [Subscribers -> Phases] /\ phase'[w] = "initial"
      /\ hand' \in [Subscribers -> Hands] /\ hand'[w] = h
      /\ seen' \in [Subscribers -> Told] /\ seen'[w] = t
      /\ \A d \in Subscribers \ {w} :
           phase'[d] = phase[d] /\ hand'[d] = hand[d] /\ seen'[d] = seen[d]
  <2>1. "initial" \in Phases
    BY DEF Phases, Serving
  <2> QED BY <1>1, <1>3, <1>7, <1>8, <2>1, Zenon
<1>10. TypeOK'
  <2>1. registered' \in SUBSET Subscribers
    BY <1>1 DEF TypeOK, Alive
  <2>2. dirty' \in BOOLEAN
    BY <1>1
  <2> QED BY <1>1, <1>2, <1>4, <1>9, <2>1, <2>2, Zenon DEF TypeOK, Hands, Told, Phases
<1>11. Good(w)'
  <2>1. w \in registered' /\ latest'[w] = 0 /\ event'[w] = 0 /\ queue'[w] = <<>>
    BY <1>1, <1>2, <1>6 DEF Replace, Alive
  <2>2. Fresh(w)' /\ Joined(w)' /\ Held(w)'
    BY <1>5, <1>7, <1>8, <1>9, <2>1 DEF Fresh, Joined, Held, Serving
  <2>3. Awake(w)'
    BY <2>1 DEF Awake
  <2>4. Current(w)'
    BY <1>5, <1>7, <1>8, <1>9, <2>1 DEF Current, Newest
  <2>5. Ordered(w)'
    <3>1. Follows(shortcuts, t.warned, <<>>, shortcuts) /\ Follows(shortcuts, FALSE, <<>>, shortcuts)
      BY <1>3, <1>8, NothingFollows
    <3>2. shortcuts' = shortcuts /\ shortcuts \in 0 .. shortcuts
      BY <1>2, <1>3
    <3> QED BY <1>7, <1>8, <1>9, <2>1, <3>1, <3>2 DEF Ordered
  <2> QED BY <2>2, <2>3, <2>4, <2>5 DEF Good
<1>12. ASSUME NEW d \in Subscribers \ {w} PROVE Good(d)'
  <2>1. UNCHANGED <<shortcuts, owed, event[d], queue[d], phase[d], hand[d], seen[d]>>
    BY <1>2, <1>9
  <2>2. (d \in Alive => d \in registered') /\ (d \in registered' => d \in registered)
    BY <1>1 DEF Alive
  <2> QED BY <1>1, <2>1, <2>2, ReplaceKeeps
<1> QED BY <1>10, <1>11, <1>12 DEF Inv

\* A change of the desktop is not seen before it is published.
LEMMA MutateKeeps == ASSUME Inv, NEW c \in Contents, Mutate(c) PROVE Inv'
<1>1. /\ desktop' \in Contents /\ dirty' \in BOOLEAN
      /\ UNCHANGED <<snapshot, reloads, shortcuts, registered, owed, mail, wake, phase, hand,
                     open, seen>>
  BY DEF Mutate
<1>2. TypeOK'
  BY <1>1, Zenon DEF Inv, TypeOK, mail
<1>3. ASSUME NEW d \in Subscribers PROVE Good(d)'
  <2>1. UNCHANGED Local(d) /\ UNCHANGED <<snapshot, shortcuts>>
        /\ (d \in registered)' = (d \in registered) /\ (d \in owed)' = (d \in owed)
    BY <1>1 DEF Local, mail
  <2> QED BY <2>1, Elsewhere DEF Inv
<1> QED BY <1>2, <1>3 DEF Inv

\* A reload is announced to everyone who serves.
LEMMA ReloadKeeps == ASSUME Inv, Reload PROVE Inv'
<1>1. /\ TypeOK /\ reloads < MaxReloads /\ reloads' = reloads + 1 /\ registered' = Alive
      /\ event' = [w \in Subscribers |-> IF w \in Alive THEN reloads' ELSE event[w]]
      /\ wake' = [w \in Subscribers |-> wake[w] \/ (w \in Alive /\ event[w] = 0)]
      /\ UNCHANGED <<desktop, dirty, snapshot, shortcuts, owed, latest, queue, phase, hand,
                     open, seen>>
  BY DEF Inv, Reload
<1>2. TypeOK'
  <2>1. registered' \in SUBSET Subscribers
    BY <1>1 DEF TypeOK, Alive
  <2>2. reloads' \in 0 .. MaxReloads
    BY <1>1, SubscriptionsAssumption DEF TypeOK
  <2>3. event \in [Subscribers -> 0 .. MaxReloads] /\ wake \in [Subscribers -> BOOLEAN]
    BY <1>1 DEF TypeOK
  <2>4. event' \in [Subscribers -> 0 .. MaxReloads]
    BY <1>1, <2>2, <2>3, Zenon
  <2>5. wake' \in [Subscribers -> BOOLEAN]
    BY <1>1, <2>3
  <2> QED BY <1>1, <2>1, <2>2, <2>4, <2>5, Zenon DEF TypeOK
<1>3. ASSUME NEW d \in Subscribers PROVE Good(d)'
  <2>1. /\ Good(d) /\ snapshot' = snapshot
        /\ UNCHANGED <<shortcuts, owed, latest[d], queue[d], phase[d], hand[d], seen[d]>>
    BY <1>1 DEF Inv
  <2>2. /\ d \notin Alive => event'[d] = event[d]
        /\ wake[d] => wake'[d]
        /\ d \in Alive /\ event[d] = 0 => wake'[d]
    BY <1>1
  <2>3. phase[d] \in Serving <=> d \in Alive
    BY AliveServing
  <2>4. registered' = Alive /\ Alive \subseteq registered
    BY <1>1 DEF Alive
  <2>5. Fresh(d)'
    BY <2>1, <2>2, <2>3, <2>4 DEF Good, Fresh, Serving, Nothing
  <2>6. Joined(d)' /\ Held(d)'
    BY <2>1, <2>3, <2>4 DEF Good, Joined, Held, Nothing
  <2>7. Awake(d)'
    BY <2>1, <2>2, <2>3 DEF Good, Awake
  <2>8. Current(d)'
    BY <2>1 DEF Good, Current, Newest
  <2>9. Ordered(d)'
    BY <2>1 DEF Good, Ordered
  <2> QED BY <2>5, <2>6, <2>7, <2>8, <2>9 DEF Good
<1> QED BY <1>2, <1>3 DEF Inv

\* A queue with one more shortcut, or an error frame, is a queue and holds something.
LEMMA EnqueuedQueue ==
  ASSUME NEW q \in Seq(0 .. MaxShortcuts), Len(q) <= MaxPending, NEW k \in 0 .. MaxShortcuts
  PROVE  /\ Enqueued(q, k) \in Seq(0 .. MaxShortcuts)
         /\ Len(Enqueued(q, k)) <= MaxPending
         /\ q = <<>> => Len(Enqueued(q, k)) = 1
<1>1. CASE Len(q) >= MaxPending
  <2>1. Enqueued(q, k) = <<0>>
    BY <1>1 DEF Enqueued
  <2>2. <<0>> \in Seq(0 .. MaxShortcuts) /\ Len(<<0>>) = 1
    BY SubscriptionsAssumption
  <2> QED BY <2>1, <2>2, SubscriptionsAssumption
<1>2. CASE ~(Len(q) >= MaxPending)
  <2>1. Enqueued(q, k) = Append(q, k)
    BY <1>2 DEF Enqueued
  <2>2. /\ Append(q, k) \in Seq(0 .. MaxShortcuts)
        /\ Len(Append(q, k)) = Len(q) + 1 /\ Len(q) \in Nat
    BY AppendProperties, LenProperties
  <2>3. q = <<>> => Len(q) = 0
    OBVIOUS
  <2> QED BY <1>2, <2>1, <2>2, <2>3, SubscriptionsAssumption
<1> QED BY <1>1, <1>2

\* A shortcut is queued for everyone who serves, and the ones to be woken are known.
LEMMA ShortcutKeeps == ASSUME Inv, Shortcut PROVE Inv'
<1>1. /\ TypeOK /\ owed = {} /\ shortcuts < MaxShortcuts /\ shortcuts' = shortcuts + 1
      /\ registered' = Alive
      /\ queue' = [w \in Subscribers |->
                     IF w \in Alive THEN Enqueued(queue[w], shortcuts') ELSE queue[w]]
      /\ owed' = {w \in Alive : Len(queue'[w]) = 1}
      /\ UNCHANGED <<desktop, dirty, snapshot, reloads, latest, event, wake, phase, hand,
                     open, seen>>
  BY DEF Inv, Shortcut
<1>2. /\ shortcuts' \in 0 .. MaxShortcuts /\ shortcuts \in Nat
      /\ Alive \subseteq registered /\ registered \subseteq Subscribers
  BY <1>1, SubscriptionsAssumption DEF TypeOK, Alive
<1>3. ASSUME NEW d \in Subscribers
      PROVE  /\ queue'[d] = IF d \in Alive THEN Enqueued(queue[d], shortcuts') ELSE queue[d]
             /\ queue'[d] \in Seq(0 .. MaxShortcuts) /\ Len(queue'[d]) <= MaxPending
             /\ d \in Alive /\ queue[d] = <<>> => d \in owed'
  <2>1. queue[d] \in Seq(0 .. MaxShortcuts) /\ Len(queue[d]) <= MaxPending
    BY <1>1, ThreadTypesBefore
  <2>2. queue'[d] = IF d \in Alive THEN Enqueued(queue[d], shortcuts') ELSE queue[d]
    BY <1>1
  <2>3. /\ Enqueued(queue[d], shortcuts') \in Seq(0 .. MaxShortcuts)
        /\ Len(Enqueued(queue[d], shortcuts')) <= MaxPending
        /\ queue[d] = <<>> => Len(Enqueued(queue[d], shortcuts')) = 1
    BY <1>2, <2>1, EnqueuedQueue
  <2>4. d \in Alive /\ queue[d] = <<>> => d \in owed'
    <3>1. d \in Alive /\ queue[d] = <<>> => Len(queue'[d]) = 1
      BY <2>2, <2>3
    <3> QED BY <1>1, <3>1
  <2> QED BY <2>1, <2>2, <2>3, <2>4
<1>4. TypeOK'
  <2>1. registered' \in SUBSET Subscribers /\ owed' \in SUBSET Subscribers
    BY <1>1, <1>2
  <2>2. queue' \in [Subscribers -> Seq(0 .. MaxShortcuts)]
    <3>1. queue' = [w \in Subscribers |-> queue'[w]]
      BY <1>1
    <3> QED BY <1>3, <3>1, Zenon
  <2> QED BY <1>1, <1>2, <1>3, <2>1, <2>2, Zenon DEF TypeOK
<1>5. ASSUME NEW d \in Subscribers PROVE Good(d)'
  <2>1. /\ Good(d) /\ snapshot' = snapshot
        /\ UNCHANGED <<latest[d], event[d], wake[d], phase[d], hand[d], seen[d]>>
    BY <1>1 DEF Inv
  <2>2. phase[d] \in Serving <=> d \in Alive
    BY AliveServing
  <2>3. d \notin Alive => queue'[d] = queue[d]
    BY <1>3
  <2>4. Fresh(d)'
    BY <1>1, <1>2, <2>1, <2>2, <2>3 DEF Good, Fresh, Serving, Nothing
  <2>5. Joined(d)' /\ Held(d)'
    BY <1>1, <2>1, <2>2 DEF Good, Joined, Held, Nothing
  <2>6. Awake(d)'
    <3>1. d \in Alive /\ queue[d] = <<>> => d \in owed'
      BY <1>3
    <3> QED BY <1>1, <2>1, <2>2, <3>1 DEF Good, Awake
  <2>7. Current(d)'
    BY <2>1 DEF Good, Current, Newest
  <2>8. Ordered(d)'
    <3> SUFFICES ASSUME phase[d] \in Serving
                 PROVE  \E m \in 0 .. shortcuts' :
                          /\ Follows(seen[d].shortcut, seen[d].warned, hand[d].shortcuts, m)
                          /\ Follows(m, FALSE, queue'[d], shortcuts')
      BY <2>1 DEF Ordered
    <3>1. PICK m \in 0 .. shortcuts :
            /\ Follows(seen[d].shortcut, seen[d].warned, hand[d].shortcuts, m)
            /\ Follows(m, FALSE, queue[d], shortcuts)
      BY <2>1 DEF Good, Ordered
    <3>2. queue[d] \in Seq(Nat)
      BY <1>1, Values
    <3>3. Follows(m, FALSE, queue'[d], shortcuts')
      BY <1>1, <1>2, <1>3, <2>2, <3>1, <3>2, FollowsEnqueued
    <3>4. m \in 0 .. shortcuts'
      BY <1>1, <1>2
    <3> QED BY <3>1, <3>3, <3>4
  <2> QED BY <2>4, <2>5, <2>6, <2>7, <2>8 DEF Good
<1> QED BY <1>4, <1>5 DEF Inv

\* A subscriber is woken, or dropped if it has ended.
LEMMA WakeKeeps == ASSUME Inv, NEW w \in Subscribers, Wake(w) PROVE Inv'
<1>1. /\ TypeOK /\ owed' = owed \ {w} /\ wake' = [wake EXCEPT ![w] = TRUE]
      /\ registered' = IF phase[w] = "ended" THEN registered \ {w} ELSE registered
      /\ UNCHANGED <<desktop, dirty, snapshot, reloads, shortcuts, phase, hand, open, seen>>
      /\ UNCHANGED <<latest, event, queue>>
  BY DEF Inv, Wake, mail
<1>2. TypeOK'
  <2>1. /\ registered' \in SUBSET Subscribers /\ owed' \in SUBSET Subscribers
        /\ wake' \in [Subscribers -> BOOLEAN]
    BY <1>1 DEF TypeOK
  <2> QED BY <1>1, <2>1, Zenon DEF TypeOK
<1>3. ASSUME NEW d \in Subscribers PROVE Good(d)'
  <2>1. /\ Good(d) /\ snapshot' = snapshot /\ shortcuts' = shortcuts
        /\ UNCHANGED <<latest[d], event[d], queue[d], phase[d], hand[d], seen[d]>>
    BY <1>1 DEF Inv
  <2>2. /\ wake[d] => wake'[d]
        /\ d \in owed => d \in owed' \/ wake'[d]
    BY <1>1 DEF TypeOK
  <2>3. /\ phase[d] \in Serving /\ d \in registered => d \in registered'
        /\ d \in registered' => d \in registered
    BY <1>1 DEF Serving
  <2>4. Fresh(d)' /\ Joined(d)' /\ Held(d)'
    BY <2>1, <2>3 DEF Good, Fresh, Joined, Held, Nothing
  <2>5. Awake(d)'
    BY <2>1, <2>2 DEF Good, Awake
  <2>6. Current(d)' /\ Ordered(d)'
    BY <2>1 DEF Good, Current, Newest, Ordered
  <2> QED BY <2>4, <2>5, <2>6 DEF Good
<1> QED BY <1>2, <1>3 DEF Inv

-----------------------------------------------------------------------------
(* The theorems                                                            *)

\* Every step keeps the invariant.
LEMMA InvStep == ASSUME Inv, [Next]_vars PROVE Inv'
<1>1. ASSUME NEW c \in Contents, Mutate(c) PROVE Inv'
  BY <1>1, MutateKeeps
<1>2. CASE Publish \/ Reload \/ Shortcut
  BY <1>2, PublishKeeps, ReloadKeeps, ShortcutKeeps
<1>3. ASSUME NEW w \in Subscribers,
             Subscribe(w) \/ Wake(w) \/ Ask(w) \/ Close(w) \/ End(w) \/ Serve(w)
      PROVE  Inv'
  <2>1. CASE Subscribe(w) \/ Wake(w) \/ Ask(w) \/ Close(w) \/ End(w)
    BY <2>1, SubscribeKeeps, WakeKeeps, MovesKeep, CloseKeeps
  <2>2. CASE Serve(w)
    BY <2>2, WriteInitialKeeps, MovesKeep, TakeSnapshotKeeps, TakeEventKeeps,
       TakeShortcutsKeeps, WriteFrameKeeps, WriteShortcutKeeps DEF Serve
  <2> QED BY <1>3, <2>1, <2>2
<1>4. CASE UNCHANGED vars
  <2>1. TypeOK'
    BY <1>4 DEF Inv, vars, loop, mail, TypeOK
  <2>2. ASSUME NEW d \in Subscribers PROVE Good(d)'
    <3>1. UNCHANGED Local(d) /\ UNCHANGED <<snapshot, shortcuts>>
          /\ (d \in registered)' = (d \in registered) /\ (d \in owed)' = (d \in owed)
      BY <1>4 DEF vars, loop, mail, Local
    <3> QED BY <3>1, Elsewhere DEF Inv
  <2> QED BY <2>1, <2>2 DEF Inv
<1> QED BY <1>1, <1>2, <1>3, <1>4, Zenon DEF Next

\* The invariant holds always.
LEMMA Invariant == Spec => []Inv
<1>1. Inv /\ [Next]_vars => Inv'
  BY InvStep
<1> QED BY <1>1, InitInv, PTL DEF Spec

\* No wake is lost: while a mailbox holds a frame its thread is on its way to it or will
\* find the wake socket readable.
THEOREM WakesKept == Spec => []NoLostWake
<1>1. Inv => NoLostWake
  <2> SUFFICES ASSUME Inv, NEW w \in registered, phase[w] # "ended"
               PROVE  /\ latest[w] # 0 => wake[w] \/ phase[w] = "drained"
                      /\ event[w] # 0 => wake[w] \/ phase[w] \in {"drained", "tookSnapshot"}
                      /\ queue[w] # <<>> =>
                           \/ wake[w] \/ w \in owed
                           \/ phase[w] \in {"drained", "tookSnapshot", "tookEvent"}
    BY DEF Inv, NoLostWake
  <2>1. w \in Subscribers /\ phase[w] \in Serving
    BY AliveServing DEF Alive
  <2> QED BY <2>1 DEF Inv, Good, Awake
<1> QED BY <1>1, Invariant, PTL

\* No publication misses a subscriber, and what it holds, what waits and what its client
\* has are in order.
THEOREM NoneMissed == Spec => []NothingMissed
<1>1. Inv => NothingMissed
  <2> SUFFICES ASSUME Inv, NEW w \in registered, phase[w] # "ended"
               PROVE  /\ Newest(w) = snapshot.generation
                      /\ hand[w].snapshot # 0 => hand[w].snapshot > seen[w].snapshot
                      /\ latest[w] # 0 => latest[w] > hand[w].snapshot /\ latest[w] > seen[w].snapshot
    BY DEF NothingMissed
  <2>1. w \in Subscribers /\ phase[w] \in Serving
    BY AliveServing DEF Alive
  <2> QED BY <2>1 DEF Inv, Good, Current
<1> QED BY <1>1, Invariant, PTL

\* Only a thread that writes a shortcut moves its client on, or one that was not yet served.
LEMMA ShortcutsWritten ==
  ASSUME Inv, Next, NEW w \in Subscribers, phase[w] \in Serving,
         seen'[w].shortcut # seen[w].shortcut
  PROVE  WriteShortcut(w)
<1>1. seen \in [Subscribers -> Told] /\ seen[w] \in Told /\ hand[w] \in Hands
  BY Values, ThreadTypesBefore DEF Inv
<1>2. seen' # seen
  OBVIOUS
<1>3. ASSUME NEW c, Mutate(c) PROVE FALSE
  BY <1>2, <1>3 DEF Mutate
<1>4. ~Publish /\ ~Reload /\ ~Shortcut
  BY <1>2 DEF Publish, Reload, Shortcut
<1>5. ASSUME NEW d \in Subscribers, Subscribe(d) PROVE FALSE
  <2>1. phase[d] = "asked"
    BY <1>5 DEF Subscribe
  <2>2. d # w
    BY <2>1 DEF Serving
  <2> QED BY <1>1, <1>5, <2>2 DEF Subscribe
<1>6. ASSUME NEW d \in Subscribers,
             \/ Wake(d) \/ Ask(d) \/ Close(d) \/ End(d) \/ Poll(d) \/ PollAgain(d)
             \/ TakeSnapshot(d) \/ TakeEvent(d) \/ TakeShortcuts(d)
      PROVE  FALSE
  BY <1>2, <1>6 DEF Wake, Ask, Close, End, Poll, PollAgain, TakeSnapshot, TakeEvent, TakeShortcuts
<1>7. ASSUME NEW d \in Subscribers, WriteInitial(d) \/ WriteSnapshot(d) PROVE FALSE
  <2> DEFINE t == [seen[d] EXCEPT !.snapshot = hand[d].snapshot]
  <2>1. seen' = [seen EXCEPT ![d] = t]
    BY <1>7 DEF WriteInitial, WriteSnapshot
  <2>2. t.shortcut = seen[d].shortcut
    BY <1>1, Values DEF Inv, Told
  <2> HIDE DEF t
  <2>3. seen'[w] = IF w = d THEN t ELSE seen[w]
    BY <1>1, <2>1, Zenon
  <2> QED BY <2>2, <2>3
<1>8. ASSUME NEW d \in Subscribers, WriteEvent(d) PROVE FALSE
  <2> DEFINE t == [seen[d] EXCEPT !.event = hand[d].event]
  <2>1. seen' = [seen EXCEPT ![d] = t]
    BY <1>8 DEF WriteEvent
  <2>2. t.shortcut = seen[d].shortcut
    BY <1>1, Values DEF Inv, Told
  <2> HIDE DEF t
  <2>3. seen'[w] = IF w = d THEN t ELSE seen[w]
    BY <1>1, <2>1, Zenon
  <2> QED BY <2>2, <2>3
<1>9. ASSUME NEW d \in Subscribers, d # w, WriteShortcut(d) PROVE FALSE
  <2>1. PICK t : seen' = [seen EXCEPT ![d] = t]
    BY <1>9 DEF WriteShortcut
  <2> QED BY <1>1, <1>9, <2>1
<1> QED BY <1>3, <1>4, <1>5, <1>6, <1>7, <1>8, <1>9, Zenon DEF Next, Serve

\* The shortcuts a client is told of are consecutive, but after an error frame.
THEOREM GapsTold == Spec => GapsAnnounced
<1>1. Inv /\ [Next]_vars =>
        [\A w \in Subscribers :
           phase[w] \in Serving /\ seen'[w].shortcut # seen[w].shortcut =>
             \/ seen'[w].shortcut = seen[w].shortcut + 1
             \/ (seen[w].warned /\ seen'[w].shortcut > seen[w].shortcut)]_vars
  <2> SUFFICES ASSUME Inv, Next, NEW w \in Subscribers, phase[w] \in Serving,
                      seen'[w].shortcut # seen[w].shortcut
               PROVE  \/ seen'[w].shortcut = seen[w].shortcut + 1
                      \/ (seen[w].warned /\ seen'[w].shortcut > seen[w].shortcut)
    BY Zenon
  <2> DEFINE k == Head(hand[w].shortcuts)
             t == [seen[w] EXCEPT !.shortcut = IF k = 0 THEN @ ELSE k, !.warned = k = 0]
  <2>1. hand[w].shortcuts # <<>> /\ seen' = [seen EXCEPT ![w] = t]
    BY ShortcutsWritten DEF WriteShortcut
  <2>2. k # 0 => k = seen[w].shortcut + 1 \/ (seen[w].warned /\ k > seen[w].shortcut)
    BY <2>1, ReadOn
  <2>3. seen \in [Subscribers -> Told] /\ seen[w] \in Told
    BY Values, ThreadTypesBefore DEF Inv
  <2> HIDE DEF k
  <2>4. t.shortcut = IF k = 0 THEN seen[w].shortcut ELSE k
    BY <2>3 DEF Told
  <2> HIDE DEF t
  <2>5. seen'[w] = t
    BY <2>1, <2>3, Zenon
  <2> QED BY <2>2, <2>4, <2>5
<1> QED BY <1>1, Invariant, PTL DEF Spec, GapsAnnounced

-----------------------------------------------------------------------------
(* The feed                                                                *)

live == {w \in Subscribers : phase[w] \in Serving}
view == [w \in Subscribers |-> View(w)]

\* A step that neither changes what is published nor who is served nor how far anybody has
\* got is no step of the feed.
LEMMA FeedStutters ==
  ASSUME UNCHANGED snapshot,
         \A d \in Subscribers : phase'[d] \in Serving <=> phase[d] \in Serving,
         \A d \in Subscribers : View(d)' = View(d)
  PROVE  UNCHANGED Feed!vars
<1>1. live' = live /\ view' = view
  BY DEF live, view
<1> QED BY <1>1 DEF Feed!vars, live, view

\* Whoever has got nowhere is not shown anything by taking from the mailboxes.
LEMMA ViewOnceSeen ==
  ASSUME NEW w, seen[w].snapshot # 0, seen'[w].snapshot = seen[w].snapshot
  PROVE  View(w)' = View(w)
BY DEF View

\* The steps of the loop and of clients.
LEMMA FeedLoop ==
  ASSUME Inv,
         \/ \E c \in Contents : Mutate(c)
         \/ Publish \/ Reload \/ Shortcut
         \/ \E w \in Subscribers : Wake(w) \/ Close(w) \/ Ask(w)
  PROVE  [Feed!Next]_(Feed!vars)
<1>1. /\ UNCHANGED <<hand, seen>>
      /\ \A d \in Subscribers : phase'[d] \in Serving <=> phase[d] \in Serving
  <2>1. CASE \E w \in Subscribers : Ask(w)
    <3>1. PICK w \in Subscribers : Ask(w)
      BY <2>1
    <3>2. phase \in [Subscribers -> Phases]
      BY ThreadTypesBefore DEF Inv
    <3> QED BY <3>1, <3>2 DEF Ask, Goto, Serving
  <2>2. CASE ~(\E w \in Subscribers : Ask(w))
    BY <2>2 DEF Mutate, Publish, Reload, Shortcut, Wake, Close
  <2> QED BY <2>1, <2>2
<1>2. live' = live /\ view' = view
  BY <1>1 DEF live, view, View
<1>3. CASE UNCHANGED snapshot
  BY <1>2, <1>3 DEF Feed!vars, live, view
<1>4. CASE Publish
  <2>1. snapshot'.generation = snapshot.generation \/ snapshot'.generation = snapshot.generation + 1
    BY <1>4, PublishedNext DEF Publish, Inv
  <2>2. CASE snapshot'.generation = snapshot.generation
    BY <1>2, <2>2 DEF Feed!vars, live, view
  <2>3. CASE snapshot'.generation = snapshot.generation + 1
    BY <1>2, <2>3 DEF Feed!Next, Feed!Publish, live, view
  <2> QED BY <2>1, <2>2, <2>3
<1>5. ~Publish => UNCHANGED snapshot
  BY DEF Mutate, Reload, Shortcut, Wake, Close, Ask, loop
<1> QED BY <1>3, <1>4, <1>5

\* Subscribing is joining the feed.
LEMMA FeedJoins == ASSUME Inv, NEW w \in Subscribers, Subscribe(w) PROVE Feed!Next
<1>1. /\ TypeOK /\ (Changed => snapshot.generation < MaxGeneration)
      /\ phase[w] = "asked" /\ snapshot' = Published
      /\ phase' = [phase EXCEPT ![w] = "initial"]
  BY DEF Inv, Subscribe
<1>2. /\ Good(w) /\ snapshot.generation \in Nat
      /\ phase \in [Subscribers -> Phases] /\ hand \in [Subscribers -> Hands]
      /\ seen \in [Subscribers -> Told] /\ seen[w] \in Told /\ hand[w] \in Hands
  BY Values, ThreadTypesBefore DEF Inv
<1>3. seen[w].snapshot = 0 /\ hand[w] = Nothing
  BY <1>1, <1>2 DEF Good, Fresh
<1>4. View(w) = 0
  BY <1>3 DEF View, Nothing
<1>5. snapshot'.generation \in {snapshot.generation, snapshot.generation + 1} \ {0}
  BY <1>1, PublishedNext
<1>6. View(w)' = snapshot'.generation
  <2> DEFINE h == [hand[w] EXCEPT !.snapshot = snapshot'.generation]
             t == [seen[w] EXCEPT !.event = reloads, !.shortcut = shortcuts]
  <2>1. hand' = [hand EXCEPT ![w] = h] /\ seen' = [seen EXCEPT ![w] = t]
    BY DEF Subscribe
  <2>2. h.snapshot = snapshot'.generation /\ t.snapshot = 0
    BY <1>2, <1>3 DEF Hands, Told
  <2> HIDE DEF h, t
  <2>3. hand'[w] = h /\ seen'[w] = t
    BY <1>2, <2>1, Zenon
  <2> QED BY <2>2, <2>3 DEF View
<1>7. ASSUME NEW d \in Subscribers \ {w} PROVE View(d)' = View(d)
  <2>1. PICK h, t : hand' = [hand EXCEPT ![w] = h] /\ seen' = [seen EXCEPT ![w] = t]
    BY DEF Subscribe
  <2> QED BY <1>2, <1>7, <2>1 DEF View
<1>8. live' = live \cup {w}
  BY <1>1, <1>2 DEF live, Serving
<1>9. view[w] = 0 /\ view' = [view EXCEPT ![w] = snapshot'.generation]
  BY <1>4, <1>6, <1>7 DEF view
<1> QED BY <1>5, <1>8, <1>9 DEF Feed!Next, Feed!Join, live, view

\* Ending is leaving it, for one who has joined.
LEMMA FeedLeaves ==
  ASSUME Inv, NEW w \in Subscribers, Goto(w, "ended"), UNCHANGED <<snapshot, hand, seen>>
  PROVE  [Feed!Next]_(Feed!vars)
<1>1. phase \in [Subscribers -> Phases]
  BY ThreadTypesBefore DEF Inv
<1>2. live' = live \ {w}
  BY <1>1 DEF Goto, live, Serving
<1>3. view' = view
  BY DEF view, View
<1>4. CASE w \in live
  BY <1>2, <1>3, <1>4 DEF Feed!Next, Feed!Leave, live, view
<1>5. CASE w \notin live
  BY <1>2, <1>3, <1>5 DEF Feed!vars, live, view
<1> QED BY <1>4, <1>5

\* Writing a snapshot is delivering it.
LEMMA FeedDelivers == ASSUME Inv, NEW w \in Subscribers, WriteSnapshot(w) PROVE Feed!Next
<1> DEFINE h == [hand[w] EXCEPT !.snapshot = 0]
           t == [seen[w] EXCEPT !.snapshot = hand[w].snapshot]
<1>1. /\ phase[w] = "writing" /\ hand[w].snapshot # 0 /\ UNCHANGED <<loop, phase>>
      /\ hand' = [hand EXCEPT ![w] = h] /\ seen' = [seen EXCEPT ![w] = t]
  BY DEF WriteSnapshot
<1>2. /\ Good(w) /\ snapshot.generation \in Nat /\ latest[w] \in Nat
      /\ hand[w].snapshot \in Nat /\ seen[w].snapshot \in Nat
      /\ seen[w] \in Told /\ hand[w] \in Hands
      /\ hand \in [Subscribers -> Hands] /\ seen \in [Subscribers -> Told]
  BY Values, ThreadTypesBefore DEF Inv
<1>3. /\ seen[w].snapshot # 0 /\ Newest(w) = snapshot.generation
      /\ hand[w].snapshot > seen[w].snapshot
      /\ latest[w] # 0 => latest[w] > hand[w].snapshot
  BY <1>1, <1>2 DEF Good, Held, Current, Serving
<1>4. View(w) = seen[w].snapshot
      /\ hand[w].snapshot \in seen[w].snapshot + 1 .. snapshot.generation
  <2>1. hand[w].snapshot <= snapshot.generation
    BY <1>1, <1>2, <1>3 DEF Newest
  <2> QED BY <1>2, <1>3, <2>1 DEF View
<1>5. t.snapshot = hand[w].snapshot
  BY <1>2 DEF Told
<1> HIDE DEF h, t
<1>6. View(w)' = hand[w].snapshot
  <2>1. seen'[w] = t
    BY <1>1, <1>2, Zenon
  <2> QED BY <1>1, <1>5, <2>1 DEF View
<1>7. ASSUME NEW d \in Subscribers \ {w} PROVE View(d)' = View(d)
  BY <1>1, <1>2, <1>7 DEF View
<1>8. view[w] = View(w) /\ view' = [view EXCEPT ![w] = hand[w].snapshot]
  BY <1>6, <1>7 DEF view
<1>9. live' = live /\ w \in live /\ UNCHANGED snapshot
  BY <1>1 DEF live, Serving, loop
<1>10. Feed!Deliver(w)
  BY <1>4, <1>8, <1>9 DEF Feed!Deliver, live, view
<1> QED BY <1>10 DEF Feed!Next

\* What else a thread does shows nobody another snapshot.
LEMMA FeedIgnores ==
  ASSUME Inv, NEW w \in Subscribers,
         \/ WriteInitial(w) \/ TakeSnapshot(w) \/ TakeEvent(w) \/ TakeShortcuts(w)
         \/ WriteEvent(w) \/ WriteShortcut(w) \/ PollAgain(w)
  PROVE  UNCHANGED Feed!vars
<1>1. /\ Good(w) /\ seen[w] \in Told /\ hand[w] \in Hands /\ phase[w] \in Serving
      /\ phase \in [Subscribers -> Phases]
      /\ hand \in [Subscribers -> Hands] /\ seen \in [Subscribers -> Told]
  <2>1. phase[w] \in Serving
    BY DEF WriteInitial, TakeSnapshot, TakeEvent, TakeShortcuts, WriteEvent, WriteShortcut,
           PollAgain, Serving
  <2> QED BY <2>1, Values, ThreadTypesBefore DEF Inv
<1>2. UNCHANGED snapshot
  BY DEF WriteInitial, TakeSnapshot, TakeEvent, TakeShortcuts, WriteEvent, WriteShortcut,
         PollAgain, loop
<1>3. PICK p \in Serving : phase' = [phase EXCEPT ![w] = p]
  <2>1. CASE WriteEvent(w) \/ WriteShortcut(w)
    <3>1. phase' = [phase EXCEPT ![w] = phase[w]]
      BY <1>1, <2>1 DEF WriteEvent, WriteShortcut
    <3> QED BY <1>1, <3>1
  <2>2. CASE ~(WriteEvent(w) \/ WriteShortcut(w))
    BY <2>2 DEF WriteInitial, TakeSnapshot, TakeEvent, TakeShortcuts, PollAgain, Goto, Serving
  <2> QED BY <2>1, <2>2
<1>4. ASSUME NEW d \in Subscribers
      PROVE  phase'[d] \in Serving <=> phase[d] \in Serving
  BY <1>1, <1>3
<1>5. ASSUME NEW d \in Subscribers \ {w} PROVE View(d)' = View(d)
  <2>1. /\ hand' = hand \/ \E h : hand' = [hand EXCEPT ![w] = h]
        /\ seen' = seen \/ \E t : seen' = [seen EXCEPT ![w] = t]
    BY DEF WriteInitial, TakeSnapshot, TakeEvent, TakeShortcuts, WriteEvent, WriteShortcut,
           PollAgain
  <2>2. hand'[d] = hand[d] /\ seen'[d] = seen[d]
    BY <1>1, <1>5, <2>1
  <2> QED BY <2>2 DEF View
<1>6. View(w)' = View(w)
  <2>1. CASE WriteInitial(w)
    <3> DEFINE t == [seen[w] EXCEPT !.snapshot = hand[w].snapshot]
    <3>1. hand[w].snapshot # 0 /\ seen[w].snapshot = 0
      BY <1>1, <2>1 DEF WriteInitial, Good, Held
    <3>2. seen' = [seen EXCEPT ![w] = t] /\ t.snapshot = hand[w].snapshot
      BY <1>1, <2>1 DEF WriteInitial, Told
    <3> HIDE DEF t
    <3>3. seen'[w] = t
      BY <1>1, <3>2, Zenon
    <3> QED BY <3>1, <3>2, <3>3 DEF View
  <2>2. CASE ~WriteInitial(w)
    <3>1. seen[w].snapshot # 0
      BY <1>1, <2>2 DEF Good, Held, Serving, TakeSnapshot, TakeEvent, TakeShortcuts, WriteEvent,
                        WriteShortcut, PollAgain
    <3>2. seen'[w].snapshot = seen[w].snapshot
      <4>1. CASE UNCHANGED seen
        BY <4>1
      <4>2. CASE WriteEvent(w)
        <5> DEFINE t == [seen[w] EXCEPT !.event = hand[w].event]
        <5>1. seen' = [seen EXCEPT ![w] = t] /\ t.snapshot = seen[w].snapshot
          BY <1>1, <4>2 DEF WriteEvent, Told
        <5> HIDE DEF t
        <5> QED BY <1>1, <5>1
      <4>3. CASE WriteShortcut(w)
        <5> DEFINE k == Head(hand[w].shortcuts)
                   t == [seen[w] EXCEPT !.shortcut = IF k = 0 THEN @ ELSE k, !.warned = k = 0]
        <5>1. seen' = [seen EXCEPT ![w] = t]
          BY <4>3 DEF WriteShortcut
        <5> HIDE DEF k
        <5>2. t.snapshot = seen[w].snapshot
          BY <1>1 DEF Told
        <5> HIDE DEF t
        <5> QED BY <1>1, <5>1, <5>2
      <4> QED BY <2>2, <4>1, <4>2, <4>3 DEF TakeSnapshot, TakeEvent, TakeShortcuts, PollAgain
    <3> QED BY <3>1, <3>2, ViewOnceSeen
  <2> QED BY <2>1, <2>2
<1>7. ASSUME NEW d \in Subscribers PROVE View(d)' = View(d)
  BY <1>5, <1>6
<1> QED BY <1>2, <1>4, <1>7, FeedStutters

\* Mailboxes, locks and wakes implement the feed, but for its liveness: from the snapshot of
\* the moment it joins, a subscriber is shown newer ones only and in order.
THEOREM FeedSafety == Spec => Feed!Init /\ [][Feed!Next]_(Feed!vars)
<1>1. Init => Feed!Init
  <2> SUFFICES ASSUME Init PROVE Feed!Init
    OBVIOUS
  <2>1. live = {}
    BY DEF Init, live, Serving
  <2>2. view = [w \in Subscribers |-> 0]
    BY DEF Init, view, View, Nothing
  <2>3. snapshot.generation = 0
    BY DEF Init
  <2> QED BY <2>1, <2>2, <2>3 DEF Feed!Init, live, view
<1>2. Inv /\ [Next]_vars => [Feed!Next]_(Feed!vars)
  <2> SUFFICES ASSUME Inv, [Next]_vars PROVE [Feed!Next]_(Feed!vars)
    OBVIOUS
  <2>1. CASE \/ \E c \in Contents : Mutate(c)
             \/ Publish \/ Reload \/ Shortcut
             \/ \E w \in Subscribers : Wake(w) \/ Close(w) \/ Ask(w)
    BY <2>1, FeedLoop
  <2>2. ASSUME NEW w \in Subscribers, Subscribe(w) PROVE [Feed!Next]_(Feed!vars)
    BY <2>2, FeedJoins
  <2>3. ASSUME NEW w \in Subscribers, End(w) PROVE [Feed!Next]_(Feed!vars)
    BY <2>3, FeedLeaves DEF End, loop
  <2>4. ASSUME NEW w \in Subscribers, Poll(w) PROVE [Feed!Next]_(Feed!vars)
    <3>1. UNCHANGED <<snapshot, hand, seen>> /\ phase[w] = "polling"
      BY <2>4 DEF Poll, loop
    <3>2. CASE Goto(w, "ended")
      BY <3>1, <3>2, FeedLeaves
    <3>3. CASE Goto(w, "drained")
      <4>1. phase \in [Subscribers -> Phases]
        BY ThreadTypesBefore DEF Inv
      <4>2. \A d \in Subscribers : phase'[d] \in Serving <=> phase[d] \in Serving
        BY <3>1, <3>3, <4>1 DEF Goto, Serving
      <4>3. \A d \in Subscribers : View(d)' = View(d)
        BY <3>1 DEF View
      <4> QED BY <3>1, <4>2, <4>3, FeedStutters
    <3> QED BY <2>4, <3>2, <3>3 DEF Poll
  <2>5. ASSUME NEW w \in Subscribers, Serve(w) PROVE [Feed!Next]_(Feed!vars)
    BY <2>3, <2>4, <2>5, FeedDelivers, FeedIgnores, Zenon DEF Serve
  <2>6. CASE UNCHANGED vars
    BY <2>6, FeedStutters DEF vars, loop, mail, View
  <2> QED BY <2>1, <2>2, <2>3, <2>5, <2>6, Zenon DEF Next
<1> QED BY <1>1, <1>2, Invariant, PTL DEF Spec
=============================================================================

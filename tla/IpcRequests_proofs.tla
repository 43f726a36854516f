------------------------- MODULE IpcRequests_proofs -------------------------
(***************************************************************************)
(* No thread of the IPC server runs unaccounted for, and what a client is  *)
(* told of its request is true: for any number of connections, places and  *)
(* requests.                                                               *)
(***************************************************************************)
EXTENDS IpcRequests, FiniteSetTheorems, TLAPS

-----------------------------------------------------------------------------
(* The inductive invariant                                                 *)

Message == [kind : {"Request", "Finished"}, client : Connections]
Pending == {"waiting", "expired", "bound"}

Types ==
  /\ server \in {"up", "removed", "shut", "gone"}
  /\ clients \in SUBSET Connections
  /\ channel \in Seq(Message)
  /\ at \in [op : {"idle", "execute", "join"}, client : Connections \cup {NoConnection}]
  /\ thread \in [Connections -> {"none", "backlog", "refused", "joined"} \cup Running]
  /\ envelope \in [Connections -> {"none", "QUEUED", "EXECUTING", "CANCELLED"}]
  /\ reply \in [Connections -> {"none", "sent", "disconnected"}]
  /\ asked \in [Connections -> Nat] /\ ran \in [Connections -> Nat]
  /\ answered \in [Connections -> Nat]
  /\ open \in [Connections -> BOOLEAN]

\* A server that is being dropped is in the middle of no handler, and one that is gone
\* has no clients.
Stopped ==
  /\ server # "up" => at = Idle
  /\ server = "gone" => clients = {}
  /\ at.op # "idle" => at.client \in Connections

\* A thread that runs has a place or is being waited for.
Placed(c) == thread[c] \in Running => c \in clients \/ at = [op |-> "join", client |-> c]

\* How many requests have been sent, run and answered, by where the thread is and what has
\* become of the last envelope.
Counted(c) ==
  /\ thread[c] \in {"none", "backlog", "refused"} => asked[c] = 0 /\ ran[c] = 0 /\ answered[c] = 0
  /\ thread[c] \in {"reading", "streaming"} => answered[c] = asked[c] /\ ran[c] = asked[c]
  /\ thread[c] = "writing" => answered[c] = asked[c] - 1 /\ ran[c] = asked[c]
  /\ thread[c] \in Pending => answered[c] = asked[c] - 1
  /\ envelope[c] \in {"QUEUED", "CANCELLED"} => ran[c] = asked[c] - 1
  /\ envelope[c] = "EXECUTING" => ran[c] = asked[c]

\* Only a request that is executing has a reply, and while one executes or may still be
\* taken from the channel its thread waits and has none.
Replied(c) ==
  /\ reply[c] = "sent" /\ thread[c] \in Pending => envelope[c] = "EXECUTING"
  /\ at = [op |-> "execute", client |-> c] =>
       envelope[c] = "EXECUTING" /\ thread[c] \in Pending /\ reply[c] = "none"
  /\ server = "up" /\ envelope[c] = "QUEUED" =>
       thread[c] \in {"waiting", "expired"} /\ reply[c] = "none"

Good(c) == Placed(c) /\ Counted(c) /\ Replied(c)

Inv ==
  /\ Types /\ Stopped
  /\ Cardinality(clients) <= MaxClients
  /\ \A c \in Connections : Good(c)

\* At first there are no threads and no requests.
LEMMA InitInv == Init => Inv
<1> SUFFICES ASSUME Init PROVE Inv
  OBVIOUS
<1>1. Types /\ Stopped
  BY DEF Init, Types, Stopped, Idle, Message
<1>2. Cardinality(clients) <= MaxClients
  BY FS_EmptySet, IpcAssumption DEF Init
<1>3. \A c \in Connections : Good(c)
  BY DEF Init, Good, Placed, Counted, Replied, Running, Pending, Idle
<1> QED BY <1>1, <1>2, <1>3 DEF Inv

-----------------------------------------------------------------------------
(* One connection                                                          *)

Local(c) == <<thread[c], envelope[c], reply[c], asked[c], ran[c], answered[c]>>

\* What is true of a connection stays so where neither it nor the loop moves.
LEMMA Elsewhere ==
  ASSUME NEW c, Good(c), UNCHANGED <<server, clients, at>>, UNCHANGED Local(c)
  PROVE  Good(c)'
<1>1. UNCHANGED <<thread[c], envelope[c], reply[c], asked[c], ran[c], answered[c]>>
  BY DEF Local
<1> QED BY <1>1 DEF Good, Placed, Counted, Replied

\* A step of one connection has to be looked at there only.
LEMMA OneConnection ==
  ASSUME Inv, NEW c \in Connections, UNCHANGED <<server, clients, at>>, Types',
         \A d \in Connections \ {c} : UNCHANGED Local(d),
         Good(c)'
  PROVE  Inv'
<1>1. Stopped' /\ Cardinality(clients') <= MaxClients
  BY DEF Inv, Stopped
<1>2. \A d \in Connections : Good(d)'
  <2>1. ASSUME NEW d \in Connections \ {c} PROVE Good(d)'
    BY <2>1, Elsewhere DEF Inv
  <2> QED BY <2>1
<1> QED BY <1>1, <1>2 DEF Inv

\* A thread that only goes from one point of its loop to another.
LEMMA GotoKeeps ==
  ASSUME Inv, NEW c \in Connections, NEW p, Goto(c, p),
         UNCHANGED <<server, clients, at, envelope, reply, asked, ran, answered>>,
         channel' \in Seq(Message), open' \in [Connections -> BOOLEAN],
         p \in {"none", "backlog", "refused", "joined"} \cup Running,
         Good(c)'
  PROVE  Inv'
<1>1. thread' \in [Connections -> {"none", "backlog", "refused", "joined"} \cup Running]
      /\ \A d \in Connections \ {c} : thread'[d] = thread[d]
  BY DEF Goto, Inv, Types
<1>2. Types'
  BY <1>1, Zenon DEF Inv, Types
<1>3. \A d \in Connections \ {c} : UNCHANGED Local(d)
  BY <1>1 DEF Local
<1> QED BY <1>2, <1>3, OneConnection

\* The steps of a thread in which nothing but its place changes.
LEMMA ThreadMovesKeep ==
  ASSUME Inv, NEW c \in Connections,
         \/ Connect(c) \/ ReadEnd(c) \/ Receive(c) \/ Expire(c) \/ StreamEnd(c)
         \/ Report(c) \/ Exit(c)
  PROVE  Inv'
<1>1. /\ Good(c) /\ Types
      /\ thread \in [Connections -> {"none", "backlog", "refused", "joined"} \cup Running]
  BY DEF Inv, Types
<1>2. PICK p : Goto(c, p)
      /\ UNCHANGED <<server, clients, at, envelope, reply, asked, ran, answered, open>>
      /\ \/ thread[c] = "none" /\ server = "up" /\ p = "backlog"
         \/ thread[c] \in {"reading", "streaming"} /\ p = "closing"
         \/ /\ thread[c] \in Pending /\ reply[c] # "none"
            /\ p = IF reply[c] = "sent" THEN "writing" ELSE "closing"
         \/ thread[c] = "waiting" /\ reply[c] = "none" /\ p = "expired"
         \/ thread[c] = "closing" /\ p = "reported"
         \/ thread[c] = "reported" /\ p = "exited"
  BY DEF Connect, ReadEnd, Receive, Expire, StreamEnd, Report, Exit, Pending
<1>3. thread'[c] = p
  BY <1>1, <1>2 DEF Goto
<1>4. p \in {"none", "backlog", "refused", "joined"} \cup Running
  BY <1>2 DEF Running
<1>5. channel' \in Seq(Message)
  <2>1. CASE Report(c)
    <3>1. [kind |-> "Finished", client |-> c] \in Message
      BY DEF Message
    <3> QED BY <1>1, <2>1, <3>1 DEF Report, Types
  <2>2. CASE ~Report(c)
    BY <1>1, <2>2 DEF Connect, ReadEnd, Receive, Expire, StreamEnd, Exit, Types
  <2> QED BY <2>1, <2>2
<1>6. open' \in [Connections -> BOOLEAN]
  BY <1>1, <1>2, Zenon DEF Types
<1>7. Placed(c)'
  BY <1>1, <1>2, <1>3 DEF Good, Placed, Running, Pending
<1>8. Counted(c)'
  BY <1>1, <1>2, <1>3 DEF Good, Counted, Replied, Pending
<1>9. Replied(c)'
  BY <1>1, <1>2, <1>3 DEF Good, Replied, Pending
<1>10. Good(c)'
  BY <1>7, <1>8, <1>9 DEF Good
<1>11. UNCHANGED <<server, clients, at, envelope, reply, asked, ran, answered>>
  BY <1>2
<1> QED BY <1>2, <1>4, <1>5, <1>6, <1>10, <1>11, GotoKeeps, Zenon

\* A client closes its end.
LEMMA CloseClientKeeps ==
  ASSUME Inv, NEW c \in Connections, CloseClient(c) PROVE Inv'
<1>1. Types'
  <2>1. open' \in [Connections -> BOOLEAN]
    BY DEF CloseClient, Inv, Types
  <2> QED BY <2>1, Zenon DEF CloseClient, Inv, Types
<1>2. \A d \in Connections : UNCHANGED Local(d)
  BY DEF CloseClient, Local
<1>3. UNCHANGED <<server, clients, at>>
  BY DEF CloseClient
<1>4. Good(c)'
  BY <1>2, <1>3, Elsewhere DEF Inv
<1> QED BY <1>1, <1>2, <1>3, <1>4, OneConnection

\* A request is sent, or the server has gone meanwhile.
LEMMA SendKeeps ==
  ASSUME Inv, NEW c \in Connections, Send(c) PROVE Inv'
<1>1. Good(c) /\ Types /\ thread[c] = "reading" /\ UNCHANGED <<server, clients, at, ran, answered, open>>
  BY DEF Inv, Send
<1>2. CASE server = "up"
  <2>1. /\ Goto(c, "waiting")
        /\ channel' = Append(channel, [kind |-> "Request", client |-> c])
        /\ envelope' = [envelope EXCEPT ![c] = "QUEUED"]
        /\ reply' = [reply EXCEPT ![c] = "none"]
        /\ asked' = [asked EXCEPT ![c] = @ + 1]
    BY <1>2, Zenon DEF Send
  <2>2. Types'
    <3>1. [kind |-> "Request", client |-> c] \in Message
      BY DEF Message
    <3>2. channel' \in Seq(Message)
      BY <1>1, <2>1, <3>1 DEF Types
    <3>3. /\ thread' \in [Connections -> {"none", "backlog", "refused", "joined"} \cup Running]
          /\ envelope' \in [Connections -> {"none", "QUEUED", "EXECUTING", "CANCELLED"}]
          /\ reply' \in [Connections -> {"none", "sent", "disconnected"}]
      BY <1>1, <2>1 DEF Types, Goto, Running
    <3>4. asked' \in [Connections -> Nat]
      BY <1>1, <2>1 DEF Types
    <3> QED BY <1>1, <3>2, <3>3, <3>4, Zenon DEF Types
  <2>3. /\ thread'[c] = "waiting" /\ envelope'[c] = "QUEUED" /\ reply'[c] = "none"
        /\ asked'[c] = asked[c] + 1
    BY <1>1, <2>1 DEF Types, Goto
  <2>4. \A d \in Connections \ {c} : UNCHANGED Local(d)
    BY <1>1, <2>1 DEF Types, Goto, Local
  <2>5. /\ ran[c] \in Nat /\ asked[c] \in Nat /\ answered[c] \in Nat
        /\ ran'[c] = ran[c] /\ answered'[c] = answered[c]
    BY <1>1 DEF Types
  <2>6. Counted(c)'
    BY <1>1, <2>3, <2>5 DEF Good, Counted, Pending
  <2>7. Placed(c)' /\ Replied(c)'
    BY <1>1, <2>3 DEF Good, Placed, Replied, Pending, Running
  <2> QED BY <1>1, <2>2, <2>4, <2>6, <2>7, OneConnection DEF Good
<1>3. CASE server # "up"
  <2>1. Goto(c, "closing") /\ UNCHANGED <<channel, envelope, reply, asked>>
    BY <1>3, Zenon DEF Send
  <2>2. thread'[c] = "closing"
    BY <1>1, <2>1 DEF Types, Goto
  <2>3. Good(c)'
    BY <1>1, <2>1, <2>2 DEF Good, Placed, Counted, Replied, Running, Pending
  <2> QED BY <1>1, <2>1, <2>3, GotoKeeps DEF Types, Running
<1> QED BY <1>2, <1>3

\* A request is taken back, or the thread waits for what executes.
LEMMA CancelKeeps ==
  ASSUME Inv, NEW c \in Connections, Cancel(c) PROVE Inv'
<1>1. /\ Good(c) /\ Types /\ thread[c] = "expired"
      /\ UNCHANGED <<server, clients, channel, at, reply, asked, ran, answered, open>>
  BY DEF Inv, Cancel
<1>2. CASE envelope[c] = "QUEUED"
  <2>1. Goto(c, "closing") /\ envelope' = [envelope EXCEPT ![c] = "CANCELLED"]
    BY <1>2, Zenon DEF Cancel
  <2>2. Types'
    <3>1. /\ thread' \in [Connections -> {"none", "backlog", "refused", "joined"} \cup Running]
          /\ envelope' \in [Connections -> {"none", "QUEUED", "EXECUTING", "CANCELLED"}]
      BY <1>1, <2>1 DEF Types, Goto, Running
    <3> QED BY <1>1, <3>1, Zenon DEF Types
  <2>3. thread'[c] = "closing" /\ envelope'[c] = "CANCELLED"
    BY <1>1, <2>1 DEF Types, Goto
  <2>4. \A d \in Connections \ {c} : UNCHANGED Local(d)
    BY <1>1, <2>1 DEF Types, Goto, Local
  <2>5. Good(c)'
    BY <1>1, <1>2, <2>3 DEF Good, Placed, Counted, Replied, Running, Pending
  <2> QED BY <1>1, <2>2, <2>4, <2>5, OneConnection
<1>3. CASE envelope[c] # "QUEUED"
  <2>1. Goto(c, "bound") /\ UNCHANGED envelope
    BY <1>3, Zenon DEF Cancel
  <2>2. thread'[c] = "bound"
    BY <1>1, <2>1 DEF Types, Goto
  <2>3. Good(c)'
    BY <1>1, <1>3, <2>1, <2>2 DEF Good, Placed, Counted, Replied, Running, Pending
  <2> QED BY <1>1, <2>1, <2>3, GotoKeeps DEF Types, Running
<1> QED BY <1>2, <1>3

\* A reply is written, or cannot be.
LEMMA WriteKeeps ==
  ASSUME Inv, NEW c \in Connections, Write(c) PROVE Inv'
<1>1. /\ Good(c) /\ Types /\ thread[c] = "writing"
      /\ UNCHANGED <<server, clients, channel, at, envelope, reply, asked, ran, open>>
  BY DEF Inv, Write
<1>2. ASSUME NEW p \in {"reading", "streaming"}, Goto(c, p),
             answered' = [answered EXCEPT ![c] = @ + 1]
      PROVE  Inv'
  <2>1. Types'
    <3>1. /\ thread' \in [Connections -> {"none", "backlog", "refused", "joined"} \cup Running]
          /\ answered' \in [Connections -> Nat]
      BY <1>1, <1>2 DEF Types, Goto, Running
    <3> QED BY <1>1, <3>1, Zenon DEF Types
  <2>2. thread'[c] = p /\ answered'[c] = answered[c] + 1 /\ answered[c] \in Nat /\ asked[c] \in Nat
    BY <1>1, <1>2 DEF Types, Goto
  <2>3. \A d \in Connections \ {c} : UNCHANGED Local(d)
    BY <1>1, <1>2 DEF Types, Goto, Local
  <2>4. Good(c)'
    BY <1>1, <2>2 DEF Good, Placed, Counted, Replied, Running, Pending
  <2> QED BY <1>1, <2>1, <2>3, <2>4, OneConnection
<1>3. CASE Goto(c, "closing") /\ UNCHANGED answered
  <2>1. thread'[c] = "closing"
    BY <1>1, <1>3 DEF Types, Goto
  <2>2. Good(c)'
    BY <1>1, <1>3, <2>1 DEF Good, Placed, Counted, Replied, Running, Pending
  <2> QED BY <1>1, <1>3, <2>2, GotoKeeps DEF Types, Running
<1> QED BY <1>2, <1>3, Zenon DEF Write

-----------------------------------------------------------------------------
(* The event loop                                                          *)

\* The smaller of two numbers is at most either.
LEMMA MinOfTwo ==
  ASSUME NEW a \in Int, NEW b \in Int
  PROVE  Min({a, b}) <= a /\ Min({a, b}) <= b
<1>1. \E x \in {a, b} : \A y \in {a, b} : x <= y
  OBVIOUS
<1> QED BY <1>1 DEF Min

\* The listener gives away no more places than there are.
LEMMA AcceptKeepsPlaces ==
  ASSUME Inv, NEW reaped \in SUBSET clients, NEW A \in SUBSET Connections, NEW n \in Int,
         Cardinality(A) = Min({MaxClients - Cardinality(clients \ reaped), n}),
         clients' = (clients \ reaped) \cup A
  PROVE  Cardinality(clients') <= MaxClients
<1> DEFINE kept == clients \ reaped
<1>1. IsFiniteSet(kept) /\ IsFiniteSet(A)
  BY FS_Subset, IpcAssumption DEF Inv, Types
<1>2. Cardinality(kept) \in Nat /\ Cardinality(A) \in Nat /\ Cardinality(kept \cap A) \in Nat
  BY <1>1, FS_CardinalityType, FS_Subset
<1>3. Cardinality(A) <= MaxClients - Cardinality(kept)
  BY <1>2, MinOfTwo, IpcAssumption
<1>4. Cardinality(kept \cup A) = Cardinality(kept) + Cardinality(A) - Cardinality(kept \cap A)
  BY <1>1, FS_Union
<1> QED BY <1>2, <1>3, <1>4, IpcAssumption

\* Connections are accepted and refused, and threads that ended are joined.
LEMMA AcceptKeeps == ASSUME Inv, Accept PROVE Inv'
<1> DEFINE reaped == {c \in clients : thread[c] = "exited"}
           room == MaxClients - Cardinality(clients \ reaped)
<1>1. PICK S \in SUBSET Backlog : \E F \in SUBSET S : \E A \in SUBSET (S \ F) :
        /\ Cardinality(S) = Min({MaxClients, Cardinality(Backlog)})
        /\ Cardinality(A) = Min({room, Cardinality(S \ F)})
        /\ clients' = (clients \ reaped) \cup A
        /\ thread' = [c \in Connections |->
                        IF c \in reaped THEN "joined" ELSE IF c \in A THEN "reading"
                        ELSE IF c \in S THEN "refused" ELSE thread[c]]
  BY Zenon DEF Accept
<1>2. PICK F \in SUBSET S : \E A \in SUBSET (S \ F) :
        /\ Cardinality(A) = Min({room, Cardinality(S \ F)})
        /\ clients' = (clients \ reaped) \cup A
        /\ thread' = [c \in Connections |->
                        IF c \in reaped THEN "joined" ELSE IF c \in A THEN "reading"
                        ELSE IF c \in S THEN "refused" ELSE thread[c]]
  BY <1>1, Zenon
<1>3. PICK A \in SUBSET (S \ F) :
        /\ Cardinality(A) = Min({room, Cardinality(S \ F)})
        /\ clients' = (clients \ reaped) \cup A
        /\ thread' = [c \in Connections |->
                        IF c \in reaped THEN "joined" ELSE IF c \in A THEN "reading"
                        ELSE IF c \in S THEN "refused" ELSE thread[c]]
  BY <1>2, Zenon
<1>4. /\ server = "up" /\ at = Idle /\ Types
      /\ UNCHANGED <<server, channel, at, envelope, reply, asked, ran, answered, open>>
  BY DEF Accept, Ready, Inv
<1>5. S \subseteq Connections /\ \A c \in S : thread[c] = "backlog"
  BY DEF Backlog
<1>6. Types'
  <2>1. clients' \in SUBSET Connections
    BY <1>3, <1>4, <1>5 DEF Types
  <2>2. thread' \in [Connections -> {"none", "backlog", "refused", "joined"} \cup Running]
    <3>1. thread \in [Connections -> {"none", "backlog", "refused", "joined"} \cup Running]
      BY <1>4 DEF Types
    <3> QED BY <1>3, <3>1 DEF Running
  <2> QED BY <1>4, <2>1, <2>2, Zenon DEF Types
<1>7. Stopped'
  BY <1>4 DEF Inv, Stopped, Idle
<1>8. Cardinality(clients') <= MaxClients
  <2>1. IsFiniteSet(S \ F)
    BY <1>5, FS_Subset, IpcAssumption
  <2>2. Cardinality(S \ F) \in Int
    BY <2>1, FS_CardinalityType
  <2>3. reaped \in SUBSET clients /\ A \in SUBSET Connections
    BY <1>3, <1>5
  <2> QED BY <1>3, <2>2, <2>3, AcceptKeepsPlaces
<1>9. ASSUME NEW c \in Connections PROVE Good(c)'
  <2>1. Good(c)
    BY DEF Inv
  <2>2. thread'[c] = IF c \in reaped THEN "joined" ELSE IF c \in A THEN "reading"
                     ELSE IF c \in S THEN "refused" ELSE thread[c]
    BY <1>3
  <2>3. A \subseteq S /\ clients' = (clients \ reaped) \cup A
    BY <1>3
  <2>4. c \in S => thread[c] = "backlog"
    BY <1>5
  <2> HIDE DEF room
  <2>5. Placed(c)'
    BY <1>4, <2>1, <2>2, <2>3 DEF Good, Placed, Running, Idle
  <2>6. Counted(c)'
    BY <1>4, <2>1, <2>2, <2>3, <2>4 DEF Good, Counted, Pending
  <2>7. Replied(c)'
    BY <1>4, <2>1, <2>2, <2>3, <2>4 DEF Good, Replied, Pending, Idle
  <2> QED BY <2>5, <2>6, <2>7 DEF Good
<1> QED BY <1>6, <1>7, <1>8, <1>9, Zenon DEF Inv

\* What is first in the channel is a message, and so is the rest.
LEMMA FirstMessage ==
  ASSUME Inv, channel # <<>>
  PROVE  Head(channel).client \in Connections /\ Tail(channel) \in Seq(Message)
<1>1. channel \in Seq(Message)
  BY DEF Inv, Types
<1>2. Head(channel) \in Message /\ Tail(channel) \in Seq(Message)
  BY <1>1
<1> QED BY <1>2 DEF Message

\* A request is run, or dropped because it was cancelled.
LEMMA TakeRequestKeeps == ASSUME Inv, TakeRequest PROVE Inv'
<1> DEFINE c == Head(channel).client
<1>1. /\ server = "up" /\ at = Idle /\ Types /\ channel # <<>>
      /\ channel' = Tail(channel)
      /\ UNCHANGED <<server, clients, thread, reply, asked, answered, open>>
  BY DEF TakeRequest, Ready, Inv
<1>2. c \in Connections /\ channel' \in Seq(Message)
  BY <1>1, FirstMessage
<1>3. CASE envelope[c] = "QUEUED"
  <2>1. /\ at' = [op |-> "execute", client |-> c]
        /\ envelope' = [envelope EXCEPT ![c] = "EXECUTING"]
        /\ ran' = [ran EXCEPT ![c] = @ + 1]
    BY <1>3, Zenon DEF TakeRequest
  <2> HIDE DEF c
  <2>2. Types'
    <3>1. at' \in [op : {"idle", "execute", "join"}, client : Connections \cup {NoConnection}]
      BY <1>2, <2>1
    <3>2. /\ envelope' \in [Connections -> {"none", "QUEUED", "EXECUTING", "CANCELLED"}]
          /\ ran' \in [Connections -> Nat]
      BY <1>1, <1>2, <2>1 DEF Types
    <3> QED BY <1>1, <1>2, <3>1, <3>2, Zenon DEF Types
  <2>3. Stopped' /\ Cardinality(clients') <= MaxClients
    BY <1>1, <1>2, <2>1 DEF Inv, Stopped
  <2>4. ASSUME NEW d \in Connections PROVE Good(d)'
    <3>1. Good(d) /\ thread'[d] = thread[d] /\ reply'[d] = reply[d] /\ asked'[d] = asked[d]
          /\ answered'[d] = answered[d]
      BY <1>1 DEF Inv
    <3>2. Placed(d)'
      BY <1>1, <3>1 DEF Good, Placed, Idle
    <3>3. ran[d] \in Nat /\ asked[d] \in Nat
      BY <1>1 DEF Types
    <3>4. CASE d = c
      <4>1. envelope'[d] = "EXECUTING" /\ ran'[d] = ran[d] + 1
        BY <1>1, <2>1, <3>4 DEF Types
      <4>2. ran[d] = asked[d] - 1 /\ thread[d] \in {"waiting", "expired"} /\ reply[d] = "none"
        BY <1>1, <1>3, <3>1, <3>4 DEF Good, Counted, Replied
      <4>3. Counted(d)'
        BY <3>1, <3>3, <4>1, <4>2 DEF Good, Counted, Pending
      <4>4. Replied(d)'
        BY <3>1, <4>1, <4>2 DEF Replied, Pending
      <4> QED BY <3>2, <4>3, <4>4 DEF Good
    <3>5. CASE d # c
      <4>1. envelope'[d] = envelope[d] /\ ran'[d] = ran[d]
        BY <1>1, <2>1, <3>5 DEF Types
      <4>2. at' # [op |-> "execute", client |-> d]
        BY <2>1, <3>5
      <4> QED BY <1>1, <3>1, <3>2, <4>1, <4>2 DEF Good, Counted, Replied
    <3> QED BY <3>4, <3>5
  <2> QED BY <2>2, <2>3, <2>4, Zenon DEF Inv
<1>4. CASE envelope[c] # "QUEUED"
  <2>1. UNCHANGED <<at, envelope, ran>>
    BY <1>4, Zenon DEF TakeRequest
  <2> HIDE DEF c
  <2>2. Types'
    BY <1>1, <1>2, <2>1, Zenon DEF Types
  <2>3. \A d \in Connections : UNCHANGED Local(d)
    BY <1>1, <2>1 DEF Local
  <2>4. UNCHANGED <<server, clients, at>>
    BY <1>1, <2>1
  <2>5. \A d \in Connections : Good(d)'
    BY <2>3, <2>4, Elsewhere DEF Inv
  <2> QED BY <1>1, <2>2, <2>4, <2>5 DEF Inv, Stopped
<1> QED BY <1>3, <1>4

\* The reply of the request that was run goes to its thread, which still waits.
LEMMA SendReplyKeeps == ASSUME Inv, SendReply PROVE Inv'
<1>1. /\ at.op = "execute" /\ at' = Idle /\ Types
      /\ reply' = [reply EXCEPT ![at.client] = "sent"]
      /\ UNCHANGED <<server, clients, channel, thread, envelope, asked, ran, answered, open>>
  BY DEF Inv, SendReply
<1>2. PICK c \in Connections : at = [op |-> "execute", client |-> c]
  BY <1>1 DEF Inv, Types, Stopped
<1>3. Types'
  <2>1. at' \in [op : {"idle", "execute", "join"}, client : Connections \cup {NoConnection}]
    BY <1>1 DEF Idle
  <2>2. reply' \in [Connections -> {"none", "sent", "disconnected"}]
    BY <1>1 DEF Types
  <2> QED BY <1>1, <2>1, <2>2, Zenon DEF Types
<1>4. Stopped' /\ Cardinality(clients') <= MaxClients
  BY <1>1 DEF Inv, Stopped, Idle
<1>5. ASSUME NEW d \in Connections PROVE Good(d)'
  <2>1. Good(d) /\ at' = Idle
        /\ UNCHANGED <<server, clients, thread[d], envelope[d], asked[d], ran[d], answered[d]>>
    BY <1>1 DEF Inv
  <2>2. Placed(d)' /\ Counted(d)'
    BY <1>2, <2>1 DEF Good, Placed, Counted
  <2>3. CASE d = c
    <3>1. envelope[d] = "EXECUTING" /\ at' # [op |-> "execute", client |-> d]
      BY <1>2, <2>1, <2>3 DEF Good, Replied, Idle
    <3> QED BY <2>1, <2>2, <3>1 DEF Good, Replied
  <2>4. CASE d # c
    <3>1. reply'[d] = reply[d]
      BY <1>1, <1>2, <2>4 DEF Types
    <3> QED BY <2>1, <2>2, <3>1 DEF Good, Replied, Idle
  <2> QED BY <2>3, <2>4
<1> QED BY <1>3, <1>4, <1>5, Zenon DEF Inv

\* A thread that reported its end gives its place back and is waited for.
LEMMA TakeFinishedKeeps == ASSUME Inv, TakeFinished PROVE Inv'
<1> DEFINE c == Head(channel).client
<1>1. /\ server = "up" /\ at = Idle /\ Types /\ channel # <<>>
      /\ channel' = Tail(channel)
      /\ clients' = clients \ {c}
      /\ at' = IF c \in clients THEN [op |-> "join", client |-> c] ELSE Idle
      /\ UNCHANGED <<server, thread, envelope, reply, asked, ran, answered, open>>
  BY DEF TakeFinished, Ready, Inv
<1>2. c \in Connections /\ channel' \in Seq(Message)
  BY <1>1, FirstMessage
<1> HIDE DEF c
<1>3. Types'
  <2>1. /\ at' \in [op : {"idle", "execute", "join"}, client : Connections \cup {NoConnection}]
        /\ clients' \in SUBSET Connections
    BY <1>1, <1>2 DEF Idle, Types
  <2> QED BY <1>1, <1>2, <2>1, Zenon DEF Types
<1>4. Stopped'
  BY <1>1, <1>2 DEF Stopped, Idle
<1>5. Cardinality(clients') <= MaxClients
  <2>1. IsFiniteSet(clients)
    BY <1>1, FS_Subset, IpcAssumption DEF Types
  <2>2. /\ Cardinality(clients') <= Cardinality(clients)
        /\ Cardinality(clients') \in Nat /\ Cardinality(clients) \in Nat
    BY <1>1, <2>1, FS_Subset, FS_CardinalityType
  <2> QED BY <2>2, IpcAssumption DEF Inv
<1>6. ASSUME NEW d \in Connections PROVE Good(d)'
  <2>1. Good(d)
        /\ UNCHANGED <<server, thread[d], envelope[d], reply[d], asked[d], ran[d], answered[d]>>
    BY <1>1 DEF Inv
  <2>2. Placed(d)'
    BY <1>1, <2>1 DEF Good, Placed, Idle
  <2>3. at' # [op |-> "execute", client |-> d]
    BY <1>1 DEF Idle
  <2> QED BY <2>1, <2>2, <2>3 DEF Good, Counted, Replied
<1> QED BY <1>3, <1>4, <1>5, <1>6, Zenon DEF Inv

\* The thread that was waited for has ended.
LEMMA JoinKeeps == ASSUME Inv, Join PROVE Inv'
<1>1. /\ at.op = "join" /\ at' = Idle /\ Types
      /\ thread' = [thread EXCEPT ![at.client] = "joined"]
      /\ UNCHANGED <<server, clients, channel, envelope, reply, asked, ran, answered, open>>
  BY DEF Inv, Join
<1>2. PICK c \in Connections : at = [op |-> "join", client |-> c]
  BY <1>1 DEF Inv, Types, Stopped
<1>3. Types'
  <2>1. at' \in [op : {"idle", "execute", "join"}, client : Connections \cup {NoConnection}]
    BY <1>1 DEF Idle
  <2>2. thread' \in [Connections -> {"none", "backlog", "refused", "joined"} \cup Running]
    BY <1>1 DEF Types
  <2> QED BY <1>1, <2>1, <2>2, Zenon DEF Types
<1>4. Stopped' /\ Cardinality(clients') <= MaxClients
  BY <1>1 DEF Inv, Stopped, Idle
<1>5. ASSUME NEW d \in Connections PROVE Good(d)'
  <2>1. Good(d) /\ at' = Idle
        /\ UNCHANGED <<server, clients, envelope[d], reply[d], asked[d], ran[d], answered[d]>>
    BY <1>1 DEF Inv
  <2>2. thread'[d] = IF d = c THEN "joined" ELSE thread[d]
    BY <1>1, <1>2 DEF Types
  <2>3. c = d => thread[d] = "exited"
    BY <1>2 DEF Join
  <2>4. Placed(d)'
    BY <1>2, <2>1, <2>2 DEF Good, Placed, Running
  <2>5. Counted(d)'
    BY <2>1, <2>2 DEF Good, Counted, Pending
  <2>6. Replied(d)'
    BY <2>1, <2>2, <2>3 DEF Good, Replied, Pending, Idle
  <2> QED BY <2>4, <2>5, <2>6 DEF Good
<1> QED BY <1>3, <1>4, <1>5, Zenon DEF Inv

-----------------------------------------------------------------------------
(* The drop of the server                                                  *)

\* Envelopes that are still queued lose their sender, and nobody takes them any more.
LEMMA RemoveSourcesKeeps == ASSUME Inv, RemoveSources PROVE Inv'
<1>1. /\ server = "up" /\ at = Idle /\ Types /\ server' = "removed" /\ channel' = <<>>
      /\ thread' = [c \in Connections |-> IF c \in Backlog THEN "refused" ELSE thread[c]]
      /\ reply' = [c \in Connections |->
                     IF \E i \in DOMAIN channel :
                          channel[i] = [kind |-> "Request", client |-> c]
                     THEN "disconnected" ELSE reply[c]]
      /\ UNCHANGED <<clients, at, envelope, asked, ran, answered, open>>
  BY DEF Inv, RemoveSources, Ready
<1>2. ASSUME NEW d \in Connections
      PROVE  /\ thread'[d] = IF thread[d] = "backlog" THEN "refused" ELSE thread[d]
             /\ reply'[d] \in {reply[d], "disconnected"}
  BY <1>1 DEF Backlog
<1>3. Types'
  <2>1. thread' \in [Connections -> {"none", "backlog", "refused", "joined"} \cup Running]
    BY <1>1 DEF Types
  <2>2. reply' \in [Connections -> {"none", "sent", "disconnected"}]
    <3>1. \A d \in Connections : reply'[d] \in {"none", "sent", "disconnected"}
      BY <1>1, <1>2 DEF Types
    <3>2. reply' = [d \in Connections |-> reply'[d]]
      BY <1>1
    <3> QED BY <3>1, <3>2
  <2>3. channel' \in Seq(Message)
    BY <1>1
  <2>4. server' \in {"up", "removed", "shut", "gone"}
    BY <1>1
  <2> QED BY <1>1, <2>1, <2>2, <2>3, <2>4, Zenon DEF Types
<1>4. Stopped' /\ Cardinality(clients') <= MaxClients
  BY <1>1 DEF Inv, Stopped, Idle
<1>5. ASSUME NEW d \in Connections PROVE Good(d)'
  <2>1. Good(d)
        /\ UNCHANGED <<clients, at, envelope[d], asked[d], ran[d], answered[d]>>
    BY <1>1 DEF Inv
  <2>2. Placed(d)' /\ Counted(d)'
    BY <1>2, <2>1 DEF Good, Placed, Counted, Running, Pending
  <2>3. Replied(d)'
    BY <1>1, <1>2, <2>1 DEF Good, Replied, Idle, Pending
  <2> QED BY <2>2, <2>3 DEF Good
<1> QED BY <1>3, <1>4, <1>5, Zenon DEF Inv

\* The sockets are shut down.
LEMMA ShutSocketsKeeps == ASSUME Inv, ShutSockets PROVE Inv'
<1>1. /\ server = "removed" /\ server' = "shut" /\ Types
      /\ open' = [c \in Connections |-> open[c] /\ c \notin clients]
      /\ UNCHANGED <<clients, channel, at, thread, envelope, reply, asked, ran, answered>>
  BY DEF Inv, ShutSockets
<1>2. Types'
  <2>1. open' \in [Connections -> BOOLEAN]
    BY <1>1
  <2>2. server' \in {"up", "removed", "shut", "gone"}
    BY <1>1
  <2> QED BY <1>1, <2>1, <2>2, Zenon DEF Types
<1>3. Stopped' /\ Cardinality(clients') <= MaxClients
  BY <1>1 DEF Inv, Stopped
<1>4. ASSUME NEW d \in Connections PROVE Good(d)'
  BY <1>1 DEF Inv, Good, Placed, Counted, Replied
<1> QED BY <1>2, <1>3, <1>4, Zenon DEF Inv

\* A thread that has ended is joined, or all have been.
LEMMA JoinRemainingKeeps == ASSUME Inv, JoinRemaining PROVE Inv'
<1>1. /\ server = "shut" /\ Types
      /\ UNCHANGED <<channel, at, envelope, reply, asked, ran, answered, open>>
  BY DEF Inv, JoinRemaining
<1>2. CASE clients = {}
  <2>1. server' = "gone" /\ UNCHANGED <<clients, thread>>
    BY <1>2, Zenon DEF JoinRemaining
  <2>2. Types'
    <3>1. server' \in {"up", "removed", "shut", "gone"}
      BY <2>1
    <3> QED BY <1>1, <2>1, <3>1, Zenon DEF Types
  <2>3. Stopped' /\ Cardinality(clients') <= MaxClients
    BY <1>1, <1>2, <2>1 DEF Inv, Stopped
  <2>4. ASSUME NEW d \in Connections PROVE Good(d)'
    BY <1>1, <2>1 DEF Inv, Good, Placed, Counted, Replied
  <2> QED BY <2>2, <2>3, <2>4, Zenon DEF Inv
<1>3. CASE clients # {}
  <2>1. PICK c \in clients : /\ thread[c] = "exited"
                             /\ clients' = clients \ {c}
                             /\ thread' = [thread EXCEPT ![c] = "joined"]
                             /\ UNCHANGED server
    BY <1>3, Zenon DEF JoinRemaining
  <2>2. Types'
    <3>1. /\ clients' \in SUBSET Connections
          /\ thread' \in [Connections -> {"none", "backlog", "refused", "joined"} \cup Running]
      BY <1>1, <2>1 DEF Types
    <3> QED BY <1>1, <2>1, <3>1, Zenon DEF Types
  <2>3. Stopped'
    BY <1>1, <2>1 DEF Inv, Stopped
  <2>4. Cardinality(clients') <= MaxClients
    <3>1. IsFiniteSet(clients)
      BY <1>1, FS_Subset, IpcAssumption DEF Types
    <3>2. /\ Cardinality(clients') <= Cardinality(clients)
          /\ Cardinality(clients') \in Nat /\ Cardinality(clients) \in Nat
      BY <2>1, <3>1, FS_Subset, FS_CardinalityType
    <3> QED BY <3>2, IpcAssumption DEF Inv
  <2>5. ASSUME NEW d \in Connections PROVE Good(d)'
    <3>1. Good(d)
          /\ UNCHANGED <<server, at, envelope[d], reply[d], asked[d], ran[d], answered[d]>>
      BY <1>1, <2>1 DEF Inv
    <3>2. thread'[d] = IF d = c THEN "joined" ELSE thread[d]
      BY <1>1, <2>1 DEF Types
    <3>3. at = Idle
      BY <1>1 DEF Inv, Stopped
    <3>4. Placed(d)'
      BY <2>1, <3>1, <3>2 DEF Good, Placed, Running
    <3>5. Counted(d)'
      BY <3>1, <3>2 DEF Good, Counted, Pending
    <3>6. Replied(d)'
      BY <1>1, <3>1, <3>2, <3>3 DEF Good, Replied, Pending, Idle
    <3> QED BY <3>4, <3>5, <3>6 DEF Good
  <2> QED BY <1>1, <2>2, <2>3, <2>4, <2>5, Zenon DEF Inv
<1> QED BY <1>2, <1>3

-----------------------------------------------------------------------------
(* The theorems                                                            *)

\* The invariant holds always.
LEMMA Invariant == Spec => []Inv
<1>1. Inv /\ [Next]_vars => Inv'
  <2> SUFFICES ASSUME Inv, [Next]_vars PROVE Inv'
    OBVIOUS
  <2>1. CASE Accept \/ TakeRequest \/ SendReply \/ TakeFinished \/ Join
    BY <2>1, AcceptKeeps, TakeRequestKeeps, SendReplyKeeps, TakeFinishedKeeps, JoinKeeps
  <2>2. CASE RemoveSources \/ ShutSockets \/ JoinRemaining
    BY <2>2, RemoveSourcesKeeps, ShutSocketsKeeps, JoinRemainingKeeps
  <2>3. ASSUME NEW c \in Connections,
               \/ Connect(c) \/ CloseClient(c) \/ Send(c) \/ Expire(c) \/ Thread(c)
        PROVE  Inv'
    BY <2>3, ThreadMovesKeep, CloseClientKeeps, SendKeeps, CancelKeeps, WriteKeeps, Zenon
       DEF Thread
  <2>4. CASE UNCHANGED vars
    <3>1. Types' /\ Stopped' /\ Cardinality(clients') <= MaxClients
      BY <2>4 DEF vars, Inv, Types, Stopped
    <3>2. \A d \in Connections : Good(d)'
      BY <2>4 DEF vars, Inv, Good, Placed, Counted, Replied
    <3> QED BY <3>1, <3>2 DEF Inv
  <2> QED BY <2>1, <2>2, <2>3, <2>4, Zenon DEF Next
<1> QED BY <1>1, InitInv, PTL DEF Spec

\* A request that its thread gave up has not been run and never will be, and a thread that
\* is ready for the next request has seen every earlier one run once and answered.
THEOREM AnswersAreTrue == Spec => []RanAsTold
<1>1. Inv => RanAsTold
  BY DEF Inv, Good, Counted, RanAsTold
<1> QED BY <1>1, Invariant, PTL

\* No thread runs without a place or somebody who waits for its end, there are no more
\* places than MaxClients, and a server that is gone has left no thread.
THEOREM NoThreadLeft == Spec => []ThreadsAccounted
<1>1. Inv => ThreadsAccounted
  <2> SUFFICES ASSUME Inv PROVE ThreadsAccounted
    OBVIOUS
  <2>1. TypeOK
    BY Zenon DEF Inv, Types, TypeOK, Message
  <2>2. \A c \in Connections :
          thread[c] \in Running => c \in clients \/ at = [op |-> "join", client |-> c]
    BY DEF Inv, Good, Placed
  <2>3. server = "gone" => \A c \in Connections : thread[c] \notin Running
    BY <2>2 DEF Inv, Stopped, Idle
  <2> QED BY <2>1, <2>2, <2>3, Zenon DEF ThreadsAccounted
<1> QED BY <1>1, Invariant, PTL
=============================================================================

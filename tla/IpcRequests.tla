----------------------------- MODULE IpcRequests -----------------------------
(***************************************************************************)
(* ipc.rs: the desktop IPC server. The event loop accepts connections and  *)
(* gives each a thread; the thread reads a request, hands it to the loop   *)
(* through a channel and waits, at most two seconds while the request is   *)
(* still queued, for its result. Threads report when they finish and are   *)
(* joined by the loop. Dropping the server stops all of it.                *)
(*                                                                         *)
(* What a request does is left out: it is run, and it has a result.        *)
(***************************************************************************)
EXTENDS Integers, FiniteSets, Sequences, FiniteSetsExt

CONSTANTS Connections, NoConnection,
          MaxClients,   \* MAX_CLIENTS, 16 in the program
          MaxRequests   \* bound on the requests of all connections together

ASSUME IpcAssumption ==
  /\ IsFiniteSet(Connections) /\ NoConnection \notin Connections
  /\ MaxClients \in Nat \ {0} /\ MaxRequests \in Nat \ {0}

VARIABLES
  server,    \* up, then the steps of its drop
  clients,   \* IpcServer.clients
  channel,   \* IpcMessage::Request and IpcMessage::Finished, in order
  at,        \* the handler the loop is in the middle of
  thread,    \* where the thread of a connection is
  envelope,  \* Envelope.state of its last request
  reply,     \* its response channel holds the reply, or lost its sender
  asked, ran, answered,  \* how many of its requests were sent, run, answered
  open       \* the client has not closed its end, nor the drop shut it down

vars == <<server, clients, channel, at, thread, envelope, reply, asked, ran, answered, open>>

Idle == [op |-> "idle", client |-> NoConnection]
Running == {"reading", "waiting", "expired", "bound", "writing", "streaming", "closing",
            "reported", "exited"}

TypeOK ==
  /\ server \in {"up", "removed", "shut", "gone"}
  /\ clients \in SUBSET Connections /\ Cardinality(clients) <= MaxClients
  /\ channel \in Seq([kind : {"Request", "Finished"}, client : Connections])
  /\ at \in [op : {"idle", "execute", "join"}, client : Connections \cup {NoConnection}]
  /\ thread \in [Connections -> {"none", "backlog", "refused", "joined"} \cup Running]
  /\ envelope \in [Connections -> {"none", "QUEUED", "EXECUTING", "CANCELLED"}]
  /\ reply \in [Connections -> {"none", "sent", "disconnected"}]
  /\ asked \in [Connections -> Nat] /\ ran \in [Connections -> Nat]
  /\ answered \in [Connections -> Nat]
  /\ open \in [Connections -> BOOLEAN]

Init ==
  /\ server = "up" /\ clients = {} /\ channel = <<>> /\ at = Idle
  /\ thread = [c \in Connections |-> "none"] /\ envelope = [c \in Connections |-> "none"]
  /\ reply = [c \in Connections |-> "none"]
  /\ asked = [c \in Connections |-> 0] /\ ran = [c \in Connections |-> 0]
  /\ answered = [c \in Connections |-> 0]
  /\ open = [c \in Connections |-> TRUE]

-----------------------------------------------------------------------------
(* The event loop                                                          *)

Ready == server = "up" /\ at = Idle

Backlog == {c \in Connections : thread[c] = "backlog"}

\* The listener: threads that have ended are joined, then up to MaxClients
\* connections S are taken; A of them get a thread, the ones in F fail to be set
\* up, and for the others there is no room.
Accept ==
  /\ Ready /\ Backlog # {}
  /\ LET reaped == {c \in clients : thread[c] = "exited"}
         room   == MaxClients - Cardinality(clients \ reaped)
     IN \E S \in SUBSET Backlog : \E F \in SUBSET S : \E A \in SUBSET (S \ F) :
          /\ Cardinality(S) = Min({MaxClients, Cardinality(Backlog)})
          /\ Cardinality(A) = Min({room, Cardinality(S \ F)})
          /\ clients' = (clients \ reaped) \cup A
          /\ thread' = [c \in Connections |->
                          IF c \in reaped THEN "joined" ELSE IF c \in A THEN "reading"
                          ELSE IF c \in S THEN "refused" ELSE thread[c]]
  /\ UNCHANGED <<server, channel, at, envelope, reply, asked, ran, answered, open>>

\* A request that was cancelled in the channel is dropped, any other one runs.
TakeRequest ==
  /\ Ready /\ channel # <<>> /\ Head(channel).kind = "Request"
  /\ channel' = Tail(channel)
  /\ LET c == Head(channel).client
     IN IF envelope[c] = "QUEUED"
        THEN /\ at' = [op |-> "execute", client |-> c]
             /\ envelope' = [envelope EXCEPT ![c] = "EXECUTING"]
             /\ ran' = [ran EXCEPT ![c] = @ + 1]
        ELSE UNCHANGED <<at, envelope, ran>>
  /\ UNCHANGED <<server, clients, thread, reply, asked, answered, open>>

\* A faulty variant of SendReply: a thread that has timed out gets none.
SendReplyInTime ==
  /\ at.op = "execute"
  /\ reply' = [reply EXCEPT ![at.client] = IF thread[at.client] = "waiting" THEN "sent" ELSE @]
  /\ at' = Idle
  /\ UNCHANGED <<server, clients, channel, thread, envelope, asked, ran, answered, open>>

\* The result goes into the response channel of the request.
SendReply ==
  /\ at.op = "execute"
  /\ reply' = [reply EXCEPT ![at.client] = "sent"]
  /\ at' = Idle
  /\ UNCHANGED <<server, clients, channel, thread, envelope, asked, ran, answered, open>>

\* A faulty variant of TakeFinished: the thread is left to itself.
TakeFinishedDetached ==
  /\ Ready /\ channel # <<>> /\ Head(channel).kind = "Finished"
  /\ channel' = Tail(channel)
  /\ clients' = clients \ {Head(channel).client}
  /\ UNCHANGED <<server, at, thread, envelope, reply, asked, ran, answered, open>>

\* IpcMessage::Finished: the thread is joined unless the listener did it.
TakeFinished ==
  /\ Ready /\ channel # <<>> /\ Head(channel).kind = "Finished"
  /\ channel' = Tail(channel)
  /\ LET c == Head(channel).client
     IN /\ clients' = clients \ {c}
        /\ at' = IF c \in clients THEN [op |-> "join", client |-> c] ELSE Idle
  /\ UNCHANGED <<server, thread, envelope, reply, asked, ran, answered, open>>

\* JoinHandle::join() returns once the thread has ended.
Join ==
  /\ at.op = "join" /\ thread[at.client] = "exited"
  /\ thread' = [thread EXCEPT ![at.client] = "joined"]
  /\ at' = Idle
  /\ UNCHANGED <<server, clients, channel, envelope, reply, asked, ran, answered, open>>

-----------------------------------------------------------------------------
(* Dropping the server                                                     *)

\* The listener and the receiver go; queued envelopes lose their sender.
RemoveSources ==
  /\ Ready /\ server' = "removed"
  /\ channel' = <<>>
  /\ thread' = [c \in Connections |-> IF c \in Backlog THEN "refused" ELSE thread[c]]
  /\ reply' = [c \in Connections |->
                 IF \E i \in DOMAIN channel :
                      channel[i] = [kind |-> "Request", client |-> c]
                 THEN "disconnected" ELSE reply[c]]
  /\ UNCHANGED <<clients, at, envelope, asked, ran, answered, open>>

\* A faulty variant of ShutSockets: the threads are joined as they are.
ShutNoSockets ==
  /\ server = "removed" /\ server' = "shut"
  /\ UNCHANGED <<clients, channel, at, thread, envelope, reply, asked, ran, answered, open>>

\* Every client's socket is shut down, in both directions.
ShutSockets ==
  /\ server = "removed" /\ server' = "shut"
  /\ open' = [c \in Connections |-> open[c] /\ c \notin clients]
  /\ UNCHANGED <<clients, channel, at, thread, envelope, reply, asked, ran, answered>>

\* The threads are joined, one after the other.
JoinRemaining ==
  /\ server = "shut"
  /\ IF clients = {} THEN server' = "gone" /\ UNCHANGED <<clients, thread>>
     ELSE \E c \in clients :
            /\ thread[c] = "exited"
            /\ clients' = clients \ {c} /\ thread' = [thread EXCEPT ![c] = "joined"]
            /\ UNCHANGED server
  /\ UNCHANGED <<channel, at, envelope, reply, asked, ran, answered, open>>

-----------------------------------------------------------------------------
(* A client and its thread, serve_connection()                             *)

Requests == MapThenSumSet(LAMBDA c : asked[c], Connections)

Goto(c, p) == thread' = [thread EXCEPT ![c] = p]

Connect(c) ==
  /\ thread[c] = "none" /\ server = "up" /\ Goto(c, "backlog")
  /\ UNCHANGED <<server, clients, channel, at, envelope, reply, asked, ran, answered, open>>

CloseClient(c) ==
  /\ open[c] /\ open' = [open EXCEPT ![c] = FALSE]
  /\ UNCHANGED <<server, clients, channel, at, thread, envelope, reply, asked, ran, answered>>

\* A faulty variant of Send: one response channel serves the whole connection.
SendOnOneChannel(c) ==
  /\ thread[c] = "reading" /\ Requests < MaxRequests
  /\ IF server = "up"
     THEN /\ Goto(c, "waiting")
          /\ channel' = Append(channel, [kind |-> "Request", client |-> c])
          /\ envelope' = [envelope EXCEPT ![c] = "QUEUED"]
          /\ asked' = [asked EXCEPT ![c] = @ + 1]
     ELSE Goto(c, "closing") /\ UNCHANGED <<channel, envelope, asked>>
  /\ UNCHANGED <<server, clients, at, reply, ran, answered, open>>

\* A line is read, although the client may have closed since it wrote it, and
\* queued with a response channel of its own.
Send(c) ==
  /\ thread[c] = "reading" /\ Requests < MaxRequests
  /\ IF server = "up"
     THEN /\ Goto(c, "waiting")
          /\ channel' = Append(channel, [kind |-> "Request", client |-> c])
          /\ envelope' = [envelope EXCEPT ![c] = "QUEUED"]
          /\ reply' = [reply EXCEPT ![c] = "none"]
          /\ asked' = [asked EXCEPT ![c] = @ + 1]
     ELSE Goto(c, "closing") /\ UNCHANGED <<channel, envelope, reply, asked>>
  /\ UNCHANGED <<server, clients, at, ran, answered, open>>

\* End of file.
ReadEnd(c) ==
  /\ thread[c] = "reading" /\ ~open[c] /\ Goto(c, "closing")
  /\ UNCHANGED <<server, clients, channel, at, envelope, reply, asked, ran, answered, open>>

\* recv_timeout() and, for a request that was executing by then, recv().
Receive(c) ==
  /\ thread[c] \in {"waiting", "bound"} /\ reply[c] # "none"
  /\ Goto(c, IF reply[c] = "sent" THEN "writing" ELSE "closing")
  /\ UNCHANGED <<server, clients, channel, at, envelope, reply, asked, ran, answered, open>>

\* Two seconds have passed. The reply may still come before what follows.
Expire(c) ==
  /\ thread[c] = "waiting" /\ reply[c] = "none" /\ Goto(c, "expired")
  /\ UNCHANGED <<server, clients, channel, at, envelope, reply, asked, ran, answered, open>>

\* Only a request that is still queued can be taken back.
Cancel(c) ==
  /\ thread[c] = "expired"
  /\ IF envelope[c] = "QUEUED"
     THEN Goto(c, "closing") /\ envelope' = [envelope EXCEPT ![c] = "CANCELLED"]
     ELSE Goto(c, "bound") /\ UNCHANGED envelope
  /\ UNCHANGED <<server, clients, channel, at, reply, asked, ran, answered, open>>

\* The response is written; after Subscribe only the stream is served. A write
\* may fail or time out.
Write(c) ==
  /\ thread[c] = "writing"
  /\ \/ /\ open[c] /\ answered' = [answered EXCEPT ![c] = @ + 1]
        /\ Goto(c, "reading") \/ Goto(c, "streaming")
     \/ Goto(c, "closing") /\ UNCHANGED answered
  /\ UNCHANGED <<server, clients, channel, at, envelope, reply, asked, ran, open>>

StreamEnd(c) ==
  /\ thread[c] = "streaming" /\ ~open[c] /\ Goto(c, "closing")
  /\ UNCHANGED <<server, clients, channel, at, envelope, reply, asked, ran, answered, open>>

\* The completion is reported, if there still is anybody to report it to.
Report(c) ==
  /\ thread[c] = "closing" /\ Goto(c, "reported")
  /\ channel' = IF server = "up" THEN Append(channel, [kind |-> "Finished", client |-> c])
                ELSE channel
  /\ UNCHANGED <<server, clients, at, envelope, reply, asked, ran, answered, open>>

Exit(c) ==
  /\ thread[c] = "reported" /\ Goto(c, "exited")
  /\ UNCHANGED <<server, clients, channel, at, envelope, reply, asked, ran, answered, open>>

Thread(c) ==
  \/ ReadEnd(c) \/ Receive(c) \/ Cancel(c) \/ Write(c) \/ StreamEnd(c) \/ Report(c)
  \/ Exit(c)

Next ==
  \/ Accept \/ TakeRequest \/ SendReply \/ TakeFinished \/ Join
  \/ RemoveSources \/ ShutSockets \/ JoinRemaining
  \/ \E c \in Connections :
       Connect(c) \/ CloseClient(c) \/ Send(c) \/ Expire(c) \/ Thread(c)

\* The loop goes on with what it is in the middle of and with its channel, the
\* drop goes on once begun, and threads that can run do.
Fairness ==
  /\ WF_vars(TakeRequest \/ TakeFinished) /\ WF_vars(SendReply \/ Join)
  /\ WF_vars(ShutSockets \/ JoinRemaining)
  /\ \A c \in Connections : WF_vars(Thread(c)) /\ WF_vars(Expire(c))

Spec == Init /\ [][Next]_vars /\ Fairness
-----------------------------------------------------------------------------
(* What must hold                                                          *)

\* A client that is hung up on because its request waited too long can rely on
\* it: the request has not been run and never will be. A thread that is ready for
\* the next request has seen every earlier one run once and answered with its own
\* result, however late that came.
RanAsTold ==
  \A c \in Connections :
    /\ envelope[c] = "CANCELLED" => ran[c] = asked[c] - 1
    /\ thread[c] \in {"reading", "streaming"} => answered[c] = ran[c] /\ ran[c] = asked[c]

\* No thread runs unaccounted for: it holds one of the MaxClients places, or the
\* loop is waiting for it to end. In the end none is left.
ThreadsAccounted ==
  /\ TypeOK
  /\ \A c \in Connections :
       thread[c] \in Running => c \in clients \/ at = [op |-> "join", client |-> c]
  /\ server = "gone" => \A c \in Connections : thread[c] \notin Running

\* Every request comes to an answer or to the end of its connection, and a connection
\* that has ended gives its place back, without waiting for another one to arrive.
RequestsResolved ==
  \A c \in Connections :
    /\ thread[c] = "waiting" ~> thread[c] \in {"writing", "closing"}
    /\ thread[c] = "closing" ~> thread[c] = "joined"

\* Dropping the server ends, whatever clients and threads are doing.
DropEnds == server = "removed" ~> server = "gone"
=============================================================================

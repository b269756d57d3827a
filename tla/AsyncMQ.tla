------------------------------- MODULE AsyncMQ -------------------------------
(***************************************************************************)
(* Requests over the message broker: transport/async_mq_client.cpp and     *)
(* transport/async_mq_server.cpp, with the ActiveMQ driver of              *)
(* message/atmq_driver.cpp and the handle table of message/message.cpp     *)
(* under them, for a queue whose requests want a reply (need_reply, no     *)
(* topic, client acknowledgement: what both Init functions use).           *)
(*                                                                         *)
(* The session cache of the server is SessionCache: the key is the id of   *)
(* GenSessionId, the value the reply address, that is the client's         *)
(* temporary queue.  Ids carry the second and a counter, so an id does not *)
(* return while one process lives; a restarted one starts again, with an   *)
(* empty cache.                                                            *)
(*                                                                         *)
(* acknowledge() comes before the callback, so a message has left the      *)
(* broker when OnAsyncMessage runs.  A wait function (m_waitFun) only      *)
(* delays the next delivery, which the model may delay anyway.             *)
(***************************************************************************)
EXTENDS SessionCache

CONSTANTS Clients,            \* AsyncMQClient processes
          Requests,           \* what they send
          ClientOf,           \* whose request it is
          Timeout,            \* the server's m_session_timeout
          MaxSize,            \* the cache's m_max_size (100 in the code)
          RecvMax,            \* bound of server_recv_queue (5 in the code)
          MaxReplies,         \* bound: how often the application answers one request
          None

ASSUME MQAssumption ==
    /\ ClientOf \in [Requests -> Clients]
    /\ Clients \subseteq Sessions
    /\ IsFiniteSet(Requests)
    /\ Keys = 1..Cardinality(Requests)
    /\ Timeout \in 0..MaxAge
    /\ MaxSize \in Nat
    /\ RecvMax \in Nat \ {0}
    /\ MaxReplies \in Nat \ {0}
    /\ None \notin [id : Nat, req : Requests] \cup [to : Clients, req : Requests]

VARIABLES
    idle,              \* requests the clients have not made yet
    m_send_queue,      \* client: requests waiting for its sender thread
    client,            \* client: "none" before Init, "open", "broken", "dead"
    broker,            \* the broker's queue of requests
    inbox,             \* client's temporary queue at the broker
    answers,           \* replies each request has got in its client's m_recv_queue
    up,                \* the server process runs
    driver,            \* how far ATMQServerHandler::Run came: see Level
    m_driver_staus,
    stopping,          \* StopService is in its sleep
    server_seq_no,
    listener,          \* the message OnAsyncMessage is about to push
    server_recv_queue,
    app,               \* messages with the application, and answers it still may give
    server_send_queue,
    reply,             \* Run: the reply it is about to hand to the driver
    sinceClear         \* Run: seconds since the last clean-up

clientVars == <<idle, m_send_queue, client, broker, inbox, answers>>
driverVars == <<driver, m_driver_staus, stopping>>
queueVars  == <<server_seq_no, listener, server_recv_queue, app,
                server_send_queue, reply, sinceClear>>
serverVars == <<up, driverVars, queueVars>>
vars       == <<cacheVars, clientVars, serverVars>>

\* ATMQServerHandler::Run creates connection, session, producer and consumer
\* in this order and swallows the exception of the step that fails.
Level == 0..4
Connection == 1
Session    == 2
Producer   == 3
Consumer   == 4

Message == [id : Keys, req : Requests]

-----------------------------------------------------------------------------
\* A server process that has just started: static queues and cache are empty.
Fresh ==
    /\ driver' = 0 /\ m_driver_staus' = FALSE /\ stopping' = FALSE
    /\ server_seq_no' = 0 /\ listener' = None /\ server_recv_queue' = <<>>
    /\ app' = {} /\ server_send_queue' = <<>> /\ reply' = None /\ sinceClear' = 0
    /\ m_list' = <<>> /\ m_map' = {} /\ UNCHANGED Settings

Init ==
    /\ CacheInit(Timeout, MaxSize)
    /\ idle = Requests
    /\ m_send_queue = [c \in Clients |-> <<>>]
    /\ client = [c \in Clients |-> "none"]
    /\ broker = <<>>
    /\ inbox = [c \in Clients |-> <<>>]
    /\ answers = [r \in Requests |-> 0]
    /\ up = TRUE
    /\ driver = 0 /\ m_driver_staus = FALSE /\ stopping = FALSE
    /\ server_seq_no = 0 /\ listener = None /\ server_recv_queue = <<>>
    /\ app = {} /\ server_send_queue = <<>> /\ reply = None /\ sinceClear = 0

-----------------------------------------------------------------------------
(* The client.                                                             *)

\* AsyncMQClient::Init returns true whether or not the driver connected.
ClientInit(c, connected) ==
    /\ client[c] = "none"
    /\ client' = [client EXCEPT ![c] = IF connected THEN "open" ELSE "broken"]
    /\ UNCHANGED <<cacheVars, serverVars, idle, m_send_queue, broker, inbox, answers>>

\* SendToQueue: TryPushBack on a queue without a bound.
ClientSendToQueue(r) ==
    /\ r \in idle
    /\ client[ClientOf[r]] # "dead"
    /\ idle' = idle \ {r}
    /\ m_send_queue' = [m_send_queue EXCEPT ![ClientOf[r]] = Append(@, r)]
    /\ UNCHANGED <<cacheVars, serverVars, client, broker, inbox, answers>>

\* AsyncMQClient::Run: PopFront, then Message::Send.  Without a handle in the
\* table the message is gone; without a session the process is.
ClientRun(c) ==
    /\ client[c] # "dead"
    /\ m_send_queue[c] # <<>>
    /\ broker' = IF client[c] = "open" THEN Append(broker, Head(m_send_queue[c]))
                                       ELSE broker
    /\ m_send_queue' = [m_send_queue EXCEPT ![c] = IF client[c] = "broken" THEN <<>> ELSE Tail(@)]
    /\ client' = [client EXCEPT ![c] = IF @ = "broken" THEN "dead" ELSE @]
    /\ UNCHANGED <<cacheVars, serverVars, idle, inbox, answers>>

\* ATMQClientHandler::onMessage and OnAsyncMessage: the reply reaches
\* m_recv_queue, which RecvFromQueue and TimedRecvFromQueue empty.
ClientOnMessage(c) ==
    /\ inbox[c] # <<>>
    /\ inbox' = [inbox EXCEPT ![c] = Tail(@)]
    /\ answers' = [answers EXCEPT ![Head(inbox[c])] = @ + 1]
    /\ UNCHANGED <<cacheVars, serverVars, idle, m_send_queue, client, broker>>

-----------------------------------------------------------------------------
(* The server: life of the driver.                                         *)

\* Init builds a driver, registers it and runs it; StartService runs the one
\* there is.  Run does nothing while an earlier connection is still there.
\* Either way the service counts as started.
StartService(level) ==
    /\ up
    /\ ~stopping
    /\ driver' = IF driver = 0 THEN level ELSE driver
    /\ m_driver_staus' = TRUE
    /\ UNCHANGED <<cacheVars, clientVars, up, stopping, queueVars>>

\* StopService clears the flag, sleeps, and closes the driver.
StopService ==
    /\ up
    /\ ~stopping
    /\ m_driver_staus' = FALSE
    /\ stopping' = TRUE
    /\ UNCHANGED <<cacheVars, clientVars, up, driver, queueVars>>

StopDriver ==
    /\ up
    /\ stopping
    /\ stopping' = FALSE
    /\ driver' = 0
    /\ UNCHANGED <<cacheVars, clientVars, up, m_driver_staus, queueVars>>

\* The process dies at any moment, and is started again.
Kill ==
    /\ up
    /\ up' = FALSE
    /\ Fresh
    /\ UNCHANGED clientVars

Restart ==
    /\ ~up
    /\ up' = TRUE
    /\ UNCHANGED <<cacheVars, clientVars, driverVars, queueVars>>

-----------------------------------------------------------------------------
(* The server: requests.                                                   *)

\* Wrong on purpose: a mutant of OnAsyncMessage that RightClient must catch.
OnAsyncMessageSameId ==
    /\ up
    /\ driver = Consumer
    /\ listener = None
    /\ broker # <<>>
    /\ broker' = Tail(broker)
    /\ server_seq_no' = 1
    /\ listener' = [id |-> 1, req |-> Head(broker)]
    /\ PushSession(1, ClientOf[Head(broker)]) \/ PushRejected(1)
    /\ UNCHANGED <<idle, m_send_queue, client, inbox, answers, up, driverVars,
                   server_recv_queue, app, server_send_queue, reply, sinceClear>>

\* ATMQServerHandler::onMessage acknowledges, then OnAsyncMessage takes an id
\* and saves the session ...
OnAsyncMessage ==
    /\ up
    /\ driver = Consumer
    /\ listener = None
    /\ broker # <<>>
    /\ broker' = Tail(broker)
    /\ server_seq_no' = server_seq_no + 1
    /\ listener' = [id |-> server_seq_no', req |-> Head(broker)]
    /\ PushSession(server_seq_no', ClientOf[Head(broker)])
    /\ UNCHANGED <<idle, m_send_queue, client, inbox, answers, up, driverVars,
                   server_recv_queue, app, server_send_queue, reply, sinceClear>>

\* ... and pushes the message, blocking the broker's thread while five wait.
PushRecvQueue ==
    /\ listener # None
    /\ Len(server_recv_queue) < RecvMax
    /\ server_recv_queue' = Append(server_recv_queue, listener)
    /\ listener' = None
    /\ UNCHANGED <<cacheVars, clientVars, up, driverVars, server_seq_no, app,
                   server_send_queue, reply, sinceClear>>

\* The application receives (RecvFromQueue, TimedRecvFromQueue) ...
RecvFromQueue ==
    /\ server_recv_queue # <<>>
    /\ app' = app \cup {[msg |-> Head(server_recv_queue), left |-> MaxReplies]}
    /\ server_recv_queue' = Tail(server_recv_queue)
    /\ UNCHANGED <<cacheVars, clientVars, up, driverVars, server_seq_no, listener,
                   server_send_queue, reply, sinceClear>>

\* ... and answers by the message's id, once, never, or by mistake again.
SendToQueue(a) ==
    /\ a \in app
    /\ server_send_queue' = Append(server_send_queue, a.msg)
    /\ app' = (app \ {a}) \cup
                (IF a.left = 1 THEN {} ELSE {[a EXCEPT !.left = @ - 1]})
    /\ UNCHANGED <<cacheVars, clientVars, up, driverVars, server_seq_no, listener,
                   server_recv_queue, reply, sinceClear>>

-----------------------------------------------------------------------------
(* The server: AsyncMQServer::Run.                                         *)

Popped == Head(server_send_queue)

\* Wrong on purpose: a mutant of RunTakes that AtMostOnce must catch.
RunTakesKeepsSession ==
    /\ up /\ reply = None /\ server_send_queue # <<>>
    /\ m_driver_staus
    /\ Popped.id \in m_map
    /\ reply' = [to |-> SessionOf(Popped.id), req |-> Popped.req]
    /\ server_send_queue' = Tail(server_send_queue)
    /\ UNCHANGED <<cacheVars, clientVars, up, driverVars, server_seq_no, listener,
                   server_recv_queue, app, sinceClear>>

\* Wrong on purpose: a mutant of RunTakes that ReplyPathGuarded must catch.
RunTakesWhenStopped ==
    /\ up /\ reply = None /\ server_send_queue # <<>>
    /\ PopSession(Popped.id)
    /\ reply' = [to |-> SessionOf(Popped.id), req |-> Popped.req]
    /\ server_send_queue' = Tail(server_send_queue)
    /\ UNCHANGED <<clientVars, up, driverVars, server_seq_no, listener,
                   server_recv_queue, app, sinceClear>>

\* The reply's session is there and the service is on.
RunTakes ==
    /\ up /\ reply = None /\ server_send_queue # <<>>
    /\ m_driver_staus
    /\ PopSession(Popped.id)
    /\ reply' = [to |-> SessionOf(Popped.id), req |-> Popped.req]
    /\ server_send_queue' = Tail(server_send_queue)
    /\ UNCHANGED <<clientVars, up, driverVars, server_seq_no, listener,
                   server_recv_queue, app, sinceClear>>

\* No session, or the service is off: the session is gone all the same, and
\* continue skips the clean-up.
RunDrops ==
    /\ up /\ reply = None /\ server_send_queue # <<>>
    /\ \/ PopSession(Popped.id) /\ ~m_driver_staus
       \/ Popped.id \notin m_map /\ UNCHANGED cacheVars
    /\ server_send_queue' = Tail(server_send_queue)
    /\ UNCHANGED <<clientVars, up, driverVars, server_seq_no, listener,
                   server_recv_queue, app, reply, sinceClear>>

\* The end of a round: once every m_session_timeout seconds expired sessions go.
CleanUp ==
    \/ /\ sinceClear > Timeout
       /\ ClearTimeout(Timeout)
       /\ sinceClear' = 0
    \/ /\ sinceClear <= Timeout
       /\ UNCHANGED <<cacheVars, sinceClear>>

\* Message::SendTo finds the handle's function and ATMQServerHandler::SendTo
\* sends if there is a producer.
RunSendTo ==
    /\ reply # None
    /\ driver >= Session
    /\ inbox' = IF driver >= Producer
                THEN [inbox EXCEPT ![reply.to] = Append(@, reply.req)] ELSE inbox
    /\ reply' = None
    /\ CleanUp
    /\ UNCHANGED <<idle, m_send_queue, client, broker, answers, up, driverVars,
                   server_seq_no, listener, server_recv_queue, app, server_send_queue>>

\* It uses the session without a test: with no session the process dies.
RunSendToNull ==
    /\ reply # None
    /\ driver < Session
    /\ up' = FALSE
    /\ Fresh
    /\ UNCHANGED clientVars

\* Wrong on purpose: a mutant of RunTimedOut that OpenSettles must catch.
RunTimedOutKeepsAll ==
    /\ up /\ reply = None /\ server_send_queue = <<>>
    /\ sinceClear > Timeout
    /\ sinceClear' = 0
    /\ UNCHANGED <<cacheVars, clientVars, up, driverVars, server_seq_no, listener,
                   server_recv_queue, app, server_send_queue, reply>>

\* TimedPopFront timed out.
RunTimedOut ==
    /\ up /\ reply = None /\ server_send_queue = <<>>
    /\ sinceClear > Timeout
    /\ CleanUp
    /\ UNCHANGED <<clientVars, up, driverVars, server_seq_no, listener,
                   server_recv_queue, app, server_send_queue, reply>>

\* One second.
Second ==
    /\ Tick
    /\ sinceClear' = IF up /\ sinceClear <= Timeout THEN sinceClear + 1 ELSE sinceClear
    /\ UNCHANGED <<clientVars, up, driverVars, server_seq_no, listener,
                   server_recv_queue, app, server_send_queue, reply>>

Run == RunTakes \/ RunDrops \/ RunSendTo \/ RunSendToNull \/ RunTimedOut

Next ==
    \/ \E c \in Clients : \/ \E connected \in BOOLEAN : ClientInit(c, connected)
                          \/ ClientRun(c)
                          \/ ClientOnMessage(c)
    \/ \E r \in Requests : ClientSendToQueue(r)
    \/ \E level \in Level : StartService(level)
    \/ StopService
    \/ StopDriver
    \/ Kill
    \/ Restart
    \/ OnAsyncMessage
    \/ PushRecvQueue
    \/ RecvFromQueue
    \/ \E a \in app : SendToQueue(a)
    \/ Run
    \/ Second

Spec == Init /\ [][Next]_vars

\* The threads of the processes run and time passes.  Nothing makes a client
\* or the application act, and nobody has to start or restart the server.
Fairness ==
    /\ \A c \in Clients : WF_vars(ClientOnMessage(c))
    /\ WF_vars(Run)
    /\ WF_vars(Second)

FairSpec == Spec /\ Fairness

-----------------------------------------------------------------------------
ReplyType == [to : Clients, req : Requests]

TypeOK ==
    /\ CacheTypeOK
    /\ idle \in SUBSET Requests
    /\ m_send_queue \in [Clients -> Seq(Requests)]
    /\ client \in [Clients -> {"none", "open", "broken", "dead"}]
    /\ broker \in Seq(Requests)
    /\ inbox \in [Clients -> Seq(Requests)]
    /\ answers \in [Requests -> Nat]
    /\ up \in BOOLEAN
    /\ driver \in Level
    /\ m_driver_staus \in BOOLEAN
    /\ stopping \in BOOLEAN
    /\ server_seq_no \in Nat
    /\ listener \in Message \cup {None}
    /\ server_recv_queue \in Seq(Message)
    /\ app \in SUBSET [msg : Message, left : 1..MaxReplies]
    /\ server_send_queue \in Seq(Message)
    /\ reply \in ReplyType \cup {None}
    /\ sinceClear \in Nat

\* async_mq_server.cpp:130-137: the address Run takes from the cache under the
\* id of the application's answer is that of the client whose request the
\* answer is about, whatever expired, was purged or restarted in between.
RightClient ==
    /\ reply # None => reply.to = ClientOf[reply.req]
    /\ \A c \in Clients : \A i \in DOMAIN inbox[c] : ClientOf[inbox[c][i]] = c

-----------------------------------------------------------------------------
(* The abstract state of a request.                                        *)

In(s, r) == \E i \in DOMAIN s : s[i] = r

\* Ids the server has given to r and not forgotten.
IdsOf(r) ==
    {m.id : m \in {x \in {a.msg : a \in app} \cup {listener} : x # None /\ x.req = r}}
      \cup {server_recv_queue[i].id : i \in {j \in DOMAIN server_recv_queue : server_recv_queue[j].req = r}}
      \cup {server_send_queue[i].id : i \in {j \in DOMAIN server_send_queue : server_send_queue[j].req = r}}

Delivered(r) ==
    answers[r] + Cardinality({i \in DOMAIN inbox[ClientOf[r]] : inbox[ClientOf[r]][i] = r})

StatusOf(r) ==
    CASE r \in idle                                     -> "idle"
      [] In(m_send_queue[ClientOf[r]], r) \/ In(broker, r) -> "sent"
      [] Delivered(r) = 1                               -> "answered"
      [] Delivered(r) > 1                               -> "answered twice"
      [] \/ reply # None /\ reply.req = r
         \/ IdsOf(r) \cap m_map # {}                    -> "open"
      [] OTHER                                          -> "lost"

RR == INSTANCE RequestReply WITH status <- [r \in Requests |-> StatusOf(r)]

\* atmq_driver.cpp:457 acknowledges before the callback and
\* async_mq_server.cpp:130 removes the session before it sends: a request is
\* taken and answered at most once, though the application answers twice, the
\* service is stopped and started, sessions expire under way and the server
\* crashes and restarts.  A request once lost stays lost.
AtMostOnce == RR!Spec

\* async_mq_server.cpp:132: StopService clears the flag before it closes the
\* driver, so no reply enters the driver afterwards: a reply meets a driver
\* without a session only if StopService overtakes it inside SendTo, or if a
\* start failed and was still counted as one.
Stranded == reply # None /\ driver < Session

ReplyPathGuarded ==
    [][~Stranded /\ Stranded' => \/ StopDriver /\ reply # None
                                 \/ m_driver_staus /\ m_driver_staus' /\ RunTakes]_vars

\* async_mq_server.cpp:140: a request the server has taken does not stay open:
\* it is answered, or Run's clean-up gives it up, also when nothing else is
\* sent, the application never answers and the service is off.
OpenSettles ==
    \A r \in Requests : (StatusOf(r) = "open") ~> (StatusOf(r) \in {"answered", "lost"})
=============================================================================

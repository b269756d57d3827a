------------------------------ MODULE ZooKeeper ------------------------------
(***************************************************************************)
(* What transport/zk_server.cpp and transport/zk_client.cpp use of         *)
(* ZooKeeper and its C client: sessions that lose their connection, come   *)
(* back or expire; ephemeral nodes that live as long as the session that   *)
(* created them; one-shot watches on the children of a service; one        *)
(* completion thread per handle, which delivers session events, watch      *)
(* events and the answers to asynchronous calls in order.  External code.  *)
(* A handle is named by the number of its session.                         *)
(***************************************************************************)
EXTENDS Integers, Sequences

CONSTANTS Providers,    \* service processes; each publishes one node
          client,       \* the process that looks services up
          MaxSessions,  \* bound: sessions a process may open
          MaxFaults     \* bound: connections lost

ASSUME ZooKeeperAssumption ==
    /\ client \notin Providers
    /\ MaxSessions \in Nat \ {0}
    /\ MaxFaults \in Nat

Procs    == Providers \union {client}
Sessions == 1 .. MaxSessions

VARIABLES
    link,      \* proc, session: none, new, up, down, expired, closed, gone
    held,      \* proc: the sessions ZooKeeper keeps alive
    queue,     \* proc, session: what its completion thread has to deliver
    pending,   \* proc, session: creations sent and not answered
    node,      \* provider: the session that owns its node, 0 if there is none
    parent,    \* does the node of the service exist?
    watches,   \* the client's sessions with a watch on the children
    faults     \* connections lost so far

zkVars == <<link, held, queue, pending, node, parent, watches, faults>>

ZKInit ==
    /\ link = [x \in Procs |-> [s \in Sessions |-> "none"]]
    /\ held = [x \in Procs |-> {}]
    /\ queue = [x \in Procs |-> [s \in Sessions |-> <<>>]]
    /\ pending = [x \in Procs |-> [s \in Sessions |-> 0]]
    /\ node = [p \in Providers |-> 0]
    /\ parent \in BOOLEAN
    /\ watches = {}
    /\ faults = 0

Children == {p \in Providers : node[p] # 0}

\* The session the next zookeeper_init of x begins.
Fresh(x) == CHOOSE s \in Sessions : link[x][s] = "none"

\* MaxSessions leaves it one.
CanOpen(x) == \E s \in Sessions : link[x][s] = "none"

\* q with events evs for the thread of session s of x.
Post(q, x, s, evs) == [q EXCEPT ![x][s] = @ \o evs]

\* q with a child event for every watch.
Fire(q) == [q EXCEPT ![client] = [s \in Sessions |-> @[s] \o IF s \in watches THEN <<"child">> ELSE <<>>]]

Failures(x, s) == [i \in 1 .. pending[x][s] |-> "failed"]

SetLink(x, s, l) == link' = [link EXCEPT ![x][s] = l]

-----------------------------------------------------------------------------
\* A session is established, or its connection is re-established in time.
Connect(x, s) ==
    /\ \/ link[x][s] = "new"
       \/ link[x][s] = "down" /\ s \in held[x]
    /\ SetLink(x, s, "up")
    /\ held' = [held EXCEPT ![x] = @ \union {s}]
    /\ queue' = Post(queue, x, s, <<"connected">>)
    /\ UNCHANGED <<pending, node, parent, watches, faults>>

\* The connection breaks: the calls under way fail, and watches of a handle
\* that is not connected bring nothing until it reads again.
Disconnect(x, s) ==
    /\ link[x][s] = "up"
    /\ faults < MaxFaults
    /\ faults' = faults + 1
    /\ SetLink(x, s, "down")
    /\ queue' = Post(queue, x, s, <<"connecting">> \o Failures(x, s))
    /\ pending' = [pending EXCEPT ![x][s] = 0]
    /\ watches' = IF x = client THEN watches \ {s} ELSE watches
    /\ UNCHANGED <<held, node, parent>>

\* ZooKeeper gives up a session it has not heard of and removes its node.
Expire(x, s) ==
    /\ s \in held[x]
    /\ link[x][s] \in {"down", "gone"}
    /\ held' = [held EXCEPT ![x] = @ \ {s}]
    /\ \/ /\ x \in Providers
          /\ node[x] = s
          /\ node' = [node EXCEPT ![x] = 0]
          /\ queue' = Fire(queue)
          /\ watches' = {}
       \/ /\ x \in Providers => node[x] # s
          /\ UNCHANGED <<node, queue, watches>>
    /\ UNCHANGED <<link, pending, parent, faults>>

\* The handle learns of it when it reaches a server again.
NotifyExpired(x, s) ==
    /\ link[x][s] = "down"
    /\ s \notin held[x]
    /\ SetLink(x, s, "expired")
    /\ queue' = Post(queue, x, s, <<"expired">> \o Failures(x, s))
    /\ pending' = [pending EXCEPT ![x][s] = 0]
    /\ UNCHANGED <<held, node, parent, watches, faults>>

\* A server executes a creation: ZOK, ZNODEEXISTS ("own" is one that the same
\* session had created before), or ZNONODE, a failure, without the parent.
ServeCreate(p, s) ==
    /\ link[p][s] = "up"
    /\ pending[p][s] > 0
    /\ pending' = [pending EXCEPT ![p][s] = @ - 1]
    /\ \/ /\ ~parent
          /\ queue' = Post(queue, p, s, <<"failed">>)
          /\ UNCHANGED <<node, watches>>
       \/ /\ parent
          /\ node[p] # 0
          /\ queue' = Post(queue, p, s, <<IF node[p] = s THEN "own" ELSE "exists">>)
          /\ UNCHANGED <<node, watches>>
       \/ /\ parent
          /\ node[p] = 0
          /\ node' = [node EXCEPT ![p] = s]
          /\ queue' = Post(Fire(queue), p, s, <<"ok">>)
          /\ watches' = {}
    /\ UNCHANGED <<link, held, parent, faults>>

\* Sessions something can still happen to.
Open(x) == {s \in Sessions : link[x][s] \notin {"none", "closed"}}

ZKNext ==
    \/ \E x \in Procs : \E s \in Open(x) :
          Connect(x, s) \/ Disconnect(x, s) \/ Expire(x, s) \/ NotifyExpired(x, s)
    \/ \E p \in Providers, s \in Sessions : ServeCreate(p, s)

=============================================================================

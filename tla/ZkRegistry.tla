----------------------------- MODULE ZkRegistry ------------------------------
(***************************************************************************)
(* Registration and discovery of services: ZkServer of                     *)
(* transport/zk_server.cpp in every provider, ZkClient of                  *)
(* transport/zk_client.cpp in one consumer, and ZooKeeper between them.    *)
(* The watchers and callbacks run on the completion threads of the handles *)
(* while zookeeper_init is still on its way to return one of them.         *)
(***************************************************************************)
EXTENDS ZooKeeper

CONSTANT MaxCrashes    \* bound: providers that die

ASSUME CrashAssumption == MaxCrashes \in Nat

VARIABLES
    up,           \* proc: is the process running?
    m_zhandle,    \* proc: 0 is NULL
    m_connected,  \* proc
    opening,      \* proc: the handle zookeeper_init is about to return, or 0
    crashes,      \* providers that died so far
    answer,       \* provider: history, how its last creation ended
    services      \* the client's m_all_serviceinfo_list, of one service

codeVars == <<up, m_zhandle, m_connected, opening, crashes, answer, services>>
vars     == <<zkVars, codeVars>>

Init ==
    /\ ZKInit
    /\ up = [x \in Procs |-> FALSE]
    /\ m_zhandle = [x \in Procs |-> 0]
    /\ m_connected = [x \in Procs |-> FALSE]
    /\ opening = [x \in Procs |-> 0]
    /\ crashes = 0
    /\ answer = [p \in Providers |-> "none"]
    /\ services = {}

-----------------------------------------------------------------------------
(* Both sides.                                                             *)

\* Publish, and ConnectZK without the close: zookeeper_init begins a session.
\* That it returns NULL, sleep(5) and another attempt change nothing.
BeginConnect(x) ==
    /\ CanOpen(x)
    /\ m_zhandle' = [m_zhandle EXCEPT ![x] = 0]
    /\ m_connected' = [m_connected EXCEPT ![x] = FALSE]
    /\ opening' = [opening EXCEPT ![x] = Fresh(x)]

\* main: Init and Publish, Init and ConnectZK.
Start(x) ==
    /\ ~up[x]
    /\ x = client => \A s \in Sessions : link[x][s] = "none"
    /\ up' = [up EXCEPT ![x] = TRUE]
    /\ BeginConnect(x)
    /\ SetLink(x, Fresh(x), "new")
    /\ UNCHANGED <<held, queue, pending, node, parent, watches, faults, answer, crashes, services>>

\* m_zhandle = zookeeper_init(...) is complete.
StoreHandle(x) ==
    /\ opening[x] # 0
    /\ m_zhandle' = [m_zhandle EXCEPT ![x] = opening[x]]
    /\ opening' = [opening EXCEPT ![x] = 0]
    /\ UNCHANGED <<zkVars, up, m_connected, answer, crashes, services>>

\* The completion thread of session s of x comes to ev.  The thread that is
\* inside zookeeper_init comes to nothing else; a handle is stored long before
\* its session can expire.
Delivers(x, s, ev) ==
    /\ up[x]
    /\ queue[x][s] # <<>>
    /\ Head(queue[x][s]) = ev
    /\ opening[x] # 0 => opening[x] = s /\ ev # "expired"

Pop(x, s) == queue' = [queue EXCEPT ![x][s] = Tail(@)]

-----------------------------------------------------------------------------
(* A provider: InitWatcher, zooCreateCallback, Register.                   *)

\* zoo_acreate refuses a NULL handle and one whose session has expired: the
\* error is logged, and nobody tries again.
Register(p, connected) ==
    LET h == m_zhandle[p] IN
    \/ /\ ~connected
       /\ UNCHANGED <<pending, answer>>
    \/ /\ connected
       /\ h # 0 /\ link[p][h] # "expired"
       /\ pending' = [pending EXCEPT ![p][h] = @ + 1]
       /\ answer' = [answer EXCEPT ![p] = "none"]
    \/ /\ connected
       /\ h = 0 \/ (h # 0 /\ link[p][h] = "expired")
       /\ answer' = [answer EXCEPT ![p] = "refused"]
       /\ UNCHANGED pending

WatcherConnected(p, s) ==
    /\ Delivers(p, s, "connected")
    /\ Pop(p, s)
    /\ m_connected' = [m_connected EXCEPT ![p] = TRUE]
    /\ Register(p, TRUE)
    /\ UNCHANGED <<link, held, node, parent, watches, faults, up, m_zhandle, opening, crashes, services>>

WatcherConnecting(x, s) ==
    /\ Delivers(x, s, "connecting")
    /\ Pop(x, s)
    /\ m_connected' = [m_connected EXCEPT ![x] = FALSE]
    /\ UNCHANGED <<link, held, pending, node, parent, watches, faults,
                   up, m_zhandle, opening, answer, crashes, services>>

\* Publish again; the old handle is not closed.
WatcherExpired(p, s) ==
    /\ Delivers(p, s, "expired")
    /\ Pop(p, s)
    /\ BeginConnect(p)
    /\ SetLink(p, Fresh(p), "new")
    /\ UNCHANGED <<held, pending, node, parent, watches, faults, up, answer, crashes, services>>

\* Wrong on purpose: a mutant of zooCreateCallback that AbsentOnlyIfMisled must catch.
zooCreateCallbackNoRetry(p, s) ==
    /\ \E rc \in {"ok", "own", "exists", "failed"} :
          Delivers(p, s, rc) /\ answer' = [answer EXCEPT ![p] = rc]
    /\ Pop(p, s)
    /\ UNCHANGED <<link, held, pending, node, parent, watches, faults,
                   up, m_zhandle, m_connected, opening, crashes, services>>

\* ZOK and ZNODEEXISTS count as success; after any other answer the thread
\* sleeps a second and registers again.
zooCreateCallback(p, s) ==
    /\ \/ \E rc \in {"ok", "own", "exists"} :
             /\ Delivers(p, s, rc)
             /\ answer' = [answer EXCEPT ![p] = rc]
             /\ UNCHANGED pending
       \/ /\ Delivers(p, s, "failed")
          /\ Register(p, m_connected[p])
    /\ Pop(p, s)
    /\ UNCHANGED <<link, held, node, parent, watches, faults,
                   up, m_zhandle, m_connected, opening, crashes, services>>

\* A provider dies; ZooKeeper keeps its sessions until they expire.
Crash(p) ==
    /\ up[p]
    /\ crashes < MaxCrashes
    /\ crashes' = crashes + 1
    /\ up' = [up EXCEPT ![p] = FALSE]
    /\ m_zhandle' = [m_zhandle EXCEPT ![p] = 0]
    /\ m_connected' = [m_connected EXCEPT ![p] = FALSE]
    /\ opening' = [opening EXCEPT ![p] = 0]
    /\ answer' = [answer EXCEPT ![p] = "none"]
    /\ link' = [link EXCEPT ![p] = [s \in Sessions |-> IF @[s] = "none" THEN "none" ELSE "gone"]]
    /\ queue' = [queue EXCEPT ![p] = [s \in Sessions |-> <<>>]]
    /\ pending' = [pending EXCEPT ![p] = [s \in Sessions |-> 0]]
    /\ UNCHANGED <<held, node, parent, watches, faults, services>>

-----------------------------------------------------------------------------
(* The client: ServiceWatcher and Update.                                  *)

\* A session or a child event: SetConnState(true), and Update, which connects
\* by itself if m_zhandle is still NULL.
ServiceWatcher(s) ==
    /\ \E ev \in {"connected", "child"} : Delivers(client, s, ev)
    /\ queue' = [queue EXCEPT ![client][s] = <<"get">> \o Tail(@)]
    /\ \/ /\ m_zhandle[client] # 0
          /\ m_connected' = [m_connected EXCEPT ![client] = TRUE]
          /\ UNCHANGED <<m_zhandle, link>>
       \/ /\ m_zhandle[client] = 0
          /\ CanOpen(client)
          /\ m_zhandle' = [m_zhandle EXCEPT ![client] = Fresh(client)]
          /\ m_connected' = [m_connected EXCEPT ![client] = FALSE]
          /\ SetLink(client, Fresh(client), "new")
    /\ UNCHANGED <<held, pending, node, parent, watches, faults, up, opening, answer, crashes, services>>

\* ConnectZK after an expired session closes the handle first.
ServiceExpired(s) ==
    LET h == m_zhandle[client] IN
    /\ Delivers(client, s, "expired")
    /\ BeginConnect(client)
    /\ link' = [link EXCEPT ![client] = [r \in Sessions |->
                   IF r = Fresh(client) THEN "new" ELSE IF r = h THEN "closed" ELSE @[r]]]
    /\ held' = [held EXCEPT ![client] = @ \ {h}]
    /\ watches' = watches \ {h}
    /\ queue' = [queue EXCEPT ![client] = [r \in Sessions |->
                   IF r = h THEN <<>> ELSE IF r = s THEN Tail(@[r]) ELSE @[r]]]
    /\ UNCHANGED <<pending, node, parent, faults, up, answer, crashes, services>>

\* Wrong on purpose: a mutant of GetChildren that ListFollows must catch.
GetChildrenNoWatch(s, ev) ==
    LET h == m_zhandle[client] IN
    /\ Delivers(client, s, ev)
    /\ h # 0 /\ link[client][h] = "up"
    /\ parent
    /\ Pop(client, s)
    /\ services' = IF Children = {} THEN services ELSE Children
    /\ UNCHANGED <<link, held, pending, node, parent, watches, faults,
                   up, m_zhandle, m_connected, opening, answer, crashes>>

\* zoo_wget_children, on m_zhandle whatever handle brought the event, sets the
\* watch; an empty answer leaves the list as it was.
GetChildren(s, ev) ==
    LET h == m_zhandle[client] IN
    /\ Delivers(client, s, ev)
    /\ h # 0 /\ link[client][h] = "up"
    /\ parent
    /\ Pop(client, s)
    /\ watches' = watches \union {h}
    /\ services' = IF Children = {} THEN services ELSE Children
    /\ UNCHANGED <<link, held, pending, node, parent, faults,
                   up, m_zhandle, m_connected, opening, answer, crashes>>

\* ZNONODE: it creates the node of the service and asks again.
GetNoNode(s) ==
    LET h == m_zhandle[client] IN
    /\ Delivers(client, s, "get")
    /\ h # 0 /\ link[client][h] = "up"
    /\ ~parent
    /\ parent' = TRUE
    /\ queue' = [queue EXCEPT ![client][s] = <<"get again">> \o Tail(@)]
    /\ UNCHANGED <<link, held, pending, node, watches, faults, codeVars>>

\* Any other failure: the update is given up.
GetFails(s) ==
    LET h == m_zhandle[client] IN
    /\ Delivers(client, s, "get")
    /\ h # 0 => link[client][h] # "up"
    /\ Pop(client, s)
    /\ UNCHANGED <<link, held, pending, node, parent, watches, faults, codeVars>>

\* The result of the second call is not looked at: str_vec is whatever was on
\* the stack: nothing, or garbage that ends the process.
GetAgainFails(s) ==
    LET h == m_zhandle[client] IN
    /\ Delivers(client, s, "get again")
    /\ h # 0 => link[client][h] # "up"
    /\ Pop(client, s)
    /\ up' \in {up, [up EXCEPT ![client] = FALSE]}
    /\ UNCHANGED <<link, held, pending, node, parent, watches, faults,
                   m_zhandle, m_connected, opening, answer, crashes, services>>

-----------------------------------------------------------------------------
\* The handles whose completion thread has something to deliver.
Busy(x) == {s \in Sessions : queue[x][s] # <<>>}

Thread(x, s) ==
    \/ WatcherConnecting(x, s)
    \/ /\ x \in Providers
       /\ WatcherConnected(x, s) \/ WatcherExpired(x, s) \/ zooCreateCallback(x, s)
    \/ /\ x = client
       /\ \/ ServiceWatcher(s) \/ ServiceExpired(s)
          \/ GetChildren(s, "get") \/ GetChildren(s, "get again")
          \/ GetNoNode(s) \/ GetFails(s) \/ GetAgainFails(s)

Next ==
    \/ ZKNext /\ UNCHANGED codeVars
    \/ \E x \in Procs : Start(x) \/ StoreHandle(x)
    \/ \E x \in Procs : \E s \in Busy(x) : Thread(x, s)
    \/ \E p \in Providers : Crash(p)

Spec == Init /\ [][Next]_vars

-----------------------------------------------------------------------------
Idle(x) ==
    /\ up[x]
    /\ opening[x] = 0
    /\ \A s \in Sessions : /\ queue[x][s] = <<>>
                           /\ pending[x][s] = 0
                           /\ link[x][s] \notin {"new", "down"}

\* zk_server.cpp:21-45, 105-152: when a provider that runs has nothing left to
\* do, whatever happened to its sessions, it has its node, with two exceptions,
\* which only another loss of the connection repairs: the node was that of the
\* process before a restart and expired with its session (ZNODEEXISTS counted
\* as success), or the event came before zookeeper_init had returned and
\* zoo_acreate got a NULL handle.
AbsentOnlyIfMisled ==
    \A p \in Providers :
        Idle(p) /\ node[p] = 0 => answer[p] \in {"exists", "refused"}

\* zk_client.cpp:16-43, 108-162: when the client has nothing left to do, it lists
\* exactly the providers that are registered, unless there is none: then it
\* keeps the list it had.  No change slips between an event and the new watch.
ListFollows == Idle(client) /\ Children # {} => services = Children
=============================================================================

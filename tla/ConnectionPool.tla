---------------------------- MODULE ConnectionPool ---------------------------
(***************************************************************************)
(* The RPC connection pool of rpc/connection_pool.cpp and its only user,   *)
(* ConnectionProvider (rpc/connection_provider.cpp): a provider takes a    *)
(* transport in GetTransport and gives it back, or terminates it if it is  *)
(* closed by then, in its destructor.                                      *)
(*                                                                         *)
(* GetConnection reads the time before it takes m_mutex and then discards  *)
(* dead connections one by one, so the mutex is a variable here and each   *)
(* round of that loop a step of its owner.  A pooled connection is idle    *)
(* once now - use_time > conTimeOut.                                       *)
(***************************************************************************)
EXTENDS Integers, Sequences, FiniteSets

CONSTANTS Threads,     \* each runs one ConnectionProvider after another
          Conns,       \* transport objects
          minConns, maxConns,
          LateClose,   \* may a user close a transport it has given back?
          None

ASSUME PoolAssumption ==
    /\ IsFiniteSet(Threads)
    /\ minConns \in Nat /\ maxConns \in Nat \ {0} /\ minConns <= maxConns
    /\ IsFiniteSet(Conns) /\ Cardinality(Conns) >= maxConns
    /\ LateClose \in BOOLEAN
    /\ None \notin Threads \cup Conns

VARIABLES
    m_pool,      \* pooled transports, oldest first
    openConns,   \* the pool's count of open transports
    m_mutex,     \* its owner, or None
    pc,          \* where each thread is
    held,        \* the provider's m_transport
    expired,     \* transports older than conTimeOut by the thread's own now
    open,        \* transports with isOpen()
    idle,        \* transports unused for longer than conTimeOut
    shared       \* live transports a user has had and may still have a shared_ptr to

poolVars == <<m_pool, openConns, open, idle>>
vars == <<poolVars, m_mutex, pc, held, expired, shared>>

\* out:      no provider
\* called:   in GetConnection, now is read, m_mutex not yet taken
\* locked:   in GetConnection, owner of m_mutex
\* waiting:  in TimedWait;  woken / timedout: TimedWait about to return
\* using:    the provider has a transport
\* releasing: in ReleaseConnection, use_time is set, m_mutex not yet taken
PC == {"out", "called", "locked", "waiting", "woken", "timedout", "using", "releasing"}

Pooled == {m_pool[i] : i \in DOMAIN m_pool}
Holders == {t \in Threads : held[t] # None}
Held == {held[t] : t \in Holders}

Goto(t, label) == pc' = [pc EXCEPT ![t] = label]

-----------------------------------------------------------------------------
\* After Init() has opened minConns connections.
Init ==
    /\ m_pool \in [1..minConns -> Conns]
    /\ \A i, j \in 1..minConns : m_pool[i] = m_pool[j] => i = j
    /\ openConns = minConns
    /\ m_mutex = None
    /\ pc = [t \in Threads |-> "out"]
    /\ held = [t \in Threads |-> None]
    /\ expired = [t \in Threads |-> {}]
    /\ open = Pooled
    /\ idle = {}
    /\ shared = {}

\* GetTransport -> GetConnection: now = time(NULL), before the lock.
GetTransport(t) ==
    /\ pc[t] = "out"
    /\ Goto(t, "called")
    /\ expired' = [expired EXCEPT ![t] = idle]
    /\ UNCHANGED <<poolVars, m_mutex, held, shared>>

Lock(t) ==
    /\ pc[t] = "called"
    /\ m_mutex = None
    /\ m_mutex' = t
    /\ Goto(t, "locked")
    /\ UNCHANGED <<poolVars, held, expired, shared>>

\* Pop the front: closed transports are dropped, ...
SkipClosed(t) ==
    /\ pc[t] = "locked"
    /\ m_pool # <<>> /\ Head(m_pool) \notin open
    /\ m_pool' = Tail(m_pool)
    /\ shared' = shared \ {Head(m_pool)}
    /\ idle' = idle \ {Head(m_pool)}
    /\ UNCHANGED <<openConns, open, m_mutex, pc, held, expired>>

\* Wrong on purpose: a mutant of TooOld that RetireOnlyIdle must catch.
TooOldAnyway(t, c) == c \in expired[t]

\* ... timed-out ones too while more than minConns are open, ...
TooOld(t, c) == openConns > minConns /\ c \in expired[t]

\* Wrong on purpose: a mutant of SkipExpired that WithinMax must catch.
SkipExpiredTwice(t) ==
    /\ pc[t] = "locked"
    /\ m_pool # <<>> /\ Head(m_pool) \in open /\ TooOld(t, Head(m_pool))
    /\ m_pool' = Tail(m_pool)
    /\ openConns' = openConns - 2
    /\ open' = open \ {Head(m_pool)}
    /\ shared' = shared \ {Head(m_pool)}
    /\ idle' = idle \ {Head(m_pool)}
    /\ UNCHANGED <<m_mutex, pc, held, expired>>

SkipExpired(t) ==
    /\ pc[t] = "locked"
    /\ m_pool # <<>> /\ Head(m_pool) \in open /\ TooOld(t, Head(m_pool))
    /\ m_pool' = Tail(m_pool)
    /\ openConns' = openConns - 1
    /\ open' = open \ {Head(m_pool)}
    /\ shared' = shared \ {Head(m_pool)}
    /\ idle' = idle \ {Head(m_pool)}
    /\ UNCHANGED <<m_mutex, pc, held, expired>>

\* ... the first other one is returned.
TakeFront(t) ==
    /\ held' = [held EXCEPT ![t] = Head(m_pool)]
    /\ m_pool' = Tail(m_pool)
    /\ idle' = idle \ {Head(m_pool)}
    /\ expired' = [expired EXCEPT ![t] = {}]
    /\ shared' = shared \cup {Head(m_pool)}
    /\ Goto(t, "using")
    /\ UNCHANGED <<openConns, open>>

TakePooled(t) ==
    /\ pc[t] = "locked"
    /\ m_pool # <<>> /\ Head(m_pool) \in open /\ ~TooOld(t, Head(m_pool))
    /\ TakeFront(t)
    /\ m_mutex' = None

\* GetConnection leaves by an exception: the provider has no transport.
Fail(t) ==
    /\ Goto(t, "out")
    /\ expired' = [expired EXCEPT ![t] = {}]
    /\ UNCHANGED <<poolVars, held, shared>>

\* An empty pool: open one more if maxConns allows; connecting may fail.
Create(t) ==
    /\ pc[t] = "locked"
    /\ m_pool = <<>> /\ openConns < maxConns
    /\ \E c \in Conns \ (Pooled \cup Held) :
          /\ held' = [held EXCEPT ![t] = c]
          /\ open' = open \cup {c}
    /\ shared' = shared \cup {held'[t]}
    /\ openConns' = openConns + 1
    /\ expired' = [expired EXCEPT ![t] = {}]
    /\ Goto(t, "using")
    /\ m_mutex' = None
    /\ UNCHANGED <<m_pool, idle>>

ConnectFails(t) ==
    /\ pc[t] = "locked"
    /\ m_pool = <<>> /\ openConns < maxConns
    /\ Fail(t)
    /\ m_mutex' = None

\* Otherwise TimedWait, which releases the mutex.
Wait(t) ==
    /\ pc[t] = "locked"
    /\ m_pool = <<>> /\ openConns >= maxConns
    /\ Goto(t, "waiting")
    /\ m_mutex' = None
    /\ UNCHANGED <<poolVars, held, expired, shared>>

\* The wait ends by itself.  (A wake-up without a Broadcast looks the same.)
Timeout(t) ==
    /\ pc[t] = "waiting"
    /\ Goto(t, "timedout")
    /\ UNCHANGED <<poolVars, m_mutex, held, expired, shared>>

\* After the wait: the front of the pool, unexamined, or the exception.
TakeAfterWait(t) ==
    /\ pc[t] \in {"woken", "timedout"}
    /\ m_mutex = None
    /\ m_pool # <<>>
    /\ TakeFront(t)
    /\ UNCHANGED m_mutex

\* Wrong on purpose: a mutant of ThrowNonEnough that GetConnectionReturns must catch.
WaitAgain(t) ==
    /\ pc[t] \in {"woken", "timedout"}
    /\ m_mutex = None
    /\ m_pool = <<>>
    /\ Goto(t, "waiting")
    /\ UNCHANGED <<poolVars, m_mutex, held, expired, shared>>

ThrowNonEnough(t) ==
    /\ pc[t] \in {"woken", "timedout"}
    /\ m_mutex = None
    /\ m_pool = <<>>
    /\ Fail(t)
    /\ UNCHANGED m_mutex

\* The user closes its transport, for instance after a failed call.
Close(t) ==
    /\ pc[t] = "using"
    /\ open' = open \ {held[t]}
    /\ UNCHANGED <<m_pool, openConns, idle, m_mutex, pc, held, expired, shared>>

\* ~ConnectionProvider with an open transport: ReleaseConnection stamps it with
\* the time before it takes the mutex, ...
StampUseTime(t) ==
    /\ pc[t] = "using" /\ held[t] \in open
    /\ Goto(t, "releasing")
    /\ expired' = [u \in Threads |-> expired[u] \ {held[t]}]
    /\ UNCHANGED <<poolVars, m_mutex, held, shared>>

\* Wrong on purpose: a mutant of ReleaseConnection that Exclusive must catch.
ReleaseTwice(t) ==
    /\ pc[t] = "releasing"
    /\ m_mutex = None
    /\ m_pool' = Append(m_pool, held[t])
    /\ UNCHANGED <<openConns, open, idle, m_mutex, pc, held, expired, shared>>

\* Wrong on purpose: a mutant of ReleaseConnection that SleepOnlyWhenEmpty must catch.
ReleaseSilent(t) ==
    /\ pc[t] = "releasing"
    /\ m_mutex = None
    /\ m_pool' = Append(m_pool, held[t])
    /\ held' = [held EXCEPT ![t] = None]
    /\ Goto(t, "out")
    /\ UNCHANGED <<openConns, open, idle, m_mutex, expired, shared>>

\* ... appends it and wakes every waiter, both under the mutex.
ReleaseConnection(t) ==
    /\ pc[t] = "releasing"
    /\ m_mutex = None
    /\ m_pool' = Append(m_pool, held[t])
    /\ held' = [held EXCEPT ![t] = None]
    /\ pc' = [u \in Threads |-> IF u = t THEN "out"
                                ELSE IF pc[u] = "waiting" THEN "woken" ELSE pc[u]]
    /\ UNCHANGED <<openConns, open, idle, m_mutex, expired, shared>>

\* Wrong on purpose: a mutant of TerminateConnection that CountDriftsOnlyByClosed must catch.
TerminateUncounted(t) ==
    /\ pc[t] = "using" /\ held[t] \notin open
    /\ m_mutex = None
    /\ shared' = shared \ {held[t]}
    /\ held' = [held EXCEPT ![t] = None]
    /\ Goto(t, "out")
    /\ UNCHANGED <<m_pool, openConns, open, idle, m_mutex, expired>>

\* ~ConnectionProvider with a closed one: TerminateConnection.  No signal.
TerminateConnection(t) ==
    /\ pc[t] = "using" /\ held[t] \notin open
    /\ m_mutex = None
    /\ openConns' = openConns - 1
    /\ shared' = shared \ {held[t]}
    /\ held' = [held EXCEPT ![t] = None]
    /\ Goto(t, "out")
    /\ UNCHANGED <<m_pool, open, idle, m_mutex, expired>>

\* Transports that have their use_time and that no provider uses any more.
Unused == Pooled \cup {held[t] : t \in {u \in Threads : pc[u] = "releasing"}}

\* Time passes: a transport has been unused for longer than conTimeOut.
Age(c) ==
    /\ c \in Unused \ idle
    /\ idle' = idle \cup {c}
    /\ UNCHANGED <<m_pool, openConns, open, m_mutex, pc, held, expired, shared>>

\* A user that kept the shared_ptr closes a transport already given back.
CloseAfterRelease(c) ==
    /\ LateClose
    /\ c \in Unused \cap open \cap shared
    /\ open' = open \ {c}
    /\ UNCHANGED <<m_pool, openConns, idle, m_mutex, pc, held, expired, shared>>

GetConnection(t) ==
    \/ Lock(t) \/ SkipClosed(t) \/ SkipExpired(t) \/ TakePooled(t)
    \/ Create(t) \/ ConnectFails(t) \/ Wait(t)
    \/ Timeout(t) \/ TakeAfterWait(t) \/ ThrowNonEnough(t)

Next ==
    \/ \E t \in Threads :
          \/ GetTransport(t) \/ GetConnection(t)
          \/ Close(t) \/ StampUseTime(t) \/ ReleaseConnection(t) \/ TerminateConnection(t)
    \/ \E c \in Conns : Age(c) \/ CloseAfterRelease(c)

Spec == Init /\ [][Next]_vars

\* A thread in GetConnection goes on: it gets the mutex when it is free often
\* enough (nobody keeps it), runs its loop, and TimedWait expires.
Fairness == \A t \in Threads : SF_vars(GetConnection(t))

FairSpec == Spec /\ Fairness

-----------------------------------------------------------------------------
TypeOK ==
    /\ m_pool \in Seq(Conns)
    /\ openConns \in Int
    /\ m_mutex \in Threads \cup {None}
    /\ pc \in [Threads -> PC]
    /\ held \in [Threads -> Conns \cup {None}]
    /\ expired \in [Threads -> SUBSET Conns]
    /\ open \in SUBSET Conns
    /\ idle \in SUBSET Conns
    /\ shared \in SUBSET Conns

\* A transport is in one place only: no two providers share one, none is in the
\* pool while a provider uses it, and none is pooled twice.
Exclusive ==
    /\ \A t, u \in Holders : held[t] = held[u] => t = u
    /\ Held \cap Pooled = {}
    /\ \A i, j \in DOMAIN m_pool : m_pool[i] = m_pool[j] => i = j

\* connection_pool.h:62 "maximum number of connections": transports die in the
\* pool, age, are terminated and fail to open, and waiters take what they find;
\* openConns never falls below the number in use or pooled, nor exceeds maxConns.
WithinMax == Len(m_pool) + Cardinality(Holders) <= openConns /\ openConns <= maxConns

\* A thread sleeps in GetConnection only while the pool is empty: a transport
\* that comes back wakes every sleeper under the same lock.
SleepOnlyWhenEmpty == (\E t \in Threads : pc[t] = "waiting") => m_pool = <<>>

\* connection_pool.cpp:51, :67: now is read before the lock and may be old by
\* the time it is used; still only transports really idle for longer than the
\* timeout are retired, and never below minConns.
RetireOnlyIdle ==
    [][\A t \in Threads : SkipExpired(t) =>
          Head(m_pool) \in idle /\ openConns' >= minConns]_vars

\* Connections openConns counts that are neither pooled nor in use.
Drift == openConns - Len(m_pool) - Cardinality(Holders)

\* connection_pool.h:59, of openConns: "number of open connections".  Over all
\* the ways a transport is opened, handed over, retired and terminated, the
\* count departs from that in one case only: GetConnection finds a pooled
\* transport closed and drops it without counting down (connection_pool.cpp:64).
\* What is lost so is never made good.
CountDriftsOnlyByClosed ==
    [][Drift' # Drift => Drift' = Drift + 1 /\ \E t \in Threads : SkipClosed(t)]_vars

\* GetConnection returns or throws, whatever the other providers do.
GetConnectionReturns ==
    \A t \in Threads :
        (pc[t] \in PC \ {"out", "using", "releasing"}) ~> (pc[t] \in {"out", "using"})
=============================================================================

------------------------------- MODULE SyncComm ------------------------------
(***************************************************************************)
(* transport/sync_comm.{h,cpp}: callers turn an asynchronous request and   *)
(* its answer into a blocking call.  SendAndRecv stores a future under the *)
(* request id, sends the request and waits; the receiving threads call     *)
(* Return(id, response); SyncComm's own thread (Run) expires old futures.  *)
(*                                                                         *)
(* The cache is SessionCache.  A caller makes one call at a time, so its   *)
(* FutureSession object is named by the caller.  PopSession happens under  *)
(* the cache's mutex and SetValue after it: two steps, and Run's are one   *)
(* ClearTimeout followed by one SetValue per expired session.              *)
(*                                                                         *)
(* Between SendToQueue and Return lie AsyncMQClient, the broker and the    *)
(* peer: a request may be lost, or answered late, or answered twice.       *)
(***************************************************************************)
EXTENDS SessionCache

CONSTANTS Callers,      \* threads that call SendAndRecv
          Receivers,    \* threads that call Return
          Timeout,      \* argument of Init
          MaxSize,      \* the cache's m_max_size (100 in the code)
          Empty,        \* the empty string
          None          \* no id, no session, promise not set

ASSUME SyncAssumption ==
    /\ Callers \subseteq Sessions
    /\ IsFiniteSet(Callers)
    /\ Timeout \in 1..MaxAge
    /\ MaxSize \in Nat
    /\ Empty \notin Keys
    /\ None \notin Keys \cup Callers \cup {Empty}

VARIABLES
    pc,         \* caller: idle, send (future stored), wait (in GetValue)
    id,         \* the id of the caller's request
    promise,    \* the value of the caller's promise: None, Empty or an answer
    sent,       \* ids of requests handed to the transport
    returning,  \* receiver: the session it popped and the response to set
    expired     \* Run's timeout_session_list: sessions still to be failed

syncVars == <<pc, id, promise, sent, returning, expired>>
vars == <<cacheVars, syncVars>>

\* A response is named by the id of the request it answers, or is empty.
Responses == Keys \cup {Empty}
Nothing == [session |-> None, response |-> None]

Init ==
    /\ CacheInit(Timeout, MaxSize)
    /\ pc = [c \in Callers |-> "idle"]
    /\ id = [c \in Callers |-> None]
    /\ promise = [c \in Callers |-> None]
    /\ sent = {}
    /\ returning = [r \in Receivers |-> Nothing]
    /\ expired = <<>>

\* SendAndRecv: a new future goes into the cache ...
SendAndRecv(c, k) ==
    /\ pc[c] = "idle"
    /\ PushSession(k, c)
    /\ pc' = [pc EXCEPT ![c] = "send"]
    /\ id' = [id EXCEPT ![c] = k]
    /\ UNCHANGED <<promise, sent, returning, expired>>

\* ... or, when the id is in use, the call returns false at once,
DuplicateId(c, k) ==
    /\ pc[c] = "idle"
    /\ PushRejected(k)
    /\ UNCHANGED syncVars

\* ... the request goes to the send queue, which has no bound,
SendToQueue(c) ==
    /\ pc[c] = "send"
    /\ pc' = [pc EXCEPT ![c] = "wait"]
    /\ sent' = sent \cup {id[c]}
    /\ UNCHANGED <<cacheVars, id, promise, returning, expired>>

\* ... and GetValue returns once the promise is set.  The session dies here.
GetValue(c) ==
    /\ pc[c] = "wait"
    /\ promise[c] # None
    /\ pc' = [pc EXCEPT ![c] = "idle"]
    /\ id' = [id EXCEPT ![c] = None]
    /\ promise' = [promise EXCEPT ![c] = None]
    /\ UNCHANGED <<cacheVars, sent, returning, expired>>

\* Return(id, response): pop the session; false if it is no longer there.
Return(r, k, response) ==
    /\ returning[r] = Nothing
    /\ k \in sent
    /\ PopSession(k)
    /\ returning' = [returning EXCEPT
                       ![r] = [session |-> SessionOf(k), response |-> response]]
    /\ UNCHANGED <<pc, id, promise, sent, expired>>

\* Wrong on purpose: a mutant of ReturnSetValue that OrphanOnlyByPurge must catch.
ReturnSetValueNonEmpty(r) ==
    /\ returning[r] # Nothing
    /\ promise' = IF returning[r].response = Empty THEN promise
                  ELSE [promise EXCEPT ![returning[r].session] = returning[r].response]
    /\ returning' = [returning EXCEPT ![r] = Nothing]
    /\ UNCHANGED <<cacheVars, pc, id, sent, expired>>

ReturnSetValue(r) ==
    /\ returning[r] # Nothing
    /\ promise' = [promise EXCEPT ![returning[r].session] = returning[r].response]
    /\ returning' = [returning EXCEPT ![r] = Nothing]
    /\ UNCHANGED <<cacheVars, pc, id, sent, expired>>

\* Wrong on purpose: a mutant of RunClearTimeout that SetOnce must catch.
RunClearTimeoutKeeps ==
    /\ expired = <<>>
    /\ ExpiredCount(m_timeout) > 0
    /\ expired' = TimedOutSessions(m_timeout)
    /\ UNCHANGED <<cacheVars, pc, id, promise, sent, returning>>

\* Wrong on purpose: a mutant of RunClearTimeout that EveryCallReturns must catch.
RunClearTimeoutPairs ==
    /\ expired = <<>>
    /\ ExpiredCount(m_timeout) > 1
    /\ ClearTimeout(m_timeout)
    /\ expired' = TimedOutSessions(m_timeout)
    /\ UNCHANGED <<pc, id, promise, sent, returning>>

\* One round of Run: take the expired sessions out of the cache, then fail
\* them one after the other with the empty string.
RunClearTimeout ==
    /\ expired = <<>>
    /\ ExpiredCount(m_timeout) > 0
    /\ ClearTimeout(m_timeout)
    /\ expired' = TimedOutSessions(m_timeout)
    /\ UNCHANGED <<pc, id, promise, sent, returning>>

RunSetValue ==
    /\ expired # <<>>
    /\ promise' = [promise EXCEPT ![Head(expired)] = Empty]
    /\ expired' = Tail(expired)
    /\ UNCHANGED <<cacheVars, pc, id, sent, returning>>

Second == Tick /\ UNCHANGED syncVars

Next ==
    \/ \E c \in Callers :
          \/ \E k \in Keys : SendAndRecv(c, k) \/ DuplicateId(c, k)
          \/ SendToQueue(c)
          \/ GetValue(c)
    \/ \E r \in Receivers :
          \/ \E k \in Keys : \E response \in {k, Empty} : Return(r, k, response)
          \/ ReturnSetValue(r)
    \/ RunClearTimeout
    \/ RunSetValue
    \/ Second

Spec == Init /\ [][Next]_vars

\* Threads of this process keep running and time passes.  That an answer ever
\* comes (Return) is up to the peer, and that a call is made to the client.
Fairness ==
    /\ \A c \in Callers : WF_vars(SendToQueue(c) \/ GetValue(c))
    /\ \A r \in Receivers : WF_vars(ReturnSetValue(r))
    /\ WF_vars(RunClearTimeout \/ RunSetValue) /\ WF_vars(Second)

FairSpec == Spec /\ Fairness

-----------------------------------------------------------------------------
Returning == [session : Callers, response : Responses]

TypeOK ==
    /\ CacheTypeOK
    /\ \A i \in DOMAIN m_list : m_list[i].value \in Callers
    /\ pc \in [Callers -> {"idle", "send", "wait"}]
    /\ id \in [Callers -> Keys \cup {None}]
    /\ promise \in [Callers -> Responses \cup {None}]
    /\ sent \in SUBSET Keys
    /\ returning \in [Receivers -> Returning \cup {Nothing}]
    /\ expired \in Seq(Callers)

\* Who may still set the promise of caller c.
InCache(c)  == {i \in DOMAIN m_list : m_list[i].value = c}
InReturn(c) == {r \in Receivers : returning[r] # Nothing /\ returning[r].session = c}
InRun(c)    == {i \in DOMAIN expired : expired[i] = c}
Owners(c)   == Cardinality(InCache(c)) + Cardinality(InReturn(c)) + Cardinality(InRun(c))

\* sync_comm.h:25: boost's promise throws when it is set twice, which would end
\* the thread that does it.  At any moment at most one party (the cache, a
\* receiver, the expiry thread) holds a session, and none once its promise is
\* set, although the answer, its duplicate and the timeout race.
SetOnce ==
    \A c \in Callers :
        /\ Owners(c) <= 1
        /\ promise[c] # None \/ pc[c] = "idle" => Owners(c) = 0

\* sync_comm.cpp:67: the answer a caller gets carries the id of its own request,
\* whatever is answered late, twice, or while others expire and are purged.
\* (Two requests sent one after the other under the same id are one to Return.)
OwnAnswer ==
    \A c \in Callers : promise[c] \notin {None, Empty} => promise[c] = id[c]

\* A caller that waits, or is about to, and that nobody will wake.
Orphan(c) == pc[c] # "idle" /\ promise[c] = None /\ Owners(c) = 0

\* session_cache.h:72: only the purge inside PushSession, and only with the
\* cache over its size, makes an orphan: it drops expired sessions without
\* failing their futures.
OrphanOnlyByPurge ==
    [][(\E c \in Callers : ~Orphan(c) /\ Orphan(c)') =>
          /\ Cardinality(m_map) > m_max_size
          /\ \E c \in Callers, k \in Keys : SendAndRecv(c, k) \/ DuplicateId(c, k)]_vars

\* sync_comm.cpp:67: GetValue has no timeout of its own.  Still every call comes
\* back, by an answer or by the expiry thread, unless the purge orphans it.
EveryCallReturns ==
    \A c \in Callers : (pc[c] # "idle") ~> (pc[c] = "idle" \/ Orphan(c))
=============================================================================

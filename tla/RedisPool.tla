------------------------------ MODULE RedisPool ------------------------------
(***************************************************************************)
(* The connections of one Redis server (CRedisServer and CRedisConnection  *)
(* of redis_client/redisclient.cpp): a queue of idle connections and a     *)
(* list of broken ones, each under its own mutex; threads that fetch a     *)
(* connection, send a command over it, reconnect and send it once more     *)
(* when that fails, and give it back; the server's own thread that repairs *)
(* broken connections every two seconds.                                   *)
(*                                                                         *)
(* The names that RedisKeys has too are prefixed here, so that one module  *)
(* can be about both.                                                      *)
(***************************************************************************)
EXTENDS Integers, SequencesExt

CONSTANTS Threads, Conns,
          RQST_RETRY_TIMES,   \* how often a thread looks for a connection
          NULL

ASSUME RedisPoolAssumption ==
    /\ IsFiniteSet(Threads) /\ IsFiniteSet(Conns)
    /\ RQST_RETRY_TIMES \in Nat \ {0}
    /\ NULL \notin Conns

VARIABLES
    m_queIdleConn,
    m_listBadConn,
    m_pContext,   \* conn: "null", "ok", or "broken" (not NULL, but of no use)
    at,           \* thread: idle, fetch, connect, request, reconnect, resend, return
    pRedisConn,   \* thread: the connection it has
    nTry,         \* thread: looks left
    nRet,         \* thread: has the command succeeded?
    executed,     \* thread: history, how often Redis executed the command
    repaired,     \* CheckConnection: tmpVec
    last          \* CheckConnection: its pRedisConn

connVars   == <<m_queIdleConn, m_listBadConn, m_pContext>>
threadVars == <<at, pRedisConn, nTry, nRet, executed>>
checkVars  == <<repaired, last>>
poolVars   == <<connVars, threadVars, checkVars>>

\* Initialize: the connections that cannot connect start in the bad list.
PoolInit ==
    /\ \E good \in SUBSET Conns :
          /\ m_queIdleConn = SetToSeq(good)
          /\ m_listBadConn = SetToSeq(Conns \ good)
          /\ m_pContext = [c \in Conns |-> IF c \in good THEN "ok" ELSE "null"]
    /\ at = [t \in Threads |-> "idle"]
    /\ pRedisConn = [t \in Threads |-> NULL]
    /\ nTry = [t \in Threads |-> 0]
    /\ nRet = [t \in Threads |-> FALSE]
    /\ executed = [t \in Threads |-> 0]
    /\ repaired = <<>>
    /\ last = NULL

-----------------------------------------------------------------------------
(* A thread in ServRequest.                                                *)

MoveTo(t, next) == at' = [at EXCEPT ![t] = next]

\* The loop looks three times, five milliseconds apart.
ServRequest(t) ==
    /\ at[t] = "idle"
    /\ MoveTo(t, "fetch")
    /\ nTry' = [nTry EXCEPT ![t] = RQST_RETRY_TIMES]
    /\ UNCHANGED <<connVars, pRedisConn, nRet, executed, checkVars>>

FetchConnection(t) ==
    /\ at[t] = "fetch"
    /\ m_queIdleConn # <<>>
    /\ pRedisConn' = [pRedisConn EXCEPT ![t] = Head(m_queIdleConn)]
    /\ m_queIdleConn' = Tail(m_queIdleConn)
    /\ nTry' = [nTry EXCEPT ![t] = 0]
    /\ MoveTo(t, IF m_pContext[Head(m_queIdleConn)] = "null" THEN "connect" ELSE "request")
    /\ UNCHANGED <<m_listBadConn, m_pContext, nRet, executed, checkVars>>

\* Wrong on purpose: a mutant of FetchNothing that ServRequestReturns must catch.
FetchNothingWaitsOn(t) ==
    /\ at[t] = "fetch"
    /\ m_queIdleConn = <<>>
    /\ UNCHANGED poolVars

\* None idle: look again, or return RC_NO_RESOURCE.
FetchNothing(t) ==
    /\ at[t] = "fetch"
    /\ m_queIdleConn = <<>>
    /\ nTry' = [nTry EXCEPT ![t] = @ - 1]
    /\ MoveTo(t, IF nTry[t] = 1 THEN "idle" ELSE "fetch")
    /\ UNCHANGED <<connVars, pRedisConn, nRet, executed, checkVars>>

\* ConnRequest on a connection without a context connects first; Reconnect
\* frees the old context, and leaves NULL if it fails.
Reconnect(t) ==
    /\ at[t] \in {"connect", "reconnect"}
    /\ \E ok \in BOOLEAN :
          /\ m_pContext' = [m_pContext EXCEPT ![pRedisConn[t]] = IF ok THEN "ok" ELSE "null"]
          /\ MoveTo(t, IF ~ok THEN "return"
                       ELSE IF at[t] = "connect" THEN "request" ELSE "resend")
    /\ UNCHANGED <<m_queIdleConn, m_listBadConn, pRedisConn, nTry, nRet, executed, checkVars>>

\* CmdRequest: the command is executed and answered ...
CmdRequest(t) ==
    /\ at[t] \in {"request", "resend"}
    /\ m_pContext[pRedisConn[t]] = "ok"
    /\ executed' = [executed EXCEPT ![t] = @ + 1]
    /\ nRet' = [nRet EXCEPT ![t] = TRUE]
    /\ MoveTo(t, "return")
    /\ UNCHANGED <<connVars, pRedisConn, nTry, checkVars>>

\* Wrong on purpose: a mutant of CmdRequestError that ResultMeansExecuted must catch.
CmdRequestErrorReportsDone(t) ==
    /\ at[t] \in {"request", "resend"}
    /\ m_pContext' = [m_pContext EXCEPT ![pRedisConn[t]] = "broken"]
    /\ nRet' = [nRet EXCEPT ![t] = at[t] = "resend"]
    /\ MoveTo(t, IF at[t] = "request" THEN "reconnect" ELSE "return")
    /\ UNCHANGED <<m_queIdleConn, m_listBadConn, pRedisConn, nTry, executed, checkVars>>

\* ... or no answer comes, whether it was executed or not, and the context is
\* of no use any more.
CmdRequestError(t) ==
    /\ at[t] \in {"request", "resend"}
    /\ \/ m_pContext[pRedisConn[t]] = "ok" /\ executed' = [executed EXCEPT ![t] = @ + 1]
       \/ UNCHANGED executed
    /\ m_pContext' = [m_pContext EXCEPT
                        ![pRedisConn[t]] = IF @ = "null" THEN "null" ELSE "broken"]
    /\ MoveTo(t, IF at[t] = "request" THEN "reconnect" ELSE "return")
    /\ UNCHANGED <<m_queIdleConn, m_listBadConn, pRedisConn, nTry, nRet, checkVars>>

\* Wrong on purpose: a mutant of ReturnConnection that OnlyRepairMisplaces must catch.
ReturnConnectionTwice(t) ==
    /\ at[t] = "return"
    /\ m_queIdleConn' = Append(m_queIdleConn, pRedisConn[t])
    /\ m_listBadConn' = IF m_pContext[pRedisConn[t]] = "broken"
                        THEN Append(m_listBadConn, pRedisConn[t])
                        ELSE m_listBadConn
    /\ MoveTo(t, "idle")
    /\ pRedisConn' = [pRedisConn EXCEPT ![t] = NULL]
    /\ nRet' = [nRet EXCEPT ![t] = FALSE]
    /\ executed' = [executed EXCEPT ![t] = 0]
    /\ UNCHANGED <<m_pContext, nTry, checkVars>>

\* ReturnConnection: a connection with a context is taken for a good one.
ReturnConnection(t) ==
    /\ at[t] = "return"
    /\ \/ /\ m_pContext[pRedisConn[t]] # "null"
          /\ m_queIdleConn' = Append(m_queIdleConn, pRedisConn[t])
          /\ UNCHANGED m_listBadConn
       \/ /\ m_pContext[pRedisConn[t]] = "null"
          /\ m_listBadConn' = Append(m_listBadConn, pRedisConn[t])
          /\ UNCHANGED m_queIdleConn
    /\ MoveTo(t, "idle")
    /\ pRedisConn' = [pRedisConn EXCEPT ![t] = NULL]
    /\ nRet' = [nRet EXCEPT ![t] = FALSE]
    /\ executed' = [executed EXCEPT ![t] = 0]
    /\ UNCHANGED <<m_pContext, nTry, checkVars>>

-----------------------------------------------------------------------------
(* The repair thread: CheckConnection.                                     *)

\* The elements of s at some of its positions, in their order.
Pick(s, positions) ==
    LET n    == Cardinality(positions)
        nth  == CHOOSE e \in [1..n -> positions] : \A i, j \in 1..n : i < j => e[i] < e[j]
    IN  [i \in 1..n |-> s[nth[i]]]

\* Under m_mutexBadConn it tries every entry of the list; the ones that connect
\* go to tmpVec.  pRedisConn is left at the last one it tried.  A connection
\* that is in the list twice is tried twice, and the second try counts.
CheckReconnect ==
    /\ repaired = <<>>
    /\ m_listBadConn # <<>>
    /\ \E good \in SUBSET DOMAIN m_listBadConn :
          /\ repaired' = Pick(m_listBadConn, good)
          /\ m_listBadConn' = Pick(m_listBadConn, DOMAIN m_listBadConn \ good)
          /\ m_pContext' = [c \in Conns |->
                LET tries == {i \in DOMAIN m_listBadConn : m_listBadConn[i] = c}
                IN  IF tries = {} THEN m_pContext[c]
                    ELSE IF Max(tries) \in good THEN "ok" ELSE "null"]
    /\ last' = Last(m_listBadConn)
    /\ UNCHANGED <<m_queIdleConn, threadVars>>

\* Under m_mutexConn it pushes pRedisConn once for each of them.
CheckPush ==
    /\ repaired # <<>>
    /\ m_queIdleConn' = m_queIdleConn \o [i \in DOMAIN repaired |-> last]
    /\ repaired' = <<>>
    /\ last' = NULL
    /\ UNCHANGED <<m_listBadConn, m_pContext, threadVars>>

Step(t) ==
    \/ FetchConnection(t) \/ FetchNothing(t) \/ Reconnect(t)
    \/ CmdRequest(t) \/ CmdRequestError(t) \/ ReturnConnection(t)

PoolNext ==
    \/ \E t \in Threads : ServRequest(t) \/ Step(t)
    \/ CheckReconnect
    \/ CheckPush

PoolSpec == PoolInit /\ [][PoolNext]_poolVars

\* Threads in a call run on, and the repair thread finishes what it began.
PoolFairSpec == PoolSpec /\ (\A t \in Threads : WF_poolVars(Step(t))) /\ WF_poolVars(CheckPush)

-----------------------------------------------------------------------------
\* Where a connection is, and how often.
Count(s, c)  == Cardinality({i \in DOMAIN s : s[i] = c})
Holders(c)   == {t \in Threads : pRedisConn[t] = c}
Places(c)    == Count(m_queIdleConn, c) + Count(m_listBadConn, c)
                  + Count(repaired, c) + Cardinality(Holders(c))

\* redisclient.cpp:957-985: a connection is idle, broken, under repair or with
\* one thread: never shared and never lost.  redisclient.cpp:1052 is the only
\* step that breaks this: it pushes one pointer for all repaired connections,
\* so that with more than one, or with one that is not the last of the list,
\* some are lost and another is queued although it is queued, in use or broken.
OnePlace == \A c \in Conns : Places(c) = 1

OnlyRepairMisplaces ==
    [][OnePlace => OnePlace' \/ (CheckPush /\ repaired # <<last>>)]_poolVars

\* redisclient.cpp:848-858: the result tells what happened: a command reported
\* done was executed, at most twice, and one never sent again is never executed
\* twice; a failed one may have been executed too.
ResultMeansExecuted ==
    \A t \in Threads :
        /\ executed[t] <= 2
        /\ nRet[t] => executed[t] >= 1
        /\ at[t] \in {"connect", "request"} => executed[t] = 0

\* redisclient.cpp:1061: no call hangs: with no connection left it gives up.
ServRequestReturns == \A t \in Threads : at[t] # "idle" ~> at[t] = "idle"
=============================================================================

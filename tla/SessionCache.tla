---------------------------- MODULE SessionCache -----------------------------
(***************************************************************************)
(* The session cache of transport/session_cache.h: a list of nodes in      *)
(* arrival order and a map from key to list node, both under m_mutex.      *)
(*                                                                         *)
(* The code only ever compares curtime - timestamp with a timeout, so a    *)
(* node keeps its age instead of its timestamp; ages stop growing at       *)
(* MaxAge, which is no smaller than any timeout in use.  The map's value   *)
(* is an iterator to the node with the same key, so the map is kept as     *)
(* its set of keys.                                                        *)
(***************************************************************************)
EXTENDS Integers, Sequences, FiniteSets

CONSTANTS Keys,       \* session ids
          Sessions,   \* what is stored: futures, reply addresses
          Timeouts,   \* the values passed to SetTimeout and ClearTimeout(int)
          MaxSizes,   \* the values passed to SetMaxSize
          MaxAge      \* bound: ages are not told apart beyond it

ASSUME CacheAssumption ==
    /\ Timeouts \subseteq Int
    /\ MaxSizes \subseteq Nat
    /\ MaxAge \in Nat
    /\ \A to \in Timeouts : to <= MaxAge

VARIABLES
    m_list,      \* the nodes, oldest first
    m_map,       \* the keys of the map
    m_timeout,
    m_max_size,
    m_mutex      \* "free", or "stuck": its owner waits for it itself

cacheVars == <<m_list, m_map, m_timeout, m_max_size, m_mutex>>

Node == [key : Keys, value : Sessions, age : 0..MaxAge]

KeysOf(s) == {s[i].key : i \in DOMAIN s}

CacheInit(timeout, maxSize) ==
    /\ m_list = <<>>
    /\ m_map = {}
    /\ m_timeout = timeout
    /\ m_max_size = maxSize
    /\ m_mutex = "free"

-----------------------------------------------------------------------------
\* Wrong on purpose: a mutant of ExpiredCount that ClearTimeoutComplete must catch.
ExpiredCountStrict(timeout) ==
    CHOOSE n \in 0..Len(m_list) :
        /\ \A i \in 1..n : m_list[i].age > timeout
        /\ n < Len(m_list) => m_list[n + 1].age <= timeout

\* The clean-up loops walk from the front and stop at the first node that has
\* not expired: the number of nodes they erase.
ExpiredCount(timeout) ==
    CHOOSE n \in 0..Len(m_list) :
        /\ \A i \in 1..n : m_list[i].age >= timeout
        /\ n < Len(m_list) => m_list[n + 1].age < timeout

\* AutoClearTimeout does nothing unless the map is over its size.
AutoClearCount ==
    IF Cardinality(m_map) > m_max_size THEN ExpiredCount(m_timeout) ELSE 0

\* What remains after the first n nodes are erased from list and map.
ListAfter(n) == SubSeq(m_list, n + 1, Len(m_list))
MapAfter(n)  == m_map \ KeysOf(SubSeq(m_list, 1, n))

Settings == <<m_timeout, m_max_size, m_mutex>>

\* PushSession: purge if oversized, then insert unless the key is there.
PushAccepts(k) == k \notin MapAfter(AutoClearCount)

\* Wrong on purpose: a mutant of PushSession that OldestFirst must catch.
PushSessionFront(k, v) ==
    /\ m_mutex = "free"
    /\ PushAccepts(k)
    /\ m_list' = <<[key |-> k, value |-> v, age |-> 0]>> \o ListAfter(AutoClearCount)
    /\ m_map' = MapAfter(AutoClearCount) \cup {k}
    /\ UNCHANGED Settings

PushSession(k, v) ==
    /\ m_mutex = "free"
    /\ PushAccepts(k)
    /\ m_list' = Append(ListAfter(AutoClearCount), [key |-> k, value |-> v, age |-> 0])
    /\ m_map' = MapAfter(AutoClearCount) \cup {k}
    /\ UNCHANGED Settings

\* Wrong on purpose: a mutant of PushRejected that MapMatchesList must catch.
PushRejectedHalf(k) ==
    /\ m_mutex = "free"
    /\ ~PushAccepts(k)
    /\ m_list' = ListAfter(AutoClearCount)
    /\ UNCHANGED <<m_map, Settings>>

PushRejected(k) ==
    /\ m_mutex = "free"
    /\ ~PushAccepts(k)
    /\ m_list' = ListAfter(AutoClearCount)
    /\ m_map' = MapAfter(AutoClearCount)
    /\ UNCHANGED Settings

\* Wrong on purpose: a mutant of Iter that OwnAnswer must catch.
IterFirst(k) == 1

\* The iterator stored under k, and the value behind it.
Iter(k) == CHOOSE i \in DOMAIN m_list : m_list[i].key = k
SessionOf(k) == m_list[Iter(k)].value

\* PopSession and DelSession: erase the node and the key; PopSession also
\* hands out SessionOf(k).  Both return false when the key is absent.
PopSession(k) ==
    /\ m_mutex = "free"
    /\ k \in m_map
    /\ m_list' = SubSeq(m_list, 1, Iter(k) - 1) \o SubSeq(m_list, Iter(k) + 1, Len(m_list))
    /\ m_map' = m_map \ {k}
    /\ UNCHANGED Settings

\* PopFirstSession locks m_mutex and calls Size(), which locks it again: the
\* mutex is not recursive, so the thread waits for itself.
PopFirstSession ==
    /\ m_mutex = "free"
    /\ m_mutex' = "stuck"
    /\ UNCHANGED <<m_list, m_map, m_timeout, m_max_size>>

\* ClearTimeout(), ClearTimeout(timeout) and ClearTimeout(values, keys), which
\* also returns the sessions it erased.
ClearTimeout(timeout) ==
    /\ m_mutex = "free"
    /\ m_list' = ListAfter(ExpiredCount(timeout))
    /\ m_map' = MapAfter(ExpiredCount(timeout))
    /\ UNCHANGED Settings

TimedOutSessions(timeout) ==
    [i \in 1..ExpiredCount(timeout) |-> m_list[i].value]

ClearAll ==
    /\ m_mutex = "free"
    /\ m_list' = <<>>
    /\ m_map' = {}
    /\ UNCHANGED Settings

\* The setters do not take the mutex.
SetTimeout(timeout) ==
    /\ m_timeout' = IF timeout > 0 THEN timeout ELSE m_timeout
    /\ UNCHANGED <<m_list, m_map, m_max_size, m_mutex>>

SetMaxSize(size) ==
    /\ m_max_size' = size
    /\ UNCHANGED <<m_list, m_map, m_timeout, m_mutex>>

\* time(NULL) moves on by one second.
Older(n) == [n EXCEPT !.age = IF @ < MaxAge THEN @ + 1 ELSE MaxAge]

Tick ==
    /\ m_list' = [i \in DOMAIN m_list |-> Older(m_list[i])]
    /\ UNCHANGED <<m_map, m_timeout, m_max_size, m_mutex>>

-----------------------------------------------------------------------------
(* The cache on its own: threads call every operation in any order.        *)

CacheNext ==
    \/ \E k \in Keys, v \in Sessions : PushSession(k, v)
    \/ \E k \in Keys : PushRejected(k) \/ PopSession(k)
    \/ PopFirstSession
    \/ ClearTimeout(m_timeout)
    \/ \E to \in Timeouts : ClearTimeout(to) \/ SetTimeout(to)
    \/ \E s \in MaxSizes : SetMaxSize(s)
    \/ ClearAll
    \/ Tick

CacheSpec ==
    /\ CacheInit(MaxAge, CHOOSE s \in MaxSizes : \A x \in MaxSizes : x <= s)
    /\ [][CacheNext]_cacheVars

\* Whatever can run keeps running.
CacheFairSpec == CacheSpec /\ WF_cacheVars(CacheNext)

-----------------------------------------------------------------------------
CacheTypeOK ==
    /\ m_list \in Seq(Node)
    /\ m_map \in SUBSET Keys
    /\ m_timeout \in Int
    /\ m_max_size \in Nat
    /\ m_mutex \in {"free", "stuck"}

\* session_cache.h:61 assert(m_list.size() == m_map.size()), :105 and :121
\* assert(mapIt->second->key == key_): list and map hold the same keys, each
\* once, after any sequence of inserts, removals, purges and rejected inserts.
MapMatchesList ==
    /\ m_map = KeysOf(m_list)
    /\ \A i, j \in DOMAIN m_list : m_list[i].key = m_list[j].key => i = j

\* Every clean-up loop stops at the first node that is young enough: right only
\* if the list is ordered by age, oldest first.
OldestFirst ==
    \A i, j \in DOMAIN m_list : i < j => m_list[i].age >= m_list[j].age

\* So after a clean-up nothing older than the timeout is left, wherever in the
\* list it was.
ClearTimeoutComplete ==
    [][\A to \in Timeouts : ClearTimeout(to) =>
          \A i \in DOMAIN m_list' : m_list'[i].age < to]_cacheVars

\* session_cache.h:147 "delete the first node and return it": PopFirstSession
\* comes back to its caller.
PopFirstReturns == (m_mutex = "stuck") ~> (m_mutex = "free")
=============================================================================

------------------------ MODULE ConnectionPoolProofs -------------------------
(***************************************************************************)
(* For every set of threads and transports and all bounds: a transport has *)
(* one place, the pool keeps to maxConns, nobody sleeps beside a pooled    *)
(* transport, only idle ones are retired, and the count of open transports *)
(* drifts in one way only.                                                 *)
(***************************************************************************)
EXTENDS ConnectionPool, TLAPS, FiniteSetTheorems, SequenceTheorems

\* The provider has a transport exactly between GetConnection and its return.
InPlace == \A t \in Threads : held[t] # None <=> pc[t] \in {"using", "releasing"}

\* connection_pool.cpp:51: what a thread takes for expired by its old reading of
\* the clock is idle still, if no provider has taken it in the meantime.
ExpiredAreIdle == \A t \in Threads : expired[t] \cap Unused \subseteq idle

\* No transport is pooled twice (part of Exclusive).
Distinct == \A i, j \in DOMAIN m_pool : m_pool[i] = m_pool[j] => i = j

\* The inductive invariant.
IInv == /\ TypeOK /\ InPlace /\ Exclusive
        /\ WithinMax /\ SleepOnlyWhenEmpty /\ ExpiredAreIdle

-----------------------------------------------------------------------------
\* Taking the front of the pool removes that transport and no other.
LEMMA PopFront ==
    ASSUME m_pool \in Seq(Conns), Distinct, m_pool # <<>>, m_pool' = Tail(m_pool)
    PROVE  /\ Head(m_pool) \in Conns /\ Head(m_pool) \in Pooled
           /\ m_pool' \in Seq(Conns) /\ Len(m_pool') = Len(m_pool) - 1
           /\ Pooled' = Pooled \ {Head(m_pool)}
           /\ Distinct'
  <1> DEFINE n == Len(m_pool)
  <1>1. n \in Nat /\ n > 0 /\ DOMAIN m_pool = 1 .. n
    BY LenProperties, EmptySeq
  <1>2. /\ Head(m_pool) \in Conns /\ m_pool' \in Seq(Conns) /\ Len(m_pool') = n - 1
        /\ \A i \in 1 .. Len(m_pool') : m_pool'[i] = m_pool[i + 1]
    BY HeadTailProperties
  <1>3. DOMAIN m_pool' = 1 .. (n - 1)
    BY <1>2, LenProperties
  <1>4. Head(m_pool) = m_pool[1]
    OBVIOUS
  <1> HIDE DEF n
  <1>5. Distinct'
    <2> SUFFICES ASSUME NEW i \in 1 .. (n - 1), NEW j \in 1 .. (n - 1), m_pool'[i] = m_pool'[j]
                 PROVE  i = j
      BY <1>3 DEF Distinct
    <2>1. m_pool[i + 1] = m_pool[j + 1] /\ i + 1 \in 1 .. n /\ j + 1 \in 1 .. n
      BY <1>1, <1>2
    <2>2. i + 1 = j + 1
      BY <1>1, <2>1 DEF Distinct
    <2> QED
      BY <2>2
  <1>6. Pooled' = Pooled \ {Head(m_pool)}
    <2>1. ASSUME NEW i \in 1 .. (n - 1)
          PROVE  m_pool'[i] \in Pooled \ {Head(m_pool)}
      <3>1. i + 1 \in 1 .. n /\ i + 1 # 1 /\ 1 \in 1 .. n /\ m_pool'[i] = m_pool[i + 1]
        BY <1>1, <1>2
      <3>2. m_pool[i + 1] # m_pool[1]
        BY <1>1, <3>1 DEF Distinct
      <3> QED
        BY <1>1, <1>4, <3>1, <3>2 DEF Pooled
    <2>2. ASSUME NEW i \in 1 .. n, m_pool[i] # m_pool[1]
          PROVE  m_pool[i] \in Pooled'
      <3>1. i - 1 \in 1 .. (n - 1) /\ m_pool'[i - 1] = m_pool[i - 1 + 1] /\ i - 1 + 1 = i
        BY <1>1, <1>2, <2>2
      <3> QED
        BY <1>3, <3>1 DEF Pooled
    <2> QED
      BY <1>1, <1>3, <1>4, <2>1, <2>2 DEF Pooled
  <1>7. Head(m_pool) \in Pooled
    BY <1>1, <1>4 DEF Pooled
  <1> QED
    BY <1>2, <1>5, <1>6, <1>7 DEF n

\* Giving a transport back adds it and no other.
LEMMA PushBack ==
    ASSUME m_pool \in Seq(Conns), Distinct, NEW c \in Conns, c \notin Pooled,
           m_pool' = Append(m_pool, c)
    PROVE  /\ m_pool' \in Seq(Conns) /\ Len(m_pool') = Len(m_pool) + 1
           /\ Pooled' = Pooled \cup {c}
           /\ Distinct'
  <1> DEFINE n == Len(m_pool)
  <1>1. n \in Nat /\ DOMAIN m_pool = 1 .. n
    BY LenProperties
  <1>2. /\ m_pool' \in Seq(Conns) /\ Len(m_pool') = n + 1
        /\ \A i \in 1 .. n : m_pool'[i] = m_pool[i]
        /\ m_pool'[n + 1] = c
    BY AppendProperties
  <1>3. DOMAIN m_pool' = 1 .. (n + 1)
    BY <1>2, LenProperties
  <1> HIDE DEF n
  <1>4. \A i \in 1 .. (n + 1) : i \in 1 .. n \/ i = n + 1
    BY <1>1
  <1>5. \A i \in 1 .. n : i \in 1 .. (n + 1) /\ n + 1 \in 1 .. (n + 1)
    BY <1>1
  <1>6. n + 1 \in 1 .. (n + 1)
    BY <1>1
  <1>7. Pooled' = Pooled \cup {c}
    BY <1>1, <1>2, <1>3, <1>4, <1>5, <1>6 DEF Pooled
  <1>8. Distinct'
    BY <1>1, <1>2, <1>3, <1>4, <1>5 DEF Distinct, Pooled
  <1> QED
    BY <1>2, <1>7, <1>8 DEF n

\* The number of providers with a transport, when one gains or loses its own.
LEMMA HolderCount ==
    ASSUME TypeOK, NEW t \in Threads, NEW x \in Conns \cup {None},
           held' = [held EXCEPT ![t] = x]
    PROVE  /\ Cardinality(Holders) \in Nat /\ Cardinality(Holders') \in Nat
           /\ held[t] = None /\ x # None => Cardinality(Holders') = Cardinality(Holders) + 1
           /\ held[t] # None /\ x = None => Cardinality(Holders') = Cardinality(Holders) - 1
  <1>1. Holders \in SUBSET Threads /\ Holders' \in SUBSET Threads
    BY DEF Holders
  <1>2. IsFiniteSet(Holders) /\ IsFiniteSet(Holders')
    BY <1>1, FS_Subset, PoolAssumption
  <1>3. Cardinality(Holders) \in Nat /\ Cardinality(Holders') \in Nat
    BY <1>2, FS_CardinalityType
  <1>4. ASSUME held[t] = None, x # None
        PROVE  Cardinality(Holders') = Cardinality(Holders) + 1
    <2>1. Holders' = Holders \cup {t} /\ t \notin Holders
      BY <1>4 DEF TypeOK, Holders
    <2> QED
      BY <1>2, <2>1, FS_AddElement
  <1>5. ASSUME held[t] # None, x = None
        PROVE  Cardinality(Holders') = Cardinality(Holders) - 1
    <2>1. Holders' = Holders \ {t} /\ t \in Holders
      BY <1>5 DEF TypeOK, Holders
    <2> QED
      BY <1>2, <2>1, FS_RemoveElement
  <1> QED
    BY <1>3, <1>4, <1>5

\* Drift, openConns and the holders' count are numbers.
LEMMA CountsAreNumbers ==
    ASSUME TypeOK
    PROVE  Len(m_pool) \in Nat /\ openConns \in Int /\ Cardinality(Holders) \in Nat
  <1>1. Holders \in SUBSET Threads
    BY DEF Holders
  <1>2. Cardinality(Holders) \in Nat
    BY <1>1, FS_Subset, FS_CardinalityType, PoolAssumption
  <1> QED
    BY <1>2 DEF TypeOK

-----------------------------------------------------------------------------
\* What each step does to the three numbers behind WithinMax.
LEMMA CountStep ==
    ASSUME IInv, [Next]_vars
    PROVE  /\ openConns' \in Int /\ openConns' <= maxConns
           /\ Len(m_pool') \in Nat /\ Cardinality(Holders') \in Nat
           /\ Drift' = Drift \/ (Drift' = Drift + 1 /\ \E t \in Threads : SkipClosed(t))
  <1> DEFINE n == Len(m_pool)   n2 == Len(m_pool')
             k == Cardinality(Holders)   k2 == Cardinality(Holders')
  <1> USE DEF IInv
  <1>1. n \in Nat /\ k \in Nat /\ openConns \in Int /\ openConns <= maxConns /\ maxConns \in Nat
    BY CountsAreNumbers, PoolAssumption DEF WithinMax
  <1>2. m_pool \in Seq(Conns) /\ Distinct
    BY DEF TypeOK, Exclusive, Distinct
  <1>3. Drift = openConns - n - k /\ Drift' = openConns' - n2 - k2
    BY DEF Drift
  <1>4. m_pool' = m_pool => n2 = n
    OBVIOUS
  <1>5. held' = held => k2 = k
    BY DEF Holders
  <1>6. m_pool # <<>> /\ m_pool' = Tail(m_pool) => n2 = n - 1 /\ Head(m_pool) \in Conns
    BY <1>2, PopFront
  <1>7. ASSUME NEW t \in Threads, NEW x \in Conns, pc[t] \notin {"using", "releasing"},
               held' = [held EXCEPT ![t] = x]
        PROVE  k2 = k + 1
    BY <1>7, HolderCount, PoolAssumption DEF InPlace
  <1>8. ASSUME NEW t \in Threads, pc[t] \in {"using", "releasing"},
               held' = [held EXCEPT ![t] = None]
        PROVE  k2 = k - 1 /\ held[t] \in Conns
    BY <1>8, HolderCount, PoolAssumption DEF InPlace, TypeOK
  <1> HIDE DEF n, n2, k, k2
  <1> SUFFICES /\ openConns' \in Int /\ openConns' <= maxConns /\ n2 \in Int /\ k2 \in Int
               /\ \/ openConns' - n2 - k2 = openConns - n - k
                  \/ /\ openConns' - n2 - k2 = openConns - n - k + 1
                     /\ \E t \in Threads : SkipClosed(t)
    <2>1. m_pool' \in Seq(Conns) /\ IsFiniteSet(Holders')
      <3>1. Holders' \in SUBSET Threads
        BY DEF Holders
      <3>2. IsFiniteSet(Holders')
        BY <3>1, FS_Subset, PoolAssumption
      <3>3. \A t \in Threads : pc[t] = "releasing" => held[t] \in Conns
        BY DEF InPlace, TypeOK
      <3>4. m_pool' = m_pool \/ (m_pool # <<>> /\ m_pool' = Tail(m_pool))
              \/ \E c \in Conns : m_pool' = Append(m_pool, c)
        BY <3>3 DEF Next, GetConnection, GetTransport, Lock, SkipClosed, SkipExpired, TakePooled,
              TakeFront, Create, ConnectFails, Fail, Wait, Timeout, TakeAfterWait,
              ThrowNonEnough, Close, StampUseTime, ReleaseConnection, TerminateConnection,
              Age, CloseAfterRelease, vars, poolVars
      <3> QED
        BY <1>2, <3>2, <3>4, SMTT(30)
    <2>2. n2 \in Nat /\ k2 \in Nat
      BY <2>1, FS_CardinalityType DEF n2, k2
    <2> QED
      BY <1>3, <2>2 DEF n2, k2
  <1>9. CASE m_pool' = m_pool /\ held' = held /\ openConns' = openConns
    BY <1>1, <1>4, <1>5, <1>9
  <1>10. ASSUME NEW t \in Threads, SkipClosed(t)
         PROVE  n2 = n - 1 /\ k2 = k /\ openConns' = openConns
    BY <1>10, <1>5, <1>6 DEF SkipClosed
  <1>11. ASSUME NEW t \in Threads, SkipExpired(t)
         PROVE  n2 = n - 1 /\ k2 = k /\ openConns' = openConns - 1
    BY <1>11, <1>5, <1>6 DEF SkipExpired
  <1>12. ASSUME NEW t \in Threads, TakePooled(t) \/ TakeAfterWait(t)
         PROVE  n2 = n - 1 /\ k2 = k + 1 /\ openConns' = openConns
    <2>1. /\ m_pool # <<>> /\ m_pool' = Tail(m_pool) /\ openConns' = openConns
          /\ held' = [held EXCEPT ![t] = Head(m_pool)]
          /\ pc[t] \notin {"using", "releasing"}
      BY <1>12 DEF TakePooled, TakeAfterWait, TakeFront
    <2> QED
      BY <1>6, <1>7, <2>1
  <1>13. ASSUME NEW t \in Threads, Create(t)
         PROVE  n2 = n /\ k2 = k + 1 /\ openConns' = openConns + 1 /\ openConns < maxConns
    BY <1>4, <1>7, <1>13 DEF Create
  <1>14. ASSUME NEW t \in Threads, ReleaseConnection(t)
         PROVE  n2 = n + 1 /\ k2 = k - 1 /\ openConns' = openConns
    <2>1. k2 = k - 1 /\ held[t] \in Conns
      BY <1>8, <1>14 DEF ReleaseConnection
    <2>2. n2 = n + 1
      BY <1>2, <1>14, <2>1, AppendProperties DEF ReleaseConnection, n, n2
    <2> QED
      BY <1>14, <2>1, <2>2 DEF ReleaseConnection
  <1>15. ASSUME NEW t \in Threads, TerminateConnection(t)
         PROVE  n2 = n /\ k2 = k - 1 /\ openConns' = openConns - 1
    BY <1>4, <1>8, <1>15 DEF TerminateConnection
  <1>16. ASSUME NEW t \in Threads,
                \/ GetTransport(t) \/ Lock(t) \/ ConnectFails(t) \/ Wait(t) \/ Timeout(t)
                \/ ThrowNonEnough(t) \/ Close(t) \/ StampUseTime(t)
         PROVE  m_pool' = m_pool /\ held' = held /\ openConns' = openConns
    BY <1>16 DEF GetTransport, Lock, ConnectFails, Fail, Wait, Timeout, ThrowNonEnough,
                 Close, StampUseTime, poolVars
  <1>17. ASSUME NEW c \in Conns, Age(c) \/ CloseAfterRelease(c)
         PROVE  m_pool' = m_pool /\ held' = held /\ openConns' = openConns
    BY <1>17 DEF Age, CloseAfterRelease
  <1>18. ASSUME NEW t \in Threads, SkipClosed(t)
         PROVE  /\ openConns' \in Int /\ openConns' <= maxConns /\ n2 \in Int /\ k2 \in Int
                /\ openConns' - n2 - k2 = openConns - n - k + 1
    BY <1>1, <1>10, <1>18
  <1>19. ASSUME NEW t \in Threads,
                \/ SkipExpired(t) \/ TakePooled(t) \/ TakeAfterWait(t) \/ Create(t)
                \/ ReleaseConnection(t) \/ TerminateConnection(t)
         PROVE  /\ openConns' \in Int /\ openConns' <= maxConns /\ n2 \in Int /\ k2 \in Int
                /\ openConns' - n2 - k2 = openConns - n - k
    BY <1>1, <1>11, <1>12, <1>13, <1>14, <1>15, <1>19
  <1>20. CASE UNCHANGED vars
    BY <1>9, <1>20 DEF vars, poolVars
  <1> QED
    BY <1>9, <1>16, <1>17, <1>18, <1>19, <1>20 DEF Next, GetConnection

\* The parts of the invariant that do not count.
Placed == TypeOK /\ InPlace /\ Exclusive /\ SleepOnlyWhenEmpty /\ ExpiredAreIdle

\* Steps that leave every transport where it is: only the threads, the mutex,
\* the clock or the state of a transport change.
LEMMA QuietStep ==
    ASSUME IInv,
           \/ \E t \in Threads :
                \/ GetTransport(t) \/ Lock(t) \/ ConnectFails(t) \/ Wait(t) \/ Timeout(t)
                \/ ThrowNonEnough(t) \/ Close(t) \/ StampUseTime(t)
           \/ \E c \in Conns : Age(c) \/ CloseAfterRelease(c)
    PROVE  Placed'
  <1> USE DEF IInv
  <1>1. m_pool' = m_pool /\ held' = held
    BY DEF GetTransport, Lock, ConnectFails, Fail, Wait, Timeout, ThrowNonEnough,
           Close, StampUseTime, Age, CloseAfterRelease, poolVars
  <1>2. Exclusive' /\ Pooled' = Pooled
    BY <1>1 DEF Exclusive, Holders, Held, Pooled
  <1>3. ASSUME NEW t \in Threads, GetTransport(t)
        PROVE  Placed'
    BY <1>1, <1>2, <1>3 DEF GetTransport, Goto, Placed, TypeOK, InPlace, SleepOnlyWhenEmpty,
                            ExpiredAreIdle, Unused, PC, poolVars
  <1>4. ASSUME NEW t \in Threads, Lock(t) \/ Wait(t) \/ Timeout(t)
        PROVE  Placed'
    BY <1>1, <1>2, <1>4 DEF Lock, Wait, Timeout, Goto, Placed, TypeOK, InPlace,
                            SleepOnlyWhenEmpty, ExpiredAreIdle, Unused, PC, poolVars
  <1>5. ASSUME NEW t \in Threads, ConnectFails(t) \/ ThrowNonEnough(t)
        PROVE  Placed'
    BY <1>1, <1>2, <1>5 DEF ConnectFails, ThrowNonEnough, Fail, Goto, Placed, TypeOK, InPlace,
                            SleepOnlyWhenEmpty, ExpiredAreIdle, Unused, PC, poolVars
  <1>6. ASSUME NEW t \in Threads, Close(t)
        PROVE  Placed'
    BY <1>1, <1>2, <1>6 DEF Close, Placed, TypeOK, InPlace, SleepOnlyWhenEmpty,
                            ExpiredAreIdle, Unused
  <1>7. ASSUME NEW t \in Threads, StampUseTime(t)
        PROVE  Placed'
    <2>1. TypeOK' /\ InPlace' /\ SleepOnlyWhenEmpty'
      BY <1>1, <1>7 DEF StampUseTime, Goto, TypeOK, InPlace, SleepOnlyWhenEmpty, PC, poolVars
    <2>2. Unused' \subseteq Unused \cup {held[t]}
      BY <1>1, <1>2, <1>7 DEF StampUseTime, Goto, TypeOK, Unused
    <2>3. ExpiredAreIdle'
      BY <1>7, <2>2 DEF StampUseTime, ExpiredAreIdle, poolVars
    <2> QED
      BY <1>2, <2>1, <2>3 DEF Placed
  <1>8. ASSUME NEW c \in Conns, Age(c) \/ CloseAfterRelease(c)
        PROVE  Placed'
    BY <1>1, <1>2, <1>8 DEF Age, CloseAfterRelease, Placed, TypeOK, InPlace,
                            SleepOnlyWhenEmpty, ExpiredAreIdle, Unused
  <1> QED
    BY <1>3, <1>4, <1>5, <1>6, <1>7, <1>8

\* connection_pool.cpp:58-75: GetConnection throws the front of the pool away.
LEMMA SkipStep ==
    ASSUME IInv, NEW t \in Threads, SkipClosed(t) \/ SkipExpired(t)
    PROVE  Placed'
  <1> DEFINE c == Head(m_pool)
  <1> USE DEF IInv
  <1>1. /\ m_pool # <<>> /\ m_pool' = Tail(m_pool)
        /\ held' = held /\ pc' = pc /\ expired' = expired /\ m_mutex' = m_mutex
        /\ idle' = idle \ {c} /\ shared' = shared \ {c}
        /\ open' = open \/ open' = open \ {c}
        /\ openConns' = openConns \/ openConns' = openConns - 1
    BY DEF SkipClosed, SkipExpired
  <1>2. m_pool \in Seq(Conns) /\ Distinct
    BY DEF TypeOK, Exclusive, Distinct
  <1>3. /\ c \in Pooled /\ m_pool' \in Seq(Conns) /\ Pooled' = Pooled \ {c} /\ Distinct'
    BY <1>1, <1>2, PopFront
  <1> HIDE DEF c
  <1>4. TypeOK' /\ InPlace'
    BY <1>1, <1>3 DEF TypeOK, InPlace
  <1>5. Exclusive'
    BY <1>1, <1>3 DEF Exclusive, Distinct, Holders, Held
  <1>6. SleepOnlyWhenEmpty'
    BY <1>1 DEF SleepOnlyWhenEmpty
  <1>7. c \notin Held
    BY <1>3 DEF Exclusive
  <1>8. Unused' = Unused \ {c}
    BY <1>1, <1>3, <1>7 DEF Unused, Held, Holders, InPlace
  <1>9. ExpiredAreIdle'
    BY <1>1, <1>8 DEF ExpiredAreIdle
  <1> QED
    BY <1>4, <1>5, <1>6, <1>9 DEF Placed

\* A thread takes a transport for its provider: the front of the pool, in the
\* loop or after the wait.
LEMMA TakeStep ==
    ASSUME IInv, NEW t \in Threads, TakePooled(t) \/ TakeAfterWait(t)
    PROVE  Placed'
  <1> DEFINE c == Head(m_pool)
  <1> USE DEF IInv
  <1>1. /\ m_pool # <<>> /\ m_pool' = Tail(m_pool)
        /\ held' = [held EXCEPT ![t] = c] /\ pc' = [pc EXCEPT ![t] = "using"]
        /\ expired' = [expired EXCEPT ![t] = {}] /\ idle' = idle \ {c}
        /\ shared' = shared \cup {c} /\ open' = open /\ openConns' = openConns
        /\ m_mutex' \in {m_mutex, None}
        /\ pc[t] \notin {"using", "releasing"}
    BY DEF TakePooled, TakeAfterWait, TakeFront, Goto
  <1>2. m_pool \in Seq(Conns) /\ Distinct
    BY DEF TypeOK, Exclusive, Distinct
  <1>3. /\ c \in Pooled /\ c \in Conns /\ m_pool' \in Seq(Conns)
        /\ Pooled' = Pooled \ {c} /\ Distinct'
    BY <1>1, <1>2, PopFront
  <1> HIDE DEF c
  <1>4. TypeOK'
    BY <1>1, <1>3 DEF TypeOK, PC
  <1>5. InPlace'
    BY <1>1, <1>3, PoolAssumption DEF TypeOK, InPlace
  <1>6. c \notin Held /\ Held' \subseteq Held \cup {c}
    BY <1>1, <1>3 DEF Exclusive, Held, Holders, TypeOK
  <1>7. \A u, v \in Holders' : held'[u] = held'[v] => u = v
    BY <1>1, <1>6 DEF Exclusive, Held, Holders, TypeOK
  <1>8. Exclusive'
    <2>1. Held' \cap Pooled' = {}
      BY <1>3, <1>6 DEF Exclusive
    <2> QED
      BY <1>3, <1>7, <2>1 DEF Exclusive, Distinct
  <1>9. SleepOnlyWhenEmpty'
    BY <1>1 DEF SleepOnlyWhenEmpty, TypeOK
  <1>10. Unused' \subseteq Unused \ {c}
    BY <1>1, <1>3, <1>6 DEF Unused, Held, Holders, InPlace, TypeOK
  <1>11. ExpiredAreIdle'
    BY <1>1, <1>10 DEF ExpiredAreIdle, TypeOK
  <1> QED
    BY <1>4, <1>5, <1>8, <1>9, <1>11 DEF Placed

\* connection_pool.cpp:78-90: a new transport object, in nobody's hands.
LEMMA CreateStep ==
    ASSUME IInv, NEW t \in Threads, Create(t)
    PROVE  Placed'
  <1> USE DEF IInv
  <1>1. PICK c \in Conns \ (Pooled \cup Held) :
           held' = [held EXCEPT ![t] = c] /\ open' = open \cup {c}
    BY DEF Create
  <1>2. /\ pc[t] = "locked" /\ pc' = [pc EXCEPT ![t] = "using"]
        /\ m_pool' = m_pool /\ idle' = idle /\ m_mutex' = None
        /\ expired' = [expired EXCEPT ![t] = {}]
        /\ openConns' = openConns + 1 /\ shared' = shared \cup {c}
    BY <1>1 DEF Create, Goto, TypeOK
  <1>3. TypeOK'
    BY <1>1, <1>2 DEF TypeOK, PC
  <1>4. InPlace' /\ SleepOnlyWhenEmpty'
    BY <1>1, <1>2, PoolAssumption DEF TypeOK, InPlace, SleepOnlyWhenEmpty
  <1>5. Pooled' = Pooled /\ Held' \subseteq Held \cup {c}
    BY <1>1, <1>2 DEF Pooled, Held, Holders, TypeOK
  <1>6. \A u, v \in Holders' : held'[u] = held'[v] => u = v
    BY <1>1 DEF Exclusive, Held, Holders, TypeOK
  <1>7. Exclusive'
    BY <1>1, <1>2, <1>5, <1>6 DEF Exclusive
  <1>8. Unused' \subseteq Unused
    BY <1>1, <1>2, <1>5 DEF Unused, TypeOK
  <1>9. ExpiredAreIdle'
    BY <1>2, <1>8 DEF ExpiredAreIdle, TypeOK
  <1> QED
    BY <1>3, <1>4, <1>7, <1>9 DEF Placed

\* connection_pool.cpp: ReleaseConnection puts the transport back and wakes the
\* sleepers under one lock; TerminateConnection forgets it.
LEMMA GiveBackStep ==
    ASSUME IInv, NEW t \in Threads, ReleaseConnection(t) \/ TerminateConnection(t)
    PROVE  Placed'
  <1> DEFINE c == held[t]
  <1> USE DEF IInv
  <1>1. /\ pc[t] \in {"using", "releasing"} /\ held' = [held EXCEPT ![t] = None]
        /\ open' = open /\ idle' = idle /\ expired' = expired /\ m_mutex' = m_mutex
        /\ pc'[t] = "out" /\ pc' \in [Threads -> PC]
        /\ \A u \in Threads \ {t} :
              pc'[u] = pc[u] \/ (pc[u] = "waiting" /\ pc'[u] = "woken")
    BY DEF ReleaseConnection, TerminateConnection, Goto, TypeOK, PC
  <1>2. c \in Conns /\ c \in Held /\ c \notin Pooled
    BY <1>1 DEF InPlace, Held, Holders, Exclusive, TypeOK
  <1>3. InPlace'
    BY <1>1, PoolAssumption DEF InPlace, TypeOK
  <1>4. \A u, v \in Holders' : held'[u] = held'[v] => u = v
    BY <1>1 DEF Exclusive, Holders, TypeOK
  <1>5. Held' = Held \ {c}
    BY <1>1, <1>2 DEF Exclusive, Held, Holders, TypeOK
  <1>6. m_pool \in Seq(Conns) /\ Distinct
    BY DEF TypeOK, Exclusive, Distinct
  <1>7. CASE ReleaseConnection(t)
    <2>1. pc[t] = "releasing" /\ m_pool' = Append(m_pool, c)
      BY <1>7 DEF ReleaseConnection
    <2>2. m_pool' \in Seq(Conns) /\ Pooled' = Pooled \cup {c} /\ Distinct'
      BY <1>2, <1>6, <2>1, PushBack
    <2>3. TypeOK'
      BY <1>1, <1>7, <2>2 DEF TypeOK, ReleaseConnection
    <2>4. Exclusive'
      BY <1>4, <1>5, <2>2 DEF Exclusive, Distinct
    <2>5. SleepOnlyWhenEmpty'
      BY <1>7 DEF ReleaseConnection, SleepOnlyWhenEmpty
    <2>6. Unused' \subseteq Unused
      BY <1>1, <2>1, <2>2 DEF Unused, TypeOK
    <2>7. ExpiredAreIdle'
      BY <1>1, <2>6 DEF ExpiredAreIdle
    <2> QED
      BY <1>3, <2>3, <2>4, <2>5, <2>7 DEF Placed
  <1>8. CASE TerminateConnection(t)
    <2>1. m_pool' = m_pool /\ Pooled' = Pooled
      BY <1>8 DEF TerminateConnection, Pooled
    <2>2. TypeOK'
      BY <1>1, <1>8 DEF TypeOK, TerminateConnection
    <2>3. Exclusive'
      BY <1>4, <1>5, <2>1 DEF Exclusive
    <2>4. SleepOnlyWhenEmpty'
      BY <1>1, <2>1 DEF SleepOnlyWhenEmpty
    <2>5. Unused' \subseteq Unused
      BY <1>1, <2>1 DEF Unused, TypeOK
    <2>6. ExpiredAreIdle'
      BY <1>1, <2>5 DEF ExpiredAreIdle
    <2> QED
      BY <1>3, <2>2, <2>3, <2>4, <2>6 DEF Placed
  <1> QED
    BY <1>7, <1>8

-----------------------------------------------------------------------------
\* Every step of every provider keeps the inductive invariant.
THEOREM Invariance == Spec => []IInv
  <1>1. Init => IInv
    <2> SUFFICES ASSUME Init PROVE IInv
      OBVIOUS
    <2>1. m_pool \in Seq(Conns) /\ Len(m_pool) = minConns /\ DOMAIN m_pool = 1 .. minConns
      BY PoolAssumption DEF Init
    <2>2. Holders = {} /\ Held = {} /\ Cardinality(Holders) = 0
      BY FS_EmptySet DEF Init, Holders, Held
    <2>3. TypeOK
      BY <2>1, PoolAssumption DEF Init, TypeOK, PC, Pooled
    <2>4. InPlace /\ SleepOnlyWhenEmpty /\ ExpiredAreIdle
      BY DEF Init, InPlace, SleepOnlyWhenEmpty, ExpiredAreIdle
    <2>5. Exclusive
      BY <2>1, <2>2 DEF Init, Exclusive
    <2>6. WithinMax
      BY <2>1, <2>2, PoolAssumption DEF Init, WithinMax
    <2> QED
      BY <2>3, <2>4, <2>5, <2>6 DEF IInv
  <1>2. IInv /\ [Next]_vars => IInv'
    <2> SUFFICES ASSUME IInv, [Next]_vars PROVE IInv'
      OBVIOUS
    <2>1. Placed'
      <3>1. CASE UNCHANGED vars
        <4>1. /\ m_pool' = m_pool /\ openConns' = openConns /\ open' = open /\ idle' = idle
              /\ m_mutex' = m_mutex /\ pc' = pc /\ held' = held /\ expired' = expired
              /\ shared' = shared
          BY <3>1 DEF vars, poolVars
        <4>2. Pooled' = Pooled /\ Holders' = Holders
          BY <4>1 DEF Pooled, Holders
        <4>3. Held' = Held /\ Unused' = Unused
          BY <4>1, <4>2 DEF Held, Unused
        <4>4. TypeOK' /\ InPlace' /\ SleepOnlyWhenEmpty'
          BY <4>1 DEF IInv, TypeOK, InPlace, SleepOnlyWhenEmpty
        <4>5. Exclusive' /\ ExpiredAreIdle'
          BY <4>1, <4>2, <4>3 DEF IInv, Exclusive, ExpiredAreIdle
        <4> QED
          BY <4>4, <4>5 DEF Placed
      <3> QED
        BY <3>1, QuietStep, SkipStep, TakeStep, CreateStep, GiveBackStep DEF Next, GetConnection
    <2>2. WithinMax'
      <3>1. Drift' >= Drift /\ Drift >= 0 /\ openConns' <= maxConns
        BY CountStep, CountsAreNumbers DEF IInv, WithinMax, Drift
      <3> QED
        BY <3>1, CountStep, CountsAreNumbers DEF IInv, WithinMax, Drift
    <2> QED
      BY <2>1, <2>2 DEF IInv, Placed
  <1> QED
    BY <1>1, <1>2, PTL DEF Spec

\* connection_pool.cpp, connection_provider.cpp: no two providers ever share a
\* transport, and no transport in use is in the pool.
THEOREM ExclusiveCorrect == Spec => []Exclusive
  BY Invariance, PTL DEF IInv

\* connection_pool.h:62: at most maxConns transports are in use or pooled.
THEOREM WithinMaxCorrect == Spec => []WithinMax
  BY Invariance, PTL DEF IInv

\* connection_pool.cpp: nobody sleeps in GetConnection beside a pooled transport.
THEOREM SleepOnlyWhenEmptyCorrect == Spec => []SleepOnlyWhenEmpty
  BY Invariance, PTL DEF IInv

\* connection_pool.cpp:51, :67: a clock read before the lock retires no transport
\* that has been used since.
THEOREM RetireOnlyIdleCorrect == Spec => RetireOnlyIdle
  <1>1. ASSUME IInv, [Next]_vars, NEW t \in Threads, SkipExpired(t)
        PROVE  Head(m_pool) \in idle /\ openConns' >= minConns
    <2>1. /\ m_pool # <<>> /\ Head(m_pool) \in expired[t]
          /\ openConns > minConns /\ openConns' = openConns - 1 /\ m_pool' = Tail(m_pool)
      BY <1>1 DEF SkipExpired, TooOld
    <2>2. Head(m_pool) \in Pooled
      BY <1>1, <2>1, PopFront DEF IInv, TypeOK, Exclusive, Distinct
    <2>3. Head(m_pool) \in idle
      BY <1>1, <2>1, <2>2 DEF IInv, ExpiredAreIdle, Unused
    <2>4. openConns' >= minConns
      BY <1>1, <2>1, PoolAssumption DEF IInv, TypeOK
    <2> QED
      BY <2>3, <2>4
  <1>2. IInv /\ [Next]_vars =>
           [\A t \in Threads : SkipExpired(t) =>
               Head(m_pool) \in idle /\ openConns' >= minConns]_vars
    BY <1>1
  <1> QED
    BY <1>2, Invariance, PTL DEF Spec, RetireOnlyIdle

\* connection_pool.h:59: openConns departs from the number of transports pooled
\* or in use only where GetConnection drops a closed one.
THEOREM DriftCorrect == Spec => CountDriftsOnlyByClosed
  <1>1. IInv /\ [Next]_vars =>
           [Drift' # Drift => Drift' = Drift + 1 /\ \E t \in Threads : SkipClosed(t)]_vars
    BY CountStep
  <1> QED
    BY <1>1, Invariance, PTL DEF Spec, CountDriftsOnlyByClosed
=============================================================================

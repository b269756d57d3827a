---------------------------- MODULE AsyncMQProofs ----------------------------
(***************************************************************************)
(* For any number of clients and requests, any timeout, any cache size and *)
(* any number of answers the application gives: a reply goes to the client *)
(* whose request it answers, a stopped service hands no reply to the       *)
(* driver, and the transport implements RequestReply: a request is taken   *)
(* at most once and answered at most once.                                 *)
(***************************************************************************)
EXTENDS AsyncMQ, TLAPS, FiniteSetTheorems, SequenceTheorems

Elems(s)    == {s[i] : i \in DOMAIN s}
Distinct(s) == \A i, j \in DOMAIN s : s[i] = s[j] => i = j

-----------------------------------------------------------------------------
(* Queues.                                                                 *)

\* What is left of a queue without its head.
LEMMA PopQueue ==
    ASSUME NEW S, NEW s \in Seq(S), s # <<>>
    PROVE  /\ Head(s) \in S /\ Tail(s) \in Seq(S) /\ Head(s) \in Elems(s)
           /\ Elems(s) = {Head(s)} \cup Elems(Tail(s))
           /\ Distinct(s) => Distinct(Tail(s)) /\ Head(s) \notin Elems(Tail(s))
  <1> DEFINE n == Len(s)   t == Tail(s)
  <1>1. /\ Head(s) \in S /\ Head(s) = s[1] /\ t \in Seq(S) /\ Len(t) = n - 1
        /\ \A i \in 1 .. n - 1 : t[i] = s[i + 1]
    BY HeadTailProperties
  <1>2. n \in Nat \ {0} /\ DOMAIN s = 1 .. n
    BY LenProperties, EmptySeq
  <1>3. DOMAIN t = 1 .. n - 1
    BY <1>1, LenProperties
  <1> HIDE DEF n, t
  <1>4. \A i \in 1 .. n : i = 1 \/ (i - 1 \in 1 .. n - 1 /\ (i - 1) + 1 = i)
    BY <1>2
  <1>5. \A i \in 1 .. n - 1 : i + 1 \in 1 .. n /\ i + 1 # 1
    BY <1>2
  <1>6. Elems(s) \subseteq {Head(s)} \cup Elems(t)
    <2> SUFFICES ASSUME NEW i \in 1 .. n, i # 1 PROVE s[i] \in Elems(t)
      BY <1>1, <1>2 DEF Elems
    <2>1. i - 1 \in 1 .. n - 1 /\ t[i - 1] = s[i]
      BY <1>1, <1>4
    <2> QED
      BY <1>3, <2>1 DEF Elems
  <1>7. Head(s) \in Elems(s) /\ Elems(t) \subseteq Elems(s)
    <2>1. Head(s) = s[1] /\ 1 \in 1 .. n
      BY <1>1, <1>2
    <2>2. \A i \in 1 .. n - 1 : t[i] = s[i + 1]
      BY <1>1
    <2> QED
      BY <1>2, <1>3, <1>5, <2>1, <2>2, SMTT(30) DEF Elems
  <1>8. ASSUME Distinct(s)
        PROVE  Distinct(t) /\ Head(s) \notin Elems(t)
    <2>1. \A i, j \in 1 .. n : s[i] = s[j] => i = j
      BY <1>2, <1>8 DEF Distinct
    <2>2. Head(s) \notin Elems(t)
      <3> SUFFICES ASSUME NEW i \in 1 .. n - 1, t[i] = s[1] PROVE FALSE
        BY <1>1, <1>3 DEF Elems
      <3> QED
        BY <1>1, <1>2, <1>5, <2>1
    <2>3. Distinct(t)
      <3> SUFFICES ASSUME NEW i \in 1 .. n - 1, NEW j \in 1 .. n - 1, t[i] = t[j] PROVE i = j
        BY <1>3 DEF Distinct
      <3>1. i + 1 \in 1 .. n /\ j + 1 \in 1 .. n /\ s[i + 1] = s[j + 1]
        BY <1>1, <1>5
      <3> QED
        BY <1>2, <2>1, <3>1
    <2> QED
      BY <2>2, <2>3
  <1> QED
    BY <1>1, <1>6, <1>7, <1>8 DEF t

\* A queue with one more element.
LEMMA PushQueue ==
    ASSUME NEW S, NEW s \in Seq(S), NEW x \in S
    PROVE  /\ Append(s, x) \in Seq(S) /\ Elems(Append(s, x)) = Elems(s) \cup {x}
           /\ Distinct(s) /\ x \notin Elems(s) => Distinct(Append(s, x))
  <1> DEFINE n == Len(s)   t == Append(s, x)
  <1>1. n \in Nat /\ DOMAIN s = 1 .. n
    BY LenProperties
  <1>2. t \in Seq(S) /\ Len(t) = n + 1 /\ t[n + 1] = x /\ \A i \in 1 .. n : t[i] = s[i]
    BY AppendProperties
  <1>3. DOMAIN t = 1 .. n + 1
    BY <1>2, LenProperties
  <1> HIDE DEF n, t
  <1>4. /\ \A i \in 1 .. n + 1 : i \in 1 .. n \/ i = n + 1
        /\ \A i \in 1 .. n : i \in 1 .. n + 1
        /\ n + 1 \in 1 .. n + 1
    BY <1>1
  <1>5. Elems(t) = Elems(s) \cup {x}
    BY <1>1, <1>2, <1>3, <1>4 DEF Elems
  <1>6. Distinct(s) /\ x \notin Elems(s) => Distinct(t)
    BY <1>1, <1>2, <1>3, <1>4 DEF Elems, Distinct
  <1> QED
    BY <1>2, <1>5, <1>6 DEF t

\* The empty queue.
LEMMA EmptyQueue ==
    ASSUME NEW S
    PROVE  <<>> \in Seq(S) /\ Elems(<<>>) = {} /\ Distinct(<<>>)
  <1>1. <<>> \in Seq(S) /\ DOMAIN <<>> = {}
    BY EmptySeq
  <1> QED
    BY <1>1 DEF Elems, Distinct

-----------------------------------------------------------------------------
(* The session cache, as far as the server needs it: an operation keeps or *)
(* drops what it finds, and the map never knows a key the list has not.    *)

Address == [key : Nat, value : Clients, age : 0 .. MaxAge]
Nodes   == Elems(m_list)

CacheOK ==
    /\ m_list \in Seq(Address) /\ m_timeout \in Int
    /\ m_map \subseteq {x.key : x \in Nodes}

\* A set of numbers that is not empty has a least element.
LEMMA LeastNumber ==
    ASSUME NEW T \in SUBSET Nat, T # {}
    PROVE  \E m \in T : \A k \in T : m <= k
  <1> DEFINE R == OpToRel(<, Nat)
  <1>9. IsWellFoundedOn(R, Nat)
    BY NatLessThanWellFounded
  <1>1. \A x, y \in Nat : x < y => <<x, y>> \in R
    BY DEF OpToRel
  <1> HIDE DEF R
  <1>2. PICK m \in T : \A k \in T : ~(<<k, m>> \in R)
    BY <1>9, WFMin
  <1>3. \A k \in T : k \in Nat /\ m \in Nat /\ ~(k < m)
    BY <1>1, <1>2
  <1> QED
    BY <1>2, <1>3

\* The clean-up loop erases a front part of the list.
LEMMA ExpiredRange ==
    ASSUME m_list \in Seq(Address), NEW to \in Int
    PROVE  ExpiredCount(to) \in 0 .. Len(m_list)
  <1> DEFINE N == Len(m_list)
             young == {i \in 1 .. N : m_list[i].age < to}
             Stop(n) == /\ \A i \in 1 .. n : m_list[i].age >= to
                        /\ n < N => m_list[n + 1].age < to
  <1>1. N \in Nat /\ \A i \in 1 .. N : m_list[i].age \in Int
    <2>1. N \in Nat /\ \A i \in 1 .. N : m_list[i] \in Address
      BY LenProperties, ElementOfSeq
    <2>2. \A x \in Address : x.age \in Int
      BY CacheAssumption DEF Address
    <2> QED
      BY <2>1, <2>2
  <1> HIDE DEF N
  <1>2. CASE young = {}
    <2>1. N \in 0 .. N /\ Stop(N)
      BY <1>1, <1>2
    <2>2. \E n \in 0 .. N : Stop(n)
      BY <2>1
    <2> QED
      BY <2>2 DEF ExpiredCount, N
  <1>3. CASE young # {}
    <2>1. PICK m \in young : \A k \in young : m <= k
      <3>1. young \in SUBSET Nat
        BY <1>1
      <3> QED
        BY <1>3, <3>1, LeastNumber
    <2>2. m \in 1 .. N /\ m_list[m].age < to
      BY <2>1
    <2>3. ASSUME NEW i \in 1 .. (m - 1)
          PROVE  m_list[i].age >= to
      <3>1. i \in 1 .. N /\ ~(m <= i)
        BY <1>1, <2>2
      <3>2. i \notin young
        BY <2>1, <3>1
      <3> QED
        BY <1>1, <3>1, <3>2
    <2>4. m - 1 \in 0 .. N /\ (m - 1) + 1 = m
      BY <1>1, <2>2
    <2>5. Stop(m - 1)
      BY <2>2, <2>3, <2>4
    <2>6. \E n \in 0 .. N : Stop(n)
      BY <2>4, <2>5
    <2> QED
      BY <2>6 DEF ExpiredCount, N
  <1> QED
    BY <1>2, <1>3

\* What the first n nodes leave behind.
LEMMA FrontGone ==
    ASSUME CacheOK, NEW n \in 0 .. Len(m_list)
    PROVE  /\ ListAfter(n) \in Seq(Address) /\ Elems(ListAfter(n)) \subseteq Nodes
           /\ MapAfter(n) \subseteq m_map
           /\ MapAfter(n) \subseteq {x.key : x \in Elems(ListAfter(n))}
  <1> DEFINE N == Len(m_list)   L == SubSeq(m_list, n + 1, N)   P == SubSeq(m_list, 1, n)
  <1>1. /\ N \in Nat /\ n \in Nat /\ n <= N /\ DOMAIN m_list = 1 .. N
        /\ \A i \in 1 .. N : m_list[i] \in Address
    BY LenProperties, ElementOfSeq DEF CacheOK
  <1> HIDE DEF N
  <1>2. L \in Seq(Address) /\ DOMAIN L = 1 .. (N - n) /\ \A i \in 1 .. (N - n) : L[i] = m_list[i + n]
    <2> HIDE DEF L
    <2>1. n + 1 \in Int /\ N \in Int /\ \A i \in (n + 1) .. N : m_list[i] \in Address
      BY <1>1
    <2>2. /\ L \in Seq(Address) /\ Len(L) = IF n + 1 <= N THEN N - (n + 1) + 1 ELSE 0
          /\ \A i \in 1 .. (N - (n + 1) + 1) : L[i] = m_list[(n + 1) + i - 1]
      BY <2>1, SubSeqProperties DEF L
    <2>3. /\ N - (n + 1) + 1 = N - n /\ \A i \in 1 .. (N - n) : (n + 1) + i - 1 = i + n
          /\ Len(L) = N - n
      BY <1>1, <2>2
    <2> QED
      BY <2>2, <2>3, LenProperties
  <1>3. DOMAIN P = 1 .. n /\ \A i \in 1 .. n : P[i] = m_list[i]
    <2> HIDE DEF P
    <2>1. \A i \in 1 .. n : m_list[i] \in Address
      BY <1>1
    <2>2. /\ P \in Seq(Address) /\ Len(P) = IF 1 <= n THEN n - 1 + 1 ELSE 0
          /\ \A i \in 1 .. (n - 1 + 1) : P[i] = m_list[1 + i - 1]
      BY <1>1, <2>1, SubSeqProperties DEF P
    <2>3. Len(P) = n /\ n - 1 + 1 = n /\ \A i \in 1 .. n : 1 + i - 1 = i
      BY <1>1, <2>2
    <2> QED
      BY <2>2, <2>3, LenProperties
  <1>4. ListAfter(n) = L /\ MapAfter(n) = m_map \ KeysOf(P)
    BY DEF ListAfter, MapAfter, N
  <1> HIDE DEF L, P
  <1>5. Elems(L) \subseteq Nodes
    BY <1>1, <1>2, SMTT(30) DEF Elems, Nodes
  <1>6. ASSUME NEW k \in m_map, k \notin KeysOf(P)
        PROVE  k \in {x.key : x \in Elems(L)}
    <2>1. PICK j \in 1 .. N : m_list[j].key = k
      BY <1>1 DEF CacheOK, Nodes, Elems
    <2>2. j \notin 1 .. n
      BY <1>3, <1>6, <2>1 DEF KeysOf
    <2>3. j - n \in 1 .. (N - n) /\ (j - n) + n = j
      BY <1>1, <2>2
    <2>4. L[j - n] \in Elems(L) /\ L[j - n].key = k
      BY <1>2, <2>1, <2>3 DEF Elems
    <2> QED
      BY <2>4
  <1> QED
    BY <1>2, <1>4, <1>5, <1>6

\* A node that was there, perhaps a second older.
Known(x) == \E y \in Nodes : x.key = y.key /\ x.value = y.value

\* The server stores the address of a request under a new id.
LEMMA PushCache ==
    ASSUME CacheOK, NEW k \in Nat, NEW v \in Clients, PushSession(k, v)
    PROVE  /\ CacheOK' /\ m_map' \subseteq m_map \cup {k} /\ k \in m_map'
           /\ \A x \in Nodes' : Known(x) \/ (x.key = k /\ x.value = v)
  <1> DEFINE n == AutoClearCount   z == [key |-> k, value |-> v, age |-> 0]   L == ListAfter(n)
  <1>1. n \in 0 .. Len(m_list)
    BY ExpiredRange, LenProperties, SMTT(30) DEF CacheOK, AutoClearCount
  <1>2. m_list' = Append(L, z) /\ m_map' = MapAfter(n) \cup {k} /\ m_timeout' = m_timeout
    BY DEF PushSession, Settings
  <1>3. z \in Address /\ z.key = k /\ z.value = v
    BY CacheAssumption DEF Address
  <1> HIDE DEF n, z
  <1>4. /\ L \in Seq(Address) /\ Elems(L) \subseteq Nodes
        /\ MapAfter(n) \subseteq m_map /\ MapAfter(n) \subseteq {x.key : x \in Elems(L)}
    BY <1>1, FrontGone
  <1> HIDE DEF L
  <1>5. m_list' \in Seq(Address) /\ Nodes' = Elems(L) \cup {z}
    BY <1>2, <1>3, <1>4, PushQueue DEF Nodes
  <1>6. m_map' \subseteq {x.key : x \in Nodes'}
    BY <1>2, <1>3, <1>4, <1>5
  <1> QED
    BY <1>2, <1>3, <1>4, <1>5, <1>6 DEF CacheOK, Known

\* Clean-up.
LEMMA ClearCache ==
    ASSUME CacheOK, NEW to \in Int, ClearTimeout(to)
    PROVE  /\ CacheOK' /\ m_map' \subseteq m_map /\ \A x \in Nodes' : Known(x)
  <1> DEFINE n == ExpiredCount(to)   L == ListAfter(n)
  <1>1. n \in 0 .. Len(m_list)
    BY ExpiredRange DEF CacheOK
  <1>2. m_list' = L /\ m_map' = MapAfter(n) /\ m_timeout' = m_timeout
    BY DEF ClearTimeout, Settings
  <1> HIDE DEF n
  <1>3. /\ L \in Seq(Address) /\ Elems(L) \subseteq Nodes
        /\ MapAfter(n) \subseteq m_map /\ MapAfter(n) \subseteq {x.key : x \in Elems(L)}
    BY <1>1, FrontGone
  <1> HIDE DEF L
  <1>4. Nodes' = Elems(L)
    BY <1>2 DEF Nodes
  <1> QED
    BY <1>2, <1>3, <1>4 DEF CacheOK, Known

\* PopSession finds the node it is asked for and erases it.
LEMMA PopCache ==
    ASSUME CacheOK, NEW k, PopSession(k)
    PROVE  /\ CacheOK' /\ k \in m_map /\ m_map' = m_map \ {k} /\ \A x \in Nodes' : Known(x)
           /\ \E x \in Nodes : x.key = k /\ x.value = SessionOf(k)
  <1> DEFINE N == Len(m_list)   p == Iter(k)
             A == SubSeq(m_list, 1, p - 1)   B == SubSeq(m_list, p + 1, Len(m_list))   L == A \o B
  <1>1. k \in m_map /\ m_list' = L /\ m_map' = m_map \ {k} /\ m_timeout' = m_timeout
    BY DEF PopSession, Settings
  <1>2. N \in Nat /\ DOMAIN m_list = 1 .. N /\ \A i \in 1 .. N : m_list[i] \in Address
    BY LenProperties, ElementOfSeq DEF CacheOK
  <1>3. p \in 1 .. N /\ m_list[p].key = k
    <2>1. \E i \in DOMAIN m_list : m_list[i].key = k
      BY <1>1 DEF CacheOK, Nodes, Elems
    <2> QED
      BY <1>2, <2>1 DEF Iter
  <1>4. \E x \in Nodes : x.key = k /\ x.value = SessionOf(k)
    BY <1>2, <1>3 DEF Nodes, Elems, SessionOf
  <1> HIDE DEF p, N
  <1>5. A \in Seq(Address) /\ Len(A) = p - 1 /\ \A i \in 1 .. (p - 1) : A[i] = m_list[i]
    <2> HIDE DEF A
    <2>1. p - 1 \in Int /\ \A i \in 1 .. (p - 1) : m_list[i] \in Address
      BY <1>2, <1>3
    <2>2. /\ A \in Seq(Address) /\ Len(A) = IF 1 <= p - 1 THEN (p - 1) - 1 + 1 ELSE 0
          /\ \A i \in 1 .. ((p - 1) - 1 + 1) : A[i] = m_list[1 + i - 1]
      BY <2>1, SubSeqProperties DEF A
    <2>3. Len(A) = p - 1 /\ (p - 1) - 1 + 1 = p - 1 /\ \A i \in 1 .. (p - 1) : 1 + i - 1 = i
      BY <1>2, <1>3, <2>2
    <2> QED
      BY <2>2, <2>3
  <1>6. B \in Seq(Address) /\ Len(B) = N - p /\ \A i \in 1 .. (N - p) : B[i] = m_list[i + p]
    <2> HIDE DEF B
    <2>1. p + 1 \in Int /\ N \in Int /\ \A i \in (p + 1) .. N : m_list[i] \in Address
      BY <1>2, <1>3
    <2>2. /\ B \in Seq(Address) /\ Len(B) = IF p + 1 <= N THEN N - (p + 1) + 1 ELSE 0
          /\ \A i \in 1 .. (N - (p + 1) + 1) : B[i] = m_list[(p + 1) + i - 1]
      BY <2>1, SubSeqProperties DEF B, N
    <2>3. /\ Len(B) = N - p /\ N - (p + 1) + 1 = N - p
          /\ \A i \in 1 .. (N - p) : (p + 1) + i - 1 = i + p
      BY <1>2, <1>3, <2>2
    <2> QED
      BY <2>2, <2>3
  <1> HIDE DEF A, B
  <1>7. /\ L \in Seq(Address) /\ Len(L) = Len(A) + Len(B)
        /\ \A i \in 1 .. (Len(A) + Len(B)) :
              L[i] = IF i <= Len(A) THEN A[i] ELSE B[i - Len(A)]
    BY <1>5, <1>6, ConcatProperties
  <1> HIDE DEF L
  <1>8. Len(L) = N - 1 /\ DOMAIN L = 1 .. (N - 1)
    BY <1>2, <1>3, <1>5, <1>6, <1>7, LenProperties
  <1>9. \A i \in 1 .. (N - 1) : L[i] = IF i <= p - 1 THEN A[i] ELSE B[i - (p - 1)]
    BY <1>2, <1>3, <1>5, <1>6, <1>7
  <1>10. \A i \in 1 .. (N - 1) : L[i] \in Nodes
    <2> SUFFICES ASSUME NEW i \in 1 .. (N - 1) PROVE \E j \in 1 .. N : L[i] = m_list[j]
      BY <1>2 DEF Nodes, Elems
    <2>1. CASE i <= p - 1
      <3>1. i \in 1 .. (p - 1) /\ i \in 1 .. N /\ L[i] = A[i]
        BY <1>2, <1>3, <1>9, <2>1
      <3> QED
        BY <1>5, <3>1
    <2>2. CASE ~(i <= p - 1)
      <3>1. i - (p - 1) \in 1 .. (N - p) /\ (i - (p - 1)) + p \in 1 .. N /\ L[i] = B[i - (p - 1)]
        BY <1>2, <1>3, <1>9, <2>2
      <3> QED
        BY <1>6, <3>1
    <2> QED
      BY <2>1, <2>2
  <1>11. ASSUME NEW j \in 1 .. N, j # p
         PROVE  m_list[j] \in Elems(L)
    <2>1. CASE j < p
      <3>1. j \in 1 .. (N - 1) /\ j <= p - 1 /\ j \in 1 .. (p - 1)
        BY <1>2, <1>3, <2>1
      <3>2. L[j] = m_list[j]
        BY <1>5, <1>9, <3>1
      <3> QED
        BY <1>8, <3>1, <3>2 DEF Elems
    <2>2. CASE j > p
      <3>1. /\ j - 1 \in 1 .. (N - 1) /\ ~(j - 1 <= p - 1) /\ (j - 1) - (p - 1) \in 1 .. (N - p)
            /\ (j - 1) - (p - 1) + p = j
        BY <1>2, <1>3, <2>2
      <3>2. L[j - 1] = m_list[j]
        BY <1>6, <1>9, <3>1
      <3> QED
        BY <1>8, <3>1, <3>2 DEF Elems
    <2> QED
      BY <1>2, <1>3, <1>11, <2>1, <2>2
  <1>12. Nodes' = Elems(L) /\ Elems(L) \subseteq Nodes
    BY <1>1, <1>8, <1>10 DEF Nodes, Elems
  <1>13. m_map' \subseteq {x.key : x \in Nodes'}
    <2> SUFFICES ASSUME NEW q \in m_map, q # k PROVE \E x \in Elems(L) : q = x.key
      BY <1>1, <1>12
    <2>1. PICK j \in 1 .. N : m_list[j].key = q
      BY <1>2 DEF CacheOK, Nodes, Elems
    <2>2. j # p
      BY <1>3, <2>1
    <2> QED
      BY <1>11, <2>1, <2>2
  <1> QED
    BY <1>1, <1>4, <1>7, <1>12, <1>13 DEF CacheOK, Known

\* A second passes.
LEMMA TickCache ==
    ASSUME CacheOK, Tick
    PROVE  CacheOK' /\ m_map' = m_map /\ \A x \in Nodes' : Known(x)
  <1> DEFINE n == Len(m_list)   L == [i \in DOMAIN m_list |-> Older(m_list[i])]
  <1>1. m_list' = L /\ m_map' = m_map /\ m_timeout' = m_timeout
    BY DEF Tick
  <1>2. n \in Nat /\ DOMAIN m_list = 1 .. n /\ \A i \in 1 .. n : m_list[i] \in Address
    BY LenProperties, ElementOfSeq DEF CacheOK
  <1> HIDE DEF n
  <1>3. ASSUME NEW y \in Address
        PROVE  Older(y) \in Address /\ Older(y).key = y.key /\ Older(y).value = y.value
    <2>1. y.age \in 0 .. MaxAge /\ y.key \in Nat /\ y.value \in Clients
      BY DEF Address
    <2>2. Older(y) = [key |-> y.key, value |-> y.value,
                      age |-> IF y.age < MaxAge THEN y.age + 1 ELSE MaxAge]
      BY DEF Older, Address
    <2>3. (IF y.age < MaxAge THEN y.age + 1 ELSE MaxAge) \in 0 .. MaxAge
      BY <2>1, CacheAssumption
    <2> QED
      BY <2>1, <2>2, <2>3 DEF Address
  <1>4. L \in Seq(Address) /\ DOMAIN L = 1 .. n /\ \A i \in 1 .. n : L[i] = Older(m_list[i])
    BY <1>2, <1>3
  <1> HIDE DEF L
  <1>5. \A i \in 1 .. n : L[i].key = m_list[i].key /\ L[i].value = m_list[i].value
    BY <1>2, <1>3, <1>4
  <1>6. \A x \in Nodes' : Known(x)
    BY <1>1, <1>2, <1>4, <1>5 DEF Nodes, Elems, Known
  <1>7. {x.key : x \in Nodes} \subseteq {x.key : x \in Nodes'}
    <2> SUFFICES ASSUME NEW i \in 1 .. n PROVE \E x \in Nodes' : m_list[i].key = x.key
      BY <1>2 DEF Nodes, Elems
    <2>1. L[i] \in Nodes' /\ L[i].key = m_list[i].key
      BY <1>1, <1>4, <1>5 DEF Nodes, Elems
    <2> QED
      BY <2>1
  <1> QED
    BY <1>1, <1>4, <1>6, <1>7 DEF CacheOK

-----------------------------------------------------------------------------
(* The invariant.                                                          *)

Msg == [id : Nat, req : Requests]

\* What the server holds of the requests it has taken.
Msgs ==
    {a.msg : a \in app} \cup (IF listener = None THEN {} ELSE {listener})
      \cup Elems(server_recv_queue) \cup Elems(server_send_queue)

\* What it has not taken yet, and what has been answered.
Queued  == UNION {Elems(m_send_queue[c]) : c \in Clients}
Waiting == idle \cup Queued \cup Elems(broker)
Got(r)  == answers[r] > 0 \/ r \in Elems(inbox[ClientOf[r]])

ClientTyped ==
    /\ idle \in SUBSET Requests
    /\ m_send_queue \in [Clients -> Seq(Requests)]
    /\ broker \in Seq(Requests)
    /\ inbox \in [Clients -> Seq(Requests)]
    /\ answers \in [Requests -> Nat]

ServerTyped ==
    /\ driver \in Level
    /\ server_seq_no \in Nat
    /\ listener \in Msg \cup {None}
    /\ server_recv_queue \in Seq(Msg)
    /\ app \in SUBSET [msg : Msg, left : 1 .. MaxReplies]
    /\ server_send_queue \in Seq(Msg)
    /\ reply \in ReplyType \cup {None}

\* An id belongs to one request, and its session holds that request's client.
Addressed ==
    /\ \A m \in Msgs : m.id <= server_seq_no
    /\ \A x \in Nodes : x.key <= server_seq_no
    /\ \A x \in Nodes : \A m \in Msgs : x.key = m.id => x.value = ClientOf[m.req]
    /\ \A m, n \in Msgs : m.id = n.id => m.req = n.req

\* A request waits in one place, once.
Waits ==
    /\ \A c \in Clients : /\ Distinct(m_send_queue[c])
                          /\ \A r \in Elems(m_send_queue[c]) : ClientOf[r] = c
    /\ Distinct(broker)
    /\ idle \cap Queued = {} /\ idle \cap Elems(broker) = {} /\ Queued \cap Elems(broker) = {}

\* A request the server has taken waits no longer, and has one id.
TakenOnce ==
    /\ \A m \in Msgs : m.req \notin Waiting
    /\ \A m, n \in Msgs : m.req = n.req => m.id = n.id
    /\ reply # None => reply.req \notin Waiting

\* A session or a reply under way means that no answer has arrived.
Once ==
    /\ \A r \in Requests : Got(r) => r \notin Waiting
    /\ \A r \in Requests : answers[r] > 0 => answers[r] = 1 /\ r \notin Elems(inbox[ClientOf[r]])
    /\ \A c \in Clients : Distinct(inbox[c])
    /\ reply # None => ~Got(reply.req)
    /\ \A m \in Msgs : m.id \in m_map => ~Got(m.req) /\ (reply # None => reply.req # m.req)

Inv ==
    /\ ClientTyped /\ ServerTyped /\ CacheOK
    /\ Addressed /\ Waits /\ TakenOnce /\ Once /\ RightClient

\* Whatever the server holds, in a queue or outside, is a message.
LEMMA MsgsTyped ==
    ASSUME ServerTyped
    PROVE  Msgs \subseteq Msg
  <1>1. \A s \in Seq(Msg) : Elems(s) \subseteq Msg
    <2> SUFFICES ASSUME NEW s \in Seq(Msg), NEW i \in DOMAIN s PROVE s[i] \in Msg
      BY DEF Elems
    <2> QED
      BY ElementOfSeq, LenProperties
  <1>2. \A a \in app : a.msg \in Msg
    BY DEF ServerTyped
  <1> QED
    BY <1>1, <1>2 DEF ServerTyped, Msgs

\* At the start nothing is under way.
LEMMA InitCorrect ==
    ASSUME Init
    PROVE  Inv
  <1>1. \A S : <<>> \in Seq(S) /\ Elems(<<>>) = {} /\ Distinct(<<>>) /\ DOMAIN <<>> = {}
    BY EmptyQueue, EmptySeq
  <1>2. ClientTyped
    BY <1>1 DEF Init, ClientTyped
  <1>3. ServerTyped
    BY <1>1 DEF Init, ServerTyped, Level
  <1>4. Nodes = {} /\ m_map = {} /\ CacheOK
    BY <1>1, MQAssumption DEF Init, CacheInit, CacheOK, Nodes
  <1>5. Msgs = {} /\ reply = None
    BY <1>1 DEF Init, Msgs
  <1>6. Queued = {} /\ Elems(broker) = {}
    BY <1>1 DEF Init, Queued
  <1>7. \A c \in Clients : m_send_queue[c] = <<>> /\ inbox[c] = <<>>
    BY DEF Init
  <1>8. Waits
    BY <1>1, <1>6, <1>7 DEF Waits, Init
  <1>9. \A r \in Requests : answers[r] = 0 /\ inbox[ClientOf[r]] = <<>>
    BY <1>7, MQAssumption DEF Init
  <1>10. \A r \in Requests : ~Got(r) /\ ~(answers[r] > 0)
    BY <1>1, <1>9 DEF Got
  <1>11. Once /\ TakenOnce /\ Addressed /\ RightClient
    BY <1>1, <1>4, <1>5, <1>7, <1>10 DEF Once, TakenOnce, Addressed, RightClient
  <1> QED
    BY <1>2, <1>3, <1>4, <1>8, <1>11 DEF Inv

-----------------------------------------------------------------------------
(* Steps after which the server holds no more than before.                 *)

Shrinks ==
    /\ UNCHANGED <<idle, m_send_queue, broker, inbox, answers>>
    /\ Msgs' \subseteq Msgs /\ m_map' \subseteq m_map
    /\ \A x \in Nodes' : Known(x)
    /\ reply' \in {reply, None}
    /\ server_seq_no' = server_seq_no \/ (Msgs' = {} /\ Nodes' = {})

\* Steps of the server alone: the clients' side keeps its meaning.
LEMMA ClientSame ==
    ASSUME UNCHANGED <<idle, m_send_queue, broker, inbox, answers>>
    PROVE  /\ Queued' = Queued /\ Waiting' = Waiting
           /\ \A r : Got(r)' <=> Got(r)
           /\ ClientTyped => ClientTyped'
           /\ Waits => Waits'
  <1>1. /\ idle' = idle /\ m_send_queue' = m_send_queue /\ broker' = broker
        /\ inbox' = inbox /\ answers' = answers
    OBVIOUS
  <1>2. Queued' = Queued
    BY <1>1 DEF Queued
  <1>3. Waiting' = Waiting
    BY <1>1, <1>2 DEF Waiting
  <1>4. \A r : Got(r)' <=> Got(r)
    BY <1>1 DEF Got
  <1>5. ClientTyped => ClientTyped'
    BY <1>1 DEF ClientTyped
  <1>6. Waits => Waits'
    BY <1>1, <1>2 DEF Waits
  <1> QED
    BY <1>2, <1>3, <1>4, <1>5, <1>6

\* A server that holds no more than before keeps the invariant.
LEMMA ShrinksKeeps ==
    ASSUME Inv, Shrinks, ServerTyped', CacheOK'
    PROVE  Inv'
  <1>1. /\ Msgs' \subseteq Msgs /\ m_map' \subseteq m_map /\ (\A x \in Nodes' : Known(x))
        /\ reply' \in {reply, None}
        /\ server_seq_no' = server_seq_no \/ (Msgs' = {} /\ Nodes' = {})
        /\ answers' = answers /\ inbox' = inbox
    BY DEF Shrinks
  <1>2. /\ Waiting' = Waiting /\ (\A r : Got(r)' <=> Got(r)) /\ ClientTyped' /\ Waits'
    BY ClientSame DEF Shrinks, Inv
  <1>3. Addressed'
    BY <1>1 DEF Inv, Addressed, Known
  <1>4. TakenOnce'
    BY <1>1, <1>2 DEF Inv, TakenOnce
  <1>5. reply' # None => reply' = reply /\ reply # None
    BY <1>1
  <1>6. Once'
    <2>1. \A r \in Requests : Got(r)' => r \notin Waiting'
      BY <1>2 DEF Inv, Once
    <2>2. \A r \in Requests : answers'[r] > 0 => answers'[r] = 1 /\ r \notin Elems(inbox'[ClientOf[r]])
      BY <1>1 DEF Inv, Once
    <2>3. \A c \in Clients : Distinct(inbox'[c])
      BY <1>1 DEF Inv, Once
    <2>4. (reply # None => ~Got(reply.req))'
      BY <1>1, <1>5 DEF Inv, Once, Got
    <2>5. \A m \in Msgs' : m.id \in m_map' => ~Got(m.req)' /\ (reply' # None => reply'.req # m.req)
      BY <1>1, <1>2, <1>5 DEF Inv, Once
    <2> QED
      BY <2>1, <2>2, <2>3, <2>4, <2>5 DEF Once, Got
  <1>7. RightClient'
    BY <1>1, <1>5 DEF Inv, RightClient
  <1> QED
    BY <1>2, <1>3, <1>4, <1>6, <1>7 DEF Inv

\* Steps that leave the cache alone.
LEMMA CacheSame ==
    ASSUME CacheOK, UNCHANGED cacheVars
    PROVE  /\ CacheOK' /\ m_map' = m_map /\ Nodes' = Nodes /\ \A x \in Nodes' : Known(x)
  <1>1. m_list' = m_list /\ m_map' = m_map /\ m_timeout' = m_timeout
    BY DEF cacheVars
  <1>2. Nodes' = Nodes
    BY <1>1 DEF Nodes
  <1> QED
    BY <1>1, <1>2 DEF CacheOK, Known

\* A step that leaves the server alone, or its queues.
LEMMA QueuesSame ==
    ASSUME Inv, UNCHANGED queueVars
    PROVE  /\ Msgs' = Msgs /\ reply' = reply /\ server_seq_no' = server_seq_no
           /\ driver' \in Level => ServerTyped'
  <1>1. /\ server_seq_no' = server_seq_no /\ listener' = listener /\ app' = app /\ reply' = reply
        /\ server_recv_queue' = server_recv_queue /\ server_send_queue' = server_send_queue
    BY DEF queueVars
  <1> QED
    BY <1>1 DEF Msgs, Inv, ServerTyped

\* A server that starts anew holds nothing.
LEMMA FreshShrinks ==
    ASSUME Inv, Fresh, UNCHANGED clientVars
    PROVE  Shrinks /\ ServerTyped' /\ CacheOK'
  <1>1. \A S : <<>> \in Seq(S) /\ Elems(<<>>) = {}
    BY EmptyQueue
  <1>2. /\ m_list' = <<>> /\ m_map' = {} /\ m_timeout' = m_timeout /\ reply' = None
        /\ listener' = None /\ server_recv_queue' = <<>> /\ app' = {} /\ server_send_queue' = <<>>
        /\ driver' = 0 /\ server_seq_no' = 0
    BY DEF Fresh, Settings
  <1>3. Msgs' = {} /\ Nodes' = {}
    BY <1>1, <1>2 DEF Msgs, Nodes
  <1>4. ServerTyped'
    BY <1>1, <1>2 DEF ServerTyped, Level
  <1>5. CacheOK'
    BY <1>1, <1>2 DEF CacheOK, Inv
  <1> QED
    BY <1>2, <1>3, <1>4, <1>5 DEF Shrinks, clientVars

\* Clients, the life of the driver and the crash of the process.
LEMMA LifeShrinks ==
    ASSUME Inv,
           \/ UNCHANGED vars
           \/ \E c \in Clients : \E connected \in BOOLEAN : ClientInit(c, connected)
           \/ \E level \in Level : StartService(level)
           \/ StopService \/ StopDriver \/ Restart
    PROVE  Shrinks /\ ServerTyped' /\ CacheOK'
  <1>1. /\ UNCHANGED cacheVars /\ UNCHANGED queueVars
        /\ UNCHANGED <<idle, m_send_queue, broker, inbox, answers>>
    BY DEF vars, clientVars, serverVars, ClientInit, StartService, StopService, StopDriver, Restart
  <1>2. driver' \in Level
    BY DEF vars, serverVars, driverVars, ClientInit, StartService, StopService, StopDriver, Restart,
           Inv, ServerTyped, Level
  <1> QED
    BY <1>1, <1>2, CacheSame, QueuesSame DEF Shrinks, Inv

\* A killed server, or one that died on a NULL session, holds nothing.
LEMMA CrashShrinks ==
    ASSUME Inv, Kill \/ RunSendToNull
    PROVE  Shrinks /\ ServerTyped' /\ CacheOK'
  <1>1. Fresh /\ UNCHANGED clientVars
    BY DEF Kill, RunSendToNull
  <1> QED
    BY <1>1, FreshShrinks

\* A message passes on inside the server.
LEMMA PushRecvQueueShrinks ==
    ASSUME Inv, PushRecvQueue
    PROVE  Shrinks /\ ServerTyped' /\ CacheOK'
  <1>1. /\ listener # None /\ listener' = None /\ server_recv_queue' = Append(server_recv_queue, listener)
        /\ UNCHANGED cacheVars /\ UNCHANGED clientVars
        /\ driver' = driver /\ server_seq_no' = server_seq_no /\ app' = app
        /\ server_send_queue' = server_send_queue /\ reply' = reply
    BY DEF PushRecvQueue, driverVars
  <1>2. listener \in Msg /\ server_recv_queue \in Seq(Msg)
    BY <1>1 DEF Inv, ServerTyped
  <1>3. /\ server_recv_queue' \in Seq(Msg)
        /\ Elems(server_recv_queue') = Elems(server_recv_queue) \cup {listener}
    BY <1>1, <1>2, PushQueue
  <1>4. Msgs' \subseteq Msgs
    BY <1>1, <1>3 DEF Msgs
  <1>5. ServerTyped'
    BY <1>1, <1>3 DEF Inv, ServerTyped
  <1> QED
    BY <1>1, <1>4, <1>5, CacheSame DEF Inv, Shrinks, clientVars

\* The application takes a message over from the receive queue.
LEMMA RecvFromQueueShrinks ==
    ASSUME Inv, RecvFromQueue
    PROVE  Shrinks /\ ServerTyped' /\ CacheOK'
  <1> DEFINE h == Head(server_recv_queue)   n == [msg |-> h, left |-> MaxReplies]
  <1>1. /\ server_recv_queue # <<>> /\ app' = app \cup {n}
        /\ server_recv_queue' = Tail(server_recv_queue)
        /\ UNCHANGED cacheVars /\ UNCHANGED clientVars
        /\ driver' = driver /\ server_seq_no' = server_seq_no /\ listener' = listener
        /\ server_send_queue' = server_send_queue /\ reply' = reply
    BY DEF RecvFromQueue, driverVars
  <1>2. /\ h \in Msg /\ server_recv_queue' \in Seq(Msg)
        /\ Elems(server_recv_queue) = {h} \cup Elems(server_recv_queue')
    BY <1>1, PopQueue DEF Inv, ServerTyped
  <1>3. MaxReplies \in 1 .. MaxReplies
    BY MQAssumption
  <1> HIDE DEF h
  <1>4. n \in [msg : Msg, left : 1 .. MaxReplies] /\ n.msg = h
    BY <1>2, <1>3
  <1> HIDE DEF n
  <1>5. Msgs' \subseteq Msgs
    BY <1>1, <1>2, <1>4 DEF Msgs
  <1>6. ServerTyped'
    BY <1>1, <1>2, <1>4 DEF Inv, ServerTyped
  <1> QED
    BY <1>1, <1>5, <1>6, CacheSame DEF Inv, Shrinks, clientVars

\* The application answers a message, once more or for the last time.
LEMMA SendToQueueShrinks ==
    ASSUME Inv, NEW a \in app, SendToQueue(a)
    PROVE  Shrinks /\ ServerTyped' /\ CacheOK'
  <1> DEFINE Entry == [msg : Msg, left : 1 .. MaxReplies]
             n == [msg |-> a.msg, left |-> a.left - 1]
  <1>1. a \in Entry /\ a.msg \in Msg /\ a.left \in 1 .. MaxReplies /\ app \subseteq Entry
    BY DEF Inv, ServerTyped
  <1>2. [a EXCEPT !.left = @ - 1] = n
    BY <1>1
  <1>3. /\ server_send_queue' = Append(server_send_queue, a.msg)
        /\ app' = (app \ {a}) \cup (IF a.left = 1 THEN {} ELSE {n})
        /\ UNCHANGED cacheVars /\ UNCHANGED clientVars
        /\ driver' = driver /\ server_seq_no' = server_seq_no /\ listener' = listener
        /\ server_recv_queue' = server_recv_queue /\ reply' = reply
    BY <1>2 DEF SendToQueue, driverVars
  <1>4. a.left # 1 => a.left - 1 \in 1 .. MaxReplies
    BY <1>1, MQAssumption
  <1>5. n.msg = a.msg /\ (a.left # 1 => n \in Entry)
    BY <1>1, <1>4
  <1> HIDE DEF n, Entry
  <1>6. app' \in SUBSET Entry /\ \A b \in app' : b.msg = a.msg \/ b \in app
    BY <1>1, <1>3, <1>5
  <1>7. /\ server_send_queue' \in Seq(Msg)
        /\ Elems(server_send_queue') = Elems(server_send_queue) \cup {a.msg}
    BY <1>1, <1>3, PushQueue DEF Inv, ServerTyped
  <1>8. {b.msg : b \in app'} \subseteq {b.msg : b \in app}
    BY <1>6
  <1>9. Msgs' \subseteq Msgs
    BY <1>3, <1>7, <1>8 DEF Msgs
  <1>10. ServerTyped'
    BY <1>3, <1>6, <1>7 DEF Inv, ServerTyped, Entry
  <1> QED
    BY <1>3, <1>9, <1>10, CacheSame DEF Inv, Shrinks, clientVars

\* Run pops an answer from the queue, whatever becomes of it.
LEMMA PopAnswer ==
    ASSUME Inv, server_send_queue # <<>>, server_send_queue' = Tail(server_send_queue),
           UNCHANGED <<driverVars, server_seq_no, listener, server_recv_queue, app>>
    PROVE  /\ Popped \in Msgs /\ Popped \in Msg /\ Msgs' \subseteq Msgs
           /\ server_seq_no' = server_seq_no
           /\ reply' \in ReplyType \cup {None} => ServerTyped'
  <1>1. /\ driver' = driver /\ server_seq_no' = server_seq_no /\ listener' = listener
        /\ server_recv_queue' = server_recv_queue /\ app' = app
    BY DEF driverVars
  <1>2. /\ Popped \in Msg /\ server_send_queue' \in Seq(Msg) /\ Popped \in Elems(server_send_queue)
        /\ Elems(server_send_queue) = {Popped} \cup Elems(server_send_queue')
    BY PopQueue DEF Inv, ServerTyped, Popped
  <1>3. Popped \in Msgs /\ Msgs' \subseteq Msgs
    BY <1>1, <1>2 DEF Msgs
  <1> QED
    BY <1>1, <1>2, <1>3 DEF Inv, ServerTyped

\* A reply whose session is no longer cached is dropped.
LEMMA RunDropsShrinks ==
    ASSUME Inv, RunDrops
    PROVE  Shrinks /\ ServerTyped' /\ CacheOK'
  <1>1. /\ server_send_queue # <<>> /\ server_send_queue' = Tail(server_send_queue)
        /\ UNCHANGED <<driverVars, server_seq_no, listener, server_recv_queue, app>>
        /\ UNCHANGED clientVars /\ reply' = reply
    BY DEF RunDrops
  <1>2. Msgs' \subseteq Msgs /\ server_seq_no' = server_seq_no /\ ServerTyped'
    <2>1. reply' \in ReplyType \cup {None}
      BY <1>1 DEF Inv, ServerTyped
    <2> QED
      BY <1>1, <2>1, PopAnswer
  <1>3. CacheOK' /\ m_map' \subseteq m_map /\ \A x \in Nodes' : Known(x)
    <2>1. CASE PopSession(Popped.id)
      BY <2>1, PopCache DEF Inv
    <2>2. CASE UNCHANGED cacheVars
      BY <2>2, CacheSame DEF Inv
    <2> QED
      BY <2>1, <2>2 DEF RunDrops
  <1> QED
    BY <1>1, <1>2, <1>3 DEF Shrinks, clientVars

\* Each of the two clean-ups only forgets sessions.
LEMMA CleanUpCache ==
    ASSUME Inv, CleanUp
    PROVE  CacheOK' /\ m_map' \subseteq m_map /\ \A x \in Nodes' : Known(x)
  <1>1. CASE ClearTimeout(Timeout)
    <2>1. Timeout \in Int
      BY MQAssumption, CacheAssumption
    <2> QED
      BY <1>1, <2>1, ClearCache DEF Inv
  <1>2. CASE UNCHANGED cacheVars
    BY <1>2, CacheSame DEF Inv
  <1> QED
    BY <1>1, <1>2 DEF CleanUp

\* Time passes, and sessions expire.
LEMMA TimeShrinks ==
    ASSUME Inv, RunTimedOut \/ Second
    PROVE  Shrinks /\ ServerTyped' /\ CacheOK'
  <1>1. /\ driver' = driver /\ server_seq_no' = server_seq_no /\ listener' = listener
        /\ server_recv_queue' = server_recv_queue /\ app' = app
        /\ server_send_queue' = server_send_queue /\ reply' = reply /\ UNCHANGED clientVars
    BY DEF RunTimedOut, Second, driverVars
  <1>2. Msgs' = Msgs /\ ServerTyped'
    BY <1>1 DEF Inv, ServerTyped, Msgs
  <1>3. CacheOK' /\ m_map' \subseteq m_map /\ \A x \in Nodes' : Known(x)
    <2>1. CASE RunTimedOut
      BY <2>1, CleanUpCache DEF RunTimedOut
    <2>2. CASE Second
      BY <2>2, TickCache DEF Second, Inv
    <2> QED
      BY <2>1, <2>2
  <1> QED
    BY <1>1, <1>2, <1>3 DEF Shrinks, clientVars

-----------------------------------------------------------------------------
(* The steps that move a request on.                                       *)

\* A step of a client leaves the server alone; what waits may get less, what is
\* answered stays answered.
LEMMA ClientMoves ==
    ASSUME Inv, UNCHANGED cacheVars, UNCHANGED queueVars, driver' = driver,
           ClientTyped', Waits', Waiting' \subseteq Waiting,
           \A r \in Requests : Got(r)' <=> Got(r),
           \A r \in Requests : answers'[r] > 0 => answers'[r] = 1 /\ r \notin Elems(inbox'[ClientOf[r]]),
           \A c \in Clients : Distinct(inbox'[c]),
           \A c \in Clients : \A i \in DOMAIN inbox'[c] : ClientOf[inbox'[c][i]] = c
    PROVE  Inv'
  <1>1. Msgs' = Msgs /\ reply' = reply /\ server_seq_no' = server_seq_no /\ ServerTyped'
    BY QueuesSame DEF Inv, ServerTyped
  <1>2. CacheOK' /\ m_map' = m_map /\ Nodes' = Nodes
    BY CacheSame DEF Inv
  <1>3. Addressed' /\ TakenOnce' /\ RightClient'
    BY <1>1, <1>2 DEF Inv, Addressed, TakenOnce, RightClient
  <1>4. (\A m \in Msgs : m.req \in Requests) /\ (reply # None => reply.req \in Requests)
    BY MsgsTyped DEF Inv, ServerTyped, ReplyType, Msg
  <1>5. Once'
    <2>1. \A r \in Requests : Got(r)' => r \notin Waiting'
      BY DEF Inv, Once
    <2>2. (reply # None => ~Got(reply.req))'
      BY <1>1, <1>4 DEF Inv, Once
    <2>3. \A m \in Msgs' : m.id \in m_map' => ~Got(m.req)' /\ (reply' # None => reply'.req # m.req)
      BY <1>1, <1>2, <1>4 DEF Inv, Once
    <2> QED
      BY <2>1, <2>2, <2>3 DEF Once
  <1> QED
    BY <1>1, <1>2, <1>3, <1>5 DEF Inv

\* The client queues a request.
LEMMA ClientSendToQueueEffect ==
    ASSUME Inv, NEW r \in Requests, ClientSendToQueue(r)
    PROVE  /\ r \in idle /\ idle' = idle \ {r} /\ Queued' = Queued \cup {r}
           /\ Waiting' = Waiting /\ r \in Waiting
           /\ UNCHANGED <<broker, inbox, answers>> /\ UNCHANGED cacheVars /\ UNCHANGED queueVars
           /\ driver' = driver
           /\ ClientTyped' /\ Waits'
  <1> DEFINE c == ClientOf[r]   q == Append(m_send_queue[c], r)
  <1>1. /\ r \in idle /\ idle' = idle \ {r}
        /\ m_send_queue' = [m_send_queue EXCEPT ![c] = q]
        /\ UNCHANGED <<broker, inbox, answers>> /\ UNCHANGED cacheVars /\ UNCHANGED queueVars
        /\ driver' = driver
    BY DEF ClientSendToQueue, serverVars, driverVars
  <1>2. c \in Clients /\ m_send_queue \in [Clients -> Seq(Requests)] /\ idle \subseteq Requests
    BY MQAssumption DEF Inv, ClientTyped
  <1>3. /\ q \in Seq(Requests) /\ Elems(q) = Elems(m_send_queue[c]) \cup {r}
        /\ (Distinct(m_send_queue[c]) /\ r \notin Elems(m_send_queue[c]) => Distinct(q))
    BY <1>2, PushQueue
  <1> HIDE DEF q
  <1>4. /\ m_send_queue' \in [Clients -> Seq(Requests)]
        /\ m_send_queue'[c] = q
        /\ \A d \in Clients : d # c => m_send_queue'[d] = m_send_queue[d]
    BY <1>1, <1>2, <1>3
  <1>5. Queued' = Queued \cup {r}
    <2>1. Queued' = UNION {Elems(m_send_queue'[d]) : d \in Clients}
      BY DEF Queued
    <2>2. ASSUME NEW d \in Clients, NEW x \in Elems(m_send_queue'[d])
          PROVE  x \in Queued \cup {r}
      <3>1. x \in Elems(m_send_queue[d]) \/ x = r
        BY <1>3, <1>4
      <3> QED
        BY <3>1 DEF Queued
    <2>3. ASSUME NEW d \in Clients, NEW x \in Elems(m_send_queue[d])
          PROVE  x \in Queued'
      <3>1. x \in Elems(m_send_queue'[d])
        BY <1>3, <1>4
      <3> QED
        BY <2>1, <3>1
    <2>4. r \in Queued'
      BY <1>2, <1>3, <1>4, <2>1
    <2> QED
      BY <2>1, <2>2, <2>3, <2>4 DEF Queued
  <1>6. Waiting' = Waiting /\ r \in Waiting
    BY <1>1, <1>5 DEF Waiting
  <1>7. ClientTyped'
    BY <1>1, <1>2, <1>4 DEF Inv, ClientTyped
  <1>8. Elems(broker') = Elems(broker) /\ broker' = broker
    BY <1>1
  <1>9. Waits'
    <2>1. r \notin Elems(m_send_queue[c])
      BY <1>1, <1>2 DEF Inv, Waits, Queued
    <2>2. \A d \in Clients : /\ Distinct(m_send_queue'[d])
                             /\ \A x \in Elems(m_send_queue'[d]) : ClientOf[x] = d
      BY <1>2, <1>3, <1>4, <2>1 DEF Inv, Waits
    <2>3. r \notin Elems(broker) /\ r \notin Queued
      BY <1>1 DEF Inv, Waits
    <2> QED
      BY <1>1, <1>5, <1>8, <2>2, <2>3 DEF Inv, Waits
  <1> QED
    BY <1>1, <1>5, <1>6, <1>7, <1>9

\* A client sends a request it has not sent before.
LEMMA ClientSendToQueueKeeps ==
    ASSUME Inv, NEW r \in Requests, ClientSendToQueue(r)
    PROVE  Inv'
  <1>1. /\ Waiting' = Waiting /\ inbox' = inbox /\ answers' = answers /\ driver' = driver
        /\ UNCHANGED cacheVars /\ UNCHANGED queueVars /\ ClientTyped' /\ Waits'
    BY ClientSendToQueueEffect
  <1>2. \A x \in Requests : Got(x)' <=> Got(x)
    BY <1>1 DEF Got
  <1>3. /\ \A x \in Requests : answers[x] > 0 => answers[x] = 1 /\ x \notin Elems(inbox[ClientOf[x]])
        /\ \A c \in Clients : Distinct(inbox[c])
        /\ \A c \in Clients : \A i \in DOMAIN inbox[c] : ClientOf[inbox[c][i]] = c
    BY DEF Inv, Once, RightClient
  <1> QED
    BY <1>1, <1>2, <1>3, ClientMoves

\* The client's sender thread hands a request to the broker, or loses it, or dies.
LEMMA ClientRunEffect ==
    ASSUME Inv, NEW c \in Clients, ClientRun(c)
    PROVE  /\ idle' = idle /\ Waiting' \subseteq Waiting
           /\ UNCHANGED <<inbox, answers>> /\ UNCHANGED cacheVars /\ UNCHANGED queueVars
           /\ driver' = driver
           /\ ClientTyped' /\ Waits'
  <1> DEFINE s == m_send_queue[c]   h == Head(s)
             q == IF client[c] = "broken" THEN <<>> ELSE Tail(s)
  <1>1. /\ s # <<>> /\ idle' = idle
        /\ broker' = IF client[c] = "open" THEN Append(broker, h) ELSE broker
        /\ m_send_queue' = [m_send_queue EXCEPT ![c] = q]
        /\ UNCHANGED <<inbox, answers>> /\ UNCHANGED cacheVars /\ UNCHANGED queueVars
        /\ driver' = driver
    BY DEF ClientRun, serverVars, driverVars
  <1>2. /\ m_send_queue \in [Clients -> Seq(Requests)] /\ broker \in Seq(Requests)
        /\ s \in Seq(Requests)
    BY DEF Inv, ClientTyped
  <1>3. Distinct(s) /\ \A x \in Elems(s) : ClientOf[x] = c
    BY DEF Inv, Waits
  <1>4. /\ h \in Requests /\ h \in Elems(s) /\ Tail(s) \in Seq(Requests) /\ Distinct(Tail(s))
        /\ Elems(Tail(s)) \subseteq Elems(s) /\ h \notin Elems(Tail(s))
    BY <1>1, <1>2, <1>3, PopQueue
  <1>5. q \in Seq(Requests) /\ Distinct(q) /\ Elems(q) \subseteq Elems(s) /\ h \notin Elems(q)
    <2>1. CASE client[c] = "broken"
      BY <2>1, EmptyQueue
    <2>2. CASE client[c] # "broken"
      BY <1>4, <2>2
    <2> QED
      BY <2>1, <2>2
  <1> HIDE DEF q, h
  <1>6. /\ m_send_queue' \in [Clients -> Seq(Requests)]
        /\ m_send_queue'[c] = q
        /\ \A d \in Clients : d # c => m_send_queue'[d] = m_send_queue[d]
    BY <1>1, <1>2, <1>5
  <1>7. \A d \in Clients : /\ Elems(m_send_queue'[d]) \subseteq Elems(m_send_queue[d])
                           /\ Distinct(m_send_queue'[d])
    BY <1>5, <1>6 DEF Inv, Waits
  <1>8. h \in Queued /\ h \notin Elems(broker)
    BY <1>4 DEF Inv, Waits, Queued
  <1>9. ASSUME NEW x \in Queued'
        PROVE  x \in Queued /\ x # h
    <2>1. PICK d \in Clients : x \in Elems(m_send_queue'[d])
      BY DEF Queued
    <2>2. x \in Elems(m_send_queue[d])
      BY <1>7, <2>1
    <2>3. x # h
      <3>1. CASE d = c
        BY <1>5, <1>6, <2>1, <3>1
      <3>2. CASE d # c
        BY <1>3, <1>4, <2>2, <3>2 DEF Inv, Waits
      <3> QED
        BY <3>1, <3>2
    <2> QED
      BY <2>2, <2>3 DEF Queued
  <1>10. /\ broker' \in Seq(Requests) /\ Distinct(broker')
         /\ Elems(broker') \subseteq Elems(broker) \cup {h}
    <2>1. /\ Append(broker, h) \in Seq(Requests) /\ Distinct(Append(broker, h))
          /\ Elems(Append(broker, h)) = Elems(broker) \cup {h}
      BY <1>2, <1>4, <1>8, PushQueue DEF Inv, Waits
    <2>2. Distinct(broker)
      BY DEF Inv, Waits
    <2> QED
      BY <1>1, <1>2, <2>1, <2>2
  <1>11. Waiting' \subseteq Waiting
    BY <1>1, <1>8, <1>9, <1>10 DEF Waiting
  <1>12. ClientTyped'
    BY <1>1, <1>6, <1>10 DEF Inv, ClientTyped
  <1>13. Waits'
    <2>1. idle \cap Queued = {} /\ idle \cap Elems(broker) = {} /\ Queued \cap Elems(broker) = {}
      BY DEF Inv, Waits
    <2>2. idle' \cap Queued' = {} /\ idle' \cap Elems(broker') = {} /\ Queued' \cap Elems(broker') = {}
      BY <1>1, <1>8, <1>9, <1>10, <2>1
    <2>3. \A d \in Clients : \A x \in Elems(m_send_queue'[d]) : ClientOf[x] = d
      BY <1>7 DEF Inv, Waits
    <2> QED
      BY <1>7, <1>10, <2>2, <2>3 DEF Waits
  <1> QED
    BY <1>1, <1>11, <1>12, <1>13

\* A request goes from its client to the broker, or is lost on the way.
LEMMA ClientRunKeeps ==
    ASSUME Inv, NEW c \in Clients, ClientRun(c)
    PROVE  Inv'
  <1>1. /\ Waiting' \subseteq Waiting /\ inbox' = inbox /\ answers' = answers /\ driver' = driver
        /\ UNCHANGED cacheVars /\ UNCHANGED queueVars /\ ClientTyped' /\ Waits'
    BY ClientRunEffect
  <1>2. \A x \in Requests : Got(x)' <=> Got(x)
    BY <1>1 DEF Got
  <1>3. /\ \A x \in Requests : answers[x] > 0 => answers[x] = 1 /\ x \notin Elems(inbox[ClientOf[x]])
        /\ \A d \in Clients : Distinct(inbox[d])
        /\ \A d \in Clients : \A i \in DOMAIN inbox[d] : ClientOf[inbox[d][i]] = d
    BY DEF Inv, Once, RightClient
  <1> QED
    BY <1>1, <1>2, <1>3, ClientMoves

\* The reply reaches the client: it was answered before and is so after.
LEMMA ClientOnMessageEffect ==
    ASSUME Inv, NEW c \in Clients, ClientOnMessage(c)
    PROVE  /\ UNCHANGED <<idle, m_send_queue, broker>> /\ UNCHANGED cacheVars /\ UNCHANGED queueVars
           /\ driver' = driver /\ ClientTyped'
           /\ \A r \in Requests : Got(r)' <=> Got(r)
           /\ \A r \in Requests : answers'[r] > 0 => answers'[r] = 1 /\ r \notin Elems(inbox'[ClientOf[r]])
           /\ \A d \in Clients : Distinct(inbox'[d]) /\ Elems(inbox'[d]) \subseteq Elems(inbox[d])
  <1> DEFINE s == inbox[c]   h == Head(s)   t == Tail(s)
  <1>1. /\ s # <<>> /\ inbox' = [inbox EXCEPT ![c] = t]
        /\ answers' = [answers EXCEPT ![h] = answers[h] + 1]
        /\ UNCHANGED <<idle, m_send_queue, broker>> /\ UNCHANGED cacheVars /\ UNCHANGED queueVars
        /\ driver' = driver
    BY DEF ClientOnMessage, serverVars, driverVars
  <1>2. inbox \in [Clients -> Seq(Requests)] /\ s \in Seq(Requests) /\ answers \in [Requests -> Nat]
    BY DEF Inv, ClientTyped
  <1>3. Distinct(s)
    BY DEF Inv, Once
  <1>4. /\ h \in Requests /\ t \in Seq(Requests) /\ h \in Elems(s) /\ Distinct(t)
        /\ Elems(s) = {h} \cup Elems(t) /\ h \notin Elems(t)
    BY <1>1, <1>2, <1>3, PopQueue
  <1>5. ClientOf[h] = c
    BY <1>4 DEF Inv, RightClient, Elems
  <1>6. answers[h] = 0
    BY <1>2, <1>4, <1>5 DEF Inv, Once
  <1> HIDE DEF h, t
  <1>7. /\ inbox' \in [Clients -> Seq(Requests)] /\ inbox'[c] = t
        /\ \A d \in Clients : d # c => inbox'[d] = inbox[d]
    BY <1>1, <1>2, <1>4
  <1>8. /\ answers' \in [Requests -> Nat] /\ answers'[h] = 1
        /\ \A r \in Requests : r # h => answers'[r] = answers[r]
    BY <1>1, <1>2, <1>4, <1>6
  <1>9. ClientTyped'
    BY <1>1, <1>7, <1>8 DEF Inv, ClientTyped
  <1>10. \A d \in Clients : Distinct(inbox'[d]) /\ Elems(inbox'[d]) \subseteq Elems(inbox[d])
    BY <1>4, <1>7 DEF Inv, Once
  <1>11. ASSUME NEW r \in Requests
         PROVE  /\ Got(r)' <=> Got(r)
                /\ answers'[r] > 0 => answers'[r] = 1 /\ r \notin Elems(inbox'[ClientOf[r]])
    <2>1. ClientOf[r] \in Clients
      BY MQAssumption
    <2>2. CASE r = h
      <3>1. Got(r) /\ Got(r)'
        BY <1>4, <1>5, <1>8, <2>2 DEF Got
      <3> QED
        BY <1>4, <1>5, <1>7, <1>8, <2>2, <3>1
    <2>3. CASE r # h
      <3>1. /\ answers'[r] = answers[r]
            /\ r \in Elems(inbox'[ClientOf[r]]) <=> r \in Elems(inbox[ClientOf[r]])
        BY <1>4, <1>7, <1>8, <2>1, <2>3
      <3>2. Got(r)' <=> Got(r)
        BY <3>1 DEF Got
      <3> QED
        BY <3>1, <3>2 DEF Inv, Once
    <2> QED
      BY <2>2, <2>3
  <1> QED
    BY <1>1, <1>9, <1>10, <1>11

\* A client takes a reply out of its inbox.
LEMMA ClientOnMessageKeeps ==
    ASSUME Inv, NEW c \in Clients, ClientOnMessage(c)
    PROVE  Inv'
  <1>1. /\ idle' = idle /\ m_send_queue' = m_send_queue /\ broker' = broker
        /\ UNCHANGED cacheVars /\ UNCHANGED queueVars /\ driver' = driver /\ ClientTyped'
        /\ \A r \in Requests : Got(r)' <=> Got(r)
        /\ \A r \in Requests : answers'[r] > 0 => answers'[r] = 1 /\ r \notin Elems(inbox'[ClientOf[r]])
        /\ \A d \in Clients : Distinct(inbox'[d]) /\ Elems(inbox'[d]) \subseteq Elems(inbox[d])
    BY ClientOnMessageEffect
  <1>2. Queued' = Queued
    BY <1>1 DEF Queued
  <1>3. Waiting' = Waiting /\ Waits'
    BY <1>1, <1>2 DEF Inv, Waiting, Waits
  <1>4. \A d \in Clients : \A i \in DOMAIN inbox'[d] : ClientOf[inbox'[d][i]] = d
    BY <1>1 DEF Inv, RightClient, Elems
  <1> QED
    BY <1>1, <1>3, <1>4, ClientMoves

\* The server takes a request, gives it an id and stores its address.
LEMMA OnAsyncMessageEffect ==
    ASSUME Inv, OnAsyncMessage
    PROVE  \E h \in Requests, k \in Nat :
              /\ h \in Elems(broker) /\ k = server_seq_no + 1 /\ server_seq_no' = k
              /\ Msgs' = Msgs \cup {[id |-> k, req |-> h]}
              /\ idle' = idle /\ Waiting' = Waiting \ {h}
              /\ m_map' \subseteq m_map \cup {k} /\ k \in m_map'
              /\ \A x \in Nodes' : Known(x) \/ (x.key = k /\ x.value = ClientOf[h])
              /\ UNCHANGED <<inbox, answers, reply>>
              /\ ClientTyped' /\ ServerTyped' /\ CacheOK' /\ Waits'
  <1> DEFINE h == Head(broker)   k == server_seq_no + 1   n == [id |-> k, req |-> h]
  <1>1. /\ listener = None /\ broker # <<>> /\ broker' = Tail(broker)
        /\ server_seq_no' = k /\ listener' = n /\ PushSession(k, ClientOf[h])
        /\ idle' = idle /\ m_send_queue' = m_send_queue /\ inbox' = inbox /\ answers' = answers
        /\ driver' = driver /\ server_recv_queue' = server_recv_queue /\ app' = app
        /\ server_send_queue' = server_send_queue /\ reply' = reply
    BY DEF OnAsyncMessage, driverVars
  <1>2. broker \in Seq(Requests) /\ Distinct(broker)
    BY DEF Inv, ClientTyped, Waits
  <1>3. /\ h \in Requests /\ h \in Elems(broker) /\ broker' \in Seq(Requests) /\ Distinct(broker')
        /\ Elems(broker) = {h} \cup Elems(broker') /\ h \notin Elems(broker')
    BY <1>1, <1>2, PopQueue
  <1> HIDE DEF h
  <1>4. k \in Nat /\ ClientOf[h] \in Clients
    BY <1>3, MQAssumption DEF Inv, ServerTyped
  <1>5. /\ CacheOK' /\ m_map' \subseteq m_map \cup {k} /\ k \in m_map'
        /\ \A x \in Nodes' : Known(x) \/ (x.key = k /\ x.value = ClientOf[h])
    BY <1>1, <1>4, PushCache DEF Inv
  <1>6. n \in Msg /\ n # None
    BY <1>3, <1>4, MQAssumption DEF Msg
  <1> HIDE DEF n
  <1>7. Msgs' = Msgs \cup {n}
    BY <1>1, <1>6 DEF Msgs
  <1>8. Queued' = Queued
    BY <1>1 DEF Queued
  <1>9. idle \cap Queued = {} /\ idle \cap Elems(broker) = {} /\ Queued \cap Elems(broker) = {}
    BY DEF Inv, Waits
  <1>10. Waiting' = Waiting \ {h}
    BY <1>1, <1>3, <1>8, <1>9 DEF Waiting
  <1>11. Waits'
    BY <1>1, <1>3, <1>8, <1>9 DEF Inv, Waits
  <1>12. ClientTyped' /\ ServerTyped'
    BY <1>1, <1>3, <1>4, <1>6 DEF Inv, ClientTyped, ServerTyped
  <1> QED
    BY <1>1, <1>3, <1>4, <1>5, <1>7, <1>10, <1>11, <1>12 DEF n

\* The listener gives a request an id that nothing under way has.
LEMMA OnAsyncMessageKeeps ==
    ASSUME Inv, OnAsyncMessage
    PROVE  Inv'
  <1>1. PICK h \in Requests, k \in Nat :
              /\ h \in Elems(broker) /\ k = server_seq_no + 1 /\ server_seq_no' = k
              /\ Msgs' = Msgs \cup {[id |-> k, req |-> h]}
              /\ idle' = idle /\ Waiting' = Waiting \ {h}
              /\ m_map' \subseteq m_map \cup {k} /\ k \in m_map'
              /\ \A x \in Nodes' : Known(x) \/ (x.key = k /\ x.value = ClientOf[h])
              /\ UNCHANGED <<inbox, answers, reply>>
              /\ ClientTyped' /\ ServerTyped' /\ CacheOK' /\ Waits'
    BY OnAsyncMessageEffect
  <1> DEFINE n == [id |-> k, req |-> h]
  <1>2. inbox' = inbox /\ answers' = answers /\ reply' = reply /\ Msgs' = Msgs \cup {n}
    BY <1>1
  <1>3. n.id = k /\ n.req = h
    OBVIOUS
  <1> HIDE DEF n
  <1>4. h \in Waiting
    BY <1>1 DEF Waiting
  <1>5. server_seq_no \in Nat /\ Msgs \subseteq Msg /\ \A m \in Msgs : m.id \in Nat /\ m.id <= server_seq_no
    BY MsgsTyped DEF Inv, ServerTyped, Addressed, Msg
  <1>6. \A x \in Nodes : x.key \in Nat /\ x.key <= server_seq_no
    <2>1. \A x \in Nodes : x \in Address
      BY ElementOfSeq, LenProperties DEF Inv, CacheOK, Nodes, Elems
    <2> QED
      BY <2>1 DEF Address, Inv, Addressed
  <1>7. (\A m \in Msgs : m.id # k) /\ (\A x \in Nodes : x.key # k) /\ server_seq_no <= k
    BY <1>1, <1>5, <1>6
  <1>8. \A m \in Msgs : m.req # h
    BY <1>4 DEF Inv, TakenOnce
  <1>9. \A x \in Nodes' : x.key <= k
    BY <1>1, <1>5, <1>6 DEF Known
  <1>10. \A m \in Msgs' : m.id <= k
    BY <1>1, <1>2, <1>3, <1>5
  <1>11. ASSUME NEW x \in Nodes', NEW m \in Msgs', x.key = m.id
         PROVE  x.value = ClientOf[m.req]
    <2>1. CASE Known(x)
      <3>1. PICK y \in Nodes : x.key = y.key /\ x.value = y.value
        BY <2>1 DEF Known
      <3>2. m \in Msgs
        BY <1>2, <1>3, <1>7, <1>11, <3>1
      <3> QED
        BY <1>11, <3>1, <3>2 DEF Inv, Addressed
    <2>2. CASE x.key = k /\ x.value = ClientOf[h]
      <3>1. m = n
        BY <1>2, <1>7, <1>11, <2>2
      <3> QED
        BY <1>3, <2>2, <3>1
    <2> QED
      BY <1>1, <2>1, <2>2
  <1>12. \A m, o \in Msgs' : m.id = o.id <=> m.req = o.req
    <2>1. \A m, o \in Msgs : m.id = o.id <=> m.req = o.req
      BY DEF Inv, Addressed, TakenOnce
    <2> QED
      BY <1>2, <1>3, <1>7, <1>8, <2>1
  <1>13. Addressed'
    BY <1>1, <1>9, <1>10, <1>11, <1>12 DEF Addressed
  <1>14. TakenOnce'
    <2>1. \A m \in Msgs' : m.req \notin Waiting'
      BY <1>1, <1>2, <1>3 DEF Inv, TakenOnce
    <2>2. reply' # None => reply'.req \notin Waiting'
      BY <1>1, <1>2 DEF Inv, TakenOnce
    <2> QED
      BY <1>12, <2>1, <2>2 DEF TakenOnce
  <1>15. \A r : Got(r)' <=> Got(r)
    BY <1>2 DEF Got
  <1>16. ~Got(h) /\ (reply # None => reply.req # h)
    BY <1>4 DEF Inv, Once, TakenOnce
  <1>17. Once'
    <2>1. \A r \in Requests : Got(r)' => r \notin Waiting'
      BY <1>1, <1>15 DEF Inv, Once
    <2>2. (reply # None => ~Got(reply.req))'
      BY <1>2 DEF Inv, Once, Got
    <2>3. \A m \in Msgs' : m.id \in m_map' => ~Got(m.req)' /\ (reply' # None => reply'.req # m.req)
      BY <1>1, <1>2, <1>3, <1>7, <1>15, <1>16 DEF Inv, Once
    <2>4. \A r \in Requests : answers'[r] > 0 => answers'[r] = 1 /\ r \notin Elems(inbox'[ClientOf[r]])
      BY <1>2 DEF Inv, Once
    <2>5. \A c \in Clients : Distinct(inbox'[c])
      BY <1>2 DEF Inv, Once
    <2> QED
      BY <2>1, <2>2, <2>3, <2>4, <2>5 DEF Once
  <1>18. RightClient'
    BY <1>2 DEF Inv, RightClient
  <1> QED
    BY <1>1, <1>13, <1>14, <1>17, <1>18 DEF Inv

\* Run finds the session of an answer and takes it out.
LEMMA RunTakesEffect ==
    ASSUME Inv, RunTakes
    PROVE  \E p \in Msgs :
              /\ p \in Msg /\ p.id \in m_map /\ m_map' = m_map \ {p.id}
              /\ reply = None /\ reply' # None /\ reply'.req = p.req /\ reply'.to = ClientOf[p.req]
              /\ Msgs' \subseteq Msgs /\ server_seq_no' = server_seq_no
              /\ \A x \in Nodes' : Known(x)
              /\ UNCHANGED <<idle, m_send_queue, broker, inbox, answers>>
              /\ ServerTyped' /\ CacheOK'
  <1> DEFINE p == Popped   to == SessionOf(p.id)   n == [to |-> to, req |-> p.req]
  <1>1. /\ server_send_queue # <<>> /\ server_send_queue' = Tail(server_send_queue)
        /\ UNCHANGED <<driverVars, server_seq_no, listener, server_recv_queue, app>>
        /\ UNCHANGED clientVars /\ PopSession(p.id) /\ reply = None /\ reply' = n
    BY DEF RunTakes
  <1>2. /\ p \in Msgs /\ p \in Msg /\ Msgs' \subseteq Msgs /\ server_seq_no' = server_seq_no
        /\ reply' \in ReplyType \cup {None} => ServerTyped'
    BY <1>1, PopAnswer
  <1>3. /\ CacheOK' /\ p.id \in m_map /\ m_map' = m_map \ {p.id} /\ (\A x \in Nodes' : Known(x))
        /\ \E x \in Nodes : x.key = p.id /\ x.value = to
    BY <1>1, PopCache DEF Inv
  <1> HIDE DEF p, to
  <1>4. to = ClientOf[p.req]
    BY <1>2, <1>3 DEF Inv, Addressed
  <1>5. p.req \in Requests /\ to \in Clients
    BY <1>2, <1>4, MQAssumption DEF Msg
  <1>6. n \in ReplyType /\ n # None /\ n.req = p.req /\ n.to = to
    BY <1>5, MQAssumption DEF ReplyType
  <1> HIDE DEF n
  <1> QED
    BY <1>1, <1>2, <1>3, <1>4, <1>6 DEF clientVars

\* Run takes the session of a reply out of the cache: no other reply finds it.
LEMMA RunTakesKeeps ==
    ASSUME Inv, RunTakes
    PROVE  Inv'
  <1>1. PICK p \in Msgs :
              /\ p \in Msg /\ p.id \in m_map /\ m_map' = m_map \ {p.id}
              /\ reply = None /\ reply' # None /\ reply'.req = p.req /\ reply'.to = ClientOf[p.req]
              /\ Msgs' \subseteq Msgs /\ server_seq_no' = server_seq_no
              /\ \A x \in Nodes' : Known(x)
              /\ UNCHANGED <<idle, m_send_queue, broker, inbox, answers>>
              /\ ServerTyped' /\ CacheOK'
    BY RunTakesEffect
  <1>2. Waiting' = Waiting /\ (\A r : Got(r)' <=> Got(r)) /\ ClientTyped' /\ Waits'
    BY <1>1, ClientSame DEF Inv
  <1>3. inbox' = inbox /\ answers' = answers
    BY <1>1
  <1>4. Addressed'
    BY <1>1 DEF Inv, Addressed, Known
  <1>5. TakenOnce'
    BY <1>1, <1>2 DEF Inv, TakenOnce
  <1>6. ~Got(p.req)
    BY <1>1 DEF Inv, Once
  <1>7. Once'
    <2>1. \A r \in Requests : Got(r)' => r \notin Waiting'
      BY <1>2 DEF Inv, Once
    <2>2. (reply # None => ~Got(reply.req))'
      BY <1>1, <1>3, <1>6 DEF Got
    <2>3. \A m \in Msgs' : m.id \in m_map' => ~Got(m.req)' /\ (reply' # None => reply'.req # m.req)
      BY <1>1, <1>2 DEF Inv, Once, TakenOnce
    <2>4. \A r \in Requests : answers'[r] > 0 => answers'[r] = 1 /\ r \notin Elems(inbox'[ClientOf[r]])
      BY <1>3 DEF Inv, Once
    <2>5. \A c \in Clients : Distinct(inbox'[c])
      BY <1>3 DEF Inv, Once
    <2> QED
      BY <2>1, <2>2, <2>3, <2>4, <2>5 DEF Once
  <1>8. RightClient'
    BY <1>1, <1>3 DEF Inv, RightClient
  <1> QED
    BY <1>1, <1>2, <1>4, <1>5, <1>7, <1>8 DEF Inv

\* The driver sends the reply, or has no producer and drops it.
LEMMA RunSendToEffect ==
    ASSUME Inv, RunSendTo
    PROVE  /\ reply # None /\ reply' = None /\ reply.req \in Requests
           /\ UNCHANGED <<idle, m_send_queue, broker, answers>>
           /\ Msgs' = Msgs /\ m_map' \subseteq m_map /\ server_seq_no' = server_seq_no
           /\ \A x \in Nodes' : Known(x)
           /\ ClientTyped' /\ ServerTyped' /\ CacheOK'
           /\ \/ inbox' = inbox
              \/ /\ \A r \in Requests : Got(r)' <=> (Got(r) \/ r = reply.req)
                 /\ \A c \in Clients : Distinct(inbox'[c])
                 /\ \A c \in Clients : \A r \in Elems(inbox'[c]) :
                       r \in Elems(inbox[c]) \/ (r = reply.req /\ c = ClientOf[reply.req])
  <1> DEFINE q == reply.req   c == reply.to   s == Append(inbox[c], q)
  <1>1. /\ reply # None /\ reply' = None /\ CleanUp
        /\ UNCHANGED <<idle, m_send_queue, broker, answers>>
        /\ driver' = driver /\ server_seq_no' = server_seq_no /\ listener' = listener
        /\ server_recv_queue' = server_recv_queue /\ app' = app
        /\ server_send_queue' = server_send_queue
        /\ inbox' = inbox \/ inbox' = [inbox EXCEPT ![c] = s]
    BY DEF RunSendTo, driverVars
  <1>2. q \in Requests /\ c \in Clients /\ c = ClientOf[q] /\ inbox \in [Clients -> Seq(Requests)]
    BY <1>1 DEF Inv, ServerTyped, ClientTyped, ReplyType, RightClient
  <1>3. Msgs' = Msgs /\ ServerTyped'
    BY <1>1 DEF Msgs, Inv, ServerTyped
  <1>4. CacheOK' /\ m_map' \subseteq m_map /\ \A x \in Nodes' : Known(x)
    BY <1>1, CleanUpCache
  <1>5. ~Got(q) /\ q \notin Elems(inbox[c]) /\ Distinct(inbox[c])
    BY <1>1, <1>2 DEF Inv, Once, Got
  <1>6. s \in Seq(Requests) /\ Elems(s) = Elems(inbox[c]) \cup {q} /\ Distinct(s)
    BY <1>2, <1>5, PushQueue
  <1> HIDE DEF s, q, c
  <1>7. CASE inbox' = inbox
    <2>1. ClientTyped'
      BY <1>1, <1>7 DEF Inv, ClientTyped
    <2> QED
      BY <1>1, <1>2, <1>3, <1>4, <1>7, <2>1 DEF q
  <1>8. CASE inbox' = [inbox EXCEPT ![c] = s]
    <2>1. /\ inbox' \in [Clients -> Seq(Requests)] /\ inbox'[c] = s
          /\ \A d \in Clients : d # c => inbox'[d] = inbox[d]
      BY <1>2, <1>6, <1>8
    <2>2. ClientTyped'
      BY <1>1, <2>1 DEF Inv, ClientTyped
    <2>3. ASSUME NEW r \in Requests
          PROVE  Got(r)' <=> (Got(r) \/ r = q)
      <3>1. ClientOf[r] \in Clients /\ answers' = answers
        BY <1>1, MQAssumption
      <3>2. r \in Elems(inbox'[ClientOf[r]]) <=> (r \in Elems(inbox[ClientOf[r]]) \/ r = q)
        BY <1>2, <1>6, <2>1, <3>1
      <3> QED
        BY <3>1, <3>2 DEF Got
    <2>4. \A d \in Clients : Distinct(inbox'[d])
      BY <1>6, <2>1 DEF Inv, Once
    <2>5. \A d \in Clients : \A r \in Elems(inbox'[d]) :
              r \in Elems(inbox[d]) \/ (r = q /\ d = ClientOf[q])
      BY <1>2, <1>6, <2>1
    <2> QED
      BY <1>1, <1>2, <1>3, <1>4, <2>2, <2>3, <2>4, <2>5 DEF q
  <1> QED
    BY <1>1, <1>7, <1>8

\* The reply arrives at the client whose session it was, or is lost.
LEMMA RunSendToKeeps ==
    ASSUME Inv, RunSendTo
    PROVE  Inv'
  <1>1. /\ reply # None /\ reply' = None /\ reply.req \in Requests
        /\ idle' = idle /\ m_send_queue' = m_send_queue /\ broker' = broker /\ answers' = answers
        /\ Msgs' = Msgs /\ m_map' \subseteq m_map /\ server_seq_no' = server_seq_no
        /\ \A x \in Nodes' : Known(x)
        /\ ClientTyped' /\ ServerTyped' /\ CacheOK'
    BY RunSendToEffect
  <1>2. CASE inbox' = inbox
    <2>1. Shrinks
      BY <1>1, <1>2 DEF Shrinks
    <2> QED
      BY <1>1, <2>1, ShrinksKeeps
  <1>3. CASE /\ \A r \in Requests : Got(r)' <=> (Got(r) \/ r = reply.req)
             /\ \A c \in Clients : Distinct(inbox'[c])
             /\ \A c \in Clients : \A r \in Elems(inbox'[c]) :
                   r \in Elems(inbox[c]) \/ (r = reply.req /\ c = ClientOf[reply.req])
    <2>1. Queued' = Queued
      BY <1>1 DEF Queued
    <2>2. Waiting' = Waiting /\ Waits'
      BY <1>1, <2>1 DEF Inv, Waiting, Waits
    <2>3. Addressed' /\ TakenOnce'
      BY <1>1, <2>2 DEF Inv, Addressed, TakenOnce, Known
    <2>4. \A m \in Msgs : m.req \in Requests
      BY MsgsTyped DEF Inv, Msg
    <2>5. answers[reply.req] = 0
      BY <1>1 DEF Inv, Once, Got, ClientTyped
    <2>6. Once'
      <3>1. \A r \in Requests : Got(r)' => r \notin Waiting'
        BY <1>1, <1>3, <2>2 DEF Inv, Once, TakenOnce
      <3>2. \A m \in Msgs' : m.id \in m_map' => ~Got(m.req)' /\ (reply' # None => reply'.req # m.req)
        BY <1>1, <1>3, <2>4 DEF Inv, Once
      <3>3. ASSUME NEW r \in Requests, answers'[r] > 0
            PROVE  answers'[r] = 1 /\ r \notin Elems(inbox'[ClientOf[r]])
        <4>1. r # reply.req /\ ClientOf[r] \in Clients
          BY <1>1, <2>5, <3>3, MQAssumption
        <4> QED
          BY <1>1, <1>3, <3>3, <4>1 DEF Inv, Once
      <3> QED
        BY <1>1, <1>3, <3>1, <3>2, <3>3 DEF Once
    <2>7. RightClient'
      <3>1. \A c \in Clients : \A r \in Elems(inbox[c]) : ClientOf[r] = c
        BY DEF Inv, RightClient, Elems
      <3>2. \A c \in Clients : \A r \in Elems(inbox'[c]) : ClientOf[r] = c
        BY <1>3, <3>1
      <3> QED
        BY <1>1, <3>2 DEF RightClient, Elems
    <2> QED
      BY <1>1, <2>2, <2>3, <2>6, <2>7 DEF Inv
  <1> QED
    BY <1>2, <1>3, RunSendToEffect

-----------------------------------------------------------------------------
(* The invariant holds, and with it the run's properties.                  *)

QuietStep ==
    \/ UNCHANGED vars
    \/ \E c \in Clients : \E connected \in BOOLEAN : ClientInit(c, connected)
    \/ \E level \in Level : StartService(level)
    \/ StopService \/ StopDriver \/ Kill \/ Restart
    \/ PushRecvQueue \/ RecvFromQueue
    \/ \E a \in app : SendToQueue(a)
    \/ RunDrops \/ RunSendToNull \/ RunTimedOut \/ Second

\* The thirteen actions after which the server holds no more than before.
LEMMA Quiet ==
    ASSUME Inv, QuietStep
    PROVE  Shrinks /\ ServerTyped' /\ CacheOK'
  <1>1. CASE \/ UNCHANGED vars
             \/ \E c \in Clients : \E connected \in BOOLEAN : ClientInit(c, connected)
             \/ \E level \in Level : StartService(level)
             \/ StopService \/ StopDriver \/ Restart
    BY <1>1, LifeShrinks
  <1>2. CASE Kill \/ RunSendToNull
    BY <1>2, CrashShrinks
  <1>3. CASE PushRecvQueue
    BY <1>3, PushRecvQueueShrinks
  <1>4. CASE RecvFromQueue
    BY <1>4, RecvFromQueueShrinks
  <1>5. CASE \E a \in app : SendToQueue(a)
    BY <1>5, SendToQueueShrinks
  <1>6. CASE RunDrops
    BY <1>6, RunDropsShrinks
  <1>7. CASE RunTimedOut \/ Second
    BY <1>7, TimeShrinks
  <1> QED
    BY <1>1, <1>2, <1>3, <1>4, <1>5, <1>6, <1>7 DEF QuietStep

\* The other six, by name.
LEMMA Steps ==
    ASSUME [Next]_vars
    PROVE  \/ QuietStep
           \/ \E r \in Requests : ClientSendToQueue(r)
           \/ \E c \in Clients : ClientRun(c)
           \/ \E c \in Clients : ClientOnMessage(c)
           \/ OnAsyncMessage \/ RunTakes \/ RunSendTo
  BY Zenon DEF Next, Run, QuietStep

\* Every step keeps the invariant.
LEMMA StepCorrect ==
    ASSUME Inv, [Next]_vars
    PROVE  Inv'
  <1>1. CASE QuietStep
    BY <1>1, Quiet, ShrinksKeeps
  <1>2. CASE \E r \in Requests : ClientSendToQueue(r)
    BY <1>2, ClientSendToQueueKeeps
  <1>3. CASE \E c \in Clients : ClientRun(c)
    BY <1>3, ClientRunKeeps
  <1>4. CASE \E c \in Clients : ClientOnMessage(c)
    BY <1>4, ClientOnMessageKeeps
  <1>5. CASE OnAsyncMessage
    BY <1>5, OnAsyncMessageKeeps
  <1>6. CASE RunTakes
    BY <1>6, RunTakesKeeps
  <1>7. CASE RunSendTo
    BY <1>7, RunSendToKeeps
  <1> QED
    BY <1>1, <1>2, <1>3, <1>4, <1>5, <1>6, <1>7, Steps

\* Inv is an inductive invariant of the transport: ids, sessions and replies of
\* async_mq_server.cpp stay tied to one request of one client.
THEOREM Invariance == Spec => []Inv
  <1>1. Init => Inv
    BY InitCorrect
  <1>2. Inv /\ [Next]_vars => Inv'
    BY StepCorrect
  <1> QED
    BY <1>1, <1>2, PTL DEF Spec

\* AsyncMQServer::Run (async_mq_server.cpp:130-137) sends a reply to the client
\* whose request it answers, for any clients, requests, timeout and cache size,
\* whatever expired, was purged or restarted in between.
THEOREM RightClientCorrect == Spec => []RightClient
  <1>1. Inv => RightClient
    BY DEF Inv
  <1> QED
    BY <1>1, Invariance, PTL

\* async_mq_server.cpp:132: a reply meets a driver without a session only if
\* StopService closes it under the reply, or if a start had failed and Run took
\* the reply while the service counted as started.
THEOREM ReplyPathCorrect == Spec => ReplyPathGuarded
  <1> DEFINE A == ~Stranded /\ Stranded' => \/ StopDriver /\ reply # None
                                            \/ m_driver_staus /\ m_driver_staus' /\ RunTakes
  <1>1. ASSUME Inv, [Next]_vars, ~Stranded, Stranded'
        PROVE  A
    <2>1. driver \in 0 .. 4 /\ reply' # None /\ driver' < 2 /\ (reply = None \/ ~(driver < 2))
      BY <1>1 DEF Stranded, Session, Inv, ServerTyped, Level
    <2>2. CASE StopDriver
      <3>1. reply' = reply
        BY <2>2 DEF StopDriver, queueVars
      <3> QED
        BY <2>1, <2>2, <3>1
    <2>3. CASE RunTakes
      BY <2>3 DEF RunTakes, driverVars
    <2>4. CASE \E level \in Level : StartService(level)
      <3>1. reply' = reply /\ (driver' = driver \/ driver = 0)
        BY <2>4 DEF StartService, queueVars
      <3> QED
        BY <2>1, <3>1
    <2>5. CASE Kill \/ RunSendToNull \/ RunSendTo
      <3>1. reply' = None
        BY <2>5 DEF Kill, RunSendToNull, RunSendTo, Fresh
      <3> QED
        BY <2>1, <3>1
    <2>6. CASE UNCHANGED <<reply, driver>>
      BY <2>1, <2>6
    <2>7. \/ StopDriver \/ RunTakes \/ (\E level \in Level : StartService(level))
          \/ Kill \/ RunSendToNull \/ RunSendTo \/ UNCHANGED <<reply, driver>>
      BY <1>1 DEF Next, Run, vars, serverVars, driverVars, queueVars, clientVars, ClientInit, ClientRun,
             ClientOnMessage, ClientSendToQueue, StopService, Restart, OnAsyncMessage, PushRecvQueue,
             RecvFromQueue, SendToQueue, RunDrops, RunTimedOut, Second
    <2> QED
      BY <2>2, <2>3, <2>4, <2>5, <2>6, <2>7
  <1>2. Inv /\ [Next]_vars => [A]_vars
    BY <1>1
  <1> QED
    BY <1>2, Invariance, PTL DEF Spec, ReplyPathGuarded

-----------------------------------------------------------------------------
(* The transport implements RequestReply.                                  *)

Open(r) ==
    \/ reply # None /\ reply.req = r
    \/ \E m \in Msgs : m.req = r /\ m.id \in m_map

\* StatusOf, with the places of a request as sets.
Status(r) ==
    IF r \in idle THEN "idle"
    ELSE IF r \in Waiting THEN "sent"
    ELSE IF Got(r) THEN "answered"
    ELSE IF Open(r) THEN "open" ELSE "lost"

\* The count of deliveries is 0 or 1.
LEMMA DeliveredOnce ==
    ASSUME Inv, NEW r \in Requests
    PROVE  Delivered(r) = IF Got(r) THEN 1 ELSE 0
  <1> DEFINE s == inbox[ClientOf[r]]   D == {i \in DOMAIN s : s[i] = r}
  <1>1. /\ answers[r] \in Nat /\ ClientOf[r] \in Clients
        /\ answers[r] > 0 => answers[r] = 1 /\ r \notin Elems(s)
        /\ Distinct(s)
    BY MQAssumption DEF Inv, ClientTyped, Once
  <1>2. Delivered(r) = answers[r] + Cardinality(D)
    BY DEF Delivered
  <1>3. Got(r) <=> answers[r] > 0 \/ r \in Elems(s)
    BY DEF Got
  <1> HIDE DEF s
  <1>4. CASE r \notin Elems(s)
    <2>1. D = {}
      BY <1>4 DEF Elems
    <2>2. Cardinality(D) = 0
      BY <2>1, FS_EmptySet
    <2> QED
      BY <1>1, <1>2, <1>3, <1>4, <2>2
  <1>5. CASE r \in Elems(s)
    <2>1. PICK i \in DOMAIN s : s[i] = r
      BY <1>5 DEF Elems
    <2>2. D = {i}
      BY <1>1, <2>1 DEF Distinct
    <2>3. Cardinality(D) = 1
      BY <2>2, FS_Singleton
    <2>4. answers[r] = 0
      BY <1>1, <1>5
    <2> QED
      BY <1>2, <1>3, <1>5, <2>3, <2>4
  <1> QED
    BY <1>4, <1>5

\* The ids under which a request is known to the server.
LEMMA IdsOfMsgs ==
    ASSUME Inv, NEW r \in Requests
    PROVE  IdsOf(r) = {m.id : m \in {n \in Msgs : n.req = r}}
  <1> DEFINE A == {m.id : m \in {x \in {a.msg : a \in app} \cup {listener} : x # None /\ x.req = r}}
             Of(s) == {s[i].id : i \in {j \in DOMAIN s : s[j].req = r}}
             R == {m.id : m \in {n \in Msgs : n.req = r}}
  <1>1. IdsOf(r) = (A \cup Of(server_recv_queue)) \cup Of(server_send_queue)
    BY DEF IdsOf
  <1>2. \A a \in app : a.msg # None
    <2>1. \A m \in Msg : m # None
      BY MQAssumption DEF Msg
    <2> QED
      BY <2>1 DEF Inv, ServerTyped
  <1>3. ASSUME NEW k \in A
        PROVE  k \in R
    <2>1. PICK x \in {a.msg : a \in app} \cup {listener} : x # None /\ x.req = r /\ k = x.id
      OBVIOUS
    <2>2. x \in Msgs
      BY <2>1 DEF Msgs
    <2> QED
      BY <2>1, <2>2
  <1>4. \A k \in Of(server_recv_queue) : k \in R
    <2> SUFFICES ASSUME NEW i \in DOMAIN server_recv_queue, server_recv_queue[i].req = r
                 PROVE  server_recv_queue[i].id \in R
      OBVIOUS
    <2>1. server_recv_queue[i] \in Msgs
      BY DEF Msgs, Elems
    <2> QED
      BY <2>1
  <1>5. \A k \in Of(server_send_queue) : k \in R
    <2> SUFFICES ASSUME NEW i \in DOMAIN server_send_queue, server_send_queue[i].req = r
                 PROVE  server_send_queue[i].id \in R
      OBVIOUS
    <2>1. server_send_queue[i] \in Msgs
      BY DEF Msgs, Elems
    <2> QED
      BY <2>1
  <1>6. ASSUME NEW m \in Msgs, m.req = r
        PROVE  m.id \in A \cup Of(server_recv_queue) \cup Of(server_send_queue)
    <2>1. CASE m \in {a.msg : a \in app}
      BY <1>2, <1>6, <2>1
    <2>2. CASE listener # None /\ m = listener
      BY <1>6, <2>2
    <2>3. CASE m \in Elems(server_recv_queue)
      <3>1. m.id \in Of(server_recv_queue)
        BY <1>6, <2>3 DEF Elems
      <3> QED
        BY <3>1
    <2>4. CASE m \in Elems(server_send_queue)
      <3>1. m.id \in Of(server_send_queue)
        BY <1>6, <2>4 DEF Elems
      <3> QED
        BY <3>1
    <2> QED
      BY <2>1, <2>2, <2>3, <2>4 DEF Msgs
  <1> HIDE DEF A, Of
  <1> QED
    BY <1>1, <1>3, <1>4, <1>5, <1>6

\* The refinement mapping in terms of the invariant.
LEMMA StatusOfIsStatus ==
    ASSUME Inv, NEW r \in Requests
    PROVE  StatusOf(r) = Status(r)
  <1> DEFINE I == r \in idle
             S == In(m_send_queue[ClientOf[r]], r) \/ In(broker, r)
             O == (reply # None /\ reply.req = r) \/ IdsOf(r) \cap m_map # {}
  <1>1. Delivered(r) = IF Got(r) THEN 1 ELSE 0
    BY DeliveredOnce
  <1>2. O <=> Open(r)
    BY IdsOfMsgs DEF Open
  <1>3. r \in Waiting <=> I \/ S
    <2>1. In(broker, r) <=> r \in Elems(broker)
      BY DEF In, Elems
    <2>2. In(m_send_queue[ClientOf[r]], r) <=> r \in Elems(m_send_queue[ClientOf[r]])
      BY DEF In, Elems
    <2>3. r \in Elems(m_send_queue[ClientOf[r]]) <=> r \in Queued
      <3>1. ClientOf[r] \in Clients
        BY MQAssumption
      <3>2. ASSUME r \in Queued PROVE r \in Elems(m_send_queue[ClientOf[r]])
        BY <3>2 DEF Queued, Inv, Waits
      <3>3. ASSUME r \in Elems(m_send_queue[ClientOf[r]]) PROVE r \in Queued
        BY <3>1, <3>3 DEF Queued
      <3> QED
        BY <3>2, <3>3
    <2> QED
      BY <2>1, <2>2, <2>3 DEF Waiting
  <1>4. ~(I /\ S)
    <2>1. I => r \notin Elems(broker) /\ r \notin Queued
      BY DEF Inv, Waits
    <2>2. I => r \notin Elems(m_send_queue[ClientOf[r]])
      BY <2>1, MQAssumption DEF Queued
    <2> QED
      BY <2>1, <2>2 DEF In, Elems
  <1>5. r \in Waiting => ~Got(r) /\ ~Open(r)
    BY DEF Inv, Once, TakenOnce, Open
  <1>6. Got(r) => ~Open(r)
    BY DEF Inv, Once, Open
  <1>7. /\ Got(r) <=> Delivered(r) = 1
        /\ ~(Delivered(r) > 1)
    BY <1>1
  <1>8. StatusOf(r) = CASE I -> "idle" [] S -> "sent" [] Delivered(r) = 1 -> "answered"
                        [] Delivered(r) > 1 -> "answered twice" [] O -> "open" [] OTHER -> "lost"
    BY DEF StatusOf
  <1> HIDE DEF I, S, O
  <1>9. Status(r) = IF I THEN "idle" ELSE IF S THEN "sent" ELSE IF Got(r) THEN "answered"
                    ELSE IF O THEN "open" ELSE "lost"
    BY <1>2, <1>3 DEF Status, I
  <1> QED
    BY <1>2, <1>3, <1>4, <1>5, <1>6, <1>7, <1>8, <1>9

Mapped == \A r \in Requests : StatusOf(r) = Status(r)

\* In a step without an arrival a request keeps its status or is lost.
Kept(r) ==
    \/ Status(r)' = Status(r)
    \/ Status(r) \in {"sent", "open"} /\ Status(r)' = "lost"

\* A request that no step touches stays as it is, or is lost.
LEMMA KeptStatus ==
    ASSUME Inv, NEW r \in Requests,
           r \in idle' <=> r \in idle, r \in Waiting' => r \in Waiting,
           Got(r)' <=> Got(r), Open(r)' => Open(r)
    PROVE  Kept(r)
  <1>1. r \in Waiting => ~Got(r) /\ ~Open(r)
    BY DEF Inv, Once, TakenOnce, Open
  <1>2. (r \in idle => r \in Waiting) /\ (r \in idle' => r \in Waiting')
    BY DEF Waiting
  <1> QED
    BY <1>1, <1>2 DEF Status, Kept

\* A step that moves no request on is a loss or a stutter.
LEMMA AllKept ==
    ASSUME \A r \in Requests : Kept(r), Mapped, Mapped'
    PROVE  [RR!Next]_([r \in Requests |-> StatusOf(r)])
  <1>1. CASE \A r \in Requests : Status(r)' = Status(r)
    <2>1. \A r \in Requests : StatusOf(r)' = StatusOf(r)
      BY <1>1 DEF Mapped
    <2> QED
      BY <2>1
  <1>2. CASE \E r \in Requests : Status(r)' # Status(r)
    <2>1. PICK r \in Requests : Status(r)' # Status(r)
      BY <1>2
    <2> DEFINE lost == {s \in Requests : s # r /\ Status(s)' # Status(s)}
    <2>2. Status(r) \in {"sent", "open"} /\ Status(r)' = "lost"
      BY <2>1 DEF Kept
    <2>3. \A s \in lost : s # r /\ StatusOf(s) \in {"sent", "open"}
      BY DEF Kept, Mapped
    <2>4. \A s \in Requests :
             StatusOf(s)' = IF s = r THEN "lost" ELSE IF s \in lost THEN "lost" ELSE StatusOf(s)
      BY <2>2 DEF Kept, Mapped
    <2>5. lost \in SUBSET Requests /\ StatusOf(r) \in {"sent", "open"}
      BY <2>2 DEF Mapped
    <2> HIDE DEF lost
    <2>6. RR!Step(r, StatusOf(r), "lost", lost)
      BY <2>3, <2>4, <2>5 DEF RR!Step
    <2>7. RR!Lose(r, lost)
      BY <2>5, <2>6 DEF RR!Lose
    <2> QED
      BY <2>5, <2>7 DEF RR!Next
  <1> QED
    BY <1>1, <1>2

\* A step that moves one request on, and may lose others.
LEMMA OneMoves ==
    ASSUME Mapped, Mapped',
           NEW h \in Requests, \A r \in Requests \ {h} : Kept(r),
           \/ Status(h) = "sent" /\ Status(h)' = "open"
           \/ Status(h) = "open" /\ Status(h)' = "answered"
    PROVE  RR!Next
  <1> DEFINE lost == {s \in Requests : s # h /\ Status(s)' # Status(s)}
  <1>1. \A s \in lost : s # h /\ StatusOf(s) \in {"sent", "open"}
    BY DEF Kept, Mapped
  <1>2. \A s \in Requests :
           StatusOf(s)' = IF s = h THEN StatusOf(h)' ELSE IF s \in lost THEN "lost" ELSE StatusOf(s)
    BY DEF Kept, Mapped
  <1>3. lost \in SUBSET Requests
    OBVIOUS
  <1> HIDE DEF lost
  <1>4. CASE Status(h) = "sent" /\ Status(h)' = "open"
    <2>1. RR!Take(h, lost)
      BY <1>1, <1>2, <1>3, <1>4 DEF RR!Take, RR!Step, Mapped
    <2> QED
      BY <1>3, <2>1 DEF RR!Next
  <1>5. CASE Status(h) = "open" /\ Status(h)' = "answered"
    <2>1. RR!Answer(h, lost)
      BY <1>1, <1>2, <1>3, <1>5 DEF RR!Answer, RR!Step, Mapped
    <2> QED
      BY <1>3, <2>1 DEF RR!Next
  <1> QED
    BY <1>4, <1>5

\* What Shrinks leaves open was open.
LEMMA ShrinksLoses ==
    ASSUME Inv, Shrinks
    PROVE  \A r \in Requests : Kept(r)
  <1> SUFFICES ASSUME NEW r \in Requests PROVE Kept(r)
    OBVIOUS
  <1>1. Waiting' = Waiting /\ (Got(r)' <=> Got(r)) /\ idle' = idle
    BY ClientSame DEF Shrinks
  <1>2. Open(r)' => Open(r)
    BY DEF Shrinks, Open
  <1> QED
    BY <1>1, <1>2, KeptStatus

\* The steps of the clients: a request is sent, or lost before it reaches the broker.
LEMMA ClientStepsRefine ==
    ASSUME Inv, Mapped, Mapped',
           \/ \E r \in Requests : ClientSendToQueue(r)
           \/ \E c \in Clients : ClientRun(c)
           \/ \E c \in Clients : ClientOnMessage(c)
    PROVE  [RR!Next]_([r \in Requests |-> StatusOf(r)])
  <1>1. CASE \E r \in Requests : ClientSendToQueue(r)
    <2>1. PICK h \in Requests : ClientSendToQueue(h)
      BY <1>1
    <2>2. /\ h \in idle /\ idle' = idle \ {h} /\ Waiting' = Waiting /\ h \in Waiting
          /\ inbox' = inbox /\ answers' = answers /\ UNCHANGED cacheVars /\ UNCHANGED queueVars
      BY <2>1, ClientSendToQueueEffect
    <2>3. Msgs' = Msgs /\ reply' = reply /\ m_map' = m_map
      BY <2>2, QueuesSame DEF cacheVars
    <2>4. \A r \in Requests : (Got(r)' <=> Got(r)) /\ (Open(r)' <=> Open(r))
      BY <2>2, <2>3 DEF Got, Open
    <2>5. Status(h) = "idle" /\ Status(h)' = "sent"
      BY <2>2 DEF Status
    <2>6. \A r \in Requests : r # h => Status(r)' = Status(r)
      BY <2>2, <2>4 DEF Status
    <2>7. \A s \in Requests :
             StatusOf(s)' = IF s = h THEN "sent" ELSE IF s \in {} THEN "lost" ELSE StatusOf(s)
      BY <2>5, <2>6 DEF Mapped
    <2>8. RR!Send(h)
      BY <2>5, <2>7 DEF RR!Send, RR!Step, Mapped
    <2> QED
      BY <2>8 DEF RR!Next
  <1>2. CASE \/ \E c \in Clients : ClientRun(c)
             \/ \E c \in Clients : ClientOnMessage(c)
    <2>1. /\ idle' = idle /\ Waiting' \subseteq Waiting /\ (\A r \in Requests : Got(r)' <=> Got(r))
          /\ UNCHANGED cacheVars /\ UNCHANGED queueVars
      <3>1. CASE \E c \in Clients : ClientRun(c)
        <4>1. /\ idle' = idle /\ Waiting' \subseteq Waiting /\ inbox' = inbox /\ answers' = answers
              /\ UNCHANGED cacheVars /\ UNCHANGED queueVars
          BY <3>1, ClientRunEffect
        <4> QED
          BY <4>1 DEF Got
      <3>2. CASE \E c \in Clients : ClientOnMessage(c)
        <4>1. /\ idle' = idle /\ m_send_queue' = m_send_queue /\ broker' = broker
              /\ (\A r \in Requests : Got(r)' <=> Got(r))
              /\ UNCHANGED cacheVars /\ UNCHANGED queueVars
          BY <3>2, ClientOnMessageEffect
        <4>2. Waiting' = Waiting
          BY <4>1 DEF Waiting, Queued
        <4> QED
          BY <4>1, <4>2
      <3> QED
        BY <1>2, <3>1, <3>2
    <2>2. Msgs' = Msgs /\ reply' = reply /\ m_map' = m_map
      BY <2>1, QueuesSame DEF cacheVars
    <2>3. \A r \in Requests : Open(r)' <=> Open(r)
      BY <2>2 DEF Open
    <2>4. \A r \in Requests : Kept(r)
      BY <2>1, <2>3, KeptStatus
    <2> QED
      BY <2>4, AllKept
  <1> QED
    BY <1>1, <1>2

\* The steps of the server: it takes a request, and answers it.
LEMMA ServerStepsRefine ==
    ASSUME Inv, Mapped, Mapped',
           OnAsyncMessage \/ RunTakes \/ RunSendTo
    PROVE  [RR!Next]_([r \in Requests |-> StatusOf(r)])
  <1>1. CASE OnAsyncMessage
    <2>1. PICK h \in Requests, k \in Nat :
              /\ h \in Elems(broker) /\ k = server_seq_no + 1
              /\ Msgs' = Msgs \cup {[id |-> k, req |-> h]}
              /\ idle' = idle /\ Waiting' = Waiting \ {h}
              /\ m_map' \subseteq m_map \cup {k} /\ k \in m_map'
              /\ UNCHANGED <<inbox, answers, reply>>
      BY <1>1, OnAsyncMessageEffect
    <2> DEFINE n == [id |-> k, req |-> h]
    <2>2. /\ n.id = k /\ n.req = h /\ Msgs' = Msgs \cup {n}
          /\ inbox' = inbox /\ answers' = answers /\ reply' = reply
      BY <2>1
    <2> HIDE DEF n
    <2>3. \A m \in Msgs : m.id # k
      BY <2>1, MsgsTyped DEF Inv, ServerTyped, Addressed, Msg
    <2>4. \A r \in Requests : Got(r)' <=> Got(r)
      BY <2>2 DEF Got
    <2>5. h \in Waiting /\ h \notin idle /\ ~Got(h)
      BY <2>1 DEF Waiting, Inv, Waits, Once
    <2>6. Open(h)'
      BY <2>1, <2>2 DEF Open
    <2>7. Status(h) = "sent" /\ Status(h)' = "open"
      BY <2>1, <2>4, <2>5, <2>6 DEF Status
    <2>8. ASSUME NEW r \in Requests \ {h}
          PROVE  Kept(r)
      <3>1. Open(r)' => Open(r)
        BY <2>1, <2>2, <2>3 DEF Open
      <3> QED
        BY <2>1, <2>4, <3>1, KeptStatus
    <2> QED
      BY <2>7, <2>8, OneMoves
  <1>2. CASE RunTakes
    <2>1. PICK p \in Msgs :
              /\ p.id \in m_map /\ m_map' = m_map \ {p.id}
              /\ reply = None /\ reply' # None /\ reply'.req = p.req
              /\ Msgs' \subseteq Msgs
              /\ UNCHANGED <<idle, m_send_queue, broker, inbox, answers>>
      BY <1>2, RunTakesEffect
    <2>2. Waiting' = Waiting /\ (\A r : Got(r)' <=> Got(r)) /\ idle' = idle
      BY <2>1, ClientSame
    <2>3. ASSUME NEW r \in Requests
          PROVE  Kept(r)
      <3>1. Open(r)' => Open(r)
        BY <2>1 DEF Open
      <3> QED
        BY <2>2, <3>1, KeptStatus
    <2> QED
      BY <2>3, AllKept
  <1>3. CASE RunSendTo
    <2>1. /\ reply # None /\ reply' = None /\ reply.req \in Requests
          /\ idle' = idle /\ m_send_queue' = m_send_queue /\ broker' = broker /\ answers' = answers
          /\ Msgs' = Msgs /\ m_map' \subseteq m_map /\ server_seq_no' = server_seq_no
          /\ \A x \in Nodes' : Known(x)
          /\ \/ inbox' = inbox
             \/ \A r \in Requests : Got(r)' <=> (Got(r) \/ r = reply.req)
      BY <1>3, RunSendToEffect
    <2>2. CASE inbox' = inbox
      <3>1. Shrinks
        BY <2>1, <2>2 DEF Shrinks
      <3> QED
        BY <3>1, ShrinksLoses, AllKept
    <2>3. CASE \A r \in Requests : Got(r)' <=> (Got(r) \/ r = reply.req)
      <3>0. PICK h \in Requests : h = reply.req
        BY <2>1
      <3>1. Waiting' = Waiting
        BY <2>1 DEF Waiting, Queued
      <3>2. h \in Requests /\ h \notin Waiting /\ ~Got(h) /\ Open(h)
        BY <2>1, <3>0 DEF Inv, TakenOnce, Once, Open
      <3>3. h \notin idle
        BY <3>2 DEF Waiting
      <3>4. \A r \in Requests : Got(r)' <=> (Got(r) \/ r = h)
        BY <2>3, <3>0
      <3>5. Status(h) = "open" /\ Status(h)' = "answered"
        BY <2>1, <3>1, <3>2, <3>3, <3>4 DEF Status
      <3>6. ASSUME NEW r \in Requests \ {h}
            PROVE  Kept(r)
        <4>1. Open(r)' => Open(r)
          BY <2>1 DEF Open
        <4> QED
          BY <2>1, <3>1, <3>4, <4>1, KeptStatus
      <3> QED
        BY <3>2, <3>5, <3>6, OneMoves
    <2> QED
      BY <2>1, <2>2, <2>3
  <1> QED
    BY <1>1, <1>2, <1>3

\* The transport implements RequestReply (atmq_driver.cpp:457 acknowledges before
\* the callback, async_mq_server.cpp:130 removes the session before it sends): a
\* request is taken and answered at most once, and one that is lost stays lost,
\* for any number of repeated answers, stops, crashes and expired sessions.
THEOREM AtMostOnceCorrect == Spec => AtMostOnce
  <1>1. Init => RR!Init
    <2> SUFFICES ASSUME Init PROVE \A r \in Requests : StatusOf(r) = "idle"
      BY DEF RR!Init
    <2>1. Inv /\ idle = Requests
      BY InitCorrect DEF Init
    <2> QED
      BY <2>1, StatusOfIsStatus DEF Status
  <1>2. Inv => Mapped
    BY StatusOfIsStatus DEF Mapped
  <1>3. Inv' => Mapped'
    BY <1>2, PTL
  <1>4. Inv /\ Inv' /\ [Next]_vars => [RR!Next]_([r \in Requests |-> StatusOf(r)])
    <2> SUFFICES ASSUME Inv, Inv', [Next]_vars
                 PROVE  [RR!Next]_([r \in Requests |-> StatusOf(r)])
      OBVIOUS
    <2>1. Mapped /\ Mapped'
      BY <1>2, <1>3
    <2>2. CASE QuietStep
      BY <2>1, <2>2, Quiet, ShrinksLoses, AllKept
    <2>3. CASE \/ \E r \in Requests : ClientSendToQueue(r)
               \/ \E c \in Clients : ClientRun(c)
               \/ \E c \in Clients : ClientOnMessage(c)
      BY <2>1, <2>3, ClientStepsRefine
    <2>4. CASE OnAsyncMessage \/ RunTakes \/ RunSendTo
      BY <2>1, <2>4, ServerStepsRefine
    <2> QED
      BY <2>2, <2>3, <2>4, Steps
  <1> QED
    BY <1>1, <1>4, Invariance, PTL DEF Spec, AtMostOnce, RR!Spec
=============================================================================

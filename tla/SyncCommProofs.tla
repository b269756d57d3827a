--------------------------- MODULE SyncCommProofs ----------------------------
(***************************************************************************)
(* For every set of keys, sessions, callers and receivers: the session     *)
(* cache's list and map agree and the list is ordered by age, so that the  *)
(* clean-up finds everything that has expired; a caller's promise is set   *)
(* at most once and with its own answer.                                   *)
(***************************************************************************)
EXTENDS SyncComm, TLAPS, FiniteSetTheorems, SequenceTheorems

DistinctKeys(s)   == \A i, j \in DOMAIN s : s[i].key = s[j].key => i = j
DistinctValues(s) == \A i, j \in DOMAIN s : s[i].value = s[j].value => i = j
ByAge(s)          == \A i, j \in DOMAIN s : i < j => s[i].age >= s[j].age
ValuesOf(s)       == {s[i].value : i \in DOMAIN s}

\* The list without its node p, and the list a second later.
Without(p) == SubSeq(m_list, 1, p - 1) \o SubSeq(m_list, p + 1, Len(m_list))
Aged       == [i \in DOMAIN m_list |-> Older(m_list[i])]

\* A set of numbers that is not empty has a least element.
LEMMA LeastNatural ==
    ASSUME NEW T \in SUBSET Nat, T # {}
    PROVE  \E m \in T : \A k \in T : m <= k
  <1> DEFINE R == OpToRel(<, Nat)
  <1>1. IsWellFoundedOn(R, Nat)
    BY NatLessThanWellFounded
  <1>2. \A x, y \in Nat : x < y => <<x, y>> \in R
    BY DEF OpToRel
  <1> HIDE DEF R
  <1>3. PICK m \in T : \A k \in T : ~(<<k, m>> \in R)
    BY <1>1, WFMin
  <1>4. ASSUME NEW k \in T
        PROVE  m <= k
    <2>1. k \in Nat /\ m \in Nat /\ ~(k < m)
      BY <1>2, <1>3
    <2> QED
      BY <2>1
  <1> QED
    BY <1>4

\* A node of the list.
LEMMA NodeFields ==
    ASSUME m_list \in Seq(Node)
    PROVE  /\ Len(m_list) \in Nat /\ DOMAIN m_list = 1 .. Len(m_list)
           /\ \A i \in 1 .. Len(m_list) :
                 /\ m_list[i] \in Node /\ m_list[i].key \in Keys
                 /\ m_list[i].value \in Sessions
                 /\ m_list[i].age \in Int /\ m_list[i].age >= 0 /\ m_list[i].age <= MaxAge
  <1>1. /\ Len(m_list) \in Nat /\ DOMAIN m_list = 1 .. Len(m_list)
        /\ \A i \in 1 .. Len(m_list) : m_list[i] \in Node
    BY LenProperties, ElementOfSeq
  <1>2. \A x \in Node : /\ x.key \in Keys /\ x.value \in Sessions
                        /\ x.age \in Int /\ x.age >= 0 /\ x.age <= MaxAge
    BY CacheAssumption DEF Node
  <1> QED
    BY <1>1, <1>2

-----------------------------------------------------------------------------
\* session_cache.h: the clean-up loop stops at the first node that is young
\* enough, or at the end of the list.
LEMMA ExpiredCountStops ==
    ASSUME m_list \in Seq(Node), NEW to \in Int
    PROVE  /\ ExpiredCount(to) \in 0 .. Len(m_list)
           /\ \A i \in 1 .. ExpiredCount(to) : m_list[i].age >= to
           /\ ExpiredCount(to) < Len(m_list) => m_list[ExpiredCount(to) + 1].age < to
  <1> DEFINE N == Len(m_list)
             young == {i \in 1 .. N : m_list[i].age < to}
             Stop(n) == /\ \A i \in 1 .. n : m_list[i].age >= to
                        /\ n < N => m_list[n + 1].age < to
  <1>1. N \in Nat /\ \A i \in 1 .. N : m_list[i].age \in Int
    BY NodeFields
  <1> HIDE DEF N
  <1>2. \E n \in 0 .. N : Stop(n)
    <2>1. CASE young = {}
      <3>1. N \in 0 .. N /\ Stop(N)
        BY <1>1, <2>1
      <3> QED
        BY <3>1
    <2>2. CASE young # {}
      <3>1. young \in SUBSET Nat
        BY <1>1
      <3>2. PICK m \in young : \A k \in young : m <= k
        BY <2>2, <3>1, LeastNatural
      <3>3. m \in 1 .. N /\ m_list[m].age < to
        BY <3>2
      <3>4. ASSUME NEW i \in 1 .. (m - 1)
            PROVE  m_list[i].age >= to
        <4>1. i \in 1 .. N /\ ~(m <= i)
          BY <1>1, <3>3
        <4>2. i \notin young
          BY <3>2, <4>1
        <4> QED
          BY <1>1, <4>1, <4>2
      <3>5. m - 1 \in 0 .. N /\ (m - 1) + 1 = m
        BY <1>1, <3>3
      <3>6. Stop(m - 1)
        BY <3>3, <3>4, <3>5
      <3> QED
        BY <3>5, <3>6
    <2> QED
      BY <2>1, <2>2
  <1>3. ExpiredCount(to) = CHOOSE n \in 0 .. N : Stop(n)
    BY DEF ExpiredCount, N
  <1> HIDE DEF Stop
  <1>4. ExpiredCount(to) \in 0 .. N /\ Stop(ExpiredCount(to))
    BY <1>2, <1>3
  <1> QED
    BY <1>4 DEF Stop, N

\* The purge inside PushSession erases a front part of the list, or nothing.
LEMMA AutoClearRange ==
    ASSUME m_list \in Seq(Node), m_timeout \in Int
    PROVE  AutoClearCount \in 0 .. Len(m_list)
  BY ExpiredCountStops, NodeFields DEF AutoClearCount

\* A list from which the nodes at the places in D have been removed: order and
\* uniqueness stay, and exactly the removed keys and values are gone.
LEMMA Thinning ==
    ASSUME m_list \in Seq(Node), NEW L \in Seq(Node), NEW D,
           NEW f \in [1 .. Len(L) -> 1 .. Len(m_list)],
           \A i \in 1 .. Len(L) : L[i] = m_list[f[i]],
           \A i, j \in 1 .. Len(L) : i < j => f[i] < f[j],
           {f[i] : i \in 1 .. Len(L)} = (1 .. Len(m_list)) \ D,
           D \subseteq 1 .. Len(m_list)
    PROVE  /\ DistinctKeys(m_list) => /\ DistinctKeys(L)
                                      /\ KeysOf(L) = KeysOf(m_list) \ {m_list[j].key : j \in D}
           /\ DistinctValues(m_list) =>
                 /\ DistinctValues(L)
                 /\ ValuesOf(L) = ValuesOf(m_list) \ {m_list[j].value : j \in D}
           /\ ByAge(m_list) => ByAge(L)
           /\ ValuesOf(L) \subseteq ValuesOf(m_list)
  <1> DEFINE N == Len(m_list)   M == Len(L)
  <1>1. N \in Nat /\ DOMAIN m_list = 1 .. N /\ M \in Nat /\ DOMAIN L = 1 .. M
    BY LenProperties
  <1>2. \A i \in 1 .. M : L[i] = m_list[f[i]] /\ f[i] \in 1 .. N /\ f[i] \notin D
    OBVIOUS
  <1>3. \A j \in 1 .. N : j \notin D => \E i \in 1 .. M : j = f[i]
    OBVIOUS
  <1>4. D \subseteq 1 .. N /\ \A i, j \in 1 .. M : i < j => f[i] < f[j]
    OBVIOUS
  <1> HIDE DEF N, M
  <1>5. \A i, j \in 1 .. M : f[i] = f[j] => i = j
    <2> SUFFICES ASSUME NEW i \in 1 .. M, NEW j \in 1 .. M, f[i] = f[j], i # j PROVE FALSE
      OBVIOUS
    <2>1. i < j \/ j < i
      BY <1>1
    <2>2. f[i] < f[j] \/ f[j] < f[i]
      BY <1>4, <2>1
    <2>3. f[i] \in 1 .. N /\ f[j] \in 1 .. N
      BY <1>2
    <2> QED
      BY <1>1, <2>2, <2>3
  <1>6. ASSUME DistinctKeys(m_list)
        PROVE  DistinctKeys(L) /\ KeysOf(L) = KeysOf(m_list) \ {m_list[j].key : j \in D}
    <2>1. DistinctKeys(L)
      <3> SUFFICES ASSUME NEW i \in 1 .. M, NEW j \in 1 .. M, L[i].key = L[j].key
                   PROVE  i = j
        BY <1>1 DEF DistinctKeys
      <3>1. /\ m_list[f[i]].key = m_list[f[j]].key
            /\ f[i] \in DOMAIN m_list /\ f[j] \in DOMAIN m_list
        BY <1>1, <1>2
      <3>2. f[i] = f[j]
        BY <1>6, <3>1 DEF DistinctKeys
      <3> QED
        BY <1>5, <3>2
    <2>2. ASSUME NEW i \in 1 .. M, NEW j \in D, L[i].key = m_list[j].key
          PROVE  FALSE
      <3>1. /\ m_list[f[i]].key = m_list[j].key /\ f[i] \notin D
            /\ f[i] \in DOMAIN m_list /\ j \in DOMAIN m_list
        BY <1>1, <1>2, <1>4, <2>2
      <3>2. f[i] = j
        BY <1>6, <3>1 DEF DistinctKeys
      <3> QED
        BY <3>1, <3>2
    <2>3. ASSUME NEW i \in 1 .. M
          PROVE  L[i].key \in KeysOf(m_list) \ {m_list[j].key : j \in D}
      BY <1>1, <1>2, <2>2 DEF KeysOf
    <2>4. ASSUME NEW j \in 1 .. N, j \notin D
          PROVE  m_list[j].key \in KeysOf(L)
      <3>1. PICK i \in 1 .. M : j = f[i]
        BY <1>3, <2>4
      <3>2. m_list[j].key = L[i].key
        BY <1>2, <3>1
      <3> QED
        BY <1>1, <3>2 DEF KeysOf
    <2>5. ASSUME NEW x \in KeysOf(L)
          PROVE  x \in KeysOf(m_list) \ {m_list[j].key : j \in D}
      <3>1. PICK i \in 1 .. M : x = L[i].key
        BY <1>1 DEF KeysOf
      <3> QED
        BY <2>3, <3>1
    <2>6. ASSUME NEW x \in KeysOf(m_list) \ {m_list[j].key : j \in D}
          PROVE  x \in KeysOf(L)
      <3>1. PICK j \in 1 .. N : x = m_list[j].key
        BY <1>1 DEF KeysOf
      <3>2. j \notin D
        BY <3>1
      <3> QED
        BY <2>4, <3>1, <3>2
    <2> QED
      BY <2>1, <2>5, <2>6
  <1>7. ASSUME DistinctValues(m_list)
        PROVE  DistinctValues(L) /\ ValuesOf(L) = ValuesOf(m_list) \ {m_list[j].value : j \in D}
    <2>1. DistinctValues(L)
      <3> SUFFICES ASSUME NEW i \in 1 .. M, NEW j \in 1 .. M, L[i].value = L[j].value
                   PROVE  i = j
        BY <1>1 DEF DistinctValues
      <3>1. /\ m_list[f[i]].value = m_list[f[j]].value
            /\ f[i] \in DOMAIN m_list /\ f[j] \in DOMAIN m_list
        BY <1>1, <1>2
      <3>2. f[i] = f[j]
        BY <1>7, <3>1 DEF DistinctValues
      <3> QED
        BY <1>5, <3>2
    <2>2. ASSUME NEW i \in 1 .. M, NEW j \in D, L[i].value = m_list[j].value
          PROVE  FALSE
      <3>1. /\ m_list[f[i]].value = m_list[j].value /\ f[i] \notin D
            /\ f[i] \in DOMAIN m_list /\ j \in DOMAIN m_list
        BY <1>1, <1>2, <1>4, <2>2
      <3>2. f[i] = j
        BY <1>7, <3>1 DEF DistinctValues
      <3> QED
        BY <3>1, <3>2
    <2>3. ASSUME NEW i \in 1 .. M
          PROVE  L[i].value \in ValuesOf(m_list) \ {m_list[j].value : j \in D}
      BY <1>1, <1>2, <2>2 DEF ValuesOf
    <2>4. ASSUME NEW j \in 1 .. N, j \notin D
          PROVE  m_list[j].value \in ValuesOf(L)
      <3>1. PICK i \in 1 .. M : j = f[i]
        BY <1>3, <2>4
      <3>2. m_list[j].value = L[i].value
        BY <1>2, <3>1
      <3> QED
        BY <1>1, <3>2 DEF ValuesOf
    <2>5. ASSUME NEW x \in ValuesOf(L)
          PROVE  x \in ValuesOf(m_list) \ {m_list[j].value : j \in D}
      <3>1. PICK i \in 1 .. M : x = L[i].value
        BY <1>1 DEF ValuesOf
      <3> QED
        BY <2>3, <3>1
    <2>6. ASSUME NEW x \in ValuesOf(m_list) \ {m_list[j].value : j \in D}
          PROVE  x \in ValuesOf(L)
      <3>1. PICK j \in 1 .. N : x = m_list[j].value
        BY <1>1 DEF ValuesOf
      <3>2. j \notin D
        BY <3>1
      <3> QED
        BY <2>4, <3>1, <3>2
    <2> QED
      BY <2>1, <2>5, <2>6
  <1>8. ByAge(m_list) => ByAge(L)
    <2> SUFFICES ASSUME ByAge(m_list), NEW i \in 1 .. M, NEW j \in 1 .. M, i < j
                 PROVE  L[i].age >= L[j].age
      BY <1>1 DEF ByAge
    <2>1. f[i] \in DOMAIN m_list /\ f[j] \in DOMAIN m_list /\ f[i] < f[j]
      BY <1>1, <1>2, <1>4
    <2>2. m_list[f[i]].age >= m_list[f[j]].age
      BY <2>1 DEF ByAge
    <2> QED
      BY <1>2, <2>2
  <1>9. ValuesOf(L) \subseteq ValuesOf(m_list)
    BY <1>1, <1>2 DEF ValuesOf
  <1> QED
    BY <1>6, <1>7, <1>8, <1>9

\* The clean-up loops erase the first n nodes.
LEMMA EraseFront ==
    ASSUME m_list \in Seq(Node), NEW n \in 0 .. Len(m_list)
    PROVE  /\ ListAfter(n) \in Seq(Node) /\ Len(ListAfter(n)) = Len(m_list) - n
           /\ \A i \in 1 .. Len(m_list) - n : ListAfter(n)[i] = m_list[i + n]
           /\ KeysOf(SubSeq(m_list, 1, n)) = {m_list[j].key : j \in 1 .. n}
           /\ DistinctKeys(m_list) =>
                 /\ DistinctKeys(ListAfter(n))
                 /\ KeysOf(ListAfter(n)) = KeysOf(m_list) \ {m_list[j].key : j \in 1 .. n}
           /\ DistinctValues(m_list) =>
                 /\ DistinctValues(ListAfter(n))
                 /\ ValuesOf(ListAfter(n)) = ValuesOf(m_list) \ {m_list[j].value : j \in 1 .. n}
           /\ ByAge(m_list) => ByAge(ListAfter(n))
           /\ ValuesOf(ListAfter(n)) \subseteq ValuesOf(m_list)
  <1> DEFINE N == Len(m_list)   L == ListAfter(n)   P == SubSeq(m_list, 1, n)
             f == [i \in 1 .. (N - n) |-> i + n]
  <1>1. N \in Nat /\ n \in Nat /\ n <= N /\ \A i \in 1 .. N : m_list[i] \in Node
    BY NodeFields
  <1>2. L \in Seq(Node) /\ Len(L) = N - n /\ \A i \in 1 .. (N - n) : L[i] = m_list[i + n]
    <2>1. L = SubSeq(m_list, n + 1, N)
      BY DEF ListAfter
    <2> HIDE DEF N, L
    <2>2. n + 1 \in Int /\ N \in Int /\ \A i \in (n + 1) .. N : m_list[i] \in Node
      BY <1>1
    <2>3. /\ L \in Seq(Node)
          /\ Len(L) = IF n + 1 <= N THEN N - (n + 1) + 1 ELSE 0
          /\ \A i \in 1 .. (N - (n + 1) + 1) : L[i] = m_list[(n + 1) + i - 1]
      BY <2>1, <2>2, SubSeqProperties
    <2>4. N - (n + 1) + 1 = N - n /\ \A i \in 1 .. (N - n) : (n + 1) + i - 1 = i + n
      BY <1>1
    <2>5. Len(L) = N - n
      BY <1>1, <2>3
    <2> QED
      BY <2>3, <2>4, <2>5
  <1>3. KeysOf(P) = {m_list[j].key : j \in 1 .. n}
    <2> HIDE DEF N, L, P
    <2>1. \A i \in 1 .. n : m_list[i] \in Node
      BY <1>1
    <2>2. /\ P \in Seq(Node) /\ Len(P) = IF 1 <= n THEN n - 1 + 1 ELSE 0
          /\ \A i \in 1 .. (n - 1 + 1) : P[i] = m_list[1 + i - 1]
      BY <1>1, <2>1, SubSeqProperties DEF P
    <2>3. Len(P) = n /\ n - 1 + 1 = n /\ \A i \in 1 .. n : 1 + i - 1 = i
      BY <1>1, <2>2
    <2>4. DOMAIN P = 1 .. n /\ \A i \in 1 .. n : P[i] = m_list[i]
      BY <2>2, <2>3, LenProperties
    <2> QED
      BY <2>4 DEF KeysOf
  <1> HIDE DEF L, P
  <1>4. f \in [1 .. Len(L) -> 1 .. Len(m_list)]
    BY <1>1, <1>2
  <1>5. \A i \in 1 .. Len(L) : L[i] = m_list[f[i]]
    BY <1>2
  <1>6. \A i, j \in 1 .. Len(L) : i < j => f[i] < f[j]
    BY <1>1, <1>2
  <1>7. {f[i] : i \in 1 .. Len(L)} = (1 .. Len(m_list)) \ (1 .. n)
    <2>1. \A i \in 1 .. (N - n) : f[i] \in (1 .. N) \ (1 .. n)
      BY <1>1
    <2>2. ASSUME NEW j \in (1 .. N) \ (1 .. n)
          PROVE  j - n \in 1 .. (N - n) /\ f[j - n] = j
      BY <1>1
    <2> HIDE DEF f
    <2>3. {f[i] : i \in 1 .. (N - n)} = (1 .. N) \ (1 .. n)
      BY <2>1, <2>2
    <2> QED
      BY <1>2, <2>3
  <1>8. 1 .. n \subseteq 1 .. Len(m_list)
    BY <1>1
  <1> HIDE DEF f, N
  <1>9. /\ DistinctKeys(m_list) =>
              DistinctKeys(L) /\ KeysOf(L) = KeysOf(m_list) \ {m_list[j].key : j \in 1 .. n}
        /\ DistinctValues(m_list) =>
              /\ DistinctValues(L)
              /\ ValuesOf(L) = ValuesOf(m_list) \ {m_list[j].value : j \in 1 .. n}
        /\ ByAge(m_list) => ByAge(L)
        /\ ValuesOf(L) \subseteq ValuesOf(m_list)
    BY <1>2, <1>4, <1>5, <1>6, <1>7, <1>8, Thinning
  <1> QED
    BY <1>2, <1>3, <1>9 DEF L, P, N

\* PopSession and DelSession erase one node.
LEMMA EraseOne ==
    ASSUME m_list \in Seq(Node), NEW p \in 1 .. Len(m_list)
    PROVE  /\ Without(p) \in Seq(Node)
           /\ DistinctKeys(m_list) =>
                 /\ DistinctKeys(Without(p))
                 /\ KeysOf(Without(p)) = KeysOf(m_list) \ {m_list[p].key}
           /\ DistinctValues(m_list) =>
                 /\ DistinctValues(Without(p))
                 /\ ValuesOf(Without(p)) = ValuesOf(m_list) \ {m_list[p].value}
           /\ ByAge(m_list) => ByAge(Without(p))
           /\ \A i \in DOMAIN Without(p) : \E j \in DOMAIN m_list : Without(p)[i] = m_list[j]
  <1> DEFINE N == Len(m_list)
             L == Without(p)
             A == SubSeq(m_list, 1, p - 1)
             B == SubSeq(m_list, p + 1, Len(m_list))
             f == [i \in 1 .. (N - 1) |-> IF i < p THEN i ELSE i + 1]
  <1>1. N \in Nat /\ p \in 1 .. N /\ \A i \in 1 .. N : m_list[i] \in Node
    BY NodeFields
  <1> HIDE DEF N
  <1>2. A \in Seq(Node) /\ Len(A) = p - 1 /\ \A i \in 1 .. (p - 1) : A[i] = m_list[i]
    <2> HIDE DEF A
    <2>1. 1 \in Int /\ p - 1 \in Int /\ \A i \in 1 .. (p - 1) : m_list[i] \in Node
      BY <1>1
    <2>2. /\ A \in Seq(Node) /\ Len(A) = IF 1 <= p - 1 THEN (p - 1) - 1 + 1 ELSE 0
          /\ \A i \in 1 .. ((p - 1) - 1 + 1) : A[i] = m_list[1 + i - 1]
      BY <2>1, SubSeqProperties DEF A
    <2>3. Len(A) = p - 1 /\ (p - 1) - 1 + 1 = p - 1 /\ \A i \in 1 .. (p - 1) : 1 + i - 1 = i
      BY <1>1, <2>2
    <2> QED
      BY <2>2, <2>3
  <1>3. B \in Seq(Node) /\ Len(B) = N - p /\ \A i \in 1 .. (N - p) : B[i] = m_list[i + p]
    <2> HIDE DEF B
    <2>1. p + 1 \in Int /\ N \in Int /\ \A i \in (p + 1) .. N : m_list[i] \in Node
      BY <1>1
    <2>2. /\ B \in Seq(Node) /\ Len(B) = IF p + 1 <= N THEN N - (p + 1) + 1 ELSE 0
          /\ \A i \in 1 .. (N - (p + 1) + 1) : B[i] = m_list[(p + 1) + i - 1]
      BY <2>1, SubSeqProperties DEF B, N
    <2>3. /\ Len(B) = N - p /\ N - (p + 1) + 1 = N - p
          /\ \A i \in 1 .. (N - p) : (p + 1) + i - 1 = i + p
      BY <1>1, <2>2
    <2> QED
      BY <2>2, <2>3
  <1>4. L = A \o B
    BY DEF Without
  <1> HIDE DEF A, B, L
  <1>5. /\ L \in Seq(Node) /\ Len(L) = Len(A) + Len(B)
        /\ \A i \in 1 .. (Len(A) + Len(B)) :
              L[i] = IF i <= Len(A) THEN A[i] ELSE B[i - Len(A)]
    BY <1>2, <1>3, <1>4, ConcatProperties
  <1>6. Len(L) = N - 1
    BY <1>1, <1>2, <1>3, <1>5
  <1>7. \A i \in 1 .. (N - 1) : L[i] = m_list[f[i]]
    <2> SUFFICES ASSUME NEW i \in 1 .. (N - 1)
                 PROVE  L[i] = IF i < p THEN m_list[i] ELSE m_list[i + 1]
      OBVIOUS
    <2>1. L[i] = IF i <= p - 1 THEN A[i] ELSE B[i - (p - 1)]
      BY <1>1, <1>2, <1>3, <1>5
    <2>2. CASE i < p
      BY <1>1, <1>2, <2>1, <2>2
    <2>3. CASE ~(i < p)
      <3>1. i - (p - 1) \in 1 .. (N - p) /\ (i - (p - 1)) + p = i + 1
        BY <1>1, <2>3
      <3>2. L[i] = B[i - (p - 1)]
        BY <1>1, <2>1, <2>3
      <3> QED
        BY <1>3, <2>3, <3>1, <3>2
    <2> QED
      BY <2>2, <2>3
  <1>8. f \in [1 .. (N - 1) -> 1 .. N] /\ \A i, j \in 1 .. (N - 1) : i < j => f[i] < f[j]
    BY <1>1
  <1>9. {f[i] : i \in 1 .. (N - 1)} = (1 .. N) \ {p}
    <2>1. \A i \in 1 .. (N - 1) : f[i] \in (1 .. N) \ {p}
      BY <1>1
    <2>2. ASSUME NEW j \in (1 .. N) \ {p}
          PROVE  \E i \in 1 .. (N - 1) : f[i] = j
      <3>1. CASE j < p
        <4>1. j \in 1 .. (N - 1) /\ f[j] = j
          BY <1>1, <3>1
        <4> QED
          BY <4>1
      <3>2. CASE j > p
        <4>1. j - 1 \in 1 .. (N - 1) /\ f[j - 1] = j
          BY <1>1, <3>2
        <4> QED
          BY <4>1
      <3> QED
        BY <1>1, <3>1, <3>2
    <2> QED
      BY <2>1, <2>2
  <1> HIDE DEF f
  <1>10. {m_list[j].key : j \in {p}} = {m_list[p].key}
         /\ {m_list[j].value : j \in {p}} = {m_list[p].value}
    OBVIOUS
  <1>11. /\ f \in [1 .. Len(L) -> 1 .. Len(m_list)]
         /\ \A i \in 1 .. Len(L) : L[i] = m_list[f[i]]
         /\ \A i, j \in 1 .. Len(L) : i < j => f[i] < f[j]
         /\ {f[i] : i \in 1 .. Len(L)} = (1 .. Len(m_list)) \ {p}
         /\ {p} \subseteq 1 .. Len(m_list)
    BY <1>1, <1>6, <1>7, <1>8, <1>9 DEF N
  <1>12. /\ DistinctKeys(m_list) =>
               DistinctKeys(L) /\ KeysOf(L) = KeysOf(m_list) \ {m_list[j].key : j \in {p}}
         /\ DistinctValues(m_list) =>
               /\ DistinctValues(L)
               /\ ValuesOf(L) = ValuesOf(m_list) \ {m_list[j].value : j \in {p}}
         /\ ByAge(m_list) => ByAge(L)
    BY <1>5, <1>11, Thinning
  <1>13. \A i \in DOMAIN L : \E j \in DOMAIN m_list : L[i] = m_list[j]
    <2>1. DOMAIN L = 1 .. Len(L) /\ DOMAIN m_list = 1 .. Len(m_list)
      BY <1>5, LenProperties
    <2> QED
      BY <1>11, <2>1
  <1> QED
    BY <1>5, <1>10, <1>12, <1>13 DEF L

\* PushSession appends a node younger than all others.
LEMMA AppendNode ==
    ASSUME NEW L \in Seq(Node), NEW x \in Node, x.age = 0
    PROVE  /\ Append(L, x) \in Seq(Node)
           /\ KeysOf(Append(L, x)) = KeysOf(L) \cup {x.key}
           /\ ValuesOf(Append(L, x)) = ValuesOf(L) \cup {x.value}
           /\ DistinctKeys(L) /\ x.key \notin KeysOf(L) => DistinctKeys(Append(L, x))
           /\ DistinctValues(L) /\ x.value \notin ValuesOf(L) => DistinctValues(Append(L, x))
           /\ ByAge(L) => ByAge(Append(L, x))
           /\ \A i \in DOMAIN Append(L, x) :
                 Append(L, x)[i] = x \/ \E j \in DOMAIN L : Append(L, x)[i] = L[j]
  <1> DEFINE A == Append(L, x)   n == Len(L)
  <1>1. n \in Nat /\ DOMAIN L = 1 .. n /\ \A i \in 1 .. n : L[i] \in Node
    BY LenProperties, ElementOfSeq
  <1>2. /\ A \in Seq(Node) /\ Len(A) = n + 1 /\ A[n + 1] = x
        /\ \A i \in 1 .. n : A[i] = L[i]
    BY AppendProperties
  <1>3. DOMAIN A = 1 .. (n + 1)
    BY <1>2, LenProperties
  <1> HIDE DEF A, n
  <1>4. /\ \A i \in 1 .. (n + 1) : i \in 1 .. n \/ i = n + 1
        /\ \A i \in 1 .. n : i \in 1 .. (n + 1)
        /\ n + 1 \in 1 .. (n + 1)
    BY <1>1
  <1>5. KeysOf(A) = KeysOf(L) \cup {x.key} /\ ValuesOf(A) = ValuesOf(L) \cup {x.value}
    BY <1>1, <1>2, <1>3, <1>4 DEF KeysOf, ValuesOf
  <1>6. DistinctKeys(L) /\ x.key \notin KeysOf(L) => DistinctKeys(A)
    BY <1>1, <1>2, <1>3, <1>4 DEF DistinctKeys, KeysOf
  <1>7. DistinctValues(L) /\ x.value \notin ValuesOf(L) => DistinctValues(A)
    BY <1>1, <1>2, <1>3, <1>4 DEF DistinctValues, ValuesOf
  <1>8. ByAge(L) => ByAge(A)
    <2> SUFFICES ASSUME ByAge(L), NEW i \in 1 .. (n + 1), NEW j \in 1 .. (n + 1), i < j
                 PROVE  A[i].age >= A[j].age
      BY <1>3 DEF ByAge
    <2>1. i \in 1 .. n
      BY <1>1
    <2>2. A[i] = L[i] /\ L[i].age >= 0
      BY <1>1, <1>2, <2>1, CacheAssumption DEF Node
    <2>3. CASE j \in 1 .. n
      BY <1>1, <1>2, <2>1, <2>3 DEF ByAge
    <2>4. CASE j = n + 1
      BY <1>2, <2>2, <2>4
    <2> QED
      BY <1>4, <2>3, <2>4
  <1>9. \A i \in DOMAIN A : A[i] = x \/ \E j \in DOMAIN L : A[i] = L[j]
    BY <1>1, <1>2, <1>3, <1>4
  <1> QED
    BY <1>2, <1>5, <1>6, <1>7, <1>8, <1>9 DEF A

\* A second passes: every node is older, and the order stays.
LEMMA TickAges ==
    ASSUME m_list \in Seq(Node)
    PROVE  /\ Aged \in Seq(Node) /\ DOMAIN Aged = DOMAIN m_list
           /\ KeysOf(Aged) = KeysOf(m_list) /\ ValuesOf(Aged) = ValuesOf(m_list)
           /\ DistinctKeys(m_list) => DistinctKeys(Aged)
           /\ DistinctValues(m_list) => DistinctValues(Aged)
           /\ ByAge(m_list) => ByAge(Aged)
           /\ \A i \in DOMAIN Aged : /\ Aged[i].key = m_list[i].key
                                     /\ Aged[i].value = m_list[i].value
  <1> DEFINE n == Len(m_list)
             L == Aged
  <1>1. /\ n \in Nat /\ DOMAIN m_list = 1 .. n
        /\ \A i \in 1 .. n : /\ m_list[i] \in Node /\ m_list[i].age \in Int
                             /\ m_list[i].age >= 0 /\ m_list[i].age <= MaxAge
    BY NodeFields
  <1> HIDE DEF n
  <1>2. ASSUME NEW y \in Node
        PROVE  /\ Older(y) \in Node /\ Older(y).key = y.key /\ Older(y).value = y.value
               /\ Older(y).age = IF y.age < MaxAge THEN y.age + 1 ELSE MaxAge
    <2>1. y.age \in 0 .. MaxAge /\ y.key \in Keys /\ y.value \in Sessions
      BY DEF Node
    <2>2. Older(y) = [key |-> y.key, value |-> y.value,
                      age |-> IF y.age < MaxAge THEN y.age + 1 ELSE MaxAge]
      BY DEF Older, Node
    <2>3. (IF y.age < MaxAge THEN y.age + 1 ELSE MaxAge) \in 0 .. MaxAge
      BY <2>1, CacheAssumption
    <2> QED
      BY <2>1, <2>2, <2>3 DEF Node
  <1>3. DOMAIN L = 1 .. n /\ \A i \in 1 .. n : L[i] = Older(m_list[i])
    BY <1>1 DEF Aged
  <1>4. L \in Seq(Node)
    BY <1>1, <1>2 DEF Aged
  <1> HIDE DEF L
  <1>5. \A i \in 1 .. n : /\ L[i].key = m_list[i].key /\ L[i].value = m_list[i].value
                          /\ L[i].age = IF m_list[i].age < MaxAge THEN m_list[i].age + 1
                                                                   ELSE MaxAge
    BY <1>1, <1>2, <1>3
  <1>6. KeysOf(L) = KeysOf(m_list) /\ ValuesOf(L) = ValuesOf(m_list)
    <2>1. \A i \in DOMAIN m_list : /\ i \in DOMAIN L /\ L[i].key = m_list[i].key
                                   /\ L[i].value = m_list[i].value
      BY <1>1, <1>3, <1>5
    <2>2. DOMAIN L = DOMAIN m_list
      BY <1>1, <1>3
    <2> QED
      BY <2>1, <2>2 DEF KeysOf, ValuesOf
  <1>7. /\ DistinctKeys(m_list) => DistinctKeys(L)
        /\ DistinctValues(m_list) => DistinctValues(L)
    BY <1>1, <1>3, <1>5 DEF DistinctKeys, DistinctValues
  <1>8. ByAge(m_list) => ByAge(L)
    <2> SUFFICES ASSUME NEW i \in 1 .. n, NEW j \in 1 .. n, m_list[i].age >= m_list[j].age
                 PROVE  L[i].age >= L[j].age
      BY <1>1, <1>3 DEF ByAge
    <2> QED
      BY <1>1, <1>5, CacheAssumption
  <1> QED
    BY <1>1, <1>3, <1>4, <1>5, <1>6, <1>7, <1>8 DEF L

-----------------------------------------------------------------------------
\* The cache's inductive invariant.
CacheInv ==
    /\ m_list \in Seq(Node) /\ m_map \in SUBSET Keys /\ m_timeout \in Int
    /\ MapMatchesList /\ OldestFirst

\* MapMatchesList and OldestFirst in the vocabulary of the lemmas.
LEMMA CacheInvParts ==
    /\ MapMatchesList <=> m_map = KeysOf(m_list) /\ DistinctKeys(m_list)
    /\ OldestFirst <=> ByAge(m_list)
    /\ MapMatchesList' <=> m_map' = KeysOf(m_list') /\ DistinctKeys(m_list')
    /\ OldestFirst' <=> ByAge(m_list')
  BY DEF MapMatchesList, OldestFirst, DistinctKeys, ByAge, KeysOf

\* List and map after the first n nodes are gone from both.
LEMMA CacheAfter ==
    ASSUME CacheInv, NEW n \in 0 .. Len(m_list)
    PROVE  /\ ListAfter(n) \in Seq(Node) /\ MapAfter(n) \in SUBSET Keys
           /\ MapAfter(n) = KeysOf(ListAfter(n))
           /\ DistinctKeys(ListAfter(n)) /\ ByAge(ListAfter(n))
  <1>1. m_map = KeysOf(m_list) /\ DistinctKeys(m_list) /\ ByAge(m_list)
    BY CacheInvParts DEF CacheInv
  <1>2. MapAfter(n) = KeysOf(m_list) \ {m_list[j].key : j \in 1 .. n}
    BY <1>1, EraseFront DEF CacheInv, MapAfter
  <1> QED
    BY <1>1, <1>2, EraseFront DEF CacheInv, MapAfter

\* session_cache.h:55-90: PushSession that inserts.
LEMMA PushKeepsCache ==
    ASSUME CacheInv, NEW k \in Keys, NEW v \in Sessions, PushSession(k, v)
    PROVE  CacheInv'
  <1> DEFINE n == AutoClearCount   x == [key |-> k, value |-> v, age |-> 0]
  <1>1. n \in 0 .. Len(m_list)
    BY AutoClearRange DEF CacheInv
  <1>2. /\ k \notin MapAfter(n) /\ m_list' = Append(ListAfter(n), x)
        /\ m_map' = MapAfter(n) \cup {k} /\ m_timeout' = m_timeout
    BY DEF PushSession, PushAccepts, Settings
  <1>3. x \in Node /\ x.age = 0 /\ x.key = k
    BY CacheAssumption DEF Node
  <1> HIDE DEF n, x
  <1>4. /\ ListAfter(n) \in Seq(Node) /\ MapAfter(n) \in SUBSET Keys
        /\ MapAfter(n) = KeysOf(ListAfter(n))
        /\ DistinctKeys(ListAfter(n)) /\ ByAge(ListAfter(n))
    BY <1>1, CacheAfter
  <1>5. /\ m_list' \in Seq(Node) /\ KeysOf(m_list') = KeysOf(ListAfter(n)) \cup {k}
        /\ DistinctKeys(m_list') /\ ByAge(m_list')
    BY <1>2, <1>3, <1>4, AppendNode
  <1>6. MapMatchesList' /\ OldestFirst'
    BY <1>2, <1>4, <1>5, CacheInvParts
  <1> QED
    BY <1>2, <1>4, <1>5, <1>6 DEF CacheInv

\* session_cache.h:55-90: PushSession that finds its key in use has purged all
\* the same.
LEMMA RejectKeepsCache ==
    ASSUME CacheInv, NEW k, PushRejected(k)
    PROVE  CacheInv'
  <1> DEFINE n == AutoClearCount
  <1>1. n \in 0 .. Len(m_list)
    BY AutoClearRange DEF CacheInv
  <1>2. m_list' = ListAfter(n) /\ m_map' = MapAfter(n) /\ m_timeout' = m_timeout
    BY DEF PushRejected, Settings
  <1> HIDE DEF n
  <1>3. /\ ListAfter(n) \in Seq(Node) /\ MapAfter(n) \in SUBSET Keys
        /\ MapAfter(n) = KeysOf(ListAfter(n))
        /\ DistinctKeys(ListAfter(n)) /\ ByAge(ListAfter(n))
    BY <1>1, CacheAfter
  <1>4. MapMatchesList' /\ OldestFirst'
    BY <1>2, <1>3, CacheInvParts
  <1> QED
    BY <1>2, <1>3, <1>4 DEF CacheInv

\* session_cache.h: the iterator the map stores under a key points at the node
\* with that key.
LEMMA IterFinds ==
    ASSUME CacheInv, NEW k \in m_map
    PROVE  Iter(k) \in 1 .. Len(m_list) /\ m_list[Iter(k)].key = k
  <1>1. \E i \in DOMAIN m_list : m_list[i].key = k
    BY DEF CacheInv, MapMatchesList, KeysOf
  <1>2. DOMAIN m_list = 1 .. Len(m_list)
    BY NodeFields DEF CacheInv
  <1> QED
    BY <1>1, <1>2 DEF Iter

\* session_cache.h:95-140 PopSession, DelSession.
LEMMA PopKeepsCache ==
    ASSUME CacheInv, NEW k, PopSession(k)
    PROVE  CacheInv'
  <1> DEFINE p == Iter(k)
  <1>1. /\ k \in m_map /\ m_list' = Without(p) /\ m_map' = m_map \ {k}
        /\ m_timeout' = m_timeout
    BY DEF PopSession, Settings, Without
  <1>2. p \in 1 .. Len(m_list) /\ m_list[p].key = k
    BY <1>1, IterFinds
  <1> HIDE DEF p
  <1>3. m_map = KeysOf(m_list) /\ DistinctKeys(m_list) /\ ByAge(m_list)
    BY CacheInvParts DEF CacheInv
  <1>4. /\ m_list' \in Seq(Node) /\ DistinctKeys(m_list') /\ ByAge(m_list')
        /\ KeysOf(m_list') = KeysOf(m_list) \ {k}
    BY <1>1, <1>2, <1>3, EraseOne DEF CacheInv
  <1>5. MapMatchesList' /\ OldestFirst'
    BY <1>1, <1>3, <1>4, CacheInvParts
  <1> QED
    BY <1>1, <1>4, <1>5 DEF CacheInv

\* session_cache.h: the three ClearTimeouts.
LEMMA ClearKeepsCache ==
    ASSUME CacheInv, NEW to \in Int, ClearTimeout(to)
    PROVE  CacheInv'
  <1> DEFINE n == ExpiredCount(to)
  <1>1. n \in 0 .. Len(m_list)
    BY ExpiredCountStops DEF CacheInv
  <1>2. m_list' = ListAfter(n) /\ m_map' = MapAfter(n) /\ m_timeout' = m_timeout
    BY DEF ClearTimeout, Settings
  <1> HIDE DEF n
  <1>3. /\ ListAfter(n) \in Seq(Node) /\ MapAfter(n) \in SUBSET Keys
        /\ MapAfter(n) = KeysOf(ListAfter(n))
        /\ DistinctKeys(ListAfter(n)) /\ ByAge(ListAfter(n))
    BY <1>1, CacheAfter
  <1>4. MapMatchesList' /\ OldestFirst'
    BY <1>2, <1>3, CacheInvParts
  <1> QED
    BY <1>2, <1>3, <1>4 DEF CacheInv

\* The clock moves on.
LEMMA TickKeepsCache ==
    ASSUME CacheInv, Tick
    PROVE  CacheInv'
  <1>1. m_list' = Aged /\ m_map' = m_map /\ m_timeout' = m_timeout
    BY DEF Tick, Aged
  <1>2. m_map = KeysOf(m_list) /\ DistinctKeys(m_list) /\ ByAge(m_list)
    BY CacheInvParts DEF CacheInv
  <1>3. /\ m_list' \in Seq(Node) /\ KeysOf(m_list') = KeysOf(m_list)
        /\ DistinctKeys(m_list') /\ ByAge(m_list')
    BY <1>1, <1>2, TickAges DEF CacheInv
  <1>4. MapMatchesList' /\ OldestFirst'
    BY <1>1, <1>2, <1>3, CacheInvParts
  <1> QED
    BY <1>1, <1>3, <1>4 DEF CacheInv

\* An empty cache, whatever its settings.
LEMMA EmptyCache ==
    /\ m_list = <<>> /\ m_map = {} /\ m_timeout \in Int => CacheInv
    /\ m_list' = <<>> /\ m_map' = {} /\ m_timeout' \in Int => CacheInv'
  <1>1. <<>> \in Seq(Node) /\ DOMAIN <<>> = {} /\ KeysOf(<<>>) = {}
    BY EmptySeq DEF KeysOf
  <1>2. m_list = <<>> /\ m_map = {} /\ m_timeout \in Int => CacheInv
    BY <1>1 DEF CacheInv, MapMatchesList, OldestFirst
  <1>3. m_list' = <<>> /\ m_map' = {} /\ m_timeout' \in Int => CacheInv'
    BY <1>1 DEF CacheInv, MapMatchesList, OldestFirst
  <1> QED
    BY <1>2, <1>3

\* The cache's own specification keeps its invariant.
THEOREM CacheInvariance == CacheSpec => []CacheInv
  <1> DEFINE size == CHOOSE s \in MaxSizes : \A x \in MaxSizes : x <= s
  <1>1. CacheInit(MaxAge, size) => CacheInv
    BY EmptyCache, CacheAssumption DEF CacheInit
  <1>2. CacheInv /\ [CacheNext]_cacheVars => CacheInv'
    <2> SUFFICES ASSUME CacheInv, [CacheNext]_cacheVars PROVE CacheInv'
      OBVIOUS
    <2>1. ASSUME m_list' = m_list, m_map' = m_map, m_timeout' \in Int
          PROVE  CacheInv'
      BY <2>1 DEF CacheInv, MapMatchesList, OldestFirst
    <2>2. m_timeout \in Int /\ \A to \in Timeouts : to \in Int
      BY CacheAssumption DEF CacheInv
    <2>3. CASE UNCHANGED cacheVars
      BY <2>1, <2>2, <2>3 DEF cacheVars
    <2>4. ASSUME NEW k \in Keys, NEW v \in Sessions, PushSession(k, v)
          PROVE  CacheInv'
      BY <2>4, PushKeepsCache
    <2>5. ASSUME NEW k \in Keys, PushRejected(k)
          PROVE  CacheInv'
      BY <2>5, RejectKeepsCache
    <2>6. ASSUME NEW k \in Keys, PopSession(k)
          PROVE  CacheInv'
      BY <2>6, PopKeepsCache
    <2>7. CASE PopFirstSession
      BY <2>1, <2>2, <2>7 DEF PopFirstSession
    <2>8. ASSUME NEW to \in Int, ClearTimeout(to)
          PROVE  CacheInv'
      BY <2>8, ClearKeepsCache
    <2>9. ASSUME NEW to \in Timeouts, SetTimeout(to)
          PROVE  CacheInv'
      BY <2>1, <2>2, <2>9 DEF SetTimeout
    <2>10. ASSUME NEW s \in MaxSizes, SetMaxSize(s)
           PROVE  CacheInv'
      BY <2>1, <2>2, <2>10 DEF SetMaxSize
    <2>11. CASE ClearAll
      BY <2>2, <2>11, EmptyCache DEF ClearAll, Settings
    <2> QED
      BY <2>2, <2>3, <2>4, <2>5, <2>6, <2>7, <2>8, <2>9, <2>10, <2>11, TickKeepsCache
         DEF CacheNext
  <1> QED
    BY <1>1, <1>2, PTL DEF CacheSpec

\* session_cache.h:61, :105, :121: the asserts on list and map hold after every
\* sequence of operations, for every set of keys, sessions and settings.
THEOREM MapMatchesListCorrect == CacheSpec => []MapMatchesList
  BY CacheInvariance, PTL DEF CacheInv

\* session_cache.h: the list is ordered by age, as every clean-up loop presumes.
THEOREM OldestFirstCorrect == CacheSpec => []OldestFirst
  BY CacheInvariance, PTL DEF CacheInv

\* A clean-up that stops at the first young node has found all the old ones.
THEOREM ClearTimeoutCorrect == CacheSpec => ClearTimeoutComplete
  <1>1. ASSUME CacheInv, NEW to \in Timeouts, ClearTimeout(to), NEW i \in DOMAIN m_list'
        PROVE  m_list'[i].age < to
    <2> DEFINE n == ExpiredCount(to)   N == Len(m_list)
    <2>1. to \in Int /\ m_list \in Seq(Node) /\ ByAge(m_list)
      BY <1>1, CacheAssumption, CacheInvParts DEF CacheInv
    <2>2. n \in 0 .. N /\ (n < N => m_list[n + 1].age < to)
      BY <2>1, ExpiredCountStops
    <2>3. m_list' = ListAfter(n)
      BY <1>1 DEF ClearTimeout
    <2>4. N \in Nat /\ DOMAIN m_list = 1 .. N /\ \A j \in 1 .. N : m_list[j].age \in Int
      BY <2>1, NodeFields
    <2> HIDE DEF n
    <2>5. /\ ListAfter(n) \in Seq(Node) /\ Len(ListAfter(n)) = N - n
          /\ \A j \in 1 .. N - n : ListAfter(n)[j] = m_list[j + n]
      BY <2>1, <2>2, EraseFront
    <2> HIDE DEF N
    <2>6. i \in 1 .. (N - n)
      BY <1>1, <2>3, <2>5, LenProperties
    <2>7. m_list'[i].age = m_list[i + n].age
      BY <2>3, <2>5, <2>6
    <2>8. n + 1 \in 1 .. N /\ i + n \in 1 .. N /\ (i + n = n + 1 \/ n + 1 < i + n) /\ n < N
      BY <2>2, <2>4, <2>6
    <2>9. m_list[n + 1].age >= m_list[i + n].age
      BY <2>1, <2>4, <2>8 DEF ByAge
    <2> QED
      BY <2>1, <2>2, <2>4, <2>7, <2>8, <2>9
  <1>2. CacheInv /\ [CacheNext]_cacheVars =>
           [\A to \in Timeouts : ClearTimeout(to) =>
               \A i \in DOMAIN m_list' : m_list'[i].age < to]_cacheVars
    BY <1>1
  <1> QED
    BY <1>2, CacheInvariance, PTL DEF CacheSpec, ClearTimeoutComplete

-----------------------------------------------------------------------------
(* The callers.  Who holds a session: the cache, a receiver that has popped *)
(* it, or the expiry thread.                                                *)

Cached   == ValuesOf(m_list)
Expiring == {expired[i] : i \in DOMAIN expired}
Active   == {r \in Receivers : returning[r] # Nothing}
Popped   == {returning[r].session : r \in Active}
Held     == Cached \cup Expiring \cup Popped

\* Nobody holds a session twice, and no two hold the same.
HeldOnce ==
    /\ DistinctValues(m_list)
    /\ \A r, s \in Active : returning[r].session = returning[s].session => r = s
    /\ \A i, j \in DOMAIN expired : expired[i] = expired[j] => i = j
    /\ Cached \cap Expiring = {} /\ Cached \cap Popped = {} /\ Expiring \cap Popped = {}

\* A held session belongs to a call in progress whose promise is not set.
Pending ==
    \A c \in Callers :
        /\ c \in Held => pc[c] # "idle"
        /\ c \in Held \/ pc[c] = "idle" => promise[c] = None

\* A session is stored under its caller's id, and a receiver brings an answer
\* to that id, or an empty one.
OwnIds ==
    /\ \A i \in DOMAIN m_list : m_list[i].key = id[m_list[i].value]
    /\ \A r \in Active : returning[r].response \in {Empty, id[returning[r].session]}

\* A call in progress has an id: what SendToQueue sends.
CallHasId == \A c \in Callers : pc[c] # "idle" => id[c] \in Keys

SyncInv == TypeOK /\ CacheInv /\ HeldOnce /\ Pending /\ OwnIds /\ CallHasId /\ OwnAnswer

\* A step that keeps or drops nodes but adds none keeps what SyncInv says of
\* the list.
LEMMA KeptNodes ==
    ASSUME SyncInv, CacheInv', DistinctValues(m_list'), id' = id,
           m_max_size' = m_max_size, m_mutex' = m_mutex,
           \A i \in DOMAIN m_list' : \E j \in DOMAIN m_list :
               m_list'[i].key = m_list[j].key /\ m_list'[i].value = m_list[j].value
    PROVE  /\ CacheTypeOK' /\ Cached' \subseteq Cached
           /\ \A i \in DOMAIN m_list' : m_list'[i].value \in Callers
           /\ \A i \in DOMAIN m_list' : m_list'[i].key = id'[m_list'[i].value]
  <1>1. CacheTypeOK'
    BY DEF SyncInv, TypeOK, CacheTypeOK, CacheInv
  <1>2. Cached' \subseteq Cached
    <2> SUFFICES ASSUME NEW c \in ValuesOf(m_list') PROVE c \in ValuesOf(m_list)
      BY DEF Cached
    <2>1. PICK i \in DOMAIN m_list' : c = m_list'[i].value
      BY DEF ValuesOf
    <2>2. PICK j \in DOMAIN m_list : m_list'[i].value = m_list[j].value
      OBVIOUS
    <2> QED
      BY <2>1, <2>2 DEF ValuesOf
  <1>3. /\ \A i \in DOMAIN m_list : m_list[i].value \in Callers
        /\ \A i \in DOMAIN m_list : m_list[i].key = id[m_list[i].value]
    BY DEF SyncInv, TypeOK, OwnIds
  <1>4. \A i \in DOMAIN m_list' : m_list'[i].value \in Callers
    BY <1>3
  <1>5. \A i \in DOMAIN m_list' : m_list'[i].key = id'[m_list'[i].value]
    BY <1>3
  <1> QED
    BY <1>1, <1>2, <1>4, <1>5

\* The first n nodes erased, seen from the callers.
LEMMA FrontErased ==
    ASSUME SyncInv, NEW n \in 0 .. Len(m_list)
    PROVE  /\ ListAfter(n) \in Seq(Node) /\ DistinctValues(ListAfter(n))
           /\ ValuesOf(ListAfter(n)) = Cached \ {m_list[j].value : j \in 1 .. n}
           /\ \A i \in DOMAIN ListAfter(n) : \E j \in DOMAIN m_list : ListAfter(n)[i] = m_list[j]
  <1> DEFINE L == ListAfter(n)   N == Len(m_list)
  <1>1. m_list \in Seq(Node) /\ DistinctValues(m_list)
    BY DEF SyncInv, CacheInv, HeldOnce
  <1>2. N \in Nat /\ DOMAIN m_list = 1 .. N
    BY <1>1, LenProperties
  <1>3. /\ L \in Seq(Node) /\ Len(L) = N - n /\ DistinctValues(L)
        /\ \A i \in 1 .. N - n : L[i] = m_list[i + n]
        /\ ValuesOf(L) = Cached \ {m_list[j].value : j \in 1 .. n}
    BY <1>1, EraseFront DEF Cached
  <1> HIDE DEF L, N
  <1>4. DOMAIN L = 1 .. (N - n)
    BY <1>3, LenProperties
  <1>5. \A i \in 1 .. (N - n) : i + n \in 1 .. N
    BY <1>2
  <1>6. \A i \in DOMAIN L : \E j \in DOMAIN m_list : L[i] = m_list[j]
    BY <1>2, <1>3, <1>4, <1>5
  <1> QED
    BY <1>3, <1>6 DEF L

\* What remains of SyncInv when the list's part is settled.
LEMMA SyncInvPrimed ==
    ASSUME CacheTypeOK', CacheInv',
           \A i \in DOMAIN m_list' : m_list'[i].value \in Callers,
           \A i \in DOMAIN m_list' : m_list'[i].key = id'[m_list'[i].value],
           pc' \in [Callers -> {"idle", "send", "wait"}],
           id' \in [Callers -> Keys \cup {None}],
           promise' \in [Callers -> Responses \cup {None}],
           sent' \in SUBSET Keys,
           returning' \in [Receivers -> Returning \cup {Nothing}],
           expired' \in Seq(Callers),
           HeldOnce', Pending', CallHasId', OwnAnswer',
           \A r \in Active' : returning'[r].response \in {Empty, id'[returning'[r].session]}
    PROVE  SyncInv'
  BY DEF SyncInv, TypeOK, OwnIds

\* SyncInv in pieces.
LEMMA SyncInvParts ==
    ASSUME SyncInv
    PROVE  /\ m_list \in Seq(Node) /\ m_timeout \in Int
           /\ \A i \in DOMAIN m_list : m_list[i].value \in Callers
           /\ \A i \in DOMAIN m_list : m_list[i].key = id[m_list[i].value]
           /\ pc \in [Callers -> {"idle", "send", "wait"}]
           /\ id \in [Callers -> Keys \cup {None}]
           /\ promise \in [Callers -> Responses \cup {None}]
           /\ sent \in SUBSET Keys
           /\ returning \in [Receivers -> Returning \cup {Nothing}]
           /\ expired \in Seq(Callers)
           /\ \A r \in Active : /\ returning[r] \in Returning /\ returning[r].session \in Callers
                                /\ returning[r].response \in Responses
                                /\ returning[r].response \in {Empty, id[returning[r].session]}
           /\ Held \subseteq Callers
  <1>1. /\ m_list \in Seq(Node) /\ m_timeout \in Int
        /\ \A i \in DOMAIN m_list : m_list[i].value \in Callers
        /\ pc \in [Callers -> {"idle", "send", "wait"}]
        /\ id \in [Callers -> Keys \cup {None}]
        /\ promise \in [Callers -> Responses \cup {None}]
        /\ sent \in SUBSET Keys
        /\ returning \in [Receivers -> Returning \cup {Nothing}]
        /\ expired \in Seq(Callers)
    BY DEF SyncInv, TypeOK, CacheInv
  <1>2. \A i \in DOMAIN m_list : m_list[i].key = id[m_list[i].value]
    BY DEF SyncInv, OwnIds
  <1>3. \A r \in Active : returning[r] \in Returning
    BY <1>1 DEF Active
  <1>4. \A r \in Active : /\ returning[r].session \in Callers
                          /\ returning[r].response \in Responses
    BY <1>3 DEF Returning
  <1>5. \A r \in Active : returning[r].response \in {Empty, id[returning[r].session]}
    BY DEF SyncInv, OwnIds
  <1>6. Cached \subseteq Callers /\ Popped \subseteq Callers
    BY <1>1, <1>4 DEF Cached, ValuesOf, Popped
  <1>7. Expiring \subseteq Callers
    BY <1>1, ElementOfSeq, LenProperties DEF Expiring
  <1> QED
    BY <1>1, <1>2, <1>3, <1>4, <1>5, <1>6, <1>7 DEF Held

-----------------------------------------------------------------------------
\* A purge inside PushSession can only take sessions away.
LEMMA SendStep ==
    ASSUME SyncInv, NEW c \in Callers, NEW k \in Keys, SendAndRecv(c, k)
    PROVE  /\ SyncInv'
           /\ Cached' = (Cached \ {m_list[j].value : j \in 1 .. AutoClearCount}) \cup {c}
  <1> DEFINE n == AutoClearCount   L == ListAfter(n)
             x == [key |-> k, value |-> c, age |-> 0]
  <1>1. /\ pc[c] = "idle" /\ PushSession(k, c) /\ m_list' = Append(L, x)
        /\ m_max_size' = m_max_size /\ m_mutex' = m_mutex
        /\ pc' = [pc EXCEPT ![c] = "send"] /\ id' = [id EXCEPT ![c] = k]
        /\ promise' = promise /\ sent' = sent /\ returning' = returning /\ expired' = expired
    BY DEF SendAndRecv, PushSession, Settings
  <1>2. CacheInv'
    BY <1>1, PushKeepsCache, SyncAssumption DEF SyncInv
  <1>3. x \in Node /\ x.age = 0 /\ x.key = k /\ x.value = c
    BY CacheAssumption, SyncAssumption DEF Node
  <1>4. n \in 0 .. Len(m_list)
    BY AutoClearRange, SyncInvParts
  <1> HIDE DEF n, x
  <1>5. /\ L \in Seq(Node) /\ DistinctValues(L)
        /\ ValuesOf(L) = Cached \ {m_list[j].value : j \in 1 .. n}
        /\ \A i \in DOMAIN L : \E j \in DOMAIN m_list : L[i] = m_list[j]
    BY <1>4, FrontErased
  <1> HIDE DEF L
  <1>6. c \notin Held
    BY <1>1 DEF SyncInv, Pending
  <1>7. c \notin ValuesOf(L) /\ c \notin Cached
    BY <1>5, <1>6 DEF Held
  <1>8. /\ DistinctValues(m_list') /\ ValuesOf(m_list') = ValuesOf(L) \cup {c}
        /\ \A i \in DOMAIN m_list' : m_list'[i] = x \/ \E j \in DOMAIN L : m_list'[i] = L[j]
    BY <1>1, <1>3, <1>5, <1>7, AppendNode
  <1>9. Cached' = (Cached \ {m_list[j].value : j \in 1 .. n}) \cup {c}
    BY <1>5, <1>8 DEF Cached
  <1>10. /\ Cached' \subseteq Cached \cup {c} /\ Expiring' = Expiring /\ Active' = Active
         /\ Popped' = Popped /\ Held' \subseteq Held \cup {c}
    BY <1>1, <1>9 DEF Expiring, Active, Popped, Held
  <1>11. /\ \A i \in DOMAIN m_list' : m_list'[i].value \in Callers
         /\ \A i \in DOMAIN m_list' : m_list'[i].key = id'[m_list'[i].value]
    <2> SUFFICES ASSUME NEW i \in DOMAIN m_list'
                 PROVE  m_list'[i].value \in Callers /\ m_list'[i].key = id'[m_list'[i].value]
      OBVIOUS
    <2>1. id'[c] = k /\ \A d \in Callers : d # c => id'[d] = id[d]
      BY <1>1, SyncInvParts
    <2>2. CASE m_list'[i] = x
      BY <1>3, <2>1, <2>2
    <2>3. CASE \E j \in DOMAIN L : m_list'[i] = L[j]
      <3>1. PICK j \in DOMAIN m_list : m_list'[i] = m_list[j]
        BY <1>5, <2>3
      <3>2. m_list[j].value \in Callers /\ m_list[j].key = id[m_list[j].value]
        BY SyncInvParts
      <3>3. m_list[j].value # c
        BY <1>7 DEF Cached, ValuesOf
      <3> QED
        BY <2>1, <3>1, <3>2, <3>3
    <2> QED
      BY <1>8, <2>2, <2>3
  <1>12. CacheTypeOK'
    BY <1>1, <1>2 DEF SyncInv, TypeOK, CacheTypeOK, CacheInv
  <1>13. HeldOnce'
    BY <1>1, <1>6, <1>8, <1>10 DEF SyncInv, HeldOnce, Held
  <1>14. \A d \in Callers : d # c => pc'[d] = pc[d] /\ id'[d] = id[d]
    BY <1>1, SyncInvParts
  <1>15. pc'[c] = "send" /\ promise[c] = None
    BY <1>1, SyncInvParts DEF SyncInv, Pending
  <1>16. Pending'
    BY <1>1, <1>10, <1>14, <1>15 DEF SyncInv, Pending
  <1>17. OwnAnswer'
    BY <1>1, <1>14, <1>15 DEF SyncInv, OwnAnswer
  <1>18. \A r \in Active' : returning'[r].response \in {Empty, id'[returning'[r].session]}
    <2> SUFFICES ASSUME NEW r \in Active
                 PROVE  returning[r].response \in {Empty, id'[returning[r].session]}
      BY <1>1, <1>10
    <2>1. returning[r].session # c
      BY <1>6 DEF Held, Popped
    <2> QED
      BY <1>14, <2>1, SyncInvParts
  <1>19. /\ pc' \in [Callers -> {"idle", "send", "wait"}]
         /\ id' \in [Callers -> Keys \cup {None}]
         /\ promise' \in [Callers -> Responses \cup {None}] /\ sent' \in SUBSET Keys
         /\ returning' \in [Receivers -> Returning \cup {Nothing}]
         /\ expired' \in Seq(Callers)
    BY <1>1, SyncInvParts
  <1>20. CallHasId'
    BY <1>1, <1>14, SyncInvParts DEF SyncInv, CallHasId
  <1>21. SyncInv'
    BY <1>2, <1>11, <1>12, <1>13, <1>16, <1>17, <1>18, <1>19, <1>20, SyncInvPrimed
  <1> QED
    BY <1>9, <1>21 DEF n

\* Steps that leave the callers' variables alone and drop sessions from the
\* cache: a rejected push, and the clock.
LEMMA DropStep ==
    ASSUME SyncInv, CacheInv', DistinctValues(m_list'), UNCHANGED syncVars,
           m_max_size' = m_max_size, m_mutex' = m_mutex,
           \A i \in DOMAIN m_list' : \E j \in DOMAIN m_list :
               m_list'[i].key = m_list[j].key /\ m_list'[i].value = m_list[j].value
    PROVE  SyncInv'
  <1>1. /\ pc' = pc /\ id' = id /\ promise' = promise /\ sent' = sent
        /\ returning' = returning /\ expired' = expired
    BY DEF syncVars
  <1>2. /\ CacheTypeOK' /\ Cached' \subseteq Cached
        /\ \A i \in DOMAIN m_list' : m_list'[i].value \in Callers
        /\ \A i \in DOMAIN m_list' : m_list'[i].key = id'[m_list'[i].value]
    BY <1>1, KeptNodes
  <1>3. Expiring' = Expiring /\ Active' = Active /\ Popped' = Popped /\ Held' \subseteq Held
    BY <1>1, <1>2 DEF Expiring, Active, Popped, Held
  <1>4. HeldOnce'
    BY <1>1, <1>2, <1>3 DEF SyncInv, HeldOnce
  <1>5. Pending' /\ CallHasId' /\ OwnAnswer'
    BY <1>1, <1>3 DEF SyncInv, Pending, CallHasId, OwnAnswer
  <1>6. \A r \in Active' : returning'[r].response \in {Empty, id'[returning'[r].session]}
    BY <1>1, <1>3, SyncInvParts
  <1>7. /\ pc' \in [Callers -> {"idle", "send", "wait"}]
        /\ id' \in [Callers -> Keys \cup {None}]
        /\ promise' \in [Callers -> Responses \cup {None}] /\ sent' \in SUBSET Keys
        /\ returning' \in [Receivers -> Returning \cup {Nothing}]
        /\ expired' \in Seq(Callers)
    BY <1>1, SyncInvParts
  <1> QED
    BY <1>2, <1>4, <1>5, <1>6, <1>7, SyncInvPrimed

\* An id that is in use: the push is rejected, after the purge it begins with.
LEMMA DuplicateStep ==
    ASSUME SyncInv, NEW c, NEW k, DuplicateId(c, k)
    PROVE  /\ SyncInv'
           /\ Cached' = Cached \ {m_list[j].value : j \in 1 .. AutoClearCount}
  <1> DEFINE n == AutoClearCount
  <1>1. /\ PushRejected(k) /\ m_list' = ListAfter(n) /\ UNCHANGED syncVars
        /\ m_max_size' = m_max_size /\ m_mutex' = m_mutex
    BY DEF DuplicateId, PushRejected, Settings
  <1>2. CacheInv'
    BY <1>1, RejectKeepsCache DEF SyncInv
  <1>3. n \in 0 .. Len(m_list)
    BY AutoClearRange, SyncInvParts
  <1> HIDE DEF n
  <1>4. /\ DistinctValues(m_list')
        /\ ValuesOf(m_list') = Cached \ {m_list[j].value : j \in 1 .. n}
        /\ \A i \in DOMAIN m_list' : \E j \in DOMAIN m_list : m_list'[i] = m_list[j]
    BY <1>1, <1>3, FrontErased
  <1>5. \A i \in DOMAIN m_list' : \E j \in DOMAIN m_list :
               m_list'[i].key = m_list[j].key /\ m_list'[i].value = m_list[j].value
    BY <1>4
  <1>6. SyncInv'
    BY <1>1, <1>2, <1>4, <1>5, DropStep
  <1> QED
    BY <1>4, <1>6 DEF n, Cached

\* The clock: ages grow, and no session moves.
LEMMA SecondStep ==
    ASSUME SyncInv, Second
    PROVE  SyncInv' /\ Cached' = Cached
  <1>1. /\ Tick /\ UNCHANGED syncVars /\ m_list' = Aged
        /\ m_max_size' = m_max_size /\ m_mutex' = m_mutex
    BY DEF Second, Tick, Aged
  <1>2. CacheInv'
    BY <1>1, TickKeepsCache DEF SyncInv
  <1>3. /\ DOMAIN m_list' = DOMAIN m_list /\ ValuesOf(m_list') = ValuesOf(m_list)
        /\ DistinctValues(m_list')
        /\ \A i \in DOMAIN m_list' : /\ m_list'[i].key = m_list[i].key
                                     /\ m_list'[i].value = m_list[i].value
    BY <1>1, TickAges, SyncInvParts DEF SyncInv, HeldOnce
  <1>4. \A i \in DOMAIN m_list' : \E j \in DOMAIN m_list :
               m_list'[i].key = m_list[j].key /\ m_list'[i].value = m_list[j].value
    BY <1>3
  <1>5. SyncInv'
    BY <1>1, <1>2, <1>3, <1>4, DropStep
  <1> QED
    BY <1>3, <1>5 DEF Cached

\* Steps that do not touch the cache keep what SyncInv says of it.
LEMMA CacheUntouched ==
    ASSUME SyncInv, UNCHANGED cacheVars
    PROVE  CacheTypeOK' /\ CacheInv' /\ m_list' = m_list /\ Cached' = Cached
  <1>1. /\ m_list' = m_list /\ m_map' = m_map /\ m_timeout' = m_timeout
        /\ m_max_size' = m_max_size /\ m_mutex' = m_mutex
    BY DEF cacheVars
  <1>2. CacheTypeOK'
    BY <1>1 DEF SyncInv, TypeOK, CacheTypeOK
  <1>3. CacheInv'
    BY <1>1 DEF SyncInv, CacheInv, MapMatchesList, OldestFirst, KeysOf
  <1> QED
    BY <1>1, <1>2, <1>3 DEF Cached, ValuesOf

\* sync_comm.cpp:60-75: the caller sends, and later wakes.
LEMMA CallerStep ==
    ASSUME SyncInv, NEW c \in Callers, SendToQueue(c) \/ GetValue(c)
    PROVE  /\ SyncInv' /\ Held' = Held
           /\ \A d \in Callers : d # c => pc'[d] = pc[d] /\ promise'[d] = promise[d]
           /\ pc'[c] # "idle" => pc[c] # "idle" /\ promise'[c] = promise[c]
  <1>1. /\ UNCHANGED cacheVars /\ returning' = returning /\ expired' = expired
    BY DEF SendToQueue, GetValue
  <1>2. /\ CacheTypeOK' /\ CacheInv' /\ m_list' = m_list /\ Cached' = Cached
    BY <1>1, CacheUntouched
  <1>3. /\ Expiring' = Expiring /\ Active' = Active /\ Popped' = Popped /\ Held' = Held
    BY <1>1, <1>2 DEF Expiring, Active, Popped, Held
  <1>4. HeldOnce'
    BY <1>1, <1>2, <1>3 DEF SyncInv, HeldOnce
  <1>5. CASE SendToQueue(c)
    <2>1. /\ pc[c] = "send" /\ pc' = [pc EXCEPT ![c] = "wait"] /\ id' = id
          /\ promise' = promise /\ sent' = sent \cup {id[c]}
      BY <1>5 DEF SendToQueue
    <2>2. pc'[c] = "wait" /\ \A d \in Callers : d # c => pc'[d] = pc[d]
      BY <2>1, SyncInvParts
    <2>3. Pending' /\ OwnAnswer'
      BY <1>3, <2>1, <2>2 DEF SyncInv, Pending, OwnAnswer
    <2>4. id[c] \in Keys
      BY <2>1, SyncInvParts DEF SyncInv, CallHasId
    <2>5. SyncInv'
      <3>1. /\ pc' \in [Callers -> {"idle", "send", "wait"}]
            /\ id' \in [Callers -> Keys \cup {None}]
            /\ promise' \in [Callers -> Responses \cup {None}] /\ sent' \in SUBSET Keys
            /\ returning' \in [Receivers -> Returning \cup {Nothing}]
            /\ expired' \in Seq(Callers)
        BY <1>1, <2>1, <2>4, SyncInvParts
      <3>2. \A i \in DOMAIN m_list' : /\ m_list'[i].value \in Callers
                                      /\ m_list'[i].key = id'[m_list'[i].value]
        BY <1>2, <2>1, SyncInvParts
      <3>3. \A r \in Active' : returning'[r].response \in {Empty, id'[returning'[r].session]}
        BY <1>1, <1>3, <2>1, SyncInvParts
      <3>4. CallHasId'
        BY <2>1, <2>2 DEF SyncInv, CallHasId
      <3> QED
        BY <1>2, <1>4, <2>3, <3>1, <3>2, <3>3, <3>4, SyncInvPrimed
    <2> QED
      BY <1>3, <2>1, <2>2, <2>5
  <1>6. CASE GetValue(c)
    <2>1. /\ promise[c] # None /\ pc' = [pc EXCEPT ![c] = "idle"]
          /\ id' = [id EXCEPT ![c] = None] /\ promise' = [promise EXCEPT ![c] = None]
          /\ sent' = sent
      BY <1>6 DEF GetValue
    <2>2. /\ pc'[c] = "idle" /\ promise'[c] = None
          /\ \A d \in Callers : d # c => /\ pc'[d] = pc[d] /\ id'[d] = id[d]
                                         /\ promise'[d] = promise[d]
      BY <2>1, SyncInvParts
    <2>3. c \notin Held
      BY <2>1 DEF SyncInv, Pending
    <2>4. Pending' /\ OwnAnswer'
      BY <1>3, <2>2, <2>3 DEF SyncInv, Pending, OwnAnswer
    <2>5. SyncInv'
      <3>1. /\ pc' \in [Callers -> {"idle", "send", "wait"}]
            /\ id' \in [Callers -> Keys \cup {None}]
            /\ promise' \in [Callers -> Responses \cup {None}] /\ sent' \in SUBSET Keys
            /\ returning' \in [Receivers -> Returning \cup {Nothing}]
            /\ expired' \in Seq(Callers)
        BY <1>1, <2>1, SyncInvParts
      <3>2. \A i \in DOMAIN m_list : m_list[i].value # c
        BY <2>3 DEF Held, Cached, ValuesOf
      <3>3. \A i \in DOMAIN m_list' : /\ m_list'[i].value \in Callers
                                      /\ m_list'[i].key = id'[m_list'[i].value]
        BY <1>2, <2>2, <3>2, SyncInvParts
      <3>4. \A r \in Active : returning[r].session # c
        BY <2>3 DEF Held, Popped
      <3>5. \A r \in Active' : returning'[r].response \in {Empty, id'[returning'[r].session]}
        BY <1>1, <1>3, <2>2, <3>4, SyncInvParts
      <3>6. CallHasId'
        BY <2>2 DEF SyncInv, CallHasId
      <3> QED
        BY <1>2, <1>4, <2>4, <3>1, <3>3, <3>5, <3>6, SyncInvPrimed
    <2> QED
      BY <1>3, <2>2, <2>5
  <1> QED
    BY <1>5, <1>6

\* sync_comm.cpp: Return takes the session out of the cache; only then, outside
\* the cache's mutex, it sets the promise.
LEMMA ReturnStep ==
    ASSUME SyncInv, NEW r \in Receivers, NEW k \in Keys, NEW response \in {k, Empty},
           Return(r, k, response)
    PROVE  SyncInv' /\ Held' = Held
  <1> DEFINE p == Iter(k)   c == SessionOf(k)
             x == [session |-> c, response |-> response]
  <1>1. /\ returning[r] = Nothing /\ PopSession(k) /\ k \in m_map
        /\ m_list' = Without(p) /\ m_max_size' = m_max_size /\ m_mutex' = m_mutex
        /\ returning' = [returning EXCEPT ![r] = x]
        /\ pc' = pc /\ id' = id /\ promise' = promise /\ sent' = sent /\ expired' = expired
    BY DEF Return, PopSession, Settings, Without
  <1>2. CacheInv'
    BY <1>1, PopKeepsCache DEF SyncInv
  <1>3. p \in 1 .. Len(m_list) /\ p \in DOMAIN m_list /\ m_list[p].key = k /\ c = m_list[p].value
    BY <1>1, IterFinds, NodeFields DEF SyncInv, CacheInv, SessionOf
  <1>4. c \in Callers /\ id[c] = k /\ c \in Cached
    BY <1>3, SyncInvParts DEF Cached, ValuesOf
  <1>5. /\ x \in Returning /\ x # Nothing /\ x.session = c
        /\ x.response \in {Empty, id[c]}
    <2>1. x.session = c /\ Nothing.session = None /\ x.response = response
      BY DEF Nothing
    <2>2. c # None
      BY <1>4, SyncAssumption
    <2> QED
      BY <1>4, <2>1, <2>2 DEF Returning, Responses
  <1> HIDE DEF p, c, x
  <1>6. /\ DistinctValues(m_list') /\ ValuesOf(m_list') = Cached \ {c}
        /\ \A i \in DOMAIN m_list' : \E j \in DOMAIN m_list : m_list'[i] = m_list[j]
    BY <1>1, <1>3, EraseOne DEF SyncInv, CacheInv, HeldOnce, Cached
  <1>7. \A i \in DOMAIN m_list' : \E j \in DOMAIN m_list :
               m_list'[i].key = m_list[j].key /\ m_list'[i].value = m_list[j].value
    BY <1>6
  <1>8. /\ CacheTypeOK' /\ Cached' \subseteq Cached
        /\ \A i \in DOMAIN m_list' : m_list'[i].value \in Callers
        /\ \A i \in DOMAIN m_list' : m_list'[i].key = id'[m_list'[i].value]
    BY <1>1, <1>2, <1>6, <1>7, KeptNodes
  <1>9. returning'[r] = x /\ \A s \in Receivers : s # r => returning'[s] = returning[s]
    BY <1>1, SyncInvParts
  <1>10. Active' = Active \cup {r} /\ r \notin Active
    BY <1>1, <1>5, <1>9 DEF Active
  <1>11. \A s \in Active : s # r /\ returning'[s] = returning[s]
    BY <1>9, <1>10 DEF Active
  <1>12. Popped' = Popped \cup {c}
    BY <1>5, <1>9, <1>10, <1>11 DEF Popped
  <1>13. Cached' = Cached \ {c} /\ Expiring' = Expiring
    BY <1>1, <1>6 DEF Cached, Expiring
  <1>14. Held' = Held
    BY <1>4, <1>12, <1>13 DEF Held
  <1>15. c \notin Expiring /\ c \notin Popped
    BY <1>4 DEF SyncInv, HeldOnce
  <1>16. HeldOnce'
    <2>1. \A s \in Active : returning[s].session # c
      BY <1>15 DEF Popped
    <2>2. \A s, t \in Active' : returning'[s].session = returning'[t].session => s = t
      BY <1>5, <1>9, <1>10, <1>11, <2>1 DEF SyncInv, HeldOnce
    <2>3. /\ Cached' \cap Expiring' = {} /\ Cached' \cap Popped' = {}
          /\ Expiring' \cap Popped' = {}
      BY <1>12, <1>13, <1>15 DEF SyncInv, HeldOnce
    <2> QED
      BY <1>1, <1>6, <2>2, <2>3 DEF SyncInv, HeldOnce
  <1>17. Pending' /\ CallHasId' /\ OwnAnswer'
    BY <1>1, <1>14 DEF SyncInv, Pending, CallHasId, OwnAnswer
  <1>18. \A s \in Active' : returning'[s].response \in {Empty, id'[returning'[s].session]}
    BY <1>1, <1>5, <1>9, <1>10, <1>11, SyncInvParts
  <1>19. returning' \in [Receivers -> Returning \cup {Nothing}]
    BY <1>1, <1>5, SyncInvParts
  <1>20. /\ pc' \in [Callers -> {"idle", "send", "wait"}]
         /\ id' \in [Callers -> Keys \cup {None}]
         /\ promise' \in [Callers -> Responses \cup {None}] /\ sent' \in SUBSET Keys
         /\ expired' \in Seq(Callers)
    BY <1>1, SyncInvParts
  <1>21. SyncInv'
    BY <1>2, <1>8, <1>16, <1>17, <1>18, <1>19, <1>20, SyncInvPrimed
  <1> QED
    BY <1>14, <1>21

\* Setting a promise that was held by one party, which lets go of it.
LEMMA SetValueStep ==
    ASSUME SyncInv, NEW c \in Held, NEW v \in {Empty, id[c]},
           UNCHANGED cacheVars, pc' = pc, id' = id, sent' = sent,
           promise' = [promise EXCEPT ![c] = v], Held' = Held \ {c},
           HeldOnce', returning' \in [Receivers -> Returning \cup {Nothing}],
           \A r \in Active' : r \in Active /\ returning'[r] = returning[r],
           expired' \in Seq(Callers)
    PROVE  SyncInv'
  <1>1. CacheTypeOK' /\ CacheInv' /\ m_list' = m_list
    BY CacheUntouched
  <1>2. c \in Callers /\ pc[c] # "idle"
    BY SyncInvParts DEF SyncInv, Pending
  <1>3. v \in Responses /\ v # None
    BY <1>2, SyncAssumption DEF Responses, SyncInv, CallHasId
  <1>4. promise'[c] = v /\ \A d \in Callers : d # c => promise'[d] = promise[d]
    BY <1>2, SyncInvParts
  <1>5. promise' \in [Callers -> Responses \cup {None}]
    BY <1>3, SyncInvParts
  <1>6. Pending'
    BY <1>2, <1>4 DEF SyncInv, Pending
  <1>7. OwnAnswer' /\ CallHasId'
    BY <1>4 DEF SyncInv, OwnAnswer, CallHasId
  <1>8. \A r \in Active' : returning'[r].response \in {Empty, id'[returning'[r].session]}
    BY SyncInvParts
  <1>9. \A i \in DOMAIN m_list' : /\ m_list'[i].value \in Callers
                                  /\ m_list'[i].key = id'[m_list'[i].value]
    BY <1>1, SyncInvParts
  <1>10. /\ pc' \in [Callers -> {"idle", "send", "wait"}]
         /\ id' \in [Callers -> Keys \cup {None}] /\ sent' \in SUBSET Keys
    BY SyncInvParts
  <1> QED
    BY <1>1, <1>5, <1>6, <1>7, <1>8, <1>9, <1>10, SyncInvPrimed

\* A receiver sets the promise of the session it took out, and lets it go.
LEMMA ReturnSetValueStep ==
    ASSUME SyncInv, NEW r \in Receivers, ReturnSetValue(r)
    PROVE  SyncInv' /\ \E c \in Callers : Held' = Held \ {c} /\ promise'[c] # None
                          /\ \A d \in Callers : d # c => promise'[d] = promise[d]
  <1> DEFINE c == returning[r].session   v == returning[r].response
  <1>1. /\ returning[r] # Nothing /\ UNCHANGED cacheVars
        /\ promise' = [promise EXCEPT ![c] = v]
        /\ returning' = [returning EXCEPT ![r] = Nothing]
        /\ pc' = pc /\ id' = id /\ sent' = sent /\ expired' = expired
    BY DEF ReturnSetValue
  <1>2. r \in Active
    BY <1>1 DEF Active
  <1>3. c \in Callers /\ v \in {Empty, id[c]} /\ c \in Popped
    BY <1>2, SyncInvParts DEF Popped
  <1>4. returning'[r] = Nothing /\ \A s \in Receivers : s # r => returning'[s] = returning[s]
    BY <1>1, SyncInvParts
  <1>5. Active' = Active \ {r} /\ \A s \in Active' : s \in Active /\ returning'[s] = returning[s]
    BY <1>4 DEF Active
  <1>6. \A s \in Active : s # r => returning[s].session # c
    BY <1>2 DEF SyncInv, HeldOnce
  <1>7. Popped' = Popped \ {c}
    <2> HIDE DEF c
    <2>1. Popped' \subseteq Popped \ {c}
      BY <1>5, <1>6 DEF Popped
    <2>2. ASSUME NEW d \in Popped \ {c} PROVE d \in Popped'
      <3>1. PICK s \in Active : d = returning[s].session
        BY DEF Popped
      <3>2. s # r
        BY <3>1 DEF c
      <3> QED
        BY <1>5, <3>1, <3>2 DEF Popped
    <2> QED
      BY <2>1, <2>2
  <1> HIDE DEF c, v
  <1>8. Cached' = Cached /\ Expiring' = Expiring
    BY <1>1, CacheUntouched DEF Expiring
  <1>9. Held' = Held \ {c} /\ c \in Held
    BY <1>3, <1>7, <1>8 DEF Held, SyncInv, HeldOnce
  <1>10. HeldOnce'
    <2>1. m_list' = m_list
      BY <1>1, CacheUntouched
    <2> QED
      BY <1>1, <1>5, <1>7, <1>8, <2>1 DEF SyncInv, HeldOnce
  <1>11. returning' \in [Receivers -> Returning \cup {Nothing}] /\ expired' \in Seq(Callers)
    BY <1>1, SyncInvParts
  <1>12. SyncInv'
    BY <1>1, <1>3, <1>5, <1>9, <1>10, <1>11, SetValueStep
  <1>13. v # None
    BY <1>3, <1>9, SyncAssumption DEF SyncInv, Pending, CallHasId
  <1>14. promise'[c] = v /\ \A d \in Callers : d # c => promise'[d] = promise[d]
    BY <1>1, <1>3, SyncInvParts
  <1> QED
    BY <1>3, <1>9, <1>12, <1>13, <1>14

\* sync_comm.cpp: one round of Run moves the expired sessions from the cache to
\* its own list ...
LEMMA RunClearStep ==
    ASSUME SyncInv, RunClearTimeout
    PROVE  SyncInv' /\ Held' = Held
  <1> DEFINE n == ExpiredCount(m_timeout)
  <1>1. /\ expired = <<>> /\ ClearTimeout(m_timeout) /\ m_list' = ListAfter(n)
        /\ expired' = [i \in 1 .. n |-> m_list[i].value]
        /\ m_max_size' = m_max_size /\ m_mutex' = m_mutex
        /\ pc' = pc /\ id' = id /\ promise' = promise /\ sent' = sent
        /\ returning' = returning
    BY DEF RunClearTimeout, ClearTimeout, TimedOutSessions, Settings
  <1>2. CacheInv'
    BY <1>1, ClearKeepsCache, SyncInvParts DEF SyncInv
  <1>3. n \in 0 .. Len(m_list)
    BY ExpiredCountStops, SyncInvParts
  <1> HIDE DEF n
  <1>4. /\ DistinctValues(m_list')
        /\ ValuesOf(m_list') = Cached \ {m_list[j].value : j \in 1 .. n}
        /\ \A i \in DOMAIN m_list' : \E j \in DOMAIN m_list : m_list'[i] = m_list[j]
    BY <1>1, <1>3, FrontErased
  <1>5. \A i \in DOMAIN m_list' : \E j \in DOMAIN m_list :
               m_list'[i].key = m_list[j].key /\ m_list'[i].value = m_list[j].value
    BY <1>4
  <1>6. /\ CacheTypeOK' /\ Cached' \subseteq Cached
        /\ \A i \in DOMAIN m_list' : m_list'[i].value \in Callers
        /\ \A i \in DOMAIN m_list' : m_list'[i].key = id'[m_list'[i].value]
    BY <1>1, <1>2, <1>4, <1>5, KeptNodes
  <1>7. DOMAIN expired' = 1 .. n /\ \A i \in 1 .. n : expired'[i] = m_list[i].value
    BY <1>1
  <1>8. \A i \in 1 .. n : i \in DOMAIN m_list
    BY <1>3, NodeFields, SyncInvParts
  <1>9. expired' \in Seq(Callers)
    <2>1. n \in Nat
      BY <1>3
    <2> QED
      BY <1>1, <1>8, <2>1, SyncInvParts
  <1>10. Expiring' = {m_list[j].value : j \in 1 .. n} /\ Expiring = {}
    BY <1>1, <1>7 DEF Expiring
  <1>11. Cached' = Cached \ Expiring' /\ Expiring' \subseteq Cached
    BY <1>4, <1>8, <1>10 DEF Cached, ValuesOf
  <1>12. Active' = Active /\ Popped' = Popped
    BY <1>1 DEF Active, Popped
  <1>13. Held' = Held
    BY <1>10, <1>11, <1>12 DEF Held
  <1>14. HeldOnce'
    <2>1. \A i, j \in DOMAIN expired' : expired'[i] = expired'[j] => i = j
      BY <1>7, <1>8 DEF SyncInv, HeldOnce, DistinctValues
    <2>2. /\ Cached' \cap Expiring' = {} /\ Cached' \cap Popped' = {}
          /\ Expiring' \cap Popped' = {}
      BY <1>11, <1>12 DEF SyncInv, HeldOnce
    <2>3. \A s, t \in Active' : returning'[s].session = returning'[t].session => s = t
      BY <1>1, <1>12 DEF SyncInv, HeldOnce
    <2> QED
      BY <1>4, <2>1, <2>2, <2>3 DEF HeldOnce
  <1>15. Pending' /\ CallHasId' /\ OwnAnswer'
    BY <1>1, <1>13 DEF SyncInv, Pending, CallHasId, OwnAnswer
  <1>16. \A s \in Active' : returning'[s].response \in {Empty, id'[returning'[s].session]}
    BY <1>1, <1>12, SyncInvParts
  <1>17. /\ pc' \in [Callers -> {"idle", "send", "wait"}]
         /\ id' \in [Callers -> Keys \cup {None}]
         /\ promise' \in [Callers -> Responses \cup {None}] /\ sent' \in SUBSET Keys
         /\ returning' \in [Receivers -> Returning \cup {Nothing}]
    BY <1>1, SyncInvParts
  <1>18. SyncInv'
    BY <1>2, <1>6, <1>9, <1>14, <1>15, <1>16, <1>17, SyncInvPrimed
  <1> QED
    BY <1>13, <1>18

\* ... and fails them one by one.
LEMMA RunSetValueStep ==
    ASSUME SyncInv, RunSetValue
    PROVE  SyncInv' /\ \E c \in Callers : Held' = Held \ {c} /\ promise'[c] # None
                          /\ \A d \in Callers : d # c => promise'[d] = promise[d]
  <1> DEFINE c == Head(expired)   n == Len(expired)
  <1>1. /\ expired # <<>> /\ UNCHANGED cacheVars
        /\ promise' = [promise EXCEPT ![c] = Empty] /\ expired' = Tail(expired)
        /\ pc' = pc /\ id' = id /\ sent' = sent /\ returning' = returning
    BY DEF RunSetValue
  <1>2. /\ expired \in Seq(Callers) /\ c \in Callers /\ c = expired[1]
        /\ expired' \in Seq(Callers) /\ Len(expired') = n - 1
        /\ \A i \in 1 .. n - 1 : expired'[i] = expired[i + 1]
    BY <1>1, HeadTailProperties, SyncInvParts
  <1>3. /\ n \in Nat \ {0} /\ DOMAIN expired = 1 .. n /\ DOMAIN expired' = 1 .. n - 1
    BY <1>1, <1>2, LenProperties, EmptySeq
  <1> HIDE DEF c, n
  <1>4. \A i, j \in 1 .. n : expired[i] = expired[j] => i = j
    BY <1>3 DEF SyncInv, HeldOnce
  <1>5. Expiring' = Expiring \ {c} /\ c \in Expiring
    <2>1. ASSUME NEW i \in 1 .. n - 1
          PROVE  expired'[i] \in Expiring \ {c}
      <3>1. i + 1 \in 1 .. n /\ 1 \in 1 .. n /\ i + 1 # 1
        BY <1>3
      <3>2. expired[i + 1] # c
        BY <1>2, <1>4, <3>1
      <3> QED
        BY <1>2, <1>3, <3>1, <3>2 DEF Expiring
    <2>2. ASSUME NEW j \in 1 .. n, expired[j] # c
          PROVE  expired[j] \in Expiring'
      <3>1. j - 1 \in 1 .. n - 1 /\ (j - 1) + 1 = j
        BY <1>2, <1>3, <2>2
      <3>2. expired[j] = expired'[j - 1]
        BY <1>2, <3>1
      <3> QED
        BY <1>3, <3>1, <3>2 DEF Expiring
    <2>3. c \in Expiring
      BY <1>2, <1>3 DEF Expiring
    <2>4. Expiring' \subseteq Expiring \ {c}
      BY <1>3, <2>1 DEF Expiring
    <2>5. Expiring \ {c} \subseteq Expiring'
      <3> SUFFICES ASSUME NEW d \in Expiring, d # c PROVE d \in Expiring'
        OBVIOUS
      <3>1. PICK j \in 1 .. n : d = expired[j]
        BY <1>3 DEF Expiring
      <3> QED
        BY <2>2, <3>1
    <2> QED
      BY <2>3, <2>4, <2>5
  <1>6. \A i, j \in DOMAIN expired' : expired'[i] = expired'[j] => i = j
    <2> SUFFICES ASSUME NEW i \in 1 .. n - 1, NEW j \in 1 .. n - 1, expired'[i] = expired'[j]
                 PROVE  i = j
      BY <1>3
    <2>1. i + 1 \in 1 .. n /\ j + 1 \in 1 .. n /\ expired[i + 1] = expired[j + 1]
      BY <1>2, <1>3
    <2> QED
      BY <1>3, <1>4, <2>1
  <1>7. Cached' = Cached /\ Active' = Active /\ Popped' = Popped /\ m_list' = m_list
    BY <1>1, CacheUntouched DEF Active, Popped
  <1>8. Held' = Held \ {c} /\ c \in Held
    BY <1>5, <1>7 DEF Held, SyncInv, HeldOnce
  <1>9. HeldOnce'
    BY <1>1, <1>5, <1>6, <1>7 DEF SyncInv, HeldOnce
  <1>10. returning' \in [Receivers -> Returning \cup {Nothing}]
    BY <1>1, SyncInvParts
  <1>11. \A r \in Active' : r \in Active /\ returning'[r] = returning[r]
    BY <1>1, <1>7
  <1>12. SyncInv'
    BY <1>1, <1>2, <1>8, <1>9, <1>10, <1>11, SetValueStep
  <1>13. /\ promise'[c] = Empty /\ Empty # None
         /\ \A d \in Callers : d # c => promise'[d] = promise[d]
    BY <1>1, <1>2, SyncInvParts, SyncAssumption
  <1> QED
    BY <1>2, <1>8, <1>12, <1>13

-----------------------------------------------------------------------------
\* The inductive invariant holds throughout.
THEOREM SyncInvariance == Spec => []SyncInv
  <1>1. Init => SyncInv
    <2> SUFFICES ASSUME Init PROVE SyncInv
      OBVIOUS
    <2>1. /\ m_list = <<>> /\ m_map = {} /\ m_timeout = Timeout /\ m_max_size = MaxSize
          /\ m_mutex = "free" /\ pc = [c \in Callers |-> "idle"]
          /\ id = [c \in Callers |-> None] /\ promise = [c \in Callers |-> None]
          /\ sent = {} /\ returning = [r \in Receivers |-> Nothing] /\ expired = <<>>
      BY DEF Init, CacheInit
    <2>2. CacheInv
      BY <2>1, EmptyCache, SyncAssumption, CacheAssumption
    <2>3. DOMAIN m_list = {} /\ DOMAIN expired = {} /\ expired \in Seq(Callers)
      BY <2>1, EmptySeq
    <2>4. Active = {} /\ Popped = {} /\ Cached = {} /\ Expiring = {} /\ Held = {}
      BY <2>1, <2>3 DEF Active, Popped, Cached, ValuesOf, Expiring, Held
    <2>5. TypeOK
      BY <2>1, <2>2, <2>3, SyncAssumption DEF TypeOK, CacheTypeOK, CacheInv, Nothing
    <2>6. HeldOnce
      BY <2>3, <2>4 DEF HeldOnce, DistinctValues
    <2>7. Pending /\ CallHasId /\ OwnAnswer
      BY <2>1, <2>4 DEF Pending, CallHasId, OwnAnswer
    <2>8. OwnIds
      BY <2>3, <2>4 DEF OwnIds
    <2> QED
      BY <2>2, <2>5, <2>6, <2>7, <2>8 DEF SyncInv
  <1>2. SyncInv /\ [Next]_vars => SyncInv'
    <2> SUFFICES ASSUME SyncInv, [Next]_vars PROVE SyncInv'
      OBVIOUS
    <2>1. CASE UNCHANGED vars
      <3>1. UNCHANGED cacheVars /\ UNCHANGED syncVars
        BY <2>1 DEF vars
      <3>2. CacheInv' /\ m_list' = m_list /\ m_max_size' = m_max_size /\ m_mutex' = m_mutex
        BY <3>1, CacheUntouched DEF cacheVars
      <3>3. DistinctValues(m_list')
        BY <3>2 DEF SyncInv, HeldOnce
      <3>4. \A i \in DOMAIN m_list' : \E j \in DOMAIN m_list :
               m_list'[i].key = m_list[j].key /\ m_list'[i].value = m_list[j].value
        BY <3>2
      <3> QED
        BY <3>1, <3>2, <3>3, <3>4, DropStep
    <2>2. ASSUME NEW c \in Callers, NEW k \in Keys, SendAndRecv(c, k) \/ DuplicateId(c, k)
          PROVE  SyncInv'
      BY <2>2, SendStep, DuplicateStep
    <2>3. ASSUME NEW c \in Callers, SendToQueue(c) \/ GetValue(c)
          PROVE  SyncInv'
      BY <2>3, CallerStep
    <2>4. ASSUME NEW r \in Receivers, NEW k \in Keys, NEW response \in {k, Empty},
                 Return(r, k, response)
          PROVE  SyncInv'
      BY <2>4, ReturnStep
    <2>5. ASSUME NEW r \in Receivers, ReturnSetValue(r)
          PROVE  SyncInv'
      BY <2>5, ReturnSetValueStep
    <2> QED
      BY <2>1, <2>2, <2>3, <2>4, <2>5, RunClearStep, RunSetValueStep, SecondStep DEF Next
  <1> QED
    BY <1>1, <1>2, PTL DEF Spec

\* Of each session there is at most one owner, and one exactly if it is held.
OwnersCounted ==
    \A c \in Callers : Owners(c) = IF c \in Held THEN 1 ELSE 0

\* HeldOnce, in numbers.
LEMMA CountOwners == SyncInv => OwnersCounted
  <1> SUFFICES ASSUME SyncInv, NEW c \in Callers
               PROVE  Owners(c) = IF c \in Held THEN 1 ELSE 0
    BY DEF OwnersCounted
  <1>1. Cardinality(InCache(c)) = IF c \in Cached THEN 1 ELSE 0
    <2>1. \A i, j \in InCache(c) : i = j
      BY DEF InCache, SyncInv, HeldOnce, DistinctValues
    <2>2. c \in Cached <=> InCache(c) # {}
      BY DEF InCache, Cached, ValuesOf
    <2>3. InCache(c) = {} \/ \E i : InCache(c) = {i}
      BY <2>1, Zenon
    <2> QED
      BY <2>2, <2>3, FS_EmptySet, FS_Singleton
  <1>2. Cardinality(InReturn(c)) = IF c \in Popped THEN 1 ELSE 0
    <2>1. \A i, j \in InReturn(c) : i = j
      BY DEF InReturn, SyncInv, HeldOnce, Active
    <2>2. c \in Popped <=> InReturn(c) # {}
      BY DEF InReturn, Popped, Active
    <2>3. InReturn(c) = {} \/ \E i : InReturn(c) = {i}
      BY <2>1, Zenon
    <2> QED
      BY <2>2, <2>3, FS_EmptySet, FS_Singleton
  <1>3. Cardinality(InRun(c)) = IF c \in Expiring THEN 1 ELSE 0
    <2>1. \A i, j \in InRun(c) : i = j
      BY DEF InRun, SyncInv, HeldOnce
    <2>2. c \in Expiring <=> InRun(c) # {}
      BY DEF InRun, Expiring
    <2>3. InRun(c) = {} \/ \E i : InRun(c) = {i}
      BY <2>1, Zenon
    <2> QED
      BY <2>2, <2>3, FS_EmptySet, FS_Singleton
  <1>4. /\ ~(c \in Cached /\ c \in Popped) /\ ~(c \in Cached /\ c \in Expiring)
        /\ ~(c \in Expiring /\ c \in Popped)
    BY DEF SyncInv, HeldOnce
  <1> QED
    BY <1>1, <1>2, <1>3, <1>4 DEF Owners, Held

\* sync_comm.h:25: however the answer, its duplicate, the timeout and the purge
\* race, no promise is set twice.
THEOREM SetOnceCorrect == Spec => []SetOnce
  <1>1. SyncInv => SetOnce
    <2> SUFFICES ASSUME SyncInv, NEW c \in Callers
                 PROVE  /\ Owners(c) <= 1
                        /\ promise[c] # None \/ pc[c] = "idle" => Owners(c) = 0
      BY DEF SetOnce
    <2>1. Owners(c) = IF c \in Held THEN 1 ELSE 0
      BY CountOwners DEF OwnersCounted
    <2>2. c \in Held => pc[c] # "idle" /\ promise[c] = None
      BY DEF SyncInv, Pending
    <2> QED
      BY <2>1, <2>2
  <1> QED
    BY <1>1, SyncInvariance, PTL

\* sync_comm.cpp:67: a caller gets the answer to its own request, or none.
THEOREM OwnAnswerCorrect == Spec => []OwnAnswer
  <1>1. SyncInv => OwnAnswer
    BY DEF SyncInv
  <1> QED
    BY <1>1, SyncInvariance, PTL

\* session_cache.h:72: only the purge inside PushSession, and only with the cache
\* over its size, leaves a caller waiting with nobody to wake it.
THEOREM OrphanCorrect == Spec => OrphanOnlyByPurge
  <1> DEFINE Cause ==
        /\ Cardinality(m_map) > m_max_size
        /\ \E c \in Callers, k \in Keys : SendAndRecv(c, k) \/ DuplicateId(c, k)
      Allowed == (\E c \in Callers : ~Orphan(c) /\ Orphan(c)') => Cause
  <1>1. SyncInv' => OwnersCounted'
    BY CountOwners, PTL
  <1>2. SyncInv /\ SyncInv' /\ [Next]_vars => [Allowed]_vars
    <2> SUFFICES ASSUME SyncInv, SyncInv', Next,
                        NEW c \in Callers, ~Orphan(c), Orphan(c)'
                 PROVE  Cause
      OBVIOUS
    <2>1. pc'[c] # "idle" /\ promise'[c] = None /\ c \notin Held'
      <3>1. pc'[c] # "idle" /\ promise'[c] = None /\ Owners(c)' = 0
        BY DEF Orphan
      <3>2. Owners(c)' = IF c \in Held' THEN 1 ELSE 0
        BY <1>1 DEF OwnersCounted
      <3> QED
        BY <3>1, <3>2
    <2>2. pc[c] = "idle" \/ promise[c] # None \/ c \in Held
      <3>1. pc[c] = "idle" \/ promise[c] # None \/ Owners(c) # 0
        BY DEF Orphan
      <3>2. Owners(c) = IF c \in Held THEN 1 ELSE 0
        BY CountOwners DEF OwnersCounted
      <3> QED
        BY <3>1, <3>2
    <2>3. ASSUME AutoClearCount # 0
          PROVE  Cardinality(m_map) > m_max_size
      BY <2>3 DEF AutoClearCount
    <2>4. AutoClearCount = 0 => {m_list[j].value : j \in 1 .. AutoClearCount} = {}
      OBVIOUS
    <2>5. ASSUME NEW d \in Callers, NEW k \in Keys, SendAndRecv(d, k)
          PROVE  Cause
      <3>1. Cached' = (Cached \ {m_list[j].value : j \in 1 .. AutoClearCount}) \cup {d}
        BY <2>5, SendStep
      <3>2. /\ promise' = promise /\ Expiring' = Expiring /\ Popped' = Popped
        BY <2>5 DEF SendAndRecv, Expiring, Popped, Active
      <3>3. c # d
        BY <2>1, <3>1 DEF Held
      <3>4. pc'[c] = pc[c]
        BY <2>5, <3>3, SyncInvParts DEF SendAndRecv
      <3>5. c \in Held
        BY <2>1, <2>2, <3>2, <3>4
      <3>6. AutoClearCount # 0
        BY <2>1, <2>4, <3>1, <3>2, <3>5 DEF Held
      <3> QED
        BY <2>3, <2>5, <3>6
    <2>6. ASSUME NEW d \in Callers, NEW k \in Keys, DuplicateId(d, k)
          PROVE  Cause
      <3>1. Cached' = Cached \ {m_list[j].value : j \in 1 .. AutoClearCount}
        BY <2>6, DuplicateStep
      <3>2. pc' = pc /\ promise' = promise /\ Expiring' = Expiring /\ Popped' = Popped
        BY <2>6 DEF DuplicateId, syncVars, Expiring, Popped, Active
      <3>3. AutoClearCount # 0
        BY <2>1, <2>2, <2>4, <3>1, <3>2 DEF Held
      <3> QED
        BY <2>3, <2>6, <3>3
    <2>7. ASSUME NEW d \in Callers, SendToQueue(d) \/ GetValue(d)
          PROVE  FALSE
      <3>1. /\ Held' = Held
            /\ d # c => pc'[c] = pc[c] /\ promise'[c] = promise[c]
            /\ pc'[d] # "idle" => pc[d] # "idle" /\ promise'[d] = promise[d]
        BY <2>7, CallerStep
      <3> QED
        BY <2>1, <2>2, <3>1
    <2>8. ASSUME NEW r \in Receivers, NEW k \in Keys, NEW response \in {k, Empty},
                 Return(r, k, response)
          PROVE  FALSE
      BY <2>1, <2>2, <2>8, ReturnStep DEF Return
    <2>9. ASSUME pc' = pc,
                 \E d \in Callers : /\ Held' = Held \ {d} /\ promise'[d] # None
                                    /\ \A e \in Callers : e # d => promise'[e] = promise[e]
          PROVE  FALSE
      BY <2>1, <2>2, <2>9
    <2>10. ASSUME NEW r \in Receivers, ReturnSetValue(r)
           PROVE  FALSE
      BY <2>9, <2>10, ReturnSetValueStep DEF ReturnSetValue
    <2>11. CASE RunSetValue
      BY <2>9, <2>11, RunSetValueStep DEF RunSetValue
    <2>12. CASE RunClearTimeout
      BY <2>1, <2>2, <2>12, RunClearStep DEF RunClearTimeout
    <2>13. CASE Second
      <3>1. Cached' = Cached
        BY <2>13, SecondStep
      <3>2. pc' = pc /\ promise' = promise /\ Expiring' = Expiring /\ Popped' = Popped
        BY <2>13 DEF Second, syncVars, Expiring, Popped, Active
      <3> QED
        BY <2>1, <2>2, <3>1, <3>2 DEF Held
    <2> HIDE DEF Cause
    <2> QED
      BY <2>5, <2>6, <2>7, <2>8, <2>10, <2>11, <2>12, <2>13 DEF Next
  <1> QED
    BY <1>2, SyncInvariance, PTL DEF Spec, OrphanOnlyByPurge
=============================================================================

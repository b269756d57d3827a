------------------------- MODULE BlockingQueueProofs -------------------------
(***************************************************************************)
(* For every set of threads, every bound and every set of calls: the deque *)
(* stays within its bound, no wake-up is lost, and the queue implements    *)
(* AtomicDeque.                                                            *)
(***************************************************************************)
EXTENDS BlockingQueue, TLAPS, FiniteSetTheorems, SequenceTheorems

\* What the record of a call holds.
LEMMA CallFields ==
    ASSUME NEW c \in Calls
    PROVE  /\ c # NoCall
           /\ c.op \in {"Push", "Pop", "PopAll", "Clear"}
           /\ c.op = "Push" => c.value \in Values
           /\ c.op \in {"Push", "Pop"} => c.at \in {"Front", "Back"}
           /\ c.op # "Clear" => c.mode \in Modes
  BY QueueAssumption DEF AllCalls, NoCall

\* blocking_queue.h: each operation that proceeds changes the length of the
\* deque by what its name says.
LEMMA EffectLength ==
    ASSUME m_queue \in Seq(Values), NEW c \in Calls, CanProceed(c)
    PROVE  /\ Effect(c) \in Seq(Values)
           /\ c.op = "Push" => Len(Effect(c)) = Len(m_queue) + 1
           /\ c.op = "Pop" => Len(m_queue) > 0 /\ Len(Effect(c)) = Len(m_queue) - 1
           /\ c.op \in {"PopAll", "Clear"} => Effect(c) = <<>>
  <1>1. CASE c.op = "Push"
    BY <1>1, CallFields DEF Effect
  <1>2. CASE c.op = "Pop"
    <2>1. m_queue # <<>>
      BY <1>2 DEF CanProceed
    <2>2. Len(m_queue) \in Nat /\ Len(m_queue) > 0
      BY <2>1
    <2>3. CASE c.at = "Front"
      BY <1>2, <2>1, <2>2, <2>3 DEF Effect
    <2>4. CASE c.at = "Back"
      <3> DEFINE n == Len(m_queue) - 1
                 q == SubSeq(m_queue, 1, n)
      <3>1. Effect(c) = q
        BY <1>2, <2>4 DEF Effect
      <3>2. n \in Nat /\ Len(m_queue) = n + 1 /\ \A i \in 1 .. n : m_queue[i] \in Values
        BY <2>2
      <3> HIDE DEF n
      <3>3. q \in Seq(Values) /\ Len(q) = IF 1 <= n THEN n - 1 + 1 ELSE 0
        BY <3>2, SubSeqProperties
      <3> HIDE DEF q
      <3> QED
        BY <1>2, <3>1, <3>2, <3>3
    <2> QED
      BY <1>2, <2>3, <2>4, CallFields
  <1>3. CASE c.op \in {"PopAll", "Clear"}
    BY <1>3 DEF Effect
  <1> QED
    BY <1>1, <1>2, <1>3, CallFields

-----------------------------------------------------------------------------
\* Sets of threads that only grow, gain a thread, or lose at most one.
LEMMA ThreadSets ==
    ASSUME NEW S \in SUBSET Threads, NEW T \in SUBSET Threads
    PROVE  /\ Cardinality(S) \in Nat /\ Cardinality(T) \in Nat
           /\ S \subseteq T => Cardinality(S) <= Cardinality(T)
           /\ \A x : x \in T /\ x \notin S /\ S \subseteq T => Cardinality(S) + 1 <= Cardinality(T)
           /\ \A x : S \ {x} \subseteq T => Cardinality(S) - 1 <= Cardinality(T)
  <1>1. IsFiniteSet(S) /\ IsFiniteSet(T)
    BY QueueAssumption, FS_Subset
  <1>2. Cardinality(S) \in Nat /\ Cardinality(T) \in Nat
    BY <1>1, FS_CardinalityType
  <1>3. ASSUME S \subseteq T
        PROVE  Cardinality(S) <= Cardinality(T)
    BY <1>1, <1>3, FS_Subset
  <1>4. ASSUME NEW x, x \in T, x \notin S, S \subseteq T
        PROVE  Cardinality(S) + 1 <= Cardinality(T)
    <2>1. Cardinality(S \cup {x}) = Cardinality(S) + 1
      BY <1>1, <1>4, FS_AddElement
    <2>2. S \cup {x} \subseteq T
      BY <1>4
    <2>3. Cardinality(S \cup {x}) <= Cardinality(T)
      BY <1>1, <2>2, FS_Subset
    <2> QED
      BY <2>1, <2>3
  <1>5. ASSUME NEW x, S \ {x} \subseteq T
        PROVE  Cardinality(S) - 1 <= Cardinality(T)
    <2>1. /\ IsFiniteSet(S \ {x})
          /\ Cardinality(S \ {x}) = Cardinality(S) \/ Cardinality(S \ {x}) = Cardinality(S) - 1
      BY <1>1, FS_RemoveElement
    <2>2. Cardinality(S \ {x}) <= Cardinality(T)
      BY <1>1, <1>5, FS_Subset
    <2> QED
      BY <1>2, <2>1, <2>2
  <1> QED
    BY <1>2, <1>3, <1>4, <1>5

-----------------------------------------------------------------------------
\* The inductive invariant.
IInv == TypeOK /\ Bounded /\ CallsInPlace /\ WakeupsOwed

\* A thread that has the mutex: it has just come in, or its wait has returned.
HasMutex(t, c) == pc[t] = "idle" \/ (pc[t] \in {"woken", "timedout"} /\ call[t] = c)

\* The accounting behind WakeupsOwed, for the consumers: the elements in the
\* deque stay covered by the consumers awake and the Signals to come, when
\* nothing is added, an element comes with its Signal, a consumer takes one, or
\* a Signal wakes a waiter w.
LEMMA NotEmptyStays ==
    ASSUME TypeOK, TypeOK', NotEmptyOwed, NEW t, NEW w,
           Waiters("not_empty")' \subseteq Waiters("not_empty"),
           \/ /\ Len(m_queue') <= Len(m_queue)
              /\ Awake("not_empty") \subseteq Awake("not_empty")'
              /\ PushSignals \subseteq PushSignals'
           \/ /\ Len(m_queue') = Len(m_queue) + 1
              /\ Awake("not_empty") \subseteq Awake("not_empty")'
              /\ PushSignals \subseteq PushSignals'
              /\ t \in PushSignals' /\ t \notin PushSignals
           \/ /\ Len(m_queue') = Len(m_queue) - 1
              /\ Awake("not_empty") \ {t} \subseteq Awake("not_empty")'
              /\ PushSignals \subseteq PushSignals'
           \/ /\ m_queue' = m_queue
              /\ Awake("not_empty") \subseteq Awake("not_empty")'
              /\ PushSignals \ {t} \subseteq PushSignals'
              /\ w \in Awake("not_empty")' /\ w \notin Awake("not_empty")
    PROVE  NotEmptyOwed'
  <1> DEFINE E == Awake("not_empty")  E2 == Awake("not_empty")'
             P == PushSignals         P2 == PushSignals'
             n == Len(m_queue)        n2 == Len(m_queue')
  <1>1. SUFFICES ASSUME Waiters("not_empty")' # {}
                 PROVE  n2 <= Cardinality(E2) + Cardinality(P2)
    BY DEF NotEmptyOwed
  <1>2. n <= Cardinality(E) + Cardinality(P)
    BY <1>1 DEF NotEmptyOwed
  <1>3. /\ E \in SUBSET Threads /\ E2 \in SUBSET Threads
        /\ P \in SUBSET Threads /\ P2 \in SUBSET Threads
    BY DEF Awake, PushSignals
  <1>4. n \in Int /\ n2 \in Int /\ (m_queue' = m_queue => n2 = n)
    BY DEF TypeOK
  <1> HIDE DEF E, E2, P, P2, n, n2
  <1>5. \/ n2 <= n /\ E \subseteq E2 /\ P \subseteq P2
        \/ n2 = n + 1 /\ E \subseteq E2 /\ P \subseteq P2 /\ t \in P2 /\ t \notin P
        \/ n2 = n - 1 /\ E \ {t} \subseteq E2 /\ P \subseteq P2
        \/ n2 = n /\ E \subseteq E2 /\ P \ {t} \subseteq P2 /\ w \in E2 /\ w \notin E
    BY <1>4 DEF E, E2, P, P2, n, n2
  <1>6. /\ Cardinality(E) \in Nat /\ Cardinality(E2) \in Nat
        /\ E \subseteq E2 => Cardinality(E) <= Cardinality(E2)
        /\ w \in E2 /\ w \notin E /\ E \subseteq E2 => Cardinality(E) + 1 <= Cardinality(E2)
        /\ E \ {t} \subseteq E2 => Cardinality(E) - 1 <= Cardinality(E2)
    BY <1>3, ThreadSets
  <1>7. /\ Cardinality(P) \in Nat /\ Cardinality(P2) \in Nat
        /\ P \subseteq P2 => Cardinality(P) <= Cardinality(P2)
        /\ t \in P2 /\ t \notin P /\ P \subseteq P2 => Cardinality(P) + 1 <= Cardinality(P2)
        /\ P \ {t} \subseteq P2 => Cardinality(P) - 1 <= Cardinality(P2)
    BY <1>3, ThreadSets
  <1> QED
    BY <1>2, <1>4, <1>5, <1>6, <1>7

\* The same for the producers and the free places, unless a Broadcast is due.
LEMMA NotFullStays ==
    ASSUME TypeOK, TypeOK', NotFullOwed, NEW t, NEW w,
           Waiters("not_full")' \subseteq Waiters("not_full"),
           PendingBroadcast => PendingBroadcast',
           \/ /\ m_queue' = m_queue
              /\ Awake("not_full") \subseteq Awake("not_full")'
              /\ PopSignals \subseteq PopSignals'
           \/ /\ Len(m_queue') = Len(m_queue) - 1
              /\ Awake("not_full") \subseteq Awake("not_full")'
              /\ PopSignals \subseteq PopSignals'
              /\ t \in PopSignals' /\ t \notin PopSignals
           \/ /\ Len(m_queue') = Len(m_queue) + 1
              /\ Awake("not_full") \ {t} \subseteq Awake("not_full")'
              /\ PopSignals \subseteq PopSignals'
           \/ /\ m_queue' = m_queue
              /\ Awake("not_full") \subseteq Awake("not_full")'
              /\ PopSignals \ {t} \subseteq PopSignals'
              /\ w \in Awake("not_full")' /\ w \notin Awake("not_full")
    PROVE  NotFullOwed'
  <1> DEFINE E == Awake("not_full")  E2 == Awake("not_full")'
             P == PopSignals         P2 == PopSignals'
             n == m_max_elements - Len(m_queue)
             n2 == m_max_elements - Len(m_queue')
  <1>1. SUFFICES ASSUME Waiters("not_full")' # {}, ~PendingBroadcast'
                 PROVE  n2 <= Cardinality(E2) + Cardinality(P2)
    BY DEF NotFullOwed
  <1>2. n <= Cardinality(E) + Cardinality(P)
    BY <1>1 DEF NotFullOwed
  <1>3. /\ E \in SUBSET Threads /\ E2 \in SUBSET Threads
        /\ P \in SUBSET Threads /\ P2 \in SUBSET Threads
    BY DEF Awake, PopSignals
  <1>4. n \in Int /\ n2 \in Int
    BY QueueAssumption DEF TypeOK
  <1>5. /\ m_queue' = m_queue => n2 = n
        /\ Len(m_queue') = Len(m_queue) - 1 => n2 = n + 1
        /\ Len(m_queue') = Len(m_queue) + 1 => n2 = n - 1
    BY QueueAssumption, SMTT(30) DEF TypeOK
  <1> HIDE DEF E, E2, P, P2, n, n2
  <1>6. \/ n2 = n /\ E \subseteq E2 /\ P \subseteq P2
        \/ n2 = n + 1 /\ E \subseteq E2 /\ P \subseteq P2 /\ t \in P2 /\ t \notin P
        \/ n2 = n - 1 /\ E \ {t} \subseteq E2 /\ P \subseteq P2
        \/ n2 = n /\ E \subseteq E2 /\ P \ {t} \subseteq P2 /\ w \in E2 /\ w \notin E
    BY <1>5 DEF E, E2, P, P2
  <1>7. /\ Cardinality(E) \in Nat /\ Cardinality(E2) \in Nat
        /\ E \subseteq E2 => Cardinality(E) <= Cardinality(E2)
        /\ w \in E2 /\ w \notin E /\ E \subseteq E2 => Cardinality(E) + 1 <= Cardinality(E2)
        /\ E \ {t} \subseteq E2 => Cardinality(E) - 1 <= Cardinality(E2)
    BY <1>3, ThreadSets
  <1>8. /\ Cardinality(P) \in Nat /\ Cardinality(P2) \in Nat
        /\ P \subseteq P2 => Cardinality(P) <= Cardinality(P2)
        /\ t \in P2 /\ t \notin P /\ P \subseteq P2 => Cardinality(P) + 1 <= Cardinality(P2)
        /\ P \ {t} \subseteq P2 => Cardinality(P) - 1 <= Cardinality(P2)
    BY <1>3, ThreadSets
  <1> QED
    BY <1>2, <1>4, <1>6, <1>7, <1>8

\* An empty deque owes its consumers nothing.
LEMMA EmptyOwesNothing ==
    ASSUME m_queue' = <<>>
    PROVE  NotEmptyOwed'
  <1>1. Awake("not_empty")' \in SUBSET Threads /\ PushSignals' \in SUBSET Threads
    BY DEF Awake, PushSignals
  <1>2. Cardinality(Awake("not_empty")') \in Nat /\ Cardinality(PushSignals') \in Nat
    BY <1>1, ThreadSets
  <1> QED
    BY <1>2 DEF NotEmptyOwed

\* A full deque owes its producers nothing.
LEMMA FullOwesNothing ==
    ASSUME TypeOK', Len(m_queue') >= m_max_elements
    PROVE  NotFullOwed'
  <1>1. Awake("not_full")' \in SUBSET Threads /\ PopSignals' \in SUBSET Threads
    BY DEF Awake, PopSignals
  <1>2. Cardinality(Awake("not_full")') \in Nat /\ Cardinality(PopSignals') \in Nat
    BY <1>1, ThreadSets
  <1>3. m_max_elements - Len(m_queue') <= 0 /\ m_max_elements - Len(m_queue') \in Int
    BY QueueAssumption DEF TypeOK
  <1> QED
    BY <1>2, <1>3 DEF NotFullOwed

\* What an operation other than Clear leaves behind: its own thread owes a
\* notification; the bulk pops that broadcast inside have woken the producers.
LEMMA ProceedThreads ==
    ASSUME TypeOK, NEW t \in Threads, NEW c \in Calls, Proceed(t, c), c.op # "Clear"
    PROVE  /\ call' = [call EXCEPT ![t] = c]
           /\ pc' \in [Threads -> PC]
           /\ pc'[t] = "notify"
           /\ ~TimedPopAll(c) => pc' = [pc EXCEPT ![t] = "notify"]
           /\ TimedPopAll(c) =>
                 \A u \in Threads \ {t} :
                     pc'[u] = IF u \in Waiters("not_full") THEN "woken" ELSE pc[u]
  <1>1. CASE TimedPopAll(c)
    <2>1. pc' = [Broadcast(pc, "not_full") EXCEPT ![t] = "notify"]
      BY <1>1 DEF Proceed
    <2> QED
      BY <1>1, <2>1 DEF Proceed, Broadcast, TypeOK, PC
  <1>2. CASE ~TimedPopAll(c)
    <2>1. pc' = [pc EXCEPT ![t] = "notify"]
      BY <1>2 DEF Proceed
    <2> QED
      BY <1>2, <2>1 DEF Proceed, TypeOK, PC
  <1> QED
    BY <1>1, <1>2

\* The body of an operation: an element goes in and a Signal is owed for it, or
\* elements go out and a Signal or a Broadcast is owed for their places.
LEMMA ProceedStep ==
    ASSUME IInv, NEW t \in Threads, NEW c \in Calls, HasMutex(t, c), Proceed(t, c)
    PROVE  IInv'
  <1> USE DEF IInv, HasMutex
  <1>1. m_queue' = Effect(c) /\ m_queue' \in Seq(Values) /\ CanProceed(c)
    BY EffectLength DEF Proceed, TypeOK
  <1>2. TypeOK' /\ CallsInPlace'
    <2>1. CASE c.op = "Clear"
      BY <1>1, <2>1 DEF TypeOK, CallsInPlace, Proceed, Broadcast, Waiters, PC
    <2>2. CASE c.op # "Clear"
      BY <1>1, <2>2, ProceedThreads DEF TypeOK, CallsInPlace, Waiters
    <2> QED
      BY <2>1, <2>2
  <1>3. Bounded'
    <2>1. Len(m_queue) \in Nat /\ Len(m_queue) <= m_max_elements /\ m_max_elements \in Nat
      BY QueueAssumption DEF TypeOK, Bounded
    <2>2. CASE c.op = "Push"
      BY <1>1, <2>1, <2>2, EffectLength DEF TypeOK, Bounded, CanProceed, UnlockedIsFull
    <2>3. CASE c.op = "Pop"
      BY <1>1, <2>1, <2>3, EffectLength DEF TypeOK, Bounded
    <2>4. CASE c.op \in {"PopAll", "Clear"}
      BY <1>1, <2>1, <2>4, EffectLength DEF TypeOK, Bounded
    <2> QED
      BY <2>2, <2>3, <2>4, CallFields
  <1>4. CASE c.op = "Push"
    <2>1. /\ Len(m_queue') = Len(m_queue) + 1 /\ Len(m_queue) \in Nat /\ m_max_elements \in Nat
          /\ ~TimedPopAll(c)
      BY <1>1, <1>4, EffectLength, QueueAssumption DEF TypeOK, TimedPopAll
    <2>2. pc' = [pc EXCEPT ![t] = "notify"] /\ call' = [call EXCEPT ![t] = c]
      BY <1>4, <2>1, ProceedThreads
    <2>3. NotEmptyOwed'
      <3>1. /\ Waiters("not_empty")' \subseteq Waiters("not_empty")
            /\ Awake("not_empty") \subseteq Awake("not_empty")'
            /\ PushSignals \subseteq PushSignals'
            /\ t \in PushSignals' /\ t \notin PushSignals
        BY <1>4, <2>2 DEF TypeOK, Waiters, Awake, PushSignals, CondOf
      <3> QED
        BY <1>2, <2>1, <3>1, NotEmptyStays DEF WakeupsOwed
    <2>4. NotFullOwed'
      <3>1. /\ Waiters("not_full")' \subseteq Waiters("not_full")
            /\ Awake("not_full") \ {t} \subseteq Awake("not_full")'
            /\ PopSignals \subseteq PopSignals'
            /\ PendingBroadcast => PendingBroadcast'
        BY <1>4, <2>2 DEF TypeOK, Waiters, Awake, PopSignals, PendingBroadcast, CondOf, TimedPopAll
      <3> QED
        BY <1>2, <2>1, <3>1, NotFullStays DEF WakeupsOwed
    <2> QED
      BY <1>2, <1>3, <2>3, <2>4 DEF WakeupsOwed
  <1>5. CASE c.op = "Pop"
    <2>1. Len(m_queue') = Len(m_queue) - 1 /\ ~TimedPopAll(c)
      BY <1>1, <1>5, EffectLength DEF TypeOK, TimedPopAll
    <2>2. pc' = [pc EXCEPT ![t] = "notify"] /\ call' = [call EXCEPT ![t] = c]
      BY <1>5, <2>1, ProceedThreads
    <2>3. NotEmptyOwed'
      <3>1. /\ Waiters("not_empty")' \subseteq Waiters("not_empty")
            /\ Awake("not_empty") \ {t} \subseteq Awake("not_empty")'
            /\ PushSignals \subseteq PushSignals'
        BY <1>5, <2>2 DEF TypeOK, Waiters, Awake, PushSignals, CondOf
      <3> QED
        BY <1>2, <2>1, <3>1, NotEmptyStays DEF WakeupsOwed
    <2>4. NotFullOwed'
      <3>1. /\ Waiters("not_full")' \subseteq Waiters("not_full")
            /\ Awake("not_full") \subseteq Awake("not_full")'
            /\ PopSignals \subseteq PopSignals'
            /\ t \in PopSignals' /\ t \notin PopSignals
            /\ PendingBroadcast => PendingBroadcast'
        BY <1>5, <2>2 DEF TypeOK, Waiters, Awake, PopSignals, PendingBroadcast, CondOf, TimedPopAll
      <3> QED
        BY <1>2, <2>1, <3>1, NotFullStays DEF WakeupsOwed
    <2> QED
      BY <1>2, <1>3, <2>3, <2>4 DEF WakeupsOwed
  <1>6. CASE c.op \in {"PopAll", "Clear"}
    <2>1. m_queue' = <<>>
      BY <1>1, <1>6, EffectLength DEF TypeOK
    <2>2. NotEmptyOwed'
      BY <2>1, EmptyOwesNothing
    <2>3. NotFullOwed'
      <3>1. CASE c.op = "Clear"
        BY <3>1 DEF Proceed, Broadcast, Waiters, NotFullOwed, TypeOK
      <3>2. CASE TimedPopAll(c)
        <4>1. Waiters("not_full")' = {}
          BY <3>2, ProceedThreads DEF Waiters, TimedPopAll, TypeOK
        <4> QED
          BY <4>1 DEF NotFullOwed
      <3>3. CASE c.op = "PopAll" /\ ~TimedPopAll(c)
        BY <3>3, ProceedThreads DEF NotFullOwed, PendingBroadcast, TimedPopAll, TypeOK
      <3> QED
        BY <1>6, <3>1, <3>2, <3>3
    <2> QED
      BY <1>2, <1>3, <2>2, <2>3 DEF WakeupsOwed
  <1> QED
    BY <1>4, <1>5, <1>6, CallFields

\* An operation that cannot proceed goes to sleep or gives up.  The deque is
\* then full or empty, and owes the condition it waits on nothing.
LEMMA BlockedStep ==
    ASSUME IInv, NEW t \in Threads, NEW c \in Calls, HasMutex(t, c),
           ~CanProceed(c), Wait(t, c) \/ GiveUp(t)
    PROVE  IInv'
  <1> USE DEF IInv, HasMutex
  <1>1. /\ m_queue' = m_queue
        /\ \/ pc' = [pc EXCEPT ![t] = "waiting"] /\ call' = [call EXCEPT ![t] = c]
           \/ pc' = [pc EXCEPT ![t] = "idle"] /\ call' = [call EXCEPT ![t] = NoCall]
    BY DEF Wait, GiveUp
  <1>2. c.op = "Push" \/ c.op \in {"Pop", "PopAll"}
    BY DEF CanProceed
  <1>3. TypeOK' /\ CallsInPlace' /\ Bounded'
    BY <1>1, <1>2 DEF TypeOK, CallsInPlace, Bounded, PC
  <1>4. CASE c.op = "Push"
    <2>1. NotFullOwed'
      BY <1>1, <1>3, <1>4, FullOwesNothing DEF CanProceed, UnlockedIsFull
    <2>2. /\ Waiters("not_empty")' \subseteq Waiters("not_empty")
          /\ Awake("not_empty") \subseteq Awake("not_empty")'
          /\ PushSignals \subseteq PushSignals'
      BY <1>1, <1>4 DEF TypeOK, Waiters, Awake, PushSignals, CondOf
    <2>3. Len(m_queue') <= Len(m_queue)
      BY <1>1 DEF TypeOK
    <2>4. NotEmptyOwed'
      BY <1>3, <2>2, <2>3, NotEmptyStays DEF WakeupsOwed
    <2> QED
      BY <1>3, <2>1, <2>4 DEF WakeupsOwed
  <1>5. CASE c.op \in {"Pop", "PopAll"}
    <2>1. NotEmptyOwed'
      BY <1>1, <1>5, EmptyOwesNothing DEF CanProceed
    <2>2. /\ Waiters("not_full")' \subseteq Waiters("not_full")
          /\ Awake("not_full") \subseteq Awake("not_full")'
          /\ PopSignals \subseteq PopSignals'
          /\ PendingBroadcast => PendingBroadcast'
      BY <1>1, <1>5 DEF TypeOK, Waiters, Awake, PopSignals, PendingBroadcast, CondOf, TimedPopAll
    <2>3. NotFullOwed'
      BY <1>1, <1>3, <2>2, NotFullStays DEF WakeupsOwed
    <2> QED
      BY <1>3, <2>1, <2>3 DEF WakeupsOwed
  <1> QED
    BY <1>2, <1>4, <1>5

\* A wait returns without a Signal.
LEMMA WakeStep ==
    ASSUME IInv, NEW t \in Threads, Timeout(t) \/ SpuriousWakeup(t)
    PROVE  IInv'
  <1> USE DEF IInv
  <1>1. /\ m_queue' = m_queue /\ call' = call /\ pc[t] = "waiting"
        /\ pc' = [pc EXCEPT ![t] = "timedout"] \/ pc' = [pc EXCEPT ![t] = "woken"]
    BY DEF Timeout, SpuriousWakeup
  <1>2. TypeOK' /\ CallsInPlace' /\ Bounded'
    BY <1>1 DEF TypeOK, CallsInPlace, Bounded, PC
  <1>3. /\ Waiters("not_empty")' \subseteq Waiters("not_empty")
        /\ Awake("not_empty") \subseteq Awake("not_empty")'
        /\ PushSignals \subseteq PushSignals'
    BY <1>1 DEF TypeOK, Waiters, Awake, PushSignals
  <1>4. /\ Waiters("not_full")' \subseteq Waiters("not_full")
        /\ Awake("not_full") \subseteq Awake("not_full")'
        /\ PopSignals \subseteq PopSignals'
        /\ PendingBroadcast => PendingBroadcast'
    BY <1>1 DEF TypeOK, Waiters, Awake, PopSignals, PendingBroadcast, TimedPopAll
  <1>5. Len(m_queue') <= Len(m_queue)
    BY <1>1 DEF TypeOK
  <1>6. NotEmptyOwed'
    BY <1>2, <1>3, <1>5, NotEmptyStays DEF WakeupsOwed
  <1>7. NotFullOwed'
    BY <1>1, <1>2, <1>4, NotFullStays DEF WakeupsOwed
  <1> QED
    BY <1>2, <1>6, <1>7 DEF WakeupsOwed

\* The Signal or Broadcast after the unlock: it wakes a waiter for the element
\* or the place it stands for, all of them, or there was none to wake.
LEMMA NotifyStep ==
    ASSUME IInv, NEW t \in Threads, Notify(t)
    PROVE  IInv'
  <1> USE DEF IInv
  <1>1. /\ m_queue' = m_queue /\ pc[t] = "notify"
        /\ call' = [call EXCEPT ![t] = NoCall]
        /\ Len(m_queue') <= Len(m_queue)
    BY DEF Notify, TypeOK
  <1>2. TypeOK' /\ CallsInPlace' /\ Bounded'
    <2>1. /\ pc' \in [Threads -> PC]
          /\ \A u \in Threads : pc'[u] # "idle" => u # t /\ pc[u] # "idle"
      <3>1. CASE \E cond : SignalOne(t, cond)
        BY <3>1 DEF SignalOne, Waiters, TypeOK, PC
      <3>2. CASE pc' = [Broadcast(pc, "not_full") EXCEPT ![t] = "idle"]
        BY <3>2 DEF Broadcast, Waiters, TypeOK, PC
      <3> QED
        BY <3>1, <3>2 DEF Notify
    <2> QED
      BY <1>1, <2>1 DEF TypeOK, CallsInPlace, Bounded
  <1>3. CASE call[t].op = "Push" /\ SignalOne(t, "not_empty")
    <2>1. NotFullOwed'
      <3>1. /\ Waiters("not_full")' \subseteq Waiters("not_full")
            /\ Awake("not_full") \subseteq Awake("not_full")'
            /\ PopSignals \subseteq PopSignals'
            /\ PendingBroadcast => PendingBroadcast'
        BY <1>1, <1>3
           DEF TypeOK, SignalOne, Waiters, Awake, PopSignals, PendingBroadcast, TimedPopAll
      <3> QED
        BY <1>1, <1>2, <3>1, NotFullStays DEF WakeupsOwed
    <2>2. NotEmptyOwed'
      <3>1. CASE Waiters("not_empty") = {} /\ pc' = [pc EXCEPT ![t] = "idle"]
        <4>1. Waiters("not_empty")' = {}
          BY <1>1, <3>1 DEF TypeOK, Waiters
        <4> QED
          BY <4>1 DEF NotEmptyOwed
      <3>2. ASSUME NEW w \in Waiters("not_empty"),
                   pc' = [pc EXCEPT ![t] = "idle", ![w] = "woken"]
            PROVE  NotEmptyOwed'
        <4>1. /\ Waiters("not_empty")' \subseteq Waiters("not_empty")
              /\ Awake("not_empty") \subseteq Awake("not_empty")'
              /\ PushSignals \ {t} \subseteq PushSignals'
              /\ w \in Awake("not_empty")' /\ w \notin Awake("not_empty")
          BY <1>1, <3>2 DEF TypeOK, Waiters, Awake, PushSignals
        <4> QED
          BY <1>1, <1>2, <4>1, NotEmptyStays DEF WakeupsOwed
      <3> QED
        BY <1>3, <3>1, <3>2 DEF SignalOne
    <2> QED
      BY <1>2, <2>1, <2>2 DEF WakeupsOwed
  <1>4. CASE (call[t].op = "Pop" \/ TimedPopAll(call[t])) /\ SignalOne(t, "not_full")
    <2>1. NotEmptyOwed'
      <3>1. /\ Waiters("not_empty")' \subseteq Waiters("not_empty")
            /\ Awake("not_empty") \subseteq Awake("not_empty")'
            /\ PushSignals \subseteq PushSignals'
        BY <1>1, <1>4 DEF TypeOK, SignalOne, Waiters, Awake, PushSignals, TimedPopAll
      <3> QED
        BY <1>1, <1>2, <3>1, NotEmptyStays DEF WakeupsOwed
    <2>2. NotFullOwed'
      <3>1. CASE Waiters("not_full") = {} /\ pc' = [pc EXCEPT ![t] = "idle"]
        <4>1. Waiters("not_full")' = {}
          BY <1>1, <3>1 DEF TypeOK, Waiters
        <4> QED
          BY <4>1 DEF NotFullOwed
      <3>2. ASSUME NEW w \in Waiters("not_full"),
                   pc' = [pc EXCEPT ![t] = "idle", ![w] = "woken"]
            PROVE  NotFullOwed'
        <4>1. /\ Waiters("not_full")' \subseteq Waiters("not_full")
              /\ Awake("not_full") \subseteq Awake("not_full")'
              /\ PopSignals \ {t} \subseteq PopSignals'
              /\ w \in Awake("not_full")' /\ w \notin Awake("not_full")
          BY <1>1, <3>2 DEF TypeOK, Waiters, Awake, PopSignals
        <4>2. PendingBroadcast => PendingBroadcast'
          BY <1>1, <1>4, <3>2 DEF TypeOK, Waiters, PendingBroadcast, TimedPopAll
        <4> QED
          BY <1>1, <1>2, <4>1, <4>2, NotFullStays DEF WakeupsOwed
      <3> QED
        BY <1>4, <3>1, <3>2 DEF SignalOne
    <2> QED
      BY <1>2, <2>1, <2>2 DEF WakeupsOwed
  <1>5. CASE /\ call[t].op = "PopAll"
             /\ pc' = [Broadcast(pc, "not_full") EXCEPT ![t] = "idle"]
    <2>1. NotEmptyOwed'
      <3>1. /\ Waiters("not_empty")' \subseteq Waiters("not_empty")
            /\ Awake("not_empty") \subseteq Awake("not_empty")'
            /\ PushSignals \subseteq PushSignals'
        BY <1>1, <1>5 DEF TypeOK, Broadcast, Waiters, Awake, PushSignals
      <3> QED
        BY <1>1, <1>2, <3>1, NotEmptyStays DEF WakeupsOwed
    <2>2. Waiters("not_full")' = {}
      BY <1>1, <1>5 DEF TypeOK, Broadcast, Waiters
    <2> QED
      BY <1>2, <2>1, <2>2 DEF WakeupsOwed, NotFullOwed
  <1> QED
    BY <1>3, <1>4, <1>5 DEF Notify

-----------------------------------------------------------------------------
\* Every step of every operation keeps the inductive invariant.
THEOREM Invariance == Spec => []IInv
  <1>1. Init => IInv
    <2> SUFFICES ASSUME Init PROVE IInv
      OBVIOUS
    <2>1. TypeOK /\ Bounded /\ CallsInPlace
      BY QueueAssumption DEF Init, TypeOK, Bounded, CallsInPlace, PC
    <2>2. Waiters("not_empty") = {} /\ Waiters("not_full") = {}
      BY DEF Init, Waiters
    <2> QED
      BY <2>1, <2>2 DEF IInv, WakeupsOwed, NotEmptyOwed, NotFullOwed
  <1>2. IInv /\ [Next]_vars => IInv'
    <2> SUFFICES ASSUME IInv, [Next]_vars PROVE IInv'
      OBVIOUS
    <2>1. ASSUME NEW t \in Threads, NEW c \in Calls, Enter(t, c)
          PROVE  IInv'
      BY <2>1, ProceedStep, BlockedStep DEF Enter, HasMutex
    <2>2. ASSUME NEW t \in Threads, Resume(t)
          PROVE  IInv'
      <3>1. call[t] \in Calls
        BY <2>2 DEF Resume, IInv, CallsInPlace
      <3> QED
        BY <2>2, <3>1, ProceedStep, BlockedStep DEF Resume, HasMutex
    <2>3. CASE UNCHANGED vars
      BY <2>3 DEF vars, IInv, TypeOK, Bounded, CallsInPlace, WakeupsOwed, NotEmptyOwed,
                  NotFullOwed, Waiters, Awake, PushSignals, PopSignals, PendingBroadcast
    <2> QED
      BY <2>1, <2>2, <2>3, NotifyStep, WakeStep DEF Next
  <1> QED
    BY <1>1, <1>2, PTL DEF Spec

\* The variables keep their types.
THEOREM TypeCorrect == Spec => []TypeOK
  BY Invariance, PTL DEF IInv

\* blocking_queue.h:355: the deque never outgrows m_max_elements.
THEOREM BoundedCorrect == Spec => []Bounded
  BY Invariance, PTL DEF IInv

\* blocking_queue.h:68, :100: every element beside a sleeping consumer, and every
\* place beside a sleeping producer, has its own wake-up on the way.
THEOREM WakeupsOwedCorrect == Spec => []WakeupsOwed
  BY Invariance, PTL DEF IInv

\* blocking_queue.h: no wake-up is lost, for any number of threads, any bound
\* and any mix of the operations, although every Signal comes after the unlock.
THEOREM NoLostWakeupCorrect == Spec => []NoLostWakeup
  <1>1. IInv => NoLostWakeup
    <2> SUFFICES ASSUME IInv PROVE NoLostWakeup
      OBVIOUS
    <2>1. Len(m_queue) \in Nat /\ (m_queue # <<>> => Len(m_queue) > 0) /\ m_max_elements \in Nat
      BY QueueAssumption DEF IInv, TypeOK
    <2>2. Cardinality({}) = 0
      BY FS_EmptySet
    <2>3. ASSUME Waiters("not_empty") # {}, m_queue # <<>>,
                 Awake("not_empty") = {}, PushSignals = {}
          PROVE  FALSE
      <3>1. Cardinality(Awake("not_empty")) = 0 /\ Cardinality(PushSignals) = 0
        BY <2>2, <2>3
      <3>2. Len(m_queue) <= Cardinality(Awake("not_empty")) + Cardinality(PushSignals)
        BY <2>3 DEF IInv, WakeupsOwed, NotEmptyOwed
      <3> QED
        BY <2>1, <2>3, <3>1, <3>2
    <2>4. ASSUME Waiters("not_full") # {}, Len(m_queue) < m_max_elements,
                 Awake("not_full") = {}, PopSignals = {}, ~PendingBroadcast
          PROVE  FALSE
      <3>1. Cardinality(Awake("not_full")) = 0 /\ Cardinality(PopSignals) = 0
        BY <2>2, <2>4
      <3>2. m_max_elements - Len(m_queue)
              <= Cardinality(Awake("not_full")) + Cardinality(PopSignals)
        BY <2>4 DEF IInv, WakeupsOwed, NotFullOwed
      <3> QED
        BY <2>1, <2>4, <3>1, <3>2
    <2> QED
      BY <2>3, <2>4 DEF NoLostWakeup
  <1> QED
    BY <1>1, Invariance, PTL

-----------------------------------------------------------------------------
\* A thread outside the queue is in no call.
IdleOutside == \A t \in Threads : pc[t] = "idle" => call[t] = NoCall

\* blocking_queue.h:55-340: whichever way an operation ends (Signal, Broadcast
\* or giving up), its thread leaves the call behind with it.
LEMMA IdleOutsideCorrect == Spec => []IdleOutside
  <1>1. Init => IdleOutside
    BY DEF Init, IdleOutside
  <1>2. IInv /\ IdleOutside /\ [Next]_vars => IdleOutside'
    <2> SUFFICES ASSUME IInv, IdleOutside, [Next]_vars PROVE IdleOutside'
      OBVIOUS
    <2> USE DEF IInv, TypeOK, IdleOutside
    <2>1. ASSUME NEW t \in Threads, NEW c \in Calls, Proceed(t, c)
          PROVE  IdleOutside'
      <3>1. CASE c.op = "Clear"
        BY <2>1, <3>1 DEF Proceed, Broadcast
      <3>2. CASE c.op # "Clear"
        BY <2>1, <3>2 DEF Proceed, Broadcast
      <3> QED
        BY <3>1, <3>2
    <2>2. ASSUME NEW t \in Threads, NEW c, Wait(t, c) \/ GiveUp(t)
          PROVE  IdleOutside'
      BY <2>2 DEF Wait, GiveUp
    <2>3. ASSUME NEW t \in Threads, Resume(t)
          PROVE  IdleOutside'
      <3>1. call[t] \in Calls
        BY <2>3 DEF Resume, CallsInPlace
      <3> QED
        BY <2>1, <2>2, <2>3, <3>1 DEF Resume
    <2>4. ASSUME NEW t \in Threads, Notify(t)
          PROVE  IdleOutside'
      <3>1. CASE \E cond : SignalOne(t, cond)
        BY <2>4, <3>1 DEF Notify, SignalOne, Waiters
      <3>2. CASE pc' = [Broadcast(pc, "not_full") EXCEPT ![t] = "idle"]
        BY <2>4, <3>2 DEF Notify, Broadcast
      <3> QED
        BY <2>4, <3>1, <3>2 DEF Notify
    <2>5. ASSUME NEW t \in Threads, Timeout(t) \/ SpuriousWakeup(t)
          PROVE  IdleOutside'
      BY <2>5 DEF Timeout, SpuriousWakeup
    <2>6. CASE UNCHANGED vars
      BY <2>6 DEF vars
    <2>7. ASSUME NEW t \in Threads, NEW c \in Calls, Enter(t, c)
          PROVE  IdleOutside'
      BY <2>7, <2>1, <2>2 DEF Enter
    <2> QED
      BY <2>3, <2>4, <2>5, <2>6, <2>7 DEF Next
  <1> QED
    BY <1>1, <1>2, Invariance, PTL DEF Spec

\* What an operation does to the deque is what the atomic deque says it does,
\* and it proceeds only when the atomic deque lets it.
LEMMA EffectIsResult ==
    ASSUME m_queue \in Seq(Values), NEW c \in Calls, CanProceed(c), m_queue' = Effect(c)
    PROVE  AD!Ready(c) /\ AD!Result(c, m_queue, m_queue')
  <1>1. Len(m_queue) \in Nat /\ m_max_elements \in Nat
    BY QueueAssumption
  <1>2. CASE c.op = "Push"
    <2>1. AD!Ready(c)
      BY <1>1, <1>2 DEF AD!Ready, CanProceed, UnlockedIsFull
    <2>2. Append(m_queue, c.value) = m_queue \o <<c.value>>
      BY <1>2, CallFields, AppendIsConcat
    <2>3. AD!Result(c, m_queue, m_queue')
      BY <1>2, <2>2, CallFields DEF AD!Result, Effect
    <2> QED
      BY <2>1, <2>3
  <1>3. CASE c.op = "Pop"
    <2>1. m_queue # <<>>
      BY <1>3 DEF CanProceed
    <2>2. AD!Ready(c)
      BY <1>1, <1>3, <2>1 DEF AD!Ready
    <2>3. Tail(m_queue) = SubSeq(m_queue, 2, Len(m_queue))
      BY <2>1, TailIsSubSeq
    <2>4. AD!Result(c, m_queue, m_queue')
      BY <1>3, <2>3, CallFields DEF AD!Result, Effect
    <2> QED
      BY <2>2, <2>4
  <1>4. CASE c.op = "PopAll"
    <2>1. m_queue # <<>>
      BY <1>4 DEF CanProceed
    <2> QED
      BY <1>1, <1>4, <2>1 DEF AD!Ready, AD!Result, Effect
  <1>5. CASE c.op = "Clear"
    BY <1>5 DEF AD!Ready, AD!Result, Effect
  <1> QED
    BY <1>2, <1>3, <1>4, <1>5, CallFields

\* Each step of the queue is a step of the atomic deque, or one it does not see:
\* the critical section that proceeds is where the call takes effect; falling
\* asleep begins the call; Signal and Broadcast end it; being woken, waking for
\* nothing and sleeping again are invisible.
LEMMA QueueStepIsDequeStep ==
    ASSUME IInv, IInv', IdleOutside, [Next]_vars
    PROVE  [AD!Next]_(AD!dequeVars)
  <1> DEFINE eff == [t \in Threads |-> pc[t] = "notify"]
             eff2 == [t \in Threads |-> pc'[t] = "notify"]
  <1> USE DEF IInv, TypeOK
  <1>1. ASSUME NEW t \in Threads, NEW c \in Calls, HasMutex(t, c), Proceed(t, c)
        PROVE  AD!Next
    <2>1. AD!Ready(c) /\ AD!Result(c, m_queue, m_queue')
      BY <1>1, EffectIsResult DEF Proceed
    <2>2. CASE c.op = "Clear"
      <3>1. call[t] = NoCall
        BY <1>1, <2>2 DEF HasMutex, IdleOutside, CallsInPlace
      <3>2. m_queue' = <<>> /\ call' = call /\ pc' = Broadcast(pc, "not_full")
        BY <1>1, <2>2 DEF Proceed, Effect
      <3>3. eff2 = eff
        BY <3>2 DEF Broadcast, Waiters
      <3>4. AD!Clear(t)
        BY <3>1, <3>2, <3>3 DEF AD!Clear
      <3> QED
        BY <3>4 DEF AD!Next
    <2>3. CASE c.op # "Clear"
      <3>1. call[t] \in {NoCall, c} /\ pc[t] # "notify"
        BY <1>1 DEF HasMutex, IdleOutside
      <3>2. /\ call' = [call EXCEPT ![t] = c]
            /\ \A u \in Threads : pc'[u] = "notify" <=> (u = t \/ pc[u] = "notify")
        BY <1>1, <2>3 DEF Proceed, Broadcast, Waiters
      <3>3. eff2 = [eff EXCEPT ![t] = TRUE]
        BY <3>2
      <3>4. AD!Perform(t, c)
        BY <2>1, <3>1, <3>2, <3>3 DEF AD!Perform
      <3> QED
        BY <3>4 DEF AD!Next
    <2> QED
      BY <2>2, <2>3
  <1>2. ASSUME NEW t \in Threads, NEW c \in Calls, pc[t] = "idle", Wait(t, c)
        PROVE  AD!Next
    <2>1. call[t] = NoCall /\ eff2 = eff
      BY <1>2 DEF IdleOutside, Wait
    <2>2. AD!Invoke(t, c)
      BY <1>2, <2>1 DEF AD!Invoke, Wait
    <2> QED
      BY <2>2 DEF AD!Next
  <1>3. ASSUME m_queue' = m_queue, call' = call, eff2 = eff
        PROVE  UNCHANGED AD!dequeVars
    BY <1>3 DEF AD!dequeVars
  <1>4. ASSUME NEW t \in Threads, NEW c \in Calls, Enter(t, c)
        PROVE  [AD!Next]_(AD!dequeVars)
    <2>1. CASE GiveUp(t)
      BY <1>3, <1>4, <2>1 DEF GiveUp, Enter, IdleOutside
    <2> QED
      BY <1>1, <1>2, <1>4, <2>1 DEF Enter, HasMutex
  <1>5. ASSUME NEW t \in Threads, Resume(t)
        PROVE  [AD!Next]_(AD!dequeVars)
    <2>1. call[t] \in Calls /\ call[t] # NoCall
      BY <1>5, CallFields DEF Resume, CallsInPlace
    <2>2. CASE Wait(t, call[t])
      BY <1>3, <1>5, <2>2 DEF Wait, Resume
    <2>3. CASE call[t].mode # "Block" /\ GiveUp(t)
      <3>1. eff2 = eff
        BY <1>5, <2>3 DEF GiveUp, Resume
      <3>2. AD!Fail(t)
        BY <1>5, <2>1, <2>3, <3>1 DEF AD!Fail, GiveUp, Resume
      <3> QED
        BY <3>2 DEF AD!Next
    <2> QED
      BY <1>1, <1>5, <2>1, <2>2, <2>3 DEF Resume, HasMutex
  <1>6. ASSUME NEW t \in Threads, Notify(t)
        PROVE  AD!Next
    <2>1. pc[t] = "notify" /\ m_queue' = m_queue /\ call' = [call EXCEPT ![t] = NoCall]
      BY <1>6 DEF Notify
    <2>2. \A u \in Threads : pc'[u] = "notify" <=> (u # t /\ pc[u] = "notify")
      <3>1. CASE \E cond : SignalOne(t, cond)
        BY <2>1, <3>1 DEF SignalOne, Waiters
      <3>2. CASE pc' = [Broadcast(pc, "not_full") EXCEPT ![t] = "idle"]
        BY <2>1, <3>2 DEF Broadcast, Waiters
      <3> QED
        BY <1>6, <3>1, <3>2 DEF Notify
    <2>3. eff2 = [eff EXCEPT ![t] = FALSE]
      BY <2>2
    <2>4. AD!Succeed(t)
      BY <2>1, <2>3 DEF AD!Succeed
    <2> QED
      BY <2>4 DEF AD!Next
  <1>7. ASSUME NEW t \in Threads, Timeout(t) \/ SpuriousWakeup(t)
        PROVE  [AD!Next]_(AD!dequeVars)
    BY <1>3, <1>7 DEF Timeout, SpuriousWakeup
  <1>8. CASE UNCHANGED vars
    BY <1>3, <1>8 DEF vars
  <1> QED
    BY <1>4, <1>5, <1>6, <1>7, <1>8 DEF Next

\* blocking_queue.h:55-340: for every number of threads, every bound and every
\* set of calls the queue implements the atomic bounded deque.
THEOREM RefinesDeque == Spec => ImplementsDeque
  <1>1. Init => AD!Init
    BY DEF Init, AD!Init
  <1>2. IInv /\ IInv' /\ IdleOutside /\ [Next]_vars => [AD!Next]_(AD!dequeVars)
    BY QueueStepIsDequeStep
  <1> QED
    BY <1>1, <1>2, Invariance, IdleOutsideCorrect, PTL DEF Spec, AD!Spec, ImplementsDeque
=============================================================================

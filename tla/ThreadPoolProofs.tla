-------------------------- MODULE ThreadPoolProofs ---------------------------
(***************************************************************************)
(* For every number of threads and tasks: no task runs twice, and a        *)
(* Terminate that waits joins its threads only when everything it found    *)
(* pending or running has run.                                             *)
(***************************************************************************)
EXTENDS ThreadPool, TLAPS, FiniteSetTheorems, SequenceTheorems

\* A worker has a task exactly while it runs it.
TasksInPlace == \A w \in Workers : task[w] # NoTask <=> pc[w] = "run"

\* No task is queued twice.
Distinct == \A i, j \in DOMAIN m_pending_queue :
                m_pending_queue[i] = m_pending_queue[j] => i = j

\* A task is queued once, or run by one worker, or has run, and only if it has
\* been accepted: AtMostOnce without its counting.
OnePlace ==
    /\ Distinct
    /\ \A w, v \in Workers : task[w] = task[v] /\ task[w] # NoTask => w = v
    /\ Running \cap Queued = {}
    /\ Running \cup Queued \subseteq accepted
    /\ \A t \in Tasks : /\ t \in Running \cup Queued => ran[t] = 0
                        /\ ran[t] # 0 => ran[t] = 1 /\ t \in accepted

Terminating == owner \in {"flag_exit", "flag_waiting", "join", "clear"}

\* Where the workers can be at each stage of the owner, and which of them have
\* lost their m_waiting.
Stages ==
    /\ owner \in {"new", "clear"} => \A w \in Workers : pc[w] = "none"
    /\ owner = "up" => \A w \in Workers : ~m_exit[w] /\ pc[w] \in {"loop", "pop", "run"}
    /\ owner \in {"flag_exit", "flag_waiting"} => \A w \in Workers : pc[w] # "none"
    /\ owner = "join" => \A w \in Workers : pc[w] = "none" <=> w \notin todo
    /\ owner # "new" => \A w \in Workers : m_waiting[w] \/ (Terminating /\ ~waiting)

\* What Terminate found stays queued, running or done until it has joined.
OwedKept == Terminating => /\ owed \subseteq accepted /\ owed \subseteq Tasks
                           /\ \A t \in owed : t \in Queued \cup Running \/ ran[t] = 1

\* thread_pool.cpp:78: a thread leaves a waiting Terminate only after it has
\* seen the queue empty, and what is queued later is not owed.
LeftWhenEmpty ==
    Terminating /\ waiting /\ (\E w \in Workers : pc[w] \in {"exited", "none"})
        => owed \cap Queued = {}

\* The inductive invariant.
IInv == TypeOK /\ TasksInPlace /\ OnePlace /\ Stages /\ OwedKept /\ LeftWhenEmpty

-----------------------------------------------------------------------------
\* TimedPopFront removes the first task from the queue and no other.
LEMMA PopTask ==
    ASSUME m_pending_queue \in Seq(Tasks), Distinct, m_pending_queue # <<>>,
           m_pending_queue' = Tail(m_pending_queue)
    PROVE  /\ Head(m_pending_queue) \in Queued /\ Head(m_pending_queue) \in Tasks
           /\ m_pending_queue' \in Seq(Tasks)
           /\ Queued' = Queued \ {Head(m_pending_queue)}
           /\ Distinct'
  <1> DEFINE q == m_pending_queue
             n == Len(q)
  <1>1. n \in Nat /\ n > 0 /\ DOMAIN q = 1 .. n
    BY LenProperties, EmptySeq
  <1>2. /\ q' \in Seq(Tasks) /\ Len(q') = n - 1 /\ Head(q) \in Tasks
        /\ \A i \in 1 .. Len(q') : q'[i] = q[i + 1]
    BY HeadTailProperties
  <1>3. DOMAIN q' = 1 .. (n - 1)
    BY <1>2, LenProperties
  <1>4. Head(q) = q[1]
    OBVIOUS
  <1> HIDE DEF n
  <1>5. Distinct'
    <2> SUFFICES ASSUME NEW i \in 1 .. (n - 1), NEW j \in 1 .. (n - 1), q'[i] = q'[j]
                 PROVE  i = j
      BY <1>3 DEF Distinct
    <2>1. q[i + 1] = q[j + 1] /\ i + 1 \in 1 .. n /\ j + 1 \in 1 .. n
      BY <1>1, <1>2
    <2>2. i + 1 = j + 1
      BY <1>1, <2>1 DEF Distinct
    <2> QED
      BY <2>2
  <1>6. Queued' = Queued \ {Head(q)}
    <2>1. ASSUME NEW i \in 1 .. (n - 1)
          PROVE  q'[i] \in Queued \ {Head(q)}
      <3>1. i + 1 \in 1 .. n /\ i + 1 # 1 /\ 1 \in 1 .. n /\ q'[i] = q[i + 1]
        BY <1>1, <1>2
      <3>2. q[i + 1] # q[1]
        BY <1>1, <3>1 DEF Distinct
      <3> QED
        BY <1>1, <1>4, <3>1, <3>2 DEF Queued
    <2>2. ASSUME NEW i \in 1 .. n, q[i] # q[1]
          PROVE  q[i] \in Queued'
      <3>1. i - 1 \in 1 .. (n - 1) /\ q'[i - 1] = q[i - 1 + 1] /\ i - 1 + 1 = i
        BY <1>1, <1>2, <2>2
      <3> QED
        BY <1>3, <3>1 DEF Queued
    <2> QED
      BY <1>1, <1>3, <1>4, <2>1, <2>2 DEF Queued
  <1>7. Head(q) \in Queued
    BY <1>1, <1>4 DEF Queued
  <1> QED
    BY <1>2, <1>5, <1>6, <1>7

\* AddTask adds its task and no other.
LEMMA PushTask ==
    ASSUME m_pending_queue \in Seq(Tasks), Distinct, NEW t \in Tasks, t \notin Queued,
           m_pending_queue' = Append(m_pending_queue, t)
    PROVE  /\ m_pending_queue' \in Seq(Tasks)
           /\ Queued' = Queued \cup {t}
           /\ Distinct'
  <1> DEFINE q == m_pending_queue
             n == Len(q)
  <1>1. n \in Nat /\ DOMAIN q = 1 .. n
    BY LenProperties
  <1>2. /\ q' \in Seq(Tasks) /\ Len(q') = n + 1
        /\ \A i \in 1 .. n : q'[i] = q[i]
        /\ q'[n + 1] = t
    BY AppendProperties
  <1>3. DOMAIN q' = 1 .. (n + 1)
    BY <1>2, LenProperties
  <1> HIDE DEF n
  <1>4. /\ \A i \in 1 .. (n + 1) : i \in 1 .. n \/ i = n + 1
        /\ \A i \in 1 .. n : i \in 1 .. (n + 1)
        /\ n + 1 \in 1 .. (n + 1)
    BY <1>1
  <1>5. Queued' = Queued \cup {t}
    BY <1>1, <1>2, <1>3, <1>4 DEF Queued
  <1>6. Distinct'
    BY <1>1, <1>2, <1>3, <1>4 DEF Distinct, Queued
  <1> QED
    BY <1>2, <1>5, <1>6

-----------------------------------------------------------------------------
\* AddTask, at any stage: the task is new, so nobody owes it.
LEMMA AddTaskStep ==
    ASSUME IInv, NEW t \in Tasks, AddTask(t)
    PROVE  IInv'
  <1> USE DEF IInv
  <1>1. /\ t \notin accepted /\ accepted' = accepted \cup {t}
        /\ m_pending_queue' = Append(m_pending_queue, t)
        /\ m_finished_queue' = m_finished_queue /\ m_exit' = m_exit /\ m_waiting' = m_waiting
        /\ pc' = pc /\ task' = task /\ owner' = owner /\ waiting' = waiting /\ todo' = todo
        /\ owed' = owed /\ ran' = ran
    BY DEF AddTask, workerVars, ownerVars
  <1>2. t \notin Queued /\ t \notin Running /\ ran[t] = 0
    BY <1>1 DEF OnePlace
  <1>3. m_pending_queue' \in Seq(Tasks) /\ Queued' = Queued \cup {t} /\ Distinct'
    BY <1>1, <1>2, PushTask DEF TypeOK, OnePlace
  <1>4. TypeOK' /\ TasksInPlace' /\ Stages'
    BY <1>1, <1>3 DEF TypeOK, TasksInPlace, Stages, Terminating
  <1>5. Running' = Running /\ (Terminating' <=> Terminating)
    BY <1>1 DEF Running, Terminating
  <1>6. OnePlace'
    BY <1>1, <1>2, <1>3, <1>5 DEF OnePlace
  <1>7. OwedKept' /\ LeftWhenEmpty'
    BY <1>1, <1>3, <1>5 DEF OwedKept, LeftWhenEmpty
  <1> QED
    BY <1>4, <1>6, <1>7

\* thread_pool.cpp:78-90: a worker takes a task.
LEMMA PopStep ==
    ASSUME IInv, NEW w \in Workers, Pop(w)
    PROVE  IInv'
  <1> USE DEF IInv
  <1>1. /\ pc[w] = "pop" /\ accepted' = accepted
        /\ m_finished_queue' = m_finished_queue /\ m_exit' = m_exit /\ m_waiting' = m_waiting
        /\ owner' = owner /\ waiting' = waiting /\ todo' = todo
        /\ owed' = owed /\ ran' = ran /\ (Terminating' <=> Terminating)
    BY DEF Pop, workerVars, ownerVars, Terminating
  <1>2. CASE /\ m_pending_queue = <<>> /\ pc' = [pc EXCEPT ![w] = "loop"]
             /\ task' = task /\ m_pending_queue' = m_pending_queue
    <2>1. Queued' = Queued /\ Running' = Running /\ (Distinct' <=> Distinct)
      BY <1>2 DEF Queued, Running, Distinct
    <2>2. TypeOK' /\ TasksInPlace' /\ Stages'
      BY <1>1, <1>2 DEF TypeOK, TasksInPlace, Stages
    <2>3. OnePlace'
      BY <1>1, <1>2, <2>1 DEF OnePlace
    <2>4. OwedKept' /\ LeftWhenEmpty'
      BY <1>1, <1>2, <2>1 DEF OwedKept, LeftWhenEmpty, TypeOK
    <2> QED
      BY <2>2, <2>3, <2>4
  <1>3. CASE /\ m_pending_queue # <<>> /\ pc' = [pc EXCEPT ![w] = "run"]
             /\ task' = [task EXCEPT ![w] = Head(m_pending_queue)]
             /\ m_pending_queue' = Tail(m_pending_queue)
    <2> DEFINE t == Head(m_pending_queue)
    <2>1. /\ t \in Queued /\ t \in Tasks /\ m_pending_queue' \in Seq(Tasks)
          /\ Queued' = Queued \ {t} /\ Distinct'
      BY <1>3, PopTask DEF TypeOK, OnePlace
    <2>2. task' = [task EXCEPT ![w] = t]
      BY <1>3
    <2> HIDE DEF t
    <2>3. task[w] = NoTask /\ t # NoTask
      BY <1>1, <2>1, PoolAssumption DEF TasksInPlace
    <2>4. Running' = Running \cup {t} /\ t \notin Running
      BY <2>1, <2>2, <2>3 DEF Running, OnePlace, TypeOK
    <2>5. TypeOK' /\ TasksInPlace' /\ Stages'
      BY <1>1, <1>3, <2>1, <2>2, <2>3 DEF TypeOK, TasksInPlace, Stages
    <2>6. \A v, u \in Workers : task'[v] = task'[u] /\ task'[v] # NoTask => v = u
      BY <2>2, <2>4 DEF OnePlace, TypeOK, Running
    <2>7. OnePlace'
      BY <1>1, <2>1, <2>4, <2>6 DEF OnePlace
    <2>8. OwedKept' /\ LeftWhenEmpty'
      BY <1>1, <1>3, <2>1, <2>4 DEF OwedKept, LeftWhenEmpty, TypeOK
    <2> QED
      BY <2>5, <2>7, <2>8
  <1> QED
    BY <1>2, <1>3 DEF Pop

\* thread_pool.cpp:90-95: a worker runs its task.
LEMMA RunTaskStep ==
    ASSUME IInv, NEW w \in Workers, RunTask(w)
    PROVE  IInv'
  <1> DEFINE t == task[w]
  <1> USE DEF IInv
  <1>1. /\ pc[w] = "run" /\ pc' = [pc EXCEPT ![w] = "loop"]
        /\ ran' = [ran EXCEPT ![t] = @ + 1] /\ task' = [task EXCEPT ![w] = NoTask]
        /\ m_finished_queue' = Append(m_finished_queue, t)
        /\ m_pending_queue' = m_pending_queue /\ m_exit' = m_exit /\ m_waiting' = m_waiting
        /\ owner' = owner /\ waiting' = waiting /\ todo' = todo /\ owed' = owed
        /\ accepted' = accepted /\ (Terminating' <=> Terminating)
    BY DEF RunTask, ownerVars, Terminating
  <1>2. t \in Tasks /\ t \in Running
    BY <1>1, PoolAssumption DEF TasksInPlace, Running, TypeOK
  <1>3. ran[t] = 0 /\ t \in accepted /\ t \notin Queued
    BY <1>2 DEF OnePlace
  <1>4. Running' = Running \ {t} /\ Queued' = Queued /\ (Distinct' <=> Distinct)
    BY <1>1, <1>2 DEF Running, Queued, Distinct, OnePlace, TypeOK
  <1>5. TypeOK' /\ TasksInPlace' /\ Stages'
    BY <1>1, <1>2, PoolAssumption DEF TypeOK, TasksInPlace, Stages
  <1>6. ran'[t] = 1 /\ \A u \in Tasks \ {t} : ran'[u] = ran[u]
    BY <1>1, <1>2, <1>3 DEF TypeOK
  <1>7. \A v, u \in Workers : task'[v] = task'[u] /\ task'[v] # NoTask => v = u
    BY <1>1 DEF OnePlace, TypeOK
  <1>8. OnePlace'
    BY <1>1, <1>3, <1>4, <1>6, <1>7 DEF OnePlace
  <1>9. OwedKept' /\ LeftWhenEmpty'
    BY <1>1, <1>4, <1>6 DEF OwedKept, LeftWhenEmpty, TypeOK
  <1> QED
    BY <1>5, <1>8, <1>9

\* thread_pool.cpp:78: the loop test, in its two readings of the flags.  With
\* m_waiting still set a worker leaves only on an empty queue.
LEMMA TestStep ==
    ASSUME IInv, NEW w \in Workers, Test(w) \/ TestEmpty(w)
    PROVE  IInv'
  <1> USE DEF IInv
  <1>1. /\ m_pending_queue' = m_pending_queue /\ m_finished_queue' = m_finished_queue
        /\ m_exit' = m_exit /\ m_waiting' = m_waiting /\ task' = task
        /\ owner' = owner /\ waiting' = waiting /\ todo' = todo /\ owed' = owed
        /\ ran' = ran /\ accepted' = accepted /\ (Terminating' <=> Terminating)
    BY DEF Test, TestEmpty, queues, ownerVars, Terminating
  <1>2. PICK label \in {"pop", "empty", "exited"} : pc' = [pc EXCEPT ![w] = label]
    BY DEF Test, TestEmpty, TypeOK
  <1>3. pc[w] \in {"loop", "empty"}
    BY DEF Test, TestEmpty
  <1>4. pc'[w] \in {"empty", "exited"} => m_exit[w] \/ pc[w] = "empty"
    BY DEF Test, TestEmpty, TypeOK
  <1>5. pc'[w] = "exited" => ~m_waiting[w] \/ m_pending_queue = <<>>
    BY DEF Test, TestEmpty, TypeOK
  <1>6. Queued' = Queued /\ Running' = Running /\ (Distinct' <=> Distinct)
    BY <1>1 DEF Queued, Running, Distinct
  <1>7. TypeOK' /\ TasksInPlace'
    BY <1>1, <1>2, <1>3 DEF TypeOK, TasksInPlace
  <1>8. OnePlace' /\ OwedKept'
    BY <1>1, <1>6 DEF OnePlace, OwedKept
  <1>9. pc'[w] = label /\ label # "none" /\ \A v \in Workers \ {w} : pc'[v] = pc[v]
    BY <1>2 DEF TypeOK
  <1>10. Stages'
    <2>1. owner # "new" /\ owner # "clear" /\ (owner = "join" => w \in todo)
      BY <1>3 DEF Stages, TypeOK, Owner
    <2>2. owner = "up" => pc'[w] = "pop"
      BY <1>2, <1>3, <1>4, <1>9 DEF Stages
    <2> QED
      BY <1>1, <1>9, <2>1, <2>2 DEF Stages
  <1>11. LeftWhenEmpty'
    <2> SUFFICES ASSUME Terminating, waiting,
                        NEW v \in Workers, pc'[v] \in {"exited", "none"}
                 PROVE  owed \cap Queued = {}
      BY <1>1, <1>6 DEF LeftWhenEmpty
    <2>1. CASE v = w
      <3>1. m_waiting[w]
        BY DEF Stages, Terminating
      <3>2. m_pending_queue = <<>>
        BY <1>5, <1>9, <2>1, <3>1
      <3>3. Queued = {}
        BY <3>2 DEF Queued
      <3> QED
        BY <3>3
    <2>2. CASE v # w
      BY <1>9, <2>2 DEF LeftWhenEmpty
    <2> QED
      BY <2>1, <2>2
  <1> QED
    BY <1>7, <1>8, <1>10, <1>11

\* thread_pool.cpp:20-60: the owner's steps.  None of them touches a task, but
\* the two Clears, which come when no thread is left.
LEMMA OwnerStep ==
    ASSUME IInv,
           \/ InitPool \/ Terminate
           \/ \E w \in Workers : SetExit(w) \/ SetWaiting(w) \/ Join(w)
    PROVE  IInv'
  <1> USE DEF IInv
  <1>1. /\ m_pending_queue' = m_pending_queue /\ m_finished_queue' = m_finished_queue
        /\ task' = task /\ ran' = ran /\ accepted' = accepted
    BY DEF InitPool, Terminate, SetExit, SetWaiting, Join, queues, workerVars
  <1>2. Queued' = Queued /\ Running' = Running /\ (Distinct' <=> Distinct)
    BY <1>1 DEF Queued, Running, Distinct
  <1>3. OnePlace'
    BY <1>1, <1>2 DEF OnePlace
  <1>4. CASE InitPool
    <2>1. owner' = "up" /\ owner = "new" /\ ~Terminating'
      BY <1>4 DEF InitPool, Terminating
    <2>2. TypeOK'
      BY <1>1, <1>4 DEF InitPool, TypeOK, Owner
    <2>3. TasksInPlace'
      BY <1>1, <1>4 DEF InitPool, TasksInPlace, Stages, TypeOK
    <2>4. Stages'
      BY <1>4, <2>1 DEF InitPool, Stages
    <2> QED
      BY <1>3, <2>1, <2>2, <2>3, <2>4 DEF OwedKept, LeftWhenEmpty
  <1>5. CASE Terminate
    <2>1. /\ owner = "up" /\ owner' = "flag_exit" /\ waiting' \in BOOLEAN /\ todo' = Workers
          /\ owed' = Queued \cup Running
          /\ m_exit' = m_exit /\ m_waiting' = m_waiting /\ pc' = pc
      BY <1>5 DEF Terminate, workerVars
    <2>2. TypeOK' /\ TasksInPlace'
      BY <1>1, <2>1 DEF TypeOK, Owner, TasksInPlace
    <2>3. Stages'
      BY <2>1 DEF Stages, Terminating
    <2>4. OwedKept'
      BY <1>1, <1>2, <2>1 DEF OwedKept, OnePlace, TypeOK
    <2>5. LeftWhenEmpty'
      BY <2>1 DEF LeftWhenEmpty, Stages
    <2> QED
      BY <1>3, <2>2, <2>3, <2>4, <2>5
  <1>6. ASSUME NEW w \in Workers, SetExit(w)
        PROVE  IInv'
    <2>1. /\ owner = "flag_exit" /\ owner' = "flag_waiting" /\ waiting' = waiting /\ todo' = todo
          /\ owed' = owed /\ m_waiting' = m_waiting /\ pc' = pc
          /\ m_exit' = [m_exit EXCEPT ![w] = TRUE]
      BY <1>6 DEF SetExit
    <2>2. TypeOK' /\ TasksInPlace'
      BY <1>1, <2>1 DEF TypeOK, Owner, TasksInPlace
    <2>3. Stages' /\ Terminating /\ Terminating'
      BY <2>1 DEF Stages, Terminating
    <2>4. OwedKept' /\ LeftWhenEmpty'
      BY <1>1, <1>2, <2>1, <2>3 DEF OwedKept, LeftWhenEmpty
    <2> QED
      BY <1>3, <2>2, <2>3, <2>4
  <1>7. ASSUME NEW w \in Workers, SetWaiting(w)
        PROVE  IInv'
    <2>1. /\ owner = "flag_waiting" /\ waiting' = waiting /\ w \in todo
          /\ owed' = owed /\ m_exit' = m_exit /\ pc' = pc
          /\ m_waiting' = [m_waiting EXCEPT ![w] = waiting]
          /\ \/ owner' = "join" /\ todo' = Workers
             \/ owner' = "flag_exit" /\ todo' = todo \ {w}
      BY <1>7 DEF SetWaiting
    <2>2. TypeOK' /\ TasksInPlace'
      BY <1>1, <2>1 DEF TypeOK, Owner, TasksInPlace
    <2>3. Terminating /\ Terminating'
      BY <2>1 DEF Terminating
    <2>4. Stages'
      BY <2>1, <2>3 DEF Stages, TypeOK
    <2>5. OwedKept' /\ LeftWhenEmpty'
      BY <1>1, <1>2, <2>1, <2>3 DEF OwedKept, LeftWhenEmpty
    <2> QED
      BY <1>3, <2>2, <2>4, <2>5
  <1>8. ASSUME NEW w \in Workers, Join(w)
        PROVE  IInv'
    <2>1. /\ owner = "join" /\ waiting' = waiting /\ w \in todo /\ pc[w] = "exited"
          /\ owed' = owed /\ m_exit' = m_exit /\ m_waiting' = m_waiting
          /\ pc' = [pc EXCEPT ![w] = "none"] /\ todo' = todo \ {w}
          /\ \/ owner' = "join"
             \/ owner' = "clear" /\ todo = {w}
      BY <1>8 DEF Join
    <2>2. TypeOK' /\ TasksInPlace'
      BY <1>1, <2>1 DEF TypeOK, Owner, TasksInPlace
    <2>3. Terminating /\ Terminating'
      BY <2>1 DEF Terminating
    <2>4. Stages'
      BY <2>1, <2>3 DEF Stages, TypeOK
    <2>5. OwedKept'
      BY <1>1, <1>2, <2>1, <2>3 DEF OwedKept
    <2>6. LeftWhenEmpty'
      BY <1>1, <1>2, <2>1, <2>3 DEF LeftWhenEmpty, TypeOK
    <2> QED
      BY <1>3, <2>2, <2>4, <2>5, <2>6
  <1> QED
    BY <1>4, <1>5, <1>6, <1>7, <1>8

\* thread_pool.cpp:56-58: the Clears at the end of Terminate.
LEMMA ClearStep ==
    ASSUME IInv, ClearQueues \/ TerminateAgain
    PROVE  IInv'
  <1> USE DEF IInv
  <1>1. /\ m_pending_queue' = <<>> /\ m_finished_queue' = <<>> /\ owner' = "new"
        /\ owner \in {"new", "clear"}
        /\ m_exit' = m_exit /\ m_waiting' = m_waiting /\ pc' = pc /\ task' = task
        /\ waiting' = waiting /\ todo' = todo /\ owed' = owed
        /\ ran' = ran /\ accepted' = accepted
    BY DEF ClearQueues, TerminateAgain, workerVars, ownerVars
  <1>2. Queued' = {} /\ Running' = Running /\ Distinct'
    BY <1>1 DEF Queued, Running, Distinct
  <1>3. TypeOK' /\ TasksInPlace' /\ Stages' /\ ~Terminating'
    BY <1>1 DEF TypeOK, TasksInPlace, Stages, Owner, Terminating
  <1>4. OnePlace'
    BY <1>1, <1>2 DEF OnePlace
  <1> QED
    BY <1>3, <1>4 DEF OwedKept, LeftWhenEmpty

-----------------------------------------------------------------------------
\* Every step of the workers, the clients and the owner keeps the inductive
\* invariant.
THEOREM Invariance == Spec => []IInv
  <1>1. Init => IInv
    <2> SUFFICES ASSUME Init PROVE IInv
      OBVIOUS
    <2>1. TypeOK /\ TasksInPlace /\ Stages /\ ~Terminating
      BY DEF Init, TypeOK, Owner, TasksInPlace, Stages, Terminating
    <2>2. Queued = {} /\ Running = {} /\ Distinct
      BY DEF Init, Queued, Running, Distinct
    <2>3. OnePlace
      BY <2>2 DEF Init, OnePlace
    <2> QED
      BY <2>1, <2>3 DEF IInv, OwedKept, LeftWhenEmpty
  <1>2. IInv /\ [Next]_vars => IInv'
    <2> SUFFICES ASSUME IInv, [Next]_vars PROVE IInv'
      OBVIOUS
    <2>1. CASE UNCHANGED vars \/ GetFinishedTaskID
      <3>1. /\ m_pending_queue' = m_pending_queue /\ m_exit' = m_exit /\ m_waiting' = m_waiting
            /\ pc' = pc /\ task' = task /\ owner' = owner /\ waiting' = waiting /\ todo' = todo
            /\ owed' = owed /\ ran' = ran /\ accepted' = accepted
        BY <2>1 DEF vars, GetFinishedTaskID, queues, workerVars, ownerVars
      <3>2. m_finished_queue' \in Seq(Tasks)
        <4>1. CASE UNCHANGED vars
          BY <4>1 DEF vars, queues, IInv, TypeOK
        <4>2. CASE GetFinishedTaskID
          BY <4>2, HeadTailProperties DEF GetFinishedTaskID, IInv, TypeOK
        <4> QED
          BY <2>1, <4>1, <4>2
      <3>3. Queued' = Queued /\ Running' = Running /\ (Distinct' <=> Distinct)
            /\ (Terminating' <=> Terminating)
        BY <3>1 DEF Queued, Running, Distinct, Terminating
      <3>4. TypeOK' /\ TasksInPlace' /\ Stages'
        BY <3>1, <3>2, <3>3 DEF IInv, TypeOK, TasksInPlace, Stages
      <3>5. OnePlace' /\ OwedKept' /\ LeftWhenEmpty'
        BY <3>1, <3>3 DEF IInv, OnePlace, OwedKept, LeftWhenEmpty
      <3> QED
        BY <3>4, <3>5 DEF IInv
    <2> QED
      BY <2>1, AddTaskStep, PopStep, RunTaskStep, TestStep, OwnerStep, ClearStep DEF Next
  <1> QED
    BY <1>1, <1>2, PTL DEF Spec

\* common/thread_pool.h:9: an accepted task is in one place at a time and never
\* runs twice, for any number of racing threads and any sequence of Terminates
\* and Inits.
THEOREM AtMostOnceCorrect == Spec => []AtMostOnce
  <1>1. IInv => AtMostOnce
    <2> SUFFICES ASSUME IInv, NEW t \in Tasks PROVE Places(t) <= 1
      BY DEF AtMostOnce
    <2> DEFINE Q == {i \in DOMAIN m_pending_queue : m_pending_queue[i] = t}
               W == {w \in Workers : task[w] = t}
    <2> USE DEF IInv
    <2>1. t # NoTask
      BY PoolAssumption
    <2>2. Q # {} <=> t \in Queued
      BY DEF Queued
    <2>3. W # {} <=> t \in Running
      BY <2>1 DEF Running
    <2>4. Q = {} \/ \E i : Q = {i}
      <3>1. \A i, j \in Q : i = j
        BY DEF OnePlace, Distinct
      <3> QED
        BY <3>1, Zenon
    <2>5. W = {} \/ \E w : W = {w}
      BY <2>1 DEF OnePlace
    <2>6. ~(t \in Queued /\ t \in Running) /\ ran[t] \in {0, 1}
          /\ (t \in Queued \cup Running => ran[t] = 0)
      BY DEF OnePlace
    <2> HIDE DEF Q, W
    <2>7. Q # {} /\ W # {} => FALSE
      BY <2>2, <2>3, <2>6
    <2>8. Cardinality(Q) = IF Q = {} THEN 0 ELSE 1
      BY <2>4, FS_EmptySet, FS_Singleton
    <2>9. Cardinality(W) = IF W = {} THEN 0 ELSE 1
      BY <2>5, FS_EmptySet, FS_Singleton
    <2>10. Cardinality(Q) + Cardinality(W) + ran[t] <= 1
      BY <2>2, <2>3, <2>6, <2>7, <2>8, <2>9
    <2> QED
      BY <2>10 DEF Places, Q, W
  <1> QED
    BY <1>1, Invariance, PTL

\* thread_pool.cpp:40-54, :78: Terminate(true) loses nothing it found pending or
\* running, although every thread leaves on its own unlocked test.
THEOREM OwedAreRunCorrect == Spec => []OwedAreRun
  <1>1. IInv => OwedAreRun
    <2> SUFFICES ASSUME IInv, owner = "clear", waiting, NEW t \in owed
                 PROVE  ran[t] = 1
      BY DEF OwedAreRun
    <2> USE DEF IInv
    <2>1. Terminating /\ \A w \in Workers : pc[w] = "none"
      BY DEF Terminating, Stages
    <2>2. t \notin Queued
      BY <2>1, PoolAssumption DEF LeftWhenEmpty
    <2>3. t \notin Running
      BY <2>1 DEF Running, TasksInPlace
    <2> QED
      BY <2>1, <2>2, <2>3 DEF OwedKept
  <1> QED
    BY <1>1, Invariance, PTL
=============================================================================

----------------------------- MODULE ThreadPool -----------------------------
(***************************************************************************)
(* The fixed pool of common/thread_pool.cpp: clients put tasks in          *)
(* m_pending_queue, worker threads race for them, run them and put their   *)
(* ids in m_finished_queue; the owner terminates the pool, with or without *)
(* waiting for the pending tasks, and may then Init it again.              *)
(*                                                                         *)
(* The queues are BlockingQueues of the default, unreachable bound: a push *)
(* never waits, and a TimedPopFront takes the first element or returns     *)
(* false having seen the queue empty (module BlockingQueue).               *)
(***************************************************************************)
EXTENDS Integers, Sequences, FiniteSets

CONSTANTS Workers,     \* the InnerThreads of one Init
          Tasks,       \* the tasks clients add, each at most once
          NoTask

ASSUME PoolAssumption ==
    /\ IsFiniteSet(Workers) /\ Workers # {}
    /\ IsFiniteSet(Tasks) /\ NoTask \notin Tasks

VARIABLES
    m_pending_queue,    \* tasks waiting
    m_finished_queue,   \* ids of the tasks that have run
    m_exit, m_waiting,  \* the two flags of each InnerThread
    pc,                 \* worker: "none", "loop", "empty", "pop", "run", "exited"
    task,               \* worker: the task it runs, NoTask otherwise
    owner,              \* the owner's place in Init / Terminate, see Owner
    waiting,            \* the argument of the current Terminate
    todo,               \* the threads Terminate's current loop has not visited
    accepted,           \* tasks for which AddTask has returned 0
    ran,                \* how often each task has run
    owed                \* tasks accepted and not finished when Terminate began

queues == <<m_pending_queue, m_finished_queue>>
workerVars == <<m_exit, m_waiting, pc, task>>
ownerVars == <<owner, waiting, todo, owed>>
vars == <<queues, workerVars, ownerVars, ran, accepted>>

\* new: no threads.  up: Init done.  flag_exit, flag_waiting: in the loop that
\* terminates each thread, before its two assignments.  join: in the second
\* loop.  clear: threads gone, queues not yet cleared.
Owner == {"new", "up", "flag_exit", "flag_waiting", "join", "clear"}

-----------------------------------------------------------------------------
Init ==
    /\ m_pending_queue = <<>> /\ m_finished_queue = <<>>
    /\ m_exit = [w \in Workers |-> FALSE] /\ m_waiting = [w \in Workers |-> TRUE]
    /\ pc = [w \in Workers |-> "none"] /\ task = [w \in Workers |-> NoTask]
    /\ owner = "new" /\ waiting = TRUE /\ todo = {} /\ owed = {}
    /\ ran = [t \in Tasks |-> 0]
    /\ accepted = {}

\* ThreadPool::Init: new InnerThreads, started.
InitPool ==
    /\ owner = "new"
    /\ owner' = "up"
    /\ m_exit' = [w \in Workers |-> FALSE]
    /\ m_waiting' = [w \in Workers |-> TRUE]
    /\ pc' = [w \in Workers |-> "loop"]
    /\ UNCHANGED <<queues, task, waiting, todo, owed, ran, accepted>>

\* AddTask looks at neither m_exit nor the threads.
AddTask(t) ==
    /\ t \notin accepted
    /\ m_pending_queue' = Append(m_pending_queue, t)
    /\ accepted' = accepted \cup {t}
    /\ UNCHANGED <<m_finished_queue, workerVars, ownerVars, ran>>

\* GetFinishedTaskID pops one id when there is one.
GetFinishedTaskID ==
    /\ m_finished_queue # <<>>
    /\ m_finished_queue' = Tail(m_finished_queue)
    /\ UNCHANGED <<m_pending_queue, workerVars, ownerVars, ran, accepted>>

-----------------------------------------------------------------------------
\* Wrong on purpose: a mutant of Test that TerminateReturns must catch.
TestWaitingFirst(w) ==
    /\ pc[w] = "loop"
    /\ pc' = [pc EXCEPT ![w] = IF m_exit[w] /\ ~m_waiting[w] THEN "exited" ELSE "pop"]
    /\ UNCHANGED <<queues, m_exit, m_waiting, task, ownerVars, ran, accepted>>

\* Run's loop test reads the flags without a lock, and m_waiting twice: first
\* m_exit && !m_waiting, then m_waiting && IsEmpty().  Terminate may write
\* between any two reads.
Test(w) ==
    /\ pc[w] = "loop"
    /\ pc' = [pc EXCEPT ![w] = CASE ~m_exit[w]                 -> "pop"
                                 [] m_exit[w] /\ ~m_waiting[w] -> "exited"
                                 [] m_exit[w] /\ m_waiting[w]  -> "empty"]
    /\ UNCHANGED <<queues, m_exit, m_waiting, task, ownerVars, ran, accepted>>

\* Wrong on purpose: a mutant of TestEmpty that OwedAreRun must catch.
TestEmptyIgnored(w) ==
    /\ pc[w] = "empty"
    /\ pc' = [pc EXCEPT ![w] = "exited"]
    /\ UNCHANGED <<queues, m_exit, m_waiting, task, ownerVars, ran, accepted>>

TestEmpty(w) ==
    /\ pc[w] = "empty"
    /\ pc' = [pc EXCEPT ![w] = IF m_waiting[w] /\ m_pending_queue = <<>>
                               THEN "exited" ELSE "pop"]
    /\ UNCHANGED <<queues, m_exit, m_waiting, task, ownerVars, ran, accepted>>

\* Wrong on purpose: a mutant of Pop that AtMostOnce must catch.
PopKeeps(w) ==
    /\ pc[w] = "pop" /\ m_pending_queue # <<>>
    /\ task' = [task EXCEPT ![w] = Head(m_pending_queue)]
    /\ pc' = [pc EXCEPT ![w] = "run"]
    /\ UNCHANGED <<queues, m_exit, m_waiting, ownerVars, ran, accepted>>

\* Wrong on purpose: a mutant of Pop that AcceptedRuns must catch.
PopLeaves(w) ==
    /\ pc[w] = "pop" /\ m_pending_queue = <<>>
    /\ pc' = [pc EXCEPT ![w] = "exited"]
    /\ UNCHANGED <<queues, m_exit, m_waiting, task, ownerVars, ran, accepted>>

\* TimedPopFront(&t, 1000)
Pop(w) ==
    /\ pc[w] = "pop"
    /\ \/ /\ m_pending_queue # <<>>
          /\ task' = [task EXCEPT ![w] = Head(m_pending_queue)]
          /\ m_pending_queue' = Tail(m_pending_queue)
          /\ pc' = [pc EXCEPT ![w] = "run"]
       \/ /\ m_pending_queue = <<>>
          /\ pc' = [pc EXCEPT ![w] = "loop"]
          /\ UNCHANGED <<task, m_pending_queue>>
    /\ UNCHANGED <<m_finished_queue, m_exit, m_waiting, ownerVars, ran, accepted>>

\* t.fun(), then its id to the finished queue.
RunTask(w) ==
    /\ pc[w] = "run"
    /\ ran' = [ran EXCEPT ![task[w]] = @ + 1]
    /\ m_finished_queue' = Append(m_finished_queue, task[w])
    /\ task' = [task EXCEPT ![w] = NoTask]
    /\ pc' = [pc EXCEPT ![w] = "loop"]
    /\ UNCHANGED <<m_pending_queue, m_exit, m_waiting, ownerVars, accepted>>

-----------------------------------------------------------------------------
Queued == {m_pending_queue[i] : i \in DOMAIN m_pending_queue}
Running == {task[w] : w \in Workers} \ {NoTask}

\* Terminate(waiting) first gives every thread its m_exit and its m_waiting,
\* in that order.  (The pool's own m_exit is set and never read.)
Terminate ==
    /\ owner = "up"
    /\ owner' = "flag_exit"
    /\ waiting' \in BOOLEAN
    /\ owed' = Queued \cup Running
    /\ todo' = Workers
    /\ UNCHANGED <<queues, workerVars, ran, accepted>>

\* Without threads (the destructor after a Terminate, or no Init) only the
\* Clears are left of it.
TerminateAgain ==
    /\ owner = "new"
    /\ m_pending_queue' = <<>>
    /\ m_finished_queue' = <<>>
    /\ UNCHANGED <<workerVars, ownerVars, ran, accepted>>

SetExit(w) ==
    /\ owner = "flag_exit" /\ w \in todo
    /\ m_exit' = [m_exit EXCEPT ![w] = TRUE]
    /\ owner' = "flag_waiting"
    /\ UNCHANGED <<queues, m_waiting, pc, task, waiting, todo, owed, ran, accepted>>

SetWaiting(w) ==
    /\ owner = "flag_waiting" /\ w \in todo /\ m_exit[w]
    /\ m_waiting' = [m_waiting EXCEPT ![w] = waiting]
    /\ todo' = IF todo = {w} THEN Workers ELSE todo \ {w}
    /\ owner' = IF todo = {w} THEN "join" ELSE "flag_exit"
    /\ UNCHANGED <<queues, m_exit, pc, task, waiting, owed, ran, accepted>>

Join(w) ==
    /\ owner = "join" /\ w \in todo
    /\ pc[w] = "exited"
    /\ pc' = [pc EXCEPT ![w] = "none"]
    /\ todo' = todo \ {w}
    /\ owner' = IF todo = {w} THEN "clear" ELSE "join"
    /\ UNCHANGED <<queues, m_exit, m_waiting, task, waiting, owed, ran, accepted>>

\* m_pending_queue.Clear(), m_finished_queue.Clear(), m_threads.clear().
ClearQueues ==
    /\ owner = "clear"
    /\ owner' = "new"
    /\ m_pending_queue' = <<>>
    /\ m_finished_queue' = <<>>
    /\ UNCHANGED <<workerVars, waiting, todo, owed, ran, accepted>>

-----------------------------------------------------------------------------
Next ==
    \/ InitPool \/ Terminate \/ TerminateAgain \/ ClearQueues \/ GetFinishedTaskID
    \/ \E t \in Tasks : AddTask(t)
    \/ \E w \in Workers : \/ Test(w) \/ TestEmpty(w) \/ Pop(w) \/ RunTask(w)
                          \/ SetExit(w) \/ SetWaiting(w) \/ Join(w)

Spec == Init /\ [][Next]_vars

\* The workers run, the tasks end, and the owner finishes the Terminate it
\* has begun; nothing obliges it to begin one, or anybody to add a task.
Fairness ==
    /\ \A w \in Workers : WF_vars(Test(w) \/ TestEmpty(w) \/ Pop(w) \/ RunTask(w))
    /\ WF_vars(ClearQueues \/ \E w \in Workers : SetExit(w) \/ SetWaiting(w) \/ Join(w))

FairSpec == Spec /\ Fairness

-----------------------------------------------------------------------------
TypeOK ==
    /\ m_pending_queue \in Seq(Tasks) /\ m_finished_queue \in Seq(Tasks)
    /\ m_exit \in [Workers -> BOOLEAN] /\ m_waiting \in [Workers -> BOOLEAN]
    /\ pc \in [Workers -> {"none", "loop", "empty", "pop", "run", "exited"}]
    /\ task \in [Workers -> Tasks \cup {NoTask}]
    /\ owner \in Owner /\ waiting \in BOOLEAN /\ todo \subseteq Workers
    /\ ran \in [Tasks -> Nat]
    /\ accepted \subseteq Tasks

\* common/thread_pool.h:9: the threads race for a task, and one of them runs it.
\* Whatever Terminate and Init do in between, an accepted task is in one place
\* at a time and never runs twice.
Places(t) == Cardinality({i \in DOMAIN m_pending_queue : m_pending_queue[i] = t})
               + Cardinality({w \in Workers : task[w] = t}) + ran[t]

AtMostOnce == \A t \in Tasks : Places(t) <= 1

\* thread_pool.cpp:40-54, :78: when Terminate(true) has joined the threads,
\* every task that was pending or running when it began has run, although the
\* threads learn of the termination one after the other and each of them
\* leaves on its own test of the queue.
OwedAreRun ==
    owner = "clear" /\ waiting => \A t \in owed : ran[t] = 1

\* A task accepted while the pool is up runs, unless the owner terminates the
\* pool before its turn.
AcceptedRuns ==
    \A t \in Tasks : (owner = "up" /\ t \in Queued) ~> (ran[t] = 1 \/ owner # "up")

\* Terminate returns, however late the threads see their flags.
TerminateReturns == (owner = "flag_exit") ~> (owner = "new")
=============================================================================

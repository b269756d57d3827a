---------------------------- MODULE BlockingQueue ----------------------------
(***************************************************************************)
(* The bounded deque of common/blocking_queue.h, with the two condition    *)
(* variables and the mutex of common/condition_variable.cpp and            *)
(* common/mutex.h under it.                                                *)
(*                                                                         *)
(* A section of code between taking m_mutex and releasing it (by leaving   *)
(* the AutoLocker scope or by waiting on a condition) is one step.  The    *)
(* Signal or Broadcast that most operations issue AFTER the scope is a     *)
(* step of its own: other threads run in between.                          *)
(***************************************************************************)
EXTENDS Integers, Sequences, FiniteSets

CONSTANTS Threads,            \* the threads that call the queue
          Values,             \* the elements they push
          m_max_elements,     \* the constructor's bound
          Calls,              \* the calls the threads make (see AllCalls)
          SpuriousWakeups     \* may a wait return although nobody signalled?

\* Block: PushX / PopX.  Try: TryPushX / TryPopX.  Timed: TimedX with a
\* timeout >= 0.  Forever: TimedX with a negative timeout, which TimedWait
\* turns into an untimed wait.
Modes == {"Block", "Try", "Timed", "Forever"}

AllCalls ==
    [op : {"Push"}, at : {"Front", "Back"}, mode : Modes, value : Values]
      \cup [op : {"Pop"}, at : {"Front", "Back"}, mode : Modes]
      \cup [op : {"PopAll"}, mode : Modes]
      \cup {[op |-> "Clear"]}

ASSUME QueueAssumption ==
    /\ IsFiniteSet(Threads)
    /\ m_max_elements \in Nat \ {0}
    /\ Calls \subseteq AllCalls
    /\ SpuriousWakeups \in BOOLEAN

VARIABLES
    m_queue,   \* the elements, front first
    pc,        \* where each thread is
    call       \* the call each thread is in, NoCall outside the queue

vars == <<m_queue, pc, call>>

\* idle:     outside the queue
\* waiting:  blocked on the condition variable CondOf(call)
\* woken:    signalled (or woken for no reason), about to retake m_mutex
\* timedout: the timed wait expired, about to retake m_mutex
\* notify:   the element is in (out), m_mutex released, Signal still to come
PC == {"idle", "waiting", "woken", "timedout", "notify"}

NoCall == [op |-> "None"]

-----------------------------------------------------------------------------
\* Wrong on purpose: a mutant of UnlockedIsFull that Bounded must catch.
UnlockedIsFullLate == Len(m_queue) > m_max_elements

UnlockedIsFull == Len(m_queue) >= m_max_elements

CondOf(c) == IF c.op = "Push" THEN "not_full" ELSE "not_empty"

Waiters(cond) == {t \in Threads : pc[t] = "waiting" /\ CondOf(call[t]) = cond}
Awake(cond)   == {t \in Threads : /\ pc[t] \in {"woken", "timedout"}
                                  /\ CondOf(call[t]) = cond}

\* pthread_cond_broadcast: every waiter of cond becomes runnable.
Broadcast(f, cond) == [t \in Threads |-> IF t \in Waiters(cond) THEN "woken" ELSE f[t]]

\* The condition the operation tests before it touches the deque.
CanProceed(c) == /\ c.op = "Push" => ~UnlockedIsFull
                 /\ c.op \in {"Pop", "PopAll"} => m_queue # <<>>

\* Wrong on purpose: a mutant of Effect that TypeOK must catch.
EffectStoresCall(c) == IF c.op = "Push" THEN Append(m_queue, c) ELSE <<>>

\* The deque after call c; a pop hands the element it removes to its caller.
Effect(c) ==
    CASE c.op = "Push" /\ c.at = "Back"  -> Append(m_queue, c.value)
      [] c.op = "Push" /\ c.at = "Front" -> <<c.value>> \o m_queue
      [] c.op = "Pop"  /\ c.at = "Front" -> Tail(m_queue)
      [] c.op = "Pop"  /\ c.at = "Back"  -> SubSeq(m_queue, 1, Len(m_queue) - 1)
      [] OTHER                           -> <<>>

\* TimedPopAll broadcasts not_full while it holds the mutex.
TimedPopAll(c) == c.op = "PopAll" /\ c.mode \in {"Timed", "Forever"}

-----------------------------------------------------------------------------
Init ==
    /\ m_queue = <<>>
    /\ pc = [t \in Threads |-> "idle"]
    /\ call = [t \in Threads |-> NoCall]

\* The body of an operation, up to the release of the mutex.  Clear issues its
\* Broadcast inside and is then done.
Proceed(t, c) ==
    /\ CanProceed(c)
    /\ m_queue' = Effect(c)
    /\ \/ /\ c.op = "Clear"
          /\ pc' = Broadcast(pc, "not_full")
          /\ UNCHANGED call
       \/ /\ c.op # "Clear"
          /\ pc' = [(IF TimedPopAll(c) THEN Broadcast(pc, "not_full") ELSE pc)
                      EXCEPT ![t] = "notify"]
          /\ call' = [call EXCEPT ![t] = c]

\* Return false: a Try operation at once, a timed one after its single wait.
GiveUp(t) ==
    /\ pc' = [pc EXCEPT ![t] = "idle"]
    /\ call' = [call EXCEPT ![t] = NoCall]
    /\ UNCHANGED m_queue

\* pthread_cond_wait / pthread_cond_timedwait releases the mutex and blocks.
Wait(t, c) ==
    /\ pc' = [pc EXCEPT ![t] = "waiting"]
    /\ call' = [call EXCEPT ![t] = c]
    /\ UNCHANGED m_queue

\* A thread calls the queue and takes the mutex.
Enter(t, c) ==
    /\ pc[t] = "idle"
    /\ \/ Proceed(t, c)
       \/ ~CanProceed(c) /\ c.mode = "Try" /\ GiveUp(t)
       \/ ~CanProceed(c) /\ c.mode # "Try" /\ Wait(t, c)

\* Wrong on purpose: a mutant of Resume that TimedCallsReturn must catch.
ResumeTimedLoops(t) ==
    /\ pc[t] \in {"woken", "timedout"}
    /\ \/ Proceed(t, call[t])
       \/ ~CanProceed(call[t]) /\ Wait(t, call[t])

\* Wrong on purpose: a mutant of Resume that ImplementsDeque must catch.
ResumeTimedOutPushes(t) ==
    /\ pc[t] \in {"woken", "timedout"}
    /\ \/ Proceed(t, call[t])
       \/ ~CanProceed(call[t]) /\ call[t].mode = "Block" /\ Wait(t, call[t])
       \/ /\ ~CanProceed(call[t]) /\ call[t].mode # "Block"
          /\ pc' = [pc EXCEPT ![t] = "idle"]
          /\ call' = [call EXCEPT ![t] = NoCall]
          /\ m_queue' = IF call[t].op = "Push" THEN Effect(call[t]) ELSE m_queue

\* The wait returns with the mutex held.  The blocking operations test again
\* in a while loop; the timed ones test once more and give up.
Resume(t) ==
    /\ pc[t] \in {"woken", "timedout"}
    /\ \/ Proceed(t, call[t])
       \/ ~CanProceed(call[t]) /\ call[t].mode = "Block" /\ Wait(t, call[t])
       \/ ~CanProceed(call[t]) /\ call[t].mode # "Block" /\ GiveUp(t)

\* Wrong on purpose: a mutant of SignalOne that SleepersServed must catch.
SignalOneLost(t, cond) == pc' = [pc EXCEPT ![t] = "idle"]

\* pthread_cond_signal by t, which then returns: one waiter, if there is one.
SignalOne(t, cond) ==
    \/ Waiters(cond) = {} /\ pc' = [pc EXCEPT ![t] = "idle"]
    \/ \E w \in Waiters(cond) : pc' = [pc EXCEPT ![t] = "idle", ![w] = "woken"]

\* Wrong on purpose: a mutant of Notify that NoLostWakeup must catch.
NotifyPopAllSignals(t) ==
    /\ pc[t] = "notify"
    /\ SignalOne(t, IF call[t].op = "Push" THEN "not_empty" ELSE "not_full")
    /\ call' = [call EXCEPT ![t] = NoCall]
    /\ UNCHANGED m_queue

\* The Signal / Broadcast after the AutoLocker scope, then the return.
\* TimedPopAll signals once more although it has broadcast already.
Notify(t) ==
    /\ pc[t] = "notify"
    /\ \/ call[t].op = "Push" /\ SignalOne(t, "not_empty")
       \/ (call[t].op = "Pop" \/ TimedPopAll(call[t])) /\ SignalOne(t, "not_full")
       \/ /\ call[t].op = "PopAll" /\ ~TimedPopAll(call[t])
          /\ pc' = [Broadcast(pc, "not_full") EXCEPT ![t] = "idle"]
    /\ call' = [call EXCEPT ![t] = NoCall]
    /\ UNCHANGED m_queue

\* pthread_cond_timedwait returns ETIMEDOUT.
Timeout(t) ==
    /\ pc[t] = "waiting"
    /\ call[t].mode = "Timed"
    /\ pc' = [pc EXCEPT ![t] = "timedout"]
    /\ UNCHANGED <<m_queue, call>>

\* POSIX lets a wait return although nobody signalled.
SpuriousWakeup(t) ==
    /\ SpuriousWakeups
    /\ pc[t] = "waiting"
    /\ pc' = [pc EXCEPT ![t] = "woken"]
    /\ UNCHANGED <<m_queue, call>>

Next ==
    \E t \in Threads :
        \/ \E c \in Calls : Enter(t, c)
        \/ Resume(t)
        \/ Notify(t)
        \/ Timeout(t)
        \/ SpuriousWakeup(t)

Spec == Init /\ [][Next]_vars

\* A thread inside the queue keeps running: it retakes the mutex once woken,
\* signals once it has left the section, and a timed wait expires.  Nothing
\* makes a thread call the queue, and nothing makes a wake-up spurious.
Fairness == \A t \in Threads : WF_vars(Resume(t) \/ Notify(t) \/ Timeout(t))

FairSpec == Spec /\ Fairness

-----------------------------------------------------------------------------
TypeOK ==
    /\ m_queue \in Seq(Values)
    /\ pc \in [Threads -> PC]
    /\ call \in [Threads -> Calls \cup {NoCall}]

\* blocking_queue.h:355: the deque never outgrows the constructor's bound,
\* although every push tests the bound in one critical section and a waiting
\* push continues in a later one.
Bounded == Len(m_queue) <= m_max_elements

\* A thread in the queue is in one of the calls that can wait or that signal
\* after they unlock; Clear does neither.
CallsInPlace ==
    \A t \in Threads : pc[t] # "idle" => call[t] \in Calls /\ call[t].op # "Clear"

PushSignals == {t \in Threads : pc[t] = "notify" /\ call[t].op = "Push"}
PopSignals  == {t \in Threads : pc[t] = "notify" /\ call[t].op = "Pop"}
PendingBroadcast ==
    \E t \in Threads : /\ pc[t] = "notify"
                       /\ call[t].op = "PopAll"
                       /\ ~TimedPopAll(call[t])

\* blocking_queue.h:68, :100: Signal comes after the unlock, so an element can
\* be in the deque while every consumer sleeps.  Each such element is owed a
\* wake-up: a Signal not yet issued, or a consumer woken that has not run.
NotEmptyOwed ==
    Waiters("not_empty") # {} =>
        Len(m_queue) <= Cardinality(Awake("not_empty")) + Cardinality(PushSignals)

\* The same for the free places and the sleeping producers: a pop owes one
\* Signal for its one place, PopAll and Clear a Broadcast for all of them.
NotFullOwed ==
    Waiters("not_full") # {} =>
        \/ PendingBroadcast
        \/ m_max_elements - Len(m_queue)
             <= Cardinality(Awake("not_full")) + Cardinality(PopSignals)

WakeupsOwed == NotEmptyOwed /\ NotFullOwed

\* No lost wake-up: a consumer sleeps beside a non-empty deque, or a producer
\* beside a deque with room, only while another thread is on its way to take
\* the element, use the place, or signal.
NoLostWakeup ==
    /\ Waiters("not_empty") # {} /\ m_queue # <<>> =>
          Awake("not_empty") # {} \/ PushSignals # {}
    /\ Waiters("not_full") # {} /\ Len(m_queue) < m_max_elements =>
          Awake("not_full") # {} \/ PopSignals # {} \/ PendingBroadcast

\* The threads asleep beside work do not sleep for ever: while consumers sleep
\* the deque empties or the last of them is woken; dually for producers and
\* room.  This is what Signal after unlock and Broadcast after PopAll and
\* Clear have to achieve together.
SleepersServed ==
    /\ (m_queue # <<>> /\ Waiters("not_empty") # {})
          ~> (m_queue = <<>> \/ Waiters("not_empty") = {})
    /\ (~UnlockedIsFull /\ Waiters("not_full") # {})
          ~> (UnlockedIsFull \/ Waiters("not_full") = {})

\* A timed operation comes back, whatever the other threads do.
TimedCallsReturn ==
    \A t \in Threads :
        (pc[t] # "idle" /\ call[t].mode = "Timed") ~> (pc[t] = "idle")

AD == INSTANCE AtomicDeque WITH
          deque <- m_queue,
          request <- call,
          effected <- [t \in Threads |-> pc[t] = "notify"],
          Capacity <- m_max_elements

\* blocking_queue.h:55-340: seen from its callers the queue is an atomic bounded
\* deque.  Although an operation waits, is woken late, finds its element taken
\* and signals after it has unlocked, it takes effect once, at one moment,
\* within the bound; one that returns false has had no effect; PushX and PopX
\* never return without one.
ImplementsDeque == AD!Spec
=============================================================================

---------------------------- MODULE AsyncLogging ----------------------------
(***************************************************************************)
(* The double-buffered log queue of log/async_logging.cpp.  Any thread     *)
(* appends a line to the current buffer under m_mutex; a reader (the       *)
(* thread of AsyncLogging::Run, or the Scribe thread) calls Data, which    *)
(* waits at most once, swaps the filled buffers out under the mutex, and   *)
(* formats, drops and recycles them outside it.                            *)
(*                                                                         *)
(* Lines are numbered in the order in which Append takes them.             *)
(***************************************************************************)
EXTENDS Integers, SequencesExt

CONSTANTS Readers,         \* the threads that call Data
          BufferSize,      \* lines in a buffer (2000 in the code)
          MaxBuffers,      \* Data drops a backlog longer than this (25)
          MaxLines         \* bound on the lines appended

ASSUME LoggingAssumption ==
    /\ IsFiniteSet(Readers)
    /\ BufferSize \in Nat \ {0}
    /\ MaxBuffers \in Nat \ {0, 1}
    /\ MaxLines \in Nat

VARIABLES
    m_curr_buffer,   \* the buffer being filled
    m_next_buffer,   \* is there a spare buffer?  (when there is, it is empty)
    m_buffers,       \* the full buffers, oldest first
    count,           \* lines appended so far
    pc,              \* reader: "call", "waiting", "woken", "swapped"
    buffers_write,   \* reader: the buffers it swapped out
    new_buffer2,     \* reader: does it still own its second new buffer?
    out              \* reader: what its calls of Data returned, in order

logVars == <<m_curr_buffer, m_next_buffer, m_buffers, count>>
vars == <<logVars, pc, buffers_write, new_buffer2, out>>

\* What Data returns holds lines, which are positive, and the notice "Dropped
\* log messages, n larger buffers", which stands here as -n.
Notice(n) == -n

-----------------------------------------------------------------------------
Init ==
    /\ m_curr_buffer = <<>>
    /\ m_next_buffer = TRUE
    /\ m_buffers = <<>>
    /\ count = 0
    /\ pc = [r \in Readers |-> "call"]
    /\ buffers_write = [r \in Readers |-> <<>>]
    /\ new_buffer2 = [r \in Readers |-> TRUE]
    /\ out = [r \in Readers |-> <<>>]

Avail == BufferSize - Len(m_curr_buffer)

\* Append broadcasts only when a buffer has filled up.
AppendLog(l) ==
    \/ /\ Avail > 0
       /\ m_curr_buffer' = Append(m_curr_buffer, l)
       /\ UNCHANGED <<m_next_buffer, m_buffers, pc>>
    \/ /\ Avail <= 0
       /\ m_buffers' = Append(m_buffers, m_curr_buffer)
       /\ m_next_buffer' = FALSE
       /\ m_curr_buffer' = <<l>>
       /\ pc' = [r \in Readers |-> IF pc[r] = "waiting" THEN "woken" ELSE pc[r]]

AppendLine ==
    /\ count < MaxLines
    /\ count' = count + 1
    /\ AppendLog(count + 1)
    /\ UNCHANGED <<buffers_write, new_buffer2, out>>

\* Wrong on purpose: a mutant of Swap that InOrder must catch.
SwapCurrentFirst(r) ==
    /\ buffers_write' = [buffers_write EXCEPT ![r] = <<m_curr_buffer>> \o m_buffers]
    /\ m_curr_buffer' = <<>>
    /\ m_buffers' = <<>>
    /\ new_buffer2' = [new_buffer2 EXCEPT ![r] = m_next_buffer]
    /\ m_next_buffer' = TRUE
    /\ pc' = [pc EXCEPT ![r] = "swapped"]
    /\ UNCHANGED <<count, out>>

\* The critical section of Data after the wait: the current buffer goes out
\* with the full ones, whether or not the wait was signalled.
Swap(r) ==
    /\ buffers_write' = [buffers_write EXCEPT ![r] = Append(m_buffers, m_curr_buffer)]
    /\ m_curr_buffer' = <<>>
    /\ m_buffers' = <<>>
    /\ new_buffer2' = [new_buffer2 EXCEPT ![r] = m_next_buffer]
    /\ m_next_buffer' = TRUE
    /\ pc' = [pc EXCEPT ![r] = "swapped"]
    /\ UNCHANGED <<count, out>>

\* Data takes the mutex; with no full buffer it waits, once.
Data(r) ==
    /\ pc[r] = "call"
    /\ \/ m_buffers # <<>> /\ Swap(r)
       \/ /\ m_buffers = <<>>
          /\ pc' = [pc EXCEPT ![r] = "waiting"]
          /\ UNCHANGED <<logVars, buffers_write, new_buffer2, out>>

\* TimedWait runs out of m_flush_interval (or returns spuriously).
FlushInterval(r) ==
    /\ pc[r] = "waiting"
    /\ pc' = [pc EXCEPT ![r] = "woken"]
    /\ UNCHANGED <<logVars, buffers_write, new_buffer2, out>>

\* Wrong on purpose: a mutant of Woken that EveryLineLeaves must catch.
WokenTestsAgain(r) ==
    /\ pc[r] = "woken"
    /\ \/ m_buffers # <<>> /\ Swap(r)
       \/ /\ m_buffers = <<>>
          /\ pc' = [pc EXCEPT ![r] = "call"]
          /\ UNCHANGED <<logVars, buffers_write, new_buffer2, out>>

Woken(r) == pc[r] = "woken" /\ Swap(r)

\* Wrong on purpose: a mutant of Kept that PopBackSafe must catch.
KeptOne(bufs) == IF Len(bufs) > MaxBuffers THEN SubSeq(bufs, 1, 1) ELSE bufs

\* The buffers Data keeps of the ones it swapped out, and what it returns.
Kept(bufs) == IF Len(bufs) > MaxBuffers THEN SubSeq(bufs, 1, 2) ELSE bufs

\* Wrong on purpose: a mutant of Formatted that DropsReported must catch.
FormattedUnreported(bufs) == FlattenSeq(Kept(bufs))

Formatted(bufs) ==
    FlattenSeq(Kept(bufs))
      \o (IF Len(bufs) > MaxBuffers THEN <<Notice(Len(bufs) - 2)>> ELSE <<>>)

\* What pop_back has to find: one buffer to replace new_buffer1, a second one
\* when new_buffer2 has become m_next_buffer.
Recycled(r) == IF new_buffer2[r] THEN 1 ELSE 2

\* Outside the mutex: drop, format, recycle, return to the caller, which
\* writes what it got before it calls Data again.
Return(r) ==
    /\ pc[r] = "swapped"
    /\ out' = [out EXCEPT ![r] = @ \o Formatted(buffers_write[r])]
    /\ buffers_write' = [buffers_write EXCEPT ![r] = <<>>]
    /\ new_buffer2' = [new_buffer2 EXCEPT ![r] = TRUE]
    /\ pc' = [pc EXCEPT ![r] = "call"]
    /\ UNCHANGED logVars

Next ==
    \/ AppendLine
    \/ \E r \in Readers : Data(r) \/ FlushInterval(r) \/ Woken(r) \/ Return(r)

Spec == Init /\ [][Next]_vars

\* A reader runs its loop for ever; a timed wait ends.
Fairness == \A r \in Readers :
    WF_vars(Data(r) \/ FlushInterval(r) \/ Woken(r) \/ Return(r))

FairSpec == Spec /\ Fairness

-----------------------------------------------------------------------------
LineNo == Nat \ {0}

TypeOK ==
    /\ m_curr_buffer \in Seq(LineNo) /\ Len(m_curr_buffer) <= BufferSize
    /\ m_next_buffer \in BOOLEAN
    /\ m_buffers \in Seq(Seq(LineNo))
    /\ count \in 0..MaxLines
    /\ pc \in [Readers -> {"call", "waiting", "woken", "swapped"}]
    /\ buffers_write \in [Readers -> Seq(Seq(LineNo))]
    /\ new_buffer2 \in [Readers -> BOOLEAN]
    /\ out \in [Readers -> Seq(Int)]

\* The spare is gone only when a full buffer is waiting for a reader.
SpareOrBacklog == m_next_buffer \/ m_buffers # <<>>

\* async_logging.cpp:118, :124: pop_back is never called on an empty vector,
\* not even by the second of two readers woken by one Broadcast, and not after
\* a drop.  The swap that gives new_buffer2 away takes two buffers at least.
PopBackSafe ==
    \A r \in Readers :
        pc[r] = "swapped" => Len(Kept(buffers_write[r])) >= Recycled(r)

Lines(s)    == {l \in ToSet(s) : l > 0}
Pending     == ToSet(m_curr_buffer) \cup ToSet(FlattenSeq(m_buffers))
InFlight(r) == ToSet(FlattenSeq(buffers_write[r]))
Missing     == (1..count)
                 \ UNION ({Pending} \cup {InFlight(r) \cup Lines(out[r]) : r \in Readers})

\* What one reader has got and what is still coming, in the order it comes.
Stream(r) == out[r] \o FlattenSeq(buffers_write[r]) \o FlattenSeq(m_buffers) \o m_curr_buffer

\* async_logging.cpp:87-89: whatever the readers do, each of them sees its
\* lines in the order they were appended and none twice, and nothing it has
\* got is older than what the queue still holds.
Ordered(s) == \A i, j \in DOMAIN s : i < j /\ s[i] > 0 /\ s[j] > 0 => s[i] < s[j]

InOrder == \A r \in Readers : Ordered(Stream(r))

\* async_logging.cpp:96-100: the only lines ever lost are the ones of dropped
\* buffers, and the notices in the output account for them: all the buffers of
\* a notice but the last were full.
Notices    == UNION {{<<r, i>> : i \in {j \in DOMAIN out[r] : out[r][j] < 0}} : r \in Readers}
DroppedBuffers == MapThenSumSet(LAMBDA n : -out[n[1]][n[2]], Notices)

DropsReported ==
    /\ Cardinality(Missing) <= BufferSize * DroppedBuffers
    /\ Cardinality(Missing) >= BufferSize * (DroppedBuffers - Cardinality(Notices))

\* Run loops for ever and waits at most m_flush_interval: no line stays in the
\* queue, although a line that does not fill a buffer wakes nobody.
EveryLineLeaves == \A l \in 1..MaxLines : (count >= l) ~> (count >= l /\ l \notin Pending)
=============================================================================

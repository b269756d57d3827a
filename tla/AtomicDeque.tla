----------------------------- MODULE AtomicDeque -----------------------------
(***************************************************************************)
(* What a bounded deque promises to the threads that call it, without      *)
(* mutex, condition variables or signals: a call takes effect at one       *)
(* moment between its invocation and its return; a call that fails has no  *)
(* effect; only the calls that may fail do; the bound is never exceeded.   *)
(***************************************************************************)
EXTENDS Integers, Sequences

CONSTANTS Threads,      \* the callers
          Calls,        \* what they call
          Capacity,     \* the bound
          NoCall        \* outside the deque

VARIABLES
    deque,
    request,    \* the call a thread is in
    effected    \* has it taken effect?

dequeVars == <<deque, request, effected>>

Ready(c) ==
    CASE c.op = "Push"            -> Len(deque) < Capacity
      [] c.op \in {"Pop", "PopAll"} -> Len(deque) > 0
      [] OTHER                    -> TRUE

\* The contents before and after a successful call.
Result(c, old, new) ==
    CASE c.op = "Push" -> new = IF c.at = "Front" THEN <<c.value>> \o old ELSE old \o <<c.value>>
      [] c.op = "Pop"  -> new = IF c.at = "Front" THEN SubSeq(old, 2, Len(old))
                                                  ELSE SubSeq(old, 1, Len(old) - 1)
      [] OTHER         -> new = <<>>

Init ==
    /\ deque = <<>>
    /\ request = [t \in Threads |-> NoCall]
    /\ effected = [t \in Threads |-> FALSE]

Invoke(t, c) ==
    /\ request[t] = NoCall
    /\ request' = [request EXCEPT ![t] = c]
    /\ UNCHANGED <<deque, effected>>

\* Effect of a call that just begins or that is under way and has had none.
Perform(t, c) ==
    /\ request[t] \in {NoCall, c}
    /\ ~effected[t]
    /\ Ready(c)
    /\ Result(c, deque, deque')
    /\ request' = [request EXCEPT ![t] = c]
    /\ effected' = [effected EXCEPT ![t] = TRUE]

Succeed(t) ==
    /\ effected[t]
    /\ request' = [request EXCEPT ![t] = NoCall]
    /\ effected' = [effected EXCEPT ![t] = FALSE]
    /\ UNCHANGED deque

Fail(t) ==
    /\ request[t] # NoCall
    /\ ~effected[t]
    /\ request[t].mode # "Block"
    /\ request' = [request EXCEPT ![t] = NoCall]
    /\ UNCHANGED <<deque, effected>>

\* Clear begins and ends at once.
Clear(t) ==
    /\ request[t] = NoCall
    /\ deque' = <<>>
    /\ UNCHANGED <<request, effected>>

Next ==
    \E t \in Threads :
        \/ \E c \in Calls : Invoke(t, c) \/ Perform(t, c)
        \/ Succeed(t)
        \/ Fail(t)
        \/ Clear(t)

Spec == Init /\ [][Next]_dequeVars
=============================================================================

---------------------------- MODULE RequestReply -----------------------------
(***************************************************************************)
(* What the message-queue transport promises of a request that wants a     *)
(* reply: it is taken by the server at most once, it is answered at most   *)
(* once and only while it is open, and it may be lost at any time.  A lost *)
(* or an answered request never comes back.                                *)
(***************************************************************************)
CONSTANT Requests

VARIABLE status

Statuses == {"idle", "sent", "open", "answered", "lost"}

Init == status = [r \in Requests |-> "idle"]

\* In one step at most one request moves on; a crash, a stop or a clean-up on
\* the same occasion may lose others.
Step(r, from, to, lost) ==
    /\ status[r] = from
    /\ \A s \in lost : s # r /\ status[s] \in {"sent", "open"}
    /\ status' = [s \in Requests |-> IF s = r THEN to
                                     ELSE IF s \in lost THEN "lost" ELSE status[s]]

Send(r)         == Step(r, "idle", "sent", {})
Take(r, lost)   == Step(r, "sent", "open", lost)
Answer(r, lost) == Step(r, "open", "answered", lost)
Lose(r, lost)   == \E from \in {"sent", "open"} : Step(r, from, "lost", lost)

Next ==
    \E r \in Requests :
        \/ Send(r)
        \/ \E lost \in SUBSET Requests : Take(r, lost) \/ Answer(r, lost) \/ Lose(r, lost)

Spec == Init /\ [][Next]_status
=============================================================================

--------------------------- MODULE MCBlockingQueue ---------------------------
(***************************************************************************)
(* Small instances of BlockingQueue.                                       *)
(***************************************************************************)
EXTENDS BlockingQueue

CONSTANTS t1, t2, t3, a, b

Push(at, mode, v) == [op : {"Push"}, at : {at}, mode : {mode}, value : {v}]
Pop(at, mode)     == [op : {"Pop"}, at : {at}, mode : {mode}]
PopAll(mode)      == [op : {"PopAll"}, mode : {mode}]
Clear             == {[op |-> "Clear"]}

\* Every operation, and every way to wait for both conditions; the two ends of
\* the deque have elements of their own so that they are told apart.
MixedCalls == Push("Back", "Block", a) \cup Push("Back", "Forever", a)
                \cup Push("Front", "Timed", b) \cup Push("Front", "Try", b)
                \cup Pop("Front", "Block") \cup Pop("Front", "Timed")
                \cup Pop("Back", "Forever") \cup Pop("Back", "Try")
                \cup PopAll("Block") \cup PopAll("Timed") \cup PopAll("Try")
                \cup Clear
=============================================================================

------------------------------ MODULE RedisKeys ------------------------------
(***************************************************************************)
(* The two protocols on one Redis key: the lock of                         *)
(* redis_client/redislock.{hpp,cpp} and the sequence of                    *)
(* redis_client/seq_manager.hpp.  A behaviour exercises one of them; they  *)
(* use different keys and have no state in common.                         *)
(*                                                                         *)
(* Redis executes one command at a time.  A command goes through           *)
(* CRedisConnection::ConnRequest (redisclient.cpp): when its reply does    *)
(* not come, it is sent once more over a new connection, and when that     *)
(* fails too the caller gets an error; in both cases Redis may or may not  *)
(* have executed it, and commands of others come in between.               *)
(*                                                                         *)
(* All clients read one clock (milliseconds); the key's value is a stamp   *)
(* of that clock or the number of the sequence.                            *)
(***************************************************************************)
EXTENDS Integers, FiniteSets

CONSTANTS Clients,
          m_maxexpire,      \* the lock's lease
          Sequence_min, Sequence_max, Sequence_step,
          MaxClock,         \* bound on the clock
          MaxFaults,        \* bound on lost replies and failed commands
          MaxGiven,         \* bound on how often one number is handed out
          None

ASSUME KeysAssumption ==
    /\ IsFiniteSet(Clients)
    /\ m_maxexpire \in Nat \ {0}
    /\ Sequence_min \in Nat /\ Sequence_max \in Nat /\ Sequence_step \in Nat \ {0}
    /\ MaxClock \in Nat /\ MaxFaults \in Nat /\ MaxGiven \in Nat
    /\ None \notin Int \cup Clients

VARIABLES
    user,       \* "lock" or "sequence"
    key,        \* the key at the server, None when it does not exist
    clock,
    pc,         \* idle, held, or the command the client is in
    resent,     \* is this the second attempt of the command?
    current,    \* Lock: the stamp it offers, later m_myValue
    seen,       \* Lock: the stamp Get returned
    faults,
    owner,      \* history: the client whose Setnx or steal made the key what it is
    stampLost,  \* history: a stamp was removed or replaced that should have stayed
    given,      \* history: how often each number was handed out
    resets      \* history: how often the sequence was set back

clientVars == <<pc, resent, current, seen>>
server == <<key, owner, stampLost, resets>>
vars == <<user, server, clock, clientVars, faults, given>>

Numbers == 0..(Sequence_max + Sequence_step)

Init ==
    /\ user \in {"lock", "sequence"}
    /\ key = None
    /\ owner = None
    /\ clock = 0
    /\ pc = [c \in Clients |-> "idle"]
    /\ resent = [c \in Clients |-> FALSE]
    /\ current = [c \in Clients |-> None]
    /\ seen = [c \in Clients |-> None]
    /\ faults = 0
    /\ stampLost = FALSE
    /\ given = [n \in Numbers |-> 0]
    /\ resets = 0

\* Wrong on purpose: a mutant of IsExpired that ExclusiveWhileStampsLast must catch.
IsExpiredEarly(stamp) == clock - stamp >= m_maxexpire - 1

IsExpired(stamp) == clock - stamp >= m_maxexpire

\* The client leaves its command; what it no longer needs is forgotten.
Goto(c, next) ==
    /\ pc' = [pc EXCEPT ![c] = next]
    /\ resent' = [resent EXCEPT ![c] = FALSE]
    /\ current' = [current EXCEPT ![c] = IF next = "idle" THEN None ELSE @]
    /\ seen' = [seen EXCEPT ![c] = IF next = "getset" THEN key ELSE None]

\* What the server does.
Value(c) ==
    CASE pc[c] = "setnx"  -> IF key = None THEN current[c] ELSE key
      [] pc[c] = "get"    -> key
      [] pc[c] = "getset" -> current[c]
      [] pc[c] = "del"    -> None
      [] pc[c] = "incrby" -> IF key = None THEN Sequence_step ELSE key + Sequence_step
      [] pc[c] = "set"    -> Sequence_min

\* The client's Getset finds another stamp than the expired one it has seen.
Overwrites(c) == pc[c] = "getset" /\ key \notin {None, seen[c]}

\* A stamp goes that another client owns, or an older one takes its place.
Harms(c) == \/ pc[c] = "del" /\ owner \notin {None, c}
            \/ Overwrites(c) /\ current[c] < key

Execute(c) ==
    /\ key' = Value(c)
    /\ owner' = CASE pc[c] = "del"                                -> None
                  [] pc[c] = "setnx" /\ key = None                -> c
                  [] pc[c] = "getset" /\ ~Overwrites(c)           -> c
                  [] OTHER                                        -> owner
    /\ stampLost' = (stampLost \/ Harms(c))
    /\ resets' = IF pc[c] = "set" THEN resets + 1 ELSE resets

-----------------------------------------------------------------------------
(* Faults of the connection.                                               *)

InCommand(c) == pc[c] \notin {"idle", "held"}

\* The reply is lost (the command was executed or not) and it is sent again.
Resend(c) ==
    /\ InCommand(c)
    /\ ~resent[c]
    /\ faults < MaxFaults
    /\ faults' = faults + 1
    /\ \/ Execute(c)
       \/ UNCHANGED server
    /\ resent' = [resent EXCEPT ![c] = TRUE]
    /\ UNCHANGED <<user, clock, pc, current, seen, given>>

\* Error, without a connection or after the second attempt.  Lock sleeps and
\* starts again; a failed Getset leaves its argument as the answer; UnLock
\* ignores the error; GetSequence returns -1, but ignores a failed Set.
Fail(c) ==
    /\ InCommand(c)
    /\ faults < MaxFaults
    /\ faults' = faults + 1
    /\ \/ resent[c] /\ Execute(c)
       \/ UNCHANGED server
    /\ Goto(c, IF pc[c] = "getset" /\ current[c] = seen[c] THEN "held" ELSE "idle")
    /\ given' = IF pc[c] = "set" THEN [given EXCEPT ![Sequence_min] = @ + 1] ELSE given
    /\ UNCHANGED <<user, clock>>

-----------------------------------------------------------------------------
(* CRedisLock.                                                             *)

\* Lock, and every further round of its loop: read the clock.
Lock(c) ==
    /\ user = "lock"
    /\ pc[c] = "idle"
    /\ pc' = [pc EXCEPT ![c] = "setnx"]
    /\ current' = [current EXCEPT ![c] = clock]
    /\ UNCHANGED <<user, server, clock, resent, seen, faults, given>>

Setnx(c) ==
    /\ pc[c] = "setnx"
    /\ Execute(c)
    /\ Goto(c, IF key = None THEN "held" ELSE "get")
    /\ UNCHANGED <<user, clock, faults, given>>

Get(c) ==
    /\ pc[c] = "get"
    /\ Execute(c)
    /\ Goto(c, IF key # None /\ IsExpired(key) THEN "getset" ELSE "idle")
    /\ UNCHANGED <<user, clock, faults, given>>

\* The old value decides; without one the argument stays what it was.
Getset(c) ==
    /\ pc[c] = "getset"
    /\ Execute(c)
    /\ Goto(c, IF (IF key = None THEN current[c] ELSE key) = seen[c] THEN "held" ELSE "idle")
    /\ UNCHANGED <<user, clock, faults, given>>

\* UnLock: delete the key if the lease has not run out by the client's clock.
UnLock(c) ==
    /\ pc[c] = "held"
    /\ Goto(c, IF clock - current[c] < m_maxexpire THEN "del" ELSE "idle")
    /\ UNCHANGED <<user, server, clock, faults, given>>

Del(c) ==
    /\ pc[c] = "del"
    /\ Execute(c)
    /\ Goto(c, "idle")
    /\ UNCHANGED <<user, clock, faults, given>>

Millisecond ==
    /\ user = "lock"
    /\ clock < MaxClock
    /\ clock' = clock + 1
    /\ UNCHANGED <<user, server, clientVars, faults, given>>

-----------------------------------------------------------------------------
(* CSequenceManager::GetSequence.  Incrby never reports a missing key (it  *)
(* has the default conversion, and Redis counts from 0), so the branch     *)
(* with Setnx is dead.                                                     *)

GetSequence(c) ==
    /\ user = "sequence"
    /\ pc[c] = "idle"
    /\ \A n \in Numbers : given[n] < MaxGiven
    /\ pc' = [pc EXCEPT ![c] = "incrby"]
    /\ UNCHANGED <<user, server, clock, resent, current, seen, faults, given>>

Incrby(c) ==
    /\ pc[c] = "incrby"
    /\ Execute(c)
    /\ \/ Value(c) <= Sequence_max /\ Goto(c, "idle")
          /\ given' = [given EXCEPT ![Value(c)] = @ + 1]
       \/ Value(c) > Sequence_max /\ Goto(c, "set") /\ UNCHANGED given
    /\ UNCHANGED <<user, clock, faults>>

\* Wrong on purpose: a mutant of Set that OncePerLap must catch.
SetForgotten(c) ==
    /\ pc[c] = "set"
    /\ given' = [given EXCEPT ![Sequence_min] = @ + 1]
    /\ Goto(c, "idle")
    /\ UNCHANGED <<user, server, clock, faults>>

Set(c) ==
    /\ pc[c] = "set"
    /\ Execute(c)
    /\ given' = [given EXCEPT ![Sequence_min] = @ + 1]
    /\ Goto(c, "idle")
    /\ UNCHANGED <<user, clock, faults>>

Next ==
    \/ \E c \in Clients :
          \/ Lock(c) \/ Setnx(c) \/ Get(c) \/ Getset(c) \/ UnLock(c) \/ Del(c)
          \/ GetSequence(c) \/ Incrby(c) \/ Set(c)
          \/ Resend(c) \/ Fail(c)
    \/ Millisecond

Spec == Init /\ [][Next]_vars

-----------------------------------------------------------------------------
\* The client believes that it has the lock, and its lease is not over.
Live(c) == pc[c] = "held" /\ clock - current[c] < m_maxexpire

\* redislock.cpp:9-36, :54: two clients hold the lock within their leases only
\* after a stamp was lost: UnLock's Del removed another client's stamp (it came
\* late, or a second time), or the Getset of a client that lost the race put an
\* older stamp over the winner's.  Everything else (equal clocks, steals of
\* expired locks, lost replies, errors) is harmless.
ExclusiveWhileStampsLast ==
    stampLost \/ \A c, d \in Clients : Live(c) /\ Live(d) => c = d

\* seq_manager.hpp:55, :87: clients that meet the maximum together set the
\* sequence back more than once, and a resent Incrby wastes a number; but a
\* number is handed out again only at the price of another reset.  (A failed
\* reset hands out the minimum all the same and pays with a fault.)
OncePerLap == \A n \in Numbers : given[n] <= resets + 1 + faults
=============================================================================

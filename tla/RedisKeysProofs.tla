--------------------------- MODULE RedisKeysProofs ---------------------------
(***************************************************************************)
(* For any number of clients, any lease and any range and step of the      *)
(* sequence: as long as no stamp is lost, at most one client holds the     *)
(* lock within its lease; and a number of the sequence is handed out       *)
(* again only at the price of a reset or a fault.  For any number of       *)
(* threads and connections of the pool below: a command reported done has  *)
(* been executed, and only the repair thread loses or shares a connection. *)
(***************************************************************************)
EXTENDS RedisKeys, RedisPool, TLAPS, FiniteSetTheorems, SequenceTheorems, WellFoundedInduction

TypeOK ==
    /\ user \in {"lock", "sequence"}
    /\ key \in Nat \cup {None}
    /\ clock \in Nat
    /\ pc \in [Clients -> {"idle", "setnx", "get", "getset", "held", "del", "incrby", "set"}]
    /\ resent \in [Clients -> BOOLEAN]
    /\ current \in [Clients -> Nat \cup {None}]
    /\ seen \in [Clients -> Nat \cup {None}]
    /\ faults \in Nat
    /\ owner \in Clients \cup {None}
    /\ stampLost \in BOOLEAN
    /\ given \in [Numbers -> Nat]
    /\ resets \in Nat

\* A behaviour exercises one of the two protocols.
OneProtocol ==
    /\ user = "sequence" => \A c \in Clients : pc[c] \in {"idle", "incrby", "set"}
    /\ user = "lock" => /\ \A c \in Clients : pc[c] \notin {"incrby", "set"}
                        /\ \A n \in Numbers : given[n] = 0

\* A client in Lock has a stamp to offer, and one that is about to steal the
\* lock has seen an expired stamp, which stays expired.
Stamps ==
    \A c \in Clients :
        /\ user = "lock" /\ pc[c] # "idle" => current[c] # None
        /\ pc[c] = "getset" => seen[c] # None /\ IsExpired(seen[c])

\* Why the lock is exclusive: within its lease a holder owns the key, which
\* carries its stamp or a newer one, so that nobody takes it for expired.
LiveOwns ==
    stampLost \/ \A c \in Clients : Live(c) => owner = c /\ key # None /\ key >= current[c]

\* Since the last reset the sequence has only grown: a number above the key
\* has not been handed out in this lap.
LapCount ==
    \A n \in Numbers :
        given[n] <= resets + faults + (IF key # None /\ key >= n THEN 1 ELSE 0)

IInv == TypeOK /\ OneProtocol /\ Stamps /\ LiveOwns /\ (user = "sequence" => LapCount)

-----------------------------------------------------------------------------
\* What a command does at the server, whoever hears of it.
LEMMA ExecuteTypes ==
    ASSUME IInv, NEW c \in Clients, InCommand(c), Execute(c)
    PROVE  /\ key' \in Nat \cup {None} /\ owner' \in Clients \cup {None}
           /\ stampLost' \in BOOLEAN /\ resets' \in Nat
           /\ pc[c] = "incrby" => key' = Value(c) /\ Value(c) \in Nat
  <1>1. /\ key \in Nat \cup {None} /\ current[c] \in Nat \cup {None}
        /\ pc[c] \in {"setnx", "get", "getset", "del", "incrby", "set"}
        /\ owner \in Clients \cup {None} /\ resets \in Nat
    BY DEF IInv, TypeOK, InCommand
  <1>2. Value(c) \in Nat \cup {None} /\ (pc[c] = "incrby" => Value(c) \in Nat)
    BY <1>1, KeysAssumption DEF Value
  <1>3. owner' \in Clients \cup {None}
    BY <1>1 DEF Execute
  <1>4. stampLost' \in BOOLEAN /\ resets' \in Nat
    BY <1>1 DEF Execute
  <1> QED
    BY <1>2, <1>3, <1>4 DEF Execute

\* A command of c leaves the lock with the client that holds it, unless it
\* makes a stamp disappear.
LEMMA ExecuteSparesOthers ==
    ASSUME IInv, NEW c \in Clients, InCommand(c), Execute(c),
           ~stampLost', NEW d \in Clients, d # c, Live(d)
    PROVE  owner' = d /\ key' # None /\ key' >= current[d]
  <1>1. ~stampLost /\ ~Harms(c)
    BY DEF Execute
  <1>2. owner = d /\ key # None /\ key >= current[d]
    BY <1>1 DEF IInv, LiveOwns
  <1>3. user = "lock" /\ pc[c] \in {"setnx", "get", "getset", "del"}
    BY DEF IInv, TypeOK, OneProtocol, Live, InCommand
  <1>4. key \in Nat /\ current[d] \in Nat /\ current[c] \in Nat /\ clock \in Nat
    BY <1>2, <1>3 DEF IInv, TypeOK, Stamps, Live, InCommand
  <1>5. d # None
    BY KeysAssumption
  <1>6. CASE pc[c] \in {"setnx", "get"}
    BY <1>2, <1>6 DEF Execute, Value
  <1>7. CASE pc[c] = "del"
    BY <1>1, <1>2, <1>5, <1>7 DEF Harms
  <1>8. CASE pc[c] = "getset"
    <2>1. seen[c] \in Nat /\ clock - seen[c] >= m_maxexpire /\ clock - current[d] < m_maxexpire
      BY <1>8 DEF IInv, TypeOK, Stamps, IsExpired, Live
    <2>2. key # seen[c]
      BY <1>2, <1>4, <2>1, KeysAssumption
    <2>3. Overwrites(c)
      BY <1>2, <1>8, <2>2 DEF Overwrites
    <2>4. key' = current[c] /\ owner' = owner
      BY <1>8, <2>3 DEF Execute, Value
    <2>5. ~(current[c] < key)
      BY <1>1, <2>3 DEF Harms
    <2>6. current[c] # None
      BY <1>4, KeysAssumption
    <2> QED
      BY <1>2, <1>4, <2>4, <2>5, <2>6
  <1> QED
    BY <1>3, <1>6, <1>7, <1>8

\* No command makes a number available again without a reset.
LEMMA ExecuteCountsLaps ==
    ASSUME IInv, user = "sequence", NEW c \in Clients, InCommand(c), Execute(c),
           NEW n \in Numbers
    PROVE  /\ given[n] <= resets' + faults + (IF key' # None /\ key' >= n THEN 1 ELSE 0)
           /\ pc[c] = "incrby" /\ Value(c) = n => given[n] <= resets' + faults
           /\ pc[c] = "set" => given[n] <= resets' + faults
  <1>1. /\ key \in Nat \cup {None} /\ resets \in Nat /\ faults \in Nat /\ given[n] \in Nat
        /\ n \in Nat /\ pc[c] \in {"incrby", "set"}
    BY KeysAssumption DEF IInv, TypeOK, OneProtocol, InCommand, Numbers
  <1>2. given[n] <= resets + faults + (IF key # None /\ key >= n THEN 1 ELSE 0)
    BY DEF IInv, LapCount
  <1>3. None \notin Nat /\ Sequence_step \in Nat \ {0} /\ Sequence_min \in Nat
    BY KeysAssumption
  <1>4. CASE pc[c] = "incrby"
    <2>1. /\ key' = Value(c) /\ resets' = resets
          /\ Value(c) = IF key = None THEN Sequence_step ELSE key + Sequence_step
      BY <1>4 DEF Execute, Value
    <2>2. Value(c) \in Nat /\ (key # None => Value(c) > key)
      BY <1>1, <1>3, <2>1
    <2> QED
      BY <1>1, <1>2, <1>3, <1>4, <2>1, <2>2
  <1>5. CASE pc[c] = "set"
    <2>1. resets' = resets + 1 /\ key' = Sequence_min
      BY <1>5 DEF Execute, Value
    <2> QED
      BY <1>1, <1>2, <1>3, <1>5, <2>1
  <1> QED
    BY <1>1, <1>4, <1>5

-----------------------------------------------------------------------------
\* The server's state, whether or not a command of c was executed.
LEMMA ServerTypes ==
    ASSUME IInv, NEW c \in Clients, InCommand(c), Execute(c) \/ UNCHANGED server
    PROVE  /\ key' \in Nat \cup {None} /\ owner' \in Clients \cup {None}
           /\ stampLost' \in BOOLEAN /\ resets' \in Nat
           /\ ~stampLost' => \A d \in Clients :
                 d # c /\ Live(d) => owner' = d /\ key' # None /\ key' >= current[d]
  <1>1. CASE Execute(c)
    BY <1>1, ExecuteTypes, ExecuteSparesOthers
  <1>2. CASE UNCHANGED server
    BY <1>2 DEF server, IInv, TypeOK, LiveOwns
  <1> QED
    BY <1>1, <1>2

\* A client leaves its command for the next one, the lock, or its caller.  If
\* it gets the lock it owns the key, or its stamp is too old to count.
LEMMA LeaveStep ==
    ASSUME IInv, NEW c \in Clients, InCommand(c), Execute(c) \/ UNCHANGED server,
           user' = user, clock' = clock, faults' \in Nat, given' \in [Numbers -> Nat],
           NEW next \in {"idle", "get", "getset", "held", "set"}, Goto(c, next),
           user = "lock" => next # "set" /\ given' = given,
           user = "sequence" => next \in {"idle", "set"},
           next = "getset" => key # None /\ IsExpired(key),
           next = "held" => IsExpired(current[c]) \/ (owner' = c /\ key' = current[c])
    PROVE  TypeOK' /\ OneProtocol' /\ Stamps' /\ LiveOwns'
  <1>1. /\ pc \in [Clients -> {"idle", "setnx", "get", "getset", "held", "del", "incrby", "set"}]
        /\ resent \in [Clients -> BOOLEAN] /\ current \in [Clients -> Nat \cup {None}]
        /\ seen \in [Clients -> Nat \cup {None}] /\ key \in Nat \cup {None}
        /\ user \in {"lock", "sequence"} /\ clock \in Nat /\ pc[c] # "idle"
    BY DEF IInv, TypeOK, InCommand
  <1>2. /\ key' \in Nat \cup {None} /\ owner' \in Clients \cup {None}
        /\ stampLost' \in BOOLEAN /\ resets' \in Nat
        /\ ~stampLost' => \A d \in Clients :
              d # c /\ Live(d) => owner' = d /\ key' # None /\ key' >= current[d]
    BY ServerTypes
  <1>3. /\ pc' = [pc EXCEPT ![c] = next]
        /\ current' = [current EXCEPT ![c] = IF next = "idle" THEN None ELSE @]
        /\ resent' = [resent EXCEPT ![c] = FALSE]
        /\ seen' = [seen EXCEPT ![c] = IF next = "getset" THEN key ELSE None]
    BY DEF Goto
  <1>4. TypeOK'
    BY <1>1, <1>2, <1>3 DEF TypeOK
  <1>5. /\ pc'[c] = next /\ (next # "idle" => current'[c] = current[c])
        /\ seen'[c] = IF next = "getset" THEN key ELSE None
        /\ \A d \in Clients : d # c => /\ pc'[d] = pc[d] /\ current'[d] = current[d]
                                       /\ seen'[d] = seen[d]
    BY <1>1, <1>3
  <1>6. OneProtocol'
    BY <1>5 DEF IInv, OneProtocol
  <1>7. Stamps'
    <2> SUFFICES ASSUME NEW d \in Clients
                 PROVE  /\ user = "lock" /\ pc'[d] # "idle" => current'[d] # None
                        /\ pc'[d] = "getset" => seen'[d] # None /\ IsExpired(seen'[d])
      BY DEF Stamps, IsExpired
    <2>1. CASE d = c
      BY <1>1, <1>5, <2>1 DEF IInv, Stamps
    <2>2. CASE d # c
      BY <1>5, <2>2 DEF IInv, Stamps
    <2> QED
      BY <2>1, <2>2
  <1>8. LiveOwns'
    <2> SUFFICES ASSUME ~stampLost', NEW d \in Clients, Live(d)'
                 PROVE  owner' = d /\ key' # None /\ key' >= current'[d]
      BY DEF LiveOwns
    <2>1. pc'[d] = "held" /\ clock - current'[d] < m_maxexpire
      BY DEF Live
    <2>2. CASE d # c
      BY <1>2, <1>5, <2>1, <2>2 DEF Live
    <2>3. CASE d = c
      <3>1. next = "held" /\ current'[c] = current[c]
        BY <1>5, <2>1, <2>3
      <3>2. user = "lock" /\ current[c] \in Nat
        BY <1>1, <3>1 DEF IInv, Stamps
      <3>3. owner' = c /\ key' = current[c]
        BY <1>1, <2>1, <2>3, <3>1, <3>2, KeysAssumption DEF IsExpired
      <3> QED
        BY <2>3, <3>1, <3>2, <3>3, KeysAssumption
    <2> QED
      BY <2>2, <2>3
  <1> QED
    BY <1>4, <1>6, <1>7, <1>8

\* redislock.cpp:9-36: the commands of the lock that are answered.
LEMMA LockCommandStep ==
    ASSUME IInv, NEW c \in Clients, Setnx(c) \/ Get(c) \/ Getset(c) \/ Del(c)
    PROVE  IInv'
  <1>1. /\ pc[c] \in {"setnx", "get", "getset", "del"} /\ Execute(c) /\ user' = user
        /\ clock' = clock /\ faults' = faults /\ given' = given
    BY DEF Setnx, Get, Getset, Del
  <1>2. InCommand(c) /\ user = "lock" /\ faults' \in Nat /\ given' \in [Numbers -> Nat]
    BY <1>1 DEF InCommand, IInv, TypeOK, OneProtocol
  <1>3. current[c] \in Nat /\ key \in Nat \cup {None} /\ (pc[c] = "getset" => IsExpired(seen[c]))
    BY <1>1, <1>2 DEF IInv, TypeOK, Stamps
  <1>4. TypeOK' /\ OneProtocol' /\ Stamps' /\ LiveOwns'
    <2>1. ASSUME NEW next \in {"idle", "get", "getset", "held"}, Goto(c, next),
                 next = "getset" => key # None /\ IsExpired(key),
                 next = "held" => IsExpired(current[c]) \/ (owner' = c /\ key' = current[c])
          PROVE  TypeOK' /\ OneProtocol' /\ Stamps' /\ LiveOwns'
      BY <1>1, <1>2, <2>1, LeaveStep
    <2>2. CASE Setnx(c)
      <3>1. Goto(c, IF key = None THEN "held" ELSE "get") /\ pc[c] = "setnx"
        BY <2>2 DEF Setnx
      <3>2. key = None => owner' = c /\ key' = current[c]
        BY <1>1, <3>1 DEF Execute, Value
      <3> QED
        BY <2>1, <3>1, <3>2
    <2>3. CASE Get(c)
      <3>1. Goto(c, IF key # None /\ IsExpired(key) THEN "getset" ELSE "idle")
        BY <2>3 DEF Get
      <3> QED
        BY <2>1, <3>1
    <2>4. CASE Getset(c)
      <3> DEFINE old == IF key = None THEN current[c] ELSE key
      <3>1. Goto(c, IF old = seen[c] THEN "held" ELSE "idle") /\ pc[c] = "getset"
        BY <2>4 DEF Getset
      <3>2. CASE key = None /\ old = seen[c]
        <4>1. Goto(c, "held") /\ IsExpired(current[c])
          BY <1>3, <3>1, <3>2
        <4> QED
          BY <2>1, <4>1
      <3>3. CASE key # None /\ old = seen[c]
        <4>1. ~Overwrites(c)
          BY <3>3 DEF Overwrites
        <4>2. owner' = c /\ key' = current[c]
          BY <1>1, <3>1, <4>1 DEF Execute, Value
        <4> QED
          BY <2>1, <3>1, <3>3, <4>2
      <3>4. CASE old # seen[c]
        BY <2>1, <3>1, <3>4
      <3> QED
        BY <3>2, <3>3, <3>4
    <2>5. CASE Del(c)
      BY <2>1, <2>5 DEF Del
    <2> QED
      BY <2>2, <2>3, <2>4, <2>5
  <1> QED
    BY <1>1, <1>2, <1>4 DEF IInv

\* One more of a number, if it is one that is counted.
LEMMA HandOut ==
    ASSUME NEW g \in [Numbers -> Nat], NEW m
    PROVE  /\ [g EXCEPT ![m] = @ + 1] \in [Numbers -> Nat]
           /\ \A n \in Numbers : [g EXCEPT ![m] = @ + 1][n] = IF n = m THEN g[n] + 1 ELSE g[n]
  <1> DEFINE h == [g EXCEPT ![m] = @ + 1]
  <1>1. DOMAIN h = Numbers /\ \A n \in Numbers : h[n] = IF n = m THEN g[n] + 1 ELSE g[n]
    OBVIOUS
  <1>2. h = [n \in Numbers |-> h[n]]
    BY <1>1
  <1>3. \A n \in Numbers : h[n] \in Nat
    BY <1>1
  <1> HIDE DEF h
  <1>4. h \in [Numbers -> Nat]
    BY <1>2, <1>3
  <1> QED
    BY <1>1, <1>4 DEF h

\* seq_manager.hpp:40-90: the commands of the sequence that are answered.
LEMMA SequenceCommandStep ==
    ASSUME IInv, NEW c \in Clients, Incrby(c) \/ Set(c)
    PROVE  IInv'
  <1>1. /\ pc[c] \in {"incrby", "set"} /\ Execute(c) /\ user' = user
        /\ clock' = clock /\ faults' = faults
    BY DEF Incrby, Set
  <1>2. /\ InCommand(c) /\ user = "sequence" /\ faults' \in Nat
        /\ given \in [Numbers -> Nat] /\ key' \in Nat \cup {None} /\ resets' \in Nat
        /\ (pc[c] = "incrby" => key' = Value(c) /\ Value(c) \in Nat) /\ faults \in Nat
    BY <1>1, ExecuteTypes DEF InCommand, IInv, TypeOK, OneProtocol
  <1>3. \A n \in Numbers :
          /\ given[n] <= resets' + faults + (IF key' # None /\ key' >= n THEN 1 ELSE 0)
          /\ pc[c] = "incrby" /\ Value(c) = n => given[n] <= resets' + faults
          /\ pc[c] = "set" => given[n] <= resets' + faults
    BY <1>1, <1>2, ExecuteCountsLaps
  <1>4. None \notin Nat /\ Numbers \subseteq Nat
    BY KeysAssumption DEF Numbers
  <1>5. ASSUME NEW next \in {"idle", "set"}, Goto(c, next), given' \in [Numbers -> Nat], LapCount'
        PROVE  IInv'
    BY <1>1, <1>2, <1>5, LeaveStep DEF IInv
  <1>6. CASE Incrby(c) /\ Value(c) <= Sequence_max
    <2>1. /\ Goto(c, "idle") /\ given' = [given EXCEPT ![Value(c)] = @ + 1] /\ pc[c] = "incrby"
      BY <1>2, <1>6, KeysAssumption DEF Incrby
    <2>2. given' \in [Numbers -> Nat]
      BY <1>2, <2>1, HandOut
    <2>3. \A n \in Numbers : given'[n] = IF n = Value(c) THEN given[n] + 1 ELSE given[n]
      BY <1>2, <2>1, HandOut
    <2>4. LapCount'
      <3> SUFFICES ASSUME NEW n \in Numbers
                   PROVE  given'[n] <= resets' + faults
                                         + (IF key' # None /\ key' >= n THEN 1 ELSE 0)
        BY <1>1 DEF LapCount
      <3>1. CASE n = Value(c)
        <4>1. key' = n /\ n # None /\ given[n] <= resets' + faults /\ given'[n] = given[n] + 1
          BY <1>2, <1>3, <1>4, <2>1, <2>3, <3>1
        <4> QED
          BY <1>2, <1>4, <4>1
      <3>2. CASE n # Value(c)
        BY <1>3, <2>3, <3>2
      <3> QED
        BY <3>1, <3>2
    <2> QED
      BY <1>5, <2>1, <2>2, <2>4
  <1>7. CASE Incrby(c) /\ Value(c) > Sequence_max
    <2>1. Goto(c, "set") /\ given' = given
      <3>1. ~(Value(c) <= Sequence_max)
        BY <1>2, <1>7, KeysAssumption DEF Incrby
      <3> QED
        BY <1>7, <3>1 DEF Incrby
    <2>2. LapCount'
      BY <1>1, <1>3, <2>1 DEF LapCount
    <2> QED
      BY <1>2, <1>5, <2>1, <2>2
  <1>8. CASE Set(c)
    <2>1. /\ Goto(c, "idle") /\ given' = [given EXCEPT ![Sequence_min] = @ + 1] /\ pc[c] = "set"
      BY <1>8 DEF Set
    <2>2. given' \in [Numbers -> Nat]
      BY <1>2, <2>1, HandOut
    <2>3. \A n \in Numbers : given'[n] = IF n = Sequence_min THEN given[n] + 1 ELSE given[n]
      BY <1>2, <2>1, HandOut
    <2>4. key' = Sequence_min
      BY <1>1, <2>1 DEF Execute, Value
    <2>5. LapCount'
      <3> SUFFICES ASSUME NEW n \in Numbers
                   PROVE  given'[n] <= resets' + faults
                                         + (IF key' # None /\ key' >= n THEN 1 ELSE 0)
        BY <1>1 DEF LapCount
      <3>1. given[n] <= resets' + faults /\ given[n] \in Nat /\ n \in Nat /\ n # None
        BY <1>2, <1>3, <1>4, <2>1
      <3> QED
        BY <1>2, <2>3, <2>4, <3>1
    <2> QED
      BY <1>5, <2>1, <2>2, <2>5
  <1> QED
    BY <1>6, <1>7, <1>8 DEF Incrby

-----------------------------------------------------------------------------
\* Lock reads the clock, UnLock looks at it, GetSequence starts: no command yet.
LEMMA QuietStep ==
    ASSUME IInv, NEW c \in Clients, Lock(c) \/ UnLock(c) \/ GetSequence(c)
    PROVE  IInv'
  <1>1. /\ user' = user /\ clock' = clock /\ faults' = faults /\ given' = given
        /\ key' = key /\ owner' = owner /\ stampLost' = stampLost /\ resets' = resets
    BY DEF Lock, UnLock, GetSequence, server
  <1>2. /\ pc'[c] \in {"setnx", "del", "idle", "incrby"}
        /\ \A d \in Clients : d # c => /\ pc'[d] = pc[d] /\ current'[d] = current[d]
                                       /\ seen'[d] = seen[d]
        /\ user = "lock" => /\ pc'[c] # "incrby"
                            /\ pc'[c] # "idle" => current'[c] # None
        /\ user = "sequence" => pc'[c] \in {"idle", "incrby"}
    BY KeysAssumption
       DEF Lock, UnLock, GetSequence, Goto, IInv, TypeOK, OneProtocol, Stamps
  <1>3. TypeOK'
    BY <1>1, ZenonT(30) DEF IInv, TypeOK, Lock, UnLock, GetSequence, Goto
  <1>4. OneProtocol'
    BY <1>1, <1>2 DEF IInv, OneProtocol
  <1>5. Stamps'
    <2> SUFFICES ASSUME NEW d \in Clients
                 PROVE  /\ user = "lock" /\ pc'[d] # "idle" => current'[d] # None
                        /\ pc'[d] = "getset" => seen'[d] # None /\ IsExpired(seen'[d])
      BY <1>1 DEF Stamps, IsExpired
    <2> QED
      BY <1>2 DEF IInv, Stamps
  <1>6. LiveOwns'
    <2> SUFFICES ASSUME ~stampLost, NEW d \in Clients, Live(d)'
                 PROVE  owner = d /\ key # None /\ key >= current'[d]
      BY <1>1 DEF LiveOwns
    <2>1. d # c /\ Live(d) /\ current'[d] = current[d]
      BY <1>1, <1>2 DEF Live
    <2> QED
      BY <2>1 DEF IInv, LiveOwns
  <1>7. user = "sequence" => LapCount'
    BY <1>1 DEF IInv, LapCount
  <1> QED
    BY <1>1, <1>3, <1>4, <1>5, <1>6, <1>7 DEF IInv

\* The clock moves on: leases run out, and what has expired stays expired.
LEMMA MillisecondStep ==
    ASSUME IInv, Millisecond
    PROVE  IInv'
  <1>1. /\ user = "lock" /\ user' = user /\ clock' = clock + 1 /\ faults' = faults
        /\ given' = given /\ key' = key /\ owner' = owner /\ stampLost' = stampLost
        /\ resets' = resets /\ pc' = pc /\ current' = current /\ seen' = seen
        /\ resent' = resent
    BY DEF Millisecond, server, clientVars
  <1>2. clock \in Nat /\ clock' \in Nat /\ m_maxexpire \in Nat
    BY <1>1, KeysAssumption DEF IInv, TypeOK
  <1>3. TypeOK' /\ OneProtocol'
    BY <1>1, <1>2 DEF IInv, TypeOK, OneProtocol
  <1>4. Stamps'
    <2> SUFFICES ASSUME NEW d \in Clients
                 PROVE  /\ pc[d] # "idle" => current[d] # None
                        /\ pc[d] = "getset" => seen[d] # None /\ (clock + 1) - seen[d] >= m_maxexpire
      BY <1>1 DEF Stamps, IsExpired
    <2>1. seen[d] \in Nat \cup {None}
      BY DEF IInv, TypeOK
    <2> QED
      BY <1>1, <1>2, <2>1 DEF IInv, Stamps, IsExpired
  <1>5. LiveOwns'
    <2> SUFFICES ASSUME ~stampLost, NEW d \in Clients, Live(d)'
                 PROVE  owner = d /\ key # None /\ key >= current[d]
      BY <1>1 DEF LiveOwns
    <2>1. pc[d] = "held" /\ (clock + 1) - current[d] < m_maxexpire
      BY <1>1 DEF Live
    <2>2. current[d] \in Nat
      BY <1>1, <2>1 DEF IInv, TypeOK, Stamps
    <2>3. Live(d)
      BY <1>2, <2>1, <2>2 DEF Live
    <2> QED
      BY <2>3 DEF IInv, LiveOwns
  <1> QED
    BY <1>1, <1>3, <1>4, <1>5 DEF IInv

\* redisclient.cpp: the reply is lost and the command goes out a second time.
LEMMA ResendStep ==
    ASSUME IInv, NEW c \in Clients, Resend(c)
    PROVE  IInv'
  <1>1. /\ InCommand(c) /\ (Execute(c) \/ UNCHANGED server) /\ user' = user /\ clock' = clock
        /\ pc' = pc /\ current' = current /\ seen' = seen /\ given' = given
        /\ faults' = faults + 1 /\ resent' = [resent EXCEPT ![c] = TRUE]
    BY DEF Resend
  <1>2. /\ key' \in Nat \cup {None} /\ owner' \in Clients \cup {None}
        /\ stampLost' \in BOOLEAN /\ resets' \in Nat
        /\ ~stampLost' => \A d \in Clients :
              d # c /\ Live(d) => owner' = d /\ key' # None /\ key' >= current[d]
    BY <1>1, ServerTypes
  <1>3. TypeOK' /\ OneProtocol'
    BY <1>1, <1>2 DEF IInv, TypeOK, OneProtocol
  <1>4. Stamps'
    BY <1>1 DEF IInv, Stamps, IsExpired
  <1>5. LiveOwns'
    <2> SUFFICES ASSUME ~stampLost', NEW d \in Clients, Live(d)'
                 PROVE  owner' = d /\ key' # None /\ key' >= current[d]
      BY <1>1 DEF LiveOwns
    <2>1. Live(d) /\ d # c
      BY <1>1 DEF Live, InCommand
    <2> QED
      BY <1>2, <2>1
  <1>6. ASSUME user = "sequence"
        PROVE  LapCount'
    <2> SUFFICES ASSUME NEW n \in Numbers
                 PROVE  given[n] <= resets' + (faults + 1)
                                      + (IF key' # None /\ key' >= n THEN 1 ELSE 0)
      BY <1>1 DEF LapCount
    <2> DEFINE one == IF key' # None /\ key' >= n THEN 1 ELSE 0
    <2>1. given[n] <= resets' + faults + one
      BY <1>1, <1>6, ExecuteCountsLaps DEF server, IInv, LapCount
    <2>2. given[n] \in Nat /\ faults \in Nat /\ one \in Nat
      BY DEF IInv, TypeOK
    <2> HIDE DEF one
    <2>3. given[n] <= resets' + (faults + 1) + one
      BY <1>2, <2>1, <2>2
    <2> QED
      BY <2>3 DEF one
  <1> QED
    BY <1>1, <1>3, <1>4, <1>5, <1>6 DEF IInv

\* The caller gets an error.  Only a Getset whose answer stays what it was sent
\* with looks like a success, and then the stamp is an expired one; only a
\* failed reset hands out a number, and it is paid for with the fault.
LEMMA FailStep ==
    ASSUME IInv, NEW c \in Clients, Fail(c)
    PROVE  IInv'
  <1> DEFINE next == IF pc[c] = "getset" /\ current[c] = seen[c] THEN "held" ELSE "idle"
  <1>1. /\ InCommand(c) /\ (Execute(c) \/ UNCHANGED server) /\ user' = user /\ clock' = clock
        /\ Goto(c, next) /\ faults' = faults + 1
        /\ given' = IF pc[c] = "set" THEN [given EXCEPT ![Sequence_min] = @ + 1] ELSE given
    BY DEF Fail
  <1>2. /\ given \in [Numbers -> Nat] /\ faults \in Nat /\ faults' \in Nat
        /\ user \in {"lock", "sequence"} /\ Numbers \subseteq Nat
    BY <1>1, KeysAssumption DEF IInv, TypeOK, Numbers
  <1>3. given' \in [Numbers -> Nat]
        /\ \A n \in Numbers : given'[n] \in {given[n], given[n] + 1}
    BY <1>1, <1>2, HandOut
  <1>4. next \in {"idle", "held"} /\ (next = "held" => IsExpired(current[c]) /\ user = "lock")
    BY <1>2 DEF IInv, Stamps, OneProtocol
  <1>5. user = "lock" => given' = given
    BY <1>1 DEF IInv, OneProtocol
  <1> HIDE DEF next
  <1>6. TypeOK' /\ OneProtocol' /\ Stamps' /\ LiveOwns'
    <2>1. next = "idle" \/ next = "held"
      BY <1>4
    <2>2. CASE next = "idle"
      BY <1>1, <1>2, <1>3, <1>5, <2>2, LeaveStep
    <2>3. CASE next = "held"
      <3>1. user = "lock" /\ IsExpired(current[c])
        BY <1>4, <2>3
      <3> QED
        BY <1>1, <1>2, <1>3, <1>5, <2>3, <3>1, LeaveStep DEF IsExpired
    <2> QED
      BY <2>1, <2>2, <2>3
  <1>7. ASSUME user = "sequence"
        PROVE  LapCount'
    <2> SUFFICES ASSUME NEW n \in Numbers
                 PROVE  given'[n] <= resets' + (faults + 1)
                                      + (IF key' # None /\ key' >= n THEN 1 ELSE 0)
      BY <1>1 DEF LapCount
    <2> DEFINE one == IF key' # None /\ key' >= n THEN 1 ELSE 0
    <2>1. given[n] <= resets' + faults + one
      BY <1>1, <1>7, ExecuteCountsLaps DEF server, IInv, LapCount
    <2>2. given[n] \in Nat /\ one \in Nat /\ resets' \in Nat
      BY <1>1, <1>2, ServerTypes
    <2>3. given'[n] \in {given[n], given[n] + 1}
      BY <1>3
    <2> HIDE DEF one
    <2>4. given'[n] <= resets' + (faults + 1) + one
      BY <1>2, <2>1, <2>2, <2>3
    <2> QED
      BY <2>4 DEF one
  <1> QED
    BY <1>1, <1>6, <1>7 DEF IInv

-----------------------------------------------------------------------------
\* The inductive invariant holds throughout.
THEOREM Invariance == Spec => []IInv
  <1>1. Init => IInv
    <2> SUFFICES ASSUME Init PROVE IInv
      OBVIOUS
    <2>1. TypeOK
      BY KeysAssumption DEF Init, TypeOK
    <2>2. OneProtocol /\ Stamps /\ LiveOwns
      BY DEF Init, OneProtocol, Stamps, LiveOwns, Live
    <2>3. LapCount
      BY DEF Init, LapCount
    <2> QED
      BY <2>1, <2>2, <2>3 DEF IInv
  <1>2. IInv /\ [Next]_vars => IInv'
    <2> SUFFICES ASSUME IInv, [Next]_vars PROVE IInv'
      OBVIOUS
    <2>1. CASE UNCHANGED vars
      <3>1. /\ user' = user /\ clock' = clock /\ faults' = faults
            /\ given' = given /\ key' = key /\ owner' = owner /\ stampLost' = stampLost
            /\ resets' = resets /\ pc' = pc /\ current' = current /\ seen' = seen
            /\ resent' = resent
        BY <2>1 DEF vars, server, clientVars
      <3> QED
        BY <3>1 DEF IInv, TypeOK, OneProtocol, Stamps, LiveOwns, Live, LapCount, IsExpired
    <2> QED
      BY <2>1, LockCommandStep, SequenceCommandStep, QuietStep, MillisecondStep, ResendStep,
         FailStep DEF Next
  <1> QED
    BY <1>1, <1>2, PTL DEF Spec

\* redislock.cpp:9-36, :54: while no stamp is lost, no two clients hold the lock
\* within their leases, however many there are and whatever replies are lost.
THEOREM ExclusiveCorrect == Spec => []ExclusiveWhileStampsLast
  <1>1. IInv => ExclusiveWhileStampsLast
    BY DEF IInv, LiveOwns, ExclusiveWhileStampsLast
  <1> QED
    BY <1>1, Invariance, PTL

\* seq_manager.hpp:55, :87: for every range and step, a number is handed out
\* again only at the price of another reset or a fault.
THEOREM OncePerLapCorrect == Spec => []OncePerLap
  <1>1. IInv => OncePerLap
    <2> SUFFICES ASSUME IInv, NEW n \in Numbers
                 PROVE  given[n] <= resets + 1 + faults
      BY DEF OncePerLap
    <2>1. given[n] \in Nat /\ resets \in Nat /\ faults \in Nat /\ user \in {"lock", "sequence"}
      BY DEF IInv, TypeOK
    <2>2. CASE user = "lock"
      BY <2>1, <2>2 DEF IInv, OneProtocol
    <2>3. CASE user = "sequence"
      BY <2>1, <2>3 DEF IInv, LapCount
    <2> QED
      BY <2>1, <2>2, <2>3
  <1> QED
    BY <1>1, Invariance, PTL

-----------------------------------------------------------------------------
(* RedisPool: the connections the commands go over.                        *)

\* How often a command can have been executed at each stage of its thread, and
\* what the thread can report: the resend is reached without a result.
Sent ==
    /\ at \in [Threads -> {"idle", "fetch", "connect", "request", "reconnect", "resend", "return"}]
    /\ nRet \in [Threads -> BOOLEAN]
    /\ executed \in [Threads -> Nat]
    /\ \A t \in Threads :
          /\ at[t] \in {"idle", "fetch", "connect", "request"} => executed[t] = 0
          /\ at[t] \in {"reconnect", "resend"} => executed[t] <= 1
          /\ at[t] = "return" => executed[t] <= 2
          /\ nRet[t] => at[t] = "return" /\ executed[t] >= 1

\* redisclient.cpp:848-858: with any number of threads and connections, a
\* command reported done was executed, and none more than twice.
THEOREM ResultMeansExecutedCorrect == PoolSpec => []ResultMeansExecuted
  <1>1. PoolInit => Sent
    BY DEF PoolInit, Sent
  <1>2. Sent /\ [PoolNext]_poolVars => Sent'
    <2> SUFFICES ASSUME Sent, [PoolNext]_poolVars PROVE Sent'
      OBVIOUS
    <2>1. ASSUME NEW t \in Threads, ServRequest(t) PROVE Sent'
      BY <2>1 DEF Sent, ServRequest, MoveTo
    <2>2. ASSUME NEW t \in Threads, FetchConnection(t) PROVE Sent'
      BY <2>2 DEF Sent, FetchConnection, MoveTo
    <2>3. ASSUME NEW t \in Threads, FetchNothing(t) PROVE Sent'
      BY <2>3 DEF Sent, FetchNothing, MoveTo
    <2>4. ASSUME NEW t \in Threads, Reconnect(t) PROVE Sent'
      BY <2>4 DEF Sent, Reconnect, MoveTo
    <2>5. ASSUME NEW t \in Threads, CmdRequest(t) PROVE Sent'
      BY <2>5 DEF Sent, CmdRequest, MoveTo
    <2>6. ASSUME NEW t \in Threads, CmdRequestError(t) PROVE Sent'
      BY <2>6 DEF Sent, CmdRequestError, MoveTo
    <2>7. ASSUME NEW t \in Threads, ReturnConnection(t) PROVE Sent'
      BY <2>7 DEF Sent, ReturnConnection, MoveTo
    <2>8. CASE CheckReconnect \/ CheckPush \/ UNCHANGED poolVars
      BY <2>8 DEF Sent, CheckReconnect, CheckPush, poolVars, threadVars
    <2> QED
      BY <2>1, <2>2, <2>3, <2>4, <2>5, <2>6, <2>7, <2>8 DEF PoolNext, Step
  <1>3. Sent => ResultMeansExecuted
    BY DEF Sent, ResultMeansExecuted
  <1> QED
    BY <1>1, <1>2, <1>3, PTL DEF PoolSpec

-----------------------------------------------------------------------------
(* RedisPool: where the connections are.                                   *)

\* The natural numbers are the least set with 0 and successors: induction,
\* stated for a set so that the provers can apply it.
LEMMA SetInduction ==
    ASSUME NEW S, 0 \in S, \A n \in Nat : n \in S => n + 1 \in S
    PROVE  Nat \subseteq S
  <1> DEFINE R == OpToRel(<, Nat)
             T == Nat \ S
  <1>1. IsWellFoundedOn(R, Nat)
    BY NatLessThanWellFounded, Zenon
  <1>2. \A x, y \in Nat : x < y => <<x, y>> \in R
    BY DEF OpToRel
  <1> HIDE DEF R
  <1>3. SUFFICES ASSUME T # {} PROVE FALSE
    OBVIOUS
  <1>4. T \subseteq Nat
    OBVIOUS
  <1> HIDE DEF T
  <1>5. PICK n \in T : \A m \in T : ~(<<m, n>> \in R)
    BY <1>1, <1>3, <1>4, WFMin
  <1>6. n \in Nat /\ n # 0 /\ n \notin S
    BY DEF T
  <1>7. n - 1 \in Nat /\ n - 1 < n
    BY <1>6
  <1>8. n - 1 \notin T
    BY <1>2, <1>5, <1>6, <1>7
  <1>9. n - 1 \in S
    BY <1>7, <1>8 DEF T
  <1>10. (n - 1) + 1 \in S
    BY <1>7, <1>9
  <1> QED
    BY <1>6, <1>10

\* e goes through the positions T in their order.
Enumerates(e, T) ==
    /\ e \in [1..Cardinality(T) -> T]
    /\ \A i, j \in 1..Cardinality(T) : i < j => e[i] < e[j]

\* Some enumeration does.
LEMMA EnumerationExists ==
    ASSUME NEW n \in Nat, NEW T \in SUBSET (1..n)
    PROVE  IsFiniteSet(T) /\ \E e : Enumerates(e, T)
  <1> DEFINE S == {m \in Nat : \A U \in SUBSET (1..m) : IsFiniteSet(U) /\ \E e : Enumerates(e, U)}
  <1>1. 0 \in S
    <2> SUFFICES ASSUME NEW U \in SUBSET (1..0) PROVE IsFiniteSet(U) /\ \E e : Enumerates(e, U)
      OBVIOUS
    <2>1. U = {}
      OBVIOUS
    <2>2. IsFiniteSet(U) /\ Cardinality(U) = 0
      BY <2>1, FS_EmptySet
    <2> DEFINE f == [i \in 1..0 |-> 0]
    <2>3. 1..Cardinality(U) = {} /\ 1..0 = {}
      BY <2>2
    <2>4. f \in [1..Cardinality(U) -> U]
      BY <2>3
    <2>5. Enumerates(f, U)
      BY <2>3, <2>4 DEF Enumerates
    <2> QED
      BY <2>2, <2>5
  <1>2. ASSUME NEW m \in Nat, m \in S PROVE m + 1 \in S
    <2> SUFFICES ASSUME NEW U \in SUBSET (1..(m + 1)) PROVE IsFiniteSet(U) /\ \E e : Enumerates(e, U)
      OBVIOUS
    <2> DEFINE V == U \ {m + 1}
    <2>1. V \in SUBSET (1..m)
      BY SMT
    <2>2. IsFiniteSet(V) /\ \E e : Enumerates(e, V)
      BY <1>2, <2>1
    <2>3. CASE m + 1 \notin U
      <3>1. U = V
        BY <2>3
      <3> QED
        BY <2>2, <3>1
    <2>4. CASE m + 1 \in U
      <3>1. U = V \cup {m + 1} /\ m + 1 \notin V
        BY <2>4
      <3>2. PICK e : Enumerates(e, V)
        BY <2>2
      <3>3. Cardinality(V) \in Nat
        BY <2>2, FS_CardinalityType
      <3>4. IsFiniteSet(U) /\ Cardinality(U) = Cardinality(V) + 1
        BY <2>2, <3>1, FS_AddElement
      <3> DEFINE k == Cardinality(V)
                 f == [i \in 1..(k + 1) |-> IF i = k + 1 THEN m + 1 ELSE e[i]]
      <3>5. k \in Nat /\ Cardinality(U) = k + 1
        BY <3>3, <3>4
      <3>6. e \in [1..k -> V] /\ \A i, j \in 1..k : i < j => e[i] < e[j]
        BY <3>2 DEF Enumerates
      <3> HIDE DEF k
      <3>7. \A i \in 1..(k + 1) : i # k + 1 => i \in 1..k
        BY <3>5
      <3>8. \A i \in 1..k : e[i] \in V /\ e[i] \in U /\ e[i] < m + 1
        <4>1. \A x \in V : x \in U /\ x < m + 1
          BY <2>1
        <4> QED
          BY <3>6, <4>1
      <3>9. f \in [1..(k + 1) -> U]
        BY <2>4, <3>7, <3>8
      <3>10. ASSUME NEW i \in 1..(k + 1), NEW j \in 1..(k + 1), i < j PROVE f[i] < f[j]
        <4>1. i # k + 1 /\ i \in 1..k
          BY <3>5, <3>10
        <4>2. f[i] = e[i]
          BY <4>1
        <4>3. CASE j = k + 1
          BY <3>8, <4>1, <4>2, <4>3
        <4>4. CASE j # k + 1
          <5>1. j \in 1..k /\ f[j] = e[j]
            BY <3>7, <4>4
          <5> QED
            BY <3>6, <3>10, <4>1, <4>2, <5>1
        <4> QED
          BY <4>3, <4>4
      <3> HIDE DEF f
      <3>11. Enumerates(f, U)
        BY <3>5, <3>9, <3>10 DEF Enumerates
      <3> QED
        BY <3>4, <3>11
    <2> QED
      BY <2>3, <2>4
  <1> HIDE DEF S
  <1>3. n \in S
    BY <1>1, <1>2, SetInduction
  <1> QED
    BY <1>3 DEF S

\* It meets each of the positions once.
LEMMA EnumerationIsBijection ==
    ASSUME NEW n \in Nat, NEW T \in SUBSET (1..n), NEW e, Enumerates(e, T)
    PROVE  e \in Bijection(1..Cardinality(T), T)
  <1>1. IsFiniteSet(T) /\ Cardinality(T) \in Nat
    BY EnumerationExists, FS_CardinalityType
  <1> DEFINE k == Cardinality(T)
  <1>2. k \in Nat /\ e \in [1..k -> T] /\ \A i, j \in 1..k : i < j => e[i] < e[j]
    BY <1>1 DEF Enumerates
  <1>3. IsFiniteSet(1..k) /\ Cardinality(1..k) = k
    BY <1>2, FS_Interval
  <1> HIDE DEF k
  <1>4. \A i, j \in 1..k : e[i] = e[j] => i = j
    <2> SUFFICES ASSUME NEW i \in 1..k, NEW j \in 1..k, e[i] = e[j], i # j PROVE FALSE
      OBVIOUS
    <2>1. e[i] \in Int /\ e[j] \in Int
      <3>1. \A x \in T : x \in Int
        OBVIOUS
      <3> QED
        BY <1>2, <3>1
    <2>2. i < j \/ j < i
      BY <1>2
    <2> QED
      BY <1>2, <2>1, <2>2
  <1>5. e \in Injection(1..k, T)
    BY <1>2, <1>4 DEF Injection, IsInjective
  <1>6. Cardinality(1..k) = Cardinality(T)
    BY <1>3 DEF k
  <1>7. e \in Surjection(1..k, T)
    BY <1>1, <1>5, <1>6, FS_Injection
  <1> QED
    BY <1>5, <1>7 DEF Bijection, k

\* Where c is in s.
Where(s, c) == {i \in DOMAIN s : s[i] = c}

\* Count is the size of that finite set.
LEMMA CountIs ==
    ASSUME NEW s \in Seq(Conns), NEW c
    PROVE  /\ IsFiniteSet(Where(s, c)) /\ Count(s, c) = Cardinality(Where(s, c))
           /\ Count(s, c) \in Nat
  <1>1. Count(s, c) = Cardinality(Where(s, c))
    BY DEF Count, Where
  <1>2. Len(s) \in Nat /\ DOMAIN s = 1..Len(s)
    BY LenProperties
  <1>3. IsFiniteSet(DOMAIN s)
    BY <1>2, FS_Interval
  <1>4. Where(s, c) \in SUBSET DOMAIN s
    BY DEF Where
  <1>5. IsFiniteSet(Where(s, c))
    BY <1>3, <1>4, FS_Subset
  <1> QED
    BY <1>1, <1>5, FS_CardinalityType

\* An appended element counts once more.
LEMMA CountAppend ==
    ASSUME NEW s \in Seq(Conns), NEW x \in Conns, NEW c
    PROVE  /\ Append(s, x) \in Seq(Conns)
           /\ Count(Append(s, x), c) = Count(s, c) + (IF x = c THEN 1 ELSE 0)
  <1> DEFINE u == Append(s, x)
             n == Len(s)
  <1>1. u \in Seq(Conns) /\ n \in Nat /\ DOMAIN s = 1..n /\ DOMAIN u = 1..(n + 1)
    BY AppendProperties, LenProperties
  <1>2. u[n + 1] = x /\ \A i \in 1..n : u[i] = s[i]
    BY AppendProperties
  <1> HIDE DEF u, n
  <1>3. n + 1 \notin Where(s, c)
    BY <1>1 DEF Where
  <1>4. IsFiniteSet(Where(s, c)) /\ Count(s, c) = Cardinality(Where(s, c)) /\ Count(s, c) \in Nat
    BY CountIs
  <1>5. Count(u, c) = Cardinality(Where(u, c))
    BY <1>1, CountIs
  <1>6. CASE x = c
    <2>1. Where(u, c) = Where(s, c) \cup {n + 1}
      BY <1>1, <1>2, <1>6 DEF Where
    <2> QED
      <3>1. Cardinality(Where(u, c)) = Cardinality(Where(s, c)) + 1
        BY <1>3, <1>4, <2>1, FS_AddElement
      <3>2. Count(u, c) = Count(s, c) + (IF x = c THEN 1 ELSE 0)
        BY <1>4, <1>5, <1>6, <3>1
      <3> QED
        BY <1>1, <3>2 DEF u
  <1>7. CASE x # c
    <2>1. Where(u, c) = Where(s, c)
      BY <1>1, <1>2, <1>7 DEF Where
    <2> QED
      BY <1>1, <1>4, <1>5, <1>7, <2>1 DEF u
  <1> QED
    BY <1>6, <1>7

\* A sequence of at least one element is its head and its tail.
LEMMA CountTail ==
    ASSUME NEW s \in Seq(Conns), s # <<>>, NEW c
    PROVE  /\ Head(s) \in Conns /\ Tail(s) \in Seq(Conns)
           /\ Count(s, c) = Count(Tail(s), c) + (IF Head(s) = c THEN 1 ELSE 0)
  <1> DEFINE u == Tail(s)
             n == Len(s)
             A == Where(s, c) \ {1}
             f == [i \in Where(u, c) |-> i + 1]
  <1>1. Head(s) \in Conns /\ u \in Seq(Conns) /\ Head(s) = s[1]
    BY HeadTailProperties
  <1>2. n \in Nat /\ n >= 1 /\ DOMAIN s = 1..n /\ DOMAIN u = 1..(n - 1) /\ \A i \in 1..(n - 1) : u[i] = s[i + 1]
    BY HeadTailProperties, LenProperties
  <1> HIDE DEF u, n
  <1>3. IsFiniteSet(Where(s, c)) /\ Count(s, c) = Cardinality(Where(s, c))
    BY CountIs
  <1>4. IsFiniteSet(Where(u, c)) /\ Count(u, c) = Cardinality(Where(u, c)) /\ Count(u, c) \in Nat
    BY <1>1, CountIs
  <1>5. f \in Bijection(Where(u, c), A)
    <2>1. f \in [Where(u, c) -> A]
      BY <1>2 DEF Where
    <2>2. \A i, j \in Where(u, c) : f[i] = f[j] => i = j
      BY <1>2 DEF Where
    <2>3. ASSUME NEW j \in A PROVE \E i \in Where(u, c) : f[i] = j
      <3>1. j - 1 \in Where(u, c) /\ j \in Int
        BY <1>2 DEF Where
      <3> QED
        BY <3>1
    <2> QED
      BY <2>1, <2>2, <2>3 DEF Bijection, Injection, Surjection, IsInjective
  <1>6. ExistsBijection(Where(u, c), A)
    BY <1>5, Zenon DEF ExistsBijection
  <1> HIDE DEF A, f
  <1>7. Cardinality(A) = Cardinality(Where(u, c))
    BY <1>4, <1>6, FS_Bijection
  <1>8. Cardinality(A) = IF 1 \in Where(s, c) THEN Cardinality(Where(s, c)) - 1 ELSE Cardinality(Where(s, c))
    BY <1>3, FS_RemoveElement DEF A
  <1>9. 1 \in Where(s, c) <=> Head(s) = c
    BY <1>1, <1>2 DEF Where
  <1>10. Cardinality(Where(s, c)) \in Nat
    BY <1>3, FS_CardinalityType
  <1> QED
    BY <1>1, <1>3, <1>4, <1>7, <1>8, <1>9, <1>10 DEF u

\* Pick takes each occurrence at one of the positions once.
LEMMA CountPick ==
    ASSUME NEW s \in Seq(Conns), NEW T \in SUBSET DOMAIN s, NEW c
    PROVE  /\ Pick(s, T) \in Seq(Conns)
           /\ Count(Pick(s, T), c) = Cardinality({i \in T : s[i] = c})
  <1> DEFINE n == Cardinality(T)
             e == CHOOSE e \in [1..n -> T] : \A i, j \in 1..n : i < j => e[i] < e[j]
             u == [i \in 1..n |-> s[e[i]]]
             B == {i \in T : s[i] = c}
             f == [i \in Where(u, c) |-> e[i]]
  <1>1. Len(s) \in Nat /\ DOMAIN s = 1..Len(s)
    BY LenProperties
  <1>2. T \in SUBSET (1..Len(s))
    BY <1>1
  <1>3. IsFiniteSet(T) /\ \E d : Enumerates(d, T)
    BY <1>1, <1>2, EnumerationExists
  <1>4. n = Cardinality(T) /\ n \in Nat
    BY <1>3, FS_CardinalityType
  <1>5. Pick(s, T) = u
    BY DEF Pick
  <1> HIDE DEF n
  <1>6. Enumerates(e, T)
    BY <1>3, <1>4 DEF Enumerates
  <1> HIDE DEF e
  <1>7. e \in Bijection(1..n, T)
    BY <1>1, <1>2, <1>4, <1>6, EnumerationIsBijection
  <1>8. /\ e \in [1..n -> T] /\ \A i, j \in 1..n : e[i] = e[j] => i = j
        /\ \A t \in T : \E i \in 1..n : e[i] = t
    BY <1>7 DEF Bijection, Injection, Surjection, IsInjective
  <1>9. \A i \in DOMAIN s : s[i] \in Conns
    BY <1>1, ElementOfSeq
  <1>10. u \in [1..n -> Conns] /\ DOMAIN u = 1..n /\ \A i \in 1..n : u[i] = s[e[i]]
    BY <1>8, <1>9
  <1>11. u \in Seq(Conns)
    BY <1>4, <1>10, SeqDef
  <1> HIDE DEF u
  <1>12. f \in Bijection(Where(u, c), B)
    <2>1. f \in [Where(u, c) -> B]
      BY <1>8, <1>10 DEF Where
    <2>2. \A i, j \in Where(u, c) : f[i] = f[j] => i = j
      BY <1>8, <1>10 DEF Where
    <2>3. ASSUME NEW j \in B PROVE \E i \in Where(u, c) : f[i] = j
      <3>1. PICK i \in 1..n : e[i] = j
        BY <1>8
      <3>2. i \in Where(u, c)
        BY <1>10, <3>1 DEF Where
      <3> QED
        BY <3>1, <3>2
    <2> QED
      BY <2>1, <2>2, <2>3 DEF Bijection, Injection, Surjection, IsInjective
  <1>13. ExistsBijection(Where(u, c), B)
    BY <1>12, Zenon DEF ExistsBijection
  <1>14. IsFiniteSet(Where(u, c)) /\ Count(u, c) = Cardinality(Where(u, c))
    BY <1>11, CountIs
  <1> HIDE DEF B, f
  <1>15. Cardinality(B) = Cardinality(Where(u, c))
    BY <1>13, <1>14, FS_Bijection
  <1> QED
    BY <1>5, <1>11, <1>14, <1>15 DEF B

\* Taking some positions out divides the occurrences.
LEMMA CountSplit ==
    ASSUME NEW s \in Seq(Conns), NEW T \in SUBSET DOMAIN s, NEW c
    PROVE  Count(s, c) = Count(Pick(s, T), c) + Count(Pick(s, DOMAIN s \ T), c)
  <1> DEFINE A == {i \in T : s[i] = c}
             B == {i \in DOMAIN s \ T : s[i] = c}
  <1>1. Count(Pick(s, T), c) = Cardinality(A)
    BY CountPick
  <1>2. DOMAIN s \ T \in SUBSET DOMAIN s
    OBVIOUS
  <1>3. Count(Pick(s, DOMAIN s \ T), c) = Cardinality(B)
    BY <1>2, CountPick
  <1>4. IsFiniteSet(Where(s, c)) /\ Count(s, c) = Cardinality(Where(s, c))
    BY CountIs
  <1>5. Where(s, c) = A \cup B /\ A \cap B = {} /\ A \in SUBSET Where(s, c) /\ B \in SUBSET Where(s, c)
    BY DEF Where
  <1> HIDE DEF A, B
  <1>6. IsFiniteSet(A) /\ IsFiniteSet(B)
    BY <1>4, <1>5, FS_Subset
  <1>7. Cardinality(A) \in Nat /\ Cardinality(B) \in Nat /\ Cardinality({}) = 0
    BY <1>6, FS_CardinalityType, FS_EmptySet
  <1>8. Cardinality(A \cup B) = Cardinality(A) + Cardinality(B) - Cardinality(A \cap B)
    BY <1>6, FS_Union
  <1>9. Cardinality(Where(s, c)) = Cardinality(A) + Cardinality(B)
    <2>1. Cardinality(Where(s, c)) = Cardinality(A \cup B)
      BY <1>5, Zenon
    <2>2. Cardinality(A \cap B) = 0
      BY <1>5, <1>7, Zenon
    <2> QED
      BY <1>7, <1>8, <2>1, <2>2
  <1> QED
    BY <1>1, <1>3, <1>4, <1>9

\* What is where: the queues hold connections, a thread has one exactly from
\* FetchConnection to ReturnConnection, and the repair thread pushes one.
InHands ==
    /\ m_queIdleConn \in Seq(Conns) /\ m_listBadConn \in Seq(Conns) /\ repaired \in Seq(Conns)
    /\ at \in [Threads -> {"idle", "fetch", "connect", "request", "reconnect", "resend", "return"}]
    /\ pRedisConn \in [Threads -> Conns \cup {NULL}]
    /\ \A t \in Threads : pRedisConn[t] = NULL <=> at[t] \in {"idle", "fetch"}
    /\ repaired # <<>> => last \in Conns

\* SetToSeq makes a sequence of every finite set.
LEMMA SetToSeqType ==
    ASSUME NEW S, IsFiniteSet(S)
    PROVE  SetToSeq(S) \in Seq(S)
  <1> DEFINE n == Cardinality(S)
  <1>1. n \in Nat /\ ExistsBijection(1..n, S)
    BY FS_CardinalityType
  <1>2. \E f \in [1..n -> S] : IsInjective(f)
    BY <1>1 DEF ExistsBijection, Bijection, Injection, IsInjective
  <1>3. SetToSeq(S) = CHOOSE f \in [1..n -> S] : IsInjective(f)
    BY DEF SetToSeq
  <1>4. SetToSeq(S) \in [1..n -> S]
    BY <1>2, <1>3
  <1> QED
    BY <1>1, <1>4, SeqDef

\* Initialize establishes it: both queues are sequences of connections.
LEMMA InHandsInit ==
    ASSUME PoolInit
    PROVE  InHands
  <1>1. PICK good \in SUBSET Conns :
            m_queIdleConn = SetToSeq(good) /\ m_listBadConn = SetToSeq(Conns \ good)
    BY DEF PoolInit
  <1>2. IsFiniteSet(good) /\ IsFiniteSet(Conns \ good)
    BY FS_Subset, FS_Difference, RedisPoolAssumption
  <1>3. m_queIdleConn \in Seq(good) /\ m_listBadConn \in Seq(Conns \ good)
    BY <1>1, <1>2, SetToSeqType
  <1>4. m_queIdleConn \in Seq(Conns) /\ m_listBadConn \in Seq(Conns)
    BY <1>3
  <1>5. repaired = <<>> /\ repaired \in Seq(Conns)
    BY EmptySeq DEF PoolInit
  <1> QED
    BY <1>4, <1>5 DEF InHands, PoolInit

\* Every step keeps it.
LEMMA InHandsNext ==
    ASSUME InHands, [PoolNext]_poolVars
    PROVE  InHands'
  <1> USE DEF MoveTo, connVars, threadVars, checkVars
  <1>1. ASSUME NEW t \in Threads, ServRequest(t) PROVE InHands'
    BY <1>1 DEF InHands, ServRequest
  <1>2. ASSUME NEW t \in Threads, FetchConnection(t) PROVE InHands'
    <2>1. Head(m_queIdleConn) \in Conns /\ Tail(m_queIdleConn) \in Seq(Conns)
      BY <1>2, CountTail DEF InHands, FetchConnection
    <2> DEFINE x == Head(m_queIdleConn)
               q == Tail(m_queIdleConn)
    <2>2. /\ at[t] = "fetch" /\ pRedisConn' = [pRedisConn EXCEPT ![t] = x] /\ m_queIdleConn' = q
          /\ \E w \in {"connect", "request"} : at' = [at EXCEPT ![t] = w]
          /\ UNCHANGED <<m_listBadConn, repaired, last>>
      BY <1>2 DEF FetchConnection
    <2>3. x \in Conns /\ q \in Seq(Conns)
      BY <2>1
    <2> HIDE DEF x, q
    <2> QED
      BY <2>2, <2>3, RedisPoolAssumption DEF InHands
  <1>3. ASSUME NEW t \in Threads, FetchNothing(t) PROVE InHands'
    BY <1>3 DEF InHands, FetchNothing
  <1>4. ASSUME NEW t \in Threads, Reconnect(t) PROVE InHands'
    BY <1>4 DEF InHands, Reconnect
  <1>5. ASSUME NEW t \in Threads, CmdRequest(t) PROVE InHands'
    BY <1>5 DEF InHands, CmdRequest
  <1>6. ASSUME NEW t \in Threads, CmdRequestError(t) PROVE InHands'
    BY <1>6 DEF InHands, CmdRequestError
  <1>7. ASSUME NEW t \in Threads, ReturnConnection(t) PROVE InHands'
    <2>1. pRedisConn[t] \in Conns
      BY <1>7 DEF InHands, ReturnConnection
    <2>2. m_queIdleConn' \in Seq(Conns) /\ m_listBadConn' \in Seq(Conns)
      <3>1. m_queIdleConn \in Seq(Conns) /\ m_listBadConn \in Seq(Conns)
        BY DEF InHands
      <3>2. Append(m_queIdleConn, pRedisConn[t]) \in Seq(Conns) /\ Append(m_listBadConn, pRedisConn[t]) \in Seq(Conns)
        BY <2>1, <3>1, CountAppend, ZenonT(30)
      <3> QED
        BY <1>7, <3>1, <3>2 DEF ReturnConnection
    <2> QED
      BY <1>7, <2>2 DEF InHands, ReturnConnection
  <1>8. CASE CheckReconnect
    <2>1. PICK good \in SUBSET DOMAIN m_listBadConn :
              /\ repaired' = Pick(m_listBadConn, good)
              /\ m_listBadConn' = Pick(m_listBadConn, DOMAIN m_listBadConn \ good)
      BY <1>8 DEF CheckReconnect
    <2>2. DOMAIN m_listBadConn \ good \in SUBSET DOMAIN m_listBadConn
      OBVIOUS
    <2>3. repaired' \in Seq(Conns) /\ m_listBadConn' \in Seq(Conns)
      BY <2>1, <2>2, CountPick DEF InHands
    <2>4. last' \in Conns
      <3>1. last' = m_listBadConn[Len(m_listBadConn)] /\ m_listBadConn # <<>>
        BY <1>8 DEF CheckReconnect, Last
      <3>2. m_listBadConn \in Seq(Conns)
        BY DEF InHands
      <3> QED
        BY <3>1, <3>2
    <2> QED
      BY <1>8, <2>3, <2>4 DEF InHands, CheckReconnect
  <1>9. CASE CheckPush
    <2> DEFINE r == [i \in DOMAIN repaired |-> last]
    <2>1. repaired \in Seq(Conns) /\ last \in Conns
      BY <1>9 DEF InHands, CheckPush
    <2>2. Len(repaired) \in Nat /\ DOMAIN repaired = 1..Len(repaired)
      BY <2>1, LenProperties
    <2>3. r \in [1..Len(repaired) -> Conns]
      BY <2>1, <2>2
    <2>4. r \in Seq(Conns)
      BY <2>2, <2>3, SeqDef
    <2> HIDE DEF r
    <2>5. m_queIdleConn' = m_queIdleConn \o r
      BY <1>9 DEF CheckPush, r
    <2>6. m_queIdleConn' \in Seq(Conns)
      BY <2>4, <2>5, ConcatProperties DEF InHands
    <2>7. repaired' \in Seq(Conns) /\ repaired' = <<>>
      BY <1>9, EmptySeq DEF CheckPush
    <2> QED
      BY <1>9, <2>6, <2>7 DEF InHands, CheckPush
  <1>10. CASE UNCHANGED poolVars
    BY <1>10 DEF InHands, poolVars
  <1> QED
    BY <1>1, <1>2, <1>3, <1>4, <1>5, <1>6, <1>7, <1>8, <1>9, <1>10 DEF PoolNext, Step

\* A thread that takes x up is one more holder of x and changes nobody else.
LEMMA HoldersTake ==
    ASSUME InHands, NEW t \in Threads, NEW x \in Conns,
           at[t] \in {"idle", "fetch"}, pRedisConn' = [pRedisConn EXCEPT ![t] = x], NEW c \in Conns
    PROVE  /\ Cardinality(Holders(c)) \in Nat
           /\ Cardinality(Holders(c)') = Cardinality(Holders(c)) + (IF x = c THEN 1 ELSE 0)
  <1> DEFINE A == Holders(c)
             B == Holders(c)'
  <1>1. A \in SUBSET Threads
    BY DEF Holders
  <1>2. IsFiniteSet(A) /\ Cardinality(A) \in Nat
    BY <1>1, FS_Subset, FS_CardinalityType, RedisPoolAssumption
  <1>3. t \notin A
    BY RedisPoolAssumption DEF Holders, InHands
  <1>4. B = IF x = c THEN A \cup {t} ELSE A
    BY RedisPoolAssumption DEF Holders, InHands
  <1> HIDE DEF A, B
  <1>5. Cardinality(B) = Cardinality(A) + (IF x = c THEN 1 ELSE 0)
    <2>1. Cardinality(A \cup {t}) = Cardinality(A) + 1
      BY <1>2, <1>3, FS_AddElement
    <2> QED
      BY <1>2, <1>4, <2>1
  <1> QED
    BY <1>2, <1>5 DEF A, B

\* A thread that gives its connection back is one holder fewer.
LEMMA HoldersGive ==
    ASSUME InHands, NEW t \in Threads,
           pRedisConn' = [pRedisConn EXCEPT ![t] = NULL], NEW c \in Conns
    PROVE  /\ Cardinality(Holders(c)') \in Nat
           /\ Cardinality(Holders(c)) = Cardinality(Holders(c)') + (IF pRedisConn[t] = c THEN 1 ELSE 0)
  <1> DEFINE A == Holders(c)
             B == Holders(c)'
  <1>1. A \in SUBSET Threads
    BY DEF Holders
  <1>2. IsFiniteSet(A)
    BY <1>1, FS_Subset, RedisPoolAssumption
  <1>3. B = A \ {t} /\ (t \in A <=> pRedisConn[t] = c)
    BY RedisPoolAssumption DEF Holders, InHands
  <1> HIDE DEF A, B
  <1>4. IsFiniteSet(B) /\ Cardinality(B) = IF t \in A THEN Cardinality(A) - 1 ELSE Cardinality(A)
    BY <1>2, <1>3, FS_RemoveElement
  <1>5. Cardinality(A) \in Nat /\ Cardinality(B) \in Nat
    BY <1>2, <1>4, FS_CardinalityType
  <1>6. Cardinality(A) = Cardinality(B) + (IF pRedisConn[t] = c THEN 1 ELSE 0)
    BY <1>3, <1>4, <1>5
  <1> QED
    BY <1>5, <1>6 DEF A, B

\* How often a connection is counted, part by part.
LEMMA PlacesIs ==
    ASSUME InHands, NEW c \in Conns
    PROVE  /\ Count(m_queIdleConn, c) \in Nat /\ Count(m_listBadConn, c) \in Nat
           /\ Count(repaired, c) \in Nat /\ Cardinality(Holders(c)) \in Nat
           /\ Places(c) = Count(m_queIdleConn, c) + Count(m_listBadConn, c)
                              + Count(repaired, c) + Cardinality(Holders(c))
  <1>1. Holders(c) \in SUBSET Threads
    BY DEF Holders
  <1>2. Cardinality(Holders(c)) \in Nat
    BY <1>1, FS_Subset, FS_CardinalityType, RedisPoolAssumption
  <1> QED
    BY <1>2, CountIs DEF InHands, Places

\* A step that leaves every connection where it is.
LEMMA PlacesKept ==
    ASSUME NEW c, UNCHANGED <<m_queIdleConn, m_listBadConn, repaired, pRedisConn>>
    PROVE  Places(c)' = Places(c)
  BY DEF Places, Count, Holders

\* FetchConnection moves a connection from the idle queue to the thread.
LEMMA PlacesFetch ==
    ASSUME InHands, InHands', NEW c \in Conns,
           NEW t \in Threads, FetchConnection(t)
    PROVE  Places(c)' = Places(c)
  <1> DEFINE x == Head(m_queIdleConn)
             d == IF x = c THEN 1 ELSE 0
  <1>1. /\ at[t] \in {"idle", "fetch"} /\ m_queIdleConn # <<>> /\ m_queIdleConn' = Tail(m_queIdleConn)
        /\ pRedisConn' = [pRedisConn EXCEPT ![t] = x]
        /\ m_listBadConn' = m_listBadConn /\ repaired' = repaired
    BY DEF FetchConnection, checkVars
  <1>2. x \in Conns /\ Count(m_queIdleConn, c) = Count(m_queIdleConn', c) + d
    BY <1>1, CountTail DEF InHands
  <1>3. Cardinality(Holders(c)') = Cardinality(Holders(c)) + d
    BY <1>1, <1>2, HoldersTake
  <1>4. Places(c) = Count(m_queIdleConn, c) + Count(m_listBadConn, c)
                        + Count(repaired, c) + Cardinality(Holders(c))
    BY PlacesIs
  <1>5. Places(c)' = Count(m_queIdleConn', c) + Count(m_listBadConn', c)
                         + Count(repaired', c) + Cardinality(Holders(c)')
    BY DEF Places, Count, Holders
  <1>6. Count(m_listBadConn', c) = Count(m_listBadConn, c) /\ Count(repaired', c) = Count(repaired, c)
    BY <1>1
  <1>7. /\ Count(m_queIdleConn', c) \in Nat /\ Count(m_listBadConn, c) \in Nat
        /\ Count(repaired, c) \in Nat /\ Cardinality(Holders(c)) \in Nat
    BY PlacesIs, CountIs DEF InHands
  <1>8. d \in {0, 1}
    OBVIOUS
  <1> HIDE DEF d
  <1> QED
    BY <1>2, <1>3, <1>4, <1>5, <1>6, <1>7, <1>8

\* ReturnConnection moves it from the thread to one of the two queues.
LEMMA PlacesReturn ==
    ASSUME InHands, InHands', NEW c \in Conns,
           NEW t \in Threads, ReturnConnection(t)
    PROVE  Places(c)' = Places(c)
  <1> DEFINE x == pRedisConn[t]
             d == IF x = c THEN 1 ELSE 0
  <1>1. /\ pRedisConn' = [pRedisConn EXCEPT ![t] = NULL] /\ repaired' = repaired
        /\ \/ m_queIdleConn' = Append(m_queIdleConn, x) /\ m_listBadConn' = m_listBadConn
           \/ m_listBadConn' = Append(m_listBadConn, x) /\ m_queIdleConn' = m_queIdleConn
    BY DEF ReturnConnection, checkVars
  <1>2. x \in Conns
    BY DEF ReturnConnection, InHands
  <1>3. Cardinality(Holders(c)) = Cardinality(Holders(c)') + d /\ Cardinality(Holders(c)') \in Nat
    BY <1>1, HoldersGive
  <1>4. Count(m_queIdleConn', c) + Count(m_listBadConn', c)
            = Count(m_queIdleConn, c) + Count(m_listBadConn, c) + d
    <2>1. Count(m_queIdleConn, c) \in Nat /\ Count(m_listBadConn, c) \in Nat
      BY PlacesIs
    <2>2. CASE m_queIdleConn' = Append(m_queIdleConn, x) /\ m_listBadConn' = m_listBadConn
      <3>1. Count(m_queIdleConn', c) = Count(m_queIdleConn, c) + d
        BY <1>2, <2>2, CountAppend DEF InHands
      <3>2. Count(m_listBadConn', c) = Count(m_listBadConn, c)
        BY <2>2
      <3> QED
        BY <2>1, <3>1, <3>2
    <2>3. CASE m_listBadConn' = Append(m_listBadConn, x) /\ m_queIdleConn' = m_queIdleConn
      <3>1. Count(m_listBadConn', c) = Count(m_listBadConn, c) + d
        BY <1>2, <2>3, CountAppend DEF InHands
      <3>2. Count(m_queIdleConn', c) = Count(m_queIdleConn, c)
        BY <2>3
      <3> QED
        BY <2>1, <3>1, <3>2
    <2> QED
      BY <1>1, <2>2, <2>3
  <1>5. Places(c) = Count(m_queIdleConn, c) + Count(m_listBadConn, c)
                        + Count(repaired, c) + Cardinality(Holders(c))
    BY PlacesIs
  <1>6. Places(c)' = Count(m_queIdleConn', c) + Count(m_listBadConn', c)
                         + Count(repaired', c) + Cardinality(Holders(c)')
    BY DEF Places, Count, Holders
  <1>7. Count(repaired', c) = Count(repaired, c)
    BY <1>1
  <1>8. /\ Count(m_queIdleConn, c) \in Nat /\ Count(m_listBadConn, c) \in Nat
        /\ Count(repaired, c) \in Nat
        /\ Count(m_queIdleConn', c) \in Nat /\ Count(m_listBadConn', c) \in Nat
    BY PlacesIs, CountIs DEF InHands
  <1>9. d \in {0, 1}
    OBVIOUS
  <1> HIDE DEF d
  <1> QED
    BY <1>3, <1>4, <1>5, <1>6, <1>7, <1>8, <1>9

\* CheckReconnect divides the list between tmpVec and itself.
LEMMA PlacesReconnect ==
    ASSUME InHands, InHands', NEW c \in Conns, CheckReconnect
    PROVE  Places(c)' = Places(c)
  <1>1. PICK good \in SUBSET DOMAIN m_listBadConn :
            /\ repaired' = Pick(m_listBadConn, good)
            /\ m_listBadConn' = Pick(m_listBadConn, DOMAIN m_listBadConn \ good)
    BY DEF CheckReconnect
  <1>2. repaired = <<>> /\ m_queIdleConn' = m_queIdleConn /\ pRedisConn' = pRedisConn
    BY DEF CheckReconnect, threadVars
  <1>3. Count(m_listBadConn, c) = Count(repaired', c) + Count(m_listBadConn', c)
    BY <1>1, CountSplit DEF InHands
  <1>4. Count(repaired, c) = 0
    <2>1. Where(repaired, c) = {}
      BY <1>2, EmptySeq DEF Where
    <2> QED
      BY <2>1, CountIs, FS_EmptySet DEF InHands
  <1>5. Places(c) = Count(m_queIdleConn, c) + Count(m_listBadConn, c)
                        + Count(repaired, c) + Cardinality(Holders(c))
    BY PlacesIs
  <1>6. Places(c)' = Count(m_queIdleConn', c) + Count(m_listBadConn', c)
                         + Count(repaired', c) + Cardinality(Holders(c)')
    BY DEF Places, Count, Holders
  <1>7. Count(m_queIdleConn', c) = Count(m_queIdleConn, c) /\ Holders(c)' = Holders(c)
    BY <1>2 DEF Holders
  <1>8. /\ Count(m_queIdleConn, c) \in Nat /\ Cardinality(Holders(c)) \in Nat
        /\ Count(repaired', c) \in Nat /\ Count(m_listBadConn', c) \in Nat
    BY PlacesIs, CountIs DEF InHands
  <1>9. Cardinality(Holders(c)') = Cardinality(Holders(c))
    BY <1>7
  <1> QED
    BY <1>3, <1>4, <1>5, <1>6, <1>7, <1>8, <1>9

\* CheckPush, when what it pushes is the one connection it repaired.
LEMMA PlacesPush ==
    ASSUME InHands, InHands', NEW c \in Conns, CheckPush, repaired = <<last>>
    PROVE  Places(c)' = Places(c)
  <1> DEFINE d == IF last = c THEN 1 ELSE 0
  <1>1. last \in Conns /\ m_queIdleConn \in Seq(Conns)
    BY DEF InHands
  <1>2. m_queIdleConn' = Append(m_queIdleConn, last)
    <2>1. [i \in DOMAIN repaired |-> last] = <<last>>
      OBVIOUS
    <2>2. m_queIdleConn' = m_queIdleConn \o <<last>>
      BY <2>1 DEF CheckPush
    <2> QED
      BY <1>1, <2>2, AppendIsConcat
  <1>3. Count(m_queIdleConn', c) = Count(m_queIdleConn, c) + d
    BY <1>1, <1>2, CountAppend
  <1>4. repaired' = <<>> /\ m_listBadConn' = m_listBadConn /\ pRedisConn' = pRedisConn
    BY DEF CheckPush, threadVars
  <1>5. Count(<<>>, c) = 0 /\ <<>> \in Seq(Conns)
    <2>1. Where(<<>>, c) = {} /\ <<>> \in Seq(Conns)
      BY EmptySeq DEF Where
    <2> QED
      BY <2>1, CountIs, FS_EmptySet
  <1>6. Count(repaired, c) = d
    <2>1. repaired = Append(<<>>, last)
      OBVIOUS
    <2>2. Count(Append(<<>>, last), c) = Count(<<>>, c) + d
      BY <1>1, <1>5, CountAppend, ZenonT(30)
    <2> QED
      BY <1>5, <2>1, <2>2
  <1>7. Count(repaired', c) = 0 /\ Count(m_listBadConn', c) = Count(m_listBadConn, c)
    BY <1>4, <1>5
  <1>8. Places(c) = Count(m_queIdleConn, c) + Count(m_listBadConn, c)
                        + Count(repaired, c) + Cardinality(Holders(c))
    BY PlacesIs
  <1>9. Places(c)' = Count(m_queIdleConn', c) + Count(m_listBadConn', c)
                         + Count(repaired', c) + Cardinality(Holders(c)')
    BY DEF Places, Count, Holders
  <1>10. Cardinality(Holders(c)') = Cardinality(Holders(c))
    BY <1>4 DEF Holders
  <1>11. /\ Count(m_queIdleConn, c) \in Nat /\ Count(m_listBadConn, c) \in Nat
         /\ Cardinality(Holders(c)) \in Nat
    BY PlacesIs
  <1>12. d \in {0, 1}
    OBVIOUS
  <1> HIDE DEF d
  <1> QED
    BY <1>3, <1>6, <1>7, <1>8, <1>9, <1>10, <1>11, <1>12

\* redisclient.cpp:957-985, :1052: with any number of threads and connections,
\* the only step that takes connections that each have one place to a state
\* where one is lost or shared is a CheckPush of other than the one it repaired.
THEOREM OnlyRepairMisplacesCorrect == PoolSpec => OnlyRepairMisplaces
  <1> DEFINE Act == OnePlace => OnePlace' \/ (CheckPush /\ repaired # <<last>>)
  <1>1. PoolInit => InHands
    BY InHandsInit
  <1>2. InHands /\ [PoolNext]_poolVars => InHands'
    BY InHandsNext
  <1>3. InHands /\ InHands' /\ [PoolNext]_poolVars => [Act]_poolVars
    <2> SUFFICES ASSUME InHands, InHands', PoolNext, OnePlace, ~(CheckPush /\ repaired # <<last>>),
                        NEW c \in Conns
                 PROVE  Places(c)' = Places(c)
      BY DEF OnePlace
    <2> USE DEF connVars, threadVars, checkVars
    <2>1. ASSUME NEW t \in Threads,
                 ServRequest(t) \/ FetchNothing(t) \/ Reconnect(t) \/ CmdRequest(t) \/ CmdRequestError(t)
          PROVE  Places(c)' = Places(c)
      <3>1. UNCHANGED <<m_queIdleConn, m_listBadConn, repaired, pRedisConn>>
        BY <2>1 DEF ServRequest, FetchNothing, Reconnect, CmdRequest, CmdRequestError
      <3> QED
        BY <3>1, PlacesKept
    <2>2. ASSUME NEW t \in Threads, FetchConnection(t) PROVE Places(c)' = Places(c)
      BY <2>2, PlacesFetch
    <2>3. ASSUME NEW t \in Threads, ReturnConnection(t) PROVE Places(c)' = Places(c)
      BY <2>3, PlacesReturn
    <2>4. CASE CheckReconnect
      BY <2>4, PlacesReconnect
    <2>5. CASE CheckPush
      BY <2>5, PlacesPush
    <2> QED
      BY <2>1, <2>2, <2>3, <2>4, <2>5 DEF PoolNext, Step
  <1>4. OnlyRepairMisplaces <=> [][Act]_poolVars
    BY DEF OnlyRepairMisplaces
  <1> HIDE DEF Act
  <1> QED
    BY <1>1, <1>2, <1>3, <1>4, PTL DEF PoolSpec
=============================================================================

-------------------------- MODULE ZkRegistryProofs ---------------------------
(***************************************************************************)
(* For any number of providers, sessions, lost connections and crashes: a  *)
(* settled provider without a node was misled, and the list of a settled   *)
(* client is that of the registered providers.                             *)
(***************************************************************************)
EXTENDS ZkRegistry, TLAPS, SequenceTheorems

Links  == {"none", "new", "up", "down", "expired", "closed", "gone"}
Events == {"connected", "connecting", "expired", "failed", "ok", "own", "exists",
           "child", "get", "get again"}

\* What a completion thread has still to deliver, and in which order.
Has(q, S)      == \E i \in DOMAIN q : q[i] \in S
After(q, S, T) == \A i \in DOMAIN q : q[i] \in S => \E j \in DOMAIN q : i < j /\ q[j] \in T
FailedLast(q)  == \A i, j \in DOMAIN q : i < j /\ q[i] = "expired" => q[j] = "failed"

-----------------------------------------------------------------------------
(* Queues of events.                                                       *)

\* What posting the events r to a queue q adds, and what it keeps.
LEMMA PostEvents ==
    ASSUME NEW q \in Seq(Events), NEW r \in Seq(Events)
    PROVE  /\ q \o r \in Seq(Events)
           /\ \A S : Has(q \o r, S) <=> Has(q, S) \/ Has(r, S)
           /\ \A S, T : Has(r, T) /\ ~Has(r, S) => After(q \o r, S, T)
           /\ \A S, T : After(q, S, T) /\ ~Has(r, S) => After(q \o r, S, T)
           /\ ~Has(q, {"expired"}) /\ FailedLast(r) => FailedLast(q \o r)
  <1> DEFINE m == Len(q)   n == Len(r)   t == q \o r
  <1>1. m \in Nat /\ n \in Nat /\ DOMAIN q = 1 .. m /\ DOMAIN r = 1 .. n
    BY LenProperties
  <1>2. /\ t \in Seq(Events) /\ Len(t) = m + n
        /\ \A i \in 1 .. (m + n) : t[i] = IF i <= m THEN q[i] ELSE r[i - m]
    BY ConcatProperties
  <1>3. DOMAIN t = 1 .. (m + n)
    BY <1>2, LenProperties
  <1> HIDE DEF m, n, t
  <1>4. \A i \in 1 .. m : i \in 1 .. (m + n) /\ t[i] = q[i]
    BY <1>1, <1>2
  <1>5. \A i \in 1 .. n : m + i \in 1 .. (m + n) /\ t[m + i] = r[i]
    BY <1>1, <1>2
  <1>6. \A i \in 1 .. (m + n) : i \in 1 .. m \/ (i - m \in 1 .. n /\ m + (i - m) = i)
    BY <1>1
  <1>7. \A S : Has(t, S) <=> Has(q, S) \/ Has(r, S)
    <2> SUFFICES ASSUME NEW S PROVE Has(t, S) <=> Has(q, S) \/ Has(r, S)
      OBVIOUS
    <2>1. ASSUME Has(t, S) PROVE Has(q, S) \/ Has(r, S)
      <3>1. PICK i \in 1 .. (m + n) : t[i] \in S
        BY <1>3, <2>1 DEF Has
      <3>2. CASE i \in 1 .. m
        BY <1>1, <1>4, <3>1, <3>2 DEF Has
      <3>3. CASE i - m \in 1 .. n /\ m + (i - m) = i
        <4>1. r[i - m] \in S
          BY <1>5, <3>1, <3>3
        <4> QED
          BY <1>1, <3>3, <4>1 DEF Has
      <3> QED
        BY <1>6, <3>2, <3>3
    <2>2. ASSUME Has(q, S) PROVE Has(t, S)
      BY <1>1, <1>3, <1>4, <2>2 DEF Has
    <2>3. ASSUME Has(r, S) PROVE Has(t, S)
      <3>1. PICK i \in 1 .. n : r[i] \in S
        BY <1>1, <2>3 DEF Has
      <3>2. m + i \in DOMAIN t /\ t[m + i] \in S
        BY <1>3, <1>5, <3>1
      <3> QED
        BY <3>2 DEF Has
    <2> QED
      BY <2>1, <2>2, <2>3
  <1>8. ASSUME NEW S, NEW T, Has(r, T), ~Has(r, S)
        PROVE  After(t, S, T)
    <2>1. PICK k \in 1 .. n : r[k] \in T
      BY <1>1, <1>8 DEF Has
    <2>2. m + k \in 1 .. (m + n) /\ t[m + k] \in T
      BY <1>5, <2>1
    <2> SUFFICES ASSUME NEW i \in 1 .. (m + n), t[i] \in S
                 PROVE  i < m + k
      BY <1>3, <2>2 DEF After
    <2>3. i \in 1 .. m
      <3> SUFFICES ASSUME i - m \in 1 .. n, m + (i - m) = i PROVE FALSE
        BY <1>6
      <3>1. r[i - m] \in S
        BY <1>5
      <3> QED
        BY <1>1, <1>8, <3>1 DEF Has
    <2> QED
      BY <1>1, <2>1, <2>3
  <1>9. ASSUME NEW S, NEW T, After(q, S, T), ~Has(r, S)
        PROVE  After(t, S, T)
    <2> SUFFICES ASSUME NEW i \in 1 .. (m + n), t[i] \in S
                 PROVE  \E j \in 1 .. (m + n) : i < j /\ t[j] \in T
      BY <1>3 DEF After
    <2>1. i \in 1 .. m
      <3> SUFFICES ASSUME i - m \in 1 .. n, m + (i - m) = i PROVE FALSE
        BY <1>6
      <3>1. r[i - m] \in S
        BY <1>5
      <3> QED
        BY <1>1, <1>9, <3>1 DEF Has
    <2>2. PICK j \in 1 .. m : i < j /\ q[j] \in T
      BY <1>1, <1>4, <1>9, <2>1 DEF After
    <2> QED
      BY <1>4, <2>2
  <1>10. ASSUME ~Has(q, {"expired"}), FailedLast(r)
         PROVE  FailedLast(t)
    <2> SUFFICES ASSUME NEW i \in 1 .. (m + n), NEW j \in 1 .. (m + n), i < j, t[i] = "expired"
                 PROVE  t[j] = "failed"
      BY <1>3 DEF FailedLast
    <2>1. i - m \in 1 .. n /\ m + (i - m) = i
      BY <1>1, <1>4, <1>6, <1>10 DEF Has
    <2>2. j - m \in 1 .. n /\ m + (j - m) = j /\ i - m < j - m
      BY <1>1, <2>1
    <2>3. r[i - m] = "expired" /\ t[j] = r[j - m]
      BY <1>5, <2>1, <2>2
    <2> QED
      BY <1>1, <1>10, <2>1, <2>2, <2>3 DEF FailedLast
  <1> QED
    BY <1>2, <1>7, <1>8, <1>9, <1>10 DEF t

\* What is left of a queue once its first event is delivered.
LEMMA PopEvent ==
    ASSUME NEW q \in Seq(Events), q # <<>>
    PROVE  /\ Head(q) \in Events /\ Tail(q) \in Seq(Events)
           /\ \A S : Has(q, S) <=> Head(q) \in S \/ Has(Tail(q), S)
           /\ \A S, T : After(q, S, T) => After(Tail(q), S, T) /\ (Head(q) \in S => Has(Tail(q), T))
           /\ FailedLast(q) => /\ FailedLast(Tail(q))
                               /\ Head(q) = "expired" => ~Has(Tail(q), Events \ {"failed"})
  <1> DEFINE n == Len(q)   t == Tail(q)   h == Head(q)
  <1>1. n \in Nat \ {0} /\ DOMAIN q = 1 .. n
    BY LenProperties, EmptySeq
  <1>2. /\ h \in Events /\ h = q[1] /\ t \in Seq(Events) /\ Len(t) = n - 1
        /\ \A i \in 1 .. (n - 1) : t[i] = q[i + 1]
    BY HeadTailProperties
  <1>3. DOMAIN t = 1 .. (n - 1)
    BY <1>2, LenProperties
  <1> HIDE DEF n, t, h
  <1>4. \A i \in 1 .. n : i = 1 \/ (i - 1 \in 1 .. (n - 1) /\ (i - 1) + 1 = i /\ t[i - 1] = q[i])
    BY <1>1, <1>2
  <1>5. \A i \in 1 .. (n - 1) : i + 1 \in 1 .. n /\ i + 1 > 1 /\ q[i + 1] = t[i]
    BY <1>1, <1>2
  <1>6. 1 \in 1 .. n
    BY <1>1
  <1>7. ASSUME NEW S
        PROVE  Has(q, S) <=> h \in S \/ Has(t, S)
    <2>1. ASSUME Has(q, S) PROVE h \in S \/ Has(t, S)
      <3>1. PICK i \in 1 .. n : q[i] \in S
        BY <1>1, <2>1 DEF Has
      <3> QED
        BY <1>2, <1>3, <1>4, <3>1 DEF Has
    <2>2. ASSUME h \in S PROVE Has(q, S)
      BY <1>1, <1>2, <1>6, <2>2 DEF Has
    <2>3. ASSUME Has(t, S) PROVE Has(q, S)
      BY <1>1, <1>3, <1>5, <2>3 DEF Has
    <2> QED
      BY <2>1, <2>2, <2>3
  <1>8. ASSUME NEW S, NEW T, After(q, S, T)
        PROVE  After(t, S, T) /\ (h \in S => Has(t, T))
    <2>1. \A i \in 1 .. n : q[i] \in S => \E j \in 1 .. n : i < j /\ q[j] \in T
      BY <1>1, <1>8 DEF After
    <2>2. ASSUME NEW i \in 1 .. (n - 1), t[i] \in S
          PROVE  \E j \in 1 .. (n - 1) : i < j /\ t[j] \in T
      <3>1. PICK j \in 1 .. n : i + 1 < j /\ q[j] \in T
        BY <1>5, <2>1, <2>2
      <3>2. j # 1 /\ i < j - 1
        BY <1>1, <3>1
      <3> QED
        BY <1>4, <3>1, <3>2
    <2>3. ASSUME h \in S
          PROVE  Has(t, T)
      <3>1. PICK j \in 1 .. n : 1 < j /\ q[j] \in T
        BY <1>2, <1>6, <2>1, <2>3
      <3>2. j - 1 \in 1 .. (n - 1) /\ t[j - 1] \in T
        BY <1>4, <3>1
      <3> QED
        BY <1>3, <3>2 DEF Has
    <2> QED
      BY <1>3, <2>2, <2>3 DEF After
  <1>9. ASSUME FailedLast(q)
        PROVE  FailedLast(t) /\ (h = "expired" => ~Has(t, Events \ {"failed"}))
    <2>1. \A i, j \in 1 .. n : i < j /\ q[i] = "expired" => q[j] = "failed"
      BY <1>1, <1>9 DEF FailedLast
    <2>2. ASSUME NEW i \in 1 .. (n - 1), NEW j \in 1 .. (n - 1), i < j, t[i] = "expired"
          PROVE  t[j] = "failed"
      <3>1. i + 1 < j + 1
        BY <1>1, <2>2
      <3> QED
        BY <1>5, <2>1, <2>2, <3>1
    <2>3. ASSUME h = "expired", NEW j \in 1 .. (n - 1)
          PROVE  t[j] = "failed"
      <3>1. q[1] = "expired" /\ 1 \in 1 .. n /\ j + 1 \in 1 .. n /\ 1 < j + 1
        BY <1>2, <1>5, <1>6, <2>3
      <3> QED
        BY <1>5, <2>1, <3>1
    <2> QED
      BY <1>3, <2>2, <2>3 DEF FailedLast, Has
  <1> QED
    BY <1>2, <1>7, <1>8, <1>9 DEF t, h

\* The empty queue, and a single event.
LEMMA FewEvents ==
    /\ <<>> \in Seq(Events) /\ (\A S : ~Has(<<>>, S)) /\ FailedLast(<<>>)
    /\ \A S, T : After(<<>>, S, T)
    /\ \A e \in Events : /\ <<e>> \in Seq(Events) /\ <<e>> # <<>> /\ FailedLast(<<e>>)
                         /\ \A S : Has(<<e>>, S) <=> e \in S
  <1>1. <<>> \in Seq(Events) /\ DOMAIN <<>> = {}
    BY EmptySeq
  <1>2. (\A S : ~Has(<<>>, S)) /\ FailedLast(<<>>) /\ (\A S, T : After(<<>>, S, T))
    BY <1>1 DEF Has, FailedLast, After
  <1>3. ASSUME NEW e \in Events
        PROVE  /\ <<e>> \in Seq(Events) /\ <<e>> # <<>> /\ FailedLast(<<e>>)
               /\ \A S : Has(<<e>>, S) <=> e \in S
    <2>1. <<e>> \in Seq(Events) /\ Len(<<e>>) = 1 /\ <<e>>[1] = e
      OBVIOUS
    <2>2. DOMAIN <<e>> = {1}
      BY <2>1
    <2> QED
      BY <2>1, <2>2, EmptySeq DEF Has, FailedLast
  <1> QED
    BY <1>1, <1>2, <1>3

-----------------------------------------------------------------------------
(* The invariant.                                                          *)

TypeOK ==
    /\ link \in [Procs -> [Sessions -> Links]]
    /\ queue \in [Procs -> [Sessions -> Seq(Events)]]
    /\ pending \in [Procs -> [Sessions -> Nat]]
    /\ node \in [Providers -> Sessions \union {0}]
    /\ watches \in SUBSET Sessions
    /\ up \in [Procs -> BOOLEAN]
    /\ m_zhandle \in [Procs -> Sessions \union {0}]
    /\ m_connected \in [Procs -> BOOLEAN]
    /\ opening \in [Procs -> Sessions \union {0}]
    /\ DOMAIN answer = Providers

\* c is the session of the handle that p has, or is about to have.
Current(p, c) == \/ opening[p] = c /\ m_zhandle[p] = 0
                 \/ opening[p] = 0 /\ m_zhandle[p] = c

\* Sessions p had before have only failures left to report.
Others(p, c) ==
    \A s \in Sessions \ {c} : /\ link[p][s] \in {"none", "expired", "gone"}
                              /\ ~Has(queue[p][s], Events \ {"failed"})

\* What p has not yet heard of its session agrees with what it was told.
InOrder(p, c) ==
    /\ link[p][c] \in {"new", "up", "down", "expired"}
    /\ link[p][c] = "expired" <=> Has(queue[p][c], {"expired"})
    /\ FailedLast(queue[p][c])
    /\ link[p][c] = "up" => /\ After(queue[p][c], {"connecting"}, {"connected"})
                            /\ node[p] = c \/ After(queue[p][c], {"ok", "own"}, {"connected"})
                            /\ m_connected[p] \/ Has(queue[p][c], {"connected"})

\* With a connection, p has its node, is going to ask for it, or was misled.
Covered(p, c) ==
    link[p][c] = "up" => \/ Has(queue[p][c], {"connected", "exists"})
                         \/ pending[p][c] > 0
                         \/ \E s \in Sessions : Has(queue[p][s], {"failed"})
                         \/ node[p] = c
                         \/ answer[p] \in {"exists", "refused"}

ProviderOK(p) ==
    /\ ~up[p] => /\ opening[p] = 0
                 /\ \A s \in Sessions : link[p][s] \in {"none", "gone"} /\ queue[p][s] = <<>>
    /\ up[p] => \E c \in Sessions : Current(p, c) /\ Others(p, c) /\ InOrder(p, c) /\ Covered(p, c)

\* The client will learn that session s is connected, or that it expired.
SessionOwes(s) == link[client][s] \in {"new", "down"} \/ Has(queue[client][s], {"connected", "expired"})
Owes           == \E s \in Sessions : \/ SessionOwes(s)
                                      \/ Has(queue[client][s], {"child", "get", "get again"})

\* A handle of the client has not been closed, and its expiry is reported.
Handle(s) ==
    /\ link[client][s] \in {"new", "up", "down", "expired"}
    /\ link[client][s] = "expired" => Has(queue[client][s], {"expired"})

\* The client is going to update its list, or has a watch and an up-to-date list.
ClientOK ==
    LET h == m_zhandle[client]  o == opening[client] IN
    up[client] =>
        /\ h = 0 => o # 0 /\ SessionOwes(o)
        /\ h # 0 => Handle(h)
        /\ o # 0 => Handle(o) /\ o # h /\ (h # 0 => SessionOwes(h))
        /\ Owes \/ (h \in watches /\ (services = Children \/ Children = {}))

Inv == TypeOK /\ (\A p \in Providers : ProviderOK(p)) /\ ClientOK

-----------------------------------------------------------------------------
(* What the operations do to one entry of the tables.                      *)

\* g is f but for the entry of session s of x.
Elsewhere(f, g, x, s) ==
    /\ \A y \in Procs \ {x} : g[y] = f[y]
    /\ \A r \in Sessions \ {s} : g[x][r] = f[x][r]

\* SetLink changes the state of one session.
LEMMA Linked ==
    ASSUME TypeOK, NEW x \in Procs, NEW s \in Sessions, NEW l \in Links, SetLink(x, s, l)
    PROVE  /\ link' \in [Procs -> [Sessions -> Links]]
           /\ link'[x][s] = l /\ Elsewhere(link, link', x, s)
  BY DEF TypeOK, SetLink, Elsewhere

\* Post appends to the queue of one session.
LEMMA Posted ==
    ASSUME TypeOK, NEW x \in Procs, NEW s \in Sessions, NEW evs \in Seq(Events),
           queue' = Post(queue, x, s, evs)
    PROVE  /\ queue' \in [Procs -> [Sessions -> Seq(Events)]]
           /\ queue'[x][s] = queue[x][s] \o evs /\ Elsewhere(queue, queue', x, s)
  <1> DEFINE t == queue[x][s] \o evs
  <1>1. t \in Seq(Events)
    BY PostEvents DEF TypeOK
  <1>2. queue' = [queue EXCEPT ![x][s] = t]
    BY DEF Post
  <1> HIDE DEF t
  <1>3. /\ queue' \in [Procs -> [Sessions -> Seq(Events)]]
        /\ queue'[x][s] = t /\ Elsewhere(queue, queue', x, s)
    BY <1>1, <1>2 DEF TypeOK, Elsewhere
  <1> QED
    BY <1>3 DEF t

\* Pop takes the first event from the queue of one session.
LEMMA Popped ==
    ASSUME TypeOK, NEW x \in Procs, NEW s \in Sessions, queue[x][s] # <<>>, Pop(x, s)
    PROVE  /\ queue' \in [Procs -> [Sessions -> Seq(Events)]]
           /\ queue'[x][s] = Tail(queue[x][s]) /\ Elsewhere(queue, queue', x, s)
  <1> DEFINE t == Tail(queue[x][s])
  <1>1. t \in Seq(Events)
    BY PopEvent DEF TypeOK
  <1>2. queue' = [queue EXCEPT ![x][s] = t]
    BY DEF Pop
  <1> HIDE DEF t
  <1>3. /\ queue' \in [Procs -> [Sessions -> Seq(Events)]]
        /\ queue'[x][s] = t /\ Elsewhere(queue, queue', x, s)
    BY <1>1, <1>2 DEF TypeOK, Elsewhere
  <1> QED
    BY <1>3 DEF t

\* A thread that puts ev in the place of the event it came to.
LEMMA Replaced ==
    ASSUME TypeOK, NEW x \in Procs, NEW s \in Sessions, NEW ev \in Events, queue[x][s] # <<>>,
           queue' = [queue EXCEPT ![x][s] = <<ev>> \o Tail(@)]
    PROVE  /\ queue' \in [Procs -> [Sessions -> Seq(Events)]]
           /\ queue'[x][s] = <<ev>> \o Tail(queue[x][s]) /\ Elsewhere(queue, queue', x, s)
  <1> DEFINE t == <<ev>> \o Tail(queue[x][s])
  <1>1. t \in Seq(Events)
    BY PopEvent, PostEvents, FewEvents DEF TypeOK
  <1>2. queue' = [queue EXCEPT ![x][s] = t]
    OBVIOUS
  <1> HIDE DEF t
  <1>3. /\ queue' \in [Procs -> [Sessions -> Seq(Events)]]
        /\ queue'[x][s] = t /\ Elsewhere(queue, queue', x, s)
    BY <1>1, <1>2 DEF TypeOK, Elsewhere
  <1> QED
    BY <1>3 DEF t

\* A change of the children reaches every watch, and only the client.
LEMMA Fired ==
    ASSUME TypeOK
    PROVE  /\ Fire(queue) \in [Procs -> [Sessions -> Seq(Events)]]
           /\ \A p \in Providers : Fire(queue)[p] = queue[p]
           /\ \A s \in Sessions : \A S : Has(queue[client][s], S) => Has(Fire(queue)[client][s], S)
           /\ \A s \in watches : Has(Fire(queue)[client][s], {"child"})
  <1> DEFINE w(s) == IF s \in watches THEN <<"child">> ELSE <<>>
             g == [s \in Sessions |-> queue[client][s] \o w(s)]
  <1>1. client \in Procs /\ client \notin Providers /\ \A p \in Providers : p \in Procs
    BY ZooKeeperAssumption DEF Procs
  <1>2. Fire(queue) = [queue EXCEPT ![client] = g]
    BY DEF Fire
  <1>3. ASSUME NEW s \in Sessions
        PROVE  /\ g[s] \in Seq(Events)
               /\ \A S : Has(queue[client][s], S) => Has(g[s], S)
               /\ s \in watches => Has(g[s], {"child"})
    <2>1. w(s) \in Seq(Events) /\ (s \in watches => Has(w(s), {"child"}))
      BY FewEvents DEF Events
    <2>2. queue[client][s] \in Seq(Events)
      BY <1>1 DEF TypeOK
    <2> HIDE DEF w
    <2>3. g[s] = queue[client][s] \o w(s)
      OBVIOUS
    <2> HIDE DEF g
    <2> QED
      BY <2>1, <2>2, <2>3, PostEvents
  <1>4. DOMAIN g = Sessions /\ g = [s \in Sessions |-> g[s]]
    OBVIOUS
  <1> HIDE DEF w, g
  <1>5. g \in [Sessions -> Seq(Events)]
    BY <1>3, <1>4
  <1>6. Fire(queue)[client] = g /\ Fire(queue) \in [Procs -> [Sessions -> Seq(Events)]]
    BY <1>1, <1>2, <1>5 DEF TypeOK
  <1>7. \A p \in Providers : Fire(queue)[p] = queue[p]
    BY <1>1, <1>2 DEF TypeOK
  <1> QED
    BY <1>3, <1>6, <1>7 DEF TypeOK

\* A session event, followed by the failures of the calls under way.
LEMMA Failing ==
    ASSUME TypeOK, NEW x \in Procs, NEW s \in Sessions, NEW ev \in Events
    PROVE  /\ <<ev>> \o Failures(x, s) \in Seq(Events)
           /\ \A S : Has(<<ev>> \o Failures(x, s), S) => ev \in S \/ "failed" \in S
           /\ Has(<<ev>> \o Failures(x, s), {ev})
           /\ FailedLast(<<ev>> \o Failures(x, s))
  <1> DEFINE n == pending[x][s]   f == Failures(x, s)   t == <<ev>> \o f
  <1>1. n \in Nat
    BY DEF TypeOK
  <1>2. f \in Seq(Events) /\ Len(f) = n /\ \A i \in 1 .. n : f[i] = "failed"
    <2>1. f = [i \in 1 .. n |-> "failed"]
      BY DEF Failures
    <2> HIDE DEF f, n
    <2>2. f \in [1 .. n -> Events]
      BY <2>1 DEF Events
    <2> QED
      BY <1>1, <2>1, <2>2
  <1>3. <<ev>> \in Seq(Events) /\ Len(<<ev>>) = 1 /\ <<ev>>[1] = ev
    OBVIOUS
  <1> HIDE DEF f, n
  <1>4. /\ t \in Seq(Events) /\ Len(t) = 1 + n
        /\ \A i \in 1 .. (1 + n) : t[i] = IF i <= 1 THEN <<ev>>[i] ELSE f[i - 1]
    BY <1>2, <1>3, ConcatProperties
  <1>5. DOMAIN t = 1 .. (1 + n)
    BY <1>4, LenProperties
  <1>6. t[1] = ev /\ 1 \in 1 .. (1 + n) /\ \A i \in 1 .. (1 + n) : i = 1 \/ t[i] = "failed"
    BY <1>1, <1>2, <1>3, <1>4
  <1> HIDE DEF t
  <1>7. \A i, j \in 1 .. (1 + n) : i < j => j # 1
    BY <1>1
  <1> QED
    BY <1>4, <1>5, <1>6, <1>7 DEF Has, FailedLast, t, f

\* zookeeper_init begins a session that was never used.
LEMMA NextSession ==
    ASSUME NEW x \in Procs, CanOpen(x)
    PROVE  Fresh(x) \in Sessions /\ Fresh(x) # 0 /\ link[x][Fresh(x)] = "none"
  <1>1. Fresh(x) \in Sessions /\ link[x][Fresh(x)] = "none"
    BY DEF CanOpen, Fresh
  <1> QED
    BY <1>1 DEF Sessions

-----------------------------------------------------------------------------
(* A provider.                                                             *)

\* Steps that leave the tables and the members of p alone.
LEMMA Untouched ==
    ASSUME NEW p \in Providers, ProviderOK(p),
           link'[p] = link[p], queue'[p] = queue[p], pending'[p] = pending[p], node'[p] = node[p],
           up'[p] = up[p], m_zhandle'[p] = m_zhandle[p], m_connected'[p] = m_connected[p],
           opening'[p] = opening[p], answer'[p] = answer[p]
    PROVE  ProviderOK(p)'
  <1>1. /\ \A c \in Sessions : Current(p, c)' <=> Current(p, c)
        /\ \A c \in Sessions : Others(p, c)' <=> Others(p, c)
        /\ \A c \in Sessions : InOrder(p, c)' <=> InOrder(p, c)
        /\ \A c \in Sessions : Covered(p, c)' <=> Covered(p, c)
    BY DEF Current, Others, InOrder, Covered
  <1> QED
    BY <1>1 DEF ProviderOK

\* The types of what a provider's thread reads.
LEMMA ProviderType ==
    ASSUME TypeOK, NEW p \in Providers, NEW s \in Sessions
    PROVE  p \in Procs /\ queue[p][s] \in Seq(Events) /\ m_connected[p] \in BOOLEAN
  <1>1. p \in Procs
    BY DEF Procs
  <1> QED
    BY <1>1 DEF TypeOK

\* A session of p with a connection, or in search of one, is the current one.
LEMMA Running ==
    ASSUME NEW p \in Providers, ProviderOK(p), NEW s \in Sessions,
           link[p][s] \in {"new", "up", "down"}
    PROVE  up[p] /\ Current(p, s) /\ Others(p, s) /\ InOrder(p, s) /\ Covered(p, s)
  <1>1. up[p]
    BY DEF ProviderOK
  <1>2. PICK c \in Sessions : Current(p, c) /\ Others(p, c) /\ InOrder(p, c) /\ Covered(p, c)
    BY <1>1 DEF ProviderOK
  <1>3. c = s
    BY <1>2 DEF Others
  <1> QED
    BY <1>1, <1>2, <1>3

\* So is one that has anything but a failure to deliver.
LEMMA Delivering ==
    ASSUME TypeOK, NEW p \in Providers, ProviderOK(p), NEW s \in Sessions,
           NEW ev \in Events \ {"failed"}, Delivers(p, s, ev)
    PROVE  up[p] /\ Current(p, s) /\ Others(p, s) /\ InOrder(p, s) /\ Covered(p, s)
  <1>1. p \in Procs
    BY DEF Procs
  <1>2. up[p] /\ queue[p][s] \in Seq(Events) /\ queue[p][s] # <<>> /\ Head(queue[p][s]) = ev
    BY <1>1 DEF Delivers, TypeOK
  <1>3. PICK c \in Sessions : Current(p, c) /\ Others(p, c) /\ InOrder(p, c) /\ Covered(p, c)
    BY <1>2 DEF ProviderOK
  <1>4. Has(queue[p][s], Events \ {"failed"})
    BY <1>2, PopEvent
  <1>5. c = s
    BY <1>3, <1>4 DEF Others
  <1> QED
    BY <1>2, <1>3, <1>5

\* A step on the current session.
LEMMA OthersKept ==
    ASSUME NEW p, NEW c, Others(p, c), Elsewhere(link, link', p, c), Elsewhere(queue, queue', p, c)
    PROVE  Others(p, c)'
  BY DEF Others, Elsewhere

\* A new connection: its event makes p register.
LEMMA ConnectProvider ==
    ASSUME TypeOK, NEW p \in Providers, ProviderOK(p), NEW c \in Sessions,
           Connect(p, c), UNCHANGED codeVars
    PROVE  ProviderOK(p)'
  <1>a. p \in Procs /\ "up" \in Links /\ "connected" \in Events /\ queue[p][c] \in Seq(Events)
    BY ProviderType DEF Links, Events
  <1>0. p \in Procs /\ "up" \in Links /\ queue[p][c] \in Seq(Events) /\ <<"connected">> \in Seq(Events)
    BY <1>a, FewEvents
  <1>1. /\ link[p][c] \in {"new", "down"} /\ SetLink(p, c, "up")
        /\ queue' = Post(queue, p, c, <<"connected">>)
    BY DEF Connect
  <1>2. up[p] /\ Current(p, c) /\ Others(p, c) /\ InOrder(p, c)
    BY <1>1, Running
  <1>3. /\ link'[p][c] = "up" /\ Elsewhere(link, link', p, c)
        /\ queue'[p][c] = queue[p][c] \o <<"connected">> /\ Elsewhere(queue, queue', p, c)
    BY <1>0, <1>1, Linked, Posted
  <1>4. up'[p] /\ Current(p, c)' /\ Others(p, c)'
    BY <1>2, <1>3, OthersKept DEF Current, codeVars
  <1> DEFINE q == queue[p][c]   r == <<"connected">>   t == queue'[p][c]
  <1>5. /\ FailedLast(r) /\ Has(r, {"connected"}) /\ Has(r, {"connected", "exists"})
        /\ ~Has(r, {"expired"}) /\ ~Has(r, {"connecting"}) /\ ~Has(r, {"ok", "own"})
    BY <1>a, FewEvents
  <1>6. ~Has(q, {"expired"})
    BY <1>1, <1>2 DEF InOrder
  <1>7. q \in Seq(Events) /\ r \in Seq(Events) /\ t = q \o r
    BY <1>0, <1>3
  <1> HIDE DEF q, r
  <1>8. /\ FailedLast(t) /\ Has(t, {"connected"}) /\ Has(t, {"connected", "exists"})
        /\ ~Has(t, {"expired"}) /\ After(t, {"connecting"}, {"connected"})
        /\ After(t, {"ok", "own"}, {"connected"})
    BY <1>5, <1>6, <1>7, PostEvents
  <1>9. InOrder(p, c)' /\ Covered(p, c)'
    BY <1>3, <1>8 DEF InOrder, Covered
  <1> QED
    BY <1>4, <1>9 DEF ProviderOK

\* A lost connection: p hears of it before it hears of its failed calls.
LEMMA DisconnectProvider ==
    ASSUME TypeOK, NEW p \in Providers, ProviderOK(p), NEW c \in Sessions,
           Disconnect(p, c), UNCHANGED codeVars
    PROVE  ProviderOK(p)'
  <1> DEFINE q == queue[p][c]   r == <<"connecting">> \o Failures(p, c)   t == queue'[p][c]
  <1>0. p \in Procs /\ "down" \in Links /\ "connecting" \in Events /\ q \in Seq(Events)
    BY ProviderType DEF Links, Events
  <1>1. link[p][c] = "up" /\ SetLink(p, c, "down") /\ queue' = Post(queue, p, c, r)
    BY DEF Disconnect
  <1>2. up[p] /\ Current(p, c) /\ Others(p, c) /\ InOrder(p, c)
    BY <1>1, Running
  <1>3. r \in Seq(Events) /\ ~Has(r, {"expired"}) /\ FailedLast(r)
    BY <1>0, Failing
  <1> HIDE DEF r
  <1>4. /\ link'[p][c] = "down" /\ Elsewhere(link, link', p, c)
        /\ t = q \o r /\ Elsewhere(queue, queue', p, c)
    BY <1>0, <1>1, <1>3, Linked, Posted
  <1>5. up'[p] /\ Current(p, c)' /\ Others(p, c)'
    BY <1>2, <1>4, OthersKept DEF Current, codeVars
  <1>6. ~Has(q, {"expired"})
    BY <1>1, <1>2 DEF InOrder
  <1>7. FailedLast(t) /\ ~Has(t, {"expired"})
    BY <1>0, <1>3, <1>4, <1>6, PostEvents
  <1>8. InOrder(p, c)' /\ Covered(p, c)'
    BY <1>4, <1>7 DEF InOrder, Covered
  <1> QED
    BY <1>5, <1>8 DEF ProviderOK

\* The expiry of the current session is queued, and only failures after it.
LEMMA NotifyProvider ==
    ASSUME TypeOK, NEW p \in Providers, ProviderOK(p), NEW c \in Sessions,
           NotifyExpired(p, c), UNCHANGED codeVars
    PROVE  ProviderOK(p)'
  <1> DEFINE q == queue[p][c]   r == <<"expired">> \o Failures(p, c)   t == queue'[p][c]
  <1>0. p \in Procs /\ "expired" \in Links /\ "expired" \in Events /\ q \in Seq(Events)
    BY ProviderType DEF Links, Events
  <1>1. link[p][c] = "down" /\ SetLink(p, c, "expired") /\ queue' = Post(queue, p, c, r)
    BY DEF NotifyExpired
  <1>2. up[p] /\ Current(p, c) /\ Others(p, c) /\ InOrder(p, c)
    BY <1>1, Running
  <1>3. r \in Seq(Events) /\ Has(r, {"expired"}) /\ FailedLast(r)
    BY <1>0, Failing
  <1> HIDE DEF r
  <1>4. /\ link'[p][c] = "expired" /\ Elsewhere(link, link', p, c)
        /\ t = q \o r /\ Elsewhere(queue, queue', p, c)
    BY <1>0, <1>1, <1>3, Linked, Posted
  <1>5. up'[p] /\ Current(p, c)' /\ Others(p, c)'
    BY <1>2, <1>4, OthersKept DEF Current, codeVars
  <1>6. ~Has(q, {"expired"})
    BY <1>1, <1>2 DEF InOrder
  <1>7. FailedLast(t) /\ Has(t, {"expired"})
    BY <1>0, <1>3, <1>4, <1>6, PostEvents
  <1>8. InOrder(p, c)' /\ Covered(p, c)'
    BY <1>4, <1>7 DEF InOrder, Covered
  <1> QED
    BY <1>5, <1>8 DEF ProviderOK

\* ZooKeeper removes the node of a session only when its handle is down, or
\* when it is not the current session of p.
LEMMA ExpireProvider ==
    ASSUME TypeOK, NEW p \in Providers, ProviderOK(p), NEW s \in Sessions,
           Expire(p, s), UNCHANGED codeVars
    PROVE  ProviderOK(p)'
  <1>1. /\ link[p][s] \in {"down", "gone"} /\ link' = link /\ pending' = pending
        /\ (node' = [node EXCEPT ![p] = 0] /\ node[p] = s) \/ node' = node
        /\ queue' = Fire(queue) \/ queue' = queue
    BY DEF Expire
  <1>2. queue'[p] = queue[p] /\ (node'[p] = node[p] \/ (node'[p] = 0 /\ node[p] = s))
    BY <1>1, Fired DEF TypeOK
  <1>3. CASE ~up[p]
    BY <1>1, <1>2, <1>3 DEF ProviderOK, codeVars
  <1>4. CASE up[p]
    <2>1. PICK c \in Sessions : Current(p, c) /\ Others(p, c) /\ InOrder(p, c) /\ Covered(p, c)
      BY <1>4 DEF ProviderOK
    <2>2. node'[p] = node[p] \/ node[p] # c \/ link[p][c] # "up"
      BY <1>1, <1>2
    <2>3. Current(p, c)' /\ Others(p, c)'
      BY <1>1, <1>2, <2>1 DEF Current, Others, codeVars
    <2>4. InOrder(p, c)'
      BY <1>1, <1>2, <2>1, <2>2 DEF InOrder, codeVars
    <2>5. Covered(p, c)'
      BY <1>1, <1>2, <2>1, <2>2 DEF Covered, codeVars
    <2> QED
      BY <1>4, <2>3, <2>4, <2>5 DEF ProviderOK, codeVars
  <1> QED
    BY <1>3, <1>4

\* The server answers a creation of p: the node is there, or the answer says why not.
LEMMA ServeProvider ==
    ASSUME TypeOK, NEW p \in Providers, ProviderOK(p), NEW c \in Sessions,
           ServeCreate(p, c), UNCHANGED codeVars
    PROVE  ProviderOK(p)'
  <1> DEFINE q == queue[p][c]   t == queue'[p][c]
  <1>0. p \in Procs /\ q \in Seq(Events) /\ c # 0 /\ client \notin Providers
    BY ZooKeeperAssumption DEF Procs, TypeOK, Sessions
  <1>1. link[p][c] = "up" /\ link' = link
    BY DEF ServeCreate
  <1>2. up[p] /\ Current(p, c) /\ Others(p, c) /\ InOrder(p, c)
    BY <1>1, Running
  <1>3. PICK ev \in {"failed", "own", "exists", "ok"} :
           /\ queue' = Post(queue, p, c, <<ev>>) \/ queue' = Post(Fire(queue), p, c, <<ev>>)
           /\ ev \in {"own", "ok"} => node'[p] = c
           /\ ev \in {"failed", "exists"} => node'[p] = node[p]
    BY <1>0 DEF ServeCreate, TypeOK
  <1> DEFINE r == <<ev>>
  <1>a. ev \in Events
    BY DEF Events
  <1>4. r \in Seq(Events) /\ FailedLast(r) /\ \A S : Has(r, S) <=> ev \in S
    BY <1>a, FewEvents
  <1> HIDE DEF r
  <1>5. t = q \o r /\ \A s \in Sessions \ {c} : queue'[p][s] = queue[p][s]
    <2>1. CASE queue' = Post(queue, p, c, r)
      BY <1>0, <1>4, <2>1, Posted DEF Elsewhere
    <2>2. CASE queue' = Post(Fire(queue), p, c, r)
      <3>1. Fire(queue) \in [Procs -> [Sessions -> Seq(Events)]] /\ Fire(queue)[p] = queue[p]
        BY Fired
      <3> DEFINE g == Fire(queue)
      <3>2. queue' = [g EXCEPT ![p][c] = g[p][c] \o r]
        BY <2>2 DEF Post
      <3> HIDE DEF g
      <3>3. g \in [Procs -> [Sessions -> Seq(Events)]] /\ g[p] = queue[p]
        BY <3>1 DEF g
      <3> QED
        BY <1>0, <3>2, <3>3
    <2> QED
      BY <1>3, <2>1, <2>2 DEF r
  <1>6. up'[p] /\ Current(p, c)' /\ Others(p, c)'
    BY <1>1, <1>2, <1>5 DEF Current, Others, codeVars
  <1>7. ~Has(q, {"expired"}) /\ After(q, {"connecting"}, {"connected"})
        /\ (node[p] = c \/ After(q, {"ok", "own"}, {"connected"}))
        /\ (m_connected[p] \/ Has(q, {"connected"}))
    BY <1>1, <1>2 DEF InOrder
  <1>8. FailedLast(t) /\ ~Has(t, {"expired"}) /\ After(t, {"connecting"}, {"connected"})
        /\ (m_connected[p] \/ Has(t, {"connected"}))
    BY <1>0, <1>4, <1>5, <1>7, PostEvents
  <1>9. node'[p] = c \/ After(t, {"ok", "own"}, {"connected"})
    <2>1. CASE ev \in {"own", "ok"}
      BY <1>3, <2>1
    <2>2. CASE ev \in {"failed", "exists"} /\ After(q, {"ok", "own"}, {"connected"})
      <3>1. ~Has(r, {"ok", "own"})
        BY <1>4, <2>2
      <3> QED
        BY <1>0, <1>4, <1>5, <2>2, <3>1, PostEvents
    <2> QED
      BY <1>3, <1>7, <2>1, <2>2
  <1>10. InOrder(p, c)'
    BY <1>1, <1>8, <1>9 DEF InOrder, codeVars
  <1>11. node'[p] = c \/ Has(t, {"failed"}) \/ Has(t, {"connected", "exists"})
    BY <1>0, <1>3, <1>4, <1>5, PostEvents
  <1>12. Covered(p, c)'
    BY <1>11 DEF Covered
  <1> QED
    BY <1>6, <1>10, <1>12 DEF ProviderOK

\* main, and Publish for the first time: every earlier session is gone.
LEMMA StartProvider ==
    ASSUME TypeOK, NEW p \in Providers, ProviderOK(p), Start(p)
    PROVE  ProviderOK(p)'
  <1> DEFINE c == Fresh(p)
  <1>1. p \in Procs /\ "new" \in Links /\ p \in DOMAIN up /\ p \in DOMAIN opening /\ p \in DOMAIN m_zhandle
    BY DEF Procs, Links, TypeOK
  <1>2. ~up[p] /\ CanOpen(p) /\ SetLink(p, c, "new") /\ queue' = queue
    BY DEF Start, BeginConnect
  <1>3. c \in Sessions
    BY <1>1, <1>2, NextSession
  <1>4. opening'[p] = c /\ m_zhandle'[p] = 0 /\ up'[p]
    BY <1>1 DEF Start, BeginConnect, TypeOK
  <1> HIDE DEF c
  <1>5. link'[p][c] = "new" /\ Elsewhere(link, link', p, c)
    BY <1>1, <1>2, <1>3, Linked
  <1>6. \A s \in Sessions : queue'[p][s] = <<>> /\ link[p][s] \in {"none", "gone"}
    BY <1>2 DEF ProviderOK
  <1>7. \A s \in Sessions : (\A S : ~Has(queue'[p][s], S)) /\ FailedLast(queue'[p][s])
    BY <1>6, FewEvents
  <1>8. PICK d \in Sessions : d = c
    BY <1>3
  <1>9. Others(p, d)'
    BY <1>5, <1>6, <1>7, <1>8 DEF Others, Elsewhere
  <1>10. Current(p, d)' /\ InOrder(p, d)' /\ Covered(p, d)'
    BY <1>3, <1>4, <1>5, <1>7, <1>8 DEF Current, InOrder, Covered
  <1> QED
    BY <1>4, <1>9, <1>10 DEF ProviderOK

\* Publish gets its handle: the current session is the same.
LEMMA StoreProvider ==
    ASSUME TypeOK, NEW p \in Providers, ProviderOK(p), StoreHandle(p)
    PROVE  ProviderOK(p)'
  <1>1. /\ link' = link /\ queue' = queue /\ pending' = pending /\ node' = node
        /\ up' = up /\ m_connected' = m_connected /\ answer' = answer
    BY DEF StoreHandle, zkVars
  <1>2. p \in Procs
    BY DEF Procs
  <1>3. opening[p] # 0 /\ m_zhandle'[p] = opening[p] /\ opening'[p] = 0
    BY <1>2 DEF StoreHandle, TypeOK
  <1>4. PICK c \in Sessions : Current(p, c) /\ Others(p, c) /\ InOrder(p, c) /\ Covered(p, c)
    BY <1>3 DEF ProviderOK
  <1>5. Current(p, c)'
    BY <1>3, <1>4 DEF Current
  <1>6. Others(p, c)' /\ InOrder(p, c)' /\ Covered(p, c)'
    BY <1>1, <1>4 DEF Others, InOrder, Covered
  <1> QED
    BY <1>1, <1>3, <1>5, <1>6 DEF ProviderOK

\* Register asks for the node on the current session, or p knows nothing of it.
LEMMA Registering ==
    ASSUME TypeOK, NEW p \in Providers, NEW c \in Sessions, Current(p, c), Register(p, TRUE)
    PROVE  /\ pending' \in [Procs -> [Sessions -> Nat]] /\ DOMAIN answer' = Providers
           /\ pending'[p][c] > 0 \/ answer'[p] = "refused"
           /\ \A y \in Procs \ {p} : pending'[y] = pending[y]
           /\ \A y \in Providers \ {p} : answer'[y] = answer[y]
  <1> DEFINE h == m_zhandle[p]
  <1>0. c # 0 /\ 0 \notin Sessions
    BY ZooKeeperAssumption DEF Sessions
  <1>1. p \in Procs /\ c # 0 /\ pending[p][c] \in Nat /\ 0 \notin Sessions
    BY <1>0 DEF Procs, TypeOK
  <1>2. CASE /\ h # 0 /\ pending' = [pending EXCEPT ![p][h] = @ + 1]
             /\ answer' = [answer EXCEPT ![p] = "none"]
    <2>1. h = c
      BY <1>1, <1>2 DEF Current
    <2>2. pending' = [pending EXCEPT ![p][c] = pending[p][c] + 1] /\ pending[p][c] + 1 \in Nat
      BY <1>1, <1>2, <2>1
    <2>3. /\ pending' \in [Procs -> [Sessions -> Nat]] /\ pending'[p][c] = pending[p][c] + 1
          /\ \A y \in Procs \ {p} : pending'[y] = pending[y]
      BY <1>1, <2>2 DEF TypeOK
    <2>4. pending'[p][c] > 0
      BY <1>1, <2>3
    <2> QED
      BY <1>2, <2>3, <2>4 DEF TypeOK
  <1>3. CASE answer' = [answer EXCEPT ![p] = "refused"] /\ pending' = pending
    BY <1>3 DEF TypeOK
  <1> QED
    BY <1>2, <1>3 DEF Register

\* InitWatcher on "connected": p registers, or zoo_acreate refuses.
LEMMA ConnectedProvider ==
    ASSUME TypeOK, NEW p \in Providers, ProviderOK(p), NEW c \in Sessions, WatcherConnected(p, c)
    PROVE  ProviderOK(p)'
  <1> DEFINE q == queue[p][c]   t == queue'[p][c]
  <1>0. p \in Procs /\ "connected" \in Events \ {"failed"} /\ q \in Seq(Events)
    BY ProviderType DEF Events
  <1>1. /\ Delivers(p, c, "connected") /\ Pop(p, c) /\ Register(p, TRUE)
        /\ link' = link /\ node' = node /\ up' = up /\ m_zhandle' = m_zhandle /\ opening' = opening
    BY DEF WatcherConnected
  <1>2. m_connected'[p]
    BY <1>0 DEF WatcherConnected, TypeOK
  <1>3. up[p] /\ Current(p, c) /\ Others(p, c) /\ InOrder(p, c)
    BY <1>0, <1>1, Delivering
  <1>4. q # <<>> /\ Head(q) = "connected"
    BY <1>1 DEF Delivers
  <1>5. t = Tail(q) /\ Elsewhere(queue, queue', p, c)
    BY <1>0, <1>1, <1>4, Popped
  <1>6. Current(p, c)' /\ Others(p, c)'
    BY <1>1, <1>3, <1>5 DEF Current, Others, Elsewhere
  <1>7. /\ Has(t, {"expired"}) <=> Has(q, {"expired"})
        /\ FailedLast(q) => FailedLast(t)
        /\ \A S, T : After(q, S, T) => After(t, S, T)
    BY <1>0, <1>4, <1>5, PopEvent
  <1>8. InOrder(p, c)'
    BY <1>1, <1>2, <1>3, <1>7 DEF InOrder
  <1>9. Covered(p, c)'
    BY <1>1, <1>3, Registering DEF Covered
  <1> QED
    BY <1>1, <1>3, <1>6, <1>8, <1>9 DEF ProviderOK

\* InitWatcher on "connecting": a "connected" follows if the connection is back.
LEMMA ConnectingProvider ==
    ASSUME TypeOK, NEW p \in Providers, ProviderOK(p), NEW c \in Sessions, WatcherConnecting(p, c)
    PROVE  ProviderOK(p)'
  <1> DEFINE q == queue[p][c]   t == queue'[p][c]
  <1>0. p \in Procs /\ "connecting" \in Events \ {"failed"} /\ q \in Seq(Events)
    BY ProviderType DEF Events
  <1>1. /\ Delivers(p, c, "connecting") /\ Pop(p, c) /\ pending' = pending /\ answer' = answer
        /\ link' = link /\ node' = node /\ up' = up /\ m_zhandle' = m_zhandle /\ opening' = opening
    BY DEF WatcherConnecting
  <1>2. up[p] /\ Current(p, c) /\ Others(p, c) /\ InOrder(p, c) /\ Covered(p, c)
    BY <1>0, <1>1, Delivering
  <1>3. q # <<>> /\ Head(q) = "connecting"
    BY <1>1 DEF Delivers
  <1>4. t = Tail(q) /\ Elsewhere(queue, queue', p, c)
    BY <1>0, <1>1, <1>3, Popped
  <1>5. Current(p, c)' /\ Others(p, c)'
    BY <1>1, <1>2, <1>4 DEF Current, Others, Elsewhere
  <1>6. /\ \A S : "connecting" \notin S => (Has(t, S) <=> Has(q, S))
        /\ FailedLast(q) => FailedLast(t)
        /\ \A S, T : After(q, S, T) => After(t, S, T)
        /\ After(q, {"connecting"}, {"connected"}) => Has(t, {"connected"})
    BY <1>0, <1>3, <1>4, PopEvent
  <1>7. Has(t, {"expired"}) <=> Has(q, {"expired"})
    BY <1>6
  <1>8. InOrder(p, c)'
    BY <1>1, <1>2, <1>6, <1>7 DEF InOrder
  <1>9. /\ Has(q, {"connected", "exists"}) => Has(t, {"connected", "exists"})
        /\ \A s \in Sessions : Has(queue[p][s], {"failed"}) => Has(queue'[p][s], {"failed"})
    BY <1>4, <1>6 DEF Elsewhere
  <1>10. Covered(p, c)'
    BY <1>1, <1>2, <1>9 DEF Covered
  <1> QED
    BY <1>1, <1>2, <1>5, <1>8, <1>10 DEF ProviderOK

\* Publish again: the expired session joins those that only fail.
LEMMA ExpiredProvider ==
    ASSUME TypeOK, NEW p \in Providers, ProviderOK(p), NEW s \in Sessions, WatcherExpired(p, s)
    PROVE  ProviderOK(p)'
  <1> DEFINE q == queue[p][s]   t == queue'[p][s]   f == Fresh(p)
  <1>0. p \in Procs /\ "expired" \in Events \ {"failed"} /\ "new" \in Links /\ q \in Seq(Events)
    BY ProviderType DEF Events, Links
  <1>1. /\ Delivers(p, s, "expired") /\ Pop(p, s) /\ CanOpen(p) /\ SetLink(p, f, "new") /\ up' = up
        /\ opening'[p] = f /\ m_zhandle'[p] = 0
    BY <1>0 DEF WatcherExpired, BeginConnect, TypeOK
  <1>2. up[p] /\ Others(p, s) /\ InOrder(p, s)
    BY <1>0, <1>1, Delivering
  <1>3. f \in Sessions /\ link[p][f] = "none"
    BY <1>0, <1>1, NextSession
  <1> HIDE DEF f
  <1>4. q # <<>> /\ Head(q) = "expired"
    BY <1>1 DEF Delivers
  <1>5. t = Tail(q) /\ Elsewhere(queue, queue', p, s)
    BY <1>0, <1>1, <1>4, Popped
  <1>6. link'[p][f] = "new" /\ Elsewhere(link, link', p, f)
    BY <1>0, <1>1, <1>3, Linked
  <1>7. FailedLast(q) /\ Has(q, {"expired"})
    BY <1>0, <1>2, <1>4, PopEvent DEF InOrder
  <1>8. link[p][s] = "expired" /\ ~Has(t, Events \ {"failed"})
    <2>1. link[p][s] = "expired"
      BY <1>2, <1>7 DEF InOrder
    <2>2. ~Has(Tail(q), Events \ {"failed"})
      BY <1>0, <1>4, <1>7, PopEvent
    <2> QED
      BY <1>5, <2>1, <2>2
  <1>9. \A r \in Sessions : ~Has(queue'[p][r], Events \ {"failed"})
    BY <1>2, <1>5, <1>8 DEF Others, Elsewhere
  <1>10. \A r \in Sessions \ {f} : link'[p][r] \in {"none", "expired", "gone"}
    BY <1>2, <1>6, <1>8 DEF Others, Elsewhere
  <1>11. PICK c \in Sessions : c = f
    BY <1>3
  <1>12. ~Has(queue'[p][c], {"expired"}) /\ FailedLast(queue'[p][c])
    BY <1>0, <1>9 DEF Has, FailedLast
  <1>13. Others(p, c)'
    BY <1>9, <1>10, <1>11 DEF Others
  <1>14. Current(p, c)' /\ InOrder(p, c)' /\ Covered(p, c)'
    BY <1>1, <1>6, <1>11, <1>12 DEF Current, InOrder, Covered
  <1> QED
    BY <1>1, <1>2, <1>13, <1>14 DEF ProviderOK

\* An answer that counts as success.
LEMMA SuccessProvider ==
    ASSUME TypeOK, NEW p \in Providers, ProviderOK(p), NEW c \in Sessions, zooCreateCallback(p, c),
           NEW rc \in {"ok", "own", "exists"}, Delivers(p, c, rc),
           answer' = [answer EXCEPT ![p] = rc], pending' = pending
    PROVE  ProviderOK(p)'
  <1> DEFINE q == queue[p][c]   t == queue'[p][c]
  <1>0. p \in Procs /\ rc \in Events \ {"failed"} /\ q \in Seq(Events)
    BY ProviderType DEF Events
  <1>1. /\ Pop(p, c) /\ m_connected' = m_connected
        /\ link' = link /\ node' = node /\ up' = up /\ m_zhandle' = m_zhandle /\ opening' = opening
    BY DEF zooCreateCallback
  <1>2. up[p] /\ Current(p, c) /\ Others(p, c) /\ InOrder(p, c) /\ Covered(p, c)
    BY <1>0, <1>1, Delivering
  <1>3. q # <<>> /\ Head(q) = rc /\ answer'[p] = rc
    BY DEF Delivers, TypeOK
  <1>4. t = Tail(q) /\ Elsewhere(queue, queue', p, c)
    BY <1>0, <1>1, <1>3, Popped
  <1>5. Current(p, c)' /\ Others(p, c)'
    BY <1>1, <1>2, <1>4 DEF Current, Others, Elsewhere
  <1>6. /\ \A S : rc \notin S => (Has(t, S) <=> Has(q, S))
        /\ FailedLast(q) => FailedLast(t)
        /\ \A S, T : After(q, S, T) => After(t, S, T)
        /\ \A S, T : rc \in S /\ After(q, S, T) => Has(t, T)
    BY <1>0, <1>3, <1>4, PopEvent
  <1>7. /\ Has(t, {"expired"}) <=> Has(q, {"expired"})
        /\ Has(t, {"connected"}) <=> Has(q, {"connected"})
        /\ Has(t, {"failed"}) <=> Has(q, {"failed"})
    BY <1>6
  <1>8. InOrder(p, c)'
    BY <1>1, <1>2, <1>6, <1>7 DEF InOrder
  <1>9. \A s \in Sessions : Has(queue[p][s], {"failed"}) => Has(queue'[p][s], {"failed"})
    BY <1>4, <1>7 DEF Elsewhere
  <1>10. CASE rc = "exists"
    <2>1. Covered(p, c)'
      BY <1>3, <1>10 DEF Covered
    <2> QED
      BY <1>1, <1>2, <1>5, <1>8, <2>1 DEF ProviderOK
  <1>11. CASE rc \in {"ok", "own"}
    <2>1. Has(q, {"connected", "exists"}) => Has(t, {"connected", "exists"})
      BY <1>6, <1>11
    <2>2. link[p][c] = "up" => node[p] = c \/ Has(t, {"connected"})
      BY <1>2, <1>6, <1>11 DEF InOrder
    <2>3. Has(t, {"connected"}) => Has(t, {"connected", "exists"})
      BY DEF Has
    <2>4. Covered(p, c)'
      BY <1>1, <2>2, <2>3 DEF Covered
    <2> QED
      BY <1>1, <1>2, <1>5, <1>8, <2>4 DEF ProviderOK
  <1> QED
    BY <1>10, <1>11

\* Any other answer: p registers again, unless the connection is lost, and
\* then it is going to hear of the next one.
LEMMA FailureProvider ==
    ASSUME TypeOK, NEW p \in Providers, ProviderOK(p), NEW s \in Sessions, zooCreateCallback(p, s),
           Delivers(p, s, "failed"), Register(p, m_connected[p])
    PROVE  ProviderOK(p)'
  <1> DEFINE q == queue[p][s]   t == queue'[p][s]
  <1>0. p \in Procs /\ "failed" \in Events /\ q \in Seq(Events) /\ m_connected[p] \in BOOLEAN
    BY ProviderType DEF Events
  <1>1. /\ Pop(p, s) /\ m_connected' = m_connected
        /\ link' = link /\ node' = node /\ up' = up /\ m_zhandle' = m_zhandle /\ opening' = opening
    BY DEF zooCreateCallback
  <1>2. up[p] /\ q # <<>> /\ Head(q) = "failed"
    BY DEF Delivers
  <1>3. PICK c \in Sessions : Current(p, c) /\ Others(p, c) /\ InOrder(p, c) /\ Covered(p, c)
    BY <1>2 DEF ProviderOK
  <1>4. t = Tail(q) /\ Elsewhere(queue, queue', p, s)
    BY <1>0, <1>1, <1>2, Popped
  <1>5. /\ \A S : "failed" \notin S => (Has(t, S) <=> Has(q, S))
        /\ FailedLast(q) => FailedLast(t)
        /\ \A S, T : After(q, S, T) => After(t, S, T)
    BY <1>0, <1>2, <1>4, PopEvent
  <1>6. ASSUME NEW r \in Sessions
        PROVE  /\ \A S : "failed" \notin S => (Has(queue'[p][r], S) <=> Has(queue[p][r], S))
               /\ FailedLast(queue[p][r]) => FailedLast(queue'[p][r])
               /\ \A S, T : After(queue[p][r], S, T) => After(queue'[p][r], S, T)
    <2>1. CASE r = s
      BY <1>5, <2>1
    <2>2. CASE r # s
      BY <1>4, <2>2 DEF Elsewhere
    <2> QED
      BY <2>1, <2>2
  <1>7. Current(p, c)'
    BY <1>1, <1>3 DEF Current
  <1>8. Others(p, c)'
    BY <1>1, <1>3, <1>6 DEF Others
  <1>9. /\ Has(queue'[p][c], {"expired"}) <=> Has(queue[p][c], {"expired"})
        /\ Has(queue'[p][c], {"connected"}) <=> Has(queue[p][c], {"connected"})
    BY <1>6
  <1>10. InOrder(p, c)'
    BY <1>1, <1>3, <1>6, <1>9 DEF InOrder
  <1>11. CASE m_connected[p]
    <2>1. Register(p, TRUE)
      BY <1>11 DEF Register
    <2>2. pending'[p][c] > 0 \/ answer'[p] = "refused"
      BY <1>3, <2>1, Registering
    <2>3. Covered(p, c)'
      BY <2>2 DEF Covered
    <2> QED
      BY <1>1, <1>2, <1>7, <1>8, <1>10, <2>3 DEF ProviderOK
  <1>12. CASE ~m_connected[p]
    <2>1. link[p][c] = "up" => Has(queue'[p][c], {"connected"})
      BY <1>3, <1>9, <1>12 DEF InOrder
    <2>2. Has(queue'[p][c], {"connected"}) => Has(queue'[p][c], {"connected", "exists"})
      BY DEF Has
    <2>3. Covered(p, c)'
      BY <1>1, <2>1, <2>2 DEF Covered
    <2> QED
      BY <1>1, <1>2, <1>7, <1>8, <1>10, <2>3 DEF ProviderOK
  <1> QED
    BY <1>11, <1>12

\* zooCreateCallback, after any answer.
LEMMA CreatedProvider ==
    ASSUME TypeOK, NEW p \in Providers, ProviderOK(p), NEW s \in Sessions, zooCreateCallback(p, s)
    PROVE  ProviderOK(p)'
  BY SuccessProvider, FailureProvider DEF zooCreateCallback

\* A process that died has no handle and nothing to deliver.
LEMMA CrashProvider ==
    ASSUME TypeOK, NEW p \in Providers, Crash(p)
    PROVE  ProviderOK(p)'
  <1>1. p \in Procs
    BY DEF Procs
  <1>2. ~up'[p] /\ opening'[p] = 0
    BY <1>1 DEF Crash, TypeOK
  <1>3. \A s \in Sessions : link'[p][s] = IF link[p][s] = "none" THEN "none" ELSE "gone"
    BY <1>1 DEF Crash, TypeOK
  <1>4. \A s \in Sessions : queue'[p][s] = <<>>
    BY <1>1 DEF Crash, TypeOK
  <1> QED
    BY <1>2, <1>3, <1>4 DEF ProviderOK

-----------------------------------------------------------------------------
(* The client.                                                             *)

\* The types of what the client's threads read.
LEMMA ClientType ==
    ASSUME TypeOK
    PROVE  /\ client \in Procs /\ 0 \notin Sessions
           /\ m_zhandle[client] \in Sessions \union {0} /\ opening[client] \in Sessions \union {0}
           /\ \A s \in Sessions : queue[client][s] \in Seq(Events)
  <1>1. client \in Procs
    BY DEF Procs
  <1>2. 0 \notin Sessions
    BY ZooKeeperAssumption DEF Sessions
  <1> QED
    BY <1>1, <1>2 DEF TypeOK

\* Steps that leave the tables and the members of the client alone.
LEMMA ClientUntouched ==
    ASSUME ClientOK,
           link'[client] = link[client], queue'[client] = queue[client], up'[client] = up[client],
           m_zhandle'[client] = m_zhandle[client], opening'[client] = opening[client],
           node' = node, watches' = watches, services' = services
    PROVE  ClientOK'
  <1>1. /\ \A s \in Sessions : SessionOwes(s)' <=> SessionOwes(s)
        /\ SessionOwes(opening[client])' <=> SessionOwes(opening[client])
        /\ SessionOwes(m_zhandle[client])' <=> SessionOwes(m_zhandle[client])
        /\ Handle(m_zhandle[client])' <=> Handle(m_zhandle[client])
        /\ Handle(opening[client])' <=> Handle(opening[client])
    BY DEF SessionOwes, Handle
  <1>2. (Owes' <=> Owes) /\ (Children' = Children)
    BY <1>1 DEF Owes, Children
  <1> QED
    BY <1>1, <1>2 DEF ClientOK

\* A node came or went: the watch, if there was one, reports it.
LEMMA ClientFired ==
    ASSUME TypeOK, ClientOK,
           link'[client] = link[client], up'[client] = up[client],
           m_zhandle'[client] = m_zhandle[client], opening'[client] = opening[client],
           \A s \in Sessions : \A S : Has(queue[client][s], S) => Has(queue'[client][s], S),
           \A s \in watches : Has(queue'[client][s], {"child"})
    PROVE  ClientOK'
  <1> SUFFICES ASSUME up[client] PROVE ClientOK'
    BY DEF ClientOK
  <1>1. PICK h \in Sessions \union {0} : h = m_zhandle[client]
    BY ClientType
  <1>2. PICK o \in Sessions \union {0} : o = opening[client]
    BY ClientType
  <1>3. \A s \in Sessions : (SessionOwes(s) => SessionOwes(s)') /\ (Handle(s) => Handle(s)')
    BY DEF SessionOwes, Handle
  <1>4. Owes'
    <2>1. CASE Owes
      <3>1. PICK s \in Sessions : SessionOwes(s) \/ Has(queue[client][s], {"child", "get", "get again"})
        BY <2>1 DEF Owes
      <3> QED
        BY <1>3, <3>1 DEF Owes
    <2>2. CASE h \in watches
      <3>1. h \in Sessions /\ Has(queue'[client][h], {"child"})
        BY <2>2 DEF TypeOK
      <3>2. Has(queue'[client][h], {"child", "get", "get again"})
        BY <3>1 DEF Has
      <3> QED
        BY <3>1, <3>2 DEF Owes
    <2> QED
      BY <1>1, <2>1, <2>2 DEF ClientOK
  <1>5. /\ h = 0 => o # 0 /\ SessionOwes(o)
        /\ h # 0 => Handle(h)
        /\ o # 0 => Handle(o) /\ o # h /\ (h # 0 => SessionOwes(h))
    BY <1>1, <1>2 DEF ClientOK
  <1>6. /\ h = 0 => o # 0 /\ SessionOwes(o)'
        /\ h # 0 => Handle(h)'
        /\ o # 0 => Handle(o)' /\ o # h /\ (h # 0 => SessionOwes(h)')
    BY <1>1, <1>2, <1>3, <1>5
  <1>7. h = m_zhandle'[client] /\ o = opening'[client]
    BY <1>1, <1>2
  <1> QED
    BY <1>4, <1>6, <1>7 DEF ClientOK

\* How the invariant follows, with the values of the members named.
LEMMA ClientStep ==
    ASSUME NEW h, NEW o, h = m_zhandle'[client], o = opening'[client],
           h = 0 => o # 0 /\ SessionOwes(o)',
           h # 0 => Handle(h)',
           o # 0 => Handle(o)' /\ o # h /\ (h # 0 => SessionOwes(h)'),
           Owes' \/ (h \in watches' /\ (services' = Children' \/ Children' = {}))
    PROVE  ClientOK'
  BY DEF ClientOK

\* ClientOK, with the values of the members named.
LEMMA ClientNow ==
    ASSUME TypeOK, ClientOK, up[client]
    PROVE  \E h, o \in Sessions \union {0} :
             /\ h = m_zhandle[client] /\ o = opening[client]
             /\ h = 0 => o # 0 /\ SessionOwes(o)
             /\ h # 0 => Handle(h)
             /\ o # 0 => Handle(o) /\ o # h /\ (h # 0 => SessionOwes(h))
             /\ Owes \/ (h \in watches /\ (services = Children \/ Children = {}))
  BY ClientType DEF ClientOK

\* The fate of a session of the client: each turn of it leads to an update.
LEMMA ClientSession ==
    ASSUME TypeOK, ClientOK, NEW c \in Sessions, NEW l, NEW r \in Seq(Events), UNCHANGED codeVars,
           link'[client][c] = l, Elsewhere(link, link', client, c),
           queue'[client][c] = queue[client][c] \o r, Elsewhere(queue, queue', client, c),
           \/ l = "up" /\ Has(r, {"connected", "expired"})
           \/ l = "down"
           \/ l = "expired" /\ Has(r, {"expired"}) /\ Has(r, {"connected", "expired"})
    PROVE  ClientOK'
  <1> SUFFICES ASSUME up[client] PROVE ClientOK'
    BY DEF ClientOK, codeVars
  <1>1. PICK h, o \in Sessions \union {0} :
             /\ h = m_zhandle[client] /\ o = opening[client]
             /\ h = 0 => o # 0 /\ SessionOwes(o)
             /\ h # 0 => Handle(h)
             /\ o # 0 => Handle(o) /\ o # h /\ (h # 0 => SessionOwes(h))
    BY ClientNow
  <1>2. \A S : Has(r, S) => Has(queue'[client][c], S)
    BY ClientType, PostEvents
  <1>3. SessionOwes(c)' /\ Handle(c)'
    BY <1>2 DEF SessionOwes, Handle
  <1>4. \A s \in Sessions \ {c} : (SessionOwes(s) => SessionOwes(s)') /\ (Handle(s) => Handle(s)')
    BY DEF SessionOwes, Handle, Elsewhere
  <1>5. Owes'
    BY <1>3 DEF Owes
  <1>6. /\ h = 0 => o # 0 /\ SessionOwes(o)'
        /\ h # 0 => Handle(h)'
        /\ o # 0 => Handle(o)' /\ o # h /\ (h # 0 => SessionOwes(h)')
    BY <1>1, <1>3, <1>4
  <1>7. h = m_zhandle'[client] /\ o = opening'[client]
    BY <1>1 DEF codeVars
  <1> QED
    BY <1>5, <1>6, <1>7, ClientStep

\* The client will hear of its connection.
LEMMA ConnectClient ==
    ASSUME TypeOK, ClientOK, NEW c \in Sessions, Connect(client, c), UNCHANGED codeVars
    PROVE  ClientOK'
  <1> DEFINE r == <<"connected">>
  <1>1. client \in Procs /\ "up" \in Links /\ "connected" \in Events
    BY ClientType DEF Links, Events
  <1>2. r \in Seq(Events) /\ Has(r, {"connected", "expired"})
    BY <1>1, FewEvents
  <1>3. SetLink(client, c, "up") /\ queue' = Post(queue, client, c, r)
    BY DEF Connect
  <1> HIDE DEF r
  <1>4. /\ link'[client][c] = "up" /\ Elsewhere(link, link', client, c)
        /\ queue'[client][c] = queue[client][c] \o r /\ Elsewhere(queue, queue', client, c)
    BY <1>1, <1>2, <1>3, Linked, Posted
  <1> QED
    BY <1>2, <1>4, ClientSession

\* A session without a connection owes the client an event.
LEMMA DisconnectClient ==
    ASSUME TypeOK, ClientOK, NEW c \in Sessions, Disconnect(client, c), UNCHANGED codeVars
    PROVE  ClientOK'
  <1> DEFINE r == <<"connecting">> \o Failures(client, c)
  <1>1. client \in Procs /\ "down" \in Links /\ "connecting" \in Events
    BY ClientType DEF Links, Events
  <1>2. r \in Seq(Events)
    BY <1>1, Failing
  <1>3. SetLink(client, c, "down") /\ queue' = Post(queue, client, c, r)
    BY DEF Disconnect
  <1> HIDE DEF r
  <1>4. /\ link'[client][c] = "down" /\ Elsewhere(link, link', client, c)
        /\ queue'[client][c] = queue[client][c] \o r /\ Elsewhere(queue, queue', client, c)
    BY <1>1, <1>2, <1>3, Linked, Posted
  <1> QED
    BY <1>2, <1>4, ClientSession

\* The client will hear that its session expired.
LEMMA NotifyClient ==
    ASSUME TypeOK, ClientOK, NEW c \in Sessions, NotifyExpired(client, c), UNCHANGED codeVars
    PROVE  ClientOK'
  <1> DEFINE r == <<"expired">> \o Failures(client, c)
  <1>1. client \in Procs /\ "expired" \in Links /\ "expired" \in Events
    BY ClientType DEF Links, Events
  <1>2. r \in Seq(Events) /\ Has(r, {"expired"})
    BY <1>1, Failing
  <1>3. Has(r, {"connected", "expired"})
    BY <1>2 DEF Has
  <1>4. SetLink(client, c, "expired") /\ queue' = Post(queue, client, c, r)
    BY DEF NotifyExpired
  <1> HIDE DEF r
  <1>5. /\ link'[client][c] = "expired" /\ Elsewhere(link, link', client, c)
        /\ queue'[client][c] = queue[client][c] \o r /\ Elsewhere(queue, queue', client, c)
    BY <1>1, <1>2, <1>4, Linked, Posted
  <1> QED
    BY <1>2, <1>3, <1>5, ClientSession

\* ConnectZK for the first time: the handle is going to connect.
LEMMA StartClient ==
    ASSUME TypeOK, Start(client)
    PROVE  ClientOK'
  <1>1. client \in Procs /\ "new" \in Links
    BY ClientType DEF Links
  <1>2. CanOpen(client) /\ SetLink(client, Fresh(client), "new")
    BY DEF Start, BeginConnect
  <1>3. PICK f \in Sessions : f = Fresh(client)
    BY <1>1, <1>2, NextSession
  <1>4. link'[client][f] = "new"
    BY <1>1, <1>2, <1>3, Linked
  <1>5. opening'[client] = f /\ m_zhandle'[client] = 0
    BY <1>1, <1>3 DEF Start, BeginConnect, TypeOK
  <1>6. f # 0 /\ SessionOwes(f)' /\ Handle(f)' /\ Owes'
    BY <1>3, <1>4, ClientType DEF SessionOwes, Handle, Owes
  <1> QED
    BY <1>5, <1>6, ClientStep

\* The handle that is stored replaces one the client is going to hear of.
LEMMA StoreClient ==
    ASSUME TypeOK, ClientOK, StoreHandle(client)
    PROVE  ClientOK'
  <1>1. client \in Procs /\ 0 \notin Sessions
    BY ClientType
  <1>2. link' = link /\ queue' = queue /\ up' = up
    BY DEF StoreHandle, zkVars
  <1>3. opening[client] # 0 /\ m_zhandle'[client] = opening[client] /\ opening'[client] = 0
    BY <1>1 DEF StoreHandle, TypeOK
  <1> SUFFICES ASSUME up[client] PROVE ClientOK'
    BY <1>2 DEF ClientOK
  <1>4. PICK h, o \in Sessions \union {0} :
             /\ h = m_zhandle[client] /\ o = opening[client]
             /\ h = 0 => o # 0 /\ SessionOwes(o)
             /\ o # 0 => Handle(o) /\ (h # 0 => SessionOwes(h))
    BY ClientNow
  <1>5. \A s : (SessionOwes(s) => SessionOwes(s)') /\ (Handle(s) => Handle(s)')
    BY <1>2 DEF SessionOwes, Handle
  <1>6. Owes' /\ Handle(o)'
    BY <1>1, <1>3, <1>4, <1>5 DEF Owes
  <1> QED
    BY <1>3, <1>4, <1>6, ClientStep

\* Delivering anything but the end of a session loses no other event.
LEMMA ClientEvent ==
    ASSUME TypeOK, NEW s \in Sessions, NEW ev \in Events \ {"expired"}, Delivers(client, s, ev),
           Elsewhere(queue, queue', client, s),
           \/ queue'[client][s] = Tail(queue[client][s])
           \/ \E e \in Events : queue'[client][s] = <<e>> \o Tail(queue[client][s])
    PROVE  \A r \in Sessions : link'[client][r] = link[client][r] =>
              /\ Handle(r) => Handle(r)'
              /\ SessionOwes(r) /\ (r # s \/ ev # "connected") => SessionOwes(r)'
  <1> DEFINE q == queue[client][s]   t == queue'[client][s]
  <1>1. q \in Seq(Events) /\ q # <<>> /\ Head(q) = ev
    BY ClientType DEF Delivers
  <1>2. Tail(q) \in Seq(Events) /\ \A S : ev \notin S /\ Has(q, S) => Has(Tail(q), S)
    BY <1>1, PopEvent
  <1>3. \A S : ev \notin S /\ Has(q, S) => Has(t, S)
    <2>1. CASE t = Tail(q)
      BY <1>2, <2>1
    <2>2. CASE \E e \in Events : t = <<e>> \o Tail(q)
      <3>1. PICK e \in Events : t = <<e>> \o Tail(q)
        BY <2>2
      <3>2. <<e>> \in Seq(Events)
        BY <3>1, FewEvents
      <3> QED
        BY <1>2, <3>1, <3>2, PostEvents
    <2> QED
      BY <2>1, <2>2
  <1> HIDE DEF q, t
  <1>4. ASSUME NEW r \in Sessions, link'[client][r] = link[client][r]
        PROVE  /\ Handle(r) => Handle(r)'
               /\ SessionOwes(r) /\ (r # s \/ ev # "connected") => SessionOwes(r)'
    <2>1. CASE r = s
      <3>1. queue[client][r] = q /\ queue'[client][r] = t
        BY <2>1 DEF q, t
      <3>2. Has(q, {"expired"}) => Has(t, {"expired"})
        BY <1>3
      <3>3. ev # "connected" /\ Has(q, {"connected", "expired"}) => Has(t, {"connected", "expired"})
        BY <1>3
      <3> QED
        BY <1>4, <2>1, <3>1, <3>2, <3>3 DEF Handle, SessionOwes
    <2>2. CASE r # s
      BY <1>4, <2>2 DEF Handle, SessionOwes, Elsewhere
    <2> QED
      BY <2>1, <2>2
  <1> QED
    BY <1>4

\* "connecting" takes no event away that leads to an update.
LEMMA ConnectingClient ==
    ASSUME TypeOK, ClientOK, NEW s \in Sessions, WatcherConnecting(client, s)
    PROVE  ClientOK'
  <1>1. /\ Delivers(client, s, "connecting") /\ Pop(client, s) /\ link' = link
        /\ m_zhandle' = m_zhandle /\ opening' = opening /\ watches' = watches
        /\ services' = services /\ node' = node
    BY DEF WatcherConnecting
  <1>2. client \in Procs /\ "connecting" \in Events \ {"expired"}
    BY ClientType DEF Events
  <1>3. up[client] /\ queue[client][s] # <<>> /\ Head(queue[client][s]) = "connecting"
    BY <1>1 DEF Delivers
  <1>4. queue'[client][s] = Tail(queue[client][s]) /\ Elsewhere(queue, queue', client, s)
    BY <1>1, <1>2, <1>3, Popped
  <1>5. \A r \in Sessions : (Handle(r) => Handle(r)') /\ (SessionOwes(r) => SessionOwes(r)')
    BY <1>1, <1>2, <1>4, ClientEvent
  <1>6. PICK h, o \in Sessions \union {0} :
             /\ h = m_zhandle[client] /\ o = opening[client]
             /\ h = 0 => o # 0 /\ SessionOwes(o)
             /\ h # 0 => Handle(h)
             /\ o # 0 => Handle(o) /\ o # h /\ (h # 0 => SessionOwes(h))
             /\ Owes \/ (h \in watches /\ (services = Children \/ Children = {}))
    BY <1>3, ClientNow
  <1>7. \A r \in Sessions : Has(queue[client][r], {"child", "get", "get again"})
                              => Has(queue'[client][r], {"child", "get", "get again"})
    <2> SUFFICES Has(queue[client][s], {"child", "get", "get again"})
                   => Has(Tail(queue[client][s]), {"child", "get", "get again"})
      BY <1>4 DEF Elsewhere
    <2>1. queue[client][s] \in Seq(Events)
      BY ClientType
    <2>2. \A S : Has(queue[client][s], S) <=> "connecting" \in S \/ Has(Tail(queue[client][s]), S)
      BY <1>3, <2>1, PopEvent
    <2> QED
      BY <2>2
  <1>8. Owes => Owes'
    BY <1>5, <1>7 DEF Owes
  <1>9. Children' = Children
    BY <1>1 DEF Children
  <1> QED
    BY <1>1, <1>5, <1>6, <1>8, <1>9, ClientStep

\* Update replaces the event by a read of the children; with no handle yet, it
\* opens one, which is going to connect.
LEMMA WatcherClient ==
    ASSUME TypeOK, ClientOK, NEW s \in Sessions, ServiceWatcher(s)
    PROVE  ClientOK'
  <1>1. PICK ev \in {"connected", "child"} : Delivers(client, s, ev)
    BY DEF ServiceWatcher
  <1>2. client \in Procs /\ ev \in Events \ {"expired"} /\ "get" \in Events /\ "new" \in Links
    BY ClientType DEF Events, Links
  <1>3. /\ up[client] /\ queue[client][s] # <<>>
        /\ opening[client] # 0 => opening[client] = s
    BY <1>1 DEF Delivers
  <1>4. queue'[client][s] = <<"get">> \o Tail(queue[client][s]) /\ Elsewhere(queue, queue', client, s)
    BY <1>2, <1>3, Replaced DEF ServiceWatcher
  <1>5. \A r \in Sessions : link'[client][r] = link[client][r] =>
              /\ Handle(r) => Handle(r)'
              /\ SessionOwes(r) /\ r # s => SessionOwes(r)'
    BY <1>1, <1>2, <1>4, ClientEvent
  <1>6. Owes'
    <2>0. <<"get">> \in Seq(Events) /\ \A S : Has(<<"get">>, S) <=> "get" \in S
      BY <1>2, FewEvents
    <2>1. <<"get">> \in Seq(Events) /\ Has(<<"get">>, {"child", "get", "get again"})
      BY <2>0
    <2>2. Tail(queue[client][s]) \in Seq(Events)
      BY <1>3, ClientType, PopEvent
    <2>3. Has(queue'[client][s], {"child", "get", "get again"})
      BY <1>4, <2>1, <2>2, PostEvents
    <2> QED
      BY <2>3 DEF Owes
  <1>7. PICK h, o \in Sessions \union {0} :
             /\ h = m_zhandle[client] /\ o = opening[client]
             /\ h = 0 => o # 0
             /\ h # 0 => Handle(h)
             /\ o # 0 => Handle(o) /\ o # h /\ (h # 0 => SessionOwes(h))
    BY <1>3, ClientNow
  <1>8. o = opening'[client] /\ (o # 0 => o = s)
    BY <1>3, <1>7 DEF ServiceWatcher
  <1>9. CASE h # 0
    <2>1. m_zhandle' = m_zhandle /\ link' = link
      BY <1>7, <1>9 DEF ServiceWatcher
    <2>2. Handle(h)' /\ (o # 0 => Handle(o)' /\ SessionOwes(h)')
      BY <1>5, <1>7, <1>8, <1>9, <2>1
    <2> QED
      BY <1>6, <1>7, <1>8, <1>9, <2>1, <2>2, ClientStep
  <1>10. CASE h = 0
    <2>1. CanOpen(client) /\ SetLink(client, Fresh(client), "new")
          /\ m_zhandle' = [m_zhandle EXCEPT ![client] = Fresh(client)]
      BY <1>7, <1>10 DEF ServiceWatcher
    <2>2. PICK f \in Sessions : f = Fresh(client) /\ f # 0 /\ link[client][f] = "none"
      BY <1>2, <2>1, NextSession
    <2>3. link'[client][f] = "new" /\ Elsewhere(link, link', client, f)
      BY <1>2, <2>1, <2>2, Linked
    <2>4. m_zhandle'[client] = f
      BY <1>2, <2>1, <2>2 DEF TypeOK
    <2>5. o \in Sessions /\ o # f /\ Handle(o)
      BY <1>7, <1>10, <2>2 DEF Handle
    <2>6. Handle(o)'
      BY <1>5, <2>3, <2>5 DEF Elsewhere
    <2>7. Handle(f)' /\ SessionOwes(f)'
      BY <2>3 DEF Handle, SessionOwes
    <2> QED
      BY <1>6, <1>8, <2>2, <2>4, <2>5, <2>6, <2>7, ClientStep
  <1> QED
    BY <1>9, <1>10

\* ConnectZK again: the new handle is going to connect.
LEMMA ExpiredClient ==
    ASSUME TypeOK, NEW s \in Sessions, ServiceExpired(s)
    PROVE  ClientOK'
  <1> DEFINE h == m_zhandle[client]
  <1>1. client \in Procs
    BY ClientType
  <1>2. CanOpen(client)
    BY DEF ServiceExpired, BeginConnect
  <1>3. PICK f \in Sessions : f = Fresh(client) /\ f # 0
    BY <1>1, <1>2, NextSession
  <1>4. opening'[client] = f /\ m_zhandle'[client] = 0
    BY <1>1, <1>3 DEF ServiceExpired, BeginConnect, TypeOK
  <1>5. link' = [link EXCEPT ![client] = [r \in Sessions |->
                   IF r = f THEN "new" ELSE IF r = h THEN "closed" ELSE link[client][r]]]
    BY <1>3 DEF ServiceExpired
  <1> HIDE DEF h
  <1>6. link'[client][f] = "new"
    BY <1>1, <1>5 DEF TypeOK
  <1>7. SessionOwes(f)' /\ Handle(f)' /\ Owes'
    BY <1>6 DEF SessionOwes, Handle, Owes
  <1> QED
    BY <1>3, <1>4, <1>7, ClientStep

\* The list is read and the watch set in one call of zoo_wget_children.
LEMMA ChildrenClient ==
    ASSUME TypeOK, ClientOK, NEW s \in Sessions, NEW ev \in {"get", "get again"}, GetChildren(s, ev)
    PROVE  ClientOK'
  <1>1. /\ Delivers(client, s, ev) /\ Pop(client, s) /\ link' = link /\ m_zhandle[client] # 0
        /\ m_zhandle' = m_zhandle /\ opening' = opening /\ node' = node
        /\ watches' = watches \union {m_zhandle[client]}
        /\ services' = Children \/ Children = {}
    BY DEF GetChildren
  <1>2. client \in Procs /\ ev \in Events \ {"expired"} /\ ev # "connected"
    BY ClientType DEF Events
  <1>3. up[client] /\ queue[client][s] # <<>>
    BY <1>1 DEF Delivers
  <1>4. queue'[client][s] = Tail(queue[client][s]) /\ Elsewhere(queue, queue', client, s)
    BY <1>1, <1>2, <1>3, Popped
  <1>5. \A r \in Sessions : (Handle(r) => Handle(r)') /\ (SessionOwes(r) => SessionOwes(r)')
    BY <1>1, <1>2, <1>4, ClientEvent
  <1>6. PICK h, o \in Sessions \union {0} :
             /\ h = m_zhandle[client] /\ o = opening[client]
             /\ h # 0 => Handle(h)
             /\ o # 0 => Handle(o) /\ o # h /\ (h # 0 => SessionOwes(h))
    BY <1>3, ClientNow
  <1>7. Children' = Children
    BY <1>1 DEF Children
  <1>8. /\ h # 0 /\ Handle(h)' /\ (o # 0 => Handle(o)' /\ o # h /\ SessionOwes(h)')
        /\ h = m_zhandle'[client] /\ o = opening'[client]
        /\ h \in watches' /\ (services' = Children' \/ Children' = {})
    BY <1>1, <1>5, <1>6, <1>7
  <1> QED
    BY <1>8, ClientStep

\* The client that had to create the node of the service reads again.
LEMMA NoNodeClient ==
    ASSUME TypeOK, ClientOK, NEW s \in Sessions, GetNoNode(s)
    PROVE  ClientOK'
  <1>1. /\ Delivers(client, s, "get") /\ link' = link
        /\ queue' = [queue EXCEPT ![client][s] = <<"get again">> \o Tail(@)]
        /\ m_zhandle' = m_zhandle /\ opening' = opening
    BY DEF GetNoNode, codeVars
  <1>2. client \in Procs /\ "get" \in Events \ {"expired"} /\ "get again" \in Events
    BY ClientType DEF Events
  <1>3. up[client] /\ queue[client][s] # <<>>
    BY <1>1 DEF Delivers
  <1>4. /\ queue'[client][s] = <<"get again">> \o Tail(queue[client][s])
        /\ Elsewhere(queue, queue', client, s)
    BY <1>1, <1>2, <1>3, Replaced
  <1>5. \A r \in Sessions : (Handle(r) => Handle(r)') /\ (SessionOwes(r) => SessionOwes(r)')
    BY <1>1, <1>2, <1>4, ClientEvent
  <1>6. Owes'
    <2>0. <<"get again">> \in Seq(Events) /\ \A S : Has(<<"get again">>, S) <=> "get again" \in S
      BY <1>2, FewEvents
    <2>1. <<"get again">> \in Seq(Events) /\ Has(<<"get again">>, {"child", "get", "get again"})
      BY <2>0
    <2>2. Tail(queue[client][s]) \in Seq(Events)
      BY <1>3, ClientType, PopEvent
    <2>3. Has(queue'[client][s], {"child", "get", "get again"})
      BY <1>4, <2>1, <2>2, PostEvents
    <2> QED
      BY <2>3 DEF Owes
  <1>7. PICK h, o \in Sessions \union {0} :
             /\ h = m_zhandle[client] /\ o = opening[client]
             /\ h = 0 => o # 0 /\ SessionOwes(o)
             /\ h # 0 => Handle(h)
             /\ o # 0 => Handle(o) /\ o # h /\ (h # 0 => SessionOwes(h))
    BY <1>3, ClientNow
  <1> QED
    BY <1>1, <1>5, <1>6, <1>7, ClientStep

\* An update is given up only while the handle is on its way to be connected,
\* or to be replaced.
LEMMA GivenUpClient ==
    ASSUME TypeOK, ClientOK, NEW s \in Sessions, NEW ev \in {"get", "get again"},
           Delivers(client, s, ev), Pop(client, s), link' = link,
           m_zhandle' = m_zhandle, opening' = opening,
           m_zhandle[client] # 0 => link[client][m_zhandle[client]] # "up"
    PROVE  ClientOK'
  <1>2. client \in Procs /\ ev \in Events \ {"expired"} /\ ev # "connected"
    BY ClientType DEF Events
  <1>3. up[client] /\ queue[client][s] # <<>>
    BY DEF Delivers
  <1>4. queue'[client][s] = Tail(queue[client][s]) /\ Elsewhere(queue, queue', client, s)
    BY <1>2, <1>3, Popped
  <1>5. \A r \in Sessions : (Handle(r) => Handle(r)') /\ (SessionOwes(r) => SessionOwes(r)')
    BY <1>2, <1>4, ClientEvent
  <1>6. PICK h, o \in Sessions \union {0} :
             /\ h = m_zhandle[client] /\ o = opening[client]
             /\ h = 0 => o # 0 /\ SessionOwes(o)
             /\ h # 0 => Handle(h)
             /\ o # 0 => Handle(o) /\ o # h /\ (h # 0 => SessionOwes(h))
    BY <1>3, ClientNow
  <1>7. h # 0 => SessionOwes(h)
    BY <1>6 DEF Handle, SessionOwes, Has
  <1>8. Owes'
    BY <1>5, <1>6, <1>7 DEF Owes
  <1> QED
    BY <1>5, <1>6, <1>8, ClientStep

\* Either call of zoo_wget_children fails.
LEMMA FailsClient ==
    ASSUME TypeOK, ClientOK, NEW s \in Sessions, GetFails(s) \/ GetAgainFails(s)
    PROVE  ClientOK'
  BY GivenUpClient DEF GetFails, GetAgainFails, codeVars

-----------------------------------------------------------------------------
(* What a step of process x leaves alone.                                  *)

Apart(y) ==
    /\ link'[y] = link[y] /\ queue'[y] = queue[y] /\ pending'[y] = pending[y]
    /\ up'[y] = up[y] /\ m_zhandle'[y] = m_zhandle[y] /\ m_connected'[y] = m_connected[y]
    /\ opening'[y] = opening[y]

Frame(x) ==
    /\ TypeOK'
    /\ \A y \in Providers \ {x} : Apart(y) /\ node'[y] = node[y] /\ answer'[y] = answer[y]

SameClient == Apart(client) /\ node' = node /\ watches' = watches /\ services' = services

\* The client is a process of its own.
LEMMA Distinct ==
    client \in Procs /\ client \notin Providers /\ \A p \in Providers : p \in Procs /\ p # client
  BY ZooKeeperAssumption DEF Procs

\* A new connection is a matter of x alone.
LEMMA ConnectFrame ==
    ASSUME TypeOK, NEW x \in Procs, NEW s \in Sessions, Connect(x, s), UNCHANGED codeVars
    PROVE  Frame(x) /\ (x # client => SameClient)
  <1>1. "up" \in Links /\ "connected" \in Events
    BY DEF Links, Events
  <1>2. <<"connected">> \in Seq(Events)
    BY <1>1, FewEvents
  <1>3. /\ SetLink(x, s, "up") /\ queue' = Post(queue, x, s, <<"connected">>)
        /\ pending' = pending /\ node' = node /\ watches' = watches
    BY DEF Connect
  <1>4. /\ link' \in [Procs -> [Sessions -> Links]] /\ Elsewhere(link, link', x, s)
        /\ queue' \in [Procs -> [Sessions -> Seq(Events)]] /\ Elsewhere(queue, queue', x, s)
    BY <1>1, <1>2, <1>3, Linked, Posted
  <1>5. TypeOK'
    BY <1>3, <1>4 DEF TypeOK, codeVars
  <1> QED
    BY <1>3, <1>4, <1>5, Distinct DEF Frame, SameClient, Apart, Elsewhere, codeVars

\* So is a lost one.
LEMMA DisconnectFrame ==
    ASSUME TypeOK, NEW x \in Procs, NEW s \in Sessions, Disconnect(x, s), UNCHANGED codeVars
    PROVE  Frame(x) /\ (x # client => SameClient)
  <1> DEFINE r == <<"connecting">> \o Failures(x, s)
  <1>1. "down" \in Links /\ "connecting" \in Events
    BY DEF Links, Events
  <1>2. r \in Seq(Events)
    BY <1>1, Failing
  <1>3. /\ SetLink(x, s, "down") /\ queue' = Post(queue, x, s, r)
        /\ pending' = [pending EXCEPT ![x][s] = 0] /\ node' = node
        /\ watches' \in SUBSET watches /\ (x # client => watches' = watches)
    BY DEF Disconnect
  <1> HIDE DEF r
  <1>4. /\ link' \in [Procs -> [Sessions -> Links]] /\ Elsewhere(link, link', x, s)
        /\ queue' \in [Procs -> [Sessions -> Seq(Events)]] /\ Elsewhere(queue, queue', x, s)
    BY <1>1, <1>2, <1>3, Linked, Posted
  <1>5. pending' \in [Procs -> [Sessions -> Nat]] /\ \A y \in Procs \ {x} : pending'[y] = pending[y]
    BY <1>3 DEF TypeOK
  <1>6. TypeOK'
    BY <1>3, <1>4, <1>5 DEF TypeOK, codeVars
  <1> QED
    BY <1>3, <1>4, <1>5, <1>6, Distinct DEF Frame, SameClient, Apart, Elsewhere, codeVars

\* So is an expired session.
LEMMA NotifyFrame ==
    ASSUME TypeOK, NEW x \in Procs, NEW s \in Sessions, NotifyExpired(x, s), UNCHANGED codeVars
    PROVE  Frame(x) /\ (x # client => SameClient)
  <1> DEFINE r == <<"expired">> \o Failures(x, s)
  <1>1. "expired" \in Links /\ "expired" \in Events
    BY DEF Links, Events
  <1>2. r \in Seq(Events)
    BY <1>1, Failing
  <1>3. /\ SetLink(x, s, "expired") /\ queue' = Post(queue, x, s, r)
        /\ pending' = [pending EXCEPT ![x][s] = 0] /\ node' = node /\ watches' = watches
    BY DEF NotifyExpired
  <1> HIDE DEF r
  <1>4. /\ link' \in [Procs -> [Sessions -> Links]] /\ Elsewhere(link, link', x, s)
        /\ queue' \in [Procs -> [Sessions -> Seq(Events)]] /\ Elsewhere(queue, queue', x, s)
    BY <1>1, <1>2, <1>3, Linked, Posted
  <1>5. pending' \in [Procs -> [Sessions -> Nat]] /\ \A y \in Procs \ {x} : pending'[y] = pending[y]
    BY <1>3 DEF TypeOK
  <1>6. TypeOK'
    BY <1>3, <1>4, <1>5 DEF TypeOK, codeVars
  <1> QED
    BY <1>3, <1>4, <1>5, <1>6, Distinct DEF Frame, SameClient, Apart, Elsewhere, codeVars

\* The node of a provider may go: the client hears of it.
LEMMA ExpireFrame ==
    ASSUME TypeOK, ClientOK, NEW x \in Procs, NEW s \in Sessions, Expire(x, s), UNCHANGED codeVars
    PROVE  Frame(x) /\ ClientOK'
  <1>1. link' = link /\ pending' = pending
    BY DEF Expire
  <1>2. CASE /\ x \in Providers /\ node' = [node EXCEPT ![x] = 0]
             /\ queue' = Fire(queue) /\ watches' = {}
    <2>1. /\ queue' \in [Procs -> [Sessions -> Seq(Events)]]
          /\ \A p \in Providers : queue'[p] = queue[p]
          /\ \A r \in Sessions : \A S : Has(queue[client][r], S) => Has(queue'[client][r], S)
          /\ \A r \in watches : Has(queue'[client][r], {"child"})
      BY <1>2, Fired
    <2>2. node' \in [Providers -> Sessions \union {0}] /\ \A y \in Providers \ {x} : node'[y] = node[y]
      BY <1>2 DEF TypeOK
    <2>3. TypeOK'
      BY <1>1, <1>2, <2>1, <2>2 DEF TypeOK, codeVars
    <2>4. Frame(x)
      BY <1>1, <2>1, <2>2, <2>3 DEF Frame, Apart, codeVars
    <2>5. ClientOK'
      BY <1>1, <2>1, ClientFired DEF codeVars
    <2> QED
      BY <2>4, <2>5
  <1>3. CASE node' = node /\ queue' = queue /\ watches' = watches
    <2>1. TypeOK'
      BY <1>1, <1>3 DEF TypeOK, codeVars
    <2>2. Frame(x)
      BY <1>1, <1>3, <2>1 DEF Frame, Apart, codeVars
    <2>3. ClientOK'
      BY <1>1, <1>3, ClientUntouched DEF codeVars
    <2> QED
      BY <2>2, <2>3
  <1> QED
    BY <1>2, <1>3 DEF Expire

\* The node of a provider may come: the client hears of it.
LEMMA ServeFrame ==
    ASSUME TypeOK, ClientOK, NEW p \in Providers, NEW s \in Sessions, ServeCreate(p, s), UNCHANGED codeVars
    PROVE  Frame(p) /\ ClientOK'
  <1>1. link' = link /\ p \in Procs /\ p # client /\ client \in Procs
    BY Distinct DEF ServeCreate
  <1>2. pending' \in [Procs -> [Sessions -> Nat]] /\ \A y \in Procs \ {p} : pending'[y] = pending[y]
    <2>1. pending[p][s] \in Nat /\ pending[p][s] > 0 /\ pending' = [pending EXCEPT ![p][s] = pending[p][s] - 1]
      BY <1>1 DEF ServeCreate, TypeOK
    <2>2. pending[p][s] - 1 \in Nat
      BY <2>1
    <2> QED
      BY <1>1, <2>1, <2>2 DEF TypeOK
  <1>3. ASSUME NEW ev \in {"failed", "own", "exists", "ok"}
        PROVE  <<ev>> \in Seq(Events)
    <2>1. ev \in Events
      BY DEF Events
    <2> QED
      BY <2>1, FewEvents
  <1>4. CASE /\ \E ev \in {"failed", "own", "exists"} : queue' = Post(queue, p, s, <<ev>>)
             /\ node' = node /\ watches' = watches
    <2>1. PICK ev \in {"failed", "own", "exists"} : queue' = Post(queue, p, s, <<ev>>)
      BY <1>4
    <2>2. queue' \in [Procs -> [Sessions -> Seq(Events)]] /\ Elsewhere(queue, queue', p, s)
      BY <1>1, <1>3, <2>1, Posted
    <2>3. TypeOK'
      BY <1>1, <1>2, <1>4, <2>2 DEF TypeOK, codeVars
    <2>4. Frame(p)
      BY <1>1, <1>2, <1>4, <2>2, <2>3, Distinct DEF Frame, Apart, Elsewhere, codeVars
    <2>5. ClientOK'
      BY <1>1, <1>4, <2>2, ClientUntouched DEF codeVars, Elsewhere
    <2> QED
      BY <2>4, <2>5
  <1>5. CASE /\ node' = [node EXCEPT ![p] = s] /\ watches' = {}
             /\ queue' = Post(Fire(queue), p, s, <<"ok">>)
    <2> DEFINE g == Fire(queue)   t == g[p][s] \o <<"ok">>
    <2>1. /\ g \in [Procs -> [Sessions -> Seq(Events)]] /\ \A y \in Providers : g[y] = queue[y]
          /\ \A r \in Sessions : \A S : Has(queue[client][r], S) => Has(g[client][r], S)
          /\ \A r \in watches : Has(g[client][r], {"child"})
      BY Fired
    <2>2. queue' = [g EXCEPT ![p][s] = t]
      BY <1>5 DEF Post
    <2> HIDE DEF g
    <2>3. t \in Seq(Events)
      BY <1>1, <1>3, <2>1, PostEvents
    <2> HIDE DEF t
    <2>4. queue' \in [Procs -> [Sessions -> Seq(Events)]] /\ \A y \in Procs \ {p} : queue'[y] = g[y]
      BY <1>1, <2>1, <2>2, <2>3
    <2>5. node' \in [Providers -> Sessions \union {0}] /\ \A y \in Providers \ {p} : node'[y] = node[y]
      BY <1>5 DEF TypeOK
    <2>6. TypeOK'
      BY <1>1, <1>2, <1>5, <2>4, <2>5 DEF TypeOK, codeVars
    <2>7. Frame(p)
      BY <1>1, <1>2, <2>1, <2>4, <2>5, <2>6, Distinct DEF Frame, Apart, codeVars
    <2>8. queue'[client] = g[client]
      BY <1>1, <2>4
    <2>9. ClientOK'
      BY <1>1, <2>1, <2>8, ClientFired DEF codeVars
    <2> QED
      BY <2>7, <2>9
  <1> QED
    BY <1>4, <1>5 DEF ServeCreate

\* So is the start of x.
LEMMA StartFrame ==
    ASSUME TypeOK, NEW x \in Procs, Start(x)
    PROVE  Frame(x) /\ (x # client => SameClient)
  <1>1. CanOpen(x) /\ "new" \in Links
    BY DEF Start, BeginConnect, Links
  <1>2. PICK f \in Sessions : f = Fresh(x)
    BY <1>1, NextSession
  <1>3. /\ SetLink(x, f, "new") /\ queue' = queue /\ pending' = pending /\ node' = node
        /\ watches' = watches /\ answer' = answer /\ services' = services
        /\ up' = [up EXCEPT ![x] = TRUE] /\ m_zhandle' = [m_zhandle EXCEPT ![x] = 0]
        /\ m_connected' = [m_connected EXCEPT ![x] = FALSE] /\ opening' = [opening EXCEPT ![x] = f]
    BY <1>2 DEF Start, BeginConnect
  <1>4. link' \in [Procs -> [Sessions -> Links]] /\ Elsewhere(link, link', x, f)
    BY <1>1, <1>3, Linked
  <1>5. TypeOK'
    BY <1>3, <1>4 DEF TypeOK
  <1>6. \A y \in Procs \ {x} : /\ up'[y] = up[y] /\ m_zhandle'[y] = m_zhandle[y]
                               /\ m_connected'[y] = m_connected[y] /\ opening'[y] = opening[y]
    BY <1>3 DEF TypeOK
  <1> QED
    BY <1>3, <1>4, <1>5, <1>6, Distinct DEF Frame, SameClient, Apart, Elsewhere

\* So is the handle of x.
LEMMA StoreFrame ==
    ASSUME TypeOK, NEW x \in Procs, StoreHandle(x)
    PROVE  Frame(x) /\ (x # client => SameClient)
  <1>1. /\ link' = link /\ queue' = queue /\ pending' = pending /\ node' = node
        /\ watches' = watches /\ answer' = answer /\ services' = services
        /\ up' = up /\ m_connected' = m_connected
        /\ m_zhandle' = [m_zhandle EXCEPT ![x] = opening[x]] /\ opening' = [opening EXCEPT ![x] = 0]
    BY DEF StoreHandle, zkVars
  <1>2. TypeOK'
    BY <1>1 DEF TypeOK
  <1> QED
    BY <1>1, <1>2, Distinct DEF Frame, SameClient, Apart, TypeOK

\* So is m_connected of x.
LEMMA ConnectingFrame ==
    ASSUME TypeOK, NEW x \in Procs, NEW s \in Sessions, WatcherConnecting(x, s)
    PROVE  Frame(x) /\ (x # client => SameClient)
  <1>1. /\ queue[x][s] # <<>> /\ Pop(x, s) /\ link' = link /\ pending' = pending /\ node' = node
        /\ watches' = watches /\ answer' = answer /\ services' = services
        /\ up' = up /\ m_zhandle' = m_zhandle /\ opening' = opening
        /\ m_connected' = [m_connected EXCEPT ![x] = FALSE]
    BY DEF WatcherConnecting, Delivers
  <1>2. queue' \in [Procs -> [Sessions -> Seq(Events)]] /\ Elsewhere(queue, queue', x, s)
    BY <1>1, Popped
  <1>3. TypeOK'
    BY <1>1, <1>2 DEF TypeOK
  <1> QED
    BY <1>1, <1>2, <1>3, Distinct DEF Frame, SameClient, Apart, Elsewhere, TypeOK

\* Register touches the entries of p only.
LEMMA RegisterTypes ==
    ASSUME TypeOK, NEW p \in Providers, NEW b \in BOOLEAN, Register(p, b)
    PROVE  /\ pending' \in [Procs -> [Sessions -> Nat]] /\ DOMAIN answer' = Providers
           /\ \A y \in Procs \ {p} : pending'[y] = pending[y]
           /\ \A y \in Providers \ {p} : answer'[y] = answer[y]
  <1> DEFINE h == m_zhandle[p]
  <1>1. p \in Procs /\ h \in Sessions \union {0}
    BY Distinct DEF TypeOK
  <1>2. CASE /\ h # 0 /\ pending' = [pending EXCEPT ![p][h] = @ + 1]
             /\ answer' = [answer EXCEPT ![p] = "none"]
    <2>1. h \in Sessions
      BY <1>1, <1>2
    <2> HIDE DEF h
    <2>2. pending' = [pending EXCEPT ![p][h] = pending[p][h] + 1] /\ pending[p][h] + 1 \in Nat
      BY <1>1, <1>2, <2>1 DEF TypeOK
    <2> QED
      BY <1>1, <1>2, <2>1, <2>2 DEF TypeOK
  <1>3. CASE answer' = [answer EXCEPT ![p] = "refused"] /\ pending' = pending
    BY <1>3 DEF TypeOK
  <1>4. CASE answer' = answer /\ pending' = pending
    BY <1>4 DEF TypeOK
  <1> QED
    BY <1>2, <1>3, <1>4 DEF Register

\* InitWatcher of p on "connected" touches p only.
LEMMA ConnectedFrame ==
    ASSUME TypeOK, NEW p \in Providers, NEW s \in Sessions, WatcherConnected(p, s)
    PROVE  Frame(p) /\ SameClient
  <1>1. /\ p \in Procs /\ queue[p][s] # <<>> /\ Pop(p, s) /\ Register(p, TRUE)
        /\ link' = link /\ node' = node /\ watches' = watches /\ services' = services
        /\ up' = up /\ m_zhandle' = m_zhandle /\ opening' = opening
        /\ m_connected' = [m_connected EXCEPT ![p] = TRUE]
    BY Distinct DEF WatcherConnected, Delivers
  <1>2. queue' \in [Procs -> [Sessions -> Seq(Events)]] /\ Elsewhere(queue, queue', p, s)
    BY <1>1, Popped
  <1>3. /\ pending' \in [Procs -> [Sessions -> Nat]] /\ DOMAIN answer' = Providers
        /\ \A y \in Procs \ {p} : pending'[y] = pending[y]
        /\ \A y \in Providers \ {p} : answer'[y] = answer[y]
    BY <1>1, RegisterTypes
  <1>4. TypeOK'
    BY <1>1, <1>2, <1>3 DEF TypeOK
  <1> QED
    BY <1>1, <1>2, <1>3, <1>4, Distinct DEF Frame, SameClient, Apart, Elsewhere, TypeOK

\* InitWatcher of p on "expired" touches p only.
LEMMA ExpiredFrame ==
    ASSUME TypeOK, NEW p \in Providers, NEW s \in Sessions, WatcherExpired(p, s)
    PROVE  Frame(p) /\ SameClient
  <1>1. p \in Procs /\ CanOpen(p) /\ "new" \in Links
    BY Distinct DEF WatcherExpired, BeginConnect, Links
  <1>2. PICK f \in Sessions : f = Fresh(p)
    BY <1>1, NextSession
  <1>3. /\ SetLink(p, f, "new") /\ queue[p][s] # <<>> /\ Pop(p, s)
        /\ pending' = pending /\ node' = node
        /\ watches' = watches /\ answer' = answer /\ services' = services
        /\ up' = up /\ m_zhandle' = [m_zhandle EXCEPT ![p] = 0]
        /\ m_connected' = [m_connected EXCEPT ![p] = FALSE] /\ opening' = [opening EXCEPT ![p] = f]
    BY <1>2 DEF WatcherExpired, BeginConnect, Delivers
  <1>4. /\ link' \in [Procs -> [Sessions -> Links]] /\ Elsewhere(link, link', p, f)
        /\ queue' \in [Procs -> [Sessions -> Seq(Events)]] /\ Elsewhere(queue, queue', p, s)
    BY <1>1, <1>3, Linked, Popped
  <1>5. TypeOK'
    BY <1>1, <1>3, <1>4 DEF TypeOK
  <1>6. \A y \in Procs \ {p} : /\ up'[y] = up[y] /\ m_zhandle'[y] = m_zhandle[y]
                               /\ m_connected'[y] = m_connected[y] /\ opening'[y] = opening[y]
    BY <1>3 DEF TypeOK
  <1> QED
    BY <1>1, <1>3, <1>4, <1>5, <1>6, Distinct DEF Frame, SameClient, Apart, Elsewhere

\* zooCreateCallback of p touches p only.
LEMMA CreatedFrame ==
    ASSUME TypeOK, NEW p \in Providers, NEW s \in Sessions, zooCreateCallback(p, s)
    PROVE  Frame(p) /\ SameClient
  <1>1. /\ p \in Procs /\ queue[p][s] # <<>> /\ Pop(p, s) /\ m_connected[p] \in BOOLEAN
        /\ link' = link /\ node' = node /\ watches' = watches /\ services' = services
        /\ up' = up /\ m_zhandle' = m_zhandle /\ opening' = opening /\ m_connected' = m_connected
    BY Distinct DEF zooCreateCallback, Delivers, TypeOK
  <1>2. queue' \in [Procs -> [Sessions -> Seq(Events)]] /\ Elsewhere(queue, queue', p, s)
    BY <1>1, Popped
  <1>3. /\ pending' \in [Procs -> [Sessions -> Nat]] /\ DOMAIN answer' = Providers
        /\ \A y \in Procs \ {p} : pending'[y] = pending[y]
        /\ \A y \in Providers \ {p} : answer'[y] = answer[y]
    <2>1. CASE Register(p, m_connected[p])
      BY <1>1, <2>1, RegisterTypes
    <2>2. CASE (\E rc : answer' = [answer EXCEPT ![p] = rc]) /\ pending' = pending
      BY <2>2 DEF TypeOK
    <2> QED
      BY <2>1, <2>2 DEF zooCreateCallback
  <1>4. TypeOK'
    BY <1>1, <1>2, <1>3 DEF TypeOK
  <1> QED
    BY <1>1, <1>2, <1>3, <1>4, Distinct DEF Frame, SameClient, Apart, Elsewhere, TypeOK

\* The death of p touches p only: its node stays until its session expires.
LEMMA CrashFrame ==
    ASSUME TypeOK, NEW p \in Providers, Crash(p)
    PROVE  Frame(p) /\ SameClient
  <1>1. /\ p \in Procs /\ node' = node /\ watches' = watches /\ services' = services
        /\ up' = [up EXCEPT ![p] = FALSE] /\ m_zhandle' = [m_zhandle EXCEPT ![p] = 0]
        /\ m_connected' = [m_connected EXCEPT ![p] = FALSE] /\ opening' = [opening EXCEPT ![p] = 0]
        /\ answer' = [answer EXCEPT ![p] = "none"]
    BY Distinct DEF Crash
  <1>2. link' \in [Procs -> [Sessions -> Links]] /\ \A y \in Procs \ {p} : link'[y] = link[y]
    <2> DEFINE l == [s \in Sessions |-> IF link[p][s] = "none" THEN "none" ELSE "gone"]
    <2>1. link' = [link EXCEPT ![p] = l]
      BY DEF Crash
    <2>2. l \in [Sessions -> Links]
      BY DEF Links
    <2> HIDE DEF l
    <2> QED
      BY <1>1, <2>1, <2>2 DEF TypeOK
  <1>3. /\ queue' \in [Procs -> [Sessions -> Seq(Events)]] /\ \A y \in Procs \ {p} : queue'[y] = queue[y]
        /\ pending' \in [Procs -> [Sessions -> Nat]] /\ \A y \in Procs \ {p} : pending'[y] = pending[y]
    <2> DEFINE q == [s \in Sessions |-> <<>>]   w == [s \in Sessions |-> 0]
    <2>1. queue' = [queue EXCEPT ![p] = q] /\ pending' = [pending EXCEPT ![p] = w]
      BY DEF Crash
    <2>2. q \in [Sessions -> Seq(Events)] /\ w \in [Sessions -> Nat]
      BY FewEvents
    <2> HIDE DEF q, w
    <2> QED
      BY <1>1, <2>1, <2>2 DEF TypeOK
  <1>4. TypeOK'
    BY <1>1, <1>2, <1>3 DEF TypeOK
  <1>5. \A y \in Procs \ {p} : /\ up'[y] = up[y] /\ m_zhandle'[y] = m_zhandle[y]
                               /\ m_connected'[y] = m_connected[y] /\ opening'[y] = opening[y]
    BY <1>1 DEF TypeOK
  <1>6. \A y \in Providers \ {p} : answer'[y] = answer[y]
    BY <1>1 DEF TypeOK
  <1> QED
    BY <1>1, <1>2, <1>3, <1>4, <1>5, <1>6, Distinct DEF Frame, SameClient, Apart

\* ServiceWatcher touches the client only.
LEMMA WatcherFrame ==
    ASSUME TypeOK, NEW s \in Sessions, ServiceWatcher(s)
    PROVE  Frame(client)
  <1>1. client \in Procs /\ "get" \in Events /\ "new" \in Links
    BY Distinct DEF Events, Links
  <1>2. /\ queue[client][s] # <<>> /\ pending' = pending /\ node' = node /\ watches' = watches
        /\ up' = up /\ opening' = opening /\ answer' = answer
        /\ queue' = [queue EXCEPT ![client][s] = <<"get">> \o Tail(@)]
    BY DEF ServiceWatcher, Delivers
  <1>3. queue' \in [Procs -> [Sessions -> Seq(Events)]] /\ Elsewhere(queue, queue', client, s)
    BY <1>1, <1>2, Replaced
  <1>4. CASE m_connected' = [m_connected EXCEPT ![client] = TRUE] /\ m_zhandle' = m_zhandle /\ link' = link
    <2>1. /\ m_connected' \in [Procs -> BOOLEAN]
          /\ \A y \in Procs \ {client} : m_connected'[y] = m_connected[y]
      BY <1>1, <1>4 DEF TypeOK
    <2>2. TypeOK'
      BY <1>2, <1>3, <1>4, <2>1 DEF TypeOK
    <2> QED
      BY <1>2, <1>3, <1>4, <2>1, <2>2, Distinct DEF Frame, Apart, Elsewhere
  <1>5. CASE /\ CanOpen(client) /\ m_zhandle' = [m_zhandle EXCEPT ![client] = Fresh(client)]
             /\ m_connected' = [m_connected EXCEPT ![client] = FALSE]
             /\ SetLink(client, Fresh(client), "new")
    <2>1. PICK f \in Sessions : f = Fresh(client)
      BY <1>1, <1>5, NextSession
    <2>2. link' \in [Procs -> [Sessions -> Links]] /\ Elsewhere(link, link', client, f)
      BY <1>1, <1>5, <2>1, Linked
    <2>3. /\ m_connected' \in [Procs -> BOOLEAN] /\ m_zhandle' \in [Procs -> Sessions \union {0}]
          /\ \A y \in Procs \ {client} : m_connected'[y] = m_connected[y] /\ m_zhandle'[y] = m_zhandle[y]
      BY <1>1, <1>5, <2>1 DEF TypeOK
    <2>4. TypeOK'
      BY <1>2, <1>3, <2>2, <2>3 DEF TypeOK
    <2> QED
      BY <1>2, <1>3, <2>2, <2>3, <2>4, Distinct DEF Frame, Apart, Elsewhere
  <1> QED
    BY <1>4, <1>5 DEF ServiceWatcher

\* ConnectZK after an expired session touches the client only.
LEMMA ServiceExpiredFrame ==
    ASSUME TypeOK, NEW s \in Sessions, ServiceExpired(s)
    PROVE  Frame(client)
  <1>1. client \in Procs /\ CanOpen(client)
    BY Distinct DEF ServiceExpired, BeginConnect
  <1>2. PICK f \in Sessions : f = Fresh(client)
    BY <1>1, NextSession
  <1>3. PICK h : h = m_zhandle[client]
    OBVIOUS
  <1> DEFINE l == [r \in Sessions |-> IF r = f THEN "new" ELSE IF r = h THEN "closed" ELSE link[client][r]]
             q == [r \in Sessions |-> IF r = h THEN <<>> ELSE IF r = s THEN Tail(queue[client][r])
                                                              ELSE queue[client][r]]
  <1>4. /\ queue[client][s] # <<>> /\ pending' = pending /\ node' = node /\ answer' = answer /\ up' = up
        /\ watches' = watches \ {h}
        /\ link' = [link EXCEPT ![client] = l] /\ queue' = [queue EXCEPT ![client] = q]
        /\ m_zhandle' = [m_zhandle EXCEPT ![client] = 0]
        /\ m_connected' = [m_connected EXCEPT ![client] = FALSE]
        /\ opening' = [opening EXCEPT ![client] = f]
    BY <1>2, <1>3 DEF ServiceExpired, BeginConnect, Delivers
  <1>5. l \in [Sessions -> Links]
    BY <1>1 DEF TypeOK, Links
  <1>6. Tail(queue[client][s]) \in Seq(Events)
    BY <1>4, ClientType, PopEvent
  <1>7. q \in [Sessions -> Seq(Events)]
    <2>1. <<>> \in Seq(Events) /\ \A r \in Sessions : queue[client][r] \in Seq(Events)
      BY FewEvents, ClientType
    <2> QED
      BY <1>6, <2>1
  <1> HIDE DEF l, q
  <1>8. /\ link' \in [Procs -> [Sessions -> Links]] /\ \A y \in Procs \ {client} : link'[y] = link[y]
        /\ queue' \in [Procs -> [Sessions -> Seq(Events)]] /\ \A y \in Procs \ {client} : queue'[y] = queue[y]
    BY <1>1, <1>4, <1>5, <1>7 DEF TypeOK
  <1>9. /\ m_zhandle' \in [Procs -> Sessions \union {0}] /\ m_connected' \in [Procs -> BOOLEAN]
        /\ opening' \in [Procs -> Sessions \union {0}]
        /\ \A y \in Procs \ {client} : /\ m_zhandle'[y] = m_zhandle[y] /\ m_connected'[y] = m_connected[y]
                                       /\ opening'[y] = opening[y]
    BY <1>1, <1>4 DEF TypeOK
  <1>10. TypeOK'
    BY <1>4, <1>8, <1>9 DEF TypeOK
  <1> QED
    BY <1>4, <1>8, <1>9, <1>10, Distinct DEF Frame, Apart

\* Reading the children touches the client only.
LEMMA ChildrenFrame ==
    ASSUME TypeOK, ClientOK, NEW s \in Sessions, NEW ev, GetChildren(s, ev)
    PROVE  Frame(client)
  <1>1. client \in Procs /\ m_zhandle[client] \in Sessions \union {0}
    BY ClientType
  <1>2. /\ queue[client][s] # <<>> /\ Pop(client, s) /\ m_zhandle[client] # 0
        /\ pending' = pending /\ node' = node /\ answer' = answer /\ up' = up /\ link' = link
        /\ watches' = watches \union {m_zhandle[client]}
        /\ m_zhandle' = m_zhandle /\ m_connected' = m_connected /\ opening' = opening
    BY DEF GetChildren, Delivers
  <1>3. queue' \in [Procs -> [Sessions -> Seq(Events)]] /\ Elsewhere(queue, queue', client, s)
    BY <1>1, <1>2, Popped
  <1>4. watches' \in SUBSET Sessions
    BY <1>1, <1>2 DEF TypeOK
  <1>5. TypeOK'
    BY <1>2, <1>3, <1>4 DEF TypeOK
  <1> QED
    BY <1>2, <1>3, <1>5, Distinct DEF Frame, Apart, Elsewhere

\* Creating the node of the service touches no provider's own.
LEMMA NoNodeFrame ==
    ASSUME TypeOK, NEW s \in Sessions, GetNoNode(s)
    PROVE  Frame(client)
  <1>1. client \in Procs /\ "get again" \in Events
    BY Distinct DEF Events
  <1>2. /\ queue[client][s] # <<>> /\ queue' = [queue EXCEPT ![client][s] = <<"get again">> \o Tail(@)]
        /\ pending' = pending /\ node' = node /\ link' = link /\ watches' = watches /\ UNCHANGED codeVars
    BY DEF GetNoNode, Delivers
  <1>3. queue' \in [Procs -> [Sessions -> Seq(Events)]] /\ Elsewhere(queue, queue', client, s)
    BY <1>1, <1>2, Replaced
  <1>4. TypeOK'
    BY <1>2, <1>3 DEF TypeOK, codeVars
  <1> QED
    BY <1>2, <1>3, <1>4, Distinct DEF Frame, Apart, Elsewhere, codeVars

\* A failed read touches the client only.
LEMMA FailsFrame ==
    ASSUME TypeOK, NEW s \in Sessions, GetFails(s) \/ GetAgainFails(s)
    PROVE  Frame(client)
  <1>1. client \in Procs
    BY Distinct
  <1>2. /\ queue[client][s] # <<>> /\ Pop(client, s)
        /\ pending' = pending /\ node' = node /\ answer' = answer /\ link' = link /\ watches' = watches
        /\ m_zhandle' = m_zhandle /\ m_connected' = m_connected /\ opening' = opening
        /\ up' \in {up, [up EXCEPT ![client] = FALSE]}
    BY DEF GetFails, GetAgainFails, Delivers, codeVars
  <1>3. queue' \in [Procs -> [Sessions -> Seq(Events)]] /\ Elsewhere(queue, queue', client, s)
    BY <1>1, <1>2, Popped
  <1>4. up' \in [Procs -> BOOLEAN] /\ \A y \in Procs \ {client} : up'[y] = up[y]
    BY <1>1, <1>2 DEF TypeOK
  <1>5. TypeOK'
    BY <1>2, <1>3, <1>4 DEF TypeOK
  <1> QED
    BY <1>2, <1>3, <1>4, <1>5, Distinct DEF Frame, Apart, Elsewhere

-----------------------------------------------------------------------------
(* Every step keeps the invariant.                                         *)

\* A step of x needs to be looked at for x and for the client.
LEMMA Framed ==
    ASSUME Inv, NEW x, Frame(x), x \in Providers => ProviderOK(x)', ClientOK'
    PROVE  Inv'
  <1>1. \A p \in Providers \ {x} : ProviderOK(p)'
    BY Untouched DEF Inv, Frame, Apart
  <1> QED
    BY <1>1 DEF Inv, Frame

\* Whatever happens to a connection, a session or a creation under way.
LEMMA ZKStep ==
    ASSUME Inv, ZKNext, UNCHANGED codeVars
    PROVE  Inv'
  <1>1. TypeOK /\ ClientOK /\ \A p \in Providers : ProviderOK(p)
    BY DEF Inv
  <1>2. ASSUME NEW x \in Procs, NEW s \in Sessions,
               Connect(x, s) \/ Disconnect(x, s) \/ NotifyExpired(x, s)
        PROVE  Inv'
    <2>1. Frame(x) /\ (x # client => SameClient)
      BY <1>1, <1>2, ConnectFrame, DisconnectFrame, NotifyFrame
    <2>2. x \in Providers => ProviderOK(x)'
      BY <1>1, <1>2, ConnectProvider, DisconnectProvider, NotifyProvider
    <2>3. CASE x = client
      BY <1>1, <1>2, <2>1, <2>2, <2>3, ConnectClient, DisconnectClient, NotifyClient, Framed
    <2>4. CASE x # client
      <3>1. ClientOK'
        BY <1>1, <2>1, <2>4, ClientUntouched DEF SameClient, Apart
      <3> QED
        BY <2>1, <2>2, <3>1, Framed
    <2> QED
      BY <2>3, <2>4
  <1>3. ASSUME NEW x \in Procs, NEW s \in Sessions, Expire(x, s)
        PROVE  Inv'
    <2>1. Frame(x) /\ ClientOK'
      BY <1>1, <1>3, ExpireFrame
    <2>2. x \in Providers => ProviderOK(x)'
      BY <1>1, <1>3, ExpireProvider
    <2> QED
      BY <2>1, <2>2, Framed
  <1>4. ASSUME NEW p \in Providers, NEW s \in Sessions, ServeCreate(p, s)
        PROVE  Inv'
    BY <1>1, <1>4, ServeFrame, ServeProvider, Framed
  <1> QED
    BY <1>2, <1>3, <1>4 DEF ZKNext, Open

\* The steps that providers and the client share.
LEMMA BothStep ==
    ASSUME Inv, NEW x \in Procs,
           Start(x) \/ StoreHandle(x) \/ \E s \in Sessions : WatcherConnecting(x, s)
    PROVE  Inv'
  <1>1. TypeOK /\ ClientOK /\ \A p \in Providers : ProviderOK(p)
    BY DEF Inv
  <1>2. Frame(x) /\ (x # client => SameClient)
    BY <1>1, StartFrame, StoreFrame, ConnectingFrame
  <1>3. x \in Providers => ProviderOK(x)'
    BY <1>1, StartProvider, StoreProvider, ConnectingProvider
  <1>4. CASE x = client
    BY <1>1, <1>2, <1>3, <1>4, StartClient, StoreClient, ConnectingClient, Framed
  <1>5. CASE x # client
    <2>1. ClientOK'
      BY <1>1, <1>2, <1>5, ClientUntouched DEF SameClient, Apart
    <2> QED
      BY <1>2, <1>3, <2>1, Framed
  <1> QED
    BY <1>4, <1>5

\* A provider's own steps, its death among them.
LEMMA ProviderStep ==
    ASSUME Inv, NEW p \in Providers,
           \/ Crash(p)
           \/ \E s \in Sessions : WatcherConnected(p, s) \/ WatcherExpired(p, s) \/ zooCreateCallback(p, s)
    PROVE  Inv'
  <1>1. TypeOK /\ ClientOK /\ ProviderOK(p)
    BY DEF Inv
  <1>2. Frame(p) /\ SameClient
    BY <1>1, CrashFrame, ConnectedFrame, ExpiredFrame, CreatedFrame
  <1>3. ProviderOK(p)'
    BY <1>1, CrashProvider, ConnectedProvider, ExpiredProvider, CreatedProvider
  <1>4. ClientOK'
    BY <1>1, <1>2, ClientUntouched DEF SameClient, Apart
  <1> QED
    BY <1>2, <1>3, <1>4, Framed

\* The client's own steps.
LEMMA ClientThread ==
    ASSUME Inv, NEW s \in Sessions,
           \/ ServiceWatcher(s) \/ ServiceExpired(s)
           \/ GetChildren(s, "get") \/ GetChildren(s, "get again")
           \/ GetNoNode(s) \/ GetFails(s) \/ GetAgainFails(s)
    PROVE  Inv'
  <1>1. TypeOK /\ ClientOK
    BY DEF Inv
  <1>2. Frame(client)
    BY <1>1, WatcherFrame, ServiceExpiredFrame, ChildrenFrame, NoNodeFrame, FailsFrame
  <1>3. ClientOK'
    BY <1>1, WatcherClient, ExpiredClient, ChildrenClient, NoNodeClient, FailsClient
  <1> QED
    BY <1>2, <1>3, Distinct, Framed

\* ZkServer and ZkClient: a running provider has one session that matters, what
\* it has yet to hear agrees with the state of that session, and it will ask for
\* its node again unless it has it or was misled; the client owes itself an
\* update, or has a watch and the list that goes with it.
THEOREM Invariance == Spec => []Inv
  <1>1. Init => Inv
    <2> SUFFICES ASSUME Init PROVE Inv
      OBVIOUS
    <2>1. /\ link = [x \in Procs |-> [s \in Sessions |-> "none"]]
          /\ queue = [x \in Procs |-> [s \in Sessions |-> <<>>]]
          /\ pending = [x \in Procs |-> [s \in Sessions |-> 0]]
          /\ node = [p \in Providers |-> 0] /\ watches = {}
          /\ up = [x \in Procs |-> FALSE] /\ m_zhandle = [x \in Procs |-> 0]
          /\ m_connected = [x \in Procs |-> FALSE] /\ opening = [x \in Procs |-> 0]
          /\ answer = [p \in Providers |-> "none"]
      BY DEF Init, ZKInit
    <2>2. <<>> \in Seq(Events) /\ "none" \in Links
      BY FewEvents DEF Links
    <2>3. TypeOK
      BY <2>1, <2>2 DEF TypeOK
    <2>4. ASSUME NEW p \in Providers PROVE ProviderOK(p)
      BY <2>1, Distinct DEF ProviderOK
    <2>5. ClientOK
      BY <2>1, Distinct DEF ClientOK
    <2> QED
      BY <2>3, <2>4, <2>5 DEF Inv
  <1>2. Inv /\ [Next]_vars => Inv'
    <2> SUFFICES ASSUME Inv, [Next]_vars PROVE Inv'
      OBVIOUS
    <2>1. CASE ZKNext /\ UNCHANGED codeVars
      BY <2>1, ZKStep
    <2>2. CASE \E x \in Procs : Start(x) \/ StoreHandle(x)
      BY <2>2, BothStep
    <2>3. ASSUME NEW x \in Procs, NEW s \in Sessions, Thread(x, s)
          PROVE  Inv'
      BY <2>3, BothStep, ProviderStep, ClientThread DEF Thread
    <2>4. CASE \E p \in Providers : Crash(p)
      BY <2>4, ProviderStep
    <2>5. CASE UNCHANGED vars
      <3>1. TypeOK /\ ClientOK /\ \A p \in Providers : ProviderOK(p)
        BY DEF Inv
      <3>2. TypeOK'
        BY <2>5, <3>1 DEF TypeOK, vars, zkVars, codeVars
      <3>3. Frame(client)
        BY <2>5, <3>2 DEF Frame, Apart, vars, zkVars, codeVars
      <3>4. ClientOK'
        BY <2>5, <3>1, ClientUntouched DEF vars, zkVars, codeVars
      <3> QED
        BY <3>3, <3>4, Distinct, Framed
    <2> QED
      BY <2>1, <2>2, <2>3, <2>4, <2>5 DEF Next, Busy
  <1> QED
    BY <1>1, <1>2, PTL DEF Spec

\* zk_server.cpp:21-45, 105-152: a settled provider without a node was misled, by
\* the node of the process before it or by an event that came before its handle.
THEOREM AbsentCorrect == Spec => []AbsentOnlyIfMisled
  <1>1. Inv => AbsentOnlyIfMisled
    <2> SUFFICES ASSUME Inv, NEW p \in Providers, Idle(p), node[p] = 0
                 PROVE  answer[p] \in {"exists", "refused"}
      BY DEF AbsentOnlyIfMisled
    <2>1. PICK c \in Sessions : Current(p, c) /\ Others(p, c) /\ InOrder(p, c) /\ Covered(p, c)
      BY DEF Inv, ProviderOK, Idle
    <2>2. \A s \in Sessions : \A S : ~Has(queue[p][s], S)
      BY FewEvents DEF Idle
    <2>3. link[p][c] = "up" /\ pending[p][c] = 0
      BY <2>1, <2>2 DEF InOrder, Idle
    <2>4. c # 0
      BY ZooKeeperAssumption DEF Sessions
    <2> QED
      BY <2>1, <2>2, <2>3, <2>4 DEF Covered
  <1> QED
    BY <1>1, Invariance, PTL

\* zk_client.cpp:16-43, 108-162: a settled client lists exactly the providers that
\* are registered, if there is one.
THEOREM ListCorrect == Spec => []ListFollows
  <1>1. Inv => ListFollows
    <2> SUFFICES ASSUME Inv, Idle(client), Children # {}
                 PROVE  services = Children
      BY DEF ListFollows
    <2>1. \A s \in Sessions : \A S : ~Has(queue[client][s], S)
      BY FewEvents DEF Idle
    <2>2. ~Owes
      BY <2>1 DEF Owes, SessionOwes, Idle
    <2> QED
      BY <2>2 DEF Inv, ClientOK, Idle
  <1> QED
    BY <1>1, Invariance, PTL
=============================================================================

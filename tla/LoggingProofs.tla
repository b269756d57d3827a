---------------------------- MODULE LoggingProofs ----------------------------
(***************************************************************************)
(* The log, from Append to the files and the Scribe server, for any number *)
(* of readers, any buffer size, drop limit and file size: Data never calls *)
(* pop_back on an empty vector and hands out the lines in order; what      *)
(* leaves the queue arrives, or is lost in one of the ways that are known. *)
(***************************************************************************)
EXTENDS AsyncLogging, LogOutput, TLAPS, SequenceTheorems, FiniteSetTheorems, WellFoundedInduction

-----------------------------------------------------------------------------
(* Induction, and what it shows of FlattenSeq.  The library states         *)
(* induction for an operator; stated for a set, the provers can apply it.  *)

\* The natural numbers are the least set with 0 and successors.
LEMMA SetInduction ==
    ASSUME NEW S, 0 \in S, \A n \in Nat : n \in S => n + 1 \in S
    PROVE  Nat \subseteq S
  <1> DEFINE R == OpToRel(<, Nat)
             T == Nat \ S
  <1>1. IsWellFoundedOn(R, Nat)
    BY NatLessThanWellFounded, Zenon
  <1>2. \A x, y \in Nat : x < y => <<x, y>> \in R
    BY DEF OpToRel
  <1> HIDE DEF R
  <1>3. SUFFICES ASSUME T # {} PROVE FALSE
    OBVIOUS
  <1>4. T \subseteq Nat
    OBVIOUS
  <1> HIDE DEF T
  <1>5. PICK n \in T : \A m \in T : ~(<<m, n>> \in R)
    BY <1>1, <1>3, <1>4, WFMin
  <1>6. n \in Nat /\ n # 0 /\ n \notin S
    BY DEF T
  <1>7. n - 1 \in Nat /\ n - 1 < n
    BY <1>6
  <1>8. n - 1 \notin T
    BY <1>2, <1>5, <1>6, <1>7
  <1>9. n - 1 \in S
    BY <1>7, <1>8 DEF T
  <1>10. (n - 1) + 1 \in S
    BY <1>7, <1>9
  <1> QED
    BY <1>6, <1>10

\* Induction over sequences, from the end.
LEMMA SeqInduction ==
    ASSUME NEW S, NEW T, <<>> \in T,
           \A s \in Seq(S), e \in S : s \in T => Append(s, e) \in T
    PROVE  Seq(S) \subseteq T
  <1> DEFINE N == {n \in Nat : \A s \in Seq(S) : Len(s) = n => s \in T}
  <1>1. 0 \in N
    BY EmptySeq
  <1>2. ASSUME NEW n \in Nat, n \in N PROVE n + 1 \in N
    <2> SUFFICES ASSUME NEW s \in Seq(S), Len(s) = n + 1 PROVE s \in T
      OBVIOUS
    <2>1. s # <<>>
      BY EmptySeq
    <2>2. PICK t \in Seq(S), e \in S : s = Append(t, e)
      BY <2>1, SequenceEmptyOrAppend
    <2>3. Len(t) = n
      BY <2>2, AppendProperties, LenProperties
    <2>4. t \in T
      BY <1>2, <2>3
    <2> QED
      BY <2>2, <2>4
  <1>3. Nat \subseteq N
    <2> HIDE DEF N
    <2> QED
      BY <1>1, <1>2, SetInduction
  <1> QED
    BY <1>3, LenProperties

\* The recursion of FlattenSeq.
Flattens(g, s) == g = [i \in 1 .. Len(s) |-> IF i = 1 THEN s[i] ELSE g[i - 1] \o s[i]]

\* It has a solution for every sequence.
LEMMA FlattensExists ==
    ASSUME NEW S, NEW s \in Seq(S) PROVE \E g : Flattens(g, s)
  <1> DEFINE T == {t \in Seq(S) : \E g : Flattens(g, t)}
  <1>1. <<>> \in T
    <2>1. Flattens(<<>>, <<>>)
      BY EmptySeq DEF Flattens
    <2> QED
      BY <2>1, EmptySeq
  <1>2. ASSUME NEW t \in Seq(S), NEW e \in S, t \in T PROVE Append(t, e) \in T
    <2>1. PICK g : Flattens(g, t)
      BY <1>2
    <2> DEFINE u == Append(t, e)
    <2>2. /\ u \in Seq(S) /\ Len(u) = Len(t) + 1 /\ Len(t) \in Nat
          /\ \A i \in 1 .. Len(t) : u[i] = t[i]
      BY AppendProperties, LenProperties
    <2> HIDE DEF u
    <2> DEFINE h == [i \in 1 .. Len(u) |-> IF i \in 1 .. Len(t) THEN g[i]
                       ELSE IF i = 1 THEN u[i] ELSE g[i - 1] \o u[i]]
    <2>3. \A i \in 1 .. Len(t) : g[i] = IF i = 1 THEN t[i] ELSE g[i - 1] \o t[i]
      BY <2>1 DEF Flattens
    <2>4. \A i \in 1 .. Len(u) : h[i] = IF i = 1 THEN u[i] ELSE h[i - 1] \o u[i]
      <3> SUFFICES ASSUME NEW i \in 1 .. Len(u)
                   PROVE  h[i] = IF i = 1 THEN u[i] ELSE h[i - 1] \o u[i]
        OBVIOUS
      <3>1. i # 1 => i - 1 \in 1 .. Len(t) /\ i - 1 \in 1 .. Len(u) /\ h[i - 1] = g[i - 1]
        BY <2>2
      <3>2. CASE i \in 1 .. Len(t)
        BY <2>2, <2>3, <3>1, <3>2
      <3>3. CASE i \notin 1 .. Len(t)
        BY <3>1, <3>3
      <3> QED
        BY <3>2, <3>3
    <2>5. Flattens(h, u)
      <3>1. h = [i \in 1 .. Len(u) |-> h[i]]
        OBVIOUS
      <3> HIDE DEF h
      <3> QED
        BY <2>4, <3>1 DEF Flattens
    <2> QED
      BY <2>2, <2>5 DEF u
  <1>3. Seq(S) \subseteq T
    <2> HIDE DEF T
    <2> QED
      BY <1>1, <1>2, SeqInduction
  <1> QED
    BY <1>3

\* FlattenSeq is the last value of a solution.
LEMMA FlattenDef ==
    ASSUME NEW S, NEW s \in Seq(S), s # <<>>
    PROVE  \E g : Flattens(g, s) /\ FlattenSeq(s) = g[Len(s)]
  <1> DEFINE g == CHOOSE g : Flattens(g, s)
  <1>1. Flattens(g, s)
    BY FlattensExists
  <1>2. Len(s) # 0
    BY EmptySeq
  <1>3. FlattenSeq(s) = g[Len(s)]
    BY <1>2 DEF FlattenSeq, Flattens
  <1> QED
    BY <1>1, <1>3

\* Nothing is flattened to nothing.
LEMMA FlattenEmpty == FlattenSeq(<<>>) = <<>>
  BY EmptySeq DEF FlattenSeq

\* A sequence appended is concatenated.
LEMMA FlattenAppend ==
    ASSUME NEW S, NEW s \in Seq(Seq(S)), NEW x \in Seq(S), FlattenSeq(s) \in Seq(S)
    PROVE  FlattenSeq(Append(s, x)) = FlattenSeq(s) \o x
  <1> DEFINE u == Append(s, x)
  <1>2. /\ u \in Seq(Seq(S)) /\ Len(u) = Len(s) + 1 /\ Len(s) \in Nat /\ u # <<>>
        /\ \A i \in 1 .. Len(s) : u[i] = s[i]
        /\ u[Len(s) + 1] = x
    BY AppendProperties, LenProperties
  <1> HIDE DEF u
  <1>3. PICK g : Flattens(g, u) /\ FlattenSeq(u) = g[Len(u)]
    BY <1>2, FlattenDef
  <1>4. g[Len(s) + 1] = IF Len(s) + 1 = 1 THEN u[Len(s) + 1] ELSE g[(Len(s) + 1) - 1] \o u[Len(s) + 1]
    <2>1. Len(s) + 1 \in 1 .. Len(u)
      BY <1>2
    <2> QED
      BY <1>3, <2>1 DEF Flattens
  <1>5. CASE s = <<>>
    <2>1. Len(s) = 0 /\ FlattenSeq(s) = <<>> BY <1>5, EmptySeq, FlattenEmpty
    <2>2. FlattenSeq(u) = x BY <1>2, <1>3, <1>4, <2>1
    <2>3. <<>> \o x = x BY ConcatEmptySeq
    <2> QED
      BY <2>1, <2>2, <2>3 DEF u
  <1>6. CASE s # <<>>
    <2>1. PICK h : Flattens(h, s) /\ FlattenSeq(s) = h[Len(s)]
      BY <1>6, FlattenDef
    <2>2. Len(s) # 0
      BY <1>6, EmptySeq
    <2>3. Len(u) \in Nat /\ Len(s) <= Len(u)
      BY <1>2
    <2>4. \A i \in 1 .. Len(s) : g[i] = h[i]
      <3> DEFINE N == {n \in Nat : n \in 1 .. Len(s) => g[n] = h[n]}
      <3>1. 0 \in N
        OBVIOUS
      <3>2. ASSUME NEW n \in Nat, n \in N PROVE n + 1 \in N
        <4> SUFFICES ASSUME n + 1 \in 1 .. Len(s) PROVE g[n + 1] = h[n + 1]
          OBVIOUS
        <4>0. n + 1 \in 1 .. Len(u)
          BY <1>2
        <4>1. g[n + 1] = IF n + 1 = 1 THEN u[n + 1] ELSE g[(n + 1) - 1] \o u[n + 1]
          BY <1>3, <4>0 DEF Flattens
        <4>2. h[n + 1] = IF n + 1 = 1 THEN s[n + 1] ELSE h[(n + 1) - 1] \o s[n + 1]
          BY <2>1 DEF Flattens
        <4>3. n # 0 => g[n] = h[n]
          BY <1>2, <3>2
        <4>4. (n + 1) - 1 = n /\ u[n + 1] = s[n + 1] /\ (n + 1 = 1 <=> n = 0)
          BY <1>2
        <4> QED
          BY <4>1, <4>2, <4>3, <4>4
      <3>3. Nat \subseteq N
        <4> HIDE DEF N
        <4> QED
          BY <3>1, <3>2, SetInduction
      <3> QED
        BY <1>2, <3>3
    <2>5. g[Len(s)] = h[Len(s)]
      BY <1>2, <2>2, <2>4
    <2>6. g[Len(s) + 1] = g[Len(s)] \o x
      BY <1>2, <1>4, <2>2
    <2> QED
      BY <1>2, <1>3, <2>1, <2>5, <2>6 DEF u
  <1> QED
    BY <1>5, <1>6

\* The elements are those of the sequences.
LEMMA FlattenType ==
    ASSUME NEW S, NEW s \in Seq(Seq(S)) PROVE FlattenSeq(s) \in Seq(S)
  <1> DEFINE T == {t \in Seq(Seq(S)) : FlattenSeq(t) \in Seq(S)}
  <1>1. <<>> \in T
    BY EmptySeq, FlattenEmpty
  <1>2. ASSUME NEW t \in Seq(Seq(S)), NEW e \in Seq(S), t \in T PROVE Append(t, e) \in T
    BY <1>2, FlattenAppend, ConcatProperties, AppendProperties
  <1>3. Seq(Seq(S)) \subseteq T
    <2> HIDE DEF T
    <2> QED
      BY <1>1, <1>2, SeqInduction
  <1> QED
    BY <1>3

\* Flattening a concatenation.
LEMMA FlattenConcat ==
    ASSUME NEW S, NEW s \in Seq(Seq(S)), NEW t \in Seq(Seq(S))
    PROVE  FlattenSeq(s \o t) = FlattenSeq(s) \o FlattenSeq(t)
  <1> DEFINE V == Seq(S)
             T == {u \in Seq(V) : FlattenSeq(s \o u) = FlattenSeq(s) \o FlattenSeq(u)}
  <1>1. FlattenSeq(s) \in Seq(S)
    BY FlattenType
  <1>2. <<>> \in T
    <2>1. s \o <<>> = s /\ FlattenSeq(s) \o <<>> = FlattenSeq(s) /\ <<>> \in Seq(V)
      BY <1>1, ConcatEmptySeq, EmptySeq
    <2> QED
      BY <2>1, FlattenEmpty
  <1>3. ASSUME NEW u \in Seq(V), NEW e \in V, u \in T
        PROVE  Append(u, e) \in T
    <2>1. s \o Append(u, e) = Append(s \o u, e) /\ Append(u, e) \in Seq(V)
      <3>1. s \o (u \o <<e>>) = (s \o u) \o <<e>>
        <4>1. <<e>> \in Seq(V)
          OBVIOUS
        <4> HIDE DEF V
        <4>2. s \in Seq(V)
          BY DEF V
        <4> QED
          BY <4>1, <4>2, ConcatAssociative
      <3>2. Append(u, e) = u \o <<e>> /\ Append(s \o u, e) = (s \o u) \o <<e>>
        BY AppendIsConcat, ConcatProperties
      <3> QED
        BY <3>1, <3>2, AppendProperties
    <2>2. s \o u \in Seq(Seq(S)) /\ FlattenSeq(s \o u) \in Seq(S) /\ FlattenSeq(u) \in Seq(S)
      BY ConcatProperties, FlattenType
    <2>3. /\ FlattenSeq(Append(s \o u, e)) = FlattenSeq(s \o u) \o e
          /\ FlattenSeq(Append(u, e)) = FlattenSeq(u) \o e
      BY <2>2, FlattenAppend
    <2>4. (FlattenSeq(s) \o FlattenSeq(u)) \o e = FlattenSeq(s) \o (FlattenSeq(u) \o e)
      <3>1. \A a, b, c \in Seq(S) : (a \o b) \o c = a \o (b \o c)
        BY ConcatAssociative, SMTT(30)
      <3> QED
        BY <1>1, <2>2, <3>1
    <2> QED
      BY <1>3, <2>1, <2>3, <2>4
  <1>4. Seq(V) \subseteq T
    <2> HIDE DEF T, V
    <2> QED
      BY <1>2, <1>3, SeqInduction
  <1> QED
    BY <1>4

-----------------------------------------------------------------------------
(* Lines in order: what concatenation does to it.  Numbers that are not    *)
(* positive are notices and stand anywhere.                                *)

\* Every line of s is older than every line of t.
Before(s, t) == \A i \in DOMAIN s, j \in DOMAIN t : s[i] > 0 /\ t[j] > 0 => s[i] < t[j]

\* s has lines up to n.
UpTo(s, n) == \A i \in DOMAIN s : s[i] <= n

\* The elements of a concatenation.
LEMMA ConcatElements ==
    ASSUME NEW S, NEW s \in Seq(S), NEW t \in Seq(S)
    PROVE  /\ DOMAIN s = 1 .. Len(s) /\ DOMAIN t = 1 .. Len(t)
           /\ Len(s) \in Nat /\ Len(t) \in Nat
           /\ s \o t \in Seq(S) /\ DOMAIN (s \o t) = 1 .. (Len(s) + Len(t))
           /\ \A i \in 1 .. Len(s) : s[i] \in S /\ (s \o t)[i] = s[i]
           /\ \A i \in 1 .. Len(t) : t[i] \in S /\ (s \o t)[Len(s) + i] = t[i]
           /\ \A k \in 1 .. (Len(s) + Len(t)) :
                 k \in 1 .. Len(s) \/ \E i \in 1 .. Len(t) : k = Len(s) + i
  <1>1. /\ DOMAIN s = 1 .. Len(s) /\ DOMAIN t = 1 .. Len(t)
        /\ Len(s) \in Nat /\ Len(t) \in Nat
    BY LenProperties
  <1>2. /\ s \o t \in Seq(S) /\ Len(s \o t) = Len(s) + Len(t)
        /\ \A i \in 1 .. Len(s) + Len(t) :
              (s \o t)[i] = IF i <= Len(s) THEN s[i] ELSE t[i - Len(s)]
    BY ConcatProperties
  <1>3. DOMAIN (s \o t) = 1 .. (Len(s) + Len(t))
    BY <1>2, LenProperties
  <1>4. (\A i \in 1 .. Len(s) : s[i] \in S) /\ \A i \in 1 .. Len(t) : t[i] \in S
    BY ElementOfSeq
  <1>5. \A i \in 1 .. Len(s) : (s \o t)[i] = s[i]
    BY <1>1, <1>2
  <1>6. \A i \in 1 .. Len(t) : (s \o t)[Len(s) + i] = t[i]
    BY <1>1, <1>2
  <1>7. ASSUME NEW k \in 1 .. (Len(s) + Len(t)), k \notin 1 .. Len(s)
        PROVE  \E i \in 1 .. Len(t) : k = Len(s) + i
    <2>1. k - Len(s) \in 1 .. Len(t) /\ k = Len(s) + (k - Len(s))
      BY <1>1, <1>7
    <2> QED
      BY <2>1
  <1> QED
    BY <1>1, <1>2, <1>3, <1>4, <1>5, <1>6, <1>7

\* A concatenation is in order if both parts are and nothing is overtaken.
LEMMA OrderedConcat ==
    ASSUME NEW s \in Seq(Int), NEW t \in Seq(Int)
    PROVE  Ordered(s \o t) <=> Ordered(s) /\ Ordered(t) /\ Before(s, t)
  <1> DEFINE u == s \o t
             m == Len(s)
             n == Len(t)
  <1>1. /\ DOMAIN s = 1 .. m /\ DOMAIN t = 1 .. n /\ m \in Nat /\ n \in Nat
        /\ DOMAIN u = 1 .. (m + n)
        /\ \A i \in 1 .. m : s[i] \in Int /\ u[i] = s[i]
        /\ \A i \in 1 .. n : t[i] \in Int /\ u[m + i] = t[i]
        /\ \A k \in 1 .. (m + n) : k \in 1 .. m \/ \E i \in 1 .. n : k = m + i
    BY ConcatElements
  <1> HIDE DEF u, m, n
  <1>2. ASSUME Ordered(u) PROVE Ordered(s) /\ Ordered(t) /\ Before(s, t)
    <2>1. Ordered(s)
      <3> SUFFICES ASSUME NEW i \in 1 .. m, NEW j \in 1 .. m, i < j, s[i] > 0, s[j] > 0
                   PROVE  s[i] < s[j]
        BY <1>1 DEF Ordered
      <3>1. i \in DOMAIN u /\ j \in DOMAIN u
        BY <1>1
      <3>2. u[i] = s[i] /\ u[j] = s[j]
        BY <1>1
      <3> QED
        BY <1>2, <3>1, <3>2 DEF Ordered
    <2>2. Ordered(t)
      <3> SUFFICES ASSUME NEW i \in 1 .. n, NEW j \in 1 .. n, i < j, t[i] > 0, t[j] > 0
                   PROVE  t[i] < t[j]
        BY <1>1 DEF Ordered
      <3>1. m + i \in 1 .. (m + n) /\ m + j \in 1 .. (m + n) /\ m + i < m + j
        BY <1>1
      <3>2. u[m + i] = t[i] /\ u[m + j] = t[j]
        BY <1>1
      <3> QED
        BY <1>1, <1>2, <3>1, <3>2 DEF Ordered
    <2>3. Before(s, t)
      <3> SUFFICES ASSUME NEW i \in 1 .. m, NEW j \in 1 .. n, s[i] > 0, t[j] > 0
                   PROVE  s[i] < t[j]
        BY <1>1 DEF Before
      <3>1. i \in 1 .. (m + n) /\ m + j \in 1 .. (m + n) /\ i < m + j
        BY <1>1
      <3>2. u[i] = s[i] /\ u[m + j] = t[j]
        BY <1>1
      <3> QED
        BY <1>1, <1>2, <3>1, <3>2 DEF Ordered
    <2> QED
      BY <2>1, <2>2, <2>3
  <1>3. ASSUME Ordered(s), Ordered(t), Before(s, t) PROVE Ordered(u)
    <2> SUFFICES ASSUME NEW k \in 1 .. (m + n), NEW l \in 1 .. (m + n), k < l,
                        u[k] > 0, u[l] > 0
                 PROVE  u[k] < u[l]
      BY <1>1 DEF Ordered
    <2>1. CASE l \in 1 .. m
      <3>1. k \in 1 .. m
        BY <1>1, <2>1
      <3> QED
        BY <1>1, <1>3, <2>1, <3>1 DEF Ordered
    <2>2. CASE l \notin 1 .. m
      <3>1. PICK j \in 1 .. n : l = m + j
        BY <1>1, <2>2
      <3>2. u[l] = t[j]
        BY <1>1, <3>1
      <3>3. CASE k \in 1 .. m
        BY <1>1, <1>3, <3>2, <3>3 DEF Before
      <3>4. CASE k \notin 1 .. m
        <4>1. PICK i \in 1 .. n : k = m + i
          BY <1>1, <3>4
        <4>2. u[k] = t[i] /\ i < j
          BY <1>1, <3>1, <4>1
        <4> QED
          BY <1>1, <1>3, <3>2, <4>2 DEF Ordered
      <3> QED
        BY <3>3, <3>4
    <2> QED
      BY <2>1, <2>2
  <1> QED
    BY <1>2, <1>3 DEF u

\* The lines of a concatenation are those of its parts.
LEMMA BeforeConcat ==
    ASSUME NEW s \in Seq(Int), NEW t \in Seq(Int), NEW v \in Seq(Int), NEW n \in Int
    PROVE  /\ Before(s \o t, v) <=> Before(s, v) /\ Before(t, v)
           /\ Before(v, s \o t) <=> Before(v, s) /\ Before(v, t)
           /\ UpTo(s \o t, n) <=> UpTo(s, n) /\ UpTo(t, n)
  <1>1. /\ DOMAIN s = 1 .. Len(s) /\ DOMAIN t = 1 .. Len(t)
        /\ Len(s) \in Nat /\ Len(t) \in Nat
        /\ DOMAIN (s \o t) = 1 .. (Len(s) + Len(t))
        /\ \A i \in 1 .. Len(s) : (s \o t)[i] = s[i]
        /\ \A i \in 1 .. Len(t) : (s \o t)[Len(s) + i] = t[i]
        /\ \A k \in 1 .. (Len(s) + Len(t)) :
              k \in 1 .. Len(s) \/ \E i \in 1 .. Len(t) : k = Len(s) + i
    BY ConcatElements
  <1> DEFINE u == s \o t
  <1>2. \A k \in DOMAIN s : k \in DOMAIN u /\ u[k] = s[k]
    BY <1>1
  <1>3. \A k \in DOMAIN t : Len(s) + k \in DOMAIN u /\ u[Len(s) + k] = t[k]
    <2>1. \A k \in DOMAIN t : Len(s) + k \in DOMAIN u
      BY <1>1
    <2> QED
      BY <1>1, <2>1
  <1>4. \A k \in DOMAIN u : (k \in DOMAIN s /\ u[k] = s[k]) \/ \E i \in DOMAIN t : u[k] = t[i]
    <2> SUFFICES ASSUME NEW k \in DOMAIN u, k \notin DOMAIN s
                 PROVE  \E i \in DOMAIN t : u[k] = t[i]
      BY <1>2
    <2>1. PICK i \in 1 .. Len(t) : k = Len(s) + i
      BY <1>1
    <2> QED
      BY <1>1, <2>1
  <1> HIDE DEF u
  <1>5. Before(u, v) <=> Before(s, v) /\ Before(t, v)
    <2>1. Before(u, v) => Before(s, v)
      BY <1>2, Zenon DEF Before
    <2>2. Before(u, v) => Before(t, v)
      BY <1>3, Zenon DEF Before
    <2>3. Before(s, v) /\ Before(t, v) => Before(u, v)
      <3> SUFFICES ASSUME Before(s, v), Before(t, v), NEW k \in DOMAIN u, NEW j \in DOMAIN v,
                          u[k] > 0, v[j] > 0
                   PROVE  u[k] < v[j]
        BY DEF Before
      <3> QED
        BY <1>4, Zenon DEF Before
    <2> QED
      BY <2>1, <2>2, <2>3
  <1>6. Before(v, u) <=> Before(v, s) /\ Before(v, t)
    <2>1. Before(v, u) => Before(v, s)
      BY <1>2, Zenon DEF Before
    <2>2. Before(v, u) => Before(v, t)
      BY <1>3, Zenon DEF Before
    <2>3. Before(v, s) /\ Before(v, t) => Before(v, u)
      <3> SUFFICES ASSUME Before(v, s), Before(v, t), NEW k \in DOMAIN u, NEW j \in DOMAIN v,
                          u[k] > 0, v[j] > 0
                   PROVE  v[j] < u[k]
        BY DEF Before
      <3> QED
        BY <1>4, Zenon DEF Before
    <2> QED
      BY <2>1, <2>2, <2>3
  <1>7. UpTo(u, n) <=> UpTo(s, n) /\ UpTo(t, n)
    <2>1. UpTo(u, n) => UpTo(s, n)
      BY <1>2, Zenon DEF UpTo
    <2>2. UpTo(u, n) => UpTo(t, n)
      BY <1>3, Zenon DEF UpTo
    <2>3. UpTo(s, n) /\ UpTo(t, n) => UpTo(u, n)
      BY <1>4, Zenon DEF UpTo
    <2> QED
      BY <2>1, <2>2, <2>3
  <1> QED
    BY <1>5, <1>6, <1>7 DEF u

-----------------------------------------------------------------------------
(* Sums over a finite set.                                                 *)

\* Induction over the subsets of a finite set.
LEMMA FinInduction ==
    ASSUME NEW S, IsFiniteSet(S), NEW T,
           \A X \in SUBSET S : (\A Z \in SUBSET X : Z # X => Z \in T) => X \in T
    PROVE  SUBSET S \subseteq T
  <1> DEFINE N == {n \in Nat : \A X \in SUBSET S : Cardinality(X) <= n => X \in T}
  <1>1. \A X \in SUBSET S : IsFiniteSet(X) /\ Cardinality(X) \in Nat
    BY FS_Subset, FS_CardinalityType
  <1>2. \A X \in SUBSET S : \A Z \in SUBSET X : Z # X => Cardinality(Z) < Cardinality(X)
    BY <1>1, FS_Subset
  <1>3. 0 \in N
    <2> SUFFICES ASSUME NEW X \in SUBSET S, Cardinality(X) <= 0 PROVE X \in T
      OBVIOUS
    <2>1. \A Z \in SUBSET X : Z = X
      <3> SUFFICES ASSUME NEW Z \in SUBSET X, Z # X PROVE FALSE
        OBVIOUS
      <3>1. Cardinality(Z) < Cardinality(X) /\ Cardinality(Z) \in Nat /\ Cardinality(X) \in Nat
        BY <1>1, <1>2
      <3> QED
        BY <3>1
    <2> QED
      BY <2>1
  <1>4. ASSUME NEW n \in Nat, n \in N PROVE n + 1 \in N
    <2> SUFFICES ASSUME NEW X \in SUBSET S, Cardinality(X) <= n + 1 PROVE X \in T
      OBVIOUS
    <2>1. ASSUME NEW Z \in SUBSET X, Z # X PROVE Z \in T
      <3>1. Cardinality(Z) < Cardinality(X) /\ Cardinality(Z) \in Nat /\ Cardinality(X) \in Nat
        BY <1>1, <1>2, <2>1
      <3>2. Cardinality(Z) <= n
        BY <3>1
      <3> QED
        BY <1>4, <3>2
    <2> QED
      BY <2>1
  <1>5. Nat \subseteq N
    <2> HIDE DEF N
    <2> QED
      BY <1>3, <1>4, SetInduction
  <1> QED
    BY <1>1, <1>5

\* The recursion of MapThenSumSet, for the values of a function g.
Sums(it, g, S) ==
    it = [s \in SUBSET S |-> IF s = {} THEN 0
                             ELSE g[CHOOSE x \in s : TRUE] + it[s \ {CHOOSE x \in s : TRUE}]]

\* It has a solution over a finite set.
LEMMA SumsExists ==
    ASSUME NEW S, IsFiniteSet(S), NEW g
    PROVE  \E it : Sums(it, g, S)
  <1> DEFINE pick(s) == CHOOSE x \in s : TRUE
             RHS(it, s) == IF s = {} THEN 0 ELSE g[pick(s)] + it[s \ {pick(s)}]
             N == {n \in Nat : \E it : \A s \in SUBSET S :
                                  Cardinality(s) <= n => it[s] = RHS(it, s)}
  <1>1. \A s \in SUBSET S : IsFiniteSet(s) /\ Cardinality(s) \in Nat
    BY FS_Subset, FS_CardinalityType
  <1>2. ASSUME NEW s \in SUBSET S, s # {}
        PROVE  s \ {pick(s)} \in SUBSET S /\ Cardinality(s \ {pick(s)}) = Cardinality(s) - 1
    <2>1. pick(s) \in s
      BY <1>2
    <2>2. Cardinality(s \ {pick(s)}) = Cardinality(s) - 1
      <3> HIDE DEF pick
      <3> QED
        BY <1>1, <2>1, FS_RemoveElement
    <2> QED
      BY <2>2
  <1> HIDE DEF pick
  <1>3. 0 \in N
    <2> DEFINE it == [s \in SUBSET S |-> 0]
    <2>1. ASSUME NEW s \in SUBSET S, Cardinality(s) <= 0 PROVE it[s] = RHS(it, s)
      <3>1. s = {}
        BY <1>1, <2>1, FS_EmptySet
      <3> QED
        BY <3>1
    <2> HIDE DEF it
    <2> QED
      BY <2>1
  <1>4. ASSUME NEW n \in Nat, n \in N PROVE n + 1 \in N
    <2>1. PICK it : \A s \in SUBSET S : Cardinality(s) <= n => it[s] = RHS(it, s)
      BY <1>4
    <2> DEFINE ju == [s \in SUBSET S |-> IF Cardinality(s) <= n THEN it[s] ELSE RHS(it, s)]
    <2>2. ASSUME NEW s \in SUBSET S, Cardinality(s) <= n + 1 PROVE ju[s] = RHS(ju, s)
      <3>1. ju[s] = RHS(it, s)
        BY <2>1
      <3>2. ASSUME s # {} PROVE ju[s \ {pick(s)}] = it[s \ {pick(s)}]
        <4>1. s \ {pick(s)} \in SUBSET S /\ Cardinality(s \ {pick(s)}) <= n
          BY <1>1, <1>2, <2>2, <3>2
        <4> QED
          BY <4>1
      <3> HIDE DEF ju
      <3> QED
        BY <3>1, <3>2
    <2> HIDE DEF ju
    <2> QED
      BY <2>2, SMTT(30)
  <1>5. Nat \subseteq N
    <2> HIDE DEF N
    <2> QED
      BY <1>3, <1>4, SetInduction
  <1>6. PICK it : \A s \in SUBSET S : Cardinality(s) <= Cardinality(S) => it[s] = RHS(it, s)
    BY <1>1, <1>5
  <1> DEFINE ju == [s \in SUBSET S |-> it[s]]
  <1>7. ASSUME NEW s \in SUBSET S PROVE ju[s] = RHS(ju, s)
    <2>1. Cardinality(s) <= Cardinality(S)
      BY FS_Subset
    <2>2. it[s] = RHS(it, s)
      BY <1>6, <2>1
    <2>3. s # {} => s \ {pick(s)} \in SUBSET S
      OBVIOUS
    <2> QED
      BY <2>2, <2>3
  <1>8. ju = [s \in SUBSET S |-> RHS(ju, s)]
    <2>1. ju = [s \in SUBSET S |-> ju[s]]
      OBVIOUS
    <2> HIDE DEF ju
    <2> QED
      BY <1>7, <2>1
  <1> HIDE DEF ju
  <1>9. Sums(ju, g, S)
    BY <1>8 DEF Sums, pick
  <1> QED
    BY <1>9

\* A sum over a part does not depend on the rest.
LEMMA SumsAgree ==
    ASSUME NEW S, NEW R, IsFiniteSet(S), S \subseteq R,
           NEW g, NEW h, \A x \in S : h[x] = g[x],
           NEW it, Sums(it, g, S), NEW ju, Sums(ju, h, R)
    PROVE  \A X \in SUBSET S : ju[X] = it[X]
  <1> DEFINE pick(s) == CHOOSE x \in s : TRUE
             T == {X \in SUBSET S : ju[X] = it[X]}
  <1>1. \A X : X # {} => pick(X) \in X
    OBVIOUS
  <1>2. \A X \in SUBSET S : it[X] = IF X = {} THEN 0 ELSE g[pick(X)] + it[X \ {pick(X)}]
    BY DEF Sums
  <1>3. \A X \in SUBSET R : ju[X] = IF X = {} THEN 0 ELSE h[pick(X)] + ju[X \ {pick(X)}]
    BY DEF Sums
  <1> HIDE DEF pick
  <1>4. ASSUME NEW X \in SUBSET S, \A Z \in SUBSET X : Z # X => Z \in T
        PROVE  X \in T
    <2>0. X \in SUBSET R
      OBVIOUS
    <2>1. CASE X = {}
      BY <1>2, <1>3, <2>0, <2>1
    <2>2. CASE X # {}
      <3> DEFINE c == pick(X)
                 Z == X \ {c}
      <3>1. c \in X /\ c \in S
        BY <1>1, <2>2
      <3>2. it[X] = g[c] + it[Z] /\ ju[X] = h[c] + ju[Z]
        BY <1>2, <1>3, <2>0, <2>2
      <3> HIDE DEF c
      <3>3. Z \in SUBSET X /\ Z # X
        BY <3>1
      <3>4. Z \in T
        BY <1>4, <3>3
      <3> HIDE DEF Z
      <3>5. ju[Z] = it[Z] /\ h[c] = g[c]
        BY <3>1, <3>4
      <3> QED
        BY <3>2, <3>5
    <2> QED
      BY <2>1, <2>2
  <1>5. SUBSET S \subseteq T
    <2> HIDE DEF T
    <2> QED
      BY <1>4, FinInduction
  <1> QED
    BY <1>5

\* Whichever element CHOOSE takes first, each counts once.
LEMMA SumsRemove ==
    ASSUME NEW S, IsFiniteSet(S), NEW g, \A x \in S : g[x] \in Int,
           NEW it, Sums(it, g, S)
    PROVE  \A X \in SUBSET S : it[X] \in Int /\ \A q \in X : it[X] = it[X \ {q}] + g[q]
  <1> DEFINE pick(s) == CHOOSE x \in s : TRUE
             W == {X \in SUBSET S : it[X] \in Int /\ \A q \in X : it[X] = it[X \ {q}] + g[q]}
  <1>1. \A X : X # {} => pick(X) \in X
    OBVIOUS
  <1>2. \A X \in SUBSET S : it[X] = IF X = {} THEN 0 ELSE g[pick(X)] + it[X \ {pick(X)}]
    BY DEF Sums
  <1> HIDE DEF pick
  <1>3. ASSUME NEW V \in SUBSET S, \A R \in SUBSET V : R # V => R \in W
        PROVE  V \in W
    <2>1. CASE V = {}
      <3>1. it[V] = 0
        BY <1>2, <2>1
      <3>2. \A q \in V : it[V] = it[V \ {q}] + g[q]
        BY <2>1
      <3> QED
        BY <3>1, <3>2
    <2>2. CASE V # {}
      <3> DEFINE c == pick(V)
                 R == V \ {c}
      <3>1. c \in V /\ it[V] = g[c] + it[R]
        BY <1>1, <1>2, <2>2
      <3> HIDE DEF c
      <3>2. R \in SUBSET V /\ R # V /\ g[c] \in Int
        BY <3>1
      <3>3. R \in W
        BY <1>3, <3>2
      <3>4. it[R] \in Int /\ \A q \in R : it[R] = it[R \ {q}] + g[q]
        BY <3>3
      <3>5. ASSUME NEW q \in V PROVE it[V] = it[V \ {q}] + g[q]
        <4>1. CASE c = q
          BY <3>1, <3>2, <3>4, <4>1
        <4>2. CASE c # q
          <5> DEFINE Q == V \ {q}
                     B == R \ {q}
          <5>1. q \in R /\ Q \in SUBSET V /\ Q # V /\ c \in Q /\ Q \ {c} = B
            BY <3>1, <4>2
          <5>2. Q \in W
            BY <1>3, <5>1
          <5>3. it[Q] \in Int /\ it[Q] = it[Q \ {c}] + g[c]
            BY <5>1, <5>2
          <5>4. it[R] = it[B] + g[q]
            BY <3>4, <5>1
          <5>5. B \in SUBSET V /\ B # V /\ g[q] \in Int
            BY <3>1
          <5>6. B \in W
            BY <1>3, <5>5
          <5>7. it[B] \in Int
            BY <5>6
          <5>8. it[Q] = it[B] + g[c]
            BY <5>1, <5>3
          <5> HIDE DEF Q, B, R
          <5>9. it[V] = it[Q] + g[q]
            BY <3>1, <3>2, <3>4, <5>4, <5>5, <5>7, <5>8
          <5> QED
            BY <5>9 DEF Q
        <4> QED
          BY <4>1, <4>2
      <3>6. it[V] \in Int
        BY <3>1, <3>2, <3>4
      <3> QED
        BY <3>5, <3>6
    <2> QED
      BY <2>1, <2>2
  <1>4. SUBSET S \subseteq W
    <2> HIDE DEF W
    <2> QED
      BY <1>3, FinInduction
  <1> QED
    BY <1>4

-----------------------------------------------------------------------------
(* AsyncLogging: types, and the buffers pop_back needs.                    *)

\* A reader that has given away both its new buffers has taken two or more.
TakenEnough ==
    \A r \in Readers : pc[r] = "swapped" => Len(buffers_write[r]) >= Recycled(r)

\* The inductive invariant: why the spare buffer can be gone matters only to
\* the next reader, so SpareOrBacklog carries it from Append to Swap.
IInv == TypeOK /\ SpareOrBacklog /\ TakenEnough

\* What a drop throws away, and the notice for it.
Dropped(bufs)   == IF Len(bufs) > MaxBuffers THEN SubSeq(bufs, 3, Len(bufs)) ELSE <<>>
Announced(bufs) == IF Len(bufs) > MaxBuffers THEN <<Notice(Len(bufs) - 2)>> ELSE <<>>

\* What Data returns is what it kept and the notice; with what it dropped, what
\* it kept is what it had.
LEMMA FormattedParts ==
    ASSUME NEW bufs \in Seq(Seq(LineNo))
    PROVE  /\ Kept(bufs) \in Seq(Seq(LineNo)) /\ Dropped(bufs) \in Seq(Seq(LineNo))
           /\ bufs = Kept(bufs) \o Dropped(bufs)
           /\ Announced(bufs) \in Seq(Int) /\ UpTo(Announced(bufs), 0)
           /\ Formatted(bufs) = FlattenSeq(Kept(bufs)) \o Announced(bufs)
           /\ FlattenSeq(bufs) = FlattenSeq(Kept(bufs)) \o FlattenSeq(Dropped(bufs))
           /\ FlattenSeq(Kept(bufs)) \in Seq(LineNo) /\ FlattenSeq(Dropped(bufs)) \in Seq(LineNo)
           /\ Formatted(bufs) \in Seq(Int)
  <1> DEFINE n == Len(bufs)
             V == Seq(LineNo)
  <1>1. n \in Nat /\ (n > MaxBuffers => n >= 3)
    BY LenProperties, LoggingAssumption
  <1>2. /\ Kept(bufs) \in Seq(V) /\ Dropped(bufs) \in Seq(V)
        /\ bufs = Kept(bufs) \o Dropped(bufs)
    <2>1. CASE n > MaxBuffers
      <3>1. /\ 1 \in Int /\ 2 \in Int /\ 3 \in Int /\ n \in Int
            /\ \A i \in 1 .. 2 : bufs[i] \in V
            /\ \A i \in 3 .. n : bufs[i] \in V
        BY <1>1, <2>1, ElementOfSeq
      <3> HIDE DEF V
      <3>2. SubSeq(bufs, 1, 2) \in Seq(V) /\ SubSeq(bufs, 3, n) \in Seq(V)
        BY <3>1, SubSeqProperties
      <3>3. 1 \in 1 .. n + 1 /\ 2 \in 1 - 1 .. n /\ n \in 2 .. n /\ 2 + 1 = 3
        BY <1>1, <2>1
      <3>4. bufs \in Seq(V)
        BY DEF V
      <3>5. SubSeq(bufs, 1, 2) \o SubSeq(bufs, 2 + 1, n) = SubSeq(bufs, 1, n)
        BY <3>3, <3>4, ConcatAdjacentSubSeq
      <3>6. SubSeq(bufs, 1, n) = bufs
        BY <3>4, SubSeqFull
      <3> QED
        BY <2>1, <3>2, <3>3, <3>5, <3>6 DEF Kept, Dropped
    <2>2. CASE ~(n > MaxBuffers)
      <3>1. bufs \o <<>> = bufs /\ <<>> \in Seq(V)
        BY ConcatEmptySeq, EmptySeq
      <3> QED
        BY <2>2, <3>1 DEF Kept, Dropped
    <2> QED
      BY <2>1, <2>2
  <1>3. Announced(bufs) \in Seq(Int) /\ UpTo(Announced(bufs), 0)
    BY <1>1 DEF Announced, Notice, UpTo
  <1>4. Formatted(bufs) = FlattenSeq(Kept(bufs)) \o Announced(bufs)
    BY DEF Formatted, Announced
  <1>5. FlattenSeq(Kept(bufs)) \in Seq(LineNo) /\ FlattenSeq(Dropped(bufs)) \in Seq(LineNo)
    BY <1>2, FlattenType
  <1>6. FlattenSeq(bufs) = FlattenSeq(Kept(bufs)) \o FlattenSeq(Dropped(bufs))
    <2>1. \A a, b \in Seq(V) : FlattenSeq(a \o b) = FlattenSeq(a) \o FlattenSeq(b)
      BY FlattenConcat
    <2> QED
      BY <1>2, <2>1
  <1>7. FlattenSeq(Kept(bufs)) \in Seq(Int)
    <2>1. LineNo \subseteq Int
      BY DEF LineNo
    <2> QED
      BY <1>5, <2>1, SeqMonotonic
  <1>8. Formatted(bufs) \in Seq(Int)
    BY <1>3, <1>4, <1>7, ConcatProperties
  <1> QED
    BY <1>2, <1>3, <1>4, <1>5, <1>6, <1>8

\* A drop keeps the first two buffers, which is all the recycling needs.
LEMMA KeptEnough ==
    ASSUME NEW bufs \in Seq(Seq(LineNo)), NEW k \in {1, 2}, Len(bufs) >= k
    PROVE  Len(Kept(bufs)) >= k
  <1>1. CASE Len(bufs) > MaxBuffers
    <2>1. Len(bufs) \in Nat /\ Len(bufs) > 1
      BY <1>1, LoggingAssumption
    <2>2. \A i \in 1 .. 2 : bufs[i] \in Seq(LineNo)
      BY <2>1
    <2>3. Len(SubSeq(bufs, 1, 2)) = 2
      BY <2>2, SubSeqProperties
    <2> QED
      BY <1>1, <2>3 DEF Kept
  <1>2. CASE ~(Len(bufs) > MaxBuffers)
    BY <1>2 DEF Kept
  <1> QED
    BY <1>1, <1>2

\* Append takes the spare away only together with queueing a full buffer.
LEMMA AppendStep ==
    ASSUME IInv, AppendLine
    PROVE  IInv'
  <1> USE DEF IInv
  <1>1. count' \in 0 .. MaxLines /\ count + 1 \in LineNo
    BY LoggingAssumption DEF LineNo, AppendLine, TypeOK
  <1>2. CASE Avail > 0 /\ m_curr_buffer' = Append(m_curr_buffer, count + 1)
             /\ UNCHANGED <<m_next_buffer, m_buffers, pc>>
    <2>1. Len(m_curr_buffer') <= BufferSize /\ m_curr_buffer' \in Seq(LineNo)
      BY <1>1, <1>2, LoggingAssumption DEF TypeOK, Avail
    <2> QED
      BY <1>1, <1>2, <2>1 DEF AppendLine, TypeOK, SpareOrBacklog, TakenEnough, Recycled
  <1>3. CASE /\ m_buffers' = Append(m_buffers, m_curr_buffer)
             /\ m_next_buffer' = FALSE
             /\ m_curr_buffer' = <<count + 1>>
             /\ pc' = [r \in Readers |-> IF pc[r] = "waiting" THEN "woken" ELSE pc[r]]
    <2>1. m_buffers' \in Seq(Seq(LineNo)) /\ m_buffers' # <<>>
      BY <1>3, SMTT(30) DEF TypeOK
    <2>2. m_curr_buffer' \in Seq(LineNo) /\ Len(m_curr_buffer') <= BufferSize
      BY <1>1, <1>3, LoggingAssumption
    <2>3. TypeOK'
      BY <1>1, <1>3, <2>1, <2>2 DEF AppendLine, TypeOK
    <2>4. TakenEnough'
      BY <1>3 DEF AppendLine, TypeOK, TakenEnough, Recycled
    <2> QED
      BY <2>1, <2>3, <2>4 DEF SpareOrBacklog
  <1> QED
    BY <1>2, <1>3 DEF AppendLine, AppendLog

\* The swap takes the current buffer and, when the spare is gone, the full one
\* that SpareOrBacklog promises.
LEMMA SwapStep ==
    ASSUME IInv, NEW r \in Readers, Swap(r)
    PROVE  IInv'
  <1> USE DEF IInv
  <1>1. /\ Append(m_buffers, m_curr_buffer) \in Seq(Seq(LineNo))
        /\ Len(Append(m_buffers, m_curr_buffer)) = Len(m_buffers) + 1
        /\ Len(m_buffers) \in Nat /\ (m_buffers # <<>> => Len(m_buffers) > 0)
    BY DEF TypeOK
  <1>2. TypeOK'
    BY <1>1, LoggingAssumption DEF Swap, TypeOK
  <1>3. SpareOrBacklog'
    BY DEF Swap, SpareOrBacklog
  <1>4. TakenEnough'
    <2> SUFFICES ASSUME NEW q \in Readers, pc'[q] = "swapped"
                 PROVE  Len(buffers_write'[q]) >= Recycled(q)'
      BY DEF TakenEnough
    <2>1. CASE q = r
      BY <1>1, <2>1 DEF Swap, TypeOK, SpareOrBacklog, Recycled
    <2>2. CASE q # r
      BY <2>2 DEF Swap, TypeOK, TakenEnough, Recycled
    <2> QED
      BY <2>1, <2>2
  <1> QED
    BY <1>2, <1>3, <1>4

-----------------------------------------------------------------------------
\* Every step keeps the inductive invariant.
THEOREM Invariance == Spec => []IInv
  <1>1. Init => IInv
    BY LoggingAssumption DEF Init, IInv, TypeOK, SpareOrBacklog, TakenEnough
  <1>2. IInv /\ [Next]_vars => IInv'
    <2> SUFFICES ASSUME IInv, [Next]_vars PROVE IInv'
      OBVIOUS
    <2>1. ASSUME NEW r \in Readers, Data(r)
          PROVE  IInv'
      <3>1. CASE pc' = [pc EXCEPT ![r] = "waiting"]
                 /\ UNCHANGED <<logVars, buffers_write, new_buffer2, out>>
        BY <3>1 DEF logVars, IInv, TypeOK, SpareOrBacklog, TakenEnough, Recycled
      <3> QED
        BY <2>1, <3>1, SwapStep DEF Data
    <2>2. ASSUME NEW r \in Readers, FlushInterval(r)
          PROVE  IInv'
      BY <2>2 DEF FlushInterval, logVars, IInv, TypeOK, SpareOrBacklog, TakenEnough, Recycled
    <2>3. ASSUME NEW r \in Readers, Return(r)
          PROVE  IInv'
      <3>1. buffers_write[r] \in Seq(Seq(LineNo)) /\ out[r] \in Seq(Int)
        BY DEF IInv, TypeOK
      <3>2. out[r] \o Formatted(buffers_write[r]) \in Seq(Int)
        BY <3>1, FormattedParts, ConcatProperties
      <3>3. out' \in [Readers -> Seq(Int)]
        BY <2>3, <3>2 DEF Return, IInv, TypeOK
      <3> QED
        BY <2>3, <3>3, EmptySeq DEF Return, logVars, IInv, TypeOK, SpareOrBacklog, TakenEnough, Recycled
    <2>4. CASE UNCHANGED vars
      BY <2>4 DEF vars, logVars, IInv, TypeOK, SpareOrBacklog, TakenEnough, Recycled
    <2> QED
      BY <2>1, <2>2, <2>3, <2>4, AppendStep, SwapStep DEF Next, Woken
  <1> QED
    BY <1>1, <1>2, PTL DEF Spec

\* The variables keep their types.
THEOREM TypeCorrect == Spec => []TypeOK
  BY Invariance, PTL DEF IInv

\* async_logging.cpp:118, :124: pop_back always finds a buffer to recycle.
THEOREM PopBackSafeCorrect == Spec => []PopBackSafe
  <1>1. IInv => PopBackSafe
    <2> SUFFICES ASSUME IInv, NEW r \in Readers, pc[r] = "swapped"
                 PROVE  Len(Kept(buffers_write[r])) >= Recycled(r)
      BY DEF PopBackSafe
    <2>1. buffers_write[r] \in Seq(Seq(LineNo)) /\ Recycled(r) \in {1, 2}
      BY DEF IInv, TypeOK, Recycled
    <2>2. Len(buffers_write[r]) >= Recycled(r)
      BY DEF IInv, TakenEnough
    <2> QED
      BY <2>1, <2>2, KeptEnough
  <1> QED
    BY <1>1, Invariance, PTL

-----------------------------------------------------------------------------
(* AsyncLogging: the order of the lines.                                   *)

\* What is in the queue, and what a reader has got, in order.
Queue   == FlattenSeq(m_buffers) \o m_curr_buffer
Mine(r) == out[r] \o FlattenSeq(buffers_write[r])

\* A reader holds buffers only between the swap and its return.
HoldsInData == \A r \in Readers : pc[r] # "swapped" => buffers_write[r] = <<>>

\* Readers and queue have lines up to count, each in order, and what a reader
\* has got is older than the queue.  The readers' lines are not ordered among
\* each other: that is why each has an order of its own with the queue.
OrderInv ==
    /\ HoldsInData
    /\ Ordered(Queue) /\ UpTo(Queue, count)
    /\ \A r \in Readers :
          Ordered(Mine(r)) /\ UpTo(Mine(r), count) /\ Before(Mine(r), Queue)

\* The types of what OrderInv speaks of.
LEMMA StreamTypes ==
    ASSUME IInv
    PROVE  /\ FlattenSeq(m_buffers) \in Seq(LineNo) /\ Queue \in Seq(LineNo) /\ Queue \in Seq(Int)
           /\ \A r \in Readers :
                /\ FlattenSeq(buffers_write[r]) \in Seq(LineNo)
                /\ FlattenSeq(buffers_write[r]) \in Seq(Int)
                /\ Mine(r) \in Seq(Int)
  <1>1. FlattenSeq(m_buffers) \in Seq(LineNo) /\ m_curr_buffer \in Seq(LineNo)
    BY FlattenType DEF IInv, TypeOK
  <1>2. Queue \in Seq(LineNo)
    BY <1>1, ConcatProperties DEF Queue
  <1>3. LineNo \subseteq Int
    BY DEF LineNo
  <1>4. \A s \in Seq(LineNo) : s \in Seq(Int)
    BY <1>3, SeqMonotonic
  <1>5. ASSUME NEW r \in Readers
        PROVE  /\ FlattenSeq(buffers_write[r]) \in Seq(LineNo)
               /\ FlattenSeq(buffers_write[r]) \in Seq(Int)
               /\ Mine(r) \in Seq(Int)
    <2>1. buffers_write[r] \in Seq(Seq(LineNo)) /\ out[r] \in Seq(Int)
      BY DEF IInv, TypeOK
    <2>2. FlattenSeq(buffers_write[r]) \in Seq(LineNo)
      BY <2>1, FlattenType
    <2>3. FlattenSeq(buffers_write[r]) \in Seq(Int)
      BY <1>4, <2>2
    <2> QED
      BY <2>1, <2>2, <2>3, ConcatProperties DEF Mine
  <1> QED
    BY <1>1, <1>2, <1>4, <1>5

\* Append adds its line at the end of the queue, in whichever buffer.
LEMMA AppendEffect ==
    ASSUME IInv, AppendLine
    PROVE  /\ Queue' = Queue \o <<count + 1>>
           /\ \A r \in Readers : Mine(r)' = Mine(r)
           /\ count' = count + 1 /\ count \in Nat
  <1> DEFINE l == count + 1
             F == FlattenSeq(m_buffers)
  <1>1. count \in Nat /\ <<l>> \in Seq(LineNo) /\ l \in LineNo
    BY LoggingAssumption DEF LineNo, IInv, TypeOK
  <1>2. F \in Seq(LineNo) /\ m_curr_buffer \in Seq(LineNo) /\ m_buffers \in Seq(Seq(LineNo))
    BY StreamTypes DEF IInv, TypeOK
  <1>3. \A r \in Readers : Mine(r)' = Mine(r)
    BY DEF AppendLine, Mine
  <1>4. CASE m_curr_buffer' = Append(m_curr_buffer, l) /\ m_buffers' = m_buffers
    <2>1. Append(m_curr_buffer, l) = m_curr_buffer \o <<l>>
      BY <1>1, <1>2, AppendIsConcat
    <2>2. \A a, b, c \in Seq(LineNo) : (a \o b) \o c = a \o (b \o c)
      BY ConcatAssociative, SMTT(30)
    <2>3. F' = F
      BY <1>4
    <2> HIDE DEF F, l
    <2>4. (F \o m_curr_buffer) \o <<l>> = F \o (m_curr_buffer \o <<l>>)
      BY <1>1, <1>2, <2>2
    <2>5. Queue = F \o m_curr_buffer /\ Queue' = F' \o m_curr_buffer'
      BY DEF Queue, F
    <2>6. Queue' = Queue \o <<l>>
      BY <1>4, <2>1, <2>3, <2>4, <2>5
    <2> QED
      BY <1>1, <1>3, <2>6 DEF AppendLine, l
  <1>5. CASE m_buffers' = Append(m_buffers, m_curr_buffer) /\ m_curr_buffer' = <<l>>
    <2>1. FlattenSeq(Append(m_buffers, m_curr_buffer)) = F \o m_curr_buffer
      BY <1>2, FlattenAppend
    <2>2. Queue' = (F \o m_curr_buffer) \o <<l>>
      BY <1>5, <2>1 DEF Queue
    <2> QED
      BY <1>1, <1>3, <2>2 DEF AppendLine, Queue
  <1> QED
    BY <1>4, <1>5 DEF AppendLine, AppendLog

\* The swap moves the whole queue to the reader.
LEMMA SwapEffect ==
    ASSUME IInv, HoldsInData, NEW r \in Readers, pc[r] # "swapped", Swap(r)
    PROVE  /\ Queue' = <<>>
           /\ Mine(r)' = Mine(r) \o Queue
           /\ \A q \in Readers : q # r => Mine(q)' = Mine(q)
           /\ HoldsInData' /\ count' = count
  <1>1. /\ buffers_write[r] = <<>> /\ out' = out /\ count' = count
        /\ buffers_write'[r] = Append(m_buffers, m_curr_buffer)
        /\ \A q \in Readers : q # r => buffers_write'[q] = buffers_write[q]
        /\ m_buffers' = <<>> /\ m_curr_buffer' = <<>>
    BY DEF IInv, TypeOK, HoldsInData, Swap
  <1>2. m_curr_buffer \in Seq(LineNo) /\ m_buffers \in Seq(Seq(LineNo)) /\ FlattenSeq(m_buffers) \in Seq(LineNo)
    BY StreamTypes DEF IInv, TypeOK
  <1>3. FlattenSeq(Append(m_buffers, m_curr_buffer)) = Queue
    BY <1>2, FlattenAppend DEF Queue
  <1>4. Mine(r)' = Mine(r) \o Queue
    <2>1. Mine(r) = out[r]
      <3>1. out[r] \in Seq(Int)
        BY DEF IInv, TypeOK
      <3> QED
        BY <1>1, <3>1, FlattenEmpty, ConcatEmptySeq DEF Mine
    <2> QED
      BY <1>1, <1>3, <2>1 DEF Mine
  <1>5. Queue' = <<>>
    <2>1. <<>> \o <<>> = <<>>
      BY ConcatEmptySeq, EmptySeq
    <2> QED
      BY <1>1, <2>1, FlattenEmpty DEF Queue
  <1>6. \A q \in Readers : q # r => Mine(q)' = Mine(q)
    BY <1>1 DEF Mine
  <1>7. HoldsInData'
    BY <1>1 DEF IInv, TypeOK, HoldsInData, Swap
  <1> QED
    BY <1>1, <1>4, <1>5, <1>6, <1>7

\* A return replaces what it drops, at the end of what the reader has, by the
\* notice.
LEMMA ReturnEffect ==
    ASSUME IInv, HoldsInData, NEW r \in Readers, Return(r)
    PROVE  LET bufs == buffers_write[r]
               got  == out[r] \o FlattenSeq(Kept(bufs))
           IN  /\ got \in Seq(Int) /\ FlattenSeq(Dropped(bufs)) \in Seq(Int)
               /\ Announced(bufs) \in Seq(Int) /\ UpTo(Announced(bufs), 0)
               /\ Mine(r) = got \o FlattenSeq(Dropped(bufs))
               /\ Mine(r)' = got \o Announced(bufs)
               /\ \A q \in Readers : q # r => Mine(q)' = Mine(q)
               /\ Queue' = Queue /\ HoldsInData' /\ count' = count
  <1> DEFINE bufs == buffers_write[r]
             K == FlattenSeq(Kept(bufs))
             D == FlattenSeq(Dropped(bufs))
             N == Announced(bufs)
  <1>1. bufs \in Seq(Seq(LineNo)) /\ out[r] \in Seq(Int)
    BY DEF IInv, TypeOK
  <1>2. \A s \in Seq(LineNo) : s \in Seq(Int)
    <2>1. LineNo \subseteq Int
      BY DEF LineNo
    <2> QED
      BY <2>1, SeqMonotonic
  <1>3. /\ K \in Seq(Int) /\ D \in Seq(Int) /\ N \in Seq(Int) /\ UpTo(N, 0)
        /\ Formatted(bufs) = K \o N /\ FlattenSeq(bufs) = K \o D
    BY <1>1, <1>2, FormattedParts
  <1>4. \A a, b, c \in Seq(Int) : (a \o b) \o c = a \o (b \o c)
    BY ConcatAssociative, SMTT(30)
  <1>5. /\ out'[r] = out[r] \o Formatted(bufs) /\ buffers_write'[r] = <<>>
        /\ \A q \in Readers : q # r => out'[q] = out[q] /\ buffers_write'[q] = buffers_write[q]
        /\ UNCHANGED logVars
    BY DEF Return, IInv, TypeOK
  <1>6. Mine(r) = out[r] \o FlattenSeq(bufs) /\ Mine(r)' = out'[r] \o FlattenSeq(buffers_write'[r])
    BY DEF Mine
  <1>7. \A q \in Readers : q # r => Mine(q)' = Mine(q)
    BY <1>5 DEF Mine
  <1>8. Queue' = Queue /\ count' = count
    BY <1>5 DEF Queue, logVars
  <1>9. HoldsInData'
    BY <1>5 DEF HoldsInData, Return, IInv, TypeOK
  <1> HIDE DEF K, D, N, bufs
  <1>10. Mine(r) = (out[r] \o K) \o D
    <2>1. (out[r] \o K) \o D = out[r] \o (K \o D)
      BY <1>1, <1>3, <1>4
    <2> QED
      BY <1>3, <1>6, <2>1
  <1>11. Mine(r)' = (out[r] \o K) \o N
    <2>1. (out[r] \o K) \o N = out[r] \o (K \o N)
      BY <1>1, <1>3, <1>4
    <2>2. out'[r] \in Seq(Int)
      BY <1>1, <1>3, <1>5, ConcatProperties
    <2>3. out'[r] \o <<>> = out'[r]
      BY <2>2, ConcatEmptySeq
    <2> QED
      BY <1>3, <1>5, <1>6, <2>1, <2>3, FlattenEmpty
  <1>12. out[r] \o K \in Seq(Int)
    BY <1>1, <1>3, ConcatProperties
  <1> QED
    BY <1>3, <1>7, <1>8, <1>9, <1>10, <1>11, <1>12 DEF K, D, N, bufs

\* Every step keeps the order.
LEMMA OrderStep ==
    ASSUME IInv, OrderInv, [Next]_vars
    PROVE  OrderInv'
  <1> USE DEF OrderInv
  <1>1. Queue \in Seq(Int) /\ (\A r \in Readers : Mine(r) \in Seq(Int)) /\ count \in Int
    BY StreamTypes, LoggingAssumption DEF IInv, TypeOK
  <1>2. ASSUME AppendLine PROVE OrderInv'
    <2>1. /\ Queue' = Queue \o <<count + 1>> /\ (\A r \in Readers : Mine(r)' = Mine(r))
          /\ count' = count + 1
      BY <1>2, AppendEffect
    <2> DEFINE e == <<count + 1>>
    <2>2. /\ e \in Seq(Int) /\ Ordered(e) /\ UpTo(e, count + 1)
      BY <1>1 DEF Ordered, UpTo
    <2>3. ASSUME NEW s \in Seq(Int), UpTo(s, count)
          PROVE  Before(s, e) /\ UpTo(s, count + 1)
      <3>1. \A i \in DOMAIN s : s[i] \in Int /\ s[i] <= count
        BY <2>3, LenProperties, ElementOfSeq DEF UpTo
      <3>2. DOMAIN e = {1} /\ e[1] = count + 1
        OBVIOUS
      <3> HIDE DEF e
      <3> QED
        BY <1>1, <3>1, <3>2 DEF Before, UpTo
    <2> HIDE DEF e
    <2>4. Ordered(Queue \o e) /\ UpTo(Queue \o e, count + 1)
      <3>1. Before(Queue, e) /\ UpTo(Queue, count + 1)
        BY <1>1, <2>3
      <3>2. count + 1 \in Int
        BY <1>1
      <3> QED
        BY <1>1, <2>2, <3>1, <3>2, OrderedConcat, BeforeConcat
    <2>5. ASSUME NEW r \in Readers
          PROVE  Before(Mine(r), Queue \o e) /\ UpTo(Mine(r), count + 1)
      <3>1. Before(Mine(r), e) /\ UpTo(Mine(r), count + 1)
        BY <1>1, <2>3
      <3> QED
        BY <1>1, <2>2, <3>1, BeforeConcat
    <2>6. HoldsInData'
      BY <1>2 DEF AppendLine, AppendLog, HoldsInData, IInv, TypeOK
    <2>7. Queue' = Queue \o e
      BY <2>1 DEF e
    <2> QED
      BY <2>1, <2>4, <2>5, <2>6, <2>7
  <1>3. ASSUME NEW r \in Readers, pc[r] # "swapped", Swap(r) PROVE OrderInv'
    <2>1. /\ Queue' = <<>> /\ Mine(r)' = Mine(r) \o Queue
          /\ \A q \in Readers : q # r => Mine(q)' = Mine(q)
          /\ HoldsInData' /\ count' = count
      BY <1>3, SwapEffect
    <2>2. Ordered(<<>>) /\ UpTo(<<>>, count) /\ \A s : Before(s, <<>>)
      BY DEF Ordered, UpTo, Before
    <2>3. Ordered(Mine(r) \o Queue) /\ UpTo(Mine(r) \o Queue, count)
      BY <1>1, OrderedConcat, BeforeConcat
    <2>4. \A q \in Readers :
             Ordered(Mine(q)') /\ UpTo(Mine(q)', count) /\ Before(Mine(q)', <<>>)
      BY <2>1, <2>2, <2>3
    <2> QED
      BY <2>1, <2>2, <2>4
  <1>4. ASSUME NEW r \in Readers, Return(r) PROVE OrderInv'
    <2> DEFINE got == out[r] \o FlattenSeq(Kept(buffers_write[r]))
               D   == FlattenSeq(Dropped(buffers_write[r]))
               N   == Announced(buffers_write[r])
    <2>1. /\ got \in Seq(Int) /\ D \in Seq(Int) /\ N \in Seq(Int) /\ UpTo(N, 0)
          /\ Mine(r) = got \o D /\ Mine(r)' = got \o N
          /\ \A q \in Readers : q # r => Mine(q)' = Mine(q)
          /\ Queue' = Queue /\ HoldsInData' /\ count' = count
      BY <1>4, ReturnEffect
    <2> HIDE DEF got, D, N
    <2>2. Ordered(got) /\ UpTo(got, count) /\ Before(got, Queue)
      <3>1. Ordered(got \o D) /\ UpTo(got \o D, count) /\ Before(got \o D, Queue)
        BY <2>1, Zenon
      <3>2. Ordered(got)
        BY <2>1, <3>1, OrderedConcat
      <3> QED
        BY <1>1, <2>1, <3>1, <3>2, BeforeConcat
    <2>3. \A i \in DOMAIN N : N[i] \in Int /\ N[i] <= 0
      BY <2>1, LenProperties, ElementOfSeq DEF UpTo
    <2>4. Ordered(N) /\ UpTo(N, count) /\ Before(got, N) /\ Before(N, Queue)
      <3>1. count >= 0
        BY LoggingAssumption DEF IInv, TypeOK
      <3>2. \A i \in DOMAIN N : ~(N[i] > 0) /\ N[i] <= count
        BY <1>1, <2>3, <3>1
      <3> QED
        BY <3>2, Zenon DEF Ordered, UpTo, Before
    <2>5. Ordered(got \o N) /\ UpTo(got \o N, count) /\ Before(got \o N, Queue)
      BY <1>1, <2>1, <2>2, <2>4, OrderedConcat, BeforeConcat
    <2> QED
      BY <2>1, <2>5
  <1>5. ASSUME UNCHANGED <<logVars, buffers_write, out>>, HoldsInData'
        PROVE  OrderInv'
    <2>1. Queue' = Queue /\ count' = count /\ \A r \in Readers : Mine(r)' = Mine(r)
      BY <1>5 DEF logVars, Queue, Mine
    <2> QED
      BY <1>5, <2>1
  <1>6. ASSUME NEW r \in Readers, Data(r) \/ FlushInterval(r), ~Swap(r) PROVE OrderInv'
    <2>1. UNCHANGED <<logVars, buffers_write, out>> /\ pc[r] # "swapped"
          /\ (pc' = [pc EXCEPT ![r] = "waiting"] \/ pc' = [pc EXCEPT ![r] = "woken"])
      BY <1>6, Zenon DEF Data, FlushInterval
    <2>2. HoldsInData'
      BY <2>1 DEF HoldsInData, IInv, TypeOK
    <2> QED
      BY <1>5, <2>1, <2>2
  <1>7. ASSUME UNCHANGED vars PROVE OrderInv'
    BY <1>5, <1>7 DEF vars, HoldsInData
  <1> QED
    BY <1>2, <1>3, <1>4, <1>6, <1>7 DEF Next, Woken, Data, FlushInterval

\* OrderInv holds: what it takes for the lines to come in order.
THEOREM Ordering == Spec => []OrderInv
  <1>1. Init => OrderInv
    <2> SUFFICES ASSUME Init PROVE OrderInv
      OBVIOUS
    <2>1. <<>> \o <<>> = <<>>
      BY ConcatEmptySeq, EmptySeq
    <2>2. Queue = <<>> /\ \A r \in Readers : Mine(r) = <<>>
      BY <2>1, FlattenEmpty DEF Init, Queue, Mine
    <2>3. /\ Ordered(<<>>) /\ UpTo(<<>>, count) /\ Before(<<>>, <<>>)
      BY DEF Ordered, UpTo, Before
    <2>4. HoldsInData
      BY DEF Init, HoldsInData
    <2> QED
      BY <2>2, <2>3, <2>4 DEF OrderInv
  <1>2. IInv /\ OrderInv /\ [Next]_vars => OrderInv'
    BY OrderStep
  <1> QED
    BY <1>1, <1>2, Invariance, PTL DEF Spec

\* async_logging.cpp:87-89: every reader gets its lines in the order they were
\* appended, none twice, and none younger than one that is still queued.
THEOREM InOrderCorrect == Spec => []InOrder
  <1>1. IInv /\ OrderInv => InOrder
    <2> SUFFICES ASSUME IInv, OrderInv, NEW r \in Readers PROVE Ordered(Stream(r))
      BY DEF InOrder
    <2>1. Queue \in Seq(Int) /\ Mine(r) \in Seq(Int)
      BY StreamTypes
    <2>2. Ordered(Mine(r) \o Queue)
      BY <2>1, OrderedConcat DEF OrderInv
    <2>3. Stream(r) = Mine(r) \o Queue
      <3> DEFINE F == FlattenSeq(m_buffers)
      <3>1. \A a, b, c \in Seq(Int) : (a \o b) \o c = a \o (b \o c)
        BY ConcatAssociative, SMTT(30)
      <3>2. F \in Seq(Int) /\ m_curr_buffer \in Seq(Int)
        <4>1. F \in Seq(LineNo) /\ m_curr_buffer \in Seq(LineNo) /\ LineNo \subseteq Int
          BY StreamTypes DEF LineNo, IInv, TypeOK
        <4> QED
          BY <4>1, SeqMonotonic
      <3>3. Stream(r) = (Mine(r) \o F) \o m_curr_buffer /\ Queue = F \o m_curr_buffer
        BY DEF Stream, Mine, Queue
      <3> HIDE DEF F
      <3>4. (Mine(r) \o F) \o m_curr_buffer = Mine(r) \o (F \o m_curr_buffer)
        BY <2>1, <3>1, <3>2
      <3> QED
        BY <3>3, <3>4
    <2> QED
      BY <2>2, <2>3
  <1> QED
    BY <1>1, Invariance, Ordering, PTL

-----------------------------------------------------------------------------
(* AsyncLogging: the lines that are lost.                                  *)

\* The lines of a concatenation.
LEMMA LinesConcat ==
    ASSUME NEW s \in Seq(Int), NEW t \in Seq(Int)
    PROVE  Lines(s \o t) = Lines(s) \cup Lines(t)
  <1>1. Range(s \o t) = Range(s) \cup Range(t)
    BY RangeConcatenation
  <1>2. \A u : ToSet(u) = Range(u)
    BY DEF ToSet, Range
  <1>3. ToSet(s \o t) = ToSet(s) \cup ToSet(t)
    BY <1>1, <1>2
  <1> QED
    BY <1>3 DEF Lines

\* Older lines are other lines.
LEMMA BeforeApart ==
    ASSUME NEW s \in Seq(Int), NEW t \in Seq(Int), Before(s, t)
    PROVE  Lines(s) \cap Lines(t) = {}
  <1> SUFFICES ASSUME NEW l \in Lines(s), l \in Lines(t) PROVE FALSE
    OBVIOUS
  <1>1. PICK i \in DOMAIN s, j \in DOMAIN t : s[i] = l /\ t[j] = l /\ l > 0
    BY DEF Lines, ToSet
  <1>2. s[i] \in Int
    BY LenProperties
  <1>3. s[i] < t[j]
    BY <1>1 DEF Before
  <1> QED
    BY <1>1, <1>2, <1>3

\* Lines in order are different lines.
LEMMA OrderedCount ==
    ASSUME NEW s \in Seq(LineNo), Ordered(s)
    PROVE  IsFiniteSet(Lines(s)) /\ Cardinality(Lines(s)) = Len(s)
  <1>1. Len(s) \in Nat /\ DOMAIN s = 1 .. Len(s) /\ \A i \in 1 .. Len(s) : s[i] \in Int /\ s[i] > 0
    BY LenProperties, ElementOfSeq DEF LineNo
  <1>2. s \in Bijection(1 .. Len(s), Lines(s))
    <2>1. s \in [1 .. Len(s) -> Lines(s)]
      <3>1. \A i \in 1 .. Len(s) : s[i] \in Lines(s)
        BY <1>1 DEF Lines, ToSet
      <3>2. s = [i \in 1 .. Len(s) |-> s[i]]
        BY LenProperties
      <3> QED
        BY <3>1, <3>2
    <2>2. \A i, j \in 1 .. Len(s) : s[i] = s[j] => i = j
      <3> SUFFICES ASSUME NEW i \in 1 .. Len(s), NEW j \in 1 .. Len(s), i < j PROVE s[i] # s[j]
        BY <1>1
      <3>1. s[i] < s[j]
        BY <1>1 DEF Ordered
      <3> QED
        BY <1>1, <3>1
    <2>3. \A l \in Lines(s) : \E i \in 1 .. Len(s) : s[i] = l
      BY <1>1 DEF Lines, ToSet
    <2> QED
      BY <2>1, <2>2, <2>3 DEF Bijection, Injection, IsInjective, Surjection
  <1>3. ExistsBijection(1 .. Len(s), Lines(s))
    BY <1>2 DEF ExistsBijection
  <1> QED
    BY <1>1, <1>3, FS_NatBijection, FS_CountingElements

\* The lines of full buffers.
LEMMA FlattenFull ==
    ASSUME NEW b \in Nat, NEW bufs \in Seq(Seq(LineNo)), \A i \in 1 .. Len(bufs) : Len(bufs[i]) = b
    PROVE  Len(FlattenSeq(bufs)) = b * Len(bufs)
  <1> DEFINE V == Seq(LineNo)
             T == {s \in Seq(V) : (\A i \in 1 .. Len(s) : Len(s[i]) = b)
                                     => Len(FlattenSeq(s)) = b * Len(s)}
  <1>1. <<>> \in T
    <2>1. <<>> \in Seq(V) /\ Len(<<>>) = 0 /\ FlattenSeq(<<>>) = <<>> /\ b * 0 = 0
      BY EmptySeq, FlattenEmpty
    <2> QED
      BY <2>1
  <1>2. ASSUME NEW s \in Seq(V), NEW e \in V, s \in T PROVE Append(s, e) \in T
    <2> DEFINE u == Append(s, e)
    <2>1. /\ u \in Seq(V) /\ Len(u) = Len(s) + 1 /\ Len(s) \in Nat
          /\ \A i \in 1 .. Len(s) : u[i] = s[i]
          /\ u[Len(s) + 1] = e
      BY AppendProperties, LenProperties
    <2>2. FlattenSeq(s) \in Seq(LineNo)
      BY FlattenType
    <2>3. Len(FlattenSeq(u)) = Len(FlattenSeq(s)) + Len(e)
      <3>1. FlattenSeq(u) = FlattenSeq(s) \o e
        BY <2>2, FlattenAppend
      <3>2. \A x, y \in Seq(LineNo) : Len(x \o y) = Len(x) + Len(y)
        BY ConcatProperties
      <3> QED
        BY <2>2, <3>1, <3>2
    <2> HIDE DEF u
    <2> SUFFICES ASSUME \A i \in 1 .. Len(u) : Len(u[i]) = b
                 PROVE  Len(FlattenSeq(u)) = b * Len(u)
      BY <2>1 DEF u
    <2>4. Len(e) = b
      <3>1. Len(s) + 1 \in 1 .. Len(u)
        BY <2>1
      <3> QED
        BY <2>1, <3>1
    <2>5. \A i \in 1 .. Len(s) : Len(s[i]) = b
      <3> SUFFICES ASSUME NEW i \in 1 .. Len(s) PROVE Len(s[i]) = b
        OBVIOUS
      <3>1. i \in 1 .. Len(u) /\ u[i] = s[i]
        BY <2>1
      <3> QED
        BY <3>1
    <2>6. Len(FlattenSeq(s)) = b * Len(s)
      BY <1>2, <2>5
    <2>7. b * (Len(s) + 1) = b * Len(s) + b
      BY <2>1
    <2> QED
      BY <2>1, <2>3, <2>4, <2>6, <2>7
  <1>3. Seq(V) \subseteq T
    <2> HIDE DEF T, V
    <2> QED
      BY <1>1, <1>2, SeqInduction
  <1> QED
    BY <1>3

\* Buffers are queued when they are full; of those a reader took only the last
\* can have room.
Filled(bufs) ==
    \A i \in 1 .. Len(bufs) :
        Len(bufs[i]) <= BufferSize /\ (i < Len(bufs) => Len(bufs[i]) = BufferSize)

FullInv ==
    /\ \A i \in 1 .. Len(m_buffers) : Len(m_buffers[i]) = BufferSize
    /\ \A r \in Readers : Filled(buffers_write[r])

\* No two readers have got the same line.
ApartInv == \A q, r \in Readers : q # r => Lines(Mine(q)) \cap Lines(Mine(r)) = {}

\* The lines that are neither queued nor with a reader.
Gone == {l \in 1 .. count : l \notin Lines(Queue) /\ \A r \in Readers : l \notin Lines(Mine(r))}

\* The notices of an output, and what those in S announce.
NoticesOf(o) == UNION {{<<r, i>> : i \in {j \in DOMAIN o[r] : o[r][j] < 0}} : r \in Readers}
Sum(o, S)    == MapThenSumSet(LAMBDA n : -o[n[1]][n[2]], S)

\* The account: a buffer announced as dropped held BufferSize lines, except
\* the last one of a notice, which may have held fewer.
Accounted(gone, sum, notices) ==
    gone <= BufferSize * sum /\ gone >= BufferSize * (sum - notices)

DropInv ==
    /\ FullInv /\ ApartInv
    /\ IsFiniteSet(NoticesOf(out)) /\ IsFiniteSet(Gone)
    /\ Accounted(Cardinality(Gone), Sum(out, NoticesOf(out)), Cardinality(NoticesOf(out)))

\* Of the buffers dropped, all but the last were full.
LEMMA DroppedLength ==
    ASSUME NEW bufs \in Seq(Seq(LineNo)), Len(bufs) > MaxBuffers, Filled(bufs)
    PROVE  LET n == Len(bufs)
               d == Len(FlattenSeq(Dropped(bufs)))
           IN  /\ n \in Nat /\ n >= 3 /\ d \in Nat
               /\ BufferSize * (n - 3) <= d /\ d <= BufferSize * (n - 2)
  <1> DEFINE n == Len(bufs)
             V == Seq(LineNo)
             full == SubSeq(bufs, 3, n - 1)
  <1>1. n \in Nat /\ n >= 3 /\ BufferSize \in Nat
    BY LenProperties, LoggingAssumption
  <1>2. \A i \in 1 .. n : bufs[i] \in V
    BY ElementOfSeq
  <1>3. /\ full \in Seq(V) /\ Len(full) = n - 3
        /\ \A i \in 1 .. n - 3 : full[i] = bufs[i + 2]
    <2>1. 3 \in Int /\ n - 1 \in Int /\ \A i \in 3 .. n - 1 : bufs[i] \in V
      BY <1>1, <1>2
    <2> HIDE DEF V
    <2>2. /\ full \in Seq(V) /\ Len(full) = IF 3 <= n - 1 THEN (n - 1) - 3 + 1 ELSE 0
          /\ \A i \in 1 .. (n - 1) - 3 + 1 : full[i] = bufs[3 + i - 1]
      BY <2>1, SubSeqProperties
    <2> HIDE DEF full
    <2>3. Len(full) = n - 3
      <3> HIDE DEF n
      <3>1. Len(full) = IF 3 <= n - 1 THEN (n - 1) - 3 + 1 ELSE 0
        BY <2>2
      <3> QED
        BY <1>1, <3>1
    <2>4. \A i \in 1 .. n - 3 : i \in 1 .. (n - 1) - 3 + 1 /\ 3 + i - 1 = i + 2
      BY <1>1
    <2> QED
      BY <2>2, <2>3, <2>4
  <1>4. Dropped(bufs) = Append(full, bufs[n])
    <2>1. 3 \in 1 .. n /\ n \in 3 .. n
      BY <1>1
    <2>2. SubSeq(bufs, 3, n) = full \o <<bufs[n]>>
      BY <2>1, SubSeqRecursiveSecond
    <2>3. n \in 1 .. n
      BY <1>1
    <2>4. bufs[n] \in V
      BY <1>2, <2>3
    <2> HIDE DEF full, V
    <2>5. Append(full, bufs[n]) = full \o <<bufs[n]>>
      BY <1>3, <2>4, AppendIsConcat
    <2> QED
      BY <2>2, <2>5 DEF Dropped
  <1> HIDE DEF full
  <1>5. Len(FlattenSeq(full)) = BufferSize * (n - 3)
    <2>1. ASSUME NEW i \in 1 .. Len(full) PROVE Len(full[i]) = BufferSize
      <3>1. i + 2 \in 1 .. n /\ i + 2 < n /\ i \in 1 .. n - 3
        BY <1>1, <1>3
      <3>2. full[i] = bufs[i + 2]
        BY <1>3, <3>1
      <3> QED
        BY <3>1, <3>2 DEF Filled
    <2> QED
      BY <1>1, <1>3, <2>1, FlattenFull
  <1>6. n \in 1 .. n
    BY <1>1
  <1>7. bufs[n] \in Seq(LineNo) /\ Len(bufs[n]) \in Nat /\ Len(bufs[n]) <= BufferSize
    <2>1. bufs[n] \in Seq(LineNo)
      BY <1>2, <1>6
    <2> QED
      BY <1>6, <2>1, LenProperties DEF Filled
  <1>8. /\ FlattenSeq(full) \in Seq(LineNo)
        /\ FlattenSeq(Append(full, bufs[n])) = FlattenSeq(full) \o bufs[n]
    BY <1>3, <1>7, FlattenType, FlattenAppend
  <1>9. Len(FlattenSeq(full) \o bufs[n]) = Len(FlattenSeq(full)) + Len(bufs[n])
    <2>1. \A x, y \in Seq(LineNo) : Len(x \o y) = Len(x) + Len(y)
      BY ConcatProperties
    <2> QED
      BY <1>7, <1>8, <2>1
  <1>10. Len(FlattenSeq(Dropped(bufs))) = BufferSize * (n - 3) + Len(bufs[n])
    BY <1>4, <1>5, <1>8, <1>9
  <1>11. BufferSize * (n - 2) = BufferSize * (n - 3) + BufferSize /\ BufferSize * (n - 3) \in Nat
    BY <1>1
  <1> HIDE DEF n
  <1> DEFINE d == Len(FlattenSeq(Dropped(bufs)))
             e == Len(bufs[n])
             p == BufferSize * (n - 3)
             q == BufferSize * (n - 2)
  <1>12. d \in Nat /\ p <= d /\ d <= q
    <2>1. d = p + e /\ q = p + BufferSize /\ p \in Nat /\ e \in Nat /\ e <= BufferSize
      BY <1>7, <1>10, <1>11
    <2> HIDE DEF d, e, p, q
    <2> QED
      BY <1>1, <2>1
  <1> QED
    BY <1>1, <1>12 DEF n

\* What is missing is neither queued nor with a reader.
LEMMA MissingIs ==
    ASSUME IInv
    PROVE  Missing = Gone
  <1>1. /\ FlattenSeq(m_buffers) \in Seq(Int) /\ m_curr_buffer \in Seq(Int) /\ count \in Nat
        /\ \A r \in Readers : out[r] \in Seq(Int) /\ FlattenSeq(buffers_write[r]) \in Seq(Int)
    <2>1. LineNo \subseteq Int /\ FlattenSeq(m_buffers) \in Seq(LineNo) /\ m_curr_buffer \in Seq(LineNo)
      BY StreamTypes DEF IInv, TypeOK, LineNo
    <2>2. FlattenSeq(m_buffers) \in Seq(Int) /\ m_curr_buffer \in Seq(Int)
      BY <2>1, SeqMonotonic
    <2> QED
      BY <2>2, StreamTypes, LoggingAssumption DEF IInv, TypeOK
  <1>2. Lines(Queue) = Lines(FlattenSeq(m_buffers)) \cup Lines(m_curr_buffer)
    BY <1>1, LinesConcat DEF Queue
  <1>3. \A r \in Readers : Lines(Mine(r)) = Lines(out[r]) \cup Lines(FlattenSeq(buffers_write[r]))
    BY <1>1, LinesConcat DEF Mine
  <1>4. \A l \in 1 .. count : \A s : l \in ToSet(s) <=> l \in Lines(s)
    BY <1>1 DEF Lines
  <1>5. ASSUME NEW l \in 1 .. count
        PROVE  l \in Missing <=> l \notin Lines(Queue) /\ \A r \in Readers : l \notin Lines(Mine(r))
    <2>1. l \in Pending <=> l \in Lines(Queue)
      BY <1>2, <1>4 DEF Pending
    <2>2. ASSUME NEW r \in Readers
          PROVE  l \in InFlight(r) \cup Lines(out[r]) <=> l \in Lines(Mine(r))
      BY <1>3, <1>4 DEF InFlight
    <2>3. l \in Missing <=> l \notin Pending
                             /\ \A r \in Readers : l \notin InFlight(r) \cup Lines(out[r])
      BY DEF Missing
    <2> QED
      BY <2>1, <2>2, <2>3
  <1>6. Missing \subseteq 1 .. count
    BY DEF Missing
  <1> QED
    BY <1>5, <1>6 DEF Gone

\* The sum is one of the recursion, over the values of a function.
LEMMA SumIs ==
    ASSUME NEW o, NEW S, IsFiniteSet(S)
    PROVE  \E it : Sums(it, [n \in S |-> -o[n[1]][n[2]]], S) /\ Sum(o, S) = it[S]
  <1> DEFINE g == [n \in S |-> -o[n[1]][n[2]]]
             pick(s) == CHOOSE x \in s : TRUE
             Q(it) == it = [s \in SUBSET S |->
                               IF s = {} THEN 0
                               ELSE -o[pick(s)[1]][pick(s)[2]] + it[s \ {pick(s)}]]
  <1>1. \A s \in SUBSET S : s # {} => pick(s) \in S
    OBVIOUS
  <1>2. ASSUME NEW it PROVE Sums(it, g, S) <=> Q(it)
    BY <1>1 DEF Sums
  <1>3. Sum(o, S) = (CHOOSE it : Q(it))[S]
    BY DEF Sum, MapThenSumSet, MapThenFoldSet
  <1>4. \E it : Sums(it, g, S)
    BY SumsExists
  <1> HIDE DEF Q, g
  <1>5. Q(CHOOSE it : Q(it))
    BY <1>2, <1>4
  <1> QED
    BY <1>2, <1>3, <1>5 DEF g

\* What NoticesOf holds.
LEMMA NoticeIn ==
    ASSUME NEW o
    PROVE  /\ \A r \in Readers : \A i : <<r, i>> \in NoticesOf(o) <=> i \in DOMAIN o[r] /\ o[r][i] < 0
           /\ \A x \in NoticesOf(o) : \E r \in Readers : \E i : x = <<r, i>>
  <1>1. \A x : x \in NoticesOf(o) <=> \E r \in Readers : \E i \in DOMAIN o[r] : o[r][i] < 0 /\ x = <<r, i>>
    BY DEF NoticesOf
  <1>2. \A r \in Readers : \A i : <<r, i>> \in NoticesOf(o) <=> i \in DOMAIN o[r] /\ o[r][i] < 0
    BY <1>1
  <1>3. \A x \in NoticesOf(o) : \E r \in Readers : \E i : x = <<r, i>>
    BY <1>1
  <1> QED
    BY <1>2, <1>3

\* Output is only added; S are the notices in what is added.
Grown(o, p, S) ==
    /\ \A r \in Readers : \A i \in DOMAIN o[r] : i \in DOMAIN p[r] /\ p[r][i] = o[r][i]
    /\ NoticesOf(p) = NoticesOf(o) \cup S /\ NoticesOf(o) \cap S = {}

\* The sum grows by what the new notices announce.
LEMMA SumGrows ==
    ASSUME NEW o, NEW p, NEW S, Grown(o, p, S), IsFiniteSet(NoticesOf(o)),
           \A r \in Readers : \A i \in DOMAIN p[r] : p[r][i] \in Int
    PROVE  /\ Sum(o, NoticesOf(o)) \in Int /\ Cardinality(NoticesOf(o)) \in Nat
           /\ S = {} => NoticesOf(p) = NoticesOf(o) /\ Sum(p, NoticesOf(p)) = Sum(o, NoticesOf(o))
           /\ \A x : S = {x} =>
                /\ IsFiniteSet(NoticesOf(p))
                /\ Cardinality(NoticesOf(p)) = Cardinality(NoticesOf(o)) + 1
                /\ Sum(p, NoticesOf(p)) = Sum(o, NoticesOf(o)) - p[x[1]][x[2]]
  <1> DEFINE A == NoticesOf(o)
             B == NoticesOf(p)
             g == [n \in A |-> -o[n[1]][n[2]]]
             h == [n \in B |-> -p[n[1]][n[2]]]
  <1>1. A \subseteq B /\ B = A \cup S /\ A \cap S = {}
    BY DEF Grown
  <1>2. \A n \in A : g[n] = h[n]
    <2> SUFFICES ASSUME NEW n \in A PROVE g[n] = h[n]
      OBVIOUS
    <2>1. PICK r, i : r \in Readers /\ n = <<r, i>>
      BY NoticeIn
    <2>2. i \in DOMAIN o[r]
      BY <2>1, NoticeIn
    <2>3. p[r][i] = o[r][i]
      BY <2>1, <2>2 DEF Grown
    <2>4. g[n] = -o[r][i] /\ h[n] = -p[r][i]
      BY <1>1, <2>1
    <2> QED
      BY <2>3, <2>4
  <1>3. \A n \in B : h[n] \in Int
    <2> SUFFICES ASSUME NEW n \in B PROVE h[n] \in Int
      OBVIOUS
    <2>1. PICK r, i : r \in Readers /\ n = <<r, i>>
      BY NoticeIn
    <2>2. i \in DOMAIN p[r]
      BY <2>1, NoticeIn
    <2>3. h[n] = -p[r][i] /\ p[r][i] \in Int
      BY <2>1, <2>2
    <2> QED
      BY <2>3
  <1>4. \A n \in A : g[n] \in Int
    BY <1>1, <1>2, <1>3
  <1>5. PICK it : Sums(it, g, A) /\ Sum(o, A) = it[A]
    BY SumIs
  <1>6. \A x \in B : h[x] = -p[x[1]][x[2]]
    OBVIOUS
  <1>7. IsFiniteSet(B) => \E ju : Sums(ju, h, B) /\ Sum(p, B) = ju[B]
    BY SumIs
  <1> HIDE DEF A, B, g, h
  <1>8. it[A] \in Int
    BY <1>4, <1>5, SumsRemove DEF A
  <1>9. Cardinality(A) \in Nat
    BY FS_CardinalityType DEF A
  <1>10. ASSUME S = {} PROVE B = A /\ Sum(p, B) = Sum(o, A)
    <2>1. B = A /\ IsFiniteSet(B)
      BY <1>1, <1>10 DEF A
    <2>2. PICK ju : Sums(ju, h, B) /\ Sum(p, B) = ju[B]
      BY <1>7, <2>1
    <2>3. \A n \in A : h[n] = g[n]
      BY <1>2
    <2>4. \A X \in SUBSET A : ju[X] = it[X]
      <3>1. IsFiniteSet(A) /\ A \subseteq B
        BY <2>1
      <3> QED
        BY <1>5, <2>2, <2>3, <3>1, SumsAgree
    <2> QED
      BY <1>5, <2>1, <2>2, <2>4
  <1>11. ASSUME NEW x, S = {x}
         PROVE  /\ IsFiniteSet(B) /\ Cardinality(B) = Cardinality(A) + 1
                /\ Sum(p, B) = Sum(o, A) - p[x[1]][x[2]]
    <2>1. B = A \cup {x} /\ x \notin A /\ x \in B /\ B \ {x} = A
      BY <1>1, <1>11
    <2>2. IsFiniteSet(B) /\ Cardinality(B) = Cardinality(A) + 1
      BY <2>1, FS_AddElement DEF A
    <2>3. PICK ju : Sums(ju, h, B) /\ Sum(p, B) = ju[B]
      BY <1>7, <2>2
    <2>4. \A n \in A : h[n] = g[n]
      BY <1>2
    <2>5. IsFiniteSet(A) /\ A \subseteq B
      BY <1>1 DEF A
    <2>6. \A X \in SUBSET A : ju[X] = it[X]
      BY <1>5, <2>3, <2>4, <2>5, SumsAgree
    <2>7. ju[B] = ju[B \ {x}] + h[x]
      BY <1>3, <2>1, <2>2, <2>3, SumsRemove
    <2>8. ju[B \ {x}] = it[A]
      BY <2>1, <2>6
    <2>9. h[x] = -p[x[1]][x[2]] /\ p[x[1]][x[2]] \in Int
      <3>1. PICK r, i : r \in Readers /\ x = <<r, i>>
        BY <2>1, NoticeIn DEF B
      <3>2. i \in DOMAIN p[r]
        BY <2>1, <3>1, NoticeIn DEF B
      <3> QED
        BY <1>6, <2>1, <3>1, <3>2
    <2> QED
      BY <1>5, <1>8, <2>2, <2>3, <2>7, <2>8, <2>9
  <1> QED
    BY <1>5, <1>8, <1>9, <1>10, <1>11 DEF A, B

\* A return adds its notice to the output, if it dropped anything.
LEMMA ReturnNotices ==
    ASSUME IInv, NEW r \in Readers, Return(r)
    PROVE  LET bufs == buffers_write[r]
               last == Len(out'[r])
           IN  /\ Grown(out, out', IF Len(bufs) > MaxBuffers THEN {<<r, last>>} ELSE {})
               /\ Len(bufs) > MaxBuffers => out'[r][last] = -(Len(bufs) - 2)
  <1> DEFINE bufs == buffers_write[r]
             n == Len(bufs)
             K == FlattenSeq(Kept(bufs))
             N == Announced(bufs)
             u == out[r]
             v == out'[r]
             w == u \o K
             S == IF n > MaxBuffers THEN {<<r, Len(v)>>} ELSE {}
  <1>1. bufs \in Seq(Seq(LineNo)) /\ u \in Seq(Int)
    BY DEF IInv, TypeOK
  <1>2. n \in Nat /\ (n > MaxBuffers => n >= 3)
    BY <1>1, LenProperties, LoggingAssumption
  <1>3. K \in Seq(LineNo) /\ N \in Seq(Int) /\ Formatted(bufs) = K \o N
    BY <1>1, FormattedParts
  <1>4. K \in Seq(Int) /\ \A i \in 1 .. Len(K) : K[i] \in Int /\ K[i] > 0
    <2>1. LineNo \subseteq Int
      BY DEF LineNo
    <2>2. \A i \in 1 .. Len(K) : K[i] \in LineNo
      BY <1>3, ElementOfSeq
    <2>3. K \in Seq(Int)
      BY <1>3, <2>1, SeqMonotonic
    <2> QED
      BY <2>2, <2>3 DEF LineNo
  <1>5. IF n > MaxBuffers THEN N = <<-(n - 2)>> ELSE N = <<>>
    BY DEF Announced, Notice
  <1>6. /\ v = u \o Formatted(bufs)
        /\ \A q \in Readers : q # r => out'[q] = out[q]
    BY DEF Return, IInv, TypeOK
  <1> HIDE DEF K, N, u, v, n, bufs
  <1>7. v = w \o N /\ w \in Seq(Int)
    <2>1. \A a, b, c \in Seq(Int) : (a \o b) \o c = a \o (b \o c)
      BY ConcatAssociative, SMTT(30)
    <2>2. (u \o K) \o N = u \o (K \o N)
      BY <1>1, <1>3, <1>4, <2>1
    <2>3. w \in Seq(Int)
      BY <1>1, <1>4, ConcatProperties
    <2> QED
      BY <1>3, <1>6, <2>2, <2>3
  <1>8. /\ Len(w) = Len(u) + Len(K) /\ Len(u) \in Nat /\ Len(K) \in Nat /\ Len(w) \in Nat
        /\ DOMAIN u = 1 .. Len(u) /\ DOMAIN w = 1 .. Len(w)
        /\ \A i \in 1 .. Len(w) : w[i] = IF i <= Len(u) THEN u[i] ELSE K[i - Len(u)]
    BY <1>1, <1>4, <1>7, ConcatProperties, LenProperties
  <1>9. /\ Len(v) = Len(w) + Len(N) /\ Len(N) \in Nat /\ Len(v) \in Nat /\ v \in Seq(Int)
        /\ DOMAIN v = 1 .. Len(v)
        /\ \A i \in 1 .. Len(v) : v[i] = IF i <= Len(w) THEN w[i] ELSE N[i - Len(w)]
    BY <1>3, <1>7, ConcatProperties, LenProperties
  <1> HIDE DEF w
  <1>10. \A i \in 1 .. Len(u) : i \in DOMAIN v /\ v[i] = u[i]
    <2> SUFFICES ASSUME NEW i \in 1 .. Len(u) PROVE i \in DOMAIN v /\ v[i] = u[i]
      OBVIOUS
    <2>1. i \in 1 .. Len(w) /\ i \in 1 .. Len(v) /\ i <= Len(u) /\ i <= Len(w)
      BY <1>8, <1>9
    <2> QED
      BY <1>8, <1>9, <2>1
  <1>11. \A i \in DOMAIN v : i \notin DOMAIN u /\ i <= Len(w) => v[i] > 0
    <2> SUFFICES ASSUME NEW i \in DOMAIN v, i \notin DOMAIN u, i <= Len(w) PROVE v[i] > 0
      OBVIOUS
    <2>1. i \in 1 .. Len(v) /\ i \in 1 .. Len(w) /\ ~(i <= Len(u)) /\ i - Len(u) \in 1 .. Len(K)
      BY <1>8, <1>9
    <2>2. v[i] = K[i - Len(u)]
      BY <1>8, <1>9, <2>1
    <2> QED
      BY <1>4, <2>1, <2>2
  <1>12. \A i \in DOMAIN v : i \notin DOMAIN u /\ v[i] < 0 => <<r, i>> \in S
    <2> SUFFICES ASSUME NEW i \in DOMAIN v, i \notin DOMAIN u, v[i] < 0 PROVE <<r, i>> \in S
      OBVIOUS
    <2>1. i \in 1 .. Len(v) /\ v[i] \in Int
      BY <1>9, ElementOfSeq
    <2>2. ~(i <= Len(w))
      BY <1>11, <2>1
    <2>3. CASE n > MaxBuffers
      <3>1. Len(N) = 1
        BY <1>5, <2>3
      <3>2. Len(v) = Len(w) + 1 /\ Len(w) \in Nat
        BY <1>8, <1>9, <3>1
      <3>3. i = Len(v)
        BY <2>1, <2>2, <3>2
      <3> QED
        BY <2>3, <3>3
    <2>4. CASE ~(n > MaxBuffers)
      <3>1. Len(N) = 0
        BY <1>5, <2>4
      <3> QED
        BY <1>8, <1>9, <2>1, <2>2, <3>1
    <2> QED
      BY <2>3, <2>4
  <1>13. ASSUME n > MaxBuffers
         PROVE  Len(v) \in DOMAIN v /\ Len(v) \notin DOMAIN u /\ v[Len(v)] = -(n - 2) /\ v[Len(v)] < 0
    <2>1. Len(N) = 1 /\ N[1] = -(n - 2)
      BY <1>5, <1>13
    <2>2. Len(v) \in 1 .. Len(v) /\ ~(Len(v) <= Len(w)) /\ Len(v) - Len(w) = 1 /\ Len(v) \notin 1 .. Len(u)
      BY <1>8, <1>9, <2>1
    <2>3. v[Len(v)] = -(n - 2)
      BY <1>9, <2>1, <2>2
    <2> QED
      BY <1>2, <1>8, <1>9, <1>13, <2>2, <2>3
  <1>14. \A q \in Readers : \A i \in DOMAIN out[q] : i \in DOMAIN out'[q] /\ out'[q][i] = out[q][i]
    BY <1>6, <1>8, <1>10 DEF u, v
  <1>15. ASSUME NEW q \in Readers, NEW i
         PROVE  <<q, i>> \in NoticesOf(out') <=> <<q, i>> \in NoticesOf(out) \cup S
    <2>1. /\ <<q, i>> \in NoticesOf(out') <=> i \in DOMAIN out'[q] /\ out'[q][i] < 0
          /\ <<q, i>> \in NoticesOf(out) <=> i \in DOMAIN out[q] /\ out[q][i] < 0
      BY NoticeIn
    <2>2. CASE q # r
      <3>1. <<q, i>> \notin S
        BY <2>2
      <3> QED
        BY <1>6, <2>1, <2>2, <3>1
    <2>3. CASE q = r
      <3>1. /\ <<q, i>> \in NoticesOf(out') <=> i \in DOMAIN v /\ v[i] < 0
            /\ <<q, i>> \in NoticesOf(out) <=> i \in DOMAIN u /\ u[i] < 0
        BY <2>1, <2>3 DEF u, v
      <3>2. i \in DOMAIN u => i \in DOMAIN v /\ v[i] = u[i]
        BY <1>8, <1>10
      <3>3. <<q, i>> \in S => i \in DOMAIN v /\ v[i] < 0
        BY <1>13, <2>3
      <3> HIDE DEF S
      <3> QED
        BY <1>12, <2>3, <3>1, <3>2, <3>3
    <2> QED
      BY <2>2, <2>3
  <1>16. \A x \in S : \E q \in Readers : \E i : x = <<q, i>>
    OBVIOUS
  <1>17. NoticesOf(out) \cap S = {}
    <2> SUFFICES ASSUME NEW x \in S, x \in NoticesOf(out) PROVE FALSE
      OBVIOUS
    <2>1. n > MaxBuffers /\ x = <<r, Len(v)>>
      OBVIOUS
    <2>2. Len(v) \in DOMAIN u
      BY <2>1, NoticeIn DEF u
    <2> QED
      BY <1>13, <2>1, <2>2
  <1> HIDE DEF S
  <1>18. NoticesOf(out') = NoticesOf(out) \cup S
    <2>1. \A x \in NoticesOf(out') \cup (NoticesOf(out) \cup S) : \E q \in Readers : \E i : x = <<q, i>>
      BY <1>16, NoticeIn
    <2> QED
      BY <1>15, <2>1
  <1> QED
    BY <1>13, <1>14, <1>17, <1>18 DEF Grown, S, n, v, bufs

\* Append queues a buffer when it is full, and the swap puts the one that may
\* have room last.
LEMMA FullStep ==
    ASSUME IInv, FullInv
    PROVE  /\ AppendLine => FullInv'
           /\ \A r \in Readers : Swap(r) => FullInv'
           /\ \A r \in Readers : Return(r) => FullInv'
  <1> DEFINE V == Seq(LineNo)
  <1>1. /\ m_buffers \in Seq(V) /\ m_curr_buffer \in V /\ Len(m_curr_buffer) \in Nat
        /\ Len(m_curr_buffer) <= BufferSize /\ BufferSize \in Nat
    BY LenProperties, LoggingAssumption DEF IInv, TypeOK
  <1> HIDE DEF V
  <1> DEFINE a == Append(m_buffers, m_curr_buffer)
  <1>2. /\ Len(a) = Len(m_buffers) + 1 /\ Len(m_buffers) \in Nat
        /\ \A i \in 1 .. Len(m_buffers) : a[i] = m_buffers[i]
        /\ a[Len(m_buffers) + 1] = m_curr_buffer
    BY <1>1, AppendProperties, LenProperties
  <1> HIDE DEF a
  <1>3. \A i \in 1 .. Len(a) : i \in 1 .. Len(m_buffers) \/ i = Len(m_buffers) + 1
    BY <1>2
  <1>4. Filled(<<>>)
    BY DEF Filled
  <1>5. ASSUME AppendLine PROVE FullInv'
    <2>1. buffers_write' = buffers_write
      BY <1>5 DEF AppendLine
    <2>2. CASE m_buffers' = m_buffers
      BY <2>1, <2>2 DEF FullInv, Filled
    <2>3. CASE Avail <= 0 /\ m_buffers' = a
      <3>1. Len(m_curr_buffer) = BufferSize
        BY <1>1, <2>3 DEF Avail
      <3>2. \A i \in 1 .. Len(a) : Len(a[i]) = BufferSize
        BY <1>2, <1>3, <3>1 DEF FullInv
      <3> QED
        BY <2>1, <2>3, <3>2 DEF FullInv, Filled
    <2> QED
      BY <1>5, <2>2, <2>3 DEF AppendLine, AppendLog, a
  <1>6. ASSUME NEW r \in Readers, Swap(r) PROVE FullInv'
    <2>1. /\ m_buffers' = <<>> /\ buffers_write'[r] = a
          /\ \A q \in Readers : q # r => buffers_write'[q] = buffers_write[q]
      BY <1>6 DEF Swap, IInv, TypeOK, a
    <2>2. Filled(a)
      <3> SUFFICES ASSUME NEW i \in 1 .. Len(a)
                   PROVE  Len(a[i]) <= BufferSize /\ (i < Len(a) => Len(a[i]) = BufferSize)
        BY DEF Filled
      <3>1. CASE i \in 1 .. Len(m_buffers)
        <4>1. Len(a[i]) = BufferSize
          BY <1>2, <3>1 DEF FullInv
        <4> QED
          BY <1>1, <4>1
      <3>2. CASE i = Len(m_buffers) + 1
        BY <1>1, <1>2, <3>2
      <3> QED
        BY <1>3, <3>1, <3>2
    <2>3. \A q \in Readers : Filled(buffers_write'[q])
      BY <2>1, <2>2 DEF FullInv
    <2>4. \A i \in 1 .. Len(m_buffers') : Len(m_buffers'[i]) = BufferSize
      BY <2>1
    <2> QED
      BY <2>3, <2>4 DEF FullInv, Filled
  <1>7. ASSUME NEW r \in Readers, Return(r) PROVE FullInv'
    <2>1. /\ m_buffers' = m_buffers /\ buffers_write'[r] = <<>>
          /\ \A q \in Readers : q # r => buffers_write'[q] = buffers_write[q]
      BY <1>7 DEF Return, logVars, IInv, TypeOK
    <2>2. \A q \in Readers : Filled(buffers_write'[q])
      BY <1>4, <2>1 DEF FullInv
    <2> QED
      BY <2>1, <2>2 DEF FullInv, Filled
  <1> QED
    BY <1>5, <1>6, <1>7

\* Output without a positive entry holds no lines.
LEMMA NoLines ==
    ASSUME NEW s \in Seq(Int), UpTo(s, 0)
    PROVE  Lines(s) = {}
  <1> SUFFICES ASSUME NEW l \in Lines(s) PROVE FALSE
    OBVIOUS
  <1>1. PICK i \in DOMAIN s : s[i] = l /\ l > 0
    BY DEF Lines, ToSet
  <1>2. s[i] \in Int /\ s[i] <= 0
    BY LenProperties DEF UpTo
  <1> QED
    BY <1>1, <1>2

\* Lines change hands: nothing goes, and nothing comes twice, until a return
\* drops what its reader alone had.
LEMMA AppendGone ==
    ASSUME IInv, ApartInv, AppendLine
    PROVE  ApartInv' /\ Gone' = Gone
  <1>1. /\ Queue' = Queue \o <<count + 1>> /\ (\A r \in Readers : Mine(r)' = Mine(r))
        /\ count' = count + 1 /\ count \in Nat
    BY AppendEffect
  <1>2. Lines(Queue') = Lines(Queue) \cup {count + 1}
    <2>1. Queue \in Seq(Int) /\ <<count + 1>> \in Seq(Int)
      BY <1>1, StreamTypes
    <2>2. Lines(<<count + 1>>) = {count + 1}
      BY <1>1 DEF Lines, ToSet
    <2> QED
      BY <1>1, <2>1, <2>2, LinesConcat
  <1>3. ApartInv'
    BY <1>1 DEF ApartInv
  <1>4. \A l : l \in 1 .. count + 1 /\ l # count + 1 <=> l \in 1 .. count
    BY <1>1
  <1>5. Gone' = {l \in 1 .. count + 1 : l \notin Lines(Queue) \cup {count + 1}
                                          /\ \A r \in Readers : l \notin Lines(Mine(r))}
    BY <1>1, <1>2 DEF Gone
  <1> QED
    BY <1>3, <1>4, <1>5 DEF Gone

\* The swap: the reader's new lines are nobody else's.
LEMMA SwapGone ==
    ASSUME IInv, OrderInv, ApartInv, NEW r \in Readers, pc[r] # "swapped", Swap(r)
    PROVE  ApartInv' /\ Gone' = Gone
  <1>1. /\ Queue' = <<>> /\ Mine(r)' = Mine(r) \o Queue
        /\ \A q \in Readers : q # r => Mine(q)' = Mine(q)
        /\ count' = count
    BY SwapEffect DEF OrderInv
  <1>2. Queue \in Seq(Int) /\ \A q \in Readers : Mine(q) \in Seq(Int)
    BY StreamTypes
  <1>3. Lines(Mine(r)') = Lines(Mine(r)) \cup Lines(Queue)
    BY <1>1, <1>2, LinesConcat
  <1>4. Lines(Queue') = {}
    BY <1>1 DEF Lines, ToSet
  <1>5. \A q \in Readers : Lines(Mine(q)) \cap Lines(Queue) = {}
    BY <1>2, BeforeApart DEF OrderInv
  <1>6. \A q \in Readers : q # r => Lines(Mine(q)') = Lines(Mine(q))
    BY <1>1
  <1>7. ApartInv'
    <2> SUFFICES ASSUME NEW p \in Readers, NEW q \in Readers, p # q
                 PROVE  Lines(Mine(p)') \cap Lines(Mine(q)') = {}
      BY DEF ApartInv
    <2>1. Lines(Mine(p)) \cap Lines(Mine(q)) = {}
      BY DEF ApartInv
    <2>2. CASE p = r
      BY <1>3, <1>5, <1>6, <2>1, <2>2
    <2>3. CASE q = r
      BY <1>3, <1>5, <1>6, <2>1, <2>3
    <2>4. CASE p # r /\ q # r
      BY <1>6, <2>1, <2>4
    <2> QED
      BY <2>2, <2>3, <2>4
  <1>8. Gone' = {l \in 1 .. count : l \notin Lines(Queue') /\ \A q \in Readers : l \notin Lines(Mine(q)')}
    BY <1>1 DEF Gone
  <1>9. ASSUME NEW l
        PROVE  (l \notin Lines(Queue') /\ \A q \in Readers : l \notin Lines(Mine(q)'))
                 <=> (l \notin Lines(Queue) /\ \A q \in Readers : l \notin Lines(Mine(q)))
    BY <1>3, <1>4, <1>6
  <1> QED
    BY <1>7, <1>8, <1>9 DEF Gone

\* A return: what it drops is gone, and was not gone before.
LEMMA ReturnGone ==
    ASSUME IInv, OrderInv, ApartInv, NEW r \in Readers, Return(r), IsFiniteSet(Gone)
    PROVE  LET D == FlattenSeq(Dropped(buffers_write[r]))
           IN  /\ ApartInv'
               /\ IsFiniteSet(Gone') /\ Cardinality(Gone') = Cardinality(Gone) + Len(D)
  <1> DEFINE got == out[r] \o FlattenSeq(Kept(buffers_write[r]))
             D   == FlattenSeq(Dropped(buffers_write[r]))
             N   == Announced(buffers_write[r])
  <1>1. /\ got \in Seq(Int) /\ D \in Seq(Int) /\ N \in Seq(Int) /\ UpTo(N, 0)
        /\ Mine(r) = got \o D /\ Mine(r)' = got \o N
        /\ \A q \in Readers : q # r => Mine(q)' = Mine(q)
        /\ Queue' = Queue /\ count' = count
    BY ReturnEffect DEF OrderInv
  <1>2. D \in Seq(LineNo)
    BY FormattedParts DEF IInv, TypeOK
  <1>3. Queue \in Seq(Int) /\ Mine(r) \in Seq(Int) /\ count \in Int
    BY StreamTypes, LoggingAssumption DEF IInv, TypeOK
  <1> HIDE DEF got, D, N
  <1>4. Lines(Mine(r)) = Lines(got) \cup Lines(D) /\ Lines(Mine(r)') = Lines(got)
    <2>1. Lines(got \o D) = Lines(got) \cup Lines(D) /\ Lines(got \o N) = Lines(got) \cup Lines(N)
      BY <1>1, LinesConcat
    <2>2. Lines(N) = {}
      BY <1>1, NoLines
    <2> QED
      BY <1>1, <2>1, <2>2
  <1>5. Ordered(D) /\ Lines(got) \cap Lines(D) = {}
    <2>1. Ordered(got \o D)
      BY <1>1, Zenon DEF OrderInv
    <2>2. Ordered(D) /\ Before(got, D)
      BY <1>1, <2>1, OrderedConcat
    <2> QED
      BY <1>1, <2>2, BeforeApart
  <1>6. Lines(Mine(r)) \cap Lines(Queue) = {}
    BY <1>3, BeforeApart DEF OrderInv
  <1>7. \A q \in Readers : q # r => Lines(Mine(q)) \cap Lines(Mine(r)) = {}
    BY DEF ApartInv
  <1>8. Lines(D) \subseteq 1 .. count
    <2> SUFFICES ASSUME NEW l \in Lines(D) PROVE l \in 1 .. count
      OBVIOUS
    <2>1. l \in Lines(Mine(r))
      BY <1>4
    <2>2. PICK i \in DOMAIN Mine(r) : Mine(r)[i] = l /\ l > 0
      BY <2>1 DEF Lines, ToSet
    <2>3. Mine(r)[i] \in Int /\ Mine(r)[i] <= count
      BY <1>3, <2>2, LenProperties DEF OrderInv, UpTo
    <2> QED
      BY <1>3, <2>2, <2>3
  <1>9. ApartInv'
    <2> SUFFICES ASSUME NEW p \in Readers, NEW q \in Readers, p # q
                 PROVE  Lines(Mine(p)') \cap Lines(Mine(q)') = {}
      BY DEF ApartInv
    <2>1. Lines(Mine(p)) \cap Lines(Mine(q)) = {}
      BY DEF ApartInv
    <2>2. \A x \in Readers : Lines(Mine(x)') \subseteq Lines(Mine(x))
      BY <1>1, <1>4
    <2> QED
      BY <2>1, <2>2
  <1>10. Gone' = Gone \cup Lines(D)
    <2>1. Gone' = {l \in 1 .. count : l \notin Lines(Queue) /\ \A q \in Readers : l \notin Lines(Mine(q)')}
      BY <1>1 DEF Gone
    <2>2. \A q \in Readers : q # r => Lines(Mine(q)') = Lines(Mine(q))
      BY <1>1
    <2>3. ASSUME NEW l \in 1 .. count
          PROVE  (l \notin Lines(Queue) /\ \A q \in Readers : l \notin Lines(Mine(q)'))
                   <=> (l \in Lines(D) \/ (l \notin Lines(Queue) /\ \A q \in Readers : l \notin Lines(Mine(q))))
      <3>1. CASE l \in Lines(D)
        <4>1. l \in Lines(Mine(r)) /\ l \notin Lines(got) /\ l \notin Lines(Queue)
          BY <1>4, <1>5, <1>6, <3>1
        <4>2. \A q \in Readers : l \notin Lines(Mine(q)')
          BY <1>4, <1>7, <2>2, <4>1
        <4> QED
          BY <3>1, <4>1, <4>2
      <3>2. CASE l \notin Lines(D)
        <4>1. l \in Lines(Mine(r)) <=> l \in Lines(Mine(r)')
          BY <1>4, <3>2
        <4>2. \A q \in Readers : l \in Lines(Mine(q)) <=> l \in Lines(Mine(q)')
          BY <2>2, <4>1
        <4> QED
          BY <3>2, <4>2
      <3> QED
        BY <3>1, <3>2
    <2> QED
      BY <1>8, <2>1, <2>3 DEF Gone
  <1>11. Gone \cap Lines(D) = {}
    BY <1>4 DEF Gone
  <1>12. IsFiniteSet(Lines(D)) /\ Cardinality(Lines(D)) = Len(D)
    BY <1>2, <1>5, OrderedCount
  <1>13. IsFiniteSet(Gone') /\ Cardinality(Gone') = Cardinality(Gone) + Len(D)
    <2>1. Cardinality(Gone \cup Lines(D))
            = Cardinality(Gone) + Cardinality(Lines(D)) - Cardinality(Gone \cap Lines(D))
          /\ IsFiniteSet(Gone \cup Lines(D))
      BY <1>12, FS_Union
    <2>2. Cardinality(Gone) \in Nat /\ Cardinality(Lines(D)) \in Nat /\ Cardinality({}) = 0
      BY <1>12, FS_CardinalityType, FS_EmptySet
    <2>3. Cardinality(Gone \cup Lines(D)) = Cardinality(Gone) + Len(D)
      <3>1. Cardinality(Gone \cap Lines(D)) = 0
        BY <1>11, <2>2
      <3> QED
        BY <1>12, <2>1, <2>2, <3>1
    <2>4. Cardinality(Gone') = Cardinality(Gone \cup Lines(D)) /\ IsFiniteSet(Gone')
      BY <1>10, <2>1
    <2> QED
      BY <2>3, <2>4
  <1> QED
    BY <1>9, <1>13 DEF D

\* A drop is announced for what it is.
LEMMA ReturnAccount ==
    ASSUME IInv, OrderInv, DropInv, NEW r \in Readers, Return(r), TypeOK'
    PROVE  /\ IsFiniteSet(NoticesOf(out'))
           /\ Accounted(Cardinality(Gone'), Sum(out', NoticesOf(out')), Cardinality(NoticesOf(out')))
  <1> DEFINE bufs == buffers_write[r]
             n == Len(bufs)
             d == Len(FlattenSeq(Dropped(bufs)))
             S == IF n > MaxBuffers THEN {<<r, Len(out'[r])>>} ELSE {}
             c1 == Cardinality(Gone)
             c2 == Cardinality(Gone')
             m1 == Cardinality(NoticesOf(out))
             m2 == Cardinality(NoticesOf(out'))
             s1 == Sum(out, NoticesOf(out))
             s2 == Sum(out', NoticesOf(out'))
  <1>1. c2 = c1 + d
    BY ReturnGone DEF DropInv
  <1>2. c1 \in Nat /\ c1 <= BufferSize * s1 /\ c1 >= BufferSize * (s1 - m1)
    BY FS_CardinalityType DEF DropInv, Accounted
  <1>3. Grown(out, out', S) /\ (n > MaxBuffers => out'[r][Len(out'[r])] = -(n - 2))
    BY ReturnNotices
  <1>4. \A q \in Readers : \A i \in DOMAIN out'[q] : out'[q][i] \in Int
    <2> SUFFICES ASSUME NEW q \in Readers, NEW i \in DOMAIN out'[q] PROVE out'[q][i] \in Int
      OBVIOUS
    <2>1. out'[q] \in Seq(Int)
      BY DEF TypeOK
    <2>2. DOMAIN out'[q] = 1 .. Len(out'[q])
      BY <2>1, LenProperties
    <2> QED
      BY <2>1, <2>2, ElementOfSeq
  <1>5. /\ s1 \in Int /\ m1 \in Nat
        /\ S = {} => NoticesOf(out') = NoticesOf(out) /\ s2 = s1
        /\ \A x : S = {x} => /\ IsFiniteSet(NoticesOf(out')) /\ m2 = m1 + 1
                             /\ s2 = s1 - out'[x[1]][x[2]]
    <2> HIDE DEF S
    <2> QED
      BY <1>3, <1>4, SumGrows DEF DropInv
  <1>6. bufs \in Seq(Seq(LineNo)) /\ Filled(bufs) /\ BufferSize \in Nat
    BY LoggingAssumption DEF DropInv, FullInv, IInv, TypeOK
  <1>7. CASE n > MaxBuffers
    <2>1. /\ n \in Nat /\ n >= 3 /\ d \in Nat
          /\ BufferSize * (n - 3) <= d /\ d <= BufferSize * (n - 2)
      BY <1>6, <1>7, DroppedLength
    <2>2. IsFiniteSet(NoticesOf(out')) /\ m2 = m1 + 1 /\ s2 = s1 + (n - 2)
      <3> DEFINE x == <<r, Len(out'[r])>>
      <3>1. S = {x} /\ x[1] = r /\ x[2] = Len(out'[r])
        BY <1>7
      <3>2. IsFiniteSet(NoticesOf(out')) /\ m2 = m1 + 1 /\ s2 = s1 - out'[x[1]][x[2]]
        BY <1>5, <3>1
      <3>3. s2 = s1 - (-(n - 2))
        BY <1>3, <1>7, <3>1, <3>2
      <3> HIDE DEF n, s1, s2, S
      <3> QED
        BY <1>5, <2>1, <3>2, <3>3
    <2> HIDE DEF n, d, c1, c2, m1, m2, s1, s2, S
    <2>3. s2 - m2 = (s1 - m1) + (n - 3) /\ s1 - m1 \in Int /\ n - 2 \in Int /\ n - 3 \in Int
      BY <1>5, <2>1, <2>2
    <2>4. /\ BufferSize * s2 = BufferSize * s1 + BufferSize * (n - 2)
          /\ BufferSize * (s2 - m2) = BufferSize * (s1 - m1) + BufferSize * (n - 3)
      <3>1. \A b \in Nat, x, y \in Int : b * (x + y) = b * x + b * y
        OBVIOUS
      <3>2. BufferSize * (s1 + (n - 2)) = BufferSize * s1 + BufferSize * (n - 2)
        BY <1>5, <1>6, <2>3, <3>1
      <3>3. BufferSize * ((s1 - m1) + (n - 3)) = BufferSize * (s1 - m1) + BufferSize * (n - 3)
        BY <1>6, <2>3, <3>1
      <3> QED
        BY <2>2, <2>3, <3>2, <3>3
    <2>5. \A p, q, x, y, g, e \in Int : g <= p /\ g >= q /\ e <= x /\ e >= y => g + e <= p + x /\ g + e >= q + y
      OBVIOUS
    <2>6. c2 <= BufferSize * s2 /\ c2 >= BufferSize * (s2 - m2)
      <3>1. /\ BufferSize * s1 \in Int /\ BufferSize * (s1 - m1) \in Int
            /\ BufferSize * (n - 2) \in Int /\ BufferSize * (n - 3) \in Int
        BY <1>5, <1>6, <2>3
      <3>2. c1 \in Int /\ d \in Int
        BY <1>2, <2>1
      <3>3. /\ c1 + d <= BufferSize * s1 + BufferSize * (n - 2)
            /\ c1 + d >= BufferSize * (s1 - m1) + BufferSize * (n - 3)
        BY <1>2, <2>1, <2>5, <3>1, <3>2
      <3> QED
        BY <1>1, <2>4, <3>3
    <2> QED
      BY <2>2, <2>6 DEF Accounted, c2, s2, m2
  <1>8. CASE ~(n > MaxBuffers)
    <2>1. S = {}
      BY <1>8
    <2>2. NoticesOf(out') = NoticesOf(out) /\ s2 = s1
      BY <1>5, <2>1
    <2>3. d = 0
      BY <1>8, FlattenEmpty DEF Dropped
    <2>4. c2 = c1
      <3> HIDE DEF d, c1, c2
      <3> QED
        BY <1>1, <1>2, <2>3
    <2> QED
      BY <2>2, <2>4 DEF DropInv
  <1> QED
    BY <1>7, <1>8

\* Every step keeps the account.
LEMMA DropStep ==
    ASSUME IInv, OrderInv, DropInv, [Next]_vars, TypeOK'
    PROVE  DropInv'
  <1>1. ASSUME out' = out, Gone' = Gone, FullInv', ApartInv' PROVE DropInv'
    <2>1. IsFiniteSet(NoticesOf(out')) /\ IsFiniteSet(Gone')
          /\ Accounted(Cardinality(Gone'), Sum(out', NoticesOf(out')), Cardinality(NoticesOf(out')))
      BY <1>1 DEF DropInv
    <2> QED
      BY <1>1, <2>1 DEF DropInv
  <1>2. ASSUME AppendLine PROVE DropInv'
    <2>1. FullInv' /\ ApartInv' /\ Gone' = Gone /\ out' = out
      BY <1>2, FullStep, AppendGone DEF DropInv, AppendLine
    <2> QED
      BY <1>1, <2>1
  <1>3. ASSUME NEW r \in Readers, pc[r] # "swapped", Swap(r) PROVE DropInv'
    <2>1. FullInv' /\ ApartInv' /\ Gone' = Gone /\ out' = out
      BY <1>3, FullStep, SwapGone DEF DropInv, Swap
    <2> QED
      BY <1>1, <2>1
  <1>4. ASSUME NEW r \in Readers, Return(r) PROVE DropInv'
    <2>1. FullInv' /\ ApartInv' /\ IsFiniteSet(Gone')
      BY <1>4, FullStep, ReturnGone DEF DropInv
    <2>2. IsFiniteSet(NoticesOf(out'))
          /\ Accounted(Cardinality(Gone'), Sum(out', NoticesOf(out')), Cardinality(NoticesOf(out')))
      BY <1>4, ReturnAccount
    <2> QED
      BY <2>1, <2>2 DEF DropInv
  <1>5. ASSUME UNCHANGED <<logVars, buffers_write, out>> PROVE DropInv'
    <2>1. Queue' = Queue /\ count' = count /\ \A r \in Readers : Mine(r)' = Mine(r)
      BY <1>5 DEF logVars, Queue, Mine
    <2>2. Gone' = Gone /\ ApartInv'
      BY <2>1 DEF Gone, ApartInv, DropInv
    <2>3. FullInv'
      BY <1>5 DEF FullInv, DropInv, logVars, Filled
    <2> QED
      BY <1>1, <1>5, <2>2, <2>3
  <1>6. ASSUME NEW r \in Readers, Data(r) \/ FlushInterval(r), ~Swap(r) PROVE DropInv'
    <2>1. UNCHANGED <<logVars, buffers_write, out>>
      BY <1>6, Zenon DEF Data, FlushInterval
    <2> QED
      BY <1>5, <2>1
  <1>7. ASSUME UNCHANGED vars PROVE DropInv'
    BY <1>5, <1>7 DEF vars
  <1> QED
    BY <1>2, <1>3, <1>4, <1>6, <1>7 DEF Next, Woken, Data, FlushInterval

\* async_logging.cpp:96-100: a line that is neither queued nor taken nor in the
\* output was dropped, and the notices in the output tell how many buffers
\* were.
THEOREM DropsReportedCorrect == Spec => []DropsReported
  <1>1. Init => DropInv
    <2> SUFFICES ASSUME Init PROVE DropInv
      OBVIOUS
    <2>1. <<>> \o <<>> = <<>>
      BY ConcatEmptySeq, EmptySeq
    <2>2. \A r \in Readers : Mine(r) = <<>>
      BY <2>1, FlattenEmpty DEF Init, Mine
    <2>3. Lines(<<>>) = {} /\ Gone = {}
      BY DEF Init, Lines, ToSet, Gone
    <2>4. NoticesOf(out) = {}
      BY DEF Init, NoticesOf
    <2>5. IsFiniteSet({}) /\ Cardinality({}) = 0
      BY FS_EmptySet
    <2>6. Sum(out, {}) = 0
      <3>1. PICK it : Sums(it, [n \in {} |-> -out[n[1]][n[2]]], {}) /\ Sum(out, {}) = it[{}]
        BY <2>5, SumIs
      <3>2. it[{}] = 0
        BY <3>1, Zenon DEF Sums
      <3> QED
        BY <3>1, <3>2
    <2>7. Accounted(0, 0, 0)
      BY LoggingAssumption DEF Accounted
    <2>8. FullInv /\ ApartInv
      BY <2>2, <2>3 DEF Init, FullInv, Filled, ApartInv
    <2> QED
      BY <2>3, <2>4, <2>5, <2>6, <2>7, <2>8 DEF DropInv
  <1>2. IInv /\ OrderInv /\ DropInv /\ [Next]_vars /\ IInv' => DropInv'
    BY DropStep DEF IInv
  <1>3. IInv /\ DropInv => DropsReported
    <2> SUFFICES ASSUME IInv, DropInv PROVE DropsReported
      OBVIOUS
    <2>1. Missing = Gone
      BY MissingIs
    <2>2. Notices = NoticesOf(out)
      BY DEF Notices, NoticesOf
    <2>3. DroppedBuffers = Sum(out, NoticesOf(out))
      BY <2>2 DEF DroppedBuffers, Sum
    <2> QED
      BY <2>1, <2>2, <2>3 DEF DropInv, Accounted, DropsReported
  <1> QED
    BY <1>1, <1>2, <1>3, Invariance, Ordering, PTL DEF Spec

-----------------------------------------------------------------------------
(* LogOutput: where the chunks go.                                         *)

\* What arrived at the server, s, when b chunks have been confirmed and t taken:
\* no gap, and the last to arrive is not older than the last confirmed.
Arrived(s, b, t) ==
    /\ \E m \in b .. t : Range(s) = 1 .. m
    /\ \A i \in 2 .. Len(s) : s[i] <= s[i - 1] + 1
    /\ s # <<>> => s[Len(s)] >= b

\* The batch is what was taken since the last confirmation.
BatchInv ==
    device = "scribe" =>
        /\ taken \in Nat /\ messages \in Seq(Nat) /\ stored \in Seq(Nat)
        /\ Len(messages) <= taken
        /\ \A i \in 1 .. Len(messages) : messages[i] = (taken - Len(messages)) + i
        /\ Arrived(stored, taken - Len(messages), taken)

\* A batch that arrives, the first time or again, leaves no gap.
LEMMA BatchArrives ==
    ASSUME NEW s \in Seq(Nat), NEW m \in Seq(Nat), NEW t \in Nat, Len(m) <= t,
           \A i \in 1 .. Len(m) : m[i] = (t - Len(m)) + i,
           Arrived(s, t - Len(m), t)
    PROVE  s \o m \in Seq(Nat) /\ Arrived(s \o m, t - Len(m), t) /\ Arrived(s \o m, t, t)
  <1> DEFINE k == Len(s)
             n == Len(m)
             b == t - n
             u == s \o m
  <1>1. k \in Nat /\ n \in Nat /\ b \in Nat /\ b <= t /\ n <= t
    BY LenProperties
  <1>2. /\ u \in Seq(Nat) /\ Len(u) = k + n
        /\ \A i \in 1 .. k + n : u[i] = IF i <= k THEN s[i] ELSE m[i - k]
    BY ConcatProperties
  <1>3. \A i \in 1 .. k : s[i] \in Nat
    BY ElementOfSeq
  <1>4. Range(u) = Range(s) \cup Range(m)
    BY RangeConcatenation
  <1>5. Range(m) = b + 1 .. t
    <2>1. DOMAIN m = 1 .. n
      BY LenProperties
    <2>2. \A i \in 1 .. n : m[i] = b + i
      OBVIOUS
    <2>3. Range(m) = {b + i : i \in 1 .. n}
      BY <2>1, <2>2 DEF Range
    <2> HIDE DEF n
    <2>4. \A x : x \in b + 1 .. t => x - b \in 1 .. n /\ x = b + (x - b)
      BY <1>1
    <2>5. \A i \in 1 .. n : b + i \in b + 1 .. t
      BY <1>1
    <2> QED
      BY <2>3, <2>4, <2>5
  <1>6. PICK l \in b .. t : Range(s) = 1 .. l
    BY DEF Arrived
  <1>7. Range(u) = 1 .. t
    <2> HIDE DEF b, u
    <2> QED
      BY <1>1, <1>4, <1>5, <1>6
  <1>8. \A i \in 1 .. n : m[i] = b + i
    OBVIOUS
  <1>9. s # <<>> => s[k] >= b
    BY DEF Arrived
  <1>10. \A i \in 2 .. k : s[i] <= s[i - 1] + 1
    BY DEF Arrived
  <1>11. k # 0 => s # <<>>
    OBVIOUS
  <1> HIDE DEF k, n, b, u
  <1>12. ASSUME NEW i \in 2 .. k + n PROVE u[i] <= u[i - 1] + 1
    <2>1. i \in 1 .. k + n /\ i - 1 \in 1 .. k + n
      BY <1>1
    <2>2. CASE i <= k
      <3>1. u[i] = s[i] /\ u[i - 1] = s[i - 1] /\ i \in 2 .. k
        BY <1>1, <1>2, <2>1, <2>2
      <3> QED
        BY <1>10, <3>1
    <2>3. CASE i = k + 1
      <3>1. u[i] = m[1] /\ u[i - 1] = s[k] /\ 1 \in 1 .. n /\ k \in 1 .. k
        BY <1>1, <1>2, <2>1, <2>3
      <3>2. m[1] = b + 1 /\ s[k] \in Nat /\ s[k] >= b
        BY <1>3, <1>8, <1>9, <1>11, <3>1
      <3> QED
        BY <1>1, <3>1, <3>2, SMTT(30)
    <2>4. CASE i > k + 1
      <3>1. u[i] = m[i - k] /\ u[i - 1] = m[i - 1 - k] /\ i - k \in 1 .. n /\ i - 1 - k \in 1 .. n
        BY <1>1, <1>2, <2>1, <2>4, SMTT(30)
      <3>2. m[i - k] = b + (i - k) /\ m[i - 1 - k] = b + (i - 1 - k)
        BY <1>8, <3>1
      <3> QED
        BY <1>1, <3>1, <3>2
    <2> QED
      BY <1>1, <2>2, <2>3, <2>4
  <1>13. u # <<>> => u[k + n] >= b /\ (n > 0 => u[k + n] = t)
    <2>1. ASSUME n > 0 PROVE u[k + n] = t
      <3>1. k + n \in 1 .. k + n /\ ~(k + n <= k) /\ (k + n) - k = n /\ n \in 1 .. n
        BY <1>1, <2>1
      <3>2. u[k + n] = m[n] /\ m[n] = b + n
        BY <1>2, <1>8, <3>1
      <3> QED
        BY <1>1, <3>2 DEF b
    <2>2. ASSUME n = 0, u # <<>> PROVE u[k + n] >= b
      <3>1. k # 0
        <4>1. Len(u) # 0
          BY <1>2, <2>2, EmptySeq
        <4> QED
          BY <1>1, <1>2, <2>2, <4>1
      <3>2. k + n \in 1 .. k + n /\ k + n <= k /\ k + n = k
        BY <1>1, <2>2, <3>1
      <3>3. u[k + n] = s[k]
        BY <1>2, <3>2
      <3> QED
        BY <1>9, <1>11, <3>1, <3>3
    <2> QED
      BY <1>1, <2>1, <2>2
  <1>14. n = 0 => b = t
    BY <1>1 DEF b
  <1>15. Arrived(u, b, t)
    <2>1. t \in b .. t
      BY <1>1
    <2> QED
      BY <1>2, <1>7, <1>12, <1>13, <2>1 DEF Arrived
  <1>16. Arrived(u, t, t)
    <2>1. t \in t .. t
      BY <1>1
    <2>2. u # <<>> => u[k + n] >= t
      BY <1>1, <1>13, <1>14
    <2> QED
      BY <1>2, <1>7, <1>12, <2>1, <2>2 DEF Arrived
  <1> QED
    BY <1>2, <1>15, <1>16 DEF u, b, n

\* scribe_log_handler.cpp:78-111: whatever the server answers and however often
\* the connection is lost, every chunk taken is in the batch or has arrived, and
\* they arrive without a gap and in order but for repetitions.
THEOREM AtLeastOnceInOrderCorrect == OutputSpec => []AtLeastOnceInOrder
  <1>1. OutputInit => BatchInv
    <2> SUFFICES ASSUME OutputInit PROVE BatchInv
      OBVIOUS
    <2>1. taken = 0 /\ messages = <<>> /\ stored = <<>>
      BY DEF OutputInit
    <2>2. Range(<<>>) = {} /\ 0 \in 0 .. 0 /\ 1 .. 0 = {} /\ 2 .. 0 = {} /\ Len(<<>>) = 0
      BY DEF Range
    <2>3. Arrived(<<>>, 0, 0)
      BY <2>2 DEF Arrived
    <2> QED
      BY <2>1, <2>2, <2>3 DEF BatchInv
  <1>2. BatchInv /\ [OutputNext]_outputVars => BatchInv'
    <2> SUFFICES ASSUME BatchInv, [OutputNext]_outputVars PROVE BatchInv'
      OBVIOUS
    <2>1. ASSUME UNCHANGED <<device, taken, messages, stored>> PROVE BatchInv'
      BY <2>1 DEF BatchInv, Arrived, Range
    <2>2. ASSUME RunData PROVE BatchInv'
      <3> SUFFICES ASSUME device = "scribe"
                   PROVE  /\ taken' \in Nat /\ messages' \in Seq(Nat) /\ stored' \in Seq(Nat)
                          /\ Len(messages') <= taken'
                          /\ \A i \in 1 .. Len(messages') : messages'[i] = (taken' - Len(messages')) + i
                          /\ Arrived(stored', taken' - Len(messages'), taken')
        BY <2>2 DEF RunData, BatchInv, Arrived, Range
      <3>1. taken' = taken + 1 /\ messages' = Append(messages, taken + 1) /\ stored' = stored
        BY <2>2 DEF RunData
      <3>2. /\ taken \in Nat /\ messages \in Seq(Nat) /\ stored \in Seq(Nat)
            /\ Len(messages) <= taken /\ Len(messages) \in Nat
            /\ \A i \in 1 .. Len(messages) : messages[i] = (taken - Len(messages)) + i
            /\ Arrived(stored, taken - Len(messages), taken)
        BY LenProperties DEF BatchInv
      <3>3. /\ messages' \in Seq(Nat) /\ Len(messages') = Len(messages) + 1
            /\ \A i \in 1 .. Len(messages) : messages'[i] = messages[i]
            /\ messages'[Len(messages) + 1] = taken + 1
        BY <3>1, <3>2, AppendProperties
      <3>4. taken' - Len(messages') = taken - Len(messages)
        BY <3>1, <3>2, <3>3
      <3>5. ASSUME NEW i \in 1 .. Len(messages')
            PROVE  messages'[i] = (taken - Len(messages)) + i
        <4>1. i \in 1 .. Len(messages) \/ i = Len(messages) + 1
          BY <3>2, <3>3
        <4>2. taken + 1 = (taken - Len(messages)) + (Len(messages) + 1)
          BY <3>2
        <4> QED
          BY <3>2, <3>3, <4>1, <4>2
      <3>6. Arrived(stored, taken - Len(messages), taken + 1)
        <4>1. taken - Len(messages) .. taken \subseteq taken - Len(messages) .. taken + 1
          BY <3>2
        <4> QED
          BY <3>2, <4>1 DEF Arrived
      <3> QED
        BY <3>1, <3>2, <3>3, <3>4, <3>5, <3>6
    <2>3. ASSUME ScribeSend \/ ScribeSendThrows PROVE BatchInv'
      <3>1. /\ device' = device /\ taken' = taken
            /\ \/ stored' = stored /\ messages' = messages
               \/ stored' = stored \o messages /\ messages' = <<>>
               \/ stored' = stored \o messages /\ messages' = messages
        BY <2>3 DEF ScribeSend, ScribeSendThrows
      <3>2. CASE stored' = stored /\ messages' = messages
        BY <2>1, <3>1, <3>2
      <3> SUFFICES ASSUME device = "scribe", stored' = stored \o messages,
                          messages' = <<>> \/ messages' = messages
                   PROVE  BatchInv'
        BY <3>1, <3>2 DEF BatchInv
      <3>3. /\ stored \o messages \in Seq(Nat) /\ taken \in Nat /\ messages \in Seq(Nat)
            /\ Arrived(stored \o messages, taken - Len(messages), taken)
            /\ Arrived(stored \o messages, taken, taken)
        BY BatchArrives DEF BatchInv
      <3>4. CASE messages' = <<>>
        <4>1. Len(<<>>) = 0 /\ <<>> \in Seq(Nat) /\ taken - 0 = taken /\ 0 <= taken
          BY <3>3
        <4> QED
          BY <3>1, <3>3, <3>4, <4>1 DEF BatchInv
      <3>5. CASE messages' = messages
        BY <3>1, <3>3, <3>5 DEF BatchInv
      <3> QED
        BY <3>4, <3>5
    <2>4. CASE \/ Log \/ Tick \/ (\E path \in Paths : SetFilePath(path))
               \/ FailureSignalHandler \/ CloseCheck \/ CloseFile
      <3>1. UNCHANGED <<device, taken, messages, stored>>
        BY <2>4 DEF Log, Tick, SetFilePath, FailureSignalHandler, CloseCheck,
                    CloseFile, scribeVars
      <3> QED
        BY <2>1, <3>1
    <2>5. CASE \/ RunFlush \/ LogFDOpen \/ LogFDCheck \/ LogFDRename \/ WriteLog
               \/ ScribeOpen \/ UNCHANGED outputVars
      <3>1. UNCHANGED <<device, taken, messages, stored>>
        BY <2>5 DEF RunFlush, LogFDOpen, LogFDCheck, LogFDRename, WriteLog,
                    ScribeOpen, outputVars, scribeVars
      <3> QED
        BY <2>1, <3>1
    <2> QED
      BY <2>2, <2>3, <2>4, <2>5 DEF OutputNext
  <1>3. BatchInv => AtLeastOnceInOrder
    <2> SUFFICES ASSUME BatchInv, device = "scribe"
                 PROVE  /\ Range(stored) \cup Range(messages) = 1 .. taken
                        /\ \A n \in Range(stored) : 1 .. n \subseteq Range(stored)
                        /\ \A i \in DOMAIN stored : i > 1 => stored[i] <= stored[i - 1] + 1
      BY DEF AtLeastOnceInOrder, ToSet, Range
    <2> DEFINE b == taken - Len(messages)
    <2>1. /\ taken \in Nat /\ messages \in Seq(Nat) /\ stored \in Seq(Nat)
          /\ Len(messages) <= taken /\ Len(messages) \in Nat
          /\ \A i \in 1 .. Len(messages) : messages[i] = b + i
          /\ Arrived(stored, b, taken)
      BY LenProperties DEF BatchInv
    <2>2. PICK m \in b .. taken : Range(stored) = 1 .. m
      BY <2>1 DEF Arrived
    <2>3. \A x : x \in Range(messages) <=> x \in b + 1 .. taken
      <3>1. DOMAIN messages = 1 .. Len(messages)
        BY <2>1, LenProperties
      <3>2. Range(messages) = {b + i : i \in 1 .. Len(messages)}
        BY <2>1, <3>1 DEF Range
      <3>3. \A x \in b + 1 .. taken : x - b \in 1 .. Len(messages) /\ x = b + (x - b)
        BY <2>1
      <3>4. \A i \in 1 .. Len(messages) : b + i \in b + 1 .. taken
        BY <2>1
      <3> QED
        BY <3>2, <3>3, <3>4
    <2>4. b \in Nat
      BY <2>1
    <2> HIDE DEF b
    <2>5. Range(stored) \cup Range(messages) = 1 .. taken
      BY <2>1, <2>2, <2>3, <2>4
    <2>6. \A n \in Range(stored) : 1 .. n \subseteq Range(stored)
      BY <2>1, <2>2, <2>4
    <2>7. \A i \in DOMAIN stored : i > 1 => stored[i] <= stored[i - 1] + 1
      <3>1. DOMAIN stored = 1 .. Len(stored) /\ Len(stored) \in Nat
        BY <2>1, LenProperties
      <3>2. \A i \in 1 .. Len(stored) : i > 1 => i \in 2 .. Len(stored)
        BY <3>1
      <3> QED
        BY <2>1, <3>1, <3>2 DEF Arrived
    <2> QED
      BY <2>5, <2>6, <2>7
  <1> QED
    BY <1>1, <1>2, <1>3, PTL DEF OutputSpec

-----------------------------------------------------------------------------
(* LogOutput: the files.                                                   *)

\* What a stack of files holds.
LEMMA FlattenRange ==
    ASSUME NEW bufs \in Seq(Seq(LineNo))
    PROVE  \A x : x \in Range(FlattenSeq(bufs)) <=> \E i \in 1 .. Len(bufs) : x \in Range(bufs[i])
  <1> DEFINE V == Seq(LineNo)
             T == {s \in Seq(V) : \A x : x \in Range(FlattenSeq(s))
                                           <=> \E i \in 1 .. Len(s) : x \in Range(s[i])}
  <1>1. <<>> \in T
    <2>1. <<>> \in Seq(V) /\ Len(<<>>) = 0 /\ FlattenSeq(<<>>) = <<>> /\ Range(<<>>) = {} /\ 1 .. 0 = {}
      BY EmptySeq, FlattenEmpty DEF Range
    <2> QED
      BY <2>1
  <1>2. ASSUME NEW s \in Seq(V), NEW e \in V, s \in T PROVE Append(s, e) \in T
    <2> DEFINE u == Append(s, e)
    <2>1. /\ u \in Seq(V) /\ Len(u) = Len(s) + 1 /\ Len(s) \in Nat
          /\ \A i \in 1 .. Len(s) : u[i] = s[i]
          /\ u[Len(s) + 1] = e
      BY AppendProperties, LenProperties
    <2>2. FlattenSeq(s) \in Seq(LineNo)
      BY FlattenType
    <2>3. Range(FlattenSeq(u)) = Range(FlattenSeq(s)) \cup Range(e)
      <3>1. FlattenSeq(u) = FlattenSeq(s) \o e
        BY <2>2, FlattenAppend
      <3> QED
        BY <2>2, <3>1, RangeConcatenation
    <2> HIDE DEF u
    <2>4. \A i : i \in 1 .. Len(u) <=> i \in 1 .. Len(s) \/ i = Len(s) + 1
      BY <2>1
    <2>5. \A x : x \in Range(FlattenSeq(u)) <=> \E i \in 1 .. Len(u) : x \in Range(u[i])
      <3> SUFFICES ASSUME NEW x
                   PROVE  x \in Range(FlattenSeq(u)) <=> \E i \in 1 .. Len(u) : x \in Range(u[i])
        OBVIOUS
      <3>1. x \in Range(FlattenSeq(s)) <=> \E i \in 1 .. Len(s) : x \in Range(s[i])
        BY <1>2
      <3>2. (\E i \in 1 .. Len(u) : x \in Range(u[i]))
              <=> (\E i \in 1 .. Len(s) : x \in Range(s[i])) \/ x \in Range(e)
        BY <2>1, <2>4
      <3> QED
        BY <2>3, <3>1, <3>2
    <2> QED
      BY <2>1, <2>5 DEF u
  <1>3. Seq(V) \subseteq T
    <2> HIDE DEF T, V
    <2> QED
      BY <1>1, <1>2, SeqInduction
  <1> QED
    BY <1>3

\* A stack of files is in order when every file is and each is older than the
\* ones above it.
LEMMA FlattenOrdered ==
    ASSUME NEW bufs \in Seq(Seq(LineNo)),
           \A i \in 1 .. Len(bufs) : Ordered(bufs[i]),
           \A i, j \in 1 .. Len(bufs) : i < j => Before(bufs[i], bufs[j]),
           NEW top \in Seq(LineNo), \A i \in 1 .. Len(bufs) : Before(bufs[i], top)
    PROVE  Ordered(FlattenSeq(bufs)) /\ Before(FlattenSeq(bufs), top)
  <1> DEFINE V == Seq(LineNo)
             Sorted(s) == /\ \A i \in 1 .. Len(s) : Ordered(s[i])
                          /\ \A i, j \in 1 .. Len(s) : i < j => Before(s[i], s[j])
             Below(s, c) == \A i \in 1 .. Len(s) : Before(s[i], c)
             T == {s \in Seq(V) :
                     Sorted(s) => /\ Ordered(FlattenSeq(s))
                                  /\ \A c \in V : Below(s, c) => Before(FlattenSeq(s), c)}
  <1>0. \A s \in Seq(LineNo) : s \in Seq(Int)
    <2>1. LineNo \subseteq Int
      BY DEF LineNo
    <2> QED
      BY <2>1, SeqMonotonic
  <1>1. <<>> \in T
    <2>1. <<>> \in Seq(V) /\ FlattenSeq(<<>>) = <<>>
      BY EmptySeq, FlattenEmpty
    <2>2. Ordered(<<>>) /\ \A c : Before(<<>>, c)
      BY DEF Ordered, Before
    <2> QED
      BY <2>1, <2>2
  <1>2. ASSUME NEW s \in Seq(V), NEW e \in V, s \in T PROVE Append(s, e) \in T
    <2> DEFINE u == Append(s, e)
    <2>1. /\ u \in Seq(V) /\ Len(u) = Len(s) + 1 /\ Len(s) \in Nat
          /\ \A i \in 1 .. Len(s) : u[i] = s[i]
          /\ u[Len(s) + 1] = e
      BY AppendProperties, LenProperties
    <2>2. FlattenSeq(s) \in Seq(LineNo) /\ FlattenSeq(u) = FlattenSeq(s) \o e
      BY FlattenType, FlattenAppend
    <2> HIDE DEF u
    <2>3. \A i \in 1 .. Len(s) : i \in 1 .. Len(u) /\ i < Len(s) + 1 /\ Len(s) + 1 \in 1 .. Len(u)
      BY <2>1
    <2>4. Len(s) + 1 \in 1 .. Len(u)
      BY <2>1
    <2> SUFFICES ASSUME Sorted(u)
                 PROVE  /\ Ordered(FlattenSeq(s) \o e)
                        /\ \A c \in V : Below(u, c) => Before(FlattenSeq(s) \o e, c)
      BY <2>1, <2>2 DEF u
    <2>5. Sorted(s) /\ Below(s, e) /\ Ordered(e)
      <3>1. \A i \in 1 .. Len(s) : Ordered(s[i])
        BY <2>1, <2>3
      <3>2. \A i, j \in 1 .. Len(s) : i < j => Before(s[i], s[j])
        BY <2>1, <2>3
      <3>3. \A i \in 1 .. Len(s) : Before(s[i], e)
        BY <2>1, <2>3
      <3>4. Ordered(e)
        BY <2>1, <2>4
      <3> QED
        BY <3>1, <3>2, <3>3, <3>4
    <2>6. Ordered(FlattenSeq(s)) /\ \A c \in V : Below(s, c) => Before(FlattenSeq(s), c)
      BY <1>2, <2>5
    <2>7. FlattenSeq(s) \in Seq(Int) /\ e \in Seq(Int) /\ \A c \in V : c \in Seq(Int)
      BY <1>0, <2>2
    <2>8. Ordered(FlattenSeq(s) \o e)
      BY <2>5, <2>6, <2>7, OrderedConcat
    <2>9. ASSUME NEW c \in V, Below(u, c) PROVE Before(FlattenSeq(s) \o e, c)
      <3>1. Below(s, c)
        BY <2>1, <2>3, <2>9
      <3>2. Before(e, c)
        BY <2>1, <2>4, <2>9
      <3>3. Before(FlattenSeq(s), c)
        BY <2>6, <3>1
      <3> QED
        BY <2>7, <3>2, <3>3, BeforeConcat
    <2> QED
      BY <2>8, <2>9
  <1>3. Seq(V) \subseteq T
    <2> HIDE DEF T, V
    <2> QED
      BY <1>1, <1>2, SeqInduction
  <1>4. bufs \in T
    BY <1>3
  <1>5. Sorted(bufs) /\ Below(bufs, top)
    OBVIOUS
  <1> QED
    BY <1>4, <1>5

\* The seconds a name can carry; 0 is the current file, the youngest.
Times == 0 .. MaxClock

Older(s, t) == s # 0 /\ (t = 0 \/ s < t)

\* What the file of directory p and second t holds, and what all the files do.
Held(fs, p, t) == Content(fs, <<p, t>>)
Disk(fs)       == {x \in LineNo : \E p \in Paths, t \in Times : x \in Range(Held(fs, p, t))}

\* Files fs and buffer b hold chunks up to n, each file in order, an older file
\* of a directory before a younger one, every file before the buffer; and no
\* name carries a second after c.
Store(fs, b, n, c) ==
    /\ \A p \in Paths, t \in Times : t > c => <<p, t>> \notin DOMAIN fs
    /\ \A p \in Paths, t \in Times :
          /\ Held(fs, p, t) \in Seq(LineNo) /\ Ordered(Held(fs, p, t)) /\ UpTo(Held(fs, p, t), n)
          /\ Before(Held(fs, p, t), b)
    /\ \A p \in Paths, s, t \in Times : Older(s, t) => Before(Held(fs, p, s), Held(fs, p, t))
    /\ b \in Seq(LineNo) /\ Ordered(b) /\ UpTo(b, n)

\* The empty sequence is in order, before and after everything.
LEMMA EmptyFile ==
    /\ <<>> \in Seq(LineNo) /\ Ordered(<<>>) /\ Range(<<>>) = {}
    /\ \A s : Before(s, <<>>) /\ Before(<<>>, s)
    /\ \A n : UpTo(<<>>, n)
  BY EmptySeq DEF Ordered, Before, UpTo, Range

\* What Put changes.
LEMMA PutHeld ==
    ASSUME NEW fs, NEW p, NEW t, NEW c
    PROVE  LET g == Put(fs, <<p, t>>, c)
           IN  /\ \A q, s : Held(g, q, s) = IF q = p /\ s = t THEN c ELSE Held(fs, q, s)
               /\ \A q, s : <<q, s>> \in DOMAIN g <=> <<q, s>> \in DOMAIN fs \/ (q = p /\ s = t)
  <1> DEFINE x == <<p, t>>
             g == Put(fs, x, c)
  <1>1. DOMAIN g = DOMAIN fs \cup {x} /\ g[x] = c /\ \A m \in DOMAIN fs : m # x => g[m] = fs[m]
    BY DEF Put
  <1>2. \A q, s : <<q, s>> = x <=> q = p /\ s = t
    OBVIOUS
  <1> HIDE DEF g, x
  <1>3. \A m : Content(g, m) = IF m = x THEN c ELSE Content(fs, m)
    BY <1>1 DEF Content
  <1> QED
    BY <1>1, <1>2, <1>3 DEF Held, g, x

\* Opening the current file to append: it exists, and holds what it held.
LEMMA OpenStore ==
    ASSUME NEW fs, NEW b, NEW n, NEW c \in Nat, NEW d, Store(fs, b, n, c)
    PROVE  LET g == Put(fs, <<d, 0>>, Content(fs, <<d, 0>>))
           IN  Store(g, b, n, c) /\ Disk(g) = Disk(fs)
  <1> DEFINE old == Content(fs, <<d, 0>>)
             g == Put(fs, <<d, 0>>, old)
  <1>1. old = Held(fs, d, 0)
    BY DEF Held
  <1> HIDE DEF old
  <1>2. /\ \A p, t : Held(g, p, t) = IF p = d /\ t = 0 THEN old ELSE Held(fs, p, t)
        /\ \A p, t : <<p, t>> \in DOMAIN g <=> <<p, t>> \in DOMAIN fs \/ (p = d /\ t = 0)
    BY PutHeld
  <1> HIDE DEF g
  <1>3. \A p, t : Held(g, p, t) = Held(fs, p, t)
    BY <1>1, <1>2
  <1>4. \A t \in Times : t > c => t # 0
    BY DEF Times
  <1>5. \A p \in Paths, t \in Times : t > c => <<p, t>> \notin DOMAIN g
    BY <1>2, <1>4 DEF Store
  <1>6. Store(g, b, n, c)
    BY <1>3, <1>5 DEF Store
  <1>7. Disk(g) = Disk(fs)
    BY <1>3 DEF Disk
  <1> QED
    BY <1>6, <1>7 DEF g, old

\* A flush, or a close: the buffer goes to the end of the current file.
LEMMA FlushStore ==
    ASSUME NEW fs, NEW b, NEW n \in Nat, NEW c \in Nat, NEW d \in Paths,
           Store(fs, b, n, c)
    PROVE  LET g == Put(fs, <<d, 0>>, Content(fs, <<d, 0>>) \o b)
           IN  Store(g, <<>>, n, c) /\ Disk(g) = Disk(fs) \cup Range(b)
  <1> DEFINE old == Held(fs, d, 0)
             new == old \o b
             g == Put(fs, <<d, 0>>, new)
  <1>1. /\ \A q, s : Held(g, q, s) = IF q = d /\ s = 0 THEN new ELSE Held(fs, q, s)
        /\ \A q, s : <<q, s>> \in DOMAIN g <=> <<q, s>> \in DOMAIN fs \/ (q = d /\ s = 0)
    <2> HIDE DEF new
    <2> QED
      BY PutHeld
  <1>2. g = Put(fs, <<d, 0>>, Content(fs, <<d, 0>>) \o b)
    BY DEF Held
  <1>3. 0 \in Times /\ \A t \in Times : t \in Nat
    BY LogOutputAssumption DEF Times
  <1>4. /\ old \in Seq(LineNo) /\ b \in Seq(LineNo) /\ Ordered(old) /\ Ordered(b)
        /\ Before(old, b) /\ UpTo(old, n) /\ UpTo(b, n)
    BY <1>3 DEF Store
  <1>5. \A s \in Seq(LineNo) : s \in Seq(Int)
    <2>1. LineNo \subseteq Int
      BY DEF LineNo
    <2> QED
      BY <2>1, SeqMonotonic
  <1> HIDE DEF old, g
  <1>6. new \in Seq(LineNo) /\ Ordered(new) /\ UpTo(new, n) /\ Range(new) = Range(old) \cup Range(b)
    <2>1. new \in Seq(LineNo)
      BY <1>4, ConcatProperties
    <2>2. Ordered(new)
      BY <1>4, <1>5, OrderedConcat
    <2>3. UpTo(new, n)
      <3>1. n \in Int
        OBVIOUS
      <3> QED
        BY <1>4, <1>5, <3>1, BeforeConcat
    <2> QED
      BY <1>4, <2>1, <2>2, <2>3, RangeConcatenation
  <1>7. \A s \in Times : Older(s, 0) => Before(Held(fs, d, s), new)
    <2> SUFFICES ASSUME NEW s \in Times, Older(s, 0) PROVE Before(Held(fs, d, s), new)
      OBVIOUS
    <2>1. Held(fs, d, s) \in Seq(LineNo) /\ Before(Held(fs, d, s), old) /\ Before(Held(fs, d, s), b)
      BY <1>3 DEF Store, old
    <2>2. Held(fs, d, s) \in Seq(Int) /\ old \in Seq(Int) /\ b \in Seq(Int) /\ n \in Int
      BY <1>4, <1>5, <2>1
    <2> QED
      BY <2>1, <2>2, BeforeConcat
  <1> HIDE DEF new
  <1>8. \A t : ~Older(0, t)
    BY DEF Older
  <1>9. Store(g, <<>>, n, c)
    <2>1. \A p \in Paths, t \in Times : t > c => <<p, t>> \notin DOMAIN g
      <3> SUFFICES ASSUME NEW p \in Paths, NEW t \in Times, t > c PROVE <<p, t>> \notin DOMAIN g
        OBVIOUS
      <3>1. t # 0 /\ <<p, t>> \notin DOMAIN fs
        BY <1>3 DEF Store
      <3> QED
        BY <1>1, <3>1
    <2>2. \A p \in Paths, t \in Times :
            /\ Held(g, p, t) \in Seq(LineNo) /\ Ordered(Held(g, p, t)) /\ UpTo(Held(g, p, t), n)
            /\ Before(Held(g, p, t), <<>>)
      BY <1>1, <1>6, EmptyFile DEF Store
    <2>3. \A p \in Paths, s, t \in Times : Older(s, t) => Before(Held(g, p, s), Held(g, p, t))
      <3> SUFFICES ASSUME NEW p \in Paths, NEW s \in Times, NEW t \in Times, Older(s, t)
                   PROVE  Before(Held(g, p, s), Held(g, p, t))
        OBVIOUS
      <3>1. s # 0
        BY <1>8
      <3>2. Held(g, p, s) = Held(fs, p, s)
        BY <1>1, <3>1
      <3>3. CASE p = d /\ t = 0
        BY <1>1, <1>7, <3>2, <3>3
      <3>4. CASE ~(p = d /\ t = 0)
        <4>1. Held(g, p, t) = Held(fs, p, t)
          BY <1>1, <3>4
        <4> QED
          BY <3>2, <4>1 DEF Store
      <3> QED
        BY <3>3, <3>4
    <2> QED
      BY <2>1, <2>2, <2>3, EmptyFile DEF Store
  <1>10. Disk(g) = Disk(fs) \cup Range(b)
    <2>1. Range(b) \subseteq LineNo
      <3>1. \A i \in 1 .. Len(b) : b[i] \in LineNo
        BY <1>4, ElementOfSeq
      <3>2. DOMAIN b = 1 .. Len(b)
        BY <1>4, LenProperties
      <3> QED
        BY <3>1, <3>2 DEF Range
    <2>2. ASSUME NEW x \in LineNo PROVE x \in Disk(g) <=> x \in Disk(fs) \cup Range(b)
      <3>1. x \in Disk(g) => x \in Disk(fs) \cup Range(b)
        <4> SUFFICES ASSUME NEW p \in Paths, NEW t \in Times, x \in Range(Held(g, p, t))
                     PROVE  x \in Disk(fs) \cup Range(b)
          BY DEF Disk
        <4>1. CASE p = d /\ t = 0
          <5>1. x \in Range(old) \/ x \in Range(b)
            BY <1>1, <1>6, <4>1
          <5> QED
            BY <1>3, <5>1 DEF Disk, old
        <4>2. CASE ~(p = d /\ t = 0)
          BY <1>1, <4>2 DEF Disk
        <4> QED
          BY <4>1, <4>2
      <3>2. x \in Range(b) => x \in Disk(g)
        <4>1. Held(g, d, 0) = new
          BY <1>1
        <4> QED
          BY <1>3, <1>6, <4>1 DEF Disk
      <3>3. x \in Disk(fs) => x \in Disk(g)
        <4> SUFFICES ASSUME NEW p \in Paths, NEW t \in Times, x \in Range(Held(fs, p, t))
                     PROVE  x \in Range(Held(g, p, t))
          BY DEF Disk
        <4>1. CASE p = d /\ t = 0
          BY <1>1, <1>6, <4>1 DEF old
        <4>2. CASE ~(p = d /\ t = 0)
          BY <1>1, <4>2
        <4> QED
          BY <4>1, <4>2
      <3> QED
        BY <3>1, <3>2, <3>3
    <2> QED
      BY <2>1, <2>2 DEF Disk
  <1> QED
    BY <1>2, <1>9, <1>10

\* A rename: the current file becomes the youngest of the old ones.
LEMMA RenameStore ==
    ASSUME NEW fs, NEW n, NEW c \in 1 .. MaxClock, NEW d \in Paths,
           Store(fs, <<>>, n, c), <<d, 0>> \in DOMAIN fs, <<d, c>> \notin DOMAIN fs
    PROVE  LET g == Put(Put(fs, <<d, c>>, fs[<<d, 0>>]), <<d, 0>>, <<>>)
           IN  Store(g, <<>>, n, c) /\ Disk(g) = Disk(fs)
  <1> DEFINE cur == fs[<<d, 0>>]
             h == Put(fs, <<d, c>>, cur)
             g == Put(h, <<d, 0>>, <<>>)
  <1>1. /\ \A q, s : Held(h, q, s) = IF q = d /\ s = c THEN cur ELSE Held(fs, q, s)
        /\ \A q, s : <<q, s>> \in DOMAIN h <=> <<q, s>> \in DOMAIN fs \/ (q = d /\ s = c)
    BY PutHeld
  <1>2. /\ \A q, s : Held(g, q, s) = IF q = d /\ s = 0 THEN <<>> ELSE Held(h, q, s)
        /\ \A q, s : <<q, s>> \in DOMAIN g <=> <<q, s>> \in DOMAIN h \/ (q = d /\ s = 0)
    BY PutHeld
  <1>3. cur = Held(fs, d, 0) /\ Held(fs, d, c) = <<>>
    BY DEF Held, Content
  <1> HIDE DEF h, g, cur
  <1>4. c # 0 /\ c \in Times /\ 0 \in Times /\ c \in Nat /\ \A t \in Times : t \in Nat
    BY LogOutputAssumption DEF Times
  <1>5. \A t \in Times : t > c => Held(fs, d, t) = <<>>
    BY DEF Store, Held, Content
  <1>6. \A q, s : Held(g, q, s) = IF q = d /\ s = 0 THEN <<>>
                                  ELSE IF q = d /\ s = c THEN cur ELSE Held(fs, q, s)
    BY <1>1, <1>2
  <1>7. cur \in Seq(LineNo) /\ Ordered(cur) /\ UpTo(cur, n)
    BY <1>3, <1>4 DEF Store
  <1>8. \A s \in Times : Older(s, 0) => Before(Held(fs, d, s), cur)
    BY <1>3, <1>4 DEF Store
  <1>9. Store(g, <<>>, n, c)
    <2>1. \A p \in Paths, t \in Times : t > c => <<p, t>> \notin DOMAIN g
      <3> SUFFICES ASSUME NEW p \in Paths, NEW t \in Times, t > c PROVE <<p, t>> \notin DOMAIN g
        OBVIOUS
      <3>1. t # 0 /\ t # c /\ <<p, t>> \notin DOMAIN fs
        BY <1>4 DEF Store
      <3> QED
        BY <1>1, <1>2, <3>1
    <2>2. \A p \in Paths, t \in Times :
            /\ Held(g, p, t) \in Seq(LineNo) /\ Ordered(Held(g, p, t)) /\ UpTo(Held(g, p, t), n)
            /\ Before(Held(g, p, t), <<>>)
      BY <1>6, <1>7, EmptyFile DEF Store
    <2>3. \A p \in Paths, s, t \in Times : Older(s, t) => Before(Held(g, p, s), Held(g, p, t))
      <3> SUFFICES ASSUME NEW p \in Paths, NEW s \in Times, NEW t \in Times, Older(s, t)
                   PROVE  Before(Held(g, p, s), Held(g, p, t))
        OBVIOUS
      <3>1. CASE p # d
        <4>1. Held(g, p, s) = Held(fs, p, s) /\ Held(g, p, t) = Held(fs, p, t)
          BY <1>6, <3>1
        <4> QED
          BY <4>1 DEF Store
      <3>2. CASE p = d /\ t = 0
        BY <1>6, <3>2, EmptyFile
      <3>3. CASE p = d /\ t # 0 /\ s = c
        <4>1. t > c /\ t # c
          BY <1>4, <3>3 DEF Older
        <4>2. Held(g, p, t) = <<>>
          BY <1>5, <1>6, <3>3, <4>1
        <4> QED
          BY <4>2, EmptyFile
      <3>4. CASE p = d /\ t # 0 /\ s # c
        <4>1. s # 0 /\ Older(s, 0)
          BY DEF Older
        <4>2. Held(g, p, s) = Held(fs, d, s)
          BY <1>6, <3>4, <4>1
        <4>3. CASE t = c
          BY <1>6, <1>8, <3>4, <4>1, <4>2, <4>3
        <4>4. CASE t # c
          <5>1. Held(g, p, t) = Held(fs, d, t)
            BY <1>6, <3>4, <4>4
          <5> QED
            BY <4>2, <5>1 DEF Store
        <4> QED
          BY <4>3, <4>4
      <3> QED
        BY <3>1, <3>2, <3>3, <3>4
    <2> QED
      BY <2>1, <2>2, <2>3, EmptyFile DEF Store
  <1>10. Disk(g) = Disk(fs)
    <2>1. ASSUME NEW x, NEW p \in Paths, NEW t \in Times, x \in Range(Held(g, p, t))
          PROVE  \E s \in Times : x \in Range(Held(fs, p, s))
      <3>1. CASE p = d /\ t = 0
        BY <1>6, <2>1, <3>1, EmptyFile
      <3>2. CASE p = d /\ t = c /\ t # 0
        BY <1>3, <1>4, <1>6, <2>1, <3>2
      <3>3. CASE ~(p = d /\ (t = 0 \/ t = c))
        BY <1>6, <2>1, <3>3
      <3> QED
        BY <3>1, <3>2, <3>3
    <2>2. ASSUME NEW x, NEW p \in Paths, NEW t \in Times, x \in Range(Held(fs, p, t))
          PROVE  \E s \in Times : x \in Range(Held(g, p, s))
      <3>1. CASE p = d /\ t = 0
        <4>1. Held(g, d, c) = Held(fs, d, 0)
          BY <1>3, <1>4, <1>6
        <4> QED
          BY <1>4, <2>2, <3>1, <4>1
      <3>2. CASE p = d /\ t = c
        BY <1>3, <2>2, <3>2, EmptyFile
      <3>3. CASE ~(p = d /\ (t = 0 \/ t = c))
        BY <1>6, <2>2, <3>3
      <3> QED
        BY <3>1, <3>2, <3>3
    <2> QED
      BY <2>1, <2>2 DEF Disk
  <1> QED
    BY <1>9, <1>10 DEF g, h, cur

\* A write: the next chunk goes to the end of the buffer.
LEMMA WriteStore ==
    ASSUME NEW fs, NEW b, NEW n \in Nat, NEW c, Store(fs, b, n, c)
    PROVE  /\ Store(fs, Append(b, n + 1), n + 1, c)
           /\ Range(Append(b, n + 1)) = Range(b) \cup {n + 1}
  <1> DEFINE e == <<n + 1>>
  <1>1. \A s \in Seq(LineNo) : s \in Seq(Int)
    <2>1. LineNo \subseteq Int
      BY DEF LineNo
    <2> QED
      BY <2>1, SeqMonotonic
  <1>2. b \in Seq(LineNo) /\ Ordered(b) /\ UpTo(b, n) /\ n \in Int /\ n + 1 \in Int /\ n + 1 \in LineNo
    BY DEF Store, LineNo
  <1>3. /\ e \in Seq(LineNo) /\ Ordered(e) /\ UpTo(e, n + 1) /\ Range(e) = {n + 1}
        /\ DOMAIN e = {1} /\ e[1] = n + 1
    BY <1>2 DEF Ordered, UpTo, Range
  <1>4. Append(b, n + 1) = b \o e
    BY <1>2, AppendIsConcat
  <1> HIDE DEF e
  <1>5. ASSUME NEW s \in Seq(LineNo), UpTo(s, n) PROVE Before(s, e) /\ UpTo(s, n + 1)
    <2>1. \A i \in DOMAIN s : s[i] \in Int /\ s[i] <= n
      BY <1>1, <1>5, LenProperties, ElementOfSeq DEF UpTo
    <2> QED
      BY <1>2, <1>3, <2>1 DEF Before, UpTo
  <1>6. b \in Seq(Int) /\ e \in Seq(Int)
    BY <1>1, <1>2, <1>3
  <1>7. b \o e \in Seq(LineNo) /\ Ordered(b \o e) /\ UpTo(b \o e, n + 1)
    <2>1. b \o e \in Seq(LineNo)
      BY <1>2, <1>3, ConcatProperties
    <2>2. Before(b, e) /\ UpTo(b, n + 1)
      BY <1>2, <1>5
    <2>3. Ordered(b \o e)
      BY <1>2, <1>3, <1>6, <2>2, OrderedConcat
    <2>4. UpTo(b \o e, n + 1)
      BY <1>2, <1>3, <1>6, <2>2, BeforeConcat
    <2> QED
      BY <2>1, <2>3, <2>4
  <1>8. ASSUME NEW p \in Paths, NEW t \in Times
        PROVE  UpTo(Held(fs, p, t), n + 1) /\ Before(Held(fs, p, t), b \o e)
    <2>1. Held(fs, p, t) \in Seq(LineNo) /\ UpTo(Held(fs, p, t), n) /\ Before(Held(fs, p, t), b)
      BY DEF Store
    <2>2. Before(Held(fs, p, t), e) /\ UpTo(Held(fs, p, t), n + 1) /\ Held(fs, p, t) \in Seq(Int)
      BY <1>1, <1>5, <2>1
    <2> QED
      BY <1>2, <1>6, <2>1, <2>2, BeforeConcat
  <1>9. Range(b \o e) = Range(b) \cup {n + 1}
    BY <1>2, <1>3, RangeConcatenation
  <1>10. Store(fs, b \o e, n + 1, c)
    BY <1>7, <1>8 DEF Store
  <1> QED
    BY <1>4, <1>9, <1>10

\* What is read back from such files.
LEMMA ReadBack ==
    ASSUME NEW fs, NEW b, NEW n, NEW c, Store(fs, b, n, c)
    PROVE  /\ \A p \in Paths : Increasing(History(fs, p))
           /\ OnDisk(fs) = Disk(fs)
  <1> DEFINE backups(p) == [t \in 1 .. MaxClock |-> Held(fs, p, t)]
             hist(p) == FlattenSeq(backups(p)) \o Held(fs, p, 0)
  <1>1. 0 \in Times /\ (\A t \in 1 .. MaxClock : t \in Times /\ t # 0) /\ \A t \in Times : t = 0 \/ t \in 1 .. MaxClock
    BY LogOutputAssumption DEF Times
  <1>2. \A p \in Paths, t \in Times : Held(fs, p, t) \in Seq(LineNo) /\ Ordered(Held(fs, p, t))
    BY DEF Store
  <1>3. ASSUME NEW p \in Paths
        PROVE  /\ backups(p) \in Seq(Seq(LineNo)) /\ Len(backups(p)) = MaxClock
               /\ \A t \in 1 .. MaxClock : backups(p)[t] = Held(fs, p, t)
    <2> DEFINE V == Seq(LineNo)
    <2>1. \A t \in 1 .. MaxClock : Held(fs, p, t) \in V
      BY <1>1, <1>2
    <2> HIDE DEF V
    <2>2. backups(p) \in [1 .. MaxClock -> V]
      BY <2>1
    <2>3. backups(p) \in Seq(V) /\ Len(backups(p)) = MaxClock
      <3> DEFINE f == backups(p)
      <3>1. f \in [1 .. MaxClock -> V]
        BY <2>2
      <3> HIDE DEF f
      <3>2. f \in Seq(V)
        BY <3>1, LogOutputAssumption
      <3>3. Len(f) = MaxClock
        BY <3>1, <3>2, LenProperties, LogOutputAssumption
      <3> QED
        BY <3>2, <3>3 DEF f
    <2> QED
      BY <2>3 DEF V
  <1>4. \A p : History(fs, p) = hist(p)
    BY DEF History, Backup, Current, Held
  <1> HIDE DEF backups
  <1>5. ASSUME NEW p \in Paths
        PROVE  /\ hist(p) \in Seq(LineNo) /\ Ordered(hist(p))
               /\ \A x : x \in Range(hist(p)) <=> \E t \in Times : x \in Range(Held(fs, p, t))
    <2> DEFINE B == backups(p)
               F == FlattenSeq(B)
               top == Held(fs, p, 0)
    <2>1. /\ B \in Seq(Seq(LineNo)) /\ Len(B) = MaxClock
          /\ \A t \in 1 .. MaxClock : B[t] = Held(fs, p, t)
      BY <1>3
    <2>2. top \in Seq(LineNo) /\ Ordered(top)
      BY <1>1, <1>2
    <2> HIDE DEF B
    <2>3. F \in Seq(LineNo)
      BY <2>1, FlattenType
    <2>4. \A i \in 1 .. Len(B) : Ordered(B[i]) /\ Before(B[i], top)
      BY <1>1, <1>2, <2>1 DEF Store, Older
    <2>5. \A i, j \in 1 .. Len(B) : i < j => Before(B[i], B[j])
      BY <1>1, <2>1 DEF Store, Older
    <2>6. Ordered(F) /\ Before(F, top)
      BY <2>1, <2>2, <2>4, <2>5, FlattenOrdered
    <2>7. \A s \in Seq(LineNo) : s \in Seq(Int)
      <3>1. LineNo \subseteq Int
        BY DEF LineNo
      <3> QED
        BY <3>1, SeqMonotonic
    <2>8. \A x : x \in Range(F) <=> \E i \in 1 .. MaxClock : x \in Range(Held(fs, p, i))
      <3>1. \A x : x \in Range(F) <=> \E i \in 1 .. Len(B) : x \in Range(B[i])
        BY <2>1, FlattenRange
      <3> QED
        BY <2>1, <3>1
    <2> HIDE DEF F, top
    <2>9. F \o top \in Seq(LineNo) /\ Range(F \o top) = Range(F) \cup Range(top)
      BY <2>2, <2>3, ConcatProperties, RangeConcatenation
    <2>10. Ordered(F \o top)
      BY <2>2, <2>3, <2>6, <2>7, OrderedConcat
    <2>11. \A x : x \in Range(F \o top) <=> \E t \in Times : x \in Range(Held(fs, p, t))
      BY <1>1, <2>8, <2>9 DEF top
    <2>12. hist(p) = F \o top
      BY DEF F, top, B
    <2> QED
      BY <2>9, <2>10, <2>11, <2>12
  <1> HIDE DEF hist
  <1>6. ASSUME NEW p \in Paths PROVE Increasing(History(fs, p))
    <2>1. hist(p) \in Seq(LineNo) /\ Ordered(hist(p))
      BY <1>5
    <2>2. \A i \in DOMAIN hist(p) : hist(p)[i] > 0
      BY <2>1, LenProperties, ElementOfSeq DEF LineNo
    <2> QED
      BY <1>4, <2>1, <2>2 DEF Increasing, Ordered
  <1>7. ASSUME NEW x PROVE x \in OnDisk(fs) <=> \E p \in Paths, t \in Times : x \in Range(Held(fs, p, t))
    <2>1. x \in OnDisk(fs) <=> \E p \in Paths : x \in Range(History(fs, p))
      BY DEF OnDisk, ToSet, Range
    <2> QED
      BY <1>4, <1>5, <2>1
  <1>8. \A p \in Paths, t \in Times : Range(Held(fs, p, t)) \subseteq LineNo
    <2> SUFFICES ASSUME NEW p \in Paths, NEW t \in Times PROVE Range(Held(fs, p, t)) \subseteq LineNo
      OBVIOUS
    <2>1. Held(fs, p, t) \in Seq(LineNo)
      BY <1>2
    <2>2. DOMAIN Held(fs, p, t) = 1 .. Len(Held(fs, p, t))
          /\ \A i \in 1 .. Len(Held(fs, p, t)) : Held(fs, p, t)[i] \in LineNo
      BY <2>1, LenProperties, ElementOfSeq
    <2> QED
      BY <2>2 DEF Range
  <1> QED
    BY <1>6, <1>7, <1>8 DEF Disk

\* The types of what the log thread and the closers change.
FileTypes ==
    /\ taken \in Nat /\ clock \in 1 .. MaxClock
    /\ g_file_path \in Paths /\ m_log \in Paths \cup {NULL}
    /\ stage \in {"data", "open", "check", "rename", "write"}
    /\ stage # "data" => taken > 0

\* A closed file has no buffer; the log thread writes only to an open file and
\* renames only a closed one.
FileOpen ==
    /\ m_log = NULL => buf = <<>>
    /\ stage = "rename" => m_log = NULL
    /\ stage = "write" /\ logfd = "good" => m_log # NULL

\* The files are in order, and while the process runs, they and the buffer hold
\* every chunk that is done.
FileChunks ==
    /\ Store(files, buf, Done, clock)
    /\ alive => Disk(files) \cup Range(buf) = 1 .. Done
    /\ 1 .. secured \subseteq Disk(files)

\* The inductive invariant of the log thread and the threads that close its file.
FileInv == device = "file" => FileTypes /\ (~disturbed => FileOpen /\ FileChunks)

\* A flush secures what is done.
LEMMA FlushChunks ==
    ASSUME FileTypes, FileChunks, m_log # NULL, alive,
           files' = Flushed, buf' = <<>>, secured' = Done, clock' = clock,
           Done' = Done
    PROVE  FileChunks'
  <1>1. Done \in Nat /\ clock \in Nat /\ m_log \in Paths
    BY DEF FileTypes, Done
  <1>2. files' = Put(files, <<m_log, 0>>, Content(files, <<m_log, 0>>) \o buf)
    BY DEF Flushed, Current
  <1>3. Store(files, buf, Done, clock) /\ Disk(files) \cup Range(buf) = 1 .. Done
    BY DEF FileChunks
  <1>4. Store(files', <<>>, Done, clock) /\ Disk(files') = 1 .. Done
    <2> DEFINE g == Put(files, <<m_log, 0>>, Content(files, <<m_log, 0>>) \o buf)
    <2>1. Store(g, <<>>, Done, clock) /\ Disk(g) = Disk(files) \cup Range(buf)
      BY <1>1, <1>3, FlushStore
    <2>2. files' = g
      BY <1>2
    <2> HIDE DEF g
    <2> QED
      BY <1>3, <2>1, <2>2
  <1>5. Disk(files') \cup Range(<<>>) = 1 .. Done
    BY <1>4, EmptyFile
  <1>6. Store(files', buf', Done', clock') /\ Disk(files') \cup Range(buf') = 1 .. Done'
        /\ 1 .. secured' \subseteq Disk(files')
    BY <1>4, <1>5
  <1> QED
    BY <1>6 DEF FileChunks

\* What does not touch the files keeps what they hold.
LEMMA SameChunks ==
    ASSUME FileChunks, files' = files, buf' = buf, secured' = secured, clock' = clock,
           Done' = Done, alive' => alive
    PROVE  FileChunks'
  <1>1. Store(files', buf', Done', clock')
    BY DEF FileChunks
  <1>2. alive' => Disk(files') \cup Range(buf') = 1 .. Done'
    BY DEF FileChunks
  <1>3. 1 .. secured' \subseteq Disk(files')
    BY DEF FileChunks
  <1> QED
    BY <1>1, <1>2, <1>3 DEF FileChunks

\* The log thread's steps.
LEMMA LogThreadStep ==
    ASSUME FileInv, device = "file",
           \/ RunData \/ RunFlush \/ LogFDOpen \/ LogFDCheck \/ LogFDRename \/ WriteLog
    PROVE  FileInv'
  <1> USE DEF FileInv
  <1>1. ASSUME RunData PROVE FileInv'
    <2>1. /\ taken' = taken + 1 /\ stage = "data" /\ stage' = "open" /\ UNCHANGED <<device, alive>>
          /\ UNCHANGED fileVars
      BY <1>1 DEF RunData
    <2>2. UNCHANGED <<clock, g_file_path, m_log, buf, files, logfd, secured, disturbed>>
      BY <2>1 DEF fileVars
    <2>3. FileTypes'
      BY <2>1, <2>2 DEF FileTypes
    <2>4. Done' = Done
      BY <2>1 DEF Done, FileTypes
    <2>5. ASSUME ~disturbed PROVE FileOpen' /\ FileChunks'
      <3>1. FileOpen'
        BY <2>1, <2>2, <2>5 DEF FileOpen
      <3>2. FileChunks'
        BY <2>1, <2>2, <2>4, <2>5, SameChunks
      <3> QED
        BY <3>1, <3>2
    <2> QED
      BY <2>2, <2>3, <2>5
  <1>2. ASSUME RunFlush PROVE FileInv'
    <2>1. /\ alive /\ m_log # NULL /\ files' = Flushed /\ buf' = <<>> /\ secured' = Done
          /\ UNCHANGED <<device, taken, stage, alive, clock, g_file_path, m_log, logfd, disturbed>>
      BY <1>2 DEF RunFlush
    <2>2. FileTypes' /\ Done' = Done
      BY <2>1 DEF FileTypes, Done
    <2>3. ASSUME ~disturbed PROVE FileOpen' /\ FileChunks'
      <3>1. FileOpen'
        BY <2>1, <2>3 DEF FileOpen
      <3>2. FileChunks'
        BY <2>1, <2>2, <2>3, FlushChunks
      <3> QED
        BY <3>1, <3>2
    <2> QED
      BY <2>1, <2>2, <2>3
  <1>3. ASSUME LogFDOpen PROVE FileInv'
    <2>1. /\ stage = "open"
          /\ UNCHANGED <<device, taken, alive, clock, g_file_path, buf, secured>>
      BY <1>3 DEF LogFDOpen
    <2>2. CASE m_log # NULL /\ stage' = "check" /\ UNCHANGED <<m_log, files, disturbed, logfd>>
      <3>1. FileTypes' /\ Done' = Done
        BY <2>1, <2>2 DEF FileTypes, Done
      <3>2. ASSUME ~disturbed PROVE FileOpen' /\ FileChunks'
        <4>1. FileOpen'
          BY <2>1, <2>2, <3>2 DEF FileOpen
        <4>2. FileChunks'
          BY <2>1, <2>2, <3>1, <3>2, SameChunks
        <4> QED
          BY <4>1, <4>2
      <3> QED
        BY <2>1, <2>2, <3>1, <3>2
    <2>3. CASE /\ m_log = NULL /\ m_log' = g_file_path
               /\ files' = Put(files, Current(g_file_path), Content(files, Current(g_file_path)))
               /\ stage' = "check" /\ UNCHANGED <<disturbed, logfd>>
      <3>1. FileTypes' /\ Done' = Done
        BY <2>1, <2>3 DEF FileTypes, Done
      <3>2. ASSUME ~disturbed PROVE FileOpen' /\ FileChunks'
        <4>1. FileOpen'
          BY <2>1, <2>3, <3>2 DEF FileOpen
        <4>2. Store(files, buf, Done, clock) /\ clock \in Nat
          BY <3>2 DEF FileChunks, FileTypes
        <4>3. Store(files', buf, Done, clock) /\ Disk(files') = Disk(files)
          <5> DEFINE g == Put(files, <<g_file_path, 0>>, Content(files, <<g_file_path, 0>>))
          <5>1. Store(g, buf, Done, clock) /\ Disk(g) = Disk(files)
            BY <4>2, OpenStore
          <5>2. files' = g
            BY <2>3 DEF Current
          <5> HIDE DEF g
          <5> QED
            BY <5>1, <5>2
        <4>4. Store(files', buf', Done', clock')
          BY <2>1, <3>1, <4>3
        <4>5. alive' => Disk(files') \cup Range(buf') = 1 .. Done'
          BY <2>1, <3>1, <3>2, <4>3 DEF FileChunks
        <4>6. 1 .. secured' \subseteq Disk(files')
          BY <2>1, <3>2, <4>3 DEF FileChunks
        <4>7. FileChunks'
          BY <4>4, <4>5, <4>6 DEF FileChunks
        <4> QED
          BY <4>1, <4>7
      <3> QED
        BY <2>1, <2>3, <3>1, <3>2
    <2>4. CASE m_log = NULL /\ OpenFails
      <3>1. FileTypes' /\ disturbed'
        BY <2>1, <2>4 DEF FileTypes, OpenFails
      <3> QED
        BY <3>1
    <2> QED
      BY <1>3, <2>2, <2>3, <2>4 DEF LogFDOpen
  <1>4. ASSUME LogFDCheck PROVE FileInv'
    <2>1. alive /\ stage = "check" /\ UNCHANGED <<device, taken, clock, g_file_path>>
      BY <1>4 DEF LogFDCheck
    <2>2. CASE disturbed' = TRUE /\ UNCHANGED <<stage, m_log>>
      <3>1. FileTypes'
        BY <2>1, <2>2 DEF FileTypes
      <3> QED
        BY <2>2, <3>1
    <2>3. CASE /\ m_log # NULL /\ logfd' = "good" /\ stage' = "write"
               /\ UNCHANGED <<alive, m_log, buf, files, secured, disturbed>>
      <3>1. FileTypes' /\ Done' = Done
        BY <2>1, <2>3 DEF FileTypes, Done
      <3>2. ASSUME ~disturbed PROVE FileOpen' /\ FileChunks'
        <4>1. FileOpen'
          BY <2>3, <3>2 DEF FileOpen
        <4>2. FileChunks'
          BY <2>1, <2>3, <3>1, <3>2, SameChunks
        <4> QED
          BY <4>1, <4>2
      <3> QED
        BY <2>1, <2>3, <3>1, <3>2
    <2>4. CASE /\ m_log # NULL /\ files' = Flushed /\ buf' = <<>> /\ m_log' = NULL
               /\ secured' = Done /\ stage' = "rename" /\ UNCHANGED <<alive, logfd, disturbed>>
      <3>1. FileTypes' /\ Done' = Done
        BY <2>1, <2>4 DEF FileTypes, Done
      <3>2. ASSUME ~disturbed PROVE FileOpen' /\ FileChunks'
        <4>1. FileOpen'
          BY <2>4 DEF FileOpen
        <4>2. FileChunks'
          BY <2>1, <2>4, <3>1, <3>2, FlushChunks
        <4> QED
          BY <4>1, <4>2
      <3> QED
        BY <2>1, <2>4, <3>1, <3>2
    <2> QED
      BY <1>4, <2>2, <2>3, <2>4 DEF LogFDCheck
  <1>5. ASSUME LogFDRename PROVE FileInv'
    <2> DEFINE cur == <<g_file_path, 0>>
               bak == <<g_file_path, clock>>
               moved == IF cur \in DOMAIN files THEN Put(files, bak, files[cur]) ELSE files
    <2>1. stage = "rename" /\ UNCHANGED <<device, taken, alive, clock, g_file_path, buf, secured>>
      BY <1>5 DEF LogFDRename
    <2>2. CASE OpenFails
      <3>1. FileTypes' /\ disturbed'
        BY <2>1, <2>2 DEF FileTypes, OpenFails
      <3> QED
        BY <3>1
    <2>3. ASSUME NEW renamed \in BOOLEAN,
                 files' = Put(IF renamed THEN moved ELSE files, cur, <<>>),
                 disturbed' = (disturbed \/ ~renamed \/ (cur \in DOMAIN files /\ bak \in DOMAIN files)),
                 m_log' = g_file_path, logfd' = "good", stage' = "write"
          PROVE  FileInv'
      <3>1. FileTypes' /\ Done' = Done
        BY <2>1, <2>3 DEF FileTypes, Done
      <3>2. ASSUME ~disturbed' PROVE FileOpen' /\ FileChunks'
        <4>1. ~disturbed /\ renamed /\ (cur \in DOMAIN files => bak \notin DOMAIN files)
          BY <2>3, <3>2
        <4>2. m_log = NULL /\ buf = <<>> /\ g_file_path \in Paths /\ clock \in 1 .. MaxClock
          BY <2>1, <4>1 DEF FileOpen, FileTypes
        <4>3. FileOpen'
          BY <2>1, <2>3, <4>2, LogOutputAssumption DEF FileOpen
        <4>4. Store(files, <<>>, Done, clock)
          BY <4>1, <4>2 DEF FileChunks
        <4>5. Store(files', <<>>, Done, clock) /\ Disk(files') = Disk(files)
          <5>1. CASE cur \in DOMAIN files
            <6>1. files' = Put(Put(files, bak, files[cur]), cur, <<>>)
              BY <2>3, <4>1, <5>1
            <6> QED
              BY <4>1, <4>2, <4>4, <5>1, <6>1, RenameStore
          <5>2. CASE cur \notin DOMAIN files
            <6>1. files' = Put(files, cur, <<>>)
              BY <2>3, <4>1, <5>2
            <6> DEFINE g == Put(files, cur, Content(files, cur))
            <6>2. Content(files, cur) = <<>>
              BY <5>2 DEF Content
            <6>3. files' = g
              BY <6>1, <6>2
            <6>4. clock \in Nat
              BY <4>2
            <6>5. Store(g, <<>>, Done, clock) /\ Disk(g) = Disk(files)
              BY <4>4, <6>4, OpenStore
            <6> HIDE DEF g
            <6> QED
              BY <6>3, <6>5
          <5> QED
            BY <5>1, <5>2
        <4>6. Store(files', buf', Done', clock')
          BY <2>1, <3>1, <4>2, <4>5
        <4>7. alive' => Disk(files') \cup Range(buf') = 1 .. Done'
          BY <2>1, <3>1, <4>1, <4>5 DEF FileChunks
        <4>8. 1 .. secured' \subseteq Disk(files')
          BY <2>1, <4>1, <4>5 DEF FileChunks
        <4>9. FileChunks'
          BY <4>6, <4>7, <4>8 DEF FileChunks
        <4> QED
          BY <4>3, <4>9
      <3> QED
        BY <3>1, <3>2
    <2> QED
      BY <1>5, <2>2, <2>3 DEF LogFDRename, Current, Backup
  <1>6. ASSUME WriteLog PROVE FileInv'
    <2>1. /\ stage = "write" /\ stage' = "data" /\ logfd' = "none"
          /\ UNCHANGED <<device, taken, clock, g_file_path, m_log, files, secured>>
      BY <1>6 DEF WriteLog
    <2>2. FileTypes'
      BY <2>1 DEF FileTypes
    <2>3. CASE logfd = "good" /\ buf' = Append(buf, taken) /\ UNCHANGED <<alive, disturbed>>
      <3>1. ASSUME ~disturbed PROVE FileOpen' /\ FileChunks'
        <4>1. m_log # NULL /\ FileOpen'
          BY <2>1, <2>3, <3>1 DEF FileOpen
        <4>2. Done = taken - 1 /\ Done \in Nat /\ Done' = taken /\ Done + 1 = taken
          BY <2>1 DEF Done, FileTypes
        <4>3. Store(files, buf, Done, clock) /\ (alive => Disk(files) \cup Range(buf) = 1 .. Done)
          BY <3>1 DEF FileChunks
        <4>4. Store(files, buf', taken, clock) /\ Range(buf') = Range(buf) \cup {taken}
          <5>1. Store(files, Append(buf, Done + 1), Done + 1, clock)
                /\ Range(Append(buf, Done + 1)) = Range(buf) \cup {Done + 1}
            BY <4>2, <4>3, WriteStore, LogOutputAssumption
          <5> QED
            BY <2>3, <4>2, <5>1
        <4>5. 1 .. taken = 1 .. Done \cup {taken}
          <5> DEFINE m == Done
          <5>1. m \in Nat /\ taken = m + 1
            BY <4>2
          <5> HIDE DEF m
          <5>2. 1 .. m + 1 = 1 .. m \cup {m + 1}
            BY <5>1
          <5> QED
            BY <5>1, <5>2 DEF m
        <4>6. Store(files', buf', Done', clock')
          BY <2>1, <4>2, <4>4
        <4>7. alive' => Disk(files') \cup Range(buf') = 1 .. Done'
          BY <2>1, <2>3, <4>2, <4>3, <4>4, <4>5
        <4>8. 1 .. secured' \subseteq Disk(files')
          BY <2>1, <3>1 DEF FileChunks
        <4>9. FileChunks'
          BY <4>6, <4>7, <4>8 DEF FileChunks
        <4> QED
          BY <4>1, <4>9
      <3> QED
        BY <2>1, <2>2, <2>3, <3>1
    <2>4. CASE disturbed' = TRUE
      BY <2>2, <2>4
    <2> QED
      BY <1>6, <2>3, <2>4 DEF WriteLog
  <1> QED
    BY <1>1, <1>2, <1>3, <1>4, <1>5, <1>6

\* The steps of the other threads.
LEMMA OtherThreadStep ==
    ASSUME FileInv, device = "file",
           \/ Log \/ Tick \/ (\E path \in Paths : SetFilePath(path))
           \/ FailureSignalHandler \/ CloseCheck \/ CloseFile \/ UNCHANGED outputVars
    PROVE  FileInv'
  <1> USE DEF FileInv
  <1>1. ASSUME UNCHANGED <<device, taken, stage, m_log, buf, files, logfd, secured, disturbed>>,
               g_file_path' \in Paths, clock' = clock, alive' => alive
        PROVE  FileInv'
    <2>1. FileTypes' /\ Done' = Done
      BY <1>1 DEF FileTypes, Done
    <2>2. ASSUME ~disturbed PROVE FileOpen' /\ FileChunks'
      <3>1. FileOpen'
        BY <1>1, <2>2 DEF FileOpen
      <3>2. FileChunks'
        BY <1>1, <2>1, <2>2, SameChunks
      <3> QED
        BY <3>1, <3>2
    <2> QED
      BY <1>1, <2>1, <2>2
  <1>2. g_file_path \in Paths
    BY DEF FileTypes
  <1>3. CASE \/ Log \/ (\E path \in Paths : SetFilePath(path))
             \/ FailureSignalHandler \/ CloseCheck \/ UNCHANGED outputVars
    <2>1. /\ UNCHANGED <<device, taken, stage, m_log, buf, files, logfd, secured, disturbed>>
          /\ g_file_path' \in Paths /\ clock' = clock /\ (alive' => alive)
      BY <1>2, <1>3 DEF Log, SetFilePath, FailureSignalHandler, CloseCheck, outputVars,
                        fileVars
    <2> QED
      BY <1>1, <2>1
  <1>4. ASSUME Tick PROVE FileInv'
    <2>1. /\ clock < MaxClock /\ clock' = clock + 1
          /\ UNCHANGED <<device, taken, stage, alive, g_file_path, m_log, buf, files, logfd,
                         secured, disturbed>>
      BY <1>4 DEF Tick
    <2>2. FileTypes' /\ Done' = Done
      BY <2>1, LogOutputAssumption DEF FileTypes, Done
    <2>3. ASSUME ~disturbed PROVE FileOpen' /\ FileChunks'
      <3>1. FileOpen'
        BY <2>1, <2>3 DEF FileOpen
      <3>2. Store(files, buf, Done, clock)
        BY <2>3 DEF FileChunks
      <3>3. \A t \in Times : t > clock + 1 => t > clock
        BY DEF Times, FileTypes
      <3>4. Store(files, buf, Done, clock + 1)
        BY <3>2, <3>3 DEF Store
      <3>5. Store(files', buf', Done', clock')
        BY <2>1, <2>2, <3>4
      <3>6. alive' => Disk(files') \cup Range(buf') = 1 .. Done'
        BY <2>1, <2>2, <2>3 DEF FileChunks
      <3>7. 1 .. secured' \subseteq Disk(files')
        BY <2>1, <2>3 DEF FileChunks
      <3>8. FileChunks'
        BY <3>5, <3>6, <3>7 DEF FileChunks
      <3> QED
        BY <3>1, <3>8
    <2> QED
      BY <2>1, <2>2, <2>3
  <1>5. ASSUME CloseFile PROVE FileInv'
    <2>1. alive /\ UNCHANGED <<device, taken, stage, clock, g_file_path>>
      BY <1>5 DEF CloseFile
    <2>2. CASE /\ m_log # NULL /\ files' = Flushed /\ buf' = <<>> /\ m_log' = NULL
               /\ secured' = Done /\ logfd' = (IF logfd = "good" THEN "closed" ELSE logfd)
               /\ UNCHANGED disturbed
      <3>1. FileTypes' /\ Done' = Done
        BY <2>1, <2>2 DEF FileTypes, Done
      <3>2. ASSUME ~disturbed PROVE FileOpen' /\ FileChunks'
        <4>1. FileOpen'
          BY <2>2 DEF FileOpen
        <4>2. FileChunks'
          BY <2>1, <2>2, <3>1, <3>2, FlushChunks
        <4> QED
          BY <4>1, <4>2
      <3> QED
        BY <2>1, <2>2, <3>1, <3>2
    <2>3. CASE disturbed' = TRUE /\ UNCHANGED m_log
      <3>1. FileTypes'
        BY <2>1, <2>3 DEF FileTypes
      <3> QED
        BY <2>3, <3>1
    <2> QED
      BY <1>5, <2>2, <2>3 DEF CloseFile
  <1> QED
    BY <1>3, <1>4, <1>5

\* log.cpp:305-348, 394-446, for any directories, file size and number of
\* chunks: unless a file cannot be opened, a rename fails or overwrites, or a
\* Close falls between the log thread's look at m_log and its use, no chunk is
\* lost, repeated or out of order, and what a flush or close has secured
\* outlives the process.
THEOREM LostOnlyByAccidentCorrect == OutputSpec => []LostOnlyByAccident
  <1>1. OutputInit => FileInv
    <2> SUFFICES ASSUME OutputInit, device = "file" PROVE FileTypes /\ FileOpen /\ FileChunks
      BY DEF FileInv
    <2>1. /\ taken = 0 /\ stage = "data" /\ clock = 1 /\ g_file_path \in Paths /\ m_log = NULL
          /\ buf = <<>> /\ files = <<>> /\ secured = 0
      BY DEF OutputInit
    <2>2. FileTypes /\ FileOpen /\ Done = 0
      BY <2>1, LogOutputAssumption DEF FileTypes, FileOpen, Done
    <2>3. \A p, t : Held(<<>>, p, t) = <<>> /\ <<p, t>> \notin DOMAIN <<>>
      BY DEF Held, Content
    <2>4. Store(<<>>, <<>>, 0, 1)
      BY <2>3, EmptyFile DEF Store
    <2>5. Disk(<<>>) = {} /\ 1 .. 0 = {}
      BY <2>3, EmptyFile DEF Disk
    <2> QED
      BY <2>1, <2>2, <2>4, <2>5, EmptyFile DEF FileChunks
  <1>2. FileInv /\ [OutputNext]_outputVars => FileInv'
    <2> SUFFICES ASSUME FileInv, [OutputNext]_outputVars PROVE FileInv'
      OBVIOUS
    <2>1. device' = device
      BY DEF OutputNext, outputVars, Log, Tick, SetFilePath, FailureSignalHandler,
             CloseCheck, CloseFile, RunData, RunFlush, LogFDOpen, LogFDCheck,
             LogFDRename, WriteLog, ScribeOpen, ScribeSend, ScribeSendThrows
    <2>2. CASE device # "file"
      BY <2>1, <2>2 DEF FileInv
    <2>3. CASE device = "file"
      <3>1. ~(ScribeOpen \/ ScribeSend \/ ScribeSendThrows)
        BY <2>3 DEF FileInv, FileTypes, ScribeOpen, ScribeSend, ScribeSendThrows
      <3> QED
        BY <2>3, <3>1, LogThreadStep, OtherThreadStep DEF OutputNext
    <2> QED
      BY <2>2, <2>3
  <1>3. FileInv => LostOnlyByAccident
    <2> SUFFICES ASSUME FileInv, device = "file", ~disturbed
                 PROVE  /\ \A path \in Paths : Increasing(History(files, path))
                        /\ alive => OnDisk(Flushed) = 1 .. Done
                        /\ 1 .. secured \subseteq OnDisk(files)
      BY DEF LostOnlyByAccident
    <2>1. FileTypes /\ FileOpen /\ FileChunks
      BY DEF FileInv
    <2>2. Store(files, buf, Done, clock) /\ Done \in Nat /\ clock \in Nat /\ MaxClock \in Nat
      BY <2>1, LogOutputAssumption DEF FileChunks, FileTypes, Done
    <2>3. (\A path \in Paths : Increasing(History(files, path))) /\ OnDisk(files) = Disk(files)
      BY <2>2, ReadBack
    <2>4. ASSUME alive PROVE OnDisk(Flushed) = 1 .. Done
      <3>1. Disk(files) \cup Range(buf) = 1 .. Done
        BY <2>1, <2>4 DEF FileChunks
      <3>2. CASE m_log = NULL
        <4>1. Flushed = files /\ Range(buf) = {}
          BY <2>1, <3>2, EmptyFile DEF Flushed, FileOpen
        <4> QED
          BY <2>3, <3>1, <4>1
      <3>3. CASE m_log # NULL
        <4>1. m_log \in Paths
          BY <2>1, <3>3 DEF FileTypes
        <4>2. Flushed = Put(files, <<m_log, 0>>, Content(files, <<m_log, 0>>) \o buf)
          BY <3>3 DEF Flushed, Current
        <4>3. Store(Flushed, <<>>, Done, clock) /\ Disk(Flushed) = Disk(files) \cup Range(buf)
          BY <2>2, <4>1, <4>2, FlushStore
        <4>4. OnDisk(Flushed) = Disk(Flushed)
          BY <2>2, <4>3, ReadBack
        <4> QED
          BY <3>1, <4>3, <4>4
      <3> QED
        BY <3>2, <3>3
    <2>5. 1 .. secured \subseteq OnDisk(files)
      BY <2>1, <2>3 DEF FileChunks
    <2> QED
      BY <2>3, <2>4, <2>5
  <1> QED
    BY <1>1, <1>2, <1>3, PTL DEF OutputSpec
=============================================================================

------------------------ MODULE SequenceFilter_proofs ------------------------
(***************************************************************************)
(* Lemmas about Only: what stays keeps its order, nothing else is lost.    *)
(***************************************************************************)
EXTENDS SequenceFilter, NaturalSets, SequenceTheorems

\* The elements that are left after the first n, in terms of those before.
Left(s, S, f, n) ==
  IF n = 0 THEN <<>>
  ELSE IF s[n] \in S THEN Append(f[n - 1], s[n])
  ELSE f[n - 1]

\* The recursion of Only has a solution up to each length.
LEMMA KeptExists ==
  ASSUME NEW s, NEW S, NEW len \in Nat
  PROVE  \E f : f = [n \in 0..len |-> Left(s, S, f, n)]
<1> DEFINE bad == {d \in Nat : ~ \E f : f = [n \in 0..d |-> Left(s, S, f, n)]}
<1> SUFFICES ASSUME bad # {} PROVE FALSE
  OBVIOUS
<1>1. PICK d \in bad : \A k \in bad : d <= k
  BY LeastExists
<1>2. d # 0
  <2> DEFINE f == [n \in 0..0 |-> <<>>]
  <2>1. f = [n \in 0..0 |-> Left(s, S, f, n)]
    BY DEF Left
  <2> QED
    BY <1>1, <2>1
<1>3. PICK f : f = [n \in 0..(d - 1) |-> Left(s, S, f, n)]
  <2>1. d - 1 \in Nat /\ d - 1 \notin bad
    BY <1>1, <1>2
  <2> QED
    BY <2>1
<1> DEFINE g == [n \in 0..d |-> IF n < d THEN f[n] ELSE Left(s, S, f, d)]
<1>4. \A n \in 0..(d - 1) : g[n] = f[n] /\ f[n] = Left(s, S, f, n)
  BY <1>1, <1>3
<1>5. \A n \in 0..d : g[n] = Left(s, S, g, n)
  <2> SUFFICES ASSUME NEW n \in 0..d PROVE g[n] = Left(s, S, g, n)
    OBVIOUS
  <2>1. g[n] = Left(s, S, f, n)
    <3>1. CASE n = d
      <4>1. g[d] = Left(s, S, f, d)
        BY <1>1
      <4> QED
        BY <3>1, <4>1
    <3>2. CASE n # d
      <4>1. n \in 0..(d - 1)
        BY <1>1, <3>2
      <4> HIDE DEF g
      <4> QED
        BY <1>4, <4>1
    <3> QED
      BY <3>1, <3>2
  <2>2. n # 0 => g[n - 1] = f[n - 1]
    BY <1>1, <1>4
  <2> QED
    BY <2>1, <2>2 DEF Left
<1>6. g = [n \in 0..d |-> Left(s, S, g, n)]
  BY <1>5
<1> QED
  BY <1>1, <1>6

\* What Only computes, as an invariant of its recursion.
LEMMA OnlyByPrefix ==
  ASSUME NEW T, NEW s \in Seq(T), NEW S
  PROVE  \E f : /\ Only(s, S) = f[Len(s)]
                /\ f[0] = <<>>
                /\ \A n \in 1..Len(s) :
                     f[n] = IF s[n] \in S THEN Append(f[n - 1], s[n]) ELSE f[n - 1]
<1> DEFINE kept == CHOOSE f : f = [n \in 0..Len(s) |-> Left(s, S, f, n)]
<1>1. Len(s) \in Nat
  BY LenProperties
<1>2. kept = [n \in 0..Len(s) |-> Left(s, S, kept, n)]
  BY <1>1, KeptExists
<1>3. Only(s, S) = kept[Len(s)]
  BY Zenon DEF Only, Left
<1> HIDE DEF kept
<1>4. kept[0] = <<>>
  BY <1>1, <1>2 DEF Left
<1>5. \A n \in 1..Len(s) :
        kept[n] = IF s[n] \in S THEN Append(kept[n - 1], s[n]) ELSE kept[n - 1]
  <2> SUFFICES ASSUME NEW n \in 1..Len(s)
               PROVE  kept[n] = IF s[n] \in S THEN Append(kept[n - 1], s[n]) ELSE kept[n - 1]
    OBVIOUS
  <2>1. n \in 0..Len(s) /\ n # 0
    BY <1>1
  <2>2. kept[n] = Left(s, S, kept, n)
    BY <1>2, <2>1
  <2> QED
    BY <2>1, <2>2 DEF Left
<1> QED
  BY <1>3, <1>4, <1>5

(***************************************************************************)
(* The elements that stay, by their places: what is kept of the first n    *)
(* elements of s is t, and h leads from the places of t to those of s.     *)
(***************************************************************************)
Keeps(s, S, n, t, h) ==
  /\ h \in [1..Len(t) -> 1..n]
  /\ \A k, m \in 1..Len(t) : k < m => h[k] < h[m]
  /\ \A m \in 1..Len(t) : t[m] = s[h[m]] /\ s[h[m]] \in S
  /\ \A i \in 1..n : s[i] \in S => \E m \in 1..Len(t) : h[m] = i

LEMMA KeepsNext ==
  ASSUME NEW T, NEW s \in Seq(T), NEW S, NEW n \in 1..Len(s),
         NEW t \in Seq(T), NEW h, Keeps(s, S, n - 1, t, h),
         NEW u \in Seq(T), u = IF s[n] \in S THEN Append(t, s[n]) ELSE t
  PROVE  \E g : Keeps(s, S, n, u, g)
<1>1. Len(s) \in Nat /\ s[n] \in T /\ Len(t) \in Nat /\ n \in Nat
  BY LenProperties, ElementOfSeq
<1>2. CASE s[n] \notin S
  <2>1. h \in [1..Len(t) -> 1..n]
    BY <1>1 DEF Keeps
  <2>2. \A i \in 1..n : i = n \/ i \in 1..(n - 1)
    BY <1>1
  <2>3. Keeps(s, S, n, t, h)
    BY <1>2, <2>1, <2>2 DEF Keeps
  <2> QED
    BY <1>2, <2>3
<1>3. CASE s[n] \in S
  <2> DEFINE g == [m \in 1..(Len(t) + 1) |-> IF m <= Len(t) THEN h[m] ELSE n]
  <2>1. /\ u \in Seq(T) /\ Len(u) = Len(t) + 1
        /\ \A m \in 1..Len(t) : u[m] = t[m]
        /\ u[Len(t) + 1] = s[n]
    BY <1>1, <1>3, AppendProperties
  <2>2. \A m \in 1..Len(t) : h[m] \in 1..(n - 1)
    BY DEF Keeps
  <2>3. /\ \A m \in 1..Len(t) : g[m] = h[m]
        /\ g[Len(t) + 1] = n
    BY <1>1
  <2>4. \A m \in 1..(Len(t) + 1) : m = Len(t) + 1 \/ m \in 1..Len(t)
    BY <1>1
  <2>5. g \in [1..Len(u) -> 1..n]
    BY <1>1, <2>1, <2>2
  <2> HIDE DEF g
  <2>6. \A k, m \in 1..Len(u) : k < m => g[k] < g[m]
    <3> SUFFICES ASSUME NEW k \in 1..Len(u), NEW m \in 1..Len(u), k < m
                 PROVE  g[k] < g[m]
      OBVIOUS
    <3>1. k \in 1..Len(t) /\ g[k] = h[k] /\ h[k] \in 1..(n - 1)
      BY <1>1, <2>1, <2>2, <2>3
    <3>2. CASE m = Len(t) + 1
      BY <1>1, <2>3, <3>1, <3>2
    <3>3. CASE m \in 1..Len(t)
      BY <2>3, <3>1, <3>3 DEF Keeps
    <3> QED
      BY <2>1, <2>4, <3>2, <3>3
  <2>7. \A m \in 1..Len(u) : u[m] = s[g[m]] /\ s[g[m]] \in S
    BY <1>3, <2>1, <2>3, <2>4 DEF Keeps
  <2>8. \A i \in 1..n : s[i] \in S => \E m \in 1..Len(u) : g[m] = i
    <3> SUFFICES ASSUME NEW i \in 1..n, s[i] \in S
                 PROVE  \E m \in 1..Len(u) : g[m] = i
      OBVIOUS
    <3>1. CASE i = n
      <4>1. Len(t) + 1 \in 1..Len(u)
        BY <1>1, <2>1
      <4> QED
        BY <2>3, <3>1, <4>1
    <3>2. CASE i # n
      <4>1. i \in 1..(n - 1)
        BY <1>1, <3>2
      <4>2. PICK m \in 1..Len(t) : h[m] = i
        BY <4>1 DEF Keeps
      <4>3. m \in 1..Len(u)
        BY <1>1, <2>1
      <4> QED
        BY <2>3, <4>2, <4>3
    <3> QED
      BY <3>1, <3>2
  <2>9. Keeps(s, S, n, u, g)
    BY <2>5, <2>6, <2>7, <2>8 DEF Keeps
  <2> QED
    BY <2>1, <2>9
<1> QED
  BY <1>2, <1>3

LEMMA OnlyFacts ==
  ASSUME NEW T, NEW s \in Seq(T), NEW S
  PROVE  /\ Only(s, S) \in Seq(T)
         /\ \E h : Keeps(s, S, Len(s), Only(s, S), h)
<1>1. PICK f : /\ Only(s, S) = f[Len(s)]
               /\ f[0] = <<>>
               /\ \A n \in 1..Len(s) :
                    f[n] = IF s[n] \in S THEN Append(f[n - 1], s[n]) ELSE f[n - 1]
  BY OnlyByPrefix
<1>2. Len(s) \in Nat
  BY LenProperties
<1> DEFINE Good(n) == f[n] \in Seq(T) /\ \E h : Keeps(s, S, n, f[n], h)
           bad == {n \in 0..Len(s) : ~Good(n)}
<1>3. Good(0)
  <2>1. <<>> \in Seq(T) /\ Len(<<>>) = 0
    BY EmptySeq
  <2>2. Keeps(s, S, 0, <<>>, [m \in 1..0 |-> 0])
    BY <2>1 DEF Keeps
  <2> QED
    BY <1>1, <2>1, <2>2
<1>4. \A n \in 1..Len(s) : Good(n - 1) => Good(n)
  <2> SUFFICES ASSUME NEW n \in 1..Len(s), Good(n - 1) PROVE Good(n)
    OBVIOUS
  <2>1. PICK h : Keeps(s, S, n - 1, f[n - 1], h)
    OBVIOUS
  <2>2. f[n - 1] \in Seq(T)
    OBVIOUS
  <2> HIDE DEF Good
  <2>3. f[n] = IF s[n] \in S THEN Append(f[n - 1], s[n]) ELSE f[n - 1]
    BY <1>1
  <2>4. f[n] \in Seq(T)
    BY <2>2, <2>3, ElementOfSeq, AppendProperties
  <2>5. \E g : Keeps(s, S, n, f[n], g)
    <3> DEFINE t == f[n - 1]
    <3>1. t \in Seq(T) /\ Keeps(s, S, n - 1, t, h)
      BY <2>1, <2>2
    <3>2. f[n] = IF s[n] \in S THEN Append(t, s[n]) ELSE t
      BY <2>3
    <3> HIDE DEF t
    <3> QED
      BY <2>4, <3>1, <3>2, KeepsNext
  <2> QED
    BY <2>4, <2>5 DEF Good
<1> HIDE DEF Good
<1>5. bad = {}
  <2> SUFFICES ASSUME bad # {} PROVE FALSE
    OBVIOUS
  <2>1. PICK n \in bad : \A k \in bad : n <= k
    <3>1. bad \in SUBSET Nat
      BY <1>2
    <3> HIDE DEF bad
    <3> QED
      BY <3>1, LeastExists
  <2>2. n \in 0..Len(s) /\ n # 0
    BY <1>3, <2>1
  <2>3. n \in 1..Len(s) /\ n - 1 \in 0..Len(s) /\ ~(n <= n - 1)
    BY <1>2, <2>2
  <2> QED
    BY <1>4, <2>1, <2>3
<1>6. Good(Len(s))
  BY <1>2, <1>5
<1> QED
  BY <1>1, <1>6 DEF Good

\* The elements that stay, and no more.
LEMMA OnlyElements ==
  ASSUME NEW T, NEW s \in Seq(T), NEW S
  PROVE  /\ Only(s, S) \in Seq(T)
         /\ \A m \in 1..Len(Only(s, S)) :
              Only(s, S)[m] \in S /\ \E n \in 1..Len(s) : s[n] = Only(s, S)[m]
         /\ \A n \in 1..Len(s) :
              s[n] \in S => \E m \in 1..Len(Only(s, S)) : Only(s, S)[m] = s[n]
<1>1. Only(s, S) \in Seq(T)
  BY OnlyFacts
<1>2. PICK h : Keeps(s, S, Len(s), Only(s, S), h)
  BY OnlyFacts
<1>3. ASSUME NEW m \in 1..Len(Only(s, S))
      PROVE  Only(s, S)[m] \in S /\ \E n \in 1..Len(s) : s[n] = Only(s, S)[m]
  BY <1>2 DEF Keeps
<1>4. ASSUME NEW n \in 1..Len(s), s[n] \in S
      PROVE  \E m \in 1..Len(Only(s, S)) : Only(s, S)[m] = s[n]
  BY <1>2, <1>4 DEF Keeps
<1> QED
  BY <1>1, <1>3, <1>4

\* Two sets that do not differ on the elements of s leave the same of it.
LEMMA OnlySame ==
  ASSUME NEW T, NEW s \in Seq(T), NEW S, NEW R,
         \A n \in DOMAIN s : s[n] \in S <=> s[n] \in R
  PROVE  Only(s, S) = Only(s, R)
<1>1. PICK f : /\ Only(s, S) = f[Len(s)]
               /\ f[0] = <<>>
               /\ \A n \in 1..Len(s) :
                    f[n] = IF s[n] \in S THEN Append(f[n - 1], s[n]) ELSE f[n - 1]
  BY OnlyByPrefix
<1>2. PICK g : /\ Only(s, R) = g[Len(s)]
               /\ g[0] = <<>>
               /\ \A n \in 1..Len(s) :
                    g[n] = IF s[n] \in R THEN Append(g[n - 1], s[n]) ELSE g[n - 1]
  BY OnlyByPrefix
<1>3. Len(s) \in Nat /\ DOMAIN s = 1..Len(s)
  BY LenProperties
<1> DEFINE bad == {n \in 0..Len(s) : f[n] # g[n]}
<1>4. bad = {}
  <2> SUFFICES ASSUME bad # {} PROVE FALSE
    OBVIOUS
  <2>1. PICK n \in bad : \A k \in bad : n <= k
    <3>1. bad \in SUBSET Nat
      BY <1>3
    <3> HIDE DEF bad
    <3> QED
      BY <3>1, LeastExists
  <2>2. n \in 1..Len(s) /\ n - 1 \in 0..Len(s) /\ ~(n <= n - 1)
    BY <1>1, <1>2, <1>3, <2>1
  <2>3. f[n - 1] = g[n - 1]
    BY <2>1, <2>2
  <2>4. s[n] \in S <=> s[n] \in R
    BY <1>3, <2>2
  <2>5. f[n] = IF s[n] \in S THEN Append(f[n - 1], s[n]) ELSE f[n - 1]
    BY <1>1, <2>2
  <2>6. g[n] = IF s[n] \in R THEN Append(g[n - 1], s[n]) ELSE g[n - 1]
    BY <1>2, <2>2
  <2>7. f[n] = g[n]
    BY <2>3, <2>4, <2>5, <2>6
  <2> QED
    BY <2>1, <2>7
<1> QED
  BY <1>1, <1>2, <1>3, <1>4

LEMMA OnlyEmpty == ASSUME NEW S PROVE Only(<<>>, S) = <<>>
<1>1. ASSUME NEW s \in Seq({}), Len(s) = 0 PROVE Only(s, S) = <<>>
  <2>1. \E f : Only(s, S) = f[Len(s)] /\ f[0] = <<>>
    BY OnlyByPrefix
  <2> QED
    BY <1>1, <2>1
<1> QED
  BY <1>1, EmptySeq

\* What is appended to the second of two sequences is appended to both.
AppendsBehind(p, q, e) == Append(p \o q, e) = p \o Append(q, e)

LEMMA AppendBehind ==
  ASSUME NEW T, NEW p \in Seq(T), NEW q \in Seq(T), NEW e \in T
  PROVE  AppendsBehind(p, q, e)
<1> DEFINE one == <<e>>
           both == p \o q
<1>1. one \in Seq(T)
  OBVIOUS
<1>2. both \in Seq(T)
  BY ConcatProperties
<1>3. Append(q, e) = q \o one /\ Append(both, e) = both \o one
  BY <1>2, AppendIsConcat
<1> HIDE DEF one
<1>4. (p \o q) \o one = p \o (q \o one)
  BY <1>1, ConcatAssociative
<1> QED
  BY <1>3, <1>4 DEF AppendsBehind

\* What is in front stays in front, or goes.
LEMMA OnlyPrepend ==
  ASSUME NEW T, NEW a \in T, NEW q \in Seq(T), NEW S
  PROVE  Only(<<a>> \o q, S) = IF a \in S THEN <<a>> \o Only(q, S) ELSE Only(q, S)
<1> DEFINE s == <<a>> \o q
           pre == IF a \in S THEN <<a>> ELSE <<>>
<1>1. <<a>> \in Seq(T) /\ Len(<<a>>) = 1 /\ <<a>>[1] = a
  OBVIOUS
<1>2. pre \in Seq(T)
  BY <1>1, EmptySeq
<1>3. Len(q) \in Nat /\ \A n \in 1..Len(q) : q[n] \in T
  BY LenProperties, ElementOfSeq
<1>4. /\ s \in Seq(T) /\ Len(s) = Len(q) + 1 /\ s[1] = a
      /\ \A n \in 1..Len(q) : s[n + 1] = q[n]
  BY <1>1, <1>3, ConcatProperties
<1> HIDE DEF s
<1>5. s \in Seq(T)
  BY <1>4
<1>6. PICK f : /\ Only(s, S) = f[Len(s)]
               /\ f[0] = <<>>
               /\ \A n \in 1..Len(s) :
                    f[n] = IF s[n] \in S THEN Append(f[n - 1], s[n]) ELSE f[n - 1]
  BY <1>5, OnlyByPrefix
<1>7. PICK g : /\ Only(q, S) = g[Len(q)]
               /\ g[0] = <<>>
               /\ \A n \in 1..Len(q) :
                    g[n] = IF q[n] \in S THEN Append(g[n - 1], q[n]) ELSE g[n - 1]
  BY OnlyByPrefix
<1>8. f[1] = pre
  <2>1. f[1] = IF a \in S THEN Append(<<>>, a) ELSE <<>>
    <3>1. 1 \in 1..Len(s)
      BY <1>3, <1>4
    <3>2. f[1] = IF s[1] \in S THEN Append(f[1 - 1], s[1]) ELSE f[1 - 1]
      BY <1>6, <3>1
    <3>3. 1 - 1 = 0 /\ s[1] = a /\ f[0] = <<>>
      BY <1>4, <1>6
    <3> QED
      BY <3>2, <3>3
  <2>2. Append(<<>>, a) = <<a>>
    OBVIOUS
  <2> QED
    BY <2>1, <2>2
<1> HIDE DEF pre
<1> DEFINE Good(n) == g[n] \in Seq(T) /\ f[n + 1] = pre \o g[n]
           bad == {n \in 0..Len(q) : ~Good(n)}
<1>9. Good(0)
  BY <1>2, <1>7, <1>8, EmptySeq, ConcatEmptySeq
<1>10. ASSUME NEW n \in 1..Len(q), Good(n - 1) PROVE Good(n)
  <2>1. /\ g[n - 1] \in Seq(T) /\ f[n] = pre \o g[n - 1]
        /\ n \in 1..Len(s) /\ n + 1 \in 1..Len(s) /\ q[n] \in T
    BY <1>3, <1>4, <1>10
  <2>2. g[n] = IF q[n] \in S THEN Append(g[n - 1], q[n]) ELSE g[n - 1]
    BY <1>7
  <2>3. f[n + 1] = IF q[n] \in S THEN Append(f[n], q[n]) ELSE f[n]
    <3>1. (n + 1) - 1 = n
      OBVIOUS
    <3>2. f[n + 1] = IF s[n + 1] \in S THEN Append(f[(n + 1) - 1], s[n + 1])
                     ELSE f[(n + 1) - 1]
      BY <1>6, <2>1
    <3> QED
      BY <1>4, <3>1, <3>2
  <2>4. Append(pre \o g[n - 1], q[n]) = pre \o Append(g[n - 1], q[n])
    <3> DEFINE u == g[n - 1]
               e == q[n]
    <3>1. pre \in Seq(T)
      BY <1>2
    <3>2. u \in Seq(T)
      BY <2>1
    <3>3. e \in T
      BY <2>1
    <3> HIDE DEF u, e
    <3>4. AppendsBehind(pre, u, e)
      BY <3>1, <3>2, <3>3, AppendBehind
    <3> QED
      BY <3>4 DEF AppendsBehind, u, e
  <2>5. g[n] \in Seq(T)
    BY <2>1, <2>2, AppendProperties
  <2>6. f[n + 1] = pre \o g[n]
    BY <2>1, <2>2, <2>3, <2>4
  <2> QED
    BY <2>5, <2>6
<1>11. bad = {}
  <2> HIDE DEF Good
  <2> SUFFICES ASSUME bad # {} PROVE FALSE
    OBVIOUS
  <2>1. PICK n \in bad : \A k \in bad : n <= k
    <3>1. bad \in SUBSET Nat
      BY <1>3
    <3> HIDE DEF bad
    <3> QED
      BY <3>1, LeastExists
  <2>2. n \in 1..Len(q) /\ n - 1 \in 0..Len(q) /\ ~(n <= n - 1)
    BY <1>3, <1>9, <2>1
  <2> QED
    BY <1>10, <2>1, <2>2
<1>12. Good(Len(q))
  <2> HIDE DEF Good
  <2> QED
    BY <1>3, <1>11
<1>13. Only(s, S) = pre \o Only(q, S) /\ Only(q, S) \in Seq(T)
  BY <1>4, <1>6, <1>7, <1>12
<1> QED
  BY <1>13, ConcatEmptySeq DEF s, pre
=============================================================================

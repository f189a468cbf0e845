------------------- MODULE SsmSwpTransitionEngine_proofs -------------------
(***************************************************************************)
(* Theorems about the system wide properties, for any number of requests,  *)
(* sessions and properties.                                                *)
(***************************************************************************)
EXTENDS SsmSwpTransitionEngine, SequenceFilter_proofs

-----------------------------------------------------------------------------
(***************************************************************************)
(* The order of the keys.                                                  *)
(***************************************************************************)
LEMMA ModFacts ==
  ASSUME NEW a \in 0..(KeyRange - 1), NEW b \in 0..(KeyRange - 1)
  PROVE  (a - b) % KeyRange = IF a >= b THEN a - b ELSE a - b + KeyRange
<1>1. KeyRange \in Nat \ {0}
  BY RequestsAssumption
<1>2. ASSUME NEW x \in Int, 0 <= x, x < KeyRange PROVE x % KeyRange = x
  BY <1>1, <1>2
<1>3. ASSUME NEW x \in Int, x < 0, 0 < x + KeyRange PROVE x % KeyRange = x + KeyRange
  BY <1>1, <1>3
<1> QED
  BY <1>1, <1>2, <1>3

\* As the keys are close to each other, OrderingFunction is a strict order.
LEMMA KeyOrder ==
  ASSUME NEW a \in Keys, NEW b \in Keys, NEW c \in Keys
  PROVE  /\ Difference(a, b) \in Int
         /\ Difference(a, b) = 0 <=> a = b
         /\ Difference(a, b) < 0 <=> Difference(b, a) > 0
         /\ Difference(a, b) < 0 /\ Difference(b, c) < 0 => Difference(a, c) < 0
<1>1. /\ KeyRange \in Nat \ {0}
      /\ a \in 0..(KeyRange - 1) /\ b \in 0..(KeyRange - 1) /\ c \in 0..(KeyRange - 1)
  BY RequestsAssumption
<1> DEFINE From(k, j) == IF j >= k THEN j - k ELSE j - k + KeyRange
<1>2. \A k, j \in {a, b, c} : (j - k) % KeyRange = From(k, j)
  BY <1>1, ModFacts
<1>3. PICK k \in {a, b, c} : \A j \in {a, b, c} : 2 * ((j - k) % KeyRange) < KeyRange
  BY KeysAssumption
<1>4. 2 * From(k, a) < KeyRange /\ 2 * From(k, b) < KeyRange /\ 2 * From(k, c) < KeyRange
  BY <1>2, <1>3
<1>5. \A j, l \in {a, b, c} :
        Difference(j, l) = IF 2 * From(l, j) < KeyRange THEN From(l, j)
                           ELSE From(l, j) - KeyRange
  BY <1>2 DEF Difference
<1>6. /\ Difference(a, b) = From(k, a) - From(k, b)
      /\ Difference(b, a) = From(k, b) - From(k, a)
      /\ Difference(b, c) = From(k, b) - From(k, c)
      /\ Difference(a, c) = From(k, a) - From(k, c)
  <2>1. ASSUME NEW j \in {a, b, c}, NEW l \in {a, b, c}
        PROVE  Difference(j, l) = From(k, j) - From(k, l)
    <3>1. 2 * From(k, j) < KeyRange /\ 2 * From(k, l) < KeyRange
      BY <1>4
    <3>2. Difference(j, l) = IF 2 * From(l, j) < KeyRange THEN From(l, j)
                             ELSE From(l, j) - KeyRange
      BY <1>5
    <3>3. /\ j \in Int /\ l \in Int /\ k \in Int
          /\ 0 <= j /\ j < KeyRange /\ 0 <= l /\ l < KeyRange /\ 0 <= k /\ k < KeyRange
          /\ KeyRange \in Int
      BY <1>1
    <3> QED
      BY <3>1, <3>2, <3>3
  <2> QED
    BY <2>1
<1>7. \A j \in {a, b, c} : From(k, j) \in Int
  BY <1>1
<1>8. From(k, a) = From(k, b) <=> a = b
  BY <1>1
<1> HIDE DEF From
<1> QED
  BY <1>6, <1>7, <1>8

-----------------------------------------------------------------------------
(***************************************************************************)
(* The search of the array.  Probe is what it finds from place p[1] up to  *)
(* p[2], in terms of what it finds in a part of these.                     *)
(***************************************************************************)
Probe(key, f, p) ==
  LET m == (p[1] + p[2]) \div 2
      d == Difference(key, schedulers[m].key)
  IN  IF p[1] >= p[2] THEN p[2]
      ELSE IF d = 0 THEN m
      ELSE IF d > 0 THEN f[<<m + 1, p[2]>>]
      ELSE f[<<p[1], m>>]

Pairs == (1..(Len(schedulers) + 1)) \X (1..(Len(schedulers) + 1))

\* It asks for smaller parts only, so that equal answers there are enough.
LEMMA ProbeNarrows ==
  ASSUME NEW key, NEW f, NEW g, NEW p \in Pairs, NEW width \in Int, Len(schedulers) \in Nat,
         p[2] - p[1] <= width,
         \A q \in Pairs : q[2] - q[1] < width => f[q] = g[q]
  PROVE  Probe(key, f, p) = Probe(key, g, p)
<1>1. CASE p[1] >= p[2]
  BY <1>1 DEF Probe
<1>2. CASE p[1] < p[2]
  <2> DEFINE m == (p[1] + p[2]) \div 2
  <2>1. /\ p[1] \in 1..(Len(schedulers) + 1) /\ p[2] \in 1..(Len(schedulers) + 1)
    BY DEF Pairs
  <2>2. m \in Nat /\ p[1] <= m /\ m < p[2]
    BY <1>2, <2>1
  <2> HIDE DEF m
  <2>3. <<m + 1, p[2]>> \in Pairs /\ <<p[1], m>> \in Pairs
    BY <2>1, <2>2 DEF Pairs
  <2>4. p[2] - (m + 1) < width /\ m - p[1] < width
    BY <2>1, <2>2
  <2>5. f[<<m + 1, p[2]>>] = g[<<m + 1, p[2]>>] /\ f[<<p[1], m>>] = g[<<p[1], m>>]
    BY <2>3, <2>4
  <2> QED
    BY <1>2, <2>5 DEF Probe, m
<1>3. p[1] \in Int /\ p[2] \in Int
  BY DEF Pairs
<1> QED
  BY <1>1, <1>2, <1>3

LEMMA SearchExists ==
  ASSUME NEW key, Len(schedulers) \in Nat
  PROVE  \E f : f = [p \in Pairs |-> Probe(key, f, p)]
<1>0. ASSUME NEW a \in Int, NEW b \in Int, NEW d \in Nat, b - a < d PROVE b - a <= d - 1
  BY <1>0
<1> DEFINE Solves(f, d) == \A p \in Pairs : p[2] - p[1] <= d => f[p] = Probe(key, f, p)
           bad == {d \in Nat : ~ \E f : Solves(f, d)}
<1>1. bad = {}
  <2> SUFFICES ASSUME bad # {} PROVE FALSE
    OBVIOUS
  <2>1. PICK d \in bad : \A k \in bad : d <= k
    BY LeastExists
  <2>2. d \in Nat /\ ~ \E f : Solves(f, d)
    BY <2>1
  <2>3. \E f : Solves(f, 0)
    <3> DEFINE f == [p \in Pairs |-> p[2]]
    <3>1. Solves(f, 0)
      <4> SUFFICES ASSUME NEW p \in Pairs, p[2] - p[1] <= 0 PROVE f[p] = Probe(key, f, p)
        OBVIOUS
      <4>1. p[1] >= p[2]
        BY SMTT(30) DEF Pairs
      <4>2. f[p] = p[2]
        OBVIOUS
      <4> HIDE DEF f
      <4> QED
        BY <4>1, <4>2 DEF Probe
    <3> QED
      BY <3>1
  <2>4. d # 0
    BY <2>2, <2>3
  <2>5. d - 1 \in Nat /\ d - 1 \notin bad
    BY <2>1, <2>4
  <2>6. PICK f : Solves(f, d - 1)
    BY <2>5
  <2> DEFINE g == [p \in Pairs |-> IF p[2] - p[1] < d THEN f[p] ELSE Probe(key, f, p)]
  <2>7. \A p \in Pairs : p[2] - p[1] < d => g[p] = f[p]
    OBVIOUS
  <2>8. \A p \in Pairs : p[2] - p[1] <= d => g[p] = Probe(key, f, p)
    <3> SUFFICES ASSUME NEW p \in Pairs, p[2] - p[1] <= d PROVE g[p] = Probe(key, f, p)
      OBVIOUS
    <3>1. CASE p[2] - p[1] < d
      <4>0. p[1] \in Int /\ p[2] \in Int
        BY DEF Pairs
      <4>1. p[2] - p[1] <= d - 1
        BY <1>0, <2>2, <3>1, <4>0
      <4>2. f[p] = Probe(key, f, p)
        BY <2>6, <4>1
      <4> QED
        BY <2>7, <3>1, <4>2
    <3>2. CASE ~(p[2] - p[1] < d)
      BY <3>2
    <3> QED
      BY <3>1, <3>2
  <2> HIDE DEF g
  <2>9. \A p \in Pairs : p[2] - p[1] <= d => Probe(key, f, p) = Probe(key, g, p)
    BY <2>2, <2>7, ProbeNarrows
  <2>10. Solves(g, d)
    BY <2>8, <2>9
  <2> QED
    BY <2>2, <2>10
<1>2. PICK f : Solves(f, Len(schedulers))
  BY <1>1
<1> DEFINE g == [p \in Pairs |-> f[p]]
<1>3. \A p \in Pairs : p[2] - p[1] <= Len(schedulers)
  BY DEF Pairs
<1>4. \A p \in Pairs : g[p] = Probe(key, f, p)
  BY <1>2, <1>3
<1>5. \A p \in Pairs : Probe(key, f, p) = Probe(key, g, p)
  <2>1. \A p \in Pairs : g[p] = f[p]
    OBVIOUS
  <2> HIDE DEF g
  <2> QED
    BY <1>3, <2>1, ProbeNarrows
<1>6. g = [p \in Pairs |-> Probe(key, g, p)]
  BY <1>4, <1>5
<1> QED
  BY <1>6

-----------------------------------------------------------------------------
(***************************************************************************)
(* What the search finds.                                                  *)
(***************************************************************************)
LEMMA PositionByProbe ==
  ASSUME NEW key, Len(schedulers) \in Nat
  PROVE  \E f : /\ f = [p \in Pairs |-> Probe(key, f, p)]
                /\ Position(key) = f[<<1, Len(schedulers) + 1>>]
<1> DEFINE at == CHOOSE f : f = [p \in Pairs |-> Probe(key, f, p)]
<1>1. at = [p \in Pairs |-> Probe(key, at, p)]
  BY SearchExists
<1>2. Position(key) = at[<<1, Len(schedulers) + 1>>]
  BY Zenon DEF Position, Probe, Pairs
<1> QED
  BY <1>1, <1>2

\* The array is in order, and no two of its schedulers have the same key.
InOrder(array) ==
  \A i, j \in DOMAIN array : i < j => Difference(array[i].key, array[j].key) < 0

Below(key, n) == \A i \in DOMAIN schedulers : i < n => Difference(schedulers[i].key, key) < 0
Above(key, n) == \A i \in DOMAIN schedulers : i >= n => Difference(key, schedulers[i].key) < 0

\* Place n is that of the key, or where it belongs.
Found(key, n) ==
  /\ n \in 1..(Len(schedulers) + 1)
  /\ Below(key, n) /\ Above(key, n + 1)
  /\ n \in DOMAIN schedulers => schedulers[n].key = key \/ Above(key, n)

LEMMA ProbeFinds ==
  ASSUME NEW key \in Keys, schedulers \in Seq(Schedulers), InOrder(schedulers),
         NEW f, NEW p \in Pairs, p[1] <= p[2], Below(key, p[1]), Above(key, p[2]),
         NEW width \in Int, p[2] - p[1] <= width,
         \A q \in Pairs : /\ q[2] - q[1] < width /\ q[1] <= q[2]
                          /\ Below(key, q[1]) /\ Above(key, q[2])
                          => Found(key, f[q])
  PROVE  Found(key, Probe(key, f, p))
<1>1. /\ Len(schedulers) \in Nat /\ DOMAIN schedulers = 1..Len(schedulers)
      /\ \A i \in DOMAIN schedulers : schedulers[i].key \in Keys
  <2>1. Len(schedulers) \in Nat /\ DOMAIN schedulers = 1..Len(schedulers)
    BY LenProperties
  <2>2. \A i \in 1..Len(schedulers) : schedulers[i] \in Schedulers
    BY ElementOfSeq
  <2>3. \A s \in Schedulers : s.key \in Keys
    BY DEF Schedulers
  <2> QED
    BY <2>1, <2>2, <2>3
<1>2. p[1] \in 1..(Len(schedulers) + 1) /\ p[2] \in 1..(Len(schedulers) + 1)
  BY DEF Pairs
<1>3. CASE p[1] >= p[2]
  <2>1. p[1] = p[2] /\ Probe(key, f, p) = p[2]
    BY <1>2, <1>3 DEF Probe
  <2>2. Above(key, p[2] + 1)
    BY <1>1, <1>2 DEF Above
  <2> QED
    BY <1>2, <2>1, <2>2 DEF Found
<1>4. CASE p[1] < p[2]
  <2> DEFINE m == (p[1] + p[2]) \div 2
             d == Difference(key, schedulers[m].key)
  <2>1. m \in Nat /\ p[1] <= m /\ m < p[2]
    BY <1>2, <1>4
  <2>2. Probe(key, f, p) = IF d = 0 THEN m
                           ELSE IF d > 0 THEN f[<<m + 1, p[2]>>] ELSE f[<<p[1], m>>]
    BY <1>2, <1>4 DEF Probe
  <2> HIDE DEF m
  <2>3. <<m + 1, p[2]>> \in Pairs /\ <<p[1], m>> \in Pairs /\ m \in DOMAIN schedulers
    BY <1>1, <1>2, <2>1 DEF Pairs
  <2>4. p[2] - (m + 1) < width /\ m - p[1] < width
    BY <1>2, <2>1
  <2>5. /\ d \in Int
        /\ d = 0 <=> schedulers[m].key = key
        /\ d > 0 <=> Difference(schedulers[m].key, key) < 0
    BY <1>1, <2>3, KeyOrder
  <2>6. \A i \in DOMAIN schedulers : i < m => Difference(schedulers[i].key, schedulers[m].key) < 0
    BY <2>3 DEF InOrder
  <2>7. \A i \in DOMAIN schedulers : i > m => Difference(schedulers[m].key, schedulers[i].key) < 0
    BY <1>1, <2>3 DEF InOrder
  <2> HIDE DEF d
  <2>8. CASE d = 0
    <3>1. schedulers[m].key = key
      BY <2>5, <2>8
    <3>2. Below(key, m)
      BY <2>6, <3>1 DEF Below
    <3>3. Above(key, m + 1)
      BY <1>1, <2>1, <2>7, <3>1 DEF Above
    <3> QED
      BY <1>2, <2>1, <2>2, <2>8, <3>1, <3>2, <3>3 DEF Found
  <2>9. CASE d > 0
    <3>1. Difference(schedulers[m].key, key) < 0
      BY <2>5, <2>9
    <3>2. ASSUME NEW i \in DOMAIN schedulers, i < m + 1
          PROVE  Difference(schedulers[i].key, key) < 0
      <4>1. i = m \/ i < m
        BY <1>1, <2>1, <3>2
      <4>2. ASSUME i < m PROVE Difference(schedulers[i].key, key) < 0
        BY <1>1, <2>3, <2>6, <3>1, <4>2, KeyOrder
      <4> QED
        BY <3>1, <4>1, <4>2
    <3>3. Below(key, m + 1)
      BY <3>2 DEF Below
    <3>4. Found(key, f[<<m + 1, p[2]>>])
      BY <1>2, <2>1, <2>3, <2>4, <3>3
    <3> QED
      BY <2>2, <2>9, <3>4
  <2>10. CASE d < 0
    <3>1. Difference(key, schedulers[m].key) < 0
      BY <2>10 DEF d
    <3>2. ASSUME NEW i \in DOMAIN schedulers, i >= m
          PROVE  Difference(key, schedulers[i].key) < 0
      <4>1. i = m \/ i > m
        BY <1>1, <2>1, <3>2
      <4>2. ASSUME i > m PROVE Difference(key, schedulers[i].key) < 0
        BY <1>1, <2>3, <2>7, <3>1, <4>2, KeyOrder
      <4> QED
        BY <3>1, <4>1, <4>2
    <3>3. Above(key, m)
      BY <3>2 DEF Above
    <3>4. Found(key, f[<<p[1], m>>])
      BY <1>2, <2>1, <2>3, <2>4, <3>3
    <3>5. Probe(key, f, p) = f[<<p[1], m>>]
      BY <2>2, <2>5, <2>10
    <3> QED
      BY <3>4, <3>5
  <2> QED
    BY <2>5, <2>8, <2>9, <2>10
<1> QED
  BY <1>2, <1>3, <1>4

LEMMA PositionFound ==
  ASSUME NEW key \in Keys, schedulers \in Seq(Schedulers), InOrder(schedulers)
  PROVE  Found(key, Position(key))
<1>1. Len(schedulers) \in Nat /\ DOMAIN schedulers = 1..Len(schedulers)
  BY LenProperties
<1>2. PICK f : /\ f = [p \in Pairs |-> Probe(key, f, p)]
               /\ Position(key) = f[<<1, Len(schedulers) + 1>>]
  BY <1>1, PositionByProbe
<1> DEFINE Within(p) == p[1] <= p[2] /\ Below(key, p[1]) /\ Above(key, p[2])
           Good(d) == \A p \in Pairs : p[2] - p[1] <= d /\ Within(p) => Found(key, f[p])
           bad == {d \in Nat : ~Good(d)}
<1>3. bad = {}
  <2> SUFFICES ASSUME bad # {} PROVE FALSE
    OBVIOUS
  <2>1. PICK d \in bad : \A k \in bad : d <= k
    BY LeastExists
  <2>2. d \in Nat /\ ~Good(d)
    BY <2>1
  <2>3. PICK p \in Pairs : p[2] - p[1] <= d /\ Within(p) /\ ~Found(key, f[p])
    BY <2>2
  <2>4. ASSUME NEW q \in Pairs, q[2] - q[1] < d, Within(q)
        PROVE  Found(key, f[q])
    <3>1. q[1] \in Int /\ q[2] \in Int
      BY DEF Pairs
    <3>2. d - 1 \in Nat
      BY <2>2, <2>4, <3>1
    <3>3. d - 1 \notin bad
      BY <2>1, <2>2, <3>2
    <3>4. Good(d - 1)
      BY <3>2, <3>3
    <3>5. q[2] - q[1] <= d - 1
      BY <2>2, <2>4, <3>1
    <3> QED
      BY <2>4, <3>4, <3>5
  <2>5. f[p] = Probe(key, f, p)
    BY <1>2
  <2>6. Found(key, Probe(key, f, p))
    BY <2>2, <2>3, <2>4, ProbeFinds
  <2> QED
    BY <2>3, <2>5, <2>6
<1> DEFINE all == <<1, Len(schedulers) + 1>>
<1>4. all \in Pairs /\ all[1] = 1 /\ all[2] = Len(schedulers) + 1
  BY <1>1 DEF Pairs
<1>5. Within(all)
  BY <1>1, <1>4 DEF Below, Above
<1>6. all[2] - all[1] <= Len(schedulers)
  BY <1>1, <1>4
<1>7. Good(Len(schedulers))
  BY <1>1, <1>3
<1> HIDE DEF all, Within
<1>8. Found(key, f[all])
  BY <1>4, <1>5, <1>6, <1>7
<1> QED
  BY <1>2, <1>8 DEF all

LEMMA FindSchedulerFinds ==
  ASSUME NEW key \in Keys, schedulers \in Seq(Schedulers), InOrder(schedulers)
  PROVE  FindScheduler(key) <=> \E i \in DOMAIN schedulers : schedulers[i].key = key
<1>1. Found(key, Position(key)) /\ DOMAIN schedulers = 1..Len(schedulers) /\ Len(schedulers) \in Nat
  BY PositionFound, LenProperties
<1>2. \A i \in DOMAIN schedulers : schedulers[i].key \in Keys
  <2>1. \A i \in 1..Len(schedulers) : schedulers[i] \in Schedulers
    BY ElementOfSeq
  <2> QED
    BY <1>1, <2>1 DEF Schedulers
<1>3. ASSUME NEW i \in DOMAIN schedulers, schedulers[i].key = key PROVE FindScheduler(key)
  <2>1. Difference(key, key) = 0
    BY KeyOrder
  <2>2. ~(i < Position(key)) /\ ~(i >= Position(key) + 1)
    BY <1>1, <1>3, <2>1 DEF Found, Below, Above
  <2>3. i = Position(key)
    BY <1>1, <2>2 DEF Found
  <2> QED
    BY <1>3, <2>3 DEF FindScheduler
<1> QED
  BY <1>3 DEF FindScheduler

\* InsertInOrder keeps the order, and the elements.
LEMMA InsertFacts ==
  ASSUME NEW s \in Schedulers, schedulers \in Seq(Schedulers), InOrder(schedulers),
         \A i \in DOMAIN schedulers : schedulers[i].key # s.key
  PROVE  /\ InsertInOrder(s) \in Seq(Schedulers) /\ InOrder(InsertInOrder(s))
         /\ Position(s.key) \in DOMAIN InsertInOrder(s)
         /\ InsertInOrder(s)[Position(s.key)] = s
         /\ \A j \in DOMAIN InsertInOrder(s) :
              InsertInOrder(s)[j] = s
                \/ \E i \in DOMAIN schedulers : InsertInOrder(s)[j] = schedulers[i]
         /\ \A i \in DOMAIN schedulers :
              \E j \in DOMAIN InsertInOrder(s) : InsertInOrder(s)[j] = schedulers[i]
<1> DEFINE n == Position(s.key)
           len == Len(schedulers)
           front == SubSeq(schedulers, 1, n - 1)
           back == SubSeq(schedulers, n, len)
           array == front \o <<s>> \o back
<1>1. len \in Nat /\ DOMAIN schedulers = 1..len
  BY LenProperties
<1>2. s.key \in Keys
  BY DEF Schedulers
<1>3. n \in 1..(len + 1) /\ Below(s.key, n) /\ Above(s.key, n + 1)
      /\ (n \in DOMAIN schedulers => Above(s.key, n))
  BY <1>2, PositionFound DEF Found
<1>4. InsertInOrder(s) = array
  BY DEF InsertInOrder
<1> HIDE DEF n
<1>5. \A i \in 1..len : schedulers[i] \in Schedulers
  BY ElementOfSeq
<1>6. /\ front \in Seq(Schedulers) /\ Len(front) = n - 1
      /\ \A j \in 1..(n - 1) : front[j] = schedulers[j]
  <2>1. front = [j \in 1..(n - 1) |-> schedulers[1 + j - 1]]
    BY <1>1, <1>3, SubSeqProperties
  <2>2. \A j \in 1..(n - 1) : 1 + j - 1 = j
    OBVIOUS
  <2>3. \A j \in 1..(n - 1) : front[j] = schedulers[j]
    BY <2>1, <2>2
  <2>4. front \in Seq(Schedulers)
    BY <1>1, <1>3, SubSeqProperties
  <2>5. Len(front) = n - 1
    BY <1>1, <1>3, SubSeqProperties
  <2> QED
    BY <2>3, <2>4, <2>5
<1>7. /\ back \in Seq(Schedulers) /\ Len(back) = len - n + 1
      /\ \A j \in 1..(len - n + 1) : back[j] = schedulers[n + j - 1]
  BY <1>1, <1>3, SubSeqProperties
<1>8. <<s>> \in Seq(Schedulers) /\ Len(<<s>>) = 1 /\ <<s>>[1] = s
  OBVIOUS
<1> HIDE DEF front, back
<1>9. /\ front \o <<s>> \in Seq(Schedulers) /\ Len(front \o <<s>>) = n
      /\ \A j \in 1..n : (front \o <<s>>)[j] = IF j < n THEN schedulers[j] ELSE s
  BY <1>3, <1>6, <1>8, ConcatProperties
<1>10. /\ array \in Seq(Schedulers) /\ Len(array) = len + 1
       /\ \A j \in 1..(len + 1) :
            array[j] = IF j <= n THEN (front \o <<s>>)[j] ELSE back[j - n]
  <2> DEFINE head == front \o <<s>>
  <2>1. head \in Seq(Schedulers) /\ Len(head) = n /\ n + (len - n + 1) = len + 1 /\ array = head \o back
    BY <1>1, <1>3, <1>9
  <2> HIDE DEF head, array
  <2>2. /\ head \o back \in Seq(Schedulers)
        /\ Len(head \o back) = Len(head) + Len(back)
        /\ \A j \in 1..(Len(head) + Len(back)) :
             (head \o back)[j] = IF j <= Len(head) THEN head[j] ELSE back[j - Len(head)]
    BY <1>7, <2>1, ConcatProperties
  <2>3. /\ array \in Seq(Schedulers) /\ Len(array) = len + 1
        /\ \A j \in 1..(len + 1) : array[j] = IF j <= n THEN head[j] ELSE back[j - n]
    BY <1>7, <2>1, <2>2
  <2> QED
    BY <2>3 DEF head
<1> HIDE DEF array
<1>11. \A j \in 1..(len + 1) : /\ j < n => j \in 1..len /\ array[j] = schedulers[j]
                               /\ j = n => array[j] = s
                               /\ j > n => j - 1 \in 1..len /\ array[j] = schedulers[j - 1]
  <2> SUFFICES ASSUME NEW j \in 1..(len + 1)
               PROVE  /\ j < n => j \in 1..len /\ array[j] = schedulers[j]
                      /\ j = n => array[j] = s
                      /\ j > n => j - 1 \in 1..len /\ array[j] = schedulers[j - 1]
    OBVIOUS
  <2>1. j > n => j - n \in 1..(len - n + 1) /\ n + (j - n) - 1 = j - 1
    BY <1>1, <1>3
  <2>2. j > n => array[j] = schedulers[j - 1]
    BY <1>1, <1>3, <1>7, <1>10, <2>1
  <2>3. j <= n => array[j] = IF j < n THEN schedulers[j] ELSE s
    BY <1>1, <1>3, <1>9, <1>10
  <2> QED
    BY <1>1, <1>3, <2>2, <2>3
<1>12. DOMAIN array = 1..(len + 1)
  BY <1>10, LenProperties
<1>13. InOrder(array)
  <2> SUFFICES ASSUME NEW i \in 1..(len + 1), NEW j \in 1..(len + 1), i < j
               PROVE  Difference(array[i].key, array[j].key) < 0
    BY <1>12 DEF InOrder
  <2>1. ASSUME NEW k \in 1..len, k < n PROVE Difference(schedulers[k].key, s.key) < 0
    BY <1>1, <1>3, <2>1 DEF Below
  <2>2. ASSUME NEW k \in 1..len, k >= n PROVE Difference(s.key, schedulers[k].key) < 0
    BY <1>1, <1>3, <2>2 DEF Above
  <2>3. \A k, l \in 1..len : k < l => Difference(schedulers[k].key, schedulers[l].key) < 0
    BY <1>1 DEF InOrder
  <2>4. CASE j < n
    BY <1>1, <1>3, <1>11, <2>3, <2>4
  <2>5. CASE j = n
    BY <1>1, <1>3, <1>11, <2>1, <2>5
  <2>6. CASE j > n /\ i = n
    BY <1>1, <1>3, <1>11, <2>2, <2>6
  <2>7. CASE j > n /\ i < n
    <3>1. i < j - 1
      BY <1>3, <2>7
    <3> QED
      BY <1>1, <1>3, <1>11, <2>3, <2>7, <3>1
  <2>8. CASE j > n /\ i > n
    <3>1. i - 1 < j - 1
      OBVIOUS
    <3> QED
      BY <1>1, <1>3, <1>11, <2>3, <2>8, <3>1
  <2> QED
    BY <1>3, <2>4, <2>5, <2>6, <2>7, <2>8
<1>14. ASSUME NEW i \in 1..len PROVE \E j \in 1..(len + 1) : array[j] = schedulers[i]
  <2>1. CASE i < n
    <3>1. i \in 1..(len + 1)
      BY <1>1
    <3> QED
      BY <1>11, <2>1, <3>1
  <2>2. CASE i >= n
    <3>1. i + 1 \in 1..(len + 1) /\ i + 1 > n /\ (i + 1) - 1 = i
      BY <1>1, <1>3, <2>2
    <3> QED
      BY <1>11, <3>1
  <2> QED
    BY <1>3, <2>1, <2>2
<1>15. ASSUME NEW j \in 1..(len + 1)
       PROVE  array[j] = s \/ \E i \in 1..len : array[j] = schedulers[i]
  BY <1>3, <1>11
<1>16. n \in 1..(len + 1) /\ array[n] = s
  BY <1>3, <1>11
<1> QED
  <2>1. array \in Seq(Schedulers) /\ InOrder(array) /\ n \in DOMAIN array /\ array[n] = s
    BY <1>10, <1>12, <1>13, <1>16
  <2>2. \A j \in DOMAIN array : array[j] = s \/ \E i \in DOMAIN schedulers : array[j] = schedulers[i]
    BY <1>1, <1>12, <1>15
  <2>3. \A i \in DOMAIN schedulers : \E j \in DOMAIN array : array[j] = schedulers[i]
    BY <1>1, <1>12, <1>14
  <2> QED
    BY <1>4, <2>1, <2>2, <2>3 DEF n

-----------------------------------------------------------------------------
(***************************************************************************)
(* The inductive invariant.  What is said of a scheduler is about the      *)
(* requests it holds only, so that the others keep it in a step of one of  *)
(* its requests: the array's order makes it the only one for their key.    *)
(***************************************************************************)
CurrentOK(s, e, a) ==
  /\ s.step \in PolicyStep(e)
  /\ e.next # "EIdle" => s.policy
  /\ e.next \notin {"EIdle", "EUnConnected", "EWaitForHandleCleReturnValue",
                    "ETransitionComplete"} => s.cle
  \* The policy server's last step is over when its engine hears of it, or it is gone.
  /\ e.next = "EWaitForHandleCleReturnValue" /\ e.status \notin {"idle", "KRequestPending"}
       => s.step \in {"none", "gone"}
  \* The engine has ended if, and only if, the scheduler is to hear of it.
  /\ e.status = "idle" <=> s.status # "KRequestPending"
  \* What can no longer be cancelled is what the client was told of.
  /\ e.next \in InTransitionActions <=> a = "KErrNone"
  /\ a \in {"waiting", "KErrNone"} \/ e.status = "idle"

SchedulerOK(s, keys, eng, ans) ==
  /\ IsActive(s) <=> s.current # NoRequest
  /\ IsActive(s) \/ s.queue = <<>>
  /\ \A n \in DOMAIN s.queue :
       /\ eng[s.queue[n]] = Idle /\ ans[s.queue[n]] = "waiting"
       /\ s.queue[n] # s.current
       /\ \A m \in DOMAIN s.queue : s.queue[m] = s.queue[n] => m = n
  /\ \A r \in Requests : Holds(s, r) => keys[r] = s.key /\ eng[r] # NoEngine
  /\ s.current # NoRequest => CurrentOK(s, eng[s.current], ans[s.current])

\* What is said of the array of schedulers.
ArrayOK(array, keys, eng, ans) ==
  /\ array \in Seq(Schedulers)
  /\ InOrder(array)
  /\ \A i \in DOMAIN array : SchedulerOK(array[i], keys, eng, ans)
  /\ \A r \in Requests : eng[r] # NoEngine => \E i \in DOMAIN array : Holds(array[i], r)

IInv == TypeOK /\ ArrayOK(schedulers, keyOf, engine, answer)

LEMMA SchedulerFields ==
  ASSUME NEW s \in Schedulers
  PROVE  /\ s.key \in Keys /\ s.current \in Requests \cup {NoRequest}
         /\ s.queue \in Seq(Requests)
         /\ s.status \in {"idle", "KRequestPending"} \cup Codes
         /\ s.policy \in BOOLEAN /\ s.cle \in BOOLEAN /\ s.step \in Steps
BY DEF Schedulers

LEMMA ArrayFields ==
  ASSUME NEW array \in Seq(Schedulers)
  PROVE  /\ Len(array) \in Nat /\ DOMAIN array = 1..Len(array)
         /\ \A i \in DOMAIN array : array[i] \in Schedulers
<1>1. Len(array) \in Nat /\ DOMAIN array = 1..Len(array)
  BY LenProperties
<1>2. \A i \in 1..Len(array) : array[i] \in Schedulers
  BY ElementOfSeq
<1> QED
  BY <1>1, <1>2

\* No two schedulers of the array have the same key.
LEMMA OneForKey ==
  ASSUME NEW array \in Seq(Schedulers), InOrder(array),
         NEW i \in DOMAIN array, NEW j \in DOMAIN array, array[i].key = array[j].key
  PROVE  i = j
<1>1. i \in Nat /\ j \in Nat /\ array[i].key \in Keys
  BY ArrayFields, SchedulerFields
<1>2. Difference(array[i].key, array[i].key) = 0
  BY <1>1, KeyOrder
<1>3. ~(i < j) /\ ~(j < i)
  BY <1>2 DEF InOrder
<1> QED
  BY <1>1, <1>3

LEMMA HeldFacts ==
  ASSUME NEW s, NEW keys, NEW eng, NEW ans, SchedulerOK(s, keys, eng, ans),
         NEW r \in Requests, Holds(s, r)
  PROVE  keys[r] = s.key /\ eng[r] # NoEngine
BY DEF SchedulerOK

\* The scheduler that holds a request is the one for its key.
LEMMA OneHolds ==
  ASSUME NEW array, NEW keys, NEW eng, NEW ans, ArrayOK(array, keys, eng, ans),
         NEW r \in Requests, NEW i \in DOMAIN array,
         array[i].key = keys[r], eng[r] # NoEngine
  PROVE  Holds(array[i], r)
<1>1. PICK j \in DOMAIN array : Holds(array[j], r)
  BY DEF ArrayOK
<1>2. SchedulerOK(array[j], keys, eng, ans) /\ array \in Seq(Schedulers) /\ InOrder(array)
  BY DEF ArrayOK
<1>3. array[j].key = keys[r]
  BY <1>1, <1>2, HeldFacts
<1>4. j = i
  BY <1>2, <1>3, OneForKey
<1> QED
  BY <1>1, <1>4

\* A scheduler is not concerned by what happens to the requests of others.
LEMMA SchedulerFrame ==
  ASSUME NEW s \in Schedulers, NEW keys, NEW eng, NEW ans, NEW eng2, NEW ans2,
         SchedulerOK(s, keys, eng, ans),
         \A r \in Requests : Holds(s, r) => eng2[r] = eng[r] /\ ans2[r] = ans[r]
  PROVE  SchedulerOK(s, keys, eng2, ans2)
<1>1. s.current \in Requests \cup {NoRequest}
  BY SchedulerFields
<1>2. \A n \in DOMAIN s.queue : s.queue[n] \in Requests /\ Holds(s, s.queue[n])
  <2>1. s.queue \in Seq(Requests)
    BY SchedulerFields
  <2>2. DOMAIN s.queue = 1..Len(s.queue) /\ \A n \in 1..Len(s.queue) : s.queue[n] \in Requests
    BY <2>1, LenProperties, ElementOfSeq
  <2> QED
    BY <2>2 DEF Holds
<1>3. s.current # NoRequest =>
        /\ s.current \in Requests
        /\ eng2[s.current] = eng[s.current] /\ ans2[s.current] = ans[s.current]
  BY <1>1 DEF Holds
<1>4. \A n \in DOMAIN s.queue :
        eng2[s.queue[n]] = eng[s.queue[n]] /\ ans2[s.queue[n]] = ans[s.queue[n]]
  BY <1>2
<1> QED
  BY <1>3, <1>4 DEF SchedulerOK

\* A step of one scheduler, and of requests for its key.
LEMMA OneChanges ==
  ASSUME NEW array, NEW keys, NEW eng, NEW ans, ArrayOK(array, keys, eng, ans),
         NEW i \in DOMAIN array, NEW t \in Schedulers, t.key = array[i].key,
         NEW eng2, NEW ans2,
         \A r \in Requests : keys[r] # t.key => eng2[r] = eng[r] /\ ans2[r] = ans[r],
         SchedulerOK(t, keys, eng2, ans2),
         \A r \in Requests : keys[r] = t.key /\ eng2[r] # NoEngine => Holds(t, r)
  PROVE  ArrayOK([array EXCEPT ![i] = t], keys, eng2, ans2)
<1> DEFINE array2 == [array EXCEPT ![i] = t]
<1>1. array \in Seq(Schedulers) /\ InOrder(array)
  BY DEF ArrayOK
<1>2. DOMAIN array = 1..Len(array) /\ \A j \in DOMAIN array : array[j] \in Schedulers
  BY <1>1, ArrayFields
<1>3. /\ array2 \in Seq(Schedulers) /\ DOMAIN array2 = DOMAIN array
      /\ \A j \in DOMAIN array : array2[j] = IF j = i THEN t ELSE array[j]
  <2>1. array2 \in Seq(Schedulers)
    BY <1>1, <1>2, ExceptSeq
  <2> QED
    BY <2>1
<1> HIDE DEF array2
<1>4. InOrder(array2)
  BY <1>1, <1>3 DEF InOrder
<1>5. ASSUME NEW j \in DOMAIN array PROVE SchedulerOK(array2[j], keys, eng2, ans2)
  <2>1. CASE j = i
    BY <1>3, <2>1
  <2>2. CASE j # i
    <3>1. SchedulerOK(array[j], keys, eng, ans)
      BY DEF ArrayOK
    <3>2. array[j].key # t.key
      BY <1>1, <2>2, OneForKey
    <3>3. \A r \in Requests : Holds(array[j], r) => eng2[r] = eng[r] /\ ans2[r] = ans[r]
      BY <3>1, <3>2, HeldFacts
    <3>4. SchedulerOK(array[j], keys, eng2, ans2)
      BY <1>2, <3>1, <3>3, SchedulerFrame
    <3> QED
      BY <1>3, <2>2, <3>4
  <2> QED
    BY <2>1, <2>2
<1>6. ASSUME NEW r \in Requests, eng2[r] # NoEngine
      PROVE  \E j \in DOMAIN array2 : Holds(array2[j], r)
  <2>1. CASE keys[r] = t.key
    <3>1. Holds(t, r)
      BY <1>6, <2>1
    <3> QED
      BY <1>3, <3>1
  <2>2. CASE keys[r] # t.key
    <3>1. eng[r] # NoEngine
      BY <1>6, <2>2
    <3>2. PICK j \in DOMAIN array : Holds(array[j], r)
      BY <3>1 DEF ArrayOK
    <3>3. SchedulerOK(array[j], keys, eng, ans)
      BY DEF ArrayOK
    <3>4. array[j].key = keys[r]
      BY <3>2, <3>3, HeldFacts
    <3>5. j # i
      BY <2>2, <3>4
    <3> QED
      BY <1>3, <3>2, <3>5
  <2> QED
    BY <2>1, <2>2
<1> QED
  BY <1>3, <1>4, <1>5, <1>6 DEF ArrayOK, array2

-----------------------------------------------------------------------------
LEMMA InitInv == Init => IInv
<1> SUFFICES ASSUME Init PROVE IInv
  OBVIOUS
<1>1. keyOf \in Changes /\ schedulers = <<>> /\ schedulers \in Seq(Schedulers)
  BY EmptySeq DEF Init
<1>2. DOMAIN schedulers = {}
  BY <1>1
<1>3. ArrayOK(schedulers, keyOf, engine, answer)
  <2>1. \A r \in Requests : engine[r] = NoEngine
    BY DEF Init
  <2> QED
    BY <1>1, <1>2, <2>1 DEF ArrayOK, InOrder
<1>4. TypeOK
  BY <1>1 DEF Init, TypeOK
<1> QED
  BY <1>3, <1>4 DEF IInv

\* A step of the engine of the current request of scheduler i.
LEMMA EngineStep ==
  ASSUME IInv, NEW i \in DOMAIN schedulers, NEW r \in Requests, schedulers[i].current = r,
         NEW t \in Schedulers, t.key = schedulers[i].key, t.current = r,
         t.queue = schedulers[i].queue, t.status # "idle",
         NEW e \in Engines, NEW a, CurrentOK(t, e, a)
  PROVE  ArrayOK([schedulers EXCEPT ![i] = t], keyOf, [engine EXCEPT ![r] = e],
                 [answer EXCEPT ![r] = a])
<1> DEFINE s == schedulers[i]
           eng2 == [engine EXCEPT ![r] = e]
           ans2 == [answer EXCEPT ![r] = a]
<1>1. /\ ArrayOK(schedulers, keyOf, engine, answer)
      /\ schedulers \in Seq(Schedulers)
      /\ SchedulerOK(s, keyOf, engine, answer)
  BY DEF IInv, ArrayOK
<1>2. Holds(s, r) /\ keyOf[r] = s.key
  BY <1>1, HeldFacts DEF Holds
<1>3. \A x \in Requests : /\ eng2[x] = IF x = r THEN e ELSE engine[x]
                          /\ ans2[x] = IF x = r THEN a ELSE answer[x]
  BY DEF IInv, TypeOK
<1> HIDE DEF eng2, ans2
<1>4. \A x : Holds(t, x) <=> Holds(s, x)
  BY DEF Holds
<1>5. r # NoRequest /\ e # NoEngine
  BY RequestsAssumption DEF Engines, NoEngine, Calls
<1>6. SchedulerOK(t, keyOf, eng2, ans2)
  <2>1. IsActive(t)
    BY DEF IsActive
  <2>2. \A n \in DOMAIN s.queue : s.queue[n] \in Requests
    <3>1. s.queue \in Seq(Requests)
      BY <1>1, ArrayFields, SchedulerFields
    <3> QED
      BY <3>1, LenProperties, ElementOfSeq
  <2>3. \A n \in DOMAIN t.queue :
          /\ eng2[t.queue[n]] = Idle /\ ans2[t.queue[n]] = "waiting"
          /\ t.queue[n] # t.current
          /\ \A m \in DOMAIN t.queue : t.queue[m] = t.queue[n] => m = n
    BY <1>1, <1>3, <2>2 DEF SchedulerOK
  <2>4. \A x \in Requests : Holds(t, x) => keyOf[x] = t.key /\ eng2[x] # NoEngine
    BY <1>1, <1>3, <1>4, <1>5, HeldFacts
  <2> QED
    BY <1>3, <1>5, <2>1, <2>3, <2>4 DEF SchedulerOK
<1>7. \A x \in Requests : keyOf[x] # t.key => eng2[x] = engine[x] /\ ans2[x] = answer[x]
  BY <1>2, <1>3
<1>8. \A x \in Requests : keyOf[x] = t.key /\ eng2[x] # NoEngine => Holds(t, x)
  BY <1>1, <1>2, <1>3, <1>4, OneHolds
<1>9. ArrayOK([schedulers EXCEPT ![i] = t], keyOf, eng2, ans2)
  BY <1>1, <1>6, <1>7, <1>8, OneChanges
<1> QED
  BY <1>9 DEF eng2, ans2

\* The same, as a step of the model.
LEMMA EngineStepInv ==
  ASSUME IInv, NEW i \in DOMAIN schedulers, NEW r \in Requests, schedulers[i].current = r,
         NEW t \in Schedulers, t.key = schedulers[i].key, t.current = r,
         t.queue = schedulers[i].queue, t.status # "idle",
         NEW e \in Engines, NEW a \in Codes \cup {"none", "waiting", "KErrCancel"},
         CurrentOK(t, e, a),
         schedulers' = [schedulers EXCEPT ![i] = t],
         engine' = [engine EXCEPT ![r] = e],
         answer' = [answer EXCEPT ![r] = a],
         UNCHANGED <<keyOf, timer, panicked>>
  PROVE  IInv'
<1>1. ArrayOK(schedulers, keyOf, engine, answer)'
  BY EngineStep
<1>2. TypeOK'
  BY <1>1 DEF IInv, TypeOK, ArrayOK
<1> QED
  BY <1>1, <1>2 DEF IInv

\* The scheduler of a request that is current.
LEMMA CurrentFacts ==
  ASSUME IInv, NEW r \in Requests, IsCurrent(r)
  PROVE  /\ Place(r) \in DOMAIN schedulers /\ schedulers[Place(r)].current = r
         /\ schedulers[Place(r)] \in Schedulers
         /\ schedulers[Place(r)].status # "idle"
         /\ schedulers[Place(r)].key = keyOf[r]
         /\ engine[r] \in Engines /\ engine \in [Requests -> Engines \cup {NoEngine}]
         /\ answer \in [Requests -> Codes \cup {"none", "waiting", "KErrCancel"}]
         /\ r # NoRequest
         /\ CurrentOK(schedulers[Place(r)], engine[r], answer[r])
<1>1. Place(r) \in DOMAIN schedulers /\ schedulers[Place(r)].current = r
  BY DEF IsCurrent, Place
<1>2. /\ schedulers \in Seq(Schedulers)
      /\ SchedulerOK(schedulers[Place(r)], keyOf, engine, answer)
  BY <1>1 DEF IInv, ArrayOK
<1>3. schedulers[Place(r)] \in Schedulers
  BY <1>1, <1>2, ArrayFields
<1>4. schedulers[Place(r)].key = keyOf[r] /\ engine[r] # NoEngine
  BY <1>1, <1>2, HeldFacts DEF Holds
<1>5. /\ engine[r] \in Engines /\ engine \in [Requests -> Engines \cup {NoEngine}]
      /\ answer \in [Requests -> Codes \cup {"none", "waiting", "KErrCancel"}]
  BY <1>4 DEF IInv, TypeOK
<1>6. r # NoRequest
  BY RequestsAssumption
<1> QED
  BY <1>1, <1>2, <1>3, <1>4, <1>5, <1>6 DEF SchedulerOK, IsActive

LEMMA EngineFields ==
  ASSUME NEW e \in Engines
  PROVE  /\ e = [next |-> e.next, status |-> e.status]
         /\ e.status \in Codes \cup {"KRequestPending", "idle"}
         /\ e.status \notin {"idle", "KErrNone"} => e.next \in Calls
         /\ e.next \in Calls \cup {"EIdle", "EUnConnected", "EPrepareCommandList",
              "ESetSwpPolicyDllHandleAndInitialize", "ETransitionComplete"}
<1>1. CASE e \in [next : Calls, status : Codes \cup {"KRequestPending"}]
  BY <1>1
<1>2. CASE e \in [next : {"EUnConnected", "ESetSwpPolicyDllHandleAndInitialize",
                         "EPrepareCommandList"}, status : {"KErrNone"}]
  BY <1>2 DEF Codes
<1>3. CASE e \in [next : (Calls \ {"EWaitForCommandListExecute"})
                           \cup {"EIdle", "EUnConnected", "ETransitionComplete"},
                 status : {"idle"}]
  BY <1>3
<1> QED
  BY <1>1, <1>2, <1>3 DEF Engines

\* The steps of the engines.
LEMMA RunErrorInv ==
  ASSUME IInv, NEW r \in Requests, IsCurrent(r), RunError(r), UNCHANGED keyOf,
         engine[r].status # "idle", engine[r].next # "EWaitForCommandListExecute",
         engine[r].next \in Calls \cup {"EUnConnected"}
  PROVE  IInv'
<1> DEFINE i == Place(r)
           t == [schedulers[i] EXCEPT !.status = "KErrNoMemory"]
           e == [engine[r] EXCEPT !.status = "idle"]
           a == Failed(r)
<1>1. /\ i \in DOMAIN schedulers /\ schedulers[i].current = r
      /\ schedulers[i] \in Schedulers /\ engine[r] \in Engines
      /\ answer[r] \in Codes \cup {"none", "waiting", "KErrCancel"}
      /\ CurrentOK(schedulers[i], engine[r], answer[r])
  BY CurrentFacts
<1>2. /\ schedulers' = [schedulers EXCEPT ![i] = t]
      /\ engine' = [engine EXCEPT ![r] = e]
      /\ answer' = [answer EXCEPT ![r] = a]
      /\ UNCHANGED <<keyOf, timer, panicked>>
  BY DEF RunError, Ends
<1> HIDE DEF i
<1>3. /\ t \in Schedulers /\ t.key = schedulers[i].key /\ t.current = r
      /\ t.queue = schedulers[i].queue /\ t.status # "idle"
  BY <1>1 DEF Schedulers, Codes, Errors
<1>4. e = [next |-> engine[r].next, status |-> "idle"] /\ e \in Engines
  <2>1. e = [next |-> engine[r].next, status |-> "idle"]
    BY <1>1, EngineFields
  <2> QED
    BY <2>1 DEF Engines
<1>5. a = IF answer[r] = "waiting" THEN "KErrNoMemory" ELSE answer[r]
  BY DEF Failed, Completed
<1>6. a \in Codes \cup {"none", "waiting", "KErrCancel"}
  BY <1>1, <1>5 DEF Codes, Errors
<1>7. CurrentOK(t, e, a)
  <2>1. /\ t.step = schedulers[i].step /\ t.policy = schedulers[i].policy
        /\ t.cle = schedulers[i].cle /\ t.status = "KErrNoMemory"
    BY <1>1 DEF Schedulers
  <2>2. e.next = engine[r].next /\ e.status = "idle"
    BY <1>4
  <2> HIDE DEF t, e, a
  <2>3. schedulers[i].step \in PolicyStep(engine[r]) => schedulers[i].step \in PolicyStep(e)
    <3>1. schedulers[i].step \in Steps
      BY <1>1, SchedulerFields
    <3>2. e.next \in Calls \cup {"EUnConnected"} /\ e.next # "EWaitForCommandListExecute"
      BY <2>2
    <3> QED
      BY <2>2, <3>1, <3>2 DEF PolicyStep, MayLackObject, Calls
  <2> QED
    BY <1>1, <1>5, <2>1, <2>2, <2>3 DEF CurrentOK
<1> HIDE DEF t, e, a
<1> QED
  BY <1>1, <1>2, <1>3, <1>4, <1>6, <1>7, EngineStepInv

\* A step after which the engine goes on, or has ended with the scheduler told.
LEMMA GoesInv ==
  ASSUME IInv, NEW r \in Requests, IsCurrent(r), UNCHANGED <<keyOf, timer, panicked>>,
         NEW t \in Schedulers, t.key = schedulers[Place(r)].key, t.current = r,
         t.queue = schedulers[Place(r)].queue, t.status # "idle",
         NEW e \in Engines, NEW a \in Codes \cup {"none", "waiting", "KErrCancel"},
         CurrentOK(t, e, a),
         schedulers' = [schedulers EXCEPT ![Place(r)] = t],
         engine' = [engine EXCEPT ![r] = e],
         answer' = [answer EXCEPT ![r] = a]
  PROVE  IInv'
<1>1. Place(r) \in DOMAIN schedulers /\ schedulers[Place(r)].current = r
  BY CurrentFacts
<1> QED
  BY <1>1, EngineStepInv

LEMMA Unchanged ==
  ASSUME IInv, NEW r \in Requests, IsCurrent(r)
  PROVE  /\ schedulers = [schedulers EXCEPT ![Place(r)] = schedulers[Place(r)]]
         /\ engine = [engine EXCEPT ![r] = engine[r]]
         /\ answer = [answer EXCEPT ![r] = answer[r]]
<1>1. /\ Place(r) \in DOMAIN schedulers /\ schedulers \in Seq(Schedulers)
      /\ engine \in [Requests -> Engines \cup {NoEngine}]
      /\ answer \in [Requests -> Codes \cup {"none", "waiting", "KErrCancel"}]
  BY CurrentFacts DEF IInv, TypeOK
<1>2. schedulers \in [1..Len(schedulers) -> Schedulers]
  BY <1>1, LenProperties
<1> QED
  BY <1>1, <1>2


\* An engine goes on to the action next, with its policy at step and its client
\* answered a.
GoesOn(r, step, cle, next, status, a) ==
  /\ schedulers' = [schedulers EXCEPT ![Place(r)] =
                      [schedulers[Place(r)] EXCEPT !.step = step, !.cle = cle]]
  /\ Goes(r, next, status) /\ answer' = [answer EXCEPT ![r] = a]

\* Its client has been told, or waits.
LEMMA GoesOnInv ==
  ASSUME IInv, NEW r \in Requests, Runs(r), UNCHANGED <<keyOf, timer, panicked>>,
         NEW step \in Steps, NEW cle \in BOOLEAN, NEW next, NEW status,
         NEW a \in Codes \cup {"none", "waiting", "KErrCancel"},
         GoesOn(r, step, cle, next, status, a),
         [next |-> next, status |-> status] \in Engines, status # "idle",
         step \in PolicyStep([next |-> next, status |-> status]), schedulers[Place(r)].policy,
         cle \/ next \in {"EUnConnected", "EWaitForHandleCleReturnValue"},
         next = "EWaitForHandleCleReturnValue" /\ status # "KRequestPending"
           => step \in {"none", "gone"},
         next \in InTransitionActions <=> a = "KErrNone", a \in {"waiting", "KErrNone"}
  PROVE  IInv'
<1> DEFINE s == schedulers[Place(r)]
           t == [s EXCEPT !.step = step, !.cle = cle]
           e == [next |-> next, status |-> status]
<1>1. IsCurrent(r) /\ engine[r].status # "idle"
  BY DEF Runs
<1>2. /\ t \in Schedulers /\ t.key = s.key /\ t.current = r /\ t.queue = s.queue
      /\ t.status = s.status /\ t.policy = s.policy /\ t.cle = cle /\ t.step = step
      /\ s.status # "idle"
  <2>1. s \in Schedulers /\ s.current = r /\ s.status # "idle"
    BY <1>1, CurrentFacts
  <2> QED
    BY <2>1 DEF Schedulers
<1>3. s.status = "KRequestPending"
  BY <1>1, CurrentFacts DEF CurrentOK
<1>4. e.next = next /\ e.status = status /\ e \in Engines /\ step \in PolicyStep(e)
  OBVIOUS
<1>5. engine' = [engine EXCEPT ![r] = e] /\ schedulers' = [schedulers EXCEPT ![Place(r)] = t]
  BY DEF GoesOn, Goes
<1> HIDE DEF t, e
<1>6. CurrentOK(t, e, a)
  BY <1>2, <1>3, <1>4 DEF CurrentOK
<1>7. answer' = [answer EXCEPT ![r] = a]
  BY DEF GoesOn
<1> QED
  BY <1>1, <1>2, <1>4, <1>5, <1>6, <1>7, GoesInv

\* What is asked of the policy server, which may be gone.
LEMMA AskedFacts ==
  ASSUME NEW r, NEW step \in Steps
  PROVE  /\ StepOf(r, step) \in Steps /\ StepOf(r, step) \in {step, "gone"}
         /\ Asked(r) \in Codes \cup {"KRequestPending"} /\ Asked(r) # "idle"
         /\ Asked(r) \in {"KRequestPending", "KErrServerTerminated"}
         /\ Asked(r) # "KRequestPending" => StepOf(r, step) = "gone"
BY DEF StepOf, Asked, Steps, Codes

LEMMA EngineRunLInv ==
  ASSUME IInv, NEW r \in Requests, EngineRunL(r), UNCHANGED keyOf
  PROVE  IInv'
<1> DEFINE s == schedulers[Place(r)]
           next == engine[r].next
           status == engine[r].status
<1>1. EnginePanics(r) \/ Runs(r)
  BY DEF EngineRunL, EngineFails, ConnectCle, ConnectCleFails, Initialize, InitializeLeaves,
         Allowed, NotAllowed, PrepareCommandList, ExecuteCommandList, HandleCleReturnValue,
         TransitionComplete, RunsWell
<1>2. CASE EnginePanics(r)
  BY <1>2 DEF EnginePanics, IInv, TypeOK
<1> SUFFICES ASSUME Runs(r), ~EnginePanics(r) PROVE IInv'
  BY <1>1, <1>2
<1>3. /\ IsCurrent(r) /\ status \notin {"idle", "KRequestPending"}
      /\ s \in Schedulers /\ s.current = r /\ s.status # "idle"
      /\ engine[r] \in Engines
      /\ answer[r] \in Codes \cup {"none", "waiting", "KErrCancel"}
      /\ CurrentOK(s, engine[r], answer[r])
  BY CurrentFacts DEF Runs
<1>4. /\ schedulers = [schedulers EXCEPT ![Place(r)] = s]
      /\ answer = [answer EXCEPT ![r] = answer[r]]
  BY <1>3, Unchanged
<1>5. s = [s EXCEPT !.step = s.step, !.cle = s.cle] /\ s.cle \in BOOLEAN /\ s.step \in Steps
  BY <1>3 DEF Schedulers
<1>6. s.status = "KRequestPending" /\ answer[r] \in {"waiting", "KErrNone"}
  BY <1>3 DEF CurrentOK
<1>7. /\ next # "EIdle" => s.policy
      /\ next \notin {"EIdle", "EUnConnected", "EWaitForHandleCleReturnValue",
                      "ETransitionComplete"} => s.cle
      /\ s.step \in PolicyStep(engine[r])
      /\ next = "EWaitForHandleCleReturnValue" => s.step \in {"none", "gone"}
      /\ next \in InTransitionActions <=> answer[r] = "KErrNone"
  BY <1>3 DEF CurrentOK
<1>8. /\ status \in Codes
      /\ status # "KErrNone" => next \in Calls
  BY <1>3, EngineFields
<1>9. CASE EngineFails(r)
  BY <1>3, <1>8, <1>9, RunErrorInv DEF EngineFails, RunsWell
<1>10. CASE ConnectCleFails(r)
  BY <1>3, <1>10, RunErrorInv DEF ConnectCleFails
<1>11. CASE ConnectCle(r)
  <2>1. schedulers' = [schedulers EXCEPT ![Place(r)] = [s EXCEPT !.step = s.step, !.cle = TRUE]]
    <3>1. [s EXCEPT !.cle = TRUE] = [s EXCEPT !.step = s.step, !.cle = TRUE]
      BY <1>3 DEF Schedulers
    <3> QED
      BY <1>11, <3>1 DEF ConnectCle
  <2>2. [next |-> "ESetSwpPolicyDllHandleAndInitialize", status |-> "KErrNone"] \in Engines
    BY DEF Engines
  <2>3. s.step \in PolicyStep([next |-> "ESetSwpPolicyDllHandleAndInitialize",
                              status |-> "KErrNone"])
    BY <1>5 DEF PolicyStep
  <2>4. next = "EUnConnected" /\ UNCHANGED <<timer, panicked, answer>>
        /\ Goes(r, "ESetSwpPolicyDllHandleAndInitialize", "KErrNone")
    BY <1>11 DEF ConnectCle
  <2>5. answer[r] # "KErrNone" /\ "ESetSwpPolicyDllHandleAndInitialize" \notin InTransitionActions
    BY <1>7, <2>4 DEF InTransitionActions
  <2>6. GoesOn(r, s.step, TRUE, "ESetSwpPolicyDllHandleAndInitialize", "KErrNone", answer[r])
    BY <1>4, <2>1, <2>4 DEF GoesOn
  <2> QED
    BY <1>3, <1>5, <1>6, <1>7, <2>2, <2>3, <2>4, <2>5, <2>6, GoesOnInv
<1>12. CASE Initialize(r)
  <2> DEFINE step == StepOf(r, "EInitialize")
             asked == Asked(r)
  <2>1. schedulers' = [schedulers EXCEPT ![Place(r)] = [s EXCEPT !.step = step, !.cle = s.cle]]
    <3>1. [s EXCEPT !.step = step] = [s EXCEPT !.step = step, !.cle = s.cle]
      BY <1>3 DEF Schedulers
    <3> QED
      BY <1>12, <3>1 DEF Initialize
  <2>2. /\ step \in Steps /\ step \in {"EInitialize", "gone"}
        /\ asked \in Codes \cup {"KRequestPending"} /\ asked # "idle"
        /\ asked \in {"KRequestPending", "KErrServerTerminated"}
    BY AskedFacts DEF Steps
  <2>3. next = "ESetSwpPolicyDllHandleAndInitialize" /\ UNCHANGED <<timer, panicked, answer>>
        /\ Goes(r, "ETransitionAllowed", asked)
    BY <1>12 DEF Initialize
  <2> HIDE DEF step, asked
  <2>4. [next |-> "ETransitionAllowed", status |-> asked] \in Engines
    BY <2>2 DEF Engines, Calls
  <2>5. step \in PolicyStep([next |-> "ETransitionAllowed", status |-> asked])
    BY <2>2 DEF PolicyStep, MayLackObject
  <2>6. (answer[r] = "KErrNone" <=> "ETransitionAllowed" \in InTransitionActions)
    BY <1>7, <2>3 DEF InTransitionActions
  <2>7. GoesOn(r, step, s.cle, "ETransitionAllowed", asked, answer[r])
    BY <1>4, <2>1, <2>3 DEF GoesOn
  <2> QED
    BY <1>3, <1>5, <1>6, <1>7, <2>2, <2>3, <2>4, <2>5, <2>6, <2>7, GoesOnInv
<1>13. CASE Allowed(r)
  <2>1. schedulers' = [schedulers EXCEPT ![Place(r)] = [s EXCEPT !.step = s.step, !.cle = s.cle]]
    <3>1. [s EXCEPT !.step = s.step] = [s EXCEPT !.step = s.step, !.cle = s.cle]
      BY <1>3 DEF Schedulers
    <3> QED
      BY <1>4, <1>5, <1>13, <3>1 DEF Allowed
  <2>2. [next |-> "EPrepareCommandList", status |-> "KErrNone"] \in Engines
    BY DEF Engines, Calls, Codes
  <2>3. s.step \in PolicyStep([next |-> "EPrepareCommandList", status |-> "KErrNone"])
    <3>1. next = "ETransitionAllowed" /\ status = "KErrNone"
      BY <1>13 DEF Allowed, RunsWell
    <3>2. s.step \in {"EInitialize", "gone"}
      BY <1>7, <3>1 DEF PolicyStep, MayLackObject
    <3> QED
      BY <3>2 DEF PolicyStep, MayLackObject
  <2>4. next = "ETransitionAllowed" /\ UNCHANGED <<timer, panicked>>
        /\ Goes(r, "EPrepareCommandList", "KErrNone")
    BY <1>13 DEF Allowed
  <2>5. answer' = [answer EXCEPT ![r] = "KErrNone"] /\ "EPrepareCommandList" \in InTransitionActions
    BY <1>6, <1>13 DEF Allowed, InTransitionActions, Completed
  <2>6. "KErrNone" \in Codes
    BY DEF Codes
  <2>7. GoesOn(r, s.step, s.cle, "EPrepareCommandList", "KErrNone", "KErrNone")
    BY <1>4, <2>1, <2>4, <2>5 DEF GoesOn
  <2> QED
    BY <1>3, <1>5, <1>6, <1>7, <2>2, <2>3, <2>4, <2>5, <2>6, <2>7, GoesOnInv
<1>14. CASE PrepareCommandList(r)
  <2> DEFINE step == StepOf(r, "EPrepareCommandList")
             asked == Asked(r)
  <2>1. schedulers' = [schedulers EXCEPT ![Place(r)] = [s EXCEPT !.step = step, !.cle = s.cle]]
    <3>1. [s EXCEPT !.step = step] = [s EXCEPT !.step = step, !.cle = s.cle]
      BY <1>3 DEF Schedulers
    <3> QED
      BY <1>14, <3>1 DEF PrepareCommandList
  <2>2. /\ step \in Steps /\ step \in {"EPrepareCommandList", "gone"}
        /\ asked \in Codes \cup {"KRequestPending"} /\ asked # "idle"
    BY AskedFacts DEF Steps
  <2>3. next = "EPrepareCommandList" /\ UNCHANGED <<timer, panicked, answer>>
        /\ Goes(r, "EExecuteCommandList", asked)
    BY <1>14 DEF PrepareCommandList
  <2> HIDE DEF step, asked
  <2>4. [next |-> "EExecuteCommandList", status |-> asked] \in Engines
    BY <2>2 DEF Engines, Calls
  <2>5. step \in PolicyStep([next |-> "EExecuteCommandList", status |-> asked])
    BY <2>2 DEF PolicyStep
  <2>6. (answer[r] = "KErrNone" <=> "EExecuteCommandList" \in InTransitionActions)
    BY <1>7, <2>3 DEF InTransitionActions
  <2>7. GoesOn(r, step, s.cle, "EExecuteCommandList", asked, answer[r])
    BY <1>4, <2>1, <2>3 DEF GoesOn
  <2> QED
    BY <1>3, <1>5, <1>6, <1>7, <2>2, <2>3, <2>4, <2>5, <2>6, <2>7, GoesOnInv
<1>15. CASE ExecuteCommandList(r)
  <2>1. schedulers' = [schedulers EXCEPT ![Place(r)] = [s EXCEPT !.step = "ECallCommandList", !.cle = s.cle]]
    <3>1. [s EXCEPT !.step = "ECallCommandList"] = [s EXCEPT !.step = "ECallCommandList", !.cle = s.cle]
      BY <1>3 DEF Schedulers
    <3> QED
      BY <1>4, <1>5, <1>15, <3>1 DEF ExecuteCommandList
  <2>2. [next |-> "EWaitForCommandListExecute", status |-> "KRequestPending"] \in Engines
    BY DEF Engines, Calls, Codes
  <2>3. /\ "ECallCommandList" \in PolicyStep([next |-> "EWaitForCommandListExecute",
                                             status |-> "KRequestPending"])
        /\ "ECallCommandList" \in Steps
    BY DEF PolicyStep, Steps
  <2>4. next = "EExecuteCommandList" /\ UNCHANGED <<timer, panicked, answer>>
        /\ Goes(r, "EWaitForCommandListExecute", "KRequestPending")
    BY <1>15 DEF ExecuteCommandList
  <2>5. (answer[r] = "KErrNone" <=> "EWaitForCommandListExecute" \in InTransitionActions)
    BY <1>7, <2>4 DEF InTransitionActions
  <2>6. GoesOn(r, "ECallCommandList", s.cle, "EWaitForCommandListExecute", "KRequestPending", answer[r])
    BY <1>4, <2>1, <2>4 DEF GoesOn
  <2> QED
    BY <1>3, <1>5, <1>6, <1>7, <2>2, <2>3, <2>4, <2>5, <2>6, GoesOnInv
<1>16. CASE HandleCleReturnValue(r)
  <2> DEFINE cle == s.cle /\ status # "KErrServerTerminated"
             step == StepOf(r, "EHandleCleReturnValue")
             asked == Asked(r)
  <2>1. schedulers' = [schedulers EXCEPT ![Place(r)] = [s EXCEPT !.step = step, !.cle = cle]]
    <3>1. Place(r) \in DOMAIN schedulers
      BY <1>3, CurrentFacts
    <3> QED
      BY <1>3, <1>16, <3>1 DEF HandleCleReturnValue, Schedulers
  <2>2. /\ step \in Steps
        /\ asked \in Codes \cup {"KRequestPending"} /\ asked # "idle"
        /\ asked # "KRequestPending" => step \in {"none", "gone"}
    BY AskedFacts DEF Steps
  <2>3. next = "EWaitForCommandListExecute" /\ UNCHANGED <<timer, panicked, answer>>
        /\ Goes(r, "EWaitForHandleCleReturnValue", asked)
    BY <1>16 DEF HandleCleReturnValue
  <2>4. cle \in BOOLEAN
    OBVIOUS
  <2> HIDE DEF cle, step, asked
  <2>5. [next |-> "EWaitForHandleCleReturnValue", status |-> asked] \in Engines
    BY <2>2 DEF Engines, Calls
  <2>6. step \in PolicyStep([next |-> "EWaitForHandleCleReturnValue", status |-> asked])
    BY <2>2 DEF PolicyStep
  <2>7. (answer[r] = "KErrNone" <=> "EWaitForHandleCleReturnValue" \in InTransitionActions)
    BY <1>7, <2>3 DEF InTransitionActions
  <2>8. GoesOn(r, step, cle, "EWaitForHandleCleReturnValue", asked, answer[r])
    BY <1>4, <2>1, <2>3 DEF GoesOn
  <2> QED
    BY <1>3, <1>5, <1>6, <1>7, <2>2, <2>3, <2>4, <2>5, <2>6, <2>7, <2>8, GoesOnInv
<1>17. CASE InitializeLeaves(r)
  <2>1. schedulers' = [schedulers EXCEPT ![Place(r)] = [s EXCEPT !.step = s.step, !.cle = s.cle]]
    BY <1>4, <1>5, <1>17 DEF InitializeLeaves
  <2>2. [next |-> "ETransitionAllowed", status |-> "KErrNoMemory"] \in Engines
    BY DEF Engines, Calls, Codes, Errors
  <2>3. s.step \in PolicyStep([next |-> "ETransitionAllowed", status |-> "KErrNoMemory"])
    BY <1>5 DEF PolicyStep, MayLackObject
  <2>4. next = "ESetSwpPolicyDllHandleAndInitialize" /\ UNCHANGED <<timer, panicked, answer>>
        /\ Goes(r, "ETransitionAllowed", "KErrNoMemory")
    BY <1>17 DEF InitializeLeaves
  <2>5. (answer[r] = "KErrNone" <=> "ETransitionAllowed" \in InTransitionActions)
    BY <1>7, <2>4 DEF InTransitionActions
  <2>6. GoesOn(r, s.step, s.cle, "ETransitionAllowed", "KErrNoMemory", answer[r])
    BY <1>4, <2>1, <2>4 DEF GoesOn
  <2> QED
    BY <1>3, <1>5, <1>6, <1>7, <2>2, <2>3, <2>4, <2>5, <2>6, GoesOnInv
\* The engine has ended: its scheduler is told.
<1>18. CASE NotAllowed(r)
  <2> DEFINE t == [s EXCEPT !.status = "KErrNotSupported"]
             e == [next |-> "EIdle", status |-> "idle"]
             a == Completed(r, "KErrNotSupported")
  <2>1. /\ schedulers' = [schedulers EXCEPT ![Place(r)] = t]
        /\ engine' = [engine EXCEPT ![r] = e]
        /\ answer' = [answer EXCEPT ![r] = a]
        /\ UNCHANGED <<timer, panicked>>
    BY <1>18 DEF NotAllowed, Ends, Goes
  <2>2. /\ t \in Schedulers /\ t.key = s.key /\ t.current = r /\ t.queue = s.queue
        /\ t.status = "KErrNotSupported" /\ t.step \in Steps
    BY <1>3 DEF Schedulers, Codes
  <2>3. e \in Engines /\ e.next = "EIdle" /\ e.status = "idle"
    BY DEF Engines
  <2>4. next = "ETransitionAllowed"
    BY <1>18 DEF NotAllowed
  <2>5. answer[r] # "KErrNone"
    BY <1>7, <2>4 DEF InTransitionActions
  <2>6. a = "KErrNotSupported"
    BY <1>6, <2>5 DEF Completed
  <2>7. a \in Codes
    BY <2>6 DEF Codes
  <2> HIDE DEF t, e, a
  <2>8. CurrentOK(t, e, a)
    BY <2>2, <2>3, <2>6 DEF CurrentOK, PolicyStep, InTransitionActions
  <2> QED
    BY <1>3, <2>1, <2>2, <2>3, <2>7, <2>8, GoesInv
<1>19. CASE TransitionComplete(r)
  <2> DEFINE t == [s EXCEPT !.status = "KErrNone"]
             e == [next |-> "ETransitionComplete", status |-> "idle"]
  <2>1. /\ schedulers' = [schedulers EXCEPT ![Place(r)] = t]
        /\ engine' = [engine EXCEPT ![r] = e]
        /\ UNCHANGED <<answer, timer, panicked>>
    BY <1>19 DEF TransitionComplete, Ends, Goes
  <2>2. /\ t \in Schedulers /\ t.key = s.key /\ t.current = r /\ t.queue = s.queue
        /\ t.status = "KErrNone" /\ t.step = s.step /\ t.policy = s.policy
    BY <1>3 DEF Schedulers, Codes
  <2>3. e \in Engines /\ e.next = "ETransitionComplete" /\ e.status = "idle"
    BY DEF Engines
  <2>4. next = "EWaitForHandleCleReturnValue"
    BY <1>19 DEF TransitionComplete
  <2>5. answer[r] = "KErrNone" /\ s.policy /\ s.step \in {"none", "gone"}
    BY <1>7, <2>4 DEF InTransitionActions
  <2> HIDE DEF t, e
  <2>6. CurrentOK(t, e, answer[r])
    BY <2>2, <2>3, <2>5 DEF CurrentOK, PolicyStep, InTransitionActions
  <2> QED
    BY <1>3, <1>4, <2>1, <2>2, <2>3, <2>6, GoesInv
<1> QED
  BY <1>9, <1>10, <1>11, <1>12, <1>13, <1>14, <1>15, <1>16, <1>17, <1>18, <1>19 DEF EngineRunL

LEMMA ReturnsInv ==
  ASSUME IInv, NEW r \in Requests, NEW code \in Codes, Returns(r, code), UNCHANGED keyOf
  PROVE  IInv'
<1> DEFINE s == schedulers[Place(r)]
           next == engine[r].next
           step == IF next = "EWaitForHandleCleReturnValue" THEN StepOf(r, "none") ELSE s.step
           t == [s EXCEPT !.step = step]
           e == [engine[r] EXCEPT !.status = code]
<1>1. /\ IsCurrent(r) /\ engine[r].status = "KRequestPending"
      /\ s \in Schedulers /\ s.current = r /\ s.status # "idle"
      /\ engine[r] \in Engines
      /\ answer[r] \in Codes \cup {"none", "waiting", "KErrCancel"}
      /\ CurrentOK(s, engine[r], answer[r])
  BY CurrentFacts DEF Returns
<1>2. /\ schedulers' = [schedulers EXCEPT ![Place(r)] = t]
      /\ engine' = [engine EXCEPT ![r] = e]
      /\ answer' = [answer EXCEPT ![r] = answer[r]]
      /\ UNCHANGED <<timer, panicked>>
  <2>1. answer = [answer EXCEPT ![r] = answer[r]]
    BY <1>1, Unchanged
  <2>2. /\ engine' = [engine EXCEPT ![r].status = code]
        /\ schedulers' = [schedulers EXCEPT ![Place(r)].step =
                            IF next = "EWaitForHandleCleReturnValue" THEN StepOf(r, "none") ELSE @]
        /\ UNCHANGED <<answer, timer, panicked>>
    BY DEF Returns
  <2> QED
    BY <2>1, <2>2
<1>3. /\ t \in Schedulers /\ t.key = s.key /\ t.current = r /\ t.queue = s.queue
      /\ t.status = s.status /\ t.policy = s.policy /\ t.cle = s.cle /\ t.step = step
      /\ next = "EWaitForHandleCleReturnValue" => step \in {"none", "gone"}
      /\ next # "EWaitForHandleCleReturnValue" => step = s.step
      /\ step \in Steps
  <2>1. StepOf(r, "none") \in {"none", "gone"}
    BY DEF StepOf
  <2>2. s.step \in Steps
    BY <1>1, SchedulerFields
  <2>3. /\ next = "EWaitForHandleCleReturnValue" => step \in {"none", "gone"}
        /\ next # "EWaitForHandleCleReturnValue" => step = s.step
    BY <2>1
  <2>4. step \in Steps
    BY <2>2, <2>3 DEF Steps
  <2> HIDE DEF step
  <2> QED
    BY <1>1, <2>3, <2>4 DEF Schedulers
<1>4. e \in Engines /\ e.next = next /\ e.status = code
  <2>1. next \in Calls /\ e = [next |-> next, status |-> code]
    BY <1>1, EngineFields
  <2> QED
    BY <2>1 DEF Engines
<1>5. code # "idle"
  BY DEF Codes, Errors
<1>6. s.step \in PolicyStep(engine[r]) /\ answer[r] \in {"waiting", "KErrNone"}
  BY <1>1 DEF CurrentOK
<1> HIDE DEF t, e, step
<1>7. CurrentOK(t, e, answer[r])
  <2>1. CASE next = "EWaitForHandleCleReturnValue"
    <3>1. step \in PolicyStep(e)
      BY <1>3, <1>4, <2>1 DEF PolicyStep
    <3> QED
      BY <1>1, <1>3, <1>4, <1>5, <1>6, <2>1, <3>1 DEF CurrentOK
  <2>2. CASE next # "EWaitForHandleCleReturnValue"
    <3>1. step \in PolicyStep(e)
      BY <1>1, <1>3, <1>4, <1>6, <2>2 DEF PolicyStep, MayLackObject
    <3> QED
      BY <1>1, <1>3, <1>4, <1>5, <1>6, <2>2, <3>1 DEF CurrentOK
  <2> QED
    BY <2>1, <2>2
<1> QED
  BY <1>1, <1>2, <1>3, <1>4, <1>7, GoesInv

-----------------------------------------------------------------------------
(***************************************************************************)
(* A request becomes the current one of its scheduler.                     *)
(***************************************************************************)
LEMMA SubmittedFacts ==
  ASSUME NEW s \in Schedulers, NEW err \in {"KErrNone"} \cup Errors
  PROVE  /\ Submitted(s, err) \in Engines
         /\ Submitted(s, err).status = IF err = "KErrNone" THEN "KErrNone" ELSE "idle"
         /\ err # "KErrNone" => Submitted(s, err).next = "EIdle"
         /\ err = "KErrNone" =>
              Submitted(s, err).next = IF s.cle THEN "ESetSwpPolicyDllHandleAndInitialize"
                                       ELSE "EUnConnected"
<1>1. CASE err = "KErrNone"
  <2>1. Submitted(s, err) =
          [next |-> IF s.cle THEN "ESetSwpPolicyDllHandleAndInitialize" ELSE "EUnConnected",
           status |-> "KErrNone"]
    BY <1>1 DEF Submitted
  <2> QED
    BY <1>1, <2>1 DEF Engines
<1>2. CASE err # "KErrNone"
  BY <1>2 DEF Submitted, Idle, Engines
<1> QED
  BY <1>1, <1>2

LEMMA ScheduledOK ==
  ASSUME NEW s \in Schedulers, NEW r \in Requests, NEW err \in {"KErrNone"} \cup Errors,
         NEW keys, NEW eng, NEW ans, keys[r] = s.key,
         \A n \in DOMAIN s.queue :
           /\ keys[s.queue[n]] = s.key
           /\ eng[s.queue[n]] = Idle /\ ans[s.queue[n]] = "waiting"
           /\ s.queue[n] # r
           /\ \A m \in DOMAIN s.queue : s.queue[m] = s.queue[n] => m = n,
         eng[r] = Submitted(s, err),
         ans[r] = "waiting" \/ (ans[r] = "KErrNoMemory" /\ err = "KErrNoMemory")
  PROVE  /\ Scheduled(s, r, err) \in Schedulers
         /\ SchedulerOK(Scheduled(s, r, err), keys, eng, ans)
<1> DEFINE t == Scheduled(s, r, err)
<1>1. /\ t \in Schedulers /\ t.key = s.key /\ t.current = r /\ t.queue = s.queue
      /\ t.status = (IF err = "KErrNone" THEN "KRequestPending" ELSE err)
      /\ t.policy = (err = "KErrNone") /\ t.cle = s.cle /\ t.step \in Steps
  BY DEF Scheduled, Schedulers, Codes
<1> HIDE DEF t
<1>2. r # NoRequest /\ t.status # "idle" /\ (t.status = "KRequestPending" <=> err = "KErrNone")
  BY <1>1, RequestsAssumption DEF Errors
<1>3. eng[r] # NoEngine /\ Idle # NoEngine
  BY SubmittedFacts DEF NoEngine, Idle, Engines, Calls
<1>4. CurrentOK(t, eng[r], ans[r])
  <2>1. ans[r] # "KErrNone"
    OBVIOUS
  <2>2. CASE err = "KErrNone"
    <3>1. /\ eng[r].status = "KErrNone"
          /\ eng[r].next = IF t.cle THEN "ESetSwpPolicyDllHandleAndInitialize" ELSE "EUnConnected"
      BY <1>1, <2>2, SubmittedFacts
    <3>2. t.step \in PolicyStep(eng[r])
      BY <1>1, <3>1 DEF PolicyStep
    <3>3. eng[r].next \notin InTransitionActions
      BY <3>1 DEF InTransitionActions
    <3> QED
      BY <1>1, <1>2, <2>1, <2>2, <3>1, <3>2, <3>3 DEF CurrentOK
  <2>3. CASE err # "KErrNone"
    BY <1>1, <1>2, <2>1, <2>3, SubmittedFacts DEF CurrentOK, PolicyStep, InTransitionActions
  <2> QED
    BY <2>2, <2>3
<1>5. \A x \in Requests : Holds(t, x) => keys[x] = t.key /\ eng[x] # NoEngine
  BY <1>1, <1>3 DEF Holds
<1>6. SchedulerOK(t, keys, eng, ans)
  BY <1>1, <1>2, <1>4, <1>5 DEF SchedulerOK, IsActive
<1> QED
  BY <1>1, <1>6 DEF t

\* What holds of a queue: its requests are waiting, each is in it once.
QueueOK(s, keys, eng, ans) ==
  \A n \in DOMAIN s.queue :
    /\ s.queue[n] \in Requests /\ keys[s.queue[n]] = s.key
    /\ eng[s.queue[n]] = Idle /\ ans[s.queue[n]] = "waiting"
    /\ \A m \in DOMAIN s.queue : s.queue[m] = s.queue[n] => m = n

LEMMA QueueFacts ==
  ASSUME NEW s \in Schedulers, NEW keys, NEW eng, NEW ans, SchedulerOK(s, keys, eng, ans)
  PROVE  /\ QueueOK(s, keys, eng, ans)
         /\ \A n \in DOMAIN s.queue : s.queue[n] # s.current
<1>1. \A n \in DOMAIN s.queue : s.queue[n] \in Requests
  <2>1. s.queue \in Seq(Requests)
    BY SchedulerFields
  <2> QED
    BY <2>1, LenProperties, ElementOfSeq
<1>2. \A n \in DOMAIN s.queue : keys[s.queue[n]] = s.key
  BY <1>1, HeldFacts DEF Holds
<1> QED
  BY <1>1, <1>2 DEF SchedulerOK, QueueOK

\* What the scheduler holds when the next one has been taken from its queue.
LEMMA QueueHeld ==
  ASSUME NEW s \in Schedulers, NEW err, NEW x \in Requests
  PROVE  Holds(TakeNext(s, err), x) <=> \E n \in DOMAIN s.queue : s.queue[n] = x
<1> DEFINE t == TakeNext(s, err)
           q == s.queue
<1>1. q \in Seq(Requests) /\ DOMAIN q = 1..Len(q) /\ Len(q) \in Nat
  BY SchedulerFields, LenProperties
<1>2. CASE q = <<>>
  <2>1. t.current = NoRequest /\ t.queue = <<>>
    BY <1>2 DEF TakeNext, Schedulers
  <2> QED
    BY <1>2, <2>1, RequestsAssumption DEF Holds
<1>3. CASE q # <<>>
  <2>1. /\ Len(q) > 0 /\ Head(q) = q[1] /\ Tail(q) \in Seq(Requests)
        /\ Len(Tail(q)) = Len(q) - 1 /\ DOMAIN Tail(q) = 1..(Len(q) - 1)
        /\ \A n \in 1..(Len(q) - 1) : Tail(q)[n] = q[n + 1]
    <3>1. Len(q) > 0 /\ Head(q) = q[1]
      BY <1>1, <1>3, EmptySeq
    <3>2. Tail(q) \in Seq(Requests) /\ Len(Tail(q)) = Len(q) - 1
          /\ \A n \in 1..Len(Tail(q)) : Tail(q)[n] = q[n + 1]
      BY <1>1, <1>3, HeadTailProperties
    <3> QED
      BY <3>1, <3>2, LenProperties
  <2>2. t.current = Head(q) /\ t.queue = Tail(q)
    BY <1>3 DEF TakeNext, Scheduled, Schedulers
  <2>3. Holds(t, x) <=> x = q[1] \/ \E n \in 1..(Len(q) - 1) : q[n + 1] = x
    BY <2>1, <2>2 DEF Holds
  <2>4. \A n \in 1..(Len(q) - 1) : n + 1 \in 1..Len(q)
    BY <1>1
  <2>5. \A n \in 1..Len(q) : n # 1 => n - 1 \in 1..(Len(q) - 1) /\ (n - 1) + 1 = n
    BY <1>1
  <2>6. 1 \in 1..Len(q)
    BY <1>1, <2>1
  <2> QED
    BY <1>1, <2>3, <2>4, <2>5, <2>6
<1> QED
  BY <1>2, <1>3

\* The one that has ended, or was withdrawn, makes room for the first of the queue.
\* What becomes of the engines and the answers of the requests t holds.
AreTaken(s, t, err, eng, ans, eng2, ans2) ==
  \A r \in Requests : Holds(t, r) =>
    /\ eng2[r] = IF t.current = r THEN Submitted(s, err) ELSE eng[r]
    /\ ans2[r] = IF t.current = r /\ err = "KErrNoMemory" THEN "KErrNoMemory" ELSE ans[r]

LEMMA TakeNextOK ==
  ASSUME NEW s \in Schedulers, NEW err \in {"KErrNone"} \cup Errors,
         NEW keys, NEW eng, NEW ans, QueueOK(s, keys, eng, ans),
         NEW t, t = TakeNext(s, err), NEW eng2, NEW ans2,
         AreTaken(s, t, err, eng, ans, eng2, ans2)
  PROVE  /\ t \in Schedulers /\ t.key = s.key
         /\ SchedulerOK(t, keys, eng2, ans2)
         /\ \A r \in Requests : Holds(t, r) <=> \E n \in DOMAIN s.queue : s.queue[n] = r
<1>0. \A r \in Requests : Holds(t, r) =>
        /\ eng2[r] = IF t.current = r THEN Submitted(s, err) ELSE eng[r]
        /\ ans2[r] = IF t.current = r /\ err = "KErrNoMemory" THEN "KErrNoMemory" ELSE ans[r]
  BY DEF AreTaken
<1>1. s.queue \in Seq(Requests) /\ DOMAIN s.queue = 1..Len(s.queue) /\ Len(s.queue) \in Nat
  BY SchedulerFields, LenProperties
<1>2. CASE s.queue = <<>>
  <2>1. /\ t \in Schedulers /\ t.key = s.key /\ t.current = NoRequest /\ t.queue = <<>>
        /\ t.status = "idle"
    BY <1>2 DEF TakeNext, Schedulers
  <2>2. \A r \in Requests : ~Holds(t, r) /\ ~ \E n \in DOMAIN s.queue : s.queue[n] = r
    BY <1>2, <2>1, RequestsAssumption DEF Holds
  <2>3. SchedulerOK(t, keys, eng2, ans2)
    BY <2>1, <2>2 DEF SchedulerOK, IsActive
  <2> QED
    BY <2>1, <2>2, <2>3
<1>3. CASE s.queue # <<>>
  <2> DEFINE r == Head(s.queue)
             rest == [s EXCEPT !.queue = Tail(@)]
  <2>1. /\ Len(s.queue) > 0 /\ r = s.queue[1] /\ r \in Requests
        /\ Tail(s.queue) \in Seq(Requests) /\ Len(Tail(s.queue)) = Len(s.queue) - 1
        /\ DOMAIN Tail(s.queue) = 1..(Len(s.queue) - 1)
        /\ \A n \in 1..(Len(s.queue) - 1) : Tail(s.queue)[n] = s.queue[n + 1]
    <3>1. Len(s.queue) > 0 /\ r = s.queue[1] /\ r \in Requests
      BY <1>1, <1>3, EmptySeq
    <3>2. Tail(s.queue) \in Seq(Requests) /\ Len(Tail(s.queue)) = Len(s.queue) - 1
          /\ \A n \in 1..Len(Tail(s.queue)) : Tail(s.queue)[n] = s.queue[n + 1]
      BY <1>1, <1>3, HeadTailProperties
    <3> QED
      BY <3>1, <3>2, LenProperties
  <2>2. /\ rest \in Schedulers /\ rest.key = s.key /\ rest.queue = Tail(s.queue)
        /\ rest.cle = s.cle
    BY <2>1 DEF Schedulers
  <2>3. t = Scheduled(rest, r, err) /\ Submitted(rest, err) = Submitted(s, err)
    BY <1>3, <2>2 DEF TakeNext, Submitted
  <2> HIDE DEF r, rest
  <2>4. t.current = r /\ t.queue = rest.queue /\ t.key = s.key
    BY <2>2, <2>3 DEF Scheduled, Schedulers
  <2>5. \A n \in DOMAIN rest.queue :
          /\ n + 1 \in DOMAIN s.queue /\ rest.queue[n] = s.queue[n + 1]
          /\ rest.queue[n] \in Requests /\ rest.queue[n] # r /\ Holds(t, rest.queue[n])
    <3> SUFFICES ASSUME NEW n \in DOMAIN rest.queue
                 PROVE  /\ n + 1 \in DOMAIN s.queue /\ rest.queue[n] = s.queue[n + 1]
                        /\ rest.queue[n] \in Requests /\ rest.queue[n] # r
                        /\ Holds(t, rest.queue[n])
      OBVIOUS
    <3>1. n \in 1..(Len(s.queue) - 1)
      BY <2>1, <2>2
    <3>2. n + 1 \in DOMAIN s.queue /\ rest.queue[n] = s.queue[n + 1] /\ 1 \in DOMAIN s.queue
          /\ n + 1 # 1
      BY <1>1, <2>1, <2>2, <3>1
    <3>3. s.queue[n + 1] \in Requests /\ s.queue[n + 1] # s.queue[1]
      BY <3>2 DEF QueueOK
    <3>4. Holds(t, rest.queue[n])
      BY <2>4 DEF Holds
    <3> QED
      BY <2>1, <3>2, <3>3, <3>4
  <2>6. \A x \in Requests : Holds(t, x) <=> \E n \in DOMAIN s.queue : s.queue[n] = x
    <3>1. ASSUME NEW n \in DOMAIN s.queue PROVE Holds(t, s.queue[n])
      <4>1. CASE n = 1
        BY <2>1, <2>4, <4>1 DEF Holds
      <4>2. CASE n # 1
        <5>1. n - 1 \in 1..(Len(s.queue) - 1) /\ (n - 1) + 1 = n
          BY <1>1, <4>2
        <5>2. rest.queue[n - 1] = s.queue[n] /\ n - 1 \in DOMAIN rest.queue
          BY <2>1, <2>2, <5>1
        <5> QED
          BY <2>4, <5>2 DEF Holds
      <4> QED
        BY <4>1, <4>2
    <3>2. ASSUME NEW x \in Requests, Holds(t, x)
          PROVE  \E n \in DOMAIN s.queue : s.queue[n] = x
      <4>1. x = r \/ \E n \in DOMAIN rest.queue : rest.queue[n] = x
        BY <2>4, <3>2 DEF Holds
      <4>2. 1 \in DOMAIN s.queue /\ r = s.queue[1]
        BY <1>1, <2>1
      <4> QED
        BY <2>5, <4>1, <4>2
    <3> QED
      BY <3>1, <3>2
  <2>7. /\ keys[r] = s.key /\ ans[r] = "waiting"
        /\ \A n \in DOMAIN rest.queue :
             /\ keys[rest.queue[n]] = s.key
             /\ eng[rest.queue[n]] = Idle /\ ans[rest.queue[n]] = "waiting"
             /\ \A m \in DOMAIN rest.queue : rest.queue[m] = rest.queue[n] => m = n
    <3>1. 1 \in DOMAIN s.queue
      BY <1>1, <2>1
    <3>2. ASSUME NEW n \in DOMAIN rest.queue, NEW m \in DOMAIN rest.queue,
                 rest.queue[m] = rest.queue[n]
          PROVE  m = n
      <4>1. m + 1 = n + 1
        BY <2>5, <3>2 DEF QueueOK
      <4>2. m \in Int /\ n \in Int
        BY <2>1, <2>2
      <4> QED
        BY <4>1, <4>2
    <3> QED
      BY <2>1, <2>5, <3>1, <3>2 DEF QueueOK
  <2>8. /\ eng2[r] = Submitted(rest, err)
        /\ ans2[r] = "waiting" \/ (ans2[r] = "KErrNoMemory" /\ err = "KErrNoMemory")
    <3>1. Holds(t, r)
      BY <2>4 DEF Holds
    <3> QED
      BY <1>0, <2>1, <2>3, <2>4, <2>7, <3>1
  <2>9. \A n \in DOMAIN rest.queue :
          eng2[rest.queue[n]] = Idle /\ ans2[rest.queue[n]] = "waiting"
    BY <1>0, <2>4, <2>5, <2>7
  <2>10. t \in Schedulers /\ SchedulerOK(t, keys, eng2, ans2)
    <3>1. /\ keys[r] = rest.key
          /\ \A n \in DOMAIN rest.queue :
               /\ keys[rest.queue[n]] = rest.key
               /\ eng2[rest.queue[n]] = Idle /\ ans2[rest.queue[n]] = "waiting"
               /\ rest.queue[n] # r
               /\ \A m \in DOMAIN rest.queue : rest.queue[m] = rest.queue[n] => m = n
      BY <2>2, <2>5, <2>7, <2>9
    <3>2. rest \in Schedulers /\ r \in Requests
      BY <2>1, <2>2
    <3>3. Scheduled(rest, r, err) \in Schedulers /\ SchedulerOK(Scheduled(rest, r, err), keys, eng2, ans2)
      BY <2>8, <3>1, <3>2, ScheduledOK
    <3> QED
      BY <2>3, <3>3
  <2> QED
    BY <2>4, <2>6, <2>10
<1> QED
  BY <1>2, <1>3

-----------------------------------------------------------------------------
(***************************************************************************)
(* The steps of the schedulers.                                            *)
(***************************************************************************)
LEMMA InvFacts ==
  ASSUME IInv
  PROVE  /\ ArrayOK(schedulers, keyOf, engine, answer)
         /\ schedulers \in Seq(Schedulers) /\ InOrder(schedulers)
         /\ \A i \in DOMAIN schedulers : /\ schedulers[i] \in Schedulers
                                         /\ SchedulerOK(schedulers[i], keyOf, engine, answer)
         /\ engine \in [Requests -> Engines \cup {NoEngine}]
         /\ answer \in [Requests -> Codes \cup {"none", "waiting", "KErrCancel"}]
         /\ timer \in BOOLEAN /\ panicked \in BOOLEAN
         /\ keyOf \in Changes /\ \A r \in Requests : keyOf[r] \in Keys
<1>1. schedulers \in Seq(Schedulers)
  BY DEF IInv, TypeOK
<1>2. \A i \in DOMAIN schedulers : schedulers[i] \in Schedulers
  BY <1>1, ArrayFields
<1>3. keyOf \in Changes /\ Changes \subseteq [Requests -> Keys]
  BY RequestsAssumption DEF IInv, TypeOK
<1> QED
  BY <1>1, <1>2, <1>3 DEF IInv, TypeOK, ArrayOK

LEMMA SubmitLeavesInv ==
  ASSUME IInv, NEW r \in Requests, SubmitLeaves(r), UNCHANGED keyOf
  PROVE  IInv'
<1> DEFINE ans2 == [answer EXCEPT ![r] = "KErrNoMemory"]
<1>1. engine[r] = NoEngine
  BY DEF SubmitLeaves, Requested
<1>2. \A x \in Requests : x # r => ans2[x] = answer[x]
  BY InvFacts
<1>3. ans2 \in [Requests -> Codes \cup {"none", "waiting", "KErrCancel"}]
  BY InvFacts DEF Codes, Errors
<1> HIDE DEF ans2
<1>4. ASSUME NEW i \in DOMAIN schedulers
      PROVE  SchedulerOK(schedulers[i], keyOf, engine, ans2)
  <2>1. schedulers[i] \in Schedulers /\ SchedulerOK(schedulers[i], keyOf, engine, answer)
    BY InvFacts
  <2>2. \A x \in Requests : Holds(schedulers[i], x) => ans2[x] = answer[x]
    BY <1>1, <1>2, <2>1, HeldFacts
  <2> QED
    BY <2>1, <2>2, SchedulerFrame
<1>5. ArrayOK(schedulers, keyOf, engine, ans2)
  BY <1>4, InvFacts DEF ArrayOK
<1>6. answer' = ans2 /\ UNCHANGED <<keyOf, schedulers, engine, timer, panicked>>
  BY DEF SubmitLeaves, ans2
<1>7. TypeOK'
  BY <1>3, <1>6, InvFacts DEF TypeOK
<1> QED
  BY <1>5, <1>6, <1>7 DEF IInv

LEMMA SubmitBehindInv ==
  ASSUME IInv, NEW r \in Requests, SubmitBehind(r), UNCHANGED keyOf
  PROVE  IInv'
<1> DEFINE i == Position(keyOf[r])
           s == schedulers[i]
           t == Queued(s, r)
           eng2 == [engine EXCEPT ![r] = Idle]
           ans2 == [answer EXCEPT ![r] = "waiting"]
<1>1. engine[r] = NoEngine /\ i \in DOMAIN schedulers /\ s.key = keyOf[r] /\ IsActive(s)
  BY DEF SubmitBehind, Requested, FindScheduler
<1>2. /\ schedulers' = [schedulers EXCEPT ![i] = t]
      /\ engine' = eng2 /\ answer' = ans2 /\ UNCHANGED <<keyOf, timer, panicked>>
  BY DEF SubmitBehind
<1> HIDE DEF i
<1>3. s \in Schedulers /\ SchedulerOK(s, keyOf, engine, answer)
  BY <1>1, InvFacts
<1>4. \A x \in Requests : /\ eng2[x] = IF x = r THEN Idle ELSE engine[x]
                          /\ ans2[x] = IF x = r THEN "waiting" ELSE answer[x]
  BY InvFacts
<1>5. Idle \in Engines /\ Idle # NoEngine
  BY DEF Idle, NoEngine, Engines
<1>6. /\ eng2 \in [Requests -> Engines \cup {NoEngine}]
      /\ ans2 \in [Requests -> Codes \cup {"none", "waiting", "KErrCancel"}]
  BY <1>5, InvFacts
<1> HIDE DEF s, eng2, ans2
<1>7. s.queue \in Seq(Requests) /\ DOMAIN s.queue = 1..Len(s.queue) /\ Len(s.queue) \in Nat
  BY <1>3, SchedulerFields, LenProperties
<1>8. /\ t \in Schedulers /\ t.key = s.key /\ t.current = s.current /\ t.status = s.status
      /\ t.policy = s.policy /\ t.cle = s.cle /\ t.step = s.step
      /\ t.queue = Append(s.queue, r) /\ Len(t.queue) = Len(s.queue) + 1
      /\ DOMAIN t.queue = 1..(Len(s.queue) + 1)
      /\ \A n \in 1..Len(s.queue) : t.queue[n] = s.queue[n]
      /\ t.queue[Len(s.queue) + 1] = r
  <2>1. /\ t.key = s.key /\ t.current = s.current /\ t.status = s.status
        /\ t.policy = s.policy /\ t.cle = s.cle /\ t.step = s.step
        /\ t.queue = Append(s.queue, r)
    BY <1>3 DEF Queued, Schedulers
  <2>2. Append(s.queue, r) \in Seq(Requests)
    BY <1>7
  <2>3. t \in Schedulers
    BY <1>3, <2>2 DEF Queued, Schedulers
  <2>4. /\ Len(Append(s.queue, r)) = Len(s.queue) + 1
        /\ \A n \in 1..Len(s.queue) : Append(s.queue, r)[n] = s.queue[n]
        /\ Append(s.queue, r)[Len(s.queue) + 1] = r
    BY <1>7
  <2> QED
    BY <2>1, <2>2, <2>3, <2>4, LenProperties
<1> HIDE DEF t
<1>9. /\ QueueOK(s, keyOf, engine, answer) /\ \A n \in DOMAIN s.queue : s.queue[n] # s.current
  BY <1>3, QueueFacts
<1>10. s.current # r /\ \A n \in DOMAIN s.queue : s.queue[n] # r
  BY <1>1, <1>3, HeldFacts DEF Holds
<1>11. \A x : Holds(t, x) <=> Holds(s, x) \/ x = r
  <2>1. 1..(Len(s.queue) + 1) = 1..Len(s.queue) \cup {Len(s.queue) + 1}
    BY <1>7
  <2> QED
    BY <1>7, <1>8, <2>1 DEF Holds
<1>12. SchedulerOK(t, keyOf, eng2, ans2)
  <2>1. IsActive(t) /\ t.current # NoRequest /\ t.current \in Requests
    BY <1>1, <1>3, <1>8, SchedulerFields DEF IsActive, SchedulerOK
  <2>2. CurrentOK(t, eng2[t.current], ans2[t.current])
    <3>1. CurrentOK(s, engine[s.current], answer[s.current])
      BY <1>3, <1>8, <2>1 DEF SchedulerOK
    <3>2. eng2[t.current] = engine[s.current] /\ ans2[t.current] = answer[s.current]
      BY <1>4, <1>8, <1>10, <2>1
    <3> QED
      BY <1>8, <3>1, <3>2 DEF CurrentOK
  <2>3. ASSUME NEW n \in DOMAIN t.queue
        PROVE  /\ eng2[t.queue[n]] = Idle /\ ans2[t.queue[n]] = "waiting"
               /\ t.queue[n] # t.current
               /\ \A m \in DOMAIN t.queue : t.queue[m] = t.queue[n] => m = n
    <3>1. CASE n \in 1..Len(s.queue)
      <4>1. /\ s.queue[n] \in Requests /\ s.queue[n] # r /\ s.queue[n] # s.current
            /\ engine[s.queue[n]] = Idle /\ answer[s.queue[n]] = "waiting"
            /\ \A m \in 1..Len(s.queue) : s.queue[m] = s.queue[n] => m = n
        BY <1>7, <1>9, <1>10, <3>1 DEF QueueOK
      <4>2. \A m \in DOMAIN t.queue : m \in 1..Len(s.queue) \/ t.queue[m] = r
        BY <1>7, <1>8
      <4> QED
        BY <1>4, <1>8, <3>1, <4>1, <4>2
    <3>2. CASE n = Len(s.queue) + 1
      <4>1. \A m \in DOMAIN t.queue : m \in 1..Len(s.queue) \/ m = n
        BY <1>7, <1>8, <3>2
      <4>2. \A m \in 1..Len(s.queue) : t.queue[m] # r
        BY <1>7, <1>8, <1>10
      <4> QED
        BY <1>4, <1>8, <1>10, <3>2, <4>1, <4>2
    <3> QED
      BY <1>7, <1>8, <3>1, <3>2
  <2>4. \A x \in Requests : Holds(t, x) => keyOf[x] = t.key /\ eng2[x] # NoEngine
    BY <1>1, <1>3, <1>4, <1>5, <1>8, <1>11, HeldFacts
  <2> QED
    BY <2>1, <2>2, <2>3, <2>4 DEF SchedulerOK
<1>13. \A x \in Requests : keyOf[x] # t.key => eng2[x] = engine[x] /\ ans2[x] = answer[x]
  BY <1>1, <1>4, <1>8
<1>14. \A x \in Requests : keyOf[x] = t.key /\ eng2[x] # NoEngine => Holds(t, x)
  BY <1>1, <1>4, <1>8, <1>11, InvFacts, OneHolds DEF s
<1>15. ArrayOK([schedulers EXCEPT ![i] = t], keyOf, eng2, ans2)
  <2>1. t.key = schedulers[i].key
    BY <1>8 DEF s
  <2>2. ArrayOK(schedulers, keyOf, engine, answer) /\ t \in Schedulers /\ i \in DOMAIN schedulers
    BY <1>1, <1>8, InvFacts
  <2> QED
    BY <1>12, <1>13, <1>14, <2>1, <2>2, OneChanges
<1>16. TypeOK'
  BY <1>2, <1>6, <1>15, InvFacts DEF TypeOK, ArrayOK
<1> QED
  BY <1>2, <1>15, <1>16 DEF IInv

\* The array has a scheduler for the key, which may be a new one.
LEMMA WithSchedulerOK ==
  ASSUME IInv, NEW key \in Keys
  PROVE  /\ ArrayOK(WithScheduler(key), keyOf, engine, answer)
         /\ Position(key) \in DOMAIN WithScheduler(key)
         /\ WithScheduler(key)[Position(key)].key = key
         /\ \A j \in DOMAIN WithScheduler(key) :
              \/ WithScheduler(key)[j].current = NoRequest
              \/ \E i \in DOMAIN schedulers : WithScheduler(key)[j] = schedulers[i]
         /\ \A i \in DOMAIN schedulers :
              \E j \in DOMAIN WithScheduler(key) : WithScheduler(key)[j] = schedulers[i]
<1>1. CASE FindScheduler(key)
  BY <1>1, InvFacts DEF WithScheduler, FindScheduler
<1>2. CASE ~FindScheduler(key)
  <2> DEFINE s == NewScheduler(key)
             array == InsertInOrder(s)
  <2>1. /\ s \in Schedulers /\ s.key = key /\ s.current = NoRequest /\ s.queue = <<>>
        /\ s.status = "idle"
    <3>1. <<>> \in Seq(Requests)
      BY EmptySeq
    <3> QED
      BY <3>1 DEF NewScheduler, Schedulers, Steps
  <2> HIDE DEF s
  <2>2. \A i \in DOMAIN schedulers : schedulers[i].key # s.key
    BY <1>2, <2>1, InvFacts, FindSchedulerFinds
  <2>3. /\ array \in Seq(Schedulers) /\ InOrder(array)
        /\ Position(s.key) \in DOMAIN array /\ array[Position(s.key)] = s
        /\ \A j \in DOMAIN array : array[j] = s \/ \E i \in DOMAIN schedulers : array[j] = schedulers[i]
        /\ \A i \in DOMAIN schedulers : \E j \in DOMAIN array : array[j] = schedulers[i]
    BY <2>1, <2>2, InvFacts, InsertFacts
  <2> HIDE DEF array
  <2>4. SchedulerOK(s, keyOf, engine, answer)
    <3>1. \A r \in Requests : ~Holds(s, r)
      BY <2>1, RequestsAssumption DEF Holds
    <3> QED
      BY <2>1, <3>1 DEF SchedulerOK, IsActive
  <2>5. \A j \in DOMAIN array : SchedulerOK(array[j], keyOf, engine, answer)
    BY <2>3, <2>4, InvFacts
  <2>6. \A r \in Requests : engine[r] # NoEngine => \E j \in DOMAIN array : Holds(array[j], r)
    <3>1. \A r \in Requests : engine[r] # NoEngine => \E i \in DOMAIN schedulers : Holds(schedulers[i], r)
      BY DEF IInv, ArrayOK
    <3> QED
      BY <2>3, <3>1
  <2>7. ArrayOK(array, keyOf, engine, answer)
    BY <2>3, <2>5, <2>6 DEF ArrayOK
  <2> QED
    BY <1>2, <2>1, <2>3, <2>7 DEF WithScheduler, s, array
<1> QED
  BY <1>1, <1>2

LEMMA SubmitFirstInv ==
  ASSUME IInv, NEW r \in Requests, SubmitFirst(r), UNCHANGED keyOf
  PROVE  IInv'
<1> DEFINE array == WithScheduler(keyOf[r])
           i == Position(keyOf[r])
           s == array[i]
           ans2 == [answer EXCEPT ![r] = "waiting"]
<1>1. engine[r] = NoEngine /\ ~IsActive(s)
  BY DEF SubmitFirst, Requested
<1>2. PICK err \in ConnectOutcomes(s) :
        /\ schedulers' = [array EXCEPT ![i] = Scheduled(s, r, err)]
        /\ engine' = [engine EXCEPT ![r] = Submitted(s, err)]
        /\ answer' = ans2 /\ Panics(err) /\ UNCHANGED <<keyOf, timer>>
  BY DEF SubmitFirst
<1> DEFINE t == Scheduled(s, r, err)
           eng2 == [engine EXCEPT ![r] = Submitted(s, err)]
<1>3. ArrayOK(array, keyOf, engine, answer) /\ i \in DOMAIN array /\ s.key = keyOf[r]
  BY InvFacts, WithSchedulerOK
<1> HIDE DEF array, i
<1>4. s \in Schedulers /\ SchedulerOK(s, keyOf, engine, answer)
  BY <1>3, ArrayFields DEF ArrayOK
<1> HIDE DEF s
<1>5. err \in {"KErrNone"} \cup Errors
  BY DEF ConnectOutcomes
<1>6. Submitted(s, err) \in Engines
  BY <1>4, <1>5, SubmittedFacts
<1>7. \A x \in Requests : /\ eng2[x] = IF x = r THEN Submitted(s, err) ELSE engine[x]
                          /\ ans2[x] = IF x = r THEN "waiting" ELSE answer[x]
  BY InvFacts
<1>8. /\ eng2 \in [Requests -> Engines \cup {NoEngine}]
      /\ ans2 \in [Requests -> Codes \cup {"none", "waiting", "KErrCancel"}]
  BY <1>6, InvFacts
<1> HIDE DEF eng2, ans2
<1>9. s.queue = <<>> /\ s.current = NoRequest /\ \A x \in Requests : ~Holds(s, x)
  BY <1>1, <1>4, RequestsAssumption DEF SchedulerOK, Holds
<1>10. t \in Schedulers /\ SchedulerOK(t, keyOf, eng2, ans2)
  <2>1. DOMAIN s.queue = {}
    BY <1>9
  <2> HIDE DEF t
  <2>2. eng2[r] = Submitted(s, err) /\ ans2[r] = "waiting"
    BY <1>7
  <2> QED
    BY <1>3, <1>4, <1>5, <2>1, <2>2, ScheduledOK DEF t
<1>11. t.key = s.key /\ t.current = r
  BY <1>4 DEF Scheduled, Schedulers
<1> HIDE DEF t
<1>12. \A x \in Requests : keyOf[x] # t.key => eng2[x] = engine[x] /\ ans2[x] = answer[x]
  BY <1>3, <1>7, <1>11
<1>13. \A x \in Requests : keyOf[x] = t.key /\ eng2[x] # NoEngine => Holds(t, x)
  <2>1. ASSUME NEW x \in Requests, keyOf[x] = t.key, eng2[x] # NoEngine, x # r PROVE FALSE
    <3>1. engine[x] # NoEngine /\ array[i].key = keyOf[x]
      BY <1>7, <1>11, <2>1 DEF s
    <3>2. Holds(s, x)
      BY <1>3, <3>1, OneHolds DEF s
    <3> QED
      BY <1>9, <3>2
  <2> QED
    BY <1>11, <2>1 DEF Holds
<1>14. ArrayOK([array EXCEPT ![i] = t], keyOf, eng2, ans2)
  <2>1. t.key = array[i].key
    BY <1>11 DEF s
  <2> QED
    BY <1>3, <1>10, <1>12, <1>13, <2>1, OneChanges
<1>15. /\ schedulers' = [array EXCEPT ![i] = t] /\ engine' = eng2 /\ answer' = ans2
       /\ panicked' \in BOOLEAN /\ UNCHANGED <<keyOf, timer>>
  BY <1>2 DEF t, eng2, Panics
<1>16. TypeOK'
  BY <1>8, <1>14, <1>15, InvFacts DEF TypeOK, ArrayOK
<1> QED
  BY <1>14, <1>15, <1>16 DEF IInv

LEMMA CleanUpInv ==
  ASSUME IInv, CleanUp, UNCHANGED keyOf
  PROVE  IInv'
<1> DEFINE busy == {s \in Elements(schedulers) : ~IsIdle(s)}
           array == Only(schedulers, busy)
<1>1. PICK h : Keeps(schedulers, busy, Len(schedulers), array, h)
  BY InvFacts, OnlyFacts
<1>2. /\ array \in Seq(Schedulers) /\ DOMAIN array = 1..Len(array) /\ Len(array) \in Nat
      /\ DOMAIN schedulers = 1..Len(schedulers)
      /\ \A m \in DOMAIN array :
           array[m] \in busy /\ \E n \in DOMAIN schedulers : schedulers[n] = array[m]
      /\ \A n \in DOMAIN schedulers :
           schedulers[n] \in busy => \E m \in DOMAIN array : array[m] = schedulers[n]
  <2> HIDE DEF busy
  <2>1. schedulers \in Seq(Schedulers)
    BY InvFacts
  <2>2. array \in Seq(Schedulers)
    BY <2>1, OnlyFacts
  <2>3. DOMAIN schedulers = 1..Len(schedulers)
    BY <2>1, LenProperties
  <2>4. DOMAIN array = 1..Len(array) /\ Len(array) \in Nat
    BY <2>2, LenProperties
  <2>5. /\ \A m \in 1..Len(array) :
             array[m] \in busy /\ \E n \in 1..Len(schedulers) : schedulers[n] = array[m]
        /\ \A n \in 1..Len(schedulers) :
             schedulers[n] \in busy => \E m \in 1..Len(array) : array[m] = schedulers[n]
    BY <2>1, OnlyElements
  <2> QED
    BY <2>2, <2>3, <2>4, <2>5
<1>3. \A i \in DOMAIN schedulers : schedulers[i] \in busy <=> ~IsIdle(schedulers[i])
  BY DEF Elements
<1>4. schedulers' = array /\ timer' = FALSE /\ UNCHANGED <<keyOf, engine, answer, panicked>>
  BY DEF CleanUp
<1> HIDE DEF busy, array
<1>5. InOrder(array)
  <2> SUFFICES ASSUME NEW i \in DOMAIN array, NEW j \in DOMAIN array, i < j
               PROVE  Difference(array[i].key, array[j].key) < 0
    BY DEF InOrder
  <2>1. /\ h[i] \in DOMAIN schedulers /\ h[j] \in DOMAIN schedulers /\ h[i] < h[j]
        /\ array[i] = schedulers[h[i]] /\ array[j] = schedulers[h[j]]
    BY <1>1, <1>2 DEF Keeps
  <2>2. InOrder(schedulers)
    BY InvFacts
  <2> QED
    BY <2>1, <2>2 DEF InOrder
<1>6. \A j \in DOMAIN array : SchedulerOK(array[j], keyOf, engine, answer)
  BY <1>2, InvFacts
<1>7. ASSUME NEW r \in Requests, engine[r] # NoEngine
      PROVE  \E j \in DOMAIN array : Holds(array[j], r)
  <2>1. PICK i \in DOMAIN schedulers : Holds(schedulers[i], r)
    BY <1>7 DEF IInv, ArrayOK
  <2>2. ~IsIdle(schedulers[i])
    BY <2>1, RequestsAssumption DEF IsIdle, Holds
  <2> QED
    BY <1>2, <1>3, <2>1, <2>2
<1>8. ArrayOK(array, keyOf, engine, answer)
  BY <1>2, <1>5, <1>6, <1>7 DEF ArrayOK
<1>9. TypeOK'
  BY <1>2, <1>4, InvFacts DEF TypeOK
<1> QED
  BY <1>4, <1>8, <1>9 DEF IInv

LEMMA SchedulerRunLInv ==
  ASSUME IInv, NEW r \in Requests, SchedulerRunL(r), UNCHANGED keyOf
  PROVE  IInv'
<1> DEFINE i == Place(r)
           s == schedulers[i]
<1>1. /\ i \in DOMAIN schedulers /\ s \in Schedulers /\ s.current = r
      /\ SchedulerOK(s, keyOf, engine, answer)
  BY CurrentFacts, InvFacts DEF SchedulerRunL
<1>2. PICK err \in NextOutcomes(s) :
        /\ schedulers' = [schedulers EXCEPT ![i] = TakeNext(s, err)]
        /\ engine' = [x \in Requests |->
             IF Holds(s, x) THEN EngineAfter(s, TakeNext(s, err), x, err) ELSE engine[x]]
        /\ answer' = [x \in Requests |-> AnswerAfter(s, TakeNext(s, err), x, err)]
        /\ Panics(err)
  BY DEF SchedulerRunL
<1> HIDE DEF i
<1> DEFINE t == TakeNext(s, err)
           eng2 == [x \in Requests |-> IF Holds(s, x) THEN EngineAfter(s, t, x, err) ELSE engine[x]]
           ans2 == [x \in Requests |-> AnswerAfter(s, t, x, err)]
<1>3. err \in {"KErrNone"} \cup Errors
  BY DEF NextOutcomes, ConnectOutcomes
<1> HIDE DEF s, t
<1>4. \A x \in Requests :
        /\ eng2[x] = IF Holds(s, x)
                     THEN IF ~Holds(t, x) THEN NoEngine
                          ELSE IF Begins(s, t, x) THEN Submitted(s, err) ELSE engine[x]
                     ELSE engine[x]
        /\ ans2[x] = IF Begins(s, t, x) /\ err = "KErrNoMemory" THEN Failed(x) ELSE answer[x]
  BY DEF EngineAfter, AnswerAfter
<1>5. /\ eng2 \in [Requests -> Engines \cup {NoEngine}]
      /\ ans2 \in [Requests -> Codes \cup {"none", "waiting", "KErrCancel"}]
  <2>1. Submitted(s, err) \in Engines
    BY <1>1, <1>3, SubmittedFacts
  <2>2. \A x \in Requests : /\ engine[x] \in Engines \cup {NoEngine}
                            /\ answer[x] \in Codes \cup {"none", "waiting", "KErrCancel"}
                            /\ Failed(x) \in Codes \cup {"none", "waiting", "KErrCancel"}
    BY InvFacts DEF Failed, Completed, Codes, Errors
  <2>3. \A x \in Requests : /\ eng2[x] \in Engines \cup {NoEngine}
                            /\ ans2[x] \in Codes \cup {"none", "waiting", "KErrCancel"}
    BY <1>4, <2>1, <2>2
  <2> QED
    BY <2>3
<1> HIDE DEF eng2, ans2
<1>6. QueueOK(s, keyOf, engine, answer) /\ \A n \in DOMAIN s.queue : s.queue[n] # s.current
  BY <1>1, QueueFacts
\* Those that t holds are those of the queue of s.
<1>7. \A x \in Requests : Holds(t, x) => \E n \in DOMAIN s.queue : s.queue[n] = x
  BY <1>1, <1>3, QueueHeld DEF t
<1>8. \A x \in Requests : Holds(t, x) =>
        /\ Holds(s, x) /\ s.current # x /\ answer[x] = "waiting"
        /\ eng2[x] = IF t.current = x THEN Submitted(s, err) ELSE engine[x]
        /\ ans2[x] = IF t.current = x /\ err = "KErrNoMemory" THEN "KErrNoMemory" ELSE answer[x]
  <2> SUFFICES ASSUME NEW x \in Requests, Holds(t, x)
      PROVE /\ Holds(s, x) /\ s.current # x /\ answer[x] = "waiting"
            /\ eng2[x] = IF t.current = x THEN Submitted(s, err) ELSE engine[x]
            /\ ans2[x] = IF t.current = x /\ err = "KErrNoMemory" THEN "KErrNoMemory" ELSE answer[x]
    OBVIOUS
  <2>1. PICK n \in DOMAIN s.queue : s.queue[n] = x
    BY <1>7
  <2>2. Holds(s, x) /\ s.current # x /\ answer[x] = "waiting"
    BY <1>6, <2>1 DEF Holds, QueueOK
  <2>3. Begins(s, t, x) <=> t.current = x
    BY <2>2 DEF Begins
  <2>4. Failed(x) = "KErrNoMemory"
    BY <2>2 DEF Failed, Completed
  <2> QED
    BY <1>4, <2>2, <2>3, <2>4
<1>9. /\ t \in Schedulers /\ t.key = s.key /\ SchedulerOK(t, keyOf, eng2, ans2)
  <2>1. AreTaken(s, t, err, engine, answer, eng2, ans2)
    BY <1>8 DEF AreTaken
  <2>2. s \in Schedulers /\ err \in {"KErrNone"} \cup Errors /\ t = TakeNext(s, err)
    BY <1>1, <1>3 DEF t
  <2> QED
    BY <1>6, <2>1, <2>2, TakeNextOK
<1>10. ASSUME NEW x \in Requests, keyOf[x] # t.key
       PROVE  eng2[x] = engine[x] /\ ans2[x] = answer[x]
  <2>1. ~Holds(s, x)
    BY <1>1, <1>9, <1>10, HeldFacts
  <2>2. ~Begins(s, t, x)
    BY <1>8, <2>1 DEF Begins, Holds
  <2> QED
    BY <1>4, <2>1, <2>2
<1>11. ASSUME NEW x \in Requests, keyOf[x] = t.key, eng2[x] # NoEngine PROVE Holds(t, x)
  <2>1. engine[x] # NoEngine => Holds(s, x)
    BY <1>1, <1>9, <1>11, InvFacts, OneHolds DEF s
  <2> QED
    BY <1>4, <1>11, <2>1
<1>12. ArrayOK([schedulers EXCEPT ![i] = t], keyOf, eng2, ans2)
  <2>1. t.key = schedulers[i].key
    BY <1>9 DEF s
  <2> QED
    BY <1>1, <1>9, <1>10, <1>11, <2>1, InvFacts, OneChanges
<1>13. /\ schedulers' = [schedulers EXCEPT ![i] = t] /\ engine' = eng2 /\ answer' = ans2
       /\ panicked' \in BOOLEAN /\ timer' \in BOOLEAN /\ UNCHANGED keyOf
  <2>1. timer' \in BOOLEAN
    BY InvFacts DEF SchedulerRunL
  <2> QED
    BY <1>2, <2>1 DEF t, eng2, ans2, Panics
<1>14. TypeOK'
  BY <1>5, <1>12, <1>13, InvFacts DEF TypeOK, ArrayOK
<1> QED
  BY <1>12, <1>13, <1>14 DEF IInv

-----------------------------------------------------------------------------
(***************************************************************************)
(* The cancellation, at one scheduler and at all of them.                  *)
(***************************************************************************)
LEMMA WithoutQueuedOK ==
  ASSUME NEW s \in Schedulers, NEW keys, NEW eng, NEW ans, SchedulerOK(s, keys, eng, ans), NEW c
  PROVE  /\ WithoutQueued(s, c) \in Schedulers
         /\ WithoutQueued(s, c) =
              [s EXCEPT !.queue = Only(s.queue, {r \in Requests : SessionOf[r] # c})]
         /\ QueueOK(WithoutQueued(s, c), keys, eng, ans)
         /\ \A n \in DOMAIN WithoutQueued(s, c).queue :
              \E m \in DOMAIN s.queue : WithoutQueued(s, c).queue[n] = s.queue[m]
         /\ SchedulerOK(WithoutQueued(s, c), keys, eng, ans)
<1> DEFINE S == {r \in Requests : SessionOf[r] # c}
           q == Only(s.queue, S)
           t == [s EXCEPT !.queue = q]
<1>1. s.queue \in Seq(Requests) /\ DOMAIN s.queue = 1..Len(s.queue)
  BY SchedulerFields, LenProperties
<1>2. q \in Seq(Requests) /\ DOMAIN q = 1..Len(q) /\ Len(q) \in Nat
  <2>1. q \in Seq(Requests)
    BY <1>1, OnlyFacts
  <2> QED
    BY <2>1, LenProperties
<1>3. PICK h : Keeps(s.queue, S, Len(s.queue), q, h)
  BY <1>1, OnlyFacts
<1>4. WithoutQueued(s, c) = t
  BY DEF WithoutQueued
<1>5. s.queue = <<>> => q = <<>>
  BY OnlyEmpty
<1> HIDE DEF q
<1>6. /\ t \in Schedulers /\ t.queue = q /\ t.key = s.key /\ t.current = s.current
      /\ t.status = s.status /\ t.policy = s.policy /\ t.cle = s.cle /\ t.step = s.step
  BY <1>2 DEF Schedulers
<1> HIDE DEF t
<1>7. QueueOK(s, keys, eng, ans) /\ \A n \in DOMAIN s.queue : s.queue[n] # s.current
  BY QueueFacts
<1>8. \A n \in DOMAIN q : h[n] \in DOMAIN s.queue /\ q[n] = s.queue[h[n]]
  BY <1>1, <1>2, <1>3 DEF Keeps
<1>9. ASSUME NEW n \in DOMAIN q, NEW m \in DOMAIN q, q[m] = q[n] PROVE m = n
  <2>1. h[m] = h[n]
    BY <1>7, <1>8, <1>9 DEF QueueOK
  <2>2. ~(h[m] < h[n]) /\ ~(h[n] < h[m])
    BY <1>1, <1>8, <2>1
  <2>3. ~(m < n) /\ ~(n < m)
    BY <1>2, <1>3, <2>2 DEF Keeps
  <2> QED
    BY <1>2, <2>3
<1>10. QueueOK(t, keys, eng, ans)
  BY <1>6, <1>7, <1>8, <1>9 DEF QueueOK
<1>11. \A r : Holds(t, r) => Holds(s, r)
  BY <1>6, <1>8 DEF Holds
<1>12. SchedulerOK(t, keys, eng, ans)
  <2>1. \A r \in Requests : Holds(t, r) => keys[r] = t.key /\ eng[r] # NoEngine
    BY <1>6, <1>11, HeldFacts
  <2>2. t.current # NoRequest => CurrentOK(t, eng[t.current], ans[t.current])
    BY <1>6 DEF SchedulerOK, CurrentOK
  <2>3. \A n \in DOMAIN t.queue : t.queue[n] # t.current
    BY <1>6, <1>7, <1>8
  <2>4. /\ IsActive(t) <=> t.current # NoRequest
        /\ IsActive(t) \/ t.queue = <<>>
    BY <1>5, <1>6 DEF SchedulerOK, IsActive
  <2> QED
    BY <1>10, <2>1, <2>2, <2>3, <2>4 DEF SchedulerOK, QueueOK
<1>13. t = [s EXCEPT !.queue = Only(s.queue, S)]
  BY DEF t, q
<1>14. \A n \in DOMAIN t.queue : \E m \in DOMAIN s.queue : t.queue[n] = s.queue[m]
  BY <1>6, <1>8
<1> HIDE DEF S
<1>15. /\ WithoutQueued(s, c) \in Schedulers
       /\ WithoutQueued(s, c) = [s EXCEPT !.queue = Only(s.queue, S)]
       /\ QueueOK(WithoutQueued(s, c), keys, eng, ans)
       /\ \A n \in DOMAIN WithoutQueued(s, c).queue :
            \E m \in DOMAIN s.queue : WithoutQueued(s, c).queue[n] = s.queue[m]
       /\ SchedulerOK(WithoutQueued(s, c), keys, eng, ans)
  BY <1>4, <1>6, <1>10, <1>12, <1>13, <1>14
<1> QED
  BY <1>15 DEF S

\* What becomes of the engines and the answers of the requests s holds.
AreAfterCancel(s, t, err, gone, eng2, ans2) ==
  \A r \in Requests : Holds(s, r) =>
    /\ eng2[r] = EngineAfter(s, t, r, err)
    /\ ans2[r] = AnswerAfterCancel(s, t, r, err, gone)

LEMMA AfterCancelOK ==
  ASSUME IInv, NEW s \in Schedulers, SchedulerOK(s, keyOf, engine, answer), NEW c,
         NEW err \in {"KErrNone"} \cup Errors, NEW t, t = AfterCancel(s, c, err),
         NEW gone, NEW eng2, NEW ans2,
         AreAfterCancel(s, t, err, gone, eng2, ans2)
  PROVE  /\ t \in Schedulers /\ t.key = s.key
         /\ SchedulerOK(t, keyOf, eng2, ans2)
         /\ \A r \in Requests : Holds(t, r) => Holds(s, r)
<1> DEFINE rest == WithoutQueued(s, c)
           left == [rest EXCEPT !.step = StepAfterCancel(s)]
<1>0. \A r \in Requests : Holds(s, r) =>
        /\ eng2[r] = EngineAfter(s, t, r, err)
        /\ ans2[r] = AnswerAfterCancel(s, t, r, err, gone)
  BY DEF AreAfterCancel
<1>1. /\ rest \in Schedulers
      /\ rest = [s EXCEPT !.queue = Only(s.queue, {r \in Requests : SessionOf[r] # c})]
      /\ QueueOK(rest, keyOf, engine, answer)
      /\ \A n \in DOMAIN rest.queue : \E m \in DOMAIN s.queue : rest.queue[n] = s.queue[m]
      /\ SchedulerOK(rest, keyOf, engine, answer)
  BY WithoutQueuedOK
<1>2. /\ rest.key = s.key /\ rest.current = s.current /\ rest.cle = s.cle
  BY <1>1 DEF Schedulers
<1> HIDE DEF rest
<1>3. \A n \in DOMAIN s.queue : s.queue[n] # s.current /\ answer[s.queue[n]] = "waiting"
  BY QueueFacts DEF QueueOK
<1>4. CASE TakesCurrent(s, c)
  <2>1. t = TakeNext(left, err)
    BY <1>4 DEF AfterCancel, rest
  <2>2. /\ left \in Schedulers /\ left.key = s.key /\ left.queue = rest.queue
        /\ left.cle = s.cle
    <3>1. StepAfterCancel(s) \in Steps
      BY SchedulerFields DEF StepAfterCancel, Steps
    <3> QED
      BY <1>1, <1>2, <3>1 DEF Schedulers
  <2>3. Submitted(left, err) = Submitted(s, err)
    BY <2>2 DEF Submitted
  <2> HIDE DEF left
  <2>4. QueueOK(left, keyOf, engine, answer)
    BY <1>1, <1>2, <2>2 DEF QueueOK
  <2>5. ASSUME NEW r \in Requests, Holds(t, r)
        PROVE  /\ Holds(s, r) /\ s.current # r /\ answer[r] = "waiting"
    <3>1. PICK n \in DOMAIN left.queue : left.queue[n] = r
      BY <2>1, <2>2, <2>5, QueueHeld
    <3>2. PICK m \in DOMAIN s.queue : s.queue[m] = r
      BY <1>1, <2>2, <3>1
    <3> QED
      BY <1>3, <3>2 DEF Holds
  <2>6. ASSUME NEW r \in Requests, Holds(t, r)
        PROVE  /\ eng2[r] = IF t.current = r THEN Submitted(left, err) ELSE engine[r]
               /\ ans2[r] = IF t.current = r /\ err = "KErrNoMemory" THEN "KErrNoMemory"
                            ELSE answer[r]
    <3>1. /\ Holds(s, r) /\ s.current # r /\ answer[r] = "waiting"
      BY <2>5, <2>6
    <3>2. Begins(s, t, r) <=> t.current = r
      BY <3>1 DEF Begins
    <3>3. Failed(r) = "KErrNoMemory"
      BY <3>1 DEF Failed, Completed
    <3>4. eng2[r] = IF t.current = r THEN Submitted(left, err) ELSE engine[r]
      BY <1>0, <2>3, <2>6, <3>1, <3>2 DEF EngineAfter
    <3>5. ans2[r] = IF t.current = r /\ err = "KErrNoMemory" THEN "KErrNoMemory" ELSE answer[r]
      BY <1>0, <2>6, <3>1, <3>2, <3>3 DEF AnswerAfterCancel, AnswerAfter
    <3> QED
      BY <3>4, <3>5
  <2>7. t \in Schedulers /\ t.key = left.key /\ SchedulerOK(t, keyOf, eng2, ans2)
    <3>1. AreTaken(left, t, err, engine, answer, eng2, ans2)
      BY <2>6 DEF AreTaken
    <3> QED
      BY <2>1, <2>2, <2>4, <3>1, TakeNextOK
  <2> QED
    BY <2>2, <2>5, <2>7
<1>5. CASE ~TakesCurrent(s, c)
  <2>1. t = rest
    BY <1>5 DEF AfterCancel, rest
  <2>2. \A r \in Requests : Holds(t, r) => Holds(s, r)
    <3>1. /\ t.current = s.current
          /\ \A n \in DOMAIN t.queue : \E m \in DOMAIN s.queue : t.queue[n] = s.queue[m]
      BY <1>1, <1>2, <2>1
    <3> QED
      BY <3>1, Zenon DEF Holds
  <2>3. ASSUME NEW r \in Requests, Holds(t, r)
        PROVE  eng2[r] = engine[r] /\ ans2[r] = answer[r]
    <3>1. ~Begins(s, t, r)
      BY <1>2, <2>1 DEF Begins
    <3> QED
      BY <1>0, <2>2, <2>3, <3>1 DEF EngineAfter, AnswerAfterCancel, AnswerAfter
  <2>4. t \in Schedulers /\ SchedulerOK(t, keyOf, engine, answer)
    BY <1>1, <2>1
  <2>5. SchedulerOK(t, keyOf, eng2, ans2)
    BY <2>3, <2>4, SchedulerFrame
  <2> QED
    BY <1>1, <1>2, <2>1, <2>2, <2>5
<1> QED
  BY <1>4, <1>5

\* The policy server is gone: no more is said of the step it is at.
LEMMA WithFaultFacts ==
  ASSUME NEW t \in Schedulers, NEW c, NEW i
  PROVE  /\ WithFault(c, i, t) \in Schedulers
         /\ WithFault(c, i, t).key = t.key /\ WithFault(c, i, t).current = t.current
         /\ WithFault(c, i, t).queue = t.queue /\ WithFault(c, i, t).status = t.status
         /\ WithFault(c, i, t).policy = t.policy /\ WithFault(c, i, t).cle = t.cle
         /\ WithFault(c, i, t).step \in {t.step, "gone"}
<1> DEFINE u == [t EXCEPT !.step = "gone"]
<1>1. /\ u \in Schedulers /\ u.key = t.key /\ u.current = t.current /\ u.queue = t.queue
      /\ u.status = t.status /\ u.policy = t.policy /\ u.cle = t.cle /\ u.step = "gone"
  BY DEF Schedulers, Steps
<1>2. WithFault(c, i, t) = u \/ WithFault(c, i, t) = t
  BY DEF WithFault
<1> HIDE DEF u
<1> QED
  BY <1>1, <1>2

LEMMA WithFaultOK ==
  ASSUME NEW t \in Schedulers, NEW keys, NEW eng, NEW ans, SchedulerOK(t, keys, eng, ans),
         NEW c, NEW i
  PROVE  SchedulerOK(WithFault(c, i, t), keys, eng, ans)
<1> DEFINE u == WithFault(c, i, t)
<1>1. /\ u.key = t.key /\ u.current = t.current /\ u.queue = t.queue /\ u.status = t.status
      /\ u.policy = t.policy /\ u.cle = t.cle /\ u.step \in {t.step, "gone"}
  BY WithFaultFacts
<1> HIDE DEF u
<1>2. ASSUME NEW e, NEW a, CurrentOK(t, e, a) PROVE CurrentOK(u, e, a)
  BY <1>1, <1>2 DEF CurrentOK, PolicyStep
<1>3. \A r : Holds(u, r) <=> Holds(t, r)
  BY <1>1 DEF Holds
<1>4. SchedulerOK(u, keys, eng, ans)
  BY <1>1, <1>2, <1>3 DEF SchedulerOK, IsActive
<1> QED
  BY <1>4 DEF u

LEMMA CancelInv ==
  ASSUME IInv, NEW c \in Sessions, Cancel(c), UNCHANGED keyOf
  PROVE  IInv'
<1>1. PICK err \in [DOMAIN schedulers -> {"KErrNone"} \cup Errors] :
        LET After(i) == AfterCancel(schedulers[i], c, err[i])
            At(r) == CHOOSE i \in DOMAIN schedulers : Holds(schedulers[i], r)
        IN  /\ schedulers' = [i \in DOMAIN schedulers |-> WithFault(c, i, After(i))]
            /\ engine' = [r \in Requests |->
                 IF engine[r] = NoEngine THEN NoEngine
                 ELSE EngineAfter(schedulers[At(r)], After(At(r)), r, err[At(r)])]
            /\ answer' = [r \in Requests |->
                 IF engine[r] = NoEngine THEN answer[r]
                 ELSE LET s == schedulers[At(r)]
                      IN  AnswerAfterCancel(s, After(At(r)), r, err[At(r)],
                                            s.step = "gone" \/ GoneBy(c, At(r)))]
            /\ panicked' = \E i \in DOMAIN schedulers : err[i] = "KErrGeneral"
            /\ UNCHANGED timer
  BY DEF Cancel
<1> DEFINE After(i) == AfterCancel(schedulers[i], c, err[i])
           At(r) == CHOOSE i \in DOMAIN schedulers : Holds(schedulers[i], r)
           GoneAt(i) == schedulers[i].step = "gone" \/ GoneBy(c, i)
           array == [i \in DOMAIN schedulers |-> WithFault(c, i, After(i))]
           eng2 == [r \in Requests |->
                     IF engine[r] = NoEngine THEN NoEngine
                     ELSE EngineAfter(schedulers[At(r)], After(At(r)), r, err[At(r)])]
           ans2 == [r \in Requests |->
                     IF engine[r] = NoEngine THEN answer[r]
                     ELSE AnswerAfterCancel(schedulers[At(r)], After(At(r)), r, err[At(r)],
                                            GoneAt(At(r)))]
<1>2. schedulers' = array /\ engine' = eng2 /\ answer' = ans2
      /\ panicked' \in BOOLEAN /\ timer' = timer
  BY <1>1
<1>3. \A i \in DOMAIN array : array[i] = WithFault(c, i, After(i))
  OBVIOUS
<1>4. \A r \in Requests :
        /\ engine[r] = NoEngine => eng2[r] = NoEngine /\ ans2[r] = answer[r]
        /\ engine[r] # NoEngine =>
             /\ eng2[r] = EngineAfter(schedulers[At(r)], After(At(r)), r, err[At(r)])
             /\ ans2[r] = AnswerAfterCancel(schedulers[At(r)], After(At(r)), r, err[At(r)],
                                            GoneAt(At(r)))
  OBVIOUS
<1>5. DOMAIN array = DOMAIN schedulers /\ \A i \in DOMAIN schedulers : err[i] \in {"KErrNone"} \cup Errors
  OBVIOUS
<1>6. \A r \in Requests : engine[r] # NoEngine => At(r) \in DOMAIN schedulers /\ Holds(schedulers[At(r)], r)
  <2>1. \A r \in Requests : engine[r] # NoEngine => \E i \in DOMAIN schedulers : Holds(schedulers[i], r)
    BY DEF IInv, ArrayOK
  <2> QED
    BY <2>1
<1>7. eng2 = [r \in Requests |-> eng2[r]] /\ ans2 = [r \in Requests |-> ans2[r]]
  OBVIOUS
<1>8. array = [i \in DOMAIN schedulers |-> array[i]]
  OBVIOUS
<1> HIDE DEF array, eng2, ans2, At, After, GoneAt
<1>9. ASSUME NEW i \in DOMAIN schedulers, NEW r \in Requests, Holds(schedulers[i], r)
      PROVE  engine[r] # NoEngine /\ At(r) = i
  <2>1. keyOf[r] = schedulers[i].key /\ engine[r] # NoEngine
    BY <1>9, InvFacts, HeldFacts
  <2>2. At(r) \in DOMAIN schedulers /\ Holds(schedulers[At(r)], r)
    BY <1>6, <2>1
  <2>3. keyOf[r] = schedulers[At(r)].key
    BY <2>2, InvFacts, HeldFacts
  <2> QED
    BY <2>1, <2>2, <2>3, InvFacts, OneForKey
<1>10. ASSUME NEW i \in DOMAIN schedulers
       PROVE  /\ array[i] \in Schedulers /\ array[i].key = schedulers[i].key
              /\ SchedulerOK(array[i], keyOf, eng2, ans2)
              /\ \A r \in Requests : Holds(array[i], r) <=> Holds(After(i), r)
  <2>1. After(i) = AfterCancel(schedulers[i], c, err[i])
    BY DEF After
  <2>2. AreAfterCancel(schedulers[i], After(i), err[i], GoneAt(i), eng2, ans2)
    BY <1>4, <1>9 DEF AreAfterCancel
  <2>3. /\ schedulers[i] \in Schedulers /\ err[i] \in {"KErrNone"} \cup Errors
        /\ SchedulerOK(schedulers[i], keyOf, engine, answer)
    BY <1>5, InvFacts
  <2>4. /\ After(i) \in Schedulers /\ After(i).key = schedulers[i].key
        /\ SchedulerOK(After(i), keyOf, eng2, ans2)
    <3> DEFINE s == schedulers[i]
               t == After(i)
               e == err[i]
               gone == GoneAt(i)
    <3>1. /\ s \in Schedulers /\ e \in {"KErrNone"} \cup Errors
          /\ SchedulerOK(s, keyOf, engine, answer)
          /\ t = AfterCancel(s, c, e)
          /\ AreAfterCancel(s, t, e, gone, eng2, ans2)
      BY <2>1, <2>2, <2>3
    <3> HIDE DEF s, t, e, gone
    <3>2. t \in Schedulers /\ t.key = s.key /\ SchedulerOK(t, keyOf, eng2, ans2)
      BY <3>1, AfterCancelOK
    <3> QED
      BY <3>2 DEF s, t
  <2>5. array[i] = WithFault(c, i, After(i))
    BY <1>3, <1>5
  <2>6. /\ array[i] \in Schedulers /\ array[i].key = After(i).key
        /\ array[i].current = After(i).current /\ array[i].queue = After(i).queue
    BY <2>4, <2>5, WithFaultFacts
  <2>7. SchedulerOK(array[i], keyOf, eng2, ans2)
    BY <2>4, <2>5, WithFaultOK
  <2> QED
    BY <2>4, <2>6, <2>7 DEF Holds
<1>11. array \in Seq(Schedulers)
  <2>1. DOMAIN schedulers = 1..Len(schedulers) /\ Len(schedulers) \in Nat
    BY InvFacts, LenProperties
  <2>2. array \in [1..Len(schedulers) -> Schedulers]
    BY <1>8, <1>10, <2>1
  <2> QED
    BY <2>1, <2>2, SeqDef
<1>12. InOrder(array)
  BY <1>5, <1>10, InvFacts DEF InOrder
<1>13. ASSUME NEW r \in Requests, eng2[r] # NoEngine
       PROVE  \E i \in DOMAIN array : Holds(array[i], r)
  <2>1. engine[r] # NoEngine /\ At(r) \in DOMAIN schedulers
    BY <1>4, <1>6, <1>13
  <2>2. Holds(After(At(r)), r)
    BY <1>4, <1>13, <2>1 DEF EngineAfter
  <2> QED
    BY <1>5, <1>10, <2>1, <2>2
<1>14. ArrayOK(array, keyOf, eng2, ans2)
  BY <1>5, <1>10, <1>11, <1>12, <1>13 DEF ArrayOK
<1>15. ASSUME NEW r \in Requests
       PROVE  /\ eng2[r] \in Engines \cup {NoEngine}
              /\ ans2[r] \in Codes \cup {"none", "waiting", "KErrCancel"}
  <2>1. engine[r] \in Engines \cup {NoEngine} /\ answer[r] \in Codes \cup {"none", "waiting", "KErrCancel"}
    BY InvFacts
  <2>2. CASE engine[r] = NoEngine
    BY <1>4, <2>1, <2>2
  <2>3. CASE engine[r] # NoEngine
    <3> DEFINE i == At(r)
    <3>1. i \in DOMAIN schedulers /\ schedulers[i] \in Schedulers /\ err[i] \in {"KErrNone"} \cup Errors
      BY <1>5, <1>6, <2>3, InvFacts
    <3>2. Submitted(schedulers[i], err[i]) \in Engines
      BY <3>1, SubmittedFacts
    <3>3. /\ eng2[r] = EngineAfter(schedulers[i], After(i), r, err[i])
          /\ ans2[r] = AnswerAfterCancel(schedulers[i], After(i), r, err[i], GoneAt(i))
      BY <1>4, <2>3
    <3> HIDE DEF i
    <3>4. eng2[r] \in Engines \cup {NoEngine}
      BY <2>1, <3>2, <3>3 DEF EngineAfter
    <3>5. ans2[r] \in Codes \cup {"none", "waiting", "KErrCancel"}
      BY <2>1, <3>3 DEF AnswerAfterCancel, AnswerAfter, Completed, Failed, CancelCode, Codes, Errors
    <3> QED
      BY <3>4, <3>5
  <2> QED
    BY <2>2, <2>3
<1>16. /\ eng2 \in [Requests -> Engines \cup {NoEngine}]
       /\ ans2 \in [Requests -> Codes \cup {"none", "waiting", "KErrCancel"}]
  BY <1>7, <1>15
<1>17. TypeOK'
  BY <1>2, <1>11, <1>16, InvFacts DEF TypeOK
<1> QED
  BY <1>2, <1>14, <1>17 DEF IInv

-----------------------------------------------------------------------------
\* Every step keeps the invariant.
LEMMA NextInv == IInv /\ [Next]_vars => IInv'
<1> SUFFICES ASSUME IInv, [Next]_vars PROVE IInv'
  OBVIOUS
<1>1. CASE UNCHANGED vars
  BY <1>1 DEF vars, IInv, TypeOK
<1>2. CASE Next
  <2>1. UNCHANGED keyOf
    BY <1>2 DEF Next
  <2>2. ASSUME NEW r \in Requests, SubmitBehind(r) PROVE IInv'
    BY <2>1, <2>2, SubmitBehindInv
  <2>3. ASSUME NEW r \in Requests, SubmitFirst(r) PROVE IInv'
    BY <2>1, <2>3, SubmitFirstInv
  <2>4. ASSUME NEW r \in Requests, SubmitLeaves(r) PROVE IInv'
    BY <2>1, <2>4, SubmitLeavesInv
  <2>5. ASSUME NEW r \in Requests, EngineRunL(r) PROVE IInv'
    BY <2>1, <2>5, EngineRunLInv
  <2>6. ASSUME NEW r \in Requests, NEW code \in Codes, Returns(r, code) PROVE IInv'
    BY <2>1, <2>6, ReturnsInv
  <2>7. ASSUME NEW r \in Requests, SchedulerRunL(r) PROVE IInv'
    BY <2>1, <2>7, SchedulerRunLInv
  <2>8. ASSUME NEW c \in Sessions, Cancel(c) PROVE IInv'
    BY <2>1, <2>8, CancelInv
  <2>9. CASE CleanUp
    BY <2>1, <2>9, CleanUpInv
  <2> QED
    BY <1>2, <2>2, <2>3, <2>4, <2>5, <2>6, <2>7, <2>8, <2>9 DEF Next, RequestSteps
<1> QED
  BY <1>1, <1>2

(***************************************************************************)
(* The invariant holds in every state the system can reach.                *)
(***************************************************************************)
THEOREM Invariance == Spec => []IInv
BY InitInv, NextInv, PTL DEF Spec

\* The state is always of its type, for any number of requests and properties.
THEOREM TypeCorrect == Spec => []TypeOK
<1>1. IInv => TypeOK
  BY DEF IInv
<1> QED
  BY <1>1, Invariance, PTL

(***************************************************************************)
(* Every engine is with the one scheduler of its property, current or once *)
(* in the queue, and a scheduler that is not active holds none: neither a  *)
(* cancellation nor the cleanup leaves an engine behind, or deletes one    *)
(* that is needed.  There is one scheduler for a property only as the keys *)
(* are close to each other (KeysAssumption).                               *)
(***************************************************************************)
THEOREM EnginesHeld == Spec => []EnginesAreHeld
<1>1. IInv => EnginesAreHeld
  <2> SUFFICES ASSUME IInv PROVE EnginesAreHeld
    OBVIOUS
  <2>1. \A i, j \in DOMAIN schedulers : schedulers[i].key = schedulers[j].key => i = j
    BY InvFacts, OneForKey
  <2>2. ASSUME NEW i \in DOMAIN schedulers
        PROVE  LET s == schedulers[i]
               IN  /\ IsActive(s) <=> s.current # NoRequest
                   /\ IsActive(s) \/ s.queue = <<>>
                   /\ \A n \in DOMAIN s.queue :
                        /\ engine[s.queue[n]] = Idle /\ answer[s.queue[n]] = "waiting"
                        /\ s.queue[n] # s.current
                        /\ \A m \in DOMAIN s.queue : s.queue[m] = s.queue[n] => m = n
    BY InvFacts DEF SchedulerOK
  <2>3. ASSUME NEW r \in Requests, engine[r] # NoEngine
        PROVE  \E i \in DOMAIN schedulers : schedulers[i].key = keyOf[r] /\ Holds(schedulers[i], r)
    <3>1. PICK i \in DOMAIN schedulers : Holds(schedulers[i], r)
      BY <2>3 DEF IInv, ArrayOK
    <3> QED
      BY <3>1, InvFacts, HeldFacts
  <2>4. ASSUME NEW r \in Requests, NEW i \in DOMAIN schedulers, Holds(schedulers[i], r)
        PROVE  engine[r] # NoEngine
    BY <2>4, InvFacts, HeldFacts
  <2> QED
    BY <2>1, <2>2, <2>3, <2>4 DEF EnginesAreHeld
<1> QED
  BY <1>1, Invariance, PTL

(***************************************************************************)
(* A transition only asks other servers for what they can do: it has its   *)
(* connections, and the policy server's object is at the step before, also *)
(* when it was left over by a transition that failed or was withdrawn.     *)
(* The exception is the cancellation of an initialisation that found no    *)
(* memory, as long as the engine has not heard of that.                    *)
(***************************************************************************)
THEOREM CallsPossible == Spec => []CallsArePossible
<1>1. IInv => CallsArePossible
  BY InvFacts DEF CallsArePossible, SchedulerOK, CurrentOK
<1> QED
  BY <1>1, Invariance, PTL

(***************************************************************************)
(* In every state, and wherever in the range of the keys the array begins, *)
(* the binary search finds the scheduler of a property if there is one, as *)
(* long as the keys are close to each other (KeysAssumption).              *)
(***************************************************************************)
SearchFinds ==
  \A key \in Keys :
    FindScheduler(key) <=> \E i \in DOMAIN schedulers : schedulers[i].key = key

THEOREM SearchIsRight == Spec => []SearchFinds
<1>1. IInv => SearchFinds
  BY InvFacts, FindSchedulerFinds DEF SearchFinds
<1> QED
  BY <1>1, Invariance, PTL


-----------------------------------------------------------------------------
(***************************************************************************)
(* The implementation of the contract: the lines and the outcomes that an  *)
(* array of schedulers stands for.                                         *)
(***************************************************************************)
LineOf(s) == IF s.current = NoRequest THEN <<>> ELSE <<s.current>> \o s.queue

LineIn(array, k) ==
  LET at == {i \in DOMAIN array : array[i].key = k}
  IN  IF at = {} THEN <<>> ELSE LineOf(array[CHOOSE i \in at : TRUE])

LinesIn(array) == [k \in Keys |-> LineIn(array, k)]

LostIn(array, ans, r) ==
  /\ ans[r] = "waiting"
  /\ \A i \in DOMAIN array :
       Holds(array[i], r) => array[i].current = r /\ array[i].status # "KRequestPending"

OutcomeIn(array, ans, r) == IF LostIn(array, ans, r) THEN "lost" ELSE ans[r]

LEMMA LinesAre == Lines = LinesIn(schedulers)
<1> SUFFICES ASSUME NEW k \in Keys PROVE Line(k) = LineIn(schedulers, k)
  BY DEF Lines, LinesIn
<1> DEFINE at == {i \in DOMAIN schedulers : schedulers[i].key = k}
<1> QED
  BY DEF Line, LineIn, LineOf

LEMMA OutcomesAre == Outcomes = [r \in Requests |-> OutcomeIn(schedulers, answer, r)]
BY DEF Outcomes, OutcomeIn, Lost, LostIn

LEMMA NextLinesAre ==
  /\ Lines' = LinesIn(schedulers')
  /\ Outcomes' = [r \in Requests |-> OutcomeIn(schedulers', answer', r)]
<1>1. (Lines = LinesIn(schedulers))'
  BY LinesAre, PTL
<1>2. (Outcomes = [r \in Requests |-> OutcomeIn(schedulers, answer, r)])'
  BY OutcomesAre, PTL
<1> QED
  BY <1>1, <1>2

LEMMA OnlyIsOnly == \A s, S : Contract!Only(s, S) = Only(s, S)
BY DEF Contract!Only, Only

-----------------------------------------------------------------------------
LEMMA LineOfFacts ==
  ASSUME NEW s \in Schedulers, NEW keys, NEW eng, NEW ans, SchedulerOK(s, keys, eng, ans)
  PROVE  /\ LineOf(s) \in Seq(Requests)
         /\ LineOf(s) = <<>> <=> s.current = NoRequest
         /\ s.current # NoRequest =>
              /\ s.current \in Requests
              /\ Head(LineOf(s)) = s.current /\ Tail(LineOf(s)) = s.queue
         /\ \A r \in Requests :
              Holds(s, r) <=> \E n \in DOMAIN LineOf(s) : LineOf(s)[n] = r
<1>1. /\ s.queue \in Seq(Requests) /\ DOMAIN s.queue = 1..Len(s.queue) /\ Len(s.queue) \in Nat
      /\ s.current \in Requests \cup {NoRequest}
  BY SchedulerFields, LenProperties
<1>2. CASE s.current = NoRequest
  <2>1. s.queue = <<>> /\ LineOf(s) = <<>>
    BY <1>2 DEF SchedulerOK, LineOf
  <2>2. <<>> \in Seq(Requests) /\ DOMAIN <<>> = {}
    BY EmptySeq
  <2>3. \A r \in Requests : ~Holds(s, r)
    BY <1>2, <2>1, RequestsAssumption DEF Holds
  <2> QED
    BY <1>2, <2>1, <2>2, <2>3
<1>3. CASE s.current # NoRequest
  <2> DEFINE l == <<s.current>> \o s.queue
  <2>1. <<s.current>> \in Seq(Requests) /\ Len(<<s.current>>) = 1 /\ <<s.current>>[1] = s.current
        /\ s.current \in Requests
    BY <1>1, <1>3
  <2>2. /\ l \in Seq(Requests) /\ Len(l) = 1 + Len(s.queue)
        /\ \A n \in 1..(1 + Len(s.queue)) :
             l[n] = IF n <= 1 THEN <<s.current>>[n] ELSE s.queue[n - 1]
    BY <1>1, <2>1, ConcatProperties
  <2>3. l[1] = s.current /\ \A n \in 1..Len(s.queue) : l[n + 1] = s.queue[n]
    BY <1>1, <2>1, <2>2
  <2>4. DOMAIN l = 1..(1 + Len(s.queue))
    BY <2>2, LenProperties
  <2>5. LineOf(s) = l
    BY <1>3 DEF LineOf
  <2> HIDE DEF l
  <2>6. l # <<>>
    BY <1>1, <2>2, EmptySeq
  <2>7. Head(l) = s.current
    BY <2>2, <2>3
  <2>8. Tail(l) = s.queue
    <3>1. /\ Tail(l) \in Seq(Requests) /\ Len(Tail(l)) = Len(s.queue)
          /\ \A n \in 1..Len(Tail(l)) : Tail(l)[n] = l[n + 1]
      BY <1>1, <2>2, <2>6, HeadTailProperties
    <3> QED
      BY <1>1, <2>3, <3>1, SeqEqual
  <2>9. ASSUME NEW r \in Requests
        PROVE  Holds(s, r) <=> \E n \in DOMAIN l : l[n] = r
    <3>1. \A n \in 1..(1 + Len(s.queue)) : n = 1 \/ (n - 1 \in 1..Len(s.queue) /\ (n - 1) + 1 = n)
      BY <1>1
    <3>2. 1 \in 1..(1 + Len(s.queue)) /\ \A n \in 1..Len(s.queue) : n + 1 \in 1..(1 + Len(s.queue))
      BY <1>1
    <3>3. ASSUME Holds(s, r) PROVE \E n \in DOMAIN l : l[n] = r
      BY <1>1, <2>3, <2>4, <3>2, <3>3 DEF Holds
    <3>4. ASSUME NEW n \in DOMAIN l, l[n] = r PROVE Holds(s, r)
      BY <1>1, <2>3, <2>4, <3>1, <3>4 DEF Holds
    <3> QED
      BY <3>3, <3>4
  <2> QED
    BY <1>3, <2>1, <2>2, <2>5, <2>6, <2>7, <2>8, <2>9
<1> QED
  BY <1>2, <1>3

LEMMA LineFound ==
  ASSUME NEW array \in Seq(Schedulers), InOrder(array), NEW i \in DOMAIN array
  PROVE  LineIn(array, array[i].key) = LineOf(array[i])
<1> DEFINE at == {j \in DOMAIN array : array[j].key = array[i].key}
           m == CHOOSE j \in at : TRUE
<1>1. m \in DOMAIN array /\ array[m].key = array[i].key
  OBVIOUS
<1> HIDE DEF m
<1>2. m = i
  BY <1>1, OneForKey
<1> QED
  BY <1>2 DEF LineIn, m

LEMMA LineNone ==
  ASSUME NEW array, NEW k, \A i \in DOMAIN array : array[i].key # k
  PROVE  LineIn(array, k) = <<>>
BY DEF LineIn

LEMMA OutcomeHeld ==
  ASSUME NEW array, NEW keys, NEW eng, NEW ans, ArrayOK(array, keys, eng, ans),
         NEW i \in DOMAIN array, NEW r \in Requests, Holds(array[i], r)
  PROVE  OutcomeIn(array, ans, r) =
           IF ans[r] = "waiting" /\ array[i].current = r /\ array[i].status # "KRequestPending"
           THEN "lost" ELSE ans[r]
<1>1. ASSUME NEW j \in DOMAIN array, Holds(array[j], r) PROVE j = i
  <2>1. array[i].key = keys[r] /\ array[j].key = keys[r]
    BY <1>1, HeldFacts DEF ArrayOK
  <2> QED
    BY <2>1, OneForKey DEF ArrayOK
<1> QED
  BY <1>1 DEF OutcomeIn, LostIn

LEMMA OutcomeFree ==
  ASSUME NEW array, NEW keys, NEW eng, NEW ans, ArrayOK(array, keys, eng, ans),
         NEW r \in Requests, eng[r] = NoEngine
  PROVE  OutcomeIn(array, ans, r) = IF ans[r] = "waiting" THEN "lost" ELSE ans[r]
<1>1. \A i \in DOMAIN array : ~Holds(array[i], r)
  BY HeldFacts DEF ArrayOK
<1> QED
  BY <1>1 DEF OutcomeIn, LostIn

\* A step by which scheduler i of the array becomes t.
Changed(array2, array, i, t) == array2 = [array EXCEPT ![i] = t]

LEMMA ChangedFacts ==
  ASSUME NEW array, NEW array2, NEW i \in DOMAIN array, NEW t, Changed(array2, array, i, t)
  PROVE  /\ DOMAIN array2 = DOMAIN array /\ array2[i] = t
         /\ \A j \in DOMAIN array : array2[j] = IF j = i THEN t ELSE array[j]
BY DEF Changed

\* The lines after a step of one scheduler.
LEMMA OneChangesLines ==
  ASSUME NEW array, NEW keys, NEW eng, NEW ans, ArrayOK(array, keys, eng, ans),
         NEW i \in DOMAIN array, NEW t \in Schedulers, t.key = array[i].key,
         NEW array2, Changed(array2, array, i, t),
         NEW eng2, NEW ans2, ArrayOK(array2, keys, eng2, ans2)
  PROVE  LinesIn(array2) = [LinesIn(array) EXCEPT ![t.key] = LineOf(t)]
<1>1. /\ array \in Seq(Schedulers) /\ InOrder(array)
      /\ array2 \in Seq(Schedulers) /\ InOrder(array2)
  BY DEF ArrayOK
<1>2. DOMAIN array2 = DOMAIN array /\ \A j \in DOMAIN array : array2[j] = IF j = i THEN t ELSE array[j]
  BY DEF Changed
<1>3. t.key \in Keys
  BY SchedulerFields
<1> SUFFICES ASSUME NEW k \in Keys
             PROVE  LineIn(array2, k) = IF k = t.key THEN LineOf(t) ELSE LineIn(array, k)
  BY <1>3 DEF LinesIn
<1>4. CASE k = t.key
  <2>1. array2[i] = t /\ i \in DOMAIN array2
    BY <1>2
  <2> QED
    BY <1>1, <1>4, <2>1, LineFound
<1>5. CASE k # t.key /\ \E j \in DOMAIN array : array[j].key = k
  <2>1. PICK j \in DOMAIN array : array[j].key = k
    BY <1>5
  <2>2. array2[j] = array[j] /\ j \in DOMAIN array2
    BY <1>2, <1>5, <2>1
  <2>3. LineIn(array, k) = LineOf(array[j])
    BY <1>1, <2>1, LineFound
  <2>4. LineIn(array2, k) = LineOf(array2[j])
    BY <1>1, <2>1, <2>2, LineFound
  <2> QED
    BY <1>5, <2>2, <2>3, <2>4
<1>6. CASE k # t.key /\ ~ \E j \in DOMAIN array : array[j].key = k
  <2>1. \A j \in DOMAIN array2 : array2[j].key # k
    BY <1>2, <1>6
  <2>2. LineIn(array, k) = <<>> /\ LineIn(array2, k) = <<>>
    BY <1>6, <2>1, LineNone
  <2> QED
    BY <1>6, <2>2
<1> QED
  BY <1>4, <1>5, <1>6

\* What is known of the requests for other keys.
LEMMA OthersOutcome ==
  ASSUME NEW array, NEW keys, NEW eng, NEW ans, ArrayOK(array, keys, eng, ans),
         NEW i \in DOMAIN array, NEW t \in Schedulers, t.key = array[i].key,
         NEW array2, Changed(array2, array, i, t),
         NEW eng2, NEW ans2, ArrayOK(array2, keys, eng2, ans2),
         NEW r \in Requests, keys[r] # t.key, ans2[r] = ans[r]
  PROVE  OutcomeIn(array2, ans2, r) = OutcomeIn(array, ans, r)
<1>1. DOMAIN array2 = DOMAIN array /\ \A j \in DOMAIN array : array2[j] = IF j = i THEN t ELSE array[j]
  BY DEF Changed
<1>2. ~Holds(array[i], r) /\ ~Holds(t, r)
  <2>1. SchedulerOK(array[i], keys, eng, ans)
    BY DEF ArrayOK
  <2>2. SchedulerOK(array2[i], keys, eng2, ans2)
    BY <1>1 DEF ArrayOK
  <2>3. array2[i] = t
    BY <1>1
  <2> QED
    BY <2>1, <2>2, <2>3, HeldFacts
<1>3. LostIn(array2, ans2, r) <=> LostIn(array, ans, r)
  BY <1>1, <1>2 DEF LostIn
<1> QED
  BY <1>3 DEF OutcomeIn

\* Idle schedulers make no difference.
LEMMA IdleLines ==
  ASSUME NEW array, NEW keys, NEW eng, NEW ans, ArrayOK(array, keys, eng, ans),
         NEW array2, ArrayOK(array2, keys, eng, ans),
         \A j \in DOMAIN array2 :
           array2[j].current = NoRequest \/ \E i \in DOMAIN array : array2[j] = array[i],
         \A i \in DOMAIN array :
           array[i].current = NoRequest \/ \E j \in DOMAIN array2 : array2[j] = array[i]
  PROVE  LinesIn(array2) = LinesIn(array)
<1>1. /\ array \in Seq(Schedulers) /\ InOrder(array)
      /\ array2 \in Seq(Schedulers) /\ InOrder(array2)
  BY DEF ArrayOK
<1> SUFFICES ASSUME NEW k \in Keys PROVE LineIn(array2, k) = LineIn(array, k)
  BY DEF LinesIn
<1>2. ASSUME NEW i \in DOMAIN array, array[i].key = k, array[i].current # NoRequest
      PROVE  LineIn(array2, k) = LineIn(array, k)
  <2>1. PICK j \in DOMAIN array2 : array2[j] = array[i]
    BY <1>2
  <2> QED
    BY <1>1, <1>2, <2>1, LineFound
<1>3. ASSUME NEW j \in DOMAIN array2, array2[j].key = k, array2[j].current # NoRequest
      PROVE  LineIn(array2, k) = LineIn(array, k)
  <2>1. PICK i \in DOMAIN array : array2[j] = array[i]
    BY <1>3
  <2> QED
    BY <1>1, <1>3, <2>1, LineFound
<1>4. ASSUME \A i \in DOMAIN array : array[i].key = k => array[i].current = NoRequest
      PROVE  LineIn(array, k) = <<>>
  <2>1. CASE \E i \in DOMAIN array : array[i].key = k
    <3>1. PICK i \in DOMAIN array : array[i].key = k
      BY <2>1
    <3>2. LineIn(array, k) = LineOf(array[i])
      BY <1>1, <3>1, LineFound
    <3> QED
      BY <1>4, <3>1, <3>2 DEF LineOf
  <2>2. CASE ~ \E i \in DOMAIN array : array[i].key = k
    BY <2>2, LineNone
  <2> QED
    BY <2>1, <2>2
<1>5. ASSUME \A i \in DOMAIN array2 : array2[i].key = k => array2[i].current = NoRequest
      PROVE  LineIn(array2, k) = <<>>
  <2>1. CASE \E i \in DOMAIN array2 : array2[i].key = k
    <3>1. PICK i \in DOMAIN array2 : array2[i].key = k
      BY <2>1
    <3>2. LineIn(array2, k) = LineOf(array2[i])
      BY <1>1, <3>1, LineFound
    <3> QED
      BY <1>5, <3>1, <3>2 DEF LineOf
  <2>2. CASE ~ \E i \in DOMAIN array2 : array2[i].key = k
    BY <2>2, LineNone
  <2> QED
    BY <2>1, <2>2
<1> QED
  BY <1>2, <1>3, <1>4, <1>5

LEMMA IdleOutcomes ==
  ASSUME NEW array, NEW keys, NEW eng, NEW ans, ArrayOK(array, keys, eng, ans),
         NEW array2, ArrayOK(array2, keys, eng, ans),
         \A j \in DOMAIN array2 :
           array2[j].current = NoRequest \/ \E i \in DOMAIN array : array2[j] = array[i],
         NEW r \in Requests
  PROVE  OutcomeIn(array2, ans, r) = OutcomeIn(array, ans, r)
<1>1. CASE eng[r] = NoEngine
  BY <1>1, OutcomeFree
<1>2. CASE eng[r] # NoEngine
  <2>1. PICK j \in DOMAIN array2 : Holds(array2[j], r)
    BY <1>2 DEF ArrayOK
  <2>2. array2[j].current # NoRequest
    BY <2>1, RequestsAssumption DEF ArrayOK, SchedulerOK, Holds
  <2>3. PICK i \in DOMAIN array : array2[j] = array[i]
    BY <2>2
  <2>4. Holds(array[i], r)
    BY <2>1, <2>3
  <2> QED
    BY <2>1, <2>3, <2>4, OutcomeHeld
<1> QED
  BY <1>1, <1>2

\* A request is in the line of its key if, and only if, it has an engine.
LEMMA InLineIs ==
  ASSUME IInv, NEW r \in Requests
  PROVE  Contract!InLine(r) <=> engine[r] # NoEngine
<1>1. ASSUME NEW k \in Keys, NEW n \in DOMAIN Lines[k], Lines[k][n] = r
      PROVE  engine[r] # NoEngine
  <2>1. Lines[k] = LineIn(schedulers, k)
    BY LinesAre DEF LinesIn
  <2>2. LineIn(schedulers, k) # <<>>
    BY <1>1, <2>1
  <2>3. PICK i \in DOMAIN schedulers : schedulers[i].key = k
    BY <2>2, LineNone
  <2>4. LineIn(schedulers, k) = LineOf(schedulers[i])
    BY <2>3, InvFacts, LineFound
  <2>5. Holds(schedulers[i], r)
    BY <1>1, <2>1, <2>4, InvFacts, LineOfFacts
  <2> QED
    BY <2>5, InvFacts, HeldFacts
<1>2. ASSUME engine[r] # NoEngine
      PROVE  \E k \in Keys : \E n \in DOMAIN Lines[k] : Lines[k][n] = r
  <2>1. PICK i \in DOMAIN schedulers : Holds(schedulers[i], r)
    BY <1>2 DEF IInv, ArrayOK
  <2>2. schedulers[i].key \in Keys
    BY InvFacts, SchedulerFields
  <2>3. Lines[schedulers[i].key] = LineOf(schedulers[i])
    BY <2>2, LinesAre, InvFacts, LineFound DEF LinesIn
  <2>4. \E n \in DOMAIN LineOf(schedulers[i]) : LineOf(schedulers[i])[n] = r
    BY <2>1, InvFacts, LineOfFacts
  <2> QED
    BY <2>2, <2>3, <2>4
<1> QED
  BY <1>1, <1>2 DEF Contract!InLine

-----------------------------------------------------------------------------
(***************************************************************************)
(* The steps of the contract.                                              *)
(***************************************************************************)
LEMMA NextFacts ==
  ASSUME IInv', UNCHANGED keyOf
  PROVE  /\ ArrayOK(schedulers', keyOf, engine', answer')
         /\ engine' \in [Requests -> Engines \cup {NoEngine}]
         /\ answer' \in [Requests -> Codes \cup {"none", "waiting", "KErrCancel"}]
BY DEF IInv, TypeOK

\* A reset allows anything.
LEMMA StopsIsNext ==
  ASSUME ~panicked, panicked', panicked' \in BOOLEAN, UNCHANGED keyOf
  PROVE  Contract!Next
BY DEF Contract!Next

LEMMA NotLost ==
  ASSUME IInv, NEW r \in Requests, engine[r] = NoEngine, answer[r] # "waiting"
  PROVE  ~Contract!InLine(r) /\ Outcomes[r] \notin {"waiting", "lost"}
<1>1. Outcomes[r] = answer[r]
  BY OutcomesAre, InvFacts, OutcomeFree
<1>2. answer[r] \in Codes \cup {"none", "waiting", "KErrCancel"}
  BY InvFacts
<1> QED
  BY <1>1, <1>2, InLineIs DEF Codes, Errors

LEMMA SubmitLeavesImplements ==
  ASSUME IInv, IInv', NEW r \in Requests, SubmitLeaves(r), UNCHANGED keyOf
  PROVE  Contract!Next
<1>1. /\ ~panicked /\ engine[r] = NoEngine /\ answer[r] # "waiting"
      /\ answer' = [answer EXCEPT ![r] = "KErrNoMemory"]
      /\ UNCHANGED <<schedulers, engine, panicked>>
  BY DEF SubmitLeaves, Requested
<1>2. Lines' = Lines
  BY <1>1, LinesAre, NextLinesAre
<1>3. \A x \in Requests : answer'[x] = IF x = r THEN "KErrNoMemory" ELSE answer[x]
  BY <1>1, InvFacts
<1>4. ASSUME NEW x \in Requests, x # r
      PROVE  OutcomeIn(schedulers', answer', x) = OutcomeIn(schedulers, answer, x)
  BY <1>1, <1>3, <1>4 DEF OutcomeIn, LostIn
<1>5. OutcomeIn(schedulers', answer', r) = "KErrNoMemory"
  <2>1. engine'[r] = NoEngine
    BY <1>1
  <2> QED
    BY <1>3, <2>1, NextFacts, OutcomeFree
<1>6. Outcomes' = [Outcomes EXCEPT ![r] = "KErrNoMemory"]
  BY <1>4, <1>5, OutcomesAre, NextLinesAre
<1>7. Contract!Reject(r)
  BY <1>1, <1>2, <1>6, NotLost DEF Contract!Reject
<1> QED
  BY <1>1, <1>7 DEF Contract!Next, Contract!Act

\* A step by which scheduler i of array, which holds r for the first time, becomes t.
LEMMA SubmitImplements ==
  ASSUME IInv, IInv', NEW r \in Requests, ~panicked, UNCHANGED <<keyOf, panicked>>,
         engine[r] = NoEngine, answer[r] # "waiting",
         NEW array, ArrayOK(array, keyOf, engine, answer), LinesIn(array) = Lines,
         \A x \in Requests : OutcomeIn(array, answer, x) = Outcomes[x],
         NEW i \in DOMAIN array, NEW t \in Schedulers, array[i].key = keyOf[r], t.key = keyOf[r],
         Changed(schedulers', array, i, t),
         LineOf(t) = Append(LineOf(array[i]), r),
         \A x \in Requests : x # r => engine'[x] = engine[x] /\ answer'[x] = answer[x],
         answer'[r] = "waiting", engine'[r] # NoEngine,
         IF t.current = r THEN array[i].current = NoRequest
         ELSE t.current = array[i].current /\ t.status = array[i].status
  PROVE  Contract!Next
<1> DEFINE s == array[i]
           k == keyOf[r]
<1>1. ArrayOK(schedulers', keyOf, engine', answer')
  BY NextFacts
<1>2. /\ s \in Schedulers /\ SchedulerOK(s, keyOf, engine, answer)
      /\ SchedulerOK(t, keyOf, engine', answer') /\ k \in Keys
  <2>1. s \in Schedulers
    BY ArrayFields DEF ArrayOK
  <2>2. i \in DOMAIN schedulers' /\ schedulers'[i] = t
    BY ChangedFacts
  <2> QED
    BY <1>1, <2>1, <2>2, InvFacts DEF ArrayOK
<1>3. Lines' = [Lines EXCEPT ![k] = Append(@, r)]
  <2>1. LinesIn(schedulers') = [LinesIn(array) EXCEPT ![t.key] = LineOf(t)]
    BY <1>1, OneChangesLines
  <2>2. Lines[k] = LineOf(s)
    <3>1. LineIn(array, k) = LineOf(s)
      BY LineFound DEF ArrayOK
    <3> QED
      BY <1>2, <3>1 DEF LinesIn
  <2> QED
    BY <2>1, <2>2, NextLinesAre
<1>4. ASSUME NEW x \in Requests, x # r
      PROVE  OutcomeIn(schedulers', answer', x) = Outcomes[x]
  <2>1. engine'[x] = engine[x] /\ answer'[x] = answer[x]
    BY <1>4
  <2>2. CASE keyOf[x] # k
    <3>1. OutcomeIn(schedulers', answer', x) = OutcomeIn(array, answer, x)
      BY <1>1, <2>1, <2>2, OthersOutcome
    <3> QED
      BY <3>1
  <2>3. CASE engine[x] = NoEngine
    <3>1. OutcomeIn(schedulers', answer', x) = IF answer'[x] = "waiting" THEN "lost" ELSE answer'[x]
      BY <1>1, <2>1, <2>3, OutcomeFree
    <3>2. OutcomeIn(array, answer, x) = IF answer[x] = "waiting" THEN "lost" ELSE answer[x]
      BY <2>3, OutcomeFree
    <3> QED
      BY <2>1, <3>1, <3>2
  <2>4. CASE keyOf[x] = k /\ engine[x] # NoEngine
    <3>1. Holds(s, x)
      BY <2>4, OneHolds
    <3>2. i \in DOMAIN schedulers' /\ schedulers'[i] = t
      BY ChangedFacts
    <3>3. Holds(t, x)
      BY <1>1, <2>1, <2>4, <3>2, OneHolds
    <3>4. s.current # NoRequest
      BY <1>2, <3>1, RequestsAssumption DEF SchedulerOK, Holds
    <3>5. t.current = s.current /\ t.status = s.status
      BY <3>4
    <3>6. OutcomeIn(array, answer, x) =
            IF answer[x] = "waiting" /\ s.current = x /\ s.status # "KRequestPending"
            THEN "lost" ELSE answer[x]
      BY <3>1, OutcomeHeld
    <3>7. OutcomeIn(schedulers', answer', x) =
            IF answer'[x] = "waiting" /\ t.current = x /\ t.status # "KRequestPending"
            THEN "lost" ELSE answer'[x]
      BY <1>1, <3>2, <3>3, OutcomeHeld
    <3> QED
      BY <2>1, <3>5, <3>6, <3>7
  <2> QED
    BY <2>2, <2>3, <2>4
<1>5. \/ OutcomeIn(schedulers', answer', r) = "waiting"
      \/ Lines[k] = <<>> /\ OutcomeIn(schedulers', answer', r) = "lost"
  <2>1. i \in DOMAIN schedulers' /\ schedulers'[i] = t
    BY ChangedFacts
  <2>2. Holds(t, r)
    BY <1>1, <2>1, OneHolds
  <2>3. OutcomeIn(schedulers', answer', r) =
          IF answer'[r] = "waiting" /\ t.current = r /\ t.status # "KRequestPending"
          THEN "lost" ELSE answer'[r]
    BY <1>1, <2>1, <2>2, OutcomeHeld
  <2>4. t.current = r => Lines[k] = <<>>
    <3>1. LineIn(array, k) = LineOf(s)
      BY LineFound DEF ArrayOK
    <3> QED
      BY <1>2, <3>1 DEF LinesIn, LineOf
  <2> QED
    BY <2>3, <2>4
<1>6. \/ Outcomes' = [Outcomes EXCEPT ![r] = "waiting"]
      \/ Lines[k] = <<>> /\ Outcomes' = [Outcomes EXCEPT ![r] = "lost"]
  <2>1. /\ Outcomes = [x \in Requests |-> OutcomeIn(schedulers, answer, x)]
        /\ Outcomes' = [x \in Requests |-> OutcomeIn(schedulers', answer', x)]
    BY OutcomesAre, NextLinesAre
  <2>2. ASSUME NEW o, OutcomeIn(schedulers', answer', r) = o
        PROVE  Outcomes' = [Outcomes EXCEPT ![r] = o]
    BY <1>4, <2>1, <2>2
  <2> QED
    BY <1>5, <2>2
<1>7. Contract!Submit(r)
  BY <1>3, <1>6, NotLost DEF Contract!Submit
<1> QED
  BY <1>7 DEF Contract!Next, Contract!Act

LEMMA SubmitBehindImplements ==
  ASSUME IInv, IInv', NEW r \in Requests, SubmitBehind(r), UNCHANGED keyOf
  PROVE  Contract!Next
<1> DEFINE i == Position(keyOf[r])
           s == schedulers[i]
           t == Queued(s, r)
<1>1. /\ ~panicked /\ engine[r] = NoEngine /\ answer[r] # "waiting"
      /\ i \in DOMAIN schedulers /\ s.key = keyOf[r] /\ IsActive(s)
      /\ schedulers' = [schedulers EXCEPT ![i] = t]
      /\ engine' = [engine EXCEPT ![r] = Idle]
      /\ answer' = [answer EXCEPT ![r] = "waiting"]
      /\ UNCHANGED <<timer, panicked>>
  BY DEF SubmitBehind, Requested, FindScheduler
<1> HIDE DEF i
<1>2. s \in Schedulers /\ SchedulerOK(s, keyOf, engine, answer)
  BY <1>1, InvFacts
<1>3. /\ \A x \in Requests : x # r => engine'[x] = engine[x] /\ answer'[x] = answer[x]
      /\ engine'[r] = Idle /\ answer'[r] = "waiting" /\ Idle # NoEngine
  BY <1>1, InvFacts DEF Idle, NoEngine
<1>4. s.current # NoRequest /\ s.current \in Requests /\ s.queue \in Seq(Requests)
  BY <1>1, <1>2, SchedulerFields DEF SchedulerOK
<1>5. /\ t.key = s.key /\ t.current = s.current /\ t.status = s.status
      /\ t.queue = Append(s.queue, r) /\ t \in Schedulers
  <2>1. Append(s.queue, r) \in Seq(Requests)
    BY <1>4
  <2> QED
    BY <1>2, <2>1 DEF Queued, Schedulers
<1>6. LineOf(t) = Append(LineOf(s), r)
  <2>1. LineOf(t) = <<s.current>> \o Append(s.queue, r) /\ LineOf(s) = <<s.current>> \o s.queue
    BY <1>4, <1>5 DEF LineOf
  <2>2. <<s.current>> \in Seq(Requests) /\ <<r>> \in Seq(Requests) /\ s.queue \in Seq(Requests)
    BY <1>4
  <2>3. Append(s.queue, r) = s.queue \o <<r>>
    BY <1>4, AppendIsConcat
  <2>4. <<s.current>> \o s.queue \in Seq(Requests)
    BY <1>4, <2>2, ConcatProperties
  <2>5. Append(<<s.current>> \o s.queue, r) = (<<s.current>> \o s.queue) \o <<r>>
    BY <2>4, AppendIsConcat
  <2>6. (<<s.current>> \o s.queue) \o <<r>> = <<s.current>> \o (s.queue \o <<r>>)
    <3> DEFINE a == <<s.current>>
               b == s.queue
               d == <<r>>
    <3>1. a \in Seq(Requests) /\ b \in Seq(Requests) /\ d \in Seq(Requests)
      BY <2>2
    <3> HIDE DEF a, b, d
    <3>2. (a \o b) \o d = a \o (b \o d)
      BY <3>1, ConcatAssociative
    <3> QED
      BY <3>2 DEF a, b, d
  <2> QED
    BY <2>1, <2>3, <2>5, <2>6
<1>7. t.current # r
  BY <1>1, <1>2, <1>4, <1>5, HeldFacts DEF Holds
<1>8. LinesIn(schedulers) = Lines /\ \A x \in Requests : OutcomeIn(schedulers, answer, x) = Outcomes[x]
  BY LinesAre, OutcomesAre
<1> HIDE DEF t
<1>9. s = schedulers[i] /\ ArrayOK(schedulers, keyOf, engine, answer) /\ engine'[r] # NoEngine
  BY <1>3, InvFacts
<1>10. Changed(schedulers', schedulers, i, t)
  BY <1>1 DEF Changed
<1> QED
  BY <1>1, <1>3, <1>5, <1>6, <1>7, <1>8, <1>9, <1>10, SubmitImplements

LEMMA SubmitFirstImplements ==
  ASSUME IInv, IInv', NEW r \in Requests, SubmitFirst(r), UNCHANGED keyOf
  PROVE  Contract!Next
<1> DEFINE array == WithScheduler(keyOf[r])
           i == Position(keyOf[r])
           s == array[i]
<1>1. /\ ~panicked /\ engine[r] = NoEngine /\ answer[r] # "waiting" /\ ~IsActive(s)
      /\ answer' = [answer EXCEPT ![r] = "waiting"]
  BY DEF SubmitFirst, Requested
<1>2. PICK err \in ConnectOutcomes(s) :
        /\ schedulers' = [array EXCEPT ![i] = Scheduled(s, r, err)]
        /\ engine' = [engine EXCEPT ![r] = Submitted(s, err)]
        /\ Panics(err)
  BY DEF SubmitFirst
<1> DEFINE t == Scheduled(s, r, err)
<1>3. /\ ArrayOK(array, keyOf, engine, answer) /\ i \in DOMAIN array /\ s.key = keyOf[r]
      /\ \A j \in DOMAIN array : array[j].current = NoRequest
                                   \/ \E m \in DOMAIN schedulers : array[j] = schedulers[m]
      /\ \A m \in DOMAIN schedulers : \E j \in DOMAIN array : array[j] = schedulers[m]
  BY InvFacts, WithSchedulerOK
<1> HIDE DEF array, i
<1>4. s \in Schedulers /\ SchedulerOK(s, keyOf, engine, answer)
  BY <1>3, ArrayFields DEF ArrayOK
<1>5. err \in {"KErrNone"} \cup Errors
  BY DEF ConnectOutcomes
<1>6. Submitted(s, err) # NoEngine
  BY <1>4, <1>5, SubmittedFacts DEF NoEngine, Engines, Calls
<1>7. /\ \A x \in Requests : x # r => engine'[x] = engine[x] /\ answer'[x] = answer[x]
      /\ engine'[r] = Submitted(s, err) /\ answer'[r] = "waiting"
  BY <1>1, <1>2, InvFacts
<1>8. s.queue = <<>> /\ s.current = NoRequest
  BY <1>1, <1>4 DEF SchedulerOK
<1>9. t.key = s.key /\ t.current = r /\ t.queue = <<>>
  BY <1>4, <1>8 DEF Scheduled, Schedulers
<1>10. t \in Schedulers
  <2>1. schedulers' \in Seq(Schedulers)
    BY NextFacts DEF ArrayOK
  <2>2. i \in DOMAIN schedulers' /\ schedulers'[i] = t
    BY <1>2, <1>3 DEF ArrayOK
  <2> QED
    BY <2>1, <2>2, ArrayFields
<1>11. LineOf(t) = Append(LineOf(s), r)
  <2>1. LineOf(t) = <<r>> \o <<>> /\ LineOf(s) = <<>> /\ r # NoRequest
    BY <1>8, <1>9, RequestsAssumption DEF LineOf
  <2>2. <<r>> \o <<>> = <<r>> /\ Append(<<>>, r) = <<r>>
    OBVIOUS
  <2> QED
    BY <2>1, <2>2
<1>12. LinesIn(array) = Lines
  BY <1>3, InvFacts, LinesAre, IdleLines
<1>13. \A x \in Requests : OutcomeIn(array, answer, x) = Outcomes[x]
  BY <1>3, InvFacts, OutcomesAre, IdleOutcomes
<1>14. CASE err = "KErrGeneral"
  BY <1>1, <1>2, <1>14, StopsIsNext DEF Panics
<1>15. CASE err # "KErrGeneral"
  <2>1. panicked' = panicked
    BY <1>1, <1>2, <1>15, InvFacts DEF Panics
  <2>2. s = array[i] /\ Changed(schedulers', array, i, t)
    BY <1>2 DEF Changed
  <2> HIDE DEF t, s
  <2> QED
    <3>1. /\ ~panicked /\ UNCHANGED <<keyOf, panicked>> /\ engine[r] = NoEngine /\ answer[r] # "waiting"
          /\ s.key = keyOf[r] /\ t.key = keyOf[r] /\ t.current = r /\ s.current = NoRequest
          /\ answer'[r] = "waiting" /\ engine'[r] # NoEngine
      BY <1>1, <1>3, <1>6, <1>7, <1>8, <1>9, <2>1
    <3>2. \A x \in Requests : x # r => engine'[x] = engine[x] /\ answer'[x] = answer[x]
      BY <1>7
    <3> QED
      BY <1>3, <1>10, <1>11, <1>12, <1>13, <2>2, <3>1, <3>2, SubmitImplements
<1> QED
  BY <1>14, <1>15

\* A step of the engine of a current request: it may answer it, once.
LEMMA EngineImplements ==
  ASSUME IInv, IInv', NEW r \in Requests, IsCurrent(r), UNCHANGED <<keyOf, panicked>>,
         NEW t \in Schedulers, t.key = schedulers[Place(r)].key, t.current = r,
         t.queue = schedulers[Place(r)].queue,
         Changed(schedulers', schedulers, Place(r), t),
         NEW a, \A x \in Requests : answer'[x] = IF x = r THEN a ELSE answer[x],
         \A x \in Requests : x # r => engine'[x] = engine[x],
         schedulers[Place(r)].status = "KRequestPending",
         \/ a = answer[r] /\ (t.status = "KRequestPending" \/ a # "waiting")
         \/ answer[r] = "waiting" /\ a \in {"KErrNone", "KErrNotSupported", "KErrNoMemory"}
  PROVE  [Contract!Next]_(Contract!cvars)
<1> DEFINE i == Place(r)
           s == schedulers[i]
<1>1. /\ i \in DOMAIN schedulers /\ s.current = r /\ s.key = keyOf[r] /\ r # NoRequest
      /\ s \in Schedulers /\ SchedulerOK(s, keyOf, engine, answer) /\ ~panicked
  BY CurrentFacts, InvFacts DEF IsCurrent
<1>2. ArrayOK(schedulers', keyOf, engine', answer') /\ ArrayOK(schedulers, keyOf, engine, answer)
  BY NextFacts, InvFacts
<1>3. /\ DOMAIN schedulers' = DOMAIN schedulers /\ schedulers'[i] = t
      /\ SchedulerOK(t, keyOf, engine', answer')
  <2>1. DOMAIN schedulers' = DOMAIN schedulers /\ schedulers'[i] = t
    BY <1>1 DEF Changed
  <2> QED
    BY <1>1, <1>2, <2>1 DEF ArrayOK
<1> HIDE DEF i
<1>4. Changed(schedulers', schedulers, i, t)
  BY DEF i
<1>5. s.key \in Keys /\ t.key = s.key /\ LineOf(t) = LineOf(s) /\ LineOf(s) # <<>> /\ Head(LineOf(s)) = r
  <2>1. t.queue = s.queue /\ t.key = s.key
    BY DEF i
  <2>2. LineOf(t) = LineOf(s)
    BY <1>1, <2>1 DEF LineOf
  <2> QED
    BY <1>1, <2>1, <2>2, SchedulerFields, LineOfFacts
<1>6. Lines[s.key] = LineOf(s)
  BY <1>1, <1>5, InvFacts, LinesAre, LineFound DEF LinesIn
<1>7. Lines' = Lines
  <2>1. LinesIn(schedulers') = [LinesIn(schedulers) EXCEPT ![t.key] = LineOf(t)]
    BY <1>1, <1>2, <1>4, <1>5, OneChangesLines
  <2> QED
    BY <1>5, <1>6, <2>1, LinesAre, NextLinesAre DEF LinesIn
<1>8. ASSUME NEW x \in Requests, x # r
      PROVE  OutcomeIn(schedulers', answer', x) = Outcomes[x]
  <2>1. engine'[x] = engine[x] /\ answer'[x] = answer[x]
    BY <1>8
  <2>2. Outcomes[x] = OutcomeIn(schedulers, answer, x)
    BY OutcomesAre
  <2>3. CASE keyOf[x] # s.key
    BY <1>1, <1>2, <1>4, <1>5, <2>1, <2>2, <2>3, OthersOutcome
  <2>4. CASE engine[x] = NoEngine
    BY <1>2, <2>1, <2>2, <2>4, OutcomeFree
  <2>5. CASE keyOf[x] = s.key /\ engine[x] # NoEngine
    <3>1. Holds(s, x)
      BY <1>1, <1>2, <2>5, OneHolds
    <3>2. Holds(t, x)
      BY <1>1, <1>2, <1>3, <1>5, <2>1, <2>5, OneHolds
    <3>3. OutcomeIn(schedulers, answer, x) = answer[x]
      BY <1>1, <1>2, <1>8, <3>1, OutcomeHeld
    <3>4. OutcomeIn(schedulers', answer', x) = answer'[x]
      BY <1>2, <1>3, <1>1, <1>8, <3>2, OutcomeHeld
    <3> QED
      BY <2>1, <2>2, <3>3, <3>4
  <2> QED
    BY <2>3, <2>4, <2>5
<1>9. Outcomes[r] = answer[r]
  <2>1. Holds(s, r)
    BY <1>1 DEF Holds
  <2>2. s.status = "KRequestPending"
    BY DEF i
  <2>3. OutcomeIn(schedulers, answer, r) = answer[r]
    BY <1>1, <1>2, <2>1, <2>2, OutcomeHeld
  <2> QED
    BY <2>3, OutcomesAre
<1>10. answer'[r] = a
  OBVIOUS
<1>11. OutcomeIn(schedulers', answer', r) =
         IF a = "waiting" /\ t.status # "KRequestPending" THEN "lost" ELSE a
  <2>1. Holds(t, r)
    BY DEF Holds
  <2> QED
    BY <1>1, <1>2, <1>3, <1>10, <2>1, OutcomeHeld
<1>12. OutcomeIn(schedulers', answer', r) = a
  BY <1>11
<1>13. CASE a = answer[r]
  <2>1. Outcomes' = Outcomes
    BY <1>8, <1>9, <1>12, <1>13, OutcomesAre, NextLinesAre
  <2> QED
    BY <1>7, <2>1 DEF Contract!cvars
<1>14. CASE answer[r] = "waiting" /\ a \in {"KErrNone", "KErrNotSupported", "KErrNoMemory"}
  <2>1. Outcomes' = [Outcomes EXCEPT ![r] = a]
    BY <1>8, <1>12, OutcomesAre, NextLinesAre
  <2>2. r \in Contract!First(s.key) /\ a \in Contract!Refusals \cup {"KErrNone"}
    BY <1>5, <1>6, <1>14 DEF Contract!First, Contract!Refusals
  <2>3. Contract!Answer(s.key)
    BY <1>7, <1>9, <1>14, <2>1, <2>2 DEF Contract!Answer
  <2> QED
    BY <1>1, <1>5, <2>3 DEF Contract!Next, Contract!Act
<1> QED
  BY <1>13, <1>14

\* The engine's steps, each as such a step.
LEMMA RunErrorImplements ==
  ASSUME IInv, IInv', NEW r \in Requests, IsCurrent(r), RunError(r), UNCHANGED keyOf,
         engine[r].status # "idle"
  PROVE  [Contract!Next]_(Contract!cvars)
<1> DEFINE i == Place(r)
           s == schedulers[i]
           t == [s EXCEPT !.status = "KErrNoMemory"]
           a == Failed(r)
<1>1. /\ s \in Schedulers /\ s.current = r /\ s.status = "KRequestPending"
      /\ engine \in [Requests -> Engines \cup {NoEngine}]
      /\ answer \in [Requests -> Codes \cup {"none", "waiting", "KErrCancel"}]
  BY CurrentFacts DEF CurrentOK
<1>2. Changed(schedulers', schedulers, i, t) /\ UNCHANGED panicked
  BY DEF RunError, Ends, Changed
<1>3. /\ \A x \in Requests : answer'[x] = IF x = r THEN a ELSE answer[x]
      /\ \A x \in Requests : x # r => engine'[x] = engine[x]
  BY <1>1 DEF RunError
<1>4. /\ t \in Schedulers /\ t.key = s.key /\ t.current = r /\ t.queue = s.queue
  BY <1>1 DEF Schedulers, Codes, Errors
<1>5. \/ a = answer[r] /\ a # "waiting"
      \/ answer[r] = "waiting" /\ a \in {"KErrNone", "KErrNotSupported", "KErrNoMemory"}
  BY DEF Failed, Completed
<1>6. s.status = "KRequestPending"
  BY <1>1
<1> HIDE DEF t, a
<1> QED
  BY <1>2, <1>3, <1>4, <1>5, <1>6, EngineImplements

\* What an engine does but for its scheduler's status leaves no message behind.
LEMMA GoesImplements ==
  ASSUME IInv, IInv', NEW r \in Requests, IsCurrent(r), UNCHANGED <<keyOf, panicked, answer>>,
         NEW t \in Schedulers, t.key = schedulers[Place(r)].key, t.current = r,
         t.queue = schedulers[Place(r)].queue,
         Changed(schedulers', schedulers, Place(r), t),
         \E e : engine' = [engine EXCEPT ![r] = e],
         engine[r].status # "idle",
         t.status # schedulers[Place(r)].status => answer[r] = "KErrNone"
  PROVE  [Contract!Next]_(Contract!cvars)
<1>1. /\ engine \in [Requests -> Engines \cup {NoEngine}]
      /\ answer \in [Requests -> Codes \cup {"none", "waiting", "KErrCancel"}]
      /\ schedulers[Place(r)].status = "KRequestPending"
  BY CurrentFacts DEF CurrentOK
<1>2. /\ \A x \in Requests : answer'[x] = IF x = r THEN answer[r] ELSE answer[x]
      /\ \A x \in Requests : x # r => engine'[x] = engine[x]
  BY <1>1
<1> QED
  BY <1>1, <1>2, EngineImplements

LEMMA EngineRunLImplements ==
  ASSUME IInv, IInv', NEW r \in Requests, EngineRunL(r), UNCHANGED keyOf
  PROVE  [Contract!Next]_(Contract!cvars)
<1> DEFINE i == Place(r)
           s == schedulers[i]
<1>1. IsCurrent(r) /\ engine[r].status # "idle" /\ ~panicked
  BY DEF EngineRunL, EngineFails, EnginePanics, ConnectCle, ConnectCleFails, Initialize,
         InitializeLeaves, Allowed, NotAllowed, PrepareCommandList, ExecuteCommandList, HandleCleReturnValue,
         TransitionComplete, RunsWell, Runs, IsCurrent
<1>2. /\ i \in DOMAIN schedulers /\ s \in Schedulers /\ s.current = r
      /\ s.status = "KRequestPending" /\ CurrentOK(s, engine[r], answer[r])
      /\ engine \in [Requests -> Engines \cup {NoEngine}]
      /\ answer \in [Requests -> Codes \cup {"none", "waiting", "KErrCancel"}]
  BY <1>1, CurrentFacts DEF CurrentOK
<1>3. CASE EngineFails(r) \/ ConnectCleFails(r)
  BY <1>1, <1>3, RunErrorImplements DEF EngineFails, ConnectCleFails
<1>4. CASE EnginePanics(r)
  BY <1>1, <1>4, StopsIsNext DEF EnginePanics
<1>5. CASE ConnectCle(r)
  <2> DEFINE t == [s EXCEPT !.cle = TRUE]
  <2>1. /\ t \in Schedulers /\ t.key = s.key /\ t.current = r /\ t.queue = s.queue
        /\ t.status = s.status
    BY <1>2 DEF Schedulers
  <2>2. Changed(schedulers', schedulers, i, t)
    BY <1>5 DEF ConnectCle, Changed
  <2>3. \E e : engine' = [engine EXCEPT ![r] = e]
    BY <1>5 DEF ConnectCle, Goes
  <2>4. UNCHANGED <<answer, panicked>>
    BY <1>5 DEF ConnectCle
  <2> HIDE DEF t
  <2> QED
    BY <1>1, <2>1, <2>2, <2>3, <2>4, GoesImplements
<1>6. CASE Initialize(r) \/ PrepareCommandList(r) \/ ExecuteCommandList(r)
  <2>1. PICK step \in Steps : schedulers' = [schedulers EXCEPT ![i].step = step]
    <3>1. /\ StepOf(r, "EInitialize") \in Steps /\ StepOf(r, "EPrepareCommandList") \in Steps
          /\ "ECallCommandList" \in Steps
      BY DEF StepOf, Steps
    <3> QED
      BY <1>6, <3>1 DEF Initialize, PrepareCommandList, ExecuteCommandList
  <2> DEFINE t == [s EXCEPT !.step = step]
  <2>2. /\ t \in Schedulers /\ t.key = s.key /\ t.current = r /\ t.queue = s.queue
        /\ t.status = s.status
    BY <1>2 DEF Schedulers
  <2>3. Changed(schedulers', schedulers, i, t)
    BY <2>1 DEF Changed
  <2>4. \E e : engine' = [engine EXCEPT ![r] = e]
    BY <1>6 DEF Initialize, PrepareCommandList, ExecuteCommandList, Goes
  <2>5. UNCHANGED <<answer, panicked>>
    BY <1>6 DEF Initialize, PrepareCommandList, ExecuteCommandList
  <2> HIDE DEF t
  <2> QED
    BY <1>1, <2>2, <2>3, <2>4, <2>5, GoesImplements
<1>7. CASE HandleCleReturnValue(r)
  <2> DEFINE step == StepOf(r, "EHandleCleReturnValue")
  <2>0. step \in Steps
    BY DEF StepOf, Steps
  <2>1. PICK cle \in BOOLEAN :
          schedulers' = [schedulers EXCEPT ![i] = [s EXCEPT !.step = step, !.cle = cle]]
    <3>1. s.cle \in BOOLEAN
      BY <1>2, SchedulerFields
    <3>2. schedulers' = [schedulers EXCEPT ![i] =
            [s EXCEPT !.step = step,
                      !.cle = @ /\ engine[r].status # "KErrServerTerminated"]]
      BY <1>7, <1>2 DEF HandleCleReturnValue
    <3> QED
      BY <3>1, <3>2
  <2> HIDE DEF step
  <2> DEFINE t == [s EXCEPT !.step = step, !.cle = cle]
  <2>2. /\ t \in Schedulers /\ t.key = s.key /\ t.current = r /\ t.queue = s.queue
        /\ t.status = s.status
    BY <1>2, <2>0 DEF Schedulers
  <2>3. Changed(schedulers', schedulers, i, t)
    BY <2>1 DEF Changed
  <2>4. \E e : engine' = [engine EXCEPT ![r] = e]
    BY <1>7 DEF HandleCleReturnValue, Goes
  <2>5. UNCHANGED <<answer, panicked>>
    BY <1>7 DEF HandleCleReturnValue
  <2> HIDE DEF t
  <2> QED
    BY <1>1, <2>2, <2>3, <2>4, <2>5, GoesImplements
<1>8. CASE TransitionComplete(r)
  <2> DEFINE t == [s EXCEPT !.status = "KErrNone"]
  <2>1. t \in Schedulers /\ t.key = s.key /\ t.current = r /\ t.queue = s.queue
    BY <1>2 DEF Schedulers, Codes
  <2>2. Changed(schedulers', schedulers, i, t)
    BY <1>8 DEF TransitionComplete, Ends, Changed
  <2>3. \E e : engine' = [engine EXCEPT ![r] = e]
    BY <1>8 DEF TransitionComplete, Goes
  <2>4. UNCHANGED <<answer, panicked>>
    BY <1>8 DEF TransitionComplete
  <2>5. answer[r] = "KErrNone"
    BY <1>2, <1>8 DEF TransitionComplete, CurrentOK, InTransitionActions
  <2> HIDE DEF t
  <2> QED
    BY <1>1, <2>1, <2>2, <2>3, <2>4, <2>5, GoesImplements
<1>9. CASE Allowed(r)
  <2>1. Changed(schedulers', schedulers, i, s)
    BY <1>1, <1>9, Unchanged DEF Allowed, Changed
  <2>2. /\ \A x \in Requests : answer'[x] = IF x = r THEN Completed(r, "KErrNone") ELSE answer[x]
        /\ \A x \in Requests : x # r => engine'[x] = engine[x]
        /\ UNCHANGED panicked
    BY <1>2, <1>9 DEF Allowed, Goes
  <2>3. \/ Completed(r, "KErrNone") = answer[r]
        \/ answer[r] = "waiting" /\ Completed(r, "KErrNone") = "KErrNone"
    BY DEF Completed
  <2> DEFINE a == Completed(r, "KErrNone")
  <2> HIDE DEF a
  <2> QED
    BY <1>1, <1>2, <2>1, <2>2, <2>3, EngineImplements DEF a
<1>10. CASE NotAllowed(r)
  <2> DEFINE t == [s EXCEPT !.status = "KErrNotSupported"]
             a == Completed(r, "KErrNotSupported")
  <2>1. t \in Schedulers /\ t.key = s.key /\ t.current = r /\ t.queue = s.queue
    BY <1>2 DEF Schedulers, Codes
  <2>2. Changed(schedulers', schedulers, i, t)
    BY <1>10 DEF NotAllowed, Ends, Changed
  <2>3. /\ \A x \in Requests : answer'[x] = IF x = r THEN a ELSE answer[x]
        /\ \A x \in Requests : x # r => engine'[x] = engine[x]
        /\ UNCHANGED panicked
    BY <1>2, <1>10 DEF NotAllowed, Goes
  <2>4. \/ a = answer[r] /\ a # "waiting"
        \/ answer[r] = "waiting" /\ a \in {"KErrNone", "KErrNotSupported", "KErrNoMemory"}
    BY DEF Completed
  <2> HIDE DEF t, a
  <2> QED
    BY <1>1, <1>2, <2>1, <2>2, <2>3, <2>4, EngineImplements
<1>11. CASE InitializeLeaves(r)
  <2>1. Changed(schedulers', schedulers, i, s)
    BY <1>1, <1>11, Unchanged DEF InitializeLeaves, Changed
  <2>2. \E e : engine' = [engine EXCEPT ![r] = e]
    BY <1>11 DEF InitializeLeaves, Goes
  <2>3. UNCHANGED <<answer, panicked>>
    BY <1>11 DEF InitializeLeaves
  <2> QED
    BY <1>1, <1>2, <2>1, <2>2, <2>3, GoesImplements
<1> QED
  BY <1>3, <1>4, <1>5, <1>6, <1>7, <1>8, <1>9, <1>10, <1>11 DEF EngineRunL

LEMMA ReturnsImplements ==
  ASSUME IInv, IInv', NEW r \in Requests, NEW code \in Codes, Returns(r, code), UNCHANGED keyOf
  PROVE  [Contract!Next]_(Contract!cvars)
<1> DEFINE i == Place(r)
           s == schedulers[i]
           step == IF engine[r].next = "EWaitForHandleCleReturnValue" THEN StepOf(r, "none")
                   ELSE s.step
           t == [s EXCEPT !.step = step]
<1>1. IsCurrent(r) /\ engine[r].status # "idle" /\ UNCHANGED <<answer, panicked>>
  BY DEF Returns
<1>2. i \in DOMAIN schedulers /\ s \in Schedulers /\ s.current = r
  BY <1>1, CurrentFacts
<1>3. step \in Steps
  BY <1>2, SchedulerFields DEF StepOf, Steps
<1>4. Changed(schedulers', schedulers, i, t)
  BY <1>2 DEF Returns, Changed
<1> HIDE DEF step
<1>5. /\ t \in Schedulers /\ t.key = s.key /\ t.current = r /\ t.queue = s.queue
      /\ t.status = s.status
  BY <1>2, <1>3 DEF Schedulers
<1>6. \E e : engine' = [engine EXCEPT ![r] = e]
  BY DEF Returns
<1> HIDE DEF t
<1> QED
  BY <1>1, <1>4, <1>5, <1>6, GoesImplements

\* A sequence is its head before its tail.
LEMMA HeadBeforeTail ==
  ASSUME NEW S, NEW q \in Seq(S), q # <<>>
  PROVE  q[1] \in S /\ 1 \in DOMAIN q /\ Head(q) = q[1] /\ <<Head(q)>> \o Tail(q) = q
<1> DEFINE one == <<Head(q)>>
           rest == Tail(q)
           all == one \o rest
<1>1. Len(q) \in Nat /\ DOMAIN q = 1..Len(q)
  BY LenProperties
<1>2. /\ Len(q) >= 1 /\ Head(q) = q[1] /\ rest \in Seq(S) /\ Len(rest) = Len(q) - 1
      /\ \A n \in 1..Len(rest) : rest[n] = q[n + 1]
  BY <1>1, HeadTailProperties, EmptySeq
<1>3. 1 \in DOMAIN q /\ q[1] \in S
  BY <1>1, <1>2, ElementOfSeq
<1>4. one \in Seq(S) /\ Len(one) = 1 /\ one[1] = q[1]
  BY <1>2, <1>3
<1>5. one \in Seq(S)
  BY <1>4
<1>6. rest \in Seq(S)
  BY <1>2
<1> HIDE DEF one, rest
<1>7. /\ all \in Seq(S) /\ Len(all) = Len(one) + Len(rest)
      /\ \A n \in 1..(Len(one) + Len(rest)) :
           all[n] = IF n <= Len(one) THEN one[n] ELSE rest[n - Len(one)]
  BY <1>5, <1>6, ConcatProperties
<1> HIDE DEF all
<1>8. Len(one) + Len(rest) = Len(q)
  BY <1>1, <1>2, <1>4
<1>9. ASSUME NEW n \in 1..Len(q) PROVE all[n] = q[n]
  <2>1. CASE n = 1
    BY <1>4, <1>7, <1>8, <2>1
  <2>2. CASE n # 1
    <3>1. n > 1 /\ n - 1 \in 1..(Len(q) - 1) /\ (n - 1) + 1 = n
      BY <1>1, <2>2
    <3>2. all[n] = rest[n - 1]
      BY <1>4, <1>7, <1>8, <3>1
    <3>3. rest[n - 1] = q[(n - 1) + 1]
      BY <1>2, <3>1
    <3> QED
      BY <3>1, <3>2, <3>3
  <2> QED
    BY <2>1, <2>2
<1>10. all = q
  BY <1>7, <1>8, <1>9, SeqEqual
<1> QED
  BY <1>2, <1>3, <1>10 DEF all, one, rest

\* The next one in the queue becomes the current one.
LEMMA TakenFacts ==
  ASSUME NEW s \in Schedulers, NEW err, NEW t, t = TakeNext(s, err)
  PROVE  /\ t.key = s.key /\ LineOf(t) = s.queue
         /\ s.queue = <<>> => t.current = NoRequest /\ t.queue = <<>>
         /\ s.queue # <<>> =>
              /\ 1 \in DOMAIN s.queue /\ s.queue[1] = t.current
              /\ t.current = Head(s.queue) /\ t.current \in Requests
              /\ t.status = IF err = "KErrNone" THEN "KRequestPending" ELSE err
<1>1. s.queue \in Seq(Requests)
  BY SchedulerFields
<1>2. CASE s.queue = <<>>
  BY <1>2 DEF TakeNext, Schedulers, LineOf
<1>3. CASE s.queue # <<>>
  <2>1. /\ t.key = s.key /\ t.current = Head(s.queue) /\ t.queue = Tail(s.queue)
        /\ t.status = IF err = "KErrNone" THEN "KRequestPending" ELSE err
    BY <1>3 DEF TakeNext, Scheduled, Schedulers
  <2>2. /\ s.queue[1] \in Requests /\ 1 \in DOMAIN s.queue /\ Head(s.queue) = s.queue[1]
        /\ <<Head(s.queue)>> \o Tail(s.queue) = s.queue
    BY <1>1, <1>3, HeadBeforeTail
  <2>3. t.current # NoRequest
    BY <2>1, <2>2, RequestsAssumption
  <2>4. LineOf(t) = s.queue
    BY <2>1, <2>2, <2>3 DEF LineOf
  <2> QED
    BY <1>3, <2>1, <2>2, <2>4
<1> QED
  BY <1>2, <1>3

\* What is known of a request in the queue: it is waiting, and it may be the next.
LEMMA QueuedOutcome ==
  ASSUME NEW array, NEW keys, NEW eng, NEW ans, ArrayOK(array, keys, eng, ans),
         NEW i \in DOMAIN array, NEW n \in DOMAIN array[i].queue
  PROVE  /\ array[i].queue[n] \in Requests /\ Holds(array[i], array[i].queue[n])
         /\ array[i].queue[n] # array[i].current /\ ans[array[i].queue[n]] = "waiting"
         /\ OutcomeIn(array, ans, array[i].queue[n]) = "waiting"
<1>1. array[i] \in Schedulers /\ SchedulerOK(array[i], keys, eng, ans)
  BY ArrayFields DEF ArrayOK
<1>2. array[i].queue \in Seq(Requests)
  BY <1>1, SchedulerFields
<1>3. array[i].queue[n] \in Requests
  BY <1>2, LenProperties, ElementOfSeq
<1>4. Holds(array[i], array[i].queue[n])
  BY DEF Holds
<1>5. array[i].queue[n] # array[i].current /\ ans[array[i].queue[n]] = "waiting"
  BY <1>1 DEF SchedulerOK
<1>6. OutcomeIn(array, ans, array[i].queue[n]) = "waiting"
  BY <1>3, <1>4, <1>5, OutcomeHeld
<1> QED
  BY <1>3, <1>4, <1>5, <1>6

LEMMA SchedulerRunLImplements ==
  ASSUME IInv, IInv', NEW r \in Requests, SchedulerRunL(r), UNCHANGED keyOf
  PROVE  Contract!Next
<1> DEFINE i == Place(r)
           s == schedulers[i]
           k == s.key
<1>1. /\ i \in DOMAIN schedulers /\ s \in Schedulers /\ s.current = r /\ s.key = keyOf[r]
      /\ SchedulerOK(s, keyOf, engine, answer) /\ ~panicked
      /\ s.status \notin {"idle", "KRequestPending"} /\ r # NoRequest
  BY CurrentFacts, InvFacts DEF SchedulerRunL, IsCurrent
<1>2. PICK err \in NextOutcomes(s) :
        /\ schedulers' = [schedulers EXCEPT ![i] = TakeNext(s, err)]
        /\ engine' = [x \in Requests |->
             IF Holds(s, x) THEN EngineAfter(s, TakeNext(s, err), x, err) ELSE engine[x]]
        /\ answer' = [x \in Requests |-> AnswerAfter(s, TakeNext(s, err), x, err)]
        /\ Panics(err)
  BY DEF SchedulerRunL
<1> DEFINE t == TakeNext(s, err)
<1>3. err \in {"KErrNone"} \cup Errors /\ (s.queue = <<>> => err = "KErrNone")
  BY DEF NextOutcomes, ConnectOutcomes
<1>4. CASE err = "KErrGeneral"
  BY <1>1, <1>2, <1>4, StopsIsNext DEF Panics
<1>5. CASE err # "KErrGeneral"
  <2>1. UNCHANGED panicked /\ err \in {"KErrNone", "KErrNoMemory"}
    BY <1>1, <1>2, <1>3, <1>5, InvFacts DEF Panics, Errors
  <2>2. /\ Changed(schedulers', schedulers, i, t)
        /\ DOMAIN schedulers' = DOMAIN schedulers /\ schedulers'[i] = t
    BY <1>1, <1>2 DEF Changed
  <2>3. \A x \in Requests :
          /\ Holds(s, x) => engine'[x] = EngineAfter(s, t, x, err)
          /\ ~Holds(s, x) => engine'[x] = engine[x]
          /\ answer'[x] = AnswerAfter(s, t, x, err)
    BY <1>2
  <2> DEFINE u == s.queue
  <2>4. t = TakeNext(s, err)
    OBVIOUS
  <2>5. \A x \in Requests : Holds(t, x) <=> \E n \in DOMAIN s.queue : s.queue[n] = x
    BY <1>1, QueueHeld
  <2> HIDE DEF t, i
  <2>6. /\ t.key = s.key /\ LineOf(t) = s.queue
        /\ s.queue = <<>> => t.current = NoRequest /\ t.queue = <<>>
        /\ s.queue # <<>> =>
              /\ 1 \in DOMAIN s.queue /\ s.queue[1] = t.current
              /\ t.current = Head(s.queue) /\ t.current \in Requests
              /\ t.status = IF err = "KErrNone" THEN "KRequestPending" ELSE err
    BY <1>1, <2>4, TakenFacts
  <2>7. /\ ArrayOK(schedulers', keyOf, engine', answer')
        /\ ArrayOK(schedulers, keyOf, engine, answer)
    BY NextFacts, InvFacts
  <2>8. t \in Schedulers /\ SchedulerOK(t, keyOf, engine', answer')
    BY <1>1, <2>2, <2>7, ArrayFields DEF ArrayOK
  <2>9. /\ k \in Keys /\ Lines[k] = LineOf(s) /\ LineOf(s) # <<>>
        /\ Head(LineOf(s)) = r /\ Tail(LineOf(s)) = s.queue
    <3>1. k \in Keys
      BY <1>1, SchedulerFields
    <3> QED
      BY <1>1, <3>1, InvFacts, LinesAre, LineFound, LineOfFacts DEF LinesIn
  <2>10. Lines' = [Lines EXCEPT ![k] = Tail(@)]
    <3>1. LinesIn(schedulers') = [LinesIn(schedulers) EXCEPT ![t.key] = LineOf(t)]
      BY <1>1, <2>2, <2>6, <2>7, <2>8, OneChangesLines
    <3> QED
      BY <2>6, <2>9, <3>1, LinesAre, NextLinesAre
  <2>11. Contract!First(k) = {r}
    BY <2>9 DEF Contract!First
  <2>12. \A n \in DOMAIN s.queue :
           /\ s.queue[n] \in Requests /\ Holds(s, s.queue[n]) /\ s.queue[n] # r
           /\ answer[s.queue[n]] = "waiting" /\ Outcomes[s.queue[n]] = "waiting"
    <3> SUFFICES ASSUME NEW n \in DOMAIN s.queue
                 PROVE  /\ s.queue[n] \in Requests /\ Holds(s, s.queue[n]) /\ s.queue[n] # r
                        /\ answer[s.queue[n]] = "waiting" /\ Outcomes[s.queue[n]] = "waiting"
      OBVIOUS
    <3>1. /\ s.queue[n] \in Requests /\ Holds(s, s.queue[n]) /\ s.queue[n] # s.current
          /\ answer[s.queue[n]] = "waiting"
          /\ OutcomeIn(schedulers, answer, s.queue[n]) = "waiting"
      BY <1>1, <2>7, QueuedOutcome
    <3> QED
      BY <1>1, <3>1, OutcomesAre
  <2>13. Holds(s, r) /\ ~Holds(t, r)
    BY <1>1, <2>5, <2>12 DEF Holds
  <2>14. Outcomes[r] = IF answer[r] = "waiting" THEN "lost" ELSE answer[r]
    <3>1. OutcomeIn(schedulers, answer, r) = IF answer[r] = "waiting" THEN "lost" ELSE answer[r]
      BY <1>1, <2>7, <2>13, OutcomeHeld
    <3> QED
      BY <3>1, OutcomesAre
  <2> DEFINE failed == IF s.queue # <<>> /\ err = "KErrNoMemory" THEN {Head(s.queue)} ELSE {}
  <2>15. failed \in SUBSET Contract!NewFirst
    <3>1. CASE s.queue # <<>>
      <4>1. Lines'[k] = s.queue
        <5>1. k \in DOMAIN Lines
          BY <2>9 DEF Lines
        <5> QED
          BY <2>9, <2>10, <5>1
      <4>2. Head(Lines'[k]) \notin Contract!First(k)
        BY <2>6, <2>11, <2>12, <3>1, <4>1
      <4> QED
        BY <2>9, <3>1, <4>1, <4>2 DEF Contract!NewFirst
    <3>2. CASE s.queue = <<>>
      BY <3>2
    <3> QED
      BY <3>1, <3>2
  <2>16. ASSUME NEW x \in Requests
         PROVE  OutcomeIn(schedulers', answer', x) =
                  IF x \in failed THEN "KErrNoMemory" ELSE Outcomes[x]
    <3>1. Outcomes[x] = OutcomeIn(schedulers, answer, x)
      BY OutcomesAre
    <3>2. CASE x = r
      <4>1. engine'[x] = NoEngine
        BY <2>3, <2>13, <3>2 DEF EngineAfter
      <4>2. answer'[x] = answer[x]
        BY <2>3, <2>13, <3>2 DEF AnswerAfter, Begins, Holds
      <4>3. x \notin failed
        BY <2>6, <2>12, <3>2
      <4>4. OutcomeIn(schedulers', answer', x) = IF answer'[x] = "waiting" THEN "lost" ELSE answer'[x]
        BY <2>7, <4>1, OutcomeFree
      <4> QED
        BY <2>14, <3>2, <4>2, <4>3, <4>4
    <3>3. CASE \E n \in DOMAIN s.queue : s.queue[n] = x
      <4>1. /\ Outcomes[x] = "waiting" /\ answer[x] = "waiting" /\ Holds(t, x) /\ x # r
            /\ s.queue # <<>>
        BY <2>5, <2>12, <3>3
      <4>2. OutcomeIn(schedulers', answer', x) =
              IF answer'[x] = "waiting" /\ t.current = x /\ t.status # "KRequestPending"
              THEN "lost" ELSE answer'[x]
        BY <1>1, <2>2, <2>7, <4>1, OutcomeHeld
      <4>3. answer'[x] = IF t.current = x /\ err = "KErrNoMemory" THEN "KErrNoMemory" ELSE "waiting"
        BY <1>1, <2>3, <4>1 DEF AnswerAfter, Begins, Failed, Completed
      <4>4. x \in failed <=> t.current = x /\ err = "KErrNoMemory"
        BY <2>6, <4>1
      <4> HIDE DEF failed
      <4>5. CASE err = "KErrNoMemory"
        BY <4>1, <4>2, <4>3, <4>4, <4>5
      <4>6. CASE err = "KErrNone"
        BY <2>6, <4>1, <4>2, <4>3, <4>4, <4>6
      <4> QED
        BY <2>1, <4>5, <4>6
    <3>4. CASE ~Holds(s, x)
      <4>1. ~Holds(t, x) /\ x \notin failed
        BY <2>5, <2>6, <3>4 DEF Holds
      <4>2. engine'[x] = engine[x] /\ answer'[x] = answer[x]
        BY <2>3, <3>4, <4>1 DEF AnswerAfter, Begins, Holds
      <4>3. CASE keyOf[x] # s.key
        BY <1>1, <2>2, <2>6, <2>7, <2>8, <3>1, <4>1, <4>2, <4>3, OthersOutcome
      <4>4. CASE keyOf[x] = s.key
        <5>1. engine[x] = NoEngine
          BY <1>1, <2>7, <3>4, <4>4, OneHolds
        <5> QED
          BY <2>7, <3>1, <4>1, <4>2, <5>1, OutcomeFree
      <4> QED
        BY <4>3, <4>4
    <3> QED
      BY <1>1, <3>2, <3>3, <3>4 DEF Holds
  <2> HIDE DEF failed
  <2>17. Outcomes' = [x \in Requests |-> IF x \in failed THEN "KErrNoMemory" ELSE Outcomes[x]]
    BY <2>16, NextLinesAre
  <2>18. Contract!Tell(Outcomes)
    BY <2>15, <2>17 DEF Contract!Tell
  <2>19. Contract!Leave(k)
    BY <2>10, <2>11, <2>14, <2>18 DEF Contract!Leave
  <2> QED
    BY <1>1, <2>1, <2>9, <2>19 DEF Contract!Next, Contract!Act
<1> QED
  BY <1>4, <1>5

\* The cleanup deletes schedulers that stand for no line.
LEMMA CleanUpImplements ==
  ASSUME IInv, IInv', CleanUp, UNCHANGED keyOf
  PROVE  [Contract!Next]_(Contract!cvars)
<1> DEFINE busy == {s \in Elements(schedulers) : ~IsIdle(s)}
<1>1. schedulers' = Only(schedulers, busy) /\ UNCHANGED <<engine, answer, panicked>>
  BY DEF CleanUp
<1>2. \A i \in DOMAIN schedulers : schedulers[i] \in busy <=> ~IsIdle(schedulers[i])
  BY DEF Elements
<1>3. DOMAIN schedulers = 1..Len(schedulers) /\ DOMAIN schedulers' = 1..Len(schedulers')
  BY InvFacts, NextFacts, LenProperties DEF ArrayOK
<1> HIDE DEF busy
<1>4. /\ \A j \in DOMAIN schedulers' : \E i \in DOMAIN schedulers : schedulers[i] = schedulers'[j]
      /\ \A i \in DOMAIN schedulers :
           schedulers[i] \in busy => \E j \in DOMAIN schedulers' : schedulers'[j] = schedulers[i]
  <2> DEFINE array == Only(schedulers, busy)
  <2>1. schedulers \in Seq(Schedulers)
    BY InvFacts
  <2>2. /\ \A m \in 1..Len(array) :
             array[m] \in busy /\ \E n \in 1..Len(schedulers) : schedulers[n] = array[m]
        /\ \A n \in 1..Len(schedulers) :
             schedulers[n] \in busy => \E m \in 1..Len(array) : array[m] = schedulers[n]
    BY <2>1, OnlyElements
  <2>3. schedulers' = array
    BY <1>1
  <2> HIDE DEF array
  <2> QED
    BY <1>3, <2>2, <2>3
<1>5. \A i \in DOMAIN schedulers :
        \/ schedulers[i].current = NoRequest
        \/ \E j \in DOMAIN schedulers' : schedulers'[j] = schedulers[i]
  BY <1>2, <1>4 DEF IsIdle
<1>6. /\ ArrayOK(schedulers, keyOf, engine, answer)
      /\ ArrayOK(schedulers', keyOf, engine, answer)
  BY <1>1, InvFacts, NextFacts
<1>7. \A j \in DOMAIN schedulers' :
        \/ schedulers'[j].current = NoRequest
        \/ \E i \in DOMAIN schedulers : schedulers'[j] = schedulers[i]
  BY <1>4
<1>8. Lines' = Lines
  <2>1. LinesIn(schedulers') = LinesIn(schedulers)
    BY <1>5, <1>6, <1>7, IdleLines
  <2> QED
    BY <2>1, LinesAre, NextLinesAre
<1>9. Outcomes' = Outcomes
  <2>1. \A r \in Requests :
          OutcomeIn(schedulers', answer, r) = OutcomeIn(schedulers, answer, r)
    BY <1>6, <1>7, IdleOutcomes
  <2> QED
    BY <1>1, <2>1, OutcomesAre, NextLinesAre
<1> QED
  BY <1>1, <1>8, <1>9 DEF Contract!cvars

-----------------------------------------------------------------------------
(***************************************************************************)
(* A cancellation, at one scheduler: what a session may not take back is   *)
(* what its client was told of.                                            *)
(***************************************************************************)
Stay(c) == {r \in Requests : SessionOf[r] # c \/ Outcomes[r] = "KErrNone"}

LEMMA HeldOutcome ==
  ASSUME IInv, NEW i \in DOMAIN schedulers, NEW r \in Requests, Holds(schedulers[i], r)
  PROVE  Outcomes[r] =
           IF answer[r] = "waiting" /\ schedulers[i].current = r
                /\ schedulers[i].status # "KRequestPending"
           THEN "lost" ELSE answer[r]
<1>1. ArrayOK(schedulers, keyOf, engine, answer)
  BY InvFacts
<1>2. OutcomeIn(schedulers, answer, r) =
        IF answer[r] = "waiting" /\ schedulers[i].current = r
             /\ schedulers[i].status # "KRequestPending"
        THEN "lost" ELSE answer[r]
  BY <1>1, OutcomeHeld
<1> QED
  BY <1>2, OutcomesAre

LEMMA WhoStays ==
  ASSUME IInv, NEW c, NEW i \in DOMAIN schedulers, NEW s, s = schedulers[i]
  PROVE  /\ s.current # NoRequest => (s.current \notin Stay(c) <=> TakesCurrent(s, c))
         /\ \A n \in DOMAIN s.queue : s.queue[n] \in Stay(c) <=> SessionOf[s.queue[n]] # c
<1>1. s \in Schedulers /\ SchedulerOK(s, keyOf, engine, answer)
  BY InvFacts
<1>2. ASSUME s.current # NoRequest
      PROVE  s.current \notin Stay(c) <=> TakesCurrent(s, c)
  <2> DEFINE r == s.current
  <2>1. r \in Requests /\ Holds(s, r)
    BY <1>1, <1>2, SchedulerFields DEF Holds
  <2>2. InTransition(r) <=> answer[r] = "KErrNone"
    BY <1>1, <1>2 DEF SchedulerOK, CurrentOK, InTransition
  <2>3. Outcomes[r] = "KErrNone" <=> answer[r] = "KErrNone"
    BY <2>1, HeldOutcome
  <2> QED
    BY <1>2, <2>1, <2>2, <2>3 DEF Stay, TakesCurrent
<1>3. ASSUME NEW n \in DOMAIN s.queue
      PROVE  s.queue[n] \in Stay(c) <=> SessionOf[s.queue[n]] # c
  <2>1. /\ s.queue[n] \in Requests
        /\ OutcomeIn(schedulers, answer, s.queue[n]) = "waiting"
    BY InvFacts, QueuedOutcome
  <2> QED
    BY <2>1, OutcomesAre DEF Stay
<1> QED
  BY <1>2, <1>3

\* The line that is left, and who is first.
CancelledLine(s, c, e, t) ==
  /\ t.key = s.key
  /\ LineOf(t) = Only(LineOf(s), Stay(c))
  /\ \/ ~TakesCurrent(s, c) /\ t.current = s.current /\ t.status = s.status
     \/ TakesCurrent(s, c) /\ t.current = NoRequest
     \/ /\ TakesCurrent(s, c) /\ t.current \in Requests
        /\ t.status = IF e = "KErrNone" THEN "KRequestPending" ELSE e

LEMMA TakeNextType ==
  ASSUME NEW s \in Schedulers, NEW err \in {"KErrNone"} \cup Errors
  PROVE  TakeNext(s, err) \in Schedulers
<1>1. s.queue \in Seq(Requests)
  BY SchedulerFields
<1>2. CASE s.queue = <<>>
  BY <1>2 DEF TakeNext, Schedulers
<1>3. CASE s.queue # <<>>
  <2>1. Head(s.queue) \in Requests /\ Tail(s.queue) \in Seq(Requests)
    BY <1>1, <1>3, HeadTailProperties
  <2> QED
    BY <1>3, <2>1 DEF TakeNext, Scheduled, Schedulers, Codes
<1> QED
  BY <1>2, <1>3

LEMMA AfterCancelType ==
  ASSUME NEW s \in Schedulers, SchedulerOK(s, keyOf, engine, answer), NEW c,
         NEW err \in {"KErrNone"} \cup Errors
  PROVE  AfterCancel(s, c, err) \in Schedulers
<1> DEFINE rest == WithoutQueued(s, c)
           left == [rest EXCEPT !.step = StepAfterCancel(s)]
<1>1. rest \in Schedulers
  BY WithoutQueuedOK
<1>2. StepAfterCancel(s) \in Steps
  BY SchedulerFields DEF StepAfterCancel, Steps
<1> HIDE DEF rest
<1>3. left \in Schedulers
  BY <1>1, <1>2 DEF Schedulers
<1> HIDE DEF left
<1>4. AfterCancel(s, c, err) = TakeNext(left, err) \/ AfterCancel(s, c, err) = rest
  BY DEF AfterCancel, left, rest
<1> QED
  BY <1>1, <1>3, <1>4, TakeNextType

LEMMA AfterCancelLine ==
  ASSUME NEW s \in Schedulers, SchedulerOK(s, keyOf, engine, answer), NEW c,
         s.current # NoRequest => (s.current \notin Stay(c) <=> TakesCurrent(s, c)),
         \A n \in DOMAIN s.queue : s.queue[n] \in Stay(c) <=> SessionOf[s.queue[n]] # c,
         NEW e
  PROVE  CancelledLine(s, c, e, AfterCancel(s, c, e))
<1> DEFINE others == {r \in Requests : SessionOf[r] # c}
           rest == WithoutQueued(s, c)
           left == [rest EXCEPT !.step = StepAfterCancel(s)]
           t == AfterCancel(s, c, e)
<1>1. s \in Schedulers /\ SchedulerOK(s, keyOf, engine, answer) /\ s.queue \in Seq(Requests)
  BY SchedulerFields
<1>2. /\ rest \in Schedulers
      /\ rest = [s EXCEPT !.queue = Only(s.queue, others)]
  <2>1. rest \in Schedulers
    BY <1>1, WithoutQueuedOK
  <2> QED
    BY <2>1 DEF WithoutQueued
<1> HIDE DEF t
<1>3. /\ rest.key = s.key /\ rest.current = s.current /\ rest.status = s.status
      /\ rest.queue = Only(s.queue, others)
  BY <1>1, <1>2 DEF Schedulers
<1> HIDE DEF rest
<1>4. left \in Schedulers /\ left.queue = rest.queue /\ left.key = rest.key
  <2>1. StepAfterCancel(s) \in Steps
    BY <1>1, SchedulerFields DEF StepAfterCancel, Steps
  <2> QED
    BY <1>2, <2>1 DEF Schedulers
<1>5. Only(s.queue, Stay(c)) = Only(s.queue, others)
  <2>1. \A n \in DOMAIN s.queue : s.queue[n] \in Requests
    BY <1>1, LenProperties, ElementOfSeq
  <2>2. \A n \in DOMAIN s.queue : s.queue[n] \in Stay(c) <=> s.queue[n] \in others
    BY <2>1
  <2> HIDE DEF others
  <2> QED
    BY <1>1, <2>2, OnlySame
<1> HIDE DEF left, others
<1>6. CASE s.current = NoRequest
  <2>1. ~TakesCurrent(s, c)
    BY <1>6 DEF TakesCurrent
  <2>2. t = rest
    BY <2>1 DEF AfterCancel, rest, t
  <2>3. LineOf(s) = <<>> /\ LineOf(t) = <<>>
    BY <1>3, <1>6, <2>2 DEF LineOf
  <2> QED
    BY <1>3, <2>1, <2>2, <2>3, OnlyEmpty DEF CancelledLine, t
<1>7. CASE s.current # NoRequest
  <2> DEFINE q == s.queue
             cur == s.current
  <2>1. cur \in Requests /\ q \in Seq(Requests)
    BY <1>1, <1>7, SchedulerFields
  <2>2. LineOf(s) = <<cur>> \o q
    BY <1>7 DEF LineOf
  <2>3. Only(<<cur>> \o q, Stay(c)) =
          IF cur \in Stay(c) THEN <<cur>> \o Only(q, Stay(c)) ELSE Only(q, Stay(c))
    <3> HIDE DEF cur, q
    <3> QED
      BY <2>1, OnlyPrepend
  <2>4. cur \notin Stay(c) <=> TakesCurrent(s, c)
    BY <1>7
  <2>5. CASE TakesCurrent(s, c)
    <3>1. t = TakeNext(left, e)
      BY <2>5 DEF AfterCancel, left, rest, t
    <3>2. /\ LineOf(t) = left.queue /\ t.key = left.key
          /\ left.queue = <<>> => t.current = NoRequest
          /\ left.queue # <<>> =>
               /\ t.current \in Requests
               /\ t.status = IF e = "KErrNone" THEN "KRequestPending" ELSE e
      BY <1>4, <3>1, TakenFacts
    <3>3. LineOf(t) = Only(LineOf(s), Stay(c))
      BY <1>3, <1>4, <1>5, <2>2, <2>3, <2>4, <2>5, <3>2
    <3> QED
      BY <1>3, <1>4, <2>5, <3>2, <3>3 DEF CancelledLine, t
  <2>6. CASE ~TakesCurrent(s, c)
    <3>1. t = rest
      BY <2>6 DEF AfterCancel, rest, t
    <3>2. LineOf(t) = <<cur>> \o Only(q, others)
      BY <1>3, <1>7, <3>1 DEF LineOf
    <3>3. LineOf(t) = Only(LineOf(s), Stay(c))
      BY <1>5, <2>2, <2>3, <2>4, <2>6, <3>2
    <3> QED
      BY <1>3, <2>6, <3>1, <3>3 DEF CancelledLine, t
  <2> QED
    BY <2>5, <2>6
<1> QED
  BY <1>6, <1>7

\* What becomes of the requests the scheduler holds.
BecomesOf(s, t, e, gone, r) ==
  engine'[r] = EngineAfter(s, t, r, e) /\ answer'[r] = AnswerAfterCancel(s, t, r, e, gone)

LEMMA CancelledOutcome ==
  ASSUME IInv, IInv', UNCHANGED keyOf, NEW c,
         NEW i \in DOMAIN schedulers, i \in DOMAIN schedulers', NEW e \in {"KErrNone", "KErrNoMemory"},
         CancelledLine(schedulers[i], c, e, schedulers'[i]),
         NEW r \in Requests, Holds(schedulers[i], r),
         NEW gone, BecomesOf(schedulers[i], schedulers'[i], e, gone, r)
  PROVE  /\ OutcomeIn(schedulers', answer', r) =
              IF Begins(schedulers[i], schedulers'[i], r) /\ e = "KErrNoMemory" THEN "KErrNoMemory"
              ELSE IF r \notin Stay(c) /\ Outcomes[r] = "waiting" THEN CancelCode(r, gone)
              ELSE Outcomes[r]
         /\ CancelCode(r, gone) # "KErrCancel" => schedulers[i].current = r
<1> DEFINE s == schedulers[i]
           t == schedulers'[i]
<1>1. /\ s \in Schedulers /\ SchedulerOK(s, keyOf, engine, answer)
      /\ ArrayOK(schedulers', keyOf, engine', answer')
  BY InvFacts, NextFacts
<1>2. t \in Schedulers /\ SchedulerOK(t, keyOf, engine', answer')
  BY <1>1, ArrayFields DEF ArrayOK
<1>3. /\ LineOf(t) = Only(LineOf(s), Stay(c))
      /\ \/ ~TakesCurrent(s, c) /\ t.current = s.current /\ t.status = s.status
         \/ TakesCurrent(s, c) /\ t.current = NoRequest
         \/ /\ TakesCurrent(s, c) /\ t.current \in Requests
            /\ t.status = IF e = "KErrNone" THEN "KRequestPending" ELSE e
  BY DEF CancelledLine
<1>4. s.current = r => (r \notin Stay(c) <=> TakesCurrent(s, c))
  BY RequestsAssumption, WhoStays
<1>5. Holds(t, r) =>
         OutcomeIn(schedulers', answer', r) =
           IF answer'[r] = "waiting" /\ t.current = r /\ t.status # "KRequestPending"
           THEN "lost" ELSE answer'[r]
  BY <1>1, OutcomeHeld
<1>6. Holds(s, r) /\ BecomesOf(s, t, e, gone, r)
  OBVIOUS
<1>7. /\ Holds(t, r) => engine'[r] # NoEngine
      /\ ~Holds(t, r) => engine'[r] = NoEngine
      /\ answer'[r] = AnswerAfterCancel(s, t, r, e, gone)
  BY <1>2, HeldFacts DEF BecomesOf, EngineAfter
<1>8. \A x \in Requests : Holds(t, x) <=> Holds(s, x) /\ x \in Stay(c)
  <2> DEFINE l == LineOf(s)
             m == LineOf(t)
  <2>1. l \in Seq(Requests) /\ \A x \in Requests : Holds(s, x) <=> \E n \in DOMAIN l : l[n] = x
    BY <1>1, LineOfFacts
  <2>2. m \in Seq(Requests) /\ \A x \in Requests : Holds(t, x) <=> \E n \in DOMAIN m : m[n] = x
    BY <1>2, LineOfFacts
  <2>3. m = Only(l, Stay(c))
    BY <1>3
  <2>4. DOMAIN l = 1..Len(l) /\ DOMAIN m = 1..Len(m)
    BY <2>1, <2>2, LenProperties
  <2> HIDE DEF l, m
  <2>5. /\ \A n \in 1..Len(m) : m[n] \in Stay(c) /\ \E k \in 1..Len(l) : l[k] = m[n]
        /\ \A k \in 1..Len(l) : l[k] \in Stay(c) => \E n \in 1..Len(m) : m[n] = l[k]
    <3> DEFINE o == Only(l, Stay(c))
    <3>1. l \in Seq(Requests)
      BY <2>1
    <3>2. /\ \A n \in 1..Len(o) : o[n] \in Stay(c) /\ \E k \in 1..Len(l) : l[k] = o[n]
          /\ \A k \in 1..Len(l) : l[k] \in Stay(c) => \E n \in 1..Len(o) : o[n] = l[k]
      BY <3>1, OnlyElements
    <3> QED
      BY <2>3, <3>2
  <2>6. ASSUME NEW x \in Requests, Holds(t, x) PROVE Holds(s, x) /\ x \in Stay(c)
    <3>1. PICK n \in 1..Len(m) : m[n] = x
      BY <2>2, <2>4, <2>6
    <3>2. PICK k \in 1..Len(l) : l[k] = x
      BY <2>5, <3>1
    <3> QED
      BY <2>1, <2>4, <2>5, <3>1, <3>2
  <2>7. ASSUME NEW x \in Requests, Holds(s, x), x \in Stay(c) PROVE Holds(t, x)
    <3>1. PICK k \in 1..Len(l) : l[k] = x
      BY <2>1, <2>4, <2>7
    <3>2. PICK n \in 1..Len(m) : m[n] = x
      BY <2>5, <2>7, <3>1
    <3> QED
      BY <2>2, <2>4, <3>2
  <2> QED
    BY <2>6, <2>7
<1>9. Outcomes[r] =
        IF answer[r] = "waiting" /\ s.current = r /\ s.status # "KRequestPending"
        THEN "lost" ELSE answer[r]
  BY HeldOutcome
<1>10. r # NoRequest
  BY RequestsAssumption
<1> SUFFICES /\ OutcomeIn(schedulers', answer', r) =
                  IF Begins(s, t, r) /\ e = "KErrNoMemory" THEN "KErrNoMemory"
                  ELSE IF r \notin Stay(c) /\ Outcomes[r] = "waiting" THEN CancelCode(r, gone)
                  ELSE Outcomes[r]
             /\ CancelCode(r, gone) # "KErrCancel" => s.current = r
  OBVIOUS
<1> HIDE DEF s, t
<1>11. Begins(s, t, r) => Holds(t, r)
  BY DEF Begins, Holds
<1>12. CASE s.current = r
  <2>1. CancelCode(r, gone) # "KErrCancel" => s.current = r
    BY <1>12
  <2>2. ~Begins(s, t, r)
    BY <1>12 DEF Begins
  <2>3. r \notin Stay(c) <=> TakesCurrent(s, c)
    BY <1>12, <1>4
  <2>4. CASE r \in Stay(c)
    <3>1. Holds(t, r) /\ t.current = r /\ t.status = s.status
      BY <1>3, <1>8, <1>12, <1>6, <2>3, <2>4
    <3>2. answer'[r] = answer[r]
      BY <1>6, <1>7, <2>2, <3>1 DEF AnswerAfterCancel, AnswerAfter
    <3>3. OutcomeIn(schedulers', answer', r) =
            IF answer'[r] = "waiting" /\ t.current = r /\ t.status # "KRequestPending"
            THEN "lost" ELSE answer'[r]
      BY <1>5, <3>1
    <3> QED
      BY <1>9, <1>12, <2>1, <2>2, <2>4, <3>1, <3>2, <3>3
  <2>5. CASE r \notin Stay(c)
    <3>1. ~Holds(t, r)
      BY <1>8, <1>6, <2>5
    <3>2. engine'[r] = NoEngine
      BY <1>7, <3>1
    <3>3. OutcomeIn(schedulers', answer', r) = IF answer'[r] = "waiting" THEN "lost" ELSE answer'[r]
      BY <1>1, <3>2, OutcomeFree
    <3>4. /\ engine[r].status = "idle" <=> s.status # "KRequestPending"
          /\ answer[r] \in {"waiting", "KErrNone"} \/ engine[r].status = "idle"
      BY <1>1, <1>10, <1>12 DEF SchedulerOK, CurrentOK
    <3>5. answer[r] # "KErrNone"
      BY <1>9, <2>5 DEF Stay
    <3>6. CASE engine[r].status = "idle"
      <4>1. answer'[r] = answer[r]
        BY <1>6, <1>7, <1>12, <2>2, <3>6 DEF AnswerAfterCancel, AnswerAfter
      <4> QED
        BY <1>9, <1>12, <2>1, <2>2, <3>3, <3>4, <3>6, <4>1
    <3>7. CASE engine[r].status # "idle"
      <4>1. answer[r] = "waiting"
        BY <3>4, <3>5, <3>7
      <4>2. answer'[r] = CancelCode(r, gone)
        BY <1>6, <1>7, <3>1, <3>7, <4>1 DEF AnswerAfterCancel, Completed
      <4>3. CancelCode(r, gone) # "waiting"
        BY DEF CancelCode
      <4> QED
        BY <1>9, <2>1, <2>2, <2>5, <3>3, <3>4, <3>7, <4>1, <4>2, <4>3
    <3> QED
      BY <3>6, <3>7
  <2> QED
    BY <2>4, <2>5
<1>13. CASE s.current # r
  <2>1. PICK n \in DOMAIN s.queue : s.queue[n] = r
    BY <1>13, <1>6 DEF Holds
  <2>2. engine[r] = Idle /\ answer[r] = "waiting"
    BY <1>1, <2>1 DEF SchedulerOK
  <2>3. Outcomes[r] = "waiting"
    BY <1>9, <1>13, <2>2
  <2>4. CancelCode(r, gone) = "KErrCancel"
    BY <2>2 DEF CancelCode, IsInitializing, Idle
  <2>5. CASE r \in Stay(c)
    <3>1. Holds(t, r)
      BY <1>8, <1>6, <2>5
    <3>2. OutcomeIn(schedulers', answer', r) =
            IF answer'[r] = "waiting" /\ t.current = r /\ t.status # "KRequestPending"
            THEN "lost" ELSE answer'[r]
      BY <1>5, <3>1
    <3>3. answer'[r] = IF t.current = r /\ e = "KErrNoMemory" THEN "KErrNoMemory" ELSE "waiting"
      BY <1>6, <1>7, <1>13, <2>2, <3>1 DEF AnswerAfterCancel, AnswerAfter, Begins, Failed, Completed
    <3>4. Begins(s, t, r) <=> t.current = r
      BY <1>13 DEF Begins
    <3>5. t.current = r => t.status = IF e = "KErrNone" THEN "KRequestPending" ELSE e
      BY <1>3, <1>10, <1>13
    <3>6. CASE e = "KErrNone"
      BY <2>3, <2>4, <2>5, <3>2, <3>3, <3>5, <3>6
    <3>7. CASE e = "KErrNoMemory"
      BY <2>3, <2>4, <2>5, <3>2, <3>3, <3>4, <3>7
    <3> QED
      BY <3>6, <3>7
  <2>6. CASE r \notin Stay(c)
    <3>1. ~Holds(t, r) /\ ~Begins(s, t, r)
      BY <1>8, <1>11, <2>6
    <3>2. engine'[r] = NoEngine
      BY <1>7, <3>1
    <3>3. answer'[r] = "KErrCancel"
      BY <1>6, <1>7, <1>13, <2>2, <2>4, <3>1 DEF AnswerAfterCancel, Completed
    <3>4. OutcomeIn(schedulers', answer', r) = IF answer'[r] = "waiting" THEN "lost" ELSE answer'[r]
      BY <1>1, <3>2, OutcomeFree
    <3> QED
      BY <2>3, <2>4, <2>6, <3>1, <3>3, <3>4
  <2> QED
    BY <2>5, <2>6
<1> QED
  BY <1>12, <1>13

\* The policy server of scheduler i is not there to cancel the initialisation.
GoneAt(c, i) == schedulers[i].step = "gone" \/ GoneBy(c, i)

LEMMA CancelFacts ==
  ASSUME IInv, NEW c \in Sessions, Cancel(c)
  PROVE  /\ ~panicked
         /\ \E err \in [DOMAIN schedulers -> {"KErrNone"} \cup Errors] :
              /\ DOMAIN schedulers' = DOMAIN schedulers
              /\ \A i \in DOMAIN schedulers :
                   /\ CancelledLine(schedulers[i], c, err[i], schedulers'[i])
                   /\ \A r \in Requests : Holds(schedulers[i], r) =>
                        BecomesOf(schedulers[i], schedulers'[i], err[i], GoneAt(c, i), r)
              /\ \A r \in Requests : engine[r] = NoEngine =>
                   engine'[r] = NoEngine /\ answer'[r] = answer[r]
              /\ panicked' = \E i \in DOMAIN schedulers : err[i] = "KErrGeneral"
<1>1. PICK err \in [DOMAIN schedulers -> {"KErrNone"} \cup Errors] :
        LET After(i) == AfterCancel(schedulers[i], c, err[i])
            At(r) == CHOOSE i \in DOMAIN schedulers : Holds(schedulers[i], r)
        IN  /\ ~panicked
            /\ schedulers' = [i \in DOMAIN schedulers |-> WithFault(c, i, After(i))]
            /\ engine' = [r \in Requests |->
                 IF engine[r] = NoEngine THEN NoEngine
                 ELSE EngineAfter(schedulers[At(r)], After(At(r)), r, err[At(r)])]
            /\ answer' = [r \in Requests |->
                 IF engine[r] = NoEngine THEN answer[r]
                 ELSE LET s == schedulers[At(r)]
                      IN  AnswerAfterCancel(s, After(At(r)), r, err[At(r)],
                                            s.step = "gone" \/ GoneBy(c, At(r)))]
            /\ panicked' = \E i \in DOMAIN schedulers : err[i] = "KErrGeneral"
  BY DEF Cancel
<1> DEFINE After(i) == AfterCancel(schedulers[i], c, err[i])
           At(r) == CHOOSE i \in DOMAIN schedulers : Holds(schedulers[i], r)
<1>2. /\ DOMAIN schedulers' = DOMAIN schedulers
      /\ \A i \in DOMAIN schedulers : schedulers'[i] = WithFault(c, i, After(i))
  BY <1>1
<1>3. \A r \in Requests :
        /\ engine[r] = NoEngine => engine'[r] = NoEngine /\ answer'[r] = answer[r]
        /\ engine[r] # NoEngine =>
             /\ engine'[r] = EngineAfter(schedulers[At(r)], After(At(r)), r, err[At(r)])
             /\ answer'[r] = AnswerAfterCancel(schedulers[At(r)], After(At(r)), r, err[At(r)],
                                               GoneAt(c, At(r)))
  BY <1>1 DEF GoneAt
<1>4. ASSUME NEW i \in DOMAIN schedulers, NEW r \in Requests, Holds(schedulers[i], r)
      PROVE  engine[r] # NoEngine /\ At(r) = i
  <2>1. keyOf[r] = schedulers[i].key /\ engine[r] # NoEngine
    BY <1>4, InvFacts, HeldFacts
  <2>2. At(r) \in DOMAIN schedulers /\ Holds(schedulers[At(r)], r)
    BY <1>4
  <2> HIDE DEF At
  <2>3. keyOf[r] = schedulers[At(r)].key
    BY <2>2, InvFacts, HeldFacts
  <2> QED
    BY <2>1, <2>2, <2>3, InvFacts, OneForKey
<1> HIDE DEF At
<1>5. ASSUME NEW i \in DOMAIN schedulers
      PROVE  /\ CancelledLine(schedulers[i], c, err[i], schedulers'[i])
             /\ schedulers'[i].current = After(i).current /\ schedulers'[i].queue = After(i).queue
  <2> DEFINE s == schedulers[i]
             t == After(i)
  <2>1. s \in Schedulers /\ SchedulerOK(s, keyOf, engine, answer)
    BY InvFacts
  <2>2. /\ s.current # NoRequest => (s.current \notin Stay(c) <=> TakesCurrent(s, c))
        /\ \A n \in DOMAIN s.queue : s.queue[n] \in Stay(c) <=> SessionOf[s.queue[n]] # c
    BY WhoStays
  <2>3. err[i] \in {"KErrNone"} \cup Errors /\ t = AfterCancel(s, c, err[i])
    OBVIOUS
  <2> HIDE DEF s, After
  <2>4. CancelledLine(s, c, err[i], t) /\ t \in Schedulers
    BY <2>1, <2>2, <2>3, AfterCancelLine, AfterCancelType
  <2>5. schedulers'[i] = WithFault(c, i, t)
    BY <1>2
  <2> DEFINE u == schedulers'[i]
  <2>6. /\ u.key = t.key /\ u.current = t.current /\ u.queue = t.queue /\ u.status = t.status
    BY <2>4, <2>5, WithFaultFacts
  <2> HIDE DEF t, u
  <2>7. CancelledLine(s, c, err[i], u)
    BY <2>4, <2>6 DEF CancelledLine, LineOf
  <2> QED
    BY <2>6, <2>7 DEF s, t, u
<1>6. ASSUME NEW i \in DOMAIN schedulers, NEW r \in Requests, Holds(schedulers[i], r)
      PROVE  BecomesOf(schedulers[i], schedulers'[i], err[i], GoneAt(c, i), r)
  <2> DEFINE s == schedulers[i]
             t == After(i)
             u == schedulers'[i]
  <2>1. /\ engine'[r] = EngineAfter(s, t, r, err[i])
        /\ answer'[r] = AnswerAfterCancel(s, t, r, err[i], GoneAt(c, i))
    BY <1>3, <1>4, <1>6
  <2>2. u.current = t.current /\ u.queue = t.queue
    BY <1>5
  <2> HIDE DEF s, t, u
  <2>3. (Holds(u, r) <=> Holds(t, r)) /\ (Begins(s, u, r) <=> Begins(s, t, r))
    BY <2>2 DEF Holds, Begins
  <2>4. /\ EngineAfter(s, u, r, err[i]) = EngineAfter(s, t, r, err[i])
        /\ AnswerAfterCancel(s, u, r, err[i], GoneAt(c, i)) =
             AnswerAfterCancel(s, t, r, err[i], GoneAt(c, i))
    BY <2>3 DEF EngineAfter, AnswerAfterCancel, AnswerAfter
  <2> QED
    BY <2>1, <2>4 DEF BecomesOf, s, u
<1> QED
  BY <1>1, <1>2, <1>3, <1>5, <1>6

\* The lines and the outcomes of the contract's Withdraw.
OpenOf(c) == {r \in Requests \ Stay(c) : Contract!InLine(r) /\ Outcomes[r] = "waiting"}

Heads == UNION {Contract!First(k) : k \in Keys}

LEMMA WithdrawIs ==
  ASSUME NEW c, NEW failed \in SUBSET Contract!NewFirst,
         NEW told \in [OpenOf(c) \cap Heads -> {"KErrCancel", "KErrNone", "KErrServerTerminated"}],
         Lines' = [k \in Keys |-> Only(Lines[k], Stay(c))],
         Outcomes' = [r \in Requests |->
           IF r \in failed THEN "KErrNoMemory"
           ELSE IF r \in OpenOf(c) \cap Heads THEN told[r]
           ELSE IF r \in OpenOf(c) THEN "KErrCancel"
           ELSE Outcomes[r]]
  PROVE  Contract!Withdraw(c)
<1> DEFINE answers == [r \in Requests |-> CASE r \in OpenOf(c) \cap Heads -> told[r]
                                            [] r \in OpenOf(c) \ Heads -> "KErrCancel"
                                            [] OTHER -> Outcomes[r]]
<1>1. \A r \in Requests :
        answers[r] = IF r \in OpenOf(c) \cap Heads THEN told[r]
                     ELSE IF r \in OpenOf(c) THEN "KErrCancel" ELSE Outcomes[r]
  OBVIOUS
<1> HIDE DEF answers
<1>2. Outcomes' = [r \in Requests |-> IF r \in failed THEN "KErrNoMemory" ELSE answers[r]]
  BY <1>1
<1>3. Contract!Tell(answers)
  BY <1>2 DEF Contract!Tell
<1>4. Lines' = [k \in Keys |-> Contract!Only(Lines[k], Stay(c))]
  BY OnlyIsOnly
<1> QED
  BY <1>3, <1>4 DEF Contract!Withdraw, answers, Stay, OpenOf, Heads

LEMMA CancelImplements ==
  ASSUME IInv, IInv', NEW c \in Sessions, Cancel(c), UNCHANGED keyOf
  PROVE  Contract!Next
<1>1. PICK err \in [DOMAIN schedulers -> {"KErrNone"} \cup Errors] :
        /\ DOMAIN schedulers' = DOMAIN schedulers
        /\ \A i \in DOMAIN schedulers :
             /\ CancelledLine(schedulers[i], c, err[i], schedulers'[i])
             /\ \A r \in Requests : Holds(schedulers[i], r) =>
                  BecomesOf(schedulers[i], schedulers'[i], err[i], GoneAt(c, i), r)
        /\ \A r \in Requests : engine[r] = NoEngine =>
             engine'[r] = NoEngine /\ answer'[r] = answer[r]
        /\ panicked' = \E i \in DOMAIN schedulers : err[i] = "KErrGeneral"
  BY CancelFacts
<1>2. ~panicked
  BY CancelFacts
<1>3. CASE \E i \in DOMAIN schedulers : err[i] = "KErrGeneral"
  BY <1>1, <1>2, <1>3, StopsIsNext
<1>4. CASE ~ \E i \in DOMAIN schedulers : err[i] = "KErrGeneral"
  <2>1. UNCHANGED panicked /\ \A i \in DOMAIN schedulers : err[i] \in {"KErrNone", "KErrNoMemory"}
    BY <1>1, <1>2, <1>4, InvFacts DEF Errors
  <2>2. /\ ArrayOK(schedulers, keyOf, engine, answer)
        /\ ArrayOK(schedulers', keyOf, engine', answer')
        /\ \A i \in DOMAIN schedulers : schedulers[i].key \in Keys
    BY InvFacts, NextFacts, SchedulerFields
  <2>3. Lines' = [k \in Keys |-> Only(Lines[k], Stay(c))]
    <3> SUFFICES ASSUME NEW k \in Keys
                 PROVE  LineIn(schedulers', k) = Only(LineIn(schedulers, k), Stay(c))
      BY LinesAre, NextLinesAre DEF LinesIn
    <3>1. CASE \E i \in DOMAIN schedulers : schedulers[i].key = k
      <4>1. PICK i \in DOMAIN schedulers : schedulers[i].key = k
        BY <3>1
      <4>2. /\ i \in DOMAIN schedulers' /\ schedulers'[i].key = k
            /\ LineOf(schedulers'[i]) = Only(LineOf(schedulers[i]), Stay(c))
        BY <1>1, <4>1 DEF CancelledLine
      <4>3. LineIn(schedulers, k) = LineOf(schedulers[i])
        BY <2>2, <4>1, LineFound DEF ArrayOK
      <4>4. LineIn(schedulers', k) = LineOf(schedulers'[i])
        BY <2>2, <4>2, LineFound DEF ArrayOK
      <4> QED
        BY <4>2, <4>3, <4>4
    <3>2. CASE ~ \E i \in DOMAIN schedulers : schedulers[i].key = k
      <4>1. \A i \in DOMAIN schedulers' : schedulers'[i].key # k
        BY <1>1, <3>2 DEF CancelledLine
      <4>2. LineIn(schedulers, k) = <<>> /\ LineIn(schedulers', k) = <<>>
        BY <3>2, <4>1, LineNone
      <4> QED
        BY <4>2, OnlyEmpty
    <3> QED
      BY <3>1, <3>2
  <2> DEFINE failed == {r \in Requests : \E i \in DOMAIN schedulers :
                          /\ Begins(schedulers[i], schedulers'[i], r)
                          /\ err[i] = "KErrNoMemory"}
             Told(r) == CancelCode(r, \E i \in DOMAIN schedulers :
                                        Holds(schedulers[i], r) /\ GoneAt(c, i))
  <2>4. ASSUME NEW i \in DOMAIN schedulers, NEW r \in Requests, Holds(schedulers[i], r)
        PROVE  /\ OutcomeIn(schedulers', answer', r) =
                    IF Begins(schedulers[i], schedulers'[i], r) /\ err[i] = "KErrNoMemory"
                    THEN "KErrNoMemory"
                    ELSE IF r \notin Stay(c) /\ Outcomes[r] = "waiting" THEN Told(r)
                    ELSE Outcomes[r]
               /\ Told(r) # "KErrCancel" => schedulers[i].current = r
    <3> DEFINE gone == GoneAt(c, i)
    <3>1. /\ OutcomeIn(schedulers', answer', r) =
               IF Begins(schedulers[i], schedulers'[i], r) /\ err[i] = "KErrNoMemory"
               THEN "KErrNoMemory"
               ELSE IF r \notin Stay(c) /\ Outcomes[r] = "waiting" THEN CancelCode(r, gone)
               ELSE Outcomes[r]
          /\ CancelCode(r, gone) # "KErrCancel" => schedulers[i].current = r
      BY <1>1, <2>1, <2>4, CancelledOutcome
    <3>2. ASSUME NEW j \in DOMAIN schedulers, Holds(schedulers[j], r) PROVE j = i
      <4>1. schedulers[j].key = keyOf[r] /\ schedulers[i].key = keyOf[r]
        BY <2>2, <2>4, <3>2, HeldFacts DEF ArrayOK
      <4> QED
        BY <2>2, <4>1, OneForKey DEF ArrayOK
    <3>3. (\E j \in DOMAIN schedulers : Holds(schedulers[j], r) /\ GoneAt(c, j)) <=> gone
      BY <2>4, <3>2
    <3>4. Told(r) = CancelCode(r, gone)
      BY <3>3 DEF CancelCode
    <3> HIDE DEF Told, gone
    <3> QED
      BY <3>1, <3>4
  <2>5. ASSUME NEW i \in DOMAIN schedulers, NEW r \in Requests,
               Begins(schedulers[i], schedulers'[i], r)
        PROVE  Holds(schedulers[i], r) /\ schedulers[i].current # NoRequest
    <3> DEFINE s == schedulers[i]
               t == schedulers'[i]
    <3>1. s \in Schedulers /\ SchedulerOK(s, keyOf, engine, answer)
      BY InvFacts
    <3>2. t.current = r /\ s.current # r /\ r # NoRequest
      BY <2>5, RequestsAssumption DEF Begins
    <3>3. TakesCurrent(s, c)
      BY <1>1, <3>2 DEF CancelledLine
    <3>4. i \in DOMAIN schedulers' /\ t.key = s.key
      BY <1>1 DEF CancelledLine
    <3>5. keyOf[r] = t.key /\ engine'[r] # NoEngine
      BY <2>2, <3>2, <3>4, HeldFacts DEF ArrayOK, Holds
    <3>6. engine[r] # NoEngine
      BY <1>1, <3>5
    <3> QED
      BY <2>2, <3>3, <3>4, <3>5, <3>6, OneHolds DEF TakesCurrent
  <2>6. failed \in SUBSET Contract!NewFirst
    <3> SUFFICES ASSUME NEW r \in Requests, NEW i \in DOMAIN schedulers,
                        Begins(schedulers[i], schedulers'[i], r)
                 PROVE  r \in Contract!NewFirst
      OBVIOUS
    <3> DEFINE s == schedulers[i]
               t == schedulers'[i]
               k == s.key
    <3>1. /\ s \in Schedulers /\ SchedulerOK(s, keyOf, engine, answer)
          /\ s.current # NoRequest /\ k \in Keys
      BY <2>2, <2>5, InvFacts
    <3>2. t.current = r /\ s.current # r /\ r # NoRequest
      BY RequestsAssumption DEF Begins
    <3>3. i \in DOMAIN schedulers' /\ t.key = k
      BY <1>1 DEF CancelledLine
    <3>4. t \in Schedulers /\ SchedulerOK(t, keyOf, engine', answer')
      BY <2>2, <3>3, ArrayFields DEF ArrayOK
    <3>5. Lines[k] = LineOf(s)
      <4>1. LineIn(schedulers, k) = LineOf(s)
        BY <2>2, LineFound DEF ArrayOK
      <4> QED
        BY <3>1, <4>1, LinesAre DEF LinesIn
    <3>6. Lines'[k] = LineOf(t)
      <4>1. LineIn(schedulers', t.key) = LineOf(t)
        BY <2>2, <3>3, LineFound DEF ArrayOK
      <4> QED
        BY <3>1, <3>3, <4>1, NextLinesAre DEF LinesIn
    <3>7. Head(LineOf(s)) = s.current /\ LineOf(s) # <<>>
      BY <3>1, LineOfFacts
    <3>8. Head(LineOf(t)) = r /\ LineOf(t) # <<>>
      BY <3>2, <3>4, LineOfFacts
    <3>9. Head(Lines'[k]) \notin Contract!First(k) /\ Lines'[k] # <<>> /\ Head(Lines'[k]) = r
      BY <3>2, <3>5, <3>6, <3>7, <3>8 DEF Contract!First
    <3> HIDE DEF k
    <3> QED
      BY <3>1, <3>9 DEF Contract!NewFirst
  <2>7. ASSUME NEW r \in OpenOf(c), Told(r) # "KErrCancel"
        PROVE  r \in Heads
    <3> SUFFICES \E k \in Keys : r \in Contract!First(k)
      BY DEF Heads
    <3>1. r \in Requests /\ engine[r] # NoEngine
      BY InLineIs DEF OpenOf
    <3>2. PICK i \in DOMAIN schedulers : Holds(schedulers[i], r)
      BY <2>2, <3>1 DEF ArrayOK
    <3>3. schedulers[i].current = r /\ r # NoRequest
      BY <2>4, <2>7, <3>1, <3>2, RequestsAssumption
    <3> DEFINE s == schedulers[i]
               k == s.key
    <3>4. s \in Schedulers /\ SchedulerOK(s, keyOf, engine, answer) /\ k \in Keys
      BY <2>2, InvFacts
    <3>5. Lines[k] = LineOf(s)
      <4>1. LineIn(schedulers, k) = LineOf(s)
        BY <2>2, LineFound DEF ArrayOK
      <4> QED
        BY <3>4, <4>1, LinesAre DEF LinesIn
    <3>6. Head(LineOf(s)) = r /\ LineOf(s) # <<>>
      BY <3>3, <3>4, LineOfFacts
    <3> QED
      BY <3>4, <3>5, <3>6 DEF Contract!First
  <2>8. ASSUME NEW r \in Requests
        PROVE  OutcomeIn(schedulers', answer', r) =
                 IF r \in failed THEN "KErrNoMemory"
                 ELSE IF r \in OpenOf(c) THEN Told(r)
                 ELSE Outcomes[r]
    <3>1. CASE engine[r] = NoEngine
      <4>1. engine'[r] = NoEngine /\ answer'[r] = answer[r]
        BY <1>1, <3>1
      <4>2. r \notin OpenOf(c)
        BY <3>1, InLineIs DEF OpenOf
      <4>3. r \notin failed
        BY <2>2, <2>5, <3>1, HeldFacts DEF ArrayOK
      <4>4. OutcomeIn(schedulers', answer', r) = IF answer'[r] = "waiting" THEN "lost" ELSE answer'[r]
        BY <2>2, <4>1, OutcomeFree
      <4>5. OutcomeIn(schedulers, answer, r) = IF answer[r] = "waiting" THEN "lost" ELSE answer[r]
        BY <2>2, <3>1, OutcomeFree
      <4>6. Outcomes[r] = OutcomeIn(schedulers, answer, r)
        BY OutcomesAre
      <4> HIDE DEF failed
      <4> QED
        BY <4>1, <4>2, <4>3, <4>4, <4>5, <4>6
    <3>2. CASE engine[r] # NoEngine
      <4>1. PICK i \in DOMAIN schedulers : Holds(schedulers[i], r)
        BY <2>2, <3>2 DEF ArrayOK
      <4>2. r \in failed <=> Begins(schedulers[i], schedulers'[i], r) /\ err[i] = "KErrNoMemory"
        <5>1. ASSUME NEW j \in DOMAIN schedulers, Begins(schedulers[j], schedulers'[j], r)
              PROVE  j = i
          <6>1. Holds(schedulers[j], r)
            BY <2>5, <5>1
          <6>2. schedulers[j].key = keyOf[r] /\ schedulers[i].key = keyOf[r]
            BY <2>2, <4>1, <6>1, HeldFacts DEF ArrayOK
          <6> QED
            BY <2>2, <6>2, OneForKey DEF ArrayOK
        <5> QED
          BY <5>1
      <4>3. r \in OpenOf(c) <=> r \notin Stay(c) /\ Outcomes[r] = "waiting"
        BY <3>2, InLineIs DEF OpenOf
      <4> HIDE DEF failed, Told
      <4>4. OutcomeIn(schedulers', answer', r) =
              IF Begins(schedulers[i], schedulers'[i], r) /\ err[i] = "KErrNoMemory"
              THEN "KErrNoMemory"
              ELSE IF r \notin Stay(c) /\ Outcomes[r] = "waiting" THEN Told(r)
              ELSE Outcomes[r]
        BY <2>4, <4>1
      <4> QED
        BY <4>2, <4>3, <4>4
    <3> QED
      BY <3>1, <3>2
  <2> DEFINE told == [r \in OpenOf(c) \cap Heads |-> Told(r)]
  <2>9. /\ told \in [OpenOf(c) \cap Heads -> {"KErrCancel", "KErrNone", "KErrServerTerminated"}]
        /\ Outcomes' = [r \in Requests |->
             IF r \in failed THEN "KErrNoMemory"
             ELSE IF r \in OpenOf(c) \cap Heads THEN told[r]
             ELSE IF r \in OpenOf(c) THEN "KErrCancel"
             ELSE Outcomes[r]]
    <3>1. \A r : Told(r) \in {"KErrCancel", "KErrNone", "KErrServerTerminated"}
      BY DEF CancelCode
    <3> HIDE DEF failed, Told
    <3>2. told \in [OpenOf(c) \cap Heads -> {"KErrCancel", "KErrNone", "KErrServerTerminated"}]
      BY <3>1
    <3>3. \A r \in OpenOf(c) : Told(r) = IF r \in Heads THEN told[r] ELSE "KErrCancel"
      BY <2>7
    <3> HIDE DEF told
    <3> QED
      BY <2>8, <3>2, <3>3, NextLinesAre
  <2> HIDE DEF failed, Told, told
  <2>10. Contract!Withdraw(c)
    BY <2>3, <2>6, <2>7, <2>9, WithdrawIs
  <2> QED
    BY <1>2, <2>1, <2>10 DEF Contract!Next, Contract!Act
<1> QED
  BY <1>3, <1>4

-----------------------------------------------------------------------------
\* Every step of the engine is one of the contract, or none.
LEMMA NextImplements ==
  ASSUME IInv, IInv', Next
  PROVE  [Contract!Next]_(Contract!cvars)
<1>1. UNCHANGED keyOf
  BY DEF Next
<1>2. ASSUME NEW r \in Requests, SubmitBehind(r) \/ SubmitFirst(r) \/ SubmitLeaves(r)
      PROVE  Contract!Next
  BY <1>1, <1>2, SubmitBehindImplements, SubmitFirstImplements, SubmitLeavesImplements
<1>3. ASSUME NEW r \in Requests, RequestSteps(r)
      PROVE  [Contract!Next]_(Contract!cvars)
  BY <1>1, <1>3, EngineRunLImplements, ReturnsImplements, SchedulerRunLImplements DEF RequestSteps
<1>4. ASSUME NEW c \in Sessions, Cancel(c) PROVE Contract!Next
  BY <1>1, <1>4, CancelImplements
<1>5. ASSUME CleanUp PROVE [Contract!Next]_(Contract!cvars)
  BY <1>1, <1>5, CleanUpImplements
<1> QED
  BY <1>2, <1>3, <1>4, <1>5 DEF Next

LEMMA InitImplements == Init => Contract!Init
<1> SUFFICES ASSUME Init PROVE Contract!Init
  OBVIOUS
<1>1. schedulers = <<>> /\ DOMAIN schedulers = {}
  BY DEF Init
<1>2. Lines = [k \in Keys |-> <<>>]
  <2>1. \A k \in Keys : LineIn(schedulers, k) = <<>>
    BY <1>1, LineNone
  <2> QED
    BY <2>1, LinesAre DEF LinesIn
<1>3. Outcomes = [r \in Requests |-> "none"]
  BY OutcomesAre DEF OutcomeIn, LostIn, Init
<1>4. keyOf \in [Requests -> Keys]
  BY RequestsAssumption DEF Init
<1> QED
  BY <1>2, <1>3, <1>4 DEF Init, Contract!Init

(***************************************************************************)
(* Whatever is requested, refused, cancelled and cleaned up, and in        *)
(* whatever order: the requests for a property are served in the order     *)
(* they came, and each is answered at most once, in its turn or when its   *)
(* session cancels.                                                        *)
(***************************************************************************)
THEOREM Implementation == Spec => ImplementsContract
<1>1. IInv /\ IInv' /\ [Next]_vars => [Contract!Next]_(Contract!cvars)
  <2> SUFFICES ASSUME IInv, IInv', [Next]_vars PROVE [Contract!Next]_(Contract!cvars)
    OBVIOUS
  <2>1. CASE Next
    BY <2>1, NextImplements
  <2>2. CASE UNCHANGED vars
    <3>1. UNCHANGED <<keyOf, schedulers, answer, panicked>>
      BY <2>2 DEF vars
    <3> QED
      BY <3>1, LinesAre, OutcomesAre, NextLinesAre DEF Contract!cvars
  <2> QED
    BY <2>1, <2>2
<1> QED
  BY <1>1, InitImplements, Invariance, PTL DEF Spec, ImplementsContract, Contract!Spec
=============================================================================

---------------------------- MODULE TimerQProofs ----------------------------
(***************************************************************************)
(* Proofs about the timer queue, for any finite set of events and any      *)
(* deadlines: the pointers are a list without cycles that ends, in the     *)
(* order of the deadlines, and what the functions do to it is what         *)
(* PendingQueue promises.                                                  *)
(***************************************************************************)
EXTENDS TimerQ, NatFacts, FiniteSetTheorems, FunctionTheorems, SequenceTheorems, TLAPS

-----------------------------------------------------------------------------
(* Nth, Length and Listed of any links m. *)
C == Cardinality(Events)

After(m, e) == IF e = NULL THEN NULL ELSE m[e]

NthOf(m) ==
    LET f[n \in 1 .. C + 1] ==
            IF n = 1 THEN m[HEAD] ELSE IF f[n - 1] = NULL THEN NULL ELSE m[f[n - 1]]
    IN  f

LengthOf(m) == Cardinality({n \in 1 .. C : NthOf(m)[n] # NULL})

LEMMA OfLinks ==
    /\ Nth = NthOf(link) /\ Length = LengthOf(link)
    /\ Nth' = NthOf(link') /\ Length' = LengthOf(link')
<1>1. Nth = NthOf(link) /\ Nth' = NthOf(link')
  BY DEF Nth, NthOf, C, g_head
<1>2. Length = LengthOf(link) /\ Length' = LengthOf(link')
  BY <1>1 DEF Length, LengthOf, C
<1> QED BY <1>1, <1>2

LEMMA Sizes == C \in Nat
BY EventsAssumption, FS_CardinalityType DEF C

(* The definition of NthOf has a solution: one is put together from the first on. *)
LEMMA Steps ==
    ASSUME NEW m
    PROVE  /\ NthOf(m)[1] = m[HEAD]
           /\ \A n \in 1 .. C : NthOf(m)[n + 1] = After(m, NthOf(m)[n])
<1> DEFINE G(f, n) == IF n = 1 THEN m[HEAD] ELSE IF f[n - 1] = NULL THEN NULL ELSE m[f[n - 1]]
           b == C + 1
           S == {k \in 1 .. b : \E f : f = [n \in 1 .. k |-> G(f, n)]}
<1>1. C \in Nat
  BY Sizes
<1>2. 1 \in S
  <2> DEFINE f == [n \in 1 .. 1 |-> m[HEAD]]
  <2>1. f = [n \in 1 .. 1 |-> G(f, n)]
    OBVIOUS
  <2> HIDE DEF f, G
  <2>2. \E g : g = [n \in 1 .. 1 |-> G(g, n)]
    BY <2>1
  <2> QED BY <1>1, <2>2
<1>3. ASSUME NEW k \in 1 .. b - 1, k \in S PROVE k + 1 \in S
  <2>1. PICK f : f = [n \in 1 .. k |-> G(f, n)]
    BY <1>3
  <2> DEFINE g == [n \in 1 .. k + 1 |-> IF n <= k THEN f[n] ELSE G(f, n)]
  <2>2. ASSUME NEW n \in 1 .. k + 1 PROVE g[n] = G(g, n)
    <3>1. n = 1 \/ (n - 1 \in 1 .. k /\ g[n - 1] = f[n - 1])
      BY <1>1, <1>3
    <3>2. g[n] = G(f, n)
      <4>1. CASE n = k + 1
        <5> HIDE DEF G
        <5> QED BY <4>1, <1>1, <1>3
      <4>2. CASE n # k + 1
        <5>1. n \in 1 .. k
          BY <4>2, <1>3
        <5> HIDE DEF G
        <5>2. g[n] = f[n]
          BY <5>1, <1>1, <1>3
        <5>3. f[n] = G(f, n)
          BY <2>1, <5>1
        <5> QED BY <5>2, <5>3
      <4> QED BY <4>1, <4>2
    <3>3. G(g, n) = G(f, n)
      <4> HIDE DEF g
      <4> QED BY <3>1
    <3> QED BY <3>2, <3>3
  <2> HIDE DEF G
  <2>3. g = [n \in 1 .. k + 1 |-> g[n]]
    OBVIOUS
  <2> HIDE DEF g
  <2>4. g = [n \in 1 .. k + 1 |-> G(g, n)]
    BY <2>2, <2>3
  <2>5. k + 1 \in 1 .. b
    BY <1>1, <1>3
  <2> QED BY <2>4, <2>5
<1>4. PICK f : f = [n \in 1 .. C + 1 |-> G(f, n)]
  <2>1. b \in Nat /\ 1 \in Nat /\ b \in 1 .. b
    BY <1>1
  <2> HIDE DEF S, b
  <2>2. \A k \in 1 .. b : k \in S
    BY <2>1, <1>2, <1>3, Upwards
  <2>3. b \in S
    BY <2>1, <2>2
  <2> QED BY <2>3 DEF S, b
<1> DEFINE r == NthOf(m)
<1>5. r = [n \in 1 .. C + 1 |-> G(r, n)]
  BY <1>4 DEF NthOf
<1> HIDE DEF r
<1>6. \A n \in 1 .. C + 1 : r[n] = G(r, n)
  <2> HIDE DEF G
  <2> QED BY <1>5
<1>7. r[1] = m[HEAD]
  BY <1>1, <1>6
<1>8. ASSUME NEW n \in 1 .. C PROVE r[n + 1] = After(m, r[n])
  <2>1. n + 1 \in 1 .. C + 1 /\ n + 1 # 1 /\ (n + 1) - 1 = n
    BY <1>1
  <2> QED BY <1>6, <2>1 DEF After
<1> QED BY <1>7, <1>8 DEF r

-----------------------------------------------------------------------------
(* The links m are those of the events q[1], ..., q[n], one after the other. *)
Chain(m, n, q) ==
    /\ n \in Nat
    /\ q[0] = HEAD /\ q[n + 1] = NULL
    /\ \A i \in 1 .. n : q[i] \in Events
    /\ \A i \in 0 .. n : m[q[i]] = q[i + 1]
    /\ \A i, j \in 1 .. n : q[i] = q[j] => i = j

LEMMA ChainFits ==
    ASSUME NEW m, NEW n, NEW q, Chain(m, n, q)
    PROVE  n \in 0 .. C
<1>1. n \in Nat /\ C \in Nat
  BY Sizes DEF Chain
<1> DEFINE f == [i \in 1 .. n |-> q[i]]
<1>2. f \in Injection(1 .. n, Events)
  BY DEF Chain, Injection, IsInjective
<1> HIDE DEF f
<1>3. Cardinality(1 .. n) <= C
  BY <1>2, EventsAssumption, FS_Injection DEF C
<1>4. Cardinality(1 .. n) = n
  <2>1. 1 \in Int /\ n \in Int
    BY <1>1
  <2>2. Cardinality(1 .. n) = IF 1 > n THEN 0 ELSE n - 1 + 1
    BY <2>1, FS_Interval
  <2> QED BY <1>1, <2>2
<1> QED BY <1>1, <1>3, <1>4

(* Whoever follows the links of a chain finds its events, and no more. *)
LEMMA Follows ==
    ASSUME NEW m, NEW n, NEW q, Chain(m, n, q)
    PROVE  /\ LengthOf(m) = n
           /\ \A i \in 1 .. n + 1 : NthOf(m)[i] = q[i]
<1> DEFINE r == NthOf(m)
           a == n + 1
           b == C + 1
           S == {i \in 1 .. a : r[i] = q[i]}
           T == {i \in a .. b : r[i] = NULL}
<1>1. n \in Nat /\ C \in Nat /\ n <= C /\ a \in Nat /\ b \in Nat
  BY Sizes, ChainFits
<1>2. 1 \in S
  <2>1. r[1] = m[HEAD]
    BY Steps
  <2>2. m[q[0]] = q[0 + 1] /\ q[0] = HEAD
    BY <1>1 DEF Chain
  <2> QED BY <1>1, <2>1, <2>2
<1>3. ASSUME NEW i \in 1 .. a - 1, i \in S PROVE i + 1 \in S
  <2>1. i \in 1 .. n /\ i \in 0 .. n /\ i \in 1 .. C /\ i + 1 \in 1 .. n + 1
    BY <1>1
  <2>2. r[i + 1] = After(m, r[i])
    BY <2>1, Steps
  <2>3. r[i] = q[i] /\ q[i] \in Events /\ m[q[i]] = q[i + 1]
    BY <1>3, <2>1 DEF Chain
  <2>4. r[i + 1] = q[i + 1]
    BY <2>2, <2>3, PointersAssumption DEF After
  <2> HIDE DEF r
  <2> QED BY <2>1, <2>4
<1>4. \A i \in 1 .. a : i \in S
  <2> HIDE DEF S, a
  <2> QED BY <1>1, <1>2, <1>3, Upwards
<1>5. a \in T
  <2>1. r[n + 1] = q[n + 1]
    BY <1>1, <1>4
  <2>2. q[n + 1] = NULL
    BY DEF Chain
  <2> HIDE DEF r
  <2> QED BY <1>1, <2>1, <2>2
<1>6. ASSUME NEW i \in a .. b - 1, i \in T PROVE i + 1 \in T
  <2>1. i \in 1 .. C /\ i + 1 \in n + 1 .. C + 1
    BY <1>1
  <2>2. r[i + 1] = After(m, r[i])
    BY <2>1, Steps
  <2>3. r[i + 1] = NULL
    BY <2>2, <1>6 DEF After
  <2> HIDE DEF r
  <2> QED BY <2>1, <2>3
<1>7. \A i \in a .. b : i \in T
  <2> HIDE DEF T, a, b
  <2> QED BY <1>1, <1>5, <1>6, Upwards
<1>8. \A i \in 1 .. n : r[i] # NULL
  <2> SUFFICES ASSUME NEW i \in 1 .. n PROVE r[i] # NULL
    OBVIOUS
  <2>1. r[i] = q[i]
    BY <1>1, <1>4
  <2>2. q[i] \in Events
    BY DEF Chain
  <2> HIDE DEF r
  <2> QED BY <2>1, <2>2, PointersAssumption
<1>9. {i \in 1 .. C : r[i] # NULL} = 1 .. n
  <2> HIDE DEF r
  <2> QED BY <1>1, <1>7, <1>8
<1>10. Cardinality(1 .. n) = n
  <2>1. 1 \in Int /\ n \in Int
    BY <1>1
  <2>2. Cardinality(1 .. n) = IF 1 > n THEN 0 ELSE n - 1 + 1
    BY <2>1, FS_Interval
  <2> QED BY <1>1, <2>2
<1> QED BY <1>4, <1>9, <1>10 DEF LengthOf

PlaceOf(m) == [i \in 0 .. LengthOf(m) + 1 |-> IF i = 0 THEN HEAD ELSE NthOf(m)[i]]

(* A chain in the order of the deadlines d, and no link off it. *)
IsList(m, d, n, q) ==
    /\ Chain(m, n, q)
    /\ \A i, j \in 1 .. n : i <= j => d[q[i]] <= d[q[j]]
    /\ \A e \in Events : (\A i \in 1 .. n : q[i] # e) => m[e] = NULL

LEMMA Found ==
    ASSUME NEW m, NEW d, NEW n, NEW q, IsList(m, d, n, q)
    PROVE  /\ LengthOf(m) = n
           /\ IsList(m, d, n, PlaceOf(m))
           /\ \A i \in 0 .. n + 1 : PlaceOf(m)[i] = q[i]
           /\ \A i \in 1 .. n + 1 : NthOf(m)[i] = PlaceOf(m)[i]
<1> DEFINE p == PlaceOf(m)
<1>1. n \in Nat
  BY DEF IsList, Chain
<1>2. LengthOf(m) = n /\ \A i \in 1 .. n + 1 : NthOf(m)[i] = q[i]
  BY Follows DEF IsList
<1>3. \A i \in 0 .. n + 1 : p[i] = IF i = 0 THEN HEAD ELSE NthOf(m)[i]
  BY <1>2 DEF PlaceOf
<1> HIDE DEF p
<1>4. \A i \in 0 .. n + 1 : p[i] = q[i]
  BY <1>1, <1>2, <1>3 DEF IsList, Chain
<1>5. \A i \in 1 .. n + 1 : NthOf(m)[i] = p[i]
  BY <1>1, <1>2, <1>4
<1>6. Chain(m, n, p)
  <2>1. p[0] = HEAD /\ p[n + 1] = NULL
    BY <1>1, <1>4 DEF IsList, Chain
  <2>2. \A i \in 1 .. n : p[i] \in Events
    BY <1>1, <1>4 DEF IsList, Chain
  <2>3. ASSUME NEW i \in 0 .. n PROVE m[p[i]] = p[i + 1]
    <3>1. p[i] = q[i] /\ p[i + 1] = q[i + 1]
      BY <1>1, <1>4
    <3> QED BY <3>1 DEF IsList, Chain
  <2>4. ASSUME NEW i \in 1 .. n, NEW j \in 1 .. n, p[i] = p[j] PROVE i = j
    <3>1. p[i] = q[i] /\ p[j] = q[j]
      BY <1>1, <1>4
    <3> QED BY <2>4, <3>1 DEF IsList, Chain
  <2> QED BY <1>1, <2>1, <2>2, <2>3, <2>4 DEF Chain
<1>7. ASSUME NEW i \in 1 .. n, NEW j \in 1 .. n, i <= j PROVE d[p[i]] <= d[p[j]]
  <2>1. p[i] = q[i] /\ p[j] = q[j]
    BY <1>1, <1>4
  <2> QED BY <1>7, <2>1 DEF IsList
<1>8. ASSUME NEW e \in Events, \A i \in 1 .. n : p[i] # e PROVE m[e] = NULL
  <2>1. \A i \in 1 .. n : p[i] = q[i]
    BY <1>1, <1>4
  <2> QED BY <1>8, <2>1 DEF IsList
<1> QED BY <1>2, <1>4, <1>5, <1>6, <1>7, <1>8 DEF p, IsList

-----------------------------------------------------------------------------
(* What the two changes of the links do to a list. *)
Links == [Events \cup {HEAD} -> Events \cup {NULL}]

With(q, n, k, e) ==
    [i \in 0 .. n + 2 |-> IF i <= k THEN q[i] ELSE IF i = k + 1 THEN e ELSE q[i - 1]]

LEMMA Insertion ==
    ASSUME NEW m \in Links, NEW d \in [Events -> Nat], NEW n, NEW q, IsList(m, d, n, q),
           NEW e \in Events, \A i \in 1 .. n : q[i] # e,
           NEW k \in 0 .. n, \A i \in 1 .. k : d[q[i]] <= d[e],
           k # n => d[e] < d[q[k + 1]]
    PROVE  IsList([m EXCEPT ![e] = m[q[k]], ![q[k]] = e], d, n + 1, With(q, n, k, e))
<1> DEFINE mm == [m EXCEPT ![e] = m[q[k]], ![q[k]] = e]
           p == With(q, n, k, e)
<1>1. n \in Nat /\ n + 1 \in Nat /\ q[0] = HEAD /\ q[n + 1] = NULL
  BY DEF IsList, Chain
<1>2. \A i \in 1 .. n : q[i] \in Events
  BY DEF IsList, Chain
<1>3. \A i \in 0 .. n : q[i] \in Events \cup {HEAD} /\ q[i] # e
  BY <1>1, <1>2, PointersAssumption
<1>4. q[k] \in Events \cup {HEAD} /\ q[k] # e /\ e # HEAD
  BY <1>3, PointersAssumption
<1>5. mm[q[k]] = e /\ mm[e] = m[q[k]] /\ \A x \in Events \cup {HEAD} : x # e /\ x # q[k] => mm[x] = m[x]
  BY <1>4 DEF Links
<1>6. /\ \A i \in 0 .. k : p[i] = q[i]
      /\ p[k + 1] = e
      /\ \A i \in k + 1 .. n + 1 : p[i + 1] = q[i]
  BY <1>1 DEF With
<1> HIDE DEF mm, p
<1>7. \A i, j \in 0 .. n : q[i] = q[j] => i = j
  BY <1>1, <1>2, PointersAssumption DEF IsList, Chain
<1>8. \A i \in 1 .. n + 1 : p[i] \in Events
  <2> SUFFICES ASSUME NEW i \in 1 .. n + 1 PROVE p[i] \in Events
    OBVIOUS
  <2>1. CASE i <= k
    BY <1>1, <1>2, <1>6, <2>1
  <2>2. CASE i = k + 1
    BY <1>6, <2>2
  <2>3. CASE i > k + 1
    <3>1. i - 1 \in k + 1 .. n + 1 /\ i - 1 \in 1 .. n /\ (i - 1) + 1 = i
      BY <1>1, <2>3
    <3> QED BY <1>2, <1>6, <3>1
  <2> QED BY <1>1, <2>1, <2>2, <2>3
<1>9. \A i \in 0 .. n + 1 : mm[p[i]] = p[i + 1]
  <2> SUFFICES ASSUME NEW i \in 0 .. n + 1 PROVE mm[p[i]] = p[i + 1]
    OBVIOUS
  <2>1. CASE i < k
    <3>1. i \in 0 .. n /\ i \in 0 .. k /\ i + 1 \in 0 .. k
      BY <1>1, <2>1
    <3>2. q[i] # q[k] /\ q[i] # e /\ q[i] \in Events \cup {HEAD}
      BY <1>3, <1>7, <2>1, <3>1
    <3>3. m[q[i]] = q[i + 1]
      BY <3>1 DEF IsList, Chain
    <3> QED BY <1>5, <1>6, <3>1, <3>2, <3>3
  <2>2. CASE i = k
    BY <1>1, <1>5, <1>6, <2>2
  <2>3. CASE i = k + 1
    <3>1. m[q[k]] = q[k + 1]
      BY DEF IsList, Chain
    <3>2. k + 1 \in k + 1 .. n + 1
      BY <1>1
    <3> QED BY <1>5, <1>6, <2>3, <3>1, <3>2
  <2>4. CASE i > k + 1
    <3>1. i - 1 \in k + 1 .. n + 1 /\ i \in k + 1 .. n + 1 /\ i - 1 \in 0 .. n /\ (i - 1) + 1 = i /\ i - 1 # k
      BY <1>1, <2>4
    <3>2. q[i - 1] # q[k] /\ q[i - 1] # e /\ q[i - 1] \in Events \cup {HEAD}
      BY <1>3, <1>7, <3>1
    <3>3. m[q[i - 1]] = q[i]
      BY <3>1 DEF IsList, Chain
    <3>4. p[i] = q[i - 1] /\ p[i + 1] = q[i]
      BY <1>6, <3>1
    <3> QED BY <1>5, <3>2, <3>3, <3>4
  <2> QED BY <1>1, <2>1, <2>2, <2>3, <2>4
<1>10. \A i, j \in 1 .. n + 1 : i < j => p[i] # p[j] /\ d[p[i]] <= d[p[j]]
  <2> SUFFICES ASSUME NEW i \in 1 .. n + 1, NEW j \in 1 .. n + 1, i < j
               PROVE  p[i] # p[j] /\ d[p[i]] <= d[p[j]]
    OBVIOUS
  <2>0. ASSUME NEW a \in 1 .. n, NEW b \in 1 .. n, a < b PROVE q[a] # q[b] /\ d[q[a]] <= d[q[b]]
    <3>1. a \in 0 .. n /\ b \in 0 .. n /\ a # b /\ a <= b
      BY <1>1, <2>0
    <3> QED BY <1>7, <3>1 DEF IsList
  <2>1. CASE j <= k
    <3>1. i \in 0 .. k /\ j \in 0 .. k /\ i \in 1 .. n /\ j \in 1 .. n
      BY <1>1, <2>1
    <3> QED BY <1>6, <2>0, <3>1
  <2>2. CASE j = k + 1
    <3>1. i \in 0 .. k /\ i \in 1 .. k /\ i \in 0 .. n
      BY <1>1, <2>2
    <3> QED BY <1>3, <1>6, <2>2, <3>1
  <2>3. CASE i <= k /\ j > k + 1
    <3>1. i \in 0 .. k /\ i \in 1 .. n /\ j - 1 \in k + 1 .. n + 1 /\ j - 1 \in 1 .. n /\ (j - 1) + 1 = j /\ i < j - 1
      BY <1>1, <2>3
    <3> QED BY <1>6, <2>0, <3>1
  <2>4. CASE i = k + 1
    <3>1. k + 1 \in 1 .. n /\ j - 1 \in k + 1 .. n + 1 /\ j - 1 \in 1 .. n /\ (j - 1) + 1 = j /\ k # n /\ k + 1 <= j - 1
      BY <1>1, <2>4
    <3>2. d[q[k + 1]] <= d[q[j - 1]]
      BY <3>1 DEF IsList
    <3>3. d[e] \in Nat /\ d[q[k + 1]] \in Nat /\ d[q[j - 1]] \in Nat
      BY <1>2, <3>1
    <3>4. p[j] = q[j - 1] /\ p[i] = e /\ q[j - 1] # e
      BY <1>6, <2>4, <3>1
    <3>5. d[e] <= d[q[j - 1]]
      BY <3>1, <3>2, <3>3
    <3> QED BY <3>4, <3>5
  <2>5. CASE i > k + 1
    <3>1. i - 1 \in k + 1 .. n + 1 /\ i - 1 \in 1 .. n /\ (i - 1) + 1 = i
      BY <1>1, <2>5
    <3>2. j - 1 \in k + 1 .. n + 1 /\ j - 1 \in 1 .. n /\ (j - 1) + 1 = j /\ i - 1 < j - 1
      BY <1>1, <2>5
    <3> QED BY <1>6, <2>0, <3>1, <3>2
  <2> QED BY <1>1, <2>1, <2>2, <2>3, <2>4, <2>5
<1>11. \A x \in Events : (\A i \in 1 .. n + 1 : p[i] # x) => mm[x] = NULL
  <2> SUFFICES ASSUME NEW x \in Events, \A i \in 1 .. n + 1 : p[i] # x PROVE mm[x] = NULL
    OBVIOUS
  <2>1. ASSUME NEW i \in 1 .. n PROVE q[i] # x
    <3>1. CASE i <= k
      BY <1>1, <1>6, <3>1
    <3>2. CASE i > k
      <4>1. i \in k + 1 .. n + 1 /\ i + 1 \in 1 .. n + 1
        BY <1>1, <3>2
      <4> QED BY <1>6, <4>1
    <3> QED BY <1>1, <3>1, <3>2
  <2>2. x # e
    <3>1. k + 1 \in 1 .. n + 1
      BY <1>1
    <3> QED BY <1>6, <3>1
  <2>3. x # q[k]
    BY <1>1, <2>1, PointersAssumption
  <2>4. m[x] = NULL
    BY <2>1 DEF IsList
  <2> QED BY <1>5, <2>2, <2>3, <2>4
<1>12. p[0] = HEAD /\ p[(n + 1) + 1] = NULL
  BY <1>1, <1>6
<1>13. Chain(mm, n + 1, p)
  <2>1. \A i, j \in 1 .. n + 1 : p[i] = p[j] => i = j
    <3>1. \A i, j \in 1 .. n + 1 : i < j \/ j < i \/ i = j
      BY <1>1
    <3> QED BY <1>10, <3>1
  <2> QED BY <1>1, <1>8, <1>9, <1>12, <2>1 DEF Chain
<1>14. \A i, j \in 1 .. n + 1 : i <= j => d[p[i]] <= d[p[j]]
  <2>1. \A i \in 1 .. n + 1 : d[p[i]] \in Nat
    BY <1>8
  <2> QED BY <1>1, <1>10, <2>1
<1> QED BY <1>11, <1>13, <1>14 DEF IsList, mm, p

Without(q, n) == [i \in 0 .. n |-> IF i = 0 THEN HEAD ELSE q[i + 1]]

LEMMA Removal ==
    ASSUME NEW m \in Links, NEW d \in [Events -> Nat], NEW n, NEW q, IsList(m, d, n, q), n # 0
    PROVE  IsList([m EXCEPT ![HEAD] = m[q[1]], ![q[1]] = NULL], d, n - 1, Without(q, n))
<1> DEFINE mm == [m EXCEPT ![HEAD] = m[q[1]], ![q[1]] = NULL]
           p == Without(q, n)
<1>1. n \in Nat /\ n - 1 \in Nat /\ (n - 1) + 1 = n /\ q[0] = HEAD /\ q[n + 1] = NULL
  BY DEF IsList, Chain
<1>2. \A i \in 1 .. n : q[i] \in Events
  BY DEF IsList, Chain
<1>3. q[1] \in Events /\ q[1] # HEAD /\ m[q[1]] = q[2] /\ 1 \in 1 .. n
  <2>1. 1 \in 1 .. n /\ 1 \in 0 .. n /\ 1 + 1 = 2
    BY <1>1
  <2>2. q[1] \in Events /\ m[q[1]] = q[1 + 1]
    BY <2>1 DEF IsList, Chain
  <2> QED BY <2>1, <2>2, PointersAssumption
<1>4. mm[HEAD] = q[2] /\ mm[q[1]] = NULL /\ \A x \in Events : x # q[1] => mm[x] = m[x]
  BY <1>3, PointersAssumption DEF Links
<1>5. p[0] = HEAD /\ \A i \in 1 .. n : p[i] = q[i + 1]
  BY <1>1 DEF Without
<1> HIDE DEF mm, p
<1>6. \A i \in 1 .. n - 1 : p[i] = q[i + 1] /\ i + 1 \in 1 .. n /\ p[i] \in Events /\ p[i] # q[1]
  <2> SUFFICES ASSUME NEW i \in 1 .. n - 1
               PROVE  p[i] = q[i + 1] /\ i + 1 \in 1 .. n /\ p[i] \in Events /\ p[i] # q[1]
    OBVIOUS
  <2>1. i \in 1 .. n /\ i + 1 \in 1 .. n /\ i + 1 # 1
    BY <1>1
  <2>2. q[i + 1] # q[1]
    BY <1>3, <2>1 DEF IsList, Chain
  <2> QED BY <1>2, <1>5, <2>1, <2>2
<1>7. \A i \in 0 .. n - 1 : mm[p[i]] = p[i + 1]
  <2> SUFFICES ASSUME NEW i \in 0 .. n - 1 PROVE mm[p[i]] = p[i + 1]
    OBVIOUS
  <2>1. CASE i = 0
    BY <1>1, <1>4, <1>5, <2>1
  <2>2. CASE i # 0
    <3>1. i \in 1 .. n - 1 /\ i + 1 \in 1 .. n /\ i + 1 \in 0 .. n
      BY <1>1, <2>2
    <3>2. m[q[i + 1]] = q[(i + 1) + 1]
      BY <3>1 DEF IsList, Chain
    <3>3. p[i] = q[i + 1] /\ p[i] \in Events /\ p[i] # q[1]
      BY <1>6, <3>1
    <3>4. p[i + 1] = q[(i + 1) + 1]
      BY <1>5, <3>1
    <3> QED BY <1>4, <3>2, <3>3, <3>4
  <2> QED BY <2>1, <2>2
<1>8. ASSUME NEW i \in 1 .. n - 1, NEW j \in 1 .. n - 1, p[i] = p[j] PROVE i = j
  <2>1. q[i + 1] = q[j + 1] /\ i + 1 \in 1 .. n /\ j + 1 \in 1 .. n
    BY <1>6, <1>8
  <2>2. i + 1 = j + 1
    BY <2>1 DEF IsList, Chain
  <2> QED BY <1>1, <2>2
<1>9. ASSUME NEW i \in 1 .. n - 1, NEW j \in 1 .. n - 1, i <= j PROVE d[p[i]] <= d[p[j]]
  <2>1. i + 1 \in 1 .. n /\ j + 1 \in 1 .. n /\ i + 1 <= j + 1
    BY <1>1, <1>9
  <2>2. d[q[i + 1]] <= d[q[j + 1]]
    BY <2>1 DEF IsList
  <2> QED BY <1>6, <2>2
<1>10. ASSUME NEW x \in Events, \A i \in 1 .. n - 1 : p[i] # x PROVE mm[x] = NULL
  <2>1. ASSUME NEW i \in 1 .. n, x # q[1] PROVE q[i] # x
    <3>1. CASE i = 1
      BY <2>1, <3>1
    <3>2. CASE i # 1
      <4>1. i - 1 \in 1 .. n - 1 /\ (i - 1) + 1 = i
        BY <1>1, <3>2
      <4> QED BY <1>6, <1>10, <4>1
    <3> QED BY <3>1, <3>2
  <2>2. x # q[1] => m[x] = NULL
    BY <2>1 DEF IsList
  <2> QED BY <1>4, <2>2
<1>11. p[(n - 1) + 1] = NULL
  <2>1. n \in 1 .. n
    BY <1>1
  <2> QED BY <1>1, <1>5, <2>1
<1>12. Chain(mm, n - 1, p)
  BY <1>1, <1>5, <1>6, <1>7, <1>8, <1>11 DEF Chain
<1> QED BY <1>9, <1>10, <1>12 DEF IsList, mm, p

-----------------------------------------------------------------------------
(* The invariant: the links are the list of the events pending, and timerq_insert is
   at a link before which all that it has passed is due no later. *)
Place == PlaceOf(link)

Pointing ==
    Top = "insert" =>
        /\ ev \in Events /\ \A i \in 1 .. Length : Place[i] # ev
        /\ \E k \in 0 .. Length :
              pp = Place[k] /\ \A i \in 1 .. k : deadline_ns[Place[i]] <= deadline_ns[ev]

IInv == TypeOK /\ IsList(link, deadline_ns, Length, Place) /\ Pointing

(* An action that leaves the links alone. *)
LEMMA SameLinks ==
    ASSUME link' = link
    PROVE  Length' = Length /\ Place' = Place /\ Nth' = Nth /\ Listed' = Listed /\ g_head' = g_head
<1>1. Length' = Length /\ Nth' = Nth
  BY OfLinks
<1>2. Listed' = Listed
  BY <1>1 DEF Listed
<1> QED BY <1>1, <1>2 DEF Place, g_head

(* What Nth, Length, Listed and g_head are. *)
LEMMA Reading ==
    ASSUME IsList(link, deadline_ns, Length, Place)
    PROVE  /\ Length \in Nat
           /\ Place[0] = HEAD /\ Place[Length + 1] = NULL
           /\ \A i \in 1 .. Length : Place[i] \in Events /\ Nth[i] = Place[i]
           /\ \A i \in 0 .. Length : link[Place[i]] = Place[i + 1]
           /\ Listed = {Place[i] : i \in 1 .. Length}
           /\ g_head = Place[1]
           /\ g_head = NULL <=> Length = 0
<1>1. Length \in Nat /\ Place[0] = HEAD /\ Place[Length + 1] = NULL
  BY DEF IsList, Chain
<1>2. \A i \in 1 .. Length : Place[i] \in Events
  BY DEF IsList, Chain
<1>3. \A i \in 0 .. Length : link[Place[i]] = Place[i + 1]
  BY DEF IsList, Chain
<1>4. \A i \in 1 .. Length : Nth[i] = Place[i]
  <2>1. \A i \in 1 .. Length + 1 : NthOf(link)[i] = PlaceOf(link)[i]
    BY Found
  <2>2. Nth = NthOf(link)
    BY OfLinks
  <2> QED BY <1>1, <2>1, <2>2 DEF Place
<1>5. Listed = {Place[i] : i \in 1 .. Length}
  BY <1>4 DEF Listed
<1>6. g_head = Place[1]
  BY <1>1, <1>3 DEF g_head
<1>7. Length # 0 => Place[1] \in Events
  BY <1>1, <1>2
<1> QED BY <1>1, <1>2, <1>3, <1>4, <1>5, <1>6, <1>7, PointersAssumption

LEMMA InitIInv == Init => IInv
<1> SUFFICES ASSUME Init PROVE IInv
  OBVIOUS
<1> DEFINE q == [i \in 0 .. 1 |-> IF i = 0 THEN HEAD ELSE NULL]
<1>1. TypeOK
  BY MaxTimeAssumption DEF Init, TypeOK
<1>2. IsList(link, deadline_ns, 0, q)
  <2>1. q[0] = HEAD /\ q[0 + 1] = NULL
    OBVIOUS
  <2>2. link[HEAD] = NULL /\ \A e \in Events : link[e] = NULL
    BY DEF Init
  <2> HIDE DEF q
  <2> QED BY <2>1, <2>2 DEF IsList, Chain
<1> HIDE DEF q
<1>3. Length = 0 /\ IsList(link, deadline_ns, 0, Place)
  BY <1>2, Found, OfLinks DEF Place
<1>4. Top # "insert"
  BY DEF Init, Top
<1> QED BY <1>1, <1>3, <1>4 DEF IInv, Pointing

(* The calls on the stack. *)
LEMMA Entering ==
    ASSUME TypeOK
    PROVE  /\ Top \in {"idle", "callback"} /\ Enter("insert") =>
                stack' \in {<<"insert">>, <<"insert", "callback", "run">>} /\ Top' = "insert"
           /\ Top = "idle" /\ Enter("run") => stack' = <<"run">> /\ Top' = "run"
           /\ Top = "run" /\ Enter("callback") => stack' = <<"callback", "run">> /\ Top' = "callback"
<1>1. CASE stack = <<>>
  BY <1>1 DEF Top, Enter
<1>2. CASE stack = <<"insert">>
  BY <1>2 DEF Top, Enter
<1>3. CASE stack = <<"run">>
  BY <1>3 DEF Top, Enter
<1>4. CASE stack = <<"callback", "run">>
  BY <1>4 DEF Top, Enter
<1>5. CASE stack = <<"insert", "callback", "run">>
  BY <1>5 DEF Top, Enter
<1> QED BY <1>1, <1>2, <1>3, <1>4, <1>5 DEF TypeOK

LEMMA Leaving ==
    ASSUME TypeOK, Top # "idle", Leave
    PROVE  stack' \in {<<>>, <<"run">>, <<"callback", "run">>} /\ Top' # "insert"
<1>1. CASE stack = <<>>
  BY <1>1 DEF Top
<1>2. CASE stack = <<"insert">>
  BY <1>2 DEF Top, Leave
<1>3. CASE stack = <<"run">>
  BY <1>3 DEF Top, Leave
<1>4. CASE stack = <<"callback", "run">>
  BY <1>4 DEF Top, Leave
<1>5. CASE stack = <<"insert", "callback", "run">>
  BY <1>5 DEF Top, Leave
<1> QED BY <1>1, <1>2, <1>3, <1>4, <1>5 DEF TypeOK

(* One lemma per kind of step. *)
LEMMA CallInv ==
    ASSUME IInv, NEW e \in Events, NEW d \in 0 .. MaxTime, Call(e, d)
    PROVE  IInv'
<1>1. TypeOK /\ IsList(link, deadline_ns, Length, Place) /\ Length \in Nat /\ Place[0] = HEAD
  BY Reading DEF IInv
<1>2. stack' \in {<<"insert">>, <<"insert", "callback", "run">>} /\ Top' = "insert"
  BY <1>1, Entering DEF Call
<1>3. link' = link /\ ev' = e /\ pp' = HEAD /\ deadline_ns' = [deadline_ns EXCEPT ![e] = d]
      /\ clock' = clock /\ now' = now
  BY DEF Call
<1>4. Length' = Length /\ Place' = Place
  BY <1>3, SameLinks
<1>5. \A i \in 1 .. Length : Place[i] # e /\ Place[i] \in Events
  BY <1>1, Reading DEF Call
<1>6. TypeOK'
  BY <1>1, <1>2, <1>3 DEF TypeOK
<1>7. \A i \in 1 .. Length : deadline_ns'[Place[i]] = deadline_ns[Place[i]]
  BY <1>1, <1>3, <1>5 DEF TypeOK
<1>8. IsList(link', deadline_ns', Length', Place')
  BY <1>1, <1>3, <1>4, <1>7 DEF IsList
<1>9. Pointing'
  <2>1. 0 \in 0 .. Length /\ \A i \in 1 .. 0 : FALSE
    BY <1>1
  <2> QED BY <1>1, <1>3, <1>4, <1>5, <2>1 DEF Pointing
<1> QED BY <1>6, <1>8, <1>9 DEF IInv

LEMMA WalkInv == ASSUME IInv, Walk PROVE IInv'
<1>1. /\ TypeOK /\ IsList(link, deadline_ns, Length, Place) /\ Pointing /\ Length \in Nat
      /\ Place[Length + 1] = NULL
      /\ \A i \in 1 .. Length : Place[i] \in Events
      /\ \A i \in 0 .. Length : link[Place[i]] = Place[i + 1]
  BY Reading DEF IInv
<1>2. Top = "insert" /\ link[pp] # NULL /\ deadline_ns[link[pp]] <= deadline_ns[ev] /\ pp' = link[pp]
      /\ UNCHANGED <<link, deadline_ns, clock, now, ev, stack>>
  BY DEF Walk, Passes
<1>3. Length' = Length /\ Place' = Place
  BY <1>2, SameLinks
<1>4. PICK k \in 0 .. Length :
         pp = Place[k] /\ \A i \in 1 .. k : deadline_ns[Place[i]] <= deadline_ns[ev]
  BY <1>1, <1>2 DEF Pointing
<1>5. k + 1 \in 1 .. Length /\ pp' = Place[k + 1] /\ deadline_ns[Place[k + 1]] <= deadline_ns[ev]
  BY <1>1, <1>2, <1>4
<1>6. \A i \in 1 .. k + 1 : deadline_ns[Place[i]] <= deadline_ns[ev]
  BY <1>4, <1>5
<1>7. TypeOK'
  BY <1>1, <1>2, <1>5 DEF TypeOK
<1>8. Pointing'
  <2>1. k + 1 \in 0 .. Length
    BY <1>1, <1>5
  <2> QED BY <1>1, <1>2, <1>3, <1>5, <1>6, <2>1 DEF Pointing
<1>9. IsList(link', deadline_ns', Length', Place')
  BY <1>1, <1>2, <1>3
<1> QED BY <1>7, <1>8, <1>9 DEF IInv

(* Where timerq_insert has come to, when it links the event in. *)
LEMMA LinkAt ==
    ASSUME IInv, Link
    PROVE  \E k \in 0 .. Length :
              /\ k # Length => deadline_ns[ev] < deadline_ns[Place[k + 1]]
              /\ \A i \in 1 .. k : deadline_ns[Place[i]] <= deadline_ns[ev]
              /\ IsList(link', deadline_ns, Length + 1, With(Place, Length, k, ev))
<1>1. /\ TypeOK /\ IsList(link, deadline_ns, Length, Place) /\ Pointing /\ Length \in Nat
      /\ \A i \in 1 .. Length : Place[i] \in Events
      /\ \A i \in 0 .. Length : link[Place[i]] = Place[i + 1]
  BY Reading DEF IInv
<1>2. Top = "insert" /\ ~(link[pp] # NULL /\ deadline_ns[link[pp]] <= deadline_ns[ev])
      /\ link' = [link EXCEPT ![ev] = link[pp], ![pp] = ev]
  BY DEF Link, Linked, Passes
<1>3. ev \in Events /\ \A i \in 1 .. Length : Place[i] # ev
  BY <1>1, <1>2 DEF Pointing
<1>4. PICK k \in 0 .. Length :
         pp = Place[k] /\ \A i \in 1 .. k : deadline_ns[Place[i]] <= deadline_ns[ev]
  BY <1>1, <1>2 DEF Pointing
<1>5. link \in Links /\ deadline_ns \in [Events -> Nat]
  BY <1>1, MaxTimeAssumption DEF TypeOK, Links
<1>6. k # Length => deadline_ns[ev] < deadline_ns[Place[k + 1]]
  <2> SUFFICES ASSUME k # Length PROVE deadline_ns[ev] < deadline_ns[Place[k + 1]]
    OBVIOUS
  <2>1. k + 1 \in 1 .. Length /\ Place[k + 1] \in Events /\ link[pp] = Place[k + 1]
    BY <1>1, <1>4
  <2>2. ~ (deadline_ns[Place[k + 1]] <= deadline_ns[ev])
    BY <1>2, <2>1, PointersAssumption
  <2>3. deadline_ns[Place[k + 1]] \in Nat /\ deadline_ns[ev] \in Nat
    BY <1>3, <1>5, <2>1
  <2> QED BY <2>2, <2>3
<1> DEFINE n == Length
           q == Place
           mm == [link EXCEPT ![ev] = link[pp], ![pp] = ev]
<1>7. mm = [link EXCEPT ![ev] = link[q[k]], ![q[k]] = ev]
  BY <1>4
<1>8. /\ IsList(link, deadline_ns, n, q) /\ k \in 0 .. n
      /\ \A i \in 1 .. n : q[i] # ev
      /\ \A i \in 1 .. k : deadline_ns[q[i]] <= deadline_ns[ev]
      /\ k # n => deadline_ns[ev] < deadline_ns[q[k + 1]]
  BY <1>1, <1>3, <1>4, <1>6
<1> HIDE DEF n, q, mm
<1>9. IsList(mm, deadline_ns, n + 1, With(q, n, k, ev))
  BY <1>3, <1>5, <1>7, <1>8, Insertion
<1>10. link' = mm
  BY <1>2 DEF mm
<1> QED BY <1>4, <1>6, <1>9, <1>10 DEF n, q

LEMMA LinkInv == ASSUME IInv, Link PROVE IInv'
<1>1. TypeOK /\ IsList(link, deadline_ns, Length, Place) /\ Pointing /\ Length \in Nat
  BY Reading DEF IInv
<1>2. deadline_ns' = deadline_ns /\ clock' = clock /\ now' = now /\ pp' = HEAD /\ ev' = NULL
      /\ Top = "insert" /\ Leave /\ link' = [link EXCEPT ![ev] = link[pp], ![pp] = ev]
  BY DEF Link, Linked
<1>3. PICK k \in 0 .. Length : IsList(link', deadline_ns, Length + 1, With(Place, Length, k, ev))
  BY LinkAt
<1> DEFINE m == link'
           n == Length + 1
           q == With(Place, Length, k, ev)
<1>4. IsList(m, deadline_ns', n, q)
  BY <1>2, <1>3
<1>5. Length' = LengthOf(m) /\ Place' = PlaceOf(m)
  BY OfLinks DEF Place
<1> HIDE DEF m, n, q
<1>6. IsList(m, deadline_ns', LengthOf(m), PlaceOf(m))
  BY <1>4, Found
<1>7. IsList(link', deadline_ns', Length', Place')
  BY <1>5, <1>6 DEF m
<1>8. stack' \in {<<>>, <<"run">>, <<"callback", "run">>} /\ Top' # "insert"
  BY <1>1, <1>2, Leaving
<1>9. ev \in Events
  BY <1>1, <1>2 DEF Pointing
<1>10. TypeOK'
  BY <1>1, <1>2, <1>8, <1>9 DEF TypeOK
<1> QED BY <1>7, <1>8, <1>10 DEF IInv, Pointing

LEMMA PopAt ==
    ASSUME IInv, Pop
    PROVE  /\ Length # 0 /\ deadline_ns[Place[1]] <= now
           /\ IsList(link', deadline_ns, Length - 1, Without(Place, Length))
<1>1. /\ TypeOK /\ IsList(link, deadline_ns, Length, Place) /\ Length \in Nat
      /\ g_head = Place[1] /\ (g_head = NULL <=> Length = 0)
  BY Reading DEF IInv
<1>2. g_head # NULL /\ deadline_ns[g_head] <= now
      /\ link' = [link EXCEPT ![HEAD] = link[g_head], ![g_head] = NULL]
  BY DEF Pop, Expired, Popped
<1>3. link \in Links /\ deadline_ns \in [Events -> Nat]
  BY <1>1, MaxTimeAssumption DEF TypeOK, Links
<1> DEFINE n == Length
           q == Place
<1>4. link' = [link EXCEPT ![HEAD] = link[q[1]], ![q[1]] = NULL] /\ n # 0 /\ IsList(link, deadline_ns, n, q)
  BY <1>1, <1>2
<1> HIDE DEF n, q
<1>5. IsList(link', deadline_ns, n - 1, Without(q, n))
  BY <1>3, <1>4, Removal
<1> QED BY <1>1, <1>2, <1>5 DEF n, q

LEMMA PopInv == ASSUME IInv, Pop PROVE IInv'
<1>1. TypeOK /\ Length \in Nat /\ (Length # 0 => Place[1] \in Events) /\ g_head = Place[1]
  BY Reading DEF IInv
<1>2. deadline_ns' = deadline_ns /\ clock' = clock /\ now' = now /\ pp' = pp /\ ev' = ev
      /\ Top = "run" /\ Enter("callback") /\ link' = [link EXCEPT ![HEAD] = link[g_head], ![g_head] = NULL]
  BY DEF Pop, Popped
<1>3. Length # 0 /\ IsList(link', deadline_ns, Length - 1, Without(Place, Length))
  BY PopAt
<1> DEFINE m == link'
           n == Length - 1
           q == Without(Place, Length)
<1>4. IsList(m, deadline_ns', n, q)
  BY <1>2, <1>3
<1>5. Length' = LengthOf(m) /\ Place' = PlaceOf(m)
  BY OfLinks DEF Place
<1> HIDE DEF m, n, q
<1>6. IsList(m, deadline_ns', LengthOf(m), PlaceOf(m))
  BY <1>4, Found
<1>7. IsList(link', deadline_ns', Length', Place')
  BY <1>5, <1>6 DEF m
<1>8. stack' = <<"callback", "run">> /\ Top' = "callback"
  BY <1>1, <1>2, Entering
<1>9. g_head \in Events /\ link[g_head] \in Events \cup {NULL}
  BY <1>1, <1>3 DEF TypeOK
<1>10. TypeOK'
  <2>1. link' \in [Events \cup {HEAD} -> Events \cup {NULL}]
    BY <1>1, <1>2, <1>9 DEF TypeOK
  <2> QED BY <1>1, <1>2, <1>8, <2>1 DEF TypeOK
<1> QED BY <1>7, <1>8, <1>10 DEF IInv, Pointing

LEMMA StepIInv == IInv /\ [Next]_vars => IInv'
<1> SUFFICES ASSUME IInv, [Next]_vars PROVE IInv'
  OBVIOUS
<1>1. TypeOK /\ IsList(link, deadline_ns, Length, Place) /\ Pointing
  BY DEF IInv
<1>2. ASSUME UNCHANGED <<link, deadline_ns, pp, ev>>, TypeOK', Top' = "insert" => Top = "insert"
      PROVE  IInv'
  <2>1. Length' = Length /\ Place' = Place
    BY <1>2, SameLinks
  <2>2. IsList(link', deadline_ns', Length', Place')
    BY <1>1, <1>2, <2>1
  <2>3. Pointing'
    BY <1>1, <1>2, <2>1 DEF Pointing
  <2> QED BY <1>2, <2>2, <2>3 DEF IInv
<1>3. CASE Start
  <2>1. stack' = <<"run">> /\ Top' = "run"
    BY <1>1, <1>3, Entering DEF Start
  <2>2. UNCHANGED <<link, deadline_ns, pp, ev>> /\ TypeOK'
    BY <1>1, <1>3, <2>1 DEF Start, TypeOK
  <2> QED BY <1>2, <2>1, <2>2
<1>4. CASE CallbackReturns \/ Finish
  <2>1. UNCHANGED <<link, deadline_ns, clock, now, pp, ev>> /\ Leave /\ Top # "idle"
    BY <1>4 DEF CallbackReturns, Finish
  <2>2. stack' \in {<<>>, <<"run">>, <<"callback", "run">>} /\ Top' # "insert"
    BY <1>1, <2>1, Leaving
  <2>3. TypeOK'
    BY <1>1, <2>1, <2>2 DEF TypeOK
  <2> QED BY <1>2, <2>1, <2>2, <2>3
<1>5. CASE Tick \/ UNCHANGED vars
  <2>1. UNCHANGED <<link, deadline_ns, now, pp, ev, stack>> /\ Top' = Top
    BY <1>5 DEF Tick, vars, Top
  <2>2. clock' \in 0 .. MaxTime /\ now \in 0 .. clock'
    BY <1>1, <1>5, MaxTimeAssumption DEF Tick, vars, TypeOK
  <2>3. TypeOK'
    BY <1>1, <2>1, <2>2 DEF TypeOK
  <2> QED BY <1>2, <2>1, <2>3
<1> QED BY <1>3, <1>4, <1>5, CallInv, WalkInv, LinkInv, PopInv DEF Next

(* The list is one, whatever clients and callbacks do. *)
THEOREM Invariant == Spec => []IInv
BY InitIInv, StepIInv, PTL DEF Spec

-----------------------------------------------------------------------------
(* The pointers, the deadlines, the clock and the calls in progress keep their types
   (TypeOK). *)
THEOREM TypeCorrect == Spec => []TypeOK
<1>1. IInv => TypeOK
  BY DEF IInv
<1> QED BY <1>1, Invariant, PTL

(* An event off the list has no link into it, whether timerq_run_expired has taken it
   off or nothing has put it on (UnlinkedIsClean). *)
THEOREM Clean == Spec => []UnlinkedIsClean
<1>1. IInv => UnlinkedIsClean
  <2> SUFFICES ASSUME IInv, NEW e \in Events \ Listed PROVE link[e] = NULL
    BY DEF UnlinkedIsClean
  <2>1. IsList(link, deadline_ns, Length, Place)
    BY DEF IInv
  <2>2. \A i \in 1 .. Length : Place[i] # e
    BY <2>1, Reading
  <2> QED BY <2>1, <2>2 DEF IsList
<1> QED BY <1>1, Invariant, PTL

(* When timerq_run_expired returns, every event on the list is due later than the
   time it was called with (NoneLeftBehind): it stops at the first that is. *)
THEOREM NoneLeft == Spec => NoneLeftBehind
<1>1. ASSUME IInv, Finish PROVE \A e \in Listed : deadline_ns[e] > now
  <2>1. /\ IsList(link, deadline_ns, Length, Place) /\ TypeOK /\ Length \in Nat
        /\ \A i \in 1 .. Length : Place[i] \in Events
        /\ Listed = {Place[i] : i \in 1 .. Length}
        /\ g_head = Place[1] /\ (g_head = NULL <=> Length = 0)
    BY <1>1, Reading DEF IInv
  <2> SUFFICES ASSUME NEW i \in 1 .. Length PROVE deadline_ns[Place[i]] > now
    BY <2>1
  <2>2. 1 \in 1 .. Length /\ 1 <= i
    BY <2>1
  <2>3. g_head # NULL /\ ~ (deadline_ns[Place[1]] <= now)
    BY <1>1, <2>1, <2>2 DEF Finish, Expired
  <2>4. deadline_ns[Place[1]] <= deadline_ns[Place[i]]
    BY <2>1, <2>2 DEF IsList
  <2>5. deadline_ns[Place[1]] \in Nat /\ deadline_ns[Place[i]] \in Nat /\ now \in Nat
    BY <2>1, <2>2, MaxTimeAssumption DEF TypeOK
  <2> QED BY <2>3, <2>4, <2>5
<1>2. IInv /\ [Next]_vars => [Top = "run" /\ Finish => \A e \in Listed : deadline_ns[e] > now]_vars
  BY <1>1
<1> QED BY <1>2, Invariant, PTL DEF Spec, NoneLeftBehind

-----------------------------------------------------------------------------
(* The abstract queue, of any list. *)
Entry(d, e) == [event |-> e, due |-> d[e]]
Entries     == [event : Events, due : Nat]

QueueOf(d, n, q) == [i \in 1 .. n |-> Entry(d, q[i])]

LEMMA QueueSeq ==
    ASSUME NEW d \in [Events -> Nat], NEW n \in Nat, NEW q, \A i \in 1 .. n : q[i] \in Events
    PROVE  /\ QueueOf(d, n, q) \in Seq(Entries) /\ Len(QueueOf(d, n, q)) = n
           /\ \A i \in 1 .. n : QueueOf(d, n, q)[i] = Entry(d, q[i])
<1>1. \A i \in 1 .. n : Entry(d, q[i]) \in Entries
  BY DEF Entry, Entries
<1> QED BY <1>1 DEF QueueOf

LEMMA QueueInsertion ==
    ASSUME NEW d \in [Events -> Nat], NEW n \in Nat, NEW q, \A i \in 1 .. n : q[i] \in Events,
           NEW e \in Events, NEW k \in 0 .. n
    PROVE  LET s == QueueOf(d, n, q) IN
           QueueOf(d, n + 1, With(q, n, k, e))
              = SubSeq(s, 1, k) \o <<Entry(d, e)>> \o SubSeq(s, k + 1, Len(s))
<1> DEFINE s == QueueOf(d, n, q)
           p == With(q, n, k, e)
           t == QueueOf(d, n + 1, p)
           a == SubSeq(s, 1, k)
           b == SubSeq(s, k + 1, n)
           x == Entry(d, e)
<1>1. s \in Seq(Entries) /\ Len(s) = n /\ \A i \in 1 .. n : s[i] = Entry(d, q[i]) /\ s[i] \in Entries
  BY QueueSeq, ElementOfSeq
<1>2. /\ \A i \in 1 .. k : p[i] = q[i]
      /\ p[k + 1] = e
      /\ \A i \in k + 1 .. n : p[i + 1] = q[i]
  BY DEF With
<1>3. \A i \in 1 .. n + 1 : p[i] \in Events
  <2> HIDE DEF p
  <2> SUFFICES ASSUME NEW i \in 1 .. n + 1 PROVE p[i] \in Events
    OBVIOUS
  <2>1. CASE i <= k
    BY <1>2, <2>1
  <2>2. CASE i = k + 1
    BY <1>2, <2>2
  <2>3. CASE i > k + 1
    <3>1. i - 1 \in k + 1 .. n /\ (i - 1) + 1 = i /\ i - 1 \in 1 .. n
      BY <2>3
    <3> QED BY <1>2, <3>1
  <2> QED BY <2>1, <2>2, <2>3
<1> HIDE DEF p
<1>4. t \in Seq(Entries) /\ Len(t) = n + 1 /\ \A i \in 1 .. n + 1 : t[i] = Entry(d, p[i])
  <2> DEFINE l == n + 1
  <2>1. l \in Nat /\ \A i \in 1 .. l : p[i] \in Events
    BY <1>3
  <2> HIDE DEF l
  <2>2. QueueOf(d, l, p) \in Seq(Entries) /\ Len(QueueOf(d, l, p)) = l
        /\ \A i \in 1 .. l : QueueOf(d, l, p)[i] = Entry(d, p[i])
    BY <2>1, QueueSeq
  <2> QED BY <2>2 DEF l
<1>5. x \in Entries
  BY DEF Entry, Entries
<1> HIDE DEF s, t, x
<1>6. a \in Seq(Entries) /\ Len(a) = k /\ \A i \in 1 .. k : a[i] = s[i]
  <2>1. \A i \in 1 .. k : s[i] \in Entries
    BY <1>1
  <2>2. 1 \in Int /\ k \in Int
    OBVIOUS
  <2>3. /\ SubSeq(s, 1, k) \in Seq(Entries)
        /\ Len(SubSeq(s, 1, k)) = IF 1 <= k THEN k - 1 + 1 ELSE 0
        /\ \A i \in 1 .. k - 1 + 1 : SubSeq(s, 1, k)[i] = s[1 + i - 1]
    BY <2>1, <2>2, SubSeqProperties
  <2> HIDE DEF a
  <2>4. a \in Seq(Entries) /\ (Len(a) = IF 1 <= k THEN k - 1 + 1 ELSE 0) /\ \A i \in 1 .. k - 1 + 1 : a[i] = s[1 + i - 1]
    BY <2>3 DEF a
  <2>5. k - 1 + 1 = k /\ (1 <= k <=> k # 0) /\ \A i \in 1 .. k : 1 + i - 1 = i
    OBVIOUS
  <2>6. \A i \in 1 .. k : a[i] = s[i]
    BY <2>4, <2>5
  <2>7. Len(a) = k
    BY <2>4, <2>5
  <2> QED BY <2>4, <2>6, <2>7
<1>7. b \in Seq(Entries) /\ Len(b) = n - k /\ \A i \in 1 .. n - k : b[i] = s[k + i]
  <2> DEFINE j == k + 1
  <2>1. j \in Int /\ n \in Int /\ \A i \in j .. n : s[i] \in Entries
    BY <1>1
  <2> HIDE DEF j
  <2>2. /\ SubSeq(s, j, n) \in Seq(Entries)
        /\ Len(SubSeq(s, j, n)) = IF j <= n THEN n - j + 1 ELSE 0
        /\ \A i \in 1 .. n - j + 1 : SubSeq(s, j, n)[i] = s[j + i - 1]
    BY <2>1, SubSeqProperties
  <2>3. b = SubSeq(s, j, n)
    BY DEF j
  <2> HIDE DEF b
  <2>4. b \in Seq(Entries) /\ (Len(b) = IF j <= n THEN n - j + 1 ELSE 0) /\ \A i \in 1 .. n - j + 1 : b[i] = s[j + i - 1]
    BY <2>2, <2>3
  <2>5. n - j + 1 = n - k /\ (j <= n <=> k < n) /\ \A i \in 1 .. n - k : j + i - 1 = k + i
    BY DEF j
  <2>6. \A i \in 1 .. n - k : b[i] = s[k + i]
    BY <2>4, <2>5
  <2>7. Len(b) = n - k
    BY <2>4, <2>5
  <2> QED BY <2>4, <2>6, <2>7
<1> HIDE DEF a, b
<1> DEFINE o == <<x>>
           u == a \o o
           v == u \o b
<1>8. o \in Seq(Entries) /\ Len(o) = 1 /\ o[1] = x
  BY <1>5
<1> HIDE DEF o
<1>9. u \in Seq(Entries) /\ Len(u) = k + 1
      /\ \A i \in 1 .. k + 1 : u[i] = IF i <= k THEN a[i] ELSE o[i - k]
  <2>1. /\ a \o o \in Seq(Entries) /\ Len(a \o o) = Len(a) + Len(o)
        /\ \A i \in 1 .. Len(a) + Len(o) : (a \o o)[i] = IF i <= Len(a) THEN a[i] ELSE o[i - Len(a)]
    BY <1>6, <1>8, ConcatProperties
  <2> QED BY <1>6, <1>8, <2>1
<1> HIDE DEF u
<1>10. v \in Seq(Entries) /\ Len(v) = n + 1
       /\ \A i \in 1 .. n + 1 : v[i] = IF i <= k + 1 THEN u[i] ELSE b[i - (k + 1)]
  <2>1. /\ u \o b \in Seq(Entries) /\ Len(u \o b) = Len(u) + Len(b)
        /\ \A i \in 1 .. Len(u) + Len(b) : (u \o b)[i] = IF i <= Len(u) THEN u[i] ELSE b[i - Len(u)]
    BY <1>7, <1>9, ConcatProperties
  <2>2. Len(u) + Len(b) = n + 1
    BY <1>7, <1>9
  <2> QED BY <1>9, <2>1, <2>2
<1> HIDE DEF v
<1>11. ASSUME NEW i \in 1 .. n + 1 PROVE t[i] = v[i]
  <2>1. t[i] = Entry(d, p[i])
    BY <1>4
  <2>2. CASE i <= k
    <3>1. i \in 1 .. k /\ i \in 1 .. n /\ i \in 1 .. k + 1
      BY <2>2
    <3>2. v[i] = s[i]
      BY <1>6, <1>9, <1>10, <3>1, <2>2
    <3> QED BY <1>1, <1>2, <2>1, <3>1, <3>2
  <2>3. CASE i = k + 1
    <3>1. v[i] = u[k + 1] /\ u[k + 1] = o[1]
      BY <1>9, <1>10, <2>3
    <3> QED BY <1>2, <1>8, <2>1, <2>3, <3>1 DEF x
  <2>4. CASE i > k + 1
    <3>1. i - 1 \in k + 1 .. n /\ (i - 1) + 1 = i /\ i - 1 \in 1 .. n /\ i - (k + 1) \in 1 .. n - k
          /\ k + (i - (k + 1)) = i - 1
      BY <2>4
    <3> DEFINE h == i - (k + 1)
    <3>2. h \in 1 .. n - k /\ k + h = i - 1 /\ ~ (i <= k + 1)
      BY <2>4, <3>1
    <3>3. v[i] = b[h]
      BY <1>10, <3>2
    <3> HIDE DEF h
    <3>4. b[h] = s[k + h]
      BY <1>7, <3>2
    <3>5. v[i] = s[i - 1]
      BY <3>2, <3>3, <3>4
    <3>6. p[i] = q[i - 1]
      BY <1>2, <3>1
    <3> QED BY <1>1, <2>1, <3>1, <3>5, <3>6
  <2> QED BY <2>2, <2>3, <2>4
<1>12. t = v
  BY <1>4, <1>10, <1>11, SeqEqual
<1>13. v = SubSeq(s, 1, k) \o <<x>> \o SubSeq(s, k + 1, Len(s))
  BY <1>1 DEF v, u, o, a, b
<1> QED BY <1>12, <1>13 DEF t, s, p, x

LEMMA QueueRemoval ==
    ASSUME NEW d \in [Events -> Nat], NEW n \in Nat \ {0}, NEW q, \A i \in 1 .. n : q[i] \in Events
    PROVE  LET s == QueueOf(d, n, q) IN
           /\ s # <<>> /\ Head(s) = Entry(d, q[1])
           /\ QueueOf(d, n - 1, Without(q, n)) = Tail(s)
<1> DEFINE s == QueueOf(d, n, q)
           p == Without(q, n)
           l == n - 1
           t == QueueOf(d, l, p)
<1>1. s \in Seq(Entries) /\ Len(s) = n /\ \A i \in 1 .. n : s[i] = Entry(d, q[i])
  BY QueueSeq
<1>2. \A i \in 1 .. l : p[i] = q[i + 1] /\ i + 1 \in 1 .. n
  BY DEF Without
<1>3. l \in Nat /\ \A i \in 1 .. l : p[i] \in Events
  BY <1>2
<1> HIDE DEF p, l
<1>4. t \in Seq(Entries) /\ Len(t) = l /\ \A i \in 1 .. l : t[i] = Entry(d, p[i])
  BY <1>3, QueueSeq
<1> HIDE DEF s, t
<1>5. s # <<>>
  BY <1>1
<1>6. Tail(s) \in Seq(Entries) /\ Len(Tail(s)) = Len(s) - 1 /\ \A i \in 1 .. Len(Tail(s)) : Tail(s)[i] = s[i + 1]
  BY <1>1, <1>5, HeadTailProperties
<1>7. \A i \in 1 .. l : t[i] = Tail(s)[i]
  BY <1>1, <1>2, <1>4, <1>6 DEF l
<1>8. t = Tail(s)
  <2>1. Len(Tail(s)) = Len(t)
    BY <1>1, <1>4, <1>6 DEF l
  <2> QED BY <1>4, <1>6, <1>7, <2>1, SeqEqual
<1>9. Head(s) = Entry(d, q[1])
  BY <1>1, <1>5
<1> QED BY <1>5, <1>8, <1>9 DEF s, t, p, l

-----------------------------------------------------------------------------
(* The queue is that of the list, whichever sequence gives its events. *)
LEMMA QueueIs ==
    /\ \A n, q : IsList(link, deadline_ns, n, q) => Queue = QueueOf(deadline_ns, n, q)
    /\ \A n, q : IsList(link', deadline_ns', n, q) => Queue' = QueueOf(deadline_ns', n, q)
<1>1. ASSUME NEW m, NEW d, NEW n, NEW q, IsList(m, d, n, q)
      PROVE  [i \in 1 .. LengthOf(m) |-> [event |-> NthOf(m)[i], due |-> d[NthOf(m)[i]]]] = QueueOf(d, n, q)
  <2>1. LengthOf(m) = n /\ \A i \in 1 .. n : NthOf(m)[i] = q[i]
    <3>1. n \in Nat
      BY <1>1 DEF IsList, Chain
    <3>2. LengthOf(m) = n /\ (\A i \in 0 .. n + 1 : PlaceOf(m)[i] = q[i]) /\ (\A i \in 1 .. n + 1 : NthOf(m)[i] = PlaceOf(m)[i])
      BY <1>1, Found
    <3> QED BY <3>1, <3>2
  <2> QED BY <2>1 DEF QueueOf, Entry
<1>2. /\ Queue = [i \in 1 .. LengthOf(link) |-> [event |-> NthOf(link)[i], due |-> deadline_ns[NthOf(link)[i]]]]
      /\ Queue' = [i \in 1 .. LengthOf(link') |-> [event |-> NthOf(link')[i], due |-> deadline_ns'[NthOf(link')[i]]]]
  BY OfLinks DEF Queue
<1> QED BY <1>1, <1>2

LEMMA QueueNow ==
    ASSUME IInv
    PROVE  /\ Queue = QueueOf(deadline_ns, Length, Place)
           /\ Length \in Nat /\ deadline_ns \in [Events -> Nat]
           /\ \A i \in 1 .. Length : Place[i] \in Events
           /\ Len(Queue) = Length /\ \A i \in 1 .. Length : Queue[i] = Entry(deadline_ns, Place[i])
<1>1. IsList(link, deadline_ns, Length, Place) /\ TypeOK
  BY DEF IInv
<1>2. Length \in Nat /\ \A i \in 1 .. Length : Place[i] \in Events
  BY <1>1, Reading
<1>3. deadline_ns \in [Events -> Nat]
  BY <1>1, MaxTimeAssumption DEF TypeOK
<1>4. Queue = QueueOf(deadline_ns, Length, Place)
  BY <1>1, QueueIs
<1> DEFINE n == Length
           q == Place
<1>5. n \in Nat /\ \A i \in 1 .. n : q[i] \in Events
  BY <1>2
<1> HIDE DEF n, q
<1>6. Len(QueueOf(deadline_ns, n, q)) = n
      /\ \A i \in 1 .. n : QueueOf(deadline_ns, n, q)[i] = Entry(deadline_ns, q[i])
  BY <1>3, <1>5, QueueSeq
<1> QED BY <1>2, <1>3, <1>4, <1>6 DEF n, q

(* timerq_insert, once it has linked the event in, has put it behind all that are due
   no later. *)
LEMMA LinkInserts == ASSUME IInv, Link PROVE Q!Insert(ev, deadline_ns[ev])
<1> DEFINE d == deadline_ns
           n == Length
           q == Place
           e == ev
<1>1. /\ Queue = QueueOf(d, n, q) /\ n \in Nat /\ d \in [Events -> Nat]
      /\ \A i \in 1 .. n : q[i] \in Events
      /\ Len(Queue) = n /\ \A i \in 1 .. n : Queue[i] = Entry(d, q[i])
  BY QueueNow
<1>2. PICK k \in 0 .. n :
         /\ k # n => d[e] < d[q[k + 1]]
         /\ \A i \in 1 .. k : d[q[i]] <= d[e]
         /\ IsList(link', d, n + 1, With(q, n, k, e))
  BY LinkAt
<1>3. e \in Events /\ (\A i \in 1 .. n : q[i] # e) /\ clock' = clock /\ deadline_ns' = d
  BY DEF IInv, Pointing, Link
<1>4. IsList(link, d, n, q)
  BY DEF IInv
<1>5. k # n => d[e] < d[q[k + 1]]
  BY <1>2
<1>6. Queue' = QueueOf(d, n + 1, With(q, n, k, e))
  BY <1>2, <1>3, QueueIs
<1> HIDE DEF d, n, q, e
<1>7. Queue' = SubSeq(Queue, 1, k) \o <<Entry(d, e)>> \o SubSeq(Queue, k + 1, Len(Queue))
  BY <1>1, <1>3, <1>6, QueueInsertion
<1>8. \A i \in DOMAIN Queue : Queue[i].event # e
  <2>1. DOMAIN Queue = 1 .. n
    BY <1>1 DEF QueueOf
  <2> QED BY <1>1, <1>3, <2>1 DEF Entry
<1>9. \A i \in 1 .. k : Queue[i].due <= d[e]
  BY <1>1, <1>2 DEF Entry
<1>10. \A i \in k + 1 .. Len(Queue) : Queue[i].due > d[e]
  <2> SUFFICES ASSUME NEW i \in k + 1 .. n PROVE Queue[i].due > d[e]
    BY <1>1
  <2>1. k + 1 \in 1 .. n /\ i \in 1 .. n /\ k + 1 <= i /\ k # n
    BY <1>1
  <2>2. d[q[k + 1]] <= d[q[i]]
    BY <1>4, <2>1 DEF IsList
  <2>3. d[e] \in Nat /\ d[q[k + 1]] \in Nat /\ d[q[i]] \in Nat
    BY <1>1, <1>3, <2>1
  <2>4. Queue[i].due = d[q[i]]
    BY <1>1, <2>1 DEF Entry
  <2> QED BY <1>5, <2>1, <2>2, <2>3, <2>4
<1>11. k \in 0 .. Len(Queue)
  BY <1>1
<1>12. Q!Insert(e, d[e])
  BY <1>3, <1>7, <1>8, <1>9, <1>10, <1>11 DEF Q!Insert, Q!Pending, Entry
<1> QED BY <1>12 DEF d, e

(* timerq_run_expired takes the first off, and it is due. *)
LEMMA PopRuns == ASSUME IInv, Pop PROVE Q!Run
<1> DEFINE d == deadline_ns
           n == Length
           q == Place
<1>1. Queue = QueueOf(d, n, q) /\ n \in Nat /\ d \in [Events -> Nat] /\ \A i \in 1 .. n : q[i] \in Events
  BY QueueNow
<1>2. n # 0 /\ d[q[1]] <= now /\ IsList(link', d, n - 1, Without(q, n))
  BY PopAt
<1>3. deadline_ns' = d /\ clock' = clock /\ now \in Nat /\ clock \in Nat /\ now <= clock
  BY MaxTimeAssumption DEF IInv, TypeOK, Pop
<1>4. Queue' = QueueOf(d, n - 1, Without(q, n))
  BY <1>2, <1>3, QueueIs
<1> HIDE DEF d, n, q
<1>5. Queue # <<>> /\ Head(Queue) = Entry(d, q[1]) /\ Queue' = Tail(Queue)
  BY <1>1, <1>2, <1>4, QueueRemoval
<1>6. d[q[1]] \in Nat
  BY <1>1, <1>2
<1>7. Head(Queue).due <= clock
  BY <1>2, <1>3, <1>5, <1>6 DEF Entry
<1> QED BY <1>3, <1>5, <1>7 DEF Q!Run

(* Whatever else happens leaves it alone. *)
LEMMA QueueKept ==
    ASSUME IInv, link' = link, \A i \in 1 .. Length : deadline_ns'[Place[i]] = deadline_ns[Place[i]]
    PROVE  Queue' = Queue
<1>1. Length' = Length /\ Place' = Place /\ Nth' = Nth
  BY SameLinks
<1>2. \A i \in 1 .. Length : Nth[i] = Place[i]
  BY Reading DEF IInv
<1> QED BY <1>1, <1>2 DEF Queue

LEMMA CallKeeps ==
    ASSUME IInv, NEW e \in Events, NEW x \in 0 .. MaxTime, Call(e, x)
    PROVE  Queue' = Queue
<1>1. e \notin Listed /\ link' = link /\ deadline_ns' = [deadline_ns EXCEPT ![e] = x]
  BY DEF Call
<1>2. Listed = {Place[i] : i \in 1 .. Length} /\ \A i \in 1 .. Length : Place[i] \in Events
  BY Reading DEF IInv
<1>3. deadline_ns \in [Events -> 0 .. MaxTime]
  BY DEF IInv, TypeOK
<1>4. \A i \in 1 .. Length : deadline_ns'[Place[i]] = deadline_ns[Place[i]]
  BY <1>1, <1>2, <1>3
<1> QED BY <1>1, <1>4, QueueKept

(* timerq.c implements the queue of PendingQueue (PendingQueueSpec): no event is lost,
   runs twice, early or out of turn, whatever callbacks insert. *)
THEOREM Implements == Spec => PendingQueueSpec
<1>1. Init => Q!Init
  <2> SUFFICES ASSUME Init PROVE Q!Init
    OBVIOUS
  <2>1. IInv /\ clock = 0
    BY InitIInv DEF Init
  <2>2. Queue = QueueOf(deadline_ns, Length, Place) /\ Length \in Nat /\ (g_head = NULL <=> Length = 0)
    BY <2>1, QueueNow, Reading DEF IInv
  <2>3. Length = 0
    BY <2>2 DEF Init, g_head
  <2>4. Queue = <<>>
    BY <2>2, <2>3 DEF QueueOf
  <2> QED BY <2>1, <2>4 DEF Q!Init
<1>2. IInv /\ [Next]_vars => [Q!Next]_Q!vars
  <2> SUFFICES ASSUME IInv, [Next]_vars PROVE [Q!Next]_Q!vars
    OBVIOUS
  <2>1. ASSUME link' = link, deadline_ns' = deadline_ns PROVE Queue' = Queue
    BY <2>1, QueueKept
  <2>2. CASE Link
    <3>1. Q!Insert(ev, deadline_ns[ev])
      BY <2>2, LinkInserts
    <3>2. ev \in Events /\ deadline_ns[ev] \in 0 .. MaxTime
      BY <2>2 DEF IInv, Pointing, TypeOK, Link
    <3> QED BY <3>1, <3>2 DEF Q!Next
  <2>3. CASE Pop
    BY <2>3, PopRuns DEF Q!Next
  <2>4. ASSUME NEW e \in Events, NEW x \in 0 .. MaxTime, Call(e, x) PROVE UNCHANGED Q!vars
    BY <2>4, CallKeeps DEF Q!vars, Call
  <2>5. CASE Tick
    <3>1. clock' > clock /\ Queue' = Queue
      <4>1. clock \in Nat
        BY MaxTimeAssumption DEF IInv, TypeOK
      <4> QED BY <4>1, <2>1, <2>5 DEF Tick
    <3> QED BY <3>1 DEF Q!Pass, Q!Next
  <2>6. CASE Walk \/ Start \/ CallbackReturns \/ Finish \/ UNCHANGED vars
    <3>1. link' = link /\ deadline_ns' = deadline_ns /\ clock' = clock
      BY <2>6 DEF Walk, Start, CallbackReturns, Finish, vars
    <3> QED BY <2>1, <3>1 DEF Q!vars
  <2> QED BY <2>2, <2>3, <2>4, <2>5, <2>6 DEF Next
<1> QED BY <1>1, <1>2, Invariant, PTL DEF Spec, PendingQueueSpec, Q!Spec
=============================================================================
